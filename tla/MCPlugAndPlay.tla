---------------------------- MODULE MCPlugAndPlay ----------------------------
(***************************************************************************)
(* Instance of PlugAndPlay for model checking: a plug-in with a long name  *)
(* that is moved, and one with a short name that is copied.                *)
(***************************************************************************)
EXTENDS PlugAndPlay

CONSTANTS moved, copied

MCFiles     == {moved, copied}
MCMoved     == {moved}
MCLongNames == {moved}
==============================================================================
