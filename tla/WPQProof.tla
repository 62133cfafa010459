------------------------------ MODULE WPQProof -------------------------------
(***************************************************************************)
(* Proofs about WPQ, for every set of producers, consumers and elements.   *)
(***************************************************************************)
EXTENDS WPQ, FiniteSetTheorems, TLAPS

(***************************************************************************)
(* Type correctness.                                                       *)
(***************************************************************************)
LEMMA TypeStep == TypeOK /\ [Next]_vars => TypeOK'
<1> SUFFICES ASSUME TypeOK, [Next]_vars PROVE TypeOK'
  OBVIOUS
<1> USE ThreadsAssumption DEF TypeOK, Threads, PushPoints, PopPoints, Cleared
<1>1. ASSUME NEW p \in Producers, NEW i \in Items, PushCall(p, i) PROVE TypeOK'
  BY <1>1 DEF PushCall
<1>2. ASSUME NEW p \in Producers, PushLock(p) PROVE TypeOK'
  BY <1>2 DEF PushLock
<1>3. ASSUME NEW p \in Producers, PushInsert(p) PROVE TypeOK'
  BY <1>3 DEF PushInsert
<1>4. ASSUME NEW p \in Producers, PushNotify(p) PROVE TypeOK'
  <2>1. CASE pc' = [pc EXCEPT ![p] = "idle"]
    BY <1>4, <2>1 DEF PushNotify
  <2>2. ASSUME NEW c \in Waiters, pc' = [pc EXCEPT ![p] = "idle", ![c] = "pop_lock"]
        PROVE  TypeOK'
    BY <1>4, <2>2 DEF PushNotify, Waiters
  <2>. QED  BY <1>4, <2>1, <2>2 DEF PushNotify, NotifyOne
<1>5. ASSUME NEW c \in Consumers, PopCall(c) PROVE TypeOK'
  BY <1>5 DEF PopCall
<1>6. ASSUME NEW c \in Consumers, PopLock(c) PROVE TypeOK'
  BY <1>6 DEF PopLock
<1>7. ASSUME NEW c \in Consumers, PopWait(c) PROVE TypeOK'
  BY <1>7 DEF PopWait
<1>8. ASSUME NEW c \in Consumers, PopTest(c) PROVE TypeOK'
  BY <1>8 DEF PopTest
<1>9. ASSUME NEW c \in Consumers, PopTake(c) PROVE TypeOK'
  BY <1>9 DEF PopTake, Top
<1>10. ASSUME NEW c \in Consumers, Spurious(c) PROVE TypeOK'
  BY <1>10 DEF Spurious
<1>11. CASE UNCHANGED vars
  BY <1>11 DEF vars
<1>12. ASSUME NEW p \in Producers, ClearCall(p) PROVE TypeOK'
  BY <1>12 DEF ClearCall
<1>13. ASSUME NEW p \in Producers, Clear(p) PROVE TypeOK'
  BY <1>13 DEF Clear
<1>. QED
  BY <1>1, <1>2, <1>3, <1>4, <1>5, <1>6, <1>7, <1>8, <1>9, <1>10, <1>11,
     <1>12, <1>13 DEF Next, PushStep, PopStep

\* The members of the queue and the callers' locals keep their types.
THEOREM TypeCorrect == Spec => []TypeOK
<1>1. Init => TypeOK
  BY ThreadsAssumption DEF Init, TypeOK, Threads, PushPoints, PopPoints, Cleared
<1>. QED  BY <1>1, TypeStep, PTL DEF Spec, SafeSpec

(***************************************************************************)
(* The mutex.                                                              *)
(***************************************************************************)
LEMMA MutexStep == TypeOK /\ MutualExclusion /\ [Next]_vars => MutualExclusion'
<1> SUFFICES ASSUME TypeOK, MutualExclusion, [Next]_vars PROVE MutualExclusion'
  OBVIOUS
<1> USE ThreadsAssumption DEF TypeOK, MutualExclusion, Threads, Critical
<1>1. ASSUME NEW p \in Producers, NEW i \in Items, PushCall(p, i)
      PROVE  MutualExclusion'
  BY <1>1 DEF PushCall
<1>2. ASSUME NEW p \in Producers, PushLock(p) PROVE MutualExclusion'
  BY <1>2 DEF PushLock
<1>3. ASSUME NEW p \in Producers, PushInsert(p) PROVE MutualExclusion'
  BY <1>3 DEF PushInsert
<1>4. ASSUME NEW p \in Producers, PushNotify(p) PROVE MutualExclusion'
  <2>1. CASE pc' = [pc EXCEPT ![p] = "idle"]
    BY <1>4, <2>1 DEF PushNotify
  <2>2. ASSUME NEW c \in Waiters, pc' = [pc EXCEPT ![p] = "idle", ![c] = "pop_lock"]
        PROVE  MutualExclusion'
    BY <1>4, <2>2 DEF PushNotify, Waiters
  <2>. QED  BY <1>4, <2>1, <2>2 DEF PushNotify, NotifyOne
<1>5. ASSUME NEW c \in Consumers, PopCall(c) PROVE MutualExclusion'
  BY <1>5 DEF PopCall
<1>6. ASSUME NEW c \in Consumers, PopLock(c) PROVE MutualExclusion'
  BY <1>6 DEF PopLock
<1>7. ASSUME NEW c \in Consumers, PopWait(c) PROVE MutualExclusion'
  BY <1>7 DEF PopWait
<1>8. ASSUME NEW c \in Consumers, PopTest(c) PROVE MutualExclusion'
  BY <1>8 DEF PopTest
<1>9. ASSUME NEW c \in Consumers, PopTake(c) PROVE MutualExclusion'
  BY <1>9 DEF PopTake
<1>10. ASSUME NEW c \in Consumers, Spurious(c) PROVE MutualExclusion'
  BY <1>10 DEF Spurious
<1>11. CASE UNCHANGED vars
  BY <1>11 DEF vars
<1>12. ASSUME NEW p \in Producers, ClearCall(p) PROVE MutualExclusion'
  BY <1>12 DEF ClearCall
<1>13. ASSUME NEW p \in Producers, Clear(p) PROVE MutualExclusion'
  BY <1>13 DEF Clear
<1>. QED
  BY <1>1, <1>2, <1>3, <1>4, <1>5, <1>6, <1>7, <1>8, <1>9, <1>10, <1>11,
     <1>12, <1>13 DEF Next, PushStep, PopStep

\* Whoever is between the lock and the unlock of Push or Pop holds m_mutex,
\* and nobody else is: the container is never touched by two threads.
THEOREM MutexCorrect == Spec => []MutualExclusion
<1>1. Init => MutualExclusion
  BY ThreadsAssumption DEF Init, MutualExclusion, Critical, Threads
<1>. QED  BY <1>1, TypeCorrect, MutexStep, PTL DEF Spec, SafeSpec

(***************************************************************************)
(* No Pop finds the container empty after its wait.  PopTest saw it        *)
(* non-empty, and only a thread that holds m_mutex removes an element.     *)
(***************************************************************************)
LEMMA TakeStep ==
  TypeOK /\ MutualExclusion /\ TakeNeverEmpty /\ [Next]_vars => TakeNeverEmpty'
<1> SUFFICES ASSUME TypeOK, MutualExclusion, TakeNeverEmpty, [Next]_vars
             PROVE  TakeNeverEmpty'
  OBVIOUS
<1> USE ThreadsAssumption DEF TypeOK, TakeNeverEmpty, Threads
<1>1. ASSUME NEW p \in Producers, NEW i \in Items, PushCall(p, i)
      PROVE  TakeNeverEmpty'
  BY <1>1 DEF PushCall
<1>2. ASSUME NEW p \in Producers, PushLock(p) PROVE TakeNeverEmpty'
  BY <1>2 DEF PushLock
<1>3. ASSUME NEW p \in Producers, PushInsert(p) PROVE TakeNeverEmpty'
  BY <1>3 DEF PushInsert
<1>4. ASSUME NEW p \in Producers, PushNotify(p) PROVE TakeNeverEmpty'
  <2>1. CASE pc' = [pc EXCEPT ![p] = "idle"]
    BY <1>4, <2>1 DEF PushNotify
  <2>2. ASSUME NEW c \in Waiters, pc' = [pc EXCEPT ![p] = "idle", ![c] = "pop_lock"]
        PROVE  TakeNeverEmpty'
    BY <1>4, <2>2 DEF PushNotify, Waiters
  <2>. QED  BY <1>4, <2>1, <2>2 DEF PushNotify, NotifyOne
<1>5. ASSUME NEW c \in Consumers, PopCall(c) PROVE TakeNeverEmpty'
  BY <1>5 DEF PopCall
<1>6. ASSUME NEW c \in Consumers, PopLock(c) PROVE TakeNeverEmpty'
  BY <1>6 DEF PopLock
<1>7. ASSUME NEW c \in Consumers, PopWait(c) PROVE TakeNeverEmpty'
  BY <1>7 DEF PopWait
<1>8. ASSUME NEW c \in Consumers, PopTest(c) PROVE TakeNeverEmpty'
  BY <1>8 DEF PopTest
<1>9. ASSUME NEW c \in Consumers, PopTake(c) PROVE TakeNeverEmpty'
  \* c holds m_mutex, so no other consumer is at "pop_take".
  <2>1. \A d \in Consumers : pc[d] = "pop_take" => d = c
    BY <1>9 DEF PopTake, MutualExclusion, Critical
  <2>. QED  BY <1>9, <2>1 DEF PopTake
<1>10. ASSUME NEW c \in Consumers, Spurious(c) PROVE TakeNeverEmpty'
  BY <1>10 DEF Spurious
<1>11. CASE UNCHANGED vars
  BY <1>11 DEF vars
<1>12. ASSUME NEW p \in Producers, ClearCall(p) PROVE TakeNeverEmpty'
  BY <1>12 DEF ClearCall
<1>13. ASSUME NEW p \in Producers, Clear(p) PROVE TakeNeverEmpty'
  \* m_mutex is free, so no consumer is at "pop_take".
  BY <1>13 DEF Clear, MutualExclusion, Critical
<1>. QED
  BY <1>1, <1>2, <1>3, <1>4, <1>5, <1>6, <1>7, <1>8, <1>9, <1>10, <1>11,
     <1>12, <1>13 DEF Next, PushStep, PopStep

\* The branch of Pop that returns an empty shared_ptr is never taken: the
\* worker that calls task->Execute() on the result never dereferences null.
THEOREM TakeCorrect == Spec => []TakeNeverEmpty
<1>1. Init => TakeNeverEmpty
  BY ThreadsAssumption DEF Init, TakeNeverEmpty, Threads
<1>. QED  BY <1>1, TypeCorrect, MutexCorrect, TakeStep, PTL DEF Spec, SafeSpec

(***************************************************************************)
(* An element is in one place.                                             *)
(***************************************************************************)
LEMMA PlaceStep == TypeOK /\ OnePlace /\ [Next]_vars => OnePlace'
<1> SUFFICES ASSUME TypeOK, OnePlace, [Next]_vars PROVE OnePlace'
  OBVIOUS
<1> USE ThreadsAssumption DEF TypeOK, OnePlace, Threads, PushPoints
<1>1. ASSUME NEW p \in Producers, NEW i \in Items, PushCall(p, i) PROVE OnePlace'
  BY <1>1 DEF PushCall, Fresh
<1>2. ASSUME NEW p \in Producers, PushLock(p) PROVE OnePlace'
  BY <1>2 DEF PushLock
<1>3. ASSUME NEW p \in Producers, PushInsert(p) PROVE OnePlace'
  BY <1>3 DEF PushInsert
<1>4. ASSUME NEW p \in Producers, PushNotify(p) PROVE OnePlace'
  <2>1. CASE pc' = [pc EXCEPT ![p] = "idle"]
    BY <1>4, <2>1 DEF PushNotify
  <2>2. ASSUME NEW c \in Waiters, pc' = [pc EXCEPT ![p] = "idle", ![c] = "pop_lock"]
        PROVE  OnePlace'
    BY <1>4, <2>2 DEF PushNotify, Waiters
  <2>. QED  BY <1>4, <2>1, <2>2 DEF PushNotify, NotifyOne
<1>5. ASSUME NEW c \in Consumers, PopCall(c) PROVE OnePlace'
  BY <1>5 DEF PopCall
<1>6. ASSUME NEW c \in Consumers, PopLock(c) PROVE OnePlace'
  BY <1>6 DEF PopLock
<1>7. ASSUME NEW c \in Consumers, PopWait(c) PROVE OnePlace'
  BY <1>7 DEF PopWait
<1>8. ASSUME NEW c \in Consumers, PopTest(c) PROVE OnePlace'
  BY <1>8 DEF PopTest
<1>9. ASSUME NEW c \in Consumers, PopTake(c) PROVE OnePlace'
  BY <1>9 DEF PopTake, Top
<1>10. ASSUME NEW c \in Consumers, Spurious(c) PROVE OnePlace'
  BY <1>10 DEF Spurious
<1>11. CASE UNCHANGED vars
  BY <1>11 DEF vars
<1>12. ASSUME NEW p \in Producers, ClearCall(p) PROVE OnePlace'
  BY <1>12 DEF ClearCall
<1>13. ASSUME NEW p \in Producers, Clear(p) PROVE OnePlace'
  BY <1>13 DEF Clear
<1>. QED
  BY <1>1, <1>2, <1>3, <1>4, <1>5, <1>6, <1>7, <1>8, <1>9, <1>10, <1>11,
     <1>12, <1>13 DEF Next, PushStep, PopStep

\* No element is duplicated by Push and Pop: it is an argument still to be
\* inserted, in the container, the result of one Pop, or cleared.
THEOREM PlaceCorrect == Spec => []OnePlace
<1>1. Init => OnePlace
  BY ThreadsAssumption DEF Init, OnePlace, Threads
<1>. QED  BY <1>1, TypeCorrect, PlaceStep, PTL DEF Spec, SafeSpec

(***************************************************************************)
(* No wake-up is lost.  Cardinalities are handled by two lemmas: the sets  *)
(* that are counted are finite, and one that is unchanged or grows by one  *)
(* member changes its count accordingly.                                   *)
(***************************************************************************)
LEMMA Counts ==
  ASSUME TypeOK
  PROVE  /\ IsFiniteSet(m_wpq)     /\ Cardinality(m_wpq) \in Nat
         /\ IsFiniteSet(Awake)     /\ Cardinality(Awake) \in Nat
         /\ IsFiniteSet(Notifying) /\ Cardinality(Notifying) \in Nat
<1>1. /\ IsFiniteSet(Items)     /\ m_wpq \in SUBSET Items
      /\ IsFiniteSet(Consumers) /\ Awake \in SUBSET Consumers
      /\ IsFiniteSet(Producers) /\ Notifying \in SUBSET Producers
  BY ThreadsAssumption DEF TypeOK, Awake, Notifying
<1>2. IsFiniteSet(m_wpq) /\ IsFiniteSet(Awake) /\ IsFiniteSet(Notifying)
  BY <1>1, FS_Subset
<1>. QED  BY <1>2, FS_CardinalityType

\* An element added to a finite set adds at most one to its cardinality.
LEMMA AddOne ==
  ASSUME NEW S, NEW x, IsFiniteSet(S)
  PROVE  /\ Cardinality(S) <= Cardinality(S \cup {x})
         /\ Cardinality(S \cup {x}) <= Cardinality(S) + 1
<1>1. Cardinality(S) \in Nat
  BY FS_CardinalityType
<1>2. CASE x \in S
  <2>1. Cardinality(S \cup {x}) = Cardinality(S)
    BY <1>2, FS_AddElement
  <2>. QED  BY <1>1, <2>1
<1>3. CASE x \notin S
  <2>1. Cardinality(S \cup {x}) = Cardinality(S) + 1
    BY <1>3, FS_AddElement
  <2>. QED  BY <1>1, <2>1
<1>. QED  BY <1>2, <1>3

LEMMA WakeupStep == TypeOK /\ NoLostWakeup /\ [Next]_vars => NoLostWakeup'
<1> SUFFICES ASSUME TypeOK, NoLostWakeup, [Next]_vars PROVE NoLostWakeup'
  OBVIOUS
<1>0. /\ IsFiniteSet(m_wpq)     /\ Cardinality(m_wpq) \in Nat
      /\ IsFiniteSet(Awake)     /\ Cardinality(Awake) \in Nat
      /\ IsFiniteSet(Notifying) /\ Cardinality(Notifying) \in Nat
  BY Counts
<1>t. TypeOK'
  BY TypeStep
<1>c. /\ Cardinality(m_wpq') \in Nat
      /\ Cardinality(Awake') \in Nat /\ Cardinality(Notifying') \in Nat
  <2>1. /\ IsFiniteSet(Items)     /\ m_wpq' \in SUBSET Items
        /\ IsFiniteSet(Consumers) /\ Awake' \in SUBSET Consumers
        /\ IsFiniteSet(Producers) /\ Notifying' \in SUBSET Producers
    BY <1>t, ThreadsAssumption DEF TypeOK, Awake, Notifying
  <2>2. IsFiniteSet(m_wpq') /\ IsFiniteSet(Awake') /\ IsFiniteSet(Notifying')
    BY <2>1, FS_Subset
  <2>. QED  BY <2>2, FS_CardinalityType
<1> USE ThreadsAssumption DEF TypeOK, Threads
<1>a. CASE m_wpq' = m_wpq /\ Awake' = Awake /\ Notifying' = Notifying
           /\ Waiters' = Waiters
  BY <1>a DEF NoLostWakeup
<1>1. ASSUME NEW p \in Producers, NEW i \in Items, PushCall(p, i)
      PROVE  NoLostWakeup'
  BY <1>1, <1>a DEF PushCall, Awake, Notifying, Waiters
<1>2. ASSUME NEW p \in Producers, PushLock(p) PROVE NoLostWakeup'
  BY <1>2, <1>a DEF PushLock, Awake, Notifying, Waiters
<1>3. ASSUME NEW p \in Producers, PushInsert(p) PROVE NoLostWakeup'
  <2>1. m_wpq' = m_wpq \cup {arg[p]} /\ Awake' = Awake /\ Waiters' = Waiters
    BY <1>3 DEF PushInsert, Awake, Waiters
  <2>2. Notifying' = Notifying \cup {p} /\ p \notin Notifying
    BY <1>3 DEF PushInsert, Notifying
  <2>3. Cardinality(m_wpq') <= Cardinality(m_wpq) + 1
    BY <2>1, <1>0, AddOne
  <2>4. Cardinality(Notifying') = Cardinality(Notifying) + 1
    BY <2>2, <1>0, FS_AddElement
  <2>. QED  BY <1>0, <1>c, <2>1, <2>3, <2>4 DEF NoLostWakeup
<1>4. ASSUME NEW p \in Producers, PushNotify(p) PROVE NoLostWakeup'
  <2>1. CASE Waiters = {} /\ pc' = [pc EXCEPT ![p] = "idle"]
    BY <2>1 DEF NoLostWakeup, Waiters
  <2>2. ASSUME NEW c \in Waiters, pc' = [pc EXCEPT ![p] = "idle", ![c] = "pop_lock"]
        PROVE  NoLostWakeup'
    <3>1. m_wpq' = m_wpq /\ Waiters # {}
      BY <1>4, <2>2 DEF PushNotify
    <3>2. Awake' = Awake \cup {c} /\ c \notin Awake
      BY <2>2 DEF Awake, Waiters
    <3>3. Notifying' = Notifying \ {p} /\ p \in Notifying
      BY <1>4, <2>2 DEF PushNotify, Notifying, Waiters
    <3>4. Cardinality(Awake') = Cardinality(Awake) + 1
      BY <3>2, <1>0, FS_AddElement
    <3>5. Cardinality(Notifying') = Cardinality(Notifying) - 1
      BY <3>3, <1>0, FS_RemoveElement
    <3>. QED  BY <1>0, <1>c, <3>1, <3>4, <3>5 DEF NoLostWakeup
  <2>. QED  BY <1>4, <2>1, <2>2 DEF PushNotify, NotifyOne
<1>b. ASSUME NEW c \in Consumers, m_wpq' = m_wpq, Notifying' = Notifying,
             Awake' = Awake \cup {c}, Waiters' \subseteq Waiters
      PROVE  NoLostWakeup'
  <2>1. Cardinality(Awake') >= Cardinality(Awake)
    BY <1>b, <1>0, AddOne
  <2>. QED  BY <1>0, <1>c, <1>b, <2>1 DEF NoLostWakeup
<1>5. ASSUME NEW c \in Consumers, PopCall(c) PROVE NoLostWakeup'
  <2>1. /\ m_wpq' = m_wpq /\ Notifying' = Notifying
        /\ Awake' = Awake \cup {c} /\ Waiters' \subseteq Waiters
    BY <1>5 DEF PopCall, Awake, Notifying, Waiters
  <2>. QED  BY <2>1, <1>b
<1>6. ASSUME NEW c \in Consumers, PopLock(c) PROVE NoLostWakeup'
  BY <1>6, <1>a DEF PopLock, Awake, Notifying, Waiters
<1>7. ASSUME NEW c \in Consumers, PopWait(c) PROVE NoLostWakeup'
  <2>1. Cardinality(m_wpq') = 0
    BY <1>7, FS_EmptySet DEF PopWait
  <2>. QED  BY <1>c, <2>1 DEF NoLostWakeup
<1>8. ASSUME NEW c \in Consumers, PopTest(c) PROVE NoLostWakeup'
  BY <1>8, <1>a DEF PopTest, Awake, Notifying, Waiters
<1>9. ASSUME NEW c \in Consumers, PopTake(c) PROVE NoLostWakeup'
  <2>1. PICK i \in Top : m_wpq' = m_wpq \ {i}
    BY <1>9 DEF PopTake
  <2>2. i \in m_wpq
    BY DEF Top
  <2>3. Cardinality(m_wpq') = Cardinality(m_wpq) - 1
    BY <1>0, <2>1, <2>2, FS_RemoveElement
  <2>4. Awake' = Awake \ {c} /\ c \in Awake
    BY <1>9 DEF PopTake, Awake
  <2>5. Cardinality(Awake') = Cardinality(Awake) - 1
    BY <1>0, <2>4, FS_RemoveElement
  <2>6. Notifying' = Notifying /\ Waiters' = Waiters
    BY <1>9 DEF PopTake, Notifying, Waiters
  <2>. QED  BY <1>0, <1>c, <2>3, <2>5, <2>6 DEF NoLostWakeup
<1>10. ASSUME NEW c \in Consumers, Spurious(c) PROVE NoLostWakeup'
  <2>1. /\ m_wpq' = m_wpq /\ Notifying' = Notifying
        /\ Awake' = Awake \cup {c} /\ Waiters' \subseteq Waiters
    BY <1>10 DEF Spurious, Awake, Notifying, Waiters
  <2>. QED  BY <2>1, <1>b
<1>11. CASE UNCHANGED vars
  BY <1>11, <1>a DEF vars, Awake, Notifying, Waiters
<1>12. ASSUME NEW p \in Producers, ClearCall(p) PROVE NoLostWakeup'
  BY <1>12, <1>a DEF ClearCall, Awake, Notifying, Waiters
<1>13. ASSUME NEW p \in Producers, Clear(p) PROVE NoLostWakeup'
  <2>1. Cardinality(m_wpq') = 0
    BY <1>13, FS_EmptySet DEF Clear
  <2>. QED  BY <1>c, <2>1 DEF NoLostWakeup
<1>. QED
  BY <1>1, <1>2, <1>3, <1>4, <1>5, <1>6, <1>7, <1>8, <1>9, <1>10, <1>11,
     <1>12, <1>13 DEF Next, PushStep, PopStep

\* One notify_one per Push is enough, with any number of threads: while a
\* consumer sleeps, each element in the container has a consumer that is awake
\* or a producer about to notify one.
THEOREM WakeupCorrect == Spec => []NoLostWakeup
<1>1. Init => NoLostWakeup
  BY ThreadsAssumption DEF Init, NoLostWakeup, Waiters, Threads
<1>. QED  BY <1>1, TypeCorrect, WakeupStep, PTL DEF Spec, SafeSpec

(***************************************************************************)
(* A finite set that is not empty has an element of the highest priority.  *)
(* The sets Above(i) are ordered by strict inclusion, which is             *)
(* well-founded; a smallest one is empty.                                  *)
(***************************************************************************)
Above(i) == {j \in m_wpq : Priority[j] > Priority[i]}

LEMMA TopExists ==
  ASSUME TypeOK, m_wpq # {}
  PROVE  Top # {}
<1> DEFINE T == {Above(i) : i \in m_wpq}
<1>1. IsFiniteSet(m_wpq) /\ \A i \in m_wpq : Priority[i] \in Nat
  BY Counts, ThreadsAssumption DEF TypeOK
<1>2. IsWellFoundedOn(StrictSubsetOrdering(m_wpq), SUBSET m_wpq)
  <2>1. FiniteSubsetsOf(m_wpq) = SUBSET m_wpq
    BY <1>1, FS_FiniteSubsetsOfFinite
  <2>2. IsWellFoundedOn(StrictSubsetOrdering(m_wpq), FiniteSubsetsOf(m_wpq))
    BY FS_StrictSubsetOrderingWellFounded
  <2>. QED  BY <2>1, <2>2
<1>3. T \subseteq SUBSET m_wpq /\ T # {}
  BY DEF Above
<1>4. \E x \in T : \A y \in T : ~(<<y, x>> \in StrictSubsetOrdering(m_wpq))
  BY <1>2, <1>3, WFMin
<1>5. PICK i \in m_wpq :
        \A j \in m_wpq : <<Above(j), Above(i)>> \notin StrictSubsetOrdering(m_wpq)
  BY <1>4
<1>6. Above(i) = {}
  <2> SUFFICES ASSUME NEW j \in Above(i) PROVE FALSE
    OBVIOUS
  <2>1. j \in m_wpq /\ Priority[j] > Priority[i] /\ j \notin Above(j)
    BY <1>1 DEF Above
  <2>2. \A k \in Above(j) : k \in Above(i)
    BY <1>1, <2>1 DEF Above
  <2>3. Above(j) \subseteq Above(i) /\ Above(j) # Above(i)
    BY <2>1, <2>2
  <2>4. Above(j) \in SUBSET m_wpq /\ Above(i) \in SUBSET m_wpq
    BY DEF Above
  <2>5. <<Above(j), Above(i)>> \in StrictSubsetOrdering(m_wpq)
    BY <2>3, <2>4 DEF StrictSubsetOrdering
  <2>. QED  BY <1>5, <2>1, <2>5
<1>7. i \in Top
  BY <1>1, <1>6 DEF Above, Top
<1>. QED  BY <1>7

LEMMA NotStuck ==
  TypeOK /\ MutualExclusion /\ TakeNeverEmpty /\ NoLostWakeup => NeverStuck
<1> SUFFICES ASSUME TypeOK, MutualExclusion, TakeNeverEmpty, NoLostWakeup
             PROVE  NeverStuck
  OBVIOUS
<1> USE DEF TypeOK, PushPoints, PopPoints, Threads
\* The holder of m_mutex can go on, and when there is none anybody who waits
\* for it can take it.
<1>1. ASSUME NEW h \in Threads, m_mutex = h PROVE CanStep(h)
  <2>1. pc[h] \in Critical
    BY <1>1 DEF MutualExclusion
  <2>2. CASE pc[h] = "pop_take"
    <3>1. h \in Consumers
      BY <2>2
    <3>2. m_wpq # {}
      BY <2>2, <3>1 DEF TakeNeverEmpty
    <3>. QED  BY <2>2, <3>2, TopExists DEF CanStep
  <2>. QED  BY <2>1, <2>2 DEF Critical, CanStep
<1>2. ASSUME NEW t \in Threads, pc[t] \notin {"idle", "pop_wait"}
      PROVE  \E u \in Threads : CanStep(u)
  <2>1. CASE m_mutex = NoThread
    <3>1. pc[t] \notin Critical
      BY <2>1, ThreadsAssumption DEF MutualExclusion
    <3>2. pc[t] \in {"push_lock", "clear_lock", "pop_lock"}
      BY <1>2, <3>1 DEF Critical
    <3>. QED  BY <2>1, <3>2 DEF CanStep
  <2>2. CASE m_mutex # NoThread
    BY <2>2, <1>1
  <2>. QED  BY <2>1, <2>2
\* Elements and a consumer that asks: it is inside Pop, or asleep and somebody
\* else is awake or about to notify.
<1>3. ASSUME m_wpq # {}, NEW c \in Consumers, pc[c] # "idle"
      PROVE  \E t \in Threads : pc[t] \notin {"idle", "pop_wait"}
  <2>1. CASE pc[c] # "pop_wait"
    BY <1>3, <2>1
  <2>2. CASE pc[c] = "pop_wait"
    <3>1. IsFiniteSet(m_wpq) /\ Cardinality(m_wpq) \in Nat
      BY Counts
    <3>2. Cardinality(m_wpq) # 0
      BY <1>3, <3>1, FS_EmptySet
    <3>3. Cardinality(m_wpq) <= Cardinality(Awake) + Cardinality(Notifying)
      BY <2>2 DEF NoLostWakeup, Waiters
    <3>4. Awake # {} \/ Notifying # {}
      <4> SUFFICES ASSUME Awake = {}, Notifying = {} PROVE FALSE
        OBVIOUS
      <4>1. Cardinality(Awake) = 0 /\ Cardinality(Notifying) = 0
        BY FS_EmptySet
      <4>. QED  BY <3>1, <3>2, <3>3, <4>1
    <3>. QED  BY <3>4 DEF Awake, Notifying
  <2>. QED  BY <2>1, <2>2
<1>. QED  BY <1>2, <1>3 DEF NeverStuck

\* Push, Pop and Clear never block each other for ever, with any number of
\* threads: this is what, with fair scheduling, makes every Pop that finds
\* elements return.
THEOREM NeverStuckCorrect == Spec => []NeverStuck
BY TypeCorrect, MutexCorrect, TakeCorrect, WakeupCorrect, NotStuck, PTL

(***************************************************************************)
(* The safety part of the refinement: every step of Push and Pop is a step *)
(* of the abstract queue or leaves its state alone.                        *)
(***************************************************************************)
LEMMA QueueStep == TypeOK /\ OnePlace /\ [Next]_vars => [Queue!Next]_(Queue!vars)
<1> SUFFICES ASSUME TypeOK, OnePlace, [Next]_vars
             PROVE  [Queue!Next]_(Queue!vars)
  OBVIOUS
<1> USE ThreadsAssumption DEF TypeOK, Threads
<1>s. CASE place' = place /\ asking' = asking
  BY <1>s DEF Queue!vars
<1>1. ASSUME NEW p \in Producers, NEW i \in Items, PushCall(p, i)
      PROVE  [Queue!Next]_(Queue!vars)
  BY <1>1, <1>s DEF PushCall, place, asking
<1>2. ASSUME NEW p \in Producers, PushLock(p) PROVE [Queue!Next]_(Queue!vars)
  BY <1>2, <1>s DEF PushLock, place, asking
<1>3. ASSUME NEW p \in Producers, PushInsert(p) PROVE [Queue!Next]_(Queue!vars)
  <2>1. /\ arg[p] \in Items /\ arg[p] \notin m_wpq /\ result[arg[p]] = NoThread
    BY <1>3 DEF PushInsert, OnePlace
  <2>2. place[arg[p]] = "unborn"
    BY <2>1 DEF place
  <2>3. place' = [place EXCEPT ![arg[p]] = "queued"]
    BY <1>3, <2>1 DEF PushInsert, place
  <2>4. asking' = asking
    BY <1>3 DEF PushInsert, asking
  <2>. QED  BY <2>1, <2>2, <2>3, <2>4 DEF Queue!Next, Queue!Put, Queue!Unborn, Queue!Queued
<1>4. ASSUME NEW p \in Producers, PushNotify(p) PROVE [Queue!Next]_(Queue!vars)
  <2>1. CASE pc' = [pc EXCEPT ![p] = "idle"]
    BY <1>4, <2>1, <1>s DEF PushNotify, place, asking
  <2>2. ASSUME NEW c \in Waiters, pc' = [pc EXCEPT ![p] = "idle", ![c] = "pop_lock"]
        PROVE  [Queue!Next]_(Queue!vars)
    BY <1>4, <2>2, <1>s DEF PushNotify, Waiters, place, asking
  <2>. QED  BY <1>4, <2>1, <2>2 DEF PushNotify, NotifyOne
<1>5. ASSUME NEW c \in Consumers, PopCall(c) PROVE [Queue!Next]_(Queue!vars)
  BY <1>5 DEF PopCall, place, asking, Queue!Next, Queue!Ask
<1>6. ASSUME NEW c \in Consumers, PopLock(c) PROVE [Queue!Next]_(Queue!vars)
  BY <1>6, <1>s DEF PopLock, place, asking
<1>7. ASSUME NEW c \in Consumers, PopWait(c) PROVE [Queue!Next]_(Queue!vars)
  BY <1>7, <1>s DEF PopWait, place, asking
<1>8. ASSUME NEW c \in Consumers, PopTest(c) PROVE [Queue!Next]_(Queue!vars)
  BY <1>8, <1>s DEF PopTest, place, asking
<1>9. ASSUME NEW c \in Consumers, PopTake(c) PROVE [Queue!Next]_(Queue!vars)
  <2>1. PICK i \in Top : /\ m_wpq' = m_wpq \ {i}
                         /\ result' = [result EXCEPT ![i] = c]
    BY <1>9 DEF PopTake
  <2>2. i \in m_wpq /\ i \in Items /\ \A j \in m_wpq : Priority[j] <= Priority[i]
    BY DEF Top
  <2>3. place[i] = "queued"
    BY <2>2 DEF place
  <2>4. \A j \in Items : place[j] = "queued" => j \in m_wpq
    BY DEF place, Cleared
  <2>5. place' = [place EXCEPT ![i] = c]
    BY <2>1, <2>2 DEF place
  <2>6. c \in asking /\ asking' = asking \ {c}
    BY <1>9 DEF PopTake, asking
  <2>7. Queue!Take(c, i)
    BY <2>2, <2>3, <2>4, <2>5, <2>6 DEF Queue!Take, Queue!Queued
  <2>. QED  BY <2>2, <2>7 DEF Queue!Next, Queue!TakeAny
<1>10. ASSUME NEW c \in Consumers, Spurious(c) PROVE [Queue!Next]_(Queue!vars)
  BY <1>10, <1>s DEF Spurious, place, asking
<1>11. CASE UNCHANGED vars
  BY <1>11, <1>s DEF vars, place, asking
<1>12. ASSUME NEW p \in Producers, ClearCall(p) PROVE [Queue!Next]_(Queue!vars)
  BY <1>12, <1>s DEF ClearCall, place, asking
<1>13. ASSUME NEW p \in Producers, Clear(p) PROVE [Queue!Next]_(Queue!vars)
  <2>1. place' = [i \in Items |-> IF place[i] = "queued" THEN Cleared ELSE place[i]]
    BY <1>13 DEF Clear, place, Cleared
  <2>2. asking' = asking
    BY <1>13 DEF Clear, asking
  <2>. QED  BY <2>1, <2>2 DEF Queue!Next, Queue!Drop, Queue!Queued, Queue!Cleared, Cleared
<1>. QED
  BY <1>1, <1>2, <1>3, <1>4, <1>5, <1>6, <1>7, <1>8, <1>9, <1>10, <1>11,
     <1>12, <1>13 DEF Next, PushStep, PopStep

\* Push and Pop implement the abstract queue's Put and Take: an element goes
\* to one consumer that asked, and never before one of higher priority.
THEOREM QueueSafe == Spec => Queue!SafeSpec
<1>1. Init => Queue!Init
  BY ThreadsAssumption DEF Init, Queue!Init, Queue!Unborn, place, asking, Threads
<1>. QED
  BY <1>1, TypeCorrect, PlaceCorrect, QueueStep, PTL DEF Spec, SafeSpec, Queue!SafeSpec
==============================================================================
