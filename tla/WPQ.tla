--------------------------------- MODULE WPQ ---------------------------------
(***************************************************************************)
(* The waitable priority queue of include/pq.hpp: a std::priority_queue, a *)
(* mutex and a condition variable.  Every step of Push and Pop that        *)
(* another thread could observe is an action: taking m_mutex, testing the  *)
(* predicate of the wait, blocking, inserting, notifying, removing.        *)
(*                                                                         *)
(* The container is the set of the elements in it: which of several        *)
(* elements of the highest priority top() returns depends on the layout of *)
(* the heap, so Pop may take any of them.                                  *)
(***************************************************************************)
EXTENDS Integers, FiniteSets

CONSTANTS Producers,   \* threads that call Push and Clear
          Consumers,   \* threads that call Pop
          Items,       \* the elements pushed, each at most once
          Priority,    \* Items -> Nat, the order given by Compare
          NoThread,    \* m_mutex is free, or: no Pop returned the element
          NoItem       \* no argument

Threads == Producers \cup Consumers

\* What became of an element that Clear removed.
Cleared == "cleared"

ASSUME ThreadsAssumption ==
  /\ IsFiniteSet(Producers) /\ IsFiniteSet(Consumers) /\ IsFiniteSet(Items)
  /\ Producers \cap Consumers = {}
  /\ NoThread \notin Threads
  /\ NoItem \notin Items
  /\ Priority \in [Items -> Nat]
  /\ {"unborn", "queued", Cleared} \cap Threads = {}
  /\ Cleared # NoThread

VARIABLES m_wpq,    \* the elements in the container
          m_mutex,  \* the thread that holds it, or NoThread
          pc,       \* where each thread is in Push or Pop
          arg,      \* the argument of each producer's Push
          result    \* which consumer's Pop returned each element, or Cleared

vars == <<m_wpq, m_mutex, pc, arg, result>>

\* The threads blocked in m_cv.wait.
Waiters == {c \in Consumers : pc[c] = "pop_wait"}

\* No call of Push has been given the element yet.
Fresh(i) == /\ i \notin m_wpq
            /\ result[i] = NoThread
            /\ \A p \in Producers : arg[p] # i

\* The elements m_wpq.top() may return.
Top == {i \in m_wpq : \A j \in m_wpq : Priority[j] <= Priority[i]}

-----------------------------------------------------------------------------
Init == /\ m_wpq = {}
        /\ m_mutex = NoThread
        /\ pc = [t \in Threads |-> "idle"]
        /\ arg = [p \in Producers |-> NoItem]
        /\ result = [i \in Items |-> NoThread]

\* Push begins: lock_guard waits for m_mutex.
PushCall(p, i) == /\ pc[p] = "idle"
                  /\ Fresh(i)
                  /\ pc' = [pc EXCEPT ![p] = "push_lock"]
                  /\ arg' = [arg EXCEPT ![p] = i]
                  /\ UNCHANGED <<m_wpq, m_mutex, result>>

PushLock(p) == /\ pc[p] = "push_lock"
               /\ m_mutex = NoThread
               /\ m_mutex' = p
               /\ pc' = [pc EXCEPT ![p] = "push_insert"]
               /\ UNCHANGED <<m_wpq, arg, result>>

\* A Push that inserts an element it has already moved from.
MutPushInsert(p) == /\ pc[p] = "push_insert"
                    /\ m_wpq' = m_wpq \cup {NoItem}
                    /\ pc' = [pc EXCEPT ![p] = "push_notify"]
                    /\ UNCHANGED <<m_mutex, arg, result>>

PushInsert(p) == /\ pc[p] = "push_insert"
                 /\ m_wpq' = m_wpq \cup {arg[p]}
                 /\ pc' = [pc EXCEPT ![p] = "push_notify"]
                 /\ UNCHANGED <<m_mutex, arg, result>>

\* notify_one wakes one waiting thread, if there is one; it then has to take
\* m_mutex again.  The caller itself goes to "idle".
NotifyOne(p) ==
  \/ /\ Waiters = {}
     /\ pc' = [pc EXCEPT ![p] = "idle"]
  \/ \E c \in Waiters : pc' = [pc EXCEPT ![p] = "idle", ![c] = "pop_lock"]

\* A Push that notifies only when the element is the only one in the container.
MutPushNotify(p) == /\ pc[p] = "push_notify"
                    /\ IF Cardinality(m_wpq) = 1
                         THEN NotifyOne(p)
                         ELSE pc' = [pc EXCEPT ![p] = "idle"]
                    /\ m_mutex' = NoThread
                    /\ arg' = [arg EXCEPT ![p] = NoItem]
                    /\ UNCHANGED <<m_wpq, result>>

\* notify_one, then the lock_guard releases m_mutex.
PushNotify(p) == /\ pc[p] = "push_notify"
                 /\ NotifyOne(p)
                 /\ m_mutex' = NoThread
                 /\ arg' = [arg EXCEPT ![p] = NoItem]
                 /\ UNCHANGED <<m_wpq, result>>

\* Clear begins: lock_guard waits for m_mutex.
ClearCall(p) == /\ pc[p] = "idle"
                /\ pc' = [pc EXCEPT ![p] = "clear_lock"]
                /\ UNCHANGED <<m_wpq, m_mutex, arg, result>>

\* The loop of pops runs under m_mutex, and notifies nobody.
Clear(p) == /\ pc[p] = "clear_lock"
            /\ m_mutex = NoThread
            /\ m_wpq' = {}
            /\ result' = [i \in Items |-> IF i \in m_wpq THEN Cleared ELSE result[i]]
            /\ pc' = [pc EXCEPT ![p] = "idle"]
            /\ UNCHANGED <<m_mutex, arg>>

\* Pop begins: unique_lock waits for m_mutex.
PopCall(c) == /\ pc[c] = "idle"
              /\ pc' = [pc EXCEPT ![c] = "pop_lock"]
              /\ UNCHANGED <<m_wpq, m_mutex, arg, result>>

\* m_mutex taken, at the call and after each wake-up.
PopLock(c) == /\ pc[c] = "pop_lock"
              /\ m_mutex = NoThread
              /\ m_mutex' = c
              /\ pc' = [pc EXCEPT ![c] = "pop_test"]
              /\ UNCHANGED <<m_wpq, arg, result>>

\* The predicate is false: release m_mutex and block, in one step.
PopWait(c) == /\ pc[c] = "pop_test"
              /\ m_wpq = {}
              /\ m_mutex' = NoThread
              /\ pc' = [pc EXCEPT ![c] = "pop_wait"]
              /\ UNCHANGED <<m_wpq, arg, result>>

\* The predicate is true: the wait is over, m_mutex still held.
PopTest(c) == /\ pc[c] = "pop_test"
              /\ m_wpq # {}
              /\ pc' = [pc EXCEPT ![c] = "pop_take"]
              /\ UNCHANGED <<m_wpq, m_mutex, arg, result>>

\* A wait whose predicate is tested only at the call, not after a wake-up.
MutSpurious(c) == /\ pc[c] = "pop_wait"
                  /\ m_mutex = NoThread
                  /\ m_mutex' = c
                  /\ pc' = [pc EXCEPT ![c] = "pop_take"]
                  /\ UNCHANGED <<m_wpq, arg, result>>

\* The standard lets a wait return without a notify.
Spurious(c) == /\ pc[c] = "pop_wait"
               /\ pc' = [pc EXCEPT ![c] = "pop_lock"]
               /\ UNCHANGED <<m_wpq, m_mutex, arg, result>>

\* A Pop that takes any element, whatever its priority.
MutPopTake(c) == /\ pc[c] = "pop_take"
                 /\ \E i \in m_wpq :
                      /\ m_wpq' = m_wpq \ {i}
                      /\ result' = [result EXCEPT ![i] = c]
                 /\ m_mutex' = NoThread
                 /\ pc' = [pc EXCEPT ![c] = "idle"]
                 /\ UNCHANGED arg

\* top(), pop(), return; the unique_lock releases m_mutex.
PopTake(c) == /\ pc[c] = "pop_take"
              /\ \E i \in Top :
                   /\ m_wpq' = m_wpq \ {i}
                   /\ result' = [result EXCEPT ![i] = c]
              /\ m_mutex' = NoThread
              /\ pc' = [pc EXCEPT ![c] = "idle"]
              /\ UNCHANGED arg

PushStep(p) == PushLock(p) \/ PushInsert(p) \/ PushNotify(p) \/ Clear(p)
PopStep(c)  == PopLock(c) \/ PopWait(c) \/ PopTest(c) \/ PopTake(c)

Next == \/ \E p \in Producers : PushStep(p) \/ ClearCall(p) \/ \E i \in Items : PushCall(p, i)
        \/ \E c \in Consumers : PopCall(c) \/ PopStep(c) \/ Spurious(c)

SafeSpec == Init /\ [][Next]_vars

\* A thread inside Push, Clear or Pop is scheduled until it returns or blocks.
Fairness == /\ \A p \in Producers : WF_vars(PushStep(p))
            /\ \A c \in Consumers : WF_vars(PopStep(c))

Spec == SafeSpec /\ Fairness

-----------------------------------------------------------------------------
PushPoints == {"idle", "push_lock", "push_insert", "push_notify", "clear_lock"}
PopPoints  == {"idle", "pop_lock", "pop_test", "pop_take", "pop_wait"}

\* The program points at which a thread holds m_mutex.
Critical == {"push_insert", "push_notify", "pop_test", "pop_take"}

\* The state is well typed (the members of WPQ and the callers' locals).
TypeOK == /\ m_wpq \subseteq Items
          /\ m_mutex \in Threads \cup {NoThread}
          /\ pc \in [Threads -> PushPoints \cup PopPoints]
          /\ \A p \in Producers : pc[p] \in PushPoints
          /\ \A c \in Consumers : pc[c] \in PopPoints
          /\ arg \in [Producers -> Items \cup {NoItem}]
          /\ \A p \in Producers : arg[p] = NoItem <=> pc[p] \in {"idle", "clear_lock"}
          /\ result \in [Items -> Consumers \cup {NoThread, Cleared}]

\* The container is touched by one thread at a time: whoever is between the
\* lock and the unlock of Push or Pop is the one that holds m_mutex.
MutualExclusion == \A t \in Threads : pc[t] \in Critical <=> m_mutex = t

\* Pop never finds the container empty after its wait, whoever else was woken
\* by the same element: the branch of pq.hpp that prints "queue is empty" and
\* returns an empty shared_ptr is never taken.
TakeNeverEmpty == \A c \in Consumers : pc[c] = "pop_take" => m_wpq # {}

Awake     == {c \in Consumers : pc[c] \in {"pop_lock", "pop_test", "pop_take"}}
Notifying == {p \in Producers : pc[p] = "push_notify"}

\* While a consumer is blocked, every element in the container has a consumer
\* on its way to it, or a producer about to notify one: one notify_one per
\* Push is enough, and no element is left behind with consumers asleep.
NoLostWakeup == Waiters # {} =>
                  Cardinality(m_wpq) <= Cardinality(Awake) + Cardinality(Notifying)

\* What a thread inside Push, Clear or Pop waits for is there.
CanStep(t) == \/ /\ pc[t] \in {"push_lock", "clear_lock", "pop_lock"}
                 /\ m_mutex = NoThread
              \/ pc[t] \in {"push_insert", "push_notify", "pop_test"}
              \/ pc[t] = "pop_take" /\ Top # {}

\* No deadlock: while a thread is inside Push, Clear or Pop and not asleep, or
\* there are both elements and a consumer that asks for one, some thread can
\* take its next step.  Nobody waits for a mutex whose holder has returned, and
\* consumers are never all asleep beside an element.
NeverStuck ==
  \/ \E t \in Threads : pc[t] \notin {"idle", "pop_wait"}
  \/ m_wpq # {} /\ \E c \in Consumers : pc[c] # "idle"
  => \E t \in Threads : CanStep(t)

\* An element is in one place only: it is some producer's argument, in the
\* container, returned by one Pop, or cleared.
OnePlace ==
  /\ \A i \in m_wpq : result[i] = NoThread
  /\ \A p \in Producers : pc[p] \in {"push_lock", "push_insert"} =>
                             arg[p] \notin m_wpq /\ result[arg[p]] = NoThread
  /\ \A p, q \in Producers : arg[p] = arg[q] /\ arg[p] # NoItem => p = q

\* The mapping to the abstract queue: an element is put when it is inserted and
\* taken or dropped when it is removed; a consumer asks from its call of Pop on.
place  == [i \in Items |-> IF i \in m_wpq THEN "queued"
                          ELSE IF result[i] = NoThread THEN "unborn" ELSE result[i]]
asking == {c \in Consumers : pc[c] # "idle"}

Queue == INSTANCE PriorityQueue

\* Push, Pop and Clear are the atomic Put, Take and Drop of the abstract queue,
\* and a Pop that finds elements is served.
ImplementsPriorityQueue == Queue!Spec
==============================================================================
