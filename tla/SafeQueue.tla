----------------------------- MODULE SafeQueue -----------------------------
(***************************************************************************)
(* The thread-safe queue of 3.1single_reactor_multi_worker/SafeQueue.h: a  *)
(* std::queue, a std::mutex and a std::condition_variable.  A step is what *)
(* a thread does between two points where another thread can run: to take  *)
(* the mutex, one access to the queue under it, to sleep in the condition  *)
(* variable (which releases the mutex in the same step), to notify, to     *)
(* release the mutex.  Wake-ups may be spurious.                           *)
(*                                                                         *)
(* The items carry no data: the k-th item pushed is the number k.          *)
(***************************************************************************)
EXTENDS Naturals, Sequences, FiniteSets

CONSTANTS Pushers,    \* threads that call push
          Shifters,   \* threads that call shift, which waits for an item
          Pollers,    \* threads that call shift_no_wait
          MaxPush,    \* bound of the model: items pushed in all
          NoThread    \* "the mutex is free"

Takers  == Shifters \cup Pollers
Threads == Pushers \cup Takers

ASSUME ThreadsAssumption == IsFiniteSet(Threads) /\ NoThread \notin Threads

VARIABLES q,          \* the items in the queue
          m,          \* the thread that holds the mutex
          waiting,    \* the threads asleep in the condition variable
          pc,         \* where each thread is
          val,        \* val[t]: the item its last take returned, 0 for "false"
          sent        \* the number of items pushed so far

vars == <<q, m, waiting, pc, val, sent>>

\* The points of the code where a thread holds the mutex.
Locked == {"push", "notify", "test", "poll", "pop", "unlock"}

Init == /\ q = <<>>
        /\ m = NoThread
        /\ waiting = {}
        /\ pc = [t \in Threads |-> "idle"]
        /\ val = [t \in Takers |-> 0]
        /\ sent = 0

-----------------------------------------------------------------------------
(* Next to some operations stands a variant with a mistake in it, which the *)
(* operation's comment names.  Nothing uses the variants: put in the place  *)
(* of the operation, each breaks a property that the operation keeps.       *)
Goto(t, place) == pc' = [pc EXCEPT ![t] = place]

\* lock_guard and unique_lock: the constructor waits for the mutex, the
\* destructor releases it.
Acquire(t) == m = NoThread /\ m' = t
Unlock(t)  == /\ pc[t] = "unlock"
              /\ m' = NoThread
              /\ Goto(t, "idle")
              /\ UNCHANGED <<q, waiting, val, sent>>

\* notify_one wakes one sleeping thread, or does nothing when none sleeps.
NotifyOne == \/ waiting = {} /\ UNCHANGED waiting
             \/ \E w \in waiting : waiting' = waiting \ {w}

\* push
PushLock(t) == /\ t \in Pushers
               /\ pc[t] = "idle"
               /\ sent < MaxPush
               /\ Acquire(t)
               /\ Goto(t, "push")
               /\ UNCHANGED <<q, waiting, val, sent>>

PushInsert(t) == /\ pc[t] = "push"
                 /\ sent' = sent + 1
                 /\ q' = Append(q, sent')
                 /\ Goto(t, "notify")
                 /\ UNCHANGED <<m, waiting, val>>

\* Variants: no notify at all, and one only for a queue that was empty.
PushSilently(t) == /\ pc[t] = "notify"
                   /\ Goto(t, "unlock")
                   /\ UNCHANGED <<q, m, waiting, val, sent>>
PushNotifyFirst(t) == /\ pc[t] = "notify"
                      /\ IF Len(q) = 1 THEN NotifyOne ELSE UNCHANGED waiting
                      /\ Goto(t, "unlock")
                      /\ UNCHANGED <<q, m, val, sent>>
PushNotify(t) == /\ pc[t] = "notify"
                 /\ NotifyOne
                 /\ Goto(t, "unlock")
                 /\ UNCHANGED <<q, m, val, sent>>

\* shift
ShiftLock(t) == /\ t \in Shifters
                /\ pc[t] = "idle"
                /\ Acquire(t)
                /\ Goto(t, "test")
                /\ UNCHANGED <<q, waiting, val, sent>>

ShiftWait(t) == /\ pc[t] = "test"
                /\ q = <<>>
                /\ m' = NoThread
                /\ waiting' = waiting \cup {t}
                /\ Goto(t, "wait")
                /\ UNCHANGED <<q, val, sent>>

Spurious(t) == /\ t \in waiting
               /\ waiting' = waiting \ {t}
               /\ UNCHANGED <<q, m, pc, val, sent>>

\* A thread that was woken returns from wait once it has the mutex again,
\* and the loop tests the queue once more.  Variant: "if" in the
\* place of "while".
WakeUntested(t) == /\ pc[t] = "wait"
                   /\ t \notin waiting
                   /\ Acquire(t)
                   /\ val' = [val EXCEPT ![t] = IF q = <<>> THEN 0 ELSE Head(q)]
                   /\ Goto(t, "pop")
                   /\ UNCHANGED <<q, waiting, sent>>
ShiftWake(t) == /\ pc[t] = "wait"
                /\ t \notin waiting
                /\ Acquire(t)
                /\ Goto(t, "test")
                /\ UNCHANGED <<q, waiting, val, sent>>

\* shift_no_wait
PollLock(t) == /\ t \in Pollers
               /\ pc[t] = "idle"
               /\ Acquire(t)
               /\ Goto(t, "poll")
               /\ UNCHANGED <<q, waiting, val, sent>>

PollEmpty(t) == /\ pc[t] = "poll"
                /\ q = <<>>
                /\ val' = [val EXCEPT ![t] = 0]
                /\ Goto(t, "unlock")
                /\ UNCHANGED <<q, m, waiting, sent>>

\* front and pop, the same in shift and in shift_no_wait.  Variant: the mutex
\* is released between the two.
FrontUnlocks(t) == /\ pc[t] \in {"test", "poll"}
                   /\ q # <<>>
                   /\ val' = [val EXCEPT ![t] = Head(q)]
                   /\ m' = NoThread
                   /\ Goto(t, "pop")
                   /\ UNCHANGED <<q, waiting, sent>>
Front(t) == /\ pc[t] \in {"test", "poll"}
            /\ q # <<>>
            /\ val' = [val EXCEPT ![t] = Head(q)]
            /\ Goto(t, "pop")
            /\ UNCHANGED <<q, m, waiting, sent>>

Pop(t) == /\ pc[t] = "pop"
          /\ q' = Tail(q)
          /\ Goto(t, "unlock")
          /\ UNCHANGED <<m, waiting, val, sent>>

Push(t)  == PushLock(t) \/ PushInsert(t) \/ PushNotify(t)
Shift(t) == ShiftLock(t) \/ ShiftWait(t) \/ ShiftWake(t)
Poll(t)  == PollLock(t) \/ PollEmpty(t)

Next == \E t \in Threads : \/ Push(t) \/ Shift(t) \/ Poll(t)
                           \/ Front(t) \/ Pop(t) \/ Unlock(t)
                           \/ Spurious(t)

Spec == Init /\ [][Next]_vars
-----------------------------------------------------------------------------
\* The types, and each thread is inside the operations it calls.
TypeOK == /\ q \in Seq(Nat)
          /\ m \in Threads \cup {NoThread}
          /\ waiting \subseteq Shifters
          /\ pc \in [Threads -> Locked \cup {"idle", "wait"}]
          /\ val \in [Takers -> Nat]
          /\ sent \in Nat
          /\ \A t \in Threads : /\ pc[t] \in {"test", "wait"} => t \in Shifters
                                /\ pc[t] = "poll" => t \in Pollers
                                /\ pc[t] = "pop" => t \in Takers

\* Exactly the holder of the mutex is inside a critical section (the
\* lock_guard and unique_lock blocks of SafeQueue.h), and only a thread
\* that is inside wait is in the condition variable's list.
MutexOK == /\ \A t \in Threads : pc[t] \in Locked <=> m = t
           /\ \A t \in waiting : pc[t] = "wait"

\* The queue holds the items pushed last, in the order they were pushed, and
\* the item a thread is about to remove with pop is the one that front
\* returned to it: nothing is lost, duplicated or overtaken, and front and
\* pop are never called on an empty queue.
FifoOK == /\ \A i \in 1..Len(q) : q[i] = (sent - Len(q)) + i
          /\ \A t \in Threads : pc[t] = "pop" => q # <<>> /\ val[t] = q[1]

\* The threads that are sure to look at the queue: awake inside shift, or
\* about to notify.
Awake == {t \in Threads : \/ pc[t] \in {"test", "pop", "notify"}
                          \/ pc[t] = "wait" /\ t \notin waiting}

\* No wake-up is lost: while a thread sleeps in shift, every item in the
\* queue has an awake thread of its own that will come for it.  One notify
\* for each push is enough for that, whoever takes the item first.
NoLostWakeup == waiting # {} => Len(q) <= Cardinality(Awake)

\* What the operations promise, seen as atomic: the items taken so far are
\* those that left the queue and the one a thread has in hand, between front
\* and pop.
Taken == (sent - Len(q)) + IF \E t \in Threads : pc[t] = "pop" THEN 1 ELSE 0

Queue == INSTANCE TaskQueue WITH taken <- Taken, got <- val

\* SafeQueue.h implements the atomic queue.
Linearizable == Queue!Spec
=============================================================================
