------------------------------ MODULE CondVar ------------------------------
(***************************************************************************)
(* thread/condition_variable/condition_variable_test.h: a SpinLock written *)
(* with compare_exchange_weak, a std::condition_variable_any used with it, *)
(* and two tests.                                                          *)
(*   testQueue: a provider pushes values and notifies outside the lock;    *)
(* consumers wait with a predicate.                                        *)
(*   testConditionVariable: prepareThread sets readyFlag and notifies      *)
(* inside the lock; waitForPrepareThread waits without a predicate.        *)
(*                                                                         *)
(* A step is one access to shared state.  A spurious failure of the weak   *)
(* exchange leads back to the same state and needs no action of its own.   *)
(* The k-th value pushed is the number k.                                  *)
(***************************************************************************)
EXTENDS Naturals, Sequences, FiniteSets

CONSTANTS Tests,        \* which of the tests may run
          Pro,          \* the thread of provider, or of prepareThread
          Consumers,    \* the threads of consumer
          Waiter,       \* the thread of waitForPrepareThread
          MaxVal,       \* the values pushed, 50 in the code
          MaxSpurious   \* bound of the model: spurious wake-ups

Threads == {Pro, Waiter} \cup Consumers

ASSUME CondVarAssumption ==
  /\ Tests \subseteq {"queue", "prepare"}
  /\ Consumers # {} /\ Pro # Waiter /\ Pro \notin Consumers /\ Waiter \notin Consumers
  /\ MaxVal \in Nat \ {0} /\ MaxSpurious \in Nat

VARIABLES
  test,       \* the test that runs
  pc,         \* where each thread is
  next,       \* where it goes on when its call of lock returns
  flag,       \* flag_ of the spin lock
  expect,     \* the local variable of lock
  queue,      \* the values pushed and not popped
  sent,       \* the number of values pushed so far
  val,        \* val[t]: the value the consumer t took last
  waiting,    \* the threads asleep in the condition variable
  readyFlag,
  spurious    \* the number of spurious wake-ups so far

lockVars == <<flag, expect>>
vars == <<test, pc, next, lockVars, queue, sent, val, waiting, readyFlag, spurious>>

\* The threads of each test, each about to call lock for the first time.
Runs(t) == CASE test = "queue"   -> t # Waiter
             [] test = "prepare" -> t \notin Consumers
             [] OTHER            -> FALSE
First(t) == CASE t = Waiter    -> "wait"
              [] t \in Consumers -> "test"
              [] OTHER         -> IF test = "queue" THEN "push" ELSE "ready"

Rest == /\ next = [t \in Threads |-> First(t)]
        /\ flag = FALSE
        /\ expect = [t \in Threads |-> FALSE]
        /\ queue = <<>> /\ sent = 0
        /\ val = [t \in Consumers |-> 0]
        /\ waiting = {}
        /\ readyFlag = FALSE
        /\ spurious = 0
        /\ pc = [t \in Threads |-> IF Runs(t) THEN "cas" ELSE "absent"]

Init == test \in Tests /\ Rest

-----------------------------------------------------------------------------
(* As in SafeQueue.tla, some operations have variants with a mistake, which *)
(* nothing uses: each breaks a property that the operation keeps.           *)
Goto(t, place) == pc' = [pc EXCEPT ![t] = place]

\* SpinLock::lock.  The exchange writes what it found to expect when it fails,
\* and the loop has to restore it.  Variant: it does not.
Cas(t) == /\ pc[t] = "cas"
          /\ IF flag = expect[t]
             THEN flag' = TRUE /\ Goto(t, next[t]) /\ UNCHANGED expect
             ELSE expect' = [expect EXCEPT ![t] = flag] /\ Goto(t, "restore") /\ UNCHANGED flag
          /\ UNCHANGED <<test, next, queue, sent, val, waiting, readyFlag, spurious>>

RestoreNot(t) == /\ pc[t] = "restore"
                 /\ Goto(t, "cas")
                 /\ UNCHANGED <<test, next, lockVars, queue, sent, val, waiting, readyFlag, spurious>>
Restore(t) == /\ pc[t] = "restore"
              /\ expect' = [expect EXCEPT ![t] = FALSE]
              /\ Goto(t, "cas")
              /\ UNCHANGED <<test, next, flag, queue, sent, val, waiting, readyFlag, spurious>>

\* The thread calls lock, to go on at place.
Lock(t, place) == /\ Goto(t, "cas")
                  /\ next' = [next EXCEPT ![t] = place]
                  /\ expect' = [expect EXCEPT ![t] = FALSE]

\* notify_one wakes one sleeping thread, or does nothing when none sleeps.
NotifyOne == \/ waiting = {} /\ UNCHANGED waiting
             \/ \E w \in waiting : waiting' = waiting \ {w}

\* wait releases the lock and puts the thread to sleep in one step, as seen by
\* notify_one, and locks again when the thread wakes up.  Variant: it sleeps
\* with the lock.
WaitLocked(t) == /\ pc[t] = "wait"
                 /\ waiting' = waiting \cup {t}
                 /\ Goto(t, "asleep")
                 /\ UNCHANGED <<test, next, lockVars, queue, sent, val, readyFlag, spurious>>
Wait(t) == /\ pc[t] = "wait"
           /\ flag' = FALSE
           /\ waiting' = waiting \cup {t}
           /\ Goto(t, "asleep")
           /\ UNCHANGED <<test, next, expect, queue, sent, val, readyFlag, spurious>>

Wake(t) == /\ pc[t] = "asleep"
           /\ t \notin waiting
           /\ Lock(t, IF t = Waiter THEN "unlock" ELSE "test")
           /\ UNCHANGED <<test, flag, queue, sent, val, waiting, readyFlag, spurious>>

Spurious(t) == /\ t \in waiting
               /\ spurious < MaxSpurious
               /\ spurious' = spurious + 1
               /\ waiting' = waiting \ {t}
               /\ UNCHANGED <<test, pc, next, lockVars, queue, sent, val, readyFlag>>

-----------------------------------------------------------------------------
\* provider
Push == /\ pc[Pro] = "push"
        /\ sent' = sent + 1
        /\ queue' = Append(queue, sent')
        /\ Goto(Pro, "unlock")
        /\ UNCHANGED <<test, next, lockVars, val, waiting, readyFlag, spurious>>

\* prepareThread
Ready == /\ pc[Pro] = "ready"
         /\ readyFlag' = TRUE
         /\ Goto(Pro, "notify")
         /\ UNCHANGED <<test, next, lockVars, queue, sent, val, waiting, spurious>>

\* provider goes on with the next value, prepareThread leaves its block.
\* Variant: provider notifies after its loop, as lines 110-111 would.
AfterNotify == IF test = "queue"
               THEN IF sent < MaxVal THEN Lock(Pro, "push")
                    ELSE Goto(Pro, "done") /\ UNCHANGED <<next, expect>>
               ELSE Goto(Pro, "unlock") /\ UNCHANGED <<next, expect>>
NotifyLast == /\ pc[Pro] = "notify"
              /\ IF test = "queue" /\ sent < MaxVal THEN UNCHANGED waiting ELSE NotifyOne
              /\ AfterNotify
              /\ UNCHANGED <<test, flag, queue, sent, val, readyFlag, spurious>>
Notify == /\ pc[Pro] = "notify"
          /\ NotifyOne
          /\ AfterNotify
          /\ UNCHANGED <<test, flag, queue, sent, val, readyFlag, spurious>>

\* consumer: the predicate of wait, front and pop.
Test(t) == /\ pc[t] = "test"
           /\ Goto(t, IF queue = <<>> THEN "wait" ELSE "front")
           /\ UNCHANGED <<test, next, lockVars, queue, sent, val, waiting, readyFlag, spurious>>

Front(t) == /\ pc[t] = "front"
            /\ val' = [val EXCEPT ![t] = Head(queue)]
            /\ Goto(t, "pop")
            /\ UNCHANGED <<test, next, lockVars, queue, sent, waiting, readyFlag, spurious>>

Pop(t) == /\ pc[t] = "pop"
          /\ queue' = Tail(queue)
          /\ Goto(t, "unlock")
          /\ UNCHANGED <<test, next, lockVars, sent, val, waiting, readyFlag, spurious>>

\* SpinLock::unlock at the end of a block, and what follows: provider notifies,
\* prepareThread ends, waitForPrepareThread does its job, consumer loops.
Unlock(t) == /\ pc[t] = "unlock"
             /\ flag' = FALSE
             /\ CASE t = Pro    -> Goto(t, IF test = "queue" THEN "notify" ELSE "done")
                                     /\ UNCHANGED <<next, expect>>
                  [] t = Waiter -> Goto(t, "job") /\ UNCHANGED <<next, expect>>
                  [] OTHER      -> Lock(t, "test")
             /\ UNCHANGED <<test, queue, sent, val, waiting, readyFlag, spurious>>

\* waitForPrepareThread: "prepare job done, run something", and again.
Job == /\ pc[Waiter] = "job"
       /\ Lock(Waiter, "wait")
       /\ UNCHANGED <<test, flag, queue, sent, val, waiting, readyFlag, spurious>>

LockStep(t)   == Cas(t) \/ Restore(t) \/ Unlock(t) \/ Wait(t) \/ Wake(t)
Produce       == Push \/ Ready \/ Notify
Consume(t)    == Test(t) \/ Front(t) \/ Pop(t)
Step(t) == \/ LockStep(t)
           \/ t = Pro /\ Produce
           \/ t \in Consumers /\ Consume(t)
           \/ t = Waiter /\ Job

Next == \E t \in Threads : Step(t) \/ Spurious(t)

Fairness == \A t \in Threads : WF_vars(Step(t))

\* The scheduler runs every thread, and the weak exchange does not fail
\* spuriously for ever.
Spec == Init /\ [][Next]_vars /\ Fairness
-----------------------------------------------------------------------------
Held == {"push", "ready", "test", "wait", "front", "pop", "unlock"}

\* The points of the code where a thread has the lock.
HasLock(t) == pc[t] \in Held \/ (pc[t] = "notify" /\ test = "prepare")

TypeOK == /\ test \in Tests \cup {"none"}
          /\ pc \in [Threads -> Held \cup {"absent", "cas", "restore", "notify", "asleep", "job", "done"}]
          /\ next \in [Threads -> Held]
          /\ flag \in BOOLEAN /\ expect \in [Threads -> BOOLEAN]
          /\ queue \in Seq(Nat) /\ sent \in Nat
          /\ val \in [Consumers -> Nat]
          /\ waiting \subseteq Threads
          /\ readyFlag \in BOOLEAN /\ spurious \in Nat

\* SpinLock excludes: flag_ is set exactly while one thread has the lock, and
\* an exchange that would take it finds it free.
Exclusive == /\ \A t, u \in Threads : HasLock(t) /\ HasLock(u) => t = u
             /\ flag <=> \E t \in Threads : HasLock(t)
             /\ \A t \in Threads : pc[t] = "cas" => ~ expect[t]

\* A consumer sleeps only while the queue is empty, or somebody will come for
\* what is in it: a consumer that is awake or the provider's notify.  So the
\* notification may come after the lock was released (line 107), and one for
\* each value is enough, as the comment of line 120 says.
NoneSleepsOnWork ==
  queue # <<>> => \/ pc[Pro] = "notify"
                  \/ pc[Pro] = "unlock"
                  \/ \E t \in Consumers : t \notin waiting

\* The consumers share the values: each is taken once, in the order of the
\* provider, front and pop are never called on an empty queue.
Taken == (sent - Len(queue)) + IF \E t \in Consumers : pc[t] = "pop" THEN 1 ELSE 0
Values == INSTANCE TaskQueue WITH Takers <- Consumers, taken <- Taken, got <- val
SharesValues == Values!Spec

\* provider and prepareThread come to their end although others spin and wait;
\* every value pushed is taken; and a notification that finds
\* waitForPrepareThread asleep gets it to its job.
Delivered ==
  /\ pc[Pro] = "cas" ~> pc[Pro] = "done"
  /\ \A k \in 1..MaxVal : sent >= k ~> Taken >= k
  /\ (pc[Pro] = "notify" /\ Waiter \in waiting) ~> pc[Waiter] = "job"
=============================================================================
