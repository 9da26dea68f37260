----------------------------- MODULE WorkerPool -----------------------------
(***************************************************************************)
(* The pool of 3.1single_reactor_multi_worker/WorkerPool.h: a SafeQueue of *)
(* tasks, addQueue to push one, and the detached threads that start        *)
(* creates, each of which shifts a task and runs it, for ever.             *)
(*                                                                         *)
(* The submitters are the queue's pushers and the workers its shifters;    *)
(* task k is the k-th one pushed.                                          *)
(***************************************************************************)
EXTENDS SafeQueue

CONSTANT NullTasks    \* the tasks that are an empty std::function

Workers == Shifters

ASSUME PoolAssumption == Pollers = {} /\ Pushers \cap Workers = {}

VARIABLES started,    \* the workers that start has created
          running,    \* running[w]: the task that shift returned to w, 0 for none
          runs        \* runs[k]: how many times task k was run to its end

pool == <<started, running, runs>>

PoolInit == /\ Init
            /\ started = {}
            /\ running = [w \in Workers |-> 0]
            /\ runs = [k \in 1..MaxPush |-> 0]

StartWorker(w) == /\ w \notin started
                  /\ started' = started \cup {w}
                  /\ UNCHANGED <<vars, running, runs>>

\* The steps of addQueue, and those of shift up to its return.
AddQueue(p) == (Push(p) \/ Unlock(p)) /\ UNCHANGED pool

FetchTask(w) == /\ w \in started
                /\ running[w] = 0
                /\ Shift(w) \/ Front(w) \/ Pop(w)
                /\ UNCHANGED pool

\* The block of the unique_lock ends before the task runs.  Variant: the
\* variable task is one that all workers share.
TakeTaskShared(w) == /\ Unlock(w)
                     /\ running' = [v \in Workers |-> IF v = w \/ running[v] # 0 THEN val[w]
                                                      ELSE running[v]]
                     /\ UNCHANGED <<started, runs>>
TakeTask(w) == /\ Unlock(w)
               /\ running' = [running EXCEPT ![w] = val[w]]
               /\ UNCHANGED <<started, runs>>

RunTask(w) == /\ running[w] # 0
              /\ running[w] \notin NullTasks
              /\ runs' = [runs EXCEPT ![running[w]] = @ + 1]
              /\ running' = [running EXCEPT ![w] = 0]
              /\ UNCHANGED <<vars, started>>

SkipNull(w) == /\ running[w] \in NullTasks
               /\ running' = [running EXCEPT ![w] = 0]
               /\ UNCHANGED <<vars, started, runs>>

Work(w) == FetchTask(w) \/ TakeTask(w) \/ RunTask(w) \/ SkipNull(w)

PoolNext == \/ \E p \in Pushers : AddQueue(p)
            \/ \E w \in Workers : StartWorker(w) \/ Work(w)
            \/ \E w \in Workers : Spurious(w) /\ UNCHANGED pool

PoolVars == <<vars, pool>>

PoolSafety == PoolInit /\ [][PoolNext]_PoolVars

\* The scheduler runs every thread and tasks return, so a thread that can
\* take its next step does so.  Nothing makes a submitter start a push, and
\* nothing makes a wake-up spurious.
PoolSpec == /\ PoolSafety
            /\ \A w \in Workers : WF_PoolVars(StartWorker(w)) /\ WF_PoolVars(Work(w))
            /\ \A p \in Pushers : WF_PoolVars(pc[p] # "idle" /\ AddQueue(p))
-----------------------------------------------------------------------------
\* The types, and a task is run outside the queue's lock.
PoolTypeOK == /\ TypeOK
              /\ started \subseteq Workers
              /\ running \in [Workers -> Nat]
              /\ runs \in [1..MaxPush -> Nat]
              /\ \A w \in Workers : running[w] # 0 => pc[w] = "idle"

Holds(w, k) == running[w] = k \/ (pc[w] = "unlock" /\ val[w] = k)

\* A task that was submitted is in exactly one place: once in the queue, in
\* the hands of one worker, or run once (a null task is skipped instead).
ExactlyOnce ==
  \A k \in 1..MaxPush :
    LET queued == Cardinality({i \in 1..Len(q) : q[i] = k})
        held   == Cardinality({w \in Workers : Holds(w, k)})
        places == queued + held + runs[k]
    IN  places = IF k > sent THEN 0
                 ELSE IF k \in NullTasks /\ queued + held = 0 THEN 0 ELSE 1

\* Every task submitted is run, whatever the wake-ups do.
EveryTaskRuns == \A k \in (1..MaxPush) \ NullTasks : sent >= k ~> runs[k] = 1
=============================================================================
