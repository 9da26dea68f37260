-------------------------- MODULE WorkerPoolProofs --------------------------
(***************************************************************************)
(* What the proofs about the queue say of the pool, for any number of      *)
(* submitters, workers and tasks.                                          *)
(***************************************************************************)
EXTENDS WorkerPool, SafeQueueProofs

-----------------------------------------------------------------------------
\* A step of the pool is a step of its queue or leaves the queue alone.
LEMMA PoolStep == [PoolNext]_PoolVars => [Next]_vars
  <1> SUFFICES ASSUME [PoolNext]_PoolVars PROVE [Next]_vars
    OBVIOUS
  <1> USE DEF Threads, Takers, Workers
  <1>1. CASE UNCHANGED PoolVars
    BY <1>1 DEF PoolVars
  <1>2. ASSUME NEW p \in Pushers, AddQueue(p) PROVE Next
    BY <1>2 DEF AddQueue, Next
  <1>3. ASSUME NEW w \in Workers, StartWorker(w) PROVE UNCHANGED vars
    BY <1>3 DEF StartWorker
  <1>4. ASSUME NEW w \in Workers, FetchTask(w) PROVE Next
    BY <1>4 DEF FetchTask, Next
  <1>5. ASSUME NEW w \in Workers, TakeTask(w) PROVE Next
    BY <1>5 DEF TakeTask, Next
  <1>6. ASSUME NEW w \in Workers, RunTask(w) \/ SkipNull(w) PROVE UNCHANGED vars
    BY <1>6 DEF RunTask, SkipNull
  <1>7. ASSUME NEW w \in Workers, Spurious(w) PROVE Next
    BY <1>7 DEF Next
  <1> QED
    BY <1>1, <1>2, <1>3, <1>4, <1>5, <1>6, <1>7 DEF PoolNext, Work

\* The pool uses its queue only through the queue's operations.
THEOREM PoolUsesQueue == PoolSafety => Spec
  <1>1. PoolInit => Init
    BY DEF PoolInit
  <1> QED
    BY <1>1, PoolStep, PTL DEF PoolSafety, Spec

\* So while a worker sleeps, every task in the queue has an awake worker that
\* does not run a task and will take it: the pool of WorkerPool.h never lets a
\* task wait behind another one with a worker to spare.
THEOREM PoolIsWorkConserving == PoolSafety => []NoLostWakeup
  BY PoolUsesQueue, WakeupsAreKept, PTL

-----------------------------------------------------------------------------
\* The types hold before any worker is started.
LEMMA PoolInitTypeOK == PoolInit => PoolTypeOK
  <1> SUFFICES ASSUME PoolInit PROVE PoolTypeOK
    OBVIOUS
  <1>1. TypeOK
    BY InitInv DEF PoolInit, IInv
  <1> QED
    BY <1>1 DEF PoolInit, PoolTypeOK

\* Every step of the pool keeps them.
LEMMA PoolNextTypeOK == PoolTypeOK /\ [PoolNext]_PoolVars => PoolTypeOK'
  <1> SUFFICES ASSUME PoolTypeOK, [PoolNext]_PoolVars PROVE PoolTypeOK'
    OBVIOUS
  <1>0. TypeOK' /\ TypeOK
    BY PoolStep, NextTypeOK DEF PoolTypeOK
  <1>1. CASE UNCHANGED PoolVars
    BY <1>0, <1>1 DEF PoolVars, pool, vars, PoolTypeOK
  <1>2. ASSUME NEW p \in Pushers, AddQueue(p) PROVE PoolTypeOK'
    <2>1. \A w \in Workers : w # p
      BY PoolAssumption
    <2>2. \A w \in Workers : pc'[w] = pc[w]
      BY <1>0, <1>2, <2>1 DEF AddQueue, Push, PushLock, PushInsert, PushNotify, Unlock,
                              Goto, TypeOK, Workers, Threads, Takers
    <2> QED
      BY <1>0, <1>2, <2>2 DEF AddQueue, pool, PoolTypeOK
  <1>3. ASSUME NEW w \in Workers, StartWorker(w) PROVE PoolTypeOK'
    BY <1>0, <1>3 DEF StartWorker, vars, PoolTypeOK
  <1>4. ASSUME NEW w \in Workers, FetchTask(w) PROVE PoolTypeOK'
    <2>1. \A v \in Workers : running[v] # 0 => pc'[v] = pc[v]
      BY <1>0, <1>4 DEF FetchTask, Shift, ShiftLock, ShiftWait, ShiftWake, Front, Pop,
                        Goto, TypeOK, Workers, Threads, Takers
    <2> QED
      BY <1>0, <1>4, <2>1 DEF FetchTask, pool, PoolTypeOK
  <1>5. ASSUME NEW w \in Workers, TakeTask(w) PROVE PoolTypeOK'
    <2>1. /\ pc'[w] = "idle" /\ val[w] \in Nat
          /\ \A v \in Workers : v # w => pc'[v] = pc[v]
      BY <1>0, <1>5 DEF TakeTask, Unlock, Goto, TypeOK, Workers, Threads, Takers
    <2> QED
      BY <1>0, <1>5, <2>1 DEF TakeTask, PoolTypeOK
  <1>6. ASSUME NEW w \in Workers, RunTask(w) PROVE PoolTypeOK'
    <2>1. runs' \in [1..MaxPush -> Nat]
      <3>1. CASE running[w] \in 1..MaxPush
        BY <1>6, <3>1 DEF RunTask, PoolTypeOK
      <3>2. CASE running[w] \notin 1..MaxPush
        BY <1>6, <3>2 DEF RunTask, PoolTypeOK
      <3> QED
        BY <3>1, <3>2
    <2> QED
      BY <1>0, <1>6, <2>1 DEF RunTask, vars, PoolTypeOK
  <1>7. ASSUME NEW w \in Workers, SkipNull(w) PROVE PoolTypeOK'
    BY <1>0, <1>7 DEF SkipNull, vars, PoolTypeOK
  <1>8. ASSUME NEW w \in Workers, Spurious(w), UNCHANGED pool PROVE PoolTypeOK'
    BY <1>0, <1>8 DEF Spurious, pool, PoolTypeOK
  <1> QED
    BY <1>1, <1>2, <1>3, <1>4, <1>5, <1>6, <1>7, <1>8 DEF PoolNext, Work

\* The types of the pool's state, and no worker runs a task while it holds the
\* queue's mutex (the braces of run_worker).
THEOREM PoolTypeCorrect == PoolSafety => []PoolTypeOK
  <1>1. PoolInit => PoolTypeOK
    BY PoolInitTypeOK
  <1>2. PoolTypeOK /\ [PoolNext]_PoolVars => PoolTypeOK'
    BY PoolNextTypeOK
  <1> QED
    BY <1>1, <1>2, PTL DEF PoolSafety

-----------------------------------------------------------------------------
\* Where the tasks are, without counting: a task that has not left the queue, or
\* is not in it yet, is with no worker and was not run; one that has left it is
\* with one worker, or was run, once, or was null.
PlacesOK ==
  \A k \in 1..MaxPush :
    /\ k > sent - Len(q) => runs[k] = 0 /\ \A w \in Workers : ~ Holds(w, k)
    /\ \A v, w \in Workers : Holds(v, k) /\ Holds(w, k) => v = w
    /\ runs[k] \in {0, 1}
    /\ runs[k] = 1 => k \notin NullTasks /\ \A w \in Workers : ~ Holds(w, k)
    /\ k <= sent - Len(q) /\ runs[k] = 0 =>
         k \in NullTasks \/ \E w \in Workers : Holds(w, k)

PoolInv == IInv /\ PoolTypeOK /\ PlacesOK

\* At first there are no tasks.
LEMMA InitPlacesOK == PoolInit => PlacesOK
  <1> SUFFICES ASSUME PoolInit PROVE PlacesOK
    OBVIOUS
  <1>1. Len(q) = 0 /\ sent = 0
    BY EmptySeq DEF PoolInit, Init
  <1>2. \A w \in Workers : running[w] = 0 /\ pc[w] = "idle"
    BY DEF PoolInit, Init, Workers, Threads, Takers
  <1>3. \A k \in 1..MaxPush : runs[k] = 0 /\ \A w \in Workers : ~ Holds(w, k)
    BY <1>2 DEF PoolInit, Holds
  <1> QED
    BY <1>1, <1>3 DEF PlacesOK

\* No step loses a task or gives it to two.
LEMMA NextPlacesOK == PoolInv /\ [PoolNext]_PoolVars => PlacesOK'
  <1> SUFFICES ASSUME PoolInv, [PoolNext]_PoolVars PROVE PlacesOK'
    OBVIOUS
  <1> USE DEF Goto
  <1>0. /\ TypeOK /\ FifoOK /\ PoolTypeOK /\ PlacesOK
        /\ Len(q) \in Nat /\ sent \in Nat
        /\ Workers \subseteq Threads /\ Workers \subseteq Takers
        /\ \A w \in Workers : w \notin Pushers
    BY LenProperties, PoolAssumption DEF PoolInv, IInv, TypeOK, Workers, Threads, Takers
  <1>1. ASSUME sent' - Len(q') = sent - Len(q), runs' = runs,
               \A k \in 1..MaxPush : \A w \in Workers : Holds(w, k)' <=> Holds(w, k)
        PROVE  PlacesOK'
    BY <1>0, <1>1 DEF PlacesOK
  <1>2. CASE UNCHANGED PoolVars
    BY <1>1, <1>2 DEF PoolVars, pool, vars, Holds
  <1>3. ASSUME NEW p \in Pushers, AddQueue(p) PROVE PlacesOK'
    <2>1. sent' - Len(q') = sent - Len(q) /\ val' = val
      <3>1. CASE PushInsert(p)
        <4>1. Len(q') = Len(q) + 1 /\ sent' = sent + 1 /\ val' = val
          BY <1>0, <3>1, AppendProperties DEF PushInsert, TypeOK
        <4> QED
          BY <1>0, <4>1
      <3>2. CASE PushLock(p) \/ PushNotify(p) \/ Unlock(p)
        BY <3>2 DEF PushLock, PushNotify, Unlock
      <3> QED
        BY <1>3, <3>1, <3>2 DEF AddQueue, Push
    <2>2. \A w \in Workers : pc'[w] = pc[w]
      BY <1>0, <1>3 DEF AddQueue, Push, PushLock, PushInsert, PushNotify, Unlock, TypeOK, Threads
    <2> QED
      BY <1>1, <1>3, <2>1, <2>2 DEF AddQueue, pool, Holds
  <1>4. ASSUME NEW w \in Workers, StartWorker(w) PROVE PlacesOK'
    BY <1>1, <1>4 DEF StartWorker, vars, Holds
  <1>5. ASSUME NEW w \in Workers, FetchTask(w), Shift(w) \/ Front(w) PROVE PlacesOK'
    <2>1. q' = q /\ sent' = sent /\ UNCHANGED pool
      BY <1>5 DEF FetchTask, Shift, ShiftLock, ShiftWait, ShiftWake, Front
    <2>2. \A v \in Workers : pc'[v] = "unlock" <=> pc[v] = "unlock"
      BY <1>0, <1>5 DEF Shift, ShiftLock, ShiftWait, ShiftWake, Front, TypeOK
    <2>3. \A v \in Workers : pc[v] = "unlock" => val'[v] = val[v]
      BY <1>0, <1>5 DEF Shift, ShiftLock, ShiftWait, ShiftWake, Front, TypeOK
    <2> QED
      BY <1>1, <2>1, <2>2, <2>3 DEF pool, Holds
  <1>6. ASSUME NEW w \in Workers, FetchTask(w), Pop(w) PROVE PlacesOK'
    <2> DEFINE first == (sent - Len(q)) + 1
    <2>1. q # <<>> /\ val[w] = q[1] /\ pc[w] = "pop"
      BY <1>0, <1>6 DEF Pop, FifoOK
    <2>2. Len(q) >= 1 /\ q[1] = first
      BY <1>0, <2>1, EmptySeq, LenProperties DEF FifoOK, TypeOK
    <2>3. Len(q') = Len(q) - 1 /\ sent' = sent /\ runs' = runs /\ running' = running /\ val' = val
      BY <1>0, <1>6, <2>1, HeadTailProperties DEF Pop, FetchTask, pool, TypeOK
    <2>4. /\ pc'[w] = "unlock" /\ running[w] = 0
          /\ \A v \in Workers : v # w => pc'[v] = pc[v]
      BY <1>0, <1>6 DEF Pop, FetchTask, TypeOK
    <2>5. \A k \in 1..MaxPush : ~ Holds(w, k)
      BY <2>1, <2>4 DEF Holds
    <2>6. \A k \in 1..MaxPush : Holds(w, k)' <=> k = first
      BY <2>1, <2>2, <2>3, <2>4 DEF Holds
    <2>7. \A k \in 1..MaxPush : \A v \in Workers : v # w => (Holds(v, k)' <=> Holds(v, k))
      BY <2>3, <2>4 DEF Holds
    <2>8. sent' - Len(q') = first
      BY <1>0, <2>3
    <2>9. \A k \in 1..MaxPush : k > first \/ k = first \/ k <= sent - Len(q)
      BY <1>0
    <2> HIDE DEF first
    <2> SUFFICES ASSUME NEW k \in 1..MaxPush
                 PROVE  /\ k > first => runs[k] = 0 /\ \A v \in Workers : ~ Holds(v, k)'
                        /\ \A u, v \in Workers : Holds(u, k)' /\ Holds(v, k)' => u = v
                        /\ runs[k] \in {0, 1}
                        /\ runs[k] = 1 => k \notin NullTasks /\ \A v \in Workers : ~ Holds(v, k)'
                        /\ k <= first /\ runs[k] = 0 =>
                             k \in NullTasks \/ \E v \in Workers : Holds(v, k)'
      BY <2>3, <2>8 DEF PlacesOK
    <2>10. CASE k = first
      <3>1. runs[k] = 0 /\ \A v \in Workers : ~ Holds(v, k)
        BY <1>0, <2>10 DEF PlacesOK, first
      <3> QED
        BY <2>6, <2>7, <2>10, <3>1
    <2>11. CASE k # first
      <3>1. \A v \in Workers : Holds(v, k)' <=> Holds(v, k)
        BY <2>5, <2>6, <2>7, <2>11
      <3>2. (k > first => k > sent - Len(q)) /\ (k <= first => k <= sent - Len(q))
        BY <1>0, <2>11 DEF first
      <3> QED
        BY <1>0, <3>1, <3>2 DEF PlacesOK
    <2> QED
      BY <2>10, <2>11
  <1>7. ASSUME NEW w \in Workers, TakeTask(w) PROVE PlacesOK'
    <2>1. q' = q /\ sent' = sent /\ runs' = runs /\ val' = val
      BY <1>7 DEF TakeTask, Unlock
    <2>2. /\ pc[w] = "unlock" /\ pc'[w] = "idle" /\ running'[w] = val[w]
          /\ \A v \in Workers : v # w => pc'[v] = pc[v] /\ running'[v] = running[v]
      BY <1>0, <1>7 DEF TakeTask, Unlock, TypeOK, PoolTypeOK
    <2>3. running[w] = 0
      BY <1>0, <2>2 DEF PoolTypeOK
    <2>4. \A k \in 1..MaxPush : \A v \in Workers : Holds(v, k)' <=> Holds(v, k)
      BY <2>1, <2>2, <2>3 DEF Holds
    <2> QED
      BY <1>1, <2>1, <2>4
  <1>8. ASSUME NEW w \in Workers, RunTask(w) \/ SkipNull(w) PROVE PlacesOK'
    <2>0. PICK task : task = running[w]
      OBVIOUS
    <2>1. q' = q /\ sent' = sent /\ val' = val /\ pc' = pc
      BY <1>8 DEF RunTask, SkipNull, vars
    <2>2. running'[w] = 0 /\ \A v \in Workers : v # w => running'[v] = running[v]
      BY <1>0, <1>8 DEF RunTask, SkipNull, PoolTypeOK
    <2>3. \A k \in 1..MaxPush : k # task =>
            runs'[k] = runs[k] /\ \A v \in Workers : Holds(v, k)' <=> Holds(v, k)
      <3> SUFFICES ASSUME NEW k \in 1..MaxPush, k # task
                   PROVE  runs'[k] = runs[k] /\ \A v \in Workers : Holds(v, k)' <=> Holds(v, k)
        OBVIOUS
      <3>1. runs'[k] = runs[k]
        BY <1>0, <1>8, <2>0 DEF RunTask, SkipNull, PoolTypeOK
      <3>2. Holds(w, k)' <=> Holds(w, k)
        BY <2>0, <2>1, <2>2 DEF Holds
      <3>3. \A v \in Workers : v # w => (Holds(v, k)' <=> Holds(v, k))
        BY <2>1, <2>2 DEF Holds
      <3> QED
        BY <3>1, <3>2, <3>3
    <2>4. ASSUME task \in 1..MaxPush
          PROVE  /\ ~ task > sent - Len(q)
                 /\ runs[task] = 0
                 /\ \A v \in Workers : ~ Holds(v, task)'
                 /\ (runs'[task] = 1 /\ task \notin NullTasks) \/ (runs'[task] = 0 /\ task \in NullTasks)
      <3>1. Holds(w, task)
        BY <2>0 DEF Holds
      <3>2. ~ task > sent - Len(q) /\ runs[task] = 0
        BY <1>0, <2>4, <3>1 DEF PlacesOK
      <3>3. pc[w] = "idle"
        BY <1>0, <2>0, <2>4 DEF PoolTypeOK
      <3>4. \A v \in Workers : ~ Holds(v, task)'
        <4>1. ~ Holds(w, task)'
          BY <2>1, <2>2, <2>4, <3>3 DEF Holds
        <4>2. \A v \in Workers : v # w => ~ Holds(v, task)
          BY <1>0, <2>4, <3>1 DEF PlacesOK
        <4>3. \A v \in Workers : v # w => ~ Holds(v, task)'
          BY <2>1, <2>2, <4>2 DEF Holds
        <4> QED
          BY <4>1, <4>3
      <3>5. CASE RunTask(w)
        BY <1>0, <2>0, <2>4, <3>2, <3>4, <3>5 DEF RunTask, PoolTypeOK
      <3>6. CASE SkipNull(w)
        BY <2>0, <2>4, <3>2, <3>4, <3>6 DEF SkipNull
      <3> QED
        BY <1>8, <3>5, <3>6
    <2> SUFFICES ASSUME NEW k \in 1..MaxPush
                 PROVE  /\ k > sent - Len(q) => runs'[k] = 0 /\ \A v \in Workers : ~ Holds(v, k)'
                        /\ \A u, v \in Workers : Holds(u, k)' /\ Holds(v, k)' => u = v
                        /\ runs'[k] \in {0, 1}
                        /\ runs'[k] = 1 => k \notin NullTasks /\ \A v \in Workers : ~ Holds(v, k)'
                        /\ k <= sent - Len(q) /\ runs'[k] = 0 =>
                             k \in NullTasks \/ \E v \in Workers : Holds(v, k)'
      BY <2>1 DEF PlacesOK
    <2>5. CASE k = task
      BY <2>4, <2>5
    <2>6. CASE k # task
      BY <1>0, <2>3, <2>6 DEF PlacesOK
    <2> QED
      BY <2>5, <2>6
  <1>9. ASSUME NEW w \in Workers, Spurious(w), UNCHANGED pool PROVE PlacesOK'
    BY <1>1, <1>9 DEF Spurious, pool, Holds
  <1> QED
    BY <1>2, <1>3, <1>4, <1>5, <1>6, <1>7, <1>8, <1>9 DEF PoolNext, Work, FetchTask

-----------------------------------------------------------------------------
\* Places that are not shared, counted.
LEMMA CountPlaces == PoolInv => ExactlyOnce
  <1> SUFFICES ASSUME PoolInv, NEW k \in 1..MaxPush
               PROVE  Cardinality({i \in 1..Len(q) : q[i] = k})
                        + Cardinality({w \in Workers : Holds(w, k)}) + runs[k]
                      = IF k > sent THEN 0
                        ELSE IF k \in NullTasks /\ Cardinality({i \in 1..Len(q) : q[i] = k})
                                                   + Cardinality({w \in Workers : Holds(w, k)}) = 0
                             THEN 0 ELSE 1
    BY DEF ExactlyOnce
  <1> DEFINE Q == {i \in 1..Len(q) : q[i] = k}
             H == {w \in Workers : Holds(w, k)}
  <1> SUFFICES Cardinality(Q) + Cardinality(H) + runs[k]
               = IF k > sent THEN 0
                 ELSE IF k \in NullTasks /\ Cardinality(Q) + Cardinality(H) = 0 THEN 0 ELSE 1
    OBVIOUS
  <1>0. /\ FifoOK /\ PlacesOK /\ Len(q) \in Nat /\ sent \in Nat /\ runs[k] \in Nat
    BY LenProperties DEF PoolInv, IInv, TypeOK, PoolTypeOK
  <1>1. \A i \in 1..Len(q) : q[i] = (sent - Len(q)) + i
    BY <1>0 DEF FifoOK
  <1>2. CASE k > sent
    <2>1. Q = {} /\ H = {} /\ runs[k] = 0
      BY <1>0, <1>1, <1>2 DEF PlacesOK
    <2>2. Cardinality(Q) = 0 /\ Cardinality(H) = 0
      BY <2>1, FS_EmptySet
    <2> HIDE DEF Q, H
    <2> QED
      BY <1>2, <2>1, <2>2
  <1>3. CASE k <= sent /\ k > sent - Len(q)
    <2>1. H = {} /\ runs[k] = 0
      BY <1>0, <1>3 DEF PlacesOK
    <2>2. Q = {k - (sent - Len(q))}
      BY <1>0, <1>1, <1>3
    <2>3. Cardinality(Q) = 1 /\ Cardinality(H) = 0
      BY <2>1, <2>2, FS_EmptySet, FS_Singleton
    <2> HIDE DEF Q, H
    <2> QED
      BY <1>0, <1>3, <2>1, <2>3
  <1>4. CASE k <= sent - Len(q)
    <2>1. Q = {}
      BY <1>0, <1>1, <1>4
    <2>2. Cardinality(Q) = 0
      BY <2>1, FS_EmptySet
    <2>3. k <= sent
      BY <1>0, <1>4
    <2>4. CASE H = {}
      <3>1. Cardinality(H) = 0
        BY <2>4, FS_EmptySet
      <3>2. (runs[k] = 1 /\ k \notin NullTasks) \/ (runs[k] = 0 /\ k \in NullTasks)
        BY <1>0, <1>4, <2>4 DEF PlacesOK
      <3> HIDE DEF Q, H
      <3> QED
        BY <1>0, <2>2, <2>3, <3>1, <3>2
    <2>5. CASE H # {}
      <3>1. PICK w \in Workers : Holds(w, k)
        BY <2>5
      <3>2. H = {w} /\ runs[k] = 0
        BY <1>0, <3>1 DEF PlacesOK
      <3>3. Cardinality(H) = 1
        BY <3>2, FS_Singleton
      <3> HIDE DEF Q, H
      <3> QED
        BY <1>0, <2>2, <2>3, <3>2, <3>3
    <2> QED
      BY <2>4, <2>5
  <1> QED
    BY <1>0, <1>2, <1>3, <1>4

\* Whatever the number of workers, each task is in one place, and is run once
\* (run_worker of WorkerPool.h).
THEOREM TasksRunOnce == PoolSafety => []ExactlyOnce
  <1>1. PoolInit => PoolInv
    BY InitInv, PoolInitTypeOK, InitPlacesOK DEF PoolInv, PoolInit
  <1>2. PoolInv /\ [PoolNext]_PoolVars => PoolInv'
    <2> SUFFICES ASSUME PoolInv, [PoolNext]_PoolVars PROVE PoolInv'
      OBVIOUS
    <2>1. IInv'
      BY PoolStep, NextTypeOK, NextMutexOK, NextFifoOK, NextNoLostWakeup DEF PoolInv, IInv
    <2>2. PoolTypeOK' /\ PlacesOK'
      BY PoolNextTypeOK, NextPlacesOK DEF PoolInv
    <2> QED
      BY <2>1, <2>2 DEF PoolInv
  <1>3. PoolInv => ExactlyOnce
    BY CountPlaces
  <1> QED
    BY <1>1, <1>2, <1>3, PTL DEF PoolSafety
=============================================================================
