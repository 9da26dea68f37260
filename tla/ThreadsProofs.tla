--------------------------- MODULE ThreadsProofs ---------------------------
(***************************************************************************)
(* The programs of thread/.  Of those that CondVar models, for any number  *)
(* of consumers, values and spurious wake-ups: the spin lock excludes, no  *)
(* consumer sleeps on work, and the consumers share the values like one    *)
(* atomic queue.  Of those of ThreadTests, whichever runs: mutexes are     *)
(* unlocked by their owners, and nothing is used after its life.           *)
(***************************************************************************)
EXTENDS Threads, SequenceTheorems, TLAPS

\* Where each thread can be: each runs its own function of its own test, and
\* only a thread that waits is in the condition variable.
FlowOK ==
  /\ \A t \in Threads : ~ Runs(t) => pc[t] = "absent"
  /\ \A t \in Consumers :
       /\ pc[t] \in {"absent", "cas", "restore", "test", "wait", "asleep", "front", "pop", "unlock"}
       /\ next[t] = "test"
  /\ pc[Waiter] \in {"absent", "cas", "restore", "wait", "asleep", "unlock", "job"}
  /\ next[Waiter] \in {"wait", "unlock"}
  /\ pc[Pro] \in {"absent", "cas", "restore", "push", "ready", "notify", "unlock", "done"}
  /\ next[Pro] = IF test = "queue" THEN "push" ELSE "ready"
  /\ pc[Pro] = "push" => test = "queue"
  /\ pc[Pro] = "ready" => test = "prepare"
  /\ \A t \in waiting : pc[t] = "asleep"

\* The values are in the order of the provider; a consumer that is about to call
\* front or pop finds a value, and one about to sleep finds none.
OrderOK ==
  /\ \A i \in 1..Len(queue) : queue[i] = (sent - Len(queue)) + i
  /\ \A t \in Consumers :
       /\ pc[t] \in {"front", "pop"} => queue # <<>>
       /\ pc[t] = "pop" => val[t] = queue[1]
       /\ pc[t] = "wait" => queue = <<>>

IInv == TypeOK /\ FlowOK /\ Exclusive /\ OrderOK /\ NoneSleepsOnWork

-----------------------------------------------------------------------------
\* The initial state, of a test or while another program runs.
Start == test \in Tests \cup {"none"} /\ Rest

LEMMA InitInv == Start => IInv
  <1> SUFFICES ASSUME Start PROVE IInv
    OBVIOUS
  <1> USE CondVarAssumption DEF Start, Rest, Runs, Threads
  <1>1. TypeOK
    BY EmptySeq DEF TypeOK, First, Held
  <1>2. FlowOK
    BY DEF FlowOK, First
  <1>3. Exclusive
    BY DEF Exclusive, HasLock, Held
  <1>4. OrderOK
    BY EmptySeq DEF OrderOK
  <1>5. NoneSleepsOnWork
    BY DEF NoneSleepsOnWork
  <1> QED
    BY <1>1, <1>2, <1>3, <1>4, <1>5 DEF IInv

-----------------------------------------------------------------------------
\* Types are preserved.
LEMMA NextTypeOK == TypeOK /\ FlowOK /\ OrderOK /\ [Next]_vars => TypeOK'
  <1> SUFFICES ASSUME TypeOK, FlowOK, OrderOK, [Next]_vars PROVE TypeOK'
    OBVIOUS
  <1> USE CondVarAssumption DEF TypeOK, Held, Goto, Lock, lockVars
  <1>1. CASE UNCHANGED vars
    BY <1>1 DEF vars
  <1>2. ASSUME NEW t \in Threads, LockStep(t) PROVE TypeOK'
    <2>1. CASE Cas(t)
      BY <2>1 DEF Cas
    <2>2. CASE Restore(t)
      BY <2>2 DEF Restore
    <2>3. CASE Unlock(t)
      BY <2>3 DEF Unlock
    <2>4. CASE Wait(t)
      BY <2>4 DEF Wait
    <2>5. CASE Wake(t)
      BY <2>5 DEF Wake
    <2> QED
      BY <1>2, <2>1, <2>2, <2>3, <2>4, <2>5 DEF LockStep
  <1>3. CASE Produce
    <2>1. CASE Push
      <3>1. sent' \in Nat /\ queue' \in Seq(Nat)
        BY <2>1, AppendProperties DEF Push
      <3> QED
        BY <2>1, <3>1 DEF Push
    <2>2. CASE Ready
      BY <2>2 DEF Ready
    <2>3. CASE Notify
      <3>1. waiting' \subseteq Threads
        BY <2>3 DEF Notify, NotifyOne
      <3>2. /\ pc' \in [Threads -> Held \cup {"absent", "cas", "restore", "notify", "asleep", "job", "done"}]
            /\ next' \in [Threads -> Held]
            /\ expect' \in [Threads -> BOOLEAN]
        BY <2>3 DEF Notify, AfterNotify
      <3> QED
        BY <2>3, <3>1, <3>2 DEF Notify
    <2> QED
      BY <1>3, <2>1, <2>2, <2>3 DEF Produce
  <1>4. ASSUME NEW t \in Consumers, Consume(t) PROVE TypeOK'
    <2>1. CASE Test(t)
      BY <2>1 DEF Test
    <2>2. CASE Front(t)
      <3>1. Head(queue) \in Nat
        BY <2>2, HeadTailProperties DEF Front, OrderOK
      <3> QED
        BY <2>2, <3>1 DEF Front
    <2>3. CASE Pop(t)
      <3>1. queue' \in Seq(Nat)
        BY <2>3, HeadTailProperties DEF Pop, OrderOK
      <3> QED
        BY <2>3, <3>1 DEF Pop
    <2> QED
      BY <1>4, <2>1, <2>2, <2>3 DEF Consume
  <1>5. CASE Job
    BY <1>5 DEF Job
  <1>6. ASSUME NEW t \in Threads, Spurious(t) PROVE TypeOK'
    BY <1>6 DEF Spurious
  <1> QED
    BY <1>1, <1>2, <1>3, <1>4, <1>5, <1>6 DEF Next, Step

-----------------------------------------------------------------------------
\* Each thread stays in its function.
LEMMA NextFlowOK == TypeOK /\ FlowOK /\ [Next]_vars => FlowOK'
  <1> SUFFICES ASSUME TypeOK, FlowOK, [Next]_vars PROVE FlowOK'
    OBVIOUS
  <1> USE CondVarAssumption DEF TypeOK, FlowOK, Threads, Runs, Goto, Lock, lockVars
  <1>1. CASE UNCHANGED vars
    BY <1>1 DEF vars
  <1>2. ASSUME NEW t \in Threads, LockStep(t) PROVE FlowOK'
    <2>1. CASE Cas(t)
      BY <2>1 DEF Cas
    <2>2. CASE Restore(t)
      BY <2>2 DEF Restore
    <2>3. CASE Unlock(t)
      BY <2>3 DEF Unlock
    <2>4. CASE Wait(t)
      BY <2>4 DEF Wait
    <2>5. CASE Wake(t)
      BY <2>5 DEF Wake
    <2> QED
      BY <1>2, <2>1, <2>2, <2>3, <2>4, <2>5 DEF LockStep
  <1>3. CASE Push
    BY <1>3 DEF Push
  <1>4. CASE Ready
    BY <1>4 DEF Ready
  <1>5. CASE Notify
    <2>1. waiting' \subseteq waiting /\ test' = test /\ pc[Pro] = "notify"
      BY <1>5 DEF Notify, NotifyOne
    <2>2. CASE test = "queue" /\ sent < MaxVal
      BY <1>5, <2>1, <2>2 DEF Notify, AfterNotify
    <2>3. CASE test = "queue" /\ ~ sent < MaxVal
      BY <1>5, <2>1, <2>3 DEF Notify, AfterNotify
    <2>4. CASE test # "queue"
      BY <1>5, <2>1, <2>4 DEF Notify, AfterNotify
    <2> QED
      BY <2>2, <2>3, <2>4
  <1>6. ASSUME NEW t \in Consumers, Consume(t) PROVE FlowOK'
    <2>1. CASE Test(t)
      BY <2>1 DEF Test
    <2>2. CASE Front(t)
      BY <2>2 DEF Front
    <2>3. CASE Pop(t)
      BY <2>3 DEF Pop
    <2> QED
      BY <1>6, <2>1, <2>2, <2>3 DEF Consume
  <1>7. CASE Job
    BY <1>7 DEF Job
  <1>8. ASSUME NEW t \in Threads, Spurious(t) PROVE FlowOK'
    BY <1>8 DEF Spurious
  <1> QED
    BY <1>1, <1>2, <1>3, <1>4, <1>5, <1>6, <1>7, <1>8 DEF Next, Step, Produce

-----------------------------------------------------------------------------
\* The spin lock excludes.
LEMMA NextExclusive == TypeOK /\ FlowOK /\ Exclusive /\ [Next]_vars => Exclusive'
  <1> SUFFICES ASSUME TypeOK, FlowOK, Exclusive, [Next]_vars PROVE Exclusive'
    OBVIOUS
  <1>0. Pro \in Threads /\ Waiter \in Threads /\ Consumers \subseteq Threads
    BY DEF Threads
  <1> USE <1>0, CondVarAssumption DEF TypeOK, Exclusive, HasLock, Held, Goto, Lock, lockVars
  <1>1. CASE UNCHANGED vars
    BY <1>1 DEF vars
  <1>2. ASSUME NEW t \in Threads, Cas(t) PROVE Exclusive'
    <2>1. pc[t] = "cas" /\ ~ expect[t] /\ test' = test
      BY <1>2 DEF Cas
    <2>2. next[t] \in {"test", "wait", "unlock", "push", "ready"}
      BY DEF FlowOK, Threads
    <2>3. CASE flag
      <3>1. flag # expect[t]
        BY <2>1, <2>3
      <3>2. flag' = flag /\ pc' = [pc EXCEPT ![t] = "restore"] /\ expect' = [expect EXCEPT ![t] = flag]
        BY <1>2, <3>1 DEF Cas
      <3> QED
        BY <2>1, <3>2
    <2>4. CASE ~ flag
      <3>1. flag = expect[t]
        BY <2>1, <2>4
      <3>2. flag' = TRUE /\ pc' = [pc EXCEPT ![t] = next[t]] /\ expect' = expect
        BY <1>2, <3>1 DEF Cas
      <3>3. \A u \in Threads : ~ HasLock(u)
        BY <2>4
      <3>4. next[t] \in Held
        BY <2>2
      <3> QED
        BY <2>1, <3>2, <3>3, <3>4
    <2> QED
      BY <2>3, <2>4
  <1>3. ASSUME NEW t \in Threads, Restore(t) PROVE Exclusive'
    BY <1>3 DEF Restore
  <1>4. ASSUME NEW t \in Threads, Unlock(t) PROVE Exclusive'
    <2>1. HasLock(t) /\ flag' = FALSE /\ test' = test
      BY <1>4 DEF Unlock
    <2>2. \A u \in Threads \ {t} : ~ HasLock(u)
      BY <2>1
    <2>3. \A u \in Threads \ {t} : pc'[u] = pc[u] /\ expect'[u] = expect[u]
      BY <1>4 DEF Unlock
    <2>4. /\ pc'[t] \in {"notify", "done", "job", "cas"}
          /\ pc'[t] = "notify" => test = "queue"
          /\ pc'[t] = "cas" => ~ expect'[t]
      <3>1. CASE t = Pro
        BY <1>4, <3>1 DEF Unlock
      <3>2. CASE t = Waiter
        BY <1>4, <3>2 DEF Unlock
      <3>3. CASE t # Pro /\ t # Waiter
        BY <1>4, <3>3 DEF Unlock
      <3> QED
        BY <3>1, <3>2, <3>3
    <2>5. \A u \in Threads : ~ HasLock(u)'
      BY <2>1, <2>2, <2>3, <2>4
    <2> QED
      BY <2>1, <2>3, <2>4, <2>5
  <1>5. ASSUME NEW t \in Threads, Wait(t) PROVE Exclusive'
    BY <1>5 DEF Wait
  <1>6. ASSUME NEW t \in Threads, Wake(t) PROVE Exclusive'
    BY <1>6 DEF Wake
  <1>7. CASE Push
    BY <1>7 DEF Push
  <1>8. CASE Ready
    BY <1>8 DEF Ready, FlowOK
  <1>9. CASE Notify
    <2>1. pc[Pro] = "notify" /\ test' = test /\ flag' = flag
      BY <1>9 DEF Notify
    <2>2. test \in {"queue", "prepare"}
      BY <2>1 DEF FlowOK, Runs
    <2>3. CASE test = "queue"
      BY <1>9, <2>1, <2>3 DEF Notify, AfterNotify
    <2>4. CASE test = "prepare"
      BY <1>9, <2>1, <2>4 DEF Notify, AfterNotify
    <2> QED
      BY <2>2, <2>3, <2>4
  <1>10. ASSUME NEW t \in Consumers, Consume(t) PROVE Exclusive'
    <2>1. CASE Test(t)
      BY <2>1 DEF Test
    <2>2. CASE Front(t)
      BY <2>2 DEF Front
    <2>3. CASE Pop(t)
      BY <2>3 DEF Pop
    <2> QED
      BY <1>10, <2>1, <2>2, <2>3 DEF Consume
  <1>11. CASE Job
    BY <1>11 DEF Job
  <1>12. ASSUME NEW t \in Threads, Spurious(t) PROVE Exclusive'
    BY <1>12 DEF Spurious
  <1> QED
    BY <1>1, <1>2, <1>3, <1>4, <1>5, <1>6, <1>7, <1>8, <1>9, <1>10, <1>11, <1>12
    DEF Next, Step, LockStep, Produce

-----------------------------------------------------------------------------
\* The values keep their order: only a thread with the lock changes the queue.
LEMMA NextOrderOK == TypeOK /\ FlowOK /\ Exclusive /\ OrderOK /\ [Next]_vars => OrderOK'
  <1> SUFFICES ASSUME TypeOK, FlowOK, Exclusive, OrderOK, [Next]_vars PROVE OrderOK'
    OBVIOUS
  <1> USE DEF Goto, Lock, lockVars
  <1>0. /\ Pro \in Threads /\ Consumers \subseteq Threads
        /\ \A t, u \in Threads : pc[t] \in Held /\ pc[u] \in Held => t = u
    BY DEF Threads, Exclusive, HasLock
  <1>1. ASSUME queue' = queue, sent' = sent, val' = val,
               \A u \in Consumers : pc'[u] \in {"front", "pop", "wait"} => pc'[u] = pc[u]
        PROVE  OrderOK'
    BY <1>1 DEF OrderOK
  <1>2. CASE UNCHANGED vars
    BY <1>1, <1>2 DEF vars
  <1>3. ASSUME NEW t \in Threads, LockStep(t) PROVE OrderOK'
    <2>1. queue' = queue /\ sent' = sent /\ val' = val
      BY <1>3 DEF LockStep, Cas, Restore, Unlock, Wait, Wake
    <2>2. \A u \in Consumers : pc'[u] \in {"front", "pop", "wait"} => pc'[u] = pc[u]
      <3>1. CASE Cas(t)
        <4>1. \A u \in Consumers : next[u] = "test"
          BY DEF FlowOK
        <4> QED
          BY <1>0, <3>1, <4>1 DEF Cas, TypeOK
      <3>2. CASE Restore(t)
        BY <1>0, <3>2 DEF Restore, TypeOK
      <3>3. CASE Unlock(t)
        BY <1>0, <3>3 DEF Unlock, TypeOK
      <3>4. CASE Wait(t)
        BY <1>0, <3>4 DEF Wait, TypeOK
      <3>5. CASE Wake(t)
        BY <1>0, <3>5 DEF Wake, TypeOK
      <3> QED
        BY <1>3, <3>1, <3>2, <3>3, <3>4, <3>5 DEF LockStep
    <2> QED
      BY <1>1, <2>1, <2>2
  <1>4. CASE Push
    <2>1. /\ Len(queue') = Len(queue) + 1
          /\ \A i \in 1..Len(queue) : queue'[i] = queue[i]
          /\ queue'[Len(queue) + 1] = sent + 1
          /\ Len(queue) \in Nat /\ sent \in Nat /\ sent' = sent + 1
      BY <1>4, AppendProperties, LenProperties DEF Push, TypeOK
    <2>2. \A i \in 1..Len(queue') : queue'[i] = (sent' - Len(queue')) + i
      <3> SUFFICES ASSUME NEW i \in 1..Len(queue')
                   PROVE  queue'[i] = (sent' - Len(queue')) + i
        OBVIOUS
      <3>1. CASE i \in 1..Len(queue)
        <4>1. queue[i] = (sent - Len(queue)) + i
          BY <3>1 DEF OrderOK
        <4> QED
          BY <2>1, <3>1, <4>1
      <3>2. CASE i = Len(queue) + 1
        BY <2>1, <3>2
      <3> QED
        BY <2>1, <3>1, <3>2
    <2>3. \A u \in Consumers : pc'[u] \notin {"front", "pop", "wait"}
      <3>1. \A u \in Consumers : u # Pro /\ pc'[u] = pc[u]
        BY <1>4, CondVarAssumption DEF Push, TypeOK, Threads
      <3>2. \A u \in Consumers : pc[u] \notin Held
        BY <1>0, <1>4, <3>1 DEF Push, Held
      <3> QED
        BY <3>1, <3>2 DEF Held
    <2> QED
      BY <2>2, <2>3 DEF OrderOK
  <1>5. CASE Ready
    BY <1>0, <1>1, <1>5, CondVarAssumption DEF Ready, TypeOK
  <1>6. CASE Notify
    <2>1. queue' = queue /\ sent' = sent /\ val' = val
      BY <1>6 DEF Notify
    <2>2. \A u \in Consumers : pc'[u] = pc[u]
      BY <1>0, <1>6, CondVarAssumption DEF Notify, AfterNotify, TypeOK
    <2> QED
      BY <1>1, <2>1, <2>2
  <1>7. ASSUME NEW t \in Consumers, Test(t) PROVE OrderOK'
    <2>1. queue' = queue /\ sent' = sent /\ val' = val
      BY <1>7 DEF Test
    <2>2. \A u \in Consumers \ {t} : pc'[u] = pc[u]
      BY <1>0, <1>7 DEF Test, TypeOK
    <2>3. pc'[t] = IF queue = <<>> THEN "wait" ELSE "front"
      BY <1>0, <1>7 DEF Test, TypeOK
    <2> QED
      BY <2>1, <2>2, <2>3 DEF OrderOK
  <1>8. ASSUME NEW t \in Consumers, Front(t) PROVE OrderOK'
    <2>1. /\ queue' = queue /\ sent' = sent /\ queue # <<>>
          /\ Head(queue) = queue[1]
          /\ val'[t] = queue[1] /\ pc'[t] = "pop"
      BY <1>0, <1>8, HeadTailProperties DEF Front, TypeOK, OrderOK
    <2>2. \A u \in Consumers \ {t} : pc'[u] = pc[u] /\ pc[u] \notin Held
      BY <1>0, <1>8 DEF Front, TypeOK, Held
    <2> QED
      BY <2>1, <2>2 DEF OrderOK, Held
  <1>9. ASSUME NEW t \in Consumers, Pop(t) PROVE OrderOK'
    <2>1. queue # <<>>
      BY <1>9 DEF Pop, OrderOK
    <2>2. /\ Len(queue') = Len(queue) - 1
          /\ Len(queue) \in Nat /\ sent \in Nat /\ sent' = sent
          /\ \A i \in 1..Len(queue') : queue'[i] = queue[i + 1]
      BY <1>9, <2>1, HeadTailProperties, LenProperties DEF Pop, TypeOK
    <2>3. \A i \in 1..Len(queue') : queue'[i] = (sent' - Len(queue')) + i
      <3> SUFFICES ASSUME NEW i \in 1..Len(queue')
                   PROVE  queue'[i] = (sent' - Len(queue')) + i
        OBVIOUS
      <3>1. i + 1 \in 1..Len(queue)
        BY <2>2
      <3>2. queue[i + 1] = (sent - Len(queue)) + (i + 1)
        BY <3>1 DEF OrderOK
      <3> QED
        BY <2>2, <3>2
    <2>4. \A u \in Consumers : pc'[u] \notin {"front", "pop", "wait"}
      BY <1>0, <1>9 DEF Pop, TypeOK, Held
    <2> QED
      BY <2>3, <2>4 DEF OrderOK
  <1>10. CASE Job
    BY <1>0, <1>1, <1>10, CondVarAssumption DEF Job, TypeOK
  <1>11. ASSUME NEW t \in Threads, Spurious(t) PROVE OrderOK'
    BY <1>1, <1>11 DEF Spurious
  <1> QED
    BY <1>2, <1>3, <1>4, <1>5, <1>6, <1>7, <1>8, <1>9, <1>10, <1>11
    DEF Next, Step, Produce, Consume

-----------------------------------------------------------------------------
\* No consumer sleeps on work: one goes to sleep only when there is none, and
\* after a push the provider is about to notify.
LEMMA NextNoneSleepsOnWork == IInv /\ [Next]_vars => NoneSleepsOnWork'
  <1> SUFFICES ASSUME IInv, [Next]_vars PROVE NoneSleepsOnWork'
    OBVIOUS
  <1> USE CondVarAssumption DEF Goto, Lock, lockVars
  <1>0. /\ TypeOK /\ FlowOK /\ Exclusive /\ OrderOK /\ NoneSleepsOnWork
        /\ Pro \in Threads /\ Consumers \subseteq Threads
        /\ FlowOK'
    BY NextFlowOK DEF IInv, Threads
  <1>1. ASSUME queue' = queue, waiting' \subseteq waiting,
               pc[Pro] \in {"notify", "unlock"} => pc'[Pro] = pc[Pro]
        PROVE  NoneSleepsOnWork'
    BY <1>0, <1>1 DEF NoneSleepsOnWork
  <1>2. CASE UNCHANGED vars
    BY <1>1, <1>2 DEF vars
  <1>3. ASSUME NEW t \in Threads, Cas(t) \/ Restore(t) \/ Wake(t) PROVE NoneSleepsOnWork'
    <2>1. queue' = queue /\ waiting' = waiting
      BY <1>3 DEF Cas, Restore, Wake
    <2>2. pc[Pro] \in {"notify", "unlock"} => pc'[Pro] = pc[Pro]
      BY <1>0, <1>3 DEF Cas, Restore, Wake, TypeOK
    <2> QED
      BY <1>1, <2>1, <2>2
  <1>4. ASSUME NEW t \in Threads, Unlock(t) PROVE NoneSleepsOnWork'
    <2>1. queue' = queue /\ waiting' = waiting /\ test' = test
      BY <1>4 DEF Unlock
    <2>2. CASE t = Pro /\ test = "queue"
      BY <1>0, <1>4, <2>2 DEF Unlock, TypeOK, NoneSleepsOnWork
    <2>3. CASE test # "queue"
      <3>1. \A u \in Consumers : pc[u] = "absent"
        BY <1>0, <2>3 DEF FlowOK, Runs
      <3>2. \A u \in Consumers : u \notin waiting
        BY <1>0, <3>1 DEF FlowOK
      <3> QED
        BY <2>1, <3>2 DEF NoneSleepsOnWork
    <2>4. CASE t # Pro
      <3>1. pc'[Pro] = pc[Pro]
        BY <1>0, <1>4, <2>4 DEF Unlock, TypeOK
      <3> QED
        BY <1>1, <2>1, <3>1
    <2> QED
      BY <2>2, <2>3, <2>4
  <1>5. ASSUME NEW t \in Threads, Wait(t) PROVE NoneSleepsOnWork'
    <2>1. queue' = queue /\ waiting' = waiting \cup {t} /\ pc[t] = "wait"
      BY <1>5 DEF Wait
    <2>2. CASE t \in Consumers
      BY <1>0, <2>1, <2>2 DEF OrderOK, NoneSleepsOnWork
    <2>3. CASE t \notin Consumers
      <3>1. pc'[Pro] = pc[Pro]
        BY <1>0, <1>5, <2>1 DEF Wait, TypeOK, FlowOK
      <3> QED
        BY <1>0, <2>1, <2>3, <3>1 DEF NoneSleepsOnWork
    <2> QED
      BY <2>2, <2>3
  <1>6. CASE Push
    BY <1>0, <1>6 DEF Push, TypeOK, NoneSleepsOnWork
  <1>7. CASE Ready
    BY <1>0, <1>1, <1>7 DEF Ready, TypeOK
  <1>8. CASE Notify
    <2>1. queue' = queue
      BY <1>8 DEF Notify
    <2>2. CASE waiting = {}
      BY <1>8, <2>2 DEF Notify, NotifyOne, NoneSleepsOnWork
    <2>3. CASE waiting # {} /\ test = "queue"
      <3>1. PICK w \in waiting : waiting' = waiting \ {w}
        BY <1>8, <2>3 DEF Notify, NotifyOne
      <3>2. w \in Threads /\ pc[w] = "asleep"
        BY <1>0, <3>1 DEF FlowOK, TypeOK
      <3>3. w \in Consumers
        <4>1. w # Pro
          BY <1>0, <3>2 DEF FlowOK
        <4>2. w # Waiter
          BY <1>0, <2>3, <3>2 DEF FlowOK, Runs
        <4> QED
          BY <3>2, <4>1, <4>2 DEF Threads
      <3> QED
        BY <3>1, <3>3 DEF NoneSleepsOnWork
    <2>4. CASE test # "queue"
      <3>1. \A u \in Consumers : pc[u] = "absent"
        BY <1>0, <2>4 DEF FlowOK, Runs
      <3>2. \A u \in Consumers : u \notin waiting
        BY <1>0, <3>1 DEF FlowOK
      <3>3. waiting' \subseteq waiting
        BY <1>8 DEF Notify, NotifyOne
      <3> QED
        BY <3>2, <3>3 DEF NoneSleepsOnWork
    <2> QED
      BY <2>2, <2>3, <2>4
  <1>9. ASSUME NEW t \in Consumers, Test(t) \/ Front(t) PROVE NoneSleepsOnWork'
    BY <1>0, <1>1, <1>9 DEF Test, Front, TypeOK
  <1>10. ASSUME NEW t \in Consumers, Pop(t) PROVE NoneSleepsOnWork'
    <2>1. t \notin waiting /\ waiting' = waiting
      BY <1>0, <1>10 DEF Pop, FlowOK
    <2> QED
      BY <2>1 DEF NoneSleepsOnWork
  <1>11. CASE Job
    BY <1>0, <1>1, <1>11 DEF Job, TypeOK
  <1>12. ASSUME NEW t \in Threads, Spurious(t) PROVE NoneSleepsOnWork'
    BY <1>1, <1>12 DEF Spurious
  <1> QED
    BY <1>2, <1>3, <1>4, <1>5, <1>6, <1>7, <1>8, <1>9, <1>10, <1>11, <1>12
    DEF Next, Step, LockStep, Produce, Consume

-----------------------------------------------------------------------------
\* The invariant of both tests, whatever the number of consumers and values.
THEOREM CondVarInvariant == Start /\ [][Next]_vars => []IInv
  <1>1. IInv /\ [Next]_vars => IInv'
    BY NextTypeOK, NextFlowOK, NextExclusive, NextOrderOK, NextNoneSleepsOnWork DEF IInv
  <1> QED
    BY <1>1, InitInv, PTL

\* While a function of ThreadTests runs, the threads of CondVar do not.
LEMMA ThreadsUseCondVar == ThreadsSpec => Start /\ [][Next]_vars
  <1>1. ThreadsInit => Start
    BY DEF ThreadsInit, Init, Start
  <1>2. [ThreadsNext]_<<vars, testVars>> => [Next]_vars
    BY DEF ThreadsNext
  <1> QED
    BY <1>1, <1>2, PTL DEF ThreadsSpec

\* SpinLock excludes, although compare_exchange_weak overwrites expect.
THEOREM SpinLockExcludes == ThreadsSpec => []Exclusive
  <1>1. IInv => Exclusive
    BY DEF IInv
  <1> QED
    BY <1>1, ThreadsUseCondVar, CondVarInvariant, PTL

\* A notification for each value, after the lock was released, is enough for no
\* consumer to sleep on work.
THEOREM NobodySleepsOnWork == ThreadsSpec => []NoneSleepsOnWork
  <1>1. IInv => NoneSleepsOnWork
    BY DEF IInv
  <1> QED
    BY <1>1, ThreadsUseCondVar, CondVarInvariant, PTL

-----------------------------------------------------------------------------
\* The values are shared like an atomic queue's.
LEMMA RefineInit == Start => Values!Init
  <1> SUFFICES ASSUME Start PROVE Values!Init
    OBVIOUS
  <1>1. \A t \in Consumers : pc[t] \in {"cas", "absent"}
    BY DEF Start, Rest, Threads
  <1>2. Taken = 0
    BY <1>1, EmptySeq DEF Start, Rest, Taken
  <1> QED
    BY <1>2 DEF Start, Rest, Values!Init

\* push is the abstract push and front the abstract take; all else stutters.
LEMMA RefineNext == IInv /\ [Next]_vars => [Values!Next]_Values!vars
  <1> SUFFICES ASSUME IInv, [Next]_vars PROVE [Values!Next]_Values!vars
    OBVIOUS
  <1> USE CondVarAssumption DEF Goto, Lock, lockVars
  <1>0. /\ TypeOK /\ FlowOK /\ OrderOK
        /\ Pro \in Threads /\ Consumers \subseteq Threads
        /\ Len(queue) \in Nat /\ sent \in Nat
        /\ \A t, u \in Threads : pc[t] \in Held /\ pc[u] \in Held => t = u
    BY LenProperties DEF IInv, TypeOK, Exclusive, HasLock, Threads
  <1>1. ASSUME queue' = queue, sent' = sent, val' = val,
               \A u \in Consumers : pc'[u] = "pop" <=> pc[u] = "pop"
        PROVE  UNCHANGED Values!vars
    BY <1>1 DEF Values!vars, Taken
  <1>2. CASE UNCHANGED vars
    BY <1>1, <1>2 DEF vars
  <1>3. ASSUME NEW t \in Threads, LockStep(t) PROVE UNCHANGED Values!vars
    <2>1. queue' = queue /\ sent' = sent /\ val' = val
      BY <1>3 DEF LockStep, Cas, Restore, Unlock, Wait, Wake
    <2>2. \A u \in Consumers : pc'[u] = "pop" <=> pc[u] = "pop"
      <3>1. CASE Cas(t)
        <4>1. \A u \in Consumers : next[u] = "test"
          BY <1>0 DEF FlowOK
        <4> QED
          BY <1>0, <3>1, <4>1 DEF Cas, TypeOK
      <3>2. CASE Restore(t)
        BY <1>0, <3>2 DEF Restore, TypeOK
      <3>3. CASE Unlock(t)
        BY <1>0, <3>3 DEF Unlock, TypeOK
      <3>4. CASE Wait(t)
        BY <1>0, <3>4 DEF Wait, TypeOK
      <3>5. CASE Wake(t)
        BY <1>0, <3>5 DEF Wake, TypeOK
      <3> QED
        BY <1>3, <3>1, <3>2, <3>3, <3>4, <3>5 DEF LockStep
    <2> QED
      BY <1>1, <2>1, <2>2
  <1>4. CASE Push
    <2>1. Len(queue') = Len(queue) + 1 /\ sent' = sent + 1 /\ val' = val
      BY <1>0, <1>4, AppendProperties DEF Push, TypeOK
    <2>2. \A u \in Consumers : pc[u] # "pop" /\ pc'[u] # "pop"
      BY <1>0, <1>4 DEF Push, TypeOK, Held
    <2>3. Taken' = Taken
      BY <1>0, <2>1, <2>2 DEF Taken
    <2> QED
      BY <2>1, <2>3 DEF Values!Next, Values!Push
  <1>5. CASE Ready \/ Notify \/ Job
    <2>1. queue' = queue /\ sent' = sent /\ val' = val
      BY <1>5 DEF Ready, Notify, Job
    <2>2. \A u \in Consumers : pc'[u] = pc[u]
      BY <1>0, <1>5 DEF Ready, Notify, AfterNotify, Job, TypeOK
    <2> QED
      BY <1>1, <2>1, <2>2
  <1>6. ASSUME NEW t \in Consumers, Test(t) PROVE UNCHANGED Values!vars
    <2>1. \A u \in Consumers : pc'[u] = "pop" <=> pc[u] = "pop"
      BY <1>0, <1>6 DEF Test, TypeOK
    <2> QED
      BY <1>1, <1>6, <2>1 DEF Test
  <1>7. ASSUME NEW t \in Consumers, Front(t) PROVE Values!Next
    <2>1. /\ \A u \in Consumers : pc[u] # "pop"
          /\ pc'[t] = "pop"
      BY <1>0, <1>7 DEF Front, TypeOK, Held
    <2>2. queue' = queue /\ sent' = sent /\ Len(queue) > 0 /\ Head(queue) = queue[1]
      BY <1>0, <1>7, EmptySeq, HeadTailProperties DEF Front, TypeOK, OrderOK
    <2>3. Taken = sent - Len(queue) /\ Taken' = (sent - Len(queue)) + 1
      BY <1>0, <2>1, <2>2 DEF Taken
    <2>4. Head(queue) = (sent - Len(queue)) + 1
      BY <1>0, <2>2 DEF OrderOK
    <2>5. Taken < sent /\ Taken' = Taken + 1
      BY <1>0, <2>2, <2>3
    <2>6. val' = [val EXCEPT ![t] = Taken']
      <3>1. val' = [val EXCEPT ![t] = Head(queue)]
        BY <1>7 DEF Front
      <3>2. Head(queue) = Taken'
        BY <2>3, <2>4
      <3> QED
        BY <3>1, <3>2
    <2> QED
      BY <2>2, <2>5, <2>6 DEF Values!Next, Values!Take
  <1>8. ASSUME NEW t \in Consumers, Pop(t) PROVE UNCHANGED Values!vars
    <2>1. Len(queue') = Len(queue) - 1 /\ sent' = sent /\ val' = val
      BY <1>0, <1>8, HeadTailProperties DEF Pop, TypeOK, OrderOK
    <2>2. /\ \E u \in Consumers : pc[u] = "pop"
          /\ ~ \E u \in Consumers : pc'[u] = "pop"
      BY <1>0, <1>8 DEF Pop, TypeOK, Held
    <2>3. Taken' = Taken
      BY <1>0, <2>1, <2>2 DEF Taken
    <2> QED
      BY <2>1, <2>3 DEF Values!vars
  <1>9. ASSUME NEW t \in Threads, Spurious(t) PROVE UNCHANGED Values!vars
    BY <1>1, <1>9 DEF Spurious
  <1> QED
    BY <1>2, <1>3, <1>4, <1>5, <1>6, <1>7, <1>8, <1>9 DEF Next, Step, Produce, Consume

\* testQueue refines the atomic queue: the k-th take gets the k-th value.
THEOREM ConsumersShareValues == ThreadsSpec => SharesValues
  <1>1. Start => Values!Init
    BY RefineInit
  <1>2. IInv /\ [Next]_vars => [Values!Next]_Values!vars
    BY RefineNext
  <1> QED
    BY <1>1, <1>2, ThreadsUseCondVar, CondVarInvariant, PTL DEF SharesValues, Values!Spec

-----------------------------------------------------------------------------
(* The test functions of ThreadTests.                                      *)

\* All that the test function that runs does.
Whole == IF program \in DOMAIN TT!Code THEN TT!Code[program] ELSE <<>>

\* What creates a thread, a future or a promise; what asks a future.
Creates == {"start", "async", "promise"}
Asks    == {"get", "wait", "poll"}

\* The task whose promise each thread may keep.
Own == [t1 |-> "f1", t2 |-> "f2", t3 |-> "f3", t4 |-> "f4"]

\* What a thread may have left to do: nothing about mutexes, ...
FreeOps ==
  IF program = "TestUniqueLock" THEN {TT!Work, TT!Job, TT!Forever}
  ELSE {TT!Work, TT!Job, TT!Forever, TT!SetReady, TT!While(<<TT!Work>>)}

\* ... the rest of a function that takes m and gives it back, before it has m ...
Loop(m) == TT!While(<<TT!Unlock({m}), TT!Work, TT!Lock({m})>>)
Before(m) ==
  IF m = "readyFlagMutex"
  THEN {<<TT!Work, TT!Lock({m}), TT!SetReady, TT!Unlock({m})>>,
        <<TT!Lock({m}), TT!SetReady, TT!Unlock({m})>>,
        <<TT!Lock({m}), Loop(m), TT!Unlock({m}), TT!Job>>,
        <<TT!Work, TT!Lock({m}), Loop(m), TT!Unlock({m}), TT!Job>>}
  ELSE {<<TT!Lock({m}), TT!Work, TT!Unlock({m})>>,
        <<TT!Work, TT!Lock({m}), TT!Work, TT!Unlock({m})>>,
        <<TT!Try({m}, <<TT!Work, TT!Unlock({m})>>)>>}
\* ... and when it has it, ...
Critical(m) ==
  IF m = "readyFlagMutex"
  THEN {<<TT!SetReady, TT!Unlock({m})>>,
        <<TT!Unlock({m})>>,
        <<Loop(m), TT!Unlock({m}), TT!Job>>,
        <<TT!Unlock({m}), TT!Job>>,
        <<TT!Unlock({m}), TT!Work, TT!Lock({m}), Loop(m), TT!Unlock({m}), TT!Job>>}
  ELSE {<<TT!Work, TT!Unlock({m})>>, <<TT!Unlock({m})>>}

\* ... or what ends with the promise.
Reports(f) ==
  {<<TT!Set(f)>>, <<TT!Work, TT!Set(f)>>, <<TT!ReadLocal, TT!Work, TT!Set(f)>>}
TaskCodes(f) ==
  {<<>>, <<TT!Finish(f)>>, <<TT!Work, TT!Finish(f)>>, <<TT!ReadLocal, TT!Work, TT!Finish(f)>>}

\* Before k, or from k on, C has the operation op on x.
Done(C, k, op, x) == \E i \in 1..(k - 1) : C[i].op = op /\ C[i].on = x
Todo(C, k, op, x) == \E i \in k..Len(C) : C[i].op = op /\ C[i].on = x

\* What a thread and a task start with; a reporting thread is given a promise.
ThreadStart(o) == \/ o.body \in Seq(FreeOps)
                  \/ \E m \in TT!Mutexes : o.body \in Before(m)
                  \/ o.body \in Reports(Own[o.on])
Reporting(o) == o.body \in Reports(Own[o.on])
TaskStart(o) == \/ o.body = <<TT!Work>> /\ o.policies \subseteq TT!Any
                \/ o.body = <<TT!ReadLocal, TT!Work>> /\ o.policies = {"async"}
\* The test functions that lock mutexes in main.
LockPrograms == {"TestRecursiveMutex", "TestTryLockAndLockFor", "TestMultiMutex"}

\* A sequence, of what it holds.
IsSeq(C) == Len(C) >= 1 /\ C \in Seq({C[i] : i \in 1..Len(C)})

\* Each operation names what it is about; the function returns at its end.
OpsOK(C) ==
  \A i \in 1..Len(C) :
    /\ C[i].op \in {"work", "start", "join", "detach", "async", "promise", "wait", "get", "poll",
                     "return", "lock", "unlock", "try"}
    /\ C[i].op = "return" <=> i = Len(C)
    /\ C[i].op \in {"start", "join", "detach"} => C[i].on \in TT!Children
    /\ C[i].op \in {"async", "promise", "wait", "get", "poll"} => C[i].on \in TT!Tasks
    /\ C[i].op \in {"lock", "unlock", "try"} => program \in LockPrograms
    /\ C[i].op = "async" => TaskStart(C[i])
    /\ C[i].op = "start" => ThreadStart(C[i])
\* No name is used for two threads, two futures or two promises.
CreatedOnce(C) ==
  \A i, j \in 1..Len(C) : /\ C[i].op \in {"start", "async", "promise"}
                          /\ C[j].op \in {"start", "async", "promise"}
                          /\ C[i].on = C[j].on
                          => i = j
\* Each thread that starts is joined or detached later; one that is given a
\* promise gets one that exists, and its future is asked for the value later.
StartsOK(C) ==
  \A i \in 1..Len(C) : C[i].op = "start" =>
    /\ Todo(C, i + 1, "join", C[i].on) \/ Todo(C, i + 1, "detach", C[i].on)
    /\ Reporting(C[i]) => /\ Done(C, i, "promise", Own[C[i].on])
                          /\ Todo(C, i + 1, "get", Own[C[i].on])
\* A future is asked after it was created and not after get has emptied it.
AsksOK(C) ==
  \A i \in 1..Len(C) : C[i].op \in {"get", "wait", "poll"} =>
    /\ Done(C, i, "async", C[i].on) \/ Done(C, i, "promise", C[i].on)
    /\ ~ Done(C, i, "get", C[i].on)
\* What is true of the text of each test function.
WellFormed(C) == IsSeq(C) /\ OpsOK(C) /\ CreatedOnce(C) /\ StartsOK(C) /\ AsksOK(C)

\* The cases of a small index.
LEMMA Three == \A i \in 1..3 : i = 1 \/ i = 2 \/ i = 3
  OBVIOUS

\* The same, further.
LEMMA Four == \A i \in 1..4 : i = 1 \/ i = 2 \/ i = 3 \/ i = 4
  OBVIOUS

\* The same, further.
LEMMA Five == \A i \in 1..5 : i = 1 \/ i = 2 \/ i = 3 \/ i = 4 \/ i = 5
  OBVIOUS

\* The same, further.
LEMMA Six == \A i \in 1..6 : i = 1 \/ i = 2 \/ i = 3 \/ i = 4 \/ i = 5 \/ i = 6
  OBVIOUS

\* The same, further.
LEMMA Seven == \A i \in 1..7 : i = 1 \/ i = 2 \/ i = 3 \/ i = 4 \/ i = 5 \/ i = 6 \/ i = 7
  OBVIOUS

\* The same, further.
LEMMA Nine == \A i \in 1..9 : i = 1 \/ i = 2 \/ i = 3 \/ i = 4 \/ i = 5 \/ i = 6 \/ i = 7 \/ i = 8 \/ i = 9
  OBVIOUS

\* The operations that are about no mutex and no promise.
LEMMA FreeOpNames ==
  \A o \in FreeOps : o.op \in {"work", "job", "forever", "ready", "while"}
  <1>1. /\ TT!Work.op = "work" /\ TT!Job.op = "job" /\ TT!Forever.op = "forever"
        /\ TT!SetReady.op = "ready" /\ TT!While(<<TT!Work>>).op = "while"
    BY DEF TT!Work, TT!Job, TT!Forever, TT!SetReady, TT!While, TT!On
  <1> QED
    BY <1>1 DEF FreeOps

\* A thread that is about no mutex and no promise starts well.
LEMMA StartFree ==
  ASSUME NEW t \in TT!Children, NEW b \in Seq(FreeOps)
  PROVE  ThreadStart(TT!Start(t, b)) /\ ~ Reporting(TT!Start(t, b))
  <1>1. TT!Start(t, b).body = b /\ TT!Start(t, b).on = t
    BY DEF TT!Start
  <1>2. ASSUME NEW f, b \in Reports(f) PROVE FALSE
    <2>1. CASE b = <<TT!Set(f)>>
      BY <2>1, b[1] \in FreeOps, FreeOpNames DEF TT!Set, TT!On
    <2>2. CASE b = <<TT!Work, TT!Set(f)>>
      BY <2>2, b[2] \in FreeOps, FreeOpNames DEF TT!Set, TT!On
    <2>3. CASE b = <<TT!ReadLocal, TT!Work, TT!Set(f)>>
      BY <2>3, b[3] \in FreeOps, FreeOpNames DEF TT!Set, TT!On
    <2> QED
      BY <1>2, <2>1, <2>2, <2>3 DEF Reports
  <1> QED
    BY <1>1, <1>2 DEF ThreadStart, Reporting

\* A thread that takes a mutex and gives it back starts well.
LEMMA StartLock ==
  ASSUME NEW t \in TT!Children, NEW m \in TT!Mutexes, NEW b \in Before(m)
  PROVE  ThreadStart(TT!Start(t, b)) /\ ~ Reporting(TT!Start(t, b))
  <1>1. TT!Start(t, b).body = b /\ TT!Start(t, b).on = t
    BY DEF TT!Start
  <1>2. ASSUME NEW f, b \in Reports(f) PROVE FALSE
    <2>1. CASE b = <<TT!Set(f)>>
      BY <2>1 DEF Before, Loop, TT!Set, TT!On, TT!Lock, TT!Work, TT!Try
    <2>2. CASE b = <<TT!Work, TT!Set(f)>>
      BY <2>2 DEF Before, Loop, TT!Set, TT!On, TT!Lock, TT!Work, TT!Try
    <2>3. CASE b = <<TT!ReadLocal, TT!Work, TT!Set(f)>>
      BY <2>3 DEF Before, Loop, TT!Set, TT!On, TT!Lock, TT!Work, TT!Try, TT!ReadLocal
    <2> QED
      BY <1>2, <2>1, <2>2, <2>3 DEF Reports
  <1> QED
    BY <1>1, <1>2 DEF ThreadStart, Reporting

\* A thread that keeps its promise starts well.
LEMMA StartReport ==
  ASSUME NEW t \in TT!Children, NEW b \in Reports(Own[t])
  PROVE  ThreadStart(TT!Start(t, b))
  <1>1. TT!Start(t, b).body = b /\ TT!Start(t, b).on = t
    BY DEF TT!Start
  <1> QED
    BY <1>1 DEF ThreadStart

\* Each function that a test function gives to a std::thread starts it well.
LEMMA Bodies ==
  ASSUME NEW t \in TT!Children
  PROVE  /\ LET o == TT!Start(t, <<TT!Work>>) IN ThreadStart(o) /\ ~ Reporting(o)
         /\ LET o == TT!Start(t, <<TT!Forever>>) IN ThreadStart(o) /\ ~ Reporting(o)
         /\ program # "TestUniqueLock" =>
              /\ LET o == TT!Start(t, <<TT!Work, TT!SetReady>>) IN ThreadStart(o) /\ ~ Reporting(o)
              /\ LET o == TT!Start(t, <<TT!While(<<TT!Work>>), TT!Job>>) IN ThreadStart(o) /\ ~ Reporting(o)
         /\ LET o == TT!Start(t, TT!runWithLock) IN ThreadStart(o) /\ ~ Reporting(o)
         /\ LET o == TT!Start(t, TT!runWithLockGuard) IN ThreadStart(o) /\ ~ Reporting(o)
         /\ LET o == TT!Start(t, TT!runWithTimedLock) IN ThreadStart(o) /\ ~ Reporting(o)
         /\ LET o == TT!Start(t, <<TT!Try({"t_mutex"}, <<TT!Work, TT!Unlock({"t_mutex"})>>)>>) IN ThreadStart(o) /\ ~ Reporting(o)
         /\ LET o == TT!Start(t, TT!prepareThread) IN ThreadStart(o) /\ ~ Reporting(o)
         /\ LET o == TT!Start(t, TT!waitForPrepareThread) IN ThreadStart(o) /\ ~ Reporting(o)
         /\ ThreadStart(TT!Start(t, <<TT!Set(Own[t])>>))
         /\ ThreadStart(TT!Start(t, <<TT!ReadLocal, TT!Work, TT!Set(Own[t])>>))
  <1>0. TT!Work \in FreeOps /\ TT!Forever \in FreeOps
    BY DEF FreeOps
  <1>1. <<TT!Work>> \in Seq(FreeOps) /\ <<TT!Forever>> \in Seq(FreeOps)
    BY <1>0
  <1>2. program # "TestUniqueLock" =>
          <<TT!Work, TT!SetReady>> \in Seq(FreeOps) /\ <<TT!While(<<TT!Work>>), TT!Job>> \in Seq(FreeOps)
    BY DEF FreeOps
  <1>3. /\ TT!runWithLock \in Before("mutex") /\ TT!runWithLockGuard \in Before("mutex")
        /\ TT!runWithTimedLock \in Before("t_mutex")
        /\ <<TT!Try({"t_mutex"}, <<TT!Work, TT!Unlock({"t_mutex"})>>)>> \in Before("t_mutex")
    BY DEF Before, TT!runWithLock, TT!runWithTimedLock, TT!runWithLockGuard
  <1>4. TT!prepareThread \in Before("readyFlagMutex") /\ TT!waitForPrepareThread \in Before("readyFlagMutex")
    BY DEF Before, Loop, TT!prepareThread, TT!waitForPrepareThread
  <1>5. /\ <<TT!Set(Own[t])>> \in Reports(Own[t])
        /\ <<TT!ReadLocal, TT!Work, TT!Set(Own[t])>> \in Reports(Own[t])
    BY DEF Reports
  <1>6. "mutex" \in TT!Mutexes /\ "t_mutex" \in TT!Mutexes /\ "readyFlagMutex" \in TT!Mutexes
    BY DEF TT!Mutexes
  <1> QED
    BY <1>1, <1>2, <1>3, <1>4, <1>5, <1>6, StartFree, StartLock, StartReport

\* What TestRecursiveMutex and the function it calls do.
LEMMA RecursiveCode ==
  TT!TestRecursiveMutex =
    <<TT!Lock({"r_mutex"}), TT!Lock({"r_mutex"}), TT!Unlock({"r_mutex"}), TT!Unlock({"r_mutex"}), TT!Return>>
  <1> DEFINE a == <<TT!Lock({"r_mutex"})>>
             b == <<TT!Lock({"r_mutex"}), TT!Unlock({"r_mutex"})>>
             c == <<TT!Unlock({"r_mutex"}), TT!Return>>
             S == {TT!Lock({"r_mutex"}), TT!Unlock({"r_mutex"}), TT!Return}
             e == <<TT!Lock({"r_mutex"}), TT!Lock({"r_mutex"}), TT!Unlock({"r_mutex"}), TT!Unlock({"r_mutex"}), TT!Return>>
  <1>1. /\ a \in Seq(S) /\ b \in Seq(S) /\ c \in Seq(S) /\ e \in Seq(S)
        /\ Len(a) = 1 /\ Len(b) = 2 /\ Len(c) = 2 /\ Len(e) = 5
        /\ e[1] = a[1] /\ e[2] = b[1] /\ e[3] = b[2] /\ e[4] = c[1] /\ e[5] = c[2]
    OBVIOUS
  <1>2. TT!TestRecursiveMutex = a \o b \o c
    BY DEF TT!TestRecursiveMutex, TT!runWithRecursiveMutex
  <1> HIDE DEF a, b, c, S, e
  <1>3. /\ a \o b \in Seq(S) /\ Len(a \o b) = 3
        /\ \A i \in 1..3 : (a \o b)[i] = e[i]
    <2>1. \A i \in 1..(Len(a) + Len(b)) : (a \o b)[i] = IF i <= Len(a) THEN a[i] ELSE b[i - Len(a)]
      BY <1>1, ConcatProperties
    <2>3. a \o b \in Seq(S) /\ Len(a \o b) = 3
      BY <1>1, ConcatProperties, SMTT(30)
    <2>4. /\ 1 \in 1..(Len(a) + Len(b)) /\ 2 \in 1..(Len(a) + Len(b)) /\ 3 \in 1..(Len(a) + Len(b))
          /\ 1 <= Len(a) /\ ~ 2 <= Len(a) /\ ~ 3 <= Len(a) /\ 2 - Len(a) = 1 /\ 3 - Len(a) = 2
      BY <1>1
    <2>2. (a \o b)[1] = a[1] /\ (a \o b)[2] = b[1] /\ (a \o b)[3] = b[2]
      BY <2>1, <2>4
    <2> QED
      BY <1>1, <2>2, <2>3, Three
  <1>4. /\ (a \o b) \o c \in Seq(S) /\ Len((a \o b) \o c) = 5
        /\ \A i \in 1..5 : ((a \o b) \o c)[i] = e[i]
    BY <1>1, <1>3, ConcatProperties, Five
  <1>5. (a \o b) \o c = e
    BY <1>1, <1>4, SeqEqual
  <1> QED
    BY <1>2, <1>5 DEF e

\* It is a sequence.
LEMMA RecursiveSeq == IsSeq(TT!TestRecursiveMutex)
  <1>1. IsSeq(<<TT!Lock({"r_mutex"}), TT!Lock({"r_mutex"}), TT!Unlock({"r_mutex"}), TT!Unlock({"r_mutex"}), TT!Return>>)
    BY DEF IsSeq
  <1> QED
    BY <1>1, RecursiveCode

\* The text of TestAsync creates, joins and asks in order.
LEMMA Well_TestAsync == program = "TestAsync" => WellFormed(TT!TestAsync)
  <1> SUFFICES ASSUME program = "TestAsync" PROVE WellFormed(TT!TestAsync)
    OBVIOUS
  <1> DEFINE C == TT!TestAsync
  <1>1. /\ Len(C) = 4
        /\ C[1].op = "async" /\ C[1].on = "f1" /\ TaskStart(C[1])
        /\ C[2].op = "work" /\ C[3].op = "get" /\ C[3].on = "f1"
        /\ C[4].op = "return"
    BY DEF TaskStart, TT!Any, TT!TestAsync, TT!Async, TT!Get, TT!On, TT!Return, TT!Work
  <1>3. IsSeq(C)
    BY DEF IsSeq, TT!TestAsync
  <1> QED
    BY <1>1, <1>3, Four
       DEF WellFormed, OpsOK, CreatedOnce, StartsOK, AsksOK, Done, Todo, Own, TT!Children, TT!Tasks, LockPrograms

\* The text of TestSharedAsync creates, joins and asks in order.
LEMMA Well_TestSharedAsync == program = "TestSharedAsync" => WellFormed(TT!TestSharedAsync)
  <1> SUFFICES ASSUME program = "TestSharedAsync" PROVE WellFormed(TT!TestSharedAsync)
    OBVIOUS
  <1> DEFINE C == TT!TestSharedAsync
  <1>1. /\ Len(C) = 5
        /\ C[1].op = "async" /\ C[1].on = "f1" /\ TaskStart(C[1])
        /\ C[2].op = "work" /\ C[3].op = "wait" /\ C[3].on = "f1"
        /\ C[4].op = "wait" /\ C[4].on = "f1" /\ C[5].op = "return"
    BY DEF TaskStart, TT!Any, TT!TestSharedAsync, TT!Async, TT!On, TT!Return, TT!Wait, TT!Work
  <1>3. IsSeq(C)
    BY DEF IsSeq, TT!TestSharedAsync
  <1> QED
    BY <1>1, <1>3, Five
       DEF WellFormed, OpsOK, CreatedOnce, StartsOK, AsksOK, Done, Todo, Own, TT!Children, TT!Tasks, LockPrograms

\* The text of TestTwoAsync creates, joins and asks in order.
LEMMA Well_TestTwoAsync == program = "TestTwoAsync" => WellFormed(TT!TestTwoAsync)
  <1> SUFFICES ASSUME program = "TestTwoAsync" PROVE WellFormed(TT!TestTwoAsync)
    OBVIOUS
  <1> DEFINE C == TT!TestTwoAsync
  <1>1. /\ Len(C) = 5
        /\ C[1].op = "async" /\ C[1].on = "f1" /\ TaskStart(C[1])
        /\ C[2].op = "async" /\ C[2].on = "f2" /\ TaskStart(C[2])
        /\ C[3].op = "get" /\ C[3].on = "f1"
        /\ C[4].op = "get" /\ C[4].on = "f2" /\ C[5].op = "return"
    BY DEF TaskStart, TT!Any, TT!TestTwoAsync, TT!Async, TT!Get, TT!On, TT!Return
  <1>3. IsSeq(C)
    BY DEF IsSeq, TT!TestTwoAsync
  <1> QED
    BY <1>1, <1>3, Five
       DEF WellFormed, OpsOK, CreatedOnce, StartsOK, AsksOK, Done, Todo, Own, TT!Children, TT!Tasks, LockPrograms

\* The text of TestLaunchAsync creates, joins and asks in order.
LEMMA Well_TestLaunchAsync == program = "TestLaunchAsync" => WellFormed(TT!TestLaunchAsync)
  <1> SUFFICES ASSUME program = "TestLaunchAsync" PROVE WellFormed(TT!TestLaunchAsync)
    OBVIOUS
  <1> DEFINE C == TT!TestLaunchAsync
  <1>1. /\ Len(C) = 6
        /\ C[1].op = "async" /\ C[1].on = "f1" /\ TaskStart(C[1])
        /\ C[2].op = "async" /\ C[2].on = "f2" /\ TaskStart(C[2])
        /\ C[3].op = "work" /\ C[4].op = "get" /\ C[4].on = "f1"
        /\ C[5].op = "get" /\ C[5].on = "f2" /\ C[6].op = "return"
    BY DEF TaskStart, TT!Any, TT!TestLaunchAsync, TT!Async, TT!Get, TT!On, TT!Return, TT!Work
  <1>3. IsSeq(C)
    BY DEF IsSeq, TT!TestLaunchAsync
  <1> QED
    BY <1>1, <1>3, Six
       DEF WellFormed, OpsOK, CreatedOnce, StartsOK, AsksOK, Done, Todo, Own, TT!Children, TT!Tasks, LockPrograms

\* The text of TestLaunchDeferred creates, joins and asks in order.
LEMMA Well_TestLaunchDeferred == program = "TestLaunchDeferred" => WellFormed(TT!TestLaunchDeferred)
  <1> SUFFICES ASSUME program = "TestLaunchDeferred" PROVE WellFormed(TT!TestLaunchDeferred)
    OBVIOUS
  <1> DEFINE C == TT!TestLaunchDeferred
  <1>1. /\ Len(C) = 6
        /\ C[1].op = "async" /\ C[1].on = "f1" /\ TaskStart(C[1])
        /\ C[2].op = "async" /\ C[2].on = "f2" /\ TaskStart(C[2])
        /\ C[3].op = "work" /\ C[4].op = "get" /\ C[4].on = "f1"
        /\ C[5].op = "get" /\ C[5].on = "f2" /\ C[6].op = "return"
    BY DEF TaskStart, TT!Any, TT!TestLaunchDeferred, TT!Async, TT!Get, TT!On, TT!Return, TT!Work
  <1>3. IsSeq(C)
    BY DEF IsSeq, TT!TestLaunchDeferred
  <1> QED
    BY <1>1, <1>3, Six
       DEF WellFormed, OpsOK, CreatedOnce, StartsOK, AsksOK, Done, Todo, Own, TT!Children, TT!Tasks, LockPrograms

\* The text of TestHandleException creates, joins and asks in order.
LEMMA Well_TestHandleException == program = "TestHandleException" => WellFormed(TT!TestHandleException)
  <1> SUFFICES ASSUME program = "TestHandleException" PROVE WellFormed(TT!TestHandleException)
    OBVIOUS
  <1> DEFINE C == TT!TestHandleException
  <1>1. /\ Len(C) = 3
        /\ C[1].op = "async" /\ C[1].on = "f1" /\ TaskStart(C[1])
        /\ C[2].op = "get" /\ C[2].on = "f1" /\ C[3].op = "return"
    BY DEF TaskStart, TT!Any, TT!TestHandleException, TT!Async, TT!Get, TT!On, TT!Return
  <1>3. IsSeq(C)
    BY DEF IsSeq, TT!TestHandleException
  <1> QED
    BY <1>1, <1>3, Three
       DEF WellFormed, OpsOK, CreatedOnce, StartsOK, AsksOK, Done, Todo, Own, TT!Children, TT!Tasks, LockPrograms

\* The text of TestWait creates, joins and asks in order.
LEMMA Well_TestWait == program = "TestWait" => WellFormed(TT!TestWait)
  <1> SUFFICES ASSUME program = "TestWait" PROVE WellFormed(TT!TestWait)
    OBVIOUS
  <1> DEFINE C == TT!TestWait
  <1>1. /\ Len(C) = 7
        /\ C[1].op = "async" /\ C[1].on = "f1" /\ TaskStart(C[1])
        /\ C[2].op = "async" /\ C[2].on = "f2" /\ TaskStart(C[2])
        /\ C[3].op = "wait" /\ C[3].on = "f1"
        /\ C[4].op = "wait" /\ C[4].on = "f2"
        /\ C[5].op = "get" /\ C[5].on = "f1"
        /\ C[6].op = "get" /\ C[6].on = "f2" /\ C[7].op = "return"
    BY DEF TaskStart, TT!Any, TT!TestWait, TT!Async, TT!Get, TT!On, TT!Return, TT!Wait
  <1>3. IsSeq(C)
    BY DEF IsSeq, TT!TestWait
  <1> QED
    BY <1>1, <1>3, Seven
       DEF WellFormed, OpsOK, CreatedOnce, StartsOK, AsksOK, Done, Todo, Own, TT!Children, TT!Tasks, LockPrograms

\* The text of TestWaitFor creates, joins and asks in order.
LEMMA Well_TestWaitFor == program = "TestWaitFor" => WellFormed(TT!TestWaitFor)
  <1> SUFFICES ASSUME program = "TestWaitFor" PROVE WellFormed(TT!TestWaitFor)
    OBVIOUS
  <1> DEFINE C == TT!TestWaitFor
  <1>1. /\ Len(C) = 3
        /\ C[1].op = "async" /\ C[1].on = "f1" /\ TaskStart(C[1])
        /\ C[2].op = "work" /\ C[3].op = "return"
    BY DEF TaskStart, TT!Any, TT!TestWaitFor, TT!Async, TT!On, TT!Return, TT!Work
  <1>3. IsSeq(C)
    BY DEF IsSeq, TT!TestWaitFor
  <1> QED
    BY <1>1, <1>3, Three
       DEF WellFormed, OpsOK, CreatedOnce, StartsOK, AsksOK, Done, Todo, Own, TT!Children, TT!Tasks, LockPrograms

\* The text of TestPolling creates, joins and asks in order.
LEMMA Well_TestPolling == program = "TestPolling" => WellFormed(TT!TestPolling)
  <1> SUFFICES ASSUME program = "TestPolling" PROVE WellFormed(TT!TestPolling)
    OBVIOUS
  <1> DEFINE C == TT!TestPolling
  <1>1. /\ Len(C) = 4
        /\ C[1].op = "async" /\ C[1].on = "f1" /\ TaskStart(C[1])
        /\ C[2].op = "poll" /\ C[2].on = "f1"
        /\ C[3].op = "get" /\ C[3].on = "f1" /\ C[4].op = "return"
    BY DEF TaskStart, TT!Any, TT!TestPolling, TT!Async, TT!Get, TT!On, TT!Poll, TT!Return
  <1>3. IsSeq(C)
    BY DEF IsSeq, TT!TestPolling
  <1> QED
    BY <1>1, <1>3, Four
       DEF WellFormed, OpsOK, CreatedOnce, StartsOK, AsksOK, Done, Todo, Own, TT!Children, TT!Tasks, LockPrograms

\* The text of TestPassingArguments creates, joins and asks in order.
LEMMA Well_TestPassingArguments == program = "TestPassingArguments" => WellFormed(TT!TestPassingArguments)
  <1> SUFFICES ASSUME program = "TestPassingArguments" PROVE WellFormed(TT!TestPassingArguments)
    OBVIOUS
  <1> DEFINE C == TT!TestPassingArguments
  <1>1. /\ Len(C) = 9
        /\ C[1].op = "async" /\ C[1].on = "f1" /\ TaskStart(C[1])
        /\ C[2].op = "async" /\ C[2].on = "f2" /\ TaskStart(C[2])
        /\ C[3].op = "async" /\ C[3].on = "f3" /\ TaskStart(C[3])
        /\ C[4].op = "async" /\ C[4].on = "f4" /\ TaskStart(C[4])
        /\ C[5].op = "get" /\ C[5].on = "f1"
        /\ C[6].op = "get" /\ C[6].on = "f2"
        /\ C[7].op = "get" /\ C[7].on = "f3"
        /\ C[8].op = "get" /\ C[8].on = "f4" /\ C[9].op = "return"
    BY DEF TaskStart, TT!Any, TT!TestPassingArguments, TT!Async, TT!Get, TT!On, TT!Return
  <1>3. IsSeq(C)
    BY DEF IsSeq, TT!TestPassingArguments
  <1> QED
    BY <1>1, <1>3, Nine, SMTT(30)
       DEF WellFormed, OpsOK, CreatedOnce, StartsOK, AsksOK, Done, Todo, Own, TT!Children, TT!Tasks, LockPrograms

\* The text of TestJoin creates, joins and asks in order.
LEMMA Well_TestJoin == program = "TestJoin" => WellFormed(TT!TestJoin)
  <1> SUFFICES ASSUME program = "TestJoin" PROVE WellFormed(TT!TestJoin)
    OBVIOUS
  <1> DEFINE C == TT!TestJoin
  <1>1. /\ Len(C) = 5
        /\ C[1].op = "start" /\ C[1].on = "t1"
        /\ C[2].op = "start" /\ C[2].on = "t2"
        /\ C[3].op = "join" /\ C[3].on = "t1"
        /\ C[4].op = "join" /\ C[4].on = "t2" /\ C[5].op = "return"
    BY DEF TT!TestJoin, TT!Join, TT!On, TT!Return, TT!Start
  <1>2. /\ ThreadStart(C[1]) /\ ~ Reporting(C[1])
        /\ ThreadStart(C[2]) /\ ~ Reporting(C[2])
    BY Bodies DEF TT!TestJoin, TT!Children
  <1>3. IsSeq(C)
    BY DEF IsSeq, TT!TestJoin
  <1> QED
    BY <1>1, <1>2, <1>3, Five
       DEF WellFormed, OpsOK, CreatedOnce, StartsOK, AsksOK, Done, Todo, Own, TT!Children, TT!Tasks, LockPrograms

\* The text of TestDetach creates, joins and asks in order.
LEMMA Well_TestDetach == program = "TestDetach" => WellFormed(TT!TestDetach)
  <1> SUFFICES ASSUME program = "TestDetach" PROVE WellFormed(TT!TestDetach)
    OBVIOUS
  <1> DEFINE C == TT!TestDetach
  <1>1. /\ Len(C) = 6
        /\ C[1].op = "start" /\ C[1].on = "t1"
        /\ C[2].op = "start" /\ C[2].on = "t2"
        /\ C[3].op = "detach" /\ C[3].on = "t1"
        /\ C[4].op = "detach" /\ C[4].on = "t2" /\ C[5].op = "work"
        /\ C[6].op = "return"
    BY DEF TT!TestDetach, TT!Detach, TT!On, TT!Return, TT!Start, TT!Work
  <1>2. /\ ThreadStart(C[1]) /\ ~ Reporting(C[1])
        /\ ThreadStart(C[2]) /\ ~ Reporting(C[2])
    BY Bodies DEF TT!TestDetach, TT!Children
  <1>3. IsSeq(C)
    BY DEF IsSeq, TT!TestDetach
  <1> QED
    BY <1>1, <1>2, <1>3, Six
       DEF WellFormed, OpsOK, CreatedOnce, StartsOK, AsksOK, Done, Todo, Own, TT!Children, TT!Tasks, LockPrograms

\* The text of TestPromise creates, joins and asks in order.
LEMMA Well_TestPromise == program = "TestPromise" => WellFormed(TT!TestPromise)
  <1> SUFFICES ASSUME program = "TestPromise" PROVE WellFormed(TT!TestPromise)
    OBVIOUS
  <1> DEFINE C == TT!TestPromise
  <1>1. /\ Len(C) = 5
        /\ C[1].op = "promise" /\ C[1].on = "f1"
        /\ C[2].op = "start" /\ C[2].on = "t1"
        /\ C[3].op = "detach" /\ C[3].on = "t1"
        /\ C[4].op = "get" /\ C[4].on = "f1" /\ C[5].op = "return"
    BY DEF TT!TestPromise, TT!Detach, TT!Get, TT!On, TT!Promise, TT!Return, TT!Start
  <1>2. ThreadStart(C[2])
    BY Bodies DEF TT!TestPromise, TT!Children, Own
  <1>3. IsSeq(C)
    BY DEF IsSeq, TT!TestPromise
  <1> QED
    BY <1>1, <1>2, <1>3, Five
       DEF WellFormed, OpsOK, CreatedOnce, StartsOK, AsksOK, Done, Todo, Own, TT!Children, TT!Tasks, LockPrograms

\* The text of TestPackagedTask creates, joins and asks in order.
LEMMA Well_TestPackagedTask == program = "TestPackagedTask" => WellFormed(TT!TestPackagedTask)
  <1> SUFFICES ASSUME program = "TestPackagedTask" PROVE WellFormed(TT!TestPackagedTask)
    OBVIOUS
  <1> DEFINE C == TT!TestPackagedTask
  <1>1. /\ Len(C) = 9
        /\ C[1].op = "promise" /\ C[1].on = "f1"
        /\ C[2].op = "promise" /\ C[2].on = "f2"
        /\ C[3].op = "start" /\ C[3].on = "t1"
        /\ C[4].op = "start" /\ C[4].on = "t2"
        /\ C[5].op = "detach" /\ C[5].on = "t1"
        /\ C[6].op = "detach" /\ C[6].on = "t2"
        /\ C[7].op = "get" /\ C[7].on = "f1"
        /\ C[8].op = "get" /\ C[8].on = "f2" /\ C[9].op = "return"
    BY DEF TT!TestPackagedTask, TT!Detach, TT!Get, TT!On, TT!Promise, TT!Return, TT!Start
  <1>2. /\ ThreadStart(C[3])
        /\ ThreadStart(C[4])
    BY Bodies DEF TT!TestPackagedTask, TT!Children, Own
  <1>3. IsSeq(C)
    BY DEF IsSeq, TT!TestPackagedTask
  <1> QED
    BY <1>1, <1>2, <1>3, Nine, SMTT(30)
       DEF WellFormed, OpsOK, CreatedOnce, StartsOK, AsksOK, Done, Todo, Own, TT!Children, TT!Tasks, LockPrograms

\* The text of TestMutex creates, joins and asks in order.
LEMMA Well_TestMutex == program = "TestMutex" => WellFormed(TT!TestMutex)
  <1> SUFFICES ASSUME program = "TestMutex" PROVE WellFormed(TT!TestMutex)
    OBVIOUS
  <1> DEFINE C == TT!TestMutex
  <1>1. /\ Len(C) = 9
        /\ C[1].op = "start" /\ C[1].on = "t1"
        /\ C[2].op = "start" /\ C[2].on = "t2"
        /\ C[3].op = "join" /\ C[3].on = "t1"
        /\ C[4].op = "join" /\ C[4].on = "t2"
        /\ C[5].op = "start" /\ C[5].on = "t3"
        /\ C[6].op = "start" /\ C[6].on = "t4"
        /\ C[7].op = "join" /\ C[7].on = "t3"
        /\ C[8].op = "join" /\ C[8].on = "t4" /\ C[9].op = "return"
    BY DEF TT!TestMutex, TT!Join, TT!On, TT!Return, TT!Start
  <1>2. /\ ThreadStart(C[1]) /\ ~ Reporting(C[1])
        /\ ThreadStart(C[2]) /\ ~ Reporting(C[2])
        /\ ThreadStart(C[5]) /\ ~ Reporting(C[5])
        /\ ThreadStart(C[6]) /\ ~ Reporting(C[6])
    BY Bodies DEF TT!TestMutex, TT!Children
  <1>3. IsSeq(C)
    BY DEF IsSeq, TT!TestMutex
  <1> QED
    BY <1>1, <1>2, <1>3, Nine, SMTT(30)
       DEF WellFormed, OpsOK, CreatedOnce, StartsOK, AsksOK, Done, Todo, Own, TT!Children, TT!Tasks, LockPrograms

\* The text of TestLockGuard creates, joins and asks in order.
LEMMA Well_TestLockGuard == program = "TestLockGuard" => WellFormed(TT!TestLockGuard)
  <1> SUFFICES ASSUME program = "TestLockGuard" PROVE WellFormed(TT!TestLockGuard)
    OBVIOUS
  <1> DEFINE C == TT!TestLockGuard
  <1>1. /\ Len(C) = 5
        /\ C[1].op = "start" /\ C[1].on = "t1"
        /\ C[2].op = "start" /\ C[2].on = "t2"
        /\ C[3].op = "join" /\ C[3].on = "t1"
        /\ C[4].op = "join" /\ C[4].on = "t2" /\ C[5].op = "return"
    BY DEF TT!TestLockGuard, TT!Join, TT!On, TT!Return, TT!Start
  <1>2. /\ ThreadStart(C[1]) /\ ~ Reporting(C[1])
        /\ ThreadStart(C[2]) /\ ~ Reporting(C[2])
    BY Bodies DEF TT!TestLockGuard, TT!Children
  <1>3. IsSeq(C)
    BY DEF IsSeq, TT!TestLockGuard
  <1> QED
    BY <1>1, <1>2, <1>3, Five
       DEF WellFormed, OpsOK, CreatedOnce, StartsOK, AsksOK, Done, Todo, Own, TT!Children, TT!Tasks, LockPrograms

\* The text of TestRecursiveMutex creates, joins and asks in order.
LEMMA Well_TestRecursiveMutex == program = "TestRecursiveMutex" => WellFormed(TT!TestRecursiveMutex)
  <1> SUFFICES ASSUME program = "TestRecursiveMutex" PROVE WellFormed(TT!TestRecursiveMutex)
    OBVIOUS
  <1> DEFINE C == TT!TestRecursiveMutex
  <1>1. /\ Len(C) = 5
        /\ C[1].op = "lock" /\ C[2].op = "lock" /\ C[3].op = "unlock"
        /\ C[4].op = "unlock" /\ C[5].op = "return"
    BY RecursiveCode DEF TT!Lock, TT!On, TT!Return, TT!Unlock
  <1>3. IsSeq(C)
    BY RecursiveSeq
  <1> QED
    BY <1>1, <1>3, Five
       DEF WellFormed, OpsOK, CreatedOnce, StartsOK, AsksOK, Done, Todo, Own, TT!Children, TT!Tasks, LockPrograms

\* The text of TestTryLockAndLockFor creates, joins and asks in order.
LEMMA Well_TestTryLockAndLockFor == program = "TestTryLockAndLockFor" => WellFormed(TT!TestTryLockAndLockFor)
  <1> SUFFICES ASSUME program = "TestTryLockAndLockFor" PROVE WellFormed(TT!TestTryLockAndLockFor)
    OBVIOUS
  <1> DEFINE C == TT!TestTryLockAndLockFor
  <1>1. /\ Len(C) = 9
        /\ C[1].op = "lock" /\ C[2].op = "try" /\ C[3].op = "unlock"
        /\ C[4].op = "try" /\ C[5].op = "start" /\ C[5].on = "t1"
        /\ C[6].op = "start" /\ C[6].on = "t2"
        /\ C[7].op = "join" /\ C[7].on = "t1"
        /\ C[8].op = "join" /\ C[8].on = "t2" /\ C[9].op = "return"
    BY DEF TT!TestTryLockAndLockFor, TT!Join, TT!Lock, TT!On, TT!Return, TT!Start, TT!Try, TT!Unlock
  <1>2. /\ ThreadStart(C[5]) /\ ~ Reporting(C[5])
        /\ ThreadStart(C[6]) /\ ~ Reporting(C[6])
    BY Bodies DEF TT!TestTryLockAndLockFor, TT!Children
  <1>3. IsSeq(C)
    BY DEF IsSeq, TT!TestTryLockAndLockFor
  <1> QED
    BY <1>1, <1>2, <1>3, Nine, SMTT(30)
       DEF WellFormed, OpsOK, CreatedOnce, StartsOK, AsksOK, Done, Todo, Own, TT!Children, TT!Tasks, LockPrograms

\* The text of TestMultiMutex creates, joins and asks in order.
LEMMA Well_TestMultiMutex == program = "TestMultiMutex" => WellFormed(TT!TestMultiMutex)
  <1> SUFFICES ASSUME program = "TestMultiMutex" PROVE WellFormed(TT!TestMultiMutex)
    OBVIOUS
  <1> DEFINE C == TT!TestMultiMutex
  <1>1. /\ Len(C) = 5
        /\ C[1].op = "lock" /\ C[2].op = "unlock" /\ C[3].op = "unlock"
        /\ C[4].op = "try" /\ C[5].op = "return"
    BY DEF TT!TestMultiMutex, TT!Lock, TT!On, TT!Return, TT!Try, TT!Unlock
  <1>3. IsSeq(C)
    BY DEF IsSeq, TT!TestMultiMutex
  <1> QED
    BY <1>1, <1>3, Five
       DEF WellFormed, OpsOK, CreatedOnce, StartsOK, AsksOK, Done, Todo, Own, TT!Children, TT!Tasks, LockPrograms

\* The text of TestUniqueLock creates, joins and asks in order.
LEMMA Well_TestUniqueLock == program = "TestUniqueLock" => WellFormed(TT!TestUniqueLock)
  <1> SUFFICES ASSUME program = "TestUniqueLock" PROVE WellFormed(TT!TestUniqueLock)
    OBVIOUS
  <1> DEFINE C == TT!TestUniqueLock
  <1>1. /\ Len(C) = 5
        /\ C[1].op = "start" /\ C[1].on = "t1"
        /\ C[2].op = "start" /\ C[2].on = "t2"
        /\ C[3].op = "join" /\ C[3].on = "t1"
        /\ C[4].op = "join" /\ C[4].on = "t2" /\ C[5].op = "return"
    BY DEF TT!TestUniqueLock, TT!Join, TT!On, TT!Return, TT!Start
  <1>2. /\ ThreadStart(C[1]) /\ ~ Reporting(C[1])
        /\ ThreadStart(C[2]) /\ ~ Reporting(C[2])
    BY Bodies DEF TT!TestUniqueLock, TT!Children
  <1>3. IsSeq(C)
    BY DEF IsSeq, TT!TestUniqueLock
  <1> QED
    BY <1>1, <1>2, <1>3, Five
       DEF WellFormed, OpsOK, CreatedOnce, StartsOK, AsksOK, Done, Todo, Own, TT!Children, TT!Tasks, LockPrograms

\* The text of TestAtomic creates, joins and asks in order.
LEMMA Well_TestAtomic == program = "TestAtomic" => WellFormed(TT!TestAtomic)
  <1> SUFFICES ASSUME program = "TestAtomic" PROVE WellFormed(TT!TestAtomic)
    OBVIOUS
  <1> DEFINE C == TT!TestAtomic
  <1>1. /\ Len(C) = 5
        /\ C[1].op = "start" /\ C[1].on = "t1"
        /\ C[2].op = "start" /\ C[2].on = "t2"
        /\ C[3].op = "join" /\ C[3].on = "t1"
        /\ C[4].op = "join" /\ C[4].on = "t2" /\ C[5].op = "return"
    BY DEF TT!TestAtomic, TT!Join, TT!On, TT!Return, TT!Start
  <1>2. /\ ThreadStart(C[1]) /\ ~ Reporting(C[1])
        /\ ThreadStart(C[2]) /\ ~ Reporting(C[2])
    BY Bodies DEF TT!TestAtomic, TT!Children
  <1>3. IsSeq(C)
    BY DEF IsSeq, TT!TestAtomic
  <1> QED
    BY <1>1, <1>2, <1>3, Five
       DEF WellFormed, OpsOK, CreatedOnce, StartsOK, AsksOK, Done, Todo, Own, TT!Children, TT!Tasks, LockPrograms

\* The text of testJoin creates, joins and asks in order.
LEMMA Well_testJoin == program = "testJoin" => WellFormed(TT!testJoin)
  <1> SUFFICES ASSUME program = "testJoin" PROVE WellFormed(TT!testJoin)
    OBVIOUS
  <1> DEFINE C == TT!testJoin
  <1>1. /\ Len(C) = 6
        /\ C[1].op = "start" /\ C[1].on = "t1"
        /\ C[2].op = "start" /\ C[2].on = "t2"
        /\ C[3].op = "join" /\ C[3].on = "t1"
        /\ C[4].op = "join" /\ C[4].on = "t2" /\ C[5].op = "work"
        /\ C[6].op = "return"
    BY DEF TT!testJoin, TT!Join, TT!On, TT!Return, TT!Start, TT!Work
  <1>2. /\ ThreadStart(C[1]) /\ ~ Reporting(C[1])
        /\ ThreadStart(C[2]) /\ ~ Reporting(C[2])
    BY Bodies DEF TT!testJoin, TT!Children
  <1>3. IsSeq(C)
    BY DEF IsSeq, TT!testJoin
  <1> QED
    BY <1>1, <1>2, <1>3, Six
       DEF WellFormed, OpsOK, CreatedOnce, StartsOK, AsksOK, Done, Todo, Own, TT!Children, TT!Tasks, LockPrograms

\* The text of testDetach creates, joins and asks in order.
LEMMA Well_testDetach == program = "testDetach" => WellFormed(TT!testDetach)
  <1> SUFFICES ASSUME program = "testDetach" PROVE WellFormed(TT!testDetach)
    OBVIOUS
  <1> DEFINE C == TT!testDetach
  <1>1. /\ Len(C) = 6
        /\ C[1].op = "start" /\ C[1].on = "t1"
        /\ C[2].op = "start" /\ C[2].on = "t2"
        /\ C[3].op = "detach" /\ C[3].on = "t1" /\ C[4].op = "work"
        /\ C[5].op = "join" /\ C[5].on = "t2" /\ C[6].op = "return"
    BY DEF TT!testDetach, TT!Detach, TT!Join, TT!On, TT!Return, TT!Start, TT!Work
  <1>2. /\ ThreadStart(C[1]) /\ ~ Reporting(C[1])
        /\ ThreadStart(C[2]) /\ ~ Reporting(C[2])
    BY Bodies DEF TT!testDetach, TT!Children
  <1>3. IsSeq(C)
    BY DEF IsSeq, TT!testDetach
  <1> QED
    BY <1>1, <1>2, <1>3, Six
       DEF WellFormed, OpsOK, CreatedOnce, StartsOK, AsksOK, Done, Todo, Own, TT!Children, TT!Tasks, LockPrograms

-----------------------------------------------------------------------------
(* The inductive invariant: where main is in its test function, and what     *)
(* follows from it for the mutexes, the threads and the tasks.              *)

\* What main does aside from the sequence of the test function.
DetourOps == {TT!Work} \cup {TT!Finish(f) : f \in TT!Tasks} \cup {TT!Unlock({m}) : m \in TT!Mutexes}

\* What the test function does before it goes on at k: a deferred task that it
\* waits for, or what it does with a lock that it got by try.
Detours(k) ==
  {<<>>}
    \cup {<<TT!Finish(f)>> : f \in {g \in TT!Tasks : Done(Whole, k, "async", g)}}
    \cup {<<TT!Work, TT!Finish(f)>> : f \in {g \in TT!Tasks : Done(Whole, k, "async", g)}}
    \cup (IF program = "TestTryLockAndLockFor" /\ k = 5
          THEN {<<TT!Unlock({"mutex"}), TT!Work>>, <<TT!Work>>} ELSE {})
    \cup (IF program = "TestMultiMutex" /\ k = 5
          THEN {<<TT!Unlock({"m1"}), TT!Unlock({"m2"})>>, <<TT!Unlock({"m2"})>>} ELSE {})

\* The locks on m that the test function has at k, with d to do before.
MainHas(m, k, d) ==
  IF program = "TestRecursiveMutex" /\ m = "r_mutex"
  THEN IF k = 3 THEN <<"main", "main">> ELSE IF k \in {2, 4} THEN <<"main">> ELSE <<>>
  ELSE IF \/ program = "TestTryLockAndLockFor" /\ m = "mutex"
             /\ (k \in {2, 3} \/ d = <<TT!Unlock({"mutex"}), TT!Work>>)
          \/ program = "TestMultiMutex" /\ m = "m1"
             /\ (k = 2 \/ d = <<TT!Unlock({"m1"}), TT!Unlock({"m2"})>>)
          \/ program = "TestMultiMutex" /\ m = "m2"
             /\ (k \in {2, 3} \/ d \in {<<TT!Unlock({"m1"}), TT!Unlock({"m2"})>>, <<TT!Unlock({"m2"})>>})
       THEN <<"main">> ELSE <<>>

\* Main goes on with d and then at k; the test function exists until its end.
PositionOK(k, d) ==
  /\ code["main"] = d \o SubSeq(Whole, k, Len(Whole))
  /\ d # <<>> => k <= Len(Whole)
  /\ inScope = (k <= Len(Whole))

\* Each mutex is with main, as its position tells, or else with the one thread
\* that is between its lock and its unlock, or with none.
LocksOK(k, d) ==
  \A m \in TT!Mutexes :
    /\ \/ held[m] = MainHas(m, k, d)
       \/ MainHas(m, k, d) = <<>> /\ \E t \in TT!Children : held[m] = <<t>>
    /\ \A t \in TT!Children : code[t] \in Critical(m) <=> held[m] = <<t>>

\* What a thread has left to do.
CodeOK(t) == \/ code[t] \in Seq(FreeOps)
             \/ \E m \in TT!Mutexes : code[t] \in Before(m) \/ code[t] \in Critical(m)
             \/ code[t] \in Reports(Own[t])

\* What is true of a thread while main is at k: it is joined or detached later; a
\* promise that it uses is asked for later; the promise is pending until it is set.
ThreadOK(k, t) ==
  /\ CodeOK(t)
  /\ handle[t] = "joinable" => Todo(Whole, k, "join", t) \/ Todo(Whole, k, "detach", t)
  /\ code[t] # <<>> => Done(Whole, k, "start", t)
  /\ code[t] \in Reports(Own[t]) => Todo(Whole, k, "get", Own[t])
  /\ \A j \in 1..Len(Whole) :
       Whole[j].op = "start" /\ Whole[j].on = t =>
         /\ code[t] \in Reports(Own[t]) => Reporting(Whole[j])
         /\ /\ Reporting(Whole[j])
            /\ Done(Whole, k, "promise", Own[t])
            /\ k <= j \/ code[t] \in Reports(Own[t])
            => result[Own[t]] = "pending"

\* What is true of a task while main is at k: an argument that it still reads
\* exists; its result is none only before it was created, taken only after get.
TaskOK(k, f) ==
  /\ code[f] \in TaskCodes(f)
  /\ code[f] # <<>> => Done(Whole, k, "async", f)
  /\ code[f] = <<TT!ReadLocal, TT!Work, TT!Finish(f)>> => result[f] # "deferred" /\ k <= Len(Whole)
  /\ result[f] = "none" => ~ Done(Whole, k, "async", f) /\ ~ Done(Whole, k, "promise", f)
  /\ result[f] = "taken" => Done(Whole, k, "get", f)

\* All this for main at k with the detour d.
StateOK(k, d) ==
  /\ PositionOK(k, d)
  /\ LocksOK(k, d)
  /\ \A t \in TT!Children : ThreadOK(k, t)
  /\ \A f \in TT!Tasks : TaskOK(k, f)

\* The types of the variables.
TestTypeOK ==
  /\ DOMAIN code = TT!Actors /\ code = [a \in TT!Actors |-> code[a]]
  /\ DOMAIN held = TT!Mutexes /\ held = [m \in TT!Mutexes |-> held[m]]
  /\ handle \in [TT!Children -> {"none", "joinable", "joined", "detached"}]
  /\ result \in [TT!Tasks -> {"none", "deferred", "pending", "ready", "taken"}]

\* The inductive invariant of the test functions: main is at some position, and
\* what the mutexes, threads and tasks are follows from it.
TestInv == /\ TestTypeOK
           /\ \E k \in 1..(Len(Whole) + 1) : \E d \in Detours(k) : StateOK(k, d)

\* Each test function is well formed; without one main does nothing.
LEMMA WholeOK ==
  \/ program \in DOMAIN TT!Code /\ WellFormed(Whole)
  \/ program \notin DOMAIN TT!Code /\ Whole = <<>>
  <1> SUFFICES ASSUME program \in DOMAIN TT!Code PROVE WellFormed(Whole)
    BY DEF Whole
  <1>0. Whole = TT!Code[program]
    BY DEF Whole
  <1>1. CASE program = "TestAsync"
    BY <1>0, <1>1, Well_TestAsync DEF TT!Code
  <1>2. CASE program = "TestSharedAsync"
    BY <1>0, <1>2, Well_TestSharedAsync DEF TT!Code
  <1>3. CASE program = "TestTwoAsync"
    BY <1>0, <1>3, Well_TestTwoAsync DEF TT!Code
  <1>4. CASE program = "TestLaunchAsync"
    BY <1>0, <1>4, Well_TestLaunchAsync DEF TT!Code
  <1>5. CASE program = "TestLaunchDeferred"
    BY <1>0, <1>5, Well_TestLaunchDeferred DEF TT!Code
  <1>6. CASE program = "TestHandleException"
    BY <1>0, <1>6, Well_TestHandleException DEF TT!Code
  <1>7. CASE program = "TestWait"
    BY <1>0, <1>7, Well_TestWait DEF TT!Code
  <1>8. CASE program = "TestWaitFor"
    BY <1>0, <1>8, Well_TestWaitFor DEF TT!Code
  <1>9. CASE program = "TestPolling"
    BY <1>0, <1>9, Well_TestPolling DEF TT!Code
  <1>10. CASE program = "TestPassingArguments"
    BY <1>0, <1>10, Well_TestPassingArguments DEF TT!Code
  <1>11. CASE program = "TestJoin"
    BY <1>0, <1>11, Well_TestJoin DEF TT!Code
  <1>12. CASE program = "TestDetach"
    BY <1>0, <1>12, Well_TestDetach DEF TT!Code
  <1>13. CASE program = "TestPromise"
    BY <1>0, <1>13, Well_TestPromise DEF TT!Code
  <1>14. CASE program = "TestPackagedTask"
    BY <1>0, <1>14, Well_TestPackagedTask DEF TT!Code
  <1>15. CASE program = "TestMutex"
    BY <1>0, <1>15, Well_TestMutex DEF TT!Code
  <1>16. CASE program = "TestLockGuard"
    BY <1>0, <1>16, Well_TestLockGuard DEF TT!Code
  <1>17. CASE program = "TestRecursiveMutex"
    BY <1>0, <1>17, Well_TestRecursiveMutex DEF TT!Code
  <1>18. CASE program = "TestTryLockAndLockFor"
    BY <1>0, <1>18, Well_TestTryLockAndLockFor DEF TT!Code
  <1>19. CASE program = "TestMultiMutex"
    BY <1>0, <1>19, Well_TestMultiMutex DEF TT!Code
  <1>20. CASE program = "TestUniqueLock"
    BY <1>0, <1>20, Well_TestUniqueLock DEF TT!Code
  <1>21. CASE program = "TestAtomic"
    BY <1>0, <1>21, Well_TestAtomic DEF TT!Code
  <1>22. CASE program = "testJoin"
    BY <1>0, <1>22, Well_testJoin DEF TT!Code
  <1>23. CASE program = "testDetach"
    BY <1>0, <1>23, Well_testDetach DEF TT!Code
  <1> QED
    BY <1>1, <1>2, <1>3, <1>4, <1>5, <1>6, <1>7, <1>8, <1>9, <1>10, <1>11, <1>12,
       <1>13, <1>14, <1>15, <1>16, <1>17, <1>18, <1>19, <1>20, <1>21, <1>22, <1>23 DEF TT!Code

\* What is left of a sequence, one operation after the other.
LEMMA Suffix ==
  ASSUME NEW S, NEW C \in Seq(S), NEW k \in 1..(Len(C) + 1)
  PROVE  /\ SubSeq(C, k, Len(C)) \in Seq(S)
         /\ k <= Len(C) => /\ SubSeq(C, k, Len(C)) # <<>>
                           /\ Head(SubSeq(C, k, Len(C))) = C[k]
                           /\ Tail(SubSeq(C, k, Len(C))) = SubSeq(C, k + 1, Len(C))
         /\ k = Len(C) + 1 => SubSeq(C, k, Len(C)) = <<>>
  <1> DEFINE s == SubSeq(C, k, Len(C))
             t == SubSeq(C, k + 1, Len(C))
  <1>1. /\ s \in Seq(S) /\ Len(s) = (Len(C) - k) + 1
        /\ \A i \in 1..Len(s) : s[i] = C[(k + i) - 1]
    BY SubSeqProperties
  <1>2. ASSUME k <= Len(C)
        PROVE  s # <<>> /\ Head(s) = C[k] /\ Tail(s) = t
    <2>1. /\ t \in Seq(S) /\ Len(t) = Len(C) - k
          /\ \A i \in 1..Len(t) : t[i] = C[k + i]
      BY <1>2, SubSeqProperties
    <2> HIDE DEF s, t
    <2>2. s # <<>> /\ Len(s) >= 1
      BY <1>1, <1>2
    <2>3. Tail(s) \in Seq(S) /\ Len(Tail(s)) = Len(s) - 1 /\ \A i \in 1..Len(Tail(s)) : Tail(s)[i] = s[i + 1]
      BY <1>1, <2>2, HeadTailProperties
    <2>4. Len(Tail(s)) = Len(t)
      <3>1. Len(C) \in Nat /\ k \in Nat
        BY LenProperties
      <3>2. Len(s) = (Len(C) - k) + 1 /\ Len(t) = Len(C) - k /\ Len(Tail(s)) = Len(s) - 1
        BY <1>1, <2>1, <2>3
      <3> QED
        BY <3>1, <3>2
    <2>7. \A i \in 1..Len(Tail(s)) : Tail(s)[i] = t[i]
      <3> SUFFICES ASSUME NEW i \in 1..Len(Tail(s)) PROVE Tail(s)[i] = t[i]
        OBVIOUS
      <3>1. Tail(s)[i] = s[i + 1] /\ t[i] = C[k + i] /\ i + 1 \in 1..Len(s)
        BY <1>1, <1>2, <2>1, <2>3, <2>4, SMTT(30)
      <3>2. s[i + 1] = C[(k + (i + 1)) - 1] /\ (k + (i + 1)) - 1 = k + i
        BY <1>1, <3>1
      <3> QED
        BY <3>1, <3>2
    <2>5. Tail(s) = t
      BY <2>1, <2>3, <2>4, <2>7, SeqEqual
    <2>6. Head(s) = s[1] /\ s[1] = C[k]
      BY <1>1, <2>2
    <2> QED
      BY <2>2, <2>5, <2>6
  <1>3. k = Len(C) + 1 => s = <<>>
    BY <1>1, EmptySeq
  <1> QED
    BY <1>1, <1>2, <1>3

\* A sequence that another comes before.
LEMMA Prefixed ==
  ASSUME NEW S, NEW d \in Seq(S), NEW s \in Seq(S)
  PROVE  /\ d \o s \in Seq(S)
         /\ d # <<>> => d \o s # <<>> /\ Head(d \o s) = Head(d) /\ Tail(d \o s) = Tail(d) \o s
         /\ d = <<>> => d \o s = s
  <1>1. /\ d \o s \in Seq(S) /\ Len(d \o s) = Len(d) + Len(s)
        /\ \A i \in 1..(Len(d) + Len(s)) : (d \o s)[i] = IF i <= Len(d) THEN d[i] ELSE s[i - Len(d)]
    BY ConcatProperties
  <1>2. ASSUME d # <<>>
        PROVE  d \o s # <<>> /\ Head(d \o s) = Head(d) /\ Tail(d \o s) = Tail(d) \o s
    <2> DEFINE e == d \o s
    <2>0. /\ e \in Seq(S) /\ Len(e) = Len(d) + Len(s) /\ Len(d) \in Nat /\ Len(s) \in Nat
          /\ \A i \in 1..(Len(d) + Len(s)) : e[i] = IF i <= Len(d) THEN d[i] ELSE s[i - Len(d)]
      BY <1>1
    <2> HIDE DEF e
    <2>1. Len(d) >= 1
      BY <1>2, EmptySeq
    <2>2. e # <<>>
      BY <2>0, <2>1
    <2>3. Head(e) = Head(d)
      BY <2>0, <2>1, <2>2, <1>2
    <2>4. /\ Tail(d) \in Seq(S) /\ Len(Tail(d)) = Len(d) - 1
          /\ \A i \in 1..Len(Tail(d)) : Tail(d)[i] = d[i + 1]
      BY <1>2, HeadTailProperties
    <2>5. /\ Tail(e) \in Seq(S) /\ Len(Tail(e)) = Len(e) - 1
          /\ \A i \in 1..Len(Tail(e)) : Tail(e)[i] = e[i + 1]
      BY <2>0, <2>2, HeadTailProperties
    <2> DEFINE g == Tail(d) \o s
    <2>6. /\ g \in Seq(S) /\ Len(g) = Len(Tail(d)) + Len(s)
          /\ \A i \in 1..(Len(Tail(d)) + Len(s)) : g[i] = IF i <= Len(Tail(d)) THEN Tail(d)[i] ELSE s[i - Len(Tail(d))]
      BY <2>4, ConcatProperties
    <2> HIDE DEF g
    <2>7. Len(g) = Len(Tail(e))
      BY <2>0, <2>1, <2>4, <2>5, <2>6
    <2>8. \A i \in 1..Len(g) : g[i] = Tail(e)[i]
      <3> SUFFICES ASSUME NEW i \in 1..Len(g) PROVE g[i] = Tail(e)[i]
        OBVIOUS
      <3>1. Tail(e)[i] = e[i + 1] /\ i + 1 \in 1..(Len(d) + Len(s))
        BY <2>0, <2>1, <2>4, <2>5, <2>6, <2>7
      <3>2. CASE i <= Len(Tail(d))
        <4>1. g[i] = d[i + 1] /\ i + 1 <= Len(d)
          BY <2>0, <2>1, <2>4, <2>6, <3>2
        <4> QED
          BY <2>0, <3>1, <4>1
      <3>3. CASE ~ i <= Len(Tail(d))
        <4>1. g[i] = s[i - Len(Tail(d))] /\ ~ i + 1 <= Len(d) /\ i - Len(Tail(d)) = (i + 1) - Len(d)
          BY <2>0, <2>1, <2>4, <2>6, <3>3
        <4>2. e[i + 1] = s[(i + 1) - Len(d)]
          BY <2>0, <3>1, <4>1
        <4> QED
          BY <3>1, <4>1, <4>2
      <3> QED
        BY <3>2, <3>3
    <2>9. g = Tail(e)
      BY <2>5, <2>6, <2>7, <2>8, SeqEqual
    <2> QED
      BY <2>2, <2>3, <2>9 DEF e, g
  <1>3. d = <<>> => d \o s = s
    BY ConcatEmptySeq
  <1> QED
    BY <1>1, <1>2, <1>3

-----------------------------------------------------------------------------
(* Main goes through the test function.                                    *)

\* The test function is a sequence.
LEMMA WholeSeq ==
  /\ Len(Whole) \in Nat
  /\ Whole \in Seq({Whole[i] : i \in 1..Len(Whole)})
  <1>1. CASE program \in DOMAIN TT!Code
    BY <1>1, WholeOK DEF WellFormed, IsSeq
  <1>2. CASE program \notin DOMAIN TT!Code
    <2>1. Whole = <<>>
      BY <1>2, WholeOK
    <2> QED
      BY <2>1
  <1> QED
    BY <1>1, <1>2

\* At a position of a test function there is one, and it is well formed.
LEMMA WholeWell ==
  ASSUME NEW k \in 1..Len(Whole)
  PROVE  WellFormed(Whole)
  <1>1. Whole # <<>>
    BY EmptySeq
  <1> QED
    BY <1>1, WholeOK

\* What the program does not change.
LEMMA Fixed ==
  ASSUME program' = program
  PROVE  /\ Whole' = Whole
         /\ FreeOps' = FreeOps
         /\ \A k : Detours(k)' = Detours(k)
         /\ \A m, k, d : MainHas(m, k, d)' = MainHas(m, k, d)
  <1>1. Whole' = Whole
    BY DEF Whole
  <1> QED
    BY <1>1 DEF FreeOps, Detours, MainHas, Done

\* What is done when main has gone past k.
LEMMA DoneNext ==
  ASSUME NEW k \in 1..Len(Whole), NEW op, NEW x
  PROVE  Done(Whole, k + 1, op, x) <=> Done(Whole, k, op, x) \/ (Whole[k].op = op /\ Whole[k].on = x)
  <1>1. \A i : i \in 1..((k + 1) - 1) <=> i \in 1..(k - 1) \/ i = k
    BY WholeSeq
  <1> QED
    BY <1>1 DEF Done

\* What was still to do before main went past k.
LEMMA TodoNext ==
  ASSUME NEW k \in 1..Len(Whole), NEW op, NEW x
  PROVE  Todo(Whole, k, op, x) <=> Todo(Whole, k + 1, op, x) \/ (Whole[k].op = op /\ Whole[k].on = x)
  <1>1. \A i : i \in k..Len(Whole) <=> i \in (k + 1)..Len(Whole) \/ i = k
    BY WholeSeq
  <1> QED
    BY <1>1 DEF Todo

\* One detour step.
LEMMA DetourSteps ==
  ASSUME NEW k, NEW d \in Detours(k)
  PROVE  /\ d \in Seq(DetourOps)
         /\ d # <<>> =>
              /\ Tail(d) \in Detours(k)
              /\ \/ Head(d) = TT!Work
                 \/ \E f \in TT!Tasks : Head(d) = TT!Finish(f) /\ Done(Whole, k, "async", f)
                 \/ /\ program \in {"TestTryLockAndLockFor", "TestMultiMutex"} /\ k = 5
                    /\ \E m \in {"mutex", "m1", "m2"} : Head(d) = TT!Unlock({m})
  <1>1. CASE d = <<>>
    BY <1>1
  <1>2. ASSUME NEW f \in TT!Tasks, Done(Whole, k, "async", f), d = <<TT!Finish(f)>>
        PROVE  d \in Seq(DetourOps) /\ Tail(d) \in Detours(k) /\ Head(d) = TT!Finish(f)
    BY <1>2 DEF DetourOps, Detours
  <1>3. ASSUME NEW f \in TT!Tasks, Done(Whole, k, "async", f), d = <<TT!Work, TT!Finish(f)>>
        PROVE  d \in Seq(DetourOps) /\ Tail(d) \in Detours(k) /\ Head(d) = TT!Work
    BY <1>3 DEF DetourOps, Detours
  <1>4. ASSUME program = "TestTryLockAndLockFor", k = 5,
               d \in {<<TT!Unlock({"mutex"}), TT!Work>>, <<TT!Work>>}
        PROVE  /\ d \in Seq(DetourOps) /\ Tail(d) \in Detours(k)
               /\ Head(d) \in {TT!Work, TT!Unlock({"mutex"})}
    <2>1. CASE d = <<TT!Work>>
      BY <1>4, <2>1 DEF DetourOps, Detours
    <2>2. CASE d = <<TT!Unlock({"mutex"}), TT!Work>>
      BY <1>4, <2>2 DEF DetourOps, Detours, TT!Mutexes
    <2> QED
      BY <1>4, <2>1, <2>2
  <1>5. ASSUME program = "TestMultiMutex", k = 5,
               d \in {<<TT!Unlock({"m1"}), TT!Unlock({"m2"})>>, <<TT!Unlock({"m2"})>>}
        PROVE  /\ d \in Seq(DetourOps) /\ Tail(d) \in Detours(k)
               /\ Head(d) \in {TT!Unlock({"m1"}), TT!Unlock({"m2"})}
    <2>1. CASE d = <<TT!Unlock({"m2"})>>
      BY <1>5, <2>1 DEF DetourOps, Detours, TT!Mutexes
    <2>2. CASE d = <<TT!Unlock({"m1"}), TT!Unlock({"m2"})>>
      BY <1>5, <2>2 DEF DetourOps, Detours, TT!Mutexes
    <2> QED
      BY <1>5, <2>1, <2>2
  <1>6. \/ d = <<>>
        \/ \E f \in TT!Tasks : Done(Whole, k, "async", f) /\ d \in {<<TT!Finish(f)>>, <<TT!Work, TT!Finish(f)>>}
        \/ /\ program = "TestTryLockAndLockFor" /\ k = 5
           /\ d \in {<<TT!Unlock({"mutex"}), TT!Work>>, <<TT!Work>>}
        \/ /\ program = "TestMultiMutex" /\ k = 5
           /\ d \in {<<TT!Unlock({"m1"}), TT!Unlock({"m2"})>>, <<TT!Unlock({"m2"})>>}
    BY DEF Detours
  <1>7. CASE \E f \in TT!Tasks : Done(Whole, k, "async", f) /\ d \in {<<TT!Finish(f)>>, <<TT!Work, TT!Finish(f)>>}
    BY <1>7, <1>2, <1>3
  <1> QED
    BY <1>1, <1>4, <1>5, <1>6, <1>7

\* What the test function does next.
LEMMA MainNext ==
  ASSUME NEW k \in 1..(Len(Whole) + 1), NEW d \in Detours(k), PositionOK(k, d), code["main"] # <<>>
  PROVE  /\ k <= Len(Whole)
         /\ \/ /\ d # <<>>
               /\ Head(code["main"]) = Head(d)
               /\ Tail(code["main"]) = Tail(d) \o SubSeq(Whole, k, Len(Whole))
            \/ /\ d = <<>>
               /\ Head(code["main"]) = Whole[k]
               /\ Tail(code["main"]) = <<>> \o SubSeq(Whole, k + 1, Len(Whole))
  <1> DEFINE S == DetourOps \cup {Whole[i] : i \in 1..Len(Whole)}
             s == SubSeq(Whole, k, Len(Whole))
  <1>1. Whole \in Seq(S) /\ d \in Seq(S) /\ Len(Whole) \in Nat
    <2>1. Whole \in Seq(S)
      BY WholeSeq, SeqMonotonic
    <2>2. d \in Seq(S)
      BY DetourSteps, SeqMonotonic
    <2> QED
      BY WholeSeq, <2>1, <2>2
  <1> HIDE DEF S
  <1>2. /\ s \in Seq(S)
        /\ k <= Len(Whole) => s # <<>> /\ Head(s) = Whole[k] /\ Tail(s) = SubSeq(Whole, k + 1, Len(Whole))
        /\ k = Len(Whole) + 1 => s = <<>>
    BY <1>1, Suffix
  <1>3. /\ d # <<>> => d \o s # <<>> /\ Head(d \o s) = Head(d) /\ Tail(d \o s) = Tail(d) \o s
        /\ d = <<>> => d \o s = s
    <2>1. s \in Seq(S) /\ d \in Seq(S)
      BY <1>1, <1>2
    <2> HIDE DEF s
    <2> QED
      BY <2>1, Prefixed
  <1>4. code["main"] = d \o s /\ (d # <<>> => k <= Len(Whole))
    BY DEF PositionOK
  <1>5. k <= Len(Whole)
    <2>1. CASE d # <<>>
      BY <1>4, <2>1
    <2>2. CASE d = <<>>
      <3>1. s # <<>>
        BY <1>3, <1>4, <2>2
      <3> QED
        BY <1>1, <1>2, <3>1
    <2> QED
      BY <2>1, <2>2
  <1>6. SubSeq(Whole, k + 1, Len(Whole)) \in Seq(S)
    <2>1. k + 1 \in 1..(Len(Whole) + 1)
      BY <1>1, <1>5
    <2> QED
      BY <1>1, <2>1, Suffix
  <1>7. <<>> \o SubSeq(Whole, k + 1, Len(Whole)) = SubSeq(Whole, k + 1, Len(Whole))
    BY <1>6, ConcatEmptySeq
  <1> HIDE DEF s
  <1>8. CASE d # <<>>
    BY <1>3, <1>4, <1>5, <1>8 DEF s
  <1>9. CASE d = <<>>
    BY <1>2, <1>3, <1>4, <1>5, <1>7, <1>9
  <1> QED
    BY <1>5, <1>8, <1>9

\* The operations that have a step; a thread at Forever has none.
Names == {"work", "job", "read", "ready", "while", "start", "join", "detach", "lock", "try", "unlock",
          "async", "finish", "set", "promise", "wait", "get", "poll", "return"}

\* Each step is that of the operation a comes to.
LEMMA StepIs ==
  ASSUME NEW a \in TT!Actors, TT!Step(a)
  PROVE  LET o == Head(code[a]).op IN
         /\ code[a] # <<>> /\ o \in Names
         /\ a \in TT!Tasks => result[a] # "deferred"
         /\ o \in {"work", "job", "read"} => TT!DoWork(a)
         /\ o = "ready" => TT!DoReady(a)
         /\ o = "while" => TT!DoWhile(a)
         /\ o = "start" => TT!DoStart(a)
         /\ o = "join" => TT!DoJoin(a)
         /\ o = "detach" => TT!DoDetach(a)
         /\ o = "lock" => TT!DoLock(a)
         /\ o = "try" => TT!DoTry(a)
         /\ o = "unlock" => TT!DoUnlock(a)
         /\ o = "async" => TT!DoAsync(a)
         /\ o \in {"finish", "set"} => TT!DoFinish(a)
         /\ o = "promise" => TT!DoPromise(a)
         /\ o = "poll" => TT!DoWait(a)
         /\ o = "wait" => TT!DoWait(a) \/ TT!DoDeferred(a)
         /\ o = "get" => TT!DoGet(a) \/ TT!DoDeferred(a)
         /\ o = "return" => TT!DoReturn(a)
  <1> DEFINE o == Head(code[a]).op
  <1>1. TT!DoWork(a) => code[a] # <<>> /\ o \in {"work", "job", "read"}
    BY DEF TT!DoWork, TT!At
  <1>2. TT!DoReady(a) => code[a] # <<>> /\ o = "ready"
    BY DEF TT!DoReady, TT!At
  <1>3. TT!DoWhile(a) => code[a] # <<>> /\ o = "while"
    BY DEF TT!DoWhile, TT!At
  <1>4. TT!DoStart(a) => code[a] # <<>> /\ o = "start"
    BY DEF TT!DoStart, TT!At
  <1>5. TT!DoJoin(a) => code[a] # <<>> /\ o = "join"
    BY DEF TT!DoJoin, TT!At
  <1>6. TT!DoDetach(a) => code[a] # <<>> /\ o = "detach"
    BY DEF TT!DoDetach, TT!At
  <1>7. TT!DoLock(a) => code[a] # <<>> /\ o = "lock"
    BY DEF TT!DoLock, TT!At
  <1>8. TT!DoTry(a) => code[a] # <<>> /\ o = "try"
    BY DEF TT!DoTry, TT!At
  <1>9. TT!DoUnlock(a) => code[a] # <<>> /\ o = "unlock"
    BY DEF TT!DoUnlock, TT!At
  <1>10. TT!DoAsync(a) => code[a] # <<>> /\ o = "async"
    BY DEF TT!DoAsync, TT!At
  <1>11. TT!DoFinish(a) => code[a] # <<>> /\ o \in {"finish", "set"}
    BY DEF TT!DoFinish, TT!At
  <1>12. TT!DoPromise(a) => code[a] # <<>> /\ o = "promise"
    BY DEF TT!DoPromise, TT!At
  <1>13. TT!DoDeferred(a) => code[a] # <<>> /\ o \in {"wait", "get"}
    BY DEF TT!DoDeferred, TT!At
  <1>14. TT!DoWait(a) => code[a] # <<>> /\ o \in {"wait", "poll"}
    BY DEF TT!DoWait, TT!At
  <1>15. TT!DoGet(a) => code[a] # <<>> /\ o = "get"
    BY DEF TT!DoGet, TT!At
  <1>16. TT!DoReturn(a) => code[a] # <<>> /\ o = "return"
    BY DEF TT!DoReturn, TT!At
  <1> HIDE DEF o
  <1>17. /\ \/ TT!DoWork(a) \/ TT!DoReady(a) \/ TT!DoWhile(a)
            \/ TT!DoStart(a) \/ TT!DoJoin(a) \/ TT!DoDetach(a)
            \/ TT!DoLock(a) \/ TT!DoTry(a) \/ TT!DoUnlock(a)
            \/ TT!DoAsync(a) \/ TT!DoFinish(a) \/ TT!DoPromise(a)
            \/ TT!DoDeferred(a) \/ TT!DoWait(a) \/ TT!DoGet(a) \/ TT!DoReturn(a)
         /\ a \in TT!Tasks => result[a] # "deferred"
    BY DEF TT!Step, TT!Running
  <1> QED
    BY <1>1, <1>2, <1>3, <1>4, <1>5, <1>6, <1>7, <1>8, <1>9, <1>10, <1>11, <1>12, <1>13,
       <1>14, <1>15, <1>16, <1>17 DEF o, Names

-----------------------------------------------------------------------------
(* What the threads and the tasks have left to do, operation by operation.  *)

\* With a mutex the next or the next but one operation gives it back.
LEMMA CriticalShape ==
  ASSUME NEW m \in TT!Mutexes, NEW c \in Critical(m)
  PROVE  /\ c # <<>>
         /\ \/ c[1].op = "unlock" /\ c[1].mutexes = {m}
            \/ /\ c[1].op \in {"work", "ready", "while"}
               /\ Len(c) >= 2 /\ c[2].op = "unlock" /\ c[2].mutexes = {m}
  <1> USE DEF TT!Work, TT!SetReady, TT!Job, TT!Unlock, TT!Lock, Loop, TT!While, TT!On
  <1>1. CASE m = "readyFlagMutex"
    <2>1. CASE c = <<TT!SetReady, TT!Unlock({m})>>
      <3>1. Len(c) = 2
        BY <2>1
      <3>2. c # <<>> /\ c[1].op \in {"work", "ready", "while"} /\ c[2].op = "unlock" /\ c[2].mutexes = {m}
        BY <2>1
      <3> QED
        BY <3>1, <3>2
    <2>2. CASE c = <<TT!Unlock({m})>>
      BY <2>2
    <2>3. CASE c = <<Loop(m), TT!Unlock({m}), TT!Job>>
      <3>1. Len(c) = 3
        BY <2>3
      <3>2. c # <<>> /\ c[1].op \in {"work", "ready", "while"} /\ c[2].op = "unlock" /\ c[2].mutexes = {m}
        BY <2>3
      <3> QED
        BY <3>1, <3>2
    <2>4. CASE c = <<TT!Unlock({m}), TT!Job>>
      BY <2>4
    <2>5. CASE c = <<TT!Unlock({m}), TT!Work, TT!Lock({m}), Loop(m), TT!Unlock({m}), TT!Job>>
      BY <2>5
    <2> QED
      BY <1>1, <2>1, <2>2, <2>3, <2>4, <2>5 DEF Critical
  <1>2. CASE m # "readyFlagMutex"
    <2>1. CASE c = <<TT!Work, TT!Unlock({m})>>
      <3>1. Len(c) = 2
        BY <2>1
      <3>2. c # <<>> /\ c[1].op \in {"work", "ready", "while"} /\ c[2].op = "unlock" /\ c[2].mutexes = {m}
        BY <2>1
      <3> QED
        BY <3>1, <3>2
    <2>2. CASE c = <<TT!Unlock({m})>>
      BY <2>2
    <2> QED
      BY <1>2, <2>1, <2>2 DEF Critical
  <1> QED
    BY <1>1, <1>2

\* Before it has the mutex a function works first or asks for it.
LEMMA BeforeShape ==
  ASSUME NEW m \in TT!Mutexes, NEW c \in Before(m)
  PROVE  /\ c # <<>>
         /\ \/ c[1].op \in {"lock", "try"}
            \/ c[1].op = "work" /\ c[2].op = "lock"
  <1> USE DEF TT!Work, TT!SetReady, TT!Job, TT!Unlock, TT!Lock, TT!Try, TT!On
  <1>1. CASE m = "readyFlagMutex"
    <2>1. CASE c = <<TT!Work, TT!Lock({m}), TT!SetReady, TT!Unlock({m})>>
      BY <2>1
    <2>2. CASE c = <<TT!Lock({m}), TT!SetReady, TT!Unlock({m})>>
      BY <2>2
    <2>3. CASE c = <<TT!Lock({m}), Loop(m), TT!Unlock({m}), TT!Job>>
      BY <2>3
    <2>4. CASE c = <<TT!Work, TT!Lock({m}), Loop(m), TT!Unlock({m}), TT!Job>>
      BY <2>4
    <2> QED
      BY <1>1, <2>1, <2>2, <2>3, <2>4 DEF Before
  <1>2. CASE m # "readyFlagMutex"
    <2>1. CASE c = <<TT!Lock({m}), TT!Work, TT!Unlock({m})>>
      BY <2>1
    <2>2. CASE c = <<TT!Work, TT!Lock({m}), TT!Work, TT!Unlock({m})>>
      BY <2>2
    <2>3. CASE c = <<TT!Try({m}, <<TT!Work, TT!Unlock({m})>>)>>
      BY <2>3
    <2> QED
      BY <1>2, <2>1, <2>2, <2>3 DEF Before
  <1> QED
    BY <1>1, <1>2

\* A function with a promise comes to the promise.
LEMMA ReportShape ==
  ASSUME NEW f, NEW c \in Reports(f)
  PROVE  /\ c # <<>>
         /\ \/ c[1].op = "read"
            \/ c[1].op = "set" /\ c[1].on = f
            \/ c[1].op = "work" /\ c[2].op = "set"
  <1> USE DEF TT!Work, TT!Set, TT!ReadLocal, TT!On
  <1>1. CASE c = <<TT!Set(f)>>
    BY <1>1
  <1>2. CASE c = <<TT!Work, TT!Set(f)>>
    BY <1>2
  <1>3. CASE c = <<TT!ReadLocal, TT!Work, TT!Set(f)>>
    BY <1>3
  <1> QED
    BY <1>1, <1>2, <1>3 DEF Reports

\* What a function does about one mutex it does not do about another.
LEMMA Kinds ==
  /\ \A m, n \in TT!Mutexes : \A c : c \in Critical(m) /\ c \in Critical(n) => m = n
  /\ \A m, n \in TT!Mutexes : \A c : c \in Before(m) => c \notin Critical(n)
  /\ \A m \in TT!Mutexes : \A c, f : c \in Reports(f) => c \notin Critical(m) /\ c \notin Before(m)
  /\ \A m \in TT!Mutexes : \A c \in Seq(FreeOps) : c \notin Critical(m)
  /\ \A f : \A c \in Seq(FreeOps) : c \notin Reports(f)
  /\ \A m \in TT!Mutexes : <<>> \notin Critical(m)
  /\ \A f : <<>> \notin Reports(f)
  <1>1. ASSUME NEW m \in TT!Mutexes, NEW n \in TT!Mutexes, NEW c, c \in Critical(m), c \in Critical(n)
        PROVE  m = n
    BY <1>1, CriticalShape, SMTT(30)
  <1>2. ASSUME NEW m \in TT!Mutexes, NEW n \in TT!Mutexes, NEW c, c \in Before(m), c \in Critical(n)
        PROVE  FALSE
    BY <1>2, BeforeShape, CriticalShape
  <1>3. ASSUME NEW m \in TT!Mutexes, NEW c, NEW f, c \in Reports(f)
        PROVE  c \notin Critical(m) /\ c \notin Before(m)
    BY <1>3, BeforeShape, CriticalShape, ReportShape
  <1>4. ASSUME NEW m \in TT!Mutexes, NEW c \in Seq(FreeOps), c \in Critical(m)
        PROVE  FALSE
    <2>1. Len(c) \in Nat /\ Len(c) >= 1 /\ c[1] \in FreeOps
      <3>1. c # <<>>
        BY <1>4, CriticalShape
      <3> QED
        BY <3>1, EmptySeq
    <2>2. Len(c) >= 2 => c[2] \in FreeOps
      BY <2>1
    <2> QED
      BY <1>4, <2>1, <2>2, FreeOpNames, CriticalShape
  <1>5. ASSUME NEW f, NEW c \in Seq(FreeOps), c \in Reports(f)
        PROVE  FALSE
    <2>1. CASE c = <<TT!Set(f)>>
      BY <2>1, c[1] \in FreeOps, FreeOpNames DEF TT!Set, TT!On
    <2>2. CASE c = <<TT!Work, TT!Set(f)>>
      BY <2>2, c[2] \in FreeOps, FreeOpNames DEF TT!Set, TT!On
    <2>3. CASE c = <<TT!ReadLocal, TT!Work, TT!Set(f)>>
      BY <2>3, c[3] \in FreeOps, FreeOpNames DEF TT!Set, TT!On
    <2> QED
      BY <1>5, <2>1, <2>2, <2>3 DEF Reports
  <1> QED
    BY <1>1, <1>2, <1>3, <1>4, <1>5, CriticalShape, ReportShape

\* The names of the operations.
LEMMA OpNames ==
  /\ TT!Work.op = "work" /\ TT!Job.op = "job" /\ TT!SetReady.op = "ready"
  /\ TT!ReadLocal.op = "read" /\ TT!Forever.op = "forever"
  /\ \A b : TT!While(b).op = "while" /\ TT!While(b).body = b
  /\ \A ms : /\ TT!Lock(ms).op = "lock" /\ TT!Lock(ms).mutexes = ms
             /\ TT!Unlock(ms).op = "unlock" /\ TT!Unlock(ms).mutexes = ms
  /\ \A ms, yes : /\ TT!Try(ms, yes).op = "try" /\ TT!Try(ms, yes).mutexes = ms
                  /\ TT!Try(ms, yes).yes = yes
  /\ \A f : /\ TT!Set(f).op = "set" /\ TT!Set(f).on = f
            /\ TT!Finish(f).op = "finish" /\ TT!Finish(f).on = f
  BY DEF TT!Work, TT!Job, TT!SetReady, TT!ReadLocal, TT!Forever, TT!While, TT!Lock, TT!Unlock,
         TT!Try, TT!Set, TT!Finish, TT!On

\* One operation of what a thread does about no mutex.
LEMMA FreeSteps ==
  ASSUME NEW c \in Seq(FreeOps), c # <<>>
  PROVE  /\ Tail(c) \in Seq(FreeOps)
         /\ Head(c).op \in {"work", "job", "forever", "ready", "while"}
         /\ Head(c).op \in {"ready", "while"} => program # "TestUniqueLock"
         /\ Head(c).op = "while" => Head(c).body \o c \in Seq(FreeOps)
  <1>1. Tail(c) \in Seq(FreeOps) /\ Head(c) \in FreeOps
    BY HeadTailProperties
  <1>2. Head(c).op \in {"work", "job", "forever", "ready", "while"}
    BY <1>1, FreeOpNames
  <1>3. Head(c).op \in {"ready", "while"} => program # "TestUniqueLock"
    BY <1>1, OpNames DEF FreeOps
  <1>4. ASSUME Head(c).op = "while" PROVE Head(c).body \o c \in Seq(FreeOps)
    <2>1. Head(c) = TT!While(<<TT!Work>>)
      BY <1>1, <1>4, OpNames DEF FreeOps
    <2>2. Head(c).body = <<TT!Work>>
      BY <2>1 DEF TT!While
    <2>3. TT!Work \in FreeOps
      BY DEF FreeOps
    <2>4. <<TT!Work>> \in Seq(FreeOps)
      BY <2>3
    <2> QED
      BY <2>2, <2>4, ConcatProperties
  <1> QED
    BY <1>1, <1>2, <1>3, <1>4

\* One operation before a thread has the mutex m.
LEMMA BeforeSteps ==
  ASSUME NEW m \in TT!Mutexes, NEW c \in Before(m)
  PROVE  \/ Head(c).op = "work" /\ Tail(c) \in Before(m)
         \/ Head(c).op = "lock" /\ Head(c).mutexes = {m} /\ Tail(c) \in Critical(m)
         \/ /\ Head(c).op = "try" /\ Head(c).mutexes = {m}
            /\ Tail(c) = <<>> /\ Head(c).yes \o Tail(c) \in Critical(m)
  <1> DEFINE W == Head(c).op = "work" /\ Tail(c) \in Before(m)
             L == Head(c).op = "lock" /\ Head(c).mutexes = {m} /\ Tail(c) \in Critical(m)
  <1>1. CASE m = "readyFlagMutex"
    <2>1. CASE c = <<TT!Work, TT!Lock({m}), TT!SetReady, TT!Unlock({m})>>
      <3>1. Head(c) = TT!Work /\ Tail(c) = <<TT!Lock({m}), TT!SetReady, TT!Unlock({m})>>
        BY <2>1
      <3>2. Tail(c) \in Before(m)
        BY <1>1, <3>1 DEF Before
      <3> QED
        BY <3>1, <3>2, OpNames
    <2>2. CASE c = <<TT!Lock({m}), TT!SetReady, TT!Unlock({m})>>
      <3>1. Head(c) = TT!Lock({m}) /\ Tail(c) = <<TT!SetReady, TT!Unlock({m})>>
        BY <2>2
      <3>2. Tail(c) \in Critical(m)
        BY <1>1, <3>1 DEF Critical
      <3> QED
        BY <3>1, <3>2, OpNames
    <2>3. CASE c = <<TT!Lock({m}), Loop(m), TT!Unlock({m}), TT!Job>>
      <3>1. Head(c) = TT!Lock({m}) /\ Tail(c) = <<Loop(m), TT!Unlock({m}), TT!Job>>
        BY <2>3
      <3>2. Tail(c) \in Critical(m)
        BY <1>1, <3>1 DEF Critical
      <3> QED
        BY <3>1, <3>2, OpNames
    <2>4. CASE c = <<TT!Work, TT!Lock({m}), Loop(m), TT!Unlock({m}), TT!Job>>
      <3>1. Head(c) = TT!Work /\ Tail(c) = <<TT!Lock({m}), Loop(m), TT!Unlock({m}), TT!Job>>
        BY <2>4
      <3>2. Tail(c) \in Before(m)
        BY <1>1, <3>1 DEF Before
      <3> QED
        BY <3>1, <3>2, OpNames
    <2> QED
      BY <1>1, <2>1, <2>2, <2>3, <2>4 DEF Before
  <1>2. CASE m # "readyFlagMutex"
    <2>1. CASE c = <<TT!Lock({m}), TT!Work, TT!Unlock({m})>>
      <3>1. Head(c) = TT!Lock({m}) /\ Tail(c) = <<TT!Work, TT!Unlock({m})>>
        BY <2>1
      <3>2. Tail(c) \in Critical(m)
        BY <1>2, <3>1 DEF Critical
      <3> QED
        BY <3>1, <3>2, OpNames
    <2>2. CASE c = <<TT!Work, TT!Lock({m}), TT!Work, TT!Unlock({m})>>
      <3>1. Head(c) = TT!Work /\ Tail(c) = <<TT!Lock({m}), TT!Work, TT!Unlock({m})>>
        BY <2>2
      <3>2. Tail(c) \in Before(m)
        BY <1>2, <3>1 DEF Before
      <3> QED
        BY <3>1, <3>2, OpNames
    <2>3. CASE c = <<TT!Try({m}, <<TT!Work, TT!Unlock({m})>>)>>
      <3>1. Head(c) = TT!Try({m}, <<TT!Work, TT!Unlock({m})>>) /\ Tail(c) = <<>>
        BY <2>3
      <3>2. Head(c).op = "try" /\ Head(c).mutexes = {m} /\ Head(c).yes = <<TT!Work, TT!Unlock({m})>>
        BY <3>1 DEF TT!Try
      <3>3. <<TT!Work, TT!Unlock({m})>> \o <<>> = <<TT!Work, TT!Unlock({m})>>
        <4>1. <<TT!Work, TT!Unlock({m})>> \in Seq({TT!Work, TT!Unlock({m})})
          OBVIOUS
        <4> QED
          BY <4>1, ConcatEmptySeq
      <3>4. <<TT!Work, TT!Unlock({m})>> \in Critical(m)
        BY <1>2 DEF Critical
      <3> QED
        BY <3>1, <3>2, <3>3, <3>4
    <2> QED
      BY <1>2, <2>1, <2>2, <2>3 DEF Before
  <1> QED
    BY <1>1, <1>2

\* One operation with the mutex m.
LEMMA CriticalSteps ==
  ASSUME NEW m \in TT!Mutexes, NEW c \in Critical(m)
  PROVE  /\ \/ Head(c).op \in {"work", "ready"} /\ Tail(c) \in Critical(m)
            \/ Head(c).op = "while" /\ Tail(c) \in Critical(m) /\ Head(c).body \o c \in Critical(m)
            \/ /\ Head(c).op = "unlock" /\ Head(c).mutexes = {m}
               /\ Tail(c) \in Seq(FreeOps) \/ Tail(c) \in Before(m)
         /\ Head(c).op \in {"ready", "while"} => m = "readyFlagMutex"
  <1>0. TT!Job \in FreeOps
    BY DEF FreeOps
  <1>9. <<>> \in Seq(FreeOps) /\ <<TT!Job>> \in Seq(FreeOps)
    BY <1>0
  <1>1. CASE m = "readyFlagMutex"
    <2>1. CASE c = <<TT!SetReady, TT!Unlock({m})>>
      <3>1. Head(c) = TT!SetReady /\ Tail(c) = <<TT!Unlock({m})>>
        BY <2>1
      <3>2. Tail(c) \in Critical(m)
        BY <1>1, <3>1 DEF Critical
      <3> QED
        BY <1>1, <3>1, <3>2, OpNames
    <2>2. CASE c = <<TT!Unlock({m})>>
      <3>1. Head(c) = TT!Unlock({m}) /\ Tail(c) = <<>>
        BY <2>2
      <3>2. Tail(c) \in Seq(FreeOps)
        BY <1>9, <3>1
      <3> QED
        BY <3>1, <3>2, OpNames
    <2>3. CASE c = <<Loop(m), TT!Unlock({m}), TT!Job>>
      <3> DEFINE b == <<TT!Unlock({m}), TT!Work, TT!Lock({m})>>
                 e == <<TT!Unlock({m}), TT!Work, TT!Lock({m}), Loop(m), TT!Unlock({m}), TT!Job>>
                 S == {TT!Unlock({m}), TT!Work, TT!Lock({m}), Loop(m), TT!Job}
      <3>1. Head(c) = Loop(m) /\ Tail(c) = <<TT!Unlock({m}), TT!Job>>
        BY <2>3
      <3>2. Head(c).op = "while" /\ Head(c).body = b
        BY <3>1 DEF Loop, TT!While
      <3>3. Tail(c) \in Critical(m)
        BY <1>1, <3>1 DEF Critical
      <3>4. b \in Seq(S) /\ e \in Seq(S) /\ Len(b) = 3 /\ Len(e) = 6
        OBVIOUS
      <3>5. c \in Seq(S) /\ Len(c) = 3
        BY <2>3
      <3>6. e[1] = b[1] /\ e[2] = b[2] /\ e[3] = b[3]
        OBVIOUS
      <3>7. e[4] = c[1] /\ e[5] = c[2] /\ e[6] = c[3]
        BY <2>3
      <3> HIDE DEF b, e, S
      <3>9. /\ b \o c \in Seq(S) /\ Len(b \o c) = Len(b) + Len(c)
            /\ \A i \in 1..(Len(b) + Len(c)) : (b \o c)[i] = IF i <= Len(b) THEN b[i] ELSE c[i - Len(b)]
        BY <3>4, <3>5, ConcatProperties
      <3>8. /\ b \o c \in Seq(S) /\ Len(b \o c) = 6
            /\ \A i \in 1..6 : (b \o c)[i] = IF i <= 3 THEN b[i] ELSE c[i - 3]
        BY <3>4, <3>5, <3>9
      <3>10. \A i \in 1..6 : (b \o c)[i] = e[i]
        BY <3>6, <3>7, <3>8, Six, SMTT(30)
      <3>11. b \o c = e
        BY <3>4, <3>8, <3>10, SeqEqual
      <3>12. e \in Critical(m)
        BY <1>1 DEF e, Critical
      <3> QED
        BY <1>1, <3>2, <3>3, <3>11, <3>12
    <2>4. CASE c = <<TT!Unlock({m}), TT!Job>>
      <3>1. Head(c) = TT!Unlock({m}) /\ Tail(c) = <<TT!Job>>
        BY <2>4
      <3>2. Tail(c) \in Seq(FreeOps)
        BY <1>9, <3>1
      <3> QED
        BY <3>1, <3>2, OpNames
    <2>5. CASE c = <<TT!Unlock({m}), TT!Work, TT!Lock({m}), Loop(m), TT!Unlock({m}), TT!Job>>
      <3>1. Head(c) = TT!Unlock({m}) /\ Tail(c) = <<TT!Work, TT!Lock({m}), Loop(m), TT!Unlock({m}), TT!Job>>
        BY <2>5
      <3>2. Tail(c) \in Before(m)
        BY <1>1, <3>1 DEF Before
      <3> QED
        BY <3>1, <3>2, OpNames
    <2> QED
      BY <1>1, <2>1, <2>2, <2>3, <2>4, <2>5 DEF Critical
  <1>2. CASE m # "readyFlagMutex"
    <2>1. CASE c = <<TT!Work, TT!Unlock({m})>>
      <3>1. Head(c) = TT!Work /\ Tail(c) = <<TT!Unlock({m})>>
        BY <2>1
      <3>2. Tail(c) \in Critical(m)
        BY <1>2, <3>1 DEF Critical
      <3> QED
        BY <3>1, <3>2, OpNames
    <2>2. CASE c = <<TT!Unlock({m})>>
      <3>1. Head(c) = TT!Unlock({m}) /\ Tail(c) = <<>>
        BY <2>2
      <3>2. Tail(c) \in Seq(FreeOps)
        BY <1>9, <3>1
      <3> QED
        BY <3>1, <3>2, OpNames
    <2> QED
      BY <1>2, <2>1, <2>2 DEF Critical
  <1> QED
    BY <1>1, <1>2

\* One operation of what ends with the promise f.
LEMMA ReportSteps ==
  ASSUME NEW f, NEW c \in Reports(f)
  PROVE  \/ Head(c).op \in {"work", "read"} /\ Tail(c) \in Reports(f)
         \/ Head(c).op = "set" /\ Head(c).on = f /\ Tail(c) = <<>>
  <1>1. CASE c = <<TT!Set(f)>>
    <2>1. Head(c) = TT!Set(f) /\ Tail(c) = <<>>
      BY <1>1
    <2> QED
      BY <2>1, OpNames
  <1>2. CASE c = <<TT!Work, TT!Set(f)>>
    <2>1. Head(c) = TT!Work /\ Tail(c) = <<TT!Set(f)>>
      BY <1>2
    <2>2. Tail(c) \in Reports(f)
      BY <2>1 DEF Reports
    <2> QED
      BY <2>1, <2>2, OpNames
  <1>3. CASE c = <<TT!ReadLocal, TT!Work, TT!Set(f)>>
    <2>1. Head(c) = TT!ReadLocal /\ Tail(c) = <<TT!Work, TT!Set(f)>>
      BY <1>3
    <2>2. Tail(c) \in Reports(f)
      BY <2>1 DEF Reports
    <2> QED
      BY <2>1, <2>2, OpNames
  <1> QED
    BY <1>1, <1>2, <1>3 DEF Reports

\* One operation of a task.
LEMMA TaskSteps ==
  ASSUME NEW f, NEW c \in TaskCodes(f), c # <<>>
  PROVE  /\ Tail(c) \in TaskCodes(f) /\ Tail(c) # <<TT!ReadLocal, TT!Work, TT!Finish(f)>>
         /\ \/ Head(c).op = "work"
            \/ Head(c).op = "finish" /\ Head(c).on = f
            \/ Head(c).op = "read" /\ c = <<TT!ReadLocal, TT!Work, TT!Finish(f)>>
  <1>1. CASE c = <<TT!Finish(f)>>
    <2>1. Head(c) = TT!Finish(f) /\ Tail(c) = <<>>
      BY <1>1
    <2>2. Tail(c) \in TaskCodes(f) /\ Tail(c) # <<TT!ReadLocal, TT!Work, TT!Finish(f)>>
      BY <2>1 DEF TaskCodes
    <2> QED
      BY <2>1, <2>2, OpNames
  <1>2. CASE c = <<TT!Work, TT!Finish(f)>>
    <2>1. Head(c) = TT!Work /\ Tail(c) = <<TT!Finish(f)>>
      BY <1>2
    <2>2. Tail(c) \in TaskCodes(f) /\ Tail(c) # <<TT!ReadLocal, TT!Work, TT!Finish(f)>>
      BY <2>1 DEF TaskCodes
    <2> QED
      BY <2>1, <2>2, OpNames
  <1>3. CASE c = <<TT!ReadLocal, TT!Work, TT!Finish(f)>>
    <2>1. Head(c) = TT!ReadLocal /\ Tail(c) = <<TT!Work, TT!Finish(f)>>
      BY <1>3
    <2>2. <<TT!Work, TT!Finish(f)>> # <<TT!ReadLocal, TT!Work, TT!Finish(f)>>
      OBVIOUS
    <2>3. Tail(c) \in TaskCodes(f) /\ Tail(c) # <<TT!ReadLocal, TT!Work, TT!Finish(f)>>
      BY <2>1, <2>2 DEF TaskCodes
    <2> QED
      BY <1>3, <2>1, <2>3, OpNames
  <1> QED
    BY <1>1, <1>2, <1>3 DEF TaskCodes

-----------------------------------------------------------------------------
(* The steps of the threads.                                               *)

\* What a step of a thread t that is not main does to t, and to the rest.
Moves(t) ==
  /\ program' = program /\ handle' = handle /\ inScope' = inScope
  /\ \E c : code' = [code EXCEPT ![t] = c]
\* ... when it works on; ...
Goes(t) ==
  /\ held' = held /\ result' = result
  /\ \A m \in TT!Mutexes : code'[t] \in Critical(m) <=> code[t] \in Critical(m)
  /\ code'[t] \in Reports(Own[t]) <=> code[t] \in Reports(Own[t])
\* ... when it takes the mutex m; ...
Takes(t, m) ==
  /\ held[m] = <<>> /\ code'[t] \in Critical(m)
  /\ held' = [n \in TT!Mutexes |-> IF n = m THEN <<t>> ELSE held[n]]
  /\ \A n \in TT!Mutexes : code[t] \notin Critical(n)
  /\ code[t] \notin Reports(Own[t]) /\ code'[t] \notin Reports(Own[t])
  /\ result' = result
\* ... when it gives m back; ...
Gives(t, m) ==
  /\ held[m] = <<t>> /\ code[t] \in Critical(m)
  /\ held' = [n \in TT!Mutexes |-> IF n = m THEN <<>> ELSE held[n]]
  /\ \A n \in TT!Mutexes : code'[t] \notin Critical(n)
  /\ code[t] \notin Reports(Own[t]) /\ code'[t] \notin Reports(Own[t])
  /\ result' = result
\* ... and when it keeps its promise.
Delivers(t) ==
  /\ held' = held /\ code[t] \in Reports(Own[t]) /\ code'[t] \notin Reports(Own[t])
  /\ \A m \in TT!Mutexes : code[t] \notin Critical(m) /\ code'[t] \notin Critical(m)
  /\ result' = [result EXCEPT ![Own[t]] = "ready"]

\* A mutex that a thread without it can take is free.
LEMMA FreeMutex ==
  ASSUME NEW k, NEW d, LocksOK(k, d), NEW t \in TT!Children, NEW m \in TT!Mutexes,
         TT!Free(t, m), code[t] \notin Critical(m)
  PROVE  held[m] = <<>>
  <1> SUFFICES ASSUME held[m] # <<>> PROVE FALSE
    OBVIOUS
  <1>1. Head(held[m]) = t
    BY DEF TT!Free
  <1>2. CASE held[m] = MainHas(m, k, d)
    <2>1. held[m] \in {<<"main">>, <<"main", "main">>}
      BY <1>2 DEF MainHas
    <2>2. Head(held[m]) = "main"
      BY <2>1
    <2> QED
      BY <1>1, <2>2 DEF TT!Children
  <1>3. ASSUME NEW u \in TT!Children, held[m] = <<u>> PROVE FALSE
    <2>1. Head(held[m]) = u
      BY <1>3
    <2>2. code[t] \in Critical(m)
      BY <1>1, <1>3, <2>1 DEF LocksOK
    <2> QED
      BY <2>2
  <1> QED
    BY <1>2, <1>3 DEF LocksOK

\* What a thread takes, it takes alone.
LEMMA TakeFree ==
  ASSUME NEW t, NEW m \in TT!Mutexes, held[m] = <<>>, TT!Take(t, {m})
  PROVE  held' = [n \in TT!Mutexes |-> IF n = m THEN <<t>> ELSE held[n]]
  <1>1. Append(held[m], t) = <<t>>
    OBVIOUS
  <1> QED
    BY <1>1 DEF TT!Take

\* A step of a thread that is about no mutex and no promise.
LEMMA FreeMoves ==
  ASSUME TestTypeOK, NEW t \in TT!Children, code[t] \in Seq(FreeOps), TT!Step(t)
  PROVE  Moves(t) /\ Goes(t) /\ CodeOK(t)'
  <1> DEFINE c == code[t]
  <1>0. t \in TT!Actors /\ c # <<>> /\ t \in DOMAIN code
    BY StepIs DEF TT!Actors, TestTypeOK
  <1>1. /\ Tail(c) \in Seq(FreeOps)
        /\ Head(c).op \in {"work", "job", "forever", "ready", "while"}
        /\ Head(c).op = "while" => Head(c).body \o c \in Seq(FreeOps)
    BY <1>0, FreeSteps
  <1>2. TT!DoWork(t) \/ TT!DoReady(t) \/ TT!DoWhile(t)
    BY <1>0, <1>1, StepIs DEF Names
  <1>3. /\ Moves(t) /\ code'[t] \in Seq(FreeOps) /\ held' = held /\ result' = result
    <2>1. CASE TT!DoWork(t) \/ TT!DoReady(t)
      <3>1. code' = [code EXCEPT ![t] = Tail(c)]
        BY <2>1 DEF TT!DoWork, TT!DoReady, TT!GoOn
      <3> QED
        BY <1>0, <1>1, <2>1, <3>1 DEF TT!DoWork, TT!DoReady, Moves
    <2>2. CASE TT!DoWhile(t)
      <3>1. Head(c).op = "while"
        BY <2>2 DEF TT!DoWhile, TT!At
      <3>2. code' = [code EXCEPT ![t] = IF ready THEN Tail(c) ELSE Head(c).body \o c]
        BY <2>2 DEF TT!DoWhile, TT!This
      <3> QED
        BY <1>0, <1>1, <2>2, <3>1, <3>2 DEF TT!DoWhile, Moves
    <2> QED
      BY <1>2, <2>1, <2>2
  <1>4. FreeOps' = FreeOps
    BY <1>3, Fixed DEF Moves
  <1>5. CodeOK(t)'
    BY <1>3, <1>4 DEF CodeOK
  <1> QED
    BY <1>3, <1>5, Kinds DEF Goes

\* A step of a thread that has not yet locked its mutex.
LEMMA BeforeMoves ==
  ASSUME TestTypeOK, NEW k, NEW d, LocksOK(k, d),
         NEW t \in TT!Children, NEW m \in TT!Mutexes, code[t] \in Before(m), TT!Step(t)
  PROVE  Moves(t) /\ (Goes(t) \/ Takes(t, m)) /\ CodeOK(t)'
  <1> DEFINE c == code[t]
  <1>0. t \in TT!Actors /\ t \in DOMAIN code
    BY DEF TT!Actors, TestTypeOK
  <1>1. /\ \A n \in TT!Mutexes : c \notin Critical(n)
        /\ c \notin Reports(Own[t])
    BY Kinds
  <1>2. TT!Free(t, m) => held[m] = <<>>
    BY <1>1, FreeMutex
  <1>3. CASE Head(c).op = "work" /\ Tail(c) \in Before(m)
    <2>1. TT!DoWork(t)
      BY <1>0, <1>3, StepIs
    <2>2. code' = [code EXCEPT ![t] = Tail(c)]
      BY <2>1 DEF TT!DoWork, TT!GoOn
    <2>3. Moves(t) /\ held' = held /\ result' = result /\ code'[t] \in Before(m)
      BY <1>0, <1>3, <2>1, <2>2 DEF TT!DoWork, Moves
    <2> QED
      BY <1>1, <2>3, Kinds DEF Goes, CodeOK
  <1>4. ASSUME Tail(c) \in Critical(m), Head(c).op = "lock", Head(c).mutexes = {m}
        PROVE  Moves(t) /\ Takes(t, m) /\ CodeOK(t)'
    <2>1. TT!DoLock(t)
      BY <1>0, <1>4, StepIs
    <2>2. code' = [code EXCEPT ![t] = Tail(c)]
      BY <2>1 DEF TT!DoLock, TT!GoOn
    <2>3. held[m] = <<>> /\ TT!Take(t, {m})
      BY <1>2, <1>4, <2>1 DEF TT!DoLock, TT!This
    <2>4. Moves(t) /\ result' = result /\ code'[t] \in Critical(m)
      BY <1>0, <1>4, <2>1, <2>2 DEF TT!DoLock, Moves
    <2> QED
      BY <1>1, <2>3, <2>4, Kinds, TakeFree DEF Takes, CodeOK
  <1>5. ASSUME Head(c).op = "try", Head(c).mutexes = {m}, Tail(c) = <<>>,
               Head(c).yes \o Tail(c) \in Critical(m)
        PROVE  Moves(t) /\ (Goes(t) \/ Takes(t, m)) /\ CodeOK(t)'
    <2>1. TT!DoTry(t)
      BY <1>0, <1>5, StepIs
    <2>2. CASE TT!Free(t, m)
      <3>1. code' = [code EXCEPT ![t] = Head(c).yes \o Tail(c)]
        BY <1>5, <2>1, <2>2 DEF TT!DoTry, TT!This
      <3>2. held[m] = <<>> /\ TT!Take(t, {m})
        BY <1>2, <1>5, <2>1, <2>2 DEF TT!DoTry, TT!This
      <3>3. Moves(t) /\ result' = result /\ code'[t] \in Critical(m)
        BY <1>0, <1>5, <2>1, <3>1 DEF TT!DoTry, Moves
      <3> QED
        BY <1>1, <3>2, <3>3, Kinds, TakeFree DEF Takes, CodeOK
    <2>3. CASE ~ TT!Free(t, m)
      <3>1. code' = [code EXCEPT ![t] = Tail(c)] /\ held' = held
        BY <1>5, <2>1, <2>3 DEF TT!DoTry, TT!This, TT!GoOn
      <3>2. Moves(t) /\ result' = result /\ code'[t] = <<>>
        BY <1>0, <1>5, <2>1, <3>1 DEF TT!DoTry, Moves
      <3>3. CodeOK(t)'
        BY <3>2 DEF CodeOK
      <3>4. /\ \A n \in TT!Mutexes : code'[t] \notin Critical(n)
            /\ code'[t] \notin Reports(Own[t])
        BY <3>2, Kinds
      <3> QED
        BY <1>1, <3>1, <3>2, <3>3, <3>4 DEF Goes
    <2> QED
      BY <2>2, <2>3
  <1> QED
    BY <1>3, <1>4, <1>5, BeforeSteps

\* A step of a thread that has its mutex.
LEMMA CriticalMoves ==
  ASSUME TestTypeOK, NEW t \in TT!Children, NEW m \in TT!Mutexes,
         code[t] \in Critical(m), held[m] = <<t>>, TT!Step(t)
  PROVE  Moves(t) /\ (Goes(t) \/ Gives(t, m)) /\ CodeOK(t)'
  <1> DEFINE c == code[t]
  <1>0. t \in TT!Actors /\ t \in DOMAIN code
    BY DEF TT!Actors, TestTypeOK
  <1>1. c \notin Reports(Own[t])
    BY Kinds
  <1>2. ASSUME Moves(t), held' = held, result' = result, code'[t] \in Critical(m)
        PROVE  Goes(t) /\ CodeOK(t)'
    BY <1>1, <1>2, Kinds DEF Goes, CodeOK
  <1>3. CASE Head(c).op \in {"work", "ready"} /\ Tail(c) \in Critical(m)
    <2>1. TT!DoWork(t) \/ TT!DoReady(t)
      BY <1>0, <1>3, StepIs
    <2>2. code' = [code EXCEPT ![t] = Tail(c)]
      BY <2>1 DEF TT!DoWork, TT!DoReady, TT!GoOn
    <2>3. Moves(t) /\ held' = held /\ result' = result /\ code'[t] \in Critical(m)
      BY <1>0, <1>3, <2>1, <2>2 DEF TT!DoWork, TT!DoReady, Moves
    <2> QED
      BY <1>2, <2>3
  <1>4. CASE Head(c).op = "while" /\ Tail(c) \in Critical(m) /\ Head(c).body \o c \in Critical(m)
    <2>1. TT!DoWhile(t)
      BY <1>0, <1>4, StepIs
    <2>2. code' = [code EXCEPT ![t] = IF ready THEN Tail(c) ELSE Head(c).body \o c]
      BY <2>1 DEF TT!DoWhile, TT!This
    <2>3. Moves(t) /\ held' = held /\ result' = result /\ code'[t] \in Critical(m)
      BY <1>0, <1>4, <2>1, <2>2 DEF TT!DoWhile, Moves
    <2> QED
      BY <1>2, <2>3
  <1>5. ASSUME Head(c).op = "unlock", Head(c).mutexes = {m},
               Tail(c) \in Seq(FreeOps) \/ Tail(c) \in Before(m)
        PROVE  Moves(t) /\ Gives(t, m) /\ CodeOK(t)'
    <2>1. TT!DoUnlock(t)
      BY <1>0, <1>5, StepIs
    <2>2. code' = [code EXCEPT ![t] = Tail(c)]
      BY <2>1 DEF TT!DoUnlock, TT!GoOn
    <2>3. Tail(held[m]) = <<>>
      OBVIOUS
    <2>4. held' = [n \in TT!Mutexes |-> IF n = m THEN <<>> ELSE held[n]]
      BY <1>5, <2>1, <2>3 DEF TT!DoUnlock, TT!This
    <2>5. Moves(t) /\ result' = result /\ code'[t] = Tail(c)
      BY <1>0, <2>1, <2>2 DEF TT!DoUnlock, Moves
    <2>6. FreeOps' = FreeOps
      BY <2>5, Fixed DEF Moves
    <2>7. CodeOK(t)'
      BY <1>5, <2>5, <2>6 DEF CodeOK
    <2>8. /\ \A n \in TT!Mutexes : code'[t] \notin Critical(n)
          /\ code'[t] \notin Reports(Own[t])
      BY <1>5, <2>5, Kinds
    <2> QED
      BY <1>1, <2>4, <2>5, <2>7, <2>8 DEF Gives
  <1> QED
    BY <1>3, <1>4, <1>5, CriticalSteps

\* A step of a thread that has a promise to keep.
LEMMA ReportMoves ==
  ASSUME TestTypeOK, NEW t \in TT!Children, code[t] \in Reports(Own[t]), TT!Step(t)
  PROVE  Moves(t) /\ (Goes(t) \/ Delivers(t)) /\ CodeOK(t)'
  <1> DEFINE c == code[t]
  <1>0. t \in TT!Actors /\ t \in DOMAIN code
    BY DEF TT!Actors, TestTypeOK
  <1>1. \A m \in TT!Mutexes : c \notin Critical(m)
    BY Kinds
  <1>2. CASE Head(c).op \in {"work", "read"} /\ Tail(c) \in Reports(Own[t])
    <2>1. TT!DoWork(t)
      BY <1>0, <1>2, StepIs
    <2>2. code' = [code EXCEPT ![t] = Tail(c)]
      BY <2>1 DEF TT!DoWork, TT!GoOn
    <2>3. Moves(t) /\ held' = held /\ result' = result /\ code'[t] \in Reports(Own[t])
      BY <1>0, <1>2, <2>1, <2>2 DEF TT!DoWork, Moves
    <2> QED
      BY <1>1, <2>3, Kinds DEF Goes, CodeOK
  <1>3. CASE Head(c).op = "set" /\ Head(c).on = Own[t] /\ Tail(c) = <<>>
    <2>1. TT!DoFinish(t)
      BY <1>0, <1>3, StepIs
    <2>2. code' = [code EXCEPT ![t] = Tail(c)] /\ result' = [result EXCEPT ![Own[t]] = "ready"]
      BY <1>3, <2>1 DEF TT!DoFinish, TT!GoOn, TT!This
    <2>3. Moves(t) /\ held' = held /\ code'[t] = <<>>
      BY <1>0, <1>3, <2>1, <2>2 DEF TT!DoFinish, Moves
    <2>4. CodeOK(t)'
      BY <2>3 DEF CodeOK
    <2>5. /\ \A n \in TT!Mutexes : code'[t] \notin Critical(n)
          /\ code'[t] \notin Reports(Own[t])
      BY <2>3, Kinds
    <2> QED
      BY <1>1, <2>2, <2>3, <2>4, <2>5 DEF Delivers
  <1> QED
    BY <1>2, <1>3, ReportSteps

\* A step of a thread that is not main.
LEMMA ThreadMoves ==
  ASSUME TestTypeOK, NEW k, NEW d, LocksOK(k, d), NEW t \in TT!Children, CodeOK(t), TT!Step(t)
  PROVE  /\ Moves(t) /\ CodeOK(t)'
         /\ \/ Goes(t) \/ Delivers(t)
            \/ \E m \in TT!Mutexes : Takes(t, m) \/ Gives(t, m)
  <1>1. CASE code[t] \in Seq(FreeOps)
    BY <1>1, FreeMoves
  <1>2. ASSUME NEW m \in TT!Mutexes, code[t] \in Before(m)
        PROVE  Moves(t) /\ CodeOK(t)' /\ (Goes(t) \/ Takes(t, m))
    BY <1>2, BeforeMoves
  <1>3. ASSUME NEW m \in TT!Mutexes, code[t] \in Critical(m)
        PROVE  Moves(t) /\ CodeOK(t)' /\ (Goes(t) \/ Gives(t, m))
    <2>1. held[m] = <<t>>
      BY <1>3 DEF LocksOK
    <2> QED
      BY <1>3, <2>1, CriticalMoves
  <1>4. CASE code[t] \in Reports(Own[t])
    BY <1>4, ReportMoves
  <1> QED
    BY <1>1, <1>2, <1>3, <1>4 DEF CodeOK

-----------------------------------------------------------------------------
(* They keep the invariant.                                                *)

\* What was created before k is not created again.
LEMMA Once ==
  ASSUME NEW k \in 1..(Len(Whole) + 1), NEW op \in Creates, NEW x, Done(Whole, k, op, x),
         NEW j \in 1..Len(Whole), Whole[j].op \in Creates, Whole[j].on = x
  PROVE  j < k /\ Whole[j].op = op
  <1>1. CreatedOnce(Whole)
    BY WholeWell DEF WellFormed
  <1>2. PICK i \in 1..(k - 1) : Whole[i].op = op /\ Whole[i].on = x
    BY DEF Done
  <1>3. i \in 1..Len(Whole)
    BY WholeSeq
  <1>4. i = j
    BY <1>1, <1>2, <1>3 DEF CreatedOnce, Creates
  <1> QED
    BY <1>2, <1>4

\* Each thread that is not main keeps the promise of one task at most.
LEMMA OwnTasks ==
  \A t \in TT!Children : /\ Own[t] \in TT!Tasks
                         /\ \A u \in TT!Children : Own[u] = Own[t] => u = t
  BY DEF Own, TT!Children, TT!Tasks

\* A step of a std::thread keeps the invariant, with main where it is.
LEMMA ThreadStep ==
  ASSUME TestTypeOK, NEW k \in 1..(Len(Whole) + 1), NEW d \in Detours(k), StateOK(k, d),
         NEW t \in TT!Children, TT!Step(t)
  PROVE  TestTypeOK' /\ d \in Detours(k)' /\ StateOK(k, d)'
  <1>0. PositionOK(k, d) /\ LocksOK(k, d) /\ ThreadOK(k, t) /\ t \in TT!Actors
    BY DEF StateOK, TT!Actors
  <1>1. /\ Moves(t) /\ CodeOK(t)'
        /\ \/ Goes(t) \/ Delivers(t)
           \/ \E m \in TT!Mutexes : Takes(t, m) \/ Gives(t, m)
    BY <1>0, ThreadMoves DEF ThreadOK
  <1>2. program' = program /\ handle' = handle /\ inScope' = inScope
    BY <1>1 DEF Moves
  <1>3. Whole' = Whole /\ Detours(k)' = Detours(k) /\ \A m : MainHas(m, k, d)' = MainHas(m, k, d)
    BY <1>2, Fixed
  <1>4. /\ DOMAIN code' = TT!Actors /\ code' = [a \in TT!Actors |-> code'[a]]
        /\ \A a \in TT!Actors : a # t => code'[a] = code[a]
    BY <1>1 DEF Moves, TestTypeOK
  <1>5. result' = result \/ result' = [result EXCEPT ![Own[t]] = "ready"]
    BY <1>1 DEF Goes, Takes, Gives, Delivers
  <1>6. /\ result' \in [TT!Tasks -> {"none", "deferred", "pending", "ready", "taken"}]
        /\ \A f \in TT!Tasks : result'[f] = result[f] \/ (f = Own[t] /\ result'[f] = "ready")
    BY <1>5, OwnTasks DEF TestTypeOK
  <1>7. DOMAIN held' = TT!Mutexes /\ held' = [m \in TT!Mutexes |-> held'[m]]
    BY <1>1 DEF Goes, Takes, Gives, Delivers, TestTypeOK
  <1>8. TestTypeOK'
    BY <1>2, <1>4, <1>6, <1>7 DEF TestTypeOK
  <1>9. "main" \in TT!Actors /\ "main" # t
        /\ \A u \in TT!Children : u \in TT!Actors
        /\ \A f \in TT!Tasks : f \in TT!Actors /\ f # t
    BY DEF TT!Actors, TT!Children, TT!Tasks
  <1>10. PositionOK(k, d)'
    BY <1>0, <1>2, <1>3, <1>4, <1>9 DEF PositionOK
  <1>11. LocksOK(k, d)'
    <2> SUFFICES ASSUME NEW m \in TT!Mutexes
                 PROVE  /\ \/ held'[m] = MainHas(m, k, d)
                           \/ /\ MainHas(m, k, d) = <<>>
                              /\ \E u \in TT!Children : held'[m] = <<u>>
                        /\ \A u \in TT!Children : code'[u] \in Critical(m) <=> held'[m] = <<u>>
      BY <1>3 DEF LocksOK
    <2>1. /\ \/ held[m] = MainHas(m, k, d)
             \/ MainHas(m, k, d) = <<>> /\ \E u \in TT!Children : held[m] = <<u>>
          /\ \A u \in TT!Children : code[u] \in Critical(m) <=> held[m] = <<u>>
      BY <1>0 DEF LocksOK
    <2>2. \A u \in TT!Children : u # t => code'[u] = code[u]
      BY <1>4, <1>9
    <2>3. CASE Goes(t) \/ Delivers(t)
      BY <2>1, <2>2, <2>3 DEF Goes, Delivers
    <2>4. ASSUME NEW n \in TT!Mutexes, Takes(t, n), m # n PROVE held'[m] = held[m] /\ code'[t] \notin Critical(m)
      BY <2>4, Kinds DEF Takes
    <2>5. ASSUME NEW n \in TT!Mutexes, Gives(t, n), m # n PROVE held'[m] = held[m] /\ code[t] \notin Critical(m)
      BY <2>5, Kinds DEF Gives
    <2>6. CASE Takes(t, m)
      <3>1. held'[m] = <<t>> /\ held[m] = <<>> /\ code'[t] \in Critical(m)
        BY <2>6 DEF Takes
      <3>2. MainHas(m, k, d) = <<>>
        BY <2>1, <3>1
      <3>3. \A u \in TT!Children : u # t => held[m] # <<u>> /\ <<u>> # <<t>>
        BY <3>1
      <3> QED
        BY <2>1, <2>2, <3>1, <3>2, <3>3
    <2>7. CASE Gives(t, m)
      <3>1. held'[m] = <<>> /\ held[m] = <<t>> /\ code'[t] \notin Critical(m)
        BY <2>7 DEF Gives
      <3>2. MainHas(m, k, d) = <<>>
        <4>1. MainHas(m, k, d) # <<t>>
          BY <1>9 DEF MainHas
        <4> QED
          BY <2>1, <3>1, <4>1
      <3>3. \A u \in TT!Children : <<u>> # <<>> /\ (u # t => <<u>> # <<t>>)
        OBVIOUS
      <3> QED
        BY <2>1, <2>2, <3>1, <3>2, <3>3
    <2>8. CASE \E n \in TT!Mutexes : n # m /\ Takes(t, n)
      <3>1. held'[m] = held[m] /\ code'[t] \notin Critical(m) /\ code[t] \notin Critical(m)
        BY <2>8, <2>4 DEF Takes
      <3> QED
        BY <2>1, <2>2, <3>1
    <2>9. CASE \E n \in TT!Mutexes : n # m /\ Gives(t, n)
      <3>1. held'[m] = held[m] /\ code'[t] \notin Critical(m) /\ code[t] \notin Critical(m)
        BY <2>9, <2>5 DEF Gives
      <3> QED
        BY <2>1, <2>2, <3>1
    <2> QED
      BY <1>1, <2>3, <2>6, <2>7, <2>8, <2>9
  <1>12. ASSUME NEW u \in TT!Children PROVE ThreadOK(k, u)'
    <2>0. ThreadOK(k, u)
      BY DEF StateOK
    <2>1. CASE u # t
      <3>1. code'[u] = code[u] /\ result'[Own[u]] = result[Own[u]] /\ FreeOps' = FreeOps
        BY <1>2, <1>4, <1>6, <1>9, <2>1, OwnTasks, Fixed
      <3>2. CodeOK(u)'
        BY <2>0, <3>1 DEF ThreadOK, CodeOK
      <3> QED
        BY <1>2, <1>3, <2>0, <3>1, <3>2 DEF ThreadOK, Done, Todo, Reporting
    <2>2. CASE u = t
      <3>1. Done(Whole, k, "start", t)
        BY <1>0, StepIs DEF ThreadOK
      <3>2. ASSUME NEW j \in 1..Len(Whole), Whole[j].op = "start", Whole[j].on = t PROVE ~ k <= j
        <4>1. j < k
          BY <3>1, <3>2, Once DEF Creates
        <4> QED
          BY <4>1
      <3>3. \/ /\ code'[t] \in Reports(Own[t]) /\ code[t] \in Reports(Own[t])
               /\ result'[Own[t]] = result[Own[t]]
            \/ code'[t] \notin Reports(Own[t])
        BY <1>1 DEF Goes, Takes, Gives, Delivers
      <3>4. handle'[t] = handle[t] /\ CodeOK(t)'
        BY <1>1, <1>2
      <3> QED
        BY <1>0, <1>3, <2>2, <3>1, <3>2, <3>3, <3>4 DEF ThreadOK, Done, Todo, Reporting
    <2> QED
      BY <2>1, <2>2
  <1>13. ASSUME NEW f \in TT!Tasks PROVE TaskOK(k, f)'
    <2>0. TaskOK(k, f)
      BY DEF StateOK
    <2>1. code'[f] = code[f]
      BY <1>4, <1>9
    <2> QED
      BY <1>3, <1>6, <2>0, <2>1 DEF TaskOK, Done
  <1> QED
    BY <1>3, <1>8, <1>10, <1>11, <1>12, <1>13 DEF StateOK

\* A step of a task that has a thread of its own keeps it, too.
LEMMA TaskStep ==
  ASSUME TestTypeOK, NEW k \in 1..(Len(Whole) + 1), NEW d \in Detours(k), StateOK(k, d),
         NEW g \in TT!Tasks, TT!Step(g)
  PROVE  TestTypeOK' /\ d \in Detours(k)' /\ StateOK(k, d)'
  <1> DEFINE c == code[g]
  <1>0. g \in TT!Actors /\ TaskOK(k, g) /\ c \in TaskCodes(g) /\ c # <<>>
    BY StepIs DEF StateOK, TT!Actors, TaskOK
  <1>1. /\ Tail(c) \in TaskCodes(g) /\ Tail(c) # <<TT!ReadLocal, TT!Work, TT!Finish(g)>>
        /\ \/ Head(c).op = "work"
           \/ Head(c).op = "finish" /\ Head(c).on = g
           \/ Head(c).op = "read"
    BY <1>0, TaskSteps
  <1>2. TT!DoWork(g) \/ (TT!DoFinish(g) /\ Head(c).on = g)
    BY <1>0, <1>1, StepIs
  <1>3. /\ program' = program /\ handle' = handle /\ inScope' = inScope /\ held' = held
        /\ code' = [code EXCEPT ![g] = Tail(c)]
        /\ result' = result \/ result' = [result EXCEPT ![g] = "ready"]
    BY <1>2 DEF TT!DoWork, TT!DoFinish, TT!GoOn, TT!This
  <1>4. Whole' = Whole /\ Detours(k)' = Detours(k) /\ (\A m : MainHas(m, k, d)' = MainHas(m, k, d)) /\ FreeOps' = FreeOps
    BY <1>3, Fixed
  <1>5. /\ DOMAIN code' = TT!Actors /\ code' = [a \in TT!Actors |-> code'[a]]
        /\ code'[g] = Tail(c) /\ \A a \in TT!Actors : a # g => code'[a] = code[a]
    BY <1>0, <1>3 DEF TestTypeOK
  <1>6. /\ result' \in [TT!Tasks -> {"none", "deferred", "pending", "ready", "taken"}]
        /\ \A f \in TT!Tasks : result'[f] = result[f] \/ (f = g /\ result'[f] = "ready")
    BY <1>3 DEF TestTypeOK
  <1>7. TestTypeOK'
    BY <1>3, <1>5, <1>6 DEF TestTypeOK
  <1>8. "main" \in TT!Actors /\ "main" # g
        /\ (\A u \in TT!Children : u \in TT!Actors /\ u # g)
        /\ \A f \in TT!Tasks : f \in TT!Actors
    BY DEF TT!Actors, TT!Children, TT!Tasks
  <1>9. PositionOK(k, d)'
    BY <1>3, <1>4, <1>5, <1>8 DEF PositionOK, StateOK
  <1>10. LocksOK(k, d)'
    BY <1>3, <1>4, <1>5, <1>8 DEF LocksOK, StateOK
  <1>11. Done(Whole, k, "async", g)
    BY <1>0 DEF TaskOK
  <1>12. ASSUME NEW u \in TT!Children PROVE ThreadOK(k, u)'
    <2>0. ThreadOK(k, u) /\ code'[u] = code[u] /\ handle'[u] = handle[u]
      BY <1>3, <1>5, <1>8 DEF StateOK
    <2>1. CodeOK(u)'
      BY <1>4, <2>0 DEF ThreadOK, CodeOK
    <2>2. CASE Own[u] # g
      <3>1. result'[Own[u]] = result[Own[u]]
        BY <1>6, <2>2, OwnTasks
      <3> QED
        BY <1>4, <2>0, <2>1, <3>1 DEF ThreadOK, Done, Todo, Reporting
    <2>3. CASE Own[u] = g
      <3>1. ~ Done(Whole, k, "promise", Own[u])
        <4> SUFFICES ASSUME Done(Whole, k, "promise", g) PROVE FALSE
          BY <2>3
        <4>1. PICK i \in 1..(k - 1) : Whole[i].op = "promise" /\ Whole[i].on = g
          BY DEF Done
        <4>2. i \in 1..Len(Whole)
          BY WholeSeq
        <4> QED
          BY <1>11, <4>1, <4>2, Once DEF Creates
      <3> QED
        BY <1>4, <2>0, <2>1, <3>1 DEF ThreadOK, Done, Todo, Reporting
    <2> QED
      BY <2>2, <2>3
  <1>13. ASSUME NEW f \in TT!Tasks PROVE TaskOK(k, f)'
    <2>0. TaskOK(k, f)
      BY DEF StateOK
    <2>1. CASE f # g
      <3>1. code'[f] = code[f] /\ result'[f] = result[f]
        BY <1>5, <1>6, <1>8, <2>1
      <3> QED
        BY <1>4, <2>0, <3>1 DEF TaskOK, Done
    <2>2. CASE f = g
      <3>1. code'[f] \in TaskCodes(f) /\ code'[f] # <<TT!ReadLocal, TT!Work, TT!Finish(f)>>
        BY <1>1, <1>5, <2>2
      <3> QED
        BY <1>4, <1>6, <1>11, <2>0, <2>2, <3>1 DEF TaskOK, Done
    <2> QED
      BY <2>1, <2>2
  <1> QED
    BY <1>4, <1>7, <1>9, <1>10, <1>12, <1>13 DEF StateOK

-----------------------------------------------------------------------------
(* The functions that lock in main.                                        *)

\* The test functions that lock mutexes in main, operation by operation.
LEMMA LockCode ==
  /\ program = "TestRecursiveMutex" =>
       /\ Len(Whole) = 5
       /\ Whole[1] = TT!Lock({"r_mutex"}) /\ Whole[2] = TT!Lock({"r_mutex"})
       /\ Whole[3] = TT!Unlock({"r_mutex"}) /\ Whole[4] = TT!Unlock({"r_mutex"})
       /\ Whole[5] = TT!Return
  /\ program = "TestTryLockAndLockFor" =>
       /\ Len(Whole) = 9
       /\ Whole[1] = TT!Lock({"mutex"}) /\ Whole[2] = TT!Try({"mutex"}, <<TT!Work>>)
       /\ Whole[3] = TT!Unlock({"mutex"})
       /\ Whole[4] = TT!Try({"mutex"}, <<TT!Unlock({"mutex"}), TT!Work>>)
       /\ Whole[5].op = "start" /\ Whole[6].op = "start"
       /\ Whole[7].op = "join" /\ Whole[8].op = "join" /\ Whole[9].op = "return"
  /\ program = "TestMultiMutex" =>
       /\ Len(Whole) = 5
       /\ Whole[1] = TT!Lock({"m1", "m2"})
       /\ Whole[2] = TT!Unlock({"m1"}) /\ Whole[3] = TT!Unlock({"m2"})
       /\ Whole[4] = TT!Try({"m1", "m2"}, <<TT!Unlock({"m1"}), TT!Unlock({"m2"})>>)
       /\ Whole[5] = TT!Return
  <1>1. ASSUME program = "TestRecursiveMutex"
        PROVE  /\ Len(Whole) = 5
               /\ Whole[1] = TT!Lock({"r_mutex"}) /\ Whole[2] = TT!Lock({"r_mutex"})
               /\ Whole[3] = TT!Unlock({"r_mutex"}) /\ Whole[4] = TT!Unlock({"r_mutex"})
               /\ Whole[5] = TT!Return
    <2>1. Whole = TT!TestRecursiveMutex
      BY <1>1 DEF Whole, TT!Code
    <2>2. Whole = <<TT!Lock({"r_mutex"}), TT!Lock({"r_mutex"}), TT!Unlock({"r_mutex"}),
                    TT!Unlock({"r_mutex"}), TT!Return>>
      BY <2>1, RecursiveCode
    <2> QED
      BY <2>2
  <1>2. ASSUME program = "TestTryLockAndLockFor"
        PROVE  /\ Len(Whole) = 9
               /\ Whole[1] = TT!Lock({"mutex"}) /\ Whole[2] = TT!Try({"mutex"}, <<TT!Work>>)
               /\ Whole[3] = TT!Unlock({"mutex"})
               /\ Whole[4] = TT!Try({"mutex"}, <<TT!Unlock({"mutex"}), TT!Work>>)
               /\ Whole[5].op = "start" /\ Whole[6].op = "start"
               /\ Whole[7].op = "join" /\ Whole[8].op = "join" /\ Whole[9].op = "return"
    <2>1. Whole = TT!TestTryLockAndLockFor
      BY <1>2 DEF Whole, TT!Code
    <2>2. /\ Len(Whole) = 9
          /\ Whole[1] = TT!Lock({"mutex"}) /\ Whole[2] = TT!Try({"mutex"}, <<TT!Work>>)
          /\ Whole[3] = TT!Unlock({"mutex"})
          /\ Whole[4] = TT!Try({"mutex"}, <<TT!Unlock({"mutex"}), TT!Work>>)
      BY <2>1 DEF TT!TestTryLockAndLockFor
    <2>3. /\ Whole[5].op = "start" /\ Whole[6].op = "start"
          /\ Whole[7].op = "join" /\ Whole[8].op = "join" /\ Whole[9].op = "return"
      BY <2>1 DEF TT!TestTryLockAndLockFor, TT!Start, TT!Join, TT!Return, TT!On
    <2> QED
      BY <2>2, <2>3
  <1>3. ASSUME program = "TestMultiMutex"
        PROVE  /\ Len(Whole) = 5
               /\ Whole[1] = TT!Lock({"m1", "m2"})
               /\ Whole[2] = TT!Unlock({"m1"}) /\ Whole[3] = TT!Unlock({"m2"})
               /\ Whole[4] = TT!Try({"m1", "m2"}, <<TT!Unlock({"m1"}), TT!Unlock({"m2"})>>)
               /\ Whole[5] = TT!Return
    <2>1. Whole = TT!TestMultiMutex
      BY <1>3 DEF Whole, TT!Code
    <2> QED
      BY <2>1 DEF TT!TestMultiMutex
  <1> QED
    BY <1>1, <1>2, <1>3

\* What begins with another operation is not a detour that unlocks.
LEMMA NotUnlock ==
  ASSUME NEW d, d = <<>> \/ d[1].op # "unlock"
  PROVE  /\ d # <<TT!Unlock({"mutex"}), TT!Work>>
         /\ d # <<TT!Unlock({"m1"}), TT!Unlock({"m2"})>> /\ d # <<TT!Unlock({"m2"})>>
  <1>1. ASSUME NEW n, NEW o, d = <<TT!Unlock({n}), o>> PROVE FALSE
    <2>1. d # <<>> /\ d[1] = TT!Unlock({n})
      BY <1>1
    <2> QED
      BY <2>1, OpNames
  <1>2. ASSUME NEW n, d = <<TT!Unlock({n})>> PROVE FALSE
    <2>1. d # <<>> /\ d[1] = TT!Unlock({n})
      BY <1>2
    <2> QED
      BY <2>1, OpNames
  <1> QED
    BY <1>1, <1>2

\* At another operation main has no mutex.
LEMMA HasNothing ==
  ASSUME NEW k \in 1..Len(Whole), Whole[k].op \notin {"lock", "unlock", "try"}, NEW m, NEW d,
         d = <<>> \/ d[1].op # "unlock"
  PROVE  MainHas(m, k, d) = <<>> /\ MainHas(m, k + 1, <<>>) = <<>>
  <1>1. program \in LockPrograms => k >= 5
    <2>1. CASE program = "TestRecursiveMutex"
      BY <2>1, LockCode, OpNames
    <2>2. CASE program = "TestTryLockAndLockFor"
      <3>1. /\ Whole[1].op = "lock" /\ Whole[2].op = "try" /\ Whole[3].op = "unlock" /\ Whole[4].op = "try"
        BY <2>2, LockCode, OpNames DEF TT!Try
      <3> QED
        BY <2>2, <3>1, LockCode
    <2>3. CASE program = "TestMultiMutex"
      <3>1. /\ Whole[1].op = "lock" /\ Whole[2].op = "unlock" /\ Whole[3].op = "unlock" /\ Whole[4].op = "try"
        BY <2>3, LockCode, OpNames DEF TT!Try
      <3> QED
        BY <2>3, <3>1, LockCode
    <2> QED
      BY <2>1, <2>2, <2>3 DEF LockPrograms
  <1>2. /\ d # <<TT!Unlock({"mutex"}), TT!Work>>
        /\ d # <<TT!Unlock({"m1"}), TT!Unlock({"m2"})>> /\ d # <<TT!Unlock({"m2"})>>
    BY NotUnlock
  <1>3. /\ <<>> # <<TT!Unlock({"mutex"}), TT!Work>>
        /\ <<>> # <<TT!Unlock({"m1"}), TT!Unlock({"m2"})>> /\ <<>> # <<TT!Unlock({"m2"})>>
    OBVIOUS
  <1>4. /\ k \in Int
        /\ program \in LockPrograms => k \notin {2, 3, 4} /\ k + 1 \notin {2, 3, 4}
    BY <1>1, WholeSeq
  <1> QED
    BY <1>2, <1>3, <1>4 DEF MainHas, LockPrograms

\* The locks after a step of main.
LEMMA LocksStep ==
  ASSUME NEW k, NEW d, LocksOK(k, d), NEW k2, NEW d2, program' = program,
         \A m \in TT!Mutexes : \A u \in TT!Children : code'[u] \in Critical(m) <=> code[u] \in Critical(m),
         \A m \in TT!Mutexes :
           \/ held'[m] = held[m] /\ MainHas(m, k2, d2) = MainHas(m, k, d)
           \/ held[m] = MainHas(m, k, d) /\ held'[m] = MainHas(m, k2, d2)
  PROVE  LocksOK(k2, d2)'
  <1>1. \A m : MainHas(m, k2, d2)' = MainHas(m, k2, d2)
    BY Fixed
  <1>2. \A m, i, e : \A u \in TT!Children : MainHas(m, i, e) # <<u>>
    <2> SUFFICES ASSUME NEW m, NEW i, NEW e, NEW u \in TT!Children PROVE MainHas(m, i, e) # <<u>>
      OBVIOUS
    <2>1. MainHas(m, i, e) \in {<<>>, <<"main">>, <<"main", "main">>}
      BY DEF MainHas
    <2> QED
      BY <2>1 DEF TT!Children
  <1> SUFFICES ASSUME NEW m \in TT!Mutexes
               PROVE  /\ \/ held'[m] = MainHas(m, k2, d2)
                         \/ /\ MainHas(m, k2, d2) = <<>>
                            /\ \E u \in TT!Children : held'[m] = <<u>>
                      /\ \A u \in TT!Children : code'[u] \in Critical(m) <=> held'[m] = <<u>>
    BY <1>1 DEF LocksOK
  <1>3. /\ \/ held[m] = MainHas(m, k, d)
           \/ MainHas(m, k, d) = <<>> /\ \E u \in TT!Children : held[m] = <<u>>
        /\ \A u \in TT!Children : code[u] \in Critical(m) <=> held[m] = <<u>>
    BY DEF LocksOK
  <1>4. \A u \in TT!Children : code'[u] \in Critical(m) <=> code[u] \in Critical(m)
    OBVIOUS
  <1>5. CASE held'[m] = held[m] /\ MainHas(m, k2, d2) = MainHas(m, k, d)
    BY <1>3, <1>4, <1>5
  <1>6. CASE held[m] = MainHas(m, k, d) /\ held'[m] = MainHas(m, k2, d2)
    <2>1. \A u \in TT!Children : code[u] \notin Critical(m)
      BY <1>2, <1>3, <1>6
    <2> QED
      BY <1>2, <1>4, <1>6, <2>1
  <1> QED
    BY <1>5, <1>6

\* The mutexes that main can take.
LEMMA MainFree ==
  ASSUME NEW k, NEW d, LocksOK(k, d), NEW m \in TT!Mutexes, TT!Free("main", m)
  PROVE  held[m] = MainHas(m, k, d) /\ (m # "r_mutex" => held[m] = <<>>)
  <1>1. CASE held[m] = MainHas(m, k, d)
    BY <1>1 DEF TT!Free
  <1>2. ASSUME NEW u \in TT!Children, held[m] = <<u>> PROVE FALSE
    <2>1. held[m] # <<>> /\ Head(held[m]) = u
      BY <1>2
    <2> QED
      BY <2>1 DEF TT!Free, TT!Children
  <1> QED
    BY <1>1, <1>2 DEF LocksOK

-----------------------------------------------------------------------------
(* The steps of main.                                                      *)

\* The thread u is to set its promise: it does so, or it is still to start.
Owes(k, u) ==
  /\ Done(Whole, k, "promise", Own[u])
  /\ \E j \in 1..Len(Whole) :
       /\ Whole[j].op = "start" /\ Whole[j].on = u /\ Reporting(Whole[j])
       /\ k <= j \/ code[u] \in Reports(Own[u])

\* A promise that is still to be set is pending.
LEMMA OwesPending ==
  ASSUME NEW k, NEW u, ThreadOK(k, u), Owes(k, u)
  PROVE  result[Own[u]] = "pending"
  BY DEF ThreadOK, Owes

\* What is done stays done.
LEMMA DoneLater ==
  ASSUME NEW C, NEW i \in Int, NEW k \in Int, i <= k, NEW op, NEW x, Done(C, i, op, x)
  PROVE  Done(C, k, op, x)
  BY DEF Done

\* A thread that comes to its promise is to set it.
LEMMA ReportOwes ==
  ASSUME NEW k \in 1..(Len(Whole) + 1), NEW u \in TT!Children, ThreadOK(k, u), code[u] \in Reports(Own[u])
  PROVE  Owes(k, u)
  <1>1. code[u] # <<>>
    BY Kinds
  <1>2. PICK j \in 1..(k - 1) : Whole[j].op = "start" /\ Whole[j].on = u
    BY <1>1 DEF ThreadOK, Done
  <1>3. j \in 1..Len(Whole) /\ j <= k /\ j \in Int /\ k \in Int
    BY WholeSeq
  <1>4. Reporting(Whole[j])
    BY <1>2, <1>3 DEF ThreadOK
  <1>5. Done(Whole, j, "promise", Own[u])
    BY <1>2, <1>3, <1>4, WholeWell DEF WellFormed, StartsOK
  <1>6. Done(Whole, k, "promise", Own[u])
    BY <1>3, <1>5, DoneLater
  <1> QED
    BY <1>2, <1>3, <1>4, <1>6 DEF Owes

\* A thread that a step of main is not about.
LEMMA ThreadKept ==
  ASSUME NEW k \in 1..(Len(Whole) + 1), NEW k2, NEW u \in TT!Children, ThreadOK(k, u), program' = program,
         code'[u] = code[u], handle'[u] = handle[u],
         result'[Own[u]] \in {result[Own[u]], "pending"} \/ ~ Owes(k, u),
         \/ k2 = k
         \/ /\ k <= Len(Whole) /\ k2 = k + 1
            /\ Whole[k].op \in {"start", "join", "detach"} => Whole[k].on # u
            /\ Whole[k].op = "promise" /\ Whole[k].on = Own[u] => result'[Own[u]] = "pending"
            /\ Whole[k].op = "get" /\ Whole[k].on = Own[u] => code[u] \notin Reports(Own[u])
  PROVE  ThreadOK(k2, u)'
  <1>1. Whole' = Whole /\ FreeOps' = FreeOps
    BY Fixed
  <1>2. CodeOK(u)'
    BY <1>1 DEF ThreadOK, CodeOK
  <1>3. handle[u] = "joinable" => Todo(Whole, k2, "join", u) \/ Todo(Whole, k2, "detach", u)
    BY TodoNext, WholeSeq DEF ThreadOK
  <1>4. code[u] # <<>> => Done(Whole, k2, "start", u)
    BY DoneNext, WholeSeq DEF ThreadOK
  <1>5. code[u] \in Reports(Own[u]) => Todo(Whole, k2, "get", Own[u])
    BY TodoNext, WholeSeq DEF ThreadOK
  <1>6. ASSUME NEW j \in 1..Len(Whole), Whole[j].op = "start", Whole[j].on = u
        PROVE  /\ code[u] \in Reports(Own[u]) => Reporting(Whole[j])
               /\ /\ Reporting(Whole[j])
                  /\ Done(Whole, k2, "promise", Own[u])
                  /\ k2 <= j \/ code[u] \in Reports(Own[u])
                  => result'[Own[u]] = "pending"
    <2>1. code[u] \in Reports(Own[u]) => Reporting(Whole[j])
      BY <1>6 DEF ThreadOK
    <2>2. ASSUME Reporting(Whole[j]), Done(Whole, k2, "promise", Own[u]), k2 <= j \/ code[u] \in Reports(Own[u]),
                 result'[Own[u]] # "pending"
          PROVE  FALSE
      <3>1. k2 <= j => k <= j
        BY WholeSeq
      <3>2. Done(Whole, k, "promise", Own[u])
        BY <2>2, DoneNext, WholeSeq, SMTT(30)
      <3>3. Owes(k, u)
        BY <1>6, <2>2, <3>1, <3>2 DEF Owes
      <3> QED
        BY <2>2, <3>3, OwesPending
    <2> QED
      BY <2>1, <2>2
  <1> QED
    BY <1>1, <1>2, <1>3, <1>4, <1>5, <1>6 DEF ThreadOK, Done, Todo, Reporting

\* A task that a step of main does not start.
LEMMA TaskKept ==
  ASSUME NEW k \in 1..(Len(Whole) + 1), NEW k2, NEW f \in TT!Tasks, TaskOK(k, f), program' = program,
         code'[f] = code[f],
         \/ k2 = k
         \/ /\ k <= Len(Whole) /\ k2 = k + 1
            /\ Whole[k].op \in {"async", "promise"} /\ Whole[k].on = f => result'[f] # "none",
         k <= Len(Whole) => k2 <= Len(Whole) \/ code[f] = <<>> \/ result[f] = "deferred",
         \/ result'[f] \in {result[f], "ready", "pending"}
         \/ result'[f] = "taken" /\ Done(Whole, k2, "get", f)
  PROVE  TaskOK(k2, f)'
  <1>1. Whole' = Whole
    BY Fixed
  <1>2. code[f] # <<>> => Done(Whole, k2, "async", f)
    BY DoneNext, WholeSeq DEF TaskOK
  <1>3. code[f] = <<TT!ReadLocal, TT!Work, TT!Finish(f)>> => result'[f] # "deferred" /\ k2 <= Len(Whole)
    <2>1. <<>> # <<TT!ReadLocal, TT!Work, TT!Finish(f)>>
      OBVIOUS
    <2> QED
      BY <2>1 DEF TaskOK
  <1>4. result'[f] = "none" => ~ Done(Whole, k2, "async", f) /\ ~ Done(Whole, k2, "promise", f)
    BY DoneNext, WholeSeq, SMTT(30) DEF TaskOK
  <1>5. result'[f] = "taken" => Done(Whole, k2, "get", f)
    BY DoneNext, WholeSeq DEF TaskOK
  <1> QED
    BY <1>1, <1>2, <1>3, <1>4, <1>5 DEF TaskOK, Done

\* Main goes on at k2 after d2.
GoesOn(k2, d2) ==
  /\ k2 \in 1..(Len(Whole) + 1) /\ d2 \in Detours(k2)
  /\ code'["main"] = d2 \o SubSeq(Whole, k2, Len(Whole))
  /\ d2 # <<>> => k2 <= Len(Whole)
  /\ inScope' = (k2 <= Len(Whole))

\* With main at k2 and d2, the parts of the invariant make the whole.
LEMMA GoesOnOK ==
  ASSUME program' = program, NEW k2, NEW d2, GoesOn(k2, d2), TestTypeOK', LocksOK(k2, d2)',
         \A u \in TT!Children : ThreadOK(k2, u)',
         \A f \in TT!Tasks : TaskOK(k2, f)'
  PROVE  TestInv'
  <1>1. Whole' = Whole /\ Detours(k2)' = Detours(k2)
    BY Fixed
  <1>2. PositionOK(k2, d2)'
    BY <1>1 DEF GoesOn, PositionOK
  <1>3. StateOK(k2, d2)'
    BY <1>2 DEF StateOK
  <1> QED
    BY <1>1, <1>3 DEF GoesOn, TestInv

\* Main goes from k to its next operation.
LEMMA MainGoesOn ==
  ASSUME NEW k \in 1..Len(Whole), PositionOK(k, <<>>), Whole[k].op # "return", inScope' = inScope,
         code'["main"] = Tail(code["main"]), Tail(code["main"]) = <<>> \o SubSeq(Whole, k + 1, Len(Whole))
  PROVE  GoesOn(k + 1, <<>>) /\ k + 1 <= Len(Whole)
  <1>1. k # Len(Whole)
    BY WholeWell DEF WellFormed, OpsOK
  <1>2. k + 1 \in 1..(Len(Whole) + 1) /\ k + 1 <= Len(Whole) /\ k <= Len(Whole)
    BY <1>1, WholeSeq
  <1>3. <<>> \in Detours(k + 1)
    BY DEF Detours
  <1> QED
    BY <1>2, <1>3 DEF GoesOn, PositionOK

\* What a future can be.
Results == {"none", "deferred", "pending", "ready", "taken"}

\* What a step of main does that is about no other thread: to the threads, ...
OnlyMain ==
  /\ program' = program /\ handle' = handle
  /\ \E c : code' = [code EXCEPT !["main"] = c]
\* ... to the mutexes, ...
LocksGo(k, d, k2, d2) ==
  /\ DOMAIN held' = TT!Mutexes /\ held' = [m \in TT!Mutexes |-> held'[m]]
  /\ \A m \in TT!Mutexes :
       \/ held'[m] = held[m] /\ MainHas(m, k2, d2) = MainHas(m, k, d)
       \/ held[m] = MainHas(m, k, d) /\ held'[m] = MainHas(m, k2, d2)
\* ... to what is left to do, ...
AboutNone(k, k2) ==
  /\ \/ k2 = k
     \/ /\ k <= Len(Whole) /\ k2 = k + 1
        /\ Whole[k].op \notin {"start", "join", "detach", "async"}
        /\ Whole[k].op = "promise" => result'[Whole[k].on] = "pending"
        /\ Whole[k].op = "get" => \A u \in TT!Children :
             Own[u] = Whole[k].on => code[u] \notin Reports(Own[u])
  /\ k <= Len(Whole) => k2 <= Len(Whole) \/ \A f \in TT!Tasks : code[f] = <<>> \/ result[f] = "deferred"
\* ... and to the results.
ResultsGo(k, k2) ==
  /\ result' \in [TT!Tasks -> Results]
  /\ \A u \in TT!Children : result'[Own[u]] \in {result[Own[u]], "pending"} \/ ~ Owes(k, u)
  /\ \A f \in TT!Tasks : \/ result'[f] \in {result[f], "ready", "pending"}
                         \/ result'[f] = "taken" /\ Done(Whole, k2, "get", f)

\* A step of main that starts and ends nothing else keeps the invariant.
LEMMA MainAlone ==
  ASSUME TestTypeOK, NEW k \in 1..(Len(Whole) + 1), NEW d, StateOK(k, d), NEW k2, NEW d2, GoesOn(k2, d2),
         OnlyMain, LocksGo(k, d, k2, d2), AboutNone(k, k2), ResultsGo(k, k2)
  PROVE  TestInv'
  <1>1. /\ DOMAIN code' = TT!Actors /\ code' = [a \in TT!Actors |-> code'[a]]
        /\ \A a \in TT!Actors : a # "main" => code'[a] = code[a]
    BY DEF TestTypeOK, OnlyMain
  <1>2. TestTypeOK'
    BY <1>1 DEF TestTypeOK, Results, OnlyMain, LocksGo, ResultsGo
  <1>3. /\ \A u \in TT!Children : code'[u] = code[u] /\ handle'[u] = handle[u]
        /\ \A f \in TT!Tasks : code'[f] = code[f]
    BY <1>1 DEF TT!Actors, TT!Children, TT!Tasks, OnlyMain
  <1>4. LocksOK(k2, d2)'
    BY <1>3, LocksStep DEF StateOK, OnlyMain, LocksGo
  <1>5. ASSUME NEW u \in TT!Children PROVE ThreadOK(k2, u)'
    <2>1. ThreadOK(k, u) /\ code'[u] = code[u] /\ handle'[u] = handle[u]
      BY <1>3 DEF StateOK
    <2>2. result'[Own[u]] \in {result[Own[u]], "pending"} \/ ~ Owes(k, u)
      BY DEF ResultsGo
    <2>3. \/ k2 = k
          \/ /\ k <= Len(Whole) /\ k2 = k + 1
             /\ Whole[k].op \in {"start", "join", "detach"} => Whole[k].on # u
             /\ Whole[k].op = "promise" /\ Whole[k].on = Own[u] => result'[Own[u]] = "pending"
             /\ Whole[k].op = "get" /\ Whole[k].on = Own[u] => code[u] \notin Reports(Own[u])
      BY DEF AboutNone
    <2> QED
      BY <2>1, <2>2, <2>3, ThreadKept DEF OnlyMain
  <1>6. ASSUME NEW f \in TT!Tasks PROVE TaskOK(k2, f)'
    <2>1. TaskOK(k, f) /\ code'[f] = code[f]
      BY <1>3 DEF StateOK
    <2>2. \/ k2 = k
          \/ /\ k <= Len(Whole) /\ k2 = k + 1
             /\ Whole[k].op \in {"async", "promise"} /\ Whole[k].on = f => result'[f] # "none"
      BY DEF AboutNone
    <2>3. k <= Len(Whole) => k2 <= Len(Whole) \/ code[f] = <<>> \/ result[f] = "deferred"
      BY DEF AboutNone
    <2>4. \/ result'[f] \in {result[f], "ready", "pending"}
          \/ result'[f] = "taken" /\ Done(Whole, k2, "get", f)
      BY DEF ResultsGo
    <2> QED
      BY <2>1, <2>2, <2>3, <2>4, TaskKept DEF OnlyMain
  <1> QED
    BY <1>2, <1>4, <1>5, <1>6, GoesOnOK DEF OnlyMain

\* What is the same in all the lemmas about an operation of the test function.
MainAt(k) ==
  /\ TestTypeOK /\ StateOK(k, <<>>)
  /\ code["main"] # <<>>
  /\ Head(code["main"]) = Whole[k]
  /\ Tail(code["main"]) = <<>> \o SubSeq(Whole, k + 1, Len(Whole))

\* The locks do not change at another operation.
LEMMA NoLockStep ==
  ASSUME NEW k \in 1..Len(Whole), Whole[k].op \notin {"lock", "unlock", "try"}
  PROVE  \A m \in TT!Mutexes : MainHas(m, k + 1, <<>>) = MainHas(m, k, <<>>)
  BY HasNothing

\* Printing, and a wait or a get or a loop of wait_for that finds the result.
LEMMA WorkStep ==
  ASSUME NEW k \in 1..Len(Whole), MainAt(k),
         TT!DoWork("main") \/ TT!DoWait("main")
  PROVE  TestInv'
  <1>1. /\ program' = program /\ handle' = handle /\ held' = held /\ result' = result /\ inScope' = inScope
        /\ code' = [code EXCEPT !["main"] = Tail(code["main"])]
    BY DEF TT!DoWork, TT!DoWait, TT!GoOn
  <1>2. Whole[k].op \in {"work", "job", "read", "wait", "poll"}
    BY DEF TT!DoWork, TT!DoWait, TT!At, MainAt
  <1>3. code'["main"] = Tail(code["main"])
    BY <1>1 DEF MainAt, TestTypeOK, TT!Actors
  <1>4. GoesOn(k + 1, <<>>) /\ k + 1 <= Len(Whole)
    BY <1>1, <1>2, <1>3, MainGoesOn DEF MainAt, StateOK
  <1>5. \A m \in TT!Mutexes : MainHas(m, k + 1, <<>>) = MainHas(m, k, <<>>)
    BY <1>2, NoLockStep
  <1>6. /\ DOMAIN held' = TT!Mutexes /\ held' = [m \in TT!Mutexes |-> held'[m]]
        /\ result' \in [TT!Tasks -> Results] /\ TestTypeOK /\ StateOK(k, <<>>)
    BY <1>1 DEF MainAt, TestTypeOK, Results
  <1>7. k \in 1..(Len(Whole) + 1) /\ k <= Len(Whole)
    BY WholeSeq
  <1>8. OnlyMain
    BY <1>1 DEF OnlyMain
  <1>9. LocksGo(k, <<>>, k + 1, <<>>)
    BY <1>1, <1>5, <1>6 DEF LocksGo
  <1>10. AboutNone(k, k + 1)
    BY <1>2, <1>4, <1>7 DEF AboutNone
  <1>11. ResultsGo(k, k + 1)
    BY <1>1, <1>6 DEF ResultsGo
  <1> QED
    BY <1>4, <1>6, <1>7, <1>8, <1>9, <1>10, <1>11, MainAlone

\* get, when the result is there.
LEMMA GetStep ==
  ASSUME NEW k \in 1..Len(Whole), MainAt(k), TT!DoGet("main")
  PROVE  TestInv'
  <1> DEFINE f == Whole[k].on
  <1>1. /\ program' = program /\ handle' = handle /\ held' = held /\ inScope' = inScope
        /\ code' = [code EXCEPT !["main"] = Tail(code["main"])]
        /\ Whole[k].op = "get" /\ result[f] = "ready" /\ result' = [result EXCEPT ![f] = "taken"]
    BY DEF TT!DoGet, TT!GoOn, TT!At, TT!This, MainAt
  <1>2. f \in TT!Tasks
    BY <1>1, WholeWell DEF WellFormed, OpsOK
  <1>3. code'["main"] = Tail(code["main"])
    BY <1>1 DEF MainAt, TestTypeOK, TT!Actors
  <1>4. GoesOn(k + 1, <<>>) /\ k + 1 <= Len(Whole)
    BY <1>1, <1>3, MainGoesOn DEF MainAt, StateOK
  <1>5. \A m \in TT!Mutexes : MainHas(m, k + 1, <<>>) = MainHas(m, k, <<>>)
    BY <1>1, NoLockStep
  <1>6. /\ DOMAIN held' = TT!Mutexes /\ held' = [m \in TT!Mutexes |-> held'[m]]
        /\ TestTypeOK /\ StateOK(k, <<>>)
    BY <1>1 DEF MainAt, TestTypeOK
  <1>7. k \in 1..(Len(Whole) + 1) /\ k <= Len(Whole)
    BY WholeSeq
  <1>8. /\ result' \in [TT!Tasks -> Results]
        /\ result'[f] = "taken" /\ \A g \in TT!Tasks : g # f => result'[g] = result[g]
    BY <1>1, <1>2, <1>6 DEF TestTypeOK, Results
  <1>9. \A g \in TT!Tasks : result'[g] = result[g] \/ (result'[g] = "taken" /\ Done(Whole, k + 1, "get", g))
    BY <1>1, <1>8, DoneNext
  <1>10. ASSUME NEW u \in TT!Children, Own[u] = f PROVE ~ Owes(k, u) /\ code[u] \notin Reports(Own[u])
    <2>1. ThreadOK(k, u)
      BY <1>6 DEF StateOK
    <2> QED
      BY <1>1, <1>7, <1>10, <2>1, OwesPending, ReportOwes
  <1>11. \A u \in TT!Children : result'[Own[u]] \in {result[Own[u]], "pending"} \/ ~ Owes(k, u)
    BY <1>8, <1>10, OwnTasks
  <1>12. \A u \in TT!Children : Own[u] = Whole[k].on => code[u] \notin Reports(Own[u])
    BY <1>10
  <1>13. OnlyMain
    BY <1>1 DEF OnlyMain
  <1>14. LocksGo(k, <<>>, k + 1, <<>>)
    BY <1>1, <1>5, <1>6 DEF LocksGo
  <1>15. AboutNone(k, k + 1)
    BY <1>1, <1>4, <1>7, <1>12 DEF AboutNone
  <1>16. ResultsGo(k, k + 1)
    BY <1>8, <1>9, <1>11 DEF ResultsGo
  <1> QED
    BY <1>4, <1>6, <1>7, <1>13, <1>14, <1>15, <1>16, MainAlone

\* A promise.
LEMMA PromiseStep ==
  ASSUME NEW k \in 1..Len(Whole), MainAt(k), TT!DoPromise("main")
  PROVE  TestInv'
  <1> DEFINE f == Whole[k].on
  <1>1. /\ program' = program /\ handle' = handle /\ held' = held /\ inScope' = inScope
        /\ code' = [code EXCEPT !["main"] = Tail(code["main"])]
        /\ Whole[k].op = "promise" /\ result' = [result EXCEPT ![f] = "pending"]
    BY DEF TT!DoPromise, TT!GoOn, TT!At, TT!This, MainAt
  <1>2. f \in TT!Tasks
    BY <1>1, WholeWell DEF WellFormed, OpsOK
  <1>3. code'["main"] = Tail(code["main"])
    BY <1>1 DEF MainAt, TestTypeOK, TT!Actors
  <1>4. GoesOn(k + 1, <<>>) /\ k + 1 <= Len(Whole)
    BY <1>1, <1>3, MainGoesOn DEF MainAt, StateOK
  <1>5. \A m \in TT!Mutexes : MainHas(m, k + 1, <<>>) = MainHas(m, k, <<>>)
    BY <1>1, NoLockStep
  <1>6. /\ DOMAIN held' = TT!Mutexes /\ held' = [m \in TT!Mutexes |-> held'[m]]
        /\ TestTypeOK /\ StateOK(k, <<>>)
    BY <1>1 DEF MainAt, TestTypeOK
  <1>7. k \in 1..(Len(Whole) + 1) /\ k <= Len(Whole)
    BY WholeSeq
  <1>8. /\ result' \in [TT!Tasks -> Results] /\ result'[f] = "pending"
        /\ \A g \in TT!Tasks : result'[g] \in {result[g], "pending"}
    BY <1>1, <1>2, <1>6 DEF TestTypeOK, Results
  <1>9. \A u \in TT!Children : result'[Own[u]] \in {result[Own[u]], "pending"}
    BY <1>8, OwnTasks
  <1>10. OnlyMain
    BY <1>1 DEF OnlyMain
  <1>11. LocksGo(k, <<>>, k + 1, <<>>)
    BY <1>1, <1>5, <1>6 DEF LocksGo
  <1>12. AboutNone(k, k + 1)
    BY <1>1, <1>4, <1>7, <1>8 DEF AboutNone
  <1>13. ResultsGo(k, k + 1)
    BY <1>8, <1>9 DEF ResultsGo
  <1> QED
    BY <1>4, <1>6, <1>7, <1>10, <1>11, <1>12, <1>13, MainAlone

\* What Append gives, from its items.
LEMMA AppendTo ==
  ASSUME NEW S, NEW a \in Seq(S), NEW y \in S, NEW c \in Seq(S), Len(c) = Len(a) + 1,
         \A i \in 1..Len(a) : c[i] = a[i], c[Len(a) + 1] = y
  PROVE  Append(a, y) = c
  <1> DEFINE e == Append(a, y)
  <1>1. e \in Seq(S) /\ Len(e) = Len(a) + 1 /\ \A i \in 1..Len(a) : e[i] = a[i]
    BY AppendProperties
  <1>2. e[Len(a) + 1] = y
    BY AppendProperties
  <1>3. Len(a) \in Nat
    OBVIOUS
  <1> HIDE DEF e
  <1>4. \A i \in 1..Len(e) : e[i] = c[i]
    BY <1>1, <1>2, <1>3
  <1>5. e = c
    BY <1>1, <1>4, SeqEqual
  <1> QED
    BY <1>5 DEF e

\* The same for one and two items.
LEMMA Appended ==
  ASSUME NEW x, NEW y, NEW z
  PROVE  Append(<<x>>, y) = <<x, y>> /\ Append(<<x, y>>, z) = <<x, y, z>>
  <1> DEFINE S == {x, y, z}
             a == <<x>>
             b == <<x, y>>
             c == <<x, y, z>>
  <1>0. /\ a \in Seq(S) /\ b \in Seq(S) /\ c \in Seq(S) /\ y \in S /\ z \in S
        /\ Len(a) = 1 /\ Len(b) = 2 /\ Len(c) = 3
        /\ a[1] = x /\ b[1] = x /\ b[2] = y /\ c[1] = x /\ c[2] = y /\ c[3] = z
    OBVIOUS
  <1> HIDE DEF S, a, b, c
  <1>1. Append(a, y) = b
    <2>1. Len(b) = Len(a) + 1 /\ (\A i \in 1..Len(a) : b[i] = a[i]) /\ b[Len(a) + 1] = y
      BY <1>0
    <2> QED
      BY <1>0, <2>1, AppendTo
  <1>2. Append(b, z) = c
    <2>1. Len(c) = Len(b) + 1 /\ (\A i \in 1..Len(b) : c[i] = b[i]) /\ c[Len(b) + 1] = z
      BY <1>0
    <2> QED
      BY <1>0, <2>1, AppendTo
  <1> QED
    BY <1>1, <1>2 DEF a, b, c

\* join, when the thread has ended, and detach.
LEMMA JoinStep ==
  ASSUME NEW k \in 1..Len(Whole), MainAt(k), TT!DoJoin("main") \/ TT!DoDetach("main")
  PROVE  TestInv'
  <1> DEFINE t == Whole[k].on
  <1>1. /\ program' = program /\ held' = held /\ result' = result /\ inScope' = inScope
        /\ code' = [code EXCEPT !["main"] = Tail(code["main"])]
        /\ Whole[k].op \in {"join", "detach"}
        /\ \/ handle' = [handle EXCEPT ![t] = "joined"]
           \/ handle' = [handle EXCEPT ![t] = "detached"]
    BY DEF TT!DoJoin, TT!DoDetach, TT!GoOn, TT!At, TT!This, MainAt
  <1>2. t \in TT!Children
    BY <1>1, WholeWell DEF WellFormed, OpsOK
  <1>3. /\ DOMAIN code' = TT!Actors /\ code' = [a \in TT!Actors |-> code'[a]]
        /\ code'["main"] = Tail(code["main"])
        /\ \A a \in TT!Actors : a # "main" => code'[a] = code[a]
    BY <1>1 DEF MainAt, TestTypeOK, TT!Actors
  <1>4. GoesOn(k + 1, <<>>) /\ k + 1 <= Len(Whole)
    BY <1>1, <1>3, MainGoesOn DEF MainAt, StateOK
  <1>5. /\ \A u \in TT!Children : code'[u] = code[u]
        /\ \A f \in TT!Tasks : code'[f] = code[f]
    BY <1>3 DEF TT!Actors, TT!Children, TT!Tasks
  <1>6. TestTypeOK /\ StateOK(k, <<>>) /\ k \in 1..(Len(Whole) + 1) /\ k <= Len(Whole)
    BY WholeSeq DEF MainAt
  <1>7. /\ handle' \in [TT!Children -> {"none", "joinable", "joined", "detached"}]
        /\ handle'[t] # "joinable" /\ \A u \in TT!Children : u # t => handle'[u] = handle[u]
    BY <1>1, <1>2, <1>6 DEF TestTypeOK
  <1>8. TestTypeOK'
    BY <1>1, <1>3, <1>6, <1>7 DEF TestTypeOK
  <1>9. LocksOK(k + 1, <<>>)'
    <2>1. \A m \in TT!Mutexes : held'[m] = held[m] /\ MainHas(m, k + 1, <<>>) = MainHas(m, k, <<>>)
      BY <1>1, NoLockStep
    <2> QED
      BY <1>1, <1>5, <1>6, <2>1, LocksStep DEF StateOK
  <1>10. ASSUME NEW u \in TT!Children PROVE ThreadOK(k + 1, u)'
    <2>0. ThreadOK(k, u)
      BY <1>6 DEF StateOK
    <2>1. CASE u # t
      <3>1. /\ code'[u] = code[u] /\ handle'[u] = handle[u]
            /\ result'[Own[u]] \in {result[Own[u]], "pending"}
        BY <1>1, <1>5, <1>7, <2>1
      <3>2. /\ k <= Len(Whole) /\ k + 1 = k + 1
            /\ Whole[k].op \in {"start", "join", "detach"} => Whole[k].on # u
            /\ Whole[k].op = "promise" /\ Whole[k].on = Own[u] => result'[Own[u]] = "pending"
            /\ Whole[k].op = "get" /\ Whole[k].on = Own[u] => code[u] \notin Reports(Own[u])
        BY <1>1, <1>6, <2>1
      <3> QED
        BY <1>1, <1>6, <2>0, <3>1, <3>2, ThreadKept
    <2>2. CASE u = t
      <3>1. code'[u] = code[u] /\ FreeOps' = FreeOps /\ Whole' = Whole /\ result'[Own[u]] = result[Own[u]]
        BY <1>1, <1>5, Fixed
      <3>2. CodeOK(u)'
        BY <2>0, <3>1 DEF ThreadOK, CodeOK
      <3>3. handle'[u] # "joinable"
        BY <1>7, <2>2
      <3>4. code[u] # <<>> => Done(Whole, k + 1, "start", u)
        BY <2>0, DoneNext DEF ThreadOK
      <3>5. code[u] \in Reports(Own[u]) => Todo(Whole, k + 1, "get", Own[u])
        BY <1>1, <2>0, TodoNext DEF ThreadOK
      <3>6. Done(Whole, k + 1, "promise", Own[u]) => Done(Whole, k, "promise", Own[u])
        BY <1>1, DoneNext
      <3>7. \A j \in 1..Len(Whole) : k + 1 <= j => k <= j
        BY WholeSeq
      <3> QED
        BY <2>0, <3>1, <3>2, <3>3, <3>4, <3>5, <3>6, <3>7, SMTT(30) DEF ThreadOK, Done, Todo, Reporting
    <2> QED
      BY <2>1, <2>2
  <1>11. ASSUME NEW f \in TT!Tasks PROVE TaskOK(k + 1, f)'
    <2>1. TaskOK(k, f) /\ code'[f] = code[f] /\ result'[f] \in {result[f], "ready", "pending"}
      BY <1>1, <1>5, <1>6 DEF StateOK
    <2> QED
      BY <1>1, <1>4, <1>6, <2>1, TaskKept
  <1> QED
    BY <1>1, <1>4, <1>8, <1>9, <1>10, <1>11, GoesOnOK

\* A new thread.
LEMMA StartStep ==
  ASSUME NEW k \in 1..Len(Whole), MainAt(k), TT!DoStart("main")
  PROVE  TestInv'
  <1> DEFINE t == Whole[k].on
             b == Whole[k].body
  <1>1. /\ program' = program /\ held' = held /\ result' = result /\ inScope' = inScope
        /\ Whole[k].op = "start"
        /\ handle' = [handle EXCEPT ![t] = "joinable"]
        /\ code' = [code EXCEPT !["main"] = Tail(code["main"]), ![t] = b]
    BY DEF TT!DoStart, TT!At, TT!This, MainAt
  <1>2. t \in TT!Children /\ ThreadStart(Whole[k])
    BY <1>1, WholeWell DEF WellFormed, OpsOK
  <1>3. /\ DOMAIN code' = TT!Actors /\ code' = [a \in TT!Actors |-> code'[a]]
        /\ code'["main"] = Tail(code["main"]) /\ code'[t] = b
        /\ \A a \in TT!Actors : a # "main" /\ a # t => code'[a] = code[a]
    BY <1>1, <1>2 DEF MainAt, TestTypeOK, TT!Actors, TT!Children
  <1>4. GoesOn(k + 1, <<>>) /\ k + 1 <= Len(Whole)
    BY <1>1, <1>3, MainGoesOn DEF MainAt, StateOK
  <1>5. /\ \A u \in TT!Children : u # t => code'[u] = code[u]
        /\ \A f \in TT!Tasks : code'[f] = code[f]
    BY <1>2, <1>3 DEF TT!Actors, TT!Children, TT!Tasks
  <1>6. TestTypeOK /\ StateOK(k, <<>>) /\ k \in 1..(Len(Whole) + 1) /\ k <= Len(Whole)
    BY WholeSeq DEF MainAt
  <1>7. /\ handle' \in [TT!Children -> {"none", "joinable", "joined", "detached"}]
        /\ \A u \in TT!Children : u # t => handle'[u] = handle[u]
    BY <1>1, <1>2, <1>6 DEF TestTypeOK
  <1>8. TestTypeOK'
    BY <1>1, <1>3, <1>6, <1>7 DEF TestTypeOK
  <1>9. code[t] = <<>>
    <2>1. ThreadOK(k, t)
      BY <1>2, <1>6 DEF StateOK
    <2>2. ~ Done(Whole, k, "start", t)
      BY <1>1, <1>6, Once DEF Creates
    <2> QED
      BY <2>1, <2>2 DEF ThreadOK
  <1>10. /\ \A m \in TT!Mutexes : b \notin Critical(m)
         /\ b \in Reports(Own[t]) => Reporting(Whole[k])
         /\ b \in Seq(FreeOps) \/ (\E m \in TT!Mutexes : b \in Before(m)) \/ b \in Reports(Own[t])
    BY <1>2, Kinds DEF ThreadStart, Reporting
  <1>11. LocksOK(k + 1, <<>>)'
    <2>1. \A m \in TT!Mutexes : held'[m] = held[m] /\ MainHas(m, k + 1, <<>>) = MainHas(m, k, <<>>)
      BY <1>1, NoLockStep
    <2>2. \A m \in TT!Mutexes : \A u \in TT!Children : code'[u] \in Critical(m) <=> code[u] \in Critical(m)
      BY <1>3, <1>5, <1>9, <1>10, Kinds
    <2>3. LocksOK(k, <<>>) /\ program' = program
      BY <1>1, <1>6 DEF StateOK
    <2> QED
      BY <2>1, <2>2, <2>3, LocksStep
  <1>12. ASSUME NEW u \in TT!Children PROVE ThreadOK(k + 1, u)'
    <2>0. ThreadOK(k, u)
      BY <1>6 DEF StateOK
    <2>1. CASE u # t
      <3>1. /\ code'[u] = code[u] /\ handle'[u] = handle[u]
            /\ result'[Own[u]] \in {result[Own[u]], "pending"}
        BY <1>1, <1>5, <1>7, <2>1
      <3>2. /\ k <= Len(Whole) /\ k + 1 = k + 1
            /\ Whole[k].op \in {"start", "join", "detach"} => Whole[k].on # u
            /\ Whole[k].op = "promise" /\ Whole[k].on = Own[u] => result'[Own[u]] = "pending"
            /\ Whole[k].op = "get" /\ Whole[k].on = Own[u] => code[u] \notin Reports(Own[u])
        BY <1>1, <1>6, <2>1
      <3> QED
        BY <1>1, <1>6, <2>0, <3>1, <3>2, ThreadKept
    <2>2. CASE u = t
      <3>1. code'[t] = b /\ FreeOps' = FreeOps /\ Whole' = Whole /\ result'[Own[t]] = result[Own[t]]
        BY <1>1, <1>3, Fixed
      <3>2. CodeOK(u)'
        BY <1>10, <2>2, <3>1 DEF CodeOK
      <3>3. /\ Todo(Whole, k + 1, "join", t) \/ Todo(Whole, k + 1, "detach", t)
            /\ Reporting(Whole[k]) => /\ Done(Whole, k, "promise", Own[t])
                                      /\ Todo(Whole, k + 1, "get", Own[t])
        BY <1>1, WholeWell DEF WellFormed, StartsOK
      <3>4. Done(Whole, k + 1, "start", t)
        BY <1>1, DoneNext
      <3>5. ASSUME NEW j \in 1..Len(Whole), Whole[j].op = "start", Whole[j].on = t PROVE j = k
        BY <1>1, <3>5, WholeWell DEF WellFormed, CreatedOnce
      <3>6. Reporting(Whole[k]) => result[Own[t]] = "pending"
        BY <1>1, <2>0, <2>2, <3>3, <1>6 DEF ThreadOK
      <3>7. b \in Reports(Own[t]) => Todo(Whole, k + 1, "get", Own[t])
        BY <1>10, <3>3
      <3>8. \A j \in 1..Len(Whole) :
              Whole[j].op = "start" /\ Whole[j].on = t =>
                /\ b \in Reports(Own[t]) => Reporting(Whole[j])
                /\ Reporting(Whole[j]) => result[Own[t]] = "pending"
        BY <1>10, <3>5, <3>6
      <3> HIDE DEF t, b
      <3>9. (handle[u] = "joinable" => Todo(Whole, k + 1, "join", u) \/ Todo(Whole, k + 1, "detach", u))'
        BY <2>2, <3>1, <3>3 DEF Todo
      <3>10. (code[u] # <<>> => Done(Whole, k + 1, "start", u))'
        BY <2>2, <3>1, <3>4 DEF Done
      <3>11. (code[u] \in Reports(Own[u]) => Todo(Whole, k + 1, "get", Own[u]))'
        BY <2>2, <3>1, <3>7 DEF Todo
      <3>12. (\A j \in 1..Len(Whole) :
                Whole[j].op = "start" /\ Whole[j].on = u =>
                  /\ code[u] \in Reports(Own[u]) => Reporting(Whole[j])
                  /\ /\ Reporting(Whole[j])
                     /\ Done(Whole, k + 1, "promise", Own[u])
                     /\ k + 1 <= j \/ code[u] \in Reports(Own[u])
                     => result[Own[u]] = "pending")'
        BY <2>2, <3>1, <3>8 DEF Reporting
      <3> QED
        BY <3>2, <3>9, <3>10, <3>11, <3>12 DEF ThreadOK
    <2> QED
      BY <2>1, <2>2
  <1>13. ASSUME NEW f \in TT!Tasks PROVE TaskOK(k + 1, f)'
    <2>1. TaskOK(k, f) /\ code'[f] = code[f] /\ result'[f] \in {result[f], "ready", "pending"}
      BY <1>1, <1>5, <1>6 DEF StateOK
    <2> QED
      BY <1>1, <1>4, <1>6, <2>1, TaskKept
  <1> QED
    BY <1>1, <1>4, <1>8, <1>11, <1>12, <1>13, GoesOnOK

\* A new task.
LEMMA AsyncStep ==
  ASSUME NEW k \in 1..Len(Whole), MainAt(k), TT!DoAsync("main")
  PROVE  TestInv'
  <1> DEFINE f == Whole[k].on
             e == Append(Whole[k].body, TT!Finish(f))
  <1>1. /\ program' = program /\ held' = held /\ handle' = handle /\ inScope' = inScope
        /\ Whole[k].op = "async"
        /\ \E p \in Whole[k].policies :
             result' = [result EXCEPT ![f] = IF p = "async" THEN "pending" ELSE "deferred"]
        /\ code' = [code EXCEPT !["main"] = Tail(code["main"]), ![f] = e]
    BY DEF TT!DoAsync, TT!At, TT!This, MainAt
  <1>2. f \in TT!Tasks /\ TaskStart(Whole[k])
    BY <1>1, WholeWell DEF WellFormed, OpsOK
  <1>3. /\ DOMAIN code' = TT!Actors /\ code' = [a \in TT!Actors |-> code'[a]]
        /\ code'["main"] = Tail(code["main"]) /\ code'[f] = e
        /\ \A a \in TT!Actors : a # "main" /\ a # f => code'[a] = code[a]
    BY <1>1, <1>2 DEF MainAt, TestTypeOK, TT!Actors, TT!Tasks
  <1>4. GoesOn(k + 1, <<>>) /\ k + 1 <= Len(Whole)
    BY <1>1, <1>3, MainGoesOn DEF MainAt, StateOK
  <1>5. /\ \A u \in TT!Children : code'[u] = code[u]
        /\ \A g \in TT!Tasks : g # f => code'[g] = code[g]
    BY <1>2, <1>3 DEF TT!Actors, TT!Children, TT!Tasks
  <1>6. TestTypeOK /\ StateOK(k, <<>>) /\ k \in 1..(Len(Whole) + 1) /\ k <= Len(Whole)
    BY WholeSeq DEF MainAt
  <1>7. /\ result' \in [TT!Tasks -> {"none", "deferred", "pending", "ready", "taken"}]
        /\ result'[f] \in {"pending", "deferred"}
        /\ \A g \in TT!Tasks : g # f => result'[g] = result[g]
    BY <1>1, <1>2, <1>6 DEF TestTypeOK
  <1>8. TestTypeOK'
    BY <1>1, <1>3, <1>6, <1>7, SMTT(30) DEF TestTypeOK
  <1>9. LocksOK(k + 1, <<>>)'
    <2>1. \A m \in TT!Mutexes : held'[m] = held[m] /\ MainHas(m, k + 1, <<>>) = MainHas(m, k, <<>>)
      BY <1>1, NoLockStep
    <2>2. \A m \in TT!Mutexes : \A u \in TT!Children : code'[u] \in Critical(m) <=> code[u] \in Critical(m)
      BY <1>5
    <2>3. LocksOK(k, <<>>) /\ program' = program
      BY <1>1, <1>6 DEF StateOK
    <2> QED
      BY <2>1, <2>2, <2>3, LocksStep
  <1>10. ASSUME NEW u \in TT!Children PROVE ThreadOK(k + 1, u)'
    <2>0. ThreadOK(k, u) /\ code'[u] = code[u] /\ handle'[u] = handle[u]
      BY <1>1, <1>5, <1>6 DEF StateOK
    <2>1. result'[Own[u]] \in {result[Own[u]], "pending"} \/ ~ Owes(k, u)
      <3>1. CASE Own[u] = f
        <4>1. ~ Done(Whole, k, "promise", f)
          BY <1>1, <1>6, Once DEF Creates
        <4> QED
          BY <3>1, <4>1 DEF Owes
      <3>2. CASE Own[u] # f
        BY <1>7, <3>2, OwnTasks
      <3> QED
        BY <3>1, <3>2
    <2>2. /\ k <= Len(Whole) /\ k + 1 = k + 1
          /\ Whole[k].op \in {"start", "join", "detach"} => Whole[k].on # u
          /\ Whole[k].op = "promise" /\ Whole[k].on = Own[u] => result'[Own[u]] = "pending"
          /\ Whole[k].op = "get" /\ Whole[k].on = Own[u] => code[u] \notin Reports(Own[u])
      BY <1>1, <1>6
    <2> QED
      BY <1>1, <1>6, <2>0, <2>1, <2>2, ThreadKept
  <1>11. ASSUME NEW g \in TT!Tasks PROVE TaskOK(k + 1, g)'
    <2>0. TaskOK(k, g)
      BY <1>6 DEF StateOK
    <2>1. CASE g # f
      <3>1. code'[g] = code[g] /\ result'[g] \in {result[g], "ready", "pending"}
        BY <1>5, <1>7, <2>1
      <3> QED
        BY <1>1, <1>4, <1>6, <2>0, <2>1, <3>1, TaskKept
    <2>2. CASE g = f
      <3>1. \/ e = <<TT!Work, TT!Finish(f)>>
            \/ e = <<TT!ReadLocal, TT!Work, TT!Finish(f)>> /\ Whole[k].policies = {"async"}
        <4>0. /\ Append(<<TT!Work>>, TT!Finish(f)) = <<TT!Work, TT!Finish(f)>>
              /\ Append(<<TT!ReadLocal, TT!Work>>, TT!Finish(f)) = <<TT!ReadLocal, TT!Work, TT!Finish(f)>>
          BY Appended
        <4>1. CASE Whole[k].body = <<TT!Work>>
          BY <4>0, <4>1
        <4>2. CASE Whole[k].body = <<TT!ReadLocal, TT!Work>> /\ Whole[k].policies = {"async"}
          BY <4>0, <4>2
        <4> QED
          BY <1>2, <4>1, <4>2 DEF TaskStart
      <3>2. e \in TaskCodes(f)
        BY <3>1 DEF TaskCodes
      <3>3. e = <<TT!ReadLocal, TT!Work, TT!Finish(f)>> => result'[f] # "deferred"
        <4>1. <<TT!Work, TT!Finish(f)>> # <<TT!ReadLocal, TT!Work, TT!Finish(f)>>
          OBVIOUS
        <4>2. Whole[k].policies = {"async"} => result'[f] = "pending"
          BY <1>1, <1>2, <1>6 DEF TestTypeOK
        <4> QED
          BY <3>1, <4>1, <4>2
      <3>4. Done(Whole, k + 1, "async", f)
        BY <1>1, DoneNext
      <3>5. code'[f] = e /\ Whole' = Whole
        BY <1>1, <1>3, Fixed
      <3> HIDE DEF e, f
      <3> QED
        BY <1>4, <1>7, <2>2, <3>2, <3>3, <3>4, <3>5 DEF TaskOK, Done
    <2> QED
      BY <2>1, <2>2
  <1> QED
    BY <1>1, <1>4, <1>8, <1>9, <1>10, <1>11, GoesOnOK

-----------------------------------------------------------------------------
(* The mutexes of main.                                                    *)

\* The name of the last operation.
LEMMA ReturnName == TT!Return.op = "return"
  BY DEF TT!Return, TT!On

\* Where a function of main locks, tries and unlocks.
LEMMA LockOps ==
  ASSUME NEW k \in 1..Len(Whole)
  PROVE  /\ Whole[k].op = "lock" =>
              \/ program = "TestRecursiveMutex" /\ k \in {1, 2} /\ Whole[k].mutexes = {"r_mutex"}
              \/ program = "TestTryLockAndLockFor" /\ k = 1 /\ Whole[k].mutexes = {"mutex"}
              \/ program = "TestMultiMutex" /\ k = 1 /\ Whole[k].mutexes = {"m1", "m2"}
         /\ Whole[k].op = "unlock" =>
              \/ program = "TestRecursiveMutex" /\ k \in {3, 4} /\ Whole[k].mutexes = {"r_mutex"}
              \/ program = "TestTryLockAndLockFor" /\ k = 3 /\ Whole[k].mutexes = {"mutex"}
              \/ program = "TestMultiMutex" /\ k = 2 /\ Whole[k].mutexes = {"m1"}
              \/ program = "TestMultiMutex" /\ k = 3 /\ Whole[k].mutexes = {"m2"}
         /\ Whole[k].op = "try" =>
              \/ program = "TestTryLockAndLockFor" /\ k = 2 /\ Whole[k].mutexes = {"mutex"}
              \/ /\ program = "TestTryLockAndLockFor" /\ k = 4 /\ Whole[k].mutexes = {"mutex"}
                 /\ Whole[k].yes = <<TT!Unlock({"mutex"}), TT!Work>> /\ Len(Whole) = 9
              \/ /\ program = "TestMultiMutex" /\ k = 4 /\ Whole[k].mutexes = {"m1", "m2"}
                 /\ Whole[k].yes = <<TT!Unlock({"m1"}), TT!Unlock({"m2"})>> /\ Len(Whole) = 5
  <1>1. CASE program = "TestRecursiveMutex"
    <2>1. /\ Len(Whole) = 5
          /\ Whole[1].op = "lock" /\ Whole[2].op = "lock" /\ Whole[3].op = "unlock"
          /\ Whole[4].op = "unlock" /\ Whole[5].op = "return"
      BY <1>1, LockCode, OpNames, ReturnName
    <2>2. /\ Whole[1].mutexes = {"r_mutex"} /\ Whole[2].mutexes = {"r_mutex"}
          /\ Whole[3].mutexes = {"r_mutex"} /\ Whole[4].mutexes = {"r_mutex"}
      BY <1>1, LockCode DEF TT!Lock, TT!Unlock
    <2> QED
      BY <1>1, <2>1, <2>2, Five
  <1>2. CASE program = "TestTryLockAndLockFor"
    <2>1. /\ Len(Whole) = 9
          /\ Whole[1].op = "lock" /\ Whole[2].op = "try" /\ Whole[3].op = "unlock"
          /\ Whole[4].op = "try"
          /\ Whole[5].op = "start" /\ Whole[6].op = "start"
          /\ Whole[7].op = "join" /\ Whole[8].op = "join" /\ Whole[9].op = "return"
          /\ Whole[1].mutexes = {"mutex"} /\ Whole[2].mutexes = {"mutex"}
          /\ Whole[3].mutexes = {"mutex"} /\ Whole[4].mutexes = {"mutex"}
      BY <1>2, LockCode DEF TT!Lock, TT!Unlock, TT!Try
    <2>2. Whole[4].yes = <<TT!Unlock({"mutex"}), TT!Work>>
      BY <1>2, LockCode DEF TT!Try
    <2> QED
      BY <1>2, <2>1, <2>2, Nine
  <1>3. CASE program = "TestMultiMutex"
    <2>1. /\ Len(Whole) = 5
          /\ Whole[1].op = "lock" /\ Whole[2].op = "unlock" /\ Whole[3].op = "unlock"
          /\ Whole[5].op = "return"
      BY <1>3, LockCode, OpNames, ReturnName
    <2>2. Whole[4].op = "try" /\ Whole[4].yes = <<TT!Unlock({"m1"}), TT!Unlock({"m2"})>>
      BY <1>3, LockCode DEF TT!Try
    <2>3. /\ Whole[1].mutexes = {"m1", "m2"} /\ Whole[2].mutexes = {"m1"}
          /\ Whole[3].mutexes = {"m2"} /\ Whole[4].mutexes = {"m1", "m2"}
      BY <1>3, LockCode DEF TT!Lock, TT!Unlock, TT!Try
    <2> QED
      BY <1>3, <2>1, <2>2, <2>3, Five
  <1>4. CASE program \notin LockPrograms
    BY <1>4, WholeWell DEF WellFormed, OpsOK
  <1> QED
    BY <1>1, <1>2, <1>3, <1>4 DEF LockPrograms

\* The empty detour.
LEMMA NoDetour ==
  /\ <<>> # <<TT!Unlock({"mutex"}), TT!Work>> /\ <<TT!Work>> # <<TT!Unlock({"mutex"}), TT!Work>>
  /\ <<>> # <<TT!Unlock({"m1"}), TT!Unlock({"m2"})>> /\ <<>> # <<TT!Unlock({"m2"})>>
  /\ <<TT!Unlock({"m2"})>> # <<TT!Unlock({"m1"}), TT!Unlock({"m2"})>>
  OBVIOUS

\* lock, and unlock outside of a detour.
LEMMA LockHas ==
  ASSUME NEW k \in 1..Len(Whole), Whole[k].op = "lock", NEW m \in TT!Mutexes
  PROVE  MainHas(m, k + 1, <<>>) = IF m \in Whole[k].mutexes THEN Append(MainHas(m, k, <<>>), "main")
                                   ELSE MainHas(m, k, <<>>)
  <1>1. Append(<<>>, "main") = <<"main">> /\ Append(<<"main">>, "main") = <<"main", "main">>
    <2>1. Append(<<>>, "main") = <<"main">>
      OBVIOUS
    <2> QED
      BY <2>1, Appended
  <1>2. CASE program = "TestRecursiveMutex" /\ k = 1 /\ Whole[k].mutexes = {"r_mutex"}
    BY <1>1, <1>2 DEF MainHas
  <1>3. CASE program = "TestRecursiveMutex" /\ k = 2 /\ Whole[k].mutexes = {"r_mutex"}
    <2>1. /\ m = "r_mutex" => MainHas(m, 3, <<>>) = <<"main", "main">> /\ MainHas(m, 2, <<>>) = <<"main">>
          /\ m # "r_mutex" => MainHas(m, 3, <<>>) = <<>> /\ MainHas(m, 2, <<>>) = <<>>
      BY <1>3 DEF MainHas
    <2>2. k + 1 = 3 /\ k = 2
      BY <1>3
    <2>3. MainHas(m, k + 1, <<>>) = MainHas(m, 3, <<>>) /\ MainHas(m, k, <<>>) = MainHas(m, 2, <<>>)
      BY <2>2
    <2>4. MainHas(m, 3, <<>>) = IF m = "r_mutex" THEN Append(MainHas(m, 2, <<>>), "main")
                                ELSE MainHas(m, 2, <<>>)
      BY <1>1, <2>1
    <2> QED
      BY <1>3, <2>3, <2>4
  <1>4. CASE program = "TestTryLockAndLockFor" /\ k = 1 /\ Whole[k].mutexes = {"mutex"}
    BY <1>1, <1>4, NoDetour DEF MainHas
  <1>5. CASE program = "TestMultiMutex" /\ k = 1 /\ Whole[k].mutexes = {"m1", "m2"}
    BY <1>1, <1>5, NoDetour DEF MainHas
  <1> QED
    BY <1>2, <1>3, <1>4, <1>5, LockOps

\* An unlock outside of a detour is of a mutex that main has.
LEMMA UnlockHas ==
  ASSUME NEW k \in 1..Len(Whole), Whole[k].op = "unlock", NEW m \in TT!Mutexes
  PROVE  IF m \in Whole[k].mutexes
         THEN /\ MainHas(m, k, <<>>) \in {<<"main">>, <<"main", "main">>}
              /\ MainHas(m, k + 1, <<>>) = Tail(MainHas(m, k, <<>>))
         ELSE MainHas(m, k + 1, <<>>) = MainHas(m, k, <<>>)
  <1>1. Tail(<<"main">>) = <<>> /\ Tail(<<"main", "main">>) = <<"main">>
    OBVIOUS
  <1>2. CASE program = "TestRecursiveMutex" /\ k = 3 /\ Whole[k].mutexes = {"r_mutex"}
    BY <1>1, <1>2 DEF MainHas
  <1>3. CASE program = "TestRecursiveMutex" /\ k = 4 /\ Whole[k].mutexes = {"r_mutex"}
    BY <1>1, <1>3 DEF MainHas
  <1>4. CASE program = "TestTryLockAndLockFor" /\ k = 3 /\ Whole[k].mutexes = {"mutex"}
    BY <1>1, <1>4, NoDetour DEF MainHas
  <1>5. CASE program = "TestMultiMutex" /\ k = 2 /\ Whole[k].mutexes = {"m1"}
    BY <1>1, <1>5, NoDetour DEF MainHas
  <1>6. CASE program = "TestMultiMutex" /\ k = 3 /\ Whole[k].mutexes = {"m2"}
    BY <1>1, <1>6, NoDetour DEF MainHas
  <1> QED
    BY <1>2, <1>3, <1>4, <1>5, <1>6, LockOps

\* try_lock of a mutex that main has fails; otherwise what main does with the
\* lock is a detour.
LEMMA TryHas ==
  ASSUME NEW k \in 1..Len(Whole), Whole[k].op = "try"
  PROVE  /\ k + 1 <= Len(Whole)
         /\ \A m \in TT!Mutexes : MainHas(m, k + 1, <<>>) = MainHas(m, k, <<>>)
         /\ \/ \E m \in Whole[k].mutexes : m \in TT!Mutexes /\ m # "r_mutex" /\ MainHas(m, k, <<>>) = <<"main">>
            \/ /\ Whole[k].yes \in Detours(k + 1) /\ Whole[k].yes # <<>>
               /\ "r_mutex" \notin Whole[k].mutexes
               /\ \A m \in TT!Mutexes :
                    MainHas(m, k + 1, Whole[k].yes) = IF m \in Whole[k].mutexes THEN <<"main">>
                                                      ELSE MainHas(m, k, <<>>)
  <1>1. CASE program = "TestTryLockAndLockFor" /\ k = 2 /\ Whole[k].mutexes = {"mutex"}
    <2>1. \A m \in TT!Mutexes : MainHas(m, 3, <<>>) = MainHas(m, 2, <<>>)
      BY <1>1, NoDetour DEF MainHas
    <2>2. "mutex" \in TT!Mutexes /\ MainHas("mutex", 2, <<>>) = <<"main">>
      BY <1>1 DEF MainHas, TT!Mutexes
    <2> QED
      BY <1>1, <2>1, <2>2, LockCode
  <1>2. CASE /\ program = "TestTryLockAndLockFor" /\ k = 4 /\ Whole[k].mutexes = {"mutex"}
             /\ Whole[k].yes = <<TT!Unlock({"mutex"}), TT!Work>> /\ Len(Whole) = 9
    <2>1. \A m \in TT!Mutexes : MainHas(m, 5, <<>>) = MainHas(m, 4, <<>>)
      BY <1>2, NoDetour DEF MainHas
    <2>2. <<TT!Unlock({"mutex"}), TT!Work>> \in Detours(5)
      BY <1>2 DEF Detours
    <2>3. \A m \in TT!Mutexes :
            MainHas(m, 5, <<TT!Unlock({"mutex"}), TT!Work>>) = IF m \in {"mutex"} THEN <<"main">>
                                                                ELSE MainHas(m, 4, <<>>)
      BY <1>2, NoDetour DEF MainHas
    <2> QED
      BY <1>2, <2>1, <2>2, <2>3, NoDetour
  <1>3. CASE /\ program = "TestMultiMutex" /\ k = 4 /\ Whole[k].mutexes = {"m1", "m2"}
             /\ Whole[k].yes = <<TT!Unlock({"m1"}), TT!Unlock({"m2"})>> /\ Len(Whole) = 5
    <2>1. \A m \in TT!Mutexes : MainHas(m, 5, <<>>) = MainHas(m, 4, <<>>)
      BY <1>3, NoDetour DEF MainHas
    <2>2. <<TT!Unlock({"m1"}), TT!Unlock({"m2"})>> \in Detours(5)
      BY <1>3 DEF Detours
    <2>3. \A m \in TT!Mutexes :
            MainHas(m, 5, <<TT!Unlock({"m1"}), TT!Unlock({"m2"})>>) = IF m \in {"m1", "m2"} THEN <<"main">>
                                                                       ELSE MainHas(m, 4, <<>>)
      BY <1>3, NoDetour DEF MainHas
    <2> QED
      BY <1>3, <2>1, <2>2, <2>3, NoDetour
  <1> QED
    BY <1>1, <1>2, <1>3, LockOps

\* The steps of a detour.
LEMMA DetourHas ==
  ASSUME NEW k, NEW d \in Detours(k), d # <<>>, NEW m \in TT!Mutexes
  PROVE  IF Head(d).op = "unlock" /\ m \in Head(d).mutexes
         THEN MainHas(m, k, d) = <<"main">> /\ MainHas(m, k, Tail(d)) = <<>>
         ELSE MainHas(m, k, Tail(d)) = MainHas(m, k, d)
  <1>1. ASSUME NEW f, d = <<TT!Finish(f)>> \/ d = <<TT!Work, TT!Finish(f)>> PROVE
           Head(d).op # "unlock" /\ MainHas(m, k, Tail(d)) = MainHas(m, k, d)
    <2>1. Head(d) \in {TT!Work, TT!Finish(f)} /\ Tail(d) \in {<<>>, <<TT!Finish(f)>>}
      <3>1. CASE d = <<TT!Finish(f)>>
        BY <3>1
      <3>2. CASE d = <<TT!Work, TT!Finish(f)>>
        BY <3>2
      <3> QED
        BY <1>1, <3>1, <3>2
    <2>2. ASSUME NEW e \in {<<>>, <<TT!Finish(f)>>, <<TT!Work, TT!Finish(f)>>}
          PROVE  /\ e # <<TT!Unlock({"mutex"}), TT!Work>>
                 /\ e # <<TT!Unlock({"m1"}), TT!Unlock({"m2"})>> /\ e # <<TT!Unlock({"m2"})>>
      <3>1. CASE e = <<>>
        BY <3>1, NoDetour
      <3>2. CASE e = <<TT!Finish(f)>>
        <4>1. e # <<>> /\ e[1] = TT!Finish(f)
          BY <3>2
        <4> QED
          BY <4>1, OpNames, NotUnlock
      <3>3. CASE e = <<TT!Work, TT!Finish(f)>>
        <4>1. e # <<>> /\ e[1] = TT!Work
          BY <3>3
        <4> QED
          BY <4>1, OpNames, NotUnlock
      <3> QED
        BY <3>1, <3>2, <3>3
    <2> QED
      BY <1>1, <2>1, <2>2, OpNames DEF MainHas
  <1>2. ASSUME program = "TestTryLockAndLockFor", k = 5, d = <<TT!Unlock({"mutex"}), TT!Work>>
        PROVE  /\ Head(d).op = "unlock" /\ Head(d).mutexes = {"mutex"}
               /\ IF m = "mutex" THEN MainHas(m, k, d) = <<"main">> /\ MainHas(m, k, Tail(d)) = <<>>
                  ELSE MainHas(m, k, Tail(d)) = MainHas(m, k, d)
    <2>1. Head(d) = TT!Unlock({"mutex"}) /\ Tail(d) = <<TT!Work>>
      BY <1>2
    <2> QED
      BY <1>2, <2>1, OpNames, NoDetour DEF MainHas
  <1>3. ASSUME program = "TestTryLockAndLockFor", k = 5, d = <<TT!Work>>
        PROVE  Head(d).op # "unlock" /\ MainHas(m, k, Tail(d)) = MainHas(m, k, d)
    <2>1. Head(d) = TT!Work /\ Tail(d) = <<>>
      BY <1>3
    <2> QED
      BY <1>3, <2>1, OpNames, NoDetour DEF MainHas
  <1>4. ASSUME program = "TestMultiMutex", k = 5, d = <<TT!Unlock({"m1"}), TT!Unlock({"m2"})>>
        PROVE  /\ Head(d).op = "unlock" /\ Head(d).mutexes = {"m1"}
               /\ IF m = "m1" THEN MainHas(m, k, d) = <<"main">> /\ MainHas(m, k, Tail(d)) = <<>>
                  ELSE MainHas(m, k, Tail(d)) = MainHas(m, k, d)
    <2>1. Head(d) = TT!Unlock({"m1"}) /\ Tail(d) = <<TT!Unlock({"m2"})>>
      BY <1>4
    <2> QED
      BY <1>4, <2>1, OpNames, NoDetour DEF MainHas
  <1>5. ASSUME program = "TestMultiMutex", k = 5, d = <<TT!Unlock({"m2"})>>
        PROVE  /\ Head(d).op = "unlock" /\ Head(d).mutexes = {"m2"}
               /\ IF m = "m2" THEN MainHas(m, k, d) = <<"main">> /\ MainHas(m, k, Tail(d)) = <<>>
                  ELSE MainHas(m, k, Tail(d)) = MainHas(m, k, d)
    <2>1. Head(d) = TT!Unlock({"m2"}) /\ Tail(d) = <<>>
      BY <1>5
    <2> QED
      BY <1>5, <2>1, OpNames, NoDetour DEF MainHas
  <1>6. \/ \E f \in TT!Tasks : d \in {<<TT!Finish(f)>>, <<TT!Work, TT!Finish(f)>>}
        \/ /\ program = "TestTryLockAndLockFor" /\ k = 5
           /\ d \in {<<TT!Unlock({"mutex"}), TT!Work>>, <<TT!Work>>}
        \/ /\ program = "TestMultiMutex" /\ k = 5
           /\ d \in {<<TT!Unlock({"m1"}), TT!Unlock({"m2"})>>, <<TT!Unlock({"m2"})>>}
    BY DEF Detours
  <1>7. CASE \E f \in TT!Tasks : d \in {<<TT!Finish(f)>>, <<TT!Work, TT!Finish(f)>>}
    BY <1>1, <1>7
  <1> QED
    BY <1>2, <1>3, <1>4, <1>5, <1>6, <1>7

\* Main locks.
LEMMA TakeStep ==
  ASSUME NEW k \in 1..Len(Whole), MainAt(k), TT!DoLock("main")
  PROVE  TestInv'
  <1> DEFINE ms == Whole[k].mutexes
  <1>1. /\ program' = program /\ handle' = handle /\ result' = result /\ inScope' = inScope
        /\ code' = [code EXCEPT !["main"] = Tail(code["main"])]
        /\ Whole[k].op = "lock" /\ (\A m \in ms : TT!Free("main", m)) /\ TT!Take("main", ms)
    BY DEF TT!DoLock, TT!GoOn, TT!At, TT!This, MainAt
  <1>2. held' = [m \in TT!Mutexes |-> IF m \in ms THEN Append(held[m], "main") ELSE held[m]]
    BY <1>1 DEF TT!Take
  <1>3. code'["main"] = Tail(code["main"])
    BY <1>1 DEF MainAt, TestTypeOK, TT!Actors
  <1>4. GoesOn(k + 1, <<>>) /\ k + 1 <= Len(Whole)
    BY <1>1, <1>3, MainGoesOn DEF MainAt, StateOK
  <1>5. TestTypeOK /\ StateOK(k, <<>>) /\ k \in 1..(Len(Whole) + 1) /\ k <= Len(Whole)
    BY WholeSeq DEF MainAt
  <1>6. LocksGo(k, <<>>, k + 1, <<>>)
    <2>1. ASSUME NEW m \in TT!Mutexes, m \in ms
          PROVE  held[m] = MainHas(m, k, <<>>) /\ held'[m] = MainHas(m, k + 1, <<>>)
      <3>1. held[m] = MainHas(m, k, <<>>)
        BY <1>1, <1>5, <2>1, MainFree DEF StateOK
      <3> QED
        BY <1>1, <1>2, <2>1, <3>1, LockHas
    <2>2. ASSUME NEW m \in TT!Mutexes, m \notin ms
          PROVE  held'[m] = held[m] /\ MainHas(m, k + 1, <<>>) = MainHas(m, k, <<>>)
      BY <1>1, <1>2, <2>2, LockHas
    <2> QED
      BY <1>2, <2>1, <2>2 DEF LocksGo
  <1>7. OnlyMain
    BY <1>1 DEF OnlyMain
  <1>8. AboutNone(k, k + 1)
    BY <1>1, <1>4, <1>5 DEF AboutNone
  <1>9. ResultsGo(k, k + 1)
    BY <1>1, <1>5 DEF ResultsGo, TestTypeOK, Results
  <1> HIDE DEF ms
  <1> QED
    BY <1>4, <1>5, <1>6, <1>7, <1>8, <1>9, MainAlone

\* Main unlocks, where it has the lock.
LEMMA GiveStep ==
  ASSUME NEW k \in 1..Len(Whole), MainAt(k), TT!DoUnlock("main")
  PROVE  TestInv'
  <1> DEFINE ms == Whole[k].mutexes
  <1>1. /\ program' = program /\ handle' = handle /\ result' = result /\ inScope' = inScope
        /\ code' = [code EXCEPT !["main"] = Tail(code["main"])]
        /\ Whole[k].op = "unlock"
        /\ held' = [m \in TT!Mutexes |-> IF m \in ms THEN Tail(held[m]) ELSE held[m]]
    BY DEF TT!DoUnlock, TT!GoOn, TT!At, TT!This, MainAt
  <1>3. code'["main"] = Tail(code["main"])
    BY <1>1 DEF MainAt, TestTypeOK, TT!Actors
  <1>4. GoesOn(k + 1, <<>>) /\ k + 1 <= Len(Whole)
    BY <1>1, <1>3, MainGoesOn DEF MainAt, StateOK
  <1>5. TestTypeOK /\ StateOK(k, <<>>) /\ k \in 1..(Len(Whole) + 1) /\ k <= Len(Whole)
    BY WholeSeq DEF MainAt
  <1>6. LocksGo(k, <<>>, k + 1, <<>>)
    <2>1. ASSUME NEW m \in TT!Mutexes, m \in ms
          PROVE  held[m] = MainHas(m, k, <<>>) /\ held'[m] = MainHas(m, k + 1, <<>>)
      <3>1. /\ MainHas(m, k, <<>>) \in {<<"main">>, <<"main", "main">>}
            /\ MainHas(m, k + 1, <<>>) = Tail(MainHas(m, k, <<>>))
        BY <1>1, <2>1, UnlockHas
      <3>2. MainHas(m, k, <<>>) # <<>>
        BY <3>1
      <3>3. held[m] = MainHas(m, k, <<>>)
        BY <1>5, <3>2 DEF StateOK, LocksOK
      <3> QED
        BY <1>1, <2>1, <3>1, <3>3
    <2>2. ASSUME NEW m \in TT!Mutexes, m \notin ms
          PROVE  held'[m] = held[m] /\ MainHas(m, k + 1, <<>>) = MainHas(m, k, <<>>)
      BY <1>1, <2>2, UnlockHas
    <2> QED
      BY <1>1, <2>1, <2>2 DEF LocksGo
  <1>7. OnlyMain
    BY <1>1 DEF OnlyMain
  <1>8. AboutNone(k, k + 1)
    BY <1>1, <1>4, <1>5 DEF AboutNone
  <1>9. ResultsGo(k, k + 1)
    BY <1>1, <1>5 DEF ResultsGo, TestTypeOK, Results
  <1> HIDE DEF ms
  <1> QED
    BY <1>4, <1>5, <1>6, <1>7, <1>8, <1>9, MainAlone

\* Main tries a lock.
LEMMA TryStep ==
  ASSUME NEW k \in 1..Len(Whole), MainAt(k), TT!DoTry("main")
  PROVE  TestInv'
  <1> DEFINE ms == Whole[k].mutexes
             d2 == Whole[k].yes
             s == SubSeq(Whole, k + 1, Len(Whole))
  <1>1. /\ program' = program /\ handle' = handle /\ result' = result /\ inScope' = inScope
        /\ Whole[k].op = "try"
        /\ IF \A m \in ms : TT!Free("main", m)
           THEN TT!Take("main", ms) /\ code' = [code EXCEPT !["main"] = d2 \o Tail(code["main"])]
           ELSE held' = held /\ code' = [code EXCEPT !["main"] = Tail(code["main"])]
    BY DEF TT!DoTry, TT!GoOn, TT!At, TT!This, MainAt
  <1>2. /\ TestTypeOK /\ StateOK(k, <<>>) /\ k \in 1..(Len(Whole) + 1) /\ k <= Len(Whole)
        /\ Tail(code["main"]) = <<>> \o s /\ "main" \in DOMAIN code
    <2>1. TestTypeOK /\ StateOK(k, <<>>) /\ Tail(code["main"]) = <<>> \o s
      BY DEF MainAt
    <2>2. "main" \in DOMAIN code
      BY <2>1 DEF TestTypeOK, TT!Actors
    <2>3. k \in 1..(Len(Whole) + 1) /\ k <= Len(Whole)
      BY WholeSeq
    <2> QED
      BY <2>1, <2>2, <2>3
  <1>3. /\ k + 1 <= Len(Whole)
        /\ \A m \in TT!Mutexes : MainHas(m, k + 1, <<>>) = MainHas(m, k, <<>>)
    BY <1>1, TryHas
  <1>4. AboutNone(k, k + 1) /\ ResultsGo(k, k + 1)
    BY <1>1, <1>2, <1>3 DEF AboutNone, ResultsGo, TestTypeOK, Results
  <1>5. CASE \A m \in ms : TT!Free("main", m)
    <2>1. ASSUME NEW m \in TT!Mutexes, m \in ms
          PROVE  held[m] = MainHas(m, k, <<>>) /\ (m # "r_mutex" => held[m] = <<>>)
      BY <1>2, <1>5, <2>1, MainFree DEF StateOK
    <2>2. /\ d2 \in Detours(k + 1) /\ d2 # <<>> /\ "r_mutex" \notin ms
          /\ \A m \in TT!Mutexes : MainHas(m, k + 1, d2) = IF m \in ms THEN <<"main">> ELSE MainHas(m, k, <<>>)
      <3>1. ASSUME NEW m \in TT!Mutexes, m \in ms, m # "r_mutex", MainHas(m, k, <<>>) = <<"main">>
            PROVE  FALSE
        <4>1. <<"main">> = <<>>
          BY <2>1, <3>1
        <4> QED
          BY <4>1
      <3> QED
        BY <1>1, <3>1, TryHas
    <2>3. held' = [m \in TT!Mutexes |-> IF m \in ms THEN Append(held[m], "main") ELSE held[m]]
      BY <1>1, <1>5 DEF TT!Take
    <2>4. LocksGo(k, <<>>, k + 1, d2)
      <3>1. Append(<<>>, "main") = <<"main">>
        OBVIOUS
      <3>2. ASSUME NEW m \in TT!Mutexes, m \in ms
            PROVE  held[m] = MainHas(m, k, <<>>) /\ held'[m] = MainHas(m, k + 1, d2)
        <4>1. m # "r_mutex" /\ held[m] = <<>> /\ held[m] = MainHas(m, k, <<>>)
          BY <2>1, <2>2, <3>2
        <4> QED
          BY <2>2, <2>3, <3>1, <3>2, <4>1
      <3>3. ASSUME NEW m \in TT!Mutexes, m \notin ms
            PROVE  held'[m] = held[m] /\ MainHas(m, k + 1, d2) = MainHas(m, k, <<>>)
        BY <2>2, <2>3, <3>3
      <3> QED
        BY <2>3, <3>2, <3>3 DEF LocksGo
    <2>5. GoesOn(k + 1, d2)
      <3>1. code'["main"] = d2 \o s
        <4>1. code'["main"] = d2 \o Tail(code["main"])
          BY <1>1, <1>2, <1>5
        <4>2. <<>> \o s = s
          <5>1. k + 1 \in 1..(Len(Whole) + 1)
            BY <1>3, WholeSeq
          <5>2. s \in Seq({Whole[i] : i \in 1..Len(Whole)})
            BY <5>1, WholeSeq, Suffix
          <5> QED
            BY <5>2, ConcatEmptySeq
        <4> QED
          BY <1>2, <4>1, <4>2
      <3>2. k + 1 \in 1..(Len(Whole) + 1)
        BY <1>3, WholeSeq
      <3>3. inScope' = (k + 1 <= Len(Whole))
        BY <1>1, <1>2, <1>3 DEF StateOK, PositionOK
      <3> QED
        BY <1>3, <2>2, <3>1, <3>2, <3>3 DEF GoesOn
    <2>6. OnlyMain
      BY <1>1, <1>5 DEF OnlyMain
    <2> QED
      BY <1>2, <1>4, <2>4, <2>5, <2>6, MainAlone
  <1>6. CASE ~ \A m \in ms : TT!Free("main", m)
    <2>1. held' = held /\ code' = [code EXCEPT !["main"] = Tail(code["main"])]
      BY <1>1, <1>6
    <2>2. OnlyMain
      BY <1>1, <2>1 DEF OnlyMain
    <2>3. LocksGo(k, <<>>, k + 1, <<>>)
      BY <1>2, <1>3, <2>1 DEF LocksGo, TestTypeOK
    <2>4. code'["main"] = Tail(code["main"])
      BY <1>2, <2>1
    <2>5. GoesOn(k + 1, <<>>)
      BY <1>1, <1>2, <2>4, MainGoesOn DEF StateOK
    <2> QED
      BY <1>2, <1>4, <2>2, <2>3, <2>5, MainAlone
  <1> QED
    BY <1>5, <1>6

\* The test function returns.
LEMMA ReturnStep ==
  ASSUME NEW k \in 1..Len(Whole), MainAt(k), TT!DoReturn("main")
  PROVE  TestInv'
  <1>1. /\ program' = program /\ handle' = handle /\ held' = held /\ result' = result /\ inScope' = FALSE
        /\ code' = [code EXCEPT !["main"] = Tail(code["main"])]
        /\ Whole[k].op = "return"
        /\ \A f \in TT!Tasks : code[f] = <<>> \/ result[f] = "deferred"
    BY DEF TT!DoReturn, TT!GoOn, TT!At, MainAt
  <1>2. TestTypeOK /\ StateOK(k, <<>>) /\ k \in 1..(Len(Whole) + 1) /\ k <= Len(Whole)
    BY WholeSeq DEF MainAt
  <1>3. code'["main"] = Tail(code["main"])
    BY <1>1 DEF MainAt, TestTypeOK, TT!Actors
  <1>4. GoesOn(k + 1, <<>>)
    <2>1. k = Len(Whole)
      BY <1>1, WholeWell DEF WellFormed, OpsOK
    <2>4. k + 1 \in 1..(Len(Whole) + 1) /\ ~ k + 1 <= Len(Whole)
      BY <2>1, WholeSeq
    <2>5. (k + 1 <= Len(Whole)) = FALSE
      BY <2>4
    <2>6. inScope' = (k + 1 <= Len(Whole))
      BY <1>1, <2>5
    <2>2. k + 1 \in 1..(Len(Whole) + 1) /\ inScope' = (k + 1 <= Len(Whole))
      BY <2>4, <2>6
    <2>3. <<>> \in Detours(k + 1)
      BY DEF Detours
    <2> QED
      BY <1>3, <2>2, <2>3 DEF GoesOn, MainAt
  <1>5. OnlyMain
    BY <1>1 DEF OnlyMain
  <1>6. LocksGo(k, <<>>, k + 1, <<>>)
    BY <1>1, <1>2, NoLockStep DEF LocksGo, TestTypeOK
  <1>7. AboutNone(k, k + 1)
    BY <1>1, <1>2 DEF AboutNone
  <1>8. ResultsGo(k, k + 1)
    BY <1>1, <1>2 DEF ResultsGo, TestTypeOK, Results
  <1> QED
    BY <1>2, <1>4, <1>5, <1>6, <1>7, <1>8, MainAlone

\* wait or get of a deferred task: main runs it first.
LEMMA DeferredStep ==
  ASSUME NEW k \in 1..Len(Whole), MainAt(k), TT!DoDeferred("main")
  PROVE  TestInv'
  <1> DEFINE f == Whole[k].on
             s == SubSeq(Whole, k, Len(Whole))
  <1>0. PICK d2 : d2 = code[f]
    OBVIOUS
  <1>1. /\ program' = program /\ handle' = handle /\ held' = held /\ inScope' = inScope
        /\ Whole[k].op \in {"wait", "get"} /\ result[f] = "deferred"
        /\ result' = [result EXCEPT ![f] = "pending"]
        /\ code' = [code EXCEPT !["main"] = d2 \o code["main"], ![f] = <<>>]
    BY <1>0 DEF TT!DoDeferred, TT!At, TT!This, MainAt
  <1>2. f \in TT!Tasks
    BY <1>1, WholeWell DEF WellFormed, OpsOK
  <1>3. TestTypeOK /\ StateOK(k, <<>>) /\ k \in 1..(Len(Whole) + 1) /\ k <= Len(Whole)
    BY WholeSeq DEF MainAt
  <1>4. /\ DOMAIN code' = TT!Actors /\ code' = [a \in TT!Actors |-> code'[a]]
        /\ code'["main"] = d2 \o code["main"] /\ code'[f] = <<>>
        /\ \A a \in TT!Actors : a # "main" /\ a # f => code'[a] = code[a]
    BY <1>1, <1>2, <1>3 DEF TestTypeOK, TT!Actors, TT!Tasks
  <1>5. /\ \A u \in TT!Children : code'[u] = code[u]
        /\ \A g \in TT!Tasks : g # f => code'[g] = code[g]
    BY <1>2, <1>4 DEF TT!Actors, TT!Children, TT!Tasks
  <1>6. /\ result' \in [TT!Tasks -> {"none", "deferred", "pending", "ready", "taken"}]
        /\ result'[f] = "pending" /\ \A g \in TT!Tasks : g # f => result'[g] = result[g]
    BY <1>1, <1>2, <1>3 DEF TestTypeOK
  <1>7. TestTypeOK'
    <2>1. DOMAIN held' = TT!Mutexes /\ held' = [m \in TT!Mutexes |-> held'[m]]
      BY <1>1, <1>3 DEF TestTypeOK
    <2>2. handle' \in [TT!Children -> {"none", "joinable", "joined", "detached"}]
      BY <1>1, <1>3 DEF TestTypeOK
    <2> QED
      BY <1>4, <1>6, <2>1, <2>2 DEF TestTypeOK
  <1>8. d2 \in {<<>>, <<TT!Finish(f)>>, <<TT!Work, TT!Finish(f)>>} /\ (d2 # <<>> => Done(Whole, k, "async", f))
    <2>1. TaskOK(k, f)
      BY <1>2, <1>3 DEF StateOK
    <2> HIDE DEF f
    <2> QED
      BY <1>0, <1>1, <2>1 DEF TaskOK, TaskCodes
  <1>9. d2 \in Detours(k)
    BY <1>2, <1>8 DEF Detours
  <1>10. d2 = <<>> \/ d2[1].op # "unlock"
    <2>1. CASE d2 = <<TT!Finish(f)>>
      <3>1. d2[1] = TT!Finish(f)
        BY <2>1
      <3> QED
        BY <3>1, OpNames
    <2>2. CASE d2 = <<TT!Work, TT!Finish(f)>>
      <3>1. d2[1] = TT!Work
        BY <2>2
      <3> QED
        BY <3>1, OpNames
    <2> QED
      BY <1>8, <2>1, <2>2
  <1>11. GoesOn(k, d2)
    <2>1. code["main"] = <<>> \o s /\ inScope = (k <= Len(Whole))
      BY <1>3 DEF StateOK, PositionOK
    <2>2. s \in Seq({Whole[i] : i \in 1..Len(Whole)})
      BY <1>3, WholeSeq, Suffix
    <2>3. <<>> \o s = s
      BY <2>2, ConcatEmptySeq
    <2>4. code'["main"] = d2 \o s
      BY <1>4, <2>1, <2>3
    <2> QED
      BY <1>1, <1>3, <1>9, <2>1, <2>4 DEF GoesOn
  <1>12. LocksOK(k, d2)'
    <2>1. \A m \in TT!Mutexes : held'[m] = held[m] /\ MainHas(m, k, d2) = MainHas(m, k, <<>>)
      BY <1>1, <1>10, HasNothing
    <2>2. \A m \in TT!Mutexes : \A u \in TT!Children : code'[u] \in Critical(m) <=> code[u] \in Critical(m)
      BY <1>5
    <2>3. LocksOK(k, <<>>) /\ program' = program
      BY <1>1, <1>3 DEF StateOK
    <2> QED
      BY <2>1, <2>2, <2>3, LocksStep
  <1>13. ASSUME NEW u \in TT!Children PROVE ThreadOK(k, u)'
    <2>1. ThreadOK(k, u) /\ code'[u] = code[u] /\ handle'[u] = handle[u]
      BY <1>1, <1>3, <1>5 DEF StateOK
    <2>2. result'[Own[u]] \in {result[Own[u]], "pending"}
      BY <1>6, OwnTasks
    <2> QED
      BY <1>1, <1>3, <2>1, <2>2, ThreadKept
  <1>14. ASSUME NEW g \in TT!Tasks PROVE TaskOK(k, g)'
    <2>0. TaskOK(k, g)
      BY <1>3 DEF StateOK
    <2>1. CASE g # f
      <3>1. code'[g] = code[g] /\ result'[g] \in {result[g], "ready", "pending"}
        BY <1>5, <1>6, <2>1
      <3> QED
        BY <1>1, <1>3, <2>0, <3>1, TaskKept
    <2>2. CASE g = f
      <3>1. code'[g] = <<>> /\ result'[g] = "pending"
        BY <1>4, <1>6, <2>2
      <3>2. <<>> \in TaskCodes(g) /\ <<>> # <<TT!ReadLocal, TT!Work, TT!Finish(g)>>
        BY DEF TaskCodes
      <3> QED
        BY <3>1, <3>2 DEF TaskOK
    <2> QED
      BY <2>1, <2>2
  <1> QED
    BY <1>1, <1>7, <1>11, <1>12, <1>13, <1>14, GoesOnOK

-----------------------------------------------------------------------------
(* The invariant is inductive.                                             *)

\* A step of a detour.
LEMMA DetourStep ==
  ASSUME TestTypeOK, NEW k \in 1..(Len(Whole) + 1), NEW d \in Detours(k), d # <<>>, StateOK(k, d),
         code["main"] # <<>>, Head(code["main"]) = Head(d),
         Tail(code["main"]) = Tail(d) \o SubSeq(Whole, k, Len(Whole)), TT!Step("main")
  PROVE  TestInv'
  <1>1. /\ Tail(d) \in Detours(k)
        /\ \/ Head(d) = TT!Work
           \/ \E f \in TT!Tasks : Head(d) = TT!Finish(f) /\ Done(Whole, k, "async", f)
           \/ \E m \in {"mutex", "m1", "m2"} : Head(d) = TT!Unlock({m})
    BY DetourSteps
  <1>2. k <= Len(Whole) /\ inScope = (k <= Len(Whole)) /\ "main" \in TT!Actors /\ "main" \in DOMAIN code
    BY DEF StateOK, PositionOK, TestTypeOK, TT!Actors
  <1>3. PICK e : e = Tail(d)
    OBVIOUS
  <1>4. ASSUME code' = [code EXCEPT !["main"] = Tail(code["main"])], program' = program, handle' = handle,
               inScope' = inScope
        PROVE  OnlyMain /\ GoesOn(k, e)
    <2>1. OnlyMain
      BY <1>4 DEF OnlyMain
    <2>2. code'["main"] = e \o SubSeq(Whole, k, Len(Whole))
      BY <1>2, <1>3, <1>4
    <2>3. inScope' = (k <= Len(Whole))
      BY <1>2, <1>4
    <2> QED
      BY <1>1, <1>2, <1>3, <2>1, <2>2, <2>3 DEF GoesOn
  <1>5. AboutNone(k, k)
    BY <1>2 DEF AboutNone
  <1>6. ASSUME result' = result PROVE ResultsGo(k, k)
    BY <1>6 DEF ResultsGo, TestTypeOK, Results
  <1>7. ASSUME held' = held, Head(d).op # "unlock" PROVE LocksGo(k, d, k, e)
    <2>1. \A m \in TT!Mutexes : held'[m] = held[m] /\ MainHas(m, k, e) = MainHas(m, k, d)
      BY <1>3, <1>7, DetourHas
    <2> QED
      BY <1>7, <2>1 DEF LocksGo, TestTypeOK
  <1>8. CASE Head(d) = TT!Work
    <2>1. Head(d).op = "work"
      BY <1>8, OpNames
    <2>2. TT!DoWork("main")
      BY <1>2, <2>1, StepIs
    <2>3. /\ code' = [code EXCEPT !["main"] = Tail(code["main"])] /\ program' = program
          /\ handle' = handle /\ inScope' = inScope /\ result' = result /\ held' = held
      BY <2>2 DEF TT!DoWork, TT!GoOn
    <2> QED
      BY <1>4, <1>5, <1>6, <1>7, <2>1, <2>3, MainAlone
  <1>9. ASSUME NEW f \in TT!Tasks, Head(d) = TT!Finish(f), Done(Whole, k, "async", f)
        PROVE  TestInv'
    <2>1. Head(d).op = "finish" /\ Head(d).on = f
      BY <1>9, OpNames
    <2>2. TT!DoFinish("main")
      BY <1>2, <2>1, StepIs
    <2>3. /\ code' = [code EXCEPT !["main"] = Tail(code["main"])] /\ program' = program
          /\ handle' = handle /\ inScope' = inScope /\ result' = [result EXCEPT ![f] = "ready"] /\ held' = held
      BY <2>1, <2>2 DEF TT!DoFinish, TT!GoOn, TT!This
    <2>4. /\ result' \in [TT!Tasks -> Results] /\ result'[f] = "ready"
          /\ \A g \in TT!Tasks : g # f => result'[g] = result[g]
      BY <2>3 DEF TestTypeOK, Results
    <2>5. ASSUME NEW u \in TT!Children, Own[u] = f PROVE ~ Owes(k, u)
      <3> SUFFICES ASSUME Done(Whole, k, "promise", f) PROVE FALSE
        BY <2>5 DEF Owes
      <3>1. PICK i \in 1..(k - 1) : Whole[i].op = "promise" /\ Whole[i].on = f
        BY DEF Done
      <3>2. i \in 1..Len(Whole)
        BY WholeSeq
      <3> QED
        BY <1>9, <3>1, <3>2, Once DEF Creates
    <2>6. \A u \in TT!Children : result'[Own[u]] \in {result[Own[u]], "pending"} \/ ~ Owes(k, u)
      BY <2>4, <2>5, OwnTasks
    <2>7. ResultsGo(k, k)
      BY <2>4, <2>6 DEF ResultsGo
    <2> QED
      BY <1>4, <1>5, <1>7, <2>1, <2>3, <2>7, MainAlone
  <1>10. ASSUME NEW n \in {"mutex", "m1", "m2"}, Head(d) = TT!Unlock({n})
         PROVE  TestInv'
    <2>1. Head(d).op = "unlock" /\ Head(d).mutexes = {n}
      BY <1>10, OpNames
    <2>2. TT!DoUnlock("main")
      BY <1>2, <2>1, StepIs
    <2>3. /\ code' = [code EXCEPT !["main"] = Tail(code["main"])] /\ program' = program
          /\ handle' = handle /\ inScope' = inScope /\ result' = result
          /\ held' = [m \in TT!Mutexes |-> IF m \in {n} THEN Tail(held[m]) ELSE held[m]]
      BY <2>1, <2>2 DEF TT!DoUnlock, TT!GoOn, TT!This
    <2>4. ASSUME NEW m \in TT!Mutexes, m = n PROVE held[m] = MainHas(m, k, d) /\ held'[m] = MainHas(m, k, e)
      <3>1. MainHas(m, k, d) = <<"main">> /\ MainHas(m, k, e) = <<>>
        BY <1>3, <2>1, <2>4, DetourHas
      <3>2. <<"main">> # <<>> /\ Tail(<<"main">>) = <<>>
        OBVIOUS
      <3>3. held[m] = MainHas(m, k, d)
        BY <3>1, <3>2 DEF StateOK, LocksOK
      <3> QED
        BY <2>3, <2>4, <3>1, <3>2, <3>3
    <2>5. ASSUME NEW m \in TT!Mutexes, m # n PROVE held'[m] = held[m] /\ MainHas(m, k, e) = MainHas(m, k, d)
      BY <1>3, <2>1, <2>3, <2>5, DetourHas
    <2>6. LocksGo(k, d, k, e)
      BY <2>3, <2>4, <2>5 DEF LocksGo
    <2> QED
      BY <1>4, <1>5, <1>6, <2>3, <2>6, MainAlone
  <1> QED
    BY <1>1, <1>8, <1>9, <1>10

\* A step of main.
LEMMA MainStep ==
  ASSUME TestTypeOK, NEW k \in 1..(Len(Whole) + 1), NEW d \in Detours(k), StateOK(k, d), TT!Step("main")
  PROVE  TestInv'
  <1>0. "main" \in TT!Actors
    BY DEF TT!Actors
  <1>1. code["main"] # <<>>
    BY <1>0, StepIs
  <1>2. /\ k <= Len(Whole)
        /\ \/ /\ d # <<>>
              /\ Head(code["main"]) = Head(d)
              /\ Tail(code["main"]) = Tail(d) \o SubSeq(Whole, k, Len(Whole))
           \/ /\ d = <<>>
              /\ Head(code["main"]) = Whole[k]
              /\ Tail(code["main"]) = <<>> \o SubSeq(Whole, k + 1, Len(Whole))
    BY <1>1, MainNext DEF StateOK
  <1>3. CASE d # <<>>
    BY <1>1, <1>2, <1>3, DetourStep
  <1>4. CASE d = <<>>
    <2>4. Head(code["main"]) = Whole[k] /\ Tail(code["main"]) = <<>> \o SubSeq(Whole, k + 1, Len(Whole))
      BY <1>2, <1>4
    <2>5. StateOK(k, <<>>)
      BY <1>4
    <2>6. k \in 1..Len(Whole)
      BY <1>2, WholeSeq
    <2>1. MainAt(k) /\ k \in 1..Len(Whole)
      BY <1>1, <2>4, <2>5, <2>6 DEF MainAt
    <2>2. Whole[k].op \in {"work", "start", "join", "detach", "async", "promise", "wait", "get", "poll",
                           "return", "lock", "unlock", "try"}
      BY <2>1, WholeWell DEF WellFormed, OpsOK
    <2>3. \/ TT!DoWork("main") \/ TT!DoWait("main") \/ TT!DoGet("main") \/ TT!DoPromise("main")
          \/ TT!DoJoin("main") \/ TT!DoDetach("main") \/ TT!DoStart("main") \/ TT!DoAsync("main")
          \/ TT!DoLock("main") \/ TT!DoUnlock("main") \/ TT!DoTry("main") \/ TT!DoReturn("main")
          \/ TT!DoDeferred("main")
      BY <1>0, <2>1, <2>2, StepIs DEF MainAt
    <2> QED
      BY <2>1, <2>3, WorkStep, GetStep, PromiseStep, JoinStep, StartStep, AsyncStep, TakeStep, GiveStep,
         TryStep, ReturnStep, DeferredStep
  <1> QED
    BY <1>3, <1>4

-----------------------------------------------------------------------------
\* The beginning of a test function, or of a program of CondVar.
LEMMA TestStart == TT!Rest => TestInv
  <1> SUFFICES ASSUME TT!Rest PROVE TestInv
    OBVIOUS
  <1>1. /\ code = [a \in TT!Actors |-> IF a = "main" THEN Whole ELSE <<>>]
        /\ handle = [t \in TT!Children |-> "none"]
        /\ held = [m \in TT!Mutexes |-> <<>>]
        /\ result = [f \in TT!Tasks |-> "none"]
        /\ inScope = (program \in DOMAIN TT!Code)
    BY DEF TT!Rest, Whole
  <1>2. TestTypeOK
    BY <1>1 DEF TestTypeOK
  <1>3. 1 \in 1..(Len(Whole) + 1) /\ <<>> \in Detours(1)
    BY WholeSeq DEF Detours
  <1>4. PositionOK(1, <<>>)
    <2>1. code["main"] = Whole
      BY <1>1 DEF TT!Actors
    <2>2. <<>> \o SubSeq(Whole, 1, Len(Whole)) = Whole
      BY WholeSeq, SubSeqFull, ConcatEmptySeq
    <2>3. program \in DOMAIN TT!Code <=> 1 <= Len(Whole)
      <3>1. CASE program \in DOMAIN TT!Code
        BY <3>1, WholeOK DEF WellFormed, IsSeq
      <3>2. CASE program \notin DOMAIN TT!Code
        BY <3>2, WholeOK
      <3> QED
        BY <3>1, <3>2
    <2>4. inScope = (1 <= Len(Whole))
      BY <1>1, <2>3
    <2> QED
      BY <2>1, <2>2, <2>4 DEF PositionOK
  <1>5. LocksOK(1, <<>>)
    <2>1. \A m \in TT!Mutexes : MainHas(m, 1, <<>>) = <<>>
      BY NoDetour DEF MainHas
    <2>2. \A u \in TT!Children : code[u] = <<>>
      BY <1>1 DEF TT!Actors, TT!Children
    <2>3. \A u \in TT!Children : <<>> # <<u>>
      OBVIOUS
    <2> QED
      BY <1>1, <2>1, <2>2, <2>3, Kinds DEF LocksOK
  <1>6. \A op, x : ~ Done(Whole, 1, op, x)
    BY DEF Done
  <1>7. ASSUME NEW u \in TT!Children PROVE ThreadOK(1, u)
    <2>1. code[u] = <<>> /\ handle[u] = "none"
      BY <1>1 DEF TT!Actors, TT!Children
    <2>2. CodeOK(u)
      BY <2>1 DEF CodeOK
    <2>3. code[u] \notin Reports(Own[u])
      BY <2>1, Kinds
    <2> QED
      BY <1>6, <2>1, <2>2, <2>3 DEF ThreadOK
  <1>8. ASSUME NEW f \in TT!Tasks PROVE TaskOK(1, f)
    <2>1. code[f] = <<>> /\ result[f] = "none"
      BY <1>1 DEF TT!Actors, TT!Tasks
    <2>2. <<>> \in TaskCodes(f) /\ <<>> # <<TT!ReadLocal, TT!Work, TT!Finish(f)>>
      BY DEF TaskCodes
    <2> QED
      BY <1>6, <2>1, <2>2 DEF TaskOK
  <1> QED
    BY <1>2, <1>3, <1>4, <1>5, <1>7, <1>8 DEF TestInv, StateOK

\* A step of a test function.
LEMMA TestNext == TestInv /\ TT!Next => TestInv'
  <1> SUFFICES ASSUME TestInv, TT!Next PROVE TestInv'
    OBVIOUS
  <1>1. PICK a \in TT!Actors : TT!Step(a)
    BY DEF TT!Next
  <1>2. TestTypeOK
    BY DEF TestInv
  <1>3. PICK k \in 1..(Len(Whole) + 1) : \E d \in Detours(k) : StateOK(k, d)
    BY DEF TestInv
  <1>4. PICK d \in Detours(k) : StateOK(k, d)
    BY <1>3
  <1>5. CASE a = "main"
    BY <1>1, <1>2, <1>4, <1>5, MainStep
  <1>6. ASSUME a # "main" PROVE TestTypeOK' /\ d \in Detours(k)' /\ StateOK(k, d)' /\ k \in (1..(Len(Whole) + 1))'
    <2>1. a \in TT!Children \/ a \in TT!Tasks
      BY <1>1, <1>6 DEF TT!Actors
    <2>2. TestTypeOK' /\ d \in Detours(k)' /\ StateOK(k, d)'
      BY <1>1, <1>2, <1>4, <2>1, ThreadStep, TaskStep
    <2>3. program' = program
      BY <1>1 DEF TT!Step, TT!DoWork, TT!DoReady, TT!DoWhile, TT!DoStart, TT!DoJoin, TT!DoDetach, TT!DoLock,
                  TT!DoTry, TT!DoUnlock, TT!DoAsync, TT!DoFinish, TT!DoPromise, TT!DoDeferred, TT!DoWait,
                  TT!DoGet, TT!DoReturn
    <2>4. Whole' = Whole
      BY <2>3, Fixed
    <2> QED
      BY <2>2, <2>4
  <1>7. CASE a # "main"
    BY <1>6, <1>7 DEF TestInv
  <1> QED
    BY <1>5, <1>7

\* A step that leaves the test function alone.
LEMMA TestUnchanged == TestInv /\ UNCHANGED testVars => TestInv'
  <1> SUFFICES ASSUME TestInv, UNCHANGED testVars PROVE TestInv'
    OBVIOUS
  <1>1. /\ program' = program /\ code' = code /\ handle' = handle /\ held' = held
        /\ result' = result /\ inScope' = inScope
    BY DEF testVars
  <1>2. Whole' = Whole /\ FreeOps' = FreeOps /\ (\A k : Detours(k)' = Detours(k))
        /\ \A m, k, d : MainHas(m, k, d)' = MainHas(m, k, d)
    BY <1>1, Fixed
  <1>3. TestTypeOK'
    BY <1>1 DEF TestInv, TestTypeOK
  <1>4. ASSUME NEW k, NEW d, StateOK(k, d) PROVE StateOK(k, d)'
    <2>1. PositionOK(k, d)' /\ LocksOK(k, d)'
      BY <1>1, <1>2, <1>4 DEF StateOK, PositionOK, LocksOK
    <2>2. \A t \in TT!Children : ThreadOK(k, t)'
      BY <1>1, <1>2, <1>4 DEF StateOK, ThreadOK, CodeOK, Done, Todo, Reporting
    <2>3. \A f \in TT!Tasks : TaskOK(k, f)'
      BY <1>1, <1>2, <1>4 DEF StateOK, TaskOK, Done
    <2> QED
      BY <2>1, <2>2, <2>3 DEF StateOK
  <1> QED
    BY <1>2, <1>3, <1>4 DEF TestInv

-----------------------------------------------------------------------------
(* What the invariant tells of the next operation of each, and the theorems. *)

\* What the next operation of a thread tells of it: it has the mutex that it
\* gives back, and, in TestUniqueLock, that of readyFlag when it uses the flag;
\* it keeps its promise when it uses what it refers to; it asks no future.
LEMMA ThreadAt ==
  ASSUME NEW k, NEW d, StateOK(k, d), NEW t \in TT!Children, code[t] # <<>>
  PROVE  LET o == Head(code[t]) IN
         /\ o.op = "unlock" => \E m \in TT!Mutexes : o.mutexes = {m} /\ held[m] = <<t>>
         /\ o.op \in {"while", "ready"} /\ program = "TestUniqueLock" =>
              held["readyFlagMutex"] = <<t>>
         /\ o.op \in {"read", "set"} => code[t] \in Reports(Own[t])
         /\ o.op \notin Asks
  <1>1. CodeOK(t) /\ \A m \in TT!Mutexes : code[t] \in Critical(m) => held[m] = <<t>>
    BY DEF StateOK, ThreadOK, LocksOK
  <1> DEFINE o == Head(code[t])
  <1>2. CASE code[t] \in Seq(FreeOps)
    <2>1. /\ o.op \in {"work", "job", "forever", "ready", "while"}
          /\ o.op \in {"ready", "while"} => program # "TestUniqueLock"
      BY <1>2, FreeSteps
    <2> QED
      BY <2>1 DEF Asks
  <1>3. ASSUME NEW m \in TT!Mutexes, code[t] \in Before(m)
        PROVE  o.op \in {"work", "lock", "try"}
    BY <1>3, BeforeSteps
  <1>4. ASSUME NEW m \in TT!Mutexes, code[t] \in Critical(m)
        PROVE  /\ held[m] = <<t>>
               /\ o.op \in {"work", "ready", "while", "unlock"}
               /\ o.op = "unlock" => o.mutexes = {m}
               /\ o.op \in {"ready", "while"} => m = "readyFlagMutex"
    BY <1>1, <1>4, CriticalSteps
  <1>5. CASE code[t] \in Reports(Own[t])
    <2>1. o.op \in {"work", "read", "set"}
      BY <1>5, ReportSteps
    <2> QED
      BY <1>5, <2>1 DEF Asks
  <1> HIDE DEF o
  <1>6. /\ o.op = "unlock" => \E m \in TT!Mutexes : o.mutexes = {m} /\ held[m] = <<t>>
        /\ o.op \in {"while", "ready"} /\ program = "TestUniqueLock" =>
             held["readyFlagMutex"] = <<t>>
        /\ o.op \in {"read", "set"} => code[t] \in Reports(Own[t])
        /\ o.op \notin Asks
    BY <1>1, <1>2, <1>3, <1>4, <1>5 DEF CodeOK, Asks, o
  <1> QED
    BY <1>6 DEF o

\* The same of a task: its next operation is work, its end or the read of an
\* argument, and then the test function still runs.
LEMMA TaskAt ==
  ASSUME NEW k, NEW d, StateOK(k, d), NEW f \in TT!Tasks, code[f] # <<>>
  PROVE  /\ Head(code[f]).op \in {"work", "finish", "read"}
         /\ Head(code[f]).op = "read" => inScope
  <1>1. /\ code[f] \in TaskCodes(f)
        /\ code[f] = <<TT!ReadLocal, TT!Work, TT!Finish(f)>> => k <= Len(Whole)
        /\ inScope = (k <= Len(Whole))
    BY DEF StateOK, TaskOK, PositionOK
  <1> QED
    BY <1>1, TaskSteps

\* And of the test function: it has the mutexes that it unlocks, uses no flag
\* and no argument, and asks a future that was created and not yet emptied.
LEMMA FunctionAt ==
  ASSUME NEW k \in 1..(Len(Whole) + 1), NEW d \in Detours(k), StateOK(k, d), code["main"] # <<>>
  PROVE  LET o == Head(code["main"]) IN
         /\ o.op = "unlock" => \A m \in o.mutexes : held[m] # <<>> /\ Head(held[m]) = "main"
         /\ o.op \notin {"while", "ready", "read", "set"}
         /\ o.op \in Asks => result[o.on] \notin {"none", "taken"}
  <1> DEFINE o == Head(code["main"])
  <1>1. /\ k \in 1..Len(Whole)
        /\ (d # <<>> /\ o = Head(d)) \/ (d = <<>> /\ o = Whole[k])
    <2>1. /\ k <= Len(Whole)
          /\ (d # <<>> /\ o = Head(d)) \/ (d = <<>> /\ o = Whole[k])
      BY MainNext DEF StateOK
    <2> QED
      BY WholeSeq, <2>1
  <1>2. /\ <<"main">> # <<>> /\ Head(<<"main">>) = "main"
        /\ <<"main", "main">> # <<>> /\ Head(<<"main", "main">>) = "main"
    OBVIOUS
  <1>3. ASSUME NEW m \in TT!Mutexes, MainHas(m, k, d) \in {<<"main">>, <<"main", "main">>}
        PROVE  held[m] # <<>> /\ Head(held[m]) = "main"
    <2>1. held[m] = MainHas(m, k, d) \/ MainHas(m, k, d) = <<>>
      BY DEF StateOK, LocksOK
    <2> QED
      BY <1>2, <1>3, <2>1
  <1> HIDE DEF o
  <1>4. CASE d # <<>> /\ o = Head(d)
    <2>1. \/ o = TT!Work \/ \E f \in TT!Tasks : o = TT!Finish(f)
          \/ \E m \in {"mutex", "m1", "m2"} : o = TT!Unlock({m})
      BY <1>4, DetourSteps
    <2>2. \/ o.op \in {"work", "finish"}
          \/ o.op = "unlock" /\ \E m \in TT!Mutexes : o.mutexes = {m}
      BY <2>1, OpNames DEF TT!Mutexes
    <2>3. ASSUME o.op = "unlock", NEW m \in o.mutexes
          PROVE  held[m] # <<>> /\ Head(held[m]) = "main"
      <3>1. m \in TT!Mutexes
        BY <2>2, <2>3
      <3>2. MainHas(m, k, d) = <<"main">>
        BY <1>4, <2>3, <3>1, DetourHas
      <3> QED
        BY <1>3, <3>1, <3>2
    <2> QED
      BY <2>2, <2>3 DEF o, Asks
  <1>5. CASE d = <<>> /\ o = Whole[k]
    <2>1. WellFormed(Whole)
      BY <1>1, WholeWell
    <2>2. o.op \notin {"while", "ready", "read", "set"}
      BY <1>1, <1>5, <2>1 DEF WellFormed, OpsOK
    <2>3. ASSUME o.op = "unlock", NEW m \in o.mutexes
          PROVE  held[m] # <<>> /\ Head(held[m]) = "main"
      <3>1. m \in TT!Mutexes
        BY <1>1, <1>5, <2>3, LockOps DEF TT!Mutexes
      <3>2. MainHas(m, k, d) \in {<<"main">>, <<"main", "main">>}
        BY <1>1, <1>5, <2>3, <3>1, UnlockHas
      <3> QED
        BY <1>3, <3>1, <3>2
    <2>4. ASSUME o.op \in Asks PROVE result[o.on] \notin {"none", "taken"}
      <3>1. o.on \in TT!Tasks
        BY <1>1, <1>5, <2>1, <2>4 DEF WellFormed, OpsOK, Asks
      <3>2. /\ Done(Whole, k, "async", o.on) \/ Done(Whole, k, "promise", o.on)
            /\ ~ Done(Whole, k, "get", o.on)
        BY <1>1, <1>5, <2>1, <2>4 DEF WellFormed, AsksOK, Asks
      <3>3. TaskOK(k, o.on)
        BY <3>1 DEF StateOK
      <3> QED
        BY <3>2, <3>3 DEF TaskOK
    <2> QED
      BY <2>2, <2>3, <2>4 DEF o
  <1> QED
    BY <1>1, <1>4, <1>5

\* At the end of the test function it has no mutex any more.
LEMMA HasNoneAtTheEnd ==
  ASSUME NEW m
  PROVE  MainHas(m, Len(Whole) + 1, <<>>) = <<>>
  <1>1. Len(Whole) \in Nat /\ program \in LockPrograms => Len(Whole) >= 4
    BY WholeSeq, LockCode DEF LockPrograms
  <1> QED
    BY <1>1, WholeSeq, NoDetour DEF MainHas, LockPrograms

\* When nothing is left to do no mutex is locked.
LEMMA NothingStaysLocked ==
  ASSUME TestInv, \A a \in TT!Actors : code[a] = <<>>, NEW m \in TT!Mutexes
  PROVE  held[m] = <<>>
  <1>1. PICK k \in 1..(Len(Whole) + 1) : \E d \in Detours(k) : StateOK(k, d)
    BY DEF TestInv
  <1>2. PICK d \in Detours(k) : StateOK(k, d)
    BY <1>1
  <1>3. k = Len(Whole) + 1 /\ d = <<>>
    <2> DEFINE S == DetourOps \cup {Whole[i] : i \in 1..Len(Whole)}
               s == SubSeq(Whole, k, Len(Whole))
    <2>1. Whole \in Seq(S) /\ d \in Seq(S) /\ Len(Whole) \in Nat
      <3>1. Whole \in Seq(S)
        BY WholeSeq, SeqMonotonic
      <3>2. d \in Seq(S)
        BY DetourSteps, SeqMonotonic
      <3> QED
        BY WholeSeq, <3>1, <3>2
    <2>2. s \in Seq(S) /\ (k <= Len(Whole) => s # <<>>)
      <3> HIDE DEF S
      <3> QED
        BY <2>1, Suffix
    <2>3. d \o s = <<>> /\ (d # <<>> => k <= Len(Whole))
      BY <1>2 DEF StateOK, PositionOK, TT!Actors
    <2> HIDE DEF s, S
    <2>4. d = <<>>
      BY <2>1, <2>2, <2>3, Prefixed
    <2>5. s = <<>>
      BY <2>1, <2>2, <2>3, <2>4, Prefixed
    <2> QED
      BY <2>1, <2>2, <2>4, <2>5
  <1>4. MainHas(m, k, d) = <<>>
    BY <1>3, HasNoneAtTheEnd
  <1>5. \A t \in TT!Children : held[m] # <<t>>
    <2> SUFFICES ASSUME NEW t \in TT!Children, held[m] = <<t>> PROVE FALSE
      OBVIOUS
    <2>1. code[t] \in Critical(m) /\ code[t] = <<>>
      BY <1>2 DEF StateOK, LocksOK, TT!Actors
    <2> QED
      BY <2>1, Kinds
  <1> QED
    BY <1>2, <1>4, <1>5 DEF StateOK, LocksOK

\* The invariant implies that mutexes are kept.
LEMMA TestLocks == TestInv => LocksKept
  <1> SUFFICES ASSUME TestInv PROVE LocksKept
    OBVIOUS
  <1>1. PICK k \in 1..(Len(Whole) + 1) : \E d \in Detours(k) : StateOK(k, d)
    BY DEF TestInv
  <1>2. PICK d \in Detours(k) : StateOK(k, d)
    BY <1>1
  <1>3. ASSUME NEW a \in TT!Actors, TT!At(a, "unlock"), NEW m \in TT!This(a).mutexes
        PROVE  held[m] # <<>> /\ Head(held[m]) = a
    <2>1. code[a] # <<>> /\ Head(code[a]).op = "unlock" /\ m \in Head(code[a]).mutexes
      BY <1>3 DEF TT!At, TT!This
    <2>2. CASE a = "main"
      BY <1>2, <2>1, <2>2, FunctionAt
    <2>3. CASE a \in TT!Children
      <3>1. held[m] = <<a>>
        BY <1>2, <2>1, <2>3, ThreadAt
      <3> QED
        BY <3>1
    <2>4. CASE a \in TT!Tasks
      BY <1>2, <2>1, <2>4, TaskAt
    <2> QED
      BY <2>2, <2>3, <2>4 DEF TT!Actors
  <1>4. ASSUME NEW a \in TT!Actors, program = "TestUniqueLock", TT!At(a, "while") \/ TT!At(a, "ready")
        PROVE  held["readyFlagMutex"] = <<a>>
    <2>1. code[a] # <<>> /\ Head(code[a]).op \in {"while", "ready"}
      BY <1>4 DEF TT!At
    <2>2. CASE a = "main"
      BY <1>2, <2>1, <2>2, FunctionAt
    <2>3. CASE a \in TT!Children
      BY <1>2, <1>4, <2>1, <2>3, ThreadAt
    <2>4. CASE a \in TT!Tasks
      BY <1>2, <2>1, <2>4, TaskAt
    <2> QED
      BY <2>2, <2>3, <2>4 DEF TT!Actors
  <1>5. (\A a \in TT!Actors : code[a] = <<>>) => \A m \in TT!Mutexes : held[m] = <<>>
    BY NothingStaysLocked
  <1> QED
    BY <1>3, <1>4, <1>5 DEF LocksKept, TT!LocksKept

\* The invariant implies that nothing is used after its life.
LEMMA TestLifetimes == TestInv => Lifetimes
  <1> SUFFICES ASSUME TestInv PROVE Lifetimes
    OBVIOUS
  <1>1. PICK k \in 1..(Len(Whole) + 1) : \E d \in Detours(k) : StateOK(k, d)
    BY DEF TestInv
  <1>2. PICK d \in Detours(k) : StateOK(k, d)
    BY <1>1
  <1>0. /\ inScope = (k <= Len(Whole)) /\ Len(Whole) \in Nat
        /\ \A op, x : Todo(Whole, k, op, x) => k <= Len(Whole)
    BY <1>2, WholeSeq DEF StateOK, PositionOK, Todo
  <1>3. ASSUME NEW a \in TT!Actors, TT!At(a, "read") \/ TT!At(a, "set")
        PROVE  inScope
    <2>1. code[a] # <<>> /\ Head(code[a]).op \in {"read", "set"}
      BY <1>3 DEF TT!At
    <2>2. CASE a = "main"
      BY <1>2, <2>1, <2>2, FunctionAt
    <2>3. CASE a \in TT!Children
      <3>1. code[a] \in Reports(Own[a]) /\ ThreadOK(k, a)
        BY <1>2, <2>1, <2>3, ThreadAt DEF StateOK
      <3>2. Todo(Whole, k, "get", Own[a])
        BY <3>1 DEF ThreadOK
      <3> QED
        BY <1>0, <3>2
    <2>4. CASE a \in TT!Tasks
      BY <1>2, <2>1, <2>4, TaskAt
    <2> QED
      BY <2>2, <2>3, <2>4 DEF TT!Actors
  <1>4. ASSUME NEW a \in TT!Actors, TT!At(a, "get") \/ TT!At(a, "wait") \/ TT!At(a, "poll")
        PROVE  result[TT!This(a).on] \notin {"none", "taken"}
    <2>1. code[a] # <<>> /\ Head(code[a]).op \in Asks
      BY <1>4 DEF TT!At, Asks
    <2>2. CASE a = "main"
      BY <1>2, <2>1, <2>2, FunctionAt DEF TT!This
    <2>3. CASE a \in TT!Children
      BY <1>2, <2>1, <2>3, ThreadAt
    <2>4. CASE a \in TT!Tasks
      BY <1>2, <2>1, <2>4, TaskAt DEF Asks
    <2> QED
      BY <2>2, <2>3, <2>4 DEF TT!Actors
  <1>5. ASSUME ~ inScope, NEW t \in TT!Children PROVE handle[t] # "joinable"
    <2>1. ThreadOK(k, t)
      BY <1>2 DEF StateOK
    <2> QED
      BY <1>0, <1>5, <2>1 DEF ThreadOK
  <1> QED
    BY <1>3, <1>4, <1>5 DEF Lifetimes, TT!Lifetimes

\* Whatever else happens, the test functions of ThreadTests keep the invariant.
THEOREM TestsInvariant == ThreadsSpec => []TestInv
  <1>1. ThreadsInit => TestInv
    BY TestStart DEF ThreadsInit, TT!Init
  <1>2. TestInv /\ [ThreadsNext]_<<vars, testVars>> => TestInv'
    BY TestNext, TestUnchanged DEF ThreadsNext
  <1> QED
    BY <1>1, <1>2, PTL DEF ThreadsSpec

\* A thread unlocks only what it has locked, the plain bool readyFlag is only used
\* with its mutex (mutex_lock.h:161-193), and in the end nothing stays locked.
THEOREM LocksAreKept == ThreadsSpec => []LocksKept
  BY TestsInvariant, TestLocks, PTL

\* No thread, detached or not, uses a local of a test function that has returned;
\* a future is asked only while it has its result; and no std::thread is left
\* joinable (thread_promise.h, wait_for_two_task.h).
THEOREM LifetimesHold == ThreadsSpec => []Lifetimes
  BY TestsInvariant, TestLifetimes, PTL
=============================================================================
