-------------------------- MODULE SafeQueueProofs --------------------------
(***************************************************************************)
(* The queue of SafeQueue.tla for any set of threads and any number of     *)
(* pushes: its invariants, which together are inductive, and that it       *)
(* implements the atomic queue of TaskQueue.tla.                           *)
(***************************************************************************)
EXTENDS SafeQueue, SequenceTheorems, FiniteSetTheorems, TLAPS

IInv == TypeOK /\ MutexOK /\ FifoOK /\ NoLostWakeup

-----------------------------------------------------------------------------
\* The set of awake threads has a size, and how a step changes the size.
LEMMA AwakeFinite == /\ IsFiniteSet(Awake)
                     /\ Cardinality(Awake) \in Nat
  <1>1. Awake \subseteq Threads
    BY DEF Awake
  <1>2. IsFiniteSet(Awake)
    BY <1>1, ThreadsAssumption, FS_Subset
  <1> QED
    BY <1>2, FS_CardinalityType

\* One more awake thread makes the set one larger.
LEMMA GrowSize ==
  ASSUME NEW S, IsFiniteSet(S), NEW x, x \notin S
  PROVE  Cardinality(S \cup {x}) = Cardinality(S) + 1
  BY FS_AddElement

\* One awake thread less makes it one smaller.
LEMMA ShrinkSize ==
  ASSUME NEW S, IsFiniteSet(S), NEW x \in S
  PROVE  Cardinality(S \ {x}) = Cardinality(S) - 1
  BY FS_RemoveElement

-----------------------------------------------------------------------------
\* The initial state.
LEMMA InitInv == Init => IInv
  <1> SUFFICES ASSUME Init PROVE IInv
    OBVIOUS
  <1>1. TypeOK
    BY EmptySeq DEF Init, TypeOK, Locked, Takers, Threads
  <1>2. MutexOK
    BY ThreadsAssumption DEF Init, MutexOK, Locked
  <1>3. FifoOK
    BY EmptySeq DEF Init, FifoOK
  <1>4. NoLostWakeup
    BY DEF Init, NoLostWakeup
  <1> QED
    BY <1>1, <1>2, <1>3, <1>4 DEF IInv

-----------------------------------------------------------------------------
\* Types are preserved.
LEMMA NextTypeOK == TypeOK /\ [Next]_vars => TypeOK'
  <1> SUFFICES ASSUME TypeOK, [Next]_vars PROVE TypeOK'
    OBVIOUS
  <1> USE DEF TypeOK, Locked, Goto
  <1>1. CASE UNCHANGED vars
    BY <1>1 DEF vars
  <1>2. ASSUME NEW t \in Threads, Push(t) PROVE TypeOK'
    <2>1. CASE PushLock(t)
      BY <2>1 DEF PushLock, Acquire
    <2>2. CASE PushInsert(t)
      <3>1. q' \in Seq(Nat)
        BY <2>2, AppendProperties DEF PushInsert
      <3> QED
        BY <2>2, <3>1 DEF PushInsert
    <2>3. CASE PushNotify(t)
      BY <2>3 DEF PushNotify, NotifyOne
    <2> QED
      BY <1>2, <2>1, <2>2, <2>3 DEF Push
  <1>3. ASSUME NEW t \in Threads, Shift(t) PROVE TypeOK'
    BY <1>3 DEF Shift, ShiftLock, ShiftWait, ShiftWake, Acquire
  <1>4. ASSUME NEW t \in Threads, Poll(t) PROVE TypeOK'
    BY <1>4 DEF Poll, PollLock, PollEmpty, Acquire
  <1>5. ASSUME NEW t \in Threads, Front(t) PROVE TypeOK'
    <2>1. Head(q) \in Nat
      BY <1>5, HeadTailProperties DEF Front
    <2> QED
      BY <1>5, <2>1 DEF Front, Takers
  <1>6. ASSUME NEW t \in Threads, Pop(t) PROVE TypeOK'
    <2>1. q' \in Seq(Nat)
      <3>1. CASE q = <<>>
        BY <1>6, <3>1 DEF Pop
      <3>2. CASE q # <<>>
        BY <1>6, <3>2, HeadTailProperties DEF Pop
      <3> QED
        BY <3>1, <3>2
    <2> QED
      BY <1>6, <2>1 DEF Pop
  <1>7. ASSUME NEW t \in Threads, Unlock(t) PROVE TypeOK'
    BY <1>7 DEF Unlock
  <1>8. ASSUME NEW t \in Threads, Spurious(t) PROVE TypeOK'
    BY <1>8 DEF Spurious
  <1> QED
    BY <1>1, <1>2, <1>3, <1>4, <1>5, <1>6, <1>7, <1>8 DEF Next

-----------------------------------------------------------------------------
\* Mutual exclusion is preserved.
LEMMA NextMutexOK == TypeOK /\ MutexOK /\ [Next]_vars => MutexOK'
  <1> SUFFICES ASSUME TypeOK, MutexOK, [Next]_vars PROVE MutexOK'
    OBVIOUS
  <1> USE ThreadsAssumption DEF TypeOK, MutexOK, Locked, Goto, Acquire
  <1>1. CASE UNCHANGED vars
    BY <1>1 DEF vars
  <1>2. ASSUME NEW t \in Threads, Push(t) PROVE MutexOK'
    <2>1. CASE PushLock(t)
      BY <2>1 DEF PushLock
    <2>2. CASE PushInsert(t)
      BY <2>2 DEF PushInsert
    <2>3. CASE PushNotify(t)
      BY <2>3 DEF PushNotify, NotifyOne
    <2> QED
      BY <1>2, <2>1, <2>2, <2>3 DEF Push
  <1>3. ASSUME NEW t \in Threads, Shift(t) PROVE MutexOK'
    <2>1. CASE ShiftLock(t)
      BY <2>1 DEF ShiftLock
    <2>2. CASE ShiftWait(t)
      BY <2>2 DEF ShiftWait
    <2>3. CASE ShiftWake(t)
      BY <2>3 DEF ShiftWake
    <2> QED
      BY <1>3, <2>1, <2>2, <2>3 DEF Shift
  <1>4. ASSUME NEW t \in Threads, Poll(t) PROVE MutexOK'
    <2>1. CASE PollLock(t)
      BY <2>1 DEF PollLock
    <2>2. CASE PollEmpty(t)
      BY <2>2 DEF PollEmpty
    <2> QED
      BY <1>4, <2>1, <2>2 DEF Poll
  <1>5. ASSUME NEW t \in Threads, Front(t) \/ Pop(t) PROVE MutexOK'
    <2>1. CASE Front(t)
      BY <2>1 DEF Front
    <2>2. CASE Pop(t)
      BY <2>2 DEF Pop
    <2> QED
      BY <1>5, <2>1, <2>2
  <1>6. ASSUME NEW t \in Threads, Unlock(t) PROVE MutexOK'
    BY <1>6 DEF Unlock
  <1>7. ASSUME NEW t \in Threads, Spurious(t) PROVE MutexOK'
    BY <1>7 DEF Spurious
  <1> QED
    BY <1>1, <1>2, <1>3, <1>4, <1>5, <1>6, <1>7 DEF Next

-----------------------------------------------------------------------------
\* The order of the items is preserved: only the holder of the mutex changes
\* the queue, and only the thread that called front pops.
LEMMA NextFifoOK == TypeOK /\ MutexOK /\ FifoOK /\ [Next]_vars => FifoOK'
  <1> SUFFICES ASSUME TypeOK, MutexOK, FifoOK, [Next]_vars PROVE FifoOK'
    OBVIOUS
  <1> USE DEF Goto
  <1>0. \A t, u \in Threads : pc[t] \in Locked /\ pc[u] \in Locked => t = u
    BY DEF MutexOK
  <1>1. CASE UNCHANGED vars
    BY <1>1 DEF vars, FifoOK
  <1>2. ASSUME NEW t \in Threads, PushInsert(t) PROVE FifoOK'
    <2>1. /\ q' \in Seq(Nat)
          /\ Len(q') = Len(q) + 1
          /\ \A i \in 1..Len(q) : q'[i] = q[i]
          /\ q'[Len(q) + 1] = sent + 1
      BY <1>2, AppendProperties DEF PushInsert, TypeOK
    <2>2. \A i \in 1..Len(q') : q'[i] = (sent' - Len(q')) + i
      <3> SUFFICES ASSUME NEW i \in 1..Len(q')
                   PROVE  q'[i] = (sent' - Len(q')) + i
        OBVIOUS
      <3>1. Len(q) \in Nat /\ sent \in Nat /\ sent' = sent + 1
        BY <1>2, LenProperties DEF PushInsert, TypeOK
      <3>2. CASE i \in 1..Len(q)
        <4>1. q[i] = (sent - Len(q)) + i
          BY <3>2 DEF FifoOK
        <4> QED
          BY <2>1, <3>1, <3>2, <4>1
      <3>3. CASE i = Len(q) + 1
        BY <2>1, <3>1, <3>3
      <3> QED
        BY <2>1, <3>1, <3>2, <3>3
    <2>3. \A u \in Threads : pc'[u] # "pop"
      BY <1>0, <1>2 DEF PushInsert, TypeOK, Locked
    <2> QED
      BY <2>2, <2>3 DEF FifoOK
  <1>3. ASSUME NEW t \in Threads, Front(t) PROVE FifoOK'
    <2>1. t \in Takers /\ Head(q) = q[1]
      BY <1>3, HeadTailProperties DEF Front, TypeOK, Takers
    <2>2. \A u \in Threads : pc'[u] = "pop" => u = t
      BY <1>0, <1>3 DEF Front, TypeOK, Locked
    <2>3. q' = q /\ sent' = sent /\ q # <<>> /\ val'[t] = q[1]
      BY <1>3, <2>1 DEF Front, TypeOK
    <2> QED
      BY <2>2, <2>3 DEF FifoOK
  <1>4. ASSUME NEW t \in Threads, Pop(t) PROVE FifoOK'
    <2>1. q # <<>>
      BY <1>4 DEF Pop, FifoOK
    <2>2. /\ Len(q') = Len(q) - 1
          /\ Len(q) \in Nat
          /\ \A i \in 1..Len(q') : q'[i] = q[i + 1]
      BY <1>4, <2>1, HeadTailProperties, LenProperties DEF Pop, TypeOK
    <2>3. \A i \in 1..Len(q') : q'[i] = (sent' - Len(q')) + i
      <3> SUFFICES ASSUME NEW i \in 1..Len(q')
                   PROVE  q'[i] = (sent' - Len(q')) + i
        OBVIOUS
      <3>1. sent \in Nat /\ sent' = sent
        BY <1>4 DEF Pop, TypeOK
      <3>2. i + 1 \in 1..Len(q)
        BY <2>2
      <3>3. q[i + 1] = (sent - Len(q)) + (i + 1)
        BY <3>2 DEF FifoOK
      <3> QED
        BY <2>2, <3>1, <3>3
    <2>4. \A u \in Threads : pc'[u] # "pop"
      BY <1>0, <1>4 DEF Pop, TypeOK, Locked
    <2> QED
      BY <2>3, <2>4 DEF FifoOK
  <1>5. ASSUME NEW t \in Threads,
               \/ PushLock(t) \/ PushNotify(t) \/ Shift(t) \/ PollLock(t)
               \/ Unlock(t) \/ Spurious(t)
        PROVE  FifoOK'
    <2>1. q' = q /\ sent' = sent /\ val' = val
      BY <1>5 DEF PushLock, PushNotify, Shift, ShiftLock, ShiftWait, ShiftWake,
                  PollLock, Unlock, Spurious
    <2>2. \A u \in Threads : pc'[u] = "pop" => pc[u] = "pop"
      BY <1>5 DEF PushLock, PushNotify, Shift, ShiftLock, ShiftWait, ShiftWake,
                  PollLock, Unlock, Spurious, TypeOK
    <2> QED
      BY <2>1, <2>2 DEF FifoOK
  <1>6. ASSUME NEW t \in Threads, PollEmpty(t) PROVE FifoOK'
    <2>1. \A u \in Threads : pc'[u] # "pop"
      BY <1>0, <1>6 DEF PollEmpty, TypeOK, Locked
    <2> QED
      BY <1>6, <2>1 DEF PollEmpty, FifoOK
  <1> QED
    BY <1>1, <1>2, <1>3, <1>4, <1>5, <1>6 DEF Next, Push, Poll

-----------------------------------------------------------------------------
\* No step loses a wake-up: the length of the queue never grows more, or
\* shrinks less, than the set of awake threads.
LEMMA NextNoLostWakeup == IInv /\ [Next]_vars => NoLostWakeup'
  <1> SUFFICES ASSUME IInv, [Next]_vars PROVE NoLostWakeup'
    OBVIOUS
  <1> USE DEF Goto
  <1>0. /\ TypeOK /\ MutexOK /\ FifoOK /\ NoLostWakeup
        /\ IsFiniteSet(Awake) /\ Cardinality(Awake) \in Nat
        /\ Len(q) \in Nat
    BY AwakeFinite, LenProperties DEF IInv, TypeOK
  <1>a. TypeOK'
    BY <1>0, NextTypeOK
  <1>b. IsFiniteSet(Awake') /\ Cardinality(Awake') \in Nat
    <2>1. Awake' \subseteq Threads
      BY DEF Awake
    <2>2. IsFiniteSet(Awake')
      BY <2>1, ThreadsAssumption, FS_Subset
    <2> QED
      BY <2>2, FS_CardinalityType
  <1>1. ASSUME q' = q, waiting' = waiting \/ waiting' = {}, Awake \subseteq Awake'
        PROVE  NoLostWakeup'
    <2>1. Cardinality(Awake) <= Cardinality(Awake')
      BY <1>b, <1>1, FS_Subset
    <2> QED
      BY <1>0, <1>b, <1>1, <2>1 DEF NoLostWakeup
  <1>2. CASE UNCHANGED vars
    BY <1>1, <1>2 DEF vars, Awake
  <1>3. ASSUME NEW t \in Threads, PushInsert(t) PROVE NoLostWakeup'
    <2>1. t \notin Awake /\ Awake' = Awake \cup {t}
      BY <1>0, <1>3 DEF PushInsert, Awake, TypeOK
    <2>2. Len(q') = Len(q) + 1 /\ waiting' = waiting
      BY <1>0, <1>3, AppendProperties DEF PushInsert, TypeOK
    <2>3. Cardinality(Awake') = Cardinality(Awake) + 1
      BY <1>0, <2>1, GrowSize
    <2> QED
      BY <1>0, <2>2, <2>3 DEF NoLostWakeup
  <1>4. ASSUME NEW t \in Threads, PushNotify(t) PROVE NoLostWakeup'
    <2>1. CASE waiting = {}
      BY <1>4, <2>1 DEF PushNotify, NotifyOne, NoLostWakeup
    <2>2. CASE waiting # {}
      <3>1. PICK w \in waiting : waiting' = waiting \ {w}
        BY <1>4, <2>2 DEF PushNotify, NotifyOne
      <3>2. w \in Threads /\ pc[w] = "wait" /\ w # t /\ w \notin Awake /\ t \in Awake
        BY <1>0, <1>4, <3>1 DEF PushNotify, TypeOK, MutexOK, Awake, Threads, Takers
      <3>3. Awake' = (Awake \ {t}) \cup {w}
        BY <1>0, <1>4, <3>1, <3>2 DEF PushNotify, TypeOK, Awake
      <3>4. IsFiniteSet(Awake \ {t}) /\ Cardinality(Awake \ {t}) = Cardinality(Awake) - 1
        BY <1>0, <3>2, FS_RemoveElement
      <3>5. Cardinality(Awake') = Cardinality(Awake)
        BY <1>0, <3>2, <3>3, <3>4, GrowSize
      <3> QED
        BY <1>0, <1>4, <2>2, <3>5 DEF PushNotify, NoLostWakeup
    <2> QED
      BY <2>1, <2>2
  <1>5. ASSUME NEW t \in Threads, ShiftWait(t) PROVE NoLostWakeup'
    <2>1. q' = <<>> /\ Len(q') = 0
      BY <1>5, EmptySeq DEF ShiftWait
    <2> QED
      BY <1>b, <2>1 DEF NoLostWakeup
  <1>6. ASSUME NEW t \in Threads, Spurious(t) PROVE NoLostWakeup'
    <2>1. Awake \subseteq Awake'
      BY <1>6 DEF Spurious, Awake
    <2>2. Cardinality(Awake) <= Cardinality(Awake')
      BY <1>b, <2>1, FS_Subset
    <2> QED
      BY <1>0, <1>b, <1>6, <2>2 DEF Spurious, NoLostWakeup
  <1>7. ASSUME NEW t \in Threads, Pop(t) PROVE NoLostWakeup'
    <2>1. t \in Awake /\ Awake' = Awake \ {t}
      BY <1>0, <1>7 DEF Pop, Awake, TypeOK
    <2>2. Cardinality(Awake') = Cardinality(Awake) - 1
      BY <1>0, <2>1, ShrinkSize
    <2>3. Len(q') = Len(q) - 1 /\ waiting' = waiting
      BY <1>0, <1>7, HeadTailProperties DEF Pop, TypeOK, FifoOK
    <2> QED
      BY <1>0, <2>2, <2>3 DEF NoLostWakeup
  <1>8. ASSUME NEW t \in Threads,
               \/ PushLock(t) \/ ShiftLock(t) \/ ShiftWake(t) \/ Poll(t)
               \/ Front(t) \/ Unlock(t)
        PROVE  NoLostWakeup'
    <2>1. q' = q /\ waiting' = waiting
      BY <1>8 DEF PushLock, ShiftLock, ShiftWake, Poll, PollLock, PollEmpty, Front, Unlock
    <2>2. Awake \subseteq Awake'
      BY <1>0, <1>8 DEF PushLock, ShiftLock, ShiftWake, Poll, PollLock, PollEmpty, Front,
                        Unlock, Awake, TypeOK
    <2> QED
      BY <1>1, <2>1, <2>2
  <1> QED
    BY <1>2, <1>3, <1>4, <1>5, <1>6, <1>7, <1>8 DEF Next, Push, Shift

-----------------------------------------------------------------------------
\* The mutex protects the queue, the items keep their order and no wake-up is
\* lost (SafeQueue.h), whatever the number of threads and of items.
THEOREM QueueInvariant == Spec => []IInv
  <1>1. Init => IInv
    BY InitInv
  <1>2. IInv /\ [Next]_vars => IInv'
    BY NextTypeOK, NextMutexOK, NextFifoOK, NextNoLostWakeup DEF IInv
  <1> QED
    BY <1>1, <1>2, PTL DEF Spec

\* The types are right in every reachable state.
THEOREM TypeCorrect == Spec => []TypeOK
  <1>1. IInv => TypeOK
    BY DEF IInv
  <1> QED
    BY <1>1, QueueInvariant, PTL

\* At most one thread is inside a critical section of SafeQueue.h.
THEOREM MutualExclusion == Spec => []MutexOK
  <1>1. IInv => MutexOK
    BY DEF IInv
  <1> QED
    BY <1>1, QueueInvariant, PTL

\* Items leave the queue in the order push put them in, each once.
THEOREM FirstInFirstOut == Spec => []FifoOK
  <1>1. IInv => FifoOK
    BY DEF IInv
  <1> QED
    BY <1>1, QueueInvariant, PTL

\* While a thread sleeps in shift, each item has an awake thread to take it.
THEOREM WakeupsAreKept == Spec => []NoLostWakeup
  <1>1. IInv => NoLostWakeup
    BY DEF IInv
  <1> QED
    BY <1>1, QueueInvariant, PTL

-----------------------------------------------------------------------------
\* The queue implements the atomic one.  The step that counts is front, or,
\* for shift_no_wait of an empty queue, the test.
LEMMA RefineInit == Init => Queue!Init
  <1> SUFFICES ASSUME Init PROVE Queue!Init
    OBVIOUS
  <1>1. Taken = 0
    BY EmptySeq DEF Init, Taken
  <1> QED
    BY <1>1 DEF Init, Queue!Init

\* Every step of SafeQueue.h is a step of the atomic queue or leaves it alone.
LEMMA RefineNext == IInv /\ [Next]_vars => [Queue!Next]_Queue!vars
  <1> SUFFICES ASSUME IInv, [Next]_vars PROVE [Queue!Next]_Queue!vars
    OBVIOUS
  <1> USE DEF Goto
  <1>0. /\ TypeOK /\ MutexOK /\ FifoOK
        /\ Len(q) \in Nat /\ sent \in Nat
        /\ \A t, u \in Threads : pc[t] \in Locked /\ pc[u] \in Locked => t = u
    BY LenProperties DEF IInv, TypeOK, MutexOK
  <1>1. ASSUME q' = q, sent' = sent, val' = val,
               \A u \in Threads : pc'[u] = "pop" <=> pc[u] = "pop"
        PROVE  UNCHANGED Queue!vars
    BY <1>1 DEF Queue!vars, Taken
  <1>2. CASE UNCHANGED vars
    BY <1>1, <1>2 DEF vars
  <1>3. ASSUME NEW t \in Threads, PushInsert(t) PROVE Queue!Next
    <2>1. Len(q') = Len(q) + 1 /\ sent' = sent + 1 /\ val' = val
      BY <1>0, <1>3, AppendProperties DEF PushInsert, TypeOK
    <2>2. /\ ~ \E u \in Threads : pc[u] = "pop"
          /\ ~ \E u \in Threads : pc'[u] = "pop"
      BY <1>0, <1>3 DEF PushInsert, TypeOK, Locked
    <2>3. Taken' = Taken
      BY <1>0, <2>1, <2>2 DEF Taken
    <2> QED
      BY <2>1, <2>3 DEF Queue!Next, Queue!Push
  <1>4. ASSUME NEW t \in Threads, Front(t) PROVE Queue!Next
    <2>1. t \in Takers
      BY <1>0, <1>4 DEF Front, TypeOK, Takers
    <2>2. /\ ~ \E u \in Threads : pc[u] = "pop"
          /\ pc'[t] = "pop"
      BY <1>0, <1>4 DEF Front, TypeOK, Locked
    <2>3. q' = q /\ sent' = sent /\ Len(q) > 0 /\ Head(q) = q[1]
      BY <1>0, <1>4, EmptySeq, HeadTailProperties DEF Front, TypeOK
    <2>4. Taken = sent - Len(q) /\ Taken' = (sent - Len(q)) + 1
      BY <1>0, <2>2, <2>3 DEF Taken
    <2>5. Head(q) = (sent - Len(q)) + 1
      BY <1>0, <2>3 DEF FifoOK
    <2>6. Taken < sent /\ Taken' = Taken + 1 /\ val' = [val EXCEPT ![t] = Taken']
      <3>1. Taken < sent /\ Taken' = Taken + 1
        BY <1>0, <2>3, <2>4
      <3>2. val' = [val EXCEPT ![t] = Head(q)]
        BY <1>4 DEF Front
      <3>3. Head(q) = Taken'
        BY <2>4, <2>5
      <3> QED
        BY <3>1, <3>2, <3>3
    <2> QED
      BY <2>1, <2>3, <2>6 DEF Queue!Next, Queue!Take
  <1>5. ASSUME NEW t \in Threads, PollEmpty(t) PROVE Queue!Next
    <2>1. t \in Takers
      BY <1>0, <1>5 DEF PollEmpty, TypeOK, Takers
    <2>2. /\ ~ \E u \in Threads : pc[u] = "pop"
          /\ ~ \E u \in Threads : pc'[u] = "pop"
      BY <1>0, <1>5 DEF PollEmpty, TypeOK, Locked
    <2>3. Len(q) = 0 /\ q' = q /\ sent' = sent
      BY <1>5, EmptySeq DEF PollEmpty
    <2>4. Taken = sent /\ Taken' = Taken
      BY <1>0, <2>2, <2>3 DEF Taken
    <2> QED
      BY <1>5, <2>1, <2>3, <2>4 DEF PollEmpty, Queue!Next, Queue!ReplyEmpty
  <1>6. ASSUME NEW t \in Threads, Pop(t) PROVE UNCHANGED Queue!vars
    <2>1. Len(q') = Len(q) - 1 /\ sent' = sent /\ val' = val
      BY <1>0, <1>6, HeadTailProperties DEF Pop, TypeOK, FifoOK
    <2>2. /\ \E u \in Threads : pc[u] = "pop"
          /\ ~ \E u \in Threads : pc'[u] = "pop"
      BY <1>0, <1>6 DEF Pop, TypeOK, Locked
    <2>3. Taken' = Taken
      BY <1>0, <2>1, <2>2 DEF Taken
    <2> QED
      BY <2>1, <2>3 DEF Queue!vars
  <1>7. ASSUME NEW t \in Threads,
               \/ PushLock(t) \/ PushNotify(t) \/ Shift(t) \/ PollLock(t)
               \/ Unlock(t) \/ Spurious(t)
        PROVE  UNCHANGED Queue!vars
    <2>1. q' = q /\ sent' = sent /\ val' = val
      BY <1>7 DEF PushLock, PushNotify, Shift, ShiftLock, ShiftWait, ShiftWake,
                  PollLock, Unlock, Spurious
    <2>2. \A u \in Threads : pc'[u] = "pop" <=> pc[u] = "pop"
      <3>1. CASE \/ PushLock(t) \/ PushNotify(t) \/ PollLock(t)
                 \/ Unlock(t) \/ Spurious(t)
        BY <1>0, <3>1 DEF PushLock, PushNotify, PollLock, Unlock, Spurious, TypeOK
      <3>2. CASE Shift(t)
        BY <1>0, <3>2 DEF Shift, ShiftLock, ShiftWait, ShiftWake, TypeOK
      <3> QED
        BY <1>7, <3>1, <3>2
    <2> QED
      BY <1>1, <2>1, <2>2
  <1> QED
    BY <1>2, <1>3, <1>4, <1>5, <1>6, <1>7 DEF Next, Push, Poll

\* Every behaviour of SafeQueue.h is one of the atomic queue: the k-th take
\* returns the k-th item, and "empty" is only said of an empty queue.
THEOREM ImplementsTaskQueue == Spec => Linearizable
  <1>1. Init => Queue!Init
    BY RefineInit
  <1>2. IInv /\ [Next]_vars => [Queue!Next]_Queue!vars
    BY RefineNext
  <1> QED
    BY <1>1, <1>2, QueueInvariant, PTL DEF Spec, Linearizable, Queue!Spec
=============================================================================
