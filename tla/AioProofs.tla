------------------------------ MODULE AioProofs ------------------------------
(***************************************************************************)
(* The programs of linux_io/4.aio, each in a part of its own:              *)
(*  - BatchReadByLibAIO for any size of file and any number of reads in    *)
(*    flight: no block is skipped or read twice, io_submit is never asked  *)
(*    for more than the context holds, and the function returns only once  *)
(*    all is read;                                                         *)
(*  - the other readers for any MAX_EVENT: each returns with nothing in    *)
(*    flight, having printed what its comment says;                        *)
(*  - glibc's aio: the result is printed once at most, when it is there,   *)
(*    and only a registration that comes too late ends the process.        *)
(* They share nothing, so a step of one leaves the invariants of the       *)
(* others alone.                                                           *)
(***************************************************************************)
EXTENDS Aio, SequenceTheorems, FiniteSetTheorems, TLAPS

\* The number of pending reads, place by place.
InAll == Cardinality(inflight) + Cardinality(ring) + Cardinality(event)

IInv == TypeOK /\ Accounted /\ InAll <= MaxEvent

-----------------------------------------------------------------------------
\* The sets of reads are finite, so their cardinalities are numbers.
LEMMA PendingFinite ==
  ASSUME TypeOK, Accounted
  PROVE  /\ IsFiniteSet(inflight) /\ Cardinality(inflight) \in Nat
         /\ IsFiniteSet(ring) /\ Cardinality(ring) \in Nat
         /\ IsFiniteSet(event) /\ Cardinality(event) \in Nat
  <1>1. IsFiniteSet(0..(offset - 1))
    BY FS_Interval DEF TypeOK
  <1>2. /\ inflight \subseteq 0..(offset - 1)
        /\ ring \subseteq 0..(offset - 1)
        /\ event \subseteq 0..(offset - 1)
    BY DEF Accounted, Pending
  <1>3. IsFiniteSet(inflight) /\ IsFiniteSet(ring) /\ IsFiniteSet(event)
    BY <1>1, <1>2, FS_Subset
  <1> QED
    BY <1>3, FS_CardinalityType

\* The cardinality of the union of disjoint sets.
LEMMA DisjointUnion ==
  ASSUME NEW S, NEW T, IsFiniteSet(S), IsFiniteSet(T), S \cap T = {}
  PROVE  /\ IsFiniteSet(S \cup T)
         /\ Cardinality(S \cup T) = Cardinality(S) + Cardinality(T)
  <1>1. /\ IsFiniteSet(S \cup T)
        /\ Cardinality(S \cup T) = Cardinality(S) + Cardinality(T) - Cardinality(S \cap T)
    BY FS_Union
  <1>2. Cardinality(S \cap T) = 0
    BY FS_EmptySet
  <1>3. Cardinality(S) \in Nat /\ Cardinality(T) \in Nat
    BY FS_CardinalityType
  <1> DEFINE a == Cardinality(S)
             b == Cardinality(T)
             d == Cardinality(S \cap T)
  <1>4. Cardinality(S \cup T) = a + b - d /\ a \in Nat /\ b \in Nat /\ d = 0
    BY <1>1, <1>2, <1>3
  <1> HIDE DEF a, b, d
  <1>5. Cardinality(S \cup T) = a + b
    BY <1>4
  <1> QED
    BY <1>1, <1>5 DEF a, b

\* The initial state, before anything is prepared.
LEMMA InitInv == Init => IInv
  <1> SUFFICES ASSUME Init PROVE IInv
    OBVIOUS
  <1>1. Cardinality({}) = 0 /\ Len(<<>>) = 0 /\ <<>> \in Seq(Nat)
    BY FS_EmptySet, EmptySeq
  <1>2. TypeOK
    BY <1>1, AioAssumption DEF Init, TypeOK, Pending
  <1>3. Accounted
    BY <1>1, AioAssumption DEF Init, Accounted, Phases, Pending
  <1>4. InAll <= MaxEvent
    BY <1>1, AioAssumption DEF Init, InAll
  <1> QED
    BY <1>2, <1>3, <1>4 DEF IInv

-----------------------------------------------------------------------------
\* The steps that prepare the first batch and submit it.
LEMMA PrepareInv == IInv /\ (Prepare \/ PrepareDone) => IInv'
  <1> SUFFICES ASSUME IInv, Prepare \/ PrepareDone PROVE IInv'
    OBVIOUS
  <1> USE AioAssumption
  <1>0. TypeOK /\ Accounted /\ Phases /\ pc = "prepare"
    BY DEF IInv, Accounted, Prepare, PrepareDone
  <1>1. CASE Prepare
    <2>1. /\ io_cb_p' \in Seq(Nat)
          /\ Len(io_cb_p') = task_no + 1
          /\ \A i \in 1..Len(io_cb_p) : io_cb_p'[i] = io_cb_p[i]
          /\ io_cb_p'[task_no + 1] = task_no
      BY <1>0, <1>1, AppendProperties DEF Prepare, TypeOK, Phases
    <2>2. \A i \in 1..Len(io_cb_p') : io_cb_p'[i] = i - 1
      <3> SUFFICES ASSUME NEW i \in 1..Len(io_cb_p') PROVE io_cb_p'[i] = i - 1
        OBVIOUS
      <3>1. CASE i \in 1..Len(io_cb_p)
        BY <1>0, <2>1, <3>1 DEF Phases
      <3>2. CASE i = task_no + 1
        BY <1>0, <2>1, <3>2 DEF TypeOK
      <3> QED
        BY <1>0, <2>1, <3>1, <3>2 DEF TypeOK, Phases
    <2>3. UNCHANGED <<blocks, inflight, ring, event, ready>>
      BY <1>1 DEF Prepare
    <2>4. TypeOK'
      BY <1>0, <1>1, <2>1, <2>3 DEF Prepare, TypeOK, Pending
    <2>5. Phases'
      BY <1>0, <1>1, <2>1, <2>2, <2>3 DEF Prepare, TypeOK, Phases, Pending
    <2>6. Accounted'
      BY <1>0, <1>1, <2>3, <2>5 DEF Prepare, TypeOK, Accounted, Phases, Pending
    <2> QED
      BY <2>3, <2>4, <2>6 DEF IInv, InAll
  <1>2. CASE PrepareDone
    <2>1. TypeOK'
      BY <1>0, <1>2 DEF PrepareDone, TypeOK, Pending
    <2>2. Accounted'
      BY <1>0, <1>2 DEF PrepareDone, TypeOK, Accounted, Phases, Pending
    <2> QED
      BY <1>2, <2>1, <2>2 DEF PrepareDone, IInv, InAll
  <1> QED
    BY <1>1, <1>2

\* io_submit of the first batch: the blocks below offset become pending.
LEMMA SubmitInv == IInv /\ Submit => IInv'
  <1> SUFFICES ASSUME IInv, Submit PROVE IInv'
    OBVIOUS
  <1> USE AioAssumption
  <1>0. TypeOK /\ Accounted /\ Phases /\ pc = "submit"
    BY DEF IInv, Accounted, Submit
  <1>1. /\ offset = task_no /\ task_no \in Nat /\ task_no <= MaxEvent
        /\ ring = {} /\ event = {} /\ ready = 0
    BY <1>0 DEF Phases, Pending, TypeOK
  <1>2. inflight' = 0..(offset - 1)
    <2>1. \A i \in 1..task_no : io_cb_p[i] = i - 1
      BY <1>0, LenProperties DEF Phases, TypeOK
    <2>2. ASSUME NEW b \in 0..(offset - 1) PROVE b \in inflight'
      <3>1. b + 1 \in 1..task_no /\ io_cb_p[b + 1] = b
        BY <1>1, <2>1
      <3> QED
        BY <3>1 DEF Submit
    <2>3. ASSUME NEW b \in inflight' PROVE b \in 0..(offset - 1)
      BY <1>1, <2>1 DEF Submit
    <2> QED
      BY <2>2, <2>3
  <1>3. Cardinality(inflight') = offset /\ Cardinality(ring') = 0 /\ Cardinality(event') = 0
    <2>1. Cardinality(0..(offset - 1)) = offset
      BY <1>1, FS_Interval
    <2> QED
      BY <1>1, <1>2, <2>1, FS_EmptySet DEF Submit
  <1>4. TypeOK'
    BY <1>0, <1>1, <1>2 DEF Submit, TypeOK, Pending
  <1>5. Accounted'
    <2>1. UNCHANGED <<blocks, io_cb_p, task_no, offset, ring, event, ready>> /\ pc' = "wait"
      BY DEF Submit
    <2>2. Phases'
      BY <1>1, <2>1 DEF Phases
    <2>3. /\ offset' <= blocks'
          /\ Pending' \subseteq 0..(offset' - 1)
          /\ inflight' \cap ring' = {} /\ inflight' \cap event' = {} /\ ring' \cap event' = {}
      BY <1>0, <1>1, <1>2, <2>1 DEF Accounted, Pending
    <2>4. offset' = ready' + Cardinality(inflight') + Cardinality(ring') + Cardinality(event')
      BY <1>1, <1>3, <2>1
    <2> QED
      BY <2>2, <2>3, <2>4 DEF Accounted
  <1>6. InAll' <= MaxEvent
    BY <1>1, <1>3 DEF InAll
  <1> QED
    BY <1>4, <1>5, <1>6 DEF IInv

-----------------------------------------------------------------------------
\* The steps of the loop, and the kernel's.
LEMMA CompleteInv == IInv /\ (\E b \in inflight : Complete(b)) => IInv'
  <1> SUFFICES ASSUME IInv, NEW b \in inflight, Complete(b) PROVE IInv'
    OBVIOUS
  <1> USE AioAssumption
  <1>0. TypeOK /\ Accounted /\ Phases
    BY DEF IInv, Accounted
  <1>1. /\ inflight' = inflight \ {b} /\ ring' = ring \cup {b}
        /\ UNCHANGED <<blocks, pc, io_cb_p, task_no, offset, event, ready>>
    BY DEF Complete
  <1>2. /\ IsFiniteSet(inflight) /\ Cardinality(inflight) \in Nat
        /\ IsFiniteSet(ring) /\ Cardinality(ring) \in Nat
        /\ IsFiniteSet(event) /\ Cardinality(event) \in Nat
    BY <1>0, PendingFinite
  <1>3. b \notin ring /\ b \notin event /\ b \in Nat
    BY <1>0 DEF Accounted, TypeOK, Pending
  <1>4. Cardinality(inflight') = Cardinality(inflight) - 1
    BY <1>1, <1>2, FS_RemoveElement
  <1>5. Cardinality(ring') = Cardinality(ring) + 1
    BY <1>1, <1>2, <1>3, FS_AddElement
  <1>6. Pending' = Pending
    BY <1>1 DEF Pending
  <1>7. TypeOK'
    BY <1>0, <1>1, <1>6 DEF TypeOK
  <1>8. Phases'
    BY <1>0, <1>1, <1>6 DEF Phases
  <1>9. /\ offset' <= blocks'
        /\ Pending' \subseteq 0..(offset' - 1)
        /\ inflight' \cap ring' = {} /\ inflight' \cap event' = {} /\ ring' \cap event' = {}
    BY <1>0, <1>1, <1>3, <1>6 DEF Accounted
  <1>10. InAll' = InAll
    BY <1>1, <1>2, <1>4, <1>5 DEF InAll
  <1>11. pc' \in {"wait", "handle", "done"} =>
           offset' = ready' + Cardinality(inflight') + Cardinality(ring') + Cardinality(event')
    BY <1>0, <1>1, <1>2, <1>4, <1>5 DEF Accounted, TypeOK
  <1> QED
    BY <1>7, <1>8, <1>9, <1>10, <1>11 DEF IInv, Accounted

\* io_getevents: completions move from the ring to the array of events.
LEMMA GetEventsInv == IInv /\ GetEvents => IInv'
  <1> SUFFICES ASSUME IInv, GetEvents PROVE IInv'
    OBVIOUS
  <1> USE AioAssumption
  <1>0. TypeOK /\ Accounted /\ Phases /\ pc = "wait"
    BY DEF IInv, Accounted, GetEvents
  <1>1. /\ event' \subseteq ring /\ ring' = ring \ event' /\ pc' = "handle"
        /\ UNCHANGED <<blocks, io_cb_p, task_no, offset, inflight, ready>>
    BY DEF GetEvents
  <1>2. /\ IsFiniteSet(inflight) /\ Cardinality(inflight) \in Nat
        /\ IsFiniteSet(ring) /\ Cardinality(ring) \in Nat
    BY <1>0, PendingFinite
  <1>3. event = {} /\ Cardinality(event) = 0
    BY <1>0, FS_EmptySet DEF Phases
  <1>4. /\ IsFiniteSet(event') /\ Cardinality(event') \in Nat
        /\ IsFiniteSet(ring') /\ Cardinality(ring') \in Nat
    <2>1. ring' \subseteq ring
      BY <1>1
    <2>2. IsFiniteSet(event') /\ IsFiniteSet(ring')
      BY <1>1, <1>2, <2>1, FS_Subset
    <2> QED
      BY <2>2, FS_CardinalityType
  <1>5. Cardinality(ring') + Cardinality(event') = Cardinality(ring)
    <2>1. ring' \cup event' = ring /\ ring' \cap event' = {}
      BY <1>1
    <2> QED
      BY <1>4, <2>1, DisjointUnion
  <1>6. Pending' = Pending
    BY <1>1, <1>3 DEF Pending
  <1>7. TypeOK'
    BY <1>0, <1>1, <1>6 DEF TypeOK
  <1>8. Phases'
    BY <1>0, <1>1 DEF Phases
  <1>9. /\ offset' <= blocks'
        /\ Pending' \subseteq 0..(offset' - 1)
        /\ inflight' \cap ring' = {} /\ inflight' \cap event' = {} /\ ring' \cap event' = {}
    BY <1>0, <1>1, <1>6 DEF Accounted
  <1>10. InAll' = InAll
    BY <1>1, <1>2, <1>3, <1>4, <1>5 DEF InAll
  <1>11. offset' = ready' + Cardinality(inflight') + Cardinality(ring') + Cardinality(event')
    BY <1>0, <1>1, <1>2, <1>3, <1>4, <1>5 DEF Accounted, TypeOK
  <1> QED
    BY <1>7, <1>8, <1>9, <1>10, <1>11 DEF IInv, Accounted

\* An event is handled: one block is counted and at most one is submitted.
LEMMA HandleInv == IInv /\ (\E e \in event : Handle(e)) => IInv'
  <1> SUFFICES ASSUME IInv, NEW e \in event, Handle(e) PROVE IInv'
    OBVIOUS
  <1> USE AioAssumption
  <1>0. TypeOK /\ Accounted /\ Phases /\ pc = "handle"
    BY DEF IInv, Accounted, Handle
  <1>1. /\ event' = event \ {e} /\ ready' = ready + 1
        /\ UNCHANGED <<blocks, pc, io_cb_p, task_no, ring>>
    BY DEF Handle
  <1>2. /\ IsFiniteSet(inflight) /\ Cardinality(inflight) \in Nat
        /\ IsFiniteSet(ring) /\ Cardinality(ring) \in Nat
        /\ IsFiniteSet(event) /\ Cardinality(event) \in Nat
    BY <1>0, PendingFinite
  <1>3. Cardinality(event') = Cardinality(event) - 1
    BY <1>1, <1>2, FS_RemoveElement
  <1>4. offset = ready + Cardinality(inflight) + Cardinality(ring) + Cardinality(event)
    BY <1>0 DEF Accounted
  <1>5. blocks \in Nat /\ offset \in Nat /\ ready \in Nat /\ offset <= blocks
    BY <1>0 DEF TypeOK, Accounted
  <1>6. Phases'
    BY <1>0, <1>1 DEF Phases
  <1>7. CASE offset < blocks
    <2>1. inflight' = inflight \cup {offset} /\ offset' = offset + 1
      BY <1>7 DEF Handle
    <2>2. offset \notin Pending
      BY <1>0, <1>5 DEF Accounted
    <2>3. Cardinality(inflight') = Cardinality(inflight) + 1
      BY <1>2, <2>1, <2>2, FS_AddElement DEF Pending
    <2>4. Pending' \subseteq Pending \cup {offset}
      BY <1>1, <2>1 DEF Pending
    <2>5. TypeOK'
      BY <1>0, <1>1, <1>5, <2>1, <2>4 DEF TypeOK
    <2>6. offset' <= blocks' /\ Pending' \subseteq 0..(offset' - 1)
      BY <1>0, <1>1, <1>5, <1>7, <2>1, <2>4 DEF Accounted
    <2>7. inflight' \cap ring' = {} /\ inflight' \cap event' = {} /\ ring' \cap event' = {}
      BY <1>0, <1>1, <2>1, <2>2 DEF Accounted, Pending
    <2>8. /\ offset' = ready' + Cardinality(inflight') + Cardinality(ring') + Cardinality(event')
          /\ InAll' = InAll
      BY <1>1, <1>2, <1>3, <1>4, <1>5, <2>1, <2>3 DEF InAll
    <2> QED
      BY <1>6, <2>5, <2>6, <2>7, <2>8 DEF IInv, Accounted
  <1>8. CASE ~(offset < blocks)
    <2>1. inflight' = inflight /\ offset' = offset
      BY <1>8 DEF Handle
    <2>2. Pending' \subseteq Pending
      BY <1>1, <2>1 DEF Pending
    <2>3. TypeOK'
      BY <1>0, <1>1, <1>5, <2>1, <2>2 DEF TypeOK
    <2>4. offset' <= blocks' /\ Pending' \subseteq 0..(offset' - 1)
      BY <1>0, <1>1, <1>5, <2>1, <2>2 DEF Accounted
    <2>5. inflight' \cap ring' = {} /\ inflight' \cap event' = {} /\ ring' \cap event' = {}
      BY <1>0, <1>1, <2>1 DEF Accounted
    <2>6. Cardinality(event') \in Nat
      BY <1>1, <1>2, FS_Subset, FS_CardinalityType
    <2>7. /\ offset' = ready' + Cardinality(inflight') + Cardinality(ring') + Cardinality(event')
          /\ InAll' <= MaxEvent
      BY <1>1, <1>2, <1>3, <1>4, <1>5, <2>1, <2>6 DEF IInv, InAll
    <2> QED
      BY <1>6, <2>3, <2>4, <2>5, <2>7 DEF IInv, Accounted
  <1> QED
    BY <1>7, <1>8

\* The array of events is exhausted: the loop goes on or ends.
LEMMA HandleDoneInv == IInv /\ HandleDone => IInv'
  <1> SUFFICES ASSUME IInv, HandleDone PROVE IInv'
    OBVIOUS
  <1>0. TypeOK /\ Accounted /\ Phases /\ pc = "handle" /\ event = {}
    BY DEF IInv, Accounted, HandleDone
  <1>1. /\ pc' = IF ready >= blocks THEN "done" ELSE "wait"
        /\ UNCHANGED <<blocks, io_cb_p, task_no, offset, inflight, ring, event, ready>>
    BY DEF HandleDone
  <1>2. Phases'
    BY <1>0, <1>1 DEF Phases
  <1>3. TypeOK'
    BY <1>0, <1>1 DEF TypeOK, Pending
  <1>4. Accounted'
    BY <1>0, <1>1, <1>2 DEF Accounted, Pending
  <1> QED
    BY <1>1, <1>3, <1>4 DEF IInv, InAll

\* io_setup or io_submit fails: the function ends and leaves the reads alone.
LEMMA FailInv == IInv /\ (Fail \/ HandleFails) => IInv'
  <1> SUFFICES ASSUME IInv, Fail \/ HandleFails PROVE IInv'
    OBVIOUS
  <1>1. TypeOK /\ Accounted /\ Phases
    BY DEF IInv, Accounted
  <1>2. /\ pc' = "failed"
        /\ UNCHANGED <<blocks, io_cb_p, task_no, offset, inflight, ring, event, ready>>
    BY DEF Fail, HandleFails
  <1>3. Phases'
    BY <1>1, <1>2 DEF Phases
  <1>4. TypeOK' /\ Accounted'
    BY <1>1, <1>2, <1>3 DEF TypeOK, Accounted, Pending
  <1> QED
    BY <1>2, <1>4 DEF IInv, InAll

-----------------------------------------------------------------------------
\* Every step of the loop and of the kernel keeps the invariant.
THEOREM BatchInvariant == Init /\ [][Next]_vars => []IInv
  <1>1. IInv /\ [Next]_vars => IInv'
    <2> SUFFICES ASSUME IInv, [Next]_vars PROVE IInv'
      OBVIOUS
    <2>1. CASE UNCHANGED vars
      BY <2>1 DEF vars, IInv, InAll, TypeOK, Accounted, Phases, Pending
    <2> QED
      BY <2>1, PrepareInv, SubmitInv, CompleteInv, GetEventsInv, HandleInv, HandleDoneInv, FailInv
      DEF Next, Read, Kernel
  <1> QED
    BY <1>1, InitInv, PTL

\* While another program runs, the batch read stays where it starts.
LEMMA AioUsesBatch == AioSpec => Init /\ [][Next]_vars
  <1>1. AioInit => Init
    BY DEF AioInit
  <1>2. [AioNext]_<<program, vars, readerVars, glibcVars>> => [Next]_vars
    BY DEF AioNext
  <1> QED
    BY <1>1, <1>2, PTL DEF AioSpec

\* The types are right in every reachable state of BatchReadByLibAIO.
THEOREM BatchTypeCorrect == AioSpec => []TypeOK
  <1>1. IInv => TypeOK
    BY DEF IInv
  <1> QED
    BY <1>1, AioUsesBatch, BatchInvariant, PTL

\* Every block reached is counted or pending in one place: the reads of
\* BatchReadByLibAIO, lines 352-407, neither skip a block nor read one twice.
THEOREM EveryBlockAccounted == AioSpec => []Accounted
  <1>1. IInv => Accounted
    BY DEF IInv
  <1> QED
    BY <1>1, AioUsesBatch, BatchInvariant, PTL

\* The batch and the reads submitted one by one stay within io_setup(MAX_EVENT).
THEOREM ContextSuffices == AioSpec => []WithinContext
  <1>1. IInv => WithinContext
    <2> SUFFICES ASSUME IInv PROVE WithinContext
      OBVIOUS
    <2>1. /\ IsFiniteSet(inflight) /\ Cardinality(inflight) \in Nat
          /\ IsFiniteSet(ring) /\ Cardinality(ring) \in Nat
          /\ IsFiniteSet(event) /\ Cardinality(event) \in Nat
      BY PendingFinite DEF IInv
    <2>2. inflight \cap ring = {} /\ (inflight \cup ring) \cap event = {}
      BY DEF IInv, Accounted
    <2>3. /\ IsFiniteSet(inflight \cup ring)
          /\ Cardinality(inflight \cup ring) = Cardinality(inflight) + Cardinality(ring)
      BY <2>1, <2>2, DisjointUnion
    <2>4. Cardinality((inflight \cup ring) \cup event)
            = Cardinality(inflight \cup ring) + Cardinality(event)
      BY <2>1, <2>2, <2>3, DisjointUnion
    <2>5. Cardinality(Pending) = InAll
      BY <2>3, <2>4 DEF Pending, InAll
    <2> QED
      BY <2>5 DEF WithinContext, IInv
  <1> QED
    BY <1>1, AioUsesBatch, BatchInvariant, PTL

\* When the loop of lines 377-405 ends, the whole file was read.
THEOREM ReturnsWhenAllRead == AioSpec => []AllRead
  <1>1. IInv => AllRead
    <2> SUFFICES ASSUME IInv, pc = "done" PROVE offset = blocks /\ Pending = {}
      BY DEF AllRead
    <2>1. /\ IsFiniteSet(inflight) /\ Cardinality(inflight) \in Nat
          /\ IsFiniteSet(ring) /\ Cardinality(ring) \in Nat
          /\ IsFiniteSet(event) /\ Cardinality(event) \in Nat
      BY PendingFinite DEF IInv
    <2>2. /\ offset = ready + Cardinality(inflight) + Cardinality(ring) + Cardinality(event)
          /\ offset <= blocks /\ ready >= blocks
          /\ offset \in Nat /\ ready \in Nat /\ blocks \in Nat
      BY AioAssumption DEF IInv, Accounted, Phases, TypeOK
    <2>3. /\ Cardinality(inflight) = 0 /\ Cardinality(ring) = 0 /\ Cardinality(event) = 0
          /\ offset = blocks
      <3> DEFINE i == Cardinality(inflight)
                 r == Cardinality(ring)
                 e == Cardinality(event)
      <3>1. i \in Nat /\ r \in Nat /\ e \in Nat /\ offset = ready + i + r + e
        BY <2>1, <2>2
      <3> HIDE DEF i, r, e
      <3>2. i = 0 /\ r = 0 /\ e = 0 /\ offset = blocks
        BY <2>2, <3>1
      <3> QED
        BY <3>2 DEF i, r, e
    <2>4. inflight = {} /\ ring = {} /\ event = {}
      BY <2>1, <2>3, FS_EmptySet
    <2> QED
      BY <2>3, <2>4 DEF Pending
  <1> QED
    BY <1>1, AioUsesBatch, BatchInvariant, PTL

-----------------------------------------------------------------------------
(* The readers of AioReaders, for any MAX_EVENT.                            *)

\* The readers count with the Cardinality of their own instance.
LEMMA SameCardinality ==
  ASSUME NEW S
  PROVE  K!Cardinality(S) = Cardinality(S)
  BY DEF K!Cardinality, Cardinality

Outstanding == reading \cup completed

ReaderTypes ==
  /\ reader \in {"plain", "eventfd", "error1", "error2", "alloc", "none"}
  /\ at \in {"prepare", "failed", "epoll", "getevents", "done"}
  /\ prepared \in 0..MaxEvent
  /\ iocb \in [K!Reads -> Nat] /\ mem \in [K!Reads -> Nat]
  /\ Outstanding \subseteq K!Reads /\ reading \cap completed = {} /\ readable \subseteq K!Reads
  /\ ret \in Nat /\ finished \in Nat

\* What an event of the k-th read will be taken for.
Described ==
  /\ reader = "error2" => (prepared > 0 => iocb[1] = prepared)
  /\ reader # "error2" => \A k \in 1..prepared : iocb[k] = k
  /\ reader = "alloc" => (completed # {} => mem[1] \in K!Reads)
  /\ reader # "alloc" => \A k \in completed : mem[k] = k

\* The reads that were submitted and not collected.
Submitted ==
  /\ at = "prepare" => Outstanding = IF reader = "error2" THEN 1..prepared ELSE {}
  /\ at \in {"epoll", "getevents", "done"} => prepared = MaxEvent
  /\ at = "getevents" /\ reader # "eventfd" =>
       ret = MaxEvent /\ Outstanding = IF reader = "error1" THEN {1} ELSE K!Reads
  /\ at = "epoll" => reader = "eventfd"
  /\ reader = "none" => at = "prepare"

\* The reader with eventfds counts an eventfd again each time epoll reports it,
\* but waits for as many events: the sum is what it collected.
Summed ==
  reader = "eventfd" =>
    /\ at = "prepare" => finished = 0
    /\ at \in {"epoll", "done"} => finished = Cardinality(K!Reads \ Outstanding)
    /\ at = "getevents" => finished = Cardinality(K!Reads \ Outstanding) + ret
    /\ at \in {"epoll", "getevents"} =>
         \A k \in K!Reads \ Outstanding : printed[k] = [offset |-> k, buf |-> k]

ReaderInv == ReaderTypes /\ Described /\ Submitted /\ Summed /\ Collected

\* Collected, function by function.
Printed ==
  /\ reading = {} /\ completed = {}
  /\ reader \in {"plain", "eventfd"} => \A k \in K!Reads : printed[k] = [offset |-> k, buf |-> k]
  /\ reader = "error2" => \A k \in K!Reads : printed[k] = [offset |-> MaxEvent, buf |-> MaxEvent]
  /\ reader \in {"error1", "alloc"} =>
       mem[1] # 0 /\ \A k \in K!Reads : printed[k] = [offset |-> k, buf |-> mem[1]]

\* What is to hold when a function returns.
LEMMA CollectedPrinted ==
  ASSUME reader' = reader, reader \in {"plain", "eventfd", "error1", "error2", "alloc"}, Printed'
  PROVE  Collected'
  <1>1. CASE reader \in {"plain", "eventfd"}
    BY <1>1 DEF Printed, Collected, K!Collected, K!Reads
  <1>2. CASE reader = "error2"
    BY <1>2 DEF Printed, Collected, K!Collected, K!Reads
  <1>3. CASE reader \in {"error1", "alloc"}
    BY <1>3 DEF Printed, Collected, K!Collected, K!Reads
  <1> QED
    BY <1>1, <1>2, <1>3

\* The readers begin with nothing prepared, or rest.
LEMMA InitReader ==
  ASSUME K!Rest, reader \in Readers \cup {"none"}
  PROVE  ReaderInv
  <1>1. MaxEvent \in Nat /\ MaxEvent >= 1
    BY AioAssumption
  <1>2. /\ at = "prepare" /\ prepared = 0 /\ reading = {} /\ completed = {} /\ readable = {} /\ ret = 0 /\ finished = 0
        /\ iocb = [i \in K!Reads |-> 0] /\ mem = [b \in K!Reads |-> 0]
    BY DEF K!Rest
  <1>3. ReaderTypes
    <2>1. reader \in {"plain", "eventfd", "error1", "error2", "alloc", "none"}
      BY ProgramsAssumption
    <2> QED
      BY <1>1, <1>2, <2>1 DEF ReaderTypes, Outstanding
  <1>4. Described
    BY <1>1, <1>2 DEF Described
  <1>5. Submitted
    BY <1>1, <1>2 DEF Submitted, Outstanding
  <1> QED
    BY <1>2, <1>3, <1>4, <1>5 DEF ReaderInv, Summed, Collected, K!Collected

\* A read is prepared, or its preparation fails.
LEMMA PrepareReader ==
  ASSUME ReaderInv, K!Prepare
  PROVE  ReaderInv'
  <1>1. ReaderTypes /\ Described /\ Submitted /\ Summed /\ MaxEvent \in Nat /\ MaxEvent >= 1
    BY AioAssumption DEF ReaderInv
  <1>2. /\ at = "prepare" /\ prepared < MaxEvent /\ prepared' = prepared + 1
        /\ iocb' = [iocb EXCEPT ![K!Iocb(prepared + 1)] = prepared + 1]
        /\ reading' = IF reader = "error2" THEN reading \cup {prepared + 1} ELSE reading
        /\ UNCHANGED <<reader, at, completed, mem, readable, ret, finished, printed>>
    BY DEF K!Prepare
  <1>3. /\ prepared' \in 1..MaxEvent /\ prepared' \in K!Reads /\ 1 \in K!Reads
        /\ K!Iocb(prepared + 1) = IF reader = "error2" THEN 1 ELSE prepared'
    BY <1>1, <1>2 DEF ReaderTypes, K!Reads, K!Iocb
  <1>4. /\ Outstanding' = IF reader = "error2" THEN Outstanding \cup {prepared'} ELSE Outstanding
        /\ prepared' \notin Outstanding
    BY <1>1, <1>2 DEF Outstanding, Submitted, ReaderTypes
  <1>5. ReaderTypes'
    BY <1>1, <1>2, <1>3, <1>4 DEF ReaderTypes, Outstanding
  <1>6. Described'
    <2>1. CASE reader = "error2"
      BY <1>1, <1>2, <1>3, <2>1 DEF Described, ReaderTypes
    <2>2. CASE reader # "error2"
      <3>1. \A k \in 1..prepared' : k = prepared' \/ (k \in 1..prepared /\ k # prepared')
        BY <1>1, <1>2 DEF ReaderTypes
      <3>2. iocb'[prepared'] = prepared'
        BY <1>1, <1>2, <1>3, <2>2 DEF ReaderTypes
      <3>3. ASSUME NEW k \in 1..prepared, k # prepared'
            PROVE  iocb'[k] = k
        <4>1. k \in K!Reads /\ iocb[k] = k
          BY <1>1, <2>2 DEF Described, ReaderTypes, K!Reads
        <4> QED
          BY <1>1, <1>2, <1>3, <2>2, <3>3, <4>1 DEF ReaderTypes
      <3>4. \A k \in 1..prepared' : iocb'[k] = k
        BY <3>1, <3>2, <3>3
      <3> QED
        BY <1>1, <1>2, <2>2, <3>4 DEF Described
    <2> QED
      BY <2>1, <2>2
  <1>7. Submitted'
    <2>1. 1..prepared' = (1..prepared) \cup {prepared'}
      BY <1>1, <1>2 DEF ReaderTypes
    <2> QED
      BY <1>1, <1>2, <1>4, <2>1 DEF Submitted
  <1>8. Summed' /\ Collected'
    BY <1>1, <1>2 DEF Summed, Collected, K!Collected
  <1> QED
    BY <1>5, <1>6, <1>7, <1>8 DEF ReaderInv

\* The cardinality of a set of reads.
LEMMA ReadsFinite ==
  ASSUME NEW S \in SUBSET K!Reads
  PROVE  /\ IsFiniteSet(S) /\ Cardinality(S) \in Nat /\ Cardinality(S) <= MaxEvent
         /\ Cardinality(S) = MaxEvent => S = K!Reads
  <1>1. \A n \in Nat : IsFiniteSet(1..n) /\ Cardinality(1..n) = n
    BY FS_Interval
  <1>2. IsFiniteSet(K!Reads) /\ Cardinality(K!Reads) = MaxEvent
    BY <1>1, AioAssumption DEF K!Reads
  <1> QED
    BY <1>2, FS_Subset, FS_CardinalityType

\* io_submit: every read that was prepared is in flight, each under its iocb.
LEMMA SubmitReader ==
  ASSUME ReaderInv, reader # "none", K!Submit \/ K!Fail
  PROVE  ReaderInv'
  <1>1. ReaderTypes /\ Described /\ Submitted /\ Summed /\ MaxEvent \in Nat /\ MaxEvent >= 1
    BY AioAssumption DEF ReaderInv
  <1>2. CASE K!Fail
    <2>1. /\ at = "prepare" /\ at' = "failed"
          /\ UNCHANGED <<reader, prepared, iocb, reading, completed, mem, readable, ret, finished, printed>>
      BY <1>2 DEF K!Fail
    <2> QED
      BY <1>1, <2>1 DEF ReaderInv, ReaderTypes, Described, Submitted, Summed, Collected, K!Collected, Outstanding
  <1>3. CASE K!Submit
    <2>1. /\ at = "prepare" /\ prepared = MaxEvent
          /\ reading' = CASE reader = "error1" -> {1}
                           [] reader = "error2" -> reading
                           [] OTHER             -> K!Reads
          /\ at' = IF reader = "eventfd" THEN "epoll" ELSE "getevents"
          /\ ret' = IF reader = "eventfd" THEN 0 ELSE MaxEvent
          /\ UNCHANGED <<reader, prepared, iocb, completed, mem, readable, finished, printed>>
      BY <1>3 DEF K!Submit
    <2>2. reader # "error2" => reading = {} /\ completed = {}
      BY <1>1, <2>1 DEF Submitted, Outstanding
    <2>3. reading' = IF reader = "error1" THEN {1} ELSE IF reader = "error2" THEN reading ELSE K!Reads
      BY <2>1
    <2>4. /\ Outstanding' = (IF reader = "error1" THEN {1} ELSE K!Reads) /\ 1 \in K!Reads
          /\ reading' \cap completed' = {}
      BY <1>1, <2>1, <2>2, <2>3 DEF Submitted, Outstanding, K!Reads, ReaderTypes
    <2>5. ReaderTypes'
      BY <1>1, <2>1, <2>4 DEF ReaderTypes
    <2>6. Described'
      BY <1>1, <2>1 DEF Described
    <2>7. Submitted'
      BY <1>1, <2>1, <2>4 DEF Submitted
    <2>8. Summed'
      <3> SUFFICES ASSUME reader = "eventfd" PROVE Summed'
        BY <2>1 DEF Summed
      <3>1. (K!Reads \ Outstanding)' = {}
        BY <2>4 DEF K!Reads
      <3>2. finished' = 0
        BY <1>1, <2>1 DEF Summed
      <3> QED
        BY <2>1, <3>1, <3>2, FS_EmptySet DEF Summed
    <2> QED
      BY <2>1, <2>5, <2>6, <2>7, <2>8 DEF ReaderInv, Collected, K!Collected
  <1> QED
    BY <1>2, <1>3

\* The kernel completes a read, and writes to the eventfd that goes with it.
LEMMA CompleteReader ==
  ASSUME ReaderInv, NEW k \in K!Reads, K!Complete(k)
  PROVE  ReaderInv'
  <1>1. ReaderTypes /\ Described /\ Submitted /\ Summed /\ Collected /\ MaxEvent \in Nat /\ MaxEvent >= 1
    BY AioAssumption DEF ReaderInv
  <1>2. /\ k \in reading /\ reading' = reading \ {k} /\ completed' = completed \cup {k}
        /\ mem' = [mem EXCEPT ![K!Buf(k)] = k]
        /\ readable' \subseteq readable \cup {k}
        /\ UNCHANGED <<reader, at, prepared, iocb, ret, finished, printed>>
    BY DEF K!Complete
  <1>3. /\ K!Buf(k) = (IF reader = "alloc" THEN 1 ELSE k) /\ K!Buf(k) \in K!Reads
        /\ 1 \in K!Reads /\ k \in Nat
    BY <1>1 DEF K!Buf, K!Reads
  <1>4. Outstanding' = Outstanding
    BY <1>2 DEF Outstanding
  <1>5. ReaderTypes'
    BY <1>1, <1>2, <1>3, <1>4 DEF ReaderTypes
  <1>6. Described'
    <2>1. CASE reader = "alloc"
      BY <1>1, <1>2, <1>3, <2>1 DEF Described, ReaderTypes
    <2>2. CASE reader # "alloc"
      BY <1>1, <1>2, <1>3, <2>2 DEF Described, ReaderTypes, Outstanding
    <2> QED
      BY <2>1, <2>2
  <1>7. Submitted' /\ Summed'
    BY <1>1, <1>2, <1>4 DEF Submitted, Summed
  <1>8. at # "done"
    BY <1>1, <1>2 DEF Collected, K!Collected
  <1> QED
    BY <1>2, <1>5, <1>6, <1>7, <1>8 DEF ReaderInv, Collected, K!Collected

\* epoll_wait reports eventfds, whether or not their reads were collected.
LEMMA EpollReader ==
  ASSUME ReaderInv, K!EpollWait
  PROVE  ReaderInv'
  <1>1. ReaderTypes /\ Described /\ Submitted /\ Summed
    BY DEF ReaderInv
  <1>2. /\ at = "epoll" /\ ret' = Cardinality(readable) /\ finished' = finished + ret'
        /\ at' = "getevents"
        /\ UNCHANGED <<reader, prepared, iocb, reading, completed, mem, readable, printed>>
    BY SameCardinality DEF K!EpollWait
  <1>3. reader = "eventfd" /\ Outstanding' = Outstanding
    BY <1>1, <1>2 DEF Submitted, Outstanding
  <1>4. ret' \in Nat
    <2>1. readable \in SUBSET K!Reads
      BY <1>1 DEF ReaderTypes
    <2> QED
      BY <1>2, <2>1, ReadsFinite
  <1>5. ReaderTypes' /\ Described' /\ Submitted'
    BY <1>1, <1>2, <1>3, <1>4 DEF ReaderTypes, Described, Submitted
  <1>6. Summed'
    BY <1>1, <1>2, <1>3 DEF Summed
  <1> QED
    BY <1>2, <1>5, <1>6 DEF ReaderInv, Collected, K!Collected

\* io_getevents returns as many events as it was asked for.
LEMMA CollectReader ==
  ASSUME ReaderInv, K!GetEvents
  PROVE  ReaderInv'
  <1>1. ReaderTypes /\ Described /\ Submitted /\ Summed /\ MaxEvent \in Nat /\ MaxEvent >= 1
    BY AioAssumption DEF ReaderInv
  <1>2. PICK got \in SUBSET completed :
               /\ Cardinality(got) = ret
               /\ completed' = completed \ got
               /\ printed' = [k \in K!Reads |-> IF k \in got THEN K!Callback(k) ELSE printed[k]]
    BY SameCardinality DEF K!GetEvents
  <1>3. /\ at = "getevents" /\ at' = (IF reader = "eventfd" /\ finished < MaxEvent THEN "epoll" ELSE "done")
        /\ UNCHANGED <<reader, prepared, iocb, reading, mem, readable, ret, finished>>
    BY DEF K!GetEvents
  <1>4. /\ prepared = MaxEvent /\ got \in SUBSET K!Reads /\ Outstanding' = Outstanding \ got
        /\ reader # "none" /\ completed \in SUBSET K!Reads /\ MaxEvent \in K!Reads
    BY <1>1, <1>2, <1>3 DEF Submitted, ReaderTypes, Outstanding, K!Reads
  <1>5. ReaderTypes' /\ Described' /\ Submitted'
    <2>1. completed' \subseteq completed
      BY <1>2
    <2> QED
      BY <1>1, <1>3, <1>4, <2>1 DEF ReaderTypes, Described, Submitted, Outstanding
  <1>6. \A k \in got : K!Callback(k) = [offset |-> iocb[K!Iocb(k)], buf |-> mem[K!Buf(iocb[K!Iocb(k)])]]
    BY DEF K!Callback
  <1>7. \A k \in K!Reads : reader # "error2" => iocb[K!Iocb(k)] = k
    BY <1>1, <1>4 DEF Described, K!Iocb, K!Reads
  <1>8. CASE reader # "eventfd"
    <2>1. at' = "done" /\ ret = MaxEvent
      BY <1>1, <1>3, <1>8 DEF Submitted
    <2>2. got = K!Reads /\ completed = K!Reads /\ completed' = {} /\ reading' = {}
      <3>1. got = K!Reads
        <4>1. Cardinality(got) = MaxEvent
          BY <1>2, <2>1
        <4> QED
          BY <1>4, <4>1, ReadsFinite
      <3> QED
        BY <1>1, <1>2, <1>3, <1>4, <3>1 DEF ReaderTypes, Outstanding
    <2>3. \A k \in K!Reads : printed'[k] = K!Callback(k)
      BY <1>2, <2>2
    <2>4. ASSUME reader \in {"plain", "error1"}
          PROVE  Printed'
      <3>1. \A k \in K!Reads : printed'[k] = [offset |-> k, buf |-> k]
        BY <1>1, <1>6, <1>7, <2>2, <2>3, <2>4 DEF Described, K!Buf
      <3>2. reader = "error1" => K!Reads = {1}
        BY <1>1, <1>3, <1>8, <2>2 DEF Submitted, Outstanding, ReaderTypes
      <3>3. mem' = mem /\ mem[1] = 1
        BY <1>1, <1>3, <1>4, <2>2, <2>4 DEF Described, K!Reads
      <3> QED
        BY <1>3, <1>4, <2>2, <2>4, <3>1, <3>2, <3>3 DEF Printed, K!Reads
    <2>5. ASSUME reader = "error2"
          PROVE  Printed'
      <3>1. iocb[1] = MaxEvent
        BY <1>1, <1>4, <2>5 DEF Described
      <3>2. \A k \in K!Reads : printed'[k] = [offset |-> MaxEvent, buf |-> MaxEvent]
        BY <1>1, <1>4, <1>6, <2>2, <2>3, <2>5, <3>1 DEF Described, K!Buf, K!Iocb
      <3> QED
        BY <1>3, <2>2, <2>5, <3>2 DEF Printed, K!Reads
    <2>6. ASSUME reader = "alloc"
          PROVE  Printed'
      <3>1. mem[1] \in K!Reads
        BY <1>1, <1>4, <2>2, <2>6 DEF Described
      <3>2. \A k \in K!Reads : printed'[k] = [offset |-> k, buf |-> mem[1]]
        BY <1>1, <1>6, <1>7, <2>2, <2>3, <2>6 DEF K!Buf
      <3>3. mem'[1] = mem[1] /\ mem[1] # 0
        BY <1>3, <3>1 DEF K!Reads
      <3> QED
        BY <1>3, <2>2, <2>6, <3>2, <3>3 DEF Printed, K!Reads
    <2>7. Collected'
      <3>1. reader \in {"plain", "error1", "error2", "alloc"} /\ reader' = reader
        BY <1>1, <1>3, <1>4, <1>8 DEF ReaderTypes
      <3> QED
        BY <2>4, <2>5, <2>6, <3>1, CollectedPrinted
    <2> QED
      BY <1>3, <1>5, <1>8, <2>7 DEF ReaderInv, Summed
  <1>9. CASE reader = "eventfd"
    <2> DEFINE before == K!Reads \ Outstanding
               after  == K!Reads \ (Outstanding \ got)
    <2>1. \A k \in after : printed'[k] = [offset |-> k, buf |-> k]
      <3>1. ASSUME NEW k \in got
            PROVE  printed'[k] = [offset |-> k, buf |-> k]
        <4>1. k \in K!Reads /\ mem[k] = k /\ iocb[K!Iocb(k)] = k
          BY <1>1, <1>2, <1>4, <1>7, <1>9 DEF Described
        <4> QED
          BY <1>2, <1>6, <1>9, <4>1 DEF K!Buf
      <3>2. ASSUME NEW k \in before, k \notin got
            PROVE  printed'[k] = [offset |-> k, buf |-> k]
        BY <1>1, <1>2, <1>3, <1>9, <3>2 DEF Summed
      <3> QED
        BY <1>4, <3>1, <3>2
    <2>2. Cardinality(after) = Cardinality(before) + ret
      <3>1. after = before \cup got /\ before \cap got = {}
        BY <1>2, <1>4 DEF Outstanding
      <3>2. IsFiniteSet(before) /\ IsFiniteSet(got)
        <4>1. before \in SUBSET K!Reads
          OBVIOUS
        <4> HIDE DEF before
        <4> QED
          BY <1>4, <4>1, ReadsFinite
      <3> HIDE DEF before, after
      <3> QED
        BY <1>2, <3>1, <3>2, DisjointUnion
    <2>3. finished = Cardinality(after)
      BY <1>1, <1>3, <1>9, <2>2 DEF Summed
    <2>4. (K!Reads \ Outstanding)' = after
      BY <1>4 DEF K!Reads
    <2> HIDE DEF before
    <2>5. Summed'
      BY <1>3, <1>9, <2>1, <2>3, <2>4 DEF Summed, K!Reads
    <2>6. ASSUME at' = "done"
          PROVE  completed' = {} /\ reading' = {} /\ after = K!Reads
      <3>1. finished >= MaxEvent /\ after \in SUBSET K!Reads
        BY <1>1, <1>3, <1>9, <2>6 DEF ReaderTypes
      <3>2. Cardinality(after) <= MaxEvent /\ Cardinality(after) \in Nat
        BY <3>1, ReadsFinite
      <3>3. Cardinality(after) = MaxEvent
        BY <1>1, <2>3, <3>1, <3>2
      <3>4. after = K!Reads
        BY <3>1, <3>3, ReadsFinite
      <3> QED
        BY <1>1, <1>4, <3>4 DEF Outstanding, ReaderTypes
    <2>7. Collected'
      <3> SUFFICES ASSUME at' = "done" PROVE Collected'
        BY DEF Collected, K!Collected
      <3> QED
        BY <1>3, <1>9, <2>1, <2>6 DEF Collected, K!Collected, K!Reads
    <2> QED
      BY <1>5, <2>5, <2>7 DEF ReaderInv
  <1> QED
    BY <1>8, <1>9

\* A step of the readers keeps their invariant.
LEMMA NextReader ==
  ASSUME ReaderInv, reader # "none", K!Next
  PROVE  ReaderInv'
  BY PrepareReader, SubmitReader, CompleteReader, EpollReader, CollectReader
  DEF K!Next, K!Read, K!Kernel

\* Every function returns only with nothing in flight, and prints what its
\* comment says it prints, for any number of reads.
THEOREM EveryReadCollected == AioSpec => []Collected
  <1> DEFINE Inv == ReaderInv /\ (program # "readers" => reader = "none") /\ (program = "readers" => reader # "none")
  <1>1. AioInit => Inv
    BY InitReader, ProgramsAssumption DEF AioInit, K!Init
  <1>2. Inv /\ [AioNext]_<<program, vars, readerVars, glibcVars>> => Inv'
    <2> SUFFICES ASSUME Inv, [AioNext]_<<program, vars, readerVars, glibcVars>> PROVE Inv'
      OBVIOUS
    <2>1. program' = program
      BY DEF AioNext
    <2>2. CASE UNCHANGED readerVars
      BY <2>1, <2>2 DEF readerVars, ReaderInv, ReaderTypes, Described, Submitted, Summed, Collected,
         K!Collected, Outstanding
    <2>3. CASE program = "readers" /\ K!Next
      <3>1. reader' = reader
        BY <2>3 DEF K!Next, K!Read, K!Kernel, K!Prepare, K!Fail, K!Submit, K!EpollWait, K!GetEvents, K!Complete
      <3> QED
        BY <2>1, <2>3, <3>1, NextReader
    <2> QED
      BY <2>2, <2>3 DEF AioNext
  <1> QED
    BY <1>1, <1>2, PTL DEF AioSpec, ReaderInv

-----------------------------------------------------------------------------
(* The five ways of GlibcAio to hear of the end of a read.                  *)

SigeventType == [notify : {"SIGEV_SIGNAL", "SIGEV_THREAD"}, signo : BOOLEAN,
                 function : BOOLEAN, value : BOOLEAN]

GlibcTypes ==
  /\ sigevent \in SigeventType
  /\ error \in {"none", "EINPROGRESS", "0"}
  /\ process \in {"running", "returned", "killed", "crashed"}
  /\ notified \in BOOLEAN /\ handler \in BOOLEAN /\ blocked \in BOOLEAN
  /\ signal \in BOOLEAN /\ started \in BOOLEAN /\ handled \in {0, 1}

\* What each function has left, which of its fields are set by then, and
\* whether the result was printed.
SleepStages ==
  /\ todo \in {<<"poll", "sleep">>, <<"sleep">>, << >>}
  /\ handled = 0 <=> todo = <<"poll", "sleep">>
SignalStages ==
  /\ todo \in {<<"handler", "value", "signo", "sleep">>, <<"value", "signo", "sleep">>,
               <<"signo", "sleep">>, <<"sleep">>, << >>}
  /\ todo # <<"handler", "value", "signo", "sleep">> => handler
  /\ todo \in {<<"signo", "sleep">>, <<"sleep">>, << >>} => sigevent.value
ThreadStages ==
  /\ todo \in {<<"value", "thread", "function", "sleep">>, <<"thread", "function", "sleep">>,
               <<"function", "sleep">>, <<"sleep">>, << >>}
  /\ todo # <<"value", "thread", "function", "sleep">> => sigevent.value
SignalFdStages ==
  /\ todo \in {<<"value", "signo", "block", "read">>, <<"signo", "block", "read">>,
               <<"block", "read">>, <<"read">>}
  /\ todo # <<"value", "signo", "block", "read">> => sigevent.value
EpollStages ==
  /\ todo \in {<<"value", "signo", "block", "wait", "read", "sleep">>,
               <<"signo", "block", "wait", "read", "sleep">>,
               <<"block", "wait", "read", "sleep">>, <<"wait", "read", "sleep">>,
               <<"read", "sleep">>, <<"sleep">>, << >>}
  /\ todo # <<"value", "signo", "block", "wait", "read", "sleep">> => sigevent.value
  /\ handled = 1 <=> todo \in {<<"sleep">>, << >>}

Stages ==
  /\ method = "sleep" => SleepStages
  /\ method = "signal" => SignalStages
  /\ method = "thread" => ThreadStages
  /\ method = "signalfd" => SignalFdStages
  /\ method = "epoll" => EpollStages
  /\ method \notin DOMAIN G!Code => process = "returned"
  /\ process = "returned" /\ error # "none" => todo = << >>
  /\ error = "none" => handled = 0

\* A notification needs its pointer, and SIGUSR1 a handler or a signalfd.
Fields ==
  /\ sigevent.signo \/ sigevent.function => sigevent.value
  /\ sigevent.signo => handler \/ method \in {"signalfd", "epoll"}
  /\ sigevent.notify = "SIGEV_THREAD" \/ sigevent.function => method = "thread"
  /\ handler => method = "signal"

\* The library notifies once, and what it sent is in one place.
SentOnce ==
  /\ notified => error = "0"
  /\ ~ notified => ~ signal /\ ~ started
  /\ ~ notified /\ handled = 1 => method = "sleep"
  /\ signal => sigevent.signo /\ handled = 0 /\ ~ started
  /\ started => sigevent.function /\ handled = 0
  /\ handled = 1 => error = "0"

Ended ==
  /\ process = "killed" => method \in {"signalfd", "epoll"} /\ ~ blocked
  /\ process = "crashed" => method = "thread" /\ ~ sigevent.function

GlibcInv == GlibcTypes /\ Stages /\ Fields /\ SentOnce /\ Ended

\* The steps of the five functions, in the order of their code.
LEMMA SleepOrder ==
  ASSUME NEW x, todo # << >>, Head(todo) = x, todo' = Tail(todo), SleepStages
  PROVE  \/ x = "poll" /\ todo = <<"poll", "sleep">> /\ todo' = <<"sleep">>
         \/ x = "sleep" /\ todo = <<"sleep">> /\ todo' = << >>
  <1>1. todo \in {<<"poll", "sleep">>, <<"sleep">>}
    BY DEF SleepStages
  <1>2. CASE todo = <<"poll", "sleep">>
    BY <1>2
  <1>3. CASE todo = <<"sleep">>
    BY <1>3
  <1> QED
    BY <1>1, <1>2, <1>3

LEMMA SignalOrder ==
  ASSUME NEW x, todo # << >>, Head(todo) = x, todo' = Tail(todo), SignalStages
  PROVE  \/ x = "handler" /\ todo = <<"handler", "value", "signo", "sleep">> /\ todo' = <<"value", "signo", "sleep">>
         \/ x = "value" /\ todo = <<"value", "signo", "sleep">> /\ todo' = <<"signo", "sleep">>
         \/ x = "signo" /\ todo = <<"signo", "sleep">> /\ todo' = <<"sleep">>
         \/ x = "sleep" /\ todo = <<"sleep">> /\ todo' = << >>
  <1>1. todo \in {<<"handler", "value", "signo", "sleep">>, <<"value", "signo", "sleep">>, <<"signo", "sleep">>, <<"sleep">>}
    BY DEF SignalStages
  <1>2. CASE todo = <<"handler", "value", "signo", "sleep">>
    BY <1>2
  <1>3. CASE todo = <<"value", "signo", "sleep">>
    BY <1>3
  <1>4. CASE todo = <<"signo", "sleep">>
    BY <1>4
  <1>5. CASE todo = <<"sleep">>
    BY <1>5
  <1> QED
    BY <1>1, <1>2, <1>3, <1>4, <1>5

LEMMA ThreadOrder ==
  ASSUME NEW x, todo # << >>, Head(todo) = x, todo' = Tail(todo), ThreadStages
  PROVE  \/ x = "value" /\ todo = <<"value", "thread", "function", "sleep">> /\ todo' = <<"thread", "function", "sleep">>
         \/ x = "thread" /\ todo = <<"thread", "function", "sleep">> /\ todo' = <<"function", "sleep">>
         \/ x = "function" /\ todo = <<"function", "sleep">> /\ todo' = <<"sleep">>
         \/ x = "sleep" /\ todo = <<"sleep">> /\ todo' = << >>
  <1>1. todo \in {<<"value", "thread", "function", "sleep">>, <<"thread", "function", "sleep">>, <<"function", "sleep">>, <<"sleep">>}
    BY DEF ThreadStages
  <1>2. CASE todo = <<"value", "thread", "function", "sleep">>
    BY <1>2
  <1>3. CASE todo = <<"thread", "function", "sleep">>
    BY <1>3
  <1>4. CASE todo = <<"function", "sleep">>
    BY <1>4
  <1>5. CASE todo = <<"sleep">>
    BY <1>5
  <1> QED
    BY <1>1, <1>2, <1>3, <1>4, <1>5

LEMMA SignalFdOrder ==
  ASSUME NEW x, todo # << >>, Head(todo) = x, todo' = Tail(todo), SignalFdStages
  PROVE  \/ x = "value" /\ todo = <<"value", "signo", "block", "read">> /\ todo' = <<"signo", "block", "read">>
         \/ x = "signo" /\ todo = <<"signo", "block", "read">> /\ todo' = <<"block", "read">>
         \/ x = "block" /\ todo = <<"block", "read">> /\ todo' = <<"read">>
         \/ x = "read" /\ todo = <<"read">> /\ todo' = << >>
  <1>1. todo \in {<<"value", "signo", "block", "read">>, <<"signo", "block", "read">>, <<"block", "read">>, <<"read">>}
    BY DEF SignalFdStages
  <1>2. CASE todo = <<"value", "signo", "block", "read">>
    BY <1>2
  <1>3. CASE todo = <<"signo", "block", "read">>
    BY <1>3
  <1>4. CASE todo = <<"block", "read">>
    BY <1>4
  <1>5. CASE todo = <<"read">>
    BY <1>5
  <1> QED
    BY <1>1, <1>2, <1>3, <1>4, <1>5

LEMMA EpollOrder ==
  ASSUME NEW x, todo # << >>, Head(todo) = x, todo' = Tail(todo), EpollStages
  PROVE  \/ x = "value" /\ todo = <<"value", "signo", "block", "wait", "read", "sleep">> /\ todo' = <<"signo", "block", "wait", "read", "sleep">>
         \/ x = "signo" /\ todo = <<"signo", "block", "wait", "read", "sleep">> /\ todo' = <<"block", "wait", "read", "sleep">>
         \/ x = "block" /\ todo = <<"block", "wait", "read", "sleep">> /\ todo' = <<"wait", "read", "sleep">>
         \/ x = "wait" /\ todo = <<"wait", "read", "sleep">> /\ todo' = <<"read", "sleep">>
         \/ x = "read" /\ todo = <<"read", "sleep">> /\ todo' = <<"sleep">>
         \/ x = "sleep" /\ todo = <<"sleep">> /\ todo' = << >>
  <1>1. todo \in {<<"value", "signo", "block", "wait", "read", "sleep">>, <<"signo", "block", "wait", "read", "sleep">>, <<"block", "wait", "read", "sleep">>, <<"wait", "read", "sleep">>, <<"read", "sleep">>, <<"sleep">>}
    BY DEF EpollStages
  <1>2. CASE todo = <<"value", "signo", "block", "wait", "read", "sleep">>
    BY <1>2
  <1>3. CASE todo = <<"signo", "block", "wait", "read", "sleep">>
    BY <1>3
  <1>4. CASE todo = <<"block", "wait", "read", "sleep">>
    BY <1>4
  <1>5. CASE todo = <<"wait", "read", "sleep">>
    BY <1>5
  <1>6. CASE todo = <<"read", "sleep">>
    BY <1>6
  <1>7. CASE todo = <<"sleep">>
    BY <1>7
  <1> QED
    BY <1>1, <1>2, <1>3, <1>4, <1>5, <1>6, <1>7

\* What a step of a function finds.
LEMMA AtStage ==
  ASSUME NEW x, GlibcInv, G!At(x)
  PROVE  /\ todo # << >> /\ Head(todo) = x
         /\ error \in {"EINPROGRESS", "0"} /\ process = "running"
         /\ method \in {"sleep", "signal", "thread", "signalfd", "epoll"}
  BY DEF GlibcInv, GlibcTypes, Stages, G!At, G!Code

\* aio_read submits the read or fails.
LEMMA ReadKeeps == GlibcInv /\ G!AioRead => GlibcInv'
  <1> SUFFICES ASSUME GlibcInv, G!AioRead PROVE GlibcInv'
    OBVIOUS
  <1>1. UNCHANGED <<method, todo, sigevent, notified, handler, blocked, signal, started, handled>>
    BY DEF G!AioRead
  <1>2. error = "none" /\ process = "running"
    BY DEF G!AioRead
  <1>3. \/ error' = "EINPROGRESS" /\ process' = "running"
        \/ process' = "returned" /\ error' = "none"
    BY <1>2 DEF G!AioRead
  <1>4. GlibcTypes' /\ Fields' /\ SentOnce' /\ Ended'
    BY <1>1, <1>2, <1>3 DEF GlibcInv, GlibcTypes, Fields, SentOnce, Ended, SigeventType
  <1>5. Stages'
    BY <1>1, <1>2, <1>3 DEF GlibcInv, Stages, SleepStages, SignalStages, ThreadStages, SignalFdStages, EpollStages
  <1> QED
    BY <1>4, <1>5 DEF GlibcInv

\* CheckBySleep finds the read done.
LEMMA PollKeeps == GlibcInv /\ G!Poll => GlibcInv'
  <1> SUFFICES ASSUME GlibcInv, G!Poll PROVE GlibcInv'
    OBVIOUS
  <1>1. UNCHANGED <<method, sigevent, error, notified, handler, blocked, signal, started, process>>
    BY DEF G!Poll
  <1>2. /\ todo # << >> /\ Head(todo) = "poll" /\ error = "0" /\ process = "running"
        /\ method \in {"sleep", "signal", "thread", "signalfd", "epoll"}
    BY AtStage DEF G!Poll
  <1>3. todo' = Tail(todo) /\ handled' = handled + 1
    BY DEF G!Poll, G!Goes
  <1>4. method = "sleep"
    BY <1>2, <1>3, SignalOrder, ThreadOrder, SignalFdOrder, EpollOrder DEF GlibcInv, Stages
  <1>5. todo = <<"poll", "sleep">> /\ todo' = <<"sleep">>
    BY <1>2, <1>3, <1>4, SleepOrder DEF GlibcInv, Stages
  <1>6. handled = 0 /\ handled' = 1
    BY <1>3, <1>4, <1>5 DEF GlibcInv, GlibcTypes, Stages, SleepStages
  <1>7. GlibcTypes' /\ Fields' /\ SentOnce' /\ Ended'
    BY <1>1, <1>2, <1>4, <1>6 DEF GlibcInv, GlibcTypes, Fields, SentOnce, Ended, SigeventType
  <1>8. Stages'
    BY <1>1, <1>2, <1>4, <1>5, <1>6 DEF Stages, SleepStages, G!Code
  <1> QED
    BY <1>7, <1>8 DEF GlibcInv

\* CheckBySignal installs its handler before it chooses a signal.
LEMMA InstallKeeps == GlibcInv /\ G!Install => GlibcInv'
  <1> SUFFICES ASSUME GlibcInv, G!Install PROVE GlibcInv'
    OBVIOUS
  <1>1. UNCHANGED <<method, sigevent, error, notified, blocked, signal, started, handled, process>>
    BY DEF G!Install
  <1>2. /\ todo # << >> /\ Head(todo) = "handler" /\ process = "running"
        /\ error \in {"EINPROGRESS", "0"}
        /\ method \in {"sleep", "signal", "thread", "signalfd", "epoll"}
    BY AtStage DEF G!Install
  <1>3. todo' = Tail(todo) /\ handler' = TRUE
    BY DEF G!Install, G!Goes
  <1>4. method = "signal"
    BY <1>2, <1>3, SleepOrder, ThreadOrder, SignalFdOrder, EpollOrder DEF GlibcInv, Stages
  <1>5. /\ todo = <<"handler", "value", "signo", "sleep">>
        /\ todo' = <<"value", "signo", "sleep">>
    BY <1>2, <1>3, <1>4, SignalOrder DEF GlibcInv, Stages
  <1>6. GlibcTypes' /\ Fields' /\ SentOnce' /\ Ended'
    BY <1>1, <1>2, <1>3, <1>4 DEF GlibcInv, GlibcTypes, Fields, SentOnce, Ended, SigeventType
  <1>7. Stages'
    BY <1>1, <1>2, <1>3, <1>4, <1>5 DEF Stages, SignalStages, G!Code
  <1> QED
    BY <1>6, <1>7 DEF GlibcInv

\* A field of aio_sigevent is set: the pointer before what makes use of it.
LEMMA SetKeeps == GlibcInv /\ G!SetSigevent => GlibcInv'
  <1> SUFFICES ASSUME GlibcInv, G!SetSigevent PROVE GlibcInv'
    OBVIOUS
  <1>1. UNCHANGED <<method, error, notified, handler, blocked, signal, started, handled, process>>
    BY DEF G!SetSigevent
  <1>2. todo' = Tail(todo)
    BY DEF G!SetSigevent, G!Goes
  <1>3. CASE G!At("value") /\ sigevent' = [sigevent EXCEPT !.value = TRUE]
    <2>1. /\ todo # << >> /\ Head(todo) = "value" /\ process = "running"
          /\ method \in {"sleep", "signal", "thread", "signalfd", "epoll"}
      BY <1>3, AtStage
    <2>2. sigevent'.value /\ sigevent' \in SigeventType
      BY <1>3 DEF GlibcInv, GlibcTypes, SigeventType
    <2>3. /\ sigevent'.signo = sigevent.signo /\ sigevent'.function = sigevent.function
          /\ sigevent'.notify = sigevent.notify
      BY <1>3 DEF GlibcInv, GlibcTypes, SigeventType
    <2>4. GlibcTypes' /\ Fields' /\ SentOnce' /\ Ended'
      BY <1>1, <2>1, <2>2, <2>3 DEF GlibcInv, GlibcTypes, Fields, SentOnce, Ended
    <2>5. method # "sleep"
      BY <1>2, <2>1, SleepOrder DEF GlibcInv, Stages
    <2>6. CASE method = "signal"
      <3>1. todo = <<"value", "signo", "sleep">> /\ todo' = <<"signo", "sleep">>
        BY <1>2, <2>1, <2>6, SignalOrder DEF GlibcInv, Stages
      <3> QED
        BY <1>1, <2>1, <2>2, <2>4, <2>6, <3>1 DEF GlibcInv, Stages, SignalStages, G!Code
    <2>7. CASE method = "thread"
      <3>1. todo' = <<"thread", "function", "sleep">>
        BY <1>2, <2>1, <2>7, ThreadOrder DEF GlibcInv, Stages
      <3> QED
        BY <1>1, <2>1, <2>2, <2>4, <2>7, <3>1 DEF GlibcInv, Stages, ThreadStages, G!Code
    <2>8. CASE method = "signalfd"
      <3>1. todo' = <<"signo", "block", "read">>
        BY <1>2, <2>1, <2>8, SignalFdOrder DEF GlibcInv, Stages
      <3> QED
        BY <1>1, <2>1, <2>2, <2>4, <2>8, <3>1 DEF GlibcInv, Stages, SignalFdStages, G!Code
    <2>9. CASE method = "epoll"
      <3>1. /\ todo = <<"value", "signo", "block", "wait", "read", "sleep">>
            /\ todo' = <<"signo", "block", "wait", "read", "sleep">>
        BY <1>2, <2>1, <2>9, EpollOrder DEF GlibcInv, Stages
      <3>2. handled' # 1
        BY <1>1, <2>9, <3>1 DEF GlibcInv, Stages, EpollStages
      <3> QED
        BY <1>1, <2>1, <2>2, <2>4, <2>9, <3>1, <3>2 DEF GlibcInv, Stages, EpollStages, G!Code
    <2> QED
      BY <2>1, <2>5, <2>6, <2>7, <2>8, <2>9
  <1>4. CASE G!At("signo") /\ sigevent' = [sigevent EXCEPT !.signo = TRUE]
    <2>1. /\ todo # << >> /\ Head(todo) = "signo" /\ process = "running"
          /\ method \in {"sleep", "signal", "thread", "signalfd", "epoll"}
      BY <1>4, AtStage
    <2>2. /\ sigevent' \in SigeventType /\ sigevent'.signo
          /\ sigevent'.function = sigevent.function /\ sigevent'.value = sigevent.value
          /\ sigevent'.notify = sigevent.notify
      BY <1>4 DEF GlibcInv, GlibcTypes, SigeventType
    <2>3. method \in {"signal", "signalfd", "epoll"}
      BY <1>2, <2>1, SleepOrder, ThreadOrder DEF GlibcInv, Stages
    <2>4. CASE method = "signal"
      <3>1. todo = <<"signo", "sleep">> /\ todo' = <<"sleep">>
        BY <1>2, <2>1, <2>4, SignalOrder DEF GlibcInv, Stages
      <3>2. handler /\ sigevent.value
        BY <2>4, <3>1 DEF GlibcInv, Stages, SignalStages
      <3>3. GlibcTypes' /\ Fields' /\ SentOnce' /\ Ended'
        BY <1>1, <2>1, <2>2, <2>4, <3>2 DEF GlibcInv, GlibcTypes, Fields, SentOnce, Ended
      <3> QED
        BY <1>1, <2>1, <2>2, <2>4, <3>1, <3>2, <3>3 DEF GlibcInv, Stages, SignalStages, G!Code
    <2>5. CASE method = "signalfd"
      <3>1. todo = <<"signo", "block", "read">> /\ todo' = <<"block", "read">>
        BY <1>2, <2>1, <2>5, SignalFdOrder DEF GlibcInv, Stages
      <3>2. sigevent.value
        BY <2>5, <3>1 DEF GlibcInv, Stages, SignalFdStages
      <3>3. GlibcTypes' /\ Fields' /\ SentOnce' /\ Ended'
        BY <1>1, <2>1, <2>2, <2>5, <3>2 DEF GlibcInv, GlibcTypes, Fields, SentOnce, Ended
      <3> QED
        BY <1>1, <2>1, <2>2, <2>5, <3>1, <3>2, <3>3 DEF GlibcInv, Stages, SignalFdStages, G!Code
    <2>6. CASE method = "epoll"
      <3>1. /\ todo = <<"signo", "block", "wait", "read", "sleep">>
            /\ todo' = <<"block", "wait", "read", "sleep">>
        BY <1>2, <2>1, <2>6, EpollOrder DEF GlibcInv, Stages
      <3>2. sigevent.value /\ handled' # 1
        BY <1>1, <2>6, <3>1 DEF GlibcInv, Stages, EpollStages
      <3>3. GlibcTypes' /\ Fields' /\ SentOnce' /\ Ended'
        BY <1>1, <2>1, <2>2, <2>6, <3>2 DEF GlibcInv, GlibcTypes, Fields, SentOnce, Ended
      <3> QED
        BY <1>1, <2>1, <2>2, <2>6, <3>1, <3>2, <3>3 DEF GlibcInv, Stages, EpollStages, G!Code
    <2> QED
      BY <2>3, <2>4, <2>5, <2>6
  <1>5. ASSUME NEW x \in {"thread", "function"}, G!At(x),
               sigevent' \in SigeventType, sigevent'.value = sigevent.value,
               sigevent'.signo = sigevent.signo, sigevent.function => sigevent'.function
        PROVE  GlibcInv'
    <2>1. /\ todo # << >> /\ Head(todo) = x /\ process = "running"
          /\ method \in {"sleep", "signal", "thread", "signalfd", "epoll"}
      BY <1>5, AtStage
    <2>2. method = "thread"
      BY <1>2, <1>5, <2>1, SleepOrder, SignalOrder, SignalFdOrder, EpollOrder DEF GlibcInv, Stages
    <2>3. /\ todo # <<"value", "thread", "function", "sleep">>
          /\ todo' \in {<<"function", "sleep">>, <<"sleep">>}
      BY <1>2, <1>5, <2>1, <2>2, ThreadOrder DEF GlibcInv, Stages
    <2>4. sigevent.value
      BY <2>2, <2>3 DEF GlibcInv, Stages, ThreadStages
    <2>5. ~ sigevent.signo /\ (started => sigevent.function)
      BY <2>2 DEF GlibcInv, Fields, SentOnce
    <2>6. GlibcTypes' /\ Fields' /\ SentOnce' /\ Ended'
      BY <1>1, <1>5, <2>1, <2>2, <2>4, <2>5 DEF GlibcInv, GlibcTypes, Fields, SentOnce, Ended
    <2> QED
      BY <1>1, <1>5, <2>1, <2>2, <2>3, <2>4, <2>6 DEF GlibcInv, Stages, ThreadStages, G!Code
  <1> QED
    BY <1>3, <1>4, <1>5 DEF G!SetSigevent, GlibcInv, GlibcTypes, SigeventType

\* SIGUSR1 is blocked; the kill could only come before.
LEMMA BlockKeeps == GlibcInv /\ G!Block => GlibcInv'
  <1> SUFFICES ASSUME GlibcInv, G!Block PROVE GlibcInv'
    OBVIOUS
  <1>1. UNCHANGED <<method, sigevent, error, notified, handler, signal, started, handled, process>>
    BY DEF G!Block
  <1>2. /\ todo # << >> /\ Head(todo) = "block" /\ process = "running"
        /\ method \in {"sleep", "signal", "thread", "signalfd", "epoll"}
    BY AtStage DEF G!Block
  <1>3. todo' = Tail(todo) /\ blocked' = TRUE
    BY DEF G!Block, G!Goes
  <1>4. method \in {"signalfd", "epoll"}
    BY <1>2, <1>3, SleepOrder, SignalOrder, ThreadOrder DEF GlibcInv, Stages
  <1>5. GlibcTypes' /\ Fields' /\ SentOnce' /\ Ended'
    BY <1>1, <1>2, <1>3 DEF GlibcInv, GlibcTypes, Fields, SentOnce, Ended
  <1>6. CASE method = "signalfd"
    <2>1. todo = <<"block", "read">> /\ todo' = <<"read">>
      BY <1>2, <1>3, <1>6, SignalFdOrder DEF GlibcInv, Stages
    <2> QED
      BY <1>1, <1>2, <1>5, <1>6, <2>1 DEF GlibcInv, Stages, SignalFdStages, G!Code
  <1>7. CASE method = "epoll"
    <2>1. todo = <<"block", "wait", "read", "sleep">> /\ todo' = <<"wait", "read", "sleep">>
      BY <1>2, <1>3, <1>7, EpollOrder DEF GlibcInv, Stages
    <2>2. sigevent.value /\ handled' # 1
      BY <1>1, <1>7, <2>1 DEF GlibcInv, Stages, EpollStages
    <2> QED
      BY <1>1, <1>2, <1>5, <1>7, <2>1, <2>2 DEF GlibcInv, Stages, EpollStages, G!Code
  <1> QED
    BY <1>4, <1>6, <1>7

\* epoll_wait finds the signalfd readable.
LEMMA EpollWaitKeeps == GlibcInv /\ G!EpollWait => GlibcInv'
  <1> SUFFICES ASSUME GlibcInv, G!EpollWait PROVE GlibcInv'
    OBVIOUS
  <1>1. UNCHANGED <<method, sigevent, error, notified, handler, blocked, signal, started, handled, process>>
    BY DEF G!EpollWait
  <1>2. /\ todo # << >> /\ Head(todo) = "wait" /\ process = "running"
        /\ method \in {"sleep", "signal", "thread", "signalfd", "epoll"}
    BY AtStage DEF G!EpollWait
  <1>3. todo' = Tail(todo)
    BY DEF G!EpollWait, G!Goes
  <1>4. method = "epoll"
    BY <1>2, <1>3, SleepOrder, SignalOrder, ThreadOrder, SignalFdOrder DEF GlibcInv, Stages
  <1>5. /\ todo = <<"wait", "read", "sleep">> /\ todo' = <<"read", "sleep">>
    BY <1>2, <1>3, <1>4, EpollOrder DEF GlibcInv, Stages
  <1>6. GlibcTypes' /\ Fields' /\ SentOnce' /\ Ended'
    BY <1>1 DEF GlibcInv, GlibcTypes, Fields, SentOnce, Ended
  <1>7. sigevent.value /\ handled' # 1
    BY <1>1, <1>4, <1>5 DEF GlibcInv, Stages, EpollStages
  <1>8. Stages'
    BY <1>1, <1>2, <1>4, <1>5, <1>7 DEF GlibcInv, Stages, EpollStages, G!Code
  <1> QED
    BY <1>6, <1>8 DEF GlibcInv

\* The signal is pending, so nothing was printed.
LEMMA ReadSignalKeeps == GlibcInv /\ G!ReadSignalFd => GlibcInv'
  <1> SUFFICES ASSUME GlibcInv, G!ReadSignalFd PROVE GlibcInv'
    OBVIOUS
  <1>1. UNCHANGED <<method, sigevent, error, notified, handler, blocked, started, process>>
    BY DEF G!ReadSignalFd
  <1>2. /\ todo # << >> /\ Head(todo) = "read" /\ process = "running"
        /\ error \in {"EINPROGRESS", "0"}
        /\ method \in {"sleep", "signal", "thread", "signalfd", "epoll"}
    BY AtStage DEF G!ReadSignalFd
  <1>3. signal /\ signal' = FALSE /\ handled' = handled + 1
    BY DEF G!ReadSignalFd
  <1>4. handled = 0 /\ handled' = 1 /\ ~ started /\ error = "0" /\ notified /\ sigevent.value
    BY <1>3 DEF GlibcInv, GlibcTypes, SentOnce, Fields
  <1>5. GlibcTypes' /\ Fields' /\ SentOnce' /\ Ended'
    BY <1>1, <1>2, <1>3, <1>4 DEF GlibcInv, GlibcTypes, Fields, SentOnce, Ended
  <1>6. CASE method = "signalfd"
    <2>1. todo' = todo
      BY <1>6 DEF G!ReadSignalFd
    <2> QED
      BY <1>1, <1>2, <1>4, <1>5, <1>6, <2>1 DEF GlibcInv, Stages, SignalFdStages, G!Code
  <1>7. CASE method # "signalfd"
    <2>1. todo' = Tail(todo)
      BY <1>7 DEF G!ReadSignalFd, G!Goes
    <2>2. method = "epoll"
      BY <1>2, <1>7, <2>1, SleepOrder, SignalOrder, ThreadOrder DEF GlibcInv, Stages
    <2>3. todo = <<"read", "sleep">> /\ todo' = <<"sleep">>
      BY <1>2, <2>1, <2>2, EpollOrder DEF GlibcInv, Stages
    <2> QED
      BY <1>1, <1>2, <1>4, <1>5, <2>2, <2>3 DEF GlibcInv, Stages, EpollStages, G!Code
  <1> QED
    BY <1>6, <1>7

\* The sleep ends and the program returns.
LEMMA ReturnKeeps == GlibcInv /\ G!Return => GlibcInv'
  <1> SUFFICES ASSUME GlibcInv, G!Return PROVE GlibcInv'
    OBVIOUS
  <1>1. UNCHANGED <<method, sigevent, error, notified, handler, blocked, signal, started, handled>>
    BY DEF G!Return
  <1>2. /\ todo # << >> /\ Head(todo) = "sleep" /\ error \in {"EINPROGRESS", "0"}
        /\ method \in {"sleep", "signal", "thread", "signalfd", "epoll"}
    BY AtStage DEF G!Return
  <1>3. todo' = Tail(todo) /\ process' = "returned"
    BY DEF G!Return, G!Goes
  <1>4. GlibcTypes' /\ Fields' /\ SentOnce' /\ Ended'
    BY <1>1, <1>3 DEF GlibcInv, GlibcTypes, Fields, SentOnce, Ended
  <1>5. CASE method = "sleep"
    <2>1. todo = <<"sleep">> /\ todo' = << >>
      BY <1>2, <1>3, <1>5, SleepOrder DEF GlibcInv, Stages
    <2> QED
      BY <1>1, <1>2, <1>3, <1>4, <1>5, <2>1 DEF GlibcInv, Stages, SleepStages, G!Code
  <1>6. CASE method = "signal"
    <2>1. todo = <<"sleep">> /\ todo' = << >>
      BY <1>2, <1>3, <1>6, SignalOrder DEF GlibcInv, Stages
    <2> QED
      BY <1>1, <1>2, <1>3, <1>4, <1>6, <2>1 DEF GlibcInv, Stages, SignalStages, G!Code
  <1>7. CASE method = "thread"
    <2>1. todo = <<"sleep">> /\ todo' = << >>
      BY <1>2, <1>3, <1>7, ThreadOrder DEF GlibcInv, Stages
    <2> QED
      BY <1>1, <1>2, <1>3, <1>4, <1>7, <2>1 DEF GlibcInv, Stages, ThreadStages, G!Code
  <1>8. method # "signalfd"
    BY <1>2, <1>3, SignalFdOrder DEF GlibcInv, Stages
  <1>9. CASE method = "epoll"
    <2>1. todo = <<"sleep">> /\ todo' = << >>
      BY <1>2, <1>3, <1>9, EpollOrder DEF GlibcInv, Stages
    <2> QED
      BY <1>1, <1>2, <1>3, <1>4, <1>9, <2>1 DEF GlibcInv, Stages, EpollStages, G!Code
  <1> QED
    BY <1>2, <1>5, <1>6, <1>7, <1>8, <1>9

-----------------------------------------------------------------------------
\* A step of the library or the system leaves the function where it is.
LEMMA SameStage ==
  ASSUME GlibcInv, UNCHANGED <<method, todo, sigevent, handler>>,
         process = "running", process' \in {"running", "killed", "crashed"},
         error' # "none", handled' = handled \/ method \in {"signal", "thread"}
  PROVE  Stages'
  BY DEF GlibcInv, Stages, SleepStages, SignalStages, ThreadStages, SignalFdStages, EpollStages, G!Code

\* Only the methods with a handler are heard of outside their function.
LEMMA LibraryKeeps == GlibcInv /\ (G!Library \/ G!System) => GlibcInv'
  <1> SUFFICES ASSUME GlibcInv, G!Library \/ G!System PROVE GlibcInv'
    OBVIOUS
  <1>1. CASE G!Complete
    <2>1. /\ UNCHANGED <<method, todo, sigevent, notified, handler, blocked, signal, started, handled, process>>
          /\ process = "running" /\ error = "EINPROGRESS" /\ error' = "0"
      BY <1>1 DEF G!Complete, G!Running
    <2>2. GlibcTypes' /\ Fields' /\ SentOnce' /\ Ended'
      BY <2>1 DEF GlibcInv, GlibcTypes, Fields, SentOnce, Ended
    <2>3. Stages'
      BY <2>1, SameStage
    <2> QED
      BY <2>2, <2>3 DEF GlibcInv
  <1>2. CASE G!Notify
    <2>1. /\ UNCHANGED <<method, todo, sigevent, error, handler, blocked, handled>>
          /\ process = "running" /\ error = "0" /\ ~ notified /\ notified' = TRUE
      BY <1>2 DEF G!Notify, G!Running
    <2>2. ~ signal /\ ~ started /\ (handled = 1 => method = "sleep")
      BY <2>1 DEF GlibcInv, SentOnce
    <2>3. CASE sigevent.notify = "SIGEV_THREAD" /\ sigevent.function
      <3>1. started' = TRUE /\ UNCHANGED <<signal, process>>
        BY <1>2, <2>3 DEF G!Notify
      <3>2. method = "thread"
        BY <2>3 DEF GlibcInv, Fields
      <3>3. GlibcTypes' /\ Fields' /\ SentOnce' /\ Ended'
        BY <2>1, <2>2, <2>3, <3>1, <3>2 DEF GlibcInv, GlibcTypes, Fields, SentOnce, Ended
      <3> QED
        BY <2>1, <3>1, <3>3, SameStage DEF GlibcInv
    <2>4. CASE sigevent.notify = "SIGEV_THREAD" /\ ~ sigevent.function
      <3>1. process' = "crashed" /\ UNCHANGED <<signal, started>>
        BY <1>2, <2>4 DEF G!Notify
      <3>2. method = "thread"
        BY <2>4 DEF GlibcInv, Fields
      <3>3. GlibcTypes' /\ Fields' /\ SentOnce' /\ Ended'
        BY <2>1, <2>2, <2>4, <3>1, <3>2 DEF GlibcInv, GlibcTypes, Fields, SentOnce, Ended
      <3> QED
        BY <2>1, <3>1, <3>3, SameStage DEF GlibcInv
    <2>5. CASE sigevent.notify # "SIGEV_THREAD"
      <3>1. signal' = sigevent.signo /\ UNCHANGED <<started, process>>
        BY <1>2, <2>5 DEF G!Notify
      <3>2. sigevent.signo \in BOOLEAN /\ (sigevent.signo => method # "sleep")
        BY DEF GlibcInv, GlibcTypes, SigeventType, Fields
      <3>3. GlibcTypes' /\ Fields' /\ SentOnce' /\ Ended'
        BY <2>1, <2>2, <3>1, <3>2 DEF GlibcInv, GlibcTypes, Fields, SentOnce, Ended
      <3> QED
        BY <2>1, <3>1, <3>3, SameStage DEF GlibcInv
    <2> QED
      BY <2>3, <2>4, <2>5
  <1>3. CASE G!Deliver
    <2>1. /\ UNCHANGED <<method, todo, sigevent, error, notified, handler, blocked, started>>
          /\ process = "running" /\ signal /\ ~ blocked /\ signal' = FALSE
      BY <1>3 DEF G!Deliver, G!Running
    <2>2. /\ handled = 0 /\ ~ started /\ sigevent.signo /\ notified /\ error = "0"
          /\ handler \/ method \in {"signalfd", "epoll"}
      BY <2>1 DEF GlibcInv, SentOnce, Fields
    <2>3. CASE handler
      <3>1. handled' = 1 /\ process' = process /\ method = "signal"
        BY <1>3, <2>2, <2>3 DEF G!Deliver, GlibcInv, Fields
      <3>2. GlibcTypes' /\ Fields' /\ SentOnce' /\ Ended'
        BY <2>1, <2>2, <3>1 DEF GlibcInv, GlibcTypes, Fields, SentOnce, Ended
      <3> QED
        BY <2>1, <2>2, <3>1, <3>2, SameStage DEF GlibcInv
    <2>4. CASE ~ handler
      <3>1. process' = "killed" /\ handled' = handled
        BY <1>3, <2>4 DEF G!Deliver
      <3>2. GlibcTypes' /\ Fields' /\ SentOnce' /\ Ended'
        BY <2>1, <2>2, <2>4, <3>1 DEF GlibcInv, GlibcTypes, Fields, SentOnce, Ended
      <3> QED
        BY <2>1, <2>2, <3>1, <3>2, SameStage DEF GlibcInv
    <2> QED
      BY <2>3, <2>4
  <1>4. CASE G!ThreadHandler
    <2>1. /\ UNCHANGED <<method, todo, sigevent, error, notified, handler, blocked, signal, process>>
          /\ process = "running" /\ started /\ started' = FALSE /\ handled' = handled + 1
      BY <1>4 DEF G!ThreadHandler, G!Running
    <2>2. /\ handled = 0 /\ sigevent.function /\ notified /\ error = "0" /\ ~ signal
          /\ method = "thread" /\ handled' = 1
      BY <2>1 DEF GlibcInv, SentOnce, Fields
    <2>3. GlibcTypes' /\ Fields' /\ SentOnce' /\ Ended'
      BY <2>1, <2>2 DEF GlibcInv, GlibcTypes, Fields, SentOnce, Ended
    <2> QED
      BY <2>1, <2>2, <2>3, SameStage DEF GlibcInv
  <1> QED
    BY <1>1, <1>2, <1>3, <1>4 DEF G!Library, G!System

\* Before aio_read, or when another program runs.
LEMMA GlibcStarts == G!Rest => GlibcInv
  <1> SUFFICES ASSUME G!Rest PROVE GlibcInv
    OBVIOUS
  <1>1. /\ sigevent \in SigeventType /\ sigevent.notify = "SIGEV_SIGNAL"
        /\ ~ sigevent.signo /\ ~ sigevent.function
    BY DEF G!Rest, SigeventType
  <1>2. process \in {"running", "returned"}
    BY DEF G!Rest
  <1>4. /\ error = "none" /\ notified = FALSE /\ handler = FALSE /\ blocked = FALSE
        /\ signal = FALSE /\ started = FALSE /\ handled = 0
    BY DEF G!Rest
  <1>3. GlibcTypes
    BY <1>1, <1>2, <1>4 DEF GlibcTypes
  <1>6. Fields
    BY <1>1, <1>4 DEF Fields
  <1>7. SentOnce
    BY <1>4 DEF SentOnce
  <1>8. Ended
    BY <1>2 DEF Ended
  <1>5. Stages
    BY <1>4 DEF G!Rest, Stages, SleepStages, SignalStages, ThreadStages, SignalFdStages, EpollStages, G!Code
  <1> QED
    BY <1>3, <1>5, <1>6, <1>7, <1>8 DEF GlibcInv

\* The invariant says what the property says.
LEMMA GlibcPromises == GlibcInv => HandledWhenDone
  <1> SUFFICES ASSUME GlibcInv PROVE HandledWhenDone
    OBVIOUS
  <1>1. /\ handled <= 1
        /\ handled = 1 \/ signal \/ started => error = "0"
        /\ signal \/ started => sigevent.value
        /\ process = "killed" => method \in {"signalfd", "epoll"} /\ ~ blocked
        /\ process = "crashed" => method = "thread" /\ ~ sigevent.function
    BY DEF GlibcInv, GlibcTypes, Fields, SentOnce, Ended
  <1>2. process = "returned" /\ error # "none" /\ method \in {"sleep", "epoll"} => handled = 1
    BY DEF GlibcInv, GlibcTypes, Stages, SleepStages, EpollStages
  <1> QED
    BY <1>1, <1>2 DEF HandledWhenDone, G!HandledWhenDone

\* ReadByGlibcAIO prints the result of its read once at most and only when it
\* is there, the pointer to the aiocb comes with every notification, and only
\* the two ways of registering too late end the process.
THEOREM ResultsHandledWhenDone == AioSpec => []HandledWhenDone
  <1>1. AioInit => GlibcInv
    BY GlibcStarts DEF AioInit, G!Init
  <1>2. GlibcInv /\ [AioNext]_<<program, vars, readerVars, glibcVars>> => GlibcInv'
    <2> SUFFICES ASSUME GlibcInv, [AioNext]_<<program, vars, readerVars, glibcVars>>
                 PROVE  GlibcInv'
      OBVIOUS
    <2>1. CASE G!Next
      BY <2>1, ReadKeeps, PollKeeps, InstallKeeps, SetKeeps, BlockKeeps, EpollWaitKeeps,
         ReadSignalKeeps, ReturnKeeps, LibraryKeeps DEF G!Next, G!Check
    <2>2. CASE UNCHANGED glibcVars
      BY <2>2 DEF glibcVars, GlibcInv, GlibcTypes, Stages, SleepStages, SignalStages, ThreadStages,
                  SignalFdStages, EpollStages, Fields, SentOnce, Ended
    <2> QED
      BY <2>1, <2>2 DEF AioNext
  <1> QED
    BY <1>1, <1>2, GlibcPromises, PTL DEF AioSpec
=============================================================================
