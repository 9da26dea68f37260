----------------------------- MODULE AioReaders -----------------------------
(***************************************************************************)
(* The functions of linux_io/4.aio/kernel_aio/libaio_read.h that read the  *)
(* first MAX_EVENT blocks of a file, without BatchReadByLibAIO, which is   *)
(* in AioBatch:                                                            *)
(*   plain    ReadByKernelAIO                                              *)
(*   eventfd  ReadByKernelAIOAndEventfdAndEpoll                            *)
(*   error1   ReadByKernelAIOSubmitError1, one pointer for five            *)
(*   error2   ReadByKernelAIOSubmitError2, an iocb for all reads           *)
(*   alloc    ReadByKernelAIOAllocError, a buffer for all reads            *)
(* The last three show mistakes that their comments describe.              *)
(*                                                                         *)
(* The k-th read asks for block k.  The kernel copies an iocb when it is   *)
(* submitted; an event points to the program's iocb.                       *)
(***************************************************************************)
EXTENDS Naturals, Sequences, FiniteSets

CONSTANTS Readers,    \* which of the functions may run
          MaxEvent    \* MAX_EVENT, 5 in the code

Reads == 1..MaxEvent

VARIABLES
  reader,     \* the function that runs
  at,         \* what it does
  prepared,   \* how many reads io_prep_pread has prepared
  iocb,       \* iocb[i]: the read that the i-th iocb describes, 0 for none
  inflight,   \* the reads the kernel works on
  ring,       \* completed reads that io_getevents has not returned
  mem,        \* mem[b]: the block in the b-th buffer, 0 for none
  readable,   \* the reads whose eventfd is readable
  ret,        \* how many completions CheckByIOGetevents waits for
  finished,   \* the sum of what epoll_wait returned
  printed     \* printed[k]: what the callback printed for the k-th read

vars == <<reader, at, prepared, iocb, inflight, ring, mem, readable, ret, finished, printed>>

Nothing == [offset |-> 0, buf |-> 0]

Rest == /\ at = "prepare" /\ prepared = 0
        /\ iocb = [i \in Reads |-> 0]
        /\ inflight = {} /\ ring = {}
        /\ mem = [b \in Reads |-> 0]
        /\ readable = {} /\ ret = 0 /\ finished = 0
        /\ printed = [k \in Reads |-> Nothing]

Init == reader \in Readers /\ Rest

\* The iocb and the buffer of the k-th read.
Iocb(k) == IF reader = "error2" THEN 1 ELSE k
Buf(k)  == IF reader = "alloc" THEN 1 ELSE k

\* The loop of io_prep_pread; the variant of error2 submits each read in it.  Its
\* iocb is a local variable: that it may be overwritten before the callback, and
\* the process end with a core (line 235), is left out.
Prepare == /\ at = "prepare"
           /\ prepared < MaxEvent
           /\ prepared' = prepared + 1
           /\ iocb' = [iocb EXCEPT ![Iocb(prepared')] = prepared']
           /\ inflight' = IF reader = "error2" THEN inflight \cup {prepared'} ELSE inflight
           /\ UNCHANGED <<reader, at, ring, mem, readable, ret, finished, printed>>

\* io_setup or io_submit fails.
Fail == /\ at = "prepare"
        /\ at' = "failed"
        /\ UNCHANGED <<reader, prepared, iocb, inflight, ring, mem, readable, ret, finished, printed>>

\* io_submit takes MAX_EVENT pointers; error1 passes one that is valid.
\* Variant: all do.
SubmitOne == /\ at = "prepare"
             /\ prepared = MaxEvent
             /\ inflight' = IF reader = "error2" THEN inflight ELSE {1}
             /\ at' = IF reader = "eventfd" THEN "epoll" ELSE "getevents"
             /\ ret' = IF reader = "eventfd" THEN 0 ELSE MaxEvent
             /\ UNCHANGED <<reader, prepared, iocb, ring, mem, readable, finished, printed>>
Submit == /\ at = "prepare"
          /\ prepared = MaxEvent
          /\ inflight' = CASE reader = "error1" -> {1}
                           [] reader = "error2" -> inflight
                           [] OTHER             -> Reads
          /\ at' = IF reader = "eventfd" THEN "epoll" ELSE "getevents"
          /\ ret' = IF reader = "eventfd" THEN 0 ELSE MaxEvent
          /\ UNCHANGED <<reader, prepared, iocb, ring, mem, readable, finished, printed>>

\* The kernel completes a read: the block is in its buffer, an event in the
\* ring, a tick in the eventfd.
Complete(k) == /\ k \in inflight
               /\ inflight' = inflight \ {k}
               /\ ring' = ring \cup {k}
               /\ mem' = [mem EXCEPT ![Buf(k)] = k]
               /\ readable' = IF reader = "eventfd" THEN readable \cup {k} ELSE readable
               /\ UNCHANGED <<reader, at, prepared, iocb, ret, finished, printed>>

\* Level-triggered, and nothing ever reads the eventfds.
EpollWait == /\ at = "epoll"
             /\ readable # {}
             /\ ret' = Cardinality(readable)
             /\ finished' = finished + ret'
             /\ at' = "getevents"
             /\ UNCHANGED <<reader, prepared, iocb, inflight, ring, mem, readable, printed>>

\* LibioCallback prints what the iocb of the event says.
Callback(k) == LET said == iocb[Iocb(k)]
               IN  [offset |-> said, buf |-> mem[Buf(said)]]

\* CheckByIOGetevents waits for ret completions, and calls back for each.
\* Variant: it takes what there is.
GetEventsAny == /\ at = "getevents"
                /\ ring # {}
                /\ ring' = {}
                /\ printed' = [k \in Reads |-> IF k \in ring THEN Callback(k) ELSE printed[k]]
                /\ at' = IF reader = "eventfd" /\ finished < MaxEvent THEN "epoll" ELSE "done"
                /\ UNCHANGED <<reader, prepared, iocb, inflight, mem, readable, ret, finished>>
GetEvents == /\ at = "getevents"
             /\ \E got \in SUBSET ring :
                  /\ Cardinality(got) = ret
                  /\ ring' = ring \ got
                  /\ printed' = [k \in Reads |-> IF k \in got THEN Callback(k) ELSE printed[k]]
             /\ at' = IF reader = "eventfd" /\ finished < MaxEvent THEN "epoll" ELSE "done"
             /\ UNCHANGED <<reader, prepared, iocb, inflight, mem, readable, ret, finished>>

Read   == Prepare \/ Fail \/ Submit \/ EpollWait \/ GetEvents
Kernel == \E k \in Reads : Complete(k)

Next == Read \/ Kernel

\* The thread runs and the kernel completes every read.
Spec == Init /\ [][Next]_vars /\ WF_vars(Read) /\ WF_vars(Kernel)
-----------------------------------------------------------------------------
\* When a function returns, and frees its buffer, nothing is in flight and
\* every read was printed: its own offset and block in plain and eventfd; in
\* error2 the last read's five times (comment of lines 233-234), in alloc the
\* right offsets with the contents that the buffer has in the end: those of the
\* read that completed last, which line 275 takes for the last of the file.
Collected ==
  at = "done" =>
    /\ inflight = {} /\ ring = {}
    /\ CASE reader \in {"plain", "eventfd"} ->
              \A k \in Reads : printed[k] = [offset |-> k, buf |-> k]
         [] reader = "error2" ->
              \A k \in Reads : printed[k] = [offset |-> MaxEvent, buf |-> MaxEvent]
         [] OTHER ->
              mem[1] # 0 /\ \A k \in Reads : printed[k] = [offset |-> k, buf |-> mem[1]]

\* The functions return, but for error1, which waits for events that never come
\* (line 191), and eventfd, which may (ReadyToCollect).
Returns == IF reader = "error1" THEN [] (at # "done")
           ELSE reader \in {"plain", "error2", "alloc"} => <> (at \in {"done", "failed"})

\* The comment of line 147: ret eventfds are readable, so ret reads are done
\* and io_getevents has only to collect them.
ReadyToCollect == reader = "eventfd" /\ at = "getevents" => Cardinality(ring) >= ret
=============================================================================
