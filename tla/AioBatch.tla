------------------------------ MODULE AioBatch ------------------------------
(***************************************************************************)
(* BatchReadByLibAIO of linux_io/4.aio/kernel_aio/libaio_read.h: a file is *)
(* read in blocks of SEQ_BUF_SIZE with libaio.  A first batch of reads is  *)
(* submitted; then each completion submits the next read, until the bytes  *)
(* that were asked for are as many as the file has.                        *)
(*                                                                         *)
(* Sizes are counted in blocks, the file's rounded up: every comparison of *)
(* the code with f_size is the same in blocks, as f_size is more than      *)
(* blocks - 1 of them and at most blocks.  A read is the number of its     *)
(* block.  io_submit(ctx, MAX_EVENT, &new_io_cb) passes one pointer where  *)
(* five are announced; it is taken to submit that one, which is what the   *)
(* comment of line 373 saw it do.                                          *)
(***************************************************************************)
EXTENDS Naturals, Sequences, FiniteSets

CONSTANTS MaxEvent,   \* MAX_EVENT: reads in flight at a time
          MaxBlocks   \* bound of the model: the largest file

ASSUME AioAssumption == MaxEvent \in Nat \ {0} /\ MaxBlocks \in Nat

VARIABLES blocks,     \* the size of the file
          pc,         \* what the function does
          io_cb_p,    \* the reads prepared for the first batch
          task_no,    \* how many of them will be submitted
          offset,     \* the next block to read
          inflight,   \* reads the kernel works on
          ring,       \* completed reads that io_getevents has not returned
          event,      \* those it has returned and the loop has not handled
          ready       \* the blocks counted as read

vars == <<blocks, pc, io_cb_p, task_no, offset, inflight, ring, event, ready>>

Init == /\ blocks \in 0..MaxBlocks
        /\ pc = "prepare"
        /\ io_cb_p = <<>>
        /\ task_no = 0
        /\ offset = 0
        /\ inflight = {} /\ ring = {} /\ event = {}
        /\ ready = 0

(* As in SafeQueue.tla, some operations have variants with a mistake, which *)
(* nothing uses: each breaks a property that the operation keeps.           *)

\* The first batch: the read of the last block is prepared, but the break
\* comes before it is counted.  Variant: no bound on the batch.
PrepareAll == /\ pc = "prepare"
              /\ io_cb_p' = Append(io_cb_p, offset)
              /\ IF offset + 1 < blocks
                 THEN offset' = offset + 1 /\ task_no' = task_no + 1 /\ UNCHANGED pc
                 ELSE pc' = "submit" /\ UNCHANGED <<offset, task_no>>
              /\ UNCHANGED <<blocks, inflight, ring, event, ready>>
Prepare == /\ pc = "prepare"
           /\ task_no < MaxEvent
           /\ io_cb_p' = Append(io_cb_p, offset)
           /\ IF offset + 1 < blocks
              THEN offset' = offset + 1 /\ task_no' = task_no + 1 /\ UNCHANGED pc
              ELSE pc' = "submit" /\ UNCHANGED <<offset, task_no>>
           /\ UNCHANGED <<blocks, inflight, ring, event, ready>>

PrepareDone == /\ pc = "prepare"
               /\ task_no = MaxEvent
               /\ pc' = "submit"
               /\ UNCHANGED <<blocks, io_cb_p, task_no, offset, inflight, ring, event, ready>>

Submit == /\ pc = "submit"
          /\ inflight' = {io_cb_p[i] : i \in 1..task_no}
          /\ pc' = "wait"
          /\ UNCHANGED <<blocks, io_cb_p, task_no, offset, ring, event, ready>>

\* io_setup or io_submit fails: the function returns, with nothing submitted.
\* io_submit is taken to accept all the reads it is given or none.
Fail == /\ (pc = "prepare" /\ io_cb_p = <<>>) \/ pc = "submit"
        /\ pc' = "failed"
        /\ UNCHANGED <<blocks, io_cb_p, task_no, offset, inflight, ring, event, ready>>

\* The kernel completes reads in any order.
Complete(b) == /\ b \in inflight
               /\ inflight' = inflight \ {b}
               /\ ring' = ring \cup {b}
               /\ UNCHANGED <<blocks, pc, io_cb_p, task_no, offset, event, ready>>

\* io_getevents waits for one completion at least and may return more.
GetEvents == /\ pc = "wait"
             /\ event' \in SUBSET ring \ {{}}
             /\ ring' = ring \ event'
             /\ pc' = "handle"
             /\ UNCHANGED <<blocks, io_cb_p, task_no, offset, inflight, ready>>

\* Each event submits the next read, if there is one, and counts nbytes of
\* its own read, whether or not the read failed.
Handle(e) == /\ pc = "handle"
             /\ e \in event
             /\ event' = event \ {e}
             /\ ready' = ready + 1
             /\ IF offset < blocks
                THEN inflight' = inflight \cup {offset} /\ offset' = offset + 1
                ELSE UNCHANGED <<inflight, offset>>
             /\ UNCHANGED <<blocks, pc, io_cb_p, task_no, ring>>

\* The submission of the next read fails: the function returns at once.  Reads
\* may still be in flight, and the buffer they write to is not freed.
HandleFails == /\ pc = "handle"
               /\ event # {} /\ offset < blocks
               /\ pc' = "failed"
               /\ UNCHANGED <<blocks, io_cb_p, task_no, offset, inflight, ring, event, ready>>

\* Variants: it stops once everything is submitted, and it waits for more than
\* there is.
DoneWhenSubmitted == /\ pc = "handle"
                     /\ event = {}
                     /\ pc' = IF offset >= blocks THEN "done" ELSE "wait"
                     /\ UNCHANGED <<blocks, io_cb_p, task_no, offset, inflight, ring, event, ready>>
DoneBeyond == /\ pc = "handle"
              /\ event = {}
              /\ pc' = IF ready > blocks THEN "done" ELSE "wait"
              /\ UNCHANGED <<blocks, io_cb_p, task_no, offset, inflight, ring, event, ready>>
HandleDone == /\ pc = "handle"
              /\ event = {}
              /\ pc' = IF ready >= blocks THEN "done" ELSE "wait"
              /\ UNCHANGED <<blocks, io_cb_p, task_no, offset, inflight, ring, event, ready>>

Read == \/ Prepare \/ PrepareDone \/ Submit \/ Fail
        \/ GetEvents \/ (\E e \in event : Handle(e)) \/ HandleFails \/ HandleDone
Kernel == \E b \in inflight : Complete(b)

Next == Read \/ Kernel

\* The thread runs and the kernel completes every read.
Spec == Init /\ [][Next]_vars /\ WF_vars(Read) /\ WF_vars(Kernel)
-----------------------------------------------------------------------------
Pending == inflight \cup ring \cup event

TypeOK == /\ blocks \in 0..MaxBlocks
          /\ pc \in {"prepare", "submit", "wait", "handle", "done", "failed"}
          /\ io_cb_p \in Seq(Nat) /\ task_no \in 0..MaxEvent
          /\ offset \in Nat /\ ready \in Nat
          /\ Pending \subseteq Nat

\* What each phase of the function relies on.
Phases == /\ pc \in {"prepare", "submit"} =>
               /\ Pending = {} /\ ready = 0 /\ offset = task_no
               /\ task_no <= Len(io_cb_p)
               /\ \A i \in 1..Len(io_cb_p) : io_cb_p[i] = i - 1
          /\ pc = "prepare" => Len(io_cb_p) = task_no
          /\ event # {} => pc \in {"handle", "failed"}
          /\ pc = "done" => ready >= blocks

\* A read is pending in one place only, for a block that was reached, and the
\* blocks reached are those counted and those pending: none is read twice and
\* none is skipped.
Accounted == /\ Phases
             /\ offset <= blocks
             /\ Pending \subseteq 0..(offset - 1)
             /\ inflight \cap ring = {} /\ inflight \cap event = {} /\ ring \cap event = {}
             /\ pc \in {"wait", "handle", "done"} =>
                  offset = ready + Cardinality(inflight) + Cardinality(ring) + Cardinality(event)

\* The context was set up for MAX_EVENT reads: no more are ever pending, so
\* io_submit is never refused.
WithinContext == Cardinality(Pending) <= MaxEvent

\* When the function returns, every block was read and nothing still writes to
\* the buffer that it frees.
AllRead == pc = "done" => offset = blocks /\ Pending = {}

\* A file of two blocks or more is read to its end, unless a submission fails.
\* (For a smaller one no read is submitted, and io_getevents never returns.)
Finishes == blocks >= 2 ~> pc \in {"done", "failed"}
=============================================================================
