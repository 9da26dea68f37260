----------------------------- MODULE TaskQueue -----------------------------
(***************************************************************************)
(* What a queue promises to the threads that share it: an operation is one *)
(* step, and the k-th take returns the k-th item pushed.  Items are        *)
(* identified by the order in which they were pushed, so the content of    *)
(* the queue is the interval taken+1 .. sent and needs no sequence.        *)
(***************************************************************************)
EXTENDS Naturals

CONSTANTS Takers      \* the threads that take items out

VARIABLES sent,       \* the number of items pushed so far
          taken,      \* the number of items taken so far
          got         \* got[t]: what the last take of t returned, 0 for "empty"

vars == <<sent, taken, got>>

Init == /\ sent = 0
        /\ taken = 0
        /\ got = [t \in Takers |-> 0]

Push == /\ sent' = sent + 1
        /\ UNCHANGED <<taken, got>>

Take(t) == /\ taken < sent
           /\ taken' = taken + 1
           /\ got' = [got EXCEPT ![t] = taken']
           /\ UNCHANGED sent

\* Only a take that does not wait returns "empty", and only of an empty queue.
ReplyEmpty(t) == /\ taken = sent
                 /\ got' = [got EXCEPT ![t] = 0]
                 /\ UNCHANGED <<sent, taken>>

Next == Push \/ \E t \in Takers : Take(t) \/ ReplyEmpty(t)

Spec == Init /\ [][Next]_vars
=============================================================================
