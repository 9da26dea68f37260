---------------------------- MODULE EchoService ----------------------------
(***************************************************************************)
(* What every server of the repository promises to its clients, however it *)
(* is built: each connection gets back its own requests and nothing else.  *)
(* A request is a pair <<connection, number>>, and one reply may carry     *)
(* several of them, as TCP keeps no message boundaries.  What was answered *)
(* is a set: how often is another matter, which Reactor3 and Reactor31     *)
(* have invariants for.                                                    *)
(***************************************************************************)
EXTENDS Naturals

CONSTANTS Conns,      \* the connections clients may open
          MaxReq      \* bound of the model: MaxReq[c] requests of connection c

VARIABLES sent,       \* sent[c]: the number of requests client c has sent
          got         \* got[c]: the requests whose reply client c has received

vars == <<sent, got>>

Init == /\ sent = [c \in Conns |-> 0]
        /\ got = [c \in Conns |-> {}]

Request(c) == /\ sent[c] < MaxReq[c]
              /\ sent' = [sent EXCEPT ![c] = @ + 1]
              /\ UNCHANGED got

Reply(c) == \E msg \in SUBSET (({c} \X (1..sent[c])) \ got[c]) :
              /\ got' = [got EXCEPT ![c] = @ \cup msg]
              /\ UNCHANGED sent

Next == \E c \in Conns : Request(c) \/ Reply(c)

Spec == Init /\ [][Next]_vars
=============================================================================
