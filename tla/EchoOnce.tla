------------------------------ MODULE EchoOnce ------------------------------
(***************************************************************************)
(* EchoService with the replies counted, so that it also says how often: a *)
(* reply carries requests that were not answered before, each once.  A     *)
(* reply that comes twice leaves got as it is but not the count, and is no *)
(* step of this service.                                                   *)
(***************************************************************************)
EXTENDS EchoService, FiniteSets

VARIABLE replies      \* replies[c]: the requests in all the replies to c, those
                      \* that came again counted again

OnceInit == Init /\ replies = [c \in Conns |-> 0]

RequestOnce(c) == Request(c) /\ UNCHANGED replies

ReplyOnce(c) == /\ Reply(c)
                /\ replies' = [replies EXCEPT ![c] = @ + Cardinality(got'[c] \ got[c])]

OnceNext == \E c \in Conns : RequestOnce(c) \/ ReplyOnce(c)

OnceSpec == OnceInit /\ [][OnceNext]_<<vars, replies>>
=============================================================================
