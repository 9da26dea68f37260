---------------------------- MODULE MCReactor31 ----------------------------
(* Two connections, one of them with two requests on the way at a time, two  *)
(* workers and two heap addresses: enough for two tasks of one connection to *)
(* run at a time, and for an address to be given to the other connection.    *)
EXTENDS Reactor31, TLC
CONSTANTS c1, c2, w1, w2, a1, a2

MCConns   == {c1, c2}
MCWorkers == {w1, w2}
MCAddrs   == {a1, a2}
MCMaxReq  == (c1 :> 2) @@ (c2 :> 1)
Symmetry  == Permutations(MCWorkers) \cup Permutations(MCAddrs)
=============================================================================
