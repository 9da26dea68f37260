----------------------------- MODULE MCReactor3 -----------------------------
(* Two connections and two numbers for them, so that a number is used again *)
(* while a task for its former connection is still around.                  *)
EXTENDS Reactor3, TLC
CONSTANTS c1, c2, w1, w2

MCConns   == {c1, c2}
MCWorkers == {w1, w2}
MCMaxReq  == (c1 :> 2) @@ (c2 :> 1)
Symmetry  == Permutations(MCWorkers)
=============================================================================
