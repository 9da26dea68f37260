---------------------------- MODULE MCIoServers ----------------------------
(* Three connections, so that numbers are used again while others are open, *)
(* and a client with two messages on the way, so that a write can fail.     *)
EXTENDS IoServers, TLC
CONSTANTS c1, c2, c3

MCKinds    == AllKinds
MCClients  == {c1, c2, c3}
MCMaxReq   == (c1 :> 2) @@ (c2 :> 1) @@ (c3 :> 0)
=============================================================================
