----------------------------- MODULE MCEpollTcp -----------------------------
(* A client whose two replies do not fit, so that writes are cut short and   *)
(* refused, and a client whose reply fits.                                   *)
EXTENDS EpollTcp, TLC
CONSTANTS c1, c2

MCConns  == {c1, c2}
MCMaxReq == (c1 :> 2) @@ (c2 :> 2)
MCRoom   == (c1 :> 1) @@ (c2 :> 2)
=============================================================================
