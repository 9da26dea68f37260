------------------------------- MODULE MCAio -------------------------------
(* The five reads of the code; files of up to nine blocks for the batch,   *)
(* the size of its test.txt: smaller than, equal to and larger than the    *)
(* first batch.                                                            *)
EXTENDS Aio

MCReaders == {"plain", "eventfd", "error1", "error2", "alloc"}
MCMethods == {"sleep", "signal", "thread", "signalfd", "epoll"}
=============================================================================
