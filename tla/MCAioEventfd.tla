---------------------------- MODULE MCAioEventfd ----------------------------
(* The reader with eventfds, with the five reads of the code.               *)
EXTENDS AioReaders
=============================================================================
