-------------------------------- MODULE Aio --------------------------------
(***************************************************************************)
(* The programs of linux_io/4.aio: BatchReadByLibAIO, which AioBatch       *)
(* models, the other functions of kernel_aio, and glibc_aio.  They share   *)
(* nothing; one of them runs.                                              *)
(***************************************************************************)
EXTENDS AioBatch

CONSTANTS Readers,    \* of AioReaders
          Methods     \* of GlibcAio

\* The functions of kernel_aio that read.
ASSUME ProgramsAssumption == Readers \subseteq {"plain", "eventfd", "error1", "error2", "alloc"}

VARIABLES
  program,    \* "batch", "readers" or "glibc"
  reader, at, prepared, iocb, reading, completed, mem, readable, ret, finished, printed,
  method, todo, sigevent, error, notified, handler, blocked, signal, started, handled, process

readerVars == <<reader, at, prepared, iocb, reading, completed, mem, readable, ret, finished, printed>>
glibcVars  == <<method, todo, sigevent, error, notified, handler, blocked, signal,
                started, handled, process>>

K == INSTANCE AioReaders WITH inflight <- reading, ring <- completed
G == INSTANCE GlibcAio

AioInit ==
  \/ program = "batch" /\ Init /\ reader = "none" /\ K!Rest /\ method = "none" /\ G!Rest
  \/ program = "readers" /\ K!Init /\ Init /\ blocks = 0 /\ method = "none" /\ G!Rest
  \/ program = "glibc" /\ G!Init /\ Init /\ blocks = 0 /\ reader = "none" /\ K!Rest

AioNext ==
  /\ \/ program = "batch" /\ Next /\ UNCHANGED <<readerVars, glibcVars>>
     \/ program = "readers" /\ K!Next /\ UNCHANGED <<vars, glibcVars>>
     \/ program = "glibc" /\ G!Next /\ UNCHANGED <<vars, readerVars>>
  /\ UNCHANGED program

\* As in the modules, for the program that runs.
Fairness == /\ WF_vars(program = "batch" /\ Read) /\ WF_vars(program = "batch" /\ Kernel)
            /\ WF_readerVars(program = "readers" /\ K!Read)
            /\ WF_readerVars(program = "readers" /\ K!Kernel)
            /\ WF_glibcVars(program = "glibc" /\ G!Check)
            /\ WF_glibcVars(program = "glibc" /\ G!Library)
            /\ WF_glibcVars(program = "glibc" /\ G!System)

AioSpec == AioInit /\ [][AioNext]_<<program, vars, readerVars, glibcVars>> /\ Fairness
-----------------------------------------------------------------------------
\* The properties of the modules, for the program that runs.
Collected       == K!Collected
Returns         == program = "readers" => K!Returns
HandledWhenDone == G!HandledWhenDone
ResultHandled   == G!ResultHandled
BatchFinishes   == program = "batch" /\ blocks >= 2 ~> pc \in {"done", "failed"}
=============================================================================
