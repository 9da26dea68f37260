------------------------------ MODULE GlibcAio ------------------------------
(***************************************************************************)
(* ReadByGlibcAIO of linux_io/4.aio/glibc_aio/glibc_aio.h: a read is       *)
(* submitted with aio_read, and only then one of five functions arranges   *)
(* to hear of its end: CheckBySleep, CheckBySignal, CheckByThread,         *)
(* CheckBySignalFd or CheckByEpoll, which is the one that is called.       *)
(*                                                                         *)
(* The library reads in a thread of its own, which sets what aio_error     *)
(* returns, then looks at aio_sigevent in the program's aiocb and notifies *)
(* as it says at that moment.  The aiocb starts as zeros: SIGEV_SIGNAL     *)
(* with signal 0, which notifies nobody.                                   *)
(***************************************************************************)
EXTENDS Naturals, Sequences

CONSTANT Methods      \* the ways to hear of the end that may be chosen

VARIABLES
  method,     \* the one that is
  todo,       \* what the function has left to do
  sigevent,   \* aio_sigevent: notify, and whether signo, function, value are set
  error,      \* what aio_error returns: "EINPROGRESS" or "0"; "none" before aio_read
  notified,   \* the library has notified
  handler,    \* SignalHandler is installed
  blocked,    \* SIGUSR1 is blocked
  signal,     \* SIGUSR1 is pending
  started,    \* the thread of ThreadHandler runs
  handled,    \* how often the result was printed
  process     \* "running", "returned", or how it ended: "killed", "crashed"

vars == <<method, todo, sigevent, error, notified, handler, blocked, signal,
          started, handled, process>>

\* What each function does, and the sleep(3) that follows.  Variants: the
\* signal is chosen before the pointer that comes with it, and not at all.
CodeSignoFirst ==
  [sleep    |-> <<"poll", "sleep">>,
   signal   |-> <<"handler", "signo", "value", "sleep">>,
   thread   |-> <<"value", "thread", "function", "sleep">>,
   signalfd |-> <<"signo", "value", "block", "read">>,
   epoll    |-> <<"signo", "value", "block", "wait", "read", "sleep">>]
CodeNoSigno ==
  [sleep    |-> <<"poll", "sleep">>,
   signal   |-> <<"handler", "value", "sleep">>,
   thread   |-> <<"value", "thread", "function", "sleep">>,
   signalfd |-> <<"value", "block", "read">>,
   epoll    |-> <<"value", "block", "wait", "read", "sleep">>]
Code ==
  [sleep    |-> <<"poll", "sleep">>,
   signal   |-> <<"handler", "value", "signo", "sleep">>,
   thread   |-> <<"value", "thread", "function", "sleep">>,
   signalfd |-> <<"value", "signo", "block", "read">>,
   epoll    |-> <<"value", "signo", "block", "wait", "read", "sleep">>]

Rest == /\ todo = IF method \in DOMAIN Code THEN Code[method] ELSE <<>>
        /\ sigevent = [notify |-> "SIGEV_SIGNAL", signo |-> FALSE,
                       function |-> FALSE, value |-> FALSE]
        /\ error = "none" /\ notified = FALSE
        /\ handler = FALSE /\ blocked = FALSE /\ signal = FALSE
        /\ started = FALSE /\ handled = 0
        /\ process = IF method \in DOMAIN Code THEN "running" ELSE "returned"

Init == method \in Methods /\ Rest

At(what) == error # "none" /\ process = "running" /\ todo # <<>> /\ Head(todo) = what
Goes     == todo' = Tail(todo)

-----------------------------------------------------------------------------
(* The function.                                                           *)

\* aio_read, which may fail.
AioRead == /\ error = "none" /\ process = "running"
           /\ \/ error' = "EINPROGRESS" /\ UNCHANGED process
              \/ process' = "returned" /\ UNCHANGED error
           /\ UNCHANGED <<method, todo, sigevent, notified, handler, blocked, signal, started, handled>>

\* CheckBySleep
Poll == /\ At("poll")
        /\ error # "EINPROGRESS"
        /\ handled' = handled + 1
        /\ Goes
        /\ UNCHANGED <<method, sigevent, error, notified, handler, blocked, signal, started, process>>

Install == /\ At("handler")
           /\ handler' = TRUE
           /\ Goes
           /\ UNCHANGED <<method, sigevent, error, notified, blocked, signal, started, handled, process>>

\* The fields of aio_sigevent, one after the other.
SetSigevent == /\ \/ At("value") /\ sigevent' = [sigevent EXCEPT !.value = TRUE]
                  \/ At("signo") /\ sigevent' = [sigevent EXCEPT !.signo = TRUE]
                  \/ At("thread") /\ sigevent' = [sigevent EXCEPT !.notify = "SIGEV_THREAD"]
                  \/ At("function") /\ sigevent' = [sigevent EXCEPT !.function = TRUE]
               /\ Goes
               /\ UNCHANGED <<method, error, notified, handler, blocked, signal, started, handled, process>>

\* sigprocmask; the signalfd takes a signal that is pending from then on.
Block == /\ At("block")
         /\ blocked' = TRUE
         /\ Goes
         /\ UNCHANGED <<method, sigevent, error, notified, handler, signal, started, handled, process>>

\* epoll_wait of the signalfd
EpollWait == /\ At("wait")
             /\ signal
             /\ Goes
             /\ UNCHANGED <<method, sigevent, error, notified, handler, blocked, signal, started, handled, process>>

\* read of the signalfd and SignalFdHandler; CheckBySignalFd reads again.
ReadSignalFd == /\ At("read")
                /\ signal
                /\ signal' = FALSE
                /\ handled' = handled + 1
                /\ IF method = "signalfd" THEN UNCHANGED todo ELSE Goes
                /\ UNCHANGED <<method, sigevent, error, notified, handler, blocked, started, process>>

\* The sleep ends, and the function and main return.
Return == /\ At("sleep")
          /\ Goes
          /\ process' = "returned"
          /\ UNCHANGED <<method, sigevent, error, notified, handler, blocked, signal, started, handled>>

-----------------------------------------------------------------------------
(* The library and the system.                                             *)
Running == process = "running"

Complete == /\ Running
            /\ error = "EINPROGRESS"
            /\ error' = "0"
            /\ UNCHANGED <<method, todo, sigevent, notified, handler, blocked, signal, started, handled, process>>

\* A thread that is told to call a function not set yet crashes.
Notify == /\ Running
          /\ error = "0" /\ ~ notified
          /\ notified' = TRUE
          /\ CASE sigevent.notify = "SIGEV_THREAD" /\ sigevent.function ->
                    started' = TRUE /\ UNCHANGED <<signal, process>>
               [] sigevent.notify = "SIGEV_THREAD" /\ ~ sigevent.function ->
                    process' = "crashed" /\ UNCHANGED <<signal, started>>
               [] OTHER ->
                    signal' = sigevent.signo /\ UNCHANGED <<started, process>>
          /\ UNCHANGED <<method, todo, sigevent, error, handler, blocked, handled>>

\* A signal that is not blocked runs its handler, which uses the pointer that
\* came with it, or else ends the process.
Deliver == /\ Running
           /\ signal /\ ~ blocked
           /\ signal' = FALSE
           /\ IF handler THEN handled' = handled + 1 /\ UNCHANGED process
                         ELSE process' = "killed" /\ UNCHANGED handled
           /\ UNCHANGED <<method, todo, sigevent, error, notified, handler, blocked, started>>

ThreadHandler == /\ Running
                 /\ started
                 /\ started' = FALSE
                 /\ handled' = handled + 1
                 /\ UNCHANGED <<method, todo, sigevent, error, notified, handler, blocked, signal, process>>

Check   == AioRead \/ Poll \/ Install \/ SetSigevent \/ Block \/ EpollWait \/ ReadSignalFd \/ Return
Library == Complete \/ Notify
System  == Deliver \/ ThreadHandler

Next == Check \/ Library \/ System

\* The program and the library's thread run; a signal is delivered and a
\* thread that was created runs.
Spec == Init /\ [][Next]_vars /\ WF_vars(Check) /\ WF_vars(Library) /\ WF_vars(System)
-----------------------------------------------------------------------------
\* The result is printed once at most, and only when it is there.  The signal
\* carries the pointer to the aiocb (line 27), whenever it was sent.  The
\* registration after the submission can end the process in two ways, each with
\* one kind of notification: by SIGUSR1 before it is blocked, and by a thread
\* that is started without its function.  Where the function waits for the end,
\* its buffer outlives the read.
HandledWhenDone ==
  /\ handled <= 1
  /\ handled = 1 \/ signal \/ started => error = "0"
  /\ signal \/ started => sigevent.value
  /\ process = "killed" => method \in {"signalfd", "epoll"} /\ ~ blocked
  /\ process = "crashed" => method = "thread" /\ ~ sigevent.function
  /\ process = "returned" /\ error # "none" /\ method \in {"sleep", "epoll"}
       => handled = 1

\* A read that ends after the registration is complete is heard of, unless the
\* three seconds of the methods without a wait are over; and sleeping until the
\* end always works.
Registered == todo # <<>> /\ Head(todo) \in {"poll", "wait", "read", "sleep"}
ResultHandled ==
  Running /\ Registered /\ error = "EINPROGRESS"
    ~> handled = 1 \/ (process = "returned" /\ method \in {"signal", "thread"})
=============================================================================
