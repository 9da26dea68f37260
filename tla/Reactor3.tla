------------------------------ MODULE Reactor3 ------------------------------
(***************************************************************************)
(* 3.single_reactor_multi_worker: the reactor thread accepts connections   *)
(* and hands each event of a connection to the pool; a worker receives,    *)
(* sends the buffer back and closes the descriptor at the end.  epoll is   *)
(* edge-triggered, so an event is a change, and a connection may have      *)
(* several tasks at a time, on several workers.                            *)
(*                                                                         *)
(* Descriptors are the numbers the kernel gives out, lowest first.  A rev  *)
(* is never freed here, so a task is the number its rev holds; what the    *)
(* number names is looked up at every call.  The pool's queue is taken as  *)
(* atomic, as SafeQueue.tla shows of the same code in 3.1.  A reply is the *)
(* whole buffer; the zeros after the request are left out.                 *)
(***************************************************************************)
EXTENDS Naturals, Sequences, FiniteSets

CONSTANTS Conns,      \* the connections clients may open
          Workers,    \* the threads of the pool
          Fds,        \* the descriptor numbers, a set of naturals
          MaxReq,     \* bound of the model: MaxReq[c] requests of connection c
          MaxEvents,  \* the size of evs in the event loop
          Null        \* no connection

ASSUME Reactor3Assumption == /\ Fds \subseteq Nat \ {0}
                             /\ MaxReq \in [Conns -> Nat]
                             /\ MaxEvents \in Nat \ {0}
                             /\ Null \notin Conns

VARIABLES
  client,     \* client[c]: "idle", "connected", "gone" (it closed) or "reset"
              \* (it closed and the server has sent to it since)
  sent, rcvd, \* requests the client has sent and the server has received
  got,        \* got[c]: the requests whose reply client c has received
  backlog,    \* the connections that wait for accept
  file,       \* file[f]: the connection that descriptor f names
  watched,    \* the descriptors epoll watches
  ready,      \* the descriptors on epoll's ready list, 0 for the listener
  batch,      \* the events of evs that the loop has not dispatched yet
  reactor,    \* what the reactor does
  tasks,      \* the pool's queue: the client_fd of each task's rev
  worker      \* what each worker does, with which descriptor and message

netVars   == <<client, sent, got>>
sockVars  == <<rcvd, backlog, file, watched>>
loopVars  == <<batch, reactor>>
vars == <<netVars, sockVars, ready, loopVars, tasks, worker>>

Listen  == 0
Idle    == [at |-> "wait"]
Loop    == [at |-> "loop"]
Exited  == [at |-> "exited"]
Resting == [at |-> "rest"]
Busy(where, f, msg) == [at |-> where, fd |-> f, msg |-> msg]

Init == /\ client = [c \in Conns |-> "idle"]
        /\ sent = [c \in Conns |-> 0]
        /\ rcvd = [c \in Conns |-> 0]
        /\ got = [c \in Conns |-> {}]
        /\ backlog = {}
        /\ file = [f \in Fds |-> Null]
        /\ watched = {}
        /\ ready = {}
        /\ batch = {}
        /\ reactor = Idle
        /\ tasks = <<>>
        /\ worker = [w \in Workers |-> Resting]

-----------------------------------------------------------------------------
Ended(c)    == client[c] \in {"gone", "reset"}
Readable(f) == \/ f = Listen /\ backlog # {}
               \/ f \in Fds /\ file[f] # Null /\ (sent[file[f]] > rcvd[file[f]] \/ Ended(file[f]))

\* The descriptors through which epoll hears of connection c.
Ears(c) == {f \in watched : file[f] = c}

\* The clients.
Connect(c) == /\ client[c] = "idle"
              /\ client' = [client EXCEPT ![c] = "connected"]
              /\ backlog' = backlog \cup {c}
              /\ ready' = ready \cup {Listen}
              /\ UNCHANGED <<sent, got, rcvd, file, watched, loopVars, tasks, worker>>

\* client.cpp waits for each reply before the next request.
Send(c) == /\ client[c] = "connected"
           /\ sent[c] < MaxReq[c]
           /\ sent[c] = Cardinality(got[c])
           /\ sent' = [sent EXCEPT ![c] = @ + 1]
           /\ ready' = ready \cup Ears(c)
           /\ UNCHANGED <<client, got, sockVars, loopVars, tasks, worker>>

Leave(c) == /\ client[c] = "connected"
            /\ client' = [client EXCEPT ![c] = "gone"]
            /\ ready' = ready \cup Ears(c)
            /\ UNCHANGED <<sent, got, sockVars, loopVars, tasks, worker>>

-----------------------------------------------------------------------------
\* The reactor's event loop.
Return == IF batch = {} THEN Idle ELSE Loop

EpollWait == /\ reactor = Idle
             /\ \E evs \in SUBSET ready :
                  /\ evs # {}
                  /\ Cardinality(evs) <= MaxEvents
                  /\ ready' = ready \ evs
                  /\ batch' = {f \in evs : Readable(f)}
             /\ reactor' = Return'
             /\ UNCHANGED <<netVars, sockVars, tasks, worker>>

\* data_handler_by_worker only queues a task.
AddTask(f) == /\ reactor = Loop
              /\ f \in batch \ {Listen}
              /\ batch' = batch \ {f}
              /\ tasks' = Append(tasks, f)
              /\ reactor' = Return'
              /\ UNCHANGED <<netVars, sockVars, ready, worker>>

\* connection_handler: accept, then EPOLL_CTL_ADD, until nothing is left.
StartAccept == /\ reactor = Loop
               /\ Listen \in batch
               /\ batch' = batch \ {Listen}
               /\ reactor' = [at |-> "accept"]
               /\ UNCHANGED <<netVars, sockVars, ready, tasks, worker>>

Accept(c) == /\ reactor.at = "accept"
             /\ c \in backlog
             /\ \E f \in Fds : /\ file[f] = Null
                               /\ \A g \in Fds : g < f => file[g] # Null
                               /\ file' = [file EXCEPT ![f] = c]
                               /\ reactor' = [at |-> "add", fd |-> f]
             /\ backlog' = backlog \ {c}
             /\ UNCHANGED <<netVars, rcvd, watched, ready, batch, tasks, worker>>

AddFd(f) == /\ reactor = [at |-> "add", fd |-> f]
            /\ file[f] # Null
            /\ watched' = watched \cup {f}
            /\ ready' = IF Readable(f) THEN ready \cup {f} ELSE ready
            /\ reactor' = [at |-> "accept"]
            /\ UNCHANGED <<netVars, rcvd, backlog, file, batch, tasks, worker>>

\* A worker that still held the number has closed it: the process exits.
AddFails(f) == /\ reactor = [at |-> "add", fd |-> f]
               /\ file[f] = Null
               /\ reactor' = Exited
               /\ UNCHANGED <<netVars, sockVars, ready, batch, tasks, worker>>

AcceptDone == /\ reactor.at = "accept"
              /\ backlog = {}
              /\ reactor' = Return
              /\ UNCHANGED <<netVars, sockVars, ready, batch, tasks, worker>>

Reactor == \/ EpollWait \/ StartAccept \/ AcceptDone
           \/ \E f \in Fds : AddTask(f) \/ AddFd(f) \/ AddFails(f)
           \/ \E c \in Conns : Accept(c)

-----------------------------------------------------------------------------
\* The workers: run_worker takes a task, data_handler runs it.
TakeTask(w) == /\ worker[w] = Resting
               /\ tasks # <<>>
               /\ tasks' = Tail(tasks)
               /\ worker' = [worker EXCEPT ![w] = Busy("recv", Head(tasks), {})]
               /\ UNCHANGED <<netVars, sockVars, ready, loopVars>>

Doing(w, where) == worker[w].at = where
Fd(w)   == worker[w].fd
Conn(w) == file[Fd(w)]

\* Variant: the buffer is not zeroed, and still holds former requests.
RecvDirty(w) == /\ Doing(w, "recv")
                /\ Conn(w) # Null
                /\ LET c == Conn(w) IN
                     \E n \in (rcvd[c] + 1)..sent[c] :
                       /\ rcvd' = [rcvd EXCEPT ![c] = n]
                       /\ worker' = [worker EXCEPT ![w] = Busy("send", Fd(w), {c} \X (1..n))]
                /\ UNCHANGED <<netVars, backlog, file, watched, ready, loopVars, tasks>>
Recv(w) == /\ Doing(w, "recv")
           /\ Conn(w) # Null
           /\ LET c == Conn(w) IN
                \E n \in (rcvd[c] + 1)..sent[c] :
                  /\ rcvd' = [rcvd EXCEPT ![c] = n]
                  /\ worker' = [worker EXCEPT ![w] = Busy("send", Fd(w), {c} \X ((rcvd[c] + 1)..n))]
           /\ UNCHANGED <<netVars, backlog, file, watched, ready, loopVars, tasks>>

RecvNothing(w) == /\ Doing(w, "recv")
                  /\ Conn(w) # Null
                  /\ rcvd[Conn(w)] = sent[Conn(w)]
                  /\ ~ Ended(Conn(w))
                  /\ worker' = [worker EXCEPT ![w] = Resting]
                  /\ UNCHANGED <<netVars, sockVars, ready, loopVars, tasks>>

\* The end of the connection, or an error: the number names nothing any more.
RecvEnd(w) == /\ Doing(w, "recv")
              /\ Conn(w) # Null => rcvd[Conn(w)] = sent[Conn(w)] /\ Ended(Conn(w))
              /\ worker' = [worker EXCEPT ![w] = Busy("del", Fd(w), {})]
              /\ UNCHANGED <<netVars, sockVars, ready, loopVars, tasks>>

\* The reply goes to whatever the number names after the second of sleep.
\* Variant: one message for each event.
SendBackOnce(w) == /\ Doing(w, "send")
                   /\ Conn(w) # Null
                   /\ client[Conn(w)] = "connected"
                   /\ got' = [got EXCEPT ![Conn(w)] = @ \cup worker[w].msg]
                   /\ worker' = [worker EXCEPT ![w] = Resting]
                   /\ UNCHANGED <<client, sent, sockVars, ready, loopVars, tasks>>
SendBack(w) == /\ Doing(w, "send")
               /\ Conn(w) # Null
               /\ client[Conn(w)] = "connected"
               /\ got' = [got EXCEPT ![Conn(w)] = @ \cup worker[w].msg]
               /\ worker' = [worker EXCEPT ![w] = Busy("recv", Fd(w), {})]
               /\ UNCHANGED <<client, sent, sockVars, ready, loopVars, tasks>>

\* Nobody to send to: an error is printed, but the second send to a client
\* that has left raises SIGPIPE, which ends the process.
SendFails(w) == /\ Doing(w, "send")
                /\ worker' = [worker EXCEPT ![w] = Busy("recv", Fd(w), {})]
                /\ \/ /\ Conn(w) = Null
                      /\ UNCHANGED <<client, ready, reactor>>
                   \/ /\ Conn(w) # Null
                      /\ Ended(Conn(w))
                      /\ reactor' = IF client[Conn(w)] = "reset" THEN Exited ELSE reactor
                      /\ client' = [client EXCEPT ![Conn(w)] = "reset"]
                      /\ ready' = ready \cup Ears(Conn(w))
                /\ UNCHANGED <<sent, got, sockVars, batch, tasks>>

\* epoll_ctl_delete_fd: EPOLL_CTL_DEL, whose failure is printed, then close.
Del(w) == /\ Doing(w, "del")
          /\ watched' = watched \ {Fd(w)}
          /\ ready' = ready \ {Fd(w)}
          /\ worker' = [worker EXCEPT ![w] = Busy("close", Fd(w), {})]
          /\ UNCHANGED <<netVars, rcvd, backlog, file, loopVars, tasks>>

Close(w) == /\ Doing(w, "close")
            /\ file' = [file EXCEPT ![Fd(w)] = Null]
            /\ watched' = watched \ {Fd(w)}
            /\ ready' = ready \ {Fd(w)}
            /\ worker' = [worker EXCEPT ![w] = Resting]
            /\ UNCHANGED <<netVars, rcvd, backlog, loopVars, tasks>>

Worker(w) == /\ reactor # Exited
             /\ \/ TakeTask(w) \/ Recv(w) \/ RecvNothing(w) \/ RecvEnd(w)
                \/ SendBack(w) \/ SendFails(w) \/ Del(w) \/ Close(w)

Next == \/ \E c \in Conns : Connect(c) \/ Send(c) \/ Leave(c)
        \/ Reactor
        \/ \E w \in Workers : Worker(w)

Spec == Init /\ [][Next]_vars
-----------------------------------------------------------------------------
Requests == UNION {{c} \X (1..MaxReq[c]) : c \in Conns}

WorkerStates == {Resting} \cup [at : {"recv", "send", "del", "close"}, fd : Fds, msg : SUBSET Requests]

TypeOK ==
  /\ client \in [Conns -> {"idle", "connected", "gone", "reset"}]
  /\ sent \in [Conns -> Nat] /\ rcvd \in [Conns -> Nat]
  /\ got \in [Conns -> SUBSET Requests]
  /\ backlog \subseteq Conns
  /\ file \in [Fds -> Conns \cup {Null}]
  /\ watched \subseteq Fds
  /\ ready \subseteq Fds \cup {Listen} /\ batch \subseteq Fds \cup {Listen}
  /\ reactor \in {Idle, Loop, Exited, [at |-> "accept"]} \cup {[at |-> "add", fd |-> f] : f \in Fds}
  /\ tasks \in Seq(Fds)
  /\ worker \in [Workers -> WorkerStates]

\* A descriptor that epoll watches and that has something to read is on its
\* way to a worker: on the ready list, in evs, in the pool's queue or in the
\* hands of a worker, which reads until there is nothing left.
OnItsWay(f) == \/ f \in ready \cup batch
               \/ f \in {tasks[i] : i \in 1..Len(tasks)}
               \/ \E w \in Workers : worker[w] # Resting /\ Fd(w) = f
NothingStranded == \A f \in watched : Readable(f) => OnItsWay(f)

\* However many workers read a connection at a time, and whatever clients do,
\* a request is received once and answered at most once.
AnsweredOnce ==
  \A r \in Requests :
    Cardinality({w \in Workers : Doing(w, "send") /\ r \in worker[w].msg})
      + Cardinality({c \in Conns : r \in got[c]}) <= (IF rcvd[r[1]] >= r[2] THEN 1 ELSE 0)
=============================================================================
