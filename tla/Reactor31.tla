----------------------------- MODULE Reactor31 -----------------------------
(***************************************************************************)
(* 3.1single_reactor_multi_worker: one reactor thread accepts, receives    *)
(* and sends; a pool of workers processes requests.  A connection has a    *)
(* queue of requests, a queue of responses and an eventfd (a semaphore)    *)
(* that tells the reactor how many responses wait.  The epoll descriptor   *)
(* watches every descriptor for EPOLLIN in edge-triggered mode.            *)
(*                                                                         *)
(* The SafeQueue operations are single steps, as SafeQueue.tla shows they  *)
(* may be taken to be.  A message is the set of requests whose bytes one   *)
(* recv returned.  A reactor_event is an address of the heap, which the    *)
(* next connection may get once it was freed.                              *)
(***************************************************************************)
EXTENDS Naturals, Sequences, FiniteSets

CONSTANTS Conns,      \* the connections clients may open
          Workers,    \* the threads of the pool
          Addrs,      \* heap addresses of the clients' reactor_events
          MaxReq,     \* bound of the model: MaxReq[c] requests of connection c
          Window,     \* requests a client sends before it waits; client.cpp: 1
          MaxEvents,  \* the size of evs in the event loop
          Null,       \* no address, no connection
          Abrupt      \* whether clients may leave with requests unanswered

ASSUME ReactorAssumption ==
  /\ MaxReq \in [Conns -> Nat] /\ Window \in Nat \ {0} /\ MaxEvents \in Nat \ {0} /\ Abrupt \in BOOLEAN
  /\ IsFiniteSet(Addrs) /\ IsFiniteSet(Conns) /\ Cardinality(Addrs) >= Cardinality(Conns)
  /\ Null \notin Conns

VARIABLES
  client,     \* client[c]: "idle", "connected", "gone" (it closed), "aborted" (it
              \* closed with a reply unread: TCP resets) or "reset" (known to both)
  conn,       \* conn[c]: the server's view, "none", "backlog", "open" or "closed"
  sent,       \* sent[c]: requests the client has sent, numbered from 1
  rcvd,       \* rcvd[c]: requests the reactor has received from the socket
  got,        \* got[c]: requests whose reply the client has received
  replies,    \* a history: the requests in all the replies to c, with repetitions
  ready,      \* the descriptors on epoll's ready list
  batch,      \* the events of evs that the loop has not dispatched yet
  reactor,    \* what the reactor does: a step of a handler, for a connection
  addr,       \* addr[c]: the address of the reactor_event of c
  mem,        \* mem[a]: the connection whose fields are at a
  req, rsp,   \* the queues of a connection
  ticks,      \* the counter of its rsp_event_fd
  tasks,      \* the pool's queue: the rev each data_handler task captured
  worker      \* what each worker does, for which rev, with which message

netVars   == <<client, sent, got, replies>>
sockVars  == <<conn, rcvd, addr, mem>>
queueVars == <<req, rsp, ticks, tasks>>
epollVars == <<ready, batch, reactor>>
vars == <<netVars, sockVars, queueVars, epollVars, worker>>

Listen  == <<"listen">>
Data(c) == <<"data", c>>          \* the client's descriptor
Resp(c) == <<"resp", c>>          \* its rsp_event_fd
Sources == {Listen} \cup {Data(c) : c \in Conns} \cup {Resp(c) : c \in Conns}

Idle    == [at |-> "wait"]
Loop    == [at |-> "loop"]
Exited  == [at |-> "exited"]      \* the process has ended
At(where, c) == [at |-> where, conn |-> c]
Resting == [at |-> "rest"]
Busy(where, a, msg) == [at |-> where, rev |-> a, msg |-> msg]

Init == /\ client = [c \in Conns |-> "idle"]
        /\ conn = [c \in Conns |-> "none"]
        /\ sent = [c \in Conns |-> 0]
        /\ rcvd = [c \in Conns |-> 0]
        /\ got = [c \in Conns |-> {}]
        /\ replies = [c \in Conns |-> 0]
        /\ ready = {}
        /\ batch = {}
        /\ reactor = Idle
        /\ addr = [c \in Conns |-> Null]
        /\ mem = [a \in Addrs |-> Null]
        /\ req = [c \in Conns |-> <<>>]
        /\ rsp = [c \in Conns |-> <<>>]
        /\ ticks = [c \in Conns |-> 0]
        /\ tasks = <<>>
        /\ worker = [w \in Workers |-> Resting]

-----------------------------------------------------------------------------
(* As in SafeQueue.tla, some operations have variants with a mistake, which *)
(* nothing uses: each breaks a property that the operation keeps.           *)

\* What level-triggered polling would say of a descriptor.
Readable(e) == \/ e = Listen /\ \E c \in Conns : conn[c] = "backlog"
               \/ \E c \in Conns : /\ conn[c] = "open"
                                   /\ \/ e = Data(c) /\ sent[c] > rcvd[c]
                                      \/ e = Data(c) /\ client[c] # "connected"
                                      \/ e = Resp(c) /\ ticks[c] > 0

\* An edge: the kernel puts a descriptor epoll watches on the ready list.
Edge(c, e) == ready' = IF conn[c] = "open" THEN ready \cup {e} ELSE ready

-----------------------------------------------------------------------------
\* The clients.
Connect(c) == /\ client[c] = "idle"
              /\ client' = [client EXCEPT ![c] = "connected"]
              /\ conn' = [conn EXCEPT ![c] = "backlog"]
              /\ ready' = ready \cup {Listen}
              /\ UNCHANGED <<sent, got, replies, rcvd, addr, mem, queueVars, batch, reactor, worker>>

Send(c) == /\ client[c] = "connected"
           /\ sent[c] < MaxReq[c]
           /\ sent[c] - Cardinality(got[c]) < Window
           /\ sent' = [sent EXCEPT ![c] = @ + 1]
           /\ Edge(c, Data(c))
           /\ UNCHANGED <<client, got, replies, sockVars, queueVars, batch, reactor, worker>>

\* A client leaves when its process ends, in client.cpp 20 seconds after it
\* started, whatever it waits for and whether or not it has read the replies.
Leave(c) == /\ client[c] = "connected"
            /\ \E how \in {"gone", "aborted"} :
                 /\ Abrupt \/ (how = "gone" /\ Cardinality(got[c]) = sent[c])
                 /\ how = "aborted" => got[c] # {}
                 /\ client' = [client EXCEPT ![c] = how]
            /\ Edge(c, Data(c))
            /\ UNCHANGED <<sent, got, replies, sockVars, queueVars, batch, reactor, worker>>

-----------------------------------------------------------------------------
\* The reactor: the event loop.  epoll_wait drops from the ready list the
\* descriptors it returns, and those that turn out not to be readable.
EpollWait == /\ reactor = Idle
             /\ \E evs \in SUBSET ready :
                  /\ evs # {}
                  /\ Cardinality(evs) <= MaxEvents
                  /\ ready' = ready \ evs
                  /\ batch' = {e \in evs : Readable(e)}
             /\ reactor' = IF batch' = {} THEN Idle ELSE Loop
             /\ UNCHANGED <<netVars, sockVars, queueVars, worker>>

Return == IF batch = {} THEN Idle ELSE Loop

Dispatch == /\ reactor = Loop
            /\ \E e \in batch :
                 /\ batch' = batch \ {e}
                 /\ \/ e = Listen /\ reactor' = [at |-> "accept"]
                    \/ \E c \in Conns : \/ e = Data(c) /\ reactor' = At("recv", c)
                                        \/ e = Resp(c) /\ reactor' = At("read", c)
            /\ UNCHANGED <<netVars, sockVars, queueVars, ready, worker>>

\* connection_handler: it accepts until there is nothing left to accept.
\* EPOLL_CTL_ADD reports a descriptor that is readable already.
LiveAddrs == {addr[d] : d \in {d \in Conns : conn[d] = "open"}}

\* Variants: it accepts one connection for each event, and all connections
\* share the reactor_events.
AcceptOnce(c) ==
  /\ reactor.at = "accept"
  /\ conn[c] = "backlog"
  /\ conn' = [conn EXCEPT ![c] = "open"]
  /\ \E a \in Addrs \ LiveAddrs : /\ addr' = [addr EXCEPT ![c] = a]
                                  /\ mem' = [mem EXCEPT ![a] = c]
  /\ ready' = IF sent[c] > 0 \/ client[c] # "connected" THEN ready \cup {Data(c)} ELSE ready
  /\ reactor' = Return
  /\ UNCHANGED <<netVars, rcvd, queueVars, batch, worker>>
AcceptShared(c) ==
  /\ reactor.at = "accept"
  /\ conn[c] = "backlog"
  /\ conn' = [conn EXCEPT ![c] = "open"]
  /\ \E a \in Addrs : addr' = [addr EXCEPT ![c] = a] /\ mem' = [mem EXCEPT ![a] = c]
  /\ ready' = IF sent[c] > 0 \/ client[c] # "connected" THEN ready \cup {Data(c)} ELSE ready
  /\ UNCHANGED <<netVars, rcvd, queueVars, batch, reactor, worker>>
AcceptOne(c) ==
  /\ reactor.at = "accept"
  /\ conn[c] = "backlog"
  /\ conn' = [conn EXCEPT ![c] = "open"]
  /\ \E a \in Addrs \ LiveAddrs : /\ addr' = [addr EXCEPT ![c] = a]
                                  /\ mem' = [mem EXCEPT ![a] = c]
  /\ ready' = IF sent[c] > 0 \/ client[c] # "connected" THEN ready \cup {Data(c)} ELSE ready
  /\ UNCHANGED <<netVars, rcvd, queueVars, batch, reactor, worker>>

AcceptDone == /\ reactor.at = "accept"
              /\ \A c \in Conns : conn[c] # "backlog"
              /\ reactor' = Return
              /\ UNCHANGED <<netVars, sockVars, queueVars, ready, batch, worker>>

\* data_handler_by_worker: it receives until there is nothing to receive, and
\* closes the connection when the client has closed its side.  Variants: no
\* task for the request, and one message for each event.
RecvNoTask(c) == /\ reactor = At("recv", c)
                 /\ \E n \in (rcvd[c] + 1)..sent[c] :
                      /\ req' = [req EXCEPT ![c] = Append(@, {c} \X ((rcvd[c] + 1)..n))]
                      /\ rcvd' = [rcvd EXCEPT ![c] = n]
                 /\ UNCHANGED <<netVars, conn, addr, mem, rsp, ticks, tasks, epollVars, worker>>
AddTaskOnce(c) == /\ reactor = At("add", c)
                  /\ tasks' = Append(tasks, addr[c])
                  /\ reactor' = Return
                  /\ UNCHANGED <<netVars, sockVars, req, rsp, ticks, ready, batch, worker>>
Recv(c) == /\ reactor = At("recv", c)
           /\ \E n \in (rcvd[c] + 1)..sent[c] :
                /\ req' = [req EXCEPT ![c] = Append(@, {c} \X ((rcvd[c] + 1)..n))]
                /\ rcvd' = [rcvd EXCEPT ![c] = n]
           /\ reactor' = At("add", c)
           /\ UNCHANGED <<netVars, conn, addr, mem, rsp, ticks, tasks, ready, batch, worker>>

AddTask(c) == /\ reactor = At("add", c)
              /\ tasks' = Append(tasks, addr[c])
              /\ reactor' = At("recv", c)
              /\ UNCHANGED <<netVars, sockVars, req, rsp, ticks, ready, batch, worker>>

RecvNothing(c) == /\ reactor = At("recv", c)
                  /\ rcvd[c] = sent[c]
                  /\ client[c] = "connected"
                  /\ reactor' = Return
                  /\ UNCHANGED <<netVars, sockVars, queueVars, ready, batch, worker>>

\* Any other error is handled by exit.
RecvFails(c) == /\ reactor = At("recv", c)
                /\ rcvd[c] = sent[c]
                /\ client[c] = "aborted"
                /\ reactor' = Exited
                /\ UNCHANGED <<netVars, sockVars, queueVars, ready, batch, worker>>

\* Variant: nothing to receive is taken for the end.
CloseEarly(c) == /\ reactor = At("recv", c)
                 /\ rcvd[c] = sent[c]
                 /\ conn' = [conn EXCEPT ![c] = "closed"]
                 /\ ready' = ready \ {Data(c), Resp(c)}
                 /\ reactor' = Return
                 /\ UNCHANGED <<netVars, rcvd, addr, mem, queueVars, batch, worker>>
Close(c) == /\ reactor = At("recv", c)
            /\ rcvd[c] = sent[c]
            /\ client[c] \in {"gone", "reset"}
            /\ conn' = [conn EXCEPT ![c] = "closed"]
            /\ ready' = ready \ {Data(c), Resp(c)}
            /\ reactor' = Return
            /\ UNCHANGED <<netVars, rcvd, addr, mem, queueVars, batch, worker>>

\* rsp_handler: it takes a tick of the eventfd, then a response, until the
\* eventfd is empty.  It may still be in evs after the connection was closed.
\* Variants: an eventfd without EFD_SEMAPHORE, whose read takes every tick, a
\* blocking one whose counter is not tested, one response for each event, and a
\* response that is looked at but not taken.
ReadAllTicks(c) == /\ reactor = At("read", c)
                   /\ conn[c] = "open"
                   /\ ticks[c] > 0
                   /\ ticks' = [ticks EXCEPT ![c] = 0]
                   /\ reactor' = At("reply", c)
                   /\ UNCHANGED <<netVars, sockVars, req, rsp, tasks, ready, batch, worker>>
ReadUntested(c) == /\ reactor = At("read", c)
                   /\ conn[c] = "open"
                   /\ ticks' = [ticks EXCEPT ![c] = @ - 1]
                   /\ reactor' = At("reply", c)
                   /\ UNCHANGED <<netVars, sockVars, req, rsp, tasks, ready, batch, worker>>
ReplyOnce(c) == /\ reactor = At("reply", c)
                /\ client[c] = "connected"
                /\ rsp[c] # <<>>
                /\ rsp' = [rsp EXCEPT ![c] = Tail(@)]
                /\ got' = [got EXCEPT ![c] = @ \cup Head(rsp[c])]
                /\ replies' = [replies EXCEPT ![c] = @ + Cardinality(Head(rsp[c]))]
                /\ reactor' = Return
                /\ UNCHANGED <<client, sent, sockVars, req, ticks, tasks, ready, batch, worker>>
ReplyKeeps(c) == /\ reactor = At("reply", c)
                 /\ client[c] = "connected"
                 /\ rsp[c] # <<>>
                 /\ got' = [got EXCEPT ![c] = @ \cup Head(rsp[c])]
                 /\ replies' = [replies EXCEPT ![c] = @ + Cardinality(Head(rsp[c]))]
                 /\ reactor' = At("read", c)
                 /\ UNCHANGED <<client, sent, sockVars, queueVars, ready, batch, worker>>
ReadTick(c) == /\ reactor = At("read", c)
               /\ conn[c] = "open"
               /\ ticks[c] > 0
               /\ ticks' = [ticks EXCEPT ![c] = @ - 1]
               /\ reactor' = At("reply", c)
               /\ UNCHANGED <<netVars, sockVars, req, rsp, tasks, ready, batch, worker>>

NoTick(c) == /\ reactor = At("read", c)
             /\ conn[c] # "open" \/ ticks[c] = 0
             /\ reactor' = Return
             /\ UNCHANGED <<netVars, sockVars, queueVars, ready, batch, worker>>

Reply(c) == /\ reactor = At("reply", c)
            /\ client[c] = "connected"
            /\ rsp[c] # <<>>
            /\ rsp' = [rsp EXCEPT ![c] = Tail(@)]
            /\ got' = [got EXCEPT ![c] = @ \cup Head(rsp[c])]
            /\ replies' = [replies EXCEPT ![c] = @ + Cardinality(Head(rsp[c]))]
            /\ reactor' = At("read", c)
            /\ UNCHANGED <<client, sent, sockVars, req, ticks, tasks, ready, batch, worker>>

\* To send to a client that has left only prints the error.  But it makes
\* TCP reset the connection, and the next send raises SIGPIPE.  Variant: the
\* handler closes the connection when send fails.
ReplyCloses(c) == /\ reactor = At("reply", c)
                  /\ client[c] # "connected"
                  /\ rsp[c] # <<>>
                  /\ rsp' = [rsp EXCEPT ![c] = Tail(@)]
                  /\ conn' = [conn EXCEPT ![c] = "closed"]
                  /\ ready' = ready \ {Data(c), Resp(c)}
                  /\ reactor' = Return
                  /\ UNCHANGED <<netVars, rcvd, addr, mem, req, ticks, tasks, batch, worker>>
ReplyFails(c) == /\ reactor = At("reply", c)
                 /\ client[c] # "connected"
                 /\ rsp[c] # <<>>
                 /\ rsp' = [rsp EXCEPT ![c] = Tail(@)]
                 /\ reactor' = IF client[c] = "reset" THEN Exited ELSE At("read", c)
                 /\ client' = [client EXCEPT ![c] = "reset"]
                 /\ Edge(c, Data(c))
                 /\ UNCHANGED <<sent, got, replies, sockVars, req, ticks, tasks, batch, worker>>

NoReply(c) == /\ reactor = At("reply", c)
              /\ rsp[c] = <<>>
              /\ reactor' = Return
              /\ UNCHANGED <<netVars, sockVars, queueVars, ready, batch, worker>>

Reactor == \/ EpollWait \/ Dispatch \/ AcceptDone
           \/ \E c \in Conns : \/ AcceptOne(c)
                               \/ Recv(c) \/ AddTask(c) \/ RecvNothing(c)
                               \/ RecvFails(c) \/ Close(c)
                               \/ ReadTick(c) \/ NoTick(c)
                               \/ Reply(c) \/ ReplyFails(c) \/ NoReply(c)

-----------------------------------------------------------------------------
\* The workers: data_handler, which reads the connection's fields through rev
\* at every step, whatever is at that address by then.
TakeTask(w) == /\ worker[w] = Resting
               /\ tasks # <<>>
               /\ tasks' = Tail(tasks)
               /\ worker' = [worker EXCEPT ![w] = Busy("shift", Head(tasks), {})]
               /\ UNCHANGED <<netVars, sockVars, req, rsp, ticks, epollVars>>

Doing(w, where) == worker[w].at = where
Of(w) == mem[worker[w].rev]

\* Variant: the request stays in its queue.
ShiftReqKeeps(w) == /\ Doing(w, "shift")
                    /\ req[Of(w)] # <<>>
                    /\ worker' = [worker EXCEPT ![w] = Busy("push", @.rev, Head(req[Of(w)]))]
                    /\ UNCHANGED <<netVars, sockVars, req, rsp, ticks, tasks, epollVars>>
ShiftReq(w) == /\ Doing(w, "shift")
               /\ req[Of(w)] # <<>>
               /\ req' = [req EXCEPT ![Of(w)] = Tail(@)]
               /\ worker' = [worker EXCEPT ![w] = Busy("push", @.rev, Head(req[Of(w)]))]
               /\ UNCHANGED <<netVars, sockVars, rsp, ticks, tasks, epollVars>>

NoReq(w) == /\ Doing(w, "shift")
            /\ req[Of(w)] = <<>>
            /\ worker' = [worker EXCEPT ![w] = Resting]
            /\ UNCHANGED <<netVars, sockVars, queueVars, epollVars>>

PushRsp(w) == /\ Doing(w, "push")
              /\ rsp' = [rsp EXCEPT ![Of(w)] = Append(@, worker[w].msg)]
              /\ worker' = [worker EXCEPT ![w] = Busy("write", @.rev, {})]
              /\ UNCHANGED <<netVars, sockVars, req, ticks, tasks, epollVars>>

\* The write fails when the descriptor was closed.
WriteTick(w) == /\ Doing(w, "write")
                /\ ticks' = IF conn[Of(w)] = "open" THEN [ticks EXCEPT ![Of(w)] = @ + 1]
                            ELSE ticks
                /\ Edge(Of(w), Resp(Of(w)))
                /\ worker' = [worker EXCEPT ![w] = Resting]
                /\ UNCHANGED <<netVars, sockVars, req, rsp, tasks, batch, reactor>>

Worker(w) == /\ reactor # Exited
             /\ TakeTask(w) \/ ShiftReq(w) \/ NoReq(w) \/ PushRsp(w) \/ WriteTick(w)

Next == \/ \E c \in Conns : Connect(c) \/ Send(c) \/ Leave(c)
        \/ Reactor
        \/ \E w \in Workers : Worker(w)

\* The scheduler runs the reactor and every worker; nothing makes a client
\* connect, send or leave.
Spec == Init /\ [][Next]_vars /\ WF_vars(Reactor) /\ \A w \in Workers : WF_vars(Worker(w))
-----------------------------------------------------------------------------
Requests == UNION {{c} \X (1..MaxReq[c]) : c \in Conns}
Msgs     == SUBSET Requests
ReactorStates == {Idle, Loop, Exited, [at |-> "accept"]}
                   \cup {At(s, c) : s \in {"recv", "add", "read", "reply"}, c \in Conns}
WorkerStates == {Resting} \cup [at : {"shift", "push", "write"}, rev : Addrs, msg : Msgs]

TypeOK ==
  /\ client \in [Conns -> {"idle", "connected", "gone", "aborted", "reset"}]
  /\ conn \in [Conns -> {"none", "backlog", "open", "closed"}]
  /\ sent \in [Conns -> Nat] /\ rcvd \in [Conns -> Nat]
  /\ got \in [Conns -> Msgs] /\ replies \in [Conns -> Nat]
  /\ ready \subseteq Sources /\ batch \subseteq Sources
  /\ reactor \in ReactorStates
  /\ addr \in [Conns -> Addrs \cup {Null}] /\ mem \in [Addrs -> Conns \cup {Null}]
  /\ req \in [Conns -> Seq(Msgs)] /\ rsp \in [Conns -> Seq(Msgs)]
  /\ ticks \in [Conns -> Nat]
  /\ tasks \in Seq(Addrs)
  /\ worker \in [Workers -> WorkerStates]

WorkersAt(where, c) == {w \in Workers : Doing(w, where) /\ Of(w) = c}
Reacting(where, c) == IF reactor = At(where, c) THEN 1 ELSE 0

\* Edge-triggered epoll reports a descriptor once: when the reactor waits,
\* every descriptor with something to read is on the ready list.  The loops
\* that run until EAGAIN are what makes this true.  Requests and connections
\* are never stranded, responses only when a client leaves with requests
\* unanswered (rsp_handler returns early on "rsp queue is empty").
Reported(e)     == reactor = Idle /\ Readable(e) => e \in ready
InputReported   == Reported(Listen) /\ \A c \in Conns : Reported(Data(c))
NothingStranded == \A e \in Sources : Reported(e)

\* Each request that was queued has a task that will take it, and a task
\* always finds one: the branch "req queue is empty" never runs.
TaskPerRequest ==
  \A c \in Conns : conn[c] = "open" =>
    Len(req[c]) = Cardinality({i \in 1..Len(tasks) : tasks[i] = addr[c]})
                    + Cardinality(WorkersAt("shift", c)) + Reacting("add", c)

\* Each response that was queued has a tick of the eventfd, or a worker about
\* to write it, or the reactor about to take it: the branch "rsp queue is
\* empty" never runs, and no response is left without a notification.
TickPerResponse ==
  \A c \in Conns : conn[c] = "open" =>
    Len(rsp[c]) = ticks[c] + Cardinality(WorkersAt("write", c)) + Reacting("reply", c)

\* A task uses its rev only while the connection it was queued for is open:
\* unbind_reactor_event never frees a reactor_event a worker still needs.
RevAlive == \A w \in Workers : worker[w] # Resting => conn[Of(w)] = "open"

\* The comment of server.cpp:117 and the README of 3.single_reactor_multi_worker
\* say that the rev a task captured, unlike ev, is not overwritten under it: the
\* response goes to the connection that asked.
RevKeepsItsConnection ==
  \A w \in Workers : Doing(w, "push") => worker[w].msg \subseteq ({Of(w)} \X Nat)

\* Whatever clients do, every call the reactor makes on a client's descriptor
\* finds it open: recv, EPOLL_CTL_DEL and close (server.cpp:91-100), and send
\* (148).  An event of evs that is still to be dispatched never names a client's
\* descriptor that a handler of the same batch has closed.  So EPOLL_CTL_DEL does
\* not fail, although the comment of line 94 says it sometimes does "because the
\* fd was closed already".  Of an eventfd this is not said: rsp_handler may run
\* for a closed one (NoTick), its read fails and it returns.
CallsFindOpen ==
  \A c \in Conns :
    /\ reactor \in {At("recv", c), At("add", c), At("reply", c)} => conn[c] = "open"
    /\ Data(c) \in batch \cup ready => conn[c] = "open"

\* Whatever clients do, a request is processed and answered at most once: it
\* is in one queue, in the hands of one worker or in one reply.
Places(r, q) == UNION {{c} \X {i \in 1..Len(q[c]) : r \in q[c][i]} : c \in Conns}
ProcessedOnce ==
  \A r \in Requests :
    Cardinality(Places(r, req)) + Cardinality(Places(r, rsp))
      + Cardinality({w \in Workers : Doing(w, "push") /\ r \in worker[w].msg})
      + Cardinality({c \in Conns : r \in got[c]}) <= 1

\* Every client gets its own requests back and nothing else, and none of them
\* twice: the replies are counted, and a reply that came again would be a step
\* that EchoOnce does not have.
Service == INSTANCE EchoOnce
Echoes  == Service!OnceSpec

\* A request is answered, unless its client leaves.
Answered == \A c \in Conns : \A n \in 1..MaxReq[c] :
              sent[c] >= n ~> (<<c, n>> \in got[c] \/ client[c] # "connected")
=============================================================================
