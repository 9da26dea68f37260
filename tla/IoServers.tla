----------------------------- MODULE IoServers -----------------------------
(***************************************************************************)
(* The echo servers of one thread: linux_io/1.blocking, 2.nonblocking,     *)
(* 3.io_multiplexing/select and epoll (level- and edge-triggered), and the *)
(* reactors linux_event/libevent/1.common_epoll and 2.single_reactor_...,  *)
(* which differ only in how the handler of an event is found.  All of them *)
(* wait, then take the descriptors they were told of one by one: a         *)
(* connection is accepted from the listening one, a message is received    *)
(* from any other and sent back.  They differ in what the wait tells them, *)
(* in which calls may block and in what a failed write does.               *)
(*                                                                         *)
(* A message is one recv.  A client reads a reply as it arrives.           *)
(***************************************************************************)
EXTENDS Naturals, Sequences, FiniteSets, FiniteSetsExt

CONSTANTS Kinds,      \* the programs
          Clients,
          MaxReq      \* bound of the model: MaxReq[c] messages of client c

AllKinds == {"blocking", "nonblocking", "select", "epoll_lt", "epoll_et", "reactor"}

ASSUME IoServersAssumption == /\ Kinds \subseteq AllKinds
                              /\ IsFiniteSet(Clients)
                              /\ "free" \notin Clients
                              /\ MaxReq \in [Clients -> Nat]

VARIABLES
  kind,       \* the program that runs
  client,     \* client[c]: "idle", "connected", "gone" (it closed) or "reset" (a
              \* reset has reached the server)
  sent,       \* sent[c]: the messages the client has sent
  rcvd,       \* rcvd[c]: the messages the server has received
  got,        \* got[c]: the replies the client has read
  backlog,    \* the connections to accept
  file,       \* file[f]: the client descriptor f is connected to, or Free
  fds,        \* the descriptors the program looks after
  maxfd,      \* max_fd of select
  ready,      \* the ready list of edge-triggered epoll
  todo,       \* the descriptors still to be taken in this pass
  at          \* where the server is

clientVars == <<client, sent, got, backlog>>
vars == <<kind, clientVars, rcvd, file, fds, maxfd, ready, todo, at>>

Free    == "free"
Listen  == 1
Numbers == 2..(Cardinality(Clients) + 1)      \* the kernel gives the lowest free one
Wait    == [at |-> "wait"]
Pass    == [at |-> "pass"]
Exited  == [at |-> "exited"]
Handle(f)    == [at |-> "handle", fd |-> f]
Send(f, msg) == [at |-> "send", fd |-> f, msg |-> msg]

Init == /\ kind \in Kinds
        /\ client = [c \in Clients |-> "idle"]
        /\ sent = [c \in Clients |-> 0]
        /\ rcvd = [c \in Clients |-> 0]
        /\ got = [c \in Clients |-> {}]
        /\ backlog = <<>>
        /\ file = [f \in Numbers |-> Free]
        /\ fds = {Listen}
        /\ maxfd = Listen
        /\ ready = {} /\ todo = {}
        /\ at = Wait

Left(c)  == client[c] \in {"gone", "reset"}
Data(c)  == sent[c] > rcvd[c]
Open     == {f \in Numbers : file[f] # Free}

\* A call on the descriptor would return: a connection, a message or the end.
Readable(f) == IF f = Listen THEN backlog # <<>>
               ELSE file[f] # Free /\ (Data(file[f]) \/ Left(file[f]))

\* The sockets that accept and recv would wait for are those of the programs
\* that do not set O_NONBLOCK.
Nonblocking == kind \in {"nonblocking", "epoll_et"}

\* A write after a reset raises SIGPIPE, which only some of them ignore.
\* Variant: none of them does.
SigpipeDefault == FALSE
SigpipeIgnored == kind \in {"select", "epoll_lt", "epoll_et"}

\* After a reply these receive from the same connection again.
ReceivesOn == kind \in {"blocking", "epoll_et"}

-----------------------------------------------------------------------------
(* What the wait of each program reports.                                  *)

\* recv on the connection that was accepted, and accept when there is none.
BlockingReports == IF fds = {Listen} THEN fds ELSE fds \ {Listen}

\* accept and then recv on every connection, whatever there is.
NonblockingReports == fds

SelectReports == {f \in fds : f <= maxfd /\ Readable(f)}

LevelReports == {f \in fds : Readable(f)}

EdgeReports == {f \in ready : Readable(f)}

Reports == CASE kind = "blocking"    -> BlockingReports
             [] kind = "nonblocking" -> NonblockingReports
             [] kind = "select"      -> SelectReports
             [] kind = "epoll_et"    -> EdgeReports
             [] OTHER                -> LevelReports

\* The kernel puts the descriptors in s on the ready list.
Edge(s) == ready' = IF kind = "epoll_et" THEN ready \cup s ELSE ready

Fd(c) == {f \in Open : file[f] = c}

-----------------------------------------------------------------------------
(* The clients.  Those of the blocking server and of the reactors wait for  *)
(* each reply, the others send whenever they can.                           *)
WaitsForReply == kind \in {"blocking", "reactor"}

Connect(c) == /\ client[c] = "idle"
              /\ at # Exited
              /\ client' = [client EXCEPT ![c] = "connected"]
              /\ backlog' = Append(backlog, c)
              /\ Edge({Listen})
              /\ UNCHANGED <<kind, sent, got, rcvd, file, fds, maxfd, todo, at>>

ClientSend(c) == /\ client[c] = "connected"
                 /\ sent[c] < MaxReq[c]
                 /\ WaitsForReply => Cardinality(got[c]) = sent[c]
                 /\ sent' = [sent EXCEPT ![c] = @ + 1]
                 /\ Edge(Fd(c))
                 /\ UNCHANGED <<kind, client, got, backlog, rcvd, file, fds, maxfd, todo, at>>

\* The client may not have looked at the replies that have come yet; one that
\* waits for each has read those before its last message.
UnreadReply(c) == /\ got[c] # {}
                  /\ WaitsForReply => Cardinality(got[c]) = sent[c]

\* The process ends.  With a reply unread, the kernel resets the connection.
ClientLeaves(c) == /\ client[c] = "connected"
                   /\ \E how \in {"gone", "reset"} :
                        /\ how = "reset" => UnreadReply(c)
                        /\ client' = [client EXCEPT ![c] = how]
                   /\ Edge(Fd(c))
                   /\ UNCHANGED <<kind, sent, got, backlog, rcvd, file, fds, maxfd, todo, at>>

-----------------------------------------------------------------------------
(* The server.  As in SafeQueue.tla, some operations have variants with a   *)
(* mistake, which nothing uses.                                             *)

Return == IF todo = {} THEN Wait ELSE Pass

\* Variant: select's sets are not looked at.
StartPassAll == /\ at = Wait
                /\ Reports # {}
                /\ todo' = fds
                /\ ready' = {}
                /\ at' = Pass
                /\ UNCHANGED <<kind, clientVars, rcvd, file, fds, maxfd>>
StartPass == /\ at = Wait
             /\ Reports # {}
             /\ todo' = Reports
             /\ ready' = {}
             /\ at' = Pass
             /\ UNCHANGED <<kind, clientVars, rcvd, file, fds, maxfd>>

\* It is the turn of f, or of f once more.  select goes through its set of
\* numbers in order, 2.nonblocking accepts before it goes through its vector.
Turn(f) == \/ at = Handle(f)
           \/ /\ at = Pass
              /\ f \in todo
              /\ kind = "select" => f = Min(todo)
              /\ kind = "nonblocking" => f = Listen \/ Listen \notin todo

AddFd(f) == /\ fds' = fds \cup {f}
            /\ maxfd' = IF kind = "select" THEN Max({maxfd, f}) ELSE maxfd

\* Variant: the first of the set is taken for the last.
RemoveFdFirst(f) == /\ fds' = fds \ {f}
                    /\ maxfd' = IF kind = "select" /\ f >= maxfd THEN Min(fds \ {f}) ELSE maxfd
RemoveFd(f) == /\ fds' = fds \ {f}
               /\ maxfd' = IF kind = "select" /\ f >= maxfd THEN Max(fds \ {f}) ELSE maxfd

\* One accept for each event.  2.nonblocking receives from the new connection
\* in the same pass; epoll tells at once of what is there when it is added.
Accept == /\ Turn(Listen)
          /\ backlog # <<>>
          /\ \E f \in Numbers \ Open :
               /\ \A g \in Numbers \ Open : f <= g
               /\ file' = [file EXCEPT ![f] = Head(backlog)]
               /\ AddFd(f)
               /\ Edge(IF Data(Head(backlog)) \/ Left(Head(backlog)) THEN {f} ELSE {})
               /\ todo' = (todo \ {Listen}) \cup (IF kind = "nonblocking" THEN {f} ELSE {})
          /\ backlog' = Tail(backlog)
          /\ at' = Return'
          /\ UNCHANGED <<kind, client, sent, got, rcvd>>

AcceptNothing == /\ Turn(Listen)
                 /\ backlog = <<>>
                 /\ Nonblocking
                 /\ todo' = todo \ {Listen}
                 /\ at' = Return'
                 /\ UNCHANGED <<kind, clientVars, rcvd, file, fds, maxfd, ready>>

Recv(f) == /\ Turn(f)
           /\ LET c == file[f]
              IN  /\ Data(c)
                  /\ rcvd' = [rcvd EXCEPT ![c] = @ + 1]
                  /\ at' = Send(f, <<c, rcvd[c] + 1>>)
           /\ todo' = todo \ {f}
           /\ UNCHANGED <<kind, clientVars, file, fds, maxfd, ready>>

RecvNothing(f) == /\ Turn(f)
                  /\ ~ Readable(f)
                  /\ Nonblocking
                  /\ todo' = todo \ {f}
                  /\ at' = Return'
                  /\ UNCHANGED <<kind, clientVars, rcvd, file, fds, maxfd, ready>>

\* The end, or the error after a reset: what was sent before it is read first.
\* Variant: the connection is kept.
RecvEndKeeps(f) == /\ Turn(f)
                   /\ Readable(f) /\ ~ Data(file[f])
                   /\ todo' = todo \ {f}
                   /\ at' = Return'
                   /\ UNCHANGED <<kind, clientVars, rcvd, file, fds, maxfd, ready>>
RecvEnd(f) == /\ Turn(f)
              /\ Readable(f) /\ ~ Data(file[f])
              /\ RemoveFd(f)
              /\ file' = [file EXCEPT ![f] = Free]
              /\ ready' = ready \ {f}
              /\ todo' = todo \ {f}
              /\ at' = Return'
              /\ UNCHANGED <<kind, clientVars, rcvd>>

\* Variant: the reply goes to the connection accepted last.
ReplyNewest(f) == /\ at.at = "send" /\ at.fd = f
                  /\ client[file[f]] = "connected"
                  /\ got' = [got EXCEPT ![file[Max(fds)]] = @ \cup {at.msg}]
                  /\ at' = IF ReceivesOn THEN Handle(f) ELSE Return
                  /\ UNCHANGED <<kind, client, sent, backlog, rcvd, file, fds, maxfd, ready, todo>>
Reply(f) == /\ at.at = "send" /\ at.fd = f
            /\ client[file[f]] = "connected"
            /\ got' = [got EXCEPT ![file[f]] = @ \cup {at.msg}]
            /\ at' = IF ReceivesOn THEN Handle(f) ELSE Return
            /\ UNCHANGED <<kind, client, sent, backlog, rcvd, file, fds, maxfd, ready, todo>>

\* The first write after the client has left succeeds, and is answered with a
\* reset.
ReplyToGone(f) == /\ at.at = "send" /\ at.fd = f
                  /\ client[file[f]] = "gone"
                  /\ client' = [client EXCEPT ![file[f]] = "reset"]
                  /\ Edge({f})
                  /\ at' = IF ReceivesOn THEN Handle(f) ELSE Return
                  /\ UNCHANGED <<kind, sent, got, backlog, rcvd, file, fds, maxfd, todo>>

\* After a reset the write fails: on to the next descriptor, the edge-triggered
\* program too.
ReplyFails(f) == /\ at.at = "send" /\ at.fd = f
                 /\ client[file[f]] = "reset"
                 /\ at' = IF SigpipeIgnored THEN Return ELSE Exited
                 /\ UNCHANGED <<kind, clientVars, rcvd, file, fds, maxfd, ready, todo>>

Server == \/ StartPass \/ Accept \/ AcceptNothing
          \/ \E f \in Numbers : \/ Recv(f) \/ RecvNothing(f) \/ RecvEnd(f)
                                \/ Reply(f) \/ ReplyToGone(f) \/ ReplyFails(f)

Next == Server \/ \E c \in Clients : Connect(c) \/ ClientSend(c) \/ ClientLeaves(c)

\* The server runs.  Nothing makes a client connect, send or leave.
Spec == Init /\ [][Next]_vars /\ WF_vars(Server)
-----------------------------------------------------------------------------
Places == {Wait, Pass, Exited} \cup {Handle(f) : f \in Numbers}
            \cup {Send(f, msg) : f \in Numbers, msg \in Clients \X Nat}

TypeOK ==
  /\ kind \in Kinds
  /\ client \in [Clients -> {"idle", "connected", "gone", "reset"}]
  /\ sent \in [Clients -> Nat] /\ rcvd \in [Clients -> Nat]
  /\ got \in [Clients -> SUBSET (Clients \X Nat)]
  /\ backlog \in Seq(Clients)
  /\ file \in [Numbers -> Clients \cup {Free}]
  /\ fds = {Listen} \cup Open
  /\ maxfd \in {Listen} \cup Numbers
  /\ ready \subseteq fds /\ todo \subseteq fds
  /\ at \in Places
  /\ at.at \in {"handle", "send"} => at.fd \in Open

\* select and level-triggered epoll leave the sockets blocking and call accept
\* and recv for what was reported at the start of the pass.  It is still there
\* when its turn comes, although other descriptors were handled, closed, and
\* their numbers given to new connections in the meantime: the only thread
\* never waits in accept or recv.  (It may wait in send, of which the comment of
\* select/server.cpp:116-117 warns.)
NeverBlocks ==
  kind \in {"select", "epoll_lt", "reactor"} =>
    \A f \in todo : Readable(f)

\* No client ends a server by leaving, at whatever moment and with whatever it
\* had asked for.  2.nonblocking is not among them: it does not ignore SIGPIPE,
\* and its clients send without waiting.
Survives == kind # "nonblocking" => at # Exited

\* A client gets back its own messages and nothing else, whoever had its
\* descriptor's number before.
Service == INSTANCE EchoService WITH Conns <- Clients
Echoes  == Service!Spec

\* A message is answered if its client stays.  The blocking server must have
\* accepted the connection, since it serves one at a time; so must the
\* edge-triggered one, since it accepts one for an edge.
Answered == \A c \in Clients : \A n \in 1..MaxReq[c] :
  sent[c] >= n /\ (kind \in {"blocking", "epoll_et"} => Fd(c) # {})
    ~> <<c, n>> \in got[c] \/ client[c] # "connected" \/ at = Exited

Closed(f) == file[f] = Free \/ ~ Left(file[f]) \/ at = Exited

\* The descriptor of a client that has left is closed, also after failed writes.
\* The edge-triggered program is left out: a failed write leaves its loop before
\* the end of the input was read, and no edge comes again, as the comment of
\* epoll/server.cpp:101-102 warns.
ClosedEventually == \A f \in Numbers : kind # "epoll_et" /\ ~ Closed(f) ~> Closed(f)
=============================================================================
