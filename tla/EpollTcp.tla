------------------------------ MODULE EpollTcp ------------------------------
(***************************************************************************)
(* linux_io/3.io_multiplexing/epoll_demo: the classes EpollTcpServer and   *)
(* EpollTcpClient.  Each has a detached thread that runs EpollLoop over an *)
(* edge-triggered epoll descriptor.  The server's callback echoes what was *)
(* read with SendData; the client's owner sends and its loop reads.  The   *)
(* server's owner registers the callback, starts it and may stop it while  *)
(* the loop runs.                                                          *)
(*                                                                         *)
(* Messages of a connection are numbered.  A read returns any number of    *)
(* those that have arrived, and a write takes as many as the connection's  *)
(* buffers have room for.                                                  *)
(***************************************************************************)
EXTENDS Naturals, Sequences, FiniteSetsExt

CONSTANTS Conns,      \* the clients
          MaxReq,     \* bound of the model: MaxReq[c] messages of client c
          Room        \* Room[c]: replies the buffers hold that c has not read

ASSUME EpollTcpAssumption == /\ MaxReq \in [Conns -> Nat] /\ Room \in [Conns -> Nat]
                             /\ "listen" \notin Conns

VARIABLES
  owner,      \* where the server's owner is, from Register to Stop
  loop,       \* where the server's EpollLoop is
  ready,      \* the descriptors on epoll's ready list
  batch,      \* alive_events: <<descriptor, events>> still to be handled
  srv,        \* srv[c]: the server's side, "none", "backlog", "open" or "closed"
  client,     \* client[c]: "idle", "connected", "fin" (it closed), "rst" (it closed
              \* with replies unread) or "dead" (the server wrote after the close)
  cloop,      \* cloop[c]: the client's EpollLoop, "wait" or "read"
  sent,       \* sent[c]: the messages the client has sent
  rcvd,       \* rcvd[c]: the messages the server has read
  out,        \* out[c]: replies on the way
  got         \* got[c]: replies the client has read

netVars == <<client, cloop, sent, out, got>>
vars == <<owner, loop, ready, batch, srv, rcvd, netVars>>

Listen  == "listen"
Test    == [at |-> "test"]
Wait    == [at |-> "wait"]
Loop    == [at |-> "loop"]
Ended   == [at |-> "ended"]
Exited  == [at |-> "exited"]      \* the process has ended
At(where, c) == [at |-> where, conn |-> c]
Send(c, msg) == [at |-> "send", conn |-> c, msg |-> msg]

Owners == {"new", "registered", "running", "close_handle", "close_efd", "unregister", "stopped"}

\* loop_flag_, handle_, efd_ and recv_callback_, as the owner has left them.
Flag      == owner \in {"new", "registered", "running"}
Listening == owner \in {"running", "close_handle"}
Polling   == owner \in {"running", "close_handle", "close_efd"}
Callback  == owner \notin {"new", "stopped"}

Init == /\ owner = "new"
        /\ loop = [at |-> "none"]
        /\ ready = {} /\ batch = {}
        /\ srv = [c \in Conns |-> "none"]
        /\ client = [c \in Conns |-> "idle"]
        /\ cloop = [c \in Conns |-> "wait"]
        /\ sent = [c \in Conns |-> 0]
        /\ rcvd = [c \in Conns |-> 0]
        /\ out = [c \in Conns |-> <<>>]
        /\ got = [c \in Conns |-> <<>>]

Left(c) == client[c] \in {"fin", "rst", "dead"}

\* The events that epoll would report of a descriptor: nothing, that it can be
\* read, that the peer has closed, an error.
Events(e) ==
  IF e = Listen THEN IF \E c \in Conns : srv[c] = "backlog" THEN "in" ELSE "none"
  ELSE IF srv[e] # "open" THEN "none"
  ELSE CASE client[e] \in {"rst", "dead"} -> "hup"
         [] client[e] = "fin"            -> "rdhup"
         [] OTHER                        -> IF sent[e] > rcvd[e] THEN "in" ELSE "none"

\* An edge: the kernel puts a descriptor epoll watches on the ready list.
Edge(c) == ready' = IF srv[c] = "open" /\ Polling THEN ready \cup {c} ELSE ready

-----------------------------------------------------------------------------
(* As in SafeQueue.tla, some operations have variants with a mistake, which *)
(* nothing uses: each breaks a property that the operation keeps.           *)

\* The server's owner: Register, Start, and Stop in the order of its calls.
Register == /\ owner = "new"
            /\ owner' = "registered"
            /\ UNCHANGED <<loop, ready, batch, srv, rcvd, netVars>>

Start == /\ owner = "registered"
         /\ owner' = "running"
         /\ loop' = Test
         /\ UNCHANGED <<ready, batch, srv, rcvd, netVars>>

\* The port is taken, or another call fails: main exits.
StartFails == /\ owner = "registered"
              /\ loop' = Exited
              /\ UNCHANGED <<owner, ready, batch, srv, rcvd, netVars>>

StopLoop == /\ owner = "running"
            /\ owner' = "close_handle"
            /\ UNCHANGED <<loop, ready, batch, srv, rcvd, netVars>>

CloseHandle == /\ owner = "close_handle"
               /\ owner' = "close_efd"
               /\ srv' = [c \in Conns |-> IF srv[c] = "backlog" THEN "closed" ELSE srv[c]]
               /\ ready' = ready \ {Listen}
               /\ UNCHANGED <<loop, batch, rcvd, netVars>>

CloseEfd == /\ owner = "close_efd"
            /\ owner' = "unregister"
            /\ ready' = {}
            /\ UNCHANGED <<loop, batch, srv, rcvd, netVars>>

UnRegister == /\ owner = "unregister"
              /\ owner' = "stopped"
              /\ UNCHANGED <<loop, ready, batch, srv, rcvd, netVars>>

\* The destructor stops once more, and the assertion of UnRegister fails.
Destroy == /\ owner = "stopped"
           /\ loop # Exited
           /\ loop' = Exited
           /\ UNCHANGED <<owner, ready, batch, srv, rcvd, netVars>>

Owner == /\ loop # Exited
         /\ \/ Register \/ Start \/ StartFails
            \/ StopLoop \/ CloseHandle \/ CloseEfd \/ UnRegister \/ Destroy

-----------------------------------------------------------------------------
\* The clients: Start, SendData, EpollLoop, OnSocketRead; and they may end.
Connect(c) == /\ client[c] = "idle"
              /\ Listening
              /\ loop # Exited
              /\ client' = [client EXCEPT ![c] = "connected"]
              /\ srv' = [srv EXCEPT ![c] = "backlog"]
              /\ ready' = ready \cup {Listen}
              /\ UNCHANGED <<owner, loop, batch, rcvd, cloop, sent, out, got>>

ClientSend(c) == /\ client[c] = "connected"
                 /\ srv[c] # "closed"
                 /\ sent[c] < MaxReq[c]
                 /\ sent' = [sent EXCEPT ![c] = @ + 1]
                 /\ Edge(c)
                 /\ UNCHANGED <<owner, loop, batch, srv, rcvd, client, cloop, out, got>>

ClientWait(c) == /\ client[c] = "connected"
                 /\ cloop[c] = "wait"
                 /\ out[c] # <<>> \/ srv[c] = "closed"
                 /\ cloop' = [cloop EXCEPT ![c] = "read"]
                 /\ UNCHANGED <<owner, loop, ready, batch, srv, rcvd, client, sent, out, got>>

\* The socket is blocking: the loop never leaves OnSocketRead but at the end.
ClientRead(c) == /\ client[c] = "connected"
                 /\ cloop[c] = "read"
                 /\ \E n \in 1..Len(out[c]) :
                      /\ got' = [got EXCEPT ![c] = @ \o SubSeq(out[c], 1, n)]
                      /\ out' = [out EXCEPT ![c] = SubSeq(@, n + 1, Len(@))]
                 /\ UNCHANGED <<owner, loop, ready, batch, srv, rcvd, client, cloop, sent>>

ClientReadEnd(c) == /\ client[c] = "connected"
                    /\ cloop[c] = "read"
                    /\ out[c] = <<>>
                    /\ srv[c] = "closed"
                    /\ client' = [client EXCEPT ![c] = "fin"]
                    /\ cloop' = [cloop EXCEPT ![c] = "wait"]
                    /\ UNCHANGED <<owner, loop, ready, batch, srv, rcvd, sent, out, got>>

ClientLeaves(c) == /\ client[c] = "connected"
                   /\ client' = [client EXCEPT ![c] = IF out[c] = <<>> THEN "fin" ELSE "rst"]
                   /\ out' = [out EXCEPT ![c] = <<>>]
                   /\ Edge(c)
                   /\ UNCHANGED <<owner, loop, batch, srv, rcvd, cloop, sent, got>>

ClientLoop(c) == ClientWait(c) \/ ClientRead(c) \/ ClientReadEnd(c)

-----------------------------------------------------------------------------
\* The server's EpollLoop.
Return == IF batch = {} THEN Test ELSE Loop

TestFlag == /\ loop = Test
            /\ loop' = IF Flag THEN Wait ELSE Ended
            /\ UNCHANGED <<owner, ready, batch, srv, rcvd, netVars>>

\* It returns after 10 ms at the latest, and at once when efd_ was closed.
EpollWait == /\ loop = Wait
             /\ batch' = {<<e, Events(e)>> : e \in {d \in ready : Events(d) # "none"}}
             /\ ready' = {}
             /\ loop' = Return'
             /\ UNCHANGED <<owner, srv, rcvd, netVars>>

HandleIn(e) == /\ loop = Loop
               /\ <<e, "in">> \in batch
               /\ batch' = batch \ {<<e, "in">>}
               /\ loop' = IF e = Listen THEN [at |-> "accept"] ELSE At("read", e)
               /\ UNCHANGED <<owner, ready, srv, rcvd, netVars>>

Close(c) == /\ srv' = [srv EXCEPT ![c] = "closed"]
            /\ ready' = ready \ {c}

\* EPOLLERR, EPOLLHUP and EPOLLRDHUP: the descriptor is closed, whatever was
\* left to read.  Variant: the end of a peer is left to read, which no event
\* will tell of.
HangupIgnored(c) == /\ loop = Loop
                    /\ \E what \in {"hup", "rdhup"} :
                         /\ <<c, what>> \in batch
                         /\ batch' = batch \ {<<c, what>>}
                         /\ IF what = "hup" THEN Close(c) ELSE UNCHANGED <<srv, ready>>
                    /\ loop' = Return'
                    /\ UNCHANGED <<owner, rcvd, netVars>>
Hangup(c) == /\ loop = Loop
             /\ \E what \in {"hup", "rdhup"} : /\ <<c, what>> \in batch
                                               /\ batch' = batch \ {<<c, what>>}
             /\ Close(c)
             /\ loop' = Return'
             /\ UNCHANGED <<owner, rcvd, netVars>>

\* OnSocketAccept: accept until there is nothing left.  When handle_ was closed
\* accept fails, and the loop goes on with accept for ever.  (A socket that was
\* accepted but finds efd_ closed is closed, as those in the backlog are.)  That
\* getpeername fails, and the socket stays open unwatched, is left out: it takes
\* a reset, and a client that waits in the backlog has no reply unread, so that
\* it leaves by FIN.
\* Variant: one accept for each event.
AcceptOnce(c) == /\ loop.at = "accept"
                 /\ Listening
                 /\ srv[c] = "backlog"
                 /\ srv' = [srv EXCEPT ![c] = "open"]
                 /\ ready' = IF Left(c) \/ sent[c] > 0 THEN ready \cup {c} ELSE ready
                 /\ loop' = Return
                 /\ UNCHANGED <<owner, batch, rcvd, netVars>>
AcceptOne(c) == /\ loop.at = "accept"
                /\ Listening
                /\ srv[c] = "backlog"
                /\ srv' = [srv EXCEPT ![c] = "open"]
                /\ ready' = IF Left(c) \/ sent[c] > 0 THEN ready \cup {c} ELSE ready
                /\ UNCHANGED <<owner, loop, batch, rcvd, netVars>>

AcceptDone == /\ loop.at = "accept"
              /\ Listening
              /\ \A c \in Conns : srv[c] # "backlog"
              /\ loop' = Return
              /\ UNCHANGED <<owner, ready, batch, srv, rcvd, netVars>>

\* OnSocketRead: read until EAGAIN, the end or an error.  The packet is given
\* to the callback, if there is one.  Variant: one read for each event.
ReadOnce(c) == /\ loop = At("read", c)
               /\ srv[c] = "open"
               /\ \E n \in (rcvd[c] + 1)..sent[c] :
                    /\ rcvd' = [rcvd EXCEPT ![c] = n]
                    /\ out' = [out EXCEPT ![c] = @ \o [i \in 1..(n - rcvd[c]) |-> rcvd[c] + i]]
               /\ loop' = Return
               /\ UNCHANGED <<owner, ready, batch, srv, client, cloop, sent, got>>
Read(c) == /\ loop = At("read", c)
           /\ srv[c] = "open"
           /\ \E n \in (rcvd[c] + 1)..sent[c] :
                /\ rcvd' = [rcvd EXCEPT ![c] = n]
                /\ loop' = IF Callback THEN Send(c, [i \in 1..(n - rcvd[c]) |-> rcvd[c] + i]) ELSE loop
           /\ UNCHANGED <<owner, ready, batch, srv, netVars>>

ReadNothing(c) == /\ loop = At("read", c)
                  /\ srv[c] = "open"
                  /\ rcvd[c] = sent[c]
                  /\ ~ Left(c)
                  /\ loop' = Return
                  /\ UNCHANGED <<owner, ready, batch, srv, rcvd, netVars>>

\* The peer has closed, or SendData has closed the descriptor.
ReadEnd(c) == /\ loop = At("read", c)
              /\ srv[c] = "open" => rcvd[c] = sent[c] /\ Left(c)
              /\ Close(c)
              /\ loop' = Return
              /\ UNCHANGED <<owner, batch, rcvd, netVars>>

\* SendData, called by the callback: one write.  What does not fit is dropped.
\* Variants: the packet is written again when it did not fit as a whole, and
\* only the first message of a packet is sent.
SendAgain(c) == /\ loop.at = "send" /\ loop.conn = c
                /\ Callback
                /\ client[c] = "connected"
                /\ LET n == Min({Len(loop.msg), Room[c] - Len(out[c])})
                   IN  /\ out' = [out EXCEPT ![c] = @ \o SubSeq(loop.msg, 1, n)]
                       /\ loop' = IF n < Len(loop.msg) THEN loop ELSE At("read", c)
                /\ UNCHANGED <<owner, ready, batch, srv, rcvd, client, cloop, sent, got>>
SendFirst(c) == /\ loop.at = "send" /\ loop.conn = c
                /\ Callback
                /\ client[c] = "connected"
                /\ LET n == Min({1, Room[c] - Len(out[c])})
                   IN  out' = [out EXCEPT ![c] = @ \o SubSeq(loop.msg, 1, n)]
                /\ loop' = At("read", c)
                /\ UNCHANGED <<owner, ready, batch, srv, rcvd, client, cloop, sent, got>>
SendData(c) == /\ loop.at = "send" /\ loop.conn = c
               /\ Callback
               /\ client[c] = "connected"
               /\ LET n == Min({Len(loop.msg), Room[c] - Len(out[c])})
                  IN  out' = [out EXCEPT ![c] = @ \o SubSeq(loop.msg, 1, n)]
               /\ loop' = At("read", c)
               /\ UNCHANGED <<owner, ready, batch, srv, rcvd, client, cloop, sent, got>>

\* The first write after the peer has closed succeeds and is answered with a
\* reset; a write after a reset fails and closes, unless SIGPIPE ends it all.
SendFails(c) == /\ loop.at = "send" /\ loop.conn = c
                /\ Callback
                /\ \/ /\ client[c] = "fin"
                      /\ client' = [client EXCEPT ![c] = "dead"]
                      /\ Edge(c)
                      /\ loop' = At("read", c)
                      /\ UNCHANGED srv
                   \/ /\ client[c] = "rst"
                      /\ Close(c)
                      /\ loop' = At("read", c)
                      /\ UNCHANGED client
                   \/ /\ client[c] = "dead"
                      /\ loop' = Exited
                      /\ UNCHANGED <<client, srv, ready>>
                /\ UNCHANGED <<owner, batch, rcvd, cloop, sent, out, got>>

\* The callback was unregistered between the test and the call: the call throws
\* bad_function_call in a thread that does not catch it.
CallNothing(c) == /\ loop.at = "send" /\ loop.conn = c
                  /\ ~ Callback
                  /\ loop' = Exited
                  /\ UNCHANGED <<owner, ready, batch, srv, rcvd, netVars>>

EpollLoop == \/ TestFlag \/ EpollWait \/ HandleIn(Listen) \/ AcceptDone
             \/ \E c \in Conns : \/ HandleIn(c) \/ Hangup(c) \/ AcceptOne(c)
                                 \/ Read(c) \/ ReadNothing(c) \/ ReadEnd(c)
                                 \/ SendData(c) \/ SendFails(c) \/ CallNothing(c)

Next == \/ Owner
        \/ EpollLoop
        \/ \E c \in Conns : Connect(c) \/ ClientSend(c) \/ ClientLeaves(c) \/ ClientLoop(c)

\* The loops run.  Nothing makes an owner start or stop, or a client send.
Spec == Init /\ [][Next]_vars /\ WF_vars(EpollLoop) /\ \A c \in Conns : WF_vars(ClientLoop(c))
-----------------------------------------------------------------------------
TypeOK ==
  /\ owner \in Owners
  /\ \/ loop.at \in {"none", "test", "wait", "loop", "accept", "ended", "exited"}
     \/ loop.at = "read" /\ loop.conn \in Conns
     \/ loop.at = "send" /\ loop.conn \in Conns /\ loop.msg \in Seq(1..rcvd[loop.conn])
  /\ ready \subseteq Conns \cup {Listen}
  /\ batch \subseteq (Conns \cup {Listen}) \X {"in", "hup", "rdhup"}
  /\ srv \in [Conns -> {"none", "backlog", "open", "closed"}]
  /\ client \in [Conns -> {"idle", "connected", "fin", "rst", "dead"}]
  /\ cloop \in [Conns -> {"wait", "read"}]
  /\ sent \in [Conns -> Nat] /\ rcvd \in [Conns -> Nat]
  /\ out \in [Conns -> Seq(Nat)] /\ got \in [Conns -> Seq(Nat)]
  /\ \A c \in Conns : /\ rcvd[c] <= sent[c] /\ sent[c] <= MaxReq[c]
                      /\ Len(out[c]) <= Room[c]
                      /\ out[c] \in Seq(1..rcvd[c]) /\ got[c] \in Seq(1..rcvd[c])

\* The replies of a connection, in the order SendData was given them: those the
\* client has, those on the way and those in the hands of the callback.
InHand(c)  == IF loop.at = "send" /\ loop.conn = c THEN loop.msg ELSE <<>>
Replies(c) == got[c] \o out[c] \o InHand(c)

\* Whatever is dropped, no reply overtakes another or is sent twice.
InOrder == \A c \in Conns : \A i, j \in 1..Len(Replies(c)) : i < j => Replies(c)[i] < Replies(c)[j]

\* The server looks at its descriptors only through edge-triggered epoll, so
\* every one that has an event is on the ready list whenever the loop waits.
InputReported ==
  loop \in {Test, Wait} /\ Polling =>
    \A e \in Conns \cup {Listen} : Events(e) # "none" => e \in ready

\* What is dropped is what a write had no room for: a connection whose buffers
\* hold all its replies gets every one, although SendData writes once.
NothingLost ==
  \A c \in Conns :
    MaxReq[c] <= Room[c] /\ client[c] = "connected" /\ Callback =>
      Replies(c) = [i \in 1..rcvd[c] |-> i]

Serving == owner = "running" /\ loop # Exited

\* A connection whose client has left is closed: no descriptor stays open while
\* the server runs, though an edge tells of the end only once.
ClosedEventually == \A c \in Conns :
  Left(c) /\ srv[c] = "open" ~> srv[c] = "closed" \/ ~ Serving

\* A message is answered if the buffers hold the replies and the client stays.
Answered == \A c \in Conns : \A n \in 1..MaxReq[c] :
  MaxReq[c] <= Room[c] /\ sent[c] >= n ~> Len(got[c]) >= n \/ client[c] # "connected" \/ ~ Serving

\* The comments of epoll_server.cpp:189, 198 and 443 say that Stop, by
\* loop_flag_, ends the loop.
StopEndsLoop == owner = "stopped" ~> loop \in {Ended, Exited}
=============================================================================
