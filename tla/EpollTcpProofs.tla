--------------------------- MODULE EpollTcpProofs ---------------------------
(***************************************************************************)
(* Proofs about the epoll_demo server, for any clients, messages and       *)
(* buffers: no event is missed, whatever the owner and the clients do and  *)
(* whenever; replies keep their order; and none is lost for want of room   *)
(* where there is room for all.                                            *)
(***************************************************************************)
EXTENDS EpollTcp, SequenceTheorems, TLAPS

-----------------------------------------------------------------------------
(* No event is missed.                                                     *)

\* Where the loop can be before Start, and when alive_events is empty.
LoopOK ==
  /\ owner \in {"new", "registered"} =>
       /\ loop \in {[at |-> "none"], Exited}
       /\ \A c \in Conns : srv[c] = "none"
  /\ loop.at \in {"none", "test", "wait"} => batch = {}

\* The loop will come to descriptor e: it is on the ready list, in alive_events
\* or being handled.  Once the loop has ended nobody will.
Handled(e) == \/ e \in ready
              \/ \E what \in {"in", "hup", "rdhup"} : <<e, what>> \in batch
              \/ e = Listen /\ loop.at = "accept"
              \/ loop.at \in {"read", "send"} /\ loop.conn = e
              \/ loop.at \in {"ended", "exited"}

EventInv == /\ srv \in [Conns -> {"none", "backlog", "open", "closed"}]
            /\ client \in [Conns -> {"idle", "connected", "fin", "rst", "dead"}]
            /\ sent \in [Conns -> Nat] /\ rcvd \in [Conns -> Nat]
            /\ \A what \in {"hup", "rdhup"} : <<Listen, what>> \notin batch
            /\ LoopOK
            /\ Polling => \A e \in Conns \cup {Listen} : Events(e) # "none" => Handled(e)

LEMMA InitEvents == Init => EventInv
  BY EpollTcpAssumption
  DEF Init, EventInv, LoopOK, Polling, Events, Exited, Listen


\* What a descriptor reports depends on its own connection, and on a connection
\* the server has not accepted or has closed there is nothing.
LEMMA EventsKept ==
  ASSUME NEW c \in Conns, srv'[c] = srv[c], client'[c] = client[c],
         sent'[c] = sent[c], rcvd'[c] = rcvd[c]
  PROVE  Events(c)' = Events(c)
  BY EpollTcpAssumption DEF Events, Listen

LEMMA NotOpen ==
  ASSUME NEW c \in Conns
  PROVE  /\ srv[c] # "open" => Events(c) = "none"
         /\ srv'[c] # "open" => Events(c)' = "none"
  BY EpollTcpAssumption DEF Events, Listen

LEMMA BacklogKept ==
  ASSUME NEW c \in Conns, srv \in [Conns -> {"none", "backlog", "open", "closed"}],
         Close(c)
  PROVE  /\ Events(Listen)' # "none" => Events(Listen) # "none"
         /\ srv' \in [Conns -> {"none", "backlog", "open", "closed"}]
         /\ srv'[c] = "closed"
         /\ \A d \in Conns : d # c => srv'[d] = srv[d]
  BY DEF Close, Events

\* What the steps outside the server's loop do to a descriptor that has events:
\* nothing, or they put it on the ready list.
LEMMA OwnerEvents == EventInv /\ Owner => EventInv'
  <1> SUFFICES ASSUME EventInv, Owner PROVE EventInv'
    OBVIOUS
  <1> USE EpollTcpAssumption DEF EventInv, netVars
  <1>1. CASE Register
    BY <1>1 DEF Register, LoopOK, Polling
  <1>2. CASE Start
    <2>1. loop = [at |-> "none"] /\ batch = {} /\ \A c \in Conns : srv[c] = "none"
      BY <1>2 DEF Owner, Start, LoopOK
    <2>2. \A e \in Conns \cup {Listen} : Events(e) = "none"
      BY <2>1, NotOpen DEF Events
    <2>3. LoopOK'
      BY <1>2, <2>1 DEF Start, LoopOK, Test
    <2> QED
      BY <1>2, <2>2, <2>3 DEF Start, Events
  <1>3. CASE StartFails
    BY <1>3 DEF StartFails, LoopOK, Polling, Exited
  <1>4. CASE StopLoop
    <2>1. LoopOK'
      BY <1>4 DEF StopLoop, LoopOK
    <2> QED
      BY <1>4, <2>1 DEF StopLoop, Polling, Events, Handled
  <1>5. CASE CloseHandle
    <2>1. LoopOK'
      BY <1>5 DEF CloseHandle, LoopOK
    <2>2. \A e \in Conns \cup {Listen} : Events(e)' # "none" => e # Listen /\ Events(e) # "none"
      BY <1>5 DEF CloseHandle, Events, Listen
    <2>3. \A e \in Conns : Handled(e) => Handled(e)'
      BY <1>5 DEF CloseHandle, Handled, Listen
    <2> QED
      BY <1>5, <2>1, <2>2, <2>3 DEF CloseHandle, Polling
  <1>6. CASE CloseEfd
    BY <1>6 DEF CloseEfd, LoopOK, Polling
  <1>7. CASE UnRegister
    BY <1>7 DEF UnRegister, LoopOK, Polling
  <1>8. CASE Destroy
    BY <1>8 DEF Destroy, LoopOK, Polling, Exited
  <1> QED
    BY <1>1, <1>2, <1>3, <1>4, <1>5, <1>6, <1>7, <1>8 DEF Owner

LEMMA ClientEvents ==
  ASSUME EventInv, NEW c \in Conns,
         Connect(c) \/ ClientSend(c) \/ ClientLeaves(c) \/ ClientLoop(c)
  PROVE  EventInv'
  <1> USE EpollTcpAssumption DEF EventInv, netVars
  <1>1. CASE Connect(c)
    <2>1. LoopOK'
      BY <1>1 DEF Connect, Listening, LoopOK
    <2>2. \A e \in Conns : Events(e)' # "none" => Events(e) # "none"
      BY <1>1 DEF Connect, Events, Listen
    <2>3. \A e \in Conns : Handled(e) => Handled(e)'
      BY <1>1 DEF Connect, Handled, Listen
    <2>4. Handled(Listen)'
      BY <1>1 DEF Connect, Handled
    <2> QED
      BY <1>1, <2>1, <2>2, <2>3, <2>4 DEF Connect, Polling
  <1>2. CASE ClientSend(c)
    <2>1. LoopOK'
      BY <1>2 DEF ClientSend, LoopOK
    <2>2. \A e \in Conns \cup {Listen} : e # c /\ Events(e)' # "none" => Events(e) # "none"
      BY <1>2 DEF ClientSend, Events, Listen
    <2>3. \A e \in Conns \cup {Listen} : Handled(e) => Handled(e)'
      BY <1>2 DEF ClientSend, Handled, Edge
    <2>4. Polling' /\ Events(c)' # "none" => Handled(c)'
      BY <1>2 DEF ClientSend, Handled, Edge, Events, Listen, Polling
    <2> QED
      BY <1>2, <2>1, <2>2, <2>3, <2>4 DEF ClientSend, Polling
  <1>3. CASE ClientLeaves(c)
    <2>1. LoopOK'
      BY <1>3 DEF ClientLeaves, LoopOK
    <2>2. \A e \in Conns \cup {Listen} : e # c /\ Events(e)' # "none" => Events(e) # "none"
      BY <1>3 DEF ClientLeaves, Events, Listen
    <2>3. \A e \in Conns \cup {Listen} : Handled(e) => Handled(e)'
      BY <1>3 DEF ClientLeaves, Handled, Edge
    <2>4. Polling' /\ Events(c)' # "none" => Handled(c)'
      <3>1. CASE srv[c] = "open"
        BY <1>3, <3>1 DEF ClientLeaves, Handled, Edge, Polling
      <3>2. CASE srv[c] # "open"
        BY <1>3, <3>2, NotOpen DEF ClientLeaves
      <3> QED
        BY <3>1, <3>2
    <2> QED
      BY <1>3, <2>1, <2>2, <2>3, <2>4 DEF ClientLeaves, Polling
  <1>4. CASE ClientWait(c) \/ ClientRead(c)
    <2>1. LoopOK'
      BY <1>4 DEF ClientWait, ClientRead, LoopOK
    <2> QED
      BY <1>4, <2>1 DEF ClientWait, ClientRead, Polling, Events, Handled
  <1>5. CASE ClientReadEnd(c)
    <2>1. LoopOK'
      BY <1>5 DEF ClientReadEnd, LoopOK
    <2>2. \A e \in Conns \cup {Listen} : Events(e)' # "none" => Events(e) # "none"
      <3>1. Events(c)' = "none" /\ Events(Listen)' = Events(Listen)
        BY <1>5, NotOpen DEF ClientReadEnd, Events
      <3>2. ASSUME NEW e \in Conns, e # c PROVE Events(e)' = Events(e)
        BY <1>5, <3>2, EventsKept DEF ClientReadEnd
      <3> QED
        BY <3>1, <3>2 DEF Listen
    <2>3. \A e \in Conns \cup {Listen} : Handled(e) => Handled(e)'
      BY <1>5 DEF ClientReadEnd, Handled
    <2> QED
      BY <1>5, <2>1, <2>2, <2>3 DEF ClientReadEnd, Polling
  <1> QED
    BY <1>1, <1>2, <1>3, <1>4, <1>5 DEF ClientLoop

LEMMA LoopEvents == EventInv /\ EpollLoop => EventInv'
  <1> SUFFICES ASSUME EventInv, EpollLoop PROVE EventInv'
    OBVIOUS
  <1> USE EpollTcpAssumption DEF EventInv, netVars
  <1>1. CASE TestFlag
    <2>1. LoopOK'
      BY <1>1 DEF TestFlag, LoopOK, Test, Wait, Ended, Exited
    <2>2. \A e \in Conns \cup {Listen} : Handled(e) => Handled(e)'
      BY <1>1 DEF TestFlag, Handled, Test
    <2> QED
      BY <1>1, <2>1, <2>2 DEF TestFlag, Polling, Events
  <1>2. CASE EpollWait
    <2>1. LoopOK'
      BY <1>2 DEF EpollWait, LoopOK, Return, Test, Loop, Wait, Exited
    <2>2. \A e \in Conns \cup {Listen} : Events(e) \in {"none", "in", "hup", "rdhup"}
      BY DEF Events
    <2>3. ASSUME NEW e \in Conns \cup {Listen}, Events(e) # "none", Polling
          PROVE  Handled(e)'
      <3>1. e \in ready
        BY <1>2, <2>3 DEF EpollWait, Handled, LoopOK, Wait
      <3>2. <<e, Events(e)>> \in batch'
        BY <1>2, <2>3, <3>1 DEF EpollWait
      <3> QED
        BY <2>2, <2>3, <3>2 DEF Handled
    <2>4. \A what \in {"hup", "rdhup"} : <<Listen, what>> \notin batch'
      BY <1>2 DEF EpollWait, Events
    <2> QED
      BY <1>2, <2>1, <2>3, <2>4 DEF EpollWait, Polling, Events
  <1>3. ASSUME NEW e \in Conns \cup {Listen}, HandleIn(e) PROVE EventInv'
    <2>1. LoopOK'
      BY <1>3 DEF HandleIn, LoopOK, Loop, At, Exited
    <2>2. ASSUME NEW d \in Conns \cup {Listen}, Handled(d) PROVE Handled(d)'
      BY <1>3, <2>2 DEF HandleIn, Handled, Loop, At
    <2> QED
      BY <1>3, <2>1, <2>2 DEF HandleIn, Polling, Events
  <1>4. ASSUME NEW c \in Conns, Hangup(c) PROVE EventInv'
    <2>1. LoopOK'
      BY <1>4 DEF Hangup, Close, LoopOK, Loop, Return, Test, Exited
    <2>2. \A e \in Conns \cup {Listen} : Events(e)' # "none" => e # c /\ Events(e) # "none"
      <3>1. Events(c)' = "none" /\ (Events(Listen)' # "none" => Events(Listen) # "none")
        BY <1>4, BacklogKept, NotOpen DEF Hangup
      <3>2. ASSUME NEW e \in Conns, e # c PROVE Events(e)' = Events(e)
        BY <1>4, <3>2, BacklogKept, EventsKept DEF Hangup
      <3> QED
        BY <3>1, <3>2, EpollTcpAssumption DEF Listen
    <2>3. ASSUME NEW d \in Conns \cup {Listen}, d # c, Handled(d) PROVE Handled(d)'
      BY <1>4, <2>3 DEF Hangup, Close, Handled, Loop
    <2>4. srv' \in [Conns -> {"none", "backlog", "open", "closed"}]
      BY <1>4 DEF Hangup, Close
    <2> QED
      BY <1>4, <2>1, <2>2, <2>3, <2>4 DEF Hangup, Polling
  <1>5. ASSUME NEW c \in Conns, AcceptOne(c) PROVE EventInv'
    <2>1. LoopOK'
      BY <1>5 DEF AcceptOne, LoopOK, Exited
    <2>2. \A e \in Conns \cup {Listen} : e # c /\ Events(e)' # "none" => Events(e) # "none"
      BY <1>5 DEF AcceptOne, Events, Listen
    <2>3. \A e \in Conns \cup {Listen} : Handled(e) => Handled(e)'
      BY <1>5 DEF AcceptOne, Handled
    <2>4. Events(c)' # "none" => Handled(c)'
      BY <1>5 DEF AcceptOne, Handled, Events, Left, Listen
    <2> QED
      BY <1>5, <2>1, <2>2, <2>3, <2>4 DEF AcceptOne, Polling
  <1>6. CASE AcceptDone
    <2>1. LoopOK'
      BY <1>6 DEF AcceptDone, LoopOK, Return, Test, Loop, Exited
    <2>2. \A e \in Conns : Handled(e) => Handled(e)'
      BY <1>6 DEF AcceptDone, Handled, Listen
    <2>3. Events(Listen)' = "none"
      BY <1>6 DEF AcceptDone, Events, Listen
    <2> QED
      BY <1>6, <2>1, <2>2, <2>3 DEF AcceptDone, Polling, Events
  <1>7. ASSUME NEW c \in Conns, Read(c) PROVE EventInv'
    <2>1. LoopOK'
      BY <1>7 DEF Read, LoopOK, Callback, At, Send, Exited
    <2>2. \A e \in Conns \cup {Listen} : e # c /\ Events(e)' # "none" => Events(e) # "none"
      BY <1>7 DEF Read, Events, Listen
    <2>3. \A e \in Conns \cup {Listen} : Handled(e) => Handled(e)'
      BY <1>7 DEF Read, Handled, At, Send
    <2>4. Handled(c)'
      BY <1>7 DEF Read, Handled, At, Send
    <2>5. rcvd' \in [Conns -> Nat]
      BY <1>7 DEF Read
    <2> QED
      BY <1>7, <2>1, <2>2, <2>3, <2>4, <2>5 DEF Read, Polling
  <1>8. ASSUME NEW c \in Conns, ReadNothing(c) PROVE EventInv'
    <2>1. LoopOK'
      BY <1>8 DEF ReadNothing, LoopOK, Return, Test, Loop, At, Exited
    <2>2. Events(c) = "none"
      BY <1>8 DEF ReadNothing, Events, Left, Listen
    <2>3. \A e \in Conns \cup {Listen} : e # c /\ Handled(e) => Handled(e)'
      BY <1>8 DEF ReadNothing, Handled, At
    <2> QED
      BY <1>8, <2>1, <2>2, <2>3 DEF ReadNothing, Polling, Events
  <1>9. ASSUME NEW c \in Conns, ReadEnd(c) PROVE EventInv'
    <2>1. LoopOK'
      BY <1>9 DEF ReadEnd, Close, LoopOK, Return, Test, Loop, At, Exited
    <2>2. \A e \in Conns \cup {Listen} : Events(e)' # "none" => e # c /\ Events(e) # "none"
      <3>1. Events(c)' = "none" /\ (Events(Listen)' # "none" => Events(Listen) # "none")
        BY <1>9, BacklogKept, NotOpen DEF ReadEnd
      <3>2. ASSUME NEW e \in Conns, e # c PROVE Events(e)' = Events(e)
        BY <1>9, <3>2, BacklogKept, EventsKept DEF ReadEnd
      <3> QED
        BY <3>1, <3>2, EpollTcpAssumption DEF Listen
    <2>3. ASSUME NEW d \in Conns \cup {Listen}, d # c, Handled(d) PROVE Handled(d)'
      BY <1>9, <2>3 DEF ReadEnd, Close, Handled, At
    <2>4. srv' \in [Conns -> {"none", "backlog", "open", "closed"}]
      BY <1>9 DEF ReadEnd, Close
    <2> QED
      BY <1>9, <2>1, <2>2, <2>3, <2>4 DEF ReadEnd, Polling
  <1>10. ASSUME NEW c \in Conns, SendData(c) PROVE EventInv'
    <2>1. LoopOK'
      BY <1>10 DEF SendData, LoopOK, Callback, At, Exited
    <2>2. \A e \in Conns \cup {Listen} : Handled(e) => Handled(e)'
      BY <1>10 DEF SendData, Handled, At
    <2> QED
      BY <1>10, <2>1, <2>2 DEF SendData, Polling, Events
  <1>11. ASSUME NEW c \in Conns, SendFails(c) PROVE EventInv'
    <2>1. LoopOK'
      BY <1>11 DEF SendFails, Close, LoopOK, Callback, At, Exited
    <2>2. srv' \in [Conns -> {"none", "backlog", "open", "closed"}]
      BY <1>11 DEF SendFails, Close
    <2>3. client' \in [Conns -> {"idle", "connected", "fin", "rst", "dead"}]
      BY <1>11 DEF SendFails
    <2>4. \A e \in Conns \cup {Listen} : e # c /\ Events(e)' # "none" => Events(e) # "none"
      BY <1>11 DEF SendFails, Close, Events, Listen
    <2>5. ASSUME NEW d \in Conns \cup {Listen}, d # c, Handled(d) PROVE Handled(d)'
      BY <1>11, <2>5 DEF SendFails, Close, Edge, Handled, At, Exited
    <2>6. Handled(c)'
      BY <1>11 DEF SendFails, Handled, At, Exited
    <2> QED
      BY <1>11, <2>1, <2>2, <2>3, <2>4, <2>5, <2>6 DEF SendFails, Polling
  <1>12. ASSUME NEW c \in Conns, CallNothing(c) PROVE EventInv'
    <2>1. LoopOK'
      BY <1>12 DEF CallNothing, LoopOK, Exited, Callback
    <2>2. \A e \in Conns \cup {Listen} : Handled(e)'
      BY <1>12 DEF CallNothing, Handled, Exited
    <2> QED
      BY <1>12, <2>1, <2>2 DEF CallNothing, Polling
  <1> QED
    BY <1>1, <1>2, <1>3, <1>4, <1>5, <1>6, <1>7, <1>8, <1>9, <1>10, <1>11, <1>12
    DEF EpollLoop

LEMMA NextEvents == EventInv /\ [Next]_vars => EventInv'
  <1> SUFFICES ASSUME EventInv, [Next]_vars PROVE EventInv'
    OBVIOUS
  <1>1. CASE UNCHANGED vars
    BY <1>1 DEF vars, netVars, EventInv, LoopOK, Polling, Events, Handled
  <1> QED
    BY <1>1, OwnerEvents, ClientEvents, LoopEvents DEF Next

\* Edge-triggered epoll tells of each change once, and the server stops reading
\* and accepting only at EAGAIN: while the loop waits, every descriptor that has
\* an event is on the ready list, whenever clients send, leave or connect and
\* the owner starts or stops.
THEOREM EventsReported == Spec => []InputReported
  <1>1. EventInv => InputReported
    <2> SUFFICES ASSUME EventInv, loop \in {Test, Wait}, Polling,
                        NEW e \in Conns \cup {Listen}, Events(e) # "none"
                 PROVE  e \in ready
      BY DEF InputReported
    <2>1. loop.at \in {"test", "wait"}
      BY DEF Test, Wait
    <2> QED
      BY <2>1 DEF EventInv, LoopOK, Handled
  <1> QED
    BY <1>1, InitEvents, NextEvents, PTL DEF Spec

-----------------------------------------------------------------------------
(* The types.                                                              *)

LEMMA MinOfTwo ==
  ASSUME NEW a \in Nat, NEW b \in Nat
  PROVE  Min({a, b}) \in Nat /\ Min({a, b}) <= a /\ Min({a, b}) <= b
         /\ (Min({a, b}) = a \/ Min({a, b}) = b)
  <1>1. \E x \in {a, b} : \A y \in {a, b} : x <= y
    OBVIOUS
  <1>2. Min({a, b}) \in {a, b} /\ \A y \in {a, b} : Min({a, b}) <= y
    BY <1>1 DEF Min
  <1> QED
    BY <1>2

LEMMA InitTypeOK == Init => TypeOK
  BY EpollTcpAssumption, EmptySeq
  DEF Init, TypeOK, Owners

\* A sequence of numbers up to m is one of numbers up to any greater n.
LEMMA SeqUpTo ==
  ASSUME NEW m \in Nat, NEW n \in Nat, m <= n, NEW s \in Seq(1..m)
  PROVE  s \in Seq(1..n) /\ s \in Seq(Nat)
  <1>1. 1..m \subseteq 1..n /\ 1..m \subseteq Nat
    OBVIOUS
  <1> QED
    BY <1>1, SeqMonotonic

\* The messages m + 1 to n, as Read gives them to the callback.
LEMMA FreshMessages ==
  ASSUME NEW m \in Nat, NEW n \in Nat, m < n
  PROVE  LET s == [i \in 1..(n - m) |-> m + i]
         IN  /\ s \in Seq(1..n) /\ s \in Seq(Nat) /\ Len(s) = n - m
             /\ \A i \in 1..Len(s) : s[i] = m + i
  <1>1. n - m \in Nat /\ \A i \in 1..(n - m) : m + i \in 1..n /\ m + i \in Nat
    OBVIOUS
  <1> QED
    BY <1>1

LEMMA OwnerTypeOK == TypeOK /\ Owner => TypeOK'
  <1> SUFFICES ASSUME TypeOK, Owner PROVE TypeOK'
    OBVIOUS
  <1> USE DEF TypeOK, netVars
  <1>1. CASE Register \/ StartFails \/ StopLoop \/ UnRegister \/ Destroy
    BY <1>1 DEF Register, StartFails, StopLoop, UnRegister, Destroy, Owners, Exited
  <1>2. CASE Start
    BY <1>2 DEF Start, Owners, Test
  <1>3. CASE CloseHandle
    BY <1>3 DEF CloseHandle, Owners
  <1>4. CASE CloseEfd
    BY <1>4 DEF CloseEfd, Owners
  <1> QED
    BY <1>1, <1>2, <1>3, <1>4 DEF Owner

LEMMA ClientTypeOK ==
  ASSUME TypeOK, NEW c \in Conns,
         Connect(c) \/ ClientSend(c) \/ ClientLeaves(c) \/ ClientLoop(c)
  PROVE  TypeOK'
  <1> USE DEF TypeOK, netVars
  <1>1. CASE Connect(c)
    BY <1>1 DEF Connect
  <1>2. CASE ClientSend(c)
    <2>1. /\ sent' \in [Conns -> Nat] /\ sent'[c] = sent[c] + 1
          /\ \A d \in Conns : d # c => sent'[d] = sent[d]
      BY <1>2 DEF ClientSend
    <2>2. \A d \in Conns : rcvd[d] <= sent'[d] /\ sent'[d] <= MaxReq[d]
      BY <1>2, <2>1, EpollTcpAssumption DEF ClientSend
    <2>3. ready' \subseteq Conns \cup {Listen}
      BY <1>2 DEF ClientSend, Edge
    <2> QED
      BY <1>2, <2>1, <2>2, <2>3 DEF ClientSend
  <1>3. CASE ClientLeaves(c)
    <2>1. /\ out' \in [Conns -> Seq(Nat)] /\ out'[c] = <<>>
          /\ \A d \in Conns : d # c => out'[d] = out[d]
      BY <1>3, EmptySeq DEF ClientLeaves
    <2>2. \A d \in Conns : Len(out'[d]) <= Room[d] /\ out'[d] \in Seq(1..rcvd[d])
      <3>1. out'[c] \in Seq(1..rcvd[c]) /\ Len(out'[c]) = 0
        BY <2>1, EmptySeq
      <3>2. 0 <= Room[c]
        BY EpollTcpAssumption
      <3> QED
        BY <2>1, <3>1, <3>2
    <2>3. ready' \subseteq Conns \cup {Listen}
      BY <1>3 DEF ClientLeaves, Edge
    <2>4. client' \in [Conns -> {"idle", "connected", "fin", "rst", "dead"}]
      BY <1>3 DEF ClientLeaves
    <2> QED
      BY <1>3, <2>1, <2>2, <2>3, <2>4 DEF ClientLeaves
  <1>4. CASE ClientWait(c)
    BY <1>4 DEF ClientWait
  <1>5. CASE ClientRead(c)
    <2>1. PICK n \in 1..Len(out[c]) :
               /\ got' = [got EXCEPT ![c] = @ \o SubSeq(out[c], 1, n)]
               /\ out' = [out EXCEPT ![c] = SubSeq(@, n + 1, Len(@))]
      BY <1>5 DEF ClientRead
    <2>2. ASSUME NEW S, out[c] \in Seq(S), got[c] \in Seq(S)
          PROVE  /\ got[c] \o SubSeq(out[c], 1, n) \in Seq(S)
                 /\ SubSeq(out[c], n + 1, Len(out[c])) \in Seq(S)
                 /\ Len(SubSeq(out[c], n + 1, Len(out[c]))) <= Len(out[c])
      <3>1. Len(out[c]) \in Nat /\ \A i \in 1..Len(out[c]) : out[c][i] \in S
        BY <2>2, LenProperties, ElementOfSeq
      <3>2. SubSeq(out[c], 1, n) \in Seq(S)
        BY <3>1, SubSeqProperties
      <3>3. /\ SubSeq(out[c], n + 1, Len(out[c])) \in Seq(S)
            /\ Len(SubSeq(out[c], n + 1, Len(out[c]))) <= Len(out[c])
        BY <3>1, SubSeqProperties
      <3> QED
        BY <2>2, <3>2, <3>3, ConcatProperties
    <2>3. got' \in [Conns -> Seq(Nat)] /\ out' \in [Conns -> Seq(Nat)]
      BY <2>1, <2>2
    <2>4. \A d \in Conns : /\ got'[d] \in Seq(1..rcvd[d]) /\ out'[d] \in Seq(1..rcvd[d])
                           /\ Len(out'[d]) <= Room[d]
      <3>1. /\ got[c] \o SubSeq(out[c], 1, n) \in Seq(1..rcvd[c])
            /\ SubSeq(out[c], n + 1, Len(out[c])) \in Seq(1..rcvd[c])
            /\ Len(SubSeq(out[c], n + 1, Len(out[c]))) <= Len(out[c])
        BY <2>2
      <3>2. Len(out[c]) \in Nat /\ Room[c] \in Nat
        BY EpollTcpAssumption, LenProperties
      <3>3. Len(SubSeq(out[c], n + 1, Len(out[c]))) \in Nat
        BY <3>1, LenProperties
      <3>4. got'[c] = got[c] \o SubSeq(out[c], 1, n)
            /\ out'[c] = SubSeq(out[c], n + 1, Len(out[c]))
        BY <2>1
      <3>5. /\ got'[c] \in Seq(1..rcvd[c]) /\ out'[c] \in Seq(1..rcvd[c])
            /\ Len(out'[c]) <= Room[c]
        <4>1. Len(out[c]) <= Room[c]
          OBVIOUS
        <4>2. Len(out'[c]) <= Room[c]
          BY <3>1, <3>2, <3>3, <3>4, <4>1
        <4> QED
          BY <3>1, <3>4, <4>2
      <3>6. \A d \in Conns : d # c => got'[d] = got[d] /\ out'[d] = out[d]
        BY <2>1
      <3> QED
        BY <3>5, <3>6
    <2> QED
      BY <1>5, <2>3, <2>4 DEF ClientRead
  <1>6. CASE ClientReadEnd(c)
    BY <1>6 DEF ClientReadEnd
  <1> QED
    BY <1>1, <1>2, <1>3, <1>4, <1>5, <1>6 DEF ClientLoop

LEMMA LoopTypeOK == TypeOK /\ EpollLoop => TypeOK'
  <1> SUFFICES ASSUME TypeOK, EpollLoop PROVE TypeOK'
    OBVIOUS
  <1> USE DEF TypeOK, netVars
  <1>1. CASE TestFlag \/ AcceptDone
    BY <1>1 DEF TestFlag, AcceptDone, Return, Test, Wait, Loop, Ended
  <1>2. CASE EpollWait
    <2>1. batch' \subseteq (Conns \cup {Listen}) \X {"in", "hup", "rdhup"}
      <3>1. \A e \in Conns \cup {Listen} : Events(e) \in {"none", "in", "hup", "rdhup"}
        BY DEF Events
      <3> QED
        BY <1>2, <3>1 DEF EpollWait
    <2> QED
      BY <1>2, <2>1 DEF EpollWait, Return, Test, Loop
  <1>3. ASSUME NEW e \in Conns \cup {Listen}, HandleIn(e) PROVE TypeOK'
    <2>1. loop'.at = "accept" \/ (loop'.at = "read" /\ loop'.conn \in Conns)
      BY <1>3 DEF HandleIn, At
    <2> QED
      BY <1>3, <2>1 DEF HandleIn
  <1>4. ASSUME NEW c \in Conns, Hangup(c) \/ ReadNothing(c) \/ ReadEnd(c) PROVE TypeOK'
    <2>1. /\ srv' \in [Conns -> {"none", "backlog", "open", "closed"}]
          /\ ready' \subseteq Conns \cup {Listen}
      BY <1>4 DEF Hangup, ReadNothing, ReadEnd, Close
    <2>2. batch' \subseteq batch
      BY <1>4 DEF Hangup, ReadNothing, ReadEnd
    <2>3. loop'.at \in {"test", "loop"}
      BY <1>4 DEF Hangup, ReadNothing, ReadEnd, Return, Test, Loop
    <2> QED
      BY <1>4, <2>1, <2>2, <2>3 DEF Hangup, ReadNothing, ReadEnd
  <1>5. ASSUME NEW c \in Conns, AcceptOne(c) PROVE TypeOK'
    BY <1>5 DEF AcceptOne
  <1>6. ASSUME NEW c \in Conns, Read(c) PROVE TypeOK'
    <2>1. PICK n \in (rcvd[c] + 1)..sent[c] :
               /\ rcvd' = [rcvd EXCEPT ![c] = n]
               /\ loop' = IF Callback THEN Send(c, [i \in 1..(n - rcvd[c]) |-> rcvd[c] + i])
                          ELSE loop
      BY <1>6 DEF Read
    <2>2. rcvd' \in [Conns -> Nat] /\ n \in Nat /\ rcvd[c] < n /\ rcvd'[c] = n
      BY <2>1
    <2>3. \A d \in Conns : rcvd[d] <= rcvd'[d]
      BY <2>1, <2>2
    <2>4. \A d \in Conns : out[d] \in Seq(1..rcvd'[d]) /\ got[d] \in Seq(1..rcvd'[d])
      BY <2>2, <2>3, SeqUpTo
    <2>5. \/ loop'.at = "read" /\ loop'.conn \in Conns
          \/ loop'.at = "send" /\ loop'.conn \in Conns /\ loop'.msg \in Seq(1..rcvd'[loop'.conn])
      BY <1>6, <2>1, <2>2, FreshMessages DEF Read, At, Send
    <2>6. \A d \in Conns : rcvd'[d] <= sent[d]
      BY <2>1
    <2> QED
      BY <1>6, <2>2, <2>4, <2>5, <2>6 DEF Read
  <1>7. ASSUME NEW c \in Conns, SendData(c) PROVE TypeOK'
    <2> DEFINE n == Min({Len(loop.msg), Room[c] - Len(out[c])})
    <2>1. /\ loop.msg \in Seq(1..rcvd[c]) /\ loop.msg \in Seq(Nat)
          /\ Len(loop.msg) \in Nat /\ Len(out[c]) \in Nat /\ Room[c] \in Nat
          /\ Room[c] - Len(out[c]) \in Nat
      <3>1. loop.msg \in Seq(1..rcvd[c])
        BY <1>7 DEF SendData
      <3>2. loop.msg \in Seq(Nat)
        BY <3>1, SeqUpTo
      <3>3. Len(loop.msg) \in Nat /\ Len(out[c]) \in Nat
        BY <3>2, LenProperties
      <3>4. Room[c] \in Nat /\ Len(out[c]) <= Room[c]
        BY EpollTcpAssumption
      <3> QED
        BY <3>1, <3>2, <3>3, <3>4
    <2>2. n \in Nat /\ n <= Len(loop.msg) /\ n <= Room[c] - Len(out[c])
      BY <2>1, MinOfTwo
    <2>3. out' = [out EXCEPT ![c] = @ \o SubSeq(loop.msg, 1, n)] /\ loop' = At("read", c)
      BY <1>7 DEF SendData
    <2> HIDE DEF n
    <2>4. ASSUME NEW S, out[c] \in Seq(S), loop.msg \in Seq(S)
          PROVE  out[c] \o SubSeq(loop.msg, 1, n) \in Seq(S)
                 /\ Len(out[c] \o SubSeq(loop.msg, 1, n)) = Len(out[c]) + n
      <3>1. \A i \in 1..n : loop.msg[i] \in S
        BY <2>1, <2>2, <2>4, ElementOfSeq
      <3>2. SubSeq(loop.msg, 1, n) \in Seq(S) /\ Len(SubSeq(loop.msg, 1, n)) = n
        BY <2>2, <3>1, SubSeqProperties
      <3> QED
        BY <2>4, <3>2, ConcatProperties
    <2>5. out[c] \o SubSeq(loop.msg, 1, n) \in Seq(Nat)
      BY <2>1, <2>4
    <2>6. out[c] \o SubSeq(loop.msg, 1, n) \in Seq(1..rcvd[c])
          /\ Len(out[c] \o SubSeq(loop.msg, 1, n)) <= Room[c]
      <3>1. Len(out[c] \o SubSeq(loop.msg, 1, n)) = Len(out[c]) + n
        BY <2>1, <2>4
      <3>2. Len(out[c]) + n <= Room[c]
        BY <2>1, <2>2
      <3> QED
        BY <2>1, <2>4, <3>1, <3>2
    <2>7. loop'.at = "read" /\ loop'.conn \in Conns
      BY <2>3 DEF At
    <2>8. /\ out' \in [Conns -> Seq(Nat)] /\ out'[c] = out[c] \o SubSeq(loop.msg, 1, n)
          /\ \A d \in Conns : d # c => out'[d] = out[d]
      BY <2>3, <2>5
    <2>9. \A d \in Conns : Len(out'[d]) <= Room[d] /\ out'[d] \in Seq(1..rcvd[d])
      BY <2>6, <2>8
    <2> QED
      BY <1>7, <2>7, <2>8, <2>9 DEF SendData
  <1>8. ASSUME NEW c \in Conns, SendFails(c) PROVE TypeOK'
    <2>1. loop'.at = "exited" \/ (loop'.at = "read" /\ loop'.conn \in Conns)
      BY <1>8 DEF SendFails, At, Exited
    <2>2. /\ client' \in [Conns -> {"idle", "connected", "fin", "rst", "dead"}]
          /\ srv' \in [Conns -> {"none", "backlog", "open", "closed"}]
          /\ ready' \subseteq Conns \cup {Listen}
      BY <1>8 DEF SendFails, Close, Edge
    <2> QED
      BY <1>8, <2>1, <2>2 DEF SendFails
  <1>9. ASSUME NEW c \in Conns, CallNothing(c) PROVE TypeOK'
    BY <1>9 DEF CallNothing, Exited
  <1> QED
    BY <1>1, <1>2, <1>3, <1>4, <1>5, <1>6, <1>7, <1>8, <1>9 DEF EpollLoop

LEMMA NextTypeOK == TypeOK /\ [Next]_vars => TypeOK'
  <1> SUFFICES ASSUME TypeOK, [Next]_vars PROVE TypeOK'
    OBVIOUS
  <1>1. CASE UNCHANGED vars
    BY <1>1 DEF vars, netVars, TypeOK
  <1> QED
    BY <1>1, OwnerTypeOK, ClientTypeOK, LoopTypeOK DEF Next

\* Every variable keeps its type; in particular the buffers never hold more
\* replies than they have room for, and no reply comes before its message.
THEOREM TypeCorrect == Spec => []TypeOK
  BY InitTypeOK, NextTypeOK, PTL DEF Spec

-----------------------------------------------------------------------------
(* The replies: their order, and that none is lost where there is room.    *)

Increasing(s) == \A i, j \in 1..Len(s) : i < j => s[i] < s[j]
Before(s, t)  == \A i \in 1..Len(s), j \in 1..Len(t) : s[i] < t[j]

\* Replies the client has, on the way, and in hand, in order.
InLine(g, o, h) == /\ Increasing(g) /\ Increasing(o) /\ Increasing(h)
                   /\ Before(g, o) /\ Before(g, h) /\ Before(o, h)

\* They are the messages 1 to n, one after the other.
Complete(g, o, h, n) == /\ Len(g) + Len(o) + Len(h) = n
                        /\ \A i \in 1..Len(g) : g[i] = i
                        /\ \A i \in 1..Len(o) : o[i] = Len(g) + i
                        /\ \A i \in 1..Len(h) : h[i] = Len(g) + Len(o) + i

OrderOK(c)  == InLine(got[c], out[c], InHand(c))
AllThere(c) == Complete(got[c], out[c], InHand(c), rcvd[c])

\* A client that is not connected yet has sent nothing; before Register none is.
FreshOK == /\ owner \in {"new", "registered"} =>
                loop.at \in {"none", "exited"} /\ \A c \in Conns : client[c] = "idle"
           /\ \A c \in Conns : client[c] = "idle" =>
                sent[c] = 0 /\ got[c] = <<>> /\ out[c] = <<>> /\ InHand(c) = <<>>

Roomy(c) == MaxReq[c] <= Room[c] /\ client[c] = "connected" /\ Callback

ReplyInv == /\ TypeOK
            /\ FreshOK
            /\ \A c \in Conns : OrderOK(c) /\ (Roomy(c) => AllThere(c))

\* The replies in hand are numbers of messages received.
LEMMA InHandType ==
  ASSUME TypeOK, NEW c \in Conns
  PROVE  /\ InHand(c) \in Seq(1..rcvd[c]) /\ InHand(c) \in Seq(Nat)
         /\ got[c] \in Seq(Nat) /\ out[c] \in Seq(Nat)
         /\ Len(InHand(c)) \in Nat /\ Len(got[c]) \in Nat /\ Len(out[c]) \in Nat
         /\ rcvd[c] \in Nat /\ sent[c] \in Nat
  <1>1. CASE loop.at = "send" /\ loop.conn = c
    <2>1. loop.msg \in Seq(1..rcvd[c])
      BY <1>1 DEF TypeOK
    <2>2. loop.msg \in Seq(Nat)
      BY <2>1, SeqUpTo DEF TypeOK
    <2> QED
      BY <1>1, <2>1, <2>2, LenProperties DEF InHand, TypeOK
  <1>2. CASE ~ (loop.at = "send" /\ loop.conn = c)
    BY <1>2, EmptySeq, LenProperties DEF InHand, TypeOK
  <1> QED
    BY <1>1, <1>2

LEMMA InitReplies == Init => ReplyInv
  <1> SUFFICES ASSUME Init PROVE ReplyInv
    OBVIOUS
  <1>1. \A c \in Conns : InHand(c) = <<>>
    BY DEF Init, InHand
  <1>2. TypeOK
    BY InitTypeOK
  <1>3. FreshOK
    BY <1>1 DEF Init, FreshOK
  <1>4. \A c \in Conns : OrderOK(c)
    BY <1>1 DEF Init, OrderOK, InLine, Increasing, Before
  <1>5. \A c \in Conns : ~ Roomy(c)
    BY DEF Init, Roomy, Callback
  <1> QED
    BY <1>2, <1>3, <1>4, <1>5 DEF ReplyInv

\* A step that leaves the replies of c alone keeps what is said of them.
LEMMA Quiet ==
  ASSUME NEW c \in Conns, OrderOK(c), got'[c] = got[c], out'[c] = out[c],
         rcvd'[c] = rcvd[c], InHand(c)' = InHand(c)
  PROVE  OrderOK(c)' /\ (AllThere(c) => AllThere(c)')
  BY DEF OrderOK, AllThere

\* Replies in hand may be dropped, and so may those on the way.
LEMMA Dropped ==
  ASSUME NEW c \in Conns, OrderOK(c), got'[c] = got[c], out'[c] \in {out[c], <<>>},
         InHand(c)' \in {InHand(c), <<>>}
  PROVE  OrderOK(c)'
  <1>1. Increasing(<<>>) /\ \A s : Before(s, <<>>) /\ Before(<<>>, s)
    BY DEF Increasing, Before
  <1>2. Increasing(out'[c]) /\ Increasing(InHand(c)')
    BY <1>1 DEF OrderOK, InLine
  <1>3. /\ Before(got[c], out'[c]) /\ Before(got[c], InHand(c)')
        /\ Before(out'[c], InHand(c)')
    BY <1>1 DEF OrderOK, InLine
  <1> QED
    BY <1>2, <1>3 DEF OrderOK, InLine

LEMMA OwnerReplies == ReplyInv /\ Owner => ReplyInv'
  <1> SUFFICES ASSUME ReplyInv, Owner PROVE ReplyInv'
    OBVIOUS
  <1>1. TypeOK'
    BY OwnerTypeOK DEF ReplyInv
  <1>2. UNCHANGED <<got, out, rcvd, sent, client>>
    BY DEF Owner, Register, Start, StartFails, StopLoop, CloseHandle, CloseEfd,
           UnRegister, Destroy, netVars
  <1>3. ASSUME NEW c \in Conns
        PROVE  /\ InHand(c)' \in {InHand(c), <<>>}
               /\ InHand(c)' # InHand(c) => owner' = "stopped"
    <2>1. CASE Register \/ StopLoop \/ CloseHandle \/ CloseEfd \/ UnRegister
      BY <2>1 DEF Register, StopLoop, CloseHandle, CloseEfd, UnRegister, InHand
    <2>2. CASE Start \/ StartFails
      BY <2>2 DEF Start, StartFails, InHand, ReplyInv, FreshOK, Test, Exited
    <2>3. CASE Destroy
      BY <2>3 DEF Destroy, InHand, Exited
    <2> QED
      BY <2>1, <2>2, <2>3 DEF Owner
  <1>4. FreshOK'
    <2>1. owner' \in {"new", "registered"} => loop'.at \in {"none", "exited"}
      BY DEF Owner, Register, Start, StartFails, StopLoop, CloseHandle, CloseEfd,
             UnRegister, Destroy, Exited, ReplyInv, FreshOK
    <2>2. owner' \in {"new", "registered"} => owner \in {"new", "registered"}
      BY DEF Owner, Register, Start, StartFails, StopLoop, CloseHandle, CloseEfd,
             UnRegister, Destroy
    <2>3. \A c \in Conns : client[c] = "idle" => InHand(c)' = <<>>
      BY <1>3 DEF ReplyInv, FreshOK
    <2> QED
      BY <1>2, <2>1, <2>2, <2>3 DEF ReplyInv, FreshOK
  <1>5. ASSUME NEW c \in Conns PROVE OrderOK(c)'
    BY <1>2, <1>3, Dropped DEF ReplyInv
  <1>6. ASSUME NEW c \in Conns, Roomy(c)' PROVE AllThere(c)'
    <2>1. owner' # "stopped" /\ owner' # "new" /\ client[c] = "connected"
      BY <1>2, <1>6 DEF Roomy, Callback
    <2>2. owner \notin {"new", "stopped"}
      BY <2>1, <1>2 DEF Owner, Register, Start, StartFails, StopLoop, CloseHandle, CloseEfd,
             UnRegister, Destroy, ReplyInv, FreshOK
    <2>3. Roomy(c)
      BY <1>2, <1>6, <2>2 DEF Roomy, Callback
    <2> QED
      BY <1>2, <1>3, <2>1, <2>3, Quiet DEF ReplyInv
  <1> QED
    BY <1>1, <1>4, <1>5, <1>6 DEF ReplyInv

\* The first n of the replies o that are on the way go to those the client has.
Moves(g, o, n, g2, o2) ==
  /\ n \in 1..Len(o) /\ Len(g2) = Len(g) + n /\ Len(o2) = Len(o) - n
  /\ \A i \in 1..(Len(g) + n) : g2[i] = IF i <= Len(g) THEN g[i] ELSE o[i - Len(g)]
  /\ \A i \in 1..(Len(o) - n) : o2[i] = o[n + i]

LEMMA Moved ==
  ASSUME NEW g \in Seq(Nat), NEW o \in Seq(Nat), NEW h \in Seq(Nat),
         NEW n, NEW g2, NEW o2, Moves(g, o, n, g2, o2)
  PROVE  /\ InLine(g, o, h) => InLine(g2, o2, h)
         /\ \A r : Complete(g, o, h, r) => Complete(g2, o2, h, r)
  <1> DEFINE k == Len(g)
             m == Len(o)
  <1>1. /\ k \in Nat /\ m \in Nat /\ n \in 1..m /\ Len(h) \in Nat
        /\ Len(g2) = k + n /\ Len(o2) = m - n
    BY LenProperties DEF Moves
  <1>2. \A i \in 1..Len(g2) : \/ i \in 1..k /\ g2[i] = g[i]
                              \/ i - k \in 1..n /\ i - k \in 1..m /\ i > k /\ g2[i] = o[i - k]
    BY <1>1 DEF Moves
  <1>3. \A i \in 1..Len(o2) : n + i \in 1..m /\ n + i > n /\ o2[i] = o[n + i]
    BY <1>1 DEF Moves
  <1>4. ASSUME InLine(g, o, h) PROVE InLine(g2, o2, h)
    <2>1. ASSUME NEW i \in 1..Len(g2), NEW j \in 1..Len(g2), i < j PROVE g2[i] < g2[j]
      <3>1. CASE i \in 1..k /\ g2[i] = g[i]
        <4>1. CASE j \in 1..k /\ g2[j] = g[j]
          BY <1>4, <2>1, <3>1, <4>1 DEF InLine, Increasing
        <4>2. CASE j - k \in 1..m /\ g2[j] = o[j - k]
          BY <1>4, <3>1, <4>2 DEF InLine, Before
        <4> QED
          BY <1>2, <4>1, <4>2
      <3>2. CASE i - k \in 1..m /\ i > k /\ g2[i] = o[i - k]
        <4>1. j - k \in 1..m /\ g2[j] = o[j - k] /\ i - k < j - k
          <5>1. j \notin 1..k /\ i - k < j - k
            BY <1>1, <2>1, <3>2
          <5> QED
            BY <1>2, <5>1
        <4> QED
          BY <1>4, <3>2, <4>1 DEF InLine, Increasing
      <3> QED
        BY <1>2, <3>1, <3>2
    <2>2. ASSUME NEW i \in 1..Len(o2), NEW j \in 1..Len(o2), i < j PROVE o2[i] < o2[j]
      <3>1. n + i < n + j
        BY <1>1, <2>2
      <3> QED
        BY <1>3, <1>4, <3>1 DEF InLine, Increasing
    <2>3. ASSUME NEW i \in 1..Len(g2), NEW j \in 1..Len(o2) PROVE g2[i] < o2[j]
      <3>1. CASE i \in 1..k /\ g2[i] = g[i]
        BY <1>3, <1>4, <3>1 DEF InLine, Before
      <3>2. CASE i - k \in 1..n /\ i - k \in 1..m /\ g2[i] = o[i - k]
        <4>1. i - k < n + j
          BY <1>1, <3>2
        <4> QED
          BY <1>3, <1>4, <3>2, <4>1 DEF InLine, Increasing
      <3> QED
        BY <1>2, <3>1, <3>2
    <2>4. ASSUME NEW j \in 1..Len(h)
          PROVE  /\ \A i \in 1..Len(g2) : g2[i] < h[j]
                 /\ \A i \in 1..Len(o2) : o2[i] < h[j]
      BY <1>2, <1>3, <1>4 DEF InLine, Before
    <2> QED
      BY <1>4, <2>1, <2>2, <2>3, <2>4 DEF InLine, Increasing, Before
  <1>5. ASSUME NEW r, Complete(g, o, h, r) PROVE Complete(g2, o2, h, r)
    <2>1. ASSUME NEW i \in 1..Len(g2) PROVE g2[i] = i
      <3>1. CASE i \in 1..k /\ g2[i] = g[i]
        BY <1>5, <3>1 DEF Complete
      <3>2. CASE i - k \in 1..m /\ g2[i] = o[i - k]
        <4>1. g2[i] = k + (i - k)
          BY <1>5, <3>2 DEF Complete
        <4> QED
          BY <1>1, <4>1
      <3> QED
        BY <1>2, <3>1, <3>2
    <2>2. ASSUME NEW i \in 1..Len(o2) PROVE o2[i] = Len(g2) + i
      <3>1. o2[i] = k + (n + i)
        BY <1>3, <1>5 DEF Complete
      <3> QED
        BY <1>1, <3>1
    <2>3. Len(g2) + Len(o2) = k + m
      BY <1>1
    <2> QED
      BY <1>5, <2>1, <2>2, <2>3 DEF Complete
  <1> QED
    BY <1>4, <1>5

LEMMA ClientReplies ==
  ASSUME ReplyInv, NEW c \in Conns,
         Connect(c) \/ ClientSend(c) \/ ClientLeaves(c) \/ ClientLoop(c)
  PROVE  ReplyInv'
  <1> USE DEF netVars
  <1>1. TypeOK' /\ TypeOK
    BY ClientTypeOK DEF ReplyInv
  <1>2. UNCHANGED <<owner, loop, rcvd>> /\ \A d \in Conns : InHand(d)' = InHand(d)
    BY DEF Connect, ClientSend, ClientLeaves, ClientLoop, ClientWait, ClientRead,
           ClientReadEnd, InHand
  <1>3. \A d \in Conns : d # c => /\ got'[d] = got[d] /\ out'[d] = out[d]
                                  /\ client'[d] = client[d] /\ sent'[d] = sent[d]
    <2>1. CASE Connect(c) \/ ClientSend(c) \/ ClientWait(c) \/ ClientReadEnd(c)
      BY <1>1, <2>1 DEF Connect, ClientSend, ClientWait, ClientReadEnd, TypeOK
    <2>2. CASE ClientLeaves(c)
      BY <1>1, <2>2 DEF ClientLeaves, TypeOK
    <2>3. CASE ClientRead(c)
      BY <1>1, <2>3 DEF ClientRead, TypeOK
    <2> QED
      BY <2>1, <2>2, <2>3 DEF ClientLoop
  <1>4. \A d \in Conns : d # c => OrderOK(d)' /\ (Roomy(d)' => AllThere(d)')
    BY <1>2, <1>3, Quiet DEF ReplyInv, Roomy, Callback
  \* Only Connect makes an idle client something else, once the server listens.
  <1>5. client'[c] # "idle" /\ owner \notin {"new", "registered"}
    <2>1. CASE Connect(c)
      BY <1>1, <2>1 DEF Connect, Listening, TypeOK
    <2>2. CASE ~ Connect(c)
      <3>1. client[c] = "connected" /\ client'[c] # "idle"
        BY <1>1, <2>2 DEF ClientSend, ClientLeaves, ClientLoop, ClientWait, ClientRead,
               ClientReadEnd, TypeOK
      <3> QED
        BY <3>1 DEF ReplyInv, FreshOK
    <2> QED
      BY <2>1, <2>2
  <1>6. FreshOK'
    BY <1>2, <1>3, <1>5 DEF ReplyInv, FreshOK
  <1>7. OrderOK(c)' /\ (Roomy(c)' => AllThere(c)')
    <2>1. CASE Connect(c)
      <3>1. got'[c] = got[c] /\ out'[c] = out[c] /\ client[c] = "idle"
        BY <2>1 DEF Connect
      <3>2. OrderOK(c)'
        BY <1>2, <3>1, Quiet DEF ReplyInv
      <3>3. rcvd[c] = 0 /\ got[c] = <<>> /\ out[c] = <<>> /\ InHand(c) = <<>>
        BY <1>1, <3>1, InHandType DEF ReplyInv, FreshOK, TypeOK
      <3>4. AllThere(c)'
        BY <1>2, <3>1, <3>3 DEF AllThere, Complete
      <3> QED
        BY <3>2, <3>4
    <2>2. CASE ClientSend(c) \/ ClientWait(c) \/ ClientReadEnd(c)
      <3>1. got'[c] = got[c] /\ out'[c] = out[c]
        BY <2>2 DEF ClientSend, ClientWait, ClientReadEnd
      <3>2. Roomy(c)' => Roomy(c)
        BY <1>1, <1>2, <2>2 DEF ClientSend, ClientWait, ClientReadEnd, Roomy, Callback
      <3> QED
        BY <1>2, <3>1, <3>2, Quiet DEF ReplyInv
    <2>3. CASE ClientLeaves(c)
      <3>1. got'[c] = got[c] /\ out'[c] = <<>> /\ client'[c] # "connected"
        BY <1>1, <2>3 DEF ClientLeaves, TypeOK
      <3> QED
        BY <1>2, <3>1, Dropped DEF ReplyInv, Roomy
    <2>4. CASE ClientRead(c)
      <3>1. PICK n \in 1..Len(out[c]) :
                 /\ got' = [got EXCEPT ![c] = @ \o SubSeq(out[c], 1, n)]
                 /\ out' = [out EXCEPT ![c] = SubSeq(@, n + 1, Len(@))]
        BY <2>4 DEF ClientRead
      <3> DEFINE g == got[c]
                 o == out[c]
                 h == InHand(c)
                 k == Len(g)
                 m == Len(o)
      <3>2. /\ g \in Seq(Nat) /\ o \in Seq(Nat) /\ h \in Seq(Nat) /\ n \in 1..m
            /\ k \in Nat /\ m \in Nat /\ Len(h) \in Nat /\ rcvd[c] \in Nat
            /\ \A i \in 1..k : g[i] \in Nat
            /\ \A i \in 1..m : o[i] \in Nat
            /\ \A i \in 1..Len(h) : h[i] \in Nat
        BY <1>1, InHandType, ElementOfSeq
      <3>3. /\ SubSeq(o, 1, n) \in Seq(Nat) /\ Len(SubSeq(o, 1, n)) = n
            /\ \A i \in 1..n : SubSeq(o, 1, n)[i] = o[i]
        BY <3>2, SubSeqProperties
      <3>4. /\ Len(SubSeq(o, n + 1, m)) = m - n
            /\ \A i \in 1..(m - n) : SubSeq(o, n + 1, m)[i] = o[n + i]
        BY <3>2, SubSeqProperties
      <3>5. /\ Len(got'[c]) = k + n
            /\ \A i \in 1..(k + n) : got'[c][i] = IF i <= k THEN g[i] ELSE o[i - k]
        <4>1. got'[c] = g \o SubSeq(o, 1, n)
          BY <1>1, <3>1 DEF TypeOK
        <4>2. /\ Len(g \o SubSeq(o, 1, n)) = k + n
              /\ \A i \in 1..(k + n) : (g \o SubSeq(o, 1, n))[i] =
                   IF i <= k THEN g[i] ELSE SubSeq(o, 1, n)[i - k]
          BY <3>2, <3>3, ConcatProperties
        <4>3. \A i \in 1..(k + n) : ~ (i <= k) => i - k \in 1..n
          BY <3>2
        <4> QED
          BY <3>3, <4>1, <4>2, <4>3
      <3>6. /\ Len(out'[c]) = m - n
            /\ \A i \in 1..(m - n) : out'[c][i] = o[n + i]
        <4>1. out'[c] = SubSeq(o, n + 1, m)
          BY <1>1, <3>1 DEF TypeOK
        <4> QED
          BY <3>4, <4>1
      <3>7. OrderOK(c)
        BY DEF ReplyInv
      <3>8. InHand(c)' = h
        BY <1>2
      <3>9. Moves(g, o, n, got'[c], out'[c])
        BY <3>2, <3>5, <3>6 DEF Moves
      <3>10. OrderOK(c)' /\ (AllThere(c) => AllThere(c)')
        BY <1>2, <3>2, <3>7, <3>8, <3>9, Moved DEF OrderOK, AllThere
      <3>11. Roomy(c)' => Roomy(c)
        BY <1>2, <2>4 DEF ClientRead, Roomy, Callback
      <3> QED
        BY <3>10, <3>11 DEF ReplyInv
    <2> QED
      BY <2>1, <2>2, <2>3, <2>4 DEF ClientLoop
  <1> QED
    BY <1>1, <1>4, <1>6, <1>7 DEF ReplyInv

\* The messages m + 1 to n come after all that were received before.
LEMMA HandFilled ==
  ASSUME NEW m \in Nat, NEW n \in Nat, m < n,
         NEW g \in Seq(1..m), NEW o \in Seq(1..m), InLine(g, o, <<>>), NEW h \in Seq(Nat),
         Len(h) = n - m, \A i \in 1..Len(h) : h[i] = m + i
  PROVE  /\ InLine(g, o, h)
         /\ Complete(g, o, <<>>, m) => Complete(g, o, h, n)
  <1>1. /\ \A i \in 1..Len(g) : g[i] \in 1..m
        /\ \A i \in 1..Len(o) : o[i] \in 1..m
    BY ElementOfSeq
  <1>2. Len(g) \in Nat /\ Len(o) \in Nat /\ Len(h) \in Nat
    BY LenProperties
  <1>3. Increasing(h)
    BY <1>2 DEF Increasing
  <1>4. ASSUME NEW j \in 1..Len(h)
        PROVE  h[j] \in Nat /\ h[j] > m
    BY <1>2
  <1>5. Before(g, h) /\ Before(o, h)
    <2>1. ASSUME NEW i \in 1..Len(g), NEW j \in 1..Len(h) PROVE g[i] < h[j]
      BY <1>1, <1>4
    <2>2. ASSUME NEW i \in 1..Len(o), NEW j \in 1..Len(h) PROVE o[i] < h[j]
      BY <1>1, <1>4
    <2> QED
      BY <2>1, <2>2 DEF Before
  <1>6. ASSUME Complete(g, o, <<>>, m) PROVE Complete(g, o, h, n)
    <2>1. Len(g) + Len(o) = m
      BY <1>2, <1>6 DEF Complete
    <2>2. Len(g) + Len(o) + Len(h) = n
      <3>1. m + (n - m) = n
        OBVIOUS
      <3> QED
        BY <2>1, <3>1
    <2>3. \A i \in 1..Len(h) : h[i] = Len(g) + Len(o) + i
      BY <2>1
    <2> QED
      BY <1>6, <2>2, <2>3 DEF Complete
  <1> QED
    BY <1>3, <1>5, <1>6 DEF InLine

\* The first n of the replies in hand go on their way, the others are dropped.
LEMMA HandEmptied ==
  ASSUME NEW g \in Seq(Nat), NEW o \in Seq(Nat), NEW h \in Seq(Nat), NEW n \in 0..Len(h)
  PROVE  LET o2 == o \o SubSeq(h, 1, n)
         IN  /\ InLine(g, o, h) => InLine(g, o2, <<>>)
             /\ \A r : n = Len(h) /\ Complete(g, o, h, r) => Complete(g, o2, <<>>, r)
  <1> DEFINE o2 == o \o SubSeq(h, 1, n)
             m == Len(o)
  <1>1. m \in Nat /\ Len(h) \in Nat /\ Len(g) \in Nat /\ n \in Nat
    BY LenProperties
  <1>2. /\ SubSeq(h, 1, n) \in Seq(Nat) /\ Len(SubSeq(h, 1, n)) = n
        /\ \A i \in 1..n : SubSeq(h, 1, n)[i] = h[i]
    <2>1. \A i \in 1..n : h[i] \in Nat
      BY <1>1, ElementOfSeq
    <2> QED
      BY <1>1, <2>1, SubSeqProperties
  <1>3. /\ Len(o2) = m + n
        /\ \A i \in 1..(m + n) : o2[i] = IF i <= m THEN o[i] ELSE SubSeq(h, 1, n)[i - m]
    BY <1>2, ConcatProperties
  <1>4. \A i \in 1..Len(o2) : \/ i \in 1..m /\ o2[i] = o[i]
                              \/ i - m \in 1..n /\ i - m \in 1..Len(h) /\ i > m /\ o2[i] = h[i - m]
    BY <1>1, <1>2, <1>3
  <1> HIDE DEF o2
  <1>5. ASSUME InLine(g, o, h) PROVE InLine(g, o2, <<>>)
    <2>1. ASSUME NEW i \in 1..Len(o2), NEW j \in 1..Len(o2), i < j PROVE o2[i] < o2[j]
      <3>1. CASE i \in 1..m /\ o2[i] = o[i]
        <4>1. CASE j \in 1..m /\ o2[j] = o[j]
          BY <1>5, <2>1, <3>1, <4>1 DEF InLine, Increasing
        <4>2. CASE j - m \in 1..Len(h) /\ o2[j] = h[j - m]
          BY <1>5, <3>1, <4>2 DEF InLine, Before
        <4> QED
          BY <1>4, <4>1, <4>2
      <3>2. CASE i - m \in 1..Len(h) /\ i > m /\ o2[i] = h[i - m]
        <4>1. j \notin 1..m /\ i - m < j - m
          BY <1>1, <1>3, <2>1, <3>2
        <4>2. j - m \in 1..Len(h) /\ o2[j] = h[j - m]
          BY <1>4, <4>1
        <4> QED
          BY <1>5, <3>2, <4>1, <4>2 DEF InLine, Increasing
      <3> QED
        BY <1>4, <3>1, <3>2
    <2>2. Before(g, o2)
      BY <1>4, <1>5 DEF InLine, Before
    <2>3. Increasing(<<>>) /\ Before(g, <<>>) /\ Before(o2, <<>>)
      BY DEF Increasing, Before
    <2>4. Increasing(o2)
      BY <2>1 DEF Increasing
    <2> QED
      BY <1>5, <2>2, <2>3, <2>4 DEF InLine
  <1>6. ASSUME NEW r, n = Len(h), Complete(g, o, h, r) PROVE Complete(g, o2, <<>>, r)
    <2>1. ASSUME NEW i \in 1..Len(o2) PROVE o2[i] = Len(g) + i
      <3>1. CASE i \in 1..m /\ o2[i] = o[i]
        BY <1>6, <3>1 DEF Complete
      <3>2. CASE i - m \in 1..Len(h) /\ o2[i] = h[i - m]
        <4>1. o2[i] = Len(g) + m + (i - m)
          BY <1>6, <3>2 DEF Complete
        <4> QED
          BY <1>1, <1>3, <4>1
      <3> QED
        BY <1>4, <3>1, <3>2
    <2>2. Len(g) + Len(o2) + 0 = r
      BY <1>1, <1>3, <1>6 DEF Complete
    <2> QED
      BY <1>6, <2>1, <2>2 DEF Complete
  <1> QED
    BY <1>5, <1>6 DEF o2

LEMMA Fits ==
  ASSUME NEW g \in Nat, NEW o \in Nat, NEW h \in Nat, NEW r \in Nat, NEW n \in Nat,
         NEW max \in Nat, NEW room \in Nat,
         g + o + h = r, r <= n, n <= max, max <= room
  PROVE  h <= room - o
  OBVIOUS

LEMMA LoopReplies == ReplyInv /\ EpollLoop => ReplyInv'
  <1> SUFFICES ASSUME ReplyInv, EpollLoop PROVE ReplyInv'
    OBVIOUS
  <1> USE DEF netVars
  <1>1. TypeOK' /\ TypeOK
    BY LoopTypeOK DEF ReplyInv
  <1>2. UNCHANGED <<owner, sent, got>>
    BY DEF EpollLoop, TestFlag, EpollWait, HandleIn, AcceptDone, Hangup, AcceptOne, Read,
           ReadNothing, ReadEnd, SendData, SendFails, CallNothing
  <1>3. owner \notin {"new", "registered"}
    <2>1. CASE TestFlag \/ EpollWait \/ AcceptDone
      BY <2>1 DEF TestFlag, EpollWait, AcceptDone, Test, Wait, ReplyInv, FreshOK
    <2>2. ASSUME NEW e \in Conns \cup {Listen}, HandleIn(e) PROVE loop.at = "loop"
      BY <2>2 DEF HandleIn, Loop
    <2>3. ASSUME NEW d \in Conns, Hangup(d) \/ AcceptOne(d) PROVE loop.at \in {"loop", "accept"}
      BY <2>3 DEF Hangup, AcceptOne, Loop
    <2>4. ASSUME NEW d \in Conns, Read(d) \/ ReadNothing(d) \/ ReadEnd(d) PROVE loop.at = "read"
      BY <2>4 DEF Read, ReadNothing, ReadEnd, At
    <2>5. ASSUME NEW d \in Conns, SendData(d) \/ SendFails(d) \/ CallNothing(d)
          PROVE  loop.at = "send"
      BY <2>5 DEF SendData, SendFails, CallNothing
    <2> QED
      BY <2>1, <2>2, <2>3, <2>4, <2>5 DEF EpollLoop, ReplyInv, FreshOK
  \* What is left to show, for each connection.
  <1>4. SUFFICES ASSUME NEW c \in Conns
                 PROVE  /\ client'[c] = "idle" => /\ client[c] = "idle" /\ out'[c] = out[c]
                                                  /\ InHand(c)' = InHand(c)
                        /\ OrderOK(c)'
                        /\ Roomy(c)' => AllThere(c)'
    BY <1>1, <1>2, <1>3 DEF ReplyInv, FreshOK
  <1>5. OrderOK(c) /\ (Roomy(c) => AllThere(c))
    BY DEF ReplyInv
  <1>6. CASE TestFlag \/ EpollWait \/ AcceptDone \/ (\E e \in Conns \cup {Listen} : HandleIn(e))
             \/ (\E d \in Conns : Hangup(d) \/ AcceptOne(d) \/ ReadNothing(d) \/ ReadEnd(d))
    <2>1. UNCHANGED <<rcvd, out, client>>
      BY <1>6 DEF TestFlag, EpollWait, AcceptDone, HandleIn, Hangup, AcceptOne, ReadNothing, ReadEnd
    <2>2. loop.at # "send" /\ loop'.at # "send"
      <3>1. CASE TestFlag \/ EpollWait \/ AcceptDone
        BY <3>1 DEF TestFlag, EpollWait, AcceptDone, Test, Wait, Loop, Ended, Return
      <3>2. ASSUME NEW e \in Conns \cup {Listen}, HandleIn(e)
            PROVE  loop.at # "send" /\ loop'.at # "send"
        BY <3>2 DEF HandleIn, Loop, At
      <3>3. ASSUME NEW d \in Conns, Hangup(d) \/ AcceptOne(d)
            PROVE  loop.at # "send" /\ loop'.at # "send"
        BY <3>3 DEF Hangup, AcceptOne, Return, Test, Loop
      <3>4. ASSUME NEW d \in Conns, ReadNothing(d) \/ ReadEnd(d)
            PROVE  loop.at # "send" /\ loop'.at # "send"
        BY <3>4 DEF ReadNothing, ReadEnd, Return, Test, Loop, At
      <3> QED
        BY <1>6, <3>1, <3>2, <3>3, <3>4
    <2>3. InHand(c) = <<>> /\ InHand(c)' = <<>>
      BY <2>1, <2>2 DEF InHand
    <2>4. Roomy(c)' => Roomy(c)
      BY <1>2, <2>1 DEF Roomy, Callback
    <2> QED
      BY <1>2, <1>5, <2>1, <2>3, <2>4, Quiet
  <1>7. ASSUME NEW d \in Conns, Read(d) PROVE
             /\ client' = client /\ out' = out
             /\ client[c] = "idle" => InHand(c)' = InHand(c)
             /\ OrderOK(c)'
             /\ Roomy(c)' => AllThere(c)'
    <2>1. PICK n \in (rcvd[d] + 1)..sent[d] :
               /\ rcvd' = [rcvd EXCEPT ![d] = n]
               /\ loop' = IF Callback THEN Send(d, [i \in 1..(n - rcvd[d]) |-> rcvd[d] + i])
                          ELSE loop
      BY <1>7 DEF Read
    <2>2. InHand(c) = <<>> /\ client' = client /\ out' = out /\ got' = got
      BY <1>7 DEF Read, InHand, At
    <2>3. Roomy(c)' => Roomy(c) /\ Callback
      BY <1>2, <2>2 DEF Roomy, Callback
    <2>4. CASE c # d \/ ~ Callback
      <3>1. InHand(c)' = <<>>
        BY <1>7, <2>1, <2>4 DEF Read, InHand, At, Send
      <3>2. OrderOK(c)'
        BY <1>5, <2>2, <3>1 DEF OrderOK
      <3>3. c # d => rcvd'[c] = rcvd[c]
        BY <1>1, <2>1 DEF TypeOK
      <3> QED
        BY <1>5, <2>2, <2>3, <2>4, <3>1, <3>2, <3>3 DEF AllThere
    <2>5. CASE c = d /\ Callback
      <3> DEFINE m == rcvd[c]
                 h == [i \in 1..(n - m) |-> m + i]
      <3>1. m \in Nat /\ n \in Nat /\ m < n /\ sent[c] \in Nat /\ sent[c] # 0 /\ rcvd'[c] = n
        <4>1. rcvd[c] \in Nat /\ sent[c] \in Nat /\ rcvd'[c] = n
          BY <1>1, <2>1, <2>5 DEF TypeOK
        <4>2. n \in (m + 1)..sent[c]
          BY <2>5
        <4> QED
          BY <4>1, <4>2
      <3>2. InHand(c)' = h
        BY <2>1, <2>5 DEF InHand, Send
      <3>3. h \in Seq(Nat) /\ Len(h) = n - m /\ \A i \in 1..Len(h) : h[i] = m + i
        BY <3>1, FreshMessages
      <3>4. got[c] \in Seq(1..m) /\ out[c] \in Seq(1..m)
        BY <1>1 DEF TypeOK
      <3>5. InLine(got[c], out[c], <<>>)
        BY <1>5, <2>2 DEF OrderOK
      <3> HIDE DEF h
      <3>6. /\ InLine(got[c], out[c], h)
            /\ Complete(got[c], out[c], <<>>, m) => Complete(got[c], out[c], h, n)
        BY <3>1, <3>3, <3>4, <3>5, HandFilled
      <3>7. client[c] # "idle"
        BY <3>1 DEF ReplyInv, FreshOK
      <3> QED
        BY <1>5, <2>2, <2>3, <3>1, <3>2, <3>6, <3>7 DEF OrderOK, AllThere
    <2> QED
      BY <2>4, <2>5
  <1>8. ASSUME NEW d \in Conns, SendData(d) PROVE
             /\ client' = client
             /\ client[c] = "idle" => out'[c] = out[c] /\ InHand(c)' = InHand(c)
             /\ OrderOK(c)'
             /\ Roomy(c)' => AllThere(c)'
    <2> DEFINE n == Min({Len(loop.msg), Room[d] - Len(out[d])})
    <2>1. /\ client' = client /\ got' = got /\ rcvd' = rcvd
          /\ loop.at = "send" /\ loop.conn = d /\ client[d] = "connected"
          /\ out' = [out EXCEPT ![d] = @ \o SubSeq(loop.msg, 1, n)]
          /\ loop' = At("read", d)
      BY <1>8 DEF SendData
    <2>2. InHand(c)' = <<>>
      BY <2>1 DEF InHand, At
    <2>3. Roomy(c)' => Roomy(c)
      BY <1>2, <2>1 DEF Roomy, Callback
    <2>4. CASE c # d
      <3>1. InHand(c) = <<>> /\ out'[c] = out[c]
        BY <1>1, <2>1, <2>4 DEF InHand, TypeOK
      <3> QED
        BY <1>5, <2>1, <2>2, <2>3, <3>1, Quiet
    <2>5. CASE c = d
      <3>1. InHand(c) = loop.msg
        BY <2>1, <2>5 DEF InHand
      <3>2. /\ loop.msg \in Seq(Nat) /\ got[c] \in Seq(Nat) /\ out[c] \in Seq(Nat)
            /\ Len(loop.msg) \in Nat /\ Len(out[c]) \in Nat /\ Len(got[c]) \in Nat
            /\ rcvd[c] \in Nat /\ sent[c] \in Nat
        BY <1>1, <3>1, InHandType
      <3>3. /\ Room[c] \in Nat /\ MaxReq[c] \in Nat /\ Len(out[c]) <= Room[c]
            /\ rcvd[c] <= sent[c] /\ sent[c] <= MaxReq[c]
        BY <1>1, EpollTcpAssumption DEF TypeOK
      <3>4. Room[c] - Len(out[c]) \in Nat
        BY <3>2, <3>3
      <3>5. /\ n \in 0..Len(loop.msg)
            /\ n \in {Len(loop.msg), Room[c] - Len(out[c])} /\ n <= Room[c] - Len(out[c])
        <4>1. n = Min({Len(loop.msg), Room[c] - Len(out[c])})
          BY <2>5
        <4> HIDE DEF n
        <4>2. /\ n \in Nat /\ n <= Len(loop.msg) /\ n <= Room[c] - Len(out[c])
              /\ n \in {Len(loop.msg), Room[c] - Len(out[c])}
          BY <3>2, <3>4, <4>1, MinOfTwo
        <4> QED
          BY <3>2, <4>2
      <3>6. ASSUME Roomy(c) PROVE n = Len(loop.msg)
        <4>1. Len(got[c]) + Len(out[c]) + Len(loop.msg) = rcvd[c]
          BY <1>5, <3>1, <3>6 DEF AllThere, Complete
        <4>2. MaxReq[c] <= Room[c]
          BY <3>6 DEF Roomy
        <4>3. Len(loop.msg) <= Room[c] - Len(out[c])
          BY <3>2, <3>3, <4>1, <4>2, Fits
        <4> HIDE DEF n
        <4> QED
          BY <3>2, <3>3, <3>5, <4>3
      <3>7. out'[c] = out[c] \o SubSeq(loop.msg, 1, n)
        BY <1>1, <2>1, <2>5 DEF TypeOK
      <3> HIDE DEF n
      <3>8. /\ InLine(got[c], out[c], loop.msg) => InLine(got[c], out'[c], <<>>)
            /\ n = Len(loop.msg) /\ Complete(got[c], out[c], loop.msg, rcvd[c])
                 => Complete(got[c], out'[c], <<>>, rcvd[c])
        BY <3>2, <3>5, <3>7, HandEmptied
      <3>9. OrderOK(c)'
        BY <1>5, <2>1, <2>2, <3>1, <3>8 DEF OrderOK
      <3>10. Roomy(c) => AllThere(c)'
        BY <1>5, <2>1, <2>2, <3>1, <3>6, <3>8 DEF AllThere
      <3> QED
        BY <2>1, <2>3, <2>5, <3>9, <3>10
    <2> QED
      BY <2>4, <2>5
  <1>9. ASSUME NEW d \in Conns, SendFails(d) \/ CallNothing(d) PROVE
             /\ client'[c] = "idle" => client[c] = "idle" /\ InHand(c)' = InHand(c)
             /\ out' = out
             /\ OrderOK(c)'
             /\ Roomy(c)' => AllThere(c)'
    <2>1. /\ rcvd' = rcvd /\ out' = out
          /\ loop.at = "send" /\ loop.conn = d /\ loop'.at # "send"
      BY <1>9 DEF SendFails, CallNothing, At, Exited
    <2>2. InHand(c)' = <<>>
      BY <2>1 DEF InHand
    <2>3. OrderOK(c)'
      BY <1>2, <1>5, <2>1, <2>2, Dropped
    <2>4. CASE c # d
      <3>1. InHand(c) = <<>>
        BY <2>1, <2>4 DEF InHand
      <3>2. client'[c] = client[c]
        BY <1>1, <1>9, <2>4 DEF SendFails, CallNothing, TypeOK
      <3> QED
        BY <1>2, <1>5, <2>1, <2>2, <2>3, <3>1, <3>2, Quiet DEF Roomy, Callback
    <2>5. CASE c = d
      <3>1. ~ Roomy(c)'
        BY <1>1, <1>2, <1>9, <2>5 DEF SendFails, CallNothing, Roomy, Callback, TypeOK
      <3>2. client'[c] = "idle" => client[c] = "idle"
        BY <1>1, <1>9, <2>5 DEF SendFails, CallNothing, TypeOK
      <3>3. client[c] = "idle" => InHand(c) = <<>>
        BY DEF ReplyInv, FreshOK
      <3> QED
        BY <2>1, <2>2, <2>3, <3>1, <3>2, <3>3
    <2> QED
      BY <2>4, <2>5
  <1> QED
    BY <1>6, <1>7, <1>8, <1>9 DEF EpollLoop

LEMMA NextReplies == ReplyInv /\ [Next]_vars => ReplyInv'
  <1> SUFFICES ASSUME ReplyInv, [Next]_vars PROVE ReplyInv'
    OBVIOUS
  <1>1. CASE UNCHANGED vars
    BY <1>1, NextTypeOK DEF vars, netVars, ReplyInv, FreshOK, OrderOK, AllThere, InHand, Roomy, Callback
  <1> QED
    BY <1>1, OwnerReplies, ClientReplies, LoopReplies DEF Next

\* Replies is the three sequences one after the other.
LEMMA InLineReplies ==
  ASSUME NEW g \in Seq(Nat), NEW o \in Seq(Nat), NEW h \in Seq(Nat)
  PROVE  LET s == g \o o \o h
         IN  /\ Len(s) = Len(g) + Len(o) + Len(h) /\ s \in Seq(Nat)
             /\ \A i \in 1..Len(s) :
                  \/ i \in 1..Len(g) /\ s[i] = g[i]
                  \/ i > Len(g) /\ i - Len(g) \in 1..Len(o) /\ s[i] = o[i - Len(g)]
                  \/ /\ i > Len(g) + Len(o) /\ i - (Len(g) + Len(o)) \in 1..Len(h)
                     /\ s[i] = h[i - (Len(g) + Len(o))]
  <1> DEFINE t == g \o o
             s == t \o h
             k == Len(g)
             m == Len(g) + Len(o)
  <1>1. k \in Nat /\ Len(o) \in Nat /\ Len(h) \in Nat /\ m \in Nat
    BY LenProperties
  <1>2. /\ t \in Seq(Nat) /\ Len(t) = m
        /\ \A i \in 1..m : t[i] = IF i <= k THEN g[i] ELSE o[i - k]
    BY ConcatProperties
  <1> HIDE DEF t
  <1>3. /\ s \in Seq(Nat) /\ Len(s) = m + Len(h)
        /\ \A i \in 1..(m + Len(h)) : s[i] = IF i <= m THEN t[i] ELSE h[i - m]
    <2>1. /\ s \in Seq(Nat) /\ Len(s) = Len(t) + Len(h)
          /\ \A i \in 1..(Len(t) + Len(h)) : s[i] = IF i <= Len(t) THEN t[i] ELSE h[i - Len(t)]
      <3>1. t \in Seq(Nat)
        BY <1>2
      <3> QED
        BY <3>1, ConcatProperties
    <2> QED
      BY <1>2, <2>1
  <1> HIDE DEF s
  <1>4. ASSUME NEW i \in 1..Len(s)
        PROVE  \/ i \in 1..k /\ s[i] = g[i]
               \/ i > k /\ i - k \in 1..Len(o) /\ s[i] = o[i - k]
               \/ i > m /\ i - m \in 1..Len(h) /\ s[i] = h[i - m]
    <2>0. m = k + Len(o) /\ i \in 1..(m + Len(h))
      BY <1>3
    <2> HIDE DEF k, m
    <2>1. CASE i <= k
      <3>1. i \in 1..m /\ i \in 1..k
        BY <1>1, <2>0, <2>1
      <3> QED
        BY <1>2, <1>3, <2>0, <2>1, <3>1
    <2>2. CASE i > k /\ i <= m
      <3>1. i \in 1..m /\ i - k \in 1..Len(o) /\ ~ (i <= k)
        BY <1>1, <2>0, <2>2
      <3> QED
        BY <1>2, <1>3, <2>0, <2>2, <3>1
    <2>3. CASE i > m
      BY <1>1, <1>3, <2>3
    <2> QED
      BY <1>1, <2>1, <2>2, <2>3
  <1> QED
    BY <1>3, <1>4 DEF s, t

LEMMA RepliesOrdered ==
  ASSUME NEW g \in Seq(Nat), NEW o \in Seq(Nat), NEW h \in Seq(Nat)
  PROVE  /\ InLine(g, o, h) => Increasing(g \o o \o h)
         /\ \A n : Complete(g, o, h, n) => g \o o \o h = [i \in 1..n |-> i]
  <1> DEFINE s == g \o o \o h
             k == Len(g)
             m == Len(g) + Len(o)
  <1>1. /\ Len(s) = m + Len(h) /\ s \in Seq(Nat)
        /\ \A i \in 1..Len(s) : \/ i \in 1..k /\ s[i] = g[i]
                                \/ i > k /\ i - k \in 1..Len(o) /\ s[i] = o[i - k]
                                \/ i > m /\ i - m \in 1..Len(h) /\ s[i] = h[i - m]
    BY InLineReplies
  <1>2. k \in Nat /\ Len(o) \in Nat /\ Len(h) \in Nat /\ m = k + Len(o)
    BY LenProperties
  <1> HIDE DEF s, k, m
  <1>3. ASSUME InLine(g, o, h), NEW i \in 1..Len(s), NEW j \in 1..Len(s), i < j
        PROVE  s[i] < s[j]
    <2> USE <1>2, <1>3 DEF InLine, k
    <2>1. CASE i \in 1..k /\ s[i] = g[i]
      <3>1. CASE j \in 1..k /\ s[j] = g[j]
        BY <2>1, <3>1 DEF Increasing
      <3>2. CASE j - k \in 1..Len(o) /\ s[j] = o[j - k]
        BY <2>1, <3>2 DEF Before
      <3>3. CASE j - m \in 1..Len(h) /\ s[j] = h[j - m]
        BY <2>1, <3>3 DEF Before
      <3> QED
        BY <1>1, <3>1, <3>2, <3>3
    <2>2. CASE i > k /\ i - k \in 1..Len(o) /\ s[i] = o[i - k]
      <3>1. j \notin 1..k /\ i - k < j - k
        BY <2>2
      <3>2. CASE j - k \in 1..Len(o) /\ s[j] = o[j - k]
        BY <2>2, <3>1, <3>2 DEF Increasing
      <3>3. CASE j - m \in 1..Len(h) /\ s[j] = h[j - m]
        BY <2>2, <3>3 DEF Before
      <3> QED
        BY <1>1, <3>1, <3>2, <3>3
    <2>3. CASE i > m /\ i - m \in 1..Len(h) /\ s[i] = h[i - m]
      <3>1. j \notin 1..k /\ ~ (j - k \in 1..Len(o)) /\ i - m < j - m
        BY <2>3
      <3>2. j - m \in 1..Len(h) /\ s[j] = h[j - m]
        BY <1>1, <3>1
      <3> QED
        BY <2>3, <3>1, <3>2 DEF Increasing
    <2> QED
      BY <1>1, <2>1, <2>2, <2>3
  <1>4. ASSUME NEW n, Complete(g, o, h, n) PROVE s = [i \in 1..n |-> i]
    <2>1. Len(s) = n
      BY <1>1, <1>2, <1>4 DEF Complete, k
    <2>2. ASSUME NEW i \in 1..Len(s) PROVE s[i] = i
      <3>1. CASE i \in 1..k /\ s[i] = g[i]
        BY <1>4, <3>1 DEF Complete, k
      <3>2. CASE i - k \in 1..Len(o) /\ s[i] = o[i - k]
        <4>1. s[i] = k + (i - k)
          BY <1>4, <3>2 DEF Complete, k
        <4> QED
          BY <1>1, <1>2, <4>1
      <3>3. CASE i - m \in 1..Len(h) /\ s[i] = h[i - m]
        <4>1. s[i] = m + (i - m)
          BY <1>2, <1>4, <3>3 DEF Complete, k
        <4> QED
          BY <1>1, <1>2, <4>1
      <3> QED
        BY <1>1, <3>1, <3>2, <3>3
    <2>3. DOMAIN s = 1..n /\ s = [i \in DOMAIN s |-> s[i]]
      BY <1>1, <2>1, LenProperties
    <2> QED
      BY <2>1, <2>2, <2>3
  <1> QED
    BY <1>3, <1>4 DEF Increasing, s

THEOREM RepliesInvariant == Spec => []ReplyInv
  BY InitReplies, NextReplies, PTL DEF Spec

\* Whatever is dropped for want of room or because a client left, no reply
\* overtakes another or is sent twice.
THEOREM RepliesInOrder == Spec => []InOrder
  <1>1. ReplyInv => InOrder
    <2> SUFFICES ASSUME ReplyInv, NEW c \in Conns PROVE Increasing(Replies(c))
      BY DEF InOrder, Increasing
    <2>1. TypeOK /\ InLine(got[c], out[c], InHand(c))
      BY DEF ReplyInv, OrderOK
    <2> QED
      BY <2>1, InHandType, RepliesOrdered DEF Replies
  <1> QED
    BY <1>1, RepliesInvariant, PTL

\* SendData writes once, and drops what does not fit; a connection whose buffers
\* hold all its replies loses none.
THEOREM NoneLostWithRoom == Spec => []NothingLost
  <1>1. ReplyInv => NothingLost
    <2> SUFFICES ASSUME ReplyInv, NEW c \in Conns, Roomy(c)
                 PROVE  Replies(c) = [i \in 1..rcvd[c] |-> i]
      BY DEF NothingLost, Roomy
    <2>1. TypeOK /\ Complete(got[c], out[c], InHand(c), rcvd[c])
      BY DEF ReplyInv, AllThere
    <2> QED
      BY <2>1, InHandType, RepliesOrdered DEF Replies
  <1> QED
    BY <1>1, RepliesInvariant, PTL
=============================================================================
