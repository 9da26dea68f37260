--------------------------- MODULE IoServersProofs --------------------------
(***************************************************************************)
(* Proofs about the echo servers of one thread, for any clients and any    *)
(* messages: those that leave their sockets blocking never wait in accept  *)
(* or recv, no client ends a server by leaving, and each of them           *)
(* implements EchoService.                                                 *)
(***************************************************************************)
EXTENDS IoServers, FiniteSetTheorems, SequenceTheorems, WellFoundedInduction, TLAPS

-----------------------------------------------------------------------------
(* Connections and descriptors.                                            *)

Queued(c) == \E i \in 1..Len(backlog) : backlog[i] = c
Named(c)  == \E f \in Numbers : file[f] = c

TypeInv ==
  /\ kind \in AllKinds
  /\ client \in [Clients -> {"idle", "connected", "gone", "reset"}]
  /\ sent \in [Clients -> Nat] /\ rcvd \in [Clients -> Nat]
  /\ backlog \in Seq(Clients)
  /\ file \in [Numbers -> Clients \cup {Free}]
  /\ fds \subseteq {Listen} \cup Open /\ todo \subseteq {Listen} \cup Open
  /\ ready \subseteq {Listen} \cup Numbers
  /\ at.at \in {"handle", "send"} => at.fd \in Open

\* A client has one connection, which is in the backlog or has one descriptor.
Distinct ==
  /\ \A f, g \in Numbers : file[f] = file[g] /\ file[f] # Free => f = g
  /\ \A i, j \in 1..Len(backlog) : backlog[i] = backlog[j] => i = j
  /\ \A c \in Clients : Queued(c) => ~ Named(c) /\ client[c] # "idle"
  /\ \A c \in Clients : Named(c) => client[c] # "idle"

FileInv == TypeInv /\ Distinct /\ NeverBlocks

LEMMA NumbersType == Listen \notin Numbers /\ Free \notin Clients
  BY IoServersAssumption DEF Listen, Numbers, Free

LEMMA OpenType ==
  /\ file' = file => Open' = Open
  /\ Open \subseteq Numbers
  /\ TypeInv => \A f \in Open : file[f] \in Clients /\ file[f] # Free
  BY NumbersType DEF Open, TypeInv

LEMMA InitFile == Init => FileInv
  BY IoServersAssumption, EmptySeq, NumbersType
  DEF Init, FileInv, TypeInv, Distinct, NeverBlocks, Queued, Named, Wait, Open

LEMMA EdgeType ==
  ASSUME FileInv, NEW s \in SUBSET ({Listen} \cup Numbers), Edge(s)
  PROVE  ready' \subseteq {Listen} \cup Numbers
  BY DEF FileInv, TypeInv, Edge

LEMMA ClientsFile ==
  ASSUME FileInv, NEW c \in Clients, Connect(c) \/ ClientSend(c) \/ ClientLeaves(c)
  PROVE  FileInv'
  <1>1. /\ UNCHANGED <<kind, rcvd, file, fds, todo, at>>
        /\ \A d \in Clients : Left(d) => Left(d)'
        /\ \A d \in Clients : client'[d] = "idle" => client[d] = "idle"
        /\ ready' \subseteq {Listen} \cup Numbers
        /\ Open' = Open
    <2>1. {Listen} \in SUBSET ({Listen} \cup Numbers) /\ Fd(c) \in SUBSET ({Listen} \cup Numbers)
      BY DEF Fd, Open
    <2>2. ready' \subseteq {Listen} \cup Numbers
      BY <2>1, EdgeType DEF Connect, ClientSend, ClientLeaves
    <2> QED
      BY <2>2 DEF FileInv, TypeInv, Connect, ClientSend, ClientLeaves, Left, Open
  <1>2. CASE Connect(c)
    <2>1. /\ backlog' = Append(backlog, c) /\ client'[c] = "connected"
          /\ ~ Queued(c) /\ ~ Named(c) /\ sent' = sent
      BY <1>2 DEF FileInv, TypeInv, Distinct, Connect
    <2>2. /\ backlog' \in Seq(Clients) /\ backlog' # <<>> /\ Len(backlog) \in Nat
          /\ Len(backlog') = Len(backlog) + 1
          /\ \A i \in 1..Len(backlog) : backlog'[i] = backlog[i]
          /\ backlog'[Len(backlog) + 1] = c
          /\ \A i \in 1..Len(backlog') : i \in 1..Len(backlog) \/ i = Len(backlog) + 1
      BY <2>1, AppendProperties DEF FileInv, TypeInv
    <2>3. TypeInv'
      BY <1>1, <1>2, <2>1, <2>2 DEF FileInv, TypeInv, Connect
    <2>4. Distinct'
      <3>1. \A d \in Clients : (Queued(d)' => Queued(d) \/ d = c) /\ Named(d)' = Named(d)
        BY <1>1, <2>2 DEF Queued, Named
      <3>2. \A i, j \in 1..Len(backlog') : backlog'[i] = backlog'[j] => i = j
        BY <2>1, <2>2 DEF FileInv, Distinct, Queued
      <3> QED
        BY <1>1, <2>1, <3>1, <3>2 DEF FileInv, Distinct
    <2>5. NeverBlocks'
      BY <1>1, <2>1, <2>2, OpenType DEF FileInv, TypeInv, NeverBlocks, Readable, Data
    <2> QED
      BY <2>3, <2>4, <2>5 DEF FileInv
  <1>3. CASE ClientSend(c) \/ ClientLeaves(c)
    <2>1. backlog' = backlog /\ \A d \in Clients : sent'[d] \in Nat /\ sent'[d] >= sent[d]
      BY <1>3 DEF FileInv, TypeInv, ClientSend, ClientLeaves
    <2>2. TypeInv'
      BY <1>1, <1>3, <2>1 DEF FileInv, TypeInv, ClientSend, ClientLeaves
    <2>3. Distinct'
      BY <1>1, <2>1 DEF FileInv, Distinct, Queued, Named
    <2>4. \A f \in {Listen} \cup Numbers : Readable(f) => Readable(f)'
      BY <1>1, <2>1 DEF FileInv, TypeInv, Readable, Data
    <2> QED
      BY <1>1, <2>2, <2>3, <2>4, OpenType DEF FileInv, TypeInv, NeverBlocks
  <1> QED
    BY <1>2, <1>3

\* What is reported to the programs whose sockets block is readable.
LEMMA ReportsReadable ==
  ASSUME FileInv
  PROVE  /\ Reports \subseteq {Listen} \cup Open
         /\ kind \in {"select", "epoll_lt", "reactor"} => \A f \in Reports : Readable(f)
  <1>1. kind \in AllKinds /\ fds \subseteq {Listen} \cup Open /\ ready \subseteq {Listen} \cup Numbers
    BY DEF FileInv, TypeInv
  <1>2. CASE kind \in {"blocking", "nonblocking", "epoll_et"}
    BY <1>1, <1>2 DEF Reports, BlockingReports, NonblockingReports, EdgeReports, Readable, Open
  <1>3. CASE kind = "select"
    BY <1>1, <1>3 DEF Reports, SelectReports
  <1>4. CASE kind \in {"epoll_lt", "reactor"}
    BY <1>1, <1>4 DEF Reports, LevelReports
  <1> QED
    BY <1>1, <1>2, <1>3, <1>4 DEF AllKinds

\* A step that leaves the connections alone: the descriptors still to be taken
\* are fewer, or those of which the wait has told.
LEMMA FileKept ==
  ASSUME FileInv, TypeInv', UNCHANGED <<kind, file, backlog, sent>>,
         \A c \in Clients : Left(c) => Left(c)',
         \A c \in Clients : client'[c] = "idle" => client[c] = "idle",
         \A f \in todo' : Readable(f) \/ f \in todo
                          \/ kind \notin {"select", "epoll_lt", "reactor"},
         \A f \in todo' : f # Listen /\ file[f] # Free => rcvd'[file[f]] = rcvd[file[f]]
  PROVE  FileInv'
  <1>1. Distinct'
    <2>1. \A c \in Clients : (Queued(c)' <=> Queued(c)) /\ (Named(c)' <=> Named(c))
      BY DEF Queued, Named
    <2> QED
      BY <2>1 DEF FileInv, Distinct
  <1>2. ASSUME NEW f \in todo', Readable(f)
        PROVE  Readable(f)'
    <2>1. CASE f = Listen
      BY <1>2, <2>1 DEF Readable
    <2>2. CASE f # Listen
      <3>1. f \in Numbers /\ file[f] \in Clients /\ file[f] # Free
        BY <1>2, <2>2, OpenType DEF FileInv, TypeInv, Open
      <3>2. /\ file'[f] = file[f] /\ sent'[file[f]] = sent[file[f]] /\ rcvd'[file[f]] = rcvd[file[f]]
            /\ Left(file[f]) => Left(file[f])'
        BY <2>2, <3>1
      <3> QED
        BY <1>2, <2>2, <3>1, <3>2 DEF Readable, Data
    <2> QED
      BY <2>1, <2>2
  <1>3. NeverBlocks'
    BY <1>2 DEF FileInv, NeverBlocks
  <1> QED
    BY <1>1, <1>3 DEF FileInv

LEMMA ServerFile ==
  ASSUME FileInv, Server
  PROVE  FileInv'
  <1>1. TypeInv /\ Listen \notin Numbers
    BY NumbersType DEF FileInv
  <1>2. CASE StartPass
    <2>1. TypeInv'
      BY <1>1, <1>2, ReportsReadable, OpenType DEF StartPass, TypeInv, clientVars, Pass
    <2> QED
      BY <1>2, <2>1, ReportsReadable, FileKept DEF StartPass, clientVars, Left
  <1>3. CASE AcceptNothing
    <2>1. TypeInv'
      BY <1>1, <1>3, OpenType DEF AcceptNothing, TypeInv, clientVars, Return, Wait, Pass
    <2> QED
      BY <1>3, <2>1, FileKept DEF AcceptNothing, clientVars, Left
  <1>4. ASSUME NEW f \in Numbers, Recv(f)
        PROVE  FileInv'
    <2>1. /\ file[f] \in Clients /\ file[f] # Free
          /\ rcvd' = [rcvd EXCEPT ![file[f]] = @ + 1]
          /\ todo' = todo \ {f}
          /\ at' = Send(f, <<file[f], rcvd[file[f]] + 1>>)
          /\ UNCHANGED <<kind, clientVars, file, fds, ready>> /\ f \in Open /\ Open' = Open
      <3>1. f \in Open
        BY <1>1, <1>4 DEF Recv, Turn, Handle, TypeInv, Pass
      <3> QED
        BY <1>1, <1>4, <3>1, OpenType DEF Recv
    <2>2. TypeInv'
      BY <1>1, <2>1 DEF TypeInv, clientVars, Send
    <2>3. \A g \in todo' : g # Listen /\ file[g] # Free => rcvd'[file[g]] = rcvd[file[g]]
      BY <1>1, <2>1, OpenType DEF FileInv, TypeInv, Distinct
    <2> QED
      BY <2>1, <2>2, <2>3, FileKept DEF clientVars, Left
  <1>5. ASSUME NEW f \in Numbers, RecvNothing(f)
        PROVE  FileInv'
    <2>1. /\ todo' = todo \ {f} /\ at' \in {Wait, Pass}
          /\ UNCHANGED <<kind, clientVars, rcvd, file, fds, ready>>
      BY <1>5 DEF RecvNothing, Return
    <2>2. TypeInv'
      BY <1>1, <2>1, OpenType DEF TypeInv, clientVars, Wait, Pass
    <2> QED
      BY <2>1, <2>2, FileKept DEF clientVars, Left
  <1>6. ASSUME NEW f \in Numbers, Reply(f) \/ ReplyToGone(f) \/ ReplyFails(f)
        PROVE  FileInv'
    <2>1. /\ f \in Open /\ Open' = Open /\ file[f] \in Clients
          /\ at' \in {Wait, Pass, Exited, Handle(f)}
          /\ UNCHANGED <<kind, sent, backlog, rcvd, file, fds, todo>>
      BY <1>1, <1>6, OpenType DEF Reply, ReplyToGone, ReplyFails, Return, TypeInv, clientVars
    <2>2. /\ client' \in [Clients -> {"idle", "connected", "gone", "reset"}]
          /\ \A c \in Clients : Left(c) => Left(c)'
          /\ \A c \in Clients : client'[c] = "idle" => client[c] = "idle"
      BY <1>1, <1>6, <2>1 DEF Reply, ReplyToGone, ReplyFails, TypeInv, clientVars, Left
    <2>3. ready' \subseteq {Listen} \cup Numbers
      BY <1>1, <1>6, EdgeType DEF Reply, ReplyToGone, ReplyFails, TypeInv
    <2>4. TypeInv'
      BY <1>1, <2>1, <2>2, <2>3 DEF TypeInv, Wait, Pass, Exited, Handle
    <2> QED
      BY <2>1, <2>2, <2>4, FileKept
  <1>7. ASSUME NEW f \in Numbers, RecvEnd(f)
        PROVE  FileInv'
    <2>1. /\ todo' = todo \ {f} /\ fds' = fds \ {f} /\ ready' = ready \ {f}
          /\ at' \in {Wait, Pass}
          /\ file' = [file EXCEPT ![f] = Free]
          /\ UNCHANGED <<kind, client, sent, backlog, rcvd>>
      BY <1>7 DEF RecvEnd, RemoveFd, Return, clientVars
    <2>2. /\ file'[f] = Free /\ \A g \in Numbers : g # f => file'[g] = file[g]
          /\ Open' = Open \ {f}
      BY <1>1, <2>1 DEF Open, TypeInv
    <2>3. TypeInv'
      BY <1>1, <2>1, <2>2 DEF TypeInv, Wait, Pass
    <2>4. Distinct'
      <3>1. \A c \in Clients : (Queued(c)' <=> Queued(c)) /\ (Named(c)' => Named(c))
        BY <2>1, <2>2, NumbersType DEF Queued, Named
      <3> QED
        BY <2>1, <2>2, <3>1 DEF FileInv, Distinct
    <2>5. NeverBlocks'
      BY <1>1, <2>1, <2>2 DEF FileInv, TypeInv, Open, NeverBlocks, Readable, Data, Left
    <2> QED
      BY <2>3, <2>4, <2>5 DEF FileInv
  <1>8. CASE Accept
    <2>1. PICK f \in Numbers \ Open :
            /\ file' = [file EXCEPT ![f] = Head(backlog)]
            /\ fds' = fds \cup {f}
            /\ Edge(IF Data(Head(backlog)) \/ Left(Head(backlog)) THEN {f} ELSE {})
            /\ todo' = (todo \ {Listen}) \cup (IF kind = "nonblocking" THEN {f} ELSE {})
      BY <1>8 DEF Accept, AddFd
    <2> DEFINE c == Head(backlog)
    <2>2. /\ backlog # <<>> /\ backlog' = Tail(backlog) /\ at' \in {Wait, Pass}
          /\ UNCHANGED <<kind, client, sent, rcvd>>
      BY <1>8 DEF Accept, Return
    <2>3. /\ c \in Clients /\ c = backlog[1] /\ Len(backlog) \in Nat /\ Len(backlog) >= 1
          /\ backlog' \in Seq(Clients) /\ Len(backlog') = Len(backlog) - 1
          /\ \A i \in 1..Len(backlog') : backlog'[i] = backlog[i + 1]
      BY <1>1, <2>2, HeadTailProperties DEF TypeInv
    <2>4. /\ f \in Numbers /\ file[f] = Free /\ file'[f] = c /\ c # Free
          /\ \A g \in Numbers : g # f => file'[g] = file[g]
          /\ Open' = Open \cup {f}
      BY <1>1, <2>1, <2>3, NumbersType DEF Open, TypeInv
    <2>5. TypeInv'
      <3>1. ready' \subseteq {Listen} \cup Numbers
        BY <2>1, EdgeType
      <3>2. file' \in [Numbers -> Clients \cup {Free}]
        BY <1>1, <2>1, <2>3 DEF TypeInv
      <3> HIDE DEF c
      <3> QED
        BY <1>1, <2>1, <2>2, <2>3, <2>4, <3>1, <3>2 DEF TypeInv, Wait, Pass
    <2>6. Distinct'
      <3>1. Queued(c) /\ ~ Named(c)
        BY <2>3 DEF FileInv, Distinct, Queued
      <3>2. \A i \in 1..Len(backlog') : i + 1 \in 1..Len(backlog) /\ i + 1 # 1
        BY <2>3
      <3>3. \A d \in Clients : Queued(d)' => Queued(d) /\ d # c
        BY <2>3, <3>2 DEF FileInv, Distinct, Queued
      <3>4. \A d \in Clients : Named(d)' => Named(d) \/ d = c
        BY <2>4 DEF Named
      <3>5. \A i, j \in 1..Len(backlog') : backlog'[i] = backlog'[j] => i = j
        BY <2>3, <3>2 DEF FileInv, Distinct
      <3>6. \A g \in Numbers : file[g] # c
        BY <3>1 DEF Named
      <3>7. \A g, h \in Numbers : file'[g] = file'[h] /\ file'[g] # Free => g = h
        BY <2>4, <3>6 DEF FileInv, Distinct
      <3>8. client[c] # "idle"
        BY <2>3, <3>1 DEF FileInv, Distinct
      <3> HIDE DEF c
      <3> QED
        BY <2>2, <2>3, <3>1, <3>3, <3>4, <3>5, <3>7, <3>8 DEF FileInv, Distinct
    <2>7. NeverBlocks'
      <3>1. kind \in {"select", "epoll_lt", "reactor"} => todo' = todo \ {Listen}
        BY <2>1
      <3>2. \A g \in Open : g # f
        BY <2>1
      <3> QED
        BY <1>1, <2>2, <2>4, <3>1, <3>2
        DEF FileInv, TypeInv, Open, NeverBlocks, Readable, Data, Left
    <2> QED
      BY <2>5, <2>6, <2>7 DEF FileInv
  <1> QED
    BY <1>2, <1>3, <1>4, <1>5, <1>6, <1>7, <1>8 DEF Server

LEMMA NextFile == FileInv /\ [Next]_vars => FileInv'
  <1>1. ASSUME FileInv, UNCHANGED vars
        PROVE  FileInv'
    <2>1. UNCHANGED <<kind, client, sent, backlog, rcvd, file, fds, ready, todo, at>>
      BY <1>1 DEF vars, clientVars
    <2>2. TypeInv'
      BY <1>1, <2>1, OpenType DEF FileInv, TypeInv
    <2> QED
      BY <1>1, <2>1, <2>2, FileKept DEF Left
  <1> QED
    BY <1>1, ClientsFile, ServerFile DEF Next

\* NeverBlocks, for any clients: what select or level-triggered epoll reported
\* can still be accepted or read when its turn comes.  (send may wait for room.)
THEOREM NeverWaitsInCall == Spec => []NeverBlocks
  <1>1. FileInv => NeverBlocks
    BY DEF FileInv
  <1> QED
    BY <1>1, InitFile, NextFile, PTL DEF Spec

-----------------------------------------------------------------------------
(* No client ends a server by leaving.                                     *)

Replies(c, n) == {c} \X (1..n)

LEMMA RepliesCount ==
  ASSUME NEW c, NEW n \in Nat
  PROVE  Cardinality(Replies(c, n)) = n
  <1>1. IsFiniteSet({c}) /\ Cardinality({c}) = 1
    BY FS_Singleton
  <1>2. IsFiniteSet(1..n) /\ Cardinality(1..n) = n
    <2>1. IsFiniteSet(1..n) /\ Cardinality(1..n) = IF 1 > n THEN 0 ELSE n - 1 + 1
      BY FS_Interval
    <2> QED
      BY <2>1
  <1>3. Cardinality({c} \X (1..n)) = 1 * n
    BY <1>1, <1>2, FS_Product
  <1> QED
    BY <1>3 DEF Replies

\* Where clients wait for each reply, n replies have come, and at most one more
\* message was sent; after a reset there is nothing left to receive.
InTurn(c, n) ==
  /\ got[c] = Replies(c, n)
  /\ n <= rcvd[c] /\ rcvd[c] <= sent[c] /\ sent[c] <= n + 1
  /\ client[c] = "reset" => sent[c] = rcvd[c]

\* The reply in the server's hands is the one its client waits for.
ReplyInTurn ==
  at.at = "send" =>
    LET c == file[at.fd]
    IN  at.msg = <<c, rcvd[c]>> /\ client[c] # "reset" /\ got[c] = Replies(c, rcvd[c] - 1) /\ rcvd[c] >= 1

AliveInv ==
  /\ got \in [Clients -> SUBSET (Clients \X Nat)]
  /\ at.at = "send" => at.msg \in Clients \X Nat
  /\ WaitsForReply => ReplyInTurn /\ \A c \in Clients : \E n \in Nat : InTurn(c, n)
  /\ Survives

LEMMA InTurnCount ==
  ASSUME NEW c, NEW n \in Nat, InTurn(c, n)
  PROVE  Cardinality(got[c]) = n
  BY RepliesCount DEF InTurn

LEMMA InitAlive == Init => AliveInv
  <1> SUFFICES ASSUME Init PROVE AliveInv
    OBVIOUS
  <1>1. \A c \in Clients : InTurn(c, 0)
    BY DEF Init, InTurn, Replies
  <1>2. got \in [Clients -> SUBSET (Clients \X Nat)] /\ ReplyInTurn /\ Survives /\ at.at # "send"
    BY DEF Init, ReplyInTurn, Survives, Wait, Exited
  <1> QED
    BY <1>1, <1>2 DEF AliveInv

LEMMA ClientsAlive ==
  ASSUME FileInv, AliveInv, NEW c \in Clients, Connect(c) \/ ClientSend(c) \/ ClientLeaves(c)
  PROVE  AliveInv'
  <1>1. UNCHANGED <<kind, got, rcvd, file, at>> /\ WaitsForReply' = WaitsForReply
    BY DEF Connect, ClientSend, ClientLeaves, WaitsForReply
  <1>2. /\ client \in [Clients -> {"idle", "connected", "gone", "reset"}]
        /\ sent \in [Clients -> Nat] /\ rcvd \in [Clients -> Nat]
        /\ at.at = "send" => file[at.fd] \in Clients
    BY OpenType DEF FileInv, TypeInv
  <1>3. ASSUME WaitsForReply, NEW d \in Clients, NEW n \in Nat, InTurn(d, n)
        PROVE  /\ InTurn(d, n)'
               /\ client'[d] = "reset" => client[d] = "reset" \/ n = rcvd[d]
    <2>1. Cardinality(got[d]) = n /\ sent[d] \in Nat /\ rcvd[d] \in Nat
      BY <1>2, <1>3, InTurnCount
    <2>2. CASE Connect(c)
      BY <1>1, <1>2, <1>3, <2>2 DEF Connect, InTurn
    <2>3. CASE ClientSend(c)
      BY <1>1, <1>2, <1>3, <2>1, <2>3 DEF ClientSend, InTurn
    <2>4. CASE ClientLeaves(c)
      BY <1>1, <1>2, <1>3, <2>1, <2>4 DEF ClientLeaves, UnreadReply, InTurn
    <2> QED
      BY <2>2, <2>3, <2>4
  <1>4. ASSUME WaitsForReply, at.at = "send"
        PROVE  client'[file[at.fd]] # "reset"
    <2> DEFINE d == file[at.fd]
    <2>1. d \in Clients /\ rcvd[d] \in Nat /\ rcvd[d] >= 1
      BY <1>2, <1>4 DEF AliveInv, ReplyInTurn
    <2>2. PICK n \in Nat : InTurn(d, n)
      BY <1>4, <2>1 DEF AliveInv
    <2>3. Cardinality(got[d]) = n /\ Cardinality(got[d]) = rcvd[d] - 1
      BY <1>4, <2>1, <2>2, InTurnCount, RepliesCount DEF AliveInv, ReplyInTurn
    <2>4. client[d] # "reset"
      BY <1>4 DEF AliveInv, ReplyInTurn
    <2> QED
      BY <1>3, <1>4, <2>1, <2>2, <2>3, <2>4
  <1>5. WaitsForReply => ReplyInTurn'
    BY <1>1, <1>4 DEF AliveInv, ReplyInTurn
  <1> QED
    BY <1>1, <1>3, <1>5 DEF AliveInv, Survives

\* A step of the server with no reply in its hands after it.
LEMMA NothingInHand ==
  ASSUME AliveInv, UNCHANGED <<kind, client, sent, got, rcvd>>, at'.at # "send", at' # Exited
  PROVE  AliveInv'
  <1>1. \A c \in Clients, n \in Nat : InTurn(c, n) => InTurn(c, n)'
    BY DEF InTurn
  <1> QED
    BY <1>1 DEF AliveInv, ReplyInTurn, Survives, WaitsForReply

LEMMA ReturnPlace ==
  /\ Return.at # "send" /\ Return # Exited
  /\ Return'.at # "send" /\ Return' # Exited
  BY DEF Return, Wait, Pass, Exited

\* The reply in hand answers the last message of its client.
LEMMA LastReply ==
  ASSUME FileInv, AliveInv, WaitsForReply, at.at = "send"
  PROVE  LET c == file[at.fd]
         IN  /\ c \in Clients /\ rcvd[c] \in Nat \ {0}
             /\ at.msg = <<c, rcvd[c]>> /\ client[c] # "reset"
             /\ InTurn(c, rcvd[c] - 1) /\ sent[c] = rcvd[c]
  <1> DEFINE c == file[at.fd]
  <1>1. c \in Clients /\ rcvd[c] \in Nat /\ sent[c] \in Nat
    BY OpenType DEF FileInv, TypeInv
  <1>2. /\ rcvd[c] >= 1 /\ at.msg = <<c, rcvd[c]>> /\ client[c] # "reset"
        /\ got[c] = Replies(c, rcvd[c] - 1)
    BY DEF AliveInv, ReplyInTurn
  <1>3. PICK n \in Nat : InTurn(c, n)
    BY <1>1 DEF AliveInv
  <1>4. Cardinality(got[c]) = n
    BY <1>3, InTurnCount
  <1>5. rcvd[c] - 1 \in Nat /\ Cardinality(Replies(c, rcvd[c] - 1)) = rcvd[c] - 1
    <2>1. rcvd[c] - 1 \in Nat
      BY <1>1, <1>2
    <2> QED
      BY <2>1, RepliesCount
  <1>6. n = rcvd[c] - 1
    BY <1>2, <1>4, <1>5
  <1>7. sent[c] = rcvd[c]
    <2>1. rcvd[c] <= sent[c] /\ sent[c] <= n + 1
      BY <1>3 DEF InTurn
    <2> QED
      BY <1>1, <1>6, <2>1
  <1> QED
    BY <1>1, <1>2, <1>3, <1>6, <1>7

LEMMA ServerAlive == FileInv /\ AliveInv /\ Server => AliveInv'
  <1> SUFFICES ASSUME FileInv, AliveInv, Server PROVE AliveInv'
    OBVIOUS
  <1>1. CASE StartPass
    BY <1>1, NothingInHand DEF StartPass, clientVars, Pass, Exited
  <1>2. CASE Accept
    BY <1>2, NothingInHand, ReturnPlace DEF Accept
  <1>3. CASE AcceptNothing
    BY <1>3, NothingInHand, ReturnPlace DEF AcceptNothing, clientVars
  <1>4. CASE \E f \in Numbers : RecvNothing(f) \/ RecvEnd(f)
    BY <1>4, NothingInHand, ReturnPlace DEF RecvNothing, RecvEnd, clientVars
  <1>5. ASSUME NEW f \in Numbers, Recv(f)
        PROVE  AliveInv'
    <2> DEFINE c == file[f]
    <2>1. /\ UNCHANGED <<kind, client, sent, got, file>>
          /\ sent[c] > rcvd[c]
          /\ rcvd' = [rcvd EXCEPT ![c] = @ + 1]
          /\ at' = Send(f, <<c, rcvd[c] + 1>>)
      BY <1>5 DEF Recv, Data, clientVars
    <2>2. c \in Clients
      BY <1>5, OpenType DEF FileInv, TypeInv, Recv, Turn, Handle, Open, Listen, Numbers
    <2>3. /\ rcvd[c] \in Nat /\ sent[c] \in Nat
          /\ rcvd'[c] = rcvd[c] + 1
          /\ \A d \in Clients : d # c => rcvd'[d] = rcvd[d]
      BY <2>1, <2>2 DEF FileInv, TypeInv
    <2>4. at'.at = "send" /\ at'.fd = f /\ at'.msg = <<c, rcvd[c] + 1>> /\ at' # Exited
      BY <2>1 DEF Send, Exited
    <2>5. ASSUME WaitsForReply
          PROVE  ReplyInTurn' /\ \A d \in Clients : \E n \in Nat : InTurn(d, n)'
      <3>1. PICK n \in Nat : InTurn(c, n)
        BY <2>2, <2>5 DEF AliveInv
      <3>2. n = rcvd[c] /\ sent[c] = n + 1 /\ client[c] # "reset" /\ got[c] = Replies(c, n)
        <4>1. n <= rcvd[c] /\ sent[c] <= n + 1 /\ got[c] = Replies(c, n)
              /\ (client[c] = "reset" => sent[c] = rcvd[c])
          BY <3>1 DEF InTurn
        <4> QED
          BY <2>1, <2>3, <4>1
      <3>3. InTurn(c, n)'
        BY <2>1, <2>3, <3>2 DEF InTurn
      <3>4. ReplyInTurn'
        <4>1. rcvd'[c] = n + 1 /\ rcvd'[c] - 1 = n /\ rcvd'[c] >= 1
          BY <2>3, <3>2
        <4>2. file'[at'.fd] = c /\ client'[c] # "reset" /\ got'[c] = Replies(c, rcvd'[c] - 1)
              /\ at'.msg = <<c, rcvd'[c]>>
          BY <2>1, <2>3, <2>4, <3>2, <4>1
        <4> HIDE DEF c
        <4> QED
          BY <4>1, <4>2 DEF ReplyInTurn
      <3>5. \A d \in Clients, k \in Nat : d # c /\ InTurn(d, k) => InTurn(d, k)'
        BY <2>1, <2>3 DEF InTurn
      <3> QED
        BY <2>1, <2>5, <3>3, <3>4, <3>5 DEF AliveInv
    <2>6. at'.msg \in Clients \X Nat /\ got' \in [Clients -> SUBSET (Clients \X Nat)]
      BY <2>1, <2>2, <2>3, <2>4 DEF AliveInv
    <2>7. WaitsForReply' => WaitsForReply
      BY <2>1 DEF WaitsForReply
    <2> HIDE DEF c
    <2> QED
      BY <2>4, <2>5, <2>6, <2>7 DEF AliveInv, Survives
  <1>6. ASSUME NEW f \in Numbers, Reply(f)
        PROVE  AliveInv'
    <2> DEFINE c == file[f]
    <2>1. /\ UNCHANGED <<kind, client, sent, rcvd, file>>
          /\ got' = [got EXCEPT ![c] = @ \cup {at.msg}]
          /\ at.at = "send" /\ at.fd = f /\ client[c] = "connected"
      BY <1>6 DEF Reply
    <2>2. at'.at # "send" /\ at' # Exited
      BY <1>6, ReturnPlace DEF Reply, Handle, Exited
    <2>3. c \in Clients
      BY <2>1, OpenType DEF FileInv, TypeInv
    <2>4. /\ got' \in [Clients -> SUBSET (Clients \X Nat)]
          /\ got'[c] = got[c] \cup {at.msg}
          /\ \A d \in Clients : d # c => got'[d] = got[d]
      BY <2>1, <2>3 DEF AliveInv
    <2>5. ASSUME WaitsForReply
          PROVE  \A d \in Clients : \E n \in Nat : InTurn(d, n)'
      <3>1. /\ rcvd[c] \in Nat \ {0} /\ at.msg = <<c, rcvd[c]>>
            /\ InTurn(c, rcvd[c] - 1) /\ sent[c] = rcvd[c]
        BY <2>1, <2>5, LastReply
      <3>2. got'[c] = Replies(c, rcvd[c])
        <4>1. got[c] = {c} \X (1..(rcvd[c] - 1))
          BY <3>1 DEF InTurn, Replies
        <4>2. 1..rcvd[c] = (1..(rcvd[c] - 1)) \cup {rcvd[c]}
          BY <3>1
        <4> HIDE DEF c
        <4> QED
          BY <2>4, <3>1, <4>1, <4>2 DEF Replies
      <3>3. InTurn(c, rcvd[c])'
        BY <2>1, <3>1, <3>2 DEF InTurn
      <3>4. \A d \in Clients, k \in Nat : d # c /\ InTurn(d, k) => InTurn(d, k)'
        BY <2>1, <2>4 DEF InTurn
      <3> QED
        BY <2>1, <2>5, <3>1, <3>3, <3>4 DEF AliveInv
    <2>6. WaitsForReply' => WaitsForReply
      BY <2>1 DEF WaitsForReply
    <2> HIDE DEF c
    <2> QED
      BY <2>2, <2>4, <2>5, <2>6 DEF AliveInv, ReplyInTurn, Survives
  <1>7. ASSUME NEW f \in Numbers, ReplyToGone(f)
        PROVE  AliveInv'
    <2> DEFINE c == file[f]
    <2>1. /\ UNCHANGED <<kind, sent, got, rcvd>>
          /\ client' = [client EXCEPT ![c] = "reset"]
          /\ at.at = "send" /\ at.fd = f
      BY <1>7 DEF ReplyToGone
    <2>2. at'.at # "send" /\ at' # Exited
      BY <1>7, ReturnPlace DEF ReplyToGone, Handle, Exited
    <2>3. \A d \in Clients : d # c => client'[d] = client[d]
      BY <2>1 DEF FileInv, TypeInv
    <2>4. ASSUME WaitsForReply, NEW d \in Clients, NEW n \in Nat, InTurn(d, n)
          PROVE  InTurn(d, n)'
      <3>1. sent[c] = rcvd[c]
        BY <2>1, <2>4, LastReply
      <3> QED
        BY <2>1, <2>3, <2>4, <3>1 DEF InTurn
    <2>5. WaitsForReply' => WaitsForReply
      BY <2>1 DEF WaitsForReply
    <2> QED
      BY <2>1, <2>2, <2>4, <2>5 DEF AliveInv, ReplyInTurn, Survives
  <1>8. ASSUME NEW f \in Numbers, ReplyFails(f)
        PROVE  AliveInv'
    <2>1. /\ UNCHANGED <<kind, client, sent, got, rcvd>>
          /\ at.at = "send" /\ client[file[at.fd]] = "reset"
          /\ at' = IF SigpipeIgnored THEN Return ELSE Exited
      BY <1>8 DEF ReplyFails, clientVars
    <2>2. ~ WaitsForReply
      BY <2>1, LastReply
    <2>3. at'.at # "send" /\ (kind # "nonblocking" => at' # Exited)
      BY <2>1, <2>2, ReturnPlace
      DEF FileInv, TypeInv, AllKinds, WaitsForReply, SigpipeIgnored, Exited
    <2>4. WaitsForReply' => WaitsForReply
      BY <2>1 DEF WaitsForReply
    <2> QED
      BY <2>1, <2>2, <2>3, <2>4 DEF AliveInv, Survives
  <1> QED
    BY <1>1, <1>2, <1>3, <1>4, <1>5, <1>6, <1>7, <1>8 DEF Server

LEMMA NextAlive == FileInv /\ AliveInv /\ [Next]_vars => AliveInv'
  <1>1. ASSUME AliveInv, UNCHANGED vars
        PROVE  AliveInv'
    <2>1. UNCHANGED <<kind, client, sent, got, rcvd, file, at>>
      BY <1>1 DEF vars, clientVars
    <2>2. \A c \in Clients, n \in Nat : InTurn(c, n) => InTurn(c, n)'
      BY <2>1 DEF InTurn
    <2> QED
      BY <1>1, <2>1, <2>2 DEF AliveInv, ReplyInTurn, Survives, WaitsForReply
  <1> QED
    BY <1>1, ClientsAlive, ServerAlive DEF Next

\* Survives, for any clients: nobody ends a server by leaving, because it
\* ignores SIGPIPE or its clients have read every reply but the last.
THEOREM OutlivesClients == Spec => []Survives
  <1>1. Init => FileInv /\ AliveInv
    BY InitFile, InitAlive
  <1>2. FileInv /\ AliveInv /\ [Next]_vars => (FileInv /\ AliveInv)'
    BY NextFile, NextAlive
  <1>3. AliveInv => Survives
    BY DEF AliveInv
  <1> QED
    BY <1>1, <1>2, <1>3, PTL DEF Spec

-----------------------------------------------------------------------------
(* The servers implement EchoService.                                      *)

\* What is received was sent, and what is in hand was received from the
\* connection it goes back to.
MsgInv ==
  /\ \A c \in Clients : rcvd[c] <= sent[c]
  /\ at.at = "send" => at.msg \in {file[at.fd]} \X (1..sent[file[at.fd]])

ServiceStep == [Service!Next]_<<sent, got>>

LEMMA ClientsServed ==
  ASSUME FileInv, AliveInv, MsgInv, NEW c \in Clients,
         Connect(c) \/ ClientSend(c) \/ ClientLeaves(c)
  PROVE  MsgInv' /\ ServiceStep
  <1>1. /\ UNCHANGED <<got, rcvd, file, at>>
        /\ \A d \in Clients : sent'[d] \in Nat /\ sent'[d] >= sent[d] /\ sent[d] \in Nat /\ rcvd[d] \in Nat
    BY DEF FileInv, TypeInv, Connect, ClientSend, ClientLeaves
  <1>2. MsgInv'
    <2>1. \A d \in Clients : rcvd[d] <= sent'[d]
      BY <1>1 DEF MsgInv
    <2>2. ASSUME at.at = "send"
          PROVE  at.msg \in {file[at.fd]} \X (1..sent'[file[at.fd]])
      <3>1. file[at.fd] \in Clients
        BY <2>2, OpenType DEF FileInv, TypeInv
      <3> QED
        BY <1>1, <2>2, <3>1 DEF MsgInv
    <2> QED
      BY <1>1, <2>1, <2>2 DEF MsgInv
  <1>3. ServiceStep
    <2>1. CASE ClientSend(c)
      BY <2>1 DEF ClientSend, ServiceStep, Service!Next, Service!Request
    <2>2. CASE Connect(c) \/ ClientLeaves(c)
      BY <2>2 DEF Connect, ClientLeaves, ServiceStep
    <2> QED
      BY <2>1, <2>2
  <1> QED
    BY <1>2, <1>3

LEMMA ServerServes ==
  ASSUME FileInv, AliveInv, MsgInv, Server
  PROVE  MsgInv' /\ ServiceStep
  <1>1. CASE UNCHANGED <<sent, got, rcvd>> /\ at'.at # "send"
    BY <1>1 DEF MsgInv, ServiceStep
  <1>2. CASE StartPass \/ Accept \/ AcceptNothing
    <2>1. UNCHANGED <<sent, got, rcvd>> /\ at'.at # "send"
      BY <1>2, ReturnPlace DEF StartPass, Accept, AcceptNothing, clientVars, Pass
    <2> QED
      BY <1>1, <2>1
  <1>3. ASSUME NEW f \in Numbers, RecvNothing(f) \/ RecvEnd(f) \/ ReplyToGone(f) \/ ReplyFails(f)
        PROVE  MsgInv' /\ ServiceStep
    <2>1. UNCHANGED <<sent, got, rcvd>> /\ at'.at # "send"
      BY <1>3, ReturnPlace
      DEF RecvNothing, RecvEnd, ReplyToGone, ReplyFails, clientVars, Handle, Exited
    <2> QED
      BY <1>1, <2>1
  <1>4. ASSUME NEW f \in Numbers, Recv(f)
        PROVE  MsgInv' /\ ServiceStep
    <2>1. PICK c : c = file[f]
      OBVIOUS
    <2>2. /\ UNCHANGED <<sent, got, file>>
          /\ sent[c] > rcvd[c]
          /\ rcvd' = [rcvd EXCEPT ![c] = @ + 1]
          /\ at' = Send(f, <<c, rcvd[c] + 1>>)
      BY <1>4, <2>1 DEF Recv, Data, clientVars
    <2>3. c \in Clients
      BY <1>4, <2>1, OpenType DEF FileInv, TypeInv, Recv, Turn, Handle, Open, Listen, Numbers
    <2>4. /\ rcvd[c] + 1 \in 1..sent[c]
          /\ \A d \in Clients : rcvd'[d] <= sent[d]
      BY <2>2, <2>3 DEF FileInv, TypeInv, MsgInv
    <2>5. at'.fd = f /\ at'.msg = <<c, rcvd[c] + 1>>
      BY <2>2 DEF Send
    <2> QED
      BY <2>1, <2>2, <2>4, <2>5 DEF MsgInv, ServiceStep
  <1>5. ASSUME NEW f \in Numbers, Reply(f)
        PROVE  MsgInv' /\ ServiceStep
    <2>1. PICK c : c = file[f]
      OBVIOUS
    <2>2. /\ UNCHANGED <<sent, rcvd>>
          /\ got' = [got EXCEPT ![c] = @ \cup {at.msg}]
          /\ at.at = "send" /\ at.fd = f
          /\ at'.at # "send"
      BY <1>5, <2>1, ReturnPlace DEF Reply, Handle
    <2>3. c \in Clients /\ got \in [Clients -> SUBSET (Clients \X Nat)]
      BY <2>1, <2>2, OpenType DEF FileInv, TypeInv, AliveInv
    <2>4. at.msg \in {c} \X (1..sent[c])
      BY <2>1, <2>2 DEF MsgInv
    <2>5. MsgInv'
      BY <2>2 DEF MsgInv
    <2>6. CASE at.msg \in got[c]
      <3>1. got[c] \cup {at.msg} = got[c]
        BY <2>6
      <3>2. got' = got
        BY <2>2, <2>3, <3>1
      <3> QED
        BY <2>2, <2>5, <3>2 DEF ServiceStep
    <2>7. CASE at.msg \notin got[c]
      <3>1. {at.msg} \in SUBSET (({c} \X (1..sent[c])) \ got[c])
        BY <2>4, <2>7
      <3>2. Service!Reply(c)
        BY <2>2, <3>1 DEF Service!Reply
      <3> QED
        BY <2>3, <2>5, <3>2 DEF ServiceStep, Service!Next
    <2> QED
      BY <2>6, <2>7
  <1> QED
    BY <1>2, <1>3, <1>4, <1>5 DEF Server

\* Echoes, for any clients and messages: every server of one thread gives a
\* client its own messages back and nothing else.
THEOREM ImplementsEchoService == Spec => Echoes
  <1>1. Init => FileInv /\ AliveInv /\ MsgInv /\ Service!Init
    BY InitFile, InitAlive DEF Init, MsgInv, Wait, Service!Init
  <1>2. FileInv /\ AliveInv /\ MsgInv /\ [Next]_vars => (FileInv /\ AliveInv /\ MsgInv)' /\ ServiceStep
    <2>1. ASSUME MsgInv, UNCHANGED vars
          PROVE  MsgInv' /\ ServiceStep
      BY <2>1 DEF vars, clientVars, MsgInv, ServiceStep
    <2>2. FileInv /\ AliveInv /\ MsgInv /\ Next => MsgInv' /\ ServiceStep
      BY ClientsServed, ServerServes DEF Next
    <2> QED
      BY <2>1, <2>2, NextFile, NextAlive
  <1>3. ServiceStep => [Service!Next]_(Service!vars)
    BY DEF ServiceStep, Service!vars
  <1> QED
    BY <1>1, <1>2, <1>3, PTL DEF Spec, Echoes, Service!Spec

-----------------------------------------------------------------------------
(* Types, and what the program and the kernel record of the descriptors.   *)

\* A set of numbers up to n has a maximum: the x for which n - x is least.
LEMMA MaxType ==
  ASSUME NEW n \in Nat, NEW S \in SUBSET (0..n), S # {}
  PROVE  Max(S) \in S
  <1> DEFINE D == {d \in Nat : n - d \in S}
  <1>1. D \subseteq Nat /\ D # {}
    <2>1. PICK x \in S : TRUE
      OBVIOUS
    <2>2. n - x \in Nat /\ n - (n - x) = x
      BY <2>1
    <2> QED
      BY <2>1, <2>2
  <1>2. PICK d \in D : \A e \in D : ~ (<<e, d>> \in OpToRel(<, Nat))
    <2> HIDE DEF D
    <2> QED
      BY <1>1, NatLessThanWellFounded, WFMin
  <1>3. \A e \in D : d <= e
    <2> SUFFICES ASSUME NEW e \in D, ~ (d <= e) PROVE FALSE
      OBVIOUS
    <2>1. e \in Nat /\ d \in Nat /\ e < d
      OBVIOUS
    <2>2. <<e, d>> \in OpToRel(<, Nat)
      BY <2>1 DEF OpToRel
    <2> QED
      BY <1>2, <2>2
  <1>4. \A y \in S : n - d >= y
    <2> SUFFICES ASSUME NEW y \in S PROVE n - d >= y
      OBVIOUS
    <2>1. n - y \in Nat /\ n - (n - y) = y
      OBVIOUS
    <2>2. n - y \in D
      BY <2>1
    <2>3. d <= n - y
      BY <1>3, <2>2
    <2> QED
      BY <2>1, <2>3
  <1>5. n - d \in S
    OBVIOUS
  <1> QED
    BY <1>4, <1>5 DEF Max

LEMMA MaxFdType ==
  ASSUME NEW S \in SUBSET ({Listen} \cup Numbers), S # {}
  PROVE  Max(S) \in {Listen} \cup Numbers
  <1>1. Cardinality(Clients) \in Nat
    BY IoServersAssumption, FS_CardinalityType
  <1>2. PICK n \in Nat : n = Cardinality(Clients) + 1
    BY <1>1
  <1>3. S \in SUBSET (0..n)
    BY <1>1, <1>2 DEF Listen, Numbers
  <1> QED
    BY <1>3, MaxType

RecordInv ==
  /\ kind \in Kinds
  /\ fds = {Listen} \cup Open
  /\ maxfd \in {Listen} \cup Numbers
  /\ ready \subseteq fds
  /\ at \in Places

\* A step that leaves the records alone, but for the ready list.
LEMMA RecordKept ==
  ASSUME RecordInv, UNCHANGED <<kind, file, fds, maxfd>>, at' \in Places, ready' \subseteq fds
  PROVE  RecordInv'
  BY DEF RecordInv, Open

LEMMA ReturnType ==
  /\ Return \in Places /\ Return' \in Places
  /\ \A f \in Numbers : Handle(f) \in Places
  BY DEF Return, Places

LEMMA ClientsRecord ==
  ASSUME RecordInv, NEW c \in Clients, Connect(c) \/ ClientSend(c) \/ ClientLeaves(c)
  PROVE  RecordInv'
  <1>1. UNCHANGED <<kind, file, fds, maxfd, at>>
    BY DEF Connect, ClientSend, ClientLeaves
  <1>2. ready' \subseteq fds
    BY DEF RecordInv, Connect, ClientSend, ClientLeaves, Edge, Fd
  <1> QED
    BY <1>1, <1>2, RecordKept DEF RecordInv

LEMMA ServerRecord ==
  ASSUME FileInv, RecordInv, Server
  PROVE  RecordInv'
  <1>1. CASE StartPass
    BY <1>1, RecordKept DEF StartPass, RecordInv, Places
  <1>2. CASE AcceptNothing
    BY <1>2, RecordKept, ReturnType DEF AcceptNothing, RecordInv
  <1>3. CASE Accept
    <2>1. PICK f \in Numbers \ Open :
            /\ file' = [file EXCEPT ![f] = Head(backlog)]
            /\ AddFd(f)
            /\ Edge(IF Data(Head(backlog)) \/ Left(Head(backlog)) THEN {f} ELSE {})
      BY <1>3 DEF Accept
    <2>2. kind' = kind /\ at' \in Places
      BY <1>3, ReturnType DEF Accept
    <2>3. Head(backlog) \in Clients /\ Head(backlog) # Free
      BY <1>3, NumbersType, HeadTailProperties DEF Accept, FileInv, TypeInv
    <2>4. Open' = Open \cup {f}
      BY <2>1, <2>3 DEF FileInv, TypeInv, Open
    <2>5. fds' = fds \cup {f} /\ ready' \subseteq ready \cup {f}
      BY <2>1 DEF AddFd, Edge
    <2>6. maxfd' \in {Listen} \cup Numbers
      BY <2>1, MaxFdType DEF RecordInv, AddFd
    <2> QED
      BY <2>2, <2>4, <2>5, <2>6 DEF RecordInv
  <1>4. ASSUME NEW f \in Numbers, Recv(f)
        PROVE  RecordInv'
    <2>1. file[f] \in Clients /\ rcvd[file[f]] \in Nat
      BY <1>4, OpenType DEF FileInv, TypeInv, Recv, Turn, Handle, Open, Listen, Numbers
    <2>2. at' \in Places
      BY <1>4, <2>1 DEF Recv, Places
    <2> QED
      BY <1>4, <2>2, RecordKept DEF Recv, RecordInv
  <1>5. ASSUME NEW f \in Numbers, RecvNothing(f) \/ Reply(f) \/ ReplyFails(f)
        PROVE  RecordInv'
    <2>1. at' \in Places
      BY <1>5, ReturnType DEF RecvNothing, Reply, ReplyFails, Places
    <2> QED
      BY <1>5, <2>1, RecordKept DEF RecvNothing, Reply, ReplyFails, RecordInv
  <1>6. ASSUME NEW f \in Numbers, ReplyToGone(f)
        PROVE  RecordInv'
    <2>1. f \in Open /\ at' \in Places
      BY <1>6, ReturnType DEF ReplyToGone, FileInv, TypeInv
    <2>2. ready' \subseteq ready \cup {f}
      BY <1>6 DEF ReplyToGone, Edge
    <2> QED
      BY <1>6, <2>1, <2>2, RecordKept DEF ReplyToGone, RecordInv
  <1>7. ASSUME NEW f \in Numbers, RecvEnd(f)
        PROVE  RecordInv'
    <2>1. /\ kind' = kind /\ at' \in Places
          /\ fds' = fds \ {f} /\ ready' = ready \ {f}
          /\ file' = [file EXCEPT ![f] = Free]
          /\ maxfd' = IF kind = "select" /\ f >= maxfd THEN Max(fds \ {f}) ELSE maxfd
      BY <1>7, ReturnType DEF RecvEnd, RemoveFd
    <2>2. Open' = Open \ {f}
      BY <2>1 DEF FileInv, TypeInv, Open
    <2>3. Listen # f
      BY NumbersType
    <2>4. maxfd' \in {Listen} \cup Numbers
      <3>1. fds \ {f} \in SUBSET ({Listen} \cup Numbers) /\ fds \ {f} # {}
        BY <2>3 DEF RecordInv, Open
      <3> QED
        BY <2>1, <3>1, MaxFdType DEF RecordInv
    <2> QED
      BY <2>1, <2>2, <2>3, <2>4 DEF RecordInv
  <1> QED
    BY <1>1, <1>2, <1>3, <1>4, <1>5, <1>6, <1>7 DEF Server

\* TypeOK, for any clients: among others, the descriptors a program looks after
\* are those that are open, and the ready list names no other.
THEOREM TypeCorrect == Spec => []TypeOK
  <1>1. Init => FileInv /\ AliveInv /\ RecordInv
    <2>1. Init => RecordInv
      BY DEF Init, RecordInv, Open, Places
    <2> QED
      BY <2>1, InitFile, InitAlive
  <1>2. FileInv /\ AliveInv /\ RecordInv /\ [Next]_vars => (FileInv /\ AliveInv /\ RecordInv)'
    <2>1. ASSUME RecordInv, UNCHANGED vars
          PROVE  RecordInv'
      BY <2>1 DEF vars, clientVars, RecordInv, Open
    <2>2. FileInv /\ RecordInv /\ Next => RecordInv'
      BY ClientsRecord, ServerRecord DEF Next
    <2> QED
      BY <2>1, <2>2, NextFile, NextAlive
  <1>3. FileInv /\ AliveInv /\ RecordInv => TypeOK
    BY DEF FileInv, TypeInv, AliveInv, RecordInv, TypeOK
  <1> QED
    BY <1>1, <1>2, <1>3, PTL DEF Spec
=============================================================================
