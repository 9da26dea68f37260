--------------------------- MODULE Reactor3Proofs ---------------------------
(***************************************************************************)
(* Proofs about 3.single_reactor_multi_worker, for any connections,        *)
(* workers, descriptor numbers and size of evs: edge-triggered events with *)
(* one task each strand no input, and however many workers read the same   *)
(* connection, a request is answered at most once.                         *)
(***************************************************************************)
EXTENDS Reactor3, FiniteSetTheorems, SequenceTheorems, TLAPS

-----------------------------------------------------------------------------
(* Types.  The messages in a worker's hands are requests that were sent.    *)

TypeInv == TypeOK /\ \A c \in Conns : sent[c] <= MaxReq[c]

LEMMA InitType == Init => TypeInv
  BY Reactor3Assumption, EmptySeq
  DEF Init, TypeInv, TypeOK, Idle, Resting, Requests, WorkerStates

LEMMA ClientsType ==
  TypeInv /\ (\E c \in Conns : Connect(c) \/ Send(c) \/ Leave(c)) => TypeInv'
  <1> SUFFICES ASSUME TypeInv, NEW c \in Conns, Connect(c) \/ Send(c) \/ Leave(c)
               PROVE  TypeInv'
    OBVIOUS
  <1> USE Reactor3Assumption
      DEF TypeInv, TypeOK, Requests, Idle, Loop, Exited, Resting, Ears, Listen,
          netVars, sockVars, loopVars
  <1>1. CASE Connect(c)
    BY <1>1 DEF Connect
  <1>2. CASE Send(c)
    <2>1. sent[c] < MaxReq[c] /\ sent' = [sent EXCEPT ![c] = sent[c] + 1]
      BY <1>2 DEF Send
    <2>2. sent' \in [Conns -> Nat] /\ \A d \in Conns : sent'[d] <= MaxReq[d]
      BY <2>1
    <2> QED
      BY <1>2, <2>2 DEF Send
  <1>3. CASE Leave(c)
    BY <1>3 DEF Leave
  <1> QED
    BY <1>1, <1>2, <1>3

LEMMA ReactorType == TypeInv /\ Reactor => TypeInv'
  <1> SUFFICES ASSUME TypeInv, Reactor PROVE TypeInv'
    OBVIOUS
  <1> USE Reactor3Assumption
      DEF TypeInv, TypeOK, Requests, Idle, Loop, Exited, Listen, Return,
          netVars, sockVars, loopVars
  <1>1. CASE EpollWait
    BY <1>1 DEF EpollWait
  <1>2. CASE StartAccept \/ AcceptDone
    BY <1>2 DEF StartAccept, AcceptDone
  <1>3. CASE \E f \in Fds : AddTask(f)
    BY <1>3, AppendProperties DEF AddTask
  <1>4. CASE \E f \in Fds : AddFd(f) \/ AddFails(f)
    BY <1>4 DEF AddFd, AddFails
  <1>5. CASE \E c \in Conns : Accept(c)
    BY <1>5 DEF Accept
  <1> QED
    BY <1>1, <1>2, <1>3, <1>4, <1>5 DEF Reactor

Working == {"recv", "send", "del", "close"}

\* A worker that is busy has a descriptor and a message; a step gives it others.
LEMMA BusyState ==
  ASSUME NEW s \in WorkerStates, s.at \in Working
  PROVE  s.fd \in Fds /\ s.msg \subseteq Requests
  <1>1. s # Resting
    BY DEF Resting, Working
  <1>2. s \in [at : Working, fd : Fds, msg : SUBSET Requests]
    BY <1>1 DEF WorkerStates, Working
  <1> QED
    BY <1>2

LEMMA NewState ==
  /\ Resting \in WorkerStates
  /\ \A where \in Working, f \in Fds, msg \in SUBSET Requests : Busy(where, f, msg) \in WorkerStates
  BY DEF WorkerStates, Working, Busy

LEMMA BusyWorker ==
  ASSUME TypeInv, NEW w \in Workers, worker[w].at \in Working
  PROVE  /\ Fd(w) \in Fds
         /\ worker[w].msg \in SUBSET Requests
         /\ Conn(w) # Null => Conn(w) \in Conns
  BY BusyState DEF TypeInv, TypeOK, Fd, Conn

LEMMA NextWork ==
  ASSUME TypeInv, NEW w \in Workers, NEW s \in WorkerStates,
         worker' = [worker EXCEPT ![w] = s]
  PROVE  worker' \in [Workers -> WorkerStates]
  BY DEF TypeInv, TypeOK

LEMMA WorkersType ==
  ASSUME TypeInv, NEW w \in Workers, Worker(w)
  PROVE  TypeInv'
  <1>b. worker[w].at \in Working => /\ Fd(w) \in Fds /\ worker[w].msg \in SUBSET Requests
                                    /\ Conn(w) # Null => Conn(w) \in Conns
    BY BusyWorker
  <1>1. CASE TakeTask(w)
    <2>1. tasks' \in Seq(Fds) /\ Head(tasks) \in Fds
      BY <1>1, HeadTailProperties DEF TakeTask, TypeInv, TypeOK
    <2>2. worker' \in [Workers -> WorkerStates]
      BY <1>1, <2>1, NewState, NextWork DEF TakeTask, Working
    <2> QED
      BY <1>1, <2>1, <2>2 DEF TakeTask, TypeInv, TypeOK, netVars, sockVars, loopVars
  <1>2. CASE Recv(w)
    <2>1. PICK n \in (rcvd[Conn(w)] + 1)..sent[Conn(w)] :
                 /\ rcvd' = [rcvd EXCEPT ![Conn(w)] = n]
                 /\ worker' = [worker EXCEPT ![w] =
                      Busy("send", Fd(w), {Conn(w)} \X ((rcvd[Conn(w)] + 1)..n))]
      BY <1>2 DEF Recv
    <2>2. Conn(w) \in Conns /\ Fd(w) \in Fds
      BY <1>2, <1>b DEF Recv, Doing, Working
    <2>3. /\ rcvd[Conn(w)] \in Nat /\ sent[Conn(w)] \in Nat /\ MaxReq[Conn(w)] \in Nat
          /\ sent[Conn(w)] <= MaxReq[Conn(w)]
      BY <2>2, Reactor3Assumption DEF TypeInv, TypeOK
    <2>4. {Conn(w)} \X ((rcvd[Conn(w)] + 1)..n) \subseteq Requests
      BY <2>2, <2>3 DEF Requests
    <2>5. worker' \in [Workers -> WorkerStates]
      BY <2>1, <2>2, <2>4, NewState, NextWork DEF Working
    <2>6. rcvd' \in [Conns -> Nat]
      BY <2>1, <2>2, <2>3 DEF TypeInv, TypeOK
    <2> QED
      BY <1>2, <2>5, <2>6 DEF Recv, TypeInv, TypeOK, netVars, loopVars
  <1>3. CASE RecvNothing(w) \/ RecvEnd(w)
    <2>1. worker' \in [Workers -> WorkerStates]
      BY <1>3, <1>b, NewState, NextWork DEF RecvNothing, RecvEnd, Doing, Working
    <2> QED
      BY <1>3, <2>1 DEF RecvNothing, RecvEnd, TypeInv, TypeOK, netVars, sockVars, loopVars
  <1>4. CASE SendBack(w)
    <2>1. worker' \in [Workers -> WorkerStates]
      BY <1>4, <1>b, NewState, NextWork DEF SendBack, Doing, Working
    <2>2. got' \in [Conns -> SUBSET Requests]
      BY <1>4, <1>b DEF SendBack, Doing, Working, TypeInv, TypeOK
    <2> QED
      BY <1>4, <2>1, <2>2 DEF SendBack, TypeInv, TypeOK, sockVars, loopVars
  <1>5. CASE SendFails(w)
    <2>1. worker' \in [Workers -> WorkerStates]
      BY <1>5, <1>b, NewState, NextWork DEF SendFails, Doing, Working
    <2>2. reactor' \in {reactor, Exited} /\ ready' \subseteq Fds \cup {Listen}
      BY <1>5 DEF SendFails, Ears, TypeInv, TypeOK
    <2>3. client' \in [Conns -> {"idle", "connected", "gone", "reset"}]
      BY <1>5 DEF SendFails, TypeInv, TypeOK
    <2> QED
      BY <1>5, <2>1, <2>2, <2>3 DEF SendFails, TypeInv, TypeOK, sockVars
  <1>6. CASE Del(w) \/ Close(w)
    <2>1. Fd(w) \in Fds
      BY <1>6, <1>b DEF Del, Close, Doing, Working
    <2>2. worker' \in [Workers -> WorkerStates]
      BY <1>6, <2>1, NewState, NextWork DEF Del, Close, Working
    <2> QED
      BY <1>6, <2>1, <2>2 DEF Del, Close, TypeInv, TypeOK, netVars, loopVars
  <1> QED
    BY <1>1, <1>2, <1>3, <1>4, <1>5, <1>6 DEF Worker

LEMMA NextType == TypeInv /\ [Next]_vars => TypeInv'
  <1>1. TypeInv /\ UNCHANGED vars => TypeInv'
    BY DEF TypeInv, TypeOK, vars, netVars, sockVars, loopVars
  <1> QED
    BY <1>1, ClientsType, ReactorType, WorkersType DEF Next

\* The types hold in every reachable state.
THEOREM TypeCorrect == Spec => []TypeInv
  BY InitType, NextType, PTL DEF Spec

-----------------------------------------------------------------------------
(* No input is stranded.                                                   *)

\* While the reactor waits, evs is empty; and epoll watches no number that
\* names nothing, as close takes a descriptor off its list.
WatchInv == /\ TypeInv
            /\ reactor = Idle => batch = {}
            /\ \A f \in watched : file[f] # Null
            /\ NothingStranded

LEMMA InitWatch == Init => WatchInv
  BY InitType DEF Init, WatchInv, NothingStranded

\* A descriptor in the queue's range is on its way.
Queued(f) == f \in {tasks[i] : i \in 1..Len(tasks)}

LEMMA ClientsWatch ==
  WatchInv /\ (\E c \in Conns : Connect(c) \/ Send(c) \/ Leave(c)) => WatchInv'
  <1> SUFFICES ASSUME WatchInv, NEW c \in Conns, Connect(c) \/ Send(c) \/ Leave(c)
               PROVE  WatchInv'
    OBVIOUS
  <1>1. TypeInv'
    BY ClientsType DEF WatchInv
  <1>2. /\ UNCHANGED <<watched, file, batch, reactor, tasks, worker>>
        /\ ready \subseteq ready'
    BY DEF Connect, Send, Leave, sockVars, loopVars
  <1>3. ASSUME NEW f \in watched, Readable(f)'
        PROVE  Readable(f) \/ f \in ready'
    <2>1. f \in Fds /\ f # Listen /\ file[f] \in Conns
      BY Reactor3Assumption DEF WatchInv, TypeInv, TypeOK, Listen
    <2>2. CASE file[f] = c /\ (Send(c) \/ Leave(c))
      BY <2>2 DEF Send, Leave, Ears
    <2>3. CASE file[f] # c \/ Connect(c)
      BY <1>2, <1>3, <2>1, <2>3 DEF Readable, Ended, Connect, Send, Leave, sockVars,
         WatchInv, TypeInv, TypeOK
    <2> QED
      BY <2>2, <2>3
  <1> QED
    BY <1>1, <1>2, <1>3 DEF WatchInv, NothingStranded, OnItsWay, Fd

LEMMA ReactorWatch == WatchInv /\ Reactor => WatchInv'
  <1> SUFFICES ASSUME WatchInv, Reactor PROVE WatchInv'
    OBVIOUS
  <1>t. TypeInv'
    BY ReactorType DEF WatchInv
  <1>f. watched \subseteq Fds /\ Listen \notin Fds /\ tasks \in Seq(Fds)
    BY Reactor3Assumption DEF WatchInv, TypeInv, TypeOK, Listen
  <1>1. CASE EpollWait
    BY <1>1, <1>t, <1>f DEF EpollWait, WatchInv, NothingStranded, OnItsWay, Readable, Ended, Fd,
       Return, Idle, Loop, netVars, sockVars
  <1>2. CASE StartAccept \/ AcceptDone
    BY <1>2, <1>t, <1>f DEF StartAccept, AcceptDone, WatchInv, NothingStranded, OnItsWay, Readable,
       Ended, Fd, Return, Idle, Loop, netVars, sockVars
  <1>3. CASE \E f \in Fds : AddTask(f)
    <2>1. PICK f \in Fds : AddTask(f)
      BY <1>3
    <2>2. Queued(f)' /\ \A g \in Fds : Queued(g) => Queued(g)'
      BY <1>f, <2>1, AppendProperties DEF AddTask, Queued
    <2>3. \A g \in watched : OnItsWay(g) => OnItsWay(g)'
      BY <1>f, <2>1, <2>2 DEF AddTask, OnItsWay, Queued, Fd
    <2> QED
      BY <1>t, <2>1, <2>3 DEF AddTask, WatchInv, NothingStranded, Readable, Ended, Return, Idle, Loop,
         netVars, sockVars
  <1>4. CASE \E f \in Fds : AddFd(f) \/ AddFails(f)
    BY <1>4, <1>t, <1>f DEF AddFd, AddFails, WatchInv, NothingStranded, OnItsWay, Readable, Ended, Fd,
       Idle, Exited, netVars, sockVars
  <1>5. CASE \E c \in Conns : Accept(c)
    <2>1. PICK c \in Conns, f \in Fds :
                 /\ file[f] = Null /\ file' = [file EXCEPT ![f] = c]
                 /\ reactor' = [at |-> "add", fd |-> f]
                 /\ UNCHANGED <<netVars, rcvd, watched, ready, batch, tasks, worker>>
      BY <1>5 DEF Accept
    <2>2. \A g \in watched : g # f /\ file'[g] = file[g]
      BY <1>f, <2>1 DEF WatchInv, TypeInv, TypeOK
    <2> QED
      BY <1>t, <1>f, <2>1, <2>2 DEF WatchInv, NothingStranded, OnItsWay, Readable, Ended, Fd, Idle, netVars
  <1> QED
    BY <1>1, <1>2, <1>3, <1>4, <1>5 DEF Reactor

\* A worker that keeps or gives up a descriptor with nothing left to read, or
\* that takes it off epoll's list, strands nothing.
LEMMA WorkersWatch ==
  ASSUME WatchInv, NEW w \in Workers, Worker(w)
  PROVE  WatchInv'
  <1>t. TypeInv /\ TypeInv'
    BY WorkersType DEF WatchInv
  <1>f. /\ watched \subseteq Fds /\ Listen \notin Fds /\ tasks \in Seq(Fds)
        /\ worker \in [Workers -> WorkerStates]
        /\ \A f \in watched : file[f] \in Conns
        /\ rcvd \in [Conns -> Nat] /\ sent \in [Conns -> Nat]
    BY Reactor3Assumption DEF WatchInv, TypeInv, TypeOK, Listen
  <1>o. \A v \in Workers : v # w => worker'[v] = worker[v]
    BY <1>f DEF Worker, TakeTask, Recv, RecvNothing, RecvEnd, SendBack, SendFails, Del, Close
  <1>1. CASE TakeTask(w)
    <2>1. worker'[w].fd = Head(tasks) /\ worker'[w] # Resting
      BY <1>1, <1>f DEF TakeTask, Busy, Resting
    <2>2. \A g \in Fds : Queued(g) => Queued(g)' \/ g = Head(tasks)
      <3>1. /\ tasks' = Tail(tasks) /\ tasks # <<>> /\ Len(Tail(tasks)) = Len(tasks) - 1
            /\ \A i \in 1..Len(tasks) - 1 : Tail(tasks)[i] = tasks[i + 1]
            /\ Head(tasks) = tasks[1]
        BY <1>1, <1>f DEF TakeTask
      <3>2. ASSUME NEW i \in 2..Len(tasks)
            PROVE  \E j \in 1..Len(tasks') : tasks'[j] = tasks[i]
        <4>1. /\ Len(tasks) \in Nat /\ i - 1 \in 1..Len(tasks) - 1
              /\ (i - 1) + 1 = i
          BY <1>f
        <4> QED
          BY <3>1, <4>1
      <3>3. \A i \in 1..Len(tasks) : i = 1 \/ i \in 2..Len(tasks)
        BY <1>f
      <3> QED
        BY <3>1, <3>2, <3>3 DEF Queued
    <2>3. \A g \in watched : OnItsWay(g) => OnItsWay(g)'
      BY <1>1, <1>f, <1>o, <2>1, <2>2 DEF TakeTask, OnItsWay, Queued, Fd, loopVars
    <2> QED
      BY <1>1, <1>t, <2>3 DEF TakeTask, WatchInv, NothingStranded, Readable, Ended, netVars, sockVars,
         loopVars
  <1>2. CASE Recv(w) \/ RecvEnd(w) \/ SendBack(w) \/ SendFails(w)
    <2>1. /\ worker'[w].fd = worker[w].fd /\ worker'[w] # Resting
          /\ UNCHANGED <<watched, file, batch, tasks, sent>>
          /\ ready \subseteq ready'
          /\ reactor' \in {reactor, Exited}
      BY <1>2, <1>f DEF Recv, RecvEnd, SendBack, SendFails, Busy, Resting, Fd, netVars, sockVars,
         loopVars
    <2>2. \A c \in Conns : Ended(c)' = Ended(c) /\ rcvd[c] <= rcvd'[c]
      <3>1. CASE Recv(w)
        <4>1. Conn(w) \in Conns
          BY <3>1, <1>t, BusyWorker DEF Recv, Doing, Working
        <4> QED
          BY <3>1, <4>1, <1>f DEF Recv, Ended, netVars
      <3>2. CASE RecvEnd(w) \/ SendBack(w)
        BY <3>2, <1>f DEF RecvEnd, SendBack, Ended, netVars, sockVars
      <3>3. CASE SendFails(w)
        BY <3>3, <1>f, <1>t DEF SendFails, Ended, sockVars, TypeInv, TypeOK
      <3> QED
        BY <1>2, <3>1, <3>2, <3>3
    <2>3. \A g \in watched : Readable(g)' => Readable(g)
      <3> TAKE g \in watched
      <3>1. file[g] \in Conns /\ g # Listen /\ g \in Fds
        BY <1>f
      <3>2. rcvd'[file[g]] \in Nat /\ rcvd[file[g]] \in Nat /\ sent[file[g]] \in Nat
        BY <1>f, <1>t, <3>1 DEF TypeInv, TypeOK
      <3> QED
        BY <2>1, <2>2, <3>1, <3>2 DEF Readable
    <2>4. \A g \in watched : OnItsWay(g) => OnItsWay(g)'
      BY <1>f, <1>o, <2>1 DEF OnItsWay, Fd
    <2> QED
      BY <1>t, <2>1, <2>3, <2>4 DEF WatchInv, NothingStranded, Idle, Exited
  <1>3. CASE RecvNothing(w)
    <2>1. \A g \in watched : g = Fd(w) => ~ Readable(g)'
      BY <1>3, <1>f DEF RecvNothing, Readable, Ended, Conn, netVars, sockVars
    <2>2. \A g \in watched : g # Fd(w) /\ OnItsWay(g) => OnItsWay(g)'
      BY <1>3, <1>f, <1>o DEF RecvNothing, OnItsWay, Fd, loopVars
    <2> QED
      BY <1>3, <1>t, <2>1, <2>2 DEF RecvNothing, WatchInv, NothingStranded, Readable, Ended, netVars,
         sockVars, loopVars
  <1>4. CASE Del(w) \/ Close(w)
    <2>1. /\ watched' = watched \ {Fd(w)} /\ ready' = ready \ {Fd(w)}
          /\ \A g \in watched' : file'[g] = file[g]
          /\ UNCHANGED <<netVars, rcvd, backlog, batch, reactor, tasks>>
      BY <1>4, <1>f, <1>t DEF Del, Close, TypeInv, TypeOK, loopVars
    <2>2. \A g \in watched' : OnItsWay(g) => OnItsWay(g)'
      BY <1>f, <1>o, <2>1 DEF OnItsWay, Fd
    <2> QED
      BY <1>t, <2>1, <2>2 DEF WatchInv, NothingStranded, Readable, Ended, netVars
  <1> QED
    BY <1>1, <1>2, <1>3, <1>4 DEF Worker

LEMMA NextWatch == WatchInv /\ [Next]_vars => WatchInv'
  <1>1. WatchInv /\ UNCHANGED vars => WatchInv'
    BY NextType DEF WatchInv, NothingStranded, OnItsWay, Readable, Ended, Fd, vars, netVars, sockVars,
       loopVars
  <1> QED
    BY <1>1, ClientsWatch, ReactorWatch, WorkersWatch DEF Next

\* NothingStranded, for any number of connections, workers and descriptors.
THEOREM NoInputStranded == Spec => []NothingStranded
  <1>1. Spec => []WatchInv
    BY InitWatch, NextWatch, PTL DEF Spec
  <1> QED
    BY <1>1, PTL DEF WatchInv

-----------------------------------------------------------------------------
(* A request is answered at most once.                                     *)

\* The workers that are about to answer request r, and the clients that have
\* its answer: one of them at most, and none before r was received.
Holders(r) == {w \in Workers : Doing(w, "send") /\ r \in worker[w].msg}
Answered(r) == {c \in Conns : r \in got[c]}

OneAnswer(S, G, received) ==
  /\ \A x, y \in S : x = y
  /\ \A x, y \in G : x = y
  /\ S = {} \/ G = {}
  /\ ~ received => S = {} /\ G = {}

AnswerInv == TypeInv /\ \A r \in Requests : OneAnswer(Holders(r), Answered(r), rcvd[r[1]] >= r[2])

\* OneAnswer is about the sum of two cardinalities.
LEMMA AtMostOne ==
  ASSUME NEW S, \A x, y \in S : x = y
  PROVE  IF S = {} THEN Cardinality(S) = 0 ELSE Cardinality(S) = 1
  <1>1. CASE S = {}
    BY <1>1, FS_EmptySet
  <1>2. CASE S # {}
    <2>1. PICK x : x \in S
      BY <1>2
    <2>2. S = {x}
      BY <2>1
    <2> QED
      BY <1>2, <2>2, FS_Singleton
  <1> QED
    BY <1>1, <1>2

LEMMA CountAnswers ==
  ASSUME NEW S, NEW G, NEW received \in BOOLEAN, OneAnswer(S, G, received)
  PROVE  Cardinality(S) + Cardinality(G) <= (IF received THEN 1 ELSE 0)
  BY AtMostOne DEF OneAnswer

LEMMA InitAnswer == Init => AnswerInv
  BY InitType DEF Init, AnswerInv, OneAnswer, Holders, Answered, Doing, Resting

\* A request is a connection and the number of a message.
LEMMA RequestParts ==
  ASSUME NEW r \in Requests
  PROVE  r[1] \in Conns /\ r[2] \in Nat /\ r = <<r[1], r[2]>>
  BY Reactor3Assumption DEF Requests

\* Steps that do not touch messages, replies and requests received.
LEMMA AnswersKept ==
  ASSUME AnswerInv, TypeInv', UNCHANGED <<got, rcvd>>,
         \A r \in Requests : Holders(r)' \subseteq Holders(r)
  PROVE  AnswerInv'
  <1>1. \A r \in Requests : Answered(r)' = Answered(r)
    BY DEF Answered
  <1> QED
    BY <1>1 DEF AnswerInv, OneAnswer, Requests

LEMMA WorkersAnswer ==
  ASSUME AnswerInv, NEW w \in Workers, Worker(w)
  PROVE  AnswerInv'
  <1>t. TypeInv /\ TypeInv'
    BY WorkersType DEF AnswerInv
  <1>f. /\ worker \in [Workers -> WorkerStates] /\ got \in [Conns -> SUBSET Requests]
        /\ rcvd \in [Conns -> Nat] /\ rcvd' \in [Conns -> Nat]
    BY <1>t DEF TypeInv, TypeOK
  <1>o. \A v \in Workers : v # w => worker'[v] = worker[v]
    BY <1>f DEF Worker, TakeTask, Recv, RecvNothing, RecvEnd, SendBack, SendFails, Del, Close
  <1>1. CASE TakeTask(w) \/ RecvNothing(w) \/ RecvEnd(w) \/ SendFails(w) \/ Del(w) \/ Close(w)
    <2>1. worker'[w].at # "send" /\ UNCHANGED <<got, rcvd>>
      BY <1>1, <1>f DEF TakeTask, RecvNothing, RecvEnd, SendFails, Del, Close, Busy, Resting, netVars,
         sockVars
    <2>2. \A r \in Requests : Holders(r)' \subseteq Holders(r)
      BY <1>o, <2>1 DEF Holders, Doing
    <2> QED
      BY <1>t, <2>1, <2>2, AnswersKept
  <1>2. CASE Recv(w)
    <2>1. PICK n \in (rcvd[Conn(w)] + 1)..sent[Conn(w)] :
                 /\ rcvd' = [rcvd EXCEPT ![Conn(w)] = n]
                 /\ worker' = [worker EXCEPT ![w] =
                      Busy("send", Fd(w), {Conn(w)} \X ((rcvd[Conn(w)] + 1)..n))]
      BY <1>2 DEF Recv
    <2>2. Conn(w) \in Conns /\ got' = got
      BY <1>2, <1>t, BusyWorker DEF Recv, Doing, Working, netVars
    <2>3. rcvd[Conn(w)] \in Nat /\ sent[Conn(w)] \in Nat /\ n \in Nat /\ n > rcvd[Conn(w)]
      BY <1>f, <1>t, <2>1, <2>2 DEF TypeInv, TypeOK
    <2>4. /\ rcvd'[Conn(w)] = n
          /\ \A c \in Conns : c # Conn(w) => rcvd'[c] = rcvd[c]
          /\ worker'[w].msg = {Conn(w)} \X ((rcvd[Conn(w)] + 1)..n)
      BY <1>f, <2>1, <2>2 DEF Busy
    <2>5. ASSUME NEW r \in Requests
          PROVE  OneAnswer(Holders(r), Answered(r), rcvd[r[1]] >= r[2])'
      <3> DEFINE new == r[1] = Conn(w) /\ r[2] > rcvd[Conn(w)] /\ r[2] <= n
      <3>1. r[1] \in Conns /\ r[2] \in Nat /\ (r \in worker'[w].msg <=> new)
        BY <2>3, <2>4, RequestParts
      <3>2. Answered(r)' = Answered(r)
        BY <2>2 DEF Answered
      <3>3. OneAnswer(Holders(r), Answered(r), rcvd[r[1]] >= r[2])
        BY DEF AnswerInv
      <3>4. rcvd[r[1]] \in Nat /\ rcvd'[r[1]] \in Nat /\ rcvd[r[1]] <= rcvd'[r[1]]
        BY <1>f, <2>3, <2>4, <3>1
      <3>5. CASE new
        <4>1. ~ (rcvd[r[1]] >= r[2]) /\ rcvd'[r[1]] >= r[2]
          BY <2>3, <2>4, <3>1, <3>4, <3>5
        <4>2. Holders(r) = {} /\ Answered(r) = {}
          BY <3>3, <4>1 DEF OneAnswer
        <4>3. Holders(r)' \subseteq {w}
          BY <1>o, <4>2 DEF Holders, Doing
        <4> QED
          BY <3>2, <4>1, <4>2, <4>3 DEF OneAnswer
      <3>6. CASE ~ new
        <4>1. Holders(r)' \subseteq Holders(r)
          BY <1>o, <3>1, <3>6 DEF Holders, Doing
        <4>2. rcvd[r[1]] >= r[2] => rcvd'[r[1]] >= r[2]
          BY <3>1, <3>4
        <4> QED
          BY <3>2, <3>3, <4>1, <4>2 DEF OneAnswer
      <3> QED
        BY <3>5, <3>6
    <2> QED
      BY <1>t, <2>5 DEF AnswerInv
  <1>3. CASE SendBack(w)
    <2>1. /\ Conn(w) \in Conns /\ rcvd' = rcvd
          /\ got'[Conn(w)] = got[Conn(w)] \cup worker[w].msg
          /\ \A c \in Conns : c # Conn(w) => got'[c] = got[c]
          /\ worker[w].at = "send" /\ worker'[w].at # "send"
      BY <1>3, <1>f, <1>t, BusyWorker DEF SendBack, Doing, Working, Busy, sockVars
    <2>2. ASSUME NEW r \in Requests
          PROVE  OneAnswer(Holders(r), Answered(r), rcvd[r[1]] >= r[2])'
      <3>1. OneAnswer(Holders(r), Answered(r), rcvd[r[1]] >= r[2])
        BY DEF AnswerInv
      <3>2. Holders(r)' = Holders(r) \ {w}
        BY <1>o, <2>1 DEF Holders, Doing
      <3>3. CASE r \in worker[w].msg
        <4>1. Holders(r) = {w} /\ Answered(r) = {}
          BY <2>1, <3>1, <3>3 DEF OneAnswer, Holders, Doing
        <4>2. Answered(r)' \subseteq {Conn(w)}
          BY <2>1, <4>1 DEF Answered
        <4> QED
          BY <2>1, <3>1, <3>2, <4>1, <4>2 DEF OneAnswer
      <3>4. CASE r \notin worker[w].msg
        <4>1. Answered(r)' = Answered(r)
          BY <2>1, <3>4 DEF Answered
        <4> QED
          BY <2>1, <3>1, <3>2, <4>1 DEF OneAnswer
      <3> QED
        BY <3>3, <3>4
    <2> QED
      BY <1>t, <2>2 DEF AnswerInv
  <1> QED
    BY <1>1, <1>2, <1>3 DEF Worker

LEMMA NextAnswer == AnswerInv /\ [Next]_vars => AnswerInv'
  <1> SUFFICES ASSUME AnswerInv, [Next]_vars PROVE AnswerInv'
    OBVIOUS
  <1>1. CASE \E w \in Workers : Worker(w)
    BY <1>1, WorkersAnswer
  <1>2. CASE (\E c \in Conns : Connect(c) \/ Send(c) \/ Leave(c)) \/ Reactor \/ UNCHANGED vars
    <2>1. UNCHANGED <<got, rcvd, worker>>
      BY <1>2 DEF Connect, Send, Leave, Reactor, EpollWait, StartAccept, AcceptDone, AddTask, AddFd,
         AddFails, Accept, vars, netVars, sockVars, loopVars
    <2>2. TypeInv'
      BY NextType DEF AnswerInv
    <2> QED
      BY <2>1, <2>2, AnswersKept DEF Holders, Doing
  <1> QED
    BY <1>1, <1>2 DEF Next

\* AnsweredOnce, for any number of connections, workers and requests.
THEOREM RequestsAnsweredOnce == Spec => []AnsweredOnce
  <1>1. Spec => []AnswerInv
    BY InitAnswer, NextAnswer, PTL DEF Spec
  <1>2. AnswerInv => AnsweredOnce
    <2> SUFFICES ASSUME AnswerInv, NEW r \in Requests
                 PROVE  Cardinality(Holders(r)) + Cardinality(Answered(r))
                          <= (IF rcvd[r[1]] >= r[2] THEN 1 ELSE 0)
      BY DEF AnsweredOnce, Holders, Answered
    <2>1. rcvd[r[1]] \in Nat /\ r[2] \in Nat
      BY RequestParts DEF AnswerInv, TypeInv, TypeOK
    <2>2. (rcvd[r[1]] >= r[2]) \in BOOLEAN
      BY <2>1
    <2>3. OneAnswer(Holders(r), Answered(r), rcvd[r[1]] >= r[2])
      BY DEF AnswerInv
    <2> QED
      BY <2>2, <2>3, CountAnswers
  <1> QED
    BY <1>1, <1>2, PTL
=============================================================================
