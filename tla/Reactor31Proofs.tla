-------------------------- MODULE Reactor31Proofs --------------------------
(***************************************************************************)
(* Proofs about 3.1single_reactor_multi_worker, for any connections,       *)
(* workers, messages and size of evs.  Whatever clients do, no input is    *)
(* missed, every call on a client's descriptor finds it open, and a        *)
(* request is processed once.  When clients leave only with every reply,   *)
(* each request has its task and each response its tick, a worker's rev    *)
(* stays with its connection, and the server implements EchoOnce.          *)
(***************************************************************************)
EXTENDS Reactor31, FiniteSetTheorems, SequenceTheorems, TLAPS

-----------------------------------------------------------------------------
(* Types, and where the addresses of tasks come from: a rev is queued while *)
(* its connection is open, and its address stays one that was in use.       *)

TypeInv == TypeOK /\ \A c \in Conns : sent[c] <= MaxReq[c]

Used == {a \in Addrs : mem[a] # Null}

RespKnown ==
  \A c \in Conns : /\ reactor \in {At("read", c), At("reply", c)} => conn[c] # "none"
                   /\ Resp(c) \in batch \cup ready => conn[c] # "none"

HeapInv == /\ \A c \in Conns : client[c] = "idle" <=> conn[c] = "none"
           /\ \A c \in Conns : conn[c] = "open" => addr[c] \in Used
           /\ CallsFindOpen /\ RespKnown
           /\ \A c \in Conns : reactor \in {At("recv", c), At("add", c)} => Data(c) \notin batch
           /\ reactor = Idle => batch = {}
           /\ tasks \in Seq(Used)
           /\ \A w \in Workers : worker[w] # Resting => worker[w].rev \in Used

StateInv == TypeInv /\ HeapInv

\* The connections are finitely many, and so are the requests of a message.
LEMMA MessageSize ==
  ASSUME NEW m \in Msgs
  PROVE  Cardinality(m) \in Nat
  <1>1. \A c \in Conns : IsFiniteSet({c} \X (1..MaxReq[c]))
    <2> SUFFICES ASSUME NEW c \in Conns
                 PROVE  IsFiniteSet({c} \X (1..MaxReq[c]))
      OBVIOUS
    <2>1. MaxReq[c] \in Int /\ 1 \in Int
      BY ReactorAssumption
    <2>2. IsFiniteSet(1..MaxReq[c]) /\ IsFiniteSet({c})
      BY <2>1, FS_Interval, FS_Singleton
    <2> QED
      BY <2>2, FS_Product
  <1> DEFINE S == {{c} \X (1..MaxReq[c]) : c \in Conns}
             f == [c \in Conns |-> {c} \X (1..MaxReq[c])]
  <1>2. IsFiniteSet(S)
    <2>1. f \in Surjection(Conns, S)
      BY DEF Surjection
    <2> QED
      BY <2>1, FS_Surjection, ReactorAssumption
  <1>3. IsFiniteSet(Requests)
    BY <1>1, <1>2, FS_UNION DEF Requests
  <1> QED
    BY <1>3, FS_Subset, FS_CardinalityType DEF Msgs

LEMMA InitState == Init => StateInv
  <1> SUFFICES ASSUME Init PROVE StateInv
    OBVIOUS
  <1>1. TypeInv
    BY ReactorAssumption, EmptySeq
    DEF Init, TypeInv, TypeOK, Msgs, ReactorStates, WorkerStates
  <1>2. HeapInv
    BY EmptySeq DEF Init, HeapInv, CallsFindOpen, RespKnown, Idle, At
  <1> QED
    BY <1>1, <1>2 DEF StateInv

\* The steps of the reactor's handlers.
Handlers == {"recv", "add", "read", "reply"}

LEMMA Handling ==
  ASSUME NEW c \in Conns, NEW d \in Conns, NEW s \in Handlers, NEW t \in Handlers
  PROVE  /\ At(s, c) = At(t, d) <=> s = t /\ c = d
         /\ At(s, c) \notin {Idle, Loop, Exited, [at |-> "accept"]}
         /\ Data(c) = Data(d) <=> c = d
         /\ Data(c) # Listen /\ Data(c) # Resp(d) /\ Resp(c) # Listen
         /\ Resp(c) = Resp(d) <=> c = d
  BY DEF At, Idle, Loop, Exited, Handlers, Data, Resp, Listen

LEMMA ClientsType ==
  ASSUME StateInv, NEW c \in Conns, Connect(c) \/ Send(c) \/ Leave(c)
  PROVE  TypeInv'
  <1>1. TypeInv /\ Data(c) \in Sources /\ Listen \in Sources
    BY DEF StateInv, Sources
  <1>2. CASE Connect(c)
    BY <1>1, <1>2 DEF Connect, TypeInv, TypeOK, queueVars
  <1>3. CASE Send(c)
    <2>1. sent' = [sent EXCEPT ![c] = sent[c] + 1] /\ sent[c] < MaxReq[c]
      BY <1>3 DEF Send
    <2>2. MaxReq[c] \in Nat /\ sent[c] \in Nat
      BY <1>1, ReactorAssumption DEF TypeInv, TypeOK
    <2>3. sent' \in [Conns -> Nat] /\ \A d \in Conns : sent'[d] <= MaxReq[d]
      BY <1>1, <2>1, <2>2 DEF TypeInv, TypeOK
    <2> QED
      BY <1>1, <1>3, <2>3 DEF Send, Edge, TypeInv, TypeOK, sockVars, queueVars
  <1>4. CASE Leave(c)
    BY <1>1, <1>4 DEF Leave, Edge, TypeInv, TypeOK, sockVars, queueVars
  <1> QED
    BY <1>2, <1>3, <1>4

LEMMA ReactorType ==
  ASSUME StateInv, Reactor
  PROVE  TypeInv'
  <1>1. TypeInv /\ sent \in [Conns -> Nat] /\ rcvd \in [Conns -> Nat]
    BY DEF StateInv, TypeInv, TypeOK
  <1>r. /\ \A c \in Conns, s \in Handlers : Data(c) \in Sources /\ Resp(c) \in Sources
        /\ Return \in {Idle, Loop}
    BY DEF Sources, Return
  <1>s. /\ {Idle, Loop, Exited, [at |-> "accept"]} \subseteq ReactorStates
        /\ \A c \in Conns, s \in Handlers : At(s, c) \in ReactorStates
    BY DEF ReactorStates, Handlers
  <1>2. CASE EpollWait
    <2>1. ready' \subseteq Sources /\ batch' \subseteq Sources /\ reactor' \in ReactorStates
      BY <1>1, <1>2, <1>s DEF EpollWait, TypeInv, TypeOK
    <2> QED
      BY <1>1, <1>2, <1>s, <2>1 DEF EpollWait, TypeInv, TypeOK, netVars, sockVars, queueVars
  <1>3. CASE Dispatch
    <2>1. batch' \subseteq Sources /\ reactor' \in ReactorStates
      BY <1>1, <1>3, <1>s DEF Dispatch, TypeInv, TypeOK, Handlers
    <2> QED
      BY <1>1, <1>3, <1>s, <2>1 DEF Dispatch, TypeInv, TypeOK, netVars, sockVars, queueVars
  <1>4. CASE AcceptDone \/ \E c \in Conns : RecvNothing(c) \/ RecvFails(c) \/ NoTick(c) \/ NoReply(c)
    <2>1. /\ reactor' \in ReactorStates
          /\ UNCHANGED <<netVars, sockVars, queueVars, ready, batch, worker>>
      BY <1>4, <1>r, <1>s DEF AcceptDone, RecvNothing, RecvFails, NoTick, NoReply
    <2> QED
      BY <1>1, <1>s, <2>1 DEF TypeInv, TypeOK, netVars, sockVars, queueVars
  <1>5. ASSUME NEW c \in Conns, AcceptOne(c)
        PROVE  TypeInv'
    <2>1. /\ conn' = [conn EXCEPT ![c] = "open"]
          /\ \E a \in Addrs : addr' = [addr EXCEPT ![c] = a] /\ mem' = [mem EXCEPT ![a] = c]
          /\ ready' \subseteq Sources
      BY <1>1, <1>r, <1>5 DEF AcceptOne, TypeInv, TypeOK, Handlers
    <2> QED
      BY <1>1, <1>5, <2>1 DEF AcceptOne, TypeInv, TypeOK, netVars, queueVars
  <1>6. ASSUME NEW c \in Conns, Recv(c)
        PROVE  TypeInv'
    <2>1. PICK n \in (rcvd[c] + 1)..sent[c] :
                 /\ req' = [req EXCEPT ![c] = Append(@, {c} \X ((rcvd[c] + 1)..n))]
                 /\ rcvd' = [rcvd EXCEPT ![c] = n]
      BY <1>6 DEF Recv
    <2>2. MaxReq[c] \in Nat /\ sent[c] \in Nat /\ rcvd[c] \in Nat /\ sent[c] <= MaxReq[c]
      BY <1>1, ReactorAssumption DEF TypeInv
    <2>3. {c} \X ((rcvd[c] + 1)..n) \in Msgs /\ n \in Nat
      BY <2>1, <2>2 DEF Msgs, Requests
    <2>4. req' \in [Conns -> Seq(Msgs)] /\ rcvd' \in [Conns -> Nat]
      BY <1>1, <2>1, <2>3, AppendProperties DEF TypeInv, TypeOK
    <2> QED
      BY <1>1, <1>6, <1>s, <2>4 DEF Recv, TypeInv, TypeOK, netVars, Handlers
  <1>7. ASSUME NEW c \in Conns, AddTask(c)
        PROVE  TypeInv'
    <2>1. addr[c] \in Addrs /\ tasks \in Seq(Addrs)
      <3>1. conn[c] = "open"
        BY <1>7 DEF StateInv, HeapInv, CallsFindOpen, AddTask
      <3> QED
        BY <1>1, <3>1 DEF StateInv, HeapInv, Used, TypeInv, TypeOK
    <2>2. tasks' \in Seq(Addrs)
      BY <1>7, <2>1, AppendProperties DEF AddTask
    <2> QED
      BY <1>1, <1>7, <1>s, <2>2 DEF AddTask, TypeInv, TypeOK, netVars, sockVars, Handlers
  <1>8. ASSUME NEW c \in Conns, Close(c)
        PROVE  TypeInv'
    BY <1>1, <1>8, <1>r, <1>s DEF Close, TypeInv, TypeOK, netVars, queueVars
  <1>9. ASSUME NEW c \in Conns, ReadTick(c)
        PROVE  TypeInv'
    <2>1. ticks' \in [Conns -> Nat]
      BY <1>1, <1>9 DEF ReadTick, TypeInv, TypeOK
    <2> QED
      BY <1>1, <1>9, <1>s, <2>1 DEF ReadTick, TypeInv, TypeOK, netVars, sockVars, Handlers
  <1>10. ASSUME NEW c \in Conns, Reply(c) \/ ReplyFails(c)
         PROVE  TypeInv'
    <2>1. rsp[c] \in Seq(Msgs) /\ rsp[c] # <<>> /\ rsp' = [rsp EXCEPT ![c] = Tail(rsp[c])]
      BY <1>1, <1>10 DEF Reply, ReplyFails, TypeInv, TypeOK
    <2>2. rsp' \in [Conns -> Seq(Msgs)] /\ Head(rsp[c]) \in Msgs
      BY <1>1, <2>1, HeadTailProperties DEF TypeInv, TypeOK
    <2>3. reactor' \in ReactorStates
      BY <1>10, <1>s DEF Reply, ReplyFails, Handlers
    <2>4. got' \in [Conns -> Msgs] /\ ready' \subseteq Sources
      <3>1. got' = got \/ got' = [got EXCEPT ![c] = got[c] \cup Head(rsp[c])]
        BY <1>10 DEF Reply, ReplyFails
      <3>2. ready' = ready \/ ready' = ready \cup {Data(c)}
        BY <1>10 DEF Reply, ReplyFails, Edge
      <3> QED
        BY <1>1, <1>r, <2>2, <3>1, <3>2 DEF TypeInv, TypeOK, Msgs, Handlers
    <2>5. client' \in [Conns -> {"idle", "connected", "gone", "aborted", "reset"}]
      BY <1>1, <1>10 DEF Reply, ReplyFails, TypeInv, TypeOK
    <2>6. replies' \in [Conns -> Nat]
      <3>1. Cardinality(Head(rsp[c])) \in Nat /\ replies \in [Conns -> Nat]
        BY <1>1, <2>2, MessageSize DEF TypeInv, TypeOK
      <3> QED
        BY <1>10, <3>1 DEF Reply, ReplyFails
    <2> QED
      BY <1>1, <1>10, <1>s, <2>2, <2>3, <2>4, <2>5, <2>6 DEF Reply, ReplyFails, TypeInv, TypeOK, sockVars
  <1> QED
    BY <1>2, <1>3, <1>4, <1>5, <1>6, <1>7, <1>8, <1>9, <1>10 DEF Reactor

\* A worker that is busy has an address in use, and so a connection.
LEMMA BusyWorker ==
  ASSUME StateInv, NEW w \in Workers, worker[w] # Resting
  PROVE  /\ worker[w].at \in {"shift", "push", "write"}
         /\ worker[w].rev \in Addrs /\ worker[w].rev \in Used /\ worker[w].msg \in Msgs
         /\ Of(w) \in Conns
  <1>1. worker[w] \in [at : {"shift", "push", "write"}, rev : Addrs, msg : Msgs]
    BY DEF StateInv, TypeInv, TypeOK, WorkerStates
  <1>2. worker[w].rev \in Used
    BY DEF StateInv, HeapInv
  <1>3. mem[worker[w].rev] \in Conns
    BY <1>2 DEF StateInv, TypeInv, TypeOK, Used
  <1> QED
    BY <1>1, <1>2, <1>3 DEF Of

LEMMA Doings ==
  ASSUME NEW w \in Workers
  PROVE  Doing(w, "shift") \/ Doing(w, "push") \/ Doing(w, "write") => worker[w] # Resting
  BY DEF Doing, Resting

LEMMA NewState ==
  /\ Resting \in WorkerStates
  /\ \A where \in {"shift", "push", "write"}, a \in Addrs, msg \in Msgs :
       /\ Busy(where, a, msg) \in WorkerStates
       /\ Busy(where, a, msg) # Resting
       /\ Busy(where, a, msg).rev = a
  BY DEF WorkerStates, Busy, Resting

LEMMA WorkersType ==
  ASSUME StateInv, NEW w \in Workers, Worker(w)
  PROVE  TypeInv'
  <1>1. /\ TypeInv /\ {} \in Msgs
        /\ \A s \in WorkerStates : worker' = [worker EXCEPT ![w] = s]
             => worker' \in [Workers -> WorkerStates]
    BY DEF StateInv, TypeInv, TypeOK, Msgs
  <1>2. CASE TakeTask(w)
    <2>1. tasks' \in Seq(Addrs) /\ Head(tasks) \in Addrs
      BY <1>1, <1>2, HeadTailProperties DEF TakeTask, TypeInv, TypeOK
    <2>2. worker' \in [Workers -> WorkerStates]
      BY <1>1, <1>2, <2>1, NewState DEF TakeTask
    <2> QED
      BY <1>1, <1>2, <2>1, <2>2 DEF TakeTask, TypeInv, TypeOK, netVars, sockVars, epollVars
  <1>3. CASE ShiftReq(w)
    <2>1. Of(w) \in Conns /\ worker[w].rev \in Addrs
      BY <1>3, BusyWorker, Doings DEF ShiftReq
    <2>2. req[Of(w)] \in Seq(Msgs) /\ req[Of(w)] # <<>>
      BY <1>1, <1>3, <2>1 DEF ShiftReq, TypeInv, TypeOK
    <2>3. Tail(req[Of(w)]) \in Seq(Msgs) /\ Head(req[Of(w)]) \in Msgs
      BY <2>2, HeadTailProperties
    <2>4. req' \in [Conns -> Seq(Msgs)]
      BY <1>1, <1>3, <2>3 DEF ShiftReq, TypeInv, TypeOK
    <2>5. worker' \in [Workers -> WorkerStates]
      BY <1>1, <1>3, <2>1, <2>3, NewState DEF ShiftReq
    <2> QED
      BY <1>1, <1>3, <2>4, <2>5 DEF ShiftReq, TypeInv, TypeOK, netVars, sockVars, epollVars
  <1>4. CASE NoReq(w)
    BY <1>1, <1>4, NewState DEF NoReq, TypeInv, TypeOK, netVars, sockVars, queueVars, epollVars
  <1>5. CASE PushRsp(w)
    <2>1. worker[w].rev \in Addrs /\ worker[w].msg \in Msgs
      BY <1>5, BusyWorker, Doings DEF PushRsp
    <2>2. rsp' \in [Conns -> Seq(Msgs)]
      BY <1>1, <1>5, <2>1, AppendProperties DEF PushRsp, TypeInv, TypeOK
    <2>3. worker' \in [Workers -> WorkerStates]
      BY <1>1, <1>5, <2>1, NewState DEF PushRsp
    <2> QED
      BY <1>1, <1>5, <2>2, <2>3 DEF PushRsp, TypeInv, TypeOK, netVars, sockVars, epollVars
  <1>6. CASE WriteTick(w)
    <2>1. Of(w) \in Conns
      BY <1>6, BusyWorker, Doings DEF WriteTick
    <2>2. ready' \subseteq Sources
      BY <1>1, <1>6, <2>1 DEF WriteTick, Edge, Sources, TypeInv, TypeOK
    <2>3. ticks' \in [Conns -> Nat]
      BY <1>1, <1>6, <2>1 DEF WriteTick, TypeInv, TypeOK
    <2> QED
      BY <1>1, <1>6, <2>2, <2>3, NewState DEF WriteTick, TypeInv, TypeOK, netVars, sockVars
  <1> QED
    BY <1>2, <1>3, <1>4, <1>5, <1>6 DEF Worker

LEMMA NextType == StateInv /\ [Next]_vars => TypeInv'
  <1>1. StateInv /\ UNCHANGED vars => TypeInv'
    BY DEF StateInv, TypeInv, TypeOK, vars, netVars, sockVars, queueVars, epollVars
  <1> QED
    BY <1>1, ClientsType, ReactorType, WorkersType DEF Next

-----------------------------------------------------------------------------
(* The heap, and the handlers of open descriptors.                          *)

LEMMA ClientsHeap ==
  ASSUME StateInv, NEW c \in Conns, Connect(c) \/ Send(c) \/ Leave(c)
  PROVE  HeapInv'
  <1>1. /\ UNCHANGED <<addr, mem, tasks, batch, reactor, worker>>
        /\ \A d \in Conns : client'[d] = "idle" <=> conn'[d] = "none"
        /\ \A d \in Conns : conn[d] = "open" <=> conn'[d] = "open"
    BY DEF Connect, Send, Leave, sockVars, queueVars, StateInv, HeapInv, TypeInv, TypeOK
  <1>2. \A d \in Conns : /\ Data(d) \in ready' => Data(d) \in ready \/ conn[d] = "open"
                         /\ Resp(d) \in ready' => Resp(d) \in ready
    BY Handling DEF Connect, Send, Leave, Edge, Handlers
  <1>3. \A d \in Conns : conn[d] # "none" => conn'[d] # "none"
    BY DEF Connect, Send, Leave, sockVars, StateInv, HeapInv, TypeInv, TypeOK
  <1> QED
    BY <1>1, <1>2, <1>3 DEF StateInv, HeapInv, CallsFindOpen, RespKnown, Used

LEMMA ReactorHeap ==
  ASSUME StateInv, Reactor
  PROVE  HeapInv'
  <1>1. HeapInv /\ TypeInv
    BY DEF StateInv
  <1>2. CASE EpollWait
    <2>1. /\ UNCHANGED <<client, conn, addr, mem, tasks, worker>>
          /\ batch' \subseteq ready /\ ready' \subseteq ready
          /\ reactor' = IF batch' = {} THEN Idle ELSE Loop
      BY <1>2 DEF EpollWait, netVars, sockVars, queueVars
    <2>2. \A c \in Conns : reactor' \notin {At("recv", c), At("add", c), At("read", c), At("reply", c)}
      BY <2>1, Handling DEF Handlers
    <2>3. reactor' = Idle => batch' = {}
      BY <2>1 DEF Idle, Loop
    <2> QED
      BY <1>1, <2>1, <2>2, <2>3 DEF HeapInv, CallsFindOpen, RespKnown, Used
  <1>3. CASE Dispatch
    <2>1. UNCHANGED <<client, conn, addr, mem, tasks, worker, ready>>
      BY <1>3 DEF Dispatch, netVars, sockVars, queueVars
    <2>2. PICK e \in batch :
            /\ batch' = batch \ {e}
            /\ \/ reactor' = [at |-> "accept"]
               \/ \E c \in Conns : \/ e = Data(c) /\ reactor' = At("recv", c)
                                   \/ e = Resp(c) /\ reactor' = At("read", c)
      BY <1>3 DEF Dispatch
    <2>3. \A c \in Conns : /\ reactor' \in {At("recv", c), At("add", c)} => e = Data(c)
                           /\ reactor' \in {At("read", c), At("reply", c)} => e = Resp(c)
                           /\ reactor' # At("reply", c)
      BY <2>2, Handling DEF Handlers
    <2>4. reactor' # Idle
      BY <2>2, Handling DEF Handlers, Idle
    <2> QED
      BY <1>1, <2>1, <2>2, <2>3, <2>4 DEF HeapInv, CallsFindOpen, RespKnown, Used
  <1>4. CASE AcceptDone \/ \E c \in Conns : RecvNothing(c) \/ RecvFails(c) \/ NoTick(c) \/ NoReply(c)
    <2>1. /\ reactor' = Return \/ reactor' = Exited
          /\ UNCHANGED <<netVars, sockVars, queueVars, ready, batch, worker>>
      BY <1>4 DEF AcceptDone, RecvNothing, RecvFails, NoTick, NoReply
    <2>2. reactor' \in {Idle, Loop, Exited} /\ (reactor' = Idle => batch = {})
      BY <2>1 DEF Return, Idle, Loop, Exited
    <2> QED
      BY <1>1, <2>1, <2>2, Handling DEF HeapInv, CallsFindOpen, RespKnown, Used, Handlers, netVars, sockVars, queueVars
  <1>5. ASSUME NEW c \in Conns, AcceptOne(c)
        PROVE  HeapInv'
    <2>1. PICK a \in Addrs : addr' = [addr EXCEPT ![c] = a] /\ mem' = [mem EXCEPT ![a] = c]
      BY <1>5 DEF AcceptOne
    <2>2. /\ conn[c] = "backlog" /\ conn' = [conn EXCEPT ![c] = "open"]
          /\ ready' \in {ready, ready \cup {Data(c)}}
          /\ UNCHANGED <<client, tasks, batch, reactor, worker>>
      BY <1>5 DEF AcceptOne, netVars, queueVars
    <2>3. c # Null /\ Used' = Used \cup {a} /\ addr'[c] = a
      <3>1. c # Null
        BY ReactorAssumption
      <3>2. mem \in [Addrs -> Conns \cup {Null}] /\ addr \in [Conns -> Addrs \cup {Null}]
        BY <1>1 DEF TypeInv, TypeOK
      <3>3. mem'[a] = c /\ \A b \in Addrs : b # a => mem'[b] = mem[b]
        BY <2>1, <3>2
      <3> QED
        BY <2>1, <3>1, <3>2, <3>3 DEF Used
    <2>4. tasks \in Seq(Used')
      BY <1>1, <2>3, SeqMonotonic DEF HeapInv
    <2>5. \A d \in Conns : /\ Resp(d) # Data(c)
                           /\ d # c => conn'[d] = conn[d] /\ addr'[d] = addr[d] /\ Data(d) # Data(c)
      BY <1>1, <2>1, <2>2, Handling DEF TypeInv, TypeOK, Handlers
    <2>6. conn'[c] = "open"
      BY <1>1, <2>2 DEF TypeInv, TypeOK
    <2> QED
      BY <1>1, <2>2, <2>3, <2>4, <2>5, <2>6 DEF HeapInv, CallsFindOpen, RespKnown
  <1>6. ASSUME NEW c \in Conns, Recv(c) \/ AddTask(c)
        PROVE  HeapInv'
    <2>1. /\ UNCHANGED <<client, conn, addr, mem, ready, batch, worker>>
          /\ tasks' \in {tasks, Append(tasks, addr[c])}
          /\ reactor \in {At("recv", c), At("add", c)} /\ reactor' \in {At("recv", c), At("add", c)}
      BY <1>6 DEF Recv, AddTask, netVars, sockVars
    <2>2. conn[c] = "open" /\ Data(c) \notin batch
      BY <1>1, <2>1 DEF HeapInv, CallsFindOpen, RespKnown
    <2>3. tasks' \in Seq(Used)
      BY <1>1, <2>1, <2>2, AppendProperties DEF HeapInv
    <2>4. \A d \in Conns : /\ reactor' \in {At("recv", d), At("add", d)} => d = c
                           /\ reactor' \notin {At("read", d), At("reply", d), Idle}
      BY <2>1, Handling DEF Handlers
    <2> QED
      BY <1>1, <2>1, <2>2, <2>3, <2>4 DEF HeapInv, CallsFindOpen, RespKnown, Used, Handlers
  <1>7. ASSUME NEW c \in Conns, Close(c)
        PROVE  HeapInv'
    <2>1. /\ UNCHANGED <<client, addr, mem, tasks, batch, worker>>
          /\ conn' = [conn EXCEPT ![c] = "closed"]
          /\ ready' = ready \ {Data(c), Resp(c)}
          /\ reactor' = Return /\ reactor = At("recv", c)
      BY <1>7 DEF Close, netVars, queueVars
    <2>2. conn[c] = "open" /\ Data(c) \notin batch \cup ready'
      BY <1>1, <2>1 DEF HeapInv, CallsFindOpen, RespKnown
    <2>3. reactor' \in {Idle, Loop} /\ (reactor' = Idle => batch = {})
      BY <2>1 DEF Return, Idle, Loop
    <2>4. /\ conn'[c] = "closed"
          /\ \A d \in Conns : d # c => conn'[d] = conn[d]
      BY <1>1, <2>1 DEF TypeInv, TypeOK
    <2> QED
      BY <1>1, <2>1, <2>2, <2>3, <2>4, Handling DEF HeapInv, CallsFindOpen, RespKnown, Used, Handlers
  <1>8. ASSUME NEW c \in Conns, ReadTick(c) \/ Reply(c) \/ ReplyFails(c)
        PROVE  HeapInv'
    <2>1. /\ UNCHANGED <<conn, addr, mem, tasks, batch, worker>>
          /\ reactor' \in {At("read", c), At("reply", c), Exited}
      BY <1>8 DEF ReadTick, Reply, ReplyFails, netVars, sockVars
    <2>2. \A d \in Conns : /\ Data(d) \in ready' => Data(d) \in ready \/ conn[d] = "open"
                           /\ Resp(d) \in ready' => Resp(d) \in ready
      BY <1>8, Handling DEF ReadTick, Reply, ReplyFails, Edge, Handlers
    <2>3. \A d \in Conns : client'[d] = client[d] \/ (client[d] # "idle" /\ client'[d] = "reset")
      <3>1. CASE ReadTick(c) \/ Reply(c)
        BY <3>1 DEF ReadTick, Reply, netVars
      <3>2. CASE ReplyFails(c)
        <4>1. conn[c] # "none"
          BY <1>1, <3>2 DEF ReplyFails, HeapInv, RespKnown
        <4> QED
          BY <3>2, <4>1, <1>1 DEF ReplyFails, HeapInv, TypeInv, TypeOK
      <3> QED
        BY <1>8, <3>1, <3>2
    <2>4. reactor \in {At("read", c), At("reply", c)} /\ conn[c] # "none"
      BY <1>1, <1>8 DEF ReadTick, Reply, ReplyFails, HeapInv, RespKnown
    <2>5. \A d \in Conns : /\ reactor' \notin {At("recv", d), At("add", d), Idle}
                           /\ reactor' \in {At("read", d), At("reply", d)} => d = c
      <3>1. Idle # Exited
        BY DEF Idle, Exited
      <3> QED
        BY <2>1, <3>1, Handling DEF Handlers
    <2>6. \A d \in Conns : reactor' = At("reply", d) => d = c /\ conn[d] = "open"
      <3>1. reactor' = At("reply", c) => ReadTick(c)
        BY <1>8, Handling DEF Reply, ReplyFails, Handlers
      <3> QED
        BY <2>5, <3>1 DEF ReadTick
    <2> QED
      BY <1>1, <2>1, <2>2, <2>3, <2>4, <2>5, <2>6 DEF HeapInv, CallsFindOpen, RespKnown, Used
  <1> QED
    BY <1>2, <1>3, <1>4, <1>5, <1>6, <1>7, <1>8 DEF Reactor

LEMMA WorkersHeap ==
  ASSUME StateInv, NEW w \in Workers, Worker(w)
  PROVE  HeapInv'
  <1>1. HeapInv /\ TypeInv
    BY DEF StateInv
  <1>2. UNCHANGED <<client, conn, addr, mem, batch, reactor>>
    BY DEF Worker, TakeTask, ShiftReq, NoReq, PushRsp, WriteTick, netVars, sockVars, epollVars
  <1>3. Used' = Used
    BY <1>2 DEF Used
  <1>4. \A v \in Workers : v # w => worker'[v] = worker[v]
    BY <1>1 DEF Worker, TakeTask, ShiftReq, NoReq, PushRsp, WriteTick, TypeInv, TypeOK
  <1>5. CASE TakeTask(w)
    <2>1. tasks' \in Seq(Used) /\ Head(tasks) \in Used
      BY <1>1, <1>5, HeadTailProperties DEF TakeTask, HeapInv
    <2>2. worker'[w].rev \in Used
      BY <1>1, <1>5, <2>1 DEF TakeTask, Busy, TypeInv, TypeOK
    <2> QED
      BY <1>1, <1>2, <1>3, <1>4, <1>5, <2>1, <2>2
      DEF TakeTask, HeapInv, CallsFindOpen, RespKnown, epollVars
  <1>6. CASE ShiftReq(w) \/ PushRsp(w)
    <2>1. worker[w].rev \in Used
      BY <1>6, BusyWorker, Doings DEF ShiftReq, PushRsp
    <2>2. worker'[w].rev \in Used /\ UNCHANGED <<tasks, ready>>
      BY <1>1, <1>6, <2>1 DEF ShiftReq, PushRsp, Busy, TypeInv, TypeOK, epollVars
    <2> QED
      BY <1>1, <1>2, <1>3, <1>4, <2>2 DEF HeapInv, CallsFindOpen, RespKnown
  <1>7. CASE NoReq(w) \/ WriteTick(w)
    <2>1. worker'[w] = Resting /\ tasks' = tasks
      BY <1>1, <1>7 DEF NoReq, WriteTick, TypeInv, TypeOK, queueVars
    <2>2. Of(w) \in Conns
      BY <1>7, BusyWorker, Doings DEF NoReq, WriteTick
    <2>3. ready' \in {ready, ready \cup {Resp(Of(w))}} /\ (ready' # ready => conn[Of(w)] = "open")
      BY <1>7 DEF NoReq, WriteTick, Edge, epollVars
    <2>4. \A d \in Conns : /\ Data(d) \in ready' => Data(d) \in ready
                           /\ Resp(d) \in ready' => Resp(d) \in ready \/ conn[d] # "none"
      BY <2>2, <2>3, Handling DEF Handlers
    <2> QED
      BY <1>1, <1>2, <1>3, <1>4, <2>1, <2>4 DEF HeapInv, CallsFindOpen, RespKnown
  <1> QED
    BY <1>5, <1>6, <1>7 DEF Worker

LEMMA NextState == StateInv /\ [Next]_vars => StateInv'
  <1>1. StateInv /\ UNCHANGED vars => HeapInv'
    BY DEF StateInv, HeapInv, CallsFindOpen, RespKnown, Used, vars, netVars, sockVars, queueVars,
       epollVars
  <1> QED
    BY <1>1, NextType, ClientsHeap, ReactorHeap, WorkersHeap DEF Next, StateInv

\* The types and the use of the heap, in every reachable state.
THEOREM StateCorrect == Spec => []StateInv
  BY InitState, NextState, PTL DEF Spec

\* TypeOK, for any constants.
THEOREM TypeCorrect == Spec => []TypeOK
  BY StateCorrect, PTL DEF StateInv, TypeInv

\* CallsFindOpen, for any constants and whatever clients do: recv, send,
\* EPOLL_CTL_DEL and close of a client's descriptor find it open.  Contrary to
\* the comment of server.cpp:94, EPOLL_CTL_DEL never meets a closed one.
THEOREM ReactorCallsFindOpen == Spec => []CallsFindOpen
  BY StateCorrect, PTL DEF StateInv, HeapInv

-----------------------------------------------------------------------------
(* No input is missed.                                                     *)

\* Whoever comes to accept c, or to receive from it, until the process ends.
Input(c) == conn[c] = "open" /\ (sent[c] > rcvd[c] \/ client[c] # "connected")

AcceptComing  == Listen \in ready \cup batch \/ reactor.at = "accept"
ReceiveComing(c) == Data(c) \in ready \cup batch \/ reactor \in {At("recv", c), At("add", c)}

InputInv ==
  \A c \in Conns : /\ conn[c] = "backlog" => AcceptComing \/ reactor = Exited
                   /\ Input(c) => ReceiveComing(c) \/ reactor = Exited

LEMMA ClientsInput ==
  ASSUME StateInv, InputInv, NEW c \in Conns, Connect(c) \/ Send(c) \/ Leave(c)
  PROVE  InputInv'
  <1>1. /\ UNCHANGED <<batch, reactor, rcvd>> /\ ready \subseteq ready'
        /\ \A d \in Conns : conn'[d] = "backlog" => conn[d] = "backlog" \/ Listen \in ready'
    BY DEF Connect, Send, Leave, Edge, sockVars, queueVars, StateInv, TypeInv, TypeOK
  <1>2. ASSUME NEW d \in Conns, Input(d)'
        PROVE  Input(d) \/ Data(d) \in ready'
    BY <1>2 DEF Connect, Send, Leave, Edge, Input, sockVars, StateInv, TypeInv, TypeOK
  <1> QED
    BY <1>1, <1>2 DEF InputInv, AcceptComing, ReceiveComing

LEMMA WorkersInput ==
  ASSUME StateInv, InputInv, NEW w \in Workers, Worker(w)
  PROVE  InputInv'
  <1>1. UNCHANGED <<client, sent, conn, rcvd, batch, reactor>> /\ ready \subseteq ready'
    BY DEF Worker, TakeTask, ShiftReq, NoReq, PushRsp, WriteTick, Edge, netVars, sockVars, epollVars
  <1> QED
    BY <1>1 DEF InputInv, AcceptComing, ReceiveComing, Input

\* A step that ends a handler of something else, and touches no connection.
LEMMA InputKept ==
  ASSUME InputInv, UNCHANGED <<client, sent, conn, rcvd, ready, batch>>,
         reactor.at # "accept" \/ \A c \in Conns : conn[c] # "backlog",
         \A c \in Conns : reactor \in {At("recv", c), At("add", c)} =>
            ~ Input(c) \/ reactor' \in {At("recv", c), At("add", c)},
         reactor = Exited => reactor' = Exited
  PROVE  InputInv'
  BY DEF InputInv, AcceptComing, ReceiveComing, Input

LEMMA AtField ==
  ASSUME NEW c \in Conns, NEW s \in Handlers
  PROVE  At(s, c).at = s /\ At(s, c).at # "accept"
  BY DEF At, Handlers

LEMMA ReactorInput ==
  ASSUME StateInv, InputInv, Reactor
  PROVE  InputInv'
  <1>1. HeapInv /\ TypeInv
    BY DEF StateInv
  <1>2. CASE EpollWait
    <2>1. /\ UNCHANGED <<client, sent, conn, rcvd>> /\ reactor = Idle /\ batch = {}
          /\ \E evs \in SUBSET ready : ready' = ready \ evs /\ batch' = {e \in evs : Readable(e)}
      BY <1>1, <1>2 DEF EpollWait, HeapInv, netVars, sockVars
    <2>2. \A e \in ready : Readable(e) => e \in ready' \cup batch'
      BY <2>1
    <2>3. \A c \in Conns : /\ conn[c] = "backlog" => Readable(Listen)
                           /\ Input(c) => Readable(Data(c))
      BY DEF Readable, Input
    <2>4. \A c \in Conns : /\ reactor \notin {At("recv", c), At("add", c), Exited}
                           /\ reactor.at # "accept"
      BY <2>1, Handling DEF Idle, Exited, Handlers
    <2> QED
      BY <2>1, <2>2, <2>3, <2>4 DEF InputInv, AcceptComing, ReceiveComing, Input
  <1>3. CASE Dispatch
    <2>1. UNCHANGED <<client, sent, conn, rcvd, ready>> /\ reactor = Loop
      BY <1>3 DEF Dispatch, netVars, sockVars
    <2>2. PICK e \in batch :
            /\ batch' = batch \ {e}
            /\ \/ e = Listen /\ reactor' = [at |-> "accept"]
               \/ \E c \in Conns : \/ e = Data(c) /\ reactor' = At("recv", c)
                                   \/ e = Resp(c) /\ reactor' = At("read", c)
      BY <1>3 DEF Dispatch
    <2>3. \A c \in Conns : /\ e = Data(c) => reactor' = At("recv", c)
                           /\ e = Listen => reactor'.at = "accept"
      BY <2>2, Handling DEF Handlers
    <2>4. \A c \in Conns : /\ reactor \notin {At("recv", c), At("add", c), Exited}
                           /\ reactor.at # "accept"
      BY <2>1, Handling DEF Loop, Exited, Handlers
    <2> QED
      BY <2>1, <2>2, <2>3, <2>4 DEF InputInv, AcceptComing, ReceiveComing, Input
  <1>4. CASE AcceptDone
    <2>1. /\ UNCHANGED <<client, sent, conn, rcvd, ready, batch>> /\ reactor.at = "accept"
          /\ \A c \in Conns : conn[c] # "backlog"
      BY <1>4 DEF AcceptDone, netVars, sockVars
    <2>2. /\ \A c \in Conns : reactor \notin {At("recv", c), At("add", c)}
          /\ reactor # Exited
      BY <2>1, AtField DEF Exited, Handlers
    <2> QED
      BY <2>1, <2>2, InputKept
  <1>5. ASSUME NEW c \in Conns, RecvNothing(c) \/ RecvFails(c) \/ NoTick(c) \/ NoReply(c)
                                 \/ ReadTick(c) \/ Reply(c) \/ AddTask(c)
        PROVE  InputInv'
    <2>1. /\ UNCHANGED <<client, sent, conn, rcvd, ready, batch>>
          /\ reactor \in {At("recv", c), At("add", c), At("read", c), At("reply", c)}
      BY <1>5 DEF RecvNothing, RecvFails, NoTick, NoReply, ReadTick, Reply, AddTask, netVars, sockVars
    <2>2. reactor.at # "accept" /\ reactor # Exited
      BY <2>1, AtField, Handling DEF Handlers
    <2>3. CASE RecvFails(c)
      BY <2>1, <2>3 DEF RecvFails, InputInv, AcceptComing, ReceiveComing, Input
    <2>4. CASE RecvNothing(c)
      <3>1. ~ Input(c) /\ \A d \in Conns : reactor \in {At("recv", d), At("add", d)} => d = c
        BY <1>1, <2>4, Handling DEF RecvNothing, Input, Handlers, TypeInv, TypeOK
      <3> QED
        BY <2>1, <2>2, <3>1, InputKept
    <2>5. CASE AddTask(c)
      <3>1. reactor' = At("recv", c) /\ \A d \in Conns : reactor \in {At("recv", d), At("add", d)} => d = c
        BY <2>5, Handling DEF AddTask, Handlers
      <3> QED
        BY <2>1, <2>2, <3>1, InputKept
    <2>6. CASE NoTick(c) \/ NoReply(c) \/ ReadTick(c) \/ Reply(c)
      <3>1. reactor \in {At("read", c), At("reply", c)}
        BY <2>6 DEF NoTick, NoReply, ReadTick, Reply
      <3>2. \A d \in Conns : reactor \notin {At("recv", d), At("add", d)}
        BY <3>1, Handling DEF Handlers
      <3> QED
        BY <2>1, <2>2, <3>2, InputKept
    <2> QED
      BY <1>5, <2>3, <2>4, <2>5, <2>6
  <1>6. ASSUME NEW c \in Conns, AcceptOne(c)
        PROVE  InputInv'
    <2>1. /\ UNCHANGED <<client, sent, rcvd, batch, reactor>> /\ reactor.at = "accept"
          /\ conn' = [conn EXCEPT ![c] = "open"]
          /\ ready' = IF sent[c] > 0 \/ client[c] # "connected" THEN ready \cup {Data(c)} ELSE ready
      BY <1>6 DEF AcceptOne, netVars
    <2>2. sent[c] \in Nat /\ rcvd[c] \in Nat
      BY <1>1 DEF TypeInv, TypeOK
    <2>3. Input(c)' => Data(c) \in ready'
      BY <2>1, <2>2 DEF Input
    <2>4. \A d \in Conns : d # c => conn'[d] = conn[d] /\ (Input(d)' => Input(d))
      BY <1>1, <2>1 DEF Input, TypeInv, TypeOK
    <2> QED
      BY <2>1, <2>3, <2>4 DEF InputInv, AcceptComing, ReceiveComing
  <1>7. ASSUME NEW c \in Conns, Recv(c)
        PROVE  InputInv'
    <2>1. /\ UNCHANGED <<client, sent, conn, ready, batch>> /\ reactor = At("recv", c)
          /\ \E n : rcvd' = [rcvd EXCEPT ![c] = n]
          /\ reactor' = At("add", c)
      BY <1>7 DEF Recv, netVars
    <2>2. \A d \in Conns : d # c => (Input(d)' => Input(d))
      BY <1>1, <2>1 DEF Input, TypeInv, TypeOK
    <2>3. /\ reactor.at # "accept" /\ reactor # Exited
          /\ \A d \in Conns : reactor \in {At("recv", d), At("add", d)} => d = c
      BY <2>1, AtField, Handling DEF Handlers
    <2> QED
      BY <2>1, <2>2, <2>3 DEF InputInv, AcceptComing, ReceiveComing
  <1>8. ASSUME NEW c \in Conns, Close(c)
        PROVE  InputInv'
    <2>1. /\ UNCHANGED <<client, sent, rcvd, batch>> /\ reactor = At("recv", c)
          /\ conn' = [conn EXCEPT ![c] = "closed"]
          /\ ready' = ready \ {Data(c), Resp(c)}
      BY <1>8 DEF Close, netVars
    <2>2. /\ conn'[c] = "closed"
          /\ \A d \in Conns : d # c => conn'[d] = conn[d] /\ (Input(d)' => Input(d))
      BY <1>1, <2>1 DEF Input, TypeInv, TypeOK
    <2>3. /\ reactor.at # "accept" /\ reactor # Exited
          /\ \A d \in Conns : /\ reactor \in {At("recv", d), At("add", d)} => d = c
                              /\ d # c => Data(d) \notin {Data(c), Resp(c)}
          /\ Listen \notin {Data(c), Resp(c)}
      BY <2>1, AtField, Handling DEF Handlers
    <2>4. ~ Input(c)'
      BY <2>2 DEF Input
    <2> QED
      BY <2>1, <2>2, <2>3, <2>4 DEF InputInv, AcceptComing, ReceiveComing
  <1>9. ASSUME NEW c \in Conns, ReplyFails(c)
        PROVE  InputInv'
    <2>1. /\ UNCHANGED <<sent, conn, rcvd, batch>> /\ reactor = At("reply", c) /\ ready \subseteq ready'
          /\ \A d \in Conns : client[d] # "connected" \/ client'[d] = client[d]
      BY <1>1, <1>9 DEF ReplyFails, Edge, sockVars, TypeInv, TypeOK
    <2>2. /\ reactor.at # "accept" /\ reactor # Exited
          /\ \A d \in Conns : reactor \notin {At("recv", d), At("add", d)}
      BY <2>1, AtField, Handling DEF Handlers
    <2>3. \A d \in Conns : Input(d)' => Input(d)
      BY <2>1 DEF Input
    <2> QED
      BY <2>1, <2>2, <2>3 DEF InputInv, AcceptComing, ReceiveComing
  <1> QED
    BY <1>2, <1>3, <1>4, <1>5, <1>6, <1>7, <1>8, <1>9 DEF Reactor

\* InputReported, for any constants: edge-triggered epoll with handlers that
\* read until nothing is left misses no connection and no request.
THEOREM NoInputMissed == Spec => []InputReported
  <1> DEFINE Inv == StateInv /\ InputInv
  <1>1. Init => Inv
    BY InitState DEF Init, InputInv, Input
  <1>2. Inv /\ [Next]_vars => Inv'
    <2>1. Inv /\ UNCHANGED vars => InputInv'
      BY DEF InputInv, Input, AcceptComing, ReceiveComing, vars, netVars, sockVars, epollVars
    <2> QED
      BY <2>1, NextState, ClientsInput, ReactorInput, WorkersInput DEF Next
  <1>3. Inv => InputReported
    <2> SUFFICES ASSUME Inv, reactor = Idle PROVE InputReported
      BY DEF InputReported, Reported
    <2>1. batch = {} /\ reactor # Exited /\ reactor.at # "accept"
      BY DEF StateInv, HeapInv, Idle, Exited
    <2>2. \A c \in Conns : reactor \notin {At("recv", c), At("add", c)}
      BY Handling DEF Handlers
    <2>3. \A c \in Conns : Readable(Data(c)) => Input(c)
      BY Handling DEF Readable, Input, Handlers
    <2>4. Readable(Listen) => \E c \in Conns : conn[c] = "backlog"
      BY Handling DEF Readable, Handlers
    <2> QED
      BY <2>1, <2>2, <2>3, <2>4 DEF InputReported, Reported, InputInv, AcceptComing, ReceiveComing
  <1> QED
    BY <1>1, <1>2, <1>3, PTL DEF Spec

-----------------------------------------------------------------------------
(* A request is processed once.                                            *)

\* Request r is in one message of the queues q at most, or in none.
Once(r, q) == \A c, d \in Conns : \A i \in 1..Len(q[c]), j \in 1..Len(q[d]) :
                r \in q[c][i] /\ r \in q[d][j] => c = d /\ i = j
Nowhere(r, q) == \A c \in Conns : \A i \in 1..Len(q[c]) : r \notin q[c][i]

Queues == [Conns -> Seq(Msgs)]

LEMMA AppendOnce ==
  ASSUME NEW q \in Queues, NEW p, NEW c \in Conns, NEW m \in Msgs, NEW r,
         p = [q EXCEPT ![c] = Append(q[c], m)]
  PROVE  /\ r \notin m => (Once(r, q) => Once(r, p)) /\ (Nowhere(r, q) => Nowhere(r, p))
         /\ r \in m /\ Nowhere(r, q) => Once(r, p)
  <1>1. /\ q[c] \in Seq(Msgs) /\ Len(q[c]) \in Nat
        /\ p[c] = Append(q[c], m)
        /\ \A d \in Conns : d # c => p[d] = q[d]
    BY DEF Queues
  <1>2. /\ Len(p[c]) = Len(q[c]) + 1
        /\ \A i \in 1..Len(q[c]) : p[c][i] = q[c][i]
        /\ p[c][Len(q[c]) + 1] = m
    BY <1>1, AppendProperties
  <1>3. \A i \in 1..Len(p[c]) : i \in 1..Len(q[c]) \/ i = Len(q[c]) + 1
    BY <1>1, <1>2
  <1>4. ASSUME NEW d \in Conns, NEW i \in 1..Len(p[d]), r \in p[d][i]
        PROVE  \/ i \in 1..Len(q[d]) /\ r \in q[d][i]
               \/ d = c /\ i = Len(q[c]) + 1 /\ r \in m
    BY <1>1, <1>2, <1>3, <1>4
  <1> QED
    BY <1>4 DEF Once, Nowhere

LEMMA TailOnce ==
  ASSUME NEW q \in Queues, NEW p, NEW c \in Conns, NEW r, q[c] # <<>>,
         p = [q EXCEPT ![c] = Tail(q[c])], Once(r, q)
  PROVE  /\ Once(r, p)
         /\ Nowhere(r, q) => Nowhere(r, p)
         /\ r \in Head(q[c]) => Nowhere(r, p) /\ ~ Nowhere(r, q)
  <1>1. /\ q[c] \in Seq(Msgs) /\ Len(q[c]) \in Nat /\ Len(q[c]) >= 1
        /\ p[c] = Tail(q[c]) /\ Head(q[c]) = q[c][1]
        /\ \A d \in Conns : d # c => p[d] = q[d]
    BY EmptySeq DEF Queues
  <1>2. /\ Len(p[c]) = Len(q[c]) - 1
        /\ \A i \in 1..Len(p[c]) : p[c][i] = q[c][i + 1]
    <2>1. /\ Len(Tail(q[c])) = Len(q[c]) - 1
          /\ \A i \in 1..Len(Tail(q[c])) : Tail(q[c])[i] = q[c][i + 1]
      BY <1>1
    <2> QED
      BY <1>1, <2>1
  <1> DEFINE shift(d) == IF d = c THEN 1 ELSE 0
  <1>3. ASSUME NEW d \in Conns, NEW i \in 1..Len(p[d]), r \in p[d][i]
        PROVE  /\ i + shift(d) \in 1..Len(q[d]) /\ r \in q[d][i + shift(d)]
               /\ ~ (d = c /\ i + shift(d) = 1)
    <2>1. CASE d = c
      BY <1>1, <1>2, <1>3, <2>1
    <2>2. CASE d # c
      BY <1>1, <1>3, <2>2
    <2> QED
      BY <2>1, <2>2
  <1>4. Once(r, p)
    <2> SUFFICES ASSUME NEW d \in Conns, NEW e \in Conns,
                        NEW i \in 1..Len(p[d]), NEW j \in 1..Len(p[e]),
                        r \in p[d][i], r \in p[e][j]
                 PROVE  d = e /\ i = j
      BY DEF Once
    <2>1. d = e /\ i + shift(d) = j + shift(e)
      BY <1>3 DEF Once
    <2> QED
      BY <2>1
  <1>5. Nowhere(r, q) => Nowhere(r, p)
    BY <1>3 DEF Nowhere
  <1>6. ASSUME r \in Head(q[c])
        PROVE  Nowhere(r, p) /\ ~ Nowhere(r, q)
    <2>1. 1 \in 1..Len(q[c]) /\ r \in q[c][1]
      BY <1>1, <1>6
    <2>2. \A d \in Conns : \A i \in 1..Len(q[d]) : r \in q[d][i] => d = c /\ i = 1
      BY <2>1 DEF Once
    <2> QED
      BY <1>3, <2>1, <2>2 DEF Nowhere
  <1> QED
    BY <1>4, <1>5, <1>6

\* The workers about to push the response, and the clients that have the reply.
Pushing(r) == {w \in Workers : Doing(w, "push") /\ r \in worker[w].msg}
Receivers(r) == {c \in Conns : r \in got[c]}
Unique(S) == \A x, y \in S : x = y

\* A request is in one of the four places at most, and in none before it was
\* received.
OnePlace(inReq, inRsp, pushed, answered, received) ==
  /\ inReq => received /\ ~ inRsp /\ ~ pushed /\ ~ answered
  /\ inRsp => received /\ ~ pushed /\ ~ answered
  /\ pushed => received /\ ~ answered
  /\ answered => received

RequestOnce(r) ==
  /\ Once(r, req) /\ Once(r, rsp) /\ Unique(Pushing(r)) /\ Unique(Receivers(r))
  /\ OnePlace(~ Nowhere(r, req), ~ Nowhere(r, rsp), Pushing(r) # {}, Receivers(r) # {},
              r[2] <= rcvd[r[1]])

OnceInv == \A r \in Requests : RequestOnce(r)

LEMMA RequestParts ==
  ASSUME NEW r \in Requests
  PROVE  r[1] \in Conns /\ r[2] \in Nat /\ r = <<r[1], r[2]>>
  BY ReactorAssumption DEF Requests

LEMMA OnceKept ==
  ASSUME OnceInv, UNCHANGED <<req, rsp, got, rcvd>>,
         \A r \in Requests : Pushing(r)' = Pushing(r)
  PROVE  OnceInv'
  <1>1. \A r \in Requests : Receivers(r)' = Receivers(r)
    BY DEF Receivers
  <1> QED
    BY <1>1 DEF OnceInv, RequestOnce, Once, Nowhere, Unique, OnePlace, Requests

LEMMA WorkersOnce ==
  ASSUME StateInv, OnceInv, NEW w \in Workers, Worker(w)
  PROVE  OnceInv'
  <1>1. /\ worker \in [Workers -> WorkerStates] /\ req \in Queues /\ rsp \in Queues
        /\ UNCHANGED <<got, rcvd>>
        /\ \A r : Receivers(r)' = Receivers(r)
    BY DEF StateInv, TypeInv, TypeOK, Queues, Worker, TakeTask, ShiftReq, NoReq, PushRsp, WriteTick,
       netVars, sockVars, Receivers
  <1>2. \A v \in Workers : v # w => worker'[v] = worker[v]
    BY <1>1 DEF Worker, TakeTask, ShiftReq, NoReq, PushRsp, WriteTick
  <1>3. CASE TakeTask(w) \/ NoReq(w) \/ WriteTick(w)
    <2>1. worker[w].at # "push" /\ worker'[w].at # "push" /\ UNCHANGED <<req, rsp>>
      BY <1>1, <1>3 DEF TakeTask, NoReq, WriteTick, Doing, Busy, Resting, queueVars
    <2>2. \A r \in Requests : Pushing(r)' = Pushing(r)
      BY <1>2, <2>1 DEF Pushing, Doing
    <2> QED
      BY <1>1, <2>1, <2>2, OnceKept
  <1>4. CASE ShiftReq(w)
    <2>1. Of(w) \in Conns
      BY <1>4, BusyWorker, Doings DEF ShiftReq
    <2> DEFINE c == Of(w)
               m == Head(req[c])
    <2>2. /\ req[c] # <<>> /\ req' = [req EXCEPT ![c] = Tail(req[c])] /\ rsp' = rsp
          /\ worker[w].at = "shift" /\ worker'[w].at = "push" /\ worker'[w].msg = m
      BY <1>1, <1>4 DEF ShiftReq, Doing, Busy
    <2>3. ASSUME NEW r \in Requests
          PROVE  RequestOnce(r)'
      <3>1. RequestOnce(r)
        BY DEF OnceInv
      <3>2. /\ Once(r, req') /\ (Nowhere(r, req) => Nowhere(r, req'))
            /\ r \in m => Nowhere(r, req') /\ ~ Nowhere(r, req)
        BY <1>1, <2>1, <2>2, <3>1, TailOnce DEF RequestOnce
      <3>3. Pushing(r)' = IF r \in m THEN Pushing(r) \cup {w} ELSE Pushing(r)
        BY <1>2, <2>2 DEF Pushing, Doing
      <3>4. CASE r \in m
        <4>1. Pushing(r) = {} /\ Nowhere(r, rsp) /\ Receivers(r) = {} /\ r[2] <= rcvd[r[1]]
          BY <3>1, <3>2, <3>4 DEF RequestOnce, OnePlace
        <4>2. Pushing(r)' = {w}
          BY <3>3, <3>4, <4>1
        <4> QED
          BY <1>1, <2>2, <3>1, <3>2, <3>4, <4>1, <4>2 DEF RequestOnce, OnePlace, Unique
      <3>5. CASE r \notin m
        BY <1>1, <2>2, <3>1, <3>2, <3>3, <3>5 DEF RequestOnce, OnePlace, Unique
      <3> QED
        BY <3>4, <3>5
    <2> QED
      BY <2>3 DEF OnceInv, Requests
  <1>5. CASE PushRsp(w)
    <2>1. Of(w) \in Conns /\ worker[w].msg \in Msgs
      BY <1>5, BusyWorker, Doings DEF PushRsp
    <2> DEFINE c == Of(w)
               m == worker[w].msg
    <2>2. /\ rsp' = [rsp EXCEPT ![c] = Append(rsp[c], m)] /\ req' = req
          /\ worker[w].at = "push" /\ worker'[w].at # "push"
      BY <1>1, <1>5, <2>1 DEF PushRsp, Doing, Busy
    <2>3. ASSUME NEW r \in Requests
          PROVE  RequestOnce(r)'
      <3>1. RequestOnce(r)
        BY DEF OnceInv
      <3>2. /\ r \notin m => (Once(r, rsp) => Once(r, rsp')) /\ (Nowhere(r, rsp) => Nowhere(r, rsp'))
            /\ r \in m /\ Nowhere(r, rsp) => Once(r, rsp')
        BY <1>1, <2>1, <2>2, AppendOnce
      <3>3. Pushing(r)' = Pushing(r) \ {w}
        BY <1>2, <2>2 DEF Pushing, Doing
      <3>4. CASE r \in m
        <4>1. w \in Pushing(r)
          BY <2>2, <3>4 DEF Pushing, Doing
        <4>2. /\ Nowhere(r, req) /\ Nowhere(r, rsp) /\ Receivers(r) = {} /\ r[2] <= rcvd[r[1]]
              /\ Pushing(r)' = {}
          BY <3>1, <3>3, <4>1 DEF RequestOnce, OnePlace, Unique
        <4> QED
          BY <1>1, <2>2, <3>1, <3>2, <3>4, <4>2 DEF RequestOnce, OnePlace, Unique
      <3>5. CASE r \notin m
        <4>1. Pushing(r)' = Pushing(r)
          BY <3>3, <3>5 DEF Pushing
        <4> QED
          BY <1>1, <2>2, <3>1, <3>2, <3>5, <4>1 DEF RequestOnce, OnePlace, Unique
      <3> QED
        BY <3>4, <3>5
    <2> QED
      BY <2>3 DEF OnceInv, Requests
  <1> QED
    BY <1>3, <1>4, <1>5 DEF Worker

LEMMA ReactorOnce ==
  ASSUME StateInv, OnceInv, Reactor
  PROVE  OnceInv'
  <1>1. /\ req \in Queues /\ rsp \in Queues /\ got \in [Conns -> Msgs]
        /\ rcvd \in [Conns -> Nat] /\ sent \in [Conns -> Nat]
        /\ UNCHANGED worker
        /\ \A r : Pushing(r)' = Pushing(r)
    <2>1. worker' = worker
      BY DEF Reactor, EpollWait, Dispatch, AcceptDone, AcceptOne, Recv, AddTask, RecvNothing,
         RecvFails, Close, ReadTick, NoTick, Reply, ReplyFails, NoReply
    <2> QED
      BY <2>1 DEF StateInv, TypeInv, TypeOK, Queues, Pushing, Doing
  <1>2. CASE EpollWait \/ Dispatch \/ AcceptDone
             \/ \E c \in Conns : \/ AcceptOne(c) \/ AddTask(c) \/ RecvNothing(c) \/ RecvFails(c)
                                 \/ Close(c) \/ ReadTick(c) \/ NoTick(c) \/ NoReply(c)
    <2>1. UNCHANGED <<req, rsp, got, rcvd>>
      BY <1>2 DEF EpollWait, Dispatch, AcceptDone, AcceptOne, AddTask, RecvNothing, RecvFails, Close,
         ReadTick, NoTick, NoReply, netVars, sockVars, queueVars
    <2> QED
      BY <1>1, <2>1, OnceKept
  <1>3. ASSUME NEW c \in Conns, Recv(c)
        PROVE  OnceInv'
    <2>1. PICK n \in (rcvd[c] + 1)..sent[c] :
                 /\ req' = [req EXCEPT ![c] = Append(@, {c} \X ((rcvd[c] + 1)..n))]
                 /\ rcvd' = [rcvd EXCEPT ![c] = n]
      BY <1>3 DEF Recv
    <2> DEFINE m == {c} \X ((rcvd[c] + 1)..n)
    <2>2. /\ rcvd[c] \in Nat /\ sent[c] \in Nat /\ n \in Nat /\ n > rcvd[c]
          /\ sent[c] <= MaxReq[c] /\ MaxReq[c] \in Nat
      <3>1. rcvd[c] \in Nat /\ sent[c] \in Nat /\ sent[c] <= MaxReq[c]
        BY <1>1 DEF StateInv, TypeInv
      <3>2. MaxReq[c] \in Nat
        BY ReactorAssumption
      <3> QED
        BY <2>1, <3>1, <3>2
    <2>3. m \in Msgs
      BY <2>1, <2>2 DEF Msgs, Requests
    <2>4. /\ req' = [req EXCEPT ![c] = Append(req[c], m)]
          /\ rcvd'[c] = n /\ \A d \in Conns : d # c => rcvd'[d] = rcvd[d]
          /\ UNCHANGED <<rsp, got>>
      BY <1>1, <1>3, <2>1 DEF Recv, netVars
    <2>5. ASSUME NEW r \in Requests
          PROVE  RequestOnce(r)'
      <3>1. RequestOnce(r) /\ Receivers(r)' = Receivers(r)
        BY <2>4 DEF OnceInv, Receivers
      <3>2. /\ r[1] \in Conns /\ r[2] \in Nat /\ rcvd[r[1]] \in Nat
            /\ r \in m <=> r[1] = c /\ r[2] > rcvd[c] /\ r[2] <= n
        BY <1>1, <2>2, RequestParts
      <3> HIDE DEF m
      <3>3. /\ r \notin m => (Once(r, req) => Once(r, req')) /\ (Nowhere(r, req) => Nowhere(r, req'))
            /\ r \in m /\ Nowhere(r, req) => Once(r, req')
        BY <1>1, <2>3, <2>4, AppendOnce
      <3>4. CASE r \in m
        <4>1. ~ (r[2] <= rcvd[r[1]]) /\ r[2] <= rcvd'[r[1]]
          BY <2>2, <2>4, <3>2, <3>4
        <4>2. Nowhere(r, req) /\ Nowhere(r, rsp) /\ Pushing(r) = {} /\ Receivers(r) = {}
          BY <3>1, <4>1 DEF RequestOnce, OnePlace
        <4> QED
          BY <1>1, <2>4, <3>1, <3>3, <3>4, <4>1, <4>2 DEF RequestOnce, OnePlace, Unique
      <3>5. CASE r \notin m
        <4>1. r[2] <= rcvd[r[1]] => r[2] <= rcvd'[r[1]]
          BY <2>2, <2>4, <3>2
        <4> QED
          BY <1>1, <2>4, <3>1, <3>3, <3>5, <4>1 DEF RequestOnce, OnePlace, Unique
      <3> QED
        BY <3>4, <3>5
    <2> QED
      BY <2>5 DEF OnceInv, Requests
  <1>4. ASSUME NEW c \in Conns, Reply(c) \/ ReplyFails(c)
        PROVE  OnceInv'
    <2> DEFINE m == Head(rsp[c])
    <2>1. /\ rsp[c] # <<>> /\ rsp' = [rsp EXCEPT ![c] = Tail(rsp[c])]
          /\ UNCHANGED <<req, rcvd>>
          /\ got' = got \/ got' = [got EXCEPT ![c] = got[c] \cup m]
      BY <1>4 DEF Reply, ReplyFails, sockVars
    <2>2. ASSUME NEW r \in Requests
          PROVE  RequestOnce(r)'
      <3>1. RequestOnce(r)
        BY DEF OnceInv
      <3>2. /\ Once(r, rsp') /\ (Nowhere(r, rsp) => Nowhere(r, rsp'))
            /\ r \in m => Nowhere(r, rsp') /\ ~ Nowhere(r, rsp)
        <4>1. Once(r, rsp) /\ rsp \in Queues
          BY <1>1, <3>1 DEF RequestOnce
        <4>2. rsp[c] # <<>> /\ rsp' = [rsp EXCEPT ![c] = Tail(rsp[c])]
          BY <2>1
        <4> QED
          BY <4>1, <4>2, TailOnce
      <3>3. CASE r \in m
        <4>1. Nowhere(r, req) /\ Pushing(r) = {} /\ Receivers(r) = {} /\ r[2] <= rcvd[r[1]]
          BY <3>1, <3>2, <3>3 DEF RequestOnce, OnePlace
        <4>2. Receivers(r)' \subseteq {c}
          BY <1>1, <2>1, <4>1 DEF Receivers
        <4> QED
          BY <1>1, <2>1, <3>1, <3>2, <3>3, <4>1, <4>2 DEF RequestOnce, OnePlace, Unique
      <3>4. CASE r \notin m
        <4>1. Receivers(r)' = Receivers(r)
          BY <1>1, <2>1, <3>4 DEF Receivers
        <4> QED
          BY <1>1, <2>1, <3>1, <3>2, <4>1 DEF RequestOnce, OnePlace, Unique
      <3> QED
        BY <3>3, <3>4
    <2> QED
      BY <2>2 DEF OnceInv, Requests
  <1> QED
    BY <1>2, <1>3, <1>4 DEF Reactor

\* The cardinalities of ProcessedOnce.
LEMMA AtMostOne ==
  ASSUME NEW S, Unique(S)
  PROVE  IF S = {} THEN Cardinality(S) = 0 ELSE Cardinality(S) = 1
  <1>1. CASE S = {}
    BY <1>1, FS_EmptySet
  <1>2. CASE S # {}
    <2>1. PICK x : x \in S
      BY <1>2
    <2>2. S = {x}
      BY <2>1 DEF Unique
    <2> QED
      BY <1>2, <2>2, FS_Singleton
  <1> QED
    BY <1>1, <1>2

LEMMA PlacesUnique ==
  ASSUME NEW r, NEW q, Once(r, q)
  PROVE  Unique(Places(r, q)) /\ (Nowhere(r, q) => Places(r, q) = {})
  <1>1. ASSUME NEW x \in Places(r, q)
        PROVE  \E c \in Conns : \E i \in 1..Len(q[c]) : r \in q[c][i] /\ x = <<c, i>>
    BY DEF Places
  <1> QED
    BY <1>1 DEF Once, Nowhere, Unique

LEMMA InitOnce == Init => OnceInv
  <1> SUFFICES ASSUME Init PROVE OnceInv
    OBVIOUS
  <1>1. \A r : Pushing(r) = {} /\ Receivers(r) = {}
    BY DEF Init, Pushing, Receivers, Doing, Resting
  <1>2. \A c \in Conns : Len(req[c]) = 0 /\ Len(rsp[c]) = 0
    BY DEF Init
  <1>3. \A r : /\ Once(r, req) /\ Once(r, rsp)
               /\ Nowhere(r, req) /\ Nowhere(r, rsp)
    BY <1>2 DEF Once, Nowhere
  <1> QED
    BY <1>1, <1>3 DEF OnceInv, RequestOnce, Unique, OnePlace

LEMMA NextOnce == StateInv /\ OnceInv /\ [Next]_vars => OnceInv'
  <1>1. ASSUME OnceInv, (\E c \in Conns : Connect(c) \/ Send(c) \/ Leave(c)) \/ UNCHANGED vars
        PROVE  OnceInv'
    <2>1. UNCHANGED <<req, rsp, got, rcvd, worker>>
      BY <1>1 DEF Connect, Send, Leave, vars, netVars, sockVars, queueVars
    <2> QED
      BY <1>1, <2>1, OnceKept DEF Pushing, Doing
  <1> QED
    BY <1>1, ReactorOnce, WorkersOnce DEF Next

\* ProcessedOnce, for any constants: whatever clients do, no request is
\* processed or answered twice.
THEOREM RequestsProcessedOnce == Spec => []ProcessedOnce
  <1>1. OnceInv => ProcessedOnce
    <2> SUFFICES ASSUME OnceInv, NEW r \in Requests
                 PROVE  Cardinality(Places(r, req)) + Cardinality(Places(r, rsp))
                          + Cardinality(Pushing(r)) + Cardinality(Receivers(r)) <= 1
      BY DEF ProcessedOnce, Pushing, Receivers
    <2>1. RequestOnce(r)
      BY DEF OnceInv
    <2>2. /\ Unique(Places(r, req)) /\ Unique(Places(r, rsp))
          /\ Nowhere(r, req) => Places(r, req) = {}
          /\ Nowhere(r, rsp) => Places(r, rsp) = {}
      BY <2>1, PlacesUnique DEF RequestOnce
    <2> QED
      BY <2>1, <2>2, AtMostOne DEF RequestOnce, OnePlace
  <1> QED
    BY <1>1, InitState, NextState, InitOnce, NextOnce, PTL DEF Spec

-----------------------------------------------------------------------------
(* What more holds when clients leave only with every reply.               *)

\* How often a task of the address a is in the queue q.
Count(q, a) == {i \in 1..Len(q) : q[i] = a}

LEMMA AppendCount ==
  ASSUME NEW S, NEW q \in Seq(S), NEW x \in S, NEW a
  PROVE  /\ IsFiniteSet(Count(q, a)) /\ Cardinality(Count(q, a)) \in Nat
         /\ Cardinality(Count(Append(q, x), a)) = Cardinality(Count(q, a)) + (IF x = a THEN 1 ELSE 0)
  <1>1. /\ Len(q) \in Nat /\ Len(Append(q, x)) = Len(q) + 1
        /\ \A i \in 1..Len(q) : Append(q, x)[i] = q[i]
        /\ Append(q, x)[Len(q) + 1] = x
    BY AppendProperties
  <1>2. IsFiniteSet(Count(q, a)) /\ Cardinality(Count(q, a)) \in Nat
    <2>1. \A n \in Nat : IsFiniteSet(1..n)
      BY FS_Interval
    <2>2. Count(q, a) \in SUBSET (1..Len(q))
      BY DEF Count
    <2> QED
      BY <1>1, <2>1, <2>2, FS_Subset, FS_CardinalityType
  <1>3. Count(Append(q, x), a) = IF x = a THEN Count(q, a) \cup {Len(q) + 1} ELSE Count(q, a)
    <2>1. \A i \in 1..(Len(q) + 1) : i \in 1..Len(q) \/ i = Len(q) + 1
      BY <1>1
    <2>2. \A i \in 1..Len(q) : i \in 1..(Len(q) + 1)
      BY <1>1
    <2>3. Len(q) + 1 \in 1..(Len(q) + 1)
      BY <1>1
    <2> QED
      BY <1>1, <2>1, <2>2, <2>3 DEF Count
  <1>4. Len(q) + 1 \notin Count(q, a)
    BY <1>1 DEF Count
  <1>5. CASE x = a
    BY <1>2, <1>3, <1>4, <1>5, FS_AddElement
  <1>6. CASE x # a
    BY <1>2, <1>3, <1>6
  <1> QED
    BY <1>2, <1>5, <1>6

LEMMA TailCount ==
  ASSUME NEW S, NEW q \in Seq(S), q # <<>>, NEW a
  PROVE  Cardinality(Count(q, a)) = Cardinality(Count(Tail(q), a)) + (IF Head(q) = a THEN 1 ELSE 0)
  <1>1. /\ Len(q) \in Nat /\ Len(q) >= 1 /\ Head(q) = q[1] /\ Tail(q) \in Seq(S)
        /\ Len(Tail(q)) = Len(q) - 1
        /\ \A i \in 1..Len(Tail(q)) : Tail(q)[i] = q[i + 1]
    BY HeadTailProperties, EmptySeq
  <1>2. /\ IsFiniteSet(Count(q, a)) /\ Cardinality(Count(q, a)) \in Nat
        /\ IsFiniteSet(Count(Tail(q), a)) /\ Cardinality(Count(Tail(q), a)) \in Nat
    <2>1. \A n \in Nat : IsFiniteSet(1..n)
      BY FS_Interval
    <2>2. /\ Count(q, a) \in SUBSET (1..Len(q)) /\ Count(Tail(q), a) \in SUBSET (1..Len(Tail(q)))
          /\ Len(Tail(q)) \in Nat
      BY <1>1 DEF Count
    <2> QED
      BY <1>1, <2>1, <2>2, FS_Subset, FS_CardinalityType
  <1>3. Cardinality(Count(q, a) \ {1}) = Cardinality(Count(Tail(q), a))
    <2> DEFINE A == Count(Tail(q), a)
               B == Count(q, a) \ {1}
               f == [i \in A |-> i + 1]
    <2>1. \A i \in A : i \in Nat /\ i + 1 \in B
      BY <1>1 DEF Count
    <2>2. \A j \in B : j - 1 \in A /\ j \in Nat /\ (j - 1) + 1 = j
      BY <1>1 DEF Count
    <2> HIDE DEF A, B
    <2>3. f \in [A -> B] /\ (\A i, j \in A : f[i] = f[j] => i = j) /\ \A j \in B : \E i \in A : f[i] = j
      <3>1. f \in [A -> B]
        BY <2>1
      <3>2. \A i, j \in A : f[i] = f[j] => i = j
        BY <2>1
      <3>3. \A j \in B : f[j - 1] = j
        BY <2>1, <2>2
      <3> QED
        BY <2>2, <3>1, <3>2, <3>3
    <2>4. ExistsBijection(A, B)
      BY <2>3 DEF ExistsBijection, Bijection, Injection, Surjection, IsInjective
    <2> QED
      BY <1>2, <2>4, FS_Bijection DEF A, B
  <1>4. 1 \in Count(q, a) <=> Head(q) = a
    BY <1>1 DEF Count
  <1>5. Cardinality(Count(q, a) \ {1}) = IF 1 \in Count(q, a) THEN Cardinality(Count(q, a)) - 1
                                         ELSE Cardinality(Count(q, a))
    BY <1>2, FS_RemoveElement
  <1> DEFINE m == Cardinality(Count(q, a))
             n == Cardinality(Count(Tail(q), a))
  <1>6. m \in Nat /\ n \in Nat /\ n = IF Head(q) = a THEN m - 1 ELSE m
    BY <1>2, <1>3, <1>4, <1>5
  <1> QED
    <2> HIDE DEF m, n
    <2>1. m = n + (IF Head(q) = a THEN 1 ELSE 0)
      BY <1>6
    <2> QED
      BY <2>1 DEF m, n

\* Messages stay with their connection, and none is empty.
Message(c, m) == m # {} /\ m \subseteq {c} \X Nat

OwnMessages ==
  /\ \A c \in Conns : /\ \A i \in 1..Len(req[c]) : Message(c, req[c][i])
                      /\ \A i \in 1..Len(rsp[c]) : Message(c, rsp[c][i])
                      /\ got[c] \subseteq {c} \X Nat
                      /\ rcvd[c] <= sent[c]
  /\ \A w \in Workers : Doing(w, "push") => Message(Of(w), worker[w].msg)

\* Tasks and workers have the addresses of open connections, each its own.
InUse ==
  /\ \A c \in Conns : conn[c] = "open" => mem[addr[c]] = c
  /\ \A i \in 1..Len(tasks) : tasks[i] \in LiveAddrs
  /\ \A w \in Workers : worker[w] # Resting => worker[w].rev \in LiveAddrs
  /\ \A c \in Conns : reactor = At("reply", c) => conn[c] = "open"
  /\ \A c \in Conns : conn[c] \in {"none", "backlog"} => req[c] = <<>> /\ rsp[c] = <<>> /\ ticks[c] = 0
  /\ IsFiniteSet({w \in Workers : worker[w] # Resting})

\* A client that has left has every reply.
Settled ==
  \A c \in Conns : client[c] \in {"idle", "connected"} \/ (client[c] = "gone" /\ got[c] = {c} \X (1..sent[c]))

\* Whoever comes to take the ticks of an eventfd.
TicksReported ==
  \A c \in Conns : conn[c] = "open" /\ ticks[c] > 0 =>
    Resp(c) \in ready \cup batch \/ reactor \in {At("read", c), At("reply", c)}

Counted == /\ TaskPerRequest /\ TickPerResponse
Polite == OwnMessages /\ InUse /\ Settled /\ TicksReported /\ Counted /\ reactor # Exited
PoliteInv == StateInv /\ OnceInv /\ Polite

LEMMA LiveAddress ==
  ASSUME PoliteInv, NEW a \in LiveAddrs
  PROVE  mem[a] \in Conns /\ conn[mem[a]] = "open" /\ addr[mem[a]] = a /\ a \in Addrs
  <1>1. PICK d \in Conns : conn[d] = "open" /\ a = addr[d]
    BY DEF LiveAddrs
  <1>2. mem[a] = d /\ addr[d] \in Addrs
    BY <1>1 DEF PoliteInv, Polite, InUse, StateInv, HeapInv, Used
  <1> QED
    BY <1>1, <1>2

\* A busy worker serves an open connection.
LEMMA BusyLive ==
  ASSUME PoliteInv, NEW w \in Workers, worker[w] # Resting
  PROVE  /\ Of(w) \in Conns /\ conn[Of(w)] = "open" /\ addr[Of(w)] = worker[w].rev
         /\ worker[w].rev \in Addrs /\ worker[w].msg \in Msgs
         /\ worker[w].rev \in LiveAddrs
  <1>1. worker[w].rev \in LiveAddrs
    BY DEF PoliteInv, Polite, InUse
  <1> QED
    BY <1>1, LiveAddress, BusyWorker DEF Of, PoliteInv

LEMMA Numbers ==
  ASSUME PoliteInv, NEW c \in Conns
  PROVE  /\ IsFiniteSet(Count(tasks, addr[c])) /\ Cardinality(Count(tasks, addr[c])) \in Nat
         /\ \A where \in {"shift", "push", "write"} :
              IsFiniteSet(WorkersAt(where, c)) /\ Cardinality(WorkersAt(where, c)) \in Nat
         /\ Len(req[c]) \in Nat /\ Len(rsp[c]) \in Nat /\ ticks[c] \in Nat
         /\ \A where : Reacting(where, c) \in {0, 1}
  <1>1. tasks \in Seq(Addrs) /\ req[c] \in Seq(Msgs) /\ rsp[c] \in Seq(Msgs) /\ ticks[c] \in Nat
    BY DEF PoliteInv, StateInv, TypeInv, TypeOK
  <1>2. IsFiniteSet(Count(tasks, addr[c])) /\ Cardinality(Count(tasks, addr[c])) \in Nat
    <2>1. \A n \in Nat : IsFiniteSet(1..n)
      BY FS_Interval
    <2>2. Count(tasks, addr[c]) \in SUBSET (1..Len(tasks)) /\ Len(tasks) \in Nat
      BY <1>1 DEF Count
    <2> QED
      BY <2>1, <2>2, FS_Subset, FS_CardinalityType
  <1>3. ASSUME NEW where \in {"shift", "push", "write"}
        PROVE  IsFiniteSet(WorkersAt(where, c)) /\ Cardinality(WorkersAt(where, c)) \in Nat
    <2>1. WorkersAt(where, c) \in SUBSET {w \in Workers : worker[w] # Resting}
      BY Doings DEF WorkersAt
    <2>2. IsFiniteSet({w \in Workers : worker[w] # Resting})
      BY DEF PoliteInv, Polite, InUse
    <2> QED
      BY <2>1, <2>2, FS_Subset, FS_CardinalityType
  <1> QED
    BY <1>1, <1>2, <1>3 DEF Reacting

\* The two counts of an open connection.
LEMMA Counts ==
  ASSUME PoliteInv, NEW c \in Conns, conn[c] = "open"
  PROVE  /\ Len(req[c]) = Cardinality(Count(tasks, addr[c])) + Cardinality(WorkersAt("shift", c))
                            + Reacting("add", c)
         /\ Len(rsp[c]) = ticks[c] + Cardinality(WorkersAt("write", c)) + Reacting("reply", c)
  BY DEF PoliteInv, Polite, Counted, TaskPerRequest, TickPerResponse, Count

\* Nothing is under way for a client that has left.
LEMMA NothingLeft ==
  ASSUME PoliteInv, NEW c \in Conns, client[c] \notin {"idle", "connected"}
  PROVE  /\ req[c] = <<>> /\ rsp[c] = <<>> /\ rcvd[c] = sent[c]
         /\ conn[c] = "open" => /\ Count(tasks, addr[c]) = {} /\ WorkersAt("shift", c) = {}
                                /\ WorkersAt("write", c) = {} /\ WorkersAt("push", c) = {}
                                /\ ticks[c] = 0
  <1>1. /\ got[c] = {c} \X (1..sent[c]) /\ client[c] = "gone"
        /\ sent[c] \in Nat /\ rcvd[c] \in Nat /\ rcvd[c] <= sent[c]
        /\ req[c] \in Seq(Msgs) /\ rsp[c] \in Seq(Msgs)
        /\ got[c] \in Msgs
    BY DEF PoliteInv, Polite, Settled, OwnMessages, StateInv, TypeInv, TypeOK
  <1>2. ASSUME NEW m \in Msgs, Message(c, m)
        PROVE  \E r \in Requests : /\ r \in m /\ (r[2] <= rcvd[r[1]] => Receivers(r) # {})
    <2>1. PICK r \in m : TRUE
      BY <1>2 DEF Message
    <2>2. r \in Requests /\ r[1] = c /\ r \in {c} \X Nat
      BY <1>2, <2>1 DEF Message, Msgs
    <2>3. r[2] >= 1 /\ r[2] \in Nat /\ r = <<c, r[2]>>
      <3>1. \E d \in Conns : r \in {d} \X (1..MaxReq[d])
        BY <2>2 DEF Requests
      <3> QED
        BY <2>2, <3>1, ReactorAssumption
    <2>4. ASSUME r[2] <= rcvd[c] PROVE Receivers(r) # {}
      <3>1. r[2] \in 1..sent[c]
        BY <1>1, <2>3, <2>4
      <3>2. r \in got[c]
        BY <1>1, <2>3, <3>1
      <3> QED
        BY <3>2 DEF Receivers
    <2> QED
      BY <2>1, <2>2, <2>4
  <1>3. req[c] = <<>>
    <2> SUFFICES ASSUME req[c] # <<>> PROVE FALSE
      OBVIOUS
    <2>1. 1 \in 1..Len(req[c]) /\ req[c][1] \in Msgs
      BY <1>1, EmptySeq
    <2>2. PICK r \in Requests : r \in req[c][1] /\ (r[2] <= rcvd[r[1]] => Receivers(r) # {})
      BY <1>2, <2>1 DEF PoliteInv, Polite, OwnMessages
    <2>3. ~ Nowhere(r, req)
      BY <2>1, <2>2 DEF Nowhere
    <2> QED
      BY <2>2, <2>3 DEF PoliteInv, OnceInv, RequestOnce, OnePlace
  <1>4. rsp[c] = <<>>
    <2> SUFFICES ASSUME rsp[c] # <<>> PROVE FALSE
      OBVIOUS
    <2>1. 1 \in 1..Len(rsp[c]) /\ rsp[c][1] \in Msgs
      BY <1>1, EmptySeq
    <2>2. PICK r \in Requests : r \in rsp[c][1] /\ (r[2] <= rcvd[r[1]] => Receivers(r) # {})
      BY <1>2, <2>1 DEF PoliteInv, Polite, OwnMessages
    <2>3. ~ Nowhere(r, rsp)
      BY <2>1, <2>2 DEF Nowhere
    <2> QED
      BY <2>2, <2>3 DEF PoliteInv, OnceInv, RequestOnce, OnePlace
  <1>5. rcvd[c] = sent[c]
    <2> SUFFICES ASSUME rcvd[c] < sent[c] PROVE FALSE
      BY <1>1
    <2> DEFINE r == <<c, sent[c]>>
    <2>1. r \in got[c] /\ r \in Requests
      BY <1>1 DEF Msgs
    <2>2. Receivers(r) # {}
      BY <2>1 DEF Receivers
    <2>3. r[2] <= rcvd[r[1]]
      BY <2>1, <2>2 DEF PoliteInv, OnceInv, RequestOnce, OnePlace
    <2> QED
      BY <1>1, <2>3
  <1>6. WorkersAt("push", c) = {}
    <2> SUFFICES ASSUME NEW w \in WorkersAt("push", c) PROVE FALSE
      OBVIOUS
    <2>1. w \in Workers /\ Doing(w, "push") /\ Of(w) = c
      BY DEF WorkersAt
    <2>2. worker[w].msg \in Msgs /\ Message(c, worker[w].msg)
      BY <2>1, Doings, BusyLive DEF PoliteInv, Polite, OwnMessages
    <2>3. PICK r \in Requests : r \in worker[w].msg /\ (r[2] <= rcvd[r[1]] => Receivers(r) # {})
      BY <1>2, <2>2
    <2>4. Pushing(r) # {}
      BY <2>1, <2>3 DEF Pushing
    <2> QED
      BY <2>3, <2>4 DEF PoliteInv, OnceInv, RequestOnce, OnePlace
  <1>7. ASSUME conn[c] = "open"
        PROVE  /\ Count(tasks, addr[c]) = {} /\ WorkersAt("shift", c) = {}
               /\ WorkersAt("write", c) = {} /\ ticks[c] = 0
    <2>1. Len(req[c]) = 0 /\ Len(rsp[c]) = 0
      BY <1>3, <1>4
    <2>2. /\ Cardinality(Count(tasks, addr[c])) = 0 /\ Cardinality(WorkersAt("shift", c)) = 0
          /\ Cardinality(WorkersAt("write", c)) = 0 /\ ticks[c] = 0
      BY <1>7, <2>1, Counts, Numbers
    <2> QED
      BY <2>2, Numbers, FS_EmptySet
  <1> QED
    BY <1>3, <1>4, <1>5, <1>6, <1>7

\* The branches of the code that never run: an empty queue of requests or of
\* responses, and the errors of recv and send.
LEMMA NeverRuns ==
  ASSUME PoliteInv
  PROVE  /\ \A w \in Workers : ~ NoReq(w)
         /\ \A c \in Conns : ~ NoReply(c) /\ ~ ReplyFails(c) /\ ~ RecvFails(c)
  <1>1. ASSUME NEW w \in Workers, NoReq(w) PROVE FALSE
    <2>1. worker[w] # Resting /\ Doing(w, "shift") /\ req[Of(w)] = <<>>
      BY <1>1, Doings DEF NoReq
    <2>2. Of(w) \in Conns /\ conn[Of(w)] = "open" /\ w \in WorkersAt("shift", Of(w))
      BY <2>1, BusyLive DEF WorkersAt
    <2>3. Cardinality(WorkersAt("shift", Of(w))) = 0
      BY <2>1, <2>2, Counts, Numbers
    <2> QED
      BY <2>2, <2>3, Numbers, FS_EmptySet
  <1>2. ASSUME NEW c \in Conns, reactor = At("reply", c)
        PROVE  conn[c] = "open" /\ rsp[c] # <<>> /\ client[c] = "connected"
    <2>1. conn[c] = "open" /\ client[c] # "idle"
      BY <1>2 DEF PoliteInv, Polite, InUse, StateInv, HeapInv
    <2>2. Reacting("reply", c) = 1
      BY <1>2 DEF Reacting
    <2>3. Len(rsp[c]) # 0
      BY <2>1, <2>2, Counts, Numbers
    <2> QED
      BY <2>1, <2>3, NothingLeft
  <1>3. ASSUME NEW c \in Conns, RecvFails(c) PROVE FALSE
    BY <1>3 DEF RecvFails, PoliteInv, Polite, Settled
  <1> QED
    BY <1>1, <1>2, <1>3 DEF NoReply, ReplyFails

-----------------------------------------------------------------------------
(* Each part of the invariant is kept.  First, what the steps of the three  *)
(* actors leave alone; the steps that never happen are left out.            *)

LEMMA WorkersLeave ==
  ASSUME PoliteInv, NEW w \in Workers, Worker(w)
  PROVE  /\ UNCHANGED <<client, sent, got, replies, conn, rcvd, addr, mem, batch, reactor>>
         /\ worker'[w] \in WorkerStates /\ worker' = [worker EXCEPT ![w] = worker'[w]]
         /\ TakeTask(w) \/ ShiftReq(w) \/ PushRsp(w) \/ WriteTick(w)
  <1>1. UNCHANGED <<client, sent, got, replies, conn, rcvd, addr, mem, batch, reactor>>
    BY DEF Worker, TakeTask, ShiftReq, NoReq, PushRsp, WriteTick, netVars, sockVars, epollVars
  <1>2. /\ worker \in [Workers -> WorkerStates]
        /\ \E s : worker' = [worker EXCEPT ![w] = s]
    BY DEF Worker, TakeTask, ShiftReq, NoReq, PushRsp, WriteTick, PoliteInv, StateInv, TypeInv, TypeOK
  <1>3. worker' \in [Workers -> WorkerStates]
    BY WorkersType DEF PoliteInv, TypeInv, TypeOK
  <1>4. worker'[w] \in WorkerStates /\ worker' = [worker EXCEPT ![w] = worker'[w]]
    BY <1>2, <1>3
  <1> QED
    BY <1>1, <1>4, NeverRuns DEF Worker

LEMMA ReactorLeaves ==
  ASSUME PoliteInv, Reactor
  PROVE  /\ UNCHANGED <<client, sent, worker>>
         /\ \/ EpollWait \/ Dispatch \/ AcceptDone
            \/ \E c \in Conns : \/ AcceptOne(c) \/ Recv(c) \/ AddTask(c) \/ RecvNothing(c) \/ Close(c)
                                \/ ReadTick(c) \/ NoTick(c) \/ Reply(c)
  <1>1. \/ EpollWait \/ Dispatch \/ AcceptDone
        \/ \E c \in Conns : \/ AcceptOne(c) \/ Recv(c) \/ AddTask(c) \/ RecvNothing(c) \/ Close(c)
                            \/ ReadTick(c) \/ NoTick(c) \/ Reply(c)
    BY NeverRuns DEF Reactor
  <1>2. UNCHANGED <<client, sent, worker>>
    BY <1>1 DEF EpollWait, Dispatch, AcceptDone, AcceptOne, Recv, AddTask, RecvNothing, Close, ReadTick,
       NoTick, Reply, netVars
  <1> QED
    BY <1>1, <1>2

\* The address a new connection gets is not one that is in use.
LEMMA NewAddress ==
  ASSUME PoliteInv, NEW c \in Conns, AcceptOne(c)
  PROVE  /\ addr' = [addr EXCEPT ![c] = addr'[c]] /\ mem' = [mem EXCEPT ![addr'[c]] = c]
         /\ addr'[c] \in Addrs \ LiveAddrs
         /\ conn[c] = "backlog" /\ conn' = [conn EXCEPT ![c] = "open"]
         /\ LiveAddrs' = LiveAddrs \cup {addr'[c]}
         /\ \A a \in LiveAddrs : mem'[a] = mem[a]
  <1>1. /\ addr \in [Conns -> Addrs \cup {Null}] /\ mem \in [Addrs -> Conns \cup {Null}]
        /\ conn \in [Conns -> {"none", "backlog", "open", "closed"}]
    BY DEF PoliteInv, StateInv, TypeInv, TypeOK
  <1>2. PICK a \in Addrs \ LiveAddrs : addr' = [addr EXCEPT ![c] = a] /\ mem' = [mem EXCEPT ![a] = c]
    BY DEF AcceptOne
  <1>3. conn[c] = "backlog" /\ conn' = [conn EXCEPT ![c] = "open"]
    BY DEF AcceptOne
  <1>4. addr'[c] = a
    BY <1>1, <1>2
  <1>5. LiveAddrs' = LiveAddrs \cup {a}
    <2>1. \A d \in Conns : conn'[d] = "open" <=> d = c \/ conn[d] = "open"
      BY <1>1, <1>3
    <2>2. \A d \in Conns : addr'[d] = IF d = c THEN a ELSE addr[d]
      BY <1>1, <1>2
    <2> QED
      BY <1>3, <2>1, <2>2 DEF LiveAddrs
  <1>6. \A b \in LiveAddrs : mem'[b] = mem[b]
    BY <1>1, <1>2, LiveAddress
  <1> QED
    BY <1>2, <1>3, <1>4, <1>5, <1>6

-----------------------------------------------------------------------------
(* OwnMessages: recv, the workers and send keep a message with its client. *)

LEMMA OwnKept ==
  ASSUME OwnMessages, UNCHANGED <<req, rsp, got, rcvd, sent>>,
         \A w \in Workers : Doing(w, "push")' =>
            Doing(w, "push") /\ worker'[w].msg = worker[w].msg /\ Of(w)' = Of(w)
  PROVE  OwnMessages'
  BY DEF OwnMessages, Message

LEMMA ClientsOwn ==
  ASSUME PoliteInv, NEW c \in Conns, Connect(c) \/ Send(c) \/ Leave(c)
  PROVE  OwnMessages'
  <1>1. /\ OwnMessages /\ sent \in [Conns -> Nat] /\ rcvd \in [Conns -> Nat]
    BY DEF PoliteInv, Polite, StateInv, TypeInv, TypeOK
  <1>2. /\ UNCHANGED <<req, rsp, got, rcvd, worker, mem>>
        /\ sent' = sent \/ sent' = [sent EXCEPT ![c] = @ + 1]
    BY DEF Connect, Send, Leave, sockVars, queueVars
  <1>3. \A d \in Conns : rcvd'[d] <= sent'[d]
    BY <1>1, <1>2 DEF OwnMessages
  <1> QED
    BY <1>1, <1>2, <1>3 DEF OwnMessages, Message, Doing, Of

LEMMA WorkersOwn ==
  ASSUME PoliteInv, NEW w \in Workers, Worker(w)
  PROVE  OwnMessages'
  <1>1. /\ OwnMessages /\ req \in Queues /\ rsp \in Queues /\ worker \in [Workers -> WorkerStates]
        /\ UNCHANGED <<got, rcvd, sent, mem>>
    BY WorkersLeave DEF PoliteInv, Polite, StateInv, TypeInv, TypeOK, Queues
  <1>2. \A v \in Workers : v # w => worker'[v] = worker[v]
    BY <1>1, WorkersLeave
  <1>3. CASE TakeTask(w) \/ WriteTick(w)
    <2>1. worker'[w].at # "push" /\ UNCHANGED <<req, rsp>>
      BY <1>1, <1>3 DEF TakeTask, WriteTick, Busy, Resting
    <2> QED
      BY <1>1, <1>2, <2>1, OwnKept DEF Doing, Of
  <1>4. CASE ShiftReq(w)
    <2>1. worker[w] # Resting
      BY <1>4, Doings DEF ShiftReq
    <2> DEFINE c == Of(w)
               m == Head(req[c])
    <2>2. c \in Conns
      BY <2>1, BusyLive
    <2>3. /\ req[c] # <<>> /\ req' = [req EXCEPT ![c] = Tail(req[c])] /\ rsp' = rsp
          /\ worker'[w] = Busy("push", worker[w].rev, m)
      BY <1>1, <1>4 DEF ShiftReq
    <2>4. req[c] \in Seq(Msgs) /\ req'[c] = Tail(req[c]) /\ \A d \in Conns : d # c => req'[d] = req[d]
      BY <1>1, <2>2, <2>3 DEF Queues
    <2>5. m = req[c][1] /\ 1 \in 1..Len(req[c])
      BY <2>3, <2>4, EmptySeq
    <2>6. \A i \in 1..Len(Tail(req[c])) : Tail(req[c])[i] = req[c][i + 1] /\ i + 1 \in 1..Len(req[c])
      BY <2>3, <2>4, HeadTailProperties
    <2>7. \A d \in Conns : \A i \in 1..Len(req'[d]) : Message(d, req'[d][i])
      BY <1>1, <2>2, <2>4, <2>6 DEF OwnMessages
    <2>8. worker'[w].msg = m /\ Of(w)' = c /\ Message(c, m)
      BY <1>1, <2>2, <2>3, <2>5 DEF OwnMessages, Busy, Of
    <2>9. \A v \in Workers : v # w => Of(v)' = Of(v) /\ (Doing(v, "push")' => Doing(v, "push"))
      BY <1>1, <1>2 DEF Doing, Of
    <2> QED
      BY <1>1, <1>2, <2>3, <2>7, <2>8, <2>9 DEF OwnMessages, Message
  <1>5. CASE PushRsp(w)
    <2>1. worker[w] # Resting /\ Doing(w, "push")
      BY <1>5, Doings DEF PushRsp
    <2> DEFINE c == Of(w)
               m == worker[w].msg
    <2>2. c \in Conns /\ m \in Msgs /\ Message(c, m)
      BY <1>1, <2>1, BusyLive DEF OwnMessages
    <2>3. /\ rsp' = [rsp EXCEPT ![c] = Append(rsp[c], m)] /\ req' = req
          /\ worker'[w].at # "push"
      BY <1>1, <1>5, <2>2 DEF PushRsp, Busy
    <2>4. rsp[c] \in Seq(Msgs) /\ rsp'[c] = Append(rsp[c], m) /\ \A d \in Conns : d # c => rsp'[d] = rsp[d]
      BY <1>1, <2>2, <2>3 DEF Queues
    <2>5. \A i \in 1..Len(rsp'[c]) : Message(c, rsp'[c][i])
      <3>1. /\ Len(rsp'[c]) = Len(rsp[c]) + 1 /\ Len(rsp[c]) \in Nat
            /\ \A i \in 1..Len(rsp[c]) : rsp'[c][i] = rsp[c][i]
            /\ rsp'[c][Len(rsp[c]) + 1] = m
        BY <2>2, <2>4, AppendProperties
      <3>2. \A i \in 1..Len(rsp'[c]) : i \in 1..Len(rsp[c]) \/ i = Len(rsp[c]) + 1
        BY <3>1
      <3> QED
        BY <1>1, <2>2, <3>1, <3>2 DEF OwnMessages
    <2>6. \A v \in Workers : v # w => Of(v)' = Of(v) /\ (Doing(v, "push")' => Doing(v, "push"))
      BY <1>1, <1>2 DEF Doing, Of
    <2>7. ~ Doing(w, "push")'
      BY <2>3 DEF Doing
    <2>8. \A d \in Conns : \A i \in 1..Len(rsp'[d]) : Message(d, rsp'[d][i])
      BY <1>1, <2>4, <2>5 DEF OwnMessages
    <2> QED
      BY <1>1, <1>2, <2>3, <2>6, <2>7, <2>8 DEF OwnMessages, Message
  <1> QED
    BY <1>3, <1>4, <1>5, WorkersLeave

LEMMA ReactorOwn ==
  ASSUME PoliteInv, Reactor
  PROVE  OwnMessages'
  <1>1. /\ OwnMessages /\ UNCHANGED <<sent, worker>>
        /\ req \in Queues /\ rsp \in Queues /\ got \in [Conns -> Msgs]
        /\ sent \in [Conns -> Nat] /\ rcvd \in [Conns -> Nat]
    BY ReactorLeaves DEF PoliteInv, Polite, StateInv, TypeInv, TypeOK, Queues
  <1>2. CASE EpollWait \/ Dispatch \/ AcceptDone
             \/ \E c \in Conns : AddTask(c) \/ RecvNothing(c) \/ Close(c) \/ ReadTick(c) \/ NoTick(c)
    <2>1. UNCHANGED <<req, rsp, got, rcvd, mem>>
      BY <1>2 DEF EpollWait, Dispatch, AcceptDone, AddTask, RecvNothing, Close, ReadTick, NoTick,
         netVars, sockVars, queueVars
    <2> QED
      BY <1>1, <2>1, OwnKept DEF Doing, Of
  <1>3. ASSUME NEW c \in Conns, AcceptOne(c)
        PROVE  OwnMessages'
    <2>1. UNCHANGED <<req, rsp, got, rcvd>>
      BY <1>3 DEF AcceptOne, netVars, queueVars
    <2>2. \A w \in Workers : Doing(w, "push") => Of(w)' = Of(w)
      BY <1>1, <1>3, NewAddress, BusyLive, Doings DEF Of
    <2> QED
      BY <1>1, <2>1, <2>2, OwnKept DEF Doing
  <1>4. ASSUME NEW c \in Conns, Recv(c)
        PROVE  OwnMessages'
    <2>1. PICK n \in (rcvd[c] + 1)..sent[c] :
                 /\ req' = [req EXCEPT ![c] = Append(@, {c} \X ((rcvd[c] + 1)..n))]
                 /\ rcvd' = [rcvd EXCEPT ![c] = n]
      BY <1>4 DEF Recv
    <2> DEFINE m == {c} \X ((rcvd[c] + 1)..n)
    <2>2. /\ rcvd[c] \in Nat /\ sent[c] \in Nat /\ n \in Nat /\ n > rcvd[c] /\ n <= sent[c]
          /\ sent[c] <= MaxReq[c] /\ MaxReq[c] \in Nat
      <3>1. rcvd[c] \in Nat /\ sent[c] \in Nat /\ sent[c] <= MaxReq[c]
        BY <1>1 DEF PoliteInv, StateInv, TypeInv
      <3>2. MaxReq[c] \in Nat
        BY ReactorAssumption
      <3> QED
        BY <2>1, <3>1, <3>2
    <2>3. m \in Msgs /\ Message(c, m)
      <3>1. <<c, n>> \in m
        BY <2>2
      <3> QED
        BY <2>2, <3>1 DEF Msgs, Requests, Message
    <2> HIDE DEF m
    <2>4. /\ rsp' = rsp /\ got' = got /\ mem' = mem
          /\ req' = [req EXCEPT ![c] = Append(req[c], m)]
      BY <1>1, <1>4, <2>1 DEF Recv, netVars, m
    <2>5. req[c] \in Seq(Msgs) /\ req'[c] = Append(req[c], m) /\ \A d \in Conns : d # c => req'[d] = req[d]
      BY <1>1, <2>4 DEF Queues
    <2>6. \A i \in 1..Len(req'[c]) : Message(c, req'[c][i])
      <3>1. /\ Len(req'[c]) = Len(req[c]) + 1 /\ Len(req[c]) \in Nat
            /\ \A i \in 1..Len(req[c]) : req'[c][i] = req[c][i]
            /\ req'[c][Len(req[c]) + 1] = m
        BY <2>3, <2>5, AppendProperties
      <3>2. \A i \in 1..Len(req'[c]) : i \in 1..Len(req[c]) \/ i = Len(req[c]) + 1
        BY <3>1
      <3> QED
        BY <1>1, <2>3, <3>1, <3>2 DEF OwnMessages
    <2>7. \A d \in Conns : \A i \in 1..Len(req'[d]) : Message(d, req'[d][i])
      BY <1>1, <2>5, <2>6 DEF OwnMessages
    <2>8. \A d \in Conns : rcvd'[d] <= sent[d]
      BY <1>1, <2>1, <2>2 DEF OwnMessages
    <2> QED
      BY <1>1, <2>4, <2>7, <2>8 DEF OwnMessages, Message, Doing, Of
  <1>5. ASSUME NEW c \in Conns, Reply(c)
        PROVE  OwnMessages'
    <2>1. /\ rsp[c] # <<>> /\ rsp' = [rsp EXCEPT ![c] = Tail(rsp[c])]
          /\ UNCHANGED <<req, rcvd, mem>>
          /\ got' = [got EXCEPT ![c] = got[c] \cup Head(rsp[c])]
      BY <1>5 DEF Reply, sockVars
    <2>2. rsp[c] \in Seq(Msgs) /\ rsp'[c] = Tail(rsp[c]) /\ \A d \in Conns : d # c => rsp'[d] = rsp[d]
      BY <1>1, <2>1 DEF Queues
    <2>3. \A i \in 1..Len(Tail(rsp[c])) : Tail(rsp[c])[i] = rsp[c][i + 1] /\ i + 1 \in 1..Len(rsp[c])
      BY <2>1, <2>2, HeadTailProperties
    <2>4. Head(rsp[c]) = rsp[c][1] /\ 1 \in 1..Len(rsp[c])
      BY <2>1, <2>2, EmptySeq
    <2>5. \A d \in Conns : \A i \in 1..Len(rsp'[d]) : Message(d, rsp'[d][i])
      BY <1>1, <2>2, <2>3 DEF OwnMessages
    <2>6. \A d \in Conns : got'[d] \subseteq {d} \X Nat
      <3>1. Head(rsp[c]) \subseteq {c} \X Nat /\ \A d \in Conns : got[d] \subseteq {d} \X Nat
        BY <1>1, <2>4 DEF OwnMessages, Message
      <3>2. \A d \in Conns : got'[d] = IF d = c THEN got[c] \cup Head(rsp[c]) ELSE got[d]
        BY <1>1, <2>1
      <3> QED
        BY <3>1, <3>2
    <2> QED
      BY <1>1, <2>1, <2>5, <2>6 DEF OwnMessages, Message, Doing, Of
  <1> QED
    BY <1>2, <1>3, <1>4, <1>5, ReactorLeaves

-----------------------------------------------------------------------------
(* InUse: accept takes an address that is not in use, and close finds no   *)
(* task and no worker that has the one it frees.                           *)

LEMMA ClientsInUse ==
  ASSUME PoliteInv, NEW c \in Conns, Connect(c) \/ Send(c) \/ Leave(c)
  PROVE  InUse'
  <1>1. InUse /\ conn \in [Conns -> {"none", "backlog", "open", "closed"}]
    BY DEF PoliteInv, Polite, StateInv, TypeInv, TypeOK
  <1>2. UNCHANGED <<addr, mem, req, rsp, ticks, tasks, reactor, worker>>
    BY DEF Connect, Send, Leave, sockVars, queueVars
  <1>3. \A d \in Conns : /\ conn[d] = "open" <=> conn'[d] = "open"
                         /\ conn'[d] \in {"none", "backlog"} => conn[d] \in {"none", "backlog"}
    <2>1. CASE Connect(c)
      <3>1. conn[c] = "none" /\ conn' = [conn EXCEPT ![c] = "backlog"]
        BY <2>1 DEF Connect, PoliteInv, StateInv, HeapInv
      <3> QED
        BY <1>1, <3>1
    <2>2. CASE Send(c) \/ Leave(c)
      BY <2>2 DEF Send, Leave, sockVars
    <2> QED
      BY <2>1, <2>2
  <1>4. LiveAddrs' = LiveAddrs
    BY <1>2, <1>3 DEF LiveAddrs
  <1> QED
    BY <1>1, <1>2, <1>3, <1>4 DEF InUse

LEMMA WorkersInUse ==
  ASSUME PoliteInv, NEW w \in Workers, Worker(w)
  PROVE  InUse'
  <1>1. /\ InUse /\ worker \in [Workers -> WorkerStates]
        /\ req \in Queues /\ rsp \in Queues /\ ticks \in [Conns -> Nat] /\ tasks \in Seq(Addrs)
        /\ UNCHANGED <<conn, addr, mem, reactor>>
        /\ LiveAddrs' = LiveAddrs
    BY WorkersLeave DEF PoliteInv, Polite, StateInv, TypeInv, TypeOK, Queues, LiveAddrs
  <1>2. \A v \in Workers : v # w => worker'[v] = worker[v]
    BY <1>1, WorkersLeave
  <1>3. IsFiniteSet({v \in Workers : worker'[v] # Resting})
    <2> DEFINE B == {v \in Workers : worker[v] # Resting}
               C == {v \in Workers : worker'[v] # Resting}
    <2>1. IsFiniteSet(B) /\ C \in SUBSET (B \cup {w})
      BY <1>1, <1>2 DEF InUse
    <2> HIDE DEF B, C
    <2>2. IsFiniteSet(C)
      BY <2>1, FS_AddElement, FS_Subset
    <2> QED
      BY <2>2 DEF C
  <1>4. CASE TakeTask(w)
    <2>1. /\ tasks # <<>> /\ tasks' = Tail(tasks) /\ worker'[w] = Busy("shift", Head(tasks), {})
          /\ UNCHANGED <<req, rsp, ticks>>
      BY <1>1, <1>4 DEF TakeTask
    <2>2. /\ Head(tasks) = tasks[1] /\ 1 \in 1..Len(tasks)
          /\ \A i \in 1..Len(tasks') : tasks'[i] = tasks[i + 1] /\ i + 1 \in 1..Len(tasks)
      BY <1>1, <2>1, HeadTailProperties, EmptySeq
    <2>3. worker'[w].rev \in LiveAddrs
      BY <1>1, <2>1, <2>2 DEF Busy, InUse
    <2>4. \A i \in 1..Len(tasks') : tasks'[i] \in LiveAddrs
      BY <1>1, <2>2 DEF InUse
    <2> QED
      BY <1>1, <1>2, <1>3, <2>1, <2>3, <2>4 DEF InUse
  <1>5. CASE ShiftReq(w) \/ PushRsp(w) \/ WriteTick(w)
    <2>1. worker[w] # Resting
      BY <1>5, Doings DEF ShiftReq, PushRsp, WriteTick
    <2>2. Of(w) \in Conns /\ conn[Of(w)] = "open" /\ worker[w].rev \in LiveAddrs
      BY <2>1, BusyLive
    <2>3. /\ tasks' = tasks
          /\ worker'[w] = Resting \/ worker'[w].rev = worker[w].rev
          /\ \A d \in Conns : d # Of(w) => req'[d] = req[d] /\ rsp'[d] = rsp[d] /\ ticks'[d] = ticks[d]
      BY <1>1, <1>5, <2>2 DEF ShiftReq, PushRsp, WriteTick, Busy, Queues
    <2> QED
      BY <1>1, <1>2, <1>3, <2>2, <2>3 DEF InUse
  <1> QED
    BY <1>4, <1>5, WorkersLeave

LEMMA ReactorInUse ==
  ASSUME PoliteInv, Reactor
  PROVE  InUse'
  <1>1. /\ InUse /\ worker' = worker
        /\ req \in Queues /\ rsp \in Queues /\ ticks \in [Conns -> Nat] /\ tasks \in Seq(Addrs)
        /\ addr \in [Conns -> Addrs \cup {Null}] /\ mem \in [Addrs -> Conns \cup {Null}]
        /\ conn \in [Conns -> {"none", "backlog", "open", "closed"}]
    BY ReactorLeaves DEF PoliteInv, Polite, StateInv, TypeInv, TypeOK, Queues
  <1>2. CASE EpollWait \/ Dispatch \/ AcceptDone \/ \E c \in Conns : RecvNothing(c) \/ NoTick(c)
    <2>1. UNCHANGED <<conn, addr, mem, req, rsp, ticks, tasks>>
      BY <1>2 DEF EpollWait, Dispatch, AcceptDone, RecvNothing, NoTick, sockVars, queueVars
    <2>2. \A d \in Conns : reactor' # At("reply", d)
      <3>1. \/ reactor' \in {Idle, Loop, [at |-> "accept"]}
            \/ \E c \in Conns : reactor' \in {At("recv", c), At("read", c)}
        BY <1>2 DEF EpollWait, Dispatch, AcceptDone, RecvNothing, NoTick, Return
      <3> QED
        BY <3>1, Handling DEF Handlers
    <2> QED
      BY <1>1, <2>1, <2>2 DEF InUse, LiveAddrs
  <1>3. ASSUME NEW c \in Conns, AcceptOne(c)
        PROVE  InUse'
    <2>1. UNCHANGED <<req, rsp, ticks, tasks, reactor>>
      BY <1>3 DEF AcceptOne, queueVars
    <2>2. /\ addr' = [addr EXCEPT ![c] = addr'[c]] /\ mem' = [mem EXCEPT ![addr'[c]] = c]
          /\ addr'[c] \in Addrs \ LiveAddrs
          /\ conn[c] = "backlog" /\ conn' = [conn EXCEPT ![c] = "open"]
          /\ LiveAddrs' = LiveAddrs \cup {addr'[c]}
          /\ \A a \in LiveAddrs : mem'[a] = mem[a]
      BY <1>3, NewAddress
    <2>3. \A d \in Conns : conn'[d] = "open" => mem'[addr'[d]] = d
      <3>1. ASSUME NEW d \in Conns, conn'[d] = "open", d # c
            PROVE  mem'[addr'[d]] = d
        <4>1. conn[d] = "open" /\ addr'[d] = addr[d] /\ addr[d] \in LiveAddrs
          BY <1>1, <2>2, <3>1 DEF LiveAddrs
        <4> QED
          BY <1>1, <2>2, <4>1 DEF InUse
      <3>2. mem'[addr'[c]] = c
        BY <1>1, <2>2
      <3> QED
        BY <3>1, <3>2
    <2>4. \A d \in Conns : /\ d # c => conn'[d] = conn[d]
                           /\ conn'[c] = "open"
      BY <1>1, <2>2
    <2>5. \A d \in Conns : reactor = At("reply", d) => conn'[d] = "open"
      BY <1>1, <2>4 DEF InUse
    <2> QED
      BY <1>1, <2>1, <2>2, <2>3, <2>4, <2>5 DEF InUse
  <1>4. ASSUME NEW c \in Conns, Recv(c) \/ AddTask(c) \/ Close(c)
        PROVE  /\ conn[c] = "open" /\ addr[c] \in LiveAddrs
               /\ \A d \in Conns : reactor' # At("reply", d)
    <2>1. conn[c] = "open" /\ addr[c] \in LiveAddrs
      BY <1>4 DEF Recv, AddTask, Close, PoliteInv, StateInv, HeapInv, CallsFindOpen, LiveAddrs
    <2>2. reactor' \in {Idle, Loop, At("recv", c), At("add", c)}
      BY <1>4 DEF Recv, AddTask, Close, Return
    <2> QED
      BY <2>1, <2>2, Handling DEF Handlers
  <1>5. ASSUME NEW c \in Conns, Recv(c)
        PROVE  InUse'
    <2>1. /\ UNCHANGED <<conn, addr, mem, rsp, ticks, tasks>>
          /\ \A d \in Conns : d # c => req'[d] = req[d]
      BY <1>1, <1>5 DEF Recv, Queues
    <2>2. conn[c] = "open" /\ \A d \in Conns : reactor' # At("reply", d)
      BY <1>4, <1>5
    <2> QED
      BY <1>1, <2>1, <2>2 DEF InUse, LiveAddrs
  <1>6. ASSUME NEW c \in Conns, AddTask(c)
        PROVE  InUse'
    <2>1. /\ UNCHANGED <<conn, addr, mem, req, rsp, ticks>>
          /\ tasks' = Append(tasks, addr[c])
      BY <1>6 DEF AddTask, sockVars
    <2>2. addr[c] \in LiveAddrs /\ addr[c] \in Addrs /\ \A d \in Conns : reactor' # At("reply", d)
      BY <1>4, <1>6, LiveAddress
    <2>3. \A i \in 1..Len(tasks') : tasks'[i] \in LiveAddrs
      <3>1. /\ Len(tasks') = Len(tasks) + 1 /\ Len(tasks) \in Nat
            /\ \A i \in 1..Len(tasks) : tasks'[i] = tasks[i]
            /\ tasks'[Len(tasks) + 1] = addr[c]
        BY <1>1, <2>1, <2>2, AppendProperties
      <3>2. \A i \in 1..Len(tasks') : i \in 1..Len(tasks) \/ i = Len(tasks) + 1
        BY <3>1
      <3> QED
        BY <1>1, <2>2, <3>1, <3>2 DEF InUse
    <2>4. LiveAddrs' = LiveAddrs
      BY <2>1 DEF LiveAddrs
    <2> QED
      BY <1>1, <2>1, <2>2, <2>3, <2>4 DEF InUse
  <1>7. ASSUME NEW c \in Conns, Close(c)
        PROVE  InUse'
    <2>1. /\ UNCHANGED <<addr, mem, req, rsp, ticks, tasks>>
          /\ conn' = [conn EXCEPT ![c] = "closed"]
      BY <1>7 DEF Close, queueVars
    <2>2. conn[c] = "open" /\ \A d \in Conns : reactor' # At("reply", d)
      BY <1>4, <1>7
    <2>3. /\ Count(tasks, addr[c]) = {} /\ WorkersAt("shift", c) = {}
          /\ WorkersAt("push", c) = {} /\ WorkersAt("write", c) = {}
      BY <1>7, <2>2, NothingLeft DEF Close
    <2>4. /\ conn'[c] = "closed" /\ \A d \in Conns : d # c => conn'[d] = conn[d]
          /\ \A d \in Conns : conn[d] = "open" /\ d # c => addr[d] \in LiveAddrs'
      BY <1>1, <2>1 DEF LiveAddrs
    <2>5. \A i \in 1..Len(tasks) : tasks[i] \in LiveAddrs'
      <3> SUFFICES ASSUME NEW i \in 1..Len(tasks) PROVE tasks[i] \in LiveAddrs'
        OBVIOUS
      <3>1. tasks[i] \in LiveAddrs /\ tasks[i] # addr[c]
        BY <1>1, <2>3 DEF InUse, Count
      <3>2. PICK d \in Conns : conn[d] = "open" /\ tasks[i] = addr[d]
        BY <3>1 DEF LiveAddrs
      <3> QED
        BY <2>4, <3>1, <3>2
    <2>6. \A w \in Workers : worker[w] # Resting => worker[w].rev \in LiveAddrs'
      <3> SUFFICES ASSUME NEW w \in Workers, worker[w] # Resting PROVE worker[w].rev \in LiveAddrs'
        OBVIOUS
      <3>1. Of(w) # c
        BY <2>3, BusyWorker DEF WorkersAt, Doing, PoliteInv
      <3> QED
        BY <2>4, <3>1, BusyLive
    <2> QED
      BY <1>1, <2>1, <2>2, <2>4, <2>5, <2>6 DEF InUse
  <1>8. ASSUME NEW c \in Conns, ReadTick(c) \/ Reply(c)
        PROVE  InUse'
    <2>1. conn[c] = "open" /\ UNCHANGED <<conn, addr, mem, req, tasks>>
      BY <1>1, <1>8 DEF ReadTick, Reply, InUse, sockVars
    <2>2. \A d \in Conns : d # c => rsp'[d] = rsp[d] /\ ticks'[d] = ticks[d]
      BY <1>1, <1>8 DEF ReadTick, Reply, Queues
    <2>3. \A d \in Conns : reactor' = At("reply", d) => d = c
      BY <1>8, Handling DEF ReadTick, Reply, Handlers
    <2>4. LiveAddrs' = LiveAddrs
      BY <2>1 DEF LiveAddrs
    <2>5. \A d \in Conns : conn[d] \in {"none", "backlog"} => rsp'[d] = <<>> /\ ticks'[d] = 0
      BY <1>1, <2>1, <2>2 DEF InUse
    <2> QED
      BY <1>1, <2>1, <2>3, <2>4, <2>5 DEF InUse
  <1> QED
    BY <1>2, <1>3, <1>5, <1>6, <1>7, <1>8, ReactorLeaves

-----------------------------------------------------------------------------
(* Settled and TicksReported: a client that leaves has the replies of all  *)
(* that it sent, and no tick is left without an event.                     *)

\* What a client got are requests it has sent.
LEMMA GotSent ==
  ASSUME PoliteInv, NEW c \in Conns
  PROVE  /\ got[c] \subseteq {c} \X (1..sent[c]) /\ sent[c] \in Nat
         /\ Cardinality(got[c]) = sent[c] => got[c] = {c} \X (1..sent[c])
  <1>1. /\ got[c] \in Msgs /\ got[c] \subseteq {c} \X Nat
        /\ sent[c] \in Nat /\ rcvd[c] \in Nat /\ rcvd[c] <= sent[c]
    BY DEF PoliteInv, Polite, OwnMessages, StateInv, TypeInv, TypeOK
  <1>2. ASSUME NEW r \in got[c]
        PROVE  r \in {c} \X (1..sent[c])
    <2>1. r \in Requests /\ r[1] = c /\ r \in {c} \X Nat
      BY <1>1 DEF Msgs
    <2>2. r[2] \in Nat /\ r[2] >= 1 /\ r = <<c, r[2]>>
      <3>1. \E d \in Conns : r \in {d} \X (1..MaxReq[d])
        BY <2>1 DEF Requests
      <3> QED
        BY <2>1, <3>1, ReactorAssumption
    <2>3. Receivers(r) # {}
      BY DEF Receivers
    <2>4. r[2] <= rcvd[c]
      BY <2>1, <2>3 DEF PoliteInv, OnceInv, RequestOnce, OnePlace
    <2>5. r[2] \in 1..sent[c]
      BY <1>1, <2>2, <2>4
    <2> QED
      BY <2>2, <2>5
  <1>3. IsFiniteSet({c} \X (1..sent[c])) /\ Cardinality({c} \X (1..sent[c])) = sent[c]
    <2>1. IsFiniteSet({c}) /\ Cardinality({c}) = 1
      BY FS_Singleton
    <2>2. IsFiniteSet(1..sent[c]) /\ Cardinality(1..sent[c]) = sent[c]
      <3>1. \A n \in Nat : IsFiniteSet(1..n) /\ Cardinality(1..n) = n
        BY FS_Interval
      <3> QED
        BY <1>1, <3>1
    <2>3. IsFiniteSet({c} \X (1..sent[c])) /\ Cardinality({c} \X (1..sent[c])) = 1 * sent[c]
      BY <2>1, <2>2, FS_Product
    <2> QED
      BY <1>1, <2>3
  <1>4. got[c] \in SUBSET ({c} \X (1..sent[c]))
    BY <1>2
  <1>5. Cardinality(got[c]) = sent[c] => got[c] = {c} \X (1..sent[c])
    BY <1>3, <1>4, FS_Subset
  <1> QED
    BY <1>1, <1>4, <1>5

LEMMA NextSettled ==
  ASSUME PoliteInv, Next, Abrupt = FALSE
  PROVE  Settled'
  <1>1. /\ Settled /\ got \in [Conns -> Msgs] /\ sent \in [Conns -> Nat]
        /\ client \in [Conns -> {"idle", "connected", "gone", "aborted", "reset"}]
    BY DEF PoliteInv, Polite, StateInv, TypeInv, TypeOK
  <1>2. ASSUME NEW c \in Conns, Connect(c) \/ Send(c)
        PROVE  Settled'
    BY <1>1, <1>2 DEF Connect, Send, Settled
  <1>3. ASSUME NEW c \in Conns, Leave(c)
        PROVE  Settled'
    <2>1. PICK how \in {"gone", "aborted"} :
                 /\ Abrupt \/ (how = "gone" /\ Cardinality(got[c]) = sent[c])
                 /\ client' = [client EXCEPT ![c] = how]
      BY <1>3 DEF Leave
    <2>2. how = "gone" /\ got[c] = {c} \X (1..sent[c])
      BY <2>1, GotSent
    <2> QED
      BY <1>1, <1>3, <2>1, <2>2 DEF Leave, Settled
  <1>4. CASE Reactor
    <2>1. UNCHANGED <<client, sent>>
      BY <1>4, ReactorLeaves
    <2>2. \A c \in Conns : client[c] # "connected" => got'[c] = got[c]
      <3>1. got' = got \/ \E d \in Conns : /\ client[d] = "connected"
                                           /\ \E m : got' = [got EXCEPT ![d] = m]
        BY <1>4, ReactorLeaves DEF EpollWait, Dispatch, AcceptDone, AcceptOne, Recv, AddTask,
           RecvNothing, Close, ReadTick, NoTick, Reply, netVars
      <3> QED
        BY <1>1, <3>1
    <2> QED
      BY <1>1, <2>1, <2>2 DEF Settled
  <1>5. ASSUME NEW w \in Workers, Worker(w)
        PROVE  Settled'
    BY <1>1, <1>5, WorkersLeave DEF Settled
  <1> QED
    BY <1>2, <1>3, <1>4, <1>5 DEF Next

LEMMA NextTicksReported ==
  ASSUME PoliteInv, Next
  PROVE  TicksReported'
  <1>1. /\ TicksReported /\ reactor # Exited
        /\ conn \in [Conns -> {"none", "backlog", "open", "closed"}]
        /\ ticks \in [Conns -> Nat]
    BY DEF PoliteInv, Polite, StateInv, TypeInv, TypeOK
  <1>2. ASSUME NEW c \in Conns, Connect(c) \/ Send(c) \/ Leave(c)
        PROVE  TicksReported'
    <2>1. UNCHANGED <<ticks, batch, reactor>> /\ ready \subseteq ready'
      BY <1>2 DEF Connect, Send, Leave, Edge, queueVars
    <2>2. \A d \in Conns : conn'[d] = "open" => conn[d] = "open"
      BY <1>1, <1>2 DEF Connect, Send, Leave, sockVars
    <2> QED
      BY <1>1, <2>1, <2>2 DEF TicksReported
  <1>3. ASSUME NEW w \in Workers, Worker(w)
        PROVE  TicksReported'
    <2>1. UNCHANGED <<conn, batch, reactor>>
      BY <1>3, WorkersLeave
    <2>2. CASE TakeTask(w) \/ ShiftReq(w) \/ PushRsp(w)
      BY <1>1, <2>1, <2>2 DEF TakeTask, ShiftReq, PushRsp, epollVars, TicksReported
    <2>3. CASE WriteTick(w)
      <3>1. Of(w) \in Conns /\ conn[Of(w)] = "open"
        BY <2>3, BusyLive, Doings DEF WriteTick
      <3>2. /\ ready' = ready \cup {Resp(Of(w))}
            /\ \A d \in Conns : d # Of(w) => ticks'[d] = ticks[d]
        BY <1>1, <2>3, <3>1 DEF WriteTick, Edge
      <3> QED
        BY <1>1, <2>1, <3>2 DEF TicksReported
    <2> QED
      BY <1>3, <2>2, <2>3, WorkersLeave
  <1>4. CASE EpollWait
    <2>1. /\ UNCHANGED <<conn, ticks>> /\ reactor = Idle
          /\ \E evs \in SUBSET ready : ready' = ready \ evs /\ batch' = {e \in evs : Readable(e)}
      BY <1>4 DEF EpollWait, sockVars, queueVars
    <2>2. \A c \in Conns : reactor \notin {At("read", c), At("reply", c)}
      BY <2>1, Handling DEF Handlers
    <2>3. batch = {}
      BY <2>1 DEF PoliteInv, StateInv, HeapInv
    <2>4. \A c \in Conns : conn[c] = "open" /\ ticks[c] > 0 => Readable(Resp(c))
      BY DEF Readable
    <2> QED
      BY <1>1, <2>1, <2>2, <2>3, <2>4 DEF TicksReported
  <1>5. CASE Dispatch
    <2>1. UNCHANGED <<conn, ticks, ready>> /\ reactor = Loop
      BY <1>5 DEF Dispatch, sockVars, queueVars
    <2>2. PICK e \in batch :
            /\ batch' = batch \ {e}
            /\ \/ e = Listen /\ reactor' = [at |-> "accept"]
               \/ \E c \in Conns : \/ e = Data(c) /\ reactor' = At("recv", c)
                                   \/ e = Resp(c) /\ reactor' = At("read", c)
      BY <1>5 DEF Dispatch
    <2>3. \A c \in Conns : /\ e = Resp(c) => reactor' = At("read", c)
                           /\ reactor \notin {At("read", c), At("reply", c)}
      BY <2>1, <2>2, Handling DEF Handlers
    <2> QED
      BY <1>1, <2>1, <2>2, <2>3 DEF TicksReported
  <1>6. CASE AcceptDone \/ \E c \in Conns : AcceptOne(c) \/ Recv(c) \/ AddTask(c) \/ RecvNothing(c)
    <2>1. UNCHANGED <<ticks, batch>> /\ ready \subseteq ready'
      BY <1>6 DEF AcceptDone, AcceptOne, Recv, AddTask, RecvNothing, queueVars
    <2>2. \A d \in Conns : reactor \notin {At("read", d), At("reply", d)}
      <3>1. reactor.at \in {"accept", "recv", "add"}
        BY <1>6, AtField DEF AcceptDone, AcceptOne, Recv, AddTask, RecvNothing, Handlers
      <3> QED
        BY <3>1, AtField DEF Handlers
    <2>3. \A d \in Conns : conn'[d] = "open" => conn[d] = "open" \/ ticks[d] = 0
      <3>1. CASE AcceptDone \/ \E c \in Conns : Recv(c) \/ AddTask(c) \/ RecvNothing(c)
        BY <3>1 DEF AcceptDone, Recv, AddTask, RecvNothing, sockVars
      <3>2. ASSUME NEW c \in Conns, AcceptOne(c)
            PROVE  \A d \in Conns : conn'[d] = "open" => conn[d] = "open" \/ ticks[d] = 0
        <4>1. conn[c] = "backlog" /\ conn' = [conn EXCEPT ![c] = "open"]
          BY <3>2, NewAddress
        <4>2. ticks[c] = 0
          BY <4>1 DEF PoliteInv, Polite, InUse
        <4> QED
          BY <1>1, <4>1, <4>2
      <3> QED
        BY <1>6, <3>1, <3>2
    <2> QED
      BY <1>1, <2>1, <2>2, <2>3 DEF TicksReported
  <1>7. ASSUME NEW c \in Conns, Close(c)
        PROVE  TicksReported'
    <2>1. /\ UNCHANGED <<ticks, batch>> /\ ready' = ready \ {Data(c), Resp(c)} /\ reactor = At("recv", c)
          /\ conn' = [conn EXCEPT ![c] = "closed"]
      BY <1>7 DEF Close, queueVars
    <2>2. \A d \in Conns : /\ reactor \notin {At("read", d), At("reply", d)}
                           /\ d # c => Resp(d) \notin {Data(c), Resp(c)}
      BY <2>1, Handling DEF Handlers
    <2> QED
      BY <1>1, <2>1, <2>2 DEF TicksReported
  <1>8. ASSUME NEW c \in Conns, ReadTick(c) \/ NoTick(c) \/ Reply(c)
        PROVE  TicksReported'
    <2>1. /\ UNCHANGED <<conn, ready, batch>> /\ reactor \in {At("read", c), At("reply", c)}
          /\ \A d \in Conns : d # c => ticks'[d] = ticks[d]
      BY <1>1, <1>8 DEF ReadTick, NoTick, Reply, sockVars, queueVars
    <2>2. \A d \in Conns : reactor \in {At("read", d), At("reply", d)} => d = c
      BY <2>1, Handling DEF Handlers
    <2>3. CASE ReadTick(c) \/ Reply(c)
      BY <1>1, <2>1, <2>2, <2>3 DEF ReadTick, Reply, TicksReported
    <2>4. CASE NoTick(c)
      BY <1>1, <2>1, <2>2, <2>4 DEF NoTick, queueVars, TicksReported
    <2> QED
      BY <1>8, <2>3, <2>4
  <1> QED
    BY <1>2, <1>3, <1>4, <1>5, <1>6, <1>7, <1>8, ReactorLeaves DEF Next

-----------------------------------------------------------------------------
(* TaskPerRequest and TickPerResponse: what each step adds to one side it   *)
(* adds to the other.                                                       *)

Tasked(c)        == Cardinality(Count(tasks, addr[c]))
AtWork(where, c) == Cardinality(WorkersAt(where, c))

Balanced(c) ==
  /\ Len(req[c]) = Tasked(c) + AtWork("shift", c) + Reacting("add", c)
  /\ Len(rsp[c]) = ticks[c] + AtWork("write", c) + Reacting("reply", c)

LEMMA CountedBalanced ==
  /\ Counted <=> \A c \in Conns : conn[c] = "open" => Balanced(c)
  /\ Counted' <=> \A c \in Conns : conn'[c] = "open" => Balanced(c)'
  BY DEF Counted, TaskPerRequest, TickPerResponse, Balanced, Tasked, AtWork, Count

LEMMA BalanceTypes ==
  ASSUME PoliteInv, NEW c \in Conns
  PROVE  /\ Tasked(c) \in Nat /\ AtWork("shift", c) \in Nat /\ AtWork("write", c) \in Nat
         /\ Len(req[c]) \in Nat /\ Len(rsp[c]) \in Nat /\ ticks[c] \in Nat
         /\ Reacting("add", c) \in {0, 1} /\ Reacting("reply", c) \in {0, 1}
         /\ conn[c] = "open" => Balanced(c)
  BY Numbers, CountedBalanced DEF Tasked, AtWork, PoliteInv, Polite

\* How the workers of a connection change when one worker w takes a step.
LEMMA WorkerMoves ==
  ASSUME PoliteInv, NEW w \in Workers, Worker(w), NEW where \in {"shift", "push", "write"}, NEW c \in Conns
  PROVE  AtWork(where, c)' =
           IF Doing(w, where)' /\ Of(w)' = c
           THEN IF Doing(w, where) /\ Of(w) = c THEN AtWork(where, c) ELSE AtWork(where, c) + 1
           ELSE IF Doing(w, where) /\ Of(w) = c THEN AtWork(where, c) - 1 ELSE AtWork(where, c)
  <1>1. /\ mem' = mem /\ worker \in [Workers -> WorkerStates]
        /\ worker' = [worker EXCEPT ![w] = worker'[w]]
    BY WorkersLeave DEF PoliteInv, StateInv, TypeInv, TypeOK
  <1>2. \A v \in Workers : v # w => worker'[v] = worker[v]
    BY <1>1
  <1>3. \A v \in Workers : v # w => (v \in WorkersAt(where, c)' <=> v \in WorkersAt(where, c))
    BY <1>1, <1>2 DEF WorkersAt, Doing, Of
  <1>4. WorkersAt(where, c)' = IF Doing(w, where)' /\ Of(w)' = c THEN WorkersAt(where, c) \cup {w}
                                                                ELSE WorkersAt(where, c) \ {w}
    BY <1>3 DEF WorkersAt
  <1>5. w \in WorkersAt(where, c) <=> Doing(w, where) /\ Of(w) = c
    BY DEF WorkersAt
  <1>6. IsFiniteSet(WorkersAt(where, c))
    BY Numbers
  <1>7. AtWork(where, c)' = Cardinality(WorkersAt(where, c)')
    BY DEF AtWork
  <1>8. /\ Cardinality(WorkersAt(where, c) \cup {w})
             = IF w \in WorkersAt(where, c) THEN AtWork(where, c) ELSE AtWork(where, c) + 1
        /\ Cardinality(WorkersAt(where, c) \ {w})
             = IF w \in WorkersAt(where, c) THEN AtWork(where, c) - 1 ELSE AtWork(where, c)
    BY <1>6, FS_AddElement, FS_RemoveElement DEF AtWork
  <1> QED
    BY <1>4, <1>5, <1>7, <1>8

LEMMA MoreOne ==
  ASSUME NEW l \in Nat, NEW i \in Nat, NEW j \in Nat, NEW k \in {0, 1}, l = i + j + k
  PROVE  l + 1 = i + (j + 1) + k
  OBVIOUS

LEMMA LessOne ==
  ASSUME NEW l \in Nat, NEW i \in Nat, NEW j \in Nat, NEW k \in {0, 1}, l = i + j + k
  PROVE  l - 1 = i + (j - 1) + k
  OBVIOUS

LEMMA WorkersCounted ==
  ASSUME PoliteInv, NEW w \in Workers, Worker(w)
  PROVE  Counted'
  <1> SUFFICES ASSUME NEW c \in Conns, conn'[c] = "open"
               PROVE  Balanced(c)'
    BY CountedBalanced
  <1>1. /\ UNCHANGED <<conn, addr, mem, reactor>>
        /\ worker \in [Workers -> WorkerStates]
        /\ req \in Queues /\ rsp \in Queues /\ ticks \in [Conns -> Nat] /\ tasks \in Seq(Addrs)
    BY WorkersLeave DEF PoliteInv, StateInv, TypeInv, TypeOK, Queues
  <1>2. conn[c] = "open" /\ Balanced(c)
    BY <1>1, BalanceTypes
  <1>3. Reacting("add", c)' = Reacting("add", c) /\ Reacting("reply", c)' = Reacting("reply", c)
    BY <1>1 DEF Reacting
  <1>4. CASE TakeTask(w)
    <2>1. /\ tasks # <<>> /\ tasks' = Tail(tasks) /\ UNCHANGED <<req, rsp, ticks>>
          /\ worker[w] = Resting /\ worker'[w] = Busy("shift", Head(tasks), {})
      BY <1>1, <1>4 DEF TakeTask
    <2>2. /\ ~ Doing(w, "shift") /\ ~ Doing(w, "write") /\ ~ Doing(w, "write")'
          /\ Doing(w, "shift")' /\ Of(w)' = mem[Head(tasks)]
      BY <1>1, <2>1 DEF Doing, Resting, Busy, Of
    <2>3. Of(w)' = c <=> Head(tasks) = addr[c]
      <3>1. Head(tasks) \in LiveAddrs
        <4>1. Head(tasks) = tasks[1] /\ 1 \in 1..Len(tasks)
          BY <1>1, <2>1, EmptySeq
        <4> QED
          BY <4>1 DEF PoliteInv, Polite, InUse
      <3>2. mem[addr[c]] = c
        BY <1>2 DEF PoliteInv, Polite, InUse
      <3>3. mem[Head(tasks)] \in Conns /\ addr[mem[Head(tasks)]] = Head(tasks)
        BY <3>1, LiveAddress
      <3> QED
        BY <2>2, <3>2, <3>3
    <2>4. Tasked(c) = Tasked(c)' + (IF Head(tasks) = addr[c] THEN 1 ELSE 0) /\ Tasked(c)' \in Nat
      <3>1. Cardinality(Count(tasks, addr[c]))
              = Cardinality(Count(Tail(tasks), addr[c])) + (IF Head(tasks) = addr[c] THEN 1 ELSE 0)
        BY <1>1, <2>1, TailCount
      <3>2. Tail(tasks) \in Seq(Addrs) /\ Head(tasks) \in Addrs
        BY <1>1, <2>1, HeadTailProperties
      <3>3. Cardinality(Count(Tail(tasks), addr[c])) \in Nat
        BY <3>2, AppendCount
      <3> QED
        BY <1>1, <2>1, <3>1, <3>3 DEF Tasked
    <2>5. AtWork("shift", c)' = AtWork("shift", c) + (IF Head(tasks) = addr[c] THEN 1 ELSE 0)
      <3>1. AtWork("shift", c)' = IF Of(w)' = c THEN AtWork("shift", c) + 1 ELSE AtWork("shift", c)
        BY <2>2, WorkerMoves
      <3> QED
        BY <2>3, <3>1, BalanceTypes
    <2>6. AtWork("write", c)' = AtWork("write", c)
      BY <2>2, WorkerMoves
    <2>7. Len(req[c]) = Tasked(c)' + AtWork("shift", c)' + Reacting("add", c)
      BY <1>2, <2>4, <2>5, BalanceTypes DEF Balanced
    <2> QED
      BY <1>2, <1>3, <2>1, <2>6, <2>7 DEF Balanced
  <1>5. CASE ShiftReq(w)
    <2>1. /\ Doing(w, "shift") /\ ~ Doing(w, "shift")' /\ ~ Doing(w, "write") /\ ~ Doing(w, "write")'
          /\ req[Of(w)] # <<>> /\ req' = [req EXCEPT ![Of(w)] = Tail(@)] /\ UNCHANGED <<rsp, ticks, tasks>>
      BY <1>1, <1>5 DEF ShiftReq, Doing, Busy
    <2>2. Of(w) \in Conns
      BY <2>1, BusyLive, Doings
    <2>3. /\ AtWork("shift", c)' = IF Of(w) = c THEN AtWork("shift", c) - 1 ELSE AtWork("shift", c)
          /\ AtWork("write", c)' = AtWork("write", c)
      BY <2>1, WorkerMoves
    <2>4. Tasked(c)' = Tasked(c)
      BY <1>1, <2>1 DEF Tasked
    <2>5. Len(req'[c]) = IF Of(w) = c THEN Len(req[c]) - 1 ELSE Len(req[c])
      BY <1>1, <2>1, <2>2, HeadTailProperties DEF Queues
    <2>6. Len(req'[c]) = Tasked(c) + AtWork("shift", c)' + Reacting("add", c)
      <3>1. CASE Of(w) = c
        <4>1. Len(req[c]) - 1 = Tasked(c) + (AtWork("shift", c) - 1) + Reacting("add", c)
          BY <1>2, BalanceTypes, LessOne DEF Balanced
        <4> QED
          BY <2>3, <2>5, <3>1, <4>1
      <3>2. CASE Of(w) # c
        BY <1>2, <2>3, <2>5, <3>2 DEF Balanced
      <3> QED
        BY <3>1, <3>2
    <2> QED
      BY <1>2, <1>3, <2>1, <2>3, <2>4, <2>6 DEF Balanced
  <1>6. CASE PushRsp(w)
    <2>1. /\ Doing(w, "push") /\ ~ Doing(w, "shift") /\ ~ Doing(w, "shift")' /\ ~ Doing(w, "write")
          /\ Doing(w, "write")' /\ Of(w)' = Of(w)
          /\ rsp' = [rsp EXCEPT ![Of(w)] = Append(@, worker[w].msg)] /\ UNCHANGED <<req, ticks, tasks>>
      BY <1>1, <1>6 DEF PushRsp, Doing, Busy, Of
    <2>2. Of(w) \in Conns /\ worker[w].msg \in Msgs
      BY <2>1, BusyLive, Doings
    <2>3. /\ AtWork("write", c)' = IF Of(w) = c THEN AtWork("write", c) + 1 ELSE AtWork("write", c)
          /\ AtWork("shift", c)' = AtWork("shift", c)
      BY <2>1, WorkerMoves
    <2>4. Tasked(c)' = Tasked(c)
      BY <1>1, <2>1 DEF Tasked
    <2>5. Len(rsp'[c]) = IF Of(w) = c THEN Len(rsp[c]) + 1 ELSE Len(rsp[c])
      BY <1>1, <2>1, <2>2, AppendProperties DEF Queues
    <2>6. Len(rsp'[c]) = ticks[c] + AtWork("write", c)' + Reacting("reply", c)
      <3>1. CASE Of(w) = c
        <4>1. /\ Len(rsp[c]) = ticks[c] + AtWork("write", c) + Reacting("reply", c)
              /\ Len(rsp[c]) \in Nat /\ ticks[c] \in Nat /\ AtWork("write", c) \in Nat
              /\ Reacting("reply", c) \in {0, 1}
          BY <1>2, BalanceTypes DEF Balanced
        <4>2. Len(rsp[c]) + 1 = ticks[c] + (AtWork("write", c) + 1) + Reacting("reply", c)
          BY <4>1, MoreOne
        <4> QED
          BY <2>3, <2>5, <3>1, <4>2
      <3>2. CASE Of(w) # c
        BY <1>2, <2>3, <2>5, <3>2 DEF Balanced
      <3> QED
        BY <3>1, <3>2
    <2> QED
      BY <1>2, <1>3, <2>1, <2>3, <2>4, <2>6 DEF Balanced
  <1>7. CASE WriteTick(w)
    <2>1. /\ Doing(w, "write") /\ ~ Doing(w, "write")' /\ ~ Doing(w, "shift") /\ ~ Doing(w, "shift")'
          /\ UNCHANGED <<req, rsp, tasks>>
      BY <1>1, <1>7 DEF WriteTick, Doing, Resting
    <2>2. Of(w) \in Conns /\ conn[Of(w)] = "open"
      BY <2>1, BusyLive, Doings
    <2>3. /\ AtWork("write", c)' = IF Of(w) = c THEN AtWork("write", c) - 1 ELSE AtWork("write", c)
          /\ AtWork("shift", c)' = AtWork("shift", c)
      BY <2>1, WorkerMoves
    <2>4. Tasked(c)' = Tasked(c)
      BY <1>1, <2>1 DEF Tasked
    <2>5. ticks'[c] = IF Of(w) = c THEN ticks[c] + 1 ELSE ticks[c]
      BY <1>1, <1>7, <2>2 DEF WriteTick
    <2>6. Len(rsp[c]) = ticks'[c] + AtWork("write", c)' + Reacting("reply", c)
      <3>1. Len(rsp[c]) = ticks[c] + AtWork("write", c) + Reacting("reply", c)
        BY <1>2 DEF Balanced
      <3>2. /\ ticks[c] \in Nat /\ AtWork("write", c) \in Nat
            /\ Len(rsp[c]) \in Nat /\ Reacting("reply", c) \in {0, 1}
        BY BalanceTypes
      <3> HIDE DEF AtWork, Reacting
      <3> QED
        BY <2>3, <2>5, <3>1, <3>2
    <2> QED
      BY <1>2, <1>3, <2>1, <2>3, <2>4, <2>6 DEF Balanced
  <1> QED
    BY <1>4, <1>5, <1>6, <1>7, WorkersLeave

LEMMA SameWork ==
  ASSUME PoliteInv, worker' = worker, \A a \in LiveAddrs : mem'[a] = mem[a], NEW c \in Conns
  PROVE  AtWork("shift", c)' = AtWork("shift", c) /\ AtWork("write", c)' = AtWork("write", c)
  <1>1. ASSUME NEW where \in {"shift", "write"}
        PROVE  WorkersAt(where, c)' = WorkersAt(where, c)
    <2>1. \A w \in Workers : Doing(w, where) => Of(w)' = Of(w)
      BY BusyLive, Doings DEF Of
    <2> QED
      BY <2>1 DEF WorkersAt, Doing
  <1> QED
    BY <1>1 DEF AtWork

LEMMA SameBalance ==
  ASSUME NEW c \in Conns, Balanced(c),
         req'[c] = req[c], rsp'[c] = rsp[c], ticks'[c] = ticks[c],
         Tasked(c)' = Tasked(c), AtWork("shift", c)' = AtWork("shift", c), AtWork("write", c)' = AtWork("write", c),
         Reacting("add", c)' = Reacting("add", c), Reacting("reply", c)' = Reacting("reply", c)
  PROVE  Balanced(c)'
  BY DEF Balanced

LEMMA ClientsCounted ==
  ASSUME PoliteInv, NEW c \in Conns, Connect(c) \/ Send(c) \/ Leave(c)
  PROVE  Counted'
  <1> SUFFICES ASSUME NEW d \in Conns, conn'[d] = "open"
               PROVE  Balanced(d)'
    BY CountedBalanced
  <1>1. UNCHANGED <<addr, mem, req, rsp, ticks, tasks, reactor, worker>>
    BY DEF Connect, Send, Leave, sockVars, queueVars
  <1>2. conn[d] = "open"
    BY DEF Connect, Send, Leave, sockVars, PoliteInv, StateInv, TypeInv, TypeOK
  <1>3. AtWork("shift", d)' = AtWork("shift", d) /\ AtWork("write", d)' = AtWork("write", d)
    BY <1>1, SameWork
  <1> QED
    BY <1>1, <1>2, <1>3, SameBalance, BalanceTypes DEF Tasked, Reacting

LEMMA ReactorCounted ==
  ASSUME PoliteInv, Reactor
  PROVE  Counted'
  <1> SUFFICES ASSUME NEW d \in Conns, conn'[d] = "open"
               PROVE  Balanced(d)'
    BY CountedBalanced
  <1>1. /\ worker' = worker
        /\ req \in Queues /\ rsp \in Queues /\ ticks \in [Conns -> Nat] /\ tasks \in Seq(Addrs)
        /\ addr \in [Conns -> Addrs \cup {Null}]
        /\ conn \in [Conns -> {"none", "backlog", "open", "closed"}]
    BY ReactorLeaves DEF PoliteInv, StateInv, TypeInv, TypeOK, Queues
  <1>2. /\ Tasked(d) \in Nat /\ AtWork("shift", d) \in Nat /\ AtWork("write", d) \in Nat
        /\ Len(req[d]) \in Nat /\ Len(rsp[d]) \in Nat /\ ticks[d] \in Nat
        /\ conn[d] = "open" => Balanced(d)
    BY BalanceTypes
  <1>3. CASE EpollWait \/ Dispatch \/ AcceptDone \/ \E c \in Conns : RecvNothing(c) \/ NoTick(c)
    <2>1. UNCHANGED <<conn, addr, mem, req, rsp, ticks, tasks>>
      BY <1>3 DEF EpollWait, Dispatch, AcceptDone, RecvNothing, NoTick, sockVars, queueVars
    <2>2. /\ \/ reactor \in {Idle, Loop} \/ reactor.at = "accept"
             \/ \E c \in Conns : reactor \in {At("recv", c), At("read", c)}
          /\ \/ reactor' \in {Idle, Loop, [at |-> "accept"]}
             \/ \E c \in Conns : reactor' \in {At("recv", c), At("read", c)}
      BY <1>3 DEF EpollWait, Dispatch, AcceptDone, RecvNothing, NoTick, Return
    <2>3. reactor \notin {At("add", d), At("reply", d)} /\ reactor' \notin {At("add", d), At("reply", d)}
      BY <2>2, Handling, AtField DEF Handlers
    <2>4. AtWork("shift", d)' = AtWork("shift", d) /\ AtWork("write", d)' = AtWork("write", d)
      BY <1>1, <2>1, SameWork
    <2> QED
      BY <1>2, <2>1, <2>3, <2>4, SameBalance DEF Tasked, Reacting
  <1>4. ASSUME NEW c \in Conns, AcceptOne(c)
        PROVE  Balanced(d)'
    <2>1. UNCHANGED <<req, rsp, ticks, tasks, reactor>>
      BY <1>4 DEF AcceptOne, queueVars
    <2>2. /\ addr' = [addr EXCEPT ![c] = addr'[c]]
          /\ addr'[c] \in Addrs \ LiveAddrs
          /\ conn[c] = "backlog" /\ conn' = [conn EXCEPT ![c] = "open"]
          /\ \A a \in LiveAddrs : mem'[a] = mem[a]
      BY <1>4, NewAddress
    <2>3. AtWork("shift", d)' = AtWork("shift", d) /\ AtWork("write", d)' = AtWork("write", d)
      BY <1>1, <2>2, SameWork
    <2>4. CASE d = c
      <3>1. req[c] = <<>> /\ rsp[c] = <<>> /\ ticks[c] = 0
        BY <2>2 DEF PoliteInv, Polite, InUse
      <3>2. WorkersAt("shift", c) = {} /\ WorkersAt("write", c) = {}
        BY <2>2, BusyLive, Doings DEF WorkersAt
      <3>3. Count(tasks, addr[c])' = {}
        BY <1>1, <2>1, <2>2 DEF Count, PoliteInv, Polite, InUse
      <3>4. Reacting("add", c)' = 0 /\ Reacting("reply", c)' = 0
        BY <1>4, <2>1, AtField DEF Reacting, AcceptOne, Handlers
      <3>5. /\ Tasked(c)' = 0 /\ AtWork("shift", c) = 0 /\ AtWork("write", c) = 0
            /\ Len(req[c]) = 0 /\ Len(rsp[c]) = 0
        BY <3>1, <3>2, <3>3, FS_EmptySet DEF Tasked, AtWork
      <3> QED
        BY <2>1, <2>3, <2>4, <3>1, <3>4, <3>5 DEF Balanced
    <2>5. CASE d # c
      <3>1. conn[d] = "open" /\ addr'[d] = addr[d]
        BY <1>1, <2>2, <2>5
      <3> QED
        BY <1>2, <2>1, <2>3, <3>1, SameBalance DEF Tasked, Reacting
    <2> QED
      BY <2>4, <2>5
  <1>5. ASSUME NEW c \in Conns, Recv(c) \/ AddTask(c) \/ Close(c) \/ ReadTick(c) \/ Reply(c)
        PROVE  /\ UNCHANGED <<addr, mem>> /\ conn[d] = "open" /\ Balanced(d)
               /\ AtWork("shift", d)' = AtWork("shift", d) /\ AtWork("write", d)' = AtWork("write", d)
    <2>1. UNCHANGED <<addr, mem>>
      BY <1>5 DEF Recv, AddTask, Close, ReadTick, Reply, sockVars
    <2>2. conn[d] = "open"
      BY <1>1, <1>5 DEF Recv, AddTask, Close, ReadTick, Reply, sockVars
    <2> QED
      BY <1>1, <1>2, <2>1, <2>2, SameWork
  <1>6. ASSUME NEW c \in Conns, Recv(c)
        PROVE  Balanced(d)'
    <2>1. /\ \E m : req' = [req EXCEPT ![c] = Append(req[c], m)] /\ m \in Msgs
          /\ UNCHANGED <<rsp, ticks, tasks>>
          /\ reactor = At("recv", c) /\ reactor' = At("add", c)
      <3>1. PICK n \in (rcvd[c] + 1)..sent[c] :
                 req' = [req EXCEPT ![c] = Append(@, {c} \X ((rcvd[c] + 1)..n))]
        BY <1>6 DEF Recv
      <3>2. rcvd[c] \in Nat /\ sent[c] \in Nat /\ sent[c] <= MaxReq[c] /\ MaxReq[c] \in Nat
        BY ReactorAssumption DEF PoliteInv, StateInv, TypeInv, TypeOK
      <3>3. {c} \X ((rcvd[c] + 1)..n) \in Msgs
        BY <3>2 DEF Msgs, Requests
      <3> QED
        BY <1>1, <1>6, <3>1, <3>3 DEF Recv
    <2>2. Len(req'[d]) = IF d = c THEN Len(req[d]) + 1 ELSE Len(req[d])
      BY <1>1, <2>1, AppendProperties DEF Queues
    <2>3. /\ Reacting("add", d) = 0 /\ Reacting("add", d)' = IF d = c THEN 1 ELSE 0
          /\ Reacting("reply", d) = 0 /\ Reacting("reply", d)' = 0
      BY <2>1, Handling DEF Reacting, Handlers
    <2>4. Tasked(d)' = Tasked(d) /\ Len(req[d]) = Tasked(d) + AtWork("shift", d)
      BY <1>2, <1>5, <1>6, <2>1, <2>3 DEF Tasked, Balanced
    <2>5. Len(req'[d]) = Tasked(d) + AtWork("shift", d) + Reacting("add", d)'
      <3> DEFINE l == Len(req[d])
                 t == Tasked(d)
                 k == AtWork("shift", d)
      <3>1. l \in Nat /\ t \in Nat /\ k \in Nat /\ l = t + k
        BY <1>2, <2>4
      <3> HIDE DEF l, t, k
      <3>2. l + 1 = t + k + 1 /\ l = t + k + 0
        BY <3>1
      <3> QED
        BY <2>2, <2>3, <3>2 DEF l, t, k
    <2> QED
      BY <1>5, <1>6, <2>1, <2>3, <2>4, <2>5 DEF Balanced
  <1>7. ASSUME NEW c \in Conns, AddTask(c)
        PROVE  Balanced(d)'
    <2>1. /\ UNCHANGED <<req, rsp, ticks>> /\ tasks' = Append(tasks, addr[c])
          /\ reactor = At("add", c) /\ reactor' = At("recv", c)
          /\ conn[c] = "open"
      BY <1>7 DEF AddTask, PoliteInv, StateInv, HeapInv, CallsFindOpen
    <2>2. mem[addr[c]] = c /\ mem[addr[d]] = d /\ addr[c] \in Addrs
      BY <1>5, <1>7, <2>1 DEF PoliteInv, Polite, InUse, StateInv, HeapInv, Used
    <2>3. Tasked(d)' = IF d = c THEN Tasked(d) + 1 ELSE Tasked(d)
      <3>1. Cardinality(Count(tasks', addr[d]))
              = Cardinality(Count(tasks, addr[d])) + (IF addr[c] = addr[d] THEN 1 ELSE 0)
        BY <1>1, <2>1, <2>2, AppendCount
      <3>2. addr[c] = addr[d] <=> d = c
        BY <2>2
      <3> QED
        BY <1>2, <1>5, <1>7, <3>1, <3>2 DEF Tasked
    <2>4. /\ Reacting("add", d) = (IF d = c THEN 1 ELSE 0) /\ Reacting("add", d)' = 0
          /\ Reacting("reply", d) = 0 /\ Reacting("reply", d)' = 0
      BY <2>1, Handling DEF Reacting, Handlers
    <2>5. Len(req[d]) = Tasked(d)' + AtWork("shift", d) + Reacting("add", d)'
      <3> DEFINE l == Len(req[d])
                 t == Tasked(d)
                 k == AtWork("shift", d)
      <3>1. l \in Nat /\ t \in Nat /\ k \in Nat /\ l = t + k + (IF d = c THEN 1 ELSE 0)
        BY <1>2, <1>5, <1>7, <2>4 DEF Balanced
      <3> HIDE DEF l, t, k
      <3>2. l = (IF d = c THEN t + 1 ELSE t) + k + 0
        BY <3>1
      <3> QED
        BY <2>3, <2>4, <3>2 DEF l, t, k
    <2> QED
      BY <1>5, <1>7, <2>1, <2>4, <2>5 DEF Balanced
  <1>8. ASSUME NEW c \in Conns, Close(c)
        PROVE  Balanced(d)'
    <2>1. /\ UNCHANGED <<req, rsp, ticks, tasks>> /\ reactor = At("recv", c) /\ reactor' \in {Idle, Loop}
      BY <1>8 DEF Close, queueVars, Return
    <2>2. reactor \notin {At("add", d), At("reply", d)} /\ reactor' \notin {At("add", d), At("reply", d)}
      BY <2>1, Handling DEF Handlers
    <2> QED
      BY <1>5, <1>8, <2>1, <2>2, SameBalance DEF Tasked, Reacting
  <1>9. ASSUME NEW c \in Conns, ReadTick(c)
        PROVE  Balanced(d)'
    <2>1. /\ UNCHANGED <<req, rsp, tasks>> /\ ticks' = [ticks EXCEPT ![c] = ticks[c] - 1]
          /\ reactor = At("read", c) /\ reactor' = At("reply", c)
      BY <1>9 DEF ReadTick
    <2>2. ticks'[d] = IF d = c THEN ticks[d] - 1 ELSE ticks[d]
      BY <1>1, <2>1
    <2>3. /\ Reacting("add", d) = 0 /\ Reacting("add", d)' = 0
          /\ Reacting("reply", d) = 0 /\ Reacting("reply", d)' = IF d = c THEN 1 ELSE 0
      BY <2>1, Handling DEF Reacting, Handlers
    <2>4. Tasked(d)' = Tasked(d)
      BY <1>5, <1>9, <2>1 DEF Tasked
    <2>5. Len(rsp[d]) = ticks'[d] + AtWork("write", d) + Reacting("reply", d)'
      <3> DEFINE l == Len(rsp[d])
                 t == ticks[d]
                 k == AtWork("write", d)
      <3>1. l \in Nat /\ t \in Nat /\ k \in Nat /\ l = t + k + 0
        BY <1>2, <1>5, <1>9, <2>3 DEF Balanced
      <3> HIDE DEF l, t, k
      <3>2. l = (t - 1) + k + 1 /\ l = t + k + 0
        BY <3>1
      <3> QED
        BY <2>2, <2>3, <3>2 DEF l, t, k
    <2> QED
      BY <1>5, <1>9, <2>1, <2>3, <2>4, <2>5 DEF Balanced
  <1>10. ASSUME NEW c \in Conns, Reply(c)
         PROVE  Balanced(d)'
    <2>1. /\ UNCHANGED <<req, ticks, tasks>> /\ rsp[c] # <<>> /\ rsp' = [rsp EXCEPT ![c] = Tail(rsp[c])]
          /\ reactor = At("reply", c) /\ reactor' = At("read", c)
      BY <1>10 DEF Reply
    <2>2. Len(rsp'[d]) = IF d = c THEN Len(rsp[d]) - 1 ELSE Len(rsp[d])
      BY <1>1, <2>1, HeadTailProperties DEF Queues
    <2>3. /\ Reacting("add", d) = 0 /\ Reacting("add", d)' = 0
          /\ Reacting("reply", d) = (IF d = c THEN 1 ELSE 0) /\ Reacting("reply", d)' = 0
      BY <2>1, Handling DEF Reacting, Handlers
    <2>4. Tasked(d)' = Tasked(d)
      BY <1>5, <1>10, <2>1 DEF Tasked
    <2>5. Len(rsp'[d]) = ticks[d] + AtWork("write", d) + Reacting("reply", d)'
      <3> DEFINE l == Len(rsp[d])
                 t == ticks[d]
                 k == AtWork("write", d)
      <3>1. l \in Nat /\ t \in Nat /\ k \in Nat /\ l = t + k + (IF d = c THEN 1 ELSE 0)
        BY <1>2, <1>5, <1>10, <2>3 DEF Balanced
      <3> HIDE DEF l, t, k
      <3>2. (IF d = c THEN l - 1 ELSE l) = t + k + 0
        BY <3>1
      <3> QED
        BY <2>2, <2>3, <3>2 DEF l, t, k
    <2> QED
      BY <1>5, <1>10, <2>1, <2>3, <2>4, <2>5 DEF Balanced
  <1> QED
    BY <1>3, <1>4, <1>6, <1>7, <1>8, <1>9, <1>10, ReactorLeaves

-----------------------------------------------------------------------------
(* The theorems about clients that leave only with every reply.             *)

LEMMA InitPolite == Init => PoliteInv
  <1> SUFFICES ASSUME Init PROVE PoliteInv
    OBVIOUS
  <1>1. StateInv /\ OnceInv
    BY InitState, InitOnce
  <1>2. OwnMessages /\ Settled /\ TicksReported /\ reactor # Exited
    BY DEF Init, OwnMessages, Message, Settled, TicksReported, Doing, Resting, Idle, Exited
  <1>3. InUse
    <2>1. {w \in Workers : worker[w] # Resting} = {}
      BY DEF Init
    <2>2. \A c \in Conns : reactor # At("reply", c)
      BY Handling DEF Init, Handlers
    <2>3. IsFiniteSet({w \in Workers : worker[w] # Resting})
      BY <2>1, FS_EmptySet
    <2> QED
      BY <2>2, <2>3 DEF Init, InUse
  <1>4. Counted
    BY DEF Init, Counted, TaskPerRequest, TickPerResponse
  <1> QED
    BY <1>1, <1>2, <1>3, <1>4 DEF PoliteInv, Polite

LEMMA NextPolite ==
  ASSUME Abrupt = FALSE
  PROVE  PoliteInv /\ [Next]_vars => PoliteInv'
  <1> SUFFICES ASSUME PoliteInv, [Next]_vars PROVE PoliteInv'
    OBVIOUS
  <1>1. StateInv' /\ OnceInv'
    BY NextState, NextOnce DEF PoliteInv
  <1>2. CASE UNCHANGED vars
    <2>1. UNCHANGED <<client, sent, got, conn, rcvd, addr, mem, req, rsp, ticks, tasks, ready, batch, reactor, worker>>
      BY <1>2 DEF vars, netVars, sockVars, queueVars, epollVars
    <2>2. OwnMessages' /\ Settled' /\ TicksReported' /\ reactor' # Exited
      BY <2>1 DEF PoliteInv, Polite, OwnMessages, Message, Settled, TicksReported, Doing, Of
    <2>3. InUse'
      BY <2>1 DEF PoliteInv, Polite, InUse, LiveAddrs
    <2>4. Counted'
      BY <2>1 DEF PoliteInv, Polite, Counted, TaskPerRequest, TickPerResponse, WorkersAt, Reacting, Doing, Of
    <2> QED
      BY <1>1, <2>2, <2>3, <2>4 DEF PoliteInv, Polite
  <1>3. CASE Next
    <2>1. Settled' /\ TicksReported'
      BY <1>3, NextSettled, NextTicksReported
    <2>2. ASSUME NEW c \in Conns, Connect(c) \/ Send(c) \/ Leave(c)
          PROVE  OwnMessages' /\ InUse' /\ Counted' /\ reactor' # Exited
      <3>1. reactor' = reactor
        BY <2>2 DEF Connect, Send, Leave
      <3> QED
        BY <2>2, <3>1, ClientsOwn, ClientsInUse, ClientsCounted DEF PoliteInv, Polite
    <2>3. ASSUME NEW w \in Workers, Worker(w)
          PROVE  OwnMessages' /\ InUse' /\ Counted' /\ reactor' # Exited
      BY <2>3, WorkersOwn, WorkersInUse, WorkersCounted, WorkersLeave DEF PoliteInv, Polite
    <2>4. ASSUME Reactor
          PROVE  OwnMessages' /\ InUse' /\ Counted' /\ reactor' # Exited
      <3>1. \/ reactor' \in {reactor, Idle, Loop, [at |-> "accept"]}
            \/ \E c \in Conns, s \in Handlers : reactor' = At(s, c)
        BY <2>4, ReactorLeaves
        DEF EpollWait, Dispatch, AcceptDone, AcceptOne, Recv, AddTask, RecvNothing, Close, ReadTick,
            NoTick, Reply, Return, Handlers
      <3>2. reactor' # Exited
        BY <3>1, Handling DEF PoliteInv, Polite, Exited, Idle, Loop
      <3> QED
        BY <2>4, <3>2, ReactorOwn, ReactorInUse, ReactorCounted
    <2> QED
      BY <1>1, <1>3, <2>1, <2>2, <2>3, <2>4 DEF Next, PoliteInv, Polite
  <1> QED
    BY <1>2, <1>3

\* The inductive invariant of all that follows: the counts of tasks and ticks,
\* that messages, tasks and workers belong to open connections, each with an
\* address of its own, and that a client that has left has every reply.
THEOREM PoliteCorrect ==
  ASSUME Abrupt = FALSE
  PROVE  Spec => []PoliteInv
  BY InitPolite, NextPolite, PTL DEF Spec

\* TaskPerRequest, for any constants, when clients leave only with every
\* reply: each request has its task, and a task always finds its request.
THEOREM RequestsHaveTasks ==
  ASSUME Abrupt = FALSE
  PROVE  Spec => []TaskPerRequest
  BY PoliteCorrect, PTL DEF PoliteInv, Polite, Counted

\* TickPerResponse, for any constants, when clients leave only with every
\* reply: no response is left without a notification.
THEOREM ResponsesHaveTicks ==
  ASSUME Abrupt = FALSE
  PROVE  Spec => []TickPerResponse
  BY PoliteCorrect, PTL DEF PoliteInv, Polite, Counted

\* RevAlive, for any constants, when clients leave only with every reply: a
\* worker never uses a reactor_event that was freed.
THEOREM RevsStayAlive ==
  ASSUME Abrupt = FALSE
  PROVE  Spec => []RevAlive
  <1>1. PoliteInv => RevAlive
    BY BusyLive DEF RevAlive
  <1> QED
    BY <1>1, PoliteCorrect, PTL

\* RevKeepsItsConnection, for any constants, when clients leave only with
\* every reply; the run that lets them leave earlier shows it violated.
THEOREM RevsKeepTheirConnection ==
  ASSUME Abrupt = FALSE
  PROVE  Spec => []RevKeepsItsConnection
  <1>1. PoliteInv => RevKeepsItsConnection
    BY DEF PoliteInv, Polite, OwnMessages, Message, RevKeepsItsConnection
  <1> QED
    BY <1>1, PoliteCorrect, PTL

\* NothingStranded, for any constants, when clients leave only with every
\* reply: when the reactor waits, every descriptor with something to read has
\* been reported, the eventfds of the workers included.
THEOREM NothingIsStranded ==
  ASSUME Abrupt = FALSE
  PROVE  Spec => []NothingStranded
  <1>1. PoliteInv /\ InputReported => NothingStranded
    <2> SUFFICES ASSUME PoliteInv, InputReported, NEW e \in Sources, reactor = Idle, Readable(e)
                 PROVE  e \in ready
      BY DEF NothingStranded, Reported
    <2>1. CASE e = Listen \/ \E c \in Conns : e = Data(c)
      BY <2>1 DEF InputReported, Reported
    <2>2. ASSUME NEW c \in Conns, e = Resp(c)
          PROVE  e \in ready
      <3>1. conn[c] = "open" /\ ticks[c] > 0
        BY <2>2, Handling DEF Readable, Handlers
      <3>2. batch = {} /\ reactor \notin {At("read", c), At("reply", c)}
        BY Handling DEF PoliteInv, StateInv, HeapInv, Handlers
      <3> QED
        BY <2>2, <3>1, <3>2 DEF PoliteInv, Polite, TicksReported
    <2> QED
      BY <2>1, <2>2 DEF Sources
  <1> QED
    BY <1>1, PoliteCorrect, NoInputMissed, PTL

\* The process never ends while clients leave only with every reply: the exit
\* on an error of recv, and SIGPIPE, need a client that left earlier.
Survives == reactor # Exited

THEOREM OutlivesPoliteClients ==
  ASSUME Abrupt = FALSE
  PROVE  Spec => []Survives
  BY PoliteCorrect, PTL DEF PoliteInv, Polite, Survives

\* EchoOnce counts as this module does.
LEMMA SameCardinality == \A S : Service!Cardinality(S) = Cardinality(S)
  BY Zenon DEF Service!Cardinality, Cardinality

\* Every step is a step of EchoOnce or changes nothing clients see.
ServiceStep == [Service!OnceNext]_<<sent, got, replies>>

LEMMA NextService ==
  ASSUME PoliteInv, [Next]_vars
  PROVE  ServiceStep
  <1>1. got \in [Conns -> Msgs]
    BY DEF PoliteInv, StateInv, TypeInv, TypeOK
  <1>2. ASSUME NEW c \in Conns, Send(c)
        PROVE  ServiceStep
    BY <1>2 DEF Send, ServiceStep, Service!OnceNext, Service!RequestOnce, Service!Request
  <1>3. ASSUME NEW c \in Conns, Reply(c)
        PROVE  ServiceStep
    <2> DEFINE m == Head(rsp[c])
    <2>1. /\ rsp[c] # <<>> /\ sent' = sent /\ got' = [got EXCEPT ![c] = got[c] \cup m]
          /\ replies' = [replies EXCEPT ![c] = replies[c] + Cardinality(m)]
      BY <1>3 DEF Reply
    <2>2. rsp[c] \in Seq(Msgs) /\ 1 \in 1..Len(rsp[c]) /\ m = rsp[c][1] /\ m \in Msgs
      BY <2>1, EmptySeq DEF PoliteInv, StateInv, TypeInv, TypeOK
    <2>3. ASSUME NEW r \in m
          PROVE  r \in ({c} \X (1..sent[c])) \ got[c]
      <3>1. r \in Requests /\ r \in {c} \X Nat
        BY <2>2 DEF Msgs, PoliteInv, Polite, OwnMessages, Message
      <3>2. ~ Nowhere(r, rsp)
        BY <2>2 DEF Nowhere
      <3>3. r[2] <= rcvd[r[1]] /\ Receivers(r) = {}
        BY <3>1, <3>2 DEF PoliteInv, OnceInv, RequestOnce, OnePlace
      <3>4. r = <<c, r[2]>> /\ r[1] = c /\ r[2] \in Nat /\ r[2] >= 1
        <4>1. \E d \in Conns : r \in {d} \X (1..MaxReq[d])
          BY <3>1 DEF Requests
        <4> QED
          BY <3>1, <4>1, ReactorAssumption
      <3>5. rcvd[c] <= sent[c] /\ rcvd[c] \in Nat /\ sent[c] \in Nat
        BY DEF PoliteInv, Polite, OwnMessages, StateInv, TypeInv, TypeOK
      <3>6. r[2] \in 1..sent[c]
        BY <3>3, <3>4, <3>5
      <3>7. r \notin got[c]
        BY <3>3 DEF Receivers
      <3> QED
        BY <3>4, <3>6, <3>7
    <2>4. m \in SUBSET (({c} \X (1..sent[c])) \ got[c])
      BY <2>3
    <2>5. Service!Reply(c)
      BY <2>1, <2>4 DEF Service!Reply
    <2>6. got'[c] \ got[c] = m
      BY <1>1, <2>1, <2>4
    <2>7. Service!ReplyOnce(c)
      BY <2>1, <2>5, <2>6, SameCardinality DEF Service!ReplyOnce
    <2> QED
      BY <2>7 DEF ServiceStep, Service!OnceNext
  <1>4. ASSUME UNCHANGED <<sent, got, replies>> PROVE ServiceStep
    BY <1>4 DEF ServiceStep
  <1>5. CASE UNCHANGED vars
    BY <1>4, <1>5 DEF vars, netVars
  <1>6. ASSUME NEW c \in Conns, Connect(c) \/ Leave(c)
        PROVE  UNCHANGED <<sent, got, replies>>
    BY <1>6 DEF Connect, Leave
  <1>7. ASSUME NEW w \in Workers, Worker(w)
        PROVE  UNCHANGED <<sent, got, replies>>
    BY <1>7, WorkersLeave
  <1>8. CASE EpollWait \/ Dispatch \/ AcceptDone
             \/ \E c \in Conns : \/ AcceptOne(c) \/ Recv(c) \/ AddTask(c) \/ RecvNothing(c) \/ Close(c)
                                 \/ ReadTick(c) \/ NoTick(c)
    <2>1. UNCHANGED <<sent, got, replies>>
      BY <1>8 DEF EpollWait, Dispatch, AcceptDone, AcceptOne, Recv, AddTask, RecvNothing, Close, ReadTick,
         NoTick, netVars
    <2> QED
      BY <1>4, <2>1
  <1> QED
    BY <1>2, <1>3, <1>4, <1>5, <1>6, <1>7, <1>8, ReactorLeaves DEF Next

\* Reactor31 implements EchoOnce, for any constants, when clients leave only
\* with every reply: whatever the workers do, a client gets its own requests
\* back and none of them twice.
THEOREM ImplementsEchoOnce ==
  ASSUME Abrupt = FALSE
  PROVE  Spec => Echoes
  <1>1. Init => Service!OnceInit
    BY DEF Init, Service!OnceInit, Service!Init
  <1>2. PoliteInv /\ [Next]_vars => ServiceStep
    BY NextService
  <1>3. ServiceStep => [Service!OnceNext]_<<Service!vars, replies>>
    BY DEF ServiceStep, Service!vars
  <1> QED
    BY <1>1, <1>2, <1>3, PoliteCorrect, PTL DEF Spec, Echoes, Service!OnceSpec
=============================================================================
