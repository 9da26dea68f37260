# TLA+ models of practice-code-c-cpp

`practice-code-c-cpp` is a collection of C++ practice programs: the language and
its library, threads, blocking and non-blocking sockets, `select`, `poll` and
`epoll`, asynchronous file reads, and small network servers built from these.
This directory models the programs in which something can go wrong between two
steps - threads that share a queue, an event loop that must not miss an event,
reads that complete in any order - as TLA+ modules, checks them with TLC and
proves the most important facts with TLAPS.

## Inventory

| part | state it keeps | operations | hard part |
| --- | --- | --- | --- |
| `SafeQueue.h` (3.1) | `std::queue`, mutex, condition variable | `push`, `shift`, `shift_no_wait` | wake-ups: one `notify_one` per push, spurious wake-ups, takers that do not wait |
| `WorkerPool.h` (3, 3.1) | a queue of tasks, the threads | `start`, `addQueue`, `run_worker` | a task runs exactly once, and not under the lock |
| `3.1single_reactor_multi_worker/server.cpp` | epoll descriptor; per connection a request queue, a response queue, an eventfd, a heap-allocated `reactor_event` | event loop, `connection_handler`, `data_handler_by_worker`, `rsp_handler` on the reactor; `data_handler` on workers | edge-triggered events, the pairing of queues with tasks and ticks, the life of `reactor_event` |
| `3.single_reactor_multi_worker/server.cpp` | epoll descriptor, descriptor numbers | event loop and accept on the reactor; receive, send and close on workers | several workers on one connection, descriptor numbers used again |
| `epoll_demo/epoll_server.cpp`, `epoll_client.cpp` | listener, epoll descriptor, `loop_flag_`, callback | `Start`, `Stop`, `SendData`, `EpollLoop`, `OnSocketAccept`, `OnSocketRead` | edge-triggered events, closes with data unread, partial writes, `Stop` while the loop runs |
| servers of one thread: `1.blocking`, `2.nonblocking`, `select`, `poll`, `epoll`, `1.common_epoll`, `2.single_reactor_single_worker` | a set of descriptors, what the wait reported | one loop: wait, accept, receive, send back, close | what was reported may be stale, level- and edge-triggered events, writes to clients that left, numbers used again |
| `kernel_aio/libaio_read.h` | an aio context, control blocks, buffers, eventfds | the batch read: submit, collect, submit the next; five other readers, three of which show mistakes | completion in any order, the limit of the context, when to stop, control blocks and buffers that are shared |
| `glibc_aio/glibc_aio.h` | `aiocb` with its `aio_sigevent`, a signal, a thread or a signalfd | submit, then arrange to hear of the end in one of five ways | the registration comes after the submission, field by field |
| `condition_variable_test.h` | a spin lock of `compare_exchange_weak`, a condition variable, a queue of values | provider and consumers; a thread that prepares and one that waits for it | lost and spurious wake-ups, a notification outside the lock |
| `thread_promise/*`, `async_future/*`, `atomic/*`, `basic/*` | mutexes, promises, futures, flags | one test function for each feature of the library | locks taken in pairs, polling with the lock given away, references kept by detached threads, tasks that no thread runs |
| language, containers, templates, streams, `mmap`, timers, static and dynamic libraries | none that is shared | sequential demonstrations | none a model checker would help with |

What makes each part correct:

- queue: items leave in the order they came, once; a thread sleeps only while
  every item has a thread that will come for it.
- pool: every task runs, once, and outside the lock.
- servers: a client gets its own replies, and each once; while it stays, its
  messages are answered; when it leaves, its descriptor is closed, once; no
  descriptor with something to read is forgotten.
- aio: every block is read once, nothing is pending when the buffer is freed;
  the result is handled once, and not before it is there.
- threads: the consumers share the values and none sleeps while there is one to
  take; a lock is released by the thread that took it; nothing is used after its
  life; every function that should end does.

### How the parts interact

The reactor thread of 3.1 calls `addQueue` of the pool, which pushes to a
`SafeQueue`; workers `shift` tasks from it, take the request from the queue of
the connection with `shift_no_wait`, push the response to the other queue, and
write to the connection's eventfd, which the reactor's epoll watches: the
threads share the three kinds of queue, the `reactor_event` a task captured and
the descriptors. In `3.single` the workers read, write and close the
descriptors themselves, and share only the numbers and the task queue with the
reactor. The classes of `epoll_demo` share `loop_flag_`, `handle_`, `efd_` and
the callback between the owner's thread and the loop's. The servers of one
thread and the aio readers share state with nobody but the kernel, the library's
threads and their peers, which is enough to reorder what they see. Of the test
functions of `thread` and of `4.aio` one runs at a time, chosen in `main`.

## Modules

| module | models | state and actions |
| --- | --- | --- |
| `TaskQueue` | what a queue promises | abstract: `Push`, `Take` and, for a take that does not wait, `ReplyEmpty`, each one step |
| `SafeQueue` | `SafeQueue.h` | `q`, the mutex `m`, the condition variable `waiting`, `pc` and `val` of each thread. One action per step between two points where another thread may run: `PushLock`, `PushInsert`, `PushNotify`, `ShiftLock`, `ShiftWait`, `ShiftWake`, `PollLock`, `PollEmpty`, `Front`, `Pop`, `Unlock`, and `Spurious` |
| `WorkerPool` | `WorkerPool.h` | extends `SafeQueue` with the threads started, the task each runs and how often each task ran; `AddQueue` and `FetchTask` are the queue's own steps |
| `EchoService` | what a server promises | abstract: requests sent, replies got, as a set: how often a reply comes is left open |
| `EchoOnce` | the same, each reply once | `EchoService` with `replies`, the number of requests in all replies to a client; a reply that comes again is no step of it |
| `Reactor31` | 3.1 server, its workers and clients | `reactor` is the place in a handler, `batch` the rest of `evs`, `ready` the kernel's ready list, `req`, `rsp`, `ticks` the queues and the eventfd of a connection, `addr` and `mem` the heap, `tasks` and `worker` the pool, `replies` counts what was sent back, for `EchoOnce`. Queue operations are single steps, as `SafeQueue` is shown to implement `TaskQueue` |
| `Reactor3` | 3 server, workers, clients | `file` maps descriptor numbers to connections, lowest free number first; `watched`, `ready`, `batch`, `tasks`, `worker` as above |
| `EpollTcp` | `epoll_demo` server and client | `owner` is where Register, Start, Stop and the destructor are, `loop` where `EpollLoop` is, `out` the replies on the way, limited by `Room`; actions are the branches of `EpollLoop`, `OnSocketAccept`, `OnSocketRead`, `SendData` |
| `IoServers` | six servers of one thread and their clients | `kind` is the program, chosen at the start; `todo` what is left of the pass, `fds` and `maxfd` the program's own records, `ready` the kernel's; one operator for what each program's wait reports, actions for accept, receive, reply, close |
| `CondVar` | `condition_variable_test.h` | `flag` and `expect` of the spin lock, `waiting`, `queue`, `pc` of each thread: an action per access to shared state (`Cas`, `Restore`, `Unlock`, `Wait`, `Wake`, `Push`, `Ready`, `Notify`, `Test`, `Front`, `Pop`, `Job`), and `Spurious` |
| `ThreadTests` | the test functions of `thread_promise`, `mutex_lock.h`, `async_future`, `atomic`, `basic` | a function is a sequence of library operations; `code` is what each thread has left of its own, `held` the owners of each mutex, `result` the state of each future, `handle` of each `std::thread`, `inScope` whether the test function's locals live; an action per kind of operation |
| `Threads` | the programs of `thread` | runs a test of `CondVar` or a function of `ThreadTests` |
| `AioBatch` | `BatchReadByLibAIO` | blocks are `inflight`, in the `ring`, in `event`, or counted in `ready` |
| `AioReaders` | the other functions of `libaio_read.h` | `iocb` and `mem` are the control blocks and buffers by the read that used them last, `readable` the eventfds, `printed` what the callback said of each read |
| `GlibcAio` | `glibc_aio.h` | `todo` is what is left of the function, `sigevent` the fields set so far; `Complete` and `Notify` are the library's thread, `Deliver` and `ThreadHandler` the signal and the thread it starts |
| `Aio` | the programs of `4.aio` | runs one of the three above |
| `*Proofs` | theorems about the module of that name | |
| `MC*` | instances for TLC | |

Next to some operations stands a variant with a mistake that a programmer could
make there: a notify that is forgotten, one accept for an event, `max_fd` set to
the first of the set. No specification uses a variant. Each is there to show,
by putting it in the place of the operation, that a property notices.

### Abstractions

- A message is a number, and a request the pair of its connection and number.
  One `recv` returns one request or several, never a part of one. The zeros that
  the servers send after a short request (`sizeof(buf)`) are left out.
- Clients read a reply as it arrives, except in `EpollTcp`, where the buffers
  may fill. The other servers' `send` never waits.
- The listen backlog has room. Calls that fail for want of memory or descriptors
  are left out, but for `Start` of `epoll_demo` and the batch read, where `io_setup` and
  `io_submit` may fail (`Fail`, `HandleFails`). `io_submit` takes all reads or none; that it
  may take some of them is left out.
- `getpeername` of `epoll_demo` succeeds. When it fails (`epoll_server.cpp:325-330`) the
  server goes on without watching or closing the descriptor, which is then leaked. That takes a reset
  before the accept, and in the model a client that waits in the backlog has no reply unread, so that it
  leaves by FIN. `ClosedEventually` says nothing of clients that reset so early.
- Descriptors of `Reactor31` have no numbers. A worker that writes a tick for a connection
  closed meanwhile (`server.cpp:76`) has no effect; in the code the eventfd's number may name another
  by then.
- Descriptor numbers are reused in `Reactor3` and `IoServers`, where a stale one
  would matter; heap addresses are reused in `Reactor31`.
- In `AioBatch`, `io_submit(ctx, MAX_EVENT, &new_io_cb)` passes one pointer where
  five are announced; it is taken to submit that one, as the comment there reports.
- In `AioReaders` with the shared buffer, what is printed is what the read that completed last left there;
  line 275 of `libaio_read.h` speaks of the last block, which is the same when reads complete
  in order. The core dump that the comment of its line 235 reports is left out.
- `try_lock` by the thread that owns the mutex is undefined (`TestTryLockAndLockFor`);
  it is taken to refuse, as the library's does. An unnamed
  `std::lock_guard` (`mutex_lock.h:115`, `147-154`) releases at the end of its
  statement, and so it does in the model. `std::async` without a policy may choose
  either; the comments of `future_async.h:53` and `78` expect one of them.
- In `ThreadTests` printing and sleeping are `Work`; an exception a task throws is
  kept in its future like a value. `set_value` is one step: what the library does to the promise
  after the result can be seen is left out, as the standard orders the calls on a promise and its future.
- A weak exchange that fails spuriously leads `CondVar` back to the same state, and has no
  action.
- A notification that comes before its thread waits, in `testConditionVariable`,
  and a read that ends before the registration, in `GlibcAio`, are lost in the models
  as in the code: the liveness properties speak of those that come later.
  `CheckByEpoll` waits for ever for a lost one. `wait_for` on a deferred task returns at once.
- `loop_flag_` of `epoll_demo` is a plain `bool` that two threads use. The loop is
  taken to see the change when it tests the flag next.
- `Stop` and the destructor of `EpollTcpServer` belong to the class; the `main` of
  the file does not reach them.
- The kind `epoll_lt` of `IoServers` is `EpollINET` with `etMode` false; the file's `main`
  passes true.
- In `IoServers` the vector of `2.nonblocking` is taken in any order; an error of
  `recv` after a reset is the end of the connection, which the next call would return.

## Runs

| run | question | instance |
| --- | --- | --- |
| `safe_queue` | mutual exclusion, order, wake-ups, refinement of `TaskQueue` | two pushers, three threads in `shift`, one poller, four items |
| `worker_pool` | each task in one place and run once; every task runs | three workers, four tasks, one null |
| `reactor31` | nothing stranded, a task for each request, a tick for each response, `RevAlive`, refinement of `EchoOnce`, every request answered - when clients leave only with their replies | two connections, two workers, two addresses, two requests at a time on one connection |
| `reactor31_leave` | the same server when clients leave at any time: `recv`, `send`, `EPOLL_CTL_DEL` and `close` find their descriptor open, input reported, nothing processed twice | as above |
| `reactor31_rev` | violated: a task's `reactor_event` stays its connection's | as above |
| `reactor3` | nothing stranded, a request answered at most once | two connections, two numbers, two workers, `evs` of size 2 |
| `aio` | the batch read: every block read once, the limit of the context, nothing pending at the return, it returns; the other readers: what is printed, that they return; glibc: the result handled once and when it is there | files of 0 to 9 blocks, five reads at a time as in the code, five readers, five notifications |
| `aio_eventfd` | violated: readable eventfds are reads to collect | the five reads of the code |
| `epoll_tcp` | order of replies, no event missed, nothing lost with room, closes, answers | two clients, two messages each, one with room for one reply |
| `epoll_tcp_stop` | violated: `Stop` ends the loop | as above |
| `io_servers` | `accept` and `recv` never wait on a blocking socket, clients cannot end the server, refinement of `EchoService`, answers, closes | six programs, three clients with two, one and no message |
| `threads` | no consumer asleep on work, refinement of `TaskQueue`, delivery; locks kept by their owners, nothing used after its life, functions end | three consumers, three values, one spurious wake-up; 21 test functions, and `testJoin` and `testDetach`, which must not end |

Why the bounds are enough for what they ask. Two workers and two requests of one
connection are what it takes for tasks of one connection to overtake each
other; a third worker would only wait. Three threads in `shift` and a poller
make a thread that is woken find its item taken while others sleep. A number or
an address is used again as soon as a second connection comes after the first
has left, and beside an open one with a third. `MAX_EVENTS` of two is smaller than
the number of descriptors that can be ready, so a batch can leave some behind. Nine blocks
are more than the first batch and a partial second. Three of the five consumers and
three of the fifty values are enough for one to be awake, one asleep and one woken for
a value that is gone; `NobodySleepsOnWork` is proved for any number. Two messages are needed for
a write after a reset, and for a reply to overtake another. Requests, tasks, items, values, blocks and spurious wake-ups are
capped by `MaxReq`, `MaxPush`, `MaxVal`, `MaxBlocks` and `MaxSpurious`; connections open once each, so a run ends, and
deadlock is not checked: the servers rightly wait for ever once the clients stop.

### Fairness

Weak fairness of threads, with one exception: of the reactor and each worker in `Reactor31`, of
each started thread in `WorkerPool`, of `EpollLoop` and the client loops, of the
one thread in `IoServers` and the aio readers, of each thread of `CondVar` and
`ThreadTests`, and of the kernel's and the library's completion of reads,
notification and delivery of signals. The operating system's scheduler gives each thread its turn. A step that needs
the mutex is not enabled all the time, and weak fairness is enough for it because the
tasks of an instance are finitely many: once they are submitted, only workers
that still have a task to take use the mutex. The same holds of the spin
lock in `CondVar`, where values and spurious wake-ups are finitely many. The exception is
strong fairness of taking a mutex by the `std::thread`s of `ThreadTests`: in
`waitForPrepareThread` one thread takes the mutex again and again to look at a flag,
but gives it away for half a second each time (`mutex_lock.h:180-185`), long enough for the
other to get it. Nothing makes a client connect, send or leave, an owner start or stop,
or a wake-up spurious. `SafeQueue`, `Reactor3` and the abstract
specifications are checked for safety only.

## What the runs show

All properties of the passing runs hold, and three statements of the repository
do not:

1. `reactor31_rev`: a client that leaves early frees its `reactor_event`
   (3.1 `server.cpp:101`) while a task still holds it. The next connection may get
   the memory, and then the other client's response.
2. `aio_eventfd`: the eventfds are never read (`libaio_read.h:147`), so the count
   of readable ones includes reads already collected; `io_getevents` then waits for
   more than there is.
3. `epoll_tcp_stop`: `Stop` closes the listener; a loop inside `OnSocketAccept`
   repeats a failing `accept` for ever (`epoll_server.cpp:318`).

A fourth statement is that of 3.1 `server.cpp:94`, where `EPOLL_CTL_DEL` "sometimes" fails because
the descriptor is closed already. No behaviour of the model explains it: in `Reactor31` only the reactor
closes, epoll forgets a descriptor that is closed, and `evs` names a descriptor once, so every call the
reactor makes on a client's descriptor finds it open, for clients that leave at any time (`CallsFindOpen`,
proved). The comment is also at line 51 of the 3 server, from where it seems to
come; there two workers that close one number do explain it. For an eventfd nothing of the kind is said:
`rsp_handler` may run for a connection that was closed, when its tick was in the same batch; its
`read` fails and it returns (`NoTick`).

The edge-triggered server of `3.io_multiplexing/epoll` leaves its read loop after a
failed write, before the end (`epoll/server.cpp:131`), and the descriptor then stays
open, as the comment of its lines 101-102 warns; `ClosedEventually` leaves it out.

`Reactor3` has two workers on one connection, although the server uses edge-triggered events to
avoid that. Two workers may see the end of one connection, and each is to delete and close the number
(3 `server.cpp:49-52`); the second finds what the number names by then, which may be the next
client's connection. So does a worker that sleeps before it sends (`66-68`) while another closes:
its reply goes to a client that did not ask. Both are behaviours of the model, which gives numbers
away again, and what the run says is what still holds beside them: no event is lost, and each request is
answered at most once, whichever client gets the answer.

## Proofs

What is proved holds for any threads, clients, items, blocks and sizes, under the
assumptions of the modules: types of the constants; threads and clients are finitely many and
`NoThread`, `Null`, `Free` are none of them; no thread both submits and works and none
polls in the pool (`PoolAssumption`); there is a heap address for every connection
(`ReactorAssumption`); a batch has at least one read (`AioAssumption`), and the readers
are those of the code (`ProgramsAssumption`). Type invariants are proved,
and only checked by TLC where they find something of their own.

- `SafeQueueProofs`: the inductive invariant is `TypeOK`, `MutexOK`, `FifoOK` and
  `NoLostWakeup` together. `FifoOK` needs `MutexOK`, because between `front` and `pop`
  nobody else may touch the queue; `NoLostWakeup` needs both. A push adds one item and
  its `notify` adds one awake thread or leaves nobody asleep; an awake thread goes
  to sleep only with an empty queue; one that takes an item leaves with it.
  `Awake` counts threads at `notify`, so that the item is covered between the
  insertion and the notification. `ImplementsTaskQueue` proves the refinement: `PushInsert` is the
  abstract push, `Front` the abstract take, `PollEmpty` the empty reply; all other steps stutter.
- `WorkerPoolProofs`: each step of the pool is a step of the queue or leaves it
  alone (`PoolUsesQueue`), so the theorems of the queue carry over
  (`PoolIsWorkConserving`); `PoolTypeCorrect` includes that a task runs outside the lock.
  `TasksRunOnce` needs the places of a task - the queue without the item just taken, the hands of
  each worker, the tasks run - to be disjoint and each to hold it at most once.
- `ThreadsProofs`: while a function of `ThreadTests` runs, the threads of `CondVar` stand still. For
  these the invariant is `TypeOK`, `FlowOK` (who can be where, in which test), `Exclusive`,
  the order of values and `NoneSleepsOnWork` together. That `expect` is false at every exchange is
  what makes the spin lock exclude. `NoneSleepsOnWork` says it of some awake consumer, not
  of as many as there are values: one that is awake tests the queue again before it sleeps.
- `ThreadsProofs`, of `ThreadTests`: whichever function runs and whatever the scheduler and the launch
  policies do, `TestInv` says where main is: before the operation at `k` of its function, with a detour `d` to do
  first (a deferred task that it waits for, or what it does with a lock it got by `try`). What the others
  may be follows from `k`: each mutex is with main as `MainHas` tells, or else with the one
  thread that is between its lock and its unlock (`LocksOK`); a thread has left to do the rest of a function of one of
  four shapes (`CodeOK`), is joined or detached at a later `k` while it is joinable, and while it still has a promise to
  keep, a `get` for it is still to come and the promise is pending (`ThreadOK`); a task that still reads an argument
  has a thread of its own, for whose end the function waits (`TaskOK`). That each of the twenty-three functions creates,
  joins and asks in an order that lets this hold is one lemma for each (`WellFormed`); that every operation keeps it
  is one lemma for each kind of operation, not for each function. `LocksAreKept` and `LifetimesHold` follow from
  it. A detached thread does not use the promise of a function that has returned because `get` waits for it, and
  `get` can wait for it because nobody else makes that future ready: without "pending" in `ThreadOK` the
  invariant is not inductive. `testJoin` and `testDetach`, which never end, are included.
- `Reactor3Proofs`: `NoInputStranded` from an invariant on the numbers the kernel
  watches (each names something; `evs` is empty while the loop waits), and
  `RequestsAnsweredOnce` from one on requests: a request received is in the hands of one worker, or
  answered, or dropped, and none before it was received. Descriptor numbers do not enter, which is why two
  closes of one number do no harm to it.
- `Reactor31Proofs`: `StateInv` is the types with what holds of the heap and of the
  handlers: an open connection has an address of its own, a handler of a client's descriptor finds it
  open, no event of the descriptor being handled is left in `evs`. From it follow
  `ReactorCallsFindOpen`; `NoInputMissed`, where input is reported or a handler that will loop
  until EAGAIN is about to see it; and `RequestsProcessedOnce`, for clients that leave at any time: each of
  the places of a request (request queue, a worker, response queue, client) holds it once,
  and at most one place holds it. Which connection a worker takes for the owner does not matter for that.
  The rest has the hypothesis `Abrupt = FALSE`, that a client leaves only when it has every reply: without it
  the server promises none of this, and `reactor31_rev` shows how it fails. `PoliteInv` adds to the
  above that messages, tasks and busy workers belong to open connections, each with an address of its own; that the
  tasks of an address and the workers that took one are as many as the requests of its connection
  (`TaskPerRequest`), and ticks, as they are written and taken, as many as responses (`TickPerResponse`); and that a client
  that has left has every reply. The parts need each other: a connection closes only when its client has left, and then
  has no request, so by the count no task, so no worker, so its address may be freed; and since the address is
  not used again while a task has it, every worker takes its own connection's request, which
  is what keeps the counts. From it follow `RevsStayAlive`, `RevsKeepTheirConnection`, `NothingIsStranded` (with
  `NoInputMissed`, for the eventfds too), `OutlivesPoliteClients` and `ImplementsEchoOnce`. There the
  step that sends a reply is the abstract reply and all other steps of the server stutter; that the count
  agrees is that the requests of a message are distinct and none of them is with the client yet, both from the
  invariant behind `RequestsProcessedOnce`.
- `EpollTcpProofs`: `EventsReported` from an invariant that each descriptor with
  something to say is on the ready list, in `alive_events`, or being handled by a loop that goes on
  to EAGAIN; `RepliesInOrder` and `NoneLostWithRoom` from `ReplyInv`: what the
  client got, what is under way and what is in the server's hands are the messages in order,
  and without gaps where there is room.
- `IoServersProofs`: `NeverWaitsInCall`, which is of `accept` and `recv`, needs that a client has one connection and a connection one
  descriptor: handling one descriptor of a pass takes nothing from another, and a number given away
  in a pass is not in it. `OutlivesClients` counts replies: a client that waits for each
  reply has at most one message under way when it leaves, so that the one write that follows is the
  first, which does not raise SIGPIPE. `ImplementsEchoService` proves the refinement
  for all six programs. `TypeCorrect` says that the descriptors a program looks after are those
  that are open; that `max_fd` is a descriptor needs the existence of a maximum, from the library's theorem on well-founded relations.
- `AioProofs`: a step of one program leaves the invariants of the others alone. For the batch read the invariant is
  `TypeOK`, `Accounted` and a bound on all that is pending: blocks reached are those counted and those in exactly
  one of three disjoint sets, so each read that is handled may be replaced by one.
  `ContextSuffices` and `ReturnsWhenAllRead` follow; a call that fails ends the function without freeing the buffer. For the other readers, `EveryReadCollected` needs what is still to come
  for each read (`Described`: what its iocb and buffer say now), which reads are outstanding at each place of
  the function, and, for the one with eventfds, that `finished` is the number of reads collected although an
  eventfd is counted again and again: it waits for as many events as it counted. For glibc's aio,
  `ResultsHandledWhenDone` needs what each function has done by each of its steps (`Stages`), that the pointer is set
  before anything that makes the library use it, and that what the library sent once is in one place:
  pending, in a thread, or printed.

Only model-checked: the liveness properties `EveryTaskRuns`, `Answered`, `ClosedEventually`,
`Delivered`, `Finishes`, `BatchFinishes`, `Returns` and `ResultHandled`. Liveness under fairness,
`ENABLED` and induction over data are out of the prover's reach. Each safety property of the passing
runs, and each refinement, is a theorem.

## Plan

The order was: the queue, on which both pools rest; the pool; the reactors, with
the abstract services; the other servers; aio; threads; and the theorems in the order
of the invariants' weight. Every safety property of the passing runs is now a theorem. What is left are
properties for the hazards that have none yet, below.

## Not modelled

`poll/server.cpp` pushes to the vector it iterates over: from the first
connection on its behaviour is undefined, and there is nothing to check after
that; its client does what the others do. For the same reason nothing is said of the erased iterator of
`2.nonblocking/client.cpp:102`. Demonstrations of the language, containers, templates, streams, `mmap`,
libraries and timers keep no state that two actors share (the two processes of `mmap.h` run one after the other); `sync_io` is sequential, and
`io_uring.h` goes on with a ring whose initialisation failed, as the comment of its line 27
says, which is undefined. `CheckByKQueue`, `ReadByKernelAIOINET` and `ReadByKernelAIOCallbackError` have no
code. The Unix-domain variant of `1.blocking` is the loop of the Internet one. What the kernel does - the
ready list of epoll, sockets, aio - and what the C++ library does are modelled as the code uses them and
marked external.

Hazards of the code that no property speaks of: clients that leave end the 3.1 server by
SIGPIPE or `exit` (`server.cpp:148`; the exits are in the model, nothing promises
otherwise); 3.single sends 1024 bytes whatever was received (`server.cpp:68`); of
two connections that arrive together, the edge-triggered server accepts one (`epoll/server.cpp:86`; in the model);
a `send` of the servers of one thread may wait for room; `Stop` followed by the destructor of
`EpollTcpServer` fails an assertion (`epoll_server.cpp:359`), and `Stop` takes the callback away from a
loop that may be calling it (`378`); the edge-triggered server leaves a descriptor open after a failed
write (`epoll/server.cpp:131`); for a file of one block the batch read submits nothing and waits for
ever (`libaio_read.h:383`; in the model, and `BatchFinishes` speaks of two blocks or more); a notification or a registration may come too late
(`condition_variable_test.h:73`, `glibc_aio.h:207`).
