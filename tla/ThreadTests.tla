---------------------------- MODULE ThreadTests ----------------------------
(***************************************************************************)
(* The test functions of thread/async_future, thread/thread_promise (with  *)
(* its mutex_lock.h), thread/atomic and thread/basic.  Each program calls  *)
(* one of them from its main; one program runs here.                       *)
(*   A thread is what it has left to do, a sequence of operations.  The    *)
(* test functions are such sequences; the actions say what the operations  *)
(* of the C++ library do.  Work stands for printing and sleeping.          *)
(***************************************************************************)
EXTENDS Naturals, Sequences, FiniteSets

CONSTANT Programs     \* the test functions that may run, by name

Children == {"t1", "t2", "t3", "t4"}   \* the std::threads of a test function
Tasks    == {"f1", "f2", "f3", "f4"}   \* its futures, and their threads
Actors   == {"main"} \cup Children \cup Tasks
Mutexes  == {"mutex", "t_mutex", "r_mutex", "m1", "m2", "readyFlagMutex"}

-----------------------------------------------------------------------------
(* The operations.                                                         *)
On(o, x)       == [op |-> o, on |-> x]
Work           == On("work", "")
Job            == On("job", "")          \* "prepare job done, run something"
SetReady       == On("ready", "")
ReadLocal      == On("read", "")         \* of the test function, by reference
Forever        == On("forever", "")
While(body)    == [op |-> "while", body |-> body]    \* not ready
Start(t, body) == [op |-> "start", on |-> t, body |-> body]
Join(t)        == On("join", t)
Detach(t)      == On("detach", t)
Lock(ms)       == [op |-> "lock", mutexes |-> ms]
Unlock(ms)     == [op |-> "unlock", mutexes |-> ms]
Try(ms, yes)   == [op |-> "try", mutexes |-> ms, yes |-> yes]
Async(f, policies, body) ==
  [op |-> "async", on |-> f, policies |-> policies, body |-> body]
Finish(f)      == On("finish", f)        \* the end of a task
Promise(f)     == On("promise", f)
Set(f)         == On("set", f)           \* through a reference to the promise
Wait(f)        == On("wait", f)
Get(f)         == On("get", f)
Poll(f)        == On("poll", f)
Return         == On("return", "")       \* of the test function

\* Without a policy the library chooses.
Any == {"async", "deferred"}

-----------------------------------------------------------------------------
(* async_future/future_async.h.  An exception that a task throws is kept   *)
(* in its future like a value and thrown by get, inside a try block.       *)
TestAsync == <<Async("f1", Any, <<Work>>), Work, Get("f1"), Return>>

\* get of a shared_future leaves the result.
TestSharedAsync ==
  <<Async("f1", Any, <<Work>>), Work, Wait("f1"), Wait("f1"), Return>>

TestTwoAsync ==
  <<Async("f1", Any, <<Work>>), Async("f2", Any, <<Work>>), Get("f1"), Get("f2"), Return>>

TestLaunchAsync ==
  <<Async("f1", {"async"}, <<Work>>), Async("f2", {"async"}, <<Work>>),
    Work, Get("f1"), Get("f2"), Return>>

TestLaunchDeferred ==
  <<Async("f1", {"deferred"}, <<Work>>), Async("f2", {"deferred"}, <<Work>>),
    Work, Get("f1"), Get("f2"), Return>>

TestHandleException == <<Async("f1", Any, <<Work>>), Get("f1"), Return>>

TestWait ==
  <<Async("f1", Any, <<Work>>), Async("f2", Any, <<Work>>),
    Wait("f1"), Wait("f2"), Get("f1"), Get("f2"), Return>>

\* wait_for returns after 500 ms at the latest and starts nothing.
TestWaitFor == <<Async("f1", {"deferred"}, <<Work>>), Work, Return>>

\* The loop of wait_for leaves when the task is done.
TestPolling ==
  <<Async("f1", {"async"}, <<Work>>), Poll("f1"), Get("f1"), Return>>

\* async_future/wait_for_two_task.h: c and d are passed by reference.
TestPassingArguments ==
  <<Async("f1", {"async"}, <<Work>>), Async("f2", {"async"}, <<Work>>),
    Async("f3", {"async"}, <<ReadLocal, Work>>),
    Async("f4", {"async"}, <<ReadLocal, Work>>),
    Get("f1"), Get("f2"), Get("f3"), Get("f4"), Return>>

-----------------------------------------------------------------------------
(* thread_promise/thread_promise.h                                         *)
TestJoin ==
  <<Start("t1", <<Work>>), Start("t2", <<Work>>), Join("t1"), Join("t2"), Return>>

TestDetach ==
  <<Start("t1", <<Work>>), Start("t2", <<Work>>), Detach("t1"), Detach("t2"),
    Work, Return>>

\* Either outcome of doSomethingPromise sets the promise.  Variant: the future
\* is not asked for its value.
TestPromiseNoGet ==
  <<Promise("f1"), Start("t1", <<Set("f1")>>), Detach("t1"), Return>>
TestPromise ==
  <<Promise("f1"), Start("t1", <<Set("f1")>>), Detach("t1"), Get("f1"), Return>>

\* A packaged task is a promise of what the call returns.
TestPackagedTask ==
  <<Promise("f1"), Promise("f2"),
    Start("t1", <<ReadLocal, Work, Set("f1")>>),
    Start("t2", <<ReadLocal, Work, Set("f2")>>),
    Detach("t1"), Detach("t2"), Get("f1"), Get("f2"), Return>>

-----------------------------------------------------------------------------
(* thread_promise/mutex_lock.h.  A lock_guard is a Lock and, where its life *)
(* ends, an Unlock.                                                         *)
runWithLock      == <<Lock({"mutex"}), Work, Unlock({"mutex"})>>
runWithTimedLock == <<Lock({"t_mutex"}), Work, Unlock({"t_mutex"})>>
runWithLockGuard == <<Work, Lock({"mutex"}), Work, Unlock({"mutex"})>>
runWithRecursiveMutex == <<Lock({"r_mutex"}), Unlock({"r_mutex"})>>

TestMutex ==
  <<Start("t1", <<Work>>), Start("t2", <<Work>>), Join("t1"), Join("t2"),
    Start("t3", runWithLock), Start("t4", runWithLock),
    Join("t3"), Join("t4"), Return>>

TestLockGuard ==
  <<Start("t1", runWithLockGuard), Start("t2", runWithLockGuard),
    Join("t1"), Join("t2"), Return>>

TestRecursiveMutex ==
  <<Lock({"r_mutex"})>> \o runWithRecursiveMutex \o <<Unlock({"r_mutex"}), Return>>

\* Line 115 names no variable: the lock_guard lives until the end of that line
\* and line 116 runs without the lock.  Line 103 tries a mutex the thread owns,
\* which is undefined; the pthread mutex of the build refuses.
TestTryLockAndLockFor ==
  <<Lock({"mutex"}), Try({"mutex"}, <<Work>>), Unlock({"mutex"}),
    Try({"mutex"}, <<Unlock({"mutex"}), Work>>),
    Start("t1", runWithTimedLock),
    Start("t2", <<Try({"t_mutex"}, <<Work, Unlock({"t_mutex"})>>)>>),
    Join("t1"), Join("t2"), Return>>

\* Here, too, each lock_guard ends with its line.
TestMultiMutex ==
  <<Lock({"m1", "m2"}), Unlock({"m1"}), Unlock({"m2"}),
    Try({"m1", "m2"}, <<Unlock({"m1"}), Unlock({"m2"})>>), Return>>

prepareThread ==
  <<Work, Lock({"readyFlagMutex"}), SetReady, Unlock({"readyFlagMutex"})>>

\* Variant: the thread sleeps with the lock.
waitForPrepareThreadLocked ==
  <<Lock({"readyFlagMutex"}), While(<<Work>>), Unlock({"readyFlagMutex"}), Job>>
\* Variant: it reads the flag before it has the lock again.
waitForPrepareThreadRaces ==
  <<Lock({"readyFlagMutex"}), While(<<Unlock({"readyFlagMutex"}), Work>>), Job>>
waitForPrepareThread ==
  <<Lock({"readyFlagMutex"}),
    While(<<Unlock({"readyFlagMutex"}), Work, Lock({"readyFlagMutex"})>>),
    Unlock({"readyFlagMutex"}), Job>>

TestUniqueLock ==
  <<Start("t1", prepareThread), Start("t2", waitForPrepareThread),
    Join("t1"), Join("t2"), Return>>

-----------------------------------------------------------------------------
(* atomic/atomic_test.h and basic/main.cpp.  timerFn1 calls itself without *)
(* end.                                                                    *)
TestAtomic ==
  <<Start("t1", <<Work, SetReady>>), Start("t2", <<While(<<Work>>), Job>>),
    Join("t1"), Join("t2"), Return>>

testJoin ==
  <<Start("t1", <<Work>>), Start("t2", <<Forever>>), Join("t1"), Join("t2"),
    Work, Return>>

testDetach ==
  <<Start("t1", <<Forever>>), Start("t2", <<Forever>>), Detach("t1"), Work,
    Join("t2"), Return>>

Code == [TestAsync |-> TestAsync, TestSharedAsync |-> TestSharedAsync,
         TestTwoAsync |-> TestTwoAsync, TestLaunchAsync |-> TestLaunchAsync,
         TestLaunchDeferred |-> TestLaunchDeferred,
         TestHandleException |-> TestHandleException, TestWait |-> TestWait,
         TestWaitFor |-> TestWaitFor, TestPolling |-> TestPolling,
         TestPassingArguments |-> TestPassingArguments,
         TestJoin |-> TestJoin, TestDetach |-> TestDetach,
         TestPromise |-> TestPromise, TestPackagedTask |-> TestPackagedTask,
         TestMutex |-> TestMutex, TestLockGuard |-> TestLockGuard,
         TestRecursiveMutex |-> TestRecursiveMutex,
         TestTryLockAndLockFor |-> TestTryLockAndLockFor,
         TestMultiMutex |-> TestMultiMutex, TestUniqueLock |-> TestUniqueLock,
         TestAtomic |-> TestAtomic, testJoin |-> testJoin, testDetach |-> testDetach]

-----------------------------------------------------------------------------
VARIABLES
  program,  \* the test function that runs
  code,     \* code[a]: what the thread a has left to do
  handle,   \* the std::thread objects: "none", "joinable", "joined", "detached"
  held,     \* held[m]: the thread that has m, as often as it has locked it
  result,   \* the futures: "none", "deferred", "pending", "ready", "taken"
  ready,    \* readyFlag
  inScope   \* the locals of the test function exist

vars == <<program, code, handle, held, result, ready, inScope>>

Rest == /\ code = [a \in Actors |-> IF a = "main" /\ program \in DOMAIN Code
                                    THEN Code[program] ELSE <<>>]
        /\ handle = [t \in Children |-> "none"]
        /\ held = [m \in Mutexes |-> <<>>]
        /\ result = [f \in Tasks |-> "none"]
        /\ ready = FALSE
        /\ inScope = (program \in DOMAIN Code)

Init == program \in Programs /\ Rest

\* The thread a comes to an operation o; what the operation names.
At(a, o) == code[a] # <<>> /\ Head(code[a]).op = o
This(a)  == Head(code[a])

\* a goes on to its next operation.
GoOn(a) == code' = [code EXCEPT ![a] = Tail(@)]
-----------------------------------------------------------------------------
DoWork(a) == /\ At(a, "work") \/ At(a, "job") \/ At(a, "read")
             /\ GoOn(a)
             /\ UNCHANGED <<program, handle, held, result, ready, inScope>>

\* The flag, and the loops that wait for it.
DoReady(a) == /\ At(a, "ready")
              /\ ready' = TRUE
              /\ GoOn(a)
              /\ UNCHANGED <<program, handle, held, result, inScope>>

DoWhile(a) == /\ At(a, "while")
              /\ code' = [code EXCEPT ![a] = IF ready THEN Tail(@) ELSE This(a).body \o @]
              /\ UNCHANGED <<program, handle, held, result, ready, inScope>>

\* std::thread
DoStart(a) == /\ At(a, "start")
              /\ LET t == This(a).on IN
                   /\ handle' = [handle EXCEPT ![t] = "joinable"]
                   /\ code' = [code EXCEPT ![a] = Tail(@), ![t] = This(a).body]
              /\ UNCHANGED <<program, held, result, ready, inScope>>

DoJoin(a) == /\ At(a, "join")
             /\ code[This(a).on] = <<>>
             /\ handle' = [handle EXCEPT ![This(a).on] = "joined"]
             /\ GoOn(a)
             /\ UNCHANGED <<program, held, result, ready, inScope>>

DoDetach(a) == /\ At(a, "detach")
               /\ handle' = [handle EXCEPT ![This(a).on] = "detached"]
               /\ GoOn(a)
               /\ UNCHANGED <<program, held, result, ready, inScope>>

\* The mutexes; only r_mutex can be locked again by its owner.  std::lock and
\* std::try_lock of two mutexes take both or none.
Free(a, m) == held[m] # <<>> => m = "r_mutex" /\ Head(held[m]) = a
Take(a, ms) == held' = [m \in Mutexes |-> IF m \in ms THEN Append(held[m], a) ELSE held[m]]

DoLock(a) == /\ At(a, "lock")
             /\ \A m \in This(a).mutexes : Free(a, m)
             /\ Take(a, This(a).mutexes)
             /\ GoOn(a)
             /\ UNCHANGED <<program, handle, result, ready, inScope>>

\* try_lock; try_lock_for, too, which may wait before it gives up.
DoTry(a) == /\ At(a, "try")
            /\ IF \A m \in This(a).mutexes : Free(a, m)
               THEN /\ Take(a, This(a).mutexes)
                    /\ code' = [code EXCEPT ![a] = This(a).yes \o Tail(@)]
               ELSE GoOn(a) /\ UNCHANGED held
            /\ UNCHANGED <<program, handle, result, ready, inScope>>

DoUnlock(a) == /\ At(a, "unlock")
               /\ held' = [m \in Mutexes |-> IF m \in This(a).mutexes
                                             THEN Tail(held[m]) ELSE held[m]]
               /\ GoOn(a)
               /\ UNCHANGED <<program, handle, result, ready, inScope>>

-----------------------------------------------------------------------------
\* std::async starts a thread or leaves the task for the one who waits; at its
\* end the task makes the result ready.
DoAsync(a) ==
  /\ At(a, "async")
  /\ \E p \in This(a).policies :
       result' = [result EXCEPT ![This(a).on] = IF p = "async" THEN "pending" ELSE "deferred"]
  /\ code' = [code EXCEPT ![a] = Tail(@), ![This(a).on] = Append(This(a).body, Finish(This(a).on))]
  /\ UNCHANGED <<program, handle, held, ready, inScope>>

\* The end of a task, and set_value, set_exception or the end of a packaged
\* task, which needs the promise.  The library makes the state ready and is done
\* with the promise in one step: the standard has the member functions of promise
\* and future take turns, so get does not return in the middle of set_value.
DoFinish(a) == /\ At(a, "finish") \/ At(a, "set")
               /\ result' = [result EXCEPT ![This(a).on] = "ready"]
               /\ GoOn(a)
               /\ UNCHANGED <<program, handle, held, ready, inScope>>

DoPromise(a) == /\ At(a, "promise")
                /\ result' = [result EXCEPT ![This(a).on] = "pending"]
                /\ GoOn(a)
                /\ UNCHANGED <<program, handle, held, ready, inScope>>

\* wait and get run a deferred task in the thread that calls them.
DoDeferred(a) ==
  /\ At(a, "wait") \/ At(a, "get")
  /\ result[This(a).on] = "deferred"
  /\ result' = [result EXCEPT ![This(a).on] = "pending"]
  /\ code' = [code EXCEPT ![a] = code[This(a).on] \o @, ![This(a).on] = <<>>]
  /\ UNCHANGED <<program, handle, held, ready, inScope>>

\* They return when the result is ready, and so does the loop of wait_for;
\* get leaves the future without it.
DoWait(a) == /\ At(a, "wait") \/ At(a, "poll")
             /\ result[This(a).on] = "ready"
             /\ GoOn(a)
             /\ UNCHANGED <<program, handle, held, result, ready, inScope>>

DoGet(a) == /\ At(a, "get")
            /\ result[This(a).on] = "ready"
            /\ result' = [result EXCEPT ![This(a).on] = "taken"]
            /\ GoOn(a)
            /\ UNCHANGED <<program, handle, held, ready, inScope>>

\* The end of the test function: the destructor of a future that async
\* returned waits for its thread; a deferred task is dropped.
DoReturn(a) == /\ At(a, "return")
               /\ \A f \in Tasks : code[f] = <<>> \/ result[f] = "deferred"
               /\ inScope' = FALSE
               /\ GoOn(a)
               /\ UNCHANGED <<program, handle, held, result, ready>>

-----------------------------------------------------------------------------
\* A deferred task has no thread.
Running(a) == code[a] # <<>> /\ (a \in Tasks => result[a] # "deferred")

Step(a) == /\ Running(a)
           /\ \/ DoWork(a) \/ DoReady(a) \/ DoWhile(a)
              \/ DoStart(a) \/ DoJoin(a) \/ DoDetach(a)
              \/ DoLock(a) \/ DoTry(a) \/ DoUnlock(a)
              \/ DoAsync(a) \/ DoFinish(a) \/ DoPromise(a)
              \/ DoDeferred(a) \/ DoWait(a) \/ DoGet(a) \/ DoReturn(a)

Next == \E a \in Actors : Step(a)

\* The scheduler runs every thread; a thread that waits for a mutex gets it at
\* last when it becomes free again and again, here for half a second each time.
Fairness == /\ \A a \in Actors : WF_vars(Step(a))
            /\ \A t \in Children : SF_vars(DoLock(t))

Spec == Init /\ [][Next]_vars /\ Fairness
-----------------------------------------------------------------------------
\* A thread unlocks what it has locked, and nothing stays locked; readyFlag of
\* mutex_lock.h, a plain bool, is only read and written with its mutex, so that
\* there is no data race (the loop gives the mutex away to sleep, lines 180-185).
LocksKept ==
  /\ \A a \in Actors : At(a, "unlock") =>
       \A m \in This(a).mutexes : held[m] # <<>> /\ Head(held[m]) = a
  /\ \A a \in Actors : program = "TestUniqueLock" /\ (At(a, "while") \/ At(a, "ready"))
                         => held["readyFlagMutex"] = <<a>>
  /\ (\A a \in Actors : code[a] = <<>>) => \A m \in Mutexes : held[m] = <<>>

\* Nothing is used after its life: a thread that refers to a local of the test
\* function (a promise, a packaged task, an argument), detached or not, is done
\* with it when the function returns; a future still has its result when it is
\* asked; and no std::thread ends unless it was joined or detached, which would
\* end the program.
Lifetimes ==
  /\ \A a \in Actors : At(a, "read") \/ At(a, "set") => inScope
  /\ \A a \in Actors : At(a, "get") \/ At(a, "wait") \/ At(a, "poll")
                         => result[This(a).on] \notin {"none", "taken"}
  /\ ~ inScope => \A t \in Children : handle[t] # "joinable"

\* Every test function comes to its end, with all the waiting for threads,
\* futures, mutexes and flags; but for the two of basic, which wait for a thread
\* that goes on for ever (main.cpp:16).
Finishes == IF program \in {"testJoin", "testDetach"} THEN [] inScope
            ELSE program \in DOMAIN Code => <> ~ inScope
=============================================================================
