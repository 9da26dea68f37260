----------------------------- MODULE MCThreads -----------------------------
(* Both tests of the condition variable, with three of the five consumers  *)
(* and three of the fifty values, and every other test function.           *)
EXTENDS Threads

CONSTANTS p, w, k1, k2, k3

MCConsumers == {k1, k2, k3}
MCTests     == {"queue", "prepare"}
MCPrograms  ==
  {"TestAsync", "TestSharedAsync", "TestTwoAsync", "TestLaunchAsync",
   "TestLaunchDeferred", "TestHandleException", "TestWait", "TestWaitFor",
   "TestPolling", "TestPassingArguments", "TestJoin", "TestDetach", "TestPromise",
   "TestPackagedTask", "TestMutex", "TestLockGuard", "TestRecursiveMutex",
   "TestTryLockAndLockFor", "TestMultiMutex", "TestUniqueLock", "TestAtomic",
   "testJoin", "testDetach"}
=============================================================================
