------------------------------ MODULE Threads ------------------------------
(***************************************************************************)
(* The programs of thread/: the tests of condition_variable, which CondVar *)
(* models, and those of the other directories, in ThreadTests.  They share *)
(* nothing; one of them runs.                                              *)
(***************************************************************************)
EXTENDS CondVar

CONSTANT Programs   \* of ThreadTests

VARIABLES program, code, handle, held, result, ready, inScope

testVars == <<program, code, handle, held, result, ready, inScope>>

TT == INSTANCE ThreadTests

ThreadsInit == \/ Init /\ program = "none" /\ TT!Rest
               \/ TT!Init /\ test = "none" /\ Rest

ThreadsNext == \/ Next /\ UNCHANGED testVars
               \/ TT!Next /\ UNCHANGED vars

ThreadsSpec == /\ ThreadsInit
               /\ [][ThreadsNext]_<<vars, testVars>>
               /\ Fairness
               /\ TT!Fairness

\* The properties of ThreadTests, for whichever of its functions runs.
LocksKept == TT!LocksKept
Lifetimes == TT!Lifetimes
Finishes  == TT!Finishes
=============================================================================
