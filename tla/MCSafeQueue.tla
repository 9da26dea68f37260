---------------------------- MODULE MCSafeQueue ----------------------------
(* Two threads push, three shift, one polls: enough for two sleepers, a    *)
(* thread that is woken for an item another thread takes, and a push that  *)
(* finds nobody asleep.                                                    *)
EXTENDS SafeQueue, TLC

CONSTANTS p1, p2, s1, s2, s3, x1

MCPushers  == {p1, p2}
MCShifters == {s1, s2, s3}
MCPollers  == {x1}

Symmetry == Permutations(MCPushers) \cup Permutations(MCShifters)
=============================================================================
