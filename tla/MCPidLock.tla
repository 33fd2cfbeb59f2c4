------------------------------ MODULE MCPidLock ------------------------------
(* Three daemons, one after the other or at once, and two observers. *)
EXTENDS PidLock, TLC

CONSTANTS d1, d2, d3, o1, o2

ThreeDaemons == {d1, d2, d3}
TwoObservers == {o1, o2}

Perms == Permutations(ThreeDaemons) \cup Permutations(TwoObservers)
==============================================================================
