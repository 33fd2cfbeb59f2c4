------------------------------ MODULE SharedLock ------------------------------
(***************************************************************************)
(* What the daemons rely on when they register under a PID file, whatever    *)
(* happens to the file: a process gets the lock only when nobody has it, it  *)
(* shares it with the children it forks, and the lock is free again when the *)
(* last of them is gone.                                                     *)
(***************************************************************************)
CONSTANT Processes

VARIABLES own,   \* the processes that have the lock themselves
          kin    \* the processes that have forked children with the lock

vars == <<own, kin>>

Init == own = {} /\ kin = {}

Acquire(p) == own = {} /\ kin = {} /\ own' = {p} /\ UNCHANGED kin

Fork(p) == p \in own /\ kin' = kin \cup {p} /\ UNCHANGED own

ChildrenEnd(p) == p \in kin /\ kin' = kin \ {p} /\ UNCHANGED own

Release(p) == p \in own /\ own' = own \ {p} /\ UNCHANGED kin

Next ==
    \E p \in Processes : Acquire(p) \/ Fork(p) \/ ChildrenEnd(p) \/ Release(p)

Spec == Init /\ [][Next]_vars
===============================================================================
