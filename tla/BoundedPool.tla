----------------------------- MODULE BoundedPool -----------------------------
(***************************************************************************)
(* What lib/fork.py promises to its callers, whatever the way it forks and  *)
(* polls: the functions that were registered are run in child processes,    *)
(* never more than Bound of them at a time, each child is collected once,   *)
(* as a result or as an error, and the call ends only when nothing is left. *)
(* Ending with at least one error raises ForkResultError.  The call may also *)
(* be abandoned (an exception or a signal in the parent).                   *)
(***************************************************************************)
EXTENDS Naturals, FiniteSets

CONSTANTS Keys,     \* the keys a caller may register with add_fork
          Bound     \* how many children may be uncollected at a time

VARIABLES waiting,  \* keys whose function has no child yet
          active,   \* keys with a child that is not collected
          results,  \* keys whose result was collected
          errors,   \* number of children collected as failed
          outcome   \* "none" | "open" | "returned" | "raised" | "abandoned"

vars == <<waiting, active, results, errors, outcome>>

Outcomes == {"none", "open", "returned", "raised", "abandoned"}

Init ==
    /\ waiting = {} /\ active = {} /\ results = {}
    /\ errors = 0
    /\ outcome = "none"

Open(S) ==
    /\ outcome = "none"
    /\ waiting' = S
    /\ outcome' = "open"
    /\ UNCHANGED <<active, results, errors>>

Start(k) ==
    /\ outcome = "open"
    /\ k \in waiting
    /\ Cardinality(active) < Bound
    /\ waiting' = waiting \ {k}
    /\ active' = active \cup {k}
    /\ UNCHANGED <<results, errors, outcome>>

Collect(G, B) ==
    /\ outcome = "open"
    /\ G \cap B = {}
    /\ active' = active \ (G \cup B)
    /\ results' = results \cup G
    /\ errors' = errors + Cardinality(B)
    /\ UNCHANGED <<waiting, outcome>>

Close ==
    /\ outcome = "open"
    /\ waiting = {} /\ active = {}
    /\ outcome' = IF errors = 0 THEN "returned" ELSE "raised"
    /\ UNCHANGED <<waiting, active, results, errors>>

Abandon ==
    /\ outcome = "open"
    /\ outcome' = "abandoned"
    /\ UNCHANGED <<waiting, active, results, errors>>

Next ==
    \/ \E S \in SUBSET Keys : Open(S)
    \/ \E k \in waiting : Start(k)
    \/ \E G, B \in SUBSET active : Collect(G, B)
    \/ Close
    \/ Abandon

Spec == Init /\ [][Next]_vars
==============================================================================
