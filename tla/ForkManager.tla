----------------------------- MODULE ForkManager -----------------------------
(***************************************************************************)
(* lib/fork.py: ForkManager.bounded_fork_and_collect with the functions it   *)
(* is made of (add_fork, fork_in_bg, fetch_ready_fork_result_list,           *)
(* fetch_fork_result) and the children it forks.                             *)
(*                                                                         *)
(* The order of key_list is abstracted: the next key is any key not forked   *)
(* yet, so every insertion order is covered.  A poll that times out with no  *)
(* readable pipe changes nothing and is a stuttering step.                   *)
(***************************************************************************)
EXTENDS Integers, FiniteSets

CONSTANTS Keys,      \* keys a caller may give to add_fork
          MaxForks,  \* max_forks, the argument of bounded_fork_and_collect
          CanFail    \* keys whose function may raise, or whose child may be killed

ASSUME KeysAssumption == IsFiniteSet(Keys)
ASSUME MaxForksAssumption == MaxForks \in Nat \ {0}
ASSUME CanFailAssumption == CanFail \subseteq Keys

VARIABLES
    pc,                  \* where the caller is
    functions_tofork,    \* keys registered
    unforked,            \* the rest of key_list in the for loop
    forks_remaining,     \* free slots
    functions_remaining, \* functions not yet collected
    pipe_ids,            \* keys with an entry in the pipe_ids dictionary
    post_work_info,      \* keys with a result
    nr_errors,
    child                \* the process of each key, as the kernel knows it

vars == <<pc, functions_tofork, unforked, forks_remaining, functions_remaining,
          pipe_ids, post_work_info, nr_errors, child>>

callVars == <<unforked, forks_remaining, functions_remaining, pipe_ids,
              post_work_info, nr_errors>>

Places == {"idle", "fork", "drain", "returned", "raised", "interrupted"}

(***************************************************************************)
(* "none": not forked; "running"; "wrote": the result is in the pipe and the *)
(* child is gone; "died": gone with nothing (or half a pickle) in the pipe;  *)
(* "reaped": fetched, its pipe closed, waitpid done.                         *)
(***************************************************************************)
ChildStates == {"none", "running", "wrote", "died", "reaped"}

TypeOK ==
    /\ pc \in Places
    /\ functions_tofork \subseteq Keys
    /\ unforked \subseteq Keys
    /\ pipe_ids \subseteq Keys
    /\ post_work_info \subseteq Keys
    /\ forks_remaining \in 0..MaxForks
    /\ functions_remaining \in Nat
    /\ nr_errors \in Nat
    /\ child \in [Keys -> ChildStates]

Init ==
    /\ pc = "idle"
    /\ functions_tofork = {}
    /\ unforked = {} /\ pipe_ids = {} /\ post_work_info = {}
    /\ forks_remaining = 0 /\ functions_remaining = 0 /\ nr_errors = 0
    /\ child = [k \in Keys |-> "none"]

-----------------------------------------------------------------------------
(* The parent. *)

(* add_fork; a key already in use raises KeyError and changes nothing. *)
AddFork(k) ==
    /\ pc = "idle"
    /\ k \notin functions_tofork
    /\ functions_tofork' = functions_tofork \cup {k}
    /\ UNCHANGED <<pc, callVars, child>>

Call ==
    /\ pc = "idle"
    /\ pc' = "fork"
    /\ unforked' = functions_tofork
    /\ forks_remaining' = MaxForks
    /\ functions_remaining' = Cardinality(functions_tofork)
    /\ pipe_ids' = {} /\ post_work_info' = {} /\ nr_errors' = 0
    /\ UNCHANGED <<functions_tofork, child>>

(* fork_in_bg for the next key, once there is a free slot. *)
Fork(k) ==
    /\ pc = "fork"
    /\ k \in unforked
    /\ forks_remaining # 0
    /\ unforked' = unforked \ {k}
    /\ child' = [child EXCEPT ![k] = "running"]
    /\ pipe_ids' = pipe_ids \cup {k}
    /\ forks_remaining' = forks_remaining - 1
    /\ UNCHANGED <<pc, functions_tofork, functions_remaining, post_work_info, nr_errors>>

EndForkLoop ==
    /\ pc = "fork"
    /\ unforked = {}
    /\ pc' = "drain"
    /\ UNCHANGED <<functions_tofork, callVars, child>>

(* The children whose pipe the poll reports.  A pipe that was already read   *)
(* and closed would be reported as well, and fetched as an error.            *)
Ready == {k \in pipe_ids : child[k] # "running"}

GoodResults == {k \in Ready : child[k] = "wrote"}
FailedKeys  == Ready \ GoodResults

(* The keys whose pipes bounded_fork_and_collect forgets after a poll. *)
DoneKeys == GoodResults \cup FailedKeys

(* Mutant of FreedSlots: a poll gives every slot back. *)
FreedSlotsAll == MaxForks - forks_remaining

(* The slots given back after a poll. *)
FreedSlots == Cardinality(GoodResults)

(* fetch_ready_fork_result_list, with the bookkeeping of its two callers. *)
Gather ==
    /\ \/ pc = "fork" /\ unforked # {} /\ forks_remaining = 0
       \/ pc = "drain" /\ functions_remaining > 0
    /\ Ready # {}
    /\ child' = [k \in Keys |-> IF k \in Ready THEN "reaped" ELSE child[k]]
    /\ post_work_info' = post_work_info \cup GoodResults
    /\ nr_errors' = nr_errors + Cardinality(FailedKeys)
    /\ forks_remaining' = forks_remaining + FreedSlots
    /\ functions_remaining' =
           functions_remaining - Cardinality(GoodResults) - Cardinality(FailedKeys)
    /\ pipe_ids' = pipe_ids \ DoneKeys
    /\ UNCHANGED <<pc, functions_tofork, unforked>>

(* Mutant of Return: the errors are not looked at. *)
ReturnIgnoresErrors ==
    /\ pc = "drain"
    /\ functions_remaining <= 0
    /\ pc' = "returned"
    /\ UNCHANGED <<functions_tofork, callVars, child>>

(* Mutant of Return: one more collection is waited for than there are functions. *)
ReturnStrict ==
    /\ pc = "drain"
    /\ functions_remaining < 0
    /\ pc' = IF nr_errors > 0 THEN "raised" ELSE "returned"
    /\ UNCHANGED <<functions_tofork, callVars, child>>

Return ==
    /\ pc = "drain"
    /\ functions_remaining <= 0
    /\ pc' = IF nr_errors > 0 THEN "raised" ELSE "returned"
    /\ UNCHANGED <<functions_tofork, callVars, child>>

(* The parent leaves the call without collecting its children: termsignal    *)
(* raised KeyboardInterrupt in it, or os.fork failed in fork_in_bg.          *)
Interrupt ==
    /\ pc \in {"fork", "drain"}
    /\ pc' = "interrupted"
    /\ UNCHANGED <<functions_tofork, callVars, child>>

-----------------------------------------------------------------------------
(* The children. *)

Finish(k) ==
    /\ child[k] = "running"
    /\ child' = [child EXCEPT ![k] = "wrote"]
    /\ UNCHANGED <<pc, functions_tofork, callVars>>

(* The function raised (fork_in_bg logs it and exits 0), the result could    *)
(* not be pickled, or the process was killed.                                *)
Fail(k) ==
    /\ k \in CanFail
    /\ child[k] = "running"
    /\ child' = [child EXCEPT ![k] = "died"]
    /\ UNCHANGED <<pc, functions_tofork, callVars>>

-----------------------------------------------------------------------------
ParentStep == (\E k \in Keys : Fork(k)) \/ EndForkLoop \/ Gather \/ Return

Next ==
    \/ \E k \in Keys : AddFork(k)
    \/ Call
    \/ ParentStep
    \/ Interrupt
    \/ \E k \in Keys : Finish(k)
    \/ \E k \in Keys : Fail(k)

Spec == Init /\ [][Next]_vars

(* The parent loops until it is done, and a child ends, one way or another:  *)
(* it has work of bounded length and os._exit in a finally clause.           *)
Fairness ==
    /\ WF_vars(ParentStep)
    /\ \A k \in Keys : WF_vars(Finish(k) \/ Fail(k))

FairSpec == Spec /\ Fairness

-----------------------------------------------------------------------------
Calling == pc \in {"fork", "drain"}
Ended   == pc \in {"returned", "raised", "interrupted"}

Uncollected == {k \in Keys : child[k] \in {"running", "wrote", "died"}}

(* Slots are only ever held by uncollected children or lost to failed ones:  *)
(* bounded_fork_and_collect gives a slot back for a result, not for an error.*)
SlotAccounting ==
    pc # "idle" => forks_remaining + Cardinality(pipe_ids) + nr_errors = MaxForks

(* functions_remaining, the counter the last loop waits on, counts exactly   *)
(* the functions not forked or not collected: the call cannot end early and  *)
(* cannot wait for a function that is already accounted for.                 *)
RemainingAccounting ==
    pc # "idle" =>
        functions_remaining = Cardinality(unforked) + Cardinality(pipe_ids)

(* "max_forks (int): Maximum number of concurrent forks": never more         *)
(* children exist than max_forks, the ones that have ended but are not       *)
(* waited for included, also after the call was interrupted.                 *)
BoundedChildren == Cardinality(Uncollected) <= MaxForks

(* A call that ends leaves no child behind, returns when all functions gave  *)
(* a result and raises ForkResultError with the partial results otherwise.   *)
CompleteResults ==
    pc \in {"returned", "raised"} =>
        /\ Uncollected = {}
        /\ post_work_info \subseteq functions_tofork
        /\ nr_errors = Cardinality(functions_tofork \ post_work_info)
        /\ (pc = "returned") <=> (post_work_info = functions_tofork)

(* The only way the call waits for nothing (no free slot, no child left to   *)
(* poll, functions still to fork) is that max_forks children failed.         *)
Starved ==
    pc = "fork" /\ unforked # {} /\ forks_remaining = 0 /\ pipe_ids = {}

StarvedOnlyByFailures == Starved => nr_errors = MaxForks

(* Whatever fails, the call ends or it is starved: there is no other way for *)
(* it to wait forever.  (The docstring says "Raises: ForkResultError: If     *)
(* there are errors in the forked processes"; a starved call raises nothing.)*)
EndsOrStarves == Calling ~> (Ended \/ Starved)

(* ForkManager does what BoundedPool promises. *)
Pool == INSTANCE BoundedPool WITH
            Bound   <- MaxForks,
            waiting <- unforked,
            active  <- pipe_ids,
            results <- post_work_info,
            errors  <- nr_errors,
            outcome <- CASE pc = "idle" -> "none"
                         [] Calling -> "open"
                         [] pc = "interrupted" -> "abandoned"
                         [] OTHER -> pc

PoolSpec == Pool!Spec
==============================================================================
