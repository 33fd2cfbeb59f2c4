-------------------------- MODULE FactorySupervisor --------------------------
(***************************************************************************)
(* The factory daemon and the entry group process it looks after             *)
(* (factory/glideFactory.py: spawn, clean_exit; factory/                     *)
(* glideFactoryEntryGroup.py: main, check_parent).  All entries are in one   *)
(* group (entry_process_count is 1), so there is one child process at a      *)
(* time; it is started again when it crashes, unless it does so too often.   *)
(*                                                                         *)
(* A group process registers under the group's PID file, whose lock its      *)
(* forked workers share (module PidLock).  Group processes are numbered in   *)
(* the order in which they are started.                                      *)
(***************************************************************************)
EXTENDS Naturals, Sequences, FiniteSets

CONSTANTS
    restart_attempts, restart_interval,
    MaxGroups,   \* bound: group processes ever started
    MaxTime      \* bound: the clock

ASSUME RestartAssumption ==
    /\ restart_attempts \in Nat \ {0} /\ restart_interval \in Nat
    /\ MaxGroups \in Nat /\ MaxTime \in Nat

VARIABLES
    now,
    factory,          \* the factory daemon
    child,            \* the group process in spawn's children, 0 if none
    children_uptime,  \* spawn's list of the last times it started the group
    started,          \* how many group processes were started
    group,            \* the state of every group process
    rc,               \* the exit code of every group process
    workers,          \* the group processes with live forked workers
    orphans,          \* the group processes whose factory has crashed
    starts            \* history: the times this factory started the group at

vars == <<now, factory, child, children_uptime, started, group, rc, workers, orphans,
          starts>>

Groups == 1 .. MaxGroups

FactoryStates == {"off", "running", "stopping", "terminating", "gone", "crashed"}

TypeOK ==
    /\ now \in 0 .. MaxTime
    /\ factory \in FactoryStates
    /\ child \in 0 .. started
    /\ children_uptime \in Seq(0 .. now)
    /\ Len(children_uptime) <= restart_attempts
    /\ started \in 0 .. MaxGroups
    /\ group \in [Groups -> {"none", "starting", "serving", "dead"}]
    /\ rc \in [Groups -> {0, 1}]
    /\ workers \in SUBSET Groups
    /\ orphans \in SUBSET Groups
    /\ starts \in Seq(0 .. now)

Init ==
    /\ now = 0
    /\ factory = "off" /\ child = 0 /\ children_uptime = <<>>
    /\ started = 0
    /\ group = [g \in Groups |-> "none"] /\ rc = [g \in Groups |-> 0]
    /\ workers = {} /\ orphans = {}
    /\ starts = <<>>

Running(g) == group[g] \in {"starting", "serving"}

factoryVars == <<factory, child, children_uptime, started, starts>>

-----------------------------------------------------------------------------
(* The group process. *)

(* The lock of the PID file is free: nobody serves, no worker is left over. *)
LockFree == (\A g \in Groups : group[g] # "serving") /\ workers = {}

(* Mutant of Register: the lock is not tried. *)
RegisterAlways(g) ==
    /\ group[g] = "starting"
    /\ group' = [group EXCEPT ![g] = "serving"]
    /\ UNCHANGED <<now, rc, workers, orphans, factoryVars>>

(* pid_obj.register: AlreadyRunning ends the process with an error. *)
Register(g) ==
    /\ group[g] = "starting"
    /\ group' = [group EXCEPT ![g] = IF LockFree THEN "serving" ELSE "dead"]
    /\ rc' = [rc EXCEPT ![g] = IF LockFree THEN @ ELSE 1]
    /\ UNCHANGED <<now, workers, orphans, factoryVars>>

(* An iteration forks its workers... *)
ForkWorkers(g) ==
    /\ group[g] = "serving"
    /\ workers' = workers \cup {g}
    /\ UNCHANGED <<now, group, rc, orphans, factoryVars>>

(* ...which end, in time or long after the group process itself. *)
WorkersEnd(g) ==
    /\ g \in workers
    /\ workers' = workers \ {g}
    /\ UNCHANGED <<now, group, rc, orphans, factoryVars>>

(* An exception in the first iteration, a signal before register, a SIGKILL. *)
Crash(g) ==
    /\ Running(g)
    /\ group' = [group EXCEPT ![g] = "dead"]
    /\ rc' = [rc EXCEPT ![g] = 1]
    /\ UNCHANGED <<now, workers, orphans, factoryVars>>

(* A KeyboardInterrupt, raised by a SIGTERM or by check_parent, is caught:   *)
(* the process relinquishes its PID file and ends as if all was well.        *)
Quit(g) ==
    /\ group[g] = "serving"
    /\ group' = [group EXCEPT ![g] = "dead"]
    /\ UNCHANGED <<now, rc, workers, orphans, factoryVars>>

(* Mutant of QuitOrphaned: the parent is not checked. *)
NeverOrphaned(g) == FALSE

(* check_parent, at the next iteration after the factory has disappeared. *)
QuitOrphaned(g) == g \in orphans /\ Quit(g)

-----------------------------------------------------------------------------
(* The factory. *)

(* A group process is started, and its start time added to the ones kept. *)
StartGroup(kept) ==
    /\ started < MaxGroups
    /\ started' = started + 1
    /\ child' = started'
    /\ group' = [group EXCEPT ![started'] = "starting"]
    /\ children_uptime' = Append(kept, now)

StartFactory ==
    /\ factory \in {"off", "gone", "crashed"}
    /\ factory' = "running"
    /\ StartGroup(<<>>)
    /\ starts' = <<now>>
    /\ UNCHANGED <<now, rc, workers, orphans>>

is_crashing_often ==
    /\ Len(children_uptime) >= restart_attempts
    /\ restart_attempts = 1 \/ now - children_uptime[1] < restart_interval

(* Mutant of Exited: no end of the process is noticed, not even a crash. *)
NotExited == FALSE

(* child.poll(): an exit code that is not 0. *)
Exited == child # 0 /\ group[child] = "dead" /\ rc[child] # 0

(* Mutant of LastStarts: the oldest start time is never dropped. *)
AllStarts == children_uptime

(* The start times that are kept when another one is added. *)
LastStarts ==
    IF Len(children_uptime) = restart_attempts THEN Tail(children_uptime)
    ELSE children_uptime

RestartGroup ==
    /\ factory = "running" /\ Exited /\ ~is_crashing_often
    /\ StartGroup(LastStarts)
    /\ starts' = Append(starts, now)
    /\ UNCHANGED <<now, factory, rc, workers, orphans>>

(* "crashing too often, quit the whole factory" *)
GiveUp ==
    /\ factory = "running" /\ Exited /\ is_crashing_often
    /\ factory' = "stopping"
    /\ child' = 0
    /\ UNCHANGED <<now, children_uptime, started, group, rc, workers, orphans, starts>>

(* SIGTERM or SIGHUP. *)
Signalled ==
    /\ factory = "running"
    /\ factory' = "stopping"
    /\ UNCHANGED <<now, child, children_uptime, started, group, rc, workers, orphans,
                   starts>>

(* clean_exit: the group is sent a SIGTERM, at which it may Quit or Crash... *)
Terminate ==
    /\ factory = "stopping"
    /\ factory' = "terminating"
    /\ UNCHANGED <<now, child, children_uptime, started, group, rc, workers, orphans,
                   starts>>

(* What the factory knew is gone with it. *)
Forget == child' = 0 /\ children_uptime' = <<>> /\ starts' = <<>>

(* Mutant of HardKill: a group that is still there is left alone. *)
NoHardKill(g) == UNCHANGED <<group, rc>>

HardKill(g) ==
    /\ group' = [group EXCEPT ![g] = "dead"]
    /\ rc' = [rc EXCEPT ![g] = 1]

(* Mutant of CheckDying: it waits until poll() tells that the group is gone. *)
CheckDyingPatiently ==
    /\ factory = "terminating"
    /\ child = 0 \/ Exited
    /\ factory' = "gone"
    /\ Forget
    /\ UNCHANGED <<now, started, group, rc, workers, orphans>>

(* ...and is looked at once, after 0.1 seconds.  Reading the output of a     *)
(* process that is there and has written none raises a TypeError, at which   *)
(* spawn kills it; removing one that is not there from the dictionary that   *)
(* is being iterated over raises a RuntimeError, at which nothing is left to *)
(* kill.  Only a process that keeps writing is given more time.              *)
CheckDying ==
    /\ factory = "terminating"
    /\ factory' = "gone"
    /\ Forget
    /\ IF child # 0 /\ Running(child) THEN HardKill(child) ELSE UNCHANGED <<group, rc>>
    /\ UNCHANGED <<now, started, workers, orphans>>

(* The factory is killed: nobody terminates the group. *)
CrashFactory ==
    /\ factory \in {"running", "stopping", "terminating"}
    /\ factory' = "crashed"
    /\ Forget
    /\ orphans' = orphans \cup {g \in Groups : Running(g)}
    /\ UNCHANGED <<now, started, group, rc, workers>>

(* The clock; nobody looks at it but a factory that runs. *)
Tick ==
    /\ factory = "running"
    /\ now < MaxTime
    /\ now' = now + 1
    /\ UNCHANGED <<group, rc, workers, orphans, factoryVars>>

-----------------------------------------------------------------------------
GroupStep(g) ==
    Register(g) \/ ForkWorkers(g) \/ WorkersEnd(g) \/ Crash(g) \/ Quit(g)

FactoryStep ==
    StartFactory \/ RestartGroup \/ GiveUp \/ Signalled \/ Terminate \/ CheckDying
    \/ CrashFactory

Next == (\E g \in Groups : GroupStep(g)) \/ FactoryStep \/ Tick

Spec == Init /\ [][Next]_vars

(* spawn loops on, clean_exit goes on to its end, a group process looks for  *)
(* its parent in every iteration.  Nobody has to signal, start or crash      *)
(* anything, and workers may stay for ever.                                  *)
Fairness ==
    /\ WF_vars(RestartGroup) /\ WF_vars(GiveUp)
    /\ WF_vars(Terminate) /\ WF_vars(CheckDying)
    /\ \A g \in Groups : WF_vars(Register(g)) /\ WF_vars(QuitOrphaned(g))

FairSpec == Spec /\ Fairness

-----------------------------------------------------------------------------
(* Whatever factories and groups crash, are left behind and started again:   *)
(* one group process serves the entries at a time, and it never does while   *)
(* the workers of another one are still submitting glideins.                 *)
OneServes ==
    \A g, h \in Groups : group[g] = "serving" /\ (group[h] = "serving" \/ h \in workers)
                         => g = h

(* A factory that stops in an orderly way leaves no group process behind.    *)
NoGroupLeft ==
    factory = "gone" => \A g \in Groups \ orphans : ~Running(g)

(* In any restart_interval, a factory starts the group no more than          *)
(* restart_attempts times.                                                   *)
RestartsLimited ==
    [][factory = "running" /\ factory' = "running" /\ started' # started =>
          Cardinality({i \in DOMAIN starts' : now - starts'[i] < restart_interval})
             <= restart_attempts]_vars

(* A group that crashed is started again, or the factory stops (or the       *)
(* bound on starts is reached).                                              *)
CrashedGroupReturns ==
    \A g \in Groups :
       (factory = "running" /\ child = g /\ group[g] = "dead" /\ rc[g] # 0)
       ~> (child # g \/ factory # "running" \/ started = MaxGroups)

(* The group process of a factory that crashed stops, be it the one that     *)
(* was starting; and every stop comes to its end.                            *)
StopsEnd ==
    /\ \A g \in Groups : g \in orphans ~> ~Running(g)
    /\ (factory = "stopping") ~> (factory \in {"gone", "crashed"})
=============================================================================
