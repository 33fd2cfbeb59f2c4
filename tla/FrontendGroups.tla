--------------------------- MODULE FrontendGroups ---------------------------
(***************************************************************************)
(* A frontend daemon and its groups (frontend/glideinFrontend.py: spawn,     *)
(* spawn_iteration, spawn_cleanup, shouldHibernate, FailureCounter).  In     *)
(* every iteration the daemon runs one element process per group,            *)
(* max_active of them at a time; an element asks the factories for glideins  *)
(* by advertising the classads of its group.  A slave frontend does so only  *)
(* while the ads of its master are not seen.  When a frontend hibernates or  *)
(* stops it runs elements once more, to withdraw the ads of every group.     *)
(*                                                                         *)
(* An element registers under the PID file of its group (module PidLock),    *)
(* whose lock the children it forks share.  Children that are left behind    *)
(* keep the lock and do their work, whoever is running by then.              *)
(***************************************************************************)
EXTENDS Naturals, Sequences, FiniteSets, FiniteSetsExt

CONSTANTS
    Groups,
    mode,              \* "master" | "slave"
    max_active,        \* GroupParallelWorkers
    max_failures,      \* RestartAttempts
    max_lifetime,      \* RestartInterval, the FailureCounters' window
    withdrawal_fails   \* may collectors not answer, or elements die, when ads are withdrawn?

ASSUME FrontendAssumption ==
    /\ IsFiniteSet(Groups)
    /\ mode \in {"master", "slave"}
    /\ max_active \in Nat \ {0}
    /\ max_failures \in Nat /\ max_lifetime \in Nat
    /\ withdrawal_fails \in BOOLEAN

VARIABLES
    frontend,          \* what the daemon is doing
    goal,              \* what it does when it has withdrawn its ads
    todo,              \* the groups whose ads are still to be withdrawn
    master_seen,       \* does a query find the master's ads?
    state,             \* spawn_iteration's children[group]["state"]
    active_groups, groups_tofinish, max_num_failures,
    failure_times,     \* the age of every failure a FailureCounter retains
    element,           \* the process that was started last for every group
    forked,            \* the groups whose element has live children
    left,              \* processes nobody looks after any more
    ads,               \* the groups whose ads are in the collectors
    recent,            \* history: how many failures of each age there were
    orderly,           \* history: every group's turn to be withdrawn came
    excused            \* history: groups whose ads there is a reason to find

pool == <<state, active_groups, groups_tofinish, max_num_failures, failure_times, recent>>
processes == <<element, forked, left, ads, excused>>
vars == <<frontend, goal, todo, master_seen, orderly, pool, processes>>

Ages == 0 .. max_lifetime + 1

TypeOK ==
    /\ frontend \in {"off", "hibernating", "ready", "iterating", "cleaning"}
    /\ goal \in {"off", "hibernating"}
    /\ todo \in SUBSET Groups
    /\ master_seen \in BOOLEAN
    /\ state \in [Groups -> {"queued", "spawned", "finished", "failed"}]
    /\ active_groups \in 0 .. max_active
    /\ groups_tofinish \in 0 .. Cardinality(Groups)
    /\ element \in [Groups -> {"none", "starting", "working", "done", "failed"}]
    /\ forked \in SUBSET Groups
    /\ left \in [Groups -> SUBSET {"run", "deadvertise"}]
    /\ ads \in SUBSET Groups
    /\ recent \in [Groups -> [0 .. max_lifetime -> Nat]]
    /\ orderly \in BOOLEAN
    /\ excused \in SUBSET Groups

NoFailures == [a \in 0 .. max_lifetime |-> 0]

Init ==
    /\ frontend = "off" /\ goal = "off" /\ todo = {} /\ master_seen \in BOOLEAN
    /\ state = [g \in Groups |-> "finished"]
    /\ active_groups = 0 /\ groups_tofinish = 0 /\ max_num_failures = 0
    /\ failure_times = [g \in Groups |-> <<>>]
    /\ recent = [g \in Groups |-> NoFailures]
    /\ element = [g \in Groups |-> "none"] /\ forked = {}
    /\ left = [g \in Groups |-> {}]
    /\ ads = {}
    /\ orderly = TRUE /\ excused = {}

-----------------------------------------------------------------------------
(* The FailureCounter. *)

(* What is left of the failures when those in front are dropped for as long  *)
(* as they are older than limit ("assuming they are ordered").               *)
PopOld(times, limit) ==
    LET n == CHOOSE n \in 0 .. Len(times) : /\ \A i \in 1 .. n : times[i] > limit
                                            /\ n < Len(times) => times[n + 1] <= limit
    IN  SubSeq(times, n + 1, Len(times))

(* Mutant of clean_old: a failure as old as the window is forgotten too. *)
clean_oldEarly(times) == PopOld(times, max_lifetime - 1)

(* Mutant of clean_old: nothing is ever forgotten. *)
clean_oldNever(times) == times

clean_old(times) == PopOld(times, max_lifetime)

add_failure(times) == Append(clean_old(times), 0)

(* Time passes: everything recorded gets older, up to "too old". *)
Older(age) == IF age <= max_lifetime THEN age + 1 ELSE age

Tick ==
    /\ \E g \in Groups : failure_times[g] # <<>>
    /\ failure_times' =
         [g \in Groups |-> [i \in DOMAIN failure_times[g] |-> Older(failure_times[g][i])]]
    /\ recent' =
         [g \in Groups |-> [a \in 0 .. max_lifetime |-> IF a = 0 THEN 0 ELSE recent[g][a - 1]]]
    /\ UNCHANGED <<frontend, goal, todo, master_seen, orderly, state, active_groups,
                   groups_tofinish, max_num_failures, processes>>

-----------------------------------------------------------------------------
(* The element processes. *)

(* What the process of a group that was started last is for. *)
Task == IF frontend = "cleaning" THEN "deadvertise" ELSE "run"

LockFree(g) == left[g] = {}

(* Mutant of Register: it goes ahead without the lock. *)
RegisterAnyway(g) ==
    /\ element[g] = "starting"
    /\ element' = [element EXCEPT ![g] = "working"]
    /\ UNCHANGED <<frontend, goal, todo, master_seen, orderly, pool, forked, left, ads,
                   excused>>

(* pid_obj.register: an AlreadyRunning ends the element. *)
Register(g) ==
    /\ element[g] = "starting"
    /\ element' = [element EXCEPT ![g] = IF LockFree(g) THEN "working" ELSE "failed"]
    /\ UNCHANGED <<frontend, goal, todo, master_seen, orderly, pool, forked, left, ads,
                   excused>>

(* iterate_one forks children, the ones that query and the ones that         *)
(* advertise, and waits for them.                                            *)
Fork(g) ==
    /\ element[g] = "working" /\ Task = "run"
    /\ forked' = forked \cup {g}
    /\ UNCHANGED <<frontend, goal, todo, master_seen, orderly, pool, element, left, ads,
                   excused>>

ChildrenEnd(g) ==
    /\ g \in forked
    /\ forked' = forked \ {g}
    /\ ads' \in {ads, ads \cup {g}}
    /\ UNCHANGED <<frontend, goal, todo, master_seen, orderly, pool, element, left, excused>>

Finish(g) ==
    /\ element[g] = "working" /\ Task = "run" /\ g \notin forked
    /\ element' = [element EXCEPT ![g] = "done"]
    /\ UNCHANGED <<frontend, goal, todo, master_seen, orderly, pool, forked, left, ads,
                   excused>>

(* deadvertiseAllClassads; an error is logged, and the exit code is 0 too. *)
Deadvertise(g) ==
    /\ element[g] = "working" /\ Task = "deadvertise"
    /\ element' = [element EXCEPT ![g] = "done"]
    /\ \/ ads' = ads \ {g} /\ excused' = excused \ {g}
       \/ withdrawal_fails /\ ads' = ads /\ excused' = excused \cup {g}
    /\ UNCHANGED <<frontend, goal, todo, master_seen, orderly, pool, forked, left>>

(* An exception or a signal: the exit code is not 0, and the children that   *)
(* are there are not waited for.                                             *)
Fail(g) ==
    /\ element[g] \in {"starting", "working"}
    /\ Task = "run" \/ withdrawal_fails
    /\ element' = [element EXCEPT ![g] = "failed"]
    /\ left' = [left EXCEPT ![g] = IF g \in forked THEN @ \cup {"run"} ELSE @]
    /\ excused' = IF g \in forked \/ Task = "deadvertise" THEN excused \cup {g} ELSE excused
    /\ forked' = forked \ {g}
    /\ UNCHANGED <<frontend, goal, todo, master_seen, orderly, pool, ads>>

(* What is left behind does its work, and ends. *)
LeftRunActs(g) ==
    /\ "run" \in left[g]
    /\ ads' = ads \cup {g}
    /\ UNCHANGED <<frontend, goal, todo, master_seen, orderly, pool, element, forked, left,
                   excused>>

LeftRunEnds(g) ==
    /\ "run" \in left[g]
    /\ left' = [left EXCEPT ![g] = @ \ {"run"}]
    /\ UNCHANGED <<frontend, goal, todo, master_seen, orderly, pool, element, forked, ads,
                   excused>>

LeftDeadvertiseEnds(g) ==
    /\ "deadvertise" \in left[g]
    /\ left' = [left EXCEPT ![g] = @ \ {"deadvertise"}]
    /\ \/ ads' = ads \ {g} /\ UNCHANGED excused
       \/ withdrawal_fails /\ ads' = ads /\ excused' = excused \cup {g}
    /\ UNCHANGED <<frontend, goal, todo, master_seen, orderly, pool, element, forked>>

(* The collector drops ads that are not renewed. *)
AdsExpire(g) ==
    /\ g \in ads
    /\ ads' = ads \ {g}
    /\ UNCHANGED <<frontend, goal, todo, master_seen, orderly, pool, element, forked, left,
                   excused>>

-----------------------------------------------------------------------------
(* The daemon. *)

(* Mutant of shouldHibernate: an error counts as a master. *)
AlwaysHibernates == mode = "slave"

(* shouldHibernate; a collector that cannot be asked has seen no master. *)
shouldHibernate == mode = "slave" /\ master_seen

MasterComesOrGoes ==
    /\ mode = "slave"
    /\ master_seen' = ~master_seen
    /\ UNCHANGED <<frontend, goal, todo, orderly, pool, processes>>

NewCounters ==
    /\ failure_times' = [g \in Groups |-> <<>>]
    /\ recent' = [g \in Groups |-> NoFailures]

idle == <<state, active_groups, groups_tofinish, max_num_failures>>

Start ==
    /\ frontend = "off"
    /\ frontend' = IF shouldHibernate THEN "hibernating" ELSE "ready"
    /\ orderly' = FALSE
    /\ NewCounters
    /\ UNCHANGED <<goal, todo, master_seen, idle, processes>>

WakeUp ==
    /\ frontend = "hibernating" /\ ~shouldHibernate
    /\ frontend' = "ready"
    /\ orderly' = FALSE
    /\ NewCounters
    /\ UNCHANGED <<goal, todo, master_seen, idle, processes>>

BeginIteration ==
    /\ frontend = "ready"
    /\ frontend' = "iterating"
    /\ state' = [g \in Groups |-> "queued"]
    /\ active_groups' = 0 /\ groups_tofinish' = Cardinality(Groups)
    /\ max_num_failures' = 0
    /\ UNCHANGED <<goal, todo, master_seen, orderly, failure_times, recent, processes>>

Exited(g) == state[g] = "spawned" /\ element[g] \in {"done", "failed"}

(* The counters of the groups that were found to have failed. *)
Counted(F) ==
    [g \in Groups |-> IF g \in F THEN add_failure(failure_times[g]) ELSE failure_times[g]]

(* Mutant of Freed: only a group that went well gives its slot back. *)
FreedBySuccess(E, F) == Cardinality(E \ F)

(* Whether they finished or failed, the groups of E are not active any more. *)
Freed(E, F) == Cardinality(E)

(* "check if any group finished by now" *)
Poll ==
    LET E == {g \in Groups : Exited(g)}
        F == {g \in E : element[g] = "failed"}
    IN  /\ frontend = "iterating" /\ E # {}
        /\ state' = [g \in Groups |-> IF g \in F THEN "failed"
                                      ELSE IF g \in E THEN "finished" ELSE state[g]]
        /\ element' = [g \in Groups |-> IF g \in E THEN "none" ELSE element[g]]
        /\ failure_times' = Counted(F)
        /\ recent' = [g \in Groups |-> IF g \in F THEN [recent[g] EXCEPT ![0] = @ + 1]
                                       ELSE recent[g]]
        /\ max_num_failures' = Max({Len(failure_times'[g]) : g \in F} \cup {max_num_failures})
        /\ active_groups' = active_groups - Freed(E, F)
        /\ groups_tofinish' = groups_tofinish - Cardinality(E)
        /\ UNCHANGED <<frontend, goal, todo, master_seen, orderly, forked, left, ads, excused>>

(* Mutant of CanSpawn: one element too many. *)
CanSpawnOneMore == active_groups <= max_active

CanSpawn == active_groups < max_active

(* "see if I can spawn more": the order of the groups is that of their last  *)
(* wall times, and may be any.                                               *)
SpawnMore ==
    /\ frontend = "iterating" /\ CanSpawn
    /\ \E g \in Groups :
          /\ state[g] = "queued"
          /\ state' = [state EXCEPT ![g] = "spawned"]
          /\ element' = [element EXCEPT ![g] = "starting"]
    /\ active_groups' = active_groups + 1
    /\ UNCHANGED <<frontend, goal, todo, master_seen, orderly, groups_tofinish,
                   max_num_failures, failure_times, recent, forked, left, ads, excused>>

(* Everybody who is at work, or is about to be, goes on without the daemon. *)
Abandoned(task) ==
    [g \in Groups |->
       IF element[g] = "working" \/ (element[g] = "starting" /\ LockFree(g))
       THEN left[g] \cup {task} ELSE left[g]]

Orphaned == {g \in Groups : Abandoned("run")[g] # left[g] \/ g \in forked}

(* "if anything goes wrong, hardkill the rest": the elements, not what they  *)
(* have forked.                                                              *)
HardKill ==
    /\ element' = [g \in Groups |-> "none"]
    /\ left' = [g \in Groups |-> IF g \in forked THEN left[g] \cup {"run"} ELSE left[g]]
    /\ excused' = excused \cup forked
    /\ forked' = {}

(* spawn_iteration's variables are gone when it ends, and the counters are   *)
(* not looked at again before they are replaced by new ones.                 *)
NoPool ==
    /\ state' = [g \in Groups |-> "finished"]
    /\ active_groups' = 0 /\ groups_tofinish' = 0 /\ max_num_failures' = 0
    /\ NewCounters

(* Mutant of Advertised: only what went well has something to withdraw. *)
AdvertisedNow == {g \in Groups : state[g] = "finished"}

(* The groups whose ads are withdrawn. *)
Advertised == Groups

CleanUp(then) ==
    /\ frontend' = "cleaning" /\ goal' = then
    /\ todo' = Advertised
    /\ orderly' = FALSE
    /\ NoPool

TooManyFailures == max_num_failures > max_failures

NextIteration ==
    /\ frontend = "iterating" /\ groups_tofinish = 0
    /\ ~TooManyFailures /\ ~shouldHibernate
    /\ frontend' = "ready"
    /\ UNCHANGED <<goal, todo, master_seen, orderly, pool, processes>>

Hibernate ==
    /\ frontend = "iterating" /\ groups_tofinish = 0
    /\ ~TooManyFailures /\ shouldHibernate
    /\ CleanUp("hibernating")
    /\ UNCHANGED <<master_seen, processes>>

(* "Too many group failures, aborting" *)
Abort ==
    /\ frontend = "iterating" /\ groups_tofinish = 0 /\ TooManyFailures
    /\ CleanUp("off")
    /\ UNCHANGED <<master_seen, processes>>

EndIteration == NextIteration \/ Hibernate \/ Abort

(* A SIGTERM or another exception, in an iteration or between two. *)
Interrupt ==
    /\ frontend \in {"hibernating", "ready", "iterating"}
    /\ CleanUp("off")
    /\ HardKill
    /\ UNCHANGED <<master_seen, ads>>

(* spawn_cleanup: one group after the other; no other element is alive. *)
CleanGroup(g) ==
    /\ frontend = "cleaning" /\ g \in todo
    /\ \A h \in Groups : element[h] = "none"
    /\ todo' = todo \ {g}
    /\ element' = [element EXCEPT ![g] = "starting"]
    /\ UNCHANGED <<frontend, goal, master_seen, orderly, pool, forked, left, ads, excused>>

GroupCleaned(g) ==
    /\ frontend = "cleaning" /\ element[g] \in {"done", "failed"}
    /\ element' = [element EXCEPT ![g] = "none"]
    /\ UNCHANGED <<frontend, goal, todo, master_seen, orderly, pool, forked, left, ads, excused>>

(* What the daemon knew is gone with it. *)
Gone == frontend' = "off" /\ goal' = "off" /\ todo' = {} /\ NoPool

CleanedUp ==
    /\ frontend = "cleaning" /\ todo = {}
    /\ \A h \in Groups : element[h] = "none"
    /\ IF goal = "off" THEN Gone ELSE frontend' = goal /\ UNCHANGED <<goal, todo, pool>>
    /\ orderly' = TRUE
    /\ UNCHANGED <<master_seen, processes>>

(* A SIGTERM while the ads are withdrawn, at which nobody kills the element. *)
(* On the way to hibernation it is all done again; on the way out the daemon *)
(* ends at once.                                                             *)
InterruptCleanUp ==
    /\ frontend = "cleaning"
    /\ IF goal = "hibernating" THEN CleanUp("off")
       ELSE Gone /\ UNCHANGED orderly
    /\ left' = Abandoned("deadvertise")
    /\ element' = [g \in Groups |-> "none"]
    /\ UNCHANGED <<master_seen, forked, ads, excused>>

(* The daemon is killed: its elements go on. *)
Crash ==
    /\ frontend # "off"
    /\ Gone
    /\ orderly' = FALSE
    /\ left' = Abandoned(Task)
    /\ excused' = IF Task = "run" THEN excused \cup Orphaned ELSE excused
    /\ element' = [g \in Groups |-> "none"]
    /\ forked' = {}
    /\ UNCHANGED <<master_seen, ads>>

-----------------------------------------------------------------------------
ElementStep(g) ==
    \/ Register(g) \/ Fork(g) \/ ChildrenEnd(g) \/ Finish(g) \/ Deadvertise(g) \/ Fail(g)
    \/ LeftRunActs(g) \/ LeftRunEnds(g) \/ LeftDeadvertiseEnds(g)
    \/ AdsExpire(g)

DaemonStep ==
    \/ Start \/ WakeUp \/ BeginIteration \/ Poll \/ SpawnMore
    \/ EndIteration \/ Interrupt
    \/ (\E g \in Groups : CleanGroup(g) \/ GroupCleaned(g))
    \/ CleanedUp \/ InterruptCleanUp \/ Crash

Next == (\E g \in Groups : ElementStep(g)) \/ DaemonStep \/ MasterComesOrGoes \/ Tick

Spec == Init /\ [][Next]_vars

(* The daemon's loops go on; elements end, with their children.  Nothing     *)
(* makes processes that are left behind end, nor ads expire.                 *)
Fairness ==
    /\ WF_vars(WakeUp) /\ WF_vars(BeginIteration) /\ WF_vars(Poll) /\ WF_vars(SpawnMore)
    /\ WF_vars(EndIteration) /\ WF_vars(CleanedUp)
    /\ \A g \in Groups :
          /\ WF_vars(CleanGroup(g)) /\ WF_vars(GroupCleaned(g))
          /\ WF_vars(Register(g)) /\ WF_vars(ChildrenEnd(g)) /\ WF_vars(Deadvertise(g))
          /\ SF_vars(Finish(g))

FairSpec == Spec /\ Fairness

-----------------------------------------------------------------------------
(* Never more than max_active elements of an iteration are alive or not yet  *)
(* polled, and none is once the daemon is between two iterations, hibernates *)
(* or stopped: two generations of elements never ask for glideins together.  *)
OneGeneration ==
    /\ Cardinality({g \in Groups : element[g] # "none"}) <= max_active
    /\ frontend \notin {"iterating", "cleaning"} => \A g \in Groups : element[g] = "none"

(* The lock of the PID file does its part: an element never works while      *)
(* something of an earlier one of its group is still about.                  *)
WorksAlone == \A g \in Groups : element[g] = "working" => left[g] = {}

(* A FailureCounter, which drops what is too old only when something is      *)
(* added, retains every failure of the last max_lifetime seconds; the daemon  *)
(* gives up before there are more than one too many.                         *)
WindowCounted ==
    /\ failure_times \in [Groups -> Seq(Ages)]
    /\ max_num_failures \in 0 .. max_failures + 1
    /\ \A g \in Groups : Len(failure_times[g]) <= max_failures + 1
    /\ \A g \in Groups : \A a \in 0 .. max_lifetime :
          Cardinality({i \in DOMAIN failure_times[g] : failure_times[g][i] = a}) = recent[g][a]

(* When a frontend hibernates, or has stopped in an orderly way, and the ads *)
(* of a group are found, then there is a reason: run processes of the group  *)
(* were left behind, the collectors did not answer or the element that asked *)
(* them died, or a process that was left behind still withdraws them.        *)
AdsAccounted ==
    frontend \in {"off", "hibernating"} /\ orderly =>
       ads \subseteq excused \cup {g \in Groups : "deadvertise" \in left[g]}

(* How many failures a history tells of: one for every count of every age. *)
FailuresOf(history) == UNION {{a} \X (1 .. history[a]) : a \in 0 .. max_lifetime}

(* The daemon does not give up because of a single group that fails now and  *)
(* then: it takes more than max_failures failures of one group within        *)
(* max_lifetime at the time of the last one.                                 *)
AbortsOnlyAfterFailures ==
    [][max_num_failures' > max_failures =>
          \/ max_num_failures > max_failures
          \/ \E g \in Groups :
                Cardinality(FailuresOf(recent'[g])) > max_failures /\ recent'[g][0] > 0]_vars

(* A slave that keeps seeing its master is not active for ever, and one that *)
(* does not see it does not hibernate for ever.                              *)
SlaveFollowsMaster ==
    /\ mode = "slave" /\ <>[]master_seen => []<>(frontend \in {"hibernating", "off"})
    /\ <>[](~master_seen) => []<>(frontend # "hibernating")

(* Withdrawing the ads ends, and so does every iteration, unless an element  *)
(* of it keeps forking.                                                      *)
IterationsEnd ==
    /\ frontend = "cleaning" ~> frontend # "cleaning"
    /\ frontend = "iterating" ~> frontend # "iterating"
=============================================================================
