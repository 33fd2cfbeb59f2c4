------------------------ MODULE FrontendGroupsProofs ------------------------
(***************************************************************************)
(* Proofs about the frontend daemon and its groups, for any set of groups,   *)
(* any number of parallel elements and any window of failures.               *)
(***************************************************************************)
EXTENDS FrontendGroups, FiniteSetTheorems, WellFoundedInduction, TLAPS

Spawned    == {g \in Groups : state[g] = "spawned"}
Unfinished == {g \in Groups : state[g] \in {"queued", "spawned"}}
Alive      == {g \in Groups : element[g] # "none"}

(* TypeOK without the counters of the iteration.                             *)
Typed ==
    /\ frontend \in {"off", "hibernating", "ready", "iterating", "cleaning"}
    /\ goal \in {"off", "hibernating"}
    /\ todo \in SUBSET Groups
    /\ master_seen \in BOOLEAN
    /\ state \in [Groups -> {"queued", "spawned", "finished", "failed"}]
    /\ element \in [Groups -> {"none", "starting", "working", "done", "failed"}]
    /\ forked \in SUBSET Groups
    /\ left \in [Groups -> SUBSET {"run", "deadvertise"}]
    /\ ads \in SUBSET Groups
    /\ orderly \in BOOLEAN
    /\ excused \in SUBSET Groups

Recorded == recent \in [Groups -> [0 .. max_lifetime -> Nat]]

CountersTyped ==
    active_groups \in 0 .. max_active /\ groups_tofinish \in 0 .. Cardinality(Groups)

(* The counters of spawn_iteration count what they are meant to count.       *)
Counts ==
    frontend = "iterating" =>
        /\ active_groups = Cardinality(Spawned) /\ active_groups <= max_active
        /\ groups_tofinish = Cardinality(Unfinished)
        /\ Alive = Spawned

(* Outside of an iteration no element lives, but for one that withdraws ads. *)
Quiet ==
    /\ frontend \notin {"iterating", "cleaning"} => Alive = {}
    /\ frontend = "cleaning" => \A g, h \in Alive : g = h

(* Only elements that work in an iteration have children.                    *)
ForkedWork ==
    \A g \in forked : frontend = "iterating" /\ element[g] = "working"

(* What was left behind of a run is the reason for ads that are found.       *)
LeftExcused == \A g \in Groups : "run" \in left[g] => g \in excused

OrderlyStops == orderly => frontend \in {"off", "hibernating"}

(* While ads are withdrawn: a group whose ads are there is still to come, is *)
(* having its turn, or there is a reason.                                    *)
Withdrawn ==
    frontend = "cleaning" =>
        \A g \in ads : \/ g \in todo \/ g \in excused
                       \/ "deadvertise" \in left[g]
                       \/ element[g] \in {"starting", "working"}

(* The inductive invariant. *)
IInv ==
    /\ Typed /\ Recorded /\ CountersTyped /\ Counts /\ Quiet /\ ForkedWork /\ WorksAlone
    /\ LeftExcused /\ OrderlyStops /\ Withdrawn /\ AdsAccounted

-----------------------------------------------------------------------------
LEMMA GroupsFinite ==
    ASSUME NEW S, S \subseteq Groups
    PROVE  IsFiniteSet(S) /\ Cardinality(S) \in Nat
BY FrontendAssumption, FS_Subset, FS_CardinalityType

LEMMA InitIInv == Init => IInv
<1> SUFFICES ASSUME Init PROVE IInv
  OBVIOUS
<1>1. Recorded /\ CountersTyped
  BY FrontendAssumption, FS_CardinalityType
     DEF Init, Recorded, CountersTyped, NoFailures
<1> QED
  BY <1>1 DEF Init, IInv, Typed, Counts, Quiet, Alive, ForkedWork, WorksAlone, LeftExcused,
         OrderlyStops, Withdrawn, AdsAccounted

(* Every variable keeps its type. *)
LEMMA NextTyped == Typed /\ [Next]_vars => Typed'
<1> SUFFICES ASSUME Typed, [Next]_vars
             PROVE  Typed'
  OBVIOUS
<1> USE DEF Typed, pool, processes
<1>1. ASSUME NEW g \in Groups, ElementStep(g)
      PROVE  Typed'
  BY <1>1 DEF ElementStep, Register, Fork, ChildrenEnd, Finish, Deadvertise, Fail,
              LeftRunActs, LeftRunEnds, LeftDeadvertiseEnds, AdsExpire
<1>2. CASE Start \/ WakeUp \/ BeginIteration
  BY <1>2 DEF Start, WakeUp, BeginIteration, idle
<1>3. CASE Poll \/ SpawnMore
  BY <1>3 DEF Poll, SpawnMore
<1>4. CASE EndIteration
  BY <1>4 DEF EndIteration, NextIteration, Hibernate, Abort, CleanUp, NoPool, Advertised
<1>5. CASE Interrupt
  BY <1>5 DEF Interrupt, CleanUp, HardKill, NoPool, Advertised
<1>6. ASSUME NEW g \in Groups, CleanGroup(g) \/ GroupCleaned(g)
      PROVE  Typed'
  BY <1>6 DEF CleanGroup, GroupCleaned
<1>7. CASE CleanedUp
  BY <1>7 DEF CleanedUp, Gone, NoPool
<1>8. CASE InterruptCleanUp \/ Crash
  <2>1. \A task \in {"run", "deadvertise"} :
           Abandoned(task) \in [Groups -> SUBSET {"run", "deadvertise"}]
    BY DEF Abandoned
  <2>2. Task \in {"run", "deadvertise"} /\ Orphaned \subseteq Groups
    BY DEF Task, Orphaned
  <2> QED
    BY <1>8, <2>1, <2>2 DEF InterruptCleanUp, Crash, CleanUp, Gone, NoPool, Advertised
<1>9. CASE MasterComesOrGoes \/ Tick \/ UNCHANGED vars
  BY <1>9 DEF MasterComesOrGoes, Tick, vars
<1> QED
  BY <1>1, <1>2, <1>3, <1>4, <1>5, <1>6, <1>7, <1>8, <1>9 DEF Next, DaemonStep

(* An element that works has the lock of its group for itself. *)
LEMMA NextAlone == Typed /\ WorksAlone /\ [Next]_vars => WorksAlone'
<1> SUFFICES ASSUME Typed, WorksAlone, [Next]_vars
             PROVE  WorksAlone'
  OBVIOUS
<1> USE DEF Typed, WorksAlone, pool, processes
<1>1. ASSUME NEW g \in Groups, ElementStep(g)
      PROVE  WorksAlone'
  BY <1>1 DEF ElementStep, Register, Fork, ChildrenEnd, Finish, Deadvertise, Fail, LockFree,
              LeftRunActs, LeftRunEnds, LeftDeadvertiseEnds, AdsExpire
<1>2. CASE Start \/ WakeUp \/ BeginIteration \/ EndIteration \/ CleanedUp
  BY <1>2 DEF Start, WakeUp, BeginIteration, EndIteration, NextIteration, Hibernate, Abort,
              CleanedUp
<1>3. CASE Poll \/ SpawnMore
  BY <1>3 DEF Poll, SpawnMore
<1>4. CASE Interrupt \/ InterruptCleanUp \/ Crash
  BY <1>4 DEF Interrupt, HardKill, InterruptCleanUp, Crash
<1>5. ASSUME NEW g \in Groups, CleanGroup(g) \/ GroupCleaned(g)
      PROVE  WorksAlone'
  BY <1>5 DEF CleanGroup, GroupCleaned
<1>6. CASE MasterComesOrGoes \/ Tick \/ UNCHANGED vars
  BY <1>6 DEF MasterComesOrGoes, Tick, vars
<1> QED
  BY <1>1, <1>2, <1>3, <1>4, <1>5, <1>6 DEF Next, DaemonStep

LEMMA NextRecorded == Recorded /\ [Next]_vars => Recorded'
<1> SUFFICES ASSUME Recorded, [Next]_vars
             PROVE  Recorded'
  OBVIOUS
<1> USE FrontendAssumption DEF Recorded, pool, processes
<1>1. NewCounters => Recorded'
  BY DEF NewCounters, NoFailures
<1>2. ASSUME NEW g \in Groups, ElementStep(g) \/ CleanGroup(g) \/ GroupCleaned(g)
      PROVE  recent' = recent
  BY <1>2 DEF ElementStep, Register, Fork, ChildrenEnd, Finish, Deadvertise, Fail,
              LeftRunActs, LeftRunEnds, LeftDeadvertiseEnds, AdsExpire, CleanGroup, GroupCleaned
<1>3. CASE Start \/ WakeUp \/ CleanedUp \/ InterruptCleanUp \/ Crash \/ Interrupt
  BY <1>1, <1>3 DEF Start, WakeUp, CleanedUp, InterruptCleanUp, Crash, Interrupt, CleanUp,
                    Gone, NoPool
<1>4. CASE BeginIteration \/ SpawnMore \/ MasterComesOrGoes \/ UNCHANGED vars
  BY <1>4 DEF BeginIteration, SpawnMore, MasterComesOrGoes, vars
<1>5. CASE Poll
  <2>1. \A g \in Groups : recent'[g] = recent[g] \/ recent'[g] = [recent[g] EXCEPT ![0] = @ + 1]
    BY <1>5 DEF Poll
  <2>2. \A g \in Groups : [recent[g] EXCEPT ![0] = @ + 1] \in [0 .. max_lifetime -> Nat]
    OBVIOUS
  <2>3. recent' = [g \in Groups |-> recent'[g]]
    BY <1>5 DEF Poll
  <2> QED  BY <2>1, <2>2, <2>3
<1>6. CASE EndIteration
  BY <1>1, <1>6 DEF EndIteration, NextIteration, Hibernate, Abort, CleanUp, NoPool
<1>7. CASE Tick
  <2>1. \A g \in Groups : \A a \in 0 .. max_lifetime :
          (IF a = 0 THEN 0 ELSE recent[g][a - 1]) \in Nat
    <3> TAKE g \in Groups
    <3> TAKE a \in 0 .. max_lifetime
    <3>1. CASE a = 0
      BY <3>1
    <3>2. CASE a # 0
      <4>1. a - 1 \in 0 .. max_lifetime
        BY <3>2
      <4>2. recent[g] \in [0 .. max_lifetime -> Nat]
        OBVIOUS
      <4> QED  BY <3>2, <4>1, <4>2
    <3> QED  BY <3>1, <3>2
  <2> QED  BY <1>7, <2>1 DEF Tick
<1> QED
  BY <1>2, <1>3, <1>4, <1>5, <1>6, <1>7 DEF Next, DaemonStep

(* What element steps leave alone. *)
LEMMA ElementFrame ==
    ASSUME Typed, NEW g \in Groups, ElementStep(g)
    PROVE  /\ UNCHANGED <<frontend, goal, todo, orderly, pool>>
           /\ Alive' = Alive
           /\ \A h \in Groups \ {g} : element'[h] = element[h] /\ left'[h] = left[h]
BY DEF Typed, Alive, ElementStep, Register, Fork, ChildrenEnd, Finish, Deadvertise, Fail,
       LeftRunActs, LeftRunEnds, LeftDeadvertiseEnds, AdsExpire

(* The counters stay right. *)
LEMMA NextCounts ==
    Typed /\ Counts /\ Quiet /\ [Next]_vars => Counts'
<1> SUFFICES ASSUME Typed, Counts, Quiet, [Next]_vars, frontend' = "iterating"
             PROVE  /\ active_groups' = Cardinality(Spawned') /\ active_groups' <= max_active
                    /\ groups_tofinish' = Cardinality(Unfinished')
                    /\ Alive' = Spawned'
  BY DEF Counts
<1> USE FrontendAssumption
<1>1. ASSUME NEW g \in Groups, ElementStep(g)
      PROVE  /\ active_groups' = Cardinality(Spawned') /\ active_groups' <= max_active
             /\ groups_tofinish' = Cardinality(Unfinished')
             /\ Alive' = Spawned'
  BY <1>1, ElementFrame DEF Counts, Spawned, Unfinished, pool
<1>2. CASE BeginIteration
  <2>1. Spawned' = {} /\ Unfinished' = Groups /\ Alive' = {}
    BY <1>2 DEF BeginIteration, Spawned, Unfinished, Quiet, Alive, processes
  <2> QED
    BY <1>2, <2>1, FS_EmptySet DEF BeginIteration
<1>3. CASE Poll
  <2> DEFINE E == {g \in Groups : Exited(g)}
  <2>1. /\ frontend = "iterating"
        /\ active_groups' = active_groups - Cardinality(E)
        /\ groups_tofinish' = groups_tofinish - Cardinality(E)
    BY <1>3 DEF Poll, Freed
  <2>2. E \subseteq Spawned /\ E \subseteq Unfinished
    BY DEF Exited, Spawned, Unfinished
  <2>3. Spawned' = Spawned \ E /\ Unfinished' = Unfinished \ E /\ Alive' = Alive \ E
    BY <1>3 DEF Poll, Typed, Spawned, Unfinished, Alive, Exited
  <2>4. /\ Cardinality(Spawned \ E) = Cardinality(Spawned) - Cardinality(E)
        /\ Cardinality(Unfinished \ E) = Cardinality(Unfinished) - Cardinality(E)
    <3>1. Spawned \cap E = E /\ Unfinished \cap E = E
      BY <2>2
    <3>2. IsFiniteSet(Spawned) /\ IsFiniteSet(Unfinished)
      BY GroupsFinite DEF Spawned, Unfinished
    <3> QED  BY <3>1, <3>2, FS_Difference
  <2>5. Cardinality(E) \in Nat
    BY GroupsFinite
  <2> QED
    <3> HIDE DEF E
    <3>1. active_groups \in Nat
      BY <2>1, GroupsFinite DEF Counts, Spawned
    <3> QED  BY <2>1, <2>3, <2>4, <2>5, <3>1 DEF Counts
<1>4. CASE SpawnMore
  <2>1. PICK g \in Groups : /\ state[g] = "queued"
                             /\ state' = [state EXCEPT ![g] = "spawned"]
                             /\ element' = [element EXCEPT ![g] = "starting"]
    BY <1>4 DEF SpawnMore
  <2>2. /\ frontend = "iterating" /\ active_groups < max_active
        /\ active_groups' = active_groups + 1 /\ groups_tofinish' = groups_tofinish
    BY <1>4 DEF SpawnMore, CanSpawn
  <2>3. /\ Spawned' = Spawned \cup {g} /\ g \notin Spawned
        /\ Unfinished' = Unfinished /\ Alive' = Alive \cup {g}
    BY <2>1 DEF Typed, Spawned, Unfinished, Alive
  <2>4. Cardinality(Spawned \cup {g}) = Cardinality(Spawned) + 1
    BY <2>3, GroupsFinite, FS_AddElement DEF Spawned
  <2>5. Cardinality(Spawned) \in Nat
    BY GroupsFinite DEF Spawned
  <2> QED  BY <2>2, <2>3, <2>4, <2>5 DEF Counts
<1>5. CASE MasterComesOrGoes \/ Tick \/ UNCHANGED vars
  BY <1>5 DEF MasterComesOrGoes, Tick, vars, pool, processes, Counts, Spawned, Unfinished, Alive
<1>6. ~(Start \/ WakeUp \/ EndIteration \/ Interrupt \/ CleanedUp \/ InterruptCleanUp \/ Crash)
  BY DEF Start, WakeUp, EndIteration, NextIteration, Hibernate, Abort, Interrupt, CleanedUp,
         InterruptCleanUp, Crash, CleanUp, Gone, Typed
<1>7. ~\E g \in Groups : CleanGroup(g) \/ GroupCleaned(g)
  BY DEF CleanGroup, GroupCleaned
<1> QED
  BY <1>1, <1>2, <1>3, <1>4, <1>5, <1>6, <1>7 DEF Next, DaemonStep

(* The elements of an iteration are gone when it is over, and those that     *)
(* withdraw ads come one after the other.                                    *)
LEMMA NextQuiet ==
    Typed /\ Counts /\ Quiet /\ [Next]_vars => Quiet'
<1> SUFFICES ASSUME Typed, Counts, Quiet, [Next]_vars
             PROVE  Quiet'
  OBVIOUS
<1> USE DEF processes
<1>1. ASSUME NEW g \in Groups, ElementStep(g)
      PROVE  Quiet'
  BY <1>1, ElementFrame DEF Quiet
<1>2. CASE Start \/ WakeUp \/ BeginIteration
  BY <1>2 DEF Start, WakeUp, BeginIteration, Quiet, Alive
<1>3. CASE Poll \/ SpawnMore
  BY <1>3 DEF Poll, SpawnMore, Quiet
<1>4. CASE EndIteration
  <2>1. /\ frontend = "iterating" /\ groups_tofinish = 0
        /\ frontend' \in {"ready", "cleaning"} /\ Alive' = Alive
    BY <1>4 DEF EndIteration, NextIteration, Hibernate, Abort, CleanUp, Alive
  <2>2. Unfinished = {}
    BY <2>1, GroupsFinite, FS_EmptySet DEF Counts, Unfinished
  <2>3. Alive = {}
    BY <2>1, <2>2 DEF Counts, Spawned, Unfinished
  <2> QED  BY <2>1, <2>3 DEF Quiet
<1>5. CASE Interrupt \/ InterruptCleanUp \/ Crash
  <2>1. Alive' = {}
    BY <1>5 DEF Interrupt, HardKill, InterruptCleanUp, Crash, Alive
  <2> QED  BY <2>1 DEF Quiet
<1>6. ASSUME NEW g \in Groups, CleanGroup(g) \/ GroupCleaned(g)
      PROVE  Quiet'
  <2>1. frontend = "cleaning" /\ frontend' = "cleaning"
    BY <1>6 DEF CleanGroup, GroupCleaned
  <2>2. CASE CleanGroup(g)
    <3>1. Alive' \subseteq {g}
      BY <2>2 DEF CleanGroup, Typed, Alive
    <3> QED  BY <2>1, <3>1 DEF Quiet
  <2>3. CASE GroupCleaned(g)
    <3>1. Alive' \subseteq Alive
      BY <2>3 DEF GroupCleaned, Typed, Alive
    <3> QED  BY <2>1, <3>1 DEF Quiet
  <2> QED  BY <1>6, <2>2, <2>3
<1>7. CASE CleanedUp
  BY <1>7 DEF CleanedUp, Quiet, Alive
<1>8. CASE MasterComesOrGoes \/ Tick \/ UNCHANGED vars
  BY <1>8 DEF MasterComesOrGoes, Tick, vars, pool, Quiet, Alive
<1> QED
  BY <1>1, <1>2, <1>3, <1>4, <1>5, <1>6, <1>7, <1>8 DEF Next, DaemonStep

(* Only elements that work in an iteration have children. *)
LEMMA NextForked ==
    Typed /\ Counts /\ Quiet /\ ForkedWork /\ [Next]_vars => ForkedWork'
<1> SUFFICES ASSUME Typed, Counts, Quiet, ForkedWork, [Next]_vars
             PROVE  ForkedWork'
  OBVIOUS
<1> USE DEF processes, pool, Typed
<1>1. ASSUME NEW g \in Groups, ElementStep(g)
      PROVE  ForkedWork'
  <2>1. CASE Fork(g)
    <3>1. frontend = "iterating"
      <4>1. g \in Alive /\ frontend # "cleaning"
        BY <2>1 DEF Fork, Task, Alive
      <4> QED  BY <4>1 DEF Quiet
    <3> QED  BY <2>1, <3>1 DEF Fork, ForkedWork
  <2> QED
    BY <1>1, <2>1 DEF ElementStep, Register, ChildrenEnd, Finish, Deadvertise, Fail,
         LeftRunActs, LeftRunEnds, LeftDeadvertiseEnds, AdsExpire, ForkedWork, Task
<1>2. CASE Start \/ WakeUp \/ BeginIteration \/ CleanedUp
  BY <1>2 DEF Start, WakeUp, BeginIteration, CleanedUp, ForkedWork
<1>3. CASE Poll \/ SpawnMore
  <2>1. CASE Poll
    BY <2>1 DEF Poll, ForkedWork, Exited
  <2>2. CASE SpawnMore
    <3>1. \A g \in Groups : state[g] = "queued" => element[g] = "none"
      BY <2>2 DEF SpawnMore, Counts, Alive, Spawned
    <3> QED  BY <2>2, <3>1 DEF SpawnMore, ForkedWork
  <2> QED  BY <1>3, <2>1, <2>2
<1>4. CASE EndIteration
  <2>1. Unfinished = {} /\ frontend = "iterating"
    BY <1>4, GroupsFinite, FS_EmptySet
       DEF EndIteration, NextIteration, Hibernate, Abort, Counts, Unfinished
  <2>2. Alive = {}
    BY <2>1 DEF Counts, Spawned, Unfinished
  <2>3. forked = {}
    BY <2>2 DEF ForkedWork, Alive
  <2> QED
    BY <1>4, <2>3 DEF EndIteration, NextIteration, Hibernate, Abort, ForkedWork
<1>5. CASE Interrupt \/ InterruptCleanUp \/ Crash
  BY <1>5 DEF Interrupt, HardKill, InterruptCleanUp, Crash, ForkedWork
<1>6. ASSUME NEW g \in Groups, CleanGroup(g) \/ GroupCleaned(g)
      PROVE  ForkedWork'
  BY <1>6 DEF CleanGroup, GroupCleaned, ForkedWork
<1>7. CASE MasterComesOrGoes \/ Tick \/ UNCHANGED vars
  BY <1>7 DEF MasterComesOrGoes, Tick, vars, ForkedWork
<1> QED
  BY <1>1, <1>2, <1>3, <1>4, <1>5, <1>6, <1>7 DEF Next, DaemonStep

(* A process of a run that is left behind is accounted for, and an orderly   *)
(* stop is forgotten as soon as the frontend is at work again.               *)
LEMMA NextLeft ==
    Typed /\ Quiet /\ ForkedWork /\ WorksAlone /\ LeftExcused /\ OrderlyStops /\ [Next]_vars
      => LeftExcused' /\ OrderlyStops'
<1> SUFFICES ASSUME Typed, Quiet, ForkedWork, WorksAlone, LeftExcused, OrderlyStops, [Next]_vars
             PROVE  LeftExcused' /\ OrderlyStops'
  OBVIOUS
<1> USE DEF processes, pool, Typed, LeftExcused, OrderlyStops
<1>1. ASSUME NEW g \in Groups, ElementStep(g)
      PROVE  LeftExcused' /\ OrderlyStops'
  BY <1>1 DEF ElementStep, Register, Fork, ChildrenEnd, Finish, Deadvertise, Fail, WorksAlone,
       LeftRunActs, LeftRunEnds, LeftDeadvertiseEnds, AdsExpire
<1>2. CASE Start \/ WakeUp \/ BeginIteration \/ CleanedUp
  BY <1>2 DEF Start, WakeUp, BeginIteration, CleanedUp, Gone
<1>3. CASE Poll \/ SpawnMore \/ EndIteration
  BY <1>3 DEF Poll, SpawnMore, EndIteration, NextIteration, Hibernate, Abort, CleanUp
<1>4. CASE Interrupt
  BY <1>4 DEF Interrupt, HardKill, CleanUp
<1>5. CASE InterruptCleanUp
  BY <1>5 DEF InterruptCleanUp, Abandoned, CleanUp, Gone
<1>6. CASE Crash
  BY <1>6 DEF Crash, Abandoned, Orphaned, Task, Gone, ForkedWork
<1>7. ASSUME NEW g \in Groups, CleanGroup(g) \/ GroupCleaned(g)
      PROVE  LeftExcused' /\ OrderlyStops'
  BY <1>7 DEF CleanGroup, GroupCleaned
<1>8. CASE MasterComesOrGoes \/ Tick \/ UNCHANGED vars
  BY <1>8 DEF MasterComesOrGoes, Tick, vars
<1> QED
  BY <1>1, <1>2, <1>3, <1>4, <1>5, <1>6, <1>7, <1>8 DEF Next, DaemonStep

(* While ads are withdrawn no group is forgotten. *)
LEMMA NextWithdrawn ==
    IInv /\ [Next]_vars => Withdrawn'
<1> SUFFICES ASSUME Typed, Quiet, ForkedWork, WorksAlone, LeftExcused, Withdrawn,
                    [Next]_vars, frontend' = "cleaning"
             PROVE  Withdrawn'
  BY DEF IInv, Withdrawn
<1> USE DEF processes, pool, Typed, Withdrawn
<1>1. ASSUME NEW g \in Groups, ElementStep(g)
      PROVE  Withdrawn'
  <2>1. frontend = "cleaning" /\ forked = {}
    BY <1>1, ElementFrame DEF ForkedWork
  <2>2. CASE Register(g) \/ Fork(g) \/ ChildrenEnd(g) \/ Finish(g)
    BY <2>1, <2>2 DEF Register, LockFree, LeftExcused, Fork, ChildrenEnd, Finish, Task
  <2>3. CASE Deadvertise(g) \/ Fail(g)
    BY <2>1, <2>3 DEF Deadvertise, Fail, Task
  <2>4. CASE LeftRunActs(g) \/ LeftRunEnds(g) \/ LeftDeadvertiseEnds(g) \/ AdsExpire(g)
    BY <2>1, <2>4 DEF LeftRunActs, LeftRunEnds, LeftDeadvertiseEnds, AdsExpire, LeftExcused
  <2> QED  BY <1>1, <2>2, <2>3, <2>4 DEF ElementStep
<1>2. CASE EndIteration \/ Interrupt
  BY <1>2 DEF EndIteration, NextIteration, Hibernate, Abort, Interrupt, CleanUp, Advertised
<1>3. CASE InterruptCleanUp
  BY <1>3 DEF InterruptCleanUp, CleanUp, Gone, Advertised
<1>4. ASSUME NEW g \in Groups, CleanGroup(g) \/ GroupCleaned(g)
      PROVE  Withdrawn'
  BY <1>4 DEF CleanGroup, GroupCleaned
<1>5. CASE MasterComesOrGoes \/ Tick \/ UNCHANGED vars
  BY <1>5 DEF MasterComesOrGoes, Tick, vars
<1>6. ~(Start \/ WakeUp \/ BeginIteration \/ Poll \/ SpawnMore \/ CleanedUp \/ Crash)
  BY DEF Start, WakeUp, BeginIteration, Poll, SpawnMore, CleanedUp, Crash, Gone
<1> QED
  BY <1>1, <1>2, <1>3, <1>4, <1>5, <1>6 DEF Next, DaemonStep

(* When the frontend has stopped, only what is accounted for is left. *)
LEMMA NextAccounted ==
    IInv /\ [Next]_vars => AdsAccounted'
<1> SUFFICES ASSUME Typed, Quiet, ForkedWork, LeftExcused, OrderlyStops, Withdrawn,
                    AdsAccounted, [Next]_vars, frontend' \in {"off", "hibernating"}, orderly'
             PROVE  ads' \subseteq excused' \cup {g \in Groups : "deadvertise" \in left[g]}'
  BY DEF IInv, AdsAccounted
<1> USE DEF processes, pool, Typed, AdsAccounted
<1>1. ASSUME NEW g \in Groups, ElementStep(g)
      PROVE  ads' \subseteq excused' \cup {h \in Groups : "deadvertise" \in left[h]}'
  <2>1. frontend \in {"off", "hibernating"} /\ orderly
    BY <1>1, ElementFrame
  <2>2. forked = {} /\ element[g] = "none"
    BY <2>1 DEF ForkedWork, Quiet, Alive
  <2>3. LeftRunActs(g) \/ LeftRunEnds(g) \/ LeftDeadvertiseEnds(g) \/ AdsExpire(g)
    BY <1>1, <2>2 DEF ElementStep, Register, Fork, ChildrenEnd, Finish, Deadvertise, Fail
  <2> QED
    BY <2>1, <2>3 DEF LeftRunActs, LeftRunEnds, LeftDeadvertiseEnds, AdsExpire, LeftExcused
<1>2. CASE CleanedUp
  BY <1>2 DEF CleanedUp, Withdrawn
<1>3. CASE InterruptCleanUp
  BY <1>3 DEF InterruptCleanUp, CleanUp, OrderlyStops
<1>4. CASE MasterComesOrGoes \/ Tick \/ UNCHANGED vars
  BY <1>4 DEF MasterComesOrGoes, Tick, vars
<1>5. ~(\/ Start \/ WakeUp \/ BeginIteration \/ Poll \/ SpawnMore
        \/ EndIteration \/ Interrupt \/ Crash)
  <2>1. ~(Start \/ WakeUp \/ BeginIteration \/ Crash)
    BY DEF Start, WakeUp, BeginIteration, Crash
  <2>2. ~(Poll \/ SpawnMore)
    BY DEF Poll, SpawnMore
  <2>3. ~(EndIteration \/ Interrupt)
    BY DEF EndIteration, NextIteration, Hibernate, Abort, Interrupt, CleanUp
  <2> QED  BY <2>1, <2>2, <2>3
<1>6. ~\E g \in Groups : CleanGroup(g) \/ GroupCleaned(g)
  BY DEF CleanGroup, GroupCleaned
<1> QED
  BY <1>1, <1>2, <1>3, <1>4, <1>5, <1>6 DEF Next, DaemonStep

(* Within an iteration the counters are those of groups, otherwise at rest.   *)
LEMMA NextCountersTyped ==
    Typed /\ Counts /\ Quiet /\ CountersTyped /\ [Next]_vars => CountersTyped'
<1> SUFFICES ASSUME Typed, Counts, Quiet, CountersTyped, [Next]_vars
             PROVE  CountersTyped'
  OBVIOUS
<1> USE FrontendAssumption, FS_CardinalityType DEF CountersTyped, pool, processes
<1>1. CASE frontend' = "iterating"
  <2>1. /\ active_groups' = Cardinality(Spawned') /\ active_groups' <= max_active
        /\ groups_tofinish' = Cardinality(Unfinished')
    BY <1>1, NextCounts DEF Counts
  <2>2. Spawned' \subseteq Groups /\ Unfinished' \subseteq Groups
    BY DEF Spawned, Unfinished
  <2>3. /\ Cardinality(Spawned') \in Nat
        /\ Cardinality(Unfinished') \in 0 .. Cardinality(Groups)
    BY <2>2, FS_Subset
  <2> QED  BY <2>1, <2>3
<1>2. CASE frontend' # "iterating"
  <2>1. \/ UNCHANGED <<active_groups, groups_tofinish>>
        \/ active_groups' = 0 /\ groups_tofinish' = 0
    <3>1. ASSUME NEW g \in Groups, ElementStep(g) \/ CleanGroup(g) \/ GroupCleaned(g)
          PROVE  UNCHANGED <<active_groups, groups_tofinish>>
      BY <3>1 DEF ElementStep, Register, Fork, ChildrenEnd, Finish, Deadvertise, Fail,
                  LeftRunActs, LeftRunEnds, LeftDeadvertiseEnds, AdsExpire, CleanGroup,
                  GroupCleaned
    <3>2. CASE BeginIteration \/ Poll \/ SpawnMore
      BY <1>2, <3>2 DEF BeginIteration, Poll, SpawnMore
    <3>3. CASE Start \/ WakeUp \/ MasterComesOrGoes \/ Tick \/ UNCHANGED vars
      BY <3>3 DEF Start, WakeUp, MasterComesOrGoes, Tick, vars, idle
    <3>4. CASE EndIteration \/ Interrupt \/ CleanedUp \/ InterruptCleanUp \/ Crash
      BY <3>4 DEF EndIteration, NextIteration, Hibernate, Abort, Interrupt, CleanedUp,
                  InterruptCleanUp, Crash, CleanUp, Gone, NoPool
    <3> QED  BY <3>1, <3>2, <3>3, <3>4 DEF Next, DaemonStep
  <2> QED  BY <2>1
<1> QED  BY <1>1, <1>2
-----------------------------------------------------------------------------
(* Induction on the natural numbers, for sets of them. *)

LEMMA Smallest ==
    ASSUME NEW T \in SUBSET Nat, T # {}
    PROVE  \E n \in T : \A m \in T : n <= m
<1> DEFINE R == {ss \in Nat \X Nat : ss[1] < ss[2]}
<1>1. IsWellFoundedOn(R, Nat)
  BY NatLessThanWellFounded DEF OpToRel
<1>2. PICK n \in T : \A m \in T : <<m, n>> \notin R
  BY <1>1, WFMin
<1>3. \A m \in T : m \in Nat /\ n \in Nat /\ ~ (m < n)
  BY <1>2
<1> QED  BY <1>3

LEMMA SetInduction ==
    ASSUME NEW S \in SUBSET Nat, 0 \in S, \A n \in S : n + 1 \in S
    PROVE  S = Nat
<1> SUFFICES ASSUME Nat \ S # {} PROVE FALSE
  OBVIOUS
<1>1. PICK n \in Nat \ S : \A m \in Nat \ S : n <= m
  BY Smallest
<1>2. n # 0 /\ n - 1 \in Nat /\ n - 1 \in S
  BY <1>1
<1> QED  BY <1>1, <1>2

LEMMA MaxOf ==
    ASSUME NEW S \in SUBSET Nat, IsFiniteSet(S), S # {}
    PROVE  Max(S) \in S /\ \A x \in S : x <= Max(S)
<1>1. \E b \in S : \A x \in S : x <= b
  <2> DEFINE B == {n \in Nat : \A x \in S : x <= n}
  <2>1. B # {}
    <3> DEFINE P == {n \in Nat : \A T \in SUBSET S : Cardinality(T) = n => \E m \in Nat : \A x \in T : x <= m}
    <3>1. 0 \in P
      BY FS_Subset, FS_EmptySet
    <3>2. ASSUME NEW n \in P PROVE n + 1 \in P
      <4> n + 1 \in Nat
        OBVIOUS
      <4> SUFFICES ASSUME NEW T \in SUBSET S, Cardinality(T) = n + 1
                   PROVE  \E m \in Nat : \A x \in T : x <= m
        OBVIOUS
      <4> HIDE DEF B
      <4>0. IsFiniteSet(T) /\ T \subseteq Nat /\ n \in Nat
        BY FS_Subset
      <4>1. PICK y \in T : TRUE
        <5>1. n + 1 # 0
          BY <4>0
        <5> QED  BY <4>0, <5>1, FS_EmptySet
      <4>2. Cardinality(T \ {y}) = n /\ T \ {y} \in SUBSET S
        <5>1. Cardinality(T \ {y}) = Cardinality(T) - 1
          BY <4>0, <4>1, FS_RemoveElement
        <5> QED  BY <4>0, <5>1
      <4>3. PICK m \in Nat : \A x \in T \ {y} : x <= m
        BY <4>2
      <4>4. y \in Nat
        BY <4>0, <4>1
      <4>5. CASE y <= m
        BY <4>3, <4>5
      <4>6. CASE ~ (y <= m)
        BY <4>3, <4>4, <4>6
      <4> QED  BY <4>5, <4>6
    <3>3. P = Nat
      <4> HIDE DEF P
      <4>1. P \in SUBSET Nat
        BY DEF P
      <4> QED  BY <3>1, <3>2, <4>1, SetInduction
    <3>4. Cardinality(S) \in Nat
      BY FS_CardinalityType
    <3>5. \E m \in Nat : \A x \in S : x <= m
      BY <3>3, <3>4
    <3> QED  BY <3>5
  <2>2. PICK b \in B : \A m \in B : b <= m
    BY <2>1, Smallest
  <2>3. b \in S
    <3> SUFFICES ASSUME b \notin S PROVE FALSE
      OBVIOUS
    <3>1. PICK y \in S : TRUE
      OBVIOUS
    <3>2. b - 1 \in Nat /\ \A x \in S : x <= b - 1
      BY <2>2, <3>1
    <3> QED  BY <2>2, <3>2
  <2> QED  BY <2>2, <2>3
<1>2. \A x \in S : \A y \in S : y >= x <=> x <= y
  OBVIOUS
<1> QED  BY <1>1, <1>2 DEF Max

-----------------------------------------------------------------------------
(* The FailureCounter. *)

AgedAt(times, a) == {i \in DOMAIN times : times[i] = a}

Ordered(times) == \A i, j \in DOMAIN times : i <= j => times[j] <= times[i]

(* A counter and what there is to count. *)
Tallied(times, history) ==
    /\ times \in Seq(Ages) /\ Ordered(times)
    /\ \A a \in 0 .. max_lifetime : Cardinality(AgedAt(times, a)) = history[a]

LEMMA PopOldIs ==
    ASSUME NEW times \in Seq(Ages), NEW limit \in Nat
    PROVE  \E n \in 0 .. Len(times) :
              /\ PopOld(times, limit) = SubSeq(times, n + 1, Len(times))
              /\ \A i \in 1 .. n : times[i] > limit
              /\ n < Len(times) => times[n + 1] <= limit
<1> DEFINE P(n) == /\ \A i \in 1 .. n : times[i] > limit
                   /\ n < Len(times) => times[n + 1] <= limit
           T == {n \in 0 .. Len(times) : n < Len(times) => times[n + 1] <= limit}
<1>1. Len(times) \in Nat /\ \A i \in 1 .. Len(times) : times[i] \in Nat
  BY FrontendAssumption DEF Ages
<1>2. PICK n \in T : \A m \in T : n <= m
  <2>1. T \in SUBSET Nat /\ Len(times) \in T
    BY <1>1
  <2> QED  BY <2>1, Smallest
<1>3. ASSUME NEW i \in 1 .. n PROVE times[i] > limit
  <2>1. i - 1 \in 0 .. Len(times) /\ i - 1 < n /\ i - 1 < Len(times) /\ times[i] \in Nat
    BY <1>1, <1>2
  <2>2. i - 1 \notin T
    BY <2>1, <1>2
  <2> QED  BY <2>1, <2>2
<1>4. \E m \in 0 .. Len(times) : P(m)
  BY <1>2, <1>3
<1> HIDE DEF P
<1>5. P(CHOOSE m \in 0 .. Len(times) : P(m)) /\ (CHOOSE m \in 0 .. Len(times) : P(m)) \in 0 .. Len(times)
  BY <1>4
<1>6. PopOld(times, limit) = SubSeq(times, (CHOOSE m \in 0 .. Len(times) : P(m)) + 1, Len(times))
  BY DEF PopOld, P
<1> QED  BY <1>5, <1>6 DEF P

LEMMA Bounded ==
    ASSUME NEW times \in Seq(Ages), NEW S, S \subseteq DOMAIN times
    PROVE  IsFiniteSet(S) /\ Cardinality(S) \in Nat
<1>1. IsFiniteSet(1 .. Len(times))
  BY FS_Interval
<1> QED  BY <1>1, FS_Subset, FS_CardinalityType

(* What a failure does to a counter. *)
LEMMA FailureTallied ==
    ASSUME NEW times, NEW history \in [0 .. max_lifetime -> Nat], Tallied(times, history)
    PROVE  /\ Tallied(add_failure(times), [history EXCEPT ![0] = @ + 1])
           /\ \A i \in DOMAIN add_failure(times) : add_failure(times)[i] <= max_lifetime
           /\ Len(add_failure(times)) <= Len(times) + 1
<1> DEFINE t == add_failure(times)
           L == Len(times)
<1>1. times \in Seq(Ages) /\ Ordered(times) /\ L \in Nat /\ max_lifetime \in Nat
  BY FrontendAssumption DEF Tallied
<1>2. PICK n \in 0 .. L :
        /\ clean_old(times) = SubSeq(times, n + 1, L)
        /\ \A i \in 1 .. n : times[i] > max_lifetime
        /\ n < L => times[n + 1] <= max_lifetime
  BY <1>1, PopOldIs DEF clean_old
<1> DEFINE kept == SubSeq(times, n + 1, L)
<1>3. /\ kept \in Seq(Ages) /\ Len(kept) = L - n
      /\ \A i \in 1 .. L - n : kept[i] = times[n + i]
  BY <1>1
<1> HIDE DEF kept
<1>4. t = Append(kept, 0)
  BY <1>2 DEF add_failure, kept
<1>5. /\ t \in Seq(Ages) /\ Len(t) = L - n + 1 /\ DOMAIN t = 1 .. L - n + 1
      /\ \A i \in 1 .. L - n : t[i] = times[n + i]
      /\ t[L - n + 1] = 0
  BY <1>1, <1>3, <1>4 DEF Ages
<1> HIDE DEF t, L
<1>6. \A i \in 1 .. L : times[i] \in Ages
  BY <1>1 DEF L
<1>7. \A i \in 1 .. L - n : n + i \in 1 .. L /\ t[i] \in 0 .. max_lifetime
  <2> SUFFICES ASSUME NEW i \in 1 .. L - n PROVE n + i \in 1 .. L /\ t[i] \in 0 .. max_lifetime
    OBVIOUS
  <2>1. n + i \in 1 .. L /\ n + 1 \in 1 .. L /\ n < L /\ n + 1 <= n + i
    BY <1>1
  <2>2. times[n + i] <= times[n + 1] /\ times[n + 1] <= max_lifetime
    BY <2>1, <1>1, <1>2 DEF Ordered, L
  <2>3. times[n + i] \in Nat /\ times[n + 1] \in Nat
    BY <2>1, <1>1, <1>6 DEF Ages
  <2>4. times[n + i] \in 0 .. max_lifetime
    BY <2>2, <2>3, <1>1
  <2>5. t[i] = times[n + i]
    BY <1>5
  <2> QED  BY <2>1, <2>4, <2>5
<1>8. Ordered(t)
  <2> SUFFICES ASSUME NEW i \in 1 .. L - n + 1, NEW j \in 1 .. L - n + 1, i <= j PROVE t[j] <= t[i]
    BY <1>5 DEF Ordered
  <2>1. CASE j = L - n + 1
    <3>1. t[j] = 0 /\ t[i] \in Nat
      BY <2>1, <1>1, <1>5, <1>7
    <3> QED  BY <3>1
  <2>2. CASE j # L - n + 1
    <3>1. i \in 1 .. L - n /\ j \in 1 .. L - n /\ n + i <= n + j
      BY <2>2, <1>1
    <3>2. times[n + j] <= times[n + i]
      BY <3>1, <1>1, <1>7 DEF Ordered, L
    <3> QED  BY <3>1, <3>2, <1>5
  <2> QED  BY <2>1, <2>2
<1>9. \A a \in 0 .. max_lifetime :
         Cardinality(AgedAt(t, a)) = [history EXCEPT ![0] = @ + 1][a]
  <2> SUFFICES ASSUME NEW a \in 0 .. max_lifetime
               PROVE  Cardinality(AgedAt(t, a)) = IF a = 0 THEN history[a] + 1 ELSE history[a]
    OBVIOUS
  <2> DEFINE A == AgedAt(times, a)
             B == {i \in 1 .. L - n : t[i] = a}
             f == [i \in B |-> n + i]
  <2>1. \A i \in A : i \in n + 1 .. L
    <3> SUFFICES ASSUME NEW i \in 1 .. L, times[i] = a PROVE i \in n + 1 .. L
      BY <1>1 DEF AgedAt, L
    <3>1. i \notin 1 .. n
      <4> SUFFICES ASSUME i \in 1 .. n PROVE FALSE
        OBVIOUS
      <4>1. times[i] > max_lifetime
        BY <1>2
      <4> QED  BY <4>1, <1>1
    <3> QED  BY <3>1, <1>1
  <2>2. f \in Bijection(B, A)
    <3>1. f \in [B -> A]
      <4> SUFFICES ASSUME NEW i \in B PROVE n + i \in A
        OBVIOUS
      <4>1. i \in 1 .. L - n /\ t[i] = a
        OBVIOUS
      <4>2. n + i \in 1 .. L /\ times[n + i] = a
        BY <4>1, <1>5, <1>7
      <4> QED  BY <4>2, <1>1 DEF AgedAt, L
    <3>2. \A i, j \in B : f[i] = f[j] => i = j
      BY <1>1
    <3>3. \A x \in A : \E i \in B : f[i] = x
      <4> SUFFICES ASSUME NEW x \in A PROVE \E i \in B : f[i] = x
        OBVIOUS
      <4>1. x \in n + 1 .. L /\ times[x] = a
        BY <2>1 DEF AgedAt
      <4>2. x - n \in 1 .. L - n /\ n + (x - n) = x
        BY <4>1, <1>1
      <4>3. t[x - n] = a
        BY <4>1, <4>2, <1>5
      <4>4. x - n \in B /\ f[x - n] = x
        BY <4>2, <4>3
      <4> QED  BY <4>4
    <3> HIDE DEF f, A, B
    <3> QED  BY <3>1, <3>2, <3>3 DEF Bijection, Injection, Surjection, IsInjective
  <2>3. IsFiniteSet(A) /\ Cardinality(A) = history[a] /\ history[a] \in Nat
    BY <1>1, Bounded DEF Tallied, AgedAt
  <2>4. IsFiniteSet(B)
    <3>1. B \subseteq DOMAIN t
      BY <1>1, <1>5
    <3> QED  BY <3>1, <1>5, Bounded
  <2>5. Cardinality(B) = history[a]
    <3>1. ExistsBijection(B, A)
      BY <2>2 DEF ExistsBijection
    <3> HIDE DEF A, B
    <3> QED  BY <3>1, <2>3, <2>4, FS_Bijection
  <2>6. CASE a = 0
    <3>1. AgedAt(t, a) = B \cup {L - n + 1}
      BY <2>6, <1>1, <1>5 DEF AgedAt
    <3>2. L - n + 1 \notin B
      BY <1>1
    <3> HIDE DEF B
    <3> QED  BY <3>1, <3>2, <2>4, <2>5, <2>6, FS_AddElement
  <2>7. CASE a # 0
    <3>1. AgedAt(t, a) = B
      BY <2>7, <1>1, <1>5 DEF AgedAt
    <3> QED  BY <3>1, <2>5, <2>7
  <2> QED  BY <2>6, <2>7
<1>10. \A i \in DOMAIN t : t[i] <= max_lifetime
  <2> SUFFICES ASSUME NEW i \in 1 .. L - n + 1 PROVE t[i] <= max_lifetime
    BY <1>5
  <2> QED  BY <1>1, <1>5, <1>7
<1>11. Len(t) <= L + 1
  BY <1>1, <1>5
<1> QED  BY <1>5, <1>8, <1>9, <1>10, <1>11 DEF Tallied, t, L

(* What the passing of time does to it. *)
LEMMA TimeTallied ==
    ASSUME NEW times, NEW history \in [0 .. max_lifetime -> Nat], Tallied(times, history)
    PROVE  /\ Tallied([i \in DOMAIN times |-> Older(times[i])],
                      [a \in 0 .. max_lifetime |-> IF a = 0 THEN 0 ELSE history[a - 1]])
           /\ Len([i \in DOMAIN times |-> Older(times[i])]) = Len(times)
<1> DEFINE t == [i \in DOMAIN times |-> Older(times[i])]
<1>1. /\ times \in Seq(Ages) /\ Ordered(times) /\ max_lifetime \in Nat
      /\ Len(times) \in Nat /\ DOMAIN times = 1 .. Len(times)
      /\ \A i \in DOMAIN times : times[i] \in Ages
  BY FrontendAssumption DEF Tallied
<1>2. \A x \in Ages : /\ Older(x) \in Ages /\ Older(x) # 0
                      /\ \A y \in Ages : y <= x => Older(y) <= Older(x)
                      /\ \A a \in 1 .. max_lifetime : Older(x) = a <=> x = a - 1
  BY <1>1 DEF Older, Ages
<1>3. t \in Seq(Ages) /\ Len(t) = Len(times) /\ DOMAIN t = DOMAIN times
  BY <1>1, <1>2
<1>4. \A i \in DOMAIN times : t[i] = Older(times[i])
  OBVIOUS
<1> HIDE DEF t
<1>5. Ordered(t)
  BY <1>1, <1>2, <1>3, <1>4 DEF Ordered
<1>6. ASSUME NEW a \in 0 .. max_lifetime
      PROVE  Cardinality(AgedAt(t, a)) = IF a = 0 THEN 0 ELSE history[a - 1]
  <2>1. CASE a = 0
    <3>1. AgedAt(t, a) = {}
      BY <2>1, <1>1, <1>2, <1>3, <1>4 DEF AgedAt
    <3> QED  BY <3>1, <2>1, FS_EmptySet
  <2>2. CASE a # 0
    <3>1. a \in 1 .. max_lifetime /\ a - 1 \in 0 .. max_lifetime
      BY <2>2, <1>1
    <3>2. AgedAt(t, a) = AgedAt(times, a - 1)
      BY <3>1, <1>1, <1>2, <1>3, <1>4 DEF AgedAt
    <3> QED  BY <3>1, <3>2, <2>2 DEF Tallied
  <2> QED  BY <2>1, <2>2
<1> QED  BY <1>3, <1>5, <1>6 DEF Tallied, t

(* When nothing recorded is too old, a counter is as long as its history     *)
(* tells of failures.                                                        *)
LEMMA FailuresTallied ==
    ASSUME NEW times, NEW history \in [0 .. max_lifetime -> Nat], Tallied(times, history),
           \A i \in DOMAIN times : times[i] <= max_lifetime
    PROVE  Cardinality(FailuresOf(history)) = Len(times)
<1> DEFINE Younger(m) == {i \in DOMAIN times : times[i] < m}
           Told(m) == UNION {{a} \X (1 .. history[a]) : a \in 0 .. (m - 1)}
           S == {m \in Nat : m <= max_lifetime + 1 =>
                     IsFiniteSet(Told(m)) /\ Cardinality(Told(m)) = Cardinality(Younger(m))}
<1>1. /\ times \in Seq(Ages) /\ max_lifetime \in Nat
      /\ Len(times) \in Nat /\ DOMAIN times = 1 .. Len(times)
      /\ \A i \in DOMAIN times : times[i] \in Nat
  BY FrontendAssumption DEF Tallied, Ages
<1>2. 0 \in S
  <2>1. Told(0) = {} /\ Younger(0) = {}
    BY <1>1
  <2> HIDE DEF Told, Younger
  <2> QED  BY <2>1, FS_EmptySet
<1>3. ASSUME NEW m \in S PROVE m + 1 \in S
  <2> m \in Nat /\ m + 1 \in Nat
    OBVIOUS
  <2> SUFFICES ASSUME m + 1 <= max_lifetime + 1
               PROVE  /\ IsFiniteSet(Told(m + 1))
                      /\ Cardinality(Told(m + 1)) = Cardinality(Younger(m + 1))
    OBVIOUS
  <2> DEFINE Row == {m} \X (1 .. history[m])
             f == [j \in 1 .. history[m] |-> <<m, j>>]
  <2>1. IsFiniteSet(Told(m)) /\ Cardinality(Told(m)) = Cardinality(Younger(m))
    BY <1>1
  <2>2. m \in 0 .. max_lifetime /\ history[m] \in Nat
    BY <1>1
  <2>3. Told(m + 1) = Told(m) \cup Row
    <3>1. 0 .. (m + 1 - 1) = (0 .. (m - 1)) \cup {m}
      OBVIOUS
    <3> QED  BY <3>1
  <2>4. Told(m) \cap Row = {}
    OBVIOUS
  <2>5. IsFiniteSet(Row) /\ Cardinality(Row) = history[m]
    <3>1. f \in Bijection(1 .. history[m], Row)
      BY DEF Bijection, Injection, Surjection, IsInjective
    <3>2. IsFiniteSet(1 .. history[m]) /\ Cardinality(1 .. history[m]) = history[m]
      BY <2>2, FS_Interval
    <3> HIDE DEF f, Row
    <3> QED  BY <3>1, <3>2, FS_Bijection DEF ExistsBijection
  <2>6. /\ Younger(m + 1) = Younger(m) \cup AgedAt(times, m)
        /\ Younger(m) \cap AgedAt(times, m) = {}
    BY <1>1 DEF AgedAt
  <2>7. /\ IsFiniteSet(AgedAt(times, m)) /\ Cardinality(AgedAt(times, m)) = history[m]
        /\ IsFiniteSet(Younger(m)) /\ Cardinality(Younger(m)) \in Nat
    BY <1>1, <2>2, Bounded DEF Tallied, AgedAt
  <2> HIDE DEF Told, Row, Younger
  <2>8. /\ IsFiniteSet(Told(m + 1))
        /\ Cardinality(Told(m + 1)) = Cardinality(Told(m)) + Cardinality(Row) - Cardinality({})
    BY <2>1, <2>3, <2>4, <2>5, FS_Union
  <2>9. Cardinality(Younger(m + 1))
          = Cardinality(Younger(m)) + Cardinality(AgedAt(times, m)) - Cardinality({})
    BY <2>6, <2>7, FS_Union
  <2> QED  BY <2>1, <2>5, <2>7, <2>8, <2>9
<1>4. S = Nat
  <2>1. S \in SUBSET Nat
    OBVIOUS
  <2> HIDE DEF S
  <2> QED  BY <1>2, <1>3, <2>1, SetInduction
<1>5. max_lifetime + 1 \in S
  <2> HIDE DEF S
  <2> QED  BY <1>1, <1>4
<1>6. Told(max_lifetime + 1) = FailuresOf(history)
  BY <1>1 DEF FailuresOf
<1>7. Younger(max_lifetime + 1) = 1 .. Len(times)
  BY <1>1
<1>8. Cardinality(1 .. Len(times)) = Len(times)
  <2> DEFINE k == Len(times)
  <2>1. k \in Nat /\ 1 \in Int /\ k \in Int
    BY <1>1
  <2> HIDE DEF k
  <2>2. Cardinality(1 .. k) = IF 1 > k THEN 0 ELSE k - 1 + 1
    BY <2>1, FS_Interval
  <2>3. Cardinality(1 .. k) = k
    BY <2>1, <2>2
  <2> QED  BY <2>3 DEF k
<1> HIDE DEF Told, Younger
<1> QED  BY <1>1, <1>5, <1>6, <1>7, <1>8

-----------------------------------------------------------------------------
(* The counters of the groups. *)

(* A group with too many failures has failed in this iteration, and the      *)
(* daemon knows.                                                             *)
Retained(g) ==
    \/ Len(failure_times[g]) <= max_failures
    \/ /\ frontend = "iterating" /\ state[g] = "failed"
       /\ Len(failure_times[g]) <= max_num_failures

(* The inductive invariant of the counters. *)
CountersKept ==
    /\ failure_times = [g \in Groups |-> failure_times[g]]
    /\ max_num_failures \in 0 .. max_failures + 1
    /\ \A g \in Groups : Tallied(failure_times[g], recent[g]) /\ Retained(g)

LEMMA NothingTallied == Tallied(<<>>, NoFailures)
<1>1. \A a \in 0 .. max_lifetime : AgedAt(<<>>, a) = {}
  BY DEF AgedAt
<1>2. \A a \in 0 .. max_lifetime : Cardinality(AgedAt(<<>>, a)) = NoFailures[a]
  BY <1>1, FS_EmptySet DEF NoFailures
<1> QED  BY <1>2 DEF Tallied, Ordered

(* Counters that are made anew have nothing to count. *)
LEMMA CountersNew ==
    ASSUME CountersKept, NewCounters, max_num_failures' \in {0, max_num_failures}
    PROVE  CountersKept'
<1>1. /\ failure_times' = [g \in Groups |-> <<>>]
      /\ \A g \in Groups : failure_times'[g] = <<>> /\ recent'[g] = NoFailures
  BY DEF NewCounters
<1>2. max_num_failures' \in 0 .. max_failures + 1
  BY FrontendAssumption DEF CountersKept
<1>3. ASSUME NEW g \in Groups
      PROVE  Tallied(failure_times'[g], recent'[g]) /\ Len(failure_times'[g]) <= max_failures
  <2>1. Len(<<>>) <= max_failures
    BY FrontendAssumption
  <2> QED  BY <1>1, <2>1, NothingTallied
<1> QED  BY <1>1, <1>2, <1>3 DEF CountersKept, Retained

(* What a poll finds of a group that has failed. *)
LEMMA PollFails ==
    ASSUME Recorded, CountersKept, Poll,
           NEW g \in Groups, Exited(g), element[g] = "failed"
    PROVE  /\ Tallied(failure_times'[g], recent'[g])
           /\ Len(failure_times'[g]) \in 0 .. max_failures + 1
           /\ Cardinality(FailuresOf(recent'[g])) = Len(failure_times'[g])
           /\ recent'[g][0] > 0
           /\ state'[g] = "failed"
<1>1. /\ failure_times'[g] = add_failure(failure_times[g])
      /\ recent'[g] = [recent[g] EXCEPT ![0] = @ + 1]
      /\ state'[g] = "failed"
  BY DEF Poll, Counted
<1>2. /\ Tallied(failure_times[g], recent[g]) /\ Len(failure_times[g]) <= max_failures
      /\ recent[g] \in [0 .. max_lifetime -> Nat]
  BY DEF CountersKept, Retained, Exited, Recorded
<1>3. PICK times, history :
        times = failure_times[g] /\ history = recent[g]
  OBVIOUS
<1>4. PICK longer, known :
        longer = add_failure(times) /\ known = [history EXCEPT ![0] = @ + 1]
  OBVIOUS
<1>5. /\ history \in [0 .. max_lifetime -> Nat] /\ Tallied(times, history)
      /\ Len(times) <= max_failures /\ 0 \in 0 .. max_lifetime
  BY <1>2, <1>3, FrontendAssumption
<1>6. /\ Tallied(longer, known)
      /\ \A i \in DOMAIN longer : longer[i] <= max_lifetime
      /\ Len(longer) <= Len(times) + 1
  BY <1>4, <1>5, FailureTallied
<1>7. known \in [0 .. max_lifetime -> Nat] /\ known[0] > 0
  BY <1>4, <1>5
<1>8. Cardinality(FailuresOf(known)) = Len(longer)
  BY <1>6, <1>7, FailuresTallied
<1>9. Len(longer) \in Nat /\ Len(times) \in Nat
  BY <1>5, <1>6 DEF Tallied
<1>10. Len(longer) \in 0 .. max_failures + 1
  BY <1>5, <1>6, <1>9, FrontendAssumption
<1>11. failure_times'[g] = longer /\ recent'[g] = known
  BY <1>1, <1>3, <1>4
<1> QED  BY <1>1, <1>6, <1>7, <1>8, <1>10, <1>11

(* What a poll makes of the largest counter. *)
LEMMA PollCounts ==
    ASSUME Recorded, CountersKept, Poll
    PROVE  /\ max_num_failures' \in 0 .. max_failures + 1
           /\ max_num_failures <= max_num_failures'
           /\ \A g \in Groups : Exited(g) /\ element[g] = "failed" =>
                 Len(failure_times'[g]) <= max_num_failures'
           /\ \/ max_num_failures' = max_num_failures
              \/ \E g \in Groups : /\ Exited(g) /\ element[g] = "failed"
                                   /\ max_num_failures' = Len(failure_times'[g])
<1> DEFINE F == {g \in Groups : Exited(g) /\ element[g] = "failed"}
           L == {Len(failure_times'[g]) : g \in F}
           S == L \cup {max_num_failures}
<1>1. max_num_failures' = Max(S)
  <2>1. {g \in {h \in Groups : Exited(h)} : element[g] = "failed"} = F
    OBVIOUS
  <2>2. max_num_failures' =
          Max({Len(failure_times'[g]) : g \in {h \in {k \in Groups : Exited(k)} :
                                                 element[h] = "failed"}}
                \cup {max_num_failures})
    BY DEF Poll
  <2> QED  BY <2>1, <2>2
<1>2. \A g \in F : Len(failure_times'[g]) \in 0 .. max_failures + 1
  BY PollFails
<1>3. max_num_failures \in 0 .. max_failures + 1 /\ max_failures \in Nat
  BY FrontendAssumption DEF CountersKept
<1>4. S \subseteq 0 .. max_failures + 1 /\ S \in SUBSET Nat /\ S # {}
  BY <1>2, <1>3
<1>5. IsFiniteSet(S)
  <2>1. max_failures + 1 \in Nat /\ \A x \in S : x <= max_failures + 1
    BY <1>3, <1>4
  <2> HIDE DEF S
  <2> QED  BY <1>4, <2>1, FS_BoundedSetOfNaturals
<1>6. Max(S) \in S /\ \A x \in S : x <= Max(S)
  <2> HIDE DEF S
  <2> QED  BY <1>4, <1>5, MaxOf
<1> QED  BY <1>1, <1>4, <1>6

LEMMA PollKept ==
    ASSUME Typed, Recorded, CountersKept, Poll
    PROVE  CountersKept'
<1>1. failure_times' = [g \in Groups |-> failure_times'[g]]
  BY DEF Poll, Counted
<1>2. max_num_failures' \in 0 .. max_failures + 1
  BY PollCounts
<1>3. ASSUME NEW g \in Groups
      PROVE  Tallied(failure_times'[g], recent'[g]) /\ Retained(g)'
  <2>1. frontend = "iterating" /\ frontend' = "iterating"
    BY DEF Poll
  <2>2. CASE Exited(g) /\ element[g] = "failed"
    <3>1. Len(failure_times'[g]) <= max_num_failures'
      BY <2>2, PollCounts
    <3>2. Tallied(failure_times'[g], recent'[g]) /\ state'[g] = "failed"
      BY <2>2, PollFails
    <3> QED  BY <2>1, <3>1, <3>2 DEF Retained
  <2>3. CASE ~ (Exited(g) /\ element[g] = "failed")
    <3>1. failure_times'[g] = failure_times[g] /\ recent'[g] = recent[g]
      BY <2>3 DEF Poll, Counted
    <3>2. state[g] = "failed" => state'[g] = "failed"
      BY DEF Poll, Exited
    <3>3. Tallied(failure_times[g], recent[g]) /\ Retained(g)
      BY DEF CountersKept
    <3>4. CASE Len(failure_times[g]) <= max_failures
      BY <3>1, <3>3, <3>4 DEF Retained
    <3>5. CASE state[g] = "failed" /\ Len(failure_times[g]) <= max_num_failures
      <4>1. Len(failure_times[g]) \in Nat
        BY <3>3 DEF Tallied
      <4>2. max_num_failures <= max_num_failures' /\ max_num_failures \in Nat
            /\ max_num_failures' \in Nat
        BY PollCounts, FrontendAssumption DEF CountersKept
      <4>3. Len(failure_times[g]) <= max_num_failures'
        BY <3>5, <4>1, <4>2
      <4> QED  BY <2>1, <3>1, <3>2, <3>3, <3>5, <4>3 DEF Retained
    <3> QED  BY <3>3, <3>4, <3>5 DEF Retained
  <2> QED  BY <2>2, <2>3
<1> QED  BY <1>1, <1>2, <1>3 DEF CountersKept

LEMMA TickKept ==
    ASSUME Typed, Recorded, CountersKept, Tick
    PROVE  CountersKept'
<1>1. /\ failure_times' = [g \in Groups |-> failure_times'[g]]
      /\ UNCHANGED <<max_num_failures, frontend, state>>
  BY DEF Tick
<1>2. ASSUME NEW g \in Groups
      PROVE  /\ Tallied(failure_times'[g], recent'[g])
             /\ Len(failure_times'[g]) = Len(failure_times[g])
  <2>1. /\ failure_times'[g] = [i \in DOMAIN failure_times[g] |-> Older(failure_times[g][i])]
        /\ recent'[g] = [a \in 0 .. max_lifetime |-> IF a = 0 THEN 0 ELSE recent[g][a - 1]]
    BY DEF Tick
  <2>2. PICK times, history : times = failure_times[g] /\ history = recent[g]
    OBVIOUS
  <2>3. Tallied(times, history) /\ history \in [0 .. max_lifetime -> Nat]
    BY <2>2 DEF CountersKept, Recorded
  <2> QED  BY <2>1, <2>2, <2>3, TimeTallied
<1> QED  BY <1>1, <1>2 DEF CountersKept, Retained

(* The counters stay right, whatever happens. *)
LEMMA NextKept ==
    Typed /\ Recorded /\ CountersKept /\ [Next]_vars => CountersKept'
<1> SUFFICES ASSUME Typed, Recorded, CountersKept, [Next]_vars
             PROVE  CountersKept'
  OBVIOUS
<1>1. ASSUME UNCHANGED <<failure_times, recent, max_num_failures, frontend, state>>
      PROVE  CountersKept'
  BY <1>1 DEF CountersKept, Retained
<1>2. ASSUME NEW g \in Groups, ElementStep(g) \/ CleanGroup(g) \/ GroupCleaned(g)
      PROVE  UNCHANGED <<failure_times, recent, max_num_failures, frontend, state>>
  BY <1>2 DEF ElementStep, Register, Fork, ChildrenEnd, Finish, Deadvertise, Fail,
              LeftRunActs, LeftRunEnds, LeftDeadvertiseEnds, AdsExpire, CleanGroup,
              GroupCleaned, pool
<1>3. CASE Start \/ WakeUp
  <2>1. NewCounters /\ max_num_failures' = max_num_failures
    BY <1>3 DEF Start, WakeUp, idle
  <2> QED  BY <2>1, CountersNew
<1>4. CASE BeginIteration \/ NextIteration
  <2>1. /\ UNCHANGED <<failure_times, recent>>
        /\ max_num_failures' \in {0, max_num_failures}
    BY <1>4 DEF BeginIteration, NextIteration, pool
  <2>2. ASSUME NEW g \in Groups PROVE Len(failure_times[g]) <= max_failures
    <3>1. Retained(g) /\ Len(failure_times[g]) \in Nat
      BY DEF CountersKept, Tallied
    <3>2. frontend = "iterating" => max_num_failures <= max_failures
      BY <1>4, FrontendAssumption
         DEF BeginIteration, NextIteration, TooManyFailures, CountersKept
    <3>3. max_num_failures \in Nat /\ max_failures \in Nat
      BY FrontendAssumption DEF CountersKept
    <3> QED  BY <3>1, <3>2, <3>3 DEF Retained
  <2>3. max_num_failures' \in 0 .. max_failures + 1
    BY <2>1, FrontendAssumption DEF CountersKept
  <2> QED  BY <2>1, <2>2, <2>3 DEF CountersKept, Retained
<1>5. CASE Hibernate \/ Abort \/ Interrupt \/ Crash \/ InterruptCleanUp \/ CleanedUp
  <2>1. \/ NewCounters /\ max_num_failures' = 0
        \/ UNCHANGED pool /\ frontend = "cleaning" /\ CleanedUp
    BY <1>5 DEF Hibernate, Abort, Interrupt, Crash, InterruptCleanUp, CleanedUp, CleanUp, Gone,
                NoPool
  <2>2. CASE UNCHANGED pool /\ frontend = "cleaning"
    BY <2>2 DEF CountersKept, Retained, pool
  <2> QED  BY <2>1, <2>2, CountersNew
<1>6. CASE SpawnMore
  <2>1. /\ UNCHANGED <<failure_times, recent, max_num_failures, frontend>>
        /\ \A g \in Groups : state[g] = "failed" => state'[g] = "failed"
    BY <1>6 DEF SpawnMore, Typed
  <2> QED  BY <2>1 DEF CountersKept, Retained
<1>7. CASE MasterComesOrGoes \/ UNCHANGED vars
  BY <1>1, <1>7 DEF MasterComesOrGoes, vars, pool
<1> QED
  BY <1>1, <1>2, <1>3, <1>4, <1>5, <1>6, <1>7, PollKept, TickKept
     DEF Next, DaemonStep, EndIteration

-----------------------------------------------------------------------------
LEMMA NextIInv == IInv /\ [Next]_vars => IInv'
<1> SUFFICES ASSUME IInv, [Next]_vars
             PROVE  IInv'
  OBVIOUS
<1>1. Typed' /\ Recorded' /\ CountersTyped' /\ Counts' /\ Quiet' /\ ForkedWork' /\ WorksAlone'
  BY NextTyped, NextRecorded, NextCountersTyped, NextCounts, NextQuiet, NextForked, NextAlone
     DEF IInv
<1>2. LeftExcused' /\ OrderlyStops' /\ Withdrawn' /\ AdsAccounted'
  BY NextLeft, NextWithdrawn, NextAccounted DEF IInv
<1> QED  BY <1>1, <1>2 DEF IInv

(* The strengthened invariant holds in every reachable state. *)
LEMMA Invariance == Spec => []IInv
BY InitIInv, NextIInv, PTL DEF Spec

(* Every variable has its type: the daemon counts groups, never below nothing  *)
(* and never more than it may have, whatever is interrupted.                 *)
THEOREM TypeCorrect == Spec => []TypeOK
<1>1. IInv => TypeOK
  BY DEF IInv, Typed, Recorded, CountersTyped, TypeOK
<1> QED  BY <1>1, Invariance, PTL

(* At most max_active elements of an iteration are alive or not yet polled,  *)
(* and none is outside of iterations and withdrawals.                        *)
THEOREM OneGenerationAlways == Spec => []OneGeneration
<1>1. IInv => OneGeneration
  <2> SUFFICES ASSUME IInv
               PROVE  OneGeneration
    OBVIOUS
  <2> USE FrontendAssumption
  <2>1. Cardinality(Alive) <= max_active
    <3>1. CASE frontend = "iterating"
      BY <3>1 DEF IInv, Counts
    <3>2. CASE frontend = "cleaning"
      <4>1. CASE Alive = {}
        BY <4>1, FS_EmptySet
      <4>2. CASE \E g \in Alive : TRUE
        <5>1. PICK g \in Alive : Alive = {g}
          BY <3>2, <4>2 DEF IInv, Quiet
        <5>2. Cardinality({g}) = 1
          BY FS_Singleton
        <5> QED  BY <5>1, <5>2
      <4> QED  BY <4>1, <4>2
    <3>3. CASE frontend \notin {"iterating", "cleaning"}
      BY <3>3, FS_EmptySet DEF IInv, Quiet
    <3> QED  BY <3>1, <3>2, <3>3
  <2> QED  BY <2>1 DEF IInv, Quiet, Alive, OneGeneration
<1> QED  BY <1>1, Invariance, PTL

(* An element works only when nothing of an earlier element of its group is  *)
(* about any more.                                                           *)
THEOREM ElementsWorkAlone == Spec => []WorksAlone
<1>1. IInv => WorksAlone
  BY DEF IInv
<1> QED  BY <1>1, Invariance, PTL

(* Ads that are found after an orderly stop, or in hibernation, have one of  *)
(* the reasons the specification names.                                      *)
THEOREM AdsAreAccounted == Spec => []AdsAccounted
<1>1. IInv => AdsAccounted
  BY DEF IInv
<1> QED  BY <1>1, Invariance, PTL

(* Together with what was recorded, the counters are kept right. *)
LEMMA KeptAlways == Spec => []CountersKept
<1>1. Init => Typed /\ Recorded /\ CountersKept
  <2> SUFFICES ASSUME Init PROVE CountersKept
    BY InitIInv DEF IInv
  <2>1. /\ failure_times = [g \in Groups |-> <<>>] /\ max_num_failures = 0
        /\ \A g \in Groups : failure_times[g] = <<>> /\ recent[g] = NoFailures
    BY DEF Init
  <2>2. Len(<<>>) <= max_failures /\ 0 \in 0 .. max_failures + 1
    BY FrontendAssumption
  <2> QED  BY <2>1, <2>2, NothingTallied DEF CountersKept, Retained
<1>2. Typed /\ Recorded /\ CountersKept /\ [Next]_vars => (Typed /\ Recorded /\ CountersKept)'
  BY NextTyped, NextRecorded, NextKept
<1> QED  BY <1>1, <1>2, PTL DEF Spec

(* A FailureCounter retains every failure of the window, and no group is     *)
(* let fail more than once too often before the daemon gives up.             *)
THEOREM WindowCountedAlways == Spec => []WindowCounted
<1>1. CountersKept => WindowCounted
  <2> SUFFICES ASSUME CountersKept PROVE WindowCounted
    OBVIOUS
  <2>1. \A g \in Groups : failure_times[g] \in Seq(Ages)
    BY DEF CountersKept, Tallied
  <2>2. failure_times \in [Groups -> Seq(Ages)]
    BY <2>1 DEF CountersKept
  <2>3. ASSUME NEW g \in Groups PROVE Len(failure_times[g]) <= max_failures + 1
    <3>1. Retained(g) /\ Len(failure_times[g]) \in Nat
      BY DEF CountersKept, Tallied
    <3> QED  BY <3>1, FrontendAssumption DEF CountersKept, Retained
  <2>4. \A g \in Groups : \A a \in 0 .. max_lifetime :
          Cardinality({i \in DOMAIN failure_times[g] : failure_times[g][i] = a}) = recent[g][a]
    BY DEF CountersKept, Tallied, AgedAt
  <2>5. max_num_failures \in 0 .. max_failures + 1
    BY DEF CountersKept
  <2> QED  BY <2>2, <2>3, <2>4, <2>5 DEF WindowCounted
<1> QED  BY <1>1, KeptAlways, PTL

(* The daemon gives up only when one group has failed more than max_failures *)
(* times within the window, the last time just now.                          *)
THEOREM AbortsForFailures == Spec => AbortsOnlyAfterFailures
<1> DEFINE Reason == \/ max_num_failures > max_failures
                     \/ \E g \in Groups :
                           Cardinality(FailuresOf(recent'[g])) > max_failures /\ recent'[g][0] > 0
<1>1. IInv /\ CountersKept /\ [Next]_vars => [max_num_failures' > max_failures => Reason]_vars
  <2> SUFFICES ASSUME IInv, CountersKept, Next, max_num_failures' > max_failures,
                      ~ (max_num_failures > max_failures)
               PROVE  \E g \in Groups :
                         Cardinality(FailuresOf(recent'[g])) > max_failures /\ recent'[g][0] > 0
    OBVIOUS
  <2>1. Poll
    <3>1. max_num_failures' # max_num_failures /\ max_num_failures' # 0
      BY FrontendAssumption
    <3>2. ~ \E g \in Groups : ElementStep(g) \/ CleanGroup(g) \/ GroupCleaned(g)
      BY <3>1 DEF ElementStep, Register, Fork, ChildrenEnd, Finish, Deadvertise, Fail,
                  LeftRunActs, LeftRunEnds, LeftDeadvertiseEnds, AdsExpire, CleanGroup,
                  GroupCleaned, pool
    <3>3. ~ (Start \/ WakeUp \/ BeginIteration \/ NextIteration \/ SpawnMore)
      BY <3>1 DEF Start, WakeUp, BeginIteration, NextIteration, SpawnMore, idle, pool
    <3>4. ~ (Hibernate \/ Abort \/ Interrupt \/ Crash \/ InterruptCleanUp \/ CleanedUp)
      BY <3>1 DEF Hibernate, Abort, Interrupt, Crash, InterruptCleanUp, CleanedUp, CleanUp,
                  Gone, NoPool, pool
    <3>5. ~ (MasterComesOrGoes \/ Tick)
      BY <3>1 DEF MasterComesOrGoes, Tick, pool
    <3> QED  BY <3>2, <3>3, <3>4, <3>5 DEF Next, DaemonStep, EndIteration
  <2>2. PICK g \in Groups : /\ Exited(g) /\ element[g] = "failed"
                            /\ max_num_failures' = Len(failure_times'[g])
    BY <2>1, PollCounts DEF IInv
  <2>3. Cardinality(FailuresOf(recent'[g])) = Len(failure_times'[g]) /\ recent'[g][0] > 0
    BY <2>1, <2>2, PollFails DEF IInv
  <2> QED  BY <2>2, <2>3
<1>2. Spec => [][Next]_vars
  BY DEF Spec
<1> QED  BY <1>1, <1>2, Invariance, KeptAlways, PTL DEF AbortsOnlyAfterFailures

-----------------------------------------------------------------------------
(* An iteration as a call of BoundedPool: the groups are its functions, the  *)
(* elements its children.                                                    *)
Iterating == frontend = "iterating"

GroupsThat(how) == {g \in Groups : Iterating /\ state[g] = how}

Iteration == INSTANCE BoundedPool WITH
    Keys    <- Groups,
    Bound   <- max_active,
    waiting <- GroupsThat("queued"),
    active  <- GroupsThat("spawned"),
    results <- GroupsThat("finished"),
    errors  <- Cardinality(GroupsThat("failed")),
    outcome <- IF Iterating THEN "open" ELSE "none"

IterationStep ==
    \/ Iteration!Open(Groups)
    \/ \E g \in GroupsThat("queued") : Iteration!Start(g)
    \/ \E G, B \in SUBSET GroupsThat("spawned") : Iteration!Collect(G, B)

(* It ends when nothing is left to do, and otherwise only with an exception  *)
(* or with the daemon itself.                                                *)
IterationOver ==
    /\ Iterating /\ ~ Iterating'
    /\ \/ GroupsThat("queued") = {} /\ GroupsThat("spawned") = {}
       \/ Interrupt \/ Crash

LEMMA IterationCardinality ==
    ASSUME NEW S
    PROVE  Iteration!Cardinality(S) = Cardinality(S)
BY DEF Cardinality, Iteration!Cardinality

LEMMA OutsideIteration ==
    ASSUME ~ Iterating, ~ Iterating'
    PROVE  UNCHANGED Iteration!vars
<1>1. \A how : GroupsThat(how) = {} /\ GroupsThat(how)' = {}
  BY DEF GroupsThat
<1>2. GroupsThat("failed")' = GroupsThat("failed")
  BY <1>1
<1> QED  BY <1>1, <1>2 DEF Iteration!vars

LEMMA SameStates ==
    ASSUME frontend' = frontend, state' = state
    PROVE  UNCHANGED Iteration!vars
<1>1. /\ GroupsThat("queued")' = GroupsThat("queued") /\ GroupsThat("spawned")' = GroupsThat("spawned")
      /\ GroupsThat("finished")' = GroupsThat("finished") /\ GroupsThat("failed")' = GroupsThat("failed")
      /\ Iterating' = Iterating
  BY DEF GroupsThat, Iterating
<1> QED  BY <1>1 DEF Iteration!vars

LEMMA BeginIsOpen ==
    ASSUME IInv, BeginIteration
    PROVE  Iteration!Open(Groups)
<1>1. ~ Iterating /\ Iterating' /\ state' = [g \in Groups |-> "queued"]
  BY DEF BeginIteration, Iterating
<1>2. /\ \A how : GroupsThat(how) = {}
      /\ GroupsThat("queued")' = Groups
      /\ GroupsThat("spawned")' = {} /\ GroupsThat("finished")' = {} /\ GroupsThat("failed")' = {}
  BY <1>1 DEF GroupsThat
<1>3. GroupsThat("failed")' = GroupsThat("failed")
  BY <1>2
<1> QED  BY <1>1, <1>2, <1>3 DEF Iteration!Open

LEMMA SpawnIsStart ==
    ASSUME IInv, SpawnMore
    PROVE  \E g \in GroupsThat("queued") : Iteration!Start(g)
<1>1. PICK g \in Groups : state[g] = "queued" /\ state' = [state EXCEPT ![g] = "spawned"]
  BY DEF SpawnMore
<1>2. Iterating /\ Iterating' /\ active_groups < max_active
  BY DEF SpawnMore, CanSpawn, Iterating
<1>3. /\ g \in GroupsThat("queued")
      /\ GroupsThat("queued")' = GroupsThat("queued") \ {g}
      /\ GroupsThat("spawned")' = GroupsThat("spawned") \cup {g}
      /\ GroupsThat("finished")' = GroupsThat("finished")
      /\ GroupsThat("failed")' = GroupsThat("failed")
  BY <1>1, <1>2 DEF GroupsThat, IInv, Typed
<1>4. Cardinality(GroupsThat("spawned")) < max_active
  <2>1. GroupsThat("spawned") = Spawned
    BY <1>2 DEF GroupsThat, Spawned
  <2> QED  BY <1>2, <2>1 DEF IInv, Counts, Iterating
<1>5. Iteration!Start(g)
  BY <1>2, <1>3, <1>4, IterationCardinality DEF Iteration!Start
<1> QED  BY <1>3, <1>5

LEMMA PollIsCollect ==
    ASSUME IInv, Poll
    PROVE  \E G, B \in SUBSET GroupsThat("spawned") : Iteration!Collect(G, B)
<1> DEFINE E == {g \in Groups : Exited(g)}
           F == {g \in E : element[g] = "failed"}
<1>1. /\ Iterating /\ Iterating'
      /\ state' = [g \in Groups |-> IF g \in F THEN "failed"
                                    ELSE IF g \in E THEN "finished" ELSE state[g]]
  BY DEF Poll, Iterating
<1>2. E \subseteq GroupsThat("spawned") /\ F \subseteq E
  BY <1>1 DEF GroupsThat, Exited
<1>3. /\ GroupsThat("queued")' = GroupsThat("queued")
      /\ GroupsThat("spawned")' = GroupsThat("spawned") \ ((E \ F) \cup F)
      /\ GroupsThat("finished")' = GroupsThat("finished") \cup (E \ F)
      /\ GroupsThat("failed")' = GroupsThat("failed") \cup F
      /\ GroupsThat("failed") \cap F = {}
  <2>1. \A g \in E : state[g] = "spawned"
    BY DEF Exited
  <2> HIDE DEF E, F
  <2>2. E \subseteq Groups /\ F \subseteq E
    BY DEF E, F
  <2> QED  BY <1>1, <2>1, <2>2 DEF GroupsThat
<1>4. IsFiniteSet(F) /\ IsFiniteSet(GroupsThat("failed"))
  BY GroupsFinite DEF GroupsThat
<1> HIDE DEF E, F
<1>5. Cardinality(GroupsThat("failed") \cup F) = Cardinality(GroupsThat("failed")) + Cardinality(F)
  <2>1. /\ Cardinality(GroupsThat("failed") \cup F)
              = Cardinality(GroupsThat("failed")) + Cardinality(F) - Cardinality(GroupsThat("failed") \cap F)
        /\ Cardinality(GroupsThat("failed") \cap F) = 0
    BY <1>3, <1>4, FS_Union, FS_EmptySet
  <2>2. Cardinality(GroupsThat("failed")) \in Nat /\ Cardinality(F) \in Nat
    BY <1>4, FS_CardinalityType
  <2> QED  BY <2>1, <2>2
<1>6. Iteration!Collect(E \ F, F)
  <2>1. Cardinality(GroupsThat("failed"))' = Cardinality(GroupsThat("failed")) + Iteration!Cardinality(F)
    BY <1>3, <1>5, IterationCardinality
  <2> QED  BY <1>1, <1>3, <2>1 DEF Iteration!Collect
<1> QED  BY <1>2, <1>6

(* An iteration of the frontend keeps what BoundedPool promises: a group is  *)
(* spawned once, never more than max_active at a time, and each element is   *)
(* collected once, as finished or as failed; the iteration ends when all are *)
(* collected, unless an exception or a signal ends it (spawn_iteration).     *)
THEOREM IterationsArePools ==
    Spec => [][IterationStep \/ UNCHANGED Iteration!vars \/ IterationOver]_vars
<1>1. IInv /\ [Next]_vars => [IterationStep \/ UNCHANGED Iteration!vars \/ IterationOver]_vars
  <2> SUFFICES ASSUME IInv, Next
               PROVE  IterationStep \/ UNCHANGED Iteration!vars \/ IterationOver
    OBVIOUS
  <2>1. ASSUME NEW g \in Groups, ElementStep(g) PROVE UNCHANGED Iteration!vars
    BY <2>1, ElementFrame, SameStates DEF IInv, pool
  <2>2. ASSUME NEW g \in Groups, CleanGroup(g) \/ GroupCleaned(g)
        PROVE  UNCHANGED Iteration!vars
    <3>1. frontend' = frontend /\ state' = state
      BY <2>2 DEF CleanGroup, GroupCleaned, pool
    <3> QED  BY <3>1, SameStates
  <2>3. CASE MasterComesOrGoes \/ Tick
    <3>1. frontend' = frontend /\ state' = state
      BY <2>3 DEF MasterComesOrGoes, Tick, pool
    <3> QED  BY <3>1, SameStates
  <2>4. CASE BeginIteration
    BY <2>4, BeginIsOpen DEF IterationStep
  <2>5. CASE Poll
    BY <2>5, PollIsCollect DEF IterationStep
  <2>6. CASE SpawnMore
    BY <2>6, SpawnIsStart DEF IterationStep
  <2>7. CASE EndIteration
    <3>1. Iterating /\ ~ Iterating' /\ groups_tofinish = 0
      BY <2>7 DEF EndIteration, NextIteration, Hibernate, Abort, CleanUp, Iterating
    <3>2. Unfinished = {}
      <4>1. IsFiniteSet(Unfinished) /\ Cardinality(Unfinished) = 0
        BY <3>1, GroupsFinite DEF IInv, Counts, Iterating, Unfinished
      <4> QED  BY <4>1, FS_EmptySet
    <3>3. GroupsThat("queued") = {} /\ GroupsThat("spawned") = {}
      BY <3>2 DEF GroupsThat, Unfinished
    <3> QED  BY <3>1, <3>3 DEF IterationOver
  <2>8. CASE Interrupt \/ Crash
    <3>1. ~ Iterating'
      BY <2>8 DEF Interrupt, Crash, CleanUp, Gone, Iterating
    <3> QED  BY <2>8, <3>1, OutsideIteration DEF IterationOver
  <2>9. CASE Start \/ WakeUp \/ CleanedUp \/ InterruptCleanUp
    <3>1. ~ Iterating /\ ~ Iterating'
      BY <2>9 DEF Start, WakeUp, CleanedUp, InterruptCleanUp, CleanUp, Gone, Iterating,
         IInv, Typed
    <3> QED  BY <3>1, OutsideIteration
  <2> QED  BY <2>1, <2>2, <2>3, <2>4, <2>5, <2>6, <2>7, <2>8, <2>9 DEF Next, DaemonStep
<1> QED  BY <1>1, Invariance, PTL DEF Spec

=============================================================================
