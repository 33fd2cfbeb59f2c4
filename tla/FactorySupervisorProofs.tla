----------------------- MODULE FactorySupervisorProofs -----------------------
(***************************************************************************)
(* Proofs about the factory daemon and its group processes, for any number   *)
(* of restarts and any length of time; about the lock of the PID file a      *)
(* group process registers under, for any number of daemons and observers;   *)
(* and that the first relies on no more than the second gives.               *)
(***************************************************************************)
EXTENDS FactorySupervisor, PidLock, SequenceTheorems, FiniteSetTheorems, TLAPS

(* There is room for one more start time in what is kept. *)
LEMMA KeptStarts ==
    ASSUME TypeOK
    PROVE  /\ LastStarts \in Seq(0 .. now)
           /\ Len(LastStarts) < restart_attempts
<1>1. children_uptime \in Seq(0 .. now) /\ Len(children_uptime) <= restart_attempts
  BY DEF TypeOK
<1>2. CASE Len(children_uptime) = restart_attempts
  <2>1. children_uptime # <<>>
    BY <1>1, <1>2, RestartAssumption, EmptySeq
  <2>2. Tail(children_uptime) \in Seq(0 .. now)
        /\ Len(Tail(children_uptime)) = Len(children_uptime) - 1
    BY <1>1, <2>1, HeadTailProperties
  <2> QED  BY <2>2, <1>2, RestartAssumption DEF LastStarts
<1>3. CASE Len(children_uptime) # restart_attempts
  BY <1>1, <1>3, RestartAssumption, LenProperties DEF LastStarts
<1> QED  BY <1>2, <1>3

(* Every field has its type whatever step is taken. *)
LEMMA NextType == TypeOK /\ [Next]_vars => TypeOK'
<1> USE RestartAssumption DEF Groups, FactoryStates, factoryVars
<1> SUFFICES ASSUME TypeOK, [Next]_vars
             PROVE  TypeOK'
  OBVIOUS
<1>1. ASSUME NEW g \in Groups, GroupStep(g)
      PROVE  TypeOK'
  BY <1>1 DEF TypeOK, GroupStep, Register, ForkWorkers, WorkersEnd, Crash, Quit
<1>2. CASE StartFactory
  <2>1. /\ started' \in 0 .. MaxGroups /\ child' \in 0 .. started'
        /\ group' \in [Groups -> {"none", "starting", "serving", "dead"}]
        /\ factory' \in FactoryStates
    BY <1>2 DEF TypeOK, StartFactory, StartGroup
  <2>2. /\ children_uptime' = Append(<<>>, now) /\ starts' = <<now>> /\ now' = now
    BY <1>2 DEF StartFactory, StartGroup
  <2>3. /\ children_uptime' \in Seq(0 .. now') /\ Len(children_uptime') <= restart_attempts
        /\ starts' \in Seq(0 .. now')
    BY <2>2 DEF TypeOK
  <2> QED  BY <2>1, <2>3, <1>2 DEF TypeOK, StartFactory
<1>3. CASE RestartGroup
  <2>1. /\ started' \in 0 .. MaxGroups /\ child' \in 0 .. started'
        /\ group' \in [Groups -> {"none", "starting", "serving", "dead"}]
        /\ factory' \in FactoryStates
    BY <1>3 DEF TypeOK, RestartGroup, StartGroup
  <2>2. LastStarts \in Seq(0 .. now) /\ Len(LastStarts) < restart_attempts
    BY KeptStarts
  <2>3. /\ children_uptime' = Append(LastStarts, now) /\ starts' = Append(starts, now)
        /\ now' = now
    BY <1>3 DEF RestartGroup, StartGroup
  <2>4. /\ children_uptime' \in Seq(0 .. now')
        /\ Len(children_uptime') <= restart_attempts
        /\ starts' \in Seq(0 .. now')
    BY <2>2, <2>3 DEF TypeOK
  <2> QED  BY <2>1, <2>4, <1>3 DEF TypeOK, RestartGroup
<1>4. CASE GiveUp \/ Signalled \/ Terminate
  <2>1. factory' \in FactoryStates /\ child' \in 0 .. started
    BY <1>4 DEF TypeOK, GiveUp, Signalled, Terminate
  <2> QED  BY <1>4, <2>1 DEF TypeOK, GiveUp, Signalled, Terminate
<1>5. CASE CheckDying
  BY <1>5 DEF TypeOK, CheckDying, Forget, HardKill
<1>6. CASE CrashFactory
  <2>1. orphans' \in SUBSET Groups /\ factory' \in FactoryStates
    BY <1>6 DEF TypeOK, CrashFactory
  <2> QED  BY <1>6, <2>1 DEF TypeOK, CrashFactory, Forget
<1>7. CASE Tick
  <2>1. now' \in 0 .. MaxTime /\ 0 .. now \subseteq 0 .. now'
    BY <1>7 DEF TypeOK, Tick
  <2>2. children_uptime' \in Seq(0 .. now') /\ starts' \in Seq(0 .. now')
    BY <1>7, <2>1 DEF TypeOK, Tick
  <2> QED  BY <1>7, <2>1, <2>2 DEF TypeOK, Tick
<1>8. CASE UNCHANGED vars
  BY <1>8 DEF TypeOK, vars
<1> QED  BY <1>1, <1>2, <1>3, <1>4, <1>5, <1>6, <1>7, <1>8 DEF Next, FactoryStep

(* Whatever happens to the factory and its groups, every field has its type; *)
(* the list of the last starts is never longer than restart_attempts.        *)
THEOREM TypeCorrect == Spec => []TypeOK
<1>1. Init => TypeOK
  BY RestartAssumption DEF Init, TypeOK, Groups, FactoryStates
<1> QED  BY <1>1, NextType, PTL DEF Spec

-----------------------------------------------------------------------------
(* The lock of the PID file is held by a process that serves, and by the     *)
(* workers it forked, for as long as they live.                              *)
Holds(g) == group[g] = "serving" \/ g \in workers

(* The lock is held on behalf of one group process at most; OneServes alone  *)
(* does not say that the workers of two dead ones cannot coexist.            *)
OneHolds == \A g, h \in Groups : Holds(g) /\ Holds(h) => g = h

(* Whoever runs is the child of a factory at work or was left behind by one  *)
(* that crashed.                                                             *)
AllWatched ==
    /\ factory \in {"off", "gone", "crashed"} => child = 0
    /\ \A g \in Groups : Running(g) => g = child \/ g \in orphans

IInv == TypeOK /\ OneHolds /\ AllWatched

(* No step gives the lock to a second group process. *)
LEMMA HolderKept == TypeOK /\ OneHolds /\ [Next]_vars => OneHolds'
<1> SUFFICES ASSUME TypeOK, OneHolds, [Next]_vars
             PROVE  OneHolds'
  OBVIOUS
<1>1. ASSUME NEW g \in Groups, Register(g)
      PROVE  OneHolds'
  <2>1. \A h \in Groups : Holds(h)' => (LockFree /\ h = g) \/ Holds(h)
    BY <1>1 DEF Register, Holds, TypeOK
  <2>2. LockFree => \A h \in Groups : ~Holds(h)
    BY DEF LockFree, Holds
  <2> QED  BY <2>1, <2>2 DEF OneHolds
<1>2. CASE ~ \E g \in Groups : Register(g)
  <2>1. \A h \in Groups : Holds(h)' => Holds(h)
    BY <1>2 DEF Next, GroupStep, ForkWorkers, WorkersEnd, Crash, Quit, FactoryStep,
       StartFactory, RestartGroup, StartGroup, GiveUp, Signalled, Terminate, CheckDying,
       HardKill, CrashFactory, Tick, vars, Holds, TypeOK
  <2> QED  BY <2>1 DEF OneHolds
<1> QED  BY <1>1, <1>2

(* No step loses sight of a process that runs: the factory lets go of its    *)
(* child when that is dead, killed, or an orphan.                            *)
LEMMA WatchKept == TypeOK /\ AllWatched /\ [Next]_vars => AllWatched'
<1> USE DEF Running
<1> SUFFICES ASSUME TypeOK, AllWatched, [Next]_vars
             PROVE  AllWatched'
  OBVIOUS
<1>1. ASSUME NEW g \in Groups, GroupStep(g)
      PROVE  AllWatched'
  BY <1>1 DEF AllWatched, TypeOK, GroupStep, Register, ForkWorkers, WorkersEnd, Crash, Quit,
     factoryVars
<1>2. CASE StartFactory
  <2>1. /\ \A g \in Groups : g # child' => group'[g] = group[g]
        /\ child = 0 /\ factory' = "running" /\ orphans' = orphans
    BY <1>2 DEF AllWatched, TypeOK, StartFactory, StartGroup
  <2>2. \A g \in Groups : g # 0
    BY RestartAssumption DEF Groups
  <2> QED  BY <2>1, <2>2 DEF AllWatched
<1>3. CASE RestartGroup
  <2>1. /\ \A g \in Groups : g # child' => group'[g] = group[g]
        /\ group[child] = "dead" /\ factory' = "running" /\ orphans' = orphans
    BY <1>3 DEF TypeOK, RestartGroup, StartGroup, Exited
  <2> QED  BY <2>1 DEF AllWatched
<1>4. CASE GiveUp
  BY <1>4 DEF AllWatched, TypeOK, GiveUp, Exited
<1>5. CASE Signalled \/ Terminate
  BY <1>5 DEF AllWatched, Signalled, Terminate
<1>6. CASE CheckDying
  BY <1>6 DEF AllWatched, TypeOK, CheckDying, Forget, HardKill
<1>7. CASE CrashFactory
  BY <1>7 DEF AllWatched, CrashFactory, Forget
<1>8. CASE Tick \/ UNCHANGED vars
  BY <1>8 DEF AllWatched, Tick, vars, factoryVars
<1> QED  BY <1>1, <1>2, <1>3, <1>4, <1>5, <1>6, <1>7, <1>8 DEF Next, FactoryStep

(* The inductive invariant of the daemon and its groups. *)
THEOREM Invariance == Spec => []IInv
<1>1. Init => IInv
  BY RestartAssumption DEF Init, IInv, TypeOK, OneHolds, Holds, AllWatched, Running, Groups,
     FactoryStates
<1>2. IInv /\ [Next]_vars => IInv'
  BY NextType, HolderKept, WatchKept DEF IInv
<1> QED  BY <1>1, <1>2, PTL DEF Spec

(* However many factories and groups crash, are killed and are started       *)
(* again, one group process serves, and not before the last worker of its    *)
(* predecessors has ended.                                                   *)
THEOREM SingleService == Spec => []OneServes
<1>1. IInv => OneServes
  BY DEF IInv, OneHolds, Holds, OneServes
<1> QED  BY <1>1, Invariance, PTL

(* An orderly stop of the factory leaves no group process of its own alive,  *)
(* whichever of its ways out clean_exit takes.                               *)
THEOREM NothingLeft == Spec => []NoGroupLeft
<1>1. IInv => NoGroupLeft
  <2> SUFFICES ASSUME IInv, factory = "gone", NEW g \in Groups \ orphans
               PROVE  ~Running(g)
    BY DEF NoGroupLeft
  <2>1. child = 0 /\ (Running(g) => g = child)
    BY DEF IInv, AllWatched
  <2> QED  BY <2>1, RestartAssumption DEF Groups
<1> QED  BY <1>1, Invariance, PTL

-----------------------------------------------------------------------------
(* The list spawn keeps is the end of the history of starts; the history is  *)
(* in the order of time; starts that are restart_attempts apart in it are    *)
(* restart_interval apart in time.                                           *)
Mirrored ==
    /\ Len(children_uptime) <= Len(starts)
    /\ Len(children_uptime) < restart_attempts => Len(starts) = Len(children_uptime)
    /\ \A i \in 1 .. Len(children_uptime) :
          children_uptime[i] = starts[Len(starts) - Len(children_uptime) + i]

InOrder == \A i, j \in 1 .. Len(starts) : i <= j => starts[i] <= starts[j]

Spaced ==
    \A i \in 1 .. Len(starts) :
       i + restart_attempts <= Len(starts) =>
          starts[i + restart_attempts] - starts[i] >= restart_interval

Recorded == Mirrored /\ InOrder /\ Spaced

(* What a restart adds to the list and to the history. *)
LEMMA RestartRecorded ==
    ASSUME TypeOK, Recorded, RestartGroup
    PROVE  Recorded' /\ starts' = Append(starts, now) /\ now' = now
<1> DEFINE A == restart_attempts
           n == Len(starts)
           m == Len(children_uptime)
           k == Len(LastStarts)
<1>1. /\ starts \in Seq(0 .. now) /\ children_uptime \in Seq(0 .. now)
      /\ n \in Nat /\ m \in Nat /\ m <= A /\ A \in Nat \ {0} /\ now \in Nat
      /\ restart_interval \in Nat
  BY RestartAssumption DEF TypeOK
<1>2. /\ children_uptime' = Append(LastStarts, now) /\ starts' = Append(starts, now)
      /\ now' = now
      /\ m >= A => A # 1 /\ now - children_uptime[1] >= restart_interval
  BY <1>1 DEF RestartGroup, StartGroup, is_crashing_often
<1>3. /\ Len(starts') = n + 1 /\ starts'[n + 1] = now
      /\ \A i \in 1 .. n : starts'[i] = starts[i]
      /\ \A i \in 1 .. n : starts[i] \in 0 .. now
  BY <1>1, <1>2
<1>4. /\ LastStarts \in Seq(0 .. now) /\ k \in Nat /\ k < A
      /\ Len(children_uptime') = k + 1
      /\ children_uptime'[k + 1] = now
      /\ \A i \in 1 .. k : children_uptime'[i] = LastStarts[i]
  <2>1. LastStarts \in Seq(0 .. now) /\ k < A
    BY KeptStarts
  <2> QED  BY <2>1, <1>1, <1>2
<1>5. InOrder'
  <2> SUFFICES ASSUME NEW i \in 1 .. n + 1, NEW j \in 1 .. n + 1, i <= j
               PROVE  starts'[i] <= starts'[j]
    BY <1>3 DEF InOrder
  <2>1. CASE j \in 1 .. n
    <3>1. i \in 1 .. n /\ starts[i] <= starts[j]
      BY <2>1, <1>1 DEF Recorded, InOrder
    <3> QED  BY <3>1, <2>1, <1>3
  <2>2. CASE j = n + 1
    <3>1. starts'[i] \in 0 .. now
      <4>1. CASE i = n + 1
        BY <4>1, <1>1, <1>3
      <4>2. CASE i \in 1 .. n
        BY <4>2, <1>3
      <4> QED  BY <4>1, <4>2, <1>1
    <3> QED  BY <3>1, <2>2, <1>1, <1>3
  <2> QED  BY <2>1, <2>2, <1>1
<1>6. CASE m = A
  <2>1. k = m - 1 /\ \A i \in 1 .. k : LastStarts[i] = children_uptime[i + 1]
    BY <1>1, <1>6 DEF LastStarts
  <2>3. children_uptime[1] = starts[n - A + 1] /\ A <= n
    BY <1>1, <1>6 DEF Recorded, Mirrored
  <2>4. k + 1 = m /\ (n + 1) - (k + 1) = n + 1 - m
    BY <2>1, <1>1, <1>4
  <2>6. ASSUME NEW i \in 1 .. m
        PROVE  children_uptime'[i] = starts'[n + 1 - m + i]
    <3>1. CASE i = k + 1
      <4>1. n + 1 - m + i = n + 1
        BY <3>1, <2>4, <1>1, <1>4
      <4> QED  BY <4>1, <3>1, <1>3, <1>4
    <3>2. CASE i \in 1 .. k
      <4>1. children_uptime'[i] = children_uptime[i + 1] /\ i + 1 \in 1 .. m
        BY <3>2, <2>1, <2>4, <1>1, <1>4
      <4>2. children_uptime[i + 1] = starts[n - m + (i + 1)] /\ m <= n
        BY <4>1, <1>1 DEF Recorded, Mirrored
      <4>3. n - m + (i + 1) \in 1 .. n /\ n - m + (i + 1) = n + 1 - m + i
        BY <4>1, <4>2, <1>1
      <4> QED  BY <4>1, <4>2, <4>3, <1>3
    <3> QED  BY <3>1, <3>2, <2>4, <1>1, <1>4
  <2>2. Mirrored'
    <3>1. Len(children_uptime') = m /\ Len(starts') = n + 1
      BY <2>4, <1>3, <1>4
    <3>2. m <= n + 1 /\ ~(m < A)
      BY <2>3, <1>1, <1>6
    <3>3. \A i \in 1 .. m : children_uptime'[i] = starts'[(n + 1) - m + i]
      BY <2>6
    <3> HIDE DEF n, m, A
    <3> QED  BY <3>1, <3>2, <3>3 DEF Mirrored, A
  <2>5. Spaced'
    <3> SUFFICES ASSUME NEW i \in 1 .. n + 1, i + A <= n + 1
                 PROVE  starts'[i + A] - starts'[i] >= restart_interval
      BY <1>3 DEF Spaced
    <3>1. CASE i + A <= n
      BY <3>1, <1>1, <1>3 DEF Recorded, Spaced
    <3>2. CASE i + A = n + 1
      <4>1. i = n - A + 1 /\ i \in 1 .. n
        BY <3>2, <1>1, <2>3
      <4>2. starts'[i] = children_uptime[1]
        BY <4>1, <2>3, <1>3
      <4>3. starts'[i + A] = now
        BY <3>2, <1>3
      <4> QED  BY <4>2, <4>3, <1>1, <1>2, <1>6
    <3>3. i + A <= n \/ i + A = n + 1
      <4>1. i \in Int /\ n \in Int /\ A \in Int /\ i + A <= n + 1
        BY <1>1
      <4> HIDE DEF n, A
      <4> QED  BY <4>1
    <3> QED  BY <3>1, <3>2, <3>3
  <2> QED  BY <2>2, <1>5, <2>5, <1>2 DEF Recorded
<1>7. CASE m # A
  <2>1. LastStarts = children_uptime /\ n = m
    BY <1>1, <1>7 DEF LastStarts, Recorded, Mirrored
  <2>2. Mirrored'
    BY <2>1, <1>1, <1>3, <1>4 DEF Recorded, Mirrored
  <2>4. Spaced'
    BY <2>1, <1>1, <1>3, <1>7 DEF Spaced
  <2> QED  BY <2>2, <2>4, <1>5, <1>2 DEF Recorded
<1> QED  BY <1>6, <1>7

(* The list and the history start afresh together, and only a restart adds   *)
(* to them after that.                                                       *)
LEMMA RecordKept == TypeOK /\ Recorded /\ [Next]_vars => Recorded'
<1> SUFFICES ASSUME TypeOK, Recorded, [Next]_vars
             PROVE  Recorded'
  OBVIOUS
<1>1. CASE RestartGroup
  BY <1>1, RestartRecorded
<1>2. CASE StartFactory
  <2>1. children_uptime' = <<now>> /\ starts' = <<now>> /\ now \in Nat
    BY <1>2, RestartAssumption DEF StartFactory, StartGroup, TypeOK
  <2>2. Mirrored' /\ InOrder' /\ Spaced'
    BY <2>1, RestartAssumption DEF Mirrored, InOrder, Spaced
  <2> QED  BY <2>2 DEF Recorded
<1>3. CASE CheckDying \/ CrashFactory
  <2>1. children_uptime' = <<>> /\ starts' = <<>>
    BY <1>3 DEF CheckDying, CrashFactory, Forget
  <2> QED  BY <2>1, RestartAssumption DEF Recorded, Mirrored, InOrder, Spaced
<1>4. CASE ~(RestartGroup \/ StartFactory \/ CheckDying \/ CrashFactory)
  <2>1. UNCHANGED <<children_uptime, starts>>
    BY <1>4 DEF Next, GroupStep, Register, ForkWorkers, WorkersEnd, Crash, Quit, FactoryStep,
       factoryVars, GiveUp, Signalled, Terminate, Tick, vars
  <2> QED  BY <2>1 DEF Recorded, Mirrored, InOrder, Spaced
<1> QED  BY <1>1, <1>2, <1>3, <1>4

(* A factory never starts the group more than restart_attempts times in a    *)
(* restart_interval, though the list it decides by is cut at                 *)
(* restart_attempts entries and only the oldest of them is looked at.        *)
THEOREM RestartsBounded == Spec => RestartsLimited
<1> DEFINE Inv == TypeOK /\ Recorded
           Recent == {i \in DOMAIN starts' : now - starts'[i] < restart_interval}
           Few == factory = "running" /\ factory' = "running" /\ started' # started =>
                     Cardinality(Recent) <= restart_attempts
<1>1. Init => Inv
  <2>1. Init => TypeOK
    BY RestartAssumption DEF Init, TypeOK, Groups, FactoryStates
  <2>2. Init => Recorded
    BY RestartAssumption DEF Init, Recorded, Mirrored, InOrder, Spaced
  <2> QED  BY <2>1, <2>2
<1>2. Inv /\ [Next]_vars => Inv'
  BY NextType, RecordKept
<1>3. Inv /\ [Next]_vars => [Few]_vars
  <2> SUFFICES ASSUME Inv, [Next]_vars, factory = "running", started' # started
               PROVE  Cardinality(Recent) <= restart_attempts
    OBVIOUS
  <2>1. RestartGroup
    BY DEF Next, GroupStep, Register, ForkWorkers, WorkersEnd, Crash, Quit, FactoryStep,
       StartFactory, GiveUp, Signalled, Terminate, CheckDying, CrashFactory, Tick, vars,
       factoryVars
  <2>2. Recorded' /\ starts' = Append(starts, now) /\ TypeOK'
    BY <2>1, RestartRecorded, NextType
  <2> DEFINE n == Len(starts')
             A == restart_attempts
  <2>3. /\ n \in Nat \ {0} /\ DOMAIN starts' = 1 .. n /\ starts'[n] = now
        /\ now \in Nat /\ A \in Nat \ {0} /\ restart_interval \in Nat
        /\ \A i \in 1 .. n : starts'[i] \in Nat
    BY <2>2, RestartAssumption DEF TypeOK
  <2>4. \A i \in 1 .. n : i + A <= n => now - starts'[i] >= restart_interval
    <3> SUFFICES ASSUME NEW i \in 1 .. n, i + A <= n
                 PROVE  now - starts'[i] >= restart_interval
      OBVIOUS
    <3>1. starts'[i + A] - starts'[i] >= restart_interval
      BY <2>2 DEF Recorded, Spaced
    <3>2. i + A \in 1 .. n /\ starts'[i + A] <= starts'[n]
      BY <2>2, <2>3 DEF Recorded, InOrder
    <3> QED  BY <3>1, <3>2, <2>3
  <2>5. Recent \subseteq (n - A + 1) .. n
    BY <2>3, <2>4
  <2>6. IsFiniteSet((n - A + 1) .. n) /\ Cardinality((n - A + 1) .. n) = A
    <3>1. (n - A + 1) \in Int /\ n \in Int /\ n - (n - A + 1) + 1 = A /\ n - A + 1 <= n
      BY <2>3
    <3> HIDE DEF n, A
    <3> QED  BY <3>1, FS_Interval
  <2>7. Cardinality(Recent) <= Cardinality((n - A + 1) .. n)
    BY <2>5, <2>6, FS_Subset
  <2> QED  BY <2>6, <2>7
<1> QED  BY <1>1, <1>2, <1>3, PTL DEF Spec, RestartsLimited

-----------------------------------------------------------------------------
(* The lock of a PID file. *)

(* Every step keeps the types of the file, its lock and the processes. *)
LEMMA NextLockType ==
    ASSUME LockTypeOK, [LockNext]_lockVars
    PROVE  LockTypeOK'
<1> USE DEF LockTypeOK, Positions, Goes, LockWithout
<1>1. ASSUME NEW p \in Daemons,
             LookForFile(p) \/ CreateFile(p) \/ TakeLock(p) \/ Refuse(p)
      PROVE  LockTypeOK'
  BY <1>1 DEF LookForFile, CreateFile, TakeLock, Refuse
<1>2. ASSUME NEW p \in Daemons, Truncate(p) \/ WritePid(p) \/ Fork(p) \/ ChildrenExit(p)
      PROVE  LockTypeOK'
  BY <1>2 DEF Truncate, WritePid, Fork, ChildrenExit
<1>3. ASSUME NEW p \in Daemons, Clear(p) \/ Close(p) \/ Die(p)
      PROVE  LockTypeOK'
  BY <1>3 DEF Clear, Close, Die, Alive
<1>4. ASSUME NEW o \in Observers, Probe(o) \/ EndProbe(o) \/ ProbeLocked(o)
      PROVE  LockTypeOK'
  BY <1>4 DEF Probe, EndProbe, ProbeLocked
<1>5. ASSUME NEW o \in Observers, ReadPid(o) \/ CheckPid(o)
      PROVE  LockTypeOK'
  BY <1>5 DEF ReadPid, CheckPid
<1>6. CASE UNCHANGED lockVars
  BY <1>6 DEF lockVars
<1> QED BY <1>1, <1>2, <1>3, <1>4, <1>5, <1>6 DEF LockNext

-----------------------------------------------------------------------------
(* The inductive invariant.  The lock is held for whoever is at work or is   *)
(* probing; a PID in the file was written by a daemon that has not cleared   *)
(* it; a PID that was read belongs to a daemon that got through register.    *)
LockIsHeld ==
    /\ \A p \in Daemons : AtWork(p) => lock = p
    /\ \A o \in Observers : look[o] = "probing" => lock = o

WrittenPid == content # NoPid => pc[content] \in {"registered", "dead"}

ReadPids ==
    \A o \in Observers :
       mypid[o] # NoPid => pc[mypid[o]] \in {"registered", "cleared", "left", "dead"}

(* A registered process, or a child it left, keeps holding the lock. *)
LEMMA LockKept ==
    ASSUME LockTypeOK, LockIsHeld, [LockNext]_lockVars
    PROVE  LockIsHeld'
<1> USE DEF LockTypeOK, LockIsHeld, AtWork, HasFile, Goes, LockWithout
<1>1. ASSUME NEW p \in Daemons, LookForFile(p) \/ CreateFile(p) \/ TakeLock(p) \/ Refuse(p)
      PROVE  LockIsHeld'
  BY <1>1, NamesAssumption DEF LookForFile, CreateFile, TakeLock, Refuse
<1>2. ASSUME NEW p \in Daemons, Truncate(p) \/ WritePid(p) \/ Fork(p)
      PROVE  LockIsHeld'
  BY <1>2, NamesAssumption DEF Truncate, WritePid, Fork
<1>3. ASSUME NEW p \in Daemons, ChildrenExit(p) \/ Clear(p) PROVE LockIsHeld'
  BY <1>3, NamesAssumption DEF ChildrenExit, Clear
<1>4. ASSUME NEW p \in Daemons, Close(p) PROVE LockIsHeld'
  BY <1>4, NamesAssumption DEF Close
<1>5. ASSUME NEW p \in Daemons, Die(p) PROVE LockIsHeld'
  BY <1>5, NamesAssumption DEF Die, Alive
<1>6. ASSUME NEW o \in Observers, Probe(o) \/ EndProbe(o) PROVE LockIsHeld'
  BY <1>6, NamesAssumption DEF Probe, EndProbe
<1>7. ASSUME NEW o \in Observers, ProbeLocked(o) \/ ReadPid(o) \/ CheckPid(o)
      PROVE  LockIsHeld'
  BY <1>7, NamesAssumption DEF ProbeLocked, ReadPid, CheckPid
<1>8. CASE UNCHANGED lockVars
  BY <1>8, NamesAssumption DEF lockVars
<1> QED BY <1>1, <1>2, <1>3, <1>4, <1>5, <1>6, <1>7, <1>8 DEF LockNext

(* No step writes or reads a PID that nobody registered. *)
LEMMA PidsKept ==
    ASSUME LockTypeOK, WrittenPid, ReadPids, [LockNext]_lockVars
    PROVE  WrittenPid' /\ ReadPids'
<1> USE DEF LockTypeOK, WrittenPid, ReadPids, Goes
<1>1. ASSUME NEW p \in Daemons, LookForFile(p) \/ CreateFile(p) \/ TakeLock(p) \/ Refuse(p)
      PROVE  WrittenPid' /\ ReadPids'
  BY <1>1, NamesAssumption DEF LookForFile, CreateFile, TakeLock, Refuse
<1>2. ASSUME NEW p \in Daemons, Truncate(p) \/ WritePid(p) \/ Fork(p) \/ ChildrenExit(p)
      PROVE  WrittenPid' /\ ReadPids'
  BY <1>2, NamesAssumption DEF Truncate, WritePid, Fork, ChildrenExit
<1>3. ASSUME NEW p \in Daemons, Clear(p) PROVE WrittenPid' /\ ReadPids'
  BY <1>3, NamesAssumption DEF Clear
<1>4. ASSUME NEW p \in Daemons, Close(p) \/ Die(p) PROVE WrittenPid' /\ ReadPids'
  BY <1>4, NamesAssumption DEF Close, Die, Alive
<1>5. ASSUME NEW o \in Observers,
             Probe(o) \/ EndProbe(o) \/ ProbeLocked(o) \/ ReadPid(o) \/ CheckPid(o)
      PROVE  WrittenPid' /\ ReadPids'
  BY <1>5, NamesAssumption DEF Probe, EndProbe, ProbeLocked, ReadPid, CheckPid
<1>6. CASE UNCHANGED lockVars
  BY <1>6 DEF lockVars
<1> QED BY <1>1, <1>2, <1>3, <1>4, <1>5, <1>6 DEF LockNext

LockIInv == LockTypeOK /\ LockIsHeld /\ WrittenPid /\ ReadPids

(* The state of the file, the lock, the daemons and the observers is well    *)
(* formed at every moment; a PID or a lock needs a file.                     *)
THEOREM LockTypeCorrect == LockSpec => []LockTypeOK
<1>1. LockInit => LockTypeOK
  BY DEF LockInit, LockTypeOK, Positions
<1>2. LockTypeOK /\ [LockNext]_lockVars => LockTypeOK'
  BY NextLockType
<1> QED BY <1>1, <1>2, PTL DEF LockSpec

(* The inductive invariant.                                                  *)
THEOREM LockInvariance == LockSpec => []LockIInv
<1>1. LockInit => LockIsHeld /\ WrittenPid /\ ReadPids
  BY DEF LockInit, LockIsHeld, AtWork, HasFile, WrittenPid, ReadPids
<1>2. LockTypeOK /\ LockIsHeld /\ WrittenPid /\ ReadPids /\ [LockNext]_lockVars
         => LockIsHeld' /\ WrittenPid' /\ ReadPids'
  BY LockKept, PidsKept
<1> QED BY <1>1, <1>2, LockTypeCorrect, PTL DEF LockSpec, LockIInv

(* One daemon is at work at a time: registering excludes every other daemon, *)
(* and the forked children of one that is gone.                              *)
THEOREM MutualExclusion == LockSpec => []OneAtWork
<1>1. LockIInv => OneAtWork
  BY DEF LockIInv, LockIsHeld, OneAtWork
<1> QED BY <1>1, LockInvariance, PTL

(* The PID in the file is never that of a living process that gave it up.    *)
THEOREM PidOwned == LockSpec => []PidIsOwners
<1>1. LockIInv => PidIsOwners
  BY NamesAssumption DEF LockIInv, LockTypeOK, WrittenPid, PidIsOwners, Alive
<1> QED BY <1>1, LockInvariance, PTL

(* load_registered reports only a process that is alive and did register.    *)
THEOREM RegistrantReported == LockSpec => ReportsARegistrant
<1>1. ASSUME LockIInv, LockNext, NEW o \in Observers,
             look[o] = "read", look'[o] = "idle", mypid'[o] # NoPid
      PROVE  pc[mypid'[o]] \in {"registered", "cleared", "left"}
  <2>1. \A p \in Daemons :
           ~(LookForFile(p) \/ CreateFile(p) \/ TakeLock(p) \/ Refuse(p) \/ Truncate(p)
             \/ WritePid(p) \/ Fork(p) \/ ChildrenExit(p) \/ Clear(p) \/ Close(p) \/ Die(p))
    BY <1>1 DEF LookForFile, CreateFile, TakeLock, Refuse, Truncate, WritePid, Fork,
                ChildrenExit, Clear, Close, Die
  <2>2. PICK i \in Observers :
           Probe(i) \/ EndProbe(i) \/ ProbeLocked(i) \/ ReadPid(i) \/ CheckPid(i)
    BY <1>1, <2>1 DEF LockNext
  <2>3. i = o /\ CheckPid(o)
    BY <1>1, <2>2 DEF LockIInv, LockTypeOK, Probe, EndProbe, ProbeLocked, ReadPid, CheckPid
  <2> QED BY <1>1, <2>3, NamesAssumption DEF LockIInv, LockTypeOK, ReadPids, CheckPid, Alive
<1>2. LockIInv /\ [LockNext]_lockVars =>
         [\A o \in Observers :
             look[o] = "read" /\ look'[o] = "idle" /\ mypid'[o] # NoPid =>
                pc[mypid'[o]] \in {"registered", "cleared", "left"}]_lockVars
  BY <1>1
<1> QED BY <1>2, LockInvariance, PTL DEF LockSpec, ReportsARegistrant

-----------------------------------------------------------------------------
(* The lock as the factory sees it: its group processes have it while they   *)
(* serve, and their workers for as long as they live.                        *)
GroupLock ==
    INSTANCE SharedLock WITH Processes <- Groups,
                             own <- {g \in Groups : group[g] = "serving"}, kin <- workers

(* The lock as pidSupport gives it: a daemon has it as long as it has the    *)
(* file open that register locked, and its children after it.                *)
FileLock ==
    INSTANCE SharedLock WITH Processes <- Daemons,
                             own <- {p \in Daemons : HasFile(p)},
                             kin <- {p \in Daemons : forked[p]}

(* A process that was not started yet does not exist. *)
Unborn == \A g \in Groups : g > started => group[g] = "none"

LEMMA UnbornAlways == Spec => []Unborn
<1>1. Init => Unborn
  BY DEF Init, Unborn
<1>2. TypeOK /\ Unborn /\ [Next]_vars => Unborn'
  <2> SUFFICES ASSUME TypeOK, Unborn, [Next]_vars
               PROVE  Unborn'
    OBVIOUS
  <2> USE RestartAssumption DEF TypeOK, Unborn, Groups
  <2>1. ASSUME NEW g \in Groups, GroupStep(g)
        PROVE  Unborn'
    BY <2>1 DEF GroupStep, Register, ForkWorkers, WorkersEnd, Crash, Quit, Running, factoryVars
  <2>2. CASE StartFactory \/ RestartGroup
    BY <2>2 DEF StartFactory, RestartGroup, StartGroup
  <2>3. CASE CheckDying
    BY <2>3 DEF CheckDying, HardKill, Running
  <2>4. CASE GiveUp \/ Signalled \/ Terminate \/ CrashFactory \/ Tick \/ UNCHANGED vars
    BY <2>4 DEF GiveUp, Signalled, Terminate, CrashFactory, Tick, vars, factoryVars
  <2> QED  BY <2>1, <2>2, <2>3, <2>4 DEF Next, FactoryStep
<1> QED  BY <1>1, <1>2, TypeCorrect, PTL DEF Spec

(* The factory and its groups take the lock for no more than it promises     *)
(* (glideFactoryEntryGroup.py: main, pid_obj.register).                      *)
THEOREM GroupsRelyOnLock == Spec => GroupLock!Spec
<1> DEFINE Own == {g \in Groups : group[g] = "serving"}
<1>1. Init => GroupLock!Init
  BY DEF Init, GroupLock!Init
<1>2. TypeOK /\ Unborn /\ [Next]_vars => [GroupLock!Next]_(GroupLock!vars)
  <2> SUFFICES ASSUME TypeOK, Unborn, [Next]_vars
               PROVE  GroupLock!Next \/ (Own' = Own /\ workers' = workers)
    BY DEF GroupLock!vars
  <2>1. ASSUME NEW g \in Groups, Register(g)
        PROVE  GroupLock!Next \/ (Own' = Own /\ workers' = workers)
    <3>1. CASE LockFree
      <4>1. Own = {} /\ workers = {} /\ Own' = {g} /\ workers' = workers
        BY <2>1, <3>1 DEF Register, LockFree, TypeOK
      <4> QED  BY <4>1 DEF GroupLock!Next, GroupLock!Acquire
    <3>2. CASE ~LockFree
      BY <2>1, <3>2 DEF Register, TypeOK
    <3> QED  BY <3>1, <3>2
  <2>2. ASSUME NEW g \in Groups, ForkWorkers(g)
        PROVE  GroupLock!Next
    BY <2>2 DEF ForkWorkers, GroupLock!Next, GroupLock!Fork
  <2>3. ASSUME NEW g \in Groups, WorkersEnd(g)
        PROVE  GroupLock!Next
    BY <2>3 DEF WorkersEnd, GroupLock!Next, GroupLock!ChildrenEnd
  <2>4. ASSUME NEW g \in Groups, group' = [group EXCEPT ![g] = "dead"], workers' = workers
        PROVE  GroupLock!Next \/ (Own' = Own /\ workers' = workers)
    <3>1. CASE group[g] = "serving"
      <4>1. g \in Own /\ Own' = Own \ {g}
        BY <2>4, <3>1 DEF TypeOK
      <4> QED  BY <2>4, <4>1 DEF GroupLock!Next, GroupLock!Release
    <3>2. CASE group[g] # "serving"
      <4>1. Own' = Own
        BY <2>4, <3>2 DEF TypeOK
      <4> QED  BY <2>4, <4>1
    <3> QED  BY <3>1, <3>2
  <2>5. ASSUME NEW g \in Groups, Crash(g) \/ Quit(g)
        PROVE  GroupLock!Next \/ (Own' = Own /\ workers' = workers)
    BY <2>5, <2>4 DEF Crash, Quit
  <2>6. CASE StartFactory \/ RestartGroup
    <3>1. /\ started' \in Groups /\ started' > started
          /\ group' = [group EXCEPT ![started'] = "starting"]
      BY <2>6, RestartAssumption DEF StartFactory, RestartGroup, StartGroup, TypeOK, Groups
    <3>2. Own' = Own
      BY <3>1 DEF Unborn, TypeOK
    <3> QED  BY <2>6, <3>2 DEF StartFactory, RestartGroup
  <2>7. CASE CheckDying
    <3>1. CASE child # 0 /\ Running(child)
      <4>1. child \in Groups
        BY <3>1, RestartAssumption DEF TypeOK, Groups
      <4>2. group' = [group EXCEPT ![child] = "dead"] /\ workers' = workers
        BY <2>7, <3>1 DEF CheckDying, HardKill
      <4> QED  BY <4>1, <4>2, <2>4
    <3>2. CASE ~(child # 0 /\ Running(child))
      BY <2>7, <3>2 DEF CheckDying
    <3> QED  BY <3>1, <3>2
  <2>8. CASE GiveUp \/ Signalled \/ Terminate \/ CrashFactory \/ Tick \/ UNCHANGED vars
    BY <2>8 DEF GiveUp, Signalled, Terminate, CrashFactory, Tick, vars
  <2> QED
    BY <2>1, <2>2, <2>3, <2>5, <2>6, <2>7, <2>8 DEF Next, GroupStep, FactoryStep
<1> QED  BY <1>1, <1>2, TypeCorrect, UnbornAlways, PTL DEF Spec, GroupLock!Spec

(* And pidSupport keeps that promise: no daemon gets the lock while another  *)
(* one, or a child that one has left behind, still has it (register, and the *)
(* flock that forked processes share).                                       *)
THEOREM FilesGiveLock == LockSpec => FileLock!Spec
<1> DEFINE Own == {p \in Daemons : HasFile(p)}
           Kin == {p \in Daemons : forked[p]}
<1>1. LockInit => FileLock!Init
  BY DEF LockInit, HasFile, FileLock!Init
<1>2. LockIInv /\ [LockNext]_lockVars => [FileLock!Next]_(FileLock!vars)
  <2> SUFFICES ASSUME LockIInv, [LockNext]_lockVars
               PROVE  FileLock!Next \/ (Own' = Own /\ Kin' = Kin)
    BY DEF FileLock!vars
  <2> USE DEF LockIInv, LockTypeOK, HasFile, Goes
  <2>1. ASSUME NEW p \in Daemons, TakeLock(p)
        PROVE  FileLock!Next
    <3>1. Own = {} /\ Kin = {}
      BY <2>1, NamesAssumption DEF TakeLock, LockIsHeld, AtWork
    <3>2. Own' = {p} /\ Kin' = Kin
      BY <2>1, <3>1 DEF TakeLock
    <3> QED  BY <3>1, <3>2 DEF FileLock!Next, FileLock!Acquire
  <2>2. ASSUME NEW p \in Daemons, Fork(p)
        PROVE  FileLock!Next
    <3>1. p \in Own /\ Kin' = Kin \cup {p} /\ Own' = Own
      BY <2>2 DEF Fork
    <3> QED  BY <3>1 DEF FileLock!Next, FileLock!Fork
  <2>3. ASSUME NEW p \in Daemons, ChildrenExit(p)
        PROVE  FileLock!Next
    <3>1. p \in Kin /\ Kin' = Kin \ {p} /\ Own' = Own
      BY <2>3 DEF ChildrenExit
    <3> QED  BY <3>1 DEF FileLock!Next, FileLock!ChildrenEnd
  <2>4. ASSUME NEW p \in Daemons, Close(p) \/ Die(p)
        PROVE  FileLock!Next \/ (Own' = Own /\ Kin' = Kin)
    <3>1. Own' = Own \ {p} /\ Kin' = Kin
      BY <2>4 DEF Close, Die, Alive
    <3> QED  BY <3>1 DEF FileLock!Next, FileLock!Release
  <2>5. ASSUME NEW p \in Daemons,
               LookForFile(p) \/ CreateFile(p) \/ Refuse(p) \/ Truncate(p) \/ WritePid(p) \/ Clear(p)
        PROVE  Own' = Own /\ Kin' = Kin
    BY <2>5 DEF LookForFile, CreateFile, Refuse, Truncate, WritePid, Clear
  <2>6. ASSUME NEW o \in Observers,
               Probe(o) \/ EndProbe(o) \/ ProbeLocked(o) \/ ReadPid(o) \/ CheckPid(o)
        PROVE  Own' = Own /\ Kin' = Kin
    BY <2>6 DEF Probe, EndProbe, ProbeLocked, ReadPid, CheckPid
  <2>7. CASE UNCHANGED lockVars
    BY <2>7 DEF lockVars
  <2> QED  BY <2>1, <2>2, <2>3, <2>4, <2>5, <2>6, <2>7 DEF LockNext
<1> QED  BY <1>1, <1>2, LockInvariance, PTL DEF LockSpec, FileLock!Spec
==============================================================================
