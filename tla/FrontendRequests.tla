--------------------------- MODULE FrontendRequests ---------------------------
(***************************************************************************)
(* The loop a frontend group and a factory close around the users' jobs.     *)
(* The group counts jobs and glideins (frontend/glideinFrontendElement.py:   *)
(* iterate_one), asks each entry for glideins or for their removal, and the  *)
(* factory (factory/glideFactoryLib.py) submits and removes glideins, which  *)
(* boot at the site, join the pool, run jobs and leave.                      *)
(*                                                                         *)
(* What the group publishes rests on queries made earlier in the iteration;  *)
(* any of them may have failed without the group noticing.                   *)
(***************************************************************************)
EXTENDS JobMatching

CONSTANTS
    Jobs,             \* the job ids there will ever be
    KindAt,           \* the kind of each job
    max_running, max_vms_idle, curb_vms_idle,       \* per entry
    total_max_glideins, total_curb_glideins,        \* per group, frontend, pool
    total_max_vms_idle, total_curb_vms_idle,
    max_idle, reserve_idle, min_running,
    ramp_up_attenuation, fraction_percent,
    QuietIterations, EmptyIterations,               \* 5 and 10 in the code
    removal_type, removal_wait, removal_requests_tracking, removal_margin,
    max_submits,      \* glideins the factory submits per call
    MaxFailures       \* bound: failures of any kind in a behaviour

Lower(a, b)  == IF a < b THEN a ELSE b
Higher(a, b) == IF a > b THEN a ELSE b

Scopes == {"group", "frontend", "global"}

RemoveExcess == {"NO", "WAIT", "IDLE", "ALL"}

RequestType == [idle : Nat, max : Nat, remove : RemoveExcess, margin : Nat]

ASSUME JobsAssumption == Jobs \subseteq JobId /\ IsFiniteSet(Jobs) /\ KindAt \in [Jobs -> Kinds]
ASSUME LimitsAssumption ==
    /\ {total_max_glideins, total_curb_glideins, total_max_vms_idle, total_curb_vms_idle}
          \subseteq [Scopes -> Nat]
    /\ {max_running, max_vms_idle, curb_vms_idle, max_idle, reserve_idle, min_running,
        fraction_percent, QuietIterations, EmptyIterations, removal_wait, removal_margin,
        max_submits, MaxFailures} \subseteq Nat
    /\ ramp_up_attenuation \in Nat \ {0}
    /\ removal_type \in RemoveExcess \cup {"DISABLE"}
    /\ removal_requests_tracking \in BOOLEAN

VARIABLES
    job,        \* job -> new, idle, running or done
    at,         \* job -> the entry whose glidein runs it, or 0
    queued,     \* entry -> glideins waiting at the factory or the site
    booting,    \* entry -> glideins started at the site, not in the pool yet
    free,       \* entry -> unclaimed glideins in the pool
    request,    \* entry -> the request the factory has
    history,    \* entry -> the counters in the history file
    pending,    \* <<>>, or what the iteration under way is about to publish
    failures    \* failures so far

sites == <<job, at, queued, booting, free>>
vars  == <<job, at, queued, booting, free, request, history, pending, failures>>

Counters == [idle0 : Nat, glideempty : Nat, glidetotal0 : Nat]

TypeOK ==
    /\ job \in [Jobs -> {"new", "idle", "running", "done"}]
    /\ at \in [Jobs -> Entries \cup {0}]
    /\ \A j \in Jobs : (job[j] = "running") <=> (at[j] # 0)
    /\ {queued, booting, free} \subseteq [Entries -> Nat]
    /\ request \in [Entries -> RequestType]
    /\ history \in [Entries -> Counters]
    /\ pending = <<>> \/ pending[1] \in [request : [Entries -> RequestType],
                                         history : [Entries -> Counters]]
    /\ failures \in 0..MaxFailures

NoRequest == [idle |-> 0, max |-> 0, remove |-> "NO", margin |-> 0]

Init ==
    /\ job = [j \in Jobs |-> "new"] /\ at = [j \in Jobs |-> 0]
    /\ queued = [e \in Entries |-> 0] /\ booting = queued /\ free = queued
    /\ request = [e \in Entries |-> NoRequest]
    /\ history = [e \in Entries |-> [idle0 |-> 0, glideempty |-> 0, glidetotal0 |-> 0]]
    /\ pending = <<>>
    /\ failures = 0

Busy(e) == {j \in Jobs : at[j] = e}

-----------------------------------------------------------------------------
(***************************************************************************)
(* What an iteration sees, with some faults.  A schedd's query failed, or    *)
(* identify_bad_schedds blacklists it; the query for the glideins of one of  *)
(* the scopes failed, where without the group's there are no others; an      *)
(* entry (or the frontend, for all of them) is in downtime.  A failed query  *)
(* counts nothing.                                                           *)
(* old: the jobs idle for ten minutes, of no interest without a reserve.     *)
(***************************************************************************)
Faults == ({"unanswered", "blacklisted"} \X (0..NrSchedds - 1))
          \cup ({"downtime"} \X Entries) \cup ({"uncounted"} \X Scopes)

FewFaults == UNION {kSubset(n, Faults) : n \in 0..Lower(MaxFailures - failures, Cardinality(Faults))}

MatchOf == [S \in SUBSET Jobs |-> countMatch([j \in S |-> KindAt[j]])]

Snapshot(faults, old) ==
    LET seen    == {j \in Jobs : <<"unanswered", j.schedd>> \notin faults}
        idle    == {j \in seen : job[j] = "idle" /\ <<"blacklisted", j.schedd>> \notin faults}
        pool    == <<"uncounted", "group">> \notin faults
        counted == {s \in Scopes : pool /\ <<"uncounted", s>> \notin faults}
        status  == [e \in Entries |->
                       [Total |-> IF pool THEN free[e] + Cardinality(Busy(e)) ELSE 0,
                        Idle  |-> IF pool THEN free[e] ELSE 0]]
        total   == Total([e \in Entries |-> status[e].Total])
        unused  == Total([e \in Entries |-> status[e].Idle])
    IN  [Idle    |-> MatchOf[idle],
         OldIdle |-> MatchOf[idle \cap old],
         status  |-> status,
         \* appendRealRunning: without its slot a job runs nowhere
         real    |-> [e \in Entries |-> IF pool THEN Cardinality(Busy(e) \cap seen) ELSE 0],
         Total   |-> [s \in Scopes |-> IF s \in counted THEN total ELSE 0],
         Unused  |-> [s \in Scopes |-> IF s \in counted THEN unused ELSE 0]]

(* Jobs an entry should have cores for; min_running is a floor. *)
WantedCores(s, e) == Higher(s.Idle.prop_mc[e], min_running)

AtLimit(s, e) ==
    \/ s.status[e].Total >= max_running
    \/ s.status[e].Idle >= max_vms_idle
    \/ \E l \in Scopes : \/ s.Total[l] >= total_max_glideins[l]
                         \/ s.Unused[l] >= total_max_vms_idle[l]

RoomLeft(s, e) ==
    Min({max_running - s.status[e].Total}
        \cup {total_max_glideins[l] - s.Total[l] : l \in Scopes}
        \cup {total_max_vms_idle[l] - s.Unused[l] : l \in Scopes})

(* How many curbs are reached: the request is halved for each. *)
CurbsReached(s, e) ==
      (IF s.status[e].Idle >= curb_vms_idle THEN 1 ELSE 0)
    + Cardinality({l \in Scopes : s.Total[l] >= total_curb_glideins[l]})
    + Cardinality({l \in Scopes : s.Unused[l] >= total_curb_vms_idle[l]})

(* Mutant of compute_glidein_min_idle: the request may be rounded to nothing. *)
compute_glidein_min_idleRounded(s, e) ==
    LET effective_idle == Higher(WantedCores(s, e) - s.status[e].Idle, 0)
    IN  IF AtLimit(s, e) \/ effective_idle = 0 THEN 0
        ELSE Lower(Lower(effective_idle, RoomLeft(s, e)) \div ramp_up_attenuation, max_idle)
             \div (2 ^ CurbsReached(s, e))

(* Mutant of compute_glidein_min_idle: idle glideins without jobs count      *)
(* below nothing.                                                            *)
compute_glidein_min_idleNegative(s, e) ==
    IF AtLimit(s, e) THEN 0
    ELSE Lower(WantedCores(s, e) - s.status[e].Idle, RoomLeft(s, e))

(* Mutant of compute_glidein_min_idle: an entry without jobs is asked too. *)
compute_glidein_min_idleAlways(s, e) ==
    IF AtLimit(s, e) THEN 0
    ELSE Higher(1, Lower(WantedCores(s, e) - s.status[e].Idle, RoomLeft(s, e)))

compute_glidein_min_idle(s, e) ==
    LET effective_idle    == Higher(WantedCores(s, e) - s.status[e].Idle, 0)
        effective_oldidle == Higher(s.OldIdle.prop_mc[e] - s.status[e].Idle, 0)
        ramped            == Lower(effective_idle, RoomLeft(s, e)) \div ramp_up_attenuation
        reserve           == Lower(effective_oldidle \div 3, reserve_idle)
    IN  IF AtLimit(s, e) \/ effective_idle = 0 THEN 0
        ELSE Higher(1, Lower(ramped + reserve, max_idle) \div (2 ^ CurbsReached(s, e)))

(* Mutant of compute_glidein_max_run: the slots of the entry are counted on  *)
(* top of the idle jobs, as if none of them could take one.                  *)
compute_glidein_max_runSlots(s, e) ==
    ((WantedCores(s, e) + s.status[e].Total) * fraction_percent) \div 100 + 1

compute_glidein_max_run(s, e) ==
    IF WantedCores(s, e) > 0
    THEN ((Higher(WantedCores(s, e) - s.status[e].Idle, 0) + s.real[e]) * fraction_percent)
            \div 100 + 1
    ELSE s.real[e]

(***************************************************************************)
(* choose_remove_excess_type: for how many iterations in a row the entry had *)
(* no idle job, no glidein in use, no glidein at all.                        *)
(***************************************************************************)
CounterCap == Max({QuietIterations, EmptyIterations, removal_wait}) + 1

Count(condition, counter) == IF condition THEN Lower(counter + 1, CounterCap) ELSE 0

Counted(s, e) ==
    [idle0       |-> Count(s.Idle.count[e] = 0, history[e].idle0),
     glideempty  |-> Count(s.status[e].Idle >= s.status[e].Total, history[e].glideempty),
     glidetotal0 |-> Count(s.status[e].Total = 0, history[e].glidetotal0)]

choose_remove_excess_type(h) ==
    CASE h.idle0 <= QuietIterations      -> "NO"
      [] h.glidetotal0 > EmptyIterations /\ h.idle0 > QuietIterations -> "ALL"
      [] h.glidetotal0 <= EmptyIterations /\ h.glideempty > EmptyIterations
         /\ h.idle0 > QuietIterations -> "IDLE"
      [] OTHER -> "WAIT"

check_removal_type_config(h) ==
    IF removal_type \in {"NO", "DISABLE"} \/ removal_requests_tracking
       \/ h.idle0 > removal_wait
    THEN removal_type ELSE "NO"

Level == "NO" :> 0 @@ "WAIT" :> 1 @@ "IDLE" :> 2 @@ "ALL" :> 3

decide_removal_type(h) ==
    LET auto   == choose_remove_excess_type(h)
        config == check_removal_type_config(h)
    IN  CASE config = "DISABLE" -> <<"NO", 0>>
          [] config # "DISABLE" /\ Level[auto] > Level[config] -> <<auto, 0>>
          [] OTHER -> <<config, IF removal_requests_tracking THEN removal_margin ELSE 0>>

(* The request for entry e; in downtime nothing is asked for. *)
RequestFor(s, e, down) ==
    LET removal == decide_removal_type(Counted(s, e))
    IN  [idle   |-> IF down THEN 0 ELSE compute_glidein_min_idle(s, e),
         max    |-> IF down THEN 0 ELSE compute_glidein_max_run(s, e),
         remove |-> removal[1],
         margin |-> removal[2]]

-----------------------------------------------------------------------------
(* The group. *)

(* Queries, matching and the computation of the requests. *)
Observe(faults, old) ==
    LET s == Snapshot(faults, old)
    IN  /\ pending = <<>>
        /\ pending' = <<[request |-> [e \in Entries |->
                                        RequestFor(s, e, <<"downtime", e>> \in faults)],
                         history |-> [e \in Entries |-> Counted(s, e)]]>>
        /\ failures' = failures + Cardinality(faults)
        /\ UNCHANGED <<sites, request, history>>

(* The requests go out and the history is saved.  The ads may get lost, and  *)
(* the process may die before it saves the history or before both.           *)
Publish(delivered, saved) ==
    /\ pending # <<>>
    /\ failures' = failures + (IF delivered /\ saved THEN 0 ELSE 1)
    /\ failures' <= MaxFailures
    /\ request' = IF delivered THEN pending[1].request ELSE request
    /\ history' = IF saved THEN pending[1].history ELSE history
    /\ pending' = <<>>
    /\ UNCHANGED sites

Iterate ==
    \/ \E faults \in FewFaults :
       \E old \in IF reserve_idle = 0 THEN {{}} ELSE SUBSET {j \in Jobs : job[j] = "idle"} :
          Observe(faults, old)
    \/ \E delivered, saved \in BOOLEAN : Publish(delivered, saved)

-----------------------------------------------------------------------------
(* The factory. *)

Running(e) == booting[e] + free[e] + Cardinality(Busy(e))

NrToSubmit(e) ==
    Lower(Lower(request[e].idle - queued[e],
                request[e].max - queued[e] - Running(e)), max_submits)

keepIdleGlideins(e) ==
    /\ NrToSubmit(e) > 0
    /\ queued' = [queued EXCEPT ![e] = @ + NrToSubmit(e)]
    /\ UNCHANGED <<job, at, booting, free, request, history, pending, failures>>

ManyIdle(e) == request[e].remove # "NO" /\ queued[e] > request[e].idle + request[e].margin

ManyRunning(e) ==
    request[e].remove = "ALL" /\ Running(e) + queued[e] > request[e].max + request[e].margin

RemoveNr(e) ==
    IF ManyRunning(e) /\ Running(e) + request[e].idle > request[e].max
    THEN Running(e) + queued[e] - request[e].max - request[e].margin
    ELSE queued[e] - request[e].idle - request[e].margin

(* Glideins not at the site yet go first, those only the factory knows of    *)
(* (any number of the queued ones) before those in the site's queue.         *)
RemoveQueued(e) ==
    /\ \E unsubmitted \in 0..queued[e] :
          LET list == IF unsubmitted > 0 THEN unsubmitted
                      ELSE IF request[e].remove # "WAIT" THEN queued[e] ELSE 0
          IN  /\ list > 0
              /\ queued' = [queued EXCEPT ![e] = @ - Lower(list, RemoveNr(e))]
    /\ UNCHANGED <<job, at, booting, free>>

(* Running glideins are removed whatever they are doing; their jobs go back  *)
(* to the schedd's queue.                                                    *)
RemoveRunning(e) ==
    /\ queued[e] = 0 /\ request[e].remove = "ALL"
    /\ \E b \in 0..booting[e], f \in 0..free[e], killed \in SUBSET Busy(e) :
          /\ b + f + Cardinality(killed) = Lower(RemoveNr(e), Running(e))
          /\ booting' = [booting EXCEPT ![e] = @ - b]
          /\ free'    = [free EXCEPT ![e] = @ - f]
          /\ job'     = [j \in Jobs |-> IF j \in killed THEN "idle" ELSE job[j]]
          /\ at'      = [j \in Jobs |-> IF j \in killed THEN 0 ELSE at[j]]
    /\ UNCHANGED queued

clean_glidein_queue(e) ==
    /\ NrToSubmit(e) <= 0
    /\ ManyIdle(e) \/ ManyRunning(e)
    /\ RemoveQueued(e) \/ RemoveRunning(e)
    /\ UNCHANGED <<request, history, pending, failures>>

FactoryWork(e) == keepIdleGlideins(e) \/ clean_glidein_queue(e)

-----------------------------------------------------------------------------
(* The sites, the pool and the users. *)

Boot(e) ==
    /\ queued[e] > 0
    /\ queued'  = [queued EXCEPT ![e] = @ - 1]
    /\ booting' = [booting EXCEPT ![e] = @ + 1]
    /\ UNCHANGED <<job, at, free, request, history, pending, failures>>

Register(e) ==
    /\ booting[e] > 0
    /\ booting' = [booting EXCEPT ![e] = @ - 1]
    /\ free'    = [free EXCEPT ![e] = @ + 1]
    /\ UNCHANGED <<job, at, queued, request, history, pending, failures>>

BootFails(e) ==
    /\ booting[e] > 0 /\ failures < MaxFailures
    /\ booting'  = [booting EXCEPT ![e] = @ - 1]
    /\ failures' = failures + 1
    /\ UNCHANGED <<job, at, queued, free, request, history, pending>>

(* A glidein nobody claims shuts down. *)
Expire(e) ==
    /\ free[e] > 0
    /\ free' = [free EXCEPT ![e] = @ - 1]
    /\ UNCHANGED <<job, at, queued, booting, request, history, pending, failures>>

Arrive(j) ==
    /\ job[j] = "new"
    /\ job' = [job EXCEPT ![j] = "idle"]
    /\ UNCHANGED <<at, queued, booting, free, request, history, pending, failures>>

Claim(j, e) ==
    /\ job[j] = "idle" /\ free[e] > 0 /\ e \in Accepted[KindAt[j]]
    /\ job'  = [job EXCEPT ![j] = "running"]
    /\ at'   = [at EXCEPT ![j] = e]
    /\ free' = [free EXCEPT ![e] = @ - 1]
    /\ UNCHANGED <<queued, booting, request, history, pending, failures>>

(* The job ends, or the user removes it. *)
Leave(j) ==
    /\ job[j] \in {"idle", "running"}
    /\ job'  = [job EXCEPT ![j] = "done"]
    /\ at'   = [at EXCEPT ![j] = 0]
    /\ free' = IF job[j] = "idle" THEN free ELSE [free EXCEPT ![at[j]] = @ + 1]
    /\ UNCHANGED <<queued, booting, request, history, pending, failures>>

Site(e) == FactoryWork(e) \/ Boot(e) \/ Register(e) \/ BootFails(e) \/ Expire(e)

User(j) == Arrive(j) \/ Leave(j) \/ \E e \in Entries : Claim(j, e)

Next == Iterate \/ (\E e \in Entries : Site(e)) \/ (\E j \in Jobs : User(j))

(* Group and factory loop forever; glideins get through the site's queue,    *)
(* join the pool and leave it when unused; the negotiator gives a job that   *)
(* keeps finding free slots one of them, and every job that runs ends.       *)
Fairness ==
    /\ []<>(pending # <<>>) /\ []<>(pending = <<>>)
    /\ \A e \in Entries : /\ WF_vars(FactoryWork(e)) /\ WF_vars(Boot(e))
                          /\ WF_vars(Register(e) \/ BootFails(e)) /\ WF_vars(Expire(e))
    /\ \A j \in Jobs : /\ \A e \in Entries : SF_vars(Claim(j, e))
                       /\ WF_vars(at[j] # 0 /\ Leave(j))

Spec == Init /\ [][Next]_vars /\ Fairness

-----------------------------------------------------------------------------
(***************************************************************************)
(* Properties.                                                               *)
(***************************************************************************)

(* Cores the jobs an entry accepts ask for, all of them together. *)
CoresFor(e) ==
    LET accepted == {j \in Jobs : e \in Accepted[KindAt[j]]}
    IN  Total([j \in accepted |-> RequestCpus[KindAt[j]]])

(* What the fraction and the delta of one allow, with the floor on top. *)
Allowed(e) == ((min_running + CoresFor(e)) * fraction_percent) \div 100 + 1

(* Whatever is seen late or not at all, an entry never gets more glideins    *)
(* than the cores its jobs ask for allow (compute_glidein_max_run together   *)
(* with the factory's use of it).                                            *)
GlideinsBounded == \A e \in Entries : queued[e] + Running(e) <= Allowed(e)

(* A job some entry accepts gets a glidein (or the user gives up on it):     *)
(* curbs, attenuation, stale queries and idle slots do not starve it.        *)
EveryJobServed ==
    \A j \in Jobs : (job[j] = "idle" /\ Accepted[KindAt[j]] # {}) ~> (job[j] # "idle")

(* Once the users want nothing any more, requests go to nothing and the last *)
(* glidein goes away for good.                                               *)
Drains ==
    (\A j \in Jobs : job[j] = "done") ~>
        [](\A e \in Entries : queued[e] + Running(e) = 0 /\ request[e].idle = 0)
=============================================================================
