------------------------------ MODULE EntryWork ------------------------------
(***************************************************************************)
(* One cycle of a factory entry (factory/glideFactoryEntry.py:                *)
(* check_and_perform_work, unit_work_v3, perform_work_v3) and the submission *)
(* and removal of glideins it leads to (factory/glideFactoryLib.py:          *)
(* keepIdleGlideins, clean_glidein_queue, sanitizeGlideins, GlideinTotals),  *)
(* against an HTCondor schedd whose jobs move on by themselves.              *)
(*                                                                         *)
(* A cycle works on condorQ, the queue as condor_q showed it when the cycle  *)
(* began, while queue, the real one, changes underneath.                     *)
(***************************************************************************)
EXTENDS Integers, FiniteSets

CONSTANTS
    Jobs,         \* HTCondor job ids (bounds how many glideins can ever coexist)
    Requests,     \* work keys: one per client (frontend group) and credential
    SecClass,     \* the "frontend:security class" each request is counted under
    Demands,      \* what a request may ask for
    Blacklisted,  \* requests of clients the entry's whitelist does not list
    EntryMaxGlideins, EntryMaxIdle, EntryMaxHeld,  \* per_entry limits
    FeMaxGlideins, FeMaxIdle, FeMaxHeld,           \* per_frontend limits
    max_submits, max_removes, max_releases         \* rates, per call

RemoveExcess == {"NO", "WAIT", "IDLE", "ALL"}

DemandType == [idle : Nat, max : Nat, remove : RemoveExcess, margin : Nat]

ASSUME SetsAssumption == IsFiniteSet(Jobs) /\ IsFiniteSet(Requests)
ASSUME DemandsAssumption == Demands \subseteq DemandType
ASSUME BlacklistedAssumption == Blacklisted \subseteq Requests
ASSUME LimitsAssumption ==
    {EntryMaxGlideins, EntryMaxIdle, EntryMaxHeld, FeMaxGlideins, FeMaxIdle,
     FeMaxHeld, max_submits, max_removes, max_releases} \subseteq Nat

VARIABLES
    queue,        \* the schedd: job id -> its request and status
    condorQ,      \* the queue as the running cycle knows it
    working,      \* is a cycle running?
    todo,         \* the requests of the cycle that are not processed yet
    factory_in_downtime,
    in_downtime,
    done_something

vars == <<queue, condorQ, working, todo, factory_in_downtime, in_downtime, done_something>>

cycleVars == <<condorQ, working, todo, factory_in_downtime, in_downtime, done_something>>

(***************************************************************************)
(* hash_status tells unsubmitted (1001) and queued (1002, 1010, 1100) idle   *)
(* jobs, running ones (2), and those staging out (4010), which HTCondor has  *)
(* as running; held is JobStatus 5.                                          *)
(***************************************************************************)
Statuses == {"unsubmitted", "queued", "running", "stage_out", "held"}

QueueType == UNION {[D -> [req : Requests, status : Statuses]] : D \in SUBSET Jobs}

TypeOK ==
    /\ queue \in QueueType
    /\ condorQ \in QueueType
    /\ working \in BOOLEAN
    /\ todo \subseteq Requests
    /\ factory_in_downtime \in BOOLEAN
    /\ in_downtime \in BOOLEAN
    /\ done_something \in BOOLEAN

EmptyQueue == [j \in {} |-> 0]

Init ==
    /\ queue = EmptyQueue /\ condorQ = EmptyQueue
    /\ working = FALSE
    /\ todo = {}
    /\ factory_in_downtime = FALSE /\ in_downtime = FALSE
    /\ done_something = FALSE

-----------------------------------------------------------------------------
(* What the code counts and lists in a queue. *)

Of(q, R)            == {j \in DOMAIN q : q[j].req \in R}
InStatus(q, S, st)  == {j \in S : q[j].status \in st}

IdleOf(q, R)    == Cardinality(InStatus(q, Of(q, R), {"unsubmitted", "queued"}))
RunningOf(q, R) == Cardinality(InStatus(q, Of(q, R), {"running"}))
HeldOf(q, R)    == Cardinality(InStatus(q, Of(q, R), {"held"}))

(* The requests whose glideins carry the same GLIDEIN_FRONTEND_NAME. *)
SameClass(r) == {s \in Requests : SecClass[s] = SecClass[r]}

Lower(a, b) == IF a < b THEN a ELSE b

(* Mutant of can_add_idle_glideins: the running glideins of the security     *)
(* class are not counted.                                                    *)
can_add_idle_glideinsNoRunning(nr, idle, running, fe_idle, fe_running) ==
    Lower(Lower(nr, Lower(EntryMaxIdle - idle, EntryMaxGlideins - idle - running)),
          Lower(FeMaxIdle, FeMaxGlideins) - fe_idle)

(***************************************************************************)
(* GlideinTotals.  It is rebuilt from condorQ by glideinsWithinLimits at the *)
(* start of every request, so what add_idle_glideins adds for one request is *)
(* forgotten before the next: the totals are a function of condorQ.          *)
(***************************************************************************)
can_add_idle_glideins(nr, idle, running, fe_idle, fe_running) ==
    LET n1 == Lower(nr, EntryMaxIdle - idle)
        n2 == Lower(n1, EntryMaxGlideins - idle - running)
        n3 == Lower(n2, FeMaxIdle - fe_idle)
    IN  Lower(n3, FeMaxGlideins - fe_idle - fe_running)

glideinsWithinLimits ==
    /\ IdleOf(condorQ, Requests) < EntryMaxIdle
    /\ IdleOf(condorQ, Requests) + RunningOf(condorQ, Requests) < EntryMaxGlideins
    /\ HeldOf(condorQ, Requests) < EntryMaxHeld

has_sec_class_exceeded_max_held(r) == HeldOf(condorQ, SameClass(r)) >= FeMaxHeld

(* Mutant of NrToSubmit: the request's own maximum is forgotten.             *)
NrToSubmitNoMax(r, min_idle, max) ==
    LET needed == min_idle - IdleOf(condorQ, {r})
    IN  IF needed <= 0 THEN 0
        ELSE Lower(can_add_idle_glideins(needed,
                       IdleOf(condorQ, Requests), RunningOf(condorQ, Requests),
                       IdleOf(condorQ, SameClass(r)), RunningOf(condorQ, SameClass(r))),
                   max_submits)

(* keepIdleGlideins: how many glideins to submit for request r, which asks   *)
(* for min_idle idle ones and at most max in all; not positive when none.    *)
NrToSubmit(r, min_idle, max) ==
    LET idle    == IdleOf(condorQ, {r})
        running == RunningOf(condorQ, {r})
        needed  == Lower(min_idle - idle, max - idle - running)
        allowed == can_add_idle_glideins(needed,
                       IdleOf(condorQ, Requests), RunningOf(condorQ, Requests),
                       IdleOf(condorQ, SameClass(r)), RunningOf(condorQ, SameClass(r)))
    IN  IF min_idle - idle <= 0 \/ needed <= 0 THEN 0 ELSE Lower(allowed, max_submits)

-----------------------------------------------------------------------------
(* What one request does to the queue. *)

(* condor_rm for the listed jobs: some fail and are ignored, max_removes     *)
(* succeed at most per call, and a job that is gone by now stays gone.       *)
Removed(listed, calls) ==
    {S \in SUBSET (listed \cap DOMAIN queue) : Cardinality(S) <= calls * max_removes}

RemoveJobs(S) == queue' = [j \in DOMAIN queue \ S |-> queue[j]]

(* A job id is never used again while something remembers it. *)
FreshJobs == Jobs \ (DOMAIN queue \cup DOMAIN condorQ)

(* submitGlideins: n glideins in one or more clusters.  An error stops it    *)
(* with k of them submitted, and keepIdleGlideins then reports no work done. *)
Submit(r, n) ==
    \E new \in SUBSET FreshJobs :
        /\ Cardinality(new) <= n
        /\ queue' = [j \in DOMAIN queue \cup new |->
                        IF j \in new THEN [req |-> r, status |-> "unsubmitted"]
                        ELSE queue[j]]
        /\ done_something' = (done_something \/ Cardinality(new) = n)

(* The shortened lists: any remove_nr of them when there are more. *)
Shortened(S, nr) ==
    IF Cardinality(S) <= nr THEN {S} ELSE {T \in SUBSET S : Cardinality(T) = nr}

(* Mutant of RemoveNr: the margin is ignored. *)
RemoveNrNoMargin(d, idle, running) ==
    LET many_idle    == d.remove # "NO" /\ idle > d.idle
        many_running == d.remove = "ALL" /\ running + idle > d.max
    IN  IF ~many_idle /\ ~many_running THEN 0
        ELSE IF many_running /\ running + d.idle > d.max
             THEN running + idle - d.max
             ELSE idle - d.idle

(* clean_glidein_queue: how many glideins of the security class are too many *)
(* for demand d; 0 when it does not go into the removal at all.              *)
RemoveNr(d, idle, running) ==
    LET many_idle    == d.remove # "NO" /\ idle > d.idle + d.margin
        many_running == d.remove = "ALL" /\ running + idle > d.max + d.margin
    IN  IF ~many_idle /\ ~many_running THEN 0
        ELSE IF many_running /\ running + d.idle > d.max
             THEN running + idle - d.max - d.margin
             ELSE idle - d.idle - d.margin

(* The jobs clean_glidein_queue gives to removeGlideins, from the first kind *)
(* the request lets it touch that is there at all.                           *)
RemovalLists(r, d) ==
    LET mine        == Of(condorQ, {r})
        class       == SameClass(r)
        nr          == RemoveNr(d, IdleOf(condorQ, class), RunningOf(condorQ, class))
        unsubmitted == InStatus(condorQ, mine, {"unsubmitted"})
        queued      == InStatus(condorQ, mine, {"queued"})
        running     == InStatus(condorQ, mine, {"running", "stage_out"})
        held        == InStatus(condorQ, mine, {"held"})
    IN  CASE nr > 0 /\ unsubmitted # {} -> Shortened(unsubmitted, nr)
          [] nr > 0 /\ unsubmitted = {} /\ d.remove \in {"IDLE", "ALL"} /\ queued # {}
                -> Shortened(queued, nr)
          [] nr > 0 /\ unsubmitted = {} /\ queued = {} /\ d.remove = "ALL"
                -> {S \cup held : S \in Shortened(running, nr)}
          [] nr = 0 /\ d.remove = "ALL" /\ d.max = 0 /\ HeldOf(condorQ, class) > 0
                -> {held}
          [] OTHER -> {{}}

Clean(r, d) ==
    \E listed \in RemovalLists(r, d) :
        /\ \E S \in Removed(listed, 1) : RemoveJobs(S)
        /\ done_something' = (done_something \/ listed # {})

(***************************************************************************)
(* sanitizeGlideins, called so many times in a row, on some of the jobs of   *)
(* condorQ: stale idle and stale running ones, and held ones that cannot     *)
(* recover, for long or not, are given to four calls of removeGlideins; held *)
(* ones that can recover are released (one more than max_releases at most:   *)
(* the loop tests with >).  Which jobs are stale, unrecoverable or out of    *)
(* release attempts is the jobs' own business.                               *)
(***************************************************************************)
Sanitize(listed, calls) ==
    LET held == InStatus(condorQ, listed, {"held"})
    IN  \E stale    \in Removed(InStatus(condorQ, listed, {"unsubmitted", "queued"}), calls),
           runstale \in Removed(InStatus(condorQ, listed, {"running", "stage_out"}), calls),
           forcex   \in Removed(held, calls) :
        \E unrecoverable \in Removed(held \ forcex, calls) :
        \E released \in SUBSET ((held \ (forcex \cup unrecoverable)) \cap DOMAIN queue) :
            /\ Cardinality(released) <= calls * (max_releases + 1)
            /\ queue' = [j \in DOMAIN queue \ (stale \cup runstale \cup forcex \cup unrecoverable) |->
                            IF j \in released /\ queue[j].status = "held"
                            THEN [queue[j] EXCEPT !.status = "unsubmitted"]
                            ELSE queue[j]]

(* Mutant of SanitizeRequest: every glidein of the entry is sanitized, not   *)
(* the request's own.                                                        *)
SanitizeRequestAll(r) ==
    /\ Sanitize(DOMAIN condorQ, 1)
    /\ done_something' = TRUE

(* keepIdleGlideins, when the security class has too many held glideins.     *)
(* It reports work done if it found anything to sanitize, held or stale.     *)
SanitizeRequest(r) ==
    LET mine == Of(condorQ, {r})
    IN  /\ Sanitize(mine, 1)
        /\ done_something' \in IF mine = {} THEN {done_something}
                               ELSE IF \/ InStatus(condorQ, mine, {"held"}) # {}
                                       \/ DOMAIN queue \ DOMAIN queue' # {}
                               THEN {TRUE} ELSE {done_something, TRUE}

(* keepIdleGlideins. *)
KeepIdle(r, d, min_idle) ==
    LET n == NrToSubmit(r, min_idle, d.max)
    IN  IF has_sec_class_exceeded_max_held(r) THEN SanitizeRequest(r)
        ELSE IF n > 0 THEN Submit(r, n) ELSE Clean(r, d)

-----------------------------------------------------------------------------
(* The cycle. *)

(* A cycle for the requests that name the entry; without any, it is          *)
(* update_entries_stats that runs, which does no more than EndCycle.         *)
StartCycle ==
    /\ ~working
    /\ condorQ' = queue
    /\ \E work \in SUBSET Requests : todo' = work
    /\ \E down \in BOOLEAN : factory_in_downtime' = down /\ in_downtime' = down
    /\ working' = TRUE
    /\ done_something' = FALSE
    /\ UNCHANGED queue

(* in_downtime once request r was compared with the entry's whitelist.       *)
DowntimeFor(r) == in_downtime \/ r \in Blacklisted

(* A request is dropped: it is malformed, lacks a credential, comes from the *)
(* wrong identity...  The whitelist is looked at before some of these tests  *)
(* and after others.                                                         *)
SkipRequest(r) ==
    /\ working /\ r \in todo
    /\ todo' = todo \ {r}
    /\ in_downtime' \in {in_downtime, DowntimeFor(r)}
    /\ UNCHANGED <<queue, condorQ, working, factory_in_downtime, done_something>>

(* The body of check_and_perform_work's loop for request r.  The security    *)
(* class of the request may be in downtime on its own (class_down).          *)
ProcessRequest(r, d, class_down) ==
    /\ working /\ r \in todo
    /\ todo' = todo \ {r}
    /\ in_downtime' = DowntimeFor(r)
    /\ LET min_idle == IF DowntimeFor(r) \/ class_down \/ ~glideinsWithinLimits
                       THEN 0 ELSE d.idle
       IN  KeepIdle(r, d, min_idle)
    /\ UNCHANGED <<condorQ, working, factory_in_downtime>>

(* Without any work done, all glideins of the entry are sanitized: once with *)
(* the entry's configuration and once with the current one, the same.        *)
EndCycle ==
    /\ working /\ todo = {}
    /\ IF done_something THEN UNCHANGED queue ELSE Sanitize(DOMAIN condorQ, 2)
    /\ working' = FALSE
    /\ condorQ' = EmptyQueue
    /\ factory_in_downtime' = FALSE /\ in_downtime' = FALSE
    /\ done_something' = FALSE
    /\ UNCHANGED todo

-----------------------------------------------------------------------------
(* HTCondor, at any moment: a job moves on, goes back to the queue when it   *)
(* is evicted, is put on hold, or leaves.                                    *)

Moves == {<<"unsubmitted", "queued">>, <<"queued", "running">>, <<"running", "queued">>,
          <<"running", "stage_out">>, <<"unsubmitted", "held">>, <<"queued", "held">>,
          <<"running", "held">>}

JobMoves(j) ==
    /\ \E m \in Moves :
          /\ queue[j].status = m[1]
          /\ queue' = [queue EXCEPT ![j].status = m[2]]
    /\ UNCHANGED cycleVars

JobLeaves(j) ==
    /\ RemoveJobs({j})
    /\ UNCHANGED cycleVars

-----------------------------------------------------------------------------
Next ==
    \/ StartCycle
    \/ \E r \in Requests : SkipRequest(r)
    \/ \E r \in Requests, d \in Demands, class_down \in BOOLEAN :
          ProcessRequest(r, d, class_down)
    \/ EndCycle
    \/ \E j \in DOMAIN queue : JobMoves(j)
    \/ \E j \in DOMAIN queue : JobLeaves(j)

Spec == Init /\ [][Next]_vars

-----------------------------------------------------------------------------
NewJobs     == DOMAIN queue' \ DOMAIN queue
RemovedJobs == DOMAIN queue \ DOMAIN queue'

Live(q, R) == IdleOf(q, R) + RunningOf(q, R)

(* However cycles, holds, releases, evictions and stale queries interleave,  *)
(* the glideins the limits are about stay bounded: not by the limit, but by  *)
(* the limit once for each request a cycle may serve, plus the held ones     *)
(* that are tolerated; for the entry and for each security class.            *)
QueueBounded ==
    LET Bounded(R, max_glideins, max_held) ==
            LET all == Live(queue, R) + HeldOf(queue, R)
            IN  all > 0 => all < Cardinality(R \ Blacklisted) * max_glideins + max_held
    IN  /\ Bounded(Requests, EntryMaxGlideins, EntryMaxHeld)
        /\ \A r \in Requests : Bounded(SameClass(r), FeMaxGlideins, FeMaxHeld)

(* The old picture errs on one side: a request that is still to be served    *)
(* has no live glidein that the cycle does not count, whatever HTCondor and  *)
(* the requests before it did since condor_q ran.                            *)
PictureCovers ==
    \A j \in DOMAIN queue :
       /\ queue[j].req \in todo
       /\ queue[j].status \in {"unsubmitted", "queued", "running"}
       => /\ j \in DOMAIN condorQ
          /\ condorQ[j].req = queue[j].req
          /\ condorQ[j].status \in {"unsubmitted", "queued", "running"}

(* A request is given new glideins only, and so many that it does not have   *)
(* more than it asked for, although the count they are computed from is old. *)
SubmitWithinRequest ==
    [][NewJobs # {} =>
          \A r \in Requests, d \in Demands, class_down \in BOOLEAN :
             ProcessRequest(r, d, class_down) =>
                 /\ \A j \in NewJobs : queue'[j].req = r
                 /\ Live(queue', {r}) <= d.max
                 /\ RemovedJobs = {}]_vars

(* What is submitted for a request fits, on top of what condor_q showed, in  *)
(* every limit of the entry and of the frontend's security class.            *)
SubmitWithinLimits ==
    [][NewJobs # {} =>
          \A r \in todo \ todo' :
             LET n     == Cardinality(NewJobs)
                 class == SameClass(r)
             IN  /\ IdleOf(condorQ, Requests) + n <= EntryMaxIdle
                 /\ Live(condorQ, Requests) + n <= EntryMaxGlideins
                 /\ IdleOf(condorQ, class) + n <= FeMaxIdle
                 /\ Live(condorQ, class) + n <= FeMaxGlideins
                 /\ HeldOf(condorQ, Requests) < EntryMaxHeld
                 /\ HeldOf(condorQ, class) < FeMaxHeld]_vars

(* A cleanup leaves the security class what the request asks for: either     *)
(* margin more idle glideins than its pressure, or margin more glideins than *)
(* its maximum.                                                              *)
CleanupKeepsMargin ==
    [][RemovedJobs # {} =>
          \A r \in todo \ todo', d \in Demands :
             LET gone  == InStatus(condorQ, RemovedJobs,
                              {"unsubmitted", "queued", "running", "stage_out"})
                 class == SameClass(r)
             IN  /\ ProcessRequest(r, d, FALSE)
                 /\ ~has_sec_class_exceeded_max_held(r)
                 /\ gone # {}
                 => /\ d.remove # "NO"
                    /\ \/ IdleOf(condorQ, class) - Cardinality(gone)
                              >= d.idle + d.margin
                       \/ Live(condorQ, class) - Cardinality(gone)
                              >= d.max + d.margin]_vars

(* A client that the whitelist does not list never gets a glidein. *)
BlacklistedNeverServed == \A j \in DOMAIN queue : queue[j].req \notin Blacklisted
==============================================================================
