----------------------------- MODULE GlideinStats -----------------------------
(***************************************************************************)
(* How the glideins of one client that complete get into the statistics of  *)
(* an entry: HTCondor appends events to a condor_activity log, a forked      *)
(* worker loads it through a cache file (lib/condorLogParser.py, cachedLogClass, *)
(* factory/glideFactoryLogParser.py, logSummaryTimingsOut), its result goes  *)
(* back to the entry group, and writeStats reports the difference from the   *)
(* iteration before (factory/glideFactoryMonitoring.py, condorLogSummary).   *)
(*                                                                         *)
(* Files have modification times of one second: a time is a number of ticks. *)
(***************************************************************************)
EXTENDS Integers, FiniteSets

CONSTANTS
    Glideins,   \* the jobs that appear in the log
    Logged,     \* the events that may be logged for each (bounds the instance)
    MaxTime,    \* bounds the clock
    Lead,       \* an output this much older than the end of its job is not its own (300 s)
    Fresh,      \* an output file changed this recently may still be written (5 s)
    GiveUp      \* how long the output of a completed job is waited for (3600 s)

ASSUME GlideinsAssumption == IsFiniteSet(Glideins)
ASSUME LoggedAssumption == Logged \in [Glideins -> SUBSET {"submit", "grid_submit", "execute",
    "evict", "hold", "release", "terminate", "abort", "disconnect", "reconnect", "image_size"}]
ASSUME TimesAssumption == {MaxTime, Lead, Fresh, GiveUp} \subseteq Nat

VARIABLES
    now,
    log,         \* what the events of each job in the log amount to
    ended,       \* when a completed job ended
    logtime,     \* modification time of the log
    output,      \* modification time of its output file, -1: none or empty
    cache,       \* the cache file: what was parsed, and its modification time (history:
                 \* the log's time then, and whether the worker looked at the log again)
    pc,          \* where the iteration of the entry group is
    start_logtime,
    data,        \* what the worker has loaded
    old_stats_data, current_stats_data, stats_diff,  \* condorLogSummary, in the group
    reported,    \* history: the jobs reported as completed so far
    twice,       \* history: was one reported again?
    unsaved,     \* history: could a cache file not be written?
    settled,     \* history: was the last iteration without a loss?
    last         \* history: the completed jobs it saw

fileVars == <<log, ended, logtime, output, cache>>
loadVars == <<start_logtime, data>>
statVars == <<old_stats_data, current_stats_data, stats_diff>>
pastVars == <<reported, twice, unsaved, settled, last>>

vars == <<now, fileVars, pc, loadVars, statVars, pastVars>>

Live      == {"Wait", "Idle", "Running", "Held"}
InLog     == Live \cup {"Completed", "Removed"}
Statuses  == InLog \cup {"CompletedNoOut", "absent"}
Places    == {"sleep", "ready", "parse", "save", "check", "loaded", "stats"}

Times     == -1..MaxTime
Views     == [Glideins -> Statuses]
Nothing   == [g \in Glideins |-> "absent"]

(* A dictionary with at most the one client as its key. *)
Summaries == [here : BOOLEAN, view : Views]
NoClient  == [here |-> FALSE, view |-> Nothing]
Client(v) == [here |-> TRUE, view |-> v]

TypeOK ==
    /\ now \in 0..MaxTime
    /\ log \in [Glideins -> InLog \cup {"absent"}]
    /\ ended \in [Glideins -> 0..MaxTime]
    /\ output \in [Glideins -> Times]
    /\ logtime \in Times
    /\ cache \in [view : Views, time : Times, read : Times, sure : BOOLEAN]
    /\ pc \in Places
    /\ start_logtime \in Times
    /\ data \in Views
    /\ old_stats_data \in Summaries /\ current_stats_data \in Summaries
    /\ stats_diff \in BOOLEAN
    /\ reported \subseteq Glideins /\ last \subseteq Glideins
    /\ twice \in BOOLEAN /\ unsaved \in BOOLEAN /\ settled \in BOOLEAN

Init ==
    /\ now = 0
    /\ log = Nothing /\ ended = [g \in Glideins |-> 0] /\ logtime = -1
    /\ output = [g \in Glideins |-> -1]
    /\ cache = [view |-> Nothing, time |-> -1, read |-> -1, sure |-> TRUE]
    /\ pc = "sleep"
    /\ start_logtime = -1 /\ data = Nothing
    /\ old_stats_data = NoClient /\ current_stats_data = NoClient
    /\ stats_diff = FALSE
    /\ reported = {} /\ twice = FALSE /\ unsaved = FALSE
    /\ settled = FALSE /\ last = {}

-----------------------------------------------------------------------------
(* HTCondor writes the log and brings the output files home. *)

Tick ==
    /\ now < MaxTime
    /\ now' = now + 1
    /\ UNCHANGED <<fileVars, pc, loadVars, statVars, pastVars>>

(***************************************************************************)
(* get_new_status with interpretStatus.  A lost or regained connection sets  *)
(* a flag in the first digit, which interpretStatus leaves out; informational *)
(* events change nothing; an eviction is back to waiting; a code without a   *)
(* meaning of its own (a release, a grid submission) counts as Idle.         *)
(***************************************************************************)
get_new_status(old, event) ==
    CASE event \in {"disconnect", "reconnect", "image_size"} -> old
      [] event \in {"submit", "evict"}        -> "Wait"
      [] event \in {"grid_submit", "release"} -> "Idle"
      [] event = "execute"                    -> "Running"
      [] event = "hold"                       -> "Held"
      [] event = "terminate"                  -> "Completed"
      [] event = "abort"                      -> "Removed"

(* The events HTCondor may log for a job with this status. *)
Possible(status) ==
    CASE status = "absent"  -> {"submit"}
      [] status = "Wait"    -> {"grid_submit", "execute", "hold", "abort"}
      [] status = "Idle"    -> {"execute", "hold", "abort"}
      [] status = "Running" -> {"evict", "hold", "terminate", "abort",
                                "disconnect", "reconnect", "image_size"}
      [] status = "Held"    -> {"release", "abort"}
      [] OTHER              -> {}

Log(g, event) ==
    /\ event \in Possible(log[g]) \cap Logged[g]
    /\ log' = [log EXCEPT ![g] = get_new_status(log[g], event)]
    /\ ended' = IF event = "terminate" THEN [ended EXCEPT ![g] = now] ELSE ended
    /\ logtime' = now
    /\ UNCHANGED <<now, output, cache, pc, loadVars, statVars, pastVars>>

(* The output file of a job that ran is written, once: before or after the   *)
(* event that says it is done.                                               *)
Output(g) ==
    /\ log[g] \in {"Running", "Completed"}
    /\ output[g] = -1
    /\ output' = [output EXCEPT ![g] = now]
    /\ UNCHANGED <<now, log, ended, logtime, cache, pc, loadVars, statVars, pastVars>>

-----------------------------------------------------------------------------
(* One iteration, as far as one client's statistics are concerned. *)

(* Mutant of reset: the new statistics are dropped before they become old.   *)
resetEarly == old_stats_data' = NoClient

(* condorLogSummary.reset: only clients with a difference in the previous    *)
(* iteration (it may be empty) keep their statistics to compare with.        *)
reset == old_stats_data' = IF stats_diff THEN current_stats_data ELSE NoClient

(* initIteration. *)
StartIteration ==
    /\ pc = "sleep"
    /\ pc' = "ready"
    /\ reset
    /\ current_stats_data' = NoClient
    /\ stats_diff' = FALSE
    /\ UNCHANGED <<now, fileVars, loadVars, pastVars>>

has_changed == logtime # -1 /\ logtime > cache.time

(* The worker is gone. *)
Unload == start_logtime' = -1 /\ data' = Nothing

(* No request of this client in this iteration, or none that got this far. *)
NoRequest ==
    /\ pc = "ready"
    /\ pc' = "stats"
    /\ UNCHANGED <<now, fileVars, loadVars, statVars, pastVars>>

LoadCache ==
    /\ pc = "ready"
    /\ ~ has_changed
    /\ data' = cache.view
    /\ pc' = "loaded"
    /\ UNCHANGED <<now, fileVars, start_logtime, statVars, pastVars>>

OpenLog ==
    /\ pc = "ready"
    /\ has_changed
    /\ start_logtime' = logtime
    /\ pc' = "parse"
    /\ UNCHANGED <<now, fileVars, data, statVars, pastVars>>

file_ok(g) ==
    /\ output[g] # -1
    /\ output[g] > ended[g] - Lead
    /\ output[g] < now - Fresh

(* loadFromLog: a job is complete once its output is there and at rest, or   *)
(* was waited for long enough.                                               *)
loadFromLog ==
    [g \in Glideins |->
        IF log[g] = "Completed" /\ ~ file_ok(g) /\ now - ended[g] < GiveUp
        THEN "CompletedNoOut" ELSE log[g]]

Parse ==
    /\ pc = "parse"
    /\ data' = loadFromLog
    /\ pc' = "save"
    /\ UNCHANGED <<now, fileVars, start_logtime, statVars, pastVars>>

Save ==
    /\ pc = "save"
    /\ cache' = [view |-> data, time |-> now, read |-> start_logtime, sure |-> FALSE]
    /\ pc' = "check"
    /\ UNCHANGED <<now, log, ended, logtime, output, loadVars, statVars, pastVars>>

(* An OSError: "silently ignore, this was a load in the end". *)
SaveFails ==
    /\ pc = "save"
    /\ pc' = "loaded"
    /\ unsaved' = TRUE
    /\ UNCHANGED <<now, fileVars, loadVars, statVars, reported, twice, settled, last>>

(* Mutant of Check: the log is not looked at again. *)
CheckNothing ==
    /\ pc = "check"
    /\ pc' = "loaded"
    /\ cache' = [cache EXCEPT !.sure = TRUE]
    /\ UNCHANGED <<now, log, ended, logtime, output, loadVars, statVars, pastVars>>

(* The log may have changed while it was parsed: once more, then. *)
Check ==
    /\ pc = "check"
    /\ IF logtime <= start_logtime
       THEN pc' = "loaded" /\ cache' = [cache EXCEPT !.sure = TRUE] /\ UNCHANGED start_logtime
       ELSE pc' = "parse" /\ start_logtime' = logtime /\ UNCHANGED cache
    /\ UNCHANGED <<now, log, ended, logtime, output, data, statVars, pastVars>>

(* logSummary in the worker, setState in the group. *)
Collect ==
    /\ pc = "loaded"
    /\ current_stats_data' = Client(data)
    /\ pc' = "stats" /\ Unload
    /\ UNCHANGED <<now, fileVars, old_stats_data, stats_diff, pastVars>>

(* This worker fails, or another one of the group: bounded_fork_and_collect  *)
(* raises, and find_and_perform_work goes on without any of the results.     *)
ResultLost ==
    /\ pc \in {"parse", "save", "check", "loaded"}
    /\ pc' = "stats" /\ Unload
    /\ UNCHANGED <<now, fileVars, statVars, pastVars>>

CompletedIn(s) == {g \in Glideins : s.view[g] = "Completed"}

(* Mutant of EnteredCompleted: without old statistics everything is new.     *)
EnteredCompletedAll ==
    IF current_stats_data.here
    THEN CompletedIn(current_stats_data) \ CompletedIn(old_stats_data) ELSE {}

(* computeDiff: a client that has no old statistics has no difference.       *)
EnteredCompleted ==
    IF current_stats_data.here /\ old_stats_data.here
    THEN CompletedIn(current_stats_data) \ CompletedIn(old_stats_data) ELSE {}

(* writeStats in a child of its own, up to the files and to the state that   *)
(* comes back; kept says whether it does (a later exception loses it).       *)
WriteStats(kept) ==
    /\ pc = "stats"
    /\ reported' = reported \cup EnteredCompleted
    /\ twice' = (twice \/ (EnteredCompleted \cap reported # {}))
    /\ stats_diff' = (kept /\ current_stats_data.here)
    /\ settled' = (kept /\ current_stats_data.here)
    /\ last' = IF kept THEN CompletedIn(current_stats_data) ELSE {}
    /\ pc' = "sleep"
    /\ UNCHANGED <<now, fileVars, loadVars, old_stats_data, current_stats_data, unsaved>>

(* The child of writeStats fails before it has written anything. *)
WriteStatsFails ==
    /\ pc = "stats"
    /\ pc' = "sleep"
    /\ settled' = FALSE /\ last' = {}
    /\ UNCHANGED <<now, fileVars, loadVars, statVars, reported, twice, unsaved>>

(* The group process ends at any moment and is started again: the files stay.*)
Restart ==
    /\ pc' = "sleep" /\ Unload
    /\ old_stats_data' = NoClient /\ current_stats_data' = NoClient
    /\ stats_diff' = FALSE
    /\ settled' = FALSE /\ last' = {}
    /\ UNCHANGED <<now, fileVars, reported, twice, unsaved>>

-----------------------------------------------------------------------------
Load == LoadCache \/ OpenLog \/ Parse \/ Save \/ SaveFails \/ Check

Next ==
    \/ Tick
    \/ \E g \in Glideins : (\E e \in Logged[g] : Log(g, e)) \/ Output(g)
    \/ StartIteration \/ NoRequest \/ Load \/ Collect \/ ResultLost
    \/ (\E kept \in BOOLEAN : WriteStats(kept)) \/ WriteStatsFails
    \/ Restart

Spec == Init /\ [][Next]_vars

-----------------------------------------------------------------------------
(* However iterations are lost, cut short or started over, a glidein that    *)
(* completed is counted at most once (computeDiff against reset).  Only a    *)
(* cache that could not be written can bring an older picture back, in which *)
(* the job is not complete yet.                                              *)
ReportedOnce == twice => unsaved

(* After an iteration without a loss, the next one that gets to writing      *)
(* reports every glidein that has completed since: what a lost iteration     *)
(* costs ends with it.                                                       *)
SettledReportsAll ==
    [][(\E kept \in BOOLEAN : WriteStats(kept)) /\ settled /\ current_stats_data.here
          => CompletedIn(current_stats_data) \ last \subseteq reported']_vars

(* What a log amounts to, whether or not outputs are waited for. *)
SameEvents(v) == \A g \in Glideins :
    v[g] = log[g] \/ (v[g] = "CompletedNoOut" /\ log[g] = "Completed")

(* A load that ends misses an event of the log only if that event came in    *)
(* the very second of an earlier one or of the cache file, whose times have  *)
(* no more resolution, or if the worker that saved the cache did not live to *)
(* look at the log again ("the log may have changed -> check").              *)
StaleOnlyWithinASecond ==
    [][(pc \in {"ready", "check"} /\ pc' = "loaded")
          => \/ SameEvents(data')
             \/ logtime = cache.time \/ logtime = cache.read
             \/ ~ cache'.sure]_vars
=============================================================================
