# GlideinWMS in TLA+

This directory holds TLA+ specifications of the parts of GlideinWMS whose correctness depends on
the order in which things happen: the daemons of the Factory and of the VO Frontend, the processes
they fork, the locks they take, the keys and logs they share, the HTCondor queue they work on while
it changes, and the published files a glidein starts from. The specifications are translated from the Python code of this repository (paths below are relative to
the repository's root); they are model-checked with TLC and the main safety properties are proved with TLAPS.

To check something:

    tlc -workers 2 -config EntryWork.cfg MCEntryWork     # the module named in the table of runs
    tlapm EntryWorkProofs.tla

`PROJECT.json` is the index: components, runs, the lines every definition stands for, known
disagreements between code and documentation ("findings"), hazards and theorems.

## 1. The system

A **Factory** submits *glideins* (pilot jobs) to grid sites through HTCondor on behalf of
**Frontends**. A Frontend watches the user job queues and asks the Factory for glideins with
classads in a collector ("`glideclient`" ads: keep so many idle, at most so many in all, remove the
excess or not). Both sides are trees of Unix processes that talk through the collector, files and
exit codes.

| Component | State it keeps | Operations | Talks to |
|---|---|---|---|
| Fork manager, `lib/fork.py` | functions to fork, open pipes, free slots, counters | `add_fork`, `bounded_fork_and_collect`, `fork_and_collect` | forked children, through pipes; used by entry groups and elements |
| PID files, `lib/pidSupport.py` | a file with a PID and an flock on it | `register`, `relinquish`, `load_registered` | every daemon; start, stop and check tools |
| Factory daemon, `factory/glideFactory.py` | the group processes, their start times, key rotation times | `spawn`, restart, `clean_exit`, signals | entry groups (subprocess, exit code, signals) |
| Entry group, `factory/glideFactoryEntryGroup.py` | the entries with their statistics | `iterate_one`, `find_and_perform_work`, `check_parent` | forked workers, collector |
| Entry, `factory/glideFactoryEntry.py`, `glideFactoryLib.py` | queue snapshot, downtime flags, limits, totals | `check_and_perform_work`, `keepIdleGlideins`, `clean_glidein_queue`, `sanitizeGlideins` | the HTCondor schedd (condor_q, condor_submit, condor_rm, condor_release) |
| Frontend daemon, `frontend/glideinFrontend.py` | group states, failure counters, hibernation | `spawn`, `spawn_iteration`, `spawn_cleanup`, `shouldHibernate` | elements (subprocess, exit code, SIGKILL), collectors |
| Frontend element, `frontend/glideinFrontendElement.py`, `glideinFrontendLib.py` | one group's jobs, glideins, requests, a history file | `iterate_one`, `do_match`, `compute_glidein_min_idle`, `decide_removal_type`, `deadvertiseAllClassads` | forked children, user schedds, collectors |
| Factory keys (`factory/glideFactoryConfig.py`, `glideFactory.py`, `glideFactoryEntryGroup.py`) | `rsa.key`, its backup, copies in memory | renewal at start, grace time, `find_work` | frontends, through the key in the collector |
| Downtimes, credentials (`factory/glideFactoryDowntimeLib.py`, `glideFactoryCredentials.py`) | files | periods, credential files | read by every entry, written by tools and requests |
| Job logs and statistics (`lib/condorLogParser.py`, `factory/glideFactoryLogParser.py`, `glideFactoryMonitoring.py`) | condor_activity logs, cache files, the statistics of two iterations | `load`, `saveCache`, `logSummary`, `computeDiff`, `reset` | HTCondor writes the logs, workers read them |
| Reconfiguration (`creation/reconfig_glidein`, `creation/lib/cWDictFile.py`, `cgWDictFile.py`) | the stage area on a web server, `signatures.sha1` | load, reuse, save | submissions read the summary, glideins download the tree |
| Glidein startup (`creation/web_base/glidein_startup.sh`) | the glidein's work directory | fetch, verify, run | the stage area, through a web server and caches |
| Cleaners, cache (`lib/cleanupSupport.py`, `lib/disk_cache.py`) | directories of logs, credentials, pickles | `cleanup`, `get`, `save` | background child |
| Other monitoring (`*Monitoring.py`, `*Aggregator.py`, `lib/rrdSupport.py`) | statistics, RRD and XML files | aggregate, diff | files |
| Interfaces and HTCondor access (`*Interface.py`, `lib/condor*.py`) | none that lasts | query, advertise, invalidate | HTCondor |
| The rest of `creation/`, `tools/`, `plugins/`, `logserver/`, `install/`, `build/` | generated directories | command-line tools, scripts on worker nodes | none of the daemons directly |

What is hard here, and what makes each part correct:

* **Fork manager.** Children end in any order, fail, are killed, or their parent leaves the call.
  Correct: never more than `max_forks` children; every result is collected exactly once; the call
  ends, and raises if and only if something failed.
* **Entry cycle.** A cycle works on a picture of the queue taken at its start while jobs start,
  end, are held and evicted; several requests share limits and a security class. Correct: requests,
  limits, rates and margins are respected as far as an old picture allows, and nothing is submitted
  for clients that may not.
* **PID files.** Registration, forks, death and probes interleave, and the lock is shared with
  children. Correct: one daemon at a time, and a reported PID belongs to it.
* **Factory supervisor.** Crashes of either side, signals at any time, restarts with a limit.
  Correct: one group process serves, a crashed one returns unless it crashes too often, an orderly
  stop leaves nothing behind.
* **Frontend daemon.** Iterations, failures, hibernation, signals during the withdrawal of ads,
  children that outlive their element. Correct: one generation of elements at a time, failures
  counted within their window, ads withdrawn when the frontend steps back.
* **Frontend element.** It asks for glideins from queries made earlier, some of which failed without
  notice, and what it asked for is acted upon while it asks again. Correct: an entry never gets more
  glideins than its jobs justify, every job that can run gets one, and when the jobs are gone so are
  the glideins, whatever curbs, attenuation and removal rules are set to.
* **Keys.** Files are changed before the daemon knows that it is alone; a factory may die in the middle
  of a renewal; frontends use what they read some time ago. Correct: a key stays usable for its grace
  time, then it is gone, also from the files a restarted group reads.
* **Logs and statistics.** A log grows while it is parsed and cached, by file times of one second;
  iterations lose their results. Correct: a completed glidein is reported once, and what a lost iteration
  leaves out is made up for.
* **Reconfiguration and startup.** A tree is rewritten file by file while glideins submitted months ago still
  download it. Correct: a glidein runs what was in force at its submission or ends, and no later
  reconfiguration makes it end.
* **Other files shared by processes** (credentials, caches). Correct: a reader sees an
  old or a new version, and what is in use is not removed. The downtime file is not among them: its readers take a shared
  `flock`, its writers an exclusive one (`glideFactoryDowntimeLib.py:216`, 408, 467, 553).

Nothing the daemons do is transactional: the only state that survives a crash is the HTCondor queue,
the PID files, the collector's ads, and files: keys, logs and their caches, histories, the stage area, credentials
and downtimes.

## 2. Modules

| Module | Stands for | EXTENDS / instantiates |
|---|---|---|
| `BoundedPool` | abstract: tasks done by at most `Bound` workers at a time | |
| `ForkManager` | `ForkManager.bounded_fork_and_collect` and its children | implements `BoundedPool` |
| `EntryWork` | one entry's cycles on its queue | |
| `PidLock` | one PID file: daemons, their children, observers | |
| `SharedLock` | abstract: a lock that a process shares with the children it forks | |
| `FactorySupervisor` | factory daemon, group process, workers | assumes `SharedLock` of the PID file, which `PidLock` gives |
| `FrontendGroups` | frontend daemon, elements, their children, ads, a master | the same lock, per group |
| `KeyRotation` | factory main, group process and frontends around the key files | |
| `GlideinStats` | HTCondor's log, workers with the cache, statistics of the entry group | |
| `JobMatching` | `countMatch` and `uniqueSets`, as operators | |
| `JobQueue` | the queues of the schedds, and what `countMatch` must say of them | EXTENDS `JobMatching` |
| `FrontendRequests` | a group's iterations, the factory's answer, sites, pool, users | EXTENDS `JobMatching` |
| `StageFiles` | `reconfig_glidein` on the stage area | |
| `GlideinStartup` | a glidein that downloads a tree | EXTENDS `StageFiles` |
| `MCForkManager`, `MCEntryWork`, `MCPidLock`, `MCGlideinStats`, `MCJobMatching`, `MCFrontendRequests`, `MCGlideinStartup` | values for TLC (the others take theirs from the `.cfg`) | the module they are named after |
| `FrontendGroupsProofs` | theorems about the frontend daemon | EXTENDS `FrontendGroups`; instantiates `BoundedPool` |
| `ForkManagerProofs`, `EntryWorkProofs`, `KeyRotationProofs`, `GlideinStatsProofs`, `GlideinStartupProofs` | theorems | the module they are named after |
| `FactorySupervisorProofs` | theorems about the supervisor, the PID file and what one needs of the other | EXTENDS `FactorySupervisor`, `PidLock`; instantiates `SharedLock` |
| `FrontendRequestsProofs` | theorems about matching and requests | EXTENDS `FrontendRequests`, `JobQueue` |

Where a mutant of a definition is needed (an operator that a plausible bug would put in its place,
used to see that a property can fail) it stands just before the definition and its comment says so.

### ForkManager

Variables have the names of the code's. `key_list`'s order is abstracted to any order. `child` is
what the kernel knows of each process: a child that *wrote* has its result in the pipe, one that
*died* has not. `Gather` is one round of `poll` plus `fetch_ready_fork_result_list` plus the
bookkeeping after it, which the code has twice (lines 402-423 and 437-457); polls that report
nothing are stuttering. `Interrupt` is a `KeyboardInterrupt` raised by `termsignal`, or a failing
`os.fork`: the code has no `finally`, so children stay. `CanFail` says which functions may fail.

### EntryWork

`queue` is the schedd, `condorQ` the snapshot of the cycle. `StartCycle` is the beginning of
`check_and_perform_work`; `ProcessRequest` the body of its loop, above all `unit_work_v3`,
`perform_work_v3` and `keepIdleGlideins`; `SkipRequest` its `continue`s and early returns
(malformed request, credentials missing, wrong identity); `EndCycle` the last sanitizing, and
`update_entries_stats` for an entry without requests is a cycle with an empty `todo`.
A request's numbers (`Demands`) are inputs of every step: idle glideins, maximum, `RemoveExcess`
and its margin, so a Frontend may change its mind between cycles.

Statuses are those `hash_status` distinguishes as far as the decisions do: unsubmitted (1001),
queued (1002, 1010, 1100), running (2), staging out (4010), held. Which held or stale glideins are
recoverable, old or out of attempts is data of the job: `Sanitize` may take any of them, within the
rates. condor commands may fail for any job (`Removed`, `Submit` with fewer clusters than asked).
`JobMoves` and `JobLeaves` are HTCondor's and the sites'; they are external. Two assumptions about
it: a held job is released by the Factory only, and a job that stages out does not start again.

`GlideinTotals` is a function of `condorQ` in the model, not a variable: `glideinsWithinLimits`
builds a new one for each request (`glideFactoryEntry.py:381`), so what `add_idle_glideins` adds is lost
before anyone reads it. The documentation says otherwise (section 5).

### PidLock

`register` in five steps (look, create, lock, truncate, write), `relinquish` in two, the probe of
`load_registered` in two or three. `lock` is the holder of the flock: the open file *description*
of a daemon, which its forked children share, or an observer's own. A daemon is named by its PID and
registers once; PIDs are not reused. `check_pid` is `Alive`. The specification is `LockSpec` (so that the module can be
extended together with `FactorySupervisor`).

`SharedLock` is what the daemons need of all this: acquired only when nobody has it, shared with forked children, free
again after the last of them. `FactorySupervisor` and `PidLock` are both shown to implement it, the one
by never registering without the lock, the other by what it does to the file (section 4).

### FactorySupervisor

One group (entry_process_count 1), so that `children` is one process. Group processes are numbered
by start; `rc` is the exit code that `poll` will report. `Register` is the PID file as `PidLock`
has it: it fails while another group process or a worker is alive. `Quit` is the path through
`except KeyboardInterrupt` (exit code 0), `Crash` every other end (not 0). `clean_exit` is
`Terminate` and `CheckDying`; that it looks only once is the consequence of two exceptions
described at `CheckDying`. SIGTERM, SIGHUP and other exceptions of `spawn` lead to the same cleanup and
are one action, `Signalled`. A process that reads its exit code as 0 stays in `children`.

### FrontendGroups

`state`, `active_groups`, `groups_tofinish` and `max_num_failures` are `spawn_iteration`'s;
`failure_times` are the `FailureCounter`s, with ages in the place of times; `clean_old` drops the failures in front for as long as they are too old (`PopOld`). `element` is the process the
daemon started for a group: starting, working, done (exit code 0), failed. `forked` says that it
has live children; `left` are processes nobody waits for any more, working for a *run* (they may
advertise) or a *deadvertise*. `ads` are the groups with ads in the collectors. `recent`, `orderly`
and `excused` are history variables that the properties use and the actions never read:
`excused` has a group when run processes of it were left behind, or the collectors did not answer or
the element died when its ads were withdrawn (`withdrawal_fails`).
`Interrupt` is a SIGTERM or exception at any point of the loop, with the hard kill; `InterruptCleanUp`
one during the withdrawal; `Crash` a SIGKILL of the daemon. Whether the master's ads are found
changes freely. SIGHUP is left out.

### KeyRotation

`Start` to `Register` are the steps of the factory's `main` before and up to its PID file:
`Backup` copies `rsa.key` to `rsa.key.bak` if the key is due (`backup_and_load_old_key`; `shutil.copy`), `Create` and `Save`
are `RSAKey.new` and `RSAKey.save`, called by `GlideinKey.load` (a death in between leaves a *torn* file), `Reload` what `load_old_rsa_key`
and `load_pub_key` find. `FactoryIteration` is one turn of `spawn` as far as keys go, with `Retire` when
the grace time is over (the file may resist removal) and the advertising of the key (it may fail).
`GroupStart`, `GroupIteration`, `Orphaned`, `GroupDies` are the group process; `findGroupWork` and
`find_work` decide whose requests are served. `query_globals` and `AdvertiseRequest` are the two ends of a frontend's
iteration. `Reconfig` is `reconfig_glidein`, which makes a key if there is none (`save_pub_key`). `served`, `advertised`, `underneath`, `backup_failed` and `removal_failed`
are history.

### GlideinStats

`Log` is HTCondor: what a job's events amount to (`get_new_status`, `interpretStatus`). `StartIteration`
decides whether the cache is older than the log; `LoadCache` or `OpenLog`, `Parse`, `Save`, `Check` are
`cachedLogClass.load` in a worker; `Parse` includes the waiting for the output file of a completed job.
`Collect` takes the result back, `ResultLost` drops it, as one failing worker of the group makes it happen for all.
`WriteStats` is `computeDiff` and the state that comes back from its own child. `Restart`
is the end of the group process at any moment. The cache keeps, as history, the log's time when it was read and whether its
writer looked again (`read`, `sure`).

### JobMatching and FrontendRequests

Jobs have a schedd, a cluster and a process id; kinds stand for the values of the attributes that the match expressions
read, `Accepted` for the expressions. The sets of linearized job numbers (`Linear`), the clusters, their numbers
and `uniqueSets` are the code's; shares are counted in `Unit`s of a job, a constant that every number of entries divides, in the
place of floating-point numbers. `Total` is every sum the code accumulates in a loop. `JobQueue` has jobs arrive in and leave the schedds, with any
ids, so that what `countMatch` returns can be stated as an invariant of a queue that changes.

`FrontendRequests` has two steps per iteration of a group: `Observe` queries, matches and computes the requests, `Publish` sends them and
saves the history, each of which may be lost. `Snapshot` is what the queries return, with up to `MaxFailures` faults: a schedd that does not answer or is
blacklisted, no answer of the pool for the group's glideins (and then none for the others), or for the frontend's, or for all of them, an entry in downtime. Limits,
curbs, `compute_glidein_min_idle`, `compute_glidein_max_run`, `choose_remove_excess_type` and `decide_removal_type` are operators
of their own. The factory is coarse here (one client without limits; `EntryWork` has the detail); sites, pool and users are external.
Left out: the removal an operator asks for on the command line (`request_removal_wtype`, `glideinFrontendElement.py:1526`, 1711, 1842, 1918; a run
of its own that goes through `iterate_one` once, with the removal as its request), and `ignore_down_entries` (`glideinFrontendLib.py:546`), with which entries in downtime do not take part in matching.

### StageFiles and GlideinStartup

A file of the stage area has an area (main or entry), a key and the time stamp of the run that wrote it
(`TIMESTR`); a list, a description, a signature and the summary hold names and hashes of others (a hash is
the content hashed). `Reconfigure` loads the tree of the last run and decides what may keep its name (`Reused`); `SaveOrder` is the order
of `save`, `saved` the place in it that the run has reached; `OpenFile` truncates, `FillFile` and `FillSummary` write, `Interrupted` is a failed write or a killed process between any two of them.
`SubmitGlidein` reads the summary as `get_submit_environment` does. `FetchFile` is `fetch_file_base` with its checks in the order of
`glidein_startup.sh`, `CheckDescriptions` the check of the descriptions once signatures are known, `DownloadFails` a failing transfer.

Simplifications: the four file lists are one, with one entry and a constant, a script and a "nocache" file; a run's stamp is its number,
whereas `TIMESTR` has a resolution of one second and is local time, so that a stamp could repeat; reconfigurations do not overlap (the tools
take no lock); web caches, the frontend's files, what the scripts do and the HTCondor tarballs (named by a hash of their content, `cgWParamDict.py:184`)
are left out; what is loaded from a file is what was saved in it, although a value's leading blanks are lost on reading (`cWDictFile.py:488`).
That a list is kept does not happen in the model, nor in the code, where both areas always have a script with a new name. Seen while reading, and true in the model: a "nocache" file is not signed,
so a glidein may run with a truncated one; a file without a line in the signature passes; the stage area is never cleaned; and a torn summary
is repaired by nobody but the operator.

## 3. Runs

| Run | Instance | Checks | Distinct states |
|---|---|---|---|
| `ForkManager` | 4 functions, 2 slots, all may fail | `BoundedChildren` `CompleteResults` `EndsOrStarves` `PoolSpec` | 3 115 |
| `EntryWork` | 4 job ids, 3 requests in 2 classes, 1 of them blacklisted, limits 2 (entry) and 1 (class), 6 demands | `QueueBounded` `PictureCovers` `SubmitWithinRequest` `SubmitWithinLimits` `CleanupKeepsMargin` | 243 131 |
| `PidLock` | 3 daemons, 2 observers (symmetric) | `OneAtWork` `PidIsOwners` `ReportsARegistrant` | 6 139 |
| `FactorySupervisor` | 4 starts, 3 instants, 2 attempts in an interval of 2 | `OneServes` `NoGroupLeft` `RestartsLimited` `CrashedGroupReturns` `StopsEnd` | 74 337 |
| `FrontendGroups` | slave, 2 groups, 1 at a time, 1 failure in a window of 1 tolerated | `OneGeneration` `WorksAlone` `WindowCounted` `AdsAccounted` `AbortsOnlyAfterFailures` `SlaveFollowsMaster` `IterationsEnd` | 177 752 |
| `KeyRotation` | 2 factory starts, 1 frontend, grace 1, 3 instants, 3 keys | `KeyKept` `OldKeyRetired` `ServedAgain` | 1 366 298 |
| `GlideinStats` | 2 glideins (submit, execute, evict, terminate; submit, hold), 4 instants, `GiveUp` 2 | `ReportedOnce` `SettledReportsAll` `StaleOnlyWithinASecond` | 3 242 799 |
| `JobMatching` | all sets of up to 4 jobs in 2 schedds, 4 kinds, 3 entries | `CountsAreTrue` `EveryJobCovered` | 21 985 |
| `FrontendRequests` | 1 entry, 2 jobs in 2 schedds, 2 failures, all limits and curbs in reach | `TypeOK` `GlideinsBounded` `EveryJobServed` `Drains` | 173 839 |
| `GlideinStartup` | 4 configurations, 2 reconfigurations, 1 interrupted | `CurrentIsConfigured` `PromiseKept` `RunsAsPromised` `OnlyFaultsFail` | 1 175 091 |
| `KeyRotation_ignored` | 2 frontends | violates `OldWorkServed` (section 5) | |
| `StageFiles_reuse` | as `GlideinStartup` | violates `UnchangedReuses` (section 5) | |

The type invariants of the modules with proofs, and `SlotAccounting`, `RemainingAccounting`, `StarvedOnlyByFailures` and
`BlacklistedNeverServed`, are theorems (section 4) and are not run again.

What the runs show, and why the bounds are enough:

* **ForkManager.** Four functions on two slots is the least instance in which the fork loop gathers
  more than once, one slot is lost to a failure and work goes on, and both are lost with functions
  left. `BoundedChildren` counts processes, not the code's counter. `EndsOrStarves` says that the
  only way not to end is that failures have taken all slots. `PoolSpec` is refinement of `BoundedPool`.
* **EntryWork.** Two requests share a class, a third has its own; limits of 1 and 2 are reached in every
  order, and `max_submits` and `max_removes` of 2 do not hide them. Four job ids leave room
  for jobs that left the queue but not the snapshot. Job ids are symmetric (`SYMMETRY`; no
  temporal property depends on one of them). `max_releases` is 0: one release per call, as the code's `>` has it.
  `QueueBounded` is not tight with four jobs (its bound for the entry is above what four jobs reach
  unless a check is missing); the theorem covers all sizes. `SubmitWithinRequest`, `SubmitWithinLimits`
  and `CleanupKeepsMargin` relate a step of the cycle to the real queue *after* it, the first against
  what HTCondor did in between, through `PictureCovers`.
* **PidLock.** Three daemons that register once each: two that race and one that follows; a crash with children alive, a creation that races a
  registration and a probe at each point are all within reach. `CHECK_DEADLOCK FALSE`: everyone may
  be dead.
* **FactorySupervisor.** Four starts let a factory restart its group up to its limit, crash, and be
  started beside the leftovers; `restart_attempts` of 2 is the first value for which the list is
  shifted. `MaxGroups` bounds the starts and `MaxTime` the clock; because of the first,
  `CHECK_DEADLOCK FALSE` (all processes dead and no start left).
* **FrontendGroups.** Two groups with one slot have one queued while the other runs, failures of
  different groups in one window, and a withdrawal with one group done. Ages saturate at "too old".
  Failures of a group saturate with the abort: a group fails at most once an iteration and a
  daemon with more than `max_failures` ends. Deadlock is checked. `SlaveFollowsMaster` joins the two directions of
  `shouldHibernate`: a slave hibernates when its master stays and works when it stays away.
* **KeyRotation.** Two starts let a factory die within a renewal and another take over, or be refused after it has
  changed the files; with three keys a key is renewed twice. Time is needed up to one grace period after a renewal. The inductive
  invariant was also checked with a clock of 4 and four keys. `KeyKept` and `ServedAgain` hold only while nobody renewed the files *beneath* a running factory and
  no backup failed; their premises say so. `CHECK_DEADLOCK FALSE`: all starts may be used up.
* **GlideinStats.** The first glidein passes through all that decides about a completion (an eviction before it included), the second keeps the log
  changing. Four instants have the log change in the second it is read, in the one the cache is written, and later, and an output
  that comes too late or never. `ReportedOnce` fails only with a cache that could not be written, as its statement says. The clock ends: `CHECK_DEADLOCK FALSE`.
* **JobMatching.** Three entries is the first number for which `uniqueSets` cuts a part again; cluster and process ids repeat across schedds. The kinds are
  accepted by all, two, one and none of the entries. `CountsAreTrue` compares with counts taken job by job; `EveryJobCovered` says that the rounded shares of the entries
  that accept a set of jobs suffice for it.
* **FrontendRequests.** Limits and curbs of 1 to 4 for two jobs make each the binding one in some state; two failures allow an unseen job together with
  a lost ad, or a failing pool query in two iterations running. The counters of the removal rules are
  scaled from 5 and 10 to 0 and 1, which keeps their order. `GlideinsBounded` takes the cores that the jobs an entry accepts ask for, with
  the floor `min_running` on top, through the fraction and the delta of one (`Allowed`). With one failure more TLC also finds that failing queries make the group ask for the removal
  of everything while jobs run (a hazard in `PROJECT.json`). With one entry nothing is shared by entries: that is `JobMatching`'s subject; with one kind of job
  no glidein stays idle because the waiting jobs do not match it. `Drains` holds whatever the counters of the removal rules say, since glideins nobody uses
  expire by themselves: it would not show a counter that is wrong.
  `CHECK_DEADLOCK FALSE`: nothing is left to do when all jobs are done and the bound of failures is reached.
* **GlideinStartup.** Two reconfigurations after the installation: the tree a glidein was submitted with is rewritten, once by
  an interrupted run, before the glidein has all of it. The configurations differ in a constant in both areas, in a script of one, and in a script and the unsigned file.
  `CHECK_DEADLOCK FALSE`: runs and glidein end.

### Fairness

* `ForkManager`: the parent's loop and every child (weak). A child has a function to evaluate and
  then `os._exit` in a `finally`, and the functions have timeouts of their own only in parts: what is assumed is that they end.
* `FactorySupervisor`: the factory's loop (`RestartGroup`, `GiveUp`) and `clean_exit` go on,
  a starting group reaches its registration, and a group whose parent is gone notices in its next
  iteration (`check_parent` is called in each). Nothing makes workers end or anybody crash.
* `FrontendGroups`: the daemon's loops go on; elements and the children of elements that are waited
  for end. `Finish` has strong fairness, since an element may fork again any number of times in an iteration.
  This excludes the starvation of the fork manager (section 5), which would hang the
  element and with it the iteration: the code has no time limit there. Nothing makes left-over processes end, ads expire or a master come.
* `KeyRotation`: the loops of factory and group go on, a group is started, frontends query and advertise. `ServedAgain`
  assumes besides a factory and a group that stay.
* `FrontendRequests`: iterations begin and end for ever; the factory acts; glideins get through the site's queue, join the pool or fail, and end when
  unused (weak). `Claim` has strong fairness, since slots come and go and the negotiator looks at the queue again and again. Running jobs end. Jobs need not
  arrive, and idle ones need not be removed by their users.
* `EntryWork`, `PidLock`, `GlideinStats`, `JobMatching` and `GlideinStartup` state safety only.

## 4. Theorems

All are for every value of the constants under the named assumptions of the modules (finite
sets, natural numbers, `max_forks > 0`, `restart_attempts > 0`). Each follows the pattern *Init*, *step*,
*consequence*, with one step per action.

* `ForkManagerProofs`: `TypeCorrect`, `SlotsAccounted`, `RemainingAccounted`, `ChildrenBounded`,
  `ResultsComplete`, `StarvedByFailures`, and `ImplementsPool`. The properties are not inductive
  by themselves: `IInv` adds how `child`, `pipe_ids`, `unforked` and `post_work_info` partition
  the registered functions, so that the three counters can be related to cardinalities of sets.
  `ImplementsPool` uses the same invariant: every action is one of the pool's or stutters.
* `EntryWorkProofs`: `TypeCorrect`; `SubmissionWithinLimits` and `BlacklistedUnserved` from what
  `NrToSubmit` returns (`CanAddWithinLimits`, `NrToSubmitBounds`); `PictureCovered` by induction
  (with `SameJobs`: a job the cycle knows keeps its owner); from it `SubmissionWithinRequest`, since the
  live glideins of a request still to do are among those the cycle counted (`LiveCounted`);
  `CleanupMargin` from `RemoveNrIsExcess`. `QueueStaysBounded` needs an invariant that relates
  the queue during a cycle to the queue at its start, `AllServed`: the glideins of any set of
  requests are at most those of the start (or held ones that were tolerated) plus a limit
  for every request *already served* in the cycle, and the bound follows when all are.
* `FactorySupervisorProofs`: `TypeCorrect`, `SingleService`, `NothingLeft`, `RestartsBounded`.
  The first is inductive with `OneHolds` (the lock), the second with `AllWatched` (every group process that runs
  is the factory's child or an orphan), the third with `Recorded`: `children_uptime` is the
  tail of the history of starts, which is ordered, and any start and the one `restart_attempts`
  before it are `restart_interval` apart.
  For the PID file: `LockTypeCorrect`, `MutualExclusion`, `PidOwned`, `RegistrantReported`. `LockIInv` says that the
  lock is held for whoever is at work or probing, and where each
  PID in the file or in an observer's hand comes from.
  Between the two stands `SharedLock`. `FilesGiveLock`: the daemons of `PidLock` that are at work, and those that left children, go through
  the states of a `SharedLock`, although the file is created, truncated, probed and cleared meanwhile. `GroupsRelyOnLock`: so do the group processes and their
  workers, so that what `FactorySupervisor` takes for granted when a process registers is no more than what the file gives.
* `FrontendGroupsProofs`: `TypeCorrect`, `OneGenerationAlways`, `ElementsWorkAlone`, `AdsAreAccounted`. `IInv` has
  the counters of `spawn_iteration` as cardinalities (`Counts`), nothing started outside an iteration or a withdrawal (`Quiet`), children only of elements that work
  (`ForkedWork`), and why ads may be left: a generation that was not waited for (`LeftExcused`), or a withdrawal that is still to come (`OrderlyStops`, `Withdrawn`).
  `WindowCountedAlways` and `AbortsForFailures` rest on `CountersKept`: the ages in a counter never increase from front to back, so that dropping the old ones in front
  drops all old ones (`PopOldIs`), and there are as many entries of every age as failures happened then (`Tallied`); a counter as long as `max_num_failures` therefore stands
  for that many failures within the window. `IterationsArePools`: an iteration is a call of `BoundedPool` with the groups as functions
  and the elements as children, which ends with all of them collected unless an exception or the daemon's death ends it; so `spawn_iteration`
  and `bounded_fork_and_collect`, which share no code, keep one promise (but for the slots that the latter loses).
* `KeyRotationProofs`: `TypeCorrect`, `KeysAreKept`, `OldKeyStaysRetired`. `Retired`, `Past`, `OneUp`, `Parented` and `OldSinceUp` hold always;
  `Alone`, `Renewing`, `FilesHold` and `GroupHolds` while history is *clean* (no renewal beneath another process, no failed backup).
  The argument: whatever was advertised and is not the running factory's own key was advertised before it came up; a key is
  renewed only when it has outlived its predecessor's grace time, so that one backup is enough; and only a lone factory changes the files.
* `GlideinStatsProofs`: `TypeCorrect`, `CompletionsReportedOnce`, `SettledIterationsReport`, `MissedEventsExplained`. `Pictures`: "Completed" is final, and the cache is never ahead
  of the worker that wrote it; `Compared`: what was reported is complete in the cache and in the statistics compared with, unless a cache could not be
  written; `Settled` ties the last iteration to the statistics kept; `Dated` the times of the cache to what it was read from.

* `GlideinStartupProofs`: `InvariantHolds`, `ConfigurationPublished`, `TreesKept`, `OneConfiguration`, `FailsOfFaults`, for any
  configurations and any number of reconfigurations and interruptions. The argument: all files of a tree carry the stamp of the run
  that wrote them (`Named`), but for the constants, which keep an older name only with the same content, and the unsigned file. So a run writes over
  nothing of an earlier tree but its constants, with what they hold already. `StageInv` has what the run under way has
  written so far (`SavedSoFar`) and that the tree the summary promises stands (`Promised`); `GlideinInv` that the tree a glidein was submitted with
  stands too (`Stands`), and that what it has downloaded is what was published (`Downloaded`), so it runs one configuration or has met a fault.
* `FrontendRequestsProofs`: `JobsCountedRight`, `JobsAllCovered`, `LoopTyped`, `GlideinsStayBounded`, for any jobs, kinds, entries,
  schedds and limits. A sum is the number of units under the graph of the function (`TotalIs`), so that what `Total` folds in an unknown order becomes a statement
  about `Cardinality`; from it come splitting, grouping and exchanging sums (`TotalSplit`, `TotalGrouped`, `TotalExchange`).
  Then, along the code: no two jobs go by the same number (`LinearInjective`, because `procid_mul` exceeds every process id); clusters part the jobs (`ClustersPart`) and
  go by different numbers (`FirstInjective`); after each round of `uniqueSets` its sets are the classes of elements that are in the same
  sets so far (`AddSetIs`, `CutIs`); so `outvals` has, for every set of entries, the jobs that exactly these accept (`OutvalsIs`), and all counts follow.
  The coverage is an exchange of two sums: the shares of the entries, job by job, add up to one per matched job (`SharesAddUp`), and rounding adds
  less than one per entry.
  `GlideinsBounded` is not inductive: `IInv` adds that a request for glideins, published or about to be, never names a maximum beyond
  `Allowed`, and that jobs run where they are accepted. A snapshot's idle jobs and running jobs are disjoint sets of accepted jobs whatever
  queries failed, so the cores wanted and the glideins in use fit within what all jobs ask for (`SnapshotIs`); the maximum follows from it (`MaxRunIs`), is used only
  when something is asked for (`MinIdleIs`), and the factory submits below it. Everything else moves glideins from one place to the next, or away.

Where the argument is by induction over numbers or finite sets, it is made from the well-foundedness of `<` on the naturals, without an operator parameter:
every set of numbers has a least element (`Smallest`), so there is no smallest subset without the property (`SubsetDescent`, `SetInduction`).

Every safety property that a run checks is proved. Only model-checked: all liveness properties (`EndsOrStarves`, `CrashedGroupReturns`, `StopsEnd`,
`SlaveFollowsMaster`, `IterationsEnd`, `ServedAgain`, `EveryJobServed`, `Drains`), which the proof system's
backends do not handle (`ENABLED`, fairness).

## 5. Disagreements between code and documentation

Two are shown by a run that violates a property stating what the documentation says:

1. `KeyRotation_ignored` / `OldWorkServed` (`factory/glideFactoryEntryGroup.py:135`; comment at 118-119): the requests made with the
   old key are not appended but dropped as soon as one request for the entry uses the new key.
2. `StageFiles_reuse` / `UnchangedReuses` (`creation/lib/cWDictFile.py:1293`; docstrings at 1269 and 2241): the period of a file is the
   number 0 on one side and the text "0" on the other, so no listed file is ever reused, and a reconfiguration without a change publishes a new tree.

Others were met while modelling; they are true in the models (where modelled) and have no run:

* `lib/fork.py:416` against the docstring at 381-382: a failed child takes its slot with it; after `max_forks` failures the
  call polls nothing for ever. `EndsOrStarves` and `StarvedOnlyByFailures` say that this is the only way not to end.
* `factory/glideFactory.py:549` against the docstring at 313: a group process that ends with exit code 0 is not replaced.
* `factory/glideFactoryEntry.py:381` against `doc/factory/configuration.html:1354-1358`: the totals are rebuilt for each request from the old
  snapshot; together the requests of a cycle may exceed the entry's limit.
* `factory/glideFactoryLib.py:1029` against the docstring at 968: the excess of a security class is taken from one request.
* `factory/glideFactoryEntry.py:979` against the comment at 908: one client that is not in the whitelist puts the following ones in downtime.
* `factory/glideFactoryLib.py:1087`: with `RemoveExcess` ALL the running glideins that are removed include those that stage out.
* `factory/glideFactoryLib.py:2081`: `releaseGlideins` stops after `max_releases` + 1 releases.
* `lib/pidSupport.py:139` against the docstring at 76: a status query can make a start fail.
* `frontend/glideinFrontend.py:312` against the docstring at 327-328: children of a killed element keep its lock, so the withdrawal is refused, and may
  advertise afterwards.
* `frontend/glideinFrontend.py:451`: the groups are sorted by ascending wall time; the comment says longest first.
* `frontend/glideinFrontendElement.py:1962`: the comment sees no harm in a removal request for an entry without jobs; with failed queries the
  count of jobs may be wrong, and what is removed is running.
* `factory/glideFactoryLogParser.py:118`: the comment gives a job one hour to return its output; but the hour is looked at only
  when the log is parsed, and a job waits in the cache until the log changes again.
* `factory/glideFactoryCredentials.py`, `safe_update`: old and new content are compared as bytes with text, so the file is always rewritten, against its docstring.
* `creation/lib/cgWParamDict.py`: a tarball made from a directory is copied under a new name at every reconfiguration, against the comment
  ("already built this tarball, just reuse it").

## 6. Not modelled

The definitions stand for about an eighth of the repository's 58 000 lines of code. Most of the rest has no order of
steps to get wrong: conversions of classads, calls of HTCondor commands and the parsing of their output, XML and RRD output, the
translation of configuration files into dictionaries, command-line tools, scripts that set up a worker node. In particular:

* **Entry group, `iterate_one`.** How the work is spread over the entries' workers and what comes back. That one failing worker loses the results of all is
  in `GlideinStats` (`ResultLost`), not the distribution itself.
* **Factory downtimes.** Their outcomes are inputs in `EntryWork` and faults in `FrontendRequests`; the file itself is read and written under `flock`.
* **Factory credentials.** Their outcomes are inputs of `EntryWork`. The files under concurrent writers and the cleaner are planned.
* **Cleaners and the disk cache.** Planned with the credentials.
* **Monitoring** but for the path of a completed glidein; **Frontend monitoring**: output only.
* **Match expressions** of the frontend are arbitrary Python and enter as a relation. **Credentials of requests** and the classads of resources are not in
  `FrontendRequests`; neither is `spawn_removal`, nor SIGHUP in `FrontendGroups`.
* **Frontend tools, `create_glidein`, the submit directory** (`creation/`): sequential generators.
* **HTCondor access, library utilities, cryptography** but for the steps of saving a key; **user tools, log server, build**.

Time enters only where decisions depend on it (restart interval, failure window, grace time, file times). Sanitizing without other work
(`glideFactoryEntry.py:1028`) may be postponed for ever by an entry that always submits or removes something: any liveness property
would have to assume that away. Reuse of PIDs and the moments without signal handlers in `fork_in_bg` are not modelled.

## 7. Plan

Done: `ForkManager` with `BoundedPool`, `EntryWork`, `PidLock` and `FactorySupervisor` with `SharedLock`, `FrontendGroups`, `KeyRotation`, `GlideinStats`,
`JobMatching` with `JobQueue`, `FrontendRequests`, `StageFiles` with `GlideinStartup`, each with its proofs. Next, in the order of importance:

1. `EntryGroup`: `find_and_perform_work` and `iterate_one` composed with `ForkManager`; abstract specification: an entry's state
   is that of its last successful worker.
2. `CredentialFiles` and `Cleaner`: update, use and removal of credential files; a cleaner forked against files still in use.
3. The locks of `FrontendGroups` as implementations of `SharedLock`, one for each group.
4. That what the factory does in `FrontendRequests` is what `EntryWork` allows with one client.
5. `FrontendRequests` with two entries of unequal acceptance, on the smallest limits.
