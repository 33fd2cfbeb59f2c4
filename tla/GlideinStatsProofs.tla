-------------------------- MODULE GlideinStatsProofs --------------------------
(***************************************************************************)
(* Proofs about GlideinStats: types, and that completed glideins are reported *)
(* once, that a settled iteration makes up for lost ones, and that what a     *)
(* load misses is explained.                                                 *)
(***************************************************************************)
EXTENDS GlideinStats, TLAPS

C(view) == {g \in Glideins : view[g] = "Completed"}

(* What is complete stays so: a job in the log, its end, its output.          *)
Final(g) == log[g] = "Completed" /\ (file_ok(g) \/ now - ended[g] >= GiveUp)

(* What a picture calls completed is so for good, and the cache file is not   *)
(* ahead of the worker that is about to replace it.                          *)
Pictures ==
    /\ \A g \in Glideins : cache.view[g] = "Completed" => Final(g)
    /\ pc \in {"save", "check", "loaded"} =>
          /\ \A g \in Glideins : data[g] = "Completed" => Final(g)
          /\ C(cache.view) \subseteq C(data)
    /\ pc = "check" => data = cache.view
    /\ (pc = "loaded" /\ ~ unsaved) => data = cache.view

(* All that was reported is in the cache file and in the statistics that the  *)
(* next difference is made with.                                             *)
Compared ==
    /\ reported \subseteq C(cache.view)
    /\ current_stats_data.here =>
          /\ reported \subseteq C(current_stats_data.view)
          /\ C(current_stats_data.view) \subseteq C(cache.view)
    /\ (old_stats_data.here /\ pc # "sleep") => reported \subseteq C(old_stats_data.view)
    /\ ~ twice

(* An iteration without a loss leaves what it saw to the next one. *)
Settled ==
    settled =>
        IF pc = "sleep"
        THEN stats_diff /\ current_stats_data.here /\ last = C(current_stats_data.view)
        ELSE old_stats_data.here /\ last = C(old_stats_data.view)

(* The cache is as old as it says. *)
Dated ==
    /\ cache.time <= now /\ cache.read <= logtime /\ logtime <= now
    /\ start_logtime <= logtime
    /\ pc = "check" => cache.read = start_logtime
    /\ cache.sure => SameEvents(cache.view) \/ logtime = cache.read \/ logtime >= cache.time

IInv == TypeOK /\ Pictures /\ (~ unsaved => Compared) /\ Settled /\ Dated

-----------------------------------------------------------------------------
LEMMA EmptyTypes == Nothing \in Views /\ NoClient \in Summaries
BY DEF Nothing, NoClient, Views, Summaries, Statuses, InLog, Live

LEMMA InitIInv == Init => IInv
<1> SUFFICES ASSUME Init PROVE IInv
  OBVIOUS
<1>1. TypeOK
  <2>1. log \in [Glideins -> InLog \cup {"absent"}]
    BY DEF Init, Nothing, InLog
  <2>2. -1 \in Times /\ 0 \in 0..MaxTime
    BY TimesAssumption DEF Times
  <2>3. cache \in [view : Views, time : Times, read : Times, sure : BOOLEAN]
    BY <2>2, EmptyTypes DEF Init
  <2> QED
    BY <2>1, <2>2, <2>3, EmptyTypes DEF Init, TypeOK, Places
<1>2. Pictures /\ Compared /\ Settled /\ Dated
  BY DEF Init, Pictures, Compared, Settled, Dated, SameEvents, C, Nothing, NoClient
<1> QED  BY <1>1, <1>2 DEF IInv

(* Every variable keeps its type. *)
LEMMA NextTyped == TypeOK /\ [Next]_vars => TypeOK'
<1> SUFFICES ASSUME TypeOK, [Next]_vars
             PROVE  TypeOK'
  OBVIOUS
<1> USE TimesAssumption DEF TypeOK, Times
<1>1. CASE Tick
  BY <1>1 DEF Tick, fileVars, loadVars, statVars, pastVars
<1>2. ASSUME NEW g \in Glideins, NEW e \in Logged[g], Log(g, e)
      PROVE  TypeOK'
  BY <1>2 DEF Log, get_new_status, loadVars, statVars, pastVars, Possible, InLog, Live
<1>3. ASSUME NEW g \in Glideins, Output(g)
      PROVE  TypeOK'
  BY <1>3 DEF Output, loadVars, statVars, pastVars
<1>4. CASE StartIteration
  BY <1>4 DEF StartIteration, reset, NoClient, Nothing, Summaries, Views, Statuses, Places,
              fileVars, loadVars, pastVars
<1>5. CASE NoRequest \/ SaveFails
  BY <1>5 DEF NoRequest, SaveFails, Places, fileVars, loadVars, statVars, pastVars
<1>6. CASE LoadCache \/ OpenLog
  BY <1>6 DEF LoadCache, OpenLog, Places, fileVars, statVars, pastVars
<1>7. CASE Parse
  BY <1>7 DEF Parse, loadFromLog, Views, Statuses, Places, fileVars, statVars, pastVars
<1>8. CASE Save
  BY <1>8 DEF Save, Places, loadVars, statVars, pastVars
<1>9. CASE Check
  <2>1. cache' \in [view : Views, time : Times, read : Times, sure : BOOLEAN]
    <3>1. cache' = cache \/ cache' = [cache EXCEPT !.sure = TRUE]
      BY <1>9 DEF Check
    <3> QED  BY <3>1
  <2> QED  BY <1>9, <2>1 DEF Check, Places, statVars, pastVars
<1>10. CASE Collect
  BY <1>10 DEF Collect, Unload, Client, Summaries, Nothing, Views, Statuses, Places, fileVars,
               pastVars
<1>11. CASE ResultLost
  BY <1>11 DEF ResultLost, Unload, Nothing, Views, Statuses, Places, fileVars, statVars,
               pastVars
<1>12. ASSUME NEW kept \in BOOLEAN, WriteStats(kept)
      PROVE  TypeOK'
  BY <1>12 DEF WriteStats, EnteredCompleted, CompletedIn, Summaries, Places, fileVars, loadVars
<1>13. CASE WriteStatsFails
  BY <1>13 DEF WriteStatsFails, Places, fileVars, loadVars, statVars
<1>14. CASE Restart
  <2>1. pc' \in Places /\ start_logtime' \in Times /\ data' \in Views
    BY <1>14, EmptyTypes DEF Restart, Unload, Places
  <2>2. old_stats_data' \in Summaries /\ current_stats_data' \in Summaries
    BY <1>14, EmptyTypes DEF Restart
  <2> HIDE DEF Times
  <2> QED  BY <1>14, <2>1, <2>2 DEF Restart, fileVars
<1>15. CASE UNCHANGED vars
  BY <1>15 DEF vars, fileVars, loadVars, statVars, pastVars
<1> QED
  BY <1>1, <1>2, <1>3, <1>4, <1>5, <1>6, <1>7, <1>8, <1>9, <1>10, <1>11, <1>12,
     <1>13, <1>14, <1>15
   DEF Next, Load

(* Nothing happens to a job that is complete, but that time goes on. *)
LEMMA NextFinal ==
    ASSUME TypeOK, [Next]_vars, NEW g \in Glideins, Final(g)
    PROVE  Final(g)'
<1> USE TimesAssumption DEF TypeOK, Times
<1>1. CASE Tick
  BY <1>1 DEF Tick, Final, file_ok, fileVars
<1>2. ASSUME NEW h \in Glideins, NEW e \in Logged[h], Log(h, e)
      PROVE  Final(g)'
  BY <1>2 DEF Log, Possible, Final, file_ok
<1>3. ASSUME NEW h \in Glideins, Output(h)
      PROVE  Final(g)'
  BY <1>3 DEF Output, Final, file_ok
<1>4. CASE UNCHANGED <<now, log, ended, output>>
  BY <1>4 DEF Final, file_ok
<1>5. CASE StartIteration \/ NoRequest \/ Load \/ Collect \/ ResultLost \/ WriteStatsFails \/
         Restart
  BY <1>4, <1>5 DEF StartIteration, NoRequest, Load, LoadCache, OpenLog, Parse, Save, SaveFails,
                    Check, Collect,
         ResultLost, WriteStatsFails, Restart, fileVars
<1>6. ASSUME NEW kept \in BOOLEAN, WriteStats(kept)
      PROVE  Final(g)'
  BY <1>4, <1>6 DEF WriteStats, fileVars
<1>7. CASE UNCHANGED vars
  BY <1>4, <1>7 DEF vars, fileVars
<1> QED  BY <1>1, <1>2, <1>3, <1>5, <1>6, <1>7 DEF Next

(* Pictures stay right. *)
LEMMA NextPictures == TypeOK /\ Pictures /\ [Next]_vars => Pictures'
<1> SUFFICES ASSUME TypeOK, Pictures, [Next]_vars
             PROVE  Pictures'
  OBVIOUS
<1> USE NextFinal DEF Pictures, C
<1>1. CASE Tick
  BY <1>1 DEF Tick, fileVars, loadVars, pastVars
<1>2. ASSUME NEW g \in Glideins, NEW e \in Logged[g], Log(g, e)
      PROVE  Pictures'
  BY <1>2 DEF Log, loadVars, pastVars
<1>3. ASSUME NEW g \in Glideins, Output(g)
      PROVE  Pictures'
  BY <1>3 DEF Output, loadVars, pastVars
<1>4. CASE StartIteration \/ NoRequest
  BY <1>4 DEF StartIteration, NoRequest, fileVars
<1>5. CASE LoadCache \/ OpenLog
  BY <1>5 DEF LoadCache, OpenLog, fileVars, pastVars
<1>6. CASE Parse
  <2>1. \A g \in Glideins : data'[g] = "Completed" <=> Final(g)
    BY <1>6, TimesAssumption DEF Parse, loadFromLog, Final, TypeOK, Times
  <2> QED  BY <1>6, <2>1 DEF Parse, fileVars, pastVars
<1>7. CASE Save
  BY <1>7 DEF Save, loadVars
<1>8. CASE SaveFails
  BY <1>8 DEF SaveFails, fileVars, loadVars
<1>9. CASE Check
  BY <1>9 DEF Check, TypeOK, pastVars
<1>10. CASE Collect \/ ResultLost
  BY <1>10 DEF Collect, ResultLost, fileVars
<1>11. ASSUME NEW kept \in BOOLEAN, WriteStats(kept)
      PROVE  Pictures'
  BY <1>11 DEF WriteStats, fileVars
<1>12. CASE WriteStatsFails \/ Restart
  BY <1>12 DEF WriteStatsFails, Restart, fileVars
<1>13. CASE UNCHANGED vars
  BY <1>13 DEF vars, fileVars, loadVars, pastVars
<1> QED
  BY <1>1, <1>2, <1>3, <1>4, <1>5, <1>6, <1>7, <1>8, <1>9, <1>10, <1>11, <1>12, <1>13 DEF Next,
                                                                                          Load

(* What is reported was new, and is compared with from now on. *)
LEMMA NextCompared ==
    TypeOK /\ Pictures /\ (~ unsaved => Compared) /\ [Next]_vars => (~ unsaved' => Compared')
<1> SUFFICES ASSUME TypeOK, Pictures, (~ unsaved => Compared), [Next]_vars
             PROVE  (~ unsaved' => Compared')
  OBVIOUS
<1> USE DEF TypeOK, Compared, C
<1>1. CASE Tick
  BY <1>1 DEF Tick, fileVars, statVars, pastVars
<1>2. ASSUME NEW g \in Glideins, NEW e \in Logged[g], Log(g, e)
      PROVE  (~ unsaved' => Compared')
  BY <1>2 DEF Log, statVars, pastVars
<1>3. ASSUME NEW g \in Glideins, Output(g)
      PROVE  (~ unsaved' => Compared')
  BY <1>3 DEF Output, statVars, pastVars
<1>4. CASE StartIteration
  BY <1>4 DEF StartIteration, reset, NoClient, fileVars, pastVars
<1>5. CASE NoRequest
  BY <1>5 DEF NoRequest, fileVars, statVars, pastVars
<1>6. CASE LoadCache \/ OpenLog
  BY <1>6 DEF LoadCache, OpenLog, fileVars, statVars, pastVars
<1>7. CASE Parse
  BY <1>7 DEF Parse, fileVars, statVars, pastVars
<1>8. CASE Save
  BY <1>8 DEF Save, Pictures, statVars, pastVars
<1>9. CASE SaveFails
  BY <1>9 DEF SaveFails
<1>10. CASE Check
  BY <1>10 DEF Check, statVars, pastVars
<1>11. CASE Collect
  BY <1>11 DEF Collect, Client, Pictures, fileVars, pastVars
<1>12. CASE ResultLost
  BY <1>12 DEF ResultLost, fileVars, statVars, pastVars
<1>13. ASSUME NEW kept \in BOOLEAN, WriteStats(kept)
      PROVE  (~ unsaved' => Compared')
  BY <1>13 DEF WriteStats, EnteredCompleted, CompletedIn, fileVars
<1>14. CASE WriteStatsFails
  BY <1>14 DEF WriteStatsFails, fileVars, statVars
<1>15. CASE Restart
  BY <1>15 DEF Restart, NoClient, fileVars
<1>16. CASE UNCHANGED vars
  BY <1>16 DEF vars, fileVars, statVars, pastVars
<1> QED
  BY <1>1, <1>2, <1>3, <1>4, <1>5, <1>6, <1>7, <1>8, <1>9, <1>10, <1>11, <1>12,
     <1>13, <1>14, <1>15, <1>16
   DEF Next, Load

(* A settled iteration is remembered by the statistics. *)
LEMMA NextSettled == TypeOK /\ Settled /\ [Next]_vars => Settled'
<1> SUFFICES ASSUME TypeOK, Settled, [Next]_vars
             PROVE  Settled'
  OBVIOUS
<1> USE DEF TypeOK, Settled, C
<1>1. CASE Tick
  BY <1>1 DEF Tick, statVars, pastVars
<1>2. ASSUME NEW g \in Glideins, NEW e \in Logged[g], Log(g, e)
      PROVE  Settled'
  BY <1>2 DEF Log, statVars, pastVars
<1>3. ASSUME NEW g \in Glideins, Output(g)
      PROVE  Settled'
  BY <1>3 DEF Output, statVars, pastVars
<1>4. CASE StartIteration
  BY <1>4 DEF StartIteration, reset, pastVars
<1>5. CASE NoRequest \/ LoadCache \/ OpenLog \/ Parse \/ Save \/ Check \/ ResultLost
  <2>1. pc # "sleep" /\ pc' # "sleep" /\ UNCHANGED <<statVars, pastVars>>
    BY <1>5 DEF NoRequest, LoadCache, OpenLog, Parse, Save, Check, ResultLost
  <2> QED  BY <2>1 DEF statVars, pastVars
<1>6. CASE SaveFails
  BY <1>6 DEF SaveFails, statVars
<1>7. CASE Collect
  BY <1>7 DEF Collect, pastVars
<1>8. ASSUME NEW kept \in BOOLEAN, WriteStats(kept)
      PROVE  Settled'
  BY <1>8 DEF WriteStats, CompletedIn
<1>9. CASE WriteStatsFails
  BY <1>9 DEF WriteStatsFails
<1>10. CASE Restart
  BY <1>10 DEF Restart
<1>11. CASE UNCHANGED vars
  BY <1>11 DEF vars, statVars, pastVars
<1> QED
  BY <1>1, <1>2, <1>3, <1>4, <1>5, <1>6, <1>7, <1>8, <1>9, <1>10, <1>11 DEF Next, Load

(* The times of the cache stay right. *)
LEMMA NextDated == TypeOK /\ Dated /\ [Next]_vars => Dated'
<1> SUFFICES ASSUME TypeOK, Dated, [Next]_vars
             PROVE  Dated'
  OBVIOUS
<1> USE TimesAssumption DEF TypeOK, Times, Dated
<1>1. CASE Tick
  BY <1>1 DEF Tick, SameEvents, fileVars, loadVars
<1>2. ASSUME NEW g \in Glideins, NEW e \in Logged[g], Log(g, e)
      PROVE  Dated'
  BY <1>2 DEF Log, loadVars
<1>3. ASSUME NEW g \in Glideins, Output(g)
      PROVE  Dated'
  BY <1>3 DEF Output, SameEvents, loadVars
<1>4. CASE StartIteration \/ NoRequest
  BY <1>4 DEF StartIteration, NoRequest, SameEvents, fileVars, loadVars
<1>5. CASE LoadCache \/ OpenLog
  BY <1>5 DEF LoadCache, OpenLog, SameEvents, fileVars
<1>6. CASE Parse
  BY <1>6 DEF Parse, SameEvents, fileVars
<1>7. CASE Save
  BY <1>7 DEF Save, loadVars
<1>8. CASE SaveFails
  BY <1>8 DEF SaveFails, SameEvents, fileVars, loadVars
<1>9. CASE Check
  BY <1>9 DEF Check, SameEvents
<1>10. CASE Collect \/ ResultLost
  BY <1>10 DEF Collect, ResultLost, Unload, SameEvents, fileVars
<1>11. ASSUME NEW kept \in BOOLEAN, WriteStats(kept)
      PROVE  Dated'
  BY <1>11 DEF WriteStats, SameEvents, fileVars, loadVars
<1>12. CASE WriteStatsFails \/ Restart
  BY <1>12 DEF WriteStatsFails, Restart, Unload, SameEvents, fileVars, loadVars
<1>13. CASE UNCHANGED vars
  BY <1>13 DEF vars, SameEvents, fileVars, loadVars
<1> QED
  BY <1>1, <1>2, <1>3, <1>4, <1>5, <1>6, <1>7, <1>8, <1>9, <1>10, <1>11, <1>12, <1>13 DEF Next,
                                                                                          Load

-----------------------------------------------------------------------------
LEMMA NextIInv == IInv /\ [Next]_vars => IInv'
BY NextTyped, NextPictures, NextCompared, NextSettled, NextDated DEF IInv

LEMMA Invariance == Spec => []IInv
BY InitIInv, NextIInv, PTL DEF Spec

(* Every variable has its type: whatever happens to a job, get_new_status and  *)
(* loadFromLog give it one of the statuses the statistics know.              *)
THEOREM TypeCorrect == Spec => []TypeOK
<1>1. IInv => TypeOK
  BY DEF IInv
<1> QED  BY <1>1, Invariance, PTL

(* A glidein that completed is reported once, unless a cache file could not be *)
(* written.                                                                  *)
THEOREM CompletionsReportedOnce == Spec => []ReportedOnce
<1>1. IInv => ReportedOnce
  BY DEF IInv, Compared, ReportedOnce
<1> QED  BY <1>1, Invariance, PTL

(* After an iteration without a loss the next one reports all that completed. *)
THEOREM SettledIterationsReport == Spec => SettledReportsAll
<1>1. IInv /\ [Next]_vars =>
        [(\E kept \in BOOLEAN : WriteStats(kept)) /\ settled /\ current_stats_data.here
            => CompletedIn(current_stats_data) \ last \subseteq reported']_vars
  <2> SUFFICES ASSUME IInv, NEW kept \in BOOLEAN, WriteStats(kept), settled,
                      current_stats_data.here
               PROVE  CompletedIn(current_stats_data) \ last \subseteq reported'
    OBVIOUS
  <2>1. old_stats_data.here /\ last = CompletedIn(old_stats_data)
    BY DEF IInv, Settled, WriteStats, CompletedIn, C
  <2> QED  BY <2>1 DEF WriteStats, EnteredCompleted
<1> QED  BY <1>1, Invariance, PTL DEF Spec, SettledReportsAll

(* A load misses an event only if it came in the second of an earlier event or *)
(* of the cache file, or if the worker did not look at the log again.        *)
THEOREM MissedEventsExplained == Spec => StaleOnlyWithinASecond
<1>1. IInv /\ [Next]_vars =>
        [(pc \in {"ready", "check"} /\ pc' = "loaded")
            => \/ SameEvents(data')
               \/ logtime = cache.time \/ logtime = cache.read
               \/ ~ cache'.sure]_vars
  <2> SUFFICES ASSUME IInv, [Next]_vars, pc \in {"ready", "check"}, pc' = "loaded"
               PROVE  \/ SameEvents(data')
                      \/ logtime = cache.time \/ logtime = cache.read
                      \/ ~ cache'.sure
    OBVIOUS
  <2>1. LoadCache \/ Check
    BY DEF Next, Tick, Log, Output, StartIteration, NoRequest, Load, OpenLog, Parse, Save,
           SaveFails, Collect, ResultLost, WriteStats, WriteStatsFails, Restart, vars
  <2>2. CASE LoadCache
    <3>1. data' = cache.view /\ cache' = cache /\ (logtime = -1 \/ logtime <= cache.time)
      BY <2>2 DEF LoadCache, has_changed, fileVars, IInv, TypeOK, Times
    <3>2. cache.read \in Times /\ cache.time \in Times /\ logtime \in Times
      BY DEF IInv, TypeOK
    <3> QED  BY <3>1, <3>2, TimesAssumption DEF IInv, Dated, SameEvents, Times
  <2>3. CASE Check
    <3>1. logtime <= start_logtime /\ pc = "check"
      BY <2>3 DEF Check
    <3> QED  BY <3>1, TimesAssumption DEF IInv, Dated, TypeOK, Times
  <2> QED  BY <2>1, <2>2, <2>3
<1> QED  BY <1>1, Invariance, PTL DEF Spec, StaleOnlyWithinASecond
=============================================================================
