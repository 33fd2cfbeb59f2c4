--------------------------- MODULE GlideinStartup ---------------------------
(***************************************************************************)
(* A glidein's download of its files (creation/web_base/glidein_startup.sh)*)
(* beside the reconfigurations of StageFiles.  The glidein is submitted    *)
(* with the names of the two description files and the hashes of the two   *)
(* signature files, as they are in signatures.sha1 at the submission       *)
(* (get_submit_environment), waits in queues for as long as it takes, and  *)
(* then fetches description and signature of main and entry, verifies the  *)
(* descriptions, and fetches the lists and all the files they name.  Any   *)
(* download may fail.  The files of the client (frontend) follow the same  *)
(* loop and are left out; a list, here, has one condition-free script.     *)
(***************************************************************************)
EXTENDS StageFiles, Sequences

VARIABLE glidein

vars == <<stageVars, glidein>>

\* The order of the downloads; <<"check", ..>> verifies both descriptions.
FetchOrder ==
    << <<"main", "description">>, <<"main", "signature">>,
       <<"entry", "description">>, <<"entry", "signature">>,
       <<"main", "check">>,
       <<"main", "list">>, <<"main", "consts">>, <<"main", "script">>, <<"main", "live">>,
       <<"entry", "list">>, <<"entry", "consts">>, <<"entry", "script">>, <<"entry", "live">> >>

NotSubmitted == [phase |-> "none"]

StartupInit == StageInit /\ glidein = NotSubmitted

\* get_submit_environment reads signatures.sha1 afresh; from a torn one the
\* lookup of a key raises and nothing is submitted.
SubmitGlidein ==
    /\ glidein.phase = "none"
    /\ Written(summary)
    /\ glidein' = [phase |-> "fetching", args |-> summary, asked |-> complete.conf, next |-> 1,
                   work |-> [a \in Areas |-> [k \in StageKeys |-> Missing]], fault |-> FALSE]
    /\ UNCHANGED stageVars

\* The stamp under which file k of area a is asked for: from the arguments, the
\* description, or the list.
FetchStamp(g, a, k) ==
    CASE k = "description"            -> g.args[a].descript
      [] k \in {"signature", "list"}  -> g.work[a].description[2][k]
      [] OTHER                        -> g.work[a].list[2][k]

(* Mutant of CheckSignature: disable_check_signature is never reset. *)
CheckSignatureOff(g, a, f, content) == TRUE

\* check_file_signature: a file without a line in signature.sha1 passes.
CheckSignature(g, a, f, content) ==
    LET signed == g.work[a].signature[2]
    IN  f \in DOMAIN signed => content = signed[f]

\* fetch_file_base and the checks after it.  A description must name its
\* signature file, the signature must have the hash of the arguments (no
\* other check is enabled so far); every other file must pass its signature.
Accepted(g, a, k, content) ==
    CASE k = "description" -> content[1] = "description"
      [] k = "signature"   -> content = g.args[a].sign
      [] OTHER             -> /\ content # Missing
                              /\ CheckSignature(g, a, <<k, FetchStamp(g, a, k)>>, content)

AfterStep(g) ==
    [g EXCEPT !.next = @ + 1, !.phase = IF g.next = Len(FetchOrder) THEN "running" ELSE @]

\* A file arrives and is accepted, or the glidein ends (glidein_exit 1).
FetchFile ==
    /\ glidein.phase = "fetching"
    /\ FetchOrder[glidein.next][2] # "check"
    /\ LET a == FetchOrder[glidein.next][1]
           k == FetchOrder[glidein.next][2]
           content == stage[a][<<k, FetchStamp(glidein, a, k)>>]
       IN  glidein' = IF Accepted(glidein, a, k, content)
                      THEN AfterStep([glidein EXCEPT !.work[a][k] = content])
                      ELSE [glidein EXCEPT !.phase = "failed", !.fault = (content = Torn)]
    /\ UNCHANGED stageVars

\* Both descriptions against the signatures, now that the check is enabled.
CheckDescriptions ==
    /\ glidein.phase = "fetching"
    /\ FetchOrder[glidein.next][2] = "check"
    /\ glidein' = IF \A a \in Areas : CheckSignature(glidein, a,
                        <<"description", glidein.args[a].descript>>, glidein.work[a].description)
                  THEN AfterStep(glidein)
                  ELSE [glidein EXCEPT !.phase = "failed"]
    /\ UNCHANGED stageVars

\* wget and curl both fail.
DownloadFails ==
    /\ glidein.phase = "fetching"
    /\ FetchOrder[glidein.next][2] # "check"
    /\ glidein' = [glidein EXCEPT !.phase = "failed", !.fault = TRUE]
    /\ UNCHANGED stageVars

StartupNext ==
    \/ StageNext /\ UNCHANGED glidein
    \/ SubmitGlidein \/ FetchFile \/ CheckDescriptions \/ DownloadFails

StartupSpec == StartupInit /\ [][StartupNext]_vars

-----------------------------------------------------------------------------
(* Properties *)

\* The trees that are promised, the one in signatures.sha1 and the one of the
\* submitted glidein, stay as published whatever reconfigurations follow.
PromiseKept ==
    /\ Written(summary) => TreeKept(summary)
    /\ glidein.phase = "fetching" => TreeKept(glidein.args)

\* A glidein that starts its daemons runs, in both areas, exactly the
\* configuration in force when it was submitted: never a mixture of two
\* reconfigurations, never a truncated file.  (The unsigned "nocache" files
\* are those of the moment of the download.)
RunsAsPromised ==
    glidein.phase = "running" =>
        \A a \in Areas, k \in Immutable : glidein.work[a][k] = Data(glidein.asked[a][k])

\* Reconfigurations do not make glideins fail: one that ends before it runs
\* had a download fail or met a truncated file.
OnlyFaultsFail == glidein.phase = "failed" => glidein.fault
=============================================================================
