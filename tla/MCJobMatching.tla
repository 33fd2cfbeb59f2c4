---------------------------- MODULE MCJobMatching ----------------------------
(* Every queue of at most MaxJobs jobs, built up and run down job by job.    *)
EXTENDS JobQueue

(* Kinds: one accepted everywhere, one by two entries, one by a single entry *)
(* that asks for two cores, and one nobody accepts.                          *)
MCAccepted == "all" :> {1, 2, 3} @@ "two" :> {1, 3} @@ "one" :> {2} @@ "none" :> {}
MCRequestCpus == "all" :> 1 @@ "two" :> 3 @@ "one" :> 2 @@ "none" :> 1
MCEntryCpus == <<1, 2, 4>>
=============================================================================
