-------------------------- MODULE MCFrontendRequests --------------------------
(* One entry; two jobs, each in a schedd of its own. *)
EXTENDS FrontendRequests

MCAccepted    == "all" :> {1}
MCRequestCpus == "all" :> 1
MCEntryCpus   == <<1>>

MCJobs   == {[schedd |-> 0, cluster |-> 1, proc |-> 0],
             [schedd |-> 1, cluster |-> 1, proc |-> 0]}
MCKindAt == [j \in MCJobs |-> "all"]

MCTotal == "group" :> 4 @@ "frontend" :> 4 @@ "global" :> 4
MCCurb  == "group" :> 1 @@ "frontend" :> 2 @@ "global" :> 2
=============================================================================
