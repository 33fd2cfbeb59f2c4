------------------------------- MODULE JobQueue -------------------------------
(***************************************************************************)
(* The queues a frontend group finds in its schedds, iteration after         *)
(* iteration: any set of at most MaxJobs jobs, and what countMatch           *)
(* (JobMatching) says of them.                                               *)
(***************************************************************************)
EXTENDS JobMatching

CONSTANTS Clusters, Procs, MaxJobs      \* bounds of the queues

ASSUME QueueAssumption ==
    Clusters \subseteq Nat /\ Procs \subseteq Nat /\ MaxJobs \in Nat

VARIABLE condorq

QueueInit == condorq = [jid \in {} |-> 0]

JobArrives ==
    /\ Cardinality(DOMAIN condorq) < MaxJobs
    /\ \E jid \in [schedd : 0..NrSchedds - 1, cluster : Clusters, proc : Procs] \ DOMAIN condorq :
       \E k \in Kinds :
          condorq' = [i \in DOMAIN condorq \cup {jid} |-> IF i = jid THEN k ELSE condorq[i]]

JobLeaves ==
    \E jid \in DOMAIN condorq :
        condorq' = [i \in DOMAIN condorq \ {jid} |-> condorq[i]]

QueueNext == JobArrives \/ JobLeaves

QueueSpec == QueueInit /\ [][QueueNext]_condorq

-----------------------------------------------------------------------------
(* The jobs exactly the entries of a accept, and those entry e accepts. *)
JobsFor(a) == {jid \in DOMAIN condorq : Accepted[condorq[jid]] = a}

JobsOf(e) == {jid \in DOMAIN condorq : e \in Accepted[condorq[jid]]}

(* The counts computed through numbered jobs, clusters and cut sets are      *)
(* those one gets from the jobs one by one: no job is lost or counted twice, *)
(* whatever schedd, cluster and process it comes from (countMatch).          *)
CountsAreTrue ==
    LET m == countMatch(condorq)
    IN  /\ \A e \in Entries :
              /\ m.count[e] = Cardinality(JobsOf(e))
              /\ m.hereonly[e] = Cardinality(JobsFor({e}))
              /\ m.prop[e] = CeilDiv(Total([jid \in JobsOf(e) |->
                                 Unit \div Cardinality(Accepted[condorq[jid]])]), Unit)
        /\ m.unmatched = Cardinality(JobsFor({}))

(* The shares asked of the entries cover the jobs that match anywhere, and   *)
(* rounding adds less than one job per entry; an entry some job matches is   *)
(* always asked for something, also after the shares are scaled to cores     *)
(* (countMatch, what iterate_one gets of it).                                *)
EveryJobCovered ==
    LET m       == countMatch(condorq)
        matched == Cardinality(DOMAIN condorq \ JobsFor({}))
        asked   == Total(m.prop)
    IN  /\ matched <= asked
        /\ matched # 0 => asked < matched + NrEntries
        /\ \A e \in Entries : (m.count[e] > 0) <=> (m.prop_mc[e] > 0)
        /\ \A e \in Entries : m.hereonly[e] <= m.prop[e] /\ m.prop[e] <= m.count[e]
=============================================================================
