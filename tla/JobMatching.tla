----------------------------- MODULE JobMatching -----------------------------
(***************************************************************************)
(* How a frontend group splits the jobs it found in the schedds over the     *)
(* entries that can run them (frontend/glideinFrontendLib.py: countMatch and *)
(* uniqueSets).  A job is known by its schedd, cluster and process id; jobs  *)
(* that agree on the attributes the match expression reads are of one kind,  *)
(* and what an entry accepts is a relation between kinds and entries.        *)
(* Entries are numbered as glidein_dict lists them.                          *)
(***************************************************************************)
EXTENDS Integers, FiniteSets, SequencesExt

CONSTANTS
    NrEntries,      \* entries found in the factories
    NrSchedds,      \* schedds queried, known as 0 .. NrSchedds - 1
    Kinds,          \* values of the attributes of JobMatchAttrs
    Accepted,       \* kind -> the entries whose match expression it satisfies
    RequestCpus,    \* kind -> cores a job asks for
    EntryCpus,      \* entry -> cores of a glidein times nodes of a submission
    Unit            \* how finely shares are counted, in parts of a job

Entries == 1..NrEntries

ASSUME EntriesAssumption == NrEntries \in Nat \ {0} /\ NrSchedds \in Nat \ {0}
ASSUME KindsAssumption ==
    /\ Accepted \in [Kinds -> SUBSET Entries]
    /\ RequestCpus \in [Kinds -> Nat \ {0}]
    /\ EntryCpus \in [Entries -> Nat \ {0}]

(* Any number of entries can share a job. *)
ASSUME UnitAssumption == Unit \in Nat \ {0} /\ \A n \in Entries : Unit % n = 0

JobId == [schedd : 0..NrSchedds - 1, cluster : Nat, proc : Nat]

(* A queue q is a function from job ids to kinds. *)

-----------------------------------------------------------------------------
(* Numbering the jobs. *)

(* Mutant of procid_mul: the largest process id itself. *)
procid_mulMax(q) == Max({jid.proc : jid \in DOMAIN q} \cup {1})

(* More than any process id in any of the queues. *)
procid_mul(q) == Max({jid.proc : jid \in DOMAIN q} \cup {0}) + 1

(* The number a job is known by in the sets below. *)
Linear(q, jid) == (jid.cluster * procid_mul(q) + jid.proc) * NrSchedds + jid.schedd

cq_jobs(q) == {Linear(q, jid) : jid \in DOMAIN q}

(* The jobs of a kind in one schedd.  A cluster goes by the number of the    *)
(* job that happens to be its first.                                         *)
JobCluster(q, s, k) == {jid \in DOMAIN q : jid.schedd = s /\ q[jid] = k}

JobClusters(q) == {JobCluster(q, s, k) : s \in 0..NrSchedds - 1, k \in Kinds} \ {{}}

first_t(q, cluster) == Linear(q, CHOOSE jid \in cluster : TRUE)

KindOf(q, cluster) == q[CHOOSE jid \in cluster : TRUE]

ClustersFor(q, e) == {c \in JobClusters(q) : e \in Accepted[KindOf(q, c)]}

(* The jobs behind the clusters that go by the given numbers. *)
JobsBehind(q, numbers) ==
    UNION {{Linear(q, jid) : jid \in c} : c \in {d \in JobClusters(q) : first_t(q, d) \in numbers}}

-----------------------------------------------------------------------------
(* uniqueSets. *)

(* Mutant of AddSet: what the sets so far have beyond the next is dropped. *)
AddSetForget(sorted, next) ==
    LET common == {s \cap next : s \in sorted} \ {{}}
    IN  ({next \ UNION common} \cup common) \ {{}}

(* One round: the next set is cut along the disjoint sets found so far. *)
AddSet(sorted, next) ==
    LET common == {s \cap next : s \in sorted} \ {{}}
        old    == (UNION sorted) \ (UNION common)
    IN  ({next \ UNION common} \cup {s \cap old : s \in sorted} \cup common) \ {{}}

(* The disjoint sets, each with the positions of the sets it is a part of. *)
uniqueSets(in_sets) ==
    LET sorted == FoldLeft(AddSet, {}, in_sets)
    IN  {<<{i \in DOMAIN in_sets : s \cap in_sets[i] # {}}, s>> : s \in sorted}

-----------------------------------------------------------------------------
(* countMatch. *)

CeilDiv(a, b) == (a + b - 1) \div b

(* What the values of a function add up to. *)
Total(w) == MapThenSumSet(LAMBDA x : w[x], DOMAIN w)

(* out_glidein_counts, out_cpu_counts: the jobs each entry could run.        *)
out_glidein_counts(q) ==
    [e \in Entries |-> Total([c \in ClustersFor(q, e) |-> Cardinality(c)])]

out_cpu_counts(q) ==
    [e \in Entries |->
        Total([c \in ClustersFor(q, e) |-> RequestCpus[KindOf(q, c)] * Cardinality(c)])]

(* outvals: sets of jobs, each with the entries all of them match. *)
outvals(q) ==
    LET list_of_all_jobs == [e \in Entries |-> {first_t(q, c) : c \in ClustersFor(q, e)}]
    IN  {<<v[1], JobsBehind(q, v[2])>> : v \in uniqueSets(list_of_all_jobs)}

(* new_out_counts: the entries that match a job get an equal share of it. *)
new_out_counts(q) ==
    LET vals == outvals(q)
    IN  [e \in Entries |-> Total([v \in {u \in vals : e \in u[1]} |->
                                    Cardinality(v[2]) * (Unit \div Cardinality(v[1]))])]

unique_to_site(q) ==
    LET vals == outvals(q)
    IN  [e \in Entries |-> Total([v \in {u \in vals : u[1] = {e}} |-> Cardinality(v[2])])]

(* The four counts for each entry, and the jobs that match none. *)
countMatch(q) ==
    LET shares == new_out_counts(q)
        counts == out_glidein_counts(q)
        cpus   == out_cpu_counts(q)
    IN  [count     |-> counts,
         prop      |-> [e \in Entries |-> CeilDiv(shares[e], Unit)],
         hereonly  |-> unique_to_site(q),
         prop_mc   |-> [e \in Entries |->
                           IF counts[e] = 0 THEN 0
                           ELSE CeilDiv(cpus[e] * shares[e], Unit * counts[e] * EntryCpus[e])],
         unmatched |-> Cardinality(cq_jobs(q) \ UNION {v[2] : v \in outvals(q)})]
=============================================================================
