---------------------------- MODULE EntryWorkProofs ----------------------------
(***************************************************************************)
(* Theorems about EntryWork, for all limits, rates, requests and demands.    *)
(***************************************************************************)
EXTENDS EntryWork, FiniteSetTheorems, TLAPS

-----------------------------------------------------------------------------
(* The arithmetic of the limits. *)

(* What GlideinTotals.can_add_idle_glideins allows: never more than it was   *)
(* asked for, and every limit that is not passed yet stays respected.        *)
LEMMA CanAddWithinLimits ==
    ASSUME NEW nr \in Int, NEW idle \in Nat, NEW running \in Nat,
           NEW fe_idle \in Nat, NEW fe_running \in Nat
    PROVE  LET n == can_add_idle_glideins(nr, idle, running, fe_idle, fe_running)
           IN  /\ n \in Int
               /\ n <= nr
               /\ idle + n <= EntryMaxIdle
               /\ idle + running + n <= EntryMaxGlideins
               /\ fe_idle + n <= FeMaxIdle
               /\ fe_idle + fe_running + n <= FeMaxGlideins
BY LimitsAssumption DEF can_add_idle_glideins, Lower

(* What clean_glidein_queue computes: it goes into the removal with at least *)
(* one glidein to remove (a list sliced with 0 or less would lose its tail   *)
(* instead of its head), and not with more than the excess over the request. *)
LEMMA RemoveNrIsExcess ==
    ASSUME NEW d \in DemandType, NEW idle \in Nat, NEW running \in Nat
    PROVE  LET nr == RemoveNr(d, idle, running)
           IN  /\ nr \in Nat
               /\ nr = 0 <=> ~ \/ d.remove # "NO" /\ idle > d.idle + d.margin
                               \/ d.remove = "ALL" /\ running + idle > d.max + d.margin
               /\ nr > 0 => /\ d.remove # "NO"
                            /\ \/ idle - nr = d.idle + d.margin
                               \/ /\ d.remove = "ALL"
                                  /\ idle + running - nr = d.max + d.margin
<1>1. d.idle \in Nat /\ d.max \in Nat /\ d.margin \in Nat
  BY DEF DemandType
<1> QED BY <1>1 DEF RemoveNr

-----------------------------------------------------------------------------
(* Queues. *)

JobType == [req : Requests, status : Statuses]

(* The fields of a queue of glideins. *)
LEMMA QueueFields ==
    ASSUME NEW q \in QueueType
    PROVE  /\ DOMAIN q \in SUBSET Jobs
           /\ q \in [DOMAIN q -> JobType]
           /\ \A j \in DOMAIN q : q[j] \in JobType /\ q[j].req \in Requests
                                  /\ q[j].status \in Statuses
BY DEF QueueType, JobType

(* A function from some of the jobs to job records is a queue. *)
LEMMA QueueIntro ==
    ASSUME NEW D \in SUBSET Jobs, NEW q \in [D -> JobType]
    PROVE  q \in QueueType
BY DEF QueueType, JobType

(* There are finitely many jobs, so any set of them can be counted. *)
LEMMA JobSetsFinite ==
    ASSUME NEW q \in QueueType, NEW S \in SUBSET DOMAIN q
    PROVE  IsFiniteSet(S) /\ Cardinality(S) \in Nat
<1>1. S \in SUBSET Jobs
  BY QueueFields
<1> QED BY <1>1, SetsAssumption, FS_Subset, FS_CardinalityType

(* The counts GlideinTotals sums up are natural numbers. *)
LEMMA CountsNat ==
    ASSUME NEW q \in QueueType, NEW R
    PROVE  IdleOf(q, R) \in Nat /\ RunningOf(q, R) \in Nat /\ HeldOf(q, R) \in Nat
<1>1. \A st : InStatus(q, Of(q, R), st) \in SUBSET DOMAIN q
  BY DEF InStatus, Of
<1> QED BY <1>1, JobSetsFinite DEF IdleOf, RunningOf, HeldOf

(* What keepIdleGlideins decides to submit. *)
LEMMA NrToSubmitBounds ==
    ASSUME TypeOK, NEW r \in Requests, NEW min_idle \in Nat, NEW max \in Nat,
           NrToSubmit(r, min_idle, max) > 0
    PROVE  LET n     == NrToSubmit(r, min_idle, max)
               class == SameClass(r)
           IN  /\ n \in Nat
               /\ min_idle > 0
               /\ n <= min_idle - IdleOf(condorQ, {r})
               /\ n <= max - Live(condorQ, {r})
               /\ n <= max_submits
               /\ IdleOf(condorQ, Requests) + n <= EntryMaxIdle
               /\ Live(condorQ, Requests) + n <= EntryMaxGlideins
               /\ IdleOf(condorQ, class) + n <= FeMaxIdle
               /\ Live(condorQ, class) + n <= FeMaxGlideins
<1> DEFINE idle == IdleOf(condorQ, {r})
           running == RunningOf(condorQ, {r})
           needed == Lower(min_idle - idle, max - idle - running)
           allowed == can_add_idle_glideins(needed,
                       IdleOf(condorQ, Requests), RunningOf(condorQ, Requests),
                       IdleOf(condorQ, SameClass(r)), RunningOf(condorQ, SameClass(r)))
<1>1. \A R : IdleOf(condorQ, R) \in Nat /\ RunningOf(condorQ, R) \in Nat
  BY CountsNat DEF TypeOK
<1>2. needed \in Int /\ needed <= min_idle - idle /\ needed <= max - idle - running
  BY <1>1 DEF Lower
<1>3. /\ allowed \in Int /\ allowed <= needed
      /\ IdleOf(condorQ, Requests) + allowed <= EntryMaxIdle
      /\ IdleOf(condorQ, Requests) + RunningOf(condorQ, Requests) + allowed
            <= EntryMaxGlideins
      /\ IdleOf(condorQ, SameClass(r)) + allowed <= FeMaxIdle
      /\ IdleOf(condorQ, SameClass(r)) + RunningOf(condorQ, SameClass(r)) + allowed
            <= FeMaxGlideins
  <2> HIDE DEF needed
  <2> QED BY <1>1, <1>2, CanAddWithinLimits
<1>4. /\ ~(min_idle - idle <= 0)
      /\ NrToSubmit(r, min_idle, max) = Lower(allowed, max_submits)
  BY DEF NrToSubmit
<1> HIDE DEF needed, allowed
<1>5. /\ NrToSubmit(r, min_idle, max) \in Int
      /\ NrToSubmit(r, min_idle, max) <= allowed
      /\ NrToSubmit(r, min_idle, max) <= max_submits
  BY <1>3, <1>4, LimitsAssumption DEF Lower
<1>6. min_idle > 0
  BY <1>1, <1>4
<1> QED BY <1>1, <1>2, <1>3, <1>5, <1>6, LimitsAssumption DEF Live

-----------------------------------------------------------------------------
(* Type correctness, operation by operation. *)

(* The queue the factory starts with is a queue. *)
LEMMA EmptyQueueType == EmptyQueue \in QueueType
<1>1. EmptyQueue \in [{} -> JobType]
  BY DEF EmptyQueue
<1> QED BY <1>1, QueueIntro

(* removeGlideins leaves a queue. *)
LEMMA RemoveJobsType ==
    ASSUME TypeOK, NEW S, RemoveJobs(S)
    PROVE  queue' \in QueueType
<1>1. DOMAIN queue \ S \in SUBSET Jobs
  BY QueueFields DEF TypeOK
<1>2. queue' \in [DOMAIN queue \ S -> JobType]
  BY QueueFields DEF TypeOK, RemoveJobs
<1> QED BY <1>1, <1>2, QueueIntro

(* submitGlideins leaves a queue, and done_something a truth value. *)
LEMMA SubmitType ==
    ASSUME TypeOK, NEW r \in Requests, NEW n, Submit(r, n)
    PROVE  queue' \in QueueType /\ done_something' \in BOOLEAN
<1>1. PICK new \in SUBSET FreshJobs :
          /\ queue' = [j \in DOMAIN queue \cup new |->
                          IF j \in new THEN [req |-> r, status |-> "unsubmitted"]
                          ELSE queue[j]]
          /\ done_something' = (done_something \/ Cardinality(new) = n)
  BY DEF Submit
<1>2. DOMAIN queue \cup new \in SUBSET Jobs
  BY QueueFields DEF TypeOK, FreshJobs
<1>3. [req |-> r, status |-> "unsubmitted"] \in JobType
  BY DEF JobType, Statuses
<1>4. queue' \in [DOMAIN queue \cup new -> JobType]
  BY <1>1, <1>3, QueueFields DEF TypeOK
<1> QED BY <1>1, <1>2, <1>4, QueueIntro DEF TypeOK

(* The queue without the glideins gone, and with those released out of hold. *)
Sanitized(gone, released) ==
    [j \in DOMAIN queue \ gone |->
        IF j \in released /\ queue[j].status = "held"
        THEN [queue[j] EXCEPT !.status = "unsubmitted"]
        ELSE queue[j]]

(* The four removals and the release of sanitizeGlideins, as one change. *)
LEMMA SanitizeShape ==
    ASSUME NEW listed, NEW calls, Sanitize(listed, calls)
    PROVE  \E gone : \E released \in SUBSET listed : queue' = Sanitized(gone, released)
<1> DEFINE held == InStatus(condorQ, listed, {"held"})
<1>1. PICK stale    \in Removed(InStatus(condorQ, listed, {"unsubmitted", "queued"}), calls),
           runstale \in Removed(InStatus(condorQ, listed, {"running", "stage_out"}), calls),
           forcex   \in Removed(held, calls) :
        \E unrecoverable \in Removed(held \ forcex, calls) :
        \E released \in SUBSET ((held \ (forcex \cup unrecoverable)) \cap DOMAIN queue) :
            /\ Cardinality(released) <= calls * (max_releases + 1)
            /\ queue' = Sanitized(stale \cup runstale \cup forcex \cup unrecoverable, released)
  BY Zenon DEF Sanitize, Sanitized
<1>2. PICK unrecoverable \in Removed(held \ forcex, calls) :
        \E released \in SUBSET ((held \ (forcex \cup unrecoverable)) \cap DOMAIN queue) :
            queue' = Sanitized(stale \cup runstale \cup forcex \cup unrecoverable, released)
  BY <1>1
<1>4. PICK released \in SUBSET ((held \ (forcex \cup unrecoverable)) \cap DOMAIN queue) :
            queue' = Sanitized(stale \cup runstale \cup forcex \cup unrecoverable, released)
  BY <1>2
<1>3. released \in SUBSET listed
  BY DEF InStatus
<1> QED BY <1>4, <1>3

(* sanitizeGlideins leaves a queue. *)
LEMMA SanitizeType ==
    ASSUME TypeOK, NEW listed, NEW calls, Sanitize(listed, calls)
    PROVE  queue' \in QueueType
<1>1. PICK gone, released : queue' = Sanitized(gone, released)
  BY SanitizeShape
<1>2. DOMAIN queue \ gone \in SUBSET Jobs
  BY QueueFields DEF TypeOK
<1>3. \A j \in DOMAIN queue : /\ queue[j] \in JobType
                              /\ [queue[j] EXCEPT !.status = "unsubmitted"] \in JobType
  BY QueueFields DEF TypeOK, JobType, Statuses
<1>4. queue' \in [DOMAIN queue \ gone -> JobType]
  BY <1>1, <1>3 DEF Sanitized
<1> QED BY <1>2, <1>4, QueueIntro

(* keepIdleGlideins, whichever way out it takes, leaves a queue. *)
LEMMA KeepIdleType ==
    ASSUME TypeOK, NEW r \in Requests, NEW d, NEW min_idle, KeepIdle(r, d, min_idle)
    PROVE  queue' \in QueueType /\ done_something' \in BOOLEAN
<1>1. CASE SanitizeRequest(r)
  <2>1. Sanitize(Of(condorQ, {r}), 1)
    BY <1>1 DEF SanitizeRequest
  <2>2. done_something' \in BOOLEAN
    BY <1>1 DEF SanitizeRequest, TypeOK
  <2> QED BY <2>1, <2>2, SanitizeType
<1>2. CASE Submit(r, NrToSubmit(r, min_idle, d.max))
  BY <1>2, SubmitType
<1>3. CASE Clean(r, d)
  BY <1>3, RemoveJobsType DEF Clean, TypeOK
<1> QED BY <1>1, <1>2, <1>3 DEF KeepIdle

(* Every step of the entry and of HTCondor keeps the types. *)
LEMMA NextType ==
    ASSUME TypeOK, [Next]_vars
    PROVE  TypeOK'
<1>1. CASE StartCycle
  BY <1>1 DEF StartCycle, TypeOK
<1>2. ASSUME NEW r \in Requests, SkipRequest(r) PROVE TypeOK'
  BY <1>2 DEF SkipRequest, DowntimeFor, TypeOK
<1>3. ASSUME NEW r \in Requests, NEW d \in Demands, NEW class_down \in BOOLEAN,
             ProcessRequest(r, d, class_down)
      PROVE  TypeOK'
  <2>1. PICK min_idle : KeepIdle(r, d, min_idle)
    BY <1>3 DEF ProcessRequest
  <2>2. queue' \in QueueType /\ done_something' \in BOOLEAN
    BY <2>1, KeepIdleType
  <2> QED BY <1>3, <2>2 DEF ProcessRequest, DowntimeFor, TypeOK
<1>4. CASE EndCycle
  <2>1. queue' \in QueueType
    BY <1>4, SanitizeType DEF EndCycle, TypeOK
  <2> QED BY <1>4, <2>1, EmptyQueueType DEF EndCycle, TypeOK
<1>5. ASSUME NEW j \in DOMAIN queue, JobMoves(j) PROVE TypeOK'
  <2>1. PICK m \in Moves : queue' = [queue EXCEPT ![j].status = m[2]]
    BY <1>5 DEF JobMoves
  <2>2. m[2] \in Statuses
    BY DEF Moves, Statuses
  <2>3. queue' \in [DOMAIN queue -> JobType]
    BY <2>1, <2>2, QueueFields DEF TypeOK, JobType
  <2>4. queue' \in QueueType
    BY <2>3, QueueFields, QueueIntro DEF TypeOK
  <2> QED BY <1>5, <2>4 DEF JobMoves, cycleVars, TypeOK
<1>6. ASSUME NEW j \in DOMAIN queue, JobLeaves(j) PROVE TypeOK'
  BY <1>6, RemoveJobsType DEF JobLeaves, cycleVars, TypeOK
<1>7. CASE UNCHANGED vars
  BY <1>7 DEF vars, TypeOK
<1> QED BY <1>1, <1>2, <1>3, <1>4, <1>5, <1>6, <1>7 DEF Next

(* The factory's bookkeeping is well formed: every glidein in the queue, and *)
(* in the picture a cycle has of it, belongs to one of the requests, however *)
(* submissions, removals and HTCondor's own moves interleave.                *)
THEOREM TypeCorrect == Spec => []TypeOK
<1>1. Init => TypeOK
  BY EmptyQueueType DEF Init, TypeOK
<1>2. TypeOK /\ [Next]_vars => TypeOK'
  BY NextType
<1> QED BY <1>1, <1>2, PTL DEF Spec

-----------------------------------------------------------------------------
(* What a request does to the queue. *)

(* Sanitizing and cleaning up submit nothing. *)
LEMMA SanitizeAddsNone ==
    ASSUME NEW listed, NEW calls, Sanitize(listed, calls)
    PROVE  NewJobs = {}
BY DEF Sanitize, NewJobs

(* Cleaning up submits nothing. *)
LEMMA CleanAddsNone ==
    ASSUME NEW r, NEW d, Clean(r, d)
    PROVE  NewJobs = {}
BY DEF Clean, RemoveJobs, NewJobs

(* New glideins: keepIdleGlideins counted what is missing, found it within   *)
(* the limits, and submitted no more than that.                              *)
LEMMA NewJobsOfRequest ==
    ASSUME TypeOK, NEW r \in Requests, NEW d \in Demands, NEW class_down \in BOOLEAN,
           ProcessRequest(r, d, class_down), NewJobs # {}
    PROVE  /\ ~has_sec_class_exceeded_max_held(r)
           /\ glideinsWithinLimits
           /\ ~DowntimeFor(r)
           /\ \E n \in Nat :
                 /\ n = NrToSubmit(r, d.idle, d.max) /\ n > 0
                 /\ IsFiniteSet(NewJobs)
                 /\ Cardinality(NewJobs) \in Nat
                 /\ Cardinality(NewJobs) <= n
           /\ NewJobs \cap DOMAIN condorQ = {}
           /\ queue' = [j \in DOMAIN queue \cup NewJobs |->
                           IF j \in NewJobs THEN [req |-> r, status |-> "unsubmitted"]
                           ELSE queue[j]]
<1> DEFINE min_idle == IF DowntimeFor(r) \/ class_down \/ ~glideinsWithinLimits
                       THEN 0 ELSE d.idle
           n == NrToSubmit(r, min_idle, d.max)
<1>1. KeepIdle(r, d, min_idle)
  BY DEF ProcessRequest
<1>2. d \in DemandType /\ d.idle \in Nat /\ d.max \in Nat
  BY DemandsAssumption DEF DemandType
<1>3. min_idle \in Nat
  BY <1>2
<1> HIDE DEF min_idle
<1>4. ~has_sec_class_exceeded_max_held(r) /\ n > 0 /\ Submit(r, n)
  <2>1. ~SanitizeRequest(r)
    BY SanitizeAddsNone DEF SanitizeRequest
  <2>2. ~Clean(r, d)
    BY CleanAddsNone
  <2> QED BY <1>1, <2>1, <2>2 DEF KeepIdle
<1>5. n \in Nat /\ min_idle > 0
  BY <1>2, <1>3, <1>4, NrToSubmitBounds
<1>6. ~DowntimeFor(r) /\ glideinsWithinLimits /\ min_idle = d.idle
  BY <1>5 DEF min_idle
<1>7. PICK new \in SUBSET FreshJobs :
          /\ Cardinality(new) <= n
          /\ queue' = [j \in DOMAIN queue \cup new |->
                          IF j \in new THEN [req |-> r, status |-> "unsubmitted"]
                          ELSE queue[j]]
  BY <1>4 DEF Submit
<1>8. NewJobs = new
  BY <1>7 DEF NewJobs, FreshJobs
<1>9. IsFiniteSet(new) /\ Cardinality(new) \in Nat
  BY SetsAssumption, FS_Subset, FS_CardinalityType DEF FreshJobs
<1>10. new \cap DOMAIN condorQ = {}
  BY DEF FreshJobs
<1> QED BY <1>4, <1>5, <1>6, <1>7, <1>8, <1>9, <1>10

(* The only step that both takes a request off the list and adds glideins is *)
(* the one that serves it.                                                   *)
LEMMA NewJobsOfStep ==
    ASSUME TypeOK, Next, NewJobs # {}, NEW r \in todo \ todo'
    PROVE  /\ r \in Requests
           /\ \E d \in Demands, class_down \in BOOLEAN : ProcessRequest(r, d, class_down)
<1>1. r \in Requests
  BY DEF TypeOK
<1>2. ~StartCycle
  BY DEF StartCycle, NewJobs
<1>3. \A s \in Requests : ~SkipRequest(s)
  BY DEF SkipRequest, NewJobs
<1>4. ~EndCycle
  BY DEF EndCycle
<1>5. \A j \in DOMAIN queue : ~JobMoves(j) /\ ~JobLeaves(j)
  BY DEF JobMoves, JobLeaves, cycleVars
<1>6. PICK s \in Requests, d \in Demands, class_down \in BOOLEAN :
          ProcessRequest(s, d, class_down)
  BY <1>2, <1>3, <1>4, <1>5 DEF Next
<1>7. s = r
  BY <1>6 DEF ProcessRequest
<1> QED BY <1>1, <1>6, <1>7

(* The new glideins fit into every limit, on top of what condor_q showed. *)
Fits(r) ==
    LET n     == Cardinality(NewJobs)
        class == SameClass(r)
    IN  /\ IdleOf(condorQ, Requests) + n <= EntryMaxIdle
        /\ Live(condorQ, Requests) + n <= EntryMaxGlideins
        /\ IdleOf(condorQ, class) + n <= FeMaxIdle
        /\ Live(condorQ, class) + n <= FeMaxGlideins
        /\ HeldOf(condorQ, Requests) < EntryMaxHeld
        /\ HeldOf(condorQ, class) < FeMaxHeld

(* A request that is served fits in the limits with what it submits. *)
LEMMA ServedFits ==
    ASSUME TypeOK, NewJobs # {}, NEW r \in Requests, NEW d \in Demands,
           NEW class_down \in BOOLEAN, ProcessRequest(r, d, class_down)
    PROVE  Fits(r)
<1>1. d.idle \in Nat /\ d.max \in Nat
  BY DemandsAssumption DEF DemandType
<1>2. PICK n \in Nat : /\ n = NrToSubmit(r, d.idle, d.max) /\ n > 0
                       /\ Cardinality(NewJobs) \in Nat
                       /\ Cardinality(NewJobs) <= n
  BY NewJobsOfRequest
<1>3. HeldOf(condorQ, SameClass(r)) < FeMaxHeld
  <2>1. ~(HeldOf(condorQ, SameClass(r)) >= FeMaxHeld)
    BY NewJobsOfRequest DEF has_sec_class_exceeded_max_held
  <2>2. HeldOf(condorQ, SameClass(r)) \in Nat
    BY CountsNat DEF TypeOK
  <2> QED BY <2>1, <2>2, LimitsAssumption
<1>4. HeldOf(condorQ, Requests) < EntryMaxHeld
  BY NewJobsOfRequest DEF glideinsWithinLimits
<1>5. /\ IdleOf(condorQ, Requests) + n <= EntryMaxIdle
      /\ Live(condorQ, Requests) + n <= EntryMaxGlideins
      /\ IdleOf(condorQ, SameClass(r)) + n <= FeMaxIdle
      /\ Live(condorQ, SameClass(r)) + n <= FeMaxGlideins
  BY <1>1, <1>2, NrToSubmitBounds
<1>6. \A R : IdleOf(condorQ, R) \in Nat /\ Live(condorQ, R) \in Nat
  BY CountsNat DEF TypeOK, Live
<1> QED BY <1>2, <1>3, <1>4, <1>5, <1>6, LimitsAssumption DEF Fits

(* What is submitted for a request fits into every limit of the entry and of *)
(* the frontend's security class, on top of what condor_q showed.            *)
THEOREM SubmissionWithinLimits == Spec => SubmitWithinLimits
<1>1. TypeOK /\ [Next]_vars => [NewJobs # {} => \A r \in todo \ todo' : Fits(r)]_vars
  BY NewJobsOfStep, ServedFits
<1> QED BY <1>1, TypeCorrect, PTL DEF Spec, SubmitWithinLimits, Fits

-----------------------------------------------------------------------------
(* Who a glidein works for. *)

(* No step moves a glidein from one request to another: after a step that is *)
(* not a submission, what is in the queue was there for the same request.    *)
LEMMA OwnersKept ==
    ASSUME TypeOK, [Next]_vars, NEW j \in DOMAIN queue' \cap DOMAIN queue
    PROVE  queue'[j].req = queue[j].req
<1>1. \A S : RemoveJobs(S) => queue'[j].req = queue[j].req
  BY DEF RemoveJobs
<1>2. \A listed, calls : Sanitize(listed, calls) => queue'[j].req = queue[j].req
  BY QueueFields DEF Sanitize, TypeOK, JobType
<1>3. ASSUME NEW r \in Requests, NEW d \in Demands, NEW class_down \in BOOLEAN,
             ProcessRequest(r, d, class_down)
      PROVE  queue'[j].req = queue[j].req
  <2>1. PICK min_idle : KeepIdle(r, d, min_idle)
    BY <1>3 DEF ProcessRequest
  <2>2. CASE \E n : Submit(r, n)
    BY <2>2 DEF Submit, FreshJobs
  <2> QED BY <2>1, <2>2, <1>1, <1>2 DEF KeepIdle, SanitizeRequest, Clean
<1>4. ASSUME NEW i \in DOMAIN queue, JobMoves(i) PROVE queue'[j].req = queue[j].req
  BY <1>4, QueueFields DEF JobMoves, TypeOK, JobType
<1>5. StartCycle \/ (\E r \in Requests : SkipRequest(r)) \/ UNCHANGED vars
      => queue'[j].req = queue[j].req
  BY DEF StartCycle, SkipRequest, vars
<1>6. EndCycle => queue'[j].req = queue[j].req
  BY <1>2 DEF EndCycle
<1>7. \A i \in DOMAIN queue : JobLeaves(i) => queue'[j].req = queue[j].req
  BY <1>1 DEF JobLeaves
<1> QED BY <1>3, <1>4, <1>5, <1>6, <1>7 DEF Next

(* Every step that adds glideins serves a request. *)
LEMMA NewJobsServe ==
    ASSUME TypeOK, [Next]_vars, NewJobs # {}
    PROVE  \E r \in todo, d \in Demands, class_down \in BOOLEAN :
              /\ ProcessRequest(r, d, class_down)
              /\ r \in Requests
<1>1. ~(StartCycle \/ (\E r \in Requests : SkipRequest(r)) \/ UNCHANGED vars)
  BY DEF StartCycle, SkipRequest, vars, NewJobs
<1>2. ~EndCycle
  BY SanitizeAddsNone DEF EndCycle, NewJobs
<1>3. \A j \in DOMAIN queue : ~JobMoves(j) /\ ~JobLeaves(j)
  BY QueueFields DEF JobMoves, JobLeaves, RemoveJobs, NewJobs, TypeOK
<1>4. PICK r \in Requests, d \in Demands, class_down \in BOOLEAN :
          ProcessRequest(r, d, class_down)
  BY <1>1, <1>2, <1>3 DEF Next
<1> QED BY <1>4 DEF ProcessRequest

(* A client that the whitelist does not list never gets a glidein.           *)
THEOREM BlacklistedUnserved == Spec => []BlacklistedNeverServed
<1>1. Init => BlacklistedNeverServed
  BY DEF Init, EmptyQueue, BlacklistedNeverServed
<1>2. TypeOK /\ BlacklistedNeverServed /\ [Next]_vars => BlacklistedNeverServed'
  <2> SUFFICES ASSUME TypeOK, BlacklistedNeverServed, [Next]_vars,
                      NEW j \in DOMAIN queue'
               PROVE  queue'[j].req \notin Blacklisted
    BY DEF BlacklistedNeverServed
  <2>1. CASE j \in DOMAIN queue
    BY <2>1, OwnersKept DEF BlacklistedNeverServed
  <2>2. CASE j \notin DOMAIN queue
    <3>1. j \in NewJobs
      BY <2>2 DEF NewJobs
    <3>2. PICK r \in todo, d \in Demands, class_down \in BOOLEAN :
              ProcessRequest(r, d, class_down) /\ r \in Requests
      BY <3>1, NewJobsServe
    <3>3. ~DowntimeFor(r) /\ queue'[j].req = r
      BY <3>1, <3>2, NewJobsOfRequest
    <3> QED BY <3>3 DEF DowntimeFor
  <2> QED BY <2>1, <2>2
<1> QED BY <1>1, <1>2, TypeCorrect, PTL DEF Spec

-----------------------------------------------------------------------------
(* The picture of the queue that a cycle works on. *)

(* A job id means the same glidein in the picture and in the queue. *)
SameJobs == \A j \in DOMAIN queue \cap DOMAIN condorQ : queue[j].req = condorQ[j].req

(* No step gives the glideins of condorQ to another request. *)
LEMMA SameJobsKept ==
    ASSUME TypeOK, SameJobs, [Next]_vars
    PROVE  SameJobs'
<1> SUFFICES ASSUME NEW j \in DOMAIN queue' \cap DOMAIN condorQ'
             PROVE  queue'[j].req = condorQ'[j].req
  BY DEF SameJobs
<1>1. CASE StartCycle
  BY <1>1 DEF StartCycle
<1>2. CASE condorQ' = condorQ
  <2>1. CASE j \in DOMAIN queue
    BY <1>2, <2>1, OwnersKept DEF SameJobs
  <2>2. CASE j \notin DOMAIN queue
    <3>1. j \in NewJobs
      BY <2>2 DEF NewJobs
    <3>2. PICK r \in todo, d \in Demands, class_down \in BOOLEAN :
              ProcessRequest(r, d, class_down) /\ r \in Requests
      BY <3>1, NewJobsServe
    <3>3. NewJobs \cap DOMAIN condorQ = {}
      BY <3>1, <3>2, NewJobsOfRequest
    <3> QED BY <1>2, <3>1, <3>3
  <2> QED BY <2>1, <2>2
<1>3. CASE EndCycle
  BY <1>3 DEF EndCycle, EmptyQueue
<1>4. StartCycle \/ EndCycle \/ condorQ' = condorQ
  BY DEF Next, SkipRequest, ProcessRequest, JobMoves, JobLeaves, cycleVars, vars
<1> QED BY <1>1, <1>2, <1>3, <1>4

LiveStatuses == {"unsubmitted", "queued", "running"}

(* A glidein that is live after a step was live before it, unless the step   *)
(* submitted it or took it out of hold.                                      *)
LEMMA LiveBefore ==
    ASSUME TypeOK, SameJobs, [Next]_vars, ~StartCycle, ~EndCycle,
           NEW j \in DOMAIN queue', queue'[j].status \in LiveStatuses,
           queue'[j].req \in todo'
    PROVE  j \in DOMAIN queue /\ queue[j].status \in LiveStatuses
                              /\ queue[j].req = queue'[j].req
<1>1. ASSUME NEW r \in Requests, NEW d \in Demands, NEW class_down \in BOOLEAN,
             ProcessRequest(r, d, class_down)
      PROVE  j \in DOMAIN queue /\ queue[j].status \in LiveStatuses
  <2>1. PICK min_idle : KeepIdle(r, d, min_idle)
    BY <1>1 DEF ProcessRequest
  <2>2. queue'[j].req # r
    BY <1>1 DEF ProcessRequest
  <2>3. CASE \E n : Submit(r, n)
    BY <2>2, <2>3 DEF Submit
  <2>4. CASE Clean(r, d)
    BY <2>4 DEF Clean, RemoveJobs
  <2>5. CASE SanitizeRequest(r)
    <3>1. PICK gone : \E released \in SUBSET Of(condorQ, {r}) :
              queue' = Sanitized(gone, released)
      BY <2>5, SanitizeShape DEF SanitizeRequest
    <3>2. PICK released \in SUBSET Of(condorQ, {r}) : queue' = Sanitized(gone, released)
      BY <3>1
    <3>3. j \in DOMAIN queue /\ queue[j] \in JobType
      BY <3>2, QueueFields DEF TypeOK, Sanitized
    <3>4. queue'[j].req = queue[j].req
      BY <3>2, <3>3 DEF JobType, Sanitized
    <3>5. j \notin released
      BY <2>2, <3>3, <3>4 DEF SameJobs, Of
    <3> QED BY <3>2, <3>3, <3>5 DEF Sanitized
  <2> QED BY <2>1, <2>3, <2>4, <2>5 DEF KeepIdle
<1>2. ASSUME NEW i \in DOMAIN queue, JobMoves(i)
      PROVE  j \in DOMAIN queue /\ queue[j].status \in LiveStatuses
  <2>1. PICK m \in Moves : queue[i].status = m[1] /\ queue' = [queue EXCEPT ![i].status = m[2]]
    BY <1>2 DEF JobMoves
  <2>2. m[1] \in LiveStatuses
    BY DEF Moves, LiveStatuses
  <2> QED BY <2>1, <2>2
<1>3. ASSUME NEW i \in DOMAIN queue, JobLeaves(i)
      PROVE  j \in DOMAIN queue /\ queue[j].status \in LiveStatuses
  BY <1>3 DEF JobLeaves, RemoveJobs
<1>4. ASSUME (\E r \in Requests : SkipRequest(r)) \/ UNCHANGED vars
      PROVE  j \in DOMAIN queue /\ queue[j].status \in LiveStatuses
  BY <1>4 DEF SkipRequest, vars
<1>5. j \in DOMAIN queue /\ queue[j].status \in LiveStatuses
  BY <1>1, <1>2, <1>3, <1>4 DEF Next
<1> QED BY <1>5, OwnersKept

(* The old picture errs on one side: a request that is still to be served    *)
(* has no live glidein that the cycle does not count.                        *)
THEOREM PictureCovered == Spec => [](SameJobs /\ PictureCovers)
<1>1. Init => SameJobs /\ PictureCovers
  BY DEF Init, EmptyQueue, SameJobs, PictureCovers
<1>2. TypeOK /\ SameJobs /\ PictureCovers /\ [Next]_vars => PictureCovers'
  <2> SUFFICES ASSUME TypeOK, SameJobs, PictureCovers, [Next]_vars
               PROVE  PictureCovers'
    OBVIOUS
  <2>1. CASE StartCycle
    BY <2>1 DEF StartCycle, PictureCovers
  <2>2. CASE EndCycle
    BY <2>2 DEF EndCycle, PictureCovers
  <2>3. CASE ~StartCycle /\ ~EndCycle
    <3>1. condorQ' = condorQ /\ todo' \subseteq todo
      BY <2>3 DEF Next, SkipRequest, ProcessRequest, JobMoves, JobLeaves, cycleVars, vars
    <3> QED BY <2>3, <3>1, LiveBefore DEF PictureCovers, LiveStatuses
  <2> QED BY <2>1, <2>2, <2>3
<1> QED BY <1>1, <1>2, SameJobsKept, TypeCorrect, PTL DEF Spec

-----------------------------------------------------------------------------
(* What a request may have. *)

LiveJobs(q, R) == InStatus(q, Of(q, R), LiveStatuses)

(* The live glideins are counted by Live. *)
LEMMA LiveCounted ==
    ASSUME NEW q \in QueueType, NEW R
    PROVE  Live(q, R) = Cardinality(LiveJobs(q, R)) /\ Live(q, R) \in Nat
<1> DEFINE idle == InStatus(q, Of(q, R), {"unsubmitted", "queued"})
           running == InStatus(q, Of(q, R), {"running"})
<1>1. idle \in SUBSET DOMAIN q /\ running \in SUBSET DOMAIN q
  BY DEF InStatus, Of
<1>2. IsFiniteSet(idle) /\ IsFiniteSet(running)
  BY <1>1, JobSetsFinite
<1>3. LiveJobs(q, R) = idle \cup running /\ idle \cap running = {}
  BY DEF LiveJobs, LiveStatuses, InStatus
<1> HIDE DEF idle, running
<1>4. Cardinality(LiveJobs(q, R)) = Cardinality(idle) + Cardinality(running)
  <2>1. Cardinality(idle \cup running)
          = Cardinality(idle) + Cardinality(running) - Cardinality(idle \cap running)
    BY <1>2, FS_Union
  <2>2. Cardinality(idle \cap running) = 0
    BY <1>3, FS_EmptySet
  <2>3. Cardinality(idle) \in Nat /\ Cardinality(running) \in Nat
    BY <1>2, FS_CardinalityType
  <2> QED BY <1>3, <2>1, <2>2, <2>3
<1>5. Cardinality(idle) \in Nat /\ Cardinality(running) \in Nat
  BY <1>2, FS_CardinalityType
<1> QED BY <1>4, <1>5 DEF Live, IdleOf, RunningOf, idle, running

(* A step adds at most Cardinality(NewJobs) to a set of glideins it does not *)
(* enlarge in any other way.                                                 *)
LEMMA GrowthBound ==
    ASSUME TypeOK, TypeOK', IsFiniteSet(NewJobs),
           NEW S \in SUBSET Jobs, NEW T \in SUBSET Jobs, T \subseteq S \cup NewJobs
    PROVE  Cardinality(T) <= Cardinality(S) + Cardinality(NewJobs)
<1>1. IsFiniteSet(S) /\ IsFiniteSet(T)
  BY SetsAssumption, FS_Subset
<1>2. /\ IsFiniteSet(S \cup NewJobs)
      /\ Cardinality(S \cup NewJobs)
            = Cardinality(S) + Cardinality(NewJobs) - Cardinality(S \cap NewJobs)
  BY <1>1, FS_Union
<1>3. Cardinality(T) <= Cardinality(S \cup NewJobs)
  BY <1>2, FS_Subset
<1>4. IsFiniteSet(S \cap NewJobs)
  BY <1>1, FS_Intersection
<1>5. /\ Cardinality(S) \in Nat /\ Cardinality(T) \in Nat
      /\ Cardinality(NewJobs) \in Nat /\ Cardinality(S \cap NewJobs) \in Nat
      /\ Cardinality(S \cup NewJobs) \in Nat
  BY <1>1, <1>2, <1>4, FS_CardinalityType
<1> QED BY <1>2, <1>3, <1>5

(* A request is given new glideins only, and so many that it does not have   *)
(* more than it asked for, although the count they are computed from is old. *)
THEOREM SubmissionWithinRequest == Spec => SubmitWithinRequest
<1> DEFINE Right(r, d) ==
             /\ \A j \in NewJobs : queue'[j].req = r
             /\ Live(queue', {r}) <= d.max
             /\ RemovedJobs = {}
<1>1. ASSUME TypeOK, TypeOK', PictureCovers, NewJobs # {},
             NEW r \in Requests, NEW d \in Demands, NEW class_down \in BOOLEAN,
             ProcessRequest(r, d, class_down)
      PROVE  Right(r, d)
  <2>1. d.idle \in Nat /\ d.max \in Nat
    BY DemandsAssumption DEF DemandType
  <2>2. r \in todo
    BY <1>1 DEF ProcessRequest
  <2>3. PICK n \in Nat : /\ n = NrToSubmit(r, d.idle, d.max) /\ n > 0
                         /\ IsFiniteSet(NewJobs)
                         /\ Cardinality(NewJobs) \in Nat
                         /\ Cardinality(NewJobs) <= n
    BY <1>1, NewJobsOfRequest
  <2>4. queue' = [j \in DOMAIN queue \cup NewJobs |->
                     IF j \in NewJobs THEN [req |-> r, status |-> "unsubmitted"]
                     ELSE queue[j]]
    BY <1>1, NewJobsOfRequest
  <2>5. LiveJobs(queue', {r}) \subseteq LiveJobs(condorQ, {r}) \cup NewJobs
    BY <1>1, <2>2, <2>4 DEF LiveJobs, LiveStatuses, InStatus, Of, PictureCovers
  <2>6. LiveJobs(queue', {r}) \in SUBSET Jobs /\ LiveJobs(condorQ, {r}) \in SUBSET Jobs
    BY <1>1, QueueFields DEF LiveJobs, InStatus, Of, TypeOK
  <2>7. Cardinality(LiveJobs(queue', {r}))
           <= Cardinality(LiveJobs(condorQ, {r})) + Cardinality(NewJobs)
    BY <1>1, <2>3, <2>5, <2>6, GrowthBound
  <2>8. /\ Live(queue', {r}) = Cardinality(LiveJobs(queue', {r}))
        /\ Live(condorQ, {r}) = Cardinality(LiveJobs(condorQ, {r}))
        /\ Live(queue', {r}) \in Nat /\ Live(condorQ, {r}) \in Nat
    BY <1>1, LiveCounted DEF TypeOK
  <2>9. n <= d.max - Live(condorQ, {r})
    BY <1>1, <2>1, <2>3, NrToSubmitBounds
  <2>10. Live(queue', {r}) <= d.max
    BY <2>1, <2>3, <2>7, <2>8, <2>9
  <2>11. RemovedJobs = {} /\ \A j \in NewJobs : queue'[j].req = r
    BY <2>4 DEF RemovedJobs, NewJobs
  <2> QED BY <2>10, <2>11
<1>2. TypeOK /\ TypeOK' /\ PictureCovers /\ [Next]_vars =>
         [NewJobs # {} => \A r \in Requests, d \in Demands, class_down \in BOOLEAN :
                             ProcessRequest(r, d, class_down) => Right(r, d)]_vars
  BY <1>1
<1> QED BY <1>2, TypeCorrect, PictureCovered, PTL DEF Spec, SubmitWithinRequest

-----------------------------------------------------------------------------
(* What a cleanup may remove. *)

(* A list that is cut down to nr glideins has no more than nr. *)
LEMMA ShortenedSize ==
    ASSUME NEW S, IsFiniteSet(S), NEW nr \in Nat, NEW T \in Shortened(S, nr)
    PROVE  T \in SUBSET S /\ Cardinality(T) <= nr
<1>1. CASE Cardinality(S) <= nr
  BY <1>1 DEF Shortened
<1>2. CASE ~(Cardinality(S) <= nr)
  BY <1>2 DEF Shortened
<1> QED BY <1>1, <1>2

(* Apart from held glideins, which go with a request for none at all, what   *)
(* is given to condor_rm is no more than the excess.                         *)
LEMMA RemovalIsExcess ==
    ASSUME TypeOK, NEW r, NEW d \in DemandType, NEW listed \in RemovalLists(r, d),
           NEW gone \in SUBSET listed, gone # {},
           gone \cap InStatus(condorQ, DOMAIN condorQ, {"held"}) = {}
    PROVE  LET nr == RemoveNr(d, IdleOf(condorQ, SameClass(r)),
                              RunningOf(condorQ, SameClass(r)))
           IN  nr > 0 /\ Cardinality(gone) <= nr
<1> DEFINE mine == Of(condorQ, {r})
           nr == RemoveNr(d, IdleOf(condorQ, SameClass(r)), RunningOf(condorQ, SameClass(r)))
           unsubmitted == InStatus(condorQ, mine, {"unsubmitted"})
           queued == InStatus(condorQ, mine, {"queued"})
           running == InStatus(condorQ, mine, {"running", "stage_out"})
           held == InStatus(condorQ, mine, {"held"})
<1>1. nr \in Nat
  <2>1. IdleOf(condorQ, SameClass(r)) \in Nat /\ RunningOf(condorQ, SameClass(r)) \in Nat
    BY CountsNat DEF TypeOK
  <2> QED BY <2>1, RemoveNrIsExcess
<1>2. IsFiniteSet(unsubmitted) /\ IsFiniteSet(queued) /\ IsFiniteSet(running)
  <2>1. unsubmitted \in SUBSET DOMAIN condorQ /\ queued \in SUBSET DOMAIN condorQ
        /\ running \in SUBSET DOMAIN condorQ
    BY DEF InStatus, Of
  <2> QED BY <2>1, JobSetsFinite DEF TypeOK
<1>3. gone \cap held = {}
  BY DEF InStatus, Of
<1>4. \/ nr > 0 /\ listed \in Shortened(unsubmitted, nr)
      \/ nr > 0 /\ listed \in Shortened(queued, nr)
      \/ nr > 0 /\ \E S \in Shortened(running, nr) : listed = S \cup held
      \/ listed = held
      \/ listed = {}
  BY DEF RemovalLists
<1> HIDE DEF nr, unsubmitted, queued, running, held
<1>5. CASE nr > 0 /\ listed \in Shortened(unsubmitted, nr)
  <2>1. Cardinality(listed) <= nr /\ IsFiniteSet(listed)
    BY <1>1, <1>2, <1>5, ShortenedSize, FS_Subset
  <2> QED BY <1>1, <1>5, <2>1, FS_Subset, FS_CardinalityType DEF nr
<1>6. CASE nr > 0 /\ listed \in Shortened(queued, nr)
  <2>1. Cardinality(listed) <= nr /\ IsFiniteSet(listed)
    BY <1>1, <1>2, <1>6, ShortenedSize, FS_Subset
  <2> QED BY <1>1, <1>6, <2>1, FS_Subset, FS_CardinalityType DEF nr
<1>7. CASE nr > 0 /\ \E S \in Shortened(running, nr) : listed = S \cup held
  <2>1. PICK S \in Shortened(running, nr) : listed = S \cup held
    BY <1>7
  <2>2. Cardinality(S) <= nr /\ IsFiniteSet(S)
    BY <1>1, <1>2, ShortenedSize, FS_Subset
  <2>3. gone \in SUBSET S
    BY <1>3, <2>1
  <2> QED BY <1>1, <1>7, <2>2, <2>3, FS_Subset, FS_CardinalityType DEF nr
<1>8. ~(listed = held) /\ ~(listed = {})
  BY <1>3
<1> QED BY <1>4, <1>5, <1>6, <1>7, <1>8

(* A cleanup leaves the security class what the request asks for, and the    *)
(* margin on top of it.                                                      *)
THEOREM CleanupMargin == Spec => CleanupKeepsMargin
<1> DEFINE nonheld == {"unsubmitted", "queued", "running", "stage_out"}
           Kept(r, d) ==
             LET gone  == InStatus(condorQ, RemovedJobs,
                              {"unsubmitted", "queued", "running", "stage_out"})
                 class == SameClass(r)
             IN  /\ ProcessRequest(r, d, FALSE)
                 /\ ~has_sec_class_exceeded_max_held(r)
                 /\ gone # {}
                 => /\ d.remove # "NO"
                    /\ \/ IdleOf(condorQ, class) - Cardinality(gone)
                              >= d.idle + d.margin
                       \/ Live(condorQ, class) - Cardinality(gone)
                              >= d.max + d.margin
<1>1. ASSUME TypeOK, NEW r \in todo \ todo', NEW d \in Demands
      PROVE  Kept(r, d)
  <2> DEFINE gone == InStatus(condorQ, RemovedJobs, nonheld)
             class == SameClass(r)
             nr == RemoveNr(d, IdleOf(condorQ, class), RunningOf(condorQ, class))
  <2> SUFFICES ASSUME ProcessRequest(r, d, FALSE), ~has_sec_class_exceeded_max_held(r),
                      gone # {}
               PROVE  /\ d.remove # "NO"
                      /\ \/ IdleOf(condorQ, class) - Cardinality(gone) >= d.idle + d.margin
                         \/ Live(condorQ, class) - Cardinality(gone) >= d.max + d.margin
    OBVIOUS
  <2>1. d \in DemandType /\ d.idle \in Nat /\ d.max \in Nat /\ d.margin \in Nat
    BY DemandsAssumption DEF DemandType
  <2>2. gone \in SUBSET RemovedJobs /\ RemovedJobs # {}
    BY DEF InStatus
  <2>3. Clean(r, d)
    <3>1. PICK min_idle : KeepIdle(r, d, min_idle)
      BY DEF ProcessRequest
    <3>2. \A n : ~Submit(r, n)
      BY <2>2 DEF Submit, RemovedJobs
    <3> QED BY <3>1, <3>2 DEF KeepIdle
  <2>4. PICK listed \in RemovalLists(r, d) : \E S \in Removed(listed, 1) : RemoveJobs(S)
    BY <2>3 DEF Clean
  <2>5. RemovedJobs \in SUBSET listed
    BY <2>4 DEF RemoveJobs, Removed, RemovedJobs
  <2>6. gone \cap InStatus(condorQ, DOMAIN condorQ, {"held"}) = {}
    BY DEF InStatus
  <2>7. gone \in SUBSET listed
    BY <2>2, <2>5
  <2>8. nr > 0 /\ Cardinality(gone) <= nr
    <3> HIDE DEF gone
    <3> QED BY <1>1, <2>1, <2>4, <2>6, <2>7, RemovalIsExcess
  <2>9. gone \in SUBSET DOMAIN queue
    BY <2>2 DEF RemovedJobs
  <2>10. Cardinality(gone) \in Nat
    BY <1>1, <2>9, JobSetsFinite DEF TypeOK
  <2>11. IdleOf(condorQ, class) \in Nat /\ RunningOf(condorQ, class) \in Nat
    BY <1>1, CountsNat DEF TypeOK
  <2>12. /\ nr \in Nat
         /\ d.remove # "NO"
         /\ \/ IdleOf(condorQ, class) - nr = d.idle + d.margin
            \/ /\ d.remove = "ALL"
               /\ IdleOf(condorQ, class) + RunningOf(condorQ, class) - nr
                     = d.max + d.margin
    BY <2>1, <2>8, <2>11, RemoveNrIsExcess
  <2> HIDE DEF gone, nr, class
  <2> QED BY <2>1, <2>8, <2>10, <2>11, <2>12 DEF Live
<1>2. TypeOK /\ [Next]_vars =>
         [RemovedJobs # {} => \A r \in todo \ todo', d \in Demands : Kept(r, d)]_vars
  BY <1>1
<1> QED BY <1>2, TypeCorrect, PTL DEF Spec, CleanupKeepsMargin

-----------------------------------------------------------------------------
(* How many glideins there can ever be. *)

(* The glideins that are in one of the counts the limits are about. *)
Counted(q, R) == InStatus(q, Of(q, R), {"unsubmitted", "queued", "running", "held"})

All(q, R) == Cardinality(Counted(q, R))

(* What is counted is live or held, and nothing is both. *)
LEMMA AllCounted ==
    ASSUME NEW q \in QueueType, NEW R
    PROVE  /\ All(q, R) = Live(q, R) + HeldOf(q, R)
           /\ All(q, R) \in Nat /\ Live(q, R) \in Nat /\ HeldOf(q, R) \in Nat
<1> DEFINE live == LiveJobs(q, R)
           held == InStatus(q, Of(q, R), {"held"})
<1>1. live \in SUBSET DOMAIN q /\ held \in SUBSET DOMAIN q
  BY DEF LiveJobs, InStatus, Of
<1>2. IsFiniteSet(live) /\ IsFiniteSet(held)
  BY <1>1, JobSetsFinite
<1>3. Counted(q, R) = live \cup held /\ live \cap held = {}
  BY DEF Counted, LiveJobs, LiveStatuses, InStatus
<1>4. Live(q, R) = Cardinality(live) /\ HeldOf(q, R) = Cardinality(held)
  BY LiveCounted DEF HeldOf
<1> HIDE DEF live, held
<1>5. Cardinality(live \cup held)
         = Cardinality(live) + Cardinality(held) - Cardinality(live \cap held)
  BY <1>2, FS_Union
<1>6. Cardinality(live \cap held) = 0
  BY <1>3, FS_EmptySet
<1>7. Cardinality(live) \in Nat /\ Cardinality(held) \in Nat
  BY <1>2, FS_CardinalityType
<1> QED BY <1>3, <1>4, <1>5, <1>6, <1>7 DEF All

(* A step takes glideins into the counts only by submitting them. *)
LEMMA CountedBefore ==
    ASSUME TypeOK, [Next]_vars, NEW j \in DOMAIN queue', j \notin NewJobs,
           queue'[j].status # "stage_out"
    PROVE  j \in DOMAIN queue /\ queue[j].status # "stage_out"
<1>1. j \in DOMAIN queue
  BY DEF NewJobs
<1>2. \A S : RemoveJobs(S) => queue[j].status # "stage_out"
  BY DEF RemoveJobs
<1>3. ASSUME NEW listed, NEW calls, Sanitize(listed, calls) PROVE queue[j].status # "stage_out"
  <2>1. PICK gone, released : queue' = Sanitized(gone, released)
    BY <1>3, SanitizeShape
  <2> QED BY <2>1 DEF Sanitized
<1>4. ASSUME NEW r \in Requests, NEW d \in Demands, NEW class_down \in BOOLEAN,
             ProcessRequest(r, d, class_down)
      PROVE  queue[j].status # "stage_out"
  <2>1. PICK min_idle : KeepIdle(r, d, min_idle)
    BY <1>4 DEF ProcessRequest
  <2>2. CASE \E n : Submit(r, n)
    BY <1>1, <2>2 DEF Submit, FreshJobs
  <2> QED BY <2>1, <2>2, <1>2, <1>3 DEF KeepIdle, SanitizeRequest, Clean
<1>5. ASSUME NEW i \in DOMAIN queue, JobMoves(i) PROVE queue[j].status # "stage_out"
  <2>1. PICK m \in Moves : queue[i].status = m[1] /\ queue' = [queue EXCEPT ![i].status = m[2]]
    BY <1>5 DEF JobMoves
  <2>2. m[1] # "stage_out"
    BY DEF Moves
  <2> QED BY <2>1, <2>2
<1>6. StartCycle \/ (\E r \in Requests : SkipRequest(r)) \/ UNCHANGED vars
      => queue[j].status # "stage_out"
  BY DEF StartCycle, SkipRequest, vars
<1>7. EndCycle => queue[j].status # "stage_out"
  BY <1>3 DEF EndCycle
<1>8. \A i \in DOMAIN queue : JobLeaves(i) => queue[j].status # "stage_out"
  BY <1>2 DEF JobLeaves
<1> QED BY <1>1, <1>4, <1>5, <1>6, <1>7, <1>8 DEF Next

(* Only submissions enlarge the set of counted glideins. *)
LEMMA CountedGrowth ==
    ASSUME TypeOK, [Next]_vars, NEW R
    PROVE  Counted(queue', R) \subseteq Counted(queue, R) \cup NewJobs
<1> SUFFICES ASSUME NEW j \in Counted(queue', R), j \notin NewJobs
             PROVE  j \in Counted(queue, R)
  OBVIOUS
<1>1. j \in DOMAIN queue' /\ queue'[j].req \in R /\ queue'[j].status # "stage_out"
  BY DEF Counted, InStatus, Of
<1>2. j \in DOMAIN queue /\ queue[j].status # "stage_out"
  BY <1>1, CountedBefore
<1>3. queue[j].req = queue'[j].req
  BY <1>1, <1>2, OwnersKept
<1>4. queue[j].status \in Statuses
  BY <1>2, QueueFields DEF TypeOK
<1> QED BY <1>1, <1>2, <1>3, <1>4 DEF Counted, InStatus, Of, Statuses

(* The sets of requests that have limits, with the limits. *)
Limited(R, max_glideins, max_held) ==
    \/ R = Requests /\ max_glideins = EntryMaxGlideins /\ max_held = EntryMaxHeld
    \/ \E r \in Requests : /\ R = SameClass(r)
                           /\ max_glideins = FeMaxGlideins /\ max_held = FeMaxHeld

Within(n, R, max_glideins, max_held) ==
    n > 0 => n < Cardinality(R \ Blacklisted) * max_glideins + max_held

(* The requests of R that the cycle is done with, and that can be served. *)
Done(R) == (R \ Blacklisted) \ todo

(* The inductive invariant behind QueueBounded.  A cycle starts from a queue *)
(* within the bound.  As long as it submits nothing for R, there are no more *)
(* glideins than condor_q showed; once it has, there were few held ones, and *)
(* each request served added at most what was missing to the maximum.        *)
Served(R, max_glideins, max_held) ==
    LET live == Live(condorQ, R)
        held == HeldOf(condorQ, R)
        k    == Cardinality(Done(R))
    IN  /\ Within(All(condorQ, R), R, max_glideins, max_held)
        /\ ~working => Within(All(queue, R), R, max_glideins, max_held)
        /\ working =>
              \/ All(queue, R) <= All(condorQ, R)
              \/ /\ k >= 1 /\ held < max_held /\ live <= max_glideins
                 /\ All(queue, R) <= live + held + k * (max_glideins - live)

(* The arithmetic of the bound. *)
LEMMA MoreServed ==
    ASSUME NEW k \in Nat, NEW l \in Nat, k <= l, NEW missing \in Nat
    PROVE  k * missing <= l * missing
<1>1. PICK i \in Nat : l = k + i
  <2>1. l - k \in Nat /\ l = k + (l - k)
    OBVIOUS
  <2> QED BY <2>1
<1>2. l * missing = k * missing + i * missing
  BY <1>1
<1>3. k * missing \in Nat /\ i * missing \in Nat
  OBVIOUS
<1> QED BY <1>2, <1>3

(* Requests that submit what is missing each stay below so many limits. *)
LEMMA ServedWithin ==
    ASSUME NEW k \in Nat, NEW l \in Nat, 1 <= k, k <= l, NEW M \in Nat, NEW H \in Nat,
           NEW live \in Nat, live <= M, NEW held \in Nat, held < H
    PROVE  live + held + k * (M - live) < l * M + H
<1>1. M - live \in Nat
  OBVIOUS
<1>2. k * (M - live) <= l * (M - live)
  BY <1>1, MoreServed
<1>3. l * (M - live) = l * M - l * live
  OBVIOUS
<1>4. live <= l * live
  <2>1. 1 * live <= l * live
    BY MoreServed
  <2> QED BY <2>1
<1>5. /\ k * (M - live) \in Int /\ l * (M - live) \in Int
      /\ l * M \in Int /\ l * live \in Int
  OBVIOUS
<1> QED BY <1>2, <1>3, <1>4, <1>5

(* In either case the bound holds at every moment. *)
LEMMA ServedBounded ==
    ASSUME TypeOK, NEW R \in SUBSET Requests, NEW M \in Nat, NEW H \in Nat, Served(R, M, H)
    PROVE  Within(All(queue, R), R, M, H)
<1> DEFINE live == Live(condorQ, R)
           held == HeldOf(condorQ, R)
           k == Cardinality(Done(R))
           l == Cardinality(R \ Blacklisted)
<1>1. k \in Nat /\ l \in Nat /\ k <= l
  <2>1. IsFiniteSet(R \ Blacklisted)
    BY SetsAssumption, FS_Subset
  <2>2. Done(R) \in SUBSET (R \ Blacklisted)
    BY DEF Done
  <2> QED BY <2>1, <2>2, FS_Subset, FS_CardinalityType
<1>2. /\ All(queue, R) \in Nat /\ All(condorQ, R) \in Nat
      /\ live \in Nat /\ held \in Nat
  BY AllCounted DEF TypeOK
<1>3. l * M \in Nat
  BY <1>1
<1>4. CASE All(queue, R) <= All(condorQ, R)
  BY <1>2, <1>3, <1>4 DEF Served, Within
<1>5. CASE /\ k >= 1 /\ held < H /\ live <= M
           /\ All(queue, R) <= live + held + k * (M - live)
  <2>1. live + held + k * (M - live) < l * M + H
    <3> HIDE DEF live, held, k, l
    <3> QED BY <1>1, <1>2, <1>5, ServedWithin
  <2>2. k * (M - live) \in Int
    BY <1>1, <1>2
  <2> HIDE DEF live, held, k
  <2>3. All(queue, R) < l * M + H
    BY <1>2, <1>3, <1>5, <2>1, <2>2
  <2> QED BY <2>3 DEF Within
<1>6. CASE ~working
  BY <1>6 DEF Served
<1> QED BY <1>4, <1>5, <1>6 DEF Served, TypeOK

(* Nothing is counted in the empty queue. *)
LEMMA NoneInEmpty ==
    ASSUME NEW R
    PROVE  All(EmptyQueue, R) = 0
<1>1. Counted(EmptyQueue, R) = {}
  BY DEF Counted, InStatus, Of, EmptyQueue
<1> QED BY <1>1, FS_EmptySet DEF All

(* A step that serves no request of R adds nothing to its counts. *)
LEMMA AllGrowth ==
    ASSUME TypeOK, TypeOK', [Next]_vars, NEW R
    PROVE  /\ NewJobs \cap Counted(queue', R) = {} => All(queue', R) <= All(queue, R)
           /\ All(queue', R) <= All(queue, R) + Cardinality(NewJobs)
<1>1. Counted(queue', R) \in SUBSET Jobs /\ Counted(queue, R) \in SUBSET Jobs
  BY QueueFields DEF Counted, InStatus, Of, TypeOK
<1>2. IsFiniteSet(NewJobs) /\ IsFiniteSet(Counted(queue, R)) /\ IsFiniteSet(Counted(queue', R))
  <2>1. NewJobs \in SUBSET Jobs
    BY QueueFields DEF NewJobs, TypeOK
  <2> QED BY <1>1, <2>1, SetsAssumption, FS_Subset
<1>3. Counted(queue', R) \subseteq Counted(queue, R) \cup NewJobs
  BY CountedGrowth
<1>4. Cardinality(Counted(queue', R)) <= Cardinality(Counted(queue, R)) + Cardinality(NewJobs)
  BY <1>1, <1>2, <1>3, GrowthBound
<1>5. ASSUME NewJobs \cap Counted(queue', R) = {}
      PROVE  Cardinality(Counted(queue', R)) <= Cardinality(Counted(queue, R))
  <2>1. Counted(queue', R) \in SUBSET Counted(queue, R)
    BY <1>3, <1>5
  <2> QED BY <1>2, <2>1, FS_Subset
<1> QED BY <1>4, <1>5 DEF All

(* Within a cycle, requests are only crossed off. *)
LEMMA DoneGrows ==
    ASSUME TypeOK, TypeOK', NEW R \in SUBSET Requests, todo' \subseteq todo
    PROVE  /\ Cardinality(Done(R)) \in Nat /\ Cardinality(Done(R)') \in Nat
           /\ Cardinality(Done(R)) <= Cardinality(Done(R)')
           /\ \A r \in R \ Blacklisted : r \in todo /\ r \notin todo' =>
                 Cardinality(Done(R)) + 1 <= Cardinality(Done(R)')
<1>1. IsFiniteSet(Done(R)) /\ IsFiniteSet(Done(R)')
  <2>1. Done(R) \in SUBSET Requests /\ Done(R)' \in SUBSET Requests
    BY DEF Done
  <2> QED BY <2>1, SetsAssumption, FS_Subset
<1>2. Done(R) \in SUBSET Done(R)'
  BY DEF Done
<1>3. ASSUME NEW r \in R \ Blacklisted, r \in todo, r \notin todo'
      PROVE  Cardinality(Done(R)) + 1 <= Cardinality(Done(R)')
  <2>1. r \notin Done(R) /\ Done(R) \cup {r} \in SUBSET Done(R)'
    BY <1>3 DEF Done
  <2>2. Cardinality(Done(R) \cup {r}) = Cardinality(Done(R)) + 1
    BY <1>1, <2>1, FS_AddElement
  <2> QED BY <1>1, <2>1, <2>2, FS_Subset
<1> QED BY <1>1, <1>2, <1>3, FS_Subset, FS_CardinalityType

(* The bound on what the served requests left in the queue is inductive. *)
LEMMA ServedKept ==
    ASSUME TypeOK, TypeOK', [Next]_vars,
           NEW R \in SUBSET Requests, NEW M \in Nat, NEW H \in Nat,
           Limited(R, M, H), Served(R, M, H)
    PROVE  Served(R, M, H)'
<1> DEFINE live == Live(condorQ, R)
           held == HeldOf(condorQ, R)
           k == Cardinality(Done(R))
           k2 == Cardinality(Done(R)')
<1>1. /\ All(queue, R) \in Nat /\ All(queue', R) \in Nat
      /\ All(condorQ, R) = live + held
      /\ live \in Nat /\ held \in Nat
  BY AllCounted DEF TypeOK
<1>2. Within(All(queue, R), R, M, H)
  BY ServedBounded
<1>3. CASE StartCycle
  <2>1. condorQ' = queue /\ queue' = queue /\ working'
    BY <1>3 DEF StartCycle
  <2> QED BY <1>1, <1>2, <2>1 DEF Served, Within
<1>4. CASE EndCycle
  <2>1. NewJobs = {}
    BY <1>4, SanitizeAddsNone DEF EndCycle, NewJobs
  <2>2. All(queue', R) <= All(queue, R)
    BY <2>1, AllGrowth
  <2>3. Within(All(queue', R), R, M, H)
    <3>1. Cardinality(R \ Blacklisted) * M + H \in Nat
      <4>1. Cardinality(R \ Blacklisted) \in Nat
        BY SetsAssumption, FS_Subset, FS_CardinalityType
      <4> QED BY <4>1
    <3> HIDE DEF live, held
    <3> QED BY <1>1, <1>2, <2>2, <3>1 DEF Within
  <2>4. condorQ' = EmptyQueue /\ ~working'
    BY <1>4 DEF EndCycle
  <2>5. Within(All(condorQ', R), R, M, H)
    BY <2>4, NoneInEmpty DEF Within
  <2> QED BY <2>3, <2>4, <2>5 DEF Served
<1>5. CASE ~StartCycle /\ ~EndCycle
  <2>1. condorQ' = condorQ /\ working' = working /\ todo' \subseteq todo
    BY <1>5 DEF Next, SkipRequest, ProcessRequest, JobMoves, JobLeaves, cycleVars, vars
  <2>2. k \in Nat /\ k2 \in Nat /\ k <= k2
    BY <2>1, DoneGrows
  <2>3. CASE ~working
    <3>1. NewJobs = {}
      BY <2>3, NewJobsServe DEF ProcessRequest
    <3>2. All(queue', R) <= All(queue, R)
      BY <3>1, AllGrowth
    <3>3. Cardinality(R \ Blacklisted) * M + H \in Nat
      <4>1. Cardinality(R \ Blacklisted) \in Nat
        BY SetsAssumption, FS_Subset, FS_CardinalityType
      <4> QED BY <4>1
    <3> HIDE DEF live, held
    <3> QED BY <1>1, <1>2, <2>1, <2>3, <3>2, <3>3 DEF Served, Within
  <2>4. CASE working /\ All(queue', R) <= All(queue, R)
    <3>1. CASE All(queue, R) <= All(condorQ, R)
      BY <1>1, <2>1, <2>4, <3>1 DEF Served
    <3>2. CASE /\ k >= 1 /\ held < H /\ live <= M
               /\ All(queue, R) <= live + held + k * (M - live)
      <4>1. M - live \in Nat /\ k * (M - live) \in Nat /\ k2 * (M - live) \in Nat
        BY <1>1, <2>2, <3>2
      <4>2. k * (M - live) <= k2 * (M - live)
        BY <2>2, <4>1, MoreServed
      <4> HIDE DEF live, held, k, k2
      <4>3. All(queue', R) <= live + held + k2 * (M - live)
        BY <1>1, <2>4, <3>2, <4>1, <4>2
      <4>4. k2 >= 1
        BY <2>2, <3>2
      <4>5. held < H /\ live <= M
        BY <3>2
      <4> QED BY <2>1, <2>4, <4>3, <4>4, <4>5 DEF Served, live, held, k2
    <3> QED BY <2>4, <3>1, <3>2 DEF Served
  <2>5. CASE working /\ ~(All(queue', R) <= All(queue, R))
    <3>1. NewJobs \cap Counted(queue', R) # {}
      BY <2>5, AllGrowth
    <3>2. PICK r \in todo, d \in Demands, class_down \in BOOLEAN :
              ProcessRequest(r, d, class_down) /\ r \in Requests
      BY <3>1, NewJobsServe
    <3>3. r \in R /\ r \notin Blacklisted
      <4>1. ~DowntimeFor(r) /\ \A j \in NewJobs : queue'[j].req = r
        BY <3>1, <3>2, NewJobsOfRequest
      <4> QED BY <3>1, <4>1 DEF Counted, InStatus, Of, DowntimeFor
    <3>4. Live(condorQ, R) + Cardinality(NewJobs) <= M /\ HeldOf(condorQ, R) < H
      <4>1. Fits(r)
        BY <3>1, <3>2, ServedFits
      <4>2. ASSUME NEW s \in Requests, R = SameClass(s) PROVE R = SameClass(r)
        BY <3>3, <4>2 DEF SameClass
      <4> QED BY <4>1, <4>2 DEF Fits, Limited
    <3>5. Cardinality(NewJobs) \in Nat
      BY <3>1, <3>2, NewJobsOfRequest
    <3>6. k + 1 <= k2
      <4>1. r \in todo /\ r \notin todo'
        BY <3>2 DEF ProcessRequest
      <4> QED BY <2>1, <3>3, <4>1, DoneGrows
    <3>7. All(queue', R) <= All(queue, R) + Cardinality(NewJobs)
      BY AllGrowth
    <3>8. M - live \in Nat /\ Cardinality(NewJobs) <= M - live /\ live <= M
      BY <1>1, <3>4, <3>5
    <3>9. (k + 1) * (M - live) <= k2 * (M - live)
      BY <2>2, <3>6, <3>8, MoreServed
    <3>10. (k + 1) * (M - live) = k * (M - live) + (M - live)
      BY <2>2, <3>8
    <3>11. k * (M - live) \in Nat /\ k2 * (M - live) \in Nat
      BY <2>2, <3>8
    <3>12. All(queue, R) <= live + held + k * (M - live)
      <4>1. \/ All(queue, R) <= live + held
            \/ All(queue, R) <= live + held + k * (M - live)
        BY <1>1, <2>5 DEF Served
      <4> HIDE DEF live, held, k
      <4> QED BY <1>1, <3>11, <4>1
    <3>13. held < H
      BY <3>4
    <3> HIDE DEF live, held, k, k2
    <3>14. All(queue', R) <= live + held + k2 * (M - live)
      BY <1>1, <3>5, <3>7, <3>8, <3>9, <3>10, <3>11, <3>12
    <3>15. k2 >= 1
      BY <2>2, <3>6
    <3> QED BY <2>1, <2>5, <3>8, <3>13, <3>14, <3>15 DEF Served, live, held, k2
  <2> QED BY <2>3, <2>4, <2>5 DEF TypeOK
<1> QED BY <1>3, <1>4, <1>5

AllServed == \A R \in SUBSET Requests, M \in Nat, H \in Nat :
                Limited(R, M, H) => Served(R, M, H)

(* However cycles, holds, releases, evictions and stale pictures interleave, *)
(* the glideins of the entry, and those of each security class, stay below   *)
(* the limit once for each request that may be served, plus the held ones    *)
(* that are tolerated.                                                       *)
THEOREM QueueStaysBounded == Spec => []QueueBounded
<1>1. Init => AllServed
  <2> SUFFICES ASSUME Init, NEW R \in SUBSET Requests, NEW M \in Nat, NEW H \in Nat
               PROVE  Served(R, M, H)
    BY DEF AllServed
  <2> QED BY NoneInEmpty DEF Init, Served, Within
<1>2. TypeOK /\ TypeOK' /\ AllServed /\ [Next]_vars => AllServed'
  <2> SUFFICES ASSUME TypeOK, TypeOK', AllServed, [Next]_vars,
                      NEW R \in SUBSET Requests, NEW M \in Nat, NEW H \in Nat,
                      Limited(R, M, H)
               PROVE  Served(R, M, H)'
    BY DEF AllServed, Limited
  <2> QED BY ServedKept DEF AllServed
<1>3. TypeOK /\ AllServed => QueueBounded
  <2> SUFFICES ASSUME TypeOK, AllServed
               PROVE  QueueBounded
    OBVIOUS
  <2>1. ASSUME NEW R \in SUBSET Requests, NEW M \in Nat, NEW H \in Nat, Limited(R, M, H)
        PROVE  LET all == Live(queue, R) + HeldOf(queue, R)
               IN  all > 0 => all < Cardinality(R \ Blacklisted) * M + H
    <3>1. Within(All(queue, R), R, M, H)
      BY <2>1, ServedBounded DEF AllServed
    <3>2. All(queue, R) = Live(queue, R) + HeldOf(queue, R)
      BY AllCounted DEF TypeOK
    <3> QED BY <3>1, <3>2 DEF Within
  <2>2. Limited(Requests, EntryMaxGlideins, EntryMaxHeld)
    BY DEF Limited
  <2>3. \A r \in Requests : /\ SameClass(r) \in SUBSET Requests
                            /\ Limited(SameClass(r), FeMaxGlideins, FeMaxHeld)
    BY DEF Limited, SameClass
  <2> QED BY <2>1, <2>2, <2>3, LimitsAssumption DEF QueueBounded
<1> QED BY <1>1, <1>2, <1>3, TypeCorrect, PTL DEF Spec
==============================================================================
