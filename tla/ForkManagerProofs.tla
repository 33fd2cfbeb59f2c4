--------------------------- MODULE ForkManagerProofs ---------------------------
(***************************************************************************)
(* Theorems about ForkManager, for every set of keys, every max_forks and    *)
(* every set of functions that may fail: its state predicates are invariant  *)
(* and each of its steps is a step of BoundedPool or changes nothing there.  *)
(***************************************************************************)
EXTENDS ForkManager, FiniteSetTheorems, TLAPS

Reaped == {k \in Keys : child[k] = "reaped"}

(* Before the call nothing was forked. *)
IdleInv ==
    pc = "idle" =>
        /\ unforked = {} /\ pipe_ids = {} /\ post_work_info = {}
        /\ nr_errors = 0
        /\ \A k \in Keys : child[k] = "none"

(* From the call on, the parent's dictionaries agree with the kernel.        *)
KernelInv ==
    pc # "idle" =>
        /\ pipe_ids = Uncollected
        /\ unforked = {k \in functions_tofork : child[k] = "none"}
        /\ \A k \in Keys : child[k] # "none" => k \in functions_tofork
        /\ post_work_info \subseteq Reaped
        /\ nr_errors = Cardinality(Reaped \ post_work_info)

(* What each place of the call knows. *)
PlaceInv ==
    /\ pc \in {"drain", "returned", "raised"} => unforked = {}
    /\ pc \in {"returned", "raised"} => pipe_ids = {}
    /\ pc = "returned" => nr_errors = 0
    /\ pc = "raised" => nr_errors > 0

IInv == TypeOK /\ IdleInv /\ KernelInv /\ PlaceInv
        /\ SlotAccounting /\ RemainingAccounting

-----------------------------------------------------------------------------
(* Finite sets. *)

(* Any set of keys is finite. *)
LEMMA SubsetsFinite ==
    ASSUME NEW S \in SUBSET Keys
    PROVE  IsFiniteSet(S) /\ Cardinality(S) \in Nat
BY KeysAssumption, FS_Subset, FS_CardinalityType

(* Disjoint sets of keys: their sizes add up. *)
LEMMA DisjointUnion ==
    ASSUME NEW S \in SUBSET Keys, NEW T \in SUBSET Keys, S \cap T = {}
    PROVE  Cardinality(S \cup T) = Cardinality(S) + Cardinality(T)
<1>1. /\ IsFiniteSet(S) /\ Cardinality(S) \in Nat
      /\ IsFiniteSet(T) /\ Cardinality(T) \in Nat
  BY SubsetsFinite
<1>2. Cardinality(S \cup T) =
         Cardinality(S) + Cardinality(T) - Cardinality(S \cap T)
  BY <1>1, FS_Union
<1>3. Cardinality(S \cap T) = 0
  BY FS_EmptySet
<1> QED BY <1>1, <1>2, <1>3

(* Collected keys leave the rest of the children. *)
LEMMA SubsetDifference ==
    ASSUME NEW S \in SUBSET Keys, NEW T \in SUBSET S
    PROVE  Cardinality(S \ T) = Cardinality(S) - Cardinality(T)
<1>1. IsFiniteSet(S)
  BY SubsetsFinite
<1>2. S \cap T = T
  OBVIOUS
<1> QED BY <1>1, <1>2, FS_Difference

(* A set with no elements left to count is empty. *)
LEMMA EmptyByCount ==
    ASSUME NEW S \in SUBSET Keys
    PROVE  Cardinality(S) = 0 <=> S = {}
BY SubsetsFinite, FS_EmptySet

(* Taking one key away. *)
LEMMA WithoutElement ==
    ASSUME NEW S \in SUBSET Keys, NEW k \in S
    PROVE  Cardinality(S \ {k}) = Cardinality(S) - 1
BY SubsetsFinite, FS_RemoveElement

(* Adding one key. *)
LEMMA WithElement ==
    ASSUME NEW S \in SUBSET Keys, NEW k \in Keys, k \notin S
    PROVE  Cardinality(S \cup {k}) = Cardinality(S) + 1
BY SubsetsFinite, FS_AddElement

(* What a poll finds: the children that ended are split into results and     *)
(* failures, and all of them are in pipe_ids.                                *)
LEMMA ReadySplit ==
    /\ GoodResults \cap FailedKeys = {}
    /\ GoodResults \cup FailedKeys = Ready
    /\ DoneKeys = Ready
    /\ Ready \subseteq pipe_ids
BY DEF Ready, GoodResults, FailedKeys, DoneKeys
-----------------------------------------------------------------------------
(* The inductive invariant. *)

(* Nothing is forked at first. *)
LEMMA InitIInv == Init => IInv
BY MaxForksAssumption
   DEF Init, IInv, TypeOK, Places, ChildStates, IdleInv, KernelInv, PlaceInv,
       SlotAccounting, RemainingAccounting

(* add_fork only adds to the work. *)
LEMMA AddForkStep ==
    ASSUME IInv, NEW k \in Keys, AddFork(k)
    PROVE  IInv'
BY DEF AddFork, IInv, TypeOK, Places, IdleInv, KernelInv, PlaceInv,
       SlotAccounting, RemainingAccounting, callVars

(* The call starts with every slot free and nothing forked. *)
LEMMA CallStep ==
    ASSUME IInv, Call
    PROVE  IInv'
<1> USE DEF IInv, TypeOK, Call
<1>1. Cardinality(functions_tofork) \in Nat
  BY SubsetsFinite
<1>2. Cardinality({}) = 0
  BY FS_EmptySet
<1>3. TypeOK'
  BY <1>1, MaxForksAssumption DEF Places
<1>4. IdleInv' /\ PlaceInv'
  BY DEF IdleInv, PlaceInv
<1>5. KernelInv'
  BY <1>2 DEF IdleInv, KernelInv, Uncollected, Reaped, ChildStates
<1>6. SlotAccounting' /\ RemainingAccounting'
  BY <1>1, <1>2, MaxForksAssumption DEF SlotAccounting, RemainingAccounting
<1> QED BY <1>3, <1>4, <1>5, <1>6

(* A fork moves one key from the work to the children, and takes a slot. *)
LEMMA ForkStep ==
    ASSUME IInv, NEW k \in Keys, Fork(k)
    PROVE  IInv'
<1> USE DEF IInv, TypeOK, Fork
<1>1. k \notin pipe_ids /\ child[k] = "none"
  BY DEF KernelInv, Uncollected
<1>2. /\ Cardinality(pipe_ids \cup {k}) = Cardinality(pipe_ids) + 1
      /\ Cardinality(unforked \ {k}) = Cardinality(unforked) - 1
  BY <1>1, WithElement, WithoutElement
<1>3. Cardinality(pipe_ids) \in Nat /\ Cardinality(unforked) \in Nat
  BY SubsetsFinite
<1>4. TypeOK'
  BY MaxForksAssumption DEF Places, ChildStates
<1>5. IdleInv' /\ PlaceInv'
  BY DEF IdleInv, PlaceInv
<1>6. KernelInv'
  <2>1. pipe_ids' = Uncollected'
    BY DEF KernelInv, Uncollected
  <2>2. Reaped' = Reaped
    BY <1>1 DEF Reaped
  <2>3. unforked' = {q \in functions_tofork : child[q] = "none"}'
    BY DEF KernelInv
  <2>4. k \in functions_tofork
    BY DEF KernelInv
  <2> QED BY <2>1, <2>2, <2>3, <2>4 DEF KernelInv
<1>7. SlotAccounting' /\ RemainingAccounting'
  BY <1>2, <1>3, MaxForksAssumption DEF SlotAccounting, RemainingAccounting
<1> QED BY <1>4, <1>5, <1>6, <1>7

(* The fork loop ends when every key is forked. *)
LEMMA EndForkLoopStep ==
    ASSUME IInv, EndForkLoop
    PROVE  IInv'
BY DEF EndForkLoop, IInv, TypeOK, Places, IdleInv, KernelInv, PlaceInv,
       SlotAccounting, RemainingAccounting, callVars, Uncollected, Reaped

(* Gathering takes keys out of pipe_ids and gives slots back. *)
LEMMA GatherStep ==
    ASSUME IInv, Gather
    PROVE  IInv'
<1> USE DEF IInv, TypeOK, Gather
<1>1. /\ GoodResults \in SUBSET Keys /\ FailedKeys \in SUBSET Keys
      /\ Ready \in SUBSET Keys /\ Ready \subseteq pipe_ids
      /\ DoneKeys = Ready
      /\ GoodResults \cup FailedKeys = Ready /\ GoodResults \cap FailedKeys = {}
  BY ReadySplit
<1> DEFINE g == Cardinality(GoodResults)
           f == Cardinality(FailedKeys)
<1>2. g \in Nat /\ f \in Nat /\ Cardinality(pipe_ids) \in Nat
      /\ Cardinality(unforked) \in Nat
  BY <1>1, SubsetsFinite
<1>3. Cardinality(Ready) = g + f
  BY <1>1, DisjointUnion
<1>4. Cardinality(pipe_ids') = Cardinality(pipe_ids) - (g + f)
  BY <1>1, <1>3, SubsetDifference
<1>5. Cardinality(pipe_ids') \in Nat
  BY SubsetsFinite
<1>6. SlotAccounting' /\ RemainingAccounting'
  BY <1>2, <1>4, MaxForksAssumption
     DEF SlotAccounting, RemainingAccounting, FreedSlots
<1>7. TypeOK'
  <2>1. forks_remaining' \in 0..MaxForks
    BY <1>2, <1>5, <1>6, MaxForksAssumption DEF SlotAccounting, FreedSlots
  <2>2. functions_remaining' \in Nat
    BY <1>2, <1>5, <1>6 DEF RemainingAccounting
  <2>3. child' \in [Keys -> ChildStates]
    BY DEF ChildStates
  <2> QED BY <1>1, <1>2, <2>1, <2>2, <2>3
<1>8. IdleInv' /\ PlaceInv'
  BY <1>1 DEF IdleInv, PlaceInv
<1>9. KernelInv'
  <2>1. pipe_ids = Uncollected /\ post_work_info \subseteq Reaped
        /\ nr_errors = Cardinality(Reaped \ post_work_info)
    BY DEF KernelInv
  <2>2. \A q \in Keys : child'[q] = IF q \in Ready THEN "reaped" ELSE child[q]
    OBVIOUS
  <2>3. pipe_ids' = Uncollected'
    BY <1>1, <2>1, <2>2 DEF Uncollected
  <2>4. Ready \cap Reaped = {}
    BY <1>1, <2>1 DEF Uncollected, Reaped
  <2>5. Reaped' = Reaped \cup Ready
    BY <1>1, <2>2 DEF Reaped
  <2>6. Reaped' \ post_work_info' = (Reaped \ post_work_info) \cup FailedKeys
    BY <1>1, <2>1, <2>4, <2>5
  <2>7. nr_errors' = Cardinality(Reaped' \ post_work_info')
    <3>1. (Reaped \ post_work_info) \cap FailedKeys = {}
      BY <1>1, <2>4
    <3>2. Reaped \ post_work_info \in SUBSET Keys
      BY DEF Reaped
    <3>3. Cardinality((Reaped \ post_work_info) \cup FailedKeys)
            = Cardinality(Reaped \ post_work_info) + f
      BY <1>1, <3>1, <3>2, DisjointUnion
    <3> QED BY <2>1, <2>6, <3>3
  <2>8. post_work_info' \subseteq Reaped'
    BY <1>1, <2>1, <2>5
  <2>9. unforked' = {q \in functions_tofork : child[q] = "none"}'
    BY <1>1, <2>1, <2>2 DEF KernelInv, Uncollected
  <2>10. \A q \in Keys : child'[q] # "none" => q \in functions_tofork
    BY <1>1, <2>1, <2>2 DEF KernelInv, Uncollected
  <2> QED BY <2>3, <2>7, <2>8, <2>9, <2>10 DEF KernelInv
<1> QED BY <1>6, <1>7, <1>8, <1>9

(* The call returns, or raises, with what it collected. *)
LEMMA ReturnStep ==
    ASSUME IInv, Return
    PROVE  IInv'
<1> USE DEF IInv, TypeOK, Return, callVars
<1>1. Cardinality(pipe_ids) \in Nat /\ Cardinality(unforked) \in Nat
  BY SubsetsFinite
<1>2. pipe_ids = {}
  BY <1>1, EmptyByCount DEF RemainingAccounting
<1>3. TypeOK' /\ IdleInv' /\ PlaceInv'
  BY <1>2 DEF Places, IdleInv, PlaceInv
<1>4. KernelInv'
  BY DEF KernelInv, Uncollected, Reaped
<1> QED BY <1>3, <1>4 DEF SlotAccounting, RemainingAccounting

(* A signal ends the call wherever it is. *)
LEMMA InterruptStep ==
    ASSUME IInv, Interrupt
    PROVE  IInv'
BY DEF Interrupt, IInv, TypeOK, Places, IdleInv, KernelInv, PlaceInv,
       SlotAccounting, RemainingAccounting, callVars, Uncollected, Reaped

(* A child that ends changes what is ready, nothing of the manager's. *)
LEMMA ChildStep ==
    ASSUME IInv, NEW k \in Keys, Finish(k) \/ Fail(k)
    PROVE  IInv'
<1> USE DEF IInv, TypeOK, Finish, Fail, callVars
<1>1. child[k] = "running" /\ child'[k] \in {"wrote", "died"}
      /\ \A q \in Keys \ {k} : child'[q] = child[q]
  OBVIOUS
<1>2. TypeOK' /\ IdleInv' /\ PlaceInv'
  BY <1>1 DEF ChildStates, IdleInv, PlaceInv
<1>3. Uncollected' = Uncollected /\ Reaped' = Reaped
  BY <1>1 DEF Uncollected, Reaped
<1>4. {q \in functions_tofork : child[q] = "none"}'
        = {q \in functions_tofork : child[q] = "none"}
  BY <1>1
<1>5. KernelInv'
  BY <1>1, <1>3, <1>4 DEF KernelInv
<1> QED BY <1>2, <1>5 DEF SlotAccounting, RemainingAccounting

(* Every step keeps the inductive invariant. *)
LEMMA NextIInv == IInv /\ [Next]_vars => IInv'
<1> SUFFICES ASSUME IInv, [Next]_vars PROVE IInv'
  OBVIOUS
<1>1. ASSUME NEW k \in Keys, AddFork(k) PROVE IInv'
  BY <1>1, AddForkStep
<1>2. ASSUME NEW k \in Keys, Fork(k) PROVE IInv'
  BY <1>2, ForkStep
<1>3. ASSUME NEW k \in Keys, Finish(k) \/ Fail(k) PROVE IInv'
  BY <1>3, ChildStep
<1>4. CASE UNCHANGED vars
  BY <1>4 DEF IInv, TypeOK, IdleInv, KernelInv, PlaceInv, SlotAccounting,
              RemainingAccounting, Uncollected, Reaped, vars
<1> QED
  BY <1>1, <1>2, <1>3, <1>4, CallStep, EndForkLoopStep, GatherStep, ReturnStep,
     InterruptStep DEF Next, ParentStep

(* The inductive invariant holds at every moment. *)
LEMMA SpecIInv == Spec => []IInv
BY InitIInv, NextIInv, PTL DEF Spec

-----------------------------------------------------------------------------
(* The theorems. *)

(* The instance of BoundedPool counts with the same Cardinality. *)
LEMMA SameCardinality ==
    ASSUME NEW S
    PROVE  Pool!Cardinality(S) = Cardinality(S)
BY DEF Cardinality, Pool!Cardinality

(* The state of bounded_fork_and_collect is well formed: it never gives back *)
(* more slots than max_forks and never counts below zero the functions that  *)
(* are still to be collected.                                                *)
THEOREM TypeCorrect == Spec => []TypeOK
BY SpecIInv, PTL DEF IInv

(* Every slot of max_forks is free, held by a child not collected, or lost   *)
(* to a child that failed.                                                   *)
THEOREM SlotsAccounted == Spec => []SlotAccounting
BY SpecIInv, PTL DEF IInv

(* The counter of the last loop counts what is left to fork and to collect.  *)
THEOREM RemainingAccounted == Spec => []RemainingAccounting
BY SpecIInv, PTL DEF IInv

(* There are never more children than max_forks. *)
THEOREM ChildrenBounded == Spec => []BoundedChildren
<1>1. IInv => BoundedChildren
  <2> SUFFICES ASSUME IInv PROVE Cardinality(Uncollected) <= MaxForks
    BY DEF BoundedChildren
  <2> USE DEF IInv, TypeOK
  <2>1. CASE pc = "idle"
    <3>1. Uncollected = {}
      BY <2>1 DEF IdleInv, Uncollected
    <3>2. Cardinality(Uncollected) = 0
      BY <3>1, FS_EmptySet
    <3> QED BY <3>2, MaxForksAssumption
  <2>2. CASE pc # "idle"
    <3>1. Cardinality(Uncollected) = MaxForks - forks_remaining - nr_errors
      <4>1. Cardinality(pipe_ids) \in Nat
        BY SubsetsFinite
      <4> QED BY <2>2, <4>1, MaxForksAssumption DEF KernelInv, SlotAccounting
    <3> QED BY <3>1, MaxForksAssumption
  <2> QED BY <2>1, <2>2
<1> QED BY SpecIInv, <1>1, PTL

(* A call that ends has collected every child; it returns when every         *)
(* function gave a result and raises, with the results it has, otherwise.    *)
THEOREM ResultsComplete == Spec => []CompleteResults
<1>1. IInv => CompleteResults
  <2> SUFFICES ASSUME IInv, pc \in {"returned", "raised"}
               PROVE  /\ Uncollected = {}
                      /\ post_work_info \subseteq functions_tofork
                      /\ nr_errors = Cardinality(functions_tofork \ post_work_info)
                      /\ (pc = "returned") <=> (post_work_info = functions_tofork)
    BY DEF CompleteResults
  <2> USE DEF IInv, TypeOK
  <2>1. Uncollected = {} /\ unforked = {}
    BY DEF KernelInv, PlaceInv
  <2>2. Reaped = functions_tofork
    BY <2>1 DEF KernelInv, Uncollected, Reaped, ChildStates
  <2>3. post_work_info \subseteq functions_tofork
        /\ nr_errors = Cardinality(functions_tofork \ post_work_info)
    BY <2>2 DEF KernelInv
  <2>4. nr_errors = 0 <=> functions_tofork \ post_work_info = {}
    BY <2>3, EmptyByCount
  <2>5. (pc = "returned") <=> (post_work_info = functions_tofork)
    BY <2>3, <2>4 DEF PlaceInv
  <2> QED BY <2>1, <2>3, <2>5
<1> QED BY SpecIInv, <1>1, PTL

(* A call waits for nothing only after as many failures as max_forks.        *)
THEOREM StarvedByFailures == Spec => []StarvedOnlyByFailures
<1>1. IInv => StarvedOnlyByFailures
  <2> SUFFICES ASSUME IInv, Starved PROVE nr_errors = MaxForks
    BY DEF StarvedOnlyByFailures
  <2>1. Cardinality(pipe_ids) = 0
    BY FS_EmptySet DEF Starved
  <2> QED BY <2>1, MaxForksAssumption DEF IInv, TypeOK, SlotAccounting, Starved
<1> QED BY SpecIInv, <1>1, PTL

(* bounded_fork_and_collect implements the bounded pool it promises to be.   *)
THEOREM ImplementsPool == Spec => PoolSpec
<1>1. Init => Pool!Init
  BY DEF Init, Pool!Init, Calling
<1>2. IInv /\ [Next]_vars => [Pool!Next]_(Pool!vars)
  <2> SUFFICES ASSUME IInv, [Next]_vars
               PROVE  Pool!Next \/ UNCHANGED Pool!vars
    OBVIOUS
  <2> USE DEF IInv, TypeOK, Calling, callVars
  <2>1. ASSUME NEW k \in Keys, AddFork(k) PROVE UNCHANGED Pool!vars
    BY <2>1 DEF AddFork, Pool!vars
  <2>2. CASE Call
    <3>1. Pool!Open(functions_tofork)
      BY <2>2 DEF Call, Pool!Open, IdleInv
    <3> QED BY <3>1 DEF Pool!Next
  <2>3. ASSUME NEW k \in Keys, Fork(k) PROVE Pool!Next
    <3>1. Cardinality(pipe_ids) < MaxForks
      <4>1. Cardinality(pipe_ids) \in Nat
        BY SubsetsFinite
      <4> QED BY <2>3, <4>1, MaxForksAssumption DEF Fork, SlotAccounting
    <3>2. Pool!Start(k)
      BY <2>3, <3>1, SameCardinality DEF Fork, Pool!Start
    <3> QED BY <2>3, <3>2 DEF Fork, Pool!Next
  <2>4. CASE EndForkLoop
    BY <2>4 DEF EndForkLoop, Pool!vars
  <2>5. CASE Gather
    <3>1. GoodResults \in SUBSET pipe_ids /\ FailedKeys \in SUBSET pipe_ids
          /\ GoodResults \cap FailedKeys = {}
          /\ DoneKeys = GoodResults \cup FailedKeys
      BY ReadySplit
    <3>2. Pool!Collect(GoodResults, FailedKeys)
      BY <2>5, <3>1, SameCardinality DEF Gather, Pool!Collect
    <3> QED BY <3>1, <3>2 DEF Pool!Next
  <2>6. CASE Return
    <3>1. Cardinality(pipe_ids) \in Nat /\ Cardinality(unforked) \in Nat
      BY SubsetsFinite
    <3>2. pipe_ids = {} /\ unforked = {}
      BY <2>6, <3>1, EmptyByCount DEF Return, RemainingAccounting, PlaceInv
    <3>3. Pool!Close
      BY <2>6, <3>2 DEF Return, Pool!Close
    <3> QED BY <3>3 DEF Pool!Next
  <2>7. CASE Interrupt
    <3>1. Pool!Abandon
      BY <2>7 DEF Interrupt, Pool!Abandon
    <3> QED BY <3>1 DEF Pool!Next
  <2>8. ASSUME NEW k \in Keys, Finish(k) \/ Fail(k) PROVE UNCHANGED Pool!vars
    BY <2>8 DEF Finish, Fail, Pool!vars
  <2>9. CASE UNCHANGED vars
    BY <2>9 DEF vars, Pool!vars
  <2> QED
    BY <2>1, <2>2, <2>3, <2>4, <2>5, <2>6, <2>7, <2>8, <2>9 DEF Next, ParentStep
<1> QED BY <1>1, <1>2, SpecIInv, PTL DEF Spec, PoolSpec, Pool!Spec
==============================================================================
