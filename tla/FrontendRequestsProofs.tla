------------------------ MODULE FrontendRequestsProofs ------------------------
(***************************************************************************)
(* Proofs about the requests of a frontend group, from the counting of the   *)
(* jobs up.                                                                   *)
(*                                                                           *)
(* Sums over finite sets come first: Total is the number of units under the  *)
(* graph of a function, so that what a sum does is what Cardinality does.    *)
(* On them rests that countMatch counts right for any queue.  An entry's     *)
(* share of the jobs is then at most the cores its jobs ask for, which is    *)
(* what bounds the requests, and these the glideins.                         *)
(***************************************************************************)
EXTENDS FrontendRequests, JobQueue, FiniteSetTheorems, WellFoundedInduction, TLAPS

(***************************************************************************)
(* Induction over finite sets, from the well-foundedness of < on Nat.        *)
(***************************************************************************)
(* Every set of natural numbers has a least element. *)
LEMMA Smallest ==
    ASSUME NEW T \in SUBSET Nat, T # {}
    PROVE  \E n \in T : \A m \in T : n <= m
<1> DEFINE R == {ss \in Nat \X Nat : ss[1] < ss[2]}
<1>1. IsWellFoundedOn(R, Nat)
  BY NatLessThanWellFounded DEF OpToRel
<1>2. PICK n \in T : \A m \in T : <<m, n>> \notin R
  BY <1>1, WFMin
<1>3. \A m \in T : m \in Nat /\ n \in Nat /\ ~ (m < n)
  BY <1>2
<1> QED  BY <1>3

(* What holds of a subset whenever it holds of all it has without one of its *)
(* elements holds of every subset of a finite set: there is no smallest one  *)
(* without it.                                                               *)
LEMMA SubsetDescent ==
    ASSUME NEW S, IsFiniteSet(S), NEW P,
           \A T \in SUBSET S : (\A x \in T : T \ {x} \in P) => T \in P
    PROVE  SUBSET S \subseteq P
<1> SUFFICES ASSUME NEW B \in SUBSET S, B \notin P PROVE FALSE
  OBVIOUS
<1>1. \A T \in SUBSET S : IsFiniteSet(T) /\ Cardinality(T) \in Nat
  BY FS_Subset, FS_CardinalityType
<1> DEFINE Sizes == {n \in Nat : \E T \in SUBSET S : T \notin P /\ Cardinality(T) = n}
<1>2. Cardinality(B) \in Sizes
  BY <1>1
<1>3. PICK n \in Sizes : \A m \in Sizes : n <= m
  BY <1>2, Smallest
<1>4. PICK T \in SUBSET S : T \notin P /\ Cardinality(T) = n
  OBVIOUS
<1>5. PICK x \in T : T \ {x} \notin P
  BY <1>4
<1>6. Cardinality(T \ {x}) = n - 1
  BY <1>1, <1>4, <1>5, FS_RemoveElement
<1>7. n - 1 \in Sizes
  BY <1>1, <1>5, <1>6
<1>8. n \in Nat /\ n - 1 \in Nat /\ n <= n - 1
  BY <1>3, <1>7
<1> QED  BY <1>8

(* What holds of the empty set and of a set with one element more holds of   *)
(* every finite set: stated for the subsets of T that are in a given set P.  *)
LEMMA SubsetInduction ==
    ASSUME NEW S, IsFiniteSet(S), NEW P, {} \in P,
           \A T \in SUBSET S : T \in P => \A x \in S \ T : T \cup {x} \in P
    PROVE  SUBSET S \subseteq P
<1>1. ASSUME NEW T \in SUBSET S, \A x \in T : T \ {x} \in P
      PROVE  T \in P
  <2>1. CASE T = {}
    BY <2>1
  <2>2. ASSUME NEW x \in T PROVE T \in P
    <3>1. (T \ {x}) \cup {x} = T /\ x \in S \ (T \ {x}) /\ T \ {x} \in SUBSET S
      OBVIOUS
    <3> QED  BY <3>1, <1>1
  <2> QED  BY <2>1, <2>2
<1> QED  BY <1>1, SubsetDescent

(* A finite set of numbers has a greatest one, which Max chooses. *)
LEMMA MaxOf ==
    ASSUME NEW S \in SUBSET Nat, IsFiniteSet(S), S # {}
    PROVE  Max(S) \in S /\ \A x \in S : x <= Max(S)
<1> DEFINE P == {T \in SUBSET S : T = {} \/ \E m \in T : \A x \in T : x <= m}
<1>1. {} \in P
  OBVIOUS
<1>2. ASSUME NEW T \in SUBSET S, T \in P, NEW x \in S \ T
      PROVE  T \cup {x} \in P
  <2>1. CASE T = {}
    BY <2>1
  <2>2. CASE T # {}
    <3>1. PICK m \in T : \A y \in T : y <= m
      BY <1>2, <2>2
    <3>2. CASE x <= m
      BY <3>1, <3>2
    <3>3. CASE ~ (x <= m)
      <4>1. \A y \in T \cup {x} : y <= x
        BY <3>1, <3>3
      <4> QED  BY <4>1
    <3> QED  BY <3>2, <3>3
  <2> QED  BY <2>1, <2>2
<1>3. S \in P
  <2> HIDE DEF P
  <2> QED  BY <1>1, <1>2, SubsetInduction
<1>4. \E m \in S : \A x \in S : m >= x
  <2>1. PICK m \in S : \A x \in S : x <= m
    BY <1>3
  <2>2. \A x \in S : m >= x
    BY <2>1
  <2> QED  BY <2>2
<1>5. Max(S) \in S /\ \A x \in S : Max(S) >= x
  BY <1>4 DEF Max
<1> QED  BY <1>5

-----------------------------------------------------------------------------
-----------------------------------------------------------------------------
(***************************************************************************)
(* Sums.  Total adds the values of a function up in an order that CHOOSE     *)
(* gives; what it computes is how many units there are under the graph.      *)
(***************************************************************************)
Units(w, T) == UNION {{x} \X (1..w[x]) : x \in T}

(* Adding an element adds its value to the units under the graph. *)
LEMMA UnitsAdd ==
    ASSUME NEW S, NEW w \in [S -> Nat], NEW T \in SUBSET S, IsFiniteSet(T), NEW x \in S \ T,
           IsFiniteSet(Units(w, T))
    PROVE  /\ IsFiniteSet(Units(w, T \cup {x}))
           /\ Cardinality(Units(w, T \cup {x})) = w[x] + Cardinality(Units(w, T))
<1>1. Units(w, T \cup {x}) = Units(w, T) \cup ({x} \X (1..w[x]))
  BY DEF Units
<1>2. Units(w, T) \cap ({x} \X (1..w[x])) = {}
  BY DEF Units
<1>3. IsFiniteSet({x}) /\ Cardinality({x}) = 1
  BY FS_Singleton
<1>4. IsFiniteSet(1..w[x]) /\ Cardinality(1..w[x]) = w[x]
  <2>1. w[x] \in Nat
    OBVIOUS
  <2>2. PICK n \in Nat : n = w[x]
    BY <2>1
  <2>3. 1 \in Int /\ n \in Int
    BY <2>2
  <2>4. IsFiniteSet(1..n) /\ Cardinality(1..n) = IF 1 > n THEN 0 ELSE n - 1 + 1
    BY <2>3, FS_Interval
  <2> QED  BY <2>2, <2>4
<1>5. /\ IsFiniteSet({x} \X (1..w[x]))
      /\ Cardinality({x} \X (1..w[x])) = 1 * w[x]
  BY <1>3, <1>4, FS_Product
<1>6. 1 * w[x] = w[x] /\ w[x] \in Nat /\ Cardinality(Units(w, T)) \in Nat
  <2>1. w[x] \in Nat
    OBVIOUS
  <2>2. 1 * w[x] = w[x]
    BY <2>1
  <2> QED  BY <2>1, <2>2, FS_CardinalityType
<1>7. PICK A, B : A = Units(w, T) /\ B = {x} \X (1..w[x])
  OBVIOUS
<1>8. /\ IsFiniteSet(A \cup B)
      /\ Cardinality(A \cup B) = Cardinality(A) + Cardinality(B) - Cardinality(A \cap B)
  BY <1>5, <1>7, FS_Union
<1>9. Cardinality(A \cap B) = 0
  BY <1>2, <1>7, FS_EmptySet
<1>10. A \cup B = Units(w, T \cup {x})
  BY <1>1, <1>7
<1>11. Cardinality(A \cup B) = w[x] + Cardinality(A)
  <2>1. Cardinality(A) \in Nat /\ Cardinality(B) = w[x] /\ w[x] \in Nat
    BY <1>5, <1>6, <1>7
  <2> QED  BY <2>1, <1>8, <1>9
<1> QED  BY <1>7, <1>8, <1>10, <1>11, Zenon

(* There are finitely many units under the graph of a finite function. *)
LEMMA UnitsFinite ==
    ASSUME NEW S, IsFiniteSet(S), NEW w \in [S -> Nat], NEW T \in SUBSET S
    PROVE  /\ IsFiniteSet(Units(w, T)) /\ Cardinality(Units(w, T)) \in Nat
           /\ Cardinality(Units(w, {})) = 0
<1> DEFINE P == {V \in SUBSET S : IsFiniteSet(Units(w, V))}
<1>1. Units(w, {}) = {}
  BY DEF Units
<1>2. {} \in P
  BY <1>1, FS_EmptySet
<1>3. ASSUME NEW V \in SUBSET S, V \in P, NEW x \in S \ V
      PROVE  V \cup {x} \in P
  BY <1>3, UnitsAdd, FS_Subset
<1>4. SUBSET S \subseteq P
  <2> HIDE DEF P
  <2> QED  BY <1>2, <1>3, SubsetInduction
<1> QED  BY <1>1, <1>4, FS_CardinalityType, FS_EmptySet

(* Total(w) is the number of units under the graph of w. *)
LEMMA TotalIs ==
    ASSUME NEW S, IsFiniteSet(S), NEW w \in [S -> Nat]
    PROVE  Total(w) = Cardinality(Units(w, S))
<1> DEFINE Adds(g) == g = [s \in SUBSET S |->
                              IF s = {} THEN 0
                              ELSE w[CHOOSE x \in s : TRUE] + g[s \ {CHOOSE x \in s : TRUE}]]
           sizes == [s \in SUBSET S |-> Cardinality(Units(w, s))]
<1>0. DOMAIN w = S
  OBVIOUS
<1>1. Adds(sizes)
  <2>1. ASSUME NEW s \in SUBSET S, s # {}
        PROVE  Cardinality(Units(w, s)) =
                 w[CHOOSE x \in s : TRUE] + sizes[s \ {CHOOSE x \in s : TRUE}]
    <3>1. PICK x : x = (CHOOSE y \in s : TRUE)
      OBVIOUS
    <3>2. x \in s
      BY <2>1, <3>1
    <3>3. s \ {x} \in SUBSET S /\ x \in S \ (s \ {x}) /\ (s \ {x}) \cup {x} = s
      BY <3>2
    <3>4. IsFiniteSet(s \ {x}) /\ IsFiniteSet(Units(w, s \ {x}))
      BY <3>3, FS_Subset, UnitsFinite
    <3>5. Cardinality(Units(w, (s \ {x}) \cup {x})) = w[x] + Cardinality(Units(w, s \ {x}))
      BY <3>3, <3>4, UnitsAdd
    <3>6. sizes[s \ {x}] = Cardinality(Units(w, s \ {x}))
      BY <3>3
    <3> HIDE DEF sizes
    <3> QED  BY <3>1, <3>3, <3>5, <3>6
  <2>2. Cardinality(Units(w, {})) = 0
    BY UnitsFinite
  <2> DEFINE sums == [s \in SUBSET S |->
                        IF s = {} THEN 0
                        ELSE w[CHOOSE x \in s : TRUE] + sizes[s \ {CHOOSE x \in s : TRUE}]]
  <2>3. \A s \in SUBSET S : sums[s] = sizes[s]
    BY <2>1, <2>2
  <2>4. sums = sizes
    BY <2>3
  <2> QED  BY <2>4
<1>2. ASSUME NEW g, Adds(g)
      PROVE  g[S] = Cardinality(Units(w, S))
  <2> DEFINE P == {s \in SUBSET S : g[s] = sizes[s]}
  <2>1. ASSUME NEW s \in SUBSET S, s # {}
        PROVE  g[s] = w[CHOOSE x \in s : TRUE] + g[s \ {CHOOSE x \in s : TRUE}]
    BY <1>2, <2>1, Zenon
  <2>2. g[{}] = 0 /\ sizes[{}] = 0
    BY <1>2, UnitsFinite
  <2>3. ASSUME NEW s \in SUBSET S, s # {}
        PROVE  sizes[s] = w[CHOOSE x \in s : TRUE] + sizes[s \ {CHOOSE x \in s : TRUE}]
    BY <1>1, <2>3, Zenon
  <2> HIDE DEF sizes, Adds
  <2>4. ASSUME NEW s \in SUBSET S, \A x \in s : s \ {x} \in P
        PROVE  s \in P
    <3>1. CASE s = {}
      BY <3>1, <2>2
    <3>2. CASE s # {}
      <4>1. PICK y : y = (CHOOSE z \in s : TRUE)
        OBVIOUS
      <4>2. y \in s
        BY <3>2, <4>1
      <4>3. g[s] = w[y] + g[s \ {y}] /\ sizes[s] = w[y] + sizes[s \ {y}]
        BY <3>2, <4>1, <2>1, <2>3
      <4> QED  BY <4>2, <4>3, <2>4
    <3> QED  BY <3>1, <3>2
  <2>5. S \in P
    <3> HIDE DEF P
    <3> QED  BY <2>4, SubsetDescent
  <2> QED  BY <2>5 DEF sizes
<1>3. Adds(CHOOSE g : Adds(g))
  BY <1>1, Zenon
<1>4. Total(w) = (CHOOSE g : Adds(g))[S]
  BY <1>0 DEF Total, MapThenSumSet, MapThenFoldSet
<1> HIDE DEF Adds
<1> QED  BY <1>2, <1>3, <1>4

(* What the proofs use of it. *)
LEMMA TotalNat ==
    ASSUME NEW S, IsFiniteSet(S), NEW w \in [S -> Nat]
    PROVE  Total(w) \in Nat
BY TotalIs, UnitsFinite

(* A part of a function. *)
LEMMA RestrictIs ==
    ASSUME NEW S, NEW w \in [S -> Nat], NEW T \in SUBSET S
    PROVE  /\ Restrict(w, T) \in [T -> Nat] /\ DOMAIN Restrict(w, T) = T
           /\ \A x \in T : Restrict(w, T)[x] = w[x]
           /\ Restrict(w, S) = w
BY DEF Restrict

(* Nothing adds up to 0; one element more adds its value. *)
LEMMA TotalAdd ==
    ASSUME NEW S, IsFiniteSet(S), NEW w \in [S -> Nat]
    PROVE  /\ Total(Restrict(w, {})) = 0
           /\ \A T \in SUBSET S : Total(Restrict(w, T)) \in Nat
           /\ \A T \in SUBSET S : \A x \in S \ T :
                 Total(Restrict(w, T \cup {x})) = w[x] + Total(Restrict(w, T))
<1>1. \A T \in SUBSET S : /\ Restrict(w, T) \in [T -> Nat] /\ IsFiniteSet(T)
                          /\ Units(Restrict(w, T), T) = Units(w, T)
  BY FS_Subset DEF Units, Restrict
<1>2. \A T \in SUBSET S : Total(Restrict(w, T)) = Cardinality(Units(w, T))
  BY <1>1, TotalIs
<1>3. Total(Restrict(w, {})) = 0
  BY <1>2, UnitsFinite
<1>4. \A T \in SUBSET S : Total(Restrict(w, T)) \in Nat
  BY <1>2, UnitsFinite
<1>5. ASSUME NEW T \in SUBSET S, NEW x \in S \ T
      PROVE  Total(Restrict(w, T \cup {x})) = w[x] + Total(Restrict(w, T))
  <2>1. T \cup {x} \in SUBSET S
    OBVIOUS
  <2>2. IsFiniteSet(Units(w, T)) /\ IsFiniteSet(T)
    BY UnitsFinite, FS_Subset
  <2>3. Cardinality(Units(w, T \cup {x})) = w[x] + Cardinality(Units(w, T))
    BY <2>2, UnitsAdd
  <2> QED  BY <1>2, <2>1, <2>3
<1> QED  BY <1>3, <1>4, <1>5

(* Whatever grows as the sum does is the sum.                                *)
LEMMA TotalUnique ==
    ASSUME NEW S, IsFiniteSet(S), NEW w \in [S -> Nat], NEW F,
           F[{}] = 0,
           \A T \in SUBSET S : \A x \in S \ T : F[T \cup {x}] = w[x] + F[T]
    PROVE  Total(w) = F[S]
<1> DEFINE P == {T \in SUBSET S : Total(Restrict(w, T)) = F[T]}
<1>1. {} \in P
  BY TotalAdd
<1>2. ASSUME NEW T \in SUBSET S, T \in P, NEW x \in S \ T
      PROVE  T \cup {x} \in P
  <2>1. Total(Restrict(w, T \cup {x})) = w[x] + Total(Restrict(w, T))
    BY TotalAdd
  <2> QED  BY <1>2, <2>1
<1>3. SUBSET S \subseteq P
  <2> HIDE DEF P
  <2> QED  BY <1>1, <1>2, SubsetInduction
<1> QED  BY <1>3, RestrictIs

(* Equal values add up to a product. *)
LEMMA TotalSame ==
    ASSUME NEW S, IsFiniteSet(S), NEW a \in Nat
    PROVE  Total([x \in S |-> a]) = Cardinality(S) * a
<1> DEFINE w == [x \in S |-> a]
           F == [T \in SUBSET S |-> Cardinality(T) * a]
<1>1. \A T \in SUBSET S : IsFiniteSet(T) /\ Cardinality(T) \in Nat
  BY FS_Subset, FS_CardinalityType
<1>2. F[{}] = 0
  BY FS_EmptySet
<1>3. ASSUME NEW T \in SUBSET S, NEW x \in S \ T
      PROVE  F[T \cup {x}] = w[x] + F[T]
  <2>1. Cardinality(T \cup {x}) = Cardinality(T) + 1
    BY <1>1, FS_AddElement
  <2>2. \A n \in Nat : (n + 1) * a = a + n * a
    OBVIOUS
  <2>3. T \cup {x} \in SUBSET S
    OBVIOUS
  <2> QED  BY <1>1, <2>1, <2>2, <2>3
<1>4. w \in [S -> Nat] /\ F[S] = Cardinality(S) * a
  OBVIOUS
<1> HIDE DEF w, F
<1>5. Total(w) = F[S]
  BY <1>2, <1>3, <1>4, TotalUnique
<1> QED  BY <1>4, <1>5 DEF w

(* The sum of two functions adds up to the two sums. *)
LEMMA TotalPlus ==
    ASSUME NEW S, IsFiniteSet(S), NEW v \in [S -> Nat], NEW w \in [S -> Nat]
    PROVE  Total([x \in S |-> v[x] + w[x]]) = Total(v) + Total(w)
<1> DEFINE u == [x \in S |-> v[x] + w[x]]
           F == [T \in SUBSET S |-> Total(Restrict(v, T)) + Total(Restrict(w, T))]
<1>1. F[{}] = 0
  BY TotalAdd
<1>2. ASSUME NEW T \in SUBSET S, NEW x \in S \ T
      PROVE  F[T \cup {x}] = u[x] + F[T]
  <2>1. /\ Total(Restrict(v, T \cup {x})) = v[x] + Total(Restrict(v, T))
        /\ Total(Restrict(w, T \cup {x})) = w[x] + Total(Restrict(w, T))
        /\ Total(Restrict(v, T)) \in Nat /\ Total(Restrict(w, T)) \in Nat
    BY TotalAdd
  <2>2. v[x] \in Nat /\ w[x] \in Nat /\ T \cup {x} \in SUBSET S
    OBVIOUS
  <2> QED  BY <2>1, <2>2
<1>3. u \in [S -> Nat] /\ F[S] = Total(v) + Total(w)
  BY RestrictIs
<1> HIDE DEF u, F
<1>4. Total(u) = F[S]
  BY <1>1, <1>2, <1>3, TotalUnique
<1> QED  BY <1>3, <1>4 DEF u

(* A common factor comes out of a sum. *)
LEMMA TotalTimes ==
    ASSUME NEW S, IsFiniteSet(S), NEW w \in [S -> Nat], NEW a \in Nat
    PROVE  Total([x \in S |-> a * w[x]]) = a * Total(w)
<1> DEFINE u == [x \in S |-> a * w[x]]
           F == [T \in SUBSET S |-> a * Total(Restrict(w, T))]
<1>1. F[{}] = 0
  BY TotalAdd
<1>2. ASSUME NEW T \in SUBSET S, NEW x \in S \ T
      PROVE  F[T \cup {x}] = u[x] + F[T]
  <2>1. /\ Total(Restrict(w, T \cup {x})) = w[x] + Total(Restrict(w, T))
        /\ Total(Restrict(w, T)) \in Nat
    BY TotalAdd
  <2>2. w[x] \in Nat /\ T \cup {x} \in SUBSET S
    OBVIOUS
  <2>3. \A m, n \in Nat : a * (m + n) = a * m + a * n
    OBVIOUS
  <2> QED  BY <2>1, <2>2, <2>3
<1>3. u \in [S -> Nat] /\ F[S] = a * Total(w)
  BY RestrictIs
<1> HIDE DEF u, F
<1>4. Total(u) = F[S]
  BY <1>1, <1>2, <1>3, TotalUnique
<1> QED  BY <1>3, <1>4 DEF u

(* Larger values add up to no less. *)
LEMMA TotalMonotone ==
    ASSUME NEW S, IsFiniteSet(S), NEW v \in [S -> Nat], NEW w \in [S -> Nat],
           \A x \in S : v[x] <= w[x]
    PROVE  Total(v) <= Total(w)
<1> DEFINE d == [x \in S |-> w[x] - v[x]]
           u == [x \in S |-> v[x] + d[x]]
<1>1. d \in [S -> Nat]
  OBVIOUS
<1>2. u = w
  OBVIOUS
<1> HIDE DEF d
<1>3. Total(u) = Total(v) + Total(d)
  BY <1>1, TotalPlus
<1>4. Total(v) \in Nat /\ Total(d) \in Nat
  BY <1>1, TotalNat
<1> HIDE DEF u
<1> QED  BY <1>2, <1>3, <1>4

(* A sum over two parts without common elements.                             *)
LEMMA TotalSplit ==
    ASSUME NEW S, IsFiniteSet(S), NEW w \in [S -> Nat],
           NEW A \in SUBSET S, NEW B \in SUBSET S, A \cap B = {}
    PROVE  Total(Restrict(w, A \cup B)) = Total(Restrict(w, A)) + Total(Restrict(w, B))
<1> DEFINE u == Restrict(w, B)
           F == [T \in SUBSET B |-> Total(Restrict(w, A \cup T)) - Total(Restrict(w, A))]
<1>0. \A T \in SUBSET S : Total(Restrict(w, T)) \in Nat
  BY TotalAdd
<1>1. F[{}] = 0
  <2>1. A \cup {} = A /\ {} \in SUBSET B /\ A \in SUBSET S
    OBVIOUS
  <2> QED  BY <1>0, <2>1
<1>2. ASSUME NEW T \in SUBSET B, NEW x \in B \ T
      PROVE  F[T \cup {x}] = u[x] + F[T]
  <2>1. A \cup T \in SUBSET S /\ x \in S \ (A \cup T) /\ (A \cup T) \cup {x} = A \cup (T \cup {x})
    OBVIOUS
  <2>2. Total(Restrict(w, (A \cup T) \cup {x})) = w[x] + Total(Restrict(w, A \cup T))
    <3>1. PICK V \in SUBSET S : V = A \cup T
      BY <2>1
    <3>2. x \in S \ V
      BY <2>1, <3>1
    <3>3. Total(Restrict(w, V \cup {x})) = w[x] + Total(Restrict(w, V))
      BY <3>2, TotalAdd
    <3> QED  BY <3>1, <3>3
  <2>3. w[x] \in Nat /\ T \cup {x} \in SUBSET B /\ u[x] = w[x]
    BY RestrictIs
  <2>4. F[T \cup {x}] = Total(Restrict(w, A \cup (T \cup {x}))) - Total(Restrict(w, A))
    BY <2>3
  <2>5. F[T] = Total(Restrict(w, A \cup T)) - Total(Restrict(w, A))
    OBVIOUS
  <2>6. Total(Restrict(w, A \cup T)) \in Nat /\ Total(Restrict(w, A)) \in Nat
    BY <1>0, <2>1
  <2> HIDE DEF F, u
  <2>7. \A k, m, n, l \in Int : k = l + m => k - n = l + (m - n)
    OBVIOUS
  <2>8. Total(Restrict(w, A \cup (T \cup {x}))) = w[x] + Total(Restrict(w, A \cup T))
    BY <2>1, <2>2
  <2>9. Total(Restrict(w, A \cup (T \cup {x}))) \in Nat
    BY <2>3, <2>6, <2>8
  <2> QED  BY <2>3, <2>4, <2>5, <2>6, <2>7, <2>8, <2>9
<1>3. u \in [B -> Nat] /\ IsFiniteSet(B)
  BY RestrictIs, FS_Subset
<1>4. F[B] = Total(Restrict(w, A \cup B)) - Total(Restrict(w, A))
  OBVIOUS
<1> HIDE DEF F
<1>5. Total(u) = F[B]
  <2> HIDE DEF u
  <2> QED  BY <1>1, <1>2, <1>3, TotalUnique
<1>6. Total(Restrict(w, A)) \in Nat /\ Total(Restrict(w, A \cup B)) \in Nat
  BY <1>0
<1> QED  BY <1>4, <1>5, <1>6

(* A part adds up to no more than the whole. *)
LEMMA TotalPart ==
    ASSUME NEW S, IsFiniteSet(S), NEW w \in [S -> Nat], NEW T \in SUBSET S
    PROVE  Total(Restrict(w, T)) <= Total(w)
<1>1. T \cup (S \ T) = S /\ T \cap (S \ T) = {} /\ S \ T \in SUBSET S
  OBVIOUS
<1>2. Total(Restrict(w, S)) = Total(Restrict(w, T)) + Total(Restrict(w, S \ T))
  BY <1>1, TotalSplit
<1>3. Total(Restrict(w, T)) \in Nat /\ Total(Restrict(w, S \ T)) \in Nat
  BY <1>1, TotalAdd
<1> QED  BY <1>2, <1>3, RestrictIs

(* What is counted only in T.                                                *)
LEMMA TotalOnly ==
    ASSUME NEW S, IsFiniteSet(S), NEW w \in [S -> Nat], NEW T \in SUBSET S
    PROVE  Total([x \in S |-> IF x \in T THEN w[x] ELSE 0]) = Total(Restrict(w, T))
<1> DEFINE u == [x \in S |-> IF x \in T THEN w[x] ELSE 0]
<1>1. u \in [S -> Nat]
  OBVIOUS
<1>2. Restrict(u, T) = Restrict(w, T)
  BY DEF Restrict
<1>3. Restrict(u, S \ T) = [x \in S \ T |-> 0]
  BY DEF Restrict
<1>4. Total([x \in S \ T |-> 0]) = 0
  <2>1. IsFiniteSet(S \ T) /\ Cardinality(S \ T) \in Nat
    BY FS_Subset, FS_CardinalityType
  <2>2. Total([x \in S \ T |-> 0]) = Cardinality(S \ T) * 0
    BY <2>1, TotalSame
  <2> QED  BY <2>1, <2>2
<1>5. T \cup (S \ T) = S /\ T \cap (S \ T) = {} /\ S \ T \in SUBSET S
  OBVIOUS
<1> HIDE DEF u
<1>6. Total(Restrict(u, S)) = Total(Restrict(u, T)) + Total(Restrict(u, S \ T))
  BY <1>1, <1>5, TotalSplit
<1>7. Total(Restrict(u, T)) \in Nat
  BY <1>1, TotalAdd
<1>8. Total(u) = Total(Restrict(u, T))
  BY <1>1, <1>3, <1>4, <1>6, <1>7, RestrictIs
<1> QED  BY <1>2, <1>8 DEF u

(* A sum taken group by group.                                               *)
LEMMA TotalGrouped ==
    ASSUME NEW J, IsFiniteSet(J), NEW v \in [J -> Nat],
           NEW G, IsFiniteSet(G), NEW part \in [G -> SUBSET J],
           \A g, h \in G : g # h => part[g] \cap part[h] = {},
           NEW w \in [G -> Nat], \A g \in G : w[g] = Total(Restrict(v, part[g]))
    PROVE  Total(w) = Total(Restrict(v, UNION {part[g] : g \in G}))
<1> DEFINE F == [H \in SUBSET G |-> Total(Restrict(v, UNION {part[g] : g \in H}))]
<1>1. F[{}] = 0
  <2>1. UNION {part[g] : g \in {}} = {}
    OBVIOUS
  <2> QED  BY <2>1, TotalAdd
<1>2. ASSUME NEW H \in SUBSET G, NEW x \in G \ H
      PROVE  F[H \cup {x}] = w[x] + F[H]
  <2> DEFINE A == UNION {part[g] : g \in H}
  <2>1. A \in SUBSET J /\ part[x] \in SUBSET J
    OBVIOUS
  <2>2. UNION {part[g] : g \in H \cup {x}} = A \cup part[x]
    OBVIOUS
  <2>3. A \cap part[x] = {}
    OBVIOUS
  <2> HIDE DEF A
  <2>4. Total(Restrict(v, A \cup part[x])) = Total(Restrict(v, A)) + Total(Restrict(v, part[x]))
    BY <2>1, <2>3, TotalSplit
  <2>5. Total(Restrict(v, A)) \in Nat /\ Total(Restrict(v, part[x])) \in Nat
    BY <2>1, TotalAdd
  <2>6. F[H] = Total(Restrict(v, A))
    BY DEF A
  <2>7. F[H \cup {x}] = Total(Restrict(v, A \cup part[x]))
    BY <2>2
  <2> HIDE DEF F
  <2> QED  BY <2>4, <2>5, <2>6, <2>7
<1>3. F[G] = Total(Restrict(v, UNION {part[g] : g \in G}))
  OBVIOUS
<1> HIDE DEF F
<1> QED  BY <1>1, <1>2, <1>3, TotalUnique

(* The order of two sums does not matter.                                    *)
LEMMA TotalExchange ==
    ASSUME NEW S, IsFiniteSet(S), NEW T, IsFiniteSet(T), NEW f \in [S -> [T -> Nat]]
    PROVE  Total([s \in S |-> Total(f[s])]) = Total([t \in T |-> Total([s \in S |-> f[s][t]])])
<1> DEFINE w == [s \in S |-> Total(f[s])]
           col(t) == [s \in S |-> f[s][t]]
           sums(R) == [t \in T |-> Total(Restrict(col(t), R))]
           F == [R \in SUBSET S |-> Total(sums(R))]
<1>1. w \in [S -> Nat]
  BY TotalNat
<1>2. \A t \in T : col(t) \in [S -> Nat]
  OBVIOUS
<1>3. F[{}] = 0
  <2>1. sums({}) = [t \in T |-> 0]
    BY <1>2, TotalAdd
  <2>2. Total([t \in T |-> 0]) = Cardinality(T) * 0 /\ Cardinality(T) \in Nat
    BY TotalSame, FS_CardinalityType
  <2>3. F[{}] = Total(sums({}))
    OBVIOUS
  <2> HIDE DEF F, sums
  <2> QED  BY <2>1, <2>2, <2>3
<1>4. ASSUME NEW R \in SUBSET S, NEW x \in S \ R
      PROVE  F[R \cup {x}] = w[x] + F[R]
  <2>1. sums(R) \in [T -> Nat]
    BY <1>2, TotalAdd
  <2>2. f[x] \in [T -> Nat]
    OBVIOUS
  <2>3. \A t \in T : Total(Restrict(col(t), R \cup {x})) = f[x][t] + Total(Restrict(col(t), R))
    <3> SUFFICES ASSUME NEW t \in T
                 PROVE  Total(Restrict(col(t), R \cup {x})) = f[x][t] + Total(Restrict(col(t), R))
      OBVIOUS
    <3>1. col(t)[x] = f[x][t]
      OBVIOUS
    <3> HIDE DEF col
    <3>2. Total(Restrict(col(t), R \cup {x})) = col(t)[x] + Total(Restrict(col(t), R))
      BY <1>2, TotalAdd
    <3> QED  BY <3>1, <3>2
  <2>4. sums(R \cup {x}) = [t \in T |-> f[x][t] + sums(R)[t]]
    BY <2>3
  <2>5. F[R \cup {x}] = Total(sums(R \cup {x})) /\ F[R] = Total(sums(R)) /\ w[x] = Total(f[x])
    OBVIOUS
  <2> HIDE DEF sums, F, w
  <2>6. Total([t \in T |-> f[x][t] + sums(R)[t]]) = Total(f[x]) + Total(sums(R))
    BY <2>1, <2>2, TotalPlus
  <2> QED  BY <2>4, <2>5, <2>6
<1>5. F[S] = Total([t \in T |-> Total([s \in S |-> f[s][t]])])
  <2>1. \A t \in T : Restrict(col(t), S) = col(t)
    BY <1>2, RestrictIs
  <2>2. sums(S) = [t \in T |-> Total([s \in S |-> f[s][t]])]
    BY <2>1
  <2> QED  BY <2>2
<1>6. Total(w) = F[S]
  <2> HIDE DEF w, F
  <2> QED  BY <1>1, <1>3, <1>4, TotalUnique
<1> QED  BY <1>5, <1>6

(* Arithmetic. *)
LEMMA TimesMonotone ==
    ASSUME NEW b \in Nat, NEW m \in Nat, NEW n \in Nat, m <= n
    PROVE  b * m <= b * n
<1>1. PICK d \in Nat : n = m + d
  <2>1. n - m \in Nat /\ n = m + (n - m)
    OBVIOUS
  <2> QED  BY <2>1
<1>2. b * (m + d) = b * m + b * d /\ b * d \in Nat /\ b * m \in Nat
  OBVIOUS
<1> QED  BY <1>1, <1>2

(* What a quotient is. *)
LEMMA DivisionIs ==
    ASSUME NEW n \in Nat, NEW b \in Nat \ {0}
    PROVE  /\ n \div b \in Nat /\ n % b = n - b * (n \div b)
           /\ b * (n \div b) <= n /\ n < b * (n \div b) + b
<1>1. n \div b \in Nat
  OBVIOUS
<1>2. n % b = n - b * (n \div b)
  OBVIOUS
<1>3. b * (n \div b) <= n /\ n < b * (n \div b) + b
  BY <1>1
<1> QED  BY <1>1, <1>2, <1>3

(* CeilDiv is the least number of times b that covers a. *)
LEMMA CeilDivIs ==
    ASSUME NEW a \in Nat, NEW b \in Nat \ {0}
    PROVE  /\ CeilDiv(a, b) \in Nat
           /\ a <= b * CeilDiv(a, b) /\ b * CeilDiv(a, b) <= a + b - 1
           /\ a > 0 => CeilDiv(a, b) > 0
           /\ \A k \in Nat : a <= b * k => CeilDiv(a, b) <= k
<1>1. PICK n \in Nat : n = a + b - 1
  OBVIOUS
<1>2. n \div b \in Nat /\ b * (n \div b) <= n /\ n < b * (n \div b) + b
  BY <1>1, DivisionIs
<1>3. PICK c \in Nat : c = n \div b
  BY <1>2
<1>4. CeilDiv(a, b) = c
  BY <1>1, <1>3 DEF CeilDiv
<1>5. b * c \in Nat /\ b * c <= a + b - 1 /\ a <= b * c
  BY <1>1, <1>2, <1>3
<1>6. ASSUME a > 0, c = 0 PROVE FALSE
  BY <1>5, <1>6
<1>7. ASSUME NEW k \in Nat, a <= b * k, ~ (c <= k) PROVE FALSE
  <2>1. b * (k + 1) <= b * c
    BY <1>7, TimesMonotone
  <2>2. b * (k + 1) = b * k + b /\ b * k \in Nat
    OBVIOUS
  <2> QED  BY <2>1, <2>2, <1>5, <1>7
<1> QED  BY <1>4, <1>5, <1>6, <1>7

(* A number written with a last digit below b determines its digits. *)
LEMMA DigitsUnique ==
    ASSUME NEW n \in Nat, NEW x \in Nat, NEW y \in Nat, NEW s \in 0 .. n - 1, NEW t \in 0 .. n - 1,
           x * n + s = y * n + t
    PROVE  x = y /\ s = t
<1>1. ASSUME NEW i \in Nat, NEW j \in Nat, NEW k \in 0 .. n - 1, NEW l \in 0 .. n - 1,
             i * n + k = j * n + l, i < j
      PROVE  FALSE
  <2>1. n * (i + 1) <= n * j
    BY <1>1, TimesMonotone
  <2>2. n * (i + 1) = i * n + n /\ n * j = j * n /\ i * n \in Nat /\ j * n \in Nat
    OBVIOUS
  <2> QED  BY <2>1, <2>2, <1>1
<1>2. x = y
  <2>1. ~ (x < y) /\ ~ (y < x)
    BY <1>1
  <2> QED  BY <2>1
<1>3. x * n \in Nat
  OBVIOUS
<1> QED  BY <1>2, <1>3

-----------------------------------------------------------------------------
-----------------------------------------------------------------------------
(***************************************************************************)
(* Queues, and the numbers their jobs go by.                                 *)
(***************************************************************************)
IsQueue(q) ==
    /\ DOMAIN q \subseteq JobId /\ IsFiniteSet(DOMAIN q)
    /\ q \in [DOMAIN q -> Kinds]

(* The entries that accept a job. *)
Takers(q, j) == Accepted[q[j]]

JobsAt(q, a) == {j \in DOMAIN q : Takers(q, j) = a}
JobsWith(q, e) == {j \in DOMAIN q : e \in Takers(q, j)}

LEMMA EntriesFinite ==
    /\ IsFiniteSet(Entries) /\ Cardinality(Entries) = NrEntries
    /\ \A a \in SUBSET Entries : /\ IsFiniteSet(a) /\ Cardinality(a) \in 0 .. NrEntries
                                 /\ a # {} => Cardinality(a) \in Entries
<1>1. 1 \in Int /\ NrEntries \in Int /\ ~ (1 > NrEntries)
  BY EntriesAssumption
<1>2. IsFiniteSet(1 .. NrEntries) /\ Cardinality(1 .. NrEntries) = NrEntries - 1 + 1
  BY <1>1, FS_Interval
<1>3. IsFiniteSet(Entries) /\ Cardinality(Entries) = NrEntries
  BY <1>1, <1>2 DEF Entries
<1>4. ASSUME NEW a \in SUBSET Entries
      PROVE  /\ IsFiniteSet(a) /\ Cardinality(a) \in 0 .. NrEntries
             /\ a # {} => Cardinality(a) \in Entries
  <2>1. IsFiniteSet(a) /\ Cardinality(a) <= NrEntries
    BY <1>3, FS_Subset
  <2>2. Cardinality(a) \in Nat /\ (a # {} => Cardinality(a) # 0)
    BY <2>1, FS_CardinalityType, FS_EmptySet
  <2> QED  BY <1>1, <2>1, <2>2 DEF Entries
<1> QED  BY <1>3, <1>4

LEMMA QueueTypes ==
    ASSUME NEW q, IsQueue(q)
    PROVE  \A j \in DOMAIN q : /\ q[j] \in Kinds /\ Takers(q, j) \in SUBSET Entries
                               /\ j.cluster \in Nat /\ j.proc \in Nat /\ j.schedd \in 0..NrSchedds - 1
BY KindsAssumption DEF IsQueue, Takers, JobId

(* procid_mul is more than any process id. *)
LEMMA ProcidMul ==
    ASSUME NEW q, IsQueue(q)
    PROVE  /\ procid_mul(q) \in Nat \ {0}
           /\ \A j \in DOMAIN q : j.proc \in 0 .. procid_mul(q) - 1
<1> DEFINE procs == {j.proc : j \in DOMAIN q}
           D == DOMAIN q
<1>1. procs \cup {0} \in SUBSET Nat
  BY QueueTypes
<1>2. IsFiniteSet(procs \cup {0})
  <2> DEFINE f == [j \in D |-> j.proc]
  <2>1. f \in Surjection(D, procs)
    BY DEF Surjection
  <2>2. IsFiniteSet(D)
    BY DEF IsQueue
  <2> HIDE DEF f, procs, D
  <2>3. IsFiniteSet(procs)
    BY <2>1, <2>2, FS_Surjection
  <2>4. IsFiniteSet({0})
    BY FS_Singleton
  <2> QED  BY <2>3, <2>4, FS_Union
<1> DEFINE m == Max(procs \cup {0})
<1>3. m \in procs \cup {0} /\ \A x \in procs \cup {0} : x <= m
  <2> HIDE DEF procs
  <2> QED  BY <1>1, <1>2, MaxOf
<1>4. procid_mul(q) = m + 1
  BY DEF procid_mul
<1> HIDE DEF m
<1>5. m \in Nat /\ \A j \in DOMAIN q : j.proc <= m
  BY <1>1, <1>3
<1> QED  BY <1>4, <1>5, QueueTypes

(* No two jobs go by the same number (Linear). *)
LEMMA LinearInjective ==
    ASSUME NEW q, IsQueue(q), NEW i \in DOMAIN q, NEW j \in DOMAIN q, Linear(q, i) = Linear(q, j)
    PROVE  i = j
<1>1. PICK m \in Nat \ {0} : m = procid_mul(q)
  BY ProcidMul
<1>2. /\ i.proc \in 0 .. m - 1 /\ j.proc \in 0 .. m - 1
      /\ i.cluster \in Nat /\ j.cluster \in Nat
      /\ i.schedd \in 0..NrSchedds - 1 /\ j.schedd \in 0..NrSchedds - 1
  BY <1>1, ProcidMul, QueueTypes
<1>3. PICK x \in Nat, y \in Nat : x = i.cluster * m + i.proc /\ y = j.cluster * m + j.proc
  BY <1>2
<1>4. x * NrSchedds + i.schedd = y * NrSchedds + j.schedd
  BY <1>1, <1>3 DEF Linear
<1>5. NrSchedds \in Nat
  BY EntriesAssumption
<1>6. x = y /\ i.schedd = j.schedd
  BY <1>2, <1>4, <1>5, DigitsUnique
<1>7. i.cluster = j.cluster /\ i.proc = j.proc
  <2>1. m \in Nat /\ i.cluster * m + i.proc = j.cluster * m + j.proc
    BY <1>3, <1>6
  <2>2. PICK u, v, k, l : u = i.cluster /\ v = j.cluster /\ k = i.proc /\ l = j.proc
    OBVIOUS
  <2>3. u \in Nat /\ v \in Nat /\ k \in 0 .. m - 1 /\ l \in 0 .. m - 1 /\ u * m + k = v * m + l
    BY <1>2, <2>1, <2>2
  <2>4. u = v /\ k = l
    BY <2>1, <2>3, DigitsUnique
  <2> QED  BY <2>2, <2>4
<1>8. i \in JobId /\ j \in JobId
  BY DEF IsQueue
<1> QED  BY <1>6, <1>7, <1>8 DEF JobId

(* Clusters part the jobs: those of one agree on schedd and kind.            *)
LEMMA ClustersPart ==
    ASSUME NEW q, IsQueue(q)
    PROVE  /\ IsFiniteSet(JobClusters(q))
           /\ \A c \in JobClusters(q) : /\ c # {} /\ c \in SUBSET DOMAIN q /\ IsFiniteSet(c)
                                        /\ (CHOOSE j \in c : TRUE) \in c
                                        /\ \A j \in c : q[j] = KindOf(q, c)
           /\ \A c, d \in JobClusters(q) : c # d => c \cap d = {}
           /\ \A j \in DOMAIN q : \E c \in JobClusters(q) : j \in c
<1>1. ASSUME NEW c \in JobClusters(q)
      PROVE  /\ c # {} /\ c \in SUBSET DOMAIN q /\ IsFiniteSet(c)
             /\ (CHOOSE j \in c : TRUE) \in c
             /\ \A j \in c : q[j] = KindOf(q, c)
  <2>1. PICK s \in 0..NrSchedds - 1, k \in Kinds : c = JobCluster(q, s, k)
    BY DEF JobClusters
  <2>2. c # {}
    BY DEF JobClusters
  <2>3. c \in SUBSET DOMAIN q /\ \A j \in c : q[j] = k
    BY <2>1 DEF JobCluster
  <2>4. (CHOOSE j \in c : TRUE) \in c
    BY <2>2
  <2>5. KindOf(q, c) = k
    BY <2>3, <2>4 DEF KindOf
  <2>6. IsFiniteSet(c)
    BY <2>3, FS_Subset DEF IsQueue
  <2> QED  BY <2>2, <2>3, <2>4, <2>5, <2>6
<1>2. ASSUME NEW c \in JobClusters(q), NEW d \in JobClusters(q), c # d
      PROVE  c \cap d = {}
  <2>1. PICK s \in 0..NrSchedds - 1, k \in Kinds : c = JobCluster(q, s, k)
    BY DEF JobClusters
  <2>2. PICK t \in 0..NrSchedds - 1, l \in Kinds : d = JobCluster(q, t, l)
    BY DEF JobClusters
  <2> QED  BY <1>2, <2>1, <2>2 DEF JobCluster
<1>3. ASSUME NEW j \in DOMAIN q PROVE \E c \in JobClusters(q) : j \in c
  <2>1. j \in JobCluster(q, j.schedd, q[j])
    BY DEF JobCluster
  <2>2. JobCluster(q, j.schedd, q[j]) \in JobClusters(q)
    BY <2>1, QueueTypes DEF JobClusters
  <2> QED  BY <2>1, <2>2
<1>4. IsFiniteSet(JobClusters(q))
  <2>1. JobClusters(q) \subseteq SUBSET DOMAIN q
    BY <1>1
  <2>2. IsFiniteSet(SUBSET DOMAIN q)
    BY FS_SUBSET DEF IsQueue
  <2> QED  BY <2>1, <2>2, FS_Subset
<1> QED  BY <1>1, <1>2, <1>3, <1>4

(* A cluster goes by the number of one of its jobs: no two by the same one.  *)
LEMMA FirstInjective ==
    ASSUME NEW q, IsQueue(q), NEW c \in JobClusters(q), NEW d \in JobClusters(q),
           first_t(q, c) = first_t(q, d)
    PROVE  c = d
<1>1. PICK i : i = (CHOOSE j \in c : TRUE)
  OBVIOUS
<1>2. PICK k : k = (CHOOSE j \in d : TRUE)
  OBVIOUS
<1>3. i \in c /\ k \in d /\ i \in DOMAIN q /\ k \in DOMAIN q
  BY <1>1, <1>2, ClustersPart
<1>4. Linear(q, i) = Linear(q, k)
  BY <1>1, <1>2 DEF first_t
<1>5. i = k
  BY <1>3, <1>4, LinearInjective
<1> QED  BY <1>3, <1>5, ClustersPart

(* What an entry accepts of a cluster it accepts of each of its jobs.        *)
LEMMA ClustersForIs ==
    ASSUME NEW q, IsQueue(q), NEW e \in Entries
    PROVE  /\ IsFiniteSet(ClustersFor(q, e)) /\ ClustersFor(q, e) \subseteq JobClusters(q)
           /\ \A c \in JobClusters(q) : \A j \in c : (e \in Takers(q, j)) <=> (c \in ClustersFor(q, e))
           /\ UNION ClustersFor(q, e) = JobsWith(q, e)
<1>1. ClustersFor(q, e) \subseteq JobClusters(q)
  BY DEF ClustersFor
<1>2. IsFiniteSet(ClustersFor(q, e))
  BY <1>1, ClustersPart, FS_Subset
<1>3. \A c \in JobClusters(q) : \A j \in c : (e \in Takers(q, j)) <=> (c \in ClustersFor(q, e))
  BY ClustersPart DEF ClustersFor, Takers
<1>4. UNION ClustersFor(q, e) = JobsWith(q, e)
  BY <1>1, <1>3, ClustersPart DEF JobsWith
<1> QED  BY <1>1, <1>2, <1>3, <1>4

(* Weights that are the same for all.                                        *)
LEMMA TotalRestrictSame ==
    ASSUME NEW J, IsFiniteSet(J), NEW v \in [J -> Nat], NEW T \in SUBSET J, NEW a \in Nat,
           \A j \in T : v[j] = a
    PROVE  Total(Restrict(v, T)) = Cardinality(T) * a
<1>1. Restrict(v, T) = [j \in T |-> a]
  BY DEF Restrict
<1>2. IsFiniteSet(T)
  BY FS_Subset
<1> QED  BY <1>1, <1>2, TotalSame

LEMMA WithFinite ==
    ASSUME NEW q, IsQueue(q)
    PROVE  /\ IsFiniteSet(DOMAIN q) /\ Cardinality(DOMAIN q) \in Nat
           /\ \A T \in SUBSET DOMAIN q : IsFiniteSet(T) /\ Cardinality(T) \in Nat
           /\ \A e \in Entries : JobsWith(q, e) \in SUBSET DOMAIN q
           /\ \A a \in SUBSET Entries : JobsAt(q, a) \in SUBSET DOMAIN q
BY FS_Subset, FS_CardinalityType DEF IsQueue, JobsWith, JobsAt

(* Clusters of jobs alike, counted with any weight of their kind.            *)
LEMMA ClusterTotal ==
    ASSUME NEW q, IsQueue(q), NEW e \in Entries, NEW v \in [DOMAIN q -> Nat],
           NEW w \in [ClustersFor(q, e) -> Nat],
           \A c \in ClustersFor(q, e) : w[c] = Total(Restrict(v, c))
    PROVE  Total(w) = Total(Restrict(v, JobsWith(q, e)))
<1> DEFINE G == ClustersFor(q, e)
           part == [c \in G |-> c]
<1>1. IsFiniteSet(G) /\ G \subseteq JobClusters(q) /\ UNION G = JobsWith(q, e)
  BY ClustersForIs
<1>2. part \in [G -> SUBSET DOMAIN q]
  BY <1>1, ClustersPart
<1>3. \A g, h \in G : g # h => part[g] \cap part[h] = {}
  BY <1>1, ClustersPart
<1>4. \A g \in G : w[g] = Total(Restrict(v, part[g]))
  OBVIOUS
<1>5. UNION {part[g] : g \in G} = JobsWith(q, e)
  BY <1>1
<1>6. IsFiniteSet(DOMAIN q)
  BY DEF IsQueue
<1> HIDE DEF G, part
<1>7. w \in [G -> Nat]
  BY DEF G
<1>8. Total(w) = Total(Restrict(v, UNION {part[g] : g \in G}))
  BY <1>1, <1>2, <1>3, <1>4, <1>6, <1>7, TotalGrouped
<1> QED  BY <1>5, <1>8

(* out_glidein_counts: the jobs that the entry accepts. *)
LEMMA CountIs ==
    ASSUME NEW q, IsQueue(q), NEW e \in Entries
    PROVE  out_glidein_counts(q)[e] = Cardinality(JobsWith(q, e))
<1> DEFINE v == [j \in DOMAIN q |-> 1]
           w == [c \in ClustersFor(q, e) |-> Cardinality(c)]
<1>1. v \in [DOMAIN q -> Nat]
  OBVIOUS
<1>2. \A T \in SUBSET DOMAIN q : /\ Cardinality(T) \in Nat
                                /\ Total(Restrict(v, T)) = Cardinality(T)
  <2> SUFFICES ASSUME NEW T \in SUBSET DOMAIN q
               PROVE  Cardinality(T) \in Nat /\ Total(Restrict(v, T)) = Cardinality(T)
    OBVIOUS
  <2>1. \A j \in T : v[j] = 1
    OBVIOUS
  <2> HIDE DEF v
  <2>2. Total(Restrict(v, T)) = Cardinality(T) * 1
    BY <1>1, <2>1, WithFinite, TotalRestrictSame
  <2>3. Cardinality(T) \in Nat
    BY WithFinite
  <2> QED  BY <2>2, <2>3
<1>3. \A c \in ClustersFor(q, e) : c \in SUBSET DOMAIN q
  BY ClustersForIs, ClustersPart
<1> HIDE DEF v
<1>4. w \in [ClustersFor(q, e) -> Nat] /\ \A c \in ClustersFor(q, e) : w[c] = Total(Restrict(v, c))
  BY <1>2, <1>3
<1>5. Total(w) = Total(Restrict(v, JobsWith(q, e)))
  <2> HIDE DEF w
  <2> QED  BY <1>1, <1>4, ClusterTotal
<1>6. Total(Restrict(v, JobsWith(q, e))) = Cardinality(JobsWith(q, e))
  BY <1>2, WithFinite
<1> QED  BY <1>5, <1>6 DEF out_glidein_counts

(* The cores the jobs of a queue ask for.                                    *)
Cores(q) == [j \in DOMAIN q |-> RequestCpus[q[j]]]

(* out_cpu_counts: the cores that the jobs the entry accepts ask for. *)
LEMMA CpusIs ==
    ASSUME NEW q, IsQueue(q), NEW e \in Entries
    PROVE  /\ Cores(q) \in [DOMAIN q -> Nat \ {0}]
           /\ out_cpu_counts(q)[e] = Total(Restrict(Cores(q), JobsWith(q, e)))
<1> DEFINE w == [c \in ClustersFor(q, e) |-> RequestCpus[KindOf(q, c)] * Cardinality(c)]
<1>1. Cores(q) \in [DOMAIN q -> Nat \ {0}]
  BY QueueTypes, KindsAssumption DEF Cores
<1>2. ASSUME NEW c \in ClustersFor(q, e)
      PROVE  w[c] \in Nat /\ w[c] = Total(Restrict(Cores(q), c))
  <2>1. c \in SUBSET DOMAIN q /\ c # {} /\ \A j \in c : q[j] = KindOf(q, c)
    BY ClustersForIs, ClustersPart
  <2>2. PICK a \in Nat : a = RequestCpus[KindOf(q, c)]
    BY <2>1, QueueTypes, KindsAssumption
  <2>3. \A j \in c : Cores(q)[j] = a
    BY <2>1, <2>2 DEF Cores
  <2>4. Total(Restrict(Cores(q), c)) = Cardinality(c) * a
    BY <1>1, <2>1, <2>3, WithFinite, TotalRestrictSame
  <2>5. Cardinality(c) \in Nat
    BY <2>1, WithFinite
  <2>6. a * Cardinality(c) = Cardinality(c) * a /\ a * Cardinality(c) \in Nat
    BY <2>5
  <2>7. w[c] = a * Cardinality(c)
    BY <2>2
  <2> QED  BY <2>4, <2>6, <2>7
<1>3. w \in [ClustersFor(q, e) -> Nat] /\ \A c \in ClustersFor(q, e) : w[c] = Total(Restrict(Cores(q), c))
  BY <1>2
<1>4. Total(w) = Total(Restrict(Cores(q), JobsWith(q, e)))
  <2> HIDE DEF w
  <2>1. Cores(q) \in [DOMAIN q -> Nat]
    BY <1>1
  <2> QED  BY <1>3, <2>1, ClusterTotal
<1> QED  BY <1>1, <1>4 DEF out_cpu_counts

-----------------------------------------------------------------------------
-----------------------------------------------------------------------------
(***************************************************************************)
(* uniqueSets cuts the union of the sets into classes of elements that are   *)
(* in the same ones.                                                         *)
(***************************************************************************)
Over(sets, s) == UNION {sets[i] : i \in s}
Alike(sets, s, x) == {y \in Over(sets, s) : \A i \in s : y \in sets[i] <=> x \in sets[i]}
Classes(sets, s) == {Alike(sets, s, x) : x \in Over(sets, s)}

(* One round of uniqueSets cuts the classes so far by the next set. *)
LEMMA AddSetIs ==
    ASSUME NEW sets, NEW s, NEW m
    PROVE  AddSet(Classes(sets, s), sets[m]) = Classes(sets, s \cup {m})
<1> DEFINE V == Over(sets, s)
           N == sets[m]
           C == Classes(sets, s)
           common == {c \cap N : c \in C} \ {{}}
<1>1. UNION C = V
  BY DEF Classes, Alike
<1>2. UNION common = V \cap N
  <2>1. ASSUME NEW x \in UNION common PROVE x \in V \cap N
    <3>1. PICK c \in C : x \in c \cap N
      BY <2>1
    <3> QED  BY <3>1, <1>1
  <2>2. ASSUME NEW x \in V \cap N PROVE x \in UNION common
    <3>1. PICK c \in C : x \in c
      BY <2>2, <1>1
    <3>2. c \cap N \in common /\ x \in c \cap N
      BY <2>2, <3>1
    <3> HIDE DEF common
    <3> QED  BY <3>2
  <2> HIDE DEF common, V, N
  <2> QED  BY <2>1, <2>2
<1>3. (UNION C) \ (UNION common) = V \ N
  <2> HIDE DEF common, V, N, C
  <2> QED  BY <1>1, <1>2
<1>4. N \ UNION common = N \ V
  <2> HIDE DEF common, V, N, C
  <2> QED  BY <1>2
<1>5. AddSet(C, N) = ({N \ V} \cup {c \cap (V \ N) : c \in C} \cup common) \ {{}}
  BY <1>3, <1>4 DEF AddSet
<1>6. Over(sets, s \cup {m}) = V \cup N
  BY DEF Over
<1>7. ASSUME NEW x \in V \cap N
      PROVE  Alike(sets, s \cup {m}, x) = Alike(sets, s, x) \cap N
  <2>1. \A y : y \in Alike(sets, s, x) <=> y \in V /\ \A i \in s : y \in sets[i] <=> x \in sets[i]
    BY DEF Alike
  <2>2. \A y : y \in Alike(sets, s \cup {m}, x) <=>
            /\ y \in V \cup N /\ (y \in N <=> x \in N)
            /\ \A i \in s : y \in sets[i] <=> x \in sets[i]
    BY <1>6 DEF Alike
  <2>3. \A y \in N : (\A i \in s : y \in sets[i] <=> x \in sets[i]) => y \in V
    BY DEF Over
  <2>4. x \in V /\ x \in N
    OBVIOUS
  <2> HIDE DEF V, N
  <2>5. \A y : y \in Alike(sets, s \cup {m}, x) <=> y \in Alike(sets, s, x) /\ y \in N
    BY <2>1, <2>2, <2>3, <2>4
  <2> QED  BY <2>5
<1>8. ASSUME NEW x \in V \ N
      PROVE  Alike(sets, s \cup {m}, x) = Alike(sets, s, x) \cap (V \ N)
  BY <1>6 DEF Alike
<1>9. ASSUME NEW x \in N \ V
      PROVE  Alike(sets, s \cup {m}, x) = N \ V
  <2>1. \A y \in V \cup N : y \notin V <=> \A i \in s : y \notin sets[i]
    BY DEF Over
  <2> QED  BY <1>6, <2>1 DEF Alike
<1>10. \A x \in V : x \in Alike(sets, s, x)
  BY DEF Alike
<1>11. \A x \in V : \A y \in Alike(sets, s, x) : y \in V /\ Alike(sets, s, y) = Alike(sets, s, x)
  BY DEF Alike
<1>12. \A c : c \in C <=> \E x \in V : c = Alike(sets, s, x)
  BY DEF Classes
<1>13. \A c : c \in Classes(sets, s \cup {m}) <=> \E x \in V \cup N : c = Alike(sets, s \cup {m}, x)
  BY <1>6 DEF Classes
<1> HIDE DEF V, N, C
<1>14. ASSUME NEW c \in AddSet(C, N)
       PROVE  c \in Classes(sets, s \cup {m})
  <2>1. c # {}
    BY <1>5
  <2>2. CASE c = N \ V
    <3>1. PICK x \in N \ V : TRUE
      BY <2>1, <2>2
    <3> QED  BY <3>1, <2>2, <1>9, <1>13
  <2>3. ASSUME NEW d \in C, c = d \cap (V \ N)
        PROVE  c \in Classes(sets, s \cup {m})
    <3>1. PICK x \in d : x \in V \ N
      BY <2>1, <2>3
    <3>2. d = Alike(sets, s, x)
      BY <3>1, <1>11, <1>12
    <3> QED  BY <3>1, <3>2, <2>3, <1>8, <1>13
  <2>4. ASSUME NEW d \in C, c = d \cap N
        PROVE  c \in Classes(sets, s \cup {m})
    <3>1. PICK x \in d : x \in N
      BY <2>1, <2>4
    <3>2. d = Alike(sets, s, x) /\ x \in V
      BY <3>1, <1>11, <1>12
    <3> QED  BY <3>1, <3>2, <2>4, <1>7, <1>13
  <2> QED  BY <2>2, <2>3, <2>4, <1>5
<1>15. ASSUME NEW c \in Classes(sets, s \cup {m})
       PROVE  c \in AddSet(C, N)
  <2>1. PICK x \in V \cup N : c = Alike(sets, s \cup {m}, x)
    BY <1>13
  <2>2. CASE x \in N \ V
    <3>1. c = N \ V /\ x \in c
      BY <2>1, <2>2, <1>9
    <3> QED  BY <3>1, <1>5
  <2>3. CASE x \in V \ N
    <3>1. c = Alike(sets, s, x) \cap (V \ N) /\ x \in c /\ Alike(sets, s, x) \in C
      BY <2>1, <2>3, <1>8, <1>10, <1>12
    <3> QED  BY <3>1, <1>5
  <2>4. CASE x \in V \cap N
    <3>1. c = Alike(sets, s, x) \cap N /\ x \in c /\ Alike(sets, s, x) \in C
      BY <2>1, <2>4, <1>7, <1>10, <1>12
    <3> QED  BY <3>1, <1>5
  <2> QED  BY <2>2, <2>3, <2>4
<1>16. AddSet(C, N) = Classes(sets, s \cup {m})
  BY <1>14, <1>15
<1> QED  BY <1>16 DEF C, N

(* uniqueSets gives the classes of the elements in the same sets. *)
LEMMA CutIs ==
    ASSUME NEW sets, DOMAIN sets = Entries
    PROVE  FoldLeft(AddSet, {}, sets) = Classes(sets, Entries)
<1> DEFINE Cuts(g) == g = [s \in SUBSET Entries |->
                              IF s = {} THEN {}
                              ELSE AddSet(g[s \ {Max(s)}], sets[Max(s)])]
           classes == [s \in SUBSET Entries |-> Classes(sets, s)]
<1>1. ASSUME NEW s \in SUBSET Entries, s # {}
      PROVE  Max(s) \in s
  <2>1. s \in SUBSET Nat /\ IsFiniteSet(s)
    BY EntriesFinite, EntriesAssumption DEF Entries
  <2> QED  BY <1>1, <2>1, MaxOf
<1>2. \A s \in SUBSET Entries : s # {} =>
         classes[s] = AddSet(classes[s \ {Max(s)}], sets[Max(s)])
  <2> SUFFICES ASSUME NEW s \in SUBSET Entries, s # {}
               PROVE  classes[s] = AddSet(classes[s \ {Max(s)}], sets[Max(s)])
    OBVIOUS
  <2>1. PICK m : m = Max(s)
    OBVIOUS
  <2>2. m \in s /\ (s \ {m}) \cup {m} = s /\ s \ {m} \in SUBSET Entries
    BY <1>1, <2>1
  <2>3. AddSet(Classes(sets, s \ {m}), sets[m]) = Classes(sets, (s \ {m}) \cup {m})
    BY AddSetIs
  <2> QED  BY <2>1, <2>2, <2>3
<1>3. classes[{}] = {}
  BY DEF Classes, Over
<1>4. Cuts(classes)
  <2> DEFINE cut == [s \in SUBSET Entries |->
                        IF s = {} THEN {} ELSE AddSet(classes[s \ {Max(s)}], sets[Max(s)])]
  <2>1. \A s \in SUBSET Entries : cut[s] = classes[s]
    BY <1>2, <1>3
  <2>2. cut = classes
    BY <2>1
  <2> QED  BY <2>2
<1>5. ASSUME NEW g, Cuts(g)
      PROVE  g[Entries] = Classes(sets, Entries)
  <2> DEFINE P == {s \in SUBSET Entries : g[s] = classes[s]}
  <2>1. \A s \in SUBSET Entries : s # {} => g[s] = AddSet(g[s \ {Max(s)}], sets[Max(s)])
    BY <1>5, Zenon
  <2>2. g[{}] = {}
    BY <1>5
  <2> HIDE DEF classes, Cuts
  <2>3. ASSUME NEW s \in SUBSET Entries, \A x \in s : s \ {x} \in P
        PROVE  s \in P
    <3>1. CASE s = {}
      BY <3>1, <2>2, <1>3
    <3>2. CASE s # {}
      <4>1. g[s \ {Max(s)}] = classes[s \ {Max(s)}]
        BY <3>2, <2>3, <1>1
      <4> QED  BY <4>1, <3>2, <2>1, <1>2
    <3> QED  BY <3>1, <3>2
  <2>4. Entries \in P
    <3>1. IsFiniteSet(Entries)
      BY EntriesFinite
    <3>2. \A T \in SUBSET Entries : (\A x \in T : T \ {x} \in P) => T \in P
      BY <2>3
    <3> HIDE DEF P
    <3>3. SUBSET Entries \subseteq P
      BY ONLY <3>1, <3>2, SubsetDescent, Zenon
    <3> QED  BY <3>3
  <2> QED  BY <2>4 DEF classes
<1>6. Cuts(CHOOSE g : Cuts(g))
  BY <1>4, Zenon
<1>7. FoldLeft(AddSet, {}, sets) = (CHOOSE g : Cuts(g))[Entries]
  BY DEF FoldLeft, MapThenFoldSet
<1> HIDE DEF Cuts
<1> QED  BY <1>5, <1>6, <1>7

Numbers(q, T) == {Linear(q, j) : j \in T}

(* There are as many numbers as jobs. *)
LEMMA NumbersCount ==
    ASSUME NEW q, IsQueue(q), NEW T \in SUBSET DOMAIN q
    PROVE  Cardinality(Numbers(q, T)) = Cardinality(T)
<1> DEFINE f == [j \in T |-> Linear(q, j)]
<1>1. f \in Surjection(T, Numbers(q, T))
  BY DEF Surjection, Numbers
<1>2. f \in [T -> Numbers(q, T)] /\ \A i, j \in T : f[i] = f[j] => i = j
  BY LinearInjective DEF Numbers
<1>3. IsFiniteSet(T)
  BY WithFinite
<1> HIDE DEF f
<1>4. f \in Injection(T, Numbers(q, T))
  BY <1>2 DEF Injection, IsInjective
<1> QED  BY <1>1, <1>3, <1>4, FS_Surjection

(* The sets of entries that some job matches: all of them, and with e.       *)
Matches(q) == {Takers(q, j) : j \in DOMAIN q} \ {{}}

(* outvals: for each set of entries some job matches, the jobs that exactly  *)
(* these entries accept.                                                     *)
LEMMA OutvalsIs ==
    ASSUME NEW q, IsQueue(q)
    PROVE  outvals(q) = {<<a, Numbers(q, JobsAt(q, a))>> : a \in Matches(q)}
<1> DEFINE sets == [e \in Entries |-> {first_t(q, c) : c \in ClustersFor(q, e)}]
           takers(c) == Accepted[KindOf(q, c)]
           alike(a) == {first_t(q, d) : d \in {c \in JobClusters(q) : takers(c) = a}}
           Cut == Classes(sets, Entries)
<1>1. \A c \in JobClusters(q) : /\ takers(c) \in SUBSET Entries
                                /\ \A j \in c : j \in DOMAIN q /\ Takers(q, j) = takers(c)
                                /\ \E j \in c : TRUE
  BY ClustersPart, QueueTypes DEF Takers
<1>2. \A a \in Matches(q) : \E c \in JobClusters(q) : takers(c) = a
  BY <1>1, ClustersPart DEF Matches
<1>3. \A c \in JobClusters(q) : takers(c) # {} => takers(c) \in Matches(q)
  BY <1>1 DEF Matches
<1>4. \A a \in Matches(q) : a # {} /\ a \in SUBSET Entries
  BY QueueTypes DEF Matches
<1>5. \A e \in Entries : \A c \in JobClusters(q) : first_t(q, c) \in sets[e] <=> e \in takers(c)
  <2> SUFFICES ASSUME NEW e \in Entries, NEW c \in JobClusters(q)
               PROVE  first_t(q, c) \in sets[e] <=> e \in takers(c)
    OBVIOUS
  <2>1. e \in takers(c) => first_t(q, c) \in sets[e]
    BY DEF ClustersFor
  <2>2. ASSUME first_t(q, c) \in sets[e] PROVE e \in takers(c)
    <3>1. PICK d \in ClustersFor(q, e) : first_t(q, c) = first_t(q, d)
      BY <2>2
    <3>2. d \in JobClusters(q) /\ e \in takers(d)
      BY <3>1 DEF ClustersFor
    <3>3. c = d
      BY <3>1, <3>2, FirstInjective
    <3> QED  BY <3>2, <3>3
  <2> QED  BY <2>1, <2>2
<1>6. \A e \in Entries : \A n \in sets[e] : \E c \in JobClusters(q) : n = first_t(q, c)
  BY DEF ClustersFor
<1>7. DOMAIN sets = Entries
  OBVIOUS
<1> HIDE DEF sets, takers
<1>8. \A c \in JobClusters(q) : first_t(q, c) \in Over(sets, Entries) <=> takers(c) # {}
  BY <1>1, <1>5 DEF Over
<1>9. \A n \in Over(sets, Entries) : \E c \in JobClusters(q) : n = first_t(q, c)
  BY <1>6 DEF Over
<1>10. ASSUME NEW c \in JobClusters(q), takers(c) # {}
       PROVE  Alike(sets, Entries, first_t(q, c)) = alike(takers(c))
  <2>1. ASSUME NEW n \in Alike(sets, Entries, first_t(q, c))
        PROVE  n \in alike(takers(c))
    <3>1. n \in Over(sets, Entries) /\ \A i \in Entries : n \in sets[i] <=> first_t(q, c) \in sets[i]
      BY <2>1 DEF Alike
    <3>2. PICK d \in JobClusters(q) : n = first_t(q, d)
      BY <3>1, <1>9
    <3>3. \A i \in Entries : i \in takers(d) <=> i \in takers(c)
      BY <3>1, <3>2, <1>5
    <3>4. takers(d) = takers(c)
      BY <3>3, <1>1
    <3> QED  BY <3>2, <3>4
  <2>2. ASSUME NEW n \in alike(takers(c))
        PROVE  n \in Alike(sets, Entries, first_t(q, c))
    <3>1. PICK d \in JobClusters(q) : n = first_t(q, d) /\ takers(d) = takers(c)
      BY <2>2
    <3>2. n \in Over(sets, Entries)
      BY <3>1, <1>8, <1>10
    <3>3. \A i \in Entries : n \in sets[i] <=> first_t(q, c) \in sets[i]
      BY <3>1, <1>5
    <3> QED  BY <3>2, <3>3 DEF Alike
  <2> HIDE DEF alike
  <2> QED  BY <2>1, <2>2
<1>11. Cut = {alike(a) : a \in Matches(q)}
  <2>1. ASSUME NEW s \in Cut PROVE \E a \in Matches(q) : s = alike(a)
    <3>1. PICK n \in Over(sets, Entries) : s = Alike(sets, Entries, n)
      BY <2>1 DEF Classes
    <3>2. PICK c \in JobClusters(q) : n = first_t(q, c)
      BY <1>9
    <3>3. takers(c) # {}
      BY <3>2, <1>8
    <3>4. s = alike(takers(c)) /\ takers(c) \in Matches(q)
      BY <3>1, <3>2, <3>3, <1>3, <1>10
    <3> HIDE DEF alike
    <3> QED  BY <3>4
  <2>2. ASSUME NEW a \in Matches(q) PROVE alike(a) \in Cut
    <3>1. PICK c \in JobClusters(q) : takers(c) = a
      BY <1>2
    <3>2. takers(c) # {}
      BY <3>1, <1>4
    <3>3. Alike(sets, Entries, first_t(q, c)) = alike(takers(c)) /\ first_t(q, c) \in Over(sets, Entries)
      BY <3>2, <1>8, <1>10
    <3> HIDE DEF alike
    <3> QED  BY <3>1, <3>3 DEF Classes
  <2> HIDE DEF alike, Cut
  <2> QED  BY <2>1, <2>2
<1>12. ASSUME NEW a \in Matches(q)
       PROVE  /\ {i \in Entries : alike(a) \cap sets[i] # {}} = a
              /\ JobsBehind(q, alike(a)) = Numbers(q, JobsAt(q, a))
  <2>0. PICK b \in JobClusters(q) : takers(b) = a
    BY <1>2
  <2>1. \A c \in JobClusters(q) : first_t(q, c) \in alike(a) <=> takers(c) = a
    BY FirstInjective
  <2>2. \A n \in alike(a) : \E c \in JobClusters(q) : n = first_t(q, c) /\ takers(c) = a
    OBVIOUS
  <2> HIDE DEF alike
  <2>3. ASSUME NEW i \in Entries
        PROVE  alike(a) \cap sets[i] # {} <=> i \in a
    <3>1. ASSUME i \in a PROVE alike(a) \cap sets[i] # {}
      <4>1. first_t(q, b) \in alike(a) /\ first_t(q, b) \in sets[i]
        BY <2>0, <2>1, <3>1, <1>5
      <4> QED  BY <4>1
    <3>2. ASSUME alike(a) \cap sets[i] # {} PROVE i \in a
      <4>1. PICK n \in alike(a) : n \in sets[i]
        BY <3>2
      <4>2. PICK c \in JobClusters(q) : n = first_t(q, c) /\ takers(c) = a
        BY <2>2
      <4> QED  BY <4>1, <4>2, <1>5
    <3> QED  BY <3>1, <3>2
  <2>4. {i \in Entries : alike(a) \cap sets[i] # {}} = a
    BY <2>3, <1>4
  <2>5. ASSUME NEW n \in JobsBehind(q, alike(a)) PROVE n \in Numbers(q, JobsAt(q, a))
    <3>1. PICK d \in JobClusters(q) : first_t(q, d) \in alike(a) /\ n \in {Linear(q, j) : j \in d}
      BY <2>5 DEF JobsBehind
    <3>2. PICK j \in d : n = Linear(q, j)
      BY <3>1
    <3>3. j \in JobsAt(q, a)
      BY <3>1, <3>2, <2>1, <1>1 DEF JobsAt
    <3> QED  BY <3>2, <3>3 DEF Numbers
  <2>6. ASSUME NEW n \in Numbers(q, JobsAt(q, a)) PROVE n \in JobsBehind(q, alike(a))
    <3>1. PICK j \in DOMAIN q : n = Linear(q, j) /\ Takers(q, j) = a
      BY <2>6 DEF Numbers, JobsAt
    <3>2. PICK d \in JobClusters(q) : j \in d
      BY <3>1, ClustersPart
    <3>3. first_t(q, d) \in alike(a)
      BY <3>1, <3>2, <2>1, <1>1
    <3>4. d \in {c \in JobClusters(q) : first_t(q, c) \in alike(a)} /\ n \in {Linear(q, i) : i \in d}
      BY <3>1, <3>2, <3>3
    <3> QED  BY <3>4 DEF JobsBehind
  <2> QED  BY <2>4, <2>5, <2>6
<1>13. uniqueSets(sets) = {<<{i \in Entries : s \cap sets[i] # {}}, s>> : s \in Cut}
  BY <1>7, CutIs DEF uniqueSets
<1>14. outvals(q) = {<<v[1], JobsBehind(q, v[2])>> : v \in uniqueSets(sets)}
  BY DEF outvals, sets
<1> HIDE DEF alike, Cut
<1>15. uniqueSets(sets) = {<<a, alike(a)>> : a \in Matches(q)}
  <2>1. uniqueSets(sets) = {<<{i \in Entries : alike(a) \cap sets[i] # {}}, alike(a)>> : a \in Matches(q)}
    BY <1>11, <1>13
  <2>2. \A a \in Matches(q) : {i \in Entries : alike(a) \cap sets[i] # {}} = a
    BY <1>12
  <2> QED  BY <2>1, <2>2
<1>16. outvals(q) = {<<a, JobsBehind(q, alike(a))>> : a \in Matches(q)}
  <2>1. PICK U : U = uniqueSets(sets)
    OBVIOUS
  <2>2. \A x : x \in outvals(q) <=> \E v \in U : x = <<v[1], JobsBehind(q, v[2])>>
    BY <1>14, <2>1
  <2>3. \A v : v \in U <=> \E a \in Matches(q) : v = <<a, alike(a)>>
    BY <1>15, <2>1
  <2>4. \A x : x \in outvals(q) <=> \E a \in Matches(q) : x = <<a, JobsBehind(q, alike(a))>>
    <3>2. ASSUME NEW x \in outvals(q)
          PROVE  \E a \in Matches(q) : x = <<a, JobsBehind(q, alike(a))>>
      <4>1. PICK v \in U : x = <<v[1], JobsBehind(q, v[2])>>
        BY <2>2
      <4>2. PICK a \in Matches(q) : v = <<a, alike(a)>>
        BY <2>3
      <4>3. v[1] = a /\ v[2] = alike(a)
        BY <4>2
      <4> QED  BY <4>1, <4>3
    <3>3. ASSUME NEW a \in Matches(q)
          PROVE  <<a, JobsBehind(q, alike(a))>> \in outvals(q)
      <4>1. PICK v : v = <<a, alike(a)>>
        OBVIOUS
      <4>2. v \in U /\ v[1] = a /\ v[2] = alike(a)
        BY <4>1, <2>3
      <4> QED  BY <4>2, <2>2
    <3> QED  BY <3>2, <3>3
  <2>5. \A x : x \in {<<a, JobsBehind(q, alike(a))>> : a \in Matches(q)}
               <=> \E a \in Matches(q) : x = <<a, JobsBehind(q, alike(a))>>
    OBVIOUS
  <2> QED  BY <2>4, <2>5
<1>17. \A a \in Matches(q) : JobsBehind(q, alike(a)) = Numbers(q, JobsAt(q, a))
  BY <1>12
<1> QED  BY <1>16, <1>17

(* Each entry's share of a job, in parts of a job.                           *)
Share(q) == [j \in DOMAIN q |-> IF Takers(q, j) = {} THEN 0
                                ELSE Unit \div Cardinality(Takers(q, j))]

LEMMA ShareIs ==
    ASSUME NEW q, IsQueue(q)
    PROVE  /\ Share(q) \in [DOMAIN q -> Nat]
           /\ \A j \in DOMAIN q : Takers(q, j) # {} =>
                 /\ Share(q)[j] \in Nat \ {0} /\ Share(q)[j] <= Unit
                 /\ Cardinality(Takers(q, j)) * Share(q)[j] = Unit
<1>1. ASSUME NEW j \in DOMAIN q, Takers(q, j) # {}
      PROVE  /\ Share(q)[j] \in Nat \ {0} /\ Share(q)[j] <= Unit
             /\ Cardinality(Takers(q, j)) * Share(q)[j] = Unit
  <2>1. PICK n \in Entries : n = Cardinality(Takers(q, j))
    BY <1>1, QueueTypes, EntriesFinite
  <2>2. n \in Nat \ {0} /\ Unit \in Nat \ {0} /\ Unit % n = 0
    BY UnitAssumption, EntriesAssumption DEF Entries
  <2>3. Unit \div n \in Nat /\ n * (Unit \div n) = Unit
    BY <2>2, DivisionIs
  <2>4. PICK k \in Nat : k = Unit \div n
    BY <2>3
  <2>5. Share(q)[j] = k
    BY <1>1, <2>1, <2>4 DEF Share
  <2>6. k # 0
    BY <2>2, <2>3, <2>4
  <2>7. k <= n * k
    <3>1. k * 1 <= k * n
      BY <2>2, TimesMonotone
    <3>2. k * 1 = k /\ k * n = n * k
      BY <2>2
    <3> QED  BY <3>1, <3>2
  <2> QED  BY <2>1, <2>3, <2>4, <2>5, <2>6, <2>7
<1>2. \A j \in DOMAIN q : Share(q)[j] \in Nat
  BY <1>1 DEF Share
<1>3. Share(q) \in [DOMAIN q -> Nat]
  BY <1>2 DEF Share
<1> QED  BY <1>1, <1>3

(* A sum over some of the sets of jobs, each counted with a weight that is   *)
(* the same for all its jobs.                                                *)
LEMMA OutvalsTotal ==
    ASSUME NEW q, IsQueue(q), NEW G \in SUBSET outvals(q), NEW v \in [DOMAIN q -> Nat],
           NEW a \in [G -> Nat],
           \A u \in G : \A j \in DOMAIN q : Takers(q, j) = u[1] => v[j] = a[u]
    PROVE  Total([u \in G |-> Cardinality(u[2]) * a[u]])
             = Total(Restrict(v, {j \in DOMAIN q : \E u \in G : Takers(q, j) = u[1]}))
<1> DEFINE part == [u \in G |-> JobsAt(q, u[1])]
           w == [u \in G |-> Cardinality(u[2]) * a[u]]
<1>1. \A u \in G : u[1] \in Matches(q) /\ u = <<u[1], Numbers(q, JobsAt(q, u[1]))>>
  BY OutvalsIs
<1>2. \A b \in Matches(q) : b # {} /\ b \in SUBSET Entries
  BY QueueTypes DEF Matches
<1>3. IsFiniteSet(G)
  <2>1. Matches(q) \in SUBSET (SUBSET Entries) /\ IsFiniteSet(SUBSET Entries)
    BY <1>2, EntriesFinite, FS_SUBSET
  <2>2. IsFiniteSet(Matches(q))
    BY <2>1, FS_Subset
  <2> DEFINE f == [b \in Matches(q) |-> <<b, Numbers(q, JobsAt(q, b))>>]
  <2>3. f \in Surjection(Matches(q), outvals(q))
    <3>1. f \in [Matches(q) -> outvals(q)]
      BY OutvalsIs
    <3>2. \A u \in outvals(q) : \E b \in Matches(q) : f[b] = u
      BY OutvalsIs
    <3> HIDE DEF f
    <3> QED  BY <3>1, <3>2 DEF Surjection
  <2> HIDE DEF f
  <2>4. IsFiniteSet(outvals(q))
    BY <2>2, <2>3, FS_Surjection
  <2> QED  BY <2>4, FS_Subset
<1>4. \A u \in G : JobsAt(q, u[1]) \in SUBSET DOMAIN q
  BY DEF JobsAt
<1>5. part \in [G -> SUBSET DOMAIN q]
  BY <1>4
<1>6. \A g, h \in G : g # h => part[g] \cap part[h] = {}
  <2> SUFFICES ASSUME NEW g \in G, NEW h \in G, part[g] \cap part[h] # {}
               PROVE  g = h
    OBVIOUS
  <2>1. PICK j : j \in JobsAt(q, g[1]) /\ j \in JobsAt(q, h[1])
    OBVIOUS
  <2>2. g[1] = h[1]
    BY <2>1 DEF JobsAt
  <2>3. g = <<g[1], Numbers(q, JobsAt(q, g[1]))>> /\ h = <<h[1], Numbers(q, JobsAt(q, h[1]))>>
    BY <1>1
  <2> QED  BY <2>2, <2>3, Zenon
<1>7. \A u \in G : w[u] \in Nat /\ w[u] = Total(Restrict(v, part[u]))
  <2> SUFFICES ASSUME NEW u \in G
               PROVE  w[u] \in Nat /\ w[u] = Total(Restrict(v, part[u]))
    OBVIOUS
  <2>1. PICK T \in SUBSET DOMAIN q : T = JobsAt(q, u[1])
    BY <1>4
  <2>2. u[2] = Numbers(q, T)
    BY <1>1, <2>1
  <2>3. Cardinality(u[2]) = Cardinality(T) /\ Cardinality(T) \in Nat
    BY <2>2, NumbersCount, WithFinite
  <2>4. PICK b \in Nat : b = a[u]
    OBVIOUS
  <2>5. \A j \in T : v[j] = b
    BY <2>1, <2>4 DEF JobsAt
  <2>6. Total(Restrict(v, T)) = Cardinality(T) * b
    BY <2>5, WithFinite, TotalRestrictSame
  <2>7. w[u] = Cardinality(T) * b /\ part[u] = T
    BY <2>1, <2>3, <2>4
  <2>8. Cardinality(T) * b \in Nat
    BY <2>3
  <2> QED  BY <2>6, <2>7, <2>8
<1>8. w \in [G -> Nat]
  BY <1>7
<1>9. UNION {part[g] : g \in G} = {j \in DOMAIN q : \E u \in G : Takers(q, j) = u[1]}
  BY DEF JobsAt
<1>10. IsFiniteSet(DOMAIN q)
  BY DEF IsQueue
<1> HIDE DEF part, w
<1>11. Total(w) = Total(Restrict(v, UNION {part[g] : g \in G}))
  BY <1>3, <1>5, <1>6, <1>7, <1>8, <1>10, TotalGrouped
<1> QED  BY <1>9, <1>11 DEF w

(* new_out_counts: the shares of the jobs that the entry accepts. *)
LEMMA SharesAre ==
    ASSUME NEW q, IsQueue(q), NEW e \in Entries
    PROVE  new_out_counts(q)[e] = Total(Restrict(Share(q), JobsWith(q, e)))
<1> DEFINE G == {u \in outvals(q) : e \in u[1]}
           a == [u \in G |-> Unit \div Cardinality(u[1])]
<1>1. \A u \in G : u[1] \in SUBSET Entries /\ u[1] # {}
  BY OutvalsIs, QueueTypes DEF Matches
<1>2. \A u \in G : Unit \div Cardinality(u[1]) \in Nat
  <2> SUFFICES ASSUME NEW u \in G PROVE Unit \div Cardinality(u[1]) \in Nat
    OBVIOUS
  <2>1. PICK n \in Entries : n = Cardinality(u[1])
    BY <1>1, EntriesFinite
  <2>2. n \in Nat \ {0} /\ Unit \in Nat
    BY UnitAssumption, EntriesAssumption DEF Entries
  <2>3. Unit \div n \in Nat
    BY <2>2, DivisionIs
  <2> QED  BY <2>1, <2>3
<1>3. a \in [G -> Nat]
  BY <1>2
<1>4. \A u \in G : \A j \in DOMAIN q : Takers(q, j) = u[1] => Share(q)[j] = a[u]
  BY <1>1 DEF Share
<1>5. {j \in DOMAIN q : \E u \in G : Takers(q, j) = u[1]} = JobsWith(q, e)
  <2>1. ASSUME NEW j \in JobsWith(q, e)
        PROVE  j \in DOMAIN q /\ \E u \in G : Takers(q, j) = u[1]
    <3>1. PICK b : b = Takers(q, j)
      OBVIOUS
    <3>2. j \in DOMAIN q /\ e \in b /\ b \in Matches(q)
      BY <2>1, <3>1 DEF JobsWith, Matches
    <3>3. PICK u : u = <<b, Numbers(q, JobsAt(q, b))>>
      OBVIOUS
    <3>4. u \in outvals(q) /\ u[1] = b
      BY <3>2, <3>3, OutvalsIs
    <3> QED  BY <3>1, <3>2, <3>4
  <2>2. \A j \in DOMAIN q : (\E u \in G : Takers(q, j) = u[1]) => j \in JobsWith(q, e)
    BY DEF JobsWith
  <2> HIDE DEF G
  <2> QED  BY <2>1, <2>2
<1>6. new_out_counts(q)[e] = Total([u \in G |-> Cardinality(u[2]) * a[u]])
  <2>1. [u \in G |-> Cardinality(u[2]) * a[u]]
           = [u \in G |-> Cardinality(u[2]) * (Unit \div Cardinality(u[1]))]
    OBVIOUS
  <2>2. new_out_counts(q)[e]
           = Total([u \in G |-> Cardinality(u[2]) * (Unit \div Cardinality(u[1]))])
    BY DEF new_out_counts
  <2> QED  BY <2>1, <2>2
<1>7. G \in SUBSET outvals(q) /\ Share(q) \in [DOMAIN q -> Nat]
  BY ShareIs
<1> HIDE DEF G, a
<1>8. Total([u \in G |-> Cardinality(u[2]) * a[u]])
        = Total(Restrict(Share(q), {j \in DOMAIN q : \E u \in G : Takers(q, j) = u[1]}))
  BY <1>3, <1>4, <1>7, OutvalsTotal
<1> QED  BY <1>5, <1>6, <1>8

(* unique_to_site: the jobs that only this entry accepts. *)
LEMMA HereOnlyIs ==
    ASSUME NEW q, IsQueue(q), NEW e \in Entries
    PROVE  unique_to_site(q)[e] = Cardinality(JobsAt(q, {e}))
<1> DEFINE G == {u \in outvals(q) : u[1] = {e}}
           a == [u \in G |-> 1]
           v == [j \in DOMAIN q |-> 1]
<1>1. {j \in DOMAIN q : \E u \in G : Takers(q, j) = u[1]} = JobsAt(q, {e})
  <2>1. ASSUME NEW j \in JobsAt(q, {e})
        PROVE  j \in DOMAIN q /\ \E u \in G : Takers(q, j) = u[1]
    <3>1. j \in DOMAIN q /\ Takers(q, j) = {e} /\ {e} \in Matches(q)
      BY <2>1 DEF JobsAt, Matches
    <3>2. PICK u : u = <<{e}, Numbers(q, JobsAt(q, {e}))>>
      OBVIOUS
    <3>3. u \in outvals(q) /\ u[1] = {e}
      BY <3>1, <3>2, OutvalsIs
    <3> QED  BY <3>1, <3>3
  <2>2. \A j \in DOMAIN q : (\E u \in G : Takers(q, j) = u[1]) => j \in JobsAt(q, {e})
    BY DEF JobsAt
  <2> HIDE DEF G
  <2> QED  BY <2>1, <2>2
<1>2. \A u \in G : Cardinality(u[2]) * a[u] = Cardinality(u[2])
  <2> SUFFICES ASSUME NEW u \in G PROVE Cardinality(u[2]) * a[u] = Cardinality(u[2])
    OBVIOUS
  <2>1. PICK b \in SUBSET Entries : u[2] = Numbers(q, JobsAt(q, b))
    BY OutvalsIs, QueueTypes DEF Matches
  <2>2. Cardinality(u[2]) \in Nat
    BY <2>1, NumbersCount, WithFinite
  <2> QED  BY <2>2
<1>3. unique_to_site(q)[e] = Total([u \in G |-> Cardinality(u[2]) * a[u]])
  <2>1. unique_to_site(q)[e] = Total([u \in G |-> Cardinality(u[2])])
    BY DEF unique_to_site
  <2>2. [u \in G |-> Cardinality(u[2])] = [u \in G |-> Cardinality(u[2]) * a[u]]
    BY <1>2
  <2> QED  BY <2>1, <2>2
<1>4. /\ G \in SUBSET outvals(q) /\ v \in [DOMAIN q -> Nat] /\ a \in [G -> Nat]
      /\ \A u \in G : \A j \in DOMAIN q : Takers(q, j) = u[1] => v[j] = a[u]
      /\ \A j \in DOMAIN q : v[j] = 1
  OBVIOUS
<1> HIDE DEF G, a, v
<1>5. Total([u \in G |-> Cardinality(u[2]) * a[u]])
        = Total(Restrict(v, {j \in DOMAIN q : \E u \in G : Takers(q, j) = u[1]}))
  BY <1>4, OutvalsTotal
<1>6. Total(Restrict(v, JobsAt(q, {e}))) = Cardinality(JobsAt(q, {e}))
  <2>1. PICK T \in SUBSET DOMAIN q : T = JobsAt(q, {e})
    BY DEF JobsAt
  <2>2. \A j \in T : v[j] = 1
    BY <1>4
  <2>3. Total(Restrict(v, T)) = Cardinality(T) * 1
    BY <2>2, <1>4, WithFinite, TotalRestrictSame
  <2>4. Cardinality(T) \in Nat
    BY WithFinite
  <2> QED  BY <2>1, <2>3, <2>4
<1> QED  BY <1>1, <1>3, <1>5, <1>6

(* The jobs no entry accepts. *)
LEMMA UnmatchedIs ==
    ASSUME NEW q, IsQueue(q)
    PROVE  Cardinality(cq_jobs(q) \ UNION {v[2] : v \in outvals(q)}) = Cardinality(JobsAt(q, {}))
<1> DEFINE U == UNION {v[2] : v \in outvals(q)}
<1>1. \A j \in DOMAIN q : Linear(q, j) \in U <=> Takers(q, j) # {}
  <2> SUFFICES ASSUME NEW j \in DOMAIN q
               PROVE  Linear(q, j) \in U <=> Takers(q, j) # {}
    OBVIOUS
  <2>1. ASSUME Linear(q, j) \in U PROVE Takers(q, j) # {}
    <3>1. PICK b \in Matches(q) : Linear(q, j) \in Numbers(q, JobsAt(q, b))
      BY <2>1, OutvalsIs
    <3>2. PICK i \in JobsAt(q, b) : Linear(q, j) = Linear(q, i)
      BY <3>1 DEF Numbers
    <3>3. i \in DOMAIN q /\ Takers(q, i) = b /\ b # {}
      BY <3>2 DEF JobsAt, Matches
    <3> QED  BY <3>2, <3>3, LinearInjective
  <2>2. ASSUME Takers(q, j) # {} PROVE Linear(q, j) \in U
    <3>1. PICK b : b = Takers(q, j)
      OBVIOUS
    <3>2. b \in Matches(q) /\ Linear(q, j) \in Numbers(q, JobsAt(q, b))
      BY <2>2, <3>1 DEF Matches, Numbers, JobsAt
    <3>3. PICK v : v = <<b, Numbers(q, JobsAt(q, b))>>
      OBVIOUS
    <3>4. v \in outvals(q) /\ Linear(q, j) \in v[2]
      BY <3>2, <3>3, OutvalsIs
    <3> QED  BY <3>4
  <2> QED  BY <2>1, <2>2
<1>2. cq_jobs(q) \ U = Numbers(q, JobsAt(q, {}))
  <2> HIDE DEF U
  <2> QED  BY <1>1 DEF cq_jobs, Numbers, JobsAt
<1>3. JobsAt(q, {}) \in SUBSET DOMAIN q
  BY DEF JobsAt
<1> QED  BY <1>2, <1>3, NumbersCount

(* What countMatch returns, in terms of the jobs.                            *)
Parts(q, e) == Total(Restrict(Share(q), JobsWith(q, e)))
CoresOf(q, e) == Total(Restrict(Cores(q), JobsWith(q, e)))

LEMMA MatchIs ==
    ASSUME NEW q, IsQueue(q), NEW e \in Entries
    PROVE  /\ countMatch(q).count[e] = Cardinality(JobsWith(q, e))
           /\ countMatch(q).hereonly[e] = Cardinality(JobsAt(q, {e}))
           /\ countMatch(q).prop[e] = CeilDiv(Parts(q, e), Unit)
           /\ countMatch(q).prop_mc[e] =
                IF Cardinality(JobsWith(q, e)) = 0 THEN 0
                ELSE CeilDiv(CoresOf(q, e) * Parts(q, e),
                             Unit * Cardinality(JobsWith(q, e)) * EntryCpus[e])
           /\ countMatch(q).unmatched = Cardinality(JobsAt(q, {}))
           /\ DOMAIN countMatch(q).prop = Entries
<1>1. /\ out_glidein_counts(q)[e] = Cardinality(JobsWith(q, e))
      /\ out_cpu_counts(q)[e] = CoresOf(q, e)
      /\ new_out_counts(q)[e] = Parts(q, e)
      /\ unique_to_site(q)[e] = Cardinality(JobsAt(q, {e}))
  BY CountIs, CpusIs, SharesAre, HereOnlyIs DEF Parts, CoresOf
<1> QED  BY <1>1, UnmatchedIs DEF countMatch

(* An entry's shares are no more than its jobs and no less than the jobs that*)
(* only it accepts.                                                          *)
LEMMA PartsBounds ==
    ASSUME NEW q, IsQueue(q), NEW e \in Entries
    PROVE  /\ Parts(q, e) \in Nat /\ CoresOf(q, e) \in Nat
           /\ Cardinality(JobsWith(q, e)) \in Nat /\ Cardinality(JobsAt(q, {e})) \in Nat
           /\ Cardinality(JobsWith(q, e)) <= Parts(q, e)
           /\ Parts(q, e) <= Unit * Cardinality(JobsWith(q, e))
           /\ Unit * Cardinality(JobsAt(q, {e})) <= Parts(q, e)
           /\ Cardinality(JobsWith(q, e)) <= CoresOf(q, e)
<1>1. PICK W \in SUBSET DOMAIN q : W = JobsWith(q, e)
  BY DEF JobsWith
<1>2. PICK T \in SUBSET W : T = JobsAt(q, {e})
  BY <1>1 DEF JobsWith, JobsAt
<1>3. /\ IsFiniteSet(DOMAIN q) /\ IsFiniteSet(W) /\ Cardinality(W) \in Nat
      /\ IsFiniteSet(T) /\ Cardinality(T) \in Nat
  BY WithFinite
<1> DEFINE u == Restrict(Share(q), W)
           v == Restrict(Cores(q), W)
           ones == [j \in W |-> 1]
           units == [j \in W |-> Unit]
<1>4. /\ Share(q) \in [DOMAIN q -> Nat]
      /\ \A j \in W : Share(q)[j] \in Nat \ {0} /\ Share(q)[j] <= Unit
      /\ \A j \in T : Share(q)[j] = Unit
  <2>1. \A j \in W : e \in Takers(q, j) /\ j \in DOMAIN q
    BY <1>1 DEF JobsWith
  <2>2. \A j \in T : Takers(q, j) = {e} /\ j \in DOMAIN q
    BY <1>2 DEF JobsAt
  <2>3. Cardinality({e}) = 1
    BY FS_Singleton
  <2>4. \A j \in T : 1 * Share(q)[j] = Unit /\ Share(q)[j] \in Nat
    BY <2>2, <2>3, ShareIs
  <2> QED  BY <2>1, <2>4, ShareIs
<1>5. Cores(q) \in [DOMAIN q -> Nat] /\ \A j \in W : Cores(q)[j] \in Nat \ {0}
  BY CpusIs
<1>6. Unit \in Nat
  BY UnitAssumption
<1>7. /\ u \in [W -> Nat] /\ v \in [W -> Nat] /\ ones \in [W -> Nat] /\ units \in [W -> Nat]
      /\ \A j \in W : ones[j] <= u[j] /\ u[j] <= units[j] /\ ones[j] <= v[j]
  BY <1>4, <1>5, <1>6, RestrictIs
<1>8. Total(ones) = Cardinality(W) * 1 /\ Total(units) = Cardinality(W) * Unit
  BY <1>3, <1>6, TotalSame
<1>9. Total(Restrict(u, T)) = Cardinality(T) * Unit
  <2>1. \A j \in T : u[j] = Unit
    BY <1>4, RestrictIs
  <2> HIDE DEF u
  <2> QED  BY <1>3, <1>6, <1>7, <2>1, TotalRestrictSame
<1> HIDE DEF u, v, ones, units
<1>10. Total(u) \in Nat /\ Total(v) \in Nat
  BY <1>3, <1>7, TotalNat
<1>11. Total(ones) <= Total(u) /\ Total(u) <= Total(units) /\ Total(ones) <= Total(v)
  BY <1>3, <1>7, TotalMonotone
<1>12. Total(Restrict(u, T)) <= Total(u)
  BY <1>3, <1>7, TotalPart
<1>13. Parts(q, e) = Total(u) /\ CoresOf(q, e) = Total(v)
  BY <1>1 DEF Parts, CoresOf, u, v
<1>14. Cardinality(W) * 1 = Cardinality(W) /\ Cardinality(W) * Unit = Unit * Cardinality(W)
       /\ Cardinality(T) * Unit = Unit * Cardinality(T)
  BY <1>3, <1>6
<1> QED  BY <1>1, <1>2, <1>3, <1>8, <1>9, <1>10, <1>11, <1>12, <1>13, <1>14

(* What an entry is asked for is something, and no more than its jobs need.  *)
LEMMA AskedBounds ==
    ASSUME NEW q, IsQueue(q), NEW e \in Entries
    PROVE  LET m == countMatch(q)
           IN  /\ m.count[e] \in Nat /\ m.prop[e] \in Nat /\ m.prop_mc[e] \in Nat
               /\ m.hereonly[e] <= m.prop[e] /\ m.prop[e] <= m.count[e]
               /\ (m.count[e] > 0) <=> (m.prop_mc[e] > 0)
               /\ m.prop_mc[e] <= CoresOf(q, e)
<1>1. PICK c, h, s, p : /\ c = Cardinality(JobsWith(q, e)) /\ h = Cardinality(JobsAt(q, {e}))
                        /\ s = Parts(q, e) /\ p = CoresOf(q, e)
  OBVIOUS
<1>2. /\ c \in Nat /\ h \in Nat /\ s \in Nat /\ p \in Nat
      /\ c <= s /\ s <= Unit * c /\ Unit * h <= s /\ c <= p
  BY <1>1, PartsBounds
<1>3. Unit \in Nat \ {0}
  BY UnitAssumption
<1>4. PICK k \in Nat \ {0} : k = EntryCpus[e]
  BY KindsAssumption
<1>5. /\ CeilDiv(s, Unit) \in Nat /\ s <= Unit * CeilDiv(s, Unit)
      /\ CeilDiv(s, Unit) <= c
  BY <1>2, <1>3, CeilDivIs
<1>6. h <= CeilDiv(s, Unit)
  <2>1. PICK d \in Nat : d = CeilDiv(s, Unit)
    BY <1>5
  <2>2. Unit * h <= Unit * d /\ Unit * h \in Nat /\ Unit * d \in Nat
    BY <1>2, <1>3, <1>5, <2>1
  <2>3. ASSUME d + 1 <= h PROVE FALSE
    <3>1. Unit * (d + 1) <= Unit * h
      BY <1>2, <1>3, <2>3, TimesMonotone
    <3>2. Unit * (d + 1) = Unit * d + Unit
      BY <1>3
    <3> QED  BY <1>3, <2>2, <3>1, <3>2
  <2> QED  BY <1>2, <2>1, <2>3
<1> DEFINE mc == IF c = 0 THEN 0 ELSE CeilDiv(p * s, Unit * c * k)
<1>7. mc \in Nat /\ (c > 0 <=> mc > 0) /\ mc <= p
  <2>1. CASE c = 0
    BY <1>2, <2>1
  <2>2. CASE c # 0
    <3>1. PICK d \in Nat \ {0} : d = Unit * c
      BY <1>2, <1>3, <2>2
    <3>2. d * k \in Nat \ {0} /\ Unit * c * k = d * k
      BY <3>1
    <3>3. p * s \in Nat /\ p * s > 0
      BY <1>2, <2>2
    <3>4. p * s <= (d * k) * p
      <4>1. p * s <= p * d
        BY <1>2, <3>1, TimesMonotone
      <4>2. (p * d) * 1 <= (p * d) * k
        <5>1. p * d \in Nat /\ 1 <= k
          BY <1>2
        <5> QED  BY <5>1, TimesMonotone
      <4>3. (p * d) * 1 = p * d /\ (p * d) * k = (d * k) * p /\ p * d \in Nat /\ (d * k) * p \in Nat
        BY <1>2
      <4> QED  BY <4>1, <4>2, <4>3, <3>3
    <3>5. /\ CeilDiv(p * s, d * k) \in Nat /\ CeilDiv(p * s, d * k) > 0
          /\ CeilDiv(p * s, d * k) <= p
      BY <1>2, <3>2, <3>3, <3>4, CeilDivIs
    <3> QED  BY <1>2, <2>2, <3>2, <3>5
  <2> QED  BY <2>1, <2>2
<1>8. /\ countMatch(q).count[e] = c /\ countMatch(q).hereonly[e] = h
      /\ countMatch(q).prop[e] = CeilDiv(s, Unit) /\ countMatch(q).prop_mc[e] = mc
  BY <1>1, <1>4, MatchIs
<1> HIDE DEF mc
<1> QED  BY <1>1, <1>2, <1>5, <1>6, <1>7, <1>8

(* The shares of all entries add up to the jobs that match.                  *)
LEMMA SharesAddUp ==
    ASSUME NEW q, IsQueue(q)
    PROVE  Total([e \in Entries |-> Parts(q, e)]) =
             Unit * Cardinality(DOMAIN q \ JobsAt(q, {}))
<1> DEFINE D == DOMAIN q
           M == D \ JobsAt(q, {})
           f == [e \in Entries |-> [j \in D |-> IF j \in JobsWith(q, e) THEN Share(q)[j] ELSE 0]]
           col(j) == [e \in Entries |-> f[e][j]]
           units == [j \in D |-> Unit]
<1>1. IsFiniteSet(D) /\ IsFiniteSet(Entries) /\ Share(q) \in [D -> Nat] /\ Unit \in Nat
  BY EntriesFinite, ShareIs, UnitAssumption DEF IsQueue
<1>2. f \in [Entries -> [D -> Nat]]
  BY <1>1
<1>3. \A e \in Entries : Total(f[e]) = Parts(q, e)
  <2> SUFFICES ASSUME NEW e \in Entries PROVE Total(f[e]) = Parts(q, e)
    OBVIOUS
  <2>1. PICK T \in SUBSET D : T = JobsWith(q, e)
    BY DEF JobsWith
  <2>2. f[e] = [j \in D |-> IF j \in T THEN Share(q)[j] ELSE 0]
    BY <2>1
  <2> HIDE DEF f
  <2>3. Total([j \in D |-> IF j \in T THEN Share(q)[j] ELSE 0]) = Total(Restrict(Share(q), T))
    BY <1>1, TotalOnly
  <2> QED  BY <2>1, <2>2, <2>3 DEF Parts
<1>4. \A j \in D : Total(col(j)) = IF j \in M THEN units[j] ELSE 0
  <2> SUFFICES ASSUME NEW j \in D PROVE Total(col(j)) = IF j \in M THEN Unit ELSE 0
    OBVIOUS
  <2>1. PICK T \in SUBSET Entries : T = Takers(q, j)
    BY QueueTypes
  <2>2. PICK s \in Nat : s = Share(q)[j]
    BY <1>1
  <2> DEFINE same == [e \in Entries |-> s]
  <2>3. col(j) = [e \in Entries |-> IF e \in T THEN same[e] ELSE 0]
    BY <2>1, <2>2 DEF JobsWith
  <2>4. same \in [Entries -> Nat] /\ \A e \in T : same[e] = s
    OBVIOUS
  <2> HIDE DEF col, same
  <2>5. Total(col(j)) = Total(Restrict(same, T))
    BY <2>3, <2>4, <1>1, TotalOnly
  <2>6. Total(Restrict(same, T)) = Cardinality(T) * s
    BY <2>4, <1>1, TotalRestrictSame
  <2>7. CASE T = {}
    <3>1. Cardinality(T) = 0 /\ j \notin M
      BY <2>1, <2>7, FS_EmptySet DEF JobsAt
    <3>2. 0 * s = 0
      OBVIOUS
    <3> QED  BY <3>1, <3>2, <2>5, <2>6
  <2>8. CASE T # {}
    <3>1. j \in M /\ Cardinality(T) * s = Unit
      BY <2>1, <2>2, <2>8, ShareIs DEF JobsAt
    <3> QED  BY <3>1, <2>5, <2>6
  <2> QED  BY <2>7, <2>8
<1>5. units \in [D -> Nat] /\ M \in SUBSET D /\ \A j \in M : units[j] = Unit
  BY <1>1
<1>6. [e \in Entries |-> Total(f[e])] = [e \in Entries |-> Parts(q, e)]
  BY <1>3
<1>7. [j \in D |-> Total(col(j))] = [j \in D |-> IF j \in M THEN units[j] ELSE 0]
  BY <1>4
<1>8. Total([e \in Entries |-> Total(f[e])]) = Total([j \in D |-> Total(col(j))])
  <2>1. Total([e \in Entries |-> Total(f[e])]) =
          Total([j \in D |-> Total([e \in Entries |-> f[e][j]])])
    <3> HIDE DEF f, D
    <3> QED  BY <1>1, <1>2, TotalExchange
  <2> HIDE DEF f
  <2> QED  BY <2>1
<1> HIDE DEF units, f, col
<1>9. Total([j \in D |-> IF j \in M THEN units[j] ELSE 0]) = Total(Restrict(units, M))
  BY <1>1, <1>5, TotalOnly
<1>10. Total(Restrict(units, M)) = Cardinality(M) * Unit
  BY <1>1, <1>5, TotalRestrictSame
<1>11. Cardinality(M) * Unit = Unit * Cardinality(M)
  <2>1. Cardinality(M) \in Nat
    BY <1>5, WithFinite
  <2> QED  BY <2>1, <1>1
<1> QED  BY <1>6, <1>7, <1>8, <1>9, <1>10, <1>11

(* What the entries are asked for together, rounded up, covers the matched   *)
(* jobs and exceeds them by less than one per entry.                         *)
LEMMA Covered ==
    ASSUME NEW q, IsQueue(q)
    PROVE  LET matched == Cardinality(DOMAIN q \ JobsAt(q, {}))
               asked   == Total(countMatch(q).prop)
           IN  matched <= asked /\ asked < matched + NrEntries
<1> DEFINE prop == countMatch(q).prop
           parts == [e \in Entries |-> Parts(q, e)]
           scaled == [e \in Entries |-> Unit * prop[e]]
           rest == [e \in Entries |-> Unit - 1]
           upper == [e \in Entries |-> parts[e] + rest[e]]
<1>1. IsFiniteSet(Entries) /\ Cardinality(Entries) = NrEntries /\ NrEntries \in Nat \ {0}
  BY EntriesFinite, EntriesAssumption
<1>2. Unit \in Nat \ {0} /\ Unit \in Nat /\ Unit - 1 \in Nat
  BY UnitAssumption
<1>3. DOMAIN prop = Entries
  <2>1. PICK e \in Entries : TRUE
    BY EntriesAssumption DEF Entries
  <2> QED  BY <2>1, MatchIs
<1>4. ASSUME NEW e \in Entries
      PROVE  /\ parts[e] \in Nat /\ prop[e] \in Nat
             /\ parts[e] <= Unit * prop[e] /\ Unit * prop[e] <= parts[e] + (Unit - 1)
             /\ Unit * prop[e] \in Nat
  <2>1. PICK s \in Nat : s = Parts(q, e)
    BY PartsBounds
  <2>2. PICK d \in Nat : d = CeilDiv(s, Unit)
    BY <1>2, CeilDivIs
  <2>3. s <= Unit * d /\ Unit * d <= s + Unit - 1 /\ Unit * d \in Nat
    <3>1. Unit * d \in Nat
      BY <1>2
    <3>2. s <= Unit * CeilDiv(s, Unit) /\ Unit * CeilDiv(s, Unit) <= s + Unit - 1
      BY <1>2, CeilDivIs
    <3> QED  BY <2>2, <3>1, <3>2
  <2>4. prop[e] = d /\ parts[e] = s
    BY <2>1, <2>2, MatchIs
  <2> HIDE DEF prop, parts
  <2> QED  BY <1>2, <2>3, <2>4
<1>5. prop \in [Entries -> Nat]
  <2>1. prop = [e \in Entries |-> prop[e]]
    BY <1>3 DEF countMatch
  <2> HIDE DEF prop
  <2> QED  BY <2>1, <1>4
<1> HIDE DEF prop, parts
<1>6. parts \in [Entries -> Nat]
  BY <1>4 DEF parts
<1>7. /\ scaled \in [Entries -> Nat] /\ rest \in [Entries -> Nat] /\ upper \in [Entries -> Nat]
      /\ \A e \in Entries : parts[e] <= scaled[e] /\ scaled[e] <= upper[e]
  BY <1>2, <1>4
<1>8. Total(scaled) = Unit * Total(prop)
  BY <1>1, <1>2, <1>5, TotalTimes
<1>9. Total(rest) = NrEntries * (Unit - 1)
  BY <1>1, <1>2, TotalSame
<1>10. Total(upper) = Total(parts) + Total(rest)
  <2> HIDE DEF rest
  <2> QED  BY <1>1, <1>6, <1>7, TotalPlus
<1> HIDE DEF scaled, rest, upper
<1>11. Total(parts) <= Total(scaled) /\ Total(scaled) <= Total(upper)
  BY <1>1, <1>6, <1>7, TotalMonotone
<1>12. PICK m \in Nat : m = Cardinality(DOMAIN q \ JobsAt(q, {}))
  BY WithFinite
<1>13. Total(parts) = Unit * m
  BY <1>12, SharesAddUp DEF parts
<1>14. PICK a \in Nat : a = Total(prop)
  BY <1>1, <1>5, TotalNat
<1>15. Unit * m <= Unit * a /\ Unit * a <= Unit * m + NrEntries * (Unit - 1)
  BY <1>8, <1>9, <1>10, <1>11, <1>13, <1>14
<1>16. Unit * m \in Nat /\ Unit * a \in Nat
  BY <1>2
<1>17. ASSUME a + 1 <= m PROVE FALSE
  <2>1. Unit * (a + 1) <= Unit * m /\ Unit * (a + 1) = Unit * a + Unit
    BY <1>2, <1>17, TimesMonotone
  <2> QED  BY <1>2, <1>15, <1>16, <2>1
<1>18. ASSUME m + NrEntries <= a PROVE FALSE
  <2>1. Unit * (m + NrEntries) <= Unit * a
    <3>1. m + NrEntries \in Nat
      BY <1>1
    <3> QED  BY <1>2, <1>18, <3>1, TimesMonotone
  <2>2. Unit * (m + NrEntries) = Unit * m + NrEntries * Unit
    BY <1>1, <1>2
  <2>3. NrEntries * (Unit - 1) = NrEntries * Unit - NrEntries /\ NrEntries * Unit \in Nat
    BY <1>1, <1>2
  <2> QED  BY <1>1, <1>15, <1>16, <2>1, <2>2, <2>3
<1> QED  BY <1>1, <1>12, <1>14, <1>17, <1>18 DEF prop

-----------------------------------------------------------------------------
(* What a group finds is a queue.                                            *)
LEMMA QueueKept == IsQueue(condorq) /\ [QueueNext]_condorq => IsQueue(condorq')
<1> SUFFICES ASSUME IsQueue(condorq), [QueueNext]_condorq PROVE IsQueue(condorq')
  OBVIOUS
<1>1. CASE JobArrives
  <2>1. PICK jid \in [schedd : 0..NrSchedds - 1, cluster : Clusters, proc : Procs] \ DOMAIN condorq,
              k \in Kinds :
          condorq' = [i \in DOMAIN condorq \cup {jid} |-> IF i = jid THEN k ELSE condorq[i]]
    BY <1>1 DEF JobArrives
  <2>2. jid \in JobId
    BY QueueAssumption DEF JobId
  <2>3. IsFiniteSet(DOMAIN condorq \cup {jid})
    BY FS_AddElement DEF IsQueue
  <2> QED  BY <2>1, <2>2, <2>3 DEF IsQueue
<1>2. CASE JobLeaves
  <2>1. PICK jid \in DOMAIN condorq :
          condorq' = [i \in DOMAIN condorq \ {jid} |-> condorq[i]]
    BY <1>2 DEF JobLeaves
  <2>2. IsFiniteSet(DOMAIN condorq \ {jid})
    BY FS_RemoveElement DEF IsQueue
  <2> QED  BY <2>1, <2>2 DEF IsQueue
<1>3. CASE UNCHANGED condorq
  BY <1>3
<1> QED  BY <1>1, <1>2, <1>3 DEF QueueNext

LEMMA QueueAlways == QueueSpec => []IsQueue(condorq)
<1> DEFINE Inv == IsQueue(condorq)
<1>1. QueueInit => Inv
  BY FS_EmptySet DEF QueueInit, IsQueue
<1>2. Inv /\ [QueueNext]_condorq => Inv'
  BY QueueKept
<1> HIDE DEF Inv
<1>3. QueueSpec => []Inv
  BY <1>1, <1>2, PTL DEF QueueSpec
<1> QED  BY <1>3 DEF Inv

(* Counting through numbers, clusters and cut sets loses no job and counts   *)
(* none twice (countMatch), whatever the queues, kinds and entries.          *)
THEOREM JobsCountedRight == QueueSpec => []CountsAreTrue
<1>1. ASSUME IsQueue(condorq) PROVE CountsAreTrue
  <2>1. \A e \in Entries : JobsOf(e) = JobsWith(condorq, e)
    BY DEF JobsOf, JobsWith, Takers
  <2>2. \A a : JobsFor(a) = JobsAt(condorq, a)
    BY DEF JobsFor, JobsAt, Takers
  <2>3. \A e \in Entries :
           [jid \in JobsOf(e) |-> Unit \div Cardinality(Accepted[condorq[jid]])]
              = Restrict(Share(condorq), JobsWith(condorq, e))
    <3> SUFFICES ASSUME NEW e \in Entries
                 PROVE  [jid \in JobsOf(e) |-> Unit \div Cardinality(Accepted[condorq[jid]])]
                          = Restrict(Share(condorq), JobsWith(condorq, e))
      OBVIOUS
    <3>1. \A j \in JobsOf(e) : /\ j \in DOMAIN condorq
                               /\ Share(condorq)[j] = Unit \div Cardinality(Accepted[condorq[j]])
      BY DEF JobsOf, Share, Takers
    <3> QED  BY <3>1, <2>1 DEF Restrict
  <2>4. PICK e0 \in Entries : TRUE
    BY EntriesAssumption DEF Entries
  <2>5. countMatch(condorq).unmatched = Cardinality(JobsFor({}))
    BY <1>1, <2>2, <2>4, MatchIs
  <2>6. ASSUME NEW e \in Entries
        PROVE  /\ countMatch(condorq).count[e] = Cardinality(JobsOf(e))
               /\ countMatch(condorq).hereonly[e] = Cardinality(JobsFor({e}))
               /\ countMatch(condorq).prop[e] = CeilDiv(Total([jid \in JobsOf(e) |->
                                 Unit \div Cardinality(Accepted[condorq[jid]])]), Unit)
    BY <1>1, <2>1, <2>2, <2>3, MatchIs DEF Parts
  <2> QED  BY <2>5, <2>6 DEF CountsAreTrue
<1> QED  BY <1>1, QueueAlways, PTL

(* Every matched job is covered by what the entries are asked for, with less *)
(* than one job per entry in excess, and an entry that some job matches is   *)
(* asked for at least one (countMatch), whatever the queues and kinds.       *)
THEOREM JobsAllCovered == QueueSpec => []EveryJobCovered
<1>1. ASSUME IsQueue(condorq) PROVE EveryJobCovered
  <2>1. JobsFor({}) = JobsAt(condorq, {})
    BY DEF JobsFor, JobsAt, Takers
  <2>2. LET matched == Cardinality(DOMAIN condorq \ JobsFor({}))
            asked   == Total(countMatch(condorq).prop)
        IN  matched <= asked /\ asked < matched + NrEntries
    BY <1>1, <2>1, Covered
  <2>3. ASSUME NEW e \in Entries
        PROVE  LET m == countMatch(condorq)
               IN  /\ (m.count[e] > 0) <=> (m.prop_mc[e] > 0)
                   /\ m.hereonly[e] <= m.prop[e] /\ m.prop[e] <= m.count[e]
    BY <1>1, AskedBounds
  <2> QED  BY <2>2, <2>3 DEF EveryJobCovered
<1> QED  BY <1>1, QueueAlways, PTL

-----------------------------------------------------------------------------
(***************************************************************************)
(* The requests of a group.                                                  *)
(***************************************************************************)
(* A job runs where it is accepted. *)
BusyFit == \A j \in Jobs : at[j] # 0 => at[j] \in Entries /\ at[j] \in Accepted[KindAt[j]]

(* A request for glideins names a maximum that is allowed.                   *)
Bounded(r) == \A e \in Entries : r[e].idle > 0 => r[e].max <= Allowed(e)

(* The inductive invariant: types, jobs where they are accepted, and requests*)
(* (published or about to be) that never name a maximum beyond what is allowed.*)
IInv ==
    /\ TypeOK /\ BusyFit
    /\ Bounded(request)
    /\ pending # <<>> => Bounded(pending[1].request)
    /\ GlideinsBounded

(* The configuration, one by one. *)
LEMMA Limits ==
    /\ total_max_glideins \in [Scopes -> Nat] /\ total_curb_glideins \in [Scopes -> Nat]
    /\ total_max_vms_idle \in [Scopes -> Nat] /\ total_curb_vms_idle \in [Scopes -> Nat]
    /\ max_running \in Nat /\ max_vms_idle \in Nat /\ curb_vms_idle \in Nat /\ max_idle \in Nat
    /\ reserve_idle \in Nat /\ min_running \in Nat /\ fraction_percent \in Nat
    /\ QuietIterations \in Nat /\ EmptyIterations \in Nat /\ removal_wait \in Nat
    /\ removal_margin \in Nat /\ max_submits \in Nat /\ MaxFailures \in Nat
    /\ ramp_up_attenuation \in Nat \ {0}
    /\ removal_type \in RemoveExcess \cup {"DISABLE"}
    /\ removal_requests_tracking \in BOOLEAN
BY LimitsAssumption

(* The cores each job asks for, and the jobs an entry accepts. *)
Demand == [j \in Jobs |-> RequestCpus[KindAt[j]]]
AcceptedBy(e) == {j \in Jobs : e \in Accepted[KindAt[j]]}

LEMMA CoresForIs ==
    /\ IsFiniteSet(Jobs) /\ Demand \in [Jobs -> Nat \ {0}] /\ Demand \in [Jobs -> Nat]
    /\ \A e \in Entries : /\ AcceptedBy(e) \in SUBSET Jobs
                          /\ CoresFor(e) = Total(Restrict(Demand, AcceptedBy(e)))
                          /\ CoresFor(e) \in Nat
<1>1. IsFiniteSet(Jobs) /\ Demand \in [Jobs -> Nat \ {0}] /\ Demand \in [Jobs -> Nat]
  BY JobsAssumption, KindsAssumption DEF Demand
<1>2. ASSUME NEW e \in Entries
      PROVE  /\ AcceptedBy(e) \in SUBSET Jobs
             /\ CoresFor(e) = Total(Restrict(Demand, AcceptedBy(e)))
             /\ CoresFor(e) \in Nat
  <2>1. AcceptedBy(e) \in SUBSET Jobs
    BY DEF AcceptedBy
  <2>2. [j \in AcceptedBy(e) |-> RequestCpus[KindAt[j]]] = Restrict(Demand, AcceptedBy(e))
    BY <2>1 DEF Restrict, Demand
  <2>3. CoresFor(e) = Total([j \in AcceptedBy(e) |-> RequestCpus[KindAt[j]]])
    BY DEF CoresFor, AcceptedBy
  <2> QED  BY <1>1, <2>1, <2>2, <2>3, TotalAdd
<1> QED  BY <1>1, <1>2

(* What matching says of a part of the jobs.                                 *)
LEMMA MatchOfIs ==
    ASSUME NEW S \in SUBSET Jobs, NEW e \in Entries
    PROVE  /\ MatchOf[S].count[e] \in Nat /\ MatchOf[S].prop_mc[e] \in Nat
           /\ S \cap AcceptedBy(e) \in SUBSET Jobs
           /\ MatchOf[S].prop_mc[e] <= Total(Restrict(Demand, S \cap AcceptedBy(e)))
<1> DEFINE q == [j \in S |-> KindAt[j]]
<1>1. DOMAIN q = S /\ MatchOf[S] = countMatch(q)
  BY DEF MatchOf
<1>2. IsQueue(q)
  BY JobsAssumption, FS_Subset DEF IsQueue
<1>3. JobsWith(q, e) = S \cap AcceptedBy(e)
  BY DEF JobsWith, Takers, AcceptedBy
<1>4. \A T \in SUBSET S : Restrict(Cores(q), T) = Restrict(Demand, T)
  BY DEF Restrict, Cores, Demand
<1>5. CoresOf(q, e) = Total(Restrict(Demand, S \cap AcceptedBy(e)))
  BY <1>3, <1>4 DEF CoresOf
<1> HIDE DEF q
<1>6. /\ countMatch(q).count[e] \in Nat /\ countMatch(q).prop_mc[e] \in Nat
      /\ countMatch(q).prop_mc[e] <= CoresOf(q, e)
  BY <1>2, AskedBounds
<1> QED  BY <1>1, <1>5, <1>6

LEMMA BusyIs ==
    ASSUME NEW e \in Entries
    PROVE  Busy(e) \in SUBSET Jobs /\ IsFiniteSet(Busy(e)) /\ Cardinality(Busy(e)) \in Nat
BY CoresForIs, FS_Subset, FS_CardinalityType DEF Busy

(* What an iteration sees is well typed; the cores that it wants for idle    *)
(* jobs and the jobs it sees at work have room in what all the jobs ask for. *)
LEMMA SnapshotIs ==
    ASSUME TypeOK, BusyFit, NEW faults, NEW old, NEW e \in Entries
    PROVE  LET s == Snapshot(faults, old)
           IN  /\ s.Idle.count[e] \in Nat /\ s.Idle.prop_mc[e] \in Nat
               /\ s.OldIdle.prop_mc[e] \in Nat
               /\ s.status[e].Total \in Nat /\ s.status[e].Idle \in Nat
               /\ s.real[e] \in Nat
               /\ s.Total \in [Scopes -> Nat] /\ s.Unused \in [Scopes -> Nat]
               /\ s.Idle.prop_mc[e] + s.real[e] <= CoresFor(e)
<1> DEFINE s == Snapshot(faults, old)
           seen == {j \in Jobs : <<"unanswered", j.schedd>> \notin faults}
           idle == {j \in seen : job[j] = "idle" /\ <<"blacklisted", j.schedd>> \notin faults}
           pool == <<"uncounted", "group">> \notin faults
           counted == {l \in Scopes : pool /\ <<"uncounted", l>> \notin faults}
           status == [i \in Entries |-> [Total |-> IF pool THEN free[i] + Cardinality(Busy(i)) ELSE 0,
                                         Idle  |-> IF pool THEN free[i] ELSE 0]]
           total == Total([i \in Entries |-> status[i].Total])
           unused == Total([i \in Entries |-> status[i].Idle])
<1>1. /\ s.Idle = MatchOf[idle] /\ s.OldIdle = MatchOf[idle \cap old] /\ s.status = status
      /\ s.real[e] = IF pool THEN Cardinality(Busy(e) \cap seen) ELSE 0
      /\ s.Total = [l \in Scopes |-> IF l \in counted THEN total ELSE 0]
      /\ s.Unused = [l \in Scopes |-> IF l \in counted THEN unused ELSE 0]
  BY DEF Snapshot
<1>2. free \in [Entries -> Nat]
  BY DEF TypeOK
<1>3. \A i \in Entries : status[i].Total \in Nat /\ status[i].Idle \in Nat
  <2> SUFFICES ASSUME NEW i \in Entries
               PROVE  status[i].Total \in Nat /\ status[i].Idle \in Nat
    OBVIOUS
  <2>1. PICK n \in Nat, m \in Nat : n = free[i] /\ m = Cardinality(Busy(i))
    BY <1>2, BusyIs
  <2>2. /\ status[i].Total = IF pool THEN n + m ELSE 0
        /\ status[i].Idle = IF pool THEN n ELSE 0
    BY <2>1
  <2> HIDE DEF status, pool
  <2> QED  BY <2>2
<1>4. idle \in SUBSET Jobs /\ idle \cap old \in SUBSET Jobs /\ Busy(e) \cap seen \in SUBSET Jobs
      /\ idle \cap (Busy(e) \cap seen) = {} /\ (Busy(e) \cap seen) \subseteq AcceptedBy(e)
  <2>1. \A j \in Busy(e) : j \in Jobs /\ at[j] = e /\ e # 0
    BY EntriesAssumption DEF Busy, Entries
  <2>2. \A j \in Busy(e) : job[j] = "running" /\ e \in Accepted[KindAt[j]]
    BY <2>1 DEF TypeOK, BusyFit
  <2> QED  BY <2>1, <2>2 DEF AcceptedBy
<1> HIDE DEF status
<1>5. total \in Nat /\ unused \in Nat
  <2> DEFINE t == [i \in Entries |-> status[i].Total]
             u == [i \in Entries |-> status[i].Idle]
  <2>1. t \in [Entries -> Nat] /\ u \in [Entries -> Nat] /\ IsFiniteSet(Entries)
    BY <1>3, EntriesFinite
  <2> HIDE DEF t, u
  <2>2. Total(t) \in Nat /\ Total(u) \in Nat
    BY <2>1, TotalNat
  <2> QED  BY <2>2 DEF t, u
<1>6. s.Total \in [Scopes -> Nat] /\ s.Unused \in [Scopes -> Nat]
  <2>1. PICK t \in Nat, u \in Nat : t = total /\ u = unused
    BY <1>5
  <2>2. /\ s.Total = [l \in Scopes |-> IF l \in counted THEN t ELSE 0]
        /\ s.Unused = [l \in Scopes |-> IF l \in counted THEN u ELSE 0]
    BY <1>1, <2>1
  <2> HIDE DEF s, counted
  <2> QED  BY <2>2
<1> HIDE DEF s, idle, seen, total, unused
<1>7. PICK I, R : I = idle /\ R = Busy(e) \cap seen
  OBVIOUS
<1>8. /\ MatchOf[I].count[e] \in Nat /\ MatchOf[I].prop_mc[e] \in Nat
      /\ MatchOf[I].prop_mc[e] <= Total(Restrict(Demand, I \cap AcceptedBy(e)))
  BY <1>4, <1>7, MatchOfIs
<1>9. MatchOf[idle \cap old].prop_mc[e] \in Nat
  <2>1. PICK O \in SUBSET Jobs : O = idle \cap old
    BY <1>4
  <2> QED  BY <2>1, MatchOfIs
<1>10. IsFiniteSet(R) /\ Cardinality(R) \in Nat /\ R \in SUBSET Jobs
  BY <1>4, <1>7, CoresForIs, FS_Subset, FS_CardinalityType
<1>11. s.real[e] \in Nat /\ s.real[e] <= Cardinality(R)
  <2>1. s.real[e] = IF pool THEN Cardinality(R) ELSE 0
    BY <1>1, <1>7
  <2> HIDE DEF pool
  <2> QED  BY <2>1, <1>10
<1>12. Cardinality(R) <= Total(Restrict(Demand, R))
  <2> DEFINE ones == [j \in R |-> 1]
             w == Restrict(Demand, R)
  <2>1. ones \in [R -> Nat] /\ w \in [R -> Nat] /\ \A j \in R : ones[j] <= w[j]
    <3>1. w \in [R -> Nat] /\ \A j \in R : w[j] = Demand[j]
      BY <1>10, CoresForIs, RestrictIs
    <3>2. \A j \in R : Demand[j] \in Nat \ {0}
      BY <1>10, CoresForIs
    <3> HIDE DEF w
    <3> QED  BY <3>1, <3>2
  <2>2. Total(ones) = Cardinality(R) * 1
    BY <1>10, TotalSame
  <2> HIDE DEF ones, w
  <2>3. Total(ones) <= Total(w)
    BY <1>10, <2>1, TotalMonotone
  <2> QED  BY <1>10, <2>2, <2>3 DEF w
<1>13. PICK W \in SUBSET Jobs, A \in SUBSET Jobs :
         W = I \cap AcceptedBy(e) /\ A = AcceptedBy(e)
  BY <1>4, <1>7, CoresForIs
<1>14. Total(Restrict(Demand, W)) + Total(Restrict(Demand, R)) <= CoresFor(e)
  <2>1. W \cap R = {} /\ W \cup R \in SUBSET A /\ W \cup R \in SUBSET Jobs
    BY <1>4, <1>7, <1>10, <1>13
  <2>2. Total(Restrict(Demand, W \cup R)) = Total(Restrict(Demand, W)) + Total(Restrict(Demand, R))
    BY <2>1, <1>10, CoresForIs, TotalSplit
  <2>3. Restrict(Demand, A) \in [A -> Nat] /\ IsFiniteSet(A)
    BY CoresForIs, RestrictIs, FS_Subset
  <2>4. PICK V \in SUBSET A : V = W \cup R
    BY <2>1
  <2>5. Total(Restrict(Restrict(Demand, A), V)) <= Total(Restrict(Demand, A))
    BY <2>3, TotalPart
  <2>6. Restrict(Restrict(Demand, A), V) = Restrict(Demand, V)
    BY DEF Restrict
  <2>7. CoresFor(e) = Total(Restrict(Demand, A))
    BY <1>13, CoresForIs
  <2> QED  BY <2>2, <2>4, <2>5, <2>6, <2>7
<1>15. /\ Total(Restrict(Demand, W)) \in Nat /\ Total(Restrict(Demand, R)) \in Nat
       /\ CoresFor(e) \in Nat
  BY <1>10, CoresForIs, TotalAdd
<1>16. s.Idle.prop_mc[e] + s.real[e] <= CoresFor(e)
  <2>1. PICK n \in Nat, r \in Nat, a \in Nat, b \in Nat, c \in Nat :
          /\ n = s.Idle.prop_mc[e] /\ r = s.real[e] /\ c = CoresFor(e)
          /\ a = Total(Restrict(Demand, W)) /\ b = Total(Restrict(Demand, R))
    BY <1>1, <1>7, <1>8, <1>11, <1>15
  <2>2. n <= a
    BY <2>1, <1>1, <1>7, <1>8, <1>13
  <2>3. r <= b
    BY <2>1, <1>10, <1>11, <1>12
  <2>4. a + b <= c
    BY <2>1, <1>14
  <2> QED  BY <2>1, <2>2, <2>3, <2>4
<1>17. s.status[e].Total \in Nat /\ s.status[e].Idle \in Nat
  BY <1>1, <1>3
<1> QED  BY <1>1, <1>6, <1>7, <1>8, <1>9, <1>11, <1>16, <1>17 DEF s

(* Min chooses an element of a set of numbers. *)
LEMMA MinOf ==
    ASSUME NEW S \in SUBSET Nat, S # {}
    PROVE  Min(S) \in S
<1>1. PICK n \in S : \A m \in S : n <= m
  BY Smallest
<1> QED  BY <1>1 DEF Min

(* No more than seven curbs: the powers of two a request is divided by. *)
LEMMA Halvings ==
    ASSUME NEW n \in 0 .. 7
    PROVE  2 ^ n \in Nat \ {0}
<1>0. /\ 2 ^ 0 = 1 /\ 2 ^ 1 = 2
      /\ 2 ^ 2 = 4 /\ 2 ^ 3 = 8
  OBVIOUS
<1>1. 2 ^ 4 = 16 /\ 2 ^ 5 = 32 /\ 2 ^ 6 = 64 /\ 2 ^ 7 = 128
  OBVIOUS
<1>2. n = 0 \/ n = 1 \/ n = 2 \/ n = 3 \/ n = 4 \/ n = 5 \/ n = 6 \/ n = 7
  OBVIOUS
<1>3. CASE n = 0 \/ n = 1 \/ n = 2 \/ n = 3
  <2>1. CASE n = 0
    BY <2>1, <1>0
  <2>2. CASE n = 1
    BY <2>2, <1>0
  <2>3. CASE n = 2
    BY <2>3, <1>0
  <2>4. CASE n = 3
    BY <2>4, <1>0
  <2> QED  BY <1>3, <2>1, <2>2, <2>3, <2>4
<1>4. CASE n = 4 \/ n = 5 \/ n = 6 \/ n = 7
  <2>1. CASE n = 4
    BY <2>1, <1>1
  <2>2. CASE n = 5
    BY <2>2, <1>1
  <2>3. CASE n = 6
    BY <2>3, <1>1
  <2>4. CASE n = 7
    BY <2>4, <1>1
  <2> QED  BY <1>4, <2>1, <2>2, <2>3, <2>4
<1> QED  BY <1>2, <1>3, <1>4

(* A larger number of cores allows no fewer glideins. *)
LEMMA FractionMonotone ==
    ASSUME NEW x \in Nat, NEW y \in Nat, x <= y
    PROVE  /\ (x * fraction_percent) \div 100 + 1 \in Nat
           /\ (y * fraction_percent) \div 100 + 1 \in Nat
           /\ (x * fraction_percent) \div 100 + 1 <= (y * fraction_percent) \div 100 + 1
<1>1. PICK f \in Nat : f = fraction_percent
  BY Limits
<1>2. x * f \in Nat /\ y * f \in Nat /\ x * f <= y * f
  <2>1. f * x <= f * y
    BY TimesMonotone
  <2>2. f * x = x * f /\ f * y = y * f /\ x * f \in Nat /\ y * f \in Nat
    OBVIOUS
  <2> QED  BY <2>1, <2>2
<1>3. PICK a \in Nat, b \in Nat : a = x * f /\ b = y * f
  BY <1>2
<1>4. a <= b
  BY <1>2, <1>3
<1>5. a \div 100 \in Nat /\ b \div 100 \in Nat /\ a \div 100 <= b \div 100
  BY <1>4
<1> QED  BY <1>1, <1>3, <1>5

LEMMA CurbsFew ==
    ASSUME NEW s, NEW e
    PROVE  CurbsReached(s, e) \in 0 .. 7
<1>1. \A T \in SUBSET Scopes : Cardinality(T) \in 0 .. 3
  <2>1. IsFiniteSet({"group"}) /\ Cardinality({"group"}) = 1
    BY FS_Singleton
  <2>2. /\ IsFiniteSet({"group", "frontend"}) /\ Cardinality({"group", "frontend"}) <= 2
    <3>1. {"group", "frontend"} = {"group"} \cup {"frontend"} /\ "frontend" \notin {"group"}
      OBVIOUS
    <3> QED  BY <2>1, <3>1, FS_AddElement
  <2>3. IsFiniteSet(Scopes) /\ Cardinality(Scopes) <= 3
    <3>1. Scopes = {"group", "frontend"} \cup {"global"} /\ "global" \notin {"group", "frontend"}
      BY DEF Scopes
    <3>2. Cardinality({"group", "frontend"}) \in Nat
      BY <2>2, FS_CardinalityType
    <3> QED  BY <2>2, <3>1, <3>2, FS_AddElement
  <2>4. ASSUME NEW T \in SUBSET Scopes PROVE Cardinality(T) \in 0 .. 3
    <3>1. IsFiniteSet(T) /\ Cardinality(T) <= Cardinality(Scopes)
      BY <2>3, FS_Subset
    <3>2. Cardinality(T) \in Nat /\ Cardinality(Scopes) \in Nat
      BY <2>3, <3>1, FS_CardinalityType
    <3> QED  BY <2>3, <3>1, <3>2
  <2> QED  BY <2>4
<1>2. PICK A \in SUBSET Scopes, B \in SUBSET Scopes :
        /\ A = {l \in Scopes : s.Total[l] >= total_curb_glideins[l]}
        /\ B = {l \in Scopes : s.Unused[l] >= total_curb_vms_idle[l]}
  OBVIOUS
<1>3. Cardinality(A) \in 0 .. 3 /\ Cardinality(B) \in 0 .. 3
  BY <1>1
<1>4. CurbsReached(s, e) = (IF s.status[e].Idle >= curb_vms_idle THEN 1 ELSE 0)
                             + Cardinality(A) + Cardinality(B)
  BY <1>2 DEF CurbsReached
<1> QED  BY <1>3, <1>4

(* The snapshots that the requests are computed from.                        *)
Seen(s, e) ==
    /\ s.Idle.count[e] \in Nat /\ s.Idle.prop_mc[e] \in Nat
    /\ s.OldIdle.prop_mc[e] \in Nat
    /\ s.status[e].Total \in Nat /\ s.status[e].Idle \in Nat
    /\ s.real[e] \in Nat
    /\ s.Total \in [Scopes -> Nat] /\ s.Unused \in [Scopes -> Nat]
    /\ s.Idle.prop_mc[e] + s.real[e] <= CoresFor(e)

(* Below all limits there is room. *)
LEMMA RoomIs ==
    ASSUME NEW e \in Entries, NEW s, Seen(s, e), ~ AtLimit(s, e)
    PROVE  RoomLeft(s, e) \in Nat
<1> DEFINE room == {max_running - s.status[e].Total}
                   \cup {total_max_glideins[l] - s.Total[l] : l \in Scopes}
                   \cup {total_max_vms_idle[l] - s.Unused[l] : l \in Scopes}
<1>1. /\ max_running \in Nat /\ s.status[e].Total \in Nat
      /\ ~ (s.status[e].Total >= max_running)
  BY Limits DEF Seen, AtLimit
<1>2. ASSUME NEW l \in Scopes
      PROVE  /\ total_max_glideins[l] \in Nat /\ s.Total[l] \in Nat
             /\ total_max_vms_idle[l] \in Nat /\ s.Unused[l] \in Nat
             /\ ~ (s.Total[l] >= total_max_glideins[l])
             /\ ~ (s.Unused[l] >= total_max_vms_idle[l])
  BY Limits DEF Seen, AtLimit
<1>3. max_running - s.status[e].Total \in Nat
  BY <1>1
<1>4. \A l \in Scopes : total_max_glideins[l] - s.Total[l] \in Nat
                        /\ total_max_vms_idle[l] - s.Unused[l] \in Nat
  BY <1>2
<1>5. room \in SUBSET Nat /\ room # {}
  BY <1>3, <1>4
<1> HIDE DEF room
<1>6. Min(room) \in Nat
  BY <1>5, MinOf
<1> QED  BY <1>6 DEF RoomLeft, room

LEMMA WantedIs ==
    ASSUME NEW e \in Entries, NEW s, Seen(s, e)
    PROVE  /\ WantedCores(s, e) \in Nat
           /\ WantedCores(s, e) <= s.Idle.prop_mc[e] + min_running
<1>1. PICK p \in Nat, m \in Nat : p = s.Idle.prop_mc[e] /\ m = min_running
  BY Limits DEF Seen
<1>2. WantedCores(s, e) = Higher(p, m)
  BY <1>1 DEF WantedCores
<1>3. PICK w \in Nat : w = Higher(p, m) /\ w <= p + m
  BY DEF Higher
<1>4. w = WantedCores(s, e)
  BY <1>2, <1>3
<1>5. s.Idle.prop_mc[e] + min_running = p + m
  BY ONLY <1>1
<1> QED  BY ONLY <1>3, <1>4, <1>5, Zenon

(* An entry is asked for glideins only when cores are wanted of it. *)
LEMMA MinIdleIs ==
    ASSUME NEW e \in Entries, NEW s, Seen(s, e)
    PROVE  /\ compute_glidein_min_idle(s, e) \in Nat
           /\ compute_glidein_min_idle(s, e) > 0 => WantedCores(s, e) > 0
<1>1. PICK w \in Nat, i \in Nat, o \in Nat :
        /\ w = WantedCores(s, e) /\ i = s.status[e].Idle /\ o = s.OldIdle.prop_mc[e]
  BY WantedIs DEF Seen
<1>0. Higher(w - i, 0) \in Nat /\ Higher(o - i, 0) \in Nat
  BY DEF Higher
<1>2. PICK eff \in Nat, effold \in Nat : eff = Higher(w - i, 0) /\ effold = Higher(o - i, 0)
  BY ONLY <1>0, Zenon
<1>3. CASE AtLimit(s, e) \/ eff = 0
  <2>1. compute_glidein_min_idle(s, e) = 0
    BY <1>1, <1>2, <1>3 DEF compute_glidein_min_idle
  <2> QED  BY <2>1
<1>4. CASE ~ AtLimit(s, e) /\ eff # 0
  <2>1. PICK room \in Nat : room = RoomLeft(s, e)
    BY <1>4, RoomIs
  <2>2. PICK low \in Nat : low = Lower(eff, room)
    BY DEF Lower
  <2>3. low \div ramp_up_attenuation \in Nat
    BY Limits
  <2>4. PICK ramped \in Nat : ramped = low \div ramp_up_attenuation
    BY <2>3
  <2>5. PICK reserve \in Nat : reserve = Lower(effold \div 3, reserve_idle)
    BY Limits DEF Lower
  <2>6. PICK asked \in Nat : asked = Lower(ramped + reserve, max_idle)
    BY Limits DEF Lower
  <2>7. PICK n \in Nat \ {0} : n = 2 ^ CurbsReached(s, e)
    BY CurbsFew, Halvings
  <2>8. asked \div n \in Nat
    BY DivisionIs
  <2>9. PICK part \in Nat : part = asked \div n
    BY <2>8
  <2>10. compute_glidein_min_idle(s, e) = Higher(1, part)
    BY <1>1, <1>2, <1>4, <2>1, <2>2, <2>4, <2>5, <2>6, <2>7, <2>9 DEF compute_glidein_min_idle
  <2>11. Higher(1, part) \in Nat
    BY DEF Higher
  <2>12. w > 0
    BY <1>2, <1>4 DEF Higher
  <2> QED  BY <1>1, <2>10, <2>11, <2>12
<1> QED  BY <1>3, <1>4

(* The maximum in a request is one that the jobs allow. *)
LEMMA MaxRunIs ==
    ASSUME NEW e \in Entries, NEW s, Seen(s, e)
    PROVE  /\ compute_glidein_max_run(s, e) \in Nat
           /\ WantedCores(s, e) > 0 => compute_glidein_max_run(s, e) <= Allowed(e)
<1>1. PICK w \in Nat, i \in Nat, r \in Nat, c \in Nat, p \in Nat :
        /\ w = WantedCores(s, e) /\ i = s.status[e].Idle /\ r = s.real[e] /\ c = CoresFor(e)
        /\ p = s.Idle.prop_mc[e]
  BY WantedIs, CoresForIs DEF Seen
<1>2. PICK h \in Nat : h = Higher(w - i, 0)
  BY DEF Higher
<1>3. h <= w
  BY <1>2 DEF Higher
<1>4. min_running \in Nat /\ w <= p + min_running /\ p + r <= c
  BY <1>1, WantedIs, Limits DEF Seen
<1>5. PICK x \in Nat, y \in Nat : x = h + r /\ y = min_running + c
  BY <1>4
<1>6. x <= y
  BY <1>3, <1>4, <1>5
<1>7. /\ (x * fraction_percent) \div 100 + 1 \in Nat
      /\ (x * fraction_percent) \div 100 + 1 <= (y * fraction_percent) \div 100 + 1
  BY <1>6, FractionMonotone
<1>8. Allowed(e) = (y * fraction_percent) \div 100 + 1
  BY <1>1, <1>5 DEF Allowed
<1>9. compute_glidein_max_run(s, e) = IF w > 0 THEN (x * fraction_percent) \div 100 + 1 ELSE r
  BY <1>1, <1>2, <1>5 DEF compute_glidein_max_run
<1> QED  BY <1>1, <1>7, <1>8, <1>9

LEMMA RemovalIs ==
    ASSUME NEW h
    PROVE  decide_removal_type(h) \in RemoveExcess \X Nat
<1> DEFINE auto == choose_remove_excess_type(h)
           config == check_removal_type_config(h)
<1>1. auto \in RemoveExcess
  BY DEF choose_remove_excess_type, RemoveExcess
<1>2. config \in RemoveExcess \cup {"DISABLE"}
  BY Limits DEF check_removal_type_config, RemoveExcess
<1>3. "NO" \in RemoveExcess /\ 0 \in Nat /\ removal_margin \in Nat
  BY Limits DEF RemoveExcess
<1>4. (IF removal_requests_tracking THEN removal_margin ELSE 0) \in Nat
  BY <1>3
<1> HIDE DEF auto, config
<1>5. decide_removal_type(h) =
        CASE config = "DISABLE" -> <<"NO", 0>>
          [] config # "DISABLE" /\ Level[auto] > Level[config] -> <<auto, 0>>
          [] OTHER -> <<config, IF removal_requests_tracking THEN removal_margin ELSE 0>>
  BY DEF decide_removal_type, auto, config
<1> QED  BY <1>1, <1>2, <1>3, <1>4, <1>5

LEMMA CountedIs ==
    ASSUME TypeOK, NEW e \in Entries, NEW s
    PROVE  Counted(s, e) \in Counters
<1>1. CounterCap \in Nat
  <2> DEFINE S == {QuietIterations, EmptyIterations, removal_wait}
  <2>1. S \in SUBSET Nat /\ S # {}
    BY Limits
  <2>2. IsFiniteSet(S)
    <3>1. IsFiniteSet({QuietIterations})
      BY FS_Singleton
    <3>2. IsFiniteSet({QuietIterations} \cup {EmptyIterations})
      BY <3>1, FS_AddElement
    <3>3. IsFiniteSet(({QuietIterations} \cup {EmptyIterations}) \cup {removal_wait})
      BY <3>2, FS_AddElement
    <3>4. S = ({QuietIterations} \cup {EmptyIterations}) \cup {removal_wait}
      OBVIOUS
    <3> QED  BY <3>3, <3>4
  <2> HIDE DEF S
  <2>3. Max(S) \in Nat
    BY <2>1, <2>2, MaxOf
  <2> QED  BY <2>3 DEF CounterCap, S
<1>2. \A condition, counter : counter \in Nat => Count(condition, counter) \in Nat
  BY <1>1 DEF Count, Lower
<1>3. history[e] \in Counters
  BY DEF TypeOK
<1>4. history[e].idle0 \in Nat /\ history[e].glideempty \in Nat /\ history[e].glidetotal0 \in Nat
  BY <1>3 DEF Counters
<1> QED  BY <1>2, <1>4 DEF Counted, Counters

(* Whatever faults an iteration meets, it computes a request within bounds. *)
LEMMA RequestIs ==
    ASSUME TypeOK, BusyFit, NEW faults, NEW old, NEW e \in Entries, NEW down \in BOOLEAN
    PROVE  LET r == RequestFor(Snapshot(faults, old), e, down)
           IN  r \in RequestType /\ (r.idle > 0 => r.max <= Allowed(e))
<1>1. PICK s : s = Snapshot(faults, old)
  OBVIOUS
<1>2. Seen(s, e)
  BY <1>1, SnapshotIs DEF Seen
<1>3. PICK i \in Nat, m \in Nat :
        /\ i = compute_glidein_min_idle(s, e) /\ m = compute_glidein_max_run(s, e)
        /\ i > 0 => m <= Allowed(e)
  BY <1>2, MinIdleIs, MaxRunIs
<1>4. PICK removal \in RemoveExcess \X Nat : removal = decide_removal_type(Counted(s, e))
  BY RemovalIs
<1>5. RequestFor(s, e, down) =
        [idle |-> IF down THEN 0 ELSE i, max |-> IF down THEN 0 ELSE m,
         remove |-> removal[1], margin |-> removal[2]]
  BY <1>3, <1>4 DEF RequestFor
<1>6. removal[1] \in RemoveExcess /\ removal[2] \in Nat
  OBVIOUS
<1> QED  BY <1>1, <1>3, <1>5, <1>6 DEF RequestType

(* The glideins of an entry, wherever they are. *)
Held(e) == queued[e] + booting[e] + free[e] + Cardinality(Busy(e))

LEMMA Sizes ==
    ASSUME TypeOK, NEW e \in Entries
    PROVE  /\ queued[e] \in Nat /\ booting[e] \in Nat /\ free[e] \in Nat
           /\ Cardinality(Busy(e)) \in Nat
           /\ queued[e] + Running(e) = Held(e) /\ Held(e) \in Nat
<1>1. queued[e] \in Nat /\ booting[e] \in Nat /\ free[e] \in Nat
  BY DEF TypeOK
<1>2. Cardinality(Busy(e)) \in Nat
  BY BusyIs
<1> QED  BY <1>1, <1>2 DEF Running, Held

LEMMA SizesNext ==
    ASSUME TypeOK', NEW e \in Entries
    PROVE  /\ Cardinality(Busy(e))' \in Nat
           /\ (queued[e] + Running(e))' = Held(e)' /\ Held(e)' \in Nat
<1>1. queued'[e] \in Nat /\ booting'[e] \in Nat /\ free'[e] \in Nat
  BY DEF TypeOK
<1>2. Cardinality(Busy(e)') \in Nat
  BY CoresForIs, FS_Subset, FS_CardinalityType DEF Busy
<1> QED  BY <1>1, <1>2 DEF Running, Held

LEMMA AllowedIs ==
    ASSUME NEW e \in Entries
    PROVE  Allowed(e) \in Nat
<1>1. PICK n \in Nat : n = min_running + CoresFor(e)
  BY CoresForIs, Limits
<1>2. (n * fraction_percent) \div 100 + 1 \in Nat
  BY FractionMonotone
<1> QED  BY <1>1, <1>2 DEF Allowed

(* What holds no more glideins than before stays within bounds.              *)
LEMMA NoMore ==
    ASSUME TypeOK, TypeOK', GlideinsBounded,
           \A e \in Entries : Held(e)' <= Held(e)
    PROVE  GlideinsBounded'
<1> SUFFICES ASSUME NEW e \in Entries
             PROVE  (queued[e] + Running(e))' <= Allowed(e)
  BY DEF GlideinsBounded
<1>1. PICK n \in Nat, m \in Nat, a \in Nat : n = Held(e) /\ m = Held(e)' /\ a = Allowed(e)
  BY Sizes, SizesNext, AllowedIs
<1>2. n <= a
  BY <1>1, Sizes DEF GlideinsBounded
<1>3. m <= n
  BY <1>1
<1>4. (queued[e] + Running(e))' = m
  BY <1>1, SizesNext
<1> QED  BY <1>1, <1>2, <1>3, <1>4

LEMMA FaultsFew ==
    ASSUME TypeOK, NEW faults \in FewFaults
    PROVE  failures + Cardinality(faults) \in 0 .. MaxFailures
<1>1. PICK left \in Nat : left = MaxFailures - failures
  BY Limits DEF TypeOK
<1>2. IsFiniteSet(Faults)
  <2>1. IsFiniteSet({"unanswered", "blacklisted"}) /\ IsFiniteSet(Scopes)
    <3>1. /\ IsFiniteSet({"unanswered"} \cup {"blacklisted"})
          /\ IsFiniteSet({"group"} \cup {"frontend"})
      BY FS_Singleton, FS_AddElement
    <3>2. IsFiniteSet(({"group"} \cup {"frontend"}) \cup {"global"})
      BY <3>1, FS_AddElement
    <3>3. /\ {"unanswered"} \cup {"blacklisted"} = {"unanswered", "blacklisted"}
          /\ ({"group"} \cup {"frontend"}) \cup {"global"} = Scopes
      BY DEF Scopes
    <3> QED  BY <3>1, <3>2, <3>3
  <2>2. IsFiniteSet({"downtime"}) /\ IsFiniteSet({"uncounted"})
    BY FS_Singleton
  <2>3. IsFiniteSet(0 .. NrSchedds - 1)
    BY EntriesAssumption, FS_Interval
  <2>4. /\ IsFiniteSet({"unanswered", "blacklisted"} \X (0 .. NrSchedds - 1))
        /\ IsFiniteSet({"downtime"} \X Entries)
        /\ IsFiniteSet({"uncounted"} \X Scopes)
    BY <2>1, <2>2, <2>3, EntriesFinite, FS_Product
  <2> QED  BY <2>4, FS_Union DEF Faults
<1>3. PICK c \in Nat : c = Cardinality(Faults)
  BY <1>2, FS_CardinalityType
<1>4. PICK n \in 0 .. Lower(left, c) : faults \in kSubset(n, Faults)
  BY <1>1, <1>3 DEF FewFaults
<1>5. n \in Nat /\ n <= left
  BY <1>4 DEF Lower
<1>6. Cardinality(faults) = n
  BY <1>4 DEF kSubset
<1>7. failures \in Nat /\ MaxFailures \in Nat
  BY Limits DEF TypeOK
<1> QED  BY <1>1, <1>5, <1>6, <1>7

(* Each step keeps the invariant. *)
LEMMA ObserveKeeps ==
    ASSUME IInv, NEW faults \in FewFaults, NEW old, Observe(faults, old)
    PROVE  IInv'
<1> DEFINE asked == [e \in Entries |-> RequestFor(Snapshot(faults, old), e, <<"downtime", e>> \in faults)]
           counted == [e \in Entries |-> Counted(Snapshot(faults, old), e)]
<1>1. /\ pending' = <<[request |-> asked, history |-> counted]>>
      /\ failures' = failures + Cardinality(faults)
      /\ UNCHANGED <<job, at, queued, booting, free, request, history>>
  BY DEF Observe, sites
<1>2. asked \in [Entries -> RequestType] /\ Bounded(asked)
  <2>1. ASSUME NEW e \in Entries
        PROVE  asked[e] \in RequestType /\ (asked[e].idle > 0 => asked[e].max <= Allowed(e))
    <3>0. (<<"downtime", e>> \in faults) \in BOOLEAN
      OBVIOUS
    <3>1. PICK down \in BOOLEAN : down = (<<"downtime", e>> \in faults)
      BY ONLY <3>0, Zenon
    <3>2. asked[e] = RequestFor(Snapshot(faults, old), e, down)
      BY <3>1
    <3> HIDE DEF asked
    <3> QED  BY <3>2, RequestIs DEF IInv
  <2>2. asked = [e \in Entries |-> asked[e]]
    OBVIOUS
  <2> HIDE DEF asked
  <2> QED  BY <2>1, <2>2 DEF Bounded
<1>3. counted \in [Entries -> Counters]
  BY CountedIs DEF IInv
<1> HIDE DEF asked, counted
<1>4. failures' \in 0 .. MaxFailures
  BY <1>1, FaultsFew DEF IInv
<1>5. pending'[1] = [request |-> asked, history |-> counted]
  BY <1>1
<1>6. TypeOK'
  <2>1. pending'[1] \in [request : [Entries -> RequestType], history : [Entries -> Counters]]
    BY <1>2, <1>3, <1>5
  <2> QED  BY <1>1, <1>4, <2>1 DEF IInv, TypeOK
<1>7. Bounded(pending[1].request)'
  BY <1>2, <1>5
<1>8. BusyFit' /\ Bounded(request)'
  BY <1>1 DEF IInv, BusyFit, Bounded
<1>9. GlideinsBounded'
  <2>1. \A e \in Entries : Held(e)' <= Held(e)
    <3> SUFFICES ASSUME NEW e \in Entries PROVE Held(e)' <= Held(e)
      OBVIOUS
    <3>1. Held(e)' = Held(e)
      BY <1>1 DEF Held, Busy
    <3> QED  BY <3>1, Sizes DEF IInv
  <2> QED  BY <1>6, <2>1, NoMore DEF IInv
<1> QED  BY <1>6, <1>7, <1>8, <1>9 DEF IInv

LEMMA PublishKeeps ==
    ASSUME IInv, NEW delivered \in BOOLEAN, NEW saved \in BOOLEAN, Publish(delivered, saved)
    PROVE  IInv'
<1>1. /\ pending # <<>> /\ pending' = <<>>
      /\ failures' = failures + (IF delivered /\ saved THEN 0 ELSE 1) /\ failures' <= MaxFailures
      /\ request' = IF delivered THEN pending[1].request ELSE request
      /\ history' = IF saved THEN pending[1].history ELSE history
      /\ UNCHANGED <<job, at, queued, booting, free>>
  BY DEF Publish, sites
<1>2. /\ pending[1].request \in [Entries -> RequestType]
      /\ pending[1].history \in [Entries -> Counters]
      /\ Bounded(pending[1].request)
  BY <1>1 DEF IInv, TypeOK
<1>3. failures' \in 0 .. MaxFailures
  <2>1. failures \in Nat /\ MaxFailures \in Nat
    BY Limits DEF IInv, TypeOK
  <2>2. failures' \in Nat
    BY <1>1, <2>1
  <2> QED  BY <1>1, <2>1, <2>2
<1>4. TypeOK'
  BY <1>1, <1>2, <1>3 DEF IInv, TypeOK
<1>5. Bounded(request)' /\ BusyFit'
  <2>1. Bounded(request')
    BY <1>1, <1>2 DEF IInv
  <2> QED  BY <1>1, <2>1 DEF IInv, BusyFit
<1>6. GlideinsBounded'
  <2>1. \A e \in Entries : Held(e)' <= Held(e)
    <3> SUFFICES ASSUME NEW e \in Entries PROVE Held(e)' <= Held(e)
      OBVIOUS
    <3>1. Held(e)' = Held(e)
      BY <1>1 DEF Held, Busy
    <3> QED  BY <3>1, Sizes DEF IInv
  <2> QED  BY <1>4, <2>1, NoMore DEF IInv
<1> QED  BY <1>1, <1>4, <1>5, <1>6 DEF IInv

(* What the factory, the sites and the users leave alone.                    *)
LEMMA Apart ==
    ASSUME IInv, UNCHANGED <<request, history, pending>>
    PROVE  /\ request' \in [Entries -> RequestType]
           /\ history' \in [Entries -> Counters]
           /\ pending' = <<>> \/ pending'[1] \in [request : [Entries -> RequestType],
                                                  history : [Entries -> Counters]]
           /\ Bounded(request)'
           /\ pending' # <<>> => Bounded(pending[1].request)'
<1>1. request' = request /\ history' = history /\ pending' = pending
  OBVIOUS
<1> QED  BY <1>1 DEF IInv, TypeOK

(* Submitting stays below the maximum of the request.                        *)
LEMMA SubmitKeeps ==
    ASSUME IInv, NEW e \in Entries, keepIdleGlideins(e)
    PROVE  IInv'
<1>1. PICK n : n = NrToSubmit(e)
  OBVIOUS
<1>2. /\ n > 0 /\ queued' = [queued EXCEPT ![e] = @ + n]
      /\ UNCHANGED <<job, at, booting, free, request, history, pending, failures>>
  BY <1>1 DEF keepIdleGlideins
<1>3. PICK q \in Nat, b \in Nat, i \in Nat, m \in Nat, s \in Nat :
        /\ q = queued[e] /\ b = Running(e) /\ i = request[e].idle /\ m = request[e].max
        /\ s = max_submits
  <2>1. Running(e) \in Nat
    BY Sizes DEF IInv, Running
  <2>2. request[e] \in RequestType
    BY DEF IInv, TypeOK
  <2> QED  BY <2>1, <2>2, Sizes, Limits DEF IInv, RequestType
<1>4. n = Lower(Lower(i - q, m - q - b), s)
  BY <1>1, <1>3 DEF NrToSubmit
<1>5. n \in Nat /\ i > 0 /\ q + b + n <= m
  BY <1>2, <1>3, <1>4 DEF Lower
<1>6. PICK a \in Nat : a = Allowed(e)
  BY AllowedIs
<1>7. m <= a
  BY <1>3, <1>5, <1>6 DEF IInv, Bounded
<1>8. queued' \in [Entries -> Nat]
  BY <1>2, <1>5 DEF IInv, TypeOK
<1>9. TypeOK'
  BY <1>2, <1>8 DEF IInv, TypeOK
<1>10. GlideinsBounded'
  <2> SUFFICES ASSUME NEW x \in Entries
               PROVE  (queued[x] + Running(x))' <= Allowed(x)
    BY DEF GlideinsBounded
  <2>1. Running(x)' = Running(x)
    BY <1>2 DEF Running, Busy
  <2>2. CASE x = e
    <3>1. queued'[x] = q + n
      BY <1>2, <1>3, <2>2 DEF IInv, TypeOK
    <3>2. (queued[x] + Running(x))' = q + n + b
      BY <1>3, <2>1, <2>2, <3>1
    <3> QED  BY <1>5, <1>6, <1>7, <2>2, <3>2
  <2>3. CASE x # e
    <3>1. queued'[x] = queued[x]
      BY <1>2, <2>3 DEF IInv, TypeOK
    <3> QED  BY <2>1, <3>1 DEF IInv, GlideinsBounded
  <2> QED  BY <2>2, <2>3
<1>11. BusyFit'
  BY <1>2 DEF IInv, BusyFit
<1> QED  BY <1>2, <1>9, <1>10, <1>11, Apart DEF IInv

(* Removing glideins leaves no more than there were.                         *)
LEMMA RemoveNrPositive ==
    ASSUME IInv, NEW e \in Entries, ManyIdle(e) \/ ManyRunning(e)
    PROVE  RemoveNr(e) \in Nat \ {0}
<1>1. PICK q \in Nat, r \in Nat, i \in Nat, m \in Nat, k \in Nat :
        /\ q = queued[e] /\ r = Running(e) /\ i = request[e].idle /\ m = request[e].max
        /\ k = request[e].margin
  <2>1. Running(e) \in Nat
    BY Sizes DEF IInv, Running
  <2>2. request[e] \in RequestType
    BY DEF IInv, TypeOK
  <2> QED  BY <2>1, <2>2, Sizes DEF IInv, RequestType
<1>2. PICK all : all = (request[e].remove = "ALL")
  OBVIOUS
<1>3. q > i + k \/ (all /\ r + q > m + k)
  BY <1>1, <1>2 DEF ManyIdle, ManyRunning
<1>4. RemoveNr(e) = IF (all /\ r + q > m + k) /\ r + i > m THEN r + q - m - k ELSE q - i - k
  BY <1>1, <1>2 DEF RemoveNr, ManyRunning
<1> QED  BY <1>1, <1>3, <1>4

LEMMA RemoveQueuedKeeps ==
    ASSUME IInv, NEW e \in Entries, ManyIdle(e) \/ ManyRunning(e), RemoveQueued(e),
           UNCHANGED <<request, history, pending, failures>>
    PROVE  IInv'
<1>1. PICK q \in Nat, n \in Nat \ {0} : q = queued[e] /\ n = RemoveNr(e)
  BY Sizes, RemoveNrPositive DEF IInv
<1>2. UNCHANGED <<job, at, booting, free>>
  BY DEF RemoveQueued
<1>3. PICK list \in 0 .. q : queued' = [queued EXCEPT ![e] = @ - Lower(list, n)]
  <2>1. PICK u \in 0 .. q :
          queued' = [queued EXCEPT ![e] = @ - Lower(IF u > 0 THEN u
                                                    ELSE IF request[e].remove # "WAIT" THEN q
                                                    ELSE 0, n)]
    BY <1>1 DEF RemoveQueued
  <2>2. (IF u > 0 THEN u ELSE IF request[e].remove # "WAIT" THEN q ELSE 0) \in 0 .. q
    OBVIOUS
  <2> QED  BY <2>1, <2>2
<1>4. PICK gone \in 0 .. q : gone = Lower(list, n)
  BY <1>1 DEF Lower
<1>5. /\ queued' = [queued EXCEPT ![e] = q - gone] /\ queued' \in [Entries -> Nat]
      /\ \A x \in Entries : queued'[x] \in Nat /\ queued'[x] <= queued[x]
  <2>1. queued \in [Entries -> Nat] /\ q - gone \in Nat /\ q - gone <= q
    BY DEF IInv, TypeOK
  <2>2. queued' = [queued EXCEPT ![e] = q - gone]
    BY <1>1, <1>3, <1>4
  <2> QED  BY <1>1, <2>1, <2>2
<1>6. TypeOK'
  BY <1>2, <1>5 DEF IInv, TypeOK
<1>7. BusyFit'
  BY <1>2 DEF IInv, BusyFit
<1>8. GlideinsBounded'
  <2>1. ASSUME NEW x \in Entries PROVE Held(x)' <= Held(x)
    <3>1. PICK c \in Nat : c = Cardinality(Busy(x)) /\ c = Cardinality(Busy(x))'
      BY <1>2, Sizes DEF IInv, Busy
    <3>2. booting[x] \in Nat /\ free[x] \in Nat /\ queued[x] \in Nat
      BY Sizes DEF IInv
    <3>3. Held(x)' = queued'[x] + booting[x] + free[x] + c
      BY <1>2, <3>1 DEF Held
    <3>4. Held(x) = queued[x] + booting[x] + free[x] + c
      BY <3>1 DEF Held
    <3> QED  BY <1>5, <3>2, <3>3, <3>4
  <2> QED  BY <1>6, <2>1, NoMore DEF IInv
<1> QED  BY <1>6, <1>7, <1>8, Apart DEF IInv

LEMMA RemoveRunningKeeps ==
    ASSUME IInv, NEW e \in Entries, RemoveRunning(e),
           UNCHANGED <<request, history, pending, failures>>
    PROVE  IInv'
<1>1. PICK b \in 0 .. booting[e], f \in 0 .. free[e], killed \in SUBSET Busy(e) :
        /\ b + f + Cardinality(killed) = Lower(RemoveNr(e), Running(e))
        /\ booting' = [booting EXCEPT ![e] = @ - b]
        /\ free'    = [free EXCEPT ![e] = @ - f]
        /\ job'     = [j \in Jobs |-> IF j \in killed THEN "idle" ELSE job[j]]
        /\ at'      = [j \in Jobs |-> IF j \in killed THEN 0 ELSE at[j]]
  BY Zenon DEF RemoveRunning
<1>0. queued' = queued
  BY DEF RemoveRunning
<1>2. /\ booting' \in [Entries -> Nat] /\ free' \in [Entries -> Nat]
      /\ \A x \in Entries : booting'[x] <= booting[x] /\ free'[x] <= free[x]
  <2>1. booting \in [Entries -> Nat] /\ free \in [Entries -> Nat]
    BY DEF IInv, TypeOK
  <2>2. /\ booting[e] - b \in Nat /\ booting[e] - b <= booting[e]
        /\ free[e] - f \in Nat /\ free[e] - f <= free[e]
    BY <2>1
  <2> QED  BY <1>1, <2>1, <2>2
<1>3. \A x \in Entries : Busy(x)' \subseteq Busy(x)
  BY <1>1, EntriesAssumption DEF Busy, Entries
<1>4. /\ job' \in [Jobs -> {"new", "idle", "running", "done"}]
      /\ at' \in [Jobs -> Entries \cup {0}]
      /\ \A j \in Jobs : (job'[j] = "running") <=> (at'[j] # 0)
  <2>1. /\ job \in [Jobs -> {"new", "idle", "running", "done"}]
        /\ at \in [Jobs -> Entries \cup {0}]
        /\ \A j \in Jobs : (job[j] = "running") <=> (at[j] # 0)
    BY DEF IInv, TypeOK
  <2> QED  BY <1>1, <2>1
<1>5. TypeOK'
  BY <1>0, <1>1, <1>2, <1>4, Apart DEF IInv, TypeOK
<1>6. BusyFit'
  BY <1>1 DEF IInv, BusyFit
<1>7. GlideinsBounded'
  <2>1. ASSUME NEW x \in Entries PROVE Held(x)' <= Held(x)
    <3>1. PICK B \in SUBSET Busy(x) : B = Busy(x)'
      BY <1>3
    <3>2. Cardinality(B) \in Nat /\ Cardinality(B) <= Cardinality(Busy(x))
      BY BusyIs, FS_Subset, FS_CardinalityType
    <3>3. PICK c \in Nat, d \in Nat : c = Cardinality(Busy(x)) /\ d = Cardinality(B) /\ d <= c
      BY <3>2, BusyIs
    <3>4. booting[x] \in Nat /\ free[x] \in Nat /\ queued[x] \in Nat
      BY Sizes DEF IInv
    <3>5. booting'[x] \in Nat /\ free'[x] \in Nat
      BY <1>2
    <3>6. Held(x)' = queued[x] + booting'[x] + free'[x] + d
      BY <1>0, <1>1, <3>1, <3>3 DEF Held
    <3>7. Held(x) = queued[x] + booting[x] + free[x] + c
      BY <3>3 DEF Held
    <3> QED  BY <1>2, <3>3, <3>4, <3>5, <3>6, <3>7
  <2> QED  BY <1>5, <2>1, NoMore DEF IInv
<1> QED  BY <1>5, <1>6, <1>7, Apart DEF IInv

(* A glidein goes from one place to the next or away.                        *)
LEMMA MoveKeeps ==
    ASSUME IInv, UNCHANGED <<job, at, request, history, pending>>,
           {queued', booting', free'} \subseteq [Entries -> Nat],
           failures' \in 0 .. MaxFailures,
           \A x \in Entries : queued'[x] + booting'[x] + free'[x] <= queued[x] + booting[x] + free[x]
    PROVE  IInv'
<1>1. TypeOK'
  BY Apart DEF IInv, TypeOK
<1>2. BusyFit'
  BY DEF IInv, BusyFit
<1>3. GlideinsBounded'
  <2>1. ASSUME NEW x \in Entries PROVE Held(x)' <= Held(x)
    <3>1. PICK c \in Nat : c = Cardinality(Busy(x)) /\ c = Cardinality(Busy(x))'
      BY Sizes DEF IInv, Busy
    <3>2. booting[x] \in Nat /\ free[x] \in Nat /\ queued[x] \in Nat
      BY Sizes DEF IInv
    <3>3. booting'[x] \in Nat /\ free'[x] \in Nat /\ queued'[x] \in Nat
      OBVIOUS
    <3>4. Held(x)' = queued'[x] + booting'[x] + free'[x] + c
      BY <3>1 DEF Held
    <3>5. Held(x) = queued[x] + booting[x] + free[x] + c
      BY <3>1 DEF Held
    <3>6. queued'[x] + booting'[x] + free'[x] <= queued[x] + booting[x] + free[x]
      OBVIOUS
    <3> QED  BY <3>1, <3>2, <3>3, <3>4, <3>5, <3>6
  <2> QED  BY <1>1, <2>1, NoMore DEF IInv
<1> QED  BY <1>1, <1>2, <1>3, Apart DEF IInv

LEMMA PlacesAre ==
    ASSUME IInv
    PROVE  /\ queued \in [Entries -> Nat] /\ booting \in [Entries -> Nat] /\ free \in [Entries -> Nat]
           /\ failures \in 0 .. MaxFailures /\ failures \in Nat /\ MaxFailures \in Nat
BY Limits DEF IInv, TypeOK

LEMMA BootKeeps ==
    ASSUME IInv, NEW e \in Entries, Boot(e)
    PROVE  IInv'
<1>1. /\ queued[e] > 0 /\ queued' = [queued EXCEPT ![e] = @ - 1]
      /\ booting' = [booting EXCEPT ![e] = @ + 1]
      /\ UNCHANGED <<job, at, free, request, history, pending, failures>>
  BY DEF Boot
<1>2. queued[e] - 1 \in Nat /\ booting[e] + 1 \in Nat
  BY <1>1, PlacesAre
<1>3. {queued', booting', free'} \subseteq [Entries -> Nat]
  BY <1>1, <1>2, PlacesAre
<1>4. \A x \in Entries : queued'[x] + booting'[x] + free'[x] <= queued[x] + booting[x] + free[x]
  BY <1>1, <1>2, PlacesAre
<1> QED  BY <1>1, <1>3, <1>4, PlacesAre, MoveKeeps

LEMMA RegisterKeeps ==
    ASSUME IInv, NEW e \in Entries, Register(e)
    PROVE  IInv'
<1>1. /\ booting[e] > 0 /\ booting' = [booting EXCEPT ![e] = @ - 1]
      /\ free' = [free EXCEPT ![e] = @ + 1]
      /\ UNCHANGED <<job, at, queued, request, history, pending, failures>>
  BY DEF Register
<1>2. booting[e] - 1 \in Nat /\ free[e] + 1 \in Nat
  BY <1>1, PlacesAre
<1>3. {queued', booting', free'} \subseteq [Entries -> Nat]
  BY <1>1, <1>2, PlacesAre
<1>4. \A x \in Entries : queued'[x] + booting'[x] + free'[x] <= queued[x] + booting[x] + free[x]
  BY <1>1, <1>2, PlacesAre
<1> QED  BY <1>1, <1>3, <1>4, PlacesAre, MoveKeeps

LEMMA BootFailsKeeps ==
    ASSUME IInv, NEW e \in Entries, BootFails(e)
    PROVE  IInv'
<1>1. /\ booting[e] > 0 /\ booting' = [booting EXCEPT ![e] = @ - 1]
      /\ failures < MaxFailures /\ failures' = failures + 1
      /\ UNCHANGED <<job, at, queued, free, request, history, pending>>
  BY DEF BootFails
<1>2. booting[e] - 1 \in Nat /\ failures' \in 0 .. MaxFailures
  BY <1>1, PlacesAre
<1>3. {queued', booting', free'} \subseteq [Entries -> Nat]
  BY <1>1, <1>2, PlacesAre
<1>4. \A x \in Entries : queued'[x] + booting'[x] + free'[x] <= queued[x] + booting[x] + free[x]
  BY <1>1, <1>2, PlacesAre
<1> QED  BY <1>1, <1>2, <1>3, <1>4, MoveKeeps

LEMMA ExpireKeeps ==
    ASSUME IInv, NEW e \in Entries, Expire(e)
    PROVE  IInv'
<1>1. /\ free[e] > 0 /\ free' = [free EXCEPT ![e] = @ - 1]
      /\ UNCHANGED <<job, at, queued, booting, request, history, pending, failures>>
  BY DEF Expire
<1>2. free[e] - 1 \in Nat
  BY <1>1, PlacesAre
<1>3. {queued', booting', free'} \subseteq [Entries -> Nat]
  BY <1>1, <1>2, PlacesAre
<1>4. \A x \in Entries : queued'[x] + booting'[x] + free'[x] <= queued[x] + booting[x] + free[x]
  BY <1>1, <1>2, PlacesAre
<1> QED  BY <1>1, <1>3, <1>4, PlacesAre, MoveKeeps

(* A job takes a free glidein, which is no more and no less.                 *)
LEMMA ClaimKeeps ==
    ASSUME IInv, NEW j \in Jobs, NEW e \in Entries, Claim(j, e)
    PROVE  IInv'
<1>1. /\ job[j] = "idle" /\ free[e] > 0 /\ e \in Accepted[KindAt[j]]
      /\ job' = [job EXCEPT ![j] = "running"] /\ at' = [at EXCEPT ![j] = e]
      /\ free' = [free EXCEPT ![e] = @ - 1]
      /\ UNCHANGED <<queued, booting, request, history, pending, failures>>
  BY DEF Claim
<1>2. /\ job \in [Jobs -> {"new", "idle", "running", "done"}]
      /\ at \in [Jobs -> Entries \cup {0}] /\ e # 0
      /\ \A i \in Jobs : (job[i] = "running") <=> (at[i] # 0)
  BY EntriesAssumption DEF IInv, TypeOK, Entries
<1>3. free' \in [Entries -> Nat] /\ free'[e] = free[e] - 1
      /\ \A x \in Entries : x # e => free'[x] = free[x]
  <2>1. free[e] - 1 \in Nat
    BY <1>1, PlacesAre
  <2> QED  BY <1>1, <2>1, PlacesAre
<1>4. TypeOK'
  <2>1. /\ job' \in [Jobs -> {"new", "idle", "running", "done"}]
        /\ at' \in [Jobs -> Entries \cup {0}]
        /\ \A i \in Jobs : (job'[i] = "running") <=> (at'[i] # 0)
    BY <1>1, <1>2
  <2> QED  BY <1>1, <1>3, <2>1, Apart DEF IInv, TypeOK
<1>5. BusyFit'
  BY <1>1, <1>2 DEF IInv, BusyFit
<1>6. j \notin Busy(e) /\ Busy(e)' = Busy(e) \cup {j}
      /\ \A x \in Entries : x # e => Busy(x)' = Busy(x)
  <2>1. at[j] = 0 /\ 0 \notin Entries
    BY <1>1, <1>2, EntriesAssumption DEF Entries
  <2> QED  BY <1>1, <1>2, <2>1 DEF Busy
<1>7. GlideinsBounded'
  <2>1. ASSUME NEW x \in Entries PROVE Held(x)' <= Held(x)
    <3>1. PICK c \in Nat, f \in Nat, q \in Nat, b \in Nat :
            c = Cardinality(Busy(x)) /\ f = free[x] /\ q = queued[x] /\ b = booting[x]
      BY Sizes DEF IInv
    <3>2. Held(x) = q + b + f + c
      BY <3>1 DEF Held
    <3>3. CASE x = e
      <4>1. Cardinality(Busy(e) \cup {j}) = Cardinality(Busy(e)) + 1
        BY <1>6, BusyIs, FS_AddElement
      <4>2. Cardinality(Busy(x)') = c + 1
        BY <1>6, <3>1, <3>3, <4>1
      <4>3. free'[x] = f - 1
        BY <1>3, <3>1, <3>3
      <4>4. Held(x)' = q + b + (f - 1) + (c + 1)
        BY <1>1, <3>1, <4>2, <4>3 DEF Held
      <4> QED  BY <3>2, <4>4
    <3>4. CASE x # e
      <4>1. Held(x)' = q + b + f + c
        BY <1>1, <1>3, <1>6, <3>1, <3>4 DEF Held
      <4> QED  BY <3>2, <4>1
    <3> QED  BY <3>3, <3>4
  <2> QED  BY <1>4, <2>1, NoMore DEF IInv
<1> QED  BY <1>1, <1>4, <1>5, <1>7, Apart DEF IInv

(* A job that leaves its glidein frees it.                                   *)
LEMMA LeaveKeeps ==
    ASSUME IInv, NEW j \in Jobs, Leave(j)
    PROVE  IInv'
<1>1. /\ job[j] \in {"idle", "running"}
      /\ job' = [job EXCEPT ![j] = "done"] /\ at' = [at EXCEPT ![j] = 0]
      /\ free' = IF job[j] = "idle" THEN free ELSE [free EXCEPT ![at[j]] = @ + 1]
      /\ UNCHANGED <<queued, booting, request, history, pending, failures>>
  BY DEF Leave
<1>2. /\ job \in [Jobs -> {"new", "idle", "running", "done"}]
      /\ at \in [Jobs -> Entries \cup {0}] /\ 0 \notin Entries
      /\ \A i \in Jobs : (job[i] = "running") <=> (at[i] # 0)
  BY EntriesAssumption DEF IInv, TypeOK, Entries
<1>3. /\ job' \in [Jobs -> {"new", "idle", "running", "done"}]
      /\ at' \in [Jobs -> Entries \cup {0}]
      /\ \A i \in Jobs : (job'[i] = "running") <=> (at'[i] # 0)
  BY <1>1, <1>2
<1>4. BusyFit'
  BY <1>1, <1>2 DEF IInv, BusyFit
<1>5. CASE job[j] = "idle"
  <2>1. at[j] = 0 /\ at' = at /\ free' = free
    BY <1>1, <1>2, <1>5
  <2>2. TypeOK'
    BY <1>1, <1>3, <2>1, Apart DEF IInv, TypeOK
  <2>3. ASSUME NEW x \in Entries PROVE Held(x)' <= Held(x)
    <3>1. Held(x)' = Held(x)
      BY <1>1, <2>1 DEF Held, Busy
    <3> QED  BY <3>1, Sizes DEF IInv
  <2>4. GlideinsBounded'
    BY <2>2, <2>3, NoMore DEF IInv
  <2> QED  BY <1>1, <1>4, <2>2, <2>4, Apart DEF IInv
<1>6. CASE job[j] = "running"
  <2>1. PICK e \in Entries : e = at[j]
    BY <1>2, <1>6
  <2>2. /\ free' = [free EXCEPT ![e] = @ + 1] /\ free' \in [Entries -> Nat]
        /\ free'[e] = free[e] + 1 /\ \A x \in Entries : x # e => free'[x] = free[x]
    <3>1. free[e] + 1 \in Nat
      BY PlacesAre
    <3>2. free' = [free EXCEPT ![e] = @ + 1]
      BY <1>1, <1>6, <2>1
    <3> QED  BY <3>1, <3>2, PlacesAre
  <2>3. TypeOK'
    BY <1>1, <1>3, <2>2, Apart DEF IInv, TypeOK
  <2>4. j \in Busy(e) /\ Busy(e)' = Busy(e) \ {j}
        /\ \A x \in Entries : x # e => Busy(x)' = Busy(x)
    BY <1>1, <1>2, <2>1 DEF Busy
  <2>5. ASSUME NEW x \in Entries PROVE Held(x)' <= Held(x)
    <3>1. PICK c \in Nat, f \in Nat, q \in Nat, b \in Nat :
            c = Cardinality(Busy(x)) /\ f = free[x] /\ q = queued[x] /\ b = booting[x]
      BY Sizes DEF IInv
    <3>2. Held(x) = q + b + f + c
      BY <3>1 DEF Held
    <3>3. CASE x = e
      <4>1. Cardinality(Busy(e) \ {j}) = Cardinality(Busy(e)) - 1
        BY <2>4, BusyIs, FS_RemoveElement
      <4>2. Cardinality(Busy(x)') = c - 1
        BY <2>4, <3>1, <3>3, <4>1
      <4>3. free'[x] = f + 1
        BY <2>2, <3>1, <3>3
      <4>4. Held(x)' = q + b + (f + 1) + (c - 1)
        BY <1>1, <3>1, <4>2, <4>3 DEF Held
      <4> QED  BY <3>2, <4>4
    <3>4. CASE x # e
      <4>1. Held(x)' = q + b + f + c
        BY <1>1, <2>2, <2>4, <3>1, <3>4 DEF Held
      <4> QED  BY <3>2, <4>1
    <3> QED  BY <3>3, <3>4
  <2>6. GlideinsBounded'
    BY <2>3, <2>5, NoMore DEF IInv
  <2> QED  BY <1>1, <1>4, <2>3, <2>6, Apart DEF IInv
<1> QED  BY <1>1, <1>5, <1>6

LEMMA ArriveKeeps ==
    ASSUME IInv, NEW j \in Jobs, Arrive(j)
    PROVE  IInv'
<1>1. /\ job[j] = "new" /\ job' = [job EXCEPT ![j] = "idle"]
      /\ UNCHANGED <<at, queued, booting, free, request, history, pending, failures>>
  BY DEF Arrive
<1>2. TypeOK'
  <2>1. /\ job' \in [Jobs -> {"new", "idle", "running", "done"}]
        /\ \A i \in Jobs : (job'[i] = "running") <=> (at[i] # 0)
    BY <1>1 DEF IInv, TypeOK
  <2> QED  BY <1>1, <2>1, Apart DEF IInv, TypeOK
<1>3. BusyFit'
  BY <1>1 DEF IInv, BusyFit
<1>4. GlideinsBounded'
  <2>1. ASSUME NEW x \in Entries PROVE Held(x)' <= Held(x)
    <3>1. Held(x)' = Held(x)
      BY <1>1 DEF Held, Busy
    <3> QED  BY <3>1, Sizes DEF IInv
  <2> QED  BY <1>2, <2>1, NoMore DEF IInv
<1> QED  BY <1>1, <1>2, <1>3, <1>4, Apart DEF IInv

LEMMA StartsBounded == Init => IInv
<1> SUFFICES ASSUME Init PROVE IInv
  OBVIOUS
<1>1. /\ job = [j \in Jobs |-> "new"] /\ at = [j \in Jobs |-> 0]
      /\ queued = [e \in Entries |-> 0] /\ booting = queued /\ free = queued
      /\ request = [e \in Entries |-> NoRequest]
      /\ history = [e \in Entries |-> [idle0 |-> 0, glideempty |-> 0, glidetotal0 |-> 0]]
      /\ pending = <<>> /\ failures = 0
  BY DEF Init
<1>2. NoRequest \in RequestType /\ NoRequest.idle = 0
  BY DEF NoRequest, RequestType, RemoveExcess
<1>3. TypeOK
  <2>1. 0 \in 0 .. MaxFailures
    BY Limits
  <2> QED  BY <1>1, <1>2, <2>1 DEF TypeOK, Counters
<1>4. BusyFit /\ Bounded(request)
  BY <1>1, <1>2 DEF BusyFit, Bounded
<1>5. GlideinsBounded
  <2> SUFFICES ASSUME NEW e \in Entries PROVE queued[e] + Running(e) <= Allowed(e)
    BY DEF GlideinsBounded
  <2>1. Busy(e) = {}
    BY <1>1, EntriesAssumption DEF Busy, Entries
  <2>2. Cardinality(Busy(e)) = 0
    BY <2>1, FS_EmptySet
  <2>3. queued[e] + Running(e) = 0
    BY <1>1, <2>2 DEF Running
  <2>4. PICK a \in Nat : a = Allowed(e)
    BY AllowedIs
  <2> QED  BY <2>3, <2>4
<1> QED  BY <1>1, <1>3, <1>4, <1>5 DEF IInv

LEMMA StaysBounded == IInv /\ [Next]_vars => IInv'
<1> SUFFICES ASSUME IInv, [Next]_vars PROVE IInv'
  OBVIOUS
<1>1. CASE UNCHANGED vars
  <2>1. UNCHANGED <<job, at, queued, booting, free, request, history, pending, failures>>
    BY <1>1 DEF vars
  <2>2. TypeOK'
    BY <2>1 DEF IInv, TypeOK
  <2>3. BusyFit'
    BY <2>1 DEF IInv, BusyFit
  <2>4. ASSUME NEW x \in Entries PROVE Held(x)' <= Held(x)
    <3>1. Held(x)' = Held(x)
      BY <2>1 DEF Held, Busy
    <3> QED  BY <3>1, Sizes DEF IInv
  <2>5. GlideinsBounded'
    BY <2>2, <2>4, NoMore DEF IInv
  <2> QED  BY <2>1, <2>2, <2>3, <2>5, Apart DEF IInv
<1>2. CASE Iterate
  <2>1. CASE \E faults \in FewFaults :
             \E old \in IF reserve_idle = 0 THEN {{}} ELSE SUBSET {j \in Jobs : job[j] = "idle"} :
                Observe(faults, old)
    BY <2>1, ObserveKeeps
  <2>2. CASE \E delivered, saved \in BOOLEAN : Publish(delivered, saved)
    BY <2>2, PublishKeeps
  <2> QED  BY <1>2, <2>1, <2>2 DEF Iterate
<1>3. CASE \E e \in Entries : Site(e)
  <2>1. PICK e \in Entries : Site(e)
    BY <1>3
  <2>2. CASE keepIdleGlideins(e)
    BY <2>2, SubmitKeeps
  <2>3. CASE clean_glidein_queue(e)
    <3>1. /\ ManyIdle(e) \/ ManyRunning(e)
          /\ RemoveQueued(e) \/ RemoveRunning(e)
          /\ UNCHANGED <<request, history, pending, failures>>
      BY <2>3 DEF clean_glidein_queue
    <3> QED  BY <3>1, RemoveQueuedKeeps, RemoveRunningKeeps
  <2>4. CASE Boot(e) \/ Register(e) \/ BootFails(e) \/ Expire(e)
    BY <2>4, BootKeeps, RegisterKeeps, BootFailsKeeps, ExpireKeeps
  <2> QED  BY <2>1, <2>2, <2>3, <2>4 DEF Site, FactoryWork
<1>4. CASE \E j \in Jobs : User(j)
  <2>1. PICK j \in Jobs : User(j)
    BY <1>4
  <2> QED  BY <2>1, ArriveKeeps, LeaveKeeps, ClaimKeeps DEF User
<1> QED  BY <1>1, <1>2, <1>3, <1>4 DEF Next

LEMMA AlwaysBounded == Spec => []IInv
BY StartsBounded, StaysBounded, PTL DEF Spec

(* The variables of the loop between a group and the factory keep their types*)
(* (FrontendRequests), whatever the limits, jobs and entries.                *)
THEOREM LoopTyped == Spec => []TypeOK
<1>1. IInv => TypeOK
  BY DEF IInv
<1> QED  BY <1>1, AlwaysBounded, PTL

(* An entry never gets more glideins than the cores its jobs ask for allow,  *)
(* also when queries fail, requests are lost or delayed, and jobs come, go and*)
(* lose their glideins meanwhile (compute_glidein_max_run together with      *)
(* keepIdleGlideins).                                                        *)
THEOREM GlideinsStayBounded == Spec => []GlideinsBounded
<1>1. IInv => GlideinsBounded
  BY DEF IInv
<1> QED  BY <1>1, AlwaysBounded, PTL
=============================================================================
