------------------------- MODULE NodeSelectionProofs -------------------------
(***************************************************************************)
(* Proofs about NodeSelection, for lists of routers of any length and any  *)
(* weights: the loop of generate computes a choice in proportion to the    *)
(* weights, and xfer_use_counts divides the repaired weights into          *)
(* probabilities, unless relays of a kind have no weight at all.           *)
(***************************************************************************)
EXTENDS NodeSelection, FiniteSetTheorems, SequenceTheorems,
        WellFoundedInduction, TLAPS

-----------------------------------------------------------------------------
(* Numbers.                                                                *)

\* A set of naturals that is not empty has a least element: of the intervals
\* 0..n up to its elements one contains no other.
LEMMA LeastNatural ==
    ASSUME NEW T \in SUBSET Nat, NEW t \in T
    PROVE  \E n \in T : \A m \in T : n <= m
<1> DEFINE upto == {0..n : n \in T}
<1>1. IsWellFoundedOn(StrictSubsetOrdering(Nat), FiniteSubsetsOf(Nat))
  BY FS_StrictSubsetOrderingWellFounded
<1>2. upto \subseteq FiniteSubsetsOf(Nat) /\ upto # {}
  <2>1. ASSUME NEW n \in T PROVE IsFiniteSet(0..n) /\ 0..n \subseteq Nat
    BY FS_Interval
  <2> QED
    BY <2>1 DEF FiniteSubsetsOf
<1> HIDE DEF upto
<1>3. PICK U \in upto : \A V \in upto : <<V, U>> \notin StrictSubsetOrdering(Nat)
  BY <1>1, <1>2, WFMin
<1>4. PICK n \in T : U = 0..n
  BY DEF upto
<1>5. ASSUME NEW m \in T, m < n PROVE FALSE
  <2>1. 0..m \in upto /\ 0..m \subseteq U /\ 0..m # U
    BY <1>4, <1>5 DEF upto
  <2>2. 0..m \subseteq Nat /\ U \subseteq Nat
    BY <1>4
  <2> QED
    BY <1>3, <2>1, <2>2 DEF StrictSubsetOrdering
<1> QED
  BY <1>5

LEMMA OneMore == \A k, n \in Nat : k <= n /\ k # n => k + 1 \in 1..n
OBVIOUS

LEMMA Products == \A x, y \in Nat : x * y \in Nat
OBVIOUS

-----------------------------------------------------------------------------
(* Sums.                                                                   *)

LEMMA UpTo == \A n \in Nat : IsFiniteSet(1..n) /\ Cardinality(1..n) = n
BY FS_Interval

LEMMA MarksFinite ==
    ASSUME NEW ws, NEW S, IsFiniteSet(S), \A i \in S : ws[i] \in Nat
    PROVE  IsFiniteSet(Marks(ws, S)) /\ SumOf(ws, S) \in Nat
<1> DEFINE piece == [i \in S |-> {i} \X (1..ws[i])]
           pieces == {{i} \X (1..ws[i]) : i \in S}
<1>1. piece \in Surjection(S, pieces)
  BY Zenon DEF Surjection
<1>2. IsFiniteSet(pieces)
  <2> HIDE DEF piece, pieces
  <2> QED  BY <1>1, FS_Surjection
<1>3. ASSUME NEW p \in pieces PROVE IsFiniteSet(p)
  <2>1. PICK i \in S : p = {i} \X (1..ws[i])
    OBVIOUS
  <2>2. IsFiniteSet({i})
    BY Zenon, FS_Singleton
  <2>3. IsFiniteSet(1..ws[i])
    BY UpTo
  <2>4. IsFiniteSet({i} \X (1..ws[i]))
    BY Zenon, <2>2, <2>3, FS_Product
  <2> QED
    BY Zenon, <2>1, <2>4
<1>4. IsFiniteSet(Marks(ws, S))
  <2>1. Marks(ws, S) = UNION pieces
    BY DEF Marks
  <2> HIDE DEF pieces
  <2> QED  BY <1>2, <1>3, <2>1, FS_UNION
<1> QED
  BY <1>4, FS_CardinalityType DEF SumOf

LEMMA SumOfNone == \A ws : SumOf(ws, {}) = 0
<1>1. \A ws : Marks(ws, {}) = {}
  BY DEF Marks
<1> QED
  BY <1>1, FS_EmptySet DEF SumOf

LEMMA SumOfOne ==
    ASSUME NEW ws, NEW i, ws[i] \in Nat
    PROVE  SumOf(ws, {i}) = ws[i]
<1>1. Marks(ws, {i}) = {i} \X (1..ws[i])
  BY DEF Marks
<1>2. IsFiniteSet({i}) /\ Cardinality({i}) = 1
  BY FS_Singleton
<1>3. IsFiniteSet(1..ws[i]) /\ Cardinality(1..ws[i]) = ws[i]
  BY UpTo
<1>4. Cardinality({i} \X (1..ws[i])) = Cardinality({i}) * Cardinality(1..ws[i])
  BY Zenon, <1>2, <1>3, FS_Product
<1>5. Cardinality({i} \X (1..ws[i])) = 1 * ws[i]
  BY Zenon, <1>2, <1>3, <1>4
<1>6. 1 * ws[i] = ws[i]
  OBVIOUS
<1> QED
  BY Zenon, <1>1, <1>5, <1>6 DEF SumOf

LEMMA SumOfDisjoint ==
    ASSUME NEW ws, NEW S, NEW T, IsFiniteSet(S), IsFiniteSet(T), S \intersect T = {},
           \A i \in S \union T : ws[i] \in Nat
    PROVE  SumOf(ws, S \union T) = SumOf(ws, S) + SumOf(ws, T)
<1>1. /\ IsFiniteSet(Marks(ws, S)) /\ IsFiniteSet(Marks(ws, T))
      /\ SumOf(ws, S) \in Nat /\ SumOf(ws, T) \in Nat
  BY MarksFinite
<1>2. Marks(ws, S \union T) = Marks(ws, S) \union Marks(ws, T)
  BY Zenon DEF Marks
<1>3. Marks(ws, S) \intersect Marks(ws, T) = {}
  BY DEF Marks
<1>4. Cardinality({}) = 0
  BY FS_EmptySet
<1>5. Cardinality(Marks(ws, S) \union Marks(ws, T))
        = Cardinality(Marks(ws, S)) + Cardinality(Marks(ws, T))
            - Cardinality(Marks(ws, S) \intersect Marks(ws, T))
  BY Zenon, <1>1, FS_Union
<1>6. SumOf(ws, S \union T) = SumOf(ws, S) + SumOf(ws, T) - 0
  BY Zenon, <1>2, <1>3, <1>4, <1>5 DEF SumOf
<1> QED
  BY <1>1, <1>6

\* A sum only looks at the weights of its indices.
LEMMA SumOfSame ==
    ASSUME NEW ws, NEW us, NEW S, \A i \in S : ws[i] = us[i]
    PROVE  SumOf(ws, S) = SumOf(us, S)
<1>1. Marks(ws, S) = Marks(us, S)
  BY DEF Marks
<1> QED
  BY <1>1 DEF SumOf

LEMMA SumOfSubset ==
    ASSUME NEW ws, NEW S, NEW T \in SUBSET S, IsFiniteSet(S), \A i \in S : ws[i] \in Nat
    PROVE  SumOf(ws, T) <= SumOf(ws, S)
<1>1. Marks(ws, T) \subseteq Marks(ws, S)
  BY Zenon DEF Marks
<1> QED
  BY <1>1, MarksFinite, FS_Subset DEF SumOf

\* The sum of the first n weights, from the sum of those before.
LEMMA Prefix ==
    ASSUME NEW ws, NEW n \in Nat \ {0}, \A i \in 1..n : ws[i] \in Nat
    PROVE  SumOf(ws, 1..n) = SumOf(ws, 1..n-1) + ws[n]
<1>1. /\ 1..n = 1..n-1 \union {n}
      /\ 1..n-1 \intersect {n} = {}
  OBVIOUS
<1>2. IsFiniteSet(1..n-1) /\ IsFiniteSet({n})
  <2>1. n-1 \in Nat
    OBVIOUS
  <2>2. IsFiniteSet({n})
    BY Zenon, FS_Singleton
  <2> QED
    BY Zenon, <2>1, <2>2, UpTo
<1>3. \A i \in 1..n-1 \union {n} : ws[i] \in Nat
  BY <1>1
<1>4. SumOf(ws, 1..n-1 \union {n}) = SumOf(ws, 1..n-1) + SumOf(ws, {n})
  BY <1>1, <1>2, <1>3, SumOfDisjoint
<1>5. SumOf(ws, {n}) = ws[n]
  BY SumOfOne
<1> QED
  BY <1>1, <1>4, <1>5

LEMMA PrefixMonotone ==
    ASSUME NEW ws, NEW m \in Nat, NEW n \in Nat, m <= n, \A i \in 1..n : ws[i] \in Nat
    PROVE  SumOf(ws, 1..m) \in Nat /\ SumOf(ws, 1..n) \in Nat
           /\ SumOf(ws, 1..m) <= SumOf(ws, 1..n)
<1>1. IsFiniteSet(1..n) /\ IsFiniteSet(1..m) /\ 1..m \subseteq 1..n
  BY FS_Interval
<1> QED
  BY <1>1, MarksFinite, SumOfSubset

-----------------------------------------------------------------------------
(* The enumeration of a set of indices.                                    *)

\* How many elements of S come up to i.
Rank(S, i) == Cardinality({j \in S : j <= i})

LEMMA RankGrows ==
    ASSUME NEW S \in SUBSET Nat, IsFiniteSet(S), NEW i \in S, NEW k \in S, i < k
    PROVE  Rank(S, i) < Rank(S, k)
<1> DEFINE low == {j \in S : j <= i}
           high == {j \in S : j <= k}
<1>1. IsFiniteSet(low) /\ IsFiniteSet(high)
  BY FS_Subset
<1>2. low \subseteq high /\ low # high
  <2>1. i \in Nat /\ k \in Nat
    OBVIOUS
  <2>2. ASSUME NEW j \in low PROVE j \in high
    <3>1. j \in Nat /\ j <= i
      OBVIOUS
    <3>2. j <= k
      BY <2>1, <3>1
    <3> QED
      BY <3>2
  <2>3. k \in high /\ k \notin low
    BY <2>1
  <2> HIDE DEF low, high
  <2> QED  BY <2>2, <2>3
<1>3. Cardinality(low) \in Nat /\ Cardinality(high) \in Nat
  BY <1>1, FS_CardinalityType
<1> HIDE DEF low, high
<1>4. Cardinality(low) <= Cardinality(high) /\ Cardinality(low) # Cardinality(high)
  BY <1>1, <1>2, <1>3, FS_Subset
<1> QED
  BY <1>3, <1>4 DEF Rank, low, high

LEMMA RankBounds ==
    ASSUME NEW S \in SUBSET Nat, IsFiniteSet(S), NEW i \in S
    PROVE  Rank(S, i) \in 1..Cardinality(S)
<1> DEFINE low == {j \in S : j <= i}
<1>1. IsFiniteSet(low) /\ Cardinality(low) <= Cardinality(S)
  BY FS_Subset
<1>2. Cardinality(low) \in Nat /\ Cardinality(S) \in Nat
  BY <1>1, FS_CardinalityType
<1>3. low # {}
  OBVIOUS
<1>4. Cardinality(low) # 0
  BY <1>1, <1>3, FS_EmptySet
<1> QED
  BY <1>1, <1>2, <1>4 DEF Rank

\* There is an enumeration in order: the inverse of the rank.
LEMMA InOrderExists ==
    ASSUME NEW S \in SUBSET Nat, IsFiniteSet(S)
    PROVE  /\ InOrder(S) \in [1..Cardinality(S) -> S]
           /\ \A j, k \in 1..Cardinality(S) : j < k => InOrder(S)[j] < InOrder(S)[k]
<1> DEFINE n == Cardinality(S)
           rank == [i \in S |-> Rank(S, i)]
<1>1. n \in Nat /\ IsFiniteSet(1..n) /\ Cardinality(1..n) = n
  BY FS_CardinalityType, FS_Interval
<1>2. rank \in [S -> 1..n]
  BY RankBounds
<1>3. \A i, k \in S : i < k => rank[i] < rank[k]
  BY RankGrows
<1>4. rank \in Injection(S, 1..n)
  <2>1. ASSUME NEW i \in S, NEW k \in S, i # k PROVE rank[i] # rank[k]
    <3>1. i < k \/ k < i
      BY <2>1
    <3>2. rank[i] \in Nat /\ rank[k] \in Nat
      BY <1>1, <1>2
    <3> HIDE DEF rank
    <3> QED  BY <1>3, <3>1, <3>2
  <2> HIDE DEF rank
  <2> QED  BY <1>2, <2>1 DEF Injection, IsInjective
<1> HIDE DEF rank
<1>5. rank \in Surjection(S, 1..n)
  BY <1>1, <1>4, FS_Injection
<1>6. \A k \in 1..n : \E i \in S : rank[i] = k
  BY <1>5 DEF Surjection
<1> DEFINE at == [k \in 1..n |-> CHOOSE i \in S : rank[i] = k]
<1>7. at \in [1..n -> S] /\ \A k \in 1..n : rank[at[k]] = k
  BY <1>6
<1>8. ASSUME NEW j \in 1..n, NEW k \in 1..n, j < k PROVE at[j] < at[k]
  <2> HIDE DEF at
  <2>1. at[j] \in S /\ at[k] \in S /\ rank[at[j]] = j /\ rank[at[k]] = k
    BY <1>7
  <2> HIDE DEF n
  <2>0. j # k /\ ~ k < j
    BY <1>1, <1>8
  <2>2. at[j] \in Nat /\ at[k] \in Nat /\ at[j] # at[k]
    BY <2>0, <2>1
  <2>3. at[k] < at[j] => rank[at[k]] < rank[at[j]]
    BY <1>3, <2>1
  <2>4. ~ at[k] < at[j]
    BY Zenon, <2>0, <2>1, <2>3
  <2> QED
    BY <2>2, <2>4
<1>9. DOMAIN at = 1..n
  OBVIOUS
<1> HIDE DEF at
<1>10. \E f \in [1..n -> S] : \A j, k \in DOMAIN f : j < k => f[j] < f[k]
  BY <1>7, <1>8, <1>9
<1>11. /\ InOrder(S) \in [1..n -> S]
       /\ \A j, k \in DOMAIN InOrder(S) : j < k => InOrder(S)[j] < InOrder(S)[k]
  <2> HIDE DEF n
  <2>1. InOrder(S) = CHOOSE f \in [1..n -> S] :
                       \A j, k \in DOMAIN f : j < k => f[j] < f[k]
    BY Zenon DEF InOrder, n
  <2> QED  BY Zenon, <1>10, <2>1
<1> QED
  BY <1>11

-----------------------------------------------------------------------------
(* The inductive invariant.                                                *)

Typed ==
    /\ routers \in UNION {[1..n -> Router] : n \in 0..MaxRouters}
    /\ bw_weights \in BwWeights
    /\ phase \in {"new", "ready", "drawing", "yielded", "repairing", "weighing",
                  "failed", "raised"}
    /\ rstr_routers \in Seq(Router)
    /\ node_weights \in Seq(Nat)
    /\ Len(node_weights) = Len(rstr_routers)
    /\ weight_total \in Nat /\ exit_total \in Nat
    /\ choice_val \in Nat /\ choose_total \in Nat /\ choice_idx \in Nat
    /\ turn \in Nat /\ rend_weights \in Seq([part : Nat, of : Nat])
    /\ turn <= Len(rstr_routers)

\* The phases after repair_exits was called.
Repaired == {"repairing", "weighing", "raised"}

\* Until the weights of exits are repaired the total is their sum.
TotalOfWeights ==
    phase \notin Repaired => weight_total = SumOf(node_weights, DOMAIN node_weights)

\* A draw in the loop: what was added up are the weights before the index, and
\* they did not reach the draw one index earlier.
AddedUp ==
    phase \in {"drawing", "yielded"} =>
      /\ choice_val <= weight_total
      /\ choice_idx <= Len(node_weights)
      /\ choose_total = SumOf(node_weights, 1..choice_idx)
      /\ choice_idx > 0 => SumOf(node_weights, 1..choice_idx-1) < choice_val
      /\ phase = "yielded" => choice_val <= choose_total

\* The total is never less than the weights of the relays that are no exits; the
\* total of exits has those that were repaired so far.
ExitsAddedUp ==
    phase \in Repaired =>
      /\ SumOf(node_weights, OthersOf(node_weights)) <= weight_total
      /\ exit_total = SumOf(node_weights,
                            IF phase = "repairing" THEN {i \in 1..turn : IsExit(i)}
                            ELSE ExitsOf(node_weights))

\* The weights are divided one after the other, up to a total of 0.
Divided ==
    /\ phase \notin {"weighing", "raised"} => rend_weights = <<>>
    /\ phase \in {"weighing", "raised"} =>
         /\ Len(rend_weights) = turn
         /\ \A i \in 1..turn :
              rend_weights[i] = [part |-> node_weights[i], of |-> TotalFor(i)]
              /\ TotalFor(i) # 0
    /\ phase = "raised" => More /\ TotalFor(turn + 1) = 0

Unbuilt == phase = "new" => turn = 0

NodeInv == Typed /\ Unbuilt /\ TotalOfWeights /\ AddedUp /\ ExitsAddedUp /\ Divided

LEMMA WeightTypes ==
    ASSUME bw_weights \in BwWeights
    PROVE  \A r \in Router : /\ Measured(r) * MiddleWeight(r) \in Nat
                            /\ Measured(r) * ExitWeight(r) \in Nat
<1>1. bw_weights \in WeightsLine
  BY WeightsAssumption
<1> SUFFICES ASSUME NEW r \in Router
             PROVE  /\ Measured(r) * MiddleWeight(r) \in Nat
                    /\ Measured(r) * ExitWeight(r) \in Nat
  OBVIOUS
<1>2. Measured(r) \in Nat
  BY BandwidthsAssumption DEF Measured, Router
<1>3. MiddleWeight(r) \in Nat
  <2>1. CASE "Guard" \in r.flags /\ "Exit" \in r.flags
    BY <1>1, <2>1 DEF MiddleWeight, WeightsLine
  <2>2. CASE "Guard" \notin r.flags /\ "Exit" \in r.flags
    BY <1>1, <2>2 DEF MiddleWeight, WeightsLine
  <2>3. CASE "Guard" \in r.flags /\ "Exit" \notin r.flags
    BY <1>1, <2>3 DEF MiddleWeight, WeightsLine
  <2>4. CASE "Guard" \notin r.flags /\ "Exit" \notin r.flags
    BY <1>1, <2>4 DEF MiddleWeight, WeightsLine
  <2> QED
    BY <2>1, <2>2, <2>3, <2>4
<1>4. ExitWeight(r) \in Nat
  BY <1>1 DEF ExitWeight, WeightsLine
<1> QED
  BY <1>2, <1>3, <1>4, Products

LEMMA WeightsFinite ==
    ASSUME Typed
    PROVE  /\ DOMAIN node_weights = 1..Len(node_weights)
           /\ Len(node_weights) \in Nat
           /\ \A i \in 1..Len(node_weights) : node_weights[i] \in Nat
           /\ IsFiniteSet(DOMAIN node_weights)
           /\ DOMAIN rstr_routers = DOMAIN node_weights
<1>1. /\ DOMAIN node_weights = 1..Len(node_weights)
      /\ Len(node_weights) \in Nat
      /\ \A i \in 1..Len(node_weights) : node_weights[i] \in Nat
      /\ DOMAIN rstr_routers = DOMAIN node_weights
  BY DEF Typed
<1> QED
  BY <1>1, UpTo

LEMMA InitInv == Init => NodeInv
<1> SUFFICES ASSUME Init PROVE NodeInv
  OBVIOUS
<1>1. Typed
  BY DEF Init, Typed
<1>2. DOMAIN node_weights = {}
  BY DEF Init
<1>3. weight_total = SumOf(node_weights, DOMAIN node_weights)
  BY <1>2, SumOfNone DEF Init
<1>4. phase = "new"
  BY DEF Init
<1> QED
  <2>1. Divided /\ ExitsAddedUp /\ AddedUp /\ Unbuilt
    BY <1>4 DEF Init, Divided, ExitsAddedUp, AddedUp, Repaired, Unbuilt
  <2> QED
    BY <1>1, <1>3, <2>1 DEF NodeInv, TotalOfWeights

LEMMA ConstructInv == NodeInv /\ Construct => NodeInv'
<1> SUFFICES ASSUME NodeInv, Construct PROVE NodeInv'
  OBVIOUS
<1> USE DEF NodeInv
<1> DEFINE ok == {i \in DOMAIN routers : IsOk(routers[i])}
           n == Cardinality(ok)
           at == InOrder(ok)
           rstr == [k \in 1..n |-> routers[at[k]]]
           ws == [k \in DOMAIN rstr |-> Measured(rstr[k]) * MiddleWeight(rstr[k])]
<1>1. /\ rstr_routers' = rstr /\ node_weights' = ws
      /\ weight_total' = SumOf(ws, DOMAIN ws)
      /\ phase' \in {"ready", "failed"}
      /\ phase = "new"
      /\ UNCHANGED <<routers, bw_weights, exit_total, choice_val, choose_total, choice_idx,
                     turn, rend_weights>>
  BY DEF Construct, input, draw, loop
<1>2. PICK m \in 0..MaxRouters : routers \in [1..m -> Router]
  BY DEF Typed
<1>3. ok \in SUBSET Nat /\ IsFiniteSet(ok) /\ n \in Nat /\ ok \subseteq 1..m
  <2>1. m \in Nat /\ IsFiniteSet(1..m)
    BY UpTo, BandwidthsAssumption
  <2>2. ok \subseteq 1..m
    BY <1>2
  <2> HIDE DEF ok
  <2>3. IsFiniteSet(ok)
    BY <2>1, <2>2, FS_Subset
  <2>4. n \in Nat
    BY <2>3, FS_CardinalityType
  <2>5. ok \in SUBSET Nat
    BY <2>1, <2>2
  <2> QED
    BY <2>2, <2>3, <2>4, <2>5
<1> HIDE DEF ok
<1>4. at \in [1..n -> ok]
  BY <1>3, InOrderExists
<1> HIDE DEF n, at
<1>5. rstr \in [1..n -> Router] /\ rstr \in Seq(Router) /\ Len(rstr) = n /\ DOMAIN rstr = 1..n
  <2>1. rstr \in [1..n -> Router] /\ DOMAIN rstr = 1..n
    BY <1>2, <1>3, <1>4
  <2> HIDE DEF rstr
  <2> QED  BY <1>3, <2>1, SeqDef
<1> HIDE DEF rstr
<1>6. ws \in [1..n -> Nat] /\ ws \in Seq(Nat) /\ Len(ws) = n
  <2>1. ws \in [1..n -> Nat]
    BY <1>5, WeightTypes DEF Typed
  <2> HIDE DEF ws
  <2> QED  BY <1>3, <2>1, SeqDef
<1> HIDE DEF ws
<1>7. SumOf(ws, DOMAIN ws) \in Nat
  <2>1. DOMAIN ws = 1..n
    BY <1>6
  <2>2. IsFiniteSet(1..n) /\ \A i \in 1..n : ws[i] \in Nat
    BY <1>3, <1>6, UpTo
  <2> QED
    BY <2>1, <2>2, MarksFinite
<1>8. Typed'
  <2>1. turn = 0
    BY <1>1 DEF Typed, Unbuilt
  <2> QED
    BY <1>1, <1>3, <1>5, <1>6, <1>7, <2>1 DEF Typed
<1>9. TotalOfWeights'
  BY <1>1 DEF TotalOfWeights
<1>10. AddedUp' /\ ExitsAddedUp' /\ Divided' /\ Unbuilt'
  BY <1>1 DEF AddedUp, ExitsAddedUp, Divided, Repaired, Unbuilt
<1> QED
  BY <1>8, <1>9, <1>10

LEMMA DrawInv == NodeInv /\ Draw => NodeInv'
<1> SUFFICES ASSUME NodeInv, Draw PROVE NodeInv'
  OBVIOUS
<1> USE DEF NodeInv
<1>1. /\ phase \in {"ready", "yielded"} /\ phase' = "drawing"
      /\ choice_val' \in 0..weight_total /\ choose_total' = 0 /\ choice_idx' = 0
      /\ UNCHANGED <<routers, bw_weights, rstr_routers, node_weights, weight_total, exit_total,
                     turn, rend_weights>>
  BY DEF Draw, input, generator, loop
<1>2. Typed'
  BY <1>1 DEF Typed
<1>3. TotalOfWeights'
  BY <1>1 DEF TotalOfWeights, Repaired
<1>4. SumOf(node_weights, 1..0) = 0
  BY SumOfNone
<1>5. AddedUp'
  BY <1>1, <1>4 DEF AddedUp, Typed
<1>6. ExitsAddedUp' /\ Divided' /\ Unbuilt'
  BY <1>1 DEF ExitsAddedUp, Divided, Repaired, Unbuilt
<1> QED
  BY <1>2, <1>3, <1>5, <1>6

\* The loop never asks for a weight past the end of the list.
LEMMA WithinTheList ==
    NodeInv /\ phase = "drawing" /\ choose_total < choice_val
      => choice_idx + 1 \in DOMAIN node_weights
<1> SUFFICES ASSUME NodeInv, phase = "drawing", choose_total < choice_val
             PROVE  choice_idx + 1 \in DOMAIN node_weights
  OBVIOUS
<1>1. /\ choice_val <= weight_total /\ choice_idx <= Len(node_weights)
      /\ choose_total = SumOf(node_weights, 1..choice_idx)
      /\ weight_total = SumOf(node_weights, DOMAIN node_weights)
  BY DEF NodeInv, AddedUp, TotalOfWeights, Repaired
<1>2. DOMAIN node_weights = 1..Len(node_weights) /\ Len(node_weights) \in Nat
  BY WeightsFinite DEF NodeInv
<1>3. choice_idx \in Nat /\ choose_total \in Nat /\ choice_val \in Nat /\ weight_total \in Nat
  BY DEF NodeInv, Typed
<1>4. choice_idx # Len(node_weights)
  <2>1. choose_total # weight_total
    BY <1>1, <1>3
  <2> QED
    BY <1>1, <1>2, <2>1
<1>5. choice_idx <= Len(node_weights)
  BY <1>1
<1>6. choice_idx + 1 \in 1..Len(node_weights)
  BY Zenon, <1>2, <1>3, <1>4, <1>5, OneMore
<1> QED
  BY Zenon, <1>2, <1>6

LEMMA AccumulateInv == NodeInv /\ Accumulate => NodeInv'
<1> SUFFICES ASSUME NodeInv, Accumulate PROVE NodeInv'
  OBVIOUS
<1>1. /\ phase = "drawing" /\ choose_total < choice_val
      /\ choose_total' = choose_total + node_weights[choice_idx + 1]
      /\ choice_idx' = choice_idx + 1
      /\ UNCHANGED <<routers, bw_weights, phase, rstr_routers, node_weights,
                     weight_total, exit_total, choice_val, turn, rend_weights>>
  BY DEF Accumulate, input, generator, loop
<1>2. choice_idx + 1 \in 1..Len(node_weights) /\ Len(node_weights) \in Nat
  BY <1>1, WithinTheList, WeightsFinite DEF NodeInv
<1>3. \A i \in 1..Len(node_weights) : node_weights[i] \in Nat
  BY WeightsFinite DEF NodeInv
<1>4. /\ choice_idx \in Nat /\ choose_total \in Nat
      /\ choose_total = SumOf(node_weights, 1..choice_idx)
      /\ choice_val <= weight_total
  BY <1>1 DEF NodeInv, Typed, AddedUp
<1>5. SumOf(node_weights, 1..choice_idx + 1) = choose_total + node_weights[choice_idx + 1]
  <2>1. choice_idx + 1 \in Nat \ {0} /\ (choice_idx + 1) - 1 = choice_idx
    BY <1>4
  <2>2. \A i \in 1..choice_idx + 1 : node_weights[i] \in Nat
    BY <1>2, <1>3, <1>4
  <2>3. SumOf(node_weights, 1..choice_idx + 1)
          = SumOf(node_weights, 1..(choice_idx + 1) - 1) + node_weights[choice_idx + 1]
    BY <2>1, <2>2, Prefix
  <2> QED
    BY <1>4, <2>1, <2>3
<1>6. Typed'
  <2>1. choose_total' \in Nat /\ choice_idx' \in Nat
    BY <1>1, <1>2, <1>3, <1>4
  <2> QED
    BY <1>1, <2>1 DEF NodeInv, Typed
<1>7. TotalOfWeights'
  BY <1>1 DEF NodeInv, TotalOfWeights
<1>8. AddedUp'
  <2>1. (choice_idx + 1) - 1 = choice_idx /\ choice_idx + 1 <= Len(node_weights)
    BY <1>2, <1>4
  <2> QED
    BY <1>1, <1>4, <1>5, <2>1 DEF AddedUp
<1>9. ExitsAddedUp' /\ Divided' /\ Unbuilt'
  BY <1>1 DEF NodeInv, ExitsAddedUp, Divided, Repaired, Unbuilt
<1> QED
  BY <1>6, <1>7, <1>8, <1>9 DEF NodeInv

LEMMA YieldInv == NodeInv /\ Yield => NodeInv'
<1> SUFFICES ASSUME NodeInv, Yield PROVE NodeInv'
  OBVIOUS
<1>1. /\ phase = "drawing" /\ choice_val <= choose_total /\ phase' = "yielded"
      /\ UNCHANGED <<routers, bw_weights, rstr_routers, node_weights, weight_total,
                     exit_total, choice_val, choose_total, choice_idx, turn, rend_weights>>
  BY DEF Yield, input, generator, draw, loop, NodeInv, Typed
<1>2. Typed' /\ TotalOfWeights'
  BY <1>1 DEF NodeInv, Typed, TotalOfWeights, Repaired
<1>3. AddedUp'
  BY <1>1 DEF NodeInv, AddedUp
<1>4. ExitsAddedUp' /\ Divided' /\ Unbuilt'
  BY <1>1 DEF NodeInv, ExitsAddedUp, Divided, Repaired, Unbuilt
<1> QED
  BY <1>2, <1>3, <1>4 DEF NodeInv

LEMMA RepairExitsInv == NodeInv /\ RepairExits => NodeInv'
<1> SUFFICES ASSUME NodeInv, RepairExits PROVE NodeInv'
  OBVIOUS
<1>1. /\ phase = "ready" /\ phase' = "repairing"
      /\ exit_total' = 0 /\ turn' = 0
      /\ UNCHANGED <<routers, bw_weights, rstr_routers, node_weights, weight_total,
                     choice_val, choose_total, choice_idx, rend_weights>>
  BY DEF RepairExits, input, draw
<1>2. Typed' /\ Unbuilt'
  BY <1>1 DEF NodeInv, Typed, Unbuilt
<1>3. TotalOfWeights' /\ AddedUp' /\ Divided'
  BY <1>1 DEF NodeInv, TotalOfWeights, AddedUp, Divided, Repaired
<1>4. SumOf(node_weights, OthersOf(node_weights)) <= weight_total
  <2>1. weight_total = SumOf(node_weights, DOMAIN node_weights)
    BY <1>1 DEF NodeInv, TotalOfWeights, Repaired
  <2>2. IsFiniteSet(DOMAIN node_weights) /\ \A i \in DOMAIN node_weights : node_weights[i] \in Nat
    BY WeightsFinite DEF NodeInv
  <2>3. OthersOf(node_weights) \in SUBSET DOMAIN node_weights
    BY DEF OthersOf
  <2> QED
    BY <2>1, <2>2, <2>3, SumOfSubset
<1>5. OthersOf(node_weights)' = OthersOf(node_weights)
  BY <1>1 DEF OthersOf, ExitsOf, IsExit
<1>6. {i \in 1..turn' : IsExit(i)'} = {}
  BY <1>1
<1>7. ExitsAddedUp'
  BY <1>1, <1>4, <1>5, <1>6, SumOfNone DEF ExitsAddedUp
<1> QED
  BY <1>2, <1>3, <1>7 DEF NodeInv

\* One turn of repair_exits adds the weight of one exit to those before it, and
\* changes no weight of another relay.
LEMMA RepairNextInv == NodeInv /\ RepairNext => NodeInv'
<1> SUFFICES ASSUME NodeInv, RepairNext PROVE NodeInv'
  OBVIOUS
<1> DEFINE i == turn + 1
           w == Measured(rstr_routers[i]) * ExitWeight(rstr_routers[i])
           before == {k \in 1..turn : IsExit(k)}
           ws == node_weights
<1>1. /\ phase = "repairing" /\ phase' = "repairing" /\ turn < Len(rstr_routers)
      /\ turn' = i
      /\ IF IsExit(i) THEN node_weights' = [ws EXCEPT ![i] = w] /\ exit_total' = exit_total + w
         ELSE UNCHANGED <<node_weights, exit_total>>
      /\ UNCHANGED <<routers, bw_weights, rstr_routers, weight_total,
                     choice_val, choose_total, choice_idx, rend_weights>>
  BY DEF RepairNext, More, input, draw
<1>2. /\ DOMAIN ws = 1..Len(ws) /\ Len(ws) \in Nat /\ Len(ws) = Len(rstr_routers)
      /\ \A k \in 1..Len(ws) : ws[k] \in Nat
      /\ rstr_routers \in Seq(Router) /\ ws \in Seq(Nat)
      /\ turn \in Nat /\ i \in 1..Len(ws) /\ turn \in 0..Len(ws)
  BY <1>1, WeightsFinite DEF NodeInv, Typed
<1>3. w \in Nat
  <2>1. rstr_routers[i] \in Router
    BY <1>2
  <2> QED
    BY <2>1, WeightTypes DEF NodeInv, Typed
<1>4. /\ SumOf(ws, OthersOf(ws)) <= weight_total
      /\ exit_total = SumOf(ws, before) /\ exit_total \in Nat
  BY <1>1 DEF NodeInv, ExitsAddedUp, Repaired, Typed
<1> HIDE DEF w
<1>5. node_weights' \in Seq(Nat) /\ Len(node_weights') = Len(ws) /\ exit_total' \in Nat
      /\ DOMAIN node_weights' = DOMAIN ws
  <2>1. CASE IsExit(i)
    <3>1. node_weights' = [ws EXCEPT ![i] = w] /\ exit_total' = exit_total + w
      BY <1>1, <2>1
    <3> HIDE DEF i
    <3> QED  BY <1>2, <1>3, <1>4, <3>1
  <2>2. CASE ~IsExit(i)
    <3>1. UNCHANGED <<node_weights, exit_total>>
      BY <1>1, <2>2
    <3> HIDE DEF i
    <3> QED  BY <1>2, <1>4, <3>1
  <2> QED
    BY <2>1, <2>2
<1>6. Typed' /\ Unbuilt'
  <2>1. turn' \in Nat /\ turn' <= Len(rstr_routers)
    BY <1>1, <1>2
  <2> HIDE DEF i
  <2> QED  BY <1>1, <1>2, <1>5, <2>1 DEF NodeInv, Typed, Unbuilt
<1>7. TotalOfWeights' /\ AddedUp' /\ Divided'
  BY <1>1 DEF NodeInv, TotalOfWeights, AddedUp, Divided, Repaired
<1>8. \A k : IsExit(k)' <=> IsExit(k)
  BY <1>1 DEF IsExit
<1>9. SumOf(node_weights', OthersOf(node_weights)') <= weight_total
  <2>1. OthersOf(node_weights)' = OthersOf(ws)
    BY <1>5, <1>8 DEF OthersOf, ExitsOf
  <2>2. \A k \in OthersOf(ws) : node_weights'[k] = ws[k]
    BY <1>1, <1>2 DEF OthersOf, ExitsOf
  <2>3. SumOf(node_weights', OthersOf(ws)) = SumOf(ws, OthersOf(ws))
    BY <2>2, SumOfSame
  <2> QED
    BY <1>4, <2>1, <2>3
<1>10. exit_total' = SumOf(node_weights', {k \in 1..turn' : IsExit(k)'})
  <2>1. CASE IsExit(i)
    <3>1. {k \in 1..turn' : IsExit(k)'} = before \union {i} /\ before \intersect {i} = {}
      BY <1>1, <1>2, <1>8, <2>1
    <3>2. IsFiniteSet(before) /\ IsFiniteSet({i})
      <4>1. IsFiniteSet(1..turn) /\ before \subseteq 1..turn
        BY <1>2, UpTo
      <4> QED
        BY <4>1, FS_Subset, FS_Singleton
    <3>3. \A k \in before : node_weights'[k] = ws[k]
      <4>1. \A k \in before : k \in 1..Len(ws) /\ k # i
        BY <1>2
      <4> HIDE DEF before, i
      <4> QED  BY <1>1, <1>2, <2>1, <4>1
    <3>4. SumOf(node_weights', before) = SumOf(ws, before)
      BY <3>3, SumOfSame
    <3>5. node_weights'[i] = w
      BY <1>1, <1>2, <2>1
    <3>6. SumOf(node_weights', {i}) = w
      BY <1>3, <3>5, SumOfOne
    <3>7. \A k \in before \union {i} : node_weights'[k] \in Nat
      <4>1. before \union {i} \subseteq DOMAIN ws
        BY <1>2
      <4> HIDE DEF before, i
      <4> QED  BY <1>5, <4>1
    <3>8. SumOf(node_weights', before \union {i}) = exit_total + w
      <4> HIDE DEF before, i
      <4> QED  BY <1>4, <3>1, <3>2, <3>4, <3>6, <3>7, SumOfDisjoint
    <3> QED
      BY <1>1, <2>1, <3>1, <3>8
  <2>2. CASE ~IsExit(i)
    <3>1. {k \in 1..turn' : IsExit(k)'} = before
      BY <1>1, <1>2, <1>8, <2>2
    <3> QED
      BY <1>1, <1>4, <2>2, <3>1
  <2> QED
    BY <2>1, <2>2
<1>11. ExitsAddedUp'
  <2> HIDE DEF i
  <2> QED  BY <1>1, <1>9, <1>10 DEF ExitsAddedUp
<1> QED
  BY <1>6, <1>7, <1>11 DEF NodeInv

LEMMA StartXferInv == NodeInv /\ StartXfer => NodeInv'
<1> SUFFICES ASSUME NodeInv, StartXfer PROVE NodeInv'
  OBVIOUS
<1>1. /\ phase = "repairing" /\ phase' = "weighing" /\ ~ turn < Len(rstr_routers)
      /\ turn' = 0
      /\ UNCHANGED <<routers, bw_weights, rstr_routers, node_weights, weight_total, exit_total,
                     choice_val, choose_total, choice_idx, rend_weights>>
  BY DEF StartXfer, More, input, generator, draw
<1>2. Typed' /\ Unbuilt'
  BY <1>1 DEF NodeInv, Typed, Unbuilt
<1>3. TotalOfWeights' /\ AddedUp' /\ Divided'
  BY <1>1 DEF NodeInv, TotalOfWeights, AddedUp, Divided, Repaired
<1>4. 1..turn = DOMAIN node_weights
  BY <1>1, WeightsFinite DEF NodeInv, Typed
<1>5. /\ ExitsOf(node_weights)' = ExitsOf(node_weights)
      /\ OthersOf(node_weights)' = OthersOf(node_weights)
  BY <1>1 DEF OthersOf, ExitsOf, IsExit
<1>6. {k \in 1..turn : IsExit(k)} = ExitsOf(node_weights)
  BY <1>4 DEF ExitsOf
<1>7. /\ SumOf(node_weights, OthersOf(node_weights)) <= weight_total
      /\ exit_total = SumOf(node_weights, {k \in 1..turn : IsExit(k)})
  BY <1>1 DEF NodeInv, ExitsAddedUp, Repaired
<1>8. ExitsAddedUp'
  BY <1>1, <1>5, <1>6, <1>7 DEF ExitsAddedUp
<1> QED
  BY <1>2, <1>3, <1>8 DEF NodeInv

LEMMA WeighNextInv == NodeInv /\ WeighNext => NodeInv'
<1> SUFFICES ASSUME NodeInv, WeighNext PROVE NodeInv'
  OBVIOUS
<1> DEFINE i == turn + 1
           part == [part |-> node_weights[i], of |-> TotalFor(i)]
<1>1. /\ phase = "weighing" /\ More
      /\ UNCHANGED <<routers, bw_weights, rstr_routers, node_weights, weight_total, exit_total,
                     choice_val, choose_total, choice_idx>>
      /\ \/ TotalFor(i) = 0 /\ phase' = "raised" /\ UNCHANGED <<turn, rend_weights>>
         \/ /\ TotalFor(i) # 0 /\ phase' = "weighing" /\ turn' = i
            /\ rend_weights' = Append(rend_weights, part)
  BY DEF WeighNext, input, generator, draw, loop
<1>2. /\ turn \in Nat /\ i \in 1..Len(rstr_routers) /\ Len(rstr_routers) = Len(node_weights)
      /\ node_weights[i] \in Nat /\ TotalFor(i) \in Nat
      /\ rend_weights \in Seq([part : Nat, of : Nat])
  BY <1>1, WeightsFinite DEF NodeInv, Typed, More, TotalFor
<1>3. Len(rend_weights) = turn
  BY <1>1 DEF NodeInv, Divided
<1>4. \A k \in 1..turn : rend_weights[k] = [part |-> node_weights[k], of |-> TotalFor(k)]
                          /\ TotalFor(k) # 0
  BY <1>1 DEF NodeInv, Divided
<1>5. \A k : TotalFor(k)' = TotalFor(k)
  BY <1>1 DEF TotalFor, IsExit
<1>6. More' <=> turn' < Len(rstr_routers)
  BY <1>1 DEF More
<1>7. Typed' /\ Unbuilt'
  <2>1. /\ turn' \in Nat /\ turn' <= Len(rstr_routers)
        /\ rend_weights' \in Seq([part : Nat, of : Nat])
    <3>1. turn \in Nat /\ turn <= Len(rstr_routers) /\ turn + 1 <= Len(rstr_routers)
      BY <1>2 DEF NodeInv, Typed
    <3>2. part \in [part : Nat, of : Nat]
      BY <1>2
    <3>3. turn' \in Nat /\ turn' <= Len(rstr_routers)
      BY <1>1, <3>1
    <3> HIDE DEF part
    <3>4. Append(rend_weights, part) \in Seq([part : Nat, of : Nat])
      BY <1>2, <3>2
    <3> QED  BY <1>1, <1>2, <3>3, <3>4
  <2> HIDE DEF i, part
  <2> QED  BY <1>1, <2>1 DEF NodeInv, Typed, Unbuilt
<1>8. TotalOfWeights' /\ AddedUp'
  BY <1>1 DEF NodeInv, TotalOfWeights, AddedUp, Repaired
<1>9. ExitsAddedUp'
  <2>1. /\ ExitsOf(node_weights)' = ExitsOf(node_weights)
        /\ OthersOf(node_weights)' = OthersOf(node_weights)
    BY <1>1 DEF OthersOf, ExitsOf, IsExit
  <2> QED
    BY <1>1, <2>1 DEF NodeInv, ExitsAddedUp, Repaired
<1>10. Divided'
  <2>1. CASE TotalFor(i) = 0
    <3>1. phase' = "raised" /\ UNCHANGED <<turn, rend_weights>>
      BY <1>1, <2>1
    <3>2. More' /\ TotalFor(turn + 1)' = 0
      BY <1>1, <1>5, <1>6, <2>1, <3>1 DEF More
    <3> QED
      BY <1>1, <1>3, <1>4, <1>5, <3>1, <3>2 DEF Divided
  <2>2. CASE TotalFor(i) # 0
    <3>1. phase' = "weighing" /\ turn' = i /\ rend_weights' = Append(rend_weights, part)
      BY <1>1, <2>2
    <3> HIDE DEF part
    <3>2. Len(rend_weights') = turn' /\ rend_weights'[i] = part
          /\ \A k \in 1..turn : rend_weights'[k] = rend_weights[k]
      BY <1>2, <1>3, <3>1
    <3>3. \A k \in 1..turn' : k \in 1..turn \/ k = i
      BY <1>2, <3>1
    <3> QED
      BY <1>1, <1>4, <1>5, <2>2, <3>1, <3>2, <3>3 DEF Divided, part
  <2> QED
    BY <2>1, <2>2
<1> QED
  BY <1>7, <1>8, <1>9, <1>10 DEF NodeInv

LEMMA StutterInv == NodeInv /\ UNCHANGED vars => NodeInv'
<1> SUFFICES ASSUME NodeInv, UNCHANGED vars PROVE NodeInv'
  OBVIOUS
<1>1. UNCHANGED <<routers, bw_weights, phase, rstr_routers, node_weights, weight_total,
                  exit_total, choice_val, choose_total, choice_idx, turn, rend_weights>>
  BY DEF vars, input, generator, draw, loop
<1>2. Typed' /\ Unbuilt'
  BY <1>1 DEF NodeInv, Typed, Unbuilt
<1>3. TotalOfWeights' /\ AddedUp'
  BY <1>1 DEF NodeInv, TotalOfWeights, AddedUp
<1>4. ExitsAddedUp' /\ Divided'
  BY <1>1 DEF NodeInv, ExitsAddedUp, Divided, ExitsOf, OthersOf, IsExit, TotalFor, More
<1> QED
  BY <1>2, <1>3, <1>4 DEF NodeInv

LEMMA NodeInvariant == Spec => []NodeInv
<1>1. NodeInv /\ [Next]_vars => NodeInv'
  BY ConstructInv, DrawInv, AccumulateInv, YieldInv, RepairExitsInv, RepairNextInv,
     StartXferInv, WeighNextInv, StutterInv DEF Next
<1> QED
  BY InitInv, <1>1, PTL DEF Spec

-----------------------------------------------------------------------------
(* What the generator promises.                                            *)

\* The intervals of the reference hold as many numbers as the weights say, and
\* every number from 1 to their total is in one of them and in no other.
IntervalsDivideTheTotal ==
    phase \notin Repaired =>
      /\ \A i \in DOMAIN node_weights : Cardinality(Interval(i)) = node_weights[i]
      /\ \A v \in 1..weight_total :
           \E i \in DOMAIN node_weights :
             \A j \in DOMAIN node_weights : v \in Interval(j) <=> j = i

LEMMA IntervalBounds ==
    ASSUME Typed, NEW i \in DOMAIN node_weights
    PROVE  /\ SumOf(node_weights, 1..i-1) \in Nat
           /\ SumOf(node_weights, 1..i) \in Nat
           /\ SumOf(node_weights, 1..i) = SumOf(node_weights, 1..i-1) + node_weights[i]
<1>1. /\ i \in 1..Len(node_weights) /\ Len(node_weights) \in Nat
      /\ \A k \in 1..Len(node_weights) : node_weights[k] \in Nat
  BY WeightsFinite
<1>2. i \in Nat \ {0} /\ i-1 \in Nat /\ i-1 <= i /\ i <= Len(node_weights)
  BY <1>1
<1>3. \A k \in 1..i : node_weights[k] \in Nat
  BY <1>1, <1>2
<1> QED
  BY <1>2, <1>3, Prefix, PrefixMonotone

LEMMA IntervalSize ==
    ASSUME Typed, NEW i \in DOMAIN node_weights
    PROVE  Cardinality(Interval(i)) = node_weights[i]
<1> DEFINE a == SumOf(node_weights, 1..i-1)
           b == SumOf(node_weights, 1..i)
<1>1. a \in Nat /\ b \in Nat /\ b = a + node_weights[i] /\ node_weights[i] \in Nat
  BY IntervalBounds, WeightsFinite
<1> HIDE DEF a, b
<1>2. Cardinality(a+1..b) = IF a+1 > b THEN 0 ELSE b-(a+1)+1
  <2>1. a+1 \in Int /\ b \in Int
    BY <1>1
  <2> QED
    BY Zenon, <2>1, FS_Interval
<1>3. Cardinality(a+1..b) = node_weights[i]
  BY <1>1, <1>2
<1> QED
  BY Zenon, <1>3 DEF Interval, a, b

\* The interval of a draw is that of the first index at which the sum of the
\* weights reaches it.
LEMMA IntervalOfDraw ==
    ASSUME Typed, NEW v \in 1..SumOf(node_weights, DOMAIN node_weights)
    PROVE  \E i \in DOMAIN node_weights :
             \A j \in DOMAIN node_weights : v \in Interval(j) <=> j = i
<1> DEFINE sum(n) == SumOf(node_weights, 1..n)
           n0 == Len(node_weights)
           T == {n \in 0..n0 : v <= sum(n)}
<1>1. /\ DOMAIN node_weights = 1..n0 /\ n0 \in Nat
      /\ \A k \in 1..n0 : node_weights[k] \in Nat
  BY WeightsFinite
<1>2. \A m, n \in 0..n0 : m <= n => sum(m) \in Nat /\ sum(n) \in Nat /\ sum(m) <= sum(n)
  <2>1. ASSUME NEW m \in 0..n0, NEW n \in 0..n0, m <= n
        PROVE  sum(m) \in Nat /\ sum(n) \in Nat /\ sum(m) <= sum(n)
    <3>1. m \in Nat /\ n \in Nat /\ \A k \in 1..n : node_weights[k] \in Nat
      BY <1>1
    <3> QED
      BY <2>1, <3>1, PrefixMonotone
  <2> QED
    BY <2>1
<1>3. sum(0) = 0
  BY SumOfNone
<1>4. v \in Nat /\ v > 0 /\ v <= sum(n0)
  <2>1. n0 \in 0..n0
    BY <1>1
  <2>2. sum(n0) \in Nat
    BY <1>2, <2>1
  <2> QED
    BY <1>1, <2>2
<1> HIDE DEF sum, n0
<1>5. PICK i \in T : \A n \in T : i <= n
  <2>1. T \in SUBSET Nat /\ n0 \in T
    BY <1>1, <1>4
  <2> HIDE DEF T
  <2> QED  BY <2>1, LeastNatural
<1>6. i \in 0..n0 /\ v <= sum(i)
  OBVIOUS
<1>7. i # 0
  BY <1>3, <1>4, <1>6
<1>8. i \in 1..n0 /\ i-1 \in 0..n0 /\ i-1 \notin T
  BY <1>1, <1>5, <1>6, <1>7
<1>9. sum(i-1) < v
  BY <1>1, <1>2, <1>4, <1>8
<1>10. v \in Interval(i)
  BY <1>1, <1>2, <1>4, <1>6, <1>8, <1>9 DEF Interval, sum
<1>11. ASSUME NEW j \in 1..n0, v \in Interval(j), j # i PROVE FALSE
  <2>1. j \in 0..n0 /\ j-1 \in 0..n0 /\ i \in 0..n0
    BY <1>1, <1>6
  <2>2. sum(j-1) \in Nat /\ sum(j) \in Nat
    BY <1>2, <2>1
  <2>3. sum(j-1) < v /\ v <= sum(j)
    BY <1>4, <1>11, <2>2 DEF Interval, sum
  <2>4. CASE j < i
    <3>1. j <= i-1
      BY <1>1, <1>8, <2>4
    <3>2. sum(j) <= sum(i-1) /\ sum(i-1) \in Nat
      BY <1>2, <1>8, <2>1, <3>1
    <3> QED
      BY <1>4, <1>9, <2>2, <2>3, <3>2
  <2>5. CASE i < j
    <3>1. i <= j-1
      BY <1>1, <1>8, <2>5
    <3>2. sum(i) <= sum(j-1) /\ sum(i) \in Nat
      BY <1>2, <2>1, <3>1
    <3> QED
      BY <1>4, <1>6, <2>2, <2>3, <3>2
  <2> QED
    BY <1>1, <1>6, <1>11, <2>4, <2>5
<1> QED
  BY <1>1, <1>8, <1>10, <1>11

\* Every number a draw can be, except 0, stands for one router, and each router
\* for as many of them as its weight says (generate, NodeSelection.py:122-147).
THEOREM RoutersShareTheDraws == Spec => []IntervalsDivideTheTotal
<1>1. NodeInv => IntervalsDivideTheTotal
  BY IntervalSize, IntervalOfDraw DEF NodeInv, TotalOfWeights, IntervalsDivideTheTotal
<1> QED
  BY NodeInvariant, <1>1, PTL

\* The loop of generate ends at the router the draw stands for: a relay is
\* picked in proportion to its weight.
THEOREM GenerateDrawsInProportion == Spec => []DrawsInProportion
<1>1. NodeInv => DrawsInProportion
  <2> SUFFICES ASSUME NodeInv, phase = "yielded", choice_val > 0
               PROVE  choice_val \in Interval(Yielded)
    BY DEF DrawsInProportion
  <2>1. /\ choose_total = SumOf(node_weights, 1..choice_idx)
        /\ choice_idx > 0 => SumOf(node_weights, 1..choice_idx-1) < choice_val
        /\ choice_val <= choose_total
        /\ choice_idx <= Len(node_weights)
    BY DEF NodeInv, AddedUp
  <2>2. choice_val \in Nat /\ choose_total \in Nat /\ choice_idx \in Nat
    BY DEF NodeInv, Typed
  <2>3. choice_idx # 0
    <3>1. SumOf(node_weights, 1..0) = 0
      BY SumOfNone
    <3> QED
      BY <2>1, <2>2, <3>1
  <2>4. choice_idx \in DOMAIN node_weights
    BY <2>1, <2>2, <2>3, WeightsFinite DEF NodeInv
  <2>5. SumOf(node_weights, 1..choice_idx-1) \in Nat
    BY <2>4, IntervalBounds DEF NodeInv
  <2>6. choice_val \in Interval(choice_idx)
    BY <2>1, <2>2, <2>3, <2>5 DEF Interval
  <2> QED
    BY <2>3, <2>6 DEF Yielded
<1> QED
  BY NodeInvariant, <1>1, PTL

\* The loop of generate never indexes past the end of the weights: the draw is
\* at most their sum (NodeSelection.py:133-138).
THEOREM LoopStaysInTheList ==
    Spec => [](phase = "drawing" /\ choose_total < choice_val
                 => choice_idx + 1 \in DOMAIN node_weights)
BY NodeInvariant, WithinTheList, PTL

LEMMA SumOfExitsAndOthers ==
    ASSUME NodeInv, phase \in {"weighing", "raised"}
    PROVE  /\ SumOf(node_weights, ExitsOf(node_weights)) = exit_total
           /\ SumOf(node_weights, OthersOf(node_weights)) <= weight_total
BY DEF NodeInv, ExitsAddedUp, Repaired

\* The fractions that were assigned: of exits they add up to one, of the others to
\* at most one (rendguard.py:100-105).
LEMMA FractionsOfInv == NodeInv => FractionsAddUp
<1> SUFFICES ASSUME NodeInv, Weighed PROVE FractionsAddUp
  BY DEF FractionsAddUp
<1> DEFINE parts == [i \in DOMAIN rend_weights |-> rend_weights[i].part]
<1>1. /\ phase = "weighing" /\ ~More
      /\ turn \in Nat /\ turn = Len(rstr_routers) /\ Len(rend_weights) = turn
      /\ \A i \in 1..turn : rend_weights[i] = [part |-> node_weights[i], of |-> TotalFor(i)]
                            /\ TotalFor(i) # 0
      /\ exit_total \in Nat /\ weight_total \in Nat
  BY DEF Weighed, More, NodeInv, Typed, Divided
<1>2. /\ DOMAIN node_weights = 1..turn /\ DOMAIN rend_weights = 1..turn
      /\ DOMAIN rstr_routers = 1..turn
  BY <1>1, WeightsFinite DEF NodeInv, Typed
<1>3. /\ ExitsOf(rend_weights) = ExitsOf(node_weights)
      /\ OthersOf(rend_weights) = OthersOf(node_weights)
      /\ ExitsOf(rend_weights) \subseteq 1..turn /\ OthersOf(rend_weights) \subseteq 1..turn
  BY <1>2 DEF ExitsOf, OthersOf
<1>4. \A i \in 1..turn : parts[i] = node_weights[i]
  BY <1>1, <1>2
<1> HIDE DEF parts
<1>5. /\ SumOf(parts, ExitsOf(rend_weights)) = exit_total
      /\ SumOf(parts, OthersOf(rend_weights)) <= weight_total
  <2>1. /\ SumOf(parts, ExitsOf(rend_weights)) = SumOf(node_weights, ExitsOf(rend_weights))
        /\ SumOf(parts, OthersOf(rend_weights)) = SumOf(node_weights, OthersOf(rend_weights))
    BY <1>3, <1>4, SumOfSame
  <2> QED
    BY <1>1, <1>3, <2>1, SumOfExitsAndOthers
<1>6. \A i \in 1..turn : /\ rend_weights[i].of > 0
                         /\ rend_weights[i].of = TotalFor(i)
  <2>1. \A i \in 1..turn : TotalFor(i) \in Nat
    BY <1>1 DEF TotalFor
  <2>2. \A i \in 1..turn : rend_weights[i].of = TotalFor(i) /\ TotalFor(i) # 0
    <3> SUFFICES ASSUME NEW i \in 1..turn
                 PROVE  rend_weights[i].of = TotalFor(i) /\ TotalFor(i) # 0
      OBVIOUS
    <3>1. rend_weights[i] = [part |-> node_weights[i], of |-> TotalFor(i)]
          /\ TotalFor(i) # 0
      BY <1>1
    <3> QED
      BY <3>1
  <2> QED
    BY <2>1, <2>2
<1>7. /\ \A i \in ExitsOf(rend_weights) : TotalFor(i) = exit_total
      /\ \A i \in OthersOf(rend_weights) : TotalFor(i) = weight_total
  BY DEF TotalFor, ExitsOf, OthersOf
<1> QED
  BY <1>2, <1>3, <1>5, <1>6, <1>7 DEF FractionsAddUp, parts

\* The division by zero of xfer_use_counts (rendguard.py:101-105) takes a
\* consensus in which all exits, or all relays that are none, have no weight.
LEMMA NoWeightOfInv == NodeInv => RaisesOnlyForNoWeight
<1> SUFFICES ASSUME NodeInv, phase = "raised" PROVE RaisesOnlyForNoWeight
  BY DEF RaisesOnlyForNoWeight
<1> DEFINE same == IF IsExit(turn + 1) THEN ExitsOf(node_weights) ELSE OthersOf(node_weights)
<1>1. TotalFor(turn + 1) = 0
  BY DEF NodeInv, Divided
<1>2. same \subseteq DOMAIN node_weights
  BY DEF ExitsOf, OthersOf
<1>3. /\ IsFiniteSet(same)
      /\ \A i \in DOMAIN node_weights : node_weights[i] \in Nat
  BY <1>2, WeightsFinite, FS_Subset DEF NodeInv
<1>4. SumOf(node_weights, same) <= 0
  BY <1>1, SumOfExitsAndOthers DEF TotalFor
<1> HIDE DEF same
<1>5. ASSUME NEW i \in same PROVE node_weights[i] = 0
  <2>1. node_weights[i] \in Nat
    BY <1>2, <1>3
  <2>2. SumOf(node_weights, {i}) = node_weights[i]
    BY <2>1, SumOfOne
  <2>3. SumOf(node_weights, {i}) <= SumOf(node_weights, same)
    BY <1>2, <1>3, SumOfSubset
  <2>4. SumOf(node_weights, same) \in Nat
    BY <1>2, <1>3, MarksFinite
  <2> QED
    BY <1>4, <2>1, <2>2, <2>3, <2>4
<1> QED
  BY <1>5 DEF RaisesOnlyForNoWeight, same

\* What xfer_use_counts assigns to relays once it has divided the repaired
\* weights by their totals are probabilities (rendguard.py:100-105): those of
\* exits add up to one, those of the others to at most one. It assigns them
\* unless all exits, or all relays that are none, have no weight.
THEOREM RepairedWeightsAreProbabilities == Spec => []RendWeightsAreProbabilities
<1>1. NodeInv => RendWeightsAreProbabilities
  BY FractionsOfInv, NoWeightOfInv DEF RendWeightsAreProbabilities
<1> QED
  BY NodeInvariant, <1>1, PTL
=============================================================================
