--------------------------- MODULE RendGuardProofs ---------------------------
(***************************************************************************)
(* Proofs about RendGuard, for any relays, consensus documents and limits: *)
(* the total is the sum of the counts, and what a halving leaves as it is. *)
(***************************************************************************)
EXTENDS RendGuard, FiniteSetTheorems, TLAPS

LEMMA RendNumbers ==
    /\ {GlobalStart, RelayStart, ScaleAt, ChurnWeight, MaxUses} \subseteq Nat
    /\ Grain \in Nat \ {0} /\ WeightUnit \in Nat
BY RendConstantsAssumption

LEMMA BucketsFinite == IsFiniteSet(Buckets)
<1>1. IsFiniteSet(Relays) /\ IsFiniteSet({NotInConsensus})
  BY RelaysAssumption, FS_Singleton
<1> QED
  BY <1>1, FS_Union DEF Buckets

\* Tables of counts, as far as their sum is concerned.
Counts(counts) ==
    /\ DOMAIN counts \subseteq Buckets
    /\ \A r \in DOMAIN counts : counts[r].used \in Nat

LEMMA MarksOf ==
    ASSUME NEW counts, NEW r, NEW n
    PROVE  <<r, n>> \in Marks(counts)
             <=> r \in DOMAIN counts /\ n \in 1..counts[r].used
BY DEF Marks

LEMMA MarksFinite ==
    ASSUME NEW counts, Counts(counts)
    PROVE  IsFiniteSet(Marks(counts)) /\ SumUsed(counts) \in Nat
<1> DEFINE parts == {{r} \X (1..counts[r].used) : r \in DOMAIN counts}
<1>1. IsFiniteSet(DOMAIN counts)
  BY BucketsFinite, FS_Subset DEF Counts
<1>2. IsFiniteSet(parts)
  <2> DEFINE part == [r \in DOMAIN counts |-> {r} \X (1..counts[r].used)]
  <2>1. part \in Surjection(DOMAIN counts, parts)
    BY DEF Surjection
  <2> HIDE DEF part, parts
  <2> QED
    BY <1>1, <2>1, FS_Surjection
<1>3. \A P \in parts : IsFiniteSet(P)
  <2> SUFFICES ASSUME NEW r \in DOMAIN counts
               PROVE  IsFiniteSet({r} \X (1..counts[r].used))
    OBVIOUS
  <2>1. PICK one, marks : one = {r} /\ marks = 1..counts[r].used
    OBVIOUS
  <2>2. 1 \in Int /\ counts[r].used \in Int
    BY DEF Counts
  <2>3. IsFiniteSet(1..counts[r].used)
    BY <2>2, FS_Interval
  <2>4. IsFiniteSet(one)
    BY <2>1, FS_Singleton
  <2>5. IsFiniteSet(one \X marks)
    BY <2>1, <2>3, <2>4, FS_Product
  <2> QED
    BY <2>1, <2>5
<1>4. IsFiniteSet(Marks(counts))
  BY <1>2, <1>3, FS_UNION DEF Marks
<1> QED
  BY <1>4, FS_CardinalityType DEF SumUsed

\* One count that grows by n makes the sum grow by n.
LEMMA SumUsedMore ==
    ASSUME NEW old, NEW new, NEW b \in Buckets, NEW n \in Nat,
           Counts(old),
           DOMAIN new = DOMAIN old \union {b},
           \A r \in DOMAIN old \ {b} : new[r].used = old[r].used,
           new[b].used = n + (IF b \in DOMAIN old THEN old[b].used ELSE 0)
    PROVE  SumUsed(new) = SumUsed(old) + n
<1>1. PICK was \in Nat : was = IF b \in DOMAIN old THEN old[b].used ELSE 0
  BY DEF Counts
<1> DEFINE more == {b} \X (was + 1 .. was + n)
<1>2. Marks(new) = Marks(old) \union more
  <2>1. \A r, k : <<r, k>> \in Marks(new) <=> <<r, k>> \in Marks(old) \union more
    <3> SUFFICES ASSUME NEW r, NEW k
                 PROVE  <<r, k>> \in Marks(new) <=> <<r, k>> \in Marks(old) \union more
      OBVIOUS
    <3>1. CASE r = b
      <4>1. <<r, k>> \in Marks(new) <=> k \in 1..(was + n)
        <5>1. b \in DOMAIN new /\ new[b].used = was + n
          BY <1>1
        <5> QED
          BY <3>1, <5>1, MarksOf
      <4>2. <<r, k>> \in Marks(old) <=> k \in 1..was
        BY <1>1, <3>1, MarksOf
      <4>3. <<r, k>> \in more <=> k \in (was + 1)..(was + n)
        BY <3>1
      <4> QED
        BY <1>1, <4>1, <4>2, <4>3
    <3>2. CASE r # b
      BY <3>2, MarksOf
    <3> QED
      BY <3>1, <3>2
  <2>2. \A m \in Marks(new) : m = <<m[1], m[2]>>
    BY DEF Marks
  <2>3. \A m \in Marks(old) \union more : m = <<m[1], m[2]>>
    BY DEF Marks
  <2> HIDE DEF more
  <2> QED
    BY <2>1, <2>2, <2>3
<1>3. Marks(old) \intersect more = {}
  <2> SUFFICES ASSUME NEW m \in Marks(old), m \in more PROVE FALSE
    OBVIOUS
  <2>1. PICK k \in (was + 1)..(was + n) : m = <<b, k>>
    OBVIOUS
  <2>2. b \in DOMAIN old /\ k \in 1..old[b].used
    BY <2>1, MarksOf
  <2> QED
    BY <1>1, <2>1, <2>2
<1>4. IsFiniteSet(more) /\ Cardinality(more) = n
  <2>1. PICK one, marks : one = {b} /\ marks = (was + 1)..(was + n)
    OBVIOUS
  <2>2. was + 1 \in Int /\ was + n \in Int
    OBVIOUS
  <2>3. /\ IsFiniteSet((was + 1)..(was + n))
        /\ Cardinality((was + 1)..(was + n))
             = IF was + 1 > was + n THEN 0 ELSE (was + n) - (was + 1) + 1
    BY <2>2, FS_Interval
  <2>4. IsFiniteSet(marks) /\ Cardinality(marks) = n
    BY <2>1, <2>3
  <2>5. IsFiniteSet(one) /\ Cardinality(one) = 1
    BY <2>1, FS_Singleton
  <2>6. IsFiniteSet(one \X marks) /\ Cardinality(one \X marks) = 1 * n
    BY <2>4, <2>5, FS_Product
  <2> QED
    BY <2>1, <2>6
<1>5. IsFiniteSet(Marks(old)) /\ SumUsed(old) \in Nat
  BY MarksFinite
<1> HIDE DEF more
<1>6. Cardinality(Marks(old) \union more)
        = Cardinality(Marks(old)) + Cardinality(more)
          - Cardinality(Marks(old) \intersect more)
  BY <1>4, <1>5, FS_Union
<1>7. Cardinality(Marks(old) \intersect more) = 0
  BY <1>3, FS_EmptySet
<1> QED
  BY <1>2, <1>4, <1>5, <1>6, <1>7 DEF SumUsed

-----------------------------------------------------------------------------
(* Types, and the total.                                                   *)

RendInv == RendTypeOK /\ TotalIsSum

LEMMA RendCounts == RendTypeOK => Counts(use_counts)
BY DEF RendTypeOK, Counts

\* A table without entries sums to nothing.
LEMMA NoUses ==
    SumUsed([r \in {} |-> RendUseCount(0, 0)]) = 0
<1>1. Marks([r \in {} |-> RendUseCount(0, 0)]) = {}
  BY DEF Marks
<1> QED
  BY <1>1, FS_EmptySet DEF SumUsed

LEMMA RendInitInv == RendInit => RendInv
<1> SUFFICES ASSUME RendInit PROVE RendInv
  OBVIOUS
<1>1. RendTypeOK
  BY DEF RendInit, RendTypeOK
<1>2. total_use_counts = SumUsed(use_counts) /\ halfway = FALSE
  BY NoUses DEF RendInit
<1> QED
  BY <1>1, <1>2 DEF RendInv, TotalIsSum

LEMMA RendUseInv ==
    ASSUME RendInv, NEW r \in Relays, RendCircEvent(r)
    PROVE  RendInv'
<1> DEFINE b == Bucket(r)
           with == WithBucket(b)
<1> USE RendNumbers DEF RendInv
<1>1. b \in Buckets
  BY DEF Bucket, Buckets
<1>2. /\ DOMAIN with = DOMAIN use_counts \union {b}
      /\ \A s \in DOMAIN use_counts : with[s] = use_counts[s]
      /\ b \notin DOMAIN use_counts => with[b] = RendUseCount(0, 0)
  BY DEF WithBucket
<1>3. \A s \in DOMAIN with : with[s] \in [used : Nat, weight : WeightsOf(s)]
  BY <1>2 DEF RendTypeOK, RendUseCount, WeightsOf
<1>4. use_counts' = [with EXCEPT ![b].used = @ + Grain]
  BY DEF RendCircEvent
<1> HIDE DEF with, b
<1>5. /\ DOMAIN use_counts' = DOMAIN with
      /\ \A s \in DOMAIN with \ {b} : use_counts'[s] = with[s]
  BY <1>4
<1>6. /\ use_counts'[b] \in [used : Nat, weight : WeightsOf(b)]
      /\ use_counts'[b].used = with[b].used + Grain
  <2>1. b \in DOMAIN with
    BY <1>2
  <2>2. use_counts'[b] = [with[b] EXCEPT !.used = @ + Grain]
    BY <1>4, <2>1
  <2> QED
    BY <1>3, <2>1, <2>2
<1>7. RendTypeOK'
  <2>1. total_use_counts' \in Nat
    BY DEF RendCircEvent, RendTypeOK
  <2>2. closed' \in Buckets \union {NoRelay} /\ halfway' \in BOOLEAN
    BY DEF RendCircEvent, Buckets, RendTypeOK
  <2>3. DOMAIN use_counts' \subseteq Buckets
    BY <1>1, <1>2, <1>5 DEF RendTypeOK
  <2>4. \A s \in DOMAIN use_counts' :
          use_counts'[s] \in [used : Nat, weight : WeightsOf(s)]
    BY <1>3, <1>5, <1>6
  <2> QED
    BY <2>1, <2>2, <2>3, <2>4 DEF RendTypeOK
<1>8. SumUsed(use_counts') = SumUsed(use_counts) + Grain
  <2>1. \A s \in DOMAIN use_counts \ {b} : use_counts'[s].used = use_counts[s].used
    BY <1>2, <1>5
  <2>2. use_counts'[b].used
          = Grain + (IF b \in DOMAIN use_counts THEN use_counts[b].used ELSE 0)
    <3>1. with[b].used = IF b \in DOMAIN use_counts THEN use_counts[b].used ELSE 0
      BY <1>2 DEF RendUseCount
    <3>2. with[b].used \in Nat
      BY <1>2, <1>3
    <3> QED
      BY <1>6, <3>1, <3>2
  <2> QED
    BY <1>1, <1>2, <1>5, <2>1, <2>2, RendCounts, SumUsedMore
<1>9. total_use_counts' = total_use_counts + Grain /\ halfway' = halfway
  BY DEF RendCircEvent
<1>10. SumUsed(use_counts) \in Nat /\ total_use_counts \in Nat
  BY RendCounts, MarksFinite DEF RendTypeOK
<1> QED
  BY <1>7, <1>8, <1>9, <1>10 DEF TotalIsSum

\* The table that xfer_use_counts makes is one.
LEMMA TransferredCounts ==
    ASSUME RendTypeOK, NEW c \in Consensuses
    PROVE  /\ DOMAIN Transferred(c) = c.listed \union {NotInConsensus}
           /\ DOMAIN Transferred(c) \subseteq Buckets
           /\ \A r \in DOMAIN Transferred(c) :
                /\ Transferred(c)[r] \in [used : Nat, weight : WeightsOf(r)]
                /\ Transferred(c)[r].used = Carried(r)
<1>1. c.listed \subseteq Relays /\ c.weight \in [Relays -> 0..WeightUnit]
  BY ConsensusesAssumption DEF Consensus
<1>2. \A r : Carried(r) \in Nat
  BY DEF Carried, RendTypeOK
<1>3. NotInConsensus \notin c.listed
  BY <1>1, RelaysAssumption
<1> QED
  BY <1>1, <1>2, <1>3 DEF Transferred, RendUseCount, Buckets, WeightsOf

LEMMA RendXferInv ==
    ASSUME RendInv, NEW c \in Consensuses, XferUseCounts(c)
    PROVE  RendInv'
<1>1. PICK counts : counts = Transferred(c)
  OBVIOUS
<1>2. /\ use_counts' = counts /\ total_use_counts' = SumUsed(counts)
      /\ closed' = NoRelay /\ halfway' = FALSE
  BY <1>1 DEF XferUseCounts, XferEnds
<1>3. /\ DOMAIN counts \subseteq Buckets
      /\ \A r \in DOMAIN counts : counts[r] \in [used : Nat, weight : WeightsOf(r)]
  BY <1>1, TransferredCounts DEF RendInv
<1>4. SumUsed(counts) \in Nat
  BY <1>3, MarksFinite DEF Counts
<1>5. SumUsed(use_counts') = SumUsed(counts)
  BY <1>2
<1> QED
  BY <1>2, <1>3, <1>4, <1>5 DEF RendInv, RendTypeOK, TotalIsSum

\* A transfer that fails leaves a table without uses.
LEMMA RendFailInv ==
    ASSUME RendInv, NEW c \in Consensuses, XferFails(c)
    PROVE  RendInv'
<1>1. c.listed \subseteq Relays /\ c.weight \in [Relays -> 0..WeightUnit]
  BY ConsensusesAssumption DEF Consensus
<1>2. NotInConsensus \notin Relays /\ WeightUnit \in Nat
  BY RelaysAssumption, RendNumbers
<1>3. PICK weighed \in SUBSET c.listed :
        use_counts' = [r \in c.listed \union {NotInConsensus} |->
                         RendUseCount(0, IF r = NotInConsensus THEN ChurnWeight
                                         ELSE IF r \in weighed THEN c.weight[r]
                                         ELSE 0)]
  BY DEF XferFails
<1>4. /\ DOMAIN use_counts' \subseteq Buckets
      /\ \A r \in DOMAIN use_counts' :
           /\ use_counts'[r].used = 0
           /\ use_counts'[r] \in [used : Nat, weight : WeightsOf(r)]
  BY <1>1, <1>2, <1>3 DEF Buckets, RendUseCount, WeightsOf
<1>5. Marks(use_counts') = {}
  BY <1>4 DEF Marks
<1>6. SumUsed(use_counts') = 0
  BY <1>5, FS_EmptySet DEF SumUsed
<1> QED
  BY <1>4, <1>6 DEF XferFails, RendInv, RendTypeOK, TotalIsSum

LEMMA RendStep == RendInv /\ [RendNext]_rendVars => RendInv'
<1> SUFFICES ASSUME RendInv, [RendNext]_rendVars PROVE RendInv'
  OBVIOUS
<1>1. CASE UNCHANGED rendVars
  BY <1>1 DEF rendVars, RendInv, RendTypeOK, TotalIsSum
<1> QED
  BY <1>1, RendUseInv, RendXferInv, RendFailInv DEF RendNext

\* The counts have their types, and the total that every rate is computed with is
\* the sum of the counts, whatever uses, consensus changes and halvings happened,
\* and no less than the sum after a transfer that failed.
THEOREM RendInvariant == RendSpec => [](RendTypeOK /\ TotalIsSum)
<1>1. RendInv => RendTypeOK /\ TotalIsSum
  BY DEF RendInv
<1> QED
  BY <1>1, RendInitInv, RendStep, PTL DEF RendSpec

-----------------------------------------------------------------------------
(* Halvings, as far as they are exact in units of 1 / Grain.               *)

\* What a halving makes of a count, twice, is the count.
LEMMA CarriedExact ==
    ASSUME RendTypeOK, Halvable, NEW r \in DOMAIN use_counts
    PROVE  /\ Carried(r) \in Nat /\ use_counts[r].used \in Nat
           /\ use_counts[r].used = (IF Scaling THEN 2 ELSE 1) * Carried(r)
<1>1. use_counts[r].used \in Nat
  BY DEF RendTypeOK
<1>2. CASE Scaling
  <2>1. use_counts[r].used % 2 = 0
    BY <1>2 DEF Halvable
  <2>2. PICK n \in Nat : n = use_counts[r].used
    BY <1>1
  <2>3. n % 2 = 0 => n = 2 * (n \div 2) /\ n \div 2 \in Nat
    OBVIOUS
  <2> QED
    BY <1>2, <2>1, <2>2, <2>3 DEF Carried
<1>3. CASE ~Scaling
  BY <1>1, <1>3 DEF Carried
<1> QED
  BY <1>2, <1>3

LEMMA SharesStep ==
    ASSUME RendTypeOK, Halvable, NEW c \in Consensuses, XferUseCounts(c)
    PROVE  \A r, s \in DOMAIN use_counts \intersect DOMAIN use_counts' :
             use_counts[r].used * use_counts'[s].used
               = use_counts[s].used * use_counts'[r].used
<1> SUFFICES ASSUME NEW r \in DOMAIN use_counts \intersect DOMAIN use_counts',
                    NEW s \in DOMAIN use_counts \intersect DOMAIN use_counts'
             PROVE  use_counts[r].used * use_counts'[s].used
                      = use_counts[s].used * use_counts'[r].used
  OBVIOUS
<1>1. use_counts' = Transferred(c)
  BY DEF XferUseCounts
<1>2. use_counts'[r].used = Carried(r) /\ use_counts'[s].used = Carried(s)
  BY <1>1, TransferredCounts
<1>3. PICK x, y \in Nat : x = Carried(r) /\ y = Carried(s)
  BY CarriedExact
<1>4. CASE Scaling
  <2>1. use_counts[r].used = 2 * x /\ use_counts[s].used = 2 * y
    BY <1>3, <1>4, CarriedExact
  <2>2. (2 * x) * y = (2 * y) * x
    OBVIOUS
  <2> QED
    BY <1>2, <1>3, <2>1, <2>2
<1>5. CASE ~Scaling
  <2>1. use_counts[r].used = x /\ use_counts[s].used = y
    BY <1>3, <1>5, CarriedExact
  <2>2. x * y = y * x
    OBVIOUS
  <2> QED
    BY <1>2, <1>3, <2>1, <2>2
<1> QED
  BY <1>4, <1>5

\* The division of the code is one of floats: where halving the counts is exact in
\* units of 1 / Grain, as there, a consensus change keeps the ratio of the counts
\* of any two buckets that stay, whether or not it halves them.
THEOREM SharesAlwaysKept == RendSpec /\ []Halvable => SharesKept
<1>1. RendTypeOK /\ Halvable /\ [RendNext]_rendVars =>
        [\A c \in Consensuses : XferUseCounts(c) =>
           \A r, s \in DOMAIN use_counts \intersect DOMAIN use_counts' :
              use_counts[r].used * use_counts'[s].used
                = use_counts[s].used * use_counts'[r].used]_rendVars
  BY SharesStep
<1> QED
  BY <1>1, RendInvariant, PTL DEF RendSpec, SharesKept

\* A table with half of every count: its marks are half as many.
LEMMA HalfSum ==
    ASSUME NEW old, NEW new, Counts(old), Counts(new),
           \A r \in DOMAIN new : r \in DOMAIN old \/ new[r].used = 0,
           \A r \in DOMAIN old : old[r].used = 0 \/ r \in DOMAIN new,
           \A r \in DOMAIN old \intersect DOMAIN new : old[r].used = 2 * new[r].used
    PROVE  SumUsed(old) = 2 * SumUsed(new)
<1>1. PICK M : M = Marks(new)
  OBVIOUS
<1>2. IsFiniteSet(M) /\ Cardinality(M) \in Nat
  BY <1>1, MarksFinite, FS_CardinalityType
<1>3. \A m \in M : /\ m = <<m[1], m[2]>> /\ m[1] \in DOMAIN new
                   /\ m[2] \in 1..new[m[1]].used /\ new[m[1]].used \in Nat
                   /\ m[2] \in Nat \ {0}
  <2> SUFFICES ASSUME NEW m \in M
               PROVE  /\ m = <<m[1], m[2]>> /\ m[1] \in DOMAIN new
                      /\ m[2] \in 1..new[m[1]].used /\ new[m[1]].used \in Nat
                      /\ m[2] \in Nat \ {0}
    OBVIOUS
  <2>1. PICK r \in DOMAIN new : m \in {r} \X (1..new[r].used)
    BY <1>1 DEF Marks
  <2>2. new[r].used \in Nat
    BY DEF Counts
  <2> QED
    BY <2>1, <2>2
<1> DEFINE even == [m \in M |-> <<m[1], 2 * m[2]>>]
           odd == [m \in M |-> <<m[1], 2 * m[2] - 1>>]
           E == {even[m] : m \in M}
           O == {odd[m] : m \in M}
<1>4. even \in Bijection(M, E)
  <2>1. \A m, n \in M : even[m] = even[n] => m = n
    BY <1>3
  <2> HIDE DEF even
  <2>2. even \in [M -> E]
    <3>1. even = [m \in M |-> even[m]]
      BY DEF even
    <3> QED
      BY <3>1
  <2> QED
    BY <2>1, <2>2 DEF Bijection, Injection, Surjection, IsInjective
<1>5. odd \in Bijection(M, O)
  <2>1. \A m, n \in M : odd[m] = odd[n] => m = n
    BY <1>3
  <2> HIDE DEF odd
  <2>2. odd \in [M -> O]
    <3>1. odd = [m \in M |-> odd[m]]
      BY DEF odd
    <3> QED
      BY <3>1
  <2> QED
    BY <2>1, <2>2 DEF Bijection, Injection, Surjection, IsInjective
<1>6. IsFiniteSet(E) /\ Cardinality(E) = Cardinality(M)
  <2>1. ExistsBijection(M, E)
    BY <1>4 DEF ExistsBijection
  <2> HIDE DEF E
  <2> QED
    BY <1>2, <2>1, FS_Bijection
<1>7. IsFiniteSet(O) /\ Cardinality(O) = Cardinality(M)
  <2>1. ExistsBijection(M, O)
    BY <1>5 DEF ExistsBijection
  <2> HIDE DEF O
  <2> QED
    BY <1>2, <2>1, FS_Bijection
<1>8. E \intersect O = {}
  <2> SUFFICES ASSUME NEW m \in M, NEW n \in M, even[m] = odd[n] PROVE FALSE
    OBVIOUS
  <2>1. 2 * m[2] = 2 * n[2] - 1
    OBVIOUS
  <2>2. m[2] \in Nat /\ n[2] \in Nat
    BY <1>3
  <2> QED
    BY <2>1, <2>2
<1>9. Marks(old) \subseteq E \union O
  <2> SUFFICES ASSUME NEW r \in DOMAIN old, NEW k \in 1..old[r].used
               PROVE  <<r, k>> \in E \union O
    BY DEF Marks
  <2>1. old[r].used \in Nat
    BY DEF Counts
  <2>2. r \in DOMAIN new /\ new[r].used \in Nat /\ old[r].used = 2 * new[r].used
    BY <2>1 DEF Counts
  <2>3. PICK h \in 1..new[r].used : k = 2 * h \/ k = 2 * h - 1
    <3>1. PICK h \in Nat : h = (k + 1) \div 2
      OBVIOUS
    <3>2. h \in 1..new[r].used /\ (k = 2 * h \/ k = 2 * h - 1)
      BY <2>1, <2>2, <3>1
    <3> QED
      BY <3>2
  <2>4. <<r, h>> \in M
    BY <1>1, <2>2, MarksOf
  <2>5. even[<<r, h>>] = <<r, 2 * h>> /\ odd[<<r, h>>] = <<r, 2 * h - 1>>
    BY <2>4
  <2>6. even[<<r, h>>] \in E /\ odd[<<r, h>>] \in O
    BY <2>4
  <2> QED
    BY <2>3, <2>5, <2>6
<1>10. E \union O \subseteq Marks(old)
  <2> SUFFICES ASSUME NEW m \in M PROVE even[m] \in Marks(old) /\ odd[m] \in Marks(old)
    OBVIOUS
  <2>1. PICK r, h : /\ m = <<r, h>> /\ r \in DOMAIN new
                    /\ h \in 1..new[r].used /\ new[r].used \in Nat /\ h \in Nat \ {0}
    BY <1>3
  <2>2. r \in DOMAIN old /\ old[r].used = 2 * new[r].used
    BY <2>1
  <2>3. 2 * h \in 1..old[r].used /\ 2 * h - 1 \in 1..old[r].used
    BY <2>1, <2>2
  <2>4. <<r, 2 * h>> \in Marks(old) /\ <<r, 2 * h - 1>> \in Marks(old)
    BY <2>2, <2>3, MarksOf
  <2> QED
    BY <2>1, <2>4
<1> HIDE DEF E, O
<1>11. Cardinality(E \union O) = Cardinality(E) + Cardinality(O)
  <2>1. Cardinality(E \union O)
          = Cardinality(E) + Cardinality(O) - Cardinality(E \intersect O)
    BY <1>6, <1>7, FS_Union
  <2>2. Cardinality(E \intersect O) = 0
    BY <1>8, FS_EmptySet
  <2> QED
    BY <1>2, <1>6, <1>7, <2>1, <2>2
<1>12. Marks(old) = E \union O
  BY <1>9, <1>10
<1> QED
  BY <1>1, <1>2, <1>6, <1>7, <1>11, <1>12 DEF SumUsed

LEMMA ArmedStep ==
    ASSUME ScaleAt >= 2 * GlobalStart,
           RendInv, Halvable, NEW c \in Consensuses, XferUseCounts(c),
           Armed, ~halfway,
           \A r \in DOMAIN use_counts \ DOMAIN use_counts' : use_counts[r].used = 0
    PROVE  Armed'
<1>1. PICK new : new = Transferred(c)
  OBVIOUS
<1>2. use_counts' = new /\ total_use_counts' = SumUsed(new)
  BY <1>1 DEF XferUseCounts
<1>3. /\ Counts(new)
      /\ \A r \in DOMAIN new : new[r].used = Carried(r)
  BY <1>1, TransferredCounts DEF RendInv, Counts
<1>4. Counts(use_counts) /\ total_use_counts = SumUsed(use_counts)
  BY RendCounts DEF RendInv, TotalIsSum
<1>5. PICK floor \in Nat : floor = GlobalStart * Grain
  BY RendNumbers
<1>6. SumUsed(new) \in Nat /\ total_use_counts \in Nat
  BY <1>3, MarksFinite DEF RendInv, RendTypeOK
<1>7. CASE Scaling
  <2>1. SumUsed(use_counts) = 2 * SumUsed(new)
    <3>1. \A r \in DOMAIN new : r \in DOMAIN use_counts \/ new[r].used = 0
      BY <1>3 DEF Carried
    <3>2. \A r \in DOMAIN use_counts : use_counts[r].used = 0 \/ r \in DOMAIN new
      BY <1>2
    <3>3. \A r \in DOMAIN use_counts \intersect DOMAIN new :
            use_counts[r].used = 2 * new[r].used
      BY <1>3, <1>7, CarriedExact DEF RendInv
    <3> QED
      BY <1>3, <1>4, <3>1, <3>2, <3>3, HalfSum
  <2>2. PICK top \in Nat : top = ScaleAt * Grain /\ top >= 2 * floor
    BY <1>5, RendNumbers
  <2>3. 2 * SumUsed(new) >= top
    BY <1>4, <1>7, <2>1, <2>2 DEF Scaling
  <2>4. SumUsed(new) >= floor
    BY <1>6, <2>2, <2>3
  <2> QED
    BY <1>2, <1>5, <2>4 DEF Armed
<1>8. CASE ~Scaling
  <2>1. Marks(use_counts) \subseteq Marks(new)
    <3> SUFFICES ASSUME NEW r \in DOMAIN use_counts, NEW k \in 1..use_counts[r].used
                 PROVE  <<r, k>> \in Marks(new)
      BY DEF Marks
    <3>1. use_counts[r].used # 0
      BY <1>4 DEF Counts
    <3>2. r \in DOMAIN new /\ new[r].used = use_counts[r].used
      BY <1>2, <1>3, <1>8, <3>1 DEF Carried
    <3> QED
      BY <3>2, MarksOf
  <2>2. IsFiniteSet(Marks(new))
    BY <1>3, MarksFinite
  <2>3. SumUsed(use_counts) <= SumUsed(new)
    BY <2>1, <2>2, FS_Subset DEF SumUsed
  <2> QED
    BY <1>2, <1>4, <1>5, <1>6, <2>3 DEF Armed
<1> QED
  BY <1>7, <1>8

\* With a scale count of at least twice the start count (they are 20000 and 1000),
\* a halving never disarms the check: the total stays at the start count or above
\* unless counted relays leave, or the transfer before this one failed.
THEOREM AlwaysStaysArmed ==
    ASSUME ScaleAt >= 2 * GlobalStart
    PROVE  RendSpec /\ []Halvable => StaysArmed
<1>1. RendInv /\ Halvable /\ [RendNext]_rendVars =>
        [\A c \in Consensuses :
           (/\ XferUseCounts(c)
            /\ Armed /\ ~halfway
            /\ \A r \in DOMAIN use_counts \ DOMAIN use_counts' :
                  use_counts[r].used = 0)
           => Armed']_rendVars
  BY ArmedStep
<1> QED
  BY <1>1, RendInitInv, RendStep, PTL DEF RendSpec, StaysArmed
=============================================================================
