------------------------------ MODULE RendGuard ------------------------------
(***************************************************************************)
(* The rendezvous-point guard of src/src/vanguards/rendguard.py: it counts *)
(* how often each relay is picked as a rendezvous point of our service,    *)
(* compares the share of each relay with its share of the consensus        *)
(* weight, and asks for the circuit to be closed when a relay is used far  *)
(* more than its bandwidth explains.                                       *)
(*                                                                         *)
(* Floats are replaced by integers: a count is in units of 1/Grain (so     *)
(* that halving stays exact), a weight in units of 1/WeightUnit.           *)
(***************************************************************************)
EXTENDS Integers, FiniteSets, Functions, FiniteSetsExt

CONSTANTS
    Relays,             \* fingerprints of the relays that may ever be listed
    NotInConsensus,     \* _NOT_IN_CONSENSUS_ID
    NoRelay,            \* no circuit had to be closed
    GlobalStart,        \* REND_USE_GLOBAL_START_COUNT
    RelayStart,         \* REND_USE_RELAY_START_COUNT
    ScaleAt,            \* REND_USE_SCALE_AT_COUNT
    MaxRatio,           \* REND_USE_MAX_USE_TO_BW_RATIO
    ChurnWeight,        \* REND_USE_MAX_CONSENSUS_WEIGHT_CHURN / 100
    CloseOnOveruse,     \* REND_USE_CLOSE_CIRCUITS_ON_OVERUSE
    WeightUnit,         \* a weight w stands for the probability w / WeightUnit
    Grain,              \* a count n stands for n / Grain uses
    Consensuses,        \* the consensus documents Tor may have
    MaxUses             \* bound: no use is counted once the total reaches this

Buckets == Relays \union {NotInConsensus}

\* What the handlers read of a consensus: the relays it lists, those the
\* generator for the vanguard layers may pick, and the probability with
\* which a relay is picked as a rendezvous point (0 when the restriction on
\* its flags rules it out). It is not divisible when some of these probabilities
\* are divisions by zero: exit_total or weight_total is 0 (NodeSelection).
Consensus == [listed : SUBSET Relays,
              usable : SUBSET Relays,
              weight : [Relays -> 0..WeightUnit],
              divisible : BOOLEAN]

ASSUME RelaysAssumption ==
    /\ IsFiniteSet(Relays)
    /\ NotInConsensus \notin Relays
    /\ NoRelay \notin Buckets

ASSUME RendConstantsAssumption ==
    /\ {GlobalStart, RelayStart, ScaleAt, MaxRatio, ChurnWeight} \subseteq Nat
    /\ {WeightUnit, Grain} \subseteq Nat \ {0}
    /\ MaxUses \in Nat
    /\ CloseOnOveruse \in BOOLEAN

ASSUME ConsensusesAssumption ==
    /\ Consensuses # {}
    /\ Consensuses \subseteq Consensus
    /\ \A c \in Consensuses : c.usable \subseteq c.listed

VARIABLES
    use_counts,         \* relay -> [used, weight], for the relays we count
    total_use_counts,   \* sum of the used fields
    closed,             \* the relay whose circuit the last event had closed, or
                        \* NoRelay
    halfway             \* history: did the last transfer of the counts fail?

rendVars == <<use_counts, total_use_counts, closed, halfway>>

RendUseCount(used, weight) == [used |-> used, weight |-> weight]

\* The sum of the used fields: a mark for every unit of every count, counted.
\* (A fold says the same and cannot be reasoned about.)
Marks(counts) == UNION {{r} \X (1..counts[r].used) : r \in DOMAIN counts}
SumUsed(counts) == Cardinality(Marks(counts))

\* The shared bucket gets its weight from the options, or has none yet.
WeightsOf(r) == IF r = NotInConsensus THEN {0, ChurnWeight} ELSE 0..WeightUnit

RendTypeOK ==
    /\ DOMAIN use_counts \subseteq Buckets
    /\ \A r \in DOMAIN use_counts :
         use_counts[r] \in [used : Nat, weight : WeightsOf(r)]
    /\ total_use_counts \in Nat
    /\ closed \in Buckets \union {NoRelay}
    /\ halfway \in BOOLEAN

RendInit ==
    /\ use_counts = [r \in {} |-> RendUseCount(0, 0)]
    /\ total_use_counts = 0
    /\ closed = NoRelay
    /\ halfway = FALSE

-----------------------------------------------------------------------------
\* The handler of CIRC events, for a rendezvous circuit that got BUILT.

\* The entry a use of r is counted under: its own while the last consensus we
\* processed lists it, the shared one otherwise.
Bucket(r) == IF r \in DOMAIN use_counts THEN r ELSE NotInConsensus

\* use_counts with an entry for the bucket b: a bucket that is missing starts
\* from 0, and its weight is 0 as well.
WithBucket(b) ==
    IF b \in DOMAIN use_counts THEN use_counts
    ELSE [r \in DOMAIN use_counts \union {b} |->
            IF r = b THEN RendUseCount(0, 0) ELSE use_counts[r]]

\* The test of valid_rend_use, on the counts after the increment.
Overused(counts, total, b) ==
    /\ total >= GlobalStart * Grain
    /\ counts[b].used >= RelayStart * Grain
    /\ counts[b].used * WeightUnit > counts[b].weight * MaxRatio * total

\* A HS_SERVICE_REND circuit to r is BUILT while HSSR_CONNECTING.
RendCircEvent(r) ==
    LET b == Bucket(r)
        counts == [WithBucket(b) EXCEPT ![b].used = @ + Grain]
        total == total_use_counts + Grain
    IN  /\ total_use_counts < MaxUses * Grain
        /\ use_counts' = counts
        /\ total_use_counts' = total
        /\ closed' = IF Overused(counts, total, b) /\ CloseOnOveruse
                     THEN r ELSE NoRelay
        /\ UNCHANGED halfway

-----------------------------------------------------------------------------
\* xfer_use_counts, called at the end of every consensus update.

Scaling == total_use_counts >= ScaleAt * Grain

\* Bound: TLC does not go on from a state in which a halving would not be exact
\* in units of 1/Grain (the division of the code is on floats).
Halvable == Scaling => \A r \in DOMAIN use_counts : use_counts[r].used % 2 = 0

\* Seeded fault: the halving is applied twice.
CarriedQuarter(r) ==
    IF r \notin DOMAIN use_counts THEN 0
    ELSE IF Scaling THEN use_counts[r].used \div 4 ELSE use_counts[r].used

\* The count that relay r takes along into the next consensus.
Carried(r) ==
    IF r \notin DOMAIN use_counts THEN 0
    ELSE IF Scaling THEN use_counts[r].used \div 2 ELSE use_counts[r].used

\* Seeded fault: the churn rate is taken for a fraction, it is a percentage.
TransferredPercent(c) ==
    [r \in c.listed \union {NotInConsensus} |->
        RendUseCount(Carried(r), IF r = NotInConsensus THEN 100 * ChurnWeight
                                 ELSE c.weight[r])]

\* The new table for consensus c: the relays c lists and the shared bucket,
\* each with its new weight; counts of relays that are no longer listed go.
Transferred(c) ==
    [r \in c.listed \union {NotInConsensus} |->
        RendUseCount(Carried(r),
                     IF r = NotInConsensus THEN ChurnWeight ELSE c.weight[r])]

\* The end of a transfer that gets through.
XferEnds == closed' = NoRelay /\ halfway' = FALSE

\* Seeded fault: the total is halved along with the counts instead of being
\* summed again, so that it keeps the uses of the relays that left.
XferKeepsTotal(c) ==
    /\ c.divisible
    /\ use_counts' = Transferred(c)
    /\ total_use_counts' = IF Scaling THEN total_use_counts \div 2
                           ELSE total_use_counts
    /\ XferEnds

\* Seeded fault: the counts are halved but for the shared bucket.
XferSharedUnscaled(c) ==
    LET counts == [Transferred(c) EXCEPT ![NotInConsensus].used =
                     IF NotInConsensus \in DOMAIN use_counts
                     THEN use_counts[NotInConsensus].used ELSE 0]
    IN  /\ c.divisible
        /\ use_counts' = counts
        /\ total_use_counts' = SumUsed(counts)
        /\ XferEnds

\* Seeded fault: a relay that left the consensus leaves its count in the
\* shared bucket.
XferPoolsDeparted(c) ==
    LET gone == DOMAIN use_counts \ (c.listed \union {NotInConsensus})
        counts == [Transferred(c) EXCEPT ![NotInConsensus].used =
                     @ + MapThenSumSet(Carried, gone)]
    IN  /\ c.divisible
        /\ use_counts' = counts
        /\ total_use_counts' = SumUsed(counts)
        /\ XferEnds

XferUseCounts(c) ==
    /\ c.divisible
    /\ use_counts' = Transferred(c)
    /\ total_use_counts' = SumUsed(Transferred(c))
    /\ XferEnds

\* A weight cannot be computed: the new table is in place by then, with no uses
\* and with the weights of some relays, and the total is still that of the old.
XferFails(c) ==
    /\ ~c.divisible
    /\ \E weighed \in SUBSET c.listed :
         use_counts' = [r \in c.listed \union {NotInConsensus} |->
                          RendUseCount(0, IF r = NotInConsensus THEN ChurnWeight
                                          ELSE IF r \in weighed THEN c.weight[r]
                                          ELSE 0)]
    /\ closed' = NoRelay /\ halfway' = TRUE
    /\ UNCHANGED total_use_counts

-----------------------------------------------------------------------------
\* The component by itself. The listener for CIRC events is only added after
\* the first consensus was processed (main.py:122-147).
Listening == NotInConsensus \in DOMAIN use_counts

RendNext ==
    \/ \E c \in Consensuses : XferUseCounts(c) \/ XferFails(c)
    \/ Listening /\ \E r \in Relays : RendCircEvent(r)

RendSpec == RendInit /\ [][RendNext]_rendVars

-----------------------------------------------------------------------------
\* Properties.

\* valid_rend_use and xfer_use_counts keep two views of the same thing, the
\* per-relay counts and their total. However uses, consensus changes and
\* halvings interleave, the total is the sum of the counts: otherwise every
\* rate computed later is off. Only a transfer that fails leaves a total that is
\* too large, and only until the next that gets through.
TotalIsSum ==
    IF halfway THEN total_use_counts >= SumUsed(use_counts)
    ELSE total_use_counts = SumUsed(use_counts)

\* A halving keeps the evidence: for two buckets that the new consensus still
\* has, the ratio of their counts after xfer_use_counts is the one before.
SharesKept ==
    [][\A c \in Consensuses : XferUseCounts(c) =>
         \A r, s \in DOMAIN use_counts \intersect DOMAIN use_counts' :
            use_counts[r].used * use_counts'[s].used
              = use_counts[s].used * use_counts'[r].used]_rendVars

\* Once enough uses are counted for the check to be armed, a halving alone
\* must not disarm it: only the departure of counted relays, or a transfer that
\* failed, may bring the total below REND_USE_GLOBAL_START_COUNT.
Armed == total_use_counts >= GlobalStart * Grain
StaysArmed ==
    [][\A c \in Consensuses :
         (/\ XferUseCounts(c)
          /\ Armed /\ ~halfway
          /\ \A r \in DOMAIN use_counts \ DOMAIN use_counts' :
                use_counts[r].used = 0)
         => Armed']_rendVars
=============================================================================
