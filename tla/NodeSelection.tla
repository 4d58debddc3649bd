---------------------------- MODULE NodeSelection ----------------------------
(***************************************************************************)
(* The choice of relays, src/src/vanguards/NodeSelection.py, as            *)
(* vanguards.py and rendguard.py use it: filter the routers of a consensus *)
(* by flags, weigh them by bandwidth and flags, draw one at random in      *)
(* proportion, and repair the weights of exits for the rendezvous guard,   *)
(* which divides them by their totals (xfer_use_counts of rendguard.py).   *)
(*                                                                         *)
(* Bandwidths and weights are integers here, floats in the code. A draw is *)
(* an integer too: every interval the loop tells apart has one.            *)
(***************************************************************************)
EXTENDS Integers, Sequences, FiniteSets

CONSTANTS
    FlagSets,       \* the sets of flags a router may have
    Bandwidths,     \* the bandwidths it may have, in this order of magnitude
    Unmeasured,     \* stands for measured = None
    BwWeights,      \* the bandwidth-weights lines a consensus may have
    MaxRouters      \* bound: the length of the list of routers

ASSUME BandwidthsAssumption ==
    Bandwidths \subseteq Nat /\ Unmeasured \notin Bandwidths /\ MaxRouters \in Nat

\* The entries that are looked up: for the middle position of a router with
\* both flags, an exit, a guard and neither; for the exit position of an exit
\* that is a guard and one that is not.
WeightsLine == [Wmd : Nat, Wme : Nat, Wmg : Nat, Wmm : Nat, Wed : Nat, Wee : Nat]

ASSUME WeightsAssumption == BwWeights \subseteq WeightsLine

Router == [flags : FlagSets, measured : Bandwidths \union {Unmeasured},
           bandwidth : Bandwidths]

VARIABLES
    routers,        \* get_network_statuses, sorted
    bw_weights,     \* the weights of the same consensus
    mandatory,      \* the flags of the restriction
    phase,          \* new, ready, drawing, yielded, repairing, weighing,
                    \* failed (NoNodesRemain) or raised (ZeroDivisionError)
    rstr_routers, node_weights, weight_total, exit_total,
    choice_val, choose_total, choice_idx,
    turn,           \* i, the turns that a loop over rstr_routers has made
    rend_weights    \* the fractions it assigned: a part of a total

input == <<routers, bw_weights, mandatory>>
generator == <<rstr_routers, node_weights, weight_total, exit_total>>
draw == <<choice_val, choose_total, choice_idx>>
loop == <<turn, rend_weights>>
vars == <<input, phase, generator, draw, loop>>

-----------------------------------------------------------------------------
\* sort_and_index_routers fills in what was not measured ...
Measured(r) == IF r.measured = Unmeasured THEN r.bandwidth ELSE r.measured

\* ... and sorts by it: the fastest router comes first.
Sorted(s) == \A i, j \in 1..Len(s) : i < j => Measured(s[i]) >= Measured(s[j])

\* FlagsRestriction.r_is_ok
IsOk(r) == mandatory \subseteq r.flags /\ "Authority" \notin r.flags

\* flag_to_weight, for the position of middles
MiddleWeight(r) ==
    CASE {"Guard", "Exit"} \subseteq r.flags -> bw_weights.Wmd
      [] "Exit" \in r.flags /\ "Guard" \notin r.flags -> bw_weights.Wme
      [] "Guard" \in r.flags /\ "Exit" \notin r.flags -> bw_weights.Wmg
      [] {"Guard", "Exit"} \intersect r.flags = {} -> bw_weights.Wmm

\* and of exits, which is only asked for exits
ExitWeight(r) == IF "Guard" \in r.flags THEN bw_weights.Wed ELSE bw_weights.Wee

IsExit(i) == "Exit" \in rstr_routers[i].flags

\* The sum of the weights ws[i] for i in S: a mark for every unit, counted.
Marks(ws, S) == UNION {{i} \X (1..ws[i]) : i \in S}
SumOf(ws, S) == Cardinality(Marks(ws, S))

\* The indices in S in their order.
InOrder(S) ==
    CHOOSE at \in [1..Cardinality(S) -> S] : \A j, k \in DOMAIN at : j < k => at[j] < at[k]

-----------------------------------------------------------------------------
Init ==
    /\ routers \in UNION {[1..n -> Router] : n \in 0..MaxRouters}
    /\ Sorted(routers)
    /\ bw_weights \in BwWeights
    /\ mandatory \in {{"Fast", "Stable", "Valid"}, {"Fast", "Valid"}}
    /\ phase = "new"
    /\ rstr_routers = <<>> /\ node_weights = <<>>
    /\ weight_total = 0 /\ exit_total = 0
    /\ choice_val = 0 /\ choose_total = 0 /\ choice_idx = 0
    /\ turn = 0 /\ rend_weights = <<>>

\* The constructor: rebuild and rewind. NoNodesRemain is raised when the
\* restriction leaves nothing.
Construct ==
    LET ok == {i \in DOMAIN routers : IsOk(routers[i])}
        rstr == [k \in 1..Cardinality(ok) |-> routers[InOrder(ok)[k]]]
        ws == [k \in DOMAIN rstr |-> Measured(rstr[k]) * MiddleWeight(rstr[k])]
    IN  /\ phase = "new"
        /\ phase' = IF ok = {} THEN "failed" ELSE "ready"
        /\ rstr_routers' = rstr
        /\ node_weights' = ws
        /\ weight_total' = SumOf(ws, DOMAIN ws)
        /\ UNCHANGED <<input, exit_total, draw, loop>>

\* generate: a new choice_val, uniform in 0..weight_total.
Draw ==
    /\ phase \in {"ready", "yielded"}
    /\ phase' = "drawing"
    /\ choice_val' \in 0..weight_total
    /\ choose_total' = 0 /\ choice_idx' = 0
    /\ UNCHANGED <<input, generator, loop>>

\* Seeded fault: the index moves on before its weight is added.
AccumulateNext ==
    /\ phase = "drawing" /\ choose_total < choice_val
    /\ choice_idx' = choice_idx + 1
    /\ choose_total' = choose_total +
         (IF choice_idx + 2 \in DOMAIN node_weights
          THEN node_weights[choice_idx + 2] ELSE weight_total)
    /\ UNCHANGED <<input, phase, generator, choice_val, loop>>

\* One turn of the loop (indices start at 1 here).
Accumulate ==
    /\ phase = "drawing" /\ choose_total < choice_val
    /\ choose_total' = choose_total + node_weights[choice_idx + 1]
    /\ choice_idx' = choice_idx + 1
    /\ UNCHANGED <<input, phase, generator, choice_val, loop>>

Yield ==
    /\ phase = "drawing" /\ choose_total >= choice_val
    /\ phase' = "yielded"
    /\ UNCHANGED <<input, generator, draw, loop>>

\* The router that is yielded: rstr_routers[choice_idx - 1] of the code, which
\* is the last one when the loop was not entered at all.
Yielded == IF choice_idx = 0 THEN Len(rstr_routers) ELSE choice_idx

-----------------------------------------------------------------------------
\* The weights of rendezvous points: repair_exits, then xfer_use_counts.

More == turn < Len(rstr_routers)

RepairExits ==
    /\ phase = "ready"
    /\ phase' = "repairing"
    /\ exit_total' = 0 /\ turn' = 0
    /\ UNCHANGED <<input, rstr_routers, node_weights, weight_total, draw, rend_weights>>

\* One turn of repair_exits.
RepairNext ==
    LET i == turn + 1
        w == Measured(rstr_routers[i]) * ExitWeight(rstr_routers[i])
    IN  /\ phase = "repairing" /\ More
        /\ turn' = i
        /\ IF IsExit(i)
           THEN /\ node_weights' = [node_weights EXCEPT ![i] = w]
                /\ exit_total' = exit_total + w
           ELSE UNCHANGED <<node_weights, exit_total>>
        /\ UNCHANGED <<input, phase, rstr_routers, weight_total, draw, rend_weights>>

\* xfer_use_counts begins with the weights.
StartXfer ==
    /\ phase = "repairing" /\ ~More
    /\ phase' = "weighing"
    /\ turn' = 0
    /\ UNCHANGED <<input, generator, draw, rend_weights>>

\* Seeded fault: the weight of an exit is divided by the total of all.
TotalForAll(i) == weight_total

\* What the weight of a router is divided by.
TotalFor(i) == IF IsExit(i) THEN exit_total ELSE weight_total

\* One turn of the loop of xfer_use_counts; a total of 0 ends it.
WeighNext ==
    LET i == turn + 1
    IN  /\ phase = "weighing" /\ More
        /\ IF TotalFor(i) = 0
           THEN phase' = "raised" /\ UNCHANGED loop
           ELSE /\ rend_weights' =
                     Append(rend_weights, [part |-> node_weights[i], of |-> TotalFor(i)])
                /\ turn' = i
                /\ UNCHANGED phase
        /\ UNCHANGED <<input, generator, draw>>

Next ==
    \/ Construct \/ Draw \/ Accumulate \/ Yield
    \/ RepairExits \/ RepairNext \/ StartXfer \/ WeighNext

Spec == Init /\ [][Next]_vars

-----------------------------------------------------------------------------
\* The reference: the weights in a row divide 0..weight_total into intervals,
\* and a draw picks the router of the interval it falls into.
Interval(i) == SumOf(node_weights, 1..i-1) + 1 .. SumOf(node_weights, 1..i)

\* The loop computes the reference: it ends within the list, and each router is
\* picked by exactly as many of the draws as its weight says. The draw of 0 is
\* the exception, it yields the last router whatever its weight.
DrawsInProportion ==
    phase = "yielded" /\ choice_val > 0 => choice_val \in Interval(Yielded)

\* The weights are all assigned.
Weighed == phase = "weighing" /\ ~More

ExitsOf(ws) == {i \in DOMAIN ws : IsExit(i)}
OthersOf(ws) == DOMAIN ws \ ExitsOf(ws)

\* The fractions of exits add up to one, those of the others to one at most, and
\* none is of 0.
FractionsAddUp ==
    Weighed =>
      LET parts(S) == SumOf([i \in DOMAIN rend_weights |-> rend_weights[i].part], S)
      IN  /\ DOMAIN rend_weights = DOMAIN rstr_routers
          /\ \A i \in DOMAIN rend_weights : rend_weights[i].of > 0
          /\ \A i \in ExitsOf(rend_weights) :
                parts(ExitsOf(rend_weights)) = rend_weights[i].of
          /\ \A i \in OthersOf(rend_weights) :
                parts(OthersOf(rend_weights)) <= rend_weights[i].of

\* The division by zero of rendguard.py:101-105 takes a consensus in which no
\* exit has any weight, or none of the other relays: one relay with a bandwidth
\* and a weight for its flags is enough for its kind to be weighed.
RaisesOnlyForNoWeight ==
    phase = "raised" =>
      LET same == IF IsExit(turn + 1) THEN ExitsOf(node_weights) ELSE OthersOf(node_weights)
      IN  \A i \in same : node_weights[i] = 0

\* What xfer_use_counts assigns are probabilities (rendguard.py:100-105),
\* although the weights of exits are replaced after the total of all was taken,
\* and it assigns them to every consensus whose relays of each kind have a weight.
RendWeightsAreProbabilities == FractionsAddUp /\ RaisesOnlyForNoWeight
=============================================================================
