------------------------------ MODULE CbtVerify ------------------------------
(***************************************************************************)
(* The circuit build timeout monitor, src/src/vanguards/cbtverify.py: it   *)
(* follows circuits from LAUNCHED to BUILT, timed out, or closed, and      *)
(* counts them to compare the rate of timeouts with the one Tor reports.   *)
(* Between a RESET and a COMPUTED of Tor's timeout it records nothing.     *)
(*                                                                         *)
(* The side of Tor is the stages its circuits go through, as the comment   *)
(* at cbtverify.py:36-48 lists them; an identifier is used once.           *)
(***************************************************************************)
EXTENDS Integers, FiniteSets, Functions

CONSTANT Circs          \* the circuits Tor may launch

ASSUME CircsAssumption == IsFiniteSet(Circs)

VARIABLES
    stage,              \* Tor: the stage of each circuit
    circuits,           \* id -> is_hs, for the circuits that are followed
    record_timeouts,
    all_launched, all_built, all_timeout,
    hs_launched, hs_built, hs_timeout,
    carried             \* history: the circuits followed at the last RESET

allVars == <<all_launched, all_built, all_timeout>>
hsVars == <<hs_launched, hs_built, hs_timeout>>
vars == <<stage, circuits, record_timeouts, allVars, hsVars, carried>>

Stages == {"new", "launched", "built", "measuring", "failed", "closed"}

Followed == DOMAIN circuits
HsOf(dict) == {c \in DOMAIN dict : dict[c]}

TypeOK ==
    /\ stage \in [Circs -> Stages]
    /\ Followed \subseteq Circs
    /\ circuits \in [Followed -> BOOLEAN]
    /\ record_timeouts \in BOOLEAN
    /\ {all_launched, hs_launched} \subseteq Int
    /\ {all_built, all_timeout, hs_built, hs_timeout} \subseteq Nat
    /\ DOMAIN carried \subseteq Circs
    /\ carried \in [DOMAIN carried -> BOOLEAN]

NoCircuits == [c \in {} |-> FALSE]

ZeroFields ==
    /\ all_launched' = 0 /\ all_built' = 0 /\ all_timeout' = 0
    /\ hs_launched' = 0 /\ hs_built' = 0 /\ hs_timeout' = 0

\* Some circuits exist by the time the listeners are added.
Init ==
    /\ stage \in [Circs -> {"new", "launched", "built"}]
    /\ circuits = NoCircuits
    /\ record_timeouts = TRUE
    /\ all_launched = 0 /\ all_built = 0 /\ all_timeout = 0
    /\ hs_launched = 0 /\ hs_built = 0 /\ hs_timeout = 0
    /\ carried = NoCircuits

-----------------------------------------------------------------------------
\* The methods circ_event may call.

Hs(c, n) == IF circuits[c] THEN n ELSE 0
Forget(c) == circuits' = Restrict(circuits, Followed \ {c})

\* add_circuit
AddCircuit(c, is_hs) ==
    /\ circuits' = [d \in Followed \union {c} |->
                      IF d = c THEN is_hs ELSE circuits[d]]
    /\ all_launched' = all_launched + 1
    /\ hs_launched' = hs_launched + (IF is_hs THEN 1 ELSE 0)
    /\ UNCHANGED <<all_built, all_timeout, hs_built, hs_timeout>>

\* built_circuit
BuiltCircuit(c) ==
    /\ Forget(c)
    /\ all_built' = all_built + 1
    /\ hs_built' = hs_built + Hs(c, 1)
    /\ UNCHANGED <<all_launched, all_timeout, hs_launched, hs_timeout>>

\* Seeded fault: a circuit that closes early still counts as launched.
ClosedCircuitKept(c) ==
    /\ Forget(c)
    /\ UNCHANGED <<allVars, hsVars>>

\* closed_circuit: neither built nor timed out, so it does not count at all.
ClosedCircuit(c) ==
    /\ Forget(c)
    /\ all_launched' = all_launched - 1
    /\ hs_launched' = hs_launched - Hs(c, 1)
    /\ UNCHANGED <<all_built, all_timeout, hs_built, hs_timeout>>

\* timeout_circuit
TimeoutCircuit(c) ==
    /\ Forget(c)
    /\ all_timeout' = all_timeout + 1
    /\ hs_timeout' = hs_timeout + Hs(c, 1)
    /\ UNCHANGED <<all_launched, all_built, hs_launched, hs_built>>

Ignore == UNCHANGED <<circuits, allVars, hsVars>>

\* The methods but for the first do nothing for a circuit that is not
\* followed, and circ_event calls none while timeouts are not recorded.
Recorded(c) == record_timeouts /\ c \in Followed

-----------------------------------------------------------------------------
\* CIRC events: a circuit changes its stage in Tor, circ_event hears of it.

Move(c, from, to) ==
    /\ stage[c] \in from
    /\ stage' = [stage EXCEPT ![c] = to]
    /\ UNCHANGED <<record_timeouts, carried>>

Launched(c, is_hs) ==
    /\ Move(c, {"new"}, "launched")
    /\ IF record_timeouts THEN AddCircuit(c, is_hs) ELSE Ignore

Built(c) ==
    /\ Move(c, {"launched"}, "built")
    /\ IF Recorded(c) THEN BuiltCircuit(c) ELSE Ignore

\* FAILED with REASON=TIMEOUT; Tor goes on with the circuit to measure it. A
\* circuit that was built times out when it is extended.
TimedOut(c) ==
    /\ Move(c, {"launched", "built"}, "measuring")
    /\ IF Recorded(c) THEN TimeoutCircuit(c) ELSE Ignore

\* FAILED or CLOSED for a circuit that is measured: PURPOSE=MEASURE_TIMEOUT.
Measured(c) ==
    /\ \/ Move(c, {"measuring"}, "failed")
       \/ Move(c, {"measuring"}, "closed")
    /\ Ignore

Failed(c) ==
    /\ Move(c, {"launched", "built"}, "failed")
    /\ IF Recorded(c) THEN ClosedCircuit(c) ELSE Ignore

Closed(c) ==
    /\ Move(c, {"launched", "built", "failed"}, "closed")
    /\ IF Recorded(c) THEN ClosedCircuit(c) ELSE Ignore

\* BUILDTIMEOUT_SET events.
Computed ==
    /\ record_timeouts' = TRUE
    /\ UNCHANGED <<stage, circuits, allVars, hsVars, carried>>

\* The circuits stay: only the counters are zeroed.
Reset ==
    /\ record_timeouts' = FALSE
    /\ ZeroFields
    /\ carried' = circuits
    /\ UNCHANGED <<stage, circuits>>

CircEvent(c) ==
    \/ \E is_hs \in BOOLEAN : Launched(c, is_hs)
    \/ Built(c) \/ TimedOut(c) \/ Measured(c) \/ Failed(c) \/ Closed(c)

Next == (\E c \in Circs : CircEvent(c)) \/ Computed \/ Reset

Spec == Init /\ [][Next]_vars

-----------------------------------------------------------------------------
\* Properties.

\* What was launched and neither built nor timed out is what is followed: the
\* counters and the map agree, up to the circuits that were followed before
\* the last RESET and that the zeroed counters no longer know of. A circuit is
\* counted once at most, whatever Tor reports of it and in what order.
Conservation ==
    all_launched - all_built - all_timeout
      = Cardinality(Followed) - Cardinality(DOMAIN carried)

\* The same for the circuits of onion services.
HsConservation ==
    hs_launched - hs_built - hs_timeout
      = Cardinality(HsOf(circuits)) - Cardinality(HsOf(carried))

\* Both: a count of circuits, or of those of onion services, that parts from the
\* map would put every rate wrong from then on.
CountersAgree == Conservation /\ HsConservation

\* As long as no circuit from before the last RESET was resolved, the rate of
\* timeouts is one: no more circuits were built or timed out than launched.
RateSound ==
    DOMAIN carried \subseteq Followed => all_built + all_timeout <= all_launched

\* "Ignore circuits and timeouts between CBT RESET and COMPUTED" (CHANGES.rst:5)
NothingRecordedWhileReset ==
    ~record_timeouts =>
      /\ all_launched = 0 /\ all_built = 0 /\ all_timeout = 0
      /\ hs_launched = 0 /\ hs_built = 0 /\ hs_timeout = 0
=============================================================================
