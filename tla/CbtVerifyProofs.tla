--------------------------- MODULE CbtVerifyProofs ---------------------------
(***************************************************************************)
(* Proofs about CbtVerify, for any finite set of circuits: the counters    *)
(* and the map of followed circuits agree in every reachable state.        *)
(***************************************************************************)
EXTENDS CbtVerify, FiniteSetTheorems, TLAPS

\* The followed circuits are finitely many, and so are those of the history.
LEMMA FollowedFinite ==
    ASSUME TypeOK
    PROVE  /\ IsFiniteSet(Followed) /\ IsFiniteSet(HsOf(circuits))
           /\ IsFiniteSet(DOMAIN carried) /\ IsFiniteSet(HsOf(carried))
           /\ Cardinality(Followed) \in Nat /\ Cardinality(HsOf(circuits)) \in Nat
           /\ Cardinality(DOMAIN carried) \in Nat /\ Cardinality(HsOf(carried)) \in Nat
<1>1. IsFiniteSet(Followed) /\ IsFiniteSet(DOMAIN carried)
  BY CircsAssumption, FS_Subset DEF TypeOK
<1>2. HsOf(circuits) \subseteq Followed /\ HsOf(carried) \subseteq DOMAIN carried
  BY DEF HsOf, Followed
<1>3. IsFiniteSet(HsOf(circuits)) /\ IsFiniteSet(HsOf(carried))
  BY <1>1, <1>2, FS_Subset
<1> QED
  BY <1>1, <1>3, FS_CardinalityType

\* Following one more circuit.
LEMMA AddSizes ==
    ASSUME TypeOK, NEW c \in Circs, NEW is_hs \in BOOLEAN, c \notin Followed,
           AddCircuit(c, is_hs)
    PROVE  /\ Followed' \subseteq Circs /\ circuits' \in [Followed' -> BOOLEAN]
           /\ Cardinality(Followed') = Cardinality(Followed) + 1
           /\ Cardinality(HsOf(circuits)') =
                Cardinality(HsOf(circuits)) + (IF is_hs THEN 1 ELSE 0)
<1>1. Followed' = Followed \union {c}
  BY DEF AddCircuit, Followed
<1>2. circuits' \in [Followed' -> BOOLEAN] /\ Followed' \subseteq Circs
  BY <1>1 DEF AddCircuit, TypeOK
<1>3. Cardinality(Followed') = Cardinality(Followed) + 1
  BY <1>1, FollowedFinite, FS_AddElement
<1>4. c \notin HsOf(circuits)
  BY DEF HsOf, Followed
<1>5. CASE is_hs
  <2>1. HsOf(circuits)' = HsOf(circuits) \union {c}
    BY <1>1, <1>5 DEF AddCircuit, HsOf, Followed
  <2>2. Cardinality(HsOf(circuits)') = Cardinality(HsOf(circuits)) + 1
    BY <1>4, <2>1, FollowedFinite, FS_AddElement
  <2> QED
    BY <1>2, <1>3, <1>5, <2>2
<1>6. CASE ~is_hs
  <2>1. HsOf(circuits)' = HsOf(circuits)
    BY <1>1, <1>6 DEF AddCircuit, HsOf, Followed
  <2> QED
    BY <1>2, <1>3, <1>6, <2>1, FollowedFinite
<1> QED
  BY <1>5, <1>6

\* Forgetting a circuit that was followed.
LEMMA ForgetSizes ==
    ASSUME TypeOK, NEW c \in Followed, Forget(c)
    PROVE  /\ Followed' \subseteq Circs /\ circuits' \in [Followed' -> BOOLEAN]
           /\ Cardinality(Followed') = Cardinality(Followed) - 1
           /\ Cardinality(HsOf(circuits)') = Cardinality(HsOf(circuits)) - Hs(c, 1)
<1>1. Followed' = Followed \ {c} /\ \A d \in Followed' : circuits'[d] = circuits[d]
  BY DEF Forget, Restrict, Followed
<1>2. circuits' = [d \in Followed \ {c} |-> circuits[d]]
  BY DEF Forget, Restrict
<1>3. circuits' \in [Followed' -> BOOLEAN] /\ Followed' \subseteq Circs
  BY <1>1, <1>2 DEF TypeOK
<1>4. Cardinality(Followed') = Cardinality(Followed) - 1
  BY <1>1, FollowedFinite, FS_RemoveElement
<1>5. HsOf(circuits)' = HsOf(circuits) \ {c}
  BY <1>1 DEF HsOf, Followed
<1>6. c \in HsOf(circuits) <=> circuits[c]
  BY DEF HsOf, Followed
<1>7. Cardinality(HsOf(circuits)') = Cardinality(HsOf(circuits)) - Hs(c, 1)
  <2>1. CASE circuits[c]
    <3>1. Cardinality(HsOf(circuits)') = Cardinality(HsOf(circuits)) - 1
      BY <1>5, <1>6, <2>1, FollowedFinite, FS_RemoveElement
    <3> QED
      BY <2>1, <3>1 DEF Hs
  <2>2. CASE ~circuits[c]
    <3>1. HsOf(circuits)' = HsOf(circuits)
      BY <1>5, <1>6, <2>2
    <3> QED
      BY <2>2, <3>1, FollowedFinite DEF Hs
  <2> QED
    BY <2>1, <2>2
<1> QED
  BY <1>3, <1>4, <1>7

-----------------------------------------------------------------------------
\* The invariant: a circuit Tor has not launched is not followed, so that an
\* identifier enters the map once.
NewUnfollowed == \A c \in Circs : stage[c] = "new" => c \notin Followed

Inv == TypeOK /\ NewUnfollowed /\ Conservation /\ HsConservation
              /\ NothingRecordedWhileReset

LEMMA InvInit == Init => Inv
<1> SUFFICES ASSUME Init PROVE Inv
  OBVIOUS
<1>1. DOMAIN circuits = {} /\ DOMAIN carried = {}
  BY DEF Init, NoCircuits
<1>2. HsOf(circuits) = {} /\ HsOf(carried) = {}
  BY <1>1 DEF HsOf
<1>3. TypeOK
  BY <1>1 DEF Init, TypeOK, NoCircuits, Stages, Followed
<1> QED
  BY <1>1, <1>2, <1>3, FS_EmptySet
  DEF Init, Inv, NewUnfollowed, Conservation, HsConservation,
      NothingRecordedWhileReset, Followed

\* A step that changes neither map nor counters.
LEMMA IgnoreStep ==
    ASSUME Inv, NEW c \in Circs, NEW from, NEW to \in Stages \ {"new"},
           Move(c, from, to), Ignore
    PROVE  Inv'
<1>1. Followed' = Followed /\ HsOf(circuits)' = HsOf(circuits)
      /\ HsOf(carried)' = HsOf(carried)
  BY DEF Ignore, Move, Followed, HsOf
<1>2. TypeOK'
  BY <1>1 DEF Inv, TypeOK, Ignore, Move, allVars, hsVars
<1>3. NewUnfollowed'
  BY <1>1 DEF Inv, NewUnfollowed, TypeOK, Move
<1> QED
  BY <1>1, <1>2, <1>3
  DEF Inv, Conservation, HsConservation, NothingRecordedWhileReset, Ignore, Move,
      allVars, hsVars

LEMMA LaunchedStep ==
    ASSUME Inv, NEW c \in Circs, NEW is_hs \in BOOLEAN, record_timeouts,
           Move(c, {"new"}, "launched"), AddCircuit(c, is_hs)
    PROVE  Inv'
<1>1. c \notin Followed
  BY DEF Inv, NewUnfollowed, Move
<1>2. TypeOK
  BY DEF Inv
<1>3. /\ Followed' \subseteq Circs /\ circuits' \in [Followed' -> BOOLEAN]
      /\ Cardinality(Followed') = Cardinality(Followed) + 1
      /\ Cardinality(HsOf(circuits)') =
           Cardinality(HsOf(circuits)) + (IF is_hs THEN 1 ELSE 0)
  BY <1>1, <1>2, AddSizes
<1>4. carried' = carried /\ record_timeouts' = record_timeouts
      /\ HsOf(carried)' = HsOf(carried)
  BY DEF Move, HsOf
<1>5. TypeOK'
  BY <1>2, <1>3, <1>4 DEF TypeOK, AddCircuit, Move, Stages
<1>6. NewUnfollowed'
  BY <1>2 DEF Inv, NewUnfollowed, TypeOK, Move, AddCircuit, Followed
<1>7. Conservation' /\ HsConservation'
  BY <1>2, <1>3, <1>4, FollowedFinite
  DEF Inv, Conservation, HsConservation, AddCircuit, TypeOK
<1> QED
  BY <1>4, <1>5, <1>6, <1>7 DEF Inv, NothingRecordedWhileReset

\* A followed circuit is built, times out, or closes.
LEMMA ResolvedStep ==
    ASSUME Inv, NEW c \in Circs, NEW from, NEW to \in Stages \ {"new"},
           Move(c, from, to), Recorded(c),
           BuiltCircuit(c) \/ TimeoutCircuit(c) \/ ClosedCircuit(c)
    PROVE  Inv'
<1>1. TypeOK /\ c \in Followed /\ record_timeouts
  BY DEF Inv, Recorded
<1>2. Forget(c)
  BY DEF BuiltCircuit, TimeoutCircuit, ClosedCircuit
<1>3. /\ Followed' \subseteq Circs /\ circuits' \in [Followed' -> BOOLEAN]
      /\ Cardinality(Followed') = Cardinality(Followed) - 1
      /\ Cardinality(HsOf(circuits)') = Cardinality(HsOf(circuits)) - Hs(c, 1)
  BY <1>1, <1>2, ForgetSizes
<1>4. carried' = carried /\ record_timeouts' = record_timeouts
      /\ HsOf(carried)' = HsOf(carried)
  BY DEF Move, HsOf
<1>5. Hs(c, 1) \in {0, 1}
  BY DEF Hs
<1>6. TypeOK'
  BY <1>1, <1>3, <1>4, <1>5
  DEF TypeOK, BuiltCircuit, TimeoutCircuit, ClosedCircuit, Move
<1>7. NewUnfollowed'
  BY <1>1, <1>2 DEF Inv, NewUnfollowed, TypeOK, Move, Forget, Restrict, Followed
<1>8. Conservation' /\ HsConservation'
  BY <1>1, <1>3, <1>4, <1>5, FollowedFinite
  DEF Inv, Conservation, HsConservation, TypeOK,
      BuiltCircuit, TimeoutCircuit, ClosedCircuit
<1> QED
  BY <1>1, <1>4, <1>6, <1>7, <1>8 DEF Inv, NothingRecordedWhileReset

LEMMA TimeoutSetStep ==
    ASSUME Inv, Computed \/ Reset
    PROVE  Inv'
<1>1. CASE Computed
  <2>1. Followed' = Followed /\ HsOf(circuits)' = HsOf(circuits)
        /\ HsOf(carried)' = HsOf(carried) /\ carried' = carried
    BY <1>1 DEF Computed, Followed, HsOf
  <2> QED
    BY <1>1, <2>1
    DEF Computed, Inv, TypeOK, NewUnfollowed, Conservation, HsConservation,
        NothingRecordedWhileReset, allVars, hsVars
<1>2. CASE Reset
  <2>1. Followed' = Followed /\ HsOf(circuits)' = HsOf(circuits)
        /\ HsOf(carried)' = HsOf(circuits) /\ DOMAIN carried' = Followed
    BY <1>2 DEF Reset, Followed, HsOf
  <2>2. /\ circuits' = circuits /\ carried' = circuits /\ stage' = stage
        /\ record_timeouts' = FALSE
    BY <1>2 DEF Reset
  <2>3. TypeOK'
    <3>1. /\ DOMAIN carried' \subseteq Circs
          /\ carried' \in [DOMAIN carried' -> BOOLEAN]
      BY <2>2 DEF Inv, TypeOK, Followed
    <3>2. /\ {all_launched, hs_launched}' \subseteq Int
          /\ {all_built, all_timeout, hs_built, hs_timeout}' \subseteq Nat
      BY <1>2 DEF Reset, ZeroFields
    <3>3. Followed' \subseteq Circs /\ circuits' \in [Followed' -> BOOLEAN]
      BY <2>1, <2>2 DEF Inv, TypeOK
    <3> QED
      BY <2>2, <3>1, <3>2, <3>3 DEF Inv, TypeOK
  <2> QED
    BY <1>2, <2>1, <2>2, <2>3, FollowedFinite
    DEF Reset, ZeroFields, Inv, NewUnfollowed, Conservation, HsConservation,
        NothingRecordedWhileReset
<1> QED
  BY <1>1, <1>2

LEMMA InvStep == Inv /\ [Next]_vars => Inv'
<1> SUFFICES ASSUME Inv, [Next]_vars PROVE Inv'
  OBVIOUS
<1>1. ASSUME NEW c \in Circs, CircEvent(c) PROVE Inv'
  <2>1. ASSUME NEW is_hs \in BOOLEAN, Launched(c, is_hs) PROVE Inv'
    BY <2>1, LaunchedStep, IgnoreStep DEF Launched, Stages
  <2>2. CASE Built(c)
    BY <2>2, ResolvedStep, IgnoreStep DEF Built, Stages
  <2>3. CASE TimedOut(c)
    BY <2>3, ResolvedStep, IgnoreStep DEF TimedOut, Stages
  <2>4. CASE Measured(c)
    BY <2>4, IgnoreStep DEF Measured, Stages
  <2>5. CASE Failed(c)
    BY <2>5, ResolvedStep, IgnoreStep DEF Failed, Stages
  <2>6. CASE Closed(c)
    BY <2>6, ResolvedStep, IgnoreStep DEF Closed, Stages
  <2> QED
    BY <1>1, <2>1, <2>2, <2>3, <2>4, <2>5, <2>6 DEF CircEvent
<1>2. CASE UNCHANGED vars
  <2>1. Followed' = Followed /\ HsOf(circuits)' = HsOf(circuits)
        /\ HsOf(carried)' = HsOf(carried)
    BY <1>2 DEF vars, Followed, HsOf
  <2> QED
    BY <1>2, <2>1
    DEF vars, allVars, hsVars, Inv, TypeOK, NewUnfollowed, Conservation,
        HsConservation, NothingRecordedWhileReset
<1> QED
  BY <1>1, <1>2, TimeoutSetStep DEF Next

THEOREM Invariance == Spec => []Inv
BY InvInit, InvStep, PTL DEF Spec

\* The counters are numbers, only all_launched and hs_launched may be negative,
\* and the map is one from circuits to whether they are of an onion service.
THEOREM TypeCorrect == Spec => []TypeOK
<1>1. Inv => TypeOK
  BY DEF Inv
<1> QED
  BY <1>1, Invariance, PTL

\* The counters of all circuits agree with the map, however launches, results
\* and resets interleave.
THEOREM ConservationHolds == Spec => []Conservation
<1>1. Inv => Conservation
  BY DEF Inv
<1> QED
  BY <1>1, Invariance, PTL

\* The counters of the circuits of onion services do.
THEOREM HsConservationHolds == Spec => []HsConservation
<1>1. Inv => HsConservation
  BY DEF Inv
<1> QED
  BY <1>1, Invariance, PTL

\* Both do.
THEOREM CountersNeverPart == Spec => []CountersAgree
<1>1. Inv => CountersAgree
  BY DEF Inv, CountersAgree
<1> QED
  BY <1>1, Invariance, PTL

\* Nothing is counted between RESET and COMPUTED.
THEOREM ResetStopsCounting == Spec => []NothingRecordedWhileReset
<1>1. Inv => NothingRecordedWhileReset
  BY DEF Inv
<1> QED
  BY <1>1, Invariance, PTL

\* The rate of timeouts is at most one until a circuit from before the last
\* RESET is resolved.
THEOREM RateSoundHolds == Spec => []RateSound
<1>1. Inv => RateSound
  <2> SUFFICES ASSUME Inv, DOMAIN carried \subseteq Followed
               PROVE  all_built + all_timeout <= all_launched
    BY DEF RateSound
  <2>1. TypeOK
    BY DEF Inv
  <2>2. Cardinality(DOMAIN carried) <= Cardinality(Followed)
    BY <2>1, FollowedFinite, FS_Subset
  <2> QED
    BY <2>1, <2>2, FollowedFinite DEF Inv, Conservation, TypeOK
<1> QED
  BY <1>1, Invariance, PTL
=============================================================================
