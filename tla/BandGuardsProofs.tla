--------------------------- MODULE BandGuardsProofs ---------------------------
(***************************************************************************)
(* Proofs about BandGuards, for any guards, connections, circuits, kinds   *)
(* of circuits, reports and limits.                                        *)
(***************************************************************************)
EXTENDS BandGuards, FiniteSetTheorems, TLAPS

-----------------------------------------------------------------------------
(* The records of outages.                                                 *)

\* The limits are numbers, and the monitor starts after the epoch.
LEMMA Numbers ==
    /\ MaxTime \in Nat /\ DestroyLag \in Nat
    /\ ConnMaxDisconnected \in Nat /\ CircMaxDisconnected \in Nat
    /\ StartTime \in Nat /\ StartTime > DestroyLag /\ StartTime # Never
<1>1. /\ MaxTime \in Nat /\ DestroyLag \in Nat
      /\ ConnMaxDisconnected \in Nat /\ CircMaxDisconnected \in Nat
  BY BandLimitsAssumption
<1>2. StartTime \in 0..MaxTime /\ StartTime > DestroyLag
  BY BandLimitsAssumption
<1> QED
  BY <1>1, <1>2 DEF Never

\* What the steps need of the clock and the flags.
OutageTypeOK ==
    /\ now \in Nat \ {Never}
    /\ no_conns_since \in Nat /\ no_circs_since \in Nat
    /\ {disconnected_conns, disconnected_circs} \subseteq BOOLEAN

OutageInv == OutageTypeOK /\ OutagesHaveBeginnings

\* The events of connections that are made, and of circuits that work.
LEMMA OutageInit == Init => OutageInv
<1> SUFFICES ASSUME Init PROVE OutageInv
  OBVIOUS
<1>1. now \in Nat \ {Never}
  BY Numbers DEF Init, TorInit
<1>2. DOMAIN live_guard_conns = {} <=> ConnectedIds = {}
  <2>1. ListConns
    BY DEF Init
  <2>2. PICK places : DOMAIN live_guard_conns = {places[i] : i \in ConnectedIds}
    BY <2>1 DEF ListConns
  <2> QED
    BY <2>2
<1> QED
  BY <1>1, <1>2 DEF Init, TorInit, OutageInv, OutageTypeOK, OutagesHaveBeginnings, Never

\* An ORCONN event: the last entry to leave begins an outage, every other entry
\* means that there is none.
LEMMA OutageConns ==
    ASSUME OutageInv, NEW i \in ConnIds,
           \/ \E g \in Guards : ConnLaunched(i, g)
           \/ ConnConnected(i)
           \/ ConnClosed(i)
    PROVE  OutageInv'
<1> USE DEF OutageInv, OutageTypeOK, OutagesHaveBeginnings, connVars, circOutage
<1>1. CASE \E g \in Guards : ConnLaunched(i, g)
  BY <1>1 DEF ConnLaunched
<1>2. CASE ConnConnected(i)
  <2>1. DOMAIN live_guard_conns' = DOMAIN live_guard_conns \union {i}
    BY <1>2 DEF ConnConnected
  <2> QED
    BY <1>2, <2>1 DEF ConnConnected, Never
<1>3. CASE ConnClosed(i)
  <2> DEFINE left == DOMAIN live_guard_conns \ EntryOf(i)
  <2>1. EntryOf(i) # {} => DOMAIN live_guard_conns # {}
    BY DEF EntryOf
  <2>2. DOMAIN live_guard_conns' = left
    BY <1>3 DEF ConnClosed, Restrict
  <2>3. no_conns_since' = IF EntryOf(i) # {} /\ left = {} /\ no_conns_since = Never
                          THEN now ELSE no_conns_since
    BY <1>3 DEF ConnClosed
  <2>4. UNCHANGED <<now, disconnected_conns, no_circs_since, disconnected_circs>>
    BY <1>3 DEF ConnClosed
  <2> QED
    BY <2>1, <2>2, <2>3, <2>4
<1> QED
  BY <1>1, <1>2, <1>3

\* What a CIRC, CIRC_MINOR or CIRC_BW event does to the record of an outage of
\* circuits: nothing, an end, or a beginning at this moment.
LEMMA OutageCircs ==
    ASSUME NEW c \in Circs,
           \/ \E k \in Kinds : CircLaunched(c, k)
           \/ \E g \in Guards : CircExtended(c, g)
           \/ CircBuilt(c)
           \/ \E k \in Kinds \ {tor[c].kind}, b \in BOOLEAN : CircMinor(c, k, b)
           \/ \E failed, remote \in BOOLEAN : CircEnded(c, failed, remote)
           \/ \E report \in Reports : CircBw(c, report)
    PROVE  /\ UNCHANGED <<now, live_guard_conns, no_conns_since, disconnected_conns>>
           /\ \/ UNCHANGED circOutage
              \/ CircuitUse
              \/ no_circs_since = Never /\ no_circs_since' = now
                 /\ UNCHANGED <<disconnected_circs, last_use>>
<1> USE DEF connVars
<1>1. ASSUME NEW k \in Kinds, CircLaunched(c, k)
      PROVE  UNCHANGED <<now, live_guard_conns, no_conns_since, disconnected_conns,
                         circOutage>>
  BY <1>1 DEF CircLaunched
<1>2. ASSUME NEW g \in Guards, CircExtended(c, g)
      PROVE  /\ CircuitUse
             /\ UNCHANGED <<now, live_guard_conns, no_conns_since, disconnected_conns>>
  BY <1>2 DEF CircExtended
<1>3. ASSUME CircBuilt(c)
      PROVE  /\ CircuitUse
             /\ UNCHANGED <<now, live_guard_conns, no_conns_since, disconnected_conns>>
  BY <1>3 DEF CircBuilt
<1>4. ASSUME NEW k \in Kinds, NEW b \in BOOLEAN, CircMinor(c, k, b)
      PROVE  UNCHANGED <<now, live_guard_conns, no_conns_since, disconnected_conns,
                         circOutage>>
  BY <1>4 DEF CircMinor
<1>5. ASSUME NEW failed \in BOOLEAN, NEW remote \in BOOLEAN,
             CircEnded(c, failed, remote)
      PROVE  /\ UNCHANGED <<now, live_guard_conns, no_conns_since,
                            disconnected_conns, disconnected_circs, last_use>>
             /\ \/ UNCHANGED no_circs_since
                \/ no_circs_since = Never /\ no_circs_since' = now
  BY <1>5 DEF CircEnded
<1>6. ASSUME NEW report \in Reports, CircBw(c, report)
      PROVE  /\ CircuitUse
             /\ UNCHANGED <<now, live_guard_conns, no_conns_since, disconnected_conns>>
  BY <1>6 DEF CircBw
<1> QED
  BY <1>1, <1>2, <1>3, <1>4, <1>5, <1>6 DEF circOutage

LEMMA OutageStep == OutageInv /\ [Next]_vars => OutageInv'
<1> SUFFICES ASSUME OutageInv, [Next]_vars PROVE OutageInv'
  OBVIOUS
<1> USE DEF OutageInv, OutageTypeOK, OutagesHaveBeginnings
<1>1. ASSUME NEW i \in ConnIds,
             \/ \E g \in Guards : ConnLaunched(i, g)
             \/ ConnConnected(i)
             \/ ConnClosed(i)
      PROVE  OutageInv'
  BY <1>1, OutageConns
<1>2. ASSUME NEW c \in Circs,
             \/ \E k \in Kinds : CircLaunched(c, k)
             \/ \E g \in Guards : CircExtended(c, g)
             \/ CircBuilt(c)
             \/ \E k \in Kinds \ {tor[c].kind}, b \in BOOLEAN : CircMinor(c, k, b)
             \/ \E failed, remote \in BOOLEAN : CircEnded(c, failed, remote)
             \/ \E report \in Reports : CircBw(c, report)
      PROVE  OutageInv'
  <2>1. /\ UNCHANGED <<now, live_guard_conns, no_conns_since, disconnected_conns>>
        /\ \/ UNCHANGED <<no_circs_since, disconnected_circs>>
           \/ no_circs_since' = Never /\ disconnected_circs' = FALSE
           \/ no_circs_since = Never /\ no_circs_since' = now
              /\ UNCHANGED disconnected_circs
    BY <1>2, OutageCircs DEF CircuitUse, circOutage
  <2>2. OutageTypeOK'
    <3>1. /\ now' \in Nat \ {Never}
          /\ no_conns_since' \in Nat /\ no_circs_since' \in Nat
      BY <2>1 DEF Never
    <3>2. {disconnected_conns, disconnected_circs}' \subseteq BOOLEAN
      BY <2>1
    <3> QED
      BY <3>1, <3>2
  <2>3. OutagesHaveBeginnings'
    BY <2>1 DEF Never
  <2> QED
    BY <2>2, <2>3
<1>3. CASE BwEvent
  BY <1>3 DEF BwEvent, ConnOutage, CircOutage
<1>4. CASE Tick
  BY <1>4 DEF Tick, connVars, circOutage, Never
<1>5. CASE UNCHANGED vars
  BY <1>5 DEF vars, connVars, circOutage
<1> QED
  BY <1>1, <1>2, <1>3, <1>4, <1>5 DEF Next

THEOREM OutageInvariance == Spec => []OutageInv
BY OutageInit, OutageStep, PTL DEF Spec

\* No outage is reported without a beginning, and none has one while a
\* connection is live.
THEOREM BeginningsHold == Spec => []OutagesHaveBeginnings
<1>1. OutageInv => OutagesHaveBeginnings
  BY DEF OutageInv
<1> QED
  BY <1>1, OutageInvariance, PTL

-----------------------------------------------------------------------------
(* The monitor implements two detectors of outages.                        *)

LEMMA ConnDetectorInit == Init => ConnDetector!DetectorInit
BY DEF Init, TorInit, ConnDetector!DetectorInit, ConnDetector!Never, Never

LEMMA CircDetectorInit == Init => CircDetector!DetectorInit
BY DEF Init, TorInit, CircDetector!DetectorInit, CircDetector!Never, Never

\* Every step of the monitor is one of the detector of connections, or none.
LEMMA ConnDetectorStep ==
    OutageInv /\ [Next]_vars => [ConnDetector!DetectorNext]_ConnDetector!detectorVars
<1> SUFFICES ASSUME OutageInv, [Next]_vars
             PROVE  \/ ConnDetector!DetectorNext
                    \/ UNCHANGED <<now, no_conns_since, disconnected_conns>>
  BY DEF ConnDetector!detectorVars
<1> USE DEF connVars, ConnDetector!DetectorNext, ConnDetector!Never, Never
<1>1. ASSUME NEW i \in ConnIds, NEW g \in Guards, ConnLaunched(i, g)
      PROVE  UNCHANGED <<now, no_conns_since, disconnected_conns>>
  BY <1>1 DEF ConnLaunched
<1>2. ASSUME NEW i \in ConnIds, ConnConnected(i) PROVE ConnDetector!End
  BY <1>2 DEF ConnConnected, ConnDetector!End
<1>3. ASSUME NEW i \in ConnIds, ConnClosed(i)
      PROVE  ConnDetector!Begin \/ UNCHANGED <<now, no_conns_since, disconnected_conns>>
  BY <1>3 DEF ConnClosed, ConnDetector!Begin
<1>4. ASSUME NEW c \in Circs,
             \/ \E k \in Kinds : CircLaunched(c, k)
             \/ \E g \in Guards : CircExtended(c, g)
             \/ CircBuilt(c)
             \/ \E k \in Kinds \ {tor[c].kind}, b \in BOOLEAN : CircMinor(c, k, b)
             \/ \E failed, remote \in BOOLEAN : CircEnded(c, failed, remote)
             \/ \E report \in Reports : CircBw(c, report)
      PROVE  UNCHANGED <<now, no_conns_since, disconnected_conns>>
  BY <1>4, OutageCircs
<1>5. CASE BwEvent
  <2>1. UNCHANGED <<now, no_conns_since>>
        /\ disconnected_conns' = (disconnected_conns \/ ConnOutage)
    BY <1>5 DEF BwEvent
  <2>2. CASE ConnOutage
    BY <2>1, <2>2 DEF ConnOutage, ConnDetector!Report
  <2>3. CASE ~ConnOutage
    BY <2>1, <2>3 DEF OutageInv, OutageTypeOK
  <2> QED
    BY <2>2, <2>3
<1>6. CASE Tick
  BY <1>6 DEF Tick, ConnDetector!Pass
<1>7. CASE UNCHANGED vars
  BY <1>7 DEF vars
<1> QED
  BY <1>1, <1>2, <1>3, <1>4, <1>5, <1>6, <1>7 DEF Next

\* An outage of connections begins, is reported, no earlier than the limit, and
\* ends, and nothing else happens to it: the refinement of the detector.
THEOREM ConnOutagesImplemented == Spec => ConnOutagesDetected
BY ConnDetectorInit, ConnDetectorStep, OutageInvariance, PTL
DEF Spec, ConnOutagesDetected, ConnDetector!DetectorSpec

\* The same of the detector of circuits.
LEMMA CircDetectorStep ==
    OutageInv /\ [Next]_vars => [CircDetector!DetectorNext]_CircDetector!detectorVars
<1> SUFFICES ASSUME OutageInv, [Next]_vars
             PROVE  \/ CircDetector!DetectorNext
                    \/ UNCHANGED <<now, no_circs_since, disconnected_circs>>
  BY DEF CircDetector!detectorVars
<1> USE DEF circOutage, CircDetector!DetectorNext, CircDetector!Never, Never
<1>1. ASSUME NEW i \in ConnIds,
             \/ \E g \in Guards : ConnLaunched(i, g)
             \/ ConnConnected(i)
             \/ ConnClosed(i)
      PROVE  UNCHANGED <<now, no_circs_since, disconnected_circs>>
  BY <1>1 DEF ConnLaunched, ConnConnected, ConnClosed
<1>2. ASSUME NEW c \in Circs,
             \/ \E k \in Kinds : CircLaunched(c, k)
             \/ \E g \in Guards : CircExtended(c, g)
             \/ CircBuilt(c)
             \/ \E k \in Kinds \ {tor[c].kind}, b \in BOOLEAN : CircMinor(c, k, b)
             \/ \E failed, remote \in BOOLEAN : CircEnded(c, failed, remote)
             \/ \E report \in Reports : CircBw(c, report)
      PROVE  \/ UNCHANGED <<now, no_circs_since, disconnected_circs>>
             \/ CircDetector!End \/ CircDetector!Begin
  BY <1>2, OutageCircs DEF CircuitUse, CircDetector!End, CircDetector!Begin
<1>3. CASE BwEvent
  <2>1. UNCHANGED <<now, no_circs_since>>
        /\ disconnected_circs' = (disconnected_circs \/ CircOutage)
    BY <1>3 DEF BwEvent
  <2>2. CASE CircOutage
    BY <2>1, <2>2 DEF CircOutage, CircDetector!Report
  <2>3. CASE ~CircOutage
    BY <2>1, <2>3 DEF OutageInv, OutageTypeOK
  <2> QED
    BY <2>2, <2>3
<1>4. CASE Tick
  BY <1>4 DEF Tick, CircDetector!Pass
<1>5. CASE UNCHANGED vars
  BY <1>5 DEF vars
<1> QED
  BY <1>1, <1>2, <1>3, <1>4, <1>5 DEF Next

\* An outage of circuits begins with a circuit that fails, is reported, no
\* earlier than the limit, and ends: the refinement of the other detector.
THEOREM CircOutagesImplemented == Spec => CircOutagesDetected
BY CircDetectorInit, CircDetectorStep, OutageInvariance, PTL
DEF Spec, CircOutagesDetected, CircDetector!DetectorSpec

\* What a detector promises holds of both: a report means an outage that has
\* lasted as long as the limit.
LEMMA DetectorsReal ==
    /\ OutageInv /\ ConnDetector!ReportsAreReal
       /\ [ConnDetector!DetectorNext]_ConnDetector!detectorVars
       => ConnDetector!ReportsAreReal'
    /\ OutageInv /\ CircDetector!ReportsAreReal
       /\ [CircDetector!DetectorNext]_CircDetector!detectorVars
       => CircDetector!ReportsAreReal'
<1> USE Numbers DEF OutageInv, OutageTypeOK
<1>1. ASSUME OutageInv, ConnDetector!ReportsAreReal,
             [ConnDetector!DetectorNext]_ConnDetector!detectorVars
      PROVE  ConnDetector!ReportsAreReal'
  <2> USE DEF ConnDetector!ReportsAreReal, ConnDetector!Never
  <2>1. CASE ConnDetector!Begin \/ ConnDetector!End
    BY <1>1, <2>1 DEF ConnDetector!Begin, ConnDetector!End
  <2>2. CASE ConnDetector!Report
    BY <1>1, <2>2 DEF ConnDetector!Report
  <2>3. CASE ConnDetector!Pass
    BY <1>1, <2>3 DEF ConnDetector!Pass
  <2>4. CASE UNCHANGED ConnDetector!detectorVars
    BY <1>1, <2>4 DEF ConnDetector!detectorVars
  <2> QED
    BY <1>1, <2>1, <2>2, <2>3, <2>4 DEF ConnDetector!DetectorNext
<1>2. ASSUME OutageInv, CircDetector!ReportsAreReal,
             [CircDetector!DetectorNext]_CircDetector!detectorVars
      PROVE  CircDetector!ReportsAreReal'
  <2> USE DEF CircDetector!ReportsAreReal, CircDetector!Never
  <2>1. CASE CircDetector!Begin \/ CircDetector!End
    BY <1>2, <2>1 DEF CircDetector!Begin, CircDetector!End
  <2>2. CASE CircDetector!Report
    BY <1>2, <2>2 DEF CircDetector!Report
  <2>3. CASE CircDetector!Pass
    BY <1>2, <2>3 DEF CircDetector!Pass
  <2>4. CASE UNCHANGED CircDetector!detectorVars
    BY <1>2, <2>4 DEF CircDetector!detectorVars
  <2> QED
    BY <1>2, <2>1, <2>2, <2>3, <2>4 DEF CircDetector!DetectorNext
<1> QED
  BY <1>1, <1>2

\* When an outage is reported, its beginning lies back as long as the limit.
THEOREM ReportsReal ==
    Spec => [](ConnDetector!ReportsAreReal /\ CircDetector!ReportsAreReal)
<1>1. Init => ConnDetector!ReportsAreReal /\ CircDetector!ReportsAreReal
  BY DEF Init, ConnDetector!ReportsAreReal, CircDetector!ReportsAreReal
<1> QED
  BY <1>1, DetectorsReal, ConnDetectorStep, CircDetectorStep, OutageInvariance, PTL
  DEF Spec

-----------------------------------------------------------------------------
(* Outages of circuits.                                                    *)

CircOutageInv ==
    OutageInv /\ last_use \in Nat /\ last_use <= now /\ CircOutageIsReal

LEMMA CircOutageStep == CircOutageInv /\ [Next]_vars => CircOutageInv'
<1> SUFFICES ASSUME CircOutageInv, [Next]_vars PROVE CircOutageInv'
  OBVIOUS
<1>1. OutageInv'
  BY OutageStep DEF CircOutageInv
<1> USE Numbers DEF CircOutageInv, OutageInv, OutageTypeOK, CircOutageIsReal, circOutage
<1>2. ASSUME UNCHANGED <<now, circOutage>> PROVE CircOutageInv'
  BY <1>1, <1>2
<1>3. ASSUME NEW i \in ConnIds,
             \/ \E g \in Guards : ConnLaunched(i, g)
             \/ ConnConnected(i)
             \/ ConnClosed(i)
      PROVE  UNCHANGED <<now, circOutage>>
  BY <1>3 DEF ConnLaunched, ConnConnected, ConnClosed
<1>4. ASSUME NEW c \in Circs,
             \/ \E k \in Kinds : CircLaunched(c, k)
             \/ \E g \in Guards : CircExtended(c, g)
             \/ CircBuilt(c)
             \/ \E k \in Kinds \ {tor[c].kind}, b \in BOOLEAN : CircMinor(c, k, b)
             \/ \E failed, remote \in BOOLEAN : CircEnded(c, failed, remote)
             \/ \E report \in Reports : CircBw(c, report)
      PROVE  CircOutageInv'
  <2>1. CASE UNCHANGED <<now, circOutage>>
    BY <1>2, <2>1
  <2>2. CASE UNCHANGED now /\ CircuitUse
    BY <1>1, <2>2 DEF CircuitUse, Never
  <2>3. CASE /\ no_circs_since = Never /\ no_circs_since' = now
             /\ UNCHANGED <<now, disconnected_circs, last_use>>
    BY <1>1, <2>3
  <2> QED
    BY <1>4, OutageCircs, <2>1, <2>2, <2>3
<1>5. CASE BwEvent
  <2>1. UNCHANGED <<now, no_circs_since, last_use>>
        /\ disconnected_circs' = (disconnected_circs \/ CircOutage)
    BY <1>5 DEF BwEvent
  <2>2. CircOutage => now - last_use >= CircMaxDisconnected
    BY DEF CircOutage
  <2> QED
    BY <1>1, <2>1, <2>2
<1>6. CASE Tick
  BY <1>1, <1>6 DEF Tick
<1>7. CASE UNCHANGED vars
  BY <1>2, <1>7 DEF vars
<1> QED
  BY <1>2, <1>3, <1>4, <1>5, <1>6, <1>7 DEF Next

\* An outage of circuits is reported only when none was built, extended or used
\* for as long as the limit.
THEOREM CircOutagesReal == Spec => []CircOutageIsReal
<1>1. Init => CircOutageInv
  BY OutageInit, Numbers DEF Init, TorInit, CircOutageInv, CircOutageIsReal, Never
<1>2. CircOutageInv => CircOutageIsReal
  BY DEF CircOutageInv
<1> QED
  BY <1>1, <1>2, CircOutageStep, PTL DEF Spec

-----------------------------------------------------------------------------
(* Connections that are closed under a live circuit.                       *)

\* The records of guards, and the connections they are made for.
GuardsTypeOK ==
    /\ now \in Nat /\ now > DestroyLag
    /\ conn \in [ConnIds -> [guard : Guards \union {NoGuard},
                             status : {"none", "launched", "connected", "gone"}]]
    /\ \A i \in ConnIds : conn[i].status # "none" => conn[i].guard \in Guards
    /\ DOMAIN guards \subseteq Guards
    /\ guards \in [DOMAIN guards -> [killed_conns : Nat, killed_conn_at : Nat]]
    /\ closures \in [Guards -> Nat]

KillInv == GuardsTypeOK /\ KilledOncePerClosure

LEMMA KillInit == Init => KillInv
<1> SUFFICES ASSUME Init PROVE KillInv
  OBVIOUS
<1>1. conn \in [ConnIds -> {NoConn} \union
                   [guard : Guards, status : {"launched", "connected"}]]
  BY DEF Init, TorInit
<1>2. now \in Nat /\ now > DestroyLag /\ closures = [g \in Guards |-> 0]
  BY Numbers DEF Init, TorInit
<1>3. guards = [g \in {conn[i].guard : i \in Started} |-> BwGuardStat]
  BY DEF Init
<1>4. {conn[i].guard : i \in Started} \subseteq Guards
  BY <1>1 DEF Started
<1>5. BwGuardStat \in [killed_conns : Nat, killed_conn_at : Nat]
  BY DEF BwGuardStat, Never
<1>6. GuardsTypeOK
  <2>1. \A i \in ConnIds : conn[i].status # "none" => conn[i].guard \in Guards
    BY <1>1 DEF NoConn
  <2>2. conn \in [ConnIds -> [guard : Guards \union {NoGuard},
                             status : {"none", "launched", "connected", "gone"}]]
    BY <1>1 DEF NoConn
  <2> QED
    BY <1>2, <1>3, <1>4, <1>5, <2>1, <2>2 DEF GuardsTypeOK
<1>7. KilledOncePerClosure
  BY <1>2, <1>3, <1>4, Numbers DEF KilledOncePerClosure, BwGuardStat, Never
<1> QED
  BY <1>6, <1>7 DEF KillInv

\* A record that is made for an event of guard g counts nothing yet.
LEMMA WithGuardKills ==
    ASSUME KillInv, NEW g \in Guards
    PROVE  /\ DOMAIN WithGuard(g) = DOMAIN guards \union {g}
           /\ \A h \in DOMAIN WithGuard(g) :
                /\ WithGuard(g)[h] \in [killed_conns : Nat, killed_conn_at : Nat]
                /\ WithGuard(g)[h].killed_conns
                     + (IF now - WithGuard(g)[h].killed_conn_at <= DestroyLag
                        THEN 1 ELSE 0) <= closures[h]
<1>1. DOMAIN WithGuard(g) = DOMAIN guards \union {g}
  BY DEF WithGuard
<1>2. ASSUME NEW h \in DOMAIN guards
      PROVE  WithGuard(g)[h] = guards[h]
  BY DEF WithGuard
<1>3. ASSUME NEW h, h = g, h \notin DOMAIN guards
      PROVE  WithGuard(g)[h] = [killed_conns |-> 0, killed_conn_at |-> 0]
  BY <1>3 DEF WithGuard, BwGuardStat, Never
<1>4. \A h \in DOMAIN guards :
        /\ guards[h] \in [killed_conns : Nat, killed_conn_at : Nat]
        /\ guards[h].killed_conns
             + (IF now - guards[h].killed_conn_at <= DestroyLag THEN 1 ELSE 0)
             <= closures[h]
  BY DEF KillInv, GuardsTypeOK, KilledOncePerClosure
<1>5. now \in Nat /\ now > DestroyLag /\ closures[g] \in Nat
  BY DEF KillInv, GuardsTypeOK
<1> QED
  BY <1>1, <1>2, <1>3, <1>4, <1>5, Numbers

LEMMA KillConns ==
    ASSUME KillInv, NEW i \in ConnIds,
           \/ \E g \in Guards : ConnLaunched(i, g)
           \/ ConnConnected(i)
           \/ ConnClosed(i)
    PROVE  KillInv'
<1>1. ASSUME NEW g \in Guards, guards' = WithGuard(g), UNCHANGED <<now, closures>>
      PROVE  /\ DOMAIN guards' \subseteq Guards
             /\ guards' \in [DOMAIN guards' -> [killed_conns : Nat, killed_conn_at : Nat]]
             /\ KilledOncePerClosure'
  <2>1. guards' = [h \in DOMAIN guards' |-> guards'[h]]
    BY <1>1 DEF WithGuard
  <2>2. \A h \in DOMAIN guards' :
          guards'[h] \in [killed_conns : Nat, killed_conn_at : Nat]
    BY <1>1, WithGuardKills
  <2>3. KilledOncePerClosure'
    BY <1>1, WithGuardKills DEF KilledOncePerClosure
  <2>4. DOMAIN guards' \subseteq Guards
    <3>1. DOMAIN guards \subseteq Guards
      BY DEF KillInv, GuardsTypeOK
    <3>2. DOMAIN guards' = DOMAIN guards \union {g}
      BY <1>1 DEF WithGuard
    <3> QED
      BY <3>1, <3>2
  <2> QED
    BY <2>1, <2>2, <2>3, <2>4
<1>2. ASSUME NEW g \in Guards, ConnLaunched(i, g) PROVE KillInv'
  <2>1. guards' = WithGuard(g) /\ UNCHANGED <<now, closures>>
    BY <1>2 DEF ConnLaunched, connHistory
  <2>2. conn' = [conn EXCEPT ![i] = [guard |-> g, status |-> "launched"]]
    BY <1>2 DEF ConnLaunched
  <2> QED
    BY <1>1, <2>1, <2>2 DEF KillInv, GuardsTypeOK
<1>3. CASE ConnConnected(i)
  <2>1. conn[i].guard \in Guards
    BY <1>3 DEF ConnConnected, KillInv, GuardsTypeOK
  <2>2. guards' = WithGuard(conn[i].guard) /\ UNCHANGED <<now, closures>>
    BY <1>3 DEF ConnConnected, connHistory
  <2>3. conn' = [conn EXCEPT ![i].status = "connected"]
    BY <1>3 DEF ConnConnected
  <2> QED
    BY <1>1, <2>1, <2>2, <2>3 DEF KillInv, GuardsTypeOK
<1>4. CASE ConnClosed(i)
  <2> DEFINE g == conn[i].guard
             old == WithGuard(g)
             hit == {live_guard_conns[e] : e \in EntryOf(i)}
  <2>1. g \in Guards
    BY <1>4 DEF ConnClosed, KillInv, GuardsTypeOK
  <2>2. PICK S \in SUBSET hit :
          guards' = [h \in DOMAIN old |->
                       IF h \in S THEN [old[h] EXCEPT !.killed_conn_at = now]
                       ELSE old[h]]
    <3> DEFINE marked == IF EntryOf(i) = {} THEN {}
                         ELSE {c \in Known : circs[c].in_use /\ circs[c].guard_fp = g}
    <3>1. guards' = [h \in DOMAIN old |->
                       IF h \in hit /\ marked # {}
                       THEN [old[h] EXCEPT !.killed_conn_at = now] ELSE old[h]]
      BY <1>4 DEF ConnClosed
    <3> HIDE DEF hit, old, marked
    <3>2. CASE marked # {}
      BY <3>1, <3>2
    <3>3. CASE marked = {}
      BY <3>1, <3>3
    <3> QED
      BY <3>2, <3>3
  <2>3. closures' = [h \in Guards |-> closures[h] + (IF h \in hit THEN 1 ELSE 0)]
        /\ now' = now
    BY <1>4 DEF ConnClosed
  <2>4. conn' = [conn EXCEPT ![i].status = "gone"]
    BY <1>4 DEF ConnClosed
  <2>5. /\ DOMAIN old \subseteq Guards
        /\ \A h \in DOMAIN old :
             /\ old[h] \in [killed_conns : Nat, killed_conn_at : Nat]
             /\ old[h].killed_conns
                  + (IF now - old[h].killed_conn_at <= DestroyLag THEN 1 ELSE 0)
                  <= closures[h]
    <3>1. DOMAIN guards \subseteq Guards
      BY DEF KillInv, GuardsTypeOK
    <3> QED
      BY <2>1, <3>1, WithGuardKills
  <2>6. now \in Nat /\ closures \in [Guards -> Nat]
    BY DEF KillInv, GuardsTypeOK
  <2> HIDE DEF hit, old
  <2>7. /\ DOMAIN guards' = DOMAIN old
        /\ \A h \in DOMAIN guards' :
             guards'[h] \in [killed_conns : Nat, killed_conn_at : Nat]
    BY <2>2, <2>5, <2>6
  <2>8. KilledOncePerClosure'
    <3> SUFFICES ASSUME NEW h \in DOMAIN guards'
                 PROVE  guards'[h].killed_conns
                          + (IF now - guards'[h].killed_conn_at <= DestroyLag
                             THEN 1 ELSE 0) <= closures'[h]
      BY <2>3 DEF KilledOncePerClosure
    <3>1. CASE h \in S
      <4>1. guards'[h].killed_conns = old[h].killed_conns
        BY <2>2, <2>5, <2>7, <3>1
      <4>2. closures'[h] = closures[h] + 1 /\ old[h].killed_conns <= closures[h]
            /\ closures[h] \in Nat /\ old[h].killed_conns \in Nat
        BY <2>2, <2>3, <2>5, <2>6, <2>7, <3>1
      <4> QED
        BY <4>1, <4>2
    <3>2. CASE h \notin S
      <4>1. guards'[h] = old[h]
        BY <2>2, <2>7, <3>2
      <4>2. closures'[h] \in {closures[h], closures[h] + 1} /\ closures[h] \in Nat
            /\ old[h].killed_conns \in Nat
        BY <2>3, <2>5, <2>6, <2>7
      <4> QED
        BY <2>5, <2>7, <4>1, <4>2
    <3> QED
      BY <3>1, <3>2
  <2>9. closures' \in [Guards -> Nat]
    BY <2>3, <2>6
  <2>10. guards' \in [DOMAIN guards' -> [killed_conns : Nat, killed_conn_at : Nat]]
    <3>1. guards' = [h \in DOMAIN guards' |-> guards'[h]]
      BY <2>2
    <3> QED
      BY <2>7, <3>1
  <2>11. /\ conn' \in [ConnIds -> [guard : Guards \union {NoGuard},
                         status : {"none", "launched", "connected", "gone"}]]
         /\ \A j \in ConnIds : conn'[j].status # "none" => conn'[j].guard \in Guards
    BY <2>1, <2>4 DEF KillInv, GuardsTypeOK
  <2>12. now' \in Nat /\ now' > DestroyLag
    BY <2>3 DEF KillInv, GuardsTypeOK
  <2>13. DOMAIN guards' \subseteq Guards
    BY <2>5, <2>7
  <2> QED
    BY <2>8, <2>9, <2>10, <2>11, <2>12, <2>13 DEF KillInv, GuardsTypeOK
<1> QED
  BY <1>2, <1>3, <1>4

\* A circuit that dies takes the closure with it when it is counted.
LEMMA KillDestroyed ==
    ASSUME KillInv, NEW g
    PROVE  LET after == CircuitDestroyed(g)
           IN  /\ DOMAIN after = DOMAIN guards
               /\ after \in [DOMAIN guards -> [killed_conns : Nat, killed_conn_at : Nat]]
               /\ \A h \in DOMAIN guards :
                    after[h].killed_conns
                      + (IF now - after[h].killed_conn_at <= DestroyLag
                         THEN 1 ELSE 0) <= closures[h]
<1>1. /\ guards \in [DOMAIN guards -> [killed_conns : Nat, killed_conn_at : Nat]]
      /\ now \in Nat /\ now - 0 > DestroyLag
      /\ \A h \in DOMAIN guards :
           /\ closures[h] \in Nat
           /\ guards[h].killed_conns
                + (IF now - guards[h].killed_conn_at <= DestroyLag THEN 1 ELSE 0)
                <= closures[h]
  BY DEF KillInv, GuardsTypeOK, KilledOncePerClosure
<1>2. CASE now - guards[g].killed_conn_at <= DestroyLag
  <2> DEFINE after == CircuitDestroyed(g)
  <2>1. after = [guards EXCEPT ![g] = [killed_conns |-> @.killed_conns + 1,
                                       killed_conn_at |-> 0]]
    BY <1>2 DEF CircuitDestroyed, Never
  <2>2. DOMAIN after = DOMAIN guards
        /\ after = [h \in DOMAIN guards |-> after[h]]
    BY <2>1
  <2>3. ASSUME NEW h \in DOMAIN guards, h # g PROVE after[h] = guards[h]
    BY <2>1, <2>3
  <2>4. ASSUME g \in DOMAIN guards
        PROVE  after[g] = [killed_conns |-> guards[g].killed_conns + 1,
                           killed_conn_at |-> 0]
    BY <1>1, <2>1, <2>4
  <2>5. ASSUME g \in DOMAIN guards PROVE guards[g].killed_conns + 1 <= closures[g]
    BY <1>1, <1>2, <2>5
  <2> HIDE DEF after
  <2>6. \A h \in DOMAIN guards :
          after[h] \in [killed_conns : Nat, killed_conn_at : Nat]
    BY <1>1, <2>3, <2>4
  <2>7. \A h \in DOMAIN guards :
          after[h].killed_conns
            + (IF now - after[h].killed_conn_at <= DestroyLag THEN 1 ELSE 0)
            <= closures[h]
    BY <1>1, <2>3, <2>4, <2>5, Numbers
  <2> QED
    BY <2>2, <2>6, <2>7 DEF after
<1>3. CASE ~(now - guards[g].killed_conn_at <= DestroyLag)
  BY <1>1, <1>3 DEF CircuitDestroyed
<1> QED
  BY <1>2, <1>3

LEMMA KillStep == KillInv /\ [Next]_vars => KillInv'
<1> SUFFICES ASSUME KillInv, [Next]_vars PROVE KillInv'
  OBVIOUS
<1>1. ASSUME UNCHANGED <<now, conn, guards, closures>> PROVE KillInv'
  BY <1>1 DEF KillInv, GuardsTypeOK, KilledOncePerClosure
<1>2. ASSUME NEW i \in ConnIds,
             \/ \E g \in Guards : ConnLaunched(i, g)
             \/ ConnConnected(i)
             \/ ConnClosed(i)
      PROVE  KillInv'
  BY <1>2, KillConns
<1>3. ASSUME NEW c \in Circs,
             \/ \E k \in Kinds : CircLaunched(c, k)
             \/ \E g \in Guards : CircExtended(c, g)
             \/ CircBuilt(c)
             \/ \E k \in Kinds \ {tor[c].kind}, b \in BOOLEAN : CircMinor(c, k, b)
             \/ \E report \in Reports : CircBw(c, report)
      PROVE  UNCHANGED <<now, conn, guards, closures>>
  <2> USE DEF connHistory
  <2>1. ASSUME NEW k \in Kinds, CircLaunched(c, k)
        PROVE  UNCHANGED <<now, conn, guards, closures>>
    BY <2>1 DEF CircLaunched
  <2>2. ASSUME NEW g \in Guards, CircExtended(c, g)
        PROVE  UNCHANGED <<now, conn, guards, closures>>
    BY <2>2 DEF CircExtended
  <2>3. ASSUME CircBuilt(c) PROVE UNCHANGED <<now, conn, guards, closures>>
    BY <2>3 DEF CircBuilt
  <2>4. ASSUME NEW k \in Kinds, NEW b \in BOOLEAN, CircMinor(c, k, b)
        PROVE  UNCHANGED <<now, conn, guards, closures>>
    BY <2>4 DEF CircMinor
  <2>5. ASSUME NEW report \in Reports, CircBw(c, report)
        PROVE  UNCHANGED <<now, conn, guards, closures>>
    BY <2>5 DEF CircBw
  <2> QED
    BY <1>3, <2>1, <2>2, <2>3, <2>4, <2>5
<1>4. ASSUME NEW c \in Circs, NEW failed \in BOOLEAN, NEW remote \in BOOLEAN,
             CircEnded(c, failed, remote)
      PROVE  KillInv'
  <2>1. UNCHANGED <<now, conn, closures>>
    BY <1>4 DEF CircEnded, connHistory
  <2>2. guards' = guards \/ guards' = CircuitDestroyed(tor[c].guard)
    BY <1>4 DEF CircEnded
  <2> QED
    BY <1>1, <2>1, <2>2, KillDestroyed DEF KillInv, GuardsTypeOK, KilledOncePerClosure
<1>5. CASE BwEvent
  BY <1>1, <1>5 DEF BwEvent, connHistory
<1>6. CASE Tick
  BY <1>6, Numbers DEF Tick, connHistory, KillInv, GuardsTypeOK, KilledOncePerClosure
<1>7. CASE UNCHANGED vars
  BY <1>1, <1>7 DEF vars, connHistory
<1> QED
  BY <1>1, <1>2, <1>3, <1>4, <1>5, <1>6, <1>7 DEF Next

\* However many circuits die with a connection, and in whatever order the
\* connections of a guard and the circuits end, a closure is counted once.
THEOREM KillsCountedOnce == Spec => []KilledOncePerClosure
<1>1. KillInv => KilledOncePerClosure
  BY DEF KillInv
<1> QED
  BY <1>1, KillInit, KillStep, PTL DEF Spec

-----------------------------------------------------------------------------
(* The accounts of circuits.                                               *)

TorFields == {"stage", "kind", "guard", "since", "total", "dropped"}
StatFields == {"created_at", "total", "dropped", "built", "is_hsdir", "is_serv_intro"}

\* An entry agrees with what Tor knows of the circuit.
Follows(stat, t) ==
    /\ stat.created_at = t.since /\ stat.total = t.total /\ stat.dropped = t.dropped
    /\ t.stage = "built" => stat.built
    /\ t.kind.purpose \in {"HS_CLIENT_HSDIR", "HS_SERVICE_HSDIR"} => stat.is_hsdir
    /\ t.kind.purpose = "HS_SERVICE_INTRO" => stat.is_serv_intro

\* A circuit has no entry before its launch nor after its end, and nothing was
\* sent on it before its launch.
WatchInv ==
    /\ now \in Nat \ {Never}
    /\ DOMAIN tor = Circs
    /\ \A c \in Circs : /\ TorFields \subseteq DOMAIN tor[c]
                        /\ tor[c].stage = "none" => tor[c].total = 0 /\ tor[c].dropped = 0
    /\ Known \subseteq OpenCircs
    /\ \A c \in Known : StatFields \subseteq DOMAIN circs[c]
    /\ \A c \in Watched : c \in Known /\ Follows(circs[c], tor[c])

LEMMA WatchInit == Init => WatchInv
<1> SUFFICES ASSUME Init PROVE WatchInv
  OBVIOUS
<1>1. tor \in [Circs -> {Unused} \union
                  [stage : {"launched", "built"}, kind : Kinds,
                   guard : ConnectedGuards, since : {Never},
                   total : {0}, dropped : {0}]]
  BY DEF Init, TorInit
<1>2. \A c \in Circs : /\ TorFields \subseteq DOMAIN tor[c]
                      /\ tor[c].since = Never /\ tor[c].total = 0 /\ tor[c].dropped = 0
  BY <1>1 DEF Unused, TorFields
<1>3. Known = {} /\ now \in Nat \ {Never}
  BY Numbers DEF Init, TorInit, Known
<1>4. Watched = {}
  BY <1>2 DEF Watched, OpenCircs
<1> QED
  BY <1>1, <1>2, <1>3, <1>4 DEF WatchInv

\* A step of one circuit: what is to be shown of it alone.
LEMMA WatchOne ==
    ASSUME WatchInv, NEW c \in Circs, now' = now,
           DOMAIN tor' = Circs,
           \A d \in Circs \ {c} : tor'[d] = tor[d],
           \A d \in Circs \ {c} : d \in DOMAIN circs' <=> d \in Known,
           \A d \in Known \ {c} : circs'[d] = circs[d],
           DOMAIN circs' \subseteq Circs,
           TorFields \subseteq DOMAIN tor'[c],
           tor'[c].stage # "none",
           c \in DOMAIN circs' => /\ tor'[c].stage \in {"launched", "built"}
                                 /\ StatFields \subseteq DOMAIN circs'[c],
           tor'[c].stage \in {"launched", "built"} /\ tor'[c].since # Never
             => c \in DOMAIN circs' /\ Follows(circs'[c], tor'[c])
    PROVE  WatchInv'
<1> USE DEF WatchInv, Known, OpenCircs, Watched
<1>1. \A d \in Circs : /\ TorFields \subseteq DOMAIN tor'[d]
                      /\ tor'[d].stage = "none"
                           => tor'[d].total = 0 /\ tor'[d].dropped = 0
  OBVIOUS
<1>2. DOMAIN circs' \subseteq OpenCircs'
  OBVIOUS
<1>3. \A d \in DOMAIN circs' : StatFields \subseteq DOMAIN circs'[d]
  OBVIOUS
<1>4. \A d \in Watched' : d \in DOMAIN circs' /\ Follows(circs'[d], tor'[d])
  OBVIOUS
<1> QED
  BY <1>1, <1>2, <1>3, <1>4

\* An event of a circuit that leaves its entry alone, or replaces it by one that
\* agrees with Tor after the event if the old one did before it.
LEMMA WatchSeen ==
    ASSUME WatchInv, NEW c \in OpenCircs, NEW stat, now' = now,
           DOMAIN tor' = Circs,
           \A d \in Circs \ {c} : tor'[d] = tor[d],
           TorFields \subseteq DOMAIN tor'[c],
           tor'[c].stage \in {"launched", "built"},
           tor'[c].since = tor[c].since,
           \/ UNCHANGED circs /\ c \notin Known
           \/ /\ circs' = WithCirc(c, stat)
              /\ StatFields \subseteq DOMAIN stat
              /\ c \in Known /\ Follows(circs[c], tor[c]) => Follows(stat, tor'[c])
    PROVE  WatchInv'
<1>1. c \in Circs
  BY DEF OpenCircs
<1>2. tor[c].since # Never => c \in Known /\ Follows(circs[c], tor[c])
  BY DEF WatchInv, Watched
<1>3. Known \subseteq Circs /\ \A d \in Known : StatFields \subseteq DOMAIN circs[d]
  BY DEF WatchInv, OpenCircs
<1>4. CASE UNCHANGED circs /\ c \notin Known
  BY <1>1, <1>2, <1>3, <1>4, WatchOne DEF Known
<1>5. CASE /\ circs' = WithCirc(c, stat)
           /\ StatFields \subseteq DOMAIN stat
           /\ c \in Known /\ Follows(circs[c], tor[c]) => Follows(stat, tor'[c])
  <2>1. /\ DOMAIN circs' = Known \union {c} /\ circs'[c] = stat
        /\ \A d \in Known \ {c} : circs'[d] = circs[d]
    BY <1>5 DEF WithCirc
  <2>2. StatFields \subseteq DOMAIN circs'[c]
    BY <1>5, <2>1
  <2>3. tor'[c].since # Never => Follows(circs'[c], tor'[c])
    BY <1>2, <1>5, <2>1
  <2> QED
    BY <1>1, <1>3, <2>1, <2>2, <2>3, WatchOne
<1> QED
  BY <1>4, <1>5

\* The entry an event finds or makes: a new one is of this moment and empty.
LEMMA ObservedStat ==
    ASSUME WatchInv, NEW c, NEW k
    PROVE  /\ StatFields \subseteq DOMAIN Observed(c, k)
           /\ \A t : c \in Known /\ Follows(circs[c], t) => Follows(Observed(c, k), t)
<1>1. CASE c \in Known
  <2>1. StatFields \subseteq DOMAIN circs[c]
    BY <1>1 DEF WatchInv
  <2>2. /\ Observed(c, k) = [circs[c] EXCEPT !.kind = k]
        /\ StatFields \subseteq DOMAIN Observed(c, k)
    BY <1>1, <2>1 DEF Observed, StatFields
  <2>3. \A f \in StatFields : Observed(c, k)[f] = circs[c][f]
    BY <2>1, <2>2 DEF StatFields
  <2> QED
    BY <2>2, <2>3 DEF Follows, StatFields
<1>2. CASE c \notin Known
  BY <1>2 DEF Observed, BwCircuitStat, StatFields
<1> QED
  BY <1>1, <1>2

\* What a circuit counts as, by its purpose.
LEMMA StatOfKind ==
    ASSUME NEW k
    PROVE  /\ BwCircuitStat(k).is_hsdir
                = (k.purpose \in {"HS_CLIENT_HSDIR", "HS_SERVICE_HSDIR"})
           /\ BwCircuitStat(k).is_serv_intro = (k.purpose = "HS_SERVICE_INTRO")
BY DEF BwCircuitStat

LEMMA WatchLaunched ==
    ASSUME WatchInv, NEW c \in Circs, NEW k \in Kinds, CircLaunched(c, k)
    PROVE  WatchInv'
<1>1. tor' = [tor EXCEPT ![c] = [@ EXCEPT !.stage = "launched", !.kind = k,
                                          !.since = now]]
      /\ tor[c].stage = "none" /\ circs' = WithCirc(c, Observed(c, k))
      /\ now' = now
  BY DEF CircLaunched
<1>2. /\ tor'[c].stage = "launched" /\ tor'[c].kind = k /\ tor'[c].since = now
      /\ tor'[c].total = 0 /\ tor'[c].dropped = 0
      /\ TorFields \subseteq DOMAIN tor'[c]
  BY <1>1 DEF WatchInv, TorFields
<1>3. DOMAIN tor' = Circs /\ \A d \in Circs \ {c} : tor'[d] = tor[d]
  BY <1>1 DEF WatchInv
<1>4. c \notin Known /\ Known \subseteq Circs
  BY <1>1 DEF WatchInv, OpenCircs
<1>5. /\ DOMAIN circs' = Known \union {c} /\ circs'[c] = BwCircuitStat(k)
      /\ \A d \in Known \ {c} : circs'[d] = circs[d]
  BY <1>1, <1>4 DEF WithCirc, Observed
<1>6. StatFields \subseteq DOMAIN circs'[c] /\ Follows(circs'[c], tor'[c])
  <2>1. StatFields \subseteq DOMAIN circs'[c]
    BY <1>5 DEF BwCircuitStat, StatFields
  <2>2. /\ circs'[c].created_at = now
        /\ circs'[c].total = 0 /\ circs'[c].dropped = 0
    BY <1>5 DEF BwCircuitStat
  <2>3. k.purpose \in {"HS_CLIENT_HSDIR", "HS_SERVICE_HSDIR"} => circs'[c].is_hsdir
    BY <1>5, StatOfKind
  <2>4. k.purpose = "HS_SERVICE_INTRO" => circs'[c].is_serv_intro
    BY <1>5, StatOfKind
  <2> QED
    BY <1>2, <2>1, <2>2, <2>3, <2>4 DEF Follows
<1> QED
  BY <1>1, <1>2, <1>3, <1>4, <1>5, <1>6, WatchOne

LEMMA WatchExtended ==
    ASSUME WatchInv, NEW c \in Circs, NEW g \in Guards, CircExtended(c, g)
    PROVE  WatchInv'
<1>1. /\ tor' = [tor EXCEPT ![c] = [@ EXCEPT !.guard = g]] /\ c \in OpenCircs
      /\ circs' = WithCirc(c, Observed(c, tor[c].kind)) /\ now' = now
  BY DEF CircExtended
<1>2. /\ tor'[c] = [tor[c] EXCEPT !.guard = g] /\ DOMAIN tor' = Circs
      /\ \A d \in Circs \ {c} : tor'[d] = tor[d]
  BY <1>1 DEF WatchInv
<1>3. /\ TorFields \subseteq DOMAIN tor'[c]
      /\ \A f \in TorFields \ {"guard"} : tor'[c][f] = tor[c][f]
  BY <1>2 DEF WatchInv, TorFields
<1>4. /\ tor'[c].stage \in {"launched", "built"} /\ tor'[c].since = tor[c].since
      /\ \A stat : Follows(stat, tor[c]) => Follows(stat, tor'[c])
  BY <1>1, <1>3 DEF OpenCircs, TorFields, Follows
<1> QED
  BY <1>1, <1>2, <1>3, <1>4, ObservedStat, WatchSeen

LEMMA WatchBuilt ==
    ASSUME WatchInv, NEW c \in Circs, CircBuilt(c)
    PROVE  WatchInv'
<1> DEFINE seen == Observed(c, tor[c].kind)
           built == [seen EXCEPT !.built = TRUE]
           used == [built EXCEPT !.in_use = TRUE, !.guard_fp = tor[c].guard]
<1>1. /\ tor' = [tor EXCEPT ![c] = [@ EXCEPT !.stage = "built"]] /\ c \in OpenCircs
      /\ circs' = WithCirc(c, built) \/ circs' = WithCirc(c, used)
      /\ now' = now
  BY DEF CircBuilt
<1>2. /\ tor'[c] = [tor[c] EXCEPT !.stage = "built"] /\ DOMAIN tor' = Circs
      /\ \A d \in Circs \ {c} : tor'[d] = tor[d]
  BY <1>1 DEF WatchInv
<1>3. /\ TorFields \subseteq DOMAIN tor'[c] /\ tor'[c].stage = "built"
      /\ \A f \in TorFields \ {"stage"} : tor'[c][f] = tor[c][f]
  BY <1>2 DEF WatchInv, TorFields
<1>4. /\ StatFields \subseteq DOMAIN seen
      /\ c \in Known /\ Follows(circs[c], tor[c]) => Follows(seen, tor[c])
  BY ObservedStat
<1> HIDE DEF seen
<1>5. \A stat \in {built, used} :
        /\ StatFields \subseteq DOMAIN stat /\ stat.built
        /\ \A f \in StatFields \ {"built"} : stat[f] = seen[f]
  BY <1>4 DEF StatFields
<1> HIDE DEF built, used
<1>6. \A stat \in {built, used} : Follows(seen, tor[c]) => Follows(stat, tor'[c])
  BY <1>3, <1>5 DEF StatFields, TorFields, Follows
<1>7. tor'[c].since = tor[c].since
  BY <1>3 DEF TorFields
<1> QED
  BY <1>1, <1>2, <1>3, <1>4, <1>5, <1>6, <1>7, WatchSeen

LEMMA WatchMinor ==
    ASSUME WatchInv, NEW c \in Circs, NEW k \in Kinds, NEW b \in BOOLEAN,
           CircMinor(c, k, b)
    PROVE  WatchInv'
<1> DEFINE seen == [circs[c] EXCEPT
                      !.kind = k, !.old_kind = tor[c].kind,
                      !.is_hsdir = @ \/ BwCircuitStat(k).is_hsdir,
                      !.is_serv_intro = @ \/ BwCircuitStat(k).is_serv_intro]
           used == [seen EXCEPT !.in_use = TRUE, !.guard_fp = tor[c].guard]
<1>1. /\ tor' = [tor EXCEPT ![c] = [@ EXCEPT !.kind = k]] /\ c \in OpenCircs
      /\ c \notin Known => circs' = circs
      /\ c \in Known => circs' = WithCirc(c, seen) \/ circs' = WithCirc(c, used)
      /\ now' = now
  BY DEF CircMinor
<1>2. /\ tor'[c] = [tor[c] EXCEPT !.kind = k] /\ DOMAIN tor' = Circs
      /\ \A d \in Circs \ {c} : tor'[d] = tor[d]
  BY <1>1 DEF WatchInv
<1>3. /\ TorFields \subseteq DOMAIN tor'[c] /\ tor'[c].kind = k
      /\ \A f \in TorFields \ {"kind"} : tor'[c][f] = tor[c][f]
  BY <1>2 DEF WatchInv, TorFields
<1>4. tor'[c].stage \in {"launched", "built"} /\ tor'[c].since = tor[c].since
  BY <1>1, <1>3 DEF OpenCircs, TorFields
<1>5. CASE c \notin Known
  BY <1>1, <1>2, <1>3, <1>4, <1>5, WatchSeen
<1>6. CASE c \in Known
  <2>1. StatFields \subseteq DOMAIN circs[c]
    BY <1>6 DEF WatchInv
  <2>2. /\ StatFields \subseteq DOMAIN seen
        /\ \A f \in StatFields \ {"is_hsdir", "is_serv_intro"} : seen[f] = circs[c][f]
        /\ seen.is_hsdir = (circs[c].is_hsdir \/ BwCircuitStat(k).is_hsdir)
        /\ seen.is_serv_intro = (circs[c].is_serv_intro \/ BwCircuitStat(k).is_serv_intro)
    BY <2>1 DEF StatFields
  <2> HIDE DEF seen
  <2>4. /\ StatFields \subseteq DOMAIN used
        /\ \A f \in StatFields : used[f] = seen[f]
    BY <2>2 DEF StatFields
  <2>5. Follows(circs[c], tor[c]) => Follows(seen, tor'[c])
    <3>1. Follows(circs[c], tor[c])
            => /\ seen.created_at = tor'[c].since /\ seen.total = tor'[c].total
               /\ seen.dropped = tor'[c].dropped
               /\ tor'[c].stage = "built" => seen.built
      BY <1>3, <2>2 DEF StatFields, TorFields, Follows
    <3>2. /\ k.purpose \in {"HS_CLIENT_HSDIR", "HS_SERVICE_HSDIR"} => seen.is_hsdir
          /\ k.purpose = "HS_SERVICE_INTRO" => seen.is_serv_intro
      BY <2>2, StatOfKind
    <3> QED
      BY <1>3, <3>1, <3>2 DEF Follows
  <2>6. Follows(seen, tor'[c]) => Follows(used, tor'[c])
    BY <2>4 DEF StatFields, Follows
  <2> HIDE DEF used
  <2> QED
    BY <1>1, <1>2, <1>3, <1>4, <1>6, <2>2, <2>4, <2>5, <2>6, WatchSeen
<1> QED
  BY <1>5, <1>6

LEMMA WatchBw ==
    ASSUME WatchInv, NEW c \in Circs, NEW report \in Reports, CircBw(c, report)
    PROVE  WatchInv'
<1> DEFINE cells == report.read + report.written
           drops == report.read - report.payload
           stat == [circs[c] EXCEPT !.total = @ + cells, !.dropped = @ + drops]
<1>1. /\ tor' = [tor EXCEPT ![c].total = @ + cells, ![c].dropped = @ + drops]
      /\ c \in OpenCircs
      /\ c \notin Known => circs' = circs
      /\ c \in Known => circs' = WithCirc(c, stat)
      /\ now' = now
  BY DEF CircBw
<1> HIDE DEF cells, drops
<1>2. DOMAIN tor' = Circs /\ \A d \in Circs \ {c} : tor'[d] = tor[d]
  BY <1>1 DEF WatchInv
<1>3. /\ TorFields \subseteq DOMAIN tor'[c]
      /\ tor'[c].total = tor[c].total + cells /\ tor'[c].dropped = tor[c].dropped + drops
      /\ \A f \in TorFields \ {"total", "dropped"} : tor'[c][f] = tor[c][f]
  BY <1>1 DEF WatchInv, TorFields
<1>4. tor'[c].stage \in {"launched", "built"} /\ tor'[c].since = tor[c].since
  BY <1>1, <1>3 DEF OpenCircs, TorFields
<1>5. CASE c \notin Known
  BY <1>1, <1>2, <1>3, <1>4, <1>5, WatchSeen
<1>6. CASE c \in Known
  <2>1. StatFields \subseteq DOMAIN circs[c]
    BY <1>6 DEF WatchInv
  <2>2. /\ StatFields \subseteq DOMAIN stat
        /\ stat.total = circs[c].total + cells /\ stat.dropped = circs[c].dropped + drops
        /\ \A f \in StatFields \ {"total", "dropped"} : stat[f] = circs[c][f]
    BY <2>1 DEF StatFields
  <2> HIDE DEF stat
  <2>3. Follows(circs[c], tor[c]) => Follows(stat, tor'[c])
    BY <1>3, <2>2 DEF StatFields, TorFields, Follows
  <2> QED
    BY <1>1, <1>2, <1>3, <1>4, <1>6, <2>2, <2>3, WatchSeen
<1> QED
  BY <1>5, <1>6

LEMMA WatchEnded ==
    ASSUME WatchInv, NEW c \in Circs, NEW failed \in BOOLEAN, NEW remote \in BOOLEAN,
           CircEnded(c, failed, remote)
    PROVE  WatchInv'
<1>1. /\ tor' = [tor EXCEPT ![c] = [@ EXCEPT !.stage = "gone"]]
      /\ circs' = [d \in Known \ {c} |-> circs[d]] /\ now' = now
  BY DEF CircEnded, Restrict
<1>2. /\ tor'[c] = [tor[c] EXCEPT !.stage = "gone"] /\ DOMAIN tor' = Circs
      /\ \A d \in Circs \ {c} : tor'[d] = tor[d]
  BY <1>1 DEF WatchInv
<1>3. TorFields \subseteq DOMAIN tor'[c] /\ tor'[c].stage = "gone"
  BY <1>2 DEF WatchInv, TorFields
<1>4. Known \subseteq Circs
  BY DEF WatchInv, OpenCircs
<1> QED
  BY <1>1, <1>2, <1>3, <1>4, WatchOne

\* When a connection is closed the circuits that may have died with it are
\* marked.
LEMMA WatchClosed ==
    ASSUME WatchInv, NEW i \in ConnIds, ConnClosed(i)
    PROVE  WatchInv'
<1> DEFINE at(c) == [circs[c] EXCEPT !.possibly_destroyed_at = now]
<1>1. /\ DOMAIN circs' = Known
      /\ \A c \in Known : circs'[c] = circs[c] \/ circs'[c] = at(c)
      /\ UNCHANGED <<now, tor>>
  BY DEF ConnClosed
<1>2. \A c \in Known : /\ StatFields \subseteq DOMAIN at(c)
                      /\ \A f \in StatFields : at(c)[f] = circs[c][f]
  BY DEF WatchInv, StatFields
<1> HIDE DEF at
<1>3. \A c \in Known : /\ StatFields \subseteq DOMAIN circs'[c]
                      /\ \A f \in StatFields : circs'[c][f] = circs[c][f]
  BY <1>1, <1>2 DEF WatchInv
<1>4. \A c \in Known : Follows(circs[c], tor[c]) => Follows(circs'[c], tor'[c])
  BY <1>1, <1>3 DEF StatFields, Follows
<1>5. Watched' = Watched /\ OpenCircs' = OpenCircs
  BY <1>1 DEF Watched, OpenCircs
<1> QED
  BY <1>1, <1>3, <1>4, <1>5 DEF WatchInv, Known

LEMMA WatchStep == WatchInv /\ [Next]_vars => WatchInv'
<1> SUFFICES ASSUME WatchInv, [Next]_vars PROVE WatchInv'
  OBVIOUS
<1> USE DEF connVars, circOutage, connHistory
<1>1. ASSUME UNCHANGED <<now, tor, circs>> PROVE WatchInv'
  BY <1>1 DEF WatchInv, Known, Watched, OpenCircs
<1>2. ASSUME NEW i \in ConnIds, NEW g \in Guards, ConnLaunched(i, g)
      PROVE  WatchInv'
  BY <1>1, <1>2 DEF ConnLaunched
<1>3. ASSUME NEW i \in ConnIds, ConnConnected(i) PROVE WatchInv'
  BY <1>1, <1>3 DEF ConnConnected
<1>4. ASSUME NEW i \in ConnIds, ConnClosed(i) PROVE WatchInv'
  BY <1>4, WatchClosed
<1>5. ASSUME NEW c \in Circs,
             \/ \E k \in Kinds : CircLaunched(c, k)
             \/ \E g \in Guards : CircExtended(c, g)
             \/ CircBuilt(c)
             \/ \E k \in Kinds \ {tor[c].kind}, b \in BOOLEAN : CircMinor(c, k, b)
             \/ \E failed, remote \in BOOLEAN : CircEnded(c, failed, remote)
             \/ \E report \in Reports : CircBw(c, report)
      PROVE  WatchInv'
  BY <1>5, WatchLaunched, WatchExtended, WatchBuilt, WatchMinor, WatchEnded, WatchBw
<1>6. CASE BwEvent
  BY <1>1, <1>6 DEF BwEvent
<1>7. CASE Tick
  <2>1. now' \in Nat \ {Never} /\ UNCHANGED <<tor, circs>>
    BY <1>7 DEF Tick, WatchInv, Never
  <2> QED
    BY <2>1 DEF WatchInv, Known, Watched, OpenCircs
<1>8. CASE UNCHANGED vars
  BY <1>1, <1>8 DEF vars
<1> QED
  BY <1>2, <1>3, <1>4, <1>5, <1>6, <1>7, <1>8 DEF Next

THEOREM WatchInvariance == Spec => []WatchInv
BY WatchInit, WatchStep, PTL DEF Spec

\* A circuit that is launched while the monitor listens is followed to its end,
\* with the totals of Tor, however its events mix.
THEOREM WatchedFollowed == Spec => []WatchedExact
<1>1. WatchInv => WatchedExact
  BY DEF WatchInv, WatchedExact, Follows
<1> QED
  BY <1>1, WatchInvariance, PTL

\* A heartbeat asks Tor to close every such circuit that is over age.
THEOREM AgesBounded == Spec => WatchedAgesBounded
<1>1. ASSUME WatchInv, BwEvent, NEW c \in Watched,
             MaxAge > 0, now - tor[c].since > MaxAge
      PROVE  c \in closing'
  <2>1. c \in TooOld /\ c \in OpenCircs
    BY <1>1 DEF WatchInv, Follows, TooOld, Watched
  <2> QED
    BY <1>1, <2>1 DEF BwEvent, TryClose
<1>2. WatchInv => [BwEvent => \A c \in Watched :
                     MaxAge > 0 /\ now - tor[c].since > MaxAge => c \in closing']_vars
  BY <1>1
<1> QED
  BY <1>2, WatchInvariance, PTL DEF WatchedAgesBounded

\* The report that takes such a circuit over a limit has it closed.
THEOREM LimitsKept == Spec => WatchedLimitsKept
<1>1. ASSUME WatchInv, NEW c \in Watched, NEW report \in Reports,
             CircBw(c, report), MustClose(tor'[c])
      PROVE  c \in closing'
  <2> DEFINE cells == report.read + report.written
             drops == report.read - report.payload
             stat == [circs[c] EXCEPT !.total = @ + cells, !.dropped = @ + drops]
  <2>1. c \in Known /\ c \in OpenCircs /\ c \in Circs
    BY <1>1 DEF WatchInv, Watched, OpenCircs
  <2>2. /\ circs' = WithCirc(c, stat)
        /\ tor' = [tor EXCEPT ![c].total = @ + cells, ![c].dropped = @ + drops]
        /\ TryClose(IF CheckCircuitLimits(stat) THEN {c} ELSE {})
    BY <1>1, <2>1 DEF CircBw
  <2> HIDE DEF stat, cells, drops
  <2>3. c \in Watched'
    <3>1. tor'[c].stage = tor[c].stage /\ tor'[c].since = tor[c].since
      BY <1>1, <2>1, <2>2 DEF WatchInv, TorFields
    <3> QED
      BY <1>1, <2>1, <3>1 DEF Watched, OpenCircs
  <2>4. Follows(stat, tor'[c])
    <3>1. WatchInv'
      BY <1>1, <2>1, WatchBw
    <3>2. circs'[c] = stat
      BY <2>2 DEF WithCirc
    <3> QED
      BY <2>3, <3>1, <3>2 DEF WatchInv
  <2>5. CheckCircuitLimits(stat)
    BY <1>1, <2>4 DEF MustClose, CheckCircuitLimits, Follows
  <2> QED
    BY <2>1, <2>2, <2>5 DEF TryClose
<1>2. WatchInv => [\A c \in Watched, report \in Reports :
                     CircBw(c, report) /\ MustClose(tor'[c]) => c \in closing']_vars
  BY <1>1
<1> QED
  BY <1>2, WatchInvariance, PTL DEF WatchedLimitsKept

-----------------------------------------------------------------------------
(* The live connections.                                                   *)

\* A set of natural numbers has a least element, which Min denotes.
LEMMA MinOfNats ==
    ASSUME NEW S \in SUBSET Nat, S # {}
    PROVE  Min(S) \in S
<1> DEFINE R == StrictSubsetOrdering(Nat)
           T == {0..n : n \in S}
<1>1. IsWellFoundedOn(R, FiniteSubsetsOf(Nat))
  BY FS_StrictSubsetOrderingWellFounded
<1>2. T \subseteq FiniteSubsetsOf(Nat) /\ T # {}
  <2>1. \A n \in S : IsFiniteSet(0..n) /\ 0..n \subseteq Nat
    BY FS_Interval
  <2> QED
    BY <2>1 DEF FiniteSubsetsOf
<1>3. PICK low \in T : \A other \in T : ~ (<<other, low>> \in R)
  BY <1>1, <1>2, WFMin
<1>4. PICK m \in S : low = 0..m
  OBVIOUS
<1>5. \A n \in S : m <= n
  <2> SUFFICES ASSUME NEW n \in S, ~ (m <= n) PROVE FALSE
    OBVIOUS
  <2>1. 0..n \subseteq 0..m /\ 0..n # 0..m /\ 0..n \in SUBSET Nat /\ 0..m \in SUBSET Nat
    <3>1. m \in 0..m /\ m \notin 0..n
      OBVIOUS
    <3> QED
      BY <3>1
  <2>2. <<0..n, 0..m>> \in R
    BY <2>1 DEF StrictSubsetOrdering
  <2> QED
    BY <1>3, <1>4, <2>2
<1> QED
  BY <1>5 DEF Min

\* Every entry stands for a connection of its own, to the guard of the entry: for
\* the one whose identifier it has, unless that is made up and none connected.
Standing(f) ==
    /\ f \in [DOMAIN live_guard_conns -> ConnectedIds]
    /\ \A d, e \in DOMAIN live_guard_conns : f[d] = f[e] => d = e
    /\ \A e \in DOMAIN live_guard_conns : live_guard_conns[e] = conn[f[e]].guard
    /\ \A e \in DOMAIN live_guard_conns \intersect ConnIds :
         ~MadeUp(e) \/ e \in ConnectedIds => f[e] = e

\* What was listed is known by an identifier that is not one of its list.
ListedApart == \A i \in inherited : ~MadeUp(i)

ConnInv ==
    /\ DOMAIN conn = ConnIds
    /\ \A i \in ConnIds : {"guard", "status"} \subseteq DOMAIN conn[i]
    /\ max_fake_id \in Int
    /\ DOMAIN live_guard_conns \subseteq ConnIds \union 0..max_fake_id
    /\ ListedApart => \E f : Standing(f)
    /\ LiveExact

LEMMA ConnInit == ASSUME Init PROVE ConnInv
<1>1. conn \in [ConnIds -> {NoConn} \union
                   [guard : Guards, status : {"launched", "connected"}]]
  BY DEF Init, TorInit
<1>2. /\ DOMAIN conn = ConnIds
      /\ \A i \in ConnIds : {"guard", "status"} \subseteq DOMAIN conn[i]
  BY <1>1 DEF NoConn
<1>3. /\ max_fake_id = Cardinality(Started) - 1
      /\ Cardinality(Started) \in Nat
      /\ Cardinality(Started) <= Cardinality(ConnIds)
      /\ Cardinality(ConnIds) \in Nat
  <2>1. Started \in SUBSET ConnIds /\ IsFiniteSet(ConnIds)
    BY BandSetsAssumption DEF Started
  <2> QED
    BY <2>1, FS_Subset, FS_CardinalityType DEF Init
<1>4. max_fake_id \in Int /\ inherited = ConnectedIds
  BY <1>3 DEF Init
<1>5. PICK places \in Bijection(Started, 0..Cardinality(Started) - 1) :
        live_guard_conns = [p \in {places[i] : i \in ConnectedIds} |->
                              conn[CHOOSE i \in ConnectedIds : places[i] = p].guard]
  <2>1. ListConns
    BY DEF Init
  <2> QED
    BY <2>1 DEF ListConns
<1> DEFINE first(p) == CHOOSE i \in ConnectedIds : places[i] = p
<1>6. \A p \in {places[i] : i \in ConnectedIds} :
        first(p) \in ConnectedIds /\ places[first(p)] = p
  OBVIOUS
<1> HIDE DEF first
<1>7. /\ DOMAIN live_guard_conns = {places[i] : i \in ConnectedIds}
      /\ \A p \in DOMAIN live_guard_conns : live_guard_conns[p] = conn[first(p)].guard
  BY <1>5 DEF first
<1>8. DOMAIN live_guard_conns \subseteq 0..max_fake_id
  <2>1. ConnectedIds \subseteq Started
    BY DEF ConnectedIds, Started, NoConn
  <2>2. places \in [Started -> 0..Cardinality(Started) - 1]
    BY DEF Bijection, Injection
  <2> QED
    BY <1>3, <1>7, <2>1, <2>2
<1>9. ListedApart => \A e \in DOMAIN live_guard_conns :
                        MadeUp(e) /\ e \notin ConnectedIds
  BY <1>3, <1>4, <1>8 DEF MadeUp, ListedApart
<1>10. ListedApart => Standing([p \in DOMAIN live_guard_conns |-> first(p)])
  BY <1>6, <1>7, <1>9 DEF Standing
<1>11. LiveExact
  BY <1>4, <1>7 DEF LiveExact
<1> QED
  BY <1>2, <1>4, <1>8, <1>10, <1>11 DEF ConnInv

\* A connection that is made has an entry of its own.
LEMMA ConnMade ==
    ASSUME ConnInv, NEW i \in ConnIds, ConnConnected(i)
    PROVE  ConnInv'
<1>1. /\ conn[i].status = "launched"
      /\ conn' = [conn EXCEPT ![i] = [@ EXCEPT !.status = "connected"]]
      /\ live_guard_conns' = [e \in DOMAIN live_guard_conns \union {i} |->
                                IF e = i THEN conn[i].guard ELSE live_guard_conns[e]]
      /\ UNCHANGED <<max_fake_id, inherited>>
  BY DEF ConnConnected, connHistory
<1>2. /\ DOMAIN conn' = ConnIds
      /\ conn'[i].status = "connected" /\ conn'[i].guard = conn[i].guard
      /\ {"guard", "status"} \subseteq DOMAIN conn'[i]
      /\ \A j \in ConnIds \ {i} : conn'[j] = conn[j]
  BY <1>1 DEF ConnInv
<1>3. ConnectedIds' = ConnectedIds \union {i} /\ i \notin ConnectedIds
  BY <1>1, <1>2 DEF ConnectedIds
<1>5. /\ DOMAIN live_guard_conns' = DOMAIN live_guard_conns \union {i}
      /\ live_guard_conns'[i] = conn[i].guard
      /\ \A e \in DOMAIN live_guard_conns \ {i} : live_guard_conns'[e] = live_guard_conns[e]
  BY <1>1
<1>7. ASSUME NEW f, Standing(f) PROVE \E h : Standing(h)'
  <2> DEFINE F == [e \in DOMAIN live_guard_conns \union {i} |-> IF e = i THEN i ELSE f[e]]
  <2>1. \A e \in DOMAIN live_guard_conns : f[e] \in ConnectedIds /\ f[e] # i
    BY <1>3, <1>7 DEF Standing
  <2>2. F \in [DOMAIN live_guard_conns' -> ConnectedIds']
    BY <1>3, <1>5, <2>1
  <2>3. \A d, e \in DOMAIN live_guard_conns' : F[d] = F[e] => d = e
    BY <1>5, <1>7, <2>1 DEF Standing
  <2>4. \A e \in DOMAIN live_guard_conns' : live_guard_conns'[e] = conn'[F[e]].guard
    BY <1>2, <1>5, <1>7, <2>1 DEF Standing, ConnectedIds
  <2>5. \A e \in DOMAIN live_guard_conns' \intersect ConnIds :
          ~MadeUp(e)' \/ e \in ConnectedIds' => F[e] = e
    BY <1>1, <1>3, <1>5, <1>7 DEF Standing, MadeUp
  <2>6. Standing(F)'
    BY <2>2, <2>3, <2>4, <2>5 DEF Standing
  <2> QED
    BY <2>6
<1>8. LiveExact'
  <2>1. Started' = Started
    BY <1>1, <1>2 DEF Started, NoConn, ConnInv
  <2> QED
    BY <1>1, <1>2, <1>3, <1>5, <2>1 DEF ConnInv, LiveExact, ConnectedIds, MadeUp
<1>9. DOMAIN live_guard_conns' \subseteq ConnIds \union 0..max_fake_id'
  BY <1>1, <1>5 DEF ConnInv
<1>10. ListedApart' => \E h : Standing(h)'
  BY <1>1, <1>7 DEF ConnInv, ListedApart, MadeUp
<1> QED
  BY <1>1, <1>2, <1>8, <1>9, <1>10 DEF ConnInv

\* A connection that ends takes its own entry, or one of the listed to its guard
\* that stands for it, or none when it has none.
LEMMA StandUnmade ==
    ASSUME ConnInv, NEW f, Standing(f), NEW i \in ConnIds, ConnClosed(i)
    PROVE  \E h : Standing(h)'
<1> DEFINE live == DOMAIN live_guard_conns
           listed == {e \in (0..max_fake_id) \intersect live :
                        live_guard_conns[e] = conn[i].guard}
           left == live \ EntryOf(i)
<1>1. /\ conn' = [conn EXCEPT ![i] = [@ EXCEPT !.status = "gone"]]
      /\ live_guard_conns' = [e \in left |-> live_guard_conns[e]]
      /\ UNCHANGED <<max_fake_id, inherited>>
  BY DEF ConnClosed, Restrict
<1>2. /\ DOMAIN conn' = ConnIds
      /\ conn'[i].status = "gone" /\ conn'[i].guard = conn[i].guard
      /\ \A j \in ConnIds : {"guard", "status"} \subseteq DOMAIN conn'[j]
      /\ \A j \in ConnIds \ {i} : conn'[j] = conn[j]
  BY <1>1 DEF ConnInv
<1>3. ConnectedIds' = ConnectedIds \ {i}
  BY <1>2 DEF ConnectedIds
<1>5. EntryOf(i) = IF i \in live THEN {i}
                   ELSE IF listed = {} THEN {} ELSE {Min(listed)}
  BY DEF EntryOf
<1>6. /\ DOMAIN live_guard_conns' = left
      /\ \A e \in left : live_guard_conns'[e] = live_guard_conns[e]
  BY <1>1
<1>7. \A e \in live : /\ f[e] \in ConnectedIds /\ f[e] \in ConnIds
                      /\ live_guard_conns[e] = conn[f[e]].guard
                      /\ (e \in ConnIds /\ ~MadeUp(e)) \/ e \in ConnectedIds => f[e] = e
  BY DEF Standing, ConnectedIds
<1>8. \A d, e \in live : f[d] = f[e] => d = e
  BY DEF Standing
<1>16. left = live \ EntryOf(i) /\ live \subseteq ConnIds \union 0..max_fake_id
  BY DEF ConnInv
<1>17. listed = {e \in (0..max_fake_id) \intersect live :
                    live_guard_conns[e] = conn[i].guard}
  OBVIOUS
<1> HIDE DEF live, listed, left
\* What is to be shown of the connections that the entries left stand for.
<1>9. ASSUME NEW F \in [left -> ConnectedIds \ {i}],
             \A d, e \in left : F[d] = F[e] => d = e,
             \A e \in left : live_guard_conns[e] = conn[F[e]].guard,
             \A e \in left \intersect ConnIds :
               ~MadeUp(e) \/ e \in ConnectedIds => F[e] = e
      PROVE  \E h : Standing(h)'
  <2>1. \A e \in left : conn'[F[e]].guard = conn[F[e]].guard
    BY <1>2, <1>9 DEF ConnectedIds
  <2>2. Standing(F)'
    BY <1>1, <1>3, <1>6, <1>9, <2>1 DEF Standing, MadeUp
  <2> QED
    BY <2>2
<1>10. ASSUME i \in live PROVE \E h : Standing(h)'
  <2>1. PICK F : F = [e \in left |-> f[e]]
    OBVIOUS
  <2>2. left = live \ {i}
    BY <1>5, <1>10, <1>16
  <2>3. \A e \in left : e \in live /\ F[e] = f[e] /\ f[e] # i
    <3>1. i \in ConnectedIds => f[i] = i
      BY <1>7, <1>10
    <3>2. \A e \in left : e \in live /\ e # i
      BY <2>2
    <3>3. \A e \in left : f[e] # f[i] /\ f[e] \in ConnectedIds
      BY <1>7, <1>8, <1>10, <3>2
    <3> QED
      BY <2>1, <3>1, <3>2, <3>3
  <2>4. F \in [left -> ConnectedIds \ {i}]
    BY <1>7, <2>1, <2>3
  <2> QED
    <3>1. \A d, e \in left : F[d] = F[e] => d = e
      BY <1>8, <2>3
    <3>2. \A e \in left : live_guard_conns[e] = conn[F[e]].guard
      BY <1>7, <2>3
    <3>3. \A e \in left \intersect ConnIds :
            ~MadeUp(e) \/ e \in ConnectedIds => F[e] = e
      BY <1>7, <2>3
    <3> QED
      BY <1>9, <2>4, <3>1, <3>2, <3>3
<1>11. ASSUME i \notin live /\ listed = {} PROVE \E h : Standing(h)'
  <2>1. PICK F : F = [e \in left |-> f[e]]
    OBVIOUS
  <2>2. left = live
    BY <1>5, <1>11, <1>16
  <2>3. \A e \in left : f[e] # i
    <3> SUFFICES ASSUME NEW e \in live, f[e] = i PROVE FALSE
      BY <2>2
    <3>1. e \notin ConnIds \/ MadeUp(e)
      BY <1>7, <1>11
    <3>2. e \in 0..max_fake_id
      BY <1>16, <3>1, BandSetsAssumption DEF MadeUp, ConnInv
    <3> QED
      BY <1>7, <1>11, <1>17, <3>2
  <2>4. F \in [left -> ConnectedIds \ {i}]
    BY <1>7, <2>1, <2>2, <2>3
  <2>5. \A e \in left : F[e] = f[e] /\ e \in live
    BY <2>1, <2>2
  <2> QED
    <3>1. \A d, e \in left : F[d] = F[e] => d = e
      BY <1>8, <2>5
    <3>2. \A e \in left : live_guard_conns[e] = conn[F[e]].guard
      BY <1>7, <2>5
    <3>3. \A e \in left \intersect ConnIds :
            ~MadeUp(e) \/ e \in ConnectedIds => F[e] = e
      BY <1>7, <2>5
    <3> QED
      BY <1>9, <2>4, <3>1, <3>2, <3>3
<1>12. ASSUME i \notin live /\ listed # {} PROVE \E h : Standing(h)'
  <2>1. PICK m : m \in listed /\ m = Min(listed)
    <3>1. listed \in SUBSET Nat /\ listed # {}
      BY <1>12, <1>17 DEF ConnInv
    <3>2. Min(listed) \in listed
      BY <3>1, MinOfNats
    <3> QED
      BY <3>2
  <2>2. left = live \ {m} /\ m \in live /\ live_guard_conns[m] = conn[i].guard
    BY <1>5, <1>12, <1>16, <1>17, <2>1
  <2>3. PICK F : F = [e \in left |-> IF f[e] = i THEN f[m] ELSE f[e]]
    OBVIOUS
  <2>4. \A e \in left : e \in live /\ f[e] # f[m]
    BY <1>8, <2>2
  <2>5. F \in [left -> ConnectedIds \ {i}]
    <3>1. \A e \in left : F[e] \in ConnectedIds /\ F[e] # i
      BY <1>7, <2>2, <2>3, <2>4
    <3> QED
      BY <2>3, <3>1
  <2>6. \A d, e \in left : F[d] = F[e] => d = e
    BY <1>8, <2>3, <2>4
  <2>7. \A e \in left : live_guard_conns[e] = conn[F[e]].guard
    BY <1>7, <2>2, <2>3, <2>4
  <2>8. \A e \in left \intersect ConnIds :
          ~MadeUp(e) \/ e \in ConnectedIds => F[e] = e
    BY <1>7, <1>12, <2>3, <2>4
  <2> QED
    BY <1>9, <2>5, <2>6, <2>7, <2>8
<1> QED
  BY <1>10, <1>11, <1>12

LEMMA ConnUnmade ==
    ASSUME ConnInv, NEW i \in ConnIds, ConnClosed(i)
    PROVE  ConnInv'
<1> DEFINE live == DOMAIN live_guard_conns
           left == live \ EntryOf(i)
<1>1. /\ conn' = [conn EXCEPT ![i] = [@ EXCEPT !.status = "gone"]]
      /\ live_guard_conns' = [e \in left |-> live_guard_conns[e]]
      /\ UNCHANGED <<max_fake_id, inherited>>
      /\ conn[i].status \in {"launched", "connected"}
  BY DEF ConnClosed, Restrict
<1>2. /\ DOMAIN conn' = ConnIds
      /\ conn'[i].status = "gone" /\ conn'[i].guard = conn[i].guard
      /\ \A j \in ConnIds : {"guard", "status"} \subseteq DOMAIN conn'[j]
      /\ \A j \in ConnIds \ {i} : conn'[j] = conn[j]
  BY <1>1 DEF ConnInv
<1>3. ConnectedIds' = ConnectedIds \ {i}
  BY <1>2 DEF ConnectedIds
<1>4. Started' = Started
  BY <1>1, <1>2 DEF Started, NoConn
<1>5. ListedApart' => \E h : Standing(h)'
  BY <1>1, StandUnmade DEF ConnInv, ListedApart, MadeUp
<1>6. LiveExact'
  <2> SUFFICES ASSUME inherited = {}, \A j \in Started : ~MadeUp(j)
               PROVE  LiveExact'
    BY <1>1, <1>4 DEF LiveExact, MadeUp
  <2>1. live = ConnectedIds /\ \A j \in ConnectedIds : live_guard_conns[j] = conn[j].guard
    BY DEF ConnInv, LiveExact
  <2>2. ConnectedIds \subseteq Started
    BY DEF ConnectedIds, Started, NoConn
  <2>3. (0..max_fake_id) \intersect live = {}
    BY <2>1, <2>2 DEF MadeUp, ConnInv
  <2>4. EntryOf(i) = IF i \in live THEN {i} ELSE {}
    BY <2>3 DEF EntryOf
  <2>5. left = ConnectedIds \ {i}
    BY <2>1, <2>4
  <2>6. \A j \in ConnectedIds \ {i} : conn'[j] = conn[j]
    BY <1>2 DEF ConnectedIds
  <2> QED
    BY <1>1, <1>3, <2>1, <2>5, <2>6 DEF LiveExact
<1>7. DOMAIN live_guard_conns' \subseteq ConnIds \union 0..max_fake_id'
  BY <1>1 DEF ConnInv
<1> QED
  BY <1>1, <1>2, <1>5, <1>6, <1>7 DEF ConnInv

\* The events of circuits, the heartbeat and the clock leave the connections
\* alone.
LEMMA ConnFrame ==
    ASSUME \/ \E c \in Circs :
                \/ \E k \in Kinds : CircLaunched(c, k)
                \/ \E g \in Guards : CircExtended(c, g)
                \/ CircBuilt(c)
                \/ \E k \in Kinds \ {tor[c].kind}, b \in BOOLEAN : CircMinor(c, k, b)
                \/ \E failed, remote \in BOOLEAN : CircEnded(c, failed, remote)
                \/ \E report \in Reports : CircBw(c, report)
           \/ BwEvent \/ Tick \/ UNCHANGED vars
    PROVE  UNCHANGED <<conn, live_guard_conns, max_fake_id, inherited>>
<1> USE DEF connVars, connHistory
<1>1. ASSUME NEW c \in Circs, NEW k \in Kinds, CircLaunched(c, k)
      PROVE  UNCHANGED <<conn, live_guard_conns, max_fake_id, inherited>>
  BY <1>1 DEF CircLaunched
<1>2. ASSUME NEW c \in Circs, NEW g \in Guards, CircExtended(c, g)
      PROVE  UNCHANGED <<conn, live_guard_conns, max_fake_id, inherited>>
  BY <1>2 DEF CircExtended
<1>3. ASSUME NEW c \in Circs, CircBuilt(c)
      PROVE  UNCHANGED <<conn, live_guard_conns, max_fake_id, inherited>>
  BY <1>3 DEF CircBuilt
<1>4. ASSUME NEW c \in Circs, NEW k \in Kinds, NEW b \in BOOLEAN, CircMinor(c, k, b)
      PROVE  UNCHANGED <<conn, live_guard_conns, max_fake_id, inherited>>
  BY <1>4 DEF CircMinor
<1>5. ASSUME NEW c \in Circs, NEW failed \in BOOLEAN, NEW remote \in BOOLEAN,
             CircEnded(c, failed, remote)
      PROVE  UNCHANGED <<conn, live_guard_conns, max_fake_id, inherited>>
  BY <1>5 DEF CircEnded
<1>6. ASSUME NEW c \in Circs, NEW report \in Reports, CircBw(c, report)
      PROVE  UNCHANGED <<conn, live_guard_conns, max_fake_id, inherited>>
  BY <1>6 DEF CircBw
<1>7. CASE BwEvent \/ Tick
  BY <1>7 DEF BwEvent, Tick
<1>8. CASE UNCHANGED vars
  BY <1>8 DEF vars
<1> QED
  BY <1>1, <1>2, <1>3, <1>4, <1>5, <1>6, <1>7, <1>8

LEMMA ConnStep == ConnInv /\ [Next]_vars => ConnInv'
<1> SUFFICES ASSUME ConnInv, [Next]_vars PROVE ConnInv'
  OBVIOUS
<1>1. ASSUME UNCHANGED <<conn, live_guard_conns, max_fake_id, inherited>> PROVE ConnInv'
  <2>1. \A f : Standing(f) => Standing(f)'
    BY <1>1 DEF Standing, ConnectedIds, MadeUp
  <2>2. LiveExact'
    BY <1>1 DEF ConnInv, LiveExact, ConnectedIds, Started, MadeUp
  <2> QED
    BY <1>1, <2>1, <2>2 DEF ConnInv, ListedApart, MadeUp
<1>2. ASSUME NEW i \in ConnIds, NEW g \in Guards, ConnLaunched(i, g) PROVE ConnInv'
  <2>1. /\ conn[i].status = "none"
        /\ conn' = [conn EXCEPT ![i] = [guard |-> g, status |-> "launched"]]
        /\ UNCHANGED <<live_guard_conns, max_fake_id, inherited>>
    BY <1>2 DEF ConnLaunched, connVars, connHistory
  <2>2. /\ DOMAIN conn' = ConnIds
        /\ conn'[i].status = "launched"
        /\ \A j \in ConnIds : {"guard", "status"} \subseteq DOMAIN conn'[j]
        /\ \A j \in ConnIds \ {i} : conn'[j] = conn[j]
    BY <2>1 DEF ConnInv
  <2>3. /\ ConnectedIds' = ConnectedIds
        /\ \A j \in ConnectedIds : conn'[j] = conn[j]
    BY <2>1, <2>2 DEF ConnectedIds
  <2>4. Started \subseteq Started'
    BY <2>1, <2>2 DEF Started, NoConn
  <2>5. ASSUME NEW f, Standing(f) PROVE Standing(f)'
    BY <2>1, <2>3, <2>5 DEF Standing, MadeUp
  <2>6. LiveExact'
    BY <2>1, <2>3, <2>4 DEF ConnInv, LiveExact, MadeUp
  <2>7. ListedApart' => \E h : Standing(h)'
    BY <2>1, <2>5 DEF ConnInv, ListedApart, MadeUp
  <2> QED
    BY <2>1, <2>2, <2>6, <2>7 DEF ConnInv
<1>3. ASSUME NEW i \in ConnIds, ConnConnected(i) PROVE ConnInv'
  BY <1>3, ConnMade
<1>4. ASSUME NEW i \in ConnIds, ConnClosed(i) PROVE ConnInv'
  BY <1>4, ConnUnmade
<1> QED
  BY <1>1, <1>2, <1>3, <1>4, ConnFrame DEF Next

\* No outage is overlooked: when Tor has no connection the clock of the outage
\* runs, also for connections known by made-up identifiers only, in whatever
\* order they close, and when later ones get identifiers that were made up. Only
\* a listed connection whose own identifier was made up is excepted: the code
\* takes its end for that of another.
THEOREM NoOutageSilent == Spec => []NoSilentOutage
<1>1. Init => ConnInv
  BY ConnInit
<1>2. ConnInv /\ OutageInv => NoSilentOutage
  BY DEF ConnInv, ListedApart, Standing, OutageInv, OutagesHaveBeginnings,
     NoSilentOutage
<1> QED
  BY <1>1, <1>2, ConnStep, OutageInvariance, PTL DEF Spec

\* Without inherited connections, and while no connection has an identifier below
\* the length of the list, the live ones are exactly those of Tor.
THEOREM LiveConnsExact == Spec => []LiveExact
<1>1. Init => ConnInv
  BY ConnInit
<1>2. ConnInv => LiveExact
  BY DEF ConnInv
<1> QED
  BY <1>1, <1>2, ConnStep, PTL DEF Spec

-----------------------------------------------------------------------------
(* Types.                                                                  *)

TorType == [stage : {"none", "launched", "built", "gone"},
            kind : Kinds, guard : Guards \union {NoGuard},
            since : 0..MaxTime, total : Nat, dropped : Int]

StatType == [kind : Kinds, old_kind : Kinds, is_hsdir : BOOLEAN,
             is_serv_intro : BOOLEAN, in_use : BOOLEAN,
             built : BOOLEAN, created_at : StartTime..MaxTime,
             total : Nat, dropped : Int,
             guard_fp : Guards \union {NoGuard},
             possibly_destroyed_at : 0..MaxTime]

\* The clock, and the records of outages.
ClockTypeOK ==
    /\ now \in StartTime..MaxTime
    /\ {no_conns_since, no_circs_since, last_use} \subseteq 0..MaxTime
    /\ disconnected_conns \in BOOLEAN /\ disconnected_circs \in BOOLEAN

\* The circuits, and their entries.
CircTypeOK ==
    /\ tor \in [Circs -> TorType]
    /\ closing \subseteq Circs
    /\ Known \subseteq Circs
    /\ \A c \in Known : circs[c] \in StatType

\* The entries of live connections: each has a guard with a record.
LiveTypeOK ==
    /\ DOMAIN live_guard_conns \subseteq ConnIds \union 0..max_fake_id
    /\ \A e \in DOMAIN live_guard_conns : live_guard_conns[e] \in DOMAIN guards
    /\ \A g \in DOMAIN guards : guards[g].killed_conn_at <= MaxTime
    /\ max_fake_id \in Nat \union {-1}
    /\ inherited \subseteq ConnIds

TypeInv == ClockTypeOK /\ CircTypeOK /\ LiveTypeOK

LEMMA ClockInit == Init => ClockTypeOK
<1> SUFFICES ASSUME Init PROVE ClockTypeOK
  OBVIOUS
<1>1. StartTime \in 0..MaxTime /\ MaxTime \in Nat /\ StartTime \in Nat
  BY BandLimitsAssumption, Numbers
<1>2. now = StartTime /\ no_conns_since \in {StartTime, Never}
      /\ no_circs_since = Never /\ last_use = StartTime
      /\ disconnected_conns = FALSE /\ disconnected_circs = FALSE
  BY DEF Init, TorInit
<1>3. now \in StartTime..MaxTime /\ Never \in 0..MaxTime
  BY <1>1, <1>2 DEF Never
<1> QED
  BY <1>1, <1>2, <1>3 DEF ClockTypeOK

LEMMA CircInit == Init => CircTypeOK
<1> SUFFICES ASSUME Init PROVE CircTypeOK
  OBVIOUS
<1>1. conn \in [ConnIds -> {NoConn} \union
                   [guard : Guards, status : {"launched", "connected"}]]
  BY DEF Init, TorInit
<1>2. ConnectedGuards \subseteq Guards
  BY <1>1 DEF ConnectedGuards, ConnectedIds, NoConn
<1>3. tor \in [Circs -> {Unused} \union
                  [stage : {"launched", "built"}, kind : Kinds,
                   guard : ConnectedGuards, since : {Never},
                   total : {0}, dropped : {0}]]
  BY DEF Init, TorInit
<1>4. Unused \in TorType
  BY BandSetsAssumption, Numbers DEF Unused, TorType, Never
<1>5. [stage : {"launched", "built"}, kind : Kinds, guard : ConnectedGuards,
       since : {Never}, total : {0}, dropped : {0}] \subseteq TorType
  BY <1>2, Numbers DEF TorType, Never
<1>6. closing = {} /\ Known = {}
  BY DEF Init, TorInit, Known
<1> QED
  BY <1>3, <1>4, <1>5, <1>6 DEF CircTypeOK

LEMMA LiveInit == Init => LiveTypeOK
<1> SUFFICES ASSUME Init PROVE LiveTypeOK
  OBVIOUS
<1>1. /\ max_fake_id = Cardinality(Started) - 1
      /\ Cardinality(Started) \in Nat
  <2>1. Started \in SUBSET ConnIds /\ IsFiniteSet(ConnIds)
    BY BandSetsAssumption DEF Started
  <2> QED
    BY <2>1, FS_Subset, FS_CardinalityType DEF Init
<1>2. PICK places \in Bijection(Started, 0..Cardinality(Started) - 1) :
        live_guard_conns = [p \in {places[i] : i \in ConnectedIds} |->
                              conn[CHOOSE i \in ConnectedIds : places[i] = p].guard]
  <2>1. ListConns
    BY DEF Init
  <2> QED
    BY <2>1 DEF ListConns
<1> DEFINE first(p) == CHOOSE i \in ConnectedIds : places[i] = p
<1>3. \A p \in {places[i] : i \in ConnectedIds} : first(p) \in ConnectedIds
  OBVIOUS
<1> HIDE DEF first
<1>4. /\ DOMAIN live_guard_conns = {places[i] : i \in ConnectedIds}
      /\ \A p \in DOMAIN live_guard_conns : live_guard_conns[p] = conn[first(p)].guard
  BY <1>2 DEF first
<1>5. ConnectedIds \subseteq Started
  BY DEF ConnectedIds, Started, NoConn
<1>6. DOMAIN live_guard_conns \subseteq 0..max_fake_id
  <2>1. places \in [Started -> 0..Cardinality(Started) - 1]
    BY DEF Bijection, Injection
  <2> QED
    BY <1>1, <1>4, <1>5, <2>1
<1>7. guards = [g \in {conn[i].guard : i \in Started} |-> BwGuardStat]
      /\ inherited = ConnectedIds
  BY DEF Init
<1>8. \A e \in DOMAIN live_guard_conns : live_guard_conns[e] \in DOMAIN guards
  BY <1>3, <1>4, <1>5, <1>7
<1>9. \A g \in DOMAIN guards : guards[g].killed_conn_at <= MaxTime
  BY <1>7, Numbers DEF BwGuardStat, Never
<1>10. inherited \subseteq ConnIds
  BY <1>7 DEF ConnectedIds
<1> QED
  BY <1>1, <1>6, <1>8, <1>9, <1>10 DEF LiveTypeOK

LEMMA ClockStep == TypeInv /\ [Next]_vars => ClockTypeOK'
<1> SUFFICES ASSUME TypeInv, [Next]_vars PROVE ClockTypeOK'
  OBVIOUS
<1> USE Numbers DEF TypeInv, ClockTypeOK
<1>1. /\ now \in 0..MaxTime /\ Never \in 0..MaxTime
  BY DEF Never
<1>2. ASSUME NEW i \in ConnIds,
             \/ \E g \in Guards : ConnLaunched(i, g)
             \/ ConnConnected(i)
             \/ ConnClosed(i)
      PROVE  ClockTypeOK'
  <2>1. UNCHANGED <<now, no_circs_since, last_use, disconnected_circs>>
    BY <1>2 DEF ConnLaunched, ConnConnected, ConnClosed, circOutage
  <2>2. no_conns_since' \in {Never, now, no_conns_since}
    BY <1>2 DEF ConnLaunched, ConnConnected, ConnClosed, connVars
  <2>3. disconnected_conns' = disconnected_conns \/ disconnected_conns' = FALSE
    BY <1>2 DEF ConnLaunched, ConnConnected, ConnClosed, connVars
  <2> QED
    BY <1>1, <2>1, <2>2, <2>3
<1>3. ASSUME NEW c \in Circs,
             \/ \E k \in Kinds : CircLaunched(c, k)
             \/ \E g \in Guards : CircExtended(c, g)
             \/ CircBuilt(c)
             \/ \E k \in Kinds \ {tor[c].kind}, b \in BOOLEAN : CircMinor(c, k, b)
             \/ \E failed, remote \in BOOLEAN : CircEnded(c, failed, remote)
             \/ \E report \in Reports : CircBw(c, report)
      PROVE  ClockTypeOK'
  <2>1. /\ UNCHANGED <<now, live_guard_conns, no_conns_since, disconnected_conns>>
        /\ \/ UNCHANGED circOutage
           \/ CircuitUse
           \/ no_circs_since = Never /\ no_circs_since' = now
              /\ UNCHANGED <<disconnected_circs, last_use>>
    BY <1>3, OutageCircs
  <2> QED
    BY <1>1, <2>1 DEF circOutage, CircuitUse
<1>4. CASE BwEvent
  <2>1. UNCHANGED <<now, no_conns_since, no_circs_since, last_use>>
    BY <1>4 DEF BwEvent
  <2>2. disconnected_conns' = (disconnected_conns \/ ConnOutage)
        /\ disconnected_circs' = (disconnected_circs \/ CircOutage)
    BY <1>4 DEF BwEvent
  <2>3. disconnected_conns' \in BOOLEAN /\ disconnected_circs' \in BOOLEAN
    BY <2>2
  <2> QED
    BY <2>1, <2>3
<1>5. CASE Tick
  BY <1>5 DEF Tick, connVars, circOutage
<1>6. CASE UNCHANGED vars
  BY <1>6 DEF vars, connVars, circOutage
<1> QED
  BY <1>2, <1>3, <1>4, <1>5, <1>6 DEF Next

\* The circuit events leave the connections alone, and the records of guards but
\* for the count of one.
LEMMA LiveStep == TypeInv /\ KillInv /\ [Next]_vars => LiveTypeOK'
<1> SUFFICES ASSUME TypeInv, KillInv, [Next]_vars PROVE LiveTypeOK'
  OBVIOUS
<1> USE DEF TypeInv, LiveTypeOK
<1>1. /\ now \in Nat /\ now <= MaxTime /\ Never <= MaxTime
      /\ guards \in [DOMAIN guards -> [killed_conns : Nat, killed_conn_at : Nat]]
  BY Numbers DEF ClockTypeOK, Never, KillInv, GuardsTypeOK
<1>2. ASSUME NEW g, guards' = WithGuard(g)
      PROVE  /\ DOMAIN guards' = DOMAIN guards \union {g}
             /\ \A h \in DOMAIN guards' : guards'[h].killed_conn_at <= MaxTime
  BY <1>1, <1>2 DEF WithGuard, BwGuardStat
<1>3. ASSUME NEW i \in ConnIds, NEW g \in Guards, ConnLaunched(i, g) PROVE LiveTypeOK'
  <2>1. guards' = WithGuard(g) /\ UNCHANGED <<live_guard_conns, max_fake_id, inherited>>
    BY <1>3 DEF ConnLaunched, connVars, connHistory
  <2> QED
    BY <1>2, <2>1
<1>4. ASSUME NEW i \in ConnIds, ConnConnected(i) PROVE LiveTypeOK'
  <2>1. /\ guards' = WithGuard(conn[i].guard) /\ UNCHANGED <<max_fake_id, inherited>>
        /\ live_guard_conns' = [e \in DOMAIN live_guard_conns \union {i} |->
                                  IF e = i THEN conn[i].guard ELSE live_guard_conns[e]]
    BY <1>4 DEF ConnConnected, connHistory
  <2>2. /\ DOMAIN guards' = DOMAIN guards \union {conn[i].guard}
        /\ \A h \in DOMAIN guards' : guards'[h].killed_conn_at <= MaxTime
    BY <1>2, <2>1
  <2> QED
    BY <2>1, <2>2
<1>5. ASSUME NEW i \in ConnIds, ConnClosed(i) PROVE LiveTypeOK'
  <2> DEFINE g == conn[i].guard
             left == DOMAIN live_guard_conns \ EntryOf(i)
             hit == {live_guard_conns[e] : e \in EntryOf(i)}
             marked == IF EntryOf(i) = {} THEN {}
                       ELSE {c \in Known : circs[c].in_use /\ circs[c].guard_fp = g}
  <2>1. /\ live_guard_conns' = [e \in left |-> live_guard_conns[e]]
        /\ UNCHANGED <<max_fake_id, inherited>>
    BY <1>5 DEF ConnClosed, Restrict
  <2>2. guards' = [h \in DOMAIN WithGuard(g) |->
                     IF h \in hit /\ marked # {}
                     THEN [WithGuard(g)[h] EXCEPT !.killed_conn_at = now]
                     ELSE WithGuard(g)[h]]
    BY <1>5 DEF ConnClosed
  <2>3. PICK before : before = WithGuard(g)
    OBVIOUS
  <2>4. /\ DOMAIN before = DOMAIN guards \union {g}
        /\ \A h \in DOMAIN before :
             before[h] \in [killed_conns : Nat, killed_conn_at : 0..MaxTime]
    BY <1>1, <2>3, Numbers DEF WithGuard, BwGuardStat, Never
  <2> HIDE DEF hit, marked
  <2>5. /\ DOMAIN guards' = DOMAIN before
        /\ \A h \in DOMAIN before :
             guards'[h] = before[h] \/ guards'[h] = [before[h] EXCEPT !.killed_conn_at = now]
    BY <2>2, <2>3
  <2>6. \A h \in DOMAIN guards' : guards'[h].killed_conn_at <= MaxTime
    <3> SUFFICES ASSUME NEW h \in DOMAIN guards'
                 PROVE  guards'[h].killed_conn_at <= MaxTime
      OBVIOUS
    <3>1. before[h] \in [killed_conns : Nat, killed_conn_at : 0..MaxTime]
      BY <2>4, <2>5
    <3>2. CASE guards'[h] = before[h]
      BY <3>1, <3>2, Numbers
    <3>3. CASE guards'[h] = [before[h] EXCEPT !.killed_conn_at = now]
      BY <1>1, <3>1, <3>3
    <3> QED
      BY <2>5, <3>2, <3>3
  <2> QED
    BY <2>1, <2>4, <2>5, <2>6
<1>6. ASSUME NEW c \in Circs, NEW failed \in BOOLEAN, NEW remote \in BOOLEAN,
             CircEnded(c, failed, remote)
      PROVE  LiveTypeOK'
  <2>1. UNCHANGED <<live_guard_conns, max_fake_id, inherited>>
    BY <1>6 DEF CircEnded, connVars, connHistory
  <2>2. guards' = guards \/ guards' = CircuitDestroyed(tor[c].guard)
    BY <1>6 DEF CircEnded
  <2>3. PICK g : g = tor[c].guard
    OBVIOUS
  <2>4. CASE guards' = [guards EXCEPT ![g] = [killed_conns |-> @.killed_conns + 1,
                                             killed_conn_at |-> Never]]
    BY <1>1, <2>1, <2>4
  <2> QED
    BY <2>1, <2>2, <2>3, <2>4 DEF CircuitDestroyed
<1>7. ASSUME UNCHANGED <<live_guard_conns, guards, max_fake_id, inherited>>
      PROVE  LiveTypeOK'
  BY <1>7
<1>8. ASSUME NEW c \in Circs,
             \/ \E k \in Kinds : CircLaunched(c, k)
             \/ \E g \in Guards : CircExtended(c, g)
             \/ CircBuilt(c)
             \/ \E k \in Kinds \ {tor[c].kind}, b \in BOOLEAN : CircMinor(c, k, b)
             \/ \E report \in Reports : CircBw(c, report)
      PROVE  UNCHANGED guards
  BY <1>8 DEF CircLaunched, CircExtended, CircBuilt, CircMinor, CircBw
<1>9. CASE BwEvent \/ Tick
  BY <1>7, <1>9 DEF BwEvent, Tick, connVars, connHistory
<1>10. CASE UNCHANGED vars
  BY <1>7, <1>10 DEF vars, connVars, connHistory
<1> QED
  BY <1>3, <1>4, <1>5, <1>6, <1>7, <1>8, <1>9, <1>10, ConnFrame DEF Next

\* A step that changes one circuit, and its entry or none.
LEMMA CircOne ==
    ASSUME CircTypeOK, NEW c \in Circs, NEW t \in TorType, NEW stat \in StatType,
           tor' = [tor EXCEPT ![c] = t],
           closing' \subseteq Circs,
           circs' = WithCirc(c, stat) \/ UNCHANGED circs
    PROVE  CircTypeOK'
<1>1. tor' \in [Circs -> TorType]
  BY DEF CircTypeOK
<1>2. DOMAIN circs' \subseteq Circs
  BY DEF CircTypeOK, WithCirc, Known
<1>3. \A d \in DOMAIN circs' : circs'[d] \in StatType
  BY DEF CircTypeOK, WithCirc, Known
<1> QED
  BY <1>1, <1>2, <1>3 DEF CircTypeOK, Known

LEMMA ObservedTyped ==
    ASSUME ClockTypeOK, CircTypeOK, NEW c \in Circs, NEW k \in Kinds
    PROVE  Observed(c, k) \in StatType
<1>1. CASE c \in Known
  BY <1>1 DEF Observed, CircTypeOK, StatType
<1>2. CASE c \notin Known
  <2>1. now \in StartTime..MaxTime /\ Never \in 0..MaxTime
    BY Numbers DEF ClockTypeOK, Never
  <2>2. (k.purpose \in {"HS_CLIENT_HSDIR", "HS_SERVICE_HSDIR"}) \in BOOLEAN
        /\ (k.purpose = "HS_SERVICE_INTRO") \in BOOLEAN
    OBVIOUS
  <2>3. BwCircuitStat(k) \in StatType
    BY <2>1, <2>2 DEF BwCircuitStat, StatType
  <2> QED
    BY <1>2, <2>3 DEF Observed
<1> QED
  BY <1>1, <1>2

LEMMA CircLaunchedTyped ==
    ASSUME ClockTypeOK, CircTypeOK, NEW c \in Circs, NEW k \in Kinds, CircLaunched(c, k)
    PROVE  CircTypeOK'
<1>1. PICK t : t = [tor[c] EXCEPT !.stage = "launched", !.kind = k, !.since = now]
  OBVIOUS
<1>2. t \in TorType
  <2>1. tor[c] \in TorType
    BY DEF CircTypeOK
  <2>2. now \in 0..MaxTime
    BY Numbers DEF ClockTypeOK
  <2> QED
    BY <1>1, <2>1, <2>2 DEF TorType
<1>3. tor' = [tor EXCEPT ![c] = t]
  BY <1>1 DEF CircLaunched, CircTypeOK
<1>4. circs' = WithCirc(c, Observed(c, k)) /\ UNCHANGED closing
  BY DEF CircLaunched
<1> QED
  BY <1>2, <1>3, <1>4, ObservedTyped, CircOne DEF CircTypeOK

LEMMA CircExtendedTyped ==
    ASSUME ClockTypeOK, CircTypeOK, NEW c \in Circs, NEW g \in Guards, CircExtended(c, g)
    PROVE  CircTypeOK'
<1>1. tor[c] \in TorType
  BY DEF CircTypeOK
<1>2. PICK t : t = [tor[c] EXCEPT !.guard = g]
  OBVIOUS
<1>3. t \in TorType
  BY <1>1, <1>2 DEF TorType
<1>4. tor' = [tor EXCEPT ![c] = t]
  BY <1>2 DEF CircExtended, CircTypeOK
<1>5. /\ circs' = WithCirc(c, Observed(c, tor[c].kind)) /\ UNCHANGED closing
      /\ tor[c].kind \in Kinds
  BY <1>1 DEF CircExtended, TorType
<1> QED
  BY <1>3, <1>4, <1>5, ObservedTyped, CircOne DEF CircTypeOK

LEMMA CircBuiltTyped ==
    ASSUME ClockTypeOK, CircTypeOK, NEW c \in Circs, CircBuilt(c)
    PROVE  CircTypeOK'
<1>1. tor[c] \in TorType
  BY DEF CircTypeOK
<1>2. PICK t : t = [tor[c] EXCEPT !.stage = "built"]
  OBVIOUS
<1>3. t \in TorType
  BY <1>1, <1>2 DEF TorType
<1>4. tor' = [tor EXCEPT ![c] = t]
  BY <1>2 DEF CircBuilt, CircTypeOK
<1>5. PICK seen : seen = Observed(c, tor[c].kind)
  OBVIOUS
<1>6. seen \in StatType /\ tor[c].guard \in Guards \union {NoGuard}
  BY <1>1, <1>5, ObservedTyped DEF TorType
<1>7. PICK stat :
        stat = IF IsHsUse(tor[c].kind.purpose)
               THEN [[seen EXCEPT !.built = TRUE]
                       EXCEPT !.in_use = TRUE, !.guard_fp = tor[c].guard]
               ELSE [seen EXCEPT !.built = TRUE]
  OBVIOUS
<1>8. stat \in StatType
  <2>1. [seen EXCEPT !.built = TRUE] \in StatType
    BY <1>6 DEF StatType
  <2>2. PICK built : built = [seen EXCEPT !.built = TRUE]
    OBVIOUS
  <2>3. [built EXCEPT !.in_use = TRUE, !.guard_fp = tor[c].guard] \in StatType
    BY <1>6, <2>1, <2>2 DEF StatType
  <2> QED
    BY <1>7, <2>1, <2>2, <2>3
<1>9. circs' = WithCirc(c, stat) /\ UNCHANGED closing
  BY <1>5, <1>7 DEF CircBuilt
<1> QED
  BY <1>3, <1>4, <1>8, <1>9, CircOne DEF CircTypeOK

LEMMA CircMinorTyped ==
    ASSUME CircTypeOK, NEW c \in Circs, NEW k \in Kinds, NEW b \in BOOLEAN,
           CircMinor(c, k, b)
    PROVE  CircTypeOK'
<1>1. tor[c] \in TorType
  BY DEF CircTypeOK
<1>2. PICK t : t = [tor[c] EXCEPT !.kind = k]
  OBVIOUS
<1>3. t \in TorType
  BY <1>1, <1>2 DEF TorType
<1>4. tor' = [tor EXCEPT ![c] = t] /\ UNCHANGED closing
  BY <1>2 DEF CircMinor, CircTypeOK
<1>5. CASE c \notin Known
  <2>1. UNCHANGED circs
    BY <1>5 DEF CircMinor
  <2>2. \A d \in Circs : tor'[d] \in TorType
    BY <1>3, <1>4 DEF CircTypeOK
  <2> QED
    BY <1>4, <2>1, <2>2 DEF CircTypeOK, Known
<1>6. CASE c \in Known
  <2>1. PICK stat : stat = circs[c]
    OBVIOUS
  <2>2. stat \in StatType /\ tor[c].kind \in Kinds
        /\ tor[c].guard \in Guards \union {NoGuard}
    BY <1>1, <1>6, <2>1 DEF CircTypeOK, TorType
  <2>3. PICK hsdir, intro :
          /\ hsdir = (stat.is_hsdir \/ BwCircuitStat(k).is_hsdir)
          /\ intro = (stat.is_serv_intro \/ BwCircuitStat(k).is_serv_intro)
    OBVIOUS
  <2>4. hsdir \in BOOLEAN /\ intro \in BOOLEAN
    BY <2>3
  <2>5. PICK seen :
          seen = [stat EXCEPT !.kind = k, !.old_kind = tor[c].kind,
                              !.is_hsdir = hsdir, !.is_serv_intro = intro]
    OBVIOUS
  <2>6. seen \in StatType
    BY <2>2, <2>4, <2>5 DEF StatType
  <2>7. [seen EXCEPT !.in_use = TRUE, !.guard_fp = tor[c].guard] \in StatType
    BY <2>2, <2>6 DEF StatType
  <2>8. seen = [circs[c] EXCEPT
                  !.kind = k, !.old_kind = tor[c].kind,
                  !.is_hsdir = @ \/ BwCircuitStat(k).is_hsdir,
                  !.is_serv_intro = @ \/ BwCircuitStat(k).is_serv_intro]
    <3>1. circs[c] \in StatType
      BY <2>1, <2>2
    <3> QED
      BY <2>1, <2>3, <2>5, <3>1 DEF StatType
  <2>9. circs' = WithCirc(c, seen)
        \/ circs' = WithCirc(c, [seen EXCEPT !.in_use = TRUE, !.guard_fp = tor[c].guard])
    BY <1>6, <2>8 DEF CircMinor
  <2> QED
    BY <1>3, <1>4, <2>6, <2>7, <2>9, CircOne DEF CircTypeOK
<1> QED
  BY <1>5, <1>6

LEMMA CircBwTyped ==
    ASSUME CircTypeOK, NEW c \in Circs, NEW report \in Reports, CircBw(c, report)
    PROVE  CircTypeOK'
<1>1. tor[c] \in TorType
  BY DEF CircTypeOK
<1>2. PICK cells, drops : cells = report.read + report.written
                          /\ drops = report.read - report.payload
  OBVIOUS
<1>3. cells \in Nat /\ drops \in Int
  BY <1>2, BandSetsAssumption
<1>4. PICK t : t = [tor[c] EXCEPT !.total = @ + cells, !.dropped = @ + drops]
  OBVIOUS
<1>5. t \in TorType
  <2>1. PICK total \in Nat, dropped \in Int :
          total = tor[c].total + cells /\ dropped = tor[c].dropped + drops
    BY <1>1, <1>3 DEF TorType
  <2>2. t = [tor[c] EXCEPT !.total = total, !.dropped = dropped]
    BY <1>1, <1>4, <2>1 DEF TorType
  <2> QED
    BY <1>1, <2>2 DEF TorType
<1>6. tor' = [tor EXCEPT ![c] = t]
  BY <1>2, <1>4 DEF CircBw, CircTypeOK
<1>7. closing' \subseteq Circs
  BY DEF CircBw, TryClose, OpenCircs, CircTypeOK
<1>8. CASE c \in Known
  <2>1. PICK stat : stat = [circs[c] EXCEPT !.total = @ + cells, !.dropped = @ + drops]
    OBVIOUS
  <2>2. stat \in StatType
    <3>1. circs[c] \in StatType
      BY <1>8 DEF CircTypeOK
    <3>2. PICK total \in Nat, dropped \in Int :
            total = circs[c].total + cells /\ dropped = circs[c].dropped + drops
      BY <1>3, <3>1 DEF StatType
    <3>3. stat = [circs[c] EXCEPT !.total = total, !.dropped = dropped]
      BY <2>1, <3>1, <3>2 DEF StatType
    <3> QED
      BY <3>1, <3>3 DEF StatType
  <2>3. circs' = WithCirc(c, stat)
    BY <1>2, <1>8, <2>1 DEF CircBw
  <2> QED
    BY <1>5, <1>6, <1>7, <2>2, <2>3, CircOne
<1>9. CASE c \notin Known
  <2>1. UNCHANGED circs
    BY <1>9 DEF CircBw
  <2>2. tor' \in [Circs -> TorType]
    BY <1>5, <1>6 DEF CircTypeOK
  <2> QED
    BY <1>7, <2>1, <2>2 DEF CircTypeOK, Known
<1> QED
  BY <1>8, <1>9

LEMMA CircEndedTyped ==
    ASSUME CircTypeOK, NEW c \in Circs, NEW failed \in BOOLEAN, NEW remote \in BOOLEAN,
           CircEnded(c, failed, remote)
    PROVE  CircTypeOK'
<1>1. tor' = [tor EXCEPT ![c].stage = "gone"]
  BY DEF CircEnded
<1>2. tor' \in [Circs -> TorType]
  BY <1>1 DEF CircTypeOK, TorType
<1>3. closing' \subseteq Circs
  BY DEF CircEnded, CircTypeOK
<1>4. circs' = [d \in Known \ {c} |-> circs[d]]
  BY DEF CircEnded, Restrict
<1> QED
  BY <1>2, <1>3, <1>4 DEF CircTypeOK, Known

LEMMA CircClosedTyped ==
    ASSUME ClockTypeOK, CircTypeOK, NEW i \in ConnIds, ConnClosed(i)
    PROVE  CircTypeOK'
<1>1. PICK marked \in SUBSET Known :
        circs' = [c \in Known |->
                    IF c \in marked
                    THEN [circs[c] EXCEPT !.possibly_destroyed_at = now]
                    ELSE circs[c]]
  <2> DEFINE S == IF EntryOf(i) = {} THEN {}
                  ELSE {c \in Known : circs[c].in_use /\ circs[c].guard_fp = conn[i].guard}
  <2>1. circs' = [c \in Known |->
                    IF c \in S
                    THEN [circs[c] EXCEPT !.possibly_destroyed_at = now]
                    ELSE circs[c]]
    BY DEF ConnClosed
  <2>2. S \subseteq Known
    OBVIOUS
  <2> HIDE DEF S
  <2> QED
    BY <2>1, <2>2
<1>2. now \in 0..MaxTime
  BY Numbers DEF ClockTypeOK
<1>3. \A c \in Known : [circs[c] EXCEPT !.possibly_destroyed_at = now] \in StatType
  BY <1>2 DEF CircTypeOK, StatType
<1>4. UNCHANGED <<tor, closing>>
  BY DEF ConnClosed
<1> QED
  BY <1>1, <1>3, <1>4 DEF CircTypeOK, Known

LEMMA CircStep == TypeInv /\ [Next]_vars => CircTypeOK'
<1> SUFFICES ASSUME TypeInv, [Next]_vars PROVE CircTypeOK'
  OBVIOUS
<1> USE DEF TypeInv
<1>1. ASSUME UNCHANGED <<tor, circs>>, closing' \subseteq Circs PROVE CircTypeOK'
  BY <1>1 DEF CircTypeOK, Known
<1>2. ASSUME NEW i \in ConnIds,
             (\E g \in Guards : ConnLaunched(i, g)) \/ ConnConnected(i)
      PROVE  CircTypeOK'
  BY <1>1, <1>2 DEF ConnLaunched, ConnConnected, CircTypeOK
<1>3. CASE BwEvent
  BY <1>1, <1>3 DEF BwEvent, TryClose, OpenCircs, CircTypeOK
<1>4. CASE Tick \/ UNCHANGED vars
  BY <1>1, <1>4 DEF Tick, vars, CircTypeOK
<1> QED
  BY <1>2, <1>3, <1>4, CircClosedTyped, CircLaunchedTyped, CircExtendedTyped,
     CircBuiltTyped, CircMinorTyped, CircEndedTyped, CircBwTyped DEF Next

\* Every record of the monitor, of Tor and of the history is of its type: no time
\* lies beyond the clock's bound, and every live connection has a guard whose
\* record exists, so that the handlers' look-ups do not fail.
THEOREM BandTypes == Spec => []TypeOK
<1>1. Init => TypeInv
  BY ClockInit, CircInit, LiveInit DEF TypeInv
<1>2. KillInv /\ TypeInv /\ [Next]_vars => TypeInv'
  BY ClockStep, CircStep, LiveStep DEF TypeInv
<1>3. KillInv /\ TypeInv => TypeOK
  <2> SUFFICES ASSUME KillInv, TypeInv PROVE TypeOK
    OBVIOUS
  <2>1. \A g \in DOMAIN guards :
          guards[g] \in [killed_conns : Nat, killed_conn_at : 0..MaxTime]
    BY Numbers DEF KillInv, GuardsTypeOK, TypeInv, LiveTypeOK
  <2>2. {disconnected_conns, disconnected_circs} \subseteq BOOLEAN
    BY DEF TypeInv, ClockTypeOK, LiveTypeOK
  <2> QED
    BY <2>1, <2>2 DEF KillInv, GuardsTypeOK, TypeInv, ClockTypeOK, CircTypeOK,
       LiveTypeOK, TypeOK, TorType, StatType
<1> QED
  BY <1>1, <1>2, <1>3, KillInit, KillStep, PTL DEF Spec

-----------------------------------------------------------------------------
(* The record that circuit_destroyed looks up.                             *)

\* An entry that is in use knows the guard of its circuit, and one that may have
\* died with a connection has a guard with a record in G.
Traced(stat, t, G) ==
    /\ stat.in_use => stat.guard_fp = t.guard /\ t.guard # NoGuard
    /\ stat.possibly_destroyed_at # Never => stat.in_use /\ t.guard \in G

TraceInv == \A c \in Known : Traced(circs[c], tor[c], DOMAIN guards)

\* A step of one circuit.
LEMMA TraceOne ==
    ASSUME TraceInv, NEW c \in Circs, UNCHANGED guards,
           \A d \in Known \ {c} : tor'[d] = tor[d],
           \/ \E stat : /\ circs' = WithCirc(c, stat)
                        /\ Traced(stat, tor'[c], DOMAIN guards)
           \/ UNCHANGED circs /\ c \notin Known
    PROVE  TraceInv'
BY DEF TraceInv, WithCirc, Known

\* The entry that an event finds or makes.
LEMMA TraceObserved ==
    ASSUME CircTypeOK, TraceInv, NEW c \in Circs, NEW k, NEW t,
           \/ t.guard = tor[c].guard
           \/ tor[c].guard = NoGuard
    PROVE  Traced(Observed(c, k), t, DOMAIN guards)
<1>1. CASE c \in Known
  <2>1. circs[c] \in StatType /\ Traced(circs[c], tor[c], DOMAIN guards)
    BY <1>1 DEF CircTypeOK, TraceInv
  <2>2. PICK stat : stat = [circs[c] EXCEPT !.kind = k]
    OBVIOUS
  <2>3. /\ stat.in_use = circs[c].in_use /\ stat.guard_fp = circs[c].guard_fp
        /\ stat.possibly_destroyed_at = circs[c].possibly_destroyed_at
    BY <2>1, <2>2 DEF StatType
  <2> QED
    BY <1>1, <2>1, <2>2, <2>3 DEF Observed, Traced
<1>2. CASE c \notin Known
  BY <1>2 DEF Observed, BwCircuitStat, Traced
<1> QED
  BY <1>1, <1>2

LEMMA TraceMinor ==
    ASSUME CircTypeOK, TraceInv, NEW c \in Circs, NEW k \in Kinds, NEW b \in BOOLEAN,
           CircMinor(c, k, b)
    PROVE  TraceInv'
<1>1. /\ UNCHANGED guards /\ tor' = [tor EXCEPT ![c].kind = k]
      /\ c \notin Known => UNCHANGED circs
  BY DEF CircMinor
<1>2. /\ tor'[c].guard = tor[c].guard
      /\ \A d \in Known \ {c} : tor'[d] = tor[d]
  BY <1>1 DEF CircTypeOK, TorType
<1>3. CASE c \in Known
  <2>1. circs[c] \in StatType /\ Traced(circs[c], tor[c], DOMAIN guards)
    BY <1>3 DEF CircTypeOK, TraceInv
  <2>2. PICK seen :
          seen = [circs[c] EXCEPT
                    !.kind = k, !.old_kind = tor[c].kind,
                    !.is_hsdir = @ \/ BwCircuitStat(k).is_hsdir,
                    !.is_serv_intro = @ \/ BwCircuitStat(k).is_serv_intro]
    OBVIOUS
  <2>3. /\ seen.in_use = circs[c].in_use /\ seen.guard_fp = circs[c].guard_fp
        /\ seen.possibly_destroyed_at = circs[c].possibly_destroyed_at
        /\ DOMAIN seen = DOMAIN circs[c]
    BY <2>1, <2>2 DEF StatType
  <2>4. PICK used : used = [seen EXCEPT !.in_use = TRUE, !.guard_fp = tor[c].guard]
    OBVIOUS
  <2>5. /\ used.in_use = TRUE /\ used.guard_fp = tor[c].guard
        /\ used.possibly_destroyed_at = circs[c].possibly_destroyed_at
    BY <2>1, <2>3, <2>4 DEF StatType
  <2>6. \/ circs' = WithCirc(c, seen)
        \/ circs' = WithCirc(c, used) /\ tor[c].guard # NoGuard
    BY <1>3, <2>2, <2>4 DEF CircMinor
  <2>7. Traced(seen, tor'[c], DOMAIN guards)
    BY <1>2, <2>1, <2>3 DEF Traced
  <2>8. tor[c].guard # NoGuard => Traced(used, tor'[c], DOMAIN guards)
    BY <1>2, <2>1, <2>5 DEF Traced
  <2> QED
    BY <1>1, <1>2, <2>6, <2>7, <2>8, TraceOne
<1>4. CASE c \notin Known
  BY <1>1, <1>2, <1>4, TraceOne
<1> QED
  BY <1>3, <1>4

LEMMA TraceClosed ==
    ASSUME CircTypeOK, TraceInv, NEW i \in ConnIds, ConnClosed(i)
    PROVE  TraceInv'
<1> DEFINE g == conn[i].guard
           marked == IF EntryOf(i) = {} THEN {}
                     ELSE {c \in Known : circs[c].in_use /\ circs[c].guard_fp = g}
<1>1. /\ circs' = [c \in Known |->
                     IF c \in marked
                     THEN [circs[c] EXCEPT !.possibly_destroyed_at = now]
                     ELSE circs[c]]
      /\ UNCHANGED tor
  BY DEF ConnClosed
<1>2. DOMAIN guards' = DOMAIN guards \union {g}
  BY DEF ConnClosed, WithGuard
<1>3. SUFFICES ASSUME NEW c \in Known PROVE Traced(circs'[c], tor[c], DOMAIN guards')
  BY <1>1 DEF TraceInv, Known
<1>4. circs[c] \in StatType /\ Traced(circs[c], tor[c], DOMAIN guards)
  BY DEF CircTypeOK, TraceInv
<1>5. CASE c \in marked
  <2>1. circs'[c] = [circs[c] EXCEPT !.possibly_destroyed_at = now]
    BY <1>1, <1>5
  <2>2. /\ circs'[c].in_use = circs[c].in_use
        /\ circs'[c].guard_fp = circs[c].guard_fp
    BY <1>4, <2>1 DEF StatType
  <2>3. circs[c].in_use /\ circs[c].guard_fp = g
    BY <1>5
  <2> QED
    BY <1>2, <1>4, <2>2, <2>3 DEF Traced
<1>6. CASE c \notin marked
  <2>1. circs'[c] = circs[c]
    BY <1>1, <1>6
  <2> QED
    BY <1>2, <1>4, <2>1 DEF Traced
<1> QED
  BY <1>5, <1>6

LEMMA TraceCircs ==
    ASSUME CircTypeOK, WatchInv, TraceInv, NEW c \in Circs,
           \/ \E k \in Kinds : CircLaunched(c, k)
           \/ \E g \in Guards : CircExtended(c, g)
           \/ CircBuilt(c)
           \/ \E k \in Kinds \ {tor[c].kind}, b \in BOOLEAN : CircMinor(c, k, b)
           \/ \E failed, remote \in BOOLEAN : CircEnded(c, failed, remote)
           \/ \E report \in Reports : CircBw(c, report)
    PROVE  TraceInv'
<1>1. ASSUME NEW k \in Kinds, CircLaunched(c, k) PROVE TraceInv'
  <2>1. /\ UNCHANGED guards /\ c \notin Known
        /\ circs' = WithCirc(c, Observed(c, k))
        /\ \A d \in Known \ {c} : tor'[d] = tor[d]
    BY <1>1 DEF CircLaunched, WatchInv, OpenCircs, CircTypeOK
  <2>2. Traced(Observed(c, k), tor'[c], DOMAIN guards)
    BY <2>1 DEF Observed, BwCircuitStat, Traced
  <2> QED
    BY <2>1, <2>2, TraceOne
<1>2. ASSUME NEW g \in Guards, CircExtended(c, g) PROVE TraceInv'
  <2>1. /\ UNCHANGED guards
        /\ circs' = WithCirc(c, Observed(c, tor[c].kind))
        /\ tor' = [tor EXCEPT ![c].guard = g]
        /\ tor[c].guard = g \/ tor[c].guard = NoGuard
    BY <1>2 DEF CircExtended
  <2>2. tor'[c].guard = g /\ \A d \in Known \ {c} : tor'[d] = tor[d]
    BY <2>1 DEF CircTypeOK, TorType
  <2>3. Traced(Observed(c, tor[c].kind), tor'[c], DOMAIN guards)
    BY <2>1, <2>2, TraceObserved
  <2> QED
    BY <2>1, <2>2, <2>3, TraceOne
<1>3. ASSUME CircBuilt(c) PROVE TraceInv'
  <2>1. PICK seen : seen = Observed(c, tor[c].kind)
    OBVIOUS
  <2>2. PICK built, used :
          /\ built = [seen EXCEPT !.built = TRUE]
          /\ used = [built EXCEPT !.in_use = TRUE, !.guard_fp = tor[c].guard]
    OBVIOUS
  <2>3. /\ UNCHANGED guards /\ tor[c].guard # NoGuard
        /\ tor' = [tor EXCEPT ![c].stage = "built"]
        /\ circs' = WithCirc(c, built) \/ circs' = WithCirc(c, used)
    BY <1>3, <2>1, <2>2 DEF CircBuilt
  <2>4. tor'[c].guard = tor[c].guard /\ \A d \in Known \ {c} : tor'[d] = tor[d]
    BY <2>3 DEF CircTypeOK, TorType
  <2>5. Traced(seen, tor'[c], DOMAIN guards)
    BY <2>1, <2>4, TraceObserved
  <2>6. {"in_use", "guard_fp", "possibly_destroyed_at"} \subseteq DOMAIN seen
    BY <2>1 DEF Observed, BwCircuitStat, CircTypeOK, StatType
  <2>7. /\ built.in_use = seen.in_use /\ built.guard_fp = seen.guard_fp
        /\ built.possibly_destroyed_at = seen.possibly_destroyed_at
        /\ used.in_use = TRUE /\ used.guard_fp = tor[c].guard
        /\ used.possibly_destroyed_at = seen.possibly_destroyed_at
    BY <2>2, <2>6
  <2>8. Traced(built, tor'[c], DOMAIN guards) /\ Traced(used, tor'[c], DOMAIN guards)
    BY <2>3, <2>4, <2>5, <2>7 DEF Traced
  <2> QED
    BY <2>3, <2>4, <2>8, TraceOne
<1>4. ASSUME NEW failed \in BOOLEAN, NEW remote \in BOOLEAN,
             CircEnded(c, failed, remote)
      PROVE  TraceInv'
  <2>1. /\ tor' = [tor EXCEPT ![c].stage = "gone"]
        /\ circs' = [d \in Known \ {c} |-> circs[d]]
        /\ guards' = guards \/ guards' = CircuitDestroyed(tor[c].guard)
    BY <1>4 DEF CircEnded, Restrict
  <2>2. DOMAIN guards' = DOMAIN guards
    BY <2>1 DEF CircuitDestroyed
  <2>3. \A d \in Known \ {c} : tor'[d] = tor[d] /\ circs'[d] = circs[d]
    BY <2>1 DEF CircTypeOK
  <2> QED
    BY <2>1, <2>2, <2>3 DEF TraceInv, Known
<1>5. ASSUME NEW report \in Reports, CircBw(c, report) PROVE TraceInv'
  <2> DEFINE cells == report.read + report.written
             drops == report.read - report.payload
  <2>1. PICK stat : stat = [circs[c] EXCEPT !.total = @ + cells, !.dropped = @ + drops]
    OBVIOUS
  <2>2. /\ UNCHANGED guards
        /\ tor' = [tor EXCEPT ![c].total = @ + cells, ![c].dropped = @ + drops]
        /\ IF c \in Known THEN circs' = WithCirc(c, stat) ELSE UNCHANGED circs
    BY <1>5, <2>1 DEF CircBw
  <2> HIDE DEF cells, drops
  <2>3. tor'[c].guard = tor[c].guard /\ \A d \in Known \ {c} : tor'[d] = tor[d]
    BY <2>2 DEF CircTypeOK, TorType
  <2>4. CASE c \in Known
    <3>1. circs[c] \in StatType /\ Traced(circs[c], tor[c], DOMAIN guards)
      BY <2>4 DEF CircTypeOK, TraceInv
    <3>2. /\ stat.in_use = circs[c].in_use /\ stat.guard_fp = circs[c].guard_fp
          /\ stat.possibly_destroyed_at = circs[c].possibly_destroyed_at
      BY <2>1, <3>1 DEF StatType
    <3>3. Traced(stat, tor'[c], DOMAIN guards)
      BY <2>3, <3>1, <3>2 DEF Traced
    <3> QED
      BY <2>2, <2>3, <2>4, <3>3, TraceOne
  <2>5. CASE c \notin Known
    BY <2>2, <2>3, <2>5, TraceOne
  <2> QED
    BY <2>4, <2>5
<1> QED
  BY <1>1, <1>2, <1>3, <1>4, <1>5, TraceMinor

LEMMA TraceStep == CircTypeOK /\ WatchInv /\ TraceInv /\ [Next]_vars => TraceInv'
<1> SUFFICES ASSUME CircTypeOK, WatchInv, TraceInv, [Next]_vars PROVE TraceInv'
  OBVIOUS
<1>1. ASSUME UNCHANGED <<tor, circs>>, DOMAIN guards \subseteq DOMAIN guards'
      PROVE  TraceInv'
  BY <1>1 DEF TraceInv, Traced, Known
<1>2. ASSUME NEW i \in ConnIds, NEW g \in Guards, ConnLaunched(i, g) PROVE TraceInv'
  BY <1>1, <1>2 DEF ConnLaunched, WithGuard
<1>3. ASSUME NEW i \in ConnIds, ConnConnected(i) PROVE TraceInv'
  BY <1>1, <1>3 DEF ConnConnected, WithGuard
<1>4. CASE BwEvent \/ Tick \/ UNCHANGED vars
  BY <1>1, <1>4 DEF BwEvent, Tick, vars
<1> QED
  BY <1>2, <1>3, <1>4, TraceClosed, TraceCircs DEF Next

\* circuit_destroyed (bandguards.py:184) takes the record of the guard of the
\* event's path as given: whenever a circuit is held to have died with its
\* connection there is one, whichever of the two events came first.
THEOREM DestroyedGuardKnown ==
    Spec => [][\A c \in Circs, failed, remote \in BOOLEAN :
                 CircEnded(c, failed, remote) /\ DiedWithConn(c, remote)
                   => tor[c].guard \in DOMAIN guards]_vars
<1>1. Init => CircTypeOK /\ TraceInv
  BY CircInit DEF Init, TraceInv, Known
<1>2. TraceInv =>
        \A c \in Circs, failed, remote \in BOOLEAN :
          CircEnded(c, failed, remote) /\ DiedWithConn(c, remote)
            => tor[c].guard \in DOMAIN guards
  BY DEF TraceInv, DiedWithConn, Traced
<1>3. Init => TypeInv
  BY ClockInit, CircInit, LiveInit DEF TypeInv
<1>4. KillInv /\ TypeInv /\ [Next]_vars => TypeInv'
  BY ClockStep, CircStep, LiveStep DEF TypeInv
<1>5. TypeInv => CircTypeOK
  BY DEF TypeInv
<1> QED
  BY <1>1, <1>2, <1>3, <1>4, <1>5, TraceStep, KillInit, KillStep,
     WatchInvariance, PTL DEF Spec

=============================================================================
