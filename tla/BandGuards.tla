------------------------------ MODULE BandGuards ------------------------------
(***************************************************************************)
(* The bandwidth monitor, src/src/vanguards/bandguards.py: it follows the  *)
(* connections and circuits of Tor by their events. It notices when Tor    *)
(* has no connection or fails all circuits, counts connections that were   *)
(* closed under a live circuit, and closes circuits that are too old,      *)
(* carry too much, or carry data that Tor drops.                           *)
(*                                                                         *)
(* An event is handled as it is posted: its arrived_at is the time. What   *)
(* is written and never read but by the log (conns_made, close_reasons,    *)
(* is_service, network_down_since, ...) is left out.                       *)
(***************************************************************************)
EXTENDS Integers, FiniteSets, Functions, FiniteSetsExt

CONSTANTS
    Guards,             \* the relays Tor connects to
    NoGuard,            \* guard_fp = None, an empty path
    ConnIds,            \* the identifiers Tor gives to its connections
    Circs,              \* the circuits Tor may have; an identifier is used once
    Kinds,              \* [purpose, hs_state], what a circuit may be used for
    Reports,            \* [read, payload, written], what CIRC_BW may report: the
                        \* cells read, those delivered or overhead, and written
    DestroyLag,         \* _MAX_CIRC_DESTROY_LAG_SECS
    ConnMaxDisconnected,\* CONN_MAX_DISCONNECTED_SECS
    CircMaxDisconnected,\* CIRC_MAX_DISCONNECTED_SECS
    MaxAge,             \* CIRC_MAX_AGE_HOURS, in units of the clock
    MaxTotal,           \* CIRC_MAX_MEGABYTES, in cells
    MaxHsdesc,          \* CIRC_MAX_HSDESC_KILOBYTES, in cells
    MaxServIntro,       \* CIRC_MAX_SERV_INTRO_KILOBYTES, in cells
    StartTime,          \* when the listeners are added
    MaxTime,            \* bound: the clock stops here
    MaxCells            \* bound: no circuit reads or writes more than this

Purposes == {"GENERAL", "HS_VANGUARDS", "PATH_BIAS_TESTING", "CIRCUIT_PADDING",
             "HS_CLIENT_HSDIR", "HS_CLIENT_INTRO", "HS_CLIENT_REND",
             "HS_SERVICE_HSDIR", "HS_SERVICE_INTRO", "HS_SERVICE_REND"}
Kind == [purpose : Purposes, hs_state : STRING]

ASSUME BandSetsAssumption ==
    /\ IsFiniteSet(Guards) /\ NoGuard \notin Guards
    /\ IsFiniteSet(Circs)
    /\ IsFiniteSet(ConnIds) /\ ConnIds \subseteq Nat
    /\ Kinds \subseteq Kind /\ Kinds # {}
    /\ Reports \subseteq [read : Nat, payload : Nat, written : Nat]

\* The clock is far from 0, which stands for "never" as it does in the code.
ASSUME BandLimitsAssumption ==
    /\ {DestroyLag, ConnMaxDisconnected, CircMaxDisconnected, MaxAge, MaxTotal,
        MaxHsdesc, MaxServIntro, MaxTime, MaxCells} \subseteq Nat
    /\ StartTime \in 0..MaxTime /\ StartTime > DestroyLag

VARIABLES
    \* Tor
    now,
    conn,               \* its connections
    tor,                \* its circuits
    closing,            \* the circuits it was asked to close
    \* BandwidthStats
    circs, live_guard_conns, guards, max_fake_id,
    no_conns_since, no_circs_since, disconnected_conns, disconnected_circs,
    \* history
    inherited,          \* the connections of before the listeners
    closures,           \* guard -> its entries that left live_guard_conns
    last_use            \* when a circuit was last built, extended or used

connVars == <<live_guard_conns, max_fake_id, no_conns_since, disconnected_conns>>
circOutage == <<no_circs_since, disconnected_circs, last_use>>
connHistory == <<inherited, closures>>
vars == <<now, conn, tor, closing, circs, guards, connVars, circOutage,
          connHistory>>

Never == 0

BwCircuitStat(k) ==
    [kind |-> k, old_kind |-> k,
     is_hsdir |-> k.purpose \in {"HS_CLIENT_HSDIR", "HS_SERVICE_HSDIR"},
     is_serv_intro |-> k.purpose = "HS_SERVICE_INTRO",
     in_use |-> FALSE, built |-> FALSE, created_at |-> now,
     total |-> 0, dropped |-> 0,
     guard_fp |-> NoGuard, possibly_destroyed_at |-> Never]

BwGuardStat == [killed_conns |-> 0, killed_conn_at |-> Never]

Unused == [stage |-> "none", kind |-> CHOOSE k \in Kinds : TRUE,
           guard |-> NoGuard, since |-> Never, total |-> 0, dropped |-> 0]
NoConn == [guard |-> NoGuard, status |-> "none"]

\* The circuits Tor has, the connections it has, and the guards at their ends.
OpenCircs == {c \in Circs : tor[c].stage \in {"launched", "built"}}
ConnectedIds == {i \in ConnIds : conn[i].status = "connected"}
ConnectedGuards == {conn[i].guard : i \in ConnectedIds}
Known == DOMAIN circs

\* A report that delivers more than was read is logged and counted like any
\* other: the dropped cells may be fewer than none.
TypeOK ==
    /\ now \in StartTime..MaxTime
    /\ conn \in [ConnIds -> [guard : Guards \union {NoGuard},
                             status : {"none", "launched", "connected", "gone"}]]
    /\ tor \in [Circs -> [stage : {"none", "launched", "built", "gone"},
                          kind : Kinds, guard : Guards \union {NoGuard},
                          since : 0..MaxTime, total : Nat, dropped : Int]]
    /\ closing \subseteq Circs
    /\ Known \subseteq Circs
    /\ \A c \in Known :
         circs[c] \in [kind : Kinds, old_kind : Kinds, is_hsdir : BOOLEAN,
                       is_serv_intro : BOOLEAN, in_use : BOOLEAN,
                       built : BOOLEAN, created_at : StartTime..MaxTime,
                       total : Nat, dropped : Int,
                       guard_fp : Guards \union {NoGuard},
                       possibly_destroyed_at : 0..MaxTime]
    /\ DOMAIN live_guard_conns \subseteq ConnIds \union 0..max_fake_id
    /\ \A e \in DOMAIN live_guard_conns : live_guard_conns[e] \in DOMAIN guards
    /\ DOMAIN guards \subseteq Guards
    /\ \A g \in DOMAIN guards :
         guards[g] \in [killed_conns : Nat, killed_conn_at : 0..MaxTime]
    /\ max_fake_id \in Nat \union {-1}
    /\ {no_conns_since, no_circs_since, last_use} \subseteq 0..MaxTime
    /\ {disconnected_conns, disconnected_circs} \subseteq BOOLEAN
    /\ inherited \subseteq ConnIds
    /\ closures \in [Guards -> Nat]

-----------------------------------------------------------------------------
\* The live connections are known by the places of the entries in Tor's list.
Started == {i \in ConnIds : conn[i] # NoConn}

ListConns ==
    \E places \in Bijection(Started, 0..Cardinality(Started) - 1) :
       live_guard_conns = [p \in {places[i] : i \in ConnectedIds} |->
                             conn[CHOOSE i \in ConnectedIds : places[i] = p].guard]

\* A Tor that may be running for long.
TorInit ==
    /\ now = StartTime
    /\ conn \in [ConnIds -> {NoConn} \union
                   [guard : Guards, status : {"launched", "connected"}]]
    /\ tor \in [Circs -> {Unused} \union
                  [stage : {"launched", "built"}, kind : Kinds,
                   guard : ConnectedGuards, since : {Never},
                   total : {0}, dropped : {0}]]
    /\ closing = {}

\* The constructor. The connections of Tor are listed in some order and get
\* their places in this list as identifiers; its circuits are not asked for.
Init ==
    /\ TorInit
    /\ ListConns
    /\ circs = [c \in {} |-> NoGuard]
    /\ guards = [g \in {conn[i].guard : i \in Started} |-> BwGuardStat]
    /\ max_fake_id = Cardinality(Started) - 1
    /\ no_conns_since = IF ConnectedIds = {} THEN StartTime ELSE Never
    /\ no_circs_since = Never
    /\ disconnected_conns = FALSE /\ disconnected_circs = FALSE
    /\ inherited = ConnectedIds
    /\ closures = [g \in Guards |-> 0]
    /\ last_use = StartTime

-----------------------------------------------------------------------------
\* ORCONN events.

\* Seeded fault: no record is made for a guard that was not listed.
WithGuardListed(g) == guards

\* guards once an event of guard g was seen.
WithGuard(g) ==
    [h \in DOMAIN guards \union {g} |->
       IF h \in DOMAIN guards THEN guards[h] ELSE BwGuardStat]

ConnLaunched(i, g) ==
    /\ conn[i].status = "none"
    /\ conn' = [conn EXCEPT ![i] = [guard |-> g, status |-> "launched"]]
    /\ guards' = WithGuard(g)
    /\ UNCHANGED <<now, tor, closing, circs, connVars, circOutage, connHistory>>

ConnConnected(i) ==
    /\ conn[i].status = "launched"
    /\ conn' = [conn EXCEPT ![i].status = "connected"]
    /\ guards' = WithGuard(conn[i].guard)
    /\ live_guard_conns' = [e \in DOMAIN live_guard_conns \union {i} |->
                              IF e = i THEN conn[i].guard ELSE live_guard_conns[e]]
    /\ no_conns_since' = Never
    /\ disconnected_conns' = FALSE
    /\ UNCHANGED <<now, tor, closing, circs, max_fake_id, circOutage, connHistory>>

\* Seeded fault: without the scan for the connections that were listed.
EntryOfNoScan(i) == {i} \intersect DOMAIN live_guard_conns

\* Seeded fault: the scan takes any connection to the guard.
EntryOfAny(i) ==
    LET same == {e \in DOMAIN live_guard_conns :
                   live_guard_conns[e] = conn[i].guard}
    IN  IF i \in DOMAIN live_guard_conns THEN {i}
        ELSE IF same = {} THEN {} ELSE {Min(same)}

\* The entry that an event for connection i takes away, if any: its own or,
\* found by the guard, the first of the connections that were listed.
EntryOf(i) ==
    LET listed == {e \in (0..max_fake_id) \intersect DOMAIN live_guard_conns :
                     live_guard_conns[e] = conn[i].guard}
    IN  IF i \in DOMAIN live_guard_conns THEN {i}
        ELSE IF listed = {} THEN {} ELSE {Min(listed)}

\* CLOSED, or FAILED for a connection that did not come about.
ConnClosed(i) ==
    LET g == conn[i].guard
        entry == EntryOf(i)
        marked == IF entry = {} THEN {}
                  ELSE {c \in Known : circs[c].in_use /\ circs[c].guard_fp = g}
        left == DOMAIN live_guard_conns \ entry
        \* the guard whose entry it is
        hit == {live_guard_conns[e] : e \in entry}
    IN  /\ conn[i].status \in {"launched", "connected"}
        /\ conn' = [conn EXCEPT ![i].status = "gone"]
        /\ circs' = [c \in Known |->
                       IF c \in marked
                       THEN [circs[c] EXCEPT !.possibly_destroyed_at = now]
                       ELSE circs[c]]
        /\ guards' = [h \in DOMAIN WithGuard(g) |->
                        IF h \in hit /\ marked # {}
                        THEN [WithGuard(g)[h] EXCEPT !.killed_conn_at = now]
                        ELSE WithGuard(g)[h]]
        /\ live_guard_conns' = Restrict(live_guard_conns, left)
        /\ no_conns_since' = IF entry # {} /\ left = {} /\ no_conns_since = Never
                             THEN now ELSE no_conns_since
        /\ closures' = [h \in Guards |->
                          closures[h] + (IF h \in hit THEN 1 ELSE 0)]
        /\ UNCHANGED <<now, tor, closing, max_fake_id, disconnected_conns,
                       circOutage, inherited>>

-----------------------------------------------------------------------------
\* CIRC and CIRC_MINOR events.

AnyCircuitsPending(except) == \E c \in Known \ except : ~circs[c].built

\* Seeded fault: every CIRC event makes the entry anew.
ObservedFresh(c, k) == BwCircuitStat(k)

\* The entry of c, made if there is none, with the kind of the event.
Observed(c, k) ==
    IF c \in Known THEN [circs[c] EXCEPT !.kind = k] ELSE BwCircuitStat(k)

WithCirc(c, stat) ==
    [d \in Known \union {c} |-> IF d = c THEN stat ELSE circs[d]]

\* Seeded fault: the report is not taken back.
CircuitUseQuiet ==
    /\ no_circs_since' = Never /\ last_use' = now
    /\ UNCHANGED disconnected_circs

\* A circuit that is extended, built or used ends an outage.
CircuitUse ==
    no_circs_since' = Never /\ disconnected_circs' = FALSE /\ last_use' = now

CircLaunched(c, k) ==
    /\ tor[c].stage = "none"
    /\ tor' = [tor EXCEPT ![c].stage = "launched", ![c].kind = k,
                          ![c].since = now]
    /\ circs' = WithCirc(c, Observed(c, k))
    /\ UNCHANGED <<now, conn, closing, guards, connVars, circOutage, connHistory>>

\* Seeded fault: extending a circuit takes back the warning, only.
CircExtendedQuiet(c, g) ==
    /\ c \in OpenCircs
    /\ tor[c].guard = g \/ (tor[c].guard = NoGuard /\ g \in ConnectedGuards)
    /\ tor' = [tor EXCEPT ![c].guard = g]
    /\ circs' = WithCirc(c, Observed(c, tor[c].kind))
    /\ disconnected_circs' = FALSE /\ last_use' = now
    /\ UNCHANGED <<now, conn, closing, guards, connVars, connHistory,
                   no_circs_since>>

CircExtended(c, g) ==
    /\ c \in OpenCircs
    /\ tor[c].guard = g \/ (tor[c].guard = NoGuard /\ g \in ConnectedGuards)
    /\ tor' = [tor EXCEPT ![c].guard = g]
    /\ circs' = WithCirc(c, Observed(c, tor[c].kind))
    /\ CircuitUse
    /\ UNCHANGED <<now, conn, closing, guards, connVars, connHistory>>

IsHsUse(p) == p \in {"HS_CLIENT_HSDIR", "HS_CLIENT_INTRO", "HS_CLIENT_REND",
                     "HS_SERVICE_HSDIR", "HS_SERVICE_INTRO", "HS_SERVICE_REND"}

\* BUILT, for a cannibalized circuit another time, or GUARD_WAIT.
CircBuilt(c) ==
    LET built == [Observed(c, tor[c].kind) EXCEPT !.built = TRUE]
    IN  /\ c \in OpenCircs /\ tor[c].guard # NoGuard
        /\ tor' = [tor EXCEPT ![c].stage = "built"]
        /\ circs' = WithCirc(c, IF IsHsUse(tor[c].kind.purpose)
                                THEN [built EXCEPT !.in_use = TRUE,
                                                   !.guard_fp = tor[c].guard]
                                ELSE built)
        /\ CircuitUse
        /\ UNCHANGED <<now, conn, closing, guards, connVars, connHistory>>

\* PURPOSE_CHANGED, or another change of the kind of circuit (CANNIBALIZED).
CircMinor(c, k, purpose_changed) ==
    LET taken == purpose_changed /\ tor[c].kind.purpose = "HS_VANGUARDS"
        seen == [circs[c] EXCEPT
                   !.kind = k, !.old_kind = tor[c].kind,
                   !.is_hsdir = @ \/ BwCircuitStat(k).is_hsdir,
                   !.is_serv_intro = @ \/ BwCircuitStat(k).is_serv_intro]
    IN  /\ c \in OpenCircs
        /\ taken => tor[c].guard # NoGuard
        /\ tor' = [tor EXCEPT ![c].kind = k]
        /\ circs' = IF c \notin Known THEN circs
                    ELSE WithCirc(c, IF taken
                                     THEN [seen EXCEPT !.in_use = TRUE,
                                                       !.guard_fp = tor[c].guard]
                                     ELSE seen)
        /\ UNCHANGED <<now, conn, closing, guards, connVars, circOutage,
                       connHistory>>

\* Seeded fault: the time of the closure is left in place.
CircuitDestroyedAgain(g) ==
    IF now - guards[g].killed_conn_at <= DestroyLag
    THEN [guards EXCEPT ![g].killed_conns = @ + 1]
    ELSE guards

\* circuit_destroyed
CircuitDestroyed(g) ==
    IF now - guards[g].killed_conn_at <= DestroyLag
    THEN [guards EXCEPT ![g] = [killed_conns |-> @.killed_conns + 1,
                                killed_conn_at |-> Never]]
    ELSE guards

\* Did c die with the connection to its guard? remote is the reason the event
\* gives, CHANNEL_CLOSED or not.
DiedWithConn(c, remote) ==
    /\ c \in Known
    /\ circs[c].in_use
    /\ circs[c].possibly_destroyed_at # Never
    /\ now - circs[c].possibly_destroyed_at <= DestroyLag
    /\ remote

\* FAILED, or CLOSED. The CLOSED that follows a FAILED finds no entry.
CircEnded(c, failed, remote) ==
    /\ c \in OpenCircs
    /\ tor' = [tor EXCEPT ![c].stage = "gone"]
    /\ no_circs_since' = IF failed /\ no_circs_since = Never
                              /\ AnyCircuitsPending({c})
                         THEN now ELSE no_circs_since
    /\ guards' = IF DiedWithConn(c, remote) THEN CircuitDestroyed(tor[c].guard)
                 ELSE guards
    /\ circs' = Restrict(circs, Known \ {c})
    /\ closing' = closing \ {c}
    /\ UNCHANGED <<now, conn, connVars, disconnected_circs, last_use,
                   connHistory>>

-----------------------------------------------------------------------------
\* CIRC_BW events and check_circuit_limits.

\* The cases of dropped cells that are closed even when the circuit is not
\* built yet: the Tor bugs 29699, 40359, 29927, 29700 and 29786.
KnownDropCase(stat) ==
    \/ stat.kind = [purpose |-> "HS_SERVICE_INTRO", hs_state |-> "HSSI_ESTABLISHED"]
    \/ /\ stat.kind.purpose = "CIRCUIT_PADDING"
       /\ stat.old_kind = [purpose |-> "HS_CLIENT_INTRO", hs_state |-> "HSCI_INTRO_SENT"]
    \/ stat.kind.purpose \in {"HS_CLIENT_REND", "PATH_BIAS_TESTING"}
    \/ stat.kind = [purpose |-> "HS_CLIENT_INTRO", hs_state |-> "HSCI_DONE"]
    \/ stat.kind = [purpose |-> "HS_SERVICE_REND", hs_state |-> "HSSR_CONNECTING"]

Exceeds(amount, limit) == limit > 0 /\ amount > limit

\* Seeded fault: circuits that are not built are passed over altogether.
CheckCircuitLimitsBuilt(stat) ==
    /\ stat.built
    /\ \/ stat.dropped > 0
       \/ Exceeds(stat.total, MaxTotal)
       \/ stat.is_hsdir /\ Exceeds(stat.total, MaxHsdesc)
       \/ stat.is_serv_intro /\ Exceeds(stat.total, MaxServIntro)

\* Is the circuit closed?
CheckCircuitLimits(stat) ==
    \/ stat.dropped > 0 /\ (KnownDropCase(stat) \/ stat.built)
    \/ Exceeds(stat.total, MaxTotal)
    \/ stat.is_hsdir /\ Exceeds(stat.total, MaxHsdesc)
    \/ stat.is_serv_intro /\ Exceeds(stat.total, MaxServIntro)

\* try_close_circuit, for several: Tor refuses those that are gone by then.
TryClose(cs) == closing' = closing \union (cs \intersect OpenCircs)

CircBw(c, report) ==
    LET cells == report.read + report.written
        drops == report.read - report.payload
        stat == [circs[c] EXCEPT !.total = @ + cells, !.dropped = @ + drops]
    IN  /\ c \in OpenCircs
        /\ tor[c].total + cells <= MaxCells
        /\ tor' = [tor EXCEPT ![c].total = @ + cells, ![c].dropped = @ + drops]
        /\ CircuitUse
        /\ IF c \in Known
           THEN /\ circs' = WithCirc(c, stat)
                /\ TryClose(IF CheckCircuitLimits(stat) THEN {c} ELSE {})
           ELSE UNCHANGED <<circs, closing>>
        /\ UNCHANGED <<now, conn, guards, connVars, connHistory>>

-----------------------------------------------------------------------------
\* BW events, once in a second.

\* Seeded fault: an outage is over the limit a second early.
ConnOutageEarly ==
    /\ ConnMaxDisconnected > 0
    /\ no_conns_since # Never
    /\ now - no_conns_since >= ConnMaxDisconnected - 1

ConnOutage ==
    /\ ConnMaxDisconnected > 0
    /\ no_conns_since # Never
    /\ now - no_conns_since >= ConnMaxDisconnected

\* Only asked for while there is a connection.
CircOutage ==
    /\ CircMaxDisconnected > 0
    /\ no_conns_since = Never
    /\ no_circs_since # Never
    /\ now - no_circs_since >= CircMaxDisconnected
    /\ AnyCircuitsPending({})

\* Seeded fault: the age of circuits that are not built is not looked at.
TooOldBuilt ==
    {c \in Known : circs[c].built /\ MaxAge > 0 /\ now - circs[c].created_at > MaxAge}

TooOld == {c \in Known : MaxAge > 0 /\ now - circs[c].created_at > MaxAge}

\* Seeded fault: an outage is only noticed at the full multiples at which the
\* warning is repeated.
BwEventOnTheHour ==
    /\ disconnected_conns' = (disconnected_conns \/
         (ConnOutage /\ (now - no_conns_since) % ConnMaxDisconnected = 0))
    /\ disconnected_circs' = (disconnected_circs \/ CircOutage)
    /\ TryClose(TooOld)
    /\ UNCHANGED <<now, conn, tor, circs, guards, live_guard_conns, max_fake_id,
                   no_conns_since, no_circs_since, last_use, connHistory>>

\* check_connectivity and check_circ_ages
BwEvent ==
    /\ disconnected_conns' = (disconnected_conns \/ ConnOutage)
    /\ disconnected_circs' = (disconnected_circs \/ CircOutage)
    /\ TryClose(TooOld)
    /\ UNCHANGED <<now, conn, tor, circs, guards, live_guard_conns, max_fake_id,
                   no_conns_since, no_circs_since, last_use, connHistory>>

Tick ==
    /\ now < MaxTime
    /\ now' = now + 1
    /\ UNCHANGED <<conn, tor, closing, circs, guards, connVars, circOutage,
                   connHistory>>

Next ==
    \/ \E i \in ConnIds : (\E g \in Guards : ConnLaunched(i, g))
                          \/ ConnConnected(i) \/ ConnClosed(i)
    \/ \E c \in Circs :
         \/ \E k \in Kinds : CircLaunched(c, k)
         \/ \E g \in Guards : CircExtended(c, g)
         \/ CircBuilt(c)
         \/ \E k \in Kinds \ {tor[c].kind}, b \in BOOLEAN : CircMinor(c, k, b)
         \/ \E failed, remote \in BOOLEAN : CircEnded(c, failed, remote)
         \/ \E report \in Reports : CircBw(c, report)
    \/ BwEvent \/ Tick

Spec == Init /\ [][Next]_vars

FairSpec == Spec /\ WF_vars(BwEvent)

-----------------------------------------------------------------------------
\* Properties of the connections.

\* The two records of an outage agree: it has a beginning exactly as long as no
\* connection is live, and only an outage that has one is reported. (The
\* handlers subtract the beginning when they take a report back.)
OutagesHaveBeginnings ==
    /\ no_conns_since # Never <=> DOMAIN live_guard_conns = {}
    /\ disconnected_conns => no_conns_since # Never
    /\ disconnected_circs => no_circs_since # Never

\* The identifiers that are made up for a list may also be those of connections:
\* nothing tells them apart.
MadeUp(i) == i <= max_fake_id

\* No outage is overlooked: when Tor has no connection, the clock of the outage
\* runs, also for connections that were listed under made-up identifiers and
\* closed under their own, several to one guard among them, and also when later
\* connections get identifiers that were made up. (When a listed one has such an
\* identifier, its end may take the entry of another, and its own remain.)
NoSilentOutage ==
    ConnectedIds = {} /\ (\A i \in inherited : ~MadeUp(i)) => no_conns_since # Never

\* When nothing was inherited, and the list had less entries than Tor had made
\* connections before, live connections are exactly those of Tor, each with its
\* guard, whatever connections to the same guard fail meanwhile.
LiveExact ==
    inherited = {} /\ (\A i \in Started : ~MadeUp(i)) =>
      /\ DOMAIN live_guard_conns = ConnectedIds
      /\ \A i \in ConnectedIds : live_guard_conns[i] = conn[i].guard

\* A reported guard was closed: the connections that count as killed under a
\* live circuit are connections that were closed, each of them once, however
\* many circuits died with it.
KilledOncePerClosure ==
    \A g \in DOMAIN guards :
      guards[g].killed_conns
        + (IF now - guards[g].killed_conn_at <= DestroyLag THEN 1 ELSE 0)
        <= closures[g]

\* A Tor that stays without a connection is reported: the heartbeat alone sees
\* to it, unless a connection is made.
OutageReported ==
    ConnectedIds = {} /\ ConnOutage ~> disconnected_conns \/ ConnectedIds # {}

\* The monitor of the connections, and that of the circuits, are detectors of
\* outages: neither reports one early, or without its beginning, or loses the
\* beginning while the report stands, however their events and the heartbeat mix.
ConnDetector == INSTANCE OutageDetector WITH
    Limit <- ConnMaxDisconnected, Start <- StartTime,
    since <- no_conns_since, reported <- disconnected_conns

CircDetector == INSTANCE OutageDetector WITH
    Limit <- CircMaxDisconnected, Start <- StartTime,
    since <- no_circs_since, reported <- disconnected_circs

ConnOutagesDetected == ConnDetector!DetectorSpec
CircOutagesDetected == CircDetector!DetectorSpec

-----------------------------------------------------------------------------
\* Properties of the circuits.

\* "Warn if Tor can't build or use circuits for this many seconds"
\* (bandguards.py:33): between the moment a circuit was last built, extended or
\* used and the report of an outage there are that many seconds.
CircOutageIsReal ==
    /\ no_circs_since # Never => last_use <= no_circs_since
    /\ disconnected_circs => now - last_use >= CircMaxDisconnected

\* The circuits that were launched since the listeners were added.
Watched == {c \in OpenCircs : tor[c].since # Never}

\* They are followed from their launch to their end, with the totals of Tor,
\* through every change of purpose and close request.
WatchedExact ==
    \A c \in Watched :
      /\ c \in Known
      /\ circs[c].created_at = tor[c].since
      /\ circs[c].total = tor[c].total /\ circs[c].dropped = tor[c].dropped

\* A heartbeat leaves no watched circuit open that is older than the limit.
WatchedAgesBounded ==
    [][BwEvent => \A c \in Watched :
         MaxAge > 0 /\ now - tor[c].since > MaxAge => c \in closing']_vars

\* The limits of Tor's own account: once a report takes a watched circuit over
\* the limit for what it is used as, Tor is asked to close it, and so it is for
\* a cell dropped on a circuit that was built.
MustClose(t) ==
    \/ Exceeds(t.total, MaxTotal)
    \/ /\ t.kind.purpose \in {"HS_CLIENT_HSDIR", "HS_SERVICE_HSDIR"}
       /\ Exceeds(t.total, MaxHsdesc)
    \/ t.kind.purpose = "HS_SERVICE_INTRO" /\ Exceeds(t.total, MaxServIntro)
    \/ t.stage = "built" /\ t.dropped > 0

WatchedLimitsKept ==
    [][\A c \in Watched, report \in Reports :
         CircBw(c, report) /\ MustClose(tor'[c]) => c \in closing']_vars
=============================================================================
