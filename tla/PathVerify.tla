------------------------------ MODULE PathVerify ------------------------------
(***************************************************************************)
(* The path verifier, src/src/vanguards/pathverify.py: it follows what Tor *)
(* announces of its layer-1 connections and of the relays of layers 2 and  *)
(* 3, and warns of onion service circuits that leave them.                 *)
(*                                                                         *)
(* The main thread asks Tor for its state and then adds one listener after *)
(* the other, while Tor goes on and stem's event thread hands out, in      *)
(* order, what is in its queue. An event is handed to a listener that is   *)
(* there when its turn comes, however long ago Tor posted it.              *)
(***************************************************************************)
EXTENDS Integers, FiniteSets, Sequences

CONSTANTS
    Guards,             \* the relays Tor connects to
    Relays,             \* the relays of the layers 2 and 3
    Blank,              \* the empty name, which no relay has
    ConnIds,            \* the connections Tor may have, each used once
    LayerValues,        \* the values that HSLayer2Nodes, HSLayer3Nodes are set to
    Purposes,           \* the purposes of the circuits
    Num,                \* NUM_LAYER{1,2,3}_GUARDS
    LiteNum,            \* the same for vanguards-lite: 1, 4 and 0
    MaxQueue,           \* bound: no event arrives while this many are waiting
    MaxChanges,         \* bound: changes of Tor's layers
    MaxCircs            \* bound: events of circuits

Layers == {2, 3}

\* _ROUTELEN_FOR_PURPOSE and _ROUTELEN_FOR_PURPOSE_LITE.
RouteLen == [HS_VANGUARDS |-> 4, HS_CLIENT_HSDIR |-> 5, HS_CLIENT_INTRO |-> 5,
             HS_CLIENT_REND |-> 4, HS_SERVICE_HSDIR |-> 4,
             HS_SERVICE_INTRO |-> 4, HS_SERVICE_REND |-> 5]

RouteLenLite ==
    [HS_VANGUARDS |-> 3, HS_CLIENT_HSDIR |-> 4, HS_CLIENT_INTRO |-> 4,
     HS_CLIENT_REND |-> 3, HS_SERVICE_HSDIR |-> 4,
     HS_SERVICE_INTRO |-> 4, HS_SERVICE_REND |-> 4]

ASSUME PathSetsAssumption ==
    /\ IsFiniteSet(Guards) /\ IsFiniteSet(ConnIds) /\ IsFiniteSet(Relays)
    /\ Guards \intersect Layers = {} /\ Blank \notin Relays
    /\ LayerValues \subseteq SUBSET Relays /\ {} \notin LayerValues
    /\ Purposes \subseteq DOMAIN RouteLen
    /\ Num \in [1..3 -> Nat] /\ LiteNum \in [1..3 -> Nat]
    /\ MaxQueue \in Nat /\ MaxChanges \in Nat /\ MaxCircs \in Nat

\* What control_loop does about the verifier, in this order: the questions of
\* the constructor, the listeners by the events they are for, and a signal.
Steps == <<"HSLayer2Nodes", "HSLayer3Nodes", "orconn-status", "CIRC",
           "CIRC_MINOR", "ORCONN", "GUARD", "CONF_CHANGED", "NEWNYM">>

\* The step in which layer l is asked for.
ConfStep(l) == l - 1
OrconnStep == 3

VARIABLES
    \* Tor
    conn,               \* its connections, each with the guard it is for
    opt,                \* HSLayer2Nodes and HSLayer3Nodes, {} when unset
    lite,               \* its layer 2 while HSLayer2Nodes is unset
    changes, circs,     \* its changes of layers and events of circuits so far
    \* stem
    others,             \* the events other listeners of the process are for
    queue,              \* events that were read and not yet handed out
    \* the main thread
    done,               \* how many of the Steps it has done
    \* PathVerify
    layer1,             \* Layer1Guards.guards
    layer,              \* layer2 and layer3
    num,                \* num_layer1, num_layer2 and num_layer3
    full_vanguards,
    \* history
    drift               \* the guards and layers something is wrong about for
                        \* one of the reasons that are named below

torVars == <<conn, opt, lite, changes, circs>>
verifierVars == <<layer1, layer, num, full_vanguards>>
vars == <<torVars, others, queue, done, verifierVars, drift>>

Connected(g) == {i \in ConnIds : conn[i].guard = g /\ conn[i].status = "connected"}

\* The paths of circuits, and their numbers of hops.
Path == Guards \X Relays \X Relays
Hops == {RouteLen[p] : p \in Purposes} \union {RouteLenLite[p] : p \in Purposes}

\* The events that the verifier listens to; wrong is what a path has of Strays
\* and the like when Tor posts it.
Wrong == [strays : SUBSET (1..3), widths : SUBSET Layers, hops : BOOLEAN]
Events ==
    [type : {"ORCONN"}, fresh : BOOLEAN, guard : Guards,
     status : {"CONNECTED", "CLOSED"}, counts : BOOLEAN]
    \union [type : {"GUARD"}, relays : SUBSET Relays, status : {"GOOD_L2", "BAD_L2"}]
    \union [type : {"CONF_CHANGED"}, fresh : BOOLEAN, layer : Layers,
            value : LayerValues \union {{}}]
    \union [type : {"CIRC"}, fresh : BOOLEAN, path : Path, hops : Hops,
            purpose : Purposes, wrong : Wrong]
    \union [type : {"CIRC_MINOR"}, fresh : BOOLEAN,
            path : {SubSeq(path, 1, n) : path \in Path, n \in 1..3}, wrong : Wrong]

TypeOK ==
    /\ conn \in [ConnIds -> [guard : Guards,
                             status : {"none", "launched", "connected", "gone"}]]
    /\ opt \in [Layers -> LayerValues \union {{}}] /\ lite \subseteq Relays
    /\ changes \in 0..MaxChanges /\ circs \in 0..MaxCircs
    /\ others \subseteq {"CIRC", "CIRC_MINOR", "ORCONN", "CONF_CHANGED"}
    /\ queue \in Seq(Events) /\ Len(queue) <= MaxQueue + 1
    /\ done \in 0..Len(Steps)
    /\ DOMAIN layer1 \subseteq Guards
    /\ layer1 \in [DOMAIN layer1 -> [use_count : Nat, conn_count : Nat \ {0}]]
    /\ layer \in [Layers -> SUBSET (Relays \union {Blank})]
    /\ num \in {Num, LiteNum} /\ full_vanguards \in BOOLEAN
    /\ drift \subseteq Guards \union Layers

\* The bandwidth monitor has its listeners by then, when it is enabled, and
\* stem itself listens to CONF_CHANGED. full_vanguards is ENABLE_VANGUARDS.
Init ==
    /\ conn \in [ConnIds -> [guard : Guards,
                             status : {"none", "launched", "connected"}]]
    /\ opt \in [Layers -> LayerValues] \union {[l \in Layers |-> {}]}
    /\ lite \in IF opt[2] = {} THEN SUBSET Relays ELSE {{}}
    /\ changes = 0 /\ circs = 0
    /\ others \in {{"CONF_CHANGED"}, {"CONF_CHANGED", "CIRC", "CIRC_MINOR", "ORCONN"}}
    /\ queue = <<>>
    /\ done = 0
    /\ layer1 = [g \in {} |-> 0]
    /\ layer = [l \in Layers |-> {}]
    /\ num = Num /\ full_vanguards \in BOOLEAN
    /\ drift = {}

-----------------------------------------------------------------------------
\* Layer1Guards.

ConnCount(g) == IF g \in DOMAIN layer1 THEN layer1[g].conn_count ELSE 0
UseCount(g) == IF g \in DOMAIN layer1 THEN layer1[g].use_count ELSE 0

\* layer1 with n more connections to each guard (fewer, for a negative n); a
\* guard without any is forgotten, and its uses with it.
WithConns(n) ==
    [g \in {h \in Guards : ConnCount(h) + n[h] > 0} |->
       [use_count |-> UseCount(g), conn_count |-> ConnCount(g) + n[g]]]

OneAt(g, n) == [h \in Guards |-> IF h = g THEN n ELSE 0]

AddConn(g) == layer1' = WithConns(OneAt(g, 1))

\* Seeded faults: the guard is forgotten with the first of its connections, or
\* never.
DelConnAll(g) == layer1' = WithConns(OneAt(g, -ConnCount(g)))
DelConnNever(g) == layer1' = layer1

DelConn(g) == layer1' = WithConns(OneAt(g, -1))

\* add_use_count: a guard that is not known is only warned of.
AddUse(g) ==
    layer1' = IF g \in DOMAIN layer1
              THEN [layer1 EXCEPT ![g].use_count = @ + 1] ELSE layer1

-----------------------------------------------------------------------------
\* The main thread: the constructor, then the listeners.

Listening(type) == \E s \in 1..done : Steps[s] = type

\* _layers_init asks for one option, then the other; when both are unset and
\* vanguards are disabled, it is vanguards-lite that is monitored.
AskLayer(l) ==
    LET full == full_vanguards \/ layer[2] # {} \/ opt[l] # {}
    IN  /\ done + 1 = ConfStep(l)
        /\ layer' = [layer EXCEPT ![l] = opt[l]]
        /\ full_vanguards' = full
        /\ num' = IF l = 3 /\ ~full THEN LiteNum ELSE num
        /\ drift' = IF l = 2 /\ opt[l] = {} THEN drift \union {2} ELSE drift
        /\ done' = done + 1
        /\ UNCHANGED <<torVars, others, queue, layer1>>

\* _orconn_init takes every line for a connection, that of one which is only
\* launched as well.
AskOrconns ==
    LET listed == {i \in ConnIds : conn[i].status \in {"launched", "connected"}}
        pending == {i \in listed : conn[i].status = "launched"}
    IN  /\ done + 1 = OrconnStep
        /\ layer1' = WithConns([g \in Guards |->
                                  Cardinality({i \in listed : conn[i].guard = g})])
        /\ drift' = drift \union {conn[i].guard : i \in pending}
        /\ done' = done + 1
        /\ UNCHANGED <<torVars, others, queue, layer, num, full_vanguards>>

AddListener ==
    /\ done + 1 \in OrconnStep + 1..Len(Steps) - 1
    /\ done' = done + 1
    /\ UNCHANGED <<torVars, others, queue, verifierVars, drift>>

\* Tor posts events. Stem reads those that somebody in the process has asked
\* for. An event is fresh when it is later than the answer of a step.
Subscribed(type) == type \in others \/ Listening(type)

PostAll(type, events) ==
    /\ Len(queue) < MaxQueue
    /\ queue' = IF Subscribed(type) THEN queue \o events ELSE queue

Post(e) == PostAll(e.type, <<e>>)
Fresh(step) == done >= step

\* The events that Tor posts at once for the relays R.
GuardEvent(R, status) == [type |-> "GUARD", relays |-> R, status |-> status]
Renewed(R, told) ==
    IF opt[2] # {} THEN <<>>
    ELSE IF told THEN <<GuardEvent(lite, "BAD_L2"), GuardEvent(R, "GOOD_L2")>>
    ELSE <<GuardEvent(R, "GOOD_L2")>>

\* Seeded fault: the signal is sent before the listener for GUARD is there.
NewnymEarly(R, told) ==
    /\ done = OrconnStep
    /\ lite' = IF opt[2] = {} THEN R ELSE lite
    /\ PostAll("GUARD", Renewed(R, told))
    /\ done' = Len(Steps)
    /\ UNCHANGED <<conn, opt, changes, circs, others, verifierVars, drift>>

\* The NEWNYM at the end, "to get fresh circs and vg-lite guards": Tor picks
\* others, whether or not it announces that the old ones are gone.
Newnym(R, told) ==
    /\ done + 1 = Len(Steps)
    /\ lite' = IF opt[2] = {} THEN R ELSE lite
    /\ PostAll("GUARD", Renewed(R, told))
    /\ done' = done + 1
    /\ UNCHANGED <<conn, opt, changes, circs, others, verifierVars, drift>>

-----------------------------------------------------------------------------
\* The connections of Tor. A lost event of one, and an event of one that the
\* answer to orconn-status knew of already, put the count of its guard wrong.

OrconnEvent(i, status) ==
    [type |-> "ORCONN", fresh |-> Fresh(OrconnStep), guard |-> conn[i].guard,
     status |-> status,
     counts |-> status = "CONNECTED" \/ conn[i].status = "connected"]

PostOrconn(i, status) ==
    LET e == OrconnEvent(i, status)
        unread == ~Subscribed("ORCONN") /\ e.fresh /\ e.counts
    IN  /\ Post(e)
        /\ drift' = IF unread THEN drift \union {e.guard} ELSE drift

ConnLaunched(i) ==
    /\ conn[i].status = "none"
    /\ conn' = [conn EXCEPT ![i].status = "launched"]
    /\ UNCHANGED <<opt, lite, changes, circs, others, queue, done, verifierVars, drift>>

ConnConnected(i) ==
    /\ conn[i].status = "launched"
    /\ PostOrconn(i, "CONNECTED")
    /\ conn' = [conn EXCEPT ![i].status = "connected"]
    /\ UNCHANGED <<opt, lite, changes, circs, others, done, verifierVars>>

\* CLOSED, or FAILED.
ConnEnded(i) ==
    /\ conn[i].status \in {"launched", "connected"}
    /\ PostOrconn(i, "CLOSED")
    /\ conn' = [conn EXCEPT ![i].status = "gone"]
    /\ UNCHANGED <<opt, lite, changes, circs, others, done, verifierVars>>

-----------------------------------------------------------------------------
\* The layers of Tor: those of its options, else those of vanguards-lite.

Changed == changes < MaxChanges /\ changes' = changes + 1

TorLayer(l) == IF l = 2 /\ opt[2] = {} THEN lite ELSE opt[l]

\* Tor announces an option only when its value is another one.
ConfEvent(l, S) ==
    [type |-> "CONF_CHANGED", fresh |-> Fresh(ConfStep(l)), layer |-> l, value |-> S]

SetConf(l, S) ==
    /\ Changed
    /\ S # opt[l]
    /\ opt' = [opt EXCEPT ![l] = S]
    /\ lite' = IF l = 2 THEN {} ELSE lite
    /\ Post(ConfEvent(l, S))
    /\ UNCHANGED <<conn, circs, others, done, verifierVars, drift>>

\* A SIGHUP: Tor reads its torrc, which has neither option.
Unset(l) == IF opt[l] = {} THEN <<>> ELSE <<ConfEvent(l, {})>>

Sighup ==
    /\ Changed
    /\ opt # [l \in Layers |-> {}]
    /\ opt' = [l \in Layers |-> {}]
    /\ PostAll("CONF_CHANGED", Unset(2) \o Unset(3))
    /\ UNCHANGED <<conn, lite, circs, others, done, verifierVars, drift>>

LiteChanges(R, r, status) ==
    /\ Changed
    /\ opt[2] = {} /\ lite # R
    /\ lite' = R
    /\ Post(GuardEvent({r}, status))
    /\ UNCHANGED <<conn, opt, circs, others, done, verifierVars, drift>>

-----------------------------------------------------------------------------
\* The circuits of onion services.

\* The hops of a path that are none of the guards or relays they should be.
\* There is nothing to compare the third with when layer 3 has no relays.
Strays(path, guards, layers, widths) ==
    {k \in DOMAIN path :
       \/ k = 1 /\ path[k] \notin guards
       \/ k = 2 /\ path[k] \notin layers[k]
       \/ k = 3 /\ widths[3] # 0 /\ path[k] \notin layers[k]}

WrongWidths(layers, widths) == {l \in Layers : Cardinality(layers[l]) # widths[l]}

\* What is wrong with a path, and with the layers when it is built.
Built(path, hops, length, guards, layers, widths) ==
    [strays |-> Strays(path, guards, layers, widths),
     widths |-> WrongWidths(layers, widths), hops |-> hops # length]

Extended(path, guards, layers, widths) ==
    [strays |-> Strays(path, guards, layers, widths), widths |-> {}, hops |-> FALSE]

TorGuards == {g \in Guards : Connected(g) # {}}
TorLayers == [l \in Layers |-> TorLayer(l)]

\* A circuit is BUILT, or waits for its guard; what is wrong with it as Tor
\* posts the event is kept in the event.
CircBuilt(path, hops, purpose) ==
    /\ circs < MaxCircs /\ circs' = circs + 1
    /\ Post([type |-> "CIRC", fresh |-> Fresh(OrconnStep), path |-> path,
             hops |-> hops, purpose |-> purpose,
             wrong |-> Built(path, hops, RouteLen[purpose], TorGuards, TorLayers, Num)])
    /\ UNCHANGED <<conn, opt, lite, changes, others, done, verifierVars, drift>>

\* A circuit of any length, to or from a purpose of onion services.
CircMinor(path) ==
    /\ circs < MaxCircs /\ circs' = circs + 1
    /\ Post([type |-> "CIRC_MINOR", fresh |-> Fresh(OrconnStep), path |-> path,
             wrong |-> Extended(path, TorGuards, TorLayers, Num)])
    /\ UNCHANGED <<conn, opt, lite, changes, others, done, verifierVars, drift>>

-----------------------------------------------------------------------------
\* The handlers, on the event that is next in the queue.

Handle(type) ==
    /\ queue # <<>> /\ Head(queue).type = type /\ Listening(type)
    /\ queue' = Tail(queue)
    /\ UNCHANGED <<torVars, others, done, num>>

OrconnHandler ==
    LET e == Head(queue)
    IN  /\ Handle("ORCONN")
        /\ IF e.status = "CONNECTED" THEN AddConn(e.guard) ELSE DelConn(e.guard)
        /\ drift' = IF (IF e.counts THEN ~e.fresh ELSE ConnCount(e.guard) > 0)
                    THEN drift \union {e.guard} ELSE drift
        /\ UNCHANGED <<layer, full_vanguards>>

GuardHandler ==
    LET e == Head(queue)
    IN  /\ Handle("GUARD")
        /\ layer' = [layer EXCEPT ![2] = IF e.status = "GOOD_L2"
                                        THEN @ \union e.relays ELSE @ \ e.relays]
        /\ UNCHANGED <<layer1, full_vanguards, drift>>

\* Seeded fault: the new relays are added to those of before.
ConfChangedHandlerAdds ==
    LET e == Head(queue)
    IN  /\ Handle("CONF_CHANGED")
        /\ layer' = [layer EXCEPT ![e.layer] = @ \union e.value]
        /\ full_vanguards' = TRUE
        /\ drift' = drift \ {e.layer}
        /\ UNCHANGED layer1

\* An option that was unset is not among event.changed, and the layer stays; or
\* it is there without a value, and the layer becomes set(['']).
ConfChangedHandler ==
    LET e == Head(queue)
        unset == e.value = {}
    IN  /\ Handle("CONF_CHANGED")
        /\ \/ /\ unset
              /\ drift' = IF e.fresh \/ layer[e.layer] # {} THEN drift \union {e.layer}
                          ELSE drift
              /\ UNCHANGED <<layer, full_vanguards>>
           \/ /\ layer' = [layer EXCEPT ![e.layer] = IF unset THEN {Blank} ELSE e.value]
              /\ drift' = IF unset THEN drift \union {e.layer} ELSE drift \ {e.layer}
              /\ full_vanguards' = TRUE
        /\ UNCHANGED layer1

CircHandler ==
    /\ Handle("CIRC")
    /\ AddUse(Head(queue).path[1])
    /\ UNCHANGED <<layer, full_vanguards, drift>>

CircMinorHandler ==
    /\ Handle("CIRC_MINOR")
    /\ UNCHANGED <<layer1, layer, full_vanguards, drift>>

\* The listener is not there yet: the event is gone.
Unheard ==
    LET e == Head(queue)
        lost == CASE e.type = "ORCONN" /\ e.fresh /\ e.counts -> {e.guard}
                  [] e.type = "CONF_CHANGED" /\ e.fresh -> {e.layer}
                  [] OTHER -> {}
    IN  /\ queue # <<>> /\ ~Listening(e.type)
        /\ queue' = Tail(queue)
        /\ drift' = drift \union lost
        /\ UNCHANGED <<torVars, others, done, verifierVars>>

-----------------------------------------------------------------------------

Next ==
    \/ \E l \in Layers : AskLayer(l)
    \/ AskOrconns
    \/ AddListener
    \/ \E R \in LayerValues, told \in BOOLEAN : Newnym(R, told)
    \/ \E i \in ConnIds :
         \/ ConnLaunched(i)
         \/ ConnConnected(i)
         \/ ConnEnded(i)
    \/ \E l \in Layers, S \in LayerValues : SetConf(l, S)
    \/ Sighup
    \/ \E r \in Relays : \/ LiteChanges(lite \union {r}, r, "GOOD_L2")
                       \/ LiteChanges(lite \ {r}, r, "BAD_L2")
    \/ \E path \in Path, hops \in Hops, purpose \in Purposes :
         CircBuilt(path, hops, purpose)
    \/ \E path \in Path, n \in 1..3 : CircMinor(SubSeq(path, 1, n))
    \/ OrconnHandler
    \/ GuardHandler
    \/ ConfChangedHandler
    \/ CircHandler
    \/ CircMinorHandler
    \/ Unheard

Spec == Init /\ [][Next]_vars

-----------------------------------------------------------------------------
\* Properties.

Queued(type) == {k \in DOMAIN queue : queue[k].type = type}

\* When no event of a connection is waiting, the verifier counts for a guard
\* the connections that Tor has to it, however launches, ends and events fell
\* between the answer to orconn-status and the listener. The exceptions are
\* those of drift: an event of the guard that was lost in that gap or counted
\* twice, a connection listed before it was up, and a failed attempt that is
\* taken for the end of another connection.
ConnCountsExact ==
    Listening("ORCONN") /\ Queued("ORCONN") = {} =>
        \A g \in Guards \ drift : ConnCount(g) = Cardinality(Connected(g))

\* When no change is waiting, the layers are those Tor was told, whatever
\* changed while the verifier was set up. The exceptions: an option that is
\* not set, and a change between the answer of get_conf and the listener.
LayersFollow ==
    Listening("CONF_CHANGED") /\ Queued("CONF_CHANGED") = {} =>
        \A l \in Layers \ drift : layer[l] = opt[l]

\* What the handlers warn of, by what the verifier knows.
Warnings(e) ==
    LET table == IF full_vanguards THEN RouteLen ELSE RouteLenLite
    IN  IF e.type = "CIRC"
        THEN Built(e.path, e.hops, table[e.purpose], DOMAIN layer1, layer, num)
        ELSE Extended(e.path, DOMAIN layer1, layer, num)

\* A circuit is judged by what was so when Tor built it: it is warned of for
\* what was wrong with it then, and for nothing else, although guards and
\* layers may have changed before its event has its turn.
VerdictExact ==
    queue # <<>> /\ drift = {} /\ num = Num =>
        LET e == Head(queue)
        IN  e.type \in {"CIRC", "CIRC_MINOR"} /\ Listening(e.type) /\ e.fresh
                => Warnings(e) = e.wrong

\* After the NEWNYM the verifier knows the layer of vanguards-lite, although
\* it can ask Tor for none: no relay of it is warned of.
LiteKnown ==
    done = Len(Steps) /\ queue = <<>> /\ opt[2] = {} => lite \subseteq layer[2]
=============================================================================
