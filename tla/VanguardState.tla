---------------------------- MODULE VanguardState ----------------------------
(***************************************************************************)
(* The vanguards process around src/src/vanguards/vanguards.py: it keeps   *)
(* two layers of guard relays, brings them up to date with every consensus *)
(* of Tor, sets them in the running Tor, and pickles them to a state file. *)
(*                                                                         *)
(* A consensus update runs on the main thread while the process starts up  *)
(* and on stem's event thread once the listeners are registered. It takes  *)
(* many steps, between which Tor, its operator and the disk go on. The     *)
(* rendezvous counts of RendGuard are part of the same pickled state.      *)
(***************************************************************************)
EXTENDS RendGuard, Sequences, SequencesExt

CONSTANTS
    Configs,        \* the configurations the process may be started with
    Excludes,       \* the sets of relays ExcludeNodes may describe
    MinLifetime,    \* MIN_LAYER{2,3}_LIFETIME_HOURS, per layer
    MaxLifetime,    \* MAX_LAYER{2,3}_LIFETIME_HOURS, per layer
    MaxTime,        \* bound: the clock stops here
    MaxQueue,       \* bound: no event arrives while this many are waiting
    MaxDisturbances \* bound: number of things that happen from outside

Layers == {2, 3}

\* ENABLE_VANGUARDS and NUM_LAYER{2,3}_GUARDS; ENABLE_RENDGUARD is on.
Config == [enable : BOOLEAN, num : [Layers -> Nat]]

ASSUME LifetimeAssumption ==
    /\ MinLifetime \in [Layers -> Nat] /\ MaxLifetime \in [Layers -> Nat]
    /\ {MaxTime, MaxQueue, MaxDisturbances} \subseteq Nat

ASSUME ConfigsAssumption == Configs \subseteq Config /\ Configs # {}

ASSUME ExcludesAssumption == Excludes \subseteq SUBSET Relays /\ {} \in Excludes

GuardNode == [idhex : Relays, chosen_at : Nat, expires_at : Nat]
Ids(S) == {g.idhex : g \in S}

NoGuards == [l \in Layers |-> {}]
NoCounts == [r \in {} |-> RendUseCount(0, 0)]
AnyConsensus == CHOOSE c \in Consensuses : TRUE
NoSnapshot == [consensus |-> AnyConsensus, exclude |-> {}]

VARIABLES
    \* Tor and the world
    now,            \* time.time()
    consensus,      \* Tor's current consensus
    exclude,        \* the relays its ExcludeNodes option describes
    tor,            \* HSLayer2Nodes and HSLayer3Nodes, as sets of relays
    disk,           \* the state file: its status and its last complete dump
    budget,         \* what is left of MaxDisturbances
    \* the process
    proc,           \* down, connecting, starting, serving or deaf
    link,           \* is the controller alive?
    cfg,            \* the configuration it was started with
    layer,          \* self.layer2 and self.layer3
    queue,          \* events stem has read and not yet handed to a listener
    \* the handler that runs
    pc,             \* the step it is at
    job,            \* which handler it is
    snap,           \* what it has read from Tor
    \* history
    missed,         \* events that were lost, or whose handling failed, and what
                    \* an update that failed did not do
    dropped,        \* guards removed by the rules since the last dump
    lost            \* the process started without a readable state file

worldVars == <<now, consensus, exclude, budget>>
procVars == <<proc, link, cfg, queue>>
historyVars == <<missed, dropped, lost>>
stateVars == <<layer, rendVars>>
vars == <<worldVars, tor, disk, procVars, layer, pc, job, snap, historyVars,
          rendVars>>

Phases == {"idle", "fetch", "prune", "exclude", "replenish", "xfer", "set2",
           "set3", "open", "dump", "register"}
Events == {"NEWCONSENSUS", "RELOAD"}

\* What is left undone by an update that fails once it has begun: the layers are
\* changed, and neither set in Tor nor written.
Undone == {"NEWCONSENSUS", "SET", "SAVE"}

LayerTypeOK ==
    /\ now \in Nat
    /\ consensus \in Consensuses
    /\ exclude \in Excludes
    /\ tor \in [Layers -> SUBSET Relays]
    /\ disk \in [status : {"absent", "torn", "ok"},
                 layer : [Layers -> SUBSET GuardNode],
                 counts : {disk.counts}, total : {disk.total}]
    /\ budget \in Nat
    /\ proc \in {"down", "connecting", "starting", "serving", "deaf"}
    /\ link \in BOOLEAN
    /\ cfg \in Configs
    /\ layer \in [Layers -> SUBSET GuardNode]
    /\ queue \in Seq(Events)
    /\ pc \in Phases
    /\ job \in {"consensus", "signal"}
    /\ snap \in [consensus : Consensuses, exclude : Excludes]
    /\ missed \subseteq Events \union Undone /\ lost \in BOOLEAN
    /\ dropped \in [Layers -> SUBSET GuardNode]

TypeOK == LayerTypeOK /\ RendTypeOK

Init ==
    /\ now = 0
    /\ consensus \in Consensuses
    /\ exclude \in Excludes
    /\ tor = NoGuards
    /\ disk = [status |-> "absent", layer |-> NoGuards,
               counts |-> NoCounts, total |-> 0]
    /\ budget = MaxDisturbances
    /\ proc = "down" /\ link = FALSE /\ cfg \in Configs
    /\ layer = NoGuards
    /\ queue = <<>>
    /\ pc = "idle" /\ job = "consensus" /\ snap = NoSnapshot
    /\ missed = {} /\ dropped = NoGuards /\ lost = FALSE
    /\ RendInit

-----------------------------------------------------------------------------
\* The life of the process.

Restored == disk.status = "ok"

\* Seeded fault: the guards of the state file are not taken over.
LoadedLayersNone == NoGuards

LoadedLayers == IF Restored THEN disk.layer ELSE NoGuards
LoadedCounts == IF Restored THEN disk.counts ELSE NoCounts

LoadedTotal == IF Restored THEN disk.total ELSE 0

\* run_main: unpickle the state, or begin with a new one when that fails for
\* any reason; the configuration is the one of this start.
Start(c) ==
    /\ proc = "down"
    /\ proc' = "connecting"
    /\ cfg' = c
    /\ layer' = LoadedLayers
    /\ use_counts' = LoadedCounts /\ total_use_counts' = LoadedTotal
    /\ closed' = NoRelay /\ halfway' = FALSE
    /\ lost' = ~Restored /\ dropped' = NoGuards
    /\ UNCHANGED <<worldVars, tor, disk, link, queue, pc, job, snap, missed>>

\* control_loop connects, and calls new_consensus_event on the main thread.
Connect ==
    /\ proc = "connecting"
    /\ proc' = "starting" /\ link' = TRUE
    /\ pc' = "fetch" /\ job' = "consensus"
    /\ missed' = {}
    /\ UNCHANGED <<worldVars, tor, disk, cfg, queue, snap, dropped, lost,
                   stateVars>>

\* The remaining calls of control_loop add the listeners; after the last one
\* the main thread only watches the connection.
Register ==
    /\ pc = "register" /\ link
    /\ proc' = "serving" /\ pc' = "idle"
    /\ UNCHANGED <<worldVars, tor, disk, link, cfg, queue, job, snap,
                   historyVars, stateVars>>

\* The main thread sees that the connection is gone and connects again with
\* the same state object. Abstraction: not while a handler is still running.
Reconnect ==
    /\ proc \in {"serving", "deaf"} /\ ~link /\ pc = "idle"
    /\ proc' = "connecting"
    /\ UNCHANGED <<worldVars, tor, disk, link, cfg, queue, pc, job, snap,
                   historyVars, stateVars>>

\* The process ends: what it had in memory is gone.
ProcessEnds ==
    /\ proc' = "down" /\ link' = FALSE /\ queue' = <<>>
    /\ pc' = "idle" /\ snap' = NoSnapshot
    /\ layer' = NoGuards
    /\ use_counts' = NoCounts /\ total_use_counts' = 0
    /\ closed' = NoRelay /\ halfway' = FALSE
    /\ missed' = {}
    /\ UNCHANGED <<cfg, job, dropped, lost>>

\* stem logs what leaves a handler on the event thread and goes on with the next
\* event. (unhandled is what was not dealt with and will be missed.)
HandlerEnds(unhandled) ==
    /\ proc = "serving"
    /\ pc' = "idle" /\ snap' = NoSnapshot
    /\ missed' = missed \union unhandled
    /\ UNCHANGED <<procVars, job, dropped, lost, layer>>

\* An exception leaves the handler: on the main thread it ends the process.
HandlerRaises(unhandled) ==
    \/ proc = "starting" /\ ProcessEnds
    \/ HandlerEnds(unhandled) /\ UNCHANGED rendVars

\* A call of the handler to Tor fails: the connection is gone, or Tor answers
\* with an error, or with what stem cannot read. Bound: those of a connection that
\* is alive are disturbances.
Disturb == budget > 0 /\ budget' = budget - 1

CallFails ==
    /\ IF link THEN Disturb ELSE UNCHANGED budget
    /\ UNCHANGED <<now, consensus, exclude, tor, disk>>

\* The handler calls sys.exit: on the main thread it ends the process, on the
\* event thread only that thread, and no event is ever handed out again.
HandlerExits ==
    \/ proc = "starting" /\ ProcessEnds
    \/ /\ proc = "serving"
       /\ proc' = "deaf" /\ queue' = <<>>
       /\ pc' = "idle" /\ snap' = NoSnapshot
       /\ UNCHANGED <<link, cfg, job, historyVars, stateVars>>

-----------------------------------------------------------------------------
\* new_consensus_event, consensus_update and the helpers they call.

\* The event thread hands out the next event.
HandleNewConsensus ==
    /\ proc = "serving" /\ pc = "idle" /\ queue # <<>>
    /\ Head(queue) = "NEWCONSENSUS"
    /\ queue' = Tail(queue)
    /\ pc' = "fetch" /\ job' = "consensus"
    /\ UNCHANGED <<worldVars, tor, disk, proc, link, cfg, snap, historyVars,
                   stateVars>>

\* get_network_statuses, ExcludeNodes, the weights of the consensus file, and
\* the generator built from them.
FetchConsensus ==
    /\ pc = "fetch" /\ link
    /\ consensus.usable # {}
    /\ snap' = [consensus |-> consensus, exclude |-> exclude]
    /\ pc' = IF cfg.enable THEN "prune" ELSE "xfer"
    /\ missed' = {}
    /\ UNCHANGED <<worldVars, tor, disk, procVars, job, dropped, lost,
                   stateVars>>

\* Tor has no descriptors, or the consensus file cannot be read. At startup
\* this closes the controller and control_loop is entered again.
DescriptorsUnavailable ==
    /\ pc = "fetch" /\ link
    /\ pc' = "idle"
    /\ \/ /\ proc = "starting"
          /\ proc' = "connecting" /\ link' = FALSE
          /\ UNCHANGED missed
       \/ /\ proc = "serving"
          /\ missed' = missed \union {"NEWCONSENSUS"}
          /\ UNCHANGED <<proc, link>>
    /\ UNCHANGED <<worldVars, tor, disk, cfg, queue, job, snap, dropped, lost,
                   stateVars>>

\* A call fails, or no relay is left after the restriction on flags
\* (NoNodesRemain).
FetchFails ==
    /\ pc = "fetch"
    /\ \/ CallFails
       \/ consensus.usable = {} /\ UNCHANGED <<worldVars, tor, disk>>
    /\ HandlerRaises({"NEWCONSENSUS"})

\* Tor has no value for DataDirectory.
NoDataDirectory ==
    /\ pc = "fetch" /\ link
    /\ HandlerExits
    /\ UNCHANGED <<worldVars, tor, disk>>

\* Seeded fault: relays that are down stay in the layers.
DownNever(g) == FALSE

Down(g) == g.idhex \notin snap.consensus.listed
Expired(g) == g.expires_at < now

Excluded(g) == g.idhex \in snap.exclude

\* The layers and the history once the guards in gone are removed from them.
RemoveGuards(gone) ==
    /\ layer' = [l \in Layers |-> layer[l] \ gone[l]]
    /\ dropped' = [l \in Layers |-> dropped[l] \union gone[l]]

\* remove_down_from_layer and remove_expired_from_layer, on both layers.
RemoveDownAndExpired ==
    /\ pc = "prune"
    /\ RemoveGuards([l \in Layers |->
                       {g \in layer[l] : Down(g) \/ Expired(g)}])
    /\ pc' = "exclude"
    /\ UNCHANGED <<worldVars, tor, disk, procVars, job, snap, missed, lost,
                   rendVars>>

\* Seeded fault: a layer that is too large is not cut back.
TrimmedNever(S, n) == {S}

\* What layer[:n] may keep of S: the list is in the order the guards were
\* chosen, so nobody who is kept is younger than somebody who is not.
Trimmed(S, n) ==
    IF Cardinality(S) <= n THEN {S}
    ELSE {K \in SUBSET S : /\ Cardinality(K) = n
                           /\ \A g \in K, h \in S \ K :
                                g.chosen_at <= h.chosen_at}

\* remove_excluded_from_layer on both layers, then the trim that
\* replenish_layers begins with.
RemoveExcludedAndTrim ==
    /\ pc = "exclude"
    /\ LET included(l) == {g \in layer[l] : ~Excluded(g)}
       IN  \E two \in Trimmed(included(2), cfg.num[2]),
              three \in Trimmed(included(3), cfg.num[3]) :
             RemoveGuards([l \in Layers |->
                             layer[l] \ (IF l = 2 THEN two ELSE three)])
    /\ pc' = "replenish"
    /\ UNCHANGED <<worldVars, tor, disk, procVars, job, snap, missed, lost,
                   rendVars>>

\* router_is_excluded asks Tor for the country of a relay, and the call fails:
\* the layers stay as far as the handler got.
LookupFails ==
    /\ pc \in {"exclude", "replenish"}
    /\ CallFails
    /\ HandlerRaises(Undone)

Short(l) == Cardinality(layer[l]) < cfg.num[l]

\* Seeded fault: a relay that is already in the layer may be taken again.
EligibleAgain(l) == snap.consensus.usable \ snap.exclude

\* What the loops of add_new_layer{2,3} may end with.
Eligible(l) == (snap.consensus.usable \ Ids(layer[l])) \ snap.exclude

\* add_new_layer2, and add_new_layer3 once layer 2 is full.
AddNewLayer(l) ==
    /\ pc = "replenish" /\ Short(l)
    /\ l = 3 => ~Short(2)
    /\ \E r \in Eligible(l), life \in MinLifetime[l]..MaxLifetime[l] :
         layer' = [layer EXCEPT ![l] = @ \union
                     {[idhex |-> r, chosen_at |-> now,
                       expires_at |-> now + life]}]
    /\ UNCHANGED <<worldVars, tor, disk, procVars, pc, job, snap, historyVars,
                   rendVars>>

\* No relay is eligible: the loop draws relays and rejects them, for ever.
RejectAll(l) ==
    /\ pc = "replenish" /\ Short(l)
    /\ l = 3 => ~Short(2)
    /\ Eligible(l) = {}
    /\ UNCHANGED vars

\* The layers are complete, or were left alone.
LayersDone ==
    \/ pc = "replenish" /\ \A l \in Layers : ~Short(l)
    \/ pc = "xfer"

\* The end of consensus_update: the rendezvous counts move to the consensus.
FinishUpdate ==
    /\ LayersDone
    /\ XferUseCounts(snap.consensus)
    /\ pc' = IF cfg.enable THEN "set2" ELSE "open"
    /\ UNCHANGED <<worldVars, tor, disk, procVars, layer, job, snap,
                   historyVars>>

\* A division by zero leaves the counts halfway, and the layers changed.
UpdateFails ==
    /\ LayersDone
    /\ ~snap.consensus.divisible
    /\ \/ proc = "starting" /\ ProcessEnds
       \/ HandlerEnds(Undone) /\ XferFails(snap.consensus)
    /\ UNCHANGED <<worldVars, tor, disk>>

-----------------------------------------------------------------------------
\* configure_tor, called by the consensus handler and by the signal handler.

\* Seeded fault: the signal is only logged.
IgnoreReload ==
    /\ proc = "serving" /\ pc = "idle" /\ queue # <<>>
    /\ Head(queue) = "RELOAD"
    /\ queue' = Tail(queue)
    /\ UNCHANGED <<worldVars, tor, disk, proc, link, cfg, pc, job, snap,
                   historyVars, stateVars>>

\* signal_event for RELOAD; whether vanguards are enabled is not asked.
HandleReload ==
    /\ proc = "serving" /\ pc = "idle" /\ queue # <<>>
    /\ Head(queue) = "RELOAD"
    /\ queue' = Tail(queue)
    /\ pc' = "set2" /\ job' = "signal"
    /\ UNCHANGED <<worldVars, tor, disk, proc, link, cfg, snap, historyVars,
                   stateVars>>

\* Seeded fault: both options get layer 2.
GuardsetTwo(l) == Ids(layer[2])

\* layer2_guardset and layer3_guardset.
Guardset(l) == Ids(layer[l])

SetLayer2 ==
    /\ pc = "set2" /\ link
    /\ tor' = [tor EXCEPT ![2] = Guardset(2)]
    /\ pc' = "set3"
    /\ UNCHANGED <<worldVars, disk, procVars, job, snap, historyVars,
                   stateVars>>

\* Layer 3 is left alone when it is configured to be empty.
SetLayer3 ==
    /\ pc = "set3" /\ link
    /\ tor' = IF cfg.num[3] = 0 THEN tor
              ELSE [tor EXCEPT ![3] = Guardset(3)]
    /\ \/ job = "consensus" /\ pc' = "open" /\ UNCHANGED <<snap, missed>>
       \/ /\ job = "signal" /\ pc' = "idle" /\ snap' = NoSnapshot
          /\ missed' = missed \ {"RELOAD", "SET"}
    /\ UNCHANGED <<worldVars, disk, procVars, job, dropped, lost, stateVars>>

\* Only InvalidArguments is caught.
SetFails ==
    /\ pc \in {"set2", "set3"}
    /\ CallFails
    /\ HandlerRaises(IF job = "consensus" THEN Undone ELSE {"RELOAD"})

\* Tor is too old for these options.
SetRejected ==
    /\ pc \in {"set2", "set3"} /\ link
    /\ HandlerExits
    /\ UNCHANGED <<worldVars, tor, disk>>

-----------------------------------------------------------------------------
\* The end of new_consensus_event: writing the state file.

\* open(self.state_file, "wb") empties the file at once.
OpenStateFile ==
    /\ pc = "open"
    /\ disk' = [disk EXCEPT !.status = "torn"]
    /\ pc' = "dump"
    /\ UNCHANGED <<worldVars, tor, procVars, job, snap, historyVars,
                   stateVars>>

OpenFails ==
    /\ pc = "open"
    /\ HandlerExits
    /\ UNCHANGED <<worldVars, tor, disk>>

\* Seeded fault: the layers are as they were when the process started.
PickledStale == [disk EXCEPT !.status = "ok", !.counts = use_counts,
                             !.total = total_use_counts]

Pickled == [status |-> "ok", layer |-> layer,
            counts |-> use_counts, total |-> total_use_counts]

AfterDump == IF proc = "starting" THEN "register" ELSE "idle"

\* write_to_file pickles the whole object.
WriteToFile ==
    /\ pc = "dump"
    /\ disk' = Pickled
    /\ pc' = AfterDump /\ snap' = NoSnapshot
    /\ dropped' = NoGuards /\ lost' = FALSE
    /\ UNCHANGED <<worldVars, tor, procVars, job, missed, stateVars>>

\* The disk is full, say: the file stays as short as it is.
WriteFails ==
    /\ pc = "dump"
    /\ HandlerExits
    /\ UNCHANGED <<worldVars, tor, disk>>

\* A listener cannot be added.
RegisterFails ==
    /\ pc = "register"
    /\ CallFails
    /\ HandlerRaises({})

\* A CIRC event reaches RendGuard between two other handlers.
RendUse(r) ==
    /\ proc = "serving" /\ pc = "idle" /\ link
    /\ RendCircEvent(r)
    /\ UNCHANGED <<worldVars, tor, disk, procVars, layer, pc, job, snap,
                   historyVars>>

-----------------------------------------------------------------------------
\* What happens from outside.

handlerVars == <<layer, pc, job, snap, dropped, lost, rendVars>>

\* Does Tor tell us, that is, is the listener of this event added?
Listened == proc = "serving" /\ link

\* Tor posts an event. Nobody gets it before the listeners are added; whether
\* it will be missed by then is for the caller to say.
Post(e, matters) ==
    /\ Len(queue) < MaxQueue
    /\ queue' = IF Listened THEN Append(queue, e) ELSE queue
    /\ missed' = IF proc = "starting" /\ link /\ matters
                  THEN missed \union {e} ELSE missed

\* Tor adopts a new consensus.
NewConsensus(c) ==
    /\ Disturb
    /\ c # consensus
    /\ consensus' = c
    /\ Post("NEWCONSENSUS", pc # "fetch")
    /\ UNCHANGED <<now, exclude, tor, disk, proc, link, cfg, handlerVars>>

\* The operator has Tor read its torrc again: what was set over the control
\* port is undone, and ExcludeNodes may have been edited.
Sighup(e) ==
    /\ Disturb
    /\ tor' = NoGuards
    /\ exclude' = e
    /\ Post("RELOAD", pc \in {"set3", "open", "dump", "register"})
    /\ UNCHANGED <<now, consensus, disk, proc, link, cfg, handlerVars>>

\* The control connection breaks, or Tor restarts with what its torrc says.
Disconnect ==
    /\ Disturb
    /\ link
    /\ link' = FALSE /\ queue' = <<>> /\ missed' = {}
    /\ tor' \in {tor, NoGuards}
    /\ UNCHANGED <<now, consensus, exclude, disk, proc, cfg, handlerVars>>

\* The process is killed, or the machine goes down.
Crash ==
    /\ Disturb
    /\ proc # "down"
    /\ ProcessEnds
    /\ UNCHANGED <<now, consensus, exclude, tor, disk>>

Tick ==
    /\ now < MaxTime
    /\ now' = now + 1
    /\ UNCHANGED <<consensus, exclude, budget, tor, disk, procVars, missed,
                   handlerVars>>

\* What a thread of the process does once it is running: no outside event is
\* needed for it, and the scheduler lets it happen.
HandlerStep ==
    \/ HandleNewConsensus \/ FetchConsensus \/ DescriptorsUnavailable
    \/ FetchFails \/ NoDataDirectory
    \/ RemoveDownAndExpired \/ RemoveExcludedAndTrim
    \/ LookupFails \/ (\E l \in Layers : AddNewLayer(l) \/ RejectAll(l))
    \/ FinishUpdate \/ UpdateFails
    \/ HandleReload \/ SetLayer2 \/ SetLayer3 \/ SetFails \/ SetRejected
    \/ OpenStateFile \/ OpenFails \/ WriteToFile \/ WriteFails
    \/ Register \/ RegisterFails

Environment ==
    \/ \E c \in Consensuses : NewConsensus(c)
    \/ \E e \in Excludes : Sighup(e)
    \/ Disconnect \/ Crash \/ Tick

Next ==
    \/ \E c \in Configs : Start(c)
    \/ Connect \/ Reconnect
    \/ HandlerStep
    \/ \E r \in Relays : RendUse(r)
    \/ Environment

Spec == Init /\ [][Next]_vars

FairSpec == Spec /\ WF_vars(HandlerStep)

-----------------------------------------------------------------------------
\* Properties of the layers.

\* No relay is in a layer twice: the layers are as wide as configured. A
\* duplicate would take a chooser that only compares within one update, or a
\* layer that is restored and replenished at once.
NoDuplicates ==
    \A l \in Layers : \A g, h \in layer[l] : g.idhex = h.idhex => g = h

\* remove_excluded_from_layer looks every guard up in the index of the routers
\* (vanguards.py:302): the guards that a restart, an edited consensus or a
\* configuration change left in a layer are all listed by then.
LookupsDefined ==
    pc = "exclude" => \A l \in Layers : Ids(layer[l]) \subseteq snap.consensus.listed

\* From the end of a consensus update to the end of its handler the layers are
\* complete, exactly as large as configured, and made of relays that are listed
\* and not excluded, whatever layers the update began with.
UpdatedLayers ==
    /\ cfg.enable
    /\ job = "consensus"
    /\ pc \in {"set2", "set3", "open", "dump"}
    => \A l \in Layers :
         /\ Cardinality(layer[l]) = cfg.num[l]
         /\ Ids(layer[l]) \subseteq snap.consensus.listed \ snap.exclude

\* The invariant that carries the three: duplicates come back from the state
\* file, what an update has removed stays out while it replenishes, and only an
\* update has a layer that may be too small or hold what it must not.
LayersInv ==
    /\ \A l \in Layers : IsFiniteSet(layer[l]) /\ IsFiniteSet(disk.layer[l])
    /\ \A l \in Layers : \A g, h \in disk.layer[l] : g.idhex = h.idhex => g = h
    /\ proc \in {"down", "connecting"} => pc = "idle"
    /\ pc = "xfer" => ~cfg.enable
    /\ pc = "replenish" =>
         \A l \in Layers :
           /\ Cardinality(layer[l]) <= cfg.num[l]
           /\ Ids(layer[l]) \subseteq snap.consensus.listed \ snap.exclude
    /\ NoDuplicates
    /\ LookupsDefined
    /\ UpdatedLayers

-----------------------------------------------------------------------------
\* Properties that relate the process, Tor and the state file.

Idle == proc = "serving" /\ link /\ pc = "idle"

TorIsSet ==
    \A l \in Layers : cfg.num[l] # 0 => tor[l] = Ids(layer[l])

\* Something has still to be set in Tor: a reload waits in the queue, or came
\* before the listener for it was added (main.py:245), or an error of Tor, which
\* configure_tor does not catch, or the division by zero of xfer_use_counts ended
\* the handler. Nobody follows these up until the next consensus or reload.
Unset == {"RELOAD", "SET"} \intersect (Range(queue) \union missed) # {}

\* While the process waits for events, Tor uses the layers it keeps: after a
\* reconnect, a restart of Tor, a failure before the layers are changed, or a
\* SIGHUP, Tor and the process do not part; nor after any other failure, once a
\* later update or reload gets through.
TorMatches == Idle /\ cfg.enable /\ ~Unset => TorIsSet

\* While the process waits for events and its connection is alive, the state
\* file is complete and holds the layers in memory: no update that gets to its
\* end leaves them unsaved, and none that fails before it begins (a failure in
\* between does, and leaves the file as it was).
DiskMatches ==
    Idle => disk.status = "ok" /\ ("SAVE" \in missed \/ disk.layer = layer)

\* A guard of the last complete state file is missing from the next one only
\* because a rule of consensus_update removed it since, or because the process
\* had to start without a readable state file. Crashes, failed updates and
\* reconnects alone cost no guard.
GuardsKept ==
    [][WriteToFile =>
         \A l \in Layers : disk.layer[l] \ disk'.layer[l] \subseteq dropped[l]
                           \/ lost]_vars

\* What a start would find.
Durable == IF disk.status = "ok" THEN disk.layer ELSE NoGuards

\* The guards are those in memory, or those that a start would find.
Store == INSTANCE GuardStore WITH
    pinned <- IF proc = "down" THEN Durable ELSE layer,
    saved <- Durable,
    clock <- now,
    barred <- (Relays \ snap.consensus.listed) \union snap.exclude,
    width <- cfg.num

\* The process is a store of pinned guards: no step of it, of Tor, of its
\* operator or of the disk changes the guards but as the store promises.
GuardsPinned == Store!StoreSpec

\* A SIGHUP that is reported is followed up: Tor gets the layers back, unless
\* the process stops serving first, or Tor refuses what the handler sets.
ReloadReapplied ==
    cfg.enable /\ "RELOAD" \in Range(queue)
      ~> ~Listened \/ TorIsSet \/ "RELOAD" \in missed

\* A relay that is down does not stay in Tor's layers, unless it comes back,
\* the process stops serving, or the new consensus was missed or could not be
\* processed.
DownRelaysSwitched ==
    \A r \in Relays :
        Listened /\ cfg.enable /\ r \notin consensus.listed
          ~> \/ ~Listened
             \/ "NEWCONSENSUS" \in missed
             \/ r \in consensus.listed
             \/ \A l \in Layers : r \notin tor[l]

-----------------------------------------------------------------------------
\* What the documentation says, and the code does not do.

\* "Disable setting any layer2 and layer3 guards." (config.py:113, the help
\* of --disable_vanguards)
DisabledLeavesTorAlone == [][~cfg.enable => ~SetLayer2 /\ ~SetLayer3]_vars
=============================================================================
