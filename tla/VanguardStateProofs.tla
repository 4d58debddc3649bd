------------------------- MODULE VanguardStateProofs -------------------------
(***************************************************************************)
(* Proofs about VanguardState, for any set of relays, consensus documents, *)
(* configurations and bounds: the types, the soundness of the layers, the  *)
(* rendezvous counts, the agreement of memory, Tor and the state file, and *)
(* that all this is a store of pinned guards.                              *)
(***************************************************************************)
EXTENDS VanguardState, RendGuardProofs

USE DEF Layers

\* The snapshot that no handler has filled is one a handler may fill.
LEMMA NoSnapshotType ==
    /\ AnyConsensus \in Consensuses
    /\ NoSnapshot \in [consensus : Consensuses, exclude : Excludes]
BY ConsensusesAssumption, ExcludesAssumption DEF AnyConsensus, NoSnapshot

\* No guards are layers of guards.
LEMMA NoGuardsType ==
    /\ NoGuards \in [Layers -> SUBSET GuardNode]
    /\ NoGuards \in [Layers -> SUBSET Relays]
BY DEF NoGuards

\* The queue starts empty, an event leaves at its head and joins at its end.
LEMMA QueueType ==
    /\ <<>> \in Seq(Events)
    /\ \A q \in Seq(Events) : q # <<>> => Tail(q) \in Seq(Events)
    /\ \A q \in Seq(Events), e \in Events : Append(q, e) \in Seq(Events)
OBVIOUS

\* What the trim keeps is part of the layer.
LEMMA TrimmedSubset ==
    ASSUME NEW S, NEW n, NEW K \in Trimmed(S, n)
    PROVE  K \subseteq S
BY DEF Trimmed

\* Removing guards from well-typed layers leaves well-typed layers.
LEMMA RemoveGuardsType ==
    ASSUME NEW gone, LayerTypeOK, RemoveGuards(gone),
           \A l \in Layers : gone[l] \subseteq layer[l]
    PROVE  /\ layer' \in [Layers -> SUBSET GuardNode]
           /\ dropped' \in [Layers -> SUBSET GuardNode]
BY DEF LayerTypeOK, RemoveGuards

-----------------------------------------------------------------------------
(* Type correctness.                                                       *)

LEMMA TypeInit == Init => LayerTypeOK
<1> SUFFICES ASSUME Init PROVE LayerTypeOK
  OBVIOUS
<1>1. disk \in [status : {"absent", "torn", "ok"},
                layer : [Layers -> SUBSET GuardNode],
                counts : {disk.counts}, total : {disk.total}]
  BY NoGuardsType DEF Init
<1> QED
  BY <1>1, NoSnapshotType, NoGuardsType, QueueType, LifetimeAssumption
  DEF Init, LayerTypeOK, Phases, Events

\* What is common to all failures: the world but for the number of disturbances,
\* Tor and the file stay as they are, and the process or the handler ends.
Failed ==
    /\ UNCHANGED <<now, consensus, exclude, tor, disk>>
    /\ budget' \in Nat
    /\ pc # "idle"
    /\ \/ ProcessEnds
       \/ \E u \in SUBSET (Events \union Undone) : HandlerEnds(u)
       \/ HandlerExits

Failure ==
    \/ FetchFails \/ NoDataDirectory \/ LookupFails \/ UpdateFails \/ SetFails
    \/ SetRejected \/ OpenFails \/ WriteFails \/ RegisterFails

\* Of which only the failed transfer touches the counts.
LEMMA FailuresFail ==
    ASSUME LayerTypeOK, Failure
    PROVE  /\ Failed
           /\ \/ ProcessEnds
              \/ UNCHANGED rendVars
              \/ UpdateFails /\ XferFails(snap.consensus)
<1> USE DEF Failed, LayerTypeOK, worldVars
<1>1. ASSUME CallFails
      PROVE  UNCHANGED <<now, consensus, exclude, tor, disk>> /\ budget' \in Nat
  BY <1>1 DEF CallFails, Disturb
<1>2. ASSUME NEW u \in SUBSET (Events \union Undone), HandlerRaises(u)
      PROVE  /\ ProcessEnds \/ \E v \in SUBSET (Events \union Undone) : HandlerEnds(v)
             /\ ProcessEnds \/ UNCHANGED rendVars
  BY <1>2 DEF HandlerRaises
<1>3. HandlerExits => ProcessEnds \/ UNCHANGED rendVars
  BY DEF HandlerExits, stateVars
<1>4. /\ {} \in SUBSET (Events \union Undone) /\ Undone \in SUBSET (Events \union Undone)
      /\ {"NEWCONSENSUS"} \in SUBSET (Events \union Undone)
      /\ {"RELOAD"} \in SUBSET (Events \union Undone)
  BY DEF Events
<1>5. CASE FetchFails
  BY <1>1, <1>2, <1>4, <1>5 DEF FetchFails
<1>6. CASE LookupFails \/ RegisterFails
  BY <1>1, <1>2, <1>4, <1>6 DEF LookupFails, RegisterFails
<1>7. CASE SetFails
  <2>1. (IF job = "consensus" THEN Undone ELSE {"RELOAD"}) \in SUBSET (Events \union Undone)
    BY <1>4
  <2> QED
    BY <1>1, <1>2, <1>7, <2>1 DEF SetFails
<1>8. CASE NoDataDirectory \/ SetRejected \/ OpenFails \/ WriteFails
  BY <1>3, <1>8 DEF NoDataDirectory, SetRejected, OpenFails, WriteFails
<1>9. CASE UpdateFails
  BY <1>4, <1>9 DEF UpdateFails, LayersDone
<1> QED
  BY <1>5, <1>6, <1>7, <1>8, <1>9 DEF Failure

\* The end of the process and the ways a handler may fail keep the types.
LEMMA FailureType ==
    ASSUME LayerTypeOK, Failed
    PROVE  LayerTypeOK'
<1> USE NoSnapshotType, NoGuardsType, QueueType
    DEF LayerTypeOK, worldVars, procVars, stateVars, historyVars, Phases, Events,
        Undone
<1>1. /\ UNCHANGED <<now, consensus, exclude, tor, disk>> /\ budget' \in Nat
  BY DEF Failed
<1>2. CASE ProcessEnds
  BY <1>1, <1>2 DEF ProcessEnds
<1>3. ASSUME NEW u \in SUBSET (Events \union Undone), HandlerEnds(u)
      PROVE  LayerTypeOK'
  <2>1. missed' \subseteq Events \union Undone
    BY <1>3 DEF HandlerEnds
  <2>2. /\ UNCHANGED <<proc, link, cfg, queue, job, dropped, lost, layer>>
        /\ pc' = "idle" /\ snap' = NoSnapshot
    BY <1>3 DEF HandlerEnds
  <2> QED
    BY <1>1, <2>1, <2>2
<1>4. CASE HandlerExits
  BY <1>1, <1>2, <1>4 DEF HandlerExits
<1> QED
  BY <1>2, <1>3, <1>4 DEF Failed

\* The steps that only move the process or the handler on.
LEMMA ControlType ==
    ASSUME LayerTypeOK,
           \/ \E c \in Configs : Start(c)
           \/ Connect \/ Reconnect \/ Register
           \/ HandleNewConsensus \/ HandleReload
           \/ FetchConsensus \/ DescriptorsUnavailable
           \/ FinishUpdate
           \/ \E r \in Relays : RendUse(r)
    PROVE  LayerTypeOK'
<1> USE NoSnapshotType, NoGuardsType, QueueType
    DEF LayerTypeOK, worldVars, procVars, stateVars, historyVars, Phases, Events
<1>1. ASSUME NEW c \in Configs, Start(c) PROVE LayerTypeOK'
  BY <1>1 DEF Start, LoadedLayers
<1>2. CASE Connect \/ Reconnect \/ Register
  BY <1>2 DEF Connect, Reconnect, Register
<1>3. CASE HandleNewConsensus \/ HandleReload
  <2>1. CASE HandleNewConsensus
    BY <2>1 DEF HandleNewConsensus
  <2>2. CASE HandleReload
    BY <2>2 DEF HandleReload
  <2> QED
    BY <1>3, <2>1, <2>2
<1>4. CASE FetchConsensus
  BY <1>4 DEF FetchConsensus
<1>5. CASE DescriptorsUnavailable
  BY <1>5 DEF DescriptorsUnavailable
<1>6. CASE FinishUpdate
  BY <1>6 DEF FinishUpdate
<1>7. ASSUME NEW r \in Relays, RendUse(r) PROVE LayerTypeOK'
  BY <1>7 DEF RendUse
<1> QED
  BY <1>1, <1>2, <1>3, <1>4, <1>5, <1>6, <1>7

\* The steps of a consensus update that change the layers.
LEMMA LayersType ==
    ASSUME LayerTypeOK,
           \/ RemoveDownAndExpired \/ RemoveExcludedAndTrim
           \/ \E l \in Layers : AddNewLayer(l) \/ RejectAll(l)
    PROVE  LayerTypeOK'
<1> USE DEF LayerTypeOK, worldVars, procVars, Phases
<1>1. CASE RemoveDownAndExpired
  <2>1. /\ layer' \in [Layers -> SUBSET GuardNode]
        /\ dropped' \in [Layers -> SUBSET GuardNode]
    BY <1>1, RemoveGuardsType DEF RemoveDownAndExpired
  <2> QED
    BY <1>1, <2>1 DEF RemoveDownAndExpired
<1>2. CASE RemoveExcludedAndTrim
  <2>1. /\ layer' \in [Layers -> SUBSET GuardNode]
        /\ dropped' \in [Layers -> SUBSET GuardNode]
    BY <1>2 DEF RemoveExcludedAndTrim, RemoveGuards
  <2> QED
    BY <1>2, <2>1 DEF RemoveExcludedAndTrim
<1>3. ASSUME NEW l \in Layers, AddNewLayer(l) PROVE LayerTypeOK'
  <2>1. PICK r \in Eligible(l), life \in MinLifetime[l]..MaxLifetime[l] :
          layer' = [layer EXCEPT ![l] = @ \union
                      {[idhex |-> r, chosen_at |-> now,
                        expires_at |-> now + life]}]
    BY <1>3 DEF AddNewLayer
  <2>2. r \in Relays
    BY ConsensusesAssumption DEF Eligible, Consensus
  <2>3. now + life \in Nat
    <3>1. MinLifetime[l] \in Nat /\ MaxLifetime[l] \in Nat /\ now \in Nat
      BY LifetimeAssumption
    <3> QED
      BY <3>1
  <2>4. [idhex |-> r, chosen_at |-> now, expires_at |-> now + life] \in GuardNode
    BY <2>2, <2>3 DEF GuardNode
  <2>5. layer' \in [Layers -> SUBSET GuardNode]
    BY <2>1, <2>4
  <2> QED
    BY <1>3, <2>5 DEF AddNewLayer, historyVars
<1>4. ASSUME NEW l \in Layers, RejectAll(l) PROVE LayerTypeOK'
  BY <1>4 DEF RejectAll, vars, historyVars
<1> QED
  BY <1>1, <1>2, <1>3, <1>4

\* The steps that set the layers in Tor and write the state file.
LEMMA OutputType ==
    ASSUME LayerTypeOK,
           \/ SetLayer2 \/ SetLayer3
           \/ OpenStateFile \/ WriteToFile
    PROVE  LayerTypeOK'
<1> USE NoSnapshotType, NoGuardsType
    DEF LayerTypeOK, worldVars, procVars, stateVars, historyVars, Phases
<1>1. \A l \in Layers : Ids(layer[l]) \subseteq Relays
  BY DEF Ids, GuardNode
<1>2. CASE SetLayer2
  <2>1. tor' \in [Layers -> SUBSET Relays]
    BY <1>1, <1>2 DEF SetLayer2, Guardset
  <2> QED
    BY <1>2, <2>1 DEF SetLayer2
<1>3. CASE SetLayer3
  <2>1. tor' \in [Layers -> SUBSET Relays]
    BY <1>1, <1>3 DEF SetLayer3, Guardset
  <2>2. /\ pc' \in Phases /\ snap' \in [consensus : Consensuses, exclude : Excludes]
        /\ missed' \subseteq Events \union Undone
    BY <1>3 DEF SetLayer3
  <2> QED
    BY <1>3, <2>1, <2>2 DEF SetLayer3
<1>4. CASE OpenStateFile
  BY <1>4 DEF OpenStateFile
<1>5. CASE WriteToFile
  BY <1>5 DEF WriteToFile, Pickled, AfterDump
<1> QED
  BY <1>2, <1>3, <1>4, <1>5

\* What happens from outside.
LEMMA EnvironmentType ==
    ASSUME LayerTypeOK, Environment
    PROVE  LayerTypeOK'
<1> USE DEF LayerTypeOK, procVars, handlerVars, Disturb
<1>1. ASSUME NEW e \in Events, NEW matters, Post(e, matters)
      PROVE  queue' \in Seq(Events) /\ missed' \subseteq Events \union Undone
  BY <1>1, QueueType DEF Post
<1>2. ASSUME NEW c \in Consensuses, NewConsensus(c) PROVE LayerTypeOK'
  <2>1. queue' \in Seq(Events) /\ missed' \subseteq Events \union Undone
    BY <1>1, <1>2 DEF NewConsensus, Events
  <2> QED
    BY <1>2, <2>1 DEF NewConsensus
<1>3. ASSUME NEW e \in Excludes, Sighup(e) PROVE LayerTypeOK'
  <2>1. queue' \in Seq(Events) /\ missed' \subseteq Events \union Undone
    BY <1>1, <1>3 DEF Sighup, Events
  <2> QED
    BY <1>3, <2>1, NoGuardsType DEF Sighup
<1>4. <<>> \in Seq(Events)
  BY QueueType
<1>5. CASE Disconnect
  <2>1. tor' \in [Layers -> SUBSET Relays]
    BY <1>5, NoGuardsType DEF Disconnect
  <2>2. budget' \in Nat /\ missed' \subseteq Events \union Undone
    BY <1>5 DEF Disconnect
  <2> QED
    BY <1>4, <1>5, <2>1, <2>2 DEF Disconnect
<1>6. CASE Crash
  <2>1. budget' \in Nat /\ missed' \subseteq Events \union Undone
    BY <1>6 DEF Crash, ProcessEnds
  <2> QED
    BY <1>4, <1>6, <2>1, NoGuardsType, NoSnapshotType
    DEF Crash, ProcessEnds, Phases
<1>7. CASE Tick
  BY <1>7 DEF Tick
<1> QED
  BY <1>2, <1>3, <1>5, <1>6, <1>7 DEF Environment

LEMMA TypeStep == LayerTypeOK /\ [Next]_vars => LayerTypeOK'
<1> SUFFICES ASSUME LayerTypeOK, [Next]_vars PROVE LayerTypeOK'
  OBVIOUS
<1>1. CASE Failure
  BY <1>1, FailuresFail, FailureType
<1>2. CASE UNCHANGED vars
  BY <1>2 DEF LayerTypeOK, vars, worldVars, procVars, historyVars
<1>3. CASE HandlerStep
  BY <1>1, <1>3, ControlType, LayersType, OutputType DEF HandlerStep, Failure
<1> QED
  BY <1>2, <1>3, ControlType, EnvironmentType DEF Next

\* Whatever the process, Tor and their environment do, the state of the
\* process, of Tor and of the state file is what LayerTypeOK says.
THEOREM TypeCorrect == Spec => []LayerTypeOK
BY TypeInit, TypeStep, PTL DEF Spec

-----------------------------------------------------------------------------
(* The layers.                                                             *)

LEMMA LayersInit == Init => LayersInv
BY FS_EmptySet
DEF Init, LayersInv, NoGuards, NoDuplicates, LookupsDefined, UpdatedLayers

\* A step keeps the invariant when it leaves the layers and the saved layers
\* alone and goes to a phase of which nothing is claimed, or goes on with the
\* same job after the layers were brought up to date.
LEMMA QuietStep ==
    ASSUME LayersInv,
           layer' = layer, disk'.layer = disk.layer,
           proc' \in {"down", "connecting"} => pc' = "idle",
           \/ pc' \in {"idle", "fetch", "prune", "register"}
           \/ pc' = "xfer" /\ ~cfg.enable'
           \/ pc' = "set2" /\ job' = "signal"
           \/ UNCHANGED <<pc, job, cfg, snap>>
           \/ /\ pc \in {"set2", "set3", "open", "dump"}
              /\ pc' \in {"set2", "set3", "open", "dump"}
              /\ UNCHANGED <<job, cfg, snap>>
           \/ /\ ~cfg.enable'
              /\ pc' \in {"set2", "set3", "open", "dump"}
    PROVE  LayersInv'
BY DEF LayersInv, NoDuplicates, LookupsDefined, UpdatedLayers, Ids

\* The process loses its layers, or gets back the saved ones, only where no
\* update is under way.
LEMMA LoadStep ==
    ASSUME LayersInv, disk' = disk,
           layer' = NoGuards \/ layer' = disk.layer,
           pc' = "idle"
    PROVE  LayersInv'
<1>1. CASE layer' = NoGuards
  <2>1. \A l \in Layers : layer'[l] = {}
    BY <1>1 DEF NoGuards
  <2>2. NoDuplicates' /\ LookupsDefined' /\ UpdatedLayers'
    BY <2>1 DEF NoDuplicates, LookupsDefined, UpdatedLayers
  <2>3. \A l \in Layers : IsFiniteSet(layer'[l])
    BY <2>1, FS_EmptySet
  <2> QED
    BY <2>2, <2>3 DEF LayersInv
<1>2. CASE layer' = disk.layer
  <2>1. NoDuplicates' /\ LookupsDefined' /\ UpdatedLayers'
    BY <1>2 DEF LayersInv, NoDuplicates, LookupsDefined, UpdatedLayers
  <2> QED
    BY <1>2, <2>1 DEF LayersInv
<1> QED
  BY <1>1, <1>2

LEMMA FailureLayers ==
    ASSUME LayersInv, Failed
    PROVE  LayersInv'
<1>1. CASE ProcessEnds
  BY <1>1, LoadStep DEF ProcessEnds, Failed
<1>2. CASE ~ProcessEnds
  <2>1. layer' = layer /\ disk' = disk /\ pc' = "idle"
    BY <1>2 DEF Failed, HandlerEnds, HandlerExits, stateVars
  <2> QED
    BY <2>1, QuietStep
<1> QED
  BY <1>1, <1>2

LEMMA ControlLayers ==
    ASSUME LayerTypeOK, LayersInv,
           \/ \E c \in Configs : Start(c)
           \/ Connect \/ Reconnect \/ Register
           \/ HandleNewConsensus \/ HandleReload
           \/ FetchConsensus \/ DescriptorsUnavailable
           \/ \E r \in Relays : RendUse(r)
    PROVE  LayersInv'
<1>1. ASSUME NEW c \in Configs, Start(c) PROVE LayersInv'
  <2>1. pc' = "idle" /\ disk' = disk
    BY <1>1 DEF Start, LayersInv
  <2> QED
    BY <1>1, <2>1, LoadStep DEF Start, LoadedLayers
<1>2. CASE Connect \/ Reconnect \/ Register
  BY <1>2, QuietStep DEF Connect, Reconnect, Register, stateVars
<1>3. CASE HandleNewConsensus \/ HandleReload
  BY <1>3, QuietStep DEF HandleNewConsensus, HandleReload, stateVars
<1>4. CASE FetchConsensus
  <2>1. proc \notin {"down", "connecting"}
    BY <1>4 DEF FetchConsensus, LayersInv
  <2> QED
    BY <1>4, <2>1, QuietStep DEF FetchConsensus, procVars, stateVars
<1>5. CASE DescriptorsUnavailable
  BY <1>5, QuietStep DEF DescriptorsUnavailable, stateVars
<1>6. ASSUME NEW r \in Relays, RendUse(r) PROVE LayersInv'
  BY <1>6, QuietStep DEF RendUse, procVars
<1> QED
  BY <1>1, <1>2, <1>3, <1>4, <1>5, <1>6

LEMMA OutputLayers ==
    ASSUME LayerTypeOK, LayersInv,
           \/ SetLayer2 \/ SetLayer3 \/ OpenStateFile
    PROVE  LayersInv'
<1>1. proc \notin {"down", "connecting"}
  BY DEF SetLayer2, SetLayer3, OpenStateFile, LayersInv
<1>2. CASE SetLayer2
  BY <1>1, <1>2, QuietStep DEF SetLayer2, procVars, stateVars
<1>3. CASE SetLayer3
  BY <1>1, <1>3, QuietStep DEF SetLayer3, procVars, stateVars
<1>4. CASE OpenStateFile
  BY <1>1, <1>4, QuietStep DEF OpenStateFile, procVars, stateVars, LayerTypeOK
<1> QED
  BY <1>2, <1>3, <1>4

\* The state file gets layers without duplicates.
LEMMA WriteLayers ==
    ASSUME LayersInv, WriteToFile
    PROVE  LayersInv'
<1>1. pc' \in {"register", "idle"} /\ layer' = layer /\ disk'.layer = layer
  BY DEF WriteToFile, Pickled, AfterDump, stateVars
<1>2. proc' \notin {"down", "connecting"}
  BY DEF WriteToFile, procVars, LayersInv
<1> QED
  BY <1>1, <1>2 DEF LayersInv, NoDuplicates, LookupsDefined, UpdatedLayers

\* After remove_down_from_layer every guard is in the index of the routers.
LEMMA PruneLayers ==
    ASSUME LayerTypeOK, LayersInv, RemoveDownAndExpired
    PROVE  LayersInv'
<1> DEFINE gone(l) == {g \in layer[l] : Down(g) \/ Expired(g)}
<1>1. \A l \in Layers : layer'[l] = layer[l] \ gone(l)
  BY DEF RemoveDownAndExpired, RemoveGuards
<1>2. \A l \in Layers : IsFiniteSet(layer'[l])
  BY <1>1, FS_Subset DEF LayersInv
<1>3. \A l \in Layers : Ids(layer'[l]) \subseteq snap.consensus.listed
  BY <1>1 DEF Ids, Down
<1>4. /\ pc' = "exclude" /\ disk' = disk /\ snap' = snap /\ proc' = proc
      /\ pc = "prune"
  BY DEF RemoveDownAndExpired, procVars
<1>5. NoDuplicates'
  BY <1>1 DEF LayersInv, NoDuplicates
<1> QED
  BY <1>2, <1>3, <1>4, <1>5 DEF LayersInv, LookupsDefined, UpdatedLayers

\* The trim leaves at most as many guards as configured.
LEMMA TrimmedSize ==
    ASSUME NEW S, IsFiniteSet(S), NEW n \in Nat, NEW K \in Trimmed(S, n)
    PROVE  IsFiniteSet(K) /\ Cardinality(K) <= n
BY FS_Subset, FS_CardinalityType DEF Trimmed

LEMMA ConfigType == cfg \in Configs => \A l \in Layers : cfg.num[l] \in Nat
BY ConfigsAssumption DEF Config

LEMMA TrimLayers ==
    ASSUME LayerTypeOK, LayersInv, RemoveExcludedAndTrim
    PROVE  LayersInv'
<1> DEFINE included(l) == {g \in layer[l] : ~Excluded(g)}
<1>1. PICK two \in Trimmed(included(2), cfg.num[2]),
           three \in Trimmed(included(3), cfg.num[3]) :
        RemoveGuards([l \in Layers |->
                        layer[l] \ (IF l = 2 THEN two ELSE three)])
  BY DEF RemoveExcludedAndTrim
<1>2. two \subseteq included(2) /\ three \subseteq included(3)
  BY TrimmedSubset
<1>3. layer'[2] = two /\ layer'[3] = three
  BY <1>1, <1>2 DEF RemoveGuards
<1>4. \A l \in Layers : IsFiniteSet(included(l))
  BY FS_Subset DEF LayersInv
<1>5. \A l \in Layers :
        IsFiniteSet(layer'[l]) /\ Cardinality(layer'[l]) <= cfg.num[l]
  BY <1>3, <1>4, TrimmedSize, ConfigType DEF LayerTypeOK
<1>6. /\ pc = "exclude" /\ pc' = "replenish"
      /\ disk' = disk /\ snap' = snap /\ proc' = proc /\ cfg' = cfg
  BY DEF RemoveExcludedAndTrim, procVars
<1>7. \A l \in Layers :
        Ids(layer'[l]) \subseteq snap.consensus.listed \ snap.exclude
  BY <1>2, <1>3, <1>6 DEF Ids, Excluded, LayersInv, LookupsDefined
<1>8. NoDuplicates'
  BY <1>2, <1>3 DEF LayersInv, NoDuplicates
<1> QED
  BY <1>5, <1>6, <1>7, <1>8 DEF LayersInv, LookupsDefined, UpdatedLayers

\* A guard that is added is new in its layer, listed and not excluded.
LEMMA AddLayers ==
    ASSUME LayerTypeOK, LayersInv, NEW l \in Layers, AddNewLayer(l)
    PROVE  LayersInv'
<1>1. PICK r \in Eligible(l), life \in MinLifetime[l]..MaxLifetime[l] :
        layer' = [layer EXCEPT ![l] = @ \union
                    {[idhex |-> r, chosen_at |-> now,
                      expires_at |-> now + life]}]
  BY DEF AddNewLayer
<1> DEFINE new == [idhex |-> r, chosen_at |-> now, expires_at |-> now + life]
<1>2. /\ layer'[l] = layer[l] \union {new}
      /\ \A k \in Layers \ {l} : layer'[k] = layer[k]
  BY <1>1 DEF LayerTypeOK
<1>3. /\ r \notin Ids(layer[l])
      /\ r \in snap.consensus.listed \ snap.exclude
  BY ConsensusesAssumption DEF Eligible, LayerTypeOK
<1>4. new.idhex = r
  OBVIOUS
<1> HIDE DEF new
<1>5. /\ pc = "replenish" /\ pc' = pc /\ Short(l)
      /\ disk' = disk /\ snap' = snap /\ proc' = proc /\ cfg' = cfg
  BY DEF AddNewLayer, procVars
<1>6. \A k \in Layers : IsFiniteSet(layer'[k])
  <2>1. \A k \in Layers : IsFiniteSet(layer[k])
    BY DEF LayersInv
  <2>2. IsFiniteSet(layer[l] \union {new})
    BY <2>1, FS_AddElement
  <2> QED
    BY <1>2, <2>1, <2>2
<1>7. Cardinality(layer'[l]) <= cfg.num[l]
  <2>1. Cardinality(layer'[l]) \in {Cardinality(layer[l]), Cardinality(layer[l]) + 1}
    BY <1>2, FS_AddElement DEF LayersInv
  <2>2. Cardinality(layer[l]) \in Nat /\ cfg.num[l] \in Nat
    BY FS_CardinalityType, ConfigType DEF LayersInv, LayerTypeOK
  <2> QED
    BY <2>1, <2>2, <1>5 DEF Short
<1>8. \A k \in Layers :
        /\ Cardinality(layer'[k]) <= cfg.num[k]
        /\ Ids(layer'[k]) \subseteq snap.consensus.listed \ snap.exclude
  <2>1. Ids(layer'[l]) = Ids(layer[l]) \union {r}
    BY <1>2, <1>4 DEF Ids
  <2>2. \A k \in Layers \ {l} : layer'[k] = layer[k]
    BY <1>2
  <2>3. \A k \in Layers :
          /\ Cardinality(layer[k]) <= cfg.num[k]
          /\ Ids(layer[k]) \subseteq snap.consensus.listed \ snap.exclude
    BY <1>5 DEF LayersInv
  <2> QED
    BY <1>3, <1>7, <2>1, <2>2, <2>3
<1>9. NoDuplicates'
  BY <1>2, <1>3, <1>4 DEF LayersInv, NoDuplicates, Ids
<1> QED
  BY <1>5, <1>6, <1>8, <1>9 DEF LayersInv, LookupsDefined, UpdatedLayers

\* Where the loops of replenish_layers end, the layers are complete.
LEMMA FinishLayers ==
    ASSUME LayerTypeOK, LayersInv, FinishUpdate
    PROVE  LayersInv'
<1>1. /\ layer' = layer /\ disk' = disk
      /\ UNCHANGED <<proc, cfg, job, snap>>
      /\ pc' = IF cfg.enable THEN "set2" ELSE "open"
      /\ proc \notin {"down", "connecting"}
  BY DEF FinishUpdate, LayersDone, procVars, LayersInv
<1>2. CASE ~cfg.enable
  BY <1>1, <1>2, QuietStep
<1>3. CASE cfg.enable
  <2>1. pc = "replenish" /\ \A l \in Layers : ~Short(l)
    BY <1>3 DEF FinishUpdate, LayersDone, LayersInv
  <2>2. \A l \in Layers : Cardinality(layer[l]) \in Nat /\ cfg.num[l] \in Nat
    BY FS_CardinalityType, ConfigType DEF LayersInv, LayerTypeOK
  <2>3. \A l \in Layers : Cardinality(layer[l]) = cfg.num[l]
    BY <2>1, <2>2 DEF Short, LayersInv
  <2> QED
    BY <1>1, <1>3, <2>1, <2>3 DEF LayersInv, NoDuplicates, LookupsDefined, UpdatedLayers
<1> QED
  BY <1>2, <1>3 DEF LayerTypeOK

LEMMA EnvironmentLayers ==
    ASSUME LayersInv, Environment
    PROVE  LayersInv'
<1>1. CASE Crash
  BY <1>1, LoadStep DEF Crash, ProcessEnds
<1>2. CASE ~Crash
  <2>1. /\ layer' = layer /\ disk' = disk
        /\ UNCHANGED <<proc, pc, job, cfg, snap>>
    BY <1>2
    DEF Environment, NewConsensus, Sighup, Disconnect, Tick, handlerVars, procVars
  <2> QED
    BY <2>1, QuietStep DEF LayersInv
<1> QED
  BY <1>1, <1>2

LEMMA LayersStep == LayerTypeOK /\ LayersInv /\ [Next]_vars => LayersInv'
<1> SUFFICES ASSUME LayerTypeOK, LayersInv, [Next]_vars PROVE LayersInv'
  OBVIOUS
<1>1. CASE Failure
  BY <1>1, FailuresFail, FailureLayers
<1>2. CASE UNCHANGED vars \/ \E l \in Layers : RejectAll(l)
  <2>1. UNCHANGED vars
    BY <1>2 DEF RejectAll
  <2> QED
    BY <2>1, QuietStep DEF vars, procVars, LayersInv
<1>3. CASE HandlerStep
  BY <1>1, <1>2, <1>3, ControlLayers, OutputLayers, WriteLayers, PruneLayers,
     TrimLayers, AddLayers, FinishLayers DEF HandlerStep, Failure
<1> QED
  BY <1>2, <1>3, ControlLayers, EnvironmentLayers DEF Next

\* The inductive invariant, together with the types.
THEOREM LayersInvariant == Spec => [](LayerTypeOK /\ LayersInv)
BY TypeInit, TypeStep, LayersInit, LayersStep, PTL DEF Spec

\* No relay is ever in a layer twice.
THEOREM NeverTwice == Spec => []NoDuplicates
<1>1. LayersInv => NoDuplicates
  BY DEF LayersInv
<1> QED
  BY <1>1, LayersInvariant, PTL

\* The lookup of vanguards.py:302 never fails.
THEOREM LookupsNeverFail == Spec => []LookupsDefined
<1>1. LayersInv => LookupsDefined
  BY DEF LayersInv
<1> QED
  BY <1>1, LayersInvariant, PTL

\* Every consensus update ends with complete layers of listed relays that are
\* not excluded.
THEOREM UpdatesComplete == Spec => []UpdatedLayers
<1>1. LayersInv => UpdatedLayers
  BY DEF LayersInv
<1> QED
  BY <1>1, LayersInvariant, PTL

-----------------------------------------------------------------------------
(* The rendezvous counts: they live in the same object, and go through the *)
(* same state file.                                                        *)

\* What the state file has of them is a table and its sum.
DiskInv ==
    /\ DOMAIN disk.counts \subseteq Buckets
    /\ \A r \in DOMAIN disk.counts :
         disk.counts[r] \in [used : Nat, weight : WeightsOf(r)]
    /\ disk.total \in Nat /\ disk.total = SumUsed(disk.counts)

\* The counts are those of a transfer that got through where they are written.
WholeInv ==
    \/ pc \in {"open", "dump"}
    \/ pc \in {"set2", "set3"} /\ job = "consensus"
    => ~halfway

CountsInv == RendInv /\ DiskInv /\ WholeInv

LEMMA NoCountsInv ==
    ASSUME use_counts' = NoCounts, total_use_counts' = 0, closed' = NoRelay,
           halfway' = FALSE
    PROVE  RendInv'
<1>1. RendTypeOK'
  BY DEF NoCounts, RendTypeOK
<1>2. total_use_counts' = SumUsed(use_counts') /\ halfway' = FALSE
  BY NoUses DEF NoCounts
<1> QED
  BY <1>1, <1>2 DEF RendInv, TotalIsSum

LEMMA CountsInit == Init => CountsInv
<1> SUFFICES ASSUME Init PROVE CountsInv
  OBVIOUS
<1>1. disk.counts = NoCounts /\ disk.total = 0
  BY DEF Init
<1> QED
  BY <1>1, NoUses, RendInitInv DEF Init, CountsInv, DiskInv, NoCounts, WholeInv

LEMMA CountsStep == LayerTypeOK /\ LayersInv /\ CountsInv /\ [Next]_vars => CountsInv'
<1> SUFFICES ASSUME LayerTypeOK, LayersInv, CountsInv, [Next]_vars PROVE CountsInv'
  OBVIOUS
<1>1. ASSUME UNCHANGED <<rendVars, disk>> PROVE RendInv' /\ DiskInv'
  BY <1>1 DEF rendVars, CountsInv, RendInv, RendTypeOK, TotalIsSum, DiskInv
<1>2. ASSUME ProcessEnds, UNCHANGED disk PROVE CountsInv'
  BY <1>2, NoCountsInv DEF ProcessEnds, CountsInv, DiskInv, WholeInv
<1>3. ASSUME NEW c \in Configs, Start(c) PROVE CountsInv'
  <2>1. UNCHANGED disk /\ closed' = NoRelay /\ halfway' = FALSE
    BY <1>3 DEF Start
  <2>2. CASE Restored
    <3>1. use_counts' = disk.counts /\ total_use_counts' = disk.total
      BY <1>3, <2>2 DEF Start, LoadedCounts, LoadedTotal
    <3> QED
      BY <2>1, <3>1 DEF CountsInv, DiskInv, RendInv, RendTypeOK, TotalIsSum, WholeInv
  <2>3. CASE ~Restored
    <3>1. use_counts' = NoCounts /\ total_use_counts' = 0
      BY <1>3, <2>3 DEF Start, LoadedCounts, LoadedTotal
    <3> QED
      BY <2>1, <3>1, NoCountsInv DEF CountsInv, DiskInv, WholeInv
  <2> QED
    BY <2>2, <2>3
<1>4. ASSUME NEW r \in Relays, RendUse(r) PROVE CountsInv'
  BY <1>4, RendUseInv DEF RendUse, CountsInv, DiskInv, WholeInv
<1>5. CASE FinishUpdate
  <2>1. snap.consensus \in Consensuses
    BY DEF LayerTypeOK
  <2>2. XferUseCounts(snap.consensus) /\ disk' = disk
    BY <1>5 DEF FinishUpdate
  <2>3. halfway' = FALSE
    BY <2>2 DEF XferUseCounts, XferEnds
  <2> QED
    BY <2>1, <2>2, <2>3, RendXferInv DEF CountsInv, DiskInv, WholeInv
<1>6. CASE OpenStateFile
  <2>1. /\ disk'.counts = disk.counts /\ disk'.total = disk.total
        /\ pc = "open" /\ pc' = "dump"
    BY <1>6 DEF OpenStateFile, LayerTypeOK
  <2>2. UNCHANGED rendVars
    BY <1>6 DEF OpenStateFile, stateVars
  <2> QED
    BY <2>1, <2>2
    DEF rendVars, CountsInv, RendInv, RendTypeOK, TotalIsSum, DiskInv, WholeInv
<1>7. CASE WriteToFile
  <2>1. /\ disk'.counts = use_counts /\ disk'.total = total_use_counts
        /\ pc = "dump" /\ pc' \in {"register", "idle"}
    BY <1>7 DEF WriteToFile, Pickled, AfterDump
  <2>2. UNCHANGED rendVars
    BY <1>7 DEF WriteToFile, stateVars
  <2> QED
    BY <2>1, <2>2
    DEF rendVars, CountsInv, RendInv, RendTypeOK, TotalIsSum, DiskInv, WholeInv
<1>8. CASE Failure
  <2>1. CASE ProcessEnds
    BY <1>2, <1>8, <2>1, FailuresFail DEF Failed
  <2>2. CASE ~ProcessEnds
    <3>1. disk' = disk /\ pc' = "idle"
      BY <1>8, <2>2, FailuresFail DEF Failed, HandlerEnds, HandlerExits
    <3>2. CASE UNCHANGED rendVars
      BY <1>1, <3>1, <3>2 DEF CountsInv, WholeInv
    <3>3. CASE XferFails(snap.consensus)
      <4>1. snap.consensus \in Consensuses
        BY DEF LayerTypeOK
      <4>2. RendInv'
        BY <3>3, <4>1, RendFailInv DEF CountsInv
      <4> QED
        BY <3>1, <4>2 DEF CountsInv, DiskInv, WholeInv
    <3> QED
      BY <1>8, <2>2, <3>2, <3>3, FailuresFail
  <2> QED
    BY <2>1, <2>2
<1>9. ASSUME \/ HandleNewConsensus \/ FetchConsensus \/ DescriptorsUnavailable
             \/ RemoveDownAndExpired \/ RemoveExcludedAndTrim
             \/ HandleReload \/ SetLayer2 \/ SetLayer3 \/ Register
             \/ Connect \/ Reconnect
      PROVE  CountsInv'
  <2>1. UNCHANGED <<rendVars, disk>>
    BY <1>9 DEF HandleNewConsensus, FetchConsensus, DescriptorsUnavailable,
       RemoveDownAndExpired, RemoveExcludedAndTrim, HandleReload, SetLayer2,
       SetLayer3, Register, Connect, Reconnect, stateVars
  <2>2. WholeInv'
    BY <1>9, <2>1 DEF HandleNewConsensus, FetchConsensus, DescriptorsUnavailable,
       RemoveDownAndExpired, RemoveExcludedAndTrim, HandleReload, SetLayer2,
       SetLayer3, Register, Connect, Reconnect, rendVars, CountsInv, WholeInv,
       LayersInv
  <2> QED
    BY <1>1, <2>1, <2>2 DEF CountsInv
<1>10. ASSUME NEW l \in Layers, AddNewLayer(l) \/ RejectAll(l)
       PROVE  CountsInv'
  BY <1>1, <1>10 DEF AddNewLayer, RejectAll, vars, rendVars, CountsInv, WholeInv
<1>11. CASE HandlerStep
  BY <1>5, <1>6, <1>7, <1>8, <1>9, <1>10, <1>11 DEF HandlerStep, Failure
<1>12. CASE Environment
  <2>1. CASE Crash
    BY <1>2, <2>1 DEF Crash
  <2>2. CASE ~Crash
    <3>1. UNCHANGED <<rendVars, disk, pc, job>>
      BY <1>12, <2>2
      DEF Environment, NewConsensus, Sighup, Disconnect, Tick, handlerVars
    <3> QED
      BY <1>1, <3>1 DEF rendVars, CountsInv, WholeInv
  <2> QED
    BY <2>1, <2>2
<1>13. CASE UNCHANGED vars
  BY <1>1, <1>13 DEF vars, rendVars, CountsInv, WholeInv
<1> QED
  BY <1>3, <1>4, <1>9, <1>11, <1>12, <1>13 DEF Next

\* The counts in memory and those in the file are tables with their totals, and
\* the file never gets those of a transfer that failed.
THEOREM CountsInvariant == Spec => [](LayerTypeOK /\ LayersInv /\ CountsInv)
BY TypeInit, TypeStep, LayersInit, LayersStep, CountsInit, CountsStep, PTL DEF Spec

\* Everything the process, Tor and the state file hold is of its type, counts
\* that went through the state file included.
THEOREM StateTypes == Spec => []TypeOK
<1>1. LayerTypeOK /\ CountsInv => TypeOK
  BY DEF CountsInv, RendInv, TypeOK
<1> QED
  BY <1>1, CountsInvariant, PTL

\* The total of the uses is the sum of the counts, through crashes, restarts and
\* half-written state files; after a transfer that failed it is no less, until
\* the next that gets through.
THEOREM TotalStaysSum == Spec => []TotalIsSum
<1>1. CountsInv => TotalIsSum
  BY DEF CountsInv, RendInv
<1> QED
  BY <1>1, CountsInvariant, PTL

-----------------------------------------------------------------------------
(* Memory, Tor and the state file agree whenever the process waits, and no *)
(* guard is given up without a rule.                                       *)

\* The state file is complete and holds the layers in memory, unless an update
\* failed after it had changed them.
Saved == disk.status = "ok" /\ ("SAVE" \in missed \/ disk.layer = layer)

\* A reload waits in the queue.
Reloading == "RELOAD" \in Range(queue)

\* Something has still to be set in Tor; what the handler that runs has passed by
\* when it sets the second option.
Open == Reloading \/ {"RELOAD", "SET"} \intersect missed # {}
Passed == Reloading \/ (job = "consensus" /\ "RELOAD" \in missed)

\* Handlers run while the process starts up or serves; the steps before the
\* layers are handed over are those of a consensus update, and the process has
\* to serve to handle a signal.
HandlerInv ==
    /\ pc # "idle" => proc \in {"starting", "serving"}
    /\ pc \in {"fetch", "prune", "exclude", "replenish", "xfer"} => job = "consensus"
    /\ pc \in {"set2", "set3"} /\ job = "signal" => proc = "serving"

\* A serving process has saved its layers unless an update is past the fetch;
\* the one that starts up has saved them before it registers. The file of a
\* serving process is complete but while it is written.
SavedInv ==
    /\ pc = "register" => disk.status = "ok" /\ disk.layer = layer
    /\ /\ proc = "serving" /\ link
       /\ pc \in {"idle", "fetch"} \/ (pc \in {"set2", "set3"} /\ job = "signal")
       => Saved
    /\ proc = "serving" /\ pc # "dump" => disk.status = "ok"

\* Tor has the layers but for an update between the fetch and the second option,
\* or what is still to be set.
SetInv ==
    cfg.enable /\ link =>
      /\ ~Open
         /\ \/ proc = "serving" /\ pc \in {"idle", "fetch"}
            \/ pc \in {"open", "dump", "register"}
         => TorIsSet
      /\ ~Passed /\ pc = "set3" => (cfg.num[2] # 0 => tor[2] = Ids(layer[2]))

\* What the state file has, memory has, or a rule has removed it.
KeptInv ==
    proc # "down" =>
      lost \/ \A l \in Layers : disk.layer[l] \subseteq layer[l] \union dropped[l]

AgreeInv == HandlerInv /\ SavedInv /\ SetInv /\ KeptInv

LEMMA AgreeInit == Init => AgreeInv
BY DEF Init, AgreeInv, HandlerInv, SavedInv, SetInv, KeptInv

-----------------------------------------------------------------------------
(* Lemmas about the queue and the steps.                                   *)

\* What is in the queue after an event leaves at its head or joins at its end.
LEMMA QueueRange ==
    /\ Range(<<>>) = {}
    /\ \A q \in Seq(Events) : q # <<>> => Range(q) = {Head(q)} \union Range(Tail(q))
    /\ \A q \in Seq(Events), e \in Events : Range(Append(q, e)) = Range(q) \union {e}
<1>1. Range(<<>>) = {}
  BY DEF Range
<1>2. ASSUME NEW q \in Seq(Events), q # <<>>
      PROVE  Range(q) = {Head(q)} \union Range(Tail(q))
  <2>1. /\ DOMAIN q = 1..Len(q) /\ Len(q) \in Nat \ {0}
        /\ DOMAIN Tail(q) = 1..(Len(q) - 1)
        /\ \A k \in 1..(Len(q) - 1) : Tail(q)[k] = q[k + 1]
        /\ Head(q) = q[1]
    BY <1>2
  <2>2. \A k \in 1..Len(q) : k = 1 \/ k - 1 \in 1..(Len(q) - 1)
    BY <2>1
  <2>3. \A k \in 1..(Len(q) - 1) : k + 1 \in 1..Len(q)
    BY <2>1
  <2>4. Range(q) \subseteq {Head(q)} \union Range(Tail(q))
    <3> SUFFICES ASSUME NEW k \in 1..Len(q), k # 1
                 PROVE  q[k] \in Range(Tail(q))
      BY <2>1 DEF Range
    <3>1. k - 1 \in 1..(Len(q) - 1) /\ Tail(q)[k - 1] = q[k]
      BY <2>1, <2>2
    <3> QED
      BY <2>1, <3>1 DEF Range
  <2>5. {Head(q)} \union Range(Tail(q)) \subseteq Range(q)
    BY <2>1, <2>3 DEF Range
  <2> QED
    BY <2>4, <2>5
<1>3. ASSUME NEW q \in Seq(Events), NEW e \in Events
      PROVE  Range(Append(q, e)) = Range(q) \union {e}
  <2> DEFINE n == Len(q)
  <2>1. /\ DOMAIN q = 1..n /\ DOMAIN Append(q, e) = 1..(n + 1) /\ n \in Nat
        /\ \A k \in 1..n : Append(q, e)[k] = q[k]
        /\ Append(q, e)[n + 1] = e
    OBVIOUS
  <2> HIDE DEF n
  <2>2. 1..(n + 1) = 1..n \union {n + 1}
    BY <2>1
  <2> QED
    BY <2>1, <2>2 DEF Range
<1> QED
  BY <1>1, <1>2, <1>3

\* How the event thread takes an event from the queue: nothing of it is lost.
LEMMA TakeEvent ==
    ASSUME queue \in Seq(Events), queue # <<>>, queue' = Tail(queue),
           Head(queue) # "RELOAD"
    PROVE  Reloading' <=> Reloading
BY QueueRange DEF Reloading

\* An event that Tor posts leaves the queue and what was missed as they were,
\* or adds itself to one of them.
LEMMA PostEvent ==
    ASSUME LayerTypeOK, NEW e \in Events, NEW matters, Post(e, matters)
    PROVE  /\ Reloading => Reloading'
           /\ missed \subseteq missed' /\ missed' \subseteq missed \union {e}
           /\ e = "RELOAD" /\ Listened => Reloading'
           /\ e = "RELOAD" /\ proc = "starting" /\ link /\ matters => "RELOAD" \in missed'
<1>1. queue \in Seq(Events)
  BY DEF LayerTypeOK
<1>2. Range(queue') = IF Listened THEN Range(queue) \union {e} ELSE Range(queue)
  BY <1>1, QueueRange DEF Post
<1> QED
  BY <1>2 DEF Post, Reloading

\* A handler that fails leaves nobody in a handler; when the process serves on,
\* what the handler had begun is marked as not done.
LEMMA FailureEffect ==
    ASSUME LayerTypeOK, AgreeInv, Failure
    PROVE  /\ UNCHANGED <<tor, disk>> /\ pc' = "idle"
           /\ \/ proc' = "down" /\ ~link'
              \/ proc' = "deaf" /\ UNCHANGED <<cfg, layer, dropped, lost>>
              \/ /\ proc = "serving" /\ proc' = "serving"
                 /\ UNCHANGED <<link, cfg, layer, dropped, lost, queue>>
                 /\ missed \subseteq missed' /\ pc # "dump"
                 /\ \/ pc \in {"fetch", "register"}
                    \/ {"SET", "SAVE"} \subseteq missed'
                    \/ pc \in {"set2", "set3"} /\ job = "signal" /\ "RELOAD" \in missed'
<1> DEFINE Done(u) ==
      /\ proc = "serving" /\ proc' = "serving" /\ pc' = "idle"
      /\ UNCHANGED <<link, cfg, layer, dropped, lost, queue>>
      /\ missed' = missed \union u
<1>1. UNCHANGED <<tor, disk>> /\ pc' = "idle"
  BY FailuresFail DEF Failed, ProcessEnds, HandlerEnds, HandlerExits
<1>2. ProcessEnds => proc' = "down" /\ ~link'
  BY DEF ProcessEnds
<1>3. HandlerExits =>
        ProcessEnds \/ (proc' = "deaf" /\ UNCHANGED <<cfg, layer, dropped, lost>>)
  BY DEF HandlerExits, historyVars, stateVars
<1>4. ASSUME NEW u, HandlerRaises(u) \/ HandlerEnds(u) PROVE ProcessEnds \/ Done(u)
  BY <1>4 DEF HandlerRaises, HandlerEnds, procVars
<1>5. CASE NoDataDirectory \/ SetRejected \/ OpenFails \/ WriteFails
  BY <1>1, <1>2, <1>3, <1>5 DEF NoDataDirectory, SetRejected, OpenFails, WriteFails
<1>6. CASE FetchFails
  <2>1. pc = "fetch" /\ (ProcessEnds \/ Done({"NEWCONSENSUS"}))
    BY <1>4, <1>6 DEF FetchFails
  <2> QED
    BY <1>1, <1>2, <2>1
<1>7. CASE RegisterFails
  <2>1. pc = "register" /\ (ProcessEnds \/ Done({}))
    BY <1>4, <1>7 DEF RegisterFails
  <2> QED
    BY <1>1, <1>2, <2>1
<1>8. CASE LookupFails \/ UpdateFails
  <2>1. pc # "dump" /\ (ProcessEnds \/ Done(Undone))
    BY <1>4, <1>8 DEF LookupFails, UpdateFails, LayersDone
  <2> QED
    BY <1>1, <1>2, <2>1 DEF Undone
<1>9. CASE SetFails
  <2>1. /\ pc \in {"set2", "set3"} /\ (job = "consensus" \/ job = "signal")
        /\ ProcessEnds \/ Done(IF job = "consensus" THEN Undone ELSE {"RELOAD"})
    BY <1>4, <1>9 DEF SetFails, LayerTypeOK
  <2>2. CASE job = "consensus"
    BY <1>1, <1>2, <2>1, <2>2 DEF Undone
  <2>3. CASE job = "signal"
    BY <1>1, <1>2, <2>1, <2>3
  <2> QED
    BY <2>1, <2>2, <2>3
<1> QED
  BY <1>5, <1>6, <1>7, <1>8, <1>9 DEF Failure

\* A handler that fails with the connection alive and the process serving was
\* about to fetch, or leaves marked what it did not do.
LEMMA FailureStep ==
    ASSUME LayerTypeOK, AgreeInv, Failure
    PROVE  AgreeInv'
<1>1. HandlerInv'
  BY FailureEffect DEF HandlerInv
<1>2. disk' = disk /\ tor' = tor /\ pc # "idle"
  BY FailureEffect, FailuresFail DEF Failed
<1>3. pc' = "idle" /\ (proc' = "serving" => proc = "serving" /\ layer' = layer /\ cfg' = cfg
                       /\ link' = link /\ missed \subseteq missed' /\ (Reloading' <=> Reloading))
  BY FailureEffect DEF Reloading
<1>4. SavedInv'
  <2> SUFFICES ASSUME proc' = "serving"
               PROVE  disk'.status = "ok" /\ (link' => Saved')
    BY <1>3 DEF SavedInv
  <2>1. disk.status = "ok"
    BY FailureEffect DEF AgreeInv, SavedInv
  <2>2. CASE "SAVE" \in missed'
    BY <1>2, <2>1, <2>2 DEF Saved
  <2>3. CASE "SAVE" \notin missed' /\ link'
    <3>1. \/ pc \in {"fetch", "register"}
          \/ pc \in {"set2", "set3"} /\ job = "signal"
      BY <2>3, FailureEffect
    <3>2. Saved
      BY <1>3, <2>3, <3>1 DEF AgreeInv, SavedInv, Saved
    <3> QED
      BY <1>2, <1>3, <2>1, <2>3, <3>2 DEF Saved
  <2> QED
    BY <1>2, <2>1, <2>2, <2>3
<1>5. SetInv'
  <2> SUFFICES ASSUME proc' = "serving", link', cfg'.enable, ~Open' PROVE TorIsSet'
    BY <1>3 DEF SetInv
  <2>1. pc \in {"fetch", "register"} /\ ~Open
    BY <1>3, FailureEffect DEF Open
  <2>2. TorIsSet
    BY <1>3, <2>1 DEF AgreeInv, SetInv
  <2> QED
    BY <1>2, <1>3, <2>2 DEF TorIsSet
<1>6. KeptInv'
  BY <1>2, FailureEffect DEF AgreeInv, HandlerInv, KeptInv
<1> QED
  BY <1>1, <1>4, <1>5, <1>6 DEF AgreeInv

-----------------------------------------------------------------------------
(* The steps of the process.                                               *)

LEMMA LifeStep ==
    ASSUME LayerTypeOK, LayersInv, AgreeInv,
           \/ \E c \in Configs : Start(c)
           \/ Connect \/ Reconnect \/ Register
           \/ \E r \in Relays : RendUse(r)
           \/ UNCHANGED vars
    PROVE  AgreeInv'
<1> USE DEF AgreeInv, HandlerInv, SavedInv, SetInv, KeptInv, LayersInv
<1>1. ASSUME NEW c \in Configs, Start(c) PROVE AgreeInv'
  <2>1. lost' \/ disk'.layer = layer'
    BY <1>1 DEF Start, LoadedLayers, Restored
  <2> QED
    BY <1>1, <2>1 DEF Start
<1>2. CASE Connect
  BY <1>2 DEF Connect, stateVars
<1>3. CASE Reconnect
  BY <1>3 DEF Reconnect, stateVars, historyVars
<1>4. CASE Register
  BY <1>4 DEF Register, stateVars, historyVars, Saved, TorIsSet, Open, Passed, Reloading
<1>5. ASSUME NEW r \in Relays, RendUse(r) PROVE AgreeInv'
  BY <1>5 DEF RendUse, procVars, historyVars, Saved, TorIsSet, Open, Passed, Reloading
<1>6. CASE UNCHANGED vars
  BY <1>6 DEF vars, procVars, historyVars, Saved, TorIsSet, Open, Passed, Reloading
<1> QED
  BY <1>1, <1>2, <1>3, <1>4, <1>5, <1>6

LEMMA FetchStep ==
    ASSUME LayerTypeOK, LayersInv, AgreeInv,
           HandleNewConsensus \/ HandleReload \/ FetchConsensus
           \/ DescriptorsUnavailable
    PROVE  AgreeInv'
<1> USE DEF AgreeInv, HandlerInv, SavedInv, SetInv, KeptInv
<1>1. CASE HandleNewConsensus
  <2>1. Reloading' <=> Reloading
    BY <1>1, TakeEvent DEF HandleNewConsensus, LayerTypeOK
  <2> QED
    BY <1>1, <2>1 DEF HandleNewConsensus, historyVars, stateVars, Saved, TorIsSet, Open
<1>2. CASE HandleReload
  BY <1>2 DEF HandleReload, historyVars, stateVars, Saved
<1>3. CASE FetchConsensus
  BY <1>3 DEF FetchConsensus, procVars, stateVars
<1>4. CASE DescriptorsUnavailable
  <2>1. CASE proc = "starting"
    BY <1>4, <2>1 DEF DescriptorsUnavailable, stateVars
  <2>2. CASE proc = "serving"
    <3>1. /\ UNCHANGED <<layer, cfg, tor, disk, link, queue, proc, dropped, lost>>
          /\ missed' = missed \union {"NEWCONSENSUS"} /\ pc = "fetch" /\ pc' = "idle"
      BY <1>4, <2>2 DEF DescriptorsUnavailable, stateVars
    <3>2. (Open' => Open) /\ (Open => Open')
      BY <3>1 DEF Open, Reloading
    <3>3. Saved => Saved'
      BY <3>1 DEF Saved
    <3> QED
      BY <2>2, <3>1, <3>2, <3>3 DEF TorIsSet
  <2> QED
    BY <1>4, <2>1, <2>2 DEF DescriptorsUnavailable
<1> QED
  BY <1>1, <1>2, <1>3, <1>4

\* Only the two removals and the draws change the layers, and what is removed
\* is noted.
LEMMA UpdateStep ==
    ASSUME LayerTypeOK, LayersInv, AgreeInv,
           \/ RemoveDownAndExpired \/ RemoveExcludedAndTrim
           \/ \E l \in Layers : AddNewLayer(l)
           \/ FinishUpdate
    PROVE  AgreeInv'
<1> USE DEF AgreeInv, HandlerInv, SavedInv, SetInv, KeptInv
<1>1. ASSUME NEW gone, RemoveGuards(gone), disk' = disk, lost' = lost,
             pc # "idle", proc' = proc
      PROVE  KeptInv'
  BY <1>1 DEF RemoveGuards, LayerTypeOK
<1>2. CASE RemoveDownAndExpired
  <2>1. KeptInv'
    BY <1>1, <1>2 DEF RemoveDownAndExpired, procVars
  <2> QED
    BY <1>2, <2>1 DEF RemoveDownAndExpired, procVars
<1>3. CASE RemoveExcludedAndTrim
  <2>1. KeptInv'
    BY <1>1, <1>3 DEF RemoveExcludedAndTrim, procVars
  <2> QED
    BY <1>3, <2>1 DEF RemoveExcludedAndTrim, procVars
<1>4. ASSUME NEW l \in Layers, AddNewLayer(l) PROVE AgreeInv'
  <2>1. PICK new : layer' = [layer EXCEPT ![l] = @ \union {new}]
    BY <1>4 DEF AddNewLayer
  <2>2. \A k \in Layers : layer[k] \subseteq layer'[k]
    BY <2>1 DEF LayerTypeOK
  <2>3. KeptInv'
    BY <1>4, <2>2 DEF AddNewLayer, procVars, historyVars
  <2> QED
    BY <1>4, <2>3 DEF AddNewLayer, procVars, historyVars
<1>5. CASE FinishUpdate
  <2>1. cfg.enable' = cfg.enable /\ cfg' = cfg
    BY <1>5 DEF FinishUpdate, procVars
  <2> QED
    BY <1>5, <2>1 DEF FinishUpdate, LayersDone, procVars, historyVars
<1> QED
  BY <1>2, <1>3, <1>4, <1>5

\* configure_tor sets the options one after the other.
LEMMA SetsTor ==
    ASSUME LayerTypeOK
    PROVE  /\ SetLayer2 => tor'[2] = Ids(layer'[2]) /\ layer' = layer
           /\ SetLayer3 /\ (cfg.num[2] # 0 => tor[2] = Ids(layer[2])) => TorIsSet'
<1>1. tor \in [Layers -> SUBSET Relays]
  BY DEF LayerTypeOK
<1>2. SetLayer2 => tor'[2] = Ids(layer'[2]) /\ layer' = layer
  BY <1>1 DEF SetLayer2, Guardset, stateVars
<1>3. ASSUME SetLayer3, cfg.num[2] # 0 => tor[2] = Ids(layer[2])
      PROVE  TorIsSet'
  <2>1. layer' = layer /\ cfg' = cfg
    BY <1>3 DEF SetLayer3, procVars, stateVars
  <2>2. tor' = IF cfg.num[3] = 0 THEN tor ELSE [tor EXCEPT ![3] = Ids(layer[3])]
    BY <1>3 DEF SetLayer3, Guardset
  <2>3. tor'[2] = tor[2] /\ (cfg.num[3] # 0 => tor'[3] = Ids(layer[3]))
    BY <1>1, <2>2
  <2> QED
    BY <1>3, <2>1, <2>3 DEF TorIsSet
<1> QED
  BY <1>2, <1>3

LEMMA OutputStep ==
    ASSUME LayerTypeOK, LayersInv, AgreeInv,
           SetLayer2 \/ SetLayer3 \/ OpenStateFile \/ WriteToFile
    PROVE  AgreeInv'
<1> USE DEF AgreeInv, HandlerInv, SavedInv, SetInv, KeptInv
<1>1. CASE SetLayer2
  BY <1>1, SetsTor DEF SetLayer2, procVars, historyVars, stateVars, Saved
<1>2. CASE SetLayer3
  <2>1. UNCHANGED <<layer, disk, proc, link, cfg, job, queue, dropped, lost>>
    BY <1>2 DEF SetLayer3, procVars, stateVars
  <2>2. cfg.enable /\ link /\ ~Passed => TorIsSet'
    BY <1>2, SetsTor DEF SetLayer3
  <2>3. /\ pc = "set3"
        /\ \/ job = "consensus" /\ pc' = "open" /\ missed' = missed
           \/ job = "signal" /\ pc' = "idle" /\ missed' = missed \ {"RELOAD", "SET"}
    BY <1>2 DEF SetLayer3
  <2>4. ~Open' => ~Passed
    BY <2>1, <2>3 DEF Open, Passed, Reloading
  <2>5. SavedInv'
    BY <2>1, <2>3 DEF Saved
  <2> QED
    BY <2>1, <2>2, <2>3, <2>4, <2>5
<1>3. CASE OpenStateFile
  <2>1. disk'.layer = disk.layer
    BY <1>3 DEF OpenStateFile, LayerTypeOK
  <2> QED
    BY <1>3, <2>1 DEF OpenStateFile, procVars, historyVars, stateVars, TorIsSet, Open, Reloading, Ids
<1>4. CASE WriteToFile
  <2>1. disk'.status = "ok" /\ disk'.layer = layer'
    BY <1>4 DEF WriteToFile, Pickled, stateVars
  <2>2. UNCHANGED <<layer, tor, proc, link, cfg, queue, missed>>
    BY <1>4 DEF WriteToFile, procVars, stateVars
  <2>3. pc' = (IF proc = "starting" THEN "register" ELSE "idle") /\ pc = "dump"
    BY <1>4 DEF WriteToFile, AfterDump
  <2>4. SavedInv' /\ KeptInv'
    BY <2>1 DEF Saved
  <2>5. (Open' <=> Open) /\ (TorIsSet => TorIsSet')
    BY <2>2 DEF Open, Reloading, TorIsSet
  <2>6. SetInv'
    BY <2>2, <2>3, <2>5
  <2>7. HandlerInv'
    BY <2>2, <2>3
  <2> QED
    BY <2>4, <2>6, <2>7
<1> QED
  BY <1>1, <1>2, <1>3, <1>4

LEMMA OutsideStep ==
    ASSUME LayerTypeOK, LayersInv, AgreeInv, Environment
    PROVE  AgreeInv'
<1> USE DEF AgreeInv, HandlerInv, SavedInv, SetInv, KeptInv, handlerVars
<1>1. ASSUME NEW c \in Consensuses, NewConsensus(c) PROVE AgreeInv'
  <2>1. (Reloading => Reloading') /\ missed \subseteq missed'
    BY <1>1, PostEvent DEF NewConsensus, Events
  <2>2. (Open => Open') /\ (Passed => Passed') /\ (Saved => Saved')
    BY <1>1, <2>1 DEF NewConsensus, handlerVars, Open, Passed, Saved
  <2> QED
    BY <1>1, <2>2 DEF NewConsensus, TorIsSet, Ids
<1>2. ASSUME NEW e \in Excludes, Sighup(e) PROVE AgreeInv'
  <2>1. /\ Listened => Reloading'
        /\ proc = "starting" /\ link /\ pc \in {"set3", "open", "dump", "register"}
           => "RELOAD" \in missed'
        /\ missed \subseteq missed'
    BY <1>2, PostEvent DEF Sighup, Events
  <2>2. UNCHANGED <<proc, link, cfg, pc, job, layer, disk, dropped, lost>>
    BY <1>2 DEF Sighup
  <2>3. Saved => Saved'
    BY <2>1, <2>2 DEF Saved
  <2>4. link /\ (proc = "serving" \/ pc \in {"open", "dump", "register"}) => Open'
    BY <2>1 DEF Open, Listened
  <2>5. link /\ pc = "set3" => Passed'
    BY <2>1, <2>2 DEF Passed, Listened, LayerTypeOK
  <2>6. SetInv'
    BY <2>2, <2>4, <2>5
  <2> QED
    BY <2>2, <2>3, <2>6
<1>3. CASE Disconnect
  BY <1>3 DEF Disconnect, Saved
<1>4. CASE Crash
  BY <1>4 DEF Crash, ProcessEnds
<1>5. CASE Tick
  BY <1>5 DEF Tick, procVars, Saved, TorIsSet, Open, Passed, Reloading, Ids
<1> QED
  BY <1>1, <1>2, <1>3, <1>4, <1>5 DEF Environment

LEMMA AgreeStep == LayerTypeOK /\ LayersInv /\ AgreeInv /\ [Next]_vars => AgreeInv'
<1> SUFFICES ASSUME LayerTypeOK, LayersInv, AgreeInv, [Next]_vars PROVE AgreeInv'
  OBVIOUS
<1>1. CASE Failure
  BY <1>1, FailureStep
<1>2. CASE HandlerStep
  <2>1. (\E l \in Layers : RejectAll(l)) => UNCHANGED vars
    BY DEF RejectAll
  <2> QED
    BY <1>1, <1>2, <2>1, LifeStep, FetchStep, UpdateStep, OutputStep
    DEF HandlerStep, Failure
<1> QED
  BY <1>2, LifeStep, OutsideStep DEF Next

\* The process, Tor and the state file are related as AgreeInv says.
THEOREM AgreeInvariant == Spec => [](LayerTypeOK /\ LayersInv /\ AgreeInv)
BY TypeInit, TypeStep, LayersInit, LayersStep, AgreeInit, AgreeStep, PTL DEF Spec

-----------------------------------------------------------------------------
(* What it is for.                                                         *)

\* Whenever the process waits, the state file is complete, and it is up to date
\* unless an update failed between its first change of the layers and its save,
\* and none has got through since. (No stem error but InvalidArguments is caught,
\* nor is a division by zero: vanguards.py:238-254, rendguard.py:102-105.)
THEOREM WaitsSaved == Spec => []DiskMatches
<1>1. AgreeInv => DiskMatches
  BY DEF AgreeInv, SavedInv, Saved, DiskMatches, Idle
<1> QED
  BY <1>1, AgreeInvariant, PTL

\* Whenever the process waits, Tor uses its layers, but for a reload that is
\* still to come or that nobody was told of, and for what an update or reload
\* that failed with the connection alive did not set, until one gets through.
THEOREM WaitsSet == Spec => []TorMatches
<1>1. AgreeInv => TorMatches
  BY DEF AgreeInv, SetInv, Open, Reloading, Unset, TorMatches, Idle
<1> QED
  BY <1>1, AgreeInvariant, PTL

\* Crashes, failed updates and reconnects cost no guard.
THEOREM NoGuardLost == Spec => GuardsKept
<1>1. ASSUME AgreeInv, WriteToFile, NEW l \in Layers
      PROVE  disk.layer[l] \ disk'.layer[l] \subseteq dropped[l] \/ lost
  <2>1. disk'.layer = layer /\ pc = "dump"
    BY <1>1 DEF WriteToFile, Pickled
  <2> QED
    BY <1>1, <2>1 DEF AgreeInv, HandlerInv, KeptInv
<1>2. AgreeInv /\ [Next]_vars =>
        [WriteToFile => \A l \in Layers : disk.layer[l] \ disk'.layer[l] \subseteq dropped[l]
                                          \/ lost]_vars
  BY <1>1
<1> QED
  BY <1>2, AgreeInvariant, PTL DEF Spec, GuardsKept

-----------------------------------------------------------------------------
(* The process is a store of pinned guards, step by step.                  *)

Pinned == IF proc = "down" THEN Durable ELSE layer

\* The instance counts as this module does.
LEMMA StoreCounts == \A S : Store!Cardinality(S) = Cardinality(S)
BY DEF Store!Cardinality, Cardinality

LEMMA StoreInit == Init => Store!StoreInit
BY DEF Init, Store!StoreInit, Store!Nothing, Durable, NoGuards

\* The two removals give guards up: those a rule names, and those beyond the
\* width of their layer.
LEMMA PruneGivesUp ==
    ASSUME LayerTypeOK, HandlerInv, RemoveDownAndExpired
    PROVE  Store!GiveUp
<1>1. /\ proc \in {"starting", "serving"} /\ proc' = proc
      /\ disk' = disk /\ pc = "prune"
  BY DEF HandlerInv, RemoveDownAndExpired, procVars
<1>2. Pinned = layer /\ Pinned' = layer' /\ Durable' = Durable
  BY <1>1 DEF Pinned, Durable
<1>3. \A l \in Layers : layer'[l] = layer[l] \ {g \in layer[l] : Down(g) \/ Expired(g)}
  BY DEF RemoveDownAndExpired, RemoveGuards
<1>4. ASSUME NEW l \in Layers, NEW g \in layer[l], g \notin layer'[l]
      PROVE  Store!Named(g)
  <2>1. g.idhex \in Relays
    BY DEF LayerTypeOK, GuardNode
  <2>2. Down(g) \/ Expired(g)
    BY <1>3, <1>4
  <2> QED
    BY <2>1, <2>2 DEF Down, Expired, Store!Named
<1>5. layer' = [l \in Layers |-> layer[l] \ (layer[l] \ layer'[l])]
  BY DEF RemoveDownAndExpired, RemoveGuards
<1>6. \A l \in Layers : {g \in layer[l] \ layer'[l] : ~Store!Named(g)} = {}
  BY <1>4
<1> QED
  BY <1>2, <1>5, <1>6 DEF Store!GiveUp, Pinned

\* What the trim keeps of a layer that is too large are as many guards as
\* configured, none of them younger than one it removes.
LEMMA TrimmedKeeps ==
    ASSUME NEW S, NEW n, NEW K \in Trimmed(S, n), K # S
    PROVE  /\ Cardinality(K) = n
           /\ \A g \in K, h \in S \ K : g.chosen_at <= h.chosen_at
BY DEF Trimmed

LEMMA TrimGivesUp ==
    ASSUME LayerTypeOK, HandlerInv, RemoveExcludedAndTrim
    PROVE  Store!GiveUp
<1> DEFINE included(l) == {g \in layer[l] : ~Excluded(g)}
<1>1. /\ proc \in {"starting", "serving"} /\ proc' = proc
      /\ disk' = disk /\ pc = "exclude"
  BY DEF HandlerInv, RemoveExcludedAndTrim, procVars
<1>2. Pinned = layer /\ Pinned' = layer' /\ Durable' = Durable
  BY <1>1 DEF Pinned, Durable
<1>3. PICK two \in Trimmed(included(2), cfg.num[2]),
           three \in Trimmed(included(3), cfg.num[3]) :
        RemoveGuards([l \in Layers |->
                        layer[l] \ (IF l = 2 THEN two ELSE three)])
  BY DEF RemoveExcludedAndTrim
<1>4. two \subseteq included(2) /\ three \subseteq included(3)
  BY TrimmedSubset
<1>5. layer'[2] = two /\ layer'[3] = three
  BY <1>3, <1>4 DEF RemoveGuards
<1>6. \A l \in Layers : layer'[l] \in Trimmed(included(l), cfg.num[l])
  BY <1>5
<1>7. \A l \in Layers : layer'[l] \subseteq included(l)
  BY <1>4, <1>5
<1>8. \A g : Excluded(g) => Store!Named(g)
  BY DEF Excluded, Store!Named
<1> DEFINE spared(l) == {g \in layer[l] \ layer'[l] : ~Store!Named(g)}
<1>9. ASSUME NEW l \in Layers
      PROVE  /\ layer'[l] \subseteq layer[l]
             /\ spared(l) \subseteq included(l) \ layer'[l]
  BY <1>7, <1>8
<1>10. ASSUME NEW l \in Layers
       PROVE  /\ spared(l) # {} => Cardinality(layer'[l]) = cfg.num[l]
              /\ \A g \in layer'[l], h \in spared(l) : g.chosen_at <= h.chosen_at
  <2>1. spared(l) # {} => layer'[l] # included(l)
    BY <1>9
  <2> HIDE DEF spared, included
  <2>2. CASE layer'[l] # included(l)
    BY <1>6, <1>9, <2>2, TrimmedKeeps
  <2>3. CASE spared(l) = {}
    BY <2>3
  <2> QED
    BY <2>1, <2>2, <2>3
<1>11. layer' = [l \in Layers |-> layer[l] \ (layer[l] \ layer'[l])]
  BY <1>3, <1>9 DEF RemoveGuards
<1> QED
  BY <1>2, <1>10, <1>11, StoreCounts DEF Store!GiveUp, Pinned

\* A draw of replenish_layers takes a guard.
LEMMA AddTakes ==
    ASSUME LayerTypeOK, HandlerInv, NEW l \in Layers, AddNewLayer(l)
    PROVE  Store!Take(l)
<1>1. /\ proc \in {"starting", "serving"} /\ proc' = proc
      /\ disk' = disk /\ pc = "replenish" /\ Short(l)
  BY DEF HandlerInv, AddNewLayer, procVars
<1>2. Pinned = layer /\ Pinned' = layer' /\ Durable' = Durable
  BY <1>1 DEF Pinned, Durable
<1>3. PICK r \in Eligible(l), life \in MinLifetime[l]..MaxLifetime[l] :
        layer' = [layer EXCEPT ![l] = @ \union
                    {[idhex |-> r, chosen_at |-> now, expires_at |-> now + life]}]
  BY DEF AddNewLayer
<1> DEFINE new == [idhex |-> r, chosen_at |-> now, expires_at |-> now + life]
<1>4. now + life >= now
  <2>1. MinLifetime[l] \in Nat /\ MaxLifetime[l] \in Nat /\ now \in Nat
    BY LifetimeAssumption DEF LayerTypeOK
  <2> QED
    BY <2>1
<1>5. r \in snap.consensus.listed \ snap.exclude /\ r \notin Ids(layer[l])
  BY ConsensusesAssumption DEF Eligible, LayerTypeOK
<1>6. new.idhex = r /\ new.chosen_at = now /\ new.expires_at = now + life
  OBVIOUS
<1> HIDE DEF new
<1>7. layer' = [layer EXCEPT ![l] = @ \union {new}] /\ new \in layer'[l]
  BY <1>3 DEF LayerTypeOK, new
<1>8. ~Store!Named(new)
  <2>1. ~(new.expires_at < now)
    <3>1. now \in Nat /\ now + life \in Int
      BY LifetimeAssumption DEF LayerTypeOK
    <3> QED
      BY <1>4, <1>6, <3>1
  <2> QED
    BY <1>5, <1>6, <2>1 DEF Store!Named
<1>9. \A h \in layer[l] : new.idhex # h.idhex
  BY <1>5, <1>6 DEF Ids
<1>10. Cardinality(layer[l]) < cfg.num[l]
  BY <1>1 DEF Short
<1> QED
  BY <1>2, <1>6, <1>7, <1>8, <1>9, <1>10, StoreCounts DEF Store!Take, Pinned

\* The state file is emptied, and written.
LEMMA OpenTears ==
    ASSUME LayerTypeOK, HandlerInv, OpenStateFile
    PROVE  Store!Tear
<1>1. proc \in {"starting", "serving"} /\ proc' = proc /\ layer' = layer
  BY DEF HandlerInv, OpenStateFile, procVars, stateVars
<1>2. Durable' = NoGuards
  BY DEF OpenStateFile, LayerTypeOK, Durable
<1> QED
  BY <1>1, <1>2 DEF Store!Tear, Store!Nothing, NoGuards

LEMMA WriteSaves ==
    ASSUME HandlerInv, WriteToFile
    PROVE  Store!Save
<1>1. proc \in {"starting", "serving"} /\ proc' = proc /\ layer' = layer
  BY DEF HandlerInv, WriteToFile, procVars, stateVars
<1>2. Durable' = layer
  BY DEF WriteToFile, Pickled, Durable
<1> QED
  BY <1>1, <1>2 DEF Store!Save

\* The process ends: in a handler on the main thread, or from outside.
LEMMA EndLoses ==
    ASSUME ProcessEnds, disk' = disk
    PROVE  Store!Lose
BY DEF ProcessEnds, Durable, Store!Lose

\* The other steps change neither the layers nor the saved ones; the start
\* finds what the file has.
LEMMA StoreStutters ==
    ASSUME disk' = disk,
           \/ layer' = layer /\ (proc = "down" <=> proc' = "down")
           \/ proc = "down" /\ proc' # "down" /\ layer' = LoadedLayers
    PROVE  UNCHANGED Store!storeVars
BY DEF Durable, LoadedLayers, Restored, Store!storeVars

LEMMA StoreStep ==
    LayerTypeOK /\ HandlerInv /\ [Next]_vars => [Store!StoreNext]_Store!storeVars
<1> SUFFICES ASSUME LayerTypeOK, HandlerInv, [Next]_vars
             PROVE  Store!StoreNext \/ UNCHANGED Store!storeVars
  OBVIOUS
<1>1. CASE Failure
  <2>1. disk' = disk /\ pc # "idle"
    BY <1>1, FailuresFail DEF Failed
  <2>2. ProcessEnds \/ (layer' = layer /\ proc = "serving" /\ proc' \in {"serving", "deaf"})
    BY <1>1, FailuresFail DEF Failed, HandlerEnds, HandlerExits, procVars, stateVars
  <2> QED
    BY <2>1, <2>2, EndLoses, StoreStutters DEF Store!StoreNext
<1>2. ASSUME NEW c \in Configs, Start(c) PROVE UNCHANGED Store!storeVars
  BY <1>2, StoreStutters DEF Start
<1>3. ASSUME \/ Connect \/ Reconnect \/ Register
             \/ HandleNewConsensus \/ HandleReload
             \/ FetchConsensus \/ DescriptorsUnavailable \/ FinishUpdate
             \/ SetLayer2 \/ SetLayer3
             \/ \E r \in Relays : RendUse(r)
      PROVE  UNCHANGED Store!storeVars
  <2>1. layer' = layer /\ disk' = disk
    BY <1>3 DEF Connect, Reconnect, Register, HandleNewConsensus, HandleReload,
       FetchConsensus, DescriptorsUnavailable, FinishUpdate, SetLayer2, SetLayer3,
       RendUse, stateVars
  <2>2. proc = "down" <=> proc' = "down"
    BY <1>3 DEF Connect, Reconnect, Register, HandleNewConsensus, HandleReload,
       FetchConsensus, DescriptorsUnavailable, FinishUpdate, SetLayer2, SetLayer3,
       RendUse, procVars, HandlerInv
  <2> QED
    BY <2>1, <2>2, StoreStutters
<1>4. CASE Environment
  <2>1. CASE Crash
    BY <2>1, EndLoses DEF Crash, Store!StoreNext
  <2>2. CASE ~Crash
    <3>1. layer' = layer /\ disk' = disk /\ proc' = proc
      BY <1>4, <2>2
      DEF Environment, NewConsensus, Sighup, Disconnect, Tick, handlerVars, procVars
    <3> QED
      BY <3>1, StoreStutters
  <2> QED
    BY <2>1, <2>2
<1>5. CASE UNCHANGED vars \/ \E l \in Layers : RejectAll(l)
  <2>1. layer' = layer /\ disk' = disk /\ proc' = proc
    BY <1>5 DEF RejectAll, vars, procVars
  <2> QED
    BY <2>1, StoreStutters
<1>6. ASSUME NEW l \in Layers, AddNewLayer(l) PROVE Store!StoreNext
  BY <1>6, AddTakes DEF Store!StoreNext
<1>7. RemoveDownAndExpired \/ RemoveExcludedAndTrim => Store!StoreNext
  BY PruneGivesUp, TrimGivesUp DEF Store!StoreNext
<1>8. OpenStateFile \/ WriteToFile => Store!StoreNext
  BY OpenTears, WriteSaves DEF Store!StoreNext
<1>9. CASE HandlerStep
  BY <1>1, <1>3, <1>5, <1>6, <1>7, <1>8, <1>9 DEF HandlerStep, Failure
<1> QED
  BY <1>2, <1>3, <1>4, <1>5, <1>9 DEF Next

\* A guard that is taken is of another relay; the other steps take none.
LEMMA StoreDistinct ==
    ASSUME Store!NoTwins, [Store!StoreNext]_Store!storeVars
    PROVE  Store!NoTwins'
<1> DEFINE P == IF proc = "down" THEN Durable ELSE layer
<1> USE DEF Store!NoTwins, Store!Distinct
<1>1. CASE Store!GiveUp
  BY <1>1 DEF Store!GiveUp
<1>2. ASSUME NEW l \in Layers, Store!Take(l) PROVE Store!NoTwins'
  <2>1. PICK g : /\ P' = [P EXCEPT ![l] = @ \union {g}]
                 /\ \A h \in P[l] : g.idhex # h.idhex
                 /\ UNCHANGED Durable
    BY <1>2 DEF Store!Take
  <2>2. DOMAIN P = Layers
    OBVIOUS
  <2> HIDE DEF P
  <2>3. DOMAIN P' = Layers /\ P'[l] = P[l] \union {g} /\ \A k \in Layers \ {l} : P'[k] = P[k]
    BY <2>1, <2>2
  <2>4. \A k \in Layers : \A x, y \in P'[k] : x.idhex = y.idhex => x = y
    BY <2>1, <2>3 DEF P
  <2> QED
    BY <2>1, <2>3, <2>4 DEF P
<1>3. CASE Store!Tear
  BY <1>3 DEF Store!Tear, Store!Nothing
<1>4. CASE Store!Save \/ Store!Lose \/ UNCHANGED Store!storeVars
  BY <1>4 DEF Store!Save, Store!Lose, Store!storeVars
<1> QED
  BY <1>1, <1>2, <1>3, <1>4 DEF Store!StoreNext

\* Whatever implements the store of pinned guards never has a relay twice in a
\* layer, in memory or in its file (vanguards.py:271-298).
THEOREM StoreHasNoTwins == Store!StoreSpec => []Store!NoTwins
<1>1. Store!StoreInit => Store!NoTwins
  BY DEF Store!StoreInit, Store!NoTwins, Store!Distinct, Store!Nothing
<1> QED
  BY <1>1, StoreDistinct, PTL DEF Store!StoreSpec

\* Whatever happens to the process, the disk, Tor and its consensus, the guards
\* change only as a store of pinned guards may change them.
THEOREM GuardsStayPinned == Spec => GuardsPinned
<1>1. AgreeInv => HandlerInv
  BY DEF AgreeInv
<1> QED
  BY <1>1, AgreeInvariant, StoreInit, StoreStep, PTL
  DEF Spec, GuardsPinned, Store!StoreSpec
=============================================================================
