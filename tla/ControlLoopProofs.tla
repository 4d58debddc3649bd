-------------------------- MODULE ControlLoopProofs --------------------------
(***************************************************************************)
(* Proofs about ControlLoop, with Options and LogGuard, for any options,   *)
(* files, command lines, circuits, limits and sizes of the layer, and any  *)
(* number of lost connections: what updates of the layers by several       *)
(* threads do to each other, the types, the precedence of the options,     *)
(* requests that are not lost for want of an attribute, the lines of the   *)
(* log guard, and the exit status.                                         *)
(***************************************************************************)
EXTENDS ControlLoop, FiniteSetTheorems, TLAPS

Stages == {"no", "trim", "check", "add", "write"}

\* The threads in an update, and those that found the layer short and will add a
\* guard to it.
Active == {t \in Threads : Updating(t)}
Adders == {t \in Threads : updating[t] = "add"}

UpdateTypes ==
    /\ updating \in [Threads -> Stages]
    /\ width \in Nat /\ overlap \in Nat
    /\ drops \in 0..MaxDrops

\* There is room for the guards that will be added, but for one for every update
\* that overlaps another.
WidthInv ==
    /\ Cardinality(Active) <= overlap + 1
    /\ width + Cardinality(Adders) <= LayerSize + overlap

\* What a thread that is alone knows of the layer.
AloneInv ==
    \A t \in alone :
       /\ t \in Threads /\ Updating(t)
       /\ \A u \in Threads \ {t} : ~Updating(u)
       /\ updating[t] = "check" => width <= LayerSize
       /\ updating[t] = "add" => width < LayerSize
       /\ updating[t] = "write" => width = LayerSize

LoopInv == UpdateTypes /\ WidthInv /\ AloneInv

LEMMA Sizes == LayerSize \in Nat \ {0} /\ MaxDrops \in Nat
BY LoopAssumption

LEMMA ThreadsFinite ==
    /\ IsFiniteSet(Threads)
    /\ \A S \in SUBSET Threads : IsFiniteSet(S) /\ Cardinality(S) \in Nat
<1>1. IsFiniteSet(Threads)
  <2>1. 0 \in Int /\ MaxDrops + 1 \in Int
    BY Sizes
  <2> QED
    BY <2>1, FS_Interval DEF Threads
<1> QED
  BY <1>1, FS_Subset, FS_CardinalityType

LEMMA CountThreads ==
    /\ Cardinality(Active) \in Nat /\ Cardinality(Adders) \in Nat
    /\ Cardinality(Adders) <= Cardinality(Active)
    /\ \A t : Cardinality(Others(t)) \in Nat
<1>1. /\ Active \in SUBSET Threads /\ Adders \in SUBSET Threads
      /\ \A t : Others(t) \in SUBSET Threads
  BY DEF Active, Adders, Others
<1>2. Adders \subseteq Active
  BY DEF Active, Adders, Updating
<1> QED
  BY <1>1, <1>2, ThreadsFinite, FS_Subset

LEMMA LoopInit == Init => LoopInv
<1> SUFFICES ASSUME Init PROVE LoopInv
  OBVIOUS
<1>1. Active = {} /\ Adders = {} /\ alone = {}
  BY DEF Init, Active, Adders, Updating
<1>2. Cardinality({}) = 0
  BY FS_EmptySet
<1>3. UpdateTypes /\ width <= LayerSize /\ overlap = 0
  BY Sizes DEF Init, UpdateTypes, Stages
<1>4. WidthInv
  BY <1>1, <1>2, <1>3, Sizes DEF WidthInv, UpdateTypes
<1> QED
  BY <1>1, <1>3, <1>4 DEF LoopInv, AloneInv

-----------------------------------------------------------------------------
\* Steps that leave the layer and the updates alone.
Stays == UNCHANGED updateVars /\ drops' \in 0..MaxDrops

LEMMA StaysStep == LoopInv /\ Stays => LoopInv'
<1> SUFFICES ASSUME LoopInv, Stays PROVE LoopInv'
  OBVIOUS
<1>1. UNCHANGED <<width, updating, alone, overlap>> /\ drops' \in 0..MaxDrops
  BY DEF Stays, updateVars
<1>2. \A t : Updating(t)' <=> Updating(t)
  BY <1>1 DEF Updating
<1>3. UNCHANGED <<Active, Adders>>
  BY <1>1, <1>2 DEF Active, Adders
<1>4. UpdateTypes' /\ WidthInv'
  BY <1>1, <1>3 DEF LoopInv, UpdateTypes, WidthInv
<1>5. AloneInv'
  BY <1>1, <1>2 DEF LoopInv, AloneInv
<1> QED
  BY <1>4, <1>5 DEF LoopInv

\* The steps of the main thread outside of an update; control_loop also returns
\* beside handlers that are not done.
LEMMA MainStays ==
    ASSUME LoopInv,
           \/ OptionsNext /\ UNCHANGED <<logVars, loopVars, tor, link, updateVars,
                                         historyVars, drops>>
           \/ StartLoop \/ Connect \/ ConnectFails \/ (\E saved \in BOOLEAN : OneShot(saved))
           \/ GoOn \/ Attach \/ Attached \/ SetupRaises \/ SetupExits \/ ClosedInWatch
           \/ Returned
    PROVE  Stays
<1>1. UNCHANGED <<updateVars, drops>>
  BY DEF StartLoop, Connect, ConnectFails, OneShot, GoOn, Attach, Attached, SetupRaises,
         SetupExits, ClosedInWatch, Returned
<1> QED
  BY <1>1 DEF Stays, LoopInv, UpdateTypes

\* Events other than a consensus, and Tor.
LEMMA EventStays ==
    ASSUME LoopInv,
           \/ TorLogs
           \/ \E c \in Circs : \/ \E by \in {"rendguard", "bandguards"} : CloseCircuit(c, by)
                               \/ CircEnded(c)
           \/ Environment
           \/ UNCHANGED vars
    PROVE  Stays
<1>1. UNCHANGED updateVars
  BY DEF TorLogs, CloseCircuit, CircEnded, Environment, TorStarts, Drop, vars
<1>2. UNCHANGED drops \/ (drops < MaxDrops /\ drops' = drops + 1)
  BY DEF TorLogs, CloseCircuit, CircEnded, Environment, TorStarts, Drop, vars
<1> QED
  BY <1>1, <1>2, Sizes DEF Stays, LoopInv, UpdateTypes

-----------------------------------------------------------------------------
\* Steps of updates.

\* A thread begins, beside any others.
LEMMA BeginsStep ==
    ASSUME LoopInv, NEW t \in Threads, Begins(t), UNCHANGED <<width, drops>>
    PROVE  LoopInv'
<1> DEFINE n == Cardinality(Others(t))
<1>1. /\ updating[t] = "no" /\ updating' = [updating EXCEPT ![t] = "trim"]
      /\ alone' = IF n = 0 THEN {t} ELSE {}
      /\ overlap' = IF n > overlap THEN n ELSE overlap
  BY DEF Begins, At
<1>2. updating'[t] = "trim" /\ \A u \in Threads \ {t} : updating'[u] = updating[u]
  BY <1>1 DEF LoopInv, UpdateTypes
<1>3. n \in Nat /\ overlap \in Nat /\ overlap' \in Nat /\ overlap <= overlap' /\ n <= overlap'
  BY <1>1, CountThreads DEF LoopInv, UpdateTypes
<1>4. UpdateTypes'
  BY <1>1, <1>3 DEF LoopInv, UpdateTypes, Stages
<1>5. Active' = Others(t) \union {t} /\ t \notin Others(t) /\ Adders' = Adders
  BY <1>1, <1>2 DEF Active, Others, Adders, Updating
<1>6. Cardinality(Active') = n + 1
  <2>1. IsFiniteSet(Others(t))
    BY ThreadsFinite DEF Others
  <2> QED
    BY <1>5, <2>1, FS_AddElement
<1>7. WidthInv'
  BY <1>3, <1>4, <1>5, <1>6, CountThreads, Sizes DEF LoopInv, WidthInv, UpdateTypes
<1>8. AloneInv'
  <2>1. ASSUME n = 0 PROVE Others(t) = {}
    BY <2>1, ThreadsFinite, FS_EmptySet DEF Others
  <2>2. ASSUME n = 0 PROVE \A u \in Threads \ {t} : ~Updating(u)'
    BY <1>2, <2>1, <2>2 DEF Others, Updating
  <2> QED
    BY <1>1, <1>2, <2>2 DEF AloneInv, Updating
<1> QED
  BY <1>4, <1>7, <1>8 DEF LoopInv

\* A thread that is at work goes on to another part of its update.
Goes(t, to) ==
    /\ Updating(t) /\ updating' = [updating EXCEPT ![t] = to]
    /\ UNCHANGED <<overlap, drops>>

LEMMA GoesOn ==
    ASSUME LoopInv, NEW t \in Threads, NEW to \in Stages, Goes(t, to)
    PROVE  /\ updating' \in [Threads -> Stages]
           /\ updating'[t] = to /\ \A u \in Threads \ {t} : updating'[u] = updating[u]
           /\ \A u \in Threads : Updating(u)' => Updating(u)
           /\ Cardinality(Active') \in Nat /\ Cardinality(Active') <= Cardinality(Active)
           /\ Cardinality(Adders') \in Nat /\ Cardinality(Adders') <= Cardinality(Active)
<1>1. /\ updating'[t] = to /\ \A u \in Threads \ {t} : updating'[u] = updating[u]
      /\ updating' \in [Threads -> Stages]
  BY DEF Goes, LoopInv, UpdateTypes
<1>2. \A u \in Threads : Updating(u)' => Updating(u)
  BY <1>1 DEF Updating, Goes
<1>3. Active' \subseteq Active /\ Adders' \subseteq Active'
  BY <1>2 DEF Active, Adders, Updating
<1>4. IsFiniteSet(Active)
  BY ThreadsFinite DEF Active
<1>5. IsFiniteSet(Active') /\ Cardinality(Active') <= Cardinality(Active)
  BY <1>3, <1>4, FS_Subset
<1>6. IsFiniteSet(Adders') /\ Cardinality(Adders') <= Cardinality(Active')
  BY <1>3, <1>5, FS_Subset
<1>7. /\ Cardinality(Active) \in Nat /\ Cardinality(Active') \in Nat
      /\ Cardinality(Adders') \in Nat
  BY <1>4, <1>5, <1>6, FS_CardinalityType
<1> QED
  BY <1>1, <1>2, <1>5, <1>6, <1>7

\* Unless it goes on to add a guard, no more guards will be added; if it was to
\* add one, one less.
LEMMA GoesAdders ==
    ASSUME LoopInv, NEW t \in Threads, NEW to \in Stages, Goes(t, to), to # "add"
    PROVE  /\ Cardinality(Adders') <= Cardinality(Adders)
           /\ updating[t] = "add" => Cardinality(Adders') = Cardinality(Adders) - 1
<1>1. /\ updating'[t] = to /\ \A u \in Threads \ {t} : updating'[u] = updating[u]
  BY GoesOn
<1>2. Adders' = Adders \ {t}
  BY <1>1 DEF Adders
<1>3. IsFiniteSet(Adders)
  BY ThreadsFinite DEF Adders
<1>4. updating[t] = "add" => t \in Adders
  BY DEF Adders
<1> QED
  BY <1>2, <1>3, <1>4, FS_RemoveElement, FS_Subset

\* A thread ends its update, as it should or not.
LEMMA EndsStep ==
    ASSUME LoopInv, NEW t \in Threads, Goes(t, "no"), width' = width, alone' = alone \ {t}
    PROVE  LoopInv'
<1>1. "no" \in Stages /\ "no" # "add"
  BY DEF Stages
<1>2. UpdateTypes' /\ WidthInv'
  <2>1. /\ updating' \in [Threads -> Stages] /\ overlap' = overlap /\ drops' = drops
        /\ Cardinality(Active') \in Nat /\ Cardinality(Active') <= Cardinality(Active)
        /\ Cardinality(Adders') \in Nat /\ Cardinality(Adders') <= Cardinality(Adders)
    BY <1>1, GoesOn, GoesAdders DEF Goes
  <2> QED
    BY <2>1, CountThreads, Sizes DEF LoopInv, UpdateTypes, WidthInv
<1>3. AloneInv'
  BY <1>1, GoesOn DEF LoopInv, AloneInv, Updating
<1> QED
  BY <1>2, <1>3 DEF LoopInv

\* What is said of the widths of the layer when a thread goes on: a guard more
\* is one that the thread was to add.
LEMMA UpdateStepKeeps ==
    ASSUME LoopInv, NEW t \in Threads, UpdateStep(t)
    PROVE  LoopInv'
<1> USE DEF Stages
<1>0. /\ Cardinality(Active) \in Nat /\ Cardinality(Adders) \in Nat
      /\ Cardinality(Adders) <= Cardinality(Active)
      /\ Cardinality(Active) <= overlap + 1
      /\ width + Cardinality(Adders) <= LayerSize + overlap
      /\ width \in Nat /\ overlap \in Nat /\ drops \in 0..MaxDrops /\ LayerSize \in Nat
  BY CountThreads, Sizes DEF LoopInv, UpdateTypes, WidthInv
<1>1. ASSUME NEW kept \in 0..LayerSize + 1, Trim(t, kept) PROVE LoopInv'
  <2>1. Goes(t, "check") /\ updating[t] = "trim"
    BY <1>1 DEF Trim, At, Goes, Updating
  <2>2. width' = kept /\ kept \in Nat /\ kept <= width /\ kept <= LayerSize /\ alone' = alone
    BY <1>1, Sizes DEF Trim
  <2>3. UpdateTypes' /\ WidthInv'
    <3>1. /\ updating' \in [Threads -> Stages] /\ overlap' = overlap /\ drops' = drops
        /\ Cardinality(Active') \in Nat /\ Cardinality(Active') <= Cardinality(Active)
        /\ Cardinality(Adders') \in Nat /\ Cardinality(Adders') <= Cardinality(Adders)
      BY <2>1, GoesOn, GoesAdders DEF Goes
    <3> QED
      BY <1>0, <2>2, <3>1 DEF UpdateTypes, WidthInv
  <2>4. AloneInv'
    BY <2>1, <2>2, GoesOn DEF LoopInv, AloneInv, Updating
  <2> QED
    BY <2>3, <2>4 DEF LoopInv
<1>2. ASSUME Check(t) PROVE LoopInv'
  <2> DEFINE to == IF width < LayerSize THEN "add" ELSE "write"
  <2>1. Goes(t, to) /\ updating[t] = "check" /\ UNCHANGED <<width, alone>>
    BY <1>2 DEF Check, At, Goes, Updating
  <2>2. /\ updating' \in [Threads -> Stages]
        /\ updating'[t] = to /\ \A u \in Threads \ {t} : updating'[u] = updating[u]
        /\ Cardinality(Active') \in Nat /\ Cardinality(Active') <= Cardinality(Active)
        /\ Cardinality(Adders') \in Nat /\ Cardinality(Adders') <= Cardinality(Active)
        /\ overlap' = overlap /\ drops' = drops
    BY <2>1, GoesOn DEF Goes
  <2>3. UpdateTypes' /\ WidthInv'
    <3>1. CASE width < LayerSize
      BY <1>0, <2>1, <2>2, <3>1 DEF UpdateTypes, WidthInv
    <3>2. CASE ~(width < LayerSize)
      <4>1. Goes(t, "write")
        BY <2>1, <3>2
      <4>2. Cardinality(Adders') <= Cardinality(Adders)
        BY <4>1, GoesAdders
      <4> QED
        BY <1>0, <2>1, <2>2, <4>2 DEF UpdateTypes, WidthInv
    <3> QED
      BY <3>1, <3>2
  <2>4. AloneInv'
    BY <1>0, <2>1, <2>2 DEF LoopInv, AloneInv, Updating
  <2> QED
    BY <2>3, <2>4 DEF LoopInv
<1>3. ASSUME AddGuard(t) PROVE LoopInv'
  <2>1. Goes(t, "check") /\ updating[t] = "add" /\ width' = width + 1 /\ alone' = alone
    BY <1>3 DEF AddGuard, At, Goes, Updating
  <2>2. UpdateTypes' /\ WidthInv'
    <3>1. /\ updating' \in [Threads -> Stages] /\ overlap' = overlap /\ drops' = drops
        /\ Cardinality(Active') \in Nat /\ Cardinality(Active') <= Cardinality(Active)
        /\ Cardinality(Adders') \in Nat /\ Cardinality(Adders') <= Cardinality(Adders)
        /\ Cardinality(Adders') = Cardinality(Adders) - 1
      BY <2>1, GoesOn, GoesAdders DEF Goes
    <3> QED
      BY <1>0, <2>1, <3>1 DEF UpdateTypes, WidthInv
  <2>3. AloneInv'
    BY <1>0, <2>1, GoesOn DEF LoopInv, AloneInv, Updating
  <2> QED
    BY <2>2, <2>3 DEF LoopInv
<1>4. ASSUME EventUpdated(t) \/ HandlerRaises(t) PROVE LoopInv'
  <2>1. Goes(t, "no") /\ width' = width /\ alone' = alone \ {t}
    BY <1>4 DEF EventUpdated, HandlerRaises, At, Goes, Updating
  <2> QED
    BY <2>1, EndsStep
<1> QED
  BY <1>1, <1>2, <1>3, <1>4 DEF UpdateStep

LEMMA LoopStep == LoopInv /\ [Next]_vars => LoopInv'
<1> SUFFICES ASSUME LoopInv, [Next]_vars PROVE LoopInv'
  OBVIOUS
<1>0. Main \in Threads /\ Event \in Threads
  BY Sizes DEF Main, Event, Threads, LoopInv, UpdateTypes
<1>1. CASE MainThread
  <2>1. CASE Authenticate
    <3>1. UNCHANGED <<width, drops>> /\ (Begins(Main) \/ UNCHANGED updateVars)
      BY <2>1 DEF Authenticate, updateVars
    <3>2. CASE UNCHANGED updateVars
      BY <3>1, <3>2, StaysStep DEF Stays, LoopInv, UpdateTypes
    <3> QED
      BY <1>0, <3>1, <3>2, BeginsStep
  <2>2. CASE MainUpdated \/ NeedsDescriptors
    <3>1. Goes(Main, "no") /\ width' = width /\ alone' = alone \ {Main}
      BY <2>2 DEF MainUpdated, NeedsDescriptors, At, Goes, Updating
    <3> QED
      BY <1>0, <3>1, EndsStep
  <2>3. CASE Stays
    BY <2>3, StaysStep
  <2> QED
    BY <1>1, <2>1, <2>2, <2>3, MainStays DEF MainThread
<1>2. CASE \E t \in Threads : UpdateStep(t)
  BY <1>2, UpdateStepKeeps
<1>3. CASE EventThread
  <2>1. CASE NewConsensus
    BY <1>0, <2>1, BeginsStep DEF NewConsensus
  <2> QED
    BY <1>3, <2>1, EventStays, StaysStep DEF EventThread
<1>4. CASE Environment \/ UNCHANGED vars
  BY <1>4, EventStays, StaysStep
<1> QED
  BY <1>1, <1>2, <1>3, <1>4 DEF Next

THEOREM LoopInvariance == Spec => []LoopInv
BY LoopInit, LoopStep, PTL DEF Spec

\* However many connections are lost, and however many handlers outlive theirs at
\* once, the layer has at most as many guards too many as updates were under way
\* beside one that began: what overlaps leave does not add up.
THEOREM NeverFarTooWide == Spec => []LayerBounded
<1>1. LoopInv => LayerBounded
  BY CountThreads, Sizes DEF LoopInv, WidthInv, UpdateTypes, LayerBounded
<1> QED
  BY <1>1, LoopInvariance, PTL

\* An update that met no other one has made the layer as large as it should be.
THEOREM UpdatesAloneExact == Spec => AloneExact
<1>1. ASSUME LoopInv, [Next]_vars, NEW t \in alone,
             updating[t] = "write", updating'[t] = "no", pc' # "exited"
      PROVE  width' = LayerSize
  <2>1. width = LayerSize /\ \A u \in Threads \ {t} : ~Updating(u)
    BY <1>1 DEF LoopInv, AloneInv
  <2>2. ASSUME NEW u \in Threads, UpdateStep(u) PROVE width' = width
    <3>1. Updating(u)
      BY <2>2 DEF UpdateStep, Trim, Check, AddGuard, EventUpdated, HandlerRaises, At, Updating
    <3>2. updating[u] = "write"
      BY <1>1, <2>1, <3>1
    <3> QED
      BY <2>2, <3>2 DEF UpdateStep, Trim, Check, AddGuard, EventUpdated, HandlerRaises, At
  <2>3. MainThread => width' = width
    <3>1. Authenticate => width' = width
      BY DEF Authenticate, updateVars
    <3>2. MainUpdated \/ NeedsDescriptors => width' = width
      BY DEF MainUpdated, NeedsDescriptors
    <3>3. Stays => width' = width
      BY DEF Stays, updateVars
    <3> QED
      BY <1>1, <3>1, <3>2, <3>3, MainStays DEF MainThread
  <2>4. EventThread => width' = width
    <3>1. NewConsensus => width' = width
      BY DEF NewConsensus
    <3>2. Stays => width' = width
      BY DEF Stays, updateVars
    <3> QED
      BY <1>1, <3>1, <3>2, EventStays DEF EventThread
  <2>5. CASE Environment \/ UNCHANGED vars
    BY <1>1, <2>5, EventStays DEF Stays, updateVars
  <2> QED
    BY <1>1, <2>1, <2>2, <2>3, <2>4, <2>5 DEF Next
<1>2. LoopInv /\ [Next]_vars =>
        [\A t \in alone : updating[t] = "write" /\ updating'[t] = "no" /\ pc' # "exited"
            => width' = LayerSize]_vars
  BY <1>1
<1> QED
  BY <1>2, LoopInvariance, PTL DEF Spec, AloneExact


-----------------------------------------------------------------------------
(* The invariants of options, log lines, attributes and exit status.       *)

\* What is asked for is known as long as it is read.
AskedInv ==
    pc \in OptionSteps =>
      /\ asked \in [default : Files, given : Files, named : BOOLEAN,
                    command : Commands, environment : Environments,
                    generate : BOOLEAN]
      /\ ~asked.named => asked.given = Absent

\* The options whose precedence is kept.
Kept == Options \ ({"enable_bandguards", "one_shot_vanguards"} \union LogguardOptions)

\* The default file over the source, and the command line over what is there.
FromDefault(o) ==
    IF /\ asked.default.status # "absent" /\ o \in DOMAIN asked.default.values
       /\ o \in GlobalOptions \/ asked.default.status = "good"
    THEN asked.default.values[o] ELSE Builtin[o]

Parsed(o, value) ==
    IF o \in DOMAIN asked.command THEN asked.command[o]
    ELSE IF o \in DOMAIN asked.environment THEN asked.environment[o]
    ELSE value

FromGiven(o, value) ==
    IF asked.given.status # "absent" /\ o \in DOMAIN asked.given.values
    THEN asked.given.values[o] ELSE value

\* What each pass over the options leaves behind.
PassesInv ==
    /\ pc = "default_file" => config = Builtin
    /\ \A o \in Kept :
         /\ pc = "parse" => config[o] = FromDefault(o)
         /\ pc = "given_file" => config[o] = Parsed(o, FromDefault(o))
         /\ pc = "reparse" =>
              config[o] = FromGiven(o, Parsed(o, FromDefault(o)))
         /\ pc = "run" => config[o] = From(o)

\* Does the log guard of this connection hear Tor's log?
Hearing == attached >= 3 /\ Needed("logguard")

\* The attribute of the controller is there from the second step on.
AttributeInv ==
    /\ pc \in OptionSteps => attached = 0
    /\ attached >= 2 => _logguard # "unset"
    /\ Hearing => _logguard = "logs"
    /\ BandClosesReach

\* The lines kept are the last ones, and from after every request.
LinesInv ==
    /\ \A k \in 1..Len(log_buffer) : log_buffer[k] <= lines - Len(log_buffer) + k
    /\ \A w \in written : w.when = "Post" => w.circ \in ended
    /\ Hearing =>
         \A c \in DOMAIN requested :
           /\ \A k \in 1..Len(log_buffer) : log_buffer[k] > requested[c]
           /\ \A n \in requested[c] + 1..lines :
                n > lines - LogLimit =>
                  \/ \E k \in 1..Len(log_buffer) : log_buffer[k] = n
                  \/ \E w \in written : w.line = n
    /\ PostOfOwnTime

\* Was there service, counting this connection?
ServedInv ==
    pc # "exited" => served = (connected \/ pc \in {"watch", "closed"})

MainInv == AskedInv /\ PassesInv /\ AttributeInv /\ LinesInv /\ ServedInv

-----------------------------------------------------------------------------
(* The options.                                                            *)

\* The option steps, one after the other, with what they leave alone.
OptionStep ==
    OptionsNext /\ UNCHANGED <<logVars, loopVars, tor, link, updateVars, historyVars,
                               drops>>

\* What a file sets is a value of the option, and close_circuits is copied.
LEMMA ApplyType ==
    ASSUME OptionsTypeOK, NEW file \in Files, ApplyConfig(file)
    PROVE  /\ DOMAIN config' = Options
           /\ \A o \in Options : config'[o] \in Values[o]
           /\ _CLOSE_CIRCUITS' \in BOOLEAN
<1>1. \A o \in DOMAIN file.values : o \in Options /\ file.values[o] \in Values[o]
  BY OptionsAssumption
<1>2. PICK applied : /\ applied \subseteq DOMAIN file.values
                     /\ config' = [o \in Options |-> IF o \in applied THEN file.values[o]
                                                                      ELSE config[o]]
  BY DEF ApplyConfig
<1>3. DOMAIN config' = Options /\ \A o \in Options : config'[o] \in Values[o]
  BY <1>1, <1>2 DEF OptionsTypeOK
<1>4. "close_circuits" \in Options /\ Values["close_circuits"] = BOOLEAN
  BY OptionsAssumption
<1>5. _CLOSE_CIRCUITS' \in {config'["close_circuits"], _CLOSE_CIRCUITS}
  BY DEF ApplyConfig
<1> QED
  BY <1>3, <1>4, <1>5 DEF OptionsTypeOK

\* So is what the command line sets.
LEMMA ParsedType ==
    ASSUME OptionsTypeOK, AskedInv, SetupOptions
    PROVE  /\ DOMAIN config' = Options
           /\ \A o \in Options : config'[o] \in Values[o]
<1>1. asked.command \in Commands /\ asked.environment \in Environments
  BY DEF SetupOptions, AskedInv, OptionSteps
<1>2. \A o \in DOMAIN asked.command : asked.command[o] \in Values[o]
  BY <1>1, OptionsAssumption
<1>3. \A o \in DOMAIN asked.environment : asked.environment[o] \in Values[o]
  BY <1>1, OptionsAssumption
<1>4. \A o \in Switches : (~Switch[o]) \in Values[o]
  <2>1. \A o \in Switches : Switch[o] \in BOOLEAN /\ Values[o] = BOOLEAN
    BY OptionsAssumption
  <2>2. \A o \in Switches : (~Switch[o]) \in BOOLEAN
    BY <2>1
  <2> QED
    BY <2>1, <2>2
<1>5. ASSUME NEW o \in Options PROVE ParserDefault(o) \in Values[o]
  <2>1. CASE o \in {"enable_bandguards", "one_shot_vanguards"}
    BY <1>4, <2>1 DEF ParserDefault, Switches
  <2>2. CASE o \notin {"enable_bandguards", "one_shot_vanguards"}
    <3>1. ParserDefault(o) = IF o \in DOMAIN asked.environment THEN asked.environment[o]
                                                               ELSE config[o]
      BY <2>2 DEF ParserDefault
    <3>2. config[o] \in Values[o]
      BY DEF OptionsTypeOK
    <3> QED
      BY <1>3, <3>1, <3>2
  <2> QED
    BY <2>1, <2>2
<1> QED
  BY <1>2, <1>5 DEF SetupOptions

LEMMA OptionsType ==
    ASSUME OptionsTypeOK, AskedInv, OptionsNext
    PROVE  OptionsTypeOK'
<1>1. CASE DefaultFile
  <2>1. asked.default \in Files
    BY <1>1 DEF AskedInv, DefaultFile, OptionSteps
  <2> QED
    BY <1>1, <2>1, ApplyType DEF DefaultFile, OptionsTypeOK, GoTo
<1>2. CASE SetupOptions
  BY <1>2, ParsedType DEF SetupOptions, OptionsTypeOK, GoTo, Exit
<1>3. CASE SetupFails
  BY <1>3 DEF SetupFails, OptionsTypeOK, optionVars, Exit
<1>4. CASE GivenFile
  <2>1. asked.given \in Files
    BY <1>4 DEF AskedInv, GivenFile, OptionSteps
  <2> QED
    BY <1>4, <2>1, ApplyType DEF GivenFile, OptionsTypeOK, GoTo, Exit
<1> QED
  BY <1>1, <1>2, <1>3, <1>4 DEF OptionsNext

\* Every other step of the main thread leaves the options as they are.
LEMMA OptionsKept ==
    ASSUME [Next]_vars
    PROVE  \/ OptionStep
           \/ /\ UNCHANGED <<config, _CLOSE_CIRCUITS>>
              /\ asked' = asked \/ pc' = "connect"
              /\ pc' \in OptionSteps => pc' = pc
              /\ \/ UNCHANGED <<pc, exit>>
                 \/ pc # "exited" /\ pc' # "exited" /\ exit' = exit
                 \/ pc' = "exited" /\ exit' \in {0, 1}
<1> USE DEF GoTo, Exit, optionVars, OptionSteps
<1>1. CASE MainThread
  BY <1>1
  DEF MainThread, OptionStep, StartLoop, Connect, ConnectFails, Authenticate, MainUpdated,
      NeedsDescriptors, OneShot, GoOn, Attach, Attached, SetupRaises, SetupExits,
      ClosedInWatch, Returned
<1>2. CASE \E t \in Threads : UpdateStep(t)
  BY <1>2 DEF UpdateStep, Trim, Check, AddGuard, EventUpdated, HandlerRaises
<1>3. CASE EventThread
  BY <1>3 DEF EventThread, NewConsensus, TorLogs, CloseCircuit, CircEnded
<1>4. CASE Environment
  BY <1>4 DEF Environment, TorStarts, Drop
<1>5. CASE UNCHANGED vars
  BY <1>5 DEF vars
<1> QED
  BY <1>1, <1>2, <1>3, <1>4, <1>5 DEF Next

-----------------------------------------------------------------------------
(* The log guard.                                                          *)

\* What a step may do to the log guard: it is new, or hears of what it has to
\* hear of.
LogStep ==
    \/ UNCHANGED logVars /\ (Hearing' => Hearing)
    \/ NewLogGuard
    \/ /\ Hearing' <=> Hearing
       /\ \/ \E heard \in BOOLEAN : (heard <=> Hearing) /\ LogLine(heard)
          \/ \E c \in Circs, sent, guarded \in BOOLEAN :
               (Hearing => guarded) /\ c \notin ended /\ LogClose(c, sent, guarded)
          \/ \E c \in Circs, guarded \in BOOLEAN :
               (guarded => Hearing) /\ LogEnded(c, guarded)

\* One more line: it is the last, and the limit is kept.
LEMMA AppendedLine ==
    ASSUME LogTypeOK, NEW line
    PROVE  \/ /\ Len(log_buffer) < LogLimit
              /\ Appended(line) = Append(log_buffer, line)
           \/ /\ Len(log_buffer) = LogLimit
              /\ Appended(line) = Tail(Append(log_buffer, line))
<1>1. Len(log_buffer) \in Nat /\ Len(Append(log_buffer, line)) = Len(log_buffer) + 1
  BY DEF LogTypeOK
<1> QED
  BY <1>1, LogAssumption DEF LogTypeOK, Appended

\* The same, element by element.
LEMMA AppendedElements ==
    ASSUME LogTypeOK, NEW line \in Nat, log_buffer' = Appended(line)
    PROVE  /\ log_buffer' \in Seq(Nat)
           /\ \/ /\ Len(log_buffer) < LogLimit
                 /\ Len(log_buffer') = Len(log_buffer) + 1
                 /\ \A k \in 1..Len(log_buffer) : log_buffer'[k] = log_buffer[k]
              \/ /\ Len(log_buffer) = LogLimit
                 /\ Len(log_buffer') = Len(log_buffer)
                 /\ \A k \in 1..(Len(log_buffer) - 1) : log_buffer'[k] = log_buffer[k + 1]
           /\ log_buffer'[Len(log_buffer')] = line
<1> DEFINE n == Len(log_buffer)
           all == Append(log_buffer, line)
<1>1. /\ log_buffer \in Seq(Nat) /\ n \in Nat
      /\ LogLimit \in Nat \ {0}
  BY LogAssumption DEF LogTypeOK
<1>2. /\ all \in Seq(Nat) /\ Len(all) = n + 1
      /\ \A k \in 1..n : all[k] = log_buffer[k]
      /\ all[n + 1] = line
  BY <1>1
<1>3. /\ Tail(all) \in Seq(Nat) /\ Len(Tail(all)) = n
      /\ \A k \in 1..n : Tail(all)[k] = all[k + 1]
  BY <1>1, <1>2
<1> HIDE DEF n, all
<1>4. CASE n < LogLimit /\ log_buffer' = all
  BY <1>1, <1>2, <1>4 DEF n
<1>5. CASE n = LogLimit /\ log_buffer' = Tail(all)
  <2>1. \A k \in 1..(n - 1) : k + 1 \in 1..n /\ k \in 1..n
    BY <1>1
  <2>2. n \in 1..n
    BY <1>1, <1>5
  <2>3. log_buffer'[n] = line
    BY <1>2, <1>3, <1>5, <2>2
  <2>4. \A k \in 1..(n - 1) : log_buffer'[k] = log_buffer[k + 1]
    BY <1>2, <1>3, <1>5, <2>1
  <2> QED
    BY <1>3, <1>5, <2>3, <2>4 DEF n
<1> QED
  BY <1>4, <1>5, AppendedLine DEF n, all

LEMMA LogType ==
    ASSUME LogTypeOK, LogStep
    PROVE  LogTypeOK'
<1>1. CASE UNCHANGED logVars
  BY <1>1 DEF LogTypeOK, logVars
<1>2. CASE NewLogGuard
  BY <1>2, LogAssumption DEF LogTypeOK, NewLogGuard
<1>3. ASSUME NEW heard \in BOOLEAN, LogLine(heard) PROVE LogTypeOK'
  <2>1. lines' = lines + 1 /\ lines' \in 0..MaxLines /\ lines \in Nat
        /\ UNCHANGED <<written, requested, ended>>
    BY <1>3, LogAssumption DEF LogLine, LogTypeOK
  <2>2. 1..lines \subseteq 1..lines' /\ 0..lines \subseteq 0..lines'
    BY <2>1
  <2>3. log_buffer' \in Seq(1..lines') /\ Len(log_buffer') <= LogLimit
    <3>1. CASE log_buffer' = log_buffer
      BY <2>1, <2>2, <3>1 DEF LogTypeOK
    <3>2. CASE log_buffer' = Appended(lines + 1)
      <4>1. log_buffer \in Seq(1..lines') /\ lines + 1 \in 1..lines'
        BY <2>1, <2>2 DEF LogTypeOK
      <4>2. Append(log_buffer, lines + 1) \in Seq(1..lines')
        BY <4>1
      <4>3. Tail(Append(log_buffer, lines + 1)) \in Seq(1..lines')
        BY <4>2, <4>1
      <4>4. log_buffer' \in Seq(1..lines')
        BY <3>2, <4>2, <4>3, AppendedLine
      <4>5. Len(log_buffer') <= LogLimit
        BY <3>2, <2>1, AppendedElements, LogAssumption DEF LogTypeOK
      <4> QED
        BY <4>4, <4>5
    <3>3. log_buffer' = log_buffer \/ log_buffer' = Appended(lines + 1)
      BY <1>3, Zenon DEF LogLine
    <3> QED
      BY <3>1, <3>2, <3>3
  <2>4. written' \in SUBSET [line : 1..lines', circ : Circs, when : {"Pre", "Post"}]
    BY <2>1, <2>2 DEF LogTypeOK
  <2> QED
    BY <2>1, <2>2, <2>3, <2>4 DEF LogTypeOK
<1>4. ASSUME NEW c \in Circs, NEW when \in {"Pre", "Post"}
      PROVE  Dumped(c, when) \in SUBSET [line : 1..lines, circ : Circs, when : {"Pre", "Post"}]
  <2>1. \A k \in DOMAIN log_buffer : log_buffer[k] \in 1..lines
    BY DEF LogTypeOK
  <2> QED
    BY <2>1 DEF Dumped, LogTypeOK
<1>5. <<>> \in Seq(1..lines) /\ Len(<<>>) <= LogLimit
  BY LogAssumption
<1>6. ASSUME NEW c \in Circs, NEW sent \in BOOLEAN, NEW guarded \in BOOLEAN,
             LogClose(c, sent, guarded)
      PROVE  LogTypeOK'
  <2>1. /\ DOMAIN requested' \subseteq Circs
        /\ \A d \in DOMAIN requested' : requested'[d] \in 0..lines
    BY <1>6, LogAssumption DEF LogClose, LogTypeOK
  <2>2. log_buffer' \in Seq(1..lines) /\ Len(log_buffer') <= LogLimit
    BY <1>5, <1>6 DEF LogClose, LogTypeOK
  <2>3. written' \in SUBSET [line : 1..lines, circ : Circs, when : {"Pre", "Post"}]
    BY <1>4, <1>6 DEF LogClose, LogTypeOK
  <2> QED
    BY <1>6, <2>1, <2>2, <2>3 DEF LogClose, LogTypeOK
<1>7. ASSUME NEW c \in Circs, NEW guarded \in BOOLEAN, LogEnded(c, guarded)
      PROVE  LogTypeOK'
  <2>1. log_buffer' \in Seq(1..lines) /\ Len(log_buffer') <= LogLimit
    BY <1>5, <1>7 DEF LogEnded, LogTypeOK
  <2>2. written' \in SUBSET [line : 1..lines, circ : Circs, when : {"Pre", "Post"}]
    BY <1>4, <1>7 DEF LogEnded, LogTypeOK
  <2> QED
    BY <1>7, <2>1, <2>2 DEF LogEnded, LogTypeOK
<1> QED
  BY <1>1, <1>2, <1>3, <1>6, <1>7 DEF LogStep

-----------------------------------------------------------------------------
(* The steps of control_loop.                                              *)

LEMMA AttachFacts ==
    /\ Len(AttachSteps) = 9
    /\ AttachSteps[2] = "no_logguard" /\ AttachSteps[3] = "logguard"
    /\ \A k \in 1..9 :
         /\ AttachSteps[k] = "no_logguard" => k = 2
         /\ AttachSteps[k] = "logguard" => k = 3
         /\ AttachSteps[k] = "log_circ" => k = 5
         /\ AttachSteps[k] = "bandguards" => k = 6
BY DEF AttachSteps

\* What has been done, counted in steps.
LEMMA DoneFacts ==
    ASSUME attached \in 0..Len(AttachSteps)
    PROVE  /\ Done("bandguards") => attached >= 6
           /\ Done("logguard") <=> Hearing
           /\ Done("log_circ") => Hearing
<1>1. attached \in Nat /\ \A k \in 1..attached : k \in 1..9 /\ k <= attached
  BY AttachFacts
<1>2. Needed("log_circ") <=> Needed("logguard")
  BY DEF Needed
<1>3. Done("logguard") => Hearing
  BY <1>1, AttachFacts DEF Done, Hearing
<1>4. Hearing => Done("logguard")
  <2>1. attached >= 3 => 3 \in 1..attached
    BY <1>1
  <2> QED
    BY <2>1, AttachFacts DEF Done, Hearing
<1>5. Done("log_circ") => Hearing
  BY <1>1, <1>2, AttachFacts DEF Done, Hearing
<1>6. Done("bandguards") => attached >= 6
  BY <1>1, AttachFacts DEF Done
<1> QED
  BY <1>3, <1>4, <1>5, <1>6

\* Only a new connection and the steps of control_loop change what is attached;
\* the options do not change any more by then.
LEMMA AttachedKept ==
    ASSUME [Next]_vars
    PROVE  \/ UNCHANGED <<attached, _logguard>>
              /\ (config' = config \/ pc \in OptionSteps)
              /\ (pc' \in OptionSteps => pc \in OptionSteps)
           \/ Connect
           \/ Attach
<1> USE DEF GoTo, Exit, optionVars, loopVars, OptionSteps
<1>1. CASE OptionStep
  BY <1>1 DEF OptionStep, OptionsNext, DefaultFile, SetupOptions, SetupFails, GivenFile
<1>2. CASE MainThread /\ ~OptionStep
  BY <1>2
  DEF MainThread, OptionStep, StartLoop, ConnectFails, Authenticate, MainUpdated,
      NeedsDescriptors, OneShot, GoOn, Attached, SetupRaises, SetupExits,
      ClosedInWatch, Returned
<1>3. CASE \E t \in Threads : UpdateStep(t)
  BY <1>3 DEF UpdateStep, Trim, Check, AddGuard, EventUpdated, HandlerRaises
<1>4. CASE EventThread
  BY <1>4 DEF EventThread, NewConsensus, TorLogs, CloseCircuit, CircEnded
<1>5. CASE Environment
  BY <1>5 DEF Environment, TorStarts, Drop
<1>6. CASE UNCHANGED vars
  BY <1>6 DEF vars
<1> QED
  BY <1>1, <1>2, <1>3, <1>4, <1>5, <1>6 DEF Next

\* One step of control_loop: the attribute is set by the second, the log guard
\* by the third.
LEMMA AttachEffect ==
    ASSUME attached \in 0..Len(AttachSteps), Attach
    PROVE  /\ attached' = attached + 1 /\ attached' \in 0..Len(AttachSteps)
           /\ config' = config /\ (Needed("logguard")' <=> Needed("logguard"))
           /\ pc = "attach" /\ pc' = "attach"
           /\ _logguard' \in {_logguard, "none", "logs"}
           /\ attached = 1 => _logguard' = "none"
           /\ attached = 2 /\ Needed("logguard") => _logguard' = "logs" /\ NewLogGuard
           /\ attached > 2 => _logguard' = _logguard
           /\ attached # 2 \/ ~Needed("logguard") => UNCHANGED logVars
<1>1. /\ attached' = attached + 1 /\ attached' \in 0..Len(AttachSteps)
      /\ config' = config /\ pc = "attach" /\ pc' = "attach"
  BY AttachFacts DEF Attach, optionVars
<1>2. Needed("logguard")' <=> Needed("logguard")
  BY <1>1 DEF Needed
<1> DEFINE step == AttachSteps[attached + 1]
<1>3. /\ _logguard' = IF ~Needed(step) THEN _logguard
                      ELSE CASE step = "no_logguard" -> "none"
                             [] step = "logguard" -> "logs"
                             [] OTHER -> _logguard
      /\ IF Needed(step) /\ step = "logguard" THEN NewLogGuard ELSE UNCHANGED logVars
  BY DEF Attach
<1>4. attached + 1 \in 1..9
  BY <1>1, AttachFacts
<1>5. /\ step = "no_logguard" <=> attached = 1
      /\ step = "logguard" <=> attached = 2
  <2>1. /\ attached + 1 = 2 <=> attached = 1
        /\ attached + 1 = 3 <=> attached = 2
    BY <1>4
  <2> QED
    BY <1>4, <2>1, AttachFacts
<1>6. Needed("no_logguard")
  BY DEF Needed
<1> HIDE DEF step
<1> QED
  BY <1>1, <1>2, <1>3, <1>5, <1>6

LEMMA AttributeStep ==
    ASSUME TypeOK, AttributeInv, [Next]_vars
    PROVE  AttributeInv'
<1>1. attached \in 0..9 /\ attached \in 0..Len(AttachSteps)
  BY AttachFacts DEF TypeOK
<1>2. BandClosesReach'
  <2>1. ASSUME NEW c \in Circs, CloseCircuit(c, "bandguards") PROVE unsent' = unsent
    <3>1. attached >= 6
      BY <1>1, <2>1, DoneFacts DEF CloseCircuit
    <3> QED
      BY <1>1, <2>1, <3>1 DEF CloseCircuit, AttributeInv
  <2>2. unsent' \subseteq unsent \union {"rendguard"}
    <3> USE DEF historyVars
    <3>1. CASE MainThread
      BY <3>1
      DEF MainThread, StartLoop, Connect, ConnectFails, Authenticate, MainUpdated,
          NeedsDescriptors, OneShot, GoOn, Attach, Attached, SetupRaises, SetupExits,
          ClosedInWatch, Returned
    <3>2. CASE \E t \in Threads : UpdateStep(t)
      BY <3>2 DEF UpdateStep, Trim, Check, AddGuard, EventUpdated, HandlerRaises
    <3>3. CASE EventThread
      BY <2>1, <3>3 DEF EventThread, NewConsensus, TorLogs, CloseCircuit, CircEnded
    <3>4. CASE Environment \/ UNCHANGED vars
      BY <3>4 DEF Environment, TorStarts, Drop, vars
    <3> QED
      BY <3>1, <3>2, <3>3, <3>4 DEF Next
  <2> QED
    BY <2>2 DEF AttributeInv, BandClosesReach
<1>3. CASE UNCHANGED <<attached, _logguard>>
           /\ (config' = config \/ pc \in OptionSteps)
           /\ (pc' \in OptionSteps => pc \in OptionSteps)
  BY <1>1, <1>2, <1>3 DEF AttributeInv, Hearing, Needed
<1>4. CASE Connect
  BY <1>2, <1>4 DEF Connect, AttributeInv, Hearing, GoTo, OptionSteps
<1>5. CASE Attach
  BY <1>1, <1>2, <1>5, AttachEffect DEF AttributeInv, Hearing, OptionSteps
<1> QED
  BY <1>3, <1>4, <1>5, AttachedKept

\* These are all the ways in which the program and Tor call the log guard.
LEMMA LogSteps ==
    ASSUME TypeOK, AttributeInv, [Next]_vars
    PROVE  LogStep
<1>1. attached \in 0..9 /\ attached \in 0..Len(AttachSteps)
  BY AttachFacts DEF TypeOK
<1>2. CASE Attach
  BY <1>1, <1>2, AttachEffect DEF LogStep, Hearing
<1>3. ASSUME ~Attach, UNCHANGED logVars PROVE LogStep
  <2>1. Hearing' => Hearing
    BY <1>1, <1>3, AttachedKept DEF Hearing, Needed, AttributeInv, Connect
  <2> QED
    BY <1>3, <2>1 DEF LogStep
<1>4. CASE MainThread /\ ~Attach
  <2>1. UNCHANGED logVars
    BY <1>4
    DEF MainThread, StartLoop, Connect, ConnectFails, Authenticate, MainUpdated,
        NeedsDescriptors, OneShot, GoOn, Attached, SetupRaises, SetupExits,
        ClosedInWatch, Returned
  <2> QED
    BY <1>3, <1>4, <2>1
<1>5. CASE ~Attach /\ \E t \in Threads : UpdateStep(t)
  <2>1. UNCHANGED logVars
    BY <1>5 DEF UpdateStep, Trim, Check, AddGuard, EventUpdated, HandlerRaises
  <2> QED
    BY <1>3, <1>5, <2>1
<1>6. CASE ~Attach /\ (NewConsensus \/ Environment \/ UNCHANGED vars)
  <2>1. UNCHANGED logVars
    BY <1>6 DEF NewConsensus, Environment, TorStarts, Drop, vars
  <2> QED
    BY <1>3, <1>6, <2>1
<1>7. ASSUME UNCHANGED <<attached, config>> PROVE Hearing' <=> Hearing
  BY <1>7 DEF Hearing, Needed
<1>8. CASE TorLogs
  <2>1. UNCHANGED <<attached, config>> /\ LogLine(Done("logguard"))
    BY <1>8 DEF TorLogs, loopVars, optionVars
  <2>2. Done("logguard") \in BOOLEAN
    BY DEF Done
  <2> QED
    BY <1>1, <1>7, <2>1, <2>2, DoneFacts DEF LogStep
<1>9. ASSUME NEW c \in Circs, CircEnded(c) PROVE LogStep
  <2>1. UNCHANGED <<attached, config>> /\ LogEnded(c, Done("log_circ"))
    BY <1>9 DEF CircEnded, loopVars, optionVars
  <2>2. Done("log_circ") \in BOOLEAN
    BY DEF Done
  <2> QED
    BY <1>1, <1>7, <2>1, <2>2, DoneFacts DEF LogStep
<1>10. ASSUME NEW c \in Circs, NEW by, CloseCircuit(c, by), ~Attach PROVE LogStep
  <2>1. UNCHANGED <<attached, config>> /\ c \notin ended
    BY <1>10 DEF CloseCircuit, loopVars, optionVars
  <2>2. CASE _logguard = "unset"
    BY <1>3, <1>10, <2>2 DEF CloseCircuit
  <2>3. CASE _logguard # "unset"
    <3>1. LogClose(c, _CLOSE_CIRCUITS, _logguard = "logs")
      BY <1>10, <2>3 DEF CloseCircuit
    <3>2. Hearing => _logguard = "logs"
      BY DEF AttributeInv
    <3>3. _CLOSE_CIRCUITS \in BOOLEAN /\ (_logguard = "logs") \in BOOLEAN
      BY DEF TypeOK, OptionsTypeOK
    <3> QED
      BY <1>7, <2>1, <3>1, <3>2, <3>3 DEF LogStep
  <2> QED
    BY <2>2, <2>3
<1> QED
  BY <1>2, <1>4, <1>5, <1>6, <1>8, <1>9, <1>10 DEF Next, EventThread

-----------------------------------------------------------------------------
(* The lines that are kept and written.                                    *)

\* A new log guard knows nothing.
LEMMA NewLines ==
    ASSUME LogTypeOK, LinesInv, NewLogGuard
    PROVE  LinesInv'
<1>1. DOMAIN requested' = {} /\ log_buffer' = <<>>
  BY DEF NewLogGuard
<1> QED
  BY <1>1 DEF LinesInv, NewLogGuard, PostOfOwnTime

LEMMA SameLines ==
    ASSUME LinesInv, UNCHANGED logVars, Hearing' => Hearing
    PROVE  LinesInv'
BY DEF LinesInv, logVars, PostOfOwnTime

\* The line that is given up is older than the limit.
LEMMA MoreLines ==
    ASSUME LogTypeOK, LinesInv, Hearing' <=> Hearing,
           NEW heard \in BOOLEAN, heard <=> Hearing, LogLine(heard)
    PROVE  LinesInv'
<1> DEFINE n == Len(log_buffer)
<1>1. /\ lines \in Nat /\ lines' = lines + 1 /\ n \in Nat /\ n <= LogLimit
      /\ LogLimit \in Nat \ {0}
      /\ \A k \in 1..n : log_buffer[k] \in Nat /\ log_buffer[k] <= lines
      /\ \A c \in DOMAIN requested : requested[c] \in Nat /\ requested[c] <= lines
      /\ UNCHANGED <<written, requested, ended>>
  BY LogAssumption DEF LogLine, LogTypeOK
<1>2. \A k \in 1..n : log_buffer[k] <= lines - n + k
  BY DEF LinesInv
<1>3. PostOfOwnTime' /\ \A w \in written' : w.when = "Post" => w.circ \in ended'
  BY <1>1 DEF LinesInv, PostOfOwnTime
<1>4. CASE ~Hearing
  <2>1. log_buffer' = log_buffer
    BY <1>4 DEF LogLine
  <2>2. \A k \in 1..Len(log_buffer') : log_buffer'[k] <= lines' - Len(log_buffer') + k
    BY <1>1, <1>2, <2>1
  <2> QED
    BY <1>3, <1>4, <2>2 DEF LinesInv
<1>5. CASE Hearing
  <2> DEFINE m == Len(log_buffer')
  <2>1. /\ \/ /\ n < LogLimit /\ m = n + 1
              /\ \A k \in 1..n : log_buffer'[k] = log_buffer[k]
           \/ /\ n = LogLimit /\ m = n
              /\ \A k \in 1..(n - 1) : log_buffer'[k] = log_buffer[k + 1]
        /\ log_buffer'[m] = lines + 1
    BY <1>1, <1>5, AppendedElements DEF LogLine
  <2> HIDE DEF n, m
  <2>2. \A k \in 1..m : log_buffer'[k] <= lines' - m + k
    <3> SUFFICES ASSUME NEW k \in 1..m PROVE log_buffer'[k] <= lines' - m + k
      OBVIOUS
    <3>1. CASE k = m
      BY <1>1, <2>1, <3>1
    <3>2. CASE k # m /\ m = n + 1 /\ log_buffer'[k] = log_buffer[k]
      <4>1. k \in 1..n
        BY <1>1, <3>2
      <4> QED
        BY <1>1, <1>2, <3>2, <4>1
    <3>3. CASE k # m /\ m = n /\ log_buffer'[k] = log_buffer[k + 1]
      <4>1. k + 1 \in 1..n
        BY <1>1, <3>3
      <4>2. log_buffer[k + 1] <= lines - n + (k + 1) /\ log_buffer[k + 1] \in Nat
        BY <1>1, <1>2, <4>1
      <4> QED
        BY <1>1, <3>3, <4>2
    <3> QED
      BY <1>1, <2>1, <3>1, <3>2, <3>3
  <2>3. \A j \in 1..m :
          log_buffer'[j] = lines + 1 \/ \E k \in 1..n : log_buffer'[j] = log_buffer[k]
    <3> SUFFICES ASSUME NEW j \in 1..m, j # m
                 PROVE  \E k \in 1..n : log_buffer'[j] = log_buffer[k]
      BY <2>1
    <3>1. CASE m = n + 1 /\ log_buffer'[j] = log_buffer[j]
      <4>1. j \in 1..n
        BY <1>1, <3>1
      <4> QED
        BY <3>1, <4>1
    <3>2. CASE m = n /\ log_buffer'[j] = log_buffer[j + 1]
      <4>1. j + 1 \in 1..n
        BY <1>1, <3>2
      <4> QED
        BY <3>2, <4>1
    <3> QED
      BY <1>1, <2>1, <3>1, <3>2
  <2>4. ASSUME NEW k \in 1..n, log_buffer[k] > lines + 1 - LogLimit
        PROVE  \E j \in 1..m : log_buffer'[j] = log_buffer[k]
    <3>1. CASE m = n + 1 /\ log_buffer'[k] = log_buffer[k]
      <4>1. k \in 1..m
        BY <1>1, <3>1
      <4> QED
        BY <3>1, <4>1
    <3>2. CASE n = LogLimit /\ m = n /\ k # 1
      <4>1. k - 1 \in 1..(n - 1) /\ k - 1 \in 1..m /\ (k - 1) + 1 = k
        BY <1>1, <3>2
      <4>2. log_buffer'[k - 1] = log_buffer[(k - 1) + 1]
        BY <1>1, <2>1, <3>2, <4>1
      <4> QED
        BY <4>1, <4>2
    <3>3. CASE n = LogLimit /\ m = n /\ k = 1
      BY <1>1, <1>2, <2>4, <3>3
    <3> QED
      BY <1>1, <2>1, <3>1, <3>2, <3>3
  <2>5. ASSUME NEW c \in DOMAIN requested', NEW k \in 1..m
        PROVE  log_buffer'[k] > requested'[c]
    <3>1. requested'[c] \in Nat /\ requested'[c] <= lines
      BY <1>1, <2>5
    <3>2. \A j \in 1..n : log_buffer[j] > requested'[c]
      BY <1>1, <1>5, <2>5 DEF LinesInv, n
    <3> QED
      BY <1>1, <2>3, <3>1, <3>2
  <2>6. ASSUME NEW c \in DOMAIN requested', NEW i \in requested'[c] + 1..lines',
               i > lines' - LogLimit
        PROVE  \/ \E k \in 1..m : log_buffer'[k] = i
               \/ \E w \in written' : w.line = i
    <3>1. requested'[c] = requested[c] /\ requested[c] \in Nat /\ i \in Nat
      BY <1>1, <2>6
    <3>2. CASE i = lines + 1
      <4>1. m \in 1..m
        BY <1>1, <2>1
      <4> QED
        BY <2>1, <3>2, <4>1
    <3>3. CASE i # lines + 1
      <4>1. i \in requested[c] + 1..lines /\ i > lines - LogLimit /\ i > lines + 1 - LogLimit
        BY <1>1, <2>6, <3>1, <3>3
      <4>2. \/ \E k \in 1..n : log_buffer[k] = i
            \/ \E w \in written : w.line = i
        BY <1>1, <1>5, <2>6, <4>1 DEF LinesInv, n
      <4> QED
        BY <1>1, <2>4, <4>1, <4>2
    <3> QED
      BY <3>2, <3>3
  <2> QED
    BY <1>3, <2>2, <2>5, <2>6 DEF LinesInv, m
<1> QED
  BY <1>4, <1>5

\* A request: the buffer is written, so what is kept from now on is younger.
LEMMA CloseLines ==
    ASSUME LogTypeOK, LinesInv, Hearing' <=> Hearing, NEW c \in Circs, c \notin ended,
           NEW sent \in BOOLEAN, NEW guarded \in BOOLEAN, Hearing => guarded,
           LogClose(c, sent, guarded)
    PROVE  LinesInv'
<1>1. /\ UNCHANGED <<lines, ended>> /\ lines \in Nat
      /\ written \subseteq written'
      /\ \A w \in written' : w \in written \/ w.when = "Pre"
      /\ log_buffer' = log_buffer \/ log_buffer' = <<>>
  BY DEF LogClose, Dumped, LogTypeOK
<1>2. \A d \in DOMAIN requested' :
        \/ d \in DOMAIN requested /\ requested'[d] = requested[d]
        \/ d = c /\ requested'[d] = lines
  BY DEF LogClose
<1>3. \A k \in 1..Len(log_buffer') : log_buffer'[k] <= lines' - Len(log_buffer') + k
  <2>1. CASE log_buffer' = log_buffer
    BY <1>1, <2>1 DEF LinesInv
  <2>2. CASE log_buffer' = <<>>
    BY <2>2
  <2> QED
    BY <1>1, <2>1, <2>2
<1>4. \A w \in written' : w.when = "Post" => w \in written /\ w.circ \in ended'
  BY <1>1 DEF LinesInv
<1>5. PostOfOwnTime'
  <2> SUFFICES ASSUME NEW w \in written', w.when = "Post", w.circ \in DOMAIN requested'
               PROVE  w.line > requested'[w.circ]
    BY DEF PostOfOwnTime
  <2>1. w \in written /\ w.circ \in ended
    BY <1>1, <1>4
  <2> QED
    BY <1>2, <2>1 DEF LinesInv, PostOfOwnTime
<1>6. ASSUME Hearing, NEW d \in DOMAIN requested', NEW i \in requested'[d] + 1..lines',
             i > lines' - LogLimit
      PROVE  log_buffer' = <<>> /\ \E w \in written' : w.line = i
  <2>1. /\ log_buffer' = <<>>
        /\ written' = written \union {[line |-> log_buffer[k], circ |-> c, when |-> "Pre"] :
                                        k \in DOMAIN log_buffer}
        /\ DOMAIN log_buffer = 1..Len(log_buffer)
    BY <1>6 DEF LogClose, Dumped, LogTypeOK
  <2>2. requested'[d] # lines
    BY <1>1, <1>6
  <2>3. d \in DOMAIN requested /\ i \in requested[d] + 1..lines /\ i > lines - LogLimit
    BY <1>1, <1>2, <1>6, <2>2
  <2>4. \/ \E k \in 1..Len(log_buffer) : log_buffer[k] = i
        \/ \E w \in written : w.line = i
    BY <1>6, <2>3 DEF LinesInv
  <2>5. \A k \in 1..Len(log_buffer) : \E w \in written' : w.line = log_buffer[k]
    <3> SUFFICES ASSUME NEW k \in 1..Len(log_buffer)
                 PROVE  \E w \in written' : w.line = log_buffer[k]
      OBVIOUS
    <3>1. [line |-> log_buffer[k], circ |-> c, when |-> "Pre"] \in written'
      BY <2>1
    <3> QED
      BY <3>1
  <2> QED
    BY <1>1, <2>1, <2>4, <2>5
<1>7. Hearing => log_buffer' = <<>> /\ Len(log_buffer') = 0
  BY DEF LogClose
<1> QED
  BY <1>3, <1>4, <1>5, <1>6, <1>7 DEF LinesInv

\* A circuit ends: what is written for it is from after the request.
LEMMA EndedLines ==
    ASSUME LogTypeOK, LinesInv, Hearing' <=> Hearing, NEW c \in Circs,
           NEW guarded \in BOOLEAN, guarded => Hearing, LogEnded(c, guarded)
    PROVE  LinesInv'
<1>1. /\ UNCHANGED <<lines, requested>> /\ ended' = ended \union {c}
      /\ DOMAIN log_buffer = 1..Len(log_buffer)
  BY DEF LogEnded, LogTypeOK
<1>2. CASE ~guarded
  <2>1. written' = written /\ log_buffer' = log_buffer
    BY <1>2 DEF LogEnded
  <2> QED
    BY <1>1, <2>1 DEF LinesInv, PostOfOwnTime
<1>3. CASE guarded
  <2>1. /\ log_buffer' = <<>> /\ Len(log_buffer') = 0
        /\ written' = written \union {[line |-> log_buffer[k], circ |-> c, when |-> "Post"] :
                                        k \in 1..Len(log_buffer)}
    BY <1>1, <1>3 DEF LogEnded, Dumped
  <2>2. \A w \in written' : w.when = "Post" => w.circ \in ended'
    BY <1>1, <2>1 DEF LinesInv
  <2>3. PostOfOwnTime'
    BY <1>1, <1>3, <2>1 DEF LinesInv, PostOfOwnTime
  <2>4. ASSUME NEW d \in DOMAIN requested', NEW i \in requested'[d] + 1..lines',
               i > lines' - LogLimit
        PROVE  \E w \in written' : w.line = i
    <3>1. \/ \E k \in 1..Len(log_buffer) : log_buffer[k] = i
          \/ \E w \in written : w.line = i
      BY <1>1, <1>3, <2>4 DEF LinesInv
    <3>2. \A k \in 1..Len(log_buffer) : \E w \in written' : w.line = log_buffer[k]
      <4> SUFFICES ASSUME NEW k \in 1..Len(log_buffer)
                   PROVE  \E w \in written' : w.line = log_buffer[k]
        OBVIOUS
      <4>1. [line |-> log_buffer[k], circ |-> c, when |-> "Post"] \in written'
        BY <2>1
      <4> QED
        BY <4>1
    <3> QED
      BY <2>1, <3>1, <3>2
  <2> QED
    BY <2>1, <2>2, <2>3, <2>4 DEF LinesInv
<1> QED
  BY <1>2, <1>3

LEMMA LinesStep == LogTypeOK /\ LinesInv /\ LogStep => LinesInv'
BY NewLines, SameLines, MoreLines, CloseLines, EndedLines DEF LogStep

-----------------------------------------------------------------------------
(* The passes over the options.                                            *)

LEMMA AskedStep == AskedInv /\ [Next]_vars => AskedInv'
<1> SUFFICES ASSUME AskedInv, [Next]_vars PROVE AskedInv'
  OBVIOUS
<1>1. CASE OptionStep
  BY <1>1
  DEF OptionStep, OptionsNext, DefaultFile, SetupOptions, SetupFails, GivenFile, AskedInv,
      OptionSteps, optionVars
<1>2. CASE ~OptionStep
  BY <1>2, OptionsKept DEF AskedInv, OptionSteps
<1> QED
  BY <1>1, <1>2

\* A file sets what it may set of an option, and leaves the others alone.
LEMMA ApplyEffect ==
    ASSUME NEW file \in Files, ApplyConfig(file), NEW o \in Kept
    PROVE  config'[o] = IF /\ file.status # "absent" /\ o \in DOMAIN file.values
                           /\ o \in GlobalOptions \/ file.status = "good"
                        THEN file.values[o] ELSE config[o]
<1>1. file.status \in {"absent", "good", "broken"}
  BY OptionsAssumption
<1>2. o \in Options /\ o \notin LogguardOptions
  BY DEF Kept
<1> DEFINE applied == (DOMAIN file.values \ LogguardOptions) \intersect
                      (CASE file.status = "good" -> Options
                         [] file.status = "broken" -> GlobalOptions
                         [] OTHER -> {})
<1>3. config'[o] = IF o \in applied THEN file.values[o] ELSE config[o]
  BY <1>2 DEF ApplyConfig
<1>4. o \in applied <=> /\ file.status # "absent" /\ o \in DOMAIN file.values
                        /\ o \in GlobalOptions \/ file.status = "good"
  BY <1>1, <1>2
<1> HIDE DEF applied
<1> QED
  BY <1>3, <1>4

\* The command line and the environment go over what is there.
LEMMA SetupEffect ==
    ASSUME SetupOptions, NEW o \in Kept
    PROVE  config'[o] = Parsed(o, config[o])
<1>1. o \in Options /\ o \notin {"enable_bandguards", "one_shot_vanguards"}
  BY DEF Kept
<1> QED
  BY <1>1 DEF SetupOptions, ParserDefault, Parsed

\* The command line, the file that is named, the default file, the source.
LEMMA FromOrder ==
    ASSUME NEW o
    PROVE  /\ From(o) = Parsed(o, FromGiven(o, FromDefault(o)))
           /\ From(o) = Parsed(o, FromGiven(o, Parsed(o, FromDefault(o))))
BY DEF From, Parsed, FromGiven, FromDefault

LEMMA PassesStep == AskedInv /\ PassesInv /\ [Next]_vars => PassesInv'
<1> SUFFICES ASSUME AskedInv, PassesInv, [Next]_vars PROVE PassesInv'
  OBVIOUS
<1>1. CASE ~OptionStep
  <2>1. CASE pc' \in OptionSteps
    <3>1. UNCHANGED <<pc, config, asked>>
      BY <1>1, <2>1, OptionsKept DEF OptionSteps
    <3> QED
      BY <3>1 DEF PassesInv, FromDefault, Parsed, FromGiven, From
  <2>2. CASE pc' \notin OptionSteps
    BY <2>2 DEF PassesInv, OptionSteps
  <2> QED
    BY <2>1, <2>2
<1>2. ASSUME asked' = asked, NEW o
      PROVE  /\ FromDefault(o)' = FromDefault(o) /\ From(o)' = From(o)
             /\ Parsed(o, FromDefault(o))' = Parsed(o, FromDefault(o))
             /\ FromGiven(o, Parsed(o, FromDefault(o)))'
                  = FromGiven(o, Parsed(o, FromDefault(o)))
  BY <1>2 DEF FromDefault, Parsed, FromGiven, From
<1>3. CASE DefaultFile
  <2>1. /\ pc = "default_file" /\ pc' = "parse" /\ asked' = asked
        /\ asked.default \in Files
    BY <1>3 DEF DefaultFile, GoTo, AskedInv, OptionSteps
  <2>2. \A o \in Kept : config'[o] = FromDefault(o)
    BY <1>3, <2>1, ApplyEffect DEF DefaultFile, PassesInv, FromDefault
  <2> QED
    BY <1>2, <2>1, <2>2 DEF PassesInv
<1>4. CASE SetupOptions
  <2>1. /\ pc \in {"parse", "reparse"} /\ asked' = asked
        /\ pc' \in {"given_file", "run", "exited"}
        /\ pc' = "given_file" => pc = "parse"
        /\ pc' = "run" => pc = "reparse" \/ ~asked.named
    BY <1>4 DEF SetupOptions, GoTo, Exit
  <2>2. \A o \in Kept : config'[o] = Parsed(o, config[o])
    BY <1>4, SetupEffect
  <2>3. ASSUME pc = "parse", ~asked.named, NEW o
        PROVE  From(o) = Parsed(o, FromDefault(o))
    <3>1. asked.given.status = "absent"
      BY <2>3 DEF AskedInv, OptionSteps, Absent
    <3> QED
      BY <3>1, FromOrder DEF FromGiven
  <2>4. ASSUME NEW o \in Kept, pc' = "given_file" PROVE config'[o] = Parsed(o, FromDefault(o))
    BY <2>1, <2>2, <2>4 DEF PassesInv
  <2>5. ASSUME NEW o \in Kept, pc' = "run" PROVE config'[o] = From(o)
    BY <2>1, <2>2, <2>3, <2>5, FromOrder DEF PassesInv
  <2> QED
    BY <1>2, <2>1, <2>4, <2>5 DEF PassesInv
<1>5. CASE GivenFile
  <2>1. /\ pc = "given_file" /\ asked' = asked /\ asked.given \in Files
        /\ (pc' = "reparse" /\ asked.given.status = "good") \/ pc' = "exited"
    BY <1>5 DEF GivenFile, GoTo, Exit, AskedInv, OptionSteps
  <2>2. ASSUME NEW o \in Kept, pc' = "reparse"
        PROVE  config'[o] = FromGiven(o, Parsed(o, FromDefault(o)))
    BY <1>5, <2>1, <2>2, ApplyEffect DEF GivenFile, PassesInv, FromGiven
  <2> QED
    BY <1>2, <2>1, <2>2 DEF PassesInv
<1>6. CASE SetupFails
  BY <1>6 DEF SetupFails, Exit, PassesInv
<1> QED
  BY <1>1, <1>3, <1>4, <1>5, <1>6 DEF OptionStep, OptionsNext

-----------------------------------------------------------------------------
(* Service, and the types of the rest.                                     *)

LEMMA ServedStep == TypeOK /\ ServedInv /\ [Next]_vars => ServedInv'
<1> SUFFICES ASSUME TypeOK, ServedInv, [Next]_vars PROVE ServedInv'
  OBVIOUS
<1> USE DEF ServedInv, GoTo, Exit, loopVars, historyVars
<1>1. CASE OptionStep \/ StartLoop \/ Connect \/ ConnectFails \/ Authenticate
           \/ MainUpdated \/ NeedsDescriptors \/ GoOn \/ Attach
  BY <1>1
  DEF OptionStep, OptionsNext, DefaultFile, SetupOptions, SetupFails, GivenFile,
      StartLoop, Connect, ConnectFails, Authenticate, MainUpdated, NeedsDescriptors,
      GoOn, Attach
<1>2. CASE (\E saved \in BOOLEAN : OneShot(saved)) \/ SetupRaises \/ SetupExits
  BY <1>2 DEF OneShot, SetupRaises, SetupExits
<1>3. CASE Attached
  BY <1>3 DEF Attached
<1>4. CASE ClosedInWatch
  BY <1>4 DEF ClosedInWatch
<1>5. CASE Returned
  BY <1>5 DEF Returned, Connected, TypeOK
<1>6. CASE \E t \in Threads : UpdateStep(t)
  BY <1>6 DEF UpdateStep, Trim, Check, AddGuard, EventUpdated, HandlerRaises
<1>7. CASE EventThread
  BY <1>7 DEF EventThread, NewConsensus, TorLogs, CloseCircuit, CircEnded
<1>8. CASE Environment \/ UNCHANGED vars
  BY <1>8 DEF Environment, TorStarts, Drop, vars
<1> QED
  BY <1>1, <1>2, <1>3, <1>4, <1>5, <1>6, <1>7, <1>8 DEF Next, MainThread, OptionStep

\* What TypeOK says of the connection, the updates and the history.
ConnectionTypeOK ==
    /\ retry_limit \in RetryLimits /\ reconnects \in Nat
    /\ connected \in BOOLEAN /\ served \in BOOLEAN
    /\ tor \in {"down", "starting", "up"} /\ link \in {"none", "alive", "lost"}
    /\ attached \in 0..Len(AttachSteps)
    /\ _logguard \in {"unset", "none", "logs"}
    /\ width \in Nat
    /\ updating \in [Threads -> {"no", "trim", "check", "add", "write"}]
    /\ alone \subseteq Threads /\ overlap \in Nat
    /\ unsent \subseteq {"rendguard", "bandguards"}
    /\ drops \in 0..MaxDrops

LEMMA ConnectionType == ConnectionTypeOK /\ [Next]_vars => ConnectionTypeOK'
<1> SUFFICES ASSUME ConnectionTypeOK, [Next]_vars PROVE ConnectionTypeOK'
  OBVIOUS
<1> USE DEF ConnectionTypeOK, loopVars, historyVars, updateVars
<1>1. CASE OptionStep \/ StartLoop \/ ConnectFails \/ GoOn
  BY <1>1 DEF OptionStep, StartLoop, ConnectFails, GoOn
<1>2. CASE SetupRaises \/ SetupExits \/ ClosedInWatch
           \/ (\E saved \in BOOLEAN : OneShot(saved))
  BY <1>2 DEF SetupRaises, SetupExits, ClosedInWatch, OneShot
<1>3. CASE Attached
  BY <1>3 DEF Attached
<1>4. CASE Connect
  <2>1. 0 \in 0..Len(AttachSteps)
    BY AttachFacts
  <2> QED
    BY <1>4, <2>1 DEF Connect
<1>5. CASE Attach
  <2>1. attached' \in 0..Len(AttachSteps) /\ _logguard' \in {"unset", "none", "logs"}
    BY <1>5, AttachEffect
  <2> QED
    BY <1>5, <2>1 DEF Attach
<1>6. CASE Authenticate \/ NewConsensus
  <2>1. Begins(Main) \/ Begins(Event) \/ UNCHANGED updateVars
    BY <1>6 DEF Authenticate, NewConsensus
  <2>2. /\ updating' \in [Threads -> {"no", "trim", "check", "add", "write"}]
        /\ alone' \subseteq Threads /\ overlap' \in Nat
    <3>0. Main \in Threads /\ Event \in Threads
      BY Sizes DEF Main, Event, Threads
    <3>1. CASE Begins(Main)
      BY <3>0, <3>1, CountThreads DEF Begins, At
    <3>2. CASE Begins(Event)
      BY <3>0, <3>2, CountThreads DEF Begins, At
    <3>3. CASE UNCHANGED updateVars
      BY <3>3
    <3> QED
      BY <2>1, <3>1, <3>2, <3>3
  <2> QED
    BY <1>6, <2>2 DEF Authenticate, NewConsensus
<1>7. CASE MainUpdated \/ NeedsDescriptors
  BY <1>7 DEF MainUpdated, NeedsDescriptors, At
<1>8. CASE Returned
  <2>1. reconnects' \in Nat /\ connected' \in BOOLEAN
    BY <1>8 DEF Returned, Connected
  <2> QED
    BY <1>8, <2>1 DEF Returned
<1>9. ASSUME NEW t \in Threads, UpdateStep(t) PROVE ConnectionTypeOK'
  <2>1. /\ updating' \in [Threads -> {"no", "trim", "check", "add", "write"}]
        /\ alone' \subseteq alone /\ width' \in Nat
    BY <1>9, Sizes
    DEF UpdateStep, Trim, Check, AddGuard, EventUpdated, HandlerRaises, At
  <2> QED
    BY <1>9, <2>1 DEF UpdateStep, Trim, Check, AddGuard, EventUpdated, HandlerRaises
<1>10. CASE TorLogs \/ \E c \in Circs : \/ \E by \in {"rendguard", "bandguards"} : CloseCircuit(c, by)
                                        \/ CircEnded(c)
  <2>1. unsent' \subseteq {"rendguard", "bandguards"}
    BY <1>10 DEF TorLogs, CloseCircuit, CircEnded
  <2> QED
    BY <1>10, <2>1 DEF TorLogs, CloseCircuit, CircEnded
<1>11. CASE Environment
  <2>1. drops' \in 0..MaxDrops
    BY <1>11, LoopAssumption DEF Environment, TorStarts, Drop
  <2> QED
    BY <1>11, <2>1 DEF Environment, TorStarts, Drop
<1>12. CASE UNCHANGED vars
  BY <1>12 DEF vars
<1> QED
  BY <1>1, <1>2, <1>3, <1>4, <1>5, <1>6, <1>7, <1>8, <1>9, <1>10, <1>11, <1>12
  DEF Next, MainThread, EventThread, OptionStep

LEMMA MainTypeStep ==
    ASSUME TypeOK, AskedInv, AttributeInv, [Next]_vars
    PROVE  TypeOK'
<1>1. LogTypeOK'
  BY LogSteps, LogType DEF TypeOK
<1>2. OptionsTypeOK'
  BY OptionsKept, OptionsType DEF TypeOK, OptionStep, OptionsTypeOK
<1>3. ConnectionTypeOK'
  BY ConnectionType DEF TypeOK, ConnectionTypeOK
<1> QED
  BY <1>1, <1>2, <1>3 DEF TypeOK, ConnectionTypeOK

LEMMA MainInit == Init => TypeOK /\ MainInv
<1> SUFFICES ASSUME Init PROVE TypeOK /\ MainInv
  OBVIOUS
<1>1. OptionsTypeOK
  <2>1. Builtin["close_circuits"] \in BOOLEAN
    BY OptionsAssumption
  <2> QED
    BY <2>1, OptionsAssumption DEF Init, OptionsInit, OptionsTypeOK, Options
<1>2. LogTypeOK
  BY LogAssumption DEF Init, LogInit, LogTypeOK
<1>3. ConnectionTypeOK
  <2>1. 0 \in 0..Len(AttachSteps) /\ 0 \in 0..MaxDrops /\ 0..LayerSize \subseteq Nat
    BY AttachFacts, LoopAssumption
  <2> QED
    BY <2>1 DEF Init, ConnectionTypeOK
<1>4. AskedInv /\ PassesInv
  BY DEF Init, OptionsInit, AskedInv, PassesInv
<1>5. AttributeInv
  BY DEF Init, OptionsInit, AttributeInv, Hearing, BandClosesReach
<1>6. LinesInv
  BY DEF Init, LogInit, LinesInv, PostOfOwnTime
<1>7. ServedInv
  BY DEF Init, OptionsInit, ServedInv
<1> QED
  BY <1>1, <1>2, <1>3, <1>4, <1>5, <1>6, <1>7 DEF TypeOK, ConnectionTypeOK, MainInv

LEMMA MainStep == TypeOK /\ MainInv /\ [Next]_vars => TypeOK' /\ MainInv'
<1> SUFFICES ASSUME TypeOK, MainInv, [Next]_vars PROVE TypeOK' /\ MainInv'
  OBVIOUS
<1>1. TypeOK'
  BY MainTypeStep DEF MainInv
<1>2. AskedInv' /\ PassesInv' /\ ServedInv' /\ AttributeInv'
  BY AskedStep, PassesStep, ServedStep, AttributeStep DEF MainInv
<1>3. LinesInv'
  BY LogSteps, LinesStep DEF MainInv, TypeOK
<1> QED
  BY <1>1, <1>2, <1>3 DEF MainInv

-----------------------------------------------------------------------------
(* The theorems.                                                           *)

\* The inductive invariant, together with the types.
THEOREM MainInvariant == Spec => [](TypeOK /\ MainInv)
BY MainInit, MainStep, PTL DEF Spec

\* Whatever happens, the process is as TypeOK says: also that it has a status
\* exactly when it has ended.
THEOREM MainTypes == Spec => []TypeOK
BY MainInvariant, PTL

\* Options have the value the documented precedence gives them.
THEOREM PrecedenceAlways == Spec => []PrecedenceKept
<1>1. MainInv => PrecedenceKept
  BY DEF MainInv, PassesInv, PrecedenceKept, Kept
<1> QED
  BY <1>1, MainInvariant, PTL

\* No close that the bandwidth monitor wants fails for want of the attribute.
THEOREM BandClosesSent == Spec => []BandClosesReach
<1>1. MainInv => BandClosesReach
  BY DEF MainInv, AttributeInv
<1> QED
  BY <1>1, MainInvariant, PTL

\* Lines written as those after a close are from after the request.
THEOREM PostAlwaysOwn == Spec => []PostOfOwnTime
<1>1. MainInv => PostOfOwnTime
  BY DEF MainInv, LinesInv
<1> QED
  BY <1>1, MainInvariant, PTL

\* No recent line since a close is missing when the circuit has ended.
THEOREM LinesNotLost == Spec => OwnLinesWritten
<1>1. ASSUME TypeOK, MainInv, NEW c \in DOMAIN requested, CircEnded(c), Done("log_circ"),
             NEW k \in requested[c] + 1..lines, k > lines - LogLimit
      PROVE  \E w \in written' : w.line = k
  <2>1. Hearing
    BY <1>1, DoneFacts DEF TypeOK
  <2>2. \/ \E i \in 1..Len(log_buffer) : log_buffer[i] = k
        \/ \E w \in written : w.line = k
    BY <1>1, <2>1 DEF MainInv, LinesInv
  <2>3. written' = Dumped(c, "Post")
    BY <1>1 DEF CircEnded, LogEnded
  <2>4. ASSUME NEW i \in 1..Len(log_buffer), log_buffer[i] = k
        PROVE  \E w \in written' : w.line = k
    <3>1. i \in DOMAIN log_buffer
      BY <1>1 DEF TypeOK, LogTypeOK
    <3>2. [line |-> log_buffer[i], circ |-> c, when |-> "Post"] \in written'
      BY <2>3, <3>1 DEF Dumped
    <3> QED
      BY <2>4, <3>2
  <2>5. written \subseteq written'
    BY <2>3 DEF Dumped
  <2> QED
    BY <2>2, <2>4, <2>5
<1>2. TypeOK /\ MainInv /\ [Next]_vars =>
        [\A c \in DOMAIN requested : CircEnded(c) /\ Done("log_circ") =>
           \A k \in requested[c] + 1..lines :
             k > lines - LogLimit => \E w \in written' : w.line = k]_vars
  BY <1>1
<1> QED
  BY <1>2, MainInvariant, PTL DEF Spec, OwnLinesWritten

\* The exit status at the limit tells whether Tor was ever served.
THEOREM StatusTells == Spec => ExitTellsService
<1>1. ASSUME TypeOK, MainInv, Returned, pc' = "exited"
      PROVE  (exit' = 0) = served
  <2>1. served = Connected
    BY <1>1 DEF MainInv, ServedInv, Returned, Connected
  <2>2. exit' = IF Connected THEN 0 ELSE 1
    BY <1>1 DEF Returned, Exit, GoTo
  <2> QED
    BY <2>1, <2>2 DEF Connected
<1>2. TypeOK /\ MainInv /\ [Next]_vars =>
        [Returned /\ pc' = "exited" => (exit' = 0) = served]_vars
  BY <1>1
<1> QED
  BY <1>2, MainInvariant, PTL DEF Spec, ExitTellsService
=============================================================================
