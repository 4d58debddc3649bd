----------------------------- MODULE ControlLoop -----------------------------
(***************************************************************************)
(* The process, src/src/vanguards/main.py: its options, then connection    *)
(* after connection to Tor (control_loop), each with a first update of the *)
(* guards and then one listener after the other, until Tor is gone.        *)
(*                                                                         *)
(* Several threads share the VanguardState: the main thread, stem's event  *)
(* thread of the connection, and those of the connections before for as    *)
(* long as a handler of theirs goes on: nobody waits for them. An update   *)
(* of the layers is modelled by the steps in which it reads and writes the *)
(* list of layer 2; its other steps are in VanguardState.                  *)
(***************************************************************************)
EXTENDS Options, LogGuard

CONSTANTS
    RetryLimits,        \* what --retry_limit may be; 0 for no limit
    LayerSize,          \* NUM_LAYER2_GUARDS
    MaxDrops            \* bound: connections that are lost, updates that fail

ASSUME LoopAssumption ==
    /\ RetryLimits \subseteq Nat
    /\ LayerSize \in Nat \ {0} /\ MaxDrops \in Nat

\* The main thread, and the event threads, one for each time that Tor or its
\* connection was lost and one for the present.
Main == 0
Threads == 0..MaxDrops + 1

VARIABLES
    retry_limit,        \* options.retry_limit
    reconnects,         \* counted as long as there is a limit
    connected,
    tor,                \* Tor: it is down, has no descriptors yet, or is up
    link,               \* the control connection: none, alive, or lost
    attached,           \* how many of the steps of control_loop are done
    _logguard,          \* the attribute of the controller
    width,              \* the guards in layer 2 of the VanguardState
    updating,           \* thread -> where it is in an update
    alone,              \* history: threads whose update met no other one
    overlap,            \* history: the most others an update began beside
    unsent,             \* history: who had a circuit closed and lost the request
    served,             \* history: the process had all its listeners
    drops               \* history: for MaxDrops

loopVars == <<retry_limit, reconnects, connected, attached, _logguard>>
updateVars == <<width, updating, alone, overlap>>
historyVars == <<unsent, served>>
vars == <<pc, exit, optionVars, logVars, loopVars, tor, link, updateVars,
          historyVars, drops>>

\* Seeded fault: the attribute is only set when a log guard may be made.
AttachStepsLate ==
    <<"rendguard", "bandguards", "no_logguard", "logguard", "log_warn",
      "log_circ", "cbtverify", "pathverify", "consensus">>

\* The steps of control_loop after the first update.
AttachSteps ==
    <<"rendguard", "no_logguard", "logguard", "log_warn", "log_circ",
      "bandguards", "cbtverify", "pathverify", "consensus">>

Needed(step) ==
    CASE step = "rendguard" -> config["enable_rendguard"]
      [] step \in {"logguard", "log_warn", "log_circ"} -> config["enable_logguard"]
      [] step = "bandguards" -> config["enable_bandguards"]
      [] step = "cbtverify" -> config["enable_cbtverify"]
      [] step = "pathverify" -> config["enable_pathverify"]
      [] step = "consensus" -> config["enable_vanguards"] \/ config["enable_rendguard"]
      [] OTHER -> TRUE

Done(step) == \E k \in 1..attached : AttachSteps[k] = step /\ Needed(step)

TypeOK ==
    /\ OptionsTypeOK /\ LogTypeOK
    /\ retry_limit \in RetryLimits /\ reconnects \in Nat
    /\ connected \in BOOLEAN /\ served \in BOOLEAN
    /\ tor \in {"down", "starting", "up"} /\ link \in {"none", "alive", "lost"}
    /\ attached \in 0..Len(AttachSteps)
    /\ _logguard \in {"unset", "none", "logs"}
    /\ width \in Nat
    /\ updating \in [Threads -> {"no", "trim", "check", "add", "write"}]
    /\ alone \subseteq Threads /\ overlap \in Nat
    /\ unsent \subseteq {"rendguard", "bandguards"}
    /\ drops \in 0..MaxDrops

Init ==
    /\ OptionsInit /\ LogInit
    /\ retry_limit \in RetryLimits /\ reconnects = 0
    /\ connected = FALSE /\ served = FALSE
    /\ tor = "down" /\ link = "none"
    /\ attached = 0 /\ _logguard = "unset"
    /\ width \in 0..LayerSize
    /\ updating = [t \in Threads |-> "no"]
    /\ alone = {} /\ overlap = 0 /\ unsent = {} /\ drops = 0

-----------------------------------------------------------------------------
\* Updates of the layer, by any thread: consensus_update, replenish_layers, and
\* the file and Tor's options.

\* The event thread of the connection.
Event == drops + 1

Updating(t) == updating[t] # "no"
Others(t) == {u \in Threads \ {t} : Updating(u)}
At(t, from, to) == updating[t] = from /\ updating' = [updating EXCEPT ![t] = to]

\* One begins; it is alone if no other is under way, and no other is any more.
Begins(t) ==
    LET beside == Cardinality(Others(t))
    IN  /\ At(t, "no", "trim")
        /\ alone' = IF beside = 0 THEN {t} ELSE {}
        /\ overlap' = IF beside > overlap THEN beside ELSE overlap

\* Seeded fault: the list is not cut back.
TrimNever(t, kept) ==
    /\ At(t, "trim", "check")
    /\ kept <= width
    /\ width' = kept
    /\ UNCHANGED <<pc, exit, optionVars, logVars, loopVars, tor, link, alone,
                   overlap, historyVars, drops>>

\* Guards that are down go, and what is too many.
Trim(t, kept) ==
    /\ At(t, "trim", "check")
    /\ kept <= width /\ kept <= LayerSize
    /\ width' = kept
    /\ UNCHANGED <<pc, exit, optionVars, logVars, loopVars, tor, link, alone,
                   overlap, historyVars, drops>>

\* Seeded fault: a guard is added to a full layer as well.
CheckLax(t) ==
    /\ At(t, "check", IF width <= LayerSize THEN "add" ELSE "write")
    /\ UNCHANGED <<pc, exit, optionVars, logVars, loopVars, tor, link, width,
                   alone, overlap, historyVars, drops>>

Check(t) ==
    /\ At(t, "check", IF width < LayerSize THEN "add" ELSE "write")
    /\ UNCHANGED <<pc, exit, optionVars, logVars, loopVars, tor, link, width,
                   alone, overlap, historyVars, drops>>

AddGuard(t) ==
    /\ At(t, "add", "check")
    /\ width' = width + 1
    /\ UNCHANGED <<pc, exit, optionVars, logVars, loopVars, tor, link, alone,
                   overlap, historyVars, drops>>

\* The end of an update in an event thread, whatever comes of the file and of
\* the options: an exception, or the end of this thread.
EventUpdated(t) ==
    /\ t # Main
    /\ At(t, "write", "no")
    /\ alone' = alone \ {t}
    /\ UNCHANGED <<pc, exit, optionVars, logVars, loopVars, tor, link, width,
                   overlap, historyVars, drops>>

\* A call of the handler fails, as the connection is gone or Tor answers with an
\* error, or its arithmetic does: it ends where it is.
HandlerRaises(t) ==
    /\ t # Main /\ Updating(t)
    /\ updating' = [updating EXCEPT ![t] = "no"]
    /\ alone' = alone \ {t}
    /\ UNCHANGED <<pc, exit, optionVars, logVars, loopVars, tor, link, width,
                   overlap, historyVars, drops>>

-----------------------------------------------------------------------------
\* The main thread.

\* The options are known; nothing of what was asked for is read again.
StartLoop ==
    /\ pc = "run"
    /\ asked' = Nothing
    /\ GoTo("connect")
    /\ UNCHANGED <<config, _CLOSE_CIRCUITS, logVars, loopVars, tor, link,
                   updateVars, historyVars, drops>>

Connect ==
    /\ pc = "connect" /\ tor # "down"
    /\ link' = "alive"
    /\ attached' = 0 /\ _logguard' = "unset"
    /\ GoTo("authenticate")
    /\ UNCHANGED <<optionVars, logVars, retry_limit, reconnects, connected, tor,
                   updateVars, historyVars, drops>>

ConnectFails ==
    /\ pc = "connect" /\ tor = "down"
    /\ GoTo("failed")
    /\ UNCHANGED <<optionVars, logVars, loopVars, tor, link, updateVars,
                   historyVars, drops>>

\* authenticate_any, and the first update if it is needed.
Authenticate ==
    /\ pc = "authenticate" /\ link = "alive"
    /\ IF Needed("consensus")
       THEN GoTo("update") /\ Begins(Main) /\ UNCHANGED width
       ELSE GoTo("updated") /\ UNCHANGED updateVars
    /\ UNCHANGED <<optionVars, logVars, loopVars, tor, link, historyVars, drops>>

\* The state is written, and the options of Tor are set.
MainUpdated ==
    /\ pc = "update" /\ link = "alive"
    /\ At(Main, "write", "no")
    /\ alone' = alone \ {Main}
    /\ GoTo("updated")
    /\ UNCHANGED <<optionVars, logVars, loopVars, tor, link, width, overlap,
                   historyVars, drops>>

\* stem.DescriptorUnavailable, before anything is changed.
NeedsDescriptors ==
    /\ pc = "update" /\ tor = "starting"
    /\ At(Main, "trim", "no")
    /\ alone' = alone \ {Main}
    /\ link' = "none"
    /\ GoTo("failed")
    /\ UNCHANGED <<optionVars, logVars, loopVars, tor, width, overlap, historyVars,
                   drops>>

\* --one_shot_vanguards; Tor can, or cannot, save its own configuration.
OneShot(saved) ==
    /\ pc = "updated" /\ config["one_shot_vanguards"]
    /\ link = "alive"
    /\ Exit(IF saved THEN 0 ELSE 1)
    /\ UNCHANGED <<optionVars, logVars, loopVars, tor, link, updateVars,
                   historyVars, drops>>

GoOn ==
    /\ pc = "updated" /\ ~config["one_shot_vanguards"]
    /\ GoTo("attach")
    /\ UNCHANGED <<optionVars, logVars, loopVars, tor, link, updateVars,
                   historyVars, drops>>

\* One step after the other. All but the attribute need the connection.
Attach ==
    LET step == AttachSteps[attached + 1]
    IN  /\ pc = "attach" /\ attached < Len(AttachSteps)
        /\ Needed(step) /\ step # "no_logguard" => link = "alive"
        /\ attached' = attached + 1
        /\ _logguard' = IF ~Needed(step) THEN _logguard
                        ELSE CASE step = "no_logguard" -> "none"
                               [] step = "logguard" -> "logs"
                               [] OTHER -> _logguard
        /\ IF Needed(step) /\ step = "logguard" THEN NewLogGuard ELSE UNCHANGED logVars
        /\ UNCHANGED <<pc, exit, optionVars, retry_limit, reconnects, connected,
                       tor, link, updateVars, historyVars, drops>>

Attached ==
    /\ pc = "attach" /\ attached = Len(AttachSteps)
    /\ GoTo("watch")
    /\ served' = TRUE
    /\ UNCHANGED <<optionVars, logVars, loopVars, tor, link, updateVars, unsent,
                   drops>>

\* A request fails, over a connection that is gone or with an error of Tor, or the
\* update raises: an exception nobody catches.
SetupRaises ==
    /\ pc \in {"authenticate", "update", "updated", "attach"}
    /\ Exit(1)
    /\ UNCHANGED <<optionVars, logVars, loopVars, tor, link, updateVars,
                   historyVars, drops>>

\* The wrong password, or a state file that cannot be written.
SetupExits ==
    /\ pc = "authenticate" \/ updating[Main] = "write"
    /\ Exit(1)
    /\ UNCHANGED <<optionVars, logVars, loopVars, tor, link, updateVars,
                   historyVars, drops>>

\* Seeded fault: a lost connection is only noticed when Tor is gone.
ClosedInWatchWithTor ==
    /\ pc = "watch" /\ link = "lost" /\ tor = "down"
    /\ GoTo("closed")
    /\ UNCHANGED <<optionVars, logVars, loopVars, tor, link, updateVars,
                   historyVars, drops>>

ClosedInWatch ==
    /\ pc = "watch" /\ link = "lost"
    /\ GoTo("closed")
    /\ UNCHANGED <<optionVars, logVars, loopVars, tor, link, updateVars,
                   historyVars, drops>>

\* Seeded fault: it is the last attempt that counts.
ConnectedLast == pc = "closed"

\* Was Tor served, this time or before?
Connected == connected \/ pc = "closed"

\* control_loop returned. It waits for no handler: one that is not done yet goes
\* on beside the next connection.
Returned ==
    LET tries == IF retry_limit = 0 THEN 0 ELSE reconnects + 1
    IN  /\ pc \in {"closed", "failed"}
        /\ connected' = Connected
        /\ reconnects' = tries
        /\ IF retry_limit # 0 /\ tries >= retry_limit
           THEN Exit(IF Connected THEN 0 ELSE 1)
           ELSE GoTo("connect")
        /\ link' = "none"
        /\ UNCHANGED <<optionVars, logVars, retry_limit, attached, _logguard, tor,
                       updateVars, historyVars, drops>>

-----------------------------------------------------------------------------
\* The event thread, which handles one event after the other.

Handling == pc # "exited" /\ link = "alive" /\ ~Updating(Event)

NewConsensus ==
    /\ Handling /\ Done("consensus")
    /\ Begins(Event)
    /\ UNCHANGED <<pc, exit, optionVars, logVars, loopVars, tor, link, width,
                   historyVars, drops>>

TorLogs ==
    /\ Handling
    /\ LogLine(Done("logguard"))
    /\ UNCHANGED <<pc, exit, optionVars, loopVars, tor, link, updateVars,
                   historyVars, drops>>

\* A handler decides to close a circuit. try_close_circuit asks for the
\* attribute _logguard first: there is none yet, and the handler ends there.
CloseCircuit(c, by) ==
    /\ Handling /\ Done(by) /\ c \notin ended
    /\ IF _logguard = "unset"
       THEN unsent' = unsent \union {by} /\ UNCHANGED logVars
       ELSE LogClose(c, _CLOSE_CIRCUITS, _logguard = "logs") /\ UNCHANGED unsent
    /\ UNCHANGED <<pc, exit, optionVars, loopVars, tor, link, updateVars, served,
                   drops>>

\* CLOSED or FAILED, because it was requested: by the program or by another.
CircEnded(c) ==
    /\ Handling /\ c \notin ended
    /\ LogEnded(c, Done("log_circ"))
    /\ UNCHANGED <<pc, exit, optionVars, loopVars, tor, link, updateVars,
                   historyVars, drops>>

-----------------------------------------------------------------------------
\* Tor.

TorStarts ==
    /\ tor # "up"
    /\ tor' = IF tor = "down" THEN "starting" ELSE "up"
    /\ UNCHANGED <<pc, exit, optionVars, logVars, loopVars, link, updateVars,
                   historyVars, drops>>

\* Tor stops, or the control connection alone does.
Drop(state) ==
    /\ drops < MaxDrops /\ drops' = drops + 1
    /\ state = "down" \/ link = "alive"
    /\ tor # "down"
    /\ tor' = state
    /\ link' = IF link = "alive" THEN "lost" ELSE link
    /\ UNCHANGED <<pc, exit, optionVars, logVars, loopVars, updateVars,
                   historyVars>>

-----------------------------------------------------------------------------

MainThread ==
    \/ OptionsNext /\ UNCHANGED <<logVars, loopVars, tor, link, updateVars,
                                  historyVars, drops>>
    \/ StartLoop \/ Connect \/ ConnectFails \/ Authenticate \/ MainUpdated
    \/ NeedsDescriptors \/ (\E saved \in BOOLEAN : OneShot(saved)) \/ GoOn
    \/ Attach \/ Attached \/ SetupRaises \/ SetupExits \/ ClosedInWatch \/ Returned

UpdateStep(t) ==
    /\ pc # "exited"
    /\ \/ \E kept \in 0..LayerSize + 1 : Trim(t, kept)
       \/ Check(t) \/ AddGuard(t) \/ EventUpdated(t) \/ HandlerRaises(t)

EventThread ==
    \/ NewConsensus \/ TorLogs
    \/ \E c \in Circs : \/ \E by \in {"rendguard", "bandguards"} : CloseCircuit(c, by)
                        \/ CircEnded(c)

\* Tor is looked at from the first attempt to connect on, when it may be up.
OptionSteps == {"default_file", "parse", "given_file", "reparse", "run"}

Environment ==
    pc \notin OptionSteps \union {"exited"}
      /\ (TorStarts \/ \E state \in {"down", tor} : Drop(state))

Next == MainThread \/ (\E t \in Threads : UpdateStep(t)) \/ EventThread \/ Environment

Spec == Init /\ [][Next]_vars

FairSpec == Spec /\ WF_vars(MainThread) /\ \A t \in Threads : WF_vars(UpdateStep(t))

-----------------------------------------------------------------------------
\* Properties of the updates.

\* What updates that overlap can do to the layer: each finds it short, and each
\* fills it up. It has at most one guard too many for every update that one began
\* beside, at the worst time of the process: no thread waits for another, but
\* what one meeting left over is not added to by the next.
LayerBounded == width <= LayerSize + overlap

\* An update that meets no other leaves the layer exactly as large as it should
\* be, also when an earlier one left it too large.
AloneExact ==
    [][\A t \in alone : updating[t] = "write" /\ updating'[t] = "no" /\ pc' # "exited"
         => width' = LayerSize]_vars

-----------------------------------------------------------------------------
\* Properties of the closing of circuits and of the log.

\* "We check for None in control.try_close_circuit()" (main.py:151): a close that
\* the bandwidth monitor wants is never lost because there is no attribute yet.
\* The rendezvous guard, whose listener is there before the attribute, can lose
\* one.
BandClosesReach == "bandguards" \notin unsent

\* "This lets us emit post-close logs that may be relevant" (logguard.py:86): what
\* is written as the log after a close is from after the request, although
\* lines, requests and ends of several circuits mix.
PostOfOwnTime ==
    \A w \in written :
      w.when = "Post" /\ w.circ \in DOMAIN requested => w.line > requested[w.circ]

\* When a circuit ends that the program had closed, every line since then has
\* been written, for this circuit or another, but for lines older than the limit.
OwnLinesWritten ==
    [][\A c \in DOMAIN requested : CircEnded(c) /\ Done("log_circ") =>
         \A k \in requested[c] + 1..lines :
           k > lines - LogLimit => \E w \in written' : w.line = k]_vars

-----------------------------------------------------------------------------
\* Properties of the process.

\* The limit ends the process with status 0 exactly when Tor was served at some
\* time: also when the last attempts all failed, or when none did and it was the
\* returns from service that used up the attempts.
ExitTellsService ==
    [][Returned /\ pc' = "exited" => (exit' = 0) = served]_vars

\* A Tor that stays up is served again, or the process has ended: whatever was
\* lost while connecting, updating or adding listeners, and whatever handler is
\* still at work for the connection before.
ServedAgain ==
    <>[](tor = "up") => <>[](pc = "exited" \/ (pc = "watch" /\ link = "alive"))
=============================================================================
