# TLA+ specifications of vanguards

The vanguards add-on talks to a Tor daemon over its control port. It pins two
layers of guard relays for onion service circuits, and watches rendezvous
points, circuit bandwidth, connections, circuit build timeouts and paths. These
modules specify its parts and how they are put together, TLC checks them on small
instances, and TLAPS proves the central properties for all values of the
constants. Paths below are
relative to the repository; `vanguards.py` without a directory is
`src/vanguards/vanguards.py`.

To check: `tlc -config MCVanguardOne.cfg MCVanguardState` (each `.cfg` names
its module in the table of runs), `tlapm VanguardStateProofs.tla`.

## 1. Inventory of the system

The program is one process with two threads that matter: the main thread, which
connects, runs the first consensus update, adds listeners and then only waits
for the connection to end; and stem's event thread, which hands events to the
listeners one after the other. "Thread-safety: state, timeouts, and bandwidths
are effectively transferred to the event thread here" (`main.py:139`). When a
connection ends while a handler runs, its thread is a third one, beside the main
thread that connects again.

| Component | State | Operations | Talks to |
|---|---|---|---|
| Main, control loop (`main.py`) | the state object, the controller, reconnect counter | start, connect, first update, add listeners, reconnect | all others; Tor |
| Vanguard state (`vanguards.py`) | layers 2 and 3, the state file | NEWCONSENSUS, SIGNAL RELOAD, `configure_tor`, save, load | Tor (SETCONF, GETCONF, GETINFO), disk, node selection, rendezvous guard |
| ExcludeNodes (`vanguards.py:52`) | what Tor's option describes | parse, `router_is_excluded` | Tor (country lookups) |
| Node selection (`NodeSelection.py`) | filtered routers and their weights | construct, `generate`, `repair_exits` | vanguard state |
| Rendezvous guard (`rendguard.py`) | use counts per relay, their total | CIRC BUILT, `xfer_use_counts` | control (close a circuit), state file |
| Bandwidth guards (`bandguards.py`) | circuits, live connections, per-guard records, outages | ORCONN, CIRC, CIRC_MINOR, CIRC_BW, BW, NETWORK_LIVENESS | control |
| Circuit build timeout monitor (`cbtverify.py`) | circuits that are being built, six counters | CIRC, BUILDTIMEOUT_SET | log only |
| Path verifier (`pathverify.py`) | layer-1 connections and uses, the layers Tor announced | ORCONN, GUARD, CONF_CHANGED, CIRC, CIRC_MINOR | log only |
| Log guard (`logguard.py`) | a bounded buffer of Tor's log lines | log events, dump before and after a close | log, control |
| Control (`control.py`) | `_CLOSE_CIRCUITS` | authenticate, consensus weights, `try_close_circuit` | Tor, log guard |
| Configuration (`config.py`) | options of all modules | apply files, command line, write a file | all others |
| Logger (`logger.py`) | log level and destination | `plog` | - |

Shared state: the rendezvous counts are a field of the pickled vanguard state;
`controller._logguard` is set by the control loop between two listeners;
`configure_tor` is called by two handlers and, for the first update, by the main
thread; the state file and Tor's own configuration outlive the process.

What is hard, and what makes each component correct:

* *Vanguard state.* An update takes many steps, among which it asks Tor, sets
  two options, truncates a file and fills it. Tor may adopt another consensus,
  be told to reload its configuration, or go away, the process may be killed,
  and calls may fail at every one of them. Correct means: complete layers of
  listed, non-excluded relays, none twice; Tor, memory and disk agree whenever
  the process waits; no guard is given up without a rule, for that is what the
  design protects; and every consensus and every reload is followed up.
* *Rendezvous guard.* Halvings, relays that leave and return, and the bucket
  shared by unlisted relays interleave with uses. Correct means: the total is the
  sum of the counts, shares survive a halving, the check stays armed, and a relay
  is only acted against on its own record.
* *Bandwidth guards.* Five kinds of events about the same circuits and
  connections, some of which existed before anybody listened; connection
  identifiers that are made up and later resolved by guard; clocks of outages
  started by one handler, stopped by others, read by a heartbeat. Correct means:
  the records agree with Tor, outages are noticed and real, circuits over a limit
  are closed, a closed connection is counted once.
* *Circuit build timeout monitor.* RESET and COMPUTED cut through the life of
  circuits. Correct means: counters and map agree.
* *Node selection.* Weighted choice with its boundary draws, and weights of
  exits renormalised apart. Correct means: proportionality.
* *Path verifier.* It asks Tor for its state, and adds its listeners later, one at
  a time, while Tor goes on; events wait in a queue. Correct means: what it knows
  is what Tor has, and a circuit is warned of for what was wrong with it when it
  was built.
* *Log guard.* A bounded buffer that is emptied by the dump before a close and by
  the one after it, for several circuits at once. Correct means: lines since a
  close are written, and not passed off as lines of another time.
* *Configuration.* Two files, the environment and two passes over the command line
  overwrite each other. Correct means: the documented precedence.
* *Main and control loop.* Tor may go away between any two requests; listeners are
  called before the next one is there; updates of two threads meet. Correct means:
  a Tor that stays up is served again, the exit status tells what happened, and
  no close, guard or log line is lost on the way.

Every hazard, with its line and the property that covers it, is in
`PROJECT.json` under `hazards`.

## 2. Modules, and how they correspond to the code

`PROJECT.json` maps every definition to the lines it stands for. Definitions
introduced as "Seeded fault" are not part of any specification: each is a
plausible bug that one of the properties must reveal when it takes the place of
the definition below it.

| Module | Models | Built on |
|---|---|---|
| RendGuard | rendezvous guard | - |
| RendRecord | the uses that its counts stand for (a history) | RendGuard |
| VanguardState | layers, state file, Tor's options, the process through crashes | RendGuard; implements GuardStore |
| GuardStore | what a keeper of pinned guards promises (abstract) | - |
| NodeSelection | weighted choice | - |
| CbtVerify | circuit build timeout monitor | - |
| BandGuards | bandwidth guards | implements OutageDetector, twice |
| OutageDetector | what the monitor promises of an outage (abstract) | - |
| PathVerify | path verifier, stem's queue, the listeners one by one | - |
| Options | configuration | - |
| LogGuard | log guard and `try_close_circuit` | - |
| ControlLoop | main, control loop, threads | Options, LogGuard |
| VanguardStateProofs, RendGuardProofs, RendRecordProofs, NodeSelectionProofs, CbtVerifyProofs, BandGuardsProofs, PathVerifyProofs, ControlLoopProofs | theorems | their modules, TLAPS |
| MC* | instances for TLC | their modules |

### RendGuard

`RendCircEvent` is `circ_event` with `valid_rend_use`; `XferUseCounts` is
`xfer_use_counts`. Floats are integers: a count `n` stands for `n/Grain` uses,
so that halving is exact as long as `Halvable`, and a weight for a fraction of
`WeightUnit`. `closed` is the relay whose circuit the last event asked to close.
`xfer_use_counts` builds the new table in place and divides by two totals; when
one of them is 0 (`divisible` of the consensus is FALSE) the exception leaves the
entries without uses beside the old total: `XferFails`. `halfway` is the history of
that, until a transfer gets through. `RendRecord` adds the history `since`, the uses of a bucket since it last
entered the table, and `ClosedOnOwnRecord`, which needs it. The total of a table
of counts is a number of elements, that of the set which has one for each use
(`Marks`).

### VanguardState (extends RendGuard)

A consensus update is a program counter `pc`:

| `pc` | Code |
|---|---|
| `fetch` | `new_consensus_event` up to the generator (`vanguards.py:203-222`, `164-171`) |
| `prune` | `remove_down_from_layer`, `remove_expired_from_layer`, both layers |
| `exclude` | `remove_excluded_from_layer`, both layers, and the trim in `replenish_layers` |
| `replenish` | `add_new_layer2`, then `add_new_layer3`, one guard a step |
| `xfer` | an update with vanguards disabled: only the rendezvous counts |
| `set2`, `set3` | `configure_tor` (`job` says who called it) |
| `open`, `dump` | `open(..., "wb")`, which truncates, and the pickle |
| `register` | the rest of `control_loop` (first update only) |

`proc` is the life of the process: `connecting` and `starting` while the main
thread runs the first update, `serving` once the listeners are added, `deaf`
when `sys.exit` has ended the event thread, `down`. An exception ends the
process on the main thread and is swallowed by stem on the event thread
(`HandlerRaises`); so does `sys.exit`, except that it ends the event thread
(`HandlerExits`). Any call to Tor may fail, with the connection gone or alive
(`CallFails`): of stem's errors `configure_tor` catches `InvalidArguments` only
(`SetRejected`), and nothing catches the others (`FetchFails`, `LookupFails`,
`SetFails`) or the division by zero of the rendezvous counts (`UpdateFails`). The environment adopts consensuses, reloads Tor's
configuration (which undoes what was set over the control port), breaks the
connection, restarts Tor and kills the process at every step. Three history
variables serve the properties: `missed` (events nobody was told of, or whose
handling failed, and `SET` and `SAVE` for what an update that failed after it had
changed the layers did not do, until an update gets through), `dropped` (guards removed by a rule since the last dump) and
`lost` (started without a readable state file).

Abstractions: a layer is a set of guards (the order is only used by the trim,
which keeps the oldest: `Trimmed`, ties open); a relay that is excluded is a
member of a set that is read once; the rendezvous guard is on; one-shot mode and
the layer-1 options are left out; an event that is queued when the connection
ends is dropped; `Reconnect` waits for the handler that runs; lifetimes are
whole units of the clock.

### GuardStore

The abstract specification of the guards: `pinned`, what is kept, and `saved`, what
of it survives the process. Guards are given up when a rule names them, or by a
layer with too many, which keeps its oldest (`GiveUp`); a layer with too few takes
one of another relay that no rule names (`Take`); a new copy is written, before
which the old one is gone (`Tear`, `Save`); and the process ends (`Lose`). The
relays that are barred, the widths and the clock are inputs. In VanguardState
`Store` instantiates it: `saved` is the layers of the state file, nothing when it
cannot be read, and `pinned` is `layer`, or `saved` while there is no process. A
start is a stutter then: it must load just what the file has. Every other handler
and outside event is one of the five steps or a stutter.

### NodeSelection

`Construct` is the constructor with `rebuild`; `Draw`, `Accumulate` and `Yield`
are the loop of `generate`, indices starting at 1; `RepairExits` is
`repair_exits`, and `StartXfer` with `WeighNext` the loop of `xfer_use_counts` over
the generator, which divides by its totals. Where the repair finds no node that
its restriction leaves, or the loop divides by zero, the `phase` is `failed` or
`raised`. Weights and draws are integers. A sum of weights is a number of
elements, as in RendGuard: `Marks` has one for every unit of every weight. `InOrder`
enumerates the indices of the routers that the restriction leaves. The rounding of floats, which
could run the loop past the list, is not represented.

### CbtVerify

One action per status of a CIRC event, moving the circuit in Tor (`stage`) and
calling the method the code calls; `Computed` and `Reset` are `cbt_event`.
`Init` lets circuits exist that were launched before the listeners. `carried`
is the set of circuits in the map at the last RESET.

### BandGuards

One action per kind of event, each the whole handler. Tor's side is `conn`
(connections with their real identifiers), `tor` (circuits, with Tor's own
account of their age and cells) and `closing` (circuits it was asked to
close). `Init` is the constructor on a Tor that may be running for long:
connections in the order Tor lists them get made-up identifiers, circuits are not
asked for. `EntryOf` is the fixup. An event is handled in the second in which
it is posted. `0` means "never" as in the code, which is why the clock starts
above `DestroyLag`. A made-up identifier may be the real one of a connection
(`MadeUp`), on a Tor that was started a moment ago; nothing in the code tells them
apart. Bytes are
counted in cells, the age limit in units of the clock. Left out, since no
handler depends on it for more than a log line: `network_down_since`,
`conns_made`, `close_reasons`, `is_service`, `circs_destroyed_total`.
Closing of circuits (`_CLOSE_CIRCUITS`) is on; ControlLoop has both cases.

### OutageDetector

The abstract specification of an outage: it begins, ends, is reported when it has
lasted as long as the limit, and time passes. `ConnDetector` and `CircDetector` in
BandGuards instantiate it with the variables `no_conns_since` and
`disconnected_conns`, and `no_circs_since` and `disconnected_circs`; every other
event of the monitor is a stutter, or one of these steps.

### PathVerify

`done` counts the steps `control_loop` takes about the verifier (`Steps`): the
two questions of `_layers_init`, that of `_orconn_init`, a listener per event
type, and the NEWNYM. The queue is stem's: an event is read if any listener of
the process, or stem itself, asked for its type (`Subscribed`), and is handed to
the verifier if its listener is there when the event has its turn (`Handle`), else
it is gone (`Unheard`). The handlers are `orconn_event` (with `AddConn`,
`DelConn`), `guard_event`, `conf_changed_event`, `circ_event`, `circ_minor_event`;
`Built` and `Extended` are what the code warns of. Tor's side is its connections,
its two options, and the layer it uses while `HSLayer2Nodes` is unset. A SIGHUP
announces the options that were set (`Unset`). Such an option is not among
`event.changed`, or is there without a value, as the comment at `pathverify.py:163`
has it: then the layer becomes the set of the empty name, `Blank`.

`drift` is the history variable of the exceptions: the guards and layers the
verifier may be wrong about, because an event was lost between the answer to a
question and the listener, or handled although the answer knew of it, because
orconn-status lists a connection before it is up, because a failed attempt is
taken for the end of another connection, because an option is not set (then
Tor's layers cannot be asked for, and the event of an option that is unset later
does not empty the layer), or because an option changed between `get_conf` and
the listener. Every property says what is exact outside of `drift`. Left out:
notices about numbers of connections and uses, and warnings of switched
purposes, which change nothing.

### Options, LogGuard and ControlLoop

`Options` is the beginning of `run_main` with `apply_config` and `setup_options`:
the default file (`DefaultFile`), the command line (`SetupOptions`), the file
named on it (`GivenFile`), the command line again. `asked` is what is there to be
read. `ParserDefault` is what argparse puts in place of a switch that is not
given; of two of them it has a default of its own, which is how those lose what
a file says. `_CLOSE_CIRCUITS` is the copy in `control.py`.

`LogGuard` numbers Tor's lines; `LogClose` is `try_close_circuit`, `LogEnded`
the handler of a circuit that ended. `written` and `requested` are histories.

`ControlLoop` is the rest: `pc` is where the main thread is, from `connect` over
`authenticate`, `update`, `attach` (the steps of `control_loop` in `AttachSteps`,
of which `attached` are done) to `watch`, and back with `closed` or `failed`,
which stand for the two kinds of results of `control_loop`. `link` is the control
connection, `tor` the daemon, which has no descriptors while it is `starting`.
The steps of an update that read and write the list of layer 2 are those of the
loop in `replenish_layers`: cut back (`Trim`), look at the length (`Check`), add
(`AddGuard`), and the rest (`write`). They interleave for the main thread, the
event threads of all connections there were (`Threads`): the main thread never
waits for one, so any number of handlers may outlive their connections. `overlap`
is the history of how many others an update began beside, at most. Everything else
about updates is in VanguardState, where one handler runs at a time. In
VanguardState `Reconnect` waits for that handler; here it does not.

## 3. Runs

| Run | Module, cfg | Question |
|---|---|---|
| rendguard | MCRendGuard (RendRecord) | Do total, shares and arming survive uses, halvings and departures in any order, and is a circuit only closed on the record of its own relay? |
| vanguards_one | MCVanguardState, MCVanguardOne | Do process, Tor and disk agree, is no guard given up without a rule, is every reload followed up, and does every relay that is down leave Tor's layers, under consensus changes, SIGHUP, disconnects, crashes and failed calls? |
| vanguards_change | MCVanguardState, MCVanguardChange | Is a restored layer brought to a new width and complete, is the process a store of pinned guards on the way (hence no relay is in a layer twice), and are the rendezvous counts well formed through restarts, disabled vanguards and unusable consensuses? |
| cbtverify | MCCbtVerify | Do counters and map agree under every order of stages, RESET and COMPUTED? |
| nodeselection | MCNodeSelection | Is the choice proportional, are the weights of rendezvous points probabilities, and which consensuses does their division by zero take? |
| band_conns | MCBandGuards, MCBandConns | Are outages noticed and reported, with inherited connections as well, and is the monitor of connections an outage detector? |
| band_circs | MCBandGuards, MCBandCircs | Is one closure one kill at most, is a reported outage of circuits real, are circuits closed at the age limit, and is the monitor of circuits an outage detector? |
| band_limits | MCBandGuards, MCBandLimits | Is the account of a circuit exact, and is it closed at the report that takes it over a limit? |
| pathverify | MCPathVerify | Is what the verifier knows what Tor has, and is a circuit judged by what was so when it was built? |
| main | MCMain | From the options to the end of the process: precedence, updates by several threads, closes and log lines while listeners come and go, exit status, and service of a Tor that stays up. |

Two further runs check what a document or a comment of the repository says
and the code does not do; TLC finds the counterexample (`findings` in
`PROJECT.json` quotes the lines):

* `vanguards_disabled` (MCDisabled): a SIGHUP sets the layers although vanguards
  are disabled.
* `main_options` (MCOptions): options of the example configuration that have no
  effect in a file. The first pass over the command line overwrites
  `enable_bandguards` (`config.py:119`) and `one_shot_vanguards` (`config.py:107`)
  by defaults of argparse, and the section of the log guard is read for the
  options of another module (`config.py:230`).

The models also have behaviours that the properties name as their exceptions:

* a crash between truncation and dump costs all guards (`lost` in `GuardsKept`);
* a SIGHUP before the last listener is added is missed (`missed` in `TorMatches`);
* an error of Tor that is not `InvalidArguments`, or a division by zero, ends the
  handler of a process that goes on serving. When it comes after the first change
  of the layers, these are neither set in Tor nor saved until the next consensus
  (`Unset` in `TorMatches`, `SAVE` in `DiskMatches`), and a reload that fails like
  this is not followed up (`ReloadReapplied`);
* a transfer of the rendezvous counts that divides by zero leaves the total above
  the sum (`halfway` in `TotalIsSum`), in memory only: `WholeInv` says that such
  counts never get into the file;
* `sys.exit` in a handler, as when the state file cannot be written, ends the
  event thread and leaves a process that hears nothing more (`deaf` in the
  liveness properties of VanguardState);
* with connections from before the monitor, a failed attempt may take the entry of
  a listed connection, and an outage is then reported while Tor is connected
  (`inherited` in `LiveExact`; `NoSilentOutage` holds all the same);
* with a connection whose own identifier was made up for another one the monitor
  may mix up the two, and even overlook an outage (`MadeUp` in `NoSilentOutage` and
  `LiveExact`);
* circuits from before the listeners escape the age limit until their next
  event, and dropped cells on circuits that are not built are only logged
  (`Watched` and `MustClose` in BandGuards);
* a circuit from before a RESET takes `all_launched` below zero (`carried` in
  `CountersAgree`);
* the six causes of `drift` in PathVerify;
* a close that the rendezvous guard wants before the attribute `_logguard` is set
  ends in an exception and is lost (`unsent`; `BandClosesReach` shows that those of
  the bandwidth monitor are not);
* updates that run at once leave a layer too large, by as many guards as others
  were under way when one began (`LayerBounded`), until an update that is alone
  (`AloneExact`). The comment at `main.py:139` has the state handed over to the
  event thread for good; after a reconnection the main thread updates it again.

Bounds. Three relays and layers of one or two guards are enough for a layer to
lose a guard by each rule and to find another one, with one relay left to choose
or none. vanguards_one takes the two relays of `MCPair` and layers of one guard
instead, for three `MaxDisturbances`, which let any three outside events or errors
of Tor over a connection that is alive meet at any steps (a crash in the update that
a SIGHUP interrupts, and a consensus after the restart); vanguards_change has two of
them, and layers that change their width, at a single moment of the clock (that a
trim keeps the oldest guards, and that a guard is given up when it expires, is part
of the proof of `GuardsPinned` for any clock); the guards of layer 2 have one of two
lifetimes, so that a relay taken twice would be two guards. Each of the runs has a
consensus whose rendezvous weights cannot be divided. `MaxQueue` of two lets a
reload wait behind a consensus. In RendGuard `ScaleAt` is
passed twice within `MaxUses`, and one of two relays leaves and returns; `MCBound`
stops TLC where a halving would not be exact. In CbtVerify three circuits
separate those carried over a RESET, those launched since, and those passed
over. Bandwidth guards have two guards and three connections, which is the
least at which one guard has a listed, a new and a failed connection; one of the
identifiers (`ConnIds`) is also made up when the list is long enough, the others are
not. The clock runs past every limit; in band_circs, `MCFewConns` (a state constraint)
confines a second connection to the first two seconds, since that run is about
circuits. In PathVerify two guards with two connections, or two changes of the
layers (`MaxChanges`), or a change and a circuit (`MaxCircs`) meet at every step
of the constructor and the listeners; `MCFew` keeps all of them from happening
in one behaviour, and `MaxQueue` of two lets an event wait behind one that an
answer already knew of. In MCMain a file has one line and a command line up to
two switches, which is enough for any two sources of an option to disagree; two
connections may be lost (`MaxDrops`), so that the handlers of both may meet the
update of the third; the layer has one guard; two circuits and three lines with a buffer of two let a line
be given up, and dumps for both circuits mix. `MCFewLines` confines circuits and
lines to the first connection and to times without an update, which they do not
depend on, `MCOneState` follows the loop for one of the two state files, and
`MCLosses` follows it after a loss for one value of the options that only the
closing of circuits reads. None of the constraints cuts off a step that fairness is about. All other bounds
(`MaxTime`, `MaxCells`, `MaxRouters`) are constants named as bounds in the
modules. Symmetry is used over circuits, and in PathVerify over guards, relays
and connections, in runs without liveness only.

`CHECK_DEADLOCK FALSE` is set in the runs of VanguardState and PathVerify, where
an idle process waits for ever when the bounds let nothing more happen in Tor, in
main, where the process ends, and in that of NodeSelection, whose generator is
simply not used any more.

Fairness. VanguardState assumes weak fairness of `HandlerStep`: a thread that
runs a handler goes on, and an idle event thread takes the next event, which
needs nothing but the scheduler. Nothing is assumed of the environment, of
the reconnect loop, or of which of the possible outcomes of a call occurs.
BandGuards assumes weak fairness of `BwEvent`, which Tor posts every second.
ControlLoop assumes weak fairness of `MainThread`, whose loop has no other wait than
the one for the end of the connection and a pause of a second, and of
`UpdateStep` for each thread: a handler goes on, also on a connection that is gone.
Nothing is assumed of Tor there either; `ServedAgain` is about one that stays up
from some time on.

## 4. What is proved

TLAPS checks every proof for all values of the constants that satisfy the named
assumptions (finitely many relays or circuits, lifetimes and bounds in `Nat`,
consensuses whose usable relays are listed). Every
safety and action property of the passing runs is stated by a theorem: 37 of the 41
properties, the others being liveness.

*VanguardStateProofs.* `TypeCorrect`: the type invariant. `NeverTwice`,
`LookupsNeverFail`, `UpdatesComplete`: no duplicates in a layer; the lookup in
the index of the routers is always defined; from the end of an update to the end
of its handler the layers are exactly as large as configured and hold only
listed, non-excluded relays. None of the three is inductive. They are conjuncts
of `LayersInv`, which adds what carries them: the state file holds no relay twice
(a restart begins with it), layers and files are finite, an update that
replenishes has removed what had to go and is not above the configured size, and
an update with vanguards disabled never reaches the phases about layers. The
proof goes through groups of actions: those that leave the layers alone
(`QuietStep`), loading, failing, writing, pruning, trimming, adding, finishing.

Two more invariants of the same module stand on these.

* `CountsInv`: the counts in memory and those in the state file are well formed and
  have the total that goes with them (`StateTypes`, `TotalStaysSum`). The file is
  part of it because a restart takes both from there; the steps in between are
  lemmas of RendGuardProofs. `WholeInv` says that the handler has a transfer behind
  it that got through wherever it may write the file, so that the counts of one that
  failed stay in memory.
* `AgreeInv`: process, Tor and file. `SavedInv` says in which phases the file holds
  what memory holds (`WaitsSaved`), `SetInv` in which of them Tor uses the layers
  or, in `set3`, the first of them, unless a reload is queued or was missed
  (`WaitsSet`), both but for the marks that a failed handler leaves
  (`FailureEffect` says which, and that no handler fails without one after its first
  change), and `KeptInv` that what the file has, memory has, or a rule removed
  it (`NoGuardLost`). `HandlerInv` is what they share: which phases belong to
  which handler, and that none runs in a process that is down. What the three
  theorems say of a waiting process is not inductive, since an update in between
  breaks it and has to put it right again.

`GuardsStayPinned` is the refinement: VanguardState implements GuardStore. The two
removals map to `GiveUp` (`PruneGivesUp`, `TrimGivesUp`), a draw to `Take`
(`AddTakes`), the file to `Tear` and `Save`, every end of the process to `Lose`
(`EndLoses`), and the rest stutters (`StoreStutters`). It needs `HandlerInv`: a
handler that ran in a process that is down would change the layers behind the
mapping's back. `StoreHasNoTwins` proves of the abstract store that no relay is in
a layer twice, in memory or in the file.

*RendGuardProofs.* `RendInvariant`: the total is the sum of the counts, or no less
while the last transfer failed. Its lemmas
compute the cardinality of `Marks` when a bucket is counted, joins, or is halved.
`SharesAlwaysKept` and `AlwaysStaysArmed` are action properties under `[]Halvable`:
no count is halved that is odd in units of `1/Grain`. The code halves floats, for
which this is no limit before the counts have been halved dozens of times. The
second one assumes `ScaleAt >= 2 * GlobalStart`; the defaults are 20000 and 1000
(`rendguard.py:8`), and a smaller ratio lets a halving disarm the check.

*RendRecordProofs.* `ClosedOnRecord`: a count is never more than the uses of its own
bucket since that entered the table, from which it follows that a relay is only
acted against on its own record.

*NodeSelectionProofs.* For lists of any length. `NodeInv` says of a draw in the loop
that what was added up are the weights before the index (`AddedUp`) and that they
did not reach the draw one index earlier; until the weights are repaired the total
is their sum (`TotalOfWeights`), so that the loop ends within the list
(`LoopStaysInTheList`) and at the interval the draw falls into
(`GenerateDrawsInProportion`). `RoutersShareTheDraws` shows that these intervals
are a proper reference: as large as the weights, and a partition of the draws above 0.
`RepairedWeightsAreProbabilities` is about the loop of `xfer_use_counts` that follows
`repair_exits`: the prefix of the nodes it has been through has a fraction each, of
the total of their kind, which is more than 0, since the loop ends at a total of 0
(`FractionsOfInv`), and that takes a kind of nodes without any weight
(`NoWeightOfInv`). Sums are
cardinalities, so that adding a weight is a lemma about a union (`SumOfDisjoint`,
`Prefix`) and not a recursion, and the first index at which a sum reaches a draw is
a least element (`LeastNatural`, from the well-foundedness of finite subsets),
which takes the place of an induction over the list. `InOrderExists` is what makes
the list of the constructor well defined: the rank of an index is a bijection.

*CbtVerifyProofs.* `CountersNeverPart` (the counters agree with the map, for all
circuits and for those of onion services), its two halves, `TypeCorrect`,
`ResetStopsCounting` and `RateSoundHolds`, from one invariant `Inv`, with lemmas on
the cardinality of the map when a circuit joins or leaves it (`AddSizes`,
`ForgetSizes`). `RateSound` follows from conservation and the monotony of
cardinality.

*BandGuardsProofs.* One invariant per question, each proved event by event.

* `OutageInv`: the beginnings of both outages are there exactly when they should
  be (`BeginningsHold`). With it every step of the monitor maps to a step of
  OutageDetector or to a stutter: `ConnOutagesImplemented` and
  `CircOutagesImplemented`, the refinements, for any limits. `ReportsReal` proves
  of the abstract detector that reports are never early.
* `CircOutageInv`: the last use of a circuit is not after the beginning of the
  outage (`CircOutagesReal`).
* `KillInv`: a guard has as many kills, with the one that may still be counted, as
  closures at most (`KillsCountedOnce`).
* `WatchInv`: circuits launched since the listeners are known with Tor's own
  account (`WatchedFollowed`), hence closed at the heartbeat over the age limit
  (`AgesBounded`) and at the report over a traffic limit (`LimitsKept`).
* `ConnInv`: each connection of Tor stands for an entry of its guard among the
  live connections, and no two for the same one; so there is an entry as long as
  there is a connection (`NoOutageSilent`), and with nothing inherited the entries
  are the connections (`LiveConnsExact`). This injection is needed since a
  closed connection may take the entry of another one to the same guard. The
  theorems assume nothing of the identifiers; which connections they except is in
  the properties: for `NoSilentOutage` only the case of a listed connection whose
  own identifier was made up for another, since later connections with such an
  identifier replace an entry and leave none behind (`StandUnmade`).

`BandTypes` is the type invariant, and `DestroyedGuardKnown` shows that a circuit
which died with its connection has a guard with a record, which
`circuit_destroyed` takes for granted.

*PathVerifyProofs.* The verifier lags behind Tor by the events in the queue, so an
invariant about what it knows has to say what every waiting event will make of it.

* `CountsInv`: for a guard outside of `drift` there is a trace, one number for each
  place in the queue: the first is what the verifier counts, each event changes it
  as its handler will, the last is what Tor has, and a circuit that waits at a place
  was judged with the number there (`Traced`). With nothing waiting the trace has
  one element, which is `ConnCountsKept`.
* `LayersInv`: the last event about a layer has the value that Tor has (`LastInv`); a
  layer no waiting event is about is as Tor was told (`KnownInv`, which is
  `LayersKept`); a waiting circuit was judged by the value of the last event before
  it or, with none, by what the verifier knows (`JudgedInv`). A GUARD event would
  break this: it is posted only while `HSLayer2Nodes` is unset, of which an earlier
  event or `drift` tells (`LiteEventInv`). `FullInv` settles which table of lengths
  is used.
* `LiteInv`: a relay of vanguards-lite is in the layer or given by a waiting event,
  and no event after that takes it (`LiteStaysKnown`).

`VerdictsExact`, that a circuit is warned of for what was wrong with it when Tor built
it and for nothing else, takes the first two at the head of the queue. The
theorems hold for queues of any length, where the run has at most two events
(`PathTypes`, `PathInvariant`).

*ControlLoopProofs.* `NeverFarTooWide` and `UpdatesAloneExact`, for any options and
any number of lost connections. `LoopInv` has three parts: the types; that at most
`overlap` + 1 updates are under way and that the guards there are and those that
threads have decided to add are too many by `overlap` at most; and what a thread
that is alone knows at each step of its update. A bound on `width` alone is not
inductive: it is the decisions still to be carried out that have to be counted, and
there is one at most for every thread that is in an update.

The same module has the rest of the main program, with Options and LogGuard
(`MainTypes`). `MainInv` has a part for each theorem. `PassesInv` says which
sources an option has been given by at each of the passes over files and command
line (`PrecedenceAlways`). `AttributeInv` says from which listener on the
controller has its log guard (`BandClosesSent`). `LinesInv` says that the buffer is
newer than every request of a close, and that each recent line since a request is
in the buffer or written (`PostAlwaysOwn`,
`LinesNotLost`, the latter an action property). `ServedInv` relates the loop's flag
to whether Tor was ever served, which the flag is about only as long as the process
runs (`StatusTells`).

Only model-checked is liveness: `ReloadReapplied` and `DownRelaysSwitched` of
VanguardState, `OutageReported` of BandGuards and `ServedAgain` of ControlLoop rest
on fairness and so on ENABLED, which the provers do not handle. The two violations
of section 3 are TLC's counterexamples.

## 5. Plan

1. *Done:* all components; two refinements of the outage detector; proofs of the
   layers, the timeout monitor, the bandwidth guards, and of updates by several
   threads.
2. *Done:* proofs of every safety and action property of the runs.
3. *Done:* an abstract guard store, implemented by VanguardState with `disk` and
   `layer` as its state.

Not modelled: the logger, the formats of files and arguments, packaging and start
scripts, the password dialogue, and the parsing of consensus documents and of
ExcludeNodes lines, which are input and output without state of their own; the
options for layer 1, which are constants set along with the layers; what only
decides the wording or the level of a log message (`last_connected_at`, notices
about counts).
