------------------------------- MODULE LogGuard -------------------------------
(***************************************************************************)
(* The log guard, src/src/vanguards/logguard.py: it keeps the last lines   *)
(* that Tor logged, and writes them to the program's own log when the      *)
(* program closes a circuit, and again when that circuit has ended.        *)
(*                                                                         *)
(* Lines are numbered as Tor logs them. The component has no schedule of   *)
(* its own: ControlLoop calls its operations.                              *)
(***************************************************************************)
EXTENDS Integers, Sequences, FiniteSets

CONSTANTS
    Circs,              \* circuits; an identifier is used once
    LogLimit,           \* LOG_DUMP_LIMIT
    MaxLines            \* bound: the lines that Tor logs

ASSUME LogAssumption ==
    /\ IsFiniteSet(Circs)
    /\ LogLimit \in Nat \ {0} /\ MaxLines \in Nat

VARIABLES
    log_buffer,         \* the lines that were not written yet
    lines,              \* the lines that Tor logged so far
    written,            \* the lines that were written, for which circuit
    requested,          \* circuit -> the lines there were when the program first
                        \* had it closed
    ended               \* the circuits that have ended

logVars == <<log_buffer, lines, written, requested, ended>>

LogTypeOK ==
    /\ log_buffer \in Seq(1..lines) /\ Len(log_buffer) <= LogLimit
    /\ lines \in 0..MaxLines
    /\ written \in SUBSET [line : 1..lines, circ : Circs, when : {"Pre", "Post"}]
    /\ DOMAIN requested \subseteq Circs
    /\ \A c \in DOMAIN requested : requested[c] \in 0..lines
    /\ ended \subseteq Circs

LogInit ==
    /\ log_buffer = <<>>
    /\ lines = 0
    /\ written = {}
    /\ requested = [c \in {} |-> 0]
    /\ ended = {}

\* A new connection has a new one, which knows of no earlier request.
NewLogGuard ==
    /\ log_buffer' = <<>>
    /\ requested' = [c \in {} |-> 0]
    /\ UNCHANGED <<lines, written, ended>>

\* Seeded fault: it is the newest line that is given up.
AppendedOldest(line) ==
    IF Len(log_buffer) < LogLimit THEN Append(log_buffer, line) ELSE log_buffer

\* log_buffer with one more line; the oldest is given up for it.
Appended(line) ==
    LET all == Append(log_buffer, line)
    IN  IF Len(all) > LogLimit THEN Tail(all) ELSE all

\* log_all_event, if the log guard is there to hear of it.
LogLine(heard) ==
    /\ lines < MaxLines
    /\ lines' = lines + 1
    /\ log_buffer' = IF heard THEN Appended(lines + 1) ELSE log_buffer
    /\ UNCHANGED <<written, requested, ended>>

\* dump_log_queue
Dumped(c, when) ==
    written \union {[line |-> log_buffer[k], circ |-> c, when |-> when] :
                      k \in DOMAIN log_buffer}

\* Seeded fault: without the dump before a close.
LogCloseNoDump(c, sent, guarded) ==
    /\ requested' = IF sent /\ c \notin DOMAIN requested
                    THEN [d \in DOMAIN requested \union {c} |->
                            IF d = c THEN lines ELSE requested[d]]
                    ELSE requested
    /\ UNCHANGED <<log_buffer, written, lines, ended>>

\* try_close_circuit: the lines are written, and Tor is asked to close c if the
\* program may close circuits.
LogClose(c, sent, guarded) ==
    /\ written' = IF guarded THEN Dumped(c, "Pre") ELSE written
    /\ log_buffer' = IF guarded THEN <<>> ELSE log_buffer
    /\ requested' = IF sent /\ c \notin DOMAIN requested
                    THEN [d \in DOMAIN requested \union {c} |->
                            IF d = c THEN lines ELSE requested[d]]
                    ELSE requested
    /\ UNCHANGED <<lines, ended>>

\* circ_event: a circuit that ends because somebody asked for it.
LogEnded(c, guarded) ==
    /\ written' = IF guarded THEN Dumped(c, "Post") ELSE written
    /\ log_buffer' = IF guarded THEN <<>> ELSE log_buffer
    /\ ended' = ended \union {c}
    /\ UNCHANGED <<lines, requested>>
=============================================================================
