---------------------------- MODULE OutageDetector ----------------------------
(***************************************************************************)
(* What the bandwidth monitor promises of an outage: it has a beginning,   *)
(* is reported when it has lasted as long as the limit, no earlier and     *)
(* only once, and the report is taken back together with the outage.       *)
(* BandGuards implements it twice, for connections and for circuits.       *)
(***************************************************************************)
EXTENDS Integers

CONSTANTS
    Limit,              \* the seconds an outage lasts before it is reported
    Start               \* the time at which the monitor begins

Never == 0

VARIABLES
    now,
    since,              \* the beginning of the outage, or Never
    reported

detectorVars == <<now, since, reported>>

DetectorInit == now = Start /\ since \in {Never, Start} /\ reported = FALSE

Begin == since = Never /\ since' = now /\ UNCHANGED <<now, reported>>

End == since' = Never /\ reported' = FALSE /\ UNCHANGED now

Report ==
    /\ Limit > 0 /\ since # Never /\ now - since >= Limit
    /\ reported' = TRUE
    /\ UNCHANGED <<now, since>>

Pass == now' = now + 1 /\ UNCHANGED <<since, reported>>

DetectorNext == Begin \/ End \/ Report \/ Pass

DetectorSpec == DetectorInit /\ [][DetectorNext]_detectorVars

\* An outage that is reported has lasted as long as the limit.
ReportsAreReal == reported => since # Never /\ Limit > 0 /\ now - since >= Limit
=============================================================================
