------------------------------ MODULE RendRecord ------------------------------
(***************************************************************************)
(* RendGuard with a history: the uses that the counts stand for.           *)
(***************************************************************************)
EXTENDS RendGuard

\* History: the uses of a bucket since it last entered the table.
VARIABLE since

recordVars == <<rendVars, since>>

RecordInit == RendInit /\ since = [r \in Buckets |-> 0]

RecordUse(r) ==
    /\ RendCircEvent(r)
    /\ since' = [since EXCEPT ![Bucket(r)] = @ + 1]

RecordXfer(c) ==
    /\ XferUseCounts(c)
    /\ since' = [r \in Buckets |->
                   IF r \in DOMAIN use_counts' THEN since[r] ELSE 0]

\* A transfer that fails keeps the entries of the listed relays, and no uses.
RecordFail(c) ==
    /\ XferFails(c)
    /\ since' = [r \in Buckets |->
                   IF r \in DOMAIN use_counts' THEN since[r] ELSE 0]

RecordNext ==
    \/ \E c \in Consensuses : RecordXfer(c) \/ RecordFail(c)
    \/ Listening /\ \E r \in Relays : RecordUse(r)

RecordSpec == RecordInit /\ [][RecordNext]_recordVars

\* A relay is only acted against on its own record: since it (re-)entered the
\* consensus it was used REND_USE_RELAY_START_COUNT times. Neither counts from
\* before it left, nor those of other relays, nor a halving, make up for that.
ClosedOnOwnRecord ==
    \A r \in Relays : closed = r => since[Bucket(r)] >= RelayStart
=============================================================================
