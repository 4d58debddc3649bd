--------------------------- MODULE RendRecordProofs ---------------------------
(***************************************************************************)
(* Proofs about RendRecord, for any relays, consensus documents and        *)
(* limits: no relay is acted against on uses that are not its own.         *)
(***************************************************************************)
EXTENDS RendRecord, RendGuardProofs

\* A count never exceeds the uses it stands for: transfers keep or halve it.
RecordInv ==
    /\ RendInv
    /\ since \in [Buckets -> Nat]
    /\ \A b \in DOMAIN use_counts : use_counts[b].used <= since[b] * Grain
    /\ ClosedOnOwnRecord

LEMMA RecordInitInv == RecordInit => RecordInv
<1> SUFFICES ASSUME RecordInit PROVE RecordInv
  OBVIOUS
<1>1. RendInv
  BY RendInitInv DEF RecordInit
<1>2. closed \notin Relays /\ DOMAIN use_counts = {}
  BY RelaysAssumption DEF RecordInit, RendInit, Buckets
<1> QED
  BY <1>1, <1>2 DEF RecordInit, RecordInv, ClosedOnOwnRecord

LEMMA RecordUseInv ==
    ASSUME RecordInv, NEW r \in Relays, RecordUse(r)
    PROVE  RecordInv'
<1> USE RendNumbers
<1>1. RendInv /\ RendTypeOK /\ RendInv'
  BY RendUseInv DEF RecordInv, RecordUse, RendInv
<1>2. PICK b : b = Bucket(r)
  OBVIOUS
<1>3. b \in Buckets
  BY <1>2 DEF Bucket, Buckets
<1>4. since' = [since EXCEPT ![b] = @ + 1]
  BY <1>2 DEF RecordUse
<1>5. since' \in [Buckets -> Nat] /\ since'[b] = since[b] + 1 /\ since[b] \in Nat
  BY <1>3, <1>4 DEF RecordInv
<1>6. use_counts' = [WithBucket(b) EXCEPT ![b].used = @ + Grain]
  BY <1>2 DEF RecordUse, RendCircEvent
<1>7. DOMAIN use_counts' = DOMAIN use_counts \union {b}
  BY <1>6 DEF WithBucket
<1>8. \A s \in DOMAIN use_counts \ {b} : use_counts'[s] = use_counts[s]
  BY <1>6 DEF WithBucket
<1>9. use_counts'[b].used <= since'[b] * Grain
  <2>1. PICK old : old = WithBucket(b)
    OBVIOUS
  <2>2. /\ b \in DOMAIN old
        /\ old[b] = IF b \in DOMAIN use_counts THEN use_counts[b] ELSE RendUseCount(0, 0)
    BY <2>1 DEF WithBucket
  <2>3. PICK n \in Nat : /\ n = old[b].used /\ n <= since[b] * Grain
                         /\ old[b] \in [used : Nat, weight : WeightsOf(b)]
    <3>1. CASE b \in DOMAIN use_counts
      BY <1>1, <2>2, <3>1 DEF RecordInv, RendTypeOK
    <3>2. CASE b \notin DOMAIN use_counts
      <4>1. b = NotInConsensus
        BY <1>2, <3>2 DEF Bucket
      <4>2. 0 <= since[b] * Grain
        BY <1>5
      <4> QED
        BY <2>2, <3>2, <4>1, <4>2 DEF RendUseCount, WeightsOf
    <3> QED
      BY <3>1, <3>2
  <2>4. use_counts'[b] = [old[b] EXCEPT !.used = @ + Grain]
    BY <1>6, <2>1, <2>2
  <2>5. use_counts'[b].used = n + Grain
    BY <2>3, <2>4
  <2>6. (since[b] + 1) * Grain = since[b] * Grain + Grain
    BY <1>5
  <2>7. since[b] * Grain \in Nat
    BY <1>5
  <2> QED
    BY <1>5, <2>3, <2>5, <2>6, <2>7
<1>10. \A s \in DOMAIN use_counts' : use_counts'[s].used <= since'[s] * Grain
  <2>1. \A s \in DOMAIN use_counts \ {b} : since'[s] = since[s]
    BY <1>1, <1>4 DEF RecordInv, RendTypeOK
  <2>2. \A s \in DOMAIN use_counts \ {b} : use_counts'[s].used <= since'[s] * Grain
    BY <1>8, <2>1 DEF RecordInv
  <2> QED
    BY <1>7, <1>9, <2>2
<1>11. ClosedOnOwnRecord'
  <2> SUFFICES ASSUME NEW s \in Relays, closed' = s
               PROVE  since'[Bucket(s)'] >= RelayStart
    BY DEF ClosedOnOwnRecord
  <2>1. s = r /\ Overused(use_counts', total_use_counts + Grain, b)
    BY <1>2, <1>6, RelaysAssumption DEF RecordUse, RendCircEvent, Buckets
  <2>2. Bucket(s)' = b
    <3>1. NotInConsensus \notin Relays
      BY RelaysAssumption
    <3> QED
      BY <1>2, <1>7, <2>1, <3>1 DEF Bucket
  <2>3. use_counts'[b].used >= RelayStart * Grain
    BY <2>1 DEF Overused
  <2>4. PICK n \in Nat : n = since'[b]
    BY <1>3, <1>5
  <2>5. use_counts'[b].used \in Nat
    BY <1>1, <1>7 DEF RendInv, RendTypeOK
  <2>6. n * Grain >= RelayStart * Grain
    BY <1>9, <2>3, <2>4, <2>5
  <2>7. n >= RelayStart
    BY <2>6
  <2> QED
    BY <2>2, <2>4, <2>7
<1> QED
  BY <1>1, <1>5, <1>10, <1>11 DEF RecordInv

LEMMA RecordXferInv ==
    ASSUME RecordInv, NEW c \in Consensuses, RecordXfer(c)
    PROVE  RecordInv'
<1> USE RendNumbers
<1>1. RendTypeOK /\ RendInv'
  BY RendXferInv DEF RecordInv, RecordXfer, RendInv
<1>2. use_counts' = Transferred(c) /\ closed' = NoRelay
  BY DEF RecordXfer, XferUseCounts, XferEnds
<1>3. since' = [r \in Buckets |-> IF r \in DOMAIN use_counts' THEN since[r] ELSE 0]
  BY DEF RecordXfer
<1>4. since \in [Buckets -> Nat] /\ since' \in [Buckets -> Nat]
  BY <1>3 DEF RecordInv
<1>5. \A b \in DOMAIN use_counts' : use_counts'[b].used <= since'[b] * Grain
  <2> SUFFICES ASSUME NEW b \in DOMAIN use_counts'
               PROVE  use_counts'[b].used <= since'[b] * Grain
    OBVIOUS
  <2>1. b \in Buckets /\ use_counts'[b].used = Carried(b)
    BY <1>1, <1>2, TransferredCounts
  <2>2. since'[b] = since[b] /\ since[b] \in Nat
    BY <1>3, <1>4, <2>1
  <2>3. PICK top \in Nat : top = since[b] * Grain
    BY <2>2
  <2>4. Carried(b) <= top
    <3>1. b \in DOMAIN use_counts => use_counts[b].used \in Nat /\ use_counts[b].used <= top
      BY <1>1, <2>3 DEF RecordInv, RendTypeOK
    <3> QED
      BY <3>1 DEF Carried
  <2> QED
    BY <2>1, <2>2, <2>3, <2>4
<1>6. ClosedOnOwnRecord'
  BY <1>2, RelaysAssumption DEF ClosedOnOwnRecord, Buckets
<1> QED
  BY <1>1, <1>4, <1>5, <1>6 DEF RecordInv

LEMMA RecordFailInv ==
    ASSUME RecordInv, NEW c \in Consensuses, RecordFail(c)
    PROVE  RecordInv'
<1> USE RendNumbers
<1>1. RendInv' /\ RendTypeOK'
  BY RendFailInv DEF RecordInv, RecordFail, RendInv
<1>2. /\ \A b \in DOMAIN use_counts' : use_counts'[b].used = 0
      /\ closed' = NoRelay
  BY DEF RecordFail, XferFails, RendUseCount
<1>3. since' = [r \in Buckets |-> IF r \in DOMAIN use_counts' THEN since[r] ELSE 0]
  BY DEF RecordFail
<1>4. since \in [Buckets -> Nat] /\ since' \in [Buckets -> Nat]
  BY <1>3 DEF RecordInv
<1>5. \A b \in DOMAIN use_counts' : use_counts'[b].used <= since'[b] * Grain
  <2> SUFFICES ASSUME NEW b \in DOMAIN use_counts'
               PROVE  0 <= since'[b] * Grain
    BY <1>2
  <2>1. since'[b] \in Nat
    BY <1>1, <1>4 DEF RendTypeOK
  <2> QED
    BY <2>1
<1>6. ClosedOnOwnRecord'
  BY <1>2, RelaysAssumption DEF ClosedOnOwnRecord, Buckets
<1> QED
  BY <1>1, <1>4, <1>5, <1>6 DEF RecordInv

\* A relay is only acted against when it was used often enough itself since it
\* last entered the consensus.
THEOREM ClosedOnRecord == RecordSpec => []ClosedOnOwnRecord
<1>1. RecordInv /\ [RecordNext]_recordVars => RecordInv'
  <2> SUFFICES ASSUME RecordInv, [RecordNext]_recordVars PROVE RecordInv'
    OBVIOUS
  <2>1. CASE UNCHANGED recordVars
    BY <2>1 DEF recordVars, rendVars, RecordInv, RendInv, RendTypeOK, TotalIsSum,
       ClosedOnOwnRecord, Bucket
  <2> QED
    BY <2>1, RecordUseInv, RecordXferInv, RecordFailInv DEF RecordNext
<1>2. RecordInv => ClosedOnOwnRecord
  BY DEF RecordInv
<1> QED
  BY <1>1, <1>2, RecordInitInv, PTL DEF RecordSpec
=============================================================================
