----------------------------- MODULE MCRendGuard -----------------------------
(***************************************************************************)
(* RendRecord on two relays, one of which leaves and re-enters the         *)
(* consensus, and with a consensus in which it is the only exit, of weight *)
(* 0, so that its probability cannot be computed.                          *)
(***************************************************************************)
EXTENDS RendRecord, TLC

CONSTANTS ra, rb

MCRelays == {ra, rb}

MCConsensuses ==
    {[listed |-> {ra, rb}, usable |-> {ra, rb},
      weight |-> (ra :> 3 @@ rb :> 1), divisible |-> TRUE],
     [listed |-> {ra}, usable |-> {ra},
      weight |-> (ra :> 4 @@ rb :> 0), divisible |-> TRUE],
     [listed |-> {ra, rb}, usable |-> {ra, rb},
      weight |-> (ra :> 4 @@ rb :> 0), divisible |-> FALSE]}

\* Bound: the history of a bucket stops here.
MaxSince == 6
MCBound == Halvable /\ \A r \in Buckets : since[r] < MaxSince
=============================================================================
