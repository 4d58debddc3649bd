--------------------------- MODULE MCVanguardState ---------------------------
(***************************************************************************)
(* VanguardState on three relays, of which one leaves the consensus and    *)
(* one may be excluded.                                                    *)
(***************************************************************************)
EXTENDS VanguardState, TLC

CONSTANTS ra, rb, rc

MCRelays == {ra, rb, rc}

MCDoc(listed, usable, divisible) ==
    [listed |-> listed, usable |-> usable,
     weight |-> [r \in Relays |-> 1], divisible |-> divisible]

\* rc leaves and returns.
MCConsensuses == {MCDoc(MCRelays, MCRelays, TRUE), MCDoc({ra, rb}, {ra, rb}, TRUE)}

\* As above, and Tor may list one relay only, usable (it is the one that may be
\* excluded; the probabilities cannot be computed) or not.
MCUnusable ==
    MCConsensuses \union {MCDoc({ra}, {}, TRUE), MCDoc({ra}, {ra}, FALSE)}

\* As few relays as allow it, of which one leaves and returns; when it has left,
\* the probabilities may be such that they cannot be computed.
MCPair == {ra, rc}
MCPairConsensuses ==
    {MCDoc(MCPair, MCPair, TRUE), MCDoc({ra}, {ra}, TRUE), MCDoc({ra}, {ra}, FALSE)}

MCExcludes == {{}, {ra}}
MCNoExcludes == {{}}

MCConfig(enable, two, three) ==
    [enable |-> enable, num |-> (2 :> two @@ 3 :> three)]

\* The operator changes the width of a layer between two starts.
MCConfigs == {MCConfig(TRUE, 2, 1), MCConfig(TRUE, 1, 1)}
MCAllConfigs == MCConfigs \union {MCConfig(FALSE, 1, 1)}
MCOneByOne == {MCConfig(TRUE, 1, 1)}
MCOnOff == {MCConfig(TRUE, 1, 1), MCConfig(FALSE, 1, 1)}

\* Guards of layer 2 may be overdue as soon as the clock moves.
MCMinLifetime == (2 :> 0 @@ 3 :> 1)
MCMaxLifetime == (2 :> 1 @@ 3 :> 1)
=============================================================================
