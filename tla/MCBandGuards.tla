----------------------------- MODULE MCBandGuards -----------------------------
(***************************************************************************)
(* BandGuards on two guards and few circuits and connections.              *)
(***************************************************************************)
EXTENDS BandGuards, TLC

CONSTANTS c1, c2

MCTwoCircs == {c1, c2}
MCOneCirc == {c1}
MCSymmetry == Permutations(MCTwoCircs)

K(purpose, hs_state) == [purpose |-> purpose, hs_state |-> hs_state]

\* A circuit that is used for an onion service as soon as it is built.
MCOneKind == {K("HS_SERVICE_REND", "HSSR_CONNECTING")}

\* Every case of check_circuit_limits.
MCLimitKinds ==
    {K("HS_VANGUARDS", ""), K("HS_SERVICE_HSDIR", ""),
     K("HS_SERVICE_INTRO", "HSSI_ESTABLISHED"),
     K("HS_CLIENT_INTRO", "HSCI_INTRO_SENT"), K("HS_CLIENT_INTRO", "HSCI_DONE"),
     K("CIRCUIT_PADDING", ""), K("PATH_BIAS_TESTING", "")}

Report(read, payload, written) ==
    [read |-> read, payload |-> payload, written |-> written]

MCSilent == {Report(0, 0, 0)}

\* A cell is delivered, dropped or written.
MCTraffic == {Report(1, 1, 0), Report(1, 0, 0), Report(0, 0, 1)}

\* Bound: there is no second connection but in the first two seconds.
MCFewConns ==
    \/ now <= StartTime + 1
    \/ Cardinality({i \in ConnIds : conn[i].status # "none"}) <= 1
=============================================================================
