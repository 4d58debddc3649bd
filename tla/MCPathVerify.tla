---------------------------- MODULE MCPathVerify ----------------------------
(***************************************************************************)
(* PathVerify with two guards, two connections and layers of one relay.    *)
(***************************************************************************)
EXTENDS PathVerify, TLC

CONSTANTS r1, r2

MCLayerValues == {{r1}, {r2}}
MCNum == <<1, 1, 1>>
MCLiteNum == <<1, 4, 0>>

MCPurposes == {"HS_CLIENT_REND"}
\* Bound: two changes, or one and an event of a circuit once the constructor is
\* done (earlier ones are not for any listener of the verifier); with either,
\* there is one connection.
MCFew ==
    /\ changes + circs <= 2
    /\ circs > 0 => done >= OrconnStep
    /\ changes + circs > 0 => Cardinality({i \in ConnIds : conn[i].status # "none"}) <= 1

MCSymmetry == Permutations(Guards) \union Permutations(Relays)
              \union Permutations(ConnIds)
=============================================================================
