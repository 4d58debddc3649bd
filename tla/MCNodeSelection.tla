--------------------------- MODULE MCNodeSelection ---------------------------
(***************************************************************************)
(* NodeSelection on every sorted list of at most two routers.            *)
(***************************************************************************)
EXTENDS NodeSelection

Usable == {"Fast", "Stable", "Valid"}
MCFlagSets == {Usable, Usable \union {"Guard"}, Usable \union {"Exit"},
               Usable \union {"Guard", "Exit"}, {"Fast", "Valid"},
               Usable \union {"Authority"}}

\* Plenty of exits, and a network in which exits are scarce.
MCBwWeights ==
    {[Wmd |-> 1, Wme |-> 1, Wmg |-> 2, Wmm |-> 3, Wed |-> 1, Wee |-> 2],
     [Wmd |-> 0, Wme |-> 0, Wmg |-> 1, Wmm |-> 1, Wed |-> 1, Wee |-> 1]}
=============================================================================
