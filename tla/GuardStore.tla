------------------------------ MODULE GuardStore ------------------------------
(***************************************************************************)
(* What a store of pinned guards promises, whatever its process, its disk  *)
(* and Tor go through: it gives a guard up for a reason only, takes one    *)
(* only where one is missing, and after an end of the process has what it  *)
(* saved last, or nothing.                                                 *)
(***************************************************************************)
EXTENDS Naturals, FiniteSets

CONSTANT Layers

VARIABLES
    pinned,     \* the guards of every layer
    saved,      \* what is left of them when the process ends
    \* inputs
    clock,
    barred,     \* the relays that must not be guards
    width       \* how many guards a layer should have

storeVars == <<pinned, saved>>

Nothing == [l \in Layers |-> {}]

StoreInit == pinned = Nothing /\ saved = Nothing

\* A rule names the guard: its relay is barred, or its time is over.
Named(g) == g.idhex \in barred \/ g.expires_at < clock

\* Guards that no rule names are given up only by a layer that has too many,
\* which keeps as many as it should have and none that is younger than one it
\* gives up.
GiveUp ==
    LET gone == [l \in Layers |-> pinned[l] \ pinned'[l]]
        spared(l) == {g \in gone[l] : ~Named(g)}
    IN  /\ pinned' = [l \in Layers |-> pinned[l] \ gone[l]]
        /\ \A l \in Layers : spared(l) # {} => Cardinality(pinned'[l]) = width[l]
        /\ \A l \in Layers : \A g \in pinned'[l], h \in spared(l) :
                                g.chosen_at <= h.chosen_at
        /\ UNCHANGED saved

\* A layer that has too few takes a guard: a relay that it does not have yet,
\* chosen now, that no rule names.
Take(l) ==
    /\ Cardinality(pinned[l]) < width[l]
    /\ \E g \in pinned'[l] :
         /\ pinned' = [pinned EXCEPT ![l] = @ \union {g}]
         /\ \A h \in pinned[l] : g.idhex # h.idhex
         /\ g.chosen_at = clock /\ ~Named(g)
    /\ UNCHANGED saved

\* While a new copy is written there is none.
Tear == saved' = Nothing /\ UNCHANGED pinned

Save == saved' = pinned /\ UNCHANGED pinned

\* The process ends.
Lose == pinned' = saved /\ UNCHANGED saved

StoreNext == GiveUp \/ (\E l \in Layers : Take(l)) \/ Tear \/ Save \/ Lose

StoreSpec == StoreInit /\ [][StoreNext]_storeVars

-----------------------------------------------------------------------------
\* Neither has a relay twice in a layer.
Distinct(layers) ==
    /\ DOMAIN layers = Layers
    /\ \A l \in Layers : \A g, h \in layers[l] : g.idhex = h.idhex => g = h

NoTwins == Distinct(pinned) /\ Distinct(saved)
=============================================================================
