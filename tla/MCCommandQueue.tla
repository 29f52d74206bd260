--------------------------- MODULE MCCommandQueue ---------------------------
(* Instances of CommandQueue for TLC. *)
EXTENDS CommandQueue, TLC

CONSTANTS A, B, S, G, H, e1, e2, e3, e4

NoRes == [l \in Lanes |-> 0]
Cfg(ls, w, clear, g, budget, members, res) ==
    [lanes |-> ls, width |-> [l \in Lanes |-> w], clear |-> clear, group |-> g,
     budget |-> budget, members |-> members, reservations |-> res @@ NoRes]

\* Two sibling lanes and a group that reserves a slot for B; the group is
\* installed, reinstalled narrower, emptied of B and cleared; B may also move
\* to a second group.  One group promises more than it has.
GroupConfigs ==
    {Cfg({A, B}, 2, {}, G, 2, {A, B}, B :> 1),
     Cfg({}, 0, {}, G, 1, {A, B}, <<>>),
     Cfg({}, 0, {}, G, 1, {A, B}, A :> 1 @@ B :> 1),
     Cfg({}, 0, {}, H, 1, {B}, B :> 1),
     Cfg({}, 0, {G}, NoGroup, 0, {}, <<>>)}

NoConfigs == {}

\* A second install and a reset are taken in different behaviours
InstallOrReset == installs <= 1 \/ \A o \in Objs : generation[o] = 0

EntrySymmetry == Permutations(Entries)
=============================================================================
