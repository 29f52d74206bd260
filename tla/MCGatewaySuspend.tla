--------------------------- MODULE MCGatewaySuspend ---------------------------
(* Instances of GatewaySuspend for TLC. *)
EXTENDS GatewaySuspend, TLC

\* A host's polite call, which refuses to wait, the draining one that reuses its
\* id and gives terminals up, and another host's.
RequestPolite == [id |-> "a", terminate |-> FALSE, drain |-> FALSE]
RequestDrain == [id |-> "a", terminate |-> TRUE, drain |-> TRUE]
RequestOther == [id |-> "b", terminate |-> FALSE, drain |-> TRUE]

OneRequest == {RequestOther}
TwoRequests == {RequestPolite, RequestDrain}
Symmetry == Permutations(Chains) \cup Permutations(Roots)
=============================================================================
