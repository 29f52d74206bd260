------------------------- MODULE MCAttemptControls -------------------------
(***************************************************************************)
(* A run of two attempts inside one lane task.  The budgets are shorter    *)
(* and longer than the idle timeout, and no limit.                         *)
(***************************************************************************)
EXTENDS AttemptControls

MCTimeouts == {Bounded(2), Unlimited}
=============================================================================
