--------------------------- MODULE MCRestartSignal ---------------------------
(* Instances of RestartSignal for TLC. *)
EXTENDS RestartSignal

=============================================================================
