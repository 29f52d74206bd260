--------------------------- MODULE MCDeliveryQueue ---------------------------
(* Instances of DeliveryQueue for TLC: three kinds of message. *)
EXTENDS DeliveryQueue

CONSTANTS plain, casual, exact, gateway, cli

\* Messages share nothing but the bounds, so one at a time is enough.
OneMessage ==
    \A m, n \in Messages : m # n => row[m] = Blank \/ row[n] = Blank
=============================================================================
