--------------------------- MODULE DeliveryPromise ---------------------------
(***************************************************************************)
(* What the outbound queue promises about a message, without rows, leases  *)
(* or processes.  Once accepted, a message is queued until it ends; it     *)
(* reaches the platform at most once; it ends only when it has arrived or  *)
(* its failure has been told.  Only a best-effort message may be let       *)
(* loose: it leaves the queue before it is sent, and then it may be lost.  *)
(***************************************************************************)
EXTENDS Naturals

CONSTANTS Messages, Stable, Required

VARIABLES life, copies, told

Lives == {"new", "queued", "loose", "ended"}

Init ==
    /\ life = [m \in Messages |-> "new"]
    /\ copies = [m \in Messages |-> 0]
    /\ told = {}

\* From one life to the next; only a stable intent comes back, and only if
\* nothing of it was sent.
LifeStep(m) ==
    \/ life'[m] = life[m]
    \/ life[m] = "new" /\ life'[m] = "queued"
    \/ life[m] = "queued" /\ life'[m] = "loose" /\ m \notin Required /\ copies[m] = 0
    \/ life[m] = "queued" /\ life'[m] = "ended" /\ (copies[m] = 1 \/ m \in told')
    \/ life[m] = "loose" /\ life'[m] = "ended"
    \/ life[m] = "ended" /\ life'[m] = "queued" /\ m \in Stable /\ copies[m] = 0

CopyStep(m) ==
    \/ copies'[m] = copies[m]
    \/ copies[m] = 0 /\ copies'[m] = 1 /\ life[m] \in {"queued", "loose"}

Next ==
    /\ life' \in [Messages -> Lives] /\ copies' \in [Messages -> {0, 1}]
    /\ told \subseteq told' /\ told' \subseteq Messages
    /\ \A m \in Messages : LifeStep(m) /\ CopyStep(m)

Spec == Init /\ [][Next]_<<life, copies, told>>
=============================================================================
