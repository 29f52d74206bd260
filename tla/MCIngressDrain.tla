---------------------------- MODULE MCIngressDrain ----------------------------
(* Instances of IngressDrain for TLC: events e1 and e2 of a lane that deferred *)
(* turns keep, f1 and f2 of one that they leave.                               *)
EXTENDS IngressDrain

CONSTANTS e1, e2, f1, f2

MCLanes == [e \in Events |-> IF e \in {e1, e2} THEN "kept" ELSE "left"]
MCLoose == {"left"}
MCSupersedes == {<<e2, e1>>, <<f2, f1>>} \cap (Events \X Events)

\* Lanes share little but the pass, so one at a time is enough; the second one,
\* with more turns at a time, gets no fault.
OneLane ==
    \/ \A e \in Events \cap {f1, f2} : row[e] = NoRow
    \/ spent = 0 /\ \A e \in Events \cap {e1, e2} : row[e] = NoRow

\* No claim of another process (it may still take one back)
OneProcess == \A e \in Events : row[e].status = "claimed" => row[e].token # Sibling
=============================================================================
