----------------------------- MODULE IngressDrain -----------------------------
(***************************************************************************)
(* Channel ingress: every event a chat platform delivers is appended to a  *)
(* durable queue and dispatched from there, one at a time per lane         *)
(* (conversation).  Several processes may drain one queue.  A drain claims *)
(* a row under a fresh token, dispatches it, and completes the row when    *)
(* the turn is adopted; failures, stalls, supersession, stops and crashes  *)
(* hand the row to the next claim.                                         *)
(*                                                                         *)
(* One drain (over time, several instances of it) is followed in detail;   *)
(* the others, in other processes, may do to a row whatever its claim      *)
(* token lets them.  Writes are synchronous transactions; one that throws  *)
(* is retried later.  Times are Booleans that say whether a delay, a lease *)
(* or an age has run out.                                                  *)
(***************************************************************************)
EXTENDS Naturals, FiniteSetsExt

CONSTANTS
    Events,
    LaneOf,        \* [Events -> lanes]
    Loose,         \* lanes drained with deferredLaneOccupancy "release"
    Supersedes,    \* <<new, old>>: shouldSupersedePending may say yes
    Slots,         \* claim tokens in use at one time
    MaxAttempts,   \* the retry budget
    MaxTries,      \* INGRESS_TOMBSTONE_RETRY_MAX_ATTEMPTS
    MaxFaults      \* bound: crashes, stops, lost leases, failed writes, events
                   \* handed back or resubmitted, claims of other processes

ASSUME IngressAssumption ==
    /\ Supersedes \subseteq Events \X Events
    /\ {MaxAttempts, MaxTries} \subseteq Nat \ {0} /\ MaxFaults \in Nat
    /\ Slots \subseteq Nat \ {0}

VARIABLES
    row,     \* channel_ingress_events
    hand,    \* the handler behind each claim token
    pass,    \* what drainOnce is doing
    mode,    \* the drain: up, stopping or down
    spent    \* how many of those so far

vars == <<row, hand, pass, mode, spent>>

----------------------------------------------------------------------------
(* Rows, handlers, passes *)

NoRow == [status |-> "none", token |-> 0, fresh |-> FALSE, at |-> 0,
          attempts |-> 0, erred |-> FALSE, delayed |-> FALSE]

NoHandler == [event |-> "none", owner |-> "none", phase |-> "none",
              closed |-> "no", active |-> FALSE,
              occupies |-> FALSE, watched |-> FALSE, running |-> FALSE,
              final |-> FALSE, write |-> "none", tries |-> 0,
              stuck |-> FALSE, ran |-> FALSE, taken |-> FALSE]

NoPass == [at |-> "idle", pend |-> {}, late |-> {}, blocked |-> {}, got |-> 0]

Init ==
    /\ row = [e \in Events |-> NoRow]
    /\ hand = [t \in Slots |-> NoHandler]
    /\ pass = NoPass
    /\ mode = "up"
    /\ spent = 0

Fault == spent < MaxFaults /\ spent' = spent + 1

HasStatus(s) == {e \in Events : row[e].status = s}
Sibling == 0   \* the token of a claim that another process holds

Held(t) == /\ hand[t].phase # "none"
           /\ row[hand[t].event].status = "claimed"
           /\ row[hand[t].event].token = t
Lane(t) == LaneOf[hand[t].event]
Aborted(h) == h.closed # "no" \/ h.owner # "registered"
PreAdoption(h) == h.phase \in {"dispatching", "deferred"}

\* The arrival number of the next row
NextAt == 1 + Max({row[e].at : e \in Events})

\* The row after a write fenced by its claim token
Freed(r, s) == [r EXCEPT !.status = s, !.token = 0, !.fresh = FALSE]

Applied(r, op) ==
    CASE op = "complete" -> [NoRow EXCEPT !.status = "completed"]
      [] op = "fail"     -> [NoRow EXCEPT !.status = "failed"]
      [] op = "cancel"   -> Freed(r, "pending")
      [] op = "release"  -> [Freed(r, "pending") EXCEPT
                                !.attempts = IF @ < MaxAttempts THEN @ + 1 ELSE @,
                                !.erred = TRUE, !.delayed = TRUE]

\* resolveIngressFailureDisposition: beyond the retry budget a row waits for
\* the dead-letter age, which it has reached by the attempt after it at last
Disposition(r) ==
    (IF r.attempts < MaxAttempts THEN {"release"} ELSE {})
        \cup (IF r.attempts + 1 >= MaxAttempts THEN {"fail"} ELSE {})

\* ... or the channel declares the error non-retryable
Dispositions(t) == Disposition(row[hand[t].event]) \cup {"fail"}

\* What is left of a handler that ended: whether its turn ran
Ended(h) == IF h.ran /\ row'[h.event].status # "completed"
            THEN [NoHandler EXCEPT !.event = h.event, !.phase = "settled",
                                   !.ran = TRUE, !.taken = h.taken]
            ELSE NoHandler

----------------------------------------------------------------------------
(* settleOnce: one owner of the terminal write.  A second caller awaits the  *)
(* write in flight.  A write that finds another token is lost: a completion  *)
(* then throws and stays unsettled, a release or failure counts as done.     *)
(* The write and removeActive, a few promise reactions later, are one step: a *)
(* pass that reads the row in between still finds the lane owned, so it takes *)
(* nothing from the lane, like a pass before the write.                      *)

Commit(t, op, h) ==
    /\ row' = IF Held(t) THEN [row EXCEPT ![h.event] = Applied(@, op)] ELSE row
    /\ hand' = [hand EXCEPT ![t] = IF op = "complete" /\ ~Held(t)
                                   THEN [h EXCEPT !.write = "none"]
                                   ELSE Ended(h)]

Throws(t, op, h) ==
    /\ Fault
    /\ hand' = [hand EXCEPT ![t] = [h EXCEPT !.write = op, !.tries = @ + 1]]
    /\ UNCHANGED row

Settles(t, op, h) == (Commit(t, op, h) /\ UNCHANGED spent) \/ Throws(t, op, h)

SettleOnce(t, op, h) ==
    IF h.write = "none"
    THEN Settles(t, op, [h EXCEPT !.tries = 0])
    ELSE hand' = [hand EXCEPT ![t] = h] /\ UNCHANGED <<row, spent>>

\* A backoff ends
RetryWrite(t) ==
    LET h == hand[t] IN
    /\ h.write # "none" /\ h.tries < MaxTries /\ h.owner = "registered"
    /\ Settles(t, h.write, h)
    /\ UNCHANGED <<pass, mode>>

\* A write the drain may ask for any number of times is bounded
Withdraw(t, op, h) == (Commit(t, op, h) /\ Fault) \/ Throws(t, op, h)

\* Mutant: the handler is forgotten although its write failed
GiveUpForgetting(t) ==
    LET h == hand[t] IN
    /\ h.write # "none"
    /\ h.tries >= MaxTries \/ h.owner # "registered"
    /\ hand' = [hand EXCEPT ![t] = [h EXCEPT !.write = "none", !.active = FALSE,
                                            !.occupies = FALSE, !.watched = FALSE]]
    /\ UNCHANGED <<row, pass, mode, spent>>

\* The retries are exhausted, or the drain was stopped: the claim is held
GiveUp(t) ==
    LET h == hand[t] IN
    /\ h.write # "none"
    /\ h.tries >= MaxTries \/ h.owner # "registered"
    /\ hand' = [hand EXCEPT ![t] = [h EXCEPT !.write = "none", !.stuck = TRUE]]
    /\ UNCHANGED <<row, pass, mode, spent>>

----------------------------------------------------------------------------
(* Admission and time *)

\* admit and enqueue; a drain admits while it is not claiming
Admit(e) ==
    /\ mode = "up" /\ pass.at = "idle"
    /\ row[e].status = "none"
    /\ row' = [row EXCEPT ![e] = [NoRow EXCEPT !.status = "pending", !.at = NextAt]]
    /\ UNCHANGED <<hand, pass, mode, spent>>

\* An operator resubmits a dead letter
Resubmit(e) ==
    /\ row[e].status = "failed" /\ Fault
    /\ row' = [row EXCEPT ![e] = [NoRow EXCEPT !.status = "pending", !.at = NextAt]]
    /\ UNCHANGED <<hand, pass, mode>>

\* The backoff of a released row ends
DelayEnds(e) ==
    /\ row[e].status = "pending" /\ row[e].delayed
    /\ row' = [row EXCEPT ![e].delayed = FALSE]
    /\ UNCHANGED <<hand, pass, mode, spent>>

Refreshed(h) == (h.active /\ h.closed = "no") \/ h.phase = "claimed"

\* claimLeaseMs without a refresh: the refresh timer is gone, or the process
\* was suspended
LeaseEnds(t) ==
    /\ Held(t) /\ row[hand[t].event].fresh
    /\ IF Refreshed(hand[t]) THEN Fault ELSE UNCHANGED spent
    /\ row' = [row EXCEPT ![hand[t].event].fresh = FALSE]
    /\ UNCHANGED <<hand, pass, mode>>

\* The refresh timer: a refused refresh closes the handler
Refresh(t) ==
    /\ hand[t].active /\ hand[t].phase # "settled" /\ hand[t].closed = "no"
    /\ IF Held(t)
       THEN /\ ~row[hand[t].event].fresh
            /\ row' = [row EXCEPT ![hand[t].event].fresh = TRUE]
            /\ UNCHANGED hand
       ELSE /\ hand' = [hand EXCEPT ![t].closed = "guillotined",
                                    ![t].watched = FALSE]
            /\ UNCHANGED row
    /\ UNCHANGED <<pass, mode, spent>>

----------------------------------------------------------------------------
(* drainOnce *)

\* Mutant: a claim of a dead process of the same host counts as owned
RecoverableRetired(e) ==
    /\ row[e].status = "claimed"
    /\ IF row[e].token = Sibling THEN ~row[e].fresh
                                 ELSE hand[row[e].token].owner = "retired"

\* recoverStaleClaims with the drain's policy: a claim of the live instance is
\* left alone, one of another process while its lease runs and it lives.
Recoverable(e) ==
    /\ row[e].status = "claimed"
    /\ IF row[e].token = Sibling THEN ~row[e].fresh
                                 ELSE hand[row[e].token].owner # "registered"

Recovered(r) == [Freed(r, "pending") EXCEPT
                    !.attempts = IF @ < MaxAttempts THEN @ + 1 ELSE @,
                    !.delayed = r.erred]

Took(h) == IF h.phase = "dead" THEN Ended([h EXCEPT !.taken = TRUE])
                               ELSE [h EXCEPT !.taken = TRUE]

\* The pass recovers, reads the pending rows ...
BeginPass ==
    LET lost == {e \in Events : Recoverable(e)}
        after == [e \in Events |-> IF e \in lost THEN Recovered(row[e]) ELSE row[e]]
        pend == {e \in Events : after[e].status = "pending"}
    IN
    /\ mode = "up" /\ pass.at = "idle"
    /\ pend # {}
    /\ row' = after
    /\ hand' = [t \in Slots |-> IF \E e \in lost : row[e].token = t
                                THEN Took(hand[t]) ELSE hand[t]]
    /\ pass' = (
                   [NoPass EXCEPT !.at = "listed", !.pend = pend,
                                  !.late = {e \in pend : after[e].delayed}])
    /\ UNCHANGED <<mode, spent>>

\* ... then the claims and its own handlers, and decides which lanes are blocked.
\* Between the two reads only promise reactions run in this process: no turn and
\* no timer of it, but another process may write.
ActiveLanes == {Lane(t) : t \in {s \in Slots : hand[s].occupies}}

LeavesLane(t) ==
    /\ t # Sibling /\ hand[t].active
    /\ hand[t].phase = "deferred" /\ ~hand[t].occupies /\ hand[t].closed = "no"

ClaimedLanes == {LaneOf[e] : e \in {c \in HasStatus("claimed") :
                                          ~LeavesLane(row[c].token)}}

Earliest(S, at) == {e \in S : \A f \in S : LaneOf[f] = LaneOf[e] => at[e] <= at[f]}


ListClaims ==
    LET p == pass
        heads == Earliest(p.pend, [e \in Events |-> row[e].at])
    IN
    /\ p.at = "listed"
    /\ pass' = [pass EXCEPT !.at = "scanning",
                   !.blocked = ActiveLanes \cup ClaimedLanes
                                    \cup {LaneOf[e] : e \in heads \cap p.late}]
    /\ UNCHANGED <<row, hand, mode, spent>>

\* supersedeActiveStatesIfNeeded, after its predicate said yes: the pending
\* event takes the place of a turn that was not adopted yet
LaneFree(h, l) == \A t \in Slots : h[t].occupies => LaneOf[h[t].event] # l

\* Mutant: the lane is taken for free although the superseding write failed
SupersedeAnyway(e, t) ==
    LET h == hand[t] IN
    /\ pass.at = "scanning" /\ mode = "up" /\ e \in pass.pend
    /\ h.active /\ PreAdoption(h) /\ h.closed = "no"
    /\ Lane(t) = LaneOf[e] /\ <<e, h.event>> \in Supersedes
    /\ SettleOnce(t, "complete", [h EXCEPT !.closed = "superseded",
                                           !.watched = FALSE])
    /\ pass' = [pass EXCEPT !.blocked = @ \ {LaneOf[e]}]
    /\ UNCHANGED mode

Supersede(e, t) ==
    LET h == hand[t] IN
    /\ pass.at = "scanning" /\ mode = "up" /\ e \in pass.pend
    /\ h.active /\ PreAdoption(h) /\ h.closed = "no"
    /\ Lane(t) = LaneOf[e] /\ <<e, h.event>> \in Supersedes
    /\ SettleOnce(t, "complete", [h EXCEPT !.closed = "superseded",
                                           !.watched = FALSE])
    /\ pass' = [pass EXCEPT !.blocked =
                   IF LaneFree(hand', LaneOf[e]) THEN @ \ {LaneOf[e]} ELSE @]
    /\ UNCHANGED mode

\* claimNext: the first pending candidate whose lane is free.  A candidate
\* that a sibling claimed since blocks its lane.
Window == {e \in pass.pend \ pass.late : LaneOf[e] \notin pass.blocked}

Claimable ==
    LET taken == {LaneOf[e] : e \in Window \cap HasStatus("claimed")}
    IN {e \in Window \cap HasStatus("pending") : LaneOf[e] \notin taken}

Unused(t) == hand[t].phase \in {"none", "settled"}

ClaimNext ==
    /\ pass.at \in {"scanning", "claiming"} /\ mode = "up"
    /\ \E e \in Claimable, t \in Slots :
          /\ \A f \in Claimable : row[e].at <= row[f].at
          /\ Unused(t) /\ \A s \in Slots : Unused(s) => t <= s
          /\ row' = [row EXCEPT ![e].status = "claimed", ![e].token = t,
                                ![e].fresh = TRUE]
          /\ hand' = [hand EXCEPT ![t] = [NoHandler EXCEPT !.event = e,
                                 !.owner = "registered", !.phase = "claimed"]]
          /\ pass' = [pass EXCEPT !.at = "claimed", !.got = t,
                                  !.pend = @ \ {e}]
    /\ UNCHANGED <<mode, spent>>

\* ... and the pass goes on: a stop hands the claim back, else the handler runs.
\* (Lanes are fixed here, so that its second look at the lane's owner never finds
\* one: OneTurnPerLane holds without it.)
HandBack ==
    LET t == pass.got IN
    /\ pass.at = "claimed" /\ mode # "up"
    /\ row' = IF Held(t) THEN [row EXCEPT ![hand[t].event] = Applied(@, "cancel")]
                         ELSE row
    /\ hand' = [hand EXCEPT ![t] = NoHandler]
    /\ pass' = NoPass
    /\ UNCHANGED <<mode, spent>>

RunClaimed ==
    LET t == pass.got IN
    /\ pass.at = "claimed" /\ mode = "up"
    /\ hand' = [hand EXCEPT ![t] = [@ EXCEPT !.phase = "dispatching", !.active = TRUE,
                           !.occupies = TRUE, !.watched = TRUE, !.running = TRUE]]
    /\ pass' = [pass EXCEPT !.at = "claiming", !.got = 0,
                            !.blocked = @ \cup {Lane(t)}]
    /\ UNCHANGED <<row, mode, spent>>

EndPass ==
    /\ pass.at \in {"scanning", "claiming"}
    /\ mode # "up" \/ Claimable = {}
    /\ pass' = NoPass
    /\ UNCHANGED <<row, hand, mode, spent>>

----------------------------------------------------------------------------
(* The dispatch of one event.  A turn reports one outcome. *)

Adopting(h) == [h EXCEPT !.phase = "adopted", !.watched = FALSE, !.ran = TRUE]
Deferred(h) == [h EXCEPT !.phase = "deferred",
                         !.occupies = @ /\ LaneOf[h.event] \notin Loose]
Open(t) == /\ \/ hand[t].phase = "deferred"
              \/ hand[t].phase = "dispatching" /\ (hand[t].running \/ hand[t].final)
           /\ hand[t].closed = "no" /\ hand[t].write = "none" /\ ~hand[t].stuck

\* onAdopted; a closed handler's call throws, so its turn does not run
Adopt(t) ==
    /\ Open(t)
    /\ SettleOnce(t, "complete", Adopting(hand[t]))
    /\ UNCHANGED <<pass, mode>>

Defer(t) ==
    /\ hand[t].phase = "dispatching" /\ hand[t].running
    /\ hand' = [hand EXCEPT ![t] = Deferred(@)]
    /\ UNCHANGED <<row, pass, mode, spent>>

DeferredHeartbeat(t) ==
    /\ hand[t].phase = "deferred" /\ ~Aborted(hand[t]) /\ ~hand[t].watched
    /\ hand' = [hand EXCEPT ![t].watched = TRUE]
    /\ UNCHANGED <<row, pass, mode, spent>>

AdoptionFinalizing(t) ==
    /\ PreAdoption(hand[t]) /\ hand[t].closed = "no" /\ ~hand[t].final
    /\ hand' = [hand EXCEPT ![t].watched = FALSE, ![t].final = TRUE]
    /\ UNCHANGED <<row, pass, mode, spent>>

\* onFailed of a deferred turn: the watchdog stays armed until the write is in
Fail(t) ==
    /\ Open(t)
    /\ \E op \in Dispositions(t) : SettleOnce(t, op, hand[t])
    /\ UNCHANGED <<pass, mode>>

\* onCancelled, onAbandoned
Abandon(t) ==
    /\ Open(t)
    /\ \E op \in {"cancel", "release"} :
          Withdraw(t, op, [hand[t] EXCEPT !.watched = FALSE])
    /\ UNCHANGED <<pass, mode>>

\* The dispatch returns, through the monitor's reading of its result: a
\* hand-over to a deferred turn wins over a terminal result, a stop that races
\* the return changes only what nobody vouched for.
Returned(t) == [hand[t] EXCEPT !.running = FALSE]
Finished(t) == ~PreAdoption(hand[t]) \/ hand[t].closed # "no"
HandedOver(t) == hand[t].final \/ hand[t].phase = "deferred"

ReturnIgnored(t) ==
    /\ hand[t].running /\ Finished(t)
    /\ hand' = [hand EXCEPT ![t] = Returned(t)]
    /\ UNCHANGED <<row, pass, mode, spent>>

ReturnHandedOver(t) ==
    /\ hand[t].running /\ ~Finished(t) /\ HandedOver(t)
    /\ hand' = [hand EXCEPT ![t] = IF @.phase = "deferred" \/ @.owner # "registered"
                                   THEN Returned(t) ELSE Deferred(Returned(t))]
    /\ UNCHANGED <<row, pass, mode, spent>>

\* Mutant: the turn is marked as adopted only by a successful write
ReturnCompletedUnmarked(t) ==
    /\ hand[t].running /\ ~HandedOver(t) /\ Open(t)
    /\ SettleOnce(t, "complete", [Returned(t) EXCEPT !.ran = TRUE])
    /\ UNCHANGED <<pass, mode>>

\* The dispatch did the work itself: result "completed", of a turn that did not
\* report a failure before
ReturnCompleted(t) ==
    /\ hand[t].running /\ ~HandedOver(t) /\ Open(t)
    /\ SettleOnce(t, "complete", Adopting(Returned(t)))
    /\ UNCHANGED <<pass, mode>>

\* An error, or nothing at all from a dispatch that was aborted
ReturnFailed(t) ==
    /\ hand[t].running /\ ~Finished(t)
    /\ \E op \in Dispositions(t) :
          SettleOnce(t, op, [Returned(t) EXCEPT !.watched = FALSE])
    /\ UNCHANGED <<pass, mode>>

\* The gateway is draining for a restart: the row goes back untouched
ReturnDraining(t) ==
    /\ hand[t].running /\ ~Finished(t) /\ ~HandedOver(t)
    /\ hand[t].write = "none"
    /\ Withdraw(t, "cancel", [Returned(t) EXCEPT !.watched = FALSE])
    /\ UNCHANGED <<pass, mode>>

\* The stall watchdog
Stall(t) ==
    /\ hand[t].watched /\ PreAdoption(hand[t])
    /\ \E op \in Disposition(row[hand[t].event]) :
          SettleOnce(t, op, [hand[t] EXCEPT !.closed = "guillotined", !.watched = FALSE])
    /\ UNCHANGED <<pass, mode>>

----------------------------------------------------------------------------
(* Stop, restart, crash *)

\* stop aborts the drain: its instance is retired, its turns are told
Stop ==
    /\ mode = "up" /\ Fault
    /\ mode' = "stopping"
    /\ hand' = [t \in Slots |->
          IF hand[t].phase = "none" \/ hand[t].owner # "registered" THEN hand[t]
          ELSE IF hand[t].active /\ PreAdoption(hand[t])
          THEN [hand[t] EXCEPT !.owner = "retired", !.watched = FALSE]
          ELSE [hand[t] EXCEPT !.owner = "retired"]]
    /\ UNCHANGED <<row, pass>>

\* ... and disposes of it when the pass and the deliveries have ended
Dispose ==
    /\ mode = "stopping" /\ pass.at = "idle"
    /\ \A t \in Slots : hand[t].phase # "none" => ~hand[t].running
    /\ mode' = "down"
    /\ hand' = [t \in Slots |-> IF hand[t].phase # "none"
                                THEN [hand[t] EXCEPT !.active = FALSE, !.occupies = FALSE,
                                                     !.watched = FALSE]
                                ELSE hand[t]]
    /\ UNCHANGED <<row, pass, spent>>

Start ==
    /\ mode = "down"
    /\ mode' = "up"
    /\ UNCHANGED <<row, hand, pass, spent>>

\* The process dies: its claims stay in the database
Crash ==
    /\ Fault
    /\ mode' = "down"
    /\ pass' = NoPass
    /\ row' = row
    /\ hand' = [t \in Slots |->
          IF hand[t].phase = "none" THEN hand[t]
          ELSE IF Held(t)
          THEN [NoHandler EXCEPT !.event = hand[t].event, !.owner = "dead",
                   !.phase = "dead", !.ran = hand[t].ran]
          ELSE Ended(hand[t])]

----------------------------------------------------------------------------
(* The other processes: their claims carry tokens of their own.  They recover *)
(* a claim whose process died or whose lease ran out.                         *)

SiblingClaims(e) ==
    /\ row[e].status = "pending" /\ Fault
    /\ row' = [row EXCEPT ![e].status = "claimed", ![e].token = Sibling,
                          ![e].fresh = TRUE]
    /\ UNCHANGED <<hand, pass, mode>>

SiblingRecovers(e) ==
    LET t == row[e].token IN
    /\ row[e].status = "claimed" /\ t # Sibling
    /\ hand[t].owner = "dead" \/ ~row[e].fresh
    /\ row' = [row EXCEPT ![e] = Recovered(@)]
    /\ hand' = [hand EXCEPT ![t] = Took(@)]
    /\ UNCHANGED <<pass, mode, spent>>

\* It settles its claim one way or another, or dies with it
SiblingEnds(e) ==
    /\ row[e].status = "claimed" /\ row[e].token = Sibling /\ row[e].fresh
    /\ \/ \E op \in {"complete", "cancel"} \cup Disposition(row[e]) :
              row' = [row EXCEPT ![e] = Applied(@, op)]
       \/ row' = [row EXCEPT ![e].fresh = FALSE]
    /\ UNCHANGED <<hand, pass, mode, spent>>

----------------------------------------------------------------------------
DrainStep ==
    BeginPass \/ ListClaims \/ ClaimNext \/ HandBack \/ RunClaimed \/ EndPass

TurnStep(t) ==
    \/ Adopt(t) \/ Defer(t) \/ DeferredHeartbeat(t) \/ AdoptionFinalizing(t)
    \/ Fail(t) \/ Abandon(t)

Return(t) ==
    \/ ReturnIgnored(t) \/ ReturnHandedOver(t) \/ ReturnCompleted(t)
    \/ ReturnFailed(t) \/ ReturnDraining(t)

\* A turn of this process: a call, a callback, a timer
Local ==
    \/ Stop \/ Dispose \/ Start
    \/ \E e \in Events : Admit(e)
    \/ \E e \in Events, t \in Slots : Supersede(e, t)
    \/ \E t \in Slots : TurnStep(t)
    \/ \E t \in Slots : Return(t)
    \/ \E t \in Slots : Stall(t) \/ RetryWrite(t) \/ GiveUp(t) \/ Refresh(t)

\* Time, and what other processes do
Outside ==
    \/ Crash
    \/ \E t \in Slots : LeaseEnds(t)
    \/ \E e \in Events : Resubmit(e) \/ DelayEnds(e)
    \/ \E e \in Events : SiblingClaims(e) \/ SiblingRecovers(e) \/ SiblingEnds(e)

Next == DrainStep \/ Outside \/ (pass.at # "listed" /\ Local)

\* Timers fire, passes are polled, aborted or not a dispatch returns, a turn
\* that was handed the event reports; a stopped drain is started again.
Fairness ==
    /\ WF_vars(DrainStep) /\ WF_vars(Dispose) /\ WF_vars(Start)
    /\ \A e \in Events : WF_vars(DelayEnds(e)) /\ WF_vars(SiblingEnds(e))
    /\ \A t \in Slots :
          /\ WF_vars(Stall(t)) /\ WF_vars(RetryWrite(t) \/ GiveUp(t))
          /\ WF_vars(Return(t)) /\ WF_vars(Adopt(t) \/ Fail(t))

Spec == Init /\ [][Next]_vars /\ Fairness

----------------------------------------------------------------------------
(* Properties *)

(***************************************************************************)
(* A turn that was adopted, or a dispatch that did the work, is never      *)
(* offered again: its row is completed, or still claimed under the same    *)
(* token while the completion is retried ("wedged ownership beats silent   *)
(* double-dispatch").  The stop of the drain, the stall watchdog, a        *)
(* superseding event and a late failure all race that write; only a claim  *)
(* that recovery took from its owner (a crash, a lost lease, a stopped     *)
(* drain) is excused.                                                      *)
(***************************************************************************)
RanIsKept ==
    \A t \in Slots : hand[t].ran /\ ~hand[t].taken =>
        row[hand[t].event].status = "completed" \/ Held(t)

(***************************************************************************)
(* No claim is orphaned: while the instance that owns a claim counts as    *)
(* alive, so that recovery leaves the row alone, a handler or the current  *)
(* pass still works on it.                                                 *)
(***************************************************************************)
NoOrphanClaim ==
    \A e \in HasStatus("claimed") :
        LET t == row[e].token IN
        t # Sibling /\ hand[t].owner = "registered" =>
            \/ hand[t].active /\ hand[t].event = e
            \/ pass.at = "claimed" /\ pass.got = t

(***************************************************************************)
(* One turn per lane and drain: a drain never runs two turns of one lane   *)
(* that both still occupy it, whatever was superseded, deferred or handed  *)
(* back during the pass.                                                   *)
(***************************************************************************)
OneTurnPerLane ==
    \A t, u \in Slots :
        t # u /\ hand[t].occupies /\ hand[u].occupies => Lane(t) # Lane(u)

(***************************************************************************)
(* Every pending event is completed or dead-lettered in the end, through   *)
(* crashes, stops, lost leases, failed writes and stalled or superseded    *)
(* turns.  The one way out the code leaves: a handler keeps the claim, or  *)
(* the lane, for the rest of its drain's life, because it could not write  *)
(* its settlement (the "holding claim" state) or lost its claim to another *)
(* process: its turn was adopted and the completion cannot be written, or  *)
(* a refused refresh closed it before adoption (markLeaseReclaimed), after *)
(* which nothing removes it from its lane.                                 *)
(***************************************************************************)
Wedged(e) ==
    \E t \in Slots :
        /\ hand[t].owner = "registered" /\ Lane(t) = LaneOf[e]
        /\ IF Held(t) THEN hand[t].stuck ELSE hand[t].occupies

EveryEventEnds ==
    \A e \in Events : row[e].status = "pending" ~>
        row[e].status \in {"completed", "failed"} \/ []Wedged(e)

=============================================================================
