------------------------ MODULE AttemptControlsProofs ------------------------
(***************************************************************************)
(* Safety of the lane watchdog and of the attempts' controls for every     *)
(* number of attempts, every budget and every duration.                    *)
(*                                                                         *)
(* WatchdogInv: after an abort the slot is freed within one grace, and a   *)
(* freed slot leaves nothing behind.  HoldInv: the watchdog stays one      *)
(* grace behind the attempt it watches, a slot without a watchdog timer is *)
(* accounted for, and the signals are raised by the lane or by the attempt *)
(* that has it; the three depend on each other through the deadline the    *)
(* attempt owns.  On it rest the account of the execution budget           *)
(* (BudgetInv), the types and that an idle expiry was idle.                *)
(***************************************************************************)
EXTENDS AttemptControls, FiniteSetTheorems, TLAPS

\* The abort and release handlers stay registered until one of them is used
\* or the task is closed.
Attached == ~aborted /\ ~closed => "abort" \in listeners /\ "release" \in listeners

\* The grace timer is only armed by an abort.
GraceAborted == timer.kind = "grace" => aborted /\ timer.at \in Int

WatchdogInv ==
    /\ now \in Int
    /\ Attached
    /\ GraceAborted
    /\ AbortIsBounded
    /\ ClosedIsClean
    /\ closed => outcome # "none"

\* The step form of GraceIsFinal.
GraceKept == timer.kind = "grace" /\ timer' # timer => outcome' # "none"

(***************************************************************************)
(* What one call does to the watchdog                                      *)
(***************************************************************************)

\* An armed progress timer is never a grace timer, and a rejection settles
\* an unsettled race (armProgressTimeout, rejectForTimeout).
LEMMA ArmProgressEffect ==
    ASSUME NEW d, NEW p, ArmProgress(d, p)
    PROVE  /\ timer'.kind # "grace"
           /\ outcome # "none" => outcome' # "none"
BY DEF ArmProgress, Reject, Timer, NoTimer, settleVars

\* A published deadline keeps the watchdog's invariant: it is ignored once
\* the task is aborted or closed (taskTimeoutSubscribe's handler).
LEMMA PublishKeeps ==
    ASSUME WatchdogInv, NEW d, NEW p, Publish(d, p),
           UNCHANGED <<now, listeners, aborted, released, closed>>
    PROVE  WatchdogInv' /\ GraceKept
<1>1. CASE "deadline" \notin listeners \/ closed \/ timedOut \/ aborted \/ released
  BY <1>1 DEF Publish, WatchdogInv, Attached, GraceAborted, AbortIsBounded, ClosedIsClean, GraceKept
<1>2. CASE ~("deadline" \notin listeners \/ closed \/ timedOut \/ aborted \/ released)
  <2>1. ArmProgress(d, p)
    BY <1>2 DEF Publish
  <2> QED
    BY <1>2, <2>1, ArmProgressEffect
    DEF WatchdogInv, Attached, GraceAborted, AbortIsBounded, ClosedIsClean, GraceKept
<1> QED
  BY <1>1, <1>2

\* The abort handler arms the grace timer, or the task is over (onAbort).
LEMMA RaiseAbortKeeps ==
    ASSUME WatchdogInv, RaiseAbort, UNCHANGED <<now, outcome, closed>>
    PROVE  WatchdogInv' /\ GraceKept
BY AttemptAssumption, WatchdogAssumption
DEF RaiseAbort, WatchdogInv, Attached, GraceAborted, AbortIsBounded, ClosedIsClean, GraceKept, Timer, NoTimer

\* The release handler settles the race before the abort handler runs.
LEMMA RaiseReleaseKeeps ==
    ASSUME WatchdogInv, ~aborted, RaiseRelease, UNCHANGED <<now, closed>>
    PROVE  WatchdogInv' /\ GraceKept
<1>1. CASE closed
  BY <1>1, AttemptAssumption, WatchdogAssumption
  DEF RaiseRelease, Reject, WatchdogInv, Attached, GraceAborted, AbortIsBounded, ClosedIsClean, GraceKept,
      Timer, NoTimer, settleVars
<1>2. CASE ~closed
  BY <1>2, AttemptAssumption, WatchdogAssumption
  DEF RaiseRelease, Reject, WatchdogInv, Attached, GraceAborted, AbortIsBounded, ClosedIsClean, GraceKept,
      Timer, NoTimer, settleVars
<1> QED
  BY <1>1, <1>2

\* A deadline change by an attempt is published or ignored.
LEMMA DeadlineChangedKeeps ==
    ASSUME WatchdogInv, NEW a, NEW r, NEW d, DeadlineChanged(a, r, d),
           UNCHANGED <<now, listeners, aborted, released, closed>>
    PROVE  WatchdogInv' /\ GraceKept
<1>1. CASE IsCurrent(a)
  BY <1>1, PublishKeeps DEF DeadlineChanged
<1>2. CASE ~IsCurrent(a)
  BY <1>2 DEF DeadlineChanged, settleVars, WatchdogInv, Attached, GraceAborted, AbortIsBounded,
              ClosedIsClean, GraceKept
<1> QED
  BY <1>1, <1>2

\* A step that leaves the watchdog alone keeps its invariant.
LEMMA WatchdogUntouched ==
    ASSUME WatchdogInv, UNCHANGED <<now, timer, listeners, aborted, outcome, closed>>
    PROVE  WatchdogInv' /\ GraceKept
BY DEF WatchdogInv, Attached, GraceAborted, AbortIsBounded, ClosedIsClean, GraceKept

-----------------------------------------------------------------------------
\* The watchdog's invariant holds when the task starts, aborted or not.
LEMMA WatchdogStarts == Init => WatchdogInv
BY WatchdogAssumption
DEF Init, WatchdogInit, WatchdogInv, Attached, GraceAborted, AbortIsBounded, ClosedIsClean,
    Timer, NoTimer

\* Every step keeps it, and none disturbs a grace timer without settling the task.
LEMMA WatchdogSteps ==
    ASSUME WatchdogInv, [Next]_vars
    PROVE  WatchdogInv' /\ GraceKept
<1> USE DEF signalVars, settleVars, attemptVars, watchdogVars
<1>1. CASE WatchdogStep
  <2>1. CASE Progress
    BY <2>1, WatchdogUntouched DEF Progress
  <2>2. CASE TimerFires
    <3>1. CASE timer.kind = "progress"
      BY <2>2, <3>1, ArmProgressEffect
      DEF TimerFires, Due, WatchdogInv, Attached, GraceAborted, AbortIsBounded, ClosedIsClean,
          GraceKept, NoTimer
    <3>2. CASE timer.kind # "progress"
      BY <2>2, <3>2
      DEF TimerFires, Due, Reject, WatchdogInv, Attached, GraceAborted, AbortIsBounded,
          ClosedIsClean, GraceKept, NoTimer
    <3> QED
      BY <3>1, <3>2
  <2>3. CASE Finish
    BY <2>3
    DEF Finish, WatchdogInv, Attached, GraceAborted, AbortIsBounded, ClosedIsClean, GraceKept,
        NoTimer
  <2> QED
    BY <1>1, <2>1, <2>2, <2>3 DEF WatchdogStep
<1>2. CASE BodySettles
  BY <1>2
  DEF BodySettles, SettleBody, WatchdogInv, Attached, GraceAborted, AbortIsBounded,
      ClosedIsClean, GraceKept
<1>3. CASE StartMaintenance
  BY <1>3, PublishKeeps DEF StartMaintenance
<1>4. CASE EndMaintenance
  BY <1>4, PublishKeeps DEF EndMaintenance
<1>5. CASE OpenAttempt
  BY <1>5, PublishKeeps, WatchdogUntouched DEF OpenAttempt
<1>6. ASSUME NEW a \in Attempts, AttemptStep(a)
      PROVE  WatchdogInv' /\ GraceKept
  <2>1. CASE ArmDeadline(a)
    BY <2>1, DeadlineChangedKeeps, WatchdogUntouched DEF ArmDeadline, Schedule
  <2>2. CASE ApprovalStarts(a)
    BY <2>2, DeadlineChangedKeeps DEF ApprovalStarts
  <2>3. CASE ApprovalEnds(a)
    BY <2>3, DeadlineChangedKeeps DEF ApprovalEnds, Schedule
  <2>4. CASE DeadlineExpires(a)
    BY <2>4, DeadlineChangedKeeps, WatchdogUntouched DEF DeadlineExpires, Schedule
  <2>5. CASE IdleTimeout(a)
    BY <2>5, WatchdogUntouched DEF IdleTimeout
  <2>6. CASE ReleaseTimerFires(a)
    BY <2>6, RaiseReleaseKeeps, WatchdogUntouched DEF ReleaseTimerFires, IsCurrent
  <2>7. CASE ExternalAbort(a)
    BY <2>7, RaiseAbortKeeps, WatchdogUntouched DEF ExternalAbort
  <2>8. CASE StreamCleanup(a)
    BY <2>8, WatchdogUntouched DEF StreamCleanup
  <2>9. CASE CloseAttempt(a)
    BY <2>9, PublishKeeps, WatchdogUntouched DEF CloseAttempt
  <2> QED
    BY <1>6, <2>1, <2>2, <2>3, <2>4, <2>5, <2>6, <2>7, <2>8, <2>9 DEF AttemptStep
<1>7. CASE LaneAbort
  BY <1>7, RaiseAbortKeeps DEF LaneAbort
<1>8. CASE RetireAttempt
  BY <1>8, RaiseAbortKeeps DEF RetireAttempt
<1>9. CASE Revoke
  BY <1>9, WatchdogUntouched DEF Revoke
<1>10. CASE Tick
  BY <1>10, WatchdogAssumption
  DEF Tick, WatchdogInv, Attached, GraceAborted, AbortIsBounded, ClosedIsClean, GraceKept
<1>11. CASE UNCHANGED vars
  BY <1>11, WatchdogUntouched DEF vars
<1> QED
  BY <1>1, <1>2, <1>3, <1>4, <1>5, <1>6, <1>7, <1>8, <1>9, <1>10, <1>11 DEF Next

(***************************************************************************)
(* After an abort the slot is freed within one grace, and a freed slot     *)
(* keeps no timer and no listener: for every run, whatever the task does.  *)
(***************************************************************************)
THEOREM AbortTheorem == Spec => [](AbortIsBounded /\ ClosedIsClean)
<1>1. WatchdogInv /\ [Next]_vars => WatchdogInv'
  BY WatchdogSteps
<1>2. WatchdogInv => AbortIsBounded /\ ClosedIsClean
  BY DEF WatchdogInv
<1> QED
  BY <1>1, <1>2, WatchdogStarts, PTL DEF Spec

(***************************************************************************)
(* Once armed, the grace timer is neither replaced nor postponed before    *)
(* the task is settled.                                                    *)
(***************************************************************************)
THEOREM GraceTheorem == Spec => GraceIsFinal
<1>1. WatchdogInv /\ [Next]_vars => WatchdogInv'
  BY WatchdogSteps
<1>2. WatchdogInv /\ [Next]_vars => [timer.kind = "grace" /\ timer' # timer => outcome' # "none"]_vars
  BY WatchdogSteps DEF GraceKept
<1> QED
  BY <1>1, <1>2, WatchdogStarts, PTL DEF Spec, GraceIsFinal

-----------------------------------------------------------------------------
(* Who holds the lane                                                        *)

Execs ==
    {NotArmed, ExecClosed, Unlimited}
    \cup [kind : {"bounded"}, at : Int, graceUsed : BOOLEAN]
    \cup [kind : {"paused"}, left : Int, graceUsed : BOOLEAN]

Releases == {NoTimer, [kind |-> "spent"]} \cup [kind : {"release"}, at : Int]

Controls ==
    [state : {"unborn", "active", "aborted", "closed"}, owned : BOOLEAN, release : Releases,
     run : {"live", "aborted"}, exec : Execs, budget : AttemptTimeouts \cup {Unlimited},
     pauses : Nat, ran : Nat]

Armed(r) == r.exec.kind \in {"bounded", "paused", "unlimited"}

\* Attempts are sequential, and only a live run has a deadline or no unwind.
AttemptsOK ==
    /\ att \in [Attempts -> Controls]
    /\ \A a \in Attempts :
         /\ att[a].state \in {"active", "aborted"} => activeOwner = a
         /\ maintenance # "done" => att[a].state = "unborn"
         /\ att[a].release # NoTimer => att[a].run = "aborted"
         /\ Armed(att[a]) => att[a].run = "live" /\ att[a].state \in {"active", "aborted"}
         /\ att[a].state = "aborted" => aborted

\* The flags of the watchdog agree, and a progress timer has an end to watch for.
WatchOK ==
    /\ now \in Int
    /\ progressAt \in Int
    /\ ~aborted /\ ~closed => "deadline" \in listeners
    /\ released => aborted
    /\ timedOut => outcome # "none"
    /\ timer.kind = "progress" /\ outcome = "none" => ownerDeadline.kind # "unlimited"

\* WatchdogBehindAttempt, and that the watchdog knows the deadline.
Behind ==
    \A a \in Attempts : outcome = "none" /\ IsCurrent(a) =>
        /\ att[a].exec.kind = "bounded" =>
             /\ timer = Timer("progress", att[a].exec.at + Grace)
             /\ ownerDeadline = Bounded(att[a].exec.at + Grace)
        /\ att[a].exec.kind \in {"paused", "unlimited"} => timer = NoTimer

HoldInv == WatchdogInv /\ AttemptsOK /\ WatchOK /\ Behind /\ HoldIsAccounted

-----------------------------------------------------------------------------
(* The operators on an attempt's controls *)

\* clearTimers and abortRun change the deadline and the run's state alone.
LEMMA StoppedFacts ==
    ASSUME NEW r \in Controls
    PROVE  /\ Cleared(r) \in Controls /\ Stopped(r) \in Controls
           /\ ~Armed(Cleared(r)) /\ ~Armed(Stopped(r))
           /\ Cleared(r).run = r.run /\ Stopped(r).run = "aborted"
           /\ Cleared(r).state = r.state /\ Stopped(r).state = r.state
           /\ Cleared(r).owned = r.owned /\ Stopped(r).owned = r.owned
           /\ Cleared(r).release = r.release /\ Stopped(r).release = r.release
  <1> DEFINE e == IF r.exec = NotArmed THEN NotArmed ELSE ExecClosed
  <1>1. e \in Execs /\ e.kind \notin {"bounded", "paused", "unlimited"}
    BY DEF Execs, NotArmed, ExecClosed
  <1>2. Cleared(r) = [r EXCEPT !.exec = e]
    BY DEF Cleared, Controls
  <1>3. [r EXCEPT !.run = "aborted"] \in Controls
    BY DEF Controls
  <1>4. Stopped(r) = [[r EXCEPT !.run = "aborted"] EXCEPT !.exec = e]
    BY <1>3 DEF Stopped, Cleared, Controls
  <1> HIDE DEF e
  <1>5. /\ Cleared(r) \in Controls /\ ~Armed(Cleared(r)) /\ Cleared(r).run = r.run
        /\ Cleared(r).state = r.state /\ Cleared(r).owned = r.owned
        /\ Cleared(r).release = r.release
    BY <1>1, <1>2 DEF Controls, Armed
  <1>6. /\ Stopped(r) \in Controls /\ ~Armed(Stopped(r)) /\ Stopped(r).run = "aborted"
        /\ Stopped(r).state = r.state /\ Stopped(r).owned = r.owned
        /\ Stopped(r).release = r.release
    BY <1>1, <1>4 DEF Controls, Armed
  <1> QED
    BY <1>5, <1>6

\* A published deadline either reaches the watchdog, which then watches for
\* it or gives the task up, or changes nothing.
LEMMA PublishEffect ==
    ASSUME WatchdogInv, WatchOK, NEW d, NEW p, Publish(d, p)
    PROVE  /\ outcome' = "none" => outcome = "none"
           /\ aborted => UNCHANGED <<timer, ownerDeadline, outcome>>
           /\ timedOut' => outcome' # "none"
           /\ timer'.kind = "progress" /\ outcome' = "none" => ownerDeadline'.kind # "unlimited"
           /\ ~aborted /\ outcome = "none" =>
                /\ ownerDeadline' = d
                /\ d.kind = "unlimited" => timer' = NoTimer
                /\ d.kind # "unlimited" /\ outcome' = "none" =>
                      timer' = Timer("progress", Expiry(d, p))
  <1>1. CASE "deadline" \notin listeners \/ closed \/ timedOut \/ aborted \/ released
    BY <1>1 DEF Publish, WatchOK, WatchdogInv
  <1>2. CASE ~("deadline" \notin listeners \/ closed \/ timedOut \/ aborted \/ released)
    BY <1>2 DEF Publish, ArmProgress, Reject, WatchOK, settleVars, NoTimer, Timer, Expiries
  <1> QED
    BY <1>1, <1>2

\* The pads and the roundings stay within the deadlines' types.
LEMMA DeadlineTypes ==
    /\ \A n \in Int : AtLeastOne(n) \in Int /\ AtLeastOne(n) >= 1
    /\ \A t, g : Running(t, g).kind = "bounded" /\ Paused(t, g).kind = "paused"
    /\ \A t \in Int, g \in BOOLEAN : Running(t, g) \in Execs /\ Paused(t, g) \in Execs
    /\ \A t \in Int : LaneTimeoutOf(Bounded(t)) = Bounded(t + Grace)
    /\ LaneTimeoutOf(Unlimited) = Unlimited
BY WatchdogAssumption
DEF AtLeastOne, Running, Paused, Execs, LaneTimeoutOf, Bounded, Unlimited

-----------------------------------------------------------------------------
(* The attempts *)

\* An attempt is open when it is active or aborted.
LEMMA OpenFacts ==
    ASSUME AttemptsOK
    PROVE  /\ Open \subseteq Attempts
           /\ \A a \in Attempts : a \in Open <=> att[a].state \in {"active", "aborted"}
           /\ \A a \in Open : activeOwner = a
BY DEF AttemptsOK, Open, Born, Controls

\* A step that replaces the controls of one attempt, and keeps its state.
LEMMA ReplaceKeeps ==
    ASSUME AttemptsOK, NEW a \in Attempts, NEW r \in Controls,
           att' = [att EXCEPT ![a] = r],
           r.state = att[a].state,
           r.release # NoTimer => r.run = "aborted",
           Armed(r) => r.run = "live" /\ r.state \in {"active", "aborted"},
           aborted' = aborted, UNCHANGED <<activeOwner, maintenance>>
    PROVE  AttemptsOK'
  <1>1. att' \in [Attempts -> Controls]
    BY DEF AttemptsOK
  <1>2. \A b \in Attempts : att'[b] = IF b = a THEN r ELSE att[b]
    BY DEF AttemptsOK
  <1>3. \A b \in Attempts : Armed(att[b])' <=> Armed(att'[b])
    BY DEF Armed
  <1> QED
    BY <1>1, <1>2, <1>3 DEF AttemptsOK

\* A deadline change writes the attempt's new controls, which it may now own.
LEMMA ChangeKeeps ==
    ASSUME AttemptsOK, NEW a \in Attempts, NEW r \in Controls, NEW d,
           DeadlineChanged(a, r, d),
           r.state = att[a].state, r.release = att[a].release,
           r.run = "live", att[a].run = "live", att[a].state \in {"active", "aborted"},
           aborted' = aborted, UNCHANGED <<activeOwner, maintenance>>
    PROVE  AttemptsOK'
  <1>1. PICK q \in Controls : /\ att' = [att EXCEPT ![a] = q]
                              /\ q.state = r.state /\ q.release = r.release /\ q.run = r.run
    <2>1. [r EXCEPT !.owned = TRUE] \in Controls
      BY DEF Controls
    <2>2. /\ [r EXCEPT !.owned = TRUE].state = r.state
          /\ [r EXCEPT !.owned = TRUE].release = r.release
          /\ [r EXCEPT !.owned = TRUE].run = r.run
      BY DEF Controls
    <2> QED
      BY <2>1, <2>2 DEF DeadlineChanged
  <1>2. q.release = NoTimer
    BY <1>1 DEF AttemptsOK
  <1> QED
    BY <1>1, <1>2, ReplaceKeeps

\* Once an abort has stopped every open run, no attempt has a deadline left.
LEMMA StoppedAllFacts ==
    ASSUME AttemptsOK, NEW f \in [Attempts -> Controls]
    PROVE  /\ StoppedAll(f) \in [Attempts -> Controls]
           /\ \A a \in Attempts :
                /\ StoppedAll(f)[a].state = f[a].state
                /\ StoppedAll(f)[a].release = f[a].release
                /\ a \in Open => ~Armed(StoppedAll(f)[a]) /\ StoppedAll(f)[a].run = "aborted"
                /\ a \notin Open => StoppedAll(f)[a] = f[a]
BY StoppedFacts DEF StoppedAll

\* What a stopped run may have left.
Quieted(r) == ~Armed(r) /\ (r.release # NoTimer => r.run = "aborted")

\* The same step keeps the controls well formed, if every attempt that is not
\* open has no more than a stopped run may have.
LEMMA StoppedAllKeeps ==
    ASSUME AttemptsOK, NEW f \in [Attempts -> Controls],
           \A a \in Attempts : f[a].state # att[a].state =>
                                  att[a].state = "active" /\ f[a].state = "aborted",
           \A a \in Attempts : a \in Open \/ Quieted(f[a]),
           att' = StoppedAll(f), aborted' = TRUE, UNCHANGED <<activeOwner, maintenance>>
    PROVE  AttemptsOK'
  <1>1. \A a \in Attempts : Armed(att[a])' <=> Armed(att'[a])
    BY DEF Armed
  <1>2. \A a \in Attempts : Quieted(att'[a])
    BY StoppedAllFacts DEF Quieted
  <1>3. \A a \in Attempts : att'[a].state = f[a].state
    BY StoppedAllFacts
  <1>4. att' \in [Attempts -> Controls]
    BY StoppedAllFacts
  <1> QED
    BY <1>1, <1>2, <1>3, <1>4 DEF AttemptsOK, Quieted

\* An attempt that is not open has nothing left to stop.
LEMMA NotOpenQuieted ==
    ASSUME AttemptsOK
    PROVE  \A a \in Attempts : a \in Open \/ Quieted(att[a])
BY OpenFacts DEF AttemptsOK, Quieted

\* The controls are well formed when the task starts.
LEMMA AttemptsStart == Init => AttemptsOK
  <1>1. Unborn \in Controls /\ ~Armed(Unborn) /\ Unborn.state = "unborn" /\ Unborn.release = NoTimer
    BY DEF Unborn, Controls, Execs, Releases, Armed, NotArmed, NoTimer, Unlimited
  <1> HIDE DEF Unborn
  <1> SUFFICES ASSUME Init PROVE AttemptsOK
    OBVIOUS
  <1>2. att \in [Attempts -> Controls] /\ \A a \in Attempts : att[a] = Unborn
    BY <1>1 DEF Init
  <1> QED
    BY <1>1, <1>2 DEF AttemptsOK, Armed

\* scheduleAbortTimer on a live attempt keeps the controls well formed.
LEMMA ScheduleKeeps ==
    ASSUME AttemptsOK, NEW a \in Attempts, NEW delay \in Int, NEW grace \in BOOLEAN, now \in Int,
           Schedule(a, delay, grace),
           att[a].run = "live", att[a].state \in {"active", "aborted"},
           aborted' = aborted, UNCHANGED <<activeOwner, maintenance>>
    PROVE  AttemptsOK'
  <1> DEFINE t == now + AtLeastOne(delay)
             e == Running(t, grace)
             r == [att[a] EXCEPT !.exec = e]
  <1>1. e \in Execs
    BY DeadlineTypes
  <1>2. DeadlineChanged(a, r, Bounded(t))
    BY DEF Schedule
  <1> HIDE DEF t, e
  <1>3. att[a] \in Controls
    BY DEF AttemptsOK
  <1>4. r \in Controls /\ r.state = att[a].state /\ r.release = att[a].release /\ r.run = att[a].run
    BY <1>1, <1>3 DEF Controls
  <1> QED
    BY <1>2, <1>4, ChangeKeeps

\* abortRun(true) on a live run keeps the controls well formed.
LEMMA UnwindKeeps ==
    ASSUME AttemptsOK, NEW a \in Attempts, now \in Int, TimeoutUnwind(a),
           aborted' = aborted, UNCHANGED <<activeOwner, maintenance>>
    PROVE  AttemptsOK'
  <1> DEFINE t == Timer("release", now + Grace)
             r == Stopped(att[a])
             q == [r EXCEPT !.release = t]
  <1>1. r \in Controls /\ ~Armed(r) /\ r.run = "aborted" /\ r.state = att[a].state
    BY StoppedFacts DEF AttemptsOK
  <1>2. t \in Releases
    BY WatchdogAssumption DEF Releases, Timer
  <1>3. att' = [att EXCEPT ![a] = IF IsCurrent(a) /\ r.release = NoTimer THEN q ELSE r]
    BY DEF TimeoutUnwind
  <1> HIDE DEF t, r
  <1>4. q \in Controls /\ ~Armed(q) /\ q.run = "aborted" /\ q.state = att[a].state
    BY <1>1, <1>2 DEF Controls, Armed
  <1> QED
    BY <1>1, <1>3, <1>4, ReplaceKeeps

\* Every step keeps the controls well formed.
LEMMA AttemptsSteps ==
    ASSUME AttemptsOK, WatchOK, [Next]_vars
    PROVE  AttemptsOK'
<1> USE DEF signalVars, settleVars, attemptVars, watchdogVars
<1>0. ASSUME UNCHANGED <<att, activeOwner, maintenance>>, aborted => aborted'
      PROVE  AttemptsOK'
  BY <1>0 DEF AttemptsOK, Armed
<1>1. CASE WatchdogStep
  BY <1>0, <1>1 DEF WatchdogStep, Progress, TimerFires, Finish
<1>2. CASE BodySettles
  BY <1>0, <1>2 DEF BodySettles, SettleBody
<1>3. CASE StartMaintenance
  BY <1>3 DEF StartMaintenance, AttemptsOK, Armed
<1>4. CASE EndMaintenance
  BY <1>4 DEF EndMaintenance, AttemptsOK, Armed
<1>5. CASE OpenAttempt
  <2>1. IsFiniteSet(Born)
    <3>1. IsFiniteSet(1..MaxAttempts)
      BY FS_Interval, AttemptAssumption
    <3>2. Born \subseteq 1..MaxAttempts
      BY DEF Born, Attempts
    <3> QED
      BY <3>1, <3>2, FS_Subset
  <2> DEFINE a == Cardinality(Born) + 1
  <2>2. a \in Attempts
    BY <1>5, <2>1, FS_CardinalityType, AttemptAssumption DEF OpenAttempt, Attempts
  <2> HIDE DEF a
  <2>3. PICK r \in Controls : /\ att' = [att EXCEPT ![a] = r]
                              /\ r.state = "active" /\ r.release = NoTimer /\ ~Armed(r)
    <3>1. Unborn \in Controls /\ ~Armed(Unborn) /\ Unborn.release = NoTimer
      BY DEF Unborn, Controls, Execs, Releases, Armed, NotArmed, NoTimer, Unlimited
    <3>2. PICK budget \in AttemptTimeouts, seed \in BOOLEAN :
            att' = [att EXCEPT ![a] =
                      [Unborn EXCEPT !.state = "active", !.budget = budget,
                                     !.owned = seed /\ ~aborted /\ ~stale,
                                     !.run = IF aborted THEN "aborted" ELSE "live"]]
      BY <1>5 DEF OpenAttempt, a
    <3> HIDE DEF Unborn
    <3> DEFINE r == [Unborn EXCEPT !.state = "active", !.budget = budget,
                                   !.owned = seed /\ ~aborted /\ ~stale,
                                   !.run = IF aborted THEN "aborted" ELSE "live"]
    <3>3. r \in Controls /\ r.state = "active" /\ r.release = NoTimer /\ ~Armed(r)
      BY <3>1, <3>2 DEF Controls, Armed
    <3> QED
      BY <3>2, <3>3
  <2>4. \A b \in Attempts : Armed(att[b])' <=> Armed(att'[b])
    BY DEF Armed
  <2>5. \A b \in Attempts : att[b].state \notin {"active", "aborted"}
    BY <1>5, OpenFacts DEF OpenAttempt
  <2>6. activeOwner' = a /\ maintenance' = "done" /\ maintenance = "done" /\ aborted' = aborted
    BY <1>5 DEF OpenAttempt, a
  <2> QED
    BY <2>2, <2>3, <2>4, <2>5, <2>6 DEF AttemptsOK
<1>6. ASSUME NEW a \in Attempts, AttemptStep(a)
      PROVE  AttemptsOK'
  <2>0. att[a] \in Controls /\ now \in Int
    BY DEF AttemptsOK, WatchOK
  <2>1. CASE ArmDeadline(a)
    <3>1. ASSUME NEW e \in Execs
          PROVE  LET r == [att[a] EXCEPT !.exec = e]
                 IN  /\ r \in Controls /\ r.state = att[a].state /\ r.exec = e
                     /\ r.release = att[a].release /\ r.run = att[a].run
      BY <2>0 DEF Controls
    <3>2. ExecClosed \in Execs /\ Unlimited \in Execs /\ ExecClosed.kind = "closed"
      BY DEF Execs, ExecClosed
    <3>3. att[a].state \in {"active", "aborted"}
      BY <2>1, OpenFacts DEF ArmDeadline
    <3>4. CASE att[a].run = "aborted" /\ att' = [att EXCEPT ![a].exec = ExecClosed]
      <4>1. att' = [att EXCEPT ![a] = [att[a] EXCEPT !.exec = ExecClosed]]
        BY <3>4 DEF AttemptsOK
      <4> DEFINE r == [att[a] EXCEPT !.exec = ExecClosed]
      <4>2. /\ r \in Controls /\ r.state = att[a].state /\ r.exec = ExecClosed
            /\ r.run = "aborted"
        BY <3>1, <3>2, <3>4
      <4>3. ~Armed(r)
        BY <3>2, <4>2 DEF Armed
      <4>4. aborted' = aborted /\ UNCHANGED <<activeOwner, maintenance>>
        BY <2>1 DEF ArmDeadline
      <4> HIDE DEF r
      <4>5. att' = [att EXCEPT ![a] = r]
        BY <4>1 DEF r
      <4> QED
        BY <4>2, <4>3, <4>4, <4>5, ReplaceKeeps
    <3>5. CASE att[a].run = "live" /\ DeadlineChanged(a, [att[a] EXCEPT !.exec = Unlimited], Unlimited)
      BY <2>1, <3>1, <3>2, <3>3, <3>5, ChangeKeeps DEF ArmDeadline
    <3>6. CASE att[a].run = "live" /\ att[a].budget # Unlimited /\ Schedule(a, att[a].budget.at, FALSE)
      <4>1. att[a].budget.at \in Int
        BY <2>0, <3>6, AttemptAssumption DEF Controls, Timeouts
      <4> QED
        BY <2>0, <2>1, <3>3, <3>6, <4>1, ScheduleKeeps DEF ArmDeadline
    <3> QED
      BY <2>1, <3>4, <3>5, <3>6 DEF ArmDeadline
  <2>2. CASE ApprovalStarts(a)
    <3>1. att[a].run = "live" /\ att[a].state \in {"active", "aborted"}
      BY <2>2 DEF ApprovalStarts, AttemptsOK, Armed
    <3>2. att[a].exec \in [kind : {"bounded"}, at : Int, graceUsed : BOOLEAN]
      BY <2>0, <2>2 DEF ApprovalStarts, Controls, Execs, NotArmed, ExecClosed, Unlimited
    <3> DEFINE e == Paused(AtLeastOne(att[a].exec.at - now), att[a].exec.graceUsed)
               n == att[a].pauses + 1
    <3>3. e \in Execs /\ n \in Nat
      BY <2>0, <3>2, DeadlineTypes DEF Controls
    <3>4. DeadlineChanged(a, [att[a] EXCEPT !.exec = e, !.pauses = n], Unlimited)
      BY <2>2 DEF ApprovalStarts
    <3> HIDE DEF e, n
    <3> DEFINE r == [att[a] EXCEPT !.exec = e, !.pauses = n]
    <3>5. r \in Controls /\ r.state = att[a].state /\ r.release = att[a].release /\ r.run = att[a].run
      BY <2>0, <3>3 DEF Controls
    <3> QED
      BY <2>2, <3>1, <3>4, <3>5, ChangeKeeps DEF ApprovalStarts
  <2>3. CASE ApprovalEnds(a)
    <3>1. att[a].run = "live" /\ att[a].state \in {"active", "aborted"}
      BY <2>3 DEF ApprovalEnds, AttemptsOK, Armed
    <3>2. att[a].exec.left \in Int /\ att[a].exec.graceUsed \in BOOLEAN
      BY <2>0, <2>3 DEF ApprovalEnds, Controls, Execs, NotArmed, ExecClosed, Unlimited
    <3> QED
      BY <2>0, <2>3, <3>1, <3>2, ScheduleKeeps DEF ApprovalEnds
  <2>4. CASE DeadlineExpires(a)
    <3>1. att[a].run = "live" /\ att[a].state \in {"active", "aborted"}
      BY <2>4 DEF DeadlineExpires, AttemptsOK, Armed
    <3>2. CompactionGrace \in Int
      BY AttemptAssumption
    <3> QED
      BY <2>0, <2>4, <3>1, <3>2, ScheduleKeeps, UnwindKeeps DEF DeadlineExpires
  <2>5. CASE IdleTimeout(a)
    BY <2>0, <2>5, UnwindKeeps DEF IdleTimeout
  <2>6. CASE ReleaseTimerFires(a)
    <3> DEFINE r == [att[a] EXCEPT !.release = [kind |-> "spent"]]
               f == [att EXCEPT ![a] = r]
    <3>1. r \in Controls /\ r.state = att[a].state /\ r.run = att[a].run /\ r.exec = att[a].exec
      BY <2>0 DEF Controls, Releases
    <3>2. att[a].run = "aborted"
      BY <2>6 DEF ReleaseTimerFires, Due, AttemptsOK, NoTimer
    <3>3. ~Armed(att[a]) /\ ~Armed(r)
      BY <3>1, <3>2 DEF AttemptsOK, Armed
    <3>4. f = [att EXCEPT ![a].release = [kind |-> "spent"]] /\ f \in [Attempts -> Controls]
      BY <3>1 DEF AttemptsOK
    <3> HIDE DEF r
    <3>5. CASE IsCurrent(a)
      <4>1. att' = StoppedAll(f) /\ aborted' = TRUE
        BY <2>6, <3>4, <3>5 DEF ReleaseTimerFires, RaiseRelease
      <4>2. \A b \in Attempts : f[b] = IF b = a THEN r ELSE att[b]
        BY DEF AttemptsOK
      <4>3. UNCHANGED <<activeOwner, maintenance>>
        BY <2>6 DEF ReleaseTimerFires
      <4>4. \A b \in Attempts : f[b].state = att[b].state
        BY <3>1, <4>2
      <4>5. \A b \in Attempts : b \in Open \/ Quieted(f[b])
        BY <3>1, <3>2, <3>3, <4>2, NotOpenQuieted DEF Quieted
      <4>6. f \in [Attempts -> Controls]
        BY <3>4
      <4> HIDE DEF f
      <4> QED
        BY <4>1, <4>3, <4>4, <4>5, <4>6, StoppedAllKeeps
    <3>6. CASE ~IsCurrent(a)
      BY <2>6, <3>1, <3>2, <3>3, <3>4, <3>6, ReplaceKeeps DEF ReleaseTimerFires
    <3> QED
      BY <3>5, <3>6
  <2>7. CASE ExternalAbort(a)
    <3>1. CASE IsCurrent(a)
      <4> DEFINE r == [att[a] EXCEPT !.state = "aborted"]
                 f == [att EXCEPT ![a] = r]
      <4>1. r \in Controls /\ r.state = "aborted"
        BY <2>0 DEF Controls
      <4>2. f = [att EXCEPT ![a].state = "aborted"] /\ f \in [Attempts -> Controls]
        BY <4>1 DEF AttemptsOK
      <4>3. \A b \in Attempts : f[b] = IF b = a THEN r ELSE att[b]
        BY DEF AttemptsOK
      <4>4. att' = StoppedAll(f) /\ aborted' = TRUE
        BY <2>7, <3>1, <4>2 DEF ExternalAbort, RaiseAbort
      <4>5. att[a].state = "active" /\ a \in Open
        BY <3>1, OpenFacts DEF IsCurrent
      <4>6. UNCHANGED <<activeOwner, maintenance>>
        BY <2>7 DEF ExternalAbort
      <4>7. \A b \in Attempts : f[b].state # att[b].state =>
                                   att[b].state = "active" /\ f[b].state = "aborted"
        BY <4>1, <4>3, <4>5
      <4>8. \A b \in Attempts : b \in Open \/ Quieted(f[b])
        BY <4>3, <4>5, NotOpenQuieted
      <4>9. f \in [Attempts -> Controls]
        BY <4>2
      <4> HIDE DEF f, r
      <4> QED
        BY <4>4, <4>6, <4>7, <4>8, <4>9, StoppedAllKeeps
    <3>2. CASE ~IsCurrent(a)
      BY <2>0, <2>7, <3>2, StoppedFacts, ReplaceKeeps DEF ExternalAbort
    <3> QED
      BY <3>1, <3>2
  <2>8. CASE StreamCleanup(a)
    BY <2>0, <2>8, StoppedFacts, ReplaceKeeps DEF StreamCleanup, AttemptsOK
  <2>9. CASE CloseAttempt(a)
    <3> DEFINE r == [att[a] EXCEPT !.state = "closed", !.release = NoTimer]
    <3>1. r \in Controls /\ r.state = "closed" /\ r.release = NoTimer /\ r.exec = att[a].exec
      BY <2>0 DEF Controls, Releases
    <3>2. ~Armed(r)
      BY <2>9, <3>1 DEF CloseAttempt, Armed, NotArmed, ExecClosed
    <3>3. att' = [att EXCEPT ![a] = r]
      BY <2>9 DEF CloseAttempt, AttemptsOK
    <3>4. \A b \in Attempts : Armed(att[b])' <=> Armed(att'[b])
      BY DEF Armed
    <3>5. \A b \in Attempts \ {a} : att[b].state \notin {"active", "aborted"}
      BY <2>9, OpenFacts DEF CloseAttempt
    <3>6. att[a].state \in {"active", "aborted"} /\ maintenance' = maintenance /\ aborted' = aborted
      BY <2>9, OpenFacts DEF CloseAttempt
    <3> HIDE DEF r
    <3> QED
      BY <3>1, <3>2, <3>3, <3>4, <3>5, <3>6 DEF AttemptsOK
  <2> QED
    BY <1>6, <2>1, <2>2, <2>3, <2>4, <2>5, <2>6, <2>7, <2>8, <2>9 DEF AttemptStep
<1>7. CASE LaneAbort
  <2>1. att' = StoppedAll(att) /\ aborted' = TRUE /\ UNCHANGED <<activeOwner, maintenance>>
    BY <1>7 DEF LaneAbort, RaiseAbort
  <2>2. att \in [Attempts -> Controls]
    BY DEF AttemptsOK
  <2> QED
    BY <2>1, <2>2, NotOpenQuieted, StoppedAllKeeps
<1>8. CASE RetireAttempt
  <2>1. att' = StoppedAll(att) /\ aborted' = TRUE /\ UNCHANGED <<activeOwner, maintenance>>
    BY <1>8 DEF RetireAttempt, RaiseAbort
  <2>2. att \in [Attempts -> Controls]
    BY DEF AttemptsOK
  <2> QED
    BY <2>1, <2>2, NotOpenQuieted, StoppedAllKeeps
<1>9. CASE Revoke
  BY <1>0, <1>9 DEF Revoke
<1>10. CASE Tick
  <2> DEFINE r(a) == [att[a] EXCEPT !.ran = @ + 1]
  <2>1. \A a \in Attempts : /\ r(a) \in Controls /\ r(a).state = att[a].state
                            /\ r(a).release = att[a].release /\ r(a).run = att[a].run
                            /\ r(a).exec = att[a].exec
    BY DEF AttemptsOK, Controls
  <2>2. att' = [a \in Attempts |-> IF att[a].exec.kind = "bounded" THEN r(a) ELSE att[a]]
    BY <1>10 DEF Tick
  <2> HIDE DEF r
  <2>3. \A a \in Attempts : att'[a] \in {r(a), att[a]}
    BY <2>2
  <2>4. \A a \in Attempts : Armed(att[a])' <=> Armed(att[a])
    BY <2>1, <2>3 DEF Armed
  <2>5. att' \in [Attempts -> Controls]
    BY <2>1, <2>2 DEF AttemptsOK
  <2>6. UNCHANGED <<activeOwner, maintenance, aborted>>
    BY <1>10 DEF Tick
  <2> QED
    BY <2>1, <2>3, <2>4, <2>5, <2>6 DEF AttemptsOK
<1>11. CASE UNCHANGED vars
  BY <1>0, <1>11 DEF vars
<1> QED
  BY <1>1, <1>2, <1>3, <1>4, <1>5, <1>6, <1>7, <1>8, <1>9, <1>10, <1>11 DEF Next

-----------------------------------------------------------------------------
(* The flags of the watchdog *)

\* A published deadline keeps the watchdog's flags in agreement.
LEMMA PublishWatch ==
    ASSUME WatchdogInv, WatchOK, NEW d, NEW p, Publish(d, p), progressAt' \in Int,
           UNCHANGED <<now, listeners, aborted, released, closed>>
    PROVE  WatchOK'
BY PublishEffect DEF WatchOK

\* So does a deadline change by an attempt.
LEMMA ChangeWatch ==
    ASSUME WatchdogInv, WatchOK, NEW a, NEW r, NEW d, DeadlineChanged(a, r, d),
           UNCHANGED <<now, progressAt, listeners, aborted, released, closed>>
    PROVE  WatchOK'
  <1>1. CASE IsCurrent(a)
    BY <1>1, PublishWatch DEF DeadlineChanged, WatchOK
  <1>2. CASE ~IsCurrent(a)
    BY <1>2 DEF DeadlineChanged, WatchOK, settleVars
  <1> QED
    BY <1>1, <1>2

\* A step that leaves the watchdog alone, or only moves its clocks.
LEMMA WatchUntouched ==
    ASSUME WatchOK, now' \in Int, progressAt' \in Int,
           UNCHANGED <<ownerDeadline, timer, listeners, aborted, released, timedOut, outcome, closed>>
    PROVE  WatchOK'
BY DEF WatchOK

\* Every step keeps the watchdog's flags in agreement.
LEMMA WatchSteps ==
    ASSUME WatchdogInv, WatchOK, [Next]_vars
    PROVE  WatchOK'
<1> USE DEF signalVars, settleVars, attemptVars, watchdogVars
<1>0. now \in Int /\ progressAt \in Int
  BY DEF WatchOK
<1>1. CASE WatchdogStep
  <2>1. CASE Progress
    BY <1>0, <2>1, WatchUntouched DEF Progress
  <2>2. CASE TimerFires
    BY <2>2 DEF TimerFires, ArmProgress, Reject, Expiries, NoTimer, WatchOK
  <2>3. CASE Finish
    BY <2>3 DEF Finish, NoTimer, WatchOK
  <2> QED
    BY <1>1, <2>1, <2>2, <2>3 DEF WatchdogStep
<1>2. CASE BodySettles
  BY <1>2 DEF BodySettles, SettleBody, WatchOK
<1>3. CASE StartMaintenance
  BY <1>0, <1>3, PublishWatch DEF StartMaintenance
<1>4. CASE EndMaintenance
  BY <1>0, <1>4, PublishWatch DEF EndMaintenance
<1>5. CASE OpenAttempt
  BY <1>0, <1>5, PublishWatch, WatchUntouched DEF OpenAttempt
<1>6. ASSUME NEW a \in Attempts, AttemptStep(a)
      PROVE  WatchOK'
  <2>1. CASE ArmDeadline(a)
    BY <1>0, <2>1, ChangeWatch, WatchUntouched DEF ArmDeadline, Schedule
  <2>2. CASE ApprovalStarts(a)
    BY <2>2, ChangeWatch DEF ApprovalStarts
  <2>3. CASE ApprovalEnds(a)
    BY <2>3, ChangeWatch DEF ApprovalEnds, Schedule
  <2>4. CASE DeadlineExpires(a)
    BY <1>0, <2>4, ChangeWatch, WatchUntouched DEF DeadlineExpires, Schedule
  <2>5. CASE IdleTimeout(a)
    BY <1>0, <2>5, WatchUntouched DEF IdleTimeout
  <2>6. CASE ReleaseTimerFires(a)
    <3>1. CASE IsCurrent(a)
      BY <2>6, <3>1 DEF ReleaseTimerFires, RaiseRelease, Reject, Timer, WatchOK, WatchdogInv, Attached
    <3>2. CASE ~IsCurrent(a)
      BY <1>0, <2>6, <3>2, WatchUntouched DEF ReleaseTimerFires
    <3> QED
      BY <3>1, <3>2
  <2>7. CASE ExternalAbort(a)
    <3>1. CASE IsCurrent(a)
      BY <2>7, <3>1 DEF ExternalAbort, RaiseAbort, Timer, WatchOK
    <3>2. CASE ~IsCurrent(a)
      BY <1>0, <2>7, <3>2, WatchUntouched DEF ExternalAbort
    <3> QED
      BY <3>1, <3>2
  <2>8. CASE StreamCleanup(a)
    BY <1>0, <2>8, WatchUntouched DEF StreamCleanup
  <2>9. CASE CloseAttempt(a)
    BY <1>0, <2>9, PublishWatch, WatchUntouched DEF CloseAttempt
  <2> QED
    BY <1>6, <2>1, <2>2, <2>3, <2>4, <2>5, <2>6, <2>7, <2>8, <2>9 DEF AttemptStep
<1>7. CASE LaneAbort
  BY <1>7 DEF LaneAbort, RaiseAbort, Timer, WatchOK
<1>8. CASE RetireAttempt
  BY <1>8 DEF RetireAttempt, RaiseAbort, Timer, WatchOK
<1>9. CASE Revoke
  BY <1>0, <1>9, WatchUntouched DEF Revoke
<1>10. CASE Tick
  BY <1>0, <1>10, WatchUntouched DEF Tick
<1>11. CASE UNCHANGED vars
  BY <1>0, <1>11, WatchUntouched DEF vars
<1> QED
  BY <1>1, <1>2, <1>3, <1>4, <1>5, <1>6, <1>7, <1>8, <1>9, <1>10, <1>11 DEF Next

-----------------------------------------------------------------------------
(* The watchdog and the attempt it watches *)

Held == Behind /\ HoldIsAccounted

\* An aborted task, or a settled one, is held by its grace timer or by nobody.
LEMMA AbortedHeld ==
    ASSUME WatchdogInv', aborted' \/ outcome' # "none"
    PROVE  Held'
BY DEF Held, Behind, IsCurrent, HoldIsAccounted, WatchdogInv, AbortIsBounded, NoTimer

\* A step that leaves the watchdog alone, and takes from no attempt what
\* makes it watched or accounted for.
LEMMA QuietHeld ==
    ASSUME Held,
           UNCHANGED <<timer, ownerDeadline, outcome, aborted, activeOwner, maintenance>>,
           stale => stale',
           \A a \in Attempts :
             /\ att'[a].state = "active" /\ Armed(att'[a]) =>
                  att[a].state = "active" /\ att'[a].exec = att[a].exec
             /\ /\ att[a].state \in {"active", "aborted"} /\ activeOwner = a /\ att[a].owned
                /\ att[a].run = "live" \/ att[a].release.kind = "release" \/ stale
                => /\ att'[a].state \in {"active", "aborted"}
                   /\ att'[a].owned
                   /\ att'[a].run = "live" \/ att'[a].release.kind = "release" \/ stale',
           AttemptsOK, AttemptsOK'
    PROVE  Held'
  <1>1. Behind'
    BY DEF Held, Behind, IsCurrent, Armed
  <1>2. HoldIsAccounted'
    <2>1. \A a \in Attempts : a \in Open' <=> att'[a].state \in {"active", "aborted"}
      BY DEF AttemptsOK, Open, Born, Controls
    <2>2. HoldIsAccounted
      BY DEF Held
    <2>3. SUFFICES ASSUME outcome = "none", timer = NoTimer, maintenance # "busy"
                   PROVE  \E a \in Open' : /\ activeOwner = a
                                           /\ att'[a].owned
                                           /\ \/ att'[a].run = "live"
                                              \/ att'[a].release.kind = "release"
                                              \/ stale'
      BY DEF HoldIsAccounted
    <2>4. PICK a \in Open : /\ activeOwner = a /\ att[a].owned
                            /\ att[a].run = "live" \/ att[a].release.kind = "release" \/ stale
      BY <2>2, <2>3 DEF HoldIsAccounted
    <2>5. a \in Attempts /\ att[a].state \in {"active", "aborted"}
      BY <2>4, OpenFacts
    <2> QED
      BY <2>1, <2>3, <2>4, <2>5
  <1> QED
    BY <1>1, <1>2 DEF Held

\* A live run that is open and unreleased is current, unless it was aborted
\* or has lost its authority.
LEMMA CurrentFacts ==
    ASSUME AttemptsOK, NEW a \in Attempts, att[a].state \in {"active", "aborted"}
    PROVE  IsCurrent(a) \/ aborted \/ stale
BY DEF AttemptsOK, IsCurrent

\* A current attempt that changes its deadline takes the watchdog with it; a
\* retained one changes nothing.
LEMMA ChangeHeld ==
    ASSUME WatchdogInv, AttemptsOK, WatchOK, Held, WatchdogInv', AttemptsOK',
           NEW a \in Attempts, NEW r \in Controls, NEW d, DeadlineChanged(a, r, d),
           att[a].state \in {"active", "aborted"},
           r.state = att[a].state, r.run = "live", r.owned = att[a].owned,
           \/ r.exec.kind = "bounded" /\ d = Bounded(r.exec.at) /\ r.exec.at \in Int
           \/ r.exec.kind \in {"paused", "unlimited"} /\ d = Unlimited,
           UNCHANGED <<now, progressAt, listeners, aborted, released, closed,
                       activeOwner, stale, maintenance>>
    PROVE  Held'
  <1>1. CASE IsCurrent(a) /\ outcome' = "none"
    <2>1. outcome = "none" /\ ~aborted /\ activeOwner = a /\ ~stale /\ att[a].state = "active"
      BY <1>1, PublishEffect DEF DeadlineChanged, IsCurrent
    <2> DEFINE q == [r EXCEPT !.owned = TRUE]
    <2>2. q.state = "active" /\ q.run = "live" /\ q.owned /\ q.exec = r.exec
      BY <2>1 DEF Controls
    <2>3. att' = [att EXCEPT ![a] = q] /\ Publish(LaneTimeoutOf(d), progressAt)
      BY <1>1 DEF DeadlineChanged
    <2> HIDE DEF q
    <2>4. att'[a] = q /\ \A b \in Attempts \ {a} : att'[b] = att[b]
      BY <2>3 DEF AttemptsOK
    <2>5. \A b \in Attempts \ {a} : att[b].state # "active"
      BY <2>1 DEF AttemptsOK
    <2>6. /\ ownerDeadline' = LaneTimeoutOf(d)
          /\ LaneTimeoutOf(d).kind = "unlimited" => timer' = NoTimer
          /\ LaneTimeoutOf(d).kind # "unlimited" =>
                timer' = Timer("progress", Expiry(LaneTimeoutOf(d), progressAt))
      BY <1>1, <2>1, <2>3, PublishEffect
    <2>7. /\ r.exec.kind = "bounded" =>
               /\ timer' = Timer("progress", r.exec.at + Grace)
               /\ ownerDeadline' = Bounded(r.exec.at + Grace)
          /\ r.exec.kind \in {"paused", "unlimited"} => timer' = NoTimer
      <3>1. CASE r.exec.kind = "bounded"
        <4> DEFINE t == r.exec.at + Grace
        <4>1. LaneTimeoutOf(d) = Bounded(t)
          BY <3>1, DeadlineTypes
        <4>2. \A p : Bounded(t).kind = "bounded" /\ Expiry(Bounded(t), p) = t
          BY DEF Bounded, Expiry
        <4> QED
          BY <2>6, <3>1, <4>1, <4>2
      <3>2. CASE r.exec.kind \in {"paused", "unlimited"}
        BY <2>6, <3>2, DeadlineTypes DEF Unlimited
      <3> QED
        BY <3>1, <3>2
    <2>8. Behind'
      BY <2>2, <2>4, <2>5, <2>7 DEF Behind, IsCurrent
    <2>9. HoldIsAccounted'
      <3>1. a \in Open'
        BY <2>2, <2>4 DEF Open, Born
      <3> QED
        BY <2>1, <2>2, <2>4, <3>1 DEF HoldIsAccounted
    <2> QED
      BY <2>8, <2>9 DEF Held
  <1>2. CASE outcome' # "none"
    BY <1>2, AbortedHeld
  <1>3. CASE ~IsCurrent(a)
    <2>1. att' = [att EXCEPT ![a] = r] /\ UNCHANGED <<ownerDeadline, timer, outcome>>
      BY <1>3 DEF DeadlineChanged, settleVars
    <2>2. att'[a] = r /\ \A b \in Attempts \ {a} : att'[b] = att[b]
      BY <2>1 DEF AttemptsOK
    <2>3. aborted \/ stale
      BY <1>3, CurrentFacts
    <2>4. CASE aborted
      BY <2>4, AbortedHeld
    <2>5. CASE stale
      <3>1. Behind'
        BY <2>5 DEF Behind, IsCurrent
      <3>2. HoldIsAccounted'
        <4>1. \A b \in Attempts : b \in Open' <=> att'[b].state \in {"active", "aborted"}
          BY DEF AttemptsOK, Open, Born, Controls
        <4>2. \A b \in Attempts : att'[b].state = att[b].state /\ att'[b].owned = att[b].owned
          BY <2>2
        <4>3. Open' = Open
          BY <4>1, <4>2, OpenFacts DEF Open, Born
        <4> QED
          BY <2>1, <2>5, <4>2, <4>3, OpenFacts DEF Held, HoldIsAccounted
      <3> QED
        BY <3>1, <3>2 DEF Held
    <2> QED
      BY <2>3, <2>4, <2>5
  <1> QED
    BY <1>1, <1>2, <1>3

\* A step that replaces the controls of one attempt, and nothing else, when
\* its run keeps its deadline or loses it, and is still accounted for.
LEMMA ReplaceHeld ==
    ASSUME WatchdogInv', AttemptsOK, AttemptsOK', Held, NEW a \in Attempts, NEW r \in Controls,
           att' = [att EXCEPT ![a] = r], r.state = att[a].state, r.owned = att[a].owned,
           r.exec = att[a].exec \/ ~Armed(r),
           att[a].state \in {"active", "aborted"} =>
             \/ r.run = att[a].run /\ r.release = att[a].release
             \/ r.release.kind = "release"
             \/ aborted
             \/ stale,
           UNCHANGED <<timer, ownerDeadline, outcome, aborted, activeOwner, stale, maintenance>>
    PROVE  Held'
  <1>1. CASE aborted
    BY <1>1, AbortedHeld
  <1>2. CASE ~aborted
    <2>1. att'[a] = r /\ \A b \in Attempts \ {a} : att'[b] = att[b]
      BY DEF AttemptsOK
    <2>2. \A b \in Attempts :
             /\ att'[b].state = "active" /\ Armed(att'[b]) =>
                  att[b].state = "active" /\ att'[b].exec = att[b].exec
             /\ /\ att[b].state \in {"active", "aborted"} /\ activeOwner = b /\ att[b].owned
                /\ att[b].run = "live" \/ att[b].release.kind = "release" \/ stale
                => /\ att'[b].state \in {"active", "aborted"}
                   /\ att'[b].owned
                   /\ att'[b].run = "live" \/ att'[b].release.kind = "release" \/ stale'
      BY <1>2, <2>1
    <2> QED
      BY <2>2, QuietHeld
  <1> QED
    BY <1>1, <1>2

\* scheduleAbortTimer on a live attempt takes the watchdog with it.
LEMMA ScheduleHeld ==
    ASSUME WatchdogInv, AttemptsOK, WatchOK, Held, WatchdogInv', AttemptsOK',
           NEW a \in Attempts, NEW delay \in Int, NEW grace \in BOOLEAN,
           Schedule(a, delay, grace),
           att[a].run = "live", att[a].state \in {"active", "aborted"},
           UNCHANGED <<now, progressAt, listeners, aborted, released, closed,
                       activeOwner, stale, maintenance>>
    PROVE  Held'
  <1> DEFINE t == now + AtLeastOne(delay)
             e == Running(t, grace)
             r == [att[a] EXCEPT !.exec = e]
  <1>1. t \in Int
    BY DeadlineTypes DEF WatchOK
  <1>2. DeadlineChanged(a, r, Bounded(t))
    BY DEF Schedule
  <1> HIDE DEF t
  <1>3. e \in Execs /\ e.kind = "bounded" /\ e.at = t
    BY <1>1, DeadlineTypes DEF Running
  <1> HIDE DEF e
  <1>4. att[a] \in Controls
    BY DEF AttemptsOK
  <1>5. /\ r \in Controls /\ r.state = att[a].state /\ r.run = "live" /\ r.owned = att[a].owned
        /\ r.exec = e
    BY <1>3, <1>4 DEF Controls
  <1> HIDE DEF r
  <1> QED
    BY <1>1, <1>2, <1>3, <1>5, ChangeHeld

\* abortRun(true) leaves the release timer behind, or an attempt that is no
\* longer current.
LEMMA UnwindHeld ==
    ASSUME WatchdogInv', AttemptsOK, AttemptsOK', Held, NEW a \in Attempts, TimeoutUnwind(a),
           att[a].run = "live", now \in Int,
           UNCHANGED <<timer, ownerDeadline, outcome, aborted, activeOwner, stale, maintenance>>
    PROVE  Held'
  <1> DEFINE t == Timer("release", now + Grace)
             s == Stopped(att[a])
             q == [s EXCEPT !.release = t]
             r == IF IsCurrent(a) /\ s.release = NoTimer THEN q ELSE s
  <1>1. /\ s \in Controls /\ ~Armed(s) /\ s.run = "aborted" /\ s.state = att[a].state
        /\ s.owned = att[a].owned /\ s.release = att[a].release
    BY StoppedFacts DEF AttemptsOK
  <1>2. t \in Releases /\ t.kind = "release"
    BY WatchdogAssumption DEF Releases, Timer
  <1>3. att' = [att EXCEPT ![a] = r]
    BY DEF TimeoutUnwind
  <1>4. s.release = NoTimer
    BY <1>1 DEF AttemptsOK
  <1> HIDE DEF t, s
  <1>5. /\ q \in Controls /\ ~Armed(q) /\ q.state = att[a].state /\ q.owned = att[a].owned
        /\ q.release = t
    BY <1>1, <1>2 DEF Controls, Armed
  <1> HIDE DEF q
  <1>6. att[a].state \in {"active", "aborted"} => r = q \/ aborted \/ stale
    BY <1>4, CurrentFacts
  <1>7. /\ r \in Controls /\ ~Armed(r) /\ r.state = att[a].state /\ r.owned = att[a].owned
    BY <1>1, <1>5
  <1> HIDE DEF r
  <1> QED
    BY <1>2, <1>3, <1>5, <1>6, <1>7, ReplaceHeld

\* Every step keeps the watchdog behind its attempt and the hold accounted for.
LEMMA HeldSteps ==
    ASSUME WatchdogInv, AttemptsOK, WatchOK, Held, [Next]_vars,
           WatchdogInv', AttemptsOK', WatchOK'
    PROVE  Held'
<1> USE DEF signalVars, settleVars, attemptVars, watchdogVars
<1>0. CASE aborted' \/ outcome' # "none"
  BY <1>0, AbortedHeld
<1> SUFFICES ASSUME ~aborted', outcome' = "none"
             PROVE  Held'
  BY <1>0
<1>1. CASE WatchdogStep
  <2>1. CASE Progress
    BY <2>1, <1>1, QuietHeld DEF Progress, WatchdogStep
  <2>2. CASE TimerFires
    <3>1. timer.kind = "progress" /\ outcome = "none" /\ timer.at <= now
      BY <2>2 DEF TimerFires, ArmProgress, Due, Reject, NoTimer
    <3>2. /\ Expiry(ownerDeadline, progressAt) > now
          /\ timer' = Timer("progress", Expiry(ownerDeadline, progressAt))
      BY <2>2, <3>1 DEF TimerFires, ArmProgress, Reject, WatchOK, Expiries
    <3>3. \A a \in Attempts : IsCurrent(a)' => IsCurrent(a)
      BY <1>1, <2>2 DEF WatchdogStep, TimerFires, IsCurrent
    <3>4. \A a \in Attempts : IsCurrent(a) => att[a].exec.kind \notin {"bounded", "paused", "unlimited"}
      <4> SUFFICES ASSUME NEW a \in Attempts, IsCurrent(a),
                          att[a].exec.kind \in {"bounded", "paused", "unlimited"}
                   PROVE  FALSE
        OBVIOUS
      <4> DEFINE t == att[a].exec.at + Grace
      <4>1. CASE att[a].exec.kind = "bounded"
        <5>1. timer = Timer("progress", t) /\ ownerDeadline = Bounded(t)
          BY <3>1, <4>1 DEF Held, Behind
        <5>2. timer.at = t /\ Expiry(ownerDeadline, progressAt) = t
          BY <5>1 DEF Timer, Bounded, Expiry
        <5>3. t \in Int
          <6>1. att[a].exec \in Execs
            BY DEF AttemptsOK, Controls
          <6>2. att[a].exec.at \in Int
            BY <4>1, <6>1 DEF Execs, NotArmed, ExecClosed, Unlimited
          <6> QED
            BY <6>2, WatchdogAssumption
        <5>4. now \in Int
          BY DEF WatchOK
        <5> HIDE DEF t
        <5> QED
          BY <3>1, <3>2, <5>2, <5>3, <5>4
      <4>2. CASE att[a].exec.kind \in {"paused", "unlimited"}
        BY <3>1, <4>2 DEF Held, Behind, NoTimer
      <4> QED
        BY <4>1, <4>2
    <3>5. att' = att
      BY <1>1 DEF WatchdogStep
    <3>6. timer'.kind = "progress"
      BY <3>2 DEF Timer
    <3> QED
      BY <3>3, <3>4, <3>5, <3>6 DEF Held, Behind, HoldIsAccounted, NoTimer
  <2>3. CASE Finish
    BY <2>3 DEF Finish
  <2> QED
    BY <1>1, <2>1, <2>2, <2>3 DEF WatchdogStep
<1>2. CASE BodySettles
  BY <1>2 DEF BodySettles, SettleBody
<1>3. CASE StartMaintenance
  BY <1>3 DEF StartMaintenance, Held, Behind, HoldIsAccounted, IsCurrent, AttemptsOK
<1>4. CASE EndMaintenance
  <2>1. \A a \in Attempts : att'[a].state = "unborn"
    BY <1>4 DEF EndMaintenance, AttemptsOK
  <2>2. ~aborted /\ outcome = "none" /\ Publish(NoDeadline, now)
    BY <1>4, PublishEffect DEF EndMaintenance
  <2>3. timer' = Timer("progress", Expiry(NoDeadline, now))
    BY <2>2, PublishEffect DEF NoDeadline
  <2> QED
    BY <2>1, <2>3 DEF Held, Behind, HoldIsAccounted, IsCurrent, Timer, NoTimer
<1>5. CASE OpenAttempt
  <2>1. PICK budget \in AttemptTimeouts, seed \in BOOLEAN :
          LET a == Cardinality(Born) + 1
              publishes == seed /\ ~aborted /\ ~stale
          IN  /\ activeOwner' = a
              /\ att' = [att EXCEPT ![a] =
                           [Unborn EXCEPT !.state = "active", !.budget = budget,
                                          !.owned = publishes,
                                          !.run = IF aborted THEN "aborted" ELSE "live"]]
              /\ IF publishes
                    THEN Publish(LaneTimeoutOf(SeedDeadline(budget)), progressAt)
                    ELSE UNCHANGED <<ownerDeadline, timer, settleVars>>
    BY <1>5 DEF OpenAttempt
  <2> DEFINE a == Cardinality(Born) + 1
             publishes == seed /\ ~aborted /\ ~stale
             r == [Unborn EXCEPT !.state = "active", !.budget = budget, !.owned = publishes,
                                 !.run = IF aborted THEN "aborted" ELSE "live"]
  <2>2. ~aborted
    BY <1>5 DEF OpenAttempt
  <2>3. r.state = "active" /\ r.exec = NotArmed /\ r.owned = publishes /\ r.run = "live"
    BY <2>2 DEF Unborn
  <2>4. activeOwner' = a /\ att' = [att EXCEPT ![a] = r]
    BY <2>1
  <2>5. publishes => Publish(LaneTimeoutOf(SeedDeadline(budget)), progressAt)
    BY <2>1
  <2>6. ~publishes => timer' = timer /\ outcome' = outcome
    BY <2>1
  <2> HIDE DEF a, r, publishes
  <2>7. \A b \in Attempts : b # a => att'[b] = att[b]
    BY <2>4 DEF AttemptsOK
  <2>8. \A b \in Attempts : att[b].state \notin {"active", "aborted"}
    BY <1>5, OpenFacts DEF OpenAttempt
  <2>9. a \in Attempts => att'[a] = r
    BY <2>4 DEF AttemptsOK
  <2>10. Behind'
    BY <2>3, <2>7, <2>8, <2>9 DEF Behind, IsCurrent, NotArmed
  <2>11. HoldIsAccounted'
    <3>1. CASE publishes
      <4>1. a \in Attempts
        <5>1. IsFiniteSet(1..MaxAttempts)
          BY FS_Interval, AttemptAssumption
        <5>2. IsFiniteSet(Born)
          BY <5>1, FS_Subset DEF Born, Attempts
        <5> QED
          BY <1>5, <5>2, FS_CardinalityType, AttemptAssumption DEF OpenAttempt, Attempts, a
      <4>2. a \in Open'
        BY <2>3, <2>9, <4>1 DEF Open, Born
      <4> QED
        BY <2>3, <2>4, <2>9, <3>1, <4>1, <4>2 DEF HoldIsAccounted
    <3>2. CASE ~publishes
      <4>1. timer # NoTimer
        BY <1>5, <2>6, <3>2 DEF OpenAttempt, Held, HoldIsAccounted
      <4> QED
        BY <2>6, <3>2, <4>1 DEF HoldIsAccounted
    <3> QED
      BY <3>1, <3>2
  <2> QED
    BY <2>10, <2>11 DEF Held
<1>6. ASSUME NEW a \in Attempts, AttemptStep(a)
      PROVE  Held'
  <2>0. att[a] \in Controls /\ now \in Int
    BY DEF AttemptsOK, WatchOK
  <2>1. CASE ArmDeadline(a)
    <3>1. ASSUME NEW e \in Execs
          PROVE  LET r == [att[a] EXCEPT !.exec = e]
                 IN  /\ r \in Controls /\ r.state = att[a].state /\ r.exec = e
                     /\ r.release = att[a].release /\ r.run = att[a].run
                     /\ r.owned = att[a].owned
      BY <2>0 DEF Controls
    <3>2. att[a].state \in {"active", "aborted"}
      BY <2>1, OpenFacts DEF ArmDeadline
    <3>3. UNCHANGED <<now, progressAt, listeners, aborted, released, closed,
                      activeOwner, stale, maintenance>>
      BY <2>1 DEF ArmDeadline
    <3>4. CASE /\ att' = [att EXCEPT ![a].exec = ExecClosed]
               /\ UNCHANGED <<ownerDeadline, timer, timedOut, outcome>>
      <4> DEFINE r == [att[a] EXCEPT !.exec = ExecClosed]
      <4>1. att' = [att EXCEPT ![a] = r]
        BY <3>4 DEF AttemptsOK
      <4>2. ExecClosed \in Execs /\ ExecClosed.kind = "closed"
        BY DEF Execs, ExecClosed
      <4>3. /\ r \in Controls /\ r.state = att[a].state /\ r.exec = ExecClosed
            /\ r.release = att[a].release /\ r.run = att[a].run /\ r.owned = att[a].owned
        BY <3>1, <4>2
      <4>4. ~Armed(r)
        BY <4>2, <4>3 DEF Armed
      <4> HIDE DEF r
      <4> QED
        BY <3>3, <3>4, <4>1, <4>3, <4>4, ReplaceHeld
    <3>5. CASE att[a].run = "live" /\ DeadlineChanged(a, [att[a] EXCEPT !.exec = Unlimited], Unlimited)
      <4> DEFINE r == [att[a] EXCEPT !.exec = Unlimited]
      <4>1. Unlimited \in Execs /\ Unlimited.kind = "unlimited"
        BY DEF Execs, Unlimited
      <4>2. /\ r \in Controls /\ r.state = att[a].state /\ r.exec = Unlimited
            /\ r.run = "live" /\ r.owned = att[a].owned
        BY <3>1, <3>5, <4>1
      <4>3. DeadlineChanged(a, r, Unlimited)
        BY <3>5
      <4> HIDE DEF r
      <4> QED
        BY <3>2, <3>3, <4>1, <4>2, <4>3, ChangeHeld
    <3>6. CASE att[a].run = "live" /\ att[a].budget # Unlimited /\ Schedule(a, att[a].budget.at, FALSE)
      <4>1. att[a].budget.at \in Int
        BY <2>0, <3>6, AttemptAssumption DEF Controls, Timeouts
      <4> QED
        BY <3>2, <3>3, <3>6, <4>1, ScheduleHeld
    <3> QED
      BY <2>1, <3>4, <3>5, <3>6 DEF ArmDeadline
  <2>2. CASE ApprovalStarts(a)
    <3>1. att[a].run = "live" /\ att[a].state \in {"active", "aborted"}
      BY <2>2 DEF ApprovalStarts, AttemptsOK, Armed
    <3>2. att[a].exec \in [kind : {"bounded"}, at : Int, graceUsed : BOOLEAN]
      BY <2>0, <2>2 DEF ApprovalStarts, Controls, Execs, NotArmed, ExecClosed, Unlimited
    <3> DEFINE e == Paused(AtLeastOne(att[a].exec.at - now), att[a].exec.graceUsed)
               n == att[a].pauses + 1
    <3>3. e \in Execs /\ e.kind = "paused" /\ n \in Nat
      BY <2>0, <3>2, DeadlineTypes DEF Controls
    <3>4. DeadlineChanged(a, [att[a] EXCEPT !.exec = e, !.pauses = n], Unlimited)
      BY <2>2 DEF ApprovalStarts
    <3> HIDE DEF e, n
    <3> DEFINE r == [att[a] EXCEPT !.exec = e, !.pauses = n]
    <3>5. /\ r \in Controls /\ r.state = att[a].state /\ r.run = "live" /\ r.owned = att[a].owned
          /\ r.exec = e
      BY <2>0, <3>1, <3>3 DEF Controls
    <3>6. UNCHANGED <<now, progressAt, listeners, aborted, released, closed,
                      activeOwner, stale, maintenance>>
      BY <2>2 DEF ApprovalStarts
    <3> HIDE DEF r
    <3> QED
      BY <3>1, <3>3, <3>4, <3>5, <3>6, ChangeHeld DEF r
  <2>3. CASE ApprovalEnds(a)
    <3>1. att[a].run = "live" /\ att[a].state \in {"active", "aborted"}
      BY <2>3 DEF ApprovalEnds, AttemptsOK, Armed
    <3>2. att[a].exec.left \in Int /\ att[a].exec.graceUsed \in BOOLEAN
      BY <2>0, <2>3 DEF ApprovalEnds, Controls, Execs, NotArmed, ExecClosed, Unlimited
    <3> QED
      BY <2>3, <3>1, <3>2, ScheduleHeld DEF ApprovalEnds
  <2>4. CASE DeadlineExpires(a)
    <3>1. att[a].run = "live" /\ att[a].state \in {"active", "aborted"}
      BY <2>4 DEF DeadlineExpires, AttemptsOK, Armed
    <3>2. CompactionGrace \in Int
      BY AttemptAssumption
    <3> QED
      BY <2>0, <2>4, <3>1, <3>2, ScheduleHeld, UnwindHeld DEF DeadlineExpires
  <2>5. CASE IdleTimeout(a)
    BY <2>0, <2>5, UnwindHeld DEF IdleTimeout
  <2>6. CASE ReleaseTimerFires(a)
    <3> DEFINE r == [att[a] EXCEPT !.release = [kind |-> "spent"]]
    <3>1. ~IsCurrent(a)
      BY <2>6 DEF ReleaseTimerFires, RaiseRelease
    <3>2. r \in Controls /\ r.state = att[a].state /\ r.exec = att[a].exec /\ r.owned = att[a].owned
      BY <2>0 DEF Controls, Releases
    <3>3. att' = [att EXCEPT ![a] = r]
      BY <2>6, <3>1 DEF ReleaseTimerFires, AttemptsOK
    <3> HIDE DEF r
    <3>4. UNCHANGED <<timer, ownerDeadline, outcome, aborted, activeOwner, stale, maintenance>>
      BY <2>6, <3>1 DEF ReleaseTimerFires
    <3> QED
      BY <3>1, <3>2, <3>3, <3>4, CurrentFacts, ReplaceHeld
  <2>7. CASE ExternalAbort(a)
    <3>1. ~IsCurrent(a)
      BY <2>7 DEF ExternalAbort, RaiseAbort
    <3>2. att' = [att EXCEPT ![a] = Stopped(att[a])]
      BY <2>7, <3>1 DEF ExternalAbort
    <3>3. UNCHANGED <<timer, ownerDeadline, outcome, aborted, activeOwner, stale, maintenance>>
      BY <2>7, <3>1 DEF ExternalAbort
    <3> QED
      BY <2>0, <3>1, <3>2, <3>3, StoppedFacts, CurrentFacts, ReplaceHeld
  <2>8. CASE StreamCleanup(a)
    BY <2>0, <2>8, StoppedFacts, ReplaceHeld DEF StreamCleanup
  <2>9. CASE CloseAttempt(a)
    <3>1. activeOwner = a /\ att[a].state \in {"active", "aborted"} /\ ~aborted
      BY <2>9, OpenFacts DEF CloseAttempt
    <3>2. \A b \in Attempts : IsCurrent(b)' => FALSE
      <4>1. att' = [att EXCEPT ![a] = [att[a] EXCEPT !.state = "closed", !.release = NoTimer]]
        BY <2>9 DEF CloseAttempt, AttemptsOK
      <4>2. activeOwner' = 0
        BY <2>9, <3>1 DEF CloseAttempt
      <4> QED
        BY <4>2 DEF IsCurrent, Attempts
    <3>3. timer' # NoTimer
      <4>1. CASE att[a].owned
        <5>1. Publish(NoDeadline, now)
          BY <2>9, <3>1, <4>1 DEF CloseAttempt
        <5>2. outcome = "none"
          BY <5>1, PublishEffect
        <5> QED
          BY <3>1, <5>1, <5>2, PublishEffect DEF NoDeadline, Timer, NoTimer
      <4>2. CASE ~att[a].owned
        <5>1. timer' = timer /\ outcome' = outcome
          BY <2>9, <3>1, <4>2 DEF CloseAttempt
        <5>2. maintenance # "busy"
          BY <3>1 DEF AttemptsOK
        <5> QED
          BY <3>1, <4>2, <5>1, <5>2 DEF Held, HoldIsAccounted
      <4> QED
        BY <4>1, <4>2
    <3> QED
      BY <3>2, <3>3 DEF Held, Behind, HoldIsAccounted
  <2> QED
    BY <1>6, <2>1, <2>2, <2>3, <2>4, <2>5, <2>6, <2>7, <2>8, <2>9 DEF AttemptStep
<1>7. CASE LaneAbort
  BY <1>7 DEF LaneAbort, RaiseAbort
<1>8. CASE RetireAttempt
  BY <1>8 DEF RetireAttempt, RaiseAbort
<1>9. CASE Revoke
  BY <1>9, QuietHeld DEF Revoke
<1>10. CASE Tick
  <2>1. \A b \in Attempts : /\ att'[b].state = att[b].state /\ att'[b].owned = att[b].owned
                            /\ att'[b].release = att[b].release /\ att'[b].run = att[b].run
                            /\ att'[b].exec = att[b].exec
    BY <1>10 DEF Tick, AttemptsOK, Controls
  <2>2. UNCHANGED <<timer, ownerDeadline, outcome, aborted, activeOwner, stale, maintenance>>
    BY <1>10 DEF Tick
  <2> QED
    BY <2>1, <2>2, QuietHeld
<1>11. CASE UNCHANGED vars
  BY <1>11, QuietHeld DEF vars
<1> QED
  BY <1>1, <1>2, <1>3, <1>4, <1>5, <1>6, <1>7, <1>8, <1>9, <1>10, <1>11 DEF Next

-----------------------------------------------------------------------------
(* The theorems *)

\* The task starts with its idle timer or its grace timer, and no attempt.
LEMMA HoldStarts == Init => HoldInv
  <1> SUFFICES ASSUME Init PROVE HoldInv
    OBVIOUS
  <1>1. WatchdogInv /\ AttemptsOK
    BY WatchdogStarts, AttemptsStart
  <1>2. WatchOK
    BY DEF Init, WatchdogInit, WatchOK, NoDeadline
  <1>3. \A a \in Attempts : att[a].state = "unborn"
    BY DEF Init, Unborn
  <1>4. timer # NoTimer
    BY DEF Init, WatchdogInit, Timer, NoTimer
  <1> QED
    BY <1>1, <1>2, <1>3, <1>4 DEF HoldInv, Behind, IsCurrent, HoldIsAccounted

\* HoldInv is inductive.
LEMMA HoldSteps == HoldInv /\ [Next]_vars => HoldInv'
  <1> SUFFICES ASSUME HoldInv, [Next]_vars PROVE HoldInv'
    OBVIOUS
  <1>1. WatchdogInv' /\ AttemptsOK' /\ WatchOK'
    BY WatchdogSteps, AttemptsSteps, WatchSteps DEF HoldInv
  <1>2. Held'
    BY <1>1, HeldSteps DEF HoldInv, Held
  <1> QED
    BY <1>1, <1>2 DEF HoldInv, Held

(***************************************************************************)
(* The watchdog never overtakes the attempt it watches (the padding of     *)
(* setAttemptDeadline, and the suspension of the watchdog during a human's *)
(* approval): for every budget, every pause and every compaction grace.    *)
(***************************************************************************)
THEOREM BehindTheorem == Spec => []WatchdogBehindAttempt
<1>1. HoldInv => WatchdogBehindAttempt
  BY DEF HoldInv, Behind, WatchdogBehindAttempt
<1> QED
  BY <1>1, HoldStarts, HoldSteps, PTL DEF Spec

(***************************************************************************)
(* A slot without a watchdog timer always has an attempt, or the runtime   *)
(* acquisition, that will give it back: no sequence of callbacks, aborts   *)
(* and expiries loses the timer (setLaneTaskDeadline, close).              *)
(***************************************************************************)
THEOREM HoldTheorem == Spec => []HoldIsAccounted
<1>1. HoldInv => HoldIsAccounted
  BY DEF HoldInv
<1> QED
  BY <1>1, HoldStarts, HoldSteps, PTL DEF Spec

\* The step form of StopsOnlyItsOwn.
OwnStop ==
    ~aborted /\ aborted' =>
         \/ LaneAbort
         \/ RetireAttempt
         \/ \E a \in Attempts :
              /\ activeOwner = a
              /\ ~stale
              /\ \/ released' /\ att[a].run = "aborted"
                 \/ ~released' /\ att'[a].state = "aborted"

\* Only the release timer of a timed-out run and the abort callback raise a
\* signal for an attempt, and both ask first whether it is current.
LEMMA OwnStopSteps ==
    ASSUME HoldInv, [Next]_vars
    PROVE  OwnStop
<1> USE DEF signalVars, settleVars, attemptVars, watchdogVars
<1> SUFFICES ASSUME ~aborted, aborted', ~LaneAbort, ~RetireAttempt
             PROVE  \E a \in Attempts :
                      /\ activeOwner = a
                      /\ ~stale
                      /\ \/ released' /\ att[a].run = "aborted"
                         \/ ~released' /\ att'[a].state = "aborted"
  BY DEF OwnStop
<1>1. PICK a \in Attempts : AttemptStep(a)
  BY DEF Next, vars, WatchdogStep, Progress, TimerFires, Finish, BodySettles, SettleBody,
         StartMaintenance, EndMaintenance, OpenAttempt, Revoke, Tick
<1>2. ReleaseTimerFires(a) \/ ExternalAbort(a)
  BY <1>1 DEF AttemptStep, ArmDeadline, ApprovalStarts, ApprovalEnds, DeadlineExpires,
              IdleTimeout, StreamCleanup, CloseAttempt
<1>3. CASE ReleaseTimerFires(a)
  <2>1. IsCurrent(a) /\ released'
    BY <1>3 DEF ReleaseTimerFires, RaiseRelease
  <2>2. att[a].run = "aborted"
    BY <1>3 DEF ReleaseTimerFires, Due, NoTimer, HoldInv, AttemptsOK
  <2> QED
    BY <2>1, <2>2 DEF IsCurrent
<1>4. CASE ExternalAbort(a)
  <2> DEFINE f == [att EXCEPT ![a].state = "aborted"]
  <2>1. IsCurrent(a) /\ att' = StoppedAll(f)
    BY <1>4 DEF ExternalAbort
  <2>2. ~released'
    BY <1>4 DEF ExternalAbort, HoldInv, WatchOK
  <2>3. f \in [Attempts -> Controls] /\ f[a].state = "aborted"
    BY DEF HoldInv, AttemptsOK, Controls
  <2> HIDE DEF f
  <2>4. att'[a].state = "aborted"
    BY <2>1, <2>3, StoppedAllFacts DEF HoldInv
  <2> QED
    BY <2>1, <2>2, <2>4 DEF IsCurrent
<1> QED
  BY <1>2, <1>3, <1>4

(***************************************************************************)
(* The signals are raised by the lane or by the attempt that has it: no    *)
(* retained callback of a closed attempt stops its successor.              *)
(***************************************************************************)
THEOREM OwnStopTheorem == Spec => StopsOnlyItsOwn
<1>1. HoldInv /\ [Next]_vars => [OwnStop]_vars
  BY OwnStopSteps
<1>2. HoldInv /\ [Next]_vars =>
        [~aborted /\ aborted' =>
         \/ LaneAbort
         \/ RetireAttempt
         \/ \E a \in Attempts :
              /\ activeOwner = a
              /\ ~stale
              /\ \/ released' /\ att[a].run = "aborted"
                 \/ ~released' /\ att'[a].state = "aborted"]_vars
  BY <1>1 DEF OwnStop
<1> QED
  BY <1>2, HoldStarts, HoldSteps, PTL DEF Spec, StopsOnlyItsOwn

-----------------------------------------------------------------------------
(* The execution budget of an attempt *)

Granted(r) == r.budget.at + IF r.exec.graceUsed THEN CompactionGrace ELSE 0
Slack(r) == r.pauses * (1 + Lag) + IF r.exec.graceUsed THEN Lag ELSE 0
Adds(r, left) == Granted(r) <= r.ran + left /\ r.ran + left <= Granted(r) + Slack(r)

\* BudgetKept of the controls r at time n, with what makes it inductive: no time
\* is counted before the deadline is armed, and a timer is at most Lag late.
Kept(r, n) ==
    /\ r.exec.kind = "none" => r.ran = 0
    /\ r.exec.kind \in {"bounded", "paused"} => r.budget # Unlimited
    /\ r.exec.kind = "bounded" =>
          r.exec.at \in Nat /\ n <= r.exec.at + Lag /\ Adds(r, r.exec.at - n)
    /\ r.exec.kind = "paused" => r.exec.left \in Nat \ {0} /\ Adds(r, r.exec.left)

BudgetInv == now \in Nat /\ \A a \in Attempts : Kept(att[a], now)

\* Only the deadline, the budget and the counters matter.
LEMMA KeptSame ==
    ASSUME NEW r, NEW q, NEW n, Kept(r, n),
           q.exec = r.exec, q.budget = r.budget, q.pauses = r.pauses, q.ran = r.ran
    PROVE  Kept(q, n)
BY DEF Kept, Adds, Granted, Slack

\* Without a deadline there is nothing to account for.
LEMMA KeptIdle ==
    ASSUME NEW r, NEW n, r.exec.kind \notin {"bounded", "paused"}, r.exec.kind = "none" => r.ran = 0
    PROVE  Kept(r, n)
BY DEF Kept

\* clearTimers and abortRun end the account.
LEMMA KeptStopped ==
    ASSUME NEW r \in Controls, NEW n, Kept(r, n)
    PROVE  Kept(Cleared(r), n) /\ Kept(Stopped(r), n)
  <1>1. PICK e : e = IF r.exec = NotArmed THEN NotArmed ELSE ExecClosed
    OBVIOUS
  <1>2. e.kind \notin {"bounded", "paused"} /\ (e.kind = "none" => r.exec.kind = "none")
    BY <1>1 DEF NotArmed, ExecClosed
  <1>3. Cleared(r) = [r EXCEPT !.exec = e]
    BY <1>1 DEF Cleared, Controls
  <1>4. Cleared(r).exec = e /\ Cleared(r).ran = r.ran
    BY <1>3 DEF Controls
  <1>0. PICK q : q = [r EXCEPT !.run = "aborted"]
    OBVIOUS
  <1>5. q \in Controls /\ q.exec = r.exec /\ q.ran = r.ran
    BY <1>0 DEF Controls
  <1>6. Stopped(r) = [q EXCEPT !.exec = e]
    BY <1>0, <1>1, <1>5 DEF Stopped, Cleared, Controls
  <1>7. Stopped(r).exec = e /\ Stopped(r).ran = r.ran
    BY <1>5, <1>6 DEF Controls
  <1> QED
    BY <1>2, <1>4, <1>7, KeptIdle DEF Kept

\* A step that replaces the controls of one attempt.
LEMMA KeptReplaced ==
    ASSUME AttemptsOK, BudgetInv, NEW a \in Attempts, NEW r, Kept(r, now),
           att' = [att EXCEPT ![a] = r], now' = now
    PROVE  BudgetInv'
  <1>1. \A b \in Attempts : att'[b] = IF b = a THEN r ELSE att[b]
    BY DEF AttemptsOK
  <1> QED
    BY <1>1 DEF BudgetInv

\* A deadline change may mark the controls as the lane's owner, no more.
LEMMA KeptChanged ==
    ASSUME AttemptsOK, BudgetInv, NEW a \in Attempts, NEW r \in Controls, NEW d,
           Kept(r, now), DeadlineChanged(a, r, d), now' = now
    PROVE  BudgetInv'
  <1>1. PICK q : att' = [att EXCEPT ![a] = q] /\ (q = r \/ q = [r EXCEPT !.owned = TRUE])
    BY DEF DeadlineChanged
  <1>2. q.exec = r.exec /\ q.budget = r.budget /\ q.pauses = r.pauses /\ q.ran = r.ran
    BY <1>1 DEF Controls
  <1>3. Kept(q, now)
    BY <1>2, KeptSame
  <1> QED
    BY <1>1, <1>3, KeptReplaced

\* An abort ends the account of every open attempt.
LEMMA KeptStoppedAll ==
    ASSUME NEW f \in [Attempts -> Controls], \A a \in Attempts : Kept(f[a], now),
           att' = StoppedAll(f), now' = now, now \in Nat
    PROVE  BudgetInv'
BY KeptStopped DEF StoppedAll, BudgetInv

\* scheduleAbortTimer: what is left of a budget is scheduled from now on.
LEMMA KeptScheduled ==
    ASSUME AttemptsOK, BudgetInv, NEW a \in Attempts, NEW left \in Nat \ {0}, NEW g \in BOOLEAN,
           att[a].budget # Unlimited,
           LET granted == att[a].budget.at + IF g THEN CompactionGrace ELSE 0
               slack == att[a].pauses * (1 + Lag) + IF g THEN Lag ELSE 0
           IN  granted <= att[a].ran + left /\ att[a].ran + left <= granted + slack,
           Schedule(a, left, g), now' = now
    PROVE  BudgetInv'
  <1>1. PICK e : e = Running(now + left, g)
    OBVIOUS
  <1>2. e.kind = "bounded" /\ e.at = now + left /\ e.graceUsed = g
    BY <1>1 DEF Running
  <1>3. e \in Execs
    BY <1>1 DEF Running, Execs, BudgetInv
  <1>4. AtLeastOne(left) = left
    BY DEF AtLeastOne
  <1>5. PICK r : r = [att[a] EXCEPT !.exec = e]
    OBVIOUS
  <1>6. /\ r \in Controls /\ r.exec = e /\ r.budget = att[a].budget
        /\ r.pauses = att[a].pauses /\ r.ran = att[a].ran
    BY <1>3, <1>5 DEF AttemptsOK, Controls
  <1>7. now \in Nat /\ Lag \in Nat
    BY AttemptAssumption DEF BudgetInv
  <1>8. (now + left) - now = left /\ now + left \in Nat /\ now <= now + left + Lag
    BY <1>7
  <1>9. Adds(r, e.at - now)
    BY <1>2, <1>6, <1>8 DEF Adds, Granted, Slack
  <1>10. Kept(r, now)
    BY <1>2, <1>6, <1>8, <1>9 DEF Kept
  <1> QED
    BY <1>1, <1>4, <1>5, <1>6, <1>10, KeptChanged DEF Schedule

\* An approval, a compaction and the passing of time keep the account.
LEMMA BudgetSteps ==
    ASSUME AttemptsOK, AttemptsOK', WatchOK, BudgetInv, [Next]_vars
    PROVE  BudgetInv'
<1> USE DEF signalVars, settleVars, attemptVars, watchdogVars
<1>n. now \in Nat /\ \A a \in Attempts : att[a] \in Controls /\ Kept(att[a], now)
  BY DEF BudgetInv, AttemptsOK
<1>c. Lag \in Nat \ {0} /\ CompactionGrace \in Nat \ {0}
  BY AttemptAssumption
<1>0. ASSUME UNCHANGED <<att, now>> PROVE BudgetInv'
  BY <1>0 DEF BudgetInv
<1>1. CASE WatchdogStep \/ BodySettles \/ StartMaintenance \/ EndMaintenance \/ Revoke \/ UNCHANGED vars
  BY <1>0, <1>1 DEF WatchdogStep, Progress, TimerFires, Finish, BodySettles, SettleBody,
                    StartMaintenance, EndMaintenance, Revoke, vars
<1>2. CASE OpenAttempt
  <2>0. PICK a : a = Cardinality(Born) + 1
    OBVIOUS
  <2>1. PICK budget \in AttemptTimeouts, seed \in BOOLEAN :
            att' = [att EXCEPT ![a] =
                      [Unborn EXCEPT !.state = "active", !.budget = budget,
                                     !.owned = seed /\ ~aborted /\ ~stale,
                                     !.run = IF aborted THEN "aborted" ELSE "live"]]
    BY <1>2, <2>0 DEF OpenAttempt
  <2>2. PICK r : r = [Unborn EXCEPT !.state = "active", !.budget = budget,
                                     !.owned = seed /\ ~aborted /\ ~stale,
                                     !.run = IF aborted THEN "aborted" ELSE "live"]
    OBVIOUS
  <2>3. r.exec = NotArmed /\ r.ran = 0
    BY <2>2 DEF Unborn
  <2>4. Kept(r, now)
    BY <2>3, KeptIdle DEF NotArmed
  <2>5. att' = [att EXCEPT ![a] = r] /\ now' = now
    BY <1>2, <2>1, <2>2 DEF OpenAttempt
  <2>6. \A b \in Attempts : att'[b] = r \/ att'[b] = att[b]
    BY <2>5 DEF AttemptsOK
  <2> QED
    BY <1>n, <2>4, <2>5, <2>6 DEF BudgetInv
<1>3. ASSUME NEW a \in Attempts, AttemptStep(a)
      PROVE  BudgetInv'
  <2>0. att[a] \in Controls /\ Kept(att[a], now)
    BY <1>n
  <2>g. att[a].exec.kind \in {"bounded", "paused"} =>
            /\ att[a].exec.graceUsed \in BOOLEAN
            /\ att[a].budget # Unlimited /\ att[a].budget.at \in Nat
            /\ att[a].pauses \in Nat /\ att[a].ran \in Nat
    <3>1. att[a].budget = Unlimited \/ att[a].budget \in Timeouts
      BY <2>0, AttemptAssumption DEF Controls
    <3>2. att[a].pauses \in Nat /\ att[a].ran \in Nat
      BY <2>0 DEF Controls
    <3>3. att[a].exec.kind \in {"bounded", "paused"} => att[a].exec.graceUsed \in BOOLEAN
      BY <2>0 DEF Controls, Execs, NotArmed, ExecClosed, Unlimited
    <3> QED
      BY <2>0, <3>1, <3>2, <3>3 DEF Kept, Timeouts
  <2>u. ASSUME TimeoutUnwind(a), now' = now PROVE BudgetInv'
    <3>1. PICK r \in Controls : r = Stopped(att[a]) /\ Kept(r, now)
      BY <2>0, StoppedFacts, KeptStopped
    <3>2. PICK q : q = [r EXCEPT !.release = Timer("release", now + Grace)]
      OBVIOUS
    <3>3. q.exec = r.exec /\ q.budget = r.budget /\ q.pauses = r.pauses /\ q.ran = r.ran
      BY <3>2 DEF Controls
    <3>4. Kept(q, now)
      BY <3>1, <3>3, KeptSame
    <3>5. att' = [att EXCEPT ![a] = q] \/ att' = [att EXCEPT ![a] = r]
      BY <2>u, <3>1, <3>2 DEF TimeoutUnwind
    <3> QED
      BY <2>u, <3>1, <3>4, <3>5, KeptReplaced
  <2>1. CASE ArmDeadline(a)
    <3>0. att[a].exec.kind = "none" /\ att[a].ran = 0 /\ now' = now
      BY <2>0, <2>1 DEF ArmDeadline, NotArmed, Kept
    <3>1. ASSUME NEW e \in {ExecClosed, Unlimited}
          PROVE  /\ [att[a] EXCEPT !.exec = e] \in Controls
                 /\ Kept([att[a] EXCEPT !.exec = e], now)
      <4>1. e \in Execs /\ e.kind \notin {"none", "bounded", "paused"}
        BY DEF Execs, ExecClosed, Unlimited
      <4>2. [att[a] EXCEPT !.exec = e] \in Controls /\ [att[a] EXCEPT !.exec = e].exec = e
        BY <2>0, <4>1 DEF Controls
      <4> QED
        BY <4>1, <4>2, KeptIdle
    <3>2. CASE att' = [att EXCEPT ![a].exec = ExecClosed]
      <4>1. att' = [att EXCEPT ![a] = [att[a] EXCEPT !.exec = ExecClosed]]
        BY <3>2 DEF AttemptsOK
      <4> QED
        BY <3>0, <3>1, <4>1, KeptReplaced
    <3>3. CASE DeadlineChanged(a, [att[a] EXCEPT !.exec = Unlimited], Unlimited)
      BY <3>0, <3>1, <3>3, KeptChanged
    <3>4. CASE att[a].budget # Unlimited /\ Schedule(a, att[a].budget.at, FALSE)
      <4>1. PICK left \in Nat \ {0} : left = att[a].budget.at
        BY <2>0, <3>4, AttemptAssumption DEF Controls, Timeouts
      <4>2. att[a].pauses \in Nat
        BY <2>0 DEF Controls
      <4>3. att[a].pauses * (1 + Lag) \in Nat
        BY <1>c, <4>2
      <4>4. LET granted == att[a].budget.at + IF FALSE THEN CompactionGrace ELSE 0
                slack == att[a].pauses * (1 + Lag) + IF FALSE THEN Lag ELSE 0
            IN  granted <= att[a].ran + left /\ att[a].ran + left <= granted + slack
        BY <3>0, <4>1, <4>3
      <4> QED
        BY <3>0, <3>4, <4>1, <4>4, KeptScheduled
    <3> QED
      BY <2>1, <3>2, <3>3, <3>4 DEF ArmDeadline
  <2>2. CASE ApprovalStarts(a)
    <3>0. now' = now /\ att[a].exec.kind = "bounded"
      BY <2>2 DEF ApprovalStarts
    <3>1. PICK left, g, e, n : /\ left = AtLeastOne(att[a].exec.at - now)
                               /\ g = att[a].exec.graceUsed
                               /\ e = Paused(left, g) /\ n = att[a].pauses + 1
      OBVIOUS
    <3>2. /\ att[a].exec.at \in Nat /\ now <= att[a].exec.at + Lag
          /\ Adds(att[a], att[a].exec.at - now)
      BY <2>0, <3>0 DEF Kept
    <3>3. /\ left \in Nat \ {0}
          /\ att[a].exec.at - now <= left /\ left <= att[a].exec.at - now + 1 + Lag
      BY <1>c, <1>n, <3>1, <3>2 DEF AtLeastOne
    <3>4. e.kind = "paused" /\ e.left = left /\ e.graceUsed = g /\ e \in Execs /\ g \in BOOLEAN /\ n \in Nat
      BY <2>g, <3>0, <3>1, <3>3 DEF Paused, Execs
    <3>5. DeadlineChanged(a, [att[a] EXCEPT !.exec = e, !.pauses = n], Unlimited)
      BY <2>2, <3>1 DEF ApprovalStarts
    <3>6. PICK r : r = [att[a] EXCEPT !.exec = e, !.pauses = n]
      OBVIOUS
    <3>7. /\ r \in Controls /\ r.exec = e /\ r.pauses = n
          /\ r.budget = att[a].budget /\ r.ran = att[a].ran
      BY <2>0, <3>4, <3>6 DEF Controls
    <3>8. n * (1 + Lag) = att[a].pauses * (1 + Lag) + 1 + Lag /\ att[a].pauses * (1 + Lag) \in Nat
      BY <1>c, <2>g, <3>0, <3>1
    <3>9. Adds(r, left)
      <4>1. Granted(r) = Granted(att[a]) /\ Granted(r) \in Nat
        BY <1>c, <2>g, <3>0, <3>1, <3>4, <3>7 DEF Granted
      <4>2. Slack(r) = Slack(att[a]) + 1 + Lag /\ Slack(att[a]) \in Nat
        BY <1>c, <2>g, <3>0, <3>1, <3>4, <3>7, <3>8 DEF Slack
      <4> QED
        BY <1>c, <1>n, <2>g, <3>0, <3>2, <3>3, <3>7, <4>1, <4>2 DEF Adds
    <3>10. Kept(r, now)
      BY <2>g, <3>0, <3>3, <3>4, <3>7, <3>9 DEF Kept
    <3> QED
      BY <3>0, <3>5, <3>6, <3>7, <3>10, KeptChanged
  <2>3. CASE ApprovalEnds(a)
    <3>0. /\ now' = now /\ att[a].exec.kind = "paused"
          /\ Schedule(a, att[a].exec.left, att[a].exec.graceUsed)
      BY <2>3 DEF ApprovalEnds
    <3>1. att[a].exec.left \in Nat \ {0} /\ Adds(att[a], att[a].exec.left)
      BY <2>0, <3>0 DEF Kept
    <3> QED
      BY <2>g, <3>0, <3>1, KeptScheduled DEF Adds, Granted, Slack
  <2>4. CASE DeadlineExpires(a)
    <3>0. now' = now /\ att[a].exec.kind = "bounded" /\ att[a].exec.at <= now
      BY <2>4 DEF DeadlineExpires
    <3>1. CASE ~att[a].exec.graceUsed /\ Schedule(a, CompactionGrace, TRUE)
      <4>1. /\ att[a].exec.at \in Nat /\ now <= att[a].exec.at + Lag
            /\ Adds(att[a], att[a].exec.at - now)
        BY <2>0, <3>0 DEF Kept
      <4>2. PICK s \in Nat : s = att[a].pauses * (1 + Lag)
        BY <1>c, <2>g, <3>0
      <4>3. /\ att[a].budget.at <= att[a].ran + (att[a].exec.at - now)
            /\ att[a].ran + (att[a].exec.at - now) <= att[a].budget.at + s
        BY <2>g, <3>0, <3>1, <4>1, <4>2 DEF Adds, Granted, Slack
      <4>4. LET granted == att[a].budget.at + IF TRUE THEN CompactionGrace ELSE 0
                slack == att[a].pauses * (1 + Lag) + IF TRUE THEN Lag ELSE 0
            IN  /\ granted <= att[a].ran + CompactionGrace
                /\ att[a].ran + CompactionGrace <= granted + slack
        BY <1>c, <1>n, <2>g, <3>0, <4>1, <4>2, <4>3
      <4> QED
        BY <1>c, <2>g, <3>0, <3>1, <4>4, KeptScheduled
    <3>2. CASE TimeoutUnwind(a)
      BY <2>u, <3>0, <3>2
    <3> QED
      BY <2>4, <3>1, <3>2 DEF DeadlineExpires
  <2>5. CASE IdleTimeout(a)
    BY <2>5, <2>u DEF IdleTimeout
  <2>6. CASE ReleaseTimerFires(a)
    <3>1. PICK r : r = [att[a] EXCEPT !.release = [kind |-> "spent"]]
      OBVIOUS
    <3>2. r \in Controls /\ Kept(r, now)
      <4>1. r \in Controls /\ r.exec = att[a].exec /\ r.budget = att[a].budget
            /\ r.pauses = att[a].pauses /\ r.ran = att[a].ran
        BY <2>0, <3>1 DEF Controls, Releases
      <4> QED
        BY <2>0, <4>1, KeptSame
    <3>3. PICK f : f = [att EXCEPT ![a] = r]
      OBVIOUS
    <3>4. f = [att EXCEPT ![a].release = [kind |-> "spent"]] /\ f \in [Attempts -> Controls]
          /\ \A b \in Attempts : Kept(f[b], now)
      BY <1>n, <3>1, <3>2, <3>3 DEF AttemptsOK
    <3>5. now' = now /\ (att' = f \/ att' = StoppedAll(f))
      BY <2>6, <3>4 DEF ReleaseTimerFires
    <3> QED
      BY <1>n, <3>2, <3>3, <3>4, <3>5, KeptReplaced, KeptStoppedAll
  <2>7. CASE ExternalAbort(a)
    <3>1. PICK r : r = [att[a] EXCEPT !.state = "aborted"]
      OBVIOUS
    <3>2. r \in Controls /\ Kept(r, now)
      <4>1. r \in Controls /\ r.exec = att[a].exec /\ r.budget = att[a].budget
            /\ r.pauses = att[a].pauses /\ r.ran = att[a].ran
        BY <2>0, <3>1 DEF Controls
      <4> QED
        BY <2>0, <4>1, KeptSame
    <3>3. PICK f : f = [att EXCEPT ![a] = r]
      OBVIOUS
    <3>4. f = [att EXCEPT ![a].state = "aborted"] /\ f \in [Attempts -> Controls]
          /\ \A b \in Attempts : Kept(f[b], now)
      BY <1>n, <3>1, <3>2, <3>3 DEF AttemptsOK
    <3>5. now' = now /\ (att' = [att EXCEPT ![a] = Stopped(att[a])] \/ att' = StoppedAll(f))
      BY <2>7, <3>4 DEF ExternalAbort, AttemptsOK
    <3> QED
      BY <1>n, <2>0, <3>4, <3>5, KeptReplaced, KeptStopped, KeptStoppedAll
  <2>8. CASE StreamCleanup(a)
    <3>1. att' = [att EXCEPT ![a] = Cleared(att[a])] /\ now' = now
      BY <2>8 DEF StreamCleanup, AttemptsOK
    <3> QED
      BY <2>0, <3>1, KeptReplaced, KeptStopped
  <2>9. CASE CloseAttempt(a)
    <3>1. PICK h, r : h = [att[a] EXCEPT !.state = "closed"] /\ r = [h EXCEPT !.release = NoTimer]
      OBVIOUS
    <3>2. h \in Controls /\ h.exec = att[a].exec /\ h.ran = att[a].ran
      BY <2>0, <3>1 DEF Controls
    <3>3. r.exec = att[a].exec /\ r.ran = att[a].ran
      BY <3>1, <3>2 DEF Controls
    <3>4. r.exec.kind \notin {"bounded", "paused"}
      BY <2>9, <3>3 DEF CloseAttempt, NotArmed, ExecClosed
    <3>5. Kept(r, now)
      BY <2>0, <3>3, <3>4, KeptIdle DEF Kept
    <3>6. att' = [att EXCEPT ![a] = r] /\ now' = now
      <4>1. att' = [att EXCEPT ![a].state = "closed", ![a].release = NoTimer] /\ now' = now
        BY <2>9 DEF CloseAttempt
      <4>2. \A b \in Attempts : att'[b] = IF b = a THEN r ELSE att[b]
        BY <3>1, <4>1 DEF AttemptsOK
      <4>3. att' \in [Attempts -> Controls]
        BY DEF AttemptsOK
      <4> QED
        BY <4>1, <4>2, <4>3 DEF AttemptsOK
    <3> QED
      BY <3>5, <3>6, KeptReplaced
  <2> QED
    BY <1>3, <2>1, <2>2, <2>3, <2>4, <2>5, <2>6, <2>7, <2>8, <2>9 DEF AttemptStep
<1>4. CASE LaneAbort \/ RetireAttempt
  <2>1. att' = StoppedAll(att) /\ now' = now
    BY <1>4 DEF LaneAbort, RetireAttempt
  <2> QED
    BY <1>n, <2>1, KeptStoppedAll DEF AttemptsOK
<1>5. CASE Tick
  <2>1. now' = now + 1
        /\ \A b \in Attempts : /\ att'[b] = IF att[b].exec.kind = "bounded"
                                            THEN [att[b] EXCEPT !.ran = @ + 1] ELSE att[b]
                               /\ att[b].exec.kind = "bounded" => now < att[b].exec.at + Lag
    BY <1>5 DEF Tick, InTime
  <2> SUFFICES ASSUME NEW a \in Attempts PROVE Kept(att'[a], now')
    BY <1>n, <2>1 DEF BudgetInv
  <2>2. CASE att[a].exec.kind # "bounded"
    BY <1>n, <2>1, <2>2 DEF Kept
  <2>3. CASE att[a].exec.kind = "bounded"
    <3>1. PICK r, q : r = att[a] /\ q = att'[a]
      OBVIOUS
    <3>2. r \in Controls /\ Kept(r, now) /\ r.exec.kind = "bounded" /\ now < r.exec.at + Lag
          /\ q = [r EXCEPT !.ran = @ + 1]
      BY <1>n, <2>1, <2>3, <3>1
    <3>3. q.exec = r.exec /\ q.budget = r.budget /\ q.pauses = r.pauses /\ q.ran = r.ran + 1 /\ r.ran \in Nat
      BY <3>2 DEF Controls
    <3>4. r.exec.at \in Nat /\ Adds(r, r.exec.at - now) /\ r.budget # Unlimited
      BY <3>2 DEF Kept
    <3>5. r.ran + (r.exec.at - now) = q.ran + (q.exec.at - (now + 1))
      BY <1>n, <3>3, <3>4
    <3>6. Adds(q, q.exec.at - (now + 1))
      BY <3>3, <3>4, <3>5 DEF Adds, Granted, Slack
    <3>7. now + 1 \in Nat /\ now + 1 <= r.exec.at + Lag
      BY <1>c, <1>n, <3>2, <3>4
    <3>8. Kept(q, now + 1)
      BY <3>2, <3>3, <3>4, <3>6, <3>7 DEF Kept
    <3> QED
      BY <2>1, <3>1, <3>8
  <2> QED
    BY <2>2, <2>3
<1> QED
  BY <1>0, <1>1, <1>2, <1>3, <1>4, <1>5 DEF Next

\* Every reachable state keeps the account.
LEMMA BudgetAlways == Spec => []BudgetInv
<1>1. Init => BudgetInv
  <2> SUFFICES ASSUME Init PROVE BudgetInv
    OBVIOUS
  <2>1. now = 0 /\ \A a \in Attempts : att[a] = Unborn
    BY DEF Init, WatchdogInit
  <2>2. Unborn.exec.kind = "none" /\ Unborn.ran = 0
    BY DEF Unborn, NotArmed
  <2> QED
    BY <2>1, <2>2, KeptIdle DEF BudgetInv
<1>2. HoldInv /\ HoldInv' /\ BudgetInv /\ [Next]_vars => BudgetInv'
  BY BudgetSteps DEF HoldInv
<1> QED
  BY <1>1, <1>2, HoldStarts, HoldSteps, PTL DEF Spec

(***************************************************************************)
(* Human review neither costs nor grants execution time, and a compaction  *)
(* extends it once (scheduleAbortTimer, approvalWait.onChange): for every  *)
(* budget, every number of pauses and every lateness of the timers.        *)
(***************************************************************************)
THEOREM BudgetTheorem == Spec => []BudgetKept
<1>1. BudgetInv => BudgetKept
  BY DEF BudgetInv, Kept, Adds, Granted, Slack, BudgetKept
<1> QED
  BY <1>1, BudgetAlways, PTL

-----------------------------------------------------------------------------
(* Idle expiries and types *)

\* armProgressTimeout gives the task up for lack of progress only when there was
\* none for a whole TaskTimeout.
LEMMA ArmIdle ==
    ASSUME NEW d, NEW p \in Int, now \in Int, outcome # "progress-idle",
           ArmProgress(d, p), outcome' = "progress-idle"
    PROVE  now - p >= TaskTimeout
BY WatchdogAssumption DEF ArmProgress, Expiry, Reject, settleVars

\* A published deadline does so with the progress it was given.
LEMMA PublishIdle ==
    ASSUME NEW d, NEW p \in Int, now \in Int, outcome # "progress-idle",
           Publish(d, p), outcome' = "progress-idle"
    PROVE  now - p >= TaskTimeout
BY ArmIdle DEF Publish

(***************************************************************************)
(* A task is given up as idle only after a whole TaskTimeout without       *)
(* progress (armProgressTimeout reads the progress again): for every       *)
(* sequence of deadlines published, withdrawn and expired before.          *)
(***************************************************************************)
THEOREM IdleTheorem == Spec => IdleMeansIdle
<1>1. HoldInv /\ [Next]_vars =>
        [outcome # "progress-idle" /\ outcome' = "progress-idle" =>
            now - progressAt' >= TaskTimeout]_vars
  <2> USE DEF signalVars, settleVars, attemptVars, watchdogVars
  <2> SUFFICES ASSUME HoldInv, Next, outcome # "progress-idle", outcome' = "progress-idle"
               PROVE  now - progressAt' >= TaskTimeout
    OBVIOUS
  <2>0. now \in Int /\ progressAt \in Int
    BY DEF HoldInv, WatchOK
  <2>1. ASSUME NEW d, Publish(d, progressAt), progressAt' = progressAt
        PROVE  now - progressAt' >= TaskTimeout
    BY <2>0, <2>1, PublishIdle
  <2>2. ASSUME NEW d, Publish(d, now), progressAt' = now
        PROVE  now - progressAt' >= TaskTimeout
    BY <2>0, <2>2, PublishIdle
  <2>3. ASSUME NEW a, NEW r, NEW d, DeadlineChanged(a, r, d), progressAt' = progressAt
        PROVE  now - progressAt' >= TaskTimeout
    BY <2>1, <2>3 DEF DeadlineChanged
  <2>4. CASE WatchdogStep
    BY <2>0, <2>4, ArmIdle DEF WatchdogStep, Progress, TimerFires, Finish, Reject
  <2>5. CASE BodySettles
    BY <2>5 DEF BodySettles, SettleBody
  <2>6. CASE StartMaintenance \/ EndMaintenance
    BY <2>1, <2>2, <2>6 DEF StartMaintenance, EndMaintenance
  <2>7. CASE OpenAttempt
    BY <2>1, <2>7 DEF OpenAttempt
  <2>8. ASSUME NEW a \in Attempts, AttemptStep(a) PROVE now - progressAt' >= TaskTimeout
    <3>1. CASE ArmDeadline(a)
      BY <2>3, <3>1 DEF ArmDeadline, Schedule
    <3>2. CASE ApprovalStarts(a)
      BY <2>3, <3>2 DEF ApprovalStarts
    <3>3. CASE ApprovalEnds(a)
      BY <2>3, <3>3 DEF ApprovalEnds, Schedule
    <3>4. CASE DeadlineExpires(a)
      BY <2>3, <3>4 DEF DeadlineExpires, Schedule
    <3>5. CASE ReleaseTimerFires(a)
      BY <3>5 DEF ReleaseTimerFires, RaiseRelease, Reject
    <3>6. CASE CloseAttempt(a)
      BY <2>1, <2>2, <3>6 DEF CloseAttempt
    <3>7. CASE IdleTimeout(a) \/ ExternalAbort(a) \/ StreamCleanup(a)
      BY <3>7 DEF IdleTimeout, ExternalAbort, StreamCleanup
    <3> QED
      BY <2>8, <3>1, <3>2, <3>3, <3>4, <3>5, <3>6, <3>7 DEF AttemptStep
  <2>9. CASE LaneAbort \/ RetireAttempt \/ Revoke \/ Tick
    BY <2>9 DEF LaneAbort, RetireAttempt, Revoke, Tick
  <2> QED
    BY <2>4, <2>5, <2>6, <2>7, <2>8, <2>9 DEF Next
<1> QED
  BY <1>1, HoldStarts, HoldSteps, PTL DEF Spec, IdleMeansIdle

Timers == {NoTimer} \cup [kind : {"progress", "grace"}, at : Nat]
Outcomes == Expiries \cup {"none", "body"}

\* TypeOK but for the attempts, whose part follows from AttemptsOK and BudgetInv.
WatchTypes ==
    /\ progressAt \in 0..now
    /\ ownerDeadline \in Deadlines
    /\ timer \in Timers
    /\ listeners \subseteq {"abort", "release", "deadline"}
    /\ aborted \in BOOLEAN /\ released \in BOOLEAN /\ timedOut \in BOOLEAN
    /\ outcome \in Outcomes
    /\ closed \in BOOLEAN /\ body \in {"running", "settled"}
    /\ activeOwner \in 0..MaxAttempts /\ stale \in BOOLEAN
    /\ maintenance \in {"todo", "busy", "done"}

\* The types of what a deadline may change.
DeadlineKept ==
    /\ ownerDeadline' \in Deadlines /\ timer' \in Timers
    /\ timedOut' \in BOOLEAN /\ outcome' \in Outcomes

\* A rejection settles with one of the expiries.
LEMMA RejectTypes ==
    ASSUME WatchTypes, NEW cause \in Expiries, Reject(cause)
    PROVE  timedOut' \in BOOLEAN /\ outcome' \in Outcomes
BY DEF Reject, WatchTypes, Outcomes

\* A timer is armed for a time to come.
LEMMA ArmTypes ==
    ASSUME WatchTypes, now \in Nat, NEW d \in Deadlines, NEW p \in Nat, ArmProgress(d, p)
    PROVE  timer' \in Timers /\ timedOut' \in BOOLEAN /\ outcome' \in Outcomes
  <1>1. d.kind # "unlimited" => Expiry(d, p) \in Nat
    BY WatchdogAssumption DEF Expiry, Deadlines, NoDeadline, Unlimited
  <1>2. CASE UNCHANGED settleVars
    BY <1>1, <1>2 DEF ArmProgress, Timer, NoTimer, Timers, settleVars, WatchTypes, Reject, Outcomes, Expiries
  <1>3. CASE ~UNCHANGED settleVars
    <2>1. timer' = NoTimer /\ \E cause \in Expiries : Reject(cause)
      BY <1>3 DEF ArmProgress, Expiries
    <2> QED
      BY <2>1, RejectTypes DEF Timers
  <1> QED
    BY <1>2, <1>3

\* So is the timer of a published deadline.
LEMMA PublishTypes ==
    ASSUME WatchTypes, now \in Nat, NEW d \in Deadlines, NEW p \in Nat, Publish(d, p)
    PROVE  DeadlineKept
BY ArmTypes DEF Publish, WatchTypes, DeadlineKept

\* An attempt's deadline is padded and published, or ignored.
LEMMA ChangeTypes ==
    ASSUME WatchTypes, now \in Nat, NEW a, NEW r,
           NEW d, d = Unlimited \/ \E t \in Nat : d = Bounded(t), DeadlineChanged(a, r, d)
    PROVE  DeadlineKept
  <1>1. LaneTimeoutOf(d) \in Deadlines
    <2>1. CASE d = Unlimited
      BY <2>1 DEF LaneTimeoutOf, Deadlines, Unlimited
    <2>2. ASSUME NEW t \in Nat, d = Bounded(t) PROVE LaneTimeoutOf(d) \in Deadlines
      <3>1. LaneTimeoutOf(d) = Bounded(t + Grace)
        BY <2>2 DEF LaneTimeoutOf, Bounded
      <3>2. t + Grace \in Nat
        BY WatchdogAssumption
      <3> QED
        BY <3>1, <3>2 DEF Bounded, Deadlines
    <2> QED
      BY <2>1, <2>2
  <1>2. progressAt \in Nat
    BY DEF WatchTypes
  <1>3. CASE IsCurrent(a)
    BY <1>1, <1>2, <1>3, PublishTypes DEF DeadlineChanged
  <1>4. CASE ~IsCurrent(a)
    BY <1>4 DEF DeadlineChanged, settleVars, WatchTypes, DeadlineKept
  <1> QED
    BY <1>3, <1>4

\* scheduleAbortTimer publishes a time to come.
LEMMA ScheduleTypes ==
    ASSUME WatchTypes, now \in Nat, NEW a, NEW delay \in Nat, NEW g, Schedule(a, delay, g)
    PROVE  DeadlineKept
  <1>1. now + AtLeastOne(delay) \in Nat
    BY DEF AtLeastOne
  <1> QED
    BY <1>1, ChangeTypes DEF Schedule

\* Every step keeps the types of the watchdog.
LEMMA WatchTypesSteps ==
    ASSUME WatchTypes, AttemptsOK, AttemptsOK', BudgetInv, [Next]_vars
    PROVE  WatchTypes'
<1> USE DEF signalVars, settleVars, attemptVars, watchdogVars
<1>0. now \in Nat /\ progressAt \in Nat
  BY DEF BudgetInv, WatchTypes
<1>t. now + Grace \in Nat /\ Timer("grace", now + Grace) \in Timers /\ NoTimer \in Timers
  <2>1. now + Grace \in Nat
    BY <1>0, WatchdogAssumption
  <2> QED
    BY <2>1 DEF Timer, Timers
<1>k. DeadlineKept <=> /\ ownerDeadline' \in Deadlines /\ timer' \in Timers
                       /\ timedOut' \in BOOLEAN /\ outcome' \in Outcomes
  BY DEF DeadlineKept
<1>d. NoDeadline \in Deadlines /\ Unlimited \in Deadlines
  BY DEF Deadlines
<1>p. ASSUME NEW d \in Deadlines, NEW p \in {progressAt, now}, Publish(d, p)
      PROVE  DeadlineKept
  BY <1>0, <1>p, PublishTypes
<1>1. CASE WatchdogStep
  <2>1. CASE Progress
    BY <1>0, <1>1, <2>1 DEF WatchdogStep, Progress, WatchTypes
  <2>2. CASE TimerFires
    <3>1. timer' \in Timers /\ timedOut' \in BOOLEAN /\ outcome' \in Outcomes
      <4>1. CASE timer.kind = "progress"
        BY <1>0, <2>2, <4>1, ArmTypes DEF TimerFires, WatchTypes
      <4>2. CASE timer.kind # "progress"
        BY <1>t, <2>2, <4>2, RejectTypes DEF TimerFires, Expiries
      <4> QED
        BY <4>1, <4>2
    <3> QED
      BY <1>1, <2>2, <3>1 DEF WatchdogStep, TimerFires, WatchTypes
  <2>3. CASE Finish
    BY <1>1, <1>t, <2>3 DEF WatchdogStep, Finish, WatchTypes
  <2> QED
    BY <1>1, <2>1, <2>2, <2>3 DEF WatchdogStep
<1>2. CASE BodySettles
  BY <1>2 DEF BodySettles, SettleBody, WatchTypes, Outcomes
<1>3. CASE StartMaintenance
  <2>1. DeadlineKept
    BY <1>3, <1>d, <1>p DEF StartMaintenance
  <2> QED
    BY <1>3, <1>k, <2>1 DEF StartMaintenance, WatchTypes
<1>4. CASE EndMaintenance
  <2>1. DeadlineKept
    BY <1>4, <1>d, <1>p DEF EndMaintenance
  <2> QED
    BY <1>0, <1>4, <1>k, <2>1 DEF EndMaintenance, WatchTypes
<1>5. CASE OpenAttempt
  <2>1. activeOwner' \in 0..MaxAttempts
    <3>1. IsFiniteSet(1..MaxAttempts) /\ Born \subseteq 1..MaxAttempts
      BY FS_Interval, AttemptAssumption DEF Born, Attempts
    <3>2. Cardinality(Born) \in Nat
      BY <3>1, FS_Subset, FS_CardinalityType
    <3> QED
      BY <1>5, <3>2, AttemptAssumption DEF OpenAttempt
  <2>2. DeadlineKept
    <3>1. PICK budget \in AttemptTimeouts :
             \/ Publish(LaneTimeoutOf(SeedDeadline(budget)), progressAt)
             \/ UNCHANGED <<ownerDeadline, timer, settleVars>>
      BY <1>5 DEF OpenAttempt
    <3>2. LaneTimeoutOf(SeedDeadline(budget)) \in Deadlines
      <4>1. CASE budget = Unlimited
        BY <4>1 DEF SeedDeadline, LaneTimeoutOf, Deadlines, Unlimited
      <4>2. CASE budget # Unlimited
        <5>1. budget.at \in Nat
          BY <4>2, AttemptAssumption DEF Timeouts
        <5>2. LaneTimeoutOf(SeedDeadline(budget)) = Bounded(now + budget.at + Grace)
          BY <4>2 DEF SeedDeadline, LaneTimeoutOf, Bounded
        <5>3. now + budget.at + Grace \in Nat
          BY <1>0, <5>1, WatchdogAssumption
        <5> QED
          BY <5>2, <5>3 DEF Bounded, Deadlines
      <4> QED
        BY <4>1, <4>2
    <3> QED
      BY <1>k, <1>p, <3>1, <3>2 DEF WatchTypes
  <2> QED
    BY <1>5, <1>k, <2>1, <2>2 DEF OpenAttempt, WatchTypes
<1>6. ASSUME NEW a \in Attempts, AttemptStep(a)
      PROVE  WatchTypes'
  <2>0. att[a] \in Controls /\ Kept(att[a], now)
    BY DEF AttemptsOK, BudgetInv
  <2>k. ASSUME DeadlineKept,
               UNCHANGED <<now, progressAt, listeners, signalVars, closed, body, activeOwner, stale, maintenance>>
        PROVE  WatchTypes'
    BY <1>k, <2>k DEF WatchTypes
  <2>s. ASSUME UNCHANGED <<ownerDeadline, timer, settleVars>> PROVE DeadlineKept
    BY <2>s DEF DeadlineKept, WatchTypes
  <2>1. CASE ArmDeadline(a)
    <3>1. att[a].budget # Unlimited => att[a].budget.at \in Nat
      BY <2>0, AttemptAssumption DEF Controls, Timeouts
    <3> QED
      BY <1>0, <2>1, <2>k, <2>s, <3>1, ScheduleTypes, ChangeTypes DEF ArmDeadline
  <2>2. CASE ApprovalStarts(a)
    BY <1>0, <2>2, <2>k, ChangeTypes DEF ApprovalStarts
  <2>3. CASE ApprovalEnds(a)
    BY <1>0, <2>0, <2>3, <2>k, ScheduleTypes DEF ApprovalEnds, Kept
  <2>4. CASE DeadlineExpires(a)
    BY <1>0, <2>4, <2>k, <2>s, ScheduleTypes, AttemptAssumption DEF DeadlineExpires
  <2>5. CASE IdleTimeout(a) \/ StreamCleanup(a)
    BY <2>5, <2>k, <2>s DEF IdleTimeout, StreamCleanup
  <2>6. CASE ReleaseTimerFires(a)
    <3>1. CASE IsCurrent(a)
      <4>1. timedOut' \in BOOLEAN /\ outcome' \in Outcomes
        BY <2>6, <3>1, RejectTypes DEF ReleaseTimerFires, RaiseRelease, Expiries, WatchTypes
      <4>2. timer' \in Timers
        BY <1>t, <2>6, <3>1 DEF ReleaseTimerFires, RaiseRelease, WatchTypes
      <4> QED
        BY <2>6, <3>1, <4>1, <4>2 DEF ReleaseTimerFires, RaiseRelease, WatchTypes
    <3>2. CASE ~IsCurrent(a)
      BY <2>6, <3>2 DEF ReleaseTimerFires, WatchTypes
    <3> QED
      BY <3>1, <3>2
  <2>7. CASE ExternalAbort(a)
    BY <1>t, <2>7 DEF ExternalAbort, RaiseAbort, WatchTypes
  <2>8. CASE CloseAttempt(a)
    <3>1. DeadlineKept
      BY <1>d, <1>p, <2>8, <2>s DEF CloseAttempt
    <3>2. activeOwner' \in 0..MaxAttempts /\ progressAt' \in 0..now /\ now' = now
      BY <1>0, <2>8, AttemptAssumption DEF CloseAttempt, WatchTypes
    <3> QED
      BY <1>k, <2>8, <3>1, <3>2 DEF CloseAttempt, WatchTypes
  <2> QED
    BY <1>6, <2>1, <2>2, <2>3, <2>4, <2>5, <2>6, <2>7, <2>8 DEF AttemptStep
<1>7. CASE LaneAbort \/ RetireAttempt
  BY <1>t, <1>7 DEF LaneAbort, RetireAttempt, RaiseAbort, WatchTypes
<1>8. CASE Revoke \/ UNCHANGED vars
  BY <1>8 DEF Revoke, WatchTypes, vars
<1>9. CASE Tick
  BY <1>0, <1>9 DEF Tick, WatchTypes
<1> QED
  BY <1>1, <1>2, <1>3, <1>4, <1>5, <1>6, <1>7, <1>8, <1>9 DEF Next

(***************************************************************************)
(* The types of the watchdog and of the attempts' controls: no deadline    *)
(* lies before the start, and a paused attempt has time left.              *)
(***************************************************************************)
THEOREM TypesTheorem == Spec => []TypeOK
<1>1. Init => WatchTypes
  <2>1. Timer("grace", Grace) \in Timers /\ Timer("progress", TaskTimeout) \in Timers
    BY WatchdogAssumption DEF Timer, Timers
  <2> SUFFICES ASSUME Init PROVE WatchTypes
    OBVIOUS
  <2>2. timer \in Timers /\ aborted \in BOOLEAN /\ listeners \subseteq {"abort", "release", "deadline"}
    BY <2>1 DEF Init, WatchdogInit
  <2>3. now = 0 /\ progressAt \in 0..now /\ activeOwner \in 0..MaxAttempts
    BY AttemptAssumption DEF Init, WatchdogInit
  <2> QED
    BY <2>2, <2>3 DEF Init, WatchdogInit, WatchTypes, Deadlines, Outcomes
<1>2. HoldInv /\ HoldInv' /\ BudgetInv /\ WatchTypes /\ [Next]_vars => WatchTypes'
  BY WatchTypesSteps DEF HoldInv
<1>3. HoldInv /\ BudgetInv /\ WatchTypes => TypeOK
  <2> SUFFICES ASSUME HoldInv, BudgetInv, WatchTypes PROVE TypeOK
    OBVIOUS
  <2>1. ASSUME NEW a \in Attempts
        PROVE  /\ att[a].state \in {"unborn", "active", "aborted", "closed"}
               /\ att[a].run \in {"live", "aborted"}
               /\ att[a].exec.kind = "bounded" => att[a].exec.at \in Nat
               /\ att[a].exec.kind = "paused" => att[a].exec.left \in Nat \ {0}
    BY DEF HoldInv, AttemptsOK, Controls, BudgetInv, Kept
  <2> QED
    BY <2>1 DEF TypeOK, WatchTypes, BudgetInv, Timers, Outcomes
<1> QED
  BY <1>1, <1>2, <1>3, BudgetAlways, HoldStarts, HoldSteps, PTL DEF Spec
=============================================================================
