-------------------------- MODULE AttemptControls --------------------------
(***************************************************************************)
(* The attempts of one embedded agent run, and the deadlines and signals   *)
(* they send to the watchdog of the lane task they run inside:             *)
(*   - createAttemptControls and the maintenance deadline                  *)
(*     (agents/embedded-agent-runner/run/lane-controller.ts,               *)
(*     run-orchestrator.ts);                                               *)
(*   - the attempt's own execution deadline, with approval pauses and one  *)
(*     compaction grace (attempt-timeout-prepare.ts);                      *)
(*   - the abort of the attempt's run (attempt-finalize.ts).               *)
(* Attempts are sequential, but their callbacks are retained: any of them  *)
(* may be called after its attempt is closed.                              *)
(***************************************************************************)
EXTENDS LaneTaskWatchdog, FiniteSets

CONSTANTS
    MaxAttempts,     \* bound: attempts and finalizers of the run
    AttemptTimeouts, \* attempt.timeoutMs: Bounded(n), or Unlimited
    CompactionGrace, \* compactionTimeoutMs
    MaxPauses,       \* bound: approval pauses of one attempt
    MaxTime,         \* bound: the last tick
    Lag              \* bound: how late the event loop runs a timer

\* A limited attempt.timeoutMs
Timeouts == [kind : {"bounded"}, at : Nat \ {0}]

ASSUME AttemptAssumption ==
    /\ MaxAttempts \in Nat /\ MaxPauses \in Nat /\ MaxTime \in Nat
    /\ CompactionGrace \in Nat \ {0} /\ Lag \in Nat \ {0}
    /\ \A b \in AttemptTimeouts : b = Unlimited \/ b \in Timeouts

VARIABLES
    att,         \* the controls and the execution deadline of each attempt
    activeOwner, \* activeAttemptOwner, 0 for undefined
    stale,       \* the admission is revoked or the lifecycle rotated
    maintenance  \* the runtime acquisition before the first attempt

attemptVars == <<att, activeOwner, stale, maintenance>>
vars == <<watchdogVars, attemptVars>>

Attempts == 1..MaxAttempts

----------------------------------------------------------------------------
NotArmed == [kind |-> "none"]
ExecClosed == [kind |-> "closed"]
\* pauses and ran are history: approvals waited for, ticks of execution used
Running(t, grace) == [kind |-> "bounded", at |-> t, graceUsed |-> grace]
Paused(left, grace) == [kind |-> "paused", left |-> left, graceUsed |-> grace]

Unborn == [state |-> "unborn", owned |-> FALSE, release |-> NoTimer, run |-> "live",
           exec |-> NotArmed, budget |-> Unlimited, pauses |-> 0, ran |-> 0]

Born == {a \in Attempts : att[a].state # "unborn"}
Open == {a \in Born : att[a].state # "closed"}

\* Mutant: any retained controls of a live run count as current.
IsCurrentUnowned(a) == ~aborted /\ ~stale

IsCurrent(a) ==
    /\ att[a].state = "active"
    /\ activeOwner = a
    /\ ~aborted
    /\ ~stale

\* clearTimers: the execution deadline of an armed attempt is closed
Cleared(r) == [r EXCEPT !.exec = IF @ = NotArmed THEN @ ELSE ExecClosed]

\* abortRun: accepted once, the run's signal then clears the deadline
Stopped(r) == Cleared([r EXCEPT !.run = "aborted"])

\* The abort signal of every attempt follows the lane's: what is left of
\* their runs is aborted inside the same dispatch.
StoppedAll(f) == [a \in Attempts |-> IF a \in Open THEN Stopped(f[a]) ELSE f[a]]

\* Mutant: the lane is given the attempt's own deadline, without the grace.
LaneTimeoutUnpadded(t) == t

LaneTimeoutOf(t) == IF t.kind = "bounded" THEN Bounded(t.at + Grace) ELSE t

(***************************************************************************)
(* onAttemptDeadlineChanged by attempt a, whose record becomes r.          *)
(***************************************************************************)
DeadlineChanged(a, r, d) ==
    IF IsCurrent(a)
       THEN /\ att' = [att EXCEPT ![a] = [r EXCEPT !.owned = TRUE]]
            /\ Publish(LaneTimeoutOf(d), progressAt)
       ELSE /\ att' = [att EXCEPT ![a] = r]
            /\ UNCHANGED <<ownerDeadline, timer, settleVars>>

\* scheduleAbortTimer
AtLeastOne(n) == IF n < 1 THEN 1 ELSE n

Schedule(a, delay, grace) ==
    LET t == now + AtLeastOne(delay)
    IN  DeadlineChanged(a, [att[a] EXCEPT !.exec = Running(t, grace)], Bounded(t))

\* Mutant: the timed-out run is aborted, its unwind is not bounded.
TimeoutUnwindUnbounded(a) == att' = [att EXCEPT ![a] = Stopped(@)]

\* onAttemptTimeout inside abortRun(true): one bounded unwind per attempt
TimeoutUnwind(a) ==
    LET r == Stopped(att[a])
        arm == IsCurrent(a) /\ r.release = NoTimer
    IN  att' = [att EXCEPT ![a] =
                  IF arm THEN [r EXCEPT !.release = Timer("release", now + Grace)] ELSE r]

----------------------------------------------------------------------------
(***************************************************************************)
(* The body of the lane task                                               *)
(***************************************************************************)

Init ==
    /\ WatchdogInit
    /\ att = [a \in Attempts |-> Unborn]
    /\ activeOwner = 0
    /\ stale = FALSE
    /\ maintenance = "todo"

\* Runtime acquisition suspends the idle watchdog, then restores it.
StartMaintenance ==
    /\ body = "running"
    /\ maintenance = "todo"
    /\ maintenance' = "busy"
    /\ Publish(Unlimited, progressAt)
    /\ UNCHANGED <<now, progressAt, listeners, signalVars, closed, body,
                   att, activeOwner, stale>>

EndMaintenance ==
    /\ maintenance = "busy"
    /\ maintenance' = "done"
    /\ progressAt' = now
    /\ Publish(NoDeadline, now)
    /\ UNCHANGED <<now, listeners, signalVars, closed, body, att, activeOwner, stale>>

(***************************************************************************)
(* createAttemptControls.  A finalizer seeds the lane with its budget; an  *)
(* ordinary attempt publishes nothing before its own deadline is armed.    *)
(***************************************************************************)
SeedDeadline(budget) ==
    IF budget = Unlimited THEN Unlimited ELSE Bounded(now + budget.at)

OpenAttempt ==
    /\ body = "running"
    /\ maintenance = "done"
    /\ Open = {}
    /\ Cardinality(Born) < MaxAttempts
    /\ \E budget \in AttemptTimeouts, seed \in BOOLEAN :
         LET a == Cardinality(Born) + 1
             publishes == seed /\ ~aborted /\ ~stale
         IN  /\ activeOwner' = a
             /\ att' = [att EXCEPT ![a] =
                          [Unborn EXCEPT !.state = "active", !.budget = budget,
                                         !.owned = publishes,
                                         !.run = IF aborted THEN "aborted" ELSE "live"]]
             /\ IF publishes
                   THEN Publish(LaneTimeoutOf(SeedDeadline(budget)), progressAt)
                   ELSE UNCHANGED <<ownerDeadline, timer, settleVars>>
    /\ UNCHANGED <<now, progressAt, listeners, signalVars, closed, body, stale, maintenance>>

\* prepareEmbeddedAttemptTimeout
ArmDeadline(a) ==
    /\ a \in Open
    /\ att[a].exec = NotArmed
    /\ \/ /\ att[a].run = "aborted"
          /\ att' = [att EXCEPT ![a].exec = ExecClosed]
          /\ UNCHANGED <<ownerDeadline, timer, settleVars>>
       \/ /\ att[a].run = "live"
          /\ att[a].budget = Unlimited
          /\ DeadlineChanged(a, [att[a] EXCEPT !.exec = Unlimited], Unlimited)
       \/ /\ att[a].run = "live"
          /\ att[a].budget # Unlimited
          /\ Schedule(a, att[a].budget.at, FALSE)
    /\ UNCHANGED <<now, progressAt, listeners, signalVars, closed, body,
                   activeOwner, stale, maintenance>>

\* approvalWait.onChange: human review keeps the unused budget.
ApprovalStarts(a) ==
    /\ att[a].exec.kind = "bounded"
    /\ att[a].pauses < MaxPauses
    /\ LET left == AtLeastOne(att[a].exec.at - now)
       IN  DeadlineChanged(a, [att[a] EXCEPT !.exec = Paused(left, @.graceUsed),
                                             !.pauses = @ + 1], Unlimited)
    /\ UNCHANGED <<now, progressAt, listeners, signalVars, closed, body,
                   activeOwner, stale, maintenance>>

\* Mutant: the full budget is granted again after the pause.
ApprovalEndsAnew(a) ==
    /\ att[a].exec.kind = "paused"
    /\ Schedule(a, att[a].budget.at, att[a].exec.graceUsed)
    /\ UNCHANGED <<now, progressAt, listeners, signalVars, closed, body,
                   activeOwner, stale, maintenance>>

ApprovalEnds(a) ==
    /\ att[a].exec.kind = "paused"
    /\ Schedule(a, att[a].exec.left, att[a].exec.graceUsed)
    /\ UNCHANGED <<now, progressAt, listeners, signalVars, closed, body,
                   activeOwner, stale, maintenance>>

(***************************************************************************)
(* The execution timer: one extension while a compaction is running, else  *)
(* the run is aborted as timed out.                                        *)
(***************************************************************************)
DeadlineExpires(a) ==
    /\ Quiet
    /\ att[a].exec.kind = "bounded"
    /\ att[a].exec.at <= now
    /\ \/ /\ ~att[a].exec.graceUsed
          /\ Schedule(a, CompactionGrace, TRUE)
       \/ /\ TimeoutUnwind(a)
          /\ UNCHANGED <<ownerDeadline, timer, settleVars>>
    /\ UNCHANGED <<now, progressAt, listeners, signalVars, closed, body,
                   activeOwner, stale, maintenance>>

\* abortRun(true) from elsewhere: the provider or the prompt was idle.
IdleTimeout(a) ==
    /\ a \in Born
    /\ att[a].run = "live"
    /\ TimeoutUnwind(a)
    /\ UNCHANGED <<watchdogVars, activeOwner, stale, maintenance>>

\* The unwind took too long; timeoutReleaseTimer is never armed again.
ReleaseTimerFires(a) ==
    /\ Quiet
    /\ Due(att[a].release)
    /\ LET f == [att EXCEPT ![a].release = [kind |-> "spent"]]
       IN  IF IsCurrent(a)
              THEN RaiseRelease /\ att' = StoppedAll(f)
              ELSE /\ att' = f
                   /\ UNCHANGED <<listeners, signalVars, settleVars, timer>>
    /\ UNCHANGED <<now, progressAt, ownerDeadline, closed, body, activeOwner, stale, maintenance>>

\* abortActiveRunExternally: onAttemptAbort, then abortRun(false)
ExternalAbort(a) ==
    /\ a \in Born
    /\ IF IsCurrent(a)
          THEN /\ RaiseAbort
               /\ att' = StoppedAll([att EXCEPT ![a].state = "aborted"])
          ELSE /\ att' = [att EXCEPT ![a] = Stopped(@)]
               /\ UNCHANGED <<listeners, aborted, timer>>
    /\ UNCHANGED <<now, progressAt, ownerDeadline, released, settleVars, closed, body,
                   activeOwner, stale, maintenance>>

\* cleanupEmbeddedAttemptStreamExecution: the deadline stops before close.
StreamCleanup(a) ==
    /\ a \in Open
    /\ att[a].exec \notin {NotArmed, ExecClosed}
    /\ att' = [att EXCEPT ![a] = Cleared(@)]
    /\ UNCHANGED <<watchdogVars, activeOwner, stale, maintenance>>

\* controls.close: the owner gives the lane back to the idle watchdog.
CloseAttempt(a) ==
    /\ a \in Open
    /\ att[a].exec \in {NotArmed, ExecClosed}
    /\ att' = [att EXCEPT ![a].state = "closed", ![a].release = NoTimer]
    /\ IF activeOwner = a
          THEN /\ activeOwner' = 0
               /\ progressAt' = now
               /\ IF att[a].owned
                     THEN Publish(NoDeadline, now)
                     ELSE UNCHANGED <<ownerDeadline, timer, settleVars>>
          ELSE UNCHANGED <<activeOwner, progressAt, ownerDeadline, timer, settleVars>>
    /\ UNCHANGED <<now, listeners, signalVars, closed, body, stale, maintenance>>

(***************************************************************************)
(* Signals from outside, and the clock                                     *)
(***************************************************************************)

\* The run's own abort signal, or the post-compaction guard of the run loop
LaneAbort ==
    /\ ~aborted
    /\ RaiseAbort
    /\ att' = StoppedAll(att)
    /\ UNCHANGED <<now, progressAt, ownerDeadline, released, settleVars, closed, body,
                   activeOwner, stale, maintenance>>

\* enqueueGlobal's catch: a freed slot retires the attempt that held it.
RetireAttempt ==
    /\ closed
    /\ outcome \in Expiries
    /\ ~aborted
    /\ RaiseAbort
    /\ att' = StoppedAll(att)
    /\ UNCHANGED <<now, progressAt, ownerDeadline, released, settleVars, closed, body,
                   activeOwner, stale, maintenance>>

\* The admission is closed or replaced, or the agent lifecycle is rotated.
Revoke ==
    /\ ~stale
    /\ stale' = TRUE
    /\ UNCHANGED <<watchdogVars, att, activeOwner, maintenance>>

BodySettles ==
    /\ maintenance # "busy"
    /\ Open = {}
    /\ SettleBody
    /\ UNCHANGED attemptVars

\* Late timers: one may be up to Lag ticks overdue before it runs.
InTime(t) == now < t + Lag

Tick ==
    /\ Quiet
    /\ now < MaxTime
    /\ timer # NoTimer => InTime(timer.at)
    /\ \A a \in Attempts :
         /\ att[a].release.kind = "release" => InTime(att[a].release.at)
         /\ att[a].exec.kind = "bounded" => InTime(att[a].exec.at)
    /\ now' = now + 1
    /\ att' = [a \in Attempts |->
                 IF att[a].exec.kind = "bounded" THEN [att[a] EXCEPT !.ran = @ + 1] ELSE att[a]]
    /\ UNCHANGED <<progressAt, ownerDeadline, timer, listeners, signalVars, settleVars,
                   closed, body, activeOwner, stale, maintenance>>

WatchdogStep == (Progress \/ TimerFires \/ Finish) /\ UNCHANGED attemptVars

AttemptStep(a) ==
    \/ ArmDeadline(a)
    \/ ApprovalStarts(a)
    \/ ApprovalEnds(a)
    \/ DeadlineExpires(a)
    \/ IdleTimeout(a)
    \/ ReleaseTimerFires(a)
    \/ ExternalAbort(a)
    \/ StreamCleanup(a)
    \/ CloseAttempt(a)

Next ==
    \/ WatchdogStep
    \/ BodySettles
    \/ StartMaintenance
    \/ EndMaintenance
    \/ OpenAttempt
    \/ \E a \in Attempts : AttemptStep(a)
    \/ LaneAbort
    \/ RetireAttempt
    \/ Revoke
    \/ Tick

Spec == Init /\ [][Next]_vars

----------------------------------------------------------------------------
(***************************************************************************)
(* Properties                                                              *)
(***************************************************************************)
Deadlines == {NoDeadline, Unlimited} \cup [kind : {"bounded"}, at : Nat]

\* Types of the watchdog and of the attempts' controls.
TypeOK ==
    /\ now \in Nat /\ progressAt \in 0..now
    /\ ownerDeadline \in Deadlines
    /\ timer \in {NoTimer} \cup [kind : {"progress", "grace"}, at : Nat]
    /\ listeners \subseteq {"abort", "release", "deadline"}
    /\ aborted \in BOOLEAN /\ released \in BOOLEAN /\ timedOut \in BOOLEAN
    /\ outcome \in Expiries \cup {"none", "body"}
    /\ closed \in BOOLEAN /\ body \in {"running", "settled"}
    /\ activeOwner \in 0..MaxAttempts /\ stale \in BOOLEAN
    /\ maintenance \in {"todo", "busy", "done"}
    /\ \A a \in Attempts :
         /\ att[a].state \in {"unborn", "active", "aborted", "closed"}
         /\ att[a].run \in {"live", "aborted"}
         /\ att[a].exec.kind = "bounded" => att[a].exec.at \in Nat
         /\ att[a].exec.kind = "paused" => att[a].exec.left \in Nat \ {0}

(***************************************************************************)
(* The lane watchdog never overtakes the attempt it watches: while the     *)
(* current attempt has an execution deadline the only timer is one grace   *)
(* behind it, and while it waits for a human or has no limit there is no   *)
(* timer (attempt-timeout-prepare.ts, setLaneTaskDeadline).                *)
(***************************************************************************)
WatchdogBehindAttempt ==
    \A a \in Attempts : outcome = "none" /\ IsCurrent(a) =>
        /\ att[a].exec.kind = "bounded" =>
             timer = Timer("progress", att[a].exec.at + Grace)
        /\ att[a].exec.kind \in {"paused", "unlimited"} => timer = NoTimer

(***************************************************************************)
(* A slot held without a watchdog timer is accounted for: the runtime is   *)
(* being acquired, or an open attempt owns the lane's deadline, will give  *)
(* it back when it closes, and is either running or being released.  An    *)
(* attempt whose authority was revoked has only its own close left.        *)
(***************************************************************************)
HoldIsAccounted ==
    outcome = "none" /\ timer = NoTimer =>
        \/ maintenance = "busy"
        \/ \E a \in Open :
             /\ activeOwner = a
             /\ att[a].owned
             /\ att[a].run = "live" \/ att[a].release.kind = "release" \/ stale

(***************************************************************************)
(* After an abort the slot is freed within one grace, whatever the body    *)
(* does: nothing replaces or postpones the grace timer (onAbort and the    *)
(* guards of the deadline subscription).                                   *)
(***************************************************************************)
AbortIsBounded ==
    aborted /\ outcome = "none" => timer.kind = "grace" /\ timer.at <= now + Grace

GraceIsFinal ==
    [][timer.kind = "grace" /\ timer' # timer => outcome' # "none"]_vars

(***************************************************************************)
(* An idle expiry is idle: when the task is given up for lack of progress, *)
(* TaskTimeout has passed since the last progress the task reported        *)
(* (armProgressTimeout reads the progress again before it rejects).        *)
(***************************************************************************)
IdleMeansIdle ==
    [][outcome # "progress-idle" /\ outcome' = "progress-idle" =>
         now - progressAt' >= TaskTimeout]_vars

(***************************************************************************)
(* The signals are raised by the lane, or by the attempt that has it: a    *)
(* retained callback of a closed attempt, or its release timer, never      *)
(* stops its successor (isCurrent and close in lane-controller.ts).        *)
(***************************************************************************)
StopsOnlyItsOwn ==
    [][~aborted /\ aborted' =>
         \/ LaneAbort
         \/ RetireAttempt
         \/ \E a \in Attempts :
              /\ activeOwner = a
              /\ ~stale
              /\ \/ released' /\ att[a].run = "aborted"
                 \/ ~released' /\ att'[a].state = "aborted"]_vars

(***************************************************************************)
(* Human review neither costs nor grants execution time, and a compaction  *)
(* extends it once: the ticks an attempt has run and has left add up to    *)
(* its budget, but for the rounding of each pause and late timers          *)
(* (scheduleAbortTimer, approvalWait.onChange).                            *)
(***************************************************************************)
BudgetKept ==
    \A a \in Attempts : att[a].exec.kind \in {"bounded", "paused"} =>
        LET left == IF att[a].exec.kind = "bounded" THEN att[a].exec.at - now
                                                    ELSE att[a].exec.left
            granted == att[a].budget.at
                       + IF att[a].exec.graceUsed THEN CompactionGrace ELSE 0
            slack == att[a].pauses * (1 + Lag)
                     + IF att[a].exec.graceUsed THEN Lag ELSE 0
        IN  granted <= att[a].ran + left /\ att[a].ran + left <= granted + slack

(***************************************************************************)
(* A freed slot leaves nothing behind: no timer and no listener survives   *)
(* the finally block, although the body and its callbacks may go on.       *)
(***************************************************************************)
ClosedIsClean == closed => timer = NoTimer /\ listeners = {}
=============================================================================
