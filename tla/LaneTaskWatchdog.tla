-------------------------- MODULE LaneTaskWatchdog --------------------------
(***************************************************************************)
(* The watchdog over one running entry of a command lane:                  *)
(* runQueueEntryTask of src/process/command-queue.ts, as the embedded run  *)
(* lane controller configures it (abort signal, release signal, progress   *)
(* clock, deadline subscription).  The lane slot is free once `closed`.    *)
(*                                                                         *)
(* The module declares the state and the steps the queue takes by itself;  *)
(* AttemptControls composes them with the attempts that publish deadlines  *)
(* and raise the signals.                                                  *)
(*                                                                         *)
(* Time is a counter of ticks; the task starts at 0.  A step is a task of  *)
(* the event loop with the synchronous calls it makes.  The promise        *)
(* reactions that follow a settled race are the steps Finish and           *)
(* RetireAttempt: other reactions may run between them, timers may not.    *)
(***************************************************************************)
EXTENDS Integers

CONSTANTS
    TaskTimeout,   \* taskTimeoutMs: idle budget without an owner deadline
    Grace          \* EMBEDDED_RUN_LANE_TIMEOUT_GRACE_MS

ASSUME WatchdogAssumption == TaskTimeout \in Nat \ {0} /\ Grace \in Nat \ {0}

VARIABLES
    now,           \* Date.now() - startedAtMs
    progressAt,    \* laneTaskProgressAtMs, no earlier than the start
    ownerDeadline, \* the deadline the current holder of the task published
    timer,         \* what timeoutHandle will run, and when
    listeners,     \* handlers still registered: abort, release, deadline
    aborted,       \* taskTimeoutAbortSignal.aborted
    released,      \* taskTimeoutReleaseSignal.aborted
    timedOut,      \* rejectForTimeout has run
    outcome,       \* who settled the race first
    closed,        \* the finally block has run
    body           \* the task's own promise

signalVars == <<aborted, released>>
settleVars == <<timedOut, outcome>>
watchdogVars == <<now, progressAt, ownerDeadline, timer, listeners,
                  aborted, released, timedOut, outcome, closed, body>>

----------------------------------------------------------------------------
NoDeadline == [kind |-> "none"]
Unlimited == [kind |-> "unlimited"]
Bounded(t) == [kind |-> "bounded", at |-> t]

NoTimer == [kind |-> "none"]
Timer(kind, t) == [kind |-> kind, at |-> t]
Due(t) == t.kind \in {"progress", "grace", "release"} /\ t.at <= now

Expiries == {"progress-idle", "owner-deadline", "abort-grace", "release-signal"}

\* No promise reaction is waiting: the event loop may run a timer.
Quiet ==
    \/ outcome = "none"
    \/ closed /\ (outcome \in Expiries => aborted)

(***************************************************************************)
(* rejectForTimeout: a later rejection finds the race settled, the flag    *)
(* is set regardless.                                                      *)
(***************************************************************************)
Reject(cause) ==
    /\ timedOut' = TRUE
    /\ outcome' = IF outcome = "none" THEN cause ELSE outcome

(***************************************************************************)
(* armProgressTimeout under deadline d, with the progress clock at p.      *)
(* Every caller has cleared, or is running, the old timer.                 *)
(***************************************************************************)
Expiry(d, p) == IF d.kind = "bounded" THEN d.at ELSE p + TaskTimeout

ArmProgress(d, p) ==
    \/ /\ d.kind = "unlimited"
       /\ timer' = NoTimer
       /\ UNCHANGED settleVars
    \/ /\ d.kind # "unlimited"
       /\ Expiry(d, p) > now
       /\ timer' = Timer("progress", Expiry(d, p))
       /\ UNCHANGED settleVars
    \/ /\ d.kind # "unlimited"
       /\ Expiry(d, p) <= now
       /\ timer' = NoTimer
       /\ Reject(IF d.kind = "bounded" THEN "owner-deadline" ELSE "progress-idle")

\* The abort signal may already be raised by the onWait callback that runs
\* between dequeue and start; only the grace timer is armed then.
WatchdogInit ==
    /\ now = 0
    /\ progressAt = 0
    /\ ownerDeadline = NoDeadline
    /\ aborted \in BOOLEAN
    /\ released = FALSE
    /\ timer = IF aborted THEN Timer("grace", Grace) ELSE Timer("progress", TaskTimeout)
    /\ listeners = IF aborted THEN {"release"} ELSE {"abort", "release", "deadline"}
    /\ timedOut = FALSE
    /\ outcome = "none"
    /\ closed = FALSE
    /\ body = "running"

\* Mutant: the handler clears the timer before it looks whether it may.
PublishClearing(d, p) ==
    IF "deadline" \notin listeners \/ closed \/ timedOut \/ aborted \/ released
       THEN timer' = NoTimer /\ UNCHANGED <<ownerDeadline, timedOut, outcome>>
       ELSE ownerDeadline' = d /\ ArmProgress(d, p)

\* Mutant: the handler does not look at the abort signal.
PublishAfterAbort(d, p) ==
    IF "deadline" \notin listeners \/ closed \/ timedOut
       THEN UNCHANGED <<ownerDeadline, timer, timedOut, outcome>>
       ELSE ownerDeadline' = d /\ ArmProgress(d, p)

(***************************************************************************)
(* setLaneTaskDeadline and the subscribed handler: cancellation and        *)
(* cleanup win over a new deadline.  The controller's own copy is only     *)
(* read when the task subscribes, before anything is published.            *)
(***************************************************************************)
Publish(d, p) ==
    IF "deadline" \notin listeners \/ closed \/ timedOut \/ aborted \/ released
       THEN UNCHANGED <<ownerDeadline, timer, timedOut, outcome>>
       ELSE /\ ownerDeadline' = d
            /\ ArmProgress(d, p)

\* Mutant: the abort listener is never removed.
RaiseAbortAlways ==
    /\ aborted' = TRUE
    /\ timer' = Timer("grace", now + Grace)
    /\ UNCHANGED listeners

\* The abort signal fires; onAbort replaces whatever timer is armed.
RaiseAbort ==
    /\ aborted' = TRUE
    /\ IF ~aborted /\ "abort" \in listeners
          THEN /\ listeners' = listeners \ {"abort"}
               /\ timer' = Timer("grace", now + Grace)
          ELSE UNCHANGED <<listeners, timer>>

\* The release signal fires, then the abort signal that depends on it.
RaiseRelease ==
    /\ released' = TRUE
    /\ aborted' = TRUE
    /\ listeners' = listeners \ {"abort", "release"}
    /\ IF "release" \in listeners
          THEN Reject("release-signal")
          ELSE UNCHANGED settleVars
    /\ timer' = IF ~aborted /\ "abort" \in listeners
                   THEN Timer("grace", now + Grace)
                   ELSE timer

----------------------------------------------------------------------------
(***************************************************************************)
(* Steps of the queue                                                      *)
(***************************************************************************)

\* noteLaneTaskProgress, from an execution phase or a progress event
Progress ==
    /\ body = "running"
    /\ progressAt # now
    /\ progressAt' = now
    /\ UNCHANGED <<now, ownerDeadline, timer, listeners, signalVars, settleVars, closed, body>>

\* Mutant: the timer rejects without reading the progress again.
TimerFiresUnread ==
    /\ Quiet
    /\ Due(timer)
    /\ Reject(IF timer.kind = "grace" THEN "abort-grace"
              ELSE IF ownerDeadline.kind = "bounded" THEN "owner-deadline" ELSE "progress-idle")
    /\ timer' = NoTimer
    /\ UNCHANGED <<now, progressAt, ownerDeadline, listeners, signalVars, closed, body>>

\* A progress timer looks at the progress and the deadline again.
TimerFires ==
    /\ Quiet
    /\ Due(timer)
    /\ IF timer.kind = "progress"
          THEN ArmProgress(ownerDeadline, progressAt)
          ELSE Reject("abort-grace") /\ timer' = NoTimer
    /\ UNCHANGED <<now, progressAt, ownerDeadline, listeners, signalVars, closed, body>>

\* The finally block: the caller sees the result and the slot is freed.
Finish ==
    /\ outcome # "none"
    /\ ~closed
    /\ closed' = TRUE
    /\ timer' = NoTimer
    /\ listeners' = {}
    /\ UNCHANGED <<now, progressAt, ownerDeadline, signalVars, settleVars, body>>

\* The task's promise settles; it may never do so.
SettleBody ==
    /\ body = "running"
    /\ body' = "settled"
    /\ outcome' = IF outcome = "none" THEN "body" ELSE outcome
    /\ UNCHANGED <<now, progressAt, ownerDeadline, timer, listeners, signalVars,
                   timedOut, closed>>
=============================================================================
