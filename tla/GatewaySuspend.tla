--------------------------- MODULE GatewaySuspend ---------------------------
(***************************************************************************)
(* Cooperative host suspension, src/infra/gateway-suspend-coordinator.ts,  *)
(* over the admission fences of GatewayWorkAdmission: a host prepares a    *)
(* suspension, polls it until the work admitted earlier has ended, renews  *)
(* it and resumes; the lease expires; the cron scheduler that is paused    *)
(* behind the fence may fail to resume; a restart supersedes it all.       *)
(*                                                                         *)
(* The coordinator's functions are synchronous: each exported one, and     *)
(* each timer callback, is one action.  Its helpers are operators on the   *)
(* record s of the state they share (see Now and Commit).                  *)
(***************************************************************************)
EXTENDS GatewayWorkAdmission

CONSTANTS
    Requests,     \* [id, terminate, drain]: the prepare calls hosts make
    NoRequest,
    Terminals,    \* the Work that is open terminal sessions
    MaxSuspends,  \* bound: suspension generations
    MaxTimers     \* bound: timers armed for one coordinator entry

ASSUME RequestAssumption ==
    /\ NoRequest \notin Requests
    /\ \A q \in Requests : q.terminate \in BOOLEAN /\ q.drain \in BOOLEAN
ASSUME SuspendAssumption == MaxSuspends \in Nat /\ MaxTimers \in Nat

VARIABLES
    suspendGeneration,
    current,   \* COORDINATOR_STATE.current
    retired,   \* retiredForLifecycleReset holds an entry
    nextId,    \* entries made so far, plus one
    timers,    \* the armed timers, and the callbacks already queued
    paused     \* cron.schedulingPaused

coordinator == <<suspendGeneration, current, retired, nextId, timers, paused>>
vars == <<restart, suspendPhase, rootWork, chains, scopes, work, coordinator>>

NoEntry == [id |-> 0, kind |-> "none", request |-> NoRequest, ready |-> FALSE,
            expired |-> FALSE, lease |-> 0, timer |-> 0, reopen |-> "release"]
Entries == [id : Nat, kind : {"none", "held", "recovering"},
            request : Requests \cup {NoRequest}, ready : BOOLEAN, expired : BOOLEAN,
            lease : Nat, timer : Nat, reopen : {"rollback", "release"}]
Timers == [id : Nat, timer : Nat, queued : BOOLEAN]

Now == [phase |-> suspendPhase, generation |-> suspendGeneration, current |-> current,
        nextId |-> nextId, timers |-> timers, paused |-> paused, wake |-> FALSE]

\* The turn ends in state s.
Commit(s) ==
    /\ suspendPhase' = s.phase
    /\ suspendGeneration' = s.generation
    /\ current' = s.current
    /\ nextId' = s.nextId
    /\ timers' = s.timers
    /\ paused' = s.paused
    /\ chains' = IF s.wake THEN WakeAll(chains) ELSE chains

-----------------------------------------------------------------------------
(* The admission lease: transition() *)

CanMove(s, lease, from) == s.generation = lease /\ s.phase \in from
Move(s, to) == [s EXCEPT !.phase = to, !.wake = @ \/ to = "accepting"]

\* release() takes the fence down from draining or prepared, rollback() from
\* preparing.
Reopens(entry) == IF entry.reopen = "release" THEN {"draining", "prepared"} ELSE {"preparing"}

-----------------------------------------------------------------------------
(* Entries and their timers *)

\* clearEntryTimer: a callback that is queued already still runs.
Unarm(s) == [s EXCEPT !.current.timer = @ + 1,
                      !.timers = {t \in @ : t.id # s.current.id \/ t.queued}]

\* scheduleEntry
Arm(s) ==
    LET u == Unarm(s) IN
    [u EXCEPT !.timers = @ \cup {[id |-> u.current.id, timer |-> u.current.timer, queued |-> FALSE]}]

Install(s, entry) ==
    [s EXCEPT !.current = [entry EXCEPT !.id = s.nextId], !.nextId = @ + 1]

Recovery(lease, reopen) ==
    [NoEntry EXCEPT !.kind = "recovering", !.lease = lease, !.reopen = reopen]

\* Mutant: a retry that fails does not schedule the next one.
EnterRecoveryOnce(s) ==
    IF s.current.kind = "recovering" THEN s
    ELSE Arm(Install(Unarm(s), Recovery(s.current.lease, s.current.reopen)))

\* enterSchedulerRecovery and armSchedulerRecovery
EnterRecovery(s) ==
    IF s.current.kind = "recovering" THEN Arm(s)
    ELSE Arm(Install(Unarm(s), Recovery(s.current.lease, s.current.reopen)))

\* Mutant: admission reopens although the scheduler did not resume.
ReopenAnyway(s, ok) ==
    [Move(Unarm(s), "accepting") EXCEPT !.current = NoEntry, !.paused = @ /\ ~ok]

\* resumeAndReopen(current); ok: resumeScheduling does not throw.
ResumeAndReopen(s, ok) ==
    IF ok /\ CanMove(s, s.current.lease, Reopens(s.current))
    THEN [Move(Unarm(s), "accepting") EXCEPT !.current = NoEntry, !.paused = FALSE]
    ELSE EnterRecovery([s EXCEPT !.paused = @ /\ ~ok])

\* normalizeExpiredHeldSuspension
Normalize(s, ok) ==
    IF s.current.kind = "held" /\ s.current.expired THEN ResumeAndReopen(s, ok) ELSE s

\* Mutant: terminals never block, whatever the policy.
IsIdleButForTerminals(c, request) ==
    activeRootWork \subseteq {chains[c].root} /\ work \subseteq Terminals

\* createGatewayActiveWorkSnapshot(...).idle, taken in chain c, whose own root
\* does not count.
IsIdle(c, request) ==
    /\ activeRootWork \subseteq {chains[c].root}
    /\ work \subseteq IF request.terminate THEN Terminals ELSE {}

\* refreshHeldSuspension
Refresh(s, c) ==
    IF /\ ~s.current.ready /\ IsIdle(c, s.current.request)
       /\ CanMove(s, s.current.lease, {"preparing", "draining"})
    THEN [Move(s, "prepared") EXCEPT !.current.ready = TRUE]
    ELSE s

-----------------------------------------------------------------------------
(* gateway.suspend.* *)

\* The new lease of a prepare call: admission closed, scheduler paused.
Acquire(s) ==
    [Move(s, "preparing") EXCEPT !.generation = @ + 1, !.paused = TRUE]

\* resumeSchedulingBeforeReopen, when the call cannot hold its lease.
Abandon(s, ok) ==
    IF ok THEN [Move(s, "accepting") EXCEPT !.paused = FALSE]
    ELSE Arm(Install(s, Recovery(s.generation, "rollback")))

Hold(s, request, ready) ==
    Arm(Install(Move(s, IF ready THEN "prepared" ELSE "draining"),
                [NoEntry EXCEPT !.kind = "held", !.request = request,
                                !.ready = ready, !.lease = s.generation]))

Renew(s, c) == Refresh(Arm([s EXCEPT !.current.expired = FALSE]), c)

\* prepareGatewaySuspend.  resumed: what resumeScheduling does for an expired
\* lease; ok: what it does for this call's own; inspected: no inspector throws.
Prepare(c, request, resumed, ok, inspected) ==
    LET s == Normalize(Now, resumed) IN
    /\ chains[c].pc = "control"
    /\ UNCHANGED retired
    /\ CASE s.current.kind = "recovering" -> Commit(s)
         [] s.current.kind = "held" /\ s.current.request # request -> Commit(s)
         [] s.current.kind = "held" /\ s.current.request = request ->
                s.current.timer < MaxTimers /\ Commit(Renew(s, c))
         [] s.current.kind = "none" /\ (RestartFenced \/ s.phase # "accepting") -> Commit(s)
         [] OTHER ->
                /\ s.generation < MaxSuspends
                /\ IF inspected /\ (IsIdle(c, request) \/ request.drain)
                   THEN Commit(Hold(Acquire(s), request, IsIdle(c, request)))
                   ELSE Commit(Abandon(Acquire(s), ok))
    /\ UNCHANGED <<restart, rootWork, scopes, work>>

\* getGatewaySuspendStatus
Status(c, id, resumed) ==
    LET s == Normalize(Now, resumed) IN
    /\ chains[c].pc = "control"
    /\ Commit(IF s.current.kind = "held" /\ s.current.id = id THEN Refresh(s, c) ELSE s)
    /\ UNCHANGED <<restart, rootWork, scopes, work, retired>>

\* resumeGatewaySuspend
Resume(c, id, ok) ==
    LET s == Normalize(Now, ok) IN
    /\ chains[c].pc = "control"
    /\ Commit(IF s.current.kind = "held" /\ s.current.id = id THEN ResumeAndReopen(s, ok) ELSE s)
    /\ UNCHANGED <<restart, rootWork, scopes, work, retired>>

-----------------------------------------------------------------------------
(* Time *)

\* expiresAtMs has passed.
Expire ==
    /\ current.kind = "held" /\ ~current.expired
    /\ current' = [current EXCEPT !.expired = TRUE]
    /\ UNCHANGED <<restart, suspendPhase, rootWork, chains, scopes, work,
                   suspendGeneration, retired, nextId, timers, paused>>

\* The runtime queues the callback of an armed timer.  The timers' clock and
\* the wall clock of expiresAtMs are independent: either may be first.
TimerDue(t) ==
    /\ ~t.queued
    /\ timers' = (timers \ {t}) \cup {[t EXCEPT !.queued = TRUE]}
    /\ UNCHANGED <<restart, suspendPhase, rootWork, chains, scopes, work,
                   suspendGeneration, current, retired, nextId, paused>>

\* Mutant: the callback only looks whether its entry is still the current one.
TimerFiresStale(t, ok) ==
    LET s == [Now EXCEPT !.timers = @ \ {t}] IN
    /\ t.queued /\ (ok \/ current.timer < MaxTimers)
    /\ Commit(IF t.id = current.id THEN ResumeAndReopen(s, ok) ELSE s)
    /\ UNCHANGED <<restart, rootWork, scopes, work, retired>>

\* The timer is still its entry's, and that entry the current one.
IsCurrent(t) ==
    current.kind # "none" /\ t.id = current.id /\ t.timer = current.timer

\* It runs, and is ignored unless its timer is current.  The guard bounds the
\* retries that fail.
TimerFires(t, ok) ==
    LET s == [Now EXCEPT !.timers = @ \ {t}] IN
    /\ t.queued /\ (ok \/ current.timer < MaxTimers)
    /\ Commit(IF IsCurrent(t) THEN ResumeAndReopen(s, ok) ELSE s)
    /\ UNCHANGED <<restart, rootWork, scopes, work, retired>>

-----------------------------------------------------------------------------
(* Restart *)

\* Mutant: the superseded suspension resumes the scheduler.
InvalidateAndResume(s) ==
    IF s.phase = "accepting" THEN s
    ELSE [Move(Unarm(s), "accepting") EXCEPT !.generation = @ + 1, !.current = NoEntry,
                                             !.paused = FALSE]

\* invalidateSuspendAdmission and the callback prepareGatewaySuspend gave it.
Invalidate(s) ==
    IF s.phase = "accepting" THEN s
    ELSE [Move(Unarm(s), "accepting") EXCEPT !.generation = @ + 1, !.current = NoEntry]

\* markGatewayRestartDraining
MarkGatewayRestartDraining ==
    /\ ~restartDraining
    /\ restartDraining' = TRUE
    /\ restartSignalPending' = FALSE
    /\ restartSignalGeneration' = restartSignalGeneration + 1
    /\ retired' = (retired \/ suspendPhase # "accepting")
    /\ Commit([Invalidate(Now) EXCEPT !.wake = TRUE])
    /\ UNCHANGED <<signalLeases, rootWork, scopes, work>>

\* The in-process restart, when the old server is closed: the coordinator and
\* then resetAllLanes' resetGatewayWorkAdmission.  The next server has a
\* scheduler of its own, which is not paused.
LifecycleReset ==
    /\ restartDraining
    /\ restartSignalGeneration < MaxSignals
    /\ restartDraining' = FALSE
    /\ restartSignalPending' = FALSE
    /\ restartSignalGeneration' = restartSignalGeneration + 1
    /\ retired' = FALSE
    /\ Commit([Now EXCEPT !.generation = @ + 1, !.paused = FALSE, !.wake = TRUE])
    /\ roots' = [r \in Roots |-> IF r \in activeRootWork
                    THEN [roots[r] EXCEPT !.references = 0, !.released = TRUE,
                                          !.retiredByReset = TRUE]
                    ELSE roots[r]]
    /\ activeRootWork' = {}
    /\ UNCHANGED <<signalLeases, scopes, work>>

-----------------------------------------------------------------------------
Init ==
    /\ restartDraining = FALSE /\ restartSignalPending = FALSE
    /\ restartSignalGeneration = 0 /\ signalLeases = {}
    /\ suspendPhase = "accepting" /\ suspendGeneration = 0
    /\ roots = [r \in Roots |-> [references |-> 0, released |-> FALSE,
                                 retiredByReset |-> FALSE, origin |-> "gateway"]]
    /\ activeRootWork = {}
    /\ chains = [c \in Chains |-> Idle]
    /\ scopes = [c \in Chains |-> NoScope]
    /\ work = {}
    /\ current = NoEntry /\ retired = FALSE /\ nextId = 1
    /\ timers = {} /\ paused = FALSE

ChainStep(c) ==
    \/ BeginRoot(c) \/ BeginControl(c) \/ BeginPreparedRestart(c)
    \/ BeginRestartStartup(c) \/ BeginWhenOpen(c) \/ RunOutside(c)
    \/ AwaitFence(c) \/ Continue(c) \/ Readmit(c) \/ End(c)
    \/ \E d \in Chains : Detach(c, d) \/ DetachRoot(c, d) \/ RunScope(c, d)
    \/ \E retain \in BOOLEAN : CreateScope(c, retain)
    \/ ReleaseScope(c) \/ DropScope(c)
    \/ \E w \in Work : StartWork(c, w)

ControlStep(c) ==
    \/ \E request \in Requests, resumed, ok, inspected \in BOOLEAN :
          Prepare(c, request, resumed, ok, inspected)
    \/ \E id \in 1 .. (nextId - 1), ok \in BOOLEAN : Status(c, id, ok) \/ Resume(c, id, ok)

Time ==
    \/ Expire
    \/ \E t \in timers : TimerDue(t) \/ \E ok \in BOOLEAN : TimerFires(t, ok)

RestartStep ==
    \/ \E c \in Chains : BeginSignal(c) /\ UNCHANGED coordinator
    \/ \E g \in signalLeases : RollbackSignal(g) /\ UNCHANGED coordinator
    \/ MarkGatewayRestartDraining
    \/ LifecycleReset

Next ==
    \/ \E c \in Chains : ChainStep(c) /\ UNCHANGED coordinator
    \/ \E c \in Chains : ControlStep(c)
    \/ \E w \in Work : EndWork(w) /\ UNCHANGED coordinator
    \/ Time
    \/ RestartStep

Spec == Init /\ [][Next]_vars

\* Clocks advance and due timers run; a resolved promise is looked at; requests
\* end; the restart signal is delivered or rolled back by its emitter.
Fairness ==
    /\ WF_vars(Expire)
    /\ WF_vars(\E t \in timers : TimerDue(t))
    /\ WF_vars(\E t \in timers, ok \in BOOLEAN : TimerFires(t, ok))
    /\ \A c \in Chains :
        /\ WF_vars(Continue(c) /\ UNCHANGED coordinator)
        /\ WF_vars((End(c) \/ ReleaseScope(c) \/ DropScope(c)) /\ UNCHANGED coordinator)
    /\ WF_vars(/\ restartSignalPending
               /\ \/ MarkGatewayRestartDraining
                  \/ RollbackSignal(restartSignalGeneration) /\ UNCHANGED coordinator)

FairSpec == Spec /\ Fairness

-----------------------------------------------------------------------------
(* Properties *)

\* Every variable keeps its type; in particular no release takes a reference
\* count below zero, which a release after a lifecycle reset could.
TypeOK ==
    /\ restartDraining \in BOOLEAN /\ restartSignalPending \in BOOLEAN
    /\ restartSignalGeneration \in Nat /\ signalLeases \subseteq Nat
    /\ suspendPhase \in Phases /\ suspendGeneration \in Nat
    /\ roots \in [Roots -> RootStates] /\ activeRootWork \subseteq Roots
    /\ chains \in [Chains -> ChainStates]
    /\ scopes \in [Chains -> ScopeStates]
    /\ work \subseteq Work
    /\ current \in Entries /\ retired \in BOOLEAN /\ nextId \in Nat
    /\ timers \subseteq Timers /\ paused \in BOOLEAN

References(r) ==
    Cardinality({c \in Chains : chains[c].lease /\ chains[c].root = r})
    + Cardinality({c \in Chains : scopes[c].root = r /\ scopes[c].retained
                                   /\ ~scopes[c].released})

\* A root is active exactly while some lease or retained scope keeps it, and its
\* count is the number of those, whatever the order in which chains, scopes
\* and resets let go of it: the suspension's idleness rests on this count.
RootsCounted ==
    /\ \A r \in activeRootWork :
        ~roots[r].released /\ roots[r].references = References(r) /\ References(r) > 0
    /\ \A c \in Chains :
        /\ Live(chains[c].root) => chains[c].root \in activeRootWork
        /\ Live(scopes[c].root) => scopes[c].root \in activeRootWork

\* A suspension that reports "ready" is quiet until it ends: no root is active
\* but the one that asks, or the restart it admits, and no work is running but
\* the terminals its policy gives up.  Chains admitted before the fence, their
\* detached children and their late completions cannot break it.
PreparedIsQuiet ==
    suspendPhase = "prepared" =>
        /\ \A r \in activeRootWork : roots[r].origin \in {"control", "restart"}
        /\ current.kind = "held" =>
              work \subseteq IF current.request.terminate THEN Terminals ELSE {}

\* A waiter sleeps only while what it waits for is still to come; opening,
\* draining and resetting in between have woken it.
NoLostWakeup ==
    \A c \in Chains : chains[c].pc = "parked" =>
        IF chains[c].want = "root" THEN Closed /\ ~restartDraining ELSE restartSignalPending

\* Admission is closed for a suspension exactly while the coordinator owns the
\* lease that can reopen it, with a timer that will: no path leaves the gateway
\* closed with nobody to reopen it, and a restart drain owns it alone.
FenceHasOwner ==
    /\ suspendPhase = "accepting" <=> current.kind = "none"
    /\ current.kind # "none" =>
        /\ CanMove(Now, current.lease, Reopens(current))
        /\ \E t \in timers : IsCurrent(t)
        /\ current.kind = "held" => (current.ready <=> suspendPhase = "prepared")
    /\ restartDraining => suspendPhase = "accepting" /\ ~restartSignalPending

\* The scheduler is paused behind the fence, and a paused scheduler is behind
\* one: admission never reopens before the scheduler has resumed, however
\* often resuming fails.
SchedulerBehindFence ==
    /\ suspendPhase # "accepting" => paused
    /\ paused => suspendPhase # "accepting" \/ restartDraining

\* A lease that has not expired, neither by the wall clock nor by its own timer,
\* ends only when its holder resumes it or a restart drain supersedes it; a
\* callback of a timer that a renewal or a successor replaced does not end it.
LeaseHonoured ==
    [][(/\ current.kind = "held" /\ current'.id # current.id
        /\ ~current.expired
        /\ [id |-> current.id, timer |-> current.timer, queued |-> TRUE] \notin timers)
       => \/ restartDraining'
          \/ \E c \in Chains, ok \in BOOLEAN : Resume(c, current.id, ok)]_vars

\* Once the process drains, no step resumes the scheduler that is shut down.
NoResumeDuringShutdown == [][paused /\ restartDraining' => paused']_vars

\* The restart fence comes down only by the lease that raised it or by the drain
\* it announced: a lease left over from an earlier lifecycle cannot reopen it.
SignalFenceHeld ==
    [][restartSignalPending /\ ~restartSignalPending' /\ ~restartDraining' =>
         restartSignalGeneration \in signalLeases \ signalLeases']_vars

\* A suspension whose host neither resumes nor renews it ends by itself, through
\* any number of failures to resume the scheduler, provided they stop.
SuspensionEnds == suspendPhase # "accepting" ~> suspendPhase = "accepting"

\* A chain that waits for admission is admitted or told that the gateway drains.
WaitersProceed ==
    \A c \in Chains : chains[c].pc \in {"parked", "woken"} ~> chains[c].pc \notin {"parked", "woken"}
=============================================================================
