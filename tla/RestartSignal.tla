---------------------------- MODULE RestartSignal ----------------------------
(***************************************************************************)
(* Emission of the gateway's restart signal.  Requests share one slot,     *)
(* which a timer turns into a pursuit: it polls until the gateway is idle  *)
(* (or its patience ends), takes a root admission of its own, raises the   *)
(* restart fence, prepares the continuations that were accepted (each      *)
(* writes a sentinel for the next process) and emits SIGUSR1.  The run     *)
(* loop's handler drains the process, or refuses the signal and reopens    *)
(* the fence.  Config reloads run pursuits of their own, which the next    *)
(* reload cancels, and a targeted RPC emits at once.                       *)
(*                                                                         *)
(* Code between two awaits is one action; a promise that resolves is       *)
(* looked at before the next timer or message.  Reasons, intents and audit *)
(* texts are left out.                                                     *)
(***************************************************************************)
EXTENDS Naturals, FiniteSets

CONSTANTS
    Pursuits,   \* calls of emitPreparedGatewayRestart at one time
    Hooks,      \* continuations (emitHooks) of /restart
    Keys,       \* session keys
    MaxFaults   \* bound: emissions that fail, signals from outside, handlers
                \* that fail or come late

ASSUME RestartAssumption == IsFiniteSet(Pursuits) /\ MaxFaults \in Nat

VARIABLES
    fence,      \* restartSignalPending: the lease that raised it, or 0
    draining,   \* restartDraining
    suspended,  \* the suspension phase is not accepting
    lease,      \* pendingRestartSignalAdmission, or 0
    signal,     \* hasUnconsumedRestartSignal
    auth,       \* sigusr1AuthorizedCount
    handlers,   \* SIGUSR1 handlers that wait for the lifecycle module
    slot,       \* the pendingRestart... variables
    run,        \* the pursuits
    written,    \* pursuits whose prepared sentinel waits for their restart
    spent       \* faults so far

vars == <<fence, draining, suspended, lease, signal, auth, handlers, slot, run,
          written, spent>>

NoHook == "none"
NoKey == "none"

EmptySlot == [at |-> "none", hooks |-> NoHook, key |-> NoKey, skip |-> FALSE]

NoPursuit == [kind |-> "none", poll |-> FALSE, cancelled |-> FALSE,
              at |-> "idle", checked |-> FALSE, lease |-> 0, owns |-> FALSE,
              live |-> FALSE, stale |-> FALSE, next |-> NoHook, held |-> NoHook]

Init ==
    /\ fence = 0 /\ lease = 0
    /\ draining = FALSE /\ suspended = FALSE
    /\ signal = FALSE /\ auth = 0 /\ handlers = 0
    /\ slot = EmptySlot
    /\ run = [p \in Pursuits |-> NoPursuit]
    /\ written = {}
    /\ spent = 0

\* One turn of the event loop maps the state Now to the state it commits.
Now == [fence |-> fence, draining |-> draining, suspended |-> suspended,
        lease |-> lease, signal |-> signal, auth |-> auth, handlers |-> handlers,
        slot |-> slot, run |-> run, written |-> written, spent |-> spent]

Commit(s) ==
    /\ fence' = s.fence /\ draining' = s.draining /\ suspended' = s.suspended
    /\ lease' = s.lease /\ signal' = s.signal /\ auth' = s.auth
    /\ handlers' = s.handlers /\ slot' = s.slot /\ run' = s.run
    /\ written' = s.written /\ spent' = s.spent

Turn(S) == \E s \in S : Commit(s)

Faulty(s) == [s EXCEPT !.spent = @ + 1]
MayFail == spent < MaxFaults

----------------------------------------------------------------------------
(* The fence and its lease *)

Open(s) == s.fence = 0 /\ ~s.draining /\ ~s.suspended

\* beginGatewayRestartSignalAdmission: leases have generations of their own
Fresh(s) ==
    CHOOSE n \in 1..(Cardinality(Pursuits) + 3) :
        n \notin {s.fence, s.lease} \cup {s.run[p].lease : p \in Pursuits}

CanBegin(s) == ~s.draining /\ s.fence = 0
Begin(s) == LET n == Fresh(s) IN [s EXCEPT !.fence = n, !.lease = n]

\* rollbackGatewayRestartSignalFence, before a lease is taken
Reopen(s) == [s EXCEPT !.fence = 0]

\* clearPendingRestartSignalAdmission
ClearLease(s) == [s EXCEPT !.fence = 0, !.lease = 0]

\* Mutant: the token is consumed and the fence left to others
MarkHandledOnly(s) == [s EXCEPT !.signal = FALSE]

\* markGatewaySigusr1RestartHandled
MarkHandled(s) == [ClearLease(s) EXCEPT !.signal = FALSE]

----------------------------------------------------------------------------
(* Emission *)

\* clearActiveDeferralPolls: an attempt in flight goes on
ClearPolls(s) ==
    [s EXCEPT !.run = [p \in Pursuits |->
        IF @[p].at = "idle" THEN NoPursuit
        ELSE [@[p] EXCEPT !.poll = FALSE]]]

\* emitGatewayRestart; on failure the token and the authorization are taken back
EmitSignal(s) ==
    LET c == [ClearPolls(s) EXCEPT !.slot = EmptySlot] IN
    IF s.signal THEN {c}
    ELSE {[c EXCEPT !.signal = TRUE, !.auth = @ + 1, !.handlers = @ + 1]}
         \cup (IF MayFail THEN {Faulty(c)} ELSE {})

EmitFenced(s) == {IF e.signal THEN e ELSE ClearLease(e) : e \in EmitSignal(s)}

\* requestGatewayRestartWithSignalAdmission: a live lease is shared
RequestEmission(s) ==
    IF s.lease # 0 THEN EmitFenced(s)
    ELSE LET o == IF s.signal THEN s ELSE Reopen(s)
         IN IF CanBegin(o) THEN EmitFenced(Begin(o)) ELSE {o}

----------------------------------------------------------------------------
(* emitPreparedGatewayRestart *)

\* isCurrent
Current(s, p) == s.run[p].live /\ ~s.run[p].stale

\* Mutant: a cancelled attempt reopens the fence whoever uses it
RollbackOverSignal(s, p) ==
    LET r == s.run[p] IN
    IF ~r.owns THEN [s EXCEPT !.run[p].live = FALSE]
    ELSE [s EXCEPT !.run[p].live = FALSE,
                   !.fence = IF @ = r.lease THEN 0 ELSE @,
                   !.lease = IF @ = r.lease THEN 0 ELSE @]

\* rollbackFence: not over a signal in flight, and only by the lease's creator
RollbackFence(s, p) ==
    LET r == s.run[p] IN
    IF s.signal THEN s
    ELSE IF ~r.owns THEN [s EXCEPT !.run[p].live = FALSE]
    ELSE [s EXCEPT !.run[p].live = FALSE,
                   !.fence = IF @ = r.lease THEN 0 ELSE @,
                   !.lease = IF @ = r.lease THEN 0 ELSE @]

\* The attempt is over; a deferral polls on when nothing was attempted
Finish(s, p, attempted) ==
    LET r == s.run[p]
        poll == r.poll /\ (r.cancelled \/ ~attempted)
    IN [s EXCEPT !.run[p] = IF poll
            THEN [NoPursuit EXCEPT !.kind = r.kind, !.poll = TRUE]
            ELSE NoPursuit]

\* Mutant: the prepared continuation is not told
BailQuietly(s, p) == Finish(RollbackFence(s, p), p, FALSE)

\* The attempt is no longer current: what it prepared is rejected
Bail(s, p) ==
    Finish(RollbackFence([s EXCEPT !.written = @ \ {p}], p), p, FALSE)

\* emitRestart of a reload declines when it was superseded or its preflight failed
ReloadEmission(s, p) ==
    IF s.run[p].cancelled THEN {s}
    ELSE RequestEmission(s) \cup (IF MayFail THEN {Faulty(s)} ELSE {})

\* No awaits remain.  What was prepared belongs to the signal, or is rejected.
Emission(s, p) ==
    LET c == [s EXCEPT !.slot.key = NoKey, !.written = @ \ {p}]
    IN {Finish(RollbackFence(e, p), p, TRUE) :
            e \in IF s.run[p].kind = "reload" THEN ReloadEmission(c, p)
                                             ELSE RequestEmission(c)}

\* The drain of parked hooks reads the slot
TakeParked(s, p) ==
    LET h == s.slot.hooks
        t == [s EXCEPT !.slot.hooks = NoHook, !.run[p].next = h,
                       !.run[p].at = IF s.run[p].held = NoHook THEN "parked"
                                                               ELSE "replacing"]
    IN IF h = NoHook THEN Emission(s, p) ELSE {t}

\* ...UnderAdmission: the preflight of a reload comes first
Body(s, p) ==
    IF s.run[p].kind = "reload" THEN {[s EXCEPT !.run[p].at = "caller"]}
    ELSE TakeParked(s, p)

\* Take or share the lease, look once more whether the gateway is idle
Leased(s, p) ==
    LET b == IF s.lease = 0 THEN Begin(s) ELSE s
    IN [b EXCEPT !.run[p].lease = b.lease, !.run[p].owns = (s.lease = 0),
                 !.run[p].live = TRUE]

Enter(s, p) ==
    IF s.signal THEN {Finish(s, p, FALSE)}
    ELSE UNION {Body([e EXCEPT !.run[p].checked = FALSE], p) \cup (IF e.run[p].checked
                                 THEN {Finish(RollbackFence(e, p), p, FALSE)} ELSE {}) :
                e \in {Leased(s, p)}}

\* The independent root admission; a drain refuses it, which counts as attempted
Admission(s, p) ==
    IF s.draining THEN {Finish(s, p, TRUE)}
    ELSE IF Open(s) THEN Enter(s, p)
    ELSE {[s EXCEPT !.run[p].at = "waiting"]}

Attempt(s, p, checked) ==
    UNION {Admission(t, p) : t \in {[s EXCEPT !.run[p].checked = checked]}}

----------------------------------------------------------------------------
(* Continuations of an attempt *)

Inside(p) == run[p].at \in {"caller", "parked", "replacing"}
Free == {p \in Pursuits : run[p] = NoPursuit}
Unused == CHOOSE p \in Pursuits : run[p] = NoPursuit

\* A waiter is resolved
Wake(p) ==
    /\ run[p].at = "waiting" /\ (draining \/ Open(Now))
    /\ Turn(Admission(Now, p))

\* The preflight of a reload returns
CallerReturns(p) ==
    /\ run[p].at = "caller"
    /\ Turn(IF Current(Now, p) THEN TakeParked(Now, p) ELSE {Bail(Now, p)})

\* beforeEmit of a continuation returned or threw
Prepared(p, thrown) ==
    LET h == run[p].next IN
    [Now EXCEPT !.run[p].next = NoHook,
                !.run[p].held = IF thrown THEN NoHook ELSE h,
                !.written = IF thrown THEN @ ELSE @ \cup {p}]

\* Mutant: hooks accepted during the await are not looked for
ParkedReturnsOnce(p) ==
    /\ run[p].at = "parked"
    /\ \E s \in {Prepared(p, thrown) : thrown \in BOOLEAN} :
          Turn(IF Current(s, p) THEN Emission(s, p) ELSE {Bail(s, p)})

ParkedReturns(p) ==
    /\ run[p].at = "parked"
    /\ \E s \in {Prepared(p, thrown) : thrown \in BOOLEAN} :
          Turn(IF Current(s, p) THEN TakeParked(s, p) ELSE {Bail(s, p)})

\* A later continuation replaces the prepared one, which is rejected first
ReplacedIsTold(p) ==
    /\ run[p].at = "replacing"
    /\ LET s == [Now EXCEPT !.written = @ \ {p}, !.run[p].held = NoHook]
       IN Turn({IF Current(s, p) THEN [s EXCEPT !.run[p].at = "parked"] ELSE Bail(s, p)})

----------------------------------------------------------------------------
(* deferGatewayRestartUntilIdle *)

Defer(s, p, kind) ==
    UNION {{d} \cup Attempt(d, p, TRUE) :
           d \in {[s EXCEPT !.run[p] = [NoPursuit EXCEPT !.kind = kind, !.poll = TRUE]]}}

\* stopPoll
Stopped(s, p) ==
    IF s.run[p].at = "idle" THEN [s EXCEPT !.run[p] = [NoPursuit EXCEPT !.kind = s.run[p].kind]]
    ELSE [s EXCEPT !.run[p].poll = FALSE]

\* Mutant: a busy gateway is polled for ever
PollPatient(p) ==
    /\ run[p].poll
    /\ run[p].at = "idle"
    /\ Turn(Attempt(Now, p, TRUE))

\* inspectPending: nothing is pending
PollIdle(p) ==
    /\ run[p].poll /\ run[p].at = "idle"
    /\ Turn(Attempt(Now, p, TRUE))

\* ... or the gateway is busy and maxWaitMs has passed
PollLate(p) ==
    /\ run[p].poll
    /\ LET s == Stopped(Now, p) IN
       Turn(IF run[p].at = "idle" THEN Attempt(s, p, FALSE) ELSE {s})

----------------------------------------------------------------------------
(* scheduleGatewaySigusr1Restart *)

\* /restart with a continuation; requests without one: a config write or a signal
\* from outside, a safe restart that is forced, an update that owns the handover
Call == [hooks : Hooks \cup {NoHook}, key : Keys \cup {NoKey},
         skip : BOOLEAN, preserve : BOOLEAN, owner : BOOLEAN]
PlainCall == [hooks |-> NoHook, key |-> NoKey, skip |-> FALSE, preserve |-> FALSE,
              owner |-> FALSE]
Calls == {c \in Call :
             \/ c.hooks # NoHook /\ c.key # NoKey /\ ~c.skip /\ ~c.preserve /\ ~c.owner
             \/ c = PlainCall
             \/ c = [PlainCall EXCEPT !.skip = TRUE, !.preserve = TRUE]
             \/ c = [PlainCall EXCEPT !.skip = TRUE, !.owner = TRUE]}

\* canReplacePendingRestartEmitHooks
CanReplace(s, c) == c.hooks = NoHook \/ s.slot.key \in {NoKey, c.key}

\* preservePendingEmitHooksOnDeferralBypass
Preserves(s, c) == c.preserve /\ c.hooks = NoHook /\ s.slot.key # NoKey

Requested(c) == [at |-> "armed", hooks |-> c.hooks, key |-> c.key, skip |-> c.skip]

\* skipDeferral while the pending restart is deferred: it is emitted at once
BypassDeferral(s, c) ==
    LET q == IF Preserves(s, c) THEN ClearPolls(s)
             ELSE [ClearPolls(s) EXCEPT !.slot.hooks = c.hooks, !.slot.key = c.key]
    IN Attempt([q EXCEPT !.run[Unused].kind = "slot"], Unused, FALSE)

\* An earlier due time, or a request that need not wait for idleness
PullEarlier(s, c) ==
    [s EXCEPT !.slot =
        IF Preserves(s, c) THEN [@ EXCEPT !.skip = c.skip]
        ELSE IF CanReplace(s, c) THEN Requested(c)
        ELSE [@ EXCEPT !.skip = s.slot.skip \/ c.skip]]

\* Everything else joins the pending restart (past the timer nobody reads skip)
Coalesce(s, c) ==
    LET replaces == \/ c.hooks # NoHook /\ CanReplace(s, c)
                    \/ c.hooks = NoHook /\ c.owner /\ ~Preserves(s, c)
    IN [s EXCEPT !.slot.skip = @ \/ (c.skip /\ s.slot.at = "armed"),
                 !.slot.hooks = IF replaces THEN c.hooks ELSE @,
                 !.slot.key = IF replaces THEN c.key ELSE @]

Deferred(s) == s.slot.at = "preparing" /\ \E p \in Pursuits : s.run[p].poll

Scheduled(s, c) ==
    IF s.signal THEN {s}
    ELSE IF s.slot.at = "none" THEN {[s EXCEPT !.slot = Requested(c)]}
    ELSE IF Deferred(s) /\ c.skip THEN BypassDeferral(s, c)
    ELSE IF s.slot.at = "preparing" THEN {Coalesce(s, c)}
    ELSE IF c.skip /\ ~s.slot.skip THEN {PullEarlier(s, c)}
    ELSE {PullEarlier(s, c), Coalesce(s, c)}

Schedule(c) ==
    /\ Deferred(Now) /\ c.skip => Free # {}
    /\ Turn(Scheduled(Now, c))

\* armPendingRestartTimer: the timer fires
TimerFires ==
    /\ slot.at = "armed" /\ Free # {}
    /\ LET s == [Now EXCEPT !.slot.at = "preparing", !.slot.skip = FALSE] IN
       Turn(IF slot.skip
            THEN Attempt([s EXCEPT !.run[Unused].kind = "slot"], Unused, FALSE)
            ELSE Defer(s, Unused, "slot"))

----------------------------------------------------------------------------
(* Config reloads, direct requests, the host *)

\* One deferral of the current reload: "already waiting for operations"
ReloadDefers ==
    /\ ~\E p \in Pursuits : run[p].kind = "reload" /\ ~run[p].cancelled
    /\ Free # {}
    /\ Turn(Defer(Now, Unused, "reload"))

\* supersedeRequest cancels it: its fence comes down, its poll stops
ReloadCancelled(p) ==
    /\ run[p].kind = "reload" /\ ~run[p].cancelled
    /\ LET s == [Now EXCEPT !.run[p].cancelled = TRUE]
           f == IF Inside(p) THEN RollbackFence(s, p) ELSE s
       IN Turn({IF run[p].at = "idle" THEN [f EXCEPT !.run[p] = NoPursuit]
                ELSE [f EXCEPT !.run[p].poll = FALSE]})

\* The targeted restart RPC, the reload that finds the gateway idle, its retries
Direct == Turn(RequestEmission(Now))

Suspend == Open(Now) /\ Turn({[Now EXCEPT !.suspended = TRUE]})
Resume == suspended /\ Turn({[Now EXCEPT !.suspended = FALSE]})

----------------------------------------------------------------------------
(* The run loop *)

\* SIGUSR1 from outside
OutsideSignal == MayFail /\ handlers < 2 /\ Turn({Faulty([Now EXCEPT !.handlers = @ + 1])})

Handled(s) == [s EXCEPT !.handlers = @ - 1]

\* markRestartDraining
Drain(s) == [s EXCEPT !.draining = TRUE, !.fence = 0]

HandleAuthorized ==
    /\ handlers > 0 /\ auth > 0
    /\ Turn({Handled(MarkHandled(Drain([Now EXCEPT !.auth = @ - 1])))})

\* Not authorized: refused, or (commands.restart) scheduled like any other request
HandleRefused ==
    /\ handlers > 0 /\ auth = 0
    /\ Turn({Handled(MarkHandled(Now))})

HandleOutside ==
    /\ handlers > 0 /\ auth = 0 /\ ~draining
    /\ Turn(Scheduled(Handled(MarkHandled(Now)), PlainCall))

\* The handler throws
HandlerFails ==
    /\ handlers > 0 /\ MayFail
    /\ Turn({Faulty(Handled(MarkHandled(Now)))})

\* SIGUSR1_AUTH_GRACE_MS passes before the handler looks
AuthorizationExpires ==
    /\ auth > 0 /\ MayFail
    /\ Turn({Faulty([Now EXCEPT !.auth = 0])})

\* The in-process restart: onRestart resets admission and the transient state
LifecycleReset ==
    /\ draining
    /\ Turn({[Now EXCEPT !.draining = FALSE, !.fence = 0, !.lease = 0,
                          !.signal = FALSE, !.auth = 0, !.slot = EmptySlot,
                          !.suspended = FALSE,
                          !.run = [p \in Pursuits |->
                              IF Inside(p) THEN [@[p] EXCEPT !.poll = FALSE, !.stale = TRUE]
                              ELSE NoPursuit]]})

----------------------------------------------------------------------------
Resolved == \E p \in Pursuits : run[p].at = "waiting" /\ (draining \/ Open(Now))

PursuitStep(p) == CallerReturns(p) \/ ParkedReturns(p) \/ ReplacedIsTold(p)
HandlerStep == HandleAuthorized \/ HandleRefused \/ HandleOutside

Next ==
    \/ \E p \in Pursuits : Wake(p)
    \/ /\ ~Resolved
       /\ \/ \E p \in Pursuits : PursuitStep(p)
          \/ \E p \in Pursuits : PollIdle(p) \/ PollLate(p)
          \/ \E p \in Pursuits : ReloadCancelled(p)
          \/ \E c \in Calls : Schedule(c)
          \/ TimerFires \/ ReloadDefers \/ Direct \/ Suspend \/ Resume
          \/ HandlerStep \/ HandlerFails \/ OutsideSignal \/ AuthorizationExpires
          \/ LifecycleReset

\* Timers fire, polls run, hooks and handlers return, a suspension ends, the
\* process restarts.  Waiters are resolved in the order they came.
Fairness ==
    /\ \A p \in Pursuits :
          SF_vars(Wake(p)) /\ WF_vars(PursuitStep(p) \/ PollLate(p))
    /\ SF_vars(TimerFires) /\ WF_vars(HandlerStep)
    /\ WF_vars(Resume \/ LifecycleReset)

Spec == Init /\ [][Next]_vars /\ Fairness

----------------------------------------------------------------------------
(* Properties *)

(***************************************************************************)
(* From the emission to the run loop's answer the gateway admits no root,  *)
(* and a handler is on its way: neither a cancelled or superseded attempt, *)
(* nor the one whose lease the emission shared, reopens the fence over a   *)
(* signal in flight.                                                       *)
(***************************************************************************)
SignalIsFenced ==
    signal => draining \/ (fence # 0 /\ handlers > 0)

(***************************************************************************)
(* The gateway is not left closed: behind a restart fence there is a       *)
(* signal in flight, or the attempt that raised it, still able to go on.   *)
(***************************************************************************)
FenceIsOwned ==
    fence # 0 /\ ~signal =>
        \E p \in Pursuits : Inside(p) /\ Current(Now, p)
                            /\ run[p].owns /\ run[p].lease = fence

(***************************************************************************)
(* A sentinel that was written for a restart is delivered by that restart  *)
(* or withdrawn: no path (cancel, reset, refusal, a later continuation,    *)
(* somebody else's signal) forgets one, to be found by an unrelated start. *)
(***************************************************************************)
WrittenIsHeld == \A p \in written : run[p].held # NoHook

(***************************************************************************)
(* An attempt never emits past a continuation that was accepted meanwhile: *)
(* only requests that do not prepare (the targeted RPC, the reload of an   *)
(* idle gateway) or that take the slot over drop one.                      *)
(***************************************************************************)
ContinuationKept ==
    [][~signal /\ signal' /\ slot.hooks # NoHook
       => Direct \/ \E c \in Calls : Schedule(c)]_vars

\* Nobody will emit the pending restart, and further requests join it.
Forgotten ==
    /\ slot.at = "preparing" /\ ~draining
    /\ \A p \in Pursuits : run[p].kind # "slot"

\* Sessions hand over continuations faster than they are prepared.
Accepting == slot.hooks # NoHook /\ \E p \in Pursuits : Inside(p)

(***************************************************************************)
(* A pending restart is emitted, or its emission fails, however long the   *)
(* gateway stays busy and whoever else holds the fence; unless sessions    *)
(* keep handing over continuations while the last one is prepared, or the  *)
(* code forgets the restart (RestartIsPursued).                            *)
(***************************************************************************)
RestartIsEmitted ==
    \/ []<>Accepting
    \/ slot.at # "none" ~> slot.at = "none" \/ draining \/ Forgotten

(***************************************************************************)
(* src/infra/restart.ts:684: "Poll pending work until it drains, then emit *)
(* one restart signal."  A restart that left its timer is polled for or is *)
(* being emitted until the slot is empty.                                  *)
(***************************************************************************)
RestartIsPursued == ~Forgotten
=============================================================================
