------------------------ MODULE GatewayWorkAdmission ------------------------
(***************************************************************************)
(* Process-wide admission of root work, src/process/gateway-work-admission *)
(* .ts: the restart fence (a reversible signal fence that a one-way drain  *)
(* supersedes), the suspension phase, and the root admissions that request *)
(* handlers, timers and detached continuations hold by reference count.    *)
(*                                                                         *)
(* A chain is one asynchronous call chain.  Its `root` is what             *)
(* AsyncLocalStorage yields for it: chains inherit it, and may outlive it. *)
(* A turn of the event loop is one action; a chain that waits in           *)
(* suspendOpenWaiters is "parked", and "woken" between the resolution of   *)
(* its promise and the turn in which it looks at the fences again.         *)
(* The suspension phase is moved by GatewaySuspend.tla.                    *)
(***************************************************************************)
EXTENDS Integers, FiniteSets

CONSTANTS
    Chains,      \* asynchronous call chains
    Roots,       \* root admission objects
    NoRoot,      \* no admission in AsyncLocalStorage
    Work,        \* subordinate work: queue entries, session turns, terminals
    MaxScopes,   \* bound: continuation scopes at a time
    MaxSignals   \* bound: restart signal fences raised

ASSUME RootAssumption == NoRoot \notin Roots
ASSUME ChainAssumption == IsFiniteSet(Chains)
ASSUME SignalAssumption == MaxSignals \in Nat /\ MaxScopes \in Nat

VARIABLES
    restartDraining, restartSignalPending, restartSignalGeneration,
    signalLeases,     \* generations of the fence leases not yet rolled back
    suspendPhase,
    roots,            \* reference counts and flags of the root admissions
    activeRootWork,   \* the roots that count as active
    chains,           \* the chains' own state
    scopes,           \* chain -> the continuation scope it created
    work              \* subordinate work in progress

restart == <<restartDraining, restartSignalPending, restartSignalGeneration, signalLeases>>
rootWork == <<roots, activeRootWork>>

Phases == {"accepting", "preparing", "draining", "prepared"}
Origins == {"gateway", "control", "restart"}
RootStates == [references : Nat, released : BOOLEAN, retiredByReset : BOOLEAN,
               origin : Origins]
ChainStates == [pc : {"idle", "running", "control", "parked", "woken"},
                want : {"none", "root", "settlement"},
                root : Roots \cup {NoRoot}, lease : BOOLEAN]
ScopeStates == [root : Roots \cup {NoRoot}, retained : BOOLEAN, released : BOOLEAN]

Idle == [pc |-> "idle", want |-> "none", root |-> NoRoot, lease |-> FALSE]
NoScope == [root |-> NoRoot, retained |-> FALSE, released |-> FALSE]

-----------------------------------------------------------------------------
(* The fences *)

RestartFenced == restartDraining \/ restartSignalPending

\* isGatewayWorkAdmissionClosed()
Closed == RestartFenced \/ suspendPhase # "accepting"

\* `current && !current.released`
Live(r) == r # NoRoot /\ ~roots[r].released

\* isGatewaySubordinateWorkAdmissionClosed() in chain c.
SubordinateClosed(c) ==
    \/ RestartFenced
    \/ IF chains[c].root # NoRoot THEN roots[chains[c].root].released
       ELSE suspendPhase # "accepting"

\* Mutant: the waiters are forgotten, not resolved.
WakeNobody(chs) == chs

\* resolveSuspendOpenWaiters()
WakeAll(chs) == [c \in Chains |-> IF chs[c].pc = "parked"
                                  THEN [chs[c] EXCEPT !.pc = "woken"] ELSE chs[c]]

-----------------------------------------------------------------------------
(* Root admissions *)

\* An object nobody refers to any more may stand for a new one.
Available(r) ==
    /\ r \notin activeRootWork
    /\ \A c \in Chains : chains[c].root # r /\ scopes[c].root # r

\* createGatewayRootWorkAdmission
CreateRoot(r, origin) ==
    /\ Available(r)
    /\ roots' = [roots EXCEPT ![r] = [references |-> 1, released |-> FALSE,
                                      retiredByReset |-> FALSE, origin |-> origin]]
    /\ activeRootWork' = activeRootWork \cup {r}

\* Mutant: a reset root is released once more.
ReleaseRetired(r) ==
    /\ roots' = [roots EXCEPT ![r].references = @ - 1,
                              ![r].released = @ \/ roots[r].references = 1]
    /\ activeRootWork' = IF roots[r].references = 1 THEN activeRootWork \ {r}
                         ELSE activeRootWork

\* The function createGatewayRootWorkRelease returns, called for the first time.
ReleaseRoot(r) ==
    IF roots[r].released THEN UNCHANGED rootWork
    ELSE /\ roots' = [roots EXCEPT ![r].references = @ - 1,
                                   ![r].released = roots[r].references = 1]
         /\ activeRootWork' = IF roots[r].references = 1 THEN activeRootWork \ {r}
                              ELSE activeRootWork

\* Another reference to a live root.
AddReference(r) ==
    /\ roots' = [roots EXCEPT ![r].references = @ + 1]
    /\ UNCHANGED activeRootWork

\* c runs in the new root r and holds its lease.
Enter(c, r, pc, origin) ==
    /\ CreateRoot(r, origin)
    /\ chains' = [chains EXCEPT ![c] = [pc |-> pc, want |-> "none", root |-> r, lease |-> TRUE]]

Park(c, want) ==
    /\ chains' = [chains EXCEPT ![c].pc = "parked", ![c].want = want]
    /\ UNCHANGED rootWork

\* One round of the waiting loops of beginGatewayRootWorkAdmissionWhenOpen and
\* runWithGatewayIndependentRootWorkAdmission; a drain makes them throw.
AdmitOrWait(c) ==
    \/ restartDraining /\ chains' = [chains EXCEPT ![c] = Idle] /\ UNCHANGED rootWork
    \/ ~Closed /\ \E r \in Roots : Enter(c, r, "running", "gateway")
    \/ Closed /\ ~restartDraining /\ Park(c, "root")

-----------------------------------------------------------------------------
(* What chains do *)

\* tryBeginGatewayRootWorkAdmission for a request outside any root.
BeginRoot(c) ==
    /\ chains[c].pc = "idle" /\ ~Closed
    /\ \E r \in Roots : Enter(c, r, "running", "gateway")
    /\ UNCHANGED <<restart, suspendPhase, scopes, work>>

\* A gateway.suspend.* request: admitted as a root, or let through without one.
BeginControl(c) ==
    /\ chains[c].pc = "idle"
    /\ IF ~Closed THEN \E r \in Roots : Enter(c, r, "control", "control")
       ELSE chains' = [chains EXCEPT ![c].pc = "control"] /\ UNCHANGED rootWork
    /\ UNCHANGED <<restart, suspendPhase, scopes, work>>

\* tryBeginGatewayPreparedRestartRootWorkAdmission
BeginPreparedRestart(c) ==
    /\ chains[c].pc = "idle"
    /\ ~RestartFenced /\ suspendPhase = "prepared" /\ activeRootWork = {}
    /\ \E r \in Roots : Enter(c, r, "control", "restart")
    /\ UNCHANGED <<restart, suspendPhase, scopes, work>>

\* tryBeginGatewayRestartStartupRootWorkAdmission
BeginRestartStartup(c) ==
    /\ chains[c].pc = "idle"
    /\ RestartFenced /\ suspendPhase = "accepting"
    /\ \E r \in Roots : Enter(c, r, "running", "gateway")
    /\ UNCHANGED <<restart, suspendPhase, scopes, work>>

\* A timer or an internal task that must run, outside any root.
BeginWhenOpen(c) ==
    /\ chains[c].pc = "idle"
    /\ AdmitOrWait(c)
    /\ UNCHANGED <<restart, suspendPhase, scopes, work>>

\* runOutsideGatewayRootWorkAdmission: process-lifetime work has no root.
RunOutside(c) ==
    /\ chains[c].pc = "idle"
    /\ chains' = [chains EXCEPT ![c].pc = "running"]
    /\ UNCHANGED <<restart, suspendPhase, rootWork, scopes, work>>

\* waitForGatewayRestartFenceSettlement
AwaitFence(c) ==
    /\ chains[c].pc = "running" /\ restartSignalPending
    /\ Park(c, "settlement")
    /\ UNCHANGED <<restart, suspendPhase, scopes, work>>

\* The promise of a waiter was resolved; it looks again.
Continue(c) ==
    /\ chains[c].pc = "woken"
    /\ IF chains[c].want = "root" THEN AdmitOrWait(c)
       ELSE /\ chains' = [chains EXCEPT ![c].pc = IF restartSignalPending THEN "parked" ELSE "running",
                                        ![c].want = IF restartSignalPending THEN @ ELSE "none"]
            /\ UNCHANGED rootWork
    /\ UNCHANGED <<restart, suspendPhase, scopes, work>>

\* A promise nobody awaits inherits the root, and may outlive it.
Detach(c, d) ==
    /\ chains[c].pc = "running" /\ chains[d].pc = "idle"
    /\ chains' = [chains EXCEPT ![d] = [Idle EXCEPT !.pc = "running", !.root = chains[c].root]]
    /\ UNCHANGED <<restart, suspendPhase, rootWork, scopes, work>>

\* runWithGatewayIndependentRootWorkContinuation: a live parent reserves a root
\* for d at once, whatever the fences say.
DetachRoot(c, d) ==
    /\ chains[c].pc = "running" /\ chains[d].pc = "idle"
    /\ IF Live(chains[c].root) THEN \E r \in Roots : Enter(d, r, "running", "gateway")
       ELSE AdmitOrWait(d)
    /\ UNCHANGED <<restart, suspendPhase, scopes, work>>

\* runWithGatewayRootWorkReadmission in a chain whose root a reset retired.
Readmit(c) ==
    /\ chains[c].pc = "running"
    /\ chains[c].root # NoRoot /\ roots[chains[c].root].retiredByReset
    /\ AdmitOrWait(c)
    /\ UNCHANGED <<restart, suspendPhase, scopes, work>>

\* retain... (keeps the root active) and capture... (does not).
CreateScope(c, retain) ==
    /\ chains[c].pc = "running" /\ Live(chains[c].root)
    /\ scopes[c] = NoScope /\ Cardinality({d \in Chains : scopes[d] # NoScope}) < MaxScopes
    /\ scopes' = [scopes EXCEPT ![c] = [root |-> chains[c].root, retained |-> retain,
                                        released |-> FALSE]]
    /\ IF retain THEN AddReference(chains[c].root) ELSE UNCHANGED rootWork
    /\ UNCHANGED <<restart, suspendPhase, chains, work>>

\* Mutant: the scope's release is not idempotent.
ReleaseScopeTwice(c) ==
    /\ scopes[c].root # NoRoot
    /\ scopes' = [scopes EXCEPT ![c].released = TRUE]
    /\ IF scopes[c].retained THEN ReleaseRoot(scopes[c].root) ELSE UNCHANGED rootWork
    /\ UNCHANGED <<restart, suspendPhase, chains, work>>

\* release() of a scope, which its owners may call again.
ReleaseScope(c) ==
    /\ scopes[c].root # NoRoot
    /\ scopes' = [scopes EXCEPT ![c].released = TRUE]
    /\ IF scopes[c].retained /\ ~scopes[c].released THEN ReleaseRoot(scopes[c].root)
       ELSE UNCHANGED rootWork
    /\ UNCHANGED <<restart, suspendPhase, chains, work>>

\* The last holder of a released scope lets go of it.
DropScope(c) ==
    /\ scopes[c].released
    /\ scopes' = [scopes EXCEPT ![c] = NoScope]
    /\ UNCHANGED <<restart, suspendPhase, rootWork, chains, work>>

\* run() of c's scope from chain d, a completion that arrives on its own: it
\* re-enters the root with a reference of its own, or throws.
RunScope(c, d) ==
    /\ chains[d].pc = "idle"
    /\ scopes[c].root # NoRoot /\ ~scopes[c].released
    /\ ~roots[scopes[c].root].released
    /\ AddReference(scopes[c].root)
    /\ chains' = [chains EXCEPT ![d] = [pc |-> "running", want |-> "none",
                                        root |-> scopes[c].root, lease |-> TRUE]]
    /\ UNCHANGED <<restart, suspendPhase, scopes, work>>

\* The chain ends; its finally block releases what it holds.
End(c) ==
    /\ chains[c].pc \in {"running", "control"}
    /\ chains' = [chains EXCEPT ![c] = Idle]
    /\ IF chains[c].lease THEN ReleaseRoot(chains[c].root) ELSE UNCHANGED rootWork
    /\ UNCHANGED <<restart, suspendPhase, scopes, work>>

\* Mutant: the subordinate fence ignores that the inherited root was released.
StartWorkInReleasedRoot(c, w) ==
    /\ chains[c].pc = "running"
    /\ ~RestartFenced
    /\ chains[c].root = NoRoot => suspendPhase = "accepting"
    /\ work' = work \cup {w}
    /\ UNCHANGED <<restart, suspendPhase, rootWork, chains, scopes>>

\* A chain enqueues a command, begins a session turn or opens a terminal.
StartWork(c, w) ==
    /\ chains[c].pc = "running"
    /\ w \notin work /\ ~SubordinateClosed(c)
    /\ work' = work \cup {w}
    /\ UNCHANGED <<restart, suspendPhase, rootWork, chains, scopes>>

EndWork(w) ==
    /\ w \in work
    /\ work' = work \ {w}
    /\ UNCHANGED <<restart, suspendPhase, rootWork, chains, scopes>>

-----------------------------------------------------------------------------
(* The restart signal *)

\* beginGatewayRestartSignalAdmission, whose callers own a live root.
BeginSignal(c) ==
    /\ Live(chains[c].root)
    /\ chains[c].pc = "running" \/ roots[chains[c].root].origin = "restart"
    /\ ~RestartFenced /\ restartSignalGeneration < MaxSignals
    /\ restartSignalPending' = TRUE
    /\ restartSignalGeneration' = restartSignalGeneration + 1
    /\ signalLeases' = signalLeases \cup {restartSignalGeneration + 1}
    /\ UNCHANGED <<restartDraining, suspendPhase, rootWork, chains, scopes, work>>

\* Mutant: a lease reopens whatever fence it finds.
RollbackAnySignal(g) ==
    /\ g \in signalLeases
    /\ signalLeases' = signalLeases \ {g}
    /\ restartSignalPending' = FALSE
    /\ restartSignalGeneration' = restartSignalGeneration
    /\ chains' = WakeAll(chains)
    /\ UNCHANGED <<restartDraining, suspendPhase, rootWork, scopes, work>>

\* rollback() of the lease of generation g: clearRestartSignalFence, unless the
\* fence is gone or another's.
RollbackSignal(g) ==
    /\ g \in signalLeases
    /\ signalLeases' = signalLeases \ {g}
    /\ IF restartSignalPending /\ restartSignalGeneration = g /\ ~restartDraining
       THEN /\ restartSignalPending' = FALSE
            /\ restartSignalGeneration' = restartSignalGeneration + 1
            /\ chains' = WakeAll(chains)
       ELSE UNCHANGED <<restartSignalPending, restartSignalGeneration, chains>>
    /\ UNCHANGED <<restartDraining, suspendPhase, rootWork, scopes, work>>
=============================================================================
