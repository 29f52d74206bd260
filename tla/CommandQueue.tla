---------------------------- MODULE CommandQueue ----------------------------
(***************************************************************************)
(* The command queue of src/process/command-queue.ts with its capacity    *)
(* groups (command-queue.capacity-groups.ts): named lanes, each with a     *)
(* concurrency width, three FIFO priorities, a `draining` guard and a      *)
(* generation; groups of lanes that share a budget and hold reservations.  *)
(*                                                                         *)
(* JavaScript runs one call at a time, but the pump calls back into its    *)
(* users (onWait and log sinks; the task itself starts in a microtask) and *)
(* those may call the queue again.  `stack` holds the frames of the        *)
(* synchronous calls in progress, innermost first: exported operations run *)
(* when it is empty or its innermost frame is a pump inside a callback;    *)
(* completions and timeouts are turns of their own and need it empty.      *)
(*                                                                         *)
(* A lane's queue is the set of its entries; which one is dequeued next is *)
(* given by `Before`.  LaneQueue.tla shows that the three ring buffers of  *)
(* command-queue.state.ts yield the entries in that order.                 *)
(***************************************************************************)
EXTENDS Integers, Sequences, FiniteSets

CONSTANTS
    Lanes,            \* lane names
    ScopedLanes,      \* "session:", "nested:", "context-engine-turn-maintenance:"
    QuietLanes,       \* probe lanes: their width is never below 1
    EligibleLanes,    \* lanes that may join a capacity group
    Entries,          \* the commands users enqueue, each at most once
    GroupIds,         \* capacity group names
    NoGroup,          \* "in no group"
    Priorities,       \* background -1, normal 0, foreground 1
    Widths,           \* the widths the callers ask for
    PublishConfigs,   \* the arguments of publishLaneConfiguration
    MaxIncarnations,  \* bound: LaneState objects created per lane name
    MaxGeneration,    \* bound: resets per LaneState object
    MaxInstalls,      \* bound: group definitions installed
    MaxCalls,         \* bound: queue operations one callback performs
    MaxDepth          \* bound: stack length at which callbacks may call

\* The object a lane name denotes changes when an idle scoped lane is retired
\* and created again: object <<l, i>> is the i-th LaneState made for lane l.
Objs == Lanes \X (1 .. MaxIncarnations)

GroupStates == [ver : 0 .. MaxInstalls, budget : Nat,
                members : SUBSET Lanes, reservations : [Lanes -> Nat]]
NoGroupState == [ver |-> 0, budget |-> 0, members |-> {},
                 reservations |-> [l \in Lanes |-> 0]]

\* One publishLaneConfiguration call: widths for some lanes, groups to clear,
\* and at most one group to install (group = NoGroup: none), as its callers do.
ConfigOK(c) ==
    /\ c.lanes \subseteq Lanes
    /\ c.width \in [Lanes -> Nat]
    /\ c.clear \subseteq GroupIds
    /\ c.group \in GroupIds \cup {NoGroup}
    /\ c.budget \in Nat
    /\ c.members \subseteq Lanes
    /\ c.reservations \in [Lanes -> Nat]

ASSUME LaneAssumption ==
    /\ ScopedLanes \subseteq Lanes
    /\ QuietLanes \subseteq Lanes
    /\ EligibleLanes \subseteq Lanes \ ScopedLanes
    /\ Lanes # {} /\ IsFiniteSet(Lanes)
    /\ IsFiniteSet(Entries)
ASSUME GroupAssumption == NoGroup \notin GroupIds
ASSUME ConfigAssumption ==
    /\ Priorities \subseteq {-1, 0, 1}
    /\ Widths \subseteq Nat
    /\ \A c \in PublishConfigs : ConfigOK(c)
ASSUME BoundAssumption ==
    /\ MaxIncarnations \in Nat \ {0}
    /\ MaxGeneration \in Nat
    /\ MaxInstalls \in Nat
    /\ MaxCalls \in Nat
    /\ MaxDepth \in Nat

VARIABLES
    lanes,         \* lane name -> number of its registered object, 0: none
    created,       \* lane name -> objects created so far
    queue,         \* object -> entries waiting
    activeTaskIds, \* object -> entries holding a slot
    maxConcurrent, \* object -> width
    draining,      \* object -> a pump owns this lane
    generation,    \* object -> resets so far
    groups,        \* group id -> its current definition
    groupByLane,   \* lane name -> group id or NoGroup
    installs,      \* group definitions installed so far
    entry,         \* the entries' own state
    nextSequence,  \* nextQueueSequence
    closed,        \* subordinate work admission is closed (restart drain)
    stack          \* frames of the synchronous calls in progress

config == <<groups, groupByLane, installs>>
registry == <<lanes, created>>
vars == <<lanes, created, queue, activeTaskIds, maxConcurrent, draining,
          generation, groups, groupByLane, installs, entry, nextSequence,
          closed, stack>>

Statuses == {"new", "queued", "started", "settled", "rejected"}
EntryStates == [status : Statuses, owner : Objs, priority : {-1, 0, 1},
                sequence : Nat, generation : 0 .. MaxGeneration]
Fresh == [status |-> "new", owner |-> CHOOSE o \in Objs : TRUE,
          priority |-> 0, sequence |-> 0, generation |-> 0]

-----------------------------------------------------------------------------
(* Frames *)

LaneFrame(o, bounded) == [fn |-> "drainLane", obj |-> o, bounded |-> bounded,
                          started |-> FALSE, calls |-> 0]
GroupFrame(g) == [fn |-> "drainCommandLaneGroup", group |-> g,
                  ver |-> groups[g].ver]
\* The closing loops of publishLaneConfiguration and resetAllLanes.
LoopFrame(todo, ready) == [fn |-> "drainEach", todo |-> todo, ready |-> ready]

LaneFrames == [fn : {"drainLane"}, obj : Objs, bounded : BOOLEAN,
               started : BOOLEAN, calls : 0 .. MaxCalls]
GroupFrames == [fn : {"drainCommandLaneGroup"}, group : GroupIds,
                ver : 0 .. MaxInstalls]
LoopFrames == [fn : {"drainEach"}, todo : SUBSET Lanes, ready : BOOLEAN]
Frames == LaneFrames \cup GroupFrames \cup LoopFrames

Top == Head(stack)
Push(f, stk) == <<f>> \o stk

InCallback == stack # <<>> /\ Top.fn = "drainLane" /\ Top.calls > 0

\* An exported operation may be called now, and the stack it then runs on.
Callable == stack = <<>> \/ InCallback
Caller == IF stack = <<>> THEN stack
          ELSE Push([Top EXCEPT !.calls = @ - 1], Tail(stack))

-----------------------------------------------------------------------------
(* Lanes and group capacity *)

\* getLaneState(l): the registered object, or a new one.
LaneObj(l) == <<l, IF lanes[l] = 0 THEN created[l] + 1 ELSE lanes[l]>>
GetLaneState(l) ==
    /\ LaneObj(l) \in Objs
    /\ lanes' = [lanes EXCEPT ![l] = LaneObj(l)[2]]
    /\ created' = [created EXCEPT ![l] = IF lanes[l] = 0 THEN @ + 1 ELSE @]

Registered(o) == lanes[o[1]] = o[2]
ActiveIn(l) == IF lanes[l] = 0 THEN {} ELSE activeTaskIds[<<l, lanes[l]>>]

\* readGroupCapacity: the slots its members hold, and the reserved slots that
\* are not in use, both counted by the cardinality of a set of pairs.
HeldSlots(g) ==
    {s \in groups[g].members \X Entries : s[2] \in ActiveIn(s[1])}
UnmetSlots(g) ==
    {s \in groups[g].members \X (1 .. groups[g].budget) :
        /\ s[2] <= groups[g].reservations[s[1]]
        /\ s[2] > Cardinality(ActiveIn(s[1]))}
Active(g) == Cardinality(HeldSlots(g))
Reserved(g) == Cardinality(UnmetSlots(g))

\* Mutant: siblings' reservations may be borrowed.
CanAdmitBorrowing(l) ==
    groupByLane[l] # NoGroup => Active(groupByLane[l]) < groups[groupByLane[l]].budget

\* resolveGroupBlockReason(...) = null.
CanAdmitInGroup(l) ==
    LET g == groupByLane[l] IN
    g # NoGroup =>
        /\ Active(g) < groups[g].budget
        /\ \/ Cardinality(ActiveIn(l)) < groups[g].reservations[l]
           \/ Active(g) + Reserved(g) < groups[g].budget

HasWidth(o) == Cardinality(activeTaskIds[o]) < maxConcurrent[o]

\* Dequeue order: priority first, then age.
Before(e, f) ==
    \/ entry[e].priority > entry[f].priority
    \/ entry[e].priority = entry[f].priority /\ entry[e].sequence < entry[f].sequence
First(e, S) == \A f \in S \ {e} : Before(e, f)

\* resolveNextGroupLane: the lanes that compete, and the one whose head is first.
Candidates(g) ==
    {l \in groups[g].members :
        /\ lanes[l] # 0
        /\ queue[LaneObj(l)] # {}
        /\ ~draining[LaneObj(l)]
        /\ HasWidth(LaneObj(l))
        /\ CanAdmitInGroup(l)}
Selected(g) ==
    {l \in Candidates(g) :
        \E e \in queue[LaneObj(l)] :
            First(e, UNION {queue[LaneObj(m)] : m \in Candidates(g)})}

-----------------------------------------------------------------------------
(* The pump *)

\* Mutants: the registry entry is deleted by name, whatever object it holds; the
\* lane is retired although a task is active.
RetireByName(o, q, a, d) ==
    IF ~d /\ q = {} /\ a = {} /\ maxConcurrent[o] = 1 /\ o[1] \in ScopedLanes
    THEN [lanes EXCEPT ![o[1]] = 0] ELSE lanes
RetireBusy(o, q, a, d) ==
    IF ~d /\ q = {} /\ maxConcurrent[o] = 1 /\ o[1] \in ScopedLanes /\ Registered(o)
    THEN [lanes EXCEPT ![o[1]] = 0] ELSE lanes
\* Mutant: a lane is never retired.
RetireNever(o, q, a, d) == lanes

\* retireIdleScopedCommandLane(o): what the registry becomes, given that o's
\* queue, active set and draining flag are q, a and d.
Retire(o, q, a, d) ==
    IF /\ ~d /\ q = {} /\ a = {}
       /\ maxConcurrent[o] = 1
       /\ o[1] \in ScopedLanes
       /\ Registered(o)
    THEN [lanes EXCEPT ![o[1]] = 0]
    ELSE lanes

\* drainLane(o): refused while another pump owns the lane.  stk and dr are the
\* stack and the draining flags at the call.
DrainLane(o, bounded, stk, dr) ==
    IF dr[o]
    THEN stack' = stk /\ draining' = dr
    ELSE stack' = Push(LaneFrame(o, bounded), stk) /\ draining' = [dr EXCEPT ![o] = TRUE]

\* drainCommandLaneGroup: a group that is being drained is not entered again.
BeingDrained(g, stk) ==
    \E i \in DOMAIN stk : stk[i] = GroupFrame(g)

\* Mutants: the lane pumps itself without its group; nothing is pumped.
DrainOwnLane(o, stk, dr) == DrainLane(o, FALSE, stk, dr)
DrainNothing(o, stk, dr) == stack' = stk /\ draining' = dr

\* drainReadyCommandLane(l, o), in a call that leaves the groups alone.
DrainReady(o, stk, dr) ==
    LET g == groupByLane[o[1]] IN
    IF g = NoGroup
    THEN DrainLane(o, FALSE, stk, dr)
    ELSE /\ draining' = dr
         /\ stack' = IF BeingDrained(g, stk) THEN stk ELSE Push(GroupFrame(g), stk)

\* The loop condition of drainLane.
MayStart(f) ==
    /\ ~(f.bounded /\ f.started)
    /\ HasWidth(f.obj)
    /\ queue[f.obj] # {}
    /\ CanAdmitInGroup(f.obj[1])

Pumping(fn) == stack # <<>> /\ Top.fn = fn /\ ~InCallback

\* One turn of the loop: dequeue, commit the slot, then perhaps call back.
StartTask ==
    /\ Pumping("drainLane")
    /\ MayStart(Top)
    /\ LET o == Top.obj IN
          \E e \in queue[o] :
             /\ First(e, queue[o])
             /\ queue' = [queue EXCEPT ![o] = @ \ {e}]
             /\ activeTaskIds' = [activeTaskIds EXCEPT ![o] = @ \cup {e}]
             /\ entry' = [entry EXCEPT ![e].status = "started",
                                       ![e].generation = generation[o]]
    /\ \E calls \in IF Len(stack) <= MaxDepth THEN {0, MaxCalls} ELSE {0} :
          stack' = Push([Top EXCEPT !.started = TRUE, !.calls = calls], Tail(stack))
    /\ UNCHANGED <<registry, maxConcurrent, draining, generation, config,
                   nextSequence, closed>>

\* The callback returns without further calls.
CallbackReturns ==
    /\ InCallback
    /\ stack' = Push([Top EXCEPT !.calls = 0], Tail(stack))
    /\ UNCHANGED <<registry, queue, activeTaskIds, maxConcurrent, draining,
                   generation, config, entry, nextSequence, closed>>

\* The loop ends: release the guard, retire the lane.  A group pump whose
\* selected lane started nothing returns as well.
ReturnTo ==
    LET under == Tail(stack) IN
    IF ~Top.started /\ under # <<>> /\ Head(under).fn = "drainCommandLaneGroup"
    THEN Tail(under) ELSE under

DrainLaneReturns ==
    /\ Pumping("drainLane")
    /\ ~MayStart(Top)
    /\ LET o == Top.obj IN
          /\ draining' = [draining EXCEPT ![o] = FALSE]
          /\ lanes' = Retire(o, queue[o], activeTaskIds[o], FALSE)
    /\ stack' = ReturnTo
    /\ UNCHANGED <<created, queue, activeTaskIds, maxConcurrent, generation,
                   config, entry, nextSequence, closed>>

\* drainCommandLaneGroup: start one entry of the selected lane at a time, for
\* as long as this definition of the group is the current one.
DrainGroupStep ==
    /\ Pumping("drainCommandLaneGroup")
    /\ IF groups[Top.group].ver = Top.ver /\ Candidates(Top.group) # {}
       THEN \E l \in Selected(Top.group) : DrainLane(LaneObj(l), TRUE, stack, draining)
       ELSE stack' = Tail(stack) /\ UNCHANGED draining
    /\ UNCHANGED <<registry, queue, activeTaskIds, maxConcurrent, generation,
                   config, entry, nextSequence, closed>>

\* The closing loops visit their lanes once each, in an order this model leaves
\* open.  publishLaneConfiguration (ready) skips lanes it need not pump;
\* resetAllLanes may visit a lane that was retired meanwhile: the object it then
\* creates is idle and retired at once, so the visit has no effect.
DrainEachStep ==
    /\ Pumping("drainEach")
    /\ \/ /\ Top.todo = {}
          /\ stack' = Tail(stack)
          /\ UNCHANGED draining
       \/ \E l \in Top.todo :
            LET o == LaneObj(l)
                rest == Push([Top EXCEPT !.todo = @ \ {l}], Tail(stack))
                skip == \/ lanes[l] = 0
                        \/ /\ Top.ready
                           /\ maxConcurrent[o] = 0 \/ queue[o] = {} \/ draining[o]
            IN IF skip THEN stack' = rest /\ UNCHANGED draining
               ELSE DrainReady(o, rest, draining)
    /\ UNCHANGED <<registry, queue, activeTaskIds, maxConcurrent, generation,
                   config, entry, nextSequence, closed>>

-----------------------------------------------------------------------------
(* Operations of the users *)

\* enqueueCommandInLane(l, ..., {priority: p}).
Enqueue(e, l, p) ==
    /\ Callable
    /\ entry[e].status = "new"
    /\ ~closed
    /\ GetLaneState(l)
    /\ LET o == LaneObj(l) IN
          /\ queue' = [queue EXCEPT ![o] = @ \cup {e}]
          /\ entry' = [entry EXCEPT ![e] = [status |-> "queued", owner |-> o,
                          priority |-> p, sequence |-> nextSequence, generation |-> 0]]
          /\ nextSequence' = nextSequence + 1
          /\ DrainReady(o, Caller, draining)
    /\ UNCHANGED <<activeTaskIds, maxConcurrent, generation, config, closed>>

\* The same call when its signal is already aborted or admission is closed.
Refuse(e, aborted) ==
    /\ Callable
    /\ entry[e].status = "new"
    /\ aborted \/ closed
    /\ entry' = [entry EXCEPT ![e] = [Fresh EXCEPT !.status = "rejected"]]
    /\ stack' = Caller
    /\ UNCHANGED <<registry, queue, activeTaskIds, maxConcurrent, draining,
                   generation, config, nextSequence, closed>>

\* The abort listener of a queued entry; a started one has released it.
Abort(e) ==
    /\ Callable
    /\ entry[e].status = "queued"
    /\ LET o == entry[e].owner
           q == queue[o] \ {e}
       IN /\ queue' = [queue EXCEPT ![o] = q]
          /\ lanes' = Retire(o, q, activeTaskIds[o], draining[o])
    /\ entry' = [entry EXCEPT ![e] = [Fresh EXCEPT !.status = "rejected"]]
    /\ stack' = Caller
    /\ UNCHANGED <<created, activeTaskIds, maxConcurrent, draining, generation,
                   config, nextSequence, closed>>

\* A started task ends: it resolves, rejects or times out (the body of a timed
\* out task may go on unwinding, but its later end is not seen by the queue).
\* completeTask ignores an end that belongs to an earlier generation.
Settle(e) ==
    /\ stack = <<>>
    /\ entry[e].status = "started"
    /\ entry' = [entry EXCEPT ![e] = [Fresh EXCEPT !.status = "settled"]]
    /\ LET o == entry[e].owner IN
          IF entry[e].generation = generation[o]
          THEN /\ activeTaskIds' = [activeTaskIds EXCEPT ![o] = @ \ {e}]
               /\ DrainReady(o, stack, draining)
          ELSE UNCHANGED <<activeTaskIds, draining, stack>>
    /\ UNCHANGED <<registry, queue, maxConcurrent, generation, config,
                   nextSequence, closed>>

\* clearCommandLane(l): every queued entry is rejected; nothing is pumped.
ClearLane(l) ==
    /\ Callable
    /\ lanes[l] # 0
    /\ LET o == LaneObj(l) IN
          /\ queue' = [queue EXCEPT ![o] = {}]
          /\ entry' = [e \in Entries |-> IF e \in queue[o]
                          THEN [Fresh EXCEPT !.status = "rejected"] ELSE entry[e]]
    /\ stack' = Caller
    /\ UNCHANGED <<registry, activeTaskIds, maxConcurrent, draining, generation,
                   config, nextSequence, closed>>

-----------------------------------------------------------------------------
(* Configuration, recovery and restart *)

\* Mutant: the lower bound of the width is lost.
ClampUnbounded(l, n) == n - 1

Clamp(l, n) == IF l \in QuietLanes /\ n = 0 THEN 1 ELSE n

\* setCommandLaneConcurrency(l, n): the lane is pumped at once.
SetConcurrency(l, n) ==
    /\ Callable
    /\ GetLaneState(l)
    /\ LET o == LaneObj(l) IN
          /\ maxConcurrent' = [maxConcurrent EXCEPT ![o] = Clamp(l, n)]
          /\ IF Clamp(l, n) > 0 THEN DrainReady(o, Caller, draining)
             ELSE stack' = Caller /\ UNCHANGED draining
    /\ UNCHANGED <<queue, activeTaskIds, generation, config, entry,
                   nextSequence, closed>>

\* validateCommandLaneGroupSpec; an invalid definition makes the call a no-op.
ValidGroup(c) ==
    /\ c.members \subseteq EligibleLanes
    /\ \A l \in Lanes \ c.members : c.reservations[l] = 0
    /\ \A l \in c.members : c.reservations[l] <= c.budget
    /\ Cardinality({s \in c.members \X (1 .. c.budget) : s[2] <= c.reservations[s[1]]})
          <= c.budget

\* The group maps once c's groups are cleared: <<groups, groupByLane>>.
AfterClear(c) ==
    LET gone == UNION {groups[g].members : g \in c.clear} IN
    <<[g \in GroupIds |-> IF g \in c.clear THEN NoGroupState ELSE groups[g]],
      [l \in Lanes |-> IF l \in gone THEN NoGroup ELSE groupByLane[l]]>>

\* Mutant: the old owner keeps listing the members it lost.
AfterInstallKeepingOwners(c) ==
    LET gs == AfterClear(c)[1]
        by == AfterClear(c)[2]
        next == [ver |-> installs + 1, budget |-> c.budget,
                 members |-> c.members, reservations |-> c.reservations]
    IN <<[gs EXCEPT ![c.group] = next],
         [l \in Lanes |-> IF l \in c.members THEN c.group
                          ELSE IF l \in gs[c.group].members THEN NoGroup ELSE by[l]]>>

\* installCommandLaneGroup: its members leave the group that owned them.
AfterInstall(c) ==
    LET gs == AfterClear(c)[1]
        by == AfterClear(c)[2]
        next == [ver |-> installs + 1, budget |-> c.budget,
                 members |-> c.members, reservations |-> c.reservations]
    IN <<[g \in GroupIds |->
            IF g = c.group THEN next
            ELSE [gs[g] EXCEPT !.members = @ \ {l \in c.members : by[l] = g}]],
         [l \in Lanes |->
            IF l \in c.members THEN c.group
            ELSE IF l \in gs[c.group].members THEN NoGroup
            ELSE by[l]]>>

\* Mutant: only what the call names is visited.
TouchedNamed(c) == c.lanes \cup c.members

\* The lanes the commit pass visits: configured, cleared, replaced, joining, and
\* the siblings that a joining lane leaves behind.
Touched(c) ==
    LET gs == AfterClear(c)[1]
        by == AfterClear(c)[2]
        owners == {c.group} \cup {by[l] : l \in c.members}
    IN c.lanes
       \cup (UNION {groups[g].members : g \in c.clear})
       \cup (IF c.group = NoGroup THEN {}
             ELSE c.members \cup (UNION {gs[g].members : g \in owners \ {NoGroup}}))

\* publishLaneConfiguration(c): widths and groups change together with dispatch
\* suppressed; the commit pass is the frame it pushes.
Publish(c) ==
    /\ Callable
    /\ c.group # NoGroup => ValidGroup(c) /\ installs < MaxInstalls
    /\ \A l \in c.lanes : LaneObj(l) \in Objs
    /\ lanes' = [l \in Lanes |-> IF l \in c.lanes THEN LaneObj(l)[2] ELSE lanes[l]]
    /\ created' = [l \in Lanes |-> IF l \in c.lanes /\ lanes[l] = 0
                                   THEN created[l] + 1 ELSE created[l]]
    /\ maxConcurrent' = [o \in Objs |-> IF o[1] \in c.lanes /\ o = LaneObj(o[1])
                            THEN Clamp(o[1], c.width[o[1]]) ELSE maxConcurrent[o]]
    /\ LET after == IF c.group = NoGroup THEN AfterClear(c) ELSE AfterInstall(c) IN
          groups' = after[1] /\ groupByLane' = after[2]
    /\ installs' = IF c.group = NoGroup THEN installs ELSE installs + 1
    /\ stack' = Push(LoopFrame(Touched(c), TRUE), Caller)
    /\ UNCHANGED <<queue, activeTaskIds, draining, generation, entry,
                   nextSequence, closed>>

\* Mutant: the reset keeps the generation.
ResetKeepingGeneration(l) ==
    /\ Callable
    /\ lanes[l] # 0
    /\ LET o == LaneObj(l) IN
          /\ activeTaskIds[o] # {}
          /\ activeTaskIds' = [activeTaskIds EXCEPT ![o] = {}]
          /\ DrainReady(o, Caller, [draining EXCEPT ![o] = FALSE])
    /\ UNCHANGED <<registry, queue, maxConcurrent, generation, config, entry,
                   nextSequence, closed>>

\* resetCommandLane(l): stuck-session recovery forces the lane idle.
ResetLane(l) ==
    /\ Callable
    /\ lanes[l] # 0
    /\ LET o == LaneObj(l) IN
          /\ generation[o] < MaxGeneration
          /\ generation' = [generation EXCEPT ![o] = @ + 1]
          /\ activeTaskIds' = [activeTaskIds EXCEPT ![o] = {}]
          /\ DrainReady(o, Caller, [draining EXCEPT ![o] = FALSE])
    /\ UNCHANGED <<registry, queue, maxConcurrent, config, entry,
                   nextSequence, closed>>

\* resetAllLanes(): after an in-process restart; queued entries are kept.
ResetAllLanes ==
    /\ Callable
    /\ \A l \in Lanes : lanes[l] # 0 => generation[LaneObj(l)] < MaxGeneration
    /\ closed' = FALSE
    /\ generation' = [o \in Objs |-> IF Registered(o) THEN generation[o] + 1
                                     ELSE generation[o]]
    /\ activeTaskIds' = [o \in Objs |-> IF Registered(o) THEN {} ELSE activeTaskIds[o]]
    /\ draining' = [o \in Objs |-> IF Registered(o) THEN FALSE ELSE draining[o]]
    /\ stack' = Push(LoopFrame({l \in Lanes : lanes[l] # 0 /\ queue[LaneObj(l)] # {}},
                               FALSE), Caller)
    /\ UNCHANGED <<registry, queue, maxConcurrent, config, entry, nextSequence>>

\* markGatewayDraining().
MarkGatewayDraining ==
    /\ Callable
    /\ ~closed
    /\ closed' = TRUE
    /\ stack' = Caller
    /\ UNCHANGED <<registry, queue, activeTaskIds, maxConcurrent, draining,
                   generation, config, entry, nextSequence>>

-----------------------------------------------------------------------------
Init ==
    /\ lanes = [l \in Lanes |-> 0]
    /\ created = [l \in Lanes |-> 0]
    /\ queue = [o \in Objs |-> {}]
    /\ activeTaskIds = [o \in Objs |-> {}]
    /\ maxConcurrent = [o \in Objs |-> 1]
    /\ draining = [o \in Objs |-> FALSE]
    /\ generation = [o \in Objs |-> 0]
    /\ groups = [g \in GroupIds |-> NoGroupState]
    /\ groupByLane = [l \in Lanes |-> NoGroup]
    /\ installs = 0
    /\ entry = [e \in Entries |-> Fresh]
    /\ nextSequence = 1
    /\ closed = FALSE
    /\ stack = <<>>

Pump ==
    \/ StartTask
    \/ CallbackReturns
    \/ DrainLaneReturns
    \/ DrainGroupStep
    \/ DrainEachStep

UserCall ==
    \/ \E e \in Entries, l \in Lanes, p \in Priorities : Enqueue(e, l, p)
    \/ \E e \in Entries, aborted \in BOOLEAN : Refuse(e, aborted)
    \/ \E e \in Entries : Abort(e)
    \/ \E l \in Lanes : ClearLane(l)

Configure ==
    \/ \E l \in Lanes, n \in Widths : SetConcurrency(l, n)
    \/ \E c \in PublishConfigs : Publish(c)

Recover ==
    \/ \E l \in Lanes : ResetLane(l)
    \/ ResetAllLanes
    \/ MarkGatewayDraining

Next ==
    \/ Pump
    \/ UserCall
    \/ \E e \in Entries : Settle(e)
    \/ Configure
    \/ Recover

Spec == Init /\ [][Next]_vars

\* The pump is ordinary synchronous code.  Every started task ends or, by its
\* lane timeout, is treated as ended, and the event loop runs that reaction as
\* soon as the stack is empty, so other calls cannot put it off for ever.
Fairness == WF_vars(Pump) /\ \A e \in Entries : SF_vars(Settle(e))
FairSpec == Spec /\ Fairness

-----------------------------------------------------------------------------
(* Properties *)

\* Every variable keeps its type: registered lanes denote objects made for them,
\* frames on the stack are calls the code can be in, counters keep their bounds.
TypeOK ==
    /\ lanes \in [Lanes -> 0 .. MaxIncarnations]
    /\ created \in [Lanes -> 0 .. MaxIncarnations]
    /\ queue \in [Objs -> SUBSET Entries]
    /\ activeTaskIds \in [Objs -> SUBSET Entries]
    /\ maxConcurrent \in [Objs -> Nat]
    /\ draining \in [Objs -> BOOLEAN]
    /\ generation \in [Objs -> 0 .. MaxGeneration]
    /\ groups \in [GroupIds -> GroupStates]
    /\ groupByLane \in [Lanes -> GroupIds \cup {NoGroup}]
    /\ installs \in 0 .. MaxInstalls
    /\ entry \in [Entries -> EntryStates]
    /\ nextSequence \in Nat
    /\ closed \in BOOLEAN
    /\ stack \in Seq(Frames)

\* Every entry is in exactly one place, through retirement and re-creation of
\* its lane, aborts, clears and resets from inside callbacks: a queued entry is
\* in the queue of its own, registered lane object; a started entry holds a
\* slot there exactly while its generation is the lane's; nothing is held by
\* an object that left the registry, where no pump would ever find it.
Custody ==
    \A o \in Objs :
        /\ queue[o] = {e \in Entries : entry[e].status = "queued" /\ entry[e].owner = o}
        /\ activeTaskIds[o] = {e \in Entries : /\ entry[e].status = "started"
                                               /\ entry[e].owner = o
                                               /\ entry[e].generation = generation[o]}
        /\ queue[o] \cup activeTaskIds[o] # {} => Registered(o)

\* No started entry is of a later generation than its lane.
GenerationsPast ==
    \A e \in Entries : entry[e].status = "started" =>
        entry[e].generation <= generation[entry[e].owner]

\* The two group maps describe one partition: a lane names a group exactly
\* when that group's definition lists it, whatever sequence of installs, steals
\* of members and clears led there; and no lane that another lane may wait for
\* is ever in a group.
GroupMapsAgree ==
    /\ \A l \in Lanes, g \in GroupIds : groupByLane[l] = g <=> l \in groups[g].members
    /\ \A l \in Lanes \ EligibleLanes : groupByLane[l] = NoGroup

\* The slots of a group that are held or kept for a reservation.
Committed(g) == Active(g) + Reserved(g)

\* No step other than a new configuration commits more of a group than its
\* budget: starts within a reservation do not eat the reservations of siblings,
\* and completions and resets give back no more than they held.
ReservationsHold ==
    [][groups' = groups =>
          \A g \in GroupIds : Committed(g)' <= groups[g].budget
                              \/ Committed(g)' <= Committed(g)]_vars

Waiting(l) ==
    /\ lanes[l] # 0
    /\ queue[LaneObj(l)] # {}
    /\ HasWidth(LaneObj(l))
    /\ CanAdmitInGroup(l)

\* When no call is in progress, a lane with work that could start has at least
\* a running task, whose completion will pump it.  (A callback that replaces
\* the group of the lane being pumped makes that wait possible.)
NoStrandedWork ==
    stack = <<>> => \A l \in Lanes : Waiting(l) => ActiveIn(l) # {}

\* Without callbacks there is no such wait at all: whatever was configured,
\* reset, aborted or completed, no admissible work is left behind.
WorkConserving ==
    stack = <<>> => \A l \in Lanes : ~Waiting(l)

\* A scoped lane that is idle and unconfigured has left the registry, unless it
\* was reset (resetAllLanes forgets its active tasks without retiring it).
IdleScopedLanesRetire ==
    stack = <<>> =>
        \A l \in ScopedLanes :
            LET o == LaneObj(l) IN
            lanes[l] # 0 /\ queue[o] = {} /\ activeTaskIds[o] = {} /\ maxConcurrent[o] = 1
                => generation[o] > 0

\* A scoped lane runs one task at a time across all the objects made for it:
\* only runs given up by a reset may overlap the current one.
OneLiveRunPerScope ==
    \A l \in ScopedLanes :
        Cardinality({e \in Entries : /\ entry[e].status = "started"
                                     /\ entry[e].owner[1] = l
                                     /\ entry[e].generation = generation[entry[e].owner]}) <= 1

\* A completing lane does not take shared capacity ahead of an older or more
\* urgent sibling that could use it (group arbitration).  A callback that
\* publishes a configuration while its own pump drains a lane could put that lane
\* into a group and would break it; no task of the repository does.
GroupOrder ==
    [][\A e \in Entries :
          entry[e].status = "queued" /\ entry'[e].status = "started" =>
            LET l == entry[e].owner[1] IN
            groupByLane[l] # NoGroup =>
                \A m \in Candidates(groupByLane[l]) \ {l} :
                    \A f \in queue[LaneObj(m)] : Before(e, f)]_vars

\* Queued work is eventually started or rejected, across resets, width changes
\* and new group definitions, as long as tasks end and no lane is paused.
QueuedWorkIsServed ==
    \A e \in Entries : entry[e].status = "queued" ~> entry[e].status # "queued"
=============================================================================
