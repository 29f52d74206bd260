------------------------- MODULE CommandQueueProofs -------------------------
(* Theorems about CommandQueue, for every value of its constants. *)
EXTENDS CommandQueue, FiniteSetTheorems, TLAPS

-----------------------------------------------------------------------------
(* The stack *)

\* A call pushes a frame on the stack of synchronous calls.
LEMMA PushType ==
    ASSUME NEW f \in Frames, NEW stk \in Seq(Frames)
    PROVE  Push(f, stk) \in Seq(Frames)
BY DEF Push

\* The innermost frame of a non-empty stack is a frame, and the rest is a stack.
LEMMA TopType ==
    ASSUME stack \in Seq(Frames), stack # <<>>
    PROVE  Top \in Frames /\ Tail(stack) \in Seq(Frames)
BY DEF Top

\* An innermost drainLane frame names a lane object.
LEMMA LaneTop ==
    ASSUME stack \in Seq(Frames), stack # <<>>, Top.fn = "drainLane"
    PROVE  Top \in LaneFrames
BY TopType DEF Frames, LaneFrames, GroupFrames, LoopFrames

\* An innermost drainReadyGroup frame names a capacity group.
LEMMA GroupTop ==
    ASSUME stack \in Seq(Frames), stack # <<>>, Top.fn = "drainCommandLaneGroup"
    PROVE  Top \in GroupFrames
BY TopType DEF Frames, LaneFrames, GroupFrames, LoopFrames

\* An innermost publishLaneConfiguration frame holds the lanes still to pump.
LEMMA LoopTop ==
    ASSUME stack \in Seq(Frames), stack # <<>>, Top.fn = "drainEach"
    PROVE  Top \in LoopFrames
BY TopType DEF Frames, LaneFrames, GroupFrames, LoopFrames

\* A call from inside a callback is charged to the pump that made the callback.
LEMMA CallerType ==
    ASSUME TypeOK, Callable
    PROVE  Caller \in Seq(Frames)
<1>1. CASE stack = <<>>
  BY <1>1 DEF Caller, TypeOK
<1>2. CASE stack # <<>>
  <2>1. Top \in LaneFrames /\ Top.calls > 0
    BY <1>2, LaneTop DEF TypeOK, Callable, InCallback
  <2>2. [Top EXCEPT !.calls = @ - 1] \in LaneFrames
    BY <2>1, BoundAssumption DEF LaneFrames
  <2> QED
    BY <1>2, <2>2, TopType, PushType DEF Caller, TypeOK, Frames
<1> QED
  BY <1>1, <1>2

\* A registered lane denotes one of its objects.
LEMMA LaneObjType ==
    ASSUME TypeOK, NEW l \in Lanes, lanes[l] # 0
    PROVE  LaneObj(l) \in Objs
BY DEF TypeOK, LaneObj, Objs

\* drainLane, called on an object, leaves the draining guards and the stack typed.
LEMMA DrainLaneType ==
    ASSUME TypeOK, NEW o \in Objs, NEW bounded \in BOOLEAN, NEW stk \in Seq(Frames),
           NEW dr \in [Objs -> BOOLEAN], DrainLane(o, bounded, stk, dr)
    PROVE  stack' \in Seq(Frames) /\ draining' \in [Objs -> BOOLEAN]
<1>1. LaneFrame(o, bounded) \in Frames
  BY BoundAssumption DEF LaneFrame, Frames, LaneFrames
<1> QED
  BY <1>1, PushType DEF DrainLane

\* drainReadyLaneGroup pumps the lane itself or enters its group.
LEMMA DrainReadyType ==
    ASSUME TypeOK, NEW o \in Objs, NEW stk \in Seq(Frames),
           NEW dr \in [Objs -> BOOLEAN], DrainReady(o, stk, dr)
    PROVE  stack' \in Seq(Frames) /\ draining' \in [Objs -> BOOLEAN]
<1> DEFINE g == groupByLane[o[1]]
<1>0. g \in GroupIds \cup {NoGroup}
  BY DEF TypeOK, Objs
<1>1. CASE g = NoGroup
  BY <1>1, DrainLaneType DEF DrainReady
<1>2. CASE g # NoGroup
  <2>1. GroupFrame(g) \in Frames
    BY <1>0, <1>2 DEF TypeOK, GroupFrame, GroupStates, Frames, GroupFrames
  <2> QED
    BY <1>2, <2>1, PushType DEF DrainReady
<1> QED
  BY <1>1, <1>2

-----------------------------------------------------------------------------
(* Type correctness *)

\* A command that was rejected or never queued is a typed entry.
LEMMA FreshType ==
    ASSUME NEW s \in Statuses
    PROVE  [Fresh EXCEPT !.status = s] \in EntryStates
<1> DEFINE anyObj == CHOOSE o \in Objs : TRUE
<1>1. PICK l \in Lanes : TRUE
  BY LaneAssumption
<1>2. <<l, 1>> \in Objs
  BY BoundAssumption DEF Objs
<1>3. anyObj \in Objs
  BY <1>2
<1>4. Fresh = [status |-> "new", owner |-> anyObj, priority |-> 0,
               sequence |-> 0, generation |-> 0]
  BY DEF Fresh
<1> HIDE DEF anyObj
<1>5. [Fresh EXCEPT !.status = s] =
         [status |-> s, owner |-> anyObj, priority |-> 0, sequence |-> 0, generation |-> 0]
  BY <1>4
<1> QED
  BY <1>3, <1>5, BoundAssumption DEF EntryStates

\* The queue starts typed: no lane, no entry, no call in progress.
THEOREM TypeInit == Init => TypeOK
<1> SUFFICES ASSUME Init PROVE TypeOK
  OBVIOUS
<1>1. Fresh \in EntryStates
  <2>1. "new" \in Statuses /\ [Fresh EXCEPT !.status = "new"] = Fresh
    BY DEF Fresh, Statuses
  <2> QED
    BY <2>1, FreshType
<1>2. NoGroupState \in GroupStates
  BY BoundAssumption DEF NoGroupState, GroupStates
<1>3. draining \in [Objs -> BOOLEAN] /\ closed \in BOOLEAN
  BY Zenon DEF Init
<1>4. stack \in Seq(Frames)
  BY DEF Init
<1>5. /\ lanes \in [Lanes -> 0 .. MaxIncarnations]
      /\ created \in [Lanes -> 0 .. MaxIncarnations]
      /\ maxConcurrent \in [Objs -> Nat]
      /\ generation \in [Objs -> 0 .. MaxGeneration]
      /\ installs \in 0 .. MaxInstalls
      /\ nextSequence \in Nat
  BY BoundAssumption DEF Init
<1> QED
  BY <1>1, <1>2, <1>3, <1>4, <1>5 DEF Init, TypeOK

\* getLaneState returns an object of the lane and keeps the registry typed.
LEMMA GetLaneStateType ==
    ASSUME TypeOK, NEW l \in Lanes, GetLaneState(l)
    PROVE  /\ lanes' \in [Lanes -> 0 .. MaxIncarnations]
           /\ created' \in [Lanes -> 0 .. MaxIncarnations]
           /\ LaneObj(l) \in Objs
BY BoundAssumption DEF TypeOK, GetLaneState, LaneObj, Objs

\* retireIdleScopedLane drops a lane from the registry or leaves it.
LEMMA RetireType ==
    ASSUME TypeOK, NEW o \in Objs, NEW q, NEW a, NEW d
    PROVE  Retire(o, q, a, d) \in [Lanes -> 0 .. MaxIncarnations]
BY BoundAssumption DEF TypeOK, Retire, Objs

\* clearLaneCapacityGroup keeps both group maps typed.
LEMMA AfterClearType ==
    ASSUME TypeOK, NEW c \in PublishConfigs
    PROVE  /\ AfterClear(c)[1] \in [GroupIds -> GroupStates]
           /\ AfterClear(c)[2] \in [Lanes -> GroupIds \cup {NoGroup}]
<1>1. NoGroupState \in GroupStates
  BY BoundAssumption DEF NoGroupState, GroupStates
<1> QED
  BY <1>1 DEF TypeOK, AfterClear

\* setLaneCapacityGroup, stealing members from other groups, keeps both group
\* maps typed.
LEMMA AfterInstallType ==
    ASSUME TypeOK, NEW c \in PublishConfigs, c.group # NoGroup, installs < MaxInstalls
    PROVE  /\ AfterInstall(c)[1] \in [GroupIds -> GroupStates]
           /\ AfterInstall(c)[2] \in [Lanes -> GroupIds \cup {NoGroup}]
<1> DEFINE gs == AfterClear(c)[1]
           by == AfterClear(c)[2]
           next == [ver |-> installs + 1, budget |-> c.budget,
                    members |-> c.members, reservations |-> c.reservations]
<1>1. gs \in [GroupIds -> GroupStates] /\ by \in [Lanes -> GroupIds \cup {NoGroup}]
  BY AfterClearType
<1>2. ConfigOK(c)
  BY ConfigAssumption
<1>3. next \in GroupStates
  BY <1>2, BoundAssumption DEF ConfigOK, GroupStates, TypeOK
<1> HIDE DEF gs, by, next
<1>4. \A g \in GroupIds, S \in SUBSET Lanes : [gs[g] EXCEPT !.members = @ \ S] \in GroupStates
  BY <1>1 DEF GroupStates
<1>5. \A g \in GroupIds : {l \in c.members : by[l] = g} \in SUBSET Lanes
  BY <1>2 DEF ConfigOK
<1>6. AfterInstall(c)[1] =
        [g \in GroupIds |-> IF g = c.group THEN next
            ELSE [gs[g] EXCEPT !.members = @ \ {l \in c.members : by[l] = g}]]
  BY DEF AfterInstall, gs, by, next
<1>7. AfterInstall(c)[2] =
        [l \in Lanes |-> IF l \in c.members THEN c.group
                         ELSE IF l \in gs[c.group].members THEN NoGroup ELSE by[l]]
  BY DEF AfterInstall, gs, by
<1>8. c.group \in GroupIds
  BY <1>2 DEF ConfigOK
<1>9. AfterInstall(c)[1] \in [GroupIds -> GroupStates]
  <2> DEFINE left(g) == [gs[g] EXCEPT !.members = @ \ {l \in c.members : by[l] = g}]
  <2>1. \A g \in GroupIds : left(g) \in GroupStates
    BY <1>4, <1>5
  <2>2. AfterInstall(c)[1] = [g \in GroupIds |-> IF g = c.group THEN next ELSE left(g)]
    BY <1>6
  <2> HIDE DEF left
  <2> QED
    BY <1>3, <2>1, <2>2
<1> QED
  BY <1>1, <1>7, <1>8, <1>9

\* One step of the innermost pump: dequeue, callback, start, hand over or return.
LEMMA TypePump ==
    ASSUME TypeOK, Pump
    PROVE  TypeOK'
<1> USE DEF config, registry
<1>0. stack \in Seq(Frames)
  BY DEF TypeOK
<1>1. ASSUME StartTask PROVE TypeOK'
  <2>1. stack # <<>> /\ Top \in LaneFrames
    BY <1>1, <1>0, LaneTop DEF StartTask, Pumping
  <2>2. Top.obj \in Objs
    BY <2>1 DEF LaneFrames
  <2>3. PICK e \in queue[Top.obj] :
          /\ queue' = [queue EXCEPT ![Top.obj] = @ \ {e}]
          /\ activeTaskIds' = [activeTaskIds EXCEPT ![Top.obj] = @ \cup {e}]
          /\ entry' = [entry EXCEPT ![e].status = "started",
                                    ![e].generation = generation[Top.obj]]
    BY <1>1 DEF StartTask
  <2>4. e \in Entries
    BY <2>2, <2>3 DEF TypeOK
  <2>5. ASSUME NEW calls \in {0, MaxCalls}
        PROVE  [Top EXCEPT !.started = TRUE, !.calls = calls] \in Frames
    <3> DEFINE f == [Top EXCEPT !.started = TRUE]
    <3>1. f \in LaneFrames
      BY <2>1 DEF LaneFrames
    <3>2. [f EXCEPT !.calls = calls] \in LaneFrames
      <4> HIDE DEF f
      <4> QED
        BY <3>1, BoundAssumption DEF LaneFrames
    <3>3. [Top EXCEPT !.started = TRUE, !.calls = calls] = [f EXCEPT !.calls = calls]
      BY Zenon
    <3> QED
      BY <3>2, <3>3 DEF Frames
  <2>6. stack' \in Seq(Frames)
    <3>1. PICK calls \in {0, MaxCalls} :
             stack' = Push([Top EXCEPT !.started = TRUE, !.calls = calls], Tail(stack))
      BY <1>1 DEF StartTask
    <3> QED
      BY <1>0, <2>1, <2>5, <3>1, PushType, TopType
  <2>7. generation[Top.obj] \in 0 .. MaxGeneration
    BY <2>2 DEF TypeOK
  <2>8. entry' \in [Entries -> EntryStates]
    BY <2>3, <2>4, <2>7 DEF TypeOK, EntryStates, Statuses
  <2>9. queue' \in [Objs -> SUBSET Entries] /\ activeTaskIds' \in [Objs -> SUBSET Entries]
    BY <2>2, <2>3, <2>4 DEF TypeOK
  <2> QED
    BY <1>1, <2>6, <2>8, <2>9 DEF StartTask, TypeOK
<1>2. ASSUME CallbackReturns PROVE TypeOK'
  <2>1. stack # <<>> /\ Top \in LaneFrames
    BY <1>2, <1>0, LaneTop DEF CallbackReturns, InCallback
  <2>2. [Top EXCEPT !.calls = 0] \in Frames
    BY <2>1, BoundAssumption DEF LaneFrames, Frames
  <2>3. stack' \in Seq(Frames)
    BY <1>0, <1>2, <2>1, <2>2, PushType, TopType DEF CallbackReturns
  <2> QED
    BY <1>2, <2>3 DEF CallbackReturns, TypeOK
<1>3. ASSUME DrainLaneReturns PROVE TypeOK'
  <2>1. stack # <<>> /\ Top \in LaneFrames
    BY <1>3, <1>0, LaneTop DEF DrainLaneReturns, Pumping
  <2>2. Top.obj \in Objs
    BY <2>1 DEF LaneFrames
  <2>3. stack' \in Seq(Frames)
    BY <1>0, <1>3, <2>1, TopType DEF DrainLaneReturns, ReturnTo
  <2>4. draining' \in [Objs -> BOOLEAN]
    BY <1>3, <2>2, Zenon DEF DrainLaneReturns, TypeOK
  <2>5. lanes' \in [Lanes -> 0 .. MaxIncarnations]
    BY <1>3, <2>2, RetireType DEF DrainLaneReturns
  <2> QED
    BY <1>3, <2>3, <2>4, <2>5 DEF DrainLaneReturns, TypeOK
<1>4. ASSUME DrainGroupStep PROVE TypeOK'
  <2>1. stack # <<>> /\ Top \in GroupFrames
    BY <1>4, <1>0, GroupTop DEF DrainGroupStep, Pumping
  <2>2. stack' \in Seq(Frames) /\ draining' \in [Objs -> BOOLEAN]
    <3>1. CASE groups[Top.group].ver = Top.ver /\ Candidates(Top.group) # {}
      <4>1. PICK l \in Selected(Top.group) : DrainLane(LaneObj(l), TRUE, stack, draining)
        BY <1>4, <3>1 DEF DrainGroupStep
      <4>2. l \in Lanes /\ lanes[l] # 0
        BY <2>1 DEF Selected, Candidates, GroupFrames, TypeOK, GroupStates
      <4> QED
        BY <1>0, <4>1, <4>2, LaneObjType, DrainLaneType DEF TypeOK
    <3>2. CASE ~(groups[Top.group].ver = Top.ver /\ Candidates(Top.group) # {})
      BY <1>0, <1>4, <2>1, <3>2, TopType DEF DrainGroupStep, TypeOK
    <3> QED
      BY <3>1, <3>2
  <2> QED
    BY <1>4, <2>2 DEF DrainGroupStep, TypeOK
<1>5. ASSUME DrainEachStep PROVE TypeOK'
  <2>1. stack # <<>> /\ Top \in LoopFrames
    BY <1>5, <1>0, LoopTop DEF DrainEachStep, Pumping
  <2>2. stack' \in Seq(Frames) /\ draining' \in [Objs -> BOOLEAN]
    <3>1. CASE stack' = Tail(stack) /\ UNCHANGED draining
      BY <1>0, <2>1, <3>1, TopType DEF TypeOK
    <3>2. ASSUME NEW l \in Top.todo,
                 \/ /\ stack' = Push([Top EXCEPT !.todo = @ \ {l}], Tail(stack))
                    /\ UNCHANGED draining
                 \/ /\ lanes[l] # 0
                    /\ DrainReady(LaneObj(l), Push([Top EXCEPT !.todo = @ \ {l}], Tail(stack)),
                                  draining)
          PROVE  stack' \in Seq(Frames) /\ draining' \in [Objs -> BOOLEAN]
      <4>1. [Top EXCEPT !.todo = @ \ {l}] \in Frames
        BY <2>1 DEF LoopFrames, Frames
      <4>2. Push([Top EXCEPT !.todo = @ \ {l}], Tail(stack)) \in Seq(Frames)
        BY <1>0, <2>1, <4>1, PushType, TopType
      <4>3. l \in Lanes
        BY <2>1 DEF LoopFrames
      <4> QED
        BY <3>2, <4>2, <4>3, LaneObjType, DrainReadyType DEF TypeOK
    <3> QED
      BY <1>5, <3>1, <3>2 DEF DrainEachStep
  <2> QED
    BY <1>5, <2>2 DEF DrainEachStep, TypeOK
<1> QED
  BY <1>1, <1>2, <1>3, <1>4, <1>5 DEF Pump

\* The exported operations on commands and lanes, called from outside or from a
\* callback.
LEMMA TypeUserCall ==
    ASSUME TypeOK, UserCall \/ \E e \in Entries : Settle(e)
    PROVE  TypeOK'
<1> USE DEF config, registry
<1>r. [Fresh EXCEPT !.status = "rejected"] \in EntryStates
      /\ [Fresh EXCEPT !.status = "settled"] \in EntryStates
  BY FreshType DEF Statuses
<1>d. draining \in [Objs -> BOOLEAN] /\ stack \in Seq(Frames)
  BY DEF TypeOK
<1>1. ASSUME NEW e \in Entries, NEW l \in Lanes, NEW p \in Priorities, Enqueue(e, l, p)
      PROVE  TypeOK'
  <2>1. /\ lanes' \in [Lanes -> 0 .. MaxIncarnations]
        /\ created' \in [Lanes -> 0 .. MaxIncarnations]
        /\ LaneObj(l) \in Objs
    BY <1>1, GetLaneStateType DEF Enqueue
  <2>2. stack' \in Seq(Frames) /\ draining' \in [Objs -> BOOLEAN]
    BY <1>1, <1>d, <2>1, CallerType, DrainReadyType DEF Enqueue
  <2>3. [status |-> "queued", owner |-> LaneObj(l), priority |-> p,
         sequence |-> nextSequence, generation |-> 0] \in EntryStates
    BY <2>1, ConfigAssumption, BoundAssumption DEF EntryStates, Statuses, TypeOK
  <2>4. entry' \in [Entries -> EntryStates] /\ nextSequence' \in Nat
    BY <1>1, <2>3 DEF Enqueue, TypeOK
  <2>5. queue' \in [Objs -> SUBSET Entries]
    BY <1>1, <2>1 DEF Enqueue, TypeOK
  <2> QED
    BY <1>1, <2>1, <2>2, <2>4, <2>5 DEF Enqueue, TypeOK
<1>2. ASSUME NEW e \in Entries, NEW aborted \in BOOLEAN, Refuse(e, aborted)
      PROVE  TypeOK'
  <2>1. stack' \in Seq(Frames)
    BY <1>2, CallerType DEF Refuse
  <2>2. entry' \in [Entries -> EntryStates]
    BY <1>2, <1>r DEF Refuse, TypeOK
  <2> QED
    BY <1>2, <2>1, <2>2 DEF Refuse, TypeOK
<1>3. ASSUME NEW e \in Entries, Abort(e)
      PROVE  TypeOK'
  <2>1. stack' \in Seq(Frames)
    BY <1>3, CallerType DEF Abort
  <2>2. entry' \in [Entries -> EntryStates]
    BY <1>3, <1>r DEF Abort, TypeOK
  <2>3. entry[e].owner \in Objs
    BY DEF TypeOK, EntryStates
  <2>4. lanes' \in [Lanes -> 0 .. MaxIncarnations] /\ queue' \in [Objs -> SUBSET Entries]
    BY <1>3, <2>3, RetireType DEF Abort, TypeOK
  <2> QED
    BY <1>3, <2>1, <2>2, <2>4 DEF Abort, TypeOK
<1>4. ASSUME NEW l \in Lanes, ClearLane(l)
      PROVE  TypeOK'
  <2>1. stack' \in Seq(Frames)
    BY <1>4, CallerType DEF ClearLane
  <2>2. entry' \in [Entries -> EntryStates]
    BY <1>4, <1>r DEF ClearLane, TypeOK
  <2>3. queue' \in [Objs -> SUBSET Entries]
    BY <1>4, LaneObjType DEF ClearLane, TypeOK
  <2> QED
    BY <1>4, <2>1, <2>2, <2>3 DEF ClearLane, TypeOK
<1>5. ASSUME NEW e \in Entries, Settle(e)
      PROVE  TypeOK'
  <2>1. entry[e].owner \in Objs
    BY DEF TypeOK, EntryStates
  <2>2. entry' \in [Entries -> EntryStates]
    BY <1>5, <1>r DEF Settle, TypeOK
  <2>3. /\ activeTaskIds' \in [Objs -> SUBSET Entries]
        /\ stack' \in Seq(Frames)
        /\ draining' \in [Objs -> BOOLEAN]
    <3>1. CASE entry[e].generation = generation[entry[e].owner]
      <4>1. DrainReady(entry[e].owner, stack, draining)
        BY <1>5, <3>1 DEF Settle
      <4>2. activeTaskIds' = [activeTaskIds EXCEPT ![entry[e].owner] = @ \ {e}]
        BY <1>5, <3>1 DEF Settle
      <4>3. activeTaskIds' \in [Objs -> SUBSET Entries]
        BY <2>1, <4>2 DEF TypeOK
      <4> QED
        BY <1>d, <2>1, <4>1, <4>3, DrainReadyType
    <3>2. CASE entry[e].generation # generation[entry[e].owner]
      BY <1>5, <1>d, <3>2 DEF Settle, TypeOK
    <3> QED
      BY <3>1, <3>2
  <2> QED
    BY <1>5, <2>2, <2>3 DEF Settle, TypeOK
<1> QED
  BY <1>1, <1>2, <1>3, <1>4, <1>5 DEF UserCall

\* The exported operations that publish widths and capacity groups.
LEMMA TypeConfigure ==
    ASSUME TypeOK, Configure
    PROVE  TypeOK'
<1> USE DEF config, registry
<1>d. draining \in [Objs -> BOOLEAN] /\ stack \in Seq(Frames)
  BY DEF TypeOK
<1>1. ASSUME NEW l \in Lanes, NEW n \in Widths, SetConcurrency(l, n)
      PROVE  TypeOK'
  <2>1. /\ lanes' \in [Lanes -> 0 .. MaxIncarnations]
        /\ created' \in [Lanes -> 0 .. MaxIncarnations]
        /\ LaneObj(l) \in Objs
    BY <1>1, GetLaneStateType DEF SetConcurrency
  <2>2. stack' \in Seq(Frames) /\ draining' \in [Objs -> BOOLEAN]
    BY <1>1, <1>d, <2>1, CallerType, DrainReadyType DEF SetConcurrency
  <2>3. Clamp(l, n) \in Nat
    BY ConfigAssumption DEF Clamp
  <2>4. maxConcurrent' \in [Objs -> Nat]
    BY <1>1, <2>1, <2>3 DEF SetConcurrency, TypeOK
  <2> QED
    BY <1>1, <2>1, <2>2, <2>4 DEF SetConcurrency, TypeOK
<1>2. ASSUME NEW c \in PublishConfigs, Publish(c)
      PROVE  TypeOK'
  <2>0. ConfigOK(c)
    BY ConfigAssumption
  <2>1. groups' \in [GroupIds -> GroupStates] /\ groupByLane' \in [Lanes -> GroupIds \cup {NoGroup}]
    BY <1>2, AfterClearType, AfterInstallType DEF Publish
  <2>2. installs' \in 0 .. MaxInstalls
    BY <1>2, BoundAssumption DEF Publish, TypeOK
  <2>3. /\ lanes' \in [Lanes -> 0 .. MaxIncarnations]
        /\ created' \in [Lanes -> 0 .. MaxIncarnations]
    <3>1. \A l \in c.lanes : LaneObj(l)[2] \in 0 .. MaxIncarnations
      BY <1>2, BoundAssumption DEF Publish, Objs
    <3>2. \A l \in c.lanes : lanes[l] = 0 => LaneObj(l)[2] = created[l] + 1
      BY DEF LaneObj
    <3>3. \A l \in Lanes : lanes'[l] \in 0 .. MaxIncarnations
      BY <1>2, <3>1 DEF Publish, TypeOK
    <3>4. \A l \in Lanes : created'[l] \in 0 .. MaxIncarnations
      BY <1>2, <3>1, <3>2 DEF Publish, TypeOK
    <3> QED
      BY <1>2, <3>3, <3>4 DEF Publish
  <2>4. maxConcurrent' \in [Objs -> Nat]
    <3>1. \A o \in Objs : o[1] \in Lanes
      BY DEF Objs
    <3>2. \A l \in Lanes : Clamp(l, c.width[l]) \in Nat
      BY <2>0 DEF ConfigOK, Clamp
    <3> QED
      BY <1>2, <3>1, <3>2 DEF Publish, TypeOK
  <2>5. stack' \in Seq(Frames)
    <3>1. Touched(c) \in SUBSET Lanes
      <4> DEFINE gs == AfterClear(c)[1]
                 by == AfterClear(c)[2]
                 owners == {c.group} \cup {by[l] : l \in c.members}
                 cleared == UNION {groups[g].members : g \in c.clear}
                 left == UNION {gs[g].members : g \in owners \ {NoGroup}}
      <4>1. gs \in [GroupIds -> GroupStates] /\ by \in [Lanes -> GroupIds \cup {NoGroup}]
        BY AfterClearType
      <4>2. \A g \in GroupIds : groups[g].members \subseteq Lanes /\ gs[g].members \subseteq Lanes
        BY <4>1 DEF TypeOK, GroupStates
      <4>3. owners \ {NoGroup} \subseteq GroupIds
        BY <2>0, <4>1 DEF ConfigOK
      <4>4. cleared \subseteq Lanes
        BY <2>0, <4>2 DEF ConfigOK
      <4>5. left \subseteq Lanes
        BY <4>2, <4>3
      <4>6. Touched(c) = c.lanes \cup cleared
                         \cup (IF c.group = NoGroup THEN {} ELSE c.members \cup left)
        BY DEF Touched
      <4> HIDE DEF cleared, left
      <4> QED
        BY <2>0, <4>4, <4>5, <4>6 DEF ConfigOK
    <3>2. LoopFrame(Touched(c), TRUE) \in Frames
      BY <3>1 DEF LoopFrame, LoopFrames, Frames
    <3> QED
      BY <1>2, <3>2, CallerType, PushType DEF Publish
  <2> QED
    BY <1>2, <2>1, <2>2, <2>3, <2>4, <2>5 DEF Publish, TypeOK
<1> QED
  BY <1>1, <1>2 DEF Configure

\* Completions, timeouts and resets.
LEMMA TypeRecover ==
    ASSUME TypeOK, Recover
    PROVE  TypeOK'
<1> USE DEF config, registry
<1>1. ASSUME NEW l \in Lanes, ResetLane(l)
      PROVE  TypeOK'
  <2>1. LaneObj(l) \in Objs
    BY <1>1, LaneObjType DEF ResetLane
  <2>2. [draining EXCEPT ![LaneObj(l)] = FALSE] \in [Objs -> BOOLEAN]
    BY Zenon DEF TypeOK
  <2>3. stack' \in Seq(Frames) /\ draining' \in [Objs -> BOOLEAN]
    BY <1>1, <2>1, <2>2, CallerType, DrainReadyType DEF ResetLane
  <2>4. generation' \in [Objs -> 0 .. MaxGeneration] /\ activeTaskIds' \in [Objs -> SUBSET Entries]
    BY <1>1, <2>1, BoundAssumption DEF ResetLane, TypeOK
  <2> QED
    BY <1>1, <2>3, <2>4 DEF ResetLane, TypeOK
<1>2. ASSUME ResetAllLanes
      PROVE  TypeOK'
  <2>1. \A o \in Objs : Registered(o) => o[1] \in Lanes /\ lanes[o[1]] # 0 /\ o = LaneObj(o[1])
    BY DEF Objs, Registered, LaneObj, TypeOK
  <2>2. generation' \in [Objs -> 0 .. MaxGeneration]
    <3>1. \A o \in Objs : Registered(o) => generation[o] < MaxGeneration
      BY <1>2, <2>1 DEF ResetAllLanes
    <3>2. \A o \in Objs : generation[o] \in 0 .. MaxGeneration
      BY DEF TypeOK
    <3>3. \A o \in Objs : (IF Registered(o) THEN generation[o] + 1 ELSE generation[o])
                              \in 0 .. MaxGeneration
      BY <3>1, <3>2, BoundAssumption
    <3> QED
      BY <1>2, <3>3 DEF ResetAllLanes
  <2>a. activeTaskIds' \in [Objs -> SUBSET Entries]
    BY <1>2 DEF ResetAllLanes, TypeOK
  <2>3. draining' \in [Objs -> BOOLEAN]
    BY <1>2, Zenon DEF ResetAllLanes, TypeOK
  <2>4. stack' \in Seq(Frames)
    <3>1. LoopFrame({l \in Lanes : lanes[l] # 0 /\ queue[LaneObj(l)] # {}}, FALSE) \in Frames
      BY DEF LoopFrame, LoopFrames, Frames
    <3> QED
      BY <1>2, <3>1, CallerType, PushType DEF ResetAllLanes
  <2> QED
    BY <1>2, <2>2, <2>3, <2>4, <2>a DEF ResetAllLanes, TypeOK
<1>3. ASSUME MarkGatewayDraining
      PROVE  TypeOK'
  BY <1>3, CallerType DEF MarkGatewayDraining, TypeOK
<1> QED
  BY <1>1, <1>2, <1>3 DEF Recover

\* Every reachable state is well typed: the stack holds frames of the three
\* kinds of calls, and no counter or generation leaves its range.
THEOREM Typing == Spec => []TypeOK
<1>1. TypeOK /\ [Next]_vars => TypeOK'
  <2> SUFFICES ASSUME TypeOK, [Next]_vars PROVE TypeOK'
    OBVIOUS
  <2>1. CASE UNCHANGED vars
    BY <2>1 DEF vars, TypeOK
  <2> QED
    BY <2>1, TypePump, TypeUserCall, TypeConfigure, TypeRecover DEF Next
<1> QED
  BY <1>1, TypeInit, PTL DEF Spec
=============================================================================
