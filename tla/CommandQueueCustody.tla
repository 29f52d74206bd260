------------------------ MODULE CommandQueueCustody ------------------------
(* Custody of the entries, agreement of the group maps and what rests on them, *)
(* for every value of the constants of CommandQueue: the slots a group keeps   *)
(* reserved, one live run per scoped lane, no queued entry left without a pump *)
(* that will look at it, idle scoped lanes that leave the registry, and the    *)
(* order of starts in a group.                                                 *)
EXTENDS CommandQueueProofs

CustodyInv == Custody /\ GenerationsPast

\* The empty queue has nothing to lose.
LEMMA CustodyInit == Init => CustodyInv
<1> SUFFICES ASSUME Init PROVE CustodyInv
  OBVIOUS
<1>1. \A e \in Entries : entry[e].status = "new"
  BY DEF Init, Fresh
<1> QED
  BY <1>1 DEF Init, CustodyInv, Custody, GenerationsPast

\* What Custody says of one object.
Holds(o) ==
    /\ queue[o] = {e \in Entries : entry[e].status = "queued" /\ entry[e].owner = o}
    /\ activeTaskIds[o] = {e \in Entries : /\ entry[e].status = "started"
                                           /\ entry[e].owner = o
                                           /\ entry[e].generation = generation[o]}
    /\ queue[o] \cup activeTaskIds[o] # {} => Registered(o)

\* Custody, object by object.
LEMMA CustodyHolds == Custody <=> \A o \in Objs : Holds(o)
BY DEF Custody, Holds

\* Entries, queues, active sets and generations are untouched, and a lane gives
\* up its registered object only if that one holds nothing.
LEMMA CustodyRegistry ==
    ASSUME TypeOK, CustodyInv, UNCHANGED <<queue, activeTaskIds, generation, entry>>,
           \A l \in Lanes : \/ lanes'[l] = lanes[l]
                            \/ lanes[l] = 0
                            \/ LET o == <<l, lanes[l]>> IN queue[o] \cup activeTaskIds[o] = {}
    PROVE  CustodyInv'
<1>1. ASSUME NEW o \in Objs, queue[o] \cup activeTaskIds[o] # {}
      PROVE  lanes'[o[1]] = o[2]
  <2>1. o[1] \in Lanes /\ o[2] \in 1 .. MaxIncarnations /\ o = <<o[1], o[2]>>
    BY DEF Objs
  <2>2. lanes[o[1]] = o[2]
    BY <1>1 DEF CustodyInv, Custody, Registered
  <2> QED
    BY <1>1, <2>1, <2>2
<1>2. GenerationsPast'
  BY DEF CustodyInv, GenerationsPast
<1>3. Custody'
  BY <1>1 DEF CustodyInv, Custody, Registered
<1> QED
  BY <1>2, <1>3 DEF CustodyInv

\* The pump moves an entry from its queue to a slot in one turn, before it calls
\* back.
LEMMA CustodyPump ==
    ASSUME TypeOK, CustodyInv, Pump
    PROVE  CustodyInv'
<1> USE DEF config, registry
<1>0. stack \in Seq(Frames)
  BY DEF TypeOK
<1>1. ASSUME StartTask PROVE CustodyInv'
  <2>1. Top.obj \in Objs
    BY <1>1, <1>0, LaneTop DEF StartTask, Pumping, LaneFrames
  <2> DEFINE o == Top.obj
  <2>2. PICK e \in queue[o] :
          /\ queue' = [queue EXCEPT ![o] = @ \ {e}]
          /\ activeTaskIds' = [activeTaskIds EXCEPT ![o] = @ \cup {e}]
          /\ entry' = [entry EXCEPT ![e].status = "started",
                                    ![e].generation = generation[o]]
    BY <1>1 DEF StartTask
  <2>3. o \in Objs /\ e \in Entries /\ entry[e].status = "queued" /\ entry[e].owner = o
    BY <2>1, <2>2 DEF CustodyInv, Custody
  <2>4. generation' = generation /\ lanes' = lanes
    BY <1>1 DEF StartTask
  <2> HIDE DEF o
  <2>5. /\ entry'[e].status = "started"
        /\ entry'[e].owner = o
        /\ entry'[e].generation = generation[o]
    BY <2>2, <2>3 DEF TypeOK, EntryStates
  <2>6. \A f \in Entries \ {e} : entry'[f] = entry[f]
    BY <2>2, <2>3 DEF TypeOK
  <2>7. GenerationsPast'
    <3>1. generation[o] \in Int
      BY <2>3 DEF TypeOK
    <3>2. entry'[e].generation <= generation'[entry'[e].owner]
      BY <2>4, <2>5, <3>1
    <3> QED
      BY <2>4, <2>6, <3>2 DEF CustodyInv, GenerationsPast
  <2>8. ASSUME NEW p \in Objs PROVE Holds(p)'
    <3>1. Holds(p)
      BY CustodyHolds DEF CustodyInv
    <3>2. queue'[p] = queue[p] \ {e} /\ (p # o => queue'[p] = queue[p])
      BY <2>2, <2>3, <3>1 DEF TypeOK, Holds
    <3>3. activeTaskIds'[p] = IF p = o THEN activeTaskIds[p] \cup {e} ELSE activeTaskIds[p]
      BY <2>2, <2>3 DEF TypeOK
    <3>4. o[1] \in Lanes /\ Holds(o)
      BY <2>3, CustodyHolds DEF Objs, CustodyInv
    <3>5. queue'[p] = {f \in Entries : entry'[f].status = "queued" /\ entry'[f].owner = p}
      BY <2>3, <2>5, <2>6, <3>1, <3>2 DEF Holds
    <3>6. activeTaskIds'[p] = {f \in Entries : /\ entry'[f].status = "started"
                                               /\ entry'[f].owner = p
                                               /\ entry'[f].generation = generation'[p]}
      BY <2>3, <2>4, <2>5, <2>6, <3>1, <3>3 DEF Holds
    <3>7. queue'[p] \cup activeTaskIds'[p] # {} => lanes'[p[1]] = p[2]
      BY <2>2, <2>4, <3>1, <3>2, <3>3, <3>4 DEF Holds, Registered
    <3> QED
      BY <3>5, <3>6, <3>7 DEF Holds, Registered
  <2> QED
    BY <2>7, <2>8 DEF CustodyInv, Custody, Holds
<1>2. ASSUME CallbackReturns \/ DrainGroupStep \/ DrainEachStep PROVE CustodyInv'
  BY <1>2, CustodyRegistry DEF CallbackReturns, DrainGroupStep, DrainEachStep
<1>3. ASSUME DrainLaneReturns PROVE CustodyInv'
  <2>1. Top.obj \in Objs
    BY <1>3, <1>0, LaneTop DEF DrainLaneReturns, Pumping, LaneFrames
  <2>2. \A l \in Lanes : \/ lanes'[l] = lanes[l]
                         \/ lanes[l] = 0
                         \/ queue[<<l, lanes[l]>>] \cup activeTaskIds[<<l, lanes[l]>>] = {}
    <3> DEFINE o == Top.obj
    <3>1. o = <<o[1], o[2]>> /\ o[1] \in Lanes
      BY <2>1 DEF Objs
    <3>2. lanes' = Retire(o, queue[o], activeTaskIds[o], FALSE)
      BY <1>3 DEF DrainLaneReturns
    <3> HIDE DEF o
    <3>3. CASE lanes' = lanes
      BY <3>3
    <3>4. CASE /\ queue[o] = {} /\ activeTaskIds[o] = {}
               /\ lanes[o[1]] = o[2]
               /\ lanes' = [lanes EXCEPT ![o[1]] = 0]
      BY <3>1, <3>4 DEF TypeOK
    <3> QED
      BY <3>2, <3>3, <3>4 DEF Retire, Registered
  <2> QED
    BY <1>3, <2>2, CustodyRegistry DEF DrainLaneReturns
<1> QED
  BY <1>1, <1>2, <1>3 DEF Pump

\* An entry that was never enqueued is in no queue and no slot.
LEMMA FreshStatus ==
    ASSUME NEW s \in Statuses
    PROVE  [Fresh EXCEPT !.status = s].status = s
BY DEF Fresh

\* Entries of a set gone are given up wherever they waited or ran; generations
\* stay, and a lane may retire an object that holds nothing afterwards.
LEMMA CustodyGone ==
    ASSUME TypeOK, CustodyInv, NEW gone \in SUBSET Entries,
           generation' = generation,
           entry' \in [Entries -> EntryStates],
           \A e \in gone : entry'[e].status \in {"settled", "rejected"},
           \A e \in Entries \ gone : entry'[e] = entry[e],
           \A o \in Objs : queue'[o] = queue[o] \ gone,
           \A o \in Objs : activeTaskIds'[o] = activeTaskIds[o] \ gone,
           \A l \in Lanes : \/ lanes'[l] = lanes[l]
                            \/ lanes[l] = 0
                            \/ LET o == <<l, lanes[l]>> IN queue'[o] \cup activeTaskIds'[o] = {}
    PROVE  CustodyInv'
<1>1. GenerationsPast'
  BY DEF CustodyInv, GenerationsPast
<1>2. ASSUME NEW o \in Objs PROVE Holds(o)'
  <2>1. Holds(o)
    BY CustodyHolds DEF CustodyInv
  <2>2. queue'[o] = {e \in Entries : entry'[e].status = "queued" /\ entry'[e].owner = o}
    BY <2>1 DEF Holds
  <2>3. activeTaskIds'[o] = {e \in Entries : /\ entry'[e].status = "started"
                                             /\ entry'[e].owner = o
                                             /\ entry'[e].generation = generation'[o]}
    BY <2>1 DEF Holds
  <2>4. queue'[o] \cup activeTaskIds'[o] # {} => lanes'[o[1]] = o[2]
    <3>1. o[1] \in Lanes /\ o[2] \in 1 .. MaxIncarnations /\ o = <<o[1], o[2]>>
      BY DEF Objs
    <3> QED
      BY <2>1, <3>1 DEF Holds, Registered
  <2> QED
    BY <2>2, <2>3, <2>4 DEF Holds, Registered
<1> QED
  BY <1>1, <1>2 DEF CustodyInv, Custody, Holds

\* Enqueueing, aborting and clearing place or remove an entry once, and retire the
\* lane only when nothing is left in it.
LEMMA CustodyUserCall ==
    ASSUME TypeOK, CustodyInv, UserCall \/ \E e \in Entries : Settle(e), TypeOK'
    PROVE  CustodyInv'
<1> USE DEF config, registry
<1>r. "rejected" \in Statuses /\ "settled" \in Statuses
  BY DEF Statuses
<1>t. entry' \in [Entries -> EntryStates]
  BY DEF TypeOK
<1>1. ASSUME NEW e \in Entries, NEW l \in Lanes, NEW p \in Priorities, Enqueue(e, l, p)
      PROVE  CustodyInv'
  <2> DEFINE o == LaneObj(l)
  <2>1. /\ o \in Objs /\ o[1] = l
        /\ queue' = [queue EXCEPT ![o] = @ \cup {e}]
        /\ entry[e].status = "new"
        /\ entry'[e].status = "queued" /\ entry'[e].owner = o
        /\ lanes' = [lanes EXCEPT ![l] = o[2]]
        /\ lanes[l] # 0 => lanes[l] = o[2]
    BY <1>1 DEF Enqueue, GetLaneState, LaneObj, TypeOK
  <2>2. UNCHANGED <<activeTaskIds, generation>> /\ \A f \in Entries \ {e} : entry'[f] = entry[f]
    BY <1>1 DEF Enqueue, TypeOK
  <2> HIDE DEF o
  <2>3. GenerationsPast'
    BY <2>1, <2>2 DEF CustodyInv, GenerationsPast
  <2>4. ASSUME NEW q \in Objs PROVE Holds(q)'
    <3>1. Holds(q)
      BY CustodyHolds DEF CustodyInv
    <3>2. queue'[q] = IF q = o THEN queue[q] \cup {e} ELSE queue[q]
      BY <2>1 DEF TypeOK
    <3>3. queue'[q] = {f \in Entries : entry'[f].status = "queued" /\ entry'[f].owner = q}
      BY <2>1, <2>2, <3>1, <3>2 DEF Holds
    <3>4. activeTaskIds'[q] = {f \in Entries : /\ entry'[f].status = "started"
                                               /\ entry'[f].owner = q
                                               /\ entry'[f].generation = generation'[q]}
      BY <2>1, <2>2, <3>1 DEF Holds
    <3>5. q[1] \in Lanes /\ q[2] \in 1 .. MaxIncarnations /\ q = <<q[1], q[2]>>
      BY DEF Objs
    <3>6. ASSUME queue'[q] \cup activeTaskIds'[q] # {} PROVE lanes'[q[1]] = q[2]
      <4>1. CASE q = o
        BY <2>1, <4>1 DEF TypeOK
      <4>2. CASE q # o
        <5>1. lanes[q[1]] = q[2]
          BY <2>2, <3>1, <3>2, <3>6, <4>2 DEF Holds, Registered
        <5>2. lanes[q[1]] # 0
          BY <3>5, <5>1
        <5> QED
          BY <2>1, <3>5, <5>1, <5>2 DEF TypeOK
      <4> QED
        BY <4>1, <4>2
    <3> QED
      BY <3>3, <3>4, <3>6 DEF Holds, Registered
  <2> QED
    BY <2>3, <2>4 DEF CustodyInv, Custody, Holds
<1>2. ASSUME NEW e \in Entries, NEW aborted \in BOOLEAN, Refuse(e, aborted)
      PROVE  CustodyInv'
  <2>1. entry[e].status = "new" /\ entry'[e].status = "rejected"
    BY <1>2, <1>r, FreshStatus DEF Refuse, TypeOK
  <2>2. \A f \in Entries \ {e} : entry'[f] = entry[f]
    BY <1>2 DEF Refuse, TypeOK
  <2>3. UNCHANGED <<queue, activeTaskIds, generation, lanes>>
    BY <1>2 DEF Refuse
  <2>4. \A o \in Objs : e \notin queue[o] /\ e \notin activeTaskIds[o]
    BY <2>1 DEF CustodyInv, Custody
  <2>5. \A o \in Objs : queue'[o] = queue[o] \ {e} /\ activeTaskIds'[o] = activeTaskIds[o] \ {e}
    BY <2>3, <2>4
  <2> QED
    BY <1>t, <2>1, <2>2, <2>3, <2>5, CustodyGone
<1>3. ASSUME NEW e \in Entries, Abort(e)
      PROVE  CustodyInv'
  <2> DEFINE o == entry[e].owner
  <2>0. o \in Objs
    BY DEF TypeOK, EntryStates
  <2>1. o \in Objs /\ o[1] \in Lanes /\ o = <<o[1], o[2]>>
    BY <2>0 DEF Objs
  <2>2. entry[e].status = "queued" /\ entry'[e].status = "rejected"
    BY <1>3, <1>r, FreshStatus DEF Abort, TypeOK
  <2>3. /\ \A f \in Entries \ {e} : entry'[f] = entry[f]
        /\ generation' = generation /\ activeTaskIds' = activeTaskIds
        /\ queue' = [queue EXCEPT ![o] = @ \ {e}]
        /\ lanes' = Retire(o, queue[o] \ {e}, activeTaskIds[o], draining[o])
    BY <1>3 DEF Abort, TypeOK
  <2> HIDE DEF o
  <2>4. \A p \in Objs : e \in queue[p] => p = o
    BY DEF CustodyInv, Custody, o
  <2>5. \A p \in Objs : queue'[p] = queue[p] \ {e}
    BY <2>1, <2>3, <2>4 DEF TypeOK
  <2>6. \A p \in Objs : activeTaskIds'[p] = activeTaskIds[p] \ {e}
    BY <2>2, <2>3 DEF CustodyInv, Custody
  <2>7. \A l \in Lanes : \/ lanes'[l] = lanes[l]
                         \/ lanes[l] = 0
                         \/ queue'[<<l, lanes[l]>>] \cup activeTaskIds'[<<l, lanes[l]>>] = {}
    <3>1. CASE lanes' = lanes
      BY <3>1
    <3>2. CASE /\ queue[o] \ {e} = {} /\ activeTaskIds[o] = {}
               /\ lanes[o[1]] = o[2]
               /\ lanes' = [lanes EXCEPT ![o[1]] = 0]
      <4>1. queue'[o] = {} /\ activeTaskIds'[o] = {}
        BY <2>1, <2>3, <2>5, <3>2
      <4>2. \A l \in Lanes \ {o[1]} : lanes'[l] = lanes[l]
        BY <3>2 DEF TypeOK
      <4>3. o = <<o[1], lanes[o[1]]>>
        BY <2>1, <3>2
      <4> QED
        BY <4>1, <4>2, <4>3
    <3> QED
      BY <2>3, <3>1, <3>2 DEF Retire, Registered
  <2> QED
    BY <1>t, <2>2, <2>3, <2>5, <2>6, <2>7, CustodyGone
<1>4. ASSUME NEW l \in Lanes, ClearLane(l)
      PROVE  CustodyInv'
  <2> DEFINE o == LaneObj(l)
             gone == queue[o]
  <2>1. o \in Objs /\ gone \in SUBSET Entries
    BY <1>4, LaneObjType DEF ClearLane, TypeOK
  <2>2. /\ \A e \in gone : entry'[e].status = "rejected"
        /\ \A e \in Entries \ gone : entry'[e] = entry[e]
    BY <1>4, <1>r, <2>1, FreshStatus DEF ClearLane, TypeOK
  <2>3. /\ UNCHANGED <<activeTaskIds, generation, lanes>>
        /\ queue' = [queue EXCEPT ![o] = {}]
    BY <1>4 DEF ClearLane
  <2> HIDE DEF o
  <2>4. \A p \in Objs : queue'[p] = queue[p] \ gone
    BY <2>1, <2>3 DEF TypeOK, CustodyInv, Custody
  <2>5. \A p \in Objs : activeTaskIds'[p] = activeTaskIds[p] \ gone
    BY <2>1, <2>3 DEF CustodyInv, Custody
  <2> QED
    BY <1>t, <2>1, <2>2, <2>3, <2>4, <2>5, CustodyGone
<1>5. ASSUME NEW e \in Entries, Settle(e)
      PROVE  CustodyInv'
  <2> DEFINE o == entry[e].owner
  <2>1. o \in Objs
    BY DEF TypeOK, EntryStates
  <2>2. entry[e].status = "started" /\ entry'[e].status = "settled"
    BY <1>5, <1>r, FreshStatus DEF Settle, TypeOK
  <2>3. /\ \A f \in Entries \ {e} : entry'[f] = entry[f]
        /\ UNCHANGED <<queue, generation, lanes>>
        /\ activeTaskIds' = IF entry[e].generation = generation[o]
                            THEN [activeTaskIds EXCEPT ![o] = @ \ {e}] ELSE activeTaskIds
    BY <1>5 DEF Settle, TypeOK
  <2>4. \A p \in Objs : e \in activeTaskIds[p] => p = o /\ entry[e].generation = generation[o]
    BY DEF CustodyInv, Custody
  <2> HIDE DEF o
  <2>5. \A p \in Objs : activeTaskIds'[p] = activeTaskIds[p] \ {e}
    BY <2>1, <2>3, <2>4 DEF TypeOK
  <2>6. \A p \in Objs : queue'[p] = queue[p] \ {e}
    BY <2>2, <2>3 DEF CustodyInv, Custody
  <2> QED
    BY <1>t, <2>2, <2>3, <2>5, <2>6, CustodyGone
<1> QED
  BY <1>1, <1>2, <1>3, <1>4, <1>5 DEF UserCall

\* Publishing widths and groups moves no entry.
LEMMA CustodyConfigure ==
    ASSUME TypeOK, CustodyInv, Configure
    PROVE  CustodyInv'
<1> USE DEF config, registry
<1>1. ASSUME NEW l \in Lanes, NEW n \in Widths, SetConcurrency(l, n) PROVE CustodyInv'
  <2>1. \A m \in Lanes : lanes'[m] = lanes[m] \/ lanes[m] = 0
    BY <1>1 DEF SetConcurrency, GetLaneState, LaneObj, TypeOK
  <2>2. UNCHANGED <<queue, activeTaskIds, generation, entry>>
    BY <1>1 DEF SetConcurrency
  <2> QED
    BY <2>1, <2>2, CustodyRegistry
<1>2. ASSUME NEW c \in PublishConfigs, Publish(c) PROVE CustodyInv'
  <2>1. \A m \in Lanes : lanes'[m] = lanes[m] \/ lanes[m] = 0
    BY <1>2 DEF Publish, LaneObj, TypeOK
  <2>2. UNCHANGED <<queue, activeTaskIds, generation, entry>>
    BY <1>2 DEF Publish
  <2> QED
    BY <2>1, <2>2, CustodyRegistry
<1> QED
  BY <1>1, <1>2 DEF Configure

\* The objects of a set are reset: they forget their tasks and move on to a
\* generation that no started entry has reached.
LEMMA CustodyReset ==
    ASSUME TypeOK, CustodyInv, NEW R \in SUBSET Objs,
           UNCHANGED <<queue, entry, lanes>>,
           \A o \in R : generation'[o] = generation[o] + 1 /\ activeTaskIds'[o] = {},
           \A o \in Objs \ R : generation'[o] = generation[o]
                               /\ activeTaskIds'[o] = activeTaskIds[o]
    PROVE  CustodyInv'
<1>1. ASSUME NEW e \in Entries, entry[e].status = "started"
      PROVE  /\ entry[e].generation <= generation'[entry[e].owner]
             /\ entry[e].owner \in R => entry[e].generation # generation'[entry[e].owner]
  <2>1. entry[e].owner \in Objs /\ entry[e].generation \in Int /\ generation[entry[e].owner] \in Int
    BY DEF TypeOK, EntryStates
  <2>2. entry[e].generation <= generation[entry[e].owner]
    BY <1>1 DEF CustodyInv, GenerationsPast
  <2> QED
    BY <2>1, <2>2
<1>2. GenerationsPast'
  BY <1>1 DEF GenerationsPast
<1>3. ASSUME NEW o \in Objs PROVE Holds(o)'
  <2>1. Holds(o)
    BY CustodyHolds DEF CustodyInv
  <2>2. activeTaskIds'[o] = {e \in Entries : /\ entry'[e].status = "started"
                                             /\ entry'[e].owner = o
                                             /\ entry'[e].generation = generation'[o]}
    BY <1>1, <2>1 DEF Holds
  <2>3. queue'[o] \cup activeTaskIds'[o] # {} => Registered(o)'
    BY <2>1 DEF Holds, Registered
  <2> QED
    BY <2>1, <2>2, <2>3 DEF Holds
<1> QED
  BY <1>2, <1>3 DEF CustodyInv, Custody, Holds

\* Completions free the slot they hold and no other's; resets forget slots by
\* raising the generation.
LEMMA CustodyRecover ==
    ASSUME TypeOK, CustodyInv, Recover
    PROVE  CustodyInv'
<1> USE DEF config, registry
<1>1. ASSUME NEW l \in Lanes, ResetLane(l) PROVE CustodyInv'
  <2>1. LaneObj(l) \in Objs
    BY <1>1, LaneObjType DEF ResetLane
  <2>2. \A o \in {LaneObj(l)} : generation'[o] = generation[o] + 1 /\ activeTaskIds'[o] = {}
    BY <1>1, <2>1 DEF ResetLane, TypeOK
  <2>3. \A o \in Objs \ {LaneObj(l)} : generation'[o] = generation[o]
                                       /\ activeTaskIds'[o] = activeTaskIds[o]
    BY <1>1, <2>1 DEF ResetLane, TypeOK
  <2>4. UNCHANGED <<queue, entry, lanes>>
    BY <1>1 DEF ResetLane
  <2> DEFINE R == {LaneObj(l)}
  <2>5. /\ R \in SUBSET Objs
        /\ \A o \in R : generation'[o] = generation[o] + 1 /\ activeTaskIds'[o] = {}
        /\ \A o \in Objs \ R : generation'[o] = generation[o]
                               /\ activeTaskIds'[o] = activeTaskIds[o]
    BY <2>1, <2>2, <2>3
  <2> HIDE DEF R
  <2> QED
    BY <2>4, <2>5, CustodyReset
<1>2. ASSUME ResetAllLanes PROVE CustodyInv'
  <2> DEFINE R == {o \in Objs : Registered(o)}
  <2>1. /\ \A o \in R : generation'[o] = generation[o] + 1 /\ activeTaskIds'[o] = {}
        /\ \A o \in Objs \ R : generation'[o] = generation[o]
                               /\ activeTaskIds'[o] = activeTaskIds[o]
        /\ UNCHANGED <<queue, entry, lanes>>
    BY <1>2 DEF ResetAllLanes
  <2> QED
    BY <2>1, CustodyReset
<1>3. ASSUME MarkGatewayDraining PROVE CustodyInv'
  BY <1>3, CustodyRegistry DEF MarkGatewayDraining
<1> QED
  BY <1>1, <1>2, <1>3 DEF Recover

\* Every step keeps the custody of the entries and the order of generations.
LEMMA CustodyKept == Spec => []CustodyInv
<1>1. TypeOK /\ CustodyInv /\ TypeOK' /\ [Next]_vars => CustodyInv'
  <2> SUFFICES ASSUME TypeOK, CustodyInv, TypeOK', [Next]_vars PROVE CustodyInv'
    OBVIOUS
  <2>1. CASE UNCHANGED vars
    BY <2>1, CustodyRegistry DEF vars
  <2> QED
    BY <2>1, CustodyPump, CustodyUserCall, CustodyConfigure, CustodyRecover DEF Next
<1> QED
  BY <1>1, CustodyInit, Typing, PTL DEF Spec

\* Queued and running entries are always in exactly one place, in a registered
\* lane object, and a slot is held exactly by the runs of the current
\* generation.
THEOREM CustodyTheorem == Spec => []Custody
<1>1. CustodyInv => Custody
  BY DEF CustodyInv
<1> QED
  BY <1>1, CustodyKept, PTL

-----------------------------------------------------------------------------
\* The maps of the groups agree after every install, steal and clear.
THEOREM GroupMapsTheorem == Spec => []GroupMapsAgree
<1>1. Init => GroupMapsAgree
  BY GroupAssumption, LaneAssumption DEF Init, GroupMapsAgree, NoGroupState
<1>2. TypeOK /\ GroupMapsAgree /\ [Next]_vars => GroupMapsAgree'
  <2> SUFFICES ASSUME TypeOK, GroupMapsAgree, [Next]_vars PROVE GroupMapsAgree'
    OBVIOUS
  <2>1. CASE UNCHANGED config
    BY <2>1 DEF config, GroupMapsAgree
  <2>2. ASSUME NEW c \in PublishConfigs, Publish(c) PROVE GroupMapsAgree'
    <3> DEFINE gs == AfterClear(c)[1]
               by == AfterClear(c)[2]
    <3>0. ConfigOK(c)
      BY ConfigAssumption
    <3>1. /\ \A g \in GroupIds : gs[g] = IF g \in c.clear THEN NoGroupState ELSE groups[g]
          /\ \A l \in Lanes : by[l] = IF \E g \in c.clear : l \in groups[g].members
                                      THEN NoGroup ELSE groupByLane[l]
          /\ \A g \in GroupIds : NoGroupState.members = {}
      BY DEF AfterClear, NoGroupState
    <3>2. /\ \A l \in Lanes, g \in GroupIds : by[l] = g <=> l \in gs[g].members
          /\ \A l \in Lanes \ EligibleLanes : by[l] = NoGroup
      <4>1. ASSUME NEW l \in Lanes, NEW g \in GroupIds
            PROVE  by[l] = g <=> l \in gs[g].members
        BY <3>0, <3>1, GroupAssumption DEF GroupMapsAgree, ConfigOK
      <4>2. ASSUME NEW l \in Lanes \ EligibleLanes PROVE by[l] = NoGroup
        BY <3>1 DEF GroupMapsAgree
      <4> QED
        BY <4>1, <4>2
    <3>3. CASE c.group = NoGroup
      BY <2>2, <3>2, <3>3 DEF Publish, GroupMapsAgree
    <3>4. CASE c.group # NoGroup
      <4>1. c.group \in GroupIds /\ c.members \subseteq EligibleLanes
        BY <2>2, <3>0, <3>4 DEF Publish, ConfigOK, ValidGroup
      <4>2. \A g \in GroupIds :
               groups'[g].members = IF g = c.group THEN c.members
                  ELSE gs[g].members \ {l \in c.members : by[l] = g}
        BY <2>2, <3>4, AfterClearType DEF Publish, AfterInstall, GroupStates
      <4>3. \A l \in Lanes :
               groupByLane'[l] = IF l \in c.members THEN c.group
                                 ELSE IF l \in gs[c.group].members THEN NoGroup ELSE by[l]
        BY <2>2, <3>4 DEF Publish, AfterInstall
      <4> HIDE DEF gs, by
      <4>4. ASSUME NEW l \in Lanes, NEW g \in GroupIds
            PROVE  groupByLane'[l] = g <=> l \in groups'[g].members
        <5>1. by[l] = g <=> l \in gs[g].members
          BY <3>2
        <5>2. by[l] = c.group <=> l \in gs[c.group].members
          BY <3>2, <4>1
        <5>3. CASE l \in c.members
          BY <4>2, <4>3, <5>1, <5>3
        <5>4. CASE l \notin c.members
          BY <4>2, <4>3, <5>1, <5>2, <5>4, GroupAssumption
        <5> QED
          BY <5>3, <5>4
      <4>5. ASSUME NEW l \in Lanes \ EligibleLanes PROVE groupByLane'[l] = NoGroup
        BY <3>2, <4>1, <4>3
      <4> QED
        BY <4>4, <4>5 DEF GroupMapsAgree
    <3> QED
      BY <3>3, <3>4
  <2> QED
    BY <2>1, <2>2 DEF Next, Pump, UserCall, Configure, Recover, StartTask, CallbackReturns,
          DrainLaneReturns, DrainGroupStep, DrainEachStep, Enqueue, Refuse, Abort, Settle,
          ClearLane, SetConcurrency, ResetLane, ResetAllLanes, MarkGatewayDraining, vars, config
<1> QED
  BY <1>1, <1>2, Typing, PTL DEF Spec

-----------------------------------------------------------------------------
(* Counting the slots of a group *)

\* HeldSlots and UnmetSlots of a group with members M, budget b and reservations
\* R, when lane l runs the entries A[l].
Held(M, A) == {s \in M \X Entries : s[2] \in A[s[1]]}
Unmet(M, A, b, R) ==
    {s \in M \X (1 .. b) : s[2] <= R[s[1]] /\ s[2] > Cardinality(A[s[1]])}

\* The entries each lane runs.
ActiveMap == [l \in Lanes |-> ActiveIn(l)]

\* readGroupCapacity counts with the entries of the registered objects.
LEMMA CountedByMap ==
    ASSUME NEW g \in GroupIds, TypeOK
    PROVE  /\ HeldSlots(g) = Held(groups[g].members, ActiveMap)
           /\ UnmetSlots(g) = Unmet(groups[g].members, ActiveMap, groups[g].budget,
                                    groups[g].reservations)
           /\ ActiveMap \in [Lanes -> SUBSET Entries]
<1>1. groups[g].members \subseteq Lanes
  BY DEF TypeOK, GroupStates
<1>2. \A l \in Lanes : ActiveMap[l] = ActiveIn(l)
  BY DEF ActiveMap
<1>3. \A l \in Lanes : ActiveIn(l) \in SUBSET Entries
  BY DEF TypeOK, ActiveIn, Objs
<1> QED
  BY <1>1, <1>2, <1>3 DEF HeldSlots, UnmetSlots, Held, Unmet, ActiveMap

\* The same in the next state.
LEMMA CountedByMapNext ==
    ASSUME NEW g \in GroupIds, TypeOK'
    PROVE  /\ HeldSlots(g)' = Held(groups'[g].members, ActiveMap')
           /\ UnmetSlots(g)' = Unmet(groups'[g].members, ActiveMap', groups'[g].budget,
                                     groups'[g].reservations)
           /\ ActiveMap' \in [Lanes -> SUBSET Entries]
<1>1. groups'[g].members \subseteq Lanes
  BY DEF TypeOK, GroupStates
<1>2. \A l \in Lanes : ActiveMap'[l] = ActiveIn(l)'
  BY DEF ActiveMap
<1>3. \A l \in Lanes : ActiveIn(l)' \in SUBSET Entries
  BY DEF TypeOK, ActiveIn, Objs
<1> QED
  BY <1>1, <1>2, <1>3 DEF HeldSlots, UnmetSlots, Held, Unmet, ActiveMap

\* Both counts are of finite sets.
LEMMA SlotsFinite ==
    ASSUME NEW M \in SUBSET Lanes, NEW A \in [Lanes -> SUBSET Entries], NEW b \in Nat, NEW R
    PROVE  /\ IsFiniteSet(Held(M, A)) /\ Cardinality(Held(M, A)) \in Nat
           /\ IsFiniteSet(Unmet(M, A, b, R)) /\ Cardinality(Unmet(M, A, b, R)) \in Nat
           /\ \A l \in Lanes : IsFiniteSet(A[l]) /\ Cardinality(A[l]) \in Nat
<1>1. IsFiniteSet(M) /\ IsFiniteSet(Entries)
  BY FS_Subset, LaneAssumption
<1>2. IsFiniteSet(M \X Entries)
  BY <1>1, FS_Product
<1>3. IsFiniteSet(1 .. b)
  BY FS_Interval
<1>4. IsFiniteSet(M \X (1 .. b))
  BY <1>1, <1>3, FS_Product
<1>5. Held(M, A) \in SUBSET (M \X Entries) /\ Unmet(M, A, b, R) \in SUBSET (M \X (1 .. b))
  BY DEF Held, Unmet
<1>6. IsFiniteSet(Held(M, A)) /\ IsFiniteSet(Unmet(M, A, b, R))
  BY <1>2, <1>4, <1>5, FS_Subset
<1>7. \A l \in Lanes : IsFiniteSet(A[l])
  BY <1>1, FS_Subset
<1> QED
  BY <1>6, <1>7, FS_CardinalityType

\* A lane that gives up slots gives back at least as many as it reclaims for
\* its reservation.
LEMMA ShrinkSlots ==
    ASSUME NEW M \in SUBSET Lanes, NEW b \in Nat, NEW R,
           NEW A \in [Lanes -> SUBSET Entries], NEW B \in [Lanes -> SUBSET Entries],
           NEW l \in Lanes, B[l] \subseteq A[l], \A m \in Lanes \ {l} : B[m] = A[m]
    PROVE  /\ Cardinality(Held(M, B)) + Cardinality(Unmet(M, B, b, R))
                  <= Cardinality(Held(M, A)) + Cardinality(Unmet(M, A, b, R))
           /\ l \notin M => Held(M, B) = Held(M, A) /\ Unmet(M, B, b, R) = Unmet(M, A, b, R)
<1>1. CASE l \notin M
  <2>1. Held(M, B) = Held(M, A) /\ Unmet(M, B, b, R) = Unmet(M, A, b, R)
    BY <1>1 DEF Held, Unmet
  <2>2. Cardinality(Held(M, A)) \in Nat /\ Cardinality(Unmet(M, A, b, R)) \in Nat
    BY SlotsFinite
  <2> QED
    BY <1>1, <2>1, <2>2
<1>2. CASE l \in M
  <2> DEFINE H == Held(M, A)
             K == Held(M, B)
             U == Unmet(M, A, b, R)
             V == Unmet(M, B, b, R)
             given == A[l] \ B[l]
             a == Cardinality(A[l])
             c == Cardinality(B[l])
             back == {l} \X given
             own == {l} \X (c + 1 .. a)
  <2>1. /\ IsFiniteSet(H) /\ IsFiniteSet(K) /\ IsFiniteSet(U) /\ IsFiniteSet(V)
        /\ Cardinality(H) \in Nat /\ Cardinality(K) \in Nat
        /\ Cardinality(U) \in Nat /\ Cardinality(V) \in Nat
        /\ IsFiniteSet(A[l]) /\ IsFiniteSet(B[l]) /\ a \in Nat /\ c \in Nat
    BY SlotsFinite
  <2>2. IsFiniteSet(given) /\ Cardinality(given) = a - c /\ c <= a
    <3>1. A[l] \cap B[l] = B[l]
      OBVIOUS
    <3>2. IsFiniteSet(given) /\ Cardinality(given) = a - Cardinality(A[l] \cap B[l])
      BY <2>1, FS_Difference
    <3>3. c <= a
      BY <2>1, FS_Subset
    <3> QED
      BY <3>1, <3>2, <3>3
  <2>3. IsFiniteSet({l}) /\ Cardinality({l}) = 1
    BY FS_Singleton
  <2>4. IsFiniteSet(back) /\ Cardinality(back) = a - c
    <3>1. IsFiniteSet(back) /\ Cardinality(back) = 1 * Cardinality(given)
      BY <2>2, <2>3, FS_Product
    <3> QED
      BY <2>1, <2>2, <3>1
  <2>5. IsFiniteSet(own) /\ Cardinality(own) = a - c
    <3>1. IsFiniteSet(c + 1 .. a) /\ Cardinality(c + 1 .. a) = a - c
      <4>1. c + 1 \in Int /\ a \in Int
        BY <2>1
      <4>2. IsFiniteSet(c + 1 .. a) /\ Cardinality(c + 1 .. a)
                = IF c + 1 > a THEN 0 ELSE a - (c + 1) + 1
        BY <4>1, FS_Interval
      <4> HIDE DEF a, c
      <4> QED
        BY <2>1, <2>2, <4>2
    <3>2. IsFiniteSet(own) /\ Cardinality(own) = 1 * Cardinality(c + 1 .. a)
      BY <2>3, <3>1, FS_Product
    <3> HIDE DEF a, c
    <3> QED
      BY <2>1, <3>1, <3>2
  <2>6. H = K \cup back /\ K \cap back = {}
    BY <1>2 DEF Held
  <2>7. V \subseteq U \cup own
    <3> SUFFICES ASSUME NEW s \in V, s \notin U PROVE s \in own
      OBVIOUS
    <3>1. /\ s \in M \X (1 .. b) /\ s[2] <= R[s[1]] /\ s[2] > Cardinality(B[s[1]])
          /\ ~(s[2] > Cardinality(A[s[1]]))
      BY DEF Unmet
    <3>2. s[1] = l
      BY <3>1
    <3>3. s[2] \in Int /\ s[2] > c /\ ~(s[2] > a)
      BY <3>1, <3>2
    <3> HIDE DEF a, c
    <3>4. s[2] \in c + 1 .. a
      BY <2>1, <3>3
    <3>5. s = <<l, s[2]>>
      BY <3>1, <3>2
    <3> QED
      BY <3>4, <3>5
  <2>8. Cardinality(H) = Cardinality(K) + (a - c)
    <3>1. Cardinality(K \cup back) = Cardinality(K) + Cardinality(back) - Cardinality(K \cap back)
      BY <2>1, <2>4, FS_Union
    <3>2. Cardinality(K \cap back) = 0
      BY <2>6, FS_EmptySet
    <3> HIDE DEF H, K, a, c, back
    <3> QED
      BY <2>1, <2>4, <2>6, <3>1, <3>2
  <2>9. Cardinality(V) <= Cardinality(U) + (a - c)
    <3>1. /\ IsFiniteSet(U \cup own)
          /\ Cardinality(U \cup own) = Cardinality(U) + Cardinality(own) - Cardinality(U \cap own)
      BY <2>1, <2>5, FS_Union
    <3>2. Cardinality(V) <= Cardinality(U \cup own)
      BY <2>7, <3>1, FS_Subset
    <3>3. IsFiniteSet(U \cap own) /\ Cardinality(U \cap own) \in Nat
      BY <2>1, FS_Intersection, FS_CardinalityType
    <3> HIDE DEF U, V, a, c, own
    <3> QED
      BY <2>1, <2>5, <3>1, <3>2, <3>3
  <2> HIDE DEF H, K, U, V, a, c
  <2>10. Cardinality(K) + Cardinality(V) <= Cardinality(H) + Cardinality(U)
    BY <2>1, <2>8, <2>9
  <2> QED
    BY <1>2, <2>10 DEF H, K, U, V
<1> QED
  BY <1>1, <1>2

\* A lane that starts one entry holds one slot more; at most one of its reserved
\* slots is met by that, and exactly one while the reservation is not used up.
LEMMA GrowSlots ==
    ASSUME NEW M \in SUBSET Lanes, NEW b \in Nat, NEW R \in [Lanes -> Nat],
           NEW A \in [Lanes -> SUBSET Entries], NEW B \in [Lanes -> SUBSET Entries]
    PROVE  \A l \in M, e \in Entries :
              /\ e \notin A[l] /\ B[l] = A[l] \cup {e}
              /\ \A m \in Lanes \ {l} : B[m] = A[m]
              => /\ Cardinality(Held(M, B)) = Cardinality(Held(M, A)) + 1
                 /\ Cardinality(Unmet(M, B, b, R)) <= Cardinality(Unmet(M, A, b, R))
                 /\ Cardinality(Unmet(M, A, b, R)) <= Cardinality(Unmet(M, B, b, R)) + 1
                 /\ Cardinality(A[l]) < R[l] /\ R[l] <= b =>
                       Cardinality(Unmet(M, A, b, R)) = Cardinality(Unmet(M, B, b, R)) + 1
<1> SUFFICES ASSUME NEW l \in M, NEW e \in Entries, e \notin A[l], B[l] = A[l] \cup {e},
                    \A m \in Lanes \ {l} : B[m] = A[m]
             PROVE  /\ Cardinality(Held(M, B)) = Cardinality(Held(M, A)) + 1
                    /\ Cardinality(Unmet(M, B, b, R)) <= Cardinality(Unmet(M, A, b, R))
                    /\ Cardinality(Unmet(M, A, b, R)) <= Cardinality(Unmet(M, B, b, R)) + 1
                    /\ Cardinality(A[l]) < R[l] /\ R[l] <= b =>
                          Cardinality(Unmet(M, A, b, R)) = Cardinality(Unmet(M, B, b, R)) + 1
  OBVIOUS
<1> DEFINE H == Held(M, A)
           K == Held(M, B)
           U == Unmet(M, A, b, R)
           V == Unmet(M, B, b, R)
           a == Cardinality(A[l])
           met == <<l, a + 1>>
<1>1. /\ IsFiniteSet(H) /\ IsFiniteSet(K) /\ IsFiniteSet(U) /\ IsFiniteSet(V)
      /\ Cardinality(H) \in Nat /\ Cardinality(K) \in Nat
      /\ Cardinality(U) \in Nat /\ Cardinality(V) \in Nat
      /\ IsFiniteSet(A[l]) /\ IsFiniteSet(B[l]) /\ a \in Nat
  BY SlotsFinite
<1>2. Cardinality(B[l]) = a + 1
  BY <1>1, FS_AddElement
<1>3. K = H \cup {<<l, e>>} /\ <<l, e>> \notin H
  BY DEF Held
<1>4. Cardinality(K) = Cardinality(H) + 1
  BY <1>1, <1>3, FS_AddElement
<1>5. V = U \ {met}
  <2>1. ASSUME NEW s \in M \X (1 .. b)
        PROVE  s[2] > Cardinality(B[s[1]]) <=> s[2] > Cardinality(A[s[1]]) /\ s # met
    <3>1. CASE s[1] # l
      BY <3>1
    <3>2. CASE s[1] = l
      <4>1. s = <<l, s[2]>> /\ s[2] \in Int
        BY <3>2
      <4> HIDE DEF a
      <4>2. s[2] > a + 1 <=> s[2] > a /\ s[2] # a + 1
        BY <1>1, <4>1
      <4>3. s # met <=> s[2] # a + 1
        BY <4>1
      <4> QED
        BY <1>2, <3>2, <4>2, <4>3 DEF a
    <3> QED
      BY <3>1, <3>2
  <2> QED
    BY <2>1 DEF Unmet
<1>6. Cardinality(V) = IF met \in U THEN Cardinality(U) - 1 ELSE Cardinality(U)
  BY <1>1, <1>5, FS_RemoveElement
<1>7. a < R[l] /\ R[l] <= b => met \in U
  <2>1. R[l] \in Nat
    OBVIOUS
  <2> SUFFICES ASSUME a < R[l], R[l] <= b PROVE met \in U
    OBVIOUS
  <2>2. a + 1 \in 1 .. b /\ a + 1 <= R[l] /\ a + 1 > a
    BY <1>1, <2>1
  <2> QED
    BY <2>2 DEF Unmet
<1> HIDE DEF H, K, U, V, a, met
<1>8. /\ Cardinality(V) <= Cardinality(U) /\ Cardinality(U) <= Cardinality(V) + 1
      /\ a < R[l] /\ R[l] <= b => Cardinality(U) = Cardinality(V) + 1
  BY <1>1, <1>6, <1>7
<1> QED
  BY <1>4, <1>8 DEF H, K, U, V, a

-----------------------------------------------------------------------------
(* The live runs of a lane *)

\* The runs of lane l that no reset has given up, whatever object they are in.
Live(l) == {e \in Entries : /\ entry[e].status = "started"
                            /\ entry[e].owner[1] = l
                            /\ entry[e].generation = generation[entry[e].owner]}

SlotsAreLive == \A l \in Lanes : ActiveIn(l) = Live(l)

\* They are the ones that hold a slot of the registered object.
LEMMA LiveIsActive == TypeOK /\ Custody => SlotsAreLive
<1> SUFFICES ASSUME TypeOK, Custody, NEW l \in Lanes PROVE ActiveIn(l) = Live(l)
  BY DEF SlotsAreLive
<1>1. lanes[l] # 0 => <<l, lanes[l]>> \in Objs
  BY DEF TypeOK, Objs
<1>2. ASSUME NEW e \in Live(l) PROVE lanes[l] # 0 /\ entry[e].owner = <<l, lanes[l]>>
  <2> DEFINE o == entry[e].owner
  <2>1. o \in Objs /\ e \in Entries /\ o[1] = l
    BY DEF Live, TypeOK, EntryStates
  <2>2. o = <<l, o[2]>> /\ o[2] # 0
    BY <2>1 DEF Objs
  <2>3. e \in activeTaskIds[o]
    BY <2>1 DEF Live, Custody
  <2>4. lanes[l] = o[2]
    BY <2>1, <2>3 DEF Custody, Registered
  <2> QED
    BY <2>2, <2>4
<1>3. ASSUME lanes[l] = 0 PROVE Live(l) = {}
  BY <1>2, <1>3
<1>4. ASSUME lanes[l] # 0 PROVE activeTaskIds[<<l, lanes[l]>>] = Live(l)
  <2> DEFINE p == <<l, lanes[l]>>
  <2>1. activeTaskIds[p] = {e \in Entries : /\ entry[e].status = "started"
                                            /\ entry[e].owner = p
                                            /\ entry[e].generation = generation[p]}
    BY <1>1, <1>4 DEF Custody
  <2>2. p[1] = l /\ \A e \in Live(l) : entry[e].owner = p
    BY <1>2
  <2> HIDE DEF p
  <2> QED
    BY <2>1, <2>2 DEF Live, p
<1> QED
  BY <1>3, <1>4 DEF ActiveIn

\* The same in the next state.
LEMMA LiveIsActiveNext == TypeOK' /\ Custody' => SlotsAreLive'
BY LiveIsActive, PTL

\* Generations and running entries are untouched: so are the live runs.
LEMMA LiveKept ==
    ASSUME TypeOK, generation' = generation,
           \A e \in Entries : entry'[e] = entry[e]
                              \/ (entry[e].status # "started" /\ entry'[e].status # "started")
    PROVE  \A l \in Lanes : Live(l)' = Live(l)
BY DEF Live

\* The lane of which one step may give up live runs, and of which it may not.
LiveShrinks(l) == Live(l)' \subseteq Live(l)
OnlyLane(l) == \A m \in Lanes \ {l} : Live(m)' = Live(m)
LiveGivenUp == \E l \in Lanes : LiveShrinks(l) /\ OnlyLane(l)
LiveUntouched ==
    /\ generation' = generation
    /\ \A e \in Entries : entry'[e] = entry[e]
                          \/ (entry[e].status # "started" /\ entry'[e].status # "started")

\* A step starts one entry of the pumped lane, forgets every run, or lets at
\* most one lane lose runs.
LEMMA LiveSteps ==
    ASSUME TypeOK, CustodyInv, [Next]_vars
    PROVE  \/ StartTask
           \/ ResetAllLanes
           \/ LiveGivenUp
<1> USE DEF config, registry
<1>l. PICK any \in Lanes : TRUE
  BY LaneAssumption
<1>k. LiveUntouched => LiveGivenUp
  <2> SUFFICES ASSUME LiveUntouched PROVE LiveShrinks(any) /\ OnlyLane(any)
    BY <1>l DEF LiveGivenUp
  <2>1. \A l \in Lanes : Live(l)' = Live(l)
    BY LiveKept DEF LiveUntouched
  <2> QED
    BY <1>l, <2>1 DEF LiveShrinks, OnlyLane
<1>r. "rejected" \in Statuses /\ "settled" \in Statuses /\ "rejected" # "started"
  BY DEF Statuses
<1>1. CASE UNCHANGED vars
  BY <1>1, <1>k DEF vars, LiveUntouched
<1>2. CASE Pump
  BY <1>2, <1>k DEF LiveUntouched, Pump, CallbackReturns, DrainLaneReturns, DrainGroupStep, DrainEachStep
<1>3. ASSUME NEW e \in Entries, NEW l \in Lanes, NEW p \in Priorities, Enqueue(e, l, p)
      PROVE  LiveGivenUp
  <2>1. generation' = generation /\ entry[e].status # "started" /\ entry'[e].status # "started"
    BY <1>3 DEF Enqueue, TypeOK
  <2>2. \A f \in Entries \ {e} : entry'[f] = entry[f]
    BY <1>3 DEF Enqueue, TypeOK
  <2> QED
    BY <1>k, <2>1, <2>2 DEF LiveUntouched
<1>4. ASSUME NEW e \in Entries, NEW aborted \in BOOLEAN, Refuse(e, aborted)
      PROVE  LiveGivenUp
  <2>1. generation' = generation /\ entry[e].status # "started" /\ entry'[e].status # "started"
    BY <1>4, <1>r, FreshStatus DEF Refuse, TypeOK
  <2>2. \A f \in Entries \ {e} : entry'[f] = entry[f]
    BY <1>4 DEF Refuse, TypeOK
  <2> QED
    BY <1>k, <2>1, <2>2 DEF LiveUntouched
<1>5. ASSUME NEW e \in Entries, Abort(e)
      PROVE  LiveGivenUp
  <2>1. generation' = generation /\ entry[e].status # "started" /\ entry'[e].status # "started"
    BY <1>5, <1>r, FreshStatus DEF Abort, TypeOK
  <2>2. \A f \in Entries \ {e} : entry'[f] = entry[f]
    BY <1>5 DEF Abort, TypeOK
  <2> QED
    BY <1>k, <2>1, <2>2 DEF LiveUntouched
<1>6. ASSUME NEW l \in Lanes, ClearLane(l)
      PROVE  LiveGivenUp
  <2> DEFINE o == LaneObj(l)
  <2>1. o \in Objs
    BY <1>6, LaneObjType DEF ClearLane
  <2>2. \A e \in queue[o] : entry[e].status = "queued"
    BY <2>1 DEF CustodyInv, Custody
  <2>3. generation' = generation
    BY <1>6 DEF ClearLane
  <2>4. \A e \in Entries : entry'[e] = IF e \in queue[o]
                             THEN [Fresh EXCEPT !.status = "rejected"] ELSE entry[e]
    BY <1>6 DEF ClearLane
  <2> HIDE DEF o
  <2>5. \A e \in Entries : entry'[e] = entry[e]
                           \/ (entry[e].status # "started" /\ entry'[e].status # "started")
    BY <1>r, <2>2, <2>4, FreshStatus
  <2> QED
    BY <1>k, <2>3, <2>5 DEF LiveUntouched
<1>7. ASSUME NEW e \in Entries, Settle(e)
      PROVE  LiveGivenUp
  <2>1. entry[e].owner \in Objs
    BY DEF TypeOK, EntryStates
  <2>2. PICK l \in Lanes : l = entry[e].owner[1]
    BY <2>1 DEF Objs
  <2>3. generation' = generation /\ entry'[e].status # "started"
    BY <1>7, <1>r, FreshStatus DEF Settle, TypeOK
  <2>4. \A f \in Entries \ {e} : entry'[f] = entry[f]
    BY <1>7 DEF Settle, TypeOK
  <2>5. LiveShrinks(l)
    BY <2>3, <2>4 DEF LiveShrinks, Live
  <2>6. OnlyLane(l)
    BY <2>2, <2>3, <2>4 DEF OnlyLane, Live
  <2> QED
    BY <2>2, <2>5, <2>6 DEF LiveGivenUp
<1>8. CASE Configure
  BY <1>8, <1>k DEF LiveUntouched, Configure, SetConcurrency, Publish
<1>9. ASSUME NEW l \in Lanes, ResetLane(l)
      PROVE  LiveGivenUp
  <2> DEFINE o == LaneObj(l)
  <2>1. o \in Objs /\ o[1] = l
    BY <1>9, LaneObjType DEF ResetLane, LaneObj
  <2>2. entry' = entry /\ generation' = [generation EXCEPT ![o] = @ + 1]
    BY <1>9 DEF ResetLane
  <2> HIDE DEF o
  <2>3. generation'[o] = generation[o] + 1 /\ generation[o] \in Nat
    BY <2>1, <2>2 DEF TypeOK
  <2>4. \A p \in Objs \ {o} : generation'[p] = generation[p]
    BY <2>1, <2>2 DEF TypeOK
  <2>5. ASSUME NEW e \in Entries, entry[e].status = "started", entry[e].owner = o
        PROVE  entry[e].generation # generation'[o]
    <3>1. entry[e].generation <= generation[o] /\ entry[e].generation \in Nat
      BY <2>5 DEF CustodyInv, GenerationsPast, TypeOK, EntryStates
    <3> QED
      BY <2>3, <3>1
  <2>6. \A e \in Entries : entry[e].owner \in Objs
    BY DEF TypeOK, EntryStates
  <2>7. LiveShrinks(l)
    <3>1. ASSUME NEW e \in Live(l)' PROVE e \in Live(l)
      <4>1. /\ e \in Entries /\ entry[e].status = "started" /\ entry[e].owner[1] = l
            /\ entry[e].generation = generation'[entry[e].owner]
        BY <2>2, <3>1 DEF Live
      <4>2. entry[e].owner # o
        BY <2>5, <4>1
      <4> QED
        BY <2>4, <2>6, <4>1, <4>2 DEF Live
    <3> QED
      BY <3>1 DEF LiveShrinks
  <2>8. OnlyLane(l)
    <3>1. \A e \in Entries : entry[e].owner[1] # l => generation'[entry[e].owner] = generation[entry[e].owner]
      BY <2>1, <2>4, <2>6
    <3> QED
      BY <2>2, <3>1 DEF OnlyLane, Live
  <2> QED
    BY <2>7, <2>8 DEF LiveGivenUp
<1>10. CASE MarkGatewayDraining
  BY <1>10, <1>k DEF LiveUntouched, MarkGatewayDraining
<1> QED
  BY <1>1, <1>2, <1>3, <1>4, <1>5, <1>6, <1>7, <1>8, <1>9, <1>10
     DEF Next, UserCall, Recover

\* What one turn of the pump starts: an entry of the registered object of the
\* pumped lane, while the lane may start one.
Starts(l, o, e) ==
    /\ o = Top.obj /\ o = LaneObj(l) /\ lanes[l] # 0
    /\ MayStart(Top)
    /\ e \in queue[o] /\ entry[e].owner = o /\ entry[e].status = "queued"
    /\ First(e, queue[o])
    /\ queue' = [queue EXCEPT ![o] = @ \ {e}]
    /\ activeTaskIds' = [activeTaskIds EXCEPT ![o] = @ \cup {e}]
    /\ \A f \in Entries \ {e} : entry'[f] = entry[f]
    /\ entry'[e].status = "started"
    /\ e \notin Live(l) /\ Live(l)' = Live(l) \cup {e}

\* A started entry is live in its lane and leaves the other lanes alone.
LEMMA StartLive ==
    ASSUME TypeOK, CustodyInv, StartTask
    PROVE  \E l \in Lanes, o \in Objs, e \in Entries : Starts(l, o, e) /\ OnlyLane(l)
<1>0. Top.obj \in Objs
  BY LaneTop DEF StartTask, Pumping, LaneFrames, TypeOK
<1>1. PICK o \in Objs : o = Top.obj
  BY <1>0
<1>2. PICK e \in queue[o] :
        /\ First(e, queue[o])
        /\ queue' = [queue EXCEPT ![o] = @ \ {e}]
        /\ activeTaskIds' = [activeTaskIds EXCEPT ![o] = @ \cup {e}]
        /\ entry' = [entry EXCEPT ![e].status = "started",
                                  ![e].generation = generation[o]]
  BY <1>1 DEF StartTask
<1>3. e \in Entries /\ entry[e].status = "queued" /\ entry[e].owner = o /\ Registered(o)
  BY <1>1, <1>2 DEF CustodyInv, Custody
<1>4. o[1] \in Lanes /\ o[2] # 0 /\ o = <<o[1], o[2]>>
  BY DEF Objs
<1>5. PICK l \in Lanes : l = o[1]
  BY <1>4
<1>6. lanes[l] # 0 /\ o = LaneObj(l)
  BY <1>3, <1>4, <1>5 DEF Registered, LaneObj
<1>7. /\ \A f \in Entries \ {e} : entry'[f] = entry[f]
      /\ entry'[e].status = "started" /\ entry'[e].owner = o
      /\ entry'[e].generation = generation[o]
  BY <1>2, <1>3 DEF TypeOK, EntryStates
<1>8. generation' = generation /\ MayStart(Top)
  BY DEF StartTask
<1>9. e \notin Live(l)
  BY <1>3 DEF Live
<1>10. Live(l)' = Live(l) \cup {e}
  BY <1>3, <1>5, <1>7, <1>8 DEF Live
<1>11. OnlyLane(l)
  BY <1>3, <1>5, <1>7, <1>8 DEF Live, OnlyLane
<1> QED
  BY <1>1, <1>2, <1>3, <1>6, <1>7, <1>8, <1>9, <1>10, <1>11 DEF Starts

-----------------------------------------------------------------------------
(* Reservations *)

\* A group promises no member more than its budget, nor all of them together.
Promised(M, b, R) == {s \in M \X (1 .. b) : s[2] <= R[s[1]]}
Fits(d) == /\ \A l \in d.members : d.reservations[l] <= d.budget
           /\ Cardinality(Promised(d.members, d.budget, d.reservations)) <= d.budget
GroupsFit == \A g \in GroupIds : Fits(groups[g])

\* A group that loses members promises less.
LEMMA FitsFewer ==
    ASSUME NEW d \in GroupStates, Fits(d), NEW M \in SUBSET d.members
    PROVE  Fits([d EXCEPT !.members = M])
<1> DEFINE b == d.budget
           R == d.reservations
<1>1. /\ d.members \in SUBSET Lanes /\ IsFiniteSet(Lanes) /\ b \in Nat /\ R \in [Lanes -> Nat]
      /\ M \in SUBSET Lanes
  BY LaneAssumption DEF GroupStates
<1>2. [d EXCEPT !.members = M].members = M /\ [d EXCEPT !.members = M].budget = b
      /\ [d EXCEPT !.members = M].reservations = R
  BY DEF GroupStates
<1>3. Promised(M, b, R) \in SUBSET Promised(d.members, b, R)
  BY DEF Promised
<1>4. IsFiniteSet(d.members \X (1 .. b))
  <2>1. IsFiniteSet(d.members)
    BY <1>1, FS_Subset
  <2>2. 1 \in Int /\ b \in Int
    BY <1>1
  <2>3. IsFiniteSet(1 .. b)
    BY <2>2, FS_Interval
  <2> QED
    BY <2>1, <2>3, FS_Product
<1>5. IsFiniteSet(Promised(d.members, b, R)) /\ IsFiniteSet(Promised(M, b, R))
  <2>1. Promised(d.members, b, R) \in SUBSET (d.members \X (1 .. b))
    BY DEF Promised
  <2> QED
    BY <1>3, <1>4, <2>1, FS_Subset
<1>6. Cardinality(Promised(M, b, R)) <= Cardinality(Promised(d.members, b, R))
  BY <1>3, <1>5, FS_Subset
<1>7. Cardinality(Promised(M, b, R)) \in Nat /\ Cardinality(Promised(d.members, b, R)) \in Nat
  BY <1>5, FS_CardinalityType
<1>8. Cardinality(Promised(d.members, b, R)) <= b
  BY DEF Fits
<1>9. Cardinality(Promised(M, b, R)) <= b
  <2> HIDE DEF b, R
  <2> QED
    BY <1>1, <1>6, <1>7, <1>8
<1>10. \A l \in M : R[l] <= b
  BY DEF Fits
<1> HIDE DEF b, R
<1> QED
  BY <1>2, <1>9, <1>10 DEF Fits

\* A cleared group promises nothing.
LEMMA FitsEmpty == Fits(NoGroupState)
<1>1. NoGroupState.members = {} /\ NoGroupState.budget = 0
  BY DEF NoGroupState
<1>2. Promised({}, 0, NoGroupState.reservations) = {}
  BY DEF Promised
<1> QED
  BY <1>1, <1>2, FS_EmptySet DEF Fits

\* An installed group was validated.
LEMMA FitsInstalled ==
    ASSUME NEW c \in PublishConfigs, ValidGroup(c), NEW n
    PROVE  Fits([ver |-> n, budget |-> c.budget, members |-> c.members,
                 reservations |-> c.reservations])
BY DEF ValidGroup, Fits, Promised

\* Every group definition in force keeps its promises within its budget.
LEMMA GroupsFitStep ==
    ASSUME TypeOK, GroupsFit, [Next]_vars
    PROVE  GroupsFit'
<1>1. CASE groups' = groups
  BY <1>1 DEF GroupsFit
<1>2. ASSUME NEW c \in PublishConfigs, Publish(c) PROVE GroupsFit'
  <2> DEFINE gs == AfterClear(c)[1]
             by == AfterClear(c)[2]
  <2>1. gs \in [GroupIds -> GroupStates]
    BY AfterClearType
  <2>2. ASSUME NEW g \in GroupIds PROVE Fits(gs[g])
    BY FitsEmpty DEF AfterClear, GroupsFit
  <2>3. CASE c.group = NoGroup
    BY <1>2, <2>2, <2>3 DEF Publish, GroupsFit
  <2>4. CASE c.group # NoGroup
    <3> DEFINE next == [ver |-> installs + 1, budget |-> c.budget,
                        members |-> c.members, reservations |-> c.reservations]
               left(g) == gs[g].members \ {l \in c.members : by[l] = g}
    <3>1. groups' = [g \in GroupIds |-> IF g = c.group THEN next
                        ELSE [gs[g] EXCEPT !.members = left(g)]]
      BY <1>2, <2>4 DEF Publish, AfterInstall
    <3>2. Fits(next)
      BY <1>2, <2>4, FitsInstalled DEF Publish
    <3> HIDE DEF gs, by, next
    <3>3. ASSUME NEW g \in GroupIds PROVE Fits([gs[g] EXCEPT !.members = left(g)])
      <4>1. gs[g] \in GroupStates /\ Fits(gs[g]) /\ left(g) \in SUBSET gs[g].members
        BY <2>1, <2>2
      <4> HIDE DEF left
      <4> QED
        BY <4>1, FitsFewer
    <3> HIDE DEF left
    <3>4. ASSUME NEW g \in GroupIds PROVE Fits(groups'[g])
      <4>1. CASE g = c.group
        BY <3>1, <3>2, <4>1
      <4>2. CASE g # c.group
        BY <3>1, <3>3, <4>2
      <4> QED
        BY <4>1, <4>2
    <3> QED
      BY <3>4 DEF GroupsFit
  <2> QED
    BY <2>3, <2>4
<1> QED
  BY <1>1, <1>2 DEF Next, Pump, UserCall, Configure, Recover, StartTask, CallbackReturns,
        DrainLaneReturns, DrainGroupStep, DrainEachStep, Enqueue, Refuse, Abort, Settle,
        ClearLane, SetConcurrency, ResetLane, ResetAllLanes, MarkGatewayDraining, vars, config

\* Whichever group the started lane is in admitted it.
LEMMA ReservationsStart ==
    ASSUME TypeOK, TypeOK', CustodyInv, Custody', GroupMapsAgree, GroupsFit, StartTask,
           NEW g \in GroupIds
    PROVE  \/ Committed(g)' <= groups[g].budget
           \/ Committed(g)' <= Committed(g)
<1>1. PICK l \in Lanes, o \in Objs, e \in Entries : Starts(l, o, e) /\ OnlyLane(l)
  BY StartLive
<1>2. groups' = groups
  BY DEF StartTask, config
<1>d. PICK M, b, R : /\ M = groups[g].members
                     /\ b = groups[g].budget
                     /\ R = groups[g].reservations
  OBVIOUS
<1>3. PICK A, B : A = ActiveMap /\ B = ActiveMap'
  OBVIOUS
<1>4. /\ HeldSlots(g) = Held(M, A) /\ HeldSlots(g)' = Held(M, B)
      /\ UnmetSlots(g) = Unmet(M, A, b, R) /\ UnmetSlots(g)' = Unmet(M, B, b, R)
      /\ A \in [Lanes -> SUBSET Entries] /\ B \in [Lanes -> SUBSET Entries]
  BY <1>d, <1>2, <1>3, CountedByMap, CountedByMapNext
<1>5. M \in SUBSET Lanes /\ b \in Nat /\ R \in [Lanes -> Nat]
  BY <1>d DEF TypeOK, GroupStates
<1>6. \A m \in Lanes : A[m] = Live(m) /\ B[m] = Live(m)'
  <2>1. \A m \in Lanes : A[m] = ActiveIn(m) /\ B[m] = ActiveIn(m)'
    BY <1>3 DEF ActiveMap
  <2> QED
    BY <2>1, LiveIsActive, LiveIsActiveNext DEF CustodyInv, SlotsAreLive
<1>7. e \notin A[l] /\ B[l] = A[l] \cup {e} /\ \A m \in Lanes \ {l} : B[m] = A[m]
  BY <1>1, <1>6 DEF Starts, OnlyLane
<1>8. /\ Committed(g) = Cardinality(Held(M, A)) + Cardinality(Unmet(M, A, b, R))
      /\ Committed(g)' = Cardinality(Held(M, B)) + Cardinality(Unmet(M, B, b, R))
      /\ Active(g) = Cardinality(Held(M, A)) /\ Reserved(g) = Cardinality(Unmet(M, A, b, R))
  BY <1>4 DEF Committed, Active, Reserved
<1>9. /\ Cardinality(Held(M, A)) \in Nat /\ Cardinality(Unmet(M, A, b, R)) \in Nat
      /\ Cardinality(Held(M, B)) \in Nat /\ Cardinality(Unmet(M, B, b, R)) \in Nat
      /\ Cardinality(A[l]) \in Nat
  BY <1>4, <1>5, SlotsFinite
<1>10. CASE l \notin M
  <2>1. Held(M, B) = Held(M, A) /\ Unmet(M, B, b, R) = Unmet(M, A, b, R)
    BY <1>5, <1>7, <1>10 DEF Held, Unmet
  <2> QED
    BY <1>8, <1>9, <2>1
<1>11. CASE l \in M
  <2>1. groupByLane[l] = g /\ g # NoGroup
    BY <1>d, <1>11, GroupAssumption DEF GroupMapsAgree
  <2>2. CanAdmitInGroup(l)
    BY <1>1 DEF Starts, MayStart, LaneObj
  <2>3. /\ Active(g) < b
        /\ \/ Cardinality(ActiveIn(l)) < R[l]
           \/ Active(g) + Reserved(g) < b
    BY <1>d, <2>1, <2>2 DEF CanAdmitInGroup
  <2>4. R[l] <= b
    BY <1>d, <1>11 DEF GroupsFit, Fits
  <2>5. ActiveIn(l) = A[l]
    BY <1>3 DEF ActiveMap
  <2>6. /\ Cardinality(Held(M, B)) = Cardinality(Held(M, A)) + 1
        /\ Cardinality(Unmet(M, B, b, R)) <= Cardinality(Unmet(M, A, b, R))
        /\ Cardinality(A[l]) < R[l] /\ R[l] <= b =>
              Cardinality(Unmet(M, A, b, R)) = Cardinality(Unmet(M, B, b, R)) + 1
    <3>1. \A x \in M, f \in Entries :
             /\ f \notin A[x] /\ B[x] = A[x] \cup {f}
             /\ \A m \in Lanes \ {x} : B[m] = A[m]
             => /\ Cardinality(Held(M, B)) = Cardinality(Held(M, A)) + 1
                /\ Cardinality(Unmet(M, B, b, R)) <= Cardinality(Unmet(M, A, b, R))
                /\ Cardinality(A[x]) < R[x] /\ R[x] <= b =>
                      Cardinality(Unmet(M, A, b, R)) = Cardinality(Unmet(M, B, b, R)) + 1
      BY <1>4, <1>5, GrowSlots
    <3> QED
      BY <1>7, <1>11, <3>1
  <2>7. \/ Cardinality(Held(M, B)) + Cardinality(Unmet(M, B, b, R)) <= b
        \/ Cardinality(Held(M, B)) + Cardinality(Unmet(M, B, b, R))
              <= Cardinality(Held(M, A)) + Cardinality(Unmet(M, A, b, R))
    BY <1>5, <1>8, <1>9, <2>3, <2>4, <2>5, <2>6
  <2> QED
    BY <1>d, <1>8, <2>7
<1> QED
  BY <1>10, <1>11

\* A lane that loses runs gives its slots back to its group.
LEMMA ReservationsGivenUp ==
    ASSUME TypeOK, TypeOK', CustodyInv, Custody', groups' = groups, LiveGivenUp,
           NEW g \in GroupIds
    PROVE  Committed(g)' <= Committed(g)
<1>1. PICK l \in Lanes : LiveShrinks(l) /\ OnlyLane(l)
  BY DEF LiveGivenUp
<1> DEFINE M == groups[g].members
           b == groups[g].budget
           R == groups[g].reservations
<1>2. PICK A, B : A = ActiveMap /\ B = ActiveMap'
  OBVIOUS
<1>3. /\ HeldSlots(g) = Held(M, A) /\ HeldSlots(g)' = Held(M, B)
      /\ UnmetSlots(g) = Unmet(M, A, b, R) /\ UnmetSlots(g)' = Unmet(M, B, b, R)
      /\ A \in [Lanes -> SUBSET Entries] /\ B \in [Lanes -> SUBSET Entries]
  BY <1>2, CountedByMap, CountedByMapNext
<1>4. M \in SUBSET Lanes /\ b \in Nat
  BY DEF TypeOK, GroupStates
<1>5. \A m \in Lanes : A[m] = Live(m) /\ B[m] = Live(m)'
  <2>1. \A m \in Lanes : A[m] = ActiveIn(m) /\ B[m] = ActiveIn(m)'
    BY <1>2 DEF ActiveMap
  <2> QED
    BY <2>1, LiveIsActive, LiveIsActiveNext DEF CustodyInv, SlotsAreLive
<1>6. B[l] \subseteq A[l] /\ \A m \in Lanes \ {l} : B[m] = A[m]
  BY <1>1, <1>5 DEF LiveShrinks, OnlyLane
<1> HIDE DEF M, b, R
<1>7. Cardinality(Held(M, B)) + Cardinality(Unmet(M, B, b, R))
         <= Cardinality(Held(M, A)) + Cardinality(Unmet(M, A, b, R))
  BY <1>3, <1>4, <1>6, ShrinkSlots
<1> QED
  BY <1>3, <1>7 DEF Committed, Active, Reserved

\* resetAllLanes leaves no lane with a running task.
LEMMA ResetEmpties ==
    ASSUME TypeOK, ResetAllLanes
    PROVE  \A m \in Lanes : ActiveIn(m)' = {}
<1>1. lanes' = lanes
      /\ activeTaskIds' = [o \in Objs |-> IF Registered(o) THEN {} ELSE activeTaskIds[o]]
  BY DEF ResetAllLanes, registry
<1>2. ASSUME NEW m \in Lanes, lanes[m] # 0 PROVE activeTaskIds'[<<m, lanes[m]>>] = {}
  <2>1. <<m, lanes[m]>> \in Objs /\ Registered(<<m, lanes[m]>>)
    BY <1>2 DEF TypeOK, Objs, Registered
  <2> QED
    BY <1>1, <2>1
<1>3. \A m \in Lanes : ActiveIn(m)' =
         IF lanes'[m] = 0 THEN {} ELSE activeTaskIds'[<<m, lanes'[m]>>]
  BY DEF ActiveIn
<1>4. lanes' = lanes
  BY <1>1
<1> QED
  BY <1>2, <1>3, <1>4

\* After resetAllLanes a group has committed exactly what it promises.
LEMMA ReservationsReset ==
    ASSUME TypeOK, TypeOK', CustodyInv, GroupsFit, ResetAllLanes, NEW g \in GroupIds
    PROVE  Committed(g)' <= groups[g].budget
<1> DEFINE M == groups[g].members
           b == groups[g].budget
           R == groups[g].reservations
<1>1. groups' = groups
  BY DEF ResetAllLanes, config
<1>2. PICK B : B = ActiveMap'
  OBVIOUS
<1>3. /\ HeldSlots(g)' = Held(M, B) /\ UnmetSlots(g)' = Unmet(M, B, b, R)
      /\ B \in [Lanes -> SUBSET Entries]
  BY <1>1, <1>2, CountedByMapNext
<1>4. M \in SUBSET Lanes /\ b \in Nat
  BY DEF TypeOK, GroupStates
<1>5. \A m \in Lanes : B[m] = {}
  BY <1>2, ResetEmpties DEF ActiveMap
<1>6. Held(M, B) = {}
  BY <1>4, <1>5 DEF Held
<1>7. Unmet(M, B, b, R) = Promised(M, b, R)
  <2>1. \A m \in M : Cardinality(B[m]) = 0
    BY <1>4, <1>5, FS_EmptySet
  <2> QED
    BY <2>1 DEF Unmet, Promised
<1>8. Cardinality(Promised(M, b, R)) <= b
  BY DEF GroupsFit, Fits
<1>9. Cardinality(Held(M, B)) = 0 /\ Cardinality(Unmet(M, B, b, R)) \in Nat
  BY <1>3, <1>4, <1>6, FS_EmptySet, SlotsFinite
<1>10. Committed(g)' = Cardinality(Held(M, B)) + Cardinality(Unmet(M, B, b, R))
  BY <1>3 DEF Committed, Active, Reserved
<1> QED
  BY <1>7, <1>8, <1>9, <1>10

\* No step but a new configuration commits more of a group than its budget:
\* a start within a reservation meets one reserved slot, any other start is
\* admitted only if a slot is left after all reservations, a completion or a
\* reset reclaims no more slots than it frees.
THEOREM ReservationsTheorem == Spec => ReservationsHold
<1> DEFINE Inv == TypeOK /\ CustodyInv /\ GroupMapsAgree /\ GroupsFit
<1>1. Init => GroupsFit
  BY FitsEmpty DEF Init, GroupsFit
<1>2. Inv /\ TypeOK' /\ Custody' /\ [Next]_vars =>
        [groups' = groups =>
            \A g \in GroupIds : Committed(g)' <= groups[g].budget
                                \/ Committed(g)' <= Committed(g)]_vars
  <2> SUFFICES ASSUME Inv, TypeOK', Custody', [Next]_vars, groups' = groups,
                      NEW g \in GroupIds
               PROVE  \/ Committed(g)' <= groups[g].budget
                      \/ Committed(g)' <= Committed(g)
    OBVIOUS
  <2> QED
    BY LiveSteps, ReservationsStart, ReservationsGivenUp, ReservationsReset
<1>3. TypeOK /\ GroupsFit /\ [Next]_vars => GroupsFit'
  BY GroupsFitStep
<1>4. CustodyInv => Custody
  BY DEF CustodyInv
<1> QED
  BY <1>1, <1>2, <1>3, <1>4, Typing, CustodyKept, GroupMapsTheorem, PTL DEF Spec, ReservationsHold

-----------------------------------------------------------------------------
(* Runs of a scope *)

\* Nobody widens a scoped lane: its runs share one session, tree or store.
NarrowScopes == \A o \in Objs : o[1] \in ScopedLanes => maxConcurrent[o] <= 1

\* The current runs of a scoped lane, over all objects ever made for it, are at
\* most one: the slot is committed in the turn that dequeues the entry, and an
\* object that runs something does not leave the registry.
THEOREM OneLiveTheorem == Spec /\ []NarrowScopes => []OneLiveRunPerScope
<1>1. Init => OneLiveRunPerScope
  <2> SUFFICES ASSUME Init, NEW l \in ScopedLanes PROVE Cardinality(Live(l)) <= 1
    BY DEF OneLiveRunPerScope, Live
  <2>1. Live(l) = {}
    BY DEF Init, Live, Fresh
  <2> QED
    BY <2>1, FS_EmptySet
<1>2. /\ TypeOK /\ CustodyInv /\ NarrowScopes /\ OneLiveRunPerScope
      /\ TypeOK' /\ Custody' /\ [Next]_vars
      => OneLiveRunPerScope'
  <2> SUFFICES ASSUME TypeOK, CustodyInv, NarrowScopes, OneLiveRunPerScope,
                      TypeOK', Custody', [Next]_vars, NEW l \in ScopedLanes
               PROVE  Cardinality(Live(l)') <= 1
    BY DEF OneLiveRunPerScope, Live
  <2>0. l \in Lanes /\ Cardinality(Live(l)) <= 1
    BY LaneAssumption DEF OneLiveRunPerScope, Live
  <2>1. IsFiniteSet(Live(l)) /\ Cardinality(Live(l)) \in Nat
    <3>1. Live(l) \in SUBSET Entries
      BY DEF Live
    <3> QED
      BY <3>1, LaneAssumption, FS_Subset, FS_CardinalityType
  <2>2. ASSUME Live(l)' \subseteq Live(l) PROVE Cardinality(Live(l)') <= 1
    <3>1. /\ Cardinality(Live(l)') <= Cardinality(Live(l)) /\ IsFiniteSet(Live(l)')
      BY <2>1, <2>2, FS_Subset
    <3>2. Cardinality(Live(l)') \in Nat
      BY <3>1, FS_CardinalityType
    <3> QED
      BY <2>0, <2>1, <3>1, <3>2
  <2>3. CASE StartTask
    <3>1. PICK m \in Lanes, o \in Objs, e \in Entries : Starts(m, o, e) /\ OnlyLane(m)
      BY <2>3, StartLive
    <3>2. CASE m # l
      BY <2>0, <2>2, <3>1, <3>2 DEF OnlyLane
    <3>3. CASE m = l
      <4>1. /\ o = LaneObj(l) /\ o = Top.obj /\ lanes[l] # 0 /\ HasWidth(o) /\ o = <<l, lanes[l]>>
        BY <3>1, <3>3 DEF Starts, MayStart, LaneObj
      <4>2. maxConcurrent[o] <= 1 /\ maxConcurrent[o] \in Nat
        BY <4>1 DEF NarrowScopes, TypeOK
      <4>3. IsFiniteSet(activeTaskIds[o]) /\ Cardinality(activeTaskIds[o]) \in Nat
        <5>1. activeTaskIds[o] \in SUBSET Entries
          BY DEF TypeOK
        <5> QED
          BY <5>1, LaneAssumption, FS_Subset, FS_CardinalityType
      <4>4. Cardinality(activeTaskIds[o]) = 0
        BY <4>1, <4>2, <4>3 DEF HasWidth
      <4>5. activeTaskIds[o] = {}
        BY <4>3, <4>4, FS_EmptySet
      <4>6. Live(l) = {}
        BY <2>0, <4>1, <4>5, LiveIsActive DEF CustodyInv, SlotsAreLive, ActiveIn
      <4>7. Live(l)' = {e}
        BY <3>1, <3>3, <4>6 DEF Starts
      <4> QED
        BY <4>7, FS_Singleton
    <3> QED
      BY <3>2, <3>3
  <2>4. CASE ResetAllLanes
    <3>1. Live(l)' = {}
      BY <2>0, <2>4, ResetEmpties, LiveIsActiveNext DEF SlotsAreLive
    <3> QED
      BY <2>2, <3>1
  <2>5. CASE LiveGivenUp
    <3>1. PICK m \in Lanes : LiveShrinks(m) /\ OnlyLane(m)
      BY <2>5 DEF LiveGivenUp
    <3>2. Live(l)' \subseteq Live(l)
      BY <2>0, <3>1 DEF LiveShrinks, OnlyLane
    <3> QED
      BY <2>2, <3>2
  <2> QED
    BY <2>3, <2>4, <2>5, LiveSteps
<1>3. CustodyInv => Custody
  BY DEF CustodyInv
<1> QED
  BY <1>1, <1>2, <1>3, Typing, CustodyKept, PTL DEF Spec

-----------------------------------------------------------------------------
(* What the frames on the stack still have to do *)

\* A pump owns an object; it will look for work again unless it was asked for
\* one entry and has started it.
Pumps(f) == IF f.fn = "drainLane" THEN {f.obj} ELSE {}
Opens(f) == IF f.fn = "drainLane" /\ ~(f.bounded /\ f.started) THEN {f.obj} ELSE {}
\* A group pump serves one definition of its group.
Serves(f) == IF f.fn = "drainCommandLaneGroup" THEN {<<f.group, f.ver>>} ELSE {}
\* A closing loop will visit its lanes; that of resetAllLanes visits idle ones too.
Visits(f) == IF f.fn = "drainEach" THEN f.todo ELSE {}
Revisits(f) == IF f.fn = "drainEach" /\ ~f.ready THEN f.todo ELSE {}

Pumped(s) == UNION {Pumps(s[i]) : i \in DOMAIN s}
Opened(s) == UNION {Opens(s[i]) : i \in DOMAIN s}
Served(s) == UNION {Serves(s[i]) : i \in DOMAIN s}
Visited(s) == UNION {Visits(s[i]) : i \in DOMAIN s}
Revisited(s) == UNION {Revisits(s[i]) : i \in DOMAIN s}

\* Everything that was pumped, served or to be visited still is.
Grows(s, t) ==
    /\ Pumped(s) \subseteq Pumped(t)
    /\ Opened(s) \subseteq Opened(t)
    /\ Served(s) \subseteq Served(t)
    /\ Visited(s) \subseteq Visited(t)
    /\ Revisited(s) \subseteq Revisited(t)

\* Pushing a frame adds its duties.
LEMMA PushDuties ==
    ASSUME NEW f \in Frames, NEW s \in Seq(Frames)
    PROVE  /\ Pumped(Push(f, s)) = Pumps(f) \cup Pumped(s)
           /\ Opened(Push(f, s)) = Opens(f) \cup Opened(s)
           /\ Served(Push(f, s)) = Serves(f) \cup Served(s)
           /\ Visited(Push(f, s)) = Visits(f) \cup Visited(s)
           /\ Revisited(Push(f, s)) = Revisits(f) \cup Revisited(s)
<1> DEFINE t == Push(f, s)
<1>1. t \in Seq(Frames) /\ Len(t) = Len(s) + 1 /\ t[1] = f
      /\ \A i \in DOMAIN s : i + 1 \in DOMAIN t /\ t[i + 1] = s[i]
  BY DEF Push
<1>2. \A j \in DOMAIN t : j = 1 \/ (j - 1 \in DOMAIN s /\ t[j] = s[j - 1])
  BY DEF Push
<1>3. 1 \in DOMAIN t
  BY <1>1
<1> HIDE DEF t
<1>4. \A x : (\E j \in DOMAIN t : x \in Pumps(t[j])) <=> x \in Pumps(f) \/ (\E i \in DOMAIN s : x \in Pumps(s[i]))
  BY <1>1, <1>2, <1>3
<1>5. \A x : (\E j \in DOMAIN t : x \in Opens(t[j])) <=> x \in Opens(f) \/ (\E i \in DOMAIN s : x \in Opens(s[i]))
  BY <1>1, <1>2, <1>3
<1>6. \A x : (\E j \in DOMAIN t : x \in Serves(t[j])) <=> x \in Serves(f) \/ (\E i \in DOMAIN s : x \in Serves(s[i]))
  BY <1>1, <1>2, <1>3
<1>7. \A x : (\E j \in DOMAIN t : x \in Visits(t[j])) <=> x \in Visits(f) \/ (\E i \in DOMAIN s : x \in Visits(s[i]))
  BY <1>1, <1>2, <1>3
<1>8. \A x : (\E j \in DOMAIN t : x \in Revisits(t[j])) <=> x \in Revisits(f) \/ (\E i \in DOMAIN s : x \in Revisits(s[i]))
  BY <1>1, <1>2, <1>3
<1>9. Pumped(t) = Pumps(f) \cup Pumped(s)
  BY <1>4 DEF Pumped
<1>10. Opened(t) = Opens(f) \cup Opened(s)
  BY <1>5 DEF Opened
<1>11. Served(t) = Serves(f) \cup Served(s)
  BY <1>6 DEF Served
<1>12. Visited(t) = Visits(f) \cup Visited(s)
  BY <1>7 DEF Visited
<1>13. Revisited(t) = Revisits(f) \cup Revisited(s)
  BY <1>8 DEF Revisited
<1> QED
  BY <1>9, <1>10, <1>11, <1>12, <1>13 DEF t

\* An empty stack has no duties.
LEMMA NoDuties ==
    /\ Pumped(<<>>) = {} /\ Opened(<<>>) = {} /\ Served(<<>>) = {}
    /\ Visited(<<>>) = {} /\ Revisited(<<>>) = {}
BY DEF Pumped, Opened, Served, Visited, Revisited

\* The duties of the stack are those of its innermost frame and of the rest.
LEMMA TopDuties ==
    ASSUME stack \in Seq(Frames), stack # <<>>
    PROVE  /\ Pumped(stack) = Pumps(Top) \cup Pumped(Tail(stack))
           /\ Opened(stack) = Opens(Top) \cup Opened(Tail(stack))
           /\ Served(stack) = Serves(Top) \cup Served(Tail(stack))
           /\ Visited(stack) = Visits(Top) \cup Visited(Tail(stack))
           /\ Revisited(stack) = Revisits(Top) \cup Revisited(Tail(stack))
<1>1. stack = Push(Top, Tail(stack))
  BY DEF Push, Top
<1>2. Top \in Frames /\ Tail(stack) \in Seq(Frames)
  BY TopType
<1>3. PICK f, s : f = Top /\ s = Tail(stack) /\ f \in Frames /\ s \in Seq(Frames)
  BY <1>2
<1>4. /\ Pumped(Push(f, s)) = Pumps(f) \cup Pumped(s)
      /\ Opened(Push(f, s)) = Opens(f) \cup Opened(s)
      /\ Served(Push(f, s)) = Serves(f) \cup Served(s)
      /\ Visited(Push(f, s)) = Visits(f) \cup Visited(s)
      /\ Revisited(Push(f, s)) = Revisits(f) \cup Revisited(s)
  BY <1>3, PushDuties
<1>5. Push(f, s) = stack
  BY <1>1, <1>3
<1> QED
  BY <1>3, <1>4, <1>5

\* drainCommandLaneGroup is not entered again for a definition that is served.
LEMMA BeingDrainedDuty ==
    ASSUME NEW g, NEW s \in Seq(Frames)
    PROVE  BeingDrained(g, s) => <<g, groups[g].ver>> \in Served(s)
<1> SUFFICES ASSUME NEW i \in DOMAIN s, s[i] = GroupFrame(g)
             PROVE  <<g, groups[g].ver>> \in Served(s)
  BY DEF BeingDrained
<1>1. <<g, groups[g].ver>> \in Serves(s[i])
  BY DEF GroupFrame, Serves
<1> QED
  BY <1>1 DEF Served

-----------------------------------------------------------------------------
(* How frames lie on each other *)

\* A pump is left only for a callback, after it started something; a group pump
\* is left only for the bounded pump of the lane it selected.
Sits(f, h) ==
    /\ h.fn = "drainLane" => h.started
    /\ h.fn = "drainCommandLaneGroup" => f.fn = "drainLane" /\ f.bounded
CallsAfterStart(f) == f.fn = "drainLane" /\ f.calls > 0 => f.started
WellStacked(s) ==
    /\ \A i \in DOMAIN s : CallsAfterStart(s[i])
    /\ \A i \in DOMAIN s : i + 1 \in DOMAIN s => Sits(s[i], s[i + 1])

\* A stack on which a new call may be placed.
Resting(s) == s # <<>> => /\ Head(s).fn # "drainCommandLaneGroup"
                          /\ Head(s).fn = "drainLane" => Head(s).started

\* A frame may be pushed where it can sit.
LEMMA PushStacked ==
    ASSUME NEW f \in Frames, NEW s \in Seq(Frames)
    PROVE  WellStacked(Push(f, s)) <=>
              CallsAfterStart(f) /\ WellStacked(s) /\ (s # <<>> => Sits(f, Head(s)))
<1> DEFINE t == Push(f, s)
<1>1. t \in Seq(Frames) /\ Len(t) = Len(s) + 1 /\ t[1] = f
      /\ \A i \in DOMAIN s : i + 1 \in DOMAIN t /\ t[i + 1] = s[i]
  BY DEF Push
<1>2. \A j \in DOMAIN t : j = 1 \/ (j - 1 \in DOMAIN s /\ t[j] = s[j - 1])
  BY DEF Push
<1>3. 1 \in DOMAIN t /\ DOMAIN t = 1 .. Len(s) + 1 /\ DOMAIN s = 1 .. Len(s) /\ Len(s) \in Nat
  BY <1>1
<1>4. s # <<>> => Len(s) > 0 /\ Head(s) = s[1]
  OBVIOUS
<1> HIDE DEF t
<1>5. (\A j \in DOMAIN t : CallsAfterStart(t[j])) <=>
         CallsAfterStart(f) /\ \A i \in DOMAIN s : CallsAfterStart(s[i])
  BY <1>1, <1>2, <1>3
<1>6. ASSUME \A j \in DOMAIN t : j + 1 \in DOMAIN t => Sits(t[j], t[j + 1])
      PROVE  /\ s # <<>> => Sits(f, Head(s))
             /\ \A i \in DOMAIN s : i + 1 \in DOMAIN s => Sits(s[i], s[i + 1])
  <2>1. s # <<>> => Sits(f, Head(s))
    <3> SUFFICES ASSUME s # <<>> PROVE Sits(t[1], t[1 + 1])
      BY <1>1, <1>3, <1>4
    <3>1. 1 \in DOMAIN s
      BY <1>3, <1>4
    <3> QED
      BY <1>1, <1>3, <1>6, <3>1
  <2>2. ASSUME NEW i \in DOMAIN s, i + 1 \in DOMAIN s PROVE Sits(s[i], s[i + 1])
    <3>1. i + 1 \in DOMAIN t /\ i + 1 + 1 \in DOMAIN t /\ t[i + 1] = s[i] /\ t[i + 1 + 1] = s[i + 1]
      BY <1>1, <2>2
    <3> QED
      BY <1>6, <3>1
  <2> QED
    BY <2>1, <2>2
<1>7. ASSUME s # <<>> => Sits(f, Head(s)),
             \A i \in DOMAIN s : i + 1 \in DOMAIN s => Sits(s[i], s[i + 1]),
             NEW j \in DOMAIN t, j + 1 \in DOMAIN t
      PROVE  Sits(t[j], t[j + 1])
  <2>1. j + 1 - 1 = j /\ j + 1 # 1
    BY <1>3
  <2>2. j \in DOMAIN s /\ t[j + 1] = s[j]
    BY <1>2, <1>7, <2>1
  <2>3. CASE j = 1
    BY <1>1, <1>3, <1>4, <1>7, <2>2, <2>3
  <2>4. CASE j # 1
    <3>1. j - 1 \in DOMAIN s /\ t[j] = s[j - 1] /\ j - 1 + 1 = j
      BY <1>2, <1>3, <2>4
    <3> QED
      BY <1>7, <2>2, <3>1
  <2> QED
    BY <2>3, <2>4
<1>8. (\A j \in DOMAIN t : j + 1 \in DOMAIN t => Sits(t[j], t[j + 1])) <=>
         /\ s # <<>> => Sits(f, Head(s))
         /\ \A i \in DOMAIN s : i + 1 \in DOMAIN s => Sits(s[i], s[i + 1])
  BY <1>6, <1>7
<1> QED
  BY <1>5, <1>8 DEF WellStacked, t

\* The innermost frame sits on the rest of the stack.
LEMMA TopStacked ==
    ASSUME stack \in Seq(Frames), stack # <<>>, WellStacked(stack)
    PROVE  /\ CallsAfterStart(Top) /\ WellStacked(Tail(stack))
           /\ Tail(stack) # <<>> => Sits(Top, Head(Tail(stack)))
<1>1. stack = Push(Top, Tail(stack))
  BY DEF Push, Top
<1>2. Top \in Frames /\ Tail(stack) \in Seq(Frames)
  BY TopType
<1>3. PICK f, s : f = Top /\ s = Tail(stack) /\ f \in Frames /\ s \in Seq(Frames)
  BY <1>2
<1> QED
  BY <1>1, <1>3, PushStacked

\* Replacing the innermost frame: its duties replace those it had.
LEMMA ReplaceTop ==
    ASSUME stack \in Seq(Frames), stack # <<>>, WellStacked(stack),
           NEW f \in Frames, CallsAfterStart(f), f.fn = Top.fn,
           f.fn = "drainLane" => f.bounded = Top.bounded
    PROVE  /\ Push(f, Tail(stack)) \in Seq(Frames)
           /\ WellStacked(Push(f, Tail(stack)))
           /\ Push(f, Tail(stack)) # <<>> /\ Head(Push(f, Tail(stack))) = f
           /\ Pumped(Push(f, Tail(stack))) = Pumps(f) \cup Pumped(Tail(stack))
           /\ Opened(Push(f, Tail(stack))) = Opens(f) \cup Opened(Tail(stack))
           /\ Served(Push(f, Tail(stack))) = Serves(f) \cup Served(Tail(stack))
           /\ Visited(Push(f, Tail(stack))) = Visits(f) \cup Visited(Tail(stack))
           /\ Revisited(Push(f, Tail(stack))) = Revisits(f) \cup Revisited(Tail(stack))
<1>1. PICK s : s = Tail(stack) /\ s \in Seq(Frames)
  BY TopType
<1>2. WellStacked(s) /\ (s # <<>> => Sits(Top, Head(s)))
  BY <1>1, TopStacked
<1>3. s # <<>> => Sits(f, Head(s))
  BY <1>2 DEF Sits
<1>4. WellStacked(Push(f, s))
  BY <1>1, <1>2, <1>3, PushStacked
<1>5. Push(f, s) \in Seq(Frames)
  BY <1>1, PushType
<1>6. Push(f, s) # <<>> /\ Head(Push(f, s)) = f
  BY <1>1 DEF Push
<1>7. /\ Pumped(Push(f, s)) = Pumps(f) \cup Pumped(s)
      /\ Opened(Push(f, s)) = Opens(f) \cup Opened(s)
      /\ Served(Push(f, s)) = Serves(f) \cup Served(s)
      /\ Visited(Push(f, s)) = Visits(f) \cup Visited(s)
      /\ Revisited(Push(f, s)) = Revisits(f) \cup Revisited(s)
  BY <1>1, PushDuties
<1> QED
  BY <1>1, <1>4, <1>5, <1>6, <1>7

SameDuties(s, t) ==
    /\ Pumped(s) = Pumped(t) /\ Opened(s) = Opened(t) /\ Served(s) = Served(t)
    /\ Visited(s) = Visited(t) /\ Revisited(s) = Revisited(t)

\* A frame that differs only in the calls left to its callback.
LEMMA ReplaceCalls ==
    ASSUME TypeOK, WellStacked(stack), stack # <<>>, Top \in LaneFrames, Top.started,
           NEW n \in 0 .. MaxCalls
    PROVE  LET t == Push([Top EXCEPT !.calls = n], Tail(stack)) IN
           /\ t \in Seq(Frames) /\ WellStacked(t) /\ Resting(t) /\ SameDuties(stack, t)
           /\ t # <<>> /\ Head(t).started /\ Head(t).fn = "drainLane"
<1>1. PICK f : f = [Top EXCEPT !.calls = n]
  OBVIOUS
<1>2. /\ f \in LaneFrames /\ f.fn = "drainLane" /\ f.obj = Top.obj /\ f.bounded = Top.bounded
      /\ f.started = Top.started /\ Top.fn = "drainLane"
  BY <1>1 DEF LaneFrames
<1>3. f \in Frames /\ stack \in Seq(Frames) /\ CallsAfterStart(f)
  BY <1>2 DEF Frames, TypeOK, CallsAfterStart
<1>4. Pumps(f) = Pumps(Top) /\ Opens(f) = Opens(Top) /\ Serves(f) = Serves(Top)
      /\ Visits(f) = Visits(Top) /\ Revisits(f) = Revisits(Top)
  BY <1>2 DEF Pumps, Opens, Serves, Visits, Revisits
<1>5. PICK t : t = Push(f, Tail(stack))
  OBVIOUS
<1>6. /\ t \in Seq(Frames) /\ WellStacked(t) /\ t # <<>> /\ Head(t) = f
      /\ Pumped(t) = Pumps(f) \cup Pumped(Tail(stack))
      /\ Opened(t) = Opens(f) \cup Opened(Tail(stack))
      /\ Served(t) = Serves(f) \cup Served(Tail(stack))
      /\ Visited(t) = Visits(f) \cup Visited(Tail(stack))
      /\ Revisited(t) = Revisits(f) \cup Revisited(Tail(stack))
  BY <1>2, <1>3, <1>5, ReplaceTop
<1>7. SameDuties(stack, t)
  BY <1>3, <1>4, <1>6, TopDuties DEF SameDuties
<1> QED
  BY <1>1, <1>2, <1>5, <1>6, <1>7 DEF Resting

\* A call from a callback leaves the duties of the stack as they are.
LEMMA CallerDuties ==
    ASSUME TypeOK, WellStacked(stack), Callable
    PROVE  /\ Caller \in Seq(Frames) /\ WellStacked(Caller) /\ Resting(Caller)
           /\ SameDuties(stack, Caller)
<1>1. CASE stack = <<>>
  BY <1>1 DEF Caller, Resting, SameDuties, TypeOK
<1>2. CASE stack # <<>>
  <2>1. Top \in LaneFrames /\ Top.calls > 0
    BY <1>2, LaneTop DEF TypeOK, Callable, InCallback
  <2>2. Top.started
    BY <1>2, <2>1, TopStacked DEF TypeOK, CallsAfterStart, LaneFrames
  <2>3. PICK n \in 0 .. MaxCalls : n = Top.calls - 1
    BY <2>1, BoundAssumption DEF LaneFrames
  <2>4. Caller = Push([Top EXCEPT !.calls = n], Tail(stack))
    BY <1>2, <2>3 DEF Caller
  <2> QED
    BY <1>2, <2>1, <2>2, <2>4, ReplaceCalls
<1> QED
  BY <1>1, <1>2

-----------------------------------------------------------------------------
(* What a pump call adds *)

\* drainReadyCommandLane(o), called on top of stk with the draining flags dr:
\* either o's own pump is there (dr[o], or a new one), or its group is served.
LEMMA DrainReadyDuties ==
    ASSUME TypeOK, NEW o \in Objs, NEW stk \in Seq(Frames), NEW dr \in [Objs -> BOOLEAN],
           WellStacked(stk), Resting(stk), DrainReady(o, stk, dr)
    PROVE  /\ WellStacked(stack') /\ Grows(stk, stack')
           /\ stack' # <<>> /\ Head(stack').fn = "drainLane" /\ Head(stack').bounded
                 => Head(stack').started
           /\ groupByLane[o[1]] = NoGroup => dr[o] \/ o \in Opened(stack') \cap Pumped(stack')
           /\ groupByLane[o[1]] # NoGroup =>
                 <<groupByLane[o[1]], groups[groupByLane[o[1]]].ver>> \in Served(stack')
           /\ \A p \in Objs : draining'[p] => dr[p] \/ p \in Opened(stack') \cap Pumped(stack')
<1> DEFINE g == groupByLane[o[1]]
<1>0. g \in GroupIds \cup {NoGroup}
  BY DEF TypeOK, Objs
<1>r. stk # <<>> /\ Head(stk).fn = "drainLane" => Head(stk).started
  BY DEF Resting
<1>g. Grows(stk, stk)
  BY DEF Grows
<1>1. CASE g = NoGroup /\ dr[o]
  <2>1. stack' = stk /\ draining' = dr
    BY <1>1 DEF DrainReady, DrainLane
  <2> QED
    BY <1>1, <1>r, <1>g, <2>1
<1>2. CASE g = NoGroup /\ ~dr[o]
  <2>1. PICK f : f = LaneFrame(o, FALSE)
    OBVIOUS
  <2>2. stack' = Push(f, stk) /\ draining' = [dr EXCEPT ![o] = TRUE]
    BY <1>2, <2>1 DEF DrainReady, DrainLane
  <2>3. f.fn = "drainLane" /\ f.obj = o /\ ~f.bounded /\ f.calls = 0 /\ f \in Frames
    BY <2>1, BoundAssumption DEF LaneFrame, Frames, LaneFrames
  <2>4. CallsAfterStart(f) /\ (stk # <<>> => Sits(f, Head(stk)))
    BY <2>3 DEF CallsAfterStart, Sits, Resting
  <2>5. WellStacked(stack')
    BY <2>2, <2>3, <2>4, PushStacked
  <2>6. /\ Pumped(stack') = Pumps(f) \cup Pumped(stk)
        /\ Opened(stack') = Opens(f) \cup Opened(stk)
        /\ Served(stack') = Serves(f) \cup Served(stk)
        /\ Visited(stack') = Visits(f) \cup Visited(stk)
        /\ Revisited(stack') = Revisits(f) \cup Revisited(stk)
    BY <2>2, <2>3, PushDuties
  <2>7. o \in Opens(f) /\ o \in Pumps(f)
    BY <2>3 DEF Opens, Pumps
  <2>8. Grows(stk, stack')
    BY <2>6 DEF Grows
  <2>9. Head(stack') = f
    BY <2>2 DEF Push
  <2>10. \A p \in Objs : draining'[p] => dr[p] \/ p = o
    BY <2>2
  <2> QED
    BY <1>2, <2>1, <2>3, <2>5, <2>6, <2>7, <2>8, <2>9, <2>10
<1>3. CASE g # NoGroup /\ BeingDrained(g, stk)
  <2>1. stack' = stk /\ draining' = dr
    BY <1>3 DEF DrainReady
  <2> QED
    BY <1>3, <1>r, <1>g, <2>1, BeingDrainedDuty
<1>4. CASE g # NoGroup /\ ~BeingDrained(g, stk)
  <2>1. PICK f : f = GroupFrame(g)
    OBVIOUS
  <2>2. stack' = Push(f, stk) /\ draining' = dr
    BY <1>4, <2>1 DEF DrainReady
  <2>3. f.fn = "drainCommandLaneGroup" /\ f.group = g /\ f.ver = groups[g].ver
    BY <2>1 DEF GroupFrame
  <2>4. f \in Frames
    BY <1>0, <1>4, <2>1 DEF TypeOK, GroupFrame, GroupStates, Frames, GroupFrames
  <2>5. CallsAfterStart(f) /\ (stk # <<>> => Sits(f, Head(stk)))
    BY <2>3 DEF CallsAfterStart, Sits, Resting
  <2>6. WellStacked(stack')
    BY <2>2, <2>4, <2>5, PushStacked
  <2>7. /\ Pumped(stack') = Pumps(f) \cup Pumped(stk)
        /\ Opened(stack') = Opens(f) \cup Opened(stk)
        /\ Served(stack') = Serves(f) \cup Served(stk)
        /\ Visited(stack') = Visits(f) \cup Visited(stk)
        /\ Revisited(stack') = Revisits(f) \cup Revisited(stk)
    BY <2>2, <2>4, PushDuties
  <2>8. <<g, groups[g].ver>> \in Serves(f)
    BY <2>3 DEF Serves
  <2>9. Grows(stk, stack')
    BY <2>7 DEF Grows
  <2>10. Head(stack') = f
    BY <2>2 DEF Push
  <2> QED
    BY <1>4, <2>2, <2>3, <2>6, <2>7, <2>8, <2>9, <2>10
<1> QED
  BY <1>1, <1>2, <1>3, <1>4

-----------------------------------------------------------------------------
(* No work is left behind *)

\* Some call on the stack s will look at lane l again.
CoveredBy(l, s) ==
    \/ LaneObj(l) \in Opened(s)
    \/ groupByLane[l] # NoGroup /\ <<groupByLane[l], groups[groupByLane[l]].ver>> \in Served(s)
    \/ l \in Visited(s)
ServedBy(l, s) == Waiting(l) /\ ActiveIn(l) = {} => CoveredBy(l, s)

\* The lane a group pump has selected may start.
SelectedStarts ==
    stack # <<>> /\ Top.fn = "drainLane" /\ Top.bounded /\ ~Top.started => MayStart(Top)

\* A draining flag belongs to a pump on the stack, which goes on looking for work
\* or has started something.
OwnerPumps(o) == draining[o] => /\ o \in Pumped(stack)
                                /\ o \in Opened(stack) \/ activeTaskIds[o] # {}

\* A lane with work that could start runs something or will be looked at again.
WorkServed == \A l \in Lanes : ServedBy(l, stack)

PumpInv ==
    /\ WellStacked(stack)
    /\ SelectedStarts
    /\ \A o \in Objs : OwnerPumps(o)
    /\ WorkServed

\* CanAdmitInGroup, by the sets it counts.
Admits(M, b, R, A, l) ==
    /\ Cardinality(Held(M, A)) < b
    /\ \/ Cardinality(A[l]) < R[l]
       \/ Cardinality(Held(M, A)) + Cardinality(Unmet(M, A, b, R)) < b
AdmissionCounted ==
    \A l \in Lanes : CanAdmitInGroup(l) <=>
        \A g \in GroupIds : groupByLane[l] = g =>
            Admits(groups[g].members, groups[g].budget, groups[g].reservations, ActiveMap, l)

\* Admission counts the slots of the lane's own group.
LEMMA AdmissionByMap == TypeOK => AdmissionCounted
<1> SUFFICES ASSUME TypeOK, NEW l \in Lanes
             PROVE  CanAdmitInGroup(l) <=>
                      \A g \in GroupIds : groupByLane[l] = g =>
                        Admits(groups[g].members, groups[g].budget, groups[g].reservations,
                               ActiveMap, l)
  BY DEF AdmissionCounted
<1>1. PICK h : h = groupByLane[l]
  OBVIOUS
<1>2. h \in GroupIds \cup {NoGroup}
  BY <1>1 DEF TypeOK
<1>3. CASE h = NoGroup
  BY <1>1, <1>3, GroupAssumption DEF CanAdmitInGroup
<1>4. CASE h # NoGroup
  <2>1. h \in GroupIds
    BY <1>2, <1>4
  <2>2. /\ Active(h) = Cardinality(Held(groups[h].members, ActiveMap))
        /\ Reserved(h) = Cardinality(Unmet(groups[h].members, ActiveMap, groups[h].budget,
                                           groups[h].reservations))
    BY <2>1, CountedByMap DEF Active, Reserved
  <2>3. ActiveMap[l] = ActiveIn(l)
    BY DEF ActiveMap
  <2> QED
    BY <1>1, <1>4, <2>1, <2>2, <2>3 DEF CanAdmitInGroup, Admits
<1> QED
  BY <1>3, <1>4

\* The same in the next state.
LEMMA AdmissionByMapNext == TypeOK' => AdmissionCounted'
BY AdmissionByMap, PTL

\* Admission to a group depends only on the runs of its members.
LEMMA AdmitsSame ==
    ASSUME NEW M, NEW b, NEW R, NEW A, NEW B, NEW l, A[l] = B[l], \A m \in M : A[m] = B[m]
    PROVE  Admits(M, b, R, A, l) <=> Admits(M, b, R, B, l)
<1>1. Held(M, A) = Held(M, B) /\ Unmet(M, A, b, R) = Unmet(M, B, b, R)
  BY DEF Held, Unmet
<1> QED
  BY <1>1 DEF Admits

\* A start does not open a group to a sibling.
LEMMA AdmitsGrow ==
    ASSUME NEW M \in SUBSET Lanes, NEW b \in Nat, NEW R \in [Lanes -> Nat],
           NEW A \in [Lanes -> SUBSET Entries], NEW B \in [Lanes -> SUBSET Entries],
           NEW l \in Lanes, NEW e \in Entries, NEW m \in Lanes \ {l},
           e \notin A[l], B[l] = A[l] \cup {e}, \A x \in Lanes \ {l} : B[x] = A[x],
           Admits(M, b, R, B, m)
    PROVE  Admits(M, b, R, A, m)
<1>1. A[m] = B[m]
  OBVIOUS
<1>2. CASE l \notin M
  <2>1. \A x \in M : A[x] = B[x]
    BY <1>2
  <2> QED
    BY <1>1, <2>1, AdmitsSame
<1>3. CASE l \in M
  <2>1. \A x \in M, f \in Entries :
           /\ f \notin A[x] /\ B[x] = A[x] \cup {f}
           /\ \A y \in Lanes \ {x} : B[y] = A[y]
           => /\ Cardinality(Held(M, B)) = Cardinality(Held(M, A)) + 1
              /\ Cardinality(Unmet(M, A, b, R)) <= Cardinality(Unmet(M, B, b, R)) + 1
    BY GrowSlots
  <2>2. /\ Cardinality(Held(M, B)) = Cardinality(Held(M, A)) + 1
        /\ Cardinality(Unmet(M, A, b, R)) <= Cardinality(Unmet(M, B, b, R)) + 1
    BY <1>3, <2>1
  <2>3. /\ Cardinality(Held(M, A)) \in Nat /\ Cardinality(Held(M, B)) \in Nat
        /\ Cardinality(Unmet(M, A, b, R)) \in Nat /\ Cardinality(Unmet(M, B, b, R)) \in Nat
    BY SlotsFinite
  <2> QED
    BY <1>1, <2>2, <2>3 DEF Admits
<1> QED
  BY <1>2, <1>3

\* The lane's group, and what its members run, are untouched.
SameGroup(l) ==
    /\ groupByLane'[l] = groupByLane[l]
    /\ \A g \in GroupIds : groupByLane[l] = g =>
          groups'[g] = groups[g] /\ \A m \in groups[g].members : Live(m)' = Live(m)

\* Then its admission is.
LEMMA AdmissionSame ==
    ASSUME TypeOK, TypeOK', Custody, Custody', NEW l \in Lanes, SameGroup(l), Live(l)' = Live(l)
    PROVE  /\ CanAdmitInGroup(l)' <=> CanAdmitInGroup(l)
           /\ ActiveIn(l)' = ActiveIn(l)
<1>1. PICK A, B : A = ActiveMap /\ B = ActiveMap'
  OBVIOUS
<1>2. \A m \in Lanes : A[m] = ActiveIn(m) /\ B[m] = ActiveIn(m)'
  BY <1>1 DEF ActiveMap
<1>3. \A m \in Lanes : A[m] = Live(m) /\ B[m] = Live(m)'
  BY <1>2, LiveIsActive, LiveIsActiveNext DEF SlotsAreLive
<1>4. A[l] = B[l]
  BY <1>3
<1>5. ASSUME NEW g \in GroupIds, groupByLane[l] = g
      PROVE  Admits(groups[g].members, groups[g].budget, groups[g].reservations, A, l)
               <=> Admits(groups'[g].members, groups'[g].budget, groups'[g].reservations, B, l)
  <2>1. groups'[g] = groups[g] /\ \A m \in groups[g].members : Live(m)' = Live(m)
    BY <1>5 DEF SameGroup
  <2>2. PICK M, b, R : M = groups[g].members /\ b = groups[g].budget /\ R = groups[g].reservations
    OBVIOUS
  <2>3. M \subseteq Lanes
    BY <2>2 DEF TypeOK, GroupStates
  <2>4. \A m \in M : A[m] = B[m]
    BY <1>3, <2>1, <2>2, <2>3
  <2>5. Admits(M, b, R, A, l) <=> Admits(M, b, R, B, l)
    BY <1>4, <2>4, AdmitsSame
  <2> QED
    BY <2>1, <2>2, <2>5
<1>6. CanAdmitInGroup(l) <=>
        \A g \in GroupIds : groupByLane[l] = g =>
            Admits(groups[g].members, groups[g].budget, groups[g].reservations, A, l)
  BY <1>1, AdmissionByMap DEF AdmissionCounted
<1>7. CanAdmitInGroup(l)' <=>
        \A g \in GroupIds : groupByLane'[l] = g =>
            Admits(groups'[g].members, groups'[g].budget, groups'[g].reservations, B, l)
  BY <1>1, AdmissionByMapNext DEF AdmissionCounted
<1>8. groupByLane'[l] = groupByLane[l]
  BY DEF SameGroup
<1> QED
  BY <1>2, <1>4, <1>5, <1>6, <1>7, <1>8

\* More duties cover more.
LEMMA CoverGrows ==
    ASSUME NEW l \in Lanes, NEW s, NEW t, Grows(s, t), ServedBy(l, s)
    PROVE  ServedBy(l, t)
BY DEF ServedBy, CoveredBy, Grows

\* A lane that gets no work, no width and no capacity waits as before.
LEMMA QuietLane ==
    ASSUME TypeOK, TypeOK', Custody, Custody', NEW l \in Lanes,
           ServedBy(l, stack'), SameGroup(l), Live(l)' = Live(l),
           lanes'[l] # 0 => lanes'[l] = lanes[l],
           lanes'[l] # 0 => /\ queue'[<<l, lanes[l]>>] \subseteq queue[<<l, lanes[l]>>]
                            /\ maxConcurrent'[<<l, lanes[l]>>] = maxConcurrent[<<l, lanes[l]>>]
    PROVE  ServedBy(l, stack)'
<1> SUFFICES ASSUME Waiting(l)', ActiveIn(l)' = {} PROVE CoveredBy(l, stack)'
  BY DEF ServedBy
<1>1. lanes'[l] # 0 /\ lanes[l] # 0 /\ lanes'[l] = lanes[l]
  BY DEF Waiting
<1>2. PICK o : o = <<l, lanes[l]>>
  OBVIOUS
<1>3. LaneObj(l) = o /\ LaneObj(l)' = o
  BY <1>1, <1>2 DEF LaneObj
<1>4. (CanAdmitInGroup(l)' <=> CanAdmitInGroup(l)) /\ ActiveIn(l)' = ActiveIn(l)
  BY AdmissionSame
<1>5. activeTaskIds[o] = ActiveIn(l) /\ activeTaskIds'[o] = ActiveIn(l)'
  BY <1>1, <1>2 DEF ActiveIn
<1>6. queue'[o] # {} /\ Cardinality(activeTaskIds'[o]) < maxConcurrent'[o] /\ CanAdmitInGroup(l)'
  BY <1>3 DEF Waiting, HasWidth
<1>7. Waiting(l)
  BY <1>1, <1>2, <1>3, <1>4, <1>5, <1>6 DEF Waiting, HasWidth
<1>8. CoveredBy(l, stack')
  BY <1>4, <1>7 DEF ServedBy
<1>9. groupByLane'[l] = groupByLane[l]
      /\ (groupByLane[l] # NoGroup => groups'[groupByLane[l]] = groups[groupByLane[l]])
  BY DEF SameGroup, TypeOK
<1> QED
  BY <1>3, <1>8, <1>9 DEF CoveredBy

\* A lane that is pumped now is looked at again, or its pump has started something.
LEMMA PumpedLane ==
    ASSUME TypeOK, NEW l \in Lanes, NEW o \in Objs, o[1] = l, lanes'[l] = o[2],
           NEW stk \in Seq(Frames), NEW dr \in [Objs -> BOOLEAN],
           WellStacked(stk), Resting(stk), DrainReady(o, stk, dr),
           UNCHANGED <<groups, groupByLane>>,
           dr[o] => o \in Opened(stk) \/ activeTaskIds'[o] # {}
    PROVE  ServedBy(l, stack)'
<1> SUFFICES ASSUME ActiveIn(l)' = {} PROVE CoveredBy(l, stack)'
  BY DEF ServedBy
<1>1. o = <<l, o[2]>> /\ o[2] # 0
  BY DEF Objs
<1>2. LaneObj(l)' = o /\ activeTaskIds'[o] = {}
  BY <1>1 DEF LaneObj, ActiveIn
<1>3. /\ groupByLane[l] = NoGroup => dr[o] \/ o \in Opened(stack') \cap Pumped(stack')
      /\ groupByLane[l] # NoGroup =>
            <<groupByLane[l], groups[groupByLane[l]].ver>> \in Served(stack')
      /\ Opened(stk) \subseteq Opened(stack')
  BY DrainReadyDuties DEF Grows
<1> QED
  BY <1>2, <1>3 DEF CoveredBy

\* A turn of a pump leaves its duties as they are, unless it was to start one
\* entry only.
LEMMA StartDuties ==
    ASSUME TypeOK, WellStacked(stack), StartTask, NEW o \in Objs, o = Top.obj
    PROVE  /\ WellStacked(stack') /\ Resting(stack')
           /\ Pumped(stack') = Pumped(stack) /\ Served(stack') = Served(stack)
           /\ Visited(stack') = Visited(stack) /\ Revisited(stack') = Revisited(stack)
           /\ Opened(stack) \subseteq Opened(stack') \cup {o}
<1>1. stack \in Seq(Frames) /\ stack # <<>> /\ Top \in LaneFrames /\ Top.fn = "drainLane"
  BY LaneTop DEF StartTask, Pumping, TypeOK
<1>2. PICK calls \in {0, MaxCalls} :
         stack' = Push([Top EXCEPT !.started = TRUE, !.calls = calls], Tail(stack))
  BY DEF StartTask
<1>0. calls \in 0 .. MaxCalls
  BY BoundAssumption
<1>3. PICK f : f = [Top EXCEPT !.started = TRUE, !.calls = calls]
  OBVIOUS
<1>4. /\ f \in LaneFrames /\ f.fn = "drainLane" /\ f.obj = o /\ f.bounded = Top.bounded
      /\ f.started
  <2>1. PICK h : h = [Top EXCEPT !.started = TRUE]
    OBVIOUS
  <2>2. h \in LaneFrames /\ h.obj = o /\ h.bounded = Top.bounded /\ h.started
    BY <1>1, <2>1 DEF LaneFrames
  <2>3. f = [h EXCEPT !.calls = calls]
    BY <1>3, <2>1, Zenon
  <2> QED
    BY <1>0, <2>2, <2>3 DEF LaneFrames
<1>5. f \in Frames /\ CallsAfterStart(f) /\ stack' = Push(f, Tail(stack))
  BY <1>2, <1>3, <1>4 DEF Frames, CallsAfterStart
<1>6. /\ WellStacked(stack') /\ Head(stack') = f
      /\ Pumped(stack') = Pumps(f) \cup Pumped(Tail(stack))
      /\ Opened(stack') = Opens(f) \cup Opened(Tail(stack))
      /\ Served(stack') = Serves(f) \cup Served(Tail(stack))
      /\ Visited(stack') = Visits(f) \cup Visited(Tail(stack))
      /\ Revisited(stack') = Revisits(f) \cup Revisited(Tail(stack))
  BY <1>1, <1>4, <1>5, ReplaceTop
<1>7. /\ Pumped(stack) = Pumps(Top) \cup Pumped(Tail(stack))
      /\ Opened(stack) = Opens(Top) \cup Opened(Tail(stack))
      /\ Served(stack) = Serves(Top) \cup Served(Tail(stack))
      /\ Visited(stack) = Visits(Top) \cup Visited(Tail(stack))
      /\ Revisited(stack) = Revisits(Top) \cup Revisited(Tail(stack))
  BY <1>1, TopDuties
<1>8. /\ Pumps(f) = {o} /\ Pumps(Top) = {o} /\ Opens(Top) \subseteq {o}
      /\ Serves(f) = {} /\ Serves(Top) = {} /\ Visits(f) = {} /\ Visits(Top) = {}
      /\ Revisits(f) = {} /\ Revisits(Top) = {}
  BY <1>1, <1>4 DEF Pumps, Opens, Serves, Visits, Revisits
<1> QED
  BY <1>4, <1>6, <1>7, <1>8 DEF Resting

\* A started entry keeps its lane from waiting in vain, and takes capacity from
\* the siblings only.
LEMMA ServedStart ==
    ASSUME TypeOK, TypeOK', CustodyInv, Custody', PumpInv, StartTask
    PROVE  PumpInv'
<1> USE DEF config, registry
<1>1. PICK l \in Lanes, o \in Objs, e \in Entries : Starts(l, o, e) /\ OnlyLane(l)
  BY StartLive
<1>10. /\ WellStacked(stack') /\ Resting(stack')
       /\ Pumped(stack') = Pumped(stack) /\ Served(stack') = Served(stack)
       /\ Visited(stack') = Visited(stack) /\ Opened(stack) \subseteq Opened(stack') \cup {o}
  BY <1>1, StartDuties DEF PumpInv, Starts
<1>11. activeTaskIds'[o] = activeTaskIds[o] \cup {e}
       /\ \A p \in Objs \ {o} : activeTaskIds'[p] = activeTaskIds[p]
  BY <1>1 DEF Starts, TypeOK
<1>12. SelectedStarts'
  BY <1>10 DEF SelectedStarts, Top, Resting
<1>13. \A p \in Objs : OwnerPumps(p)'
  <2>1. draining' = draining
    BY DEF StartTask
  <2> QED
    BY <1>10, <1>11, <2>1 DEF PumpInv, OwnerPumps
<1>14. ASSUME NEW m \in Lanes PROVE ServedBy(m, stack)'
  <2>0. UNCHANGED <<lanes, created, maxConcurrent, groups, groupByLane>>
        /\ queue' = [queue EXCEPT ![o] = @ \ {e}]
    BY <1>1 DEF StartTask, Starts
  <2>1. CASE m = l
    <3>1. ActiveIn(m)' = activeTaskIds'[o]
      BY <1>1, <2>0, <2>1 DEF Starts, ActiveIn, LaneObj
    <3> QED
      BY <1>11, <3>1 DEF ServedBy
  <2>2. CASE m # l
    <3> SUFFICES ASSUME Waiting(m)', ActiveIn(m)' = {} PROVE CoveredBy(m, stack)'
      BY DEF ServedBy
    <3>1. lanes'[m] # 0 /\ lanes[m] # 0
      BY <2>0 DEF Waiting
    <3>2. PICK p \in Objs : p = LaneObj(m) /\ p = <<m, lanes[m]>>
      BY <3>1, LaneObjType DEF LaneObj
    <3>3. LaneObj(m) = p /\ LaneObj(m)' = p /\ p # o
      BY <1>1, <2>0, <2>2, <3>1, <3>2 DEF LaneObj, Starts
    <3>4. queue'[p] = queue[p] /\ activeTaskIds'[p] = activeTaskIds[p]
      BY <1>11, <2>0, <3>3 DEF TypeOK
    <3>5. ActiveIn(m) = {}
      BY <2>0, <3>1, <3>2, <3>4 DEF ActiveIn
    <3>6. CanAdmitInGroup(m)
      <4>1. PICK A, B : A = ActiveMap /\ B = ActiveMap'
        OBVIOUS
      <4>2. \A x \in Lanes : A[x] = Live(x) /\ B[x] = Live(x)'
        <5>1. \A x \in Lanes : A[x] = ActiveIn(x) /\ B[x] = ActiveIn(x)'
          BY <4>1 DEF ActiveMap
        <5> QED
          BY <5>1, LiveIsActive, LiveIsActiveNext DEF CustodyInv, SlotsAreLive
      <4>3. e \notin A[l] /\ B[l] = A[l] \cup {e} /\ \A x \in Lanes \ {l} : B[x] = A[x]
        BY <1>1, <4>2 DEF Starts, OnlyLane
      <4>4. \A g \in GroupIds : groupByLane[m] = g =>
               Admits(groups[g].members, groups[g].budget, groups[g].reservations, B, m)
        BY <2>0, <4>1, AdmissionByMapNext DEF AdmissionCounted, Waiting
      <4>5. ASSUME NEW g \in GroupIds, groupByLane[m] = g
            PROVE  Admits(groups[g].members, groups[g].budget, groups[g].reservations, A, m)
        <5>1. PICK M, b, R : /\ M = groups[g].members /\ b = groups[g].budget
                             /\ R = groups[g].reservations
          OBVIOUS
        <5>2. M \in SUBSET Lanes /\ b \in Nat /\ R \in [Lanes -> Nat]
          BY <5>1 DEF TypeOK, GroupStates
        <5>3. A \in [Lanes -> SUBSET Entries] /\ B \in [Lanes -> SUBSET Entries]
          BY <4>1, <4>5, CountedByMap, CountedByMapNext
        <5>4. Admits(M, b, R, B, m)
          BY <4>4, <4>5, <5>1
        <5>5. Admits(M, b, R, A, m)
          BY <2>2, <4>3, <5>2, <5>3, <5>4, AdmitsGrow
        <5> QED
          BY <5>1, <5>5
      <4> QED
        BY <4>1, <4>5, AdmissionByMap DEF AdmissionCounted
    <3>7. Waiting(m)
      BY <2>0, <3>1, <3>3, <3>4, <3>6 DEF Waiting, HasWidth
    <3>8. CoveredBy(m, stack)
      BY <3>5, <3>7 DEF PumpInv, WorkServed, ServedBy
    <3> QED
      BY <1>10, <2>0, <3>3, <3>8 DEF CoveredBy
  <2> QED
    BY <2>1, <2>2
<1> QED
  BY <1>10, <1>12, <1>13, <1>14 DEF PumpInv, WorkServed

\* The rest of the pump leaves entries, groups and configuration alone; it only
\* has to leave each lane to some other call.
LEMMA ServedQuietly ==
    ASSUME TypeOK, TypeOK', CustodyInv, Custody',
           UNCHANGED <<queue, activeTaskIds, maxConcurrent, generation, groups, groupByLane, entry>>,
           \A l \in Lanes : lanes'[l] # 0 => lanes'[l] = lanes[l],
           \A l \in Lanes : ServedBy(l, stack')
    PROVE  WorkServed'
<1>1. \A l \in Lanes : Live(l)' = Live(l)
  BY DEF Live
<1>2. \A g \in GroupIds : groups[g].members \subseteq Lanes
  BY DEF TypeOK, GroupStates
<1>3. ASSUME NEW l \in Lanes PROVE ServedBy(l, stack)'
  <2>1. SameGroup(l)
    BY <1>1, <1>2 DEF SameGroup
  <2>2. lanes'[l] # 0 => /\ queue'[<<l, lanes[l]>>] \subseteq queue[<<l, lanes[l]>>]
                         /\ maxConcurrent'[<<l, lanes[l]>>] = maxConcurrent[<<l, lanes[l]>>]
    OBVIOUS
  <2> QED
    BY <1>1, <2>1, <2>2, QuietLane DEF CustodyInv
<1> QED
  BY <1>3 DEF WorkServed

\* The callback returns to a pump that has started something.
LEMMA ServedCallbackReturns ==
    ASSUME TypeOK, TypeOK', CustodyInv, Custody', PumpInv, CallbackReturns
    PROVE  PumpInv'
<1> USE DEF config, registry
<1>1. stack # <<>> /\ Top \in LaneFrames /\ Top.calls > 0 /\ stack \in Seq(Frames)
      /\ Top.fn = "drainLane"
  BY LaneTop DEF CallbackReturns, InCallback, TypeOK
<1>2. Top.started
  BY <1>1, TopStacked DEF PumpInv, CallsAfterStart
<1>3. 0 \in 0 .. MaxCalls
  BY BoundAssumption
<1>4. stack' = Push([Top EXCEPT !.calls = 0], Tail(stack))
  BY DEF CallbackReturns
<1>5. /\ WellStacked(stack') /\ SameDuties(stack, stack')
      /\ stack' # <<>> /\ Head(stack').started
  BY <1>1, <1>2, <1>3, <1>4, ReplaceCalls DEF PumpInv
<1>6. SelectedStarts'
  BY <1>5 DEF SelectedStarts, Top
<1>7. UNCHANGED <<lanes, queue, activeTaskIds, maxConcurrent, draining, generation,
                  groups, groupByLane, entry>>
  BY DEF CallbackReturns
<1>8. \A o \in Objs : OwnerPumps(o)'
  BY <1>5, <1>7 DEF PumpInv, OwnerPumps, SameDuties
<1>9. \A l \in Lanes : ServedBy(l, stack')
  BY <1>5 DEF PumpInv, WorkServed, ServedBy, CoveredBy, SameDuties
<1>10. WorkServed'
  BY <1>7, <1>9, ServedQuietly
<1> QED
  BY <1>5, <1>6, <1>8, <1>10 DEF PumpInv

\* A pump that returns uncovers the call it was made from; that is no group pump
\* which would return with it.
LEMMA ReturnDuties ==
    ASSUME TypeOK, WellStacked(stack), SelectedStarts, DrainLaneReturns,
           NEW o \in Objs, o = Top.obj
    PROVE  /\ stack' = Tail(stack) /\ WellStacked(stack') /\ SelectedStarts'
           /\ Pumped(stack) = {o} \cup Pumped(stack') /\ Served(stack) = Served(stack')
           /\ Visited(stack) = Visited(stack') /\ Revisited(stack) = Revisited(stack')
           /\ Opened(stack) = (IF Top.bounded /\ Top.started THEN {} ELSE {o}) \cup Opened(stack')
<1>1. stack # <<>> /\ Top \in LaneFrames /\ stack \in Seq(Frames) /\ Top.fn = "drainLane"
      /\ ~MayStart(Top)
  BY LaneTop DEF DrainLaneReturns, Pumping, TypeOK
<1>2. PICK s : s = Tail(stack) /\ s \in Seq(Frames)
  BY <1>1, TopType
<1>3. WellStacked(s) /\ (s # <<>> => Sits(Top, Head(s)))
  BY <1>1, <1>2, TopStacked
<1>4. ~(Top.bounded /\ ~Top.started)
  BY <1>1 DEF SelectedStarts
<1>5. stack' = s
  <2>1. ~(~Top.started /\ s # <<>> /\ Head(s).fn = "drainCommandLaneGroup")
    BY <1>3, <1>4 DEF Sits
  <2> QED
    BY <1>2, <2>1 DEF DrainLaneReturns, ReturnTo
<1>6. /\ Pumped(stack) = Pumps(Top) \cup Pumped(s)
      /\ Opened(stack) = Opens(Top) \cup Opened(s)
      /\ Served(stack) = Serves(Top) \cup Served(s)
      /\ Visited(stack) = Visits(Top) \cup Visited(s)
      /\ Revisited(stack) = Revisits(Top) \cup Revisited(s)
  BY <1>1, <1>2, TopDuties
<1>7. /\ Pumps(Top) = {o} /\ Serves(Top) = {} /\ Visits(Top) = {} /\ Revisits(Top) = {}
      /\ Opens(Top) = IF Top.bounded /\ Top.started THEN {} ELSE {o}
  BY <1>1 DEF Pumps, Opens, Serves, Visits, Revisits
<1>8. SelectedStarts'
  BY <1>3, <1>5 DEF SelectedStarts, Top, Sits
<1> QED
  BY <1>2, <1>3, <1>5, <1>6, <1>7, <1>8

\* A pump returns when its lane has no more to start.
LEMMA ServedLaneReturns ==
    ASSUME TypeOK, TypeOK', CustodyInv, Custody', PumpInv, DrainLaneReturns
    PROVE  PumpInv'
<1> USE DEF config, registry
<1>1. stack # <<>> /\ Top \in LaneFrames /\ ~MayStart(Top)
  BY LaneTop DEF DrainLaneReturns, Pumping, TypeOK
<1>6. PICK o \in Objs : o = Top.obj
  BY <1>1 DEF LaneFrames
<1>7. /\ draining' = [draining EXCEPT ![o] = FALSE]
      /\ lanes' = Retire(o, queue[o], activeTaskIds[o], FALSE)
      /\ UNCHANGED <<queue, activeTaskIds, maxConcurrent, generation, groups, groupByLane, entry>>
  BY <1>6 DEF DrainLaneReturns
<1>8. /\ WellStacked(stack') /\ SelectedStarts'
      /\ Pumped(stack) = {o} \cup Pumped(stack') /\ Served(stack) = Served(stack')
      /\ Visited(stack) = Visited(stack')
      /\ Opened(stack) = (IF Top.bounded /\ Top.started THEN {} ELSE {o}) \cup Opened(stack')
  BY <1>6, ReturnDuties DEF PumpInv
<1>11. ASSUME NEW p \in Objs PROVE OwnerPumps(p)'
  <2>1. CASE p = o
    BY <1>7, <2>1 DEF TypeOK, OwnerPumps
  <2>2. CASE p # o
    <3>1. draining'[p] = draining[p] /\ activeTaskIds'[p] = activeTaskIds[p]
      BY <1>7, <2>2
    <3>2. p \in Pumped(stack) => p \in Pumped(stack')
      BY <1>8, <2>2
    <3>3. p \in Opened(stack) => p \in Opened(stack')
      BY <1>8, <2>2
    <3> QED
      BY <3>1, <3>2, <3>3 DEF PumpInv, OwnerPumps
  <2> QED
    BY <2>1, <2>2
<1>12. \A l \in Lanes : lanes'[l] # 0 => lanes'[l] = lanes[l]
  BY <1>6, <1>7 DEF Retire, TypeOK
<1>13. ASSUME NEW l \in Lanes PROVE ServedBy(l, stack')
  <2> SUFFICES ASSUME Waiting(l), ActiveIn(l) = {} PROVE CoveredBy(l, stack')
    BY DEF ServedBy
  <2>1. CoveredBy(l, stack)
    BY DEF PumpInv, WorkServed, ServedBy
  <2>2. LaneObj(l) = o => Top.bounded /\ Top.started
    <3> SUFFICES ASSUME LaneObj(l) = o PROVE Top.bounded /\ Top.started
      OBVIOUS
    <3>1. o[1] = l
      BY DEF LaneObj
    <3> QED
      BY <1>1, <1>6, <3>1 DEF Waiting, MayStart
  <2>3. LaneObj(l) \in Opened(stack) => LaneObj(l) \in Opened(stack')
    BY <1>8, <2>2
  <2> QED
    BY <1>8, <2>1, <2>3 DEF CoveredBy
<1>14. WorkServed'
  BY <1>7, <1>12, <1>13, ServedQuietly
<1> QED
  BY <1>8, <1>11, <1>14 DEF PumpInv

\* A group pump takes the lane its arbitration chose, or returns when no lane of
\* the definition it serves may start.
LEMMA ServedGroupStep ==
    ASSUME TypeOK, TypeOK', CustodyInv, Custody', PumpInv, GroupMapsAgree, DrainGroupStep
    PROVE  PumpInv'
<1> USE DEF config, registry
<1>1. /\ stack # <<>> /\ Top \in GroupFrames /\ stack \in Seq(Frames)
      /\ Top.fn = "drainCommandLaneGroup"
  BY GroupTop DEF DrainGroupStep, Pumping, TypeOK
<1>2. PICK g \in GroupIds : g = Top.group
  BY <1>1 DEF GroupFrames
<1>3. UNCHANGED <<lanes, created, queue, activeTaskIds, maxConcurrent, generation,
                  groups, groupByLane, entry>>
  BY DEF DrainGroupStep
<1>4. CASE groups[g].ver = Top.ver /\ Candidates(g) # {}
  <2>1. PICK l \in Selected(g) : DrainLane(LaneObj(l), TRUE, stack, draining)
    BY <1>2, <1>4 DEF DrainGroupStep
  <2>2. l \in Lanes /\ l \in Candidates(g) /\ lanes[l] # 0
    BY <2>1 DEF Selected, Candidates, TypeOK, GroupStates
  <2>3. PICK o \in Objs : o = LaneObj(l)
    BY <2>2, LaneObjType
  <2>4. ~draining[o] /\ HasWidth(o) /\ queue[o] # {} /\ CanAdmitInGroup(l) /\ o[1] = l
    BY <2>2, <2>3 DEF Candidates, LaneObj
  <2>5. PICK f : f = LaneFrame(o, TRUE)
    OBVIOUS
  <2>6. stack' = Push(f, stack) /\ draining' = [draining EXCEPT ![o] = TRUE]
    BY <2>1, <2>3, <2>4, <2>5 DEF DrainLane
  <2>7. /\ f \in Frames /\ f.fn = "drainLane" /\ f.obj = o /\ f.bounded /\ ~f.started
        /\ f.calls = 0
    BY <2>5, BoundAssumption DEF LaneFrame, Frames, LaneFrames
  <2>8. WellStacked(stack')
    <3>1. CallsAfterStart(f) /\ Sits(f, Head(stack))
      BY <1>1, <2>7 DEF CallsAfterStart, Sits, Top
    <3> QED
      BY <1>1, <2>6, <2>7, <3>1, PushStacked DEF PumpInv
  <2>9. /\ Pumped(stack') = Pumps(f) \cup Pumped(stack)
        /\ Opened(stack') = Opens(f) \cup Opened(stack)
        /\ Served(stack') = Serves(f) \cup Served(stack)
        /\ Visited(stack') = Visits(f) \cup Visited(stack)
        /\ Revisited(stack') = Revisits(f) \cup Revisited(stack)
    BY <1>1, <2>6, <2>7, PushDuties
  <2>10. o \in Pumps(f) /\ o \in Opens(f)
    BY <2>7 DEF Pumps, Opens
  <2>11. SelectedStarts'
    <3>1. Head(stack') = f
      BY <2>6 DEF Push
    <3>2. HasWidth(o)' /\ queue'[o] # {} /\ CanAdmitInGroup(l)'
      BY <1>3, <2>4 DEF HasWidth, CanAdmitInGroup, Active, Reserved, HeldSlots, UnmetSlots, ActiveIn
    <3>3. MayStart(f)'
      BY <2>4, <2>7, <3>2 DEF MayStart
    <3> QED
      BY <3>1, <3>3 DEF SelectedStarts, Top
  <2>12. ASSUME NEW p \in Objs PROVE OwnerPumps(p)'
    <3>1. CASE p = o
      BY <2>9, <2>10, <3>1 DEF OwnerPumps
    <3>2. CASE p # o
      BY <1>3, <2>6, <2>9, <3>2 DEF PumpInv, OwnerPumps
    <3> QED
      BY <3>1, <3>2
  <2>13. Grows(stack, stack')
    BY <2>9 DEF Grows
  <2>14. \A m \in Lanes : ServedBy(m, stack')
    BY <2>13, CoverGrows DEF PumpInv, WorkServed
  <2>15. WorkServed'
    BY <1>3, <2>14, ServedQuietly
  <2> QED
    BY <2>8, <2>11, <2>12, <2>15 DEF PumpInv
<1>5. CASE ~(groups[g].ver = Top.ver /\ Candidates(g) # {})
  <2>1. stack' = Tail(stack) /\ draining' = draining
    BY <1>2, <1>5 DEF DrainGroupStep
  <2>2. PICK s : s = Tail(stack) /\ s \in Seq(Frames)
    BY <1>1, TopType
  <2>3. WellStacked(s) /\ (s # <<>> => Sits(Top, Head(s)))
    BY <1>1, <2>2, TopStacked DEF PumpInv
  <2>4. /\ Pumped(stack) = Pumps(Top) \cup Pumped(s)
        /\ Opened(stack) = Opens(Top) \cup Opened(s)
        /\ Served(stack) = Serves(Top) \cup Served(s)
        /\ Visited(stack) = Visits(Top) \cup Visited(s)
    BY <1>1, <2>2, TopDuties
  <2>5. /\ Pumps(Top) = {} /\ Opens(Top) = {} /\ Visits(Top) = {}
        /\ Serves(Top) = {<<g, Top.ver>>}
    BY <1>1, <1>2 DEF Pumps, Opens, Serves, Visits
  <2>6. Pumped(s) = Pumped(stack) /\ Opened(s) = Opened(stack) /\ Visited(s) = Visited(stack)
    BY <2>4, <2>5
  <2>7. SelectedStarts'
    BY <2>1, <2>2, <2>3 DEF SelectedStarts, Top, Sits
  <2>8. \A o \in Objs : OwnerPumps(o)'
    BY <1>3, <2>1, <2>2, <2>6 DEF PumpInv, OwnerPumps
  <2>9. ASSUME NEW l \in Lanes PROVE ServedBy(l, stack')
    <3> SUFFICES ASSUME Waiting(l), ActiveIn(l) = {} PROVE CoveredBy(l, stack')
      BY DEF ServedBy
    <3>1. CoveredBy(l, stack)
      BY DEF PumpInv, WorkServed, ServedBy
    <3>2. CASE <<groupByLane[l], groups[groupByLane[l]].ver>> # <<g, Top.ver>>
      BY <2>1, <2>2, <2>4, <2>5, <2>6, <3>1, <3>2 DEF CoveredBy
    <3>3. CASE <<groupByLane[l], groups[groupByLane[l]].ver>> = <<g, Top.ver>>
      <4>1. groupByLane[l] = g /\ groups[g].ver = Top.ver /\ l \in groups[g].members
        BY <3>3 DEF GroupMapsAgree
      <4>2. Candidates(g) = {}
        BY <1>5, <4>1
      <4>3. PICK o \in Objs : o = LaneObj(l) /\ o = <<l, lanes[l]>> /\ lanes[l] # 0
        BY LaneObjType DEF Waiting, LaneObj
      <4>4. draining[o]
        BY <4>1, <4>2, <4>3 DEF Waiting, Candidates, TypeOK
      <4>5. activeTaskIds[o] = {}
        BY <4>3 DEF ActiveIn
      <4>6. o \in Opened(stack)
        BY <4>4, <4>5 DEF PumpInv, OwnerPumps
      <4> QED
        BY <2>1, <2>2, <2>6, <4>3, <4>6 DEF CoveredBy
    <3> QED
      BY <3>2, <3>3
  <2>10. WorkServed'
    BY <1>3, <2>9, ServedQuietly
  <2> QED
    BY <2>1, <2>2, <2>3, <2>7, <2>8, <2>10 DEF PumpInv
<1> QED
  BY <1>4, <1>5

\* The closing loops pump each lane they visit, or the lane has nothing to start.
LEMMA ServedEachStep ==
    ASSUME TypeOK, TypeOK', CustodyInv, Custody', PumpInv, DrainEachStep
    PROVE  PumpInv'
<1> USE DEF config, registry
<1>1. /\ stack # <<>> /\ Top \in LoopFrames /\ stack \in Seq(Frames) /\ Top.fn = "drainEach"
  BY LoopTop DEF DrainEachStep, Pumping, TypeOK
<1>2. UNCHANGED <<lanes, created, queue, activeTaskIds, maxConcurrent, generation,
                  groups, groupByLane, entry>>
  BY DEF DrainEachStep
<1>3. PICK s : s = Tail(stack) /\ s \in Seq(Frames)
  BY <1>1, TopType
<1>4. WellStacked(s) /\ (s # <<>> => Sits(Top, Head(s)))
  BY <1>1, <1>3, TopStacked DEF PumpInv
<1>5. /\ Pumped(stack) = Pumps(Top) \cup Pumped(s)
      /\ Opened(stack) = Opens(Top) \cup Opened(s)
      /\ Served(stack) = Serves(Top) \cup Served(s)
      /\ Visited(stack) = Visits(Top) \cup Visited(s)
  BY <1>1, <1>3, TopDuties
<1>6. Pumps(Top) = {} /\ Opens(Top) = {} /\ Serves(Top) = {} /\ Visits(Top) = Top.todo
  BY <1>1 DEF Pumps, Opens, Serves, Visits
<1>7. CASE Top.todo = {} /\ stack' = s /\ draining' = draining
  <2>1. SelectedStarts'
    BY <1>4, <1>7 DEF SelectedStarts, Top, Sits
  <2>2. \A o \in Objs : OwnerPumps(o)'
    BY <1>2, <1>5, <1>6, <1>7 DEF PumpInv, OwnerPumps
  <2>3. \A l \in Lanes : ServedBy(l, stack')
    BY <1>5, <1>6, <1>7 DEF PumpInv, WorkServed, ServedBy, CoveredBy
  <2>4. WorkServed'
    BY <1>2, <2>3, ServedQuietly
  <2> QED
    BY <1>4, <1>7, <2>1, <2>2, <2>4 DEF PumpInv
<1>8. ASSUME NEW l \in Top.todo, NEW rest,
             rest = Push([Top EXCEPT !.todo = @ \ {l}], Tail(stack)),
             \/ /\ \/ lanes[l] = 0
                   \/ /\ Top.ready
                      /\ maxConcurrent[LaneObj(l)] = 0 \/ queue[LaneObj(l)] = {}
                            \/ draining[LaneObj(l)]
                /\ stack' = rest /\ draining' = draining
             \/ lanes[l] # 0 /\ DrainReady(LaneObj(l), rest, draining)
      PROVE  PumpInv'
  <2>0. l \in Lanes
    BY <1>1 DEF LoopFrames
  <2>1. PICK f : f = [Top EXCEPT !.todo = @ \ {l}]
    OBVIOUS
  <2>2. f \in LoopFrames /\ f.fn = "drainEach" /\ f.todo = Top.todo \ {l}
    BY <1>1, <2>1 DEF LoopFrames
  <2>3. f \in Frames /\ CallsAfterStart(f)
    BY <2>2 DEF Frames, CallsAfterStart
  <2>4. /\ rest \in Seq(Frames) /\ WellStacked(rest) /\ rest # <<>> /\ Head(rest) = f
        /\ Pumped(rest) = Pumps(f) \cup Pumped(s)
        /\ Opened(rest) = Opens(f) \cup Opened(s)
        /\ Served(rest) = Serves(f) \cup Served(s)
        /\ Visited(rest) = Visits(f) \cup Visited(s)
    BY <1>1, <1>3, <1>8, <2>1, <2>2, <2>3, ReplaceTop DEF PumpInv
  <2>5. Pumps(f) = {} /\ Opens(f) = {} /\ Serves(f) = {} /\ Visits(f) = Top.todo \ {l}
    BY <2>2 DEF Pumps, Opens, Serves, Visits
  <2>6. /\ Pumped(rest) = Pumped(stack) /\ Opened(rest) = Opened(stack)
        /\ Served(rest) = Served(stack) /\ Visited(stack) \subseteq Visited(rest) \cup {l}
    BY <1>5, <1>6, <2>4, <2>5
  <2>7. Resting(rest)
    BY <2>2, <2>4 DEF Resting
  <2>8. \A m \in Lanes \ {l} : ServedBy(m, rest)
    BY <2>6 DEF PumpInv, WorkServed, ServedBy, CoveredBy
  <2>9. \A p \in Objs : draining[p] => /\ p \in Pumped(rest)
                                       /\ p \in Opened(rest) \/ activeTaskIds[p] # {}
    BY <2>6 DEF PumpInv, OwnerPumps
  <2>10. CASE /\ \/ lanes[l] = 0
                 \/ /\ Top.ready
                    /\ maxConcurrent[LaneObj(l)] = 0 \/ queue[LaneObj(l)] = {}
                          \/ draining[LaneObj(l)]
              /\ stack' = rest /\ draining' = draining
    <3>1. ServedBy(l, rest)
      <4> SUFFICES ASSUME Waiting(l), ActiveIn(l) = {} PROVE CoveredBy(l, rest)
        BY DEF ServedBy
      <4>1. PICK o \in Objs : o = LaneObj(l) /\ o = <<l, lanes[l]>> /\ lanes[l] # 0
        BY <2>0, LaneObjType DEF Waiting, LaneObj
      <4>2. activeTaskIds[o] = {}
        BY <4>1 DEF ActiveIn
      <4>3. maxConcurrent[o] # 0
        BY <4>1, <4>2, FS_EmptySet DEF Waiting, HasWidth
      <4>4. draining[o]
        BY <2>10, <4>1, <4>3 DEF Waiting
      <4> QED
        BY <2>9, <4>1, <4>2, <4>4 DEF CoveredBy
    <3>2. SelectedStarts'
      BY <2>2, <2>4, <2>10 DEF SelectedStarts, Top
    <3>3. \A o \in Objs : OwnerPumps(o)'
      BY <1>2, <2>9, <2>10 DEF OwnerPumps
    <3>4. \A m \in Lanes : ServedBy(m, stack')
      BY <2>8, <2>10, <3>1
    <3>5. WorkServed'
      BY <1>2, <3>4, ServedQuietly
    <3> QED
      BY <2>4, <2>10, <3>2, <3>3, <3>5 DEF PumpInv
  <2>11. CASE lanes[l] # 0 /\ DrainReady(LaneObj(l), rest, draining)
    <3>1. PICK o \in Objs : o = LaneObj(l) /\ o = <<l, lanes[l]>> /\ o[1] = l /\ o[2] = lanes[l]
      BY <2>0, <2>11, LaneObjType DEF LaneObj
    <3>2. draining \in [Objs -> BOOLEAN] /\ activeTaskIds \in [Objs -> SUBSET Entries]
      BY DEF TypeOK
    <3>4. /\ WellStacked(stack') /\ Grows(rest, stack')
          /\ stack' # <<>> /\ Head(stack').fn = "drainLane" /\ Head(stack').bounded
                => Head(stack').started
          /\ \A p \in Objs : draining'[p] => draining[p] \/ p \in Opened(stack') \cap Pumped(stack')
      BY <2>4, <2>7, <2>11, <3>1, <3>2, DrainReadyDuties
    <3>3. /\ WellStacked(stack') /\ SelectedStarts'
          /\ \A p \in Objs : draining'[p] => /\ p \in Pumped(stack')
                                             /\ p \in Opened(stack') \/ activeTaskIds[p] # {}
      BY <2>9, <3>4 DEF SelectedStarts, Top, Grows
    <3>5. \A m \in Lanes \ {l} : ServedBy(m, stack')
      BY <2>8, <3>4 DEF ServedBy, CoveredBy, Grows
    <3>6. ServedBy(l, stack)'
      BY <1>2, <2>0, <2>4, <2>7, <2>9, <2>11, <3>1, <3>2, PumpedLane
    <3>7. ServedBy(l, stack')
      BY <1>2, <3>6 DEF ServedBy, CoveredBy, Waiting, ActiveIn, LaneObj, HasWidth, CanAdmitInGroup,
           Active, Reserved, HeldSlots, UnmetSlots
    <3>8. \A m \in Lanes : ServedBy(m, stack')
      BY <3>5, <3>7
    <3>9. WorkServed'
      BY <1>2, <3>8, ServedQuietly
    <3> QED
      BY <1>2, <3>3, <3>9 DEF PumpInv, OwnerPumps
  <2> QED
    BY <1>8, <2>10, <2>11
<1>9. (Top.todo = {} /\ stack' = s /\ draining' = draining) \/ PumpInv'
  <2>1. CASE Top.todo = {} /\ stack' = Tail(stack) /\ draining' = draining
    BY <1>3, <2>1
  <2>2. ASSUME NEW l \in Top.todo, NEW rest,
               rest = Push([Top EXCEPT !.todo = @ \ {l}], Tail(stack)),
               IF lanes[l] = 0 \/ (/\ Top.ready
                                   /\ maxConcurrent[LaneObj(l)] = 0 \/ queue[LaneObj(l)] = {}
                                        \/ draining[LaneObj(l)])
               THEN stack' = rest /\ draining' = draining
               ELSE DrainReady(LaneObj(l), rest, draining)
        PROVE  PumpInv'
    BY <1>8, <2>2
  <2> QED
    BY <2>1, <2>2 DEF DrainEachStep
<1> QED
  BY <1>7, <1>9

\* A call that pumps nothing takes work away at most, and leaves the calls in
\* progress their duties.
LEMMA ServedCall ==
    ASSUME TypeOK, TypeOK', CustodyInv, Custody', PumpInv, Callable, stack' = Caller,
           UNCHANGED <<draining, activeTaskIds, maxConcurrent, groups, groupByLane>>,
           \A l \in Lanes : Live(l)' = Live(l),
           \A l \in Lanes : lanes'[l] # 0 => lanes'[l] = lanes[l],
           \A o \in Objs : queue'[o] \subseteq queue[o]
    PROVE  PumpInv'
<1>1. WellStacked(stack') /\ Resting(stack') /\ SameDuties(stack, stack')
  BY CallerDuties DEF PumpInv
<1>2. SelectedStarts'
  BY <1>1 DEF SelectedStarts, Top, Resting
<1>3. \A o \in Objs : OwnerPumps(o)'
  BY <1>1 DEF PumpInv, OwnerPumps, SameDuties
<1>4. ASSUME NEW l \in Lanes PROVE ServedBy(l, stack)'
  <2>1. ServedBy(l, stack')
    BY <1>1 DEF PumpInv, WorkServed, ServedBy, CoveredBy, SameDuties
  <2>2. SameGroup(l)
    <3>1. \A g \in GroupIds : groups[g].members \subseteq Lanes
      BY DEF TypeOK, GroupStates
    <3> QED
      BY <3>1 DEF SameGroup
  <2>3. lanes'[l] # 0 => /\ queue'[<<l, lanes[l]>>] \subseteq queue[<<l, lanes[l]>>]
                         /\ maxConcurrent'[<<l, lanes[l]>>] = maxConcurrent[<<l, lanes[l]>>]
    BY LaneObjType DEF LaneObj
  <2> QED
    BY <2>1, <2>2, <2>3, QuietLane DEF CustodyInv
<1> QED
  BY <1>1, <1>2, <1>3, <1>4 DEF PumpInv, WorkServed

\* A call that changes one lane and then pumps it.  The siblings whose group
\* gained room are looked at by the group's pump.
LEMMA ServedPumpedCall ==
    ASSUME TypeOK, TypeOK', CustodyInv, Custody', PumpInv, GroupMapsAgree,
           NEW l \in Lanes, NEW o \in Objs, o[1] = l, lanes'[l] = o[2],
           NEW stk \in Seq(Frames), NEW dr \in [Objs -> BOOLEAN],
           WellStacked(stk), Resting(stk), SameDuties(stack, stk), DrainReady(o, stk, dr),
           UNCHANGED <<groups, groupByLane>>, OnlyLane(l),
           \A p \in Objs \ {o} : (dr[p] => draining[p]) /\ activeTaskIds'[p] = activeTaskIds[p],
           dr[o] => draining[o] /\ (o \in Opened(stack) \/ activeTaskIds'[o] # {}),
           \A m \in Lanes \ {l} : lanes'[m] = lanes[m],
           \A p \in Objs : p[1] # l => queue'[p] = queue[p] /\ maxConcurrent'[p] = maxConcurrent[p]
    PROVE  PumpInv'
<1>1. /\ WellStacked(stack') /\ Grows(stk, stack')
      /\ stack' # <<>> /\ Head(stack').fn = "drainLane" /\ Head(stack').bounded
            => Head(stack').started
      /\ groupByLane[l] # NoGroup =>
            <<groupByLane[l], groups[groupByLane[l]].ver>> \in Served(stack')
      /\ \A p \in Objs : draining'[p] => dr[p] \/ p \in Opened(stack') \cap Pumped(stack')
  BY DrainReadyDuties
<1>2. Grows(stack, stack')
  BY <1>1 DEF Grows, SameDuties
<1>3. SelectedStarts'
  BY <1>1 DEF SelectedStarts, Top
<1>4. ASSUME NEW p \in Objs PROVE OwnerPumps(p)'
  <2>1. CASE dr[p]
    <3>1. p \in Pumped(stack)
      BY <2>1 DEF PumpInv, OwnerPumps
    <3>2. p \in Opened(stack) \/ activeTaskIds'[p] # {}
      BY <2>1 DEF PumpInv, OwnerPumps
    <3> QED
      BY <1>2, <3>1, <3>2 DEF OwnerPumps, Grows
  <2>2. CASE ~dr[p]
    BY <1>1, <2>2 DEF OwnerPumps
  <2> QED
    BY <2>1, <2>2
<1>5. ServedBy(l, stack)'
  <2>1. dr[o] => o \in Opened(stk) \/ activeTaskIds'[o] # {}
    BY DEF SameDuties
  <2> QED
    BY <2>1, PumpedLane
<1>6. ASSUME NEW m \in Lanes, m # l PROVE ServedBy(m, stack)'
  <2>1. CASE groupByLane[m] # NoGroup /\ groupByLane[m] = groupByLane[l]
    BY <1>1, <2>1 DEF ServedBy, CoveredBy
  <2>2. CASE groupByLane[m] = NoGroup \/ groupByLane[m] # groupByLane[l]
    <3>1. SameGroup(m)
      <4>1. ASSUME NEW g \in GroupIds, groupByLane[m] = g, NEW x \in groups[g].members
            PROVE  Live(x)' = Live(x)
        <5>1. x \in Lanes
          BY <4>1 DEF TypeOK, GroupStates
        <5>2. groupByLane[x] = g
          BY <4>1, <5>1 DEF GroupMapsAgree
        <5>3. x # l
          BY <2>2, <4>1, <5>2, GroupAssumption
        <5> QED
          BY <5>1, <5>3 DEF OnlyLane
      <4> QED
        BY <4>1 DEF SameGroup
    <3>2. ServedBy(m, stack')
      BY <1>2 DEF PumpInv, WorkServed, ServedBy, CoveredBy, Grows
    <3>3. Live(m)' = Live(m) /\ lanes'[m] = lanes[m]
      BY <1>6 DEF OnlyLane
    <3>4. lanes'[m] # 0 => /\ queue'[<<m, lanes[m]>>] \subseteq queue[<<m, lanes[m]>>]
                           /\ maxConcurrent'[<<m, lanes[m]>>] = maxConcurrent[<<m, lanes[m]>>]
      <4> SUFFICES ASSUME lanes'[m] # 0
                   PROVE  /\ queue'[<<m, lanes[m]>>] \subseteq queue[<<m, lanes[m]>>]
                          /\ maxConcurrent'[<<m, lanes[m]>>] = maxConcurrent[<<m, lanes[m]>>]
        OBVIOUS
      <4>1. <<m, lanes[m]>> \in Objs
        BY <3>3, LaneObjType DEF LaneObj
      <4> QED
        BY <1>6, <4>1
    <3> QED
      BY <3>1, <3>2, <3>3, <3>4, QuietLane DEF CustodyInv
  <2> QED
    BY <2>1, <2>2
<1> QED
  BY <1>1, <1>3, <1>4, <1>5, <1>6 DEF PumpInv, WorkServed

\* Enqueueing pumps the lane; aborting and clearing leave less to start; a
\* completion pumps the lane and the group that gained a slot.
LEMMA ServedUserCall ==
    ASSUME TypeOK, TypeOK', CustodyInv, Custody', PumpInv, GroupMapsAgree,
           UserCall \/ \E e \in Entries : Settle(e)
    PROVE  PumpInv'
<1> USE DEF config, registry
<1>r. "rejected" \in Statuses /\ "settled" \in Statuses
  BY DEF Statuses
<1>d. draining \in [Objs -> BOOLEAN]
  BY DEF TypeOK
<1>1. ASSUME NEW e \in Entries, NEW l \in Lanes, NEW p \in Priorities, Enqueue(e, l, p)
      PROVE  PumpInv'
  <2>1. /\ LaneObj(l) \in Objs
        /\ queue' = [queue EXCEPT ![LaneObj(l)] = @ \cup {e}]
        /\ lanes' = [lanes EXCEPT ![l] = LaneObj(l)[2]]
        /\ DrainReady(LaneObj(l), Caller, draining)
        /\ UNCHANGED <<activeTaskIds, maxConcurrent, generation, groups, groupByLane>>
        /\ Callable
    BY <1>1 DEF Enqueue, GetLaneState
  <2>2. PICK o \in Objs : o = LaneObj(l) /\ o[1] = l
    BY <2>1 DEF LaneObj
  <2>3. PICK stk \in Seq(Frames) : /\ stk = Caller
                                   /\ WellStacked(stk) /\ Resting(stk) /\ SameDuties(stack, stk)
    BY <2>1, CallerDuties DEF PumpInv
  <2>4. lanes'[l] = o[2] /\ \A m \in Lanes \ {l} : lanes'[m] = lanes[m]
    BY <2>1, <2>2 DEF TypeOK
  <2>5. \A q \in Objs : q[1] # l => queue'[q] = queue[q] /\ maxConcurrent'[q] = maxConcurrent[q]
    BY <2>1, <2>2 DEF TypeOK
  <2>6. entry[e].status # "started" /\ entry'[e].status # "started"
        /\ \A f \in Entries \ {e} : entry'[f] = entry[f]
    BY <1>1 DEF Enqueue, TypeOK
  <2>7. OnlyLane(l)
    BY <2>1, <2>6, LiveKept DEF OnlyLane
  <2>8. draining[o] => o \in Opened(stack) \/ activeTaskIds'[o] # {}
    BY <2>1 DEF PumpInv, OwnerPumps
  <2>9. DrainReady(o, stk, draining)
    BY <2>1, <2>2, <2>3
  <2> QED
    BY <1>d, <2>1, <2>2, <2>3, <2>4, <2>5, <2>7, <2>8, <2>9, ServedPumpedCall
<1>2. ASSUME NEW e \in Entries, NEW aborted \in BOOLEAN, Refuse(e, aborted)
      PROVE  PumpInv'
  <2>1. generation' = generation /\ entry[e].status # "started" /\ entry'[e].status # "started"
    BY <1>2, <1>r, FreshStatus DEF Refuse, TypeOK
  <2>2. \A f \in Entries \ {e} : entry'[f] = entry[f]
    BY <1>2 DEF Refuse, TypeOK
  <2>3. \A l \in Lanes : Live(l)' = Live(l)
    BY <2>1, <2>2, LiveKept
  <2> QED
    BY <1>2, <2>3, ServedCall DEF Refuse
<1>3. ASSUME NEW e \in Entries, Abort(e)
      PROVE  PumpInv'
  <2>1. generation' = generation /\ entry[e].status # "started" /\ entry'[e].status # "started"
    BY <1>3, <1>r, FreshStatus DEF Abort, TypeOK
  <2>2. \A f \in Entries \ {e} : entry'[f] = entry[f]
    BY <1>3 DEF Abort, TypeOK
  <2>3. \A l \in Lanes : Live(l)' = Live(l)
    BY <2>1, <2>2, LiveKept
  <2>4. PICK o \in Objs : o = entry[e].owner
    BY DEF TypeOK, EntryStates
  <2>5. /\ queue' = [queue EXCEPT ![o] = @ \ {e}]
        /\ lanes' = Retire(o, queue[o] \ {e}, activeTaskIds[o], draining[o])
    BY <1>3, <2>4 DEF Abort
  <2>6. \A q \in Objs : queue'[q] \subseteq queue[q]
    BY <2>5 DEF TypeOK
  <2>7. \A l \in Lanes : lanes'[l] # 0 => lanes'[l] = lanes[l]
    BY <2>5 DEF Retire, TypeOK
  <2> QED
    BY <1>3, <2>3, <2>6, <2>7, ServedCall DEF Abort
<1>4. ASSUME NEW l \in Lanes, ClearLane(l)
      PROVE  PumpInv'
  <2>1. PICK o \in Objs : o = LaneObj(l)
    BY <1>4, LaneObjType DEF ClearLane
  <2>2. \A e \in queue[o] : entry[e].status = "queued"
    BY DEF CustodyInv, Custody
  <2>3. generation' = generation
    BY <1>4 DEF ClearLane
  <2>4. \A e \in Entries : entry'[e] = IF e \in queue[o]
                             THEN [Fresh EXCEPT !.status = "rejected"] ELSE entry[e]
    BY <1>4, <2>1 DEF ClearLane
  <2>5. \A e \in Entries : entry'[e] = entry[e]
                           \/ (entry[e].status # "started" /\ entry'[e].status # "started")
    BY <1>r, <2>2, <2>4, FreshStatus
  <2>6. \A m \in Lanes : Live(m)' = Live(m)
    BY <2>3, <2>5, LiveKept
  <2>7. \A q \in Objs : queue'[q] \subseteq queue[q]
    BY <1>4, <2>1 DEF ClearLane, TypeOK
  <2> QED
    BY <1>4, <2>6, <2>7, ServedCall DEF ClearLane
<1>5. ASSUME NEW e \in Entries, Settle(e)
      PROVE  PumpInv'
  <2>1. stack = <<>> /\ entry[e].status = "started" /\ stack \in Seq(Frames)
    BY <1>5 DEF Settle, TypeOK
  <2>2. PICK o \in Objs : o = entry[e].owner
    BY DEF TypeOK, EntryStates
  <2>3. PICK l \in Lanes : l = o[1]
    BY DEF Objs
  <2>4. generation' = generation /\ entry'[e].status # "started"
    BY <1>5, <1>r, FreshStatus DEF Settle, TypeOK
  <2>5. \A f \in Entries \ {e} : entry'[f] = entry[f]
    BY <1>5 DEF Settle, TypeOK
  <2>6. UNCHANGED <<lanes, queue, maxConcurrent, groups, groupByLane>>
    BY <1>5 DEF Settle
  <2>7. CASE entry[e].generation # generation[o]
    <3>1. UNCHANGED <<activeTaskIds, draining, stack>>
      BY <1>5, <2>2, <2>7 DEF Settle
    <3>2. \A m \in Lanes : Live(m)' = Live(m)
      BY <2>2, <2>4, <2>5, <2>7 DEF Live
    <3>3. Callable /\ stack' = Caller
      BY <2>1, <3>1 DEF Callable, Caller
    <3> QED
      BY <2>6, <3>1, <3>2, <3>3, ServedCall
  <2>8. CASE entry[e].generation = generation[o]
    <3>1. /\ activeTaskIds' = [activeTaskIds EXCEPT ![o] = @ \ {e}]
          /\ DrainReady(o, stack, draining)
      BY <1>5, <2>2, <2>8 DEF Settle
    <3>2. e \in activeTaskIds[o]
      BY <2>1, <2>2, <2>8 DEF CustodyInv, Custody
    <3>3. lanes'[l] = o[2]
      BY <2>3, <2>6, <3>2 DEF CustodyInv, Custody, Registered
    <3>4. OnlyLane(l)
      BY <2>2, <2>3, <2>4, <2>5 DEF OnlyLane, Live
    <3>5. ~draining[o]
      BY <2>1, NoDuties DEF PumpInv, OwnerPumps
    <3>6. \A p \in Objs \ {o} : activeTaskIds'[p] = activeTaskIds[p]
      BY <3>1 DEF TypeOK
    <3>7. WellStacked(stack) /\ Resting(stack) /\ SameDuties(stack, stack)
      BY <2>1 DEF PumpInv, Resting, SameDuties
    <3> QED
      BY <1>d, <2>1, <2>3, <2>6, <3>1, <3>3, <3>4, <3>5, <3>6, <3>7, ServedPumpedCall
  <2> QED
    BY <2>7, <2>8
<1> QED
  BY <1>1, <1>2, <1>3, <1>4, <1>5 DEF UserCall

\* A new width pumps the lane, a width of nothing keeps it from starting; the
\* commit pass visits every lane that a new configuration could let start.
LEMMA ServedConfigure ==
    ASSUME TypeOK, TypeOK', CustodyInv, Custody', PumpInv, GroupMapsAgree, Configure
    PROVE  PumpInv'
<1> USE DEF config, registry
<1>d. draining \in [Objs -> BOOLEAN]
  BY DEF TypeOK
<1>1. ASSUME NEW l \in Lanes, NEW n \in Widths, SetConcurrency(l, n) PROVE PumpInv'
  <2>1. /\ LaneObj(l) \in Objs
        /\ maxConcurrent' = [maxConcurrent EXCEPT ![LaneObj(l)] = Clamp(l, n)]
        /\ lanes' = [lanes EXCEPT ![l] = LaneObj(l)[2]]
        /\ IF Clamp(l, n) > 0 THEN DrainReady(LaneObj(l), Caller, draining)
           ELSE stack' = Caller /\ draining' = draining
        /\ UNCHANGED <<queue, activeTaskIds, generation, groups, groupByLane, entry>>
        /\ Callable
    BY <1>1 DEF SetConcurrency, GetLaneState
  <2>2. PICK o \in Objs : o = LaneObj(l) /\ o[1] = l
    BY <2>1 DEF LaneObj
  <2>3. PICK stk \in Seq(Frames) : /\ stk = Caller
                                   /\ WellStacked(stk) /\ Resting(stk) /\ SameDuties(stack, stk)
    BY <2>1, CallerDuties DEF PumpInv
  <2>4. lanes'[l] = o[2] /\ \A m \in Lanes \ {l} : lanes'[m] = lanes[m]
    BY <2>1, <2>2 DEF TypeOK
  <2>5. \A q \in Objs : q[1] # l => queue'[q] = queue[q] /\ maxConcurrent'[q] = maxConcurrent[q]
    BY <2>1, <2>2 DEF TypeOK
  <2>6. \A m \in Lanes : Live(m)' = Live(m)
    BY <2>1, LiveKept
  <2>7. CASE Clamp(l, n) > 0
    <3>1. DrainReady(o, stk, draining)
      BY <2>1, <2>2, <2>3, <2>7
    <3>2. draining[o] => o \in Opened(stack) \/ activeTaskIds'[o] # {}
      BY <2>1 DEF PumpInv, OwnerPumps
    <3>3. OnlyLane(l)
      BY <2>6 DEF OnlyLane
    <3> QED
      BY <1>d, <2>1, <2>2, <2>3, <2>4, <2>5, <3>1, <3>2, <3>3, ServedPumpedCall
  <2>8. CASE ~(Clamp(l, n) > 0)
    <3>1. stack' = stk /\ draining' = draining
      BY <2>1, <2>3, <2>8
    <3>2. SelectedStarts' /\ WellStacked(stack')
      BY <2>3, <3>1 DEF SelectedStarts, Top, Resting
    <3>3. \A p \in Objs : OwnerPumps(p)'
      BY <2>1, <2>3, <3>1 DEF PumpInv, OwnerPumps, SameDuties
    <3>4. ServedBy(l, stack)'
      <4>1. LaneObj(l)' = o
        BY <2>2, <2>4 DEF LaneObj, Objs
      <4>2. maxConcurrent'[o] = Clamp(l, n)
        BY <2>1, <2>2 DEF TypeOK
      <4>3. IsFiniteSet(activeTaskIds'[o]) /\ Cardinality(activeTaskIds'[o]) \in Nat
        <5>1. activeTaskIds'[o] \subseteq Entries
          BY <2>1 DEF TypeOK
        <5> QED
          BY <5>1, LaneAssumption, FS_Subset, FS_CardinalityType
      <4>4. Clamp(l, n) \in Nat
        BY ConfigAssumption DEF Clamp
      <4>5. ~HasWidth(o)'
        BY <2>8, <4>2, <4>3, <4>4 DEF HasWidth
      <4> QED
        BY <4>1, <4>5 DEF ServedBy, Waiting
    <3>5. ASSUME NEW m \in Lanes, m # l PROVE ServedBy(m, stack)'
      <4>1. SameGroup(m)
        <5>1. \A g \in GroupIds : groups[g].members \subseteq Lanes
          BY DEF TypeOK, GroupStates
        <5> QED
          BY <2>1, <2>6, <5>1 DEF SameGroup
      <4>2. ServedBy(m, stack')
        BY <2>3, <3>1 DEF PumpInv, WorkServed, ServedBy, CoveredBy, SameDuties
      <4>3. lanes'[m] = lanes[m]
        BY <2>4, <3>5
      <4>4. lanes'[m] # 0 => <<m, lanes[m]>> \in Objs
        BY <4>3, LaneObjType DEF LaneObj
      <4>5. lanes'[m] # 0 => /\ queue'[<<m, lanes[m]>>] \subseteq queue[<<m, lanes[m]>>]
                             /\ maxConcurrent'[<<m, lanes[m]>>] = maxConcurrent[<<m, lanes[m]>>]
        BY <2>5, <3>5, <4>4
      <4> QED
        BY <2>6, <4>1, <4>2, <4>3, <4>5, QuietLane DEF CustodyInv
    <3> QED
      BY <3>2, <3>3, <3>4, <3>5 DEF PumpInv, WorkServed
  <2> QED
    BY <2>7, <2>8
<1>2. ASSUME NEW c \in PublishConfigs, Publish(c) PROVE PumpInv'
  <2>1. /\ Callable /\ ConfigOK(c)
        /\ UNCHANGED <<queue, activeTaskIds, draining, generation, entry>>
        /\ \A m \in Lanes \ c.lanes : lanes'[m] = lanes[m]
        /\ \A o \in Objs : o[1] \notin c.lanes => maxConcurrent'[o] = maxConcurrent[o]
    BY <1>2, ConfigAssumption DEF Publish
  <2>2. PICK stk \in Seq(Frames) : /\ stk = Caller
                                   /\ WellStacked(stk) /\ Resting(stk) /\ SameDuties(stack, stk)
    BY <2>1, CallerDuties DEF PumpInv
  <2>3. PICK f : f = LoopFrame(Touched(c), TRUE)
    OBVIOUS
  <2>4. stack' = Push(f, stk)
    BY <1>2, <2>2, <2>3 DEF Publish
  <2>5. f.fn = "drainEach" /\ f.todo = Touched(c)
    BY <2>3 DEF LoopFrame
  <2>6. f \in Frames
    <3>1. stack' # <<>> /\ Head(stack') = f /\ stack' \in Seq(Frames)
      BY <2>4 DEF TypeOK, Push
    <3> QED
      BY <3>1
  <2>7. CallsAfterStart(f) /\ (stk # <<>> => Sits(f, Head(stk)))
    BY <2>2, <2>5 DEF CallsAfterStart, Sits, Resting
  <2>8. WellStacked(stack')
    BY <2>2, <2>4, <2>6, <2>7, PushStacked
  <2>9. /\ Pumped(stack') = Pumps(f) \cup Pumped(stk)
        /\ Opened(stack') = Opens(f) \cup Opened(stk)
        /\ Served(stack') = Serves(f) \cup Served(stk)
        /\ Visited(stack') = Visits(f) \cup Visited(stk)
    BY <2>4, <2>6, PushDuties
  <2>10. Head(stack') = f
    BY <2>4 DEF Push
  <2>11. SelectedStarts'
    BY <2>5, <2>10 DEF SelectedStarts, Top
  <2>12. \A o \in Objs : OwnerPumps(o)'
    BY <2>1, <2>2, <2>9 DEF PumpInv, OwnerPumps, SameDuties
  <2>13. \A m \in Lanes : Live(m)' = Live(m)
    BY <2>1, LiveKept
  <2>14. ASSUME NEW m \in Lanes PROVE ServedBy(m, stack)'
    <3>1. CASE m \in Touched(c)
      <4>1. m \in Visited(stack')
        BY <2>5, <2>9, <3>1 DEF Visits
      <4> QED
        BY <4>1 DEF ServedBy, CoveredBy
    <3>2. CASE m \notin Touched(c)
      <4>1. SameGroup(m) /\ m \notin c.lanes
        <5> DEFINE gs == AfterClear(c)[1]
                   by == AfterClear(c)[2]
        <5>1. /\ m \notin c.lanes
              /\ \A g \in c.clear : m \notin groups[g].members
              /\ c.group # NoGroup =>
                    /\ m \notin c.members
                    /\ m \notin gs[c.group].members
                    /\ \A l \in c.members : by[l] # NoGroup => m \notin gs[by[l]].members
          BY <2>1, <3>2, GroupAssumption DEF Touched, ConfigOK
        <5>2. c.clear \subseteq GroupIds /\ c.members \subseteq Lanes
          BY <2>1 DEF ConfigOK
        <5>3. by[m] = groupByLane[m]
          BY <5>1 DEF AfterClear
        <5>4. \A g \in GroupIds : groupByLane[m] = g => m \in groups[g].members /\ g \notin c.clear
          BY <5>1 DEF GroupMapsAgree
        <5>5. \A g \in GroupIds : groupByLane[m] = g => gs[g] = groups[g]
          BY <5>4 DEF AfterClear
        <5>6. CASE c.group = NoGroup
          <6>1. groups' = gs /\ groupByLane' = by
            BY <1>2, <5>6 DEF Publish
          <6> QED
            BY <2>13, <5>1, <5>3, <5>5, <6>1 DEF SameGroup, TypeOK, GroupStates
        <5>7. CASE c.group # NoGroup
          <6>1. /\ groupByLane'[m] = by[m]
                /\ \A g \in GroupIds \ {c.group} :
                      groups'[g] = [gs[g] EXCEPT !.members = @ \ {l \in c.members : by[l] = g}]
            BY <1>2, <5>1, <5>7 DEF Publish, AfterInstall
          <6>2. ASSUME NEW g \in GroupIds, groupByLane[m] = g PROVE groups'[g] = groups[g]
            <7>1. m \in groups[g].members /\ gs[g] = groups[g]
              BY <5>4, <5>5, <6>2
            <7>2. g # c.group
              BY <5>1, <5>7, <7>1
            <7>3. {l \in c.members : by[l] = g} = {}
              BY <5>1, <5>7, <7>1, GroupAssumption
            <7>4. gs[g].members \ {l \in c.members : by[l] = g} = groups[g].members
              BY <7>1, <7>3
            <7>5. groups[g] \in GroupStates
              BY DEF TypeOK
            <7>6. groups'[g] = [gs[g] EXCEPT !.members = gs[g].members \ {l \in c.members : by[l] = g}]
              BY <6>1, <7>2
            <7> HIDE DEF gs, by
            <7>7. groups'[g] = [groups[g] EXCEPT !.members = groups[g].members]
              BY <7>1, <7>4, <7>6
            <7> QED
              BY <7>5, <7>7 DEF GroupStates
          <6>3. \A g \in GroupIds : groups[g].members \subseteq Lanes
            BY DEF TypeOK, GroupStates
          <6> QED
            BY <2>13, <5>1, <5>3, <6>1, <6>2, <6>3 DEF SameGroup
        <5> QED
          BY <5>6, <5>7
      <4>2. ServedBy(m, stack')
        BY <2>2, <2>9 DEF PumpInv, WorkServed, ServedBy, CoveredBy, SameDuties
      <4>3. lanes'[m] = lanes[m]
        BY <2>1, <4>1
      <4>4. lanes'[m] # 0 => <<m, lanes[m]>> \in Objs
        BY <4>3, LaneObjType DEF LaneObj
      <4>5. lanes'[m] # 0 => /\ queue'[<<m, lanes[m]>>] \subseteq queue[<<m, lanes[m]>>]
                             /\ maxConcurrent'[<<m, lanes[m]>>] = maxConcurrent[<<m, lanes[m]>>]
        BY <2>1, <4>1, <4>4
      <4> QED
        BY <2>13, <4>1, <4>2, <4>3, <4>5, QuietLane DEF CustodyInv
    <3> QED
      BY <3>1, <3>2
  <2> QED
    BY <2>8, <2>11, <2>12, <2>14 DEF PumpInv, WorkServed
<1> QED
  BY <1>1, <1>2 DEF Configure

\* A reset lane is pumped again, its group with it; the closing loop of
\* resetAllLanes visits every lane that holds queued entries.
LEMMA ServedRecover ==
    ASSUME TypeOK, TypeOK', CustodyInv, Custody', PumpInv, GroupMapsAgree, Recover
    PROVE  PumpInv'
<1> USE DEF config, registry
<1>1. ASSUME NEW l \in Lanes, ResetLane(l) PROVE PumpInv'
  <2>1. PICK o \in Objs : o = LaneObj(l) /\ o[1] = l /\ o[2] = lanes[l]
    BY <1>1, LaneObjType DEF ResetLane, LaneObj
  <2>2. /\ entry' = entry /\ generation' = [generation EXCEPT ![o] = @ + 1]
        /\ activeTaskIds' = [activeTaskIds EXCEPT ![o] = {}]
        /\ DrainReady(o, Caller, [draining EXCEPT ![o] = FALSE])
        /\ UNCHANGED <<lanes, queue, maxConcurrent, groups, groupByLane>>
        /\ Callable
    BY <1>1, <2>1 DEF ResetLane
  <2>3. PICK stk \in Seq(Frames) : /\ stk = Caller
                                   /\ WellStacked(stk) /\ Resting(stk) /\ SameDuties(stack, stk)
    BY <2>2, CallerDuties DEF PumpInv
  <2>4. PICK dr \in [Objs -> BOOLEAN] : dr = [draining EXCEPT ![o] = FALSE]
    BY DEF TypeOK
  <2>5. DrainReady(o, stk, dr)
    BY <2>2, <2>3, <2>4
  <2>6. ~dr[o] /\ \A p \in Objs \ {o} : dr[p] <=> draining[p]
    BY <2>4 DEF TypeOK
  <2>7. \A p \in Objs \ {o} : activeTaskIds'[p] = activeTaskIds[p]
    BY <2>2 DEF TypeOK
  <2>8. OnlyLane(l)
    <3>1. \A e \in Entries : entry[e].owner \in Objs
      BY DEF TypeOK, EntryStates
    <3>2. \A e \in Entries : entry[e].owner[1] # l => generation'[entry[e].owner] = generation[entry[e].owner]
      BY <2>1, <2>2, <3>1 DEF TypeOK
    <3> QED
      BY <2>2, <3>2 DEF OnlyLane, Live
  <2> QED
    BY <2>1, <2>2, <2>3, <2>5, <2>6, <2>7, <2>8, ServedPumpedCall
<1>2. ASSUME ResetAllLanes PROVE PumpInv'
  <2>1. /\ Callable /\ UNCHANGED <<lanes, queue, maxConcurrent, groups, groupByLane, entry>>
        /\ activeTaskIds' = [o \in Objs |-> IF Registered(o) THEN {} ELSE activeTaskIds[o]]
        /\ draining' = [o \in Objs |-> IF Registered(o) THEN FALSE ELSE draining[o]]
    BY <1>2 DEF ResetAllLanes
  <2>2. PICK stk \in Seq(Frames) : /\ stk = Caller
                                   /\ WellStacked(stk) /\ Resting(stk) /\ SameDuties(stack, stk)
    BY <2>1, CallerDuties DEF PumpInv
  <2>3. PICK f : f = LoopFrame({l \in Lanes : lanes[l] # 0 /\ queue[LaneObj(l)] # {}}, FALSE)
    OBVIOUS
  <2>4. stack' = Push(f, stk)
    BY <1>2, <2>2, <2>3 DEF ResetAllLanes
  <2>5. /\ f.fn = "drainEach" /\ f \in Frames
        /\ f.todo = {l \in Lanes : lanes[l] # 0 /\ queue[LaneObj(l)] # {}}
    BY <2>3 DEF LoopFrame, Frames, LoopFrames
  <2>6. CallsAfterStart(f) /\ (stk # <<>> => Sits(f, Head(stk)))
    BY <2>2, <2>5 DEF CallsAfterStart, Sits, Resting
  <2>7. WellStacked(stack')
    BY <2>2, <2>4, <2>5, <2>6, PushStacked
  <2>8. /\ Pumped(stack') = Pumps(f) \cup Pumped(stk)
        /\ Opened(stack') = Opens(f) \cup Opened(stk)
        /\ Visited(stack') = Visits(f) \cup Visited(stk)
    BY <2>4, <2>5, PushDuties
  <2>9. SelectedStarts'
    <3>1. Head(stack') = f
      BY <2>4 DEF Push
    <3> QED
      BY <2>5, <3>1 DEF SelectedStarts, Top
  <2>10. ASSUME NEW o \in Objs PROVE OwnerPumps(o)'
    <3>1. CASE Registered(o)
      BY <2>1, <3>1 DEF OwnerPumps
    <3>2. CASE ~Registered(o)
      BY <2>1, <2>2, <2>8, <3>2 DEF PumpInv, OwnerPumps, SameDuties
    <3> QED
      BY <3>1, <3>2
  <2>11. ASSUME NEW l \in Lanes PROVE ServedBy(l, stack)'
    <3> SUFFICES ASSUME Waiting(l)' PROVE CoveredBy(l, stack)'
      BY DEF ServedBy
    <3>1. lanes[l] # 0 /\ LaneObj(l)' = LaneObj(l) /\ queue[LaneObj(l)] # {}
      BY <2>1 DEF Waiting, LaneObj
    <3>2. l \in Visits(f)
      BY <2>5, <3>1 DEF Visits
    <3> QED
      BY <2>8, <3>2 DEF CoveredBy
  <2> QED
    BY <2>7, <2>9, <2>10, <2>11 DEF PumpInv, WorkServed
<1>3. ASSUME MarkGatewayDraining PROVE PumpInv'
  <2>1. \A m \in Lanes : Live(m)' = Live(m)
    BY <1>3, LiveKept DEF MarkGatewayDraining
  <2> QED
    BY <1>3, <2>1, ServedCall DEF MarkGatewayDraining
<1> QED
  BY <1>1, <1>2, <1>3 DEF Recover

\* Every step leaves the work that could start to some call or to a running task.
LEMMA PumpKept == Spec => []PumpInv
<1>1. Init /\ TypeOK => PumpInv
  <2> SUFFICES ASSUME Init, TypeOK PROVE PumpInv
    OBVIOUS
  <2>1. stack = <<>> /\ (\A o \in Objs : ~draining[o]) /\ (\A l \in Lanes : lanes[l] = 0)
    BY DEF Init
  <2>2. DOMAIN stack = {}
    BY <2>1
  <2> QED
    BY <2>1, <2>2 DEF PumpInv, WellStacked, SelectedStarts, OwnerPumps, WorkServed, ServedBy, Waiting
<1>2. TypeOK /\ TypeOK' /\ CustodyInv /\ CustodyInv' /\ GroupMapsAgree /\ PumpInv /\ [Next]_vars
      => PumpInv'
  <2> SUFFICES ASSUME TypeOK, TypeOK', CustodyInv, CustodyInv', GroupMapsAgree, PumpInv,
                      [Next]_vars
               PROVE  PumpInv'
    OBVIOUS
  <2>1. Custody'
    BY DEF CustodyInv
  <2>2. CASE UNCHANGED vars
    BY <2>2 DEF vars, PumpInv, SelectedStarts, OwnerPumps, WorkServed, ServedBy, CoveredBy,
       MayStart, Waiting, HasWidth, CanAdmitInGroup, Active, Reserved, HeldSlots, UnmetSlots,
       ActiveIn, LaneObj, Top
  <2>3. CASE Pump
    BY <2>1, <2>3, ServedStart, ServedCallbackReturns, ServedLaneReturns, ServedGroupStep,
       ServedEachStep DEF Pump
  <2> QED
    BY <2>1, <2>2, <2>3, ServedUserCall, ServedConfigure, ServedRecover DEF Next
<1> QED
  BY <1>1, <1>2, Typing, CustodyKept, GroupMapsTheorem, PTL DEF Spec

\* When no call is in progress, a lane whose queued work its width and its group
\* admit runs a task whose completion will pump it: no drain flag, callback,
\* reset or new configuration strands it.
THEOREM NoStrandedWorkTheorem == Spec => []NoStrandedWork
<1>1. PumpInv => NoStrandedWork
  <2> SUFFICES ASSUME PumpInv, stack = <<>>, NEW l \in Lanes, Waiting(l), ActiveIn(l) = {}
               PROVE  FALSE
    BY DEF NoStrandedWork
  <2>1. CoveredBy(l, <<>>)
    BY DEF PumpInv, WorkServed, ServedBy
  <2> QED
    BY <2>1, NoDuties DEF CoveredBy
<1> QED
  BY <1>1, PumpKept, PTL

-----------------------------------------------------------------------------
(* Idle scoped lanes leave the registry *)

\* No caller of publishLaneConfiguration names a lane of a session.
UnscopedConfigs == \A c \in PublishConfigs : c.lanes \cap ScopedLanes = {}

\* So its commit pass, which skips lanes without queued entries, has no scoped
\* lane to visit.
Apart == {f \in Frames : f.fn = "drainEach" /\ f.ready => f.todo \cap ScopedLanes = {}}

Idle(l) ==
    LET o == LaneObj(l) IN
    lanes[l] # 0 /\ queue[o] = {} /\ activeTaskIds[o] = {} /\ maxConcurrent[o] = 1
\* An idle scoped lane was reset, or the pump that owns it, or the closing loop
\* of resetAllLanes, will retire it.
Leaves(l) ==
    Idle(l) => \/ generation[LaneObj(l)] > 0
               \/ LaneObj(l) \in Pumped(stack)
               \/ l \in Revisited(stack)
IdleInv == stack \in Seq(Apart) /\ \A l \in ScopedLanes : Leaves(l)

\* Frames go on and off a stack of such frames.
LEMMA ApartPush ==
    ASSUME NEW f \in Apart, NEW s \in Seq(Apart)
    PROVE  Push(f, s) \in Seq(Apart)
BY DEF Push

\* The innermost frame and the rest of such a stack.
LEMMA ApartTop ==
    ASSUME stack \in Seq(Apart), stack # <<>>
    PROVE  Top \in Apart /\ Tail(stack) \in Seq(Apart)
BY DEF Top

\* The pumps are no loops.
LEMMA ApartLane ==
    ASSUME NEW f \in LaneFrames \cup GroupFrames
    PROVE  f \in Apart
BY DEF LaneFrames, GroupFrames, Frames, Apart

\* A call made from a callback changes no loop.
LEMMA ApartCaller ==
    ASSUME TypeOK, Callable, stack \in Seq(Apart)
    PROVE  Caller \in Seq(Apart)
<1>1. CASE stack = <<>>
  BY <1>1 DEF Caller
<1>2. CASE stack # <<>>
  <2>1. Top \in LaneFrames /\ Top.calls > 0
    BY <1>2, LaneTop DEF TypeOK, Callable, InCallback
  <2>2. [Top EXCEPT !.calls = @ - 1] \in LaneFrames
    BY <2>1, BoundAssumption DEF LaneFrames
  <2> QED
    BY <1>2, <2>2, ApartLane, ApartTop, ApartPush DEF Caller
<1> QED
  BY <1>1, <1>2

\* Nor does a pump call.
LEMMA ApartReady ==
    ASSUME TypeOK, NEW o \in Objs, NEW stk \in Seq(Apart), NEW dr \in [Objs -> BOOLEAN],
           DrainReady(o, stk, dr)
    PROVE  stack' \in Seq(Apart)
<1>1. PICK g : g = groupByLane[o[1]]
  OBVIOUS
<1>2. g \in GroupIds \cup {NoGroup}
  BY <1>1 DEF TypeOK, Objs
<1>3. LaneFrame(o, FALSE) \in LaneFrames
  BY BoundAssumption DEF LaneFrame, LaneFrames
<1>4. g # NoGroup => GroupFrame(g) \in GroupFrames
  BY <1>2 DEF TypeOK, GroupFrame, GroupStates, GroupFrames
<1>5. CASE g = NoGroup
  <2>1. \/ stack' = stk
        \/ stack' = Push(LaneFrame(o, FALSE), stk)
    BY <1>1, <1>5 DEF DrainReady, DrainLane
  <2> QED
    BY <1>3, <2>1, ApartLane, ApartPush
<1>6. CASE g # NoGroup
  <2>1. \/ stack' = stk
        \/ stack' = Push(GroupFrame(g), stk)
    BY <1>1, <1>6 DEF DrainReady
  <2> QED
    BY <1>4, <1>6, <2>1, ApartLane, ApartPush
<1> QED
  BY <1>5, <1>6

\* A lane of a session is in no group.
LEMMA ScopedAlone ==
    ASSUME GroupMapsAgree, NEW l \in ScopedLanes
    PROVE  l \in Lanes /\ groupByLane[l] = NoGroup
BY LaneAssumption DEF GroupMapsAgree

\* No step adds a commit pass over scoped lanes.
LEMMA ApartStep ==
    ASSUME UnscopedConfigs, TypeOK, GroupMapsAgree, stack \in Seq(Apart), Next
    PROVE  stack' \in Seq(Apart)
<1>d. draining \in [Objs -> BOOLEAN] /\ stack \in Seq(Frames)
  BY DEF TypeOK
<1>c. Callable => Caller \in Seq(Apart)
  BY ApartCaller
<1>t. stack # <<>> => Top \in Apart /\ Tail(stack) \in Seq(Apart)
  BY ApartTop
<1>o. \A l \in Lanes : lanes[l] # 0 => LaneObj(l) \in Objs
  BY LaneObjType
<1>1. CASE StartTask
  <2>1. stack # <<>> /\ Top \in LaneFrames
    BY <1>1, <1>d, LaneTop DEF StartTask, Pumping
  <2>2. PICK calls \in {0, MaxCalls} :
           stack' = Push([Top EXCEPT !.started = TRUE, !.calls = calls], Tail(stack))
    BY <1>1 DEF StartTask
  <2>3. PICK f, h : h = [Top EXCEPT !.started = TRUE] /\ f = [h EXCEPT !.calls = calls]
    OBVIOUS
  <2>4. f = [Top EXCEPT !.started = TRUE, !.calls = calls]
    BY <2>3, Zenon
  <2>5. h \in LaneFrames
    BY <2>1, <2>3 DEF LaneFrames
  <2>6. calls \in 0 .. MaxCalls
    BY BoundAssumption
  <2>7. f \in LaneFrames
    BY <2>3, <2>5, <2>6 DEF LaneFrames
  <2> QED
    BY <1>t, <2>1, <2>2, <2>4, <2>7, ApartLane, ApartPush
<1>2. CASE CallbackReturns
  <2>1. stack # <<>> /\ Top \in LaneFrames
    BY <1>2, <1>d, LaneTop DEF CallbackReturns, InCallback
  <2>2. [Top EXCEPT !.calls = 0] \in LaneFrames
    BY <2>1, BoundAssumption DEF LaneFrames
  <2> QED
    BY <1>2, <1>t, <2>1, <2>2, ApartLane, ApartPush DEF CallbackReturns
<1>3. CASE DrainLaneReturns
  <2>1. PICK s \in Seq(Apart) : s = Tail(stack)
    BY <1>3, <1>t DEF DrainLaneReturns, Pumping
  <2> QED
    BY <1>3, <2>1 DEF DrainLaneReturns, ReturnTo
<1>4. CASE DrainGroupStep
  <2>1. stack # <<>> /\ Top \in GroupFrames
    BY <1>4, <1>d, GroupTop DEF DrainGroupStep, Pumping
  <2>2. ASSUME NEW l \in Selected(Top.group), DrainLane(LaneObj(l), TRUE, stack, draining)
        PROVE  stack' \in Seq(Apart)
    <3>1. LaneObj(l) \in Objs
      BY <1>o, <2>1, <2>2 DEF Selected, Candidates, TypeOK, GroupStates, GroupFrames
    <3>2. LaneFrame(LaneObj(l), TRUE) \in LaneFrames
      BY <3>1, BoundAssumption DEF LaneFrame, LaneFrames
    <3> QED
      BY <2>2, <3>2, ApartLane, ApartPush DEF DrainLane
  <2> QED
    BY <1>4, <1>t, <2>1, <2>2 DEF DrainGroupStep
<1>5. CASE DrainEachStep
  <2>1. stack # <<>> /\ Top \in LoopFrames
    BY <1>5, <1>d, LoopTop DEF DrainEachStep, Pumping
  <2>2. ASSUME NEW l \in Top.todo
        PROVE  Push([Top EXCEPT !.todo = @ \ {l}], Tail(stack)) \in Seq(Apart)
    <3>1. PICK f : f = [Top EXCEPT !.todo = @ \ {l}]
      OBVIOUS
    <3>2. f \in LoopFrames /\ f.todo = Top.todo \ {l} /\ f.ready = Top.ready /\ f.fn = Top.fn
      BY <2>1, <3>1 DEF LoopFrames
    <3>3. f \in Apart
      BY <1>t, <2>1, <3>2 DEF Apart, Frames
    <3> QED
      BY <1>t, <2>1, <3>1, <3>3, ApartPush
  <2>3. ASSUME NEW l \in Top.todo, lanes[l] # 0,
               DrainReady(LaneObj(l), Push([Top EXCEPT !.todo = @ \ {l}], Tail(stack)), draining)
        PROVE  stack' \in Seq(Apart)
    <3>1. LaneObj(l) \in Objs
      BY <1>o, <2>1, <2>3 DEF LoopFrames
    <3> QED
      BY <1>d, <2>2, <2>3, <3>1, ApartReady
  <2> QED
    BY <1>5, <1>t, <2>1, <2>2, <2>3 DEF DrainEachStep
<1>6. ASSUME NEW o \in Objs, NEW dr \in [Objs -> BOOLEAN], Callable, DrainReady(o, Caller, dr)
      PROVE  stack' \in Seq(Apart)
  BY <1>6, <1>c, ApartReady
<1>7. ASSUME NEW e \in Entries, NEW l \in Lanes, NEW p \in Priorities, Enqueue(e, l, p)
      PROVE  stack' \in Seq(Apart)
  BY <1>6, <1>7, <1>d DEF Enqueue, GetLaneState
<1>8. CASE \/ \E e \in Entries, aborted \in BOOLEAN : Refuse(e, aborted)
           \/ \E e \in Entries : Abort(e)
           \/ \E l \in Lanes : ClearLane(l)
           \/ MarkGatewayDraining
  BY <1>8, <1>c DEF Refuse, Abort, ClearLane, MarkGatewayDraining
<1>9. ASSUME NEW e \in Entries, Settle(e)
      PROVE  stack' \in Seq(Apart)
  <2>1. entry[e].owner \in Objs
    BY DEF TypeOK, EntryStates
  <2> QED
    BY <1>9, <1>d, <2>1, ApartReady DEF Settle
<1>10. ASSUME NEW l \in Lanes, NEW n \in Widths, SetConcurrency(l, n)
       PROVE  stack' \in Seq(Apart)
  BY <1>6, <1>10, <1>c, <1>d DEF SetConcurrency, GetLaneState
<1>11. ASSUME NEW c \in PublishConfigs, Publish(c)
       PROVE  stack' \in Seq(Apart)
  <2>1. PICK f : f = LoopFrame(Touched(c), TRUE)
    OBVIOUS
  <2>2. stack' = Push(f, Caller) /\ Callable
    BY <1>11, <2>1 DEF Publish
  <2>3. f.fn = "drainEach" /\ f.ready /\ f.todo = Touched(c)
    BY <2>1 DEF LoopFrame
  <2>4. ConfigOK(c)
    BY ConfigAssumption
  <2>5. c.members \cap ScopedLanes = {}
        \/ c.group = NoGroup
    BY <1>11, LaneAssumption DEF Publish, ValidGroup
  <2>6. \A g \in GroupIds : groups[g].members \cap ScopedLanes = {} /\ groups[g].members \subseteq Lanes
    BY ScopedAlone, GroupAssumption DEF GroupMapsAgree, TypeOK, GroupStates
  <2>7. \A g \in GroupIds : AfterClear(c)[1][g].members \cap ScopedLanes = {}
                            /\ AfterClear(c)[1][g].members \subseteq Lanes
    BY <2>6 DEF AfterClear, NoGroupState
  <2>8. \A l \in Lanes : AfterClear(c)[2][l] \in GroupIds \cup {NoGroup}
    BY AfterClearType
  <2>9. Touched(c) \cap ScopedLanes = {} /\ Touched(c) \subseteq Lanes
    <3>1. PICK gs, by : gs = AfterClear(c)[1] /\ by = AfterClear(c)[2]
      OBVIOUS
    <3>2. PICK owners : owners = {c.group} \cup {by[l] : l \in c.members}
      OBVIOUS
    <3>3. owners \ {NoGroup} \subseteq GroupIds
      BY <2>4, <2>8, <3>1, <3>2 DEF ConfigOK
    <3>4. Touched(c) = c.lanes \cup (UNION {groups[g].members : g \in c.clear})
             \cup (IF c.group = NoGroup THEN {}
                   ELSE c.members \cup (UNION {gs[g].members : g \in owners \ {NoGroup}}))
      BY <3>1, <3>2 DEF Touched
    <3>5. c.lanes \cap ScopedLanes = {} /\ c.lanes \subseteq Lanes /\ c.members \subseteq Lanes
          /\ c.clear \subseteq GroupIds
      BY <2>4 DEF ConfigOK, UnscopedConfigs
    <3>6. \A g \in owners \ {NoGroup} : gs[g].members \cap ScopedLanes = {} /\ gs[g].members \subseteq Lanes
      BY <2>7, <3>1, <3>3
    <3>7. \A g \in c.clear : groups[g].members \cap ScopedLanes = {} /\ groups[g].members \subseteq Lanes
      BY <2>6, <3>5
    <3> QED
      BY <2>5, <3>4, <3>5, <3>6, <3>7
  <2>10. f \in Apart
    BY <2>1, <2>9 DEF Apart, LoopFrame, LoopFrames, Frames
  <2> QED
    BY <1>c, <2>2, <2>10, ApartPush
<1>12. ASSUME NEW l \in Lanes, ResetLane(l)
       PROVE  stack' \in Seq(Apart)
  <2>1. LaneObj(l) \in Objs /\ Callable
    BY <1>12, <1>o DEF ResetLane
  <2>2. PICK dr \in [Objs -> BOOLEAN] : dr = [draining EXCEPT ![LaneObj(l)] = FALSE]
    BY <1>d
  <2>3. DrainReady(LaneObj(l), Caller, dr)
    BY <1>12, <2>2 DEF ResetLane
  <2> QED
    BY <1>6, <2>1, <2>3
<1>13. CASE ResetAllLanes
  <2>1. PICK f : f = LoopFrame({l \in Lanes : lanes[l] # 0 /\ queue[LaneObj(l)] # {}}, FALSE)
    OBVIOUS
  <2>2. f \in Apart
    BY <2>1 DEF LoopFrame, LoopFrames, Frames, Apart
  <2> QED
    BY <1>13, <1>c, <2>1, <2>2, ApartPush DEF ResetAllLanes
<1> QED
  BY <1>1, <1>2, <1>3, <1>4, <1>5, <1>7, <1>8, <1>9, <1>10, <1>11, <1>12, <1>13
     DEF Next, Pump, UserCall, Configure, Recover

\* Only a loop that also visits idle lanes has scoped lanes to visit, and a pump
\* that goes on is a pump.
LEMMA ApartDuties ==
    ASSUME stack \in Seq(Apart)
    PROVE  Visited(stack) \cap ScopedLanes \subseteq Revisited(stack) /\ Opened(stack) \subseteq Pumped(stack)
<1>1. \A i \in DOMAIN stack : stack[i] \in Apart
  OBVIOUS
<1>2. \A f \in Apart : Visits(f) \cap ScopedLanes \subseteq Revisits(f) /\ Opens(f) \subseteq Pumps(f)
  BY DEF Apart, Visits, Revisits, Opens, Pumps
<1> QED
  BY <1>1, <1>2 DEF Visited, Revisited, Opened, Pumped

\* A lane that a step does not make idle, and that loses no call, stays as it was.
LEMMA IdleStays ==
    ASSUME NEW l \in ScopedLanes, Leaves(l),
           lanes'[l] # 0 =>
             /\ lanes'[l] = lanes[l]
             /\ queue'[<<l, lanes[l]>>] = queue[<<l, lanes[l]>>]
             /\ activeTaskIds'[<<l, lanes[l]>>] = activeTaskIds[<<l, lanes[l]>>]
             /\ maxConcurrent'[<<l, lanes[l]>>] = maxConcurrent[<<l, lanes[l]>>]
             /\ generation[<<l, lanes[l]>>] > 0 => generation'[<<l, lanes[l]>>] > 0
             /\ <<l, lanes[l]>> \in Pumped(stack) => <<l, lanes[l]>> \in Pumped(stack')
             /\ l \in Revisited(stack) => l \in Revisited(stack')
    PROVE  Leaves(l)'
<1> SUFFICES ASSUME Idle(l)'
             PROVE  \/ generation'[LaneObj(l)'] > 0
                    \/ LaneObj(l)' \in Pumped(stack')
                    \/ l \in Revisited(stack')
  BY DEF Leaves
<1>1. lanes'[l] # 0 /\ lanes[l] # 0
  BY DEF Idle
<1>2. LaneObj(l) = <<l, lanes[l]>> /\ LaneObj(l)' = <<l, lanes[l]>>
  BY <1>1 DEF LaneObj
<1>3. Idle(l)
  BY <1>1, <1>2 DEF Idle
<1> QED
  BY <1>1, <1>2, <1>3 DEF Leaves

\* The pump retires the scoped lane it leaves idle, and takes up the one it visits.
LEMMA IdlePump ==
    ASSUME TypeOK, TypeOK', CustodyInv, PumpInv, GroupMapsAgree, IdleInv, Pump
    PROVE  \A l \in ScopedLanes : Leaves(l)'
<1> USE DEF config, registry
<1>d. draining \in [Objs -> BOOLEAN] /\ stack \in Seq(Frames) /\ WellStacked(stack)
  BY DEF TypeOK, PumpInv
<1> SUFFICES ASSUME NEW l \in ScopedLanes PROVE Leaves(l)'
  OBVIOUS
<1>0. Leaves(l) /\ l \in Lanes /\ groupByLane[l] = NoGroup
  BY ScopedAlone DEF IdleInv
<1>1. CASE StartTask
  <2>1. PICK m \in Lanes, o \in Objs, e \in Entries : Starts(m, o, e)
    BY <1>1, StartLive
  <2>2. Pumped(stack') = Pumped(stack) /\ Revisited(stack') = Revisited(stack)
    BY <1>1, <1>d, <2>1, StartDuties DEF Starts
  <2>3. /\ UNCHANGED <<lanes, maxConcurrent, generation>>
        /\ queue' = [queue EXCEPT ![o] = @ \ {e}]
        /\ activeTaskIds' = [activeTaskIds EXCEPT ![o] = @ \cup {e}]
        /\ o = LaneObj(m) /\ lanes[m] # 0
    BY <1>1, <2>1 DEF Starts, StartTask
  <2>4. CASE l = m
    <3>1. LaneObj(l)' = o
      BY <2>3, <2>4 DEF LaneObj
    <3>2. activeTaskIds'[o] # {}
      BY <2>3 DEF TypeOK
    <3> QED
      BY <3>1, <3>2 DEF Leaves, Idle
  <2>5. CASE l # m
    <3>1. <<l, lanes[l]>> # o
      BY <2>3, <2>5 DEF LaneObj
    <3>2. lanes[l] # 0 => <<l, lanes[l]>> \in Objs
      BY <1>0, LaneObjType DEF LaneObj
    <3>3. lanes'[l] # 0 => queue'[<<l, lanes[l]>>] = queue[<<l, lanes[l]>>]
                           /\ activeTaskIds'[<<l, lanes[l]>>] = activeTaskIds[<<l, lanes[l]>>]
      BY <2>3, <3>1, <3>2 DEF TypeOK
    <3> QED
      BY <1>0, <2>2, <2>3, <3>3, IdleStays
  <2> QED
    BY <2>4, <2>5
<1>2. CASE CallbackReturns
  <2>1. stack # <<>> /\ Top \in LaneFrames /\ Top.started
    BY <1>2, <1>d, LaneTop, TopStacked DEF CallbackReturns, InCallback, CallsAfterStart
  <2>2. 0 \in 0 .. MaxCalls
    BY BoundAssumption
  <2>3. SameDuties(stack, stack')
    BY <1>2, <1>d, <2>1, <2>2, ReplaceCalls DEF CallbackReturns
  <2> QED
    BY <1>0, <1>2, <2>3, IdleStays DEF CallbackReturns, SameDuties
<1>3. CASE DrainLaneReturns
  <2>1. PICK o \in Objs : o = Top.obj
    BY <1>3, <1>d, LaneTop DEF DrainLaneReturns, Pumping, LaneFrames
  <2>2. Pumped(stack) = {o} \cup Pumped(stack') /\ Revisited(stack) = Revisited(stack')
    BY <1>3, <2>1, ReturnDuties DEF PumpInv
  <2>3. lanes' = Retire(o, queue[o], activeTaskIds[o], FALSE)
        /\ UNCHANGED <<queue, activeTaskIds, maxConcurrent, generation>>
    BY <1>3, <2>1 DEF DrainLaneReturns
  <2>4. lanes'[l] # 0 => lanes'[l] = lanes[l]
    BY <2>3 DEF Retire, TypeOK
  <2>5. CASE <<l, lanes[l]>> = o
    <3> SUFFICES ASSUME Idle(l)' PROVE FALSE
      BY DEF Leaves
    <3>1. lanes'[l] # 0 /\ lanes'[l] = lanes[l] /\ LaneObj(l)' = o
      BY <2>4, <2>5 DEF Idle, LaneObj
    <3>2. queue[o] = {} /\ activeTaskIds[o] = {} /\ maxConcurrent[o] = 1
      BY <2>3, <3>1 DEF Idle
    <3>3. o[1] = l /\ Registered(o)
      BY <2>5 DEF Registered
    <3>4. lanes' = [lanes EXCEPT ![l] = 0]
      BY <2>3, <3>2, <3>3 DEF Retire
    <3> QED
      BY <1>0, <3>1, <3>4 DEF TypeOK
  <2>6. CASE <<l, lanes[l]>> # o
    BY <1>0, <2>2, <2>3, <2>4, <2>6, IdleStays
  <2> QED
    BY <2>5, <2>6
<1>4. CASE DrainGroupStep
  <2>1. stack # <<>> /\ Top \in GroupFrames
    BY <1>4, <1>d, GroupTop DEF DrainGroupStep, Pumping
  <2>2. Pumped(stack) \subseteq Pumped(stack') /\ Revisited(stack) \subseteq Revisited(stack')
    <3>1. ASSUME stack' = Tail(stack)
          PROVE  Pumped(stack) \subseteq Pumped(stack') /\ Revisited(stack) \subseteq Revisited(stack')
      BY <1>d, <2>1, <3>1, TopDuties DEF Pumps, Revisits, GroupFrames
    <3>2. ASSUME NEW m \in Selected(Top.group), DrainLane(LaneObj(m), TRUE, stack, draining)
          PROVE  Pumped(stack) \subseteq Pumped(stack') /\ Revisited(stack) \subseteq Revisited(stack')
      <4>1. LaneObj(m) \in Objs
        BY <2>1, <3>2, LaneObjType DEF Selected, Candidates, TypeOK, GroupStates, GroupFrames
      <4>2. PICK f : f = LaneFrame(LaneObj(m), TRUE)
        OBVIOUS
      <4>3. f \in Frames
        BY <4>1, <4>2, BoundAssumption DEF LaneFrame, LaneFrames, Frames
      <4>4. stack' = stack \/ stack' = Push(f, stack)
        BY <3>2, <4>2 DEF DrainLane
      <4> QED
        BY <1>d, <4>3, <4>4, PushDuties
    <3> QED
      BY <1>4, <3>1, <3>2 DEF DrainGroupStep
  <2> QED
    BY <1>0, <1>4, <2>2, IdleStays DEF DrainGroupStep
<1>5. CASE DrainEachStep
  <2>1. stack # <<>> /\ Top \in LoopFrames /\ Top \in Apart /\ Top.fn = "drainEach"
    BY <1>5, <1>d, LoopTop, ApartTop DEF DrainEachStep, Pumping, IdleInv
  <2>2. UNCHANGED <<lanes, queue, activeTaskIds, maxConcurrent, generation>>
    BY <1>5 DEF DrainEachStep
  <2>3. PICK s \in Seq(Frames) : s = Tail(stack)
    BY <1>d, <2>1, TopType
  <2>4. /\ Pumped(stack) = Pumps(Top) \cup Pumped(s)
        /\ Revisited(stack) = Revisits(Top) \cup Revisited(s)
    BY <1>d, <2>1, <2>3, TopDuties
  <2>5. Pumps(Top) = {} /\ Revisits(Top) = IF Top.ready THEN {} ELSE Top.todo
    BY <2>1 DEF Pumps, Revisits
  <2>6. CASE Top.todo = {} /\ stack' = s
    <3>1. Pumped(stack') = Pumped(stack) /\ Revisited(stack') = Revisited(stack)
      BY <2>4, <2>5, <2>6
    <3> QED
      BY <1>0, <2>2, <3>1, IdleStays
  <2>7. ASSUME NEW m \in Top.todo, NEW rest,
               rest = Push([Top EXCEPT !.todo = @ \ {m}], Tail(stack)),
               \/ lanes[m] = 0 /\ stack' = rest
               \/ Top.ready /\ stack' = rest
               \/ lanes[m] # 0 /\ DrainReady(LaneObj(m), rest, draining)
        PROVE  Leaves(l)'
    <3>0. m \in Lanes /\ (Top.ready => m # l)
      BY <2>1, <2>7 DEF LoopFrames, Apart
    <3>1. PICK f : f = [Top EXCEPT !.todo = @ \ {m}]
      OBVIOUS
    <3>2. f \in LoopFrames /\ f.fn = "drainEach" /\ f.todo = Top.todo \ {m} /\ f.ready = Top.ready
      BY <2>1, <3>1 DEF LoopFrames
    <3>3. f \in Frames /\ CallsAfterStart(f)
      BY <3>2 DEF Frames, CallsAfterStart
    <3>4. /\ rest \in Seq(Frames) /\ WellStacked(rest) /\ rest # <<>> /\ Head(rest) = f
          /\ Pumped(rest) = Pumps(f) \cup Pumped(s)
          /\ Revisited(rest) = Revisits(f) \cup Revisited(s)
      BY <1>d, <2>1, <2>3, <2>7, <3>1, <3>2, <3>3, ReplaceTop
    <3>5. Pumps(f) = {} /\ Revisits(f) = IF Top.ready THEN {} ELSE Top.todo \ {m}
      BY <3>2 DEF Pumps, Revisits
    <3>6. Pumped(rest) = Pumped(stack) /\ (l \in Revisited(stack) => l \in Revisited(rest) \/ m = l)
      BY <2>4, <2>5, <3>4, <3>5
    <3>7. Resting(rest)
      BY <3>2, <3>4 DEF Resting
    <3>8. \/ stack' = rest
          \/ Grows(rest, stack')
      <4>1. ASSUME lanes[m] # 0, DrainReady(LaneObj(m), rest, draining) PROVE Grows(rest, stack')
        <5>1. LaneObj(m) \in Objs
          BY <3>0, <4>1, LaneObjType
        <5> QED
          BY <1>d, <3>4, <3>7, <4>1, <5>1, DrainReadyDuties
      <4> QED
        BY <2>7, <4>1
    <3>9. Pumped(stack) \subseteq Pumped(stack') /\ Revisited(rest) \subseteq Revisited(stack')
      BY <3>6, <3>8 DEF Grows
    <3>10. CASE m # l
      BY <1>0, <2>2, <3>6, <3>9, <3>10, IdleStays
    <3>11. CASE m = l /\ lanes[l] = 0
      BY <2>2, <3>11 DEF Leaves, Idle
    <3>12. CASE m = l /\ lanes[l] # 0 /\ DrainReady(LaneObj(m), rest, draining)
      <4>1. PICK o \in Objs : o = LaneObj(l) /\ o[1] = l
        BY <1>0, <3>12, LaneObjType DEF LaneObj
      <4>5. DrainReady(o, rest, draining) /\ groupByLane[o[1]] = NoGroup
        BY <1>0, <3>12, <4>1
      <4>6. groupByLane[o[1]] = NoGroup => draining[o] \/ o \in Opened(stack') \cap Pumped(stack')
        BY <1>d, <3>4, <3>7, <4>5, DrainReadyDuties
      <4>2. draining[o] \/ o \in Pumped(stack')
        BY <4>5, <4>6
      <4>3. o \in Pumped(stack')
        BY <3>9, <4>2 DEF PumpInv, OwnerPumps
      <4>4. LaneObj(l)' = o
        BY <2>2, <3>12, <4>1 DEF LaneObj
      <4> QED
        BY <4>3, <4>4 DEF Leaves
    <3> QED
      BY <2>7, <3>0, <3>10, <3>11, <3>12
  <2>8. ASSUME NEW m \in Top.todo, NEW rest,
               rest = Push([Top EXCEPT !.todo = @ \ {m}], Tail(stack)),
               IF lanes[m] = 0 \/ (/\ Top.ready
                                   /\ maxConcurrent[LaneObj(m)] = 0 \/ queue[LaneObj(m)] = {}
                                        \/ draining[LaneObj(m)])
               THEN stack' = rest /\ draining' = draining
               ELSE DrainReady(LaneObj(m), rest, draining)
        PROVE  Leaves(l)'
    BY <2>7, <2>8
  <2> QED
    BY <1>5, <2>3, <2>6, <2>8 DEF DrainEachStep
<1> QED
  BY <1>1, <1>2, <1>3, <1>4, <1>5 DEF Pump

\* A scoped lane that was pumped is owned by a pump now.
LEMMA IdlePumped ==
    ASSUME TypeOK, PumpInv, NEW l \in Lanes, groupByLane[l] = NoGroup,
           NEW o \in Objs, o[1] = l, lanes'[l] = o[2],
           NEW stk \in Seq(Frames), NEW dr \in [Objs -> BOOLEAN],
           WellStacked(stk), Resting(stk), SameDuties(stack, stk), DrainReady(o, stk, dr),
           dr[o] => draining[o]
    PROVE  Leaves(l)'
<1>1. o = <<l, o[2]>> /\ o[2] # 0
  BY DEF Objs
<1>2. LaneObj(l)' = o
  BY <1>1 DEF LaneObj
<1>3. groupByLane[o[1]] = NoGroup => dr[o] \/ o \in Opened(stack') \cap Pumped(stack')
  BY DrainReadyDuties
<1>4. Grows(stk, stack')
  BY DrainReadyDuties
<1>5. o \in Pumped(stack')
  BY <1>3, <1>4 DEF PumpInv, OwnerPumps, SameDuties, Grows
<1> QED
  BY <1>2, <1>5 DEF Leaves

\* An operation leaves a scoped lane idle only when a call in progress, or the
\* operation itself, retires it.
LEMMA IdleUserCall ==
    ASSUME TypeOK, TypeOK', CustodyInv, PumpInv, GroupMapsAgree, IdleInv,
           UserCall \/ \E e \in Entries : Settle(e)
    PROVE  \A l \in ScopedLanes : Leaves(l)'
<1> USE DEF config, registry
<1>d. draining \in [Objs -> BOOLEAN] /\ stack \in Seq(Frames) /\ WellStacked(stack)
  BY DEF TypeOK, PumpInv
<1> SUFFICES ASSUME NEW l \in ScopedLanes PROVE Leaves(l)'
  OBVIOUS
<1>0. Leaves(l) /\ l \in Lanes /\ groupByLane[l] = NoGroup
  BY ScopedAlone DEF IdleInv
<1>c. ASSUME Callable
      PROVE  /\ Caller \in Seq(Frames) /\ WellStacked(Caller) /\ Resting(Caller)
             /\ SameDuties(stack, Caller)
  BY <1>c, CallerDuties DEF PumpInv
<1>1. ASSUME NEW e \in Entries, NEW m \in Lanes, NEW p \in Priorities, Enqueue(e, m, p)
      PROVE  Leaves(l)'
  <2>1. /\ LaneObj(m) \in Objs
        /\ queue' = [queue EXCEPT ![LaneObj(m)] = @ \cup {e}]
        /\ lanes' = [lanes EXCEPT ![m] = LaneObj(m)[2]]
        /\ DrainReady(LaneObj(m), Caller, draining)
        /\ UNCHANGED <<activeTaskIds, maxConcurrent, generation>>
        /\ Callable
    BY <1>1 DEF Enqueue, GetLaneState
  <2>2. PICK o \in Objs : o = LaneObj(m) /\ o[1] = m
    BY <2>1 DEF LaneObj
  <2>3. PICK stk \in Seq(Frames) : /\ stk = Caller
                                   /\ WellStacked(stk) /\ Resting(stk) /\ SameDuties(stack, stk)
    BY <1>c, <2>1
  <2>4. lanes'[m] = o[2] /\ DrainReady(o, stk, draining)
    BY <2>1, <2>2, <2>3 DEF TypeOK
  <2>5. CASE l = m
    BY <1>0, <1>d, <2>2, <2>3, <2>4, <2>5, IdlePumped
  <2>6. CASE l # m
    <3>1. Grows(stk, stack')
      BY <1>d, <2>2, <2>3, <2>4, DrainReadyDuties
    <3>2. Pumped(stack) \subseteq Pumped(stack') /\ Revisited(stack) \subseteq Revisited(stack')
      BY <2>3, <3>1 DEF Grows, SameDuties
    <3>3. lanes'[l] = lanes[l]
      BY <1>0, <2>1, <2>6 DEF TypeOK
    <3>4. lanes'[l] # 0 => queue'[<<l, lanes[l]>>] = queue[<<l, lanes[l]>>]
      <4>1. lanes'[l] # 0 => <<l, lanes[l]>> \in Objs
        BY <1>0, <3>3, LaneObjType DEF LaneObj
      <4> QED
        BY <2>1, <2>2, <2>6, <4>1 DEF TypeOK
    <3> QED
      BY <1>0, <2>1, <3>2, <3>3, <3>4, IdleStays
  <2> QED
    BY <2>5, <2>6
<1>2. ASSUME NEW e \in Entries, NEW aborted \in BOOLEAN, Refuse(e, aborted)
      PROVE  Leaves(l)'
  BY <1>0, <1>2, <1>c, IdleStays DEF Refuse, SameDuties
<1>3. ASSUME NEW e \in Entries, Abort(e)
      PROVE  Leaves(l)'
  <2>1. PICK o \in Objs : o = entry[e].owner
    BY DEF TypeOK, EntryStates
  <2>2. /\ queue' = [queue EXCEPT ![o] = @ \ {e}]
        /\ lanes' = Retire(o, queue[o] \ {e}, activeTaskIds[o], draining[o])
        /\ UNCHANGED <<activeTaskIds, maxConcurrent, generation>>
        /\ Callable /\ stack' = Caller
    BY <1>3, <2>1 DEF Abort
  <2>3. SameDuties(stack, stack')
    BY <1>c, <2>2
  <2>4. lanes'[l] # 0 => lanes'[l] = lanes[l]
    BY <2>2 DEF Retire, TypeOK
  <2>5. CASE <<l, lanes[l]>> = o
    <3> SUFFICES ASSUME Idle(l)', ~draining[o] PROVE FALSE
      <4>1. ASSUME Idle(l)', draining[o] PROVE Leaves(l)'
        <5>1. o \in Pumped(stack')
          BY <2>3, <4>1 DEF PumpInv, OwnerPumps, SameDuties
        <5>2. LaneObj(l)' = o
          BY <2>4, <2>5, <4>1 DEF Idle, LaneObj
        <5> QED
          BY <5>1, <5>2 DEF Leaves
      <4> QED
        BY <4>1 DEF Leaves
    <3>1. lanes'[l] # 0 /\ lanes'[l] = lanes[l] /\ LaneObj(l)' = o
      BY <2>4, <2>5 DEF Idle, LaneObj
    <3>2. queue[o] \ {e} = {} /\ activeTaskIds[o] = {} /\ maxConcurrent[o] = 1
      BY <2>2, <3>1 DEF Idle, TypeOK
    <3>3. o[1] = l /\ Registered(o)
      BY <2>5 DEF Registered
    <3>4. lanes' = [lanes EXCEPT ![l] = 0]
      BY <2>2, <3>2, <3>3 DEF Retire
    <3> QED
      BY <1>0, <3>1, <3>4 DEF TypeOK
  <2>6. CASE <<l, lanes[l]>> # o
    <3>1. lanes'[l] # 0 => queue'[<<l, lanes[l]>>] = queue[<<l, lanes[l]>>]
      <4>1. lanes'[l] # 0 => <<l, lanes[l]>> \in Objs
        BY <1>0, <2>4, LaneObjType DEF LaneObj
      <4> QED
        BY <2>2, <2>6, <4>1 DEF TypeOK
    <3> QED
      BY <1>0, <2>2, <2>3, <2>4, <3>1, IdleStays DEF SameDuties
  <2> QED
    BY <2>5, <2>6
<1>4. ASSUME NEW m \in Lanes, ClearLane(m)
      PROVE  Leaves(l)'
  <2>1. PICK o \in Objs : o = LaneObj(m) /\ lanes[m] # 0 /\ o = <<m, lanes[m]>>
    BY <1>4, LaneObjType DEF ClearLane, LaneObj
  <2>2. /\ queue' = [queue EXCEPT ![o] = {}]
        /\ UNCHANGED <<lanes, created, activeTaskIds, maxConcurrent, generation>>
        /\ Callable /\ stack' = Caller
    BY <1>4, <2>1 DEF ClearLane
  <2>3. SameDuties(stack, stack')
    BY <1>c, <2>2
  <2>4. CASE l # m \/ queue[o] = {}
    <3>1. lanes'[l] # 0 => <<l, lanes[l]>> \in Objs
      BY <1>0, <2>2, LaneObjType DEF LaneObj
    <3>2. lanes'[l] # 0 => queue'[<<l, lanes[l]>>] = queue[<<l, lanes[l]>>]
      <4>1. CASE <<l, lanes[l]>> = o
        <5>1. l = m /\ queue[o] = {}
          BY <2>1, <2>4, <4>1
        <5>2. queue \in [Objs -> SUBSET Entries]
          BY DEF TypeOK
        <5>3. queue'[o] = {}
          BY <2>2, <5>2
        <5>4. <<l, lanes[l]>>' = o
          BY <2>2, <4>1
        <5> QED
          BY <4>1, <5>1, <5>3
      <4>2. CASE <<l, lanes[l]>> # o
        BY <2>2, <3>1, <4>2 DEF TypeOK
      <4> QED
        BY <4>1, <4>2
    <3> QED
      BY <1>0, <2>2, <2>3, <3>2, IdleStays DEF SameDuties
  <2>5. CASE l = m /\ queue[o] # {}
    <3> SUFFICES ASSUME Idle(l)'
                 PROVE  o \in Pumped(stack) \/ l \in Revisited(stack)
      <4>1. LaneObj(l)' = o
        BY <2>1, <2>2, <2>5 DEF LaneObj
      <4> QED
        BY <2>3, <4>1 DEF Leaves, SameDuties
    <3>1. LaneObj(l)' = o
      BY <2>1, <2>2, <2>5 DEF LaneObj
    <3>2. activeTaskIds[o] = {} /\ maxConcurrent[o] = 1
      BY <2>2, <3>1 DEF Idle
    <3>3. HasWidth(o)
      BY <3>2, FS_EmptySet DEF HasWidth
    <3>4. CanAdmitInGroup(l)
      BY <1>0 DEF CanAdmitInGroup
    <3>5. Waiting(l) /\ ActiveIn(l) = {}
      BY <2>1, <2>5, <3>2, <3>3, <3>4 DEF Waiting, ActiveIn
    <3>6. CoveredBy(l, stack)
      BY <1>0, <3>5 DEF PumpInv, WorkServed, ServedBy
    <3> QED
      BY <1>0, <2>1, <2>5, <3>6, ApartDuties DEF CoveredBy, IdleInv
  <2> QED
    BY <2>4, <2>5
<1>5. ASSUME NEW e \in Entries, Settle(e)
      PROVE  Leaves(l)'
  <2>1. stack = <<>> /\ entry[e].status = "started"
        /\ UNCHANGED <<lanes, queue, maxConcurrent, generation>>
    BY <1>5 DEF Settle
  <2>2. PICK o \in Objs : o = entry[e].owner
    BY DEF TypeOK, EntryStates
  <2>3. CASE entry[e].generation # generation[o]
    BY <1>0, <1>5, <2>1, <2>2, <2>3, IdleStays DEF Settle
  <2>4. CASE entry[e].generation = generation[o]
    <3>1. /\ activeTaskIds' = [activeTaskIds EXCEPT ![o] = @ \ {e}]
          /\ DrainReady(o, stack, draining)
      BY <1>5, <2>2, <2>4 DEF Settle
    <3>2. e \in activeTaskIds[o]
      BY <2>1, <2>2, <2>4 DEF CustodyInv, Custody
    <3>3. lanes[o[1]] = o[2] /\ o = <<o[1], o[2]>> /\ o[1] \in Lanes
      BY <3>2 DEF CustodyInv, Custody, Registered, Objs
    <3>4. WellStacked(stack) /\ Resting(stack) /\ SameDuties(stack, stack)
      BY <1>d, <2>1 DEF Resting, SameDuties
    <3>5. CASE l = o[1]
      <4>1. lanes'[l] = o[2]
        BY <2>1, <3>3, <3>5
      <4> QED
        BY <1>0, <1>d, <3>1, <3>4, <3>5, <4>1, IdlePumped
    <3>6. CASE l # o[1]
      <4>1. Grows(stack, stack')
        BY <1>d, <3>1, <3>4, DrainReadyDuties
      <4>2. lanes'[l] # 0 => <<l, lanes[l]>> \in Objs
        BY <1>0, <2>1, LaneObjType DEF LaneObj
      <4>3. lanes'[l] # 0 => activeTaskIds'[<<l, lanes[l]>>] = activeTaskIds[<<l, lanes[l]>>]
        BY <3>1, <3>6, <4>2 DEF TypeOK
      <4> QED
        BY <1>0, <2>1, <4>1, <4>3, IdleStays DEF Grows
    <3> QED
      BY <3>5, <3>6
  <2> QED
    BY <2>3, <2>4
<1> QED
  BY <1>1, <1>2, <1>3, <1>4, <1>5 DEF UserCall

\* A width pumps its lane, or is not the width of an idle one; a reset marks the
\* lane it leaves registered.
LEMMA IdleConfigure ==
    ASSUME UnscopedConfigs, TypeOK, TypeOK', CustodyInv, PumpInv, GroupMapsAgree, IdleInv,
           Configure \/ Recover
    PROVE  \A l \in ScopedLanes : Leaves(l)'
<1> USE DEF config, registry
<1>d. draining \in [Objs -> BOOLEAN] /\ stack \in Seq(Frames) /\ WellStacked(stack)
  BY DEF TypeOK, PumpInv
<1> SUFFICES ASSUME NEW l \in ScopedLanes PROVE Leaves(l)'
  OBVIOUS
<1>0. Leaves(l) /\ l \in Lanes /\ groupByLane[l] = NoGroup
  BY ScopedAlone DEF IdleInv
<1>c. ASSUME Callable
      PROVE  /\ Caller \in Seq(Frames) /\ WellStacked(Caller) /\ Resting(Caller)
             /\ SameDuties(stack, Caller)
  BY <1>c, CallerDuties DEF PumpInv
<1>o. lanes[l] # 0 => <<l, lanes[l]>> \in Objs
  BY <1>0, LaneObjType DEF LaneObj
<1>1. ASSUME NEW m \in Lanes, NEW n \in Widths, SetConcurrency(m, n) PROVE Leaves(l)'
  <2>1. /\ LaneObj(m) \in Objs
        /\ maxConcurrent' = [maxConcurrent EXCEPT ![LaneObj(m)] = Clamp(m, n)]
        /\ lanes' = [lanes EXCEPT ![m] = LaneObj(m)[2]]
        /\ IF Clamp(m, n) > 0 THEN DrainReady(LaneObj(m), Caller, draining)
           ELSE stack' = Caller /\ draining' = draining
        /\ UNCHANGED <<queue, activeTaskIds, generation>>
        /\ Callable
    BY <1>1 DEF SetConcurrency, GetLaneState
  <2>2. PICK o \in Objs : o = LaneObj(m) /\ o[1] = m /\ o = <<m, o[2]>> /\ o[2] # 0
    BY <2>1 DEF LaneObj, Objs
  <2>3. PICK stk \in Seq(Frames) : /\ stk = Caller
                                   /\ WellStacked(stk) /\ Resting(stk) /\ SameDuties(stack, stk)
    BY <1>c, <2>1
  <2>4. lanes'[m] = o[2] /\ \A x \in Lanes \ {m} : lanes'[x] = lanes[x]
    BY <2>1, <2>2 DEF TypeOK
  <2>5. CASE l = m /\ Clamp(m, n) > 0
    <3>1. DrainReady(o, stk, draining)
      BY <2>1, <2>2, <2>3, <2>5
    <3> QED
      BY <1>0, <1>d, <2>2, <2>3, <2>4, <2>5, <3>1, IdlePumped
  <2>6. CASE l = m /\ ~(Clamp(m, n) > 0)
    <3>1. LaneObj(l)' = o /\ maxConcurrent'[o] = Clamp(m, n)
      BY <2>1, <2>2, <2>4, <2>6 DEF LaneObj, TypeOK
    <3> QED
      BY <2>6, <3>1 DEF Leaves, Idle
  <2>7. CASE l # m
    <3>1. Grows(stk, stack') \/ stack' = stk
      <4>1. CASE Clamp(m, n) > 0
        <5>1. DrainReady(o, stk, draining)
          BY <2>1, <2>2, <2>3, <4>1
        <5> QED
          BY <1>d, <2>3, <5>1, DrainReadyDuties
      <4>2. CASE ~(Clamp(m, n) > 0)
        BY <2>1, <2>3, <4>2
      <4> QED
        BY <4>1, <4>2
    <3>2. Pumped(stack) \subseteq Pumped(stack') /\ Revisited(stack) \subseteq Revisited(stack')
      BY <2>3, <3>1 DEF Grows, SameDuties
    <3>3. lanes'[l] = lanes[l]
      BY <1>0, <2>4, <2>7
    <3>4. lanes'[l] # 0 => maxConcurrent'[<<l, lanes[l]>>] = maxConcurrent[<<l, lanes[l]>>]
      BY <1>o, <2>1, <2>2, <2>7, <3>3 DEF TypeOK
    <3> QED
      BY <1>0, <2>1, <3>2, <3>3, <3>4, IdleStays
  <2> QED
    BY <2>5, <2>6, <2>7
<1>2. ASSUME NEW c \in PublishConfigs, Publish(c) PROVE Leaves(l)'
  <2>1. l \notin c.lanes
    BY DEF UnscopedConfigs
  <2>2. /\ UNCHANGED <<queue, activeTaskIds, generation>> /\ Callable
        /\ lanes'[l] = lanes[l]
        /\ \A o \in Objs : o[1] \notin c.lanes => maxConcurrent'[o] = maxConcurrent[o]
    BY <1>0, <1>2, <2>1 DEF Publish
  <2>3. PICK stk \in Seq(Frames) : stk = Caller /\ SameDuties(stack, stk)
    BY <1>c, <2>2
  <2>3f. PICK f : f = LoopFrame(Touched(c), TRUE)
    OBVIOUS
  <2>4. stack' = Push(f, stk)
    BY <1>2, <2>3, <2>3f DEF Publish
  <2>5. f \in Frames
    <3>1. stack' \in Seq(Frames)
      BY DEF TypeOK
    <3>2. stack' # <<>> /\ Head(stack') = f
      BY <2>3, <2>4 DEF Push
    <3> QED
      BY <3>1, <3>2
  <2>6. Pumped(stack) \subseteq Pumped(stack') /\ Revisited(stack) \subseteq Revisited(stack')
    <3>1. /\ Pumped(Push(f, stk)) = Pumps(f) \cup Pumped(stk)
          /\ Revisited(Push(f, stk)) = Revisits(f) \cup Revisited(stk)
      BY <2>3, <2>5, PushDuties
    <3>2. Pumped(stk) = Pumped(stack) /\ Revisited(stk) = Revisited(stack)
      BY <2>3 DEF SameDuties
    <3>3. Pumped(stack') = Pumped(Push(f, stk)) /\ Revisited(stack') = Revisited(Push(f, stk))
      BY <2>4
    <3> QED
      BY <3>1, <3>2, <3>3
  <2>7. lanes'[l] # 0 => maxConcurrent'[<<l, lanes[l]>>] = maxConcurrent[<<l, lanes[l]>>]
    BY <1>o, <2>1, <2>2
  <2> QED
    BY <1>0, <2>2, <2>6, <2>7, IdleStays
<1>3. ASSUME NEW m \in Lanes, ResetLane(m) PROVE Leaves(l)'
  <2>1. PICK o \in Objs : o = LaneObj(m) /\ o[1] = m /\ o = <<m, lanes[m]>>
    BY <1>3, LaneObjType DEF ResetLane, LaneObj
  <2>2. /\ generation' = [generation EXCEPT ![o] = @ + 1]
        /\ activeTaskIds' = [activeTaskIds EXCEPT ![o] = {}]
        /\ DrainReady(o, Caller, [draining EXCEPT ![o] = FALSE])
        /\ UNCHANGED <<lanes, queue, maxConcurrent>>
        /\ Callable /\ lanes[m] # 0
    BY <1>3, <2>1 DEF ResetLane
  <2>3. PICK stk \in Seq(Frames) : /\ stk = Caller
                                   /\ WellStacked(stk) /\ Resting(stk) /\ SameDuties(stack, stk)
    BY <1>c, <2>2
  <2>4. PICK dr \in [Objs -> BOOLEAN] : dr = [draining EXCEPT ![o] = FALSE]
    BY <1>d
  <2>5. DrainReady(o, stk, dr)
    BY <2>2, <2>3, <2>4
  <2>6. CASE l = m
    <3>1. LaneObj(l)' = o /\ generation'[o] > 0
      BY <2>1, <2>2, <2>6 DEF LaneObj, TypeOK
    <3> QED
      BY <3>1 DEF Leaves
  <2>7. CASE l # m
    <3>1. Grows(stk, stack')
      BY <2>3, <2>5, DrainReadyDuties
    <3>2. lanes'[l] # 0 => /\ activeTaskIds'[<<l, lanes[l]>>] = activeTaskIds[<<l, lanes[l]>>]
                           /\ generation'[<<l, lanes[l]>>] = generation[<<l, lanes[l]>>]
      BY <1>o, <2>1, <2>2, <2>7 DEF TypeOK
    <3> QED
      BY <1>0, <2>2, <2>3, <3>1, <3>2, IdleStays DEF Grows, SameDuties
  <2> QED
    BY <2>6, <2>7
<1>4. CASE ResetAllLanes
  <2> SUFFICES ASSUME Idle(l)' PROVE generation'[LaneObj(l)'] > 0
    BY DEF Leaves
  <2>1. lanes' = lanes /\ lanes[l] # 0
    BY <1>4 DEF ResetAllLanes, Idle
  <2>2. PICK o \in Objs : o = <<l, lanes[l]>> /\ LaneObj(l)' = o /\ Registered(o)
    BY <1>o, <2>1 DEF LaneObj, Registered
  <2>3. generation'[o] = generation[o] + 1 /\ generation[o] \in Nat
    BY <1>4, <2>2 DEF ResetAllLanes, TypeOK
  <2> QED
    BY <2>2, <2>3
<1>5. CASE MarkGatewayDraining
  BY <1>0, <1>5, <1>c, IdleStays DEF MarkGatewayDraining, SameDuties
<1> QED
  BY <1>1, <1>2, <1>3, <1>4, <1>5 DEF Configure, Recover

\* Scoped lanes leave the registry when they become idle and no call is in
\* progress, however their entries left them; a reset excuses its lane.
THEOREM IdleScopedLanesRetireTheorem == UnscopedConfigs => (Spec => []IdleScopedLanesRetire)
<1> SUFFICES ASSUME UnscopedConfigs PROVE Spec => []IdleScopedLanesRetire
  OBVIOUS
<1>1. Init => IdleInv
  BY ScopedAlone, LaneAssumption DEF Init, IdleInv, Leaves, Idle
<1>2. TypeOK /\ TypeOK' /\ CustodyInv /\ PumpInv /\ GroupMapsAgree /\ IdleInv /\ [Next]_vars
      => IdleInv'
  <2> SUFFICES ASSUME TypeOK, TypeOK', CustodyInv, PumpInv, GroupMapsAgree,
                      IdleInv, [Next]_vars
               PROVE  IdleInv'
    OBVIOUS
  <2>1. CASE UNCHANGED vars
    BY <2>1 DEF vars, IdleInv, Leaves, Idle, LaneObj
  <2>2. CASE Next
    <3>1. stack' \in Seq(Apart)
      BY <2>2, ApartStep DEF IdleInv
    <3>2. \A l \in ScopedLanes : Leaves(l)'
      BY <2>2, IdlePump, IdleUserCall, IdleConfigure DEF Next
    <3> QED
      BY <3>1, <3>2 DEF IdleInv
  <2> QED
    BY <2>1, <2>2
<1>3. IdleInv => IdleScopedLanesRetire
  <2> SUFFICES ASSUME IdleInv, stack = <<>>, NEW l \in ScopedLanes, Idle(l)
               PROVE  generation[LaneObj(l)] > 0
    BY DEF IdleScopedLanesRetire, Idle
  <2> QED
    BY NoDuties DEF IdleInv, Leaves
<1> QED
  BY <1>1, <1>2, <1>3, Typing, CustodyKept, PumpKept, GroupMapsTheorem, PTL DEF Spec

-----------------------------------------------------------------------------
(* The order of starts in a group *)

\* No callback publishes a configuration.  One that did could put the lane that
\* a pump of its own is draining into a group, which would go on without
\* arbitration.
QuietCallbacks == [][stack # <<>> => UNCHANGED config]_vars

\* The frames of which a pump that was not sent by a group drains a lane that is
\* in none, by being the group of each lane.
Ungrouped(by) == {f \in Frames : f.fn = "drainLane" /\ ~f.bounded => by[f.obj[1]] = NoGroup}

\* A pump that a group sent has not looked at its lane yet.
Sent(f) == f.fn = "drainLane" /\ f.bounded /\ ~f.started
Calm(s) == s # <<>> => ~Sent(Head(s))

\* It was sent to the lane whose first entry comes before all that compete.
Arbitrated ==
    stack # <<>> /\ Sent(Top) =>
        LET l == Top.obj[1]
            g == groupByLane[l] IN
        /\ lanes[l] # 0 /\ Top.obj = LaneObj(l)
        /\ \E e \in queue[Top.obj] :
              First(e, queue[Top.obj] \cup UNION {queue[LaneObj(m)] : m \in Candidates(g)})

OrderInv == stack \in Seq(Ungrouped(groupByLane)) /\ Arbitrated

\* Frames go on and off a stack of such frames.
LEMMA UngroupedStack ==
    ASSUME NEW by, NEW f \in Ungrouped(by), NEW s \in Seq(Ungrouped(by))
    PROVE  /\ Push(f, s) \in Seq(Ungrouped(by))
           /\ s # <<>> => Head(s) \in Ungrouped(by) /\ Tail(s) \in Seq(Ungrouped(by))
           /\ Calm(Push(f, s)) <=> ~Sent(f)
<1> DEFINE U == Ungrouped(by)
<1> HIDE DEF U
<1>1. f \in U /\ s \in Seq(U)
  BY DEF U
<1>2. /\ Push(f, s) \in Seq(U) /\ Push(f, s) # <<>> /\ Head(Push(f, s)) = f
      /\ s # <<>> => Head(s) \in U /\ Tail(s) \in Seq(U)
  BY <1>1 DEF Push
<1> QED
  BY <1>2 DEF U, Calm

\* The frames of groups and loops, and the pumps a group sends, are such frames.
LEMMA UngroupedFrame ==
    ASSUME NEW by, NEW f \in Frames, f.fn # "drainLane" \/ f.bounded \/ by[f.obj[1]] = NoGroup
    PROVE  f \in Ungrouped(by)
BY DEF Ungrouped

\* The innermost frame may go on as it is, and what is under a pump has begun.
LEMMA UngroupedTop ==
    ASSUME stack \in Seq(Frames), stack # <<>>, WellStacked(stack),
           NEW by, stack \in Seq(Ungrouped(by))
    PROVE  /\ Top \in Ungrouped(by) /\ Tail(stack) \in Seq(Ungrouped(by))
           /\ Calm(Tail(stack))
<1>1. Top \in Ungrouped(by) /\ Tail(stack) \in Seq(Ungrouped(by))
  <2> DEFINE U == Ungrouped(by)
  <2> HIDE DEF U
  <2>1. stack \in Seq(U)
    BY DEF U
  <2>2. Head(stack) \in U /\ Tail(stack) \in Seq(U)
    BY <2>1
  <2> QED
    BY <2>2 DEF U, Top
<1>2. Calm(Tail(stack))
  BY TopStacked DEF Calm, Sent, Sits
<1> QED
  BY <1>1, <1>2

\* A call made from a callback finds its pump past its first start.
LEMMA UngroupedCaller ==
    ASSUME TypeOK, WellStacked(stack), Callable, NEW by, stack \in Seq(Ungrouped(by))
    PROVE  Caller \in Seq(Ungrouped(by)) /\ Calm(Caller)
<1>s. stack \in Seq(Frames)
  BY DEF TypeOK
<1>1. CASE stack = <<>>
  BY <1>1 DEF Caller, Calm
<1>2. CASE stack # <<>>
  <2>1. Top \in LaneFrames /\ Top.calls > 0 /\ Top.started
    BY <1>2, <1>s, LaneTop, TopStacked DEF Callable, InCallback, CallsAfterStart
  <2>2. PICK f : f = [Top EXCEPT !.calls = @ - 1]
    OBVIOUS
  <2>3. f \in LaneFrames
    BY <2>1, <2>2, BoundAssumption DEF LaneFrames
  <2>3f. f.fn = Top.fn /\ f.obj = Top.obj /\ f.bounded = Top.bounded /\ f.started = Top.started
    BY <2>1, <2>2 DEF LaneFrames
  <2>4. Top \in Ungrouped(by) /\ Tail(stack) \in Seq(Ungrouped(by))
    BY <1>2, <1>s, UngroupedTop
  <2>5. f \in Ungrouped(by) /\ ~Sent(f)
    BY <2>1, <2>3, <2>3f, <2>4 DEF Ungrouped, Frames, Sent
  <2>6. Caller = Push(f, Tail(stack))
    BY <1>2, <2>2 DEF Caller
  <2> QED
    BY <2>4, <2>5, <2>6, UngroupedStack
<1> QED
  BY <1>1, <1>2

\* A lane is pumped by itself only when it is in no group.
LEMMA UngroupedReady ==
    ASSUME TypeOK, NEW o \in Objs, NEW by, by = groupByLane,
           NEW stk \in Seq(Ungrouped(by)), Calm(stk),
           NEW dr \in [Objs -> BOOLEAN], DrainReady(o, stk, dr)
    PROVE  stack' \in Seq(Ungrouped(by)) /\ Calm(stack')
<1>1. PICK g : g = groupByLane[o[1]]
  OBVIOUS
<1>2. g \in GroupIds \cup {NoGroup}
  BY <1>1 DEF TypeOK, Objs
<1>5. CASE g = NoGroup
  <2>1. \/ stack' = stk
        \/ stack' = Push(LaneFrame(o, FALSE), stk)
    BY <1>1, <1>5 DEF DrainReady, DrainLane
  <2>2. PICK f : f = LaneFrame(o, FALSE)
    OBVIOUS
  <2>3. f \in LaneFrames /\ f.obj = o /\ f.bounded = FALSE
    BY <2>2, BoundAssumption DEF LaneFrame, LaneFrames
  <2>4. f \in Ungrouped(by) /\ ~Sent(f)
    BY <1>1, <1>5, <2>3 DEF Ungrouped, Frames, Sent
  <2> QED
    BY <2>1, <2>2, <2>4, UngroupedStack
<1>6. CASE g # NoGroup
  <2>1. \/ stack' = stk
        \/ stack' = Push(GroupFrame(g), stk)
    BY <1>1, <1>6 DEF DrainReady
  <2>2. PICK f : f = GroupFrame(g)
    OBVIOUS
  <2>3. f \in GroupFrames /\ f.fn = "drainCommandLaneGroup"
    BY <1>2, <1>6, <2>2 DEF TypeOK, GroupFrame, GroupStates, GroupFrames
  <2>4. f \in Ungrouped(by) /\ ~Sent(f)
    BY <2>3 DEF Ungrouped, Frames, Sent
  <2> QED
    BY <2>1, <2>2, <2>4, UngroupedStack
<1> QED
  BY <1>5, <1>6

\* Whatever a step leaves on the stack, only a group sends a pump.
LEMMA UngroupedStep ==
    ASSUME TypeOK, stack' \in Seq(Frames), WellStacked(stack), NEW by, by = groupByLane,
           stack \in Seq(Ungrouped(by)), Next
    PROVE  /\ stack' \in Seq(Ungrouped(by))
           /\ ~DrainGroupStep => Calm(stack')
<1> DEFINE Good == stack' \in Seq(Ungrouped(by)) /\ Calm(stack')
<1>d. draining \in [Objs -> BOOLEAN] /\ stack \in Seq(Frames)
  BY DEF TypeOK
<1>c. Callable => Caller \in Seq(Ungrouped(by)) /\ Calm(Caller)
  BY UngroupedCaller
<1>t. stack # <<>> => /\ Top \in Ungrouped(by) /\ Tail(stack) \in Seq(Ungrouped(by))
                      /\ Calm(Tail(stack)) /\ WellStacked(Tail(stack)) /\ CallsAfterStart(Top)
  BY <1>d, UngroupedTop, TopStacked
<1>p. ASSUME NEW f \in Ungrouped(by), NEW s \in Seq(Ungrouped(by)), ~Sent(f), stack' = Push(f, s)
      PROVE  Good
  BY <1>p, UngroupedStack
<1>o. \A l \in Lanes : lanes[l] # 0 => LaneObj(l) \in Objs
  BY LaneObjType
<1>1. CASE StartTask
  <2>1. stack # <<>> /\ Top \in LaneFrames
    BY <1>1, <1>d, LaneTop DEF StartTask, Pumping
  <2>2. PICK calls \in {0, MaxCalls} :
           stack' = Push([Top EXCEPT !.started = TRUE, !.calls = calls], Tail(stack))
    BY <1>1 DEF StartTask
  <2>3. PICK f, h : h = [Top EXCEPT !.started = TRUE] /\ f = [h EXCEPT !.calls = calls]
    OBVIOUS
  <2>4. f = [Top EXCEPT !.started = TRUE, !.calls = calls]
    BY <2>3, Zenon
  <2>5. h \in LaneFrames /\ h.started /\ h.obj = Top.obj /\ h.bounded = Top.bounded
    BY <2>1, <2>3 DEF LaneFrames
  <2>6. calls \in 0 .. MaxCalls
    BY BoundAssumption
  <2>7. f \in LaneFrames /\ f.started /\ f.obj = Top.obj /\ f.bounded = Top.bounded
    BY <2>3, <2>5, <2>6 DEF LaneFrames
  <2>8. f \in Ungrouped(by) /\ ~Sent(f)
    BY <1>t, <2>1, <2>7 DEF Ungrouped, Sent, Frames, LaneFrames
  <2> QED
    BY <1>t, <1>p, <2>1, <2>2, <2>4, <2>8
<1>2. CASE CallbackReturns
  <2>1. stack # <<>> /\ Top \in LaneFrames /\ Top.calls > 0
    BY <1>2, <1>d, LaneTop DEF CallbackReturns, InCallback
  <2>2. PICK f : f = [Top EXCEPT !.calls = 0]
    OBVIOUS
  <2>3. f \in LaneFrames
    BY <2>1, <2>2, BoundAssumption DEF LaneFrames
  <2>4. /\ f.fn = "drainLane" /\ f.obj = Top.obj
        /\ f.bounded = Top.bounded /\ f.started = Top.started
    BY <2>1, <2>2 DEF LaneFrames
  <2>5. Top.started
    BY <1>t, <2>1 DEF CallsAfterStart, LaneFrames
  <2>6. f \in Ungrouped(by) /\ ~Sent(f)
    <3>1. ~f.bounded => by[f.obj[1]] = NoGroup
      BY <1>t, <2>1, <2>4 DEF Ungrouped, LaneFrames
    <3> QED
      BY <2>3, <2>4, <2>5, <3>1 DEF Ungrouped, Sent, Frames
  <2>7. stack' = Push(f, Tail(stack))
    BY <1>2, <2>2 DEF CallbackReturns
  <2> QED
    BY <1>t, <1>p, <2>1, <2>6, <2>7
<1>3. CASE DrainLaneReturns
  <2>1. stack # <<>> /\ stack' = ReturnTo /\ Top.fn = "drainLane"
    BY <1>3 DEF DrainLaneReturns, Pumping
  <2>2. PICK s \in Seq(Frames) : s = Tail(stack)
    BY <1>d, <2>1, TopType
  <2>3. s \in Seq(Ungrouped(by)) /\ Calm(s) /\ WellStacked(s)
    BY <1>t, <2>1, <2>2
  <2>4. CASE stack' = s
    BY <2>3, <2>4
  <2>5. CASE s # <<>> /\ Head(s).fn = "drainCommandLaneGroup" /\ stack' = Tail(s)
    <3>1. Tail(s) \in Seq(Ungrouped(by))
      <4> DEFINE U == Ungrouped(by)
      <4> HIDE DEF U
      <4>1. s \in Seq(U)
        BY <2>3 DEF U
      <4>2. Tail(s) \in Seq(U)
        BY <2>5, <4>1
      <4> QED
        BY <4>2 DEF U
    <3>2. Calm(Tail(s))
      <4> SUFFICES ASSUME Tail(s) # <<>> PROVE ~Sent(Head(Tail(s)))
        BY DEF Calm
      <4>1. 1 \in DOMAIN s /\ 1 + 1 \in DOMAIN s
            /\ s[1] = Head(s) /\ s[1 + 1] = Head(Tail(s))
        BY <2>5
      <4>2. Sits(Head(s), Head(Tail(s)))
        BY <2>3, <4>1 DEF WellStacked
      <4> QED
        BY <4>2 DEF Sits, Sent
    <3> QED
      BY <2>5, <3>1, <3>2
  <2>6. stack' = s \/ (s # <<>> /\ Head(s).fn = "drainCommandLaneGroup" /\ stack' = Tail(s))
    BY <2>1, <2>2 DEF ReturnTo
  <2> QED
    BY <2>4, <2>5, <2>6
<1>4. CASE DrainGroupStep
  <2>1. stack # <<>> /\ Top \in GroupFrames
    BY <1>4, <1>d, GroupTop DEF DrainGroupStep, Pumping
  <2>2. ASSUME NEW l \in Selected(Top.group), DrainLane(LaneObj(l), TRUE, stack, draining)
        PROVE  stack' \in Seq(Ungrouped(by))
    <3>1. LaneObj(l) \in Objs
      BY <1>o, <2>1, <2>2 DEF Selected, Candidates, TypeOK, GroupStates, GroupFrames
    <3>2. PICK f : f = LaneFrame(LaneObj(l), TRUE)
      OBVIOUS
    <3>3. f \in LaneFrames /\ f.bounded
      BY <3>1, <3>2, BoundAssumption DEF LaneFrame, LaneFrames
    <3>4. f \in Ungrouped(by)
      BY <3>3 DEF Ungrouped, Frames
    <3>5. stack' = stack \/ stack' = Push(f, stack)
      BY <2>2, <3>2 DEF DrainLane
    <3> QED
      BY <3>4, <3>5, UngroupedStack
  <2> QED
    BY <1>4, <1>t, <2>1, <2>2 DEF DrainGroupStep
<1>5. CASE DrainEachStep
  <2>1. stack # <<>> /\ Top \in LoopFrames
    BY <1>5, <1>d, LoopTop DEF DrainEachStep, Pumping
  <2>2. ASSUME NEW l \in Top.todo, NEW rest, rest = Push([Top EXCEPT !.todo = @ \ {l}], Tail(stack))
        PROVE  rest \in Seq(Ungrouped(by)) /\ Calm(rest)
    <3>1. PICK f : f = [Top EXCEPT !.todo = @ \ {l}]
      OBVIOUS
    <3>2. f \in LoopFrames /\ f.fn = "drainEach"
      BY <2>1, <3>1 DEF LoopFrames
    <3>3. f \in Ungrouped(by) /\ ~Sent(f)
      BY <3>2 DEF Ungrouped, Frames, Sent
    <3>4. rest = Push(f, Tail(stack))
      BY <2>2, <3>1
    <3> QED
      BY <1>t, <2>1, <3>3, <3>4, UngroupedStack
  <2>3. ASSUME NEW l \in Top.todo, lanes[l] # 0, NEW rest,
               rest = Push([Top EXCEPT !.todo = @ \ {l}], Tail(stack)),
               DrainReady(LaneObj(l), rest, draining)
        PROVE  Good
    <3>1. LaneObj(l) \in Objs
      BY <1>o, <2>1, <2>3 DEF LoopFrames
    <3>2. rest \in Seq(Ungrouped(by)) /\ Calm(rest)
      BY <2>2, <2>3
    <3> QED
      BY <1>d, <2>3, <3>1, <3>2, UngroupedReady
  <2>4. CASE Top.todo = {} /\ stack' = Tail(stack)
    BY <1>t, <2>1, <2>4
  <2>5. ASSUME NEW l \in Top.todo, NEW rest,
               rest = Push([Top EXCEPT !.todo = @ \ {l}], Tail(stack)),
               \/ stack' = rest
               \/ lanes[l] # 0 /\ DrainReady(LaneObj(l), rest, draining)
        PROVE  Good
    BY <2>2, <2>3, <2>5
  <2>6. \/ stack' = Tail(stack)
        \/ \E l \in Top.todo :
              LET rest == Push([Top EXCEPT !.todo = @ \ {l}], Tail(stack)) IN
              \/ stack' = rest
              \/ lanes[l] # 0 /\ DrainReady(LaneObj(l), rest, draining)
    BY <1>5 DEF DrainEachStep
  <2> QED
    BY <1>t, <2>1, <2>5, <2>6
<1>6. ASSUME NEW o \in Objs, NEW dr \in [Objs -> BOOLEAN], Callable, DrainReady(o, Caller, dr)
      PROVE  Good
  BY <1>6, <1>c, UngroupedReady
<1>7. ASSUME NEW e \in Entries, NEW l \in Lanes, NEW p \in Priorities, Enqueue(e, l, p)
      PROVE  Good
  <2>1. Callable /\ LaneObj(l) \in Objs /\ DrainReady(LaneObj(l), Caller, draining)
    BY <1>7 DEF Enqueue, GetLaneState
  <2> QED
    BY <1>6, <1>d, <2>1
<1>8. CASE \/ \E e \in Entries, aborted \in BOOLEAN : Refuse(e, aborted)
           \/ \E e \in Entries : Abort(e)
           \/ \E l \in Lanes : ClearLane(l)
           \/ MarkGatewayDraining
  BY <1>8, <1>c DEF Refuse, Abort, ClearLane, MarkGatewayDraining
<1>9. ASSUME NEW e \in Entries, Settle(e)
      PROVE  Good
  <2>1. entry[e].owner \in Objs
    BY DEF TypeOK, EntryStates
  <2>2. stack = <<>> /\ Calm(stack)
    BY <1>9 DEF Settle, Calm
  <2>3. stack' = stack \/ DrainReady(entry[e].owner, stack, draining)
    BY <1>9 DEF Settle
  <2> QED
    BY <1>d, <2>1, <2>2, <2>3, UngroupedReady
<1>10. ASSUME NEW l \in Lanes, NEW n \in Widths, SetConcurrency(l, n)
       PROVE  Good
  <2>1. /\ Callable /\ LaneObj(l) \in Objs
        /\ stack' = Caller \/ DrainReady(LaneObj(l), Caller, draining)
    BY <1>10 DEF SetConcurrency, GetLaneState
  <2> QED
    BY <1>6, <1>c, <1>d, <2>1
<1>11. ASSUME NEW f, f.fn = "drainEach", Callable, stack' = Push(f, Caller)
       PROVE  Good
  <2>1. PICK s \in Seq(Ungrouped(by)) : s = Caller
    BY <1>11, <1>c
  <2>2. f \in Frames
    <3>1. stack' # <<>> /\ Head(stack') = f
      BY <1>11, <2>1 DEF Push
    <3> QED
      BY <3>1
  <2>3. f \in Ungrouped(by) /\ ~Sent(f)
    BY <1>11, <2>2 DEF Ungrouped, Sent
  <2> QED
    BY <1>11, <1>p, <2>1, <2>3
<1>12. ASSUME NEW c \in PublishConfigs, Publish(c)
       PROVE  Good
  <2>1. PICK f : f = LoopFrame(Touched(c), TRUE)
    OBVIOUS
  <2>2. stack' = Push(f, Caller) /\ Callable
    BY <1>12, <2>1 DEF Publish
  <2>3. f.fn = "drainEach"
    BY <2>1 DEF LoopFrame
  <2> QED
    BY <1>11, <2>2, <2>3
<1>13. ASSUME NEW l \in Lanes, ResetLane(l)
       PROVE  Good
  <2>1. LaneObj(l) \in Objs /\ Callable
    BY <1>13, <1>o DEF ResetLane
  <2>2. PICK dr \in [Objs -> BOOLEAN] : dr = [draining EXCEPT ![LaneObj(l)] = FALSE]
    BY <1>d
  <2>3. DrainReady(LaneObj(l), Caller, dr)
    BY <1>13, <2>2 DEF ResetLane
  <2> QED
    BY <1>6, <2>1, <2>3
<1>14. CASE ResetAllLanes
  <2>1. PICK f : f = LoopFrame({l \in Lanes : lanes[l] # 0 /\ queue[LaneObj(l)] # {}}, FALSE)
    OBVIOUS
  <2>2. f.fn = "drainEach"
    BY <2>1 DEF LoopFrame
  <2> QED
    BY <1>14, <1>11, <2>1, <2>2 DEF ResetAllLanes
<1> QED
  BY <1>1, <1>2, <1>3, <1>4, <1>5, <1>7, <1>8, <1>9, <1>10, <1>12, <1>13, <1>14
     DEF Next, Pump, UserCall, Configure, Recover

\* The pump a group sends is sent to the lane it selected.
LEMMA SentByGroup ==
    ASSUME TypeOK, GroupMapsAgree, DrainGroupStep, ~Calm(stack'),
           stack # <<>> => Calm(Tail(stack))
    PROVE  Arbitrated'
<1> USE DEF config, registry
<1>1. stack # <<>> /\ Top \in GroupFrames /\ Top.group \in GroupIds /\ stack \in Seq(Frames)
  BY GroupTop DEF DrainGroupStep, Pumping, TypeOK, GroupFrames
<1>2. PICK g \in GroupIds : g = Top.group
  BY <1>1
<1>3. PICK l \in Selected(g) : DrainLane(LaneObj(l), TRUE, stack, draining)
  BY <1>1, <1>2 DEF DrainGroupStep
<1>4. l \in Candidates(g) /\ lanes[l] # 0 /\ l \in groups[g].members
  BY <1>3 DEF Selected, Candidates
<1>5. l \in Lanes /\ groupByLane[l] = g
  BY <1>2, <1>4 DEF GroupMapsAgree, TypeOK, GroupStates
<1>6. PICK o \in Objs : o = LaneObj(l) /\ o[1] = l
  BY <1>4, <1>5, LaneObjType DEF LaneObj
<1>7. /\ draining' = [draining EXCEPT ![o] = TRUE]
      /\ stack' = Push(LaneFrame(o, TRUE), stack)
      /\ UNCHANGED <<lanes, queue, created, activeTaskIds, maxConcurrent, groups, groupByLane, entry>>
  BY <1>3, <1>4, <1>6 DEF Candidates, DrainLane, DrainGroupStep
<1>8. PICK e \in queue[o] : First(e, UNION {queue[LaneObj(m)] : m \in Candidates(g)})
  BY <1>3, <1>6 DEF Selected
<1>9. Top'.obj = o /\ LaneObj(l)' = o /\ groupByLane'[l] = g
  BY <1>1, <1>5, <1>6, <1>7 DEF LaneFrame, Push, Top, LaneObj
<1>10. \A m : LaneObj(m)' = LaneObj(m)
  BY <1>7 DEF LaneObj
<1>11. Candidates(g)' \subseteq Candidates(g)
  <2> SUFFICES ASSUME NEW m \in Candidates(g)' PROVE m \in Candidates(g)
    OBVIOUS
  <2>1. m \in groups[g].members /\ m \in Lanes
    BY <1>7 DEF Candidates, TypeOK, GroupStates
  <2>2. HasWidth(LaneObj(m))' = HasWidth(LaneObj(m)) /\ CanAdmitInGroup(m)' = CanAdmitInGroup(m)
    BY <1>7, <1>10 DEF HasWidth, CanAdmitInGroup, Active, Reserved, HeldSlots, UnmetSlots, ActiveIn
  <2>3. ~draining[LaneObj(m)]
    <3>1. lanes[m] # 0 /\ ~draining'[LaneObj(m)]
      BY <1>7, <1>10 DEF Candidates
    <3>2. LaneObj(m) \in Objs
      BY <2>1, <3>1, LaneObjType
    <3> QED
      BY <1>7, <3>1, <3>2 DEF TypeOK
  <2> QED
    BY <1>7, <1>10, <2>1, <2>2, <2>3 DEF Candidates
<1>12. (queue[o] \cup UNION {queue[LaneObj(m)] : m \in Candidates(g)})'
         \subseteq UNION {queue[LaneObj(m)] : m \in Candidates(g)}
  BY <1>4, <1>6, <1>7, <1>10, <1>11
<1>13. First(e, queue[o] \cup UNION {queue[LaneObj(m)] : m \in Candidates(g)})'
  BY <1>7, <1>8, <1>12 DEF First, Before
<1> QED
  BY <1>6, <1>7, <1>8, <1>9, <1>13, <1>4 DEF Arbitrated

\* A step that starts something takes the first entry of the lane it drains.
LEMMA StartInOrder ==
    ASSUME TypeOK, CustodyInv, OrderInv, StartTask,
           NEW e \in Entries, entry[e].status = "queued", entry'[e].status = "started",
           NEW l, l = entry[e].owner[1], groupByLane[l] # NoGroup,
           NEW m \in Candidates(groupByLane[l]) \ {l}, NEW x \in queue[LaneObj(m)]
    PROVE  Before(e, x)
<1>1. stack # <<>> /\ Top \in LaneFrames /\ stack \in Seq(Frames) /\ Top \in Ungrouped(groupByLane)
  <2>1. stack # <<>> /\ stack \in Seq(Frames)
    BY DEF StartTask, Pumping, TypeOK
  <2>2. Top \in Ungrouped(groupByLane)
    <3> DEFINE U == Ungrouped(groupByLane)
    <3> HIDE DEF U
    <3>1. stack \in Seq(U)
      BY DEF U, OrderInv
    <3>2. Head(stack) \in U
      BY <2>1, <3>1
    <3> QED
      BY <3>2 DEF U, Top
  <2> QED
    BY <2>1, <2>2, LaneTop DEF StartTask, Pumping
<1>2. PICK o \in Objs : o = Top.obj
  BY <1>1 DEF LaneFrames
<1>3. PICK y \in queue[o] : First(y, queue[o])
                            /\ entry' = [entry EXCEPT ![y].status = "started",
                                                      ![y].generation = generation[o]]
  BY <1>2 DEF StartTask
<1>4. y = e
  BY <1>3 DEF TypeOK, EntryStates
<1>5. e \in queue[o] /\ entry[e].owner = o /\ o[1] = l
  BY <1>3, <1>4 DEF CustodyInv, Custody
<1>6. Sent(Top)
  <2>1. Top.bounded
    BY <1>1, <1>2, <1>5 DEF Ungrouped, LaneFrames
  <2>2. MayStart(Top) /\ Top.fn = "drainLane"
    BY DEF StartTask, Pumping
  <2> QED
    BY <2>1, <2>2 DEF MayStart, Sent
<1>7. PICK z \in queue[o] :
          First(z, queue[o] \cup UNION {queue[LaneObj(n)] : n \in Candidates(groupByLane[l])})
  BY <1>1, <1>2, <1>5, <1>6 DEF OrderInv, Arbitrated
<1>8. z = e
  <2>1. z \in Entries /\ e \in Entries
    BY DEF TypeOK
  <2>2. z # e => Before(z, e) /\ Before(e, z)
    BY <1>3, <1>4, <1>5, <1>7 DEF First
  <2>3. entry[z] \in EntryStates /\ entry[e] \in EntryStates
    BY <2>1 DEF TypeOK
  <2>4. /\ entry[z].priority \in Int /\ entry[e].priority \in Int
        /\ entry[z].sequence \in Nat /\ entry[e].sequence \in Nat
    BY <2>3 DEF EntryStates
  <2> QED
    BY <2>2, <2>4 DEF Before
<1>9. x # e
  <2>1. LaneObj(m) # o
    BY <1>5 DEF LaneObj
  <2>2. m \in Lanes /\ lanes[m] # 0
    <3>1. groupByLane[l] \in GroupIds
      BY <1>2, <1>5 DEF TypeOK, Objs
    <3> QED
      BY <3>1 DEF Candidates, TypeOK, GroupStates
  <2>3. entry[x].owner = LaneObj(m)
    BY <2>2, LaneObjType DEF CustodyInv, Custody
  <2> QED
    BY <1>5, <2>1, <2>3
<1> QED
  BY <1>7, <1>8, <1>9 DEF First

\* When a group has free slots, no start in one of its lanes passes over a sibling
\* that may start and holds a more urgent or an older entry, as long as no
\* callback publishes a configuration.
THEOREM GroupOrderTheorem == Spec /\ QuietCallbacks => GroupOrder
<1>1. Init => OrderInv
  BY DEF Init, OrderInv, Arbitrated
<1>2. TypeOK /\ TypeOK' /\ CustodyInv /\ PumpInv /\ GroupMapsAgree /\ OrderInv /\ [Next]_vars
        /\ [stack # <<>> => UNCHANGED config]_vars
      => OrderInv'
  <2> SUFFICES ASSUME TypeOK, stack' \in Seq(Frames), PumpInv, GroupMapsAgree,
                      OrderInv, [Next]_vars, [stack # <<>> => UNCHANGED config]_vars
               PROVE  OrderInv'
    BY DEF TypeOK
  <2>0. WellStacked(stack) /\ stack \in Seq(Frames)
    BY DEF PumpInv, TypeOK
  <2>1. CASE UNCHANGED vars
    <3>1. /\ stack' = stack /\ queue' = queue /\ entry' = entry /\ lanes' = lanes
          /\ groupByLane' = groupByLane /\ groups' = groups /\ activeTaskIds' = activeTaskIds
          /\ maxConcurrent' = maxConcurrent /\ draining' = draining /\ created' = created
      BY <2>1 DEF vars, config, registry
    <3>2. \A m : LaneObj(m)' = LaneObj(m) /\ CanAdmitInGroup(m)' = CanAdmitInGroup(m)
      BY <3>1 DEF LaneObj, CanAdmitInGroup, Active, Reserved, HeldSlots, UnmetSlots, ActiveIn
    <3>3. \A g : Candidates(g)' = Candidates(g)
      BY <3>1, <3>2 DEF Candidates, HasWidth
    <3>4. \A g : UNION {queue[LaneObj(m)] : m \in Candidates(g)}' =
                UNION {queue[LaneObj(m)] : m \in Candidates(g)}
      BY <3>1, <3>2, <3>3
    <3>5. \A e, S : First(e, S)' = First(e, S)
      BY <3>1 DEF First, Before
    <3>6. Arbitrated'
      BY <3>1, <3>2, <3>3, <3>4, <3>5 DEF OrderInv, Arbitrated, Top
    <3> QED
      BY <3>1, <3>6 DEF OrderInv
  <2>2. CASE Next
    <3>1. PICK by : by = groupByLane
      OBVIOUS
    <3>2. stack \in Seq(Ungrouped(by))
      BY <3>1 DEF OrderInv
    <3>3. stack' \in Seq(Ungrouped(by)) /\ (~DrainGroupStep => Calm(stack'))
      BY <2>2, <2>0, <3>1, <3>2, UngroupedStep
    <3>4. stack' \in Seq(Ungrouped(groupByLane'))
      <4>1. CASE groupByLane' = groupByLane
        BY <3>1, <3>3, <4>1
      <4>2. CASE groupByLane' # groupByLane
        <5>1. stack = <<>>
          BY <4>2 DEF config, vars
        <5>2. PICK c \in PublishConfigs : Publish(c)
          BY <2>2, <4>2 DEF Next, Pump, UserCall, Configure, Recover, StartTask, CallbackReturns,
                DrainLaneReturns, DrainGroupStep, DrainEachStep, Enqueue, Refuse, Abort, Settle,
                ClearLane, SetConcurrency, ResetLane, ResetAllLanes, MarkGatewayDraining, config
        <5>3. PICK f : f = LoopFrame(Touched(c), TRUE)
          OBVIOUS
        <5>4. stack' = <<f>>
          BY <5>1, <5>2, <5>3 DEF Publish, Caller, Push
        <5>5. f \in Frames /\ f.fn = "drainEach"
          BY <5>3, <5>4 DEF LoopFrame
        <5>6. f \in Ungrouped(groupByLane')
          BY <5>5 DEF Ungrouped
        <5> QED
          BY <5>4, <5>6
      <4> QED
        BY <4>1, <4>2
    <3>5. Arbitrated'
      <4>1. CASE Calm(stack')
        BY <4>1 DEF Calm, Arbitrated, Top
      <4>2. CASE ~Calm(stack')
        <5>1. stack # <<>> => Calm(Tail(stack))
          BY <2>0, <3>2, UngroupedTop
        <5> QED
          BY <3>3, <4>2, <5>1, SentByGroup
      <4> QED
        BY <4>1, <4>2
    <3> QED
      BY <3>4, <3>5 DEF OrderInv
  <2> QED
    BY <2>1, <2>2
<1>3. TypeOK /\ CustodyInv /\ OrderInv /\ [Next]_vars
      => [\A e \in Entries :
          entry[e].status = "queued" /\ entry'[e].status = "started" =>
            LET l == entry[e].owner[1] IN
            groupByLane[l] # NoGroup =>
                \A m \in Candidates(groupByLane[l]) \ {l} :
                    \A f \in queue[LaneObj(m)] : Before(e, f)]_vars
  <2> SUFFICES ASSUME TypeOK, CustodyInv, OrderInv, Next, NEW e \in Entries,
                      entry[e].status = "queued", entry'[e].status = "started",
                      NEW l, l = entry[e].owner[1], groupByLane[l] # NoGroup,
                      NEW m \in Candidates(groupByLane[l]) \ {l}, NEW f \in queue[LaneObj(m)]
               PROVE  Before(e, f)
    OBVIOUS
  <2>1. StartTask
    <3>0. entry \in [Entries -> EntryStates]
      BY DEF TypeOK
    <3>1. entry' # entry
      OBVIOUS
    <3>2. ASSUME NEW y \in Entries, NEW r, entry' = [entry EXCEPT ![y] = r]
          PROVE  r.status = "started"
      BY <3>0, <3>2
    <3>3. ASSUME NEW s \in {"rejected", "settled"}
          PROVE  [Fresh EXCEPT !.status = s].status = s
      BY DEF Fresh
    <3>4. ASSUME NEW y \in Entries PROVE ~Abort(y) /\ ~Settle(y) /\ \A a \in BOOLEAN : ~Refuse(y, a)
      <4>1. \A r : entry' = [entry EXCEPT ![y] = r] => r.status = "started"
        BY <3>2
      <4> QED
        BY <3>3, <4>1 DEF Abort, Settle, Refuse
    <3>5. ASSUME NEW y \in Entries, NEW k \in Lanes, NEW p \in Priorities, Enqueue(y, k, p)
          PROVE  FALSE
      <4>1. PICK r : r.status = "queued" /\ entry' = [entry EXCEPT ![y] = r]
        BY <3>5 DEF Enqueue
      <4> QED
        BY <3>2, <4>1
    <3>6. ASSUME NEW k \in Lanes, ClearLane(k) PROVE FALSE
      <4>1. PICK r : r.status = "rejected" /\ entry' = [x \in Entries |->
                        IF x \in queue[LaneObj(k)] THEN r ELSE entry[x]]
        BY <3>3, <3>6 DEF ClearLane
      <4> QED
        BY <4>1
    <3> QED
      BY <3>1, <3>4, <3>5, <3>6
      DEF Next, Pump, UserCall, Configure, Recover, CallbackReturns, DrainLaneReturns,
          DrainGroupStep, DrainEachStep, SetConcurrency, Publish, ResetLane, ResetAllLanes,
          MarkGatewayDraining
  <2> QED
    BY <2>1, StartInOrder
<1> QED
  BY <1>1, <1>2, <1>3, Typing, CustodyKept, PumpKept, GroupMapsTheorem, PTL
     DEF Spec, QuietCallbacks, GroupOrder
=============================================================================
