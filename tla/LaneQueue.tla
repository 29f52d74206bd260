------------------------------ MODULE LaneQueue ------------------------------
(***************************************************************************)
(* The queue of one lane, src/process/command-queue.state.ts: a ring       *)
(* buffer for each priority, which grows when it is full, is released when *)
(* it drains, and is rotated once to take an aborted entry out; and the    *)
(* conversion of the arrays that an older gateway left in the singleton.   *)
(* An entry that waits no more may stand for a new command.                *)
(***************************************************************************)
EXTENDS Integers, Sequences, FiniteSetsExt

CONSTANTS
    Entries,
    Nobody,                        \* an unused slot
    INITIAL_QUEUE_RING_CAPACITY,
    MaxSequence,                   \* bound: sequence numbers given out
    MaxLegacy                      \* bound: entries an older gateway leaves

Priorities == {-1, 0, 1}
ASSUME QueueAssumption ==
    /\ Nobody \notin Entries
    /\ INITIAL_QUEUE_RING_CAPACITY \in Nat \ {0}
    /\ MaxSequence \in Nat /\ MaxLegacy \in Nat

VARIABLES
    rings,              \* priority -> its ring
    length,             \* queue.length
    entry,              \* the entries' priority, sequence and queued flag
    nextQueueSequence,
    answer              \* the last call and what it returned

vars == <<rings, length, entry, nextQueueSequence, answer>>

\* Slots are counted from 0, as in the array.
Slots(n) == 0 .. n - 1
Gone == [priority |-> 0, sequence |-> 0, queued |-> FALSE]
EmptyRing == [entries |-> [i \in Slots(0) |-> Nobody], head |-> 0, length |-> 0]
Capacity(ring) == Cardinality(DOMAIN ring.entries)

-----------------------------------------------------------------------------
(* Rings *)

NewCapacity(ring) == Max({INITIAL_QUEUE_RING_CAPACITY, 2 * ring.length})

\* Mutant: the slots are copied from the start of the array, not from head.
GrowInPlace(ring) ==
    [ring EXCEPT !.head = 0,
        !.entries = [i \in Slots(NewCapacity(ring)) |-> IF i < ring.length THEN @[i] ELSE Nobody]]

\* A full ring moves to an array twice as long.
Grow(ring) ==
    [ring EXCEPT !.head = 0,
        !.entries = [i \in Slots(NewCapacity(ring)) |->
            IF i < ring.length THEN @[(ring.head + i) % Capacity(ring)] ELSE Nobody]]

\* appendQueueRing
Append1(ring, e) ==
    LET r == IF ring.length = Capacity(ring) THEN Grow(ring) ELSE ring IN
    [r EXCEPT !.entries[(r.head + r.length) % Capacity(r)] = e, !.length = @ + 1]

\* peekQueueRing
PeekRing(ring) == IF ring.length > 0 THEN ring.entries[ring.head] ELSE Nobody

\* dequeueQueueRing, of a ring that is not empty, without the entry.
DequeueRing(ring) ==
    IF ring.length = 1 THEN EmptyRing
    ELSE [ring EXCEPT !.entries[ring.head] = Nobody,
                      !.length = @ - 1, !.head = (@ + 1) % Capacity(ring)]

-----------------------------------------------------------------------------
(* The queue *)

\* peekLaneQueue, of a queue that is not empty.
Peek(rs) == PeekRing(rs[Max({p \in Priorities : rs[p].length > 0})])

\* enqueueLaneEntry, with the sequence number enqueueCommandInLane took.
Enqueue(e, p) ==
    /\ ~entry[e].queued /\ nextQueueSequence < MaxSequence
    /\ answer' = <<"enqueue", rings[p].length + (IF p <= 0 THEN rings[1].length ELSE 0)
                                              + (IF p < 0 THEN rings[0].length ELSE 0)>>
    /\ rings' = [rings EXCEPT ![p] = Append1(@, e)]
    /\ length' = length + 1
    /\ entry' = [entry EXCEPT ![e] = [priority |-> p, sequence |-> nextQueueSequence,
                                      queued |-> TRUE]]
    /\ nextQueueSequence' = nextQueueSequence + 1

\* dequeueLaneQueue
Dequeue ==
    /\ length > 0
    /\ LET e == Peek(rings) IN
          /\ rings' = [rings EXCEPT ![entry[e].priority] = DequeueRing(@)]
          /\ entry' = [entry EXCEPT ![e] = Gone]
          /\ answer' = <<"dequeue", e>>
    /\ length' = length - 1
    /\ UNCHANGED nextQueueSequence

\* Mutant: the rotation stops when the entry is found.
RotateUntilFound(ring, e) ==
    LET after[i \in 0 .. ring.length] ==
            IF i = 0 THEN ring
            ELSE LET r == after[i - 1] IN
                 IF r.length < ring.length THEN r
                 ELSE IF PeekRing(r) = e THEN DequeueRing(r)
                 ELSE Append1(DequeueRing(r), PeekRing(r))
    IN after[ring.length]

\* The ring after each of its entries was taken out, and put back unless it is e.
Rotate(ring, e) ==
    LET after[i \in 0 .. ring.length] ==
            IF i = 0 THEN ring
            ELSE LET r == after[i - 1] IN
                 IF PeekRing(r) = e THEN DequeueRing(r)
                 ELSE Append1(DequeueRing(r), PeekRing(r))
    IN after[ring.length]

\* removeLaneQueueEntry, of an entry that still waits.
RemoveEntry(e) ==
    /\ entry[e].queued
    /\ rings' = [rings EXCEPT ![entry[e].priority] = Rotate(@, e)]
    /\ entry' = [entry EXCEPT ![e] = Gone]
    /\ length' = length - 1
    /\ answer' = <<"remove", e>>
    /\ UNCHANGED nextQueueSequence

-----------------------------------------------------------------------------
(* Start *)

\* What an older gateway left: an array in the order of service, in which either
\* every entry has a sequence number or none has.
Legacy == {array \in UNION {[1 .. n -> [entry : Entries, priority : Priorities]] : n \in 0 .. MaxLegacy} :
              \A i, j \in DOMAIN array : i < j =>
                  array[i].entry # array[j].entry /\ array[i].priority >= array[j].priority}
Numberings(array) == {[i \in DOMAIN array |-> i]} \cup
    {f \in [DOMAIN array -> 1 .. Len(array) + 1] :
        \A i, j \in DOMAIN array : i < j =>
            f[i] # f[j] /\ (array[i].priority = array[j].priority => f[i] < f[j])}

\* Mutant: the next sequence number is not raised above those found.
NextAfterNone(numbers) == 1

NextAfter(numbers) == IF numbers = {} THEN 1 ELSE Max(numbers) + 1

\* The rings after the entries of an array were appended one by one.
Filled(array) ==
    LET after[i \in 0 .. Len(array)] ==
            IF i = 0 THEN [p \in Priorities |-> EmptyRing]
            ELSE [after[i - 1] EXCEPT ![array[i].priority] = Append1(@, array[i].entry)]
    IN after[Len(array)]

\* The conversion in getQueueState.
Migrated(array, number) ==
    /\ rings = Filled(array)
    /\ length = Len(array)
    /\ entry = [e \in Entries |->
          IF \E i \in DOMAIN array : array[i].entry = e
          THEN LET i == CHOOSE i \in DOMAIN array : array[i].entry = e
               IN [priority |-> array[i].priority, sequence |-> number[i], queued |-> TRUE]
          ELSE Gone]
    /\ nextQueueSequence = NextAfter({number[i] : i \in DOMAIN array})

Init ==
    /\ \E array \in Legacy : \E number \in Numberings(array) : Migrated(array, number)
    /\ answer = <<"none", 0>>

Next ==
    \/ \E e \in Entries : RemoveEntry(e) \/ \E p \in Priorities : Enqueue(e, p)
    \/ Dequeue

Spec == Init /\ [][Next]_vars

-----------------------------------------------------------------------------
(* Properties *)

Queued == {e \in Entries : entry[e].queued}

\* The ring buffers implement the queue CommandQueue assumes: entries are served
\* by priority and then age, across growth, release, aborts and conversion, and
\* each new entry is told how many are ahead of it.
Fifo == INSTANCE PriorityFifo WITH
    nextSequence <- nextQueueSequence,
    rank <- [e \in Queued |-> [priority |-> entry[e].priority, sequence |-> entry[e].sequence]]
ImplementsFifo == Fifo!PFSpec

\* The slots in use are those from head on, each by an entry that waits; every
\* other slot is free, so no finished command is kept alive by an array, and a
\* drained ring keeps no array at all.
Occupied(ring) == {(ring.head + i) % Capacity(ring) : i \in Slots(ring.length)}
RingsClean ==
    \A p \in Priorities :
        LET ring == rings[p] IN
        /\ ring.length <= Capacity(ring)
        /\ ring.length = 0 => Capacity(ring) = 0
        /\ \A i \in DOMAIN ring.entries :
              IF i \in Occupied(ring)
              THEN /\ ring.entries[i] \in Queued
                   /\ entry[ring.entries[i]].priority = p
              ELSE ring.entries[i] = Nobody
=============================================================================
