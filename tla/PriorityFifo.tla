---------------------------- MODULE PriorityFifo ----------------------------
(***************************************************************************)
(* What a lane's queue promises: of the entries that wait, the next one is *)
(* the most urgent, then the oldest; a new entry learns how many are ahead *)
(* of it; an aborted entry leaves and the others keep their order.         *)
(*                                                                         *)
(* CommandQueue.tla uses this queue (a set with the order Before);         *)
(* LaneQueue.tla implements it with the ring buffers of the code.          *)
(***************************************************************************)
EXTENDS Integers, FiniteSets

CONSTANTS
    Entries,
    Priorities,    \* background -1, normal 0, foreground 1
    MaxSequence    \* bound: sequence numbers given out

VARIABLES
    rank,          \* the priority and sequence of each entry that waits
    nextSequence,
    answer         \* the last call and what it returned

pfVars == <<rank, nextSequence, answer>>

waiting == DOMAIN rank

\* e is served before f.
Precedes(e, f) ==
    \/ rank[e].priority > rank[f].priority
    \/ rank[e].priority = rank[f].priority /\ rank[e].sequence < rank[f].sequence

\* The gateway may be replaced while entries wait: they are distinct, and older
\* than any entry to come.
PFInit ==
    /\ waiting \subseteq Entries
    /\ \A e \in waiting :
        /\ rank[e].priority \in Priorities /\ rank[e].sequence \in 1 .. nextSequence - 1
        /\ \A f \in waiting \ {e} : rank[e].sequence # rank[f].sequence
    /\ nextSequence \in Nat /\ answer = <<"none", 0>>

\* Every entry of its priority or a higher one is ahead of a new entry.
PFEnqueue(e, p) ==
    /\ e \notin waiting /\ nextSequence < MaxSequence
    /\ rank' = [f \in waiting \cup {e} |->
          IF f = e THEN [priority |-> p, sequence |-> nextSequence] ELSE rank[f]]
    /\ nextSequence' = nextSequence + 1
    /\ answer' = <<"enqueue", Cardinality({f \in waiting : rank[f].priority >= p})>>

Leaves(e) ==
    /\ rank' = [f \in waiting \ {e} |-> rank[f]]
    /\ UNCHANGED nextSequence

PFDequeue(e) ==
    /\ e \in waiting
    /\ \A f \in waiting \ {e} : Precedes(e, f)
    /\ Leaves(e)
    /\ answer' = <<"dequeue", e>>

PFRemove(e) ==
    /\ e \in waiting
    /\ Leaves(e)
    /\ answer' = <<"remove", e>>

PFNext ==
    \E e \in Entries :
        \/ \E p \in Priorities : PFEnqueue(e, p)
        \/ PFDequeue(e)
        \/ PFRemove(e)

PFSpec == PFInit /\ [][PFNext]_pfVars
=============================================================================
