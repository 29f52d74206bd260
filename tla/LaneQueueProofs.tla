-------------------------- MODULE LaneQueueProofs --------------------------
(***************************************************************************)
(* The ring buffers of LaneQueue implement PriorityFifo, for every set of  *)
(* entries, every initial capacity and every array of an older gateway:    *)
(* entries are served by priority and then age, across growth, release,    *)
(* aborts and conversion.                                                  *)
(*                                                                         *)
(* A ring is looked at by positions counted from its head (Pos).  Each     *)
(* operator is shown to change the line of entries as it should, and one   *)
(* invariant (Stored) says that the lines hold the entries that wait, by   *)
(* priority and in the order of their sequence numbers.                    *)
(***************************************************************************)
EXTENDS LaneQueue, FiniteSetTheorems, WellFoundedInduction, TLAPS

-----------------------------------------------------------------------------
(* Induction, over sets: the rotation of a ring and the conversion of an     *)
(* array are recursive functions                                             *)

LEMMA LeastNumber ==
    ASSUME NEW T, T \subseteq Nat, T # {}
    PROVE  \E n \in T : \A m \in T : n <= m
  <1> DEFINE R == OpToRel(<, Nat)
  <1>1. IsWellFoundedOn(R, Nat)
    BY NatLessThanWellFounded
  <1>2. R = {x \in Nat \X Nat : x[1] < x[2]}
    BY DEF OpToRel
  <1>3. ASSUME NEW a \in Nat, NEW b \in Nat, a < b PROVE <<a, b>> \in R
    <2>1. PICK t : t = <<a, b>>
      OBVIOUS
    <2>2. t \in Nat \X Nat /\ t[1] < t[2]
      BY <1>3, <2>1
    <2>3. t \in R
      BY <1>2, <2>2, Zenon
    <2> QED
      BY <2>1, <2>3
  <1> HIDE DEF R
  <1>4. PICK n \in T : \A m \in T : <<m, n>> \notin R
    BY <1>1, WFMin
  <1>5. ASSUME NEW m \in T PROVE n <= m
    <2>1. m \in Nat /\ n \in Nat /\ ~(m < n)
      BY <1>3, <1>4
    <2> QED
      BY <2>1
  <1> QED
    BY <1>5

LEMMA SetInduction ==
    ASSUME NEW T, 0 \in T, \A n \in Nat : n \in T => n + 1 \in T
    PROVE  Nat \subseteq T
  <1> SUFFICES ASSUME Nat \ T # {} PROVE FALSE
    OBVIOUS
  <1>1. PICK n \in Nat \ T : \A m \in Nat \ T : n <= m
    BY LeastNumber
  <1>2. n # 0 /\ n - 1 \in Nat
    BY <1>1
  <1>3. n - 1 \in T
    BY <1>1, <1>2
  <1> QED
    BY <1>1, <1>2, <1>3

-----------------------------------------------------------------------------
(* Rings *)

RingFields == {"entries", "head", "length"}

\* The slot of the i-th entry of a ring of c slots whose first is at h.
Index(h, i, c) == IF h + i < c THEN h + i ELSE h + i - c
Pos(ring, i) == ring.entries[Index(ring.head, i, Capacity(ring))]

\* The ring has c slots, and those it does not use are free.
Fits(ring, c) ==
    /\ DOMAIN ring = RingFields
    /\ ring.entries \in [Slots(c) -> Entries \cup {Nobody}]
    /\ ring.head \in Nat /\ ring.length \in 0 .. c
    /\ IF c = 0 THEN ring.head = 0 ELSE ring.head < c
    /\ \A i \in ring.length .. c - 1 : ring.entries[Index(ring.head, i, c)] = Nobody

\* An empty ring keeps no array.
GoodRing(ring) == \E c \in Nat : Fits(ring, c) /\ (ring.length = 0 => c = 0)

LEMMA SlotsCount ==
    ASSUME NEW c \in Nat PROVE IsFiniteSet(Slots(c)) /\ Cardinality(Slots(c)) = c
  BY FS_Interval DEF Slots

LEMMA CapacityIs == ASSUME NEW c \in Nat, NEW ring, Fits(ring, c) PROVE Capacity(ring) = c
  <1>1. DOMAIN ring.entries = Slots(c)
    BY DEF Fits
  <1> QED
    BY <1>1, SlotsCount DEF Capacity

\* The remainder that the code computes.
LEMMA IndexIs ==
    ASSUME NEW c \in Nat, NEW h \in Slots(c), NEW i \in 0 .. c
    PROVE  /\ i < c => Index(h, i, c) = (h + i) % c /\ Index(h, i, c) \in Slots(c)
           /\ i = c => (h + i) % c = h
  <1>1. h + i < c => (h + i) % c = h + i
    BY DEF Slots
  <1>2. c <= h + i => (h + i) % c = h + i - c
    BY DEF Slots
  <1> QED
    BY <1>1, <1>2 DEF Index, Slots

\* Two positions have two slots, and every slot has a position.
LEMMA IndexDiffers ==
    ASSUME NEW c \in Nat, NEW h \in Slots(c), NEW i \in Slots(c), NEW j \in Slots(c)
    PROVE  Index(h, i, c) = Index(h, j, c) => i = j
  BY DEF Index, Slots

LEMMA IndexReaches ==
    ASSUME NEW c \in Nat, NEW h \in Slots(c), NEW k \in Slots(c)
    PROVE  \E i \in Slots(c) : Index(h, i, c) = k
  <1>1. CASE h <= k
    <2>1. k - h \in Slots(c) /\ Index(h, k - h, c) = k
      BY <1>1 DEF Index, Slots
    <2> QED
      BY <2>1
  <1>2. CASE k < h
    <2>1. k - h + c \in Slots(c) /\ Index(h, k - h + c, c) = k
      BY <1>2 DEF Index, Slots
    <2> QED
      BY <2>1
  <1> QED
    BY <1>1, <1>2 DEF Slots

LEMMA EmptyIsGood == GoodRing(EmptyRing) /\ EmptyRing.length = 0
  BY DEF GoodRing, Fits, EmptyRing, RingFields, Slots

LEMMA MaxOfTwo ==
    ASSUME NEW a \in Nat, NEW b \in Nat
    PROVE  Max({a, b}) = IF a < b THEN b ELSE a
  BY DEF Max

\* peekQueueRing
LEMMA PeekRingIs ==
    ASSUME NEW ring, GoodRing(ring), ring.length > 0
    PROVE  PeekRing(ring) = Pos(ring, 0)
  <1>1. PICK c \in Nat : Fits(ring, c)
    BY DEF GoodRing
  <1>2. Index(ring.head, 0, c) = ring.head
    BY <1>1 DEF Fits, Index
  <1> QED
    BY <1>1, <1>2, CapacityIs DEF PeekRing, Pos

\* A ring that grows keeps its entries in their order.
LEMMA GrowKeeps ==
    ASSUME NEW ring, NEW c \in Nat, Fits(ring, c), ring.length = c
    PROVE  LET g == Grow(ring)
               n == NewCapacity(ring) IN
           /\ n \in Nat /\ c < n
           /\ Fits(g, n) /\ g.length = c
           /\ \A i \in Slots(c) : Pos(g, i) = Pos(ring, i)
  <1> DEFINE n == NewCapacity(ring)
             E == [i \in Slots(n) |-> IF i < c THEN ring.entries[(ring.head + i) % c] ELSE Nobody]
             g == Grow(ring)
  <1>1. n \in Nat /\ c < n
    BY QueueAssumption, MaxOfTwo DEF NewCapacity
  <1>2. g = [ring EXCEPT !.head = 0, !.entries = E]
    BY CapacityIs DEF Grow
  <1> HIDE DEF n
  <1>3. ASSUME NEW i \in Slots(c)
        PROVE  /\ ring.entries[(ring.head + i) % c] = Pos(ring, i)
               /\ Pos(ring, i) \in Entries \cup {Nobody}
    <2>1. ring.head \in Slots(c) /\ i \in 0 .. c /\ i < c
      BY DEF Fits, Slots
    <2>2. Index(ring.head, i, c) = (ring.head + i) % c /\ Index(ring.head, i, c) \in Slots(c)
      BY <2>1, IndexIs
    <2> QED
      BY <2>2, CapacityIs DEF Pos, Fits
  <1>4. E \in [Slots(n) -> Entries \cup {Nobody}]
    BY <1>3 DEF Slots
  <1>5. DOMAIN g = RingFields /\ g.head = 0 /\ g.length = c /\ g.entries = E
    <2> HIDE DEF g, E
    <2> QED
      BY <1>2 DEF Fits, RingFields
  <1>6. \A i \in Slots(n) : Index(0, i, n) = i /\ E[i] = IF i < c THEN ring.entries[(ring.head + i) % c] ELSE Nobody
    BY <1>1 DEF Index, Slots
  <1> HIDE DEF g, E
  <1>7. Fits(g, n)
    <2>1. \A i \in c .. n - 1 : i \in Slots(n) /\ ~(i < c)
      BY <1>1 DEF Slots
    <2> QED
      BY <1>1, <1>4, <1>5, <1>6, <2>1 DEF Fits
  <1>8. ASSUME NEW i \in Slots(c) PROVE Pos(g, i) = Pos(ring, i)
    <2>1. i \in Slots(n) /\ i < c
      BY <1>1 DEF Slots
    <2>2. Capacity(g) = n
      BY <1>1, <1>7, CapacityIs
    <2> QED
      BY <1>3, <1>5, <1>6, <2>1, <2>2 DEF Pos
  <1> QED
    BY <1>1, <1>5, <1>7, <1>8 DEF g, n

\* A free slot takes the entry behind the last one.
LEMMA PutKeeps ==
    ASSUME NEW ring, NEW c \in Nat, Fits(ring, c), ring.length < c, NEW e \in Entries
    PROVE  LET a == [ring EXCEPT !.entries[(ring.head + ring.length) % Capacity(ring)] = e,
                                 !.length = @ + 1] IN
           /\ Fits(a, c) /\ a.length = ring.length + 1
           /\ Pos(a, ring.length) = e
           /\ \A i \in Slots(ring.length) : Pos(a, i) = Pos(ring, i)
  <1> DEFINE k == (ring.head + ring.length) % Capacity(ring)
             E == [ring.entries EXCEPT ![k] = e]
             a == [ring EXCEPT !.entries[k] = e, !.length = @ + 1]
  <1>1. ring.head \in Slots(c) /\ ring.length \in Slots(c) /\ ring.length \in Nat
    BY DEF Fits, Slots
  <1>2. k = Index(ring.head, ring.length, c) /\ k \in Slots(c)
    <2>1. ring.length \in 0 .. c /\ ring.length < c
      BY <1>1 DEF Slots
    <2> QED
      BY <1>1, <2>1, CapacityIs, IndexIs
  <1>3. a = [ring EXCEPT !.entries = E, !.length = ring.length + 1]
    BY DEF Fits, RingFields
  <1> HIDE DEF k
  <1>4. E \in [Slots(c) -> Entries \cup {Nobody}] /\ E[k] = e
        /\ \A i \in Slots(c) : i # k => E[i] = ring.entries[i]
    BY <1>2 DEF Fits
  <1> HIDE DEF E
  <1>5. /\ DOMAIN a = RingFields /\ a.head = ring.head /\ a.entries = E
        /\ a.length = ring.length + 1
    BY <1>3 DEF Fits, RingFields
  <1> HIDE DEF a
  <1>6. ASSUME NEW i \in Slots(c), i # ring.length
        PROVE  Index(ring.head, i, c) \in Slots(c) /\ Index(ring.head, i, c) # k
    <2>1. i \in 0 .. c /\ i < c
      BY DEF Slots
    <2> QED
      BY <1>1, <1>2, <1>6, <2>1, IndexIs, IndexDiffers
  <1>7. Fits(a, c)
    <2>1. \A i \in ring.length + 1 .. c - 1 :
             i \in Slots(c) /\ i # ring.length /\ i \in ring.length .. c - 1
      BY <1>1 DEF Slots
    <2>2. \A i \in ring.length + 1 .. c - 1 : a.entries[Index(a.head, i, c)] = Nobody
      BY <1>4, <1>5, <1>6, <2>1 DEF Fits
    <2>3. ring.length + 1 \in 0 .. c
      BY <1>1 DEF Slots
    <2> QED
      BY <1>4, <1>5, <2>2, <2>3 DEF Fits
  <1>8. Capacity(a) = c /\ Capacity(ring) = c
    BY <1>7, CapacityIs
  <1>9. Pos(a, ring.length) = e
    BY <1>2, <1>4, <1>5, <1>8 DEF Pos
  <1>10. ASSUME NEW i \in Slots(ring.length) PROVE Pos(a, i) = Pos(ring, i)
    <2>1. i \in Slots(c) /\ i # ring.length
      BY <1>1 DEF Slots
    <2> QED
      BY <1>4, <1>5, <1>6, <1>8, <2>1 DEF Pos
  <1> QED
    BY <1>5, <1>7, <1>9, <1>10 DEF a, k

\* appendQueueRing
LEMMA AppendKeeps ==
    ASSUME NEW ring, GoodRing(ring), NEW e \in Entries
    PROVE  LET a == Append1(ring, e) IN
           /\ GoodRing(a) /\ ring.length \in Nat /\ a.length = ring.length + 1
           /\ Pos(a, ring.length) = e
           /\ \A i \in Slots(ring.length) : Pos(a, i) = Pos(ring, i)
  <1> DEFINE a == Append1(ring, e)
             r == IF ring.length = Capacity(ring) THEN Grow(ring) ELSE ring
  <1>1. PICK c \in Nat : Fits(ring, c)
    BY DEF GoodRing
  <1>2. ring.length \in 0 .. c /\ Capacity(ring) = c
    BY <1>1, CapacityIs DEF Fits
  <1>3. a = [r EXCEPT !.entries[(r.head + r.length) % Capacity(r)] = e, !.length = @ + 1]
    BY DEF Append1
  <1>4. PICK n \in Nat : /\ Fits(r, n) /\ r.length < n /\ r.length = ring.length
                         /\ \A i \in Slots(ring.length) : Pos(r, i) = Pos(ring, i)
    <2>1. CASE ring.length = c
      <3>1. NewCapacity(ring) \in Nat /\ Fits(r, NewCapacity(ring)) /\ c < NewCapacity(ring)
            /\ r.length = c /\ \A i \in Slots(c) : Pos(r, i) = Pos(ring, i)
        BY <1>1, <1>2, <2>1, GrowKeeps
      <3> QED
        BY <2>1, <3>1
    <2>2. CASE ring.length # c
      BY <1>1, <1>2, <2>2
    <2> QED
      BY <2>1, <2>2
  <1> HIDE DEF r, a
  <1>5. /\ Fits(a, n) /\ a.length = r.length + 1 /\ Pos(a, r.length) = e
        /\ \A i \in Slots(r.length) : Pos(a, i) = Pos(r, i)
    <2> DEFINE x == [r EXCEPT !.entries[(r.head + r.length) % Capacity(r)] = e, !.length = @ + 1]
    <2>1. /\ Fits(x, n) /\ x.length = r.length + 1 /\ Pos(x, r.length) = e
          /\ \A i \in Slots(r.length) : Pos(x, i) = Pos(r, i)
      BY <1>4, PutKeeps, Zenon
    <2> QED
      BY <1>3, <2>1
  <1>6. GoodRing(a)
    BY <1>2, <1>4, <1>5 DEF GoodRing
  <1> QED
    BY <1>2, <1>4, <1>5, <1>6 DEF a

\* dequeueQueueRing
LEMMA DequeueKeeps ==
    ASSUME NEW ring, GoodRing(ring), ring.length > 0
    PROVE  LET d == DequeueRing(ring) IN
           /\ GoodRing(d) /\ ring.length \in Nat /\ d.length = ring.length - 1
           /\ \A i \in Slots(ring.length - 1) : Pos(d, i) = Pos(ring, i + 1)
  <1> DEFINE d == DequeueRing(ring)
             E == [ring.entries EXCEPT ![ring.head] = Nobody]
             h == (ring.head + 1) % Capacity(ring)
  <1>1. PICK c \in Nat : Fits(ring, c)
    BY DEF GoodRing
  <1>2. /\ ring.length \in 1 .. c /\ Capacity(ring) = c /\ ring.head \in Slots(c)
        /\ DOMAIN ring = RingFields /\ ring.entries \in [Slots(c) -> Entries \cup {Nobody}]
    BY <1>1, CapacityIs DEF Fits, Slots
  <1>3. CASE ring.length = 1
    <2>1. d = EmptyRing /\ Slots(0) = {}
      BY <1>3 DEF DequeueRing, Slots
    <2> QED
      BY <1>3, <2>1, EmptyIsGood
  <1>4. CASE ring.length # 1
    <2>1. h = IF ring.head + 1 = c THEN 0 ELSE ring.head + 1
      BY <1>2 DEF Slots
    <2>2. d = [ring EXCEPT !.entries = E, !.length = ring.length - 1, !.head = h]
      BY <1>2, <1>4 DEF DequeueRing, RingFields
    <2>3. E \in [Slots(c) -> Entries \cup {Nobody}] /\ E[ring.head] = Nobody
          /\ \A i \in Slots(c) : i # ring.head => E[i] = ring.entries[i]
      BY <1>2
    <2> HIDE DEF E, h
    <2>4. /\ DOMAIN d = RingFields /\ d.head = h /\ d.entries = E
          /\ d.length = ring.length - 1
      BY <1>2, <2>2 DEF RingFields
    <2> HIDE DEF d
    <2>5. h \in Slots(c)
      BY <1>2, <2>1 DEF Slots
    <2>6. ASSUME NEW i \in Slots(c - 1)
          PROVE  /\ Index(h, i, c) = Index(ring.head, i + 1, c)
                 /\ Index(h, i, c) # ring.head /\ Index(h, i, c) \in Slots(c)
      BY <1>2, <2>1 DEF Index, Slots
    <2>7. Index(h, c - 1, c) = ring.head
      BY <1>2, <2>1 DEF Index, Slots
    <2>8. ASSUME NEW i \in ring.length - 1 .. c - 1
          PROVE  E[Index(h, i, c)] = Nobody
      <3>1. CASE i = c - 1
        BY <2>3, <2>7, <3>1
      <3>2. CASE i # c - 1
        <4>1. i \in Slots(c - 1) /\ i + 1 \in ring.length .. c - 1
          BY <1>2, <3>2 DEF Slots
        <4>2. ring.entries[Index(ring.head, i + 1, c)] = Nobody
          BY <1>1, <4>1 DEF Fits
        <4> QED
          BY <2>3, <2>6, <4>1, <4>2
      <3> QED
        BY <3>1, <3>2
    <2>9. Fits(d, c)
      <3>1. ring.length - 1 \in 0 .. c /\ h \in Nat /\ c # 0 /\ h < c
        BY <1>2, <2>5 DEF Slots
      <3> QED
        BY <2>3, <2>4, <2>8, <3>1 DEF Fits
    <2>10. Capacity(d) = c
      BY <2>9, CapacityIs
    <2>11. ASSUME NEW i \in Slots(ring.length - 1) PROVE Pos(d, i) = Pos(ring, i + 1)
      <3>1. i \in Slots(c - 1)
        BY <1>2 DEF Slots
      <3> QED
        BY <1>2, <2>3, <2>4, <2>6, <2>10, <3>1 DEF Pos
    <2>12. d.length # 0
      BY <1>2, <1>4, <2>4
    <2>13. GoodRing(d)
      BY <2>9, <2>12 DEF GoodRing
    <2> QED
      BY <1>2, <2>4, <2>11, <2>13 DEF d
  <1> QED
    BY <1>3, <1>4

-----------------------------------------------------------------------------
(* The rotation, removeLaneQueueEntry                                        *)

Turn(r, e) ==
    IF PeekRing(r) = e THEN DequeueRing(r) ELSE Append1(DequeueRing(r), PeekRing(r))

\* f is the rotation of ring, turn by turn.
Turned(ring, e, f) == f = [i \in 0 .. ring.length |-> IF i = 0 THEN ring ELSE Turn(f[i - 1], e)]

LEMMA RotateIs ==
    ASSUME NEW ring, NEW e, \E f : Turned(ring, e, f)
    PROVE  \E f : Turned(ring, e, f) /\ Rotate(ring, e) = f[ring.length]
  BY DEF Rotate, Turned, Turn

LEMMA TurnedExists ==
    ASSUME NEW ring, NEW e, ring.length \in Nat
    PROVE  \E f : Turned(ring, e, f)
  <1> DEFINE Upto(f, k) == f = [i \in 0 .. k |-> IF i = 0 THEN ring ELSE Turn(f[i - 1], e)]
             T == {k \in Nat : \E f : Upto(f, k)}
  <1>1. 0 \in T
    <2> DEFINE f == [i \in 0 .. 0 |-> ring]
    <2>1. Upto(f, 0)
      OBVIOUS
    <2> QED
      BY <2>1
  <1>2. ASSUME NEW k \in Nat, k \in T PROVE k + 1 \in T
    <2>1. PICK f : Upto(f, k)
      BY <1>2
    <2> DEFINE g == [i \in 0 .. k + 1 |-> IF i = k + 1 THEN Turn(f[k], e) ELSE f[i]]
    <2>2. ASSUME NEW i \in 0 .. k + 1
          PROVE  g[i] = IF i = 0 THEN ring ELSE Turn(g[i - 1], e)
      <3>1. CASE i = 0
        <4>1. i \in 0 .. k /\ i # k + 1
          BY <3>1
        <4> QED
          BY <2>1, <3>1, <4>1
      <3>2. CASE i = k + 1
        <4>1. g[i] = Turn(f[k], e) /\ i - 1 = k /\ k \in 0 .. k + 1 /\ k # k + 1 /\ i # 0
          BY <3>2
        <4>2. g[k] = f[k]
          BY <4>1
        <4> QED
          BY <4>1, <4>2
      <3>3. CASE i # 0 /\ i # k + 1
        <4>1. i \in 0 .. k /\ i - 1 \in 0 .. k + 1 /\ i - 1 # k + 1
          BY <3>3
        <4>2. g[i] = f[i] /\ g[i - 1] = f[i - 1]
          BY <3>3, <4>1
        <4>3. f[i] = Turn(f[i - 1], e)
          BY <2>1, <3>3, <4>1
        <4> QED
          BY <3>3, <4>2, <4>3
      <3> QED
        BY <3>1, <3>2, <3>3
    <2>3. g = [i \in 0 .. k + 1 |-> IF i = 0 THEN ring ELSE Turn(g[i - 1], e)]
      <3>1. DOMAIN g = 0 .. k + 1 /\ g = [i \in 0 .. k + 1 |-> g[i]]
        OBVIOUS
      <3> HIDE DEF g
      <3> QED
        BY <2>2, <3>1
    <2>4. \E h : Upto(h, k + 1)
      <3> HIDE DEF g
      <3> QED
        BY <2>3
    <2> QED
      BY <2>4
  <1>3. Nat \subseteq T
    <2> HIDE DEF T
    <2> QED
      BY <1>1, <1>2, SetInduction
  <1>4. ring.length \in T
    BY <1>3
  <1> QED
    BY <1>4 DEF Turned

LEMMA TurnKeeps ==
    ASSUME NEW r, GoodRing(r), r.length > 0, Pos(r, 0) \in Entries, NEW e
    PROVE  LET t == Turn(r, e) IN
           /\ GoodRing(t) /\ r.length \in Nat
           /\ t.length = IF Pos(r, 0) = e THEN r.length - 1 ELSE r.length
           /\ Pos(r, 0) # e => Pos(t, r.length - 1) = Pos(r, 0)
           /\ \A j \in Slots(r.length - 1) : Pos(t, j) = Pos(r, j + 1)
  <1> DEFINE d == DequeueRing(r)
             t == Turn(r, e)
             a == Append1(d, Pos(r, 0))
  <1>1. /\ GoodRing(d) /\ r.length \in Nat /\ d.length = r.length - 1
        /\ \A i \in Slots(r.length - 1) : Pos(d, i) = Pos(r, i + 1)
    BY DequeueKeeps
  <1>2. t = IF Pos(r, 0) = e THEN d ELSE a
    BY PeekRingIs DEF Turn
  <1> HIDE DEF d, t
  <1>3. /\ GoodRing(a) /\ a.length = d.length + 1 /\ Pos(a, d.length) = Pos(r, 0)
        /\ \A i \in Slots(d.length) : Pos(a, i) = Pos(d, i)
    BY <1>1, AppendKeeps
  <1> HIDE DEF a
  <1>4. CASE Pos(r, 0) = e
    BY <1>1, <1>2, <1>4 DEF t
  <1>5. CASE Pos(r, 0) # e
    <2>1. \A i \in Slots(r.length - 1) : Pos(a, i) = Pos(r, i + 1)
      BY <1>1, <1>3
    <2>2. a.length = r.length /\ Pos(a, r.length - 1) = Pos(r, 0)
      BY <1>1, <1>3
    <2> QED
      BY <1>1, <1>2, <1>3, <1>5, <2>1, <2>2 DEF t
  <1> QED
    BY <1>4, <1>5

\* Of a ring of n entries, the k-th of which leaves: how many are left after i
\* turns, and which of them is the j-th.
Left(n, k, i) == IF i <= k THEN n ELSE n - 1
Kept(k, j) == IF j < k THEN j ELSE j + 1
Where(n, k, i, j) ==
    IF i <= k THEN Index(i, j, n) ELSE IF j < n - i THEN i + j ELSE Kept(k, j - (n - i))

LEMMA WhereNext ==
    ASSUME NEW n \in Nat, NEW k \in Slots(n), NEW i \in Slots(n)
    PROVE  /\ Left(n, k, i) \in Nat \ {0}
           /\ Left(n, k, i + 1) = IF i = k THEN Left(n, k, i) - 1 ELSE Left(n, k, i)
           /\ Where(n, k, i, 0) = i
           /\ i # k => Where(n, k, i + 1, Left(n, k, i) - 1) = i
           /\ \A j \in Slots(Left(n, k, i) - 1) : Where(n, k, i + 1, j) = Where(n, k, i, j + 1)
  <1>1. CASE i < k
    BY <1>1 DEF Left, Where, Kept, Index, Slots
  <1>2. CASE i = k
    BY <1>2 DEF Left, Where, Kept, Index, Slots
  <1>3. CASE i > k
    BY <1>3 DEF Left, Where, Kept, Index, Slots
  <1> QED
    BY <1>1, <1>2, <1>3 DEF Slots

\* The k-th entry leaves; the others keep their order.
LEMMA RotateKeeps ==
    ASSUME NEW ring, GoodRing(ring), ring.length \in Nat, NEW k \in Slots(ring.length),
           \A j \in Slots(ring.length) : Pos(ring, j) \in Entries,
           \A j \in Slots(ring.length) \ {k} : Pos(ring, j) # Pos(ring, k)
    PROVE  LET r == Rotate(ring, Pos(ring, k)) IN
           /\ GoodRing(r) /\ r.length = ring.length - 1
           /\ \A j \in Slots(ring.length - 1) : Pos(r, j) = Pos(ring, Kept(k, j))
  <1> DEFINE n == ring.length
             e == Pos(ring, k)
  <1>1. PICK f : Turned(ring, e, f) /\ Rotate(ring, e) = f[n]
    BY TurnedExists, RotateIs
  <1> DEFINE Holds(i) == /\ GoodRing(f[i]) /\ f[i].length = Left(n, k, i)
                         /\ \A j \in Slots(Left(n, k, i)) : Pos(f[i], j) = Pos(ring, Where(n, k, i, j))
             T == {i \in Nat : i <= n => Holds(i)}
  <1>2. f[0] = ring /\ \A i \in Slots(n) : f[i + 1] = Turn(f[i], e)
    <2>1. 0 \in 0 .. n /\ \A i \in Slots(n) : i + 1 \in 0 .. n /\ i + 1 # 0 /\ (i + 1) - 1 = i
      BY DEF Slots
    <2> QED
      BY <1>1, <2>1 DEF Turned
  <1>3. Holds(0)
    <2>1. Left(n, k, 0) = n /\ \A j \in Slots(n) : Where(n, k, 0, j) = j
      BY DEF Left, Where, Index, Slots
    <2> QED
      BY <1>2, <2>1
  <1>4. ASSUME NEW i \in Slots(n), Holds(i) PROVE Holds(i + 1)
    <2> DEFINE r == f[i]
               t == f[i + 1]
               l == Left(n, k, i)
    <2>1. /\ l \in Nat \ {0}
          /\ Left(n, k, i + 1) = IF i = k THEN l - 1 ELSE l
          /\ Where(n, k, i, 0) = i
          /\ i # k => Where(n, k, i + 1, l - 1) = i
          /\ \A j \in Slots(l - 1) : Where(n, k, i + 1, j) = Where(n, k, i, j + 1)
      BY WhereNext
    <2>2. t = Turn(r, e)
      BY <1>2
    <2>3. GoodRing(r) /\ r.length = l /\ \A j \in Slots(l) : Pos(r, j) = Pos(ring, Where(n, k, i, j))
      BY <1>4
    <2> HIDE DEF l, r, t
    <2>4. Pos(r, 0) = Pos(ring, i) /\ Pos(r, 0) \in Entries
      <3>1. 0 \in Slots(l)
        BY <2>1 DEF Slots
      <3> QED
        BY <2>1, <2>3, <3>1
    <2>5. Pos(r, 0) = e <=> i = k
      BY <2>4
    <2>6. /\ GoodRing(t)
          /\ t.length = IF Pos(r, 0) = e THEN r.length - 1 ELSE r.length
          /\ Pos(r, 0) # e => Pos(t, r.length - 1) = Pos(r, 0)
          /\ \A j \in Slots(r.length - 1) : Pos(t, j) = Pos(r, j + 1)
      <3>1. r.length > 0
        BY <2>1, <2>3
      <3> HIDE DEF e
      <3> QED
        BY <2>2, <2>3, <2>4, <3>1, TurnKeeps
    <2>7. ASSUME NEW j \in Slots(l - 1) PROVE Pos(t, j) = Pos(ring, Where(n, k, i + 1, j))
      <3>1. j + 1 \in Slots(l)
        BY <2>1 DEF Slots
      <3> QED
        BY <2>1, <2>3, <2>6, <3>1
    <2>8. ASSUME NEW j \in Slots(Left(n, k, i + 1))
          PROVE  Pos(t, j) = Pos(ring, Where(n, k, i + 1, j))
      <3>1. CASE j \in Slots(l - 1)
        BY <2>7, <3>1
      <3>2. CASE j \notin Slots(l - 1)
        <4>1. i # k /\ j = l - 1
          BY <2>1, <3>2 DEF Slots
        <4> QED
          BY <2>1, <2>3, <2>4, <2>5, <2>6, <4>1
      <3> QED
        BY <3>1, <3>2
    <2>9. t.length = Left(n, k, i + 1)
      BY <2>1, <2>3, <2>5, <2>6
    <2> QED
      BY <2>6, <2>8, <2>9 DEF t
  <1>5. Nat \subseteq T
    <2>1. 0 \in T
      BY <1>3
    <2>2. ASSUME NEW i \in Nat, i \in T PROVE i + 1 \in T
      <3>1. CASE i + 1 <= n
        <4>1. i \in Slots(n) /\ i <= n
          BY <3>1 DEF Slots
        <4>2. Holds(i)
          BY <2>2, <4>1
        <4> HIDE DEF Holds
        <4>3. Holds(i + 1)
          BY <1>4, <4>1, <4>2
        <4> QED
          BY <4>3
      <3>2. CASE ~(i + 1 <= n)
        BY <3>2
      <3> QED
        BY <3>1, <3>2
    <2> HIDE DEF T
    <2> QED
      BY <2>1, <2>2, SetInduction
  <1>6. Holds(n)
    <2> HIDE DEF Holds
    <2> QED
      BY <1>5
  <1>7. /\ Left(n, k, n) = n - 1 /\ k < n
        /\ \A j \in Slots(n - 1) : Where(n, k, n, j) = Kept(k, j)
    BY DEF Left, Where, Slots
  <1> QED
    BY <1>1, <1>6, <1>7

-----------------------------------------------------------------------------
(* A ring and the entries that wait                                          *)

Record == [priority : Priorities, sequence : Int, queued : BOOLEAN]
WaitsAt(E, p) == {e \in Entries : E[e].queued /\ E[e].priority = p}

\* The ring holds the entries of priority p, the oldest first.
RingHolds(ring, p, E) ==
    /\ GoodRing(ring)
    /\ \A i \in Slots(ring.length) : Pos(ring, i) \in WaitsAt(E, p)
    /\ \A i, j \in Slots(ring.length) : i < j => E[Pos(ring, i)].sequence < E[Pos(ring, j)].sequence
    /\ \A e \in WaitsAt(E, p) : \E i \in Slots(ring.length) : Pos(ring, i) = e

LEMMA LengthIs == ASSUME NEW ring, GoodRing(ring) PROVE ring.length \in Nat
  BY DEF GoodRing, Fits

\* The ring does not depend on the entries of other priorities.
LEMMA OthersHold ==
    ASSUME NEW ring, NEW p, NEW E, NEW F, RingHolds(ring, p, E),
           \A e \in Entries : e \in WaitsAt(E, p) \/ e \in WaitsAt(F, p) => F[e] = E[e]
    PROVE  RingHolds(ring, p, F)
  <1>1. WaitsAt(F, p) = WaitsAt(E, p) /\ \A e \in WaitsAt(E, p) : F[e] = E[e]
    BY DEF WaitsAt
  <1> QED
    BY <1>1 DEF RingHolds

LEMMA DistinctHold ==
    ASSUME NEW ring, NEW p, NEW E \in [Entries -> Record], RingHolds(ring, p, E),
           NEW i \in Slots(ring.length), NEW j \in Slots(ring.length), i # j
    PROVE  Pos(ring, i) # Pos(ring, j)
  <1>1. E[Pos(ring, i)].sequence \in Int
    BY DEF RingHolds, WaitsAt, Record
  <1>2. i < j \/ j < i
    BY LengthIs DEF RingHolds, Slots
  <1> QED
    BY <1>1, <1>2 DEF RingHolds

\* A younger entry goes to the end of the line.
LEMMA AppendHolds ==
    ASSUME NEW ring, NEW p, NEW E \in [Entries -> Record], NEW F \in [Entries -> Record],
           RingHolds(ring, p, E), NEW e \in Entries,
           \A f \in Entries \ {e} : F[f] = E[f],
           ~E[e].queued, F[e].queued, F[e].priority = p,
           \A f \in WaitsAt(E, p) : E[f].sequence < F[e].sequence
    PROVE  RingHolds(Append1(ring, e), p, F)
  <1> DEFINE a == Append1(ring, e)
             n == ring.length
  <1>1. /\ GoodRing(a) /\ n \in Nat /\ a.length = n + 1 /\ Pos(a, n) = e
        /\ \A i \in Slots(n) : Pos(a, i) = Pos(ring, i)
    BY AppendKeeps DEF RingHolds
  <1> HIDE DEF a, n
  <1>2. Slots(n + 1) = Slots(n) \cup {n} /\ n \notin Slots(n)
    BY <1>1 DEF Slots
  <1>3. WaitsAt(F, p) = WaitsAt(E, p) \cup {e} /\ e \notin WaitsAt(E, p)
        /\ \A f \in WaitsAt(E, p) : F[f] = E[f]
    BY DEF WaitsAt
  <1>4. /\ \A i \in Slots(n) : Pos(ring, i) \in WaitsAt(E, p)
        /\ \A i, j \in Slots(n) : i < j => E[Pos(ring, i)].sequence < E[Pos(ring, j)].sequence
        /\ \A f \in WaitsAt(E, p) : \E i \in Slots(n) : Pos(ring, i) = f
    BY DEF RingHolds, n
  <1>5. \A i \in Slots(n + 1) : Pos(a, i) \in WaitsAt(F, p)
    BY <1>1, <1>2, <1>3, <1>4
  <1>6. ASSUME NEW i \in Slots(n + 1), NEW j \in Slots(n + 1), i < j
        PROVE  F[Pos(a, i)].sequence < F[Pos(a, j)].sequence
    <2>1. i \in Slots(n)
      BY <1>1, <1>6 DEF Slots
    <2>2. CASE j = n
      BY <1>1, <1>3, <1>4, <2>1, <2>2
    <2>3. CASE j # n
      <3>1. j \in Slots(n)
        BY <1>2, <2>3
      <3> QED
        BY <1>1, <1>3, <1>4, <1>6, <2>1, <3>1
    <2> QED
      BY <2>2, <2>3
  <1>7. \A f \in WaitsAt(F, p) : \E i \in Slots(n + 1) : Pos(a, i) = f
    BY <1>1, <1>2, <1>3, <1>4
  <1> QED
    BY <1>1, <1>5, <1>6, <1>7 DEF RingHolds, a

\* r is the ring without its k-th entry.
Without(r, ring, k) ==
    /\ GoodRing(r) /\ r.length = ring.length - 1
    /\ \A j \in Slots(ring.length - 1) : Pos(r, j) = Pos(ring, Kept(k, j))

\* The k-th entry leaves the line.
LEMMA LeaveHolds ==
    ASSUME NEW ring, NEW p, NEW E \in [Entries -> Record], NEW F \in [Entries -> Record],
           RingHolds(ring, p, E), NEW k \in Slots(ring.length),
           \A f \in Entries \ {Pos(ring, k)} : F[f] = E[f],
           ~F[Pos(ring, k)].queued,
           NEW r, Without(r, ring, k)
    PROVE  RingHolds(r, p, F)
  <1> DEFINE n == ring.length
             e == Pos(ring, k)
  <1>1. /\ n \in Nat
        /\ \A i \in Slots(n) : Pos(ring, i) \in WaitsAt(E, p)
        /\ \A i, j \in Slots(n) : i < j => E[Pos(ring, i)].sequence < E[Pos(ring, j)].sequence
        /\ \A f \in WaitsAt(E, p) : \E i \in Slots(n) : Pos(ring, i) = f
    BY LengthIs DEF RingHolds
  <1>2. \A i \in Slots(n) \ {k} : Pos(ring, i) # e
    BY DistinctHold
  <1>3. WaitsAt(F, p) = WaitsAt(E, p) \ {e} /\ \A f \in WaitsAt(F, p) : F[f] = E[f]
    BY DEF WaitsAt
  <1> HIDE DEF n, e
  <1>4. ASSUME NEW j \in Slots(n - 1) PROVE Kept(k, j) \in Slots(n) \ {k}
    BY <1>1 DEF Kept, Slots, n
  <1>5. \A j \in Slots(n - 1) : Pos(r, j) = Pos(ring, Kept(k, j)) /\ Pos(r, j) \in WaitsAt(F, p)
    BY <1>1, <1>2, <1>3, <1>4 DEF n, Without
  <1>6. ASSUME NEW i \in Slots(n - 1), NEW j \in Slots(n - 1), i < j
        PROVE  F[Pos(r, i)].sequence < F[Pos(r, j)].sequence
    <2>1. Kept(k, i) < Kept(k, j)
      BY <1>1, <1>6 DEF Kept, Slots, n
    <2> QED
      BY <1>1, <1>3, <1>4, <1>5, <2>1
  <1>7. ASSUME NEW f \in WaitsAt(F, p) PROVE \E i \in Slots(n - 1) : Pos(r, i) = f
    <2>1. PICK i \in Slots(n) : Pos(ring, i) = f
      BY <1>1, <1>3
    <2>2. i # k
      BY <1>3, <2>1 DEF e
    <2> DEFINE j == IF i < k THEN i ELSE i - 1
    <2>3. j \in Slots(n - 1) /\ Kept(k, j) = i
      BY <1>1, <2>2 DEF Kept, Slots, n
    <2> QED
      BY <1>5, <2>1, <2>3
  <1>8. GoodRing(r) /\ r.length = n - 1
    BY DEF Without, n
  <1> QED
    BY <1>5, <1>6, <1>7, <1>8 DEF RingHolds

\* The length of a ring is the number of entries of its priority.
LEMMA LengthCounts ==
    ASSUME NEW ring, NEW p, NEW E \in [Entries -> Record], RingHolds(ring, p, E)
    PROVE  IsFiniteSet(WaitsAt(E, p)) /\ Cardinality(WaitsAt(E, p)) = ring.length
  <1> DEFINE n == ring.length
             S == Slots(n)
             T == WaitsAt(E, p)
             g == [i \in S |-> Pos(ring, i)]
  <1>1. n \in Nat
    BY LengthIs DEF RingHolds
  <1>2. IsFiniteSet(S) /\ Cardinality(S) = n
    BY <1>1, SlotsCount
  <1>3. g \in [S -> T]
    BY DEF RingHolds
  <1>4. \A i, j \in S : g[i] = g[j] => i = j
    BY DistinctHold
  <1>5. \A e \in T : \E i \in S : g[i] = e
    BY DEF RingHolds
  <1> HIDE DEF g, S, T
  <1>6. g \in Bijection(S, T)
    BY <1>3, <1>4, <1>5 DEF Bijection, Injection, Surjection, IsInjective
  <1>7. ExistsBijection(S, T)
    BY <1>6 DEF ExistsBijection
  <1> QED
    BY <1>2, <1>7, FS_Bijection DEF T, n

-----------------------------------------------------------------------------
(* The three rings                                                           *)

Stored(rs, E) ==
    /\ rs = [p \in Priorities |-> rs[p]]
    /\ \A p \in Priorities : RingHolds(rs[p], p, E)
Total(rs) == rs[-1].length + rs[0].length + rs[1].length

LEMMA StoredLengths ==
    ASSUME NEW rs, NEW E, Stored(rs, E)
    PROVE  \A p \in Priorities : rs[p].length \in Nat
  BY LengthIs DEF Stored, RingHolds

LEMMA EnqueueStored ==
    ASSUME NEW rs, NEW E \in [Entries -> Record], Stored(rs, E),
           NEW e \in Entries, NEW p \in Priorities, NEW s \in Int,
           ~E[e].queued, \A f \in WaitsAt(E, p) : E[f].sequence < s
    PROVE  LET F == [E EXCEPT ![e] = [priority |-> p, sequence |-> s, queued |-> TRUE]]
               R == [rs EXCEPT ![p] = Append1(@, e)] IN
           F \in [Entries -> Record] /\ Stored(R, F) /\ Total(R) = Total(rs) + 1
  <1> DEFINE F == [E EXCEPT ![e] = [priority |-> p, sequence |-> s, queued |-> TRUE]]
             a == Append1(rs[p], e)
             R == [rs EXCEPT ![p] = Append1(@, e)]
  <1>1. /\ F \in [Entries -> Record] /\ F[e].queued /\ F[e].priority = p /\ F[e].sequence = s
        /\ \A f \in Entries \ {e} : F[f] = E[f]
    BY DEF Record
  <1>2. /\ R = [q \in Priorities |-> R[q]] /\ R[p] = a
        /\ \A q \in Priorities \ {p} : R[q] = rs[q]
    BY DEF Stored
  <1> HIDE DEF F, R
  <1>3. RingHolds(a, p, F)
    BY <1>1, AppendHolds DEF Stored
  <1>4. ASSUME NEW q \in Priorities \ {p} PROVE RingHolds(rs[q], q, F)
    <2>1. \A f \in Entries : f \in WaitsAt(E, q) \/ f \in WaitsAt(F, q) => F[f] = E[f]
      BY <1>1 DEF WaitsAt
    <2> QED
      BY <2>1, OthersHold DEF Stored
  <1>5. a.length = rs[p].length + 1
    BY AppendKeeps DEF Stored, RingHolds
  <1> HIDE DEF a
  <1>6. Stored(R, F)
    BY <1>2, <1>3, <1>4 DEF Stored
  <1>7. Total(R) = Total(rs) + 1
    BY <1>2, <1>5, StoredLengths DEF Total, Priorities
  <1> QED
    BY <1>1, <1>6, <1>7 DEF F, R

LEMMA LeaveStored ==
    ASSUME NEW rs, NEW E \in [Entries -> Record], Stored(rs, E),
           NEW p \in Priorities, NEW k \in Slots(rs[p].length),
           NEW r, Without(r, rs[p], k)
    PROVE  LET e == Pos(rs[p], k)
               F == [E EXCEPT ![e] = Gone]
               R == [rs EXCEPT ![p] = r] IN
           F \in [Entries -> Record] /\ Stored(R, F) /\ Total(R) = Total(rs) - 1
  <1> DEFINE e == Pos(rs[p], k)
             F == [E EXCEPT ![e] = Gone]
             R == [rs EXCEPT ![p] = r]
  <1>1. e \in WaitsAt(E, p) /\ RingHolds(rs[p], p, E)
    BY DEF Stored, RingHolds
  <1> HIDE DEF e
  <1>2. /\ F \in [Entries -> Record] /\ ~F[e].queued
        /\ \A f \in Entries \ {e} : F[f] = E[f]
    BY <1>1 DEF Record, Gone, WaitsAt, Priorities
  <1>3. /\ R = [q \in Priorities |-> R[q]] /\ R[p] = r
        /\ \A q \in Priorities \ {p} : R[q] = rs[q]
    BY DEF Stored
  <1> HIDE DEF F, R
  <1>4. RingHolds(r, p, F)
    <2>1. /\ \A f \in Entries \ {Pos(rs[p], k)} : F[f] = E[f]
          /\ ~F[Pos(rs[p], k)].queued
      BY <1>2 DEF e
    <2> DEFINE ring == rs[p]
    <2> HIDE DEF ring
    <2>2. /\ RingHolds(ring, p, E) /\ k \in Slots(ring.length) /\ Without(r, ring, k)
          /\ \A f \in Entries \ {Pos(ring, k)} : F[f] = E[f]
          /\ ~F[Pos(ring, k)].queued
      BY <1>1, <2>1 DEF ring
    <2> QED
      BY <1>2, <2>2, LeaveHolds
  <1>5. ASSUME NEW q \in Priorities \ {p} PROVE RingHolds(rs[q], q, F)
    <2>1. \A f \in Entries : f \in WaitsAt(E, q) \/ f \in WaitsAt(F, q) => F[f] = E[f]
      BY <1>1, <1>2 DEF WaitsAt
    <2> QED
      BY <2>1, OthersHold DEF Stored
  <1>6. Stored(R, F)
    BY <1>3, <1>4, <1>5 DEF Stored
  <1>7. Total(R) = Total(rs) - 1
    <2>1. R[p].length = rs[p].length - 1 /\ \A q \in Priorities \ {p} : R[q].length = rs[q].length
      BY <1>3 DEF Without
    <2>2. \A q \in Priorities : rs[q].length \in Nat
      BY StoredLengths
    <2> QED
      BY <2>1, <2>2 DEF Total, Priorities
  <1> QED
    BY <1>2, <1>6, <1>7 DEF e, F, R

\* What enqueueLaneEntry returns is the number of entries ahead.
LEMMA AheadCounts ==
    ASSUME NEW rs, NEW E \in [Entries -> Record], Stored(rs, E), NEW p \in Priorities
    PROVE  Cardinality({f \in Entries : E[f].queued /\ E[f].priority >= p})
             = rs[p].length + (IF p <= 0 THEN rs[1].length ELSE 0)
                            + (IF p < 0 THEN rs[0].length ELSE 0)
  <1> DEFINE A == {f \in Entries : E[f].queued /\ E[f].priority >= p}
             W(q) == WaitsAt(E, q)
  <1>1. \A q \in Priorities : IsFiniteSet(W(q)) /\ Cardinality(W(q)) = rs[q].length
    BY LengthCounts DEF Stored
  <1>2. \A q, t \in Priorities : q # t => W(q) \cap W(t) = {}
    BY DEF WaitsAt
  <1>3. /\ p = 1 => A = W(1)
        /\ p = 0 => A = W(0) \cup W(1)
        /\ p = -1 => A = W(-1) \cup (W(0) \cup W(1))
    <2>1. \A f \in Entries : E[f].queued => E[f].priority \in Priorities
      BY DEF Record
    <2>2. CASE p = 1
      <3>1. A = W(1)
        BY <2>1, <2>2 DEF WaitsAt, Priorities
      <3> QED
        BY <2>2, <3>1
    <2>3. CASE p = 0
      <3>1. A = W(0) \cup W(1)
        BY <2>1, <2>3 DEF WaitsAt, Priorities
      <3> QED
        BY <2>3, <3>1
    <2>4. CASE p = -1
      <3>1. A = W(-1) \cup (W(0) \cup W(1))
        BY <2>1, <2>4 DEF WaitsAt, Priorities
      <3> QED
        BY <2>4, <3>1
    <2> QED
      BY <2>2, <2>3, <2>4 DEF Priorities
  <1>4. \A q \in Priorities : rs[q].length \in Nat
    BY StoredLengths
  <1>5. -1 \in Priorities /\ 0 \in Priorities /\ 1 \in Priorities
    BY DEF Priorities
  <1> DEFINE U == W(0) \cup W(1)
  <1> HIDE DEF A, W
  <1>6. IsFiniteSet(U) /\ Cardinality(U) = rs[0].length + rs[1].length
    <2>1. W(0) \cap W(1) = {}
      BY <1>2, <1>5
    <2>2. Cardinality(W(0) \cap W(1)) = 0
      BY <2>1, FS_EmptySet
    <2>3. IsFiniteSet(W(0)) /\ IsFiniteSet(W(1))
      BY <1>1, <1>5
    <2>4. /\ IsFiniteSet(W(0) \cup W(1))
          /\ Cardinality(W(0) \cup W(1)) = Cardinality(W(0)) + Cardinality(W(1)) - Cardinality(W(0) \cap W(1))
      BY <2>3, FS_Union
    <2> QED
      BY <1>1, <1>4, <1>5, <2>2, <2>4
  <1>7. Cardinality(W(-1) \cup U) = rs[-1].length + rs[0].length + rs[1].length
    <2>1. W(-1) \cap U = {}
      BY <1>2, <1>5
    <2> HIDE DEF U
    <2>2. Cardinality(W(-1) \cap U) = 0
      BY <2>1, FS_EmptySet
    <2>3. IsFiniteSet(W(-1)) /\ Cardinality(W(-1)) = rs[-1].length
      BY <1>1, <1>5
    <2>4. Cardinality(W(-1) \cup U) = Cardinality(W(-1)) + Cardinality(U) - Cardinality(W(-1) \cap U)
      BY <1>6, <2>3, FS_Union
    <2> QED
      BY <1>4, <1>5, <1>6, <2>2, <2>3, <2>4
  <1>8. Cardinality(W(1)) = rs[1].length
    BY <1>1, <1>5
  <1>9. Cardinality(A) = rs[p].length + (IF p <= 0 THEN rs[1].length ELSE 0)
                                     + (IF p < 0 THEN rs[0].length ELSE 0)
    <2>1. CASE p = 1
      BY <1>3, <1>4, <1>5, <1>8, <2>1
    <2>2. CASE p = 0
      BY <1>3, <1>4, <1>5, <1>6, <2>2
    <2>3. CASE p = -1
      <3>1. Cardinality(A) = rs[-1].length + rs[0].length + rs[1].length
        BY <1>3, <1>7, <2>3, Zenon
      <3>2. rs[p].length = rs[-1].length
        BY <2>3
      <3> QED
        BY <1>4, <1>5, <2>3, <3>1, <3>2
    <2> QED
      BY <2>1, <2>2, <2>3 DEF Priorities
  <1> QED
    BY <1>9, Zenon DEF A

LEMMA MaxPriority ==
    ASSUME NEW T \in SUBSET Priorities, T # {}
    PROVE  Max(T) \in T /\ \A q \in T : q <= Max(T)
  <1> DEFINE m == IF 1 \in T THEN 1 ELSE IF 0 \in T THEN 0 ELSE -1
  <1>1. m \in T /\ \A q \in T : m >= q
    <2>1. CASE 1 \in T
      BY <2>1 DEF Priorities
    <2>2. CASE 1 \notin T /\ 0 \in T
      BY <2>2 DEF Priorities
    <2>3. CASE 1 \notin T /\ 0 \notin T
      <3>1. T = {-1}
        BY <2>3 DEF Priorities
      <3> QED
        BY <2>3, <3>1
    <2> QED
      BY <2>1, <2>2, <2>3
  <1> HIDE DEF m
  <1>2. Max(T) \in T /\ \A q \in T : Max(T) >= q
    BY <1>1 DEF Max
  <1> QED
    BY <1>2 DEF Priorities

\* The entry at the front of the most urgent ring goes first.
LEMMA PeekIs ==
    ASSUME NEW rs, NEW E \in [Entries -> Record], Stored(rs, E), Total(rs) > 0
    PROVE  LET e == Peek(rs) IN
           \E p \in Priorities :
               /\ 0 \in Slots(rs[p].length) /\ e = Pos(rs[p], 0)
               /\ e \in WaitsAt(E, p)
               /\ \A f \in Entries \ {e} : E[f].queued =>
                     \/ E[f].priority < p
                     \/ E[f].priority = p /\ E[e].sequence < E[f].sequence
  <1> DEFINE T == {p \in Priorities : rs[p].length > 0}
             p == Max(T)
             e == Peek(rs)
  <1>1. T \in SUBSET Priorities /\ T # {}
    BY StoredLengths DEF Total, Priorities
  <1>2. p \in T /\ \A q \in T : q <= p
    <2> HIDE DEF T
    <2> QED
      BY <1>1, MaxPriority
  <1>3. p \in Priorities /\ rs[p].length \in Nat \ {0} /\ RingHolds(rs[p], p, E)
    BY <1>2, StoredLengths DEF Stored
  <1>4. e = Pos(rs[p], 0)
    BY <1>3, PeekRingIs DEF Peek, RingHolds
  <1>5. ASSUME NEW q \in Priorities, q > p PROVE WaitsAt(E, q) = {}
    <2>1. ~(rs[q].length > 0)
      BY <1>2, <1>5 DEF Priorities
    <2>2. Slots(rs[q].length) = {}
      BY <2>1, StoredLengths DEF Slots
    <2> QED
      BY <2>2 DEF Stored, RingHolds
  <1> HIDE DEF p, e
  <1>6. 0 \in Slots(rs[p].length)
    BY <1>3 DEF Slots
  <1>7. e \in WaitsAt(E, p)
    BY <1>3, <1>4, <1>6 DEF RingHolds
  <1>8. ASSUME NEW f \in Entries \ {e}, E[f].queued, ~(E[f].priority < p)
        PROVE  E[f].priority = p /\ E[e].sequence < E[f].sequence
    <2>1. E[f].priority \in Priorities /\ f \in WaitsAt(E, E[f].priority)
      BY <1>8 DEF WaitsAt, Record
    <2>2. E[f].priority = p
      BY <1>3, <1>5, <1>8, <2>1 DEF Priorities
    <2>3. PICK i \in Slots(rs[p].length) : Pos(rs[p], i) = f
      BY <1>3, <2>1, <2>2 DEF RingHolds
    <2>4. i # 0 /\ 0 < i
      BY <1>3, <1>4, <2>3 DEF Slots
    <2> QED
      BY <1>3, <1>4, <1>6, <2>2, <2>3, <2>4 DEF RingHolds
  <1> QED
    BY <1>3, <1>4, <1>6, <1>7, <1>8 DEF e

-----------------------------------------------------------------------------
(* The conversion, getQueueState                                             *)

NoRings == [p \in Priorities |-> EmptyRing]

\* f is the conversion of array, entry by entry.
LaidOut(array, f) ==
    f = [i \in 0 .. Len(array) |->
            IF i = 0 THEN NoRings
            ELSE [f[i - 1] EXCEPT ![array[i].priority] = Append1(@, array[i].entry)]]

LEMMA FilledIs ==
    ASSUME NEW array, \E f : LaidOut(array, f)
    PROVE  \E f : LaidOut(array, f) /\ Filled(array) = f[Len(array)]
  BY DEF Filled, LaidOut, NoRings

LEMMA LaidOutExists ==
    ASSUME NEW array, Len(array) \in Nat
    PROVE  \E f : LaidOut(array, f)
  <1> DEFINE Step(rs, i) == [rs EXCEPT ![array[i].priority] = Append1(@, array[i].entry)]
             Upto(f, k) == f = [i \in 0 .. k |-> IF i = 0 THEN NoRings ELSE Step(f[i - 1], i)]
             T == {k \in Nat : \E f : Upto(f, k)}
  <1> HIDE DEF Step
  <1>1. 0 \in T
    <2> DEFINE f == [i \in 0 .. 0 |-> NoRings]
    <2>1. Upto(f, 0)
      OBVIOUS
    <2> QED
      BY <2>1
  <1>2. ASSUME NEW k \in Nat, k \in T PROVE k + 1 \in T
    <2>1. PICK f : Upto(f, k)
      BY <1>2
    <2> DEFINE g == [i \in 0 .. k + 1 |-> IF i = k + 1 THEN Step(f[k], i) ELSE f[i]]
    <2>2. ASSUME NEW i \in 0 .. k + 1
          PROVE  g[i] = IF i = 0 THEN NoRings ELSE Step(g[i - 1], i)
      <3>1. CASE i = 0
        <4>1. i \in 0 .. k /\ i # k + 1
          BY <3>1
        <4> QED
          BY <2>1, <3>1, <4>1
      <3>2. CASE i = k + 1
        <4>1. g[i] = Step(f[k], i) /\ i - 1 = k /\ k \in 0 .. k + 1 /\ k # k + 1 /\ i # 0
          BY <3>2
        <4>2. g[k] = f[k]
          BY <4>1
        <4> QED
          BY <4>1, <4>2
      <3>3. CASE i # 0 /\ i # k + 1
        <4>1. i \in 0 .. k /\ i - 1 \in 0 .. k + 1 /\ i - 1 # k + 1
          BY <3>3
        <4>2. g[i] = f[i] /\ g[i - 1] = f[i - 1]
          BY <3>3, <4>1
        <4>3. f[i] = Step(f[i - 1], i)
          BY <2>1, <3>3, <4>1
        <4> QED
          BY <3>3, <4>2, <4>3
      <3> QED
        BY <3>1, <3>2, <3>3
    <2>3. g = [i \in 0 .. k + 1 |-> IF i = 0 THEN NoRings ELSE Step(g[i - 1], i)]
      <3>1. DOMAIN g = 0 .. k + 1 /\ g = [i \in 0 .. k + 1 |-> g[i]]
        OBVIOUS
      <3> HIDE DEF g
      <3> QED
        BY <2>2, <3>1
    <2>4. \E h : Upto(h, k + 1)
      <3> HIDE DEF g
      <3> QED
        BY <2>3
    <2> QED
      BY <2>4
  <1>3. Nat \subseteq T
    <2> HIDE DEF T
    <2> QED
      BY <1>1, <1>2, SetInduction
  <1>4. Len(array) \in T
    BY <1>3
  <1> QED
    BY <1>4 DEF LaidOut, Step

LEMMA LegacyIs ==
    ASSUME NEW array \in Legacy, NEW number \in Numberings(array)
    PROVE  LET n == Len(array) IN
           /\ n \in Nat /\ DOMAIN array = 1 .. n
           /\ \A i \in 1 .. n : /\ array[i].entry \in Entries /\ array[i].priority \in Priorities
                                /\ number[i] \in 1 .. n + 1
           /\ \A i, j \in 1 .. n : i < j =>
                 /\ array[i].entry # array[j].entry /\ number[i] # number[j]
                 /\ array[i].priority = array[j].priority => number[i] < number[j]
  <1> DEFINE n == Len(array)
  <1>1. PICK m \in 0 .. MaxLegacy : array \in [1 .. m -> [entry : Entries, priority : Priorities]]
    BY DEF Legacy
  <1>2. n = m /\ m \in Nat
    BY <1>1, QueueAssumption
  <1>3. n \in Nat /\ DOMAIN array = 1 .. n
        /\ \A i \in 1 .. n : array[i].entry \in Entries /\ array[i].priority \in Priorities
    BY <1>1, <1>2
  <1>4. \A i, j \in 1 .. n : i < j => array[i].entry # array[j].entry
    BY <1>3 DEF Legacy
  <1> HIDE DEF n
  <1>5. /\ \A i \in 1 .. n : number[i] \in 1 .. n + 1
        /\ \A i, j \in 1 .. n : i < j =>
              /\ number[i] # number[j]
              /\ array[i].priority = array[j].priority => number[i] < number[j]
    <2>1. CASE number = [i \in DOMAIN array |-> i]
      BY <1>3, <2>1
    <2>2. CASE number \in {f \in [DOMAIN array -> 1 .. n + 1] :
        \A i, j \in DOMAIN array : i < j =>
            f[i] # f[j] /\ (array[i].priority = array[j].priority => f[i] < f[j])}
      BY <1>3, <2>2
    <2> QED
      BY <2>1, <2>2 DEF Numberings, n
  <1> QED
    BY <1>3, <1>4, <1>5 DEF n

\* E is the record of the first k entries of an array.
Told(array, number, E, k) ==
    /\ E \in [Entries -> Record]
    /\ \A i \in 1 .. k : E[array[i].entry] =
          [priority |-> array[i].priority, sequence |-> number[i], queued |-> TRUE]
    /\ \A e \in Entries : (\A i \in 1 .. k : array[i].entry # e) => E[e] = Gone

LEMMA GoneIs == Gone \in Record /\ ~Gone.queued
  BY DEF Gone, Record, Priorities

\* The rings hold the entries of the array.
LEMMA FilledStored ==
    ASSUME NEW array \in Legacy, NEW number \in Numberings(array)
    PROVE  \E E : /\ Told(array, number, E, Len(array))
                  /\ Stored(Filled(array), E) /\ Total(Filled(array)) = Len(array)
  <1> DEFINE n == Len(array)
  <1>1. /\ n \in Nat /\ DOMAIN array = 1 .. n
        /\ \A i \in 1 .. n : /\ array[i].entry \in Entries /\ array[i].priority \in Priorities
                             /\ number[i] \in 1 .. n + 1
        /\ \A i, j \in 1 .. n : i < j =>
              /\ array[i].entry # array[j].entry /\ number[i] # number[j]
              /\ array[i].priority = array[j].priority => number[i] < number[j]
    BY LegacyIs
  <1>2. PICK f : LaidOut(array, f) /\ Filled(array) = f[n]
    BY <1>1, LaidOutExists, FilledIs
  <1> DEFINE Holds(k) == \E E : Told(array, number, E, k) /\ Stored(f[k], E) /\ Total(f[k]) = k
             T == {k \in Nat : k <= n => Holds(k)}
  <1> HIDE DEF n
  <1>3. f[0] = NoRings
    <2>1. 0 \in 0 .. n
      BY <1>1
    <2> QED
      BY <1>2, <2>1 DEF LaidOut, n
  <1>4. ASSUME NEW k \in Slots(n)
        PROVE  f[k + 1] = [f[k] EXCEPT ![array[k + 1].priority] = Append1(@, array[k + 1].entry)]
    <2>1. k + 1 \in 0 .. n /\ k + 1 # 0 /\ (k + 1) - 1 = k
      BY <1>1 DEF Slots
    <2> QED
      BY <1>2, <2>1 DEF LaidOut, n
  <1>5. Holds(0)
    <2> DEFINE E == [e \in Entries |-> Gone]
    <2>1. 1 .. 0 = {} /\ E \in [Entries -> Record] /\ \A e \in Entries : E[e] = Gone
      BY GoneIs
    <2> HIDE DEF E
    <2>2. Told(array, number, E, 0)
      BY <2>1 DEF Told
    <2>3. ASSUME NEW p \in Priorities PROVE RingHolds(EmptyRing, p, E)
      <3>1. WaitsAt(E, p) = {} /\ Slots(0) = {}
        BY <2>1, GoneIs DEF WaitsAt, Slots
      <3> QED
        BY <3>1, EmptyIsGood DEF RingHolds
    <2>4. Stored(NoRings, E)
      BY <2>3 DEF Stored, NoRings
    <2>5. Total(NoRings) = 0
      BY EmptyIsGood DEF Total, NoRings, Priorities
    <2> QED
      BY <1>3, <2>2, <2>4, <2>5
  <1>6. ASSUME NEW k \in Slots(n), Holds(k) PROVE Holds(k + 1)
    <2>1. PICK E : Told(array, number, E, k) /\ Stored(f[k], E) /\ Total(f[k]) = k
      BY <1>6
    <2> DEFINE e == array[k + 1].entry
               p == array[k + 1].priority
               s == number[k + 1]
               F == [E EXCEPT ![e] = [priority |-> p, sequence |-> s, queued |-> TRUE]]
    <2>2. k + 1 \in 1 .. n /\ \A i \in 1 .. k : i \in 1 .. n /\ i < k + 1
      BY <1>1 DEF Slots
    <2>3. e \in Entries /\ p \in Priorities /\ s \in Int
      BY <1>1, <2>2
    <2>4. \A i \in 1 .. k : array[i].entry # e /\ (array[i].priority = p => number[i] < s)
      BY <1>1, <2>2
    <2>5. ~E[e].queued
      BY <2>1, <2>3, <2>4, GoneIs DEF Told
    <2>6. ASSUME NEW g \in WaitsAt(E, p) PROVE E[g].sequence < s
      <3>1. g \in Entries /\ E[g].queued /\ E[g].priority = p
        BY DEF WaitsAt
      <3>2. PICK i \in 1 .. k : array[i].entry = g
        BY <2>1, <3>1, GoneIs DEF Told
      <3>3. E[g] = [priority |-> array[i].priority, sequence |-> number[i], queued |-> TRUE]
        BY <2>1, <3>2 DEF Told
      <3> QED
        BY <2>4, <3>1, <3>3
    <2> HIDE DEF e, p, s
    <2>7. E \in [Entries -> Record]
      BY <2>1 DEF Told
    <2> DEFINE rs == f[k]
               R == [rs EXCEPT ![p] = Append1(@, e)]
    <2>8. f[k + 1] = R
      BY <1>4 DEF p, e
    <2>9. F \in [Entries -> Record] /\ Stored(R, F) /\ Total(R) = Total(rs) + 1
      <3> HIDE DEF rs
      <3> QED
        BY <2>1, <2>3, <2>5, <2>6, <2>7, EnqueueStored DEF rs
    <2> HIDE DEF R
    <2>10. Told(array, number, F, k + 1)
      <3>1. F[e] = [priority |-> p, sequence |-> s, queued |-> TRUE]
            /\ \A g \in Entries \ {e} : F[g] = E[g]
        BY <2>3, <2>7
      <3> HIDE DEF F
      <3>2. ASSUME NEW i \in 1 .. k + 1
            PROVE  F[array[i].entry] =
                     [priority |-> array[i].priority, sequence |-> number[i], queued |-> TRUE]
        <4>1. CASE i = k + 1
          BY <3>1, <4>1 DEF e, p, s
        <4>2. CASE i # k + 1
          <5>1. i \in 1 .. k
            BY <1>1, <4>2 DEF Slots
          <5>2. array[i].entry \in Entries \ {e}
            BY <1>1, <2>2, <2>4, <5>1
          <5> QED
            BY <2>1, <3>1, <5>1, <5>2 DEF Told
        <4> QED
          BY <4>1, <4>2
      <3>3. ASSUME NEW g \in Entries, \A i \in 1 .. k + 1 : array[i].entry # g PROVE F[g] = Gone
        <4>1. k + 1 \in 1 .. k + 1 /\ \A i \in 1 .. k : i \in 1 .. k + 1
          BY <1>1 DEF Slots
        <4>2. g # e
          BY <3>3, <4>1 DEF e
        <4> QED
          BY <2>1, <3>1, <3>3, <4>1, <4>2 DEF Told
      <3> QED
        BY <2>9, <3>2, <3>3 DEF Told
    <2> HIDE DEF F
    <2> QED
      BY <2>1, <2>8, <2>9, <2>10
  <1>7. Nat \subseteq T
    <2>1. 0 \in T
      BY <1>5
    <2>2. ASSUME NEW i \in Nat, i \in T PROVE i + 1 \in T
      <3> HIDE DEF Holds
      <3>1. CASE i + 1 <= n
        <4>1. i \in Slots(n) /\ i <= n
          BY <1>1, <3>1 DEF Slots
        <4>2. Holds(i + 1)
          BY <1>6, <2>2, <4>1
        <4> QED
          BY <4>2
      <3>2. CASE ~(i + 1 <= n)
        BY <3>2
      <3> QED
        BY <3>1, <3>2
    <2> HIDE DEF T
    <2> QED
      BY <2>1, <2>2, SetInduction
  <1>8. Holds(n)
    <2> HIDE DEF Holds
    <2> QED
      BY <1>1, <1>7
  <1> QED
    BY <1>2, <1>8 DEF n

-----------------------------------------------------------------------------
(* The inductive invariant                                                   *)

LaneInv ==
    /\ entry \in [Entries -> Record]
    /\ Stored(rings, entry)
    /\ length = Total(rings)
    /\ nextQueueSequence \in Nat \ {0}
    /\ \A e \in Queued : entry[e].sequence \in 1 .. nextQueueSequence - 1

LEMMA MaxOfNumbers ==
    ASSUME NEW T \in SUBSET Nat, T # {}, NEW b \in Nat, \A t \in T : t <= b
    PROVE  Max(T) \in T /\ \A t \in T : t <= Max(T)
  <1> DEFINE D == {b - t : t \in T}
  <1>1. D \subseteq Nat /\ D # {}
    <2>1. \A t \in T : b - t \in Nat
      OBVIOUS
    <2> QED
      BY <2>1
  <1>2. PICK d \in D : \A x \in D : d <= x
    <2> HIDE DEF D
    <2> QED
      BY <1>1, LeastNumber
  <1>3. PICK m \in T : d = b - m
    OBVIOUS
  <1>4. ASSUME NEW t \in T PROVE m >= t
    <2>1. d <= b - t
      BY <1>2
    <2> QED
      BY <1>3, <2>1
  <1>5. Max(T) \in T /\ \A t \in T : Max(T) >= t
    BY <1>4 DEF Max
  <1> QED
    BY <1>5

LEMMA NextAfterIs ==
    ASSUME NEW array \in Legacy, NEW number \in Numberings(array)
    PROVE  LET next == NextAfter({number[i] : i \in DOMAIN array}) IN
           /\ next \in Nat \ {0}
           /\ \A i \in 1 .. Len(array) : number[i] \in 1 .. next - 1
  <1> DEFINE n == Len(array)
             T == {number[i] : i \in DOMAIN array}
  <1>1. n \in Nat /\ DOMAIN array = 1 .. n /\ \A i \in 1 .. n : number[i] \in 1 .. n + 1
    BY LegacyIs
  <1>2. T \in SUBSET Nat /\ \A t \in T : t <= n + 1
    BY <1>1
  <1>3. \A i \in 1 .. n : number[i] \in T
    BY <1>1
  <1> DEFINE next == NextAfter(T)
  <1> HIDE DEF T, n
  <1>4. next \in Nat \ {0} /\ \A t \in T : t <= next - 1
    <2>1. CASE T = {}
      BY <2>1 DEF NextAfter
    <2>2. CASE T # {}
      <3>1. n + 1 \in Nat
        BY <1>1
      <3>2. Max(T) \in T /\ \A t \in T : t <= Max(T)
        BY <1>2, <2>2, <3>1, MaxOfNumbers
      <3>3. next = Max(T) + 1
        BY <2>2 DEF NextAfter
      <3>4. Max(T) \in Nat /\ \A t \in T : t \in Nat
        BY <1>2, <3>2
      <3> DEFINE m == Max(T)
      <3> HIDE DEF next, m
      <3>5. m \in Nat /\ next = m + 1 /\ \A t \in T : t \in Nat /\ t <= m
        BY <3>2, <3>3, <3>4 DEF m
      <3> QED
        BY <3>5
    <2> QED
      BY <2>1, <2>2
  <1> HIDE DEF next
  <1>5. ASSUME NEW i \in 1 .. n PROVE number[i] \in 1 .. next - 1
    <2>1. number[i] <= next - 1 /\ number[i] \in 1 .. n + 1
      BY <1>1, <1>3, <1>4
    <2> QED
      BY <1>1, <1>4, <2>1
  <1>6. next \in Nat \ {0} /\ \A i \in 1 .. n : number[i] \in 1 .. next - 1
    BY <1>4, <1>5
  <1> QED
    BY <1>6 DEF next, T, n

\* The entries after the conversion.
LEMMA MigratedIs ==
    ASSUME NEW array \in Legacy, NEW number \in Numberings(array), Migrated(array, number)
    PROVE  Told(array, number, entry, Len(array)) /\ LaneInv
  <1> DEFINE n == Len(array)
  <1>1. /\ n \in Nat /\ DOMAIN array = 1 .. n
        /\ \A i \in 1 .. n : /\ array[i].entry \in Entries /\ array[i].priority \in Priorities
                             /\ number[i] \in 1 .. n + 1
        /\ \A i, j \in 1 .. n : i < j =>
              /\ array[i].entry # array[j].entry /\ number[i] # number[j]
              /\ array[i].priority = array[j].priority => number[i] < number[j]
    BY LegacyIs
  <1>2. PICK E : /\ Told(array, number, E, n)
                 /\ Stored(Filled(array), E) /\ Total(Filled(array)) = n
    BY FilledStored
  <1> HIDE DEF n
  <1>3. entry = E
    <2>1. entry = [e \in Entries |->
            IF \E i \in DOMAIN array : array[i].entry = e
            THEN LET i == CHOOSE i \in DOMAIN array : array[i].entry = e
                 IN [priority |-> array[i].priority, sequence |-> number[i], queued |-> TRUE]
            ELSE Gone]
      BY DEF Migrated
    <2>2. ASSUME NEW e \in Entries PROVE entry[e] = E[e]
      <3>1. CASE \E i \in DOMAIN array : array[i].entry = e
        <4> DEFINE i == CHOOSE i \in DOMAIN array : array[i].entry = e
        <4>1. i \in 1 .. n /\ array[i].entry = e
          BY <1>1, <3>1
        <4>2. entry[e] = [priority |-> array[i].priority, sequence |-> number[i], queued |-> TRUE]
          BY <2>1, <3>1
        <4> HIDE DEF i
        <4> QED
          BY <1>2, <4>1, <4>2 DEF Told
      <3>2. CASE ~\E i \in DOMAIN array : array[i].entry = e
        BY <1>1, <1>2, <2>1, <3>2 DEF Told
      <3> QED
        BY <3>1, <3>2
    <2> QED
      BY <1>2, <2>1, <2>2 DEF Told
  <1>4. rings = Filled(array) /\ length = n
    BY DEF Migrated, n
  <1>5. nextQueueSequence \in Nat \ {0} /\ \A i \in 1 .. n : number[i] \in 1 .. nextQueueSequence - 1
    BY NextAfterIs DEF Migrated, n
  <1>6. ASSUME NEW e \in Queued PROVE entry[e].sequence \in 1 .. nextQueueSequence - 1
    <2>1. e \in Entries /\ E[e].queued
      BY <1>3 DEF Queued
    <2>2. PICK i \in 1 .. n : array[i].entry = e
      BY <1>2, <2>1, GoneIs DEF Told
    <2>3. E[e] = [priority |-> array[i].priority, sequence |-> number[i], queued |-> TRUE]
      BY <1>2, <2>2 DEF Told
    <2>4. entry[e].sequence = number[i]
      BY <1>3, <2>3
    <2> QED
      BY <1>5, <2>4
  <1>7. entry \in [Entries -> Record]
    BY <1>2, <1>3 DEF Told
  <1> QED
    BY <1>2, <1>3, <1>4, <1>5, <1>6, <1>7 DEF LaneInv, n

LEMMA InitHolds == Init => LaneInv
  BY MigratedIs DEF Init

LEMMA EnqueueHolds ==
    ASSUME LaneInv, NEW e \in Entries, NEW p \in Priorities, Enqueue(e, p)
    PROVE  LaneInv'
  <1> DEFINE s == nextQueueSequence
             F == [entry EXCEPT ![e] = [priority |-> p, sequence |-> s, queued |-> TRUE]]
             R == [rings EXCEPT ![p] = Append1(@, e)]
  <1>1. /\ entry \in [Entries -> Record] /\ Stored(rings, entry) /\ length = Total(rings)
        /\ s \in Nat \ {0} /\ \A f \in Queued : entry[f].sequence \in 1 .. s - 1
    BY DEF LaneInv
  <1>2. /\ ~entry[e].queued /\ entry' = F /\ rings' = R /\ length' = length + 1
        /\ nextQueueSequence' = s + 1
    BY DEF Enqueue
  <1> HIDE DEF s
  <1>3. \A f \in WaitsAt(entry, p) : entry[f].sequence < s
    BY <1>1 DEF WaitsAt, Queued
  <1>4. s \in Int
    BY <1>1
  <1>5. F \in [Entries -> Record] /\ Stored(R, F) /\ Total(R) = Total(rings) + 1
    BY <1>1, <1>2, <1>3, <1>4, EnqueueStored
  <1>6. F[e].sequence = s /\ \A f \in Entries \ {e} : F[f] = entry[f]
    BY <1>1
  <1> HIDE DEF F, R
  <1>7. ASSUME NEW f \in Entries, F[f].queued PROVE F[f].sequence \in 1 .. (s + 1) - 1
    <2>1. CASE f = e
      BY <1>1, <1>6, <2>1
    <2>2. CASE f # e
      <3>1. F[f] = entry[f] /\ f \in Queued
        BY <1>6, <1>7, <2>2 DEF Queued
      <3>2. entry[f].sequence \in 1 .. s - 1
        BY <1>1, <3>1
      <3> QED
        BY <1>1, <3>1, <3>2
    <2> QED
      BY <2>1, <2>2
  <1>8. Total(rings') = length' /\ Stored(rings', entry')
    BY <1>1, <1>2, <1>5
  <1> QED
    BY <1>1, <1>2, <1>5, <1>7, <1>8 DEF LaneInv, Queued

\* The k-th entry of a ring leaves the queue.
LEMMA LeaveKeeps ==
    ASSUME LaneInv, NEW p \in Priorities, NEW k \in Slots(rings[p].length),
           NEW r, Without(r, rings[p], k),
           rings' = [rings EXCEPT ![p] = r], entry' = [entry EXCEPT ![Pos(rings[p], k)] = Gone],
           length' = length - 1, UNCHANGED nextQueueSequence
    PROVE  LaneInv'
  <1> DEFINE e == Pos(rings[p], k)
             F == [entry EXCEPT ![e] = Gone]
             R == [rings EXCEPT ![p] = r]
  <1>1. /\ entry \in [Entries -> Record] /\ Stored(rings, entry) /\ length = Total(rings)
        /\ nextQueueSequence \in Nat \ {0}
        /\ \A f \in Queued : entry[f].sequence \in 1 .. nextQueueSequence - 1
    BY DEF LaneInv
  <1>2. F \in [Entries -> Record] /\ Stored(R, F) /\ Total(R) = Total(rings) - 1
    BY <1>1, LeaveStored
  <1>3. \A f \in Entries : F[f] = Gone \/ F[f] = entry[f]
    BY <1>1
  <1> HIDE DEF F, R
  <1>4. ASSUME NEW f \in Entries, F[f].queued PROVE F[f].sequence \in 1 .. nextQueueSequence - 1
    <2>1. F[f] = entry[f] /\ f \in Queued
      BY <1>3, <1>4, GoneIs DEF Queued
    <2> QED
      BY <1>1, <2>1
  <1>5. rings' = R /\ entry' = F
    BY DEF R, F
  <1>6. Total(rings') = length' /\ Stored(rings', entry')
    BY <1>1, <1>2, <1>5
  <1> QED
    BY <1>1, <1>2, <1>4, <1>5, <1>6 DEF LaneInv, Queued

\* dequeueLaneQueue takes the first entry of the most urgent ring.
LEMMA DequeueTakes ==
    ASSUME LaneInv, Dequeue
    PROVE  \E p \in Priorities : \E r :
               /\ 0 \in Slots(rings[p].length) /\ Without(r, rings[p], 0)
               /\ rings' = [rings EXCEPT ![p] = r]
               /\ entry' = [entry EXCEPT ![Pos(rings[p], 0)] = Gone]
               /\ answer' = <<"dequeue", Pos(rings[p], 0)>>
               /\ \A f \in Entries \ {Pos(rings[p], 0)} : entry[f].queued =>
                     \/ entry[f].priority < p
                     \/ /\ entry[f].priority = p
                        /\ entry[Pos(rings[p], 0)].sequence < entry[f].sequence
  <1> DEFINE e == Peek(rings)
  <1>1. /\ entry \in [Entries -> Record] /\ Stored(rings, entry)
        /\ length = Total(rings) /\ Total(rings) > 0
    BY DEF LaneInv, Dequeue
  <1>2. PICK p \in Priorities :
            /\ 0 \in Slots(rings[p].length) /\ e = Pos(rings[p], 0)
            /\ e \in WaitsAt(entry, p)
            /\ \A f \in Entries \ {e} : entry[f].queued =>
                  \/ entry[f].priority < p
                  \/ entry[f].priority = p /\ entry[e].sequence < entry[f].sequence
    BY <1>1, PeekIs
  <1>3. /\ rings' = [rings EXCEPT ![entry[e].priority] = DequeueRing(@)]
        /\ entry' = [entry EXCEPT ![e] = Gone] /\ answer' = <<"dequeue", e>>
    BY DEF Dequeue
  <1> DEFINE r == DequeueRing(rings[p])
  <1>4. GoodRing(rings[p]) /\ rings[p].length > 0
    BY <1>1, <1>2, StoredLengths DEF Stored, RingHolds, Slots
  <1>5. /\ GoodRing(r) /\ rings[p].length \in Nat /\ r.length = rings[p].length - 1
        /\ \A i \in Slots(rings[p].length - 1) : Pos(r, i) = Pos(rings[p], i + 1)
    BY <1>4, DequeueKeeps
  <1>6. rings' = [rings EXCEPT ![p] = r]
    BY <1>2, <1>3 DEF WaitsAt
  <1> HIDE DEF r, e
  <1>7. \A j \in Slots(rings[p].length - 1) : Pos(r, j) = Pos(rings[p], Kept(0, j))
    BY <1>5 DEF Kept, Slots
  <1>8. Without(r, rings[p], 0)
    BY <1>5, <1>7 DEF Without
  <1> QED
    BY <1>2, <1>3, <1>6, <1>8

\* removeLaneQueueEntry takes the entry out of its ring.
LEMMA RemoveTakes ==
    ASSUME LaneInv, NEW e \in Entries, RemoveEntry(e)
    PROVE  \E p \in Priorities : \E r : \E k \in Slots(rings[p].length) :
               /\ Without(r, rings[p], k)
               /\ rings' = [rings EXCEPT ![p] = r]
               /\ e = Pos(rings[p], k)
  <1> DEFINE p == entry[e].priority
             ring == rings[p]
             r == Rotate(ring, e)
  <1>1. entry \in [Entries -> Record] /\ Stored(rings, entry)
    BY DEF LaneInv
  <1>2. entry[e].queued /\ rings' = [rings EXCEPT ![p] = r]
    BY DEF RemoveEntry
  <1>3. p \in Priorities /\ e \in WaitsAt(entry, p)
    BY <1>1, <1>2 DEF Record, WaitsAt
  <1> HIDE DEF p
  <1>4. RingHolds(ring, p, entry)
    BY <1>1, <1>3 DEF Stored
  <1> HIDE DEF ring
  <1>5. PICK k \in Slots(ring.length) : Pos(ring, k) = e
    BY <1>3, <1>4 DEF RingHolds
  <1>6. \A j \in Slots(ring.length) : Pos(ring, j) \in Entries
    BY <1>4 DEF RingHolds, WaitsAt
  <1>7. \A j \in Slots(ring.length) \ {k} : Pos(ring, j) # Pos(ring, k)
    BY <1>1, <1>4, DistinctHold
  <1>8. GoodRing(ring) /\ ring.length \in Nat
    BY <1>4, LengthIs DEF RingHolds
  <1> DEFINE q == Rotate(ring, Pos(ring, k))
  <1>9. Without(q, ring, k)
    BY <1>6, <1>7, <1>8, RotateKeeps DEF Without
  <1>10. q = r
    BY <1>5
  <1> HIDE DEF q, r
  <1> QED
    BY <1>2, <1>3, <1>5, <1>9, <1>10 DEF ring

LEMMA NextHolds == LaneInv /\ [Next]_vars => LaneInv'
  <1> SUFFICES ASSUME LaneInv, [Next]_vars PROVE LaneInv'
    OBVIOUS
  <1>1. ASSUME NEW e \in Entries, NEW p \in Priorities, Enqueue(e, p) PROVE LaneInv'
    BY <1>1, EnqueueHolds
  <1>2. ASSUME NEW e \in Entries, RemoveEntry(e) PROVE LaneInv'
    <2>1. PICK p \in Priorities : \E r : \E k \in Slots(rings[p].length) :
             /\ Without(r, rings[p], k)
             /\ rings' = [rings EXCEPT ![p] = r]
             /\ e = Pos(rings[p], k)
      BY <1>2, RemoveTakes
    <2>2. /\ entry' = [entry EXCEPT ![e] = Gone] /\ length' = length - 1
          /\ UNCHANGED nextQueueSequence
      BY <1>2 DEF RemoveEntry
    <2> QED
      BY <2>1, <2>2, LeaveKeeps
  <1>3. CASE Dequeue
    <2>1. length' = length - 1 /\ UNCHANGED nextQueueSequence
      BY <1>3 DEF Dequeue
    <2> QED
      BY <1>3, <2>1, DequeueTakes, LeaveKeeps
  <1>4. CASE UNCHANGED vars
    BY <1>4 DEF LaneInv, Queued, vars
  <1> QED
    BY <1>1, <1>2, <1>3, <1>4 DEF Next

\* The rings hold exactly the entries that wait, each ring those of its priority
\* with the oldest first.
THEOREM LaneTheorem == Spec => []LaneInv
  BY InitHolds, NextHolds, PTL DEF Spec

-----------------------------------------------------------------------------
(* The refinement                                                            *)

\* The entries that wait, as PriorityFifo sees them.
RankOf(E) == [e \in {f \in Entries : E[f].queued} |->
                 [priority |-> E[e].priority, sequence |-> E[e].sequence]]

RankWith(rank, e, x) == [f \in DOMAIN rank \cup {e} |-> IF f = e THEN x ELSE rank[f]]
RankWithout(rank, e) == [f \in DOMAIN rank \ {e} |-> rank[f]]

LEMMA RankGrows ==
    ASSUME NEW E, NEW F, NEW e \in Entries, \A f \in Entries \ {e} : F[f] = E[f],
           ~E[e].queued, F[e].queued
    PROVE  RankOf(F) =
              RankWith(RankOf(E), e, [priority |-> F[e].priority, sequence |-> F[e].sequence])
  <1>1. {f \in Entries : F[f].queued} = {f \in Entries : E[f].queued} \cup {e}
    OBVIOUS
  <1>2. \A f \in {f \in Entries : E[f].queued} : f # e /\ F[f] = E[f]
    OBVIOUS
  <1> QED
    BY <1>1, <1>2 DEF RankOf, RankWith

LEMMA RankShrinks ==
    ASSUME NEW E, NEW F, NEW e \in Entries, \A f \in Entries \ {e} : F[f] = E[f],
           ~F[e].queued
    PROVE  RankOf(F) = RankWithout(RankOf(E), e)
  <1>1. {f \in Entries : F[f].queued} = {f \in Entries : E[f].queued} \ {e}
    OBVIOUS
  <1>2. \A f \in {f \in Entries : F[f].queued} : F[f] = E[f]
    OBVIOUS
  <1> QED
    BY <1>1, <1>2 DEF RankOf, RankWithout

LEMMA SameCount == ASSUME NEW S PROVE Fifo!Cardinality(S) = Cardinality(S)
  BY DEF Fifo!Cardinality, Cardinality, Fifo!IsFiniteSet, IsFiniteSet

LEMMA InitRefines == Init => Fifo!PFInit
  <1> SUFFICES ASSUME Init PROVE Fifo!PFInit
    OBVIOUS
  <1>1. PICK array \in Legacy : \E number \in Numberings(array) : Migrated(array, number)
    BY DEF Init
  <1>2. PICK number \in Numberings(array) : Migrated(array, number)
    BY <1>1
  <1> DEFINE n == Len(array)
  <1>3. Told(array, number, entry, n) /\ LaneInv
    BY <1>2, MigratedIs
  <1>4. /\ n \in Nat
        /\ \A i, j \in 1 .. n : i < j => number[i] # number[j]
    BY LegacyIs
  <1> HIDE DEF n
  <1>5. ASSUME NEW e \in Queued
        PROVE  \E i \in 1 .. n : array[i].entry = e /\ entry[e].sequence = number[i]
    <2>1. e \in Entries /\ entry[e] # Gone
      BY GoneIs DEF Queued
    <2>2. PICK i \in 1 .. n : array[i].entry = e
      BY <1>3, <2>1 DEF Told
    <2>3. entry[e] = [priority |-> array[i].priority, sequence |-> number[i], queued |-> TRUE]
      BY <1>3, <2>2 DEF Told
    <2> QED
      BY <2>2, <2>3
  <1>6. ASSUME NEW e \in Queued, NEW f \in Queued, e # f
        PROVE  entry[e].sequence # entry[f].sequence
    <2>1. PICK i \in 1 .. n : array[i].entry = e /\ entry[e].sequence = number[i]
      BY <1>5
    <2>2. PICK j \in 1 .. n : array[j].entry = f /\ entry[f].sequence = number[j]
      BY <1>5
    <2>3. i < j \/ j < i
      BY <1>4, <1>6, <2>1, <2>2
    <2> QED
      BY <1>4, <2>1, <2>2, <2>3
  <1>7. \A e \in Queued : /\ e \in Entries /\ entry[e].priority \in Priorities
                          /\ entry[e].sequence \in 1 .. nextQueueSequence - 1
    BY <1>3 DEF LaneInv, Record, Queued
  <1>8. nextQueueSequence \in Nat /\ answer = <<"none", 0>>
    BY <1>3 DEF LaneInv, Init
  <1> QED
    BY <1>6, <1>7, <1>8 DEF Fifo!PFInit, Fifo!waiting

LEMMA EnqueueRefines ==
    ASSUME LaneInv, NEW e \in Entries, NEW p \in Priorities, Enqueue(e, p)
    PROVE  Fifo!PFEnqueue(e, p)
  <1> DEFINE A == {f \in Entries : entry[f].queued /\ entry[f].priority >= p}
             B == {f \in DOMAIN RankOf(entry) : RankOf(entry)[f].priority >= p}
  <1>1. entry \in [Entries -> Record] /\ Stored(rings, entry)
    BY DEF LaneInv
  <1>2. /\ ~entry[e].queued /\ nextQueueSequence < MaxSequence
        /\ entry' = [entry EXCEPT ![e] = [priority |-> p, sequence |-> nextQueueSequence,
                                          queued |-> TRUE]]
        /\ nextQueueSequence' = nextQueueSequence + 1
    BY DEF Enqueue
  <1>3. /\ entry'[e] = [priority |-> p, sequence |-> nextQueueSequence, queued |-> TRUE]
        /\ \A f \in Entries \ {e} : entry'[f] = entry[f]
    BY <1>1, <1>2
  <1>4. RankOf(entry') =
           RankWith(RankOf(entry), e, [priority |-> p, sequence |-> nextQueueSequence])
    <2>1. PICK F : F = entry'
      OBVIOUS
    <2>2. ~entry[e].queued /\ F[e].queued /\ \A f \in Entries \ {e} : F[f] = entry[f]
      BY <1>2, <1>3, <2>1
    <2>3. F[e].priority = p /\ F[e].sequence = nextQueueSequence
      BY <1>3, <2>1
    <2>4. RankOf(F) =
            RankWith(RankOf(entry), e, [priority |-> F[e].priority, sequence |-> F[e].sequence])
      BY <2>2, RankGrows
    <2> QED
      BY <2>1, <2>3, <2>4
  <1>5. answer' = <<"enqueue", Cardinality(A)>>
    BY <1>1, AheadCounts DEF Enqueue
  <1>6. A = B
    BY DEF RankOf
  <1>7. e \notin DOMAIN RankOf(entry)
    BY <1>2 DEF RankOf
  <1>8. /\ RankOf(entry) = [x \in Queued |->
               [priority |-> entry[x].priority, sequence |-> entry[x].sequence]]
        /\ RankOf(entry') = [x \in Queued |->
               [priority |-> entry[x].priority, sequence |-> entry[x].sequence]]'
    BY DEF RankOf, Queued
  <1>9. Fifo!waiting = DOMAIN RankOf(entry)
    BY <1>8 DEF Fifo!waiting
  <1>10. answer' = <<"enqueue", Fifo!Cardinality(B)>>
    BY <1>5, <1>6, SameCount
  <1> HIDE DEF A
  <1> QED
    BY <1>2, <1>4, <1>7, <1>8, <1>9, <1>10, Zenon DEF Fifo!PFEnqueue, RankWith

LEMMA LeaveRefines ==
    ASSUME entry \in [Entries -> Record], NEW e \in Entries,
           entry' = [entry EXCEPT ![e] = Gone], UNCHANGED nextQueueSequence
    PROVE  Fifo!Leaves(e)
  <1>1. ~entry'[e].queued /\ \A f \in Entries \ {e} : entry'[f] = entry[f]
    BY GoneIs
  <1>2. RankOf(entry') = RankWithout(RankOf(entry), e)
    <2>1. PICK F : F = entry'
      OBVIOUS
    <2>2. RankOf(F) = RankWithout(RankOf(entry), e)
      BY <1>1, <2>1, RankShrinks
    <2> QED
      BY <2>1, <2>2
  <1> QED
    BY <1>2 DEF Fifo!Leaves, Fifo!waiting, RankOf, RankWithout, Queued

LEMMA DequeueRefines ==
    ASSUME LaneInv, Dequeue
    PROVE  \E e \in Entries : Fifo!PFDequeue(e)
  <1>1. PICK p \in Priorities : \E r :
            /\ 0 \in Slots(rings[p].length) /\ Without(r, rings[p], 0)
            /\ rings' = [rings EXCEPT ![p] = r]
            /\ entry' = [entry EXCEPT ![Pos(rings[p], 0)] = Gone]
            /\ answer' = <<"dequeue", Pos(rings[p], 0)>>
            /\ \A f \in Entries \ {Pos(rings[p], 0)} : entry[f].queued =>
                  \/ entry[f].priority < p
                  \/ /\ entry[f].priority = p
                     /\ entry[Pos(rings[p], 0)].sequence < entry[f].sequence
    BY DequeueTakes
  <1> DEFINE e == Pos(rings[p], 0)
  <1>2. entry \in [Entries -> Record] /\ UNCHANGED nextQueueSequence
    BY DEF LaneInv, Dequeue
  <1>3. e \in WaitsAt(entry, p)
    BY <1>1 DEF LaneInv, Stored, RingHolds
  <1>4. PICK x \in Entries : x = e /\ x \in Queued /\ entry[x].priority = p
    BY <1>3 DEF WaitsAt, Queued
  <1> HIDE DEF e
  <1>5. Fifo!Leaves(x)
    BY <1>1, <1>2, <1>4, LeaveRefines DEF e
  <1>6. ASSUME NEW f \in Queued \ {x} PROVE Fifo!Precedes(x, f)
    <2>1. f \in Entries \ {x} /\ entry[f].queued
      BY DEF Queued
    <2>2. \/ entry[f].priority < p
          \/ entry[f].priority = p /\ entry[x].sequence < entry[f].sequence
      BY <1>1, <1>4, <2>1 DEF e
    <2>3. entry[f].priority \in Int
      BY <1>2, <2>1 DEF Record, Priorities
    <2> QED
      BY <1>4, <2>2, <2>3 DEF Fifo!Precedes, Priorities
  <1>7. answer' = <<"dequeue", x>>
    BY <1>1, <1>4 DEF e
  <1> QED
    BY <1>4, <1>5, <1>6, <1>7 DEF Fifo!PFDequeue, Fifo!waiting

LEMMA RemoveRefines ==
    ASSUME LaneInv, NEW e \in Entries, RemoveEntry(e)
    PROVE  Fifo!PFRemove(e)
  <1>1. Fifo!Leaves(e)
    BY LeaveRefines DEF LaneInv, RemoveEntry
  <1> QED
    BY <1>1 DEF Fifo!PFRemove, Fifo!waiting, RemoveEntry, Queued

LEMMA NextRefines == LaneInv /\ [Next]_vars => [Fifo!PFNext]_(Fifo!pfVars)
  <1> SUFFICES ASSUME LaneInv, [Next]_vars PROVE [Fifo!PFNext]_(Fifo!pfVars)
    OBVIOUS
  <1>1. ASSUME NEW e \in Entries, NEW p \in Priorities, Enqueue(e, p) PROVE Fifo!PFNext
    BY <1>1, EnqueueRefines DEF Fifo!PFNext
  <1>2. ASSUME NEW e \in Entries, RemoveEntry(e) PROVE Fifo!PFNext
    BY <1>2, RemoveRefines DEF Fifo!PFNext
  <1>3. CASE Dequeue
    BY <1>3, DequeueRefines DEF Fifo!PFNext
  <1>4. CASE UNCHANGED vars
    BY <1>4 DEF Fifo!pfVars, Queued, vars
  <1> QED
    BY <1>1, <1>2, <1>3, <1>4 DEF Next

\* The ring buffers implement the queue that CommandQueue assumes: the entry
\* served is the most urgent and then the oldest, across growth, release, aborts
\* and conversion, and a new entry learns how many are ahead of it.
THEOREM FifoTheorem == Spec => ImplementsFifo
  <1>1. Spec => []LaneInv
    BY LaneTheorem
  <1> QED
    BY <1>1, InitRefines, NextRefines, PTL DEF Spec, ImplementsFifo, Fifo!PFSpec

-----------------------------------------------------------------------------
(* The slots                                                                 *)

LEMMA HoldsClean ==
    ASSUME NEW ring, NEW p, NEW E, RingHolds(ring, p, E)
    PROVE  /\ ring.length <= Capacity(ring)
           /\ ring.length = 0 => Capacity(ring) = 0
           /\ \A i \in DOMAIN ring.entries :
                 IF i \in Occupied(ring) THEN ring.entries[i] \in WaitsAt(E, p)
                 ELSE ring.entries[i] = Nobody
  <1> DEFINE n == ring.length
             h == ring.head
  <1>1. PICK c \in Nat : Fits(ring, c) /\ (n = 0 => c = 0)
    BY DEF RingHolds, GoodRing
  <1>2. Capacity(ring) = c /\ DOMAIN ring.entries = Slots(c) /\ n \in 0 .. c
    BY <1>1, CapacityIs DEF Fits
  <1>3. ASSUME NEW i \in Slots(c)
        PROVE  IF i \in Occupied(ring) THEN ring.entries[i] \in WaitsAt(E, p)
               ELSE ring.entries[i] = Nobody
    <2>1. h \in Slots(c)
      BY <1>1, <1>3 DEF Fits, Slots
    <2>2. PICK j \in Slots(c) : Index(h, j, c) = i
      BY <2>1, IndexReaches
    <2>3. ASSUME NEW k \in Slots(n) PROVE k \in Slots(c) /\ (h + k) % c = Index(h, k, c)
      <3>1. k \in Slots(c) /\ k \in 0 .. c /\ k < c
        BY <1>2 DEF Slots
      <3> QED
        BY <2>1, <3>1, IndexIs
    <2>4. Occupied(ring) = {(h + k) % c : k \in Slots(n)}
      BY <1>2 DEF Occupied
    <2>5. CASE j \in Slots(n)
      <3>1. i \in Occupied(ring)
        BY <2>2, <2>3, <2>4, <2>5
      <3>2. ring.entries[i] = Pos(ring, j)
        BY <1>2, <2>2 DEF Pos
      <3> QED
        BY <2>5, <3>1, <3>2 DEF RingHolds
    <2>6. CASE j \notin Slots(n)
      <3>1. i \notin Occupied(ring)
        BY <2>1, <2>2, <2>3, <2>4, <2>6, IndexDiffers
      <3>2. j \in n .. c - 1
        BY <1>2, <2>6 DEF Slots
      <3>3. ring.entries[i] = Nobody
        BY <1>1, <2>2, <3>2 DEF Fits
      <3> QED
        BY <3>1, <3>3
    <2> QED
      BY <2>5, <2>6
  <1> QED
    BY <1>1, <1>2, <1>3

LEMMA InvClean == LaneInv => RingsClean
  <1> SUFFICES ASSUME LaneInv, NEW p \in Priorities
               PROVE  /\ rings[p].length <= Capacity(rings[p])
                      /\ rings[p].length = 0 => Capacity(rings[p]) = 0
                      /\ \A i \in DOMAIN rings[p].entries :
                            IF i \in Occupied(rings[p])
                            THEN /\ rings[p].entries[i] \in Queued
                                 /\ entry[rings[p].entries[i]].priority = p
                            ELSE rings[p].entries[i] = Nobody
    BY Zenon DEF RingsClean
  <1>1. RingHolds(rings[p], p, entry)
    BY DEF LaneInv, Stored
  <1>2. /\ rings[p].length <= Capacity(rings[p])
        /\ rings[p].length = 0 => Capacity(rings[p]) = 0
        /\ \A i \in DOMAIN rings[p].entries :
              IF i \in Occupied(rings[p]) THEN rings[p].entries[i] \in WaitsAt(entry, p)
              ELSE rings[p].entries[i] = Nobody
    BY <1>1, HoldsClean
  <1> QED
    BY <1>2 DEF WaitsAt, Queued

\* The slots in use are those from the head on, each by an entry that waits with
\* the priority of its ring; the other slots are free, so that no array keeps a
\* finished command alive, and a ring that has drained keeps no array.
THEOREM CleanTheorem == Spec => []RingsClean
  BY LaneTheorem, InvClean, PTL
=============================================================================
