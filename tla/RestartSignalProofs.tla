-------------------------- MODULE RestartSignalProofs --------------------------
(***************************************************************************)
(* Proofs about RestartSignal, for every number of attempts: a signal in   *)
(* flight is fenced, a fence without one is owned by an attempt that goes  *)
(* on, every sentinel that was written is in the hands of an attempt, and  *)
(* no attempt emits past a continuation that was accepted.                 *)
(*                                                                         *)
(* A turn of the event loop is composed of operators on a record, so the   *)
(* invariant is stated of a record (Good) and each operator has a lemma.   *)
(* Within the turn of an attempt p the invariant is weaker (Mid): p may    *)
(* own the fence before it says what it waits for.                         *)
(***************************************************************************)
EXTENDS RestartSignal, FiniteSetTheorems, TLAPS

Fields == {"fence", "draining", "suspended", "lease", "signal", "auth", "handlers",
           "slot", "run", "written", "spent"}
PursuitFields == {"kind", "poll", "cancelled", "at", "checked", "lease", "owns",
                  "live", "stale", "next", "held"}

Shaped(s) ==
    /\ DOMAIN s = Fields
    /\ DOMAIN s.run = Pursuits
    /\ \A p \in Pursuits : DOMAIN s.run[p] = PursuitFields

\* The lease and the fence agree, a signal is fenced, a drain needs no fence.
Fenced(s) ==
    /\ s.lease # 0 => s.fence = s.lease
    /\ s.signal => s.draining \/ (s.fence # 0 /\ s.handlers > 0)
    /\ s.draining => s.fence = 0
    /\ s.handlers \in Nat

Awaits(s, p) == s.run[p].at \in {"caller", "parked", "replacing"}
Owner(s, p) == s.run[p].live /\ ~s.run[p].stale /\ s.run[p].owns /\ s.run[p].lease = s.fence

OwnedBy(s, P) ==
    s.fence # 0 /\ ~s.signal => \E q \in P : Awaits(s, q) /\ Owner(s, q)

\* Only an attempt that a lifecycle reset found inside its body is stale.
Calm(s, P) == \A q \in P : s.run[q].stale => Awaits(s, q)

Kept(s, P) == Shaped(s) /\ Fenced(s) /\ OwnedBy(s, P) /\ Calm(s, P)

Good(s) == Kept(s, Pursuits)
Left(s, p) == Kept(s, Pursuits \ {p})
Mid(s, p) == Left(s, p) \/ (Shaped(s) /\ Fenced(s) /\ Calm(s, Pursuits \ {p}) /\ Owner(s, p))
AllGood(S) == \A e \in S : Good(e)

\* Nobody needs to own the fence.
Settled(s) == Shaped(s) /\ Fenced(s) /\ (s.fence = 0 \/ s.signal)

\* The inductive invariant.
FenceInv == Good(Now)

-----------------------------------------------------------------------------
(* Records *)

LEMMA AtMostTwoMore ==
    ASSUME NEW L, NEW x, NEW y, NEW n \in Nat, IsFiniteSet(L), Cardinality(L) <= n
    PROVE  /\ IsFiniteSet((L \cup {x}) \cup {y})
           /\ Cardinality((L \cup {x}) \cup {y}) <= n + 2
  <1> DEFINE K == L \cup {x}
  <1>1. Cardinality(L) \in Nat
    BY FS_CardinalityType
  <1>2. IsFiniteSet(K) /\ Cardinality(K) <= n + 1
    <2>1. Cardinality(K) = IF x \in L THEN Cardinality(L) ELSE Cardinality(L) + 1
      BY FS_AddElement, Zenon
    <2>2. IsFiniteSet(K)
      BY FS_AddElement, Zenon
    <2> QED
      BY <1>1, <2>1, <2>2
  <1> HIDE DEF K
  <1>3. Cardinality(K) \in Nat
    BY <1>2, FS_CardinalityType
  <1>4. Cardinality(K \cup {y}) = IF y \in K THEN Cardinality(K) ELSE Cardinality(K) + 1
    BY <1>2, FS_AddElement, Zenon
  <1>5. IsFiniteSet(K \cup {y})
    BY <1>2, FS_AddElement, Zenon
  <1>6. IsFiniteSet(K \cup {y}) /\ Cardinality(K \cup {y}) <= n + 2
    BY <1>2, <1>3, <1>4, <1>5
  <1> QED
    BY <1>6 DEF K

\* A new lease is not the value for "none": there are more generations than uses.
LEMMA FreshFacts == ASSUME NEW s PROVE Fresh(s) # 0
  <1> DEFINE L == {s.run[p].lease : p \in Pursuits}
             U == {s.fence, s.lease} \cup L
             n == Cardinality(Pursuits)
  <1>1. IsFiniteSet(Pursuits) /\ n \in Nat
    BY RestartAssumption, FS_CardinalityType
  <1>2. IsFiniteSet(L) /\ Cardinality(L) <= n /\ Cardinality(L) \in Nat
    <2> DEFINE g == [p \in Pursuits |-> s.run[p].lease]
    <2>1. g \in Surjection(Pursuits, L)
      BY DEF Surjection
    <2> QED
      BY <1>1, <2>1, FS_Surjection, FS_CardinalityType
  <1>3. IsFiniteSet(U) /\ Cardinality(U) <= n + 2
    <2>1. U = (L \cup {s.fence}) \cup {s.lease}
      OBVIOUS
    <2> HIDE DEF L, n
    <2> QED
      BY <1>1, <1>2, <2>1, AtMostTwoMore DEF n
  <1>4. \E k \in 1..(n + 3) : k \notin U
    <2> HIDE DEF U, n
    <2> SUFFICES ASSUME 1..(n + 3) \subseteq U PROVE FALSE
      OBVIOUS
    <2>1. Cardinality(1..(n + 3)) = n + 3
      BY <1>1, FS_Interval
    <2>2. Cardinality(1..(n + 3)) <= Cardinality(U) /\ Cardinality(U) \in Nat
      BY <1>3, FS_Subset, FS_CardinalityType
    <2> QED
      BY <1>1, <1>3, <2>1, <2>2
  <1> QED
    BY <1>1, <1>4 DEF Fresh

\* Fields that the invariant does not read may change.
Alike(s, t) ==
    /\ DOMAIN t = DOMAIN s
    /\ t.fence = s.fence /\ t.lease = s.lease /\ t.signal = s.signal
    /\ t.draining = s.draining /\ t.handlers = s.handlers /\ t.run = s.run

LEMMA AlikeKept ==
    ASSUME NEW s, NEW t, Alike(s, t)
    PROVE  /\ \A P : Kept(s, P) => Kept(t, P)
           /\ \A p : Mid(s, p) => Mid(t, p)
           /\ Shaped(s) => Shaped(t)
           /\ Fenced(s) => Fenced(t)
  BY DEF Alike, Kept, Mid, Left, Shaped, Fenced, OwnedBy, Calm, Awaits, Owner

LEMMA GoodIsMid == ASSUME NEW s, NEW p \in Pursuits, Good(s) PROVE Mid(s, p)
  BY DEF Good, Mid, Left, Kept, OwnedBy, Calm

LEMMA SettledIsKept ==
    ASSUME NEW s, NEW P, Settled(s), Calm(s, P) PROVE Kept(s, P)
  BY DEF Settled, Kept, OwnedBy

LEMMA NowShaped == ASSUME FenceInv PROVE Shaped(Now)
  BY DEF FenceInv, Good, Kept

LEMMA CommitGood == ASSUME NEW s, Good(s), Commit(s) PROVE FenceInv'
  BY DEF Good, Kept, Calm, Shaped, Fenced, OwnedBy, Awaits, Owner, Commit, FenceInv, Now, Fields

LEMMA TurnGood == ASSUME NEW S, AllGood(S), Turn(S) PROVE FenceInv'
  BY CommitGood DEF Turn, AllGood

\* An attempt that is not inside its body may change what it is about to do.
LEMMA OutsideGood ==
    ASSUME NEW s, NEW p \in Pursuits, Good(s), ~Awaits(s, p),
           NEW r, DOMAIN r = PursuitFields, ~r.stale,
           r.at \notin {"caller", "parked", "replacing"}
    PROVE  LET t == [s EXCEPT !.run[p] = r] IN Good(t) /\ ~Awaits(t, p) /\ t.run[p] = r
  BY DEF Good, Kept, Calm, Shaped, Fenced, OwnedBy, Awaits, Owner, Fields

-----------------------------------------------------------------------------
(* Emission *)

LEMMA ClearLeaseSettled ==
    ASSUME NEW s, Shaped(s), Fenced(s), ~s.signal
    PROVE  /\ Settled(ClearLease(s)) /\ ClearLease(s).fence = 0
           /\ ClearLease(s).run = s.run
  BY DEF Settled, Shaped, Fenced, ClearLease, Fields

LEMMA ClearPollsFacts ==
    ASSUME NEW s, Shaped(s)
    PROVE  LET c == ClearPolls(s) IN
           /\ Shaped(c)
           /\ c.fence = s.fence /\ c.lease = s.lease /\ c.signal = s.signal
           /\ c.draining = s.draining /\ c.handlers = s.handlers
           /\ \A p \in Pursuits :
                 /\ Awaits(s, p) <=> Awaits(c, p)
                 /\ s.run[p].at = "idle" => c.run[p] = NoPursuit
                 /\ s.run[p].at # "idle" =>
                       /\ c.run[p].live = s.run[p].live /\ c.run[p].stale = s.run[p].stale
                       /\ c.run[p].owns = s.run[p].owns /\ c.run[p].lease = s.run[p].lease
  BY DEF Shaped, ClearPolls, Fields, PursuitFields, NoPursuit, Awaits

LEMMA ClearPollsKept ==
    ASSUME NEW s, NEW P \in SUBSET Pursuits, Shaped(s)
    PROVE  /\ Calm(s, P) => Calm(ClearPolls(s), P)
           /\ Kept(s, P) => Kept(ClearPolls(s), P)
  <1> DEFINE c == ClearPolls(s)
  <1>1. /\ Shaped(c)
        /\ c.fence = s.fence /\ c.lease = s.lease /\ c.signal = s.signal
        /\ c.draining = s.draining /\ c.handlers = s.handlers
    BY ClearPollsFacts
  <1>2. \A p \in Pursuits :
           /\ Awaits(s, p) <=> Awaits(c, p)
           /\ Awaits(s, p) => (Owner(s, p) => Owner(c, p))
           /\ c.run[p].stale => s.run[p].stale
    BY <1>1, ClearPollsFacts DEF Awaits, Owner, NoPursuit
  <1> HIDE DEF c
  <1>3. Calm(s, P) => Calm(c, P)
    BY <1>2 DEF Calm
  <1>4. Fenced(s) => Fenced(c)
    BY <1>1 DEF Fenced
  <1>5. OwnedBy(s, P) => OwnedBy(c, P)
    BY <1>1, <1>2 DEF OwnedBy
  <1> QED
    BY <1>1, <1>3, <1>4, <1>5 DEF Kept, c

\* emitGatewayRestart with a lease, or over a signal in flight.
LEMMA EmitFencedSettled ==
    ASSUME NEW s, Shaped(s), Fenced(s), s.signal \/ s.lease # 0,
           NEW e \in EmitFenced(s)
    PROVE  Settled(e) /\ e.run = ClearPolls(s).run
  <1> DEFINE c == [ClearPolls(s) EXCEPT !.slot = EmptySlot]
  <1>1. Shaped(c) /\ Fenced(c) /\ c.signal = s.signal /\ c.fence = s.fence
        /\ c.draining = s.draining /\ c.handlers = s.handlers /\ c.run = ClearPolls(s).run
        /\ c.lease = s.lease
    BY ClearPollsFacts DEF Shaped, Fenced, Fields
  <1>2. PICK x \in EmitSignal(s) : e = IF x.signal THEN x ELSE ClearLease(x)
    BY DEF EmitFenced
  <1> DEFINE f == Faulty(c)
             g == [c EXCEPT !.signal = TRUE, !.auth = @ + 1, !.handlers = @ + 1]
  <1>3. \/ s.signal /\ x = c
        \/ ~s.signal /\ (x = g \/ x = f)
    BY <1>2, Zenon DEF EmitSignal
  <1> HIDE DEF c
  <1>4. CASE s.signal /\ x = c
    BY <1>1, <1>2, <1>4 DEF Settled
  <1>5. CASE ~s.signal /\ x = g
    <2>1. Shaped(g) /\ Fenced(g) /\ g.signal /\ g.run = c.run
      BY <1>1, <1>5 DEF Shaped, Fenced, Fields
    <2> QED
      BY <1>1, <1>2, <1>5, <2>1 DEF Settled
  <1>6. CASE ~s.signal /\ x = f
    <2>1. Alike(c, f)
      BY <1>1 DEF Alike, Faulty, Shaped, Fields
    <2>2. Shaped(f) /\ Fenced(f) /\ ~f.signal /\ f.run = c.run
      BY <1>1, <1>6, <2>1, AlikeKept DEF Alike
    <2> HIDE DEF f
    <2>3. Settled(ClearLease(f)) /\ ClearLease(f).run = f.run
      BY <2>2, ClearLeaseSettled
    <2> QED
      BY <1>1, <1>2, <1>6, <2>2, <2>3
  <1> QED
    BY <1>3, <1>4, <1>5, <1>6

\* beginGatewayRestartSignalAdmission
LEMMA BeginFacts ==
    ASSUME NEW s, Shaped(s), Fenced(s), CanBegin(s)
    PROVE  LET b == Begin(s) IN
           /\ Shaped(b) /\ Fenced(b) /\ b.lease # 0 /\ b.fence = b.lease
           /\ b.run = s.run /\ b.signal = s.signal /\ b.draining = s.draining
  <1>1. Fresh(s) # 0
    BY FreshFacts
  <1>2. ASSUME NEW n, n # 0
        PROVE  LET b == [s EXCEPT !.fence = n, !.lease = n] IN
               /\ Shaped(b) /\ Fenced(b) /\ b.lease # 0 /\ b.fence = b.lease
               /\ b.run = s.run /\ b.signal = s.signal /\ b.draining = s.draining
    BY <1>2 DEF Shaped, Fenced, CanBegin, Fields
  <1> QED
    BY <1>1, <1>2 DEF Begin

\* requestGatewayRestartWithSignalAdmission leaves a signal or an open gateway.
LEMMA RequestEmissionSettled ==
    ASSUME NEW s, Shaped(s), Fenced(s), NEW e \in RequestEmission(s)
    PROVE  Settled(e) /\ e.run \in {s.run, ClearPolls(s).run}
  <1>1. CASE s.lease # 0
    BY <1>1, EmitFencedSettled DEF RequestEmission
  <1>2. CASE s.lease = 0
    <2> DEFINE o == IF s.signal THEN s ELSE Reopen(s)
    <2>1. Settled(o) /\ o.run = s.run
      BY <1>2 DEF Settled, Shaped, Fenced, Reopen, Fields
    <2>2. e \in IF CanBegin(o) THEN EmitFenced(Begin(o)) ELSE {o}
      BY <1>2 DEF RequestEmission
    <2> HIDE DEF o
    <2>3. CASE CanBegin(o)
      <3> DEFINE b == Begin(o)
      <3>1. Shaped(b) /\ Fenced(b) /\ b.lease # 0 /\ b.run = o.run
        BY <2>1, <2>3, BeginFacts DEF Settled
      <3>2. ClearPolls(b).run = ClearPolls(s).run
        BY <2>1, <3>1 DEF ClearPolls, Shaped, Fields
      <3> QED
        BY <2>2, <2>3, <3>1, <3>2, EmitFencedSettled
    <2>4. CASE ~CanBegin(o)
      BY <2>1, <2>2, <2>4
    <2> QED
      BY <2>3, <2>4
  <1> QED
    BY <1>1, <1>2

-----------------------------------------------------------------------------
(* The turn of an attempt *)

\* rollbackFence: what the attempt owned of the fence is gone.
LEMMA RollbackLeft ==
    ASSUME NEW s, NEW p \in Pursuits, Mid(s, p)
    PROVE  Left(RollbackFence(s, p), p)
  <1>1. Shaped(s) /\ Fenced(s) /\ Calm(s, Pursuits \ {p})
    BY DEF Mid, Left, Kept
  <1>2. CASE s.signal
    BY <1>1, <1>2 DEF RollbackFence, Left, Kept, OwnedBy
  <1>3. CASE ~s.signal /\ ~s.run[p].owns
    <2>1. Left(s, p)
      BY <1>3 DEF Mid, Owner
    <2> QED
      BY <1>3, <2>1 DEF RollbackFence, Left, Kept, Shaped, Fenced, OwnedBy, Calm,
         Awaits, Owner, Fields, PursuitFields
  <1>4. CASE ~s.signal /\ s.run[p].owns
    <2> DEFINE r == s.run[p]
               t == [s EXCEPT !.run[p].live = FALSE,
                              !.fence = IF @ = r.lease THEN 0 ELSE @,
                              !.lease = IF @ = r.lease THEN 0 ELSE @]
    <2>1. /\ Shaped(t) /\ t.signal = s.signal /\ t.draining = s.draining
          /\ t.handlers = s.handlers
          /\ t.fence = (IF s.fence = r.lease THEN 0 ELSE s.fence)
          /\ t.lease = (IF s.lease = r.lease THEN 0 ELSE s.lease)
          /\ \A q \in Pursuits \ {p} : t.run[q] = s.run[q]
      BY <1>1 DEF Shaped, Fields, PursuitFields
    <2>2. RollbackFence(s, p) = t
      BY <1>4 DEF RollbackFence
    <2> HIDE DEF t
    <2>3. Fenced(t)
      BY <1>1, <1>4, <2>1 DEF Fenced
    <2>4. Calm(t, Pursuits \ {p})
      BY <1>1, <2>1 DEF Calm, Awaits
    <2>5. OwnedBy(t, Pursuits \ {p})
      BY <1>4, <2>1 DEF Mid, Left, Kept, OwnedBy, Awaits, Owner
    <2> QED
      BY <2>1, <2>2, <2>3, <2>4, <2>5 DEF Left, Kept
  <1> QED
    BY <1>2, <1>3, <1>4

\* The attempt is over: it owned nothing any more.
LEMMA FinishGood ==
    ASSUME NEW s, NEW p \in Pursuits, Left(s, p), NEW a
    PROVE  Good(Finish(s, p, a))
  <1>1. PICK r : /\ \/ r = NoPursuit
                    \/ r = [NoPursuit EXCEPT !.kind = s.run[p].kind, !.poll = TRUE]
                 /\ Finish(s, p, a) = [s EXCEPT !.run[p] = r]
    BY DEF Finish
  <1>2. DOMAIN r = PursuitFields /\ r.stale = FALSE
    <2>1. DOMAIN NoPursuit = PursuitFields /\ NoPursuit.stale = FALSE
      BY DEF NoPursuit, PursuitFields
    <2> QED
      BY <1>1, <2>1 DEF PursuitFields
  <1> QED
    BY <1>1, <1>2 DEF Left, Good, Kept, Shaped, Fenced, OwnedBy, Calm, Awaits, Owner, Fields

LEMMA BailGood ==
    ASSUME NEW s, NEW p \in Pursuits, Mid(s, p)
    PROVE  Good(Bail(s, p))
  <1> DEFINE t == [s EXCEPT !.written = @ \ {p}]
  <1>1. Shaped(s)
    BY DEF Mid, Left, Kept
  <1>2. Alike(s, t)
    BY <1>1 DEF Alike, Shaped, Fields
  <1>3. Mid(t, p)
    BY <1>2, AlikeKept
  <1> HIDE DEF t
  <1>4. Good(Finish(RollbackFence(t, p), p, FALSE))
    BY <1>3, RollbackLeft, FinishGood
  <1> QED
    BY <1>4 DEF Bail, t

\* The attempt emits, or does not, and lets go of what nobody emitted for.
LEMMA EmissionGood ==
    ASSUME NEW s, NEW p \in Pursuits, Mid(s, p)
    PROVE  AllGood(Emission(s, p))
  <1> DEFINE c == [s EXCEPT !.slot.key = NoKey, !.written = @ \ {p}]
  <1>1. Shaped(s)
    BY DEF Mid, Left, Kept
  <1>2. Alike(s, c)
    BY <1>1 DEF Alike, Shaped, Fields
  <1>3. Mid(c, p)
    BY <1>2, AlikeKept
  <1> HIDE DEF c
  <1>4. Shaped(c) /\ Fenced(c) /\ Calm(c, Pursuits \ {p})
    BY <1>3 DEF Mid, Left, Kept
  <1>5. ASSUME NEW e \in RequestEmission(c) PROVE Mid(e, p)
    <2>1. Settled(e) /\ e.run \in {c.run, ClearPolls(c).run}
      BY <1>4, <1>5, RequestEmissionSettled
    <2>2. Calm(ClearPolls(c), Pursuits \ {p})
      BY <1>4, ClearPollsKept
    <2>3. Calm(e, Pursuits \ {p})
      BY <1>4, <2>1, <2>2 DEF Calm, Awaits
    <2> QED
      BY <2>1, <2>3, SettledIsKept DEF Mid, Left
  <1>6. ASSUME NEW e \in ReloadEmission(c, p) PROVE Mid(e, p)
    <2>1. e \in RequestEmission(c) \/ e = c \/ e = Faulty(c)
      BY <1>6 DEF ReloadEmission
    <2>2. Alike(c, Faulty(c))
      BY <1>4 DEF Alike, Faulty, Shaped, Fields
    <2>3. Mid(Faulty(c), p)
      BY <1>3, <2>2, AlikeKept
    <2> QED
      BY <1>3, <1>5, <2>1, <2>3
  <1>7. ASSUME NEW e, Mid(e, p) PROVE Good(Finish(RollbackFence(e, p), p, TRUE))
    BY <1>7, RollbackLeft, FinishGood
  <1>8. ASSUME NEW x \in Emission(s, p)
        PROVE  \E e : Mid(e, p) /\ x = Finish(RollbackFence(e, p), p, TRUE)
    <2>1. PICK e \in IF s.run[p].kind = "reload" THEN ReloadEmission(c, p)
                                                ELSE RequestEmission(c) :
              x = Finish(RollbackFence(e, p), p, TRUE)
      BY <1>8, Zenon DEF Emission, c
    <2> QED
      BY <1>5, <1>6, <2>1
  <1> QED
    BY <1>7, <1>8 DEF AllGood

\* An attempt that awaits something inside its body keeps what it owns.
LEMMA AwaitGood ==
    ASSUME NEW s, NEW p \in Pursuits, Mid(s, p), NEW r,
           DOMAIN r = PursuitFields,
           r.at \in {"caller", "parked", "replacing"},
           r.lease = s.run[p].lease, r.owns = s.run[p].owns,
           r.live = s.run[p].live, r.stale = s.run[p].stale
    PROVE  Good([s EXCEPT !.run[p] = r])
  <1> DEFINE t == [s EXCEPT !.run[p] = r]
  <1>1. Shaped(s) /\ Fenced(s) /\ Calm(s, Pursuits \ {p})
    BY DEF Mid, Left, Kept
  <1>2. /\ Shaped(t) /\ t.run[p] = r /\ \A q \in Pursuits \ {p} : t.run[q] = s.run[q]
        /\ t.fence = s.fence /\ t.lease = s.lease /\ t.signal = s.signal
        /\ t.draining = s.draining /\ t.handlers = s.handlers
    BY <1>1 DEF Shaped, Fields
  <1> HIDE DEF t
  <1>3. Fenced(t)
    BY <1>1, <1>2 DEF Fenced
  <1>4. Calm(t, Pursuits)
    BY <1>1, <1>2 DEF Calm, Awaits
  <1>5. Awaits(t, p) /\ (Owner(s, p) => Owner(t, p))
    BY <1>2 DEF Awaits, Owner
  <1>6. \A q \in Pursuits \ {p} : Awaits(s, q) /\ Owner(s, q) => Awaits(t, q) /\ Owner(t, q)
    BY <1>2 DEF Awaits, Owner
  <1>7. OwnedBy(t, Pursuits)
    <2>1. CASE Left(s, p)
      BY <1>2, <1>6, <2>1 DEF Left, Kept, OwnedBy
    <2>2. CASE Owner(s, p)
      BY <1>5, <2>2 DEF OwnedBy
    <2> QED
      BY <2>1, <2>2 DEF Mid
  <1>8. Good(t)
    BY <1>2, <1>3, <1>4, <1>7 DEF Good, Kept
  <1> QED
    BY <1>8 DEF t

LEMMA TakeParkedGood ==
    ASSUME NEW s, NEW p \in Pursuits, Mid(s, p)
    PROVE  AllGood(TakeParked(s, p))
  <1> DEFINE h == s.slot.hooks
             a == IF s.run[p].held = NoHook THEN "parked" ELSE "replacing"
             t == [s EXCEPT !.slot.hooks = NoHook, !.run[p].next = h, !.run[p].at = a]
             u == [s EXCEPT !.slot.hooks = NoHook]
             r == [s.run[p] EXCEPT !.next = h, !.at = a]
  <1>1. TakeParked(s, p) = IF h = NoHook THEN Emission(s, p) ELSE {t}
    BY DEF TakeParked
  <1>2. Shaped(s)
    BY DEF Mid, Left, Kept
  <1>3. Good(t)
    <2>1. Alike(s, u)
      BY <1>2 DEF Alike, Shaped, Fields
    <2>2. Mid(u, p) /\ u.run = s.run
      BY <2>1, AlikeKept DEF Alike
    <2>3. /\ DOMAIN r = PursuitFields /\ r.at \in {"caller", "parked", "replacing"}
          /\ r.lease = s.run[p].lease /\ r.owns = s.run[p].owns
          /\ r.live = s.run[p].live /\ r.stale = s.run[p].stale
      BY <1>2 DEF Shaped, PursuitFields
    <2>4. t = [u EXCEPT !.run[p] = r]
      BY <1>2 DEF Shaped, Fields, PursuitFields
    <2> HIDE DEF t, u, r
    <2>5. Good([u EXCEPT !.run[p] = r])
      BY <2>2, <2>3, AwaitGood
    <2> QED
      BY <2>4, <2>5
  <1> HIDE DEF t
  <1> QED
    BY <1>1, <1>3, EmissionGood DEF AllGood

LEMMA BodyGood ==
    ASSUME NEW s, NEW p \in Pursuits, Mid(s, p)
    PROVE  AllGood(Body(s, p))
  <1> DEFINE r == [s.run[p] EXCEPT !.at = "caller"]
  <1>1. Shaped(s)
    BY DEF Mid, Left, Kept
  <1>2. /\ DOMAIN r = PursuitFields /\ r.at \in {"caller", "parked", "replacing"}
        /\ r.lease = s.run[p].lease /\ r.owns = s.run[p].owns
        /\ r.live = s.run[p].live /\ r.stale = s.run[p].stale
    BY <1>1 DEF Shaped, PursuitFields
  <1>3. [s EXCEPT !.run[p].at = "caller"] = [s EXCEPT !.run[p] = r]
    BY <1>1 DEF Shaped, Fields, PursuitFields
  <1> HIDE DEF r
  <1>4. Good([s EXCEPT !.run[p] = r])
    BY <1>2, AwaitGood
  <1> QED
    BY <1>3, <1>4, TakeParkedGood DEF Body, AllGood

\* The lease is new, and the attempt's own.
LEMMA LeasedMid ==
    ASSUME NEW s, NEW p \in Pursuits, Good(s), ~Awaits(s, p), Open(s)
    PROVE  Mid(Leased(s, p), p)
  <1>1. Shaped(s) /\ Fenced(s) /\ Calm(s, Pursuits)
    BY DEF Good, Kept
  <1>2. s.lease = 0 /\ CanBegin(s) /\ ~s.run[p].stale
    BY <1>1 DEF Fenced, Open, CanBegin, Calm
  <1> DEFINE b == Begin(s)
             t == [b EXCEPT !.run[p].lease = b.lease, !.run[p].owns = (s.lease = 0),
                            !.run[p].live = TRUE]
  <1>3. Leased(s, p) = t
    BY <1>2 DEF Leased
  <1>4. /\ Shaped(b) /\ Fenced(b) /\ b.lease # 0 /\ b.fence = b.lease
        /\ b.run = s.run /\ b.signal = s.signal /\ b.draining = s.draining
    BY <1>1, <1>2, BeginFacts
  <1> HIDE DEF b
  <1>5. /\ Shaped(t) /\ t.fence = b.fence /\ t.lease = b.lease /\ t.signal = b.signal
        /\ t.draining = b.draining /\ t.handlers = b.handlers
        /\ \A q \in Pursuits \ {p} : t.run[q] = s.run[q]
    BY <1>4 DEF Shaped, Fields, PursuitFields
  <1>6. Owner(t, p)
    <2>1. t.run[p] = [s.run[p] EXCEPT !.lease = b.lease, !.owns = TRUE, !.live = TRUE]
      BY <1>1, <1>2, <1>4 DEF Shaped, Fields
    <2>2. /\ t.run[p].lease = b.lease /\ t.run[p].owns = TRUE /\ t.run[p].live = TRUE
          /\ t.run[p].stale = s.run[p].stale
      BY <1>1, <2>1 DEF Shaped, PursuitFields
    <2> QED
      BY <1>2, <1>4, <1>5, <2>2 DEF Owner
  <1> HIDE DEF t
  <1>7. Fenced(t)
    BY <1>4, <1>5 DEF Fenced
  <1>8. Calm(t, Pursuits \ {p})
    BY <1>1, <1>5 DEF Calm, Awaits
  <1> QED
    BY <1>3, <1>5, <1>6, <1>7, <1>8 DEF Mid

\* The fields of an attempt that the invariant reads stay as they are.
LEMMA MinorKept ==
    ASSUME NEW s, Shaped(s), NEW p \in Pursuits, NEW r,
           DOMAIN r = PursuitFields, r.at = s.run[p].at,
           r.lease = s.run[p].lease, r.owns = s.run[p].owns,
           r.live = s.run[p].live, r.stale = s.run[p].stale
    PROVE  LET t == [s EXCEPT !.run[p] = r] IN
           /\ Mid(s, p) => Mid(t, p)
           /\ Good(s) => Good(t)
           /\ Awaits(s, p) <=> Awaits(t, p)
           /\ t.draining = s.draining /\ t.fence = s.fence /\ t.suspended = s.suspended
  <1> DEFINE t == [s EXCEPT !.run[p] = r]
  <1>1. /\ Shaped(t) /\ t.run[p] = r /\ \A q \in Pursuits \ {p} : t.run[q] = s.run[q]
        /\ t.fence = s.fence /\ t.lease = s.lease /\ t.signal = s.signal
        /\ t.draining = s.draining /\ t.handlers = s.handlers /\ t.suspended = s.suspended
    BY DEF Shaped, Fields
  <1> HIDE DEF t
  <1>2. Fenced(s) => Fenced(t)
    BY <1>1 DEF Fenced
  <1>3. \A q \in Pursuits : /\ Awaits(s, q) <=> Awaits(t, q)
                            /\ Owner(s, q) <=> Owner(t, q)
                            /\ s.run[q].stale <=> t.run[q].stale
    BY <1>1 DEF Awaits, Owner
  <1>4. \A P \in SUBSET Pursuits : /\ Calm(s, P) => Calm(t, P)
                                   /\ OwnedBy(s, P) => OwnedBy(t, P)
    BY <1>1, <1>3 DEF Calm, OwnedBy
  <1>5. \A P \in SUBSET Pursuits : Kept(s, P) => Kept(t, P)
    BY <1>1, <1>2, <1>4 DEF Kept
  <1>6. Good(s) => Good(t)
    BY <1>5 DEF Good
  <1>7. Mid(s, p) => Mid(t, p)
    BY <1>1, <1>2, <1>3, <1>4, <1>5 DEF Mid, Left
  <1> QED
    BY <1>1, <1>3, <1>6, <1>7 DEF t

LEMMA EnterGood ==
    ASSUME NEW s, NEW p \in Pursuits, Good(s), ~Awaits(s, p), Open(s)
    PROVE  AllGood(Enter(s, p))
  <1>1. CASE s.signal
    <2>1. Left(s, p)
      BY <1>1 DEF Good, Left, Kept, OwnedBy, Calm
    <2> QED
      BY <1>1, <2>1, FinishGood DEF Enter, AllGood
  <1>2. CASE ~s.signal
    <2> DEFINE e == Leased(s, p)
               r == [e.run[p] EXCEPT !.checked = FALSE]
               b == [e EXCEPT !.run[p].checked = FALSE]
    <2>1. Mid(e, p)
      BY LeasedMid
    <2> HIDE DEF e
    <2>2. Shaped(e)
      BY <2>1 DEF Mid, Left, Kept
    <2>3. Mid(b, p)
      <3>1. b = [e EXCEPT !.run[p] = r]
        BY <2>2 DEF Shaped, Fields, PursuitFields
      <3>2. /\ DOMAIN r = PursuitFields /\ r.at = e.run[p].at
            /\ r.lease = e.run[p].lease /\ r.owns = e.run[p].owns
            /\ r.live = e.run[p].live /\ r.stale = e.run[p].stale
        BY <2>2 DEF Shaped, PursuitFields
      <3> HIDE DEF r, b
      <3>3. Mid([e EXCEPT !.run[p] = r], p)
        BY <2>1, <2>2, <3>2, MinorKept
      <3> QED
        BY <3>1, <3>3
    <2>4. Good(Finish(RollbackFence(e, p), p, FALSE))
      BY <2>1, RollbackLeft, FinishGood
    <2>5. AllGood(Body(b, p))
      BY <2>3, BodyGood
    <2>6. ASSUME NEW x \in Enter(s, p)
          PROVE  x \in Body(b, p) \/ x = Finish(RollbackFence(e, p), p, FALSE)
      <3>1. Enter(s, p) = UNION {Body([d EXCEPT !.run[p].checked = FALSE], p)
                                  \cup (IF d.run[p].checked
                                        THEN {Finish(RollbackFence(d, p), p, FALSE)} ELSE {}) :
                                  d \in {Leased(s, p)}}
        BY <1>2, Zenon DEF Enter
      <3>2. x \in Body(b, p) \cup (IF e.run[p].checked
                                   THEN {Finish(RollbackFence(e, p), p, FALSE)} ELSE {})
        BY <2>6, <3>1, Zenon DEF e, b
      <3> QED
        BY <3>2, Zenon
    <2> QED
      BY <2>4, <2>5, <2>6 DEF AllGood
  <1> QED
    BY <1>1, <1>2

LEMMA AdmissionGood ==
    ASSUME NEW s, NEW p \in Pursuits, Good(s), ~Awaits(s, p)
    PROVE  AllGood(Admission(s, p))
  <1>1. CASE s.draining
    <2>1. Left(s, p)
      BY <1>1 DEF Good, Left, Kept, OwnedBy, Calm, Fenced
    <2> QED
      BY <1>1, <2>1, FinishGood DEF Admission, AllGood
  <1>2. CASE ~s.draining /\ Open(s)
    BY <1>2, EnterGood DEF Admission
  <1>3. CASE ~s.draining /\ ~Open(s)
    <2> DEFINE r == [s.run[p] EXCEPT !.at = "waiting"]
    <2>1. Shaped(s) /\ ~s.run[p].stale
      BY DEF Good, Kept, Calm
    <2>2. DOMAIN r = PursuitFields /\ ~r.stale /\ r.at \notin {"caller", "parked", "replacing"}
      BY <2>1 DEF Shaped, PursuitFields
    <2>3. [s EXCEPT !.run[p].at = "waiting"] = [s EXCEPT !.run[p] = r]
      BY <2>1 DEF Shaped, Fields, PursuitFields
    <2> HIDE DEF r
    <2>4. Good([s EXCEPT !.run[p] = r])
      BY <2>2, OutsideGood
    <2> QED
      BY <1>3, <2>3, <2>4 DEF Admission, AllGood
  <1> QED
    BY <1>1, <1>2, <1>3

LEMMA AttemptGood ==
    ASSUME NEW s, NEW p \in Pursuits, Good(s), ~Awaits(s, p), NEW checked
    PROVE  AllGood(Attempt(s, p, checked))
  <1> DEFINE t == [s EXCEPT !.run[p].checked = checked]
             r == [s.run[p] EXCEPT !.checked = checked]
  <1>1. Shaped(s)
    BY DEF Good, Kept
  <1>2. t = [s EXCEPT !.run[p] = r]
    BY <1>1 DEF Shaped, Fields, PursuitFields
  <1>3. /\ DOMAIN r = PursuitFields /\ r.at = s.run[p].at
        /\ r.lease = s.run[p].lease /\ r.owns = s.run[p].owns
        /\ r.live = s.run[p].live /\ r.stale = s.run[p].stale
    BY <1>1 DEF Shaped, PursuitFields
  <1> HIDE DEF t, r
  <1>4. Good(t) /\ ~Awaits(t, p)
    BY <1>1, <1>2, <1>3, MinorKept
  <1>5. Attempt(s, p, checked) = Admission(t, p)
    <2>1. Attempt(s, p, checked) = UNION {Admission(u, p) : u \in {t}}
      BY Zenon DEF Attempt, t
    <2> QED
      BY <2>1, Zenon
  <1> QED
    BY <1>4, <1>5, AdmissionGood

\* An attempt that polls, or is cancelled, outside its body.
LEMMA StoppedGood ==
    ASSUME NEW s, NEW p \in Pursuits, Good(s)
    PROVE  Good(Stopped(s, p)) /\ (~Awaits(s, p) => ~Awaits(Stopped(s, p), p))
  <1>1. Shaped(s)
    BY DEF Good, Kept
  <1>2. CASE s.run[p].at = "idle"
    <2> DEFINE r == [NoPursuit EXCEPT !.kind = s.run[p].kind]
    <2>1. /\ DOMAIN r = PursuitFields /\ r.stale = FALSE
          /\ r.at \notin {"caller", "parked", "replacing"}
      BY DEF NoPursuit, PursuitFields
    <2>2. ~Awaits(s, p)
      BY <1>2 DEF Awaits
    <2> HIDE DEF r
    <2>3. LET t == [s EXCEPT !.run[p] = r] IN Good(t) /\ ~Awaits(t, p)
      BY <2>1, <2>2, OutsideGood
    <2> QED
      BY <1>2, <2>3 DEF Stopped, r
  <1>3. CASE s.run[p].at # "idle"
    <2> DEFINE r == [s.run[p] EXCEPT !.poll = FALSE]
    <2>1. /\ DOMAIN r = PursuitFields /\ r.at = s.run[p].at
          /\ r.lease = s.run[p].lease /\ r.owns = s.run[p].owns
          /\ r.live = s.run[p].live /\ r.stale = s.run[p].stale
      BY <1>1 DEF Shaped, PursuitFields
    <2>2. Stopped(s, p) = [s EXCEPT !.run[p] = r]
      BY <1>1, <1>3 DEF Stopped, Shaped, Fields, PursuitFields
    <2> HIDE DEF r
    <2> QED
      BY <1>1, <2>1, <2>2, MinorKept
  <1> QED
    BY <1>2, <1>3

LEMMA DeferGood ==
    ASSUME NEW s, NEW p \in Pursuits, Good(s), ~Awaits(s, p), NEW kind
    PROVE  AllGood(Defer(s, p, kind))
  <1> DEFINE r == [NoPursuit EXCEPT !.kind = kind, !.poll = TRUE]
             d == [s EXCEPT !.run[p] = r]
  <1>1. /\ DOMAIN r = PursuitFields /\ r.stale = FALSE
        /\ r.at \notin {"caller", "parked", "replacing"}
    BY DEF NoPursuit, PursuitFields
  <1>2. Defer(s, p, kind) = {d} \cup Attempt(d, p, TRUE)
    <2>1. Defer(s, p, kind) = UNION {{x} \cup Attempt(x, p, TRUE) : x \in {d}}
      BY Zenon DEF Defer, d, r
    <2> QED
      BY <2>1, Zenon
  <1> HIDE DEF r
  <1>3. Good(d) /\ ~Awaits(d, p)
    BY <1>1, OutsideGood
  <1> HIDE DEF d
  <1>4. AllGood(Attempt(d, p, TRUE))
    BY <1>3, AttemptGood
  <1> QED
    BY <1>2, <1>3, <1>4 DEF AllGood

LEMMA UnusedFacts ==
    ASSUME Free # {}
    PROVE  Unused \in Pursuits /\ run[Unused] = NoPursuit
  BY DEF Free, Unused

-----------------------------------------------------------------------------
(* Requests *)

\* A slot that has passed its timer is taken up by an attempt.
LEMMA SlotAttemptGood ==
    ASSUME NEW s, NEW p \in Pursuits, Good(s), s.run[p] = NoPursuit
    PROVE  AllGood(Attempt([s EXCEPT !.run[p].kind = "slot"], p, FALSE))
  <1> DEFINE r == [NoPursuit EXCEPT !.kind = "slot"]
             t == [s EXCEPT !.run[p].kind = "slot"]
  <1>1. /\ DOMAIN r = PursuitFields /\ r.stale = FALSE
        /\ r.at \notin {"caller", "parked", "replacing"}
    BY DEF NoPursuit, PursuitFields
  <1>2. Shaped(s) /\ ~Awaits(s, p)
    BY DEF Good, Kept, Awaits, NoPursuit
  <1>3. t = [s EXCEPT !.run[p] = r]
    BY <1>2 DEF Shaped, Fields
  <1> HIDE DEF r, t
  <1>4. Good(t) /\ ~Awaits(t, p)
    BY <1>1, <1>2, <1>3, OutsideGood
  <1>5. AllGood(Attempt(t, p, FALSE))
    BY <1>4, AttemptGood
  <1> QED
    BY <1>5 DEF t

LEMMA BypassGood ==
    ASSUME NEW s, Good(s), s.run = run, Free # {}, NEW c
    PROVE  AllGood(BypassDeferral(s, c))
  <1> DEFINE a == ClearPolls(s)
             q == IF Preserves(s, c) THEN a
                  ELSE [a EXCEPT !.slot.hooks = c.hooks, !.slot.key = c.key]
  <1>1. Unused \in Pursuits /\ s.run[Unused] = NoPursuit /\ s.run[Unused].at = "idle"
    BY UnusedFacts DEF NoPursuit
  <1>2. Shaped(s)
    BY DEF Good, Kept
  <1>3. Good(a) /\ Shaped(a) /\ a.run[Unused] = NoPursuit
    BY <1>1, <1>2, ClearPollsKept, ClearPollsFacts DEF Good
  <1> HIDE DEF a
  <1>4. Alike(a, q)
    BY <1>3 DEF Alike, Shaped, Fields
  <1>5. BypassDeferral(s, c) = Attempt([q EXCEPT !.run[Unused].kind = "slot"], Unused, FALSE)
    BY DEF BypassDeferral, a
  <1> HIDE DEF q
  <1>6. Good(q) /\ q.run[Unused] = NoPursuit
    BY <1>3, <1>4, AlikeKept DEF Good, Alike
  <1> QED
    BY <1>1, <1>5, <1>6, SlotAttemptGood

LEMMA ScheduledGood ==
    ASSUME NEW s, Good(s), s.run = run, NEW c, Deferred(s) /\ c.skip => Free # {}
    PROVE  AllGood(Scheduled(s, c))
  <1>1. Shaped(s)
    BY DEF Good, Kept
  <1>2. ASSUME NEW x, Alike(s, x) PROVE Good(x)
    BY <1>2, AlikeKept DEF Good
  <1>3. Good([s EXCEPT !.slot = Requested(c)])
    <2>1. Alike(s, [s EXCEPT !.slot = Requested(c)])
      BY <1>1 DEF Alike, Shaped, Fields
    <2> QED
      BY <1>2, <2>1
  <1>4. Good(PullEarlier(s, c))
    <2>1. ASSUME NEW x PROVE Alike(s, [s EXCEPT !.slot = x])
      BY <1>1 DEF Alike, Shaped, Fields
    <2>2. Alike(s, PullEarlier(s, c))
      BY <2>1 DEF PullEarlier
    <2> QED
      BY <1>2, <2>2
  <1>5. Good(Coalesce(s, c))
    <2>1. Alike(s, Coalesce(s, c))
      BY <1>1 DEF Alike, Shaped, Fields, Coalesce
    <2> QED
      BY <1>2, <2>1
  <1>6. ASSUME Deferred(s) /\ c.skip PROVE AllGood(BypassDeferral(s, c))
    BY <1>6, BypassGood
  <1> QED
    BY <1>3, <1>4, <1>5, <1>6 DEF Scheduled, AllGood

-----------------------------------------------------------------------------
(* The steps *)

LEMMA NowFacts ==
    /\ Now.fence = fence /\ Now.draining = draining /\ Now.suspended = suspended
    /\ Now.lease = lease /\ Now.signal = signal /\ Now.handlers = handlers
    /\ Now.run = run /\ Now.auth = auth /\ Now.slot = slot /\ Now.spent = spent
    /\ Now.written = written
    /\ \A p : Awaits(Now, p) <=> Inside(p)
  BY DEF Now, Awaits, Inside

LEMMA InitGood == ASSUME Init PROVE FenceInv
  <1>1. Shaped(Now)
    BY DEF Init, Shaped, Now, Fields, PursuitFields, NoPursuit
  <1>2. Fenced(Now) /\ OwnedBy(Now, Pursuits)
    BY NowFacts DEF Init, Fenced, OwnedBy
  <1>3. Calm(Now, Pursuits)
    BY NowFacts DEF Init, Calm, NoPursuit
  <1> QED
    BY <1>1, <1>2, <1>3 DEF FenceInv, Good, Kept

\* Continuations of an attempt
LEMMA PreparedFacts ==
    ASSUME FenceInv, NEW p \in Pursuits, NEW thrown \in BOOLEAN
    PROVE  Mid(Prepared(p, thrown), p)
  <1> DEFINE r == [run[p] EXCEPT !.next = NoHook, !.held = IF thrown THEN NoHook ELSE run[p].next]
             t == [Now EXCEPT !.run[p] = r]
  <1>1. Shaped(Now) /\ Good(Now) /\ Now.run = run
    BY NowShaped, NowFacts DEF FenceInv
  <1>2. /\ DOMAIN r = PursuitFields /\ r.at = Now.run[p].at
        /\ r.lease = Now.run[p].lease /\ r.owns = Now.run[p].owns
        /\ r.live = Now.run[p].live /\ r.stale = Now.run[p].stale
    BY <1>1 DEF Shaped, PursuitFields
  <1>3. Alike(t, Prepared(p, thrown))
    BY <1>1 DEF Alike, Prepared, Shaped, Fields, PursuitFields
  <1> HIDE DEF r
  <1>4. Mid(t, p)
    BY <1>1, <1>2, GoodIsMid, MinorKept
  <1> QED
    BY <1>3, <1>4, AlikeKept

LEMMA AttemptSteps ==
    ASSUME FenceInv, NEW p \in Pursuits,
           Wake(p) \/ PursuitStep(p) \/ PollIdle(p) \/ PollLate(p) \/ ReloadCancelled(p)
    PROVE  FenceInv'
  <1>1. Shaped(Now) /\ Good(Now) /\ Now.run = run
    BY NowShaped, NowFacts DEF FenceInv
  <1>2. CASE Wake(p)
    <2>1. ~Awaits(Now, p)
      BY <1>2, NowFacts DEF Wake, Inside
    <2>2. AllGood(Admission(Now, p))
      BY <1>1, <2>1, AdmissionGood
    <2> QED
      BY <1>2, <2>2, TurnGood DEF Wake
  <1>3. CASE CallerReturns(p)
    <2>1. Mid(Now, p)
      BY <1>1, GoodIsMid
    <2>2. AllGood(IF Current(Now, p) THEN TakeParked(Now, p) ELSE {Bail(Now, p)})
      BY <2>1, TakeParkedGood, BailGood DEF AllGood
    <2> QED
      BY <1>3, <2>2, TurnGood DEF CallerReturns
  <1>4. CASE ParkedReturns(p)
    <2>1. PICK thrown \in BOOLEAN :
             LET s == Prepared(p, thrown) IN
             Turn(IF Current(s, p) THEN TakeParked(s, p) ELSE {Bail(s, p)})
      BY <1>4, Zenon DEF ParkedReturns
    <2> DEFINE s == Prepared(p, thrown)
    <2>2. Mid(s, p)
      BY PreparedFacts
    <2> HIDE DEF s
    <2>3. AllGood(IF Current(s, p) THEN TakeParked(s, p) ELSE {Bail(s, p)})
      BY <2>2, TakeParkedGood, BailGood DEF AllGood
    <2> QED
      BY <2>1, <2>3, TurnGood DEF s
  <1>5. CASE ReplacedIsTold(p)
    <2> DEFINE s == [Now EXCEPT !.written = @ \ {p}, !.run[p].held = NoHook]
               t == [Now EXCEPT !.run[p] = [run[p] EXCEPT !.held = NoHook]]
    <2>1. /\ DOMAIN [run[p] EXCEPT !.held = NoHook] = PursuitFields
          /\ [run[p] EXCEPT !.held = NoHook].at = Now.run[p].at
          /\ [run[p] EXCEPT !.held = NoHook].lease = Now.run[p].lease
          /\ [run[p] EXCEPT !.held = NoHook].owns = Now.run[p].owns
          /\ [run[p] EXCEPT !.held = NoHook].live = Now.run[p].live
          /\ [run[p] EXCEPT !.held = NoHook].stale = Now.run[p].stale
      BY <1>1 DEF Shaped, PursuitFields
    <2>2. Mid(t, p)
      BY <1>1, <2>1, GoodIsMid, MinorKept
    <2>3. Alike(t, s)
      BY <1>1 DEF Alike, Shaped, Fields, PursuitFields
    <2>4. Mid(s, p)
      BY <2>2, <2>3, AlikeKept
    <2>5. Turn({IF Current(s, p) THEN [s EXCEPT !.run[p].at = "parked"] ELSE Bail(s, p)})
      BY <1>5 DEF ReplacedIsTold
    <2> HIDE DEF s, t
    <2>6. Good([s EXCEPT !.run[p].at = "parked"])
      <3> DEFINE r == [s.run[p] EXCEPT !.at = "parked"]
      <3>1. Shaped(s)
        BY <2>4 DEF Mid, Left, Kept
      <3>2. /\ DOMAIN r = PursuitFields /\ r.at \in {"caller", "parked", "replacing"}
            /\ r.lease = s.run[p].lease /\ r.owns = s.run[p].owns
            /\ r.live = s.run[p].live /\ r.stale = s.run[p].stale
        BY <3>1 DEF Shaped, PursuitFields
      <3>3. [s EXCEPT !.run[p].at = "parked"] = [s EXCEPT !.run[p] = r]
        BY <3>1 DEF Shaped, Fields, PursuitFields
      <3> HIDE DEF r
      <3>4. Good([s EXCEPT !.run[p] = r])
        BY <2>4, <3>2, AwaitGood
      <3> QED
        BY <3>3, <3>4
    <2>7. AllGood({IF Current(s, p) THEN [s EXCEPT !.run[p].at = "parked"] ELSE Bail(s, p)})
      BY <2>4, <2>6, BailGood DEF AllGood
    <2> QED
      BY <2>5, <2>7, TurnGood
  <1>6. CASE PollIdle(p)
    <2>1. ~Awaits(Now, p)
      BY <1>6, NowFacts DEF PollIdle, Inside
    <2>2. AllGood(Attempt(Now, p, TRUE))
      BY <1>1, <2>1, AttemptGood
    <2> QED
      BY <1>6, <2>2, TurnGood DEF PollIdle
  <1>7. CASE PollLate(p)
    <2> DEFINE s == Stopped(Now, p)
    <2>1. Good(s) /\ (run[p].at = "idle" => ~Awaits(s, p))
      BY <1>1, StoppedGood, NowFacts DEF Inside
    <2>2. Turn(IF run[p].at = "idle" THEN Attempt(s, p, FALSE) ELSE {s})
      BY <1>7 DEF PollLate
    <2> HIDE DEF s
    <2>3. AllGood(IF run[p].at = "idle" THEN Attempt(s, p, FALSE) ELSE {s})
      BY <2>1, AttemptGood DEF AllGood
    <2> QED
      BY <2>2, <2>3, TurnGood
  <1>8. CASE ReloadCancelled(p)
    <2> DEFINE r == [run[p] EXCEPT !.cancelled = TRUE]
               s == [Now EXCEPT !.run[p].cancelled = TRUE]
               f == IF Inside(p) THEN RollbackFence(s, p) ELSE s
               t == IF run[p].at = "idle" THEN [f EXCEPT !.run[p] = NoPursuit]
                    ELSE [f EXCEPT !.run[p].poll = FALSE]
    <2>1. /\ DOMAIN r = PursuitFields /\ r.at = Now.run[p].at
          /\ r.lease = Now.run[p].lease /\ r.owns = Now.run[p].owns
          /\ r.live = Now.run[p].live /\ r.stale = Now.run[p].stale
      BY <1>1 DEF Shaped, PursuitFields
    <2>2. s = [Now EXCEPT !.run[p] = r]
      BY <1>1 DEF Shaped, Fields, PursuitFields
    <2>3. Good(s) /\ Shaped(s) /\ s.run[p].at = run[p].at /\ (Awaits(s, p) <=> Inside(p))
          /\ s.run[p].stale = run[p].stale
      <3> HIDE DEF s
      <3>1. Good(s) /\ (Awaits(s, p) <=> Inside(p))
        BY <1>1, <2>1, <2>2, MinorKept, NowFacts
      <3>2. Shaped(s) /\ s.run[p] = r
        BY <1>1, <2>2, <3>1 DEF Good, Kept, Shaped, Fields
      <3> QED
        BY <1>1, <2>1, <3>1, <3>2
    <2>4. Turn({t})
      BY <1>8 DEF ReloadCancelled
    <2> HIDE DEF s, r
    <2>5. CASE run[p].at = "idle"
      <3>1. t = [s EXCEPT !.run[p] = NoPursuit]
        BY <2>5 DEF Inside
      <3>2. DOMAIN NoPursuit = PursuitFields /\ NoPursuit.stale = FALSE
            /\ NoPursuit.at \notin {"caller", "parked", "replacing"}
        BY DEF NoPursuit, PursuitFields
      <3>3. Good(t)
        BY <2>3, <2>5, <3>1, <3>2, OutsideGood DEF Inside
      <3> QED
        BY <2>4, <3>3, TurnGood DEF AllGood
    <2>6. CASE run[p].at # "idle" /\ Inside(p)
      <3> DEFINE g == RollbackFence(s, p)
                 x == [g.run[p] EXCEPT !.poll = FALSE]
      <3>1. Left(g, p)
        BY <2>3, GoodIsMid, RollbackLeft
      <3>2. Shaped(g) /\ g.run[p].at = s.run[p].at
        BY <2>3, <3>1 DEF Left, Kept, RollbackFence, Shaped, Fields, PursuitFields
      <3> HIDE DEF g
      <3>3. /\ DOMAIN x = PursuitFields /\ x.at \in {"caller", "parked", "replacing"}
            /\ x.lease = g.run[p].lease /\ x.owns = g.run[p].owns
            /\ x.live = g.run[p].live /\ x.stale = g.run[p].stale
        BY <2>3, <2>6, <3>2 DEF Shaped, PursuitFields, Inside
      <3>4. [g EXCEPT !.run[p].poll = FALSE] = [g EXCEPT !.run[p] = x]
        BY <3>2 DEF Shaped, Fields, PursuitFields
      <3> HIDE DEF x
      <3>5. Good([g EXCEPT !.run[p] = x])
        BY <3>1, <3>3, AwaitGood DEF Mid
      <3>6. t = [g EXCEPT !.run[p].poll = FALSE]
        BY <2>6 DEF g
      <3> QED
        BY <2>4, <3>4, <3>5, <3>6, TurnGood DEF AllGood
    <2>7. CASE run[p].at # "idle" /\ ~Inside(p)
      <3>1. t = Stopped(s, p)
        BY <2>3, <2>7 DEF Stopped
      <3> HIDE DEF t
      <3>2. AllGood({t})
        BY <2>3, <3>1, StoppedGood DEF AllGood
      <3> QED
        BY <2>4, <3>2, TurnGood
    <2> QED
      BY <2>5, <2>6, <2>7
  <1> QED
    BY <1>2, <1>3, <1>4, <1>5, <1>6, <1>7, <1>8 DEF PursuitStep

LEMMA SettledGood ==
    ASSUME FenceInv, NEW t, Settled(t), t.run = run
    PROVE  Good(t)
  <1>1. Calm(Now, Pursuits) /\ Now.run = run
    BY NowFacts DEF FenceInv, Good, Kept
  <1>2. Calm(t, Pursuits)
    BY <1>1 DEF Calm, Awaits
  <1> QED
    BY <1>2, SettledIsKept DEF Good

\* Requests, timers, and what is outside the restart
LEMMA RequestSteps ==
    ASSUME FenceInv,
           \/ \E c \in Calls : Schedule(c)
           \/ TimerFires \/ ReloadDefers \/ Direct \/ Suspend \/ Resume
    PROVE  FenceInv'
  <1>1. Shaped(Now) /\ Good(Now) /\ Fenced(Now) /\ Calm(Now, Pursuits)
    BY NowShaped DEF FenceInv, Good, Kept
  <1>2. CASE \E c \in Calls : Schedule(c)
    <2>1. PICK c \in Calls : Schedule(c)
      BY <1>2
    <2>2. AllGood(Scheduled(Now, c))
      BY <1>1, <2>1, NowFacts, ScheduledGood DEF Schedule
    <2> QED
      BY <2>1, <2>2, TurnGood DEF Schedule
  <1>3. CASE TimerFires
    <2> DEFINE s == [Now EXCEPT !.slot.at = "preparing", !.slot.skip = FALSE]
    <2>1. Alike(Now, s)
      BY <1>1 DEF Alike, Shaped, Fields
    <2>2. Good(s) /\ s.run = run
      BY <1>1, <2>1, AlikeKept, NowFacts DEF Good, Alike
    <2>3. Unused \in Pursuits /\ s.run[Unused] = NoPursuit /\ ~Awaits(s, Unused)
      BY <1>3, <2>2, UnusedFacts DEF TimerFires, Awaits, NoPursuit
    <2>4. Turn(IF slot.skip
               THEN Attempt([s EXCEPT !.run[Unused].kind = "slot"], Unused, FALSE)
               ELSE Defer(s, Unused, "slot"))
      BY <1>3 DEF TimerFires
    <2> HIDE DEF s
    <2>5. AllGood(Attempt([s EXCEPT !.run[Unused].kind = "slot"], Unused, FALSE))
      BY <2>2, <2>3, SlotAttemptGood
    <2>6. AllGood(Defer(s, Unused, "slot"))
      BY <2>2, <2>3, DeferGood
    <2> QED
      BY <2>4, <2>5, <2>6, TurnGood
  <1>4. CASE ReloadDefers
    <2>1. Unused \in Pursuits /\ ~Awaits(Now, Unused)
      BY <1>4, UnusedFacts, NowFacts DEF ReloadDefers, Awaits, NoPursuit
    <2>2. AllGood(Defer(Now, Unused, "reload"))
      BY <1>1, <2>1, DeferGood
    <2> QED
      BY <1>4, <2>2, TurnGood DEF ReloadDefers
  <1>5. CASE Direct
    <2>1. ASSUME NEW e \in RequestEmission(Now) PROVE Good(e)
      <3>1. Settled(e) /\ e.run \in {Now.run, ClearPolls(Now).run}
        BY <1>1, RequestEmissionSettled
      <3>2. Calm(ClearPolls(Now), Pursuits)
        BY <1>1, ClearPollsKept
      <3>3. Calm(e, Pursuits)
        BY <1>1, <3>1, <3>2 DEF Calm, Awaits
      <3> QED
        BY <3>1, <3>3, SettledIsKept DEF Good
    <2> QED
      BY <1>5, <2>1, TurnGood DEF Direct, AllGood
  <1>6. ASSUME NEW b, Turn({[Now EXCEPT !.suspended = b]}) PROVE FenceInv'
    <2>1. Alike(Now, [Now EXCEPT !.suspended = b])
      BY <1>1 DEF Alike, Shaped, Fields
    <2>2. Good([Now EXCEPT !.suspended = b])
      BY <1>1, <2>1, AlikeKept DEF Good
    <2>3. AllGood({[Now EXCEPT !.suspended = b]})
      BY <2>2 DEF AllGood
    <2> QED
      BY <1>6, <2>3, TurnGood
  <1> QED
    BY <1>2, <1>3, <1>4, <1>5, <1>6 DEF Suspend, Resume

\* The run loop
LEMMA HandlerSteps ==
    ASSUME FenceInv,
           \/ HandlerStep \/ HandlerFails \/ OutsideSignal
           \/ AuthorizationExpires \/ LifecycleReset
    PROVE  FenceInv'
  <1>1. Shaped(Now) /\ Good(Now) /\ Fenced(Now) /\ Calm(Now, Pursuits) /\ Now.run = run
    BY NowShaped, NowFacts DEF FenceInv, Good, Kept
  <1>2. ASSUME NEW s, Good(s), Turn({s}) PROVE FenceInv'
    BY <1>2, TurnGood DEF AllGood
  <1>3. ASSUME handlers > 0
        PROVE  /\ Settled(Handled(MarkHandled(Now)))
               /\ Handled(MarkHandled(Now)).run = run
    BY <1>1, <1>3, NowFacts DEF Settled, Shaped, Fenced, Handled, MarkHandled, ClearLease, Fields
  <1>4. CASE HandleAuthorized
    <2> DEFINE t == Handled(MarkHandled(Drain([Now EXCEPT !.auth = @ - 1])))
    <2>1. handlers > 0 /\ Turn({t})
      BY <1>4 DEF HandleAuthorized
    <2>2. Settled(t) /\ t.run = run
      BY <1>1, <2>1, NowFacts DEF Settled, Shaped, Fenced, Handled, MarkHandled, ClearLease,
         Drain, Fields
    <2> HIDE DEF t
    <2> QED
      BY <1>2, <2>1, <2>2, SettledGood
  <1>5. CASE HandleRefused
    BY <1>2, <1>3, <1>5, SettledGood DEF HandleRefused
  <1>6. CASE HandleOutside
    <2> DEFINE s == Handled(MarkHandled(Now))
    <2>1. handlers > 0 /\ Turn(Scheduled(s, PlainCall))
      BY <1>6 DEF HandleOutside
    <2>2. Good(s) /\ s.run = run
      BY <1>3, <2>1, SettledGood
    <2>3. ~PlainCall.skip
      BY DEF PlainCall
    <2> HIDE DEF s
    <2> QED
      BY <2>1, <2>2, <2>3, ScheduledGood, TurnGood
  <1>7. CASE HandlerFails
    <2> DEFINE s == Handled(MarkHandled(Now))
    <2>1. handlers > 0 /\ Turn({Faulty(s)})
      BY <1>7 DEF HandlerFails
    <2>2. Good(s)
      BY <1>3, <2>1, SettledGood
    <2> HIDE DEF s
    <2>3. Alike(s, Faulty(s))
      BY <2>2 DEF Alike, Faulty, Good, Kept, Shaped, Fields
    <2> QED
      BY <1>2, <2>1, <2>2, <2>3, AlikeKept DEF Good
  <1>8. CASE OutsideSignal
    <2> DEFINE t == Faulty([Now EXCEPT !.handlers = @ + 1])
    <2>1. Turn({t})
      BY <1>8 DEF OutsideSignal
    <2>2. /\ Shaped(t) /\ t.run = run /\ t.fence = fence /\ t.lease = lease
          /\ t.signal = signal /\ t.draining = draining /\ t.handlers = handlers + 1
      BY <1>1, NowFacts DEF Shaped, Faulty, Fields
    <2> HIDE DEF t
    <2>3. Fenced(t)
      BY <1>1, <2>2, NowFacts DEF Fenced
    <2>4. Calm(t, Pursuits) /\ OwnedBy(t, Pursuits)
      BY <1>1, <2>2, NowFacts DEF Good, Kept, Calm, OwnedBy, Awaits, Owner
    <2>5. Good(t)
      BY <2>2, <2>3, <2>4 DEF Good, Kept
    <2> QED
      BY <1>2, <2>1, <2>5
  <1>9. CASE AuthorizationExpires
    <2> DEFINE t == Faulty([Now EXCEPT !.auth = 0])
    <2>1. Turn({t})
      BY <1>9 DEF AuthorizationExpires
    <2>2. Alike(Now, t)
      BY <1>1 DEF Alike, Faulty, Shaped, Fields
    <2> HIDE DEF t
    <2> QED
      BY <1>1, <1>2, <2>1, <2>2, AlikeKept DEF Good
  <1>10. CASE LifecycleReset
    <2> DEFINE t == [Now EXCEPT !.draining = FALSE, !.fence = 0, !.lease = 0,
                          !.signal = FALSE, !.auth = 0, !.slot = EmptySlot,
                          !.suspended = FALSE,
                          !.run = [p \in Pursuits |->
                              IF Inside(p) THEN [@[p] EXCEPT !.poll = FALSE, !.stale = TRUE]
                              ELSE NoPursuit]]
    <2>1. Turn({t})
      BY <1>10 DEF LifecycleReset
    <2>2. /\ DOMAIN t = Fields /\ t.fence = 0 /\ t.lease = 0 /\ t.signal = FALSE
          /\ t.draining = FALSE /\ t.handlers = Now.handlers
          /\ t.run = [p \in Pursuits |->
                        IF Inside(p) THEN [run[p] EXCEPT !.poll = FALSE, !.stale = TRUE]
                        ELSE NoPursuit]
      BY <1>1 DEF Shaped, Fields
    <2> HIDE DEF t
    <2>3. Fenced(t)
      BY <1>1, <2>2 DEF Fenced
    <2>4. \A p \in Pursuits :
             /\ DOMAIN t.run[p] = PursuitFields
             /\ Inside(p) => Awaits(t, p)
             /\ ~Inside(p) => t.run[p].stale = FALSE
      <3>1. ASSUME NEW p \in Pursuits, Inside(p)
            PROVE  DOMAIN t.run[p] = PursuitFields /\ Awaits(t, p)
        <4>1. t.run[p] = [run[p] EXCEPT !.poll = FALSE, !.stale = TRUE]
          BY <2>2, <3>1
        <4>2. DOMAIN run[p] = PursuitFields
          BY <1>1 DEF Shaped
        <4>3. DOMAIN t.run[p] = PursuitFields /\ t.run[p].at = run[p].at
          BY <4>1, <4>2 DEF PursuitFields
        <4> QED
          BY <3>1, <4>3 DEF Awaits, Inside
      <3>2. ASSUME NEW p \in Pursuits, ~Inside(p)
            PROVE  DOMAIN t.run[p] = PursuitFields /\ t.run[p].stale = FALSE
        <4>1. t.run[p] = NoPursuit
          BY <2>2, <3>2
        <4> QED
          BY <4>1 DEF NoPursuit, PursuitFields
      <3> QED
        BY <3>1, <3>2
    <2>5. Shaped(t) /\ Calm(t, Pursuits) /\ OwnedBy(t, Pursuits)
      BY <2>2, <2>4 DEF Shaped, Calm, OwnedBy
    <2>6. Good(t)
      BY <2>3, <2>5 DEF Good, Kept
    <2> QED
      BY <1>2, <2>1, <2>6
  <1> QED
    BY <1>4, <1>5, <1>6, <1>7, <1>8, <1>9, <1>10 DEF HandlerStep

LEMMA NextGood == ASSUME FenceInv, [Next]_vars PROVE FenceInv'
  <1>1. CASE UNCHANGED vars
    BY <1>1 DEF vars, FenceInv, Good, Kept, Shaped, Fenced, OwnedBy, Calm, Awaits, Owner, Now
  <1>2. CASE Next
    BY <1>2, AttemptSteps, RequestSteps, HandlerSteps DEF Next
  <1> QED
    BY <1>1, <1>2

LEMMA FenceInvTheorem == Spec => []FenceInv
  <1>1. Init => FenceInv
    BY InitGood
  <1>2. FenceInv /\ [Next]_vars => FenceInv'
    BY NextGood
  <1> QED
    BY <1>1, <1>2, PTL DEF Spec

-----------------------------------------------------------------------------
(* Sentinels.  Between two turns a sentinel that waits for its restart       *)
(* belongs to an attempt that is about to tell its continuation of a         *)
(* replacement; the attempt whose turn it is has said nothing yet (Wrote).   *)

Tidy(s, q) ==
    /\ q \in s.written => s.run[q].at = "replacing" /\ s.run[q].held # NoHook
    /\ s.run[q].at \in {"parked", "replacing"} => s.run[q].next # NoHook

TidyOn(s, P) == Shaped(s) /\ s.written \subseteq Pursuits /\ \A q \in P : Tidy(s, q)

TidyAll(s) == TidyOn(s, Pursuits)
Gone(s, p) == TidyOn(s, Pursuits \ {p}) /\ p \notin s.written
Wrote(s, p) ==
    /\ TidyOn(s, Pursuits \ {p})
    /\ p \in s.written => s.run[p].held # NoHook
AllTidy(S) == \A e \in S : TidyAll(e)

SentinelInv == TidyAll(Now)

LEMMA GoneIsWrote == ASSUME NEW s, NEW p, Gone(s, p) PROVE Wrote(s, p)
  BY DEF Gone, Wrote

\* The sentinels and the continuations stay as they are.
SameHooks(s, t) ==
    /\ Shaped(t) /\ t.written = s.written
    /\ \A q \in Pursuits :
          /\ t.run[q].at = s.run[q].at
          /\ t.run[q].held = s.run[q].held
          /\ t.run[q].next = s.run[q].next

LEMMA SameHooksTidy ==
    ASSUME NEW s, NEW t, SameHooks(s, t)
    PROVE  /\ \A P \in SUBSET Pursuits : TidyOn(s, P) => TidyOn(t, P)
           /\ \A p \in Pursuits : Gone(s, p) => Gone(t, p)
           /\ \A p \in Pursuits : Wrote(s, p) => Wrote(t, p)
           /\ TidyAll(s) => TidyAll(t)
  <1>1. ASSUME NEW P \in SUBSET Pursuits, TidyOn(s, P) PROVE TidyOn(t, P)
    BY <1>1 DEF SameHooks, TidyOn, Tidy
  <1> QED
    BY <1>1 DEF SameHooks, Gone, Wrote, TidyAll

\* An attempt that is outside its body, or leaves it, holds no sentinel.
LEMMA OutsideTidy ==
    ASSUME NEW s, NEW p \in Pursuits, Gone(s, p), NEW r, DOMAIN r = PursuitFields,
           r.at \notin {"parked", "replacing"}
    PROVE  TidyAll([s EXCEPT !.run[p] = r])
  BY DEF Gone, TidyAll, TidyOn, Tidy, Shaped, Fields

LEMMA TidyOutsideGone ==
    ASSUME NEW s, NEW p \in Pursuits, TidyAll(s), s.run[p].at # "replacing"
    PROVE  Gone(s, p)
  BY DEF TidyAll, Gone, TidyOn, Tidy

LEMMA ClearPollsTidy ==
    ASSUME NEW s, NEW P \in SUBSET Pursuits, TidyOn(s, P)
    PROVE  TidyOn(ClearPolls(s), P) /\ ClearPolls(s).written = s.written
  <1> DEFINE c == ClearPolls(s)
  <1>1. Shaped(s) /\ Shaped(c)
    BY ClearPollsFacts DEF TidyOn
  <1>2. c.written = s.written /\ \A q \in Pursuits :
          c.run[q] = IF s.run[q].at = "idle" THEN NoPursuit
                     ELSE [s.run[q] EXCEPT !.poll = FALSE]
    BY <1>1 DEF Shaped, ClearPolls, Fields
  <1>3. \A q \in Pursuits :
           /\ s.run[q].at = "idle" => c.run[q].at = "idle"
           /\ s.run[q].at # "idle" => /\ c.run[q].at = s.run[q].at
                                      /\ c.run[q].held = s.run[q].held
                                      /\ c.run[q].next = s.run[q].next
    <2>1. NoPursuit.at = "idle"
      BY DEF NoPursuit
    <2> QED
      BY <1>1, <1>2, <2>1 DEF Shaped, PursuitFields
  <1> HIDE DEF c
  <1>4. ASSUME NEW q \in P PROVE Tidy(c, q)
    <2>1. Tidy(s, q)
      BY DEF TidyOn
    <2> QED
      BY <1>2, <1>3, <2>1 DEF Tidy
  <1>5. TidyOn(c, P) /\ c.written = s.written
    BY <1>1, <1>2, <1>4 DEF TidyOn
  <1> QED
    BY <1>5 DEF c

\* An emission touches no sentinel; the attempts' polls may stop.
LEMMA EmitFencedHooks ==
    ASSUME NEW s, Shaped(s), NEW e \in EmitFenced(s)
    PROVE  Shaped(e) /\ e.written = s.written /\ e.run = ClearPolls(s).run
  <1> DEFINE c == [ClearPolls(s) EXCEPT !.slot = EmptySlot]
             f == Faulty(c)
             g == [c EXCEPT !.signal = TRUE, !.auth = @ + 1, !.handlers = @ + 1]
  <1>1. Shaped(c) /\ c.run = ClearPolls(s).run /\ c.written = s.written
    <2>1. Shaped(ClearPolls(s)) /\ ClearPolls(s).written = s.written
      BY ClearPollsFacts DEF ClearPolls, Shaped, Fields
    <2> QED
      BY <2>1 DEF Shaped, Fields
  <1>2. PICK x \in EmitSignal(s) : e = IF x.signal THEN x ELSE ClearLease(x)
    BY DEF EmitFenced
  <1>3. x = c \/ x = g \/ x = f
    BY <1>2, Zenon DEF EmitSignal
  <1> HIDE DEF c
  <1>4. Shaped(x) /\ x.run = c.run /\ x.written = c.written
    BY <1>1, <1>3 DEF Shaped, Faulty, Fields
  <1>5. Shaped(e) /\ e.run = x.run /\ e.written = x.written
    BY <1>2, <1>4 DEF ClearLease, Shaped, Fields
  <1> QED
    BY <1>1, <1>4, <1>5

LEMMA RequestEmissionHooks ==
    ASSUME NEW s, Shaped(s), NEW e \in RequestEmission(s)
    PROVE  /\ Shaped(e) /\ e.written = s.written
           /\ e.run \in {s.run, ClearPolls(s).run}
  <1>1. CASE s.lease # 0
    BY <1>1, EmitFencedHooks DEF RequestEmission
  <1>2. CASE s.lease = 0
    <2> DEFINE o == IF s.signal THEN s ELSE Reopen(s)
               b == Begin(o)
    <2>1. Shaped(o) /\ o.run = s.run /\ o.written = s.written
      BY DEF Shaped, Reopen, Fields
    <2>2. e \in IF CanBegin(o) THEN EmitFenced(b) ELSE {o}
      BY <1>2 DEF RequestEmission
    <2> HIDE DEF o
    <2>3. Shaped(b) /\ b.run = o.run /\ b.written = o.written
      BY <2>1 DEF Begin, Shaped, Fields
    <2>4. ClearPolls(b).run = ClearPolls(s).run
      BY <2>1, <2>3 DEF ClearPolls, Shaped, Fields
    <2> HIDE DEF b
    <2> QED
      BY <2>1, <2>2, <2>3, <2>4, EmitFencedHooks
  <1> QED
    BY <1>1, <1>2

LEMMA RequestEmissionTidy ==
    ASSUME NEW s, NEW P \in SUBSET Pursuits, TidyOn(s, P), NEW e \in RequestEmission(s)
    PROVE  TidyOn(e, P) /\ e.written = s.written
  <1>1. Shaped(e) /\ e.written = s.written /\ e.run \in {s.run, ClearPolls(s).run}
    BY RequestEmissionHooks DEF TidyOn
  <1>2. TidyOn(ClearPolls(s), P) /\ ClearPolls(s).written = s.written
    BY ClearPollsTidy
  <1> QED
    BY <1>1, <1>2 DEF TidyOn, Tidy

LEMMA RollbackHooks ==
    ASSUME NEW s, NEW p \in Pursuits, Shaped(s)
    PROVE  SameHooks(s, RollbackFence(s, p))
  BY DEF SameHooks, RollbackFence, Shaped, Fields, PursuitFields

LEMMA FinishTidy ==
    ASSUME NEW s, NEW p \in Pursuits, Gone(s, p), NEW a
    PROVE  TidyAll(Finish(s, p, a))
  <1>1. PICK r : /\ \/ r = NoPursuit
                    \/ r = [NoPursuit EXCEPT !.kind = s.run[p].kind, !.poll = TRUE]
                 /\ Finish(s, p, a) = [s EXCEPT !.run[p] = r]
    BY DEF Finish
  <1>2. DOMAIN r = PursuitFields /\ r.at = "idle"
    <2>1. DOMAIN NoPursuit = PursuitFields /\ NoPursuit.at = "idle"
      BY DEF NoPursuit, PursuitFields
    <2> QED
      BY <1>1, <2>1 DEF PursuitFields
  <1> QED
    BY <1>1, <1>2, OutsideTidy

LEMMA BailTidy ==
    ASSUME NEW s, NEW p \in Pursuits, TidyOn(s, Pursuits \ {p})
    PROVE  TidyAll(Bail(s, p))
  <1> DEFINE t == [s EXCEPT !.written = @ \ {p}]
  <1>1. Gone(t, p) /\ Shaped(t)
    BY DEF Gone, TidyOn, Tidy, Shaped, Fields
  <1> HIDE DEF t
  <1>2. Gone(RollbackFence(t, p), p)
    BY <1>1, RollbackHooks, SameHooksTidy
  <1> QED
    BY <1>2, FinishTidy DEF Bail, t

LEMMA EmissionTidy ==
    ASSUME NEW s, NEW p \in Pursuits, TidyOn(s, Pursuits \ {p})
    PROVE  AllTidy(Emission(s, p))
  <1> DEFINE c == [s EXCEPT !.slot.key = NoKey, !.written = @ \ {p}]
  <1>1. Gone(c, p)
    BY DEF Gone, TidyOn, Tidy, Shaped, Fields
  <1> HIDE DEF c
  <1>2. Shaped(c) /\ Shaped(Faulty(c)) /\ SameHooks(c, Faulty(c))
    BY <1>1 DEF Gone, TidyOn, Shaped, Faulty, SameHooks, Fields
  <1>3. ASSUME NEW e \in RequestEmission(c) PROVE Gone(e, p)
    BY <1>1, <1>3, RequestEmissionTidy DEF Gone
  <1>4. ASSUME NEW e \in ReloadEmission(c, p) PROVE Gone(e, p)
    <2>1. e \in RequestEmission(c) \/ e = c \/ e = Faulty(c)
      BY <1>4 DEF ReloadEmission
    <2>2. Gone(Faulty(c), p)
      BY <1>1, <1>2, SameHooksTidy
    <2> QED
      BY <1>1, <1>3, <2>1, <2>2
  <1>5. ASSUME NEW e, Gone(e, p) PROVE TidyAll(Finish(RollbackFence(e, p), p, TRUE))
    <2>1. Gone(RollbackFence(e, p), p)
      BY <1>5, RollbackHooks, SameHooksTidy DEF Gone, TidyOn
    <2> QED
      BY <2>1, FinishTidy
  <1>6. ASSUME NEW x \in Emission(s, p)
        PROVE  \E e : Gone(e, p) /\ x = Finish(RollbackFence(e, p), p, TRUE)
    <2>1. PICK e \in IF s.run[p].kind = "reload" THEN ReloadEmission(c, p)
                                                ELSE RequestEmission(c) :
              x = Finish(RollbackFence(e, p), p, TRUE)
      BY <1>6, Zenon DEF Emission, c
    <2> QED
      BY <1>3, <1>4, <2>1
  <1> QED
    BY <1>5, <1>6 DEF AllTidy

\* A prepared attempt that finds one more continuation tells the first one.
LEMMA TakeParkedTidy ==
    ASSUME NEW s, NEW p \in Pursuits, Wrote(s, p)
    PROVE  AllTidy(TakeParked(s, p))
  <1> DEFINE h == s.slot.hooks
             a == IF s.run[p].held = NoHook THEN "parked" ELSE "replacing"
             t == [s EXCEPT !.slot.hooks = NoHook, !.run[p].next = h, !.run[p].at = a]
  <1>1. TakeParked(s, p) = IF h = NoHook THEN Emission(s, p) ELSE {t}
    BY DEF TakeParked
  <1>2. Shaped(s)
    BY DEF Wrote, TidyOn
  <1>3. ASSUME h # NoHook PROVE TidyAll(t)
    <2>1. /\ Shaped(t) /\ t.written = s.written
          /\ t.run[p] = [s.run[p] EXCEPT !.next = h, !.at = a]
          /\ \A q \in Pursuits \ {p} : t.run[q] = s.run[q]
      BY <1>2 DEF Shaped, Fields, PursuitFields
    <2>2. t.run[p].next = h /\ t.run[p].at = a /\ t.run[p].held = s.run[p].held
      BY <1>2, <2>1 DEF Shaped, PursuitFields
    <2> HIDE DEF t
    <2>3. Tidy(t, p)
      BY <1>3, <2>1, <2>2 DEF Wrote, Tidy
    <2>4. ASSUME NEW q \in Pursuits \ {p} PROVE Tidy(t, q)
      BY <2>1, <2>4 DEF Wrote, TidyOn, Tidy
    <2> QED
      BY <2>1, <2>3, <2>4 DEF TidyAll, TidyOn, Wrote
  <1> HIDE DEF t
  <1>4. AllTidy(Emission(s, p))
    BY EmissionTidy DEF Wrote
  <1> QED
    BY <1>1, <1>3, <1>4 DEF AllTidy

LEMMA BodyTidy ==
    ASSUME NEW s, NEW p \in Pursuits, Gone(s, p)
    PROVE  AllTidy(Body(s, p))
  <1> DEFINE r == [s.run[p] EXCEPT !.at = "caller"]
  <1>1. Shaped(s)
    BY DEF Gone, TidyOn
  <1>2. DOMAIN r = PursuitFields /\ r.at = "caller"
    BY <1>1 DEF Shaped, PursuitFields
  <1>3. [s EXCEPT !.run[p].at = "caller"] = [s EXCEPT !.run[p] = r]
    BY <1>1 DEF Shaped, Fields, PursuitFields
  <1> HIDE DEF r
  <1>4. TidyAll([s EXCEPT !.run[p] = r])
    BY <1>2, OutsideTidy
  <1> QED
    BY <1>3, <1>4, GoneIsWrote, TakeParkedTidy DEF Body, AllTidy

LEMMA EnterTidy ==
    ASSUME NEW s, NEW p \in Pursuits, Gone(s, p)
    PROVE  AllTidy(Enter(s, p))
  <1> DEFINE e == Leased(s, p)
             b == [e EXCEPT !.run[p].checked = FALSE]
  <1>1. Shaped(s)
    BY DEF Gone, TidyOn
  <1>2. SameHooks(s, e)
    <2> DEFINE d == IF s.lease = 0 THEN Begin(s) ELSE s
    <2>1. Shaped(d) /\ d.written = s.written /\ d.run = s.run
      BY <1>1 DEF Begin, Shaped, Fields
    <2>2. e = [d EXCEPT !.run[p].lease = d.lease, !.run[p].owns = (s.lease = 0),
                        !.run[p].live = TRUE]
      BY DEF Leased
    <2> HIDE DEF d, e
    <2> QED
      BY <2>1, <2>2 DEF SameHooks, Shaped, Fields, PursuitFields
  <1> HIDE DEF e
  <1>3. Gone(e, p) /\ Shaped(e)
    BY <1>2, SameHooksTidy DEF SameHooks
  <1>4. SameHooks(e, b)
    BY <1>3 DEF SameHooks, Shaped, Fields, PursuitFields
  <1>5. AllTidy(Body(b, p))
    BY <1>3, <1>4, SameHooksTidy, BodyTidy
  <1>6. TidyAll(Finish(RollbackFence(e, p), p, FALSE))
    BY <1>3, RollbackHooks, SameHooksTidy, FinishTidy
  <1>7. TidyAll(Finish(s, p, FALSE))
    BY FinishTidy
  <1>8. ASSUME NEW x \in Enter(s, p)
        PROVE  \/ x = Finish(s, p, FALSE) \/ x \in Body(b, p)
               \/ x = Finish(RollbackFence(e, p), p, FALSE)
    <2>1. CASE s.signal
      BY <1>8, <2>1 DEF Enter
    <2>2. CASE ~s.signal
      <3>1. Enter(s, p) = UNION {Body([d EXCEPT !.run[p].checked = FALSE], p)
                                  \cup (IF d.run[p].checked
                                        THEN {Finish(RollbackFence(d, p), p, FALSE)} ELSE {}) :
                                  d \in {Leased(s, p)}}
        BY <2>2, Zenon DEF Enter
      <3>2. x \in Body(b, p) \cup (IF e.run[p].checked
                                   THEN {Finish(RollbackFence(e, p), p, FALSE)} ELSE {})
        BY <1>8, <3>1, Zenon DEF e, b
      <3> QED
        BY <3>2, Zenon
    <2> QED
      BY <2>1, <2>2
  <1> HIDE DEF b
  <1> QED
    BY <1>5, <1>6, <1>7, <1>8 DEF AllTidy

LEMMA AttemptTidy ==
    ASSUME NEW s, NEW p \in Pursuits, Gone(s, p)
    PROVE  /\ AllTidy(Admission(s, p))
           /\ \A checked : AllTidy(Attempt(s, p, checked))
  <1>1. ASSUME NEW t, Gone(t, p) PROVE AllTidy(Admission(t, p))
    <2> DEFINE r == [t.run[p] EXCEPT !.at = "waiting"]
    <2>1. Shaped(t)
      BY <1>1 DEF Gone, TidyOn
    <2>2. DOMAIN r = PursuitFields /\ r.at = "waiting"
      BY <2>1 DEF Shaped, PursuitFields
    <2>3. [t EXCEPT !.run[p].at = "waiting"] = [t EXCEPT !.run[p] = r]
      BY <2>1 DEF Shaped, Fields, PursuitFields
    <2> HIDE DEF r
    <2>4. TidyAll([t EXCEPT !.run[p] = r])
      BY <1>1, <2>2, OutsideTidy
    <2>5. AllTidy({[t EXCEPT !.run[p].at = "waiting"]})
      BY <2>3, <2>4 DEF AllTidy
    <2>6. AllTidy({Finish(t, p, TRUE)})
      BY <1>1, FinishTidy DEF AllTidy
    <2>7. AllTidy(Enter(t, p))
      BY <1>1, EnterTidy
    <2> QED
      BY <2>5, <2>6, <2>7 DEF Admission
  <1>2. ASSUME NEW checked PROVE AllTidy(Attempt(s, p, checked))
    <2> DEFINE t == [s EXCEPT !.run[p].checked = checked]
    <2>1. SameHooks(s, t)
      BY DEF SameHooks, Gone, TidyOn, Shaped, Fields, PursuitFields
    <2> HIDE DEF t
    <2>2. Gone(t, p)
      BY <2>1, SameHooksTidy
    <2>3. Attempt(s, p, checked) = Admission(t, p)
      <3>1. Attempt(s, p, checked) = UNION {Admission(u, p) : u \in {t}}
        BY Zenon DEF Attempt, t
      <3> QED
        BY <3>1, Zenon
    <2> QED
      BY <1>1, <2>2, <2>3
  <1> QED
    BY <1>1, <1>2

LEMMA StoppedTidy ==
    ASSUME NEW s, NEW p \in Pursuits, TidyAll(s)
    PROVE  /\ TidyAll(Stopped(s, p))
           /\ s.run[p].at = "idle" => Gone(Stopped(s, p), p)
  <1>1. Shaped(s)
    BY DEF TidyAll, TidyOn
  <1>2. CASE s.run[p].at = "idle"
    <2> DEFINE r == [NoPursuit EXCEPT !.kind = s.run[p].kind]
               t == [s EXCEPT !.run[p] = r]
    <2>1. DOMAIN r = PursuitFields /\ r.at = "idle"
      BY DEF NoPursuit, PursuitFields
    <2>2. Gone(s, p)
      BY <1>2, TidyOutsideGone
    <2> HIDE DEF r
    <2>3. TidyAll(t)
      BY <2>1, <2>2, OutsideTidy
    <2>4. t.run[p].at = "idle"
      BY <1>1, <2>1 DEF Shaped, Fields
    <2>5. Stopped(s, p) = t
      BY <1>2 DEF Stopped, r
    <2> HIDE DEF t
    <2> QED
      BY <2>3, <2>4, <2>5, TidyOutsideGone
  <1>3. CASE s.run[p].at # "idle"
    <2>1. SameHooks(s, Stopped(s, p))
      BY <1>1, <1>3 DEF SameHooks, Stopped, Shaped, Fields, PursuitFields
    <2> QED
      BY <1>3, <2>1, SameHooksTidy
  <1> QED
    BY <1>2, <1>3

LEMMA DeferTidy ==
    ASSUME NEW s, NEW p \in Pursuits, Gone(s, p), NEW kind
    PROVE  AllTidy(Defer(s, p, kind))
  <1> DEFINE r == [NoPursuit EXCEPT !.kind = kind, !.poll = TRUE]
             d == [s EXCEPT !.run[p] = r]
  <1>1. DOMAIN r = PursuitFields /\ r.at = "idle"
    BY DEF NoPursuit, PursuitFields
  <1>2. Defer(s, p, kind) = {d} \cup Attempt(d, p, TRUE)
    <2>1. Defer(s, p, kind) = UNION {{x} \cup Attempt(x, p, TRUE) : x \in {d}}
      BY Zenon DEF Defer, d, r
    <2> QED
      BY <2>1, Zenon
  <1> HIDE DEF r
  <1>3. TidyAll(d) /\ d.run[p] = r
    BY <1>1, OutsideTidy DEF Gone, TidyOn, Shaped, Fields
  <1> HIDE DEF d
  <1>4. Gone(d, p)
    BY <1>1, <1>3, TidyOutsideGone
  <1>5. AllTidy(Attempt(d, p, TRUE))
    BY <1>4, AttemptTidy
  <1> QED
    BY <1>2, <1>3, <1>5 DEF AllTidy

LEMMA SlotAttemptTidy ==
    ASSUME NEW s, NEW p \in Pursuits, Gone(s, p)
    PROVE  AllTidy(Attempt([s EXCEPT !.run[p].kind = "slot"], p, FALSE))
  <1> DEFINE t == [s EXCEPT !.run[p].kind = "slot"]
  <1>1. SameHooks(s, t)
    BY DEF SameHooks, Gone, TidyOn, Shaped, Fields, PursuitFields
  <1> HIDE DEF t
  <1>2. Gone(t, p)
    BY <1>1, SameHooksTidy
  <1>3. AllTidy(Attempt(t, p, FALSE))
    BY <1>2, AttemptTidy
  <1> QED
    BY <1>3 DEF t

LEMMA ScheduledTidy ==
    ASSUME NEW s, TidyAll(s), s.run = run, NEW c, Deferred(s) /\ c.skip => Free # {}
    PROVE  AllTidy(Scheduled(s, c))
  <1>1. Shaped(s)
    BY DEF TidyAll, TidyOn
  <1>3. TidyAll([s EXCEPT !.slot = Requested(c)])
    <2>1. SameHooks(s, [s EXCEPT !.slot = Requested(c)])
      BY <1>1 DEF SameHooks, Shaped, Fields
    <2> QED
      BY <2>1, SameHooksTidy
  <1>4. TidyAll(PullEarlier(s, c))
    <2>1. ASSUME NEW x PROVE SameHooks(s, [s EXCEPT !.slot = x])
      BY <1>1 DEF SameHooks, Shaped, Fields
    <2>2. SameHooks(s, PullEarlier(s, c))
      BY <2>1 DEF PullEarlier
    <2> QED
      BY <2>2, SameHooksTidy
  <1>5. TidyAll(Coalesce(s, c))
    <2>1. SameHooks(s, Coalesce(s, c))
      BY <1>1 DEF SameHooks, Shaped, Fields, Coalesce
    <2> QED
      BY <2>1, SameHooksTidy
  <1>6. ASSUME Deferred(s) /\ c.skip PROVE AllTidy(BypassDeferral(s, c))
    <2> DEFINE a == ClearPolls(s)
               q == IF Preserves(s, c) THEN a
                    ELSE [a EXCEPT !.slot.hooks = c.hooks, !.slot.key = c.key]
    <2>1. Unused \in Pursuits /\ s.run[Unused].at = "idle"
      BY <1>6, UnusedFacts DEF NoPursuit
    <2>2. TidyAll(a) /\ Shaped(a) /\ a.run[Unused].at = "idle"
      BY <1>1, <2>1, ClearPollsTidy, ClearPollsFacts DEF TidyAll, NoPursuit
    <2> HIDE DEF a
    <2>3. SameHooks(a, q)
      BY <2>2 DEF SameHooks, Shaped, Fields
    <2>4. BypassDeferral(s, c) = Attempt([q EXCEPT !.run[Unused].kind = "slot"], Unused, FALSE)
      BY DEF BypassDeferral, a
    <2> HIDE DEF q
    <2>5. Gone(a, Unused)
      BY <2>1, <2>2, TidyOutsideGone
    <2>6. Gone(q, Unused)
      BY <2>1, <2>3, <2>5, SameHooksTidy
    <2> QED
      BY <2>1, <2>4, <2>6, SlotAttemptTidy
  <1> QED
    BY <1>3, <1>4, <1>5, <1>6 DEF Scheduled, AllTidy

LEMMA CommitTidy == ASSUME NEW s, TidyAll(s), Commit(s) PROVE SentinelInv'
  BY DEF TidyAll, TidyOn, Tidy, Shaped, Commit, SentinelInv, Now, Fields

LEMMA TurnTidy == ASSUME NEW S, AllTidy(S), Turn(S) PROVE SentinelInv'
  BY CommitTidy DEF Turn, AllTidy

LEMMA OneTidy == ASSUME NEW s, TidyAll(s), Turn({s}) PROVE SentinelInv'
  BY TurnTidy DEF AllTidy

LEMMA SameTidy == ASSUME SentinelInv, NEW s, SameHooks(Now, s), Turn({s}) PROVE SentinelInv'
  BY SameHooksTidy, OneTidy DEF SentinelInv

\* Continuations of an attempt
LEMMA AttemptStepsTidy ==
    ASSUME SentinelInv, NEW p \in Pursuits,
           Wake(p) \/ PursuitStep(p) \/ PollIdle(p) \/ PollLate(p) \/ ReloadCancelled(p)
    PROVE  SentinelInv'
  <1>1. Shaped(Now) /\ TidyAll(Now) /\ Now.run = run
    BY NowFacts DEF SentinelInv, TidyAll, TidyOn
  <1>2. ASSUME NEW s, Wrote(s, p), Turn(IF Current(s, p) THEN TakeParked(s, p) ELSE {Bail(s, p)})
        PROVE  SentinelInv'
    <2>1. AllTidy(TakeParked(s, p))
      BY <1>2, TakeParkedTidy
    <2>2. AllTidy({Bail(s, p)})
      BY <1>2, BailTidy DEF AllTidy, Wrote
    <2> QED
      BY <1>2, <2>1, <2>2, TurnTidy
  <1>3. CASE Wake(p)
    <2>1. Gone(Now, p)
      BY <1>1, <1>3, TidyOutsideGone DEF Wake
    <2> QED
      BY <1>3, <2>1, AttemptTidy, TurnTidy DEF Wake
  <1>4. CASE CallerReturns(p)
    <2>1. Gone(Now, p)
      BY <1>1, <1>4, TidyOutsideGone DEF CallerReturns
    <2> QED
      BY <1>2, <1>4, <2>1, GoneIsWrote DEF CallerReturns
  <1>5. CASE ParkedReturns(p)
    <2>1. PICK thrown \in BOOLEAN :
             LET s == Prepared(p, thrown) IN
             Turn(IF Current(s, p) THEN TakeParked(s, p) ELSE {Bail(s, p)})
      BY <1>5, Zenon DEF ParkedReturns
    <2> DEFINE s == Prepared(p, thrown)
    <2>2. run[p].next # NoHook /\ p \notin Now.written /\ Now.written \subseteq Pursuits
          /\ \A q \in Pursuits \ {p} : Tidy(Now, q)
      BY <1>1, <1>5 DEF ParkedReturns, TidyAll, TidyOn, Tidy
    <2>3. /\ Shaped(s) /\ \A q \in Pursuits \ {p} : s.run[q] = run[q]
          /\ s.run[p].held = (IF thrown THEN NoHook ELSE run[p].next)
          /\ s.written = (IF thrown THEN Now.written ELSE Now.written \cup {p})
      <3>1. /\ Shaped(s) /\ \A q \in Pursuits \ {p} : s.run[q] = run[q]
            /\ s.run[p] = [run[p] EXCEPT !.next = NoHook,
                                         !.held = IF thrown THEN NoHook ELSE run[p].next]
            /\ s.written = (IF thrown THEN Now.written ELSE Now.written \cup {p})
        BY <1>1 DEF Prepared, Shaped, Fields, PursuitFields
      <3>2. DOMAIN run[p] = PursuitFields
        BY <1>1 DEF Shaped
      <3> HIDE DEF s
      <3> QED
        BY <3>1, <3>2 DEF PursuitFields
    <2> HIDE DEF s
    <2>4. ASSUME NEW q \in Pursuits \ {p} PROVE Tidy(s, q)
      BY <1>1, <2>2, <2>3 DEF Tidy
    <2>5. Wrote(s, p)
      BY <2>2, <2>3, <2>4 DEF Wrote, TidyOn
    <2> QED
      BY <1>2, <2>1, <2>5 DEF s
  <1>6. CASE ReplacedIsTold(p)
    <2> DEFINE s == [Now EXCEPT !.written = @ \ {p}, !.run[p].held = NoHook]
               t == [s EXCEPT !.run[p].at = "parked"]
    <2>1. Turn({IF Current(s, p) THEN t ELSE Bail(s, p)})
      BY <1>6 DEF ReplacedIsTold
    <2>2. /\ Shaped(s) /\ s.written = Now.written \ {p}
          /\ \A q \in Pursuits \ {p} : s.run[q] = run[q]
          /\ s.run[p].next = run[p].next
      BY <1>1 DEF Shaped, Fields, PursuitFields
    <2> HIDE DEF s
    <2>3. /\ Shaped(t) /\ t.written = s.written
          /\ \A q \in Pursuits \ {p} : t.run[q] = run[q]
          /\ t.run[p].next = run[p].next
      BY <2>2 DEF Shaped, Fields, PursuitFields
    <2> HIDE DEF t
    <2>4. TidyOn(s, Pursuits \ {p})
      BY <1>1, <2>2 DEF TidyAll, TidyOn, Tidy
    <2>5. run[p].next # NoHook
      BY <1>1, <1>6 DEF ReplacedIsTold, TidyAll, TidyOn, Tidy
    <2>6. Tidy(t, p)
      BY <2>2, <2>3, <2>5 DEF Tidy
    <2>7. TidyAll(t)
      BY <1>1, <2>2, <2>3, <2>6 DEF TidyAll, TidyOn, Tidy
    <2>8. TidyAll(IF Current(s, p) THEN t ELSE Bail(s, p))
      BY <2>4, <2>7, BailTidy
    <2> QED
      BY <2>1, <2>8, OneTidy
  <1>7. CASE PollIdle(p)
    <2>1. Gone(Now, p)
      BY <1>1, <1>7, TidyOutsideGone DEF PollIdle
    <2> QED
      BY <1>7, <2>1, AttemptTidy, TurnTidy DEF PollIdle
  <1>8. CASE PollLate(p)
    <2> DEFINE s == Stopped(Now, p)
    <2>1. Turn(IF run[p].at = "idle" THEN Attempt(s, p, FALSE) ELSE {s})
      BY <1>8 DEF PollLate
    <2>2. TidyAll(s) /\ (run[p].at = "idle" => Gone(s, p))
      BY <1>1, StoppedTidy
    <2> HIDE DEF s
    <2>3. run[p].at = "idle" => AllTidy(Attempt(s, p, FALSE))
      BY <2>2, AttemptTidy
    <2> QED
      BY <2>1, <2>2, <2>3, TurnTidy, OneTidy
  <1>9. CASE ReloadCancelled(p)
    <2> DEFINE s == [Now EXCEPT !.run[p].cancelled = TRUE]
               f == IF Inside(p) THEN RollbackFence(s, p) ELSE s
               t == IF run[p].at = "idle" THEN [f EXCEPT !.run[p] = NoPursuit]
                    ELSE [f EXCEPT !.run[p].poll = FALSE]
    <2>1. Turn({t})
      BY <1>9 DEF ReloadCancelled
    <2>2. SameHooks(Now, s)
      BY <1>1 DEF SameHooks, Shaped, Fields, PursuitFields
    <2> HIDE DEF s
    <2>3. TidyAll(f) /\ Shaped(f) /\ f.run[p].at = run[p].at
      <3>1. TidyAll(s) /\ Shaped(s) /\ s.run[p].at = run[p].at
        BY <1>1, <2>2, SameHooksTidy DEF SameHooks
      <3>2. SameHooks(s, RollbackFence(s, p))
        BY <3>1, RollbackHooks
      <3>3. TidyAll(RollbackFence(s, p)) /\ Shaped(RollbackFence(s, p))
            /\ RollbackFence(s, p).run[p].at = s.run[p].at
        BY <3>1, <3>2, SameHooksTidy DEF SameHooks
      <3> QED
        BY <3>1, <3>3
    <2> HIDE DEF f
    <2>4. CASE run[p].at = "idle"
      <3>1. DOMAIN NoPursuit = PursuitFields /\ NoPursuit.at = "idle"
        BY DEF NoPursuit, PursuitFields
      <3>2. Gone(f, p)
        BY <2>3, <2>4, TidyOutsideGone
      <3>3. TidyAll([f EXCEPT !.run[p] = NoPursuit])
        BY <3>1, <3>2, OutsideTidy
      <3> QED
        BY <2>1, <2>4, <3>3, OneTidy
    <2>5. CASE run[p].at # "idle"
      <3>1. SameHooks(f, [f EXCEPT !.run[p].poll = FALSE])
        BY <2>3 DEF SameHooks, Shaped, Fields, PursuitFields
      <3>2. TidyAll([f EXCEPT !.run[p].poll = FALSE])
        BY <2>3, <3>1, SameHooksTidy
      <3> QED
        BY <2>1, <2>5, <3>2, OneTidy
    <2> QED
      BY <2>4, <2>5
  <1> QED
    BY <1>3, <1>4, <1>5, <1>6, <1>7, <1>8, <1>9 DEF PursuitStep

LEMMA RequestStepsTidy ==
    ASSUME SentinelInv,
           \/ \E c \in Calls : Schedule(c)
           \/ TimerFires \/ ReloadDefers \/ Direct \/ Suspend \/ Resume
    PROVE  SentinelInv'
  <1>1. Shaped(Now) /\ TidyAll(Now) /\ Now.run = run
    BY NowFacts DEF SentinelInv, TidyAll, TidyOn
  <1>2. CASE \E c \in Calls : Schedule(c)
    <2>1. PICK c \in Calls : Schedule(c)
      BY <1>2
    <2>2. AllTidy(Scheduled(Now, c))
      BY <1>1, <2>1, ScheduledTidy DEF Schedule
    <2> QED
      BY <2>1, <2>2, TurnTidy DEF Schedule
  <1>3. ASSUME Free # {} PROVE Unused \in Pursuits /\ run[Unused].at = "idle"
    BY <1>3, UnusedFacts DEF NoPursuit
  <1>4. CASE TimerFires
    <2> DEFINE s == [Now EXCEPT !.slot.at = "preparing", !.slot.skip = FALSE]
    <2>1. SameHooks(Now, s)
      BY <1>1 DEF SameHooks, Shaped, Fields
    <2>2. Turn(IF slot.skip
               THEN Attempt([s EXCEPT !.run[Unused].kind = "slot"], Unused, FALSE)
               ELSE Defer(s, Unused, "slot"))
      BY <1>4 DEF TimerFires
    <2> HIDE DEF s
    <2>3. Unused \in Pursuits /\ Gone(Now, Unused)
      BY <1>1, <1>3, <1>4, TidyOutsideGone DEF TimerFires
    <2>4. Gone(s, Unused)
      BY <2>1, <2>3, SameHooksTidy
    <2>5. AllTidy(Attempt([s EXCEPT !.run[Unused].kind = "slot"], Unused, FALSE))
      BY <2>3, <2>4, SlotAttemptTidy
    <2>6. AllTidy(Defer(s, Unused, "slot"))
      BY <2>3, <2>4, DeferTidy
    <2> QED
      BY <2>2, <2>5, <2>6, TurnTidy
  <1>5. CASE ReloadDefers
    <2>1. Unused \in Pursuits /\ Gone(Now, Unused)
      BY <1>1, <1>3, <1>5, TidyOutsideGone DEF ReloadDefers
    <2>2. AllTidy(Defer(Now, Unused, "reload"))
      BY <2>1, DeferTidy
    <2> QED
      BY <1>5, <2>2, TurnTidy DEF ReloadDefers
  <1>6. CASE Direct
    <2>1. AllTidy(RequestEmission(Now))
      BY <1>1, RequestEmissionTidy DEF AllTidy, TidyAll
    <2> QED
      BY <1>6, <2>1, TurnTidy DEF Direct
  <1>7. ASSUME NEW b, Turn({[Now EXCEPT !.suspended = b]}) PROVE SentinelInv'
    <2>1. SameHooks(Now, [Now EXCEPT !.suspended = b])
      BY <1>1 DEF SameHooks, Shaped, Fields
    <2> QED
      BY <1>7, <2>1, SameTidy
  <1> QED
    BY <1>2, <1>4, <1>5, <1>6, <1>7 DEF Suspend, Resume

LEMMA HandlerStepsTidy ==
    ASSUME SentinelInv,
           \/ HandlerStep \/ HandlerFails \/ OutsideSignal
           \/ AuthorizationExpires \/ LifecycleReset
    PROVE  SentinelInv'
  <1>1. Shaped(Now) /\ TidyAll(Now) /\ Now.run = run
    BY NowFacts DEF SentinelInv, TidyAll, TidyOn
  <1>2. ASSUME NEW s, Shaped(s)
        PROVE  SameHooks(s, Handled(MarkHandled(s))) /\ Handled(MarkHandled(s)).run = s.run
    BY <1>2 DEF SameHooks, Shaped, Handled, MarkHandled, ClearLease, Fields
  <1>3. CASE HandleAuthorized
    <2> DEFINE t == Handled(MarkHandled(Drain([Now EXCEPT !.auth = @ - 1])))
    <2>1. Turn({t})
      BY <1>3 DEF HandleAuthorized
    <2>2. SameHooks(Now, t)
      BY <1>1 DEF SameHooks, Shaped, Handled, MarkHandled, ClearLease, Drain, Fields
    <2> HIDE DEF t
    <2> QED
      BY <2>1, <2>2, SameTidy
  <1>4. CASE HandleRefused
    BY <1>1, <1>2, <1>4, SameTidy DEF HandleRefused
  <1>5. CASE HandleOutside
    <2> DEFINE s == Handled(MarkHandled(Now))
    <2>1. Turn(Scheduled(s, PlainCall))
      BY <1>5 DEF HandleOutside
    <2>2. TidyAll(s) /\ s.run = run
      BY <1>1, <1>2, SameHooksTidy
    <2>3. ~PlainCall.skip
      BY DEF PlainCall
    <2> HIDE DEF s
    <2> QED
      BY <2>1, <2>2, <2>3, ScheduledTidy, TurnTidy
  <1>6. CASE HandlerFails
    <2> DEFINE t == Faulty(Handled(MarkHandled(Now)))
    <2>1. Turn({t})
      BY <1>6 DEF HandlerFails
    <2>2. SameHooks(Now, t)
      BY <1>1 DEF SameHooks, Shaped, Faulty, Handled, MarkHandled, ClearLease, Fields
    <2> HIDE DEF t
    <2> QED
      BY <2>1, <2>2, SameTidy
  <1>7. CASE OutsideSignal
    <2> DEFINE t == Faulty([Now EXCEPT !.handlers = @ + 1])
    <2>1. Turn({t})
      BY <1>7 DEF OutsideSignal
    <2>2. SameHooks(Now, t)
      BY <1>1 DEF SameHooks, Shaped, Faulty, Fields
    <2> HIDE DEF t
    <2> QED
      BY <2>1, <2>2, SameTidy
  <1>8. CASE AuthorizationExpires
    <2> DEFINE t == Faulty([Now EXCEPT !.auth = 0])
    <2>1. Turn({t})
      BY <1>8 DEF AuthorizationExpires
    <2>2. SameHooks(Now, t)
      BY <1>1 DEF SameHooks, Shaped, Faulty, Fields
    <2> HIDE DEF t
    <2> QED
      BY <2>1, <2>2, SameTidy
  <1>9. CASE LifecycleReset
    <2> DEFINE t == [Now EXCEPT !.draining = FALSE, !.fence = 0, !.lease = 0,
                          !.signal = FALSE, !.auth = 0, !.slot = EmptySlot,
                          !.suspended = FALSE,
                          !.run = [p \in Pursuits |->
                              IF Inside(p) THEN [@[p] EXCEPT !.poll = FALSE, !.stale = TRUE]
                              ELSE NoPursuit]]
    <2>1. Turn({t})
      BY <1>9 DEF LifecycleReset
    <2>2. /\ DOMAIN t = Fields /\ t.written = Now.written
          /\ t.run = [p \in Pursuits |->
                        IF Inside(p) THEN [run[p] EXCEPT !.poll = FALSE, !.stale = TRUE]
                        ELSE NoPursuit]
      BY <1>1 DEF Shaped, Fields
    <2> HIDE DEF t
    <2>3. ASSUME NEW p \in Pursuits
          PROVE  DOMAIN t.run[p] = PursuitFields /\ Tidy(t, p)
      <3>1. Tidy(Now, p) /\ DOMAIN run[p] = PursuitFields
        BY <1>1 DEF Shaped, TidyAll, TidyOn
      <3>2. CASE Inside(p)
        <4>1. t.run[p] = [run[p] EXCEPT !.poll = FALSE, !.stale = TRUE]
          BY <2>2, <3>2
        <4>2. DOMAIN t.run[p] = PursuitFields /\ t.run[p].at = run[p].at
              /\ t.run[p].held = run[p].held /\ t.run[p].next = run[p].next
          BY <3>1, <4>1 DEF PursuitFields
        <4> QED
          BY <1>1, <2>2, <3>1, <4>2 DEF Tidy
      <3>3. CASE ~Inside(p)
        <4>1. t.run[p] = NoPursuit
          BY <2>2, <3>3
        <4>2. DOMAIN t.run[p] = PursuitFields /\ t.run[p].at = "idle"
          BY <4>1 DEF NoPursuit, PursuitFields
        <4>3. p \notin t.written
          BY <1>1, <2>2, <3>1, <3>3 DEF Tidy, Inside
        <4> QED
          BY <4>2, <4>3 DEF Tidy
      <3> QED
        BY <3>2, <3>3
    <2>4. TidyAll(t)
      BY <1>1, <2>2, <2>3 DEF TidyAll, TidyOn, Shaped
    <2> QED
      BY <2>1, <2>4, OneTidy
  <1> QED
    BY <1>3, <1>4, <1>5, <1>6, <1>7, <1>8, <1>9 DEF HandlerStep

LEMMA SentinelInvTheorem == Spec => []SentinelInv
  <1>1. Init => SentinelInv
    <2> SUFFICES ASSUME Init PROVE SentinelInv
      OBVIOUS
    <2>1. Shaped(Now)
      BY InitGood DEF FenceInv, Good, Kept
    <2>2. written = {} /\ \A q \in Pursuits : run[q].at = "idle"
      BY DEF Init, NoPursuit
    <2> QED
      BY <2>1, <2>2, NowFacts DEF SentinelInv, TidyAll, TidyOn, Tidy
  <1>2. SentinelInv /\ [Next]_vars => SentinelInv'
    <2> SUFFICES ASSUME SentinelInv, [Next]_vars PROVE SentinelInv'
      OBVIOUS
    <2>1. CASE UNCHANGED vars
      BY <2>1 DEF vars, SentinelInv, TidyAll, TidyOn, Tidy, Shaped, Now
    <2>2. CASE Next
      BY <2>2, AttemptStepsTidy, RequestStepsTidy, HandlerStepsTidy DEF Next
    <2> QED
      BY <2>1, <2>2
  <1> QED
    BY <1>1, <1>2, PTL DEF Spec

-----------------------------------------------------------------------------
(* Continuations.  A turn that finds one accepted raises no signal, unless   *)
(* it is a request that takes the slot over or one that prepares nothing:    *)
(* every other operator reads the slot last, in TakeParked (Heeds).          *)

SlotFields == {"at", "hooks", "key", "skip"}

Form(s) == Shaped(s) /\ DOMAIN s.slot = SlotFields
Heeds(s, t) == Form(t) /\ (t.signal => s.signal \/ s.slot.hooks = NoHook)
SameSlot(s, t) == Form(t) /\ t.signal = s.signal /\ t.slot = s.slot

AllFormed(S) == \A t \in S : Form(t)
AllHeed(s, S) == \A t \in S : Heeds(s, t)

LEMMA SameSlotHeeds ==
    ASSUME NEW s, NEW t, SameSlot(s, t)
    PROVE  Heeds(s, t) /\ \A u : Heeds(t, u) => Heeds(s, u)
  BY DEF SameSlot, Heeds

LEMMA SameSlotAllHeed ==
    ASSUME NEW s, NEW t, SameSlot(s, t), NEW S, AllHeed(t, S)
    PROVE  AllHeed(s, S)
  BY SameSlotHeeds DEF AllHeed

\* Whatever an attempt writes about itself leaves the slot alone.
LEMMA RunSameSlot ==
    ASSUME NEW s, Form(s), NEW p \in Pursuits, NEW r, DOMAIN r = PursuitFields
    PROVE  SameSlot(s, [s EXCEPT !.run[p] = r])
  BY DEF SameSlot, Form, Shaped, Fields

LEMMA ClearPollsSameSlot ==
    ASSUME NEW s, Form(s) PROVE SameSlot(s, ClearPolls(s))
  <1>1. Shaped(s) /\ Shaped(ClearPolls(s)) /\ ClearPolls(s).signal = s.signal
    BY ClearPollsFacts DEF Form
  <1>2. ClearPolls(s).slot = s.slot
    BY <1>1 DEF ClearPolls, Shaped, Fields
  <1> QED
    BY <1>1, <1>2 DEF SameSlot, Form

LEMMA RollbackSameSlot ==
    ASSUME NEW s, Form(s), NEW p \in Pursuits
    PROVE  SameSlot(s, RollbackFence(s, p))
  <1>1. Shaped(s) /\ Shaped(RollbackFence(s, p))
    BY RollbackHooks DEF Form, SameHooks
  <1>2. RollbackFence(s, p).signal = s.signal /\ RollbackFence(s, p).slot = s.slot
    BY <1>1 DEF RollbackFence, Shaped, Fields
  <1> QED
    BY <1>1, <1>2 DEF SameSlot, Form

LEMMA FinishSameSlot ==
    ASSUME NEW s, Form(s), NEW p \in Pursuits, NEW a
    PROVE  SameSlot(s, Finish(s, p, a))
  <1>1. PICK r : /\ r = NoPursuit \/ r = [NoPursuit EXCEPT !.kind = s.run[p].kind, !.poll = TRUE]
                 /\ Finish(s, p, a) = [s EXCEPT !.run[p] = r]
    BY DEF Finish
  <1>2. DOMAIN r = PursuitFields
    BY <1>1 DEF NoPursuit, PursuitFields
  <1> QED
    BY <1>1, <1>2, RunSameSlot

LEMMA LeftSameSlot ==
    ASSUME NEW s, Form(s), NEW p \in Pursuits, NEW a
    PROVE  SameSlot(s, Finish(RollbackFence(s, p), p, a))
  <1> DEFINE e == RollbackFence(s, p)
  <1>1. SameSlot(s, e)
    BY RollbackSameSlot
  <1> HIDE DEF e
  <1>2. SameSlot(e, Finish(e, p, a))
    BY <1>1, FinishSameSlot DEF SameSlot
  <1>3. SameSlot(s, Finish(e, p, a))
    BY <1>1, <1>2 DEF SameSlot
  <1> QED
    BY <1>3 DEF e

LEMMA BailSameSlot ==
    ASSUME NEW s, Form(s), NEW p \in Pursuits
    PROVE  SameSlot(s, Bail(s, p))
  <1> DEFINE e == [s EXCEPT !.written = @ \ {p}]
  <1>1. SameSlot(s, e)
    BY DEF SameSlot, Form, Shaped, Fields
  <1>2. Bail(s, p) = Finish(RollbackFence(e, p), p, FALSE)
    BY DEF Bail
  <1> HIDE DEF e
  <1>3. Form(e)
    BY <1>1 DEF SameSlot
  <1>4. SameSlot(e, Bail(s, p))
    BY <1>2, <1>3, LeftSameSlot
  <1> QED
    BY <1>1, <1>4 DEF SameSlot

LEMMA EmitFencedForm ==
    ASSUME NEW s, Form(s), NEW e \in EmitFenced(s)
    PROVE  Form(e)
  <1> DEFINE c == [ClearPolls(s) EXCEPT !.slot = EmptySlot]
             f == Faulty(c)
             g == [c EXCEPT !.signal = TRUE, !.auth = @ + 1, !.handlers = @ + 1]
  <1>1. Shaped(e)
    BY EmitFencedHooks DEF Form
  <1>2. Shaped(ClearPolls(s))
    BY ClearPollsFacts DEF Form
  <1>3. Form(c)
    BY <1>2 DEF Form, Shaped, Fields, EmptySlot, SlotFields
  <1>4. PICK x \in EmitSignal(s) : e = IF x.signal THEN x ELSE ClearLease(x)
    BY DEF EmitFenced
  <1>5. x \in {c, f, g}
    BY <1>4 DEF EmitSignal
  <1>6. x.slot = c.slot
    <2> HIDE DEF c
    <2> QED
      BY <1>3, <1>5 DEF Faulty, Form, Shaped, Fields
  <1>7. DOMAIN x = Fields
    <2> HIDE DEF c
    <2> QED
      BY <1>3, <1>5 DEF Faulty, Form, Shaped, Fields
  <1>8. e.slot = x.slot
    BY <1>4, <1>7 DEF ClearLease, Fields
  <1> HIDE DEF c
  <1> QED
    BY <1>1, <1>3, <1>6, <1>8 DEF Form

LEMMA BeginSameSlot ==
    ASSUME NEW s, Form(s)
    PROVE  SameSlot(s, Begin(s)) /\ SameSlot(s, Reopen(s))
  BY DEF SameSlot, Form, Begin, Reopen, Shaped, Fields

LEMMA RequestEmissionForm ==
    ASSUME NEW s, Form(s)
    PROVE  AllFormed(RequestEmission(s))
  <1> DEFINE o == IF s.signal THEN s ELSE Reopen(s)
             b == Begin(o)
  <1>1. Form(o)
    BY BeginSameSlot DEF SameSlot
  <1>2. RequestEmission(s) = IF s.lease # 0 THEN EmitFenced(s)
                             ELSE IF CanBegin(o) THEN EmitFenced(b) ELSE {o}
    BY DEF RequestEmission
  <1> HIDE DEF o
  <1>3. Form(b)
    BY <1>1, BeginSameSlot DEF SameSlot
  <1> HIDE DEF b
  <1>4. AllFormed(EmitFenced(s)) /\ AllFormed(EmitFenced(b)) /\ AllFormed({o})
    BY <1>1, <1>3, EmitFencedForm DEF AllFormed
  <1> QED
    BY <1>2, <1>4

LEMMA EmissionForm ==
    ASSUME NEW s, Form(s), NEW p \in Pursuits
    PROVE  AllFormed(Emission(s, p))
  <1> DEFINE c == [s EXCEPT !.slot.key = NoKey, !.written = @ \ {p}]
             E == IF s.run[p].kind = "reload" THEN ReloadEmission(c, p)
                                              ELSE RequestEmission(c)
  <1>1. Form(c)
    BY DEF Form, Shaped, Fields, SlotFields
  <1>2. Emission(s, p) = {Finish(RollbackFence(e, p), p, TRUE) : e \in E}
    BY Zenon DEF Emission
  <1> HIDE DEF c
  <1>3. AllFormed(RequestEmission(c))
    BY <1>1, RequestEmissionForm
  <1>4. Form(Faulty(c))
    BY <1>1 DEF Form, Faulty, Shaped, Fields
  <1>5. AllFormed(ReloadEmission(c, p))
    BY <1>1, <1>3, <1>4 DEF ReloadEmission, AllFormed
  <1>6. AllFormed(E)
    BY <1>3, <1>5
  <1> HIDE DEF E
  <1>7. ASSUME NEW x \in Emission(s, p) PROVE Form(x)
    <2>1. PICK e \in E : x = Finish(RollbackFence(e, p), p, TRUE)
      BY <1>2, <1>7
    <2>2. Form(e)
      BY <1>6 DEF AllFormed
    <2> QED
      BY <2>1, <2>2, LeftSameSlot DEF SameSlot
  <1> QED
    BY <1>7 DEF AllFormed

LEMMA TakeParkedHeeds ==
    ASSUME NEW s, Form(s), NEW p \in Pursuits
    PROVE  AllHeed(s, TakeParked(s, p))
  <1> DEFINE h == s.slot.hooks
             a == IF s.run[p].held = NoHook THEN "parked" ELSE "replacing"
             t == [s EXCEPT !.slot.hooks = NoHook, !.run[p].next = h, !.run[p].at = a]
  <1>1. TakeParked(s, p) = IF h = NoHook THEN Emission(s, p) ELSE {t}
    BY DEF TakeParked
  <1>2. Form(t) /\ t.signal = s.signal
    BY DEF Form, Shaped, Fields, SlotFields, PursuitFields
  <1> HIDE DEF t
  <1>3. CASE h = NoHook
    BY <1>1, <1>3, EmissionForm DEF AllHeed, AllFormed, Heeds
  <1>4. CASE h # NoHook
    BY <1>1, <1>2, <1>4 DEF AllHeed, Heeds
  <1> QED
    BY <1>3, <1>4

LEMMA BodyHeeds ==
    ASSUME NEW s, Form(s), NEW p \in Pursuits
    PROVE  AllHeed(s, Body(s, p))
  <1> DEFINE t == [s EXCEPT !.run[p].at = "caller"]
  <1>1. SameSlot(s, t)
    BY DEF SameSlot, Form, Shaped, Fields, PursuitFields
  <1> HIDE DEF t
  <1>2. AllHeed(s, {t})
    BY <1>1, SameSlotHeeds DEF AllHeed
  <1>3. Body(s, p) = IF s.run[p].kind = "reload" THEN {t} ELSE TakeParked(s, p)
    BY DEF Body, t
  <1> QED
    BY <1>2, <1>3, TakeParkedHeeds

LEMMA EnterHeeds ==
    ASSUME NEW s, Form(s), NEW p \in Pursuits
    PROVE  AllHeed(s, Enter(s, p))
  <1> DEFINE e == Leased(s, p)
             b == [e EXCEPT !.run[p].checked = FALSE]
  <1>1. SameSlot(s, e)
    <2> DEFINE d == IF s.lease = 0 THEN Begin(s) ELSE s
    <2>1. SameSlot(s, d)
      BY BeginSameSlot DEF SameSlot
    <2>2. e = [d EXCEPT !.run[p].lease = d.lease, !.run[p].owns = (s.lease = 0),
                        !.run[p].live = TRUE]
      BY DEF Leased
    <2> HIDE DEF d, e
    <2> QED
      BY <2>1, <2>2 DEF SameSlot, Form, Shaped, Fields, PursuitFields
  <1> HIDE DEF e
  <1>2. SameSlot(s, b)
    BY <1>1 DEF SameSlot, Form, Shaped, Fields, PursuitFields
  <1>3. ASSUME NEW x \in Enter(s, p)
        PROVE  \/ x = Finish(s, p, FALSE) \/ x \in Body(b, p)
               \/ x = Finish(RollbackFence(e, p), p, FALSE)
    <2>1. CASE s.signal
      BY <1>3, <2>1 DEF Enter
    <2>2. CASE ~s.signal
      <3>1. Enter(s, p) = UNION {Body([d EXCEPT !.run[p].checked = FALSE], p)
                                  \cup (IF d.run[p].checked
                                        THEN {Finish(RollbackFence(d, p), p, FALSE)} ELSE {}) :
                                  d \in {Leased(s, p)}}
        BY <2>2, Zenon DEF Enter
      <3>2. x \in Body(b, p) \cup (IF e.run[p].checked
                                   THEN {Finish(RollbackFence(e, p), p, FALSE)} ELSE {})
        BY <1>3, <3>1, Zenon DEF e, b
      <3> QED
        BY <3>2, Zenon
    <2> QED
      BY <2>1, <2>2
  <1> HIDE DEF b
  <1>4. AllHeed(s, Body(b, p))
    BY <1>2, BodyHeeds, SameSlotAllHeed DEF SameSlot
  <1>5. Heeds(s, Finish(s, p, FALSE))
    BY FinishSameSlot, SameSlotHeeds
  <1>6. Heeds(s, Finish(RollbackFence(e, p), p, FALSE))
    <2>1. SameSlot(e, Finish(RollbackFence(e, p), p, FALSE))
      BY <1>1, LeftSameSlot DEF SameSlot
    <2> QED
      BY <1>1, <2>1, SameSlotHeeds
  <1> QED
    BY <1>3, <1>4, <1>5, <1>6 DEF AllHeed

LEMMA AdmissionHeeds ==
    ASSUME NEW s, Form(s), NEW p \in Pursuits
    PROVE  AllHeed(s, Admission(s, p))
  <1> DEFINE t == [s EXCEPT !.run[p].at = "waiting"]
  <1>1. SameSlot(s, t)
    BY DEF SameSlot, Form, Shaped, Fields, PursuitFields
  <1>2. Admission(s, p) = IF s.draining THEN {Finish(s, p, TRUE)}
                          ELSE IF Open(s) THEN Enter(s, p) ELSE {t}
    BY DEF Admission
  <1> HIDE DEF t
  <1>3. AllHeed(s, {t}) /\ AllHeed(s, {Finish(s, p, TRUE)})
    BY <1>1, FinishSameSlot, SameSlotHeeds DEF AllHeed
  <1> QED
    BY <1>2, <1>3, EnterHeeds

LEMMA AttemptHeeds ==
    ASSUME NEW s, Form(s), NEW p \in Pursuits, NEW checked
    PROVE  AllHeed(s, Attempt(s, p, checked))
  <1> DEFINE t == [s EXCEPT !.run[p].checked = checked]
  <1>1. SameSlot(s, t)
    BY DEF SameSlot, Form, Shaped, Fields, PursuitFields
  <1> HIDE DEF t
  <1>2. Attempt(s, p, checked) = Admission(t, p)
    <2>1. Attempt(s, p, checked) = UNION {Admission(u, p) : u \in {t}}
      BY Zenon DEF Attempt, t
    <2> QED
      BY <2>1, Zenon
  <1> QED
    BY <1>1, <1>2, AdmissionHeeds, SameSlotAllHeed DEF SameSlot

LEMMA StoppedSameSlot ==
    ASSUME NEW s, Form(s), NEW p \in Pursuits
    PROVE  SameSlot(s, Stopped(s, p))
  BY DEF SameSlot, Stopped, Form, Shaped, Fields, PursuitFields, NoPursuit

LEMMA DeferHeeds ==
    ASSUME NEW s, Form(s), NEW p \in Pursuits, NEW kind
    PROVE  AllHeed(s, Defer(s, p, kind))
  <1> DEFINE r == [NoPursuit EXCEPT !.kind = kind, !.poll = TRUE]
             d == [s EXCEPT !.run[p] = r]
  <1>1. DOMAIN r = PursuitFields
    BY DEF NoPursuit, PursuitFields
  <1>2. Defer(s, p, kind) = {d} \cup Attempt(d, p, TRUE)
    <2>1. Defer(s, p, kind) = UNION {{x} \cup Attempt(x, p, TRUE) : x \in {d}}
      BY Zenon DEF Defer, d, r
    <2> QED
      BY <2>1, Zenon
  <1> HIDE DEF r
  <1>3. SameSlot(s, d)
    BY <1>1, RunSameSlot
  <1> HIDE DEF d
  <1>4. AllHeed(s, Attempt(d, p, TRUE))
    BY <1>3, AttemptHeeds, SameSlotAllHeed DEF SameSlot
  <1>5. Heeds(s, d)
    BY <1>3, SameSlotHeeds
  <1> QED
    BY <1>2, <1>4, <1>5 DEF AllHeed

LEMMA SlotAttemptHeeds ==
    ASSUME NEW s, Form(s), NEW p \in Pursuits
    PROVE  AllHeed(s, Attempt([s EXCEPT !.run[p].kind = "slot"], p, FALSE))
  <1> DEFINE t == [s EXCEPT !.run[p].kind = "slot"]
  <1>1. SameSlot(s, t)
    BY DEF SameSlot, Form, Shaped, Fields, PursuitFields
  <1> HIDE DEF t
  <1>2. AllHeed(s, Attempt(t, p, FALSE))
    BY <1>1, AttemptHeeds, SameSlotAllHeed DEF SameSlot
  <1> QED
    BY <1>2 DEF t

\* A request keeps the slot a slot; one that does not bypass emits nothing.
LEMMA ScheduledForm ==
    ASSUME NEW s, Form(s), s.run = run, NEW c, Deferred(s) /\ c.skip => Free # {}
    PROVE  AllFormed(Scheduled(s, c))
  <1>1. Shaped(s) /\ DOMAIN s.slot = SlotFields
    BY DEF Form
  <1>2. Form([s EXCEPT !.slot = Requested(c)])
    BY <1>1 DEF Form, Shaped, Fields, Requested, SlotFields
  <1>3. Form(PullEarlier(s, c))
    <2>1. ASSUME NEW x, DOMAIN x = SlotFields PROVE Form([s EXCEPT !.slot = x])
      BY <1>1, <2>1 DEF Form, Shaped, Fields
    <2> DEFINE x == IF Preserves(s, c) THEN [s.slot EXCEPT !.skip = c.skip]
                    ELSE IF CanReplace(s, c) THEN Requested(c)
                    ELSE [s.slot EXCEPT !.skip = s.slot.skip \/ c.skip]
    <2>2. DOMAIN x = SlotFields
      BY <1>1 DEF Requested, SlotFields
    <2>3. PullEarlier(s, c) = [s EXCEPT !.slot = x]
      BY <1>1 DEF PullEarlier, Shaped, Fields
    <2> HIDE DEF x
    <2> QED
      BY <2>1, <2>2, <2>3
  <1>4. Form(Coalesce(s, c))
    BY <1>1 DEF Form, Shaped, Fields, SlotFields, Coalesce
  <1>5. ASSUME Deferred(s) /\ c.skip PROVE AllFormed(BypassDeferral(s, c))
    <2> DEFINE a == ClearPolls(s)
               q == IF Preserves(s, c) THEN a
                    ELSE [a EXCEPT !.slot.hooks = c.hooks, !.slot.key = c.key]
    <2>1. Unused \in Pursuits
      BY <1>5, UnusedFacts
    <2>2. Form(a)
      BY ClearPollsSameSlot DEF SameSlot
    <2> HIDE DEF a
    <2>3. Form(q)
      BY <2>2 DEF Form, Shaped, Fields, SlotFields
    <2>4. BypassDeferral(s, c) = Attempt([q EXCEPT !.run[Unused].kind = "slot"], Unused, FALSE)
      BY DEF BypassDeferral, a
    <2> HIDE DEF q
    <2>5. AllHeed(q, BypassDeferral(s, c))
      BY <2>1, <2>3, <2>4, SlotAttemptHeeds
    <2> QED
      BY <2>5 DEF AllHeed, AllFormed, Heeds
  <1> QED
    BY <1>2, <1>3, <1>4, <1>5 DEF Scheduled, AllFormed

LEMMA PlainCallEmitsNothing ==
    ASSUME NEW s, Form(s), ~s.signal, NEW t \in Scheduled(s, PlainCall)
    PROVE  ~t.signal
  <1>1. ~PlainCall.skip
    BY DEF PlainCall
  <1>2. t \in {s, [s EXCEPT !.slot = Requested(PlainCall)],
               PullEarlier(s, PlainCall), Coalesce(s, PlainCall)}
    BY <1>1 DEF Scheduled
  <1> QED
    BY <1>2 DEF PullEarlier, Coalesce, Form, Shaped, Fields

\* What an action does with the record it commits.
Continued ==
    /\ Form(Now)'
    /\ signal' => signal \/ slot.hooks = NoHook \/ Direct \/ \E c \in Calls : Schedule(c)

LEMMA CommitForm == ASSUME NEW s, Form(s), Commit(s) PROVE Form(Now)' /\ signal' = s.signal
  BY DEF Form, Shaped, Commit, Now, Fields, SlotFields

LEMMA TurnHeeds ==
    ASSUME NEW S, AllHeed(Now, S), Turn(S)
    PROVE  Continued
  <1>1. PICK s \in S : Commit(s)
    BY DEF Turn
  <1>2. Heeds(Now, s)
    BY DEF AllHeed
  <1> QED
    BY <1>1, <1>2, CommitForm, NowFacts DEF Heeds, Continued

LEMMA TurnSameSlot == ASSUME NEW s, SameSlot(Now, s), Turn({s}) PROVE Continued
  BY SameSlotHeeds, TurnHeeds DEF AllHeed

LEMMA AttemptStepsHeed ==
    ASSUME Form(Now), NEW p \in Pursuits,
           Wake(p) \/ PursuitStep(p) \/ PollIdle(p) \/ PollLate(p) \/ ReloadCancelled(p)
    PROVE  Continued
  <1>1. ASSUME NEW s, SameSlot(Now, s),
               Turn(IF Current(s, p) THEN TakeParked(s, p) ELSE {Bail(s, p)})
        PROVE  Continued
    <2>1. Form(s)
      BY <1>1 DEF SameSlot
    <2>2. AllHeed(Now, TakeParked(s, p))
      BY <1>1, <2>1, TakeParkedHeeds, SameSlotAllHeed
    <2>3. AllHeed(s, {Bail(s, p)})
      BY <2>1, BailSameSlot, SameSlotHeeds DEF AllHeed
    <2>4. AllHeed(Now, {Bail(s, p)})
      BY <1>1, <2>3, SameSlotAllHeed
    <2> QED
      BY <1>1, <2>2, <2>4, TurnHeeds
  <1>2. CASE Wake(p)
    BY <1>2, AdmissionHeeds, TurnHeeds DEF Wake
  <1>3. CASE CallerReturns(p)
    <2>1. SameSlot(Now, Now)
      BY DEF SameSlot
    <2> QED
      BY <1>1, <1>3, <2>1 DEF CallerReturns
  <1>4. CASE ParkedReturns(p)
    <2>1. PICK thrown \in BOOLEAN :
             LET s == Prepared(p, thrown) IN
             Turn(IF Current(s, p) THEN TakeParked(s, p) ELSE {Bail(s, p)})
      BY <1>4, Zenon DEF ParkedReturns
    <2>2. SameSlot(Now, Prepared(p, thrown))
      BY DEF SameSlot, Form, Shaped, Fields, PursuitFields, Prepared
    <2> QED
      BY <1>1, <2>1, <2>2
  <1>5. CASE ReplacedIsTold(p)
    <2> DEFINE s == [Now EXCEPT !.written = @ \ {p}, !.run[p].held = NoHook]
               t == [s EXCEPT !.run[p].at = "parked"]
    <2>1. Turn({IF Current(s, p) THEN t ELSE Bail(s, p)})
      BY <1>5 DEF ReplacedIsTold
    <2>2. SameSlot(Now, s)
      BY DEF SameSlot, Form, Shaped, Fields, PursuitFields
    <2> HIDE DEF s
    <2>3. Form(s)
      BY <2>2 DEF SameSlot
    <2>4. SameSlot(s, t)
      BY <2>3 DEF SameSlot, Form, Shaped, Fields, PursuitFields
    <2>5. SameSlot(s, Bail(s, p))
      BY <2>3, BailSameSlot
    <2> HIDE DEF t
    <2>6. SameSlot(Now, IF Current(s, p) THEN t ELSE Bail(s, p))
      BY <2>2, <2>4, <2>5 DEF SameSlot
    <2> QED
      BY <2>1, <2>6, TurnSameSlot
  <1>6. CASE PollIdle(p)
    BY <1>6, AttemptHeeds, TurnHeeds DEF PollIdle
  <1>7. CASE PollLate(p)
    <2> DEFINE s == Stopped(Now, p)
    <2>1. Turn(IF run[p].at = "idle" THEN Attempt(s, p, FALSE) ELSE {s})
      BY <1>7 DEF PollLate
    <2>2. SameSlot(Now, s)
      BY StoppedSameSlot
    <2> HIDE DEF s
    <2>3. Form(s)
      BY <2>2 DEF SameSlot
    <2>4. AllHeed(Now, Attempt(s, p, FALSE))
      BY <2>2, <2>3, AttemptHeeds, SameSlotAllHeed
    <2> QED
      BY <2>1, <2>2, <2>4, TurnHeeds, TurnSameSlot
  <1>8. CASE ReloadCancelled(p)
    <2> DEFINE s == [Now EXCEPT !.run[p].cancelled = TRUE]
               f == IF Inside(p) THEN RollbackFence(s, p) ELSE s
               t == IF run[p].at = "idle" THEN [f EXCEPT !.run[p] = NoPursuit]
                    ELSE [f EXCEPT !.run[p].poll = FALSE]
    <2>1. Turn({t})
      BY <1>8 DEF ReloadCancelled
    <2>2. SameSlot(Now, s)
      BY DEF SameSlot, Form, Shaped, Fields, PursuitFields
    <2> HIDE DEF s
    <2>3. Form(s)
      BY <2>2 DEF SameSlot
    <2>4. SameSlot(s, RollbackFence(s, p))
      BY <2>3, RollbackSameSlot
    <2>5. SameSlot(Now, f)
      BY <2>2, <2>4 DEF SameSlot
    <2> HIDE DEF f
    <2>6. SameSlot(f, t)
      BY <2>5 DEF SameSlot, Form, Shaped, Fields, PursuitFields, NoPursuit
    <2> HIDE DEF t
    <2>7. SameSlot(Now, t)
      BY <2>5, <2>6 DEF SameSlot
    <2> QED
      BY <2>1, <2>7, TurnSameSlot
  <1> QED
    BY <1>2, <1>3, <1>4, <1>5, <1>6, <1>7, <1>8 DEF PursuitStep

LEMMA RequestStepsHeed ==
    ASSUME Form(Now),
           \/ \E c \in Calls : Schedule(c)
           \/ TimerFires \/ ReloadDefers \/ Direct \/ Suspend \/ Resume
    PROVE  Continued
  <1>1. ASSUME NEW S, AllFormed(S), Turn(S) PROVE Form(Now)'
    BY <1>1, CommitForm DEF AllFormed, Turn
  <1>2. CASE \E c \in Calls : Schedule(c)
    <2>1. PICK c \in Calls : Schedule(c)
      BY <1>2
    <2>2. AllFormed(Scheduled(Now, c))
      BY <2>1, ScheduledForm, NowFacts DEF Schedule
    <2> QED
      BY <1>1, <1>2, <2>1, <2>2 DEF Schedule, Continued
  <1>3. CASE TimerFires
    <2> DEFINE s == [Now EXCEPT !.slot.at = "preparing", !.slot.skip = FALSE]
               S == IF slot.skip
                    THEN Attempt([s EXCEPT !.run[Unused].kind = "slot"], Unused, FALSE)
                    ELSE Defer(s, Unused, "slot")
    <2>1. Turn(S) /\ Unused \in Pursuits
      BY <1>3, UnusedFacts DEF TimerFires
    <2>2. Form(s) /\ s.signal = signal /\ s.slot.hooks = slot.hooks
      BY NowFacts DEF Form, Shaped, Fields, SlotFields
    <2> HIDE DEF s
    <2>3. AllHeed(s, S)
      BY <2>1, <2>2, SlotAttemptHeeds, DeferHeeds
    <2> HIDE DEF S
    <2>4. AllHeed(Now, S)
      BY <2>2, <2>3, NowFacts DEF AllHeed, Heeds
    <2> QED
      BY <2>1, <2>4, TurnHeeds
  <1>4. CASE ReloadDefers
    <2>1. AllHeed(Now, Defer(Now, Unused, "reload"))
      BY <1>4, UnusedFacts, DeferHeeds DEF ReloadDefers
    <2> QED
      BY <1>4, <2>1, TurnHeeds DEF ReloadDefers
  <1>5. CASE Direct
    BY <1>1, <1>5, RequestEmissionForm DEF Direct, Continued
  <1>6. ASSUME NEW b, Turn({[Now EXCEPT !.suspended = b]}) PROVE Continued
    <2>1. SameSlot(Now, [Now EXCEPT !.suspended = b])
      BY DEF SameSlot, Form, Shaped, Fields
    <2> QED
      BY <1>6, <2>1, TurnSameSlot
  <1> QED
    BY <1>2, <1>3, <1>4, <1>5, <1>6 DEF Suspend, Resume

LEMMA HandlerStepsHeed ==
    ASSUME Form(Now),
           \/ HandlerStep \/ HandlerFails \/ OutsideSignal
           \/ AuthorizationExpires \/ LifecycleReset
    PROVE  Continued
  <1>1. ASSUME NEW t, Heeds(Now, t), Turn({t}) PROVE Continued
    BY <1>1, TurnHeeds DEF AllHeed
  <1>2. CASE HandleAuthorized
    <2> DEFINE t == Handled(MarkHandled(Drain([Now EXCEPT !.auth = @ - 1])))
    <2>1. Turn({t})
      BY <1>2 DEF HandleAuthorized
    <2>2. Heeds(Now, t)
      BY DEF Heeds, Form, Shaped, Handled, MarkHandled, ClearLease, Drain, Fields
    <2> HIDE DEF t
    <2> QED
      BY <1>1, <2>1, <2>2
  <1>3. Form(Handled(MarkHandled(Now))) /\ ~Handled(MarkHandled(Now)).signal
        /\ Handled(MarkHandled(Now)).run = run
    BY NowFacts DEF Form, Shaped, Handled, MarkHandled, ClearLease, Fields
  <1>4. CASE HandleRefused
    BY <1>1, <1>3, <1>4 DEF HandleRefused, Heeds
  <1>5. CASE HandleOutside
    <2> DEFINE s == Handled(MarkHandled(Now))
    <2>1. Turn(Scheduled(s, PlainCall))
      BY <1>5 DEF HandleOutside
    <2>2. Form(s) /\ ~s.signal /\ s.run = run
      BY <1>3
    <2>3. ~PlainCall.skip
      BY DEF PlainCall
    <2> HIDE DEF s
    <2>4. AllFormed(Scheduled(s, PlainCall))
      BY <2>2, <2>3, ScheduledForm
    <2>5. AllHeed(Now, Scheduled(s, PlainCall))
      BY <2>2, <2>4, PlainCallEmitsNothing DEF AllFormed, AllHeed, Heeds
    <2> QED
      BY <2>1, <2>5, TurnHeeds
  <1>6. CASE HandlerFails
    <2> DEFINE t == Faulty(Handled(MarkHandled(Now)))
    <2>1. Turn({t})
      BY <1>6 DEF HandlerFails
    <2>2. Heeds(Now, t)
      BY DEF Heeds, Form, Shaped, Faulty, Handled, MarkHandled, ClearLease, Fields
    <2> HIDE DEF t
    <2> QED
      BY <1>1, <2>1, <2>2
  <1>7. CASE OutsideSignal
    <2> DEFINE t == Faulty([Now EXCEPT !.handlers = @ + 1])
    <2>1. Turn({t})
      BY <1>7 DEF OutsideSignal
    <2>2. Heeds(Now, t)
      BY DEF Heeds, Form, Shaped, Faulty, Fields
    <2> HIDE DEF t
    <2> QED
      BY <1>1, <2>1, <2>2
  <1>8. CASE AuthorizationExpires
    <2> DEFINE t == Faulty([Now EXCEPT !.auth = 0])
    <2>1. Turn({t})
      BY <1>8 DEF AuthorizationExpires
    <2>2. Heeds(Now, t)
      BY DEF Heeds, Form, Shaped, Faulty, Fields
    <2> HIDE DEF t
    <2> QED
      BY <1>1, <2>1, <2>2
  <1>9. CASE LifecycleReset
    <2> DEFINE R == [p \in Pursuits |->
                        IF Inside(p) THEN [run[p] EXCEPT !.poll = FALSE, !.stale = TRUE]
                        ELSE NoPursuit]
               t == [Now EXCEPT !.draining = FALSE, !.fence = 0, !.lease = 0,
                          !.signal = FALSE, !.auth = 0, !.slot = EmptySlot,
                          !.suspended = FALSE, !.run = R]
    <2>1. Turn({t})
      BY <1>9, NowFacts DEF LifecycleReset
    <2>2. DOMAIN R = Pursuits /\ \A p \in Pursuits : DOMAIN R[p] = PursuitFields
      BY NowFacts DEF Form, Shaped, NoPursuit, PursuitFields
    <2> HIDE DEF R
    <2>3. Heeds(Now, t)
      BY <2>2 DEF Heeds, Form, Shaped, Fields, EmptySlot, SlotFields
    <2> HIDE DEF t
    <2> QED
      BY <1>1, <2>1, <2>3
  <1> QED
    BY <1>2, <1>4, <1>5, <1>6, <1>7, <1>8, <1>9 DEF HandlerStep

LEMMA InitForm == Init => Form(Now)
  <1> SUFFICES ASSUME Init PROVE Form(Now)
    OBVIOUS
  <1>1. Shaped(Now)
    BY InitGood DEF FenceInv, Good, Kept
  <1> QED
    BY <1>1, NowFacts DEF Init, Form, EmptySlot, SlotFields

LEMMA NextForm == Form(Now) /\ [Next]_vars => Form(Now)' /\ (UNCHANGED vars \/ Continued)
  <1> SUFFICES ASSUME Form(Now), [Next]_vars
               PROVE  Form(Now)' /\ (UNCHANGED vars \/ Continued)
    OBVIOUS
  <1>1. CASE UNCHANGED vars
    BY <1>1 DEF vars, Form, Shaped, Now
  <1>2. CASE Next
    <2>1. Continued
      BY <1>2, AttemptStepsHeed, RequestStepsHeed, HandlerStepsHeed DEF Next
    <2> QED
      BY <2>1 DEF Continued
  <1> QED
    BY <1>1, <1>2

-----------------------------------------------------------------------------
(* Theorems *)

(***************************************************************************)
(* From the emission of a restart signal to the run loop's answer the      *)
(* gateway admits no root, and a handler is on its way: the leases of      *)
(* restart.ts and the fence of gateway-work-admission.ts never disagree.   *)
(***************************************************************************)
THEOREM SignalIsFencedTheorem == Spec => []SignalIsFenced
  <1>1. FenceInv => SignalIsFenced
    BY NowFacts DEF FenceInv, Good, Kept, Fenced, SignalIsFenced
  <1> QED
    BY <1>1, FenceInvTheorem, PTL

(***************************************************************************)
(* The restart fence is never left behind: without a signal in flight some *)
(* attempt that awaits inside its body holds the lease and is still        *)
(* current, so that it emits or rolls back.                                *)
(***************************************************************************)
THEOREM FenceIsOwnedTheorem == Spec => []FenceIsOwned
  <1>1. FenceInv => FenceIsOwned
    BY NowFacts DEF FenceInv, Good, Kept, OwnedBy, Owner, FenceIsOwned, Current
  <1> QED
    BY <1>1, FenceInvTheorem, PTL

(***************************************************************************)
(* Every sentinel that a continuation of emitPreparedGatewayRestart wrote  *)
(* is in the hands of an attempt that will withdraw it or emit for it.     *)
(***************************************************************************)
THEOREM WrittenIsHeldTheorem == Spec => []WrittenIsHeld
  <1>1. SentinelInv => WrittenIsHeld
    BY NowFacts DEF SentinelInv, TidyAll, TidyOn, Tidy, WrittenIsHeld
  <1> QED
    BY <1>1, SentinelInvTheorem, PTL

(***************************************************************************)
(* A restart is not emitted past a continuation that was accepted while    *)
(* the last one was prepared (the drain of parked hooks looks again after  *)
(* every await): only a request that takes the slot over, or one that      *)
(* prepares nothing, drops one.                                            *)
(***************************************************************************)
THEOREM ContinuationTheorem == Spec => ContinuationKept
  <1>1. Form(Now) /\ [Next]_vars
        => [~signal /\ signal' /\ slot.hooks # NoHook
            => Direct \/ \E c \in Calls : Schedule(c)]_vars
    BY NextForm DEF Continued
  <1>2. Form(Now) /\ [Next]_vars => Form(Now)'
    BY NextForm
  <1> QED
    BY <1>1, <1>2, InitForm, PTL DEF Spec, ContinuationKept
=============================================================================
