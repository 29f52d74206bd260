-------------------------- MODULE IngressDrainProofs --------------------------
(***************************************************************************)
(* Proofs about IngressDrain, for every set of events and claim tokens and *)
(* any number of faults: a turn that ran is not offered again, no claim is *)
(* orphaned, and a drain runs one turn per lane.                           *)
(*                                                                         *)
(* The invariant has three parts: what a handler may be (HandOK), how      *)
(* claims and handlers denote each other (Linked, Keeping), and which      *)
(* lanes the pass must have blocked (LanesOK).                             *)
(***************************************************************************)
EXTENDS IngressDrain, TLAPS

RowFields == {"status", "token", "fresh", "at", "attempts", "erred", "delayed"}
HandFields == {"event", "owner", "phase", "closed", "active", "occupies", "watched",
               "running", "final", "write", "tries", "stuck", "ran", "taken"}
PassFields == {"at", "pend", "late", "blocked", "got"}

Ops == {"complete", "fail", "cancel", "release"}
Turning == {"dispatching", "deferred", "adopted"}
Live == Turning \cup {"claimed", "dead"}

\* A handler: only a turn occupies, writes or runs, a turn that ran wants its
\* completion, and one that lost its claim is remembered until it is used again.
HandOK(h) ==
    /\ DOMAIN h = HandFields
    /\ h.phase \in Live \cup {"none", "settled"}
    /\ h.phase # "none" => h.event \in Events
    /\ h.occupies => h.phase \in Turning
    /\ h.active => h.phase \in Turning
    /\ h.running => h.phase \in Turning
    /\ h.write \in Ops \cup {"none"}
    /\ h.write # "none" => h.phase \in Turning
    /\ h.ran => h.phase \in {"adopted", "settled", "dead"} /\ h.write \in {"none", "complete"}
    /\ h.phase = "settled" => h.taken
    /\ h.phase \notin Turning \cup {"claimed"} => h.owner # "registered"
    /\ h.phase \in Turning /\ h.owner = "registered" => h.active

RowsOK(R) == DOMAIN R = Events /\ \A e \in Events : DOMAIN R[e] = RowFields
HandsOK(H) == DOMAIN H = Slots /\ \A t \in Slots : HandOK(H[t])

\* A claim of this drain has a handler ...
Linked(R, H) ==
    \A e \in Events : R[e].status = "claimed" /\ R[e].token # Sibling =>
        /\ R[e].token \in Slots
        /\ H[R[e].token].event = e /\ H[R[e].token].phase \in Live

\* ... and a handler has its claim, until somebody recovers it.
Owns(R, t, h) == R[h.event].status = "claimed" /\ R[h.event].token = t
Keeping(R, H) == \A t \in Slots : H[t].phase \in Live /\ ~H[t].taken => Owns(R, t, H[t])

\* Only the pass has a claim without a turn; a drain that stops is not registered.
Picked(H, P) == \A t \in Slots : H[t].phase = "claimed" => P.at = "claimed" /\ P.got = t
Retired(H, m) == m # "up" => \A t \in Slots : H[t].owner # "registered"

\* The pass has blocked the lanes that are taken, and not the one it claimed for.
LanesOK(H, P) ==
    /\ DOMAIN P = PassFields
    /\ P.at \in {"scanning", "claiming", "claimed"} =>
          \A t \in Slots : H[t].occupies => LaneOf[H[t].event] \in P.blocked
    /\ P.at = "claimed" => /\ P.got \in Slots /\ H[P.got].phase = "claimed"
                           /\ LaneOf[H[P.got].event] \notin P.blocked
    /\ \A t, u \in Slots : t # u /\ H[t].occupies /\ H[u].occupies =>
          LaneOf[H[t].event] # LaneOf[H[u].event]

\* The inductive invariant.
Core(R, H, m) ==
    RowsOK(R) /\ HandsOK(H) /\ Linked(R, H) /\ Keeping(R, H) /\ Retired(H, m)

IInv == Core(row, hand, mode) /\ Picked(hand, pass) /\ LanesOK(hand, pass)

-----------------------------------------------------------------------------
(* Lemmas about writes *)

LEMMA SlotIsNoSibling == \A t \in Slots : t # Sibling
  BY IngressAssumption DEF Sibling

LEMMA HeldOwns ==
    ASSUME NEW t \in Slots, hand[t].phase # "none"
    PROVE  Held(t) <=> Owns(row, t, hand[t])
  BY DEF Held, Owns

LEMMA NoHandlerOK == HandOK(NoHandler) /\ NoHandler.phase = "none" /\ ~NoHandler.occupies
                     /\ NoHandler.owner = "none"
  BY DEF HandOK, NoHandler, HandFields, Live, Turning, Ops

LEMMA AppliedFacts ==
    ASSUME NEW r, DOMAIN r = RowFields, NEW op \in Ops
    PROVE  /\ DOMAIN Applied(r, op) = RowFields
           /\ Applied(r, op).status # "claimed"
           /\ op = "complete" => Applied(r, op).status = "completed"
  <1>1. CASE op = "complete"
    BY <1>1 DEF Applied, NoRow, RowFields
  <1>2. CASE op = "fail"
    BY <1>2 DEF Applied, NoRow, RowFields
  <1>3. CASE op = "cancel"
    BY <1>3 DEF Applied, Freed, RowFields
  <1>4. CASE op = "release"
    BY <1>4 DEF Applied, Freed, RowFields
  <1> QED
    BY <1>1, <1>2, <1>3, <1>4 DEF Ops

\* What a handler that ended leaves behind
Over(h) == HandOK(h) /\ h.phase \in {"none", "settled"}

LEMMA OverFacts ==
    ASSUME NEW h, Over(h)
    PROVE  h.phase \notin Live /\ h.phase \notin Turning /\ h.phase # "claimed" /\ ~h.occupies
           /\ h.owner # "registered"
  BY DEF Over, HandOK, Live, Turning

LEMMA EndedOver ==
    ASSUME NEW h, h.event \in Events, h.ran => h.taken \/ row'[h.event].status = "completed"
    PROVE  Over(Ended(h))
  <1> DEFINE s == [NoHandler EXCEPT !.event = h.event, !.phase = "settled",
                                    !.ran = TRUE, !.taken = h.taken]
  <1>1. Over(NoHandler)
    BY NoHandlerOK DEF Over
  <1>2. ASSUME h.taken PROVE Over(s)
    BY <1>2 DEF Over, HandOK, NoHandler, HandFields, Live, Turning, Ops
  <1> QED
    BY <1>1, <1>2 DEF Ended

-----------------------------------------------------------------------------
(* Kinds of steps *)

\* A handler goes on, and so does its claim.
LEMMA GoesOn ==
    ASSUME Core(row, hand, mode), NEW t \in Slots, NEW h, HandOK(h),
           h.event = hand[t].event, h.taken = hand[t].taken,
           h.phase \in Turning, hand[t].phase \in Live,
           h.owner = "registered" => hand[t].owner = "registered",
           row' = row, hand' = [hand EXCEPT ![t] = h], mode' = mode
    PROVE  Core(row, hand, mode)'
  <1>1. HandsOK(hand)' /\ RowsOK(row)'
    BY DEF Core, HandsOK, RowsOK
  <1>2. Linked(row, hand)'
    BY DEF Core, HandsOK, Linked, Live
  <1>3. Keeping(row, hand)'
    BY DEF Core, HandsOK, Keeping, Owns, Live
  <1>4. Retired(hand, mode)'
    BY DEF Core, HandsOK, Retired
  <1> QED
    BY <1>1, <1>2, <1>3, <1>4 DEF Core

\* A handler ends, and so does its claim if it still had it.
LEMMA EndsWithClaim ==
    ASSUME Core(row, hand, mode), NEW t \in Slots, hand[t].phase \in Live,
           NEW h, Over(h), NEW r, DOMAIN r = RowFields, r.status # "claimed",
           row' = IF Held(t) THEN [row EXCEPT ![hand[t].event] = r] ELSE row,
           hand' = [hand EXCEPT ![t] = h], mode' = mode
    PROVE  Core(row, hand, mode)'
  <1> DEFINE e == hand[t].event
  <1>1. DOMAIN hand = Slots /\ HandOK(hand[t]) /\ e \in Events
    BY DEF Core, HandsOK, HandOK, Live, Turning
  <1>2. Held(t) <=> Owns(row, t, hand[t])
    BY HeldOwns DEF Live, Turning
  <1>3. RowsOK(row)'
    BY DEF Core, RowsOK
  <1>4. HandsOK(hand)'
    BY DEF Core, HandsOK, Over
  <1>5. ASSUME NEW f \in Events
        PROVE  row'[f] = row[f] \/ (f = e /\ row'[f].status # "claimed" /\ Held(t))
    BY <1>1 DEF Core, RowsOK
  <1>6. Linked(row, hand)'
    <2> SUFFICES ASSUME NEW f \in Events, row'[f].status = "claimed", row'[f].token # Sibling
                 PROVE  /\ row'[f].token \in Slots /\ hand'[row'[f].token].event = f
                        /\ hand'[row'[f].token].phase \in Live
      BY DEF Linked
    <2>1. row'[f] = row[f]
      BY <1>5
    <2>2. /\ row[f].token \in Slots /\ hand[row[f].token].event = f
          /\ hand[row[f].token].phase \in Live
      BY <2>1 DEF Core, Linked
    <2>3. row[f].token # t
      <3> SUFFICES ASSUME row[f].token = t PROVE FALSE
        OBVIOUS
      <3>1. Held(t) /\ f = e
        BY <1>2, <2>1, <2>2 DEF Owns
      <3>2. row'[f] = r
        BY <1>1, <3>1 DEF Core, RowsOK
      <3> QED
        BY <3>2
    <2> QED
      BY <1>1, <2>1, <2>2, <2>3
  <1>7. Keeping(row, hand)'
    <2> SUFFICES ASSUME NEW u \in Slots, hand'[u].phase \in Live, ~hand'[u].taken
                 PROVE  Owns(row', u, hand'[u])
      BY DEF Keeping
    <2>1. u # t /\ hand'[u] = hand[u]
      BY <1>1, OverFacts
    <2>2. Owns(row, u, hand[u])
      BY <2>1 DEF Core, Keeping
    <2>3. hand[u].event \in Events
      BY <2>1 DEF Core, HandsOK, HandOK, Live, Turning
    <2>4. row'[hand[u].event] = row[hand[u].event]
      BY <1>2, <1>5, <2>1, <2>2, <2>3 DEF Owns
    <2> QED
      BY <2>1, <2>2, <2>4 DEF Owns
  <1>8. Retired(hand, mode)'
    BY <1>1, OverFacts DEF Core, Retired
  <1> QED
    BY <1>3, <1>4, <1>6, <1>7, <1>8 DEF Core

\* No turn starts, and the pass stands still.
LEMMA LanesKept ==
    ASSUME LanesOK(hand, pass), pass' = pass,
           \A t \in Slots : hand'[t].occupies =>
               hand[t].occupies /\ hand'[t].event = hand[t].event,
           \A t \in Slots : hand[t].phase = "claimed" =>
               hand'[t].phase = "claimed" /\ hand'[t].event = hand[t].event
    PROVE  LanesOK(hand, pass)'
  BY DEF LanesOK

LEMMA PickedKept ==
    ASSUME Picked(hand, pass), pass' = pass,
           \A t \in Slots : hand'[t].phase = "claimed" => hand[t].phase = "claimed"
    PROVE  Picked(hand, pass)'
  BY DEF Picked

\* One turn changes in its own right.
LEMMA TurnKept ==
    ASSUME IInv, NEW t \in Slots, NEW h, HandOK(h),
           h.event = hand[t].event, h.taken = hand[t].taken, h.owner = hand[t].owner,
           h.phase \in Turning, hand[t].phase \in Turning,
           h.occupies => hand[t].occupies,
           row' = row, hand' = [hand EXCEPT ![t] = h], UNCHANGED <<pass, mode>>
    PROVE  IInv'
  <1>1. DOMAIN hand = Slots /\ hand[t].phase \in Live /\ hand[t].phase # "claimed"
    BY DEF IInv, Core, HandsOK, Live, Turning
  <1>2. Core(row, hand, mode)'
    BY <1>1, GoesOn DEF IInv
  <1>3. \A u \in Slots : hand'[u] = IF u = t THEN h ELSE hand[u]
    BY <1>1
  <1>4. LanesOK(hand, pass)'
    BY <1>1, <1>3, LanesKept DEF IInv
  <1>5. Picked(hand, pass)'
    BY <1>3, PickedKept DEF IInv, Turning
  <1> QED
    BY <1>2, <1>4, <1>5 DEF IInv

\* settleOnce writes, or fails to, for a turn
LEMMA WritesCore ==
    ASSUME IInv, NEW t \in Slots, hand[t].phase \in Turning,
           NEW h, HandOK(h), h.event = hand[t].event, h.taken = hand[t].taken,
           h.owner = hand[t].owner, h.phase \in Turning,
           NEW op \in Ops, h.ran => op = "complete",
           Commit(t, op, h) \/ Throws(t, op, h), mode' = mode
    PROVE  /\ Core(row, hand, mode)'
           /\ DOMAIN hand' = Slots
           /\ \A u \in Slots : u # t => hand'[u] = hand[u]
           /\ Over(hand'[t]) \/ (/\ hand'[t].phase = h.phase /\ hand'[t].event = h.event
                                 /\ hand'[t].occupies = h.occupies)
  <1>1. /\ DOMAIN hand = Slots /\ hand[t].phase \in Live /\ h.event \in Events
        /\ DOMAIN h = HandFields /\ DOMAIN row = Events /\ DOMAIN row[h.event] = RowFields
    BY DEF IInv, Core, RowsOK, HandsOK, HandOK, Live, Turning
  <1>2. CASE Throws(t, op, h)
    <2> DEFINE g == [h EXCEPT !.write = op, !.tries = @ + 1]
    <2>1. /\ DOMAIN g = HandFields /\ g.write = op /\ g.event = h.event /\ g.owner = h.owner
          /\ g.phase = h.phase /\ g.active = h.active /\ g.occupies = h.occupies
          /\ g.running = h.running /\ g.ran = h.ran /\ g.taken = h.taken
      BY <1>1 DEF HandFields
    <2>2. hand' = [hand EXCEPT ![t] = g] /\ row' = row
      BY <1>2 DEF Throws
    <2> HIDE DEF g
    <2>3. HandOK(g)
      BY <2>1 DEF HandOK, Ops
    <2>4. Core(row, hand, mode)'
      BY <1>1, <2>1, <2>2, <2>3, GoesOn DEF IInv
    <2> QED
      BY <1>1, <2>1, <2>2, <2>4
  <1>3. CASE Commit(t, op, h) /\ op = "complete" /\ ~Held(t)
    <2> DEFINE g == [h EXCEPT !.write = "none"]
    <2>1. /\ DOMAIN g = HandFields /\ g.write = "none" /\ g.event = h.event
          /\ g.owner = h.owner
          /\ g.phase = h.phase /\ g.active = h.active /\ g.occupies = h.occupies
          /\ g.running = h.running /\ g.ran = h.ran /\ g.taken = h.taken
      BY <1>1 DEF HandFields
    <2>2. hand' = [hand EXCEPT ![t] = g] /\ row' = row
      BY <1>3 DEF Commit
    <2> HIDE DEF g
    <2>3. HandOK(g)
      BY <2>1 DEF HandOK
    <2>4. Core(row, hand, mode)'
      BY <1>1, <2>1, <2>2, <2>3, GoesOn DEF IInv
    <2> QED
      BY <1>1, <2>1, <2>2, <2>4
  <1>4. CASE Commit(t, op, h) /\ (op = "complete" => Held(t))
    <2> DEFINE r == Applied(row[h.event], op)
    <2>1. /\ row' = IF Held(t) THEN [row EXCEPT ![hand[t].event] = r] ELSE row
          /\ hand' = [hand EXCEPT ![t] = Ended(h)]
      BY <1>4 DEF Commit
    <2>2. /\ DOMAIN r = RowFields /\ r.status # "claimed"
          /\ op = "complete" => r.status = "completed"
      BY <1>1, AppliedFacts
    <2> HIDE DEF r
    <2>3. h.ran => row'[h.event].status = "completed"
      BY <1>1, <1>4, <2>1, <2>2
    <2>4. Over(Ended(h))
      BY <1>1, <2>3, EndedOver
    <2>5. Core(row, hand, mode)'
      BY <1>1, <2>1, <2>2, <2>4, EndsWithClaim DEF IInv
    <2> QED
      BY <1>1, <2>1, <2>4, <2>5
  <1> QED
    BY <1>2, <1>3, <1>4

LEMMA SettleOnceCore ==
    ASSUME IInv, NEW t \in Slots, hand[t].phase \in Turning,
           NEW h, HandOK(h), h.event = hand[t].event, h.taken = hand[t].taken,
           h.owner = hand[t].owner, h.phase \in Turning,
           NEW op \in Ops, h.ran => op = "complete",
           SettleOnce(t, op, h), mode' = mode
    PROVE  /\ Core(row, hand, mode)'
           /\ DOMAIN hand' = Slots
           /\ \A u \in Slots : u # t => hand'[u] = hand[u]
           /\ Over(hand'[t]) \/ (/\ hand'[t].phase = h.phase /\ hand'[t].event = h.event
                                 /\ hand'[t].occupies = h.occupies)
  <1>1. CASE h.write = "none"
    <2> DEFINE g == [h EXCEPT !.tries = 0]
    <2>1. DOMAIN h = HandFields
      BY DEF HandOK
    <2>2. /\ DOMAIN g = HandFields /\ g.write = h.write /\ g.event = h.event
          /\ g.owner = h.owner /\ g.phase = h.phase /\ g.active = h.active
          /\ g.occupies = h.occupies /\ g.running = h.running /\ g.ran = h.ran
          /\ g.taken = h.taken
      BY <2>1 DEF HandFields
    <2>3. Commit(t, op, g) \/ Throws(t, op, g)
      BY <1>1 DEF SettleOnce, Settles
    <2> HIDE DEF g
    <2>4. HandOK(g)
      BY <2>2 DEF HandOK
    <2> QED
      BY <2>2, <2>3, <2>4, WritesCore
  <1>2. CASE h.write # "none"
    <2>1. hand' = [hand EXCEPT ![t] = h] /\ row' = row
      BY <1>2 DEF SettleOnce
    <2>2. DOMAIN hand = Slots /\ hand[t].phase \in Live
      BY DEF IInv, Core, HandsOK, Live
    <2>3. Core(row, hand, mode)'
      BY <2>1, <2>2, GoesOn DEF IInv
    <2> QED
      BY <2>1, <2>2, <2>3
  <1> QED
    BY <1>1, <1>2

\* What a write leaves of the other parts of the invariant
LEMMA AfterWrite ==
    ASSUME IInv, NEW t \in Slots, hand[t].phase \in Turning, NEW h,
           h.event = hand[t].event, h.phase \in Turning, h.occupies => hand[t].occupies,
           Core(row, hand, mode)',
           \A u \in Slots : u # t => hand'[u] = hand[u],
           Over(hand'[t]) \/ (/\ hand'[t].phase = h.phase /\ hand'[t].event = h.event
                              /\ hand'[t].occupies = h.occupies),
           pass' = pass
    PROVE  IInv'
  <1>1. /\ hand'[t].occupies => hand[t].occupies /\ hand'[t].event = hand[t].event
        /\ hand'[t].phase # "claimed" /\ hand[t].phase # "claimed"
    BY OverFacts DEF Turning
  <1>2. LanesOK(hand, pass)'
    BY <1>1, LanesKept DEF IInv
  <1>3. Picked(hand, pass)'
    BY <1>1, PickedKept DEF IInv
  <1> QED
    BY <1>2, <1>3 DEF IInv

LEMMA TurnSettles ==
    ASSUME IInv, NEW t \in Slots, hand[t].phase \in Turning,
           NEW h, HandOK(h), h.event = hand[t].event, h.taken = hand[t].taken,
           h.owner = hand[t].owner, h.phase \in Turning, h.occupies => hand[t].occupies,
           NEW op \in Ops, h.ran => op = "complete",
           SettleOnce(t, op, h), UNCHANGED <<pass, mode>>
    PROVE  IInv'
  BY SettleOnceCore, AfterWrite

-----------------------------------------------------------------------------
(* The turn *)

LEMMA TurnFacts ==
    ASSUME IInv, NEW t \in Slots
    PROVE  /\ HandOK(hand[t]) /\ DOMAIN hand[t] = HandFields
           /\ DOMAIN hand = Slots
           /\ Open(t) => /\ hand[t].phase \in {"dispatching", "deferred"}
                         /\ hand[t].write = "none"
           /\ PreAdoption(hand[t]) => hand[t].phase \in {"dispatching", "deferred"}
           /\ hand[t].phase \in {"dispatching", "deferred"} =>
                 hand[t].phase \in Turning /\ ~hand[t].ran
           /\ hand[t].running => hand[t].phase \in Turning
           /\ hand[t].running /\ ~Finished(t) => hand[t].phase \in {"dispatching", "deferred"}
  BY DEF IInv, Core, HandsOK, HandOK, Open, PreAdoption, Turning, Finished

LEMMA DispositionOps ==
    ASSUME NEW t
    PROVE  Dispositions(t) \subseteq Ops /\ Disposition(row[hand[t].event]) \subseteq Ops
  BY DEF Dispositions, Disposition, Ops

\* g differs from h in fields the invariant does not read, or runs no more
SameTurn(g, h) ==
    /\ DOMAIN g = HandFields
    /\ g.event = h.event /\ g.owner = h.owner /\ g.phase = h.phase /\ g.active = h.active
    /\ g.occupies = h.occupies /\ g.write = h.write /\ g.ran = h.ran /\ g.taken = h.taken
    /\ g.running => h.running

LEMMA Fewer ==
    ASSUME NEW h, HandOK(h), NEW g, SameTurn(g, h)
    PROVE  HandOK(g)
  BY DEF HandOK, SameTurn

LEMMA Adjusted ==
    ASSUME IInv, NEW t \in Slots, hand[t].phase \in Turning, NEW g, SameTurn(g, hand[t]),
           row' = row, hand' = [hand EXCEPT ![t] = g], UNCHANGED <<pass, mode>>
    PROVE  IInv'
  <1>1. HandOK(g)
    BY TurnFacts, Fewer
  <1> QED
    BY <1>1, TurnKept DEF SameTurn

LEMMA Settling ==
    ASSUME IInv, NEW t \in Slots, hand[t].phase \in Turning, ~hand[t].ran,
           NEW g, SameTurn(g, hand[t]), NEW op \in Ops,
           SettleOnce(t, op, g), UNCHANGED <<pass, mode>>
    PROVE  IInv'
  <1>1. HandOK(g)
    BY TurnFacts, Fewer
  <1> QED
    BY <1>1, TurnSettles DEF SameTurn

LEMMA Withdraws ==
    ASSUME IInv, NEW t \in Slots, hand[t].phase \in Turning, ~hand[t].ran,
           NEW g, SameTurn(g, hand[t]), NEW op \in Ops,
           Withdraw(t, op, g), UNCHANGED <<pass, mode>>
    PROVE  IInv'
  <1>1. HandOK(g)
    BY TurnFacts, Fewer
  <1>2. Commit(t, op, g) \/ Throws(t, op, g)
    BY DEF Withdraw
  <1> QED
    BY <1>1, <1>2, WritesCore, AfterWrite DEF SameTurn

LEMMA Adopts ==
    ASSUME IInv, NEW t \in Slots, Open(t), NEW h, SameTurn(h, hand[t]),
           SettleOnce(t, "complete", Adopting(h)), UNCHANGED <<pass, mode>>
    PROVE  IInv'
  <1> DEFINE g == Adopting(h)
  <1>1. /\ HandOK(h) /\ h.phase \in Turning /\ h.write = "none"
        /\ hand[t].phase \in Turning
    BY TurnFacts, Fewer DEF SameTurn
  <1>2. /\ DOMAIN g = HandFields /\ g.event = h.event /\ g.owner = h.owner
        /\ g.phase = "adopted" /\ g.active = h.active /\ g.occupies = h.occupies
        /\ g.write = h.write /\ g.taken = h.taken /\ g.running = h.running
    BY DEF Adopting, HandFields, SameTurn
  <1>3. SettleOnce(t, "complete", g)
    OBVIOUS
  <1> HIDE DEF g
  <1>4. HandOK(g) /\ g.phase \in Turning /\ "complete" \in Ops
    BY <1>1, <1>2 DEF HandOK, Turning, Live, Ops
  <1> QED
    BY <1>1, <1>2, <1>3, <1>4, TurnSettles DEF SameTurn

LEMMA Defers ==
    ASSUME IInv, NEW t \in Slots, hand[t].phase = "dispatching",
           NEW h, SameTurn(h, hand[t]),
           hand' = [hand EXCEPT ![t] = Deferred(h)], row' = row, UNCHANGED <<pass, mode>>
    PROVE  IInv'
  <1> DEFINE g == Deferred(h)
  <1>1. HandOK(h) /\ h.phase = "dispatching" /\ hand[t].phase \in Turning
    BY TurnFacts, Fewer DEF SameTurn
  <1>2. /\ DOMAIN g = HandFields /\ g.event = h.event /\ g.owner = h.owner
        /\ g.phase = "deferred" /\ g.active = h.active
        /\ g.write = h.write /\ g.taken = h.taken /\ g.running = h.running
        /\ g.ran = h.ran /\ (g.occupies => h.occupies)
    BY DEF Deferred, HandFields, SameTurn
  <1>3. hand' = [hand EXCEPT ![t] = g]
    OBVIOUS
  <1> HIDE DEF g
  <1>4. HandOK(g) /\ g.phase \in Turning
    BY <1>1, <1>2 DEF HandOK, Turning, Live
  <1> QED
    BY <1>1, <1>2, <1>3, <1>4, TurnKept DEF SameTurn

LEMMA TurnSteps ==
    ASSUME IInv, NEW t \in Slots, TurnStep(t)
    PROVE  IInv'
  <1> DEFINE h == hand[t]
  <1>1. HandOK(h) /\ DOMAIN h = HandFields /\ DOMAIN hand = Slots
    BY TurnFacts
  <1>2. CASE Adopt(t)
    <2>1. SettleOnce(t, "complete", Adopting(h)) /\ UNCHANGED <<pass, mode>> /\ Open(t)
      BY <1>2 DEF Adopt
    <2>2. SameTurn(h, h)
      BY <1>1 DEF SameTurn
    <2> QED
      BY <2>1, <2>2, Adopts
  <1>3. CASE Defer(t)
    <2>1. hand' = [hand EXCEPT ![t] = Deferred(h)] /\ row' = row /\ UNCHANGED <<pass, mode>>
      BY <1>3 DEF Defer
    <2>2. h.phase = "dispatching" /\ SameTurn(h, h)
      BY <1>1, <1>3 DEF Defer, SameTurn
    <2> QED
      BY <2>1, <2>2, Defers
  <1>5. CASE DeferredHeartbeat(t)
    <2> DEFINE g == [h EXCEPT !.watched = TRUE]
    <2>1. hand' = [hand EXCEPT ![t] = g] /\ row' = row /\ UNCHANGED <<pass, mode>>
      BY <1>1, <1>5 DEF DeferredHeartbeat
    <2>2. SameTurn(g, h) /\ h.phase \in Turning
      BY <1>1, <1>5 DEF DeferredHeartbeat, SameTurn, HandFields, Turning
    <2> HIDE DEF g
    <2> QED
      BY <2>1, <2>2, Adjusted
  <1>6. CASE AdoptionFinalizing(t)
    <2> DEFINE g == [h EXCEPT !.watched = FALSE, !.final = TRUE]
    <2>1. hand' = [hand EXCEPT ![t] = g] /\ row' = row /\ UNCHANGED <<pass, mode>>
      BY <1>1, <1>6 DEF AdoptionFinalizing, HandFields
    <2>2. SameTurn(g, h)
      BY <1>1 DEF SameTurn, HandFields
    <2>3. h.phase \in Turning
      BY <1>6, TurnFacts DEF AdoptionFinalizing
    <2> HIDE DEF g
    <2> QED
      BY <2>1, <2>2, <2>3, Adjusted
  <1>7. CASE Fail(t)
    <2>1. h.phase \in Turning /\ ~h.ran
      BY <1>7, TurnFacts DEF Fail
    <2>2. PICK op \in Dispositions(t) : SettleOnce(t, op, h)
      BY <1>7 DEF Fail
    <2>3. op \in Ops /\ UNCHANGED <<pass, mode>>
      BY <1>7, <2>2, DispositionOps DEF Fail
    <2> QED
      BY <1>1, <2>1, <2>2, <2>3, TurnSettles
  <1>8. CASE Abandon(t)
    <2> DEFINE g == [h EXCEPT !.watched = FALSE]
    <2>1. h.phase \in Turning /\ ~h.ran
      BY <1>8, TurnFacts DEF Abandon
    <2>2. SameTurn(g, h)
      BY <1>1 DEF SameTurn, HandFields
    <2>3. PICK op \in {"cancel", "release"} : Withdraw(t, op, g)
      BY <1>8 DEF Abandon
    <2>4. op \in Ops /\ UNCHANGED <<pass, mode>>
      BY <1>8 DEF Abandon, Ops
    <2> HIDE DEF g
    <2> QED
      BY <2>1, <2>2, <2>3, <2>4, Withdraws
  <1> QED
    BY <1>2, <1>3, <1>5, <1>6, <1>7, <1>8 DEF TurnStep

LEMMA ReturnSteps ==
    ASSUME IInv, NEW t \in Slots, Return(t)
    PROVE  IInv'
  <1> DEFINE h == hand[t]
             g == Returned(t)
  <1>1. HandOK(h) /\ DOMAIN h = HandFields /\ DOMAIN hand = Slots
    BY TurnFacts
  <1>2. SameTurn(g, h)
    BY <1>1 DEF SameTurn, Returned, HandFields
  <1>3. CASE ReturnIgnored(t)
    <2>1. hand' = [hand EXCEPT ![t] = g] /\ row' = row /\ UNCHANGED <<pass, mode>>
      BY <1>3 DEF ReturnIgnored
    <2>2. h.phase \in Turning
      BY <1>3, TurnFacts DEF ReturnIgnored
    <2> QED
      BY <1>2, <2>1, <2>2, Adjusted
  <1>4. CASE ReturnHandedOver(t)
    <2>1. h.phase \in {"dispatching", "deferred"} /\ h.phase \in Turning
      BY <1>4, TurnFacts DEF ReturnHandedOver
    <2>2. /\ hand' = [hand EXCEPT ![t] = IF h.phase = "deferred" \/ h.owner # "registered"
                                         THEN g ELSE Deferred(g)]
          /\ row' = row /\ UNCHANGED <<pass, mode>>
      BY <1>1, <1>4 DEF ReturnHandedOver
    <2>3. CASE h.phase = "deferred" \/ h.owner # "registered"
      BY <1>2, <2>1, <2>2, <2>3, Adjusted
    <2>4. CASE ~(h.phase = "deferred" \/ h.owner # "registered")
      BY <1>2, <2>1, <2>2, <2>4, Defers
    <2> QED
      BY <2>3, <2>4
  <1>5. CASE ReturnCompleted(t)
    BY <1>2, <1>5, Adopts DEF ReturnCompleted
  <1> DEFINE k == [g EXCEPT !.watched = FALSE]
  <1>6. SameTurn(k, h)
    BY <1>2 DEF SameTurn, HandFields
  <1>7. CASE ReturnFailed(t)
    <2>1. h.phase \in Turning /\ ~h.ran /\ UNCHANGED <<pass, mode>>
      BY <1>7, TurnFacts DEF ReturnFailed
    <2>2. PICK op \in Dispositions(t) : SettleOnce(t, op, k)
      BY <1>7 DEF ReturnFailed
    <2>3. op \in Ops
      BY DispositionOps
    <2> QED
      BY <1>6, <2>1, <2>2, <2>3, Settling
  <1>8. CASE ReturnDraining(t)
    <2>1. h.phase \in Turning /\ ~h.ran /\ "cancel" \in Ops
      BY <1>8, TurnFacts DEF ReturnDraining, Ops
    <2>2. Withdraw(t, "cancel", k) /\ UNCHANGED <<pass, mode>>
      BY <1>8 DEF ReturnDraining
    <2> QED
      BY <1>6, <2>1, <2>2, Withdraws
  <1> QED
    BY <1>3, <1>4, <1>5, <1>7, <1>8 DEF Return

LEMMA StallSteps ==
    ASSUME IInv, NEW t \in Slots, Stall(t)
    PROVE  IInv'
  <1> DEFINE h == hand[t]
             g == [h EXCEPT !.closed = "guillotined", !.watched = FALSE]
  <1>1. h.phase \in Turning /\ ~h.ran /\ UNCHANGED <<pass, mode>>
    BY TurnFacts DEF Stall
  <1>2. SameTurn(g, h)
    BY TurnFacts DEF SameTurn, HandFields
  <1>3. PICK op \in Disposition(row[h.event]) : SettleOnce(t, op, g)
    BY DEF Stall
  <1>4. op \in Ops
    BY DispositionOps
  <1> HIDE DEF g
  <1> QED
    BY <1>1, <1>2, <1>3, <1>4, Settling

LEMMA RetrySteps ==
    ASSUME IInv, NEW t \in Slots, RetryWrite(t) \/ GiveUp(t)
    PROVE  IInv'
  <1> DEFINE h == hand[t]
  <1>1. /\ HandOK(h) /\ DOMAIN h = HandFields /\ DOMAIN hand = Slots
        /\ h.phase \in Turning /\ h.write \in Ops
        /\ h.ran => h.write = "complete"
    BY TurnFacts DEF RetryWrite, GiveUp, HandOK
  <1>2. CASE RetryWrite(t)
    <2>1. Commit(t, h.write, h) \/ Throws(t, h.write, h)
      BY <1>2 DEF RetryWrite, Settles
    <2>2. UNCHANGED <<pass, mode>>
      BY <1>2 DEF RetryWrite
    <2> QED
      BY <1>1, <2>1, <2>2, WritesCore, AfterWrite
  <1>3. CASE GiveUp(t)
    <2> DEFINE g == [h EXCEPT !.write = "none", !.stuck = TRUE]
    <2>1. hand' = [hand EXCEPT ![t] = g] /\ row' = row /\ UNCHANGED <<pass, mode>>
      BY <1>3 DEF GiveUp
    <2>2. /\ DOMAIN g = HandFields /\ g.event = h.event /\ g.owner = h.owner
          /\ g.phase = h.phase /\ g.active = h.active /\ g.occupies = h.occupies
          /\ g.write = "none" /\ g.taken = h.taken /\ g.running = h.running
          /\ g.ran = h.ran
      BY <1>1 DEF HandFields
    <2> HIDE DEF g
    <2>3. HandOK(g)
      BY <1>1, <2>2 DEF HandOK
    <2> QED
      BY <1>1, <2>1, <2>2, <2>3, TurnKept
  <1> QED
    BY <1>2, <1>3

-----------------------------------------------------------------------------
(* Rows and claims *)

\* A row changes that no handler of the drain claims, or not in its claim.
Mine(r) == r.status = "claimed" /\ r.token # Sibling

LEMMA RowChanges ==
    ASSUME IInv, NEW e \in Events, NEW r, DOMAIN r = RowFields,
           Mine(row[e]) \/ Mine(r) => r.status = row[e].status /\ r.token = row[e].token,
           row' = [row EXCEPT ![e] = r], UNCHANGED <<hand, pass, mode>>
    PROVE  IInv'
  <1>1. RowsOK(row)' /\ HandsOK(hand)' /\ Retired(hand, mode)'
    BY DEF IInv, Core, RowsOK, HandsOK, Retired
  <1>2. ASSUME NEW f \in Events, Mine(row[f]) \/ Mine(row'[f])
        PROVE  row'[f].status = row[f].status /\ row'[f].token = row[f].token
    BY <1>2 DEF IInv, Core, RowsOK
  <1>3. Linked(row, hand)'
    BY <1>2 DEF IInv, Core, Linked, Mine
  <1>4. Keeping(row, hand)'
    <2> SUFFICES ASSUME NEW t \in Slots, hand[t].phase \in Live, ~hand[t].taken
                 PROVE  Owns(row', t, hand[t])
      BY DEF Keeping
    <2>1. Owns(row, t, hand[t]) /\ hand[t].event \in Events
      BY DEF IInv, Core, Keeping, HandsOK, HandOK, Live, Turning
    <2> QED
      BY <1>2, <2>1, SlotIsNoSibling DEF Owns, Mine
  <1>5. Picked(hand, pass)' /\ LanesOK(hand, pass)'
    BY DEF IInv, Picked, LanesOK
  <1> QED
    BY <1>1, <1>3, <1>4, <1>5 DEF IInv, Core

LEMMA RowFacts ==
    ASSUME IInv, NEW e \in Events
    PROVE  DOMAIN row = Events /\ DOMAIN row[e] = RowFields
  BY DEF IInv, Core, RowsOK

LEMMA AdmissionSteps ==
    ASSUME IInv, NEW e \in Events, Admit(e) \/ Resubmit(e) \/ DelayEnds(e)
    PROVE  IInv'
  <1>1. CASE Admit(e) \/ Resubmit(e)
    <2> DEFINE r == [NoRow EXCEPT !.status = "pending", !.at = NextAt]
    <2>1. DOMAIN r = RowFields /\ r.status = "pending"
      BY DEF NoRow, RowFields
    <2>2. row' = [row EXCEPT ![e] = r] /\ UNCHANGED <<hand, pass, mode>>
          /\ row[e].status # "claimed"
      BY <1>1 DEF Admit, Resubmit
    <2> HIDE DEF r
    <2> QED
      BY <2>1, <2>2, RowChanges DEF Mine
  <1>2. CASE DelayEnds(e)
    <2> DEFINE r == [row[e] EXCEPT !.delayed = FALSE]
    <2>1. DOMAIN r = RowFields /\ r.status = row[e].status /\ r.token = row[e].token
      BY RowFacts DEF RowFields
    <2>2. row' = [row EXCEPT ![e] = r] /\ UNCHANGED <<hand, pass, mode>>
      BY <1>2, RowFacts DEF DelayEnds
    <2> HIDE DEF r
    <2> QED
      BY <2>1, <2>2, RowChanges
  <1> QED
    BY <1>1, <1>2

\* The lease of a row runs out, or is renewed.
LEMMA FreshChanges ==
    ASSUME IInv, NEW e \in Events, NEW b, row' = [row EXCEPT ![e].fresh = b],
           UNCHANGED <<hand, pass, mode>>
    PROVE  IInv'
  <1> DEFINE r == [row[e] EXCEPT !.fresh = b]
  <1>1. DOMAIN r = RowFields /\ r.status = row[e].status /\ r.token = row[e].token
    BY RowFacts DEF RowFields
  <1>2. row' = [row EXCEPT ![e] = r]
    BY RowFacts
  <1> HIDE DEF r
  <1> QED
    BY <1>1, <1>2, RowChanges

LEMMA LeaseSteps ==
    ASSUME IInv, NEW t \in Slots, LeaseEnds(t) \/ Refresh(t)
    PROVE  IInv'
  <1> DEFINE h == hand[t]
  <1>1. /\ HandOK(h) /\ DOMAIN h = HandFields /\ DOMAIN hand = Slots
        /\ h.active => h.phase \in Turning
    BY TurnFacts DEF HandOK
  <1>2. Held(t) => h.event \in Events
    BY <1>1 DEF Held, HandOK
  <1>3. CASE LeaseEnds(t)
    <2>1. Held(t) /\ row' = [row EXCEPT ![h.event].fresh = FALSE]
          /\ UNCHANGED <<hand, pass, mode>>
      BY <1>3 DEF LeaseEnds
    <2> QED
      BY <1>2, <2>1, FreshChanges
  <1>4. CASE Refresh(t) /\ Held(t)
    <2>1. row' = [row EXCEPT ![h.event].fresh = TRUE] /\ UNCHANGED <<hand, pass, mode>>
      BY <1>4 DEF Refresh
    <2> QED
      BY <1>2, <1>4, <2>1, FreshChanges
  <1>5. CASE Refresh(t) /\ ~Held(t)
    <2> DEFINE g == [h EXCEPT !.closed = "guillotined", !.watched = FALSE]
    <2>1. hand' = [hand EXCEPT ![t] = g] /\ row' = row /\ UNCHANGED <<pass, mode>>
      BY <1>1, <1>5 DEF Refresh, HandFields
    <2>2. h.phase \in Turning /\ SameTurn(g, h)
      BY <1>1, <1>5 DEF Refresh, SameTurn, HandFields
    <2> HIDE DEF g
    <2> QED
      BY <2>1, <2>2, Adjusted
  <1> QED
    BY <1>3, <1>4, <1>5

LEMMA SiblingSteps ==
    ASSUME IInv, NEW e \in Events, SiblingClaims(e) \/ SiblingEnds(e)
    PROVE  IInv'
  <1>1. CASE SiblingClaims(e)
    <2> DEFINE r == [row[e] EXCEPT !.status = "claimed", !.token = Sibling, !.fresh = TRUE]
    <2>1. DOMAIN r = RowFields /\ r.token = Sibling
      BY RowFacts DEF RowFields
    <2>2. row' = [row EXCEPT ![e] = r] /\ UNCHANGED <<hand, pass, mode>>
          /\ row[e].status = "pending"
      BY <1>1, RowFacts DEF SiblingClaims, RowFields
    <2> HIDE DEF r
    <2> QED
      BY <2>1, <2>2, RowChanges DEF Mine
  <1>2. CASE SiblingEnds(e)
    <2>1. row[e].token = Sibling /\ UNCHANGED <<hand, pass, mode>>
      BY <1>2 DEF SiblingEnds
    <2>2. CASE row' = [row EXCEPT ![e].fresh = FALSE]
      BY <2>1, <2>2, FreshChanges
    <2>3. ASSUME NEW op \in {"complete", "cancel"} \cup Disposition(row[e]),
                 row' = [row EXCEPT ![e] = Applied(@, op)]
          PROVE  IInv'
      <3>1. op \in Ops
        BY DEF Disposition, Ops
      <3>2. DOMAIN Applied(row[e], op) = RowFields /\ Applied(row[e], op).status # "claimed"
        BY <3>1, RowFacts, AppliedFacts
      <3> QED
        BY <2>1, <2>3, <3>2, RowChanges DEF Mine
    <2> QED
      BY <1>2, <2>2, <2>3 DEF SiblingEnds
  <1> QED
    BY <1>1, <1>2

-----------------------------------------------------------------------------
(* Recovery *)

\* A handler keeps its place while its claim is taken, or is over.
LEMMA TookFacts ==
    ASSUME NEW h, HandOK(h), h.phase \in Live
    PROVE  /\ HandOK(Took(h))
           /\ Took(h).phase \in Live => Took(h).taken
           /\ Took(h).occupies => h.occupies /\ Took(h).event = h.event
           /\ Took(h).phase = "claimed" => h.phase = "claimed"
           /\ h.phase = "claimed" => Took(h).phase = "claimed" /\ Took(h).event = h.event
           /\ Took(h).owner = "registered" => h.owner = "registered"
  <1> DEFINE g == [h EXCEPT !.taken = TRUE]
  <1>1. /\ DOMAIN g = HandFields /\ g.event = h.event /\ g.owner = h.owner
        /\ g.phase = h.phase /\ g.active = h.active /\ g.occupies = h.occupies
        /\ g.write = h.write /\ g.taken /\ g.running = h.running /\ g.ran = h.ran
    BY DEF HandOK, HandFields
  <1>2. h.event \in Events
    BY DEF HandOK, Live, Turning
  <1>3. CASE h.phase = "dead"
    <2>1. Took(h) = Ended(g)
      BY <1>3 DEF Took
    <2> HIDE DEF g
    <2>2. Over(Took(h))
      BY <1>1, <1>2, <2>1, EndedOver
    <2> QED
      BY <1>3, <2>2, OverFacts DEF Over
  <1>4. CASE h.phase # "dead"
    <2>1. Took(h) = g
      BY <1>4 DEF Took
    <2> HIDE DEF g
    <2>2. HandOK(g)
      BY <1>1 DEF HandOK
    <2> QED
      BY <1>1, <2>1, <2>2
  <1> QED
    BY <1>3, <1>4

LEMMA RecoveredFacts ==
    ASSUME NEW r, DOMAIN r = RowFields
    PROVE  DOMAIN Recovered(r) = RowFields /\ Recovered(r).status = "pending"
  <1> DEFINE q == Freed(r, "pending")
  <1>1. DOMAIN q = RowFields /\ q.status = "pending"
    BY DEF Freed, RowFields
  <1>2. Recovered(r) = [q EXCEPT !.attempts = IF @ < MaxAttempts THEN @ + 1 ELSE @,
                                 !.delayed = r.erred]
    BY DEF Recovered
  <1> HIDE DEF q
  <1> QED
    BY <1>1, <1>2 DEF RowFields

LEMMA Recovers ==
    ASSUME IInv, NEW lost, lost \subseteq HasStatus("claimed"),
           DOMAIN row' = Events,
           \A e \in Events : row'[e] = IF e \in lost THEN Recovered(row[e]) ELSE row[e],
           DOMAIN hand' = Slots,
           \A t \in Slots : hand'[t] = IF \E e \in lost : row[e].token = t
                                       THEN Took(hand[t]) ELSE hand[t],
           mode' = mode
    PROVE  /\ Core(row, hand, mode)'
           /\ \A t \in Slots :
                 /\ hand'[t].occupies => hand[t].occupies /\ hand'[t].event = hand[t].event
                 /\ hand'[t].phase = "claimed" => hand[t].phase = "claimed"
                 /\ hand[t].phase = "claimed" => hand'[t].phase = "claimed"
                                                 /\ hand'[t].event = hand[t].event
  <1>1. \A e \in lost : e \in Events /\ row[e].status = "claimed"
    BY DEF HasStatus
  <1>2. ASSUME NEW t \in Slots, NEW e \in lost, row[e].token = t
        PROVE  hand[t].event = e /\ hand[t].phase \in Live
    BY <1>1, <1>2, SlotIsNoSibling DEF IInv, Core, Linked
  <1>3. \A t \in Slots : HandOK(hand[t])
    BY TurnFacts
  <1>4. ASSUME NEW t \in Slots
        PROVE  /\ HandOK(hand'[t])
               /\ hand'[t].owner = "registered" => hand[t].owner = "registered"
               /\ hand'[t].occupies => hand[t].occupies /\ hand'[t].event = hand[t].event
               /\ hand'[t].phase = "claimed" => hand[t].phase = "claimed"
               /\ hand[t].phase = "claimed" => hand'[t].phase = "claimed"
                                               /\ hand'[t].event = hand[t].event
    BY <1>2, <1>3, TookFacts
  <1>5. \A e \in lost : DOMAIN Recovered(row[e]) = RowFields
                        /\ Recovered(row[e]).status = "pending"
    BY <1>1, RowFacts, RecoveredFacts
  <1>6. RowsOK(row)' /\ HandsOK(hand)' /\ Retired(hand, mode)'
    BY <1>4, <1>5, RowFacts DEF IInv, Core, RowsOK, HandsOK, Retired
  <1>7. Linked(row, hand)'
    <2> SUFFICES ASSUME NEW f \in Events, row'[f].status = "claimed", row'[f].token # Sibling
                 PROVE  /\ row'[f].token \in Slots /\ hand'[row'[f].token].event = f
                        /\ hand'[row'[f].token].phase \in Live
      BY DEF Linked
    <2>1. f \notin lost /\ row'[f] = row[f]
      BY <1>5
    <2>2. /\ row[f].token \in Slots /\ hand[row[f].token].event = f
          /\ hand[row[f].token].phase \in Live
      BY <2>1 DEF IInv, Core, Linked
    <2>3. ~\E e \in lost : row[e].token = row[f].token
      BY <1>2, <2>1, <2>2
    <2> QED
      BY <2>1, <2>2, <2>3
  <1>8. Keeping(row, hand)'
    <2> SUFFICES ASSUME NEW t \in Slots, hand'[t].phase \in Live, ~hand'[t].taken
                 PROVE  Owns(row', t, hand'[t])
      BY DEF Keeping
    <2>1. ~\E e \in lost : row[e].token = t
      BY <1>2, <1>3, TookFacts
    <2>2. hand'[t] = hand[t] /\ Owns(row, t, hand[t]) /\ hand[t].event \in Events
      BY <2>1, <1>3 DEF IInv, Core, Keeping, HandOK, Live, Turning
    <2>3. hand[t].event \notin lost
      BY <2>1, <2>2 DEF Owns
    <2> QED
      BY <2>2, <2>3 DEF Owns
  <1> QED
    BY <1>4, <1>6, <1>7, <1>8 DEF Core

LEMMA RecoverySteps ==
    ASSUME IInv, NEW e \in Events, SiblingRecovers(e)
    PROVE  IInv'
  <1> DEFINE t == row[e].token
  <1>1. /\ row[e].status = "claimed" /\ t # Sibling
        /\ row' = [row EXCEPT ![e] = Recovered(@)]
        /\ hand' = [hand EXCEPT ![t] = Took(@)] /\ UNCHANGED <<pass, mode>>
    BY DEF SiblingRecovers
  <1>2. t \in Slots /\ DOMAIN hand = Slots /\ DOMAIN row = Events
    BY <1>1, RowFacts DEF IInv, Core, Linked, HandsOK
  <1>3. {e} \subseteq HasStatus("claimed")
    BY <1>1 DEF HasStatus
  <1>4. /\ DOMAIN row' = Events /\ DOMAIN hand' = Slots
        /\ \A f \in Events : row'[f] = IF f \in {e} THEN Recovered(row[f]) ELSE row[f]
        /\ \A u \in Slots : hand'[u] = IF \E f \in {e} : row[f].token = u
                                       THEN Took(hand[u]) ELSE hand[u]
    BY <1>1, <1>2
  <1>5. /\ Core(row, hand, mode)'
        /\ \A u \in Slots :
              /\ hand'[u].occupies => hand[u].occupies /\ hand'[u].event = hand[u].event
              /\ hand'[u].phase = "claimed" => hand[u].phase = "claimed"
              /\ hand[u].phase = "claimed" => hand'[u].phase = "claimed"
                                              /\ hand'[u].event = hand[u].event
    BY <1>1, <1>3, <1>4, Recovers
  <1>6. LanesOK(hand, pass)' /\ Picked(hand, pass)'
    BY <1>1, <1>5, LanesKept, PickedKept DEF IInv
  <1> QED
    BY <1>5, <1>6 DEF IInv

LEMMA BeginSteps ==
    ASSUME IInv, BeginPass
    PROVE  IInv'
  <1> DEFINE lost == {e \in Events : Recoverable(e)}
  <1>1. /\ lost \subseteq HasStatus("claimed")
        /\ pass.at = "idle" /\ mode' = mode
    BY DEF BeginPass, Recoverable, HasStatus
  <1>2. /\ row' = [e \in Events |-> IF e \in lost THEN Recovered(row[e]) ELSE row[e]]
        /\ hand' = [t \in Slots |-> IF \E e \in lost : row[e].token = t
                                    THEN Took(hand[t]) ELSE hand[t]]
    BY DEF BeginPass
  <1>3. DOMAIN pass' = PassFields /\ pass'.at = "listed"
    BY DEF BeginPass, NoPass, PassFields
  <1> HIDE DEF lost
  <1>4. /\ Core(row, hand, mode)'
        /\ \A u \in Slots :
              /\ hand'[u].occupies => hand[u].occupies /\ hand'[u].event = hand[u].event
              /\ hand'[u].phase = "claimed" => hand[u].phase = "claimed"
    BY <1>1, <1>2, Recovers
  <1>5. Picked(hand, pass)'
    BY <1>1, <1>4 DEF IInv, Picked
  <1>6. LanesOK(hand, pass)'
    BY <1>3, <1>4 DEF IInv, LanesOK
  <1> QED
    BY <1>4, <1>5, <1>6 DEF IInv

-----------------------------------------------------------------------------
(* The pass *)

LEMMA ScanSteps ==
    ASSUME IInv, ListClaims \/ EndPass
    PROVE  IInv'
  <1>1. UNCHANGED <<row, hand, mode>>
    BY DEF ListClaims, EndPass
  <1>2. Core(row, hand, mode)'
    BY <1>1 DEF IInv, Core, RowsOK, HandsOK, Linked, Keeping, Retired
  <1>3. pass.at # "claimed"
    BY DEF ListClaims, EndPass
  <1>4. Picked(hand, pass)'
    BY <1>1, <1>3 DEF IInv, Picked
  <1>5. CASE ListClaims
    <2>1. DOMAIN pass' = PassFields /\ pass'.at = "scanning"
      BY <1>5 DEF ListClaims, IInv, LanesOK, PassFields
    <2>2. ActiveLanes \subseteq pass'.blocked
      BY <1>5 DEF ListClaims, IInv, LanesOK, PassFields
    <2>3. \A t \in Slots : hand[t].occupies => LaneOf[hand[t].event] \in ActiveLanes
      BY DEF ActiveLanes, Lane
    <2> QED
      BY <1>1, <1>2, <1>4, <2>1, <2>2, <2>3 DEF IInv, LanesOK
  <1>6. CASE EndPass
    <2>1. DOMAIN pass' = PassFields /\ pass'.at = "idle"
      BY <1>6 DEF EndPass, NoPass, PassFields
    <2> QED
      BY <1>1, <1>2, <1>4, <2>1 DEF IInv, LanesOK
  <1> QED
    BY <1>5, <1>6

LEMMA ClaimSteps ==
    ASSUME IInv, ClaimNext
    PROVE  IInv'
  <1>1. PICK e \in Claimable, t \in Slots :
          /\ Unused(t)
          /\ row' = [row EXCEPT ![e].status = "claimed", ![e].token = t, ![e].fresh = TRUE]
          /\ hand' = [hand EXCEPT ![t] = [NoHandler EXCEPT !.event = e,
                                 !.owner = "registered", !.phase = "claimed"]]
          /\ pass' = [pass EXCEPT !.at = "claimed", !.got = t, !.pend = @ \ {e}]
    BY DEF ClaimNext
  <1> DEFINE r == [row[e] EXCEPT !.status = "claimed", !.token = t, !.fresh = TRUE]
             h == [NoHandler EXCEPT !.event = e, !.owner = "registered", !.phase = "claimed"]
  <1>2. /\ e \in Events /\ row[e].status = "pending" /\ LaneOf[e] \notin pass.blocked
        /\ pass.at \in {"scanning", "claiming"} /\ mode' = mode /\ mode = "up"
    BY DEF ClaimNext, Claimable, Window, HasStatus
  <1>3. hand[t].phase \notin Live
    BY <1>1 DEF Unused, Live, Turning
  <1>4. DOMAIN r = RowFields /\ r.status = "claimed" /\ r.token = t
    BY <1>2, RowFacts DEF RowFields
  <1>5. /\ h.event = e /\ h.phase = "claimed" /\ ~h.occupies /\ ~h.taken
        /\ HandOK(h) /\ DOMAIN hand = Slots
    BY <1>2, TurnFacts DEF NoHandler, HandOK, HandFields, Live, Turning
  <1>6. row' = [row EXCEPT ![e] = r] /\ hand' = [hand EXCEPT ![t] = h]
    BY <1>1, <1>2, <1>4, RowFacts DEF RowFields
  <1> HIDE DEF r, h
  <1>7. /\ \A f \in Events : row'[f] = IF f = e THEN r ELSE row[f]
        /\ \A u \in Slots : hand'[u] = IF u = t THEN h ELSE hand[u]
    BY <1>2, <1>5, <1>6, RowFacts
  <1>8. RowsOK(row)' /\ HandsOK(hand)' /\ Retired(hand, mode)'
    BY <1>2, <1>4, <1>5, <1>6 DEF IInv, Core, RowsOK, HandsOK, Retired
  <1>9. Linked(row, hand)'
    <2> SUFFICES ASSUME NEW f \in Events, row'[f].status = "claimed", row'[f].token # Sibling
                 PROVE  /\ row'[f].token \in Slots /\ hand'[row'[f].token].event = f
                        /\ hand'[row'[f].token].phase \in Live
      BY DEF Linked
    <2>1. CASE f = e
      BY <1>4, <1>5, <1>7, <2>1 DEF Live
    <2>2. CASE f # e
      <3>1. /\ row[f].token \in Slots /\ hand[row[f].token].event = f
            /\ hand[row[f].token].phase \in Live /\ row'[f] = row[f]
        BY <1>7, <2>2 DEF IInv, Core, Linked
      <3> QED
        BY <1>3, <1>7, <3>1
    <2> QED
      BY <2>1, <2>2
  <1>10. Keeping(row, hand)'
    <2> SUFFICES ASSUME NEW u \in Slots, hand'[u].phase \in Live, ~hand'[u].taken
                 PROVE  Owns(row', u, hand'[u])
      BY DEF Keeping
    <2>1. CASE u = t
      BY <1>2, <1>4, <1>5, <1>7, <2>1 DEF Owns
    <2>2. CASE u # t
      <3>1. hand'[u] = hand[u] /\ Owns(row, u, hand[u]) /\ hand[u].event \in Events
        BY <1>7, <2>2, TurnFacts DEF IInv, Core, Keeping, HandOK, Live, Turning
      <3> QED
        BY <1>2, <1>7, <3>1 DEF Owns
    <2> QED
      BY <2>1, <2>2
  <1>11. /\ DOMAIN pass' = PassFields /\ pass'.at = "claimed" /\ pass'.got = t
         /\ pass'.blocked = pass.blocked
    BY <1>1 DEF IInv, LanesOK, PassFields
  <1>12. Picked(hand, pass)'
    BY <1>2, <1>7, <1>11 DEF IInv, Picked
  <1>13. LanesOK(hand, pass)'
    BY <1>2, <1>5, <1>7, <1>11 DEF IInv, LanesOK
  <1> QED
    BY <1>8, <1>9, <1>10, <1>12, <1>13 DEF IInv, Core

LEMMA ClaimedSteps ==
    ASSUME IInv, HandBack \/ RunClaimed
    PROVE  IInv'
  <1> DEFINE t == pass.got
             e == hand[t].event
  <1>1. /\ pass.at = "claimed" /\ t \in Slots /\ hand[t].phase = "claimed" /\ mode' = mode
        /\ HandOK(hand[t]) /\ DOMAIN hand = Slots /\ e \in Events
    BY TurnFacts DEF HandBack, RunClaimed, IInv, LanesOK, HandOK
  <1>2. \A u \in Slots : u # t => hand[u].phase # "claimed"
    BY <1>1 DEF IInv, Picked
  <1>3. CASE HandBack
    <2> DEFINE r == Applied(row[e], "cancel")
    <2>1. DOMAIN r = RowFields /\ r.status # "claimed"
      BY <1>1, RowFacts, AppliedFacts DEF Ops
    <2>2. /\ row' = IF Held(t) THEN [row EXCEPT ![e] = r] ELSE row
          /\ hand' = [hand EXCEPT ![t] = NoHandler] /\ pass' = NoPass
      BY <1>3 DEF HandBack
    <2> HIDE DEF r
    <2>3. Core(row, hand, mode)'
      BY <1>1, <2>1, <2>2, NoHandlerOK, EndsWithClaim DEF IInv, Over, Live
    <2>4. \A u \in Slots : hand'[u] = IF u = t THEN NoHandler ELSE hand[u]
      BY <1>1, <2>2
    <2>5. DOMAIN pass' = PassFields /\ pass'.at = "idle"
      BY <2>2 DEF NoPass, PassFields
    <2>6. Picked(hand, pass)'
      BY <1>2, <2>4, NoHandlerOK DEF Picked
    <2>7. LanesOK(hand, pass)'
      BY <2>4, <2>5, NoHandlerOK DEF IInv, LanesOK
    <2> QED
      BY <2>3, <2>6, <2>7 DEF IInv
  <1>4. CASE RunClaimed
    <2> DEFINE h == [hand[t] EXCEPT !.phase = "dispatching", !.active = TRUE,
                           !.occupies = TRUE, !.watched = TRUE, !.running = TRUE]
    <2>1. /\ DOMAIN h = HandFields /\ h.event = e /\ h.owner = hand[t].owner
          /\ h.phase = "dispatching" /\ h.active /\ h.occupies /\ h.running
          /\ h.write = hand[t].write /\ h.ran = hand[t].ran /\ h.taken = hand[t].taken
      BY <1>1 DEF HandOK, HandFields
    <2>2. hand' = [hand EXCEPT ![t] = h] /\ row' = row
      BY <1>1, <1>4 DEF RunClaimed
    <2> HIDE DEF h
    <2>3. HandOK(h) /\ h.phase \in Turning /\ h.phase # "claimed"
      BY <1>1, <2>1 DEF HandOK, Live, Turning
    <2>4. Core(row, hand, mode)'
      BY <1>1, <2>1, <2>2, <2>3, GoesOn DEF IInv, Live
    <2>5. \A u \in Slots : hand'[u] = IF u = t THEN h ELSE hand[u]
      BY <1>1, <2>2
    <2>6. /\ DOMAIN pass' = PassFields /\ pass'.at = "claiming"
          /\ pass'.blocked = pass.blocked \cup {LaneOf[e]}
      BY <1>4 DEF RunClaimed, IInv, LanesOK, PassFields, Lane
    <2>7. /\ \A u \in Slots : hand[u].occupies => LaneOf[hand[u].event] \in pass.blocked
          /\ LaneOf[e] \notin pass.blocked
      BY <1>1 DEF IInv, LanesOK
    <2>8. Picked(hand, pass)'
      BY <1>2, <2>3, <2>5 DEF Picked
    <2>9. LanesOK(hand, pass)'
      BY <2>1, <2>5, <2>6, <2>7 DEF IInv, LanesOK
    <2> QED
      BY <2>4, <2>8, <2>9 DEF IInv
  <1> QED
    BY <1>3, <1>4

LEMMA SupersedeSteps ==
    ASSUME IInv, NEW e \in Events, NEW t \in Slots, Supersede(e, t)
    PROVE  IInv'
  <1> DEFINE h == hand[t]
             g == [h EXCEPT !.closed = "superseded", !.watched = FALSE]
  <1>1. h.phase \in Turning /\ ~h.ran /\ HandOK(h) /\ mode' = mode /\ pass.at = "scanning"
    BY TurnFacts DEF Supersede
  <1>2. SameTurn(g, h)
    BY TurnFacts DEF SameTurn, HandFields
  <1>3. SettleOnce(t, "complete", g)
    BY DEF Supersede
  <1>4. pass' = [pass EXCEPT !.blocked =
                    IF LaneFree(hand', LaneOf[e]) THEN @ \ {LaneOf[e]} ELSE @]
    BY DEF Supersede
  <1> HIDE DEF g
  <1>5. HandOK(g) /\ "complete" \in Ops
    BY <1>1, <1>2, Fewer DEF Ops
  <1>6. /\ Core(row, hand, mode)'
        /\ \A u \in Slots : u # t => hand'[u] = hand[u]
        /\ Over(hand'[t]) \/ (/\ hand'[t].phase = g.phase /\ hand'[t].event = g.event
                              /\ hand'[t].occupies = g.occupies)
    BY <1>1, <1>2, <1>3, <1>5, SettleOnceCore DEF SameTurn
  <1>7. /\ hand'[t].occupies => hand[t].occupies /\ hand'[t].event = hand[t].event
        /\ hand'[t].phase # "claimed" /\ hand[t].phase # "claimed"
    BY <1>1, <1>2, <1>6, OverFacts DEF SameTurn, Turning
  <1>8. \A u \in Slots : hand'[u].occupies => hand[u].occupies /\ hand'[u].event = hand[u].event
    BY <1>6, <1>7
  <1>9. /\ DOMAIN pass' = PassFields /\ pass'.at = "scanning"
        /\ pass'.blocked = IF LaneFree(hand', LaneOf[e])
                           THEN pass.blocked \ {LaneOf[e]} ELSE pass.blocked
    BY <1>1, <1>4 DEF IInv, LanesOK, PassFields
  <1>10. Picked(hand, pass)'
    BY <1>1, <1>6, <1>7 DEF IInv, Picked
  <1>11. \A u \in Slots : hand'[u].occupies => LaneOf[hand'[u].event] \in pass'.blocked
    <2> SUFFICES ASSUME NEW u \in Slots, hand'[u].occupies
                 PROVE  LaneOf[hand'[u].event] \in pass'.blocked
      OBVIOUS
    <2>1. LaneOf[hand'[u].event] \in pass.blocked
      BY <1>1, <1>8 DEF IInv, LanesOK
    <2>2. LaneFree(hand', LaneOf[e]) => LaneOf[hand'[u].event] # LaneOf[e]
      BY DEF LaneFree
    <2> QED
      BY <1>9, <2>1, <2>2
  <1>12. LanesOK(hand, pass)'
    BY <1>8, <1>9, <1>11 DEF IInv, LanesOK
  <1> QED
    BY <1>6, <1>10, <1>12 DEF IInv

-----------------------------------------------------------------------------
(* Stop, restart, crash *)

\* Every handler may change, but none moves.
LEMMA HandsChange ==
    ASSUME IInv, row' = row, pass' = pass, DOMAIN hand' = Slots,
           \A t \in Slots : /\ HandOK(hand'[t]) /\ hand'[t].event = hand[t].event
                            /\ hand'[t].phase = hand[t].phase
                            /\ hand'[t].taken = hand[t].taken
                            /\ hand'[t].occupies => hand[t].occupies,
           Retired(hand', mode')
    PROVE  IInv'
  <1>1. Core(row, hand, mode)'
    BY DEF IInv, Core, RowsOK, HandsOK, Linked, Keeping, Owns, Retired
  <1>2. Picked(hand, pass)' /\ LanesOK(hand, pass)'
    BY LanesKept, PickedKept DEF IInv
  <1> QED
    BY <1>1, <1>2 DEF IInv

LEMMA StopSteps ==
    ASSUME IInv, Stop
    PROVE  IInv'
  <1>1. row' = row /\ pass' = pass /\ DOMAIN hand' = Slots
    BY DEF Stop
  <1>2. ASSUME NEW t \in Slots
        PROVE  /\ HandOK(hand'[t]) /\ hand'[t].event = hand[t].event
               /\ hand'[t].phase = hand[t].phase /\ hand'[t].taken = hand[t].taken
               /\ hand'[t].occupies => hand[t].occupies
               /\ hand'[t].owner # "registered"
    <2> DEFINE h == hand[t]
               g == [h EXCEPT !.owner = "retired"]
               k == [h EXCEPT !.owner = "retired", !.watched = FALSE]
    <2>1. HandOK(h) /\ DOMAIN h = HandFields
      BY TurnFacts
    <2>2. CASE h.phase = "none" \/ h.owner # "registered"
      <3>1. hand'[t] = h
        BY <2>2 DEF Stop
      <3> QED
        BY <2>1, <2>2, <3>1 DEF HandOK, Turning
    <2>3. CASE ~(h.phase = "none" \/ h.owner # "registered")
      <3>1. hand'[t] \in {g, k}
        BY <2>3 DEF Stop
      <3>2. /\ DOMAIN g = HandFields /\ g.event = h.event /\ g.owner = "retired"
            /\ g.phase = h.phase /\ g.active = h.active /\ g.occupies = h.occupies
            /\ g.write = h.write /\ g.taken = h.taken /\ g.running = h.running
            /\ g.ran = h.ran
        BY <2>1 DEF HandFields
      <3>3. /\ DOMAIN k = HandFields /\ k.event = h.event /\ k.owner = "retired"
            /\ k.phase = h.phase /\ k.active = h.active /\ k.occupies = h.occupies
            /\ k.write = h.write /\ k.taken = h.taken /\ k.running = h.running
            /\ k.ran = h.ran
        BY <2>1 DEF HandFields
      <3> HIDE DEF g, k
      <3>4. HandOK(g) /\ HandOK(k)
        BY <2>1, <3>2, <3>3 DEF HandOK
      <3> QED
        BY <3>1, <3>2, <3>3, <3>4
    <2> QED
      BY <2>2, <2>3
  <1>3. Retired(hand', mode')
    BY <1>2 DEF Retired
  <1> QED
    BY <1>1, <1>2, <1>3, HandsChange

LEMMA DisposeSteps ==
    ASSUME IInv, Dispose
    PROVE  IInv'
  <1>1. row' = row /\ pass' = pass /\ DOMAIN hand' = Slots
    BY DEF Dispose
  <1>2. ASSUME NEW t \in Slots
        PROVE  /\ HandOK(hand'[t]) /\ hand'[t].event = hand[t].event
               /\ hand'[t].phase = hand[t].phase /\ hand'[t].taken = hand[t].taken
               /\ hand'[t].occupies => hand[t].occupies
               /\ hand'[t].owner # "registered"
    <2> DEFINE h == hand[t]
               g == [h EXCEPT !.active = FALSE, !.occupies = FALSE, !.watched = FALSE]
    <2>1. HandOK(h) /\ DOMAIN h = HandFields /\ h.owner # "registered"
      BY TurnFacts DEF Dispose, IInv, Core, Retired
    <2>2. hand'[t] = IF h.phase # "none" THEN g ELSE h
      BY DEF Dispose
    <2>3. /\ DOMAIN g = HandFields /\ g.event = h.event /\ g.owner = h.owner
          /\ g.phase = h.phase /\ ~g.active /\ ~g.occupies
          /\ g.write = h.write /\ g.taken = h.taken /\ g.running = h.running
          /\ g.ran = h.ran
      BY <2>1 DEF HandFields
    <2> HIDE DEF g
    <2>4. HandOK(g)
      BY <2>1, <2>3 DEF HandOK
    <2> QED
      BY <2>1, <2>2, <2>3, <2>4
  <1>3. Retired(hand', mode')
    BY <1>2 DEF Retired
  <1> QED
    BY <1>1, <1>2, <1>3, HandsChange

LEMMA StartSteps ==
    ASSUME IInv, Start
    PROVE  IInv'
  <1>1. row' = row /\ pass' = pass /\ hand' = hand /\ mode' = "up"
    BY DEF Start
  <1> QED
    BY <1>1, TurnFacts, HandsChange DEF Retired, IInv, Core, HandsOK

LEMMA CrashSteps ==
    ASSUME IInv, Crash
    PROVE  IInv'
  <1>1. row' = row /\ pass' = NoPass /\ DOMAIN hand' = Slots
    BY DEF Crash
  <1>2. ASSUME NEW t \in Slots
        PROVE  /\ HandOK(hand'[t]) /\ ~hand'[t].occupies /\ hand'[t].phase # "claimed"
               /\ hand'[t].owner # "registered"
               /\ IF hand[t].phase # "none" /\ Held(t)
                  THEN hand'[t].phase = "dead" /\ hand'[t].event = hand[t].event
                  ELSE hand'[t].phase \notin Live
    <2> DEFINE h == hand[t]
               d == [NoHandler EXCEPT !.event = h.event, !.owner = "dead",
                                      !.phase = "dead", !.ran = h.ran]
    <2>1. HandOK(h) /\ (h.phase # "none" => h.event \in Events)
      BY TurnFacts DEF HandOK
    <2>2. CASE h.phase = "none"
      <3>1. hand'[t] = h
        BY <2>2 DEF Crash
      <3> QED
        BY <2>1, <2>2, <3>1, OverFacts DEF Over
    <2>3. CASE h.phase # "none" /\ Held(t)
      <3>1. hand'[t] = d
        BY <2>3 DEF Crash
      <3>2. HandOK(d) /\ d.phase = "dead" /\ d.event = h.event /\ ~d.occupies
            /\ d.owner = "dead"
        BY <2>1, <2>3 DEF HandOK, NoHandler, HandFields, Live, Turning
      <3> QED
        BY <2>3, <3>1, <3>2
    <2>4. CASE h.phase # "none" /\ ~Held(t)
      <3>1. hand'[t] = Ended(h)
        BY <2>4 DEF Crash
      <3>2. h.taken
        <4>1. CASE h.phase = "settled"
          BY <2>1, <4>1 DEF HandOK
        <4>2. CASE h.phase # "settled"
          <5>1. h.phase \in Live
            BY <2>1, <2>4, <4>2 DEF HandOK
          <5> QED
            BY <2>4, <5>1, HeldOwns DEF IInv, Core, Keeping
        <4> QED
          BY <4>1, <4>2
      <3>3. Over(Ended(h))
        BY <2>1, <2>4, <3>2, EndedOver
      <3> QED
        BY <2>4, <3>1, <3>3, OverFacts DEF Over
    <2> QED
      BY <2>2, <2>3, <2>4
  <1>3. RowsOK(row)' /\ HandsOK(hand)' /\ Retired(hand, mode)' /\ Picked(hand, pass)'
    BY <1>1, <1>2 DEF IInv, Core, RowsOK, HandsOK, Retired, Picked
  <1>4. Linked(row, hand)'
    <2> SUFFICES ASSUME NEW f \in Events, row[f].status = "claimed", row[f].token # Sibling
                 PROVE  /\ row[f].token \in Slots /\ hand'[row[f].token].event = f
                        /\ hand'[row[f].token].phase \in Live
      BY <1>1 DEF Linked
    <2>1. /\ row[f].token \in Slots /\ hand[row[f].token].event = f
          /\ hand[row[f].token].phase \in Live
      BY DEF IInv, Core, Linked
    <2>2. hand[row[f].token].phase # "none" /\ Held(row[f].token)
      BY <2>1 DEF Held, Live, Turning
    <2> QED
      BY <1>2, <2>1, <2>2 DEF Live
  <1>5. Keeping(row, hand)'
    <2> SUFFICES ASSUME NEW t \in Slots, hand'[t].phase \in Live
                 PROVE  Owns(row, t, hand'[t])
      BY <1>1 DEF Keeping
    <2>1. Held(t) /\ hand'[t].event = hand[t].event
      BY <1>2
    <2> QED
      BY <2>1 DEF Held, Owns
  <1>6. LanesOK(hand, pass)'
    BY <1>1, <1>2 DEF LanesOK, NoPass, PassFields
  <1> QED
    BY <1>3, <1>4, <1>5, <1>6 DEF IInv, Core

-----------------------------------------------------------------------------
(* The invariant *)

LEMMA StepKeeps ==
    ASSUME IInv, Next
    PROVE  IInv'
  <1>1. CASE DrainStep
    BY <1>1, BeginSteps, ScanSteps, ClaimSteps, ClaimedSteps DEF DrainStep
  <1>2. CASE Outside
    <2>1. ASSUME NEW t \in Slots, LeaseEnds(t)
          PROVE  IInv'
      BY <2>1, LeaseSteps
    <2>2. ASSUME NEW e \in Events, Resubmit(e) \/ DelayEnds(e)
          PROVE  IInv'
      BY <2>2, AdmissionSteps
    <2>3. ASSUME NEW e \in Events, SiblingClaims(e) \/ SiblingRecovers(e) \/ SiblingEnds(e)
          PROVE  IInv'
      BY <2>3, SiblingSteps, RecoverySteps
    <2> QED
      BY <1>2, <2>1, <2>2, <2>3, CrashSteps DEF Outside
  <1>3. CASE Local
    <2>1. ASSUME NEW e \in Events, Admit(e)
          PROVE  IInv'
      BY <2>1, AdmissionSteps
    <2>2. ASSUME NEW e \in Events, NEW t \in Slots, Supersede(e, t)
          PROVE  IInv'
      BY <2>2, SupersedeSteps
    <2>3. ASSUME NEW t \in Slots, TurnStep(t) \/ Return(t)
          PROVE  IInv'
      BY <2>3, TurnSteps, ReturnSteps
    <2>4. ASSUME NEW t \in Slots, Stall(t) \/ RetryWrite(t) \/ GiveUp(t) \/ Refresh(t)
          PROVE  IInv'
      BY <2>4, StallSteps, RetrySteps, LeaseSteps
    <2> QED
      BY <1>3, <2>1, <2>2, <2>3, <2>4, StopSteps, DisposeSteps, StartSteps DEF Local
  <1> QED
    BY <1>1, <1>2, <1>3 DEF Next

LEMMA IngressInv == Spec => []IInv
  <1>1. Init => IInv
    <2> SUFFICES ASSUME Init PROVE IInv
      OBVIOUS
    <2>1. \A e \in Events : row[e] = NoRow /\ DOMAIN row[e] = RowFields
                            /\ row[e].status = "none"
      BY DEF Init, NoRow, RowFields
    <2>2. \A t \in Slots : hand[t] = NoHandler /\ HandOK(hand[t])
                           /\ hand[t].phase = "none" /\ ~hand[t].occupies
                           /\ hand[t].owner = "none"
      BY NoHandlerOK DEF Init
    <2>3. DOMAIN row = Events /\ DOMAIN hand = Slots /\ pass.at = "idle"
          /\ DOMAIN pass = PassFields
      BY DEF Init, NoPass, PassFields
    <2>4. Core(row, hand, mode)
      BY <2>1, <2>2, <2>3
      DEF Core, RowsOK, HandsOK, Linked, Keeping, Retired, Live, Turning
    <2>5. Picked(hand, pass) /\ LanesOK(hand, pass)
      BY <2>2, <2>3 DEF Picked, LanesOK
    <2> QED
      BY <2>4, <2>5 DEF IInv
  <1>2. IInv /\ [Next]_vars => IInv'
    <2> SUFFICES ASSUME IInv, [Next]_vars PROVE IInv'
      OBVIOUS
    <2>1. CASE UNCHANGED vars
      BY <2>1 DEF vars, IInv, Core, RowsOK, HandsOK, Linked, Keeping, Retired, Picked,
                  LanesOK, Owns
    <2>2. CASE Next
      BY <2>2, StepKeeps
    <2> QED
      BY <2>1, <2>2
  <1> QED
    BY <1>1, <1>2, PTL DEF Spec

-----------------------------------------------------------------------------
(* Theorems *)

(***************************************************************************)
(* "Wedged ownership beats silent double-dispatch": whichever of a stop, a *)
(* stall, a superseding event, a failed write or a late failure races the  *)
(* completion of an adopted turn, its row is completed or still claimed by *)
(* it, unless recovery took the claim.                                     *)
(***************************************************************************)
THEOREM RanIsKeptTheorem == Spec => []RanIsKept
  <1>1. IInv => RanIsKept
    <2> SUFFICES ASSUME IInv, NEW t \in Slots, hand[t].ran, ~hand[t].taken PROVE Held(t)
      BY DEF RanIsKept
    <2>1. hand[t].phase \in Live /\ hand[t].phase # "none"
      BY TurnFacts DEF HandOK, Live, Turning
    <2>2. Owns(row, t, hand[t])
      BY <2>1 DEF IInv, Core, Keeping
    <2> QED
      BY <2>1, <2>2, HeldOwns
  <1> QED
    BY <1>1, IngressInv, PTL

(***************************************************************************)
(* Recovery leaves the claims of the live drain alone, so each of them is  *)
(* worked on, by a handler or by the pass that just claimed it.            *)
(***************************************************************************)
THEOREM NoOrphanClaimTheorem == Spec => []NoOrphanClaim
  <1>1. IInv => NoOrphanClaim
    <2> SUFFICES ASSUME IInv, NEW e \in HasStatus("claimed"), row[e].token # Sibling,
                        hand[row[e].token].owner = "registered"
                 PROVE  \/ hand[row[e].token].active /\ hand[row[e].token].event = e
                        \/ pass.at = "claimed" /\ pass.got = row[e].token
      BY DEF NoOrphanClaim
    <2>1. e \in Events /\ row[e].status = "claimed"
      BY DEF HasStatus
    <2>2. row[e].token \in Slots /\ hand[row[e].token].event = e
      BY <2>1 DEF IInv, Core, Linked
    <2>3. /\ hand[row[e].token].phase \in Turning \cup {"claimed"}
          /\ hand[row[e].token].phase \in Turning => hand[row[e].token].active
      BY <2>2, TurnFacts DEF HandOK
    <2> QED
      BY <2>2, <2>3 DEF IInv, Picked
  <1> QED
    BY <1>1, IngressInv, PTL

(***************************************************************************)
(* A drain never has two turns that occupy one lane: the lanes a pass has  *)
(* not blocked stay free until it claims for them, since supersession      *)
(* unblocks a lane only after its turn has settled.                        *)
(***************************************************************************)
THEOREM OneTurnPerLaneTheorem == Spec => []OneTurnPerLane
  <1>1. IInv => OneTurnPerLane
    BY DEF IInv, LanesOK, OneTurnPerLane, Lane
  <1> QED
    BY <1>1, IngressInv, PTL
=============================================================================
