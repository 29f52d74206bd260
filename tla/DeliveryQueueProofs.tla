------------------------ MODULE DeliveryQueueProofs ------------------------
(***************************************************************************)
(* A message reaches the platform at most once, and while it is in flight  *)
(* its row says so, for every number of messages, processes, crashes, lost *)
(* leases, storage faults, replays and recovery scans.                     *)
(*                                                                         *)
(* The inductive invariant relates one message's row to each job that      *)
(* works on it (JobInv), two jobs on one message to each other (Apart),    *)
(* and the row to the copies on the platform (RowInv).  Two more           *)
(* invariants rest on it: a row ends aloud or its message was let loose    *)
(* (LifeInv), which makes the queue implement DeliveryPromise; and what    *)
(* was sent, with what may still be sent, is in the budget (BudgetInv).    *)
(***************************************************************************)
EXTENDS DeliveryQueue, FiniteSetTheorems, TLAPS

Has(r, c) == r.status = "pending" /\ r.claim = c /\ c # 0

Uncustodied(j) == j.stage \in {"cleared", "flight"} /\ j.claim = 0

\* A message that arrived is not forgotten: a row that is still pending
\* carries evidence, and no stable intent is deleted to be replayed.
RowInv(m, r, k, last) ==
    /\ r.claim <= last
    /\ r.claim = 0 => ~r.leased
    /\ k <= 1
    /\ k > 0 => /\ r.status # "new"
                /\ r.status = "pending" => r.state \in Evidence
                /\ r.status = "deleted" => m \notin Stable

\* What a job that has not sent yet, is sending or has sent may rely on.
SenderInv(r, j, k) ==
    /\ j.stage = "flight" /\ j.claim # 0
          => Has(r, j.claim) /\ r.leased /\ r.state \in Evidence /\ k = 0
    /\ j.stage \in {"started", "cleared"} /\ Has(r, j.claim) /\ r.leased
          => r.state \in Evidence
    /\ j.stage \in {"admitted", "reserving", "held", "started", "cleared"}
       /\ Has(r, j.claim) => k = 0
    /\ j.stage \in {"arrived", "recorded"} => k > 0

\* What recovery found has no lease, and gets none while it is looked at.
SnapInv(r, j, k) ==
    j.kind = "recovery" /\ j.stage # "finalizing" =>
        /\ ~j.snap.leased /\ j.snap.status = "pending"
        /\ Has(r, j.snap.claim) => ~r.leased
        /\ j.stage = "proved" /\ Has(r, j.snap.claim) => k = 0

JobInv(m, r, j, k, last) ==
    /\ j.claim <= last /\ j.snap.claim <= last
    /\ j.stage \in {"admitted", "reserving", "held", "started", "recorded"} => j.claim # 0
    /\ j.stage \in {"idle", "scanned", "proved"} => j.claim = 0
    /\ j.stage \in {"scanned", "proved"} => j.kind = "recovery"
    /\ j.stage = "finalizing" => j.snap.status = "failed"
    /\ SenderInv(r, j, k)
    /\ SnapInv(r, j, k)
    /\ Uncustodied(j) =>
          k = 0 /\ (r.status = "completed" \/ (r.status = "deleted" /\ m \notin Stable))

\* Claims are handed out once, and a message is let loose once.
Apart(i, j) ==
    /\ i.claim # 0 => j.claim # i.claim
    /\ Uncustodied(i) => ~Uncustodied(j)

MsgInv(m) ==
    /\ RowInv(m, row[m], copies[m], lastClaim)
    /\ \A p \in Processes : JobInv(m, row[m], job[p][m], copies[m], lastClaim)
    /\ \A p, q \in Processes : p # q => Apart(job[p][m], job[q][m])

IInv == TypeOK /\ \A m \in Messages : MsgInv(m)

----------------------------------------------------------------------------
(* Rows: every operator of the module keeps the evidence in one piece *)

LEMMA RowFields ==
    ASSUME NEW r \in Row
    PROVE  /\ r.status \in {"new", "pending", "failed", "completed", "deleted"}
           /\ r.state \in States /\ r.claim \in Nat /\ r.stamp \in 0..2
           /\ r.leased \in BOOLEAN /\ r.retries \in Nat /\ r.attempts \in Nat
           /\ r.retries + 1 \in Nat
  BY DEF Row

LEMMA Literals ==
    /\ States = {"none", "producer_claimed", "settlement_pending",
                 "send_attempt_started", "unknown_after_send"}
    /\ 0 \in 0..2 /\ 1 \in 0..2 /\ 2 \in 0..2 /\ 0 \in Nat
    /\ {"pending", "failed", "completed", "deleted"}
          \subseteq {"new", "pending", "failed", "completed", "deleted"}
  BY DEF States, Evidence

\* The shapes in which the module's operators change a row.
LEMMA Updates ==
    ASSUME NEW r \in Row, NEW s \in States, NEW c \in Nat, NEW t \in 0..2,
           NEW b \in BOOLEAN, NEW n \in Nat,
           NEW u \in {"new", "pending", "failed", "completed", "deleted"}
    PROVE  /\ [r EXCEPT !.state = s, !.stamp = t, !.leased = b] \in Row
           /\ [r EXCEPT !.state = s, !.stamp = t] \in Row
           /\ [r EXCEPT !.state = s, !.claim = c, !.stamp = t, !.leased = b] \in Row
           /\ [r EXCEPT !.state = s] \in Row /\ [r EXCEPT !.leased = b] \in Row
           /\ [r EXCEPT !.status = u] \in Row /\ [r EXCEPT !.status = u, !.state = s] \in Row
           /\ [r EXCEPT !.attempts = n] \in Row /\ [r EXCEPT !.retries = n] \in Row
  BY DEF Row

LEMMA FailUpdates ==
    ASSUME NEW r \in Row, NEW s \in States, NEW c \in Nat, NEW t \in 0..2, NEW n \in Nat
    PROVE  /\ [r EXCEPT !.retries = n, !.leased = FALSE, !.state = s, !.claim = c,
                        !.stamp = t] \in Row
           /\ [r EXCEPT !.retries = n, !.leased = FALSE, !.state = s, !.claim = c] \in Row
  BY DEF Row

LEMMA BlankRow == Blank \in Row /\ Coherent(Blank)
  BY DEF Blank, Row, States, Coherent, Evidence

\* A row that ends.
LEMMA EndedRows ==
    ASSUME NEW r, NEW m
    PROVE  Acked(m, r) \in GoodRow /\ Removed \in GoodRow /\ Compacted(m) \in GoodRow
  <1>1. Acked(m, r) \in Row /\ Removed \in Row /\ Compacted(m) \in Row
    <2> DEFINE Ended(u) == [Blank EXCEPT !.status = u]
    <2>1. Ended("completed") \in Row /\ Ended("deleted") \in Row /\ Ended("failed") \in Row
      BY BlankRow, Updates, Literals, Zenon
    <2>2. /\ Acked(m, r) = IF m \in Stable THEN Ended("completed") ELSE Ended("deleted")
          /\ Removed = Ended("deleted")
          /\ Compacted(m) = IF m \in Stable THEN Ended("failed") ELSE Ended("deleted")
      BY DEF Acked, Removed, Compacted
    <2> QED BY <2>1, <2>2, Zenon
  <1>2. Coherent(Acked(m, r)) /\ Coherent(Removed) /\ Coherent(Compacted(m))
    BY DEF Acked, Removed, Compacted, Blank, Coherent
  <1> QED BY <1>1, <1>2 DEF GoodRow

\* A row that is taken over, or written.
LEMMA FreshRows ==
    ASSUME NEW r \in GoodRow, NEW c \in Nat \ {0}
    PROVE  /\ ClaimedBy(r, c) \in GoodRow
           /\ [ClaimedBy(Blank, c) EXCEPT !.status = "pending"] \in GoodRow
  <1>1. \A q \in Row : ClaimedBy(q, c) \in Row /\ Coherent(ClaimedBy(q, c))
    <2> SUFFICES ASSUME NEW q \in Row
                 PROVE  ClaimedBy(q, c) \in Row /\ Coherent(ClaimedBy(q, c))
      OBVIOUS
    <2>1. c \in Nat
      OBVIOUS
    <2>2. ClaimedBy(q, c) \in Row
      BY <2>1, Updates, Literals, Zenon DEF ClaimedBy
    <2>3. Coherent(ClaimedBy(q, c))
      BY DEF ClaimedBy, Coherent, Row
    <2> QED BY <2>2, <2>3
  <1>2. [ClaimedBy(Blank, c) EXCEPT !.status = "pending"] \in GoodRow
    <2>1. PICK q \in Row : q = ClaimedBy(Blank, c) /\ Coherent(q)
                         /\ q.state = "producer_claimed"
      BY <1>1, BlankRow DEF ClaimedBy, Blank
    <2>2. [q EXCEPT !.status = "pending"] \in Row
      BY Updates, Literals, Zenon
    <2>3. Coherent([q EXCEPT !.status = "pending"])
      BY <2>1 DEF Coherent, Row
    <2> QED BY <2>1, <2>2, <2>3 DEF GoodRow
  <1> QED BY <1>1, <1>2 DEF GoodRow

\* A row that is marked.
LEMMA MarkedRows ==
    ASSUME NEW r \in GoodRow
    PROVE  /\ Promoted(r) \in GoodRow /\ Dispatched(r) \in GoodRow
           /\ r.state \in Evidence => OutcomeUnknown(r) \in GoodRow
           /\ Staged(r) \in GoodRow
           /\ [r EXCEPT !.leased = FALSE] \in GoodRow
  <1>1. r \in Row /\ Coherent(r)
    BY DEF GoodRow
  <1>2. /\ Promoted(r) \in Row /\ Dispatched(r) \in Row /\ OutcomeUnknown(r) \in Row
        /\ Staged(r) \in Row /\ [r EXCEPT !.leased = FALSE] \in Row
    BY <1>1, RowFields, Updates, Literals, Zenon
    DEF Promoted, Dispatched, OutcomeUnknown, Staged
  <1>3. Coherent(Promoted(r)) /\ Coherent(Dispatched(r)) /\ Coherent(Staged(r))
    BY <1>1 DEF Promoted, Dispatched, Staged, Coherent, Row
  <1>4. r.state \in Evidence => Coherent(OutcomeUnknown(r))
    BY <1>1 DEF OutcomeUnknown, Coherent, Row, Evidence
  <1>5. Coherent([r EXCEPT !.leased = FALSE])
    BY <1>1 DEF Coherent, Row
  <1> QED BY <1>2, <1>3, <1>4, <1>5 DEF GoodRow

\* A row whose attempt failed, or is counted.
LEMMA FailedRows ==
    ASSUME NEW r \in GoodRow, NEW n \in Nat
    PROVE  /\ Failed(r) \in GoodRow /\ FailedBeforeSend(r) \in GoodRow
           /\ FailedAfterSend(r) \in GoodRow
           /\ [r EXCEPT !.attempts = n] \in GoodRow
           /\ [r EXCEPT !.retries = n] \in GoodRow
  <1>1. r \in Row /\ Coherent(r)
    BY DEF GoodRow
  <1>2. Larger(r.stamp, 1) \in 0..2 /\ Larger(r.stamp, 1) # 0
    BY <1>1, RowFields DEF Larger
  <1>3. /\ Failed(r) \in Row /\ FailedBeforeSend(r) \in Row /\ FailedAfterSend(r) \in Row
        /\ [r EXCEPT !.attempts = n] \in Row /\ [r EXCEPT !.retries = n] \in Row
    <2> DEFINE c == IF r.state = "producer_claimed" THEN 0 ELSE r.claim
               s == IF r.state = "producer_claimed" THEN "none" ELSE r.state
    <2>1. c \in Nat /\ s \in States
      BY <1>1, RowFields, Literals
    <2>2. Failed(r) = [r EXCEPT !.retries = r.retries + 1, !.leased = FALSE,
                                !.state = s, !.claim = c]
      BY Zenon DEF Failed
    <2>3. FailedAfterSend(r)
            = [r EXCEPT !.retries = r.retries + 1, !.leased = FALSE,
                        !.state = "unknown_after_send", !.claim = c,
                        !.stamp = Larger(r.stamp, 1)]
      BY Zenon DEF FailedAfterSend
    <2> HIDE DEF c, s
    <2>4. r.retries + 1 \in Nat
      BY <1>1, RowFields
    <2>7. Failed(r) \in Row
      <3>1. [r EXCEPT !.retries = r.retries + 1, !.leased = FALSE,
                      !.state = s, !.claim = c] \in Row
        BY <1>1, <2>1, <2>4, FailUpdates, Literals, Zenon
      <3> QED BY <2>2, <3>1, Zenon
    <2>8. FailedAfterSend(r) \in Row
      <3>1. [r EXCEPT !.retries = r.retries + 1, !.leased = FALSE,
                      !.state = "unknown_after_send", !.claim = c,
                      !.stamp = Larger(r.stamp, 1)] \in Row
        BY <1>1, <1>2, <2>1, <2>4, FailUpdates, Literals, Zenon
      <3> QED BY <2>3, <3>1, Zenon
    <2>5. FailedBeforeSend(r) \in Row
      BY <1>1, <2>4, FailUpdates, Literals, Zenon DEF FailedBeforeSend
    <2>6. [r EXCEPT !.attempts = n] \in Row /\ [r EXCEPT !.retries = n] \in Row
      BY <1>1, Updates, RowFields, Zenon
    <2> QED BY <2>5, <2>6, <2>7, <2>8
  <1>4. Coherent(Failed(r))
    BY <1>1 DEF Failed, Coherent, Row
  <1>5. Coherent(FailedBeforeSend(r))
    BY <1>1 DEF FailedBeforeSend, Coherent, Row
  <1>6. Coherent(FailedAfterSend(r))
    BY <1>1, <1>2 DEF FailedAfterSend, Coherent, Row
  <1>7. /\ Coherent([r EXCEPT !.attempts = n])
        /\ Coherent([r EXCEPT !.retries = n])
    BY <1>1 DEF Coherent, Row
  <1> QED BY <1>3, <1>4, <1>5, <1>6, <1>7 DEF GoodRow

LEMMA CountedFields ==
    ASSUME NEW r \in GoodRow, NEW n \in Nat
    PROVE  LET r2 == [r EXCEPT !.attempts = n] IN
           /\ r2 \in GoodRow /\ r2.status = r.status /\ r2.claim = r.claim
           /\ r2.leased = r.leased /\ r2.state = r.state
  BY FailedRows DEF GoodRow, Row

LEMMA TriesNat == ASSUME NEW r \in Row PROVE Tries(r) \in Nat
  BY RowFields DEF Tries, Larger

\* What the invariant needs to know of a changed row.
LEMMA FreshFields ==
    ASSUME NEW r \in GoodRow, NEW c
    PROVE  /\ ClaimedBy(r, c).status = r.status /\ ClaimedBy(r, c).claim = c
           /\ [ClaimedBy(Blank, c) EXCEPT !.status = "pending"].status = "pending"
           /\ [ClaimedBy(Blank, c) EXCEPT !.status = "pending"].claim = c
  <1>1. ClaimedBy(r, c).status = r.status /\ ClaimedBy(r, c).claim = c
    BY DEF ClaimedBy, Row, GoodRow
  <1>2. /\ [ClaimedBy(Blank, c) EXCEPT !.status = "pending"].status = "pending"
        /\ [ClaimedBy(Blank, c) EXCEPT !.status = "pending"].claim = c
    BY DEF ClaimedBy, Blank
  <1> QED BY <1>1, <1>2

LEMMA EndedFields ==
    ASSUME NEW r, NEW m
    PROVE  /\ Acked(m, r).status = (IF m \in Stable THEN "completed" ELSE "deleted")
           /\ Compacted(m).status = (IF m \in Stable THEN "failed" ELSE "deleted")
           /\ Removed.status = "deleted"
           /\ Acked(m, r).claim = 0 /\ Compacted(m).claim = 0 /\ Removed.claim = 0
           /\ ~Acked(m, r).leased /\ ~Compacted(m).leased /\ ~Removed.leased
  BY DEF Acked, Compacted, Removed, Blank

LEMMA MarkedFields ==
    ASSUME NEW r \in GoodRow
    PROVE  /\ Promoted(r).status = r.status /\ Promoted(r).claim = r.claim
           /\ Promoted(r).state \in Evidence
           /\ Dispatched(r).status = r.status /\ Dispatched(r).claim = r.claim
           /\ Dispatched(r).state \in Evidence /\ Dispatched(r).leased = r.leased
           /\ OutcomeUnknown(r).status = r.status /\ OutcomeUnknown(r).claim = r.claim
           /\ OutcomeUnknown(r).state \in Evidence /\ OutcomeUnknown(r).leased = r.leased
           /\ Staged(r).status = "failed" /\ Staged(r).claim = r.claim
           /\ Staged(r).leased = r.leased
  <1>1. r \in Row
    BY DEF GoodRow
  <1>2. /\ Promoted(r).status = r.status /\ Promoted(r).claim = r.claim
        /\ Promoted(r).state \in Evidence
        /\ Dispatched(r).status = r.status /\ Dispatched(r).claim = r.claim
        /\ Dispatched(r).state \in Evidence /\ Dispatched(r).leased = r.leased
    BY <1>1 DEF Promoted, Dispatched, Row, Evidence
  <1>3. /\ OutcomeUnknown(r).status = r.status /\ OutcomeUnknown(r).claim = r.claim
        /\ OutcomeUnknown(r).state \in Evidence /\ OutcomeUnknown(r).leased = r.leased
        /\ Staged(r).status = "failed" /\ Staged(r).claim = r.claim
        /\ Staged(r).leased = r.leased
    BY <1>1 DEF OutcomeUnknown, Staged, Row, Evidence
  <1> QED BY <1>2, <1>3

LEMMA FailedFields ==
    ASSUME NEW r \in GoodRow
    PROVE  /\ Failed(r).status = r.status /\ Failed(r).claim \in {0, r.claim}
           /\ ~Failed(r).leased /\ (r.state \in Evidence => Failed(r).state \in Evidence)
           /\ FailedBeforeSend(r).status = r.status /\ FailedBeforeSend(r).claim = 0
           /\ ~FailedBeforeSend(r).leased
           /\ FailedAfterSend(r).status = r.status
           /\ FailedAfterSend(r).claim \in {0, r.claim}
           /\ ~FailedAfterSend(r).leased /\ FailedAfterSend(r).state \in Evidence
  <1>1. r \in Row
    BY DEF GoodRow
  <1>2. /\ Failed(r).status = r.status /\ Failed(r).claim \in {0, r.claim}
        /\ ~Failed(r).leased /\ (r.state \in Evidence => Failed(r).state \in Evidence)
    BY <1>1 DEF Failed, Row, Evidence
  <1>3. /\ FailedBeforeSend(r).status = r.status /\ FailedBeforeSend(r).claim = 0
        /\ ~FailedBeforeSend(r).leased
        /\ FailedAfterSend(r).status = r.status
        /\ FailedAfterSend(r).claim \in {0, r.claim}
        /\ ~FailedAfterSend(r).leased /\ FailedAfterSend(r).state \in Evidence
    BY <1>1 DEF FailedBeforeSend, FailedAfterSend, Row, Evidence
  <1> QED BY <1>2, <1>3

----------------------------------------------------------------------------
(* What a change of the row leaves true for the other jobs on the message *)

LEMMA OwnerWrites ==
    ASSUME NEW m, NEW r, NEW r2, NEW o, NEW k, NEW last, NEW c,
           JobInv(m, r, o, k, last), c # 0, o.claim # c,
           r.status = "pending", r.claim = c,
           r2.claim \in {0, c}, r2.leased => r.leased
    PROVE  JobInv(m, r2, o, k, last)
  BY DEF JobInv, SenderInv, SnapInv, Has, Uncustodied

LEMMA RecoveryWrites ==
    ASSUME NEW m, NEW r, NEW r2, NEW o, NEW k, NEW last,
           JobInv(m, r, o, k, last), r.status \in {"pending", "failed"},
           r.status = "pending" => ~r.leased,
           r2.status = "pending" => /\ r.status = "pending" /\ ~r2.leased
                                    /\ r2.claim \in {0, r.claim}
    PROVE  JobInv(m, r2, o, k, last)
  BY DEF JobInv, SenderInv, SnapInv, Has, Uncustodied

LEMMA TakenOver ==
    ASSUME NEW m, NEW r, NEW r2, NEW o \in Job, NEW k, NEW last \in Nat,
           JobInv(m, r, o, k, last), r.status = "pending" => ~r.leased,
           r2.claim = last + 1,
           r.status \in {"pending", "new"} \/ (r.status = "deleted" /\ m \in Stable)
    PROVE  JobInv(m, r2, o, k, last + 1)
  BY DEF JobInv, SenderInv, SnapInv, Has, Uncustodied, Job, GoodRow, Row

LEMMA Restores ==
    ASSUME NEW m, NEW r, NEW r2, NEW o, NEW last, NEW c,
           JobInv(m, r, o, 0, last), c # 0, o.claim # c,
           r.status = "pending", r.claim = c, ~r2.leased
    PROVE  JobInv(m, r2, o, 0, last)
  BY DEF JobInv, SenderInv, SnapInv, Has, Uncustodied

LEMMA Lands ==
    ASSUME NEW m, NEW r, NEW o, NEW last, JobInv(m, r, o, 0, last),
           \/ \E c : Has(r, c) /\ r.leased /\ o.claim # c
           \/ r.status \in {"completed", "deleted"} /\ ~Uncustodied(o)
    PROVE  JobInv(m, r, o, 1, last)
  BY DEF JobInv, SenderInv, SnapInv, Has, Uncustodied

\* A job that is over relies on nothing.
LEMMA NoJobInv ==
    ASSUME NEW m, NEW r, NEW k, NEW last \in Nat
    PROVE  /\ NoJob \in Job /\ JobInv(m, r, NoJob, k, last)
           /\ \A o : Apart(NoJob, o) /\ Apart(o, NoJob)
  <1>1. Blank \in GoodRow /\ Blank.claim = 0
    BY BlankRow DEF GoodRow, Blank
  <1>2. NoJob \in Job
    BY <1>1 DEF NoJob, Job, Stages
  <1>3. /\ NoJob.claim = 0 /\ NoJob.stage = "idle" /\ NoJob.kind = "live"
        /\ NoJob.snap.claim = 0
    BY <1>1 DEF NoJob
  <1> QED BY <1>2, <1>3 DEF JobInv, SenderInv, SnapInv, Apart, Uncustodied

----------------------------------------------------------------------------
(* One message at a time *)

Rest == <<sends, told, loose, spent>>

RestOK ==
    /\ sends' \in [Messages -> Nat]
    /\ told' \subseteq Messages /\ loose' \subseteq Messages
    /\ spent' \in [{"crash", "stall", "fault", "replay"} -> Nat]

\* Job p on message m becomes j2, the message's row r2 and its copies k2.
Becomes(p, m, r2, j2, k2) ==
    /\ r2 \in GoodRow /\ j2 \in Job /\ k2 \in Nat
    /\ row' = [row EXCEPT ![m] = r2]
    /\ job' = [job EXCEPT ![p][m] = j2]
    /\ copies' = [copies EXCEPT ![m] = k2]
    /\ lastClaim' \in Nat /\ lastClaim <= lastClaim'

\* A step of one job on one message: only what it changes is to be looked at.
LEMMA Local ==
    ASSUME IInv, RestOK, NEW p \in Processes, NEW m \in Messages,
           NEW r2, NEW j2, NEW k2, Becomes(p, m, r2, j2, k2),
           RowInv(m, r2, k2, lastClaim'), JobInv(m, r2, j2, k2, lastClaim'),
           \A q \in Processes \ {p} : /\ JobInv(m, r2, job[q][m], k2, lastClaim')
                                     /\ Apart(j2, job[q][m]) /\ Apart(job[q][m], j2)
    PROVE  IInv'
  <1>1. TypeOK'
    BY DEF IInv, TypeOK, RestOK, Becomes
  <1>2. ASSUME NEW n \in Messages PROVE MsgInv(n)'
    <2>1. MsgInv(n) /\ row[n] \in GoodRow /\ copies[n] \in Nat
          /\ \A q \in Processes : job[q][n] \in Job
      BY DEF IInv, TypeOK
    <2>2. CASE n # m
      <3>1. row'[n] = row[n] /\ copies'[n] = copies[n]
            /\ \A q \in Processes : job'[q][n] = job[q][n]
        BY <2>2 DEF IInv, TypeOK, Becomes
      <3>2. RowInv(n, row[n], copies[n], lastClaim')
        BY <2>1 DEF MsgInv, RowInv, GoodRow, Row, IInv, TypeOK, Becomes
      <3>3. \A q \in Processes : JobInv(n, row[n], job[q][n], copies[n], lastClaim')
        BY <2>1 DEF MsgInv, JobInv, Job, GoodRow, Row, IInv, TypeOK, Becomes
      <3> QED BY <2>1, <3>1, <3>2, <3>3 DEF MsgInv
    <2>3. CASE n = m
      <3>1. row'[m] = r2 /\ copies'[m] = k2 /\ job'[p][m] = j2
            /\ \A q \in Processes \ {p} : job'[q][m] = job[q][m]
        BY DEF IInv, TypeOK, Becomes
      <3> QED BY <2>1, <2>3, <3>1 DEF MsgInv
    <2> QED BY <2>2, <2>3
  <1> QED BY <1>1, <1>2 DEF IInv

\* What the invariant says of one job and its message.
LEMMA Facts ==
    ASSUME IInv, NEW p \in Processes, NEW m \in Messages
    PROVE  /\ row[m] \in GoodRow /\ copies[m] \in Nat /\ lastClaim \in Nat
           /\ job[p][m] \in Job
           /\ RowInv(m, row[m], copies[m], lastClaim)
           /\ JobInv(m, row[m], job[p][m], copies[m], lastClaim)
           /\ \A q \in Processes \ {p} :
                 /\ job[q][m] \in Job
                 /\ JobInv(m, row[m], job[q][m], copies[m], lastClaim)
                 /\ Apart(job[p][m], job[q][m]) /\ Apart(job[q][m], job[p][m])
  BY DEF IInv, TypeOK, MsgInv

\* A job that goes on with the claim it has, without touching the row.
LEMMA GoesOn ==
    ASSUME IInv, RestOK, NEW p \in Processes, NEW m \in Messages, NEW stage \in Stages,
           At(p, m, stage), UNCHANGED <<row, lastClaim, copies>>,
           JobInv(m, row[m], [job[p][m] EXCEPT !.stage = stage], copies[m], lastClaim),
           Uncustodied([job[p][m] EXCEPT !.stage = stage]) => Uncustodied(job[p][m])
    PROVE  IInv'
  <1> DEFINE j == job[p][m]
             j2 == [j EXCEPT !.stage = stage]
  <1>1. j2 \in Job /\ j2.claim = j.claim
    BY Facts DEF Job
  <1>2. Becomes(p, m, row[m], j2, copies[m]) /\ lastClaim' = lastClaim
    BY <1>1, Facts DEF IInv, TypeOK, At, Do, Becomes
  <1> HIDE DEF j2
  <1>3. \A q \in Processes \ {p} : Apart(j2, job[q][m]) /\ Apart(job[q][m], j2)
    BY <1>1, Facts DEF Apart, j2
  <1>4. JobInv(m, row[m], j2, copies[m], lastClaim)
    BY DEF j2
  <1>5. RowInv(m, row[m], copies[m], lastClaim)
        /\ \A q \in Processes \ {p} : JobInv(m, row[m], job[q][m], copies[m], lastClaim)
    BY Facts
  <1> QED BY <1>2, <1>3, <1>4, <1>5, Local

\* A row the owner of row r may leave behind.
OwnerRow(m, r, r2, k, last) ==
    /\ r2 \in GoodRow /\ RowInv(m, r2, k, last)
    /\ r2.claim \in {0, r.claim} /\ (r2.leased => r.leased)

\* A job that ends, writing the row it owns or nothing.
LEMMA EndsOwned ==
    ASSUME IInv, RestOK, NEW p \in Processes, NEW m \in Messages, NEW r2,
           End(p, m), UNCHANGED <<lastClaim, copies>>,
           WriteOwned(m, job[p][m].claim, r2),
           Has(row[m], job[p][m].claim) => OwnerRow(m, row[m], r2, copies[m], lastClaim),
           job[p][m].claim = 0 => UNCHANGED row
    PROVE  IInv'
  <1> DEFINE c == job[p][m].claim
  <1>1. /\ NoJob \in Job /\ JobInv(m, r2, NoJob, copies[m], lastClaim)
        /\ JobInv(m, row[m], NoJob, copies[m], lastClaim)
        /\ \A q \in Processes : Apart(NoJob, job[q][m]) /\ Apart(job[q][m], NoJob)
    BY Facts, NoJobInv
  <1>2. CASE ~Has(row[m], c)
    <2>1. row' = [row EXCEPT ![m] = row[m]]
      BY <1>2 DEF IInv, TypeOK, WriteOwned, Owns, Has, Write
    <2>2. Becomes(p, m, row[m], NoJob, copies[m]) /\ lastClaim' = lastClaim
      BY <1>1, <2>1, Facts DEF IInv, TypeOK, End, Do, Becomes
    <2>3. RowInv(m, row[m], copies[m], lastClaim)
          /\ \A q \in Processes \ {p} : JobInv(m, row[m], job[q][m], copies[m], lastClaim)
      BY Facts
    <2> QED BY <1>1, <2>2, <2>3, Local
  <1>3. CASE Has(row[m], c)
    <2>1. row' = [row EXCEPT ![m] = r2] /\ row[m].status = "pending"
          /\ row[m].claim = c /\ c # 0
      BY <1>3 DEF WriteOwned, Owns, Has, Write
    <2>2. Becomes(p, m, r2, NoJob, copies[m]) /\ lastClaim' = lastClaim
      BY <1>1, <1>3, <2>1, Facts DEF IInv, TypeOK, End, Do, Becomes, OwnerRow
    <2>3. \A q \in Processes \ {p} : job[q][m].claim # c
      BY <2>1, Facts DEF Apart
    <2>4. \A q \in Processes \ {p} : JobInv(m, r2, job[q][m], copies[m], lastClaim)
      BY <1>3, <2>1, <2>3, Facts, OwnerWrites DEF OwnerRow
    <2> QED BY <1>1, <1>3, <2>2, <2>4, Local DEF OwnerRow
  <1> QED BY <1>2, <1>3

\* What the operators keep of the relation between a row and its copies.
LEMMA RowInvKept ==
    ASSUME NEW m, NEW r \in GoodRow, NEW k, NEW last \in Nat,
           RowInv(m, r, k, last), r.status = "pending"
    PROVE  /\ RowInv(m, Failed(r), k, last) /\ RowInv(m, FailedAfterSend(r), k, last)
           /\ RowInv(m, Acked(m, r), k, last) /\ RowInv(m, Compacted(m), k, last)
           /\ RowInv(m, OutcomeUnknown(r), k, last) /\ RowInv(m, Dispatched(r), k, last)
           /\ RowInv(m, Staged(r), k, last)
           /\ r.claim # 0 => RowInv(m, Promoted(r), k, last)
           /\ k = 0 => RowInv(m, FailedBeforeSend(r), k, last) /\ RowInv(m, Removed, k, last)
  <1>1. /\ RowInv(m, Failed(r), k, last) /\ RowInv(m, FailedAfterSend(r), k, last)
        /\ k = 0 => RowInv(m, FailedBeforeSend(r), k, last)
    BY FailedFields DEF RowInv
  <1>2. /\ RowInv(m, OutcomeUnknown(r), k, last) /\ RowInv(m, Dispatched(r), k, last)
        /\ RowInv(m, Staged(r), k, last)
        /\ r.claim # 0 => RowInv(m, Promoted(r), k, last)
    BY MarkedFields DEF RowInv
  <1>3. /\ RowInv(m, Acked(m, r), k, last) /\ RowInv(m, Compacted(m), k, last)
        /\ k = 0 => RowInv(m, Removed, k, last)
    BY EndedFields DEF RowInv
  <1> QED BY <1>1, <1>2, <1>3

LEMMA OwnerRows ==
    ASSUME NEW m, NEW r \in GoodRow, NEW k, NEW last \in Nat,
           RowInv(m, r, k, last), r.status = "pending"
    PROVE  /\ OwnerRow(m, r, r, k, last) /\ OwnerRow(m, r, Failed(r), k, last)
           /\ OwnerRow(m, r, FailedAfterSend(r), k, last)
           /\ OwnerRow(m, r, Acked(m, r), k, last) /\ OwnerRow(m, r, Compacted(m), k, last)
           /\ r.state \in Evidence => OwnerRow(m, r, OutcomeUnknown(r), k, last)
           /\ k = 0 => /\ OwnerRow(m, r, FailedBeforeSend(r), k, last)
                       /\ OwnerRow(m, r, Removed, k, last)
  <1>1. /\ OwnerRow(m, r, r, k, last) /\ OwnerRow(m, r, Failed(r), k, last)
        /\ OwnerRow(m, r, FailedAfterSend(r), k, last)
        /\ k = 0 => OwnerRow(m, r, FailedBeforeSend(r), k, last)
    BY FailedRows, FailedFields, RowInvKept DEF OwnerRow
  <1>2. /\ OwnerRow(m, r, Acked(m, r), k, last) /\ OwnerRow(m, r, Compacted(m), k, last)
        /\ k = 0 => OwnerRow(m, r, Removed, k, last)
    <2>1. /\ Acked(m, r) \in GoodRow /\ Compacted(m) \in GoodRow /\ Removed \in GoodRow
      BY EndedRows
    <2>2. /\ Acked(m, r).claim = 0 /\ Compacted(m).claim = 0 /\ Removed.claim = 0
          /\ ~Acked(m, r).leased /\ ~Compacted(m).leased /\ ~Removed.leased
      BY EndedFields
    <2> QED BY <2>1, <2>2, RowInvKept DEF OwnerRow
  <1>3. r.state \in Evidence => OwnerRow(m, r, OutcomeUnknown(r), k, last)
    BY MarkedRows, MarkedFields, RowInvKept DEF OwnerRow
  <1> QED BY <1>1, <1>2, <1>3

\* What the owner of a pending row may write, seen from a state.
LEMMA OwnerMayWrite ==
    ASSUME IInv, NEW m \in Messages, row[m].status = "pending"
    PROVE  LET May(r2) == OwnerRow(m, row[m], r2, copies[m], lastClaim) IN
           /\ May(row[m]) /\ May(Failed(row[m])) /\ May(FailedAfterSend(row[m]))
           /\ May(Acked(m, row[m])) /\ May(Compacted(m))
           /\ row[m].state \in Evidence => May(OutcomeUnknown(row[m]))
           /\ copies[m] = 0 => May(FailedBeforeSend(row[m])) /\ May(Removed)
  <1>1. row[m] \in GoodRow /\ lastClaim \in Nat
        /\ RowInv(m, row[m], copies[m], lastClaim)
    BY DEF IInv, TypeOK, MsgInv
  <1> QED BY <1>1, OwnerRows

\* What a step does to the rest of the state stays within its types.
LEMMA RestTypes ==
    ASSUME TypeOK, NEW m \in Messages,
           sends' = sends \/ sends' = [sends EXCEPT ![m] = @ + 1],
           told' = told \/ Tell(m),
           loose' = loose \/ loose' = loose \cup {m},
           \/ spent' = spent
           \/ \E what \in {"crash", "stall", "fault", "replay"} :
                 spent' = [spent EXCEPT ![what] = @ + 1]
    PROVE  RestOK
  BY DEF TypeOK, RestOK, Tell

----------------------------------------------------------------------------
(* Steps that end a job *)

LEMMA DispatchFailsStep ==
    ASSUME IInv, NEW p \in Processes, NEW m \in Messages, DispatchFails(p, m)
    PROVE  IInv'
  <1>1. RestOK
    BY RestTypes DEF DispatchFails, Spend, IInv
  <1>2. /\ End(p, m) /\ UNCHANGED <<lastClaim, copies>>
        /\ WriteOwned(m, job[p][m].claim, Failed(row[m])) /\ job[p][m].claim # 0
    BY Facts DEF DispatchFails, JobInv
  <1> QED BY <1>1, <1>2, OwnerMayWrite, EndsOwned DEF Has

LEMMA RecordFailsStep ==
    ASSUME IInv, NEW p \in Processes, NEW m \in Messages, RecordFails(p, m)
    PROVE  IInv'
  <1>1. RestOK
    BY RestTypes DEF RecordFails, Spend, IInv
  <1>2. /\ End(p, m) /\ UNCHANGED <<lastClaim, copies>> /\ job[p][m].claim # 0
        /\ \/ WriteOwned(m, job[p][m].claim, FailedAfterSend(row[m]))
           \/ WriteOwned(m, job[p][m].claim, Acked(m, row[m]))
    BY DEF RecordFails
  <1> QED BY <1>1, <1>2, OwnerMayWrite, EndsOwned DEF Has

LEMMA AckStep ==
    ASSUME IInv, NEW p \in Processes, NEW m \in Messages, Ack(p, m) \/ AckFails(p, m)
    PROVE  IInv'
  <1>1. RestOK
    BY RestTypes DEF Ack, AckFails, Quiet, Spend, IInv
  <1>2. /\ End(p, m) /\ UNCHANGED <<lastClaim, copies>> /\ job[p][m].claim # 0
        /\ \/ WriteOwned(m, job[p][m].claim, FailedAfterSend(row[m]))
           \/ WriteOwned(m, job[p][m].claim, Acked(m, row[m]))
    BY Facts DEF Ack, AckFails, JobInv, Quiet
  <1> QED BY <1>1, <1>2, OwnerMayWrite, EndsOwned DEF Has

LEMMA AnswerVagueStep ==
    ASSUME IInv, NEW p \in Processes, NEW m \in Messages, AnswerVague(p, m)
    PROVE  IInv'
  <1>1. RestOK
    BY RestTypes DEF AnswerVague, Quiet, IInv
  <1>2. /\ End(p, m) /\ UNCHANGED <<lastClaim, copies>> /\ job[p][m].claim # 0
        /\ job[p][m].stage \in {"flight", "arrived"}
        /\ \/ WriteOwned(m, job[p][m].claim, FailedAfterSend(row[m]))
           \/ WriteOwned(m, job[p][m].claim, OutcomeUnknown(row[m]))
    BY DEF AnswerVague, Quiet
  <1>3. Has(row[m], job[p][m].claim) => row[m].state \in Evidence
    BY <1>2, Facts DEF JobInv, SenderInv, RowInv, Has
  <1> QED BY <1>1, <1>2, <1>3, OwnerMayWrite, EndsOwned DEF Has

LEMMA AnswerErrorStep ==
    ASSUME IInv, NEW p \in Processes, NEW m \in Messages, AnswerError(p, m)
    PROVE  IInv'
  <1>1. RestOK
    BY RestTypes DEF AnswerError, Quiet, IInv
  <1>2. /\ End(p, m) /\ UNCHANGED <<lastClaim, copies>> /\ job[p][m].claim # 0
        /\ WriteOwned(m, job[p][m].claim, Failed(row[m]))
    BY DEF AnswerError, Quiet
  <1> QED BY <1>1, <1>2, OwnerMayWrite, EndsOwned DEF Has

LEMMA AnswerNotSentStep ==
    ASSUME IInv, NEW p \in Processes, NEW m \in Messages, AnswerNotSent(p, m)
    PROVE  IInv'
  <1>1. RestOK
    BY RestTypes DEF AnswerNotSent, IInv
  <1>2. /\ End(p, m) /\ UNCHANGED <<lastClaim, copies>> /\ job[p][m].claim # 0
        /\ job[p][m].stage = "flight"
        /\ \/ WriteOwned(m, job[p][m].claim, FailedBeforeSend(row[m]))
           \/ WriteOwned(m, job[p][m].claim, Compacted(m))
    BY DEF AnswerNotSent
  <1>3. copies[m] = 0
    BY <1>2, Facts DEF JobInv, SenderInv
  <1> QED BY <1>1, <1>2, <1>3, OwnerMayWrite, EndsOwned DEF Has

LEMMA CancelStep ==
    ASSUME IInv, NEW p \in Processes, NEW m \in Messages, Cancel(p, m)
    PROVE  IInv'
  <1>1. RestOK
    BY RestTypes DEF Cancel, IInv
  <1>2. /\ End(p, m) /\ UNCHANGED <<lastClaim, copies>>
        /\ job[p][m].stage \in {"held", "started", "cleared"}
        /\ row[m].status = "pending" /\ row[m].claim = job[p][m].claim
        /\ \/ WriteOwned(m, job[p][m].claim, Removed)
           \/ WriteOwned(m, job[p][m].claim, FailedAfterSend(row[m]))
    BY DEF Cancel, Live, Owns
  <1>3. job[p][m].claim # 0 /\ copies[m] = 0
    BY <1>2, Facts DEF JobInv, SenderInv, Has, Uncustodied
  <1> QED BY <1>1, <1>2, <1>3, OwnerMayWrite, EndsOwned

LEMMA LeaseLostStep ==
    ASSUME IInv, NEW p \in Processes, NEW m \in Messages, LeaseLost(p, m)
    PROVE  IInv'
  <1>1. RestOK
    BY RestTypes DEF LeaseLost, IInv
  <1>2. /\ End(p, m) /\ UNCHANGED <<lastClaim, copies>>
        /\ WriteOwned(m, job[p][m].claim, Failed(row[m])) \/ UNCHANGED row
        /\ job[p][m].stage \in {"held", "started", "cleared", "recorded"} \/ UNCHANGED row
    BY DEF LeaseLost
  <1>3. WriteOwned(m, job[p][m].claim, Failed(row[m]))
        \/ WriteOwned(m, job[p][m].claim, row[m])
    BY <1>2 DEF WriteOwned, Write, IInv, TypeOK
  <1>4. job[p][m].claim = 0 => UNCHANGED row
    BY <1>2, Facts DEF JobInv, Uncustodied, WriteOwned, Owns
  <1> QED BY <1>1, <1>2, <1>3, <1>4, OwnerMayWrite, EndsOwned DEF Has

----------------------------------------------------------------------------
(* Steps that go on *)

LEMMA Staging ==
    ASSUME NEW j \in Job, NEW stage \in Stages
    PROVE  /\ [j EXCEPT !.stage = stage] \in Job
           /\ [j EXCEPT !.stage = stage].stage = stage
           /\ [j EXCEPT !.stage = stage].claim = j.claim
           /\ [j EXCEPT !.stage = stage].kind = j.kind
           /\ [j EXCEPT !.stage = stage].snap = j.snap
  BY DEF Job

\* A job that writes the row it owns and keeps its claim.
LEMMA OwnerGoesOn ==
    ASSUME IInv, RestOK, NEW p \in Processes, NEW m \in Messages, NEW r2, NEW j2 \in Job,
           Write(m, r2), Do(p, m, j2), UNCHANGED <<lastClaim, copies>>,
           Has(row[m], job[p][m].claim), OwnerRow(m, row[m], r2, copies[m], lastClaim),
           j2.claim = job[p][m].claim, JobInv(m, r2, j2, copies[m], lastClaim)
    PROVE  IInv'
  <1> DEFINE c == job[p][m].claim
  <1>1. Becomes(p, m, r2, j2, copies[m]) /\ lastClaim' = lastClaim
    BY Facts DEF IInv, TypeOK, Do, Write, Becomes, OwnerRow
  <1>2. row[m].status = "pending" /\ row[m].claim = c /\ c # 0
    BY DEF Has
  <1>3. \A q \in Processes \ {p} : job[q][m].claim # c
    BY <1>2, Facts DEF Apart
  <1>4. \A q \in Processes \ {p} : JobInv(m, r2, job[q][m], copies[m], lastClaim)
    BY <1>2, <1>3, Facts, OwnerWrites DEF OwnerRow
  <1>5. \A q \in Processes \ {p} : Apart(j2, job[q][m]) /\ Apart(job[q][m], j2)
    BY <1>2, Facts DEF Apart, Uncustodied
  <1> QED BY <1>1, <1>4, <1>5, Local DEF OwnerRow

\* A job that takes a message over with a fresh claim.
LEMMA TakesOver ==
    ASSUME IInv, RestOK, NEW p \in Processes, NEW m \in Messages, NEW r2, NEW j2 \in Job,
           Write(m, r2), Do(p, m, j2), lastClaim' = lastClaim + 1, UNCHANGED copies,
           \/ row[m].status = "pending" /\ ~row[m].leased
           \/ row[m].status = "new"
           \/ row[m].status = "deleted" /\ m \in Stable,
           r2 \in GoodRow, r2.claim = lastClaim + 1, r2.status \in {"pending", "failed"},
           r2.status = "pending" => copies[m] = 0,
           j2.claim \in {0, lastClaim + 1}, ~Uncustodied(j2),
           JobInv(m, r2, j2, copies[m], lastClaim + 1)
    PROVE  IInv'
  <1>1. Becomes(p, m, r2, j2, copies[m])
    BY Facts DEF IInv, TypeOK, Do, Write, Becomes
  <1>2. RowInv(m, r2, copies[m], lastClaim + 1)
    BY Facts DEF RowInv
  <1>3. \A q \in Processes \ {p} : JobInv(m, r2, job[q][m], copies[m], lastClaim + 1)
    BY Facts, TakenOver
  <1>4. \A q \in Processes \ {p} : Apart(j2, job[q][m]) /\ Apart(job[q][m], j2)
    <2> SUFFICES ASSUME NEW q \in Processes \ {p}
                 PROVE  Apart(j2, job[q][m]) /\ Apart(job[q][m], j2)
      OBVIOUS
    <2>1. job[q][m].claim <= lastClaim /\ job[q][m].claim \in Nat /\ lastClaim \in Nat
      BY Facts DEF JobInv, Job
    <2> QED BY <2>1 DEF Apart
  <1> QED BY <1>1, <1>2, <1>3, <1>4, Local

\* A job that ends without touching the row.
LEMMA JustEnds ==
    ASSUME IInv, RestOK, NEW p \in Processes, NEW m \in Messages,
           End(p, m), UNCHANGED <<row, lastClaim, copies>>
    PROVE  IInv'
  <1>1. WriteOwned(m, job[p][m].claim, row[m])
    BY DEF WriteOwned, Write, IInv, TypeOK
  <1>2. Has(row[m], job[p][m].claim) => OwnerRow(m, row[m], row[m], copies[m], lastClaim)
    BY OwnerMayWrite DEF Has
  <1> QED BY <1>1, <1>2, EndsOwned

----------------------------------------------------------------------------
(* Live sends and sending *)

LEMMA SubmitStep ==
    ASSUME IInv, NEW p \in Processes, NEW m \in Messages, Submit(p, m)
    PROVE  IInv'
  <1> DEFINE c == lastClaim + 1
             r2 == [ClaimedBy(Blank, c) EXCEPT !.status = "pending"]
             j2 == [NoJob EXCEPT !.stage = IF m \in Stable THEN "held" ELSE "admitted",
                                 !.claim = c]
  <1>1. RestOK
    BY RestTypes DEF Submit, Spend, IInv
  <1>2. /\ Write(m, r2) /\ Do(p, m, j2) /\ lastClaim' = c /\ UNCHANGED copies
        /\ \/ row[m].status = "new"
           \/ row[m].status = "deleted" /\ m \in Stable
    BY DEF Submit
  <1>3. c \in Nat \ {0}
    BY Facts
  <1>4. r2 \in GoodRow /\ r2.claim = c /\ r2.status = "pending"
    BY <1>3, BlankRow, FreshRows, FreshFields DEF GoodRow
  <1>5. copies[m] = 0
    BY <1>2, Facts DEF RowInv
  <1>6. /\ j2 \in Job /\ j2.claim = c /\ j2.stage \in {"held", "admitted"}
        /\ j2.kind = "live" /\ j2.snap.claim = 0
    BY <1>3, BlankRow DEF NoJob, Job, Stages, GoodRow, Blank
  <1> HIDE DEF r2, j2
  <1>7. JobInv(m, r2, j2, copies[m], c)
    BY <1>3, <1>5, <1>6 DEF JobInv, SenderInv, SnapInv, Uncustodied
  <1>8. ~Uncustodied(j2)
    BY <1>6 DEF Uncustodied
  <1> QED BY <1>1, <1>2, <1>4, <1>5, <1>6, <1>7, <1>8, TakesOver

\* A row that may be claimed is not leased, and nothing of it was sent unless
\* it is the very attempt that the proof disproves.
LEMMA ClaimableFacts ==
    ASSUME IInv, NEW m \in Messages, NEW proof, Claimable(row[m], proof)
    PROVE  /\ row[m].status = "pending"
           /\ \/ ~row[m].leased /\ copies[m] = 0
              \/ row[m].claim # 0 /\ <<row[m].claim, row[m].stamp>> = proof
  BY DEF IInv, TypeOK, MsgInv, RowInv, GoodRow, Coherent, Claimable, Evidence

LEMMA ResubmitStep ==
    ASSUME IInv, NEW p \in Processes, NEW m \in Messages, Resubmit(p, m)
    PROVE  IInv'
  <1> DEFINE c == lastClaim + 1
             r2 == ClaimedBy(row[m], c)
             j2 == [NoJob EXCEPT !.stage = "held", !.claim = c]
  <1>1. RestOK
    BY RestTypes DEF Resubmit, Spend, IInv
  <1>2. /\ Write(m, r2) /\ Do(p, m, j2) /\ lastClaim' = c /\ UNCHANGED copies
        /\ Claimable(row[m], NoProof)
    BY DEF Resubmit
  <1>3. c \in Nat \ {0}
    BY Facts
  <1>4. row[m].status = "pending" /\ ~row[m].leased /\ copies[m] = 0
    BY <1>2, ClaimableFacts DEF NoProof
  <1>5. r2 \in GoodRow /\ r2.claim = c /\ r2.status = "pending"
    BY <1>3, <1>4, Facts, FreshRows, FreshFields
  <1>6. /\ j2 \in Job /\ j2.claim = c /\ j2.stage = "held"
        /\ j2.kind = "live" /\ j2.snap.claim = 0
    BY <1>3, BlankRow DEF NoJob, Job, Stages, GoodRow, Blank
  <1> HIDE DEF r2, j2
  <1>7. JobInv(m, r2, j2, copies[m], c) /\ ~Uncustodied(j2)
    BY <1>3, <1>4, <1>6 DEF JobInv, SenderInv, SnapInv, Uncustodied
  <1> QED BY <1>1, <1>2, <1>4, <1>5, <1>6, <1>7, TakesOver

LEMMA BeginLiveStep ==
    ASSUME IInv, NEW p \in Processes, NEW m \in Messages, BeginLive(p, m)
    PROVE  IInv'
  <1> DEFINE j2 == [job[p][m] EXCEPT !.stage = "held"]
  <1>1. RestOK
    BY RestTypes DEF BeginLive, Quiet, IInv
  <1>2. /\ job[p][m].stage = "admitted" /\ At(p, m, "held") /\ "held" \in Stages
        /\ UNCHANGED <<row, lastClaim, copies>>
    BY DEF BeginLive, Quiet, Stages
  <1>3. /\ j2.stage = "held" /\ j2.claim = job[p][m].claim
        /\ j2.kind = job[p][m].kind /\ j2.snap = job[p][m].snap
    BY <1>2, Facts, Staging
  <1> HIDE DEF j2
  <1>4. JobInv(m, row[m], j2, copies[m], lastClaim) /\ ~Uncustodied(j2)
    BY <1>2, <1>3, Facts DEF JobInv, SenderInv, SnapInv, Uncustodied
  <1> QED BY <1>1, <1>2, <1>4, GoesOn DEF j2

LEMMA PreSendStep ==
    ASSUME IInv, NEW p \in Processes, NEW m \in Messages, PreSend(p, m)
    PROVE  IInv'
  <1> DEFINE r2 == Promoted(row[m])
             j2 == [job[p][m] EXCEPT !.stage = "started"]
  <1>1. RestOK
    BY RestTypes DEF PreSend, Quiet, IInv
  <1>2. /\ job[p][m].stage = "held" /\ Write(m, r2) /\ Do(p, m, j2)
        /\ "started" \in Stages /\ UNCHANGED <<lastClaim, copies>>
        /\ row[m].status = "pending" /\ row[m].claim = job[p][m].claim /\ row[m].leased
    BY DEF PreSend, Quiet, Stages, Live, Owns, At
  <1>3. job[p][m].claim # 0 /\ copies[m] = 0
    BY <1>2, Facts DEF JobInv, SenderInv, Has
  <1>4. /\ j2 \in Job /\ j2.stage = "started" /\ j2.claim = job[p][m].claim
        /\ j2.kind = job[p][m].kind /\ j2.snap = job[p][m].snap
    BY <1>2, Facts, Staging
  <1>5. /\ r2 \in GoodRow /\ r2.state \in Evidence /\ r2.claim = row[m].claim
        /\ r2.status = "pending" /\ RowInv(m, r2, copies[m], lastClaim)
    BY <1>2, <1>3, Facts, MarkedRows, MarkedFields, RowInvKept
  <1> HIDE DEF r2, j2
  <1>6. OwnerRow(m, row[m], r2, copies[m], lastClaim)
    BY <1>2, <1>5 DEF OwnerRow
  <1>7. JobInv(m, r2, j2, copies[m], lastClaim)
    BY <1>2, <1>3, <1>4, <1>5, Facts DEF JobInv, SenderInv, SnapInv, Uncustodied, Has
  <1>8. Has(row[m], job[p][m].claim)
    BY <1>2, <1>3 DEF Has
  <1> QED BY <1>1, <1>2, <1>4, <1>6, <1>7, <1>8, OwnerGoesOn

LEMMA PreSendFailsStep ==
    ASSUME IInv, NEW p \in Processes, NEW m \in Messages, PreSendFails(p, m)
    PROVE  IInv'
  <1>1. RestOK
    BY RestTypes DEF PreSendFails, Spend, IInv
  <1>2. /\ job[p][m].stage = "held" /\ row[m].status = "pending"
        /\ row[m].claim = job[p][m].claim /\ UNCHANGED <<lastClaim, copies>>
    BY DEF PreSendFails, Owns
  <1>3. job[p][m].claim # 0 /\ copies[m] = 0
    BY <1>2, Facts DEF JobInv, SenderInv, Has
  <1>4. CASE m \in Required
    <2>1. End(p, m) /\ WriteOwned(m, job[p][m].claim, Failed(row[m]))
      BY <1>2, <1>4 DEF PreSendFails, WriteOwned, Owns
    <2> QED BY <1>1, <1>2, <1>3, <2>1, OwnerMayWrite, EndsOwned
  <1>5. CASE m \notin Required
    <2> DEFINE r2 == Acked(m, row[m])
               j2 == [job[p][m] EXCEPT !.stage = "cleared", !.claim = 0]
    <2>1. Write(m, r2) /\ Do(p, m, j2)
      BY <1>5 DEF PreSendFails
    <2>2. /\ j2 \in Job /\ j2.stage = "cleared" /\ j2.claim = 0
          /\ j2.kind = job[p][m].kind /\ j2.snap = job[p][m].snap
      BY Facts DEF Job, Stages
    <2>3. /\ r2 \in GoodRow /\ RowInv(m, r2, copies[m], lastClaim) /\ r2.claim = 0
          /\ ~r2.leased /\ r2.status = (IF m \in Stable THEN "completed" ELSE "deleted")
      BY <1>2, OwnerMayWrite, EndedFields DEF OwnerRow
    <2> HIDE DEF r2, j2
    <2>4. Becomes(p, m, r2, j2, copies[m]) /\ lastClaim' = lastClaim
      BY <1>2, <2>1, <2>2, <2>3, Facts DEF IInv, TypeOK, Do, Write, Becomes
    <2>5. JobInv(m, r2, j2, copies[m], lastClaim)
      BY <1>2, <1>3, <2>2, <2>3, Facts, RowFields
      DEF JobInv, SenderInv, SnapInv, Uncustodied, Has, RowInv, Job, GoodRow
    <2>6. \A q \in Processes \ {p} : JobInv(m, r2, job[q][m], copies[m], lastClaim)
      <3>1. \A q \in Processes \ {p} : job[q][m].claim # job[p][m].claim
        BY <1>3, Facts DEF Apart
      <3> QED BY <1>2, <1>3, <2>3, <3>1, Facts, OwnerWrites
    <2>7. \A q \in Processes \ {p} : Apart(j2, job[q][m]) /\ Apart(job[q][m], j2)
      BY <1>2, <2>2, Facts DEF Apart, JobInv, Uncustodied
    <2> QED BY <1>1, <2>3, <2>4, <2>5, <2>6, <2>7, Local
  <1> QED BY <1>4, <1>5

LEMMA MarkDispatchStep ==
    ASSUME IInv, NEW p \in Processes, NEW m \in Messages, MarkDispatch(p, m)
    PROVE  IInv'
  <1> DEFINE r2 == Dispatched(row[m])
             j2 == [job[p][m] EXCEPT !.stage = "cleared"]
  <1>1. RestOK
    BY RestTypes DEF MarkDispatch, Quiet, IInv
  <1>2. /\ job[p][m].stage \in {"held", "started"} /\ Write(m, r2) /\ Do(p, m, j2)
        /\ "cleared" \in Stages /\ UNCHANGED <<lastClaim, copies>>
        /\ row[m].status = "pending" /\ row[m].claim = job[p][m].claim /\ row[m].leased
    BY DEF MarkDispatch, Quiet, Stages, Live, Owns, At
  <1>3. job[p][m].claim # 0 /\ copies[m] = 0
    BY <1>2, Facts DEF JobInv, SenderInv, Has
  <1>4. /\ j2 \in Job /\ j2.stage = "cleared" /\ j2.claim = job[p][m].claim
        /\ j2.kind = job[p][m].kind /\ j2.snap = job[p][m].snap
    BY <1>2, Facts, Staging
  <1>5. /\ r2 \in GoodRow /\ r2.state \in Evidence /\ r2.claim = row[m].claim
        /\ r2.status = "pending" /\ RowInv(m, r2, copies[m], lastClaim)
    BY <1>2, <1>3, Facts, MarkedRows, MarkedFields, RowInvKept
  <1> HIDE DEF r2, j2
  <1>6. OwnerRow(m, row[m], r2, copies[m], lastClaim)
    BY <1>2, <1>5 DEF OwnerRow
  <1>7. JobInv(m, r2, j2, copies[m], lastClaim)
    BY <1>2, <1>3, <1>4, <1>5, Facts DEF JobInv, SenderInv, SnapInv, Uncustodied, Has
  <1>8. Has(row[m], job[p][m].claim)
    BY <1>2, <1>3 DEF Has
  <1> QED BY <1>1, <1>2, <1>4, <1>6, <1>7, <1>8, OwnerGoesOn

LEMMA SendStep ==
    ASSUME IInv, NEW p \in Processes, NEW m \in Messages, Send(p, m)
    PROVE  IInv'
  <1> DEFINE j2 == [job[p][m] EXCEPT !.stage = "flight"]
  <1>1. RestOK
    BY RestTypes DEF Send, IInv
  <1>2. /\ job[p][m].stage \in {"started", "cleared"} /\ At(p, m, "flight")
        /\ "flight" \in Stages /\ UNCHANGED <<row, lastClaim, copies>>
        /\ job[p][m].claim # 0 => Has(row[m], job[p][m].claim) /\ row[m].leased
    BY DEF Send, Stages, Live, Owns, Has
  <1>3. /\ j2.stage = "flight" /\ j2.claim = job[p][m].claim
        /\ j2.kind = job[p][m].kind /\ j2.snap = job[p][m].snap
    BY <1>2, Facts, Staging
  <1> HIDE DEF j2
  <1>4. /\ JobInv(m, row[m], j2, copies[m], lastClaim)
        /\ Uncustodied(j2) => Uncustodied(job[p][m])
    BY <1>2, <1>3, Facts DEF JobInv, SenderInv, SnapInv, Uncustodied
  <1> QED BY <1>1, <1>2, <1>4, GoesOn DEF j2

LEMMA ArriveStep ==
    ASSUME IInv, NEW p \in Processes, NEW m \in Messages, Arrive(p, m)
    PROVE  IInv'
  <1> DEFINE j2 == [job[p][m] EXCEPT !.stage = "arrived"]
  <1>1. RestOK
    BY RestTypes DEF Arrive, IInv
  <1>2. /\ job[p][m].stage = "flight" /\ Do(p, m, j2) /\ "arrived" \in Stages
        /\ UNCHANGED <<row, lastClaim>> /\ copies' = [copies EXCEPT ![m] = copies[m] + 1]
    BY DEF Arrive, Stages, At
  <1>3. /\ copies[m] = 0
        /\ \/ Has(row[m], job[p][m].claim) /\ row[m].leased /\ row[m].state \in Evidence
           \/ /\ job[p][m].claim = 0 /\ Uncustodied(job[p][m])
              /\ row[m].status = "completed" \/ (row[m].status = "deleted" /\ m \notin Stable)
    BY <1>2, Facts DEF JobInv, SenderInv, Uncustodied
  <1>4. /\ j2 \in Job /\ j2.stage = "arrived" /\ j2.claim = job[p][m].claim
        /\ j2.kind = job[p][m].kind /\ j2.snap = job[p][m].snap
    BY <1>2, Facts, Staging
  <1> HIDE DEF j2
  <1>5. Becomes(p, m, row[m], j2, 1) /\ lastClaim' = lastClaim
    BY <1>2, <1>3, <1>4, Facts DEF IInv, TypeOK, Do, Becomes
  <1>6. RowInv(m, row[m], 1, lastClaim)
    BY <1>3, Facts DEF RowInv, Has
  <1>7. JobInv(m, row[m], j2, 1, lastClaim)
    BY <1>2, <1>4, Facts DEF JobInv, SenderInv, SnapInv, Uncustodied
  <1>8. \A q \in Processes \ {p} : JobInv(m, row[m], job[q][m], 1, lastClaim)
    <2>1. JobInv(m, row[m], job[p][m], 0, lastClaim)
          /\ \A q \in Processes \ {p} : JobInv(m, row[m], job[q][m], 0, lastClaim)
      BY <1>3, Facts
    <2>2. \A q \in Processes \ {p} :
            \/ Has(row[m], job[p][m].claim) /\ row[m].leased /\ job[q][m].claim # job[p][m].claim
            \/ row[m].status \in {"completed", "deleted"} /\ ~Uncustodied(job[q][m])
      BY <1>3, Facts DEF Apart, Has
    <2> QED BY <2>1, <2>2, Lands
  <1>9. \A q \in Processes \ {p} : Apart(j2, job[q][m]) /\ Apart(job[q][m], j2)
    BY <1>4, Facts DEF Apart, Uncustodied
  <1> QED BY <1>1, <1>5, <1>6, <1>7, <1>8, <1>9, Local

LEMMA RecordResultStep ==
    ASSUME IInv, NEW p \in Processes, NEW m \in Messages, RecordResult(p, m)
    PROVE  IInv'
  <1> DEFINE r2 == OutcomeUnknown(row[m])
             j2 == [job[p][m] EXCEPT !.stage = "recorded"]
  <1>1. RestOK
    BY RestTypes DEF RecordResult, Quiet, IInv
  <1>2. /\ job[p][m].stage = "arrived" /\ UNCHANGED <<lastClaim, copies>>
        /\ \/ /\ Has(row[m], job[p][m].claim) /\ Write(m, r2) /\ Do(p, m, j2)
           \/ End(p, m) /\ UNCHANGED row
    BY DEF RecordResult, Quiet, At, Owns, Has
  <1>3. CASE End(p, m) /\ UNCHANGED row
    BY <1>1, <1>2, <1>3, JustEnds
  <1>4. CASE Has(row[m], job[p][m].claim) /\ Write(m, r2) /\ Do(p, m, j2)
    <2>1. row[m].state \in Evidence /\ copies[m] > 0
      BY <1>2, <1>4, Facts DEF JobInv, SenderInv, RowInv, Has
    <2>2. OwnerRow(m, row[m], r2, copies[m], lastClaim) /\ r2.claim = row[m].claim
          /\ r2.leased = row[m].leased /\ r2.status = row[m].status
      BY <1>4, <2>1, OwnerMayWrite, Facts, MarkedFields DEF Has
    <2>3. /\ j2 \in Job /\ j2.stage = "recorded" /\ j2.claim = job[p][m].claim
          /\ j2.kind = job[p][m].kind /\ j2.snap = job[p][m].snap
      BY Facts, Staging DEF Stages
    <2> HIDE DEF r2, j2
    <2>4. JobInv(m, r2, j2, copies[m], lastClaim)
      BY <1>2, <1>4, <2>1, <2>2, <2>3, Facts
      DEF JobInv, SenderInv, SnapInv, Uncustodied, Has
    <2> QED BY <1>1, <1>2, <1>4, <2>2, <2>3, <2>4, OwnerGoesOn
  <1> QED BY <1>2, <1>3, <1>4

LEMMA AnswerRejectedStep ==
    ASSUME IInv, NEW p \in Processes, NEW m \in Messages, AnswerRejected(p, m)
    PROVE  IInv'
  <1>1. RestOK
    BY RestTypes DEF AnswerRejected, IInv
  <1>2. job[p][m].stage = "flight" /\ job[p][m].claim # 0 /\ UNCHANGED <<lastClaim, copies>>
    BY DEF AnswerRejected
  <1>3. copies[m] = 0
    BY <1>2, Facts DEF JobInv, SenderInv
  <1>4. CASE job[p][m].kind = "live"
    <2>1. End(p, m) /\ WriteOwned(m, job[p][m].claim, Removed)
      BY <1>4 DEF AnswerRejected
    <2> QED BY <1>1, <1>2, <1>3, <2>1, OwnerMayWrite, EndsOwned DEF Has
  <1>5. CASE job[p][m].kind # "live"
    <2> DEFINE j2 == [job[p][m] EXCEPT !.stage = "settling"]
    <2>1. At(p, m, "settling") /\ "settling" \in Stages /\ UNCHANGED row
      BY <1>5 DEF AnswerRejected, Stages
    <2>2. /\ j2.stage = "settling" /\ j2.claim = job[p][m].claim
          /\ j2.kind = job[p][m].kind /\ j2.snap = job[p][m].snap
      BY <2>1, Facts, Staging
    <2> HIDE DEF j2
    <2>3. JobInv(m, row[m], j2, copies[m], lastClaim) /\ ~Uncustodied(j2)
      BY <1>2, <2>2, Facts DEF JobInv, SenderInv, SnapInv, Uncustodied
    <2> QED BY <1>1, <1>2, <2>1, <2>3, GoesOn DEF j2
  <1> QED BY <1>4, <1>5

LEMMA AnswerLooseStep ==
    ASSUME IInv, NEW p \in Processes, NEW m \in Messages, AnswerLoose(p, m)
    PROVE  IInv'
  <1>1. RestOK
    BY RestTypes DEF AnswerLoose, IInv
  <1>2. End(p, m) /\ UNCHANGED <<row, lastClaim, copies>>
    BY DEF AnswerLoose
  <1> QED BY <1>1, <1>2, JustEnds

----------------------------------------------------------------------------
(* Recovery *)

\* A job that goes on without touching the row and without custody.
LEMMA ScanStarts ==
    ASSUME IInv, RestOK, NEW p \in Processes, NEW m \in Messages, NEW j2 \in Job,
           Do(p, m, j2), UNCHANGED <<row, lastClaim, copies>>,
           j2.claim = 0, ~Uncustodied(j2), JobInv(m, row[m], j2, copies[m], lastClaim)
    PROVE  IInv'
  <1>1. Becomes(p, m, row[m], j2, copies[m]) /\ lastClaim' = lastClaim
    BY Facts DEF IInv, TypeOK, Do, Becomes
  <1>2. \A q \in Processes \ {p} : Apart(j2, job[q][m]) /\ Apart(job[q][m], j2)
    BY DEF Apart
  <1>3. RowInv(m, row[m], copies[m], lastClaim)
        /\ \A q \in Processes \ {p} : JobInv(m, row[m], job[q][m], copies[m], lastClaim)
    BY Facts
  <1> QED BY <1>1, <1>2, <1>3, Local

LEMMA ScanStep ==
    ASSUME IInv, NEW p \in Processes, NEW m \in Messages, Scan(p, m)
    PROVE  IInv'
  <1> DEFINE J(stage) == [stage |-> stage, kind |-> "recovery", claim |-> 0, snap |-> row[m]]
  <1>1. RestOK
    BY RestTypes DEF Scan, Quiet, IInv
  <1>2. /\ UNCHANGED <<row, lastClaim, copies>>
        /\ \/ End(p, m)
           \/ row[m].status = "failed" /\ Do(p, m, J("finalizing"))
           \/ /\ row[m].status = "pending" /\ ~ActiveOwner(row[m])
              /\ Do(p, m, J("settling")) \/ Do(p, m, J("scanned"))
    BY DEF Scan, Quiet
  <1>3. CASE End(p, m)
    BY <1>1, <1>2, <1>3, JustEnds
  <1>4. \A stage \in {"finalizing", "settling", "scanned"} :
          /\ J(stage) \in Job /\ J(stage).stage = stage /\ J(stage).claim = 0
          /\ J(stage).kind = "recovery" /\ J(stage).snap = row[m]
    BY Facts DEF Job, Stages
  <1>5. row[m].claim <= lastClaim /\ 0 <= lastClaim
    BY Facts DEF RowInv
  <1> HIDE DEF J
  <1>6. CASE row[m].status = "failed" /\ Do(p, m, J("finalizing"))
    <2>1. JobInv(m, row[m], J("finalizing"), copies[m], lastClaim)
          /\ ~Uncustodied(J("finalizing"))
      BY <1>4, <1>5, <1>6 DEF JobInv, SenderInv, SnapInv, Uncustodied
    <2> QED BY <1>1, <1>2, <1>4, <1>6, <2>1, ScanStarts
  <1>7. ASSUME row[m].status = "pending", ~ActiveOwner(row[m]),
               NEW stage \in {"settling", "scanned"}, Do(p, m, J(stage))
        PROVE  IInv'
    <2>1. ~row[m].leased
      BY <1>7, Facts DEF ActiveOwner, GoodRow, Coherent, Row, States
    <2>2. JobInv(m, row[m], J(stage), copies[m], lastClaim) /\ ~Uncustodied(J(stage))
      BY <1>4, <1>5, <1>7, <2>1 DEF JobInv, SenderInv, SnapInv, Uncustodied
    <2> QED BY <1>1, <1>2, <1>4, <1>7, <2>2, ScanStarts
  <1> QED BY <1>2, <1>3, <1>6, <1>7

\* A recovery job ends, writing the unleased row that it found or nothing.
LEMMA RecoveryEnds ==
    ASSUME IInv, RestOK, NEW p \in Processes, NEW m \in Messages, NEW r2,
           End(p, m), UNCHANGED <<lastClaim, copies>>, Write(m, r2),
           row[m].status \in {"pending", "failed"}, row[m].status = "pending" => ~row[m].leased,
           r2 \in GoodRow, RowInv(m, r2, copies[m], lastClaim),
           r2.status = "pending" => /\ row[m].status = "pending" /\ ~r2.leased
                                    /\ r2.claim \in {0, row[m].claim}
    PROVE  IInv'
  <1>1. NoJob \in Job /\ JobInv(m, r2, NoJob, copies[m], lastClaim)
        /\ \A q \in Processes : Apart(NoJob, job[q][m]) /\ Apart(job[q][m], NoJob)
    BY Facts, NoJobInv
  <1>2. Becomes(p, m, r2, NoJob, copies[m]) /\ lastClaim' = lastClaim
    BY <1>1, Facts DEF IInv, TypeOK, End, Do, Write, Becomes
  <1>3. \A q \in Processes \ {p} : JobInv(m, r2, job[q][m], copies[m], lastClaim)
    BY Facts, RecoveryWrites
  <1> QED BY <1>1, <1>2, <1>3, Local

LEMMA ReconcileStep ==
    ASSUME IInv, NEW p \in Processes, NEW m \in Messages, Reconcile(p, m)
    PROVE  IInv'
  <1> DEFINE j == job[p][m]
  <1>1. RestOK
    BY RestTypes DEF Reconcile, Quiet, IInv
  <1>2. j.stage = "scanned" /\ UNCHANGED <<lastClaim, copies>> /\ j.kind = "recovery"
        /\ j.claim = 0
    BY Facts DEF Reconcile, Quiet, JobInv
  <1>3. \/ End(p, m) /\ WriteOwned(m, j.snap.claim, Acked(m, row[m]))
        \/ End(p, m) /\ WriteOwned(m, j.snap.claim, Failed(row[m]))
        \/ UNCHANGED row /\ copies[m] = 0 /\ At(p, m, "proved")
        \/ UNCHANGED row /\ At(p, m, "settling")
    BY DEF Reconcile
  <1>4. ASSUME NEW r2 \in {Acked(m, row[m]), Failed(row[m])}, End(p, m),
               WriteOwned(m, j.snap.claim, r2)
        PROVE  IInv'
    <2>1. CASE ~Owns(m, j.snap.claim)
      BY <1>1, <1>2, <1>4, <2>1, JustEnds DEF WriteOwned
    <2>2. CASE Owns(m, j.snap.claim)
      <3>1. Write(m, r2) /\ row[m].status = "pending"
        BY <1>4, <2>2 DEF WriteOwned, Owns
      <3>2. ~row[m].leased
        BY <1>2, <2>2, Facts DEF JobInv, SnapInv, Has, Owns, RowInv
      <3>3. OwnerRow(m, row[m], r2, copies[m], lastClaim)
        BY <1>4, <3>1, OwnerMayWrite
      <3> QED BY <1>1, <1>2, <1>4, <3>1, <3>2, <3>3, RecoveryEnds DEF OwnerRow
    <2> QED BY <2>1, <2>2
  <1>5. ASSUME UNCHANGED row, NEW stage \in {"proved", "settling"}, At(p, m, stage),
               stage = "proved" => copies[m] = 0
        PROVE  IInv'
    <2> DEFINE j2 == [job[p][m] EXCEPT !.stage = stage]
    <2>1. stage \in Stages
      BY DEF Stages
    <2>2. /\ j2.stage = stage /\ j2.claim = j.claim /\ j2.kind = j.kind /\ j2.snap = j.snap
      BY <2>1, Facts, Staging
    <2> HIDE DEF j2
    <2>3. JobInv(m, row[m], j2, copies[m], lastClaim) /\ ~Uncustodied(j2)
      BY <1>2, <1>5, <2>2, Facts DEF JobInv, SenderInv, SnapInv, Uncustodied
    <2> QED BY <1>1, <1>2, <1>5, <2>1, <2>3, GoesOn DEF j2
  <1> QED BY <1>3, <1>4, <1>5

LEMMA ClaimStep ==
    ASSUME IInv, NEW p \in Processes, NEW m \in Messages, Claim(p, m)
    PROVE  IInv'
  <1> DEFINE j == job[p][m]
             c == lastClaim + 1
             proof == IF j.stage = "proved" THEN <<j.snap.claim, j.snap.stamp>> ELSE NoProof
             r2 == ClaimedBy(row[m], c)
             j2 == [j EXCEPT !.stage = "reserving", !.claim = c]
  <1>1. RestOK
    BY RestTypes DEF Claim, IInv
  <1>2. j.stage \in {"scanned", "proved"} /\ j.kind = "recovery" /\ UNCHANGED copies
    BY Facts DEF Claim, JobInv
  <1>3. CASE ~Claimable(row[m], proof)
    <2>1. End(p, m) /\ UNCHANGED <<row, lastClaim>>
      BY <1>3 DEF Claim
    <2> QED BY <1>1, <1>2, <2>1, JustEnds
  <1>4. CASE Claimable(row[m], proof)
    <2>1. Write(m, r2) /\ Do(p, m, j2) /\ lastClaim' = c
      BY <1>4 DEF Claim
    <2>2. c \in Nat \ {0}
      BY Facts
    <2>3. row[m].status = "pending" /\ ~row[m].leased /\ copies[m] = 0
      <3>1. CASE ~row[m].leased /\ copies[m] = 0
        BY <1>4, <3>1, ClaimableFacts
      <3>2. CASE row[m].claim # 0 /\ <<row[m].claim, row[m].stamp>> = proof
        <4>1. j.stage = "proved" /\ row[m].claim = j.snap.claim
          BY <3>2 DEF NoProof
        <4> QED BY <1>2, <1>4, <3>2, <4>1, Facts, ClaimableFacts DEF JobInv, SnapInv, Has
      <3> QED BY <1>4, <3>1, <3>2, ClaimableFacts
    <2>4. r2 \in GoodRow /\ r2.claim = c /\ r2.status = "pending"
      BY <2>2, <2>3, Facts, FreshRows, FreshFields
    <2>5. /\ j2 \in Job /\ j2.claim = c /\ j2.stage = "reserving"
          /\ j2.kind = "recovery" /\ j2.snap = j.snap
      BY <1>2, <2>2, Facts DEF Job, Stages
    <2>6. j.snap.claim <= lastClaim /\ j.snap.claim \in Nat /\ lastClaim \in Nat
      BY Facts DEF JobInv, Job, GoodRow, Row
    <2> HIDE DEF r2, j2
    <2>7. JobInv(m, r2, j2, copies[m], c) /\ ~Uncustodied(j2)
      BY <1>2, <2>3, <2>4, <2>5, <2>6, Facts DEF JobInv, SenderInv, SnapInv, Uncustodied, Has
    <2> QED BY <1>1, <1>2, <2>1, <2>3, <2>4, <2>5, <2>7, TakesOver
  <1> QED BY <1>3, <1>4

LEMMA ReserveStep ==
    ASSUME IInv, NEW p \in Processes, NEW m \in Messages, Reserve(p, m)
    PROVE  IInv'
  <1> DEFINE j == job[p][m]
             tries == Tries(row[m])
             r2 == [row[m] EXCEPT !.attempts = tries + 1]
             J(stage) == [j EXCEPT !.stage = stage]
  <1>1. RestOK
    BY RestTypes DEF Reserve, Quiet, IInv
  <1>2. /\ j.stage = "reserving" /\ UNCHANGED <<lastClaim, copies>>
        /\ \/ End(p, m) /\ UNCHANGED row
           \/ Owns(m, j.claim) /\ At(p, m, "settling") /\ UNCHANGED row
           \/ Owns(m, j.claim) /\ Do(p, m, J("held")) /\ Write(m, r2)
    BY DEF Reserve, Quiet, Live, At
  <1>3. CASE End(p, m) /\ UNCHANGED row
    BY <1>1, <1>2, <1>3, JustEnds
  <1>4. j.claim # 0
    BY <1>2, Facts DEF JobInv
  <1>5. \A stage \in {"settling", "held"} :
          /\ J(stage) \in Job /\ J(stage).stage = stage /\ J(stage).claim = j.claim
          /\ J(stage).kind = j.kind /\ J(stage).snap = j.snap
    <2>1. \A stage \in {"settling", "held"} : stage \in Stages
      BY DEF Stages
    <2> QED BY <2>1, Facts, Staging
  <1>6. CASE Owns(m, j.claim) /\ At(p, m, "settling") /\ UNCHANGED row
    <2> HIDE DEF J
    <2>1. JobInv(m, row[m], J("settling"), copies[m], lastClaim) /\ ~Uncustodied(J("settling"))
      BY <1>2, <1>4, <1>5, Facts DEF JobInv, SenderInv, SnapInv, Uncustodied
    <2>2. "settling" \in Stages
      BY DEF Stages
    <2> QED BY <1>1, <1>2, <1>6, <2>1, <2>2, GoesOn DEF J
  <1>7. CASE Owns(m, j.claim) /\ Do(p, m, J("held")) /\ Write(m, r2)
    <2>1. Has(row[m], j.claim)
      BY <1>4, <1>7 DEF Owns, Has
    <2>2. /\ r2 \in GoodRow /\ r2.status = row[m].status /\ r2.claim = row[m].claim
          /\ r2.leased = row[m].leased /\ r2.state = row[m].state
      <3>1. tries + 1 \in Nat
        BY Facts, TriesNat DEF GoodRow
      <3> HIDE DEF tries
      <3> QED BY <3>1, Facts, CountedFields
    <2> HIDE DEF r2, J
    <2>3. RowInv(m, r2, copies[m], lastClaim)
      BY <2>2, Facts DEF RowInv
    <2>4. OwnerRow(m, row[m], r2, copies[m], lastClaim)
      BY <2>2, <2>3 DEF OwnerRow
    <2>5. JobInv(m, r2, J("held"), copies[m], lastClaim)
      BY <1>2, <1>4, <1>5, <2>1, <2>2, Facts DEF JobInv, SenderInv, SnapInv, Uncustodied, Has
    <2> QED BY <1>1, <1>2, <1>5, <1>7, <2>1, <2>4, <2>5, OwnerGoesOn
  <1> QED BY <1>2, <1>3, <1>6, <1>7

LEMMA StopStep ==
    ASSUME IInv, NEW p \in Processes, NEW m \in Messages, Stop(p, m)
    PROVE  IInv'
  <1> DEFINE j == job[p][m]
             r2 == [j.snap EXCEPT !.retries = row[m].retries]
  <1>1. RestOK
    BY RestTypes DEF Stop, Spend, IInv
  <1>2. /\ j.stage = "cleared" /\ j.kind = "recovery" /\ End(p, m)
        /\ UNCHANGED <<lastClaim, copies>>
        /\ UNCHANGED row \/ (Has(row[m], j.claim) /\ Write(m, r2))
    BY DEF Stop, Owns, Has
  <1>3. CASE UNCHANGED row
    BY <1>1, <1>2, <1>3, JustEnds
  <1>4. CASE Has(row[m], j.claim) /\ Write(m, r2)
    <2>1. copies[m] = 0
      BY <1>2, <1>4, Facts DEF JobInv, SenderInv
    <2>2. j.snap.status = "pending" /\ ~j.snap.leased /\ j.snap.claim <= lastClaim
          /\ j.snap \in GoodRow
      BY <1>2, Facts DEF JobInv, SnapInv, Job
    <2>3. r2 \in GoodRow /\ ~r2.leased /\ r2.claim = j.snap.claim /\ r2.status = "pending"
      <3>1. row[m].retries \in Nat
        BY Facts, RowFields DEF GoodRow
      <3> QED BY <2>2, <3>1, FailedRows DEF GoodRow, Row
    <2> HIDE DEF r2
    <2>4. NoJob \in Job /\ JobInv(m, r2, NoJob, copies[m], lastClaim)
          /\ \A q \in Processes : Apart(NoJob, job[q][m]) /\ Apart(job[q][m], NoJob)
      BY Facts, NoJobInv
    <2>5. Becomes(p, m, r2, NoJob, copies[m]) /\ lastClaim' = lastClaim
      BY <1>2, <1>4, <2>3, <2>4, Facts DEF IInv, TypeOK, End, Do, Write, Becomes
    <2>6. RowInv(m, r2, copies[m], lastClaim)
      BY <2>1, <2>2, <2>3 DEF RowInv
    <2>7. \A q \in Processes \ {p} : JobInv(m, r2, job[q][m], copies[m], lastClaim)
      <3>1. \A q \in Processes \ {p} : job[q][m].claim # j.claim
        BY <1>4, Facts DEF Apart, Has
      <3> QED BY <1>4, <2>1, <2>3, <3>1, Facts, Restores DEF Has
    <2> QED BY <1>1, <2>4, <2>5, <2>6, <2>7, Local
  <1> QED BY <1>2, <1>3, <1>4

LEMMA SettleStep ==
    ASSUME IInv, NEW p \in Processes, NEW m \in Messages, Settle(p, m)
    PROVE  IInv'
  <1> DEFINE j == job[p][m]
             c == lastClaim + 1
             taken == Staged(ClaimedBy(row[m], c))
             staged == Staged(row[m])
             J(r) == [j EXCEPT !.stage = "finalizing", !.snap = r]
  <1>1. RestOK
    BY RestTypes DEF Settle, IInv
  <1>2. /\ j.stage = "settling" /\ UNCHANGED copies
        /\ \/ /\ Claimable(row[m], NoProof) /\ j.claim = 0
              /\ Write(m, taken) /\ Do(p, m, J(taken)) /\ lastClaim' = c
           \/ /\ Owns(m, j.claim) /\ j.claim # 0
              /\ Write(m, staged) /\ Do(p, m, J(staged)) /\ lastClaim' = lastClaim
           \/ /\ Owns(m, j.snap.claim) /\ ~ActiveOwner(row[m]) /\ j.claim = 0
              /\ Write(m, staged) /\ Do(p, m, J(staged)) /\ lastClaim' = lastClaim
           \/ End(p, m) /\ UNCHANGED <<row, lastClaim>>
    BY DEF Settle
  <1>3. \A r \in GoodRow :
          /\ J(r) \in Job /\ J(r).stage = "finalizing" /\ J(r).claim = j.claim /\ J(r).snap = r
          /\ J(r).kind = j.kind
    BY Facts DEF Job, Stages
  <1>4. staged \in GoodRow /\ staged.status = "failed" /\ staged.claim = row[m].claim
        /\ staged.leased = row[m].leased
    BY Facts, MarkedRows, MarkedFields
  <1>5. j.claim <= lastClaim /\ row[m].claim <= lastClaim /\ lastClaim \in Nat
        /\ j.claim \in Nat /\ row[m].claim \in Nat
    BY Facts, RowFields DEF JobInv, RowInv, Job, GoodRow
  <1> HIDE DEF J, staged
  <1>6. CASE /\ Claimable(row[m], NoProof) /\ j.claim = 0
             /\ Write(m, taken) /\ Do(p, m, J(taken)) /\ lastClaim' = c
    <2>1. c \in Nat \ {0} /\ ClaimedBy(row[m], c) \in GoodRow /\ ClaimedBy(row[m], c).claim = c
      <3>1. c \in Nat \ {0} /\ row[m] \in GoodRow
        BY <1>5, Facts
      <3> HIDE DEF c
      <3> QED BY <3>1, FreshRows, FreshFields
    <2>2. taken \in GoodRow /\ taken.status = "failed" /\ taken.claim = c
      BY <2>1, MarkedRows, MarkedFields
    <2>3. row[m].status = "pending" /\ ~row[m].leased
      BY <1>6, ClaimableFacts DEF NoProof
    <2> HIDE DEF taken
    <2>4. JobInv(m, taken, J(taken), copies[m], c) /\ ~Uncustodied(J(taken))
      BY <1>3, <1>5, <1>6, <2>2 DEF JobInv, SenderInv, SnapInv, Uncustodied
    <2> QED BY <1>1, <1>2, <1>3, <1>6, <2>2, <2>3, <2>4, TakesOver
  <1>7. JobInv(m, staged, J(staged), copies[m], lastClaim) /\ ~Uncustodied(J(staged))
    BY <1>3, <1>4, <1>5 DEF JobInv, SenderInv, SnapInv, Uncustodied
  <1>8. CASE /\ Owns(m, j.claim) /\ j.claim # 0
             /\ Write(m, staged) /\ Do(p, m, J(staged)) /\ lastClaim' = lastClaim
    <2>1. Has(row[m], j.claim) /\ row[m].status = "pending"
      BY <1>8 DEF Owns, Has
    <2>2. RowInv(m, staged, copies[m], lastClaim)
      BY <2>1, Facts, RowInvKept DEF staged
    <2>3. OwnerRow(m, row[m], staged, copies[m], lastClaim)
      BY <1>4, <2>2 DEF OwnerRow
    <2> QED BY <1>1, <1>2, <1>3, <1>4, <1>7, <1>8, <2>1, <2>3, OwnerGoesOn
  <1>9. CASE /\ Owns(m, j.snap.claim) /\ ~ActiveOwner(row[m]) /\ j.claim = 0
             /\ Write(m, staged) /\ Do(p, m, J(staged)) /\ lastClaim' = lastClaim
    <2>1. row[m].status = "pending" /\ ~row[m].leased
      BY <1>9, Facts DEF Owns, ActiveOwner, GoodRow, Coherent, Row, States
    <2>2. RowInv(m, staged, copies[m], lastClaim)
      BY <2>1, Facts, RowInvKept DEF staged
    <2>3. Becomes(p, m, staged, J(staged), copies[m])
      BY <1>2, <1>3, <1>4, <1>9, Facts DEF IInv, TypeOK, Do, Write, Becomes
    <2>4. \A q \in Processes \ {p} : JobInv(m, staged, job[q][m], copies[m], lastClaim)
      BY <1>4, <2>1, Facts, RecoveryWrites
    <2>5. \A q \in Processes \ {p} : Apart(J(staged), job[q][m]) /\ Apart(job[q][m], J(staged))
      BY <1>3, <1>4, <1>7, <1>9 DEF Apart
    <2> QED BY <1>1, <1>7, <1>9, <2>2, <2>3, <2>4, <2>5, Local
  <1>10. CASE End(p, m) /\ UNCHANGED <<row, lastClaim>>
    BY <1>1, <1>2, <1>10, JustEnds
  <1> QED BY <1>2, <1>6, <1>8, <1>9, <1>10

LEMMA FinalizeStep ==
    ASSUME IInv, NEW p \in Processes, NEW m \in Messages, Finalize(p, m)
    PROVE  IInv'
  <1>1. RestOK
    BY RestTypes DEF Finalize, IInv
  <1>2. /\ job[p][m].stage = "finalizing" /\ End(p, m) /\ UNCHANGED <<lastClaim, copies>>
        /\ UNCHANGED row \/ (row[m] = job[p][m].snap /\ Write(m, Compacted(m)))
    BY DEF Finalize
  <1>3. CASE UNCHANGED row
    BY <1>1, <1>2, <1>3, JustEnds
  <1>4. CASE row[m] = job[p][m].snap /\ Write(m, Compacted(m))
    <2>1. row[m].status = "failed"
      BY <1>2, <1>4, Facts DEF JobInv
    <2>2. /\ Compacted(m) \in GoodRow /\ Compacted(m).claim = 0 /\ ~Compacted(m).leased
          /\ Compacted(m).status = (IF m \in Stable THEN "failed" ELSE "deleted")
      BY EndedRows, EndedFields
    <2>3. RowInv(m, Compacted(m), copies[m], lastClaim)
      BY <2>2, Facts DEF RowInv
    <2> QED BY <1>1, <1>2, <1>4, <2>1, <2>2, <2>3, RecoveryEnds
  <1> QED BY <1>2, <1>3, <1>4

----------------------------------------------------------------------------
(* The environment *)

\* A step that changes one row, or the jobs of one process, and no claims:
\* what is to be shown is the message's part of the invariant.
LEMMA LeaseEndsStep ==
    ASSUME IInv, NEW m \in Messages, LeaseEnds(m)
    PROVE  IInv'
  <1> DEFINE r2 == [row[m] EXCEPT !.leased = FALSE]
  <1>1. RestOK
    BY RestTypes DEF LeaseEnds, Spend, IInv
  <1>2. /\ row' = [row EXCEPT ![m] = r2] /\ UNCHANGED <<job, lastClaim, copies>>
        /\ \A p \in Processes : job[p][m].stage # "flight" \/ job[p][m].claim # row[m].claim
    BY DEF LeaseEnds, InFlight, Write
  <1>3. row[m] \in GoodRow /\ RowInv(m, row[m], copies[m], lastClaim)
        /\ \A p \in Processes : JobInv(m, row[m], job[p][m], copies[m], lastClaim)
    BY DEF IInv, TypeOK, MsgInv
  <1>4. /\ r2 \in GoodRow /\ ~r2.leased /\ r2.status = row[m].status
        /\ r2.claim = row[m].claim /\ r2.state = row[m].state
    BY <1>3, MarkedRows DEF GoodRow, Row
  <1> HIDE DEF r2
  <1>5. TypeOK'
    BY <1>1, <1>2, <1>4 DEF IInv, TypeOK, RestOK
  <1>6. RowInv(m, r2, copies[m], lastClaim)
    BY <1>3, <1>4 DEF RowInv
  <1>7. ASSUME NEW p \in Processes PROVE JobInv(m, r2, job[p][m], copies[m], lastClaim)
    BY <1>2, <1>3, <1>4 DEF JobInv, SenderInv, SnapInv, Uncustodied, Has
  <1>8. ASSUME NEW n \in Messages PROVE MsgInv(n)'
    <2>1. CASE n = m
      BY <1>2, <1>6, <1>7, <2>1 DEF IInv, TypeOK, MsgInv
    <2>2. CASE n # m
      BY <1>2, <2>2 DEF IInv, TypeOK, MsgInv
    <2> QED BY <2>1, <2>2
  <1> QED BY <1>5, <1>8 DEF IInv

LEMMA CrashStep ==
    ASSUME IInv, NEW p \in Processes, Crash(p)
    PROVE  IInv'
  <1>1. PICK landed \in SUBSET {m \in Messages : InFlight(p, m)} :
          copies' = [m \in Messages |-> copies[m] + (IF m \in landed THEN 1 ELSE 0)]
    BY DEF Crash
  <1>2. /\ job' = [job EXCEPT ![p] = [m \in Messages |-> NoJob]]
        /\ UNCHANGED <<row, lastClaim, sends, told, loose>>
        /\ spent' = [spent EXCEPT !["crash"] = @ + 1]
    BY DEF Crash, Spend
  <1>3. NoJob \in Job
    BY NoJobInv, 0 \in Nat
  <1>4. TypeOK'
    <2>1. job' \in [Processes -> [Messages -> Job]]
      BY <1>2, <1>3 DEF IInv, TypeOK
    <2>2. copies' \in [Messages -> Nat]
      BY <1>1 DEF IInv, TypeOK
    <2>3. spent' \in [{"crash", "stall", "fault", "replay"} -> Nat]
      BY <1>2 DEF IInv, TypeOK
    <2> QED BY <1>2, <2>1, <2>2, <2>3 DEF IInv, TypeOK
  <1>5. ASSUME NEW m \in Messages PROVE MsgInv(m)'
    <2>1. /\ row'[m] = row[m] /\ lastClaim' = lastClaim /\ job'[p][m] = NoJob
          /\ \A q \in Processes \ {p} : job'[q][m] = job[q][m]
          /\ copies'[m] = copies[m] + (IF m \in landed THEN 1 ELSE 0)
          /\ copies[m] \in Nat
      BY <1>1, <1>2 DEF IInv, TypeOK
    <2>2. \A k \in Nat : JobInv(m, row[m], NoJob, k, lastClaim)
      BY Facts, NoJobInv
    <2>3. \A q \in Processes : Apart(NoJob, job[q][m]) /\ Apart(job[q][m], NoJob)
      BY Facts, NoJobInv
    <2>4. \A q, s \in Processes : q # s => Apart(job'[q][m], job'[s][m])
      BY <2>1, <2>3 DEF IInv, MsgInv
    <2>5. CASE m \notin landed
      <3>1. copies'[m] = copies[m]
        BY <2>1, <2>5
      <3> QED BY <2>1, <2>2, <2>4, <3>1, Facts DEF MsgInv
    <2>6. CASE m \in landed
      <3>1. job[p][m].stage = "flight"
        BY <2>6 DEF InFlight
      <3>2. /\ copies[m] = 0 /\ copies'[m] = 1
            /\ \/ Has(row[m], job[p][m].claim) /\ row[m].leased /\ row[m].state \in Evidence
               \/ /\ job[p][m].claim = 0 /\ Uncustodied(job[p][m])
                  /\ row[m].status = "completed" \/ (row[m].status = "deleted" /\ m \notin Stable)
        BY <2>1, <2>6, <3>1, Facts DEF JobInv, SenderInv, Uncustodied
      <3>3. RowInv(m, row[m], 1, lastClaim)
        BY <3>2, Facts DEF RowInv, Has
      <3>4. \A q \in Processes \ {p} : JobInv(m, row[m], job[q][m], 1, lastClaim)
        <4>1. \A q \in Processes \ {p} : JobInv(m, row[m], job[q][m], 0, lastClaim)
          BY <3>2, Facts
        <4>2. \A q \in Processes \ {p} :
                \/ /\ Has(row[m], job[p][m].claim) /\ row[m].leased
                   /\ job[q][m].claim # job[p][m].claim
                \/ row[m].status \in {"completed", "deleted"} /\ ~Uncustodied(job[q][m])
          BY <3>2, Facts DEF Apart, Has
        <4> QED BY <4>1, <4>2, Lands
      <3> QED BY <2>1, <2>2, <2>4, <3>2, <3>3, <3>4 DEF MsgInv
    <2> QED BY <2>5, <2>6
  <1> QED BY <1>4, <1>5 DEF IInv

----------------------------------------------------------------------------
(* The theorems *)

LEMMA InitInv == Init => IInv
  <1> SUFFICES ASSUME Init PROVE IInv
    OBVIOUS
  <1>1. NoJob \in Job /\ Blank \in GoodRow
    BY NoJobInv, BlankRow, 0 \in Nat DEF GoodRow
  <1>2. TypeOK
    BY <1>1 DEF Init, TypeOK
  <1>3. ASSUME NEW m \in Messages PROVE MsgInv(m)
    <2>1. row[m] = Blank /\ copies[m] = 0 /\ lastClaim = 0
          /\ \A p \in Processes : job[p][m] = NoJob
      BY DEF Init
    <2>2. RowInv(m, Blank, 0, 0)
      BY DEF RowInv, Blank
    <2>3. JobInv(m, Blank, NoJob, 0, 0) /\ Apart(NoJob, NoJob)
      BY NoJobInv, 0 \in Nat
    <2> QED BY <2>1, <2>2, <2>3 DEF MsgInv
  <1> QED BY <1>2, <1>3 DEF IInv

LEMMA JobSteps ==
    ASSUME IInv, NEW p \in Processes, NEW m \in Messages, JobStep(p, m)
    PROVE  IInv'
  BY BeginLiveStep, PreSendStep, PreSendFailsStep, MarkDispatchStep, DispatchFailsStep,
     SendStep, ArriveStep, RecordResultStep, RecordFailsStep, AckStep, AnswerVagueStep,
     AnswerErrorStep, AnswerNotSentStep, AnswerRejectedStep, AnswerLooseStep, LeaseLostStep,
     ReconcileStep, ClaimStep, ReserveStep, StopStep, SettleStep, FinalizeStep
  DEF JobStep

LEMMA NextInv == IInv /\ [Next]_vars => IInv'
  <1> SUFFICES ASSUME IInv, [Next]_vars PROVE IInv'
    OBVIOUS
  <1>1. CASE UNCHANGED vars
    BY <1>1 DEF vars, IInv, TypeOK, MsgInv
  <1>2. CASE Next
    BY <1>2, JobSteps, SubmitStep, ResubmitStep, ScanStep, CancelStep, LeaseEndsStep, CrashStep
    DEF Next
  <1> QED BY <1>1, <1>2

LEMMA Invariance == Spec => []IInv
  BY InitInv, NextInv, PTL DEF Spec

\* Every row's send evidence stays in one piece: state, attempt id and
\* timestamp come and go together (failDeliveryBeforePlatformSend).
THEOREM Delivery_TypeOK == Spec => []TypeOK
  <1>1. IInv => TypeOK
    BY DEF IInv
  <1> QED BY <1>1, Invariance, PTL

\* No message reaches the platform twice (drainQueuedEntry, "cannot be
\* blindly replayed").
THEOREM Delivery_AtMostOnce == Spec => []AtMostOnce
  <1>1. IInv => AtMostOnce
    BY DEF IInv, MsgInv, RowInv, AtMostOnce
  <1> QED BY <1>1, Invariance, PTL

\* A send in flight has left evidence of itself in the row that it owns
\* (promoteDeliveryQueueEntryPlatformSend).
THEOREM Delivery_EvidenceFirst == Spec => []EvidenceFirst
  <1>1. IInv => EvidenceFirst
    <2> SUFFICES ASSUME IInv, NEW p \in Processes, NEW m \in Messages,
                        job[p][m].stage = "flight", job[p][m].claim # 0
                 PROVE  /\ Owns(m, job[p][m].claim)
                        /\ row[m].state \in Evidence /\ row[m].stamp # 0
      BY DEF EvidenceFirst, InFlight
    <2>1. Has(row[m], job[p][m].claim) /\ row[m].state \in Evidence
      BY Facts DEF JobInv, SenderInv
    <2>2. row[m].stamp # 0
      BY <2>1, Facts DEF GoodRow, Coherent, Evidence
    <2> QED BY <2>1, <2>2 DEF Has, Owns
  <1> QED BY <1>1, Invariance, PTL

\* A step leaves a message's failed row and its sends alone.
Spares(m) ==
    /\ row' = row \/ (row[m].status # "failed" /\ \E r : row' = [row EXCEPT ![m] = r])
    /\ sends' = sends \/ (row[m].status # "failed" /\ sends' = [sends EXCEPT ![m] = @ + 1])

LEMMA SparesFailed ==
    ASSUME IInv, NEW p \in Processes, NEW m \in Messages,
           JobStep(p, m) \/ Submit(p, m) \/ Resubmit(p, m) \/ Scan(p, m) \/ Cancel(p, m)
    PROVE  Spares(m) \/ Finalize(p, m)
  <1>1. /\ Submit(p, m) => Spares(m)
        /\ Resubmit(p, m) => Spares(m)
        /\ Scan(p, m) => Spares(m)
        /\ Cancel(p, m) => Spares(m)
    BY DEF Spares, Submit, Resubmit, Scan, Cancel, Write, WriteOwned, Owns, Claimable, Quiet
  <1>2. /\ BeginLive(p, m) => Spares(m)
        /\ PreSend(p, m) => Spares(m)
        /\ PreSendFails(p, m) => Spares(m)
        /\ MarkDispatch(p, m) => Spares(m)
        /\ DispatchFails(p, m) => Spares(m)
    BY DEF Spares, BeginLive, PreSend, PreSendFails, MarkDispatch, DispatchFails, Write,
       WriteOwned, Owns, Live, Quiet
  <1>3. Send(p, m) => Spares(m)
    BY Facts DEF Spares, Send, Live, Owns, JobInv, Uncustodied
  <1>4. /\ Arrive(p, m) => Spares(m)
        /\ RecordResult(p, m) => Spares(m)
        /\ RecordFails(p, m) => Spares(m)
        /\ Ack(p, m) => Spares(m)
        /\ AckFails(p, m) => Spares(m)
    BY DEF Spares, Arrive, RecordResult, RecordFails, Ack, AckFails, Write, WriteOwned, Owns, Quiet
  <1>5. /\ AnswerVague(p, m) => Spares(m)
        /\ AnswerError(p, m) => Spares(m)
        /\ AnswerNotSent(p, m) => Spares(m)
        /\ AnswerRejected(p, m) => Spares(m)
        /\ AnswerLoose(p, m) => Spares(m)
        /\ LeaseLost(p, m) => Spares(m)
    BY DEF Spares, AnswerVague, AnswerError, AnswerNotSent, AnswerRejected, AnswerLoose,
       LeaseLost, Write, WriteOwned, Owns, Quiet
  <1>6. /\ Reconcile(p, m) => Spares(m)
        /\ Claim(p, m) => Spares(m)
        /\ Reserve(p, m) => Spares(m)
        /\ Stop(p, m) => Spares(m)
        /\ Settle(p, m) => Spares(m)
    BY DEF Spares, Reconcile, Claim, Reserve, Stop, Settle, Write, WriteOwned, Owns, Live,
       Claimable, Quiet
  <1> QED BY <1>1, <1>2, <1>3, <1>4, <1>5, <1>6 DEF JobStep

\* Once a message's custody has failed, nothing of it is sent any more, and
\* its row does not come back (settleQueuedFailure).
THEOREM Delivery_FailedForbidsSends == Spec => FailedForbidsSends
  <1> DEFINE Forbids == \A m \in Messages :
               row[m].status = "failed"
                 => sends'[m] = sends[m] /\ row'[m].status \in {"failed", "deleted"}
  <1>1. ASSUME IInv, NEW p \in Processes, NEW m \in Messages,
               JobStep(p, m) \/ Submit(p, m) \/ Resubmit(p, m) \/ Scan(p, m) \/ Cancel(p, m)
        PROVE  Forbids
    <2>1. row \in [Messages -> GoodRow] /\ sends \in [Messages -> Nat]
      BY <1>1 DEF IInv, TypeOK
    <2>2. CASE Spares(m)
      BY <2>1, <2>2 DEF Spares
    <2>3. CASE Finalize(p, m)
      <3>1. sends' = sends /\ (row' = row \/ row' = [row EXCEPT ![m] = Compacted(m)])
        BY <2>3 DEF Finalize, Write
      <3>2. Compacted(m).status \in {"failed", "deleted"}
        BY EndedFields
      <3> QED BY <2>1, <3>1, <3>2
    <2> QED BY <1>1, <2>2, <2>3, SparesFailed
  <1>2. ASSUME IInv, NEW m \in Messages, LeaseEnds(m) PROVE Forbids
    BY <1>2 DEF LeaseEnds, Write, IInv, TypeOK, GoodRow, Row
  <1>3. ASSUME IInv, NEW p \in Processes, Crash(p) PROVE Forbids
    BY <1>3 DEF Crash
  <1>4. IInv /\ [Next]_vars =>
          [\A m \in Messages :
             row[m].status = "failed"
               => sends'[m] = sends[m] /\ row'[m].status \in {"failed", "deleted"}]_vars
    BY <1>1, <1>2, <1>3 DEF Next
  <1> QED BY <1>4, Invariance, PTL DEF Spec, FailedForbidsSends

----------------------------------------------------------------------------
(* A message's life, as its row and its loose sender show it *)

RowLife(r) == IF r.status = "new" THEN "new"
              ELSE IF Unfinished(r) THEN "queued" ELSE "ended"

Loose(j) == j.claim = 0 /\ j.stage \in {"cleared", "flight", "arrived"}

\* A row that no step brings back.
Gone(m, r) == r.status = "completed" \/ (r.status = "deleted" /\ m \notin Stable)

\* Only a message whose row is gone has a sender without custody.
LooseInv ==
    \A m \in Messages, p \in Processes : Loose(job[p][m]) => Gone(m, row[m])

\* How a step may move a message's row.
Passes(m) ==
    \/ RowLife(row'[m]) = RowLife(row[m]) /\ (Gone(m, row[m]) => Gone(m, row'[m]))
    \/ RowLife(row[m]) = "new" /\ RowLife(row'[m]) = "queued"
    \/ /\ RowLife(row[m]) = "queued" /\ RowLife(row'[m]) = "ended"
       /\ copies[m] > 0 \/ m \in told'
    \/ /\ RowLife(row[m]) = "ended" /\ RowLife(row'[m]) = "queued"
       /\ row[m].status = "deleted" /\ m \in Stable

\* A best-effort message loses its row before anything of it was sent.
LetLoose(p, m) ==
    /\ RowLife(row[m]) = "queued" /\ RowLife(row'[m]) = "ended" /\ Gone(m, row'[m])
    /\ m \notin Required /\ copies[m] = 0 /\ m \in loose'
    /\ Loose(job'[p][m])

\* A step of one job on one message.
OnlyAt(p, m) ==
    /\ \A n \in Messages \ {m} : row'[n] = row[n] /\ copies'[n] = copies[n]
    /\ \A q \in Processes, n \in Messages : q # p \/ n # m => job'[q][n] = job[q][n]
    /\ told \subseteq told' /\ loose \subseteq loose'

Moves(p, m) ==
    \/ Passes(m) /\ (Loose(job'[p][m]) => Loose(job[p][m]))
    \/ LetLoose(p, m)

LandsAt(p, m) ==
    \/ copies'[m] = copies[m]
    \/ job[p][m].stage = "flight" /\ copies'[m] = copies[m] + 1

MessageStep(p, m) ==
    JobStep(p, m) \/ Submit(p, m) \/ Resubmit(p, m) \/ Scan(p, m) \/ Cancel(p, m)

\* A step of one job leaves the other messages and the other jobs alone.
LEMMA OneMessageSteps ==
    ASSUME IInv, NEW p \in Processes, NEW m \in Messages, MessageStep(p, m)
    PROVE  OnlyAt(p, m) /\ LandsAt(p, m)
  <1>1. /\ row \in [Messages -> GoodRow] /\ copies \in [Messages -> Nat]
        /\ job \in [Processes -> [Messages -> Job]]
    BY DEF IInv, TypeOK
  <1>2. \E j2 : job' = [job EXCEPT ![p][m] = j2]
    <2>1. CASE Submit(p, m) \/ Resubmit(p, m) \/ Scan(p, m) \/ Cancel(p, m)
      BY <2>1 DEF Submit, Resubmit, Scan, Cancel, Do, End
    <2>2. CASE JobStep(p, m)
      BY <2>2 DEF JobStep, BeginLive, PreSend, PreSendFails, MarkDispatch, DispatchFails, Send,
         Arrive, RecordResult, RecordFails, Ack, AckFails, AnswerVague, AnswerError,
         AnswerNotSent, AnswerRejected, AnswerLoose, LeaseLost, Reconcile, Claim, Reserve,
         Stop, Settle, Finalize, At, Do, End
    <2> QED BY <2>1, <2>2 DEF MessageStep
  <1>3. row' = row \/ \E r2 : row' = [row EXCEPT ![m] = r2]
    <2>1. CASE Submit(p, m) \/ Resubmit(p, m) \/ Scan(p, m) \/ Cancel(p, m)
      BY <2>1 DEF Submit, Resubmit, Scan, Cancel, Write, WriteOwned
    <2>2. CASE JobStep(p, m)
      BY <2>2 DEF JobStep, BeginLive, PreSend, PreSendFails, MarkDispatch, DispatchFails, Send,
         Arrive, RecordResult, RecordFails, Ack, AckFails, AnswerVague, AnswerError,
         AnswerNotSent, AnswerRejected, AnswerLoose, LeaseLost, Reconcile, Claim, Reserve,
         Stop, Settle, Finalize, Write, WriteOwned
    <2> QED BY <2>1, <2>2 DEF MessageStep
  <1>4. /\ \/ copies' = copies
           \/ job[p][m].stage = "flight" /\ copies' = [copies EXCEPT ![m] = @ + 1]
        /\ told \subseteq told' /\ loose \subseteq loose'
    <2>1. CASE Submit(p, m) \/ Resubmit(p, m) \/ Scan(p, m) \/ Cancel(p, m)
      BY <2>1 DEF Submit, Resubmit, Scan, Cancel, Tell, Quiet
    <2>2. CASE JobStep(p, m)
      BY <2>2 DEF JobStep, BeginLive, PreSend, PreSendFails, MarkDispatch, DispatchFails, Send,
         Arrive, RecordResult, RecordFails, Ack, AckFails, AnswerVague, AnswerError,
         AnswerNotSent, AnswerRejected, AnswerLoose, LeaseLost, Reconcile, Claim, Reserve,
         Stop, Settle, Finalize, Tell, Quiet
    <2> QED BY <2>1, <2>2 DEF MessageStep
  <1>5. \A q \in Processes, n \in Messages : q # p \/ n # m => job'[q][n] = job[q][n]
    BY <1>1, <1>2
  <1>6. \A n \in Messages \ {m} : row'[n] = row[n] /\ copies'[n] = copies[n]
    BY <1>1, <1>3, <1>4
  <1>7. LandsAt(p, m)
    BY <1>1, <1>4 DEF LandsAt
  <1> QED BY <1>4, <1>5, <1>6, <1>7 DEF OnlyAt

\* The row stays as it is, or pending.
Pending(m) ==
    row'[m] = row[m] \/ (row[m].status = "pending" /\ row'[m].status = "pending")

\* A row that stays pending keeps its life.
LEMMA PendingPasses ==
    ASSUME NEW m \in Messages, Pending(m)
    PROVE  Passes(m)
  BY DEF Pending, Passes, RowLife, Unfinished, Gone

\* The row of a settled message, told or known to have arrived.
LEMMA EndPasses ==
    ASSUME NEW m \in Messages, row[m].status = "pending",
           row'[m].status \in {"completed", "deleted"}
           \/ (row'[m].status = "failed" /\ row'[m].state = "none"),
           copies[m] > 0 \/ m \in told'
    PROVE  Passes(m)
  BY DEF Passes, RowLife, Unfinished

\* A write by the owner of a row.
LEMMA WrittenByOwner ==
    ASSUME IInv, NEW m \in Messages, NEW c, NEW r, WriteOwned(m, c, r)
    PROVE  row'[m] = row[m] \/ (row[m].status = "pending" /\ row'[m] = r)
  BY DEF IInv, TypeOK, WriteOwned, Owns, Write

\* A job that ended holds nothing.
LEMMA EndsJob ==
    ASSUME IInv, NEW p \in Processes, NEW m \in Messages, End(p, m)
    PROVE  job'[p][m] = NoJob /\ ~Loose(job'[p][m])
  BY DEF IInv, TypeOK, End, Do, NoJob, Loose

\* A job that goes on keeps its claim.
LEMMA StagesJob ==
    ASSUME IInv, NEW p \in Processes, NEW m \in Messages, NEW s, At(p, m, s)
    PROVE  job'[p][m].stage = s /\ job'[p][m].claim = job[p][m].claim
  BY DEF IInv, TypeOK, At, Do, Job

\* A compacted row is not half settled.
LEMMA CompactedState ==
    ASSUME NEW m PROVE Compacted(m).state = "none"
  BY DEF Compacted, Blank

\* The live sender's steps move the row as the promise allows.
LEMMA LiveMoves ==
    ASSUME IInv, NEW p \in Processes, NEW m \in Messages
    PROVE  /\ Submit(p, m) => Moves(p, m)
           /\ Resubmit(p, m) => Moves(p, m)
           /\ BeginLive(p, m) => Moves(p, m)
           /\ PreSend(p, m) => Moves(p, m)
           /\ PreSendFails(p, m) => Moves(p, m)
           /\ MarkDispatch(p, m) => Moves(p, m)
           /\ DispatchFails(p, m) => Moves(p, m)
           /\ Cancel(p, m) => Moves(p, m)
           /\ LeaseLost(p, m) => Moves(p, m)
  <1>1. row \in [Messages -> GoodRow] /\ row[m] \in GoodRow /\ job[p][m] \in Job
        /\ JobInv(m, row[m], job[p][m], copies[m], lastClaim)
        /\ job \in [Processes -> [Messages -> Job]]
    BY Facts DEF IInv, TypeOK
  <1>2. ASSUME Submit(p, m) PROVE Moves(p, m)
    <2>1. row'[m].status = "pending"
      BY <1>1, <1>2, FreshFields DEF Submit, Write
    <2>2. row[m].status = "new" \/ (row[m].status = "deleted" /\ m \in Stable)
      BY <1>2 DEF Submit
    <2>3. job'[p][m].stage \in {"held", "admitted"}
      BY <1>1, <1>2 DEF Submit, Do, NoJob
    <2> QED BY <2>1, <2>2, <2>3 DEF Moves, Passes, RowLife, Unfinished, Loose
  <1>3. ASSUME Resubmit(p, m) PROVE Moves(p, m)
    <2>1. row[m].status = "pending" /\ row'[m].status = "pending"
      BY <1>1, <1>3, FreshFields DEF Resubmit, Write, Claimable
    <2>2. job'[p][m].stage = "held"
      BY <1>1, <1>3 DEF Resubmit, Do, NoJob
    <2> QED BY <2>1, <2>2, PendingPasses DEF Moves, Loose, Pending
  <1>4. ASSUME BeginLive(p, m) PROVE Moves(p, m)
    <2>1. row'[m] = row[m] /\ job'[p][m].stage = "held"
      BY <1>4, StagesJob DEF BeginLive
    <2> QED BY <2>1, PendingPasses DEF Moves, Loose, Pending
  <1>5. ASSUME PreSend(p, m) PROVE Moves(p, m)
    <2>1. row[m].status = "pending" /\ row'[m].status = "pending"
      BY <1>1, <1>5, MarkedFields DEF PreSend, Write, Live, Owns
    <2>2. job'[p][m].stage = "started"
      BY <1>5, StagesJob DEF PreSend
    <2> QED BY <2>1, <2>2, PendingPasses DEF Moves, Loose, Pending
  <1>6. ASSUME PreSendFails(p, m) PROVE Moves(p, m)
    <2>1. job[p][m].stage = "held" /\ Owns(m, job[p][m].claim) /\ job[p][m].claim # 0
      BY <1>1, <1>6 DEF PreSendFails, JobInv
    <2>2. row[m].status = "pending" /\ copies[m] = 0
      BY <1>1, <2>1 DEF JobInv, SenderInv, Owns, Has
    <2>3. CASE m \in Required
      <3>1. row'[m].status = "pending" /\ End(p, m)
        BY <1>1, <1>6, <2>2, <2>3, FailedFields DEF PreSendFails, Write
      <3> QED BY <2>2, <3>1, PendingPasses, EndsJob DEF Moves, Pending
    <2>4. CASE m \notin Required
      <3>1. row'[m] = Acked(m, row[m]) /\ m \in loose'
        BY <1>1, <1>6, <2>4 DEF PreSendFails, Write
      <3>2. Gone(m, row'[m]) /\ RowLife(row'[m]) = "ended"
        BY <3>1, EndedFields DEF Gone, RowLife, Unfinished
      <3>3. Loose(job'[p][m])
        <4>1. job' = [job EXCEPT ![p][m] = [job[p][m] EXCEPT !.stage = "cleared", !.claim = 0]]
          BY <1>6, <2>4 DEF PreSendFails, Do
        <4>2. job'[p][m] = [job[p][m] EXCEPT !.stage = "cleared", !.claim = 0]
          BY <1>1, <4>1
        <4>3. job'[p][m].stage = "cleared" /\ job'[p][m].claim = 0
          BY <1>1, <4>2 DEF Job
        <4> QED BY <4>3 DEF Loose
      <3>4. RowLife(row[m]) = "queued"
        BY <2>2 DEF RowLife, Unfinished
      <3>5. m \in loose'
        BY <3>1
      <3> QED BY <2>2, <2>4, <3>2, <3>3, <3>4, <3>5 DEF Moves, LetLoose
    <2> QED BY <2>3, <2>4
  <1>7. ASSUME MarkDispatch(p, m) PROVE Moves(p, m)
    <2>1. row[m].status = "pending" /\ row'[m].status = "pending"
      BY <1>1, <1>7, MarkedFields DEF MarkDispatch, Write, Live, Owns
    <2>2. job[p][m].claim # 0 /\ At(p, m, "cleared")
      BY <1>1, <1>7 DEF MarkDispatch, JobInv
    <2>3. job'[p][m].claim # 0
      BY <2>2, StagesJob
    <2> QED BY <2>1, <2>3, PendingPasses DEF Moves, Loose, Pending
  <1>8. ASSUME DispatchFails(p, m) PROVE Moves(p, m)
    <2>1. WriteOwned(m, job[p][m].claim, Failed(row[m])) /\ End(p, m)
      BY <1>8 DEF DispatchFails
    <2>2. Pending(m)
      BY <1>1, <2>1, WrittenByOwner, FailedFields DEF Pending
    <2> QED BY <2>1, <2>2, PendingPasses, EndsJob DEF Moves
  <1>9. ASSUME Cancel(p, m) PROVE Moves(p, m)
    <2>1. /\ End(p, m) /\ m \in told'
          /\ \/ WriteOwned(m, job[p][m].claim, Removed)
             \/ WriteOwned(m, job[p][m].claim, FailedAfterSend(row[m]))
      BY <1>9 DEF Cancel, Tell
    <2>2. CASE WriteOwned(m, job[p][m].claim, Removed)
      BY <2>1, <2>2, WrittenByOwner, EndedFields, EndPasses, PendingPasses, EndsJob
      DEF Moves, Pending
    <2>3. CASE WriteOwned(m, job[p][m].claim, FailedAfterSend(row[m]))
      BY <1>1, <2>1, <2>3, WrittenByOwner, FailedFields, PendingPasses, EndsJob
      DEF Moves, Pending
    <2> QED BY <2>1, <2>2, <2>3
  <1>10. ASSUME LeaseLost(p, m) PROVE Moves(p, m)
    <2>1. /\ End(p, m)
          /\ row' = row \/ WriteOwned(m, job[p][m].claim, Failed(row[m]))
      BY <1>10 DEF LeaseLost
    <2>2. Pending(m)
      BY <1>1, <2>1, WrittenByOwner, FailedFields DEF Pending
    <2> QED BY <2>1, <2>2, PendingPasses, EndsJob DEF Moves
  <1> QED BY <1>2, <1>3, <1>4, <1>5, <1>6, <1>7, <1>8, <1>9, <1>10

\* So do the steps of a send and of its answer.
LEMMA SendMoves ==
    ASSUME IInv, NEW p \in Processes, NEW m \in Messages
    PROVE  /\ Send(p, m) => Moves(p, m)
           /\ Arrive(p, m) => Moves(p, m)
           /\ RecordResult(p, m) => Moves(p, m)
           /\ RecordFails(p, m) => Moves(p, m)
           /\ Ack(p, m) => Moves(p, m)
           /\ AckFails(p, m) => Moves(p, m)
           /\ AnswerVague(p, m) => Moves(p, m)
           /\ AnswerError(p, m) => Moves(p, m)
           /\ AnswerNotSent(p, m) => Moves(p, m)
           /\ AnswerRejected(p, m) => Moves(p, m)
           /\ AnswerLoose(p, m) => Moves(p, m)
  <1>1. row \in [Messages -> GoodRow] /\ row[m] \in GoodRow /\ job[p][m] \in Job
        /\ JobInv(m, row[m], job[p][m], copies[m], lastClaim)
        /\ job \in [Processes -> [Messages -> Job]] /\ copies[m] \in Nat
    BY Facts DEF IInv, TypeOK
  <1>2. job[p][m].stage \in {"arrived", "recorded"} => copies[m] > 0
    BY <1>1 DEF JobInv, SenderInv
  <1>3. /\ Failed(row[m]).status = row[m].status
        /\ FailedBeforeSend(row[m]).status = row[m].status
        /\ FailedAfterSend(row[m]).status = row[m].status
        /\ OutcomeUnknown(row[m]).status = row[m].status
    BY <1>1, FailedFields, MarkedFields
  <1>4. /\ Acked(m, row[m]).status \in {"completed", "deleted"}
        /\ Removed.status = "deleted"
        /\ \/ Compacted(m).status = "deleted"
           \/ Compacted(m).status = "failed" /\ Compacted(m).state = "none"
    BY EndedFields, CompactedState
  <1>5. ASSUME Send(p, m) PROVE Moves(p, m)
    <2>1. row'[m] = row[m] /\ At(p, m, "flight")
          /\ (job[p][m].stage = "cleared" \/ job[p][m].claim # 0)
      BY <1>1, <1>5 DEF Send, JobInv
    <2> QED BY <2>1, StagesJob, PendingPasses DEF Moves, Loose, Pending
  <1>6. ASSUME Arrive(p, m) PROVE Moves(p, m)
    <2>1. row'[m] = row[m] /\ At(p, m, "arrived") /\ job[p][m].stage = "flight"
      BY <1>6 DEF Arrive
    <2> QED BY <2>1, StagesJob, PendingPasses DEF Moves, Loose, Pending
  <1>7. ASSUME RecordResult(p, m) PROVE Moves(p, m)
    <2>1. CASE /\ Owns(m, job[p][m].claim) /\ Write(m, OutcomeUnknown(row[m]))
               /\ At(p, m, "recorded")
      <3>1. Pending(m)
        BY <1>1, <1>3, <2>1 DEF Owns, Write, Pending
      <3> QED BY <2>1, <3>1, StagesJob, PendingPasses DEF Moves, Loose
    <2>2. CASE UNCHANGED row /\ End(p, m)
      BY <2>2, EndsJob, PendingPasses DEF Moves, Pending
    <2> QED BY <1>7, <2>1, <2>2 DEF RecordResult
  <1>8. ASSUME RecordFails(p, m) PROVE Moves(p, m)
    <2>1. /\ End(p, m) /\ copies[m] > 0
          /\ \/ WriteOwned(m, job[p][m].claim, FailedAfterSend(row[m]))
             \/ WriteOwned(m, job[p][m].claim, Acked(m, row[m]))
      BY <1>2, <1>8 DEF RecordFails
    <2>2. Passes(m)
      BY <1>3, <1>4, <2>1, WrittenByOwner, EndPasses, PendingPasses DEF Pending
    <2> QED BY <2>1, <2>2, EndsJob DEF Moves
  <1>9. ASSUME Ack(p, m) PROVE Moves(p, m)
    <2>1. /\ End(p, m) /\ copies[m] > 0
          /\ WriteOwned(m, job[p][m].claim, Acked(m, row[m]))
      BY <1>2, <1>9 DEF Ack
    <2>2. Passes(m)
      BY <1>4, <2>1, WrittenByOwner, EndPasses, PendingPasses DEF Pending
    <2> QED BY <2>1, <2>2, EndsJob DEF Moves
  <1>10. ASSUME AckFails(p, m) \/ AnswerVague(p, m) \/ AnswerError(p, m)
         PROVE  Moves(p, m)
    <2>1. /\ End(p, m)
          /\ \/ WriteOwned(m, job[p][m].claim, FailedAfterSend(row[m]))
             \/ WriteOwned(m, job[p][m].claim, OutcomeUnknown(row[m]))
             \/ WriteOwned(m, job[p][m].claim, Failed(row[m]))
      BY <1>10 DEF AckFails, AnswerVague, AnswerError
    <2>2. Passes(m)
      BY <1>3, <2>1, WrittenByOwner, PendingPasses DEF Pending
    <2> QED BY <2>1, <2>2, EndsJob DEF Moves
  <1>11. ASSUME AnswerNotSent(p, m) PROVE Moves(p, m)
    <2>1. /\ End(p, m)
          /\ \/ WriteOwned(m, job[p][m].claim, FailedBeforeSend(row[m]))
             \/ WriteOwned(m, job[p][m].claim, Compacted(m)) /\ m \in told'
      BY <1>11 DEF AnswerNotSent, Tell
    <2>2. Passes(m)
      BY <1>3, <1>4, <2>1, WrittenByOwner, EndPasses, PendingPasses DEF Pending
    <2> QED BY <2>1, <2>2, EndsJob DEF Moves
  <1>12. ASSUME AnswerRejected(p, m) PROVE Moves(p, m)
    <2>1. CASE WriteOwned(m, job[p][m].claim, Removed) /\ Tell(m) /\ End(p, m)
      <3>1. Passes(m)
        BY <1>4, <2>1, WrittenByOwner, EndPasses, PendingPasses DEF Pending, Tell
      <3> QED BY <2>1, <3>1, EndsJob DEF Moves
    <2>2. CASE At(p, m, "settling") /\ UNCHANGED row
      BY <2>2, StagesJob, PendingPasses DEF Moves, Pending, Loose
    <2> QED BY <1>12, <2>1, <2>2 DEF AnswerRejected
  <1>13. ASSUME AnswerLoose(p, m) PROVE Moves(p, m)
    <2>1. End(p, m) /\ row'[m] = row[m]
      BY <1>13 DEF AnswerLoose
    <2> QED BY <2>1, EndsJob, PendingPasses DEF Moves, Pending
  <1> QED BY <1>5, <1>6, <1>7, <1>8, <1>9, <1>10, <1>11, <1>12, <1>13

\* So do the steps of recovery.
LEMMA RecoveryMoves ==
    ASSUME IInv, NEW p \in Processes, NEW m \in Messages
    PROVE  /\ Scan(p, m) => Moves(p, m)
           /\ Reconcile(p, m) => Moves(p, m)
           /\ Claim(p, m) => Moves(p, m)
           /\ Reserve(p, m) => Moves(p, m)
           /\ Stop(p, m) => Moves(p, m)
           /\ Settle(p, m) => Moves(p, m)
           /\ Finalize(p, m) => Moves(p, m)
  <1>1. row \in [Messages -> GoodRow] /\ row[m] \in GoodRow /\ job[p][m] \in Job
        /\ JobInv(m, row[m], job[p][m], copies[m], lastClaim)
        /\ job \in [Processes -> [Messages -> Job]] /\ copies[m] \in Nat
    BY Facts DEF IInv, TypeOK
  <1>2. ASSUME Scan(p, m) PROVE Moves(p, m)
    <2>1. row'[m] = row[m]
      BY <1>2 DEF Scan
    <2>2. job'[p][m].stage \in {"finalizing", "settling", "scanned", "idle"}
      BY <1>1, <1>2 DEF Scan, Do, End, NoJob
    <2> QED BY <2>1, <2>2, PendingPasses DEF Moves, Pending, Loose
  <1>3. ASSUME Reconcile(p, m) PROVE Moves(p, m)
    <2>1. CASE copies[m] > 0 /\ WriteOwned(m, job[p][m].snap.claim, Acked(m, row[m])) /\ End(p, m)
      <3>1. Acked(m, row[m]).status \in {"completed", "deleted"}
        BY EndedFields
      <3>2. Passes(m)
        BY <2>1, <3>1, WrittenByOwner, EndPasses, PendingPasses DEF Pending
      <3> QED BY <2>1, <3>2, EndsJob DEF Moves
    <2>2. CASE UNCHANGED row /\ (At(p, m, "proved") \/ At(p, m, "settling"))
      BY <2>2, StagesJob, PendingPasses DEF Moves, Pending, Loose
    <2>3. CASE WriteOwned(m, job[p][m].snap.claim, Failed(row[m])) /\ End(p, m)
      <3>1. Passes(m)
        BY <1>1, <2>3, WrittenByOwner, FailedFields, PendingPasses DEF Pending
      <3> QED BY <2>3, <3>1, EndsJob DEF Moves
    <2> QED BY <1>3, <2>1, <2>2, <2>3 DEF Reconcile
  <1>4. ASSUME Claim(p, m) PROVE Moves(p, m)
    <2>1. CASE End(p, m) /\ UNCHANGED row
      BY <2>1, EndsJob, PendingPasses DEF Moves, Pending
    <2>2. CASE /\ row[m].status = "pending" /\ Write(m, ClaimedBy(row[m], lastClaim'))
               /\ Do(p, m, [job[p][m] EXCEPT !.stage = "reserving", !.claim = lastClaim'])
      <3>1. Pending(m)
        BY <1>1, <2>2, FreshFields DEF Write, Pending
      <3>2. job'[p][m].stage = "reserving"
        BY <1>1, <2>2 DEF Do, Job
      <3> QED BY <3>1, <3>2, PendingPasses DEF Moves, Loose
    <2> QED BY <1>4, <2>1, <2>2 DEF Claim, Claimable
  <1>5. ASSUME Reserve(p, m) PROVE Moves(p, m)
    <2>1. CASE UNCHANGED row /\ (End(p, m) \/ At(p, m, "settling"))
      BY <2>1, EndsJob, StagesJob, PendingPasses DEF Moves, Pending, Loose
    <2>2. CASE /\ row[m].status = "pending" /\ At(p, m, "held")
               /\ Write(m, [row[m] EXCEPT !.attempts = Tries(row[m]) + 1])
      <3>1. Tries(row[m]) + 1 \in Nat
        BY <1>1, TriesNat DEF GoodRow
      <3>2. Pending(m)
        BY <1>1, <2>2, <3>1, CountedFields DEF Write, Pending
      <3> QED BY <2>2, <3>2, StagesJob, PendingPasses DEF Moves, Loose
    <2> QED BY <1>5, <2>1, <2>2 DEF Reserve, Live, Owns
  <1>6. ASSUME Stop(p, m) PROVE Moves(p, m)
    <2>1. /\ End(p, m)
          /\ \/ UNCHANGED row
             \/ /\ row[m].status = "pending"
                /\ Write(m, [job[p][m].snap EXCEPT !.retries = row[m].retries])
      BY <1>6 DEF Stop, Owns
    <2>2. job[p][m].snap \in GoodRow /\ job[p][m].snap.status = "pending"
      BY <1>1, <1>6 DEF Stop, JobInv, SnapInv, Job
    <2>3. [job[p][m].snap EXCEPT !.retries = row[m].retries].status = "pending"
      BY <2>2 DEF GoodRow, Row
    <2>4. Pending(m)
      BY <1>1, <2>1, <2>3 DEF Write, Pending
    <2> QED BY <2>1, <2>4, EndsJob, PendingPasses DEF Moves
  <1>7. ASSUME Settle(p, m) PROVE Moves(p, m)
    <2>1. CASE End(p, m) /\ UNCHANGED row
      BY <2>1, EndsJob, PendingPasses DEF Moves, Pending
    <2>2. ASSUME NEW s, row[m].status = "pending", Write(m, s), s.status = "failed",
                 s.state = "settlement_pending",
                 Do(p, m, [job[p][m] EXCEPT !.stage = "finalizing", !.snap = s])
          PROVE  Moves(p, m)
      <3>1. row'[m] = s
        BY <1>1, <2>2 DEF Write
      <3>2. job'[p][m].stage = "finalizing"
        BY <1>1, <2>2 DEF Do, Job
      <3> QED BY <2>2, <3>1, <3>2 DEF Moves, Passes, RowLife, Unfinished, Gone, Loose
    <2>3. \A r \in Row : Staged(r).status = "failed" /\ Staged(r).state = "settlement_pending"
      BY DEF Staged, Row
    <2>4. row[m] \in Row /\ \A c \in Nat \ {0} : ClaimedBy(row[m], c) \in Row
      BY <1>1, FreshRows DEF GoodRow
    <2>5. lastClaim + 1 \in Nat \ {0}
      BY DEF IInv, TypeOK
    <2> QED BY <1>7, <2>1, <2>2, <2>3, <2>4, <2>5 DEF Settle, Claimable, Owns
  <1>8. ASSUME Finalize(p, m) PROVE Moves(p, m)
    <2>1. CASE UNCHANGED row /\ End(p, m)
      BY <2>1, EndsJob, PendingPasses DEF Moves, Pending
    <2>2. CASE row[m] = job[p][m].snap /\ Write(m, Compacted(m)) /\ m \in told' /\ End(p, m)
      <3>1. row[m].status = "failed" /\ row'[m] = Compacted(m)
        BY <1>1, <1>8, <2>2 DEF Finalize, JobInv, Write
      <3>2. RowLife(row'[m]) = "ended"
        BY <3>1, EndedFields, CompactedState DEF RowLife, Unfinished
      <3>3. RowLife(row[m]) \in {"queued", "ended"} /\ ~Gone(m, row[m])
        BY <3>1 DEF RowLife, Unfinished, Gone
      <3> QED BY <2>2, <3>2, <3>3, EndsJob DEF Moves, Passes
    <2> QED BY <1>8, <2>1, <2>2 DEF Finalize, Tell
  <1> QED BY <1>2, <1>3, <1>4, <1>5, <1>6, <1>7, <1>8

\* A step of any kind, as one message sees it.
Goes(m) ==
    /\ \/ copies'[m] = copies[m]
       \/ copies'[m] = copies[m] + 1 /\ \E p \in Processes : job[p][m].stage = "flight"
    /\ told \subseteq told' /\ loose \subseteq loose'
    /\ \/ /\ Passes(m)
          /\ \A p \in Processes : Loose(job'[p][m]) => Loose(job[p][m])
       \/ \E p \in Processes : LetLoose(p, m)

\* Nothing happened to the message.
LEMMA StillGoes ==
    ASSUME NEW m \in Messages, row'[m] = row[m], copies'[m] = copies[m],
           \A p \in Processes : job'[p][m] = job[p][m],
           told \subseteq told', loose \subseteq loose'
    PROVE  Goes(m)
  BY DEF Goes, Passes, Gone

\* Every step of the queue moves every message as the promise allows.
LEMMA EveryMessageGoes ==
    ASSUME IInv, [Next]_vars, NEW m \in Messages
    PROVE  Goes(m)
  <1>1. ASSUME NEW p \in Processes, NEW n \in Messages, MessageStep(p, n)
        PROVE  Goes(m)
    <2>1. OnlyAt(p, n) /\ LandsAt(p, n)
      BY <1>1, OneMessageSteps
    <2>2. CASE m # n
      <3>1. row'[m] = row[m] /\ copies'[m] = copies[m]
            /\ \A q \in Processes : job'[q][m] = job[q][m]
            /\ told \subseteq told' /\ loose \subseteq loose'
        BY <2>1, <2>2 DEF OnlyAt
      <3> QED BY <3>1, StillGoes
    <2>3. CASE m = n
      <3>1. Moves(p, m)
        BY <1>1, <2>3, LiveMoves, SendMoves, RecoveryMoves DEF MessageStep, JobStep
      <3>2. \A q \in Processes \ {p} : job'[q][m] = job[q][m]
        BY <2>1, <2>3 DEF OnlyAt
      <3>3. told \subseteq told' /\ loose \subseteq loose'
        BY <2>1 DEF OnlyAt
      <3>4. \/ copies'[m] = copies[m]
            \/ copies'[m] = copies[m] + 1 /\ job[p][m].stage = "flight"
        BY <2>1, <2>3 DEF LandsAt
      <3>5. \/ /\ Passes(m)
               /\ \A q \in Processes : Loose(job'[q][m]) => Loose(job[q][m])
            \/ LetLoose(p, m)
        BY <3>1, <3>2 DEF Moves
      <3> QED BY <3>3, <3>4, <3>5 DEF Goes
    <2> QED BY <2>2, <2>3
  <1>2. ASSUME NEW n \in Messages, LeaseEnds(n) PROVE Goes(m)
    <2>1. row \in [Messages -> GoodRow]
      BY DEF IInv, TypeOK
    <2>2. /\ row' = [row EXCEPT ![n] = [row[n] EXCEPT !.leased = FALSE]]
          /\ job' = job /\ copies' = copies /\ told' = told /\ loose' = loose
      BY <1>2 DEF LeaseEnds, Write
    <2>3. row'[m].status = row[m].status /\ row'[m].state = row[m].state
      BY <2>1, <2>2 DEF GoodRow, Row
    <2> QED BY <2>2, <2>3 DEF Goes, Passes, RowLife, Unfinished, Gone
  <1>3. ASSUME NEW p \in Processes, Crash(p) PROVE Goes(m)
    <2>1. /\ row' = row /\ told' = told /\ loose' = loose
          /\ job' = [job EXCEPT ![p] = [n \in Messages |-> NoJob]]
      BY <1>3 DEF Crash
    <2>2. PICK landed \in SUBSET {n \in Messages : InFlight(p, n)} :
            copies' = [n \in Messages |-> copies[n] + (IF n \in landed THEN 1 ELSE 0)]
      BY <1>3 DEF Crash
    <2>3. \/ copies'[m] = copies[m]
          \/ copies'[m] = copies[m] + 1 /\ job[p][m].stage = "flight"
      BY <2>2 DEF InFlight, IInv, TypeOK
    <2>4. \A q \in Processes : Loose(job'[q][m]) => Loose(job[q][m])
      BY <2>1 DEF IInv, TypeOK, Loose, NoJob
    <2> QED BY <2>1, <2>3, <2>4 DEF Goes, Passes
  <1>4. CASE UNCHANGED vars
    BY <1>4, StillGoes DEF vars
  <1> QED BY <1>1, <1>2, <1>3, <1>4 DEF Next, MessageStep

----------------------------------------------------------------------------
(* Loss, and the promise *)

\* The row of a message with a sender without custody is gone for good, and
\* no row ends in silence.
LifeInv == IInv /\ LooseInv /\ NoSilentLoss

\* Every step keeps the rows of loose messages gone and ends no row in silence.
LEMMA LifeNext == LifeInv /\ [Next]_vars => LifeInv'
  <1> SUFFICES ASSUME LifeInv, [Next]_vars PROVE LifeInv'
    OBVIOUS
  <1>1. IInv /\ IInv'
    BY NextInv DEF LifeInv
  <1>2. ASSUME NEW m \in Messages, NEW p \in Processes, Loose(job'[p][m])
        PROVE  Gone(m, row'[m])
    <2>1. Goes(m)
      BY <1>1, EveryMessageGoes
    <2>2. CASE \E q \in Processes : LetLoose(q, m)
      BY <2>2 DEF LetLoose
    <2>3. CASE Passes(m) /\ Loose(job[p][m])
      <3>1. Gone(m, row[m])
        BY <2>3 DEF LifeInv, LooseInv
      <3> QED BY <2>3, <3>1 DEF Passes, Gone, RowLife, Unfinished
    <2> QED BY <1>2, <2>1, <2>2, <2>3 DEF Goes
  <1>3. LooseInv'
    BY <1>2 DEF LooseInv
  <1>4. ASSUME NEW m \in Messages, RowLife(row'[m]) = "ended"
        PROVE  copies'[m] > 0 \/ m \in told' \/ m \in loose'
    <2>1. Goes(m) /\ copies[m] \in Nat
      BY <1>1, EveryMessageGoes DEF IInv, TypeOK
    <2>2. (copies[m] > 0 => copies'[m] > 0) /\ told \subseteq told' /\ loose \subseteq loose'
      BY <2>1 DEF Goes
    <2>3. CASE \E q \in Processes : LetLoose(q, m)
      BY <2>3 DEF LetLoose
    <2>4. CASE Passes(m)
      <3>1. CASE RowLife(row[m]) = "ended"
        <4>1. row[m].status \in {"completed", "deleted", "failed"} /\ ~Unfinished(row[m])
          BY <1>1, <3>1, Facts DEF RowLife, Unfinished, IInv, TypeOK, GoodRow, Row
        <4> QED BY <2>2, <4>1 DEF LifeInv, NoSilentLoss
      <3>2. CASE RowLife(row[m]) # "ended"
        BY <1>4, <2>2, <2>4, <3>2 DEF Passes
      <3> QED BY <3>1, <3>2
    <2> QED BY <2>1, <2>3, <2>4 DEF Goes
  <1>5. NoSilentLoss'
    <2> SUFFICES ASSUME NEW m \in Messages,
                        row'[m].status \in {"completed", "deleted", "failed"},
                        ~Unfinished(row'[m])
                 PROVE  copies'[m] > 0 \/ m \in told' \/ m \in loose'
      BY DEF NoSilentLoss, Unfinished
    <2>1. RowLife(row'[m]) = "ended"
      BY DEF RowLife
    <2> QED BY <1>4, <2>1
  <1> QED BY <1>1, <1>3, <1>5 DEF LifeInv

\* LifeInv is an invariant of the queue.
LEMMA LifeInvariance == Spec => []LifeInv
  <1>1. Init => LifeInv
    BY InitInv DEF Init, LifeInv, LooseInv, NoSilentLoss, Loose, NoJob, Blank
  <1> QED BY <1>1, LifeNext, PTL DEF Spec

\* A message whose row has ended arrived, or its failure was told, or it had
\* been let loose as best effort (deliverOutboundPayloads, settleQueuedFailure).
THEOREM Delivery_NoSilentLoss == Spec => []NoSilentLoss
  <1>1. LifeInv => NoSilentLoss
    BY DEF LifeInv
  <1> QED BY <1>1, LifeInvariance, PTL

\* A message's life in terms of its row and its loose senders.
LEMMA LifeIs ==
    ASSUME NEW m
    PROVE  Life(m) = IF RowLife(row[m]) # "ended" THEN RowLife(row[m])
                     ELSE IF \E p \in Processes : Loose(job[p][m])
                     THEN "loose" ELSE "ended"
  BY DEF Life, RowLife, Loose

\* A row that is not gone has no loose sender.
LEMMA NotLoose ==
    ASSUME LifeInv, NEW m \in Messages, RowLife(row[m]) # "ended" \/ ~Gone(m, row[m])
    PROVE  \A p \in Processes : ~Loose(job[p][m])
  BY DEF LifeInv, LooseInv, Gone, RowLife, Unfinished

\* The same, after a step.
LEMMA LifeWillBe ==
    ASSUME NEW m \in Messages
    PROVE  Life(m)' = IF RowLife(row'[m]) # "ended" THEN RowLife(row'[m])
                      ELSE IF \E p \in Processes : Loose(job'[p][m])
                      THEN "loose" ELSE "ended"
  BY DEF Life, RowLife, Loose, Unfinished

\* Each step of the queue is a step of the promise, for each message.
LEMMA LifeSteps ==
    ASSUME LifeInv, LifeInv', NEW m \in Messages, Goes(m)
    PROVE  \/ Life(m)' = Life(m)
           \/ Life(m) = "new" /\ Life(m)' = "queued"
           \/ Life(m) = "queued" /\ Life(m)' = "loose" /\ m \notin Required /\ copies[m] = 0
           \/ Life(m) = "queued" /\ Life(m)' = "ended" /\ (copies[m] = 1 \/ m \in told')
           \/ Life(m) = "loose" /\ Life(m)' = "ended"
           \/ Life(m) = "ended" /\ Life(m)' = "queued" /\ m \in Stable /\ copies[m] = 0
  <1>1. /\ copies[m] \in Nat /\ copies[m] <= 1
        /\ copies[m] > 0 => (row[m].status = "deleted" => m \notin Stable)
    BY DEF LifeInv, IInv, TypeOK, MsgInv, RowInv
  <1>2. CASE \E p \in Processes : LetLoose(p, m)
    <2>1. PICK p \in Processes : LetLoose(p, m)
      BY <1>2
    <2>2. Life(m) = "queued" /\ Life(m)' = "loose"
      BY <2>1, LifeIs, LifeWillBe DEF LetLoose
    <2> QED BY <2>1, <2>2 DEF LetLoose
  <1>3. ASSUME Passes(m), \A p \in Processes : Loose(job'[p][m]) => Loose(job[p][m])
        PROVE  \/ Life(m)' = Life(m)
               \/ Life(m) = "new" /\ Life(m)' = "queued"
               \/ Life(m) = "queued" /\ Life(m)' = "ended" /\ (copies[m] = 1 \/ m \in told')
               \/ Life(m) = "loose" /\ Life(m)' = "ended"
               \/ Life(m) = "ended" /\ Life(m)' = "queued" /\ m \in Stable /\ copies[m] = 0
    <2>1. CASE RowLife(row'[m]) = RowLife(row[m])
      BY <1>3, <2>1, LifeIs, LifeWillBe
    <2>2. CASE RowLife(row[m]) = "new" /\ RowLife(row'[m]) = "queued"
      BY <2>2, LifeIs, LifeWillBe
    <2>3. CASE /\ RowLife(row[m]) = "queued" /\ RowLife(row'[m]) = "ended"
               /\ copies[m] > 0 \/ m \in told'
      <3>1. \A p \in Processes : ~Loose(job'[p][m])
        BY <1>3, <2>3, NotLoose
      <3>2. Life(m) = "queued" /\ Life(m)' = "ended"
        BY <2>3, <3>1, LifeIs, LifeWillBe
      <3> QED BY <1>1, <2>3, <3>2
    <2>4. CASE /\ RowLife(row[m]) = "ended" /\ RowLife(row'[m]) = "queued"
               /\ row[m].status = "deleted" /\ m \in Stable
      <3>1. \A p \in Processes : ~Loose(job[p][m])
        BY <2>4, NotLoose DEF Gone
      <3>2. Life(m) = "ended" /\ Life(m)' = "queued"
        BY <2>4, <3>1, LifeIs, LifeWillBe
      <3> QED BY <1>1, <2>4, <3>2
    <2> QED BY <1>3, <2>1, <2>2, <2>3, <2>4 DEF Passes
  <1> QED BY <1>2, <1>3 DEF Goes

\* A copy lands once, and only of a message that is queued or loose.
LEMMA CopySteps ==
    ASSUME LifeInv, LifeInv', NEW m \in Messages, Goes(m)
    PROVE  \/ copies'[m] = copies[m]
           \/ copies[m] = 0 /\ copies'[m] = 1 /\ Life(m) \in {"queued", "loose"}
  <1>1. /\ copies[m] \in Nat /\ copies'[m] <= 1
        /\ \A p \in Processes : JobInv(m, row[m], job[p][m], copies[m], lastClaim)
    BY DEF LifeInv, IInv, TypeOK, MsgInv, RowInv
  <1> SUFFICES ASSUME NEW p \in Processes, job[p][m].stage = "flight",
                      copies'[m] = copies[m] + 1
               PROVE  copies[m] = 0 /\ copies'[m] = 1 /\ Life(m) \in {"queued", "loose"}
    BY DEF Goes
  <1>2. copies[m] = 0 /\ copies'[m] = 1
    BY <1>1
  <1>3. CASE job[p][m].claim # 0
    <2>1. row[m].status = "pending"
      BY <1>1, <1>3 DEF JobInv, SenderInv, Has
    <2> QED BY <1>2, <2>1, LifeIs DEF RowLife, Unfinished
  <1>4. CASE job[p][m].claim = 0
    <2>1. Loose(job[p][m]) /\ Gone(m, row[m])
      BY <1>4 DEF LifeInv, LooseInv, Loose
    <2>2. RowLife(row[m]) = "ended"
      BY <2>1 DEF Gone, RowLife, Unfinished
    <2> QED BY <1>2, <2>1, <2>2, LifeIs
  <1> QED BY <1>3, <1>4

\* The queue, with its rows, leases, processes and crashes, keeps the promise
\* of DeliveryPromise: every step is a step of the promise or none.
THEOREM Delivery_KeepsPromise == Spec => KeepsPromise
  <1> DEFINE life == [m \in Messages |-> Life(m)]
  <1>1. Init => Promise!Init
    BY DEF Init, Promise!Init, Life, Blank
  <1>2. LifeInv /\ LifeInv' /\ [Next]_vars => [Promise!Next]_<<life, copies, told>>
    <2> SUFFICES ASSUME LifeInv, LifeInv', [Next]_vars PROVE Promise!Next
      OBVIOUS
    <2>1. \A m \in Messages : Goes(m)
      BY EveryMessageGoes DEF LifeInv
    <2>2. \A m \in Messages : Life(m)' \in Promise!Lives
      BY LifeWillBe DEF Promise!Lives, RowLife
    <2>3. life' \in [Messages -> Promise!Lives]
      BY <2>2
    <2>4. copies' \in [Messages -> {0, 1}]
      <3>1. copies' \in [Messages -> Nat] /\ \A m \in Messages : copies'[m] <= 1
        BY DEF LifeInv, IInv, TypeOK, MsgInv, RowInv
      <3> QED BY <3>1
    <2>5. told \subseteq told' /\ told' \subseteq Messages
      <3>2. told' \subseteq Messages
        BY DEF LifeInv, IInv, TypeOK
      <3>3. \A m \in Messages : m \in told => m \in told'
        BY <2>1 DEF Goes
      <3>4. told \subseteq Messages
        BY DEF LifeInv, IInv, TypeOK
      <3> QED BY <3>2, <3>3, <3>4
    <2>6. \A m \in Messages : Promise!LifeStep(m) /\ Promise!CopyStep(m)
      <3> SUFFICES ASSUME NEW m \in Messages
                   PROVE  Promise!LifeStep(m) /\ Promise!CopyStep(m)
        OBVIOUS
      <3>1. life[m] = Life(m) /\ life'[m] = Life(m)'
        OBVIOUS
      <3>2. Promise!LifeStep(m)
        BY <2>1, <3>1, LifeSteps DEF Promise!LifeStep
      <3>3. Promise!CopyStep(m)
        BY <2>1, <3>1, CopySteps DEF Promise!CopyStep
      <3> QED BY <3>2, <3>3
    <2> QED BY <2>3, <2>4, <2>5, <2>6 DEF Promise!Next
  <1> QED BY <1>1, <1>2, LifeInvariance, PTL DEF Spec, KeepsPromise, Promise!Spec


----------------------------------------------------------------------------
(* The retry budget: what was sent and what jobs may still send are covered *)
(* by the row's attempts, its live send, and the budgets of earlier rows    *)

\* How many sends a row accounts for; one that is over accounts for all.
CapOf(n) == IF n < MaxRetries THEN n ELSE MaxRetries
Cap(r) == IF r.status = "pending" THEN CapOf(Tries(r)) ELSE MaxRetries

\* What is not the row's: its live send, and the budgets of earlier rows.
Grant(m) == 1 + IF m \in Stable THEN (MaxRetries + 1) * spent["replay"] ELSE 0

\* A job that may still begin a send.
Unsent(j) == j.stage \in {"admitted", "held", "started", "cleared"}
Senders(m) == {p \in Processes : Unsent(job[p][m])}
Due(m) == sends[m] + Cardinality(Senders(m))

Looking(j) == j.stage \in {"scanned", "proved", "reserving"}
Retrying(r, j) == j.kind = "recovery" /\ Unsent(j) /\ Has(r, j.claim)

\* The row that recovery gives back (Stop) accounts for every send but the
\* job's own, which is not begun.
JobBudget(p, r, j, d, g) ==
    /\ j.kind = "recovery" \/ Looking(j) => p \in Recoverers
    /\ Looking(j) => r.attempts <= j.snap.attempts
    /\ Retrying(r, j) => d <= CapOf(Larger(j.snap.attempts, r.retries)) + g + 1

\* What was sent and what may be sent is in the budget.
MsgBudget(r, d, g) ==
    /\ r.status = "new" => d = 0
    /\ d <= Cap(r) + g

BudgetOf(m) ==
    /\ IsFiniteSet(Senders(m))
    /\ MsgBudget(row[m], Due(m), Grant(m))
    /\ \A p \in Processes : JobBudget(p, row[m], job[p][m], Due(m), Grant(m))

BudgetInv == \A m \in Messages : BudgetOf(m)

\* A row that is worked on, taken over or ended: no attempt is forgotten.
Grows(r, r2) ==
    /\ r2.status = "pending" =>
          r.status = "pending" /\ r.retries <= r2.retries /\ r2.attempts = r.attempts
    /\ r2.attempts <= r.attempts
    /\ r2.status = "new" => r.status = "new"
    /\ r2.claim \in {0, r.claim} \/ r2.claim = lastClaim + 1

\* A job that gains nothing by a step.
Inherits(p, r, j, r2, j2) ==
    /\ Unsent(j2) => Unsent(j)
    /\ j2.kind = "recovery" \/ Looking(j2)
          => j.kind = "recovery" \/ Looking(j) \/ p \in Recoverers
    /\ Looking(j2) => (Looking(j) /\ j2.snap = j.snap) \/ j2.snap = r
    /\ Retrying(r2, j2) => Retrying(r, j) /\ j2.snap = j.snap

\* A step that takes nothing from a message's budget.
Frugal(m) ==
    /\ Grows(row[m], row'[m]) /\ sends'[m] = sends[m]
    /\ \A p \in Processes : Inherits(p, row[m], job[p][m], row'[m], job'[p][m])

\* A row that grows accounts for no less.
LEMMA CapFacts ==
    ASSUME NEW r \in Row, NEW r2 \in Row
    PROVE  /\ Cap(r) \in Nat /\ Cap(r) <= MaxRetries
           /\ Tries(r) \in Nat
           /\ r.status # "pending" => Cap(r) = MaxRetries
           /\ Grows(r, r2) => Cap(r) <= Cap(r2)
  <1>1. MaxRetries \in Nat
    BY DeliveryAssumption
  <1> QED BY <1>1, RowFields DEF Cap, CapOf, Tries, Larger, Grows

\* The cap is monotone.
LEMMA CapOfFacts ==
    ASSUME NEW a \in Nat, NEW b \in Nat
    PROVE  /\ CapOf(Larger(a, b)) \in Nat
           /\ CapOf(Larger(a, b)) = CapOf(Larger(b, a))
           /\ \A c \in Nat : b <= c => CapOf(Larger(a, b)) <= CapOf(Larger(a, c))
  <1>1. MaxRetries \in Nat
    BY DeliveryAssumption
  <1> QED BY <1>1 DEF CapOf, Larger

\* The budget in closed form.
LEMMA GrantFacts ==
    ASSUME TypeOK, NEW m \in Messages
    PROVE  /\ Grant(m) \in Nat /\ Grant(m) >= 1
           /\ m \in Stable => MaxRetries + Grant(m) = (MaxRetries + 1) * (1 + spent["replay"])
           /\ m \notin Stable => Grant(m) = 1
  <1>1. MaxRetries \in Nat /\ spent["replay"] \in Nat
    BY DeliveryAssumption DEF TypeOK
  <1>2. \A a, b \in Nat : a * b \in Nat /\ a * (1 + b) = a + a * b
    OBVIOUS
  <1>3. /\ (MaxRetries + 1) * spent["replay"] \in Nat
        /\ (MaxRetries + 1) * (1 + spent["replay"])
              = (MaxRetries + 1) + (MaxRetries + 1) * spent["replay"]
    BY <1>1, <1>2
  <1> DEFINE x == (MaxRetries + 1) * spent["replay"]
             y == (MaxRetries + 1) * (1 + spent["replay"])
  <1>4. x \in Nat /\ y = MaxRetries + 1 + x /\ Grant(m) = 1 + (IF m \in Stable THEN x ELSE 0)
    BY <1>1, <1>3 DEF Grant
  <1> HIDE DEF x
  <1> QED BY <1>1, <1>4

\* Replays add a budget each; nothing takes one away.
LEMMA GrantSteps ==
    ASSUME TypeOK, NEW m \in Messages
    PROVE  /\ spent'["replay"] = spent["replay"] => Grant(m)' = Grant(m)
           /\ spent'["replay"] = spent["replay"] + 1 =>
                 Grant(m)' = Grant(m) + (IF m \in Stable THEN MaxRetries + 1 ELSE 0)
  <1>1. MaxRetries \in Nat /\ spent["replay"] \in Nat
    BY DeliveryAssumption DEF TypeOK
  <1>2. \A a, b \in Nat : a * b \in Nat /\ a * (b + 1) = a * b + a
    OBVIOUS
  <1>3. (MaxRetries + 1) * (spent["replay"] + 1)
           = (MaxRetries + 1) * spent["replay"] + (MaxRetries + 1)
        /\ (MaxRetries + 1) * spent["replay"] \in Nat
    BY <1>1, <1>2
  <1> DEFINE x == (MaxRetries + 1) * spent["replay"]
             y == (MaxRetries + 1) * spent'["replay"]
  <1>4. /\ Grant(m) = 1 + (IF m \in Stable THEN x ELSE 0)
        /\ Grant(m)' = 1 + (IF m \in Stable THEN y ELSE 0)
    BY DEF Grant
  <1>5. spent'["replay"] = spent["replay"] => y = x
    OBVIOUS
  <1>6. spent'["replay"] = spent["replay"] + 1 => y = x + (MaxRetries + 1)
    BY <1>3
  <1>7. x \in Nat
    BY <1>3
  <1> HIDE DEF x, y
  <1> QED BY <1>1, <1>4, <1>5, <1>6, <1>7

\* A step uses one environment event at most.
LEMMA SpentSteps ==
    ASSUME TypeOK, [Next]_vars
    PROVE  spent'["replay"] \in {spent["replay"], spent["replay"] + 1}
  <1>1. spent \in [{"crash", "stall", "fault", "replay"} -> Nat]
    BY DEF TypeOK
  <1>2. ASSUME NEW what \in {"crash", "stall", "fault", "replay"},
               UNCHANGED spent \/ spent' = [spent EXCEPT ![what] = @ + 1]
        PROVE  spent'["replay"] \in {spent["replay"], spent["replay"] + 1}
    BY <1>1, <1>2
  <1>3. ASSUME NEW p \in Processes, NEW m \in Messages, JobStep(p, m)
        PROVE  \/ UNCHANGED spent \/ spent' = [spent EXCEPT !["fault"] = @ + 1]
               \/ spent' = [spent EXCEPT !["crash"] = @ + 1]
    BY <1>3 DEF JobStep, BeginLive, PreSend, PreSendFails, MarkDispatch, DispatchFails, Send,
       Arrive, RecordResult, RecordFails, Ack, AckFails, AnswerVague, AnswerError,
       AnswerNotSent, AnswerRejected, AnswerLoose, LeaseLost, Reconcile, Claim, Reserve,
       Stop, Settle, Finalize, Quiet, Spend
  <1>4. ASSUME NEW p \in Processes, NEW m \in Messages,
               Submit(p, m) \/ Resubmit(p, m) \/ Scan(p, m) \/ Cancel(p, m)
        PROVE  UNCHANGED spent \/ spent' = [spent EXCEPT !["replay"] = @ + 1]
    BY <1>4 DEF Submit, Resubmit, Scan, Cancel, Quiet, Spend
  <1>5. ASSUME (\E m \in Messages : LeaseEnds(m)) \/ (\E p \in Processes : Crash(p))
        PROVE  \/ UNCHANGED spent \/ spent' = [spent EXCEPT !["stall"] = @ + 1]
               \/ spent' = [spent EXCEPT !["crash"] = @ + 1]
    BY <1>5 DEF LeaseEnds, Crash, Spend
  <1>6. CASE UNCHANGED vars
    BY <1>6 DEF vars
  <1> QED BY <1>2, <1>3, <1>4, <1>5, <1>6 DEF Next

\* No step takes anything from the grant.
LEMMA GrantGrows ==
    ASSUME TypeOK, [Next]_vars, NEW m \in Messages
    PROVE  Grant(m) \in Nat /\ Grant(m)' \in Nat /\ Grant(m) <= Grant(m)' /\ Grant(m)' >= 1
  <1>1. MaxRetries \in Nat
    BY DeliveryAssumption
  <1> QED BY <1>1, GrantFacts, GrantSteps, SpentSteps

\* A job that gains nothing keeps its budget.
LEMMA HeirKeeps ==
    ASSUME NEW p, NEW r \in GoodRow, NEW r2 \in GoodRow, NEW j \in Job, NEW j2 \in Job,
           NEW d \in Nat, NEW d2 \in Nat, NEW g \in Nat, NEW g2 \in Nat,
           Grows(r, r2), Inherits(p, r, j, r2, j2), JobBudget(p, r, j, d, g),
           d2 <= d, g <= g2
    PROVE  JobBudget(p, r2, j2, d2, g2)
  <1>1. r \in Row /\ r2 \in Row /\ j.snap \in Row
    BY DEF GoodRow, Job
  <1>2. j2.kind = "recovery" \/ Looking(j2) => p \in Recoverers
    BY DEF JobBudget, Inherits
  <1>3. Looking(j2) => r2.attempts <= j2.snap.attempts
    <2>1. r2.attempts <= r.attempts /\ r.attempts \in Nat
          /\ r2.attempts \in Nat /\ j.snap.attempts \in Nat
      BY <1>1, RowFields DEF Grows
    <2> QED BY <2>1 DEF JobBudget, Inherits
  <1>4. Retrying(r2, j2) => d2 <= CapOf(Larger(j2.snap.attempts, r2.retries)) + g2 + 1
    <2> SUFFICES ASSUME Retrying(r2, j2)
                 PROVE  d2 <= CapOf(Larger(j2.snap.attempts, r2.retries)) + g2 + 1
      OBVIOUS
    <2>1. j2.snap = j.snap /\ d <= CapOf(Larger(j.snap.attempts, r.retries)) + g + 1
      BY DEF JobBudget, Inherits
    <2>2. r.retries <= r2.retries
      BY DEF Retrying, Has, Grows
    <2>3. j.snap.attempts \in Nat /\ r.retries \in Nat /\ r2.retries \in Nat
      BY <1>1, RowFields
    <2>4. /\ CapOf(Larger(j.snap.attempts, r.retries)) \in Nat
          /\ CapOf(Larger(j.snap.attempts, r2.retries)) \in Nat
          /\ CapOf(Larger(j.snap.attempts, r.retries))
                <= CapOf(Larger(j.snap.attempts, r2.retries))
      BY <2>2, <2>3, CapOfFacts
    <2> QED BY <2>1, <2>4
  <1> QED BY <1>2, <1>3, <1>4 DEF JobBudget

\* A row that grows keeps its budget.
LEMMA RowKeeps ==
    ASSUME NEW r \in GoodRow, NEW r2 \in GoodRow,
           NEW d \in Nat, NEW d2 \in Nat, NEW g \in Nat, NEW g2 \in Nat,
           Grows(r, r2), MsgBudget(r, d, g), d2 <= d, g <= g2
    PROVE  MsgBudget(r2, d2, g2)
  <1>1. Cap(r) <= Cap(r2) /\ Cap(r) \in Nat /\ Cap(r2) \in Nat
    BY CapFacts DEF GoodRow
  <1> QED BY <1>1 DEF MsgBudget, Grows

\* A job that has nothing to do with what a step changes.
LEMMA Bystander ==
    ASSUME NEW p, NEW r, NEW j, NEW r2, NEW d, NEW g, NEW d2, NEW g2,
           JobBudget(p, r, j, d, g), ~Retrying(r2, j),
           Looking(j) => r2.attempts <= j.snap.attempts
    PROVE  JobBudget(p, r2, j, d2, g2)
  BY DEF JobBudget

\* The senders of a message after a step.
LEMMA SendersWillBe ==
    ASSUME NEW m \in Messages
    PROVE  /\ Senders(m)' = {p \in Processes : Unsent(job'[p][m])}
           /\ Due(m)' = sends'[m] + Cardinality(Senders(m)')
           /\ IsFiniteSet(Senders(m))' = IsFiniteSet(Senders(m)')
  BY DEF Senders, Unsent, Due

\* Nobody joins the senders.
LEMMA DueDrops ==
    ASSUME NEW m \in Messages, IsFiniteSet(Senders(m)),
           sends[m] \in Nat, sends'[m] = sends[m],
           \A p \in Processes : Unsent(job'[p][m]) => Unsent(job[p][m])
    PROVE  IsFiniteSet(Senders(m))' /\ Due(m) \in Nat /\ Due(m)' \in Nat /\ Due(m)' <= Due(m)
  <1>1. Senders(m)' \subseteq Senders(m)
    BY SendersWillBe DEF Senders
  <1> PICK U, U2 : U = Senders(m) /\ U2 = Senders(m)'
    OBVIOUS
  <1>2. /\ IsFiniteSet(U2) /\ Cardinality(U2) \in Nat /\ Cardinality(U) \in Nat
        /\ Cardinality(U2) <= Cardinality(U)
    BY <1>1, FS_Subset, FS_CardinalityType
  <1>3. Due(m) = sends[m] + Cardinality(U) /\ Due(m)' = sends[m] + Cardinality(U2)
    BY SendersWillBe DEF Due
  <1> QED BY <1>2, <1>3, SendersWillBe

\* One sender less.
LEMMA SenderLeaves ==
    ASSUME NEW m \in Messages, NEW p \in Processes, IsFiniteSet(Senders(m)),
           Unsent(job[p][m]), ~Unsent(job'[p][m]),
           \A q \in Processes \ {p} : job'[q][m] = job[q][m]
    PROVE  /\ IsFiniteSet(Senders(m))' /\ Cardinality(Senders(m)) \in Nat
           /\ Cardinality(Senders(m)') \in Nat
           /\ Cardinality(Senders(m)') = Cardinality(Senders(m)) - 1
  <1>1. Senders(m)' = Senders(m) \ {p} /\ p \in Senders(m)
    BY SendersWillBe DEF Senders
  <1> PICK U, U2 : U = Senders(m) /\ U2 = Senders(m)'
    OBVIOUS
  <1>2. U2 = U \ {p} /\ p \in U /\ IsFiniteSet(U)
    BY <1>1
  <1>3. IsFiniteSet(U2) /\ Cardinality(U2) = Cardinality(U) - 1
    BY <1>2, FS_RemoveElement
  <1>4. Cardinality(U) \in Nat /\ Cardinality(U2) \in Nat
    BY <1>2, <1>3, FS_CardinalityType
  <1> QED BY <1>3, <1>4, SendersWillBe

\* One sender more.
LEMMA SenderJoins ==
    ASSUME NEW m \in Messages, NEW p \in Processes, IsFiniteSet(Senders(m)),
           ~Unsent(job[p][m]), Unsent(job'[p][m]),
           \A q \in Processes \ {p} : job'[q][m] = job[q][m]
    PROVE  /\ IsFiniteSet(Senders(m))' /\ Cardinality(Senders(m)) \in Nat
           /\ Cardinality(Senders(m)') \in Nat
           /\ Cardinality(Senders(m)') = Cardinality(Senders(m)) + 1
  <1>1. Senders(m)' = Senders(m) \cup {p} /\ p \notin Senders(m)
    BY SendersWillBe DEF Senders
  <1> PICK U, U2 : U = Senders(m) /\ U2 = Senders(m)'
    OBVIOUS
  <1>2. U2 = U \cup {p} /\ p \notin U /\ IsFiniteSet(U)
    BY <1>1
  <1>3. IsFiniteSet(U2) /\ Cardinality(U2) = Cardinality(U) + 1
    <2>1. /\ IsFiniteSet(U \cup {p})
          /\ Cardinality(U \cup {p}) = IF p \in U THEN Cardinality(U) ELSE Cardinality(U) + 1
      BY <1>2, FS_AddElement, Zenon
    <2> QED BY <1>2, <2>1, Zenon
  <1>4. Cardinality(U) \in Nat /\ Cardinality(U2) \in Nat
    BY <1>2, <1>3, FS_CardinalityType
  <1> QED BY <1>3, <1>4, SendersWillBe

\* A frugal step keeps the budget of the message.
LEMMA FrugalKeeps ==
    ASSUME TypeOK, TypeOK', [Next]_vars, NEW m \in Messages, Frugal(m), BudgetOf(m)
    PROVE  BudgetOf(m)'
  <1>1. row[m] \in GoodRow /\ row'[m] \in GoodRow /\ sends[m] \in Nat
        /\ \A p \in Processes : job[p][m] \in Job /\ job'[p][m] \in Job
    BY DEF TypeOK
  <1>2. /\ IsFiniteSet(Senders(m))' /\ Due(m) \in Nat /\ Due(m)' \in Nat
        /\ Due(m)' <= Due(m)
    BY <1>1, DueDrops DEF Frugal, Inherits, BudgetOf
  <1>3. Grant(m) \in Nat /\ Grant(m)' \in Nat /\ Grant(m) <= Grant(m)'
    BY GrantGrows
  <1> PICK d, d2, g, g2 : d = Due(m) /\ d2 = Due(m)' /\ g = Grant(m) /\ g2 = Grant(m)'
    OBVIOUS
  <1>4. d \in Nat /\ d2 \in Nat /\ g \in Nat /\ g2 \in Nat /\ d2 <= d /\ g <= g2
    BY <1>2, <1>3
  <1>5. MsgBudget(row[m], d, g) /\ \A p \in Processes : JobBudget(p, row[m], job[p][m], d, g)
    BY DEF BudgetOf
  <1>6. MsgBudget(row'[m], d2, g2)
    BY <1>1, <1>4, <1>5, RowKeeps DEF Frugal
  <1>7. ASSUME NEW p \in Processes PROVE JobBudget(p, row'[m], job'[p][m], d2, g2)
    BY <1>1, <1>4, <1>5, HeirKeeps DEF Frugal
  <1> QED BY <1>2, <1>6, <1>7 DEF BudgetOf

\* Every operator of the module that changes a row lets it grow.
LEMMA RowsGrow ==
    ASSUME NEW r \in GoodRow, NEW m
    PROVE  /\ Grows(r, r)
           /\ Grows(r, Promoted(r)) /\ Grows(r, Dispatched(r)) /\ Grows(r, OutcomeUnknown(r))
           /\ Grows(r, Staged(r))
           /\ Grows(r, Failed(r)) /\ Grows(r, FailedBeforeSend(r)) /\ Grows(r, FailedAfterSend(r))
           /\ Grows(r, Acked(m, r)) /\ Grows(r, Removed) /\ Grows(r, Compacted(m))
           /\ Grows(r, ClaimedBy(r, lastClaim + 1))
           /\ Grows(r, Staged(ClaimedBy(r, lastClaim + 1)))
  <1>1. r \in Row
    BY DEF GoodRow
  <1>2. r.retries \in Nat /\ r.attempts \in Nat
    BY <1>1, RowFields
  <1>3. Grows(r, r)
    BY <1>1, <1>2 DEF Grows, Row
  <1>4. Grows(r, Promoted(r)) /\ Grows(r, Dispatched(r)) /\ Grows(r, OutcomeUnknown(r))
        /\ Grows(r, Staged(r))
    BY <1>1, <1>2 DEF Grows, Row, Promoted, Dispatched, OutcomeUnknown, Staged
  <1>5. Grows(r, Failed(r)) /\ Grows(r, FailedBeforeSend(r)) /\ Grows(r, FailedAfterSend(r))
    BY <1>1, <1>2 DEF Grows, Row, Failed, FailedBeforeSend, FailedAfterSend
  <1>6. Grows(r, Acked(m, r)) /\ Grows(r, Removed) /\ Grows(r, Compacted(m))
    BY <1>1, <1>2 DEF Grows, Row, Acked, Removed, Compacted, Blank
  <1>7. Grows(r, ClaimedBy(r, lastClaim + 1)) /\ Grows(r, Staged(ClaimedBy(r, lastClaim + 1)))
    BY <1>1, <1>2 DEF Grows, Row, ClaimedBy, Staged
  <1> QED BY <1>3, <1>4, <1>5, <1>6, <1>7

\* Jobs that are past sending or looking have nothing to lose.
LEMMA PastInherits ==
    ASSUME NEW p, NEW r, NEW j, NEW r2, NEW j2,
           j2.stage \in {"idle", "flight", "arrived", "recorded", "settling", "finalizing"},
           j2.kind = "recovery" => j.kind = "recovery" \/ p \in Recoverers
    PROVE  Inherits(p, r, j, r2, j2)
  BY DEF Inherits, Unsent, Looking, Retrying

\* Jobs that go on with their claim, or stay as they are.
LEMMA SameInherits ==
    ASSUME NEW p, NEW r, NEW j, NEW r2, NEW j2,
           j2.kind = j.kind, j2.claim = j.claim, j2.snap = j.snap,
           Has(r2, j.claim) => Has(r, j.claim),
           j2.stage = j.stage \/ (Unsent(j) /\ Unsent(j2))
    PROVE  Inherits(p, r, j, r2, j2)
  BY DEF Inherits, Unsent, Looking, Retrying, Has

\* A row that grows is nobody else's.
LEMMA GrowsHas ==
    ASSUME TypeOK, NEW r, NEW r2, NEW c \in Nat, Grows(r, r2), c <= lastClaim, Has(r2, c)
    PROVE  Has(r, c)
  BY DEF Grows, Has, TypeOK

\* A step of one job is frugal when the row grows and the job gains nothing.
LEMMA FrugalStep ==
    ASSUME IInv, NEW p \in Processes, NEW m \in Messages, OnlyAt(p, m),
           Grows(row[m], row'[m]), sends'[m] = sends[m],
           Inherits(p, row[m], job[p][m], row'[m], job'[p][m])
    PROVE  Frugal(m)
  <1>1. ASSUME NEW q \in Processes \ {p}
        PROVE  Inherits(q, row[m], job[q][m], row'[m], job'[q][m])
    <2>1. job'[q][m] = job[q][m] /\ job[q][m].claim <= lastClaim /\ job[q][m].claim \in Nat
      BY Facts DEF OnlyAt, JobInv, Job
    <2>2. Has(row'[m], job[q][m].claim) => Has(row[m], job[q][m].claim)
      BY <2>1, GrowsHas DEF IInv
    <2> QED BY <2>1, <2>2, SameInherits
  <1> QED BY <1>1 DEF Frugal

\* A step that leaves the row alone, or ends jobs, is frugal.
LEMMA StillFrugal ==
    ASSUME IInv, NEW m \in Messages, row'[m] = row[m], sends'[m] = sends[m],
           \A p \in Processes : job'[p][m] = job[p][m] \/ job'[p][m] = NoJob
    PROVE  Frugal(m)
  <1>1. Grows(row[m], row'[m])
    BY RowsGrow DEF IInv, TypeOK
  <1>2. ASSUME NEW p \in Processes
        PROVE  Inherits(p, row[m], job[p][m], row'[m], job'[p][m])
    <2>1. NoJob.stage = "idle" /\ NoJob.kind = "live"
      BY DEF NoJob
    <2> QED BY <2>1, PastInherits, SameInherits
  <1> QED BY <1>1, <1>2 DEF Frugal

\* What a job that ends, or goes on at a stage, inherits.
LEMMA EndInherits ==
    ASSUME IInv, NEW p \in Processes, NEW m \in Messages, End(p, m)
    PROVE  Inherits(p, row[m], job[p][m], row'[m], job'[p][m])
  <1>1. job'[p][m] = NoJob /\ NoJob.stage = "idle" /\ NoJob.kind = "live"
    BY EndsJob DEF NoJob
  <1> QED BY <1>1, PastInherits

\* A job that goes on to another stage.
LEMMA AtFields ==
    ASSUME IInv, NEW p \in Processes, NEW m \in Messages, NEW s, At(p, m, s)
    PROVE  /\ job'[p][m].stage = s /\ job'[p][m].claim = job[p][m].claim
           /\ job'[p][m].kind = job[p][m].kind /\ job'[p][m].snap = job[p][m].snap
  BY DEF IInv, TypeOK, At, Do, Job

\* It gains nothing by it.
LEMMA AtInherits ==
    ASSUME IInv, NEW p \in Processes, NEW m \in Messages, NEW s, At(p, m, s),
           Grows(row[m], row'[m]),
           \/ s \in {"flight", "arrived", "recorded", "settling", "finalizing"}
           \/ job[p][m].stage \in {"admitted", "held", "started"}
              /\ s \in {"held", "started", "cleared"}
    PROVE  Inherits(p, row[m], job[p][m], row'[m], job'[p][m])
  <1>1. /\ job'[p][m].stage = s /\ job'[p][m].claim = job[p][m].claim
        /\ job'[p][m].kind = job[p][m].kind /\ job'[p][m].snap = job[p][m].snap
    BY AtFields
  <1>2. /\ job[p][m].claim <= lastClaim /\ job[p][m].claim \in Nat
    BY Facts DEF JobInv, Job
  <1>3. Has(row'[m], job[p][m].claim) => Has(row[m], job[p][m].claim)
    BY <1>2, GrowsHas DEF IInv
  <1> QED BY <1>1, <1>2, <1>3, PastInherits, SameInherits DEF Unsent

\* The owner's writes.
LEMMA OwnerGrows ==
    ASSUME IInv, NEW m \in Messages, NEW c, NEW r,
           WriteOwned(m, c, r), Grows(row[m], r)
    PROVE  Grows(row[m], row'[m])
  BY WrittenByOwner, RowsGrow DEF IInv, TypeOK

\* The live sender works on the row it has.
LEMMA LiveFrugal ==
    ASSUME IInv, NEW p \in Processes, NEW m \in Messages, OnlyAt(p, m)
    PROVE  /\ BeginLive(p, m) => Frugal(m)
           /\ PreSend(p, m) => Frugal(m)
           /\ PreSendFails(p, m) => Frugal(m)
           /\ MarkDispatch(p, m) => Frugal(m)
           /\ DispatchFails(p, m) => Frugal(m)
           /\ Cancel(p, m) => Frugal(m)
           /\ LeaseLost(p, m) => Frugal(m)
  <1>1. row \in [Messages -> GoodRow] /\ row[m] \in GoodRow /\ job[p][m] \in Job
        /\ JobInv(m, row[m], job[p][m], copies[m], lastClaim)
        /\ job \in [Processes -> [Messages -> Job]]
    BY Facts DEF IInv, TypeOK
  <1>2. ASSUME BeginLive(p, m) PROVE Frugal(m)
    <2>1. /\ row'[m] = row[m] /\ sends'[m] = sends[m] /\ Grows(row[m], row'[m])
          /\ job[p][m].stage = "admitted" /\ At(p, m, "held")
      BY <1>1, <1>2, RowsGrow DEF BeginLive, Quiet
    <2> QED BY <2>1, AtInherits, FrugalStep
  <1>3. ASSUME PreSend(p, m) PROVE Frugal(m)
    <2>1. /\ row'[m] = Promoted(row[m]) /\ sends'[m] = sends[m]
          /\ job[p][m].stage = "held" /\ At(p, m, "started")
      BY <1>1, <1>3 DEF PreSend, Quiet, Write
    <2>2. Grows(row[m], row'[m])
      BY <1>1, <2>1, RowsGrow
    <2> QED BY <2>1, <2>2, AtInherits, FrugalStep
  <1>4. ASSUME PreSendFails(p, m) PROVE Frugal(m)
    <2>1. sends'[m] = sends[m] /\ job[p][m].stage = "held" /\ Owns(m, job[p][m].claim)
          /\ job[p][m].claim # 0
      BY <1>1, <1>4 DEF PreSendFails, JobInv
    <2>2. CASE m \in Required
      <3>1. End(p, m) /\ row'[m] = Failed(row[m])
        BY <1>1, <1>4, <2>2 DEF PreSendFails, Write
      <3>2. Grows(row[m], row'[m])
        BY <1>1, <3>1, RowsGrow
      <3> QED BY <2>1, <3>1, <3>2, EndInherits, FrugalStep
    <2>3. CASE m \notin Required
      <3>1. row'[m] = Acked(m, row[m])
            /\ job' = [job EXCEPT ![p][m] = [job[p][m] EXCEPT !.stage = "cleared", !.claim = 0]]
        BY <1>1, <1>4, <2>3 DEF PreSendFails, Write, Do
      <3>2. Grows(row[m], row'[m])
        BY <1>1, <3>1, RowsGrow
      <3>3. job'[p][m] = [job[p][m] EXCEPT !.stage = "cleared", !.claim = 0]
        BY <1>1, <3>1
      <3>4. /\ job'[p][m].stage = "cleared" /\ job'[p][m].claim = 0
            /\ job'[p][m].kind = job[p][m].kind
        BY <1>1, <3>3 DEF Job
      <3>5. Inherits(p, row[m], job[p][m], row'[m], job'[p][m])
        BY <2>1, <3>4 DEF Inherits, Unsent, Looking, Retrying, Has
      <3> QED BY <2>1, <3>2, <3>5, FrugalStep
    <2> QED BY <2>2, <2>3
  <1>5. ASSUME MarkDispatch(p, m) PROVE Frugal(m)
    <2>1. /\ row'[m] = Dispatched(row[m]) /\ sends'[m] = sends[m]
          /\ job[p][m].stage \in {"held", "started"} /\ At(p, m, "cleared")
      BY <1>1, <1>5 DEF MarkDispatch, Quiet, Write
    <2>2. Grows(row[m], row'[m])
      BY <1>1, <2>1, RowsGrow
    <2> QED BY <2>1, <2>2, AtInherits, FrugalStep
  <1>6. ASSUME DispatchFails(p, m) \/ Cancel(p, m) \/ LeaseLost(p, m) PROVE Frugal(m)
    <2>1. /\ End(p, m) /\ sends'[m] = sends[m]
          /\ \/ UNCHANGED row
             \/ WriteOwned(m, job[p][m].claim, Failed(row[m]))
             \/ WriteOwned(m, job[p][m].claim, Removed)
             \/ WriteOwned(m, job[p][m].claim, FailedAfterSend(row[m]))
      BY <1>6 DEF DispatchFails, Cancel, LeaseLost
    <2>2. Grows(row[m], row'[m])
      BY <1>1, <2>1, OwnerGrows, RowsGrow
    <2> QED BY <2>1, <2>2, EndInherits, FrugalStep
  <1> QED BY <1>2, <1>3, <1>4, <1>5, <1>6

\* Answers to a send take nothing from the budget.
LEMMA SendFrugal ==
    ASSUME IInv, NEW p \in Processes, NEW m \in Messages, OnlyAt(p, m)
    PROVE  /\ Arrive(p, m) => Frugal(m)
           /\ RecordResult(p, m) => Frugal(m)
           /\ RecordFails(p, m) => Frugal(m)
           /\ Ack(p, m) => Frugal(m)
           /\ AckFails(p, m) => Frugal(m)
           /\ AnswerVague(p, m) => Frugal(m)
           /\ AnswerError(p, m) => Frugal(m)
           /\ AnswerNotSent(p, m) => Frugal(m)
           /\ AnswerRejected(p, m) => Frugal(m)
           /\ AnswerLoose(p, m) => Frugal(m)
  <1>1. row \in [Messages -> GoodRow] /\ row[m] \in GoodRow /\ job[p][m] \in Job
        /\ JobInv(m, row[m], job[p][m], copies[m], lastClaim)
        /\ job \in [Processes -> [Messages -> Job]]
    BY Facts DEF IInv, TypeOK
  <1>2. ASSUME Arrive(p, m) PROVE Frugal(m)
    <2>1. row'[m] = row[m] /\ sends'[m] = sends[m] /\ At(p, m, "arrived")
      BY <1>2 DEF Arrive
    <2>2. Grows(row[m], row'[m])
      BY <1>1, <2>1, RowsGrow
    <2> QED BY <2>1, <2>2, AtInherits, FrugalStep
  <1>3. ASSUME RecordResult(p, m) PROVE Frugal(m)
    <2>1. sends'[m] = sends[m]
      BY <1>3 DEF RecordResult, Quiet
    <2>2. CASE Write(m, OutcomeUnknown(row[m])) /\ At(p, m, "recorded")
      <3>1. Grows(row[m], row'[m])
        BY <1>1, <2>2, RowsGrow DEF Write
      <3> QED BY <2>1, <2>2, <3>1, AtInherits, FrugalStep
    <2>3. CASE UNCHANGED row /\ End(p, m)
      <3>1. Grows(row[m], row'[m])
        BY <1>1, <2>3, RowsGrow
      <3> QED BY <2>1, <2>3, <3>1, EndInherits, FrugalStep
    <2> QED BY <1>3, <2>2, <2>3 DEF RecordResult
  <1>4. ASSUME RecordFails(p, m) \/ Ack(p, m) \/ AckFails(p, m) \/ AnswerVague(p, m)
               \/ AnswerError(p, m) \/ AnswerNotSent(p, m) \/ AnswerLoose(p, m)
        PROVE  Frugal(m)
    <2>1. /\ End(p, m) /\ sends'[m] = sends[m]
          /\ \/ UNCHANGED row
             \/ WriteOwned(m, job[p][m].claim, Failed(row[m]))
             \/ WriteOwned(m, job[p][m].claim, FailedBeforeSend(row[m]))
             \/ WriteOwned(m, job[p][m].claim, FailedAfterSend(row[m]))
             \/ WriteOwned(m, job[p][m].claim, OutcomeUnknown(row[m]))
             \/ WriteOwned(m, job[p][m].claim, Acked(m, row[m]))
             \/ WriteOwned(m, job[p][m].claim, Compacted(m))
      BY <1>4 DEF RecordFails, Ack, AckFails, AnswerVague, AnswerError, AnswerNotSent,
         AnswerLoose, Quiet
    <2>2. Grows(row[m], row'[m])
      BY <1>1, <2>1, OwnerGrows, RowsGrow
    <2> QED BY <2>1, <2>2, EndInherits, FrugalStep
  <1>5. ASSUME AnswerRejected(p, m) PROVE Frugal(m)
    <2>1. sends'[m] = sends[m]
      BY <1>5 DEF AnswerRejected
    <2>2. CASE WriteOwned(m, job[p][m].claim, Removed) /\ End(p, m)
      <3>1. Grows(row[m], row'[m])
        BY <1>1, <2>2, OwnerGrows, RowsGrow
      <3> QED BY <2>1, <2>2, <3>1, EndInherits, FrugalStep
    <2>3. CASE At(p, m, "settling") /\ UNCHANGED row
      <3>1. Grows(row[m], row'[m])
        BY <1>1, <2>3, RowsGrow
      <3> QED BY <2>1, <2>3, <3>1, AtInherits, FrugalStep
    <2> QED BY <1>5, <2>2, <2>3 DEF AnswerRejected
  <1> QED BY <1>2, <1>3, <1>4, <1>5

\* Recovery looks, claims and settles without using the budget.
LEMMA RecoveryFrugal ==
    ASSUME IInv, NEW p \in Processes, NEW m \in Messages, OnlyAt(p, m)
    PROVE  /\ Scan(p, m) => Frugal(m)
           /\ Reconcile(p, m) => Frugal(m)
           /\ Claim(p, m) => Frugal(m)
           /\ Settle(p, m) => Frugal(m)
           /\ Finalize(p, m) => Frugal(m)
  <1>1. row \in [Messages -> GoodRow] /\ row[m] \in GoodRow /\ job[p][m] \in Job
        /\ JobInv(m, row[m], job[p][m], copies[m], lastClaim)
        /\ job \in [Processes -> [Messages -> Job]]
    BY Facts DEF IInv, TypeOK
  <1>2. ASSUME Scan(p, m) PROVE Frugal(m)
    <2>1. row'[m] = row[m] /\ sends'[m] = sends[m] /\ p \in Recoverers
      BY <1>2 DEF Scan, Quiet
    <2>2. \/ End(p, m)
          \/ \E stage \in {"finalizing", "settling", "scanned"} :
                job'[p][m] = [stage |-> stage, kind |-> "recovery", claim |-> 0, snap |-> row[m]]
      BY <1>1, <1>2 DEF Scan, Do
    <2>3. Grows(row[m], row'[m])
      BY <1>1, <2>1, RowsGrow
    <2>4. CASE End(p, m)
      BY <2>1, <2>3, <2>4, EndInherits, FrugalStep
    <2>5. CASE /\ job'[p][m].stage \in {"finalizing", "settling", "scanned"}
               /\ job'[p][m].snap = row[m] /\ job'[p][m].claim = 0
      <3>1. Inherits(p, row[m], job[p][m], row'[m], job'[p][m])
        BY <2>1, <2>5 DEF Inherits, Unsent, Looking, Retrying
      <3> QED BY <2>1, <2>3, <3>1, FrugalStep
    <2> QED BY <2>2, <2>4, <2>5
  <1>3. ASSUME Reconcile(p, m) PROVE Frugal(m)
    <2>1. sends'[m] = sends[m] /\ job[p][m].stage = "scanned" /\ job[p][m].claim = 0
      BY <1>1, <1>3 DEF Reconcile, Quiet, JobInv
    <2>2. CASE /\ End(p, m)
               /\ \/ WriteOwned(m, job[p][m].snap.claim, Acked(m, row[m]))
                  \/ WriteOwned(m, job[p][m].snap.claim, Failed(row[m]))
      <3>1. Grows(row[m], row'[m])
        BY <1>1, <2>2, OwnerGrows, RowsGrow
      <3> QED BY <2>1, <2>2, <3>1, EndInherits, FrugalStep
    <2>3. CASE UNCHANGED row /\ (At(p, m, "proved") \/ At(p, m, "settling"))
      <3>1. Grows(row[m], row'[m])
        BY <1>1, <2>3, RowsGrow
      <3>2. /\ job'[p][m].stage \in {"proved", "settling"} /\ job'[p][m].claim = 0
            /\ job'[p][m].kind = job[p][m].kind /\ job'[p][m].snap = job[p][m].snap
        BY <2>1, <2>3, AtFields
      <3>3. Inherits(p, row[m], job[p][m], row'[m], job'[p][m])
        BY <2>1, <3>2 DEF Inherits, Unsent, Looking, Retrying
      <3> QED BY <2>1, <3>1, <3>3, FrugalStep
    <2> QED BY <1>3, <2>2, <2>3 DEF Reconcile
  <1>4. ASSUME Claim(p, m) PROVE Frugal(m)
    <2>1. sends'[m] = sends[m] /\ job[p][m].stage \in {"scanned", "proved"}
      BY <1>4 DEF Claim
    <2>2. CASE End(p, m) /\ UNCHANGED row
      <3>1. Grows(row[m], row'[m])
        BY <1>1, <2>2, RowsGrow
      <3> QED BY <2>1, <2>2, <3>1, EndInherits, FrugalStep
    <2>3. CASE /\ lastClaim' = lastClaim + 1 /\ Write(m, ClaimedBy(row[m], lastClaim'))
               /\ Do(p, m, [job[p][m] EXCEPT !.stage = "reserving", !.claim = lastClaim'])
      <3>1. row'[m] = ClaimedBy(row[m], lastClaim + 1)
        BY <1>1, <2>3 DEF Write
      <3>2. Grows(row[m], row'[m])
        BY <1>1, <3>1, RowsGrow
      <3>3. /\ job'[p][m].stage = "reserving" /\ job'[p][m].kind = job[p][m].kind
            /\ job'[p][m].snap = job[p][m].snap
        BY <1>1, <2>3 DEF Do, Job
      <3>4. Inherits(p, row[m], job[p][m], row'[m], job'[p][m])
        BY <2>1, <3>3 DEF Inherits, Unsent, Looking, Retrying
      <3> QED BY <2>1, <3>2, <3>4, FrugalStep
    <2> QED BY <1>4, <2>2, <2>3 DEF Claim
  <1>5. ASSUME Settle(p, m) PROVE Frugal(m)
    <2>1. sends'[m] = sends[m]
      BY <1>5 DEF Settle
    <2>2. CASE End(p, m) /\ UNCHANGED row
      <3>1. Grows(row[m], row'[m])
        BY <1>1, <2>2, RowsGrow
      <3> QED BY <2>1, <2>2, <3>1, EndInherits, FrugalStep
    <2>3. ASSUME NEW s, Grows(row[m], s), Write(m, s),
                 Do(p, m, [job[p][m] EXCEPT !.stage = "finalizing", !.snap = s])
          PROVE  Frugal(m)
      <3>1. row'[m] = s
        BY <1>1, <2>3 DEF Write
      <3>2. job'[p][m].stage = "finalizing" /\ job'[p][m].kind = job[p][m].kind
        BY <1>1, <2>3 DEF Do, Job
      <3>3. Inherits(p, row[m], job[p][m], row'[m], job'[p][m])
        BY <3>2, PastInherits
      <3> QED BY <2>1, <2>3, <3>1, <3>3, FrugalStep
    <2>4. /\ Grows(row[m], Staged(row[m]))
          /\ Grows(row[m], Staged(ClaimedBy(row[m], lastClaim + 1)))
      BY <1>1, RowsGrow
    <2> QED BY <1>5, <2>2, <2>3, <2>4 DEF Settle
  <1>6. ASSUME Finalize(p, m) PROVE Frugal(m)
    <2>1. sends'[m] = sends[m] /\ End(p, m) /\ (UNCHANGED row \/ Write(m, Compacted(m)))
      BY <1>6 DEF Finalize
    <2>2. Grows(row[m], row'[m])
      BY <1>1, <2>1, RowsGrow DEF Write
    <2> QED BY <2>1, <2>2, EndInherits, FrugalStep
  <1> QED BY <1>2, <1>3, <1>4, <1>5, <1>6

----------------------------------------------------------------------------
(* The steps that use the budget *)

----------------------------------------------------------------------------
(* The steps that use the budget *)

\* What the budget and the queue's invariant say of a message.
LEMMA BudgetFacts ==
    ASSUME IInv, BudgetInv, NEW m \in Messages
    PROVE  /\ row[m] \in GoodRow /\ row[m] \in Row /\ sends[m] \in Nat /\ lastClaim \in Nat
           /\ IsFiniteSet(Senders(m)) /\ Cardinality(Senders(m)) \in Nat
           /\ Due(m) = sends[m] + Cardinality(Senders(m)) /\ Due(m) \in Nat
           /\ MsgBudget(row[m], Due(m), Grant(m))
           /\ \A p \in Processes :
                 /\ job[p][m] \in Job
                 /\ JobInv(m, row[m], job[p][m], copies[m], lastClaim)
                 /\ JobBudget(p, row[m], job[p][m], Due(m), Grant(m))
  BY Facts, FS_CardinalityType DEF IInv, TypeOK, GoodRow, BudgetInv, BudgetOf, Due

\* Nobody has the claim that was just handed out.
LEMMA Newcomer ==
    ASSUME IInv, BudgetInv, NEW p \in Processes, NEW m \in Messages,
           OnlyAt(p, m), row'[m].claim = lastClaim + 1, row'[m].attempts <= row[m].attempts,
           row'[m].attempts \in Nat, NEW q \in Processes \ {p}, NEW d, NEW g
    PROVE  JobBudget(q, row'[m], job'[q][m], d, g)
  <1>1. /\ job'[q][m] = job[q][m] /\ job[q][m].claim <= lastClaim /\ job[q][m].claim \in Nat
        /\ lastClaim \in Nat /\ JobBudget(q, row[m], job[q][m], Due(m), Grant(m))
    BY BudgetFacts DEF OnlyAt, JobInv, Job
  <1>2. ~Retrying(row'[m], job[q][m])
    BY <1>1 DEF Retrying, Has
  <1>3. Looking(job[q][m]) => row'[m].attempts <= job[q][m].snap.attempts
    <2>1. row[m].attempts \in Nat /\ job[q][m].snap.attempts \in Nat
      BY BudgetFacts, RowFields DEF Job, GoodRow
    <2> QED BY <1>1, <2>1 DEF JobBudget
  <1> QED BY <1>1, <1>2, <1>3, Bystander

\* A new row brings a budget of its own.
LEMMA SubmitBudget ==
    ASSUME IInv, IInv', BudgetInv, [Next]_vars, NEW p \in Processes, NEW m \in Messages,
           OnlyAt(p, m), Submit(p, m)
    PROVE  BudgetOf(m)'
  <1>1. /\ sends'[m] = sends[m]
        /\ row' = [row EXCEPT ![m] = [ClaimedBy(Blank, lastClaim') EXCEPT !.status = "pending"]]
        /\ lastClaim' = lastClaim + 1
        /\ job' = [job EXCEPT ![p][m] =
             [NoJob EXCEPT !.stage = IF m \in Stable THEN "held" ELSE "admitted",
                           !.claim = lastClaim']]
        /\ job[p][m].stage = "idle"
    BY DEF Submit, Write, Do
  <1>2. /\ row'[m].status = "pending" /\ row'[m].claim = lastClaim + 1
        /\ row'[m].attempts = 0 /\ row'[m].retries = 0
    BY <1>1 DEF IInv, TypeOK, ClaimedBy, Blank
  <1>3. job'[p][m].kind = "live" /\ job'[p][m].stage \in {"held", "admitted"}
    BY <1>1 DEF IInv, TypeOK, NoJob
  <1>4. /\ IsFiniteSet(Senders(m))' /\ Cardinality(Senders(m)) \in Nat
        /\ Cardinality(Senders(m)') = Cardinality(Senders(m)) + 1
    BY <1>1, <1>3, BudgetFacts, SenderJoins DEF OnlyAt, Unsent
  <1> PICK d, d2, g, g2 : d = Due(m) /\ d2 = Due(m)' /\ g = Grant(m) /\ g2 = Grant(m)'
    OBVIOUS
  <1>5. g \in Nat /\ g2 \in Nat /\ g2 >= 1
    BY GrantGrows DEF IInv
  <1>6. d \in Nat /\ d2 = d + 1
    BY <1>1, <1>4, BudgetFacts, SendersWillBe
  <1>7. MaxRetries \in Nat /\ Cap(row'[m]) = 0
    BY <1>2, DeliveryAssumption DEF Cap, CapOf, Tries, Larger
  <1>8. d2 <= g2
    <2>1. MsgBudget(row[m], d, g)
      BY BudgetFacts
    <2>2. CASE row[m].status = "new"
      BY <1>5, <1>6, <2>1, <2>2 DEF MsgBudget
    <2>3. CASE m \in Stable /\ row[m].status = "deleted" /\ Spend("replay", MaxReplays)
      <3>1. spent'["replay"] = spent["replay"] + 1
        BY <2>3 DEF Spend, IInv, TypeOK
      <3>2. g2 = g + (MaxRetries + 1)
        BY <2>3, <3>1, GrantSteps DEF IInv
      <3>3. d <= MaxRetries + g
        BY <2>1, <2>3 DEF MsgBudget, Cap
      <3> QED BY <1>5, <1>6, <1>7, <3>2, <3>3
    <2> QED BY <2>2, <2>3 DEF Submit
  <1>9. MsgBudget(row'[m], d2, g2)
    BY <1>2, <1>5, <1>6, <1>7, <1>8 DEF MsgBudget
  <1>10. JobBudget(p, row'[m], job'[p][m], d2, g2)
    BY <1>3 DEF JobBudget, Looking, Retrying
  <1>11. row[m].attempts \in Nat
    BY BudgetFacts, RowFields
  <1>12. ASSUME NEW q \in Processes \ {p} PROVE JobBudget(q, row'[m], job'[q][m], d2, g2)
    BY <1>2, <1>11, Newcomer
  <1> QED BY <1>4, <1>9, <1>10, <1>12 DEF BudgetOf

\* A replay brings a budget of its own, too.
LEMMA ResubmitBudget ==
    ASSUME IInv, IInv', BudgetInv, [Next]_vars, NEW p \in Processes, NEW m \in Messages,
           OnlyAt(p, m), Resubmit(p, m)
    PROVE  BudgetOf(m)'
  <1>1. /\ sends'[m] = sends[m] /\ m \in Stable
        /\ row' = [row EXCEPT ![m] = ClaimedBy(row[m], lastClaim + 1)]
        /\ job' = [job EXCEPT ![p][m] = [NoJob EXCEPT !.stage = "held", !.claim = lastClaim']]
        /\ job[p][m].stage = "idle" /\ Spend("replay", MaxReplays)
    BY DEF Resubmit, Write, Do
  <1>2. row'[m] = ClaimedBy(row[m], lastClaim + 1) /\ row'[m] \in GoodRow
    BY <1>1 DEF IInv, TypeOK
  <1>3. Grows(row[m], row'[m])
    BY <1>2, BudgetFacts, RowsGrow
  <1>4. row'[m].claim = lastClaim + 1 /\ row'[m].attempts <= row[m].attempts
    BY <1>2, <1>3, BudgetFacts, FreshFields DEF Grows
  <1>5. job'[p][m].kind = "live" /\ job'[p][m].stage = "held"
    BY <1>1 DEF IInv, TypeOK, NoJob
  <1>6. /\ IsFiniteSet(Senders(m))' /\ Cardinality(Senders(m)) \in Nat
        /\ Cardinality(Senders(m)') = Cardinality(Senders(m)) + 1
    BY <1>1, <1>5, BudgetFacts, SenderJoins DEF OnlyAt, Unsent
  <1> PICK d, d2, g, g2 : d = Due(m) /\ d2 = Due(m)' /\ g = Grant(m) /\ g2 = Grant(m)'
    OBVIOUS
  <1>7. d \in Nat /\ d2 = d + 1
    BY <1>1, <1>6, BudgetFacts, SendersWillBe
  <1>8. g \in Nat /\ g2 = g + (MaxRetries + 1) /\ MaxRetries \in Nat
    <2>1. spent'["replay"] = spent["replay"] + 1
      BY <1>1 DEF Spend, IInv, TypeOK
    <2> QED BY <1>1, <2>1, GrantSteps, GrantGrows, DeliveryAssumption DEF IInv
  <1>9. MsgBudget(row'[m], d2, g2)
    <2>1. MsgBudget(row[m], d, g)
      BY BudgetFacts
    <2>2. Cap(row[m]) \in Nat /\ Cap(row'[m]) \in Nat /\ Cap(row[m]) <= Cap(row'[m])
      BY <1>2, <1>3, BudgetFacts, CapFacts DEF GoodRow
    <2>3. row'[m].status = row[m].status /\ row[m].status = "pending"
      BY <1>2, BudgetFacts, FreshFields DEF Resubmit, Claimable
    <2> QED BY <1>7, <1>8, <2>1, <2>2, <2>3 DEF MsgBudget
  <1>10. JobBudget(p, row'[m], job'[p][m], d2, g2)
    BY <1>5 DEF JobBudget, Looking, Retrying
  <1>11. row'[m].attempts \in Nat
    BY <1>2, RowFields DEF GoodRow
  <1>12. ASSUME NEW q \in Processes \ {p} PROVE JobBudget(q, row'[m], job'[q][m], d2, g2)
    BY <1>4, <1>11, Newcomer
  <1> QED BY <1>6, <1>9, <1>10, <1>12 DEF BudgetOf

\* A send that was due is begun.
LEMMA SendBudget ==
    ASSUME IInv, IInv', BudgetInv, [Next]_vars, NEW p \in Processes, NEW m \in Messages,
           OnlyAt(p, m), Send(p, m)
    PROVE  BudgetOf(m)'
  <1>1. /\ row'[m] = row[m] /\ sends' = [sends EXCEPT ![m] = @ + 1] /\ At(p, m, "flight")
        /\ job[p][m].stage \in {"started", "cleared"}
    BY DEF Send
  <1>2. sends'[m] = sends[m] + 1 /\ sends[m] \in Nat
    BY <1>1 DEF IInv, TypeOK
  <1>3. /\ job'[p][m].stage = "flight" /\ job'[p][m].kind = job[p][m].kind
    BY <1>1, AtFields
  <1>4. /\ IsFiniteSet(Senders(m))' /\ Cardinality(Senders(m)) \in Nat
        /\ Cardinality(Senders(m)') \in Nat
        /\ Cardinality(Senders(m)') = Cardinality(Senders(m)) - 1
    BY <1>1, <1>3, BudgetFacts, SenderLeaves DEF OnlyAt, Unsent
  <1> PICK d, d2, g, g2 : d = Due(m) /\ d2 = Due(m)' /\ g = Grant(m) /\ g2 = Grant(m)'
    OBVIOUS
  <1>5. d \in Nat /\ d2 = d
    BY <1>2, <1>4, BudgetFacts, SendersWillBe
  <1>6. g \in Nat /\ g2 \in Nat /\ g <= g2
    BY GrantGrows DEF IInv
  <1>7. Grows(row[m], row[m]) /\ row[m] \in GoodRow
    BY BudgetFacts, RowsGrow
  <1>8. MsgBudget(row'[m], d2, g2)
    BY <1>1, <1>5, <1>6, <1>7, BudgetFacts, RowKeeps
  <1>9. ASSUME NEW q \in Processes PROVE JobBudget(q, row'[m], job'[q][m], d2, g2)
    <2>1. Inherits(q, row[m], job[q][m], row[m], job'[q][m])
      BY <1>3, PastInherits, SameInherits DEF OnlyAt
    <2>2. job[q][m] \in Job /\ job'[q][m] \in Job
      BY DEF IInv, TypeOK
    <2> QED BY <1>1, <1>5, <1>6, <1>7, <2>1, <2>2, BudgetFacts, HeirKeeps
  <1> QED BY <1>4, <1>8, <1>9 DEF BudgetOf

\* Recovery scans run in one process.
OneRecoverer == \A p, q \in Recoverers : p = q

\* An attempt is reserved in the row before it may be sent.
LEMMA ReserveBudget ==
    ASSUME IInv, IInv', BudgetInv, [Next]_vars, OneRecoverer,
           NEW p \in Processes, NEW m \in Messages, OnlyAt(p, m), Reserve(p, m)
    PROVE  BudgetOf(m)'
  <1>1. sends'[m] = sends[m] /\ job[p][m].stage = "reserving"
    BY DEF Reserve, Quiet
  <1>2. CASE UNCHANGED row /\ (End(p, m) \/ At(p, m, "settling"))
    <2>1. Grows(row[m], row'[m])
      BY <1>2, BudgetFacts, RowsGrow
    <2>2. Inherits(p, row[m], job[p][m], row'[m], job'[p][m])
      BY <1>2, <2>1, EndInherits, AtInherits
    <2>3. Frugal(m)
      BY <1>1, <2>1, <2>2, FrugalStep
    <2> QED BY <2>3, FrugalKeeps DEF IInv, BudgetInv
  <1>3. CASE /\ Live(m, job[p][m].claim) /\ Tries(row[m]) < MaxRetries /\ At(p, m, "held")
             /\ Write(m, [row[m] EXCEPT !.attempts = Tries(row[m]) + 1])
    <2> PICK r, r2 : r = row[m] /\ r2 = row'[m]
      OBVIOUS
    <2>1. /\ r \in GoodRow /\ r \in Row /\ r2 \in GoodRow /\ r.status = "pending"
          /\ r.claim = job[p][m].claim /\ Tries(r) \in Nat /\ Tries(r) < MaxRetries
          /\ r.retries \in Nat /\ r.attempts \in Nat /\ MaxRetries \in Nat
      BY <1>3, BudgetFacts, TriesNat, RowFields, DeliveryAssumption DEF IInv, TypeOK, Live, Owns
    <2>2. r2 = [r EXCEPT !.attempts = Tries(r) + 1]
      BY <1>3, <2>1 DEF Write, IInv, TypeOK
    <2>3. /\ r2.status = "pending" /\ r2.claim = r.claim /\ r2.retries = r.retries
          /\ r2.attempts = Tries(r) + 1
      BY <2>1, <2>2 DEF Row
    <2>4. Cap(r) = Tries(r) /\ Cap(r2) = Tries(r) + 1
      BY <2>1, <2>3 DEF Cap, CapOf, Tries, Larger
    <2>5. /\ job'[p][m].stage = "held" /\ job'[p][m].claim = job[p][m].claim
          /\ job'[p][m].kind = job[p][m].kind /\ job'[p][m].snap = job[p][m].snap
      BY <1>3, AtFields
    <2>6. /\ IsFiniteSet(Senders(m))' /\ Cardinality(Senders(m)) \in Nat
          /\ Cardinality(Senders(m)') = Cardinality(Senders(m)) + 1
      BY <1>1, <2>5, BudgetFacts, SenderJoins DEF OnlyAt, Unsent
    <2> PICK d, d2, g, g2 : d = Due(m) /\ d2 = Due(m)' /\ g = Grant(m) /\ g2 = Grant(m)'
      OBVIOUS
    <2>7. d \in Nat /\ d2 = d + 1 /\ g \in Nat /\ g2 \in Nat /\ g <= g2
      BY <1>1, <2>6, BudgetFacts, SendersWillBe, GrantGrows DEF IInv
    <2>8. MsgBudget(r, d, g) /\ \A q \in Processes : JobBudget(q, r, job[q][m], d, g)
      BY BudgetFacts
    <2>9. MsgBudget(r2, d2, g2)
      BY <2>1, <2>3, <2>4, <2>7, <2>8 DEF MsgBudget
    <2>10. JobBudget(p, r2, job'[p][m], d2, g2)
      <3>1. p \in Recoverers /\ r.attempts <= job[p][m].snap.attempts
        BY <1>1, <2>8 DEF JobBudget, Looking
      <3>2. job[p][m].snap.attempts \in Nat
        BY BudgetFacts, RowFields DEF Job, GoodRow
      <3> PICK a \in Nat : a = job[p][m].snap.attempts
        BY <3>2
      <3>3. Cap(r) <= CapOf(Larger(a, r.retries)) /\ CapOf(Larger(a, r.retries)) \in Nat
        BY <2>1, <3>1 DEF Cap, CapOf, Tries, Larger
      <3>4. d2 <= CapOf(Larger(a, r.retries)) + g2 + 1
        BY <2>1, <2>4, <2>7, <2>8, <3>3 DEF MsgBudget
      <3> QED BY <2>3, <2>5, <3>1, <3>4 DEF JobBudget, Looking
    <2>11. ASSUME NEW q \in Processes \ {p} PROVE JobBudget(q, r2, job'[q][m], d2, g2)
      <3>1. job'[q][m] = job[q][m] /\ job[q][m].claim # job[p][m].claim
            /\ JobBudget(q, r, job[q][m], d, g)
        <4>1. job[p][m].claim # 0 /\ Apart(job[p][m], job[q][m])
          BY <1>1, Facts DEF JobInv
        <4> QED BY <2>8, <4>1 DEF OnlyAt, Apart
      <3>2. ~Retrying(r2, job[q][m])
        BY <2>1, <2>3, <3>1 DEF Retrying, Has
      <3>3. p \in Recoverers
        BY <1>1, <2>8 DEF JobBudget, Looking
      <3>4. ~Looking(job[q][m])
        BY <3>1, <3>3 DEF JobBudget, OneRecoverer
      <3> QED BY <3>1, <3>2, <3>4, Bystander
    <2> QED BY <2>6, <2>9, <2>10, <2>11 DEF BudgetOf
  <1>4. Tries(row[m]) \in Nat /\ MaxRetries \in Nat
    BY BudgetFacts, TriesNat, DeliveryAssumption
  <1> QED BY <1>2, <1>3, <1>4 DEF Reserve

\* The row that recovery gives back accounts for what was sent.
LEMMA StopBudget ==
    ASSUME IInv, IInv', BudgetInv, [Next]_vars, OneRecoverer,
           NEW p \in Processes, NEW m \in Messages, OnlyAt(p, m), Stop(p, m)
    PROVE  BudgetOf(m)'
  <1>1. /\ sends'[m] = sends[m] /\ job[p][m].stage = "cleared" /\ job[p][m].kind = "recovery"
        /\ End(p, m)
        /\ \/ UNCHANGED row
           \/ /\ job[p][m].claim # 0 /\ Owns(m, job[p][m].claim)
              /\ Write(m, [job[p][m].snap EXCEPT !.retries = row[m].retries])
    BY DEF Stop
  <1>2. CASE UNCHANGED row
    <2>1. Grows(row[m], row'[m])
      BY <1>2, BudgetFacts, RowsGrow
    <2>2. Inherits(p, row[m], job[p][m], row'[m], job'[p][m])
      BY <1>1, EndInherits
    <2>3. Frugal(m)
      BY <1>1, <2>1, <2>2, FrugalStep
    <2> QED BY <2>3, FrugalKeeps DEF IInv, BudgetInv
  <1>3. CASE /\ job[p][m].claim # 0 /\ Owns(m, job[p][m].claim)
             /\ Write(m, [job[p][m].snap EXCEPT !.retries = row[m].retries])
    <2> PICK r, r2, s : r = row[m] /\ r2 = row'[m] /\ s = job[p][m].snap
      OBVIOUS
    <2>1. /\ r \in GoodRow /\ r \in Row /\ s \in GoodRow /\ s \in Row
          /\ Has(r, job[p][m].claim) /\ s.status = "pending"
          /\ r.retries \in Nat /\ s.attempts \in Nat /\ MaxRetries \in Nat
      BY <1>1, <1>3, BudgetFacts, RowFields, DeliveryAssumption
      DEF Owns, Has, JobInv, SnapInv, Job, GoodRow
    <2>2. r2 = [s EXCEPT !.retries = r.retries]
      BY <1>3 DEF Write, IInv, TypeOK
    <2>3. /\ r2.status = "pending" /\ r2.attempts = s.attempts /\ r2.retries = r.retries
      BY <2>1, <2>2 DEF Row
    <2>4. Cap(r2) = CapOf(Larger(s.attempts, r.retries)) /\ Cap(r2) \in Nat
      BY <2>1, <2>3 DEF Cap, CapOf, Tries, Larger
    <2>5. job'[p][m] = NoJob /\ NoJob.stage = "idle" /\ NoJob.kind = "live"
      BY <1>1, EndsJob DEF NoJob
    <2>6. /\ IsFiniteSet(Senders(m))' /\ Cardinality(Senders(m)) \in Nat
          /\ Cardinality(Senders(m)') \in Nat
          /\ Cardinality(Senders(m)') = Cardinality(Senders(m)) - 1
      BY <1>1, <2>5, BudgetFacts, SenderLeaves DEF OnlyAt, Unsent
    <2> PICK d, d2, g, g2 : d = Due(m) /\ d2 = Due(m)' /\ g = Grant(m) /\ g2 = Grant(m)'
      OBVIOUS
    <2>7. d \in Nat /\ d2 = d - 1 /\ d2 \in Nat /\ g \in Nat /\ g2 \in Nat /\ g <= g2
      <3>1. sends[m] \in Nat
        BY BudgetFacts
      <3> QED BY <1>1, <2>6, <3>1, BudgetFacts, SendersWillBe, GrantGrows DEF IInv
    <2>8. \A q \in Processes : JobBudget(q, r, job[q][m], d, g)
      BY BudgetFacts
    <2>9. MsgBudget(r2, d2, g2)
      <3>1. d <= CapOf(Larger(s.attempts, r.retries)) + g + 1
        BY <1>1, <2>1, <2>8 DEF JobBudget, Retrying, Unsent
      <3> QED BY <2>3, <2>4, <2>7, <3>1 DEF MsgBudget
    <2>10. JobBudget(p, r2, job'[p][m], d2, g2)
      BY <2>5 DEF JobBudget, Looking, Retrying
    <2>11. ASSUME NEW q \in Processes \ {p} PROVE JobBudget(q, r2, job'[q][m], d2, g2)
      <3>1. job'[q][m] = job[q][m] /\ JobBudget(q, r, job[q][m], d, g) /\ p \in Recoverers
        BY <1>1, <2>8 DEF OnlyAt, JobBudget
      <3>2. ~Looking(job[q][m]) /\ job[q][m].kind # "recovery"
        BY <3>1 DEF JobBudget, OneRecoverer
      <3> QED BY <3>1, <3>2, Bystander DEF Retrying
    <2> QED BY <2>6, <2>9, <2>10, <2>11 DEF BudgetOf
  <1> QED BY <1>1, <1>2, <1>3

\* Every step keeps the budget, if one process recovers.
LEMMA BudgetNext ==
    ASSUME IInv, IInv', BudgetInv, [Next]_vars, OneRecoverer
    PROVE  BudgetInv'
  <1> SUFFICES ASSUME NEW m \in Messages PROVE BudgetOf(m)'
    BY DEF BudgetInv
  <1>1. Frugal(m) => BudgetOf(m)'
    BY FrugalKeeps DEF IInv, BudgetInv
  <1>2. ASSUME NEW p \in Processes, NEW n \in Messages, MessageStep(p, n)
        PROVE  BudgetOf(m)'
    <2>1. OnlyAt(p, n)
      BY <1>2, OneMessageSteps
    <2>2. CASE m = n
      <3>1. \/ Submit(p, m) \/ Resubmit(p, m) \/ Send(p, m) \/ Reserve(p, m) \/ Stop(p, m)
            \/ Frugal(m)
        BY <1>2, <2>1, <2>2, LiveFrugal, SendFrugal, RecoveryFrugal DEF MessageStep, JobStep
      <3> QED BY <1>1, <2>1, <2>2, <3>1, SubmitBudget, ResubmitBudget, SendBudget,
                 ReserveBudget, StopBudget
    <2>3. CASE m # n
      <3>1. row'[m] = row[m] /\ \A q \in Processes : job'[q][m] = job[q][m]
        BY <2>1, <2>3 DEF OnlyAt
      <3>2. sends' = sends \/ Send(p, n)
        BY <1>2 DEF MessageStep, Submit, Resubmit, Scan, Cancel, JobStep, BeginLive, PreSend,
           PreSendFails, MarkDispatch, DispatchFails, Arrive, RecordResult, RecordFails, Ack,
           AckFails, AnswerVague, AnswerError, AnswerNotSent, AnswerRejected, AnswerLoose,
           LeaseLost, Reconcile, Claim, Reserve, Stop, Settle, Finalize, Quiet
      <3>3. sends'[m] = sends[m]
        BY <2>3, <3>2 DEF Send, IInv, TypeOK
      <3> QED BY <1>1, <3>1, <3>3, StillFrugal
    <2> QED BY <2>2, <2>3
  <1>3. ASSUME NEW n \in Messages, LeaseEnds(n) PROVE BudgetOf(m)'
    <2>1. /\ row' = [row EXCEPT ![n] = [row[n] EXCEPT !.leased = FALSE]]
          /\ job' = job /\ sends' = sends
      BY <1>3 DEF LeaseEnds, Write
    <2>2. /\ row[m] \in GoodRow /\ row[m].retries \in Nat /\ row[m].attempts \in Nat
          /\ row'[m].status = row[m].status /\ row'[m].claim = row[m].claim
          /\ row'[m].retries = row[m].retries /\ row'[m].attempts = row[m].attempts
      BY <2>1 DEF IInv, TypeOK, GoodRow, Row
    <2>3. Grows(row[m], row'[m])
      BY <2>2 DEF Grows
    <2>4. \A c : Has(row'[m], c) <=> Has(row[m], c)
      BY <2>2 DEF Has
    <2>5. \A q \in Processes : Inherits(q, row[m], job[q][m], row'[m], job'[q][m])
      BY <2>1, <2>4, SameInherits
    <2> QED BY <1>1, <2>1, <2>3, <2>5 DEF Frugal
  <1>4. ASSUME NEW p \in Processes, Crash(p) PROVE BudgetOf(m)'
    <2>1. /\ row' = row /\ sends' = sends
          /\ job' = [job EXCEPT ![p] = [n \in Messages |-> NoJob]]
      BY <1>4 DEF Crash
    <2>2. \A q \in Processes : job'[q][m] = job[q][m] \/ job'[q][m] = NoJob
      BY <2>1 DEF IInv, TypeOK
    <2> QED BY <1>1, <2>1, <2>2, StillFrugal
  <1>5. CASE UNCHANGED vars
    BY <1>1, <1>5, StillFrugal DEF vars
  <1> QED BY <1>2, <1>3, <1>4, <1>5 DEF Next, MessageStep

\* At first nothing was sent and nobody may send.
LEMMA InitBudget == Init => BudgetInv
  <1> SUFFICES ASSUME Init, NEW m \in Messages PROVE BudgetOf(m)
    BY DEF BudgetInv
  <1>1. row[m] = Blank /\ sends[m] = 0 /\ \A p \in Processes : job[p][m] = NoJob
    BY DEF Init
  <1>2. Senders(m) = {}
    BY <1>1 DEF Senders, Unsent, NoJob
  <1>3. IsFiniteSet(Senders(m)) /\ Due(m) = 0
    BY <1>1, <1>2, FS_EmptySet DEF Due
  <1>4. Cap(row[m]) \in Nat
    BY <1>1, BlankRow, CapFacts
  <1>5. Grant(m) \in Nat
    BY InitInv, GrantFacts DEF IInv
  <1>6. MsgBudget(row[m], Due(m), Grant(m))
    BY <1>3, <1>4, <1>5 DEF MsgBudget
  <1>7. \A p \in Processes : JobBudget(p, row[m], job[p][m], Due(m), Grant(m))
    BY <1>1 DEF JobBudget, Looking, Retrying, Unsent, NoJob
  <1> QED BY <1>3, <1>6, <1>7 DEF BudgetOf

\* No message is sent more often than the retry budget of each accepted row
\* and its live send allow, also when processes die between the reservation
\* and the send (reserveDeliveryRecoveryAttempt), if one process recovers.
THEOREM Delivery_SendsBounded == OneRecoverer => (Spec => []SendsBounded)
  <1> SUFFICES ASSUME OneRecoverer PROVE Spec => []SendsBounded
    OBVIOUS
  <1>1. Init => IInv /\ BudgetInv
    BY InitInv, InitBudget
  <1>2. (IInv /\ BudgetInv) /\ [Next]_vars => (IInv /\ BudgetInv)'
    BY NextInv, BudgetNext
  <1>3. IInv /\ BudgetInv => SendsBounded
    <2> SUFFICES ASSUME IInv, BudgetInv, NEW m \in Messages
                 PROVE  sends[m] <= (MaxRetries + 1)
                                       * (IF m \in Stable THEN 1 + spent["replay"] ELSE 1)
      BY DEF SendsBounded
    <2> PICK d, g, c : d = Due(m) /\ g = Grant(m) /\ c = Cap(row[m])
      OBVIOUS
    <2>1. sends[m] \in Nat /\ d \in Nat /\ sends[m] <= d /\ d <= c + g
      BY BudgetFacts DEF MsgBudget
    <2>2. c \in Nat /\ c <= MaxRetries /\ g \in Nat /\ MaxRetries \in Nat
      BY BudgetFacts, CapFacts, GrantFacts, DeliveryAssumption DEF IInv
    <2>3. sends[m] <= MaxRetries + g
      BY <2>1, <2>2
    <2>4. CASE m \in Stable
      <3>1. MaxRetries + g = (MaxRetries + 1) * (1 + spent["replay"])
        BY <2>4, GrantFacts DEF IInv
      <3> QED BY <2>3, <2>4, <3>1
    <2>5. CASE m \notin Stable
      <3>1. g = 1 /\ (MaxRetries + 1) * 1 = MaxRetries + 1
        BY <2>2, <2>5, GrantFacts DEF IInv
      <3> QED BY <2>3, <2>5, <3>1
    <2> QED BY <2>4, <2>5
  <1> QED BY <1>1, <1>2, <1>3, PTL DEF Spec
=============================================================================
