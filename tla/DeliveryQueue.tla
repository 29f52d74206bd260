---------------------------- MODULE DeliveryQueue ----------------------------
(***************************************************************************)
(* The outbound delivery queue: one SQLite row per message, written before *)
(* the send and removed after it, worked on by live senders in several     *)
(* processes (the gateway, a CLI) and by the recovery scans of the         *)
(* gateway.  The platform is outside every transaction: a message that     *)
(* reached it cannot be taken back, and a process may die between any two  *)
(* steps.                                                                  *)
(*                                                                         *)
(* A message carries one payload.  Leases are a Boolean: TRUE while the    *)
(* row's availableAt is in the future.  Every row is written by a live     *)
(* producer, so it requires a producer claim.                              *)
(***************************************************************************)
EXTENDS Naturals

CONSTANTS
    Messages,
    Processes,
    Recoverers,   \* the processes that run recovery scans
    Stable,       \* messages with a stable intent id and a retained receipt
    Required,     \* messages with queuePolicy "required"; others: best_effort
    Reconciles,   \* the channel's adapter can look a send up
    Exact,        \* sent under exact reconciliation: no pre-send marker
    MaxRetries,
    MaxCrashes, MaxStalls, MaxFaults, MaxReplays  \* bounds on the environment

ASSUME DeliveryAssumption ==
    /\ Recoverers \subseteq Processes
    /\ Stable \subseteq Messages /\ Required \subseteq Messages
    /\ Reconciles \subseteq Messages /\ Exact \subseteq Reconciles
    /\ MaxRetries \in Nat \ {0}
    /\ {MaxCrashes, MaxStalls, MaxFaults, MaxReplays} \subseteq Nat

VARIABLES
    row,        \* the queue's rows
    job,        \* what each process is doing for each message
    lastClaim,  \* claim ids are fresh
    copies,     \* how many copies of the message reached the platform
    sends,      \* how many sends were begun
    told,       \* messages whose failure was reported to their owner
    loose,      \* messages sent without custody (best-effort fallback)
    spent       \* environment events used: crashes, stalls, faults, replays

vars == <<row, job, lastClaim, copies, sends, told, loose, spent>>

----------------------------------------------------------------------------
(* Rows *)

Evidence == {"send_attempt_started", "unknown_after_send"}

States == {"none", "producer_claimed", "settlement_pending"} \cup Evidence

Row == [status : {"new", "pending", "failed", "completed", "deleted"},
        state : States,
        claim : Nat,      \* producerClaimId or platformSendAttemptId, 0: none
        stamp : 0..2,     \* platformSendStartedAt: none, promoted, dispatched
        leased : BOOLEAN,
        retries : Nat, attempts : Nat]

\* Send evidence is one thing: state, claim and timestamp come and go together
\* (failDeliveryBeforePlatformSend, "retaining either would preserve false
\* send evidence").
Coherent(r) ==
    /\ r.state = "none" => r.claim = 0 /\ ~r.leased
    /\ r.state = "producer_claimed" => r.claim # 0
    /\ r.state = "settlement_pending" => r.status = "failed"
    /\ r.state \in {"none", "producer_claimed"}
          <=> r.stamp = 0 /\ r.state # "settlement_pending"

GoodRow == {r \in Row : Coherent(r)}

Blank == [status |-> "new", state |-> "none", claim |-> 0, stamp |-> 0,
          leased |-> FALSE, retries |-> 0, attempts |-> 0]

Larger(a, b) == IF a > b THEN a ELSE b
Tries(r) == Larger(r.retries, r.attempts)
Unfinished(r) == r.status = "pending"
                 \/ (r.status = "failed" /\ r.state = "settlement_pending")
ActiveOwner(r) == r.state \in {"producer_claimed"} \cup Evidence /\ r.leased

Owns(m, c) == row[m].status = "pending" /\ row[m].claim = c
\* Mutant: settling and working are not told apart, an expired claim counts.
LiveExpired(m, c) == Owns(m, c) /\ row[m].state # "none"
Live(m, c) == Owns(m, c) /\ row[m].state # "none" /\ row[m].leased

NoProof == <<0, 0>>

\* Mutant: the evidence of an earlier attempt does not stop a claim.
ClaimableBlindly(r, proof) == r.status = "pending" /\ ~r.leased
\* Mutant: a dead producer's expired claim is never taken over.
ClaimableFresh(r, proof) == r.status = "pending" /\ r.state = "none"
Claimable(r, proof) ==
    /\ r.status = "pending"
    /\ \/ r.state = "none"
       \/ r.state = "producer_claimed" /\ ~r.leased
       \/ /\ r.state = "send_attempt_started" /\ r.claim # 0
          /\ <<r.claim, r.stamp>> = proof

ClaimedBy(r, c) == [r EXCEPT !.state = "producer_claimed", !.claim = c,
                             !.stamp = 0, !.leased = TRUE]

Promoted(r) == [r EXCEPT !.state = "send_attempt_started", !.stamp = 1,
                         !.leased = TRUE]

Dispatched(r) ==
    [r EXCEPT !.state = IF @ = "unknown_after_send" THEN @
                        ELSE "send_attempt_started",
              !.stamp = 2]

Acked(m, r) == [Blank EXCEPT !.status = IF m \in Stable THEN "completed"
                                        ELSE "deleted"]
Removed == [Blank EXCEPT !.status = "deleted"]
Compacted(m) == [Blank EXCEPT !.status = IF m \in Stable THEN "failed"
                                         ELSE "deleted"]

\* Mutant: a generic failure forgets that the platform may have the message.
FailedForgetting(r) ==
    [r EXCEPT !.retries = @ + 1, !.leased = FALSE, !.state = "none",
              !.claim = 0, !.stamp = 0]
Failed(r) ==
    [r EXCEPT !.retries = @ + 1, !.leased = FALSE,
              !.state = IF @ = "producer_claimed" THEN "none" ELSE @,
              !.claim = IF r.state = "producer_claimed" THEN 0 ELSE @]

\* Mutant: the timestamp of the disproved attempt stays.
FailedKeepingStamp(r) ==
    [r EXCEPT !.retries = @ + 1, !.leased = FALSE, !.state = "none", !.claim = 0]
FailedBeforeSend(r) ==
    [r EXCEPT !.retries = @ + 1, !.leased = FALSE, !.state = "none",
              !.claim = 0, !.stamp = 0]

FailedAfterSend(r) ==
    [r EXCEPT !.retries = @ + 1, !.leased = FALSE,
              !.state = "unknown_after_send",
              !.claim = IF r.state = "producer_claimed" THEN 0 ELSE @,
              !.stamp = Larger(@, 1)]

OutcomeUnknown(r) == [r EXCEPT !.state = "unknown_after_send"]

----------------------------------------------------------------------------
(* Jobs: the in-process owner of a message is the job that is not idle *)

Stages == {"idle", "admitted", "held", "started", "cleared", "flight",
           "arrived", "recorded", "scanned", "proved", "reserving",
           "settling", "finalizing"}

Job == [stage : Stages, kind : {"live", "recovery"}, claim : Nat,
        snap : GoodRow]

NoJob == [stage |-> "idle", kind |-> "live", claim |-> 0, snap |-> Blank]

Do(p, m, j) == job' = [job EXCEPT ![p][m] = j]
At(p, m, stage) == Do(p, m, [job[p][m] EXCEPT !.stage = stage])
End(p, m) == Do(p, m, NoJob)
Write(m, r) == row' = [row EXCEPT ![m] = r]
\* The row changes only while the claim still owns it; otherwise nothing.
WriteOwned(m, c, r) == IF Owns(m, c) THEN Write(m, r) ELSE UNCHANGED row
Spend(what, max) == /\ spent[what] < max
                    /\ spent' = [spent EXCEPT ![what] = @ + 1]
Tell(m) == told' = told \cup {m}

Quiet == UNCHANGED <<lastClaim, copies, sends, told, loose, spent>>

Init ==
    /\ row = [m \in Messages |-> Blank]
    /\ job = [p \in Processes |-> [m \in Messages |-> NoJob]]
    /\ lastClaim = 0
    /\ copies = [m \in Messages |-> 0]
    /\ sends = [m \in Messages |-> 0]
    /\ told = {} /\ loose = {}
    /\ spent = [what \in {"crash", "stall", "fault", "replay"} |-> 0]

----------------------------------------------------------------------------
(* Live sends *)

\* A producer writes the row, already claimed.  Without a stable id it takes
\* the in-process claim only afterwards.
Submit(p, m) ==
    /\ job[p][m].stage = "idle"
    /\ \/ row[m].status = "new" /\ UNCHANGED spent
       \/ m \in Stable /\ row[m].status = "deleted" /\ Spend("replay", MaxReplays)
    /\ lastClaim' = lastClaim + 1
    /\ Write(m, [ClaimedBy(Blank, lastClaim') EXCEPT !.status = "pending"])
    /\ Do(p, m, [NoJob EXCEPT !.stage = IF m \in Stable THEN "held" ELSE "admitted",
                              !.claim = lastClaim'])
    /\ UNCHANGED <<copies, sends, told, loose>>

\* A producer replays a stable intent whose row is still pending.
Resubmit(p, m) ==
    /\ m \in Stable /\ job[p][m].stage = "idle"
    /\ Claimable(row[m], NoProof)
    /\ Spend("replay", MaxReplays)
    /\ lastClaim' = lastClaim + 1
    /\ Write(m, ClaimedBy(row[m], lastClaim'))
    /\ Do(p, m, [NoJob EXCEPT !.stage = "held", !.claim = lastClaim'])
    /\ UNCHANGED <<copies, sends, told, loose>>

BeginLive(p, m) ==
    /\ job[p][m].stage = "admitted"
    /\ At(p, m, "held")
    /\ UNCHANGED row /\ Quiet

----------------------------------------------------------------------------
(* Sending, for live producers and for recovery *)

PreSend(p, m) ==
    /\ job[p][m].stage = "held" /\ m \notin Exact
    /\ Live(m, job[p][m].claim) /\ row[m].state = "producer_claimed"
    /\ Write(m, Promoted(row[m]))
    /\ At(p, m, "started")
    /\ Quiet

\* The marker cannot be written.  A required send gives up; a best-effort
\* send removes the row it owns and goes on without custody.
PreSendFails(p, m) ==
    LET j == job[p][m] IN
    /\ j.stage = "held" /\ m \notin Exact
    /\ Spend("fault", MaxFaults)
    /\ Owns(m, j.claim)
    /\ IF m \in Required
       THEN /\ Write(m, Failed(row[m]))
            /\ End(p, m)
            /\ UNCHANGED loose
       ELSE /\ Write(m, Acked(m, row[m]))
            /\ Do(p, m, [j EXCEPT !.stage = "cleared", !.claim = 0])
            /\ loose' = loose \cup {m}
    /\ UNCHANGED <<lastClaim, copies, sends, told>>

MarkDispatch(p, m) ==
    /\ \/ job[p][m].stage = "started"
       \/ job[p][m].stage = "held" /\ m \in Exact
    /\ Live(m, job[p][m].claim)
    /\ Write(m, Dispatched(row[m]))
    /\ At(p, m, "cleared")
    /\ Quiet

DispatchFails(p, m) ==
    LET j == job[p][m] IN
    /\ \/ j.stage = "started"
       \/ j.stage = "held" /\ m \in Exact
    /\ Spend("fault", MaxFaults)
    /\ WriteOwned(m, j.claim, Failed(row[m]))
    /\ End(p, m)
    /\ UNCHANGED <<lastClaim, copies, sends, told, loose>>

\* Mutant: the send goes out on the marker alone, without the lease's signal.
SendUnsignalled(p, m) ==
    /\ \/ job[p][m].stage = "cleared"
       \/ job[p][m].stage = "started" /\ m \notin Exact
    /\ sends' = [sends EXCEPT ![m] = @ + 1]
    /\ At(p, m, "flight")
    /\ UNCHANGED <<row, lastClaim, copies, told, loose, spent>>

\* The platform call begins: after the dispatch marker, or by direct adapter
\* handoff right after the pre-send marker; the lease's abort signal is
\* looked at last.
Send(p, m) ==
    LET j == job[p][m] IN
    /\ \/ j.stage = "cleared"
       \/ j.stage = "started" /\ m \notin Exact
    /\ j.claim # 0 => Live(m, j.claim)
    /\ sends' = [sends EXCEPT ![m] = @ + 1]
    /\ At(p, m, "flight")
    /\ UNCHANGED <<row, lastClaim, copies, told, loose, spent>>

\* The platform takes the message; the answer is still on its way.
Arrive(p, m) ==
    /\ job[p][m].stage = "flight"
    /\ copies' = [copies EXCEPT ![m] = @ + 1]
    /\ At(p, m, "arrived")
    /\ UNCHANGED <<row, lastClaim, sends, told, loose, spent>>

\* The platform returned an identity: the outcome is recorded first.
RecordResult(p, m) ==
    LET j == job[p][m] IN
    /\ j.stage = "arrived"
    /\ \/ j.claim # 0 /\ Owns(m, j.claim)
          /\ Write(m, OutcomeUnknown(row[m])) /\ At(p, m, "recorded")
       \/ (j.claim # 0 => ~Owns(m, j.claim)) /\ UNCHANGED row /\ End(p, m)
    /\ Quiet

\* The outcome cannot be recorded.  A plain live send removes the row at
\* once; a reusable producer and recovery keep it as an unknown outcome.
RecordFails(p, m) ==
    LET j == job[p][m] IN
    /\ j.stage = "arrived" /\ j.claim # 0
    /\ Spend("fault", MaxFaults)
    /\ \/ WriteOwned(m, j.claim, FailedAfterSend(row[m]))
       \/ /\ j.kind = "live" /\ m \notin Stable
          /\ WriteOwned(m, j.claim, Acked(m, row[m]))
    /\ End(p, m)
    /\ UNCHANGED <<lastClaim, copies, sends, told, loose>>

Ack(p, m) ==
    LET j == job[p][m] IN
    /\ j.stage = "recorded"
    /\ WriteOwned(m, j.claim, Acked(m, row[m]))
    /\ End(p, m)
    /\ Quiet

AckFails(p, m) ==
    LET j == job[p][m] IN
    /\ j.stage = "recorded"
    /\ Spend("fault", MaxFaults)
    /\ WriteOwned(m, j.claim, FailedAfterSend(row[m]))
    /\ End(p, m)
    /\ UNCHANGED <<lastClaim, copies, sends, told, loose>>

\* No identity, or an error with evidence that the platform was reached.
\* Recovery leaves an error's row leased; the others release it.
AnswerVague(p, m) ==
    LET j == job[p][m] IN
    /\ j.stage \in {"flight", "arrived"} /\ j.claim # 0
    /\ \/ WriteOwned(m, j.claim, FailedAfterSend(row[m]))
       \/ j.kind = "recovery" /\ WriteOwned(m, j.claim, OutcomeUnknown(row[m]))
    /\ End(p, m)
    /\ Quiet

\* An error that proves nothing: the row keeps the evidence it has.
AnswerError(p, m) ==
    LET j == job[p][m] IN
    /\ j.stage \in {"flight", "arrived"} /\ j.claim # 0
    /\ WriteOwned(m, j.claim, Failed(row[m]))
    /\ End(p, m)
    /\ Quiet

\* The error proves that nothing was sent; recovery or the caller retries.
AnswerNotSent(p, m) ==
    LET j == job[p][m] IN
    /\ j.stage = "flight" /\ j.claim # 0
    /\ \/ WriteOwned(m, j.claim, FailedBeforeSend(row[m])) /\ UNCHANGED told
       \/ /\ j.kind = "live"
          /\ WriteOwned(m, j.claim, Compacted(m))
          /\ Tell(m)
    /\ End(p, m)
    /\ UNCHANGED <<lastClaim, copies, sends, loose, spent>>

\* The platform refuses the message for good.
AnswerRejected(p, m) ==
    LET j == job[p][m] IN
    /\ j.stage = "flight" /\ j.claim # 0
    /\ IF j.kind = "live"
       THEN WriteOwned(m, j.claim, Removed) /\ Tell(m) /\ End(p, m)
       ELSE At(p, m, "settling") /\ UNCHANGED <<row, told>>
    /\ UNCHANGED <<lastClaim, copies, sends, loose, spent>>

\* Any answer to a send without custody: the caller hears of a failure.
AnswerLoose(p, m) ==
    /\ job[p][m].stage \in {"flight", "arrived"} /\ job[p][m].claim = 0
    /\ End(p, m)
    /\ IF job[p][m].stage = "flight" THEN Tell(m) ELSE UNCHANGED told
    /\ UNCHANGED <<row, lastClaim, copies, sends, loose, spent>>

\* The caller aborts its live send.
Cancel(p, m) ==
    LET j == job[p][m] IN
    /\ j.kind = "live" /\ j.stage \in {"held", "started", "cleared"}
    /\ Live(m, j.claim)
    /\ IF j.stage = "held"
       THEN WriteOwned(m, j.claim, Removed)
       ELSE WriteOwned(m, j.claim, FailedAfterSend(row[m]))
    /\ Tell(m)
    /\ End(p, m)
    /\ UNCHANGED <<lastClaim, copies, sends, loose, spent>>

\* The lease's signal stops a job that lost its lease.  A live producer
\* writes nothing any more; recovery releases what it still owns.
LeaseLost(p, m) ==
    LET j == job[p][m] IN
    /\ ~Live(m, j.claim)
    /\ \/ /\ j.stage \in {"held", "started", "cleared", "recorded"}
          /\ IF j.kind = "recovery" /\ j.stage # "recorded"
             THEN WriteOwned(m, j.claim, Failed(row[m]))
             ELSE UNCHANGED row
       \/ j.stage = "arrived" /\ j.kind = "live" /\ UNCHANGED row
    /\ IF j.stage # "recorded" /\ (j.kind = "live" \/ j.claim = 0)
       THEN Tell(m) ELSE UNCHANGED told
    /\ End(p, m)
    /\ UNCHANGED <<lastClaim, copies, sends, loose, spent>>

----------------------------------------------------------------------------
(* Recovery: startup scans and reconnect drains *)

NeedsReconciliation(r) == r.state \in Evidence

\* The scan takes the in-process claim, reloads the row and decides.  A
\* producer that was about to take the in-process claim gives way.
Scan(p, m) ==
    LET r == row[m]
        Start(stage) == Do(p, m, [stage |-> stage, kind |-> "recovery",
                                  claim |-> 0, snap |-> r])
    IN
    /\ p \in Recoverers /\ job[p][m].stage \in {"idle", "admitted"}
    /\ Unfinished(r)
    /\ \/ r.status = "failed" /\ Start("finalizing")
       \/ /\ r.status = "pending" /\ ActiveOwner(r)
          /\ job[p][m].stage = "admitted" /\ End(p, m)
       \/ /\ r.status = "pending" /\ ~ActiveOwner(r)
          /\ \/ Start("settling")    \* the channel refuses deferred delivery
             \/ /\ Tries(r) < MaxRetries \/ NeedsReconciliation(r)
                /\ Start("scanned")
    /\ UNCHANGED row /\ Quiet

\* The adapter is asked about a send that may have happened.
Reconcile(p, m) ==
    LET j == job[p][m] IN
    /\ j.stage = "scanned" /\ NeedsReconciliation(j.snap)
    /\ \/ /\ m \in Reconciles /\ copies[m] > 0               \* sent
          /\ WriteOwned(m, j.snap.claim, Acked(m, row[m]))
          /\ End(p, m)
       \/ /\ m \in Reconciles /\ copies[m] = 0               \* not sent
          /\ IF j.snap.state = "send_attempt_started"
             THEN At(p, m, "proved") ELSE At(p, m, "settling")
          /\ UNCHANGED row
       \/ /\ m \in Reconciles /\ Tries(j.snap) < MaxRetries  \* ask again later
          /\ WriteOwned(m, j.snap.claim, Failed(row[m]))
          /\ End(p, m)
       \/ At(p, m, "settling") /\ UNCHANGED row              \* unresolved
    /\ Quiet

\* A retry claims the row before it consumes an attempt.
Claim(p, m) ==
    LET j == job[p][m]
        proof == IF j.stage = "proved" THEN <<j.snap.claim, j.snap.stamp>> ELSE NoProof
    IN
    /\ \/ j.stage = "proved"
       \/ j.stage = "scanned" /\ ~NeedsReconciliation(j.snap)
    /\ IF Claimable(row[m], proof)
       THEN /\ lastClaim' = lastClaim + 1
            /\ Write(m, ClaimedBy(row[m], lastClaim'))
            /\ Do(p, m, [j EXCEPT !.stage = "reserving", !.claim = lastClaim'])
       ELSE End(p, m) /\ UNCHANGED <<row, lastClaim>>
    /\ UNCHANGED <<copies, sends, told, loose, spent>>

\* Mutant: the attempt is counted in memory only.
ReserveInMemory(p, m) ==
    /\ job[p][m].stage = "reserving"
    /\ Live(m, job[p][m].claim)
    /\ At(p, m, IF Tries(row[m]) < MaxRetries THEN "held" ELSE "settling")
    /\ UNCHANGED row
    /\ Quiet

Reserve(p, m) ==
    LET j == job[p][m]
        tries == Tries(row[m])
    IN
    /\ j.stage = "reserving"
    /\ IF ~Live(m, j.claim) THEN End(p, m) /\ UNCHANGED row
       ELSE IF tries >= MaxRetries THEN At(p, m, "settling") /\ UNCHANGED row
       ELSE /\ Write(m, [row[m] EXCEPT !.attempts = tries + 1])
            /\ At(p, m, "held")
    /\ Quiet

\* The gateway is shutting down: an attempt that was marked for dispatch
\* but not admitted gets the row it found back.
Stop(p, m) ==
    LET j == job[p][m] IN
    /\ j.stage = "cleared" /\ j.kind = "recovery"
    /\ Spend("crash", MaxCrashes)
    /\ IF j.claim # 0 /\ Owns(m, j.claim)
       THEN Write(m, [j.snap EXCEPT !.retries = row[m].retries])
       ELSE UNCHANGED row
    /\ End(p, m)
    /\ UNCHANGED <<lastClaim, copies, sends, told, loose>>

\* Mutant: the row is compacted before its owner is told.
CompactedFirst(r) == [Blank EXCEPT !.status = "deleted"]
Staged(r) == [r EXCEPT !.status = "failed", !.state = "settlement_pending"]

\* Send custody ends before the owner is told: the row becomes failed for
\* the claim the job holds, for an expired claim it takes over, or for the
\* unleased attempt it found.
Settle(p, m) ==
    LET j == job[p][m]
        reclaims == j.snap.state = "producer_claimed" /\ j.claim = 0
        owner == IF j.claim # 0 THEN j.claim ELSE j.snap.claim
        staged == IF reclaims
                  THEN Staged(ClaimedBy(row[m], lastClaim + 1))
                  ELSE Staged(row[m])
    IN
    /\ j.stage = "settling"
    /\ IF \/ reclaims /\ Claimable(row[m], NoProof)
          \/ /\ ~reclaims /\ Owns(m, owner)
             /\ j.claim # 0 \/ ~ActiveOwner(row[m])
       THEN /\ Write(m, staged)
            /\ Do(p, m, [j EXCEPT !.stage = "finalizing", !.snap = staged])
            /\ lastClaim' = IF reclaims THEN lastClaim + 1 ELSE lastClaim
       ELSE End(p, m) /\ UNCHANGED <<row, lastClaim>>
    /\ UNCHANGED <<copies, sends, told, loose, spent>>

\* Only the exact staged row is compacted, and then the owner is told.
Finalize(p, m) ==
    /\ job[p][m].stage = "finalizing"
    /\ IF row[m] = job[p][m].snap
       THEN Write(m, Compacted(m)) /\ Tell(m)
       ELSE UNCHANGED <<row, told>>
    /\ End(p, m)
    /\ UNCHANGED <<lastClaim, copies, sends, loose, spent>>

----------------------------------------------------------------------------
(* The environment *)

InFlight(p, m) == job[p][m].stage = "flight"
Worked(m) == \E p \in Processes :
                job[p][m].claim # 0 /\ job[p][m].claim = row[m].claim

\* The lease runs out: at once when nobody renews it, otherwise because the
\* holder's renewals failed for the whole lease, which aborts its send.
LeaseEnds(m) ==
    /\ row[m].leased
    /\ IF Worked(m) THEN Spend("stall", MaxStalls) ELSE UNCHANGED spent
    /\ \A p \in Processes : ~InFlight(p, m) \/ job[p][m].claim # row[m].claim
    /\ Write(m, [row[m] EXCEPT !.leased = FALSE])
    /\ UNCHANGED <<job, lastClaim, copies, sends, told, loose>>

\* The process dies; each send in flight has reached the platform or not.
Crash(p) ==
    /\ \E m \in Messages : job[p][m].stage # "idle"
    /\ Spend("crash", MaxCrashes)
    /\ \E landed \in SUBSET {m \in Messages : InFlight(p, m)} :
           copies' = [m \in Messages |-> copies[m] + (IF m \in landed THEN 1 ELSE 0)]
    /\ job' = [job EXCEPT ![p] = [m \in Messages |-> NoJob]]
    /\ UNCHANGED <<row, lastClaim, sends, told, loose>>

JobStep(p, m) ==
    \/ BeginLive(p, m) \/ PreSend(p, m) \/ PreSendFails(p, m)
    \/ MarkDispatch(p, m) \/ DispatchFails(p, m)
    \/ Send(p, m) \/ Arrive(p, m)
    \/ RecordResult(p, m) \/ RecordFails(p, m)
    \/ Ack(p, m) \/ AckFails(p, m)
    \/ AnswerVague(p, m) \/ AnswerError(p, m) \/ AnswerNotSent(p, m)
    \/ AnswerRejected(p, m) \/ AnswerLoose(p, m)
    \/ LeaseLost(p, m)
    \/ Reconcile(p, m) \/ Claim(p, m) \/ Reserve(p, m) \/ Stop(p, m)
    \/ Settle(p, m) \/ Finalize(p, m)

Next ==
    \/ \E p \in Processes, m \in Messages :
          \/ Submit(p, m) \/ Resubmit(p, m) \/ Scan(p, m) \/ Cancel(p, m)
          \/ JobStep(p, m)
    \/ \E m \in Messages : LeaseEnds(m)
    \/ \E p \in Processes : Crash(p)

Spec == Init /\ [][Next]_vars

\* Jobs run, adapters answer, scans recur, and leases nobody renews run out.
Fairness ==
    /\ \A p \in Processes, m \in Messages :
          WF_vars(JobStep(p, m)) /\ WF_vars(Scan(p, m))
    /\ \A m \in Messages : WF_vars(~Worked(m) /\ LeaseEnds(m))

FairSpec == Spec /\ Fairness

----------------------------------------------------------------------------
(* Properties *)

\* The queue's types, and each row's evidence in one piece.
TypeOK ==
    /\ row \in [Messages -> GoodRow]
    /\ job \in [Processes -> [Messages -> Job]]
    /\ lastClaim \in Nat
    /\ copies \in [Messages -> Nat] /\ sends \in [Messages -> Nat]
    /\ told \subseteq Messages /\ loose \subseteq Messages
    /\ spent \in [{"crash", "stall", "fault", "replay"} -> Nat]

(***************************************************************************)
(* No message reaches the platform twice, whatever crashes, lease losses,  *)
(* replays and recovery scans interleave                                   *)
(* (delivery-queue-recovery.ts:719, "cannot be blindly replayed").         *)
(***************************************************************************)
AtMostOnce == \A m \in Messages : copies[m] <= 1

(***************************************************************************)
(* While a send is in flight under custody, the durable row already says   *)
(* so, with that attempt's id: a crash at that moment leaves evidence.     *)
(***************************************************************************)
EvidenceFirst ==
    \A p \in Processes, m \in Messages :
        InFlight(p, m) /\ job[p][m].claim # 0
            => /\ Owns(m, job[p][m].claim)
               /\ row[m].state \in Evidence /\ row[m].stamp # 0

(***************************************************************************)
(* Sends are bounded: each accepted row has a retry budget and a live send *)
(* of its own, also when processes die between the reservation and the     *)
(* send.  A stable intent is accepted again by a replay.                   *)
(***************************************************************************)
SendsBounded ==
    \A m \in Messages :
        sends[m] <= (MaxRetries + 1) * IF m \in Stable THEN 1 + spent["replay"] ELSE 1

(***************************************************************************)
(* A message whose row has ended was delivered, or its failure was told,   *)
(* or it was a best-effort message sent without custody.                   *)
(***************************************************************************)
NoSilentLoss ==
    \A m \in Messages :
        row[m].status \in {"completed", "deleted", "failed"} /\ ~Unfinished(row[m])
            => copies[m] > 0 \/ m \in told \/ m \in loose

(***************************************************************************)
(* Failed custody forbids sends even after a restart                       *)
(* (settleQueuedFailure): nothing of a failed row goes out, except what    *)
(* was already in flight.                                                  *)
(***************************************************************************)
FailedForbidsSends ==
    [][\A m \in Messages :
          row[m].status = "failed"
              => sends'[m] = sends[m] /\ row'[m].status \in {"failed", "deleted"}]_vars

(***************************************************************************)
(* Every message's row ends: it does not stay pending or half settled.     *)
(***************************************************************************)
EveryMessageEnds ==
    \A m \in Messages : Unfinished(row[m]) ~> ~Unfinished(row[m])

(***************************************************************************)
(* The queue keeps the promise of DeliveryPromise: a message's life as its *)
(* row and its loose sender show it.                                       *)
(***************************************************************************)
Life(m) ==
    IF row[m].status = "new" THEN "new"
    ELSE IF Unfinished(row[m]) THEN "queued"
    ELSE IF \E p \in Processes : job[p][m].claim = 0
                               /\ job[p][m].stage \in {"cleared", "flight", "arrived"}
    THEN "loose" ELSE "ended"

Promise == INSTANCE DeliveryPromise WITH life <- [m \in Messages |-> Life(m)]

KeepsPromise == Promise!Spec
=============================================================================
