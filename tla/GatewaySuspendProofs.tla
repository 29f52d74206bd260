------------------------ MODULE GatewaySuspendProofs ------------------------
(***************************************************************************)
(* Proofs about GatewaySuspend, for every finite set of chains, every set  *)
(* of roots, work and requests and every bound.  First the coordinator:    *)
(* the fence of a suspension always has an owner that can take it down,    *)
(* and the scheduler is paused exactly behind it.  Then the admissions:    *)
(* the reference counts, the quiet of a prepared suspension, the waiters,  *)
(* the restart fence and the leases.                                       *)
(*                                                                         *)
(* The coordinator's operators work on records, so its invariant is stated *)
(* of a record (Sound, Follows) and each operator is shown to keep it; an  *)
(* action commits the record its operators return.                         *)
(***************************************************************************)
EXTENDS GatewaySuspend, FiniteSetTheorems, TLAPS

States == [phase : Phases, generation : Nat, current : Entries, nextId : Nat,
           timers : SUBSET Timers, paused : BOOLEAN, wake : BOOLEAN]

HasTimer(s) == \E t \in s.timers : t.id = s.current.id /\ t.timer = s.current.timer

Owned(s) ==
    /\ s.phase = "accepting" <=> s.current.kind = "none"
    /\ s.current.kind # "none" => CanMove(s, s.current.lease, Reopens(s.current)) /\ HasTimer(s)
    /\ s.current.kind = "held" =>
          s.current.reopen = "release" /\ (s.current.ready <=> s.phase = "prepared")

Behind(s, drain) ==
    /\ s.phase # "accepting" => s.paused
    /\ s.paused => s.phase # "accepting" \/ drain

Sound(s, drain) ==
    s \in States /\ Owned(s) /\ Behind(s, drain) /\ (drain => s.phase = "accepting")

\* The inductive invariant.  It adds to the two properties the types, and that
\* a held lease is one that release() takes down.
SuspendInv ==
    /\ Sound(Now, restartDraining)
    /\ restartDraining \in BOOLEAN
    /\ restartDraining => ~restartSignalPending

-----------------------------------------------------------------------------
(* The operators on records *)

\* clearEntryTimer changes the entry's timer generation and its timers alone.
LEMMA UnarmFacts ==
    ASSUME NEW s \in States
    PROVE  /\ Unarm(s) \in States
           /\ Unarm(s).current = [s.current EXCEPT !.timer = @ + 1]
           /\ Unarm(s).phase = s.phase /\ Unarm(s).generation = s.generation
           /\ Unarm(s).nextId = s.nextId /\ Unarm(s).paused = s.paused
           /\ Unarm(s).wake = s.wake
  <1>1. s.current \in Entries /\ s.timers \subseteq Timers
    BY DEF States
  <1>2. [s.current EXCEPT !.timer = @ + 1] \in Entries
    BY <1>1 DEF Entries
  <1>3. {t \in s.timers : t.id # s.current.id \/ t.queued} \subseteq Timers
    BY <1>1
  <1>4. Unarm(s) = [s EXCEPT !.current = [s.current EXCEPT !.timer = @ + 1],
                             !.timers = {t \in s.timers : t.id # s.current.id \/ t.queued}]
    BY DEF Unarm, States
  <1> QED
    BY <1>2, <1>3, <1>4 DEF States

\* scheduleEntry leaves the current entry with a timer of its own.
LEMMA ArmFacts ==
    ASSUME NEW s \in States
    PROVE  /\ Arm(s) \in States
           /\ HasTimer(Arm(s))
           /\ Arm(s).current = [s.current EXCEPT !.timer = @ + 1]
           /\ Arm(s).phase = s.phase /\ Arm(s).generation = s.generation
           /\ Arm(s).nextId = s.nextId /\ Arm(s).paused = s.paused
  <1> DEFINE u == Unarm(s)
             t == [id |-> u.current.id, timer |-> u.current.timer, queued |-> FALSE]
  <1>1. u \in States
    BY UnarmFacts
  <1>2. t \in Timers
    BY <1>1 DEF States, Entries, Timers
  <1>3. Arm(s) = [u EXCEPT !.timers = u.timers \cup {t}]
    BY <1>1 DEF Arm, States
  <1>4. /\ Arm(s) \in States /\ t \in Arm(s).timers /\ Arm(s).current = u.current
        /\ Arm(s).phase = u.phase /\ Arm(s).generation = u.generation
        /\ Arm(s).nextId = u.nextId /\ Arm(s).paused = u.paused
    BY <1>1, <1>2, <1>3 DEF States
  <1>5. HasTimer(Arm(s))
    BY <1>4 DEF HasTimer
  <1> QED
    BY <1>4, <1>5, UnarmFacts

\* Storing a new entry gives it a fresh identity and changes nothing else.
LEMMA InstallFacts ==
    ASSUME NEW s \in States, NEW e \in Entries
    PROVE  /\ Install(s, e) \in States
           /\ Install(s, e).current = [e EXCEPT !.id = s.nextId]
           /\ Install(s, e).phase = s.phase /\ Install(s, e).generation = s.generation
           /\ Install(s, e).paused = s.paused
  <1>1. [e EXCEPT !.id = s.nextId] \in Entries
    BY DEF Entries, States
  <1>2. s.nextId + 1 \in Nat
    BY DEF States
  <1>3. ASSUME NEW f \in Entries, NEW n \in Nat
        PROVE  LET r == [s EXCEPT !.current = f, !.nextId = n] IN
               /\ r \in States /\ r.current = f
               /\ r.phase = s.phase /\ r.generation = s.generation /\ r.paused = s.paused
    BY DEF States
  <1> QED
    BY <1>1, <1>2, <1>3 DEF Install

\* A transition of the admission phase changes the phase alone.
LEMMA MoveFacts ==
    ASSUME NEW s \in States, NEW to \in Phases
    PROVE  /\ Move(s, to) \in States
           /\ Move(s, to).phase = to
           /\ Move(s, to).current = s.current /\ Move(s, to).generation = s.generation
           /\ Move(s, to).timers = s.timers /\ Move(s, to).nextId = s.nextId
           /\ Move(s, to).paused = s.paused
  BY DEF Move, States

\* NoEntry and the entries that stand for a failed resumption are entries.
LEMMA EntryFacts ==
    /\ NoEntry \in Entries
    /\ \A lease \in Nat, reopen \in {"rollback", "release"} :
          /\ Recovery(lease, reopen) \in Entries
          /\ Recovery(lease, reopen).kind = "recovering"
          /\ Recovery(lease, reopen).lease = lease
          /\ Recovery(lease, reopen).reopen = reopen
  BY DEF NoEntry, Entries, Recovery

-----------------------------------------------------------------------------
(* What the operators preserve *)

\* Taking the fence down leaves no entry and a running scheduler.
LEMMA ReopenSound ==
    ASSUME NEW s \in States
    PROVE  Sound([Move(Unarm(s), "accepting") EXCEPT !.current = NoEntry, !.paused = FALSE], FALSE)
  <1> DEFINE m == Move(Unarm(s), "accepting")
  <1>1. m \in States /\ m.phase = "accepting"
    BY UnarmFacts, MoveFacts DEF Phases
  <1>2. NoEntry \in Entries /\ NoEntry.kind = "none"
    BY EntryFacts DEF NoEntry
  <1> DEFINE r == [m EXCEPT !.current = NoEntry, !.paused = FALSE]
  <1> HIDE DEF m
  <1>3. r \in States /\ r.phase = "accepting" /\ r.current = NoEntry /\ r.paused = FALSE
    BY <1>1, <1>2 DEF States
  <1> QED
    BY <1>2, <1>3 DEF Sound, Owned, Behind, m

\* A failed resumption leaves a recovery with the lease of the entry it
\* replaces, and a timer.
LEMMA EnterRecoverySound ==
    ASSUME NEW s \in States,
           s.current.kind # "none", s.phase # "accepting", s.paused,
           CanMove(s, s.current.lease, Reopens(s.current))
    PROVE  Sound(EnterRecovery(s), FALSE)
  <1>1. s.current \in Entries
    BY DEF States
  <1>2. CASE s.current.kind = "recovering"
    <2>1. EnterRecovery(s) = Arm(s)
      BY <1>2 DEF EnterRecovery
    <2>2. /\ Arm(s).current.kind = "recovering" /\ Arm(s).current.lease = s.current.lease
          /\ Arm(s).current.reopen = s.current.reopen
      BY <1>1, <1>2, ArmFacts DEF Entries
    <2> QED
      BY <2>1, <2>2, ArmFacts DEF Sound, Owned, Behind, CanMove, Reopens
  <1>3. CASE s.current.kind # "recovering"
    <2> DEFINE e == Recovery(s.current.lease, s.current.reopen)
               i == Install(Unarm(s), e)
    <2>a. s.current.lease \in Nat /\ s.current.reopen \in {"rollback", "release"}
      BY <1>1 DEF Entries
    <2>1. e \in Entries /\ e.kind = "recovering" /\ e.lease = s.current.lease
          /\ e.reopen = s.current.reopen
      BY <2>a, EntryFacts
    <2> HIDE DEF e
    <2>2. /\ i \in States /\ i.current = [e EXCEPT !.id = Unarm(s).nextId]
          /\ i.phase = s.phase /\ i.generation = s.generation /\ i.paused = s.paused
      <3>1. /\ Unarm(s) \in States /\ Unarm(s).phase = s.phase
            /\ Unarm(s).generation = s.generation /\ Unarm(s).paused = s.paused
        BY UnarmFacts
      <3>2. /\ i \in States /\ i.current = [e EXCEPT !.id = Unarm(s).nextId]
            /\ i.phase = Unarm(s).phase /\ i.generation = Unarm(s).generation
            /\ i.paused = Unarm(s).paused
        BY <2>1, <3>1, InstallFacts
      <3> QED
        BY <3>1, <3>2
    <2>3. /\ i.current.kind = "recovering" /\ i.current.lease = s.current.lease
          /\ i.current.reopen = s.current.reopen /\ i.current \in Entries
      BY <2>1, <2>2 DEF Entries, States
    <2> HIDE DEF i
    <2>4. /\ Arm(i).current.kind = "recovering" /\ Arm(i).current.lease = s.current.lease
          /\ Arm(i).current.reopen = s.current.reopen
      BY <2>2, <2>3, ArmFacts DEF Entries
    <2>5. EnterRecovery(s) = Arm(i)
      BY <1>3 DEF EnterRecovery, e, i
    <2>6. /\ Arm(i) \in States /\ HasTimer(Arm(i)) /\ Arm(i).phase = s.phase
          /\ Arm(i).generation = s.generation /\ Arm(i).paused = s.paused
      BY <2>2, ArmFacts
    <2> QED
      BY <2>4, <2>5, <2>6 DEF Sound, Owned, Behind, CanMove, Reopens
  <1> QED
    BY <1>2, <1>3

\* resumeAndReopen, of the state a poll or a timer callback finds (the callback's
\* own timer is gone already).
LEMMA ResumeSound ==
    ASSUME NEW s \in States, NEW ok \in BOOLEAN,
           s.current.kind # "none", s.phase # "accepting", s.paused,
           CanMove(s, s.current.lease, Reopens(s.current))
    PROVE  Sound(ResumeAndReopen(s, ok), FALSE)
  <1>1. CASE ok
    <2>1. ResumeAndReopen(s, ok) =
             [Move(Unarm(s), "accepting") EXCEPT !.current = NoEntry, !.paused = FALSE]
      BY <1>1 DEF ResumeAndReopen
    <2> QED
      BY <2>1, ReopenSound
  <1>2. CASE ~ok
    <2> DEFINE r == [s EXCEPT !.paused = @ /\ ~ok]
    <2>1. r = s
      BY <1>2 DEF States
    <2>2. ResumeAndReopen(s, ok) = EnterRecovery(r)
      BY <1>2 DEF ResumeAndReopen
    <2> QED
      BY <2>1, <2>2, EnterRecoverySound
  <1> QED
    BY <1>1, <1>2

\* What a call or a callback that finds an entry may assume of it.
LEMMA EntryIsOwner ==
    ASSUME NEW s, NEW drain \in BOOLEAN, Sound(s, drain), s.current.kind # "none"
    PROVE  /\ ~drain /\ s \in States /\ s.phase # "accepting" /\ s.paused
           /\ CanMove(s, s.current.lease, Reopens(s.current))
  BY DEF Sound, Owned, Behind

\* normalizeExpiredHeldSuspension
LEMMA NormalizeSound ==
    ASSUME NEW s, NEW drain \in BOOLEAN, Sound(s, drain), NEW ok \in BOOLEAN
    PROVE  Sound(Normalize(s, ok), drain)
  <1>1. CASE s.current.kind = "held" /\ s.current.expired
    <2>1. Normalize(s, ok) = ResumeAndReopen(s, ok) /\ s.current.kind # "none"
      BY <1>1 DEF Normalize
    <2>2. Sound(ResumeAndReopen(s, ok), FALSE) /\ ~drain
      BY <2>1, EntryIsOwner, ResumeSound
    <2> QED
      BY <2>1, <2>2 DEF Sound, Behind
  <1>2. CASE ~(s.current.kind = "held" /\ s.current.expired)
    BY <1>2 DEF Normalize
  <1> QED
    BY <1>1, <1>2

\* refreshHeldSuspension: a drain that completes keeps the lease and its timer.
LEMMA RefreshSound ==
    ASSUME NEW s, NEW drain \in BOOLEAN, Sound(s, drain), s.current.kind = "held", NEW c
    PROVE  Sound(Refresh(s, c), drain)
  <1> DEFINE m == Move(s, "prepared")
             r == [m EXCEPT !.current.ready = TRUE]
             e == [s.current EXCEPT !.ready = TRUE]
  <1>1. s \in States /\ s.current \in Entries /\ ~drain /\ s.paused
    BY EntryIsOwner DEF States
  <1>2. m \in States /\ m.phase = "prepared" /\ m.current = s.current
        /\ m.generation = s.generation /\ m.timers = s.timers /\ m.paused = s.paused
    BY <1>1, MoveFacts DEF Phases
  <1>3. /\ e \in Entries /\ e.ready = TRUE /\ e.kind = s.current.kind
        /\ e.lease = s.current.lease /\ e.reopen = s.current.reopen
        /\ e.id = s.current.id /\ e.timer = s.current.timer
    BY <1>1 DEF Entries
  <1> HIDE DEF m
  <1>4. r = [m EXCEPT !.current = e]
    BY <1>2 DEF States
  <1> HIDE DEF e
  <1>5. /\ r \in States /\ r.phase = "prepared" /\ r.current = e
        /\ r.generation = s.generation /\ r.timers = s.timers /\ r.paused = s.paused
    BY <1>2, <1>3, <1>4 DEF States
  <1> HIDE DEF r
  <1>6. Owned(r)
    BY <1>3, <1>5 DEF Sound, Owned, HasTimer, CanMove, Reopens
  <1>7. Sound(r, drain)
    BY <1>1, <1>5, <1>6 DEF Sound, Behind
  <1>8. Refresh(s, c) = r \/ Refresh(s, c) = s
    BY DEF Refresh, r, m
  <1> QED
    BY <1>7, <1>8

\* A renewal by the holder: the lease stays, with a new timer.
LEMMA RenewSound ==
    ASSUME NEW s, NEW drain \in BOOLEAN, Sound(s, drain), s.current.kind = "held", NEW c
    PROVE  Sound(Renew(s, c), drain)
  <1> DEFINE e == [s.current EXCEPT !.expired = FALSE]
             n == [s EXCEPT !.current = e]
  <1>1. s \in States /\ s.current \in Entries /\ ~drain /\ s.paused
    BY EntryIsOwner DEF States
  <1>2. /\ e \in Entries /\ e.kind = "held" /\ e.ready = s.current.ready
        /\ e.lease = s.current.lease /\ e.reopen = s.current.reopen
    BY <1>1 DEF Entries
  <1>3. [s EXCEPT !.current.expired = FALSE] = n
    BY <1>1
  <1> HIDE DEF e
  <1>4. /\ n \in States /\ n.phase = s.phase /\ n.current = e
        /\ n.generation = s.generation /\ n.paused = s.paused
    BY <1>1, <1>2 DEF States
  <1> HIDE DEF n
  <1>5. /\ Arm(n) \in States /\ HasTimer(Arm(n)) /\ Arm(n).phase = s.phase
        /\ Arm(n).generation = s.generation /\ Arm(n).paused = s.paused
        /\ Arm(n).current = [e EXCEPT !.timer = @ + 1]
    BY <1>4, ArmFacts
  <1>6. /\ Arm(n).current.kind = "held" /\ Arm(n).current.ready = s.current.ready
        /\ Arm(n).current.lease = s.current.lease /\ Arm(n).current.reopen = s.current.reopen
    BY <1>2, <1>5 DEF Entries
  <1>7. Sound(Arm(n), drain)
    BY <1>1, <1>5, <1>6 DEF Sound, Owned, Behind, CanMove, Reopens
  <1> QED
    BY <1>3, <1>6, <1>7, RefreshSound DEF Renew

\* The new lease of a prepare call, before it is held or abandoned.
LEMMA AcquireFacts ==
    ASSUME NEW s \in States
    PROVE  /\ Acquire(s) \in States /\ Acquire(s).phase = "preparing"
           /\ Acquire(s).paused = TRUE /\ Acquire(s).current = s.current
  <1> DEFINE m == Move(s, "preparing")
  <1>1. m \in States /\ m.phase = "preparing" /\ m.current = s.current
    BY MoveFacts DEF Phases
  <1>2. m.generation + 1 \in Nat
    BY <1>1 DEF States
  <1> HIDE DEF m
  <1>3. ASSUME NEW n \in Nat
        PROVE  LET r == [m EXCEPT !.generation = n, !.paused = TRUE] IN
               r \in States /\ r.phase = m.phase /\ r.paused = TRUE /\ r.current = m.current
    BY <1>1 DEF States
  <1> QED
    BY <1>1, <1>2, <1>3 DEF Acquire, m

\* A prepare call that holds its lease.
LEMMA HoldSound ==
    ASSUME NEW s \in States, s.paused, NEW request \in Requests, NEW ready \in BOOLEAN
    PROVE  Sound(Hold(s, request, ready), FALSE)
  <1> DEFINE to == IF ready THEN "prepared" ELSE "draining"
             e == [NoEntry EXCEPT !.kind = "held", !.request = request,
                                  !.ready = ready, !.lease = s.generation]
             i == Install(Move(s, to), e)
  <1>1. to \in Phases /\ to # "accepting" /\ to \in {"draining", "prepared"}
        /\ (ready <=> to = "prepared")
    BY DEF Phases
  <1> HIDE DEF to
  <1>2. /\ Move(s, to) \in States /\ Move(s, to).phase = to
        /\ Move(s, to).generation = s.generation /\ Move(s, to).paused = s.paused
    BY <1>1, MoveFacts
  <1>3. s.generation \in Nat
    BY DEF States
  <1>4. /\ e \in Entries /\ e.kind = "held" /\ e.ready = ready
        /\ e.lease = s.generation /\ e.reopen = "release"
    BY <1>3 DEF NoEntry, Entries
  <1> HIDE DEF e
  <1>5. /\ i \in States /\ i.current = [e EXCEPT !.id = Move(s, to).nextId]
        /\ i.phase = to /\ i.generation = s.generation /\ i.paused = s.paused
    BY <1>2, <1>4, InstallFacts
  <1>6. /\ i.current \in Entries /\ i.current.kind = "held" /\ i.current.ready = ready
        /\ i.current.lease = s.generation /\ i.current.reopen = "release"
    BY <1>4, <1>5 DEF Entries, States
  <1> HIDE DEF i
  <1>7. /\ Arm(i) \in States /\ HasTimer(Arm(i)) /\ Arm(i).phase = to
        /\ Arm(i).generation = s.generation /\ Arm(i).paused = s.paused
        /\ Arm(i).current = [i.current EXCEPT !.timer = @ + 1]
    BY <1>5, ArmFacts
  <1>8. /\ Arm(i).current.kind = "held" /\ Arm(i).current.ready = ready
        /\ Arm(i).current.lease = s.generation /\ Arm(i).current.reopen = "release"
    BY <1>6, <1>7 DEF Entries
  <1>9. Sound(Arm(i), FALSE)
    BY <1>1, <1>7, <1>8 DEF Sound, Owned, Behind, CanMove, Reopens
  <1>10. Hold(s, request, ready) = Arm(i)
    BY DEF Hold, i, e, to
  <1> QED
    BY <1>9, <1>10

\* A prepare call that cannot hold its lease: it reopens, or leaves a recovery
\* behind a fence that stays closed.
LEMMA AbandonSound ==
    ASSUME NEW s \in States, s.phase = "preparing", s.paused, s.current.kind = "none",
           NEW ok \in BOOLEAN
    PROVE  Sound(Abandon(s, ok), FALSE)
  <1>1. CASE ok
    <2> DEFINE m == Move(s, "accepting")
               r == [m EXCEPT !.paused = FALSE]
    <2>1. m \in States /\ m.phase = "accepting" /\ m.current = s.current
      BY MoveFacts DEF Phases
    <2> HIDE DEF m
    <2>2. r \in States /\ r.phase = "accepting" /\ r.current = s.current /\ r.paused = FALSE
      BY <2>1 DEF States
    <2>3. Abandon(s, ok) = r
      BY <1>1 DEF Abandon, m
    <2> QED
      BY <2>2, <2>3 DEF Sound, Owned, Behind
  <1>2. CASE ~ok
    <2> DEFINE e == Recovery(s.generation, "rollback")
               i == Install(s, e)
    <2>1. s.generation \in Nat
      BY DEF States
    <2>2. e \in Entries /\ e.kind = "recovering" /\ e.lease = s.generation
          /\ e.reopen = "rollback"
      BY <2>1, EntryFacts
    <2> HIDE DEF e
    <2>3. /\ i \in States /\ i.current = [e EXCEPT !.id = s.nextId]
          /\ i.phase = s.phase /\ i.generation = s.generation /\ i.paused = s.paused
      BY <2>2, InstallFacts
    <2>4. /\ i.current \in Entries /\ i.current.kind = "recovering"
          /\ i.current.lease = s.generation /\ i.current.reopen = "rollback"
      BY <2>2, <2>3 DEF Entries, States
    <2> HIDE DEF i
    <2>5. /\ Arm(i) \in States /\ HasTimer(Arm(i)) /\ Arm(i).phase = s.phase
          /\ Arm(i).generation = s.generation /\ Arm(i).paused = s.paused
          /\ Arm(i).current = [i.current EXCEPT !.timer = @ + 1]
      BY <2>3, ArmFacts
    <2>6. /\ Arm(i).current.kind = "recovering" /\ Arm(i).current.lease = s.generation
          /\ Arm(i).current.reopen = "rollback"
      BY <2>4, <2>5 DEF Entries
    <2>7. Abandon(s, ok) = Arm(i)
      BY <1>2 DEF Abandon, i, e
    <2> QED
      BY <2>5, <2>6, <2>7 DEF Sound, Owned, Behind, CanMove, Reopens
  <1> QED
    BY <1>1, <1>2

\* invalidateSuspendAdmission drops the suspension, whatever it is, and leaves
\* the scheduler as it is.
LEMMA InvalidateFacts ==
    ASSUME NEW s \in States
    PROVE  /\ Invalidate(s) \in States /\ Invalidate(s).phase = "accepting"
           /\ Invalidate(s).paused = s.paused
           /\ Invalidate(s).current = IF s.phase = "accepting" THEN s.current ELSE NoEntry
  <1>1. CASE s.phase = "accepting"
    BY <1>1 DEF Invalidate
  <1>2. CASE s.phase # "accepting"
    <2> DEFINE m == Move(Unarm(s), "accepting")
    <2>a. Unarm(s) \in States /\ Unarm(s).paused = s.paused /\ "accepting" \in Phases
      BY UnarmFacts DEF Phases
    <2>1. m \in States /\ m.phase = "accepting" /\ m.paused = s.paused
      BY <2>a, MoveFacts
    <2>2. PICK n \in Nat : n = m.generation + 1
      BY <2>1 DEF States
    <2>3. Invalidate(s) = [m EXCEPT !.generation = m.generation + 1, !.current = NoEntry]
      BY <1>2 DEF Invalidate
    <2> HIDE DEF m
    <2> DEFINE v == [m EXCEPT !.generation = n, !.current = NoEntry]
    <2>4. /\ v \in States /\ v.phase = m.phase /\ v.paused = m.paused
          /\ v.current = NoEntry
      BY <2>1, EntryFacts DEF States
    <2>5. Invalidate(s) = v
      BY <2>2, <2>3
    <2> HIDE DEF v
    <2> QED
      BY <1>2, <2>1, <2>4, <2>5
  <1> QED
    BY <1>1, <1>2

-----------------------------------------------------------------------------
(* The actions *)

\* What a turn commits is what the next one finds.
LEMMA CommitSound ==
    ASSUME NEW s, NEW drain \in BOOLEAN, Sound(s, drain), Commit(s)
    PROVE  Sound(Now, drain)'
  <1>1. s \in States
    BY DEF Sound
  <1>2. /\ Now'.phase = s.phase /\ Now'.generation = s.generation
        /\ Now'.current = s.current /\ Now'.nextId = s.nextId
        /\ Now'.timers = s.timers /\ Now'.paused = s.paused
    BY DEF Commit, Now
  <1>3. Now' \in States
    BY <1>1 DEF Commit, Now, States
  <1> QED
    BY <1>2, <1>3 DEF Sound, Owned, Behind, HasTimer, CanMove, Reopens

\* A step that leaves the coordinator, the phase and the drain alone.
LEMMA AloneSound ==
    ASSUME SuspendInv, UNCHANGED <<coordinator, suspendPhase, restartDraining>>,
           restartDraining => ~restartSignalPending'
    PROVE  SuspendInv'
  <1>1. Now' = Now
    BY DEF Now, coordinator
  <1>2. restartDraining' = restartDraining
    OBVIOUS
  <1> QED
    BY <1>1, <1>2 DEF SuspendInv, Sound, Owned, Behind, HasTimer, CanMove, Reopens

\* A step of the coordinator that leaves the restart fence alone.
LEMMA CommittedSound ==
    ASSUME SuspendInv, NEW s, Sound(s, restartDraining), Commit(s), UNCHANGED restart
    PROVE  SuspendInv'
  <1>1. restartDraining' = restartDraining /\ restartSignalPending' = restartSignalPending
    BY DEF restart
  <1>2. Sound(Now, restartDraining)'
    BY <1>1, CommitSound DEF SuspendInv
  <1> QED
    BY <1>1, <1>2 DEF SuspendInv

\* prepareGatewaySuspend
LEMMA PrepareSound ==
    ASSUME SuspendInv, NEW c \in Chains, NEW request \in Requests,
           NEW resumed \in BOOLEAN, NEW ok \in BOOLEAN, NEW inspected \in BOOLEAN,
           Prepare(c, request, resumed, ok, inspected)
    PROVE  SuspendInv'
  <1> DEFINE s == Normalize(Now, resumed)
  <1>1. Sound(s, restartDraining) /\ restartDraining \in BOOLEAN
    BY NormalizeSound DEF SuspendInv
  <1>2. UNCHANGED restart
    BY DEF Prepare
  <1>3. CASE Commit(s)
    BY <1>1, <1>2, <1>3, CommittedSound
  <1>4. CASE s.current.kind = "held" /\ Commit(Renew(s, c))
    <2>1. Sound(Renew(s, c), restartDraining)
      BY <1>1, <1>4, RenewSound
    <2> QED
      BY <2>1, <1>2, <1>4, CommittedSound
  <1> DEFINE a == Acquire(s)
  <1>5. CASE /\ s.current.kind = "none" /\ ~RestartFenced
             /\ Commit(Hold(a, request, IsIdle(c, request))) \/ Commit(Abandon(a, ok))
    <2>1. s \in States /\ restartDraining = FALSE
      BY <1>1, <1>5 DEF Sound, RestartFenced
    <2>2. a \in States /\ a.phase = "preparing" /\ a.paused = TRUE /\ a.current.kind = "none"
      BY <2>1, <1>5, AcquireFacts
    <2>3. IsIdle(c, request) \in BOOLEAN
      BY DEF IsIdle
    <2> HIDE DEF a
    <2>4. Sound(Hold(a, request, IsIdle(c, request)), FALSE) /\ Sound(Abandon(a, ok), FALSE)
      BY <2>2, <2>3, HoldSound, AbandonSound
    <2> QED
      BY <2>1, <2>4, <1>2, <1>5, CommittedSound
  <1>6. s.current.kind \in {"none", "held", "recovering"}
    BY <1>1 DEF Sound, States, Entries
  <1> HIDE DEF s
  <1>7. \/ Commit(s)
        \/ s.current.kind = "held" /\ Commit(Renew(s, c))
        \/ /\ s.current.kind = "none" /\ ~RestartFenced
           /\ Commit(Hold(Acquire(s), request, IsIdle(c, request)))
              \/ Commit(Abandon(Acquire(s), ok))
    BY <1>6 DEF Prepare, s
  <1> QED
    BY <1>3, <1>4, <1>5, <1>7

\* getGatewaySuspendStatus
LEMMA StatusSound ==
    ASSUME SuspendInv, NEW c \in Chains, NEW id, NEW resumed \in BOOLEAN,
           Status(c, id, resumed)
    PROVE  SuspendInv'
  <1> DEFINE s == Normalize(Now, resumed)
             r == IF s.current.kind = "held" /\ s.current.id = id THEN Refresh(s, c) ELSE s
  <1>1. Sound(s, restartDraining) /\ restartDraining \in BOOLEAN
    BY NormalizeSound DEF SuspendInv
  <1>2. UNCHANGED restart /\ Commit(r)
    BY DEF Status
  <1> HIDE DEF s
  <1>3. Sound(r, restartDraining)
    BY <1>1, RefreshSound
  <1> QED
    BY <1>2, <1>3, CommittedSound

\* resumeGatewaySuspend
LEMMA ResumeCallSound ==
    ASSUME SuspendInv, NEW c \in Chains, NEW id, NEW ok \in BOOLEAN, Resume(c, id, ok)
    PROVE  SuspendInv'
  <1> DEFINE s == Normalize(Now, ok)
             r == IF s.current.kind = "held" /\ s.current.id = id
                  THEN ResumeAndReopen(s, ok) ELSE s
  <1>1. Sound(s, restartDraining) /\ restartDraining \in BOOLEAN
    BY NormalizeSound DEF SuspendInv
  <1>2. UNCHANGED restart /\ Commit(r)
    BY DEF Resume
  <1> HIDE DEF s
  <1>3. CASE s.current.kind = "held" /\ s.current.id = id
    <2>1. Sound(ResumeAndReopen(s, ok), FALSE) /\ restartDraining = FALSE
      BY <1>1, <1>3, EntryIsOwner, ResumeSound
    <2> QED
      BY <2>1, <1>2, <1>3, CommittedSound
  <1>4. CASE ~(s.current.kind = "held" /\ s.current.id = id)
    BY <1>1, <1>2, <1>4, CommittedSound
  <1> QED
    BY <1>3, <1>4

\* The deadline passing changes only what the next look at the lease finds.
LEMMA ExpireSound ==
    ASSUME SuspendInv, Expire
    PROVE  SuspendInv'
  <1> DEFINE e == [current EXCEPT !.expired = TRUE]
  <1>1. /\ Now \in States /\ current \in Entries
    BY DEF SuspendInv, Sound, States, Now
  <1>2. /\ e \in Entries /\ e.kind = current.kind /\ e.lease = current.lease
        /\ e.reopen = current.reopen /\ e.ready = current.ready
        /\ e.id = current.id /\ e.timer = current.timer
    BY <1>1 DEF Entries
  <1> HIDE DEF e
  <1>3. /\ current' = e
        /\ restartDraining' = restartDraining /\ restartSignalPending' = restartSignalPending
    BY DEF Expire, restart, e
  <1>a. Now' = [phase |-> suspendPhase, generation |-> suspendGeneration, current |-> e,
                nextId |-> nextId, timers |-> timers, paused |-> paused, wake |-> FALSE]
    BY <1>3 DEF Expire, Now
  <1>4. /\ Now' \in States /\ Now'.current = e /\ Now'.phase = Now.phase
        /\ Now'.generation = Now.generation /\ Now'.timers = Now.timers
        /\ Now'.paused = Now.paused /\ Now.current = current
    BY <1>1, <1>2, <1>a DEF States, Now
  <1>5. Sound(Now, restartDraining) /\ restartDraining \in BOOLEAN
    BY DEF SuspendInv
  <1>6. Now'.current.kind # "none" =>
           CanMove(Now', Now'.current.lease, Reopens(Now'.current)) /\ HasTimer(Now')
    BY <1>2, <1>4, <1>5 DEF Sound, Owned, HasTimer, CanMove, Reopens
  <1>7. Owned(Now') /\ Behind(Now', restartDraining)
    BY <1>2, <1>4, <1>5, <1>6 DEF Sound, Owned, Behind
  <1>8. Sound(Now, restartDraining)'
    BY <1>2, <1>3, <1>4, <1>5, <1>7 DEF Sound
  <1> QED
    BY <1>3, <1>8 DEF SuspendInv

\* A queued callback still stands for its timer.
LEMMA TimerDueSound ==
    ASSUME SuspendInv, NEW t \in timers, TimerDue(t)
    PROVE  SuspendInv'
  <1> DEFINE q == [t EXCEPT !.queued = TRUE]
             ts == (timers \ {t}) \cup {q}
  <1>1. Now \in States /\ timers \subseteq Timers
    BY DEF SuspendInv, Sound, States, Now
  <1>2. q \in Timers /\ q.id = t.id /\ q.timer = t.timer
    BY <1>1 DEF Timers
  <1> HIDE DEF q
  <1>3. /\ timers' = ts
        /\ restartDraining' = restartDraining /\ restartSignalPending' = restartSignalPending
    BY DEF TimerDue, restart, q
  <1>4. ts \subseteq Timers
    BY <1>1, <1>2
  <1>5. ASSUME NEW u \in timers
        PROVE  \E v \in ts : v.id = u.id /\ v.timer = u.timer
    BY <1>2
  <1> HIDE DEF ts
  <1>a. Now' = [phase |-> suspendPhase, generation |-> suspendGeneration, current |-> current,
                nextId |-> nextId, timers |-> ts, paused |-> paused, wake |-> FALSE]
    BY <1>3 DEF TimerDue, Now
  <1>6. /\ Now' \in States /\ Now'.current = Now.current /\ Now'.phase = Now.phase
        /\ Now'.generation = Now.generation /\ Now'.timers = ts /\ Now.timers = timers
        /\ Now'.paused = Now.paused
    BY <1>1, <1>4, <1>a DEF States, Now
  <1>7. Sound(Now, restartDraining) /\ restartDraining \in BOOLEAN
    BY DEF SuspendInv
  <1>8. Now'.current.kind # "none" => HasTimer(Now')
    BY <1>5, <1>6, <1>7 DEF Sound, Owned, HasTimer
  <1>9. Owned(Now') /\ Behind(Now', restartDraining)
    BY <1>6, <1>7, <1>8 DEF Sound, Owned, Behind, CanMove, Reopens
  <1>10. Sound(Now, restartDraining)'
    BY <1>3, <1>6, <1>7, <1>9 DEF Sound
  <1> QED
    BY <1>3, <1>10 DEF SuspendInv

\* A callback runs: its own entry's resumes, a stale one changes nothing.
LEMMA TimerFiresSound ==
    ASSUME SuspendInv, NEW t \in timers, NEW ok \in BOOLEAN, TimerFires(t, ok)
    PROVE  SuspendInv'
  <1> DEFINE s == [Now EXCEPT !.timers = timers \ {t}]
  <1>1. Now \in States /\ timers \subseteq Timers
    BY DEF SuspendInv, Sound, States, Now
  <1>2. /\ s \in States /\ s.current = current /\ s.phase = suspendPhase
        /\ s.generation = suspendGeneration /\ s.timers = timers \ {t} /\ s.paused = paused
    BY <1>1 DEF States, Now
  <1>3. [Now EXCEPT !.timers = @ \ {t}] = s
    BY DEF Now
  <1>4. UNCHANGED restart /\ Commit(IF IsCurrent(t) THEN ResumeAndReopen(s, ok) ELSE s)
    BY <1>3 DEF TimerFires
  <1>5. /\ Sound(Now, restartDraining) /\ Now.current = current /\ Now.phase = suspendPhase
        /\ Now.generation = suspendGeneration /\ Now.timers = timers /\ Now.paused = paused
    BY DEF SuspendInv, Now
  <1> HIDE DEF s
  <1>6. CASE IsCurrent(t)
    <2>1. /\ restartDraining = FALSE /\ suspendPhase # "accepting" /\ paused
          /\ CanMove(Now, current.lease, Reopens(current))
      BY <1>5, <1>6, EntryIsOwner DEF SuspendInv, IsCurrent
    <2>2. CanMove(s, s.current.lease, Reopens(s.current))
      BY <2>1, <1>2, <1>5 DEF CanMove
    <2>3. Sound(ResumeAndReopen(s, ok), FALSE)
      BY <2>1, <2>2, <1>2, <1>6, ResumeSound DEF IsCurrent
    <2> QED
      BY <2>1, <2>3, <1>4, <1>6, CommittedSound
  <1>7. CASE ~IsCurrent(t)
    <2>1. current.kind # "none" => HasTimer(s)
      BY <1>2, <1>5, <1>7 DEF Sound, Owned, HasTimer, IsCurrent
    <2>2. s.current.kind # "none" => CanMove(s, s.current.lease, Reopens(s.current))
      BY <1>2, <1>5 DEF Sound, Owned, CanMove, Reopens
    <2>3. Owned(s)
      BY <2>1, <2>2, <1>2, <1>5 DEF Sound, Owned
    <2>4. Sound(s, restartDraining)
      BY <2>3, <1>2, <1>5 DEF Sound, Behind
    <2> QED
      BY <2>4, <1>4, <1>7, CommittedSound
  <1> QED
    BY <1>6, <1>7

\* The restart supersedes the suspension and its recovery in one turn: the
\* fence passes to the drain, with the scheduler still paused.
LEMMA MarkDrainingSound ==
    ASSUME SuspendInv, MarkGatewayRestartDraining
    PROVE  SuspendInv'
  <1> DEFINE i == Invalidate(Now)
             r == [i EXCEPT !.wake = TRUE]
  <1>1. Sound(Now, restartDraining) /\ Now \in States
    BY DEF SuspendInv, Sound
  <1>2. i \in States /\ i.phase = "accepting" /\ i.current.kind = "none"
    <2>1. NoEntry.kind = "none"
      BY DEF NoEntry
    <2> QED
      BY <1>1, <2>1, InvalidateFacts DEF Sound, Owned
  <1> HIDE DEF i
  <1>3. r \in States /\ r.phase = "accepting" /\ r.current.kind = "none"
    BY <1>2 DEF States
  <1>4. Commit(r) /\ restartDraining' = TRUE /\ restartSignalPending' = FALSE
    BY DEF MarkGatewayRestartDraining, r, i
  <1> HIDE DEF r
  <1>5. Sound(r, TRUE)
    BY <1>3 DEF Sound, Owned, Behind
  <1> QED
    BY <1>4, <1>5, CommitSound DEF SuspendInv

\* The next lifecycle starts with no suspension and a running scheduler.
LEMMA LifecycleResetSound ==
    ASSUME SuspendInv, LifecycleReset
    PROVE  SuspendInv'
  <1>1. /\ Now \in States /\ Now.phase = "accepting" /\ Now.current.kind = "none"
    BY DEF SuspendInv, Sound, Owned, LifecycleReset
  <1>2. Now.generation + 1 \in Nat
    BY <1>1 DEF States
  <1>3. ASSUME NEW n \in Nat
        PROVE  LET v == [Now EXCEPT !.generation = n, !.paused = FALSE, !.wake = TRUE] IN
               /\ v \in States /\ v.phase = Now.phase /\ v.current = Now.current
               /\ v.paused = FALSE
    BY <1>1 DEF States
  <1> DEFINE r == [Now EXCEPT !.generation = Now.generation + 1, !.paused = FALSE, !.wake = TRUE]
  <1>4. [Now EXCEPT !.generation = @ + 1, !.paused = FALSE, !.wake = TRUE] = r
    BY DEF Now
  <1>5. Commit(r) /\ restartDraining' = FALSE
    BY <1>4 DEF LifecycleReset
  <1>6. r \in States /\ r.phase = "accepting" /\ r.current.kind = "none" /\ r.paused = FALSE
    BY <1>1, <1>2, <1>3
  <1> HIDE DEF r
  <1>7. Sound(r, FALSE)
    BY <1>6 DEF Sound, Owned, Behind
  <1> QED
    BY <1>5, <1>7, CommitSound DEF SuspendInv

\* A gateway starts open, with no suspension.
LEMMA InitSound ==
    ASSUME Init
    PROVE  SuspendInv
  <1>1. NoEntry \in Entries /\ NoEntry.kind = "none"
    BY EntryFacts DEF NoEntry
  <1>2. /\ Now.phase = "accepting" /\ Now.current = NoEntry /\ Now.paused = FALSE
        /\ Now.generation = 0 /\ Now.nextId = 1 /\ Now.timers = {} /\ Now.wake = FALSE
    BY DEF Init, Now
  <1>3. Now \in States
    BY <1>1 DEF Init, Now, States, Phases
  <1>4. Sound(Now, FALSE)
    BY <1>1, <1>2, <1>3 DEF Sound, Owned, Behind
  <1> QED
    BY <1>4 DEF Init, SuspendInv

\* Every step keeps the invariant, one action at a time.
LEMMA NextSound ==
    ASSUME SuspendInv, [Next]_vars
    PROVE  SuspendInv'
  <1>1. ASSUME NEW c \in Chains, ChainStep(c), UNCHANGED coordinator
        PROVE  SuspendInv'
    <2>1. UNCHANGED <<restartDraining, restartSignalPending, suspendPhase>>
      BY <1>1 DEF ChainStep, restart, BeginRoot, BeginControl, BeginPreparedRestart,
         BeginRestartStartup, BeginWhenOpen, RunOutside, AwaitFence, Continue, Readmit, End,
         Detach, DetachRoot, RunScope, CreateScope, ReleaseScope, DropScope, StartWork
    <2> QED
      BY <1>1, <2>1, AloneSound DEF SuspendInv
  <1>2. ASSUME NEW c \in Chains, ControlStep(c)
        PROVE  SuspendInv'
    BY <1>2, PrepareSound, StatusSound, ResumeCallSound DEF ControlStep
  <1>3. ASSUME NEW w \in Work, EndWork(w), UNCHANGED coordinator
        PROVE  SuspendInv'
    BY <1>3, AloneSound DEF SuspendInv, EndWork, restart
  <1>4. CASE Time
    BY <1>4, ExpireSound, TimerDueSound, TimerFiresSound DEF Time
  <1>5. ASSUME NEW c \in Chains, BeginSignal(c), UNCHANGED coordinator
        PROVE  SuspendInv'
    BY <1>5, AloneSound DEF SuspendInv, BeginSignal, RestartFenced
  <1>6. ASSUME NEW g \in signalLeases, RollbackSignal(g), UNCHANGED coordinator
        PROVE  SuspendInv'
    <2>1. UNCHANGED <<restartDraining, suspendPhase>>
      BY <1>6 DEF RollbackSignal
    <2>2. restartDraining => ~restartSignalPending'
      BY <1>6 DEF RollbackSignal, SuspendInv
    <2> QED
      BY <1>6, <2>1, <2>2, AloneSound
  <1>7. CASE RestartStep
    BY <1>5, <1>6, <1>7, MarkDrainingSound, LifecycleResetSound DEF RestartStep
  <1>8. CASE UNCHANGED vars
    BY <1>8, AloneSound DEF vars, restart, SuspendInv
  <1> QED
    BY <1>1, <1>2, <1>3, <1>4, <1>7, <1>8 DEF Next

-----------------------------------------------------------------------------
(* The theorems *)

\* SuspendInv is an invariant of every instance of the specification.
THEOREM SuspendInvariance == Spec => []SuspendInv
  BY InitSound, NextSound, PTL DEF Spec

\* The gateway is never closed for a suspension with nobody to reopen it:
\* invalidation, expiry, renewal, failed resumption and restart all leave the
\* fence with the entry that can take it down, and that entry with a timer.
THEOREM FenceHasOwnerTheorem == Spec => []FenceHasOwner
  <1>1. SuspendInv => FenceHasOwner
    BY DEF SuspendInv, Sound, Owned, HasTimer, FenceHasOwner, IsCurrent, Now, CanMove, Reopens
  <1> QED
    BY <1>1, SuspendInvariance, PTL

\* Admission never reopens with the scheduler paused, and the scheduler is never
\* left paused behind an open gateway, unless the process drains.
THEOREM SchedulerBehindFenceTheorem == Spec => []SchedulerBehindFence
  <1>1. SuspendInv => SchedulerBehindFence
    BY DEF SuspendInv, Sound, Behind, SchedulerBehindFence, Now
  <1> QED
    BY <1>1, SuspendInvariance, PTL

\* Once the process drains, every poll and every late callback finds no entry.
LEMMA DrainKeepsPause ==
    ASSUME SuspendInv, restartDraining, restartDraining', [Next]_vars
    PROVE  paused' = paused
  <1>1. current.kind = "none" /\ Now.paused = paused /\ Now.current = current
    BY DEF SuspendInv, Sound, Owned, Now
  <1>2. \A ok : Normalize(Now, ok) = Now
    BY <1>1 DEF Normalize
  <1>3. ASSUME Commit(Now)
        PROVE  paused' = paused
    BY <1>3 DEF Commit, Now
  <1>4. ASSUME NEW c \in Chains, ControlStep(c)
        PROVE  Commit(Now)
    <2>1. ASSUME NEW request, NEW resumed, NEW ok, NEW inspected,
                 Prepare(c, request, resumed, ok, inspected)
          PROVE  Commit(Now)
      BY <1>1, <1>2, <2>1 DEF Prepare, RestartFenced
    <2>2. ASSUME NEW id, NEW ok, Status(c, id, ok) \/ Resume(c, id, ok)
          PROVE  Commit(Now)
      BY <1>1, <1>2, <2>2 DEF Status, Resume
    <2> QED
      BY <1>4, <2>1, <2>2 DEF ControlStep
  <1>5. ASSUME NEW t \in timers, NEW ok \in BOOLEAN, TimerFires(t, ok)
        PROVE  paused' = paused
    BY <1>1, <1>5 DEF TimerFires, IsCurrent, Commit, Now
  <1>6. Time => paused' = paused
    BY <1>5 DEF Time, Expire, TimerDue
  <1>7. RestartStep => paused' = paused
    BY DEF RestartStep, MarkGatewayRestartDraining, LifecycleReset, coordinator
  <1> QED
    BY <1>3, <1>4, <1>6, <1>7 DEF Next, vars, coordinator

\* The drain begins without touching the scheduler.
LEMMA DrainBegins ==
    ASSUME SuspendInv, ~restartDraining, restartDraining', [Next]_vars
    PROVE  paused' = paused
  <1>1. ASSUME NEW c \in Chains, ChainStep(c)
        PROVE  restartDraining' = restartDraining
    BY <1>1 DEF ChainStep, restart, BeginRoot, BeginControl, BeginPreparedRestart,
       BeginRestartStartup, BeginWhenOpen, RunOutside, AwaitFence, Continue, Readmit, End,
       Detach, DetachRoot, RunScope, CreateScope, ReleaseScope, DropScope, StartWork
  <1>2. ASSUME NEW c \in Chains, ControlStep(c)
        PROVE  restartDraining' = restartDraining
    BY <1>2 DEF ControlStep, Prepare, Status, Resume, restart
  <1>3. Time => restartDraining' = restartDraining
    BY DEF Time, Expire, TimerDue, TimerFires, restart
  <1>4. MarkGatewayRestartDraining
    BY <1>1, <1>2, <1>3 DEF Next, vars, restart, RestartStep, BeginSignal, RollbackSignal,
       LifecycleReset, EndWork
  <1>5. Now \in States
    BY DEF SuspendInv, Sound
  <1>6. Invalidate(Now) \in States /\ Invalidate(Now).paused = Now.paused /\ Now.paused = paused
    BY <1>5, InvalidateFacts DEF Now
  <1> DEFINE i == Invalidate(Now)
  <1>7. Commit([i EXCEPT !.wake = TRUE])
    BY <1>4 DEF MarkGatewayRestartDraining
  <1>8. i \in States /\ i.paused = paused
    BY <1>6
  <1> HIDE DEF i
  <1>9. [i EXCEPT !.wake = TRUE].paused = paused
    BY <1>8 DEF States
  <1> QED
    BY <1>7, <1>9 DEF Commit

\* A shutdown never resumes the scheduler it stopped, whatever host call, timer
\* callback or failed resumption is still to come.
THEOREM NoResumeTheorem == Spec => NoResumeDuringShutdown
  <1>1. SuspendInv /\ [Next]_vars => [paused /\ restartDraining' => paused']_vars
    BY DrainKeepsPause, DrainBegins DEF SuspendInv
  <1> QED
    BY <1>1, SuspendInvariance, PTL DEF Spec, NoResumeDuringShutdown

-----------------------------------------------------------------------------
(* The reference counts of the roots *)

\* The chains whose leases, and those whose scopes, keep the root r.
Held(r) == {c \in Chains : chains[c].lease /\ chains[c].root = r}
Kept(r) == {c \in Chains : scopes[c].root = r /\ scopes[c].retained /\ ~scopes[c].released}

RootTypes ==
    /\ roots \in [Roots -> RootStates] /\ activeRootWork \subseteq Roots
    /\ chains \in [Chains -> ChainStates]
    /\ scopes \in [Chains -> ScopeStates]
    /\ \A r \in Roots : roots[r].retiredByReset => roots[r].released

\* A chain that has no lease, or one of a root that is gone: it has nothing to lose.
LeaseGone(x) == x.lease => roots[x.root].released

\* What a chain may be.  A live root is active, and it is a control root
\* exactly for the chains that handle a control request.
ChainGood(x) ==
    /\ x.lease => x.root \in Roots
    /\ x.pc = "idle" => x = Idle
    /\ x.pc \in {"parked", "woken"} /\ x.want = "root" => LeaseGone(x)
    /\ Live(x.root) => /\ x.root \in activeRootWork
                       /\ roots[x.root].origin = "gateway" <=> x.pc # "control"

ScopeGood(x) ==
    Live(x.root) => x.root \in activeRootWork /\ roots[x.root].origin = "gateway"

Counted == \A r \in activeRootWork :
    ~roots[r].released /\ roots[r].references = References(r) /\ References(r) > 0

\* The inductive invariant of the counts.
RootsInv ==
    /\ RootTypes
    /\ \A c \in Chains : ChainGood(chains[c]) /\ ScopeGood(scopes[c])
    /\ Counted

\* There are finitely many chains, so every root has finitely many keepers.
LEMMA KeepersFinite ==
    \A r : /\ IsFiniteSet(Held(r)) /\ Cardinality(Held(r)) \in Nat
           /\ IsFiniteSet(Kept(r)) /\ Cardinality(Kept(r)) \in Nat
  <1> TAKE r
  <1>1. Held(r) \in SUBSET Chains /\ Kept(r) \in SUBSET Chains
    BY DEF Held, Kept
  <1>2. IsFiniteSet(Held(r)) /\ IsFiniteSet(Kept(r))
    BY <1>1, ChainAssumption, FS_Subset
  <1> QED
    BY <1>2, FS_CardinalityType

\* The count of r before and after a step, in the names of this proof.
LEMMA Counts ==
    /\ \A r : References(r) = Cardinality(Held(r)) + Cardinality(Kept(r))
    /\ \A r : References(r)' = Cardinality(Held(r)') + Cardinality(Kept(r)')
  BY DEF References, Held, Kept

\* A count of keepers is a number.
LEMMA CountsNat == \A r : References(r) \in Nat
  BY Counts, KeepersFinite

\* Adding a keeper adds one to the count; losing one takes one off.
LEMMA CountGrows ==
    ASSUME NEW r, NEW c,
           \/ Held(r)' = Held(r) \cup {c} /\ c \notin Held(r) /\ Kept(r)' = Kept(r)
           \/ Kept(r)' = Kept(r) \cup {c} /\ c \notin Kept(r) /\ Held(r)' = Held(r)
    PROVE  References(r)' = References(r) + 1
  <1>1. c \notin Held(r) => Cardinality(Held(r) \cup {c}) = Cardinality(Held(r)) + 1
    BY KeepersFinite, FS_AddElement
  <1>2. c \notin Kept(r) => Cardinality(Kept(r) \cup {c}) = Cardinality(Kept(r)) + 1
    BY KeepersFinite, FS_AddElement
  <1>3. CASE Held(r)' = Held(r) \cup {c} /\ c \notin Held(r) /\ Kept(r)' = Kept(r)
    <2>1. Cardinality(Held(r)') = Cardinality(Held(r)) + 1 /\ Cardinality(Kept(r)') = Cardinality(Kept(r))
      BY <1>1, <1>3, Zenon
    <2> QED
      BY <2>1, Counts, KeepersFinite
  <1>4. CASE Kept(r)' = Kept(r) \cup {c} /\ c \notin Kept(r) /\ Held(r)' = Held(r)
    <2>1. Cardinality(Kept(r)') = Cardinality(Kept(r)) + 1 /\ Cardinality(Held(r)') = Cardinality(Held(r))
      BY <1>2, <1>4, Zenon
    <2> QED
      BY <2>1, Counts, KeepersFinite
  <1> QED
    BY <1>3, <1>4

\* Losing a keeper takes one off the count.
LEMMA CountShrinks ==
    ASSUME NEW r, NEW c,
           \/ Held(r)' = Held(r) \ {c} /\ c \in Held(r) /\ Kept(r)' = Kept(r)
           \/ Kept(r)' = Kept(r) \ {c} /\ c \in Kept(r) /\ Held(r)' = Held(r)
    PROVE  References(r)' = References(r) - 1
  <1>1. c \in Held(r) => Cardinality(Held(r) \ {c}) = Cardinality(Held(r)) - 1
    BY KeepersFinite, FS_RemoveElement
  <1>2. c \in Kept(r) => Cardinality(Kept(r) \ {c}) = Cardinality(Kept(r)) - 1
    BY KeepersFinite, FS_RemoveElement
  <1>3. CASE Held(r)' = Held(r) \ {c} /\ c \in Held(r) /\ Kept(r)' = Kept(r)
    <2>1. Cardinality(Held(r)') = Cardinality(Held(r)) - 1 /\ Cardinality(Kept(r)') = Cardinality(Kept(r))
      BY <1>1, <1>3, Zenon
    <2> QED
      BY <2>1, Counts, KeepersFinite
  <1>4. CASE Kept(r)' = Kept(r) \ {c} /\ c \in Kept(r) /\ Held(r)' = Held(r)
    <2>1. Cardinality(Kept(r)') = Cardinality(Kept(r)) - 1 /\ Cardinality(Held(r)') = Cardinality(Held(r))
      BY <1>2, <1>4, Zenon
    <2> QED
      BY <2>1, Counts, KeepersFinite
  <1> QED
    BY <1>3, <1>4

\* A root whose keepers stay keeps its count.
LEMMA CountStays ==
    ASSUME NEW r, Held(r)' = Held(r), Kept(r)' = Kept(r)
    PROVE  References(r)' = References(r)
  BY Counts

-----------------------------------------------------------------------------
(* The kinds of steps *)

\* The root of a step is the one chains see: what else a chain is does not matter.
LEMMA Untouched ==
    ASSUME RootsInv, UNCHANGED <<rootWork, chains, scopes>>
    PROVE  RootsInv'
  <1>1. \A r : References(r)' = References(r)
    BY DEF References
  <1> QED
    BY <1>1 DEF RootsInv, RootTypes, ChainGood, ScopeGood, Counted, LeaseGone, Live, rootWork

\* createGatewayRootWorkAdmission for a chain that has nothing to lose.
LEMMA EnterKeeps ==
    ASSUME RootsInv, NEW c \in Chains, NEW r \in Roots, NEW pc \in {"running", "control"},
           NEW origin \in Origins, origin = "gateway" <=> pc # "control",
           Enter(c, r, pc, origin), LeaseGone(chains[c]), UNCHANGED scopes
    PROVE  RootsInv'
  <1> DEFINE x == [pc |-> pc, want |-> "none", root |-> r, lease |-> TRUE]
             n == [references |-> 1, released |-> FALSE, retiredByReset |-> FALSE, origin |-> origin]
  <1>1. /\ chains' = [chains EXCEPT ![c] = x] /\ roots' = [roots EXCEPT ![r] = n]
        /\ activeRootWork' = activeRootWork \cup {r}
        /\ r \notin activeRootWork
        /\ \A d \in Chains : chains[d].root # r /\ scopes[d].root # r
    BY DEF Enter, CreateRoot, Available
  <1>2. x \in ChainStates /\ n \in RootStates
    BY DEF ChainStates, RootStates
  <1>3. RootTypes'
    BY <1>1, <1>2 DEF RootsInv, RootTypes
  <1>4. r # NoRoot
    BY RootAssumption
  <1>5. \A d \in Chains : ChainGood(chains[d])'
    <2> TAKE d \in Chains
    <2>1. CASE d = c
      <3>1. chains'[d] = x /\ roots'[r] = n
        BY <1>1, <2>1 DEF RootsInv, RootTypes
      <3> QED
        BY <3>1, <1>1 DEF ChainGood, LeaseGone, Live, Idle
    <2>2. CASE d # c
      <3>1. chains'[d] = chains[d] /\ chains[d].root # r
        BY <1>1, <2>2 DEF RootsInv, RootTypes
      <3>2. \A q : q # r => roots'[q] = roots[q]
        BY <1>1 DEF RootsInv, RootTypes
      <3> QED
        BY <3>1, <3>2, <1>1 DEF ChainGood, LeaseGone, Live, RootsInv
    <2> QED
      BY <2>1, <2>2
  <1>6. \A d \in Chains : ScopeGood(scopes[d])'
    <2>1. \A q : q # r => roots'[q] = roots[q]
      BY <1>1 DEF RootsInv, RootTypes
    <2> QED
      BY <2>1, <1>1 DEF ScopeGood, Live, RootsInv
  <1>7. References(r)' = 1 /\ 1 > 0
    <2>1. Held(r) = {} /\ Kept(r) = {} /\ Kept(r)' = {}
      BY <1>1 DEF Held, Kept
    <2>2. Held(r)' = {c}
      BY <1>1 DEF Held, RootsInv, RootTypes
    <2>3. References(r) = 0
      BY <2>1, Counts, FS_EmptySet
    <2> QED
      BY <2>1, <2>2, <2>3, CountGrows
  <1>8. ASSUME NEW q \in activeRootWork
        PROVE  /\ References(q)' = References(q) /\ q # r /\ roots'[q] = roots[q]
    <2>1. q # r /\ roots'[q] = roots[q]
      BY <1>1 DEF RootsInv, RootTypes
    <2>2. ~(chains[c].lease /\ chains[c].root = q)
      BY DEF RootsInv, Counted, LeaseGone
    <2>3. \A d \in Chains : (chains'[d].lease /\ chains'[d].root = q)
                              <=> (chains[d].lease /\ chains[d].root = q)
      BY <1>1, <2>1, <2>2 DEF RootsInv, RootTypes
    <2>4. Held(q)' = Held(q) /\ Kept(q)' = Kept(q)
      BY <2>3 DEF Held, Kept
    <2> QED
      BY <2>1, <2>4, CountStays
  <1>9. Counted'
    <2>1. roots'[r] = n
      BY <1>1 DEF RootsInv, RootTypes
    <2> QED
      BY <2>1, <1>1, <1>7, <1>8 DEF Counted, RootsInv
  <1> QED
    BY <1>3, <1>5, <1>6, <1>9 DEF RootsInv

\* A chain moves on with the root and the lease it has, or with nothing to lose.
LEMMA MoveKeeps ==
    ASSUME RootsInv, NEW c \in Chains, NEW x \in ChainStates, ChainGood(x),
           chains' = [chains EXCEPT ![c] = x], UNCHANGED <<rootWork, scopes>>,
           \/ x.lease = chains[c].lease /\ x.root = chains[c].root
           \/ ~x.lease /\ LeaseGone(chains[c])
    PROVE  RootsInv'
  <1>1. \A d \in Chains : chains'[d] = IF d = c THEN x ELSE chains[d]
    BY DEF RootsInv, RootTypes
  <1>2. UNCHANGED <<roots, activeRootWork, scopes>>
    BY DEF rootWork
  <1>3. RootTypes'
    BY <1>2 DEF RootsInv, RootTypes
  <1>4. \A d \in Chains : ChainGood(chains[d])' /\ ScopeGood(scopes[d])'
    BY <1>1, <1>2 DEF RootsInv, ChainGood, ScopeGood, LeaseGone, Live
  <1>5. ASSUME NEW q \in activeRootWork
        PROVE  References(q)' = References(q)
    <2>1. \A d \in Chains : (chains'[d].lease /\ chains'[d].root = q)
                              <=> (chains[d].lease /\ chains[d].root = q)
      BY <1>1 DEF RootsInv, Counted, LeaseGone
    <2>2. Held(q)' = Held(q) /\ Kept(q)' = Kept(q)
      BY <2>1, <1>2 DEF Held, Kept
    <2> QED
      BY <2>2, CountStays
  <1> QED
    BY <1>2, <1>3, <1>4, <1>5 DEF RootsInv, Counted

\* A release that takes one keeper of r away.
LEMMA ReleaseKeeps ==
    ASSUME RootsInv, NEW r \in Roots, ReleaseRoot(r), Live(r) => r \in activeRootWork,
           chains' \in [Chains -> ChainStates], scopes' \in [Chains -> ScopeStates],
           \A d \in Chains : ChainGood(chains'[d]) /\ ScopeGood(scopes'[d]),
           \A q \in activeRootWork \ {r} : References(q)' = References(q),
           r \in activeRootWork => References(r)' = References(r) - 1
    PROVE  RootsInv'
  <1>1. CASE roots[r].released
    <2>1. UNCHANGED <<roots, activeRootWork>> /\ r \notin activeRootWork
      BY <1>1 DEF ReleaseRoot, rootWork, RootsInv, Counted
    <2>2. \A d \in Chains : ChainGood(chains[d])' /\ ScopeGood(scopes[d])'
      BY <2>1 DEF ChainGood, ScopeGood, LeaseGone, Live
    <2> QED
      BY <2>1, <2>2 DEF RootsInv, RootTypes, Counted
  <1>2. CASE ~roots[r].released
    <2>1. r \in activeRootWork /\ roots[r].references = References(r) /\ References(r) > 0
      BY <1>2, RootAssumption DEF Live, RootsInv, Counted
    <2> DEFINE n == [roots[r] EXCEPT !.references = @ - 1, !.released = roots[r].references = 1]
    <2>2. /\ roots' = [roots EXCEPT ![r] = n]
          /\ activeRootWork' = IF roots[r].references = 1 THEN activeRootWork \ {r}
                               ELSE activeRootWork
      BY <1>2 DEF ReleaseRoot, RootsInv, RootTypes
    <2>3. roots[r] \in RootStates /\ roots[r].references \in Nat \ {0}
      BY <2>1, CountsNat DEF RootsInv, RootTypes, RootStates
    <2>a. ASSUME NEW k \in Nat, NEW b \in BOOLEAN
          PROVE  LET m == [roots[r] EXCEPT !.references = k, !.released = b] IN
                 /\ m \in RootStates /\ m.references = k /\ m.released = b
                 /\ m.origin = roots[r].origin /\ m.retiredByReset = roots[r].retiredByReset
      BY <2>3 DEF RootStates
    <2>b. roots[r].references - 1 \in Nat /\ (roots[r].references = 1) \in BOOLEAN
      BY <2>3
    <2>4. /\ n \in RootStates /\ n.references = roots[r].references - 1
          /\ n.released <=> (roots[r].references = 1)
          /\ n.origin = roots[r].origin
          /\ n.retiredByReset = roots[r].retiredByReset
      BY <2>a, <2>b
    <2> HIDE DEF n
    <2>5. \A q \in Roots : roots'[q] = IF q = r THEN n ELSE roots[q]
      BY <2>2 DEF RootsInv, RootTypes
    <2>6. RootTypes'
      BY <2>2, <2>4, <2>5, <1>2 DEF RootsInv, RootTypes
    <2>7. \A d \in Chains : chains'[d].root \in Roots \cup {NoRoot} /\ scopes'[d].root \in Roots \cup {NoRoot}
      BY DEF ChainStates, ScopeStates
    <2>8. \A d \in Chains : ChainGood(chains[d])'
      BY <2>2, <2>4, <2>5, <2>7, <1>2 DEF ChainGood, LeaseGone, Live
    <2>9. \A d \in Chains : ScopeGood(scopes[d])'
      BY <2>2, <2>4, <2>5, <2>7, <1>2 DEF ScopeGood, Live
    <2>10. Counted'
      BY <2>1, <2>2, <2>3, <2>4, <2>5, CountsNat DEF RootsInv, RootTypes, Counted
    <2> QED
      BY <2>6, <2>8, <2>9, <2>10 DEF RootsInv
  <1> QED
    BY <1>1, <1>2

\* One more keeper of a live root.
LEMMA AddKeeps ==
    ASSUME RootsInv, NEW r \in Roots, AddReference(r), r \in activeRootWork,
           chains' \in [Chains -> ChainStates], scopes' \in [Chains -> ScopeStates],
           \A d \in Chains : ChainGood(chains'[d]) /\ ScopeGood(scopes'[d]),
           \A q \in activeRootWork \ {r} : References(q)' = References(q),
           References(r)' = References(r) + 1
    PROVE  RootsInv'
  <1> DEFINE n == [roots[r] EXCEPT !.references = @ + 1]
  <1>1. roots' = [roots EXCEPT ![r] = n] /\ activeRootWork' = activeRootWork
    BY DEF AddReference, RootsInv, RootTypes
  <1>2. roots[r] \in RootStates
    BY DEF RootsInv, RootTypes
  <1>3. /\ n \in RootStates /\ n.references = roots[r].references + 1
        /\ n.released = roots[r].released /\ n.origin = roots[r].origin
          /\ n.retiredByReset = roots[r].retiredByReset
    BY <1>2 DEF RootStates
  <1> HIDE DEF n
  <1>4. \A q \in Roots : roots'[q] = IF q = r THEN n ELSE roots[q]
    BY <1>1 DEF RootsInv, RootTypes
  <1>5. RootTypes'
    BY <1>1, <1>3, <1>4 DEF RootsInv, RootTypes
  <1>6. \A d \in Chains : chains'[d].root \in Roots \cup {NoRoot} /\ scopes'[d].root \in Roots \cup {NoRoot}
    BY DEF ChainStates, ScopeStates
  <1>7. \A d \in Chains : ChainGood(chains[d])'
    BY <1>1, <1>3, <1>4, <1>6 DEF ChainGood, LeaseGone, Live
  <1>8. \A d \in Chains : ScopeGood(scopes[d])'
    BY <1>1, <1>3, <1>4, <1>6 DEF ScopeGood, Live
  <1>9. Counted'
    BY <1>1, <1>3, <1>4, CountsNat DEF RootsInv, RootTypes, Counted
  <1> QED
    BY <1>5, <1>7, <1>8, <1>9 DEF RootsInv

\* A scope changes that keeps no live root, before or after.
LEMMA ScopeKeeps ==
    ASSUME RootsInv, NEW c \in Chains, NEW y \in ScopeStates, ScopeGood(y),
           scopes' = [scopes EXCEPT ![c] = y], UNCHANGED <<rootWork, chains>>,
           y.retained /\ ~y.released => ~Live(y.root),
           scopes[c].retained /\ ~scopes[c].released => ~Live(scopes[c].root)
    PROVE  RootsInv'
  <1>1. \A d \in Chains : scopes'[d] = IF d = c THEN y ELSE scopes[d]
    BY DEF RootsInv, RootTypes
  <1>2. UNCHANGED <<roots, activeRootWork, chains>>
    BY DEF rootWork
  <1>3. RootTypes'
    BY <1>2 DEF RootsInv, RootTypes
  <1>4. \A d \in Chains : ChainGood(chains[d])' /\ ScopeGood(scopes[d])'
    BY <1>1, <1>2 DEF RootsInv, ChainGood, ScopeGood, LeaseGone, Live
  <1>5. ASSUME NEW q \in activeRootWork
        PROVE  References(q)' = References(q)
    <2>1. Live(q)
      BY RootAssumption DEF RootsInv, RootTypes, Counted, Live
    <2>2. \A d \in Chains :
             (scopes'[d].root = q /\ scopes'[d].retained /\ ~scopes'[d].released)
               <=> (scopes[d].root = q /\ scopes[d].retained /\ ~scopes[d].released)
      BY <1>1, <2>1
    <2>3. Held(q)' = Held(q) /\ Kept(q)' = Kept(q)
      BY <2>2, <1>2 DEF Held, Kept
    <2> QED
      BY <2>3, CountStays
  <1> QED
    BY <1>2, <1>3, <1>4, <1>5 DEF RootsInv, Counted

\* resolveSuspendOpenWaiters changes no chain's root, lease or role.
LEMMA WakeKeeps ==
    ASSUME RootsInv, chains' = WakeAll(chains) \/ UNCHANGED chains, UNCHANGED <<rootWork, scopes>>
    PROVE  RootsInv'
  <1>1. CASE chains' = WakeAll(chains)
    <2>1. UNCHANGED <<roots, activeRootWork, scopes>>
      BY DEF rootWork
    <2>2. ASSUME NEW d \in Chains
          PROVE  /\ chains'[d] \in ChainStates /\ ChainGood(chains'[d])
                 /\ chains'[d].lease = chains[d].lease /\ chains'[d].root = chains[d].root
      <3>1. chains[d] \in ChainStates /\ ChainGood(chains[d])
        BY DEF RootsInv, RootTypes
      <3>2. chains'[d] = IF chains[d].pc = "parked" THEN [chains[d] EXCEPT !.pc = "woken"]
                         ELSE chains[d]
        BY <1>1 DEF WakeAll
      <3> QED
        BY <3>1, <3>2 DEF ChainStates, ChainGood, LeaseGone
    <2>3. chains' \in [Chains -> ChainStates]
      <3>1. chains' = [d \in Chains |-> chains'[d]]
        BY <1>1 DEF WakeAll
      <3> QED
        BY <3>1, <2>2
    <2>4. \A d \in Chains : ChainGood(chains[d])' /\ ScopeGood(scopes[d])'
      BY <2>1, <2>2 DEF RootsInv, ChainGood, ScopeGood, LeaseGone, Live
    <2>5. ASSUME NEW q
          PROVE  References(q)' = References(q)
      <3>1. Held(q)' = Held(q) /\ Kept(q)' = Kept(q)
        BY <2>1, <2>2 DEF Held, Kept
      <3> QED
        BY <3>1, CountStays
    <2> QED
      BY <2>1, <2>3, <2>4, <2>5 DEF RootsInv, RootTypes, Counted
  <1>2. CASE UNCHANGED chains
    BY <1>2, Untouched
  <1> QED
    BY <1>1, <1>2

-----------------------------------------------------------------------------
(* The chains' actions *)

\* A round of a waiting loop, of a chain that has nothing to lose.
LEMMA AdmitKeeps ==
    ASSUME RootsInv, NEW c \in Chains, AdmitOrWait(c), UNCHANGED scopes,
           LeaseGone(chains[c]), chains[c].pc # "control"
    PROVE  RootsInv'
  <1>1. chains[c] \in ChainStates /\ ChainGood(chains[c])
    BY DEF RootsInv, RootTypes
  <1>2. ASSUME NEW r \in Roots, Enter(c, r, "running", "gateway")
        PROVE  RootsInv'
    BY <1>2, EnterKeeps DEF Origins
  <1>3. CASE chains' = [chains EXCEPT ![c] = Idle] /\ UNCHANGED rootWork
    <2>1. Idle \in ChainStates /\ ChainGood(Idle) /\ ~Idle.lease
      BY DEF Idle, ChainStates, ChainGood, LeaseGone, Live
    <2> QED
      BY <1>3, <2>1, MoveKeeps
  <1>4. CASE Park(c, "root")
    <2> DEFINE x == [chains[c] EXCEPT !.pc = "parked", !.want = "root"]
    <2>1. chains' = [chains EXCEPT ![c] = x] /\ UNCHANGED rootWork
      BY <1>4 DEF Park, RootsInv, RootTypes
    <2>2. x \in ChainStates /\ x.lease = chains[c].lease /\ x.root = chains[c].root
          /\ x.pc = "parked"
      BY <1>1 DEF ChainStates
    <2> HIDE DEF x
    <2>3. ChainGood(x)
      BY <1>1, <2>2 DEF ChainGood, LeaseGone
    <2> QED
      BY <2>1, <2>2, <2>3, MoveKeeps
  <1> QED
    BY <1>2, <1>3, <1>4 DEF AdmitOrWait

\* Requests, timers and process-lifetime work that begin in an idle chain.
LEMMA BeginKeeps ==
    ASSUME RootsInv, NEW c \in Chains,
           \/ BeginRoot(c) \/ BeginControl(c) \/ BeginPreparedRestart(c)
           \/ BeginRestartStartup(c) \/ BeginWhenOpen(c) \/ RunOutside(c)
    PROVE  RootsInv'
  <1>1. chains[c] = Idle /\ chains[c] \in ChainStates /\ LeaseGone(chains[c]) /\ UNCHANGED scopes
    BY DEF RootsInv, RootTypes, ChainGood, LeaseGone, Idle, BeginRoot, BeginControl,
       BeginPreparedRestart, BeginRestartStartup, BeginWhenOpen, RunOutside
  <1>2. ASSUME NEW pc \in {"running", "control"}, chains' = [chains EXCEPT ![c].pc = pc],
               UNCHANGED rootWork
        PROVE  RootsInv'
    <2> DEFINE x == [Idle EXCEPT !.pc = pc]
    <2>1. chains' = [chains EXCEPT ![c] = x]
      BY <1>1, <1>2 DEF RootsInv, RootTypes
    <2>2. x \in ChainStates /\ ~x.lease /\ ChainGood(x)
      BY DEF Idle, ChainStates, ChainGood, LeaseGone, Live
    <2> HIDE DEF x
    <2> QED
      BY <1>1, <1>2, <2>1, <2>2, MoveKeeps
  <1>3. ASSUME NEW r \in Roots,
               \/ Enter(c, r, "running", "gateway")
               \/ Enter(c, r, "control", "control")
               \/ Enter(c, r, "control", "restart")
        PROVE  RootsInv'
    BY <1>1, <1>3, EnterKeeps DEF Origins
  <1>4. AdmitOrWait(c) => RootsInv'
    BY <1>1, AdmitKeeps DEF Idle
  <1> QED
    BY <1>2, <1>3, <1>4 DEF BeginRoot, BeginControl, BeginPreparedRestart,
       BeginRestartStartup, BeginWhenOpen, RunOutside

\* Chains that wait, look again, or enter a root anew.
LEMMA WaitKeeps ==
    ASSUME RootsInv, NEW c \in Chains, AwaitFence(c) \/ Continue(c) \/ Readmit(c)
    PROVE  RootsInv'
  <1>1. chains[c] \in ChainStates /\ ChainGood(chains[c]) /\ UNCHANGED scopes
    BY DEF RootsInv, RootTypes, AwaitFence, Continue, Readmit
  <1>2. ASSUME NEW pc \in {"parked", "running"}, NEW want \in {"none", "settlement"},
               chains[c].pc \in {"running", "woken"},
               chains' = [chains EXCEPT ![c].pc = pc, ![c].want = want], UNCHANGED rootWork
        PROVE  RootsInv'
    <2> DEFINE x == [chains[c] EXCEPT !.pc = pc, !.want = want]
    <2>1. chains' = [chains EXCEPT ![c] = x]
      BY <1>2 DEF RootsInv, RootTypes
    <2>2. x \in ChainStates /\ x.lease = chains[c].lease /\ x.root = chains[c].root
          /\ x.pc = pc /\ x.want = want
      BY <1>1 DEF ChainStates
    <2> HIDE DEF x
    <2>3. ChainGood(x)
      BY <1>1, <1>2, <2>2 DEF ChainGood, LeaseGone
    <2> QED
      BY <1>1, <1>2, <2>1, <2>2, <2>3, MoveKeeps
  <1>3. CASE AwaitFence(c)
    BY <1>2, <1>3 DEF AwaitFence, Park
  <1>4. CASE Continue(c)
    <2>1. CASE chains[c].want = "root"
      BY <1>1, <1>4, <2>1, AdmitKeeps DEF Continue, ChainGood
    <2>2. CASE chains[c].want # "root"
      <3>1. chains[c].want \in {"none", "settlement"}
        BY <1>1, <2>2 DEF ChainStates
      <3>2. /\ chains[c].pc = "woken" /\ UNCHANGED rootWork
            /\ \E pc \in {"parked", "running"}, want \in {"none", "settlement"} :
                  chains' = [chains EXCEPT ![c].pc = pc, ![c].want = want]
        <4>1. CASE restartSignalPending
          <5>1. chains' = [chains EXCEPT ![c].pc = "parked", ![c].want = chains[c].want]
            BY <1>4, <2>2, <4>1 DEF Continue
          <5> QED
            BY <5>1, <3>1, <1>4, <2>2 DEF Continue
        <4>2. CASE ~restartSignalPending
          <5>1. chains' = [chains EXCEPT ![c].pc = "running", ![c].want = "none"]
            BY <1>4, <2>2, <4>2 DEF Continue
          <5> QED
            BY <5>1, <1>4, <2>2 DEF Continue
        <4> QED
          BY <4>1, <4>2
      <3> QED
        BY <1>2, <3>2
    <2> QED
      BY <2>1, <2>2
  <1>5. CASE Readmit(c)
    <2>1. chains[c].root \in Roots /\ roots[chains[c].root].released
      BY <1>1, <1>5 DEF Readmit, ChainStates, RootsInv, RootTypes
    <2>2. LeaseGone(chains[c]) /\ chains[c].pc # "control"
      BY <1>5, <2>1 DEF Readmit, LeaseGone
    <2> QED
      BY <1>1, <1>5, <2>2, AdmitKeeps DEF Readmit
  <1> QED
    BY <1>3, <1>4, <1>5

\* A detached chain inherits the root without a lease of its own, or is admitted.
LEMMA DetachKeeps ==
    ASSUME RootsInv, NEW c \in Chains, NEW d \in Chains, Detach(c, d) \/ DetachRoot(c, d)
    PROVE  RootsInv'
  <1>1. /\ chains[d] = Idle /\ chains[d] \in ChainStates /\ LeaseGone(chains[d])
        /\ chains[c] \in ChainStates /\ ChainGood(chains[c]) /\ UNCHANGED scopes
    BY DEF RootsInv, RootTypes, ChainGood, LeaseGone, Idle, Detach, DetachRoot
  <1>2. CASE Detach(c, d)
    <2> DEFINE x == [Idle EXCEPT !.pc = "running", !.root = chains[c].root]
    <2>1. chains' = [chains EXCEPT ![d] = x] /\ UNCHANGED rootWork /\ chains[c].pc = "running"
      BY <1>2 DEF Detach
    <2>2. x \in ChainStates /\ ~x.lease /\ x.root = chains[c].root /\ x.pc = "running"
      BY <1>1 DEF Idle, ChainStates
    <2> HIDE DEF x
    <2>3. ChainGood(x)
      BY <1>1, <2>1, <2>2 DEF ChainGood
    <2> QED
      BY <1>1, <2>1, <2>2, <2>3, MoveKeeps
  <1>3. CASE DetachRoot(c, d)
    <2>1. \A r \in Roots : Enter(d, r, "running", "gateway") => RootsInv'
      BY <1>1, EnterKeeps DEF Origins
    <2>2. AdmitOrWait(d) => RootsInv'
      BY <1>1, AdmitKeeps DEF Idle
    <2> QED
      BY <1>3, <2>1, <2>2 DEF DetachRoot
  <1> QED
    BY <1>2, <1>3

\* The end of a chain gives back its lease, if it has one.
LEMMA EndKeeps ==
    ASSUME RootsInv, NEW c \in Chains, End(c)
    PROVE  RootsInv'
  <1>1. /\ chains[c] \in ChainStates /\ ChainGood(chains[c]) /\ UNCHANGED scopes
        /\ chains' = [chains EXCEPT ![c] = Idle]
    BY DEF RootsInv, RootTypes, End
  <1>2. Idle \in ChainStates /\ ChainGood(Idle) /\ ~Idle.lease
    BY DEF Idle, ChainStates, ChainGood, LeaseGone, Live
  <1>3. CASE ~chains[c].lease
    BY <1>1, <1>2, <1>3, MoveKeeps DEF End, LeaseGone
  <1>4. CASE chains[c].lease
    <2>0. PICK r \in Roots : r = chains[c].root
      BY <1>1, <1>4 DEF ChainGood
    <2>1. ReleaseRoot(r) /\ (Live(r) => r \in activeRootWork)
      BY <1>1, <1>4, <2>0 DEF End, ChainGood
    <2>2. \A d \in Chains : chains'[d] = IF d = c THEN Idle ELSE chains[d]
      BY <1>1 DEF RootsInv, RootTypes
    <2>3. chains' \in [Chains -> ChainStates] /\ scopes' \in [Chains -> ScopeStates]
      BY <1>1, <1>2 DEF RootsInv, RootTypes
    <2>4. \A d \in Chains : ChainGood(chains'[d]) /\ ScopeGood(scopes'[d])
      BY <1>1, <1>2, <2>2 DEF RootsInv
    <2>5. Held(r)' = Held(r) \ {c} /\ c \in Held(r)
      BY <1>1, <1>2, <1>4, <2>0, <2>2 DEF Held
    <2>6. ASSUME NEW q
          PROVE  Kept(q)' = Kept(q) /\ (q # r => Held(q)' = Held(q))
      <3>1. Kept(q)' = Kept(q)
        BY <1>1, <1>2, <2>2 DEF Kept
      <3>2. q # r => Held(q)' = Held(q)
        BY <1>1, <1>2, <2>0, <2>2 DEF Held
      <3> QED
        BY <3>1, <3>2
    <2>7. \A q \in activeRootWork \ {r} : References(q)' = References(q)
      <3> TAKE q \in activeRootWork \ {r}
      <3> QED
        BY <2>6, CountStays
    <2>8. References(r)' = References(r) - 1
      BY <2>5, <2>6, CountShrinks
    <2> QED
      BY <2>1, <2>3, <2>4, <2>7, <2>8, ReleaseKeeps
  <1> QED
    BY <1>3, <1>4

\* A completion that arrives on its own takes a reference of its own.
LEMMA RunScopeKeeps ==
    ASSUME RootsInv, NEW c \in Chains, NEW d \in Chains, RunScope(c, d)
    PROVE  RootsInv'
  <1>0. PICK r \in Roots \cup {NoRoot} : r = scopes[c].root
    BY DEF RootsInv, RootTypes, ScopeStates
  <1> DEFINE x == [pc |-> "running", want |-> "none", root |-> r, lease |-> TRUE]
  <1>1. /\ chains[d] = Idle /\ UNCHANGED scopes /\ chains' = [chains EXCEPT ![d] = x]
        /\ scopes[c] \in ScopeStates /\ ScopeGood(scopes[c])
        /\ r # NoRoot /\ ~roots[r].released /\ AddReference(r)
    BY <1>0 DEF RootsInv, RootTypes, RunScope, ChainGood
  <1>2. r \in Roots /\ r \in activeRootWork /\ roots[r].origin = "gateway"
    BY <1>0, <1>1 DEF ScopeGood, Live
  <1>3. x \in ChainStates /\ ChainGood(x) /\ x.lease /\ x.root = r
    BY <1>2 DEF ChainStates, ChainGood
  <1> HIDE DEF x
  <1>4. \A e \in Chains : chains'[e] = IF e = d THEN x ELSE chains[e]
    BY <1>1 DEF RootsInv, RootTypes
  <1>5. chains' \in [Chains -> ChainStates] /\ scopes' \in [Chains -> ScopeStates]
    BY <1>1, <1>3 DEF RootsInv, RootTypes
  <1>6. \A e \in Chains : ChainGood(chains'[e]) /\ ScopeGood(scopes'[e])
    BY <1>1, <1>3, <1>4 DEF RootsInv
  <1>7. Held(r)' = Held(r) \cup {d} /\ d \notin Held(r)
    BY <1>1, <1>3, <1>4 DEF Held, Idle
  <1>8. ASSUME NEW q
        PROVE  Kept(q)' = Kept(q) /\ (q # r => Held(q)' = Held(q))
    <2>1. Kept(q)' = Kept(q)
      BY <1>1, <1>3, <1>4 DEF Kept
    <2>2. q # r => Held(q)' = Held(q)
      BY <1>1, <1>3, <1>4 DEF Held, Idle
    <2> QED
      BY <2>1, <2>2
  <1>9. \A q \in activeRootWork \ {r} : References(q)' = References(q)
    <2> TAKE q \in activeRootWork \ {r}
    <2> QED
      BY <1>8, CountStays
  <1>10. References(r)' = References(r) + 1
    BY <1>7, <1>8, CountGrows
  <1> QED
    BY <1>1, <1>2, <1>5, <1>6, <1>9, <1>10, AddKeeps

\* A scope keeps the root it was made in, if it retains it.
LEMMA CreateScopeKeeps ==
    ASSUME RootsInv, NEW c \in Chains, NEW retain \in BOOLEAN, CreateScope(c, retain)
    PROVE  RootsInv'
  <1>0. PICK r \in Roots \cup {NoRoot} : r = chains[c].root
    BY DEF RootsInv, RootTypes, ChainStates
  <1> DEFINE y == [root |-> r, retained |-> retain, released |-> FALSE]
  <1>1. /\ chains[c] \in ChainStates /\ ChainGood(chains[c]) /\ UNCHANGED chains
        /\ chains[c].pc = "running" /\ Live(r) /\ scopes[c] = NoScope
        /\ scopes' = [scopes EXCEPT ![c] = y]
    BY <1>0 DEF RootsInv, RootTypes, CreateScope
  <1>2. r \in Roots /\ r \in activeRootWork /\ roots[r].origin = "gateway"
    BY <1>0, <1>1 DEF ChainGood, Live
  <1>3. y \in ScopeStates /\ ScopeGood(y) /\ y.root = r /\ y.retained = retain /\ ~y.released
    BY <1>2 DEF ScopeStates, ScopeGood
  <1>4. scopes[c].retained = FALSE
    BY <1>1 DEF NoScope
  <1> HIDE DEF y
  <1>5. CASE ~retain
    <2>1. UNCHANGED rootWork
      BY <1>5 DEF CreateScope
    <2> QED
      BY <1>1, <1>3, <1>4, <1>5, <2>1, ScopeKeeps
  <1>6. CASE retain
    <2>1. AddReference(r)
      BY <1>0, <1>6 DEF CreateScope
    <2>2. \A e \in Chains : scopes'[e] = IF e = c THEN y ELSE scopes[e]
      BY <1>1 DEF RootsInv, RootTypes
    <2>3. chains' \in [Chains -> ChainStates] /\ scopes' \in [Chains -> ScopeStates]
      BY <1>1, <1>3 DEF RootsInv, RootTypes
    <2>4. \A e \in Chains : ChainGood(chains'[e]) /\ ScopeGood(scopes'[e])
      BY <1>1, <1>3, <2>2 DEF RootsInv
    <2>5. Kept(r)' = Kept(r) \cup {c} /\ c \notin Kept(r)
      BY <1>1, <1>3, <1>4, <1>6, <2>2 DEF Kept
    <2>6. ASSUME NEW q
          PROVE  Held(q)' = Held(q) /\ (q # r => Kept(q)' = Kept(q))
      <3>1. Held(q)' = Held(q)
        BY <1>1, <1>3, <1>4, <2>2 DEF Held
      <3>2. q # r => Kept(q)' = Kept(q)
        BY <1>1, <1>3, <1>4, <2>2 DEF Kept
      <3> QED
        BY <3>1, <3>2
    <2>7. \A q \in activeRootWork \ {r} : References(q)' = References(q)
      <3> TAKE q \in activeRootWork \ {r}
      <3> QED
        BY <2>6, CountStays
    <2>8. References(r)' = References(r) + 1
      BY <2>5, <2>6, CountGrows
    <2> QED
      BY <1>2, <2>1, <2>3, <2>4, <2>7, <2>8, AddKeeps
  <1> QED
    BY <1>5, <1>6

\* A scope is released once, however often its owners ask for it.
LEMMA ReleaseScopeKeeps ==
    ASSUME RootsInv, NEW c \in Chains, ReleaseScope(c)
    PROVE  RootsInv'
  <1>0. PICK r \in Roots \cup {NoRoot} : r = scopes[c].root
    BY DEF RootsInv, RootTypes, ScopeStates
  <1> DEFINE y == [scopes[c] EXCEPT !.released = TRUE]
  <1>1. /\ scopes[c] \in ScopeStates /\ ScopeGood(scopes[c]) /\ UNCHANGED chains
        /\ r # NoRoot /\ scopes' = [scopes EXCEPT ![c] = y]
    BY <1>0 DEF RootsInv, RootTypes, ReleaseScope
  <1>2. y \in ScopeStates /\ y.root = r /\ y.released /\ r \in Roots
    BY <1>0, <1>1 DEF ScopeStates
  <1>3. ScopeGood(y)
    BY <1>0, <1>1, <1>2 DEF ScopeGood
  <1> HIDE DEF y
  <1>4. CASE ~(scopes[c].retained /\ ~scopes[c].released)
    <2>1. UNCHANGED rootWork
      BY <1>4 DEF ReleaseScope
    <2> QED
      BY <1>1, <1>2, <1>3, <1>4, <2>1, ScopeKeeps
  <1>5. CASE scopes[c].retained /\ ~scopes[c].released
    <2>1. ReleaseRoot(r) /\ (Live(r) => r \in activeRootWork)
      BY <1>0, <1>1, <1>5 DEF ReleaseScope, ScopeGood
    <2>2. \A e \in Chains : scopes'[e] = IF e = c THEN y ELSE scopes[e]
      BY <1>1 DEF RootsInv, RootTypes
    <2>3. chains' \in [Chains -> ChainStates] /\ scopes' \in [Chains -> ScopeStates]
      BY <1>1, <1>2 DEF RootsInv, RootTypes
    <2>4. \A e \in Chains : ChainGood(chains'[e]) /\ ScopeGood(scopes'[e])
      BY <1>1, <1>3, <2>2 DEF RootsInv
    <2>5. Kept(r)' = Kept(r) \ {c} /\ c \in Kept(r)
      BY <1>0, <1>1, <1>2, <1>5, <2>2 DEF Kept
    <2>6. ASSUME NEW q
          PROVE  Held(q)' = Held(q) /\ (q # r => Kept(q)' = Kept(q))
      <3>1. Held(q)' = Held(q)
        BY <1>1, <1>2, <2>2 DEF Held
      <3>2. q # r => Kept(q)' = Kept(q)
        BY <1>0, <1>1, <1>2, <2>2 DEF Kept
      <3> QED
        BY <3>1, <3>2
    <2>7. \A q \in activeRootWork \ {r} : References(q)' = References(q)
      <3> TAKE q \in activeRootWork \ {r}
      <3> QED
        BY <2>6, CountStays
    <2>8. References(r)' = References(r) - 1
      BY <2>5, <2>6, CountShrinks
    <2> QED
      BY <1>2, <2>1, <2>3, <2>4, <2>7, <2>8, ReleaseKeeps
  <1> QED
    BY <1>4, <1>5

\* Letting go of a released scope changes no count.
LEMMA DropScopeKeeps ==
    ASSUME RootsInv, NEW c \in Chains, DropScope(c)
    PROVE  RootsInv'
  <1>1. NoScope \in ScopeStates /\ ScopeGood(NoScope) /\ ~NoScope.retained
    BY DEF NoScope, ScopeStates, ScopeGood, Live
  <1> QED
    BY <1>1, ScopeKeeps DEF DropScope

\* A lifecycle reset retires every active root; what its chains still release is
\* not counted any more.
LEMMA ResetKeeps ==
    ASSUME RootsInv, LifecycleReset
    PROVE  RootsInv'
  <1>1. /\ \A r \in activeRootWork : roots'[r].released /\ roots'[r].retiredByReset
        /\ \A r \in Roots \ activeRootWork : roots'[r] = roots[r]
        /\ roots' \in [Roots -> RootStates]
        /\ activeRootWork' = {} /\ UNCHANGED scopes
    BY DEF LifecycleReset, RootsInv, RootTypes, RootStates
  <1>2. chains' = WakeAll(chains)
    BY DEF LifecycleReset, Commit, Now
  <1>3. ASSUME NEW d \in Chains
        PROVE  /\ chains'[d] \in ChainStates /\ ChainGood(chains'[d])
               /\ scopes[d] \in ScopeStates /\ ScopeGood(scopes[d])
    <2>1. chains[d] \in ChainStates /\ ChainGood(chains[d])
      BY DEF RootsInv, RootTypes
    <2>2. chains'[d] = IF chains[d].pc = "parked" THEN [chains[d] EXCEPT !.pc = "woken"]
                       ELSE chains[d]
      BY <1>2 DEF WakeAll
    <2> QED
      BY <2>1, <2>2 DEF ChainStates, ChainGood, LeaseGone, RootsInv, RootTypes
  <1>4. chains' \in [Chains -> ChainStates]
    <2>1. chains' = [d \in Chains |-> chains'[d]]
      BY <1>2 DEF WakeAll
    <2> QED
      BY <2>1, <1>3
  <1>5. \A r \in Roots : roots'[r].retiredByReset => roots'[r].released
    BY <1>1 DEF RootsInv, RootTypes
  <1>6. \A r \in Roots : roots[r].released => roots'[r].released
    BY <1>1
  <1>7. \A d \in Chains : chains'[d].root \in Roots \cup {NoRoot} /\ scopes[d].root \in Roots \cup {NoRoot}
    BY <1>3 DEF ChainStates, ScopeStates
  <1>8. \A r \in Roots \cup {NoRoot} : ~(r # NoRoot /\ ~roots'[r].released /\ (r # NoRoot /\ ~roots[r].released => r \in activeRootWork))
    BY <1>1
  <1>9. \A d \in Chains : ChainGood(chains[d])' /\ ScopeGood(scopes[d])'
    BY <1>1, <1>3, <1>6, <1>7, <1>8 DEF ChainGood, ScopeGood, LeaseGone, Live
  <1> QED
    BY <1>1, <1>4, <1>5, <1>9 DEF RootsInv, RootTypes, Counted

-----------------------------------------------------------------------------
(* What the operators do to the waiters *)

\* Only the step that opens admission adds to who is woken.
LEMMA ArmWakes ==
    ASSUME NEW s \in States
    PROVE  Arm(s).wake = s.wake
  <1> DEFINE u == Unarm(s)
             t == [id |-> u.current.id, timer |-> u.current.timer, queued |-> FALSE]
  <1>1. u \in States /\ u.wake = s.wake
    BY UnarmFacts
  <1>2. Arm(s) = [u EXCEPT !.timers = @ \cup {t}]
    BY DEF Arm
  <1> HIDE DEF u, t
  <1>3. Arm(s).wake = u.wake
    BY <1>1, <1>2 DEF States
  <1> QED
    BY <1>1, <1>3

\* Storing an entry wakes nobody.
LEMMA InstallWakes ==
    ASSUME NEW s \in States, NEW e \in Entries
    PROVE  Install(s, e).wake = s.wake
  BY DEF Install, States

\* A transition wakes the waiters exactly when it opens admission.
LEMMA MoveWakes ==
    ASSUME NEW s \in States, NEW to \in Phases
    PROVE  Move(s, to).wake <=> (s.wake \/ to = "accepting")
  <1>1. ASSUME NEW b \in BOOLEAN
        PROVE  LET m == [s EXCEPT !.phase = to, !.wake = b] IN m.wake = b
    BY DEF States
  <1>2. (s.wake \/ to = "accepting") \in BOOLEAN
    OBVIOUS
  <1> QED
    BY <1>1, <1>2 DEF Move

\* Closing admission for a new lease takes back no wakeup.
LEMMA AcquireWakes ==
    ASSUME NEW s \in States
    PROVE  s.wake => Acquire(s).wake
  <1> DEFINE m == Move(s, "preparing")
  <1>1. m \in States /\ (s.wake => m.wake)
    BY MoveFacts, MoveWakes DEF Phases
  <1> HIDE DEF m
  <1>2. \A n : [m EXCEPT !.generation = n, !.paused = TRUE].wake = m.wake
    BY <1>1 DEF States
  <1> QED
    BY <1>1, <1>2 DEF Acquire, m

-----------------------------------------------------------------------------
(* The coordinator's operators, seen from the chains *)

\* From s to t: chains are woken when admission opens; a state that reports
\* ready stays so for the same request, or was inspected by c.
Allowed(request) == IF request.terminate THEN Terminals ELSE {}
NoGateway == \A r \in activeRootWork : roots[r].origin # "gateway"

QuietAt(s) ==
    s.phase = "prepared" =>
        NoGateway /\ (s.current.kind = "held" => work \subseteq Allowed(s.current.request))

Wakes(s, t) == (s.wake => t.wake) /\ (t.phase = "accepting" => s.phase = "accepting" \/ t.wake)

\* From s an operator goes to t, a state of the coordinator.
Follows(s, t) == t \in States /\ Wakes(s, t) /\ (QuietAt(s) => QuietAt(t))

\* The operators of one turn compose.
LEMMA FollowsTrans ==
    ASSUME NEW s, NEW t, NEW u, Follows(s, t), Follows(t, u)
    PROVE  Follows(s, u)
  BY DEF Follows, Wakes

\* resumeAndReopen wakes the waiters when it opens admission, and a failed
\* resumption reports nothing ready that was not.
LEMMA ResumeFollows ==
    ASSUME NEW s \in States, NEW ok \in BOOLEAN
    PROVE  Follows(s, ResumeAndReopen(s, ok))
  <1>1. CASE ok /\ CanMove(s, s.current.lease, Reopens(s.current))
    <2> DEFINE m == Move(Unarm(s), "accepting")
               r == [m EXCEPT !.current = NoEntry, !.paused = FALSE]
    <2>1. m \in States /\ m.phase = "accepting" /\ m.wake
      BY UnarmFacts, MoveFacts, MoveWakes DEF Phases
    <2> HIDE DEF m
    <2>2. r \in States /\ r.phase = "accepting" /\ r.wake
      BY <2>1, EntryFacts DEF States
    <2>3. ResumeAndReopen(s, ok) = r
      BY <1>1 DEF ResumeAndReopen, m
    <2> HIDE DEF r
    <2> QED
      BY <2>2, <2>3 DEF Follows, Wakes, QuietAt
  <1>2. CASE ~(ok /\ CanMove(s, s.current.lease, Reopens(s.current)))
    <2> DEFINE p == [s EXCEPT !.paused = @ /\ ~ok]
    <2>1. /\ p \in States /\ p.current = s.current /\ p.phase = s.phase /\ p.wake = s.wake
          /\ s.current \in Entries
      <3>1. ASSUME NEW b \in BOOLEAN
            PROVE  LET q == [s EXCEPT !.paused = b] IN
                   /\ q \in States /\ q.current = s.current /\ q.phase = s.phase /\ q.wake = s.wake
        BY DEF States
      <3>2. (s.paused /\ ~ok) \in BOOLEAN
        OBVIOUS
      <3> QED
        BY <3>1, <3>2 DEF States
    <2>2. ResumeAndReopen(s, ok) = EnterRecovery(p)
      BY <1>2 DEF ResumeAndReopen
    <2> HIDE DEF p
    <2>3. CASE p.current.kind = "recovering"
      <3>1. EnterRecovery(p) = Arm(p)
        BY <2>3 DEF EnterRecovery
      <3>2. /\ Arm(p) \in States /\ Arm(p).phase = p.phase /\ Arm(p).wake = p.wake
            /\ Arm(p).current = [p.current EXCEPT !.timer = @ + 1]
        BY <2>1, ArmFacts, ArmWakes
      <3>3. Arm(p).current.kind = "recovering"
        BY <2>1, <2>3, <3>2 DEF Entries
      <3> QED
        BY <2>1, <2>2, <3>1, <3>2, <3>3 DEF Follows, Wakes, QuietAt
    <2>4. CASE p.current.kind # "recovering"
      <3> DEFINE e == Recovery(p.current.lease, p.current.reopen)
                 i == Install(Unarm(p), e)
      <3>a. p.current.lease \in Nat /\ p.current.reopen \in {"rollback", "release"}
        BY <2>1 DEF Entries
      <3>1. e \in Entries /\ e.kind = "recovering"
        BY <3>a, EntryFacts
      <3> HIDE DEF e
      <3>b. Unarm(p) \in States /\ Unarm(p).phase = p.phase /\ Unarm(p).wake = p.wake
        BY <2>1, UnarmFacts
      <3>c. i.wake = Unarm(p).wake
        BY <3>1, <3>b, InstallWakes
      <3>d. /\ i \in States /\ i.current = [e EXCEPT !.id = Unarm(p).nextId]
            /\ i.phase = Unarm(p).phase
        BY <3>1, <3>b, InstallFacts
      <3>2. /\ i \in States /\ i.current = [e EXCEPT !.id = Unarm(p).nextId]
            /\ i.phase = p.phase /\ i.wake = p.wake
        BY <3>b, <3>c, <3>d
      <3>3. i.current \in Entries /\ i.current.kind = "recovering"
        BY <3>1, <3>2 DEF Entries, States
      <3> HIDE DEF i
      <3>4. /\ Arm(i) \in States /\ Arm(i).phase = p.phase /\ Arm(i).wake = p.wake
            /\ Arm(i).current.kind = "recovering"
        BY <3>2, <3>3, ArmFacts, ArmWakes DEF Entries
      <3>5. EnterRecovery(p) = Arm(i)
        BY <2>4 DEF EnterRecovery, e, i
      <3> QED
        BY <2>1, <2>2, <3>4, <3>5 DEF Follows, Wakes, QuietAt
    <2> QED
      BY <2>3, <2>4
  <1> QED
    BY <1>1, <1>2

\* normalizeExpiredHeldSuspension is resumeAndReopen, or nothing.
LEMMA NormalizeFollows ==
    ASSUME NEW s \in States, NEW ok \in BOOLEAN
    PROVE  Follows(s, Normalize(s, ok))
  BY ResumeFollows DEF Normalize, Follows, Wakes

\* The inspection of a control request does not count the request's own root.
LEMMA InspectedIsQuiet ==
    ASSUME RootsInv, NEW c \in Chains, chains[c].pc = "control", NEW request, IsIdle(c, request)
    PROVE  NoGateway /\ work \subseteq Allowed(request)
  <1>1. ChainGood(chains[c])
    BY DEF RootsInv
  <1>2. ASSUME NEW r \in activeRootWork
        PROVE  roots[r].origin # "gateway"
    <2>1. r = chains[c].root
      BY DEF IsIdle
    <2>2. Live(r)
      BY RootAssumption DEF RootsInv, RootTypes, Counted, Live
    <2> QED
      BY <1>1, <2>1, <2>2 DEF ChainGood
  <1> QED
    BY <1>2 DEF NoGateway, IsIdle, Allowed

\* A poll reports ready only after its own inspection.
LEMMA RefreshFollows ==
    ASSUME RootsInv, NEW c \in Chains, chains[c].pc = "control",
           NEW s \in States, s.current.kind = "held"
    PROVE  Follows(s, Refresh(s, c))
  <1>1. CASE Refresh(s, c) = s
    BY <1>1 DEF Follows, Wakes
  <1>2. CASE IsIdle(c, s.current.request) /\ Refresh(s, c) = [Move(s, "prepared") EXCEPT !.current.ready = TRUE]
    <2> DEFINE m == Move(s, "prepared")
               r == [m EXCEPT !.current.ready = TRUE]
    <2>1. m \in States /\ m.phase = "prepared" /\ m.current = s.current /\ m.wake = s.wake
      BY MoveFacts, MoveWakes DEF Phases, States
    <2> HIDE DEF m
    <2>2. s.current \in Entries /\ [s.current EXCEPT !.ready = TRUE] \in Entries
      BY DEF States, Entries
    <2>3. r = [m EXCEPT !.current = [s.current EXCEPT !.ready = TRUE]]
      BY <2>1 DEF States
    <2>4. r \in States /\ r.phase = "prepared" /\ r.wake = s.wake
          /\ r.current = [s.current EXCEPT !.ready = TRUE]
      BY <2>1, <2>2, <2>3 DEF States
    <2> HIDE DEF r
    <2>5. r.current.request = s.current.request
      BY <2>2, <2>4 DEF Entries
    <2>6. Refresh(s, c) = r
      BY <1>2 DEF r, m
    <2> QED
      BY <1>2, <2>4, <2>5, <2>6, InspectedIsQuiet DEF Follows, Wakes, QuietAt
  <1> QED
    BY <1>1, <1>2 DEF Refresh

\* A renewal gives the entry a new timer, then polls.
LEMMA RenewFollows ==
    ASSUME RootsInv, NEW c \in Chains, chains[c].pc = "control",
           NEW s \in States, s.current.kind = "held"
    PROVE  Follows(s, Renew(s, c))
  <1> DEFINE e == [s.current EXCEPT !.expired = FALSE]
             n == [s EXCEPT !.current = e]
  <1>1. s.current \in Entries /\ e \in Entries /\ e.kind = "held" /\ e.request = s.current.request
    BY DEF States, Entries
  <1> HIDE DEF e
  <1>2. n \in States /\ n.current = e /\ n.phase = s.phase /\ n.wake = s.wake
    BY <1>1 DEF States
  <1>3. [s EXCEPT !.current.expired = FALSE] = n
    BY DEF States, e
  <1> HIDE DEF n
  <1>4. /\ Arm(n) \in States /\ Arm(n).phase = s.phase /\ Arm(n).wake = s.wake
        /\ Arm(n).current = [e EXCEPT !.timer = @ + 1]
    BY <1>2, ArmFacts, ArmWakes
  <1>5. Arm(n).current.kind = "held" /\ Arm(n).current.request = s.current.request
    BY <1>1, <1>4 DEF Entries
  <1>6. Follows(s, Arm(n))
    BY <1>4, <1>5 DEF Follows, Wakes, QuietAt
  <1>7. Follows(Arm(n), Refresh(Arm(n), c))
    BY <1>4, <1>5, RefreshFollows
  <1> QED
    BY <1>3, <1>6, <1>7, FollowsTrans DEF Renew

\* A prepare call reports ready only after its own inspection.
LEMMA HoldFollows ==
    ASSUME RootsInv, NEW c \in Chains, chains[c].pc = "control",
           NEW s \in States, NEW request \in Requests
    PROVE  Follows(s, Hold(Acquire(s), request, IsIdle(c, request)))
  <1> DEFINE ready == IsIdle(c, request)
             to == IF ready THEN "prepared" ELSE "draining"
             a == Acquire(s)
             e == [NoEntry EXCEPT !.kind = "held", !.request = request,
                                  !.ready = ready, !.lease = a.generation]
             i == Install(Move(a, to), e)
  <1>0. ready \in BOOLEAN /\ to \in Phases /\ to # "accepting"
    BY DEF IsIdle, Phases
  <1>2. a \in States /\ (s.wake => a.wake) /\ a = Acquire(s)
    BY AcquireFacts, AcquireWakes
  <1> HIDE DEF a
  <1>3. e \in Entries /\ e.kind = "held" /\ e.request = request
    <2>1. a.generation \in Nat
      BY <1>2 DEF States
    <2> HIDE DEF ready
    <2> QED
      BY <1>0, <2>1 DEF NoEntry, Entries
  <1>4. Hold(a, request, ready) = Arm(i)
    BY DEF Hold
  <1> HIDE DEF e
  <1>5. /\ Move(a, to) \in States /\ Move(a, to).phase = to /\ (a.wake => Move(a, to).wake)
    BY <1>0, <1>2, MoveFacts, MoveWakes
  <1>6. /\ i \in States /\ i.phase = to /\ (a.wake => i.wake)
        /\ i.current = [e EXCEPT !.id = Move(a, to).nextId]
    BY <1>3, <1>5, InstallFacts, InstallWakes
  <1>7. i.current \in Entries /\ i.current.kind = "held" /\ i.current.request = request
    BY <1>3, <1>6 DEF Entries, States
  <1> HIDE DEF i
  <1>8. /\ Arm(i) \in States /\ Arm(i).phase = to /\ (a.wake => Arm(i).wake)
        /\ Arm(i).current.kind = "held" /\ Arm(i).current.request = request
    BY <1>6, <1>7, ArmFacts, ArmWakes DEF Entries
  <1>9. Wakes(s, Arm(i))
    BY <1>0, <1>2, <1>8 DEF Wakes
  <1>10. QuietAt(Arm(i))
    <2>1. CASE ready
      BY <1>8, <2>1, InspectedIsQuiet DEF QuietAt
    <2>2. CASE ~ready
      BY <1>8, <2>2 DEF QuietAt
    <2> QED
      BY <2>1, <2>2
  <1> QED
    BY <1>2, <1>4, <1>8, <1>9, <1>10 DEF Follows

\* A prepare call that cannot hold its lease opens admission, or leaves a recovery.
LEMMA AbandonFollows ==
    ASSUME NEW s \in States, NEW ok \in BOOLEAN
    PROVE  Follows(s, Abandon(Acquire(s), ok))
  <1> DEFINE a == Acquire(s)
  <1>2. a \in States /\ (s.wake => a.wake) /\ a.phase = "preparing" /\ a = Acquire(s)
    BY AcquireFacts, AcquireWakes
  <1> HIDE DEF a
  <1>3. CASE ok
    <2> DEFINE o == Move(a, "accepting")
               r == [o EXCEPT !.paused = FALSE]
    <2>1. o \in States /\ o.phase = "accepting" /\ o.wake
      BY <1>2, MoveFacts, MoveWakes DEF Phases
    <2> HIDE DEF o
    <2>2. r \in States /\ r.phase = "accepting" /\ r.wake
      BY <2>1 DEF States
    <2>3. Abandon(a, ok) = r
      BY <1>3 DEF Abandon, o
    <2> HIDE DEF r
    <2> QED
      BY <1>2, <2>2, <2>3 DEF Follows, Wakes, QuietAt
  <1>4. CASE ~ok
    <2> DEFINE e == Recovery(a.generation, "rollback")
               i == Install(a, e)
    <2>1. e \in Entries
      BY <1>2, EntryFacts DEF States
    <2>2. i \in States /\ i.phase = "preparing" /\ i.wake = a.wake
      BY <1>2, <2>1, InstallFacts, InstallWakes
    <2>3. Abandon(a, ok) = Arm(i)
      BY <1>4 DEF Abandon
    <2> HIDE DEF i
    <2>4. Arm(i) \in States /\ Arm(i).phase = "preparing" /\ Arm(i).wake = a.wake
      BY <2>2, ArmFacts, ArmWakes
    <2> QED
      BY <1>2, <2>3, <2>4 DEF Follows, Wakes, QuietAt
  <1> QED
    BY <1>3, <1>4

-----------------------------------------------------------------------------
(* The coordinator's actions, seen from the chains *)

\* A turn of the coordinator that commits what its operators return.
Coordinated ==
    \E s : Follows(Now, s) /\ Commit(s) /\ UNCHANGED <<restart, rootWork, scopes, work>>

\* The record of the shared state, field by field.
LEMMA NowFacts ==
    ASSUME SuspendInv
    PROVE  /\ Now \in States /\ Now.phase = suspendPhase /\ Now.current = current
           /\ Now.wake = FALSE /\ Now.timers = timers
  BY DEF SuspendInv, Sound, Now

\* prepareGatewaySuspend commits what follows from the state it finds.
LEMMA PrepareFollows ==
    ASSUME SuspendInv, RootsInv, NEW c \in Chains, NEW request \in Requests,
           NEW resumed \in BOOLEAN, NEW ok \in BOOLEAN, NEW inspected \in BOOLEAN,
           Prepare(c, request, resumed, ok, inspected)
    PROVE  Coordinated
  <1> DEFINE s == Normalize(Now, resumed)
  <1>1. Now \in States /\ Follows(Now, s) /\ s \in States /\ chains[c].pc = "control"
    BY NowFacts, NormalizeFollows DEF Prepare, Follows
  <1>2. UNCHANGED <<restart, rootWork, scopes, work>>
    BY DEF Prepare
  <1>3. s.current.kind \in {"none", "held", "recovering"}
    BY <1>1 DEF States, Entries
  <1> HIDE DEF s
  <1>4. \/ Commit(s)
        \/ s.current.kind = "held" /\ Commit(Renew(s, c))
        \/ Commit(Hold(Acquire(s), request, IsIdle(c, request)))
        \/ Commit(Abandon(Acquire(s), ok))
    BY <1>3 DEF Prepare, s
  <1>5. /\ s.current.kind = "held" => Follows(s, Renew(s, c))
        /\ Follows(s, Hold(Acquire(s), request, IsIdle(c, request)))
        /\ Follows(s, Abandon(Acquire(s), ok))
    BY <1>1, RenewFollows, HoldFollows, AbandonFollows
  <1>6. \A t : Follows(s, t) => Follows(Now, t)
    BY <1>1, FollowsTrans
  <1> QED
    BY <1>1, <1>2, <1>4, <1>5, <1>6 DEF Coordinated

\* getGatewaySuspendStatus and resumeGatewaySuspend do so too.
LEMMA StatusFollows ==
    ASSUME SuspendInv, RootsInv, NEW c \in Chains, NEW id, NEW ok \in BOOLEAN,
           Status(c, id, ok) \/ Resume(c, id, ok)
    PROVE  Coordinated
  <1> DEFINE s == Normalize(Now, ok)
  <1>1. Now \in States /\ Follows(Now, s) /\ s \in States /\ chains[c].pc = "control"
    BY NowFacts, NormalizeFollows DEF Status, Resume, Follows
  <1>2. UNCHANGED <<restart, rootWork, scopes, work>>
    BY DEF Status, Resume
  <1> HIDE DEF s
  <1>3. \/ Commit(s)
        \/ s.current.kind = "held" /\ Commit(Refresh(s, c))
        \/ Commit(ResumeAndReopen(s, ok))
    BY DEF Status, Resume, s
  <1>4. /\ s.current.kind = "held" => Follows(s, Refresh(s, c))
        /\ Follows(s, ResumeAndReopen(s, ok))
    BY <1>1, RefreshFollows, ResumeFollows
  <1>5. \A t : Follows(s, t) => Follows(Now, t)
    BY <1>1, FollowsTrans
  <1> QED
    BY <1>1, <1>2, <1>3, <1>4, <1>5 DEF Coordinated

\* So does a timer callback, current or stale.
LEMMA TimerFollows ==
    ASSUME SuspendInv, NEW t \in timers, NEW ok \in BOOLEAN, TimerFires(t, ok)
    PROVE  Coordinated
  <1> DEFINE s == [Now EXCEPT !.timers = timers \ {t}]
  <1>1. Now \in States /\ Now.timers = timers /\ timers \subseteq Timers
    BY NowFacts DEF States
  <1>2. /\ s \in States /\ s.current = Now.current /\ s.phase = Now.phase /\ s.wake = Now.wake
    BY <1>1 DEF States
  <1>3. [Now EXCEPT !.timers = @ \ {t}] = s
    BY DEF Now
  <1>4. /\ UNCHANGED <<restart, rootWork, scopes, work>>
        /\ Commit(IF IsCurrent(t) THEN ResumeAndReopen(s, ok) ELSE s)
    BY <1>3 DEF TimerFires
  <1> HIDE DEF s
  <1>5. Follows(Now, s)
    BY <1>2 DEF Follows, Wakes, QuietAt
  <1>6. Follows(s, ResumeAndReopen(s, ok))
    BY <1>2, ResumeFollows
  <1>7. Follows(Now, ResumeAndReopen(s, ok))
    BY <1>5, <1>6, FollowsTrans
  <1> QED
    BY <1>4, <1>5, <1>7 DEF Coordinated

\* What a turn of the coordinator commits keeps the counts, the quiet of a
\* prepared suspension and the wakeups.
LEMMA CoordinatedKeeps ==
    ASSUME SuspendInv, RootsInv, Coordinated
    PROVE  /\ RootsInv'
           /\ QuietAt(Now) => QuietAt(Now)'
           /\ NoLostWakeup => NoLostWakeup'
  <1>1. PICK s : Follows(Now, s) /\ Commit(s) /\ UNCHANGED <<restart, rootWork, scopes, work>>
    BY DEF Coordinated
  <1>2. /\ suspendPhase' = s.phase /\ current' = s.current
        /\ chains' = IF s.wake THEN WakeAll(chains) ELSE chains
    BY <1>1 DEF Commit
  <1>3. RootsInv'
    BY <1>1, <1>2, WakeKeeps
  <1>4. ASSUME QuietAt(Now)
        PROVE  QuietAt(Now)'
    <2>1. QuietAt(s)
      BY <1>1, <1>4 DEF Follows
    <2>2. Now'.phase = s.phase /\ Now'.current = s.current
      BY <1>2 DEF Now
    <2>3. UNCHANGED <<roots, activeRootWork, work>>
      BY <1>1 DEF rootWork
    <2> QED
      BY <2>1, <2>2, <2>3 DEF QuietAt, NoGateway, Allowed
  <1>5. ASSUME NoLostWakeup
        PROVE  NoLostWakeup'
    <2>1. CASE s.wake
      <3>1. \A d \in Chains : chains'[d].pc # "parked"
        BY <1>2, <2>1 DEF WakeAll, RootsInv, RootTypes, ChainStates
      <3> QED
        BY <3>1 DEF NoLostWakeup
    <2>2. CASE ~s.wake
      <3>1. suspendPhase # "accepting" => suspendPhase' # "accepting"
        BY <1>1, <1>2, <2>2, NowFacts DEF Follows, Wakes
      <3> QED
        BY <1>1, <1>2, <1>5, <2>2, <3>1 DEF NoLostWakeup, Closed, RestartFenced, restart
    <2> QED
      BY <2>1, <2>2
  <1> QED
    BY <1>3, <1>4, <1>5

-----------------------------------------------------------------------------
(* Quiet suspensions and lost wakeups *)

\* References that come and go leave the origins of the roots.
LEMMA OriginsKept ==
    ASSUME RootsInv, NoGateway, NEW r \in Roots, ReleaseRoot(r) \/ AddReference(r) \/ UNCHANGED rootWork
    PROVE  NoGateway'
  <1>1. activeRootWork' \subseteq activeRootWork /\ activeRootWork \subseteq Roots
    BY DEF ReleaseRoot, AddReference, rootWork, RootsInv, RootTypes
  <1>2. \A q \in Roots : roots'[q].origin = roots[q].origin
    BY DEF ReleaseRoot, AddReference, rootWork, RootsInv, RootTypes, RootStates
  <1> QED
    BY <1>1, <1>2 DEF NoGateway

\* Behind a fence without gateway roots, only a control request enters.
LEMMA ChainStepQuiet ==
    ASSUME RootsInv, suspendPhase = "prepared", NoGateway, NEW c \in Chains, ChainStep(c)
    PROVE  NoGateway' /\ work' = work
  <1>1. Closed
    BY DEF Closed
  <1>2. \A d \in Chains : chains[d].pc = "running" => ~Live(chains[d].root)
    BY DEF RootsInv, ChainGood, NoGateway
  <1>3. UNCHANGED rootWork => NoGateway'
    BY DEF rootWork, NoGateway
  <1>4. \A d \in Chains : AdmitOrWait(d) => NoGateway'
    BY <1>1, <1>3 DEF AdmitOrWait, Park
  <1>5. \A r \in Roots : ReleaseRoot(r) \/ AddReference(r) => NoGateway'
    BY OriginsKept
  <1>6. ASSUME NEW r \in Roots, NEW origin \in {"control", "restart"}, Enter(c, r, "control", origin)
        PROVE  NoGateway'
    BY <1>6 DEF Enter, CreateRoot, NoGateway, RootsInv, RootTypes
  <1>7. CASE BeginRoot(c) \/ BeginControl(c) \/ BeginPreparedRestart(c) \/ BeginRestartStartup(c)
             \/ BeginWhenOpen(c) \/ RunOutside(c)
    BY <1>1, <1>3, <1>4, <1>6, <1>7 DEF BeginRoot, BeginControl, BeginPreparedRestart,
       BeginRestartStartup, BeginWhenOpen, RunOutside
  <1>8. CASE AwaitFence(c) \/ Continue(c) \/ Readmit(c)
    BY <1>3, <1>4, <1>8 DEF AwaitFence, Park, Continue, Readmit
  <1>9. CASE End(c)
    <2>1. chains[c].lease => chains[c].root \in Roots
      BY DEF RootsInv, ChainGood
    <2> QED
      BY <2>1, <1>3, <1>5, <1>9 DEF End
  <1>10. ASSUME NEW d \in Chains, Detach(c, d) \/ DetachRoot(c, d) \/ RunScope(c, d)
         PROVE  NoGateway' /\ work' = work
    <2>1. Detach(c, d) => NoGateway'
      BY <1>3 DEF Detach
    <2>2. DetachRoot(c, d) => NoGateway'
      BY <1>2, <1>4 DEF DetachRoot
    <2>3. RunScope(c, d) => NoGateway'
      BY <1>5 DEF RunScope, RootsInv, RootTypes, ScopeStates
    <2> QED
      BY <1>10, <2>1, <2>2, <2>3 DEF Detach, DetachRoot, RunScope
  <1>11. ASSUME NEW retain \in BOOLEAN, CreateScope(c, retain)
         PROVE  NoGateway' /\ work' = work
    BY <1>2, <1>11 DEF CreateScope
  <1>12. CASE ReleaseScope(c) \/ DropScope(c)
    <2>1. scopes[c].root # NoRoot => scopes[c].root \in Roots
      BY DEF RootsInv, RootTypes, ScopeStates
    <2> QED
      BY <2>1, <1>3, <1>5, <1>12 DEF ReleaseScope, DropScope
  <1>13. ASSUME NEW w \in Work, StartWork(c, w)
         PROVE  FALSE
    BY <1>2, <1>13 DEF StartWork, SubordinateClosed, Live
  <1> QED
    BY <1>7, <1>8, <1>9, <1>10, <1>11, <1>12, <1>13 DEF ChainStep

\* A chain parks only while what it waits for is still to come.
ParkedWell(x) == x.pc = "parked" =>
    IF x.want = "root" THEN Closed /\ ~restartDraining ELSE restartSignalPending

\* No action of a chain parks it, or keeps it parked, without a fence to wait for.
LEMMA ChainStepParks ==
    ASSUME RootsInv, NoLostWakeup, NEW c \in Chains, ChainStep(c)
    PROVE  NoLostWakeup'
  <1>1. UNCHANGED <<restart, suspendPhase>>
    BY DEF ChainStep, BeginRoot, BeginControl, BeginPreparedRestart, BeginRestartStartup,
       BeginWhenOpen, RunOutside, AwaitFence, Continue, Readmit, End, Detach, DetachRoot,
       RunScope, CreateScope, ReleaseScope, DropScope, StartWork
  <1>2. ASSUME NEW d \in Chains, NEW x, chains' = [chains EXCEPT ![d] = x], ParkedWell(x)
        PROVE  NoLostWakeup'
    BY <1>1, <1>2 DEF NoLostWakeup, ParkedWell, Closed, RestartFenced, restart, RootsInv, RootTypes
  <1>3. UNCHANGED chains => NoLostWakeup'
    BY <1>1 DEF NoLostWakeup, Closed, RestartFenced, restart
  <1>4. ASSUME NEW d \in Chains, NEW r, NEW pc \in {"running", "control"}, NEW origin, Enter(d, r, pc, origin)
        PROVE  NoLostWakeup'
    BY <1>2, <1>4 DEF Enter, ParkedWell
  <1>5. ASSUME NEW d \in Chains, NEW pc, NEW want, chains' = [chains EXCEPT ![d].pc = pc, ![d].want = want],
               pc = "parked" => IF want = "root" THEN Closed /\ ~restartDraining ELSE restartSignalPending
        PROVE  NoLostWakeup'
    <2> DEFINE x == [chains[d] EXCEPT !.pc = pc, !.want = want]
    <2>1. chains' = [chains EXCEPT ![d] = x] /\ x.pc = pc /\ x.want = want
      BY <1>5 DEF RootsInv, RootTypes, ChainStates
    <2> HIDE DEF x
    <2> QED
      BY <1>2, <1>5, <2>1 DEF ParkedWell
  <1>6. ASSUME NEW d \in Chains, AdmitOrWait(d)
        PROVE  NoLostWakeup'
    <2>1. Idle.pc = "idle"
      BY DEF Idle
    <2> QED
      BY <1>2, <1>4, <1>5, <1>6, <2>1 DEF AdmitOrWait, Park, ParkedWell
  <1>7. ASSUME NEW pc \in {"running", "control"}, chains' = [chains EXCEPT ![c].pc = pc]
        PROVE  NoLostWakeup'
    <2> DEFINE x == [chains[c] EXCEPT !.pc = pc]
    <2>1. chains' = [chains EXCEPT ![c] = x] /\ x.pc = pc
      BY <1>7 DEF RootsInv, RootTypes, ChainStates
    <2> HIDE DEF x
    <2> QED
      BY <1>2, <2>1 DEF ParkedWell
  <1>8. CASE BeginRoot(c) \/ BeginControl(c) \/ BeginPreparedRestart(c) \/ BeginRestartStartup(c)
             \/ BeginWhenOpen(c) \/ RunOutside(c)
    BY <1>4, <1>6, <1>7, <1>8 DEF BeginRoot, BeginControl, BeginPreparedRestart,
       BeginRestartStartup, BeginWhenOpen, RunOutside
  <1>9. CASE AwaitFence(c)
    <2>1. /\ restartSignalPending
          /\ chains' = [chains EXCEPT ![c].pc = "parked", ![c].want = "settlement"]
      BY <1>9 DEF AwaitFence, Park
    <2> DEFINE x == [chains[c] EXCEPT !.pc = "parked", !.want = "settlement"]
    <2>2. chains' = [chains EXCEPT ![c] = x] /\ x.want = "settlement"
      BY <2>1 DEF RootsInv, RootTypes, ChainStates
    <2>3. ParkedWell(x)
      BY <2>1, <2>2 DEF ParkedWell
    <2> QED
      BY <1>2, <2>2, <2>3
  <1>10. CASE Continue(c)
    <2>1. CASE chains[c].want = "root"
      BY <1>6, <1>10, <2>1 DEF Continue
    <2>2. CASE chains[c].want # "root" /\ restartSignalPending
      <3>1. chains' = [chains EXCEPT ![c].pc = "parked", ![c].want = chains[c].want]
        BY <1>10, <2>2 DEF Continue
      <3> QED
        BY <1>5, <2>2, <3>1
    <2>3. CASE chains[c].want # "root" /\ ~restartSignalPending
      <3>1. chains' = [chains EXCEPT ![c].pc = "running", ![c].want = "none"]
        BY <1>10, <2>3 DEF Continue
      <3> QED
        BY <1>5, <3>1
    <2> QED
      BY <2>1, <2>2, <2>3
  <1>11. CASE Readmit(c)
    BY <1>6, <1>11 DEF Readmit
  <1>12. CASE End(c)
    BY <1>2, <1>12 DEF End, Idle, ParkedWell
  <1>13. ASSUME NEW d \in Chains, Detach(c, d) \/ DetachRoot(c, d) \/ RunScope(c, d)
         PROVE  NoLostWakeup'
    <2>1. Detach(c, d) => NoLostWakeup'
      BY <1>2 DEF Detach, Idle, ParkedWell
    <2>2. DetachRoot(c, d) => NoLostWakeup'
      BY <1>4, <1>6 DEF DetachRoot
    <2>3. RunScope(c, d) => NoLostWakeup'
      BY <1>2 DEF RunScope, ParkedWell
    <2> QED
      BY <1>13, <2>1, <2>2, <2>3
  <1>14. ASSUME NEW retain \in BOOLEAN, CreateScope(c, retain)
         PROVE  NoLostWakeup'
    BY <1>3, <1>14 DEF CreateScope
  <1>15. CASE ReleaseScope(c) \/ DropScope(c)
    BY <1>3, <1>15 DEF ReleaseScope, DropScope
  <1>16. ASSUME NEW w \in Work, StartWork(c, w)
         PROVE  NoLostWakeup'
    BY <1>3, <1>16 DEF StartWork
  <1> QED
    BY <1>8, <1>9, <1>10, <1>11, <1>12, <1>13, <1>14, <1>15, <1>16 DEF ChainStep

-----------------------------------------------------------------------------
(* The invariant of gateway and coordinator together *)

GatewayInv == SuspendInv /\ RootsInv /\ QuietAt(Now) /\ NoLostWakeup

\* A gateway starts with no root, no waiter and no suspension.
LEMMA InitGateway ==
    ASSUME Init
    PROVE  GatewayInv
  <1>1. SuspendInv
    BY InitSound
  <1>2. /\ Idle \in ChainStates /\ NoScope \in ScopeStates /\ ~Idle.lease /\ Idle.pc = "idle"
        /\ Idle.root = NoRoot /\ NoScope.root = NoRoot
    BY DEF Idle, NoScope, ChainStates, ScopeStates
  <1>3. RootTypes
    BY <1>2 DEF Init, RootTypes, RootStates, Origins
  <1>4. \A c \in Chains : ChainGood(chains[c]) /\ ScopeGood(scopes[c])
    BY <1>2 DEF Init, ChainGood, ScopeGood, LeaseGone, Live
  <1>5. RootsInv
    BY <1>3, <1>4 DEF RootsInv, Counted, Init
  <1>6. QuietAt(Now)
    BY DEF QuietAt, Now, Init
  <1>7. NoLostWakeup
    BY <1>2 DEF NoLostWakeup, Init
  <1> QED
    BY <1>1, <1>5, <1>6, <1>7 DEF GatewayInv

\* A step that changes neither chains, roots nor fences, and only takes work away.
LEMMA AloofKeeps ==
    ASSUME GatewayInv, UNCHANGED <<rootWork, chains, scopes, suspendPhase>>, work' \subseteq work,
           restartDraining' = restartDraining, restartSignalPending => restartSignalPending',
           current'.kind = current.kind, current'.request = current.request
    PROVE  RootsInv' /\ QuietAt(Now)' /\ NoLostWakeup'
  <1>1. RootsInv'
    BY Untouched DEF GatewayInv
  <1>2. QuietAt(Now)'
    BY DEF GatewayInv, QuietAt, Now, NoGateway, Allowed, rootWork
  <1>3. NoLostWakeup'
    BY DEF GatewayInv, NoLostWakeup, Closed, RestartFenced
  <1> QED
    BY <1>1, <1>2, <1>3

\* A step that wakes every waiter and leaves no suspension.
LEMMA WakeAllKeeps ==
    ASSUME RootsInv, chains' = WakeAll(chains)
    PROVE  NoLostWakeup'
  <1>1. \A d \in Chains : chains'[d].pc # "parked"
    BY DEF WakeAll, RootsInv, RootTypes, ChainStates
  <1> QED
    BY <1>1 DEF NoLostWakeup

\* Every action of a chain keeps the counts, the quiet and the wakeups.
LEMMA ChainStepKeeps ==
    ASSUME GatewayInv, NEW c \in Chains, ChainStep(c), UNCHANGED coordinator
    PROVE  RootsInv' /\ QuietAt(Now)' /\ NoLostWakeup'
  <1>1. RootsInv'
    <2>1. ASSUME NEW w \in Work, StartWork(c, w)
          PROVE  RootsInv'
      BY <2>1, Untouched DEF StartWork, GatewayInv
    <2> QED
      BY <2>1, BeginKeeps, WaitKeeps, DetachKeeps, EndKeeps, RunScopeKeeps, CreateScopeKeeps,
         ReleaseScopeKeeps, DropScopeKeeps DEF ChainStep, GatewayInv
  <1>2. NoLostWakeup'
    BY ChainStepParks DEF GatewayInv
  <1>3. UNCHANGED <<suspendPhase, current>>
    BY DEF ChainStep, BeginRoot, BeginControl, BeginPreparedRestart, BeginRestartStartup,
       BeginWhenOpen, RunOutside, AwaitFence, Continue, Readmit, End, Detach, DetachRoot,
       RunScope, CreateScope, ReleaseScope, DropScope, StartWork, coordinator
  <1>4. QuietAt(Now)'
    <2>1. CASE suspendPhase = "prepared"
      <3>1. NoGateway /\ (current.kind = "held" => work \subseteq Allowed(current.request))
        BY <2>1 DEF GatewayInv, QuietAt, Now
      <3>2. NoGateway' /\ work' = work
        BY <2>1, <3>1, ChainStepQuiet DEF GatewayInv
      <3> QED
        BY <1>3, <3>1, <3>2 DEF QuietAt, Now, Allowed
    <2>2. CASE suspendPhase # "prepared"
      BY <1>3, <2>2 DEF QuietAt, Now
    <2> QED
      BY <2>1, <2>2
  <1> QED
    BY <1>1, <1>2, <1>4

\* So does every step of the restart: what lowers a fence wakes everybody.
LEMMA RestartStepKeeps ==
    ASSUME GatewayInv, RestartStep
    PROVE  RootsInv' /\ QuietAt(Now)' /\ NoLostWakeup'
  <1>1. ASSUME NEW c \in Chains, BeginSignal(c), UNCHANGED coordinator
        PROVE  RootsInv' /\ QuietAt(Now)' /\ NoLostWakeup'
    BY <1>1, AloofKeeps DEF BeginSignal, coordinator
  <1>2. ASSUME NEW g \in signalLeases, RollbackSignal(g), UNCHANGED coordinator
        PROVE  RootsInv' /\ QuietAt(Now)' /\ NoLostWakeup'
    <2>1. /\ UNCHANGED <<restartDraining, suspendPhase, rootWork, scopes, work, current>>
          /\ chains' = WakeAll(chains) \/ UNCHANGED <<chains, restartSignalPending>>
      BY <1>2 DEF RollbackSignal, coordinator
    <2>2. CASE UNCHANGED <<chains, restartSignalPending>>
      BY <2>1, <2>2, AloofKeeps
    <2>3. CASE chains' = WakeAll(chains)
      <3>1. RootsInv' /\ NoLostWakeup'
        BY <2>1, <2>3, WakeKeeps, WakeAllKeeps DEF GatewayInv
      <3>2. QuietAt(Now)'
        BY <2>1 DEF GatewayInv, QuietAt, Now, NoGateway, Allowed, rootWork
      <3> QED
        BY <3>1, <3>2
    <2> QED
      BY <2>1, <2>2, <2>3
  <1>3. CASE MarkGatewayRestartDraining
    <2> DEFINE i == Invalidate(Now)
               r == [i EXCEPT !.wake = TRUE]
    <2>1. Now \in States
      BY NowFacts DEF GatewayInv
    <2>2. i \in States /\ i.phase = "accepting"
      BY <2>1, InvalidateFacts
    <2>3. Commit(r) /\ UNCHANGED <<rootWork, scopes>>
      BY <1>3 DEF MarkGatewayRestartDraining
    <2> HIDE DEF i
    <2>4. r.phase = "accepting" /\ r.wake
      BY <2>2 DEF States
    <2> HIDE DEF r
    <2>5. chains' = WakeAll(chains) /\ suspendPhase' = "accepting"
      BY <2>3, <2>4 DEF Commit
    <2>6. RootsInv' /\ NoLostWakeup'
      BY <2>3, <2>5, WakeKeeps, WakeAllKeeps DEF GatewayInv
    <2> QED
      BY <2>5, <2>6 DEF QuietAt, Now
  <1>4. CASE LifecycleReset
    <2>1. suspendPhase = "accepting"
      BY <1>4 DEF GatewayInv, SuspendInv, Sound, Now, LifecycleReset
    <2>2. chains' = WakeAll(chains) /\ suspendPhase' = suspendPhase
      BY <1>4 DEF LifecycleReset, Commit, Now
    <2>3. RootsInv' /\ NoLostWakeup'
      BY <1>4, <2>2, ResetKeeps, WakeAllKeeps DEF GatewayInv
    <2> QED
      BY <2>1, <2>2, <2>3 DEF QuietAt, Now
  <1> QED
    BY <1>1, <1>2, <1>3, <1>4 DEF RestartStep

\* Every step keeps the invariant, one action at a time.
LEMMA NextGateway ==
    ASSUME GatewayInv, [Next]_vars
    PROVE  GatewayInv'
  <1>1. SuspendInv'
    BY NextSound DEF GatewayInv
  <1>2. Coordinated => RootsInv' /\ QuietAt(Now)' /\ NoLostWakeup'
    BY CoordinatedKeeps DEF GatewayInv
  <1>3. ASSUME NEW c \in Chains, ControlStep(c)
        PROVE  Coordinated
    <2>1. ASSUME NEW request \in Requests, NEW resumed \in BOOLEAN, NEW ok \in BOOLEAN,
                 NEW inspected \in BOOLEAN, Prepare(c, request, resumed, ok, inspected)
          PROVE  Coordinated
      BY <2>1, PrepareFollows DEF GatewayInv
    <2>2. ASSUME NEW id, NEW ok \in BOOLEAN, Status(c, id, ok) \/ Resume(c, id, ok)
          PROVE  Coordinated
      BY <2>2, StatusFollows DEF GatewayInv
    <2> QED
      BY <1>3, <2>1, <2>2 DEF ControlStep
  <1>4. ASSUME NEW t \in timers, NEW ok \in BOOLEAN, TimerFires(t, ok)
        PROVE  Coordinated
    BY <1>4, TimerFollows DEF GatewayInv
  <1>5. ASSUME NEW w \in Work, EndWork(w), UNCHANGED coordinator
        PROVE  RootsInv' /\ QuietAt(Now)' /\ NoLostWakeup'
    BY <1>5, AloofKeeps DEF EndWork, coordinator, restart
  <1>6. ASSUME Expire
        PROVE  RootsInv' /\ QuietAt(Now)' /\ NoLostWakeup'
    <2>1. current \in Entries
      BY NowFacts DEF GatewayInv, States
    <2>2. current'.kind = current.kind /\ current'.request = current.request
      BY <1>6, <2>1 DEF Expire, Entries
    <2>3. UNCHANGED <<rootWork, chains, scopes, suspendPhase, work, restartDraining,
                      restartSignalPending>>
      BY <1>6 DEF Expire, restart
    <2> QED
      BY <2>2, <2>3, AloofKeeps
  <1>7. ASSUME NEW t \in timers, TimerDue(t)
        PROVE  RootsInv' /\ QuietAt(Now)' /\ NoLostWakeup'
    BY <1>7, AloofKeeps DEF TimerDue, restart
  <1>8. ASSUME UNCHANGED vars
        PROVE  RootsInv' /\ QuietAt(Now)' /\ NoLostWakeup'
    <2>1. UNCHANGED <<rootWork, chains, scopes, suspendPhase, work, restartDraining,
                      restartSignalPending, current>>
      BY <1>8 DEF vars, coordinator, restart
    <2> QED
      BY <2>1, AloofKeeps
  <1>9. ASSUME NEW c \in Chains, ChainStep(c), UNCHANGED coordinator
        PROVE  RootsInv' /\ QuietAt(Now)' /\ NoLostWakeup'
    BY <1>9, ChainStepKeeps
  <1>10. Time => RootsInv' /\ QuietAt(Now)' /\ NoLostWakeup'
    BY <1>2, <1>4, <1>6, <1>7 DEF Time
  <1>11. RestartStep => RootsInv' /\ QuietAt(Now)' /\ NoLostWakeup'
    BY RestartStepKeeps
  <1>12. RootsInv' /\ QuietAt(Now)' /\ NoLostWakeup'
    BY <1>2, <1>3, <1>5, <1>8, <1>9, <1>10, <1>11 DEF Next
  <1> QED
    BY <1>1, <1>12 DEF GatewayInv

-----------------------------------------------------------------------------
(* The theorems about roots, quiet and waiters *)

\* The coordinator, the roots and the waiters keep their invariant, in every
\* instance of the specification.
THEOREM GatewayInvariance == Spec => []GatewayInv
  BY InitGateway, NextGateway, PTL DEF Spec

\* A root is active exactly while some lease or retained scope keeps it, and its
\* count is the number of those, in whatever order chains, scopes, late
\* completions and lifecycle resets let go of it.
THEOREM RootsCountedTheorem == Spec => []RootsCounted
  <1>1. GatewayInv => RootsCounted
    BY DEF GatewayInv, RootsInv, RootsCounted, Counted, ChainGood, ScopeGood
  <1> QED
    BY <1>1, GatewayInvariance, PTL

\* A suspension that reports ready stays quiet until it ends: no chain admitted
\* before the fence, nothing it detached and no late completion of its scopes
\* brings a gateway root back or starts work behind the fence.
THEOREM PreparedIsQuietTheorem == Spec => []PreparedIsQuiet
  <1>1. GatewayInv => PreparedIsQuiet
    <2> SUFFICES ASSUME GatewayInv, suspendPhase = "prepared"
                 PROVE  /\ \A r \in activeRootWork : roots[r].origin \in {"control", "restart"}
                        /\ current.kind = "held" =>
                              work \subseteq IF current.request.terminate THEN Terminals ELSE {}
      BY DEF PreparedIsQuiet
    <2>1. NoGateway /\ (current.kind = "held" => work \subseteq Allowed(current.request))
      BY DEF GatewayInv, QuietAt, Now
    <2>2. \A r \in activeRootWork : roots[r].origin \in Origins
      BY DEF GatewayInv, RootsInv, RootTypes, RootStates
    <2> QED
      BY <2>1, <2>2 DEF NoGateway, Allowed, Origins
  <1> QED
    BY <1>1, GatewayInvariance, PTL

\* No waiter sleeps on a fence that is down: every step that opens admission,
\* drains, resets or rolls a restart signal back resolves the waiters there are,
\* and no chain parks after the fence it would wait for is gone.
THEOREM NoLostWakeupTheorem == Spec => []NoLostWakeup
  <1>1. GatewayInv => NoLostWakeup
    BY DEF GatewayInv
  <1> QED
    BY <1>1, GatewayInvariance, PTL

-----------------------------------------------------------------------------
(* The restart fence and the leases *)

\* Of all the steps, only the rollback of the pending signal's own lease lowers
\* the restart fence without a drain.
LEMMA SignalStep ==
    ASSUME SuspendInv, [Next]_vars,
           restartSignalPending, ~restartSignalPending', ~restartDraining'
    PROVE  restartSignalGeneration \in signalLeases \ signalLeases'
  <1>1. ASSUME NEW c \in Chains, ChainStep(c)
        PROVE  UNCHANGED restart
    BY <1>1 DEF ChainStep, BeginRoot, BeginControl, BeginPreparedRestart,
       BeginRestartStartup, BeginWhenOpen, RunOutside, AwaitFence, Continue, Readmit, End,
       Detach, DetachRoot, RunScope, CreateScope, ReleaseScope, DropScope, StartWork
  <1>2. ASSUME NEW c \in Chains, ControlStep(c)
        PROVE  UNCHANGED restart
    BY <1>2 DEF ControlStep, Prepare, Status, Resume
  <1>3. Time => UNCHANGED restart
    BY DEF Time, Expire, TimerDue, TimerFires
  <1>4. ASSUME NEW w \in Work, EndWork(w)
        PROVE  UNCHANGED restart
    BY <1>4 DEF EndWork
  <1>5. RestartStep
    BY <1>1, <1>2, <1>3, <1>4 DEF Next, vars, restart
  <1>6. ~restartDraining
    BY DEF SuspendInv
  <1>7. PICK g \in signalLeases : RollbackSignal(g)
    BY <1>5, <1>6 DEF RestartStep, BeginSignal, MarkGatewayRestartDraining, LifecycleReset
  <1>8. g = restartSignalGeneration /\ signalLeases' = signalLeases \ {g}
    BY <1>7 DEF RollbackSignal
  <1> QED
    BY <1>8

\* A poll or a renewal leaves the entry its identity.
LEMMA RefreshId ==
    ASSUME NEW s \in States, NEW c
    PROVE  Refresh(s, c).current.id = s.current.id
  <1> DEFINE m == Move(s, "prepared")
  <1>1. m \in States /\ m.current = s.current /\ s.current \in Entries
    BY MoveFacts DEF Phases, States
  <1> HIDE DEF m
  <1>2. [m EXCEPT !.current.ready = TRUE].current.id = s.current.id
    BY <1>1 DEF States, Entries
  <1> QED
    BY <1>2 DEF Refresh, m

\* A renewal leaves the entry its identity.
LEMMA RenewId ==
    ASSUME NEW s \in States, NEW c
    PROVE  Renew(s, c).current.id = s.current.id
  <1> DEFINE n == [s EXCEPT !.current.expired = FALSE]
  <1>1. n \in States /\ n.current.id = s.current.id
    <2>1. s.current \in Entries /\ [s.current EXCEPT !.expired = FALSE] \in Entries
          /\ [s.current EXCEPT !.expired = FALSE].id = s.current.id
      BY DEF States, Entries
    <2>2. n = [s EXCEPT !.current = [s.current EXCEPT !.expired = FALSE]]
      BY DEF States
    <2> QED
      BY <2>1, <2>2 DEF States
  <1> HIDE DEF n
  <1>2. Arm(n) \in States /\ Arm(n).current = [n.current EXCEPT !.timer = @ + 1]
    BY <1>1, ArmFacts
  <1>3. Arm(n).current.id = n.current.id
    BY <1>1, <1>2 DEF States, Entries
  <1>4. Renew(s, c) = Refresh(Arm(n), c)
    BY DEF Renew, n
  <1>5. Arm(n) \in States
    BY <1>2
  <1> QED
    BY <1>1, <1>3, <1>4, <1>5, RefreshId

\* An unexpired lease that ends in a step is resumed or superseded in it.
LEMMA LeaseStep ==
    ASSUME SuspendInv, [Next]_vars, current.kind = "held", current'.id # current.id,
           ~current.expired,
           [id |-> current.id, timer |-> current.timer, queued |-> TRUE] \notin timers,
           ~restartDraining'
    PROVE  \E c \in Chains, ok \in BOOLEAN : Resume(c, current.id, ok)
  <1>1. Now \in States /\ Now.current = current /\ Now.timers = timers
        /\ current \in Entries /\ timers \subseteq Timers
    BY NowFacts DEF States
  <1>2. \A ok : Normalize(Now, ok) = Now
    BY <1>1 DEF Normalize
  <1>3. \A s : Commit(s) => s.current.id # current.id
    BY DEF Commit
  <1>4. ~UNCHANGED coordinator
    BY DEF coordinator
  <1>5. ~Expire
    BY <1>1 DEF Expire, Entries
  <1>6. ASSUME NEW t \in timers, NEW ok \in BOOLEAN, TimerFires(t, ok)
        PROVE  FALSE
    <2>1. ASSUME IsCurrent(t)
          PROVE  FALSE
      <3>1. t \in Timers /\ t.queued /\ t.id = current.id /\ t.timer = current.timer
        BY <1>1, <1>6, <2>1 DEF TimerFires, IsCurrent
      <3>2. t = [id |-> current.id, timer |-> current.timer, queued |-> TRUE]
        BY <3>1 DEF Timers
      <3> QED
        BY <3>2
    <2>2. [Now EXCEPT !.timers = @ \ {t}].current = current
      BY <1>1 DEF Now
    <2> QED
      BY <1>3, <1>6, <2>1, <2>2 DEF TimerFires
  <1>7. ~Time
    BY <1>5, <1>6 DEF Time, TimerDue
  <1>8. ~RestartStep
    <2>1. ~LifecycleReset
      BY DEF LifecycleReset, Commit, Now
    <2>2. ~MarkGatewayRestartDraining
      BY DEF MarkGatewayRestartDraining
    <2> QED
      BY <1>4, <2>1, <2>2 DEF RestartStep
  <1>9. PICK c \in Chains : ControlStep(c)
    BY <1>4, <1>7, <1>8 DEF Next, vars
  <1>10. ASSUME NEW request \in Requests, NEW resumed \in BOOLEAN, NEW ok \in BOOLEAN,
                NEW inspected \in BOOLEAN, Prepare(c, request, resumed, ok, inspected)
         PROVE  FALSE
    <2>1. Commit(Now) \/ Commit(Renew(Now, c))
      BY <1>1, <1>2, <1>10 DEF Prepare
    <2> QED
      BY <1>1, <1>3, <2>1, RenewId
  <1>11. ASSUME NEW id \in 1 .. (nextId - 1), NEW ok \in BOOLEAN, Status(c, id, ok)
         PROVE  FALSE
    <2>1. Commit(Now) \/ Commit(Refresh(Now, c))
      BY <1>2, <1>11 DEF Status
    <2> QED
      BY <1>1, <1>3, <2>1, RefreshId
  <1>12. ASSUME NEW id \in 1 .. (nextId - 1), NEW ok \in BOOLEAN, Resume(c, id, ok)
         PROVE  id = current.id
    BY <1>1, <1>2, <1>3, <1>12 DEF Resume
  <1> QED
    BY <1>9, <1>10, <1>11, <1>12 DEF ControlStep

\* What the coordinator's and the roots' invariants do not type.
RestTypes ==
    /\ restartSignalPending \in BOOLEAN /\ restartSignalGeneration \in Nat
    /\ signalLeases \subseteq Nat /\ work \subseteq Work /\ retired \in BOOLEAN

\* Every action types the variables it assigns.
LEMMA RestTypesKept ==
    ASSUME RestTypes, [Next]_vars
    PROVE  RestTypes'
  <1>1. ASSUME NEW c \in Chains, ChainStep(c), UNCHANGED coordinator
        PROVE  RestTypes'
    <2>1. UNCHANGED restart
      BY <1>1 DEF ChainStep, BeginRoot, BeginControl, BeginPreparedRestart,
         BeginRestartStartup, BeginWhenOpen, RunOutside, AwaitFence, Continue, Readmit, End,
         Detach, DetachRoot, RunScope, CreateScope, ReleaseScope, DropScope, StartWork
    <2>2. work' \subseteq Work
      BY <1>1 DEF RestTypes, ChainStep, BeginRoot, BeginControl, BeginPreparedRestart,
         BeginRestartStartup, BeginWhenOpen, RunOutside, AwaitFence, Continue, Readmit, End,
         Detach, DetachRoot, RunScope, CreateScope, ReleaseScope, DropScope, StartWork
    <2> QED
      BY <1>1, <2>1, <2>2 DEF RestTypes, restart, coordinator
  <1>2. ASSUME NEW c \in Chains, ControlStep(c)
        PROVE  RestTypes'
    BY <1>2 DEF RestTypes, ControlStep, Prepare, Status, Resume, restart
  <1>3. ASSUME NEW w \in Work, EndWork(w), UNCHANGED coordinator
        PROVE  RestTypes'
    BY <1>3 DEF RestTypes, EndWork, restart, coordinator
  <1>4. Time => RestTypes'
    BY DEF RestTypes, Time, Expire, TimerDue, TimerFires, restart
  <1>5. ASSUME NEW c \in Chains, BeginSignal(c), UNCHANGED coordinator
        PROVE  RestTypes'
    <2>1. /\ restartSignalPending' = TRUE /\ restartSignalGeneration' = restartSignalGeneration + 1
          /\ signalLeases' = signalLeases \cup {restartSignalGeneration + 1}
          /\ work' = work /\ retired' = retired
      BY <1>5 DEF BeginSignal, coordinator
    <2> QED
      BY <2>1 DEF RestTypes
  <1>6. ASSUME NEW g \in signalLeases, RollbackSignal(g), UNCHANGED coordinator
        PROVE  RestTypes'
    <2>1. /\ restartSignalPending' = FALSE \/ restartSignalPending' = restartSignalPending
          /\ signalLeases' = signalLeases \ {g} /\ work' = work /\ retired' = retired
      BY <1>6 DEF RollbackSignal, coordinator
    <2>2. restartSignalGeneration' \in {restartSignalGeneration, restartSignalGeneration + 1}
      BY <1>6 DEF RollbackSignal
    <2>3. restartSignalPending' \in BOOLEAN
      BY <2>1, Zenon DEF RestTypes
    <2>4. restartSignalGeneration' \in Nat /\ signalLeases' \subseteq Nat
      BY <2>1, <2>2 DEF RestTypes
    <2>5. work' \subseteq Work /\ retired' \in BOOLEAN
      BY <2>1, Zenon DEF RestTypes
    <2> QED
      BY <2>3, <2>4, <2>5 DEF RestTypes
  <1>7. ASSUME MarkGatewayRestartDraining
        PROVE  RestTypes'
    <2>1. /\ restartSignalPending' = FALSE /\ restartSignalGeneration' = restartSignalGeneration + 1
          /\ signalLeases' = signalLeases /\ work' = work
      BY <1>7 DEF MarkGatewayRestartDraining
    <2>2. retired' = (retired \/ suspendPhase # "accepting")
      BY <1>7 DEF MarkGatewayRestartDraining
    <2>3. retired' \in BOOLEAN
      BY <2>2
    <2>4. restartSignalPending' \in BOOLEAN
      BY <2>1, Zenon
    <2>5. restartSignalGeneration' \in Nat /\ signalLeases' \subseteq Nat /\ work' \subseteq Work
      BY <2>1 DEF RestTypes
    <2> QED
      BY <2>3, <2>4, <2>5 DEF RestTypes
  <1>8. ASSUME LifecycleReset
        PROVE  RestTypes'
    <2>1. /\ restartSignalPending' = FALSE /\ restartSignalGeneration' = restartSignalGeneration + 1
          /\ retired' = FALSE /\ signalLeases' = signalLeases /\ work' = work
      BY <1>8 DEF LifecycleReset
    <2>2. restartSignalPending' \in BOOLEAN /\ retired' \in BOOLEAN
      BY <2>1, Zenon
    <2>3. restartSignalGeneration' \in Nat /\ signalLeases' \subseteq Nat /\ work' \subseteq Work
      BY <2>1 DEF RestTypes
    <2> QED
      BY <2>2, <2>3 DEF RestTypes
  <1>9. UNCHANGED vars => RestTypes'
    BY DEF RestTypes, vars, restart, coordinator
  <1> QED
    BY <1>1, <1>2, <1>3, <1>4, <1>5, <1>6, <1>7, <1>8, <1>9 DEF Next, RestartStep

\* The gateway's variables keep their types; no release takes a reference count
\* below zero.
THEOREM GatewayTypeOK == Spec => []TypeOK
  <1>1. ASSUME Init
        PROVE  RestTypes
    <2>1. restartSignalPending \in BOOLEAN /\ retired \in BOOLEAN
      BY <1>1, Zenon DEF Init
    <2> QED
      BY <1>1, <2>1 DEF Init, RestTypes
  <1>2. Spec => []RestTypes
    BY <1>1, RestTypesKept, PTL DEF Spec
  <1>3. GatewayInv /\ RestTypes => TypeOK
    <2> SUFFICES ASSUME GatewayInv, RestTypes
                 PROVE  TypeOK
      OBVIOUS
    <2>1. restartDraining \in BOOLEAN /\ RootTypes
      BY DEF GatewayInv, SuspendInv, RootsInv
    <2>2. Now \in States
      BY NowFacts DEF GatewayInv
    <2>3. /\ suspendPhase \in Phases /\ suspendGeneration \in Nat /\ current \in Entries
          /\ nextId \in Nat /\ timers \subseteq Timers
      BY <2>2 DEF States, Now
    <2>4. paused \in BOOLEAN
      BY <2>2 DEF States, Now
    <2> QED
      BY <2>1, <2>3, <2>4 DEF RootTypes, RestTypes, TypeOK
  <1> QED
    BY <1>2, <1>3, GatewayInvariance, PTL

\* The restart fence comes down only by the lease that raised it or by the drain
\* it announced: generations left over from earlier signals, drains and
\* lifecycles do not match.
THEOREM SignalFenceTheorem == Spec => SignalFenceHeld
  <1>1. SuspendInv /\ [Next]_vars =>
           [restartSignalPending /\ ~restartSignalPending' /\ ~restartDraining' =>
              restartSignalGeneration \in signalLeases \ signalLeases']_vars
    BY SignalStep
  <1> QED
    BY <1>1, SuspendInvariance, PTL DEF Spec, SignalFenceHeld

\* A lease that has not expired, neither by the wall clock nor by its own timer,
\* ends only when its holder resumes it or a drain supersedes it, whatever
\* callbacks of replaced timers are still queued.
THEOREM LeaseHonouredTheorem == Spec => LeaseHonoured
  <1> DEFINE Ends == /\ current.kind = "held" /\ current'.id # current.id
                     /\ ~current.expired
                     /\ [id |-> current.id, timer |-> current.timer, queued |-> TRUE] \notin timers
             Rightly == \/ restartDraining'
                        \/ \E c \in Chains, ok \in BOOLEAN : Resume(c, current.id, ok)
  <1>1. SuspendInv /\ [Next]_vars => [Ends => Rightly]_vars
    BY LeaseStep
  <1> QED
    BY <1>1, SuspendInvariance, PTL DEF Spec, LeaseHonoured

=============================================================================
