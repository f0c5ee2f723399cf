---------------------------- MODULE WorkersProofs ----------------------------
(***************************************************************************)
(* The server's background workers of MCWorkers and MCActivity, for every  *)
(* policy, input and bound: the timers of a session, the pipeline from a   *)
(* changed file to a reconciliation, the process monitor, and the watches  *)
(* on worktrees with the attribution of their changes.                     *)
(***************************************************************************)
EXTENDS SessionTimers, WatchPipeline, ProcessMonitor, WorktreeActivity, SessionReducerProofs,
        SequenceTheorems, FiniteSetTheorems, WellFoundedInduction

(* The session over time.                                                  *)

\* A sample taken in this epoch is a time point.
LEMMA SampledType ==
    ASSUME TypeOK, NEW delay \in Delays
    PROVE  Sampled(delay) \in TimePoint
BY TimersAssumption DEF TypeOK, Delays, Sampled, TimePoint, Time

\* What the history adds up to is a natural number.
LEMMA MeterType ==
    ASSUME TypeOK, NEW now \in TimePoint
    PROVE  ActiveTime(now) \in Nat
<1>1. Ran(now.mono) \in Nat
  BY DEF TypeOK, Ran, saturating_sub, TimePoint, Time
<1>2. QED
  BY <1>1 DEF TypeOK, ActiveTime

\* The inductive invariant: the variables are typed and the snapshot is well
\* formed.
SoundInv == TypeOK /\ Sound(snap)

\* A new session's snapshot is well formed.
LEMMA InitSound == Init => SoundInv
<1> SUFFICES ASSUME Init PROVE SoundInv
  OBVIOUS
<1>1. snap \in Snapshot
  BY DEF Init, NewSnapshot, Snapshot, DetailedState, Time, OptTime, NoTime, None
<1>2. Marks(snap) /\ Memo(snap)
  BY DEF Init, NewSnapshot, Marks, Memo, NoTime, None
<1>3. QED
  BY <1>1, <1>2 DEF Init, SoundInv, TypeOK, Sound, Time, DetailedState

\* An envelope of the model is one the reducer accepts.
LEMMA ObserveSound ==
    ASSUME SoundInv, NEW o, o.id \in Nat, o.at \in TimePoint,
           o.kind \in PayloadKinds, o.arg \in PayloadArgs(o.kind), Observe(o)
    PROVE  SoundInv'
<1>1. Sound(snap')
  BY ObservationSound DEF SoundInv, Observe
<1>2. snap' \in Snapshot /\ snap'.state \in DetailedState
  BY <1>1 DEF Sound, Snapshot
<1>3. ActiveTime(o.at) \in Nat /\ o.at.mono \in Nat
  BY MeterType DEF SoundInv, TimePoint, Time
<1>4. mark' \in Time /\ credit' \in Nat
  BY <1>3 DEF SoundInv, TypeOK, Observe, Time
<1>5. notice' \in Time /\ vouched' \in BOOLEAN
  BY <1>2 DEF SoundInv, TypeOK, Observe, Remember
<1>6. QED
  BY <1>1, <1>2, <1>4, <1>5 DEF SoundInv, TypeOK, Observe

\* Evidence is an observation the reducer accepts, with a sample of this epoch.
LEMMA EvidenceIs ==
    ASSUME TypeOK, Evidence
    PROVE  \E o : /\ o.id \in Nat /\ o.at \in TimePoint /\ o.kind \in PayloadKinds
                  /\ o.arg \in PayloadArgs(o.kind) /\ o.trusted \in BOOLEAN /\ Observe(o)
                  /\ \E delay \in Delays : o.at = Sampled(delay)
<1>1. PICK id \in Ids, delay \in Delays, trusted \in BOOLEAN, kind \in Kinds :
        \E arg \in Inputs(kind) : Observe(Envelope(id, delay, trusted, kind, arg))
  BY DEF Evidence
<1>2. PICK arg \in Inputs(kind) : Observe(Envelope(id, delay, trusted, kind, arg))
  BY <1>1
<1>3. kind \in PayloadKinds /\ id \in Nat
  BY TimersAssumption
<1>4. arg \in PayloadArgs(kind)
  BY TimersAssumption DEF Inputs, PayloadArgs
<1>5. Sampled(delay) \in TimePoint
  BY SampledType
<1> DEFINE o == Envelope(id, delay, trusted, kind, arg)
<1>6. /\ o.id \in Nat /\ o.at \in TimePoint /\ o.kind \in PayloadKinds
      /\ o.arg \in PayloadArgs(o.kind) /\ o.trusted \in BOOLEAN /\ o.at = Sampled(delay)
  BY <1>3, <1>4, <1>5 DEF Envelope
<1> HIDE DEF o
<1>7. Observe(o)
  BY <1>2 DEF o
<1>8. QED
  BY <1>6, <1>7

\* Every step keeps the snapshot well formed.
LEMMA NextSound == SoundInv /\ [Next]_vars => SoundInv'
<1> SUFFICES ASSUME SoundInv, [Next]_vars PROVE SoundInv'
  OBVIOUS
<1>1. CASE Evidence
  BY <1>1, EvidenceIs, ObserveSound DEF SoundInv
<1>2. ASSUME NEW delay \in Delays, Tick(delay) PROVE SoundInv'
  <2>1. Sound(snap')
    BY <1>2, SampledType, TickSound DEF SoundInv, Tick
  <2>2. snap' \in Snapshot /\ snap'.state \in DetailedState
    BY <2>1 DEF Sound, Snapshot
  <2>3. QED
    BY <1>2, <2>1, <2>2 DEF SoundInv, TypeOK, Tick, Remember
<1>3. CASE Restart
  <2>1. [wall |-> wall, mono |-> 0] \in TimePoint
    BY DEF SoundInv, TypeOK, TimePoint, Time
  <2>2. Sound(snap')
    BY <1>3, <2>1, RestartedSound DEF SoundInv, Restart
  <2>3. snap' \in Snapshot
    BY <2>2 DEF Sound
  <2>4. /\ wall' \in Time /\ boot' \in Time /\ boot' <= wall' /\ restarts' \in Nat
        /\ mark' \in Time /\ credit' \in Nat /\ notice' \in Time
    BY <1>3 DEF SoundInv, TypeOK, Restart, Time
  <2>5. vouched' \in BOOLEAN
    BY <1>3 DEF SoundInv, TypeOK, Restart
  <2>6. QED
    BY <2>2, <2>3, <2>4, <2>5 DEF SoundInv, TypeOK
<1>4. CASE Reconcile
  <2>1. Sound(snap')
    BY <1>4, ReconciledSound DEF SoundInv, Reconcile
  <2>2. snap' \in Snapshot
    BY <2>1 DEF Sound
  <2>3. QED
    BY <1>4, <2>1, <2>2 DEF SoundInv, TypeOK, Reconcile
<1>5. CASE Advance
  BY <1>5 DEF SoundInv, TypeOK, Advance, history, Sound, Marks, Memo, Time
<1>6. CASE UNCHANGED vars
  BY <1>6 DEF SoundInv, TypeOK, vars, history, Sound, Marks, Memo
<1>7. QED
  BY <1>1, <1>2, <1>3, <1>4, <1>5, <1>6 DEF Next

\* The snapshot and the clocks keep their types for every policy, every input
\* set and every bound (reducer.rs: reduce).
THEOREM TypeCorrect == Spec => []TypeOK
<1>1. SoundInv => TypeOK
  BY DEF SoundInv
<1>2. QED
  BY <1>1, InitSound, NextSound, PTL DEF Spec

\* A session carries stall and reminder marks exactly while it is Stalled, in
\* every order of evidence, ticks, conflicts and restarts (reducer.rs:
\* transition, record_activity, apply_tick).
THEOREM StallMarksCorrect == Spec => []StallMarksCoupled
<1>1. SoundInv => StallMarksCoupled
  BY DEF SoundInv, Sound, Marks, StallMarksCoupled
<1>2. QED
  BY <1>1, InitSound, NextSound, PTL DEF Spec

\* The memo of the state before a conflict exists exactly while the conflict
\* is latched (reducer.rs: SourceConflict, SourceConflictResolved).
THEOREM ConflictMemoCorrect == Spec => []ConflictMemoCoupled
<1>1. SoundInv => ConflictMemoCoupled
  BY DEF SoundInv, Sound, Memo, ConflictMemoCoupled
<1>2. QED
  BY <1>1, InitSound, NextSound, PTL DEF Spec

-----------------------------------------------------------------------------
(* What the timers decide.                                                 *)

\* After a restart nothing is decided until the session is vouched for.
LEMMA QuietSteps == SoundInv /\ QuietUntilVouched /\ [Next]_vars => QuietUntilVouched'
<1> SUFFICES ASSUME SoundInv, QuietUntilVouched, [Next]_vars, ~vouched'
             PROVE  /\ snap'.reconciliation_required
                    /\ snap'.events \cap {"Suspect", "AlertDue", "ReminderDue"} = {}
  BY DEF QuietUntilVouched
<1>1. Sound(snap)
  BY DEF SoundInv
<1>2. Fresh(snap).reconciliation_required = snap.reconciliation_required /\ Fresh(snap).events = {}
  BY <1>1 DEF Fresh, Sound, Snapshot
<1>3. CASE Evidence
  <2>1. PICK o : /\ o.id \in Nat /\ o.at \in TimePoint /\ o.kind \in PayloadKinds
                 /\ o.arg \in PayloadArgs(o.kind) /\ o.trusted \in BOOLEAN /\ Observe(o)
    BY <1>3, EvidenceIs DEF SoundInv
  <2>2. ~vouched /\ (Superseded(snap, o) \/ ~Vouches(o))
    BY <2>1 DEF Observe
  <2>3. \/ Superseded(snap, o) \/ ~o.trusted
        \/ o.kind \in {"Compatibility", "CompatibilityResolved"}
    BY <2>2 DEF Vouches
  <2>4. snap.reconciliation_required /\ snap' = reduce_observation(snap, o)
    BY <2>1, <2>2 DEF QuietUntilVouched, Observe
  <2>5. /\ reduce_observation(snap, o).reconciliation_required
        /\ reduce_observation(snap, o).events \subseteq {"CompatibilityChanged"}
    BY <1>1, <2>1, <2>3, <2>4, UnvouchedQuiet
  <2>6. QED
    BY <2>4, <2>5
<1>4. ASSUME NEW delay \in Delays, Tick(delay)
      PROVE  /\ snap'.reconciliation_required
             /\ snap'.events \cap {"Suspect", "AlertDue", "ReminderDue"} = {}
  <2>1. snap.reconciliation_required /\ ~TimerRuns(snap)
    BY <1>4 DEF Tick, QuietUntilVouched, TimerRuns
  <2>2. Sampled(delay) \in TimePoint
    BY SampledType DEF SoundInv
  <2>3. snap' = Fresh(snap)
    BY <1>1, <1>4, <2>1, <2>2, TickCarried DEF Tick
  <2>4. QED
    BY <1>2, <2>1, <2>3
<1>5. CASE Restart
  BY <1>1, <1>5 DEF Restart, reduce_restarted, Sound, Snapshot
<1>6. CASE Reconcile
  BY <1>6 DEF Reconcile
<1>7. CASE Advance \/ UNCHANGED vars
  BY <1>7 DEF Advance, vars, history, QuietUntilVouched
<1>8. QED
  BY <1>3, <1>4, <1>5, <1>6, <1>7 DEF Next

\* The meter of the history agrees with the reducer's fields, and runs from the
\* last observation.
MeterInv ==
    /\ Metered(snap, mark, credit)
    /\ mark = IF snap.last_mono = NoTime THEN 0 ELSE snap.last_mono

\* The last notice is not older than the reminder's mark, as long as both belong to
\* the running epoch.
NoticeInv ==
    /\ notice <= wall
    /\ restarts = 0 => boot = 0
    /\ snap.state = "Stalled" /\ (restarts > 0 => notice > boot)
         => boot + snap.last_reminder <= notice

\* Both hold of a new session.
LEMMA InitMeter == Init => MeterInv /\ NoticeInv
<1> SUFFICES ASSUME Init PROVE MeterInv /\ NoticeInv
  OBVIOUS
<1>1. /\ snap.pause_started = NoTime /\ snap.last_activity = 0 /\ snap.paused_elapsed = 0
      /\ snap.last_mono = NoTime /\ snap.state = "Starting"
  BY DEF Init, NewSnapshot
<1>2. QED
  BY <1>1 DEF Init, MeterInv, NoticeInv, Metered, timers_paused

\* The invariant of the measure survives an observation.
LEMMA ObserveMeters ==
    ASSUME SoundInv, MeterInv, NEW o, o.id \in Nat, o.at \in TimePoint,
           o.kind \in PayloadKinds, o.arg \in PayloadArgs(o.kind), o.trusted \in BOOLEAN,
           Observe(o)
    PROVE  MeterInv'
<1> DEFINE t == o.at.mono
           r == reduce_observation(snap, o)
<1>1. /\ Sound(snap) /\ t \in Nat /\ mark \in Nat /\ credit \in Nat
      /\ snap.last_mono \in Nat \/ snap.last_mono = NoTime
  BY DEF SoundInv, TypeOK, TimePoint, Time, Sound, Snapshot, OptTime
<1>2. /\ MarksFrom(snap, r, t) /\ MeterKept(snap, r, t)
      /\ Superseded(snap, o) => r = Fresh(snap)
      /\ ~Superseded(snap, o) => r.last_mono = t
      /\ ~Superseded(snap, o) /\ o.trusted /\ IsActive(o.kind, o.arg) => Restarted(snap, r, t)
  BY <1>1, ObservationCarried
<1>3. snap' = r
  BY DEF Observe
<1> HIDE DEF r
<1>4. CASE Superseded(snap, o)
  <2>1. mark' = mark /\ credit' = credit /\ snap' = Fresh(snap)
    BY <1>2, <1>3, <1>4 DEF Observe
  <2>2. Still(snap, Fresh(snap), mark)
    BY <1>1, FieldStill DEF Fresh
  <2>3. QED
    BY <1>1, <2>1, <2>2 DEF MeterInv, Still, MeterKept
<1>5. CASE ~Superseded(snap, o)
  <2> DEFINE c == credit + (IF timers_paused(snap) THEN 0 ELSE saturating_sub(t, mark))
  <2>1. mark <= t
    BY <1>1, <1>5 DEF MeterInv, Superseded, NoTime
  <2>2. Metered(snap, t, c) /\ c \in Nat
    <3>1. Metered(snap, mark, credit)
      BY DEF MeterInv
    <3>2. Metered(snap, t, c)
      BY <1>1, <2>1, <3>1, MeterMoves
    <3>3. c \in Nat
      BY <1>1 DEF saturating_sub
    <3>4. QED
      BY <3>2, <3>3
  <2>3. mark' = t /\ credit' = IF IsActivity(o) THEN 0 ELSE c
    BY <1>5 DEF Observe, ActiveTime, Ran
  <2>4. IsActivity(o) => o.trusted /\ IsActive(o.kind, o.arg)
    BY DEF IsActivity, IsActive
  <2> HIDE DEF c
  <2>5. Metered(snap', mark', credit')
    <3>1. CASE IsActivity(o)
      BY <1>2, <1>3, <1>5, <2>2, <2>3, <2>4, <3>1 DEF Restarted
    <3>2. CASE ~IsActivity(o)
      BY <1>2, <1>3, <2>2, <2>3, <3>2 DEF MeterKept
    <3>3. QED
      BY <3>1, <3>2
  <2>6. snap'.last_mono = t /\ t # NoTime
    BY <1>1, <1>2, <1>3, <1>5 DEF NoTime
  <2>7. QED
    BY <2>3, <2>5, <2>6 DEF MeterInv
<1>6. QED
  BY <1>4, <1>5

\* Every step keeps the meter.
LEMMA MeterSteps == SoundInv /\ MeterInv /\ [Next]_vars => MeterInv'
<1> SUFFICES ASSUME SoundInv, MeterInv, [Next]_vars PROVE MeterInv'
  OBVIOUS
<1>1. CASE Evidence
  BY <1>1, EvidenceIs, ObserveMeters DEF SoundInv
<1>2. ASSUME NEW delay \in Delays, Tick(delay) PROVE MeterInv'
  <2> DEFINE r == reduce_tick(snap, Sampled(delay))
  <2>1. Sound(snap) /\ Sampled(delay) \in TimePoint /\ credit \in Nat
    BY SampledType DEF SoundInv, TypeOK
  <2>2. (\A u : MeterKept(snap, r, u)) /\ r.last_mono = snap.last_mono
    BY <2>1, TickCarried
  <2>3. snap' = r /\ mark' = mark /\ credit' = credit
    BY <1>2 DEF Tick
  <2> HIDE DEF r
  <2>4. QED
    BY <2>1, <2>2, <2>3 DEF MeterInv, MeterKept
<1>3. CASE Restart
  <2>1. /\ snap'.pause_started = NoTime /\ snap'.last_activity = 0 /\ snap'.paused_elapsed = 0
        /\ snap'.last_mono = NoTime /\ mark' = 0 /\ credit' = 0
    BY <1>3 DEF Restart, reduce_restarted, SoundInv, Sound, Snapshot
  <2>2. QED
    BY <2>1 DEF MeterInv, Metered, timers_paused
<1>4. CASE Reconcile
  <2>1. /\ snap'.pause_started = snap.pause_started /\ snap'.last_activity = snap.last_activity
        /\ snap'.paused_elapsed = snap.paused_elapsed /\ snap'.last_mono = snap.last_mono
        /\ mark' = mark /\ credit' = credit
    BY <1>4 DEF Reconcile, reduce_reconciled, SoundInv, Sound, Snapshot
  <2>2. QED
    BY <2>1 DEF MeterInv, Metered, timers_paused
<1>5. CASE Advance \/ UNCHANGED vars
  BY <1>5 DEF Advance, vars, history, MeterInv, Metered, timers_paused
<1>6. QED
  BY <1>1, <1>2, <1>3, <1>4, <1>5 DEF Next

\* The reducer never counts more than the meter.
LEMMA ElapsedIsActive ==
    ASSUME SoundInv, MeterInv, NEW now \in TimePoint, ~timers_paused(snap)
    PROVE  active_elapsed(snap, now) <= ActiveTime(now)
<1>1. /\ snap.last_activity \in Nat /\ snap.paused_elapsed \in Nat /\ now.mono \in Nat
      /\ mark \in Nat /\ credit \in Nat
  BY ClockTypes DEF SoundInv, TypeOK, TimePoint, Time
<1>2. mark <= snap.last_activity + snap.paused_elapsed + credit
  BY DEF MeterInv, Metered
<1>3. QED
  BY <1>1, <1>2 DEF active_elapsed, ActiveTime, Ran, saturating_sub

\* Every step keeps the notice and the mark in order.
LEMMA NoticeSteps == SoundInv /\ NoticeInv /\ [Next]_vars => NoticeInv'
<1> SUFFICES ASSUME SoundInv, NoticeInv, [Next]_vars PROVE NoticeInv'
  OBVIOUS
<1>1. /\ Sound(snap) /\ wall \in Nat /\ boot \in Nat /\ notice \in Nat /\ restarts \in Nat
      /\ boot <= wall /\ notice <= wall /\ (restarts = 0 => boot = 0)
      /\ snap.state = "Stalled" => snap.last_reminder \in Nat
  BY DEF SoundInv, TypeOK, Time, NoticeInv, Sound, Marks, Snapshot, OptTime
<1>2. ASSUME NEW delay \in Delays
      PROVE  /\ Sampled(delay) \in TimePoint /\ Sampled(delay).mono \in Nat
             /\ boot + Sampled(delay).mono <= wall
  <2>1. Sampled(delay) \in TimePoint /\ Sampled(delay).mono = (wall - boot) - delay
        /\ delay \in Nat /\ delay <= wall - boot
    BY SampledType, TimersAssumption DEF SoundInv, Sampled, Delays
  <2>2. QED
    BY <1>1, <2>1
<1>3. ASSUME Remember, UNCHANGED <<wall, boot, restarts>>,
             NEW t \in Nat, boot + t <= wall,
             snap'.state = "Stalled" =>
                 \/ /\ snap.state = "Stalled" /\ snap'.last_reminder = snap.last_reminder
                    /\ ~Noticed
                 \/ snap'.last_reminder = t /\ Noticed
      PROVE  NoticeInv'
  <2>1. notice' = IF Noticed THEN wall ELSE notice
    BY <1>3 DEF Remember
  <2>2. CASE Noticed
    BY <1>1, <1>3, <2>1, <2>2 DEF NoticeInv
  <2>3. CASE ~Noticed
    BY <1>1, <1>3, <2>1, <2>3 DEF NoticeInv
  <2>4. QED
    BY <2>2, <2>3
<1>4. CASE Evidence
  <2>1. PICK o : /\ o.id \in Nat /\ o.at \in TimePoint /\ o.kind \in PayloadKinds
                 /\ o.arg \in PayloadArgs(o.kind) /\ o.trusted \in BOOLEAN /\ Observe(o)
                 /\ \E delay \in Delays : o.at = Sampled(delay)
    BY <1>4, EvidenceIs DEF SoundInv
  <2>2. o.at.mono \in Nat /\ boot + o.at.mono <= wall
    BY <1>2, <2>1
  <2>3. MarksFrom(snap, reduce_observation(snap, o), o.at.mono)
    BY <1>1, <2>1, ObservationCarried
  <2>4. snap' = reduce_observation(snap, o) /\ Remember /\ UNCHANGED <<wall, boot, restarts>>
    BY <2>1 DEF Observe
  <2>5. snap'.state = "Stalled" => (Noticed <=> snap.state # "Stalled")
    <3>1. snap'.state = "Stalled" /\ snap.state = "Stalled"
          => reduce_observation(snap, o).events \cap Alerts = {}
      BY <1>1, <2>1, <2>4, LastingStallCalm
    <3>2. QED
      BY <2>4, <3>1 DEF Noticed, Alerts
  <2>6. QED
    BY <1>3, <2>2, <2>3, <2>4, <2>5 DEF MarksFrom
<1>5. ASSUME NEW delay \in Delays, Tick(delay) PROVE NoticeInv'
  <2> DEFINE now == Sampled(delay)
             r == reduce_tick(snap, now)
  <2>1. now \in TimePoint /\ now.mono \in Nat /\ boot + now.mono <= wall
    BY <1>2
  <2>2. /\ snap.state = "Stalled" =>
              \/ /\ r.last_reminder = snap.last_reminder
                 /\ r.events \cap {"AlertDue", "ReminderDue"} = {}
              \/ r.last_reminder = now.mono /\ "ReminderDue" \in r.events
        /\ snap.state # "Stalled" /\ r.state = "Stalled" => r.last_reminder = now.mono
    BY <1>1, <2>1, TickCarried
  <2>3. snap' = r /\ Remember /\ UNCHANGED <<wall, boot, restarts>>
    BY <1>5 DEF Tick
  <2> HIDE DEF r, now
  <2>4. /\ snap'.state = "Stalled" /\ snap.state # "Stalled" => Noticed
        /\ "ReminderDue" \in snap'.events => Noticed
        /\ snap.state = "Stalled" /\ snap'.events \cap {"AlertDue", "ReminderDue"} = {}
           => ~Noticed
    BY DEF Noticed
  <2>5. QED
    BY <1>3, <2>1, <2>2, <2>3, <2>4
<1>6. CASE Restart
  BY <1>1, <1>6 DEF Restart, NoticeInv
<1>7. CASE Reconcile
  <2>1. snap'.state = snap.state /\ snap'.last_reminder = snap.last_reminder
        /\ UNCHANGED <<wall, boot, restarts, notice>>
    BY <1>1, <1>7 DEF Reconcile, reduce_reconciled, Sound, Snapshot
  <2>2. QED
    BY <2>1 DEF NoticeInv
<1>8. CASE Advance
  BY <1>1, <1>8 DEF Advance, history, NoticeInv
<1>9. CASE UNCHANGED vars
  BY <1>9 DEF vars, history, NoticeInv
<1>10. QED
  BY <1>4, <1>5, <1>6, <1>7, <1>8, <1>9 DEF Next

\* The invariants of the timers together.
TimersInv == SoundInv /\ MeterInv /\ NoticeInv

\* All three hold of every behaviour.
LEMMA TimersInvariant == Spec => []TimersInv
<1>1. Init => TimersInv
  BY InitSound, InitMeter DEF TimersInv
<1>2. TimersInv /\ [Next]_vars => TimersInv'
  BY NextSound, MeterSteps, NoticeSteps DEF TimersInv
<1>3. QED
  BY <1>1, <1>2, PTL DEF Spec

\* After a restart the timers decide nothing before the session is seen again or
\* trusted evidence about it arrives (reducer.rs: Restarted,
\* observation_clears_reconciliation, apply_tick).
THEOREM QuietAfterRestart == Spec => []QuietUntilVouched
<1>1. Init => QuietUntilVouched
  BY DEF Init, QuietUntilVouched
<1>2. SoundInv /\ SoundInv' /\ QuietUntilVouched /\ [Next]_vars => QuietUntilVouched'
  BY QuietSteps
<1>3. QED
  BY <1>1, <1>2, InitSound, NextSound, PTL DEF Spec

\* A tick stalls a session by the fallback threshold only when its clock ran for
\* StallAfter since the last activity; pauses do not count, however late the
\* evidence of them arrives (reducer.rs: apply_tick, resume_clock).
THEOREM NeverPremature == Spec => NoPrematureStall
<1> DEFINE A == \A delay \in Delays :
                  (/\ Tick(delay)
                   /\ uses_fallback(snap)
                   /\ snap.state # "Stalled" /\ snap'.state = "Stalled")
                  => ActiveTime(Sampled(delay)) >= StallAfter
<1>1. TimersInv /\ [Next]_vars => [A]_vars
  <2> SUFFICES ASSUME TimersInv, NEW delay \in Delays, Tick(delay), uses_fallback(snap),
                      snap.state # "Stalled", snap'.state = "Stalled"
               PROVE  ActiveTime(Sampled(delay)) >= StallAfter
    BY Zenon
  <2> DEFINE now == Sampled(delay)
  <2>1. Sound(snap) /\ now \in TimePoint
    BY SampledType DEF TimersInv, SoundInv
  <2>2. snap' = reduce_tick(snap, now)
    BY DEF Tick
  <2> HIDE DEF now
  <2>3. TimerRuns(snap) /\ StallDue(snap, now)
    BY <2>1, <2>2, TickCarried
  <2>4. active_elapsed(snap, now) >= StallAfter /\ ~timers_paused(snap)
    BY <2>3 DEF StallDue, deadline_expired, uses_fallback, TimerRuns
  <2>5. active_elapsed(snap, now) <= ActiveTime(now)
    BY <2>1, <2>4, ElapsedIsActive DEF TimersInv
  <2>6. active_elapsed(snap, now) \in Nat /\ ActiveTime(now) \in Nat /\ StallAfter \in Nat
    <3>1. snap.last_activity \in Nat /\ snap.paused_elapsed \in Nat /\ now.mono \in Nat
      BY <2>1, ClockTypes DEF TimePoint, Time
    <3>2. QED
      BY <2>1, <3>1, MeterType, PolicyAssumption
      DEF active_elapsed, saturating_sub, TimersInv, SoundInv
  <2>7. QED
    BY <2>4, <2>5, <2>6 DEF now
<1>2. QED
  BY <1>1, TimersInvariant, PTL DEF Spec, NoPrematureStall

\* While a stall is unresolved and its timer runs, a tick leaves a notice younger
\* than ReminderEvery, when the last one belongs to the running epoch
\* (reducer.rs: apply_tick's reminder branch).
THEOREM RemindersInTime == Spec => ReminderCadence
<1> DEFINE A == (/\ Tick(0) /\ TimerRuns(snap) /\ snap'.state = "Stalled"
                 /\ restarts > 0 => notice > boot)
                => wall - notice' < ReminderEvery
<1>1. TimersInv /\ [Next]_vars => [A]_vars
  <2> SUFFICES ASSUME TimersInv, Tick(0), TimerRuns(snap), snap'.state = "Stalled",
                      restarts > 0 => notice > boot
               PROVE  wall - notice' < ReminderEvery
    BY Zenon
  <2> DEFINE now == Sampled(0)
  <2>1. /\ Sound(snap) /\ wall \in Nat /\ boot \in Nat /\ boot <= wall /\ notice \in Nat
        /\ notice <= wall /\ ReminderEvery \in Nat /\ ReminderEvery > 0
    BY PolicyAssumption DEF TimersInv, SoundInv, NoticeInv, TypeOK, Time
  <2>2. now \in TimePoint /\ now.mono = wall - boot
    BY <2>1 DEF Sampled, TimePoint, Time
  <2>3. snap' = reduce_tick(snap, now) /\ Remember
    BY DEF Tick
  <2> HIDE DEF now
  <2>4. CASE Noticed
    BY <2>1, <2>3, <2>4 DEF Remember
  <2>5. CASE ~Noticed
    <3>1. snap.state = "Stalled" /\ notice' = notice
      BY <2>3, <2>5 DEF Noticed, Remember
    <3>2. ~ReminderIsDue(snap, now)
      <4>1. "ReminderDue" \notin snap'.events
        BY <2>5 DEF Noticed
      <4>2. ReminderIsDue(snap, now) => "ReminderDue" \in snap'.events
        BY <2>1, <2>2, <2>3, <3>1, TickCarried
      <4>3. QED
        BY <4>1, <4>2
    <3>3. snap.last_reminder \in Nat /\ snap.last_reminder # NoTime
      BY <2>1, <3>1 DEF Sound, Snapshot, Marks, OptTime
    <3>4. saturating_sub(now.mono, snap.last_reminder) < ReminderEvery
      BY <2>1, <2>2, <3>2, <3>3 DEF ReminderIsDue, saturating_sub
    <3>5. boot + snap.last_reminder <= notice
      BY <3>1 DEF TimersInv, NoticeInv
    <3>6. QED
      BY <2>1, <2>2, <3>1, <3>3, <3>4, <3>5 DEF saturating_sub
  <2>6. QED
    BY <2>4, <2>5
<1>2. QED
  BY <1>1, TimersInvariant, PTL DEF Spec, ReminderCadence


-----------------------------------------------------------------------------
(* The watch pipeline.                                                     *)

\* What the callback puts on the queue fits it.
LEMMA HandleEventType ==
    ASSUME WatchTypeOK, NEW t \in Runtimes \cup {Worktree}, NEW b \in BOOLEAN
    PROVE  /\ handle_event(t, b) \in Service
           /\ Len(handle_event(t, b).queue) <= QueueCapacity
<1> DEFINE signal == [target |-> t, topology |-> b]
<1>1. signal \in Signal
  BY DEF Signal
<1>2. service.queue \in Seq(Signal) /\ Len(service.queue) \in Nat
  BY DEF WatchTypeOK, Service
<1> HIDE DEF signal
<1>3. /\ Append(service.queue, signal) \in Seq(Signal)
      /\ Len(Append(service.queue, signal)) = Len(service.queue) + 1
  BY <1>1, <1>2
<1>4. handle_event(t, b) \in {service, [service EXCEPT !.saturated = TRUE],
                              [service EXCEPT !.queue = Append(@, signal)]}
  BY DEF handle_event, signal
<1>5. CASE handle_event(t, b) = service
  BY <1>5 DEF WatchTypeOK
<1>6. CASE handle_event(t, b) = [service EXCEPT !.saturated = TRUE]
  BY <1>6 DEF WatchTypeOK, Service
<1>7. CASE service.up /\ Len(service.queue) < QueueCapacity
  <2>1. handle_event(t, b) = [service EXCEPT !.queue = Append(service.queue, signal)]
    BY <1>7 DEF handle_event, signal
  <2>2. /\ handle_event(t, b) \in Service
        /\ handle_event(t, b).queue = Append(service.queue, signal)
    BY <1>3, <2>1 DEF WatchTypeOK, Service
  <2>3. Len(service.queue) + 1 <= QueueCapacity
    BY <1>2, <1>7, WatchAssumption
  <2>4. QED
    BY <1>3, <2>2, <2>3
<1>8. QED
  BY <1>5, <1>6, <1>7 DEF handle_event

\* Whatever a build finds, the service it leaves is empty.
LEMMA BuildType ==
    ASSUME WatchTypeOK, build_watcher
    PROVE  /\ service' \in Service
           /\ Len(service'.queue) <= QueueCapacity
           /\ health' \in [watcher : Levels, files : Levels, adapter : [Runtimes -> Levels]]
           /\ health'.files = health.files
           /\ events' \in Nat
<1>1. /\ <<>> \in Seq(Signal)
      /\ Len(<<>>) = 0
  OBVIOUS
<1>2. service' \in {FreshService, Down}
  BY DEF build_watcher
<1>3. FreshService \in Service /\ Down \in Service
  BY <1>1 DEF FreshService, Down, Service
<1>4. FreshService.queue = <<>> /\ Down.queue = <<>>
  BY DEF FreshService, Down
<1>5. service' \in Service /\ Len(service'.queue) <= QueueCapacity
  BY <1>1, <1>2, <1>3, <1>4, WatchAssumption
<1>6. /\ health' \in [watcher : Levels, files : Levels, adapter : [Runtimes -> Levels]]
      /\ health'.files = health.files
  BY DEF build_watcher, WatchTypeOK, Levels
<1>7. events' \in Nat
  BY DEF build_watcher, WatchTypeOK, Uneventful, Event
<1>8. QED
  BY <1>5, <1>6, <1>7

\* The initial states are well formed.
LEMMA TypeInit == WatchInit => WatchTypeOK
<1>1. /\ <<>> \in Seq(Signal)
      /\ Len(<<>>) = 0
  OBVIOUS
<1>2. FreshService \in Service /\ FreshService.queue = <<>>
  BY <1>1 DEF FreshService, Service
<1>3. Polling \in Supervisor /\ Selecting \in Worker
  BY DEF Polling, Selecting, Supervisor, Worker
<1>4. /\ Len(<<>>) <= QueueCapacity
      /\ 0 \in 0..ActivityCapacity
  BY <1>1, WatchAssumption
<1>5. [watcher |-> "healthy", files |-> "none", adapter |-> [r \in Runtimes |-> "degraded"]]
         \in [watcher : Levels, files : Levels, adapter : [Runtimes -> Levels]]
  BY DEF Levels
<1>6. SUFFICES ASSUME WatchInit PROVE WatchTypeOK
  OBVIOUS
<1>7. /\ service \in Service /\ Len(service.queue) <= QueueCapacity
      /\ supervisor \in Supervisor /\ worker \in Worker
  BY <1>2, <1>3, <1>4, <1>6 DEF WatchInit
<1>8. health \in [watcher : Levels, files : Levels, adapter : [Runtimes -> Levels]]
  BY <1>5, <1>6 DEF WatchInit
<1>9. /\ activity \in 0..ActivityCapacity /\ generation \in Nat /\ events \in Nat
      /\ dirty \subseteq Runtimes /\ pending \subseteq Runtimes /\ uncertain \subseteq Runtimes
      /\ enabled \subseteq Runtimes
  BY <1>4, <1>6 DEF WatchInit
<1>10. wake \in BOOLEAN /\ stale \in BOOLEAN /\ reload \in BOOLEAN
  BY <1>6, Zenon DEF WatchInit
<1>11. QED
  BY <1>7, <1>8, <1>9, <1>10 DEF WatchTypeOK

\* A supervisor back from a request has its shape.
LEMMA AfterRequestType ==
    ASSUME WatchTypeOK
    PROVE  AfterRequest \in Supervisor /\ AfterRequest.at \in {"check", "signal", "rebuild"}
BY DEF AfterRequest, Polling, WatchTypeOK, Supervisor

\* Every step keeps the shape of the variables.
LEMMA TypeStep == WatchTypeOK /\ [WatchNext]_watchVars => WatchTypeOK'
<1> SUFFICES ASSUME WatchTypeOK, [WatchNext]_watchVars PROVE WatchTypeOK'
  OBVIOUS
<1>1. ASSUME NEW t \in Runtimes \cup {Worktree}, NEW b \in BOOLEAN, Change(t, b)
      PROVE  WatchTypeOK'
  <2>1. service' \in Service /\ Len(service'.queue) <= QueueCapacity
    BY <1>1, HandleEventType DEF Change
  <2>2. dirty' \subseteq Runtimes /\ events' \in Nat
    BY <1>1 DEF Change, WatchTypeOK, Event
  <2>3. QED
    BY <1>1, <2>1, <2>2 DEF Change, WatchTypeOK
<1>2. ASSUME NEW flag \in {"backend", "rescan"}, NEW r \in Runtimes, LoseEvents(flag, r)
      PROVE  WatchTypeOK'
  <2>1. service' \in Service /\ service'.queue = service.queue
    BY <1>2 DEF LoseEvents, WatchTypeOK, Service
  <2>2. dirty' \subseteq Runtimes /\ events' \in Nat
    BY <1>2 DEF LoseEvents, WatchTypeOK, Event
  <2>3. QED
    BY <1>2, <2>1, <2>2 DEF LoseEvents, WatchTypeOK
<1>3. CASE ApplyChange
  BY <1>3, BuildType DEF ApplyChange, WatchTypeOK, Polling, Supervisor
<1>4. CASE NextSignal
  <2>1. service' \in Service
        /\ Len(service'.queue) <= QueueCapacity
    <3>1. ASSUME NEW flag \in {"backend", "rescan", "saturated"},
                 service' = [service EXCEPT ![flag] = FALSE]
          PROVE  service' \in Service /\ service'.queue = service.queue
      BY <3>1 DEF WatchTypeOK, Service
    <3>2. ASSUME service.queue # <<>>, service' = [service EXCEPT !.queue = Tail(@)]
          PROVE  service' \in Service /\ Len(service'.queue) <= QueueCapacity
      <4>1. service.queue \in Seq(Signal) /\ Len(service.queue) \in Nat
        BY DEF WatchTypeOK, Service
      <4>2. /\ Tail(service.queue) \in Seq(Signal)
            /\ Len(Tail(service.queue)) = Len(service.queue) - 1
        BY <3>2, <4>1
      <4>3. service' \in Service /\ service'.queue = Tail(service.queue)
        BY <3>2, <4>2 DEF WatchTypeOK, Service
      <4>4. Len(service.queue) - 1 <= QueueCapacity
        BY <4>1, WatchAssumption DEF WatchTypeOK
      <4>5. QED
        BY <4>2, <4>3, <4>4
    <3>3. QED
      BY <1>4, <3>1, <3>2 DEF NextSignal, WatchTypeOK
  <2>2. supervisor' \in Supervisor
    <3>1. Polling \in Supervisor /\ [Polling EXCEPT !.at = "bump", !.full = TRUE] \in Supervisor
      BY DEF Polling, Supervisor
    <3>2. ASSUME service.queue # <<>>
          PROVE  LET head == Head(service.queue)
                     runtime == actions(head.target)
                 IN  [Polling EXCEPT !.at = IF runtime # {} THEN "or" ELSE "send",
                                     !.request = runtime, !.topology = head.topology] \in Supervisor
      <4>1. Head(service.queue) \in Signal
        BY <3>2 DEF WatchTypeOK, Service
      <4>2. /\ Head(service.queue).topology \in BOOLEAN
            /\ actions(Head(service.queue).target) \in SUBSET Runtimes
        BY <4>1 DEF Signal, actions
      <4>3. QED
        BY <4>2 DEF Polling, Supervisor
    <3>3. QED
      BY <1>4, <3>1, <3>2 DEF NextSignal
  <2>3. QED
    BY <1>4, <2>1, <2>2 DEF NextSignal, WatchTypeOK
<1>5. CASE SetBits
  BY <1>5 DEF SetBits, WatchTypeOK, Supervisor
<1>6. CASE NotifyOne
  BY <1>6, AfterRequestType DEF NotifyOne, WatchTypeOK
<1>7. CASE SendActivity
  BY <1>7, AfterRequestType, WatchAssumption DEF SendActivity, WatchTypeOK, Supervisor
<1>8. CASE BumpGeneration
  <2>1. worker' \in Worker
    BY <1>8 DEF BumpGeneration, WatchTypeOK, Worker
  <2>2. supervisor' \in Supervisor
    BY <1>8 DEF BumpGeneration, WatchTypeOK, Supervisor
  <2>3. QED
    BY <1>8, <2>1, <2>2 DEF BumpGeneration, WatchTypeOK
<1>9. CASE Degrade
  BY <1>9, AfterRequestType DEF Degrade, WatchTypeOK, Supervisor, Levels
<1>10. CASE Rebuild
  BY <1>10, BuildType DEF Rebuild, WatchTypeOK, Polling, Supervisor
<1>11. CASE TakeBits
  BY <1>11 DEF TakeBits, WatchTypeOK, Selecting, Worker
<1>12. CASE LoadGeneration
  BY <1>12 DEF LoadGeneration, WatchTypeOK, Worker
<1>13. CASE ReconcileRuntimes
  <2> DEFINE r == Min(worker.request)
  <2>1. /\ worker' = [worker EXCEPT !.request = @ \ {r}]
        /\ dirty' \subseteq dirty /\ uncertain' \subseteq uncertain
        /\ health' \in [watcher : Levels, files : Levels, adapter : [Runtimes -> Levels]]
        /\ events' \in Nat
    BY <1>13 DEF ReconcileRuntimes, record_discovery_health, WatchTypeOK, Levels, Uneventful, Event
  <2> HIDE DEF r
  <2>2. worker' \in Worker
    BY <2>1 DEF WatchTypeOK, Worker
  <2>3. QED
    BY <1>13, <2>1, <2>2 DEF ReconcileRuntimes, WatchTypeOK
<1>14. CASE RefreshActive
  <2>1. worker' \in Worker
    BY <1>14 DEF RefreshActive, WatchTypeOK, Worker
  <2>2. health' \in [watcher : Levels, files : Levels, adapter : [Runtimes -> Levels]]
    BY <1>14 DEF RefreshActive, WatchTypeOK, Levels
  <2>3. events' \in Nat
    BY <1>14 DEF RefreshActive, WatchTypeOK, Uneventful, Event
  <2>4. stale' \in BOOLEAN
    BY <1>14, Zenon DEF RefreshActive, WatchTypeOK
  <2>5. QED
    BY <1>14, <2>1, <2>2, <2>3, <2>4 DEF RefreshActive, WatchTypeOK
<1>15. CASE CompareGeneration
  BY <1>15 DEF CompareGeneration, WatchTypeOK, Worker, Selecting
<1>16. CASE PeriodicTick
  BY <1>16 DEF PeriodicTick, WatchTypeOK, Worker
<1>17. CASE Notified
  BY <1>17 DEF Notified, WatchTypeOK, Worker
<1>18. CASE AttributeActivity
  BY <1>18, WatchAssumption DEF AttributeActivity, WatchTypeOK, Levels, Uneventful, Event
<1>19. CASE ReportAdapters
  BY <1>19 DEF ReportAdapters, WatchTypeOK, Levels
<1>20. ASSUME NEW next \in SUBSET Runtimes, SwapConfig(next)
       PROVE  WatchTypeOK'
  BY <1>20 DEF SwapConfig, WatchTypeOK, Event
<1>21. CASE UNCHANGED watchVars
  BY <1>21 DEF watchVars, WatchTypeOK
<1>22. CASE PublishHealthy
  BY <1>22 DEF PublishHealthy, WatchTypeOK, Worker, Selecting, Levels
<1>23. QED
  BY <1>1, <1>2, <1>3, <1>4, <1>5, <1>6, <1>7, <1>8, <1>9, <1>10, <1>11, <1>12, <1>13, <1>14,
     <1>15, <1>16, <1>17, <1>18, <1>19, <1>20, <1>21, <1>22 DEF WatchNext, SupervisorStep, WorkerStep

\* Every record of the pipeline keeps its shape, and the two bounded queues of
\* handle_event and reconcile_watch_targets keep their capacity.
THEOREM WatchTypeCorrect == WatchSpec => []WatchTypeOK
<1>1. QED
  BY TypeInit, TypeStep, PTL DEF WatchSpec

\* ARCHITECTURE 8: a request bit is never left without a permit, a requester about to
\* leave one, or the worker about to take it (DiscoveryScheduler::request and ::take).
THEOREM NoBitForgotten == WatchSpec => []BitsHaveWakeup
<1>1. WatchInit => BitsHaveWakeup
  BY DEF WatchInit, BitsHaveWakeup
<1>2. WatchTypeOK /\ BitsHaveWakeup /\ [WatchNext]_watchVars => BitsHaveWakeup'
  <2> SUFFICES ASSUME WatchTypeOK, BitsHaveWakeup, [WatchNext]_watchVars PROVE BitsHaveWakeup'
    OBVIOUS
  <2> USE DEF BitsHaveWakeup
  <2>1. CASE ApplyChange \/ NextSignal \/ SendActivity \/ BumpGeneration \/ Degrade \/ Rebuild
    BY <2>1 DEF ApplyChange, NextSignal, SendActivity, BumpGeneration, Degrade, Rebuild,
                WatchTypeOK, Worker
  <2>2. CASE SetBits
    BY <2>2 DEF SetBits, WatchTypeOK, Supervisor
  <2>3. CASE NotifyOne
    BY <2>3 DEF NotifyOne
  <2>4. CASE PeriodicTick \/ TakeBits
    BY <2>4 DEF PeriodicTick, TakeBits
  <2>5. CASE Notified
    BY <2>5 DEF Notified, WatchTypeOK, Worker
  <2>6. CASE LoadGeneration \/ ReconcileRuntimes \/ RefreshActive \/ CompareGeneration \/ PublishHealthy
    BY <2>6 DEF LoadGeneration, ReconcileRuntimes, RefreshActive, CompareGeneration, PublishHealthy,
                WatchTypeOK, Worker
  <2>7. CASE AttributeActivity \/ ReportAdapters
    BY <2>7 DEF AttributeActivity, ReportAdapters
  <2>8. ASSUME NEW t \in Runtimes \cup {Worktree}, NEW b \in BOOLEAN, Change(t, b)
        PROVE  BitsHaveWakeup'
    BY <2>8 DEF Change
  <2>9. ASSUME NEW flag \in {"backend", "rescan"}, NEW r \in Runtimes, LoseEvents(flag, r)
        PROVE  BitsHaveWakeup'
    BY <2>9 DEF LoseEvents
  <2>10. ASSUME NEW next \in SUBSET Runtimes, SwapConfig(next)
         PROVE  BitsHaveWakeup'
    BY <2>10 DEF SwapConfig
  <2>11. CASE UNCHANGED watchVars
    BY <2>11 DEF watchVars
  <2>12. QED
    BY <2>1, <2>2, <2>3, <2>4, <2>5, <2>6, <2>7, <2>8, <2>9, <2>10, <2>11
       DEF WatchNext, SupervisorStep, WorkerStep
<1>3. QED
  BY <1>1, <1>2, WatchTypeCorrect, PTL DEF WatchSpec

-----------------------------------------------------------------------------
(* The process monitor.                                                   *)

\* What names a process: nothing, or an identifier with a start time handed out already.
Names(i) == i = NoIdentity \/ (i.pid \in Pids /\ i.start \in 1..spawns)

\* Start times come from one counter, and no name is ahead of it.
KernelTypes ==
    /\ spawns \in Nat
    /\ table \in [Pids -> [start : 0..spawns, parent : Pids \cup {0}, work : Nat, readable : BOOLEAN]]
    /\ identity \in [Sessions -> [pid : Nat, start : Nat]] /\ \A s \in Sessions : Names(identity[s])

\* The pass keeps its shape; a tree has a root that names a process.
PassTypes ==
    /\ pass = [at |-> pass.at, next |-> pass.next, loaded |-> pass.loaded, stats |-> pass.stats,
               incomplete |-> pass.incomplete, trees |-> pass.trees, dead |-> pass.dead]
    /\ pass.at \in {"idle", "stat", "sample", "credit"} /\ pass.next \in Nat
    /\ pass.at \in {"sample", "credit"} => pass.next \in Sessions
    /\ pass.loaded \in [Sessions -> [pid : Nat, start : Nat]]
    /\ \A s \in Sessions : Names(pass.loaded[s])
    /\ pass.trees = [p \in Pids |-> pass.trees[p]]
    /\ \A p \in Pids : pass.trees[p] # NoTree => pass.trees[p].root # NoIdentity

\* A process found dead stays dead, so no tree is sampled for the session it was of,
\* unless another session names the same identifier.
DeadStays ==
    /\ pass.dead \subseteq Sessions
    /\ \A s \in pass.dead : /\ pass.loaded[s] # NoIdentity /\ ~Alive(pass.loaded[s])
                            /\ Shared(s) \/ pass.trees[pass.loaded[s].pid] = NoTree

\* A session that could not be sampled has lost its baseline.
BaselineLost ==
    /\ previous = [s \in Sessions |-> previous[s]]
    /\ \A s \in unsampled : s \in Sessions /\ previous[s] = NoTree

\* The inductive invariant.
MonitorInv == KernelTypes /\ PassTypes /\ DeadStays /\ BaselineLost

\* A new monitor has no baselines.
LEMMA MonitorStarts == MonitorInit => MonitorInv
<1> USE ProcessAssumption
<1>1. Idle.next \in Nat /\ Idle.at = "idle" /\ Idle.dead = {}
  BY DEF Idle
<1>2. QED
  BY <1>1 DEF MonitorInit, MonitorInv, KernelTypes, PassTypes, DeadStays, BaselineLost, Names,
              NoIdentity, NoProcess, Idle

\* What the kernel does to its table: a start time is kept, forgotten or new.
KernelMoves ==
    /\ spawns' \in Nat /\ spawns <= spawns'
    /\ table' \in [Pids -> [start : 0..spawns', parent : Pids \cup {0}, work : Nat, readable : BOOLEAN]]
    /\ \A q \in Pids : table'[q].start \in {table[q].start, 0} \/ table'[q].start = spawns + 1

\* Whoever is dead, named by a start time of the past, is not alive after a move
\* of the kernel: nothing gets that start time again.
LEMMA KernelKeeps ==
    ASSUME MonitorInv, KernelMoves, UNCHANGED <<identity, pass, previous, unsampled>>
    PROVE  MonitorInv'
<1>1. \A i \in [pid : Nat, start : Nat] : Names(i) => Names(i)'
  BY DEF Names, KernelMoves, MonitorInv, KernelTypes
<1>2. KernelTypes'
  BY <1>1 DEF KernelMoves, MonitorInv, KernelTypes
<1>3. PassTypes'
  BY <1>1 DEF MonitorInv, PassTypes
<1>4. \A i \in [pid : Nat, start : Nat] : Names(i) /\ i # NoIdentity /\ ~Alive(i) => ~Alive(i)'
  <2>1. TAKE i \in [pid : Nat, start : Nat]
  <2>2. HAVE Names(i) /\ i # NoIdentity /\ ~Alive(i)
  <2>3. i.pid \in Pids /\ i.start \in 1..spawns /\ i.pid # 0
    BY <2>2 DEF Names, Pids
  <2>4. table[i.pid].start # i.start
    BY <2>2, <2>3 DEF Alive
  <2>5. table'[i.pid].start # i.start
    BY <2>3, <2>4 DEF KernelMoves, MonitorInv, KernelTypes
  <2>6. QED
    BY <2>5 DEF Alive
<1>5. DeadStays'
  BY <1>4 DEF MonitorInv, DeadStays, PassTypes, Shared
<1>6. QED
  BY <1>2, <1>3, <1>5 DEF MonitorInv, BaselineLost

\* Processes start, work and exit.
LEMMA KernelSteps ==
    ASSUME MonitorInv, NEW p \in Pids,
           (\E parent \in Pids \cup {0} : Spawn(p, parent)) \/ Work(p) \/ ExitProcess(p)
    PROVE  MonitorInv' /\ UNCHANGED credited
<1>1. ASSUME NEW parent \in Pids \cup {0}, Spawn(p, parent)
      PROVE  KernelMoves /\ UNCHANGED <<identity, pass, previous, unsampled, credited>>
  BY <1>1 DEF Spawn, KernelMoves, MonitorInv, KernelTypes
<1>2. CASE Work(p)
  BY <1>2, KernelKeeps DEF Work, KernelMoves, MonitorInv, KernelTypes
<1>3. CASE ExitProcess(p)
  BY <1>3, KernelKeeps DEF ExitProcess, KernelMoves, MonitorInv, KernelTypes, NoProcess
<1>4. QED
  BY <1>1, <1>2, <1>3, KernelKeeps

\* An adapter names a process that runs.
LEMMA IdentifyKeeps ==
    ASSUME MonitorInv, NEW s \in Sessions, NEW p \in Pids, Identify(s, p)
    PROVE  MonitorInv' /\ UNCHANGED credited
<1>1. table[p].start \in 1..spawns /\ p \in Nat
  BY DEF Identify, Live, MonitorInv, KernelTypes, Pids
<1>2. \A i : Names(i)' <=> Names(i)
  BY DEF Identify, Names
<1>3. KernelTypes'
  BY <1>1, <1>2 DEF Identify, MonitorInv, KernelTypes, Names
<1>4. PassTypes' /\ DeadStays' /\ BaselineLost'
  BY <1>2 DEF Identify, MonitorInv, PassTypes, DeadStays, BaselineLost, Alive, Shared
<1>5. QED
  BY <1>3, <1>4 DEF MonitorInv, Identify

\* The pass begins with the identities of the moment, and knows whose process is gone.
LEMMA LoadKeeps ==
    ASSUME MonitorInv, Load
    PROVE  MonitorInv' /\ credited' = {}
<1>1. UNCHANGED <<table, spawns, identity, previous, unsampled>> /\ credited' = {}
  BY DEF Load
<1>2. /\ pass'.at \in {"idle", "stat"} /\ pass'.next = 1 /\ pass'.loaded = identity
      /\ pass'.trees = [p \in Pids |-> NoTree]
      /\ pass'.dead = {s \in Sessions : identity[s] # NoIdentity /\ ~Alive(identity[s])}
      /\ pass' = [at |-> pass'.at, next |-> pass'.next, loaded |-> pass'.loaded, stats |-> pass'.stats,
                  incomplete |-> pass'.incomplete, trees |-> pass'.trees, dead |-> pass'.dead]
  BY DEF Load, Idle
<1>3. \A i : (Names(i)' <=> Names(i)) /\ (Alive(i)' <=> Alive(i))
  BY <1>1 DEF Names, Alive
<1>4. PassTypes'
  BY <1>2, <1>3 DEF PassTypes, MonitorInv, KernelTypes
<1>5. \A s \in Sessions : identity[s] # NoIdentity => identity[s].pid \in Pids
  BY DEF MonitorInv, KernelTypes, Names
<1>6. DeadStays'
  BY <1>2, <1>3, <1>5 DEF DeadStays
<1>7. QED
  BY <1>1, <1>3, <1>4, <1>6 DEF MonitorInv, KernelTypes, BaselineLost

\* Reading /proc fills in what the sampler will see, and decides nothing.
LEMMA ReadKeeps ==
    ASSUME MonitorInv, ReadStat \/ SkipEntry
    PROVE  MonitorInv' /\ UNCHANGED credited
<1>1. UNCHANGED <<table, spawns, identity, previous, unsampled, credited>>
  BY DEF ReadStat, SkipEntry
<1>2. /\ pass'.at \in {"stat", "sample"} /\ pass'.next \in Nat
      /\ pass'.at = "sample" => pass'.next = 1
      /\ pass'.loaded = pass.loaded /\ pass'.trees = pass.trees /\ pass'.dead = pass.dead
      /\ pass' = [at |-> pass'.at, next |-> pass'.next, loaded |-> pass'.loaded, stats |-> pass'.stats,
                  incomplete |-> pass'.incomplete, trees |-> pass'.trees, dead |-> pass'.dead]
  <2> DEFINE last == pass.next = NumPids
  <2>1. PICK stats, incomplete :
            pass' = [pass EXCEPT !.stats = stats, !.incomplete = incomplete,
                                 !.at = IF last THEN "sample" ELSE "stat",
                                 !.next = IF last THEN 1 ELSE pass.next + 1]
    <3>1. CASE ReadStat
      <4> DEFINE stats == [pass.stats EXCEPT ![pass.next] = table[pass.next]]
      <4>1. pass' = [pass EXCEPT !.stats = stats, !.incomplete = pass.incomplete,
                                 !.at = IF last THEN "sample" ELSE "stat",
                                 !.next = IF last THEN 1 ELSE pass.next + 1]
        BY <3>1 DEF ReadStat, MonitorInv, PassTypes
      <4>2. QED
        BY <4>1
    <3>2. CASE SkipEntry
      <4>1. pass' = [pass EXCEPT !.stats = pass.stats, !.incomplete = TRUE,
                                 !.at = IF last THEN "sample" ELSE "stat",
                                 !.next = IF last THEN 1 ELSE pass.next + 1]
        BY <3>2 DEF SkipEntry, MonitorInv, PassTypes
      <4>2. QED
        BY <4>1
    <3>3. QED
      BY <3>1, <3>2
  <2> HIDE DEF last
  <2>2. pass' = [at |-> IF last THEN "sample" ELSE "stat", next |-> IF last THEN 1 ELSE pass.next + 1,
                 loaded |-> pass.loaded, stats |-> stats, incomplete |-> incomplete,
                 trees |-> pass.trees, dead |-> pass.dead]
    BY <2>1 DEF MonitorInv, PassTypes
  <2>3. pass.next \in Nat
    BY DEF MonitorInv, PassTypes
  <2>4. CASE last
    BY <2>2, <2>4
  <2>5. CASE ~last
    BY <2>2, <2>3, <2>5
  <2>6. QED
    BY <2>4, <2>5
<1>3. 1 \in Sessions
  BY ProcessAssumption DEF Sessions
<1>4. \A i : (Names(i)' <=> Names(i)) /\ (Alive(i)' <=> Alive(i))
  BY <1>1 DEF Names, Alive
<1>5. PassTypes'
  BY <1>2, <1>3, <1>4 DEF PassTypes, MonitorInv
<1>6. DeadStays'
  BY <1>2, <1>4 DEF DeadStays, MonitorInv, Shared
<1>7. QED
  BY <1>1, <1>4, <1>5, <1>6 DEF MonitorInv, KernelTypes, BaselineLost

\* The pass is given up: /proc cannot be listed, or the server restarts.
LEMMA GivenUpKeeps ==
    ASSUME MonitorInv, CaptureFails \/ MonitorRestart
    PROVE  MonitorInv' /\ credited' \subseteq credited
<1>1. pass' = Idle /\ UNCHANGED <<table, spawns, identity>>
  BY DEF CaptureFails, MonitorRestart
<1>2. \A i : Names(i)' <=> Names(i)
  BY <1>1 DEF Names
<1>3. PassTypes' /\ DeadStays'
  BY <1>1, <1>2, ProcessAssumption DEF PassTypes, DeadStays, Idle, Names, NoIdentity
<1>4. BaselineLost'
  BY DEF CaptureFails, MonitorRestart, MonitorInv, BaselineLost
<1>5. QED
  BY <1>1, <1>2, <1>3, <1>4 DEF MonitorInv, KernelTypes, CaptureFails, MonitorRestart

\* A tree is sampled only for a process that lives, under its own name.
LEMMA SampleKeeps ==
    ASSUME MonitorInv, NEW blind \in SUBSET Pids, SampleRoot(blind)
    PROVE  MonitorInv' /\ UNCHANGED credited
<1> DEFINE expected == pass.loaded[pass.next]
           tree == sample_tree_from_stats(expected, pass.stats, pass.incomplete, blind)
<1>1. UNCHANGED <<table, spawns, identity, previous, unsampled, credited>> /\ pass.at = "sample"
  BY DEF SampleRoot
<1>2. /\ pass.next \in Sessions /\ Names(expected)
      /\ expected \in [pid : Nat, start : Nat]
  BY <1>1 DEF MonitorInv, PassTypes
<1>3. tree # NoTree => tree.root = expected /\ Alive(expected)
  BY DEF sample_tree_from_stats
<1> HIDE DEF tree
<1>4. /\ pass'.trees = IF expected = NoIdentity THEN pass.trees ELSE [pass.trees EXCEPT ![expected.pid] = tree]
      /\ pass'.loaded = pass.loaded /\ pass'.dead = pass.dead
      /\ pass'.at = IF pass.next = NumSessions THEN "credit" ELSE "sample"
      /\ pass'.next = IF pass.next = NumSessions THEN 1 ELSE pass.next + 1
      /\ pass' = [at |-> pass'.at, next |-> pass'.next, loaded |-> pass'.loaded, stats |-> pass'.stats,
                  incomplete |-> pass'.incomplete, trees |-> pass'.trees, dead |-> pass'.dead]
  BY DEF SampleRoot, MonitorInv, PassTypes, tree
<1>5. pass'.next \in Sessions /\ pass'.next \in Nat
  BY <1>2, <1>4, ProcessAssumption DEF Sessions
<1>6. \A i : (Names(i)' <=> Names(i)) /\ (Alive(i)' <=> Alive(i))
  BY <1>1 DEF Names, Alive
<1>7. \A p \in Pids : pass'.trees[p] \in {pass.trees[p], tree}
  BY <1>4 DEF MonitorInv, PassTypes
<1>8. /\ pass'.trees = [p \in Pids |-> pass'.trees[p]]
      /\ \A p \in Pids : pass'.trees[p] # NoTree => pass'.trees[p].root # NoIdentity
  <2>1. CASE expected = NoIdentity
    BY <1>4, <2>1 DEF MonitorInv, PassTypes
  <2>2. CASE expected # NoIdentity
    BY <1>3, <1>4, <1>7, <2>2 DEF MonitorInv, PassTypes
  <2>3. QED
    BY <2>1, <2>2
<1>9. PassTypes'
  BY <1>4, <1>5, <1>6, <1>8 DEF MonitorInv, PassTypes
<1>10. DeadStays'
  <2>1. ASSUME NEW s \in pass.dead, ~Shared(s)
        PROVE  pass'.trees[pass.loaded[s].pid] = NoTree
    <3>1. pass.trees[pass.loaded[s].pid] = NoTree /\ ~Alive(pass.loaded[s])
      BY <2>1 DEF MonitorInv, DeadStays
    <3>2. s \in Sessions /\ pass.loaded[s].pid \in Pids
      BY <2>1 DEF MonitorInv, DeadStays, PassTypes, Names
    <3>3. CASE pass.next = s
      BY <1>3, <1>7, <3>1, <3>2, <3>3
    <3>4. CASE pass.next # s
      <4>1. expected.pid # pass.loaded[s].pid
        BY <1>2, <2>1, <3>4 DEF Shared
      <4>2. QED
        BY <1>4, <3>1, <3>2, <4>1 DEF MonitorInv, PassTypes
    <3>5. QED
      BY <3>3, <3>4
  <2>2. QED
    BY <1>4, <1>6, <2>1 DEF MonitorInv, DeadStays, Shared
<1>11. QED
  BY <1>1, <1>6, <1>9, <1>10 DEF MonitorInv, KernelTypes, BaselineLost

\* Progress needs a tree of this pass and the baseline of the last one.
LEMMA CompareKeeps ==
    ASSUME MonitorInv, Compare
    PROVE  /\ MonitorInv'
           /\ \A s \in credited' : (s \notin pass.dead \/ Shared(s)) /\ s \notin unsampled
<1> DEFINE s == pass.next
           loaded == pass.loaded[s]
           current == pass.trees[loaded.pid]
<1>1. UNCHANGED <<table, spawns, identity>> /\ s \in Sessions /\ pass.at = "credit"
  BY DEF Compare, MonitorInv, PassTypes
<1>2. \A i : (Names(i)' <=> Names(i)) /\ (Alive(i)' <=> Alive(i))
  BY <1>1 DEF Names, Alive
<1>3. PassTypes' /\ DeadStays'
  <2>1. CASE pass' = Idle
    BY <1>2, <2>1, ProcessAssumption DEF PassTypes, DeadStays, Idle, Names, NoIdentity
  <2>2. CASE pass' = [pass EXCEPT !.next = s + 1] /\ s # NumSessions
    <3>1. s + 1 \in Sessions /\ s + 1 \in Nat
      BY <1>1, <2>2, ProcessAssumption DEF Sessions
    <3>2. QED
      BY <1>2, <2>2, <3>1 DEF MonitorInv, PassTypes, DeadStays, Shared
  <2>3. QED
    BY <2>1, <2>2 DEF Compare
<1>4. BaselineLost'
  BY <1>1 DEF Compare, remove_previous, MonitorInv, BaselineLost
<1>5. ASSUME NEW c \in credited'
      PROVE  (c \notin pass.dead \/ Shared(c)) /\ c \notin unsampled
  <2>1. c = s /\ loaded # NoIdentity /\ current # NoTree /\ previous[s].root = current.root
    BY <1>5 DEF Compare
  <2>2. loaded.pid \in Pids
    BY <1>1, <2>1 DEF MonitorInv, PassTypes, Names
  <2>3. current.root # NoIdentity
    BY <2>1, <2>2 DEF MonitorInv, PassTypes
  <2>4. previous[s] # NoTree
    BY <2>1, <2>3 DEF NoTree
  <2>5. QED
    BY <2>1, <2>4 DEF MonitorInv, DeadStays, BaselineLost
<1>6. QED
  BY <1>1, <1>2, <1>3, <1>4, <1>5 DEF MonitorInv, KernelTypes

\* Every step keeps the invariant, and gives progress to the living only.
LEMMA MonitorStep ==
    ASSUME MonitorInv, [MonitorNext]_monitorVars
    PROVE  /\ MonitorInv'
           /\ \A s \in credited' \ credited : (s \notin pass.dead \/ Shared(s)) /\ s \notin unsampled
<1>1. CASE UNCHANGED monitorVars
  BY <1>1 DEF monitorVars, MonitorInv, KernelTypes, PassTypes, DeadStays, BaselineLost, Names, Alive,
              Shared
<1>2. QED
  BY <1>1, KernelSteps, IdentifyKeeps, LoadKeeps, ReadKeeps, GivenUpKeeps, SampleKeeps, CompareKeeps
     DEF MonitorNext

\* The invariant holds always.
LEMMA MonitorInvariant == MonitorSpec => []MonitorInv
<1>1. MonitorInv /\ [MonitorNext]_monitorVars => MonitorInv'
  BY MonitorStep
<1>2. QED
  BY <1>1, MonitorStarts, PTL DEF MonitorSpec

\* A session whose process was gone when the pass began is given no progress,
\* whatever runs under its identifier now, unless another session names the same
\* identifier: the sampler verifies start times, and none is handed out twice.
THEOREM DeadUncredited == MonitorSpec => DeadGetsNoProgress
<1>1. MonitorInv /\ [MonitorNext]_monitorVars
        => [\A s \in credited' \ credited : s \notin pass.dead \/ Shared(s)]_monitorVars
  BY MonitorStep
<1>2. QED
  BY <1>1, MonitorInvariant, PTL DEF MonitorSpec, DeadGetsNoProgress

\* A pass that could not sample a session takes its baseline away, so the next
\* sample is compared with nothing, also across failed captures.
THEOREM SamplesConsecutive == MonitorSpec => ConsecutiveSamples
<1>1. MonitorInv /\ [MonitorNext]_monitorVars
        => [\A s \in credited' \ credited : s \notin unsampled]_monitorVars
  BY MonitorStep
<1>2. QED
  BY <1>1, MonitorInvariant, PTL DEF MonitorSpec, ConsecutiveSamples

(* Worktrees and their owners.                                            *)

\* Native paths are non-empty sequences of names.
LEMMA PathType ==
    /\ NativePaths \subseteq Seq(STRING)
    /\ \A p \in NativePaths : p # <<>> /\ Len(p) \in Nat /\ Len(p) >= 1
<1>1. \A p \in NativePaths : p \in Seq(STRING) \ {<<>>}
  BY WorktreeAssumption DEF NativePaths, ToSet
<1>2. QED
  BY <1>1

\* The beginning of a path, up to a length.
LEMMA BeginningOf ==
    ASSUME NEW path \in Seq(STRING), NEW n \in 1 .. Len(path)
    PROVE  /\ SubSeq(path, 1, n) \in Seq(STRING) /\ SubSeq(path, 1, n) # <<>>
           /\ Len(SubSeq(path, 1, n)) = n
           /\ IsPrefix(SubSeq(path, 1, n), path)
<1>1. /\ SubSeq(path, 1, n) \in Seq(STRING)
      /\ Len(SubSeq(path, 1, n)) = n
  BY SubSeqProperties
<1>2. SubSeq(SubSeq(path, 1, n), 1, Len(SubSeq(path, 1, n))) = SubSeq(path, 1, n)
  BY <1>1, SubSeqFull
<1>3. QED
  BY <1>1, <1>2 DEF IsPrefix

\* What is a prefix is the beginning of its length.
LEMMA PrefixIsBeginning ==
    ASSUME NEW q \in Seq(STRING), q # <<>>, NEW path \in Seq(STRING), IsPrefix(q, path)
    PROVE  Len(q) \in 1 .. Len(path) /\ q = SubSeq(path, 1, Len(q))
<1>1. SubSeq(q, 1, Len(q)) = q
  BY SubSeqFull
<1>2. Len(q) >= 1
  OBVIOUS
<1>3. QED
  BY <1>1, <1>2 DEF IsPrefix

\* A non-empty set of lengths has a greatest element.
LEMMA MaxExists ==
    ASSUME NEW n \in Nat, NEW T \in SUBSET (1 .. n), T # {}
    PROVE  Max(T) \in T /\ \A j \in T : j <= Max(T)
<1> DEFINE D == {n - i : i \in T}
<1>1. \A i \in T : i \in Nat /\ i <= n /\ n - i \in Nat
  OBVIOUS
<1>2. D \subseteq Nat /\ D # {}
  BY <1>1, Zenon
<1>3. PICK d \in D : \A e \in D : ~(<<e, d>> \in OpToRel(<, Nat))
  <2> HIDE DEF D
  <2>1. QED
    BY <1>2, NatLessThanWellFounded, WFMin, Zenon
<1>4. \A e \in D : ~(e < d)
  BY <1>2, <1>3 DEF OpToRel
<1>5. PICK i \in T : d = n - i
  OBVIOUS
<1>6. \A j \in T : i >= j
  <2>1. TAKE j \in T
  <2>2. ~(n - j < n - i)
    BY <1>4, <1>5
  <2>3. QED
    BY <1>1, <2>2
<1>7. Max(T) \in T /\ \A j \in T : Max(T) >= j
  BY <1>6, Zenon DEF Max
<1>8. QED
  BY <1>1, <1>7

PathChange == [path : NativePaths, owners : SUBSET Children, settled : BOOLEAN]

\* Sessions, registrations and watches keep their shapes; only a stored child
\* claims anything.
ClaimTypes ==
    /\ created \in Seq(Children)
    /\ child \in [Children -> [ended : BOOLEAN, directory : NativePaths \cup {<<>>}]]
    /\ \A r \in rows : r.child \in ToSet(created) /\ r.path \in NativePaths
    /\ request = [at |-> request.at, row |-> request.row]
    /\ request.at # "free" => request.row.child \in ToSet(created) /\ request.row.path \in NativePaths
    /\ \A c \in Children \ ToSet(created) : child[c].directory = <<>>
    /\ routes \subseteq Target

\* Batches and the attribution under way keep theirs.
BatchTypes ==
    /\ queued \in Seq(SUBSET PathChange)
    /\ task = [at |-> task.at, batch |-> task.batch, known |-> task.known, claims |-> task.claims,
               todo |-> task.todo, done |-> task.done]
    /\ task.at \in {"idle", "sessions", "registered", "apply"}
    /\ task.batch \in SUBSET PathChange

\* Nobody outside a set of sessions claims a worktree.
NoOtherClaims(known) ==
    \A k \in ToSet(created) \ known : child[k].directory = <<>> /\ \A r \in rows : r.child # k

\* A claim is a child's claim of a directory.
LEMMA ClaimShape ==
    ASSUME ClaimTypes, NEW known \in SUBSET ToSet(created), NoOtherClaims(known),
           NEW claim \in ClaimsOf(known, rows)
    PROVE  claim = <<claim[1], claim[2]>> /\ claim[1] \in NativePaths /\ claim[2] \in Claimants(claim[1])
<1>0. ToSet(created) \subseteq Children
  BY DEF ClaimTypes, ToSet
<1>1. CASE \E c \in known : child[c].directory # <<>> /\ claim = <<child[c].directory, c>>
  BY <1>0, <1>1 DEF ClaimTypes, Claimants, ClaimsIt
<1>2. CASE \E r \in rows : r.child \in known /\ claim = <<r.path, r.child>>
  BY <1>0, <1>2 DEF ClaimTypes, Claimants, ClaimsIt
<1>3. QED
  BY <1>1, <1>2 DEF ClaimsOf

\* Whoever claims a directory is among the claims the attribution loads.
LEMMA ClaimLoaded ==
    ASSUME ClaimTypes, NEW known \in SUBSET ToSet(created), NoOtherClaims(known),
           NEW q, q # <<>>, NEW c \in Claimants(q)
    PROVE  <<q, c>> \in ClaimsOf(known, rows)
<1>1. c \in ToSet(created) /\ (child[c].directory = q \/ \E r \in rows : r.child = c /\ r.path = q)
  BY DEF Claimants, ClaimsIt
<1>2. c \in known
  BY <1>1 DEF NoOtherClaims
<1>3. QED
  BY <1>1, <1>2 DEF ClaimsOf

\* The attribution's answer over what it loaded is the truth of the moment it
\* speaks of: the innermost claimed directory around the path.
LEMMA OwnersAgree ==
    ASSUME ClaimTypes, NEW known \in SUBSET ToSet(created), NoOtherClaims(known),
           NEW path \in NativePaths
    PROVE  OwnersOf(ClaimsOf(known, rows), path) = OwnersNow(path)
<1> DEFINE claims == ClaimsOf(known, rows)
           around == {q \in claims : IsPrefix(q[1], path)}
           claimed == {n \in 1..Len(path) : Claimants(SubSeq(path, 1, n)) # {}}
<1>1. path \in Seq(STRING) /\ Len(path) \in Nat
  BY PathType
<1>2. ASSUME NEW q \in around
      PROVE  /\ q = <<q[1], q[2]>> /\ Len(q[1]) \in claimed
             /\ q[1] = SubSeq(path, 1, Len(q[1])) /\ q[2] \in Claimants(SubSeq(path, 1, Len(q[1])))
  <2>1. q = <<q[1], q[2]>> /\ q[1] \in NativePaths /\ q[2] \in Claimants(q[1]) /\ IsPrefix(q[1], path)
    BY ClaimShape
  <2>2. q[1] \in Seq(STRING) /\ q[1] # <<>>
    BY <2>1, PathType
  <2>3. Len(q[1]) \in 1..Len(path) /\ q[1] = SubSeq(path, 1, Len(q[1]))
    BY <1>1, <2>1, <2>2, PrefixIsBeginning
  <2>4. Claimants(SubSeq(path, 1, Len(q[1]))) = Claimants(q[1])
    BY <2>3
  <2>5. QED
    BY <2>1, <2>3, <2>4
<1>3. ASSUME NEW n \in claimed, NEW c \in Claimants(SubSeq(path, 1, n))
      PROVE  <<SubSeq(path, 1, n), c>> \in around /\ Len(SubSeq(path, 1, n)) = n
  BY <1>1, BeginningOf, ClaimLoaded
<1> DEFINE OK(r) == \A s \in around : Len(s[1]) <= Len(r[1])
<1>4. OwnersOf(claims, path) = {q[2] : q \in {r \in around : OK(r)}}
  BY DEF OwnersOf
<1>5. CASE claimed = {}
  <2>1. around = {}
    BY <1>2, <1>5
  <2>2. OwnersOf(claims, path) = {}
    BY <1>4, <2>1
  <2>3. QED
    BY <1>5, <2>2 DEF OwnersNow
<1>6. CASE claimed # {}
  <2> DEFINE m == Max(claimed)
  <2>1. m \in claimed /\ \A n \in claimed : n <= m
    BY <1>1, <1>6, MaxExists
  <2>2. OwnersNow(path) = Claimants(SubSeq(path, 1, m))
    BY <1>6 DEF OwnersNow
  <2>3. claimed \subseteq Nat
    OBVIOUS
  <2> HIDE DEF claims, around, claimed, m
  <2>4. ASSUME NEW r \in around, OK(r)
        PROVE  r[2] \in Claimants(SubSeq(path, 1, m))
    <3>1. PICK c : c \in Claimants(SubSeq(path, 1, m))
      BY <2>1 DEF claimed
    <3>2. m <= Len(r[1])
      BY <1>3, <2>1, <2>4, <3>1
    <3>3. Len(r[1]) = m
      BY <1>2, <2>1, <2>3, <3>2
    <3>4. QED
      BY <1>2, <3>3
  <2>5. ASSUME NEW c \in Claimants(SubSeq(path, 1, m))
        PROVE  \E r \in around : OK(r) /\ c = r[2]
    <3>1. <<SubSeq(path, 1, m), c>> \in around /\ Len(SubSeq(path, 1, m)) = m
      BY <1>3, <2>1
    <3>2. OK(<<SubSeq(path, 1, m), c>>)
      BY <1>2, <2>1, <3>1
    <3>3. QED
      BY <3>1, <3>2
  <2> HIDE DEF OK
  <2>6. {q[2] : q \in {r \in around : OK(r)}} = Claimants(SubSeq(path, 1, m))
    BY <2>4, <2>5
  <2>7. QED
    BY <1>4, <2>2, <2>6 DEF claims
<1>7. QED
  BY <1>5, <1>6

\* Who is stored stays stored.
LEMMA StoredStay ==
    ASSUME created \in Seq(Children), NEW c \in Children, created' = Append(created, c)
    PROVE  created' \in Seq(Children) /\ ToSet(created)' = ToSet(created) \cup {c}
<1>1. /\ created' \in Seq(Children) /\ Len(created') = Len(created) + 1
      /\ \A i \in 1 .. Len(created) : created'[i] = created[i]
      /\ created'[Len(created) + 1] = c
  BY AppendProperties
<1>2. DOMAIN created = 1 .. Len(created) /\ DOMAIN created' = 1 .. Len(created) + 1 /\ Len(created) \in Nat
  BY <1>1
<1>3. QED
  BY <1>1, <1>2 DEF ToSet

\* Steps after which every claim is as before: nobody else claims, and a child
\* newly stored claims nothing yet.
ClaimsRest ==
    /\ rows' = rows
    /\ \/ created' = created
       \/ \E c \in Children \ ToSet(created) : created' = Append(created, c)
    /\ \A c \in Children : child'[c].directory = child[c].directory

\* Who claims the beginning of a path.
At(path, n) == Claimants(SubSeq(path, 1, n))

\* Then the owners are as before.
LEMMA OwnersRest ==
    ASSUME ClaimTypes, ClaimsRest
    PROVE  /\ ToSet(created) \subseteq ToSet(created)'
           /\ \A k \in ToSet(created)' \ ToSet(created) : k \in Children
           /\ \A path \in NativePaths : OwnersNow(path)' = OwnersNow(path)
<1>1. \/ ToSet(created)' = ToSet(created)
      \/ \E c \in Children \ ToSet(created) : ToSet(created)' = ToSet(created) \cup {c}
  BY StoredStay DEF ClaimTypes, ClaimsRest
<1>2. ToSet(created) \subseteq Children
  BY DEF ClaimTypes, ToSet
<1>3. ASSUME NEW path \in Seq(STRING), NEW n \in 1..Len(path)
      PROVE  At(path, n)' = At(path, n)
  <2>1. PICK q : q = SubSeq(path, 1, n)
    OBVIOUS
  <2>2. q # <<>>
    BY <2>1, BeginningOf
  <2>3. \A c \in Children : ClaimsIt(c, q)' <=> ClaimsIt(c, q)
    BY DEF ClaimsRest, ClaimsIt
  <2>4. \A c \in Children \ ToSet(created) : ~ClaimsIt(c, q)
    BY <2>2 DEF ClaimsIt, ClaimTypes
  <2>5. {c \in ToSet(created') : ClaimsIt(c, q)'} = {c \in ToSet(created) : ClaimsIt(c, q)}
    BY <1>1, <1>2, <2>3, <2>4
  <2>6. QED
    BY <2>1, <2>5 DEF At, Claimants, ClaimsIt
<1>4. ASSUME NEW path \in NativePaths
      PROVE  OwnersNow(path)' = OwnersNow(path)
  <2>1. path \in Seq(STRING)
    BY PathType
  <2> DEFINE claimed == {n \in 1..Len(path) : At(path, n) # {}}
  <2>2. \A n \in 1..Len(path) : At(path, n)' = At(path, n)
    BY <1>3, <2>1
  <2>3. claimed' = claimed
    BY <2>2
  <2>4. CASE claimed = {}
    BY <2>3, <2>4 DEF OwnersNow, At
  <2>5. CASE claimed # {}
    <3>1. Max(claimed) \in 1..Len(path)
      <4>1. Len(path) \in Nat /\ claimed \in SUBSET (1..Len(path))
        BY <2>1
      <4> HIDE DEF claimed
      <4>2. Max(claimed) \in claimed
        BY <2>5, <4>1, MaxExists
      <4>3. QED
        BY <4>1, <4>2
    <3>2. OwnersNow(path) = At(path, Max(claimed))
      BY <2>5 DEF OwnersNow, At
    <3>3. OwnersNow(path)' = At(path, Max(claimed))'
      BY <2>3, <2>5 DEF OwnersNow, At
    <3>4. QED
      BY <2>2, <2>3, <3>1, <3>2, <3>3
  <2>6. QED
    BY <2>4, <2>5
<1>5. QED
  BY <1>1, <1>4

\* A change still settled names the owners of the moment.
Truthful(change) == change.settled => change.owners = OwnersNow(change.path)

Telling(batch) == \E c \in batch : c.settled

\* The batches that wait say what is still true.
StillTrue(waiting) == \A i \in DOMAIN waiting : \A c \in waiting[i] : Truthful(c)

\* What an attribution has loaded is still true as long as its batch tells anything.
LoadedTrue(t) ==
    /\ t.at \in {"sessions", "registered"} =>
          /\ \A c \in t.batch : Truthful(c)
          /\ t.known \subseteq ToSet(created)
          /\ Telling(t.batch) => NoOtherClaims(t.known)
    /\ t.at = "registered" /\ Telling(t.batch) => t.claims = rows

Told == StillTrue(queued) /\ LoadedTrue(task)

\* The inductive invariant.
OwnersInv == ClaimTypes /\ BatchTypes /\ Told /\ SharedStaysNeutral

\* Fewer children are stored than the attribution can load.
WithinLimit == Len(created) <= MaxChildSessions

\* A new server has nothing to attribute.
LEMMA WorktreeStarts == WorktreeInit => OwnersInv
<1> SUFFICES ASSUME WorktreeInit PROVE OwnersInv
  OBVIOUS
<1>1. SetToSeq(Children) \in Seq(Children)
  <2> DEFINE n == Cardinality(Children)
  <2>1. n \in Nat /\ ExistsBijection(1..n, Children)
    BY FS_CardinalityType, WorktreeAssumption
  <2>2. \E f \in [1..n -> Children] : IsInjective(f)
    BY <2>1 DEF ExistsBijection, Bijection, Injection, IsInjective
  <2>3. SetToSeq(Children) \in [1..n -> Children]
    BY <2>2, Zenon DEF SetToSeq
  <2>4. QED
    BY <2>1, <2>3
<1>2. created \in Seq(Children)
  <2>1. <<>> \in Seq(Children)
    OBVIOUS
  <2>2. created = <<>> \/ created = SetToSeq(Children)
    BY Zenon DEF WorktreeInit
  <2>3. QED
    BY <1>1, <2>1, <2>2
<1>3. ClaimTypes
  BY <1>2 DEF WorktreeInit, ClaimTypes, NoRequest
<1>4. BatchTypes
  BY DEF WorktreeInit, BatchTypes, NoTask
<1>5. Told /\ SharedStaysNeutral
  BY DEF WorktreeInit, Told, StillTrue, LoadedTrue, SharedStaysNeutral, NoTask
<1>6. QED
  BY <1>3, <1>4, <1>5 DEF OwnersInv

\* A step that leaves every claim as it was keeps the shapes.
AtRest ==
    /\ ClaimsRest
    /\ child' \in [Children -> [ended : BOOLEAN, directory : NativePaths \cup {<<>>}]]
    /\ request' = [at |-> request'.at, row |-> request'.row]
    /\ request'.at # "free" => request'.row.child \in ToSet(created) /\ request'.row.path \in NativePaths
    /\ routes' \subseteq Target

\* Under such a step the claims keep their shapes, what was true of a path stays
\* true, and nobody else begins to claim.
LEMMA CalmClaims ==
    ASSUME ClaimTypes, AtRest
    PROVE  /\ ClaimTypes'
           /\ \A c \in PathChange : Truthful(c) => Truthful(c)'
           /\ \A known \in SUBSET ToSet(created) :
                 known \subseteq ToSet(created)' /\ (NoOtherClaims(known) => NoOtherClaims(known)')
<1>1. /\ ToSet(created) \subseteq ToSet(created)'
      /\ \A k \in ToSet(created)' \ ToSet(created) : k \in Children
      /\ \A path \in NativePaths : OwnersNow(path)' = OwnersNow(path)
  BY OwnersRest DEF AtRest
<1>2. created' \in Seq(Children)
  BY StoredStay DEF AtRest, ClaimsRest, ClaimTypes
<1>3. \A c \in Children : child'[c].directory = child[c].directory
  BY DEF AtRest, ClaimsRest
<1>4. rows' = rows
  BY DEF AtRest, ClaimsRest
<1>5. ClaimTypes'
  <2>1. \A r \in rows' : r.child \in ToSet(created)' /\ r.path \in NativePaths
    BY <1>1, <1>4 DEF ClaimTypes
  <2>2. \A c \in Children \ ToSet(created)' : child'[c].directory = <<>>
    BY <1>1, <1>3 DEF ClaimTypes
  <2>3. QED
    BY <1>1, <1>2, <2>1, <2>2 DEF ClaimTypes, AtRest
<1>6. ASSUME NEW c \in PathChange, Truthful(c)
      PROVE  Truthful(c)'
  <2>1. c.path \in NativePaths
    BY DEF PathChange
  <2>2. PICK p \in NativePaths : p = c.path
    BY <2>1
  <2>3. OwnersNow(p)' = OwnersNow(p)
    BY <1>1
  <2>4. QED
    BY <1>6, <2>2, <2>3 DEF Truthful
<1>7. ASSUME NEW known \in SUBSET ToSet(created)
      PROVE  known \subseteq ToSet(created)' /\ (NoOtherClaims(known) => NoOtherClaims(known)')
  <2>1. known \subseteq ToSet(created)'
    BY <1>1
  <2>2. ASSUME NoOtherClaims(known), NEW k \in ToSet(created)' \ known
        PROVE  child'[k].directory = <<>> /\ \A r \in rows' : r.child # k
    <3>0. k \in Children
      BY <1>1 DEF ClaimTypes, ToSet
    <3>1. CASE k \in ToSet(created)
      BY <1>3, <1>4, <2>2, <3>0, <3>1 DEF NoOtherClaims
    <3>2. CASE k \notin ToSet(created)
      BY <1>3, <1>4, <3>0, <3>2 DEF ClaimTypes
    <3>3. QED
      BY <3>1, <3>2
  <2>3. QED
    BY <2>1, <2>2 DEF NoOtherClaims
<1>8. QED
  BY <1>5, <1>6, <1>7

\* So a step keeps the invariant when what it queues and loads is true before it.
LEMMA CalmKeeps ==
    ASSUME OwnersInv, AtRest, BatchTypes', StillTrue(queued'), LoadedTrue(task'), SharedStaysNeutral'
    PROVE  OwnersInv'
<1>1. /\ ClaimTypes'
      /\ \A c \in PathChange : Truthful(c) => Truthful(c)'
      /\ \A known \in SUBSET ToSet(created) :
            known \subseteq ToSet(created)' /\ (NoOtherClaims(known) => NoOtherClaims(known)')
  BY CalmClaims DEF OwnersInv
<1>2. \A i \in DOMAIN queued' : \A c \in queued'[i] : c \in PathChange
  BY DEF BatchTypes
<1>3. \A i \in DOMAIN queued' : \A c \in queued'[i] : Truthful(c)'
  BY <1>1, <1>2 DEF StillTrue
<1>4. \A c \in task'.batch : c \in PathChange
  BY DEF BatchTypes
<1>5. rows' = rows
  BY DEF AtRest, ClaimsRest
<1>6. LoadedTrue(task)'
  <2>1. PICK t : t = task'
    OBVIOUS
  <2>2. LoadedTrue(t)
    BY <2>1
  <2>3. t.at \in {"sessions", "registered"} =>
           /\ \A c \in t.batch : Truthful(c)'
           /\ t.known \subseteq ToSet(created)'
           /\ Telling(t.batch) => NoOtherClaims(t.known)'
    BY <1>1, <1>4, <2>1, <2>2 DEF LoadedTrue
  <2>4. t.at = "registered" /\ Telling(t.batch) => t.claims = rows'
    BY <1>5, <2>2 DEF LoadedTrue
  <2>5. LoadedTrue(t)'
    BY <2>3, <2>4 DEF LoadedTrue, Telling
  <2>6. QED
    BY <2>1, <2>5
<1>7. Told'
  BY <1>3, <1>6 DEF Told, StillTrue
<1>8. QED
  BY <1>1, <1>7 DEF OwnersInv

\* So does a step that leaves batches and attribution alone.
LEMMA Undisturbed ==
    ASSUME OwnersInv, AtRest, UNCHANGED attribution
    PROVE  OwnersInv'
<1>1. queued' = queued /\ task' = task
  BY DEF attribution
<1>2. BatchTypes' /\ SharedStaysNeutral'
  BY <1>1 DEF OwnersInv, BatchTypes, SharedStaysNeutral
<1>3. StillTrue(queued') /\ LoadedTrue(task')
  BY <1>1 DEF OwnersInv, Told
<1>4. QED
  BY <1>2, <1>3, CalmKeeps

\* A watch reports who owns its paths now.
LEMMA ReportTrue ==
    ASSUME ClaimTypes, NEW d
    PROVE  Report(d) \in SUBSET PathChange /\ \A c \in Report(d) : Truthful(c)
<1>1. \A path : OwnersNow(path) \subseteq Children
  BY DEF OwnersNow, Claimants, ClaimTypes, ToSet
<1>2. \A t \in routes : t.native \in NativePaths
  BY DEF ClaimTypes, Target
<1>3. ASSUME NEW t \in routes
      PROVE  /\ [path |-> t.native, owners |-> OwnersNow(t.native), settled |-> TRUE] \in PathChange
             /\ Truthful([path |-> t.native, owners |-> OwnersNow(t.native), settled |-> TRUE])
  <2>1. PICK p, o : p = t.native /\ o = OwnersNow(t.native)
    OBVIOUS
  <2>2. p \in NativePaths /\ o \in SUBSET Children
    BY <1>1, <1>2, <2>1
  <2>3. [path |-> p, owners |-> o, settled |-> TRUE] \in PathChange
    BY <2>2 DEF PathChange
  <2>4. Truthful([path |-> p, owners |-> o, settled |-> TRUE])
    BY <2>1 DEF Truthful
  <2>5. QED
    BY <2>1, <2>3, <2>4
<1>4. QED
  BY <1>3 DEF Report

\* A report that is queued joins batches that are still true.
LEMMA ReportKeeps ==
    ASSUME OwnersInv, AtRest, NEW d, queued' = Append(queued, Report(d)), task' = task
    PROVE  OwnersInv'
<1>1. Report(d) \in SUBSET PathChange /\ \A c \in Report(d) : Truthful(c)
  BY ReportTrue DEF OwnersInv
<1>2. PICK r : r = Report(d)
  OBVIOUS
<1>3. queued \in Seq(SUBSET PathChange) /\ queued' = Append(queued, r)
  BY <1>2 DEF OwnersInv, BatchTypes
<1>4. /\ queued' \in Seq(SUBSET PathChange) /\ DOMAIN queued' = 1 .. Len(queued) + 1
      /\ \A i \in 1 .. Len(queued) : queued'[i] = queued[i]
      /\ queued'[Len(queued) + 1] = r
  <2>1. r \in SUBSET PathChange
    BY <1>1, <1>2
  <2>2. QED
    BY <1>3, <2>1, AppendProperties
<1>5. StillTrue(queued')
  <2>1. \A i \in 1 .. Len(queued) : \A c \in queued[i] : Truthful(c)
    <3>1. DOMAIN queued = 1 .. Len(queued)
      BY <1>3
    <3>2. QED
      BY <3>1 DEF OwnersInv, Told, StillTrue
  <2>2. \A c \in r : Truthful(c)
    BY <1>1, <1>2
  <2>3. \A i \in 1 .. Len(queued) + 1 : i \in 1 .. Len(queued) \/ i = Len(queued) + 1
    BY <1>3
  <2>4. QED
    BY <1>4, <2>1, <2>2, <2>3 DEF StillTrue
<1>6. BatchTypes' /\ SharedStaysNeutral'
  BY <1>4 DEF OwnersInv, BatchTypes, SharedStaysNeutral
<1>7. LoadedTrue(task')
  BY DEF OwnersInv, Told
<1>8. QED
  BY <1>5, <1>6, <1>7, CalmKeeps

\* Targets are watched as far as the limit goes.
LEMMA TargetsAre == Targets \subseteq Target
BY DEF Targets

\* The steps that move no claim and no attribution.
LEMMA RestSteps ==
    ASSUME OwnersInv,
           \/ \E c \in Children : Discover(c) \/ End(c)
           \/ \E c \in Children, p \in NativePaths, k \in Keys : register(c, p, k)
           \/ InsertRecord \/ QueryActive \/ WriteActive \/ RefreshFails
           \/ NoteGeneration \/ build_watcher_with_limit \/ KeepNoted
           \/ GrowRuntime
           \/ \E excluded \in {{}} \cup {{d} : d \in Mounted} : Reload(excluded)
    PROVE  OwnersInv'
<1>0. ClaimTypes
  BY DEF OwnersInv
<1>1. CASE \E c \in Children : Discover(c)
  BY <1>0, <1>1, Undisturbed DEF Discover, AtRest, ClaimsRest, ClaimTypes, registry, watches
<1>2. CASE \E c \in Children : End(c)
  <2>1. PICK c \in Children : End(c)
    BY <1>2
  <2>2. /\ child' \in [Children -> [ended : BOOLEAN, directory : NativePaths \cup {<<>>}]]
        /\ \A k \in Children : child'[k].directory = child[k].directory
    BY <1>0, <2>1 DEF End, ClaimTypes
  <2>3. QED
    BY <1>0, <2>1, <2>2, Undisturbed DEF End, AtRest, ClaimsRest, ClaimTypes, registry, watches
<1>3. CASE \E c \in Children, p \in NativePaths, k \in Keys : register(c, p, k)
  BY <1>0, <1>3, Undisturbed DEF register, AtRest, ClaimsRest, ClaimTypes, sessions, watches
<1>4. CASE InsertRecord
  BY <1>0, <1>4, Undisturbed DEF InsertRecord, AtRest, ClaimsRest, ClaimTypes, sessions, watches, NoRequest
<1>5. CASE QueryActive \/ WriteActive
  BY <1>0, <1>5, Undisturbed DEF QueryActive, WriteActive, AtRest, ClaimsRest, ClaimTypes, sessions, watches
<1>6. CASE RefreshFails \/ NoteGeneration \/ KeepNoted
  BY <1>0, <1>6, Undisturbed DEF RefreshFails, NoteGeneration, KeepNoted, AtRest, ClaimsRest, ClaimTypes,
     sessions, registry, watches
<1>7. CASE build_watcher_with_limit
  <2>1. routes' \subseteq Target
    BY <1>7, TargetsAre DEF build_watcher_with_limit
  <2>2. QED
    BY <1>0, <1>7, <2>1, Undisturbed
       DEF build_watcher_with_limit, AtRest, ClaimsRest, ClaimTypes, sessions, registry
<1>8. CASE GrowRuntime \/ \E excluded \in {{}} \cup {{d} : d \in Mounted} : Reload(excluded)
  BY <1>0, <1>8, Undisturbed DEF GrowRuntime, Reload, AtRest, ClaimsRest, ClaimTypes, sessions, registry
<1>9. QED
  BY <1>1, <1>2, <1>3, <1>4, <1>5, <1>6, <1>7, <1>8

\* A change in a watched directory is reported with the owners of that moment.
LEMMA ChangesKeep ==
    ASSUME OwnersInv, NEW d \in Mounted, Touch(d) \/ Alter(d)
    PROVE  OwnersInv'
<1>1. UNCHANGED <<sessions, registry, task, routes>>
  BY DEF Touch, Alter, watches
<1>2. AtRest
  BY <1>1 DEF OwnersInv, AtRest, ClaimsRest, ClaimTypes, sessions, registry
<1>3. CASE queued' = queued
  BY <1>1, <1>2, <1>3, Undisturbed DEF attribution
<1>4. CASE \E e : queued' = Append(queued, Report(e))
  BY <1>1, <1>2, <1>4, ReportKeeps
<1>5. QED
  BY <1>3, <1>4 DEF Touch, Alter

\* An unsettled change tells nothing.
LEMMA UnsettledTells ==
    ASSUME NEW batch \in SUBSET PathChange
    PROVE  /\ Unsettle(batch) \in SUBSET PathChange
           /\ \A c \in Unsettle(batch) : ~c.settled
BY DEF Unsettle, PathChange

\* When claims move, nothing that waits or is loaded tells anything any more.
LEMMA MovesKeep ==
    ASSUME OwnersInv, ClaimTypes', ClaimsMove, created' = created
    PROVE  OwnersInv'
<1>1. /\ queued \in Seq(SUBSET PathChange) /\ task.batch \in SUBSET PathChange
      /\ DOMAIN queued = 1 .. Len(queued) /\ Len(queued) \in Nat
  BY DEF OwnersInv, BatchTypes
<1>2. /\ queued' \in Seq(SUBSET PathChange)
      /\ \A i \in DOMAIN queued' : \A c \in queued'[i] : ~c.settled
  <2>1. \A i \in 1 .. Len(queued) : /\ Unsettle(queued[i]) \in SUBSET PathChange
                                    /\ \A c \in Unsettle(queued[i]) : ~c.settled
    BY <1>1, UnsettledTells
  <2>2. queued' = [i \in 1 .. Len(queued) |-> Unsettle(queued[i])]
    BY <1>1 DEF ClaimsMove
  <2>3. QED
    BY <1>1, <2>1, <2>2
<1>3. CASE task.at = "apply"
  <2>1. task' = task
    BY <1>3 DEF ClaimsMove
  <2>2. BatchTypes' /\ SharedStaysNeutral'
    BY <1>2, <2>1 DEF OwnersInv, BatchTypes, SharedStaysNeutral
  <2>3. Told'
    BY <1>2, <1>3, <2>1 DEF Told, StillTrue, Truthful, LoadedTrue
  <2>4. QED
    BY <2>2, <2>3 DEF OwnersInv
<1>4. CASE task.at # "apply"
  <2> DEFINE b == Unsettle(task.batch)
  <2>1. task' = [task EXCEPT !.batch = b]
    BY <1>4 DEF ClaimsMove
  <2>2. b \in SUBSET PathChange /\ \A c \in b : ~c.settled
    BY <1>1, UnsettledTells
  <2> HIDE DEF b
  <2>3. /\ task' = [at |-> task.at, batch |-> b, known |-> task.known, claims |-> task.claims,
                    todo |-> task.todo, done |-> task.done]
    BY <2>1 DEF OwnersInv, BatchTypes
  <2>4. BatchTypes' /\ SharedStaysNeutral'
    BY <1>2, <1>4, <2>2, <2>3 DEF OwnersInv, BatchTypes, SharedStaysNeutral
  <2>5. task.at \in {"sessions", "registered"} => task.known \subseteq ToSet(created)'
    BY DEF OwnersInv, Told, LoadedTrue
  <2>6. QED
    BY <1>2, <2>2, <2>3, <2>4, <2>5 DEF OwnersInv, Told, StillTrue, Truthful, LoadedTrue, Telling
<1>5. QED
  BY <1>3, <1>4

\* Metadata or a registration is a new claim.
LEMMA ClaimSteps ==
    ASSUME OwnersInv, SaveRow \/ \E c \in Children, p \in NativePaths : SaveMetadata(c, p)
    PROVE  OwnersInv'
<1>0. ClaimTypes
  BY DEF OwnersInv
<1>1. CASE \E c \in Children, p \in NativePaths : SaveMetadata(c, p)
  <2>1. PICK c \in Children, p \in NativePaths : SaveMetadata(c, p)
    BY <1>1
  <2>2. /\ child' = [child EXCEPT ![c].directory = p] /\ c \in ToSet(created)
        /\ ClaimsMove /\ UNCHANGED <<created, rows, request, routes>>
    BY <2>1 DEF SaveMetadata, registry, watches
  <2>3. ClaimTypes'
    BY <1>0, <2>2 DEF ClaimTypes
  <2>4. QED
    BY <2>2, <2>3, MovesKeep
<1>2. CASE SaveRow
  <2>1. UNCHANGED <<created, child, routes>> /\ request.at = "save"
    BY <1>2 DEF SaveRow, sessions, watches
  <2>2. CASE rows' = rows /\ request' = NoRequest /\ UNCHANGED attribution
    <3>1. AtRest
      BY <1>0, <2>1, <2>2 DEF AtRest, ClaimsRest, ClaimTypes, NoRequest
    <3>2. QED
      BY <2>2, <3>1, Undisturbed
  <2>3. CASE rows' = rows \cup {request.row} /\ request' = [request EXCEPT !.at = "insert"] /\ ClaimsMove
    <3>1. ClaimTypes'
      BY <1>0, <2>1, <2>3 DEF ClaimTypes
    <3>2. QED
      BY <2>1, <2>3, <3>1, MovesKeep
  <2>4. QED
    BY <1>2, <2>2, <2>3 DEF SaveRow
<1>3. QED
  BY <1>1, <1>2

\* A step that changes no more than batches and the attribution under way is calm.
LEMMA TaskIsCalm ==
    ASSUME ClaimTypes, UNCHANGED <<created, child, rows, request, routes>>
    PROVE  AtRest
BY DEF AtRest, ClaimsRest, ClaimTypes

\* The attribution takes the batch that waits first, and reads the children:
\* all of them, within the limit.
LEMMA LoadSessionsKeeps ==
    ASSUME OwnersInv, WithinLimit, LoadSessions
    PROVE  OwnersInv'
<1> DEFINE known == ToSet(SubSeq(created, 1, Min({Len(created), MaxChildSessions})))
           batch == Head(queued)
<1>1. AtRest
  BY TaskIsCalm DEF OwnersInv, LoadSessions, sessions, registry, watches
<1>2. known = ToSet(created)
  <2>1. Min({Len(created), MaxChildSessions}) = Len(created)
    <3>1. Len(created) \in Nat /\ MaxChildSessions \in Nat /\ Len(created) <= MaxChildSessions
      BY WorktreeAssumption DEF OwnersInv, ClaimTypes, WithinLimit
    <3>2. \A y \in {Len(created), MaxChildSessions} : Len(created) <= y
      BY <3>1
    <3>3. \A x \in {Len(created), MaxChildSessions} :
              (\A y \in {Len(created), MaxChildSessions} : x <= y) => x = Len(created)
      BY <3>1
    <3>4. QED
      BY <3>2, <3>3, Zenon DEF Min
  <2>2. SubSeq(created, 1, Len(created)) = created
    BY SubSeqFull DEF OwnersInv, ClaimTypes
  <2>3. QED
    BY <2>1, <2>2
<1>3. /\ queued \in Seq(SUBSET PathChange) /\ queued # <<>>
      /\ DOMAIN queued = 1 .. Len(queued) /\ Len(queued) \in Nat
  BY DEF OwnersInv, BatchTypes, LoadSessions
<1>4. batch \in SUBSET PathChange /\ \A c \in batch : Truthful(c)
  <2>1. batch = queued[1] /\ 1 \in DOMAIN queued
    BY <1>3
  <2>2. QED
    BY <1>3, <2>1 DEF OwnersInv, Told, StillTrue
<1>5. queued' \in Seq(SUBSET PathChange) /\ StillTrue(queued')
  <2>1. /\ queued' = Tail(queued) /\ queued' \in Seq(SUBSET PathChange)
        /\ \A i \in DOMAIN queued' : i + 1 \in DOMAIN queued /\ queued'[i] = queued[i + 1]
    BY <1>3 DEF LoadSessions
  <2>2. QED
    BY <2>1 DEF OwnersInv, Told, StillTrue
<1>6. task' = [at |-> "sessions", batch |-> batch, known |-> known, claims |-> {}, todo |-> {}, done |-> {}]
  BY DEF LoadSessions, NoTask
<1>7. NoOtherClaims(known)
  BY <1>2 DEF NoOtherClaims
<1> HIDE DEF known, batch
<1>8. BatchTypes' /\ SharedStaysNeutral'
  BY <1>4, <1>5, <1>6 DEF BatchTypes, SharedStaysNeutral
<1>9. LoadedTrue(task')
  BY <1>2, <1>4, <1>6, <1>7 DEF LoadedTrue
<1>10. QED
  BY <1>1, <1>5, <1>8, <1>9, CalmKeeps

\* Then it reads the registrations.
LEMMA LoadRegisteredKeeps ==
    ASSUME OwnersInv, LoadRegistered
    PROVE  OwnersInv'
<1>1. AtRest
  BY TaskIsCalm DEF OwnersInv, LoadRegistered, sessions, registry, watches
<1>2. /\ task' = [at |-> "registered", batch |-> task.batch, known |-> task.known, claims |-> rows,
                  todo |-> task.todo, done |-> task.done]
      /\ queued' = queued /\ task.at = "sessions"
  BY DEF OwnersInv, BatchTypes, LoadRegistered
<1>3. BatchTypes' /\ SharedStaysNeutral'
  BY <1>2 DEF OwnersInv, BatchTypes, SharedStaysNeutral
<1>4. StillTrue(queued') /\ LoadedTrue(task')
  BY <1>2 DEF OwnersInv, Told, LoadedTrue
<1>5. QED
  BY <1>1, <1>3, <1>4, CalmKeeps

\* A change that still tells is credited to exactly its owners of that moment.
LEMMA AttributeKeeps ==
    ASSUME OwnersInv, Attribute
    PROVE  /\ OwnersInv'
           /\ \A change \in task.batch :
                 change.settled /\ Cardinality(change.owners) = 1 => change.owners \subseteq task'.todo
<1> DEFINE claims == ClaimsOf(task.known, task.claims)
           Credit(c) == attribute(OwnersOf(claims, c.path))
<1>1. AtRest
  BY TaskIsCalm DEF OwnersInv, Attribute, sessions, registry, watches
<1>2. /\ task' = [at |-> "apply", batch |-> task.batch, known |-> task.known, claims |-> task.claims,
                  todo |-> UNION {Credit(c) : c \in task.batch}, done |-> task.done]
      /\ queued' = queued /\ task.at = "registered"
  BY DEF OwnersInv, BatchTypes, Attribute
<1>3. ASSUME NEW c \in task.batch, c.settled
      PROVE  OwnersOf(claims, c.path) = c.owners
  <2>1. /\ NoOtherClaims(task.known) /\ task.claims = rows /\ Truthful(c)
        /\ task.known \in SUBSET ToSet(created)
    BY <1>2, <1>3 DEF OwnersInv, Told, LoadedTrue, Telling
  <2>2. c.path \in NativePaths
    BY DEF OwnersInv, BatchTypes, PathChange
  <2>3. OwnersOf(ClaimsOf(task.known, rows), c.path) = OwnersNow(c.path)
    BY <2>1, <2>2, OwnersAgree DEF OwnersInv
  <2>4. QED
    BY <1>3, <2>1, <2>3 DEF Truthful
<1> HIDE DEF claims
<1>4. SharedStaysNeutral'
  <2>1. ASSUME NEW o \in task'.todo
        PROVE  \E change \in task.batch : change.settled => change.owners = {o}
    <3>1. PICK c \in task.batch : o \in Credit(c)
      BY <1>2
    <3>2. ASSUME c.settled PROVE c.owners = {o}
      <4>1. o \in c.owners /\ Cardinality(c.owners) = 1
        BY <1>3, <3>1, <3>2 DEF attribute
      <4>2. c.owners \subseteq Children
        BY DEF OwnersInv, BatchTypes, PathChange
      <4>3. IsFiniteSet(c.owners)
        BY <4>2, FS_Subset, WorktreeAssumption
      <4>4. PICK z : c.owners = {z}
        BY <4>1, <4>3, FS_Singleton
      <4>5. QED
        BY <4>1, <4>4
    <3>3. QED
      BY <3>2
  <2>2. QED
    BY <1>2, <2>1 DEF SharedStaysNeutral
<1>5. ASSUME NEW change \in task.batch, change.settled, Cardinality(change.owners) = 1
      PROVE  change.owners \subseteq task'.todo
  <2>1. Credit(change) = change.owners
    BY <1>3, <1>5 DEF attribute
  <2>2. QED
    BY <1>2, <2>1
<1>6. BatchTypes'
  BY <1>2 DEF OwnersInv, BatchTypes
<1>7. StillTrue(queued') /\ LoadedTrue(task')
  BY <1>2 DEF OwnersInv, Told, LoadedTrue
<1>8. QED
  BY <1>1, <1>4, <1>5, <1>6, <1>7, CalmKeeps

\* Observations of the children credited, and the end of the batch.
LEMMA IngestKeeps ==
    ASSUME OwnersInv, (\E c \in Children : Ingest(c)) \/ LoadFails \/ FinishBatch
    PROVE  OwnersInv'
<1>1. AtRest /\ queued' = queued
  BY TaskIsCalm DEF OwnersInv, Ingest, LoadFails, FinishBatch, sessions, registry, watches
<1>2. StillTrue(queued') /\ queued' \in Seq(SUBSET PathChange)
  BY <1>1 DEF OwnersInv, Told, BatchTypes
<1>3. CASE task' = NoTask
  BY <1>1, <1>2, <1>3, CalmKeeps DEF BatchTypes, SharedStaysNeutral, LoadedTrue, NoTask
<1>4. CASE \E c \in Children : Ingest(c)
  <2>1. PICK c \in Children : Ingest(c)
    BY <1>4
  <2>2. task = [at |-> "apply", batch |-> task.batch, known |-> task.known, claims |-> task.claims,
                todo |-> task.todo, done |-> task.done]
    BY <2>1 DEF OwnersInv, BatchTypes, Ingest
  <2>3. PICK todo, done : /\ todo \subseteq task.todo
                          /\ task' = [at |-> "apply", batch |-> task.batch, known |-> task.known,
                                      claims |-> task.claims, todo |-> todo, done |-> done]
    <3>1. \/ task' = [task EXCEPT !.todo = task.todo \ {c}, !.done = task.done \cup {c}]
          \/ task' = [task EXCEPT !.todo = task.todo \ {c}]
      BY <2>1 DEF Ingest
    <3>2. CASE task' = [task EXCEPT !.todo = task.todo \ {c}, !.done = task.done \cup {c}]
      <4>1. PICK t, d : t = task.todo \ {c} /\ d = task.done \cup {c}
        OBVIOUS
      <4>2. task' = [task EXCEPT !.todo = t, !.done = d]
        BY <3>2, <4>1
      <4>3. PICK b, k, q, o, e : task = [at |-> "apply", batch |-> b, known |-> k, claims |-> q,
                                         todo |-> o, done |-> e]
        BY <2>2
      <4>4. task' = [at |-> "apply", batch |-> b, known |-> k, claims |-> q, todo |-> t, done |-> d]
        BY <4>2, <4>3
      <4>5. task.batch = b /\ task.known = k /\ task.claims = q
        BY <4>3
      <4>6. t \subseteq task.todo
        BY <4>1
      <4>7. QED
        BY <4>4, <4>5, <4>6
    <3>3. CASE task' = [task EXCEPT !.todo = task.todo \ {c}]
      <4>1. task' = [at |-> "apply", batch |-> task.batch, known |-> task.known, claims |-> task.claims,
                     todo |-> task.todo \ {c}, done |-> task.done]
        BY <2>2, <3>3
      <4>2. QED
        BY <4>1
    <3>4. QED
      BY <3>1, <3>2, <3>3
  <2>4. BatchTypes' /\ SharedStaysNeutral' /\ LoadedTrue(task')
    BY <1>2, <2>2, <2>3 DEF OwnersInv, BatchTypes, SharedStaysNeutral, LoadedTrue
  <2>5. QED
    BY <1>1, <1>2, <2>4, CalmKeeps
<1>5. QED
  BY <1>3, <1>4 DEF LoadFails, FinishBatch

\* A restart forgets batches, watches and the request under way.
LEMMA WorktreeRestartKeeps ==
    ASSUME OwnersInv, WorktreeRestart
    PROVE  OwnersInv'
<1>1. AtRest
  BY DEF OwnersInv, WorktreeRestart, sessions, AtRest, ClaimsRest, ClaimTypes, NoRequest
<1>2. BatchTypes' /\ SharedStaysNeutral' /\ StillTrue(queued') /\ LoadedTrue(task')
  BY DEF WorktreeRestart, BatchTypes, SharedStaysNeutral, StillTrue, LoadedTrue, NoTask
<1>3. QED
  BY <1>1, <1>2, CalmKeeps

\* Every step keeps the invariant, and credits every change that still tells.
LEMMA WorktreeStep ==
    ASSUME OwnersInv, WithinLimit, [WorktreeNext]_worktreeVars
    PROVE  /\ OwnersInv'
           /\ task.at = "registered" /\ task'.at = "apply" =>
                 \A change \in task.batch :
                     change.settled /\ Cardinality(change.owners) = 1 => change.owners \subseteq task'.todo
<1>1. CASE UNCHANGED worktreeVars
  <2>1. UNCHANGED <<created, child, rows, request, routes, attribution, task>>
    BY <1>1 DEF worktreeVars, attribution
  <2>2. QED
    BY <2>1, TaskIsCalm, Undisturbed DEF OwnersInv
<1>2. CASE WorktreeNext
  <2>1. OwnersInv'
    BY <1>2, RestSteps, ChangesKeep, ClaimSteps, LoadSessionsKeeps, LoadRegisteredKeeps, AttributeKeeps,
       IngestKeeps, WorktreeRestartKeeps DEF WorktreeNext
  <2>2. ASSUME task.at = "registered", task'.at = "apply"
        PROVE  Attribute
    <3>1. \A t : task' = [task EXCEPT !.batch = t] => task'.at # "apply"
      BY <2>2 DEF OwnersInv, BatchTypes
    <3>2. QED
      BY <1>2, <2>2, <3>1
         DEF WorktreeNext, Discover, SaveMetadata, End, register, SaveRow, InsertRecord, QueryActive,
             WriteActive, RefreshFails, NoteGeneration, build_watcher_with_limit, KeepNoted, Touch, Alter,
             GrowRuntime, Reload, LoadSessions, LoadRegistered, LoadFails, FinishBatch, Ingest,
             WorktreeRestart, ClaimsMove, attribution, NoTask
  <2>3. QED
    BY <2>1, <2>2, AttributeKeeps
<1>3. QED
  BY <1>1, <1>2

\* The invariant holds as long as the children are within the limit.
LEMMA OwnersInvariant == WorktreeSpec /\ []WithinLimit => []OwnersInv
<1>1. OwnersInv /\ WithinLimit /\ [WorktreeNext]_worktreeVars => OwnersInv'
  BY WorktreeStep
<1>2. QED
  BY <1>1, WorktreeStarts, PTL DEF WorktreeSpec

\* A change in a worktree with one owner is that child's activity, however
\* sessions, registrations and attributions interleave, as long as no more
\* children are stored than the attribution loads.
THEOREM OwnersCredited == WorktreeSpec /\ []WithinLimit => OwnerCredited
<1>1. OwnersInv /\ WithinLimit /\ [WorktreeNext]_worktreeVars
        => [task.at = "registered" /\ task'.at = "apply" =>
              \A change \in task.batch : change.settled /\ Cardinality(change.owners) = 1
                  => change.owners \subseteq task'.todo]_worktreeVars
  BY WorktreeStep
<1>2. QED
  BY <1>1, OwnersInvariant, PTL DEF WorktreeSpec, OwnerCredited

\* A child about to be credited was the only owner of a worktree when a change
\* happened in it, unless a worktree was claimed since.
THEOREM NeutralKept == WorktreeSpec /\ []WithinLimit => []SharedStaysNeutral
<1>1. OwnersInv => SharedStaysNeutral
  BY DEF OwnersInv
<1>2. QED
  BY <1>1, OwnersInvariant, PTL

-----------------------------------------------------------------------------
(* Watch paths and the watches built for them.                             *)

\* Only the request between its row and its record tells the two registries apart.
Agreed ==
    IF request.at = "insert" THEN rows = records \cup {request.row} ELSE records = rows

\* The registered paths and the worktrees of active children, and the paths that are watched.
Needed == {r.path : r \in records} \cup {q[2] : q \in active}
Reported == {t.native : t \in routes}

\* A build that had room for everything and left nothing out lists every path.
FullBuildLists == Covered => Needed \subseteq {t.native : t \in Targets}

\* What the supervisor has applied, or is about to, is a generation the registry has had.
Generations ==
    /\ turn \in Nat /\ applied \in Nat /\ applied <= turn
    /\ builder \in [at : {"idle", "noted", "built"}, noted : Nat] /\ builder.noted <= turn

\* A healthy watcher built for this generation watches all of it.
BuiltForAll ==
    coverage = "healthy" /\ (applied = turn \/ (builder.at = "built" /\ builder.noted = turn))
        => Needed \subseteq Reported

GapInv == Agreed /\ Generations /\ BuiltForAll

\* A new server has applied nothing.
LEMMA GapStarts == WorktreeInit => GapInv
BY DEF WorktreeInit, GapInv, Agreed, Generations, BuiltForAll, Starting, NoRequest

\* The row of a request is saved and then recorded; a failed save leaves neither.
LEMMA RegistrationAgrees ==
    ASSUME Agreed, SaveRow \/ InsertRecord \/ WorktreeRestart
    PROVE  Agreed'
<1>1. CASE SaveRow
  <2>1. records' = records /\ records = rows /\ request.at = "save"
    BY <1>1 DEF SaveRow, Agreed
  <2>2. \/ rows' = rows /\ request' = NoRequest
        \/ rows' = rows \cup {request.row} /\ request' = [request EXCEPT !.at = "insert"]
    BY <1>1 DEF SaveRow
  <2>3. CASE rows' = rows /\ request' = NoRequest
    BY <2>1, <2>3 DEF Agreed, NoRequest
  <2>4. CASE rows' = rows \cup {request.row} /\ request' = [request EXCEPT !.at = "insert"]
    <3>1. request'.row = request.row
      BY <2>4
    <3>2. QED
      BY <2>1, <2>4, <3>1 DEF Agreed
  <2>5. QED
    BY <2>2, <2>3, <2>4
<1>2. CASE InsertRecord
  BY <1>2 DEF InsertRecord, Agreed, NoRequest
<1>3. CASE WorktreeRestart
  BY <1>3 DEF WorktreeRestart, Agreed, NoRequest
<1>4. QED
  BY <1>1, <1>2, <1>3

\* Steps that touch neither the registry nor the watches keep the invariant, and a watcher
\* that is not healthy promises nothing.
LEMMA GapRests ==
    ASSUME GapInv, UNCHANGED <<rows, records, active, turn, applied, builder, routes>>,
           request' = request \/ (request.at # "insert" /\ request'.at # "insert"),
           coverage' = coverage \/ coverage' # "healthy"
    PROVE  GapInv'
<1>1. Agreed'
  BY DEF GapInv, Agreed
<1>2. Generations'
  BY DEF GapInv, Generations
<1>3. BuiltForAll'
  BY DEF GapInv, BuiltForAll, Needed, Reported
<1>4. QED
  BY <1>1, <1>2, <1>3 DEF GapInv

\* A new generation has not been built for yet.
LEMMA NewGeneration ==
    ASSUME GapInv, Agreed', turn' = turn + 1, UNCHANGED <<applied, builder>>
    PROVE  GapInv'
<1>1. Generations' /\ applied' # turn' /\ builder'.noted # turn'
  BY DEF GapInv, Generations
<1>2. QED
  BY <1>1 DEF GapInv, BuiltForAll

\* The supervisor notes a generation, builds for what is registered then, and keeps what it noted.
LEMMA SupervisorKeeps ==
    ASSUME GapInv, FullBuildLists, NoteGeneration \/ build_watcher_with_limit \/ KeepNoted
    PROVE  GapInv'
<1>1. UNCHANGED <<rows, records, active, turn, request>>
  BY DEF NoteGeneration, build_watcher_with_limit, KeepNoted, registry
<1>2. Agreed' /\ Needed' = Needed
  BY <1>1 DEF GapInv, Agreed, Needed
<1>3. Generations
  BY DEF GapInv
<1>4. CASE NoteGeneration
  <2>1. builder' = [at |-> "noted", noted |-> turn] /\ UNCHANGED <<applied, routes, coverage>>
    BY <1>4 DEF NoteGeneration
  <2>2. Generations'
    BY <1>1, <1>3, <2>1 DEF Generations
  <2>3. BuiltForAll'
    BY <1>1, <1>2, <2>1 DEF GapInv, BuiltForAll, Reported
  <2>4. QED
    BY <1>2, <2>2, <2>3 DEF GapInv
<1>5. CASE build_watcher_with_limit
  <2>1. builder' = [builder EXCEPT !.at = "built"] /\ applied' = applied
    BY <1>5 DEF build_watcher_with_limit
  <2>2. coverage' = "healthy" => Covered /\ routes' = Targets
    BY <1>5 DEF build_watcher_with_limit
  <2>3. Generations'
    BY <1>1, <1>3, <2>1 DEF Generations
  <2>4. coverage' = "healthy" => Needed' \subseteq Reported'
    BY <1>2, <2>2 DEF FullBuildLists, Reported
  <2>5. QED
    BY <1>2, <2>3, <2>4 DEF GapInv, BuiltForAll
<1>6. CASE KeepNoted
  <2>1. /\ builder.at = "built" /\ applied' = builder.noted /\ UNCHANGED <<routes, coverage>>
        /\ builder' = [at |-> "idle", noted |-> 0]
    BY <1>6 DEF KeepNoted
  <2>2. Generations'
    BY <1>1, <1>3, <2>1 DEF Generations
  <2>3. BuiltForAll'
    BY <1>1, <1>2, <2>1 DEF GapInv, BuiltForAll, Reported
  <2>4. QED
    BY <1>2, <2>2, <2>3 DEF GapInv
<1>7. QED
  BY <1>4, <1>5, <1>6

\* Every step keeps the invariant.
LEMMA GapStep ==
    ASSUME GapInv, FullBuildLists, [WorktreeNext]_worktreeVars
    PROVE  GapInv'
<1>1. CASE UNCHANGED worktreeVars
  <2>1. UNCHANGED <<rows, records, active, turn, applied, builder, routes, request, coverage>>
    BY <1>1 DEF worktreeVars
  <2>2. QED
    BY <2>1, GapRests
<1>2. ASSUME NEW c \in Children,
             \/ Discover(c) \/ End(c) \/ Ingest(c) \/ \E p \in NativePaths : SaveMetadata(c, p)
      PROVE  GapInv'
  <2>1. /\ UNCHANGED <<rows, records, active, turn, applied, builder, routes, request>>
        /\ coverage' = coverage \/ coverage' = "degraded"
    BY <1>2 DEF Discover, End, Ingest, SaveMetadata, registry, watches
  <2>2. QED
    BY <2>1, GapRests
<1>3. ASSUME NEW c \in Children, NEW p \in NativePaths, NEW k \in Keys, register(c, p, k)
      PROVE  GapInv'
  <2>1. /\ UNCHANGED <<rows, records, active, turn, applied, builder, routes, coverage>>
        /\ request.at = "free" /\ request'.at = "save"
    BY <1>3 DEF register, watches
  <2>2. QED
    BY <2>1, GapRests
<1>4. CASE SaveRow
  <2>1. UNCHANGED <<records, active, turn, applied, builder, routes, coverage>>
    BY <1>4 DEF SaveRow, watches
  <2>2. Agreed'
    BY <1>4, RegistrationAgrees DEF GapInv
  <2>3. Generations' /\ BuiltForAll'
    BY <2>1 DEF GapInv, Generations, BuiltForAll, Needed, Reported
  <2>4. QED
    BY <2>2, <2>3 DEF GapInv
<1>5. CASE InsertRecord
  <2>1. turn' = turn + 1 /\ UNCHANGED <<applied, builder>>
    BY <1>5 DEF InsertRecord, watches
  <2>2. Agreed'
    BY <1>5, RegistrationAgrees DEF GapInv
  <2>3. QED
    BY <2>1, <2>2, NewGeneration
<1>6. CASE WriteActive
  <2>1. turn' = turn + 1 /\ UNCHANGED <<rows, records, request, applied, builder>>
    BY <1>6 DEF WriteActive, watches
  <2>2. Agreed'
    BY <2>1 DEF GapInv, Agreed
  <2>3. QED
    BY <2>1, <2>2, NewGeneration
<1>7. CASE QueryActive \/ RefreshFails
  <2>1. /\ UNCHANGED <<rows, records, active, turn, applied, builder, routes, request>>
        /\ coverage' = coverage \/ coverage' = "degraded"
    BY <1>7 DEF QueryActive, RefreshFails, registry, watches
  <2>2. QED
    BY <2>1, GapRests
<1>8. ASSUME \/ \E d \in Mounted : Touch(d) \/ Alter(d)
             \/ GrowRuntime
             \/ \E excluded \in {{}} \cup {{d} : d \in Mounted} : Reload(excluded)
      PROVE  GapInv'
  <2>1. UNCHANGED <<rows, records, active, turn, applied, builder, routes, request, coverage>>
    BY <1>8 DEF Touch, Alter, GrowRuntime, Reload, registry, watches
  <2>2. QED
    BY <2>1, GapRests
<1>9. CASE LoadSessions \/ LoadRegistered \/ Attribute \/ LoadFails \/ FinishBatch
  <2>1. /\ UNCHANGED <<rows, records, active, turn, applied, builder, routes, request>>
        /\ coverage' = coverage \/ coverage' = "degraded"
    BY <1>9 DEF LoadSessions, LoadRegistered, Attribute, LoadFails, FinishBatch, registry, watches
  <2>2. QED
    BY <2>1, GapRests
<1>10. CASE WorktreeRestart
  <2>1. turn' = 1 /\ applied' = 0 /\ builder' = [at |-> "noted", noted |-> 1]
    BY <1>10 DEF WorktreeRestart, Starting
  <2>2. Agreed'
    BY <1>10, RegistrationAgrees DEF GapInv
  <2>3. QED
    BY <2>1, <2>2 DEF GapInv, Generations, BuiltForAll
<1>11. QED
  BY <1>1, <1>2, <1>3, <1>4, <1>5, <1>6, <1>7, <1>8, <1>9, <1>10, SupervisorKeeps DEF WorktreeNext

\* A registration survives every restart, and nothing is registered that is not stored,
\* wherever register, a failing save or the process stops.
THEOREM RegistrationsStored == WorktreeSpec => []RegistryMatchesStore
<1>1. Agreed => RegistryMatchesStore
  BY DEF Agreed, RegistryMatchesStore
<1>2. WorktreeInit => Agreed
  BY GapStarts DEF GapInv
<1>3. Agreed /\ [WorktreeNext]_worktreeVars => Agreed'
  <2> SUFFICES ASSUME Agreed, [WorktreeNext]_worktreeVars PROVE Agreed'
    OBVIOUS
  <2>1. CASE SaveRow \/ InsertRecord \/ WorktreeRestart
    BY <2>1, RegistrationAgrees
  <2>2. CASE ~(SaveRow \/ InsertRecord \/ WorktreeRestart)
    <3>1. /\ UNCHANGED <<rows, records>>
          /\ request' = request \/ (request.at = "free" /\ request'.at = "save")
      <4>1. ASSUME NEW c \in Children, Discover(c) \/ End(c) \/ Ingest(c)
            PROVE  UNCHANGED <<rows, records, request>>
        BY <4>1 DEF Discover, End, Ingest, registry
      <4>2. ASSUME NEW c \in Children, NEW p \in NativePaths, SaveMetadata(c, p)
            PROVE  UNCHANGED <<rows, records, request>>
        BY <4>2 DEF SaveMetadata, registry
      <4>3. ASSUME NEW c \in Children, NEW p \in NativePaths, NEW k \in Keys, register(c, p, k)
            PROVE  UNCHANGED <<rows, records>> /\ request.at = "free" /\ request'.at = "save"
        BY <4>3 DEF register
      <4>4. CASE QueryActive \/ WriteActive \/ RefreshFails
        BY <4>4 DEF QueryActive, WriteActive, RefreshFails, registry
      <4>5. CASE NoteGeneration \/ build_watcher_with_limit \/ KeepNoted
        BY <4>5 DEF NoteGeneration, build_watcher_with_limit, KeepNoted, registry
      <4>6. ASSUME \/ \E d \in Mounted : Touch(d) \/ Alter(d)
                   \/ GrowRuntime
                   \/ \E excluded \in {{}} \cup {{d} : d \in Mounted} : Reload(excluded)
            PROVE  UNCHANGED <<rows, records, request>>
        BY <4>6 DEF Touch, Alter, GrowRuntime, Reload, registry
      <4>7. CASE LoadSessions \/ LoadRegistered \/ Attribute \/ LoadFails \/ FinishBatch
        BY <4>7 DEF LoadSessions, LoadRegistered, Attribute, LoadFails, FinishBatch, registry
      <4>8. CASE UNCHANGED worktreeVars
        BY <4>8 DEF worktreeVars
      <4>9. QED
        BY <2>2, <4>1, <4>2, <4>3, <4>4, <4>5, <4>6, <4>7, <4>8 DEF WorktreeNext
    <3>2. QED
      BY <3>1 DEF Agreed
  <2>3. QED
    BY <2>1, <2>2
<1>4. QED
  BY <1>1, <1>2, <1>3, PTL DEF WorktreeSpec

\* Once nothing is left to apply a healthy watcher covers every registered path and the
\* worktree of every sole active child, however registrations, refreshes, reloads, builds and
\* restarts interleave, given that a build with room for all it wants lists it.
THEOREM WatchesComplete == WorktreeSpec /\ []FullBuildLists => []NoSilentGap
<1>1. GapInv => NoSilentGap
  <2> SUFFICES ASSUME GapInv, coverage = "healthy", request.at # "insert", SoleOwned = active,
                      turn = applied
               PROVE  {r.path : r \in rows} \cup {q[2] : q \in SoleOwned} \subseteq {t.native : t \in routes}
    BY DEF NoSilentGap
  <2>1. records = rows /\ Needed \subseteq Reported
    BY DEF GapInv, Agreed, BuiltForAll
  <2>2. QED
    BY <2>1 DEF Needed, Reported
<1>2. GapInv /\ FullBuildLists /\ [WorktreeNext]_worktreeVars => GapInv'
  BY GapStep
<1>3. QED
  BY GapStarts, <1>1, <1>2, PTL DEF WorktreeSpec

=============================================================================
