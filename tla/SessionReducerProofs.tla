------------------------ MODULE SessionReducerProofs ------------------------
(***************************************************************************)
(* What one reduction does, for every policy, every process set and every  *)
(* input: snapshots stay well formed, the stall marks come from the clock  *)
(* of the step that sets them, and the reducer's measure of silence never  *)
(* runs ahead of the time the session really was silent.  The modules      *)
(* that follow a snapshot over time (SessionTimers, TerminationSaga) rest  *)
(* on these lemmas.                                                        *)
(***************************************************************************)
EXTENDS SessionReducer, TLAPS

\* The two couplings of a snapshot's fields, as predicates of any snapshot.
Marks(s) ==
    /\ s.state = "Stalled" <=> s.stalled_since # NoTime
    /\ s.state = "Stalled" <=> s.last_reminder # NoTime
    /\ s.stalled_since <= s.last_reminder

Memo(s) == s.source_conflict <=> s.state_before_conflict # None

Sound(s) == s \in Snapshot /\ Marks(s) /\ Memo(s)

\* The helpers that stop and start the clock keep a snapshot well formed.
LEMMA PauseSound ==
    ASSUME NEW s, Sound(s), NEW now \in TimePoint
    PROVE  Sound(pause_clock(s, now))
BY DEF Sound, Snapshot, Marks, Memo, pause_clock, timers_paused, TimePoint,
       Time, OptTime, NoTime

\* resume_clock adds a non-negative pause, whatever the two clock samples are.
LEMMA ResumeSound ==
    ASSUME NEW s, Sound(s), NEW now \in TimePoint
    PROVE  Sound(resume_clock(s, now))
<1>1. CASE ~timers_paused(s)
  BY <1>1 DEF resume_clock
<1>2. CASE timers_paused(s)
  <2>1. s.pause_started \in Nat /\ s.paused_elapsed \in Nat /\ now.mono \in Nat
    BY <1>2 DEF Sound, Snapshot, timers_paused, TimePoint, Time, OptTime
  <2>2. s.paused_elapsed + saturating_sub(now.mono, s.pause_started) \in Nat
    BY <2>1 DEF saturating_sub
  <2> DEFINE e == s.paused_elapsed + saturating_sub(now.mono, s.pause_started)
  <2>3. resume_clock(s, now) =
          [s EXCEPT !.pause_started = NoTime, !.paused_elapsed = e]
    BY <1>2 DEF resume_clock, Sound, Snapshot
  <2> HIDE DEF e
  <2>4. e \in Nat
    BY <2>2 DEF e
  <2>5. resume_clock(s, now) \in Snapshot
    BY <2>3, <2>4 DEF Sound, Snapshot, OptTime, NoTime
  <2>6. /\ Marks(resume_clock(s, now))
        /\ Memo(resume_clock(s, now))
    BY <2>3 DEF Sound, Snapshot, Marks, Memo
  <2>7. QED
    BY <2>5, <2>6 DEF Sound
<1>3. QED
  BY <1>1, <1>2

\* transition sets the two stall marks on entry and clears both on exit.
LEMMA TransitionSound ==
    ASSUME NEW s, Sound(s), NEW state \in DetailedState, NEW now \in TimePoint
    PROVE  /\ Sound(transition(s, state, now))
           /\ transition(s, state, now).state = state
<1>1. transition(s, state, now) \in Snapshot
  <2>1. CASE s.state = state
    BY <2>1 DEF Sound, transition
  <2>2. CASE s.state # state
    <3> DEFINE m == IF state = "Stalled" THEN now.mono
                    ELSE IF s.state = "Stalled" THEN NoTime
                    ELSE s.stalled_since
               r == IF state = "Stalled" THEN now.mono
                    ELSE IF s.state = "Stalled" THEN NoTime
                    ELSE s.last_reminder
               e == s.events \cup {"StateChanged"}
    <3>1. m \in OptTime /\ r \in OptTime /\ e \in SUBSET EventKinds
      BY DEF Sound, Snapshot, EventKinds, TimePoint, Time, OptTime, NoTime
    <3>2. transition(s, state, now) =
            [s EXCEPT !.state = state, !.stalled_since = m,
                      !.last_reminder = r, !.events = e]
      BY <2>2 DEF transition
    <3> HIDE DEF m, r, e
    <3>3. QED
      BY <3>1, <3>2, ZenonT(40) DEF Sound, Snapshot
  <2>3. QED
    BY <2>1, <2>2
<1>2. transition(s, state, now).state = state
  BY DEF Sound, Snapshot, transition
<1>3. Marks(transition(s, state, now))
  BY DEF Sound, Snapshot, transition, Marks, TimePoint, Time, OptTime, NoTime
<1>4. Memo(transition(s, state, now))
  BY DEF Sound, Snapshot, transition, Memo
<1>5. QED
  BY <1>1, <1>2, <1>3, <1>4 DEF Sound

\* Recording events touches no other field.
LEMMA EmitSound ==
    ASSUME NEW s, Sound(s), NEW kinds \in SUBSET EventKinds
    PROVE  Sound(Emit(s, kinds)) /\ Emit(s, kinds).state = s.state
BY DEF Sound, Snapshot, Marks, Memo, Emit

\* Restarting the activity clock touches no stall mark.
LEMMA RebaseSound ==
    ASSUME NEW s, Sound(s), NEW now \in TimePoint
    PROVE  Sound(Rebase(s, now)) /\ Rebase(s, now).state = s.state
<1>1. Rebase(s, now) \in Snapshot
  BY DEF Sound, Snapshot, Rebase, TimePoint, Time
<1>2. /\ Marks(Rebase(s, now)) /\ Memo(Rebase(s, now))
      /\ Rebase(s, now).state = s.state
  BY DEF Sound, Snapshot, Rebase, Marks, Memo
<1>3. QED
  BY <1>1, <1>2 DEF Sound

\* Activity is only recorded after progress has moved a stall to Running.
LEMMA RecordActivitySound ==
    ASSUME NEW s, Sound(s), s.state # "Stalled", NEW now \in TimePoint
    PROVE  Sound(record_activity(s, now))
<1> DEFINE r == Rebase(s, now)
<1>1. Sound(r) /\ r.state # "Stalled"
  BY RebaseSound
<1>2. record_activity(s, now) =
        [r EXCEPT !.stalled_since = NoTime, !.last_reminder = NoTime]
  BY DEF record_activity
<1> HIDE DEF r
<1>3. record_activity(s, now) \in Snapshot
  BY <1>1, <1>2 DEF Sound, Snapshot, OptTime, NoTime
<1>4. Marks(record_activity(s, now)) /\ Memo(record_activity(s, now))
  BY <1>1, <1>2 DEF Sound, Snapshot, Marks, Memo, NoTime
<1>5. QED
  BY <1>3, <1>4 DEF Sound

-----------------------------------------------------------------------------
(* The payloads.                                                           *)

\* A native state keeps the snapshot well formed.
LEMMA NativeStateSound ==
    ASSUME NEW s, Sound(s), NEW state \in DetailedState, NEW now \in TimePoint
    PROVE  Sound(apply_native_state(s, state, now))
<1> DEFINE clocked == IF s.state = "WaitingForUser" /\ state # "WaitingForUser"
                      THEN resume_clock(s, now)
                      ELSE IF s.state # "WaitingForUser" /\ state = "WaitingForUser"
                      THEN pause_clock(s, now)
                      ELSE s
           moved == transition(clocked, state, now)
           based == IF state \in ActivityStates THEN Rebase(moved, now) ELSE moved
<1>1. Sound(clocked)
  BY PauseSound, ResumeSound
<1>2. Sound(moved)
  BY <1>1, TransitionSound
<1>3. Sound(based)
  BY <1>2, RebaseSound
<1>4. apply_native_state(s, state, now) =
        IF s.state # state /\ state \in AlertedStates
        THEN Emit(based, {"AlertDue"}) ELSE based
  BY DEF apply_native_state
<1> HIDE DEF based
<1>5. QED
  BY <1>3, <1>4, EmitSound DEF EventKinds

\* Progress clears both marks and leaves Stalled.
LEMMA ProgressSound ==
    ASSUME NEW s, Sound(s), NEW now \in TimePoint
    PROVE  Sound(apply_progress(s, now))
<1>1. CASE s.state \in ResumableStates
  <2>1. Sound(resume_clock(s, now))
    BY ResumeSound
  <2>2. /\ Sound(transition(resume_clock(s, now), "Running", now))
        /\ transition(resume_clock(s, now), "Running", now).state = "Running"
    BY <2>1, TransitionSound DEF DetailedState
  <2>3. QED
    BY <1>1, <2>2, RecordActivitySound DEF apply_progress
<1>2. CASE s.state \notin ResumableStates
  BY <1>2, RecordActivitySound DEF apply_progress, ResumableStates
<1>3. QED
  BY <1>1, <1>2

\* So do the parent's four deadline commands.
LEMMA DeadlineSound ==
    ASSUME NEW s, Sound(s), NEW now \in TimePoint, NEW deadline \in Time
    PROVE  /\ Sound(apply_deadline_set(s, deadline))
           /\ Sound(apply_deadline_pause(s, now))
           /\ Sound(apply_deadline_resume(s, now))
           /\ Sound(apply_deadline_clear(s))
<1>1. /\ Sound([s EXCEPT !.explicit_deadline = deadline])
      /\ Sound([s EXCEPT !.explicit_deadline = NoTime])
  BY DEF Sound, Snapshot, Marks, Memo, Time, OptTime, NoTime
<1>2. {"DeadlineChanged"} \in SUBSET EventKinds
  BY DEF EventKinds
<1>3. QED
  BY <1>1, <1>2, EmitSound, PauseSound, ResumeSound
     DEF apply_deadline_set, apply_deadline_pause, apply_deadline_resume,
         apply_deadline_clear

\* An intentional wait leaves Stalled through transition.
LEMMA IntentionalWaitSound ==
    ASSUME NEW s, Sound(s), NEW now \in TimePoint
    PROVE  Sound(apply_intentional_wait(s, now))
<1> DEFINE r == Rebase(transition(s, "WaitingForAgent", now), now)
<1>1. Sound(r)
  BY TransitionSound, RebaseSound DEF DetailedState
<1> HIDE DEF r
<1>2. Sound([r EXCEPT !.pause_started = now.mono])
  BY <1>1 DEF Sound, Snapshot, Marks, Memo, TimePoint, Time, OptTime
<1>3. QED
  BY <1>2, EmitSound DEF apply_intentional_wait, EventKinds, r

\* Compatibility evidence touches its own field only.
LEMMA CompatibilitySound ==
    ASSUME NEW s, Sound(s), NEW warning \in Warnings
    PROVE  /\ Sound(apply_compatibility_warning(s, warning))
           /\ Sound(apply_compatibility_resolved(s))
<1>1. /\ Sound([s EXCEPT !.warning = warning])
      /\ Sound([s EXCEPT !.warning = None])
  BY DEF Sound, Snapshot, Marks, Memo, None
<1>2. {"CompatibilityChanged"} \in SUBSET EventKinds
  BY DEF EventKinds
<1>3. QED
  BY <1>1, <1>2, EmitSound
     DEF apply_compatibility_warning, apply_compatibility_resolved

\* A conflict remembers the state it displaces.
LEMMA ConflictSound ==
    ASSUME NEW s, Sound(s), NEW now \in TimePoint
    PROVE  Sound(apply_source_conflict(s, now))
<1> DEFINE l == [s EXCEPT !.source_conflict = TRUE,
                          !.state_before_conflict = s.state]
<1>1. l \in Snapshot /\ Marks(l)
  BY DEF Sound, Snapshot, Marks
<1>2. Memo(l)
  BY DEF Sound, Snapshot, Memo, DetailedState, None
<1>3. Sound(l)
  BY <1>1, <1>2 DEF Sound
<1> HIDE DEF l
<1>4. Sound(IF s.source_conflict THEN s ELSE Emit(l, {"ConflictRaised"}))
  BY <1>3, EmitSound DEF EventKinds
<1>5. QED
  BY <1>4, TransitionSound DEF apply_source_conflict, DetailedState, l

\* Its resolution forgets the memo, and re-marks a stall it restores.
LEMMA ConflictResolvedSound ==
    ASSUME NEW s, Sound(s), NEW now \in TimePoint
    PROVE  Sound(apply_source_conflict_resolved(s, now))
<1> DEFINE c == [s EXCEPT !.source_conflict = FALSE,
                          !.state_before_conflict = None]
           memo == IF s.state_before_conflict = None
                   THEN "Unknown" ELSE s.state_before_conflict
<1>1. c \in Snapshot /\ Marks(c)
  BY DEF Sound, Snapshot, Marks
<1>2. Memo(c)
  BY DEF Sound, Snapshot, Memo
<1>3. Sound(c) /\ memo \in DetailedState
  BY <1>1, <1>2 DEF Sound, Snapshot, DetailedState
<1> HIDE DEF c, memo
<1>4. Sound(Emit(c, {"ConflictCleared"}))
  BY <1>3, EmitSound DEF EventKinds
<1>5. Sound(transition(Emit(c, {"ConflictCleared"}), memo, now))
  BY <1>3, <1>4, TransitionSound
<1>6. QED
  BY <1>4, <1>5 DEF apply_source_conflict_resolved, c, memo

\* Every trusted payload keeps a snapshot well formed.
LEMMA PayloadSound ==
    ASSUME NEW s, Sound(s), NEW kind \in PayloadKinds,
           NEW arg \in PayloadArgs(kind), NEW now \in TimePoint
    PROVE  Sound(apply_payload(s, kind, arg, now))
<1>1. CASE kind = "NativeState"
  BY <1>1, NativeStateSound DEF apply_payload, PayloadArgs
<1>2. CASE kind = "Progress"
  BY <1>2, ProgressSound DEF apply_payload
<1>3. CASE kind = "ProcessIdentity"
  <2>1. Sound([s EXCEPT !.process = arg])
    BY <1>3 DEF Sound, Snapshot, Marks, Memo, PayloadArgs
  <2>2. QED
    BY <1>3, <2>1 DEF apply_payload, apply_process_identity
<1>4. CASE kind = "DeadlineSet"
  BY <1>4, DeadlineSound DEF apply_payload, PayloadArgs
<1>5. CASE kind \in {"DeadlinePause", "DeadlineResume", "DeadlineClear"}
  <2>1. 0 \in Time
    BY DEF Time
  <2>2. QED
    BY <1>5, <2>1, DeadlineSound DEF apply_payload
<1>6. CASE kind = "IntentionalWait"
  BY <1>6, IntentionalWaitSound DEF apply_payload
<1>7. CASE kind = "Compatibility"
  BY <1>7, CompatibilitySound DEF apply_payload, PayloadArgs
<1>8. CASE kind = "CompatibilityResolved"
  <2>1. "Versioned" \in Warnings
    BY DEF Warnings
  <2>2. QED
    BY <1>8, <2>1, CompatibilitySound DEF apply_payload
<1>9. CASE kind = "SourceConflict"
  BY <1>9, ConflictSound DEF apply_payload
<1>10. CASE kind = "SourceConflictResolved"
  BY <1>10, ConflictResolvedSound DEF apply_payload
<1>11. CASE kind = "SchedulerTick"
  BY <1>11 DEF apply_payload
<1>12. QED
  BY <1>1, <1>2, <1>3, <1>4, <1>5, <1>6, <1>7, <1>8, <1>9, <1>10, <1>11
     DEF PayloadKinds

-----------------------------------------------------------------------------
(* The four inputs of reduce.                                              *)

\* A new reduction starts without events.
LEMMA FreshSound ==
    ASSUME NEW s, Sound(s)
    PROVE  Sound(Fresh(s)) /\ Fresh(s).state = s.state
BY DEF Sound, Snapshot, Marks, Memo, Fresh

\* Every admitted observation keeps the snapshot well formed.
LEMMA ObservationSound ==
    ASSUME NEW s, Sound(s), NEW o, o.id \in Nat, o.at \in TimePoint,
           o.kind \in PayloadKinds, o.arg \in PayloadArgs(o.kind)
    PROVE  Sound(reduce_observation(s, o))
<1> DEFINE f == Fresh(s)
<1>1. Sound(f)
  BY FreshSound
<1> HIDE DEF f
<1>2. Sound(Stamped(f, o))
  <2>1. Stamped(f, o) \in Snapshot
    BY <1>1, ZenonT(40) DEF Sound, Snapshot, Stamped, TimePoint, Time, OptTime
  <2>2. Marks(Stamped(f, o)) /\ Memo(Stamped(f, o))
    BY <1>1 DEF Sound, Snapshot, Stamped, Marks, Memo
  <2>3. QED
    BY <2>1, <2>2 DEF Sound
<1>3. Sound([Stamped(f, o) EXCEPT !.reconciliation_required = FALSE])
  BY <1>2, ZenonT(40) DEF Sound, Snapshot, Marks, Memo
<1>4. Sound(Trusted(f, o))
  BY <1>2, <1>3 DEF Trusted
<1>5. Sound(apply_payload(Trusted(f, o), o.kind, o.arg, o.at))
  BY <1>4, PayloadSound
<1>6. QED
  BY <1>1, <1>2, <1>5 DEF reduce_observation, apply_observation, f

\* A tick stalls through transition, and a reminder moves one mark forward.
LEMMA TickSound ==
    ASSUME NEW s, Sound(s), NEW now \in TimePoint
    PROVE  Sound(reduce_tick(s, now))
<1> DEFINE f == Fresh(s)
           g == IF /\ uses_fallback(f)
                   /\ active_elapsed(f, now) >= SuspectAfter
                   /\ ~f.suspect_emitted
                THEN Emit([f EXCEPT !.suspect_emitted = TRUE], {"Suspect"})
                ELSE f
<1>1. Sound(f)
  BY FreshSound
<1>2. reduce_tick(s, now) =
        IF ~TimerRuns(f) THEN f
        ELSE IF StallDue(f, now) /\ f.state # "Stalled"
        THEN Emit(transition(g, "Stalled", now), {"AlertDue"})
        ELSE IF f.state = "Stalled" /\ ReminderIsDue(f, now)
        THEN Emit([g EXCEPT !.last_reminder = now.mono], {"ReminderDue"})
        ELSE g
  BY DEF reduce_tick, apply_tick
<1> HIDE DEF f
<1>3. /\ Sound([f EXCEPT !.suspect_emitted = TRUE])
      /\ [f EXCEPT !.suspect_emitted = TRUE].state = f.state
      /\ [f EXCEPT !.suspect_emitted = TRUE].stalled_since = f.stalled_since
      /\ [f EXCEPT !.suspect_emitted = TRUE].last_reminder = f.last_reminder
  BY <1>1 DEF Sound, Snapshot, Marks, Memo
<1>4. /\ Sound(g) /\ g.state = f.state
      /\ g.stalled_since = f.stalled_since /\ g.last_reminder = f.last_reminder
  <2>1. {"Suspect"} \in SUBSET EventKinds
    BY DEF EventKinds
  <2> DEFINE h == [f EXCEPT !.suspect_emitted = TRUE]
  <2>2. Sound(h) /\ h.state = f.state
        /\ h.stalled_since = f.stalled_since /\ h.last_reminder = f.last_reminder
    BY <1>3
  <2>3. g = f \/ g = Emit(h, {"Suspect"})
    OBVIOUS
  <2> HIDE DEF h, g
  <2>4. /\ Sound(Emit(h, {"Suspect"})) /\ Emit(h, {"Suspect"}).state = h.state
        /\ Emit(h, {"Suspect"}).stalled_since = h.stalled_since
        /\ Emit(h, {"Suspect"}).last_reminder = h.last_reminder
    BY <2>1, <2>2, EmitSound DEF Emit, Sound, Snapshot
  <2>5. QED
    BY <1>1, <2>2, <2>3, <2>4
<1> HIDE DEF g
<1>5. Sound(Emit(transition(g, "Stalled", now), {"AlertDue"}))
  BY <1>4, TransitionSound, EmitSound DEF DetailedState, EventKinds
<1>6. ASSUME f.state = "Stalled", ReminderIsDue(f, now)
      PROVE  Sound(Emit([g EXCEPT !.last_reminder = now.mono], {"ReminderDue"}))
  <2> DEFINE k == [g EXCEPT !.last_reminder = now.mono]
  <2>1. f.last_reminder \in Nat /\ now.mono \in Nat /\ ReminderEvery \in Nat
        /\ ReminderEvery > 0
    BY <1>1, <1>6, PolicyAssumption
       DEF Sound, Snapshot, ReminderIsDue, OptTime, TimePoint, Time
  <2>2. f.last_reminder <= now.mono
    BY <1>6, <2>1 DEF ReminderIsDue, saturating_sub
  <2>3. g.stalled_since \in OptTime /\ g.last_reminder = f.last_reminder
        /\ g.stalled_since <= g.last_reminder /\ g.stalled_since # NoTime
        /\ g.state = "Stalled"
    BY <1>4, <1>6 DEF Sound, Snapshot, Marks
  <2>4. k \in Snapshot
    BY <1>4, <2>1 DEF Sound, Snapshot, OptTime
  <2>5. /\ k.state = "Stalled" /\ k.stalled_since = g.stalled_since
        /\ k.last_reminder = now.mono
        /\ k.source_conflict = g.source_conflict
        /\ k.state_before_conflict = g.state_before_conflict
    BY <1>4, <2>3 DEF Sound, Snapshot
  <2> HIDE DEF k
  <2>6. Marks(k)
    BY <2>1, <2>2, <2>3, <2>5 DEF Marks, OptTime, NoTime
  <2>7. Memo(k)
    BY <1>4, <2>5 DEF Sound, Memo
  <2>8. QED
    BY <2>4, <2>6, <2>7, EmitSound DEF Sound, EventKinds, k
<1>7. QED
  BY <1>1, <1>2, <1>4, <1>5, <1>6

\* A restart keeps the marks together.
LEMMA RestartedSound ==
    ASSUME NEW s, Sound(s), NEW now \in TimePoint
    PROVE  Sound(reduce_restarted(s, now))
<1>1. reduce_restarted(s, now) \in Snapshot
  BY DEF Sound, Snapshot, reduce_restarted, EventKinds, TimePoint, Time, OptTime, NoTime
<1>2. Marks(reduce_restarted(s, now)) /\ Memo(reduce_restarted(s, now))
  BY DEF Sound, Snapshot, reduce_restarted, Marks, Memo
<1>3. QED
  BY <1>1, <1>2 DEF Sound

\* Reconciliation only lowers the gate.
LEMMA ReconciledSound ==
    ASSUME NEW s, Sound(s)
    PROVE  Sound(reduce_reconciled(s))
<1>1. reduce_reconciled(s) \in Snapshot
  BY DEF Sound, Snapshot, reduce_reconciled
<1>2. Marks(reduce_reconciled(s)) /\ Memo(reduce_reconciled(s))
  BY DEF Sound, Snapshot, reduce_reconciled, Marks, Memo
<1>3. QED
  BY <1>1, <1>2 DEF Sound

-----------------------------------------------------------------------------
(* Which marks a reduction leaves, and what its clock has measured.        *)

\* The meter of a snapshot at the monotonic time t: with c the time the clock
\* ran since the last activity, the reducer's fields claim no more than c.
Metered(s, t, c) ==
    /\ timers_paused(s) => s.pause_started <= t
    /\ (IF timers_paused(s) THEN s.pause_started ELSE t)
           <= s.last_activity + s.paused_elapsed + c

MeterKept(s, r, t) == \A c \in Nat : Metered(s, t, c) => Metered(r, t, c)

\* A reduction from s to r that leaves the state and its marks.
Still(s, r, t) ==
    /\ r.state = s.state /\ r.stalled_since = s.stalled_since
    /\ r.last_reminder = s.last_reminder /\ r.last_mono = s.last_mono
    /\ MeterKept(s, r, t)

\* A reduction at time t: a stall keeps its marks, a new one is marked t.
MarksFrom(s, r, t) ==
    r.state = "Stalled" =>
        IF s.state = "Stalled"
        THEN r.stalled_since = s.stalled_since /\ r.last_reminder = s.last_reminder
        ELSE r.stalled_since = t /\ r.last_reminder = t

Carried(s, r, t) ==
    MarksFrom(s, r, t) /\ r.last_mono = s.last_mono /\ MeterKept(s, r, t)

\* The relations compose.
LEMMA Compose ==
    ASSUME NEW s, NEW r, NEW q, NEW t
    PROVE  /\ Still(s, s, t)
           /\ Still(s, r, t) => Carried(s, r, t)
           /\ Still(s, r, t) /\ Still(r, q, t) => Still(s, q, t)
           /\ Still(s, r, t) /\ Carried(r, q, t) => Carried(s, q, t)
           /\ Carried(s, r, t) /\ Still(r, q, t) => Carried(s, q, t)
BY DEF Still, Carried, MarksFrom, MeterKept

\* What the meter needs to know of a snapshot.
LEMMA ClockTypes ==
    ASSUME NEW s, Sound(s)
    PROVE  /\ s.last_activity \in Nat /\ s.paused_elapsed \in Nat
           /\ s.pause_started \in Nat \/ s.pause_started = NoTime
           /\ timers_paused(s) => s.pause_started \in Nat
BY DEF Sound, Snapshot, timers_paused, Time, OptTime

\* Fields the meter does not read.
LEMMA MeterSame ==
    ASSUME NEW s, NEW r, NEW t, r.pause_started = s.pause_started,
           r.last_activity = s.last_activity, r.paused_elapsed = s.paused_elapsed
    PROVE  MeterKept(s, r, t)
BY DEF MeterKept, Metered, timers_paused

\* Time measured while the clock runs, or stands, is the meter's.
LEMMA MeterMoves ==
    ASSUME NEW s, Sound(s), NEW m \in Nat, NEW c \in Nat, Metered(s, m, c),
           NEW t \in Nat, m <= t
    PROVE  Metered(s, t, c + (IF timers_paused(s) THEN 0 ELSE saturating_sub(t, m)))
<1>1. /\ s.last_activity \in Nat /\ s.paused_elapsed \in Nat
      /\ timers_paused(s) => s.pause_started \in Nat
  BY ClockTypes
<1>2. QED
  BY <1>1 DEF Metered, saturating_sub

\* Stopping the clock.
LEMMA PauseStill ==
    ASSUME NEW s, Sound(s), NEW now \in TimePoint
    PROVE  Still(s, pause_clock(s, now), now.mono)
<1>1. CASE timers_paused(s)
  BY <1>1, Compose DEF pause_clock
<1>2. CASE ~timers_paused(s)
  <2> DEFINE r == pause_clock(s, now)
  <2>1. /\ r.pause_started = now.mono /\ r.last_activity = s.last_activity
        /\ r.paused_elapsed = s.paused_elapsed
        /\ r.state = s.state /\ r.stalled_since = s.stalled_since
        /\ r.last_reminder = s.last_reminder /\ r.last_mono = s.last_mono
    BY <1>2 DEF pause_clock, Sound, Snapshot
  <2>2. now.mono \in Nat /\ now.mono # NoTime
    BY DEF TimePoint, Time, NoTime
  <2> HIDE DEF r
  <2>3. MeterKept(s, r, now.mono)
    BY <1>2, <2>1, <2>2 DEF MeterKept, Metered, timers_paused
  <2>4. QED
    BY <2>1, <2>3 DEF Still, r
<1>3. QED
  BY <1>1, <1>2

\* Starting it again.
LEMMA ResumeStill ==
    ASSUME NEW s, Sound(s), NEW now \in TimePoint
    PROVE  Still(s, resume_clock(s, now), now.mono)
<1>1. CASE ~timers_paused(s)
  BY <1>1, Compose DEF resume_clock
<1>2. CASE timers_paused(s)
  <2> DEFINE r == resume_clock(s, now)
             p == s.pause_started
  <2>1. /\ s.last_activity \in Nat /\ s.paused_elapsed \in Nat /\ p \in Nat
        /\ now.mono \in Nat
    BY <1>2, ClockTypes DEF TimePoint, Time
  <2>2. /\ r.pause_started = NoTime /\ r.last_activity = s.last_activity
        /\ r.paused_elapsed = s.paused_elapsed + saturating_sub(now.mono, p)
        /\ r.state = s.state /\ r.stalled_since = s.stalled_since
        /\ r.last_reminder = s.last_reminder /\ r.last_mono = s.last_mono
    BY <1>2 DEF resume_clock, Sound, Snapshot
  <2> HIDE DEF r
  <2>3. ASSUME NEW c \in Nat, Metered(s, now.mono, c) PROVE Metered(r, now.mono, c)
    <3>1. p <= s.last_activity + s.paused_elapsed + c
      BY <1>2, <2>3 DEF Metered
    <3>2. now.mono <= s.last_activity + (s.paused_elapsed + saturating_sub(now.mono, p)) + c
      BY <2>1, <3>1 DEF saturating_sub
    <3>3. ~timers_paused(r)
      BY <2>2 DEF timers_paused
    <3>4. QED
      BY <2>2, <3>2, <3>3 DEF Metered
  <2>4. QED
    BY <2>2, <2>3 DEF Still, MeterKept, r
<1>3. QED
  BY <1>1, <1>2

\* Recording events.
LEMMA EmitStill ==
    ASSUME NEW s, Sound(s), NEW kinds \in SUBSET EventKinds, NEW t
    PROVE  Still(s, Emit(s, kinds), t)
<1> DEFINE r == Emit(s, kinds)
<1>1. /\ r.pause_started = s.pause_started /\ r.last_activity = s.last_activity
      /\ r.paused_elapsed = s.paused_elapsed
      /\ r.state = s.state /\ r.stalled_since = s.stalled_since
      /\ r.last_reminder = s.last_reminder /\ r.last_mono = s.last_mono
  BY DEF Emit, Sound, Snapshot
<1> HIDE DEF r
<1>2. QED
  BY <1>1, MeterSame DEF Still, r

\* A new baseline makes every measure hold, zero too.
LEMMA RebaseStill ==
    ASSUME NEW s, Sound(s), NEW now \in TimePoint
    PROVE  /\ Still(s, Rebase(s, now), now.mono)
           /\ \A c \in Nat : Metered(s, now.mono, c) => Metered(Rebase(s, now), now.mono, 0)
<1> DEFINE r == Rebase(s, now)
<1>1. /\ r.pause_started = s.pause_started /\ r.last_activity = now.mono
      /\ r.paused_elapsed = 0
      /\ r.state = s.state /\ r.stalled_since = s.stalled_since
      /\ r.last_reminder = s.last_reminder /\ r.last_mono = s.last_mono
  BY DEF Rebase, Sound, Snapshot
<1>2. now.mono \in Nat /\ (timers_paused(s) => s.pause_started \in Nat)
  BY ClockTypes DEF TimePoint, Time
<1> HIDE DEF r
<1>3. ASSUME NEW c \in Nat, Metered(s, now.mono, c), NEW e \in Nat
      PROVE  Metered(r, now.mono, e)
  BY <1>1, <1>2, <1>3 DEF Metered, timers_paused
<1>4. QED
  BY <1>1, <1>3 DEF Still, MeterKept, r

\* A transition.
LEMMA TransitionCarried ==
    ASSUME NEW s, Sound(s), NEW state \in DetailedState, NEW now \in TimePoint
    PROVE  Carried(s, transition(s, state, now), now.mono)
<1> DEFINE r == transition(s, state, now)
<1>1. /\ r.pause_started = s.pause_started /\ r.last_activity = s.last_activity
      /\ r.paused_elapsed = s.paused_elapsed /\ r.last_mono = s.last_mono
  BY DEF transition, Sound, Snapshot
<1>2. MarksFrom(s, r, now.mono)
  BY DEF transition, Sound, Snapshot, MarksFrom
<1> HIDE DEF r
<1>3. QED
  BY <1>1, <1>2, MeterSame DEF Carried, r

\* Recording activity outside a stall.
LEMMA RecordActivityCarried ==
    ASSUME NEW s, Sound(s), s.state # "Stalled", NEW now \in TimePoint
    PROVE  /\ Carried(s, record_activity(s, now), now.mono)
           /\ \A c \in Nat : Metered(s, now.mono, c)
                             => Metered(record_activity(s, now), now.mono, 0)
<1> DEFINE b == Rebase(s, now)
           r == record_activity(s, now)
<1>1. Sound(b) /\ b.state # "Stalled" /\ Still(s, b, now.mono)
  BY RebaseSound, RebaseStill
<1>2. r = [b EXCEPT !.stalled_since = NoTime, !.last_reminder = NoTime]
  BY DEF record_activity
<1> HIDE DEF b, r
<1>3. /\ r.pause_started = b.pause_started /\ r.last_activity = b.last_activity
      /\ r.paused_elapsed = b.paused_elapsed /\ r.last_mono = b.last_mono
      /\ r.state = b.state
  BY <1>1, <1>2 DEF Sound, Snapshot
<1>4. MeterKept(b, r, now.mono)
  BY <1>3, MeterSame
<1>5. Carried(s, r, now.mono)
  BY <1>1, <1>3, <1>4 DEF Still, Carried, MarksFrom, MeterKept
<1>6. \A c \in Nat : Metered(s, now.mono, c) => Metered(b, now.mono, 0)
  BY RebaseStill DEF b
<1>7. QED
  BY <1>4, <1>5, <1>6 DEF MeterKept, r

-----------------------------------------------------------------------------
(* The same of the payloads.                                               *)

\* Payloads after which the clock starts at zero.
IsActive(kind, arg) ==
    \/ kind \in {"Progress", "IntentionalWait"}
    \/ kind = "NativeState" /\ arg \in ActivityStates

\* A reduction that also restarts the measure.
Restarted(s, r, t) == \A c \in Nat : Metered(s, t, c) => Metered(r, t, 0)

\* A meter that is kept, or restarted, around one that is.
LEMMA RestartComposes ==
    ASSUME NEW s, NEW r, NEW q, NEW t
    PROVE  /\ MeterKept(s, r, t) /\ Restarted(r, q, t) => Restarted(s, q, t)
           /\ Restarted(s, r, t) /\ MeterKept(r, q, t) => Restarted(s, q, t)
BY DEF MeterKept, Restarted

\* A native state keeps the meter and the marks; one of activity starts the
\* measure again.
LEMMA NativeStateCarried ==
    ASSUME NEW s, Sound(s), NEW state \in DetailedState, NEW now \in TimePoint
    PROVE  /\ Carried(s, apply_native_state(s, state, now), now.mono)
           /\ state \in ActivityStates
              => Restarted(s, apply_native_state(s, state, now), now.mono)
<1> DEFINE t == now.mono
           clocked == IF s.state = "WaitingForUser" /\ state # "WaitingForUser"
                      THEN resume_clock(s, now)
                      ELSE IF s.state # "WaitingForUser" /\ state = "WaitingForUser"
                      THEN pause_clock(s, now)
                      ELSE s
           moved == transition(clocked, state, now)
           based == IF state \in ActivityStates THEN Rebase(moved, now) ELSE moved
           r == apply_native_state(s, state, now)
<1>1. r = IF s.state # state /\ state \in AlertedStates
          THEN Emit(based, {"AlertDue"}) ELSE based
  BY DEF apply_native_state
<1> HIDE DEF r
<1>2. Sound(clocked) /\ Still(s, clocked, t)
  BY PauseSound, ResumeSound, PauseStill, ResumeStill, Compose
<1> HIDE DEF clocked
<1>3. Sound(moved) /\ Carried(clocked, moved, t)
  BY <1>2, TransitionSound, TransitionCarried
<1> HIDE DEF moved
<1>4. Sound(based) /\ Still(moved, based, t) /\ (state \in ActivityStates => Restarted(moved, based, t))
  BY <1>3, RebaseSound, RebaseStill, Compose DEF Restarted
<1> HIDE DEF based
<1>5. Still(based, r, t)
  BY <1>1, <1>4, EmitStill, Compose DEF EventKinds
<1>6. Carried(s, r, t)
  BY <1>2, <1>3, <1>4, <1>5, Compose
<1>7. ASSUME state \in ActivityStates PROVE Restarted(s, r, t)
  <2>1. MeterKept(s, moved, t) /\ Restarted(moved, based, t) /\ MeterKept(based, r, t)
    BY <1>2, <1>3, <1>4, <1>5, <1>7 DEF Still, Carried, MeterKept
  <2>2. QED
    BY <2>1, RestartComposes
<1>8. QED
  BY <1>6, <1>7 DEF r, t

\* Progress keeps the marks and starts the measure again.
LEMMA ProgressCarried ==
    ASSUME NEW s, Sound(s), NEW now \in TimePoint
    PROVE  /\ Carried(s, apply_progress(s, now), now.mono)
           /\ Restarted(s, apply_progress(s, now), now.mono)
<1> DEFINE t == now.mono
           c == resume_clock(s, now)
           m == IF s.state \in ResumableStates THEN transition(c, "Running", now) ELSE s
           r == apply_progress(s, now)
<1>1. Sound(c) /\ Still(s, c, t)
  BY ResumeSound, ResumeStill
<1> HIDE DEF c
<1>2. Sound(m) /\ Carried(s, m, t) /\ m.state # "Stalled"
  <2>1. CASE s.state \in ResumableStates
    BY <1>1, <2>1, TransitionSound, TransitionCarried, Compose DEF DetailedState
  <2>2. CASE s.state \notin ResumableStates
    BY <2>2, Compose DEF ResumableStates
  <2>3. QED
    BY <2>1, <2>2
<1>3. r = record_activity(m, now)
  BY DEF apply_progress, c
<1> HIDE DEF m, r
<1>4. Carried(m, r, t) /\ Restarted(m, r, t) /\ Sound(r)
  BY <1>2, <1>3, RecordActivityCarried, RecordActivitySound DEF Restarted
<1>5. r.state # "Stalled"
  <2>1. CASE m.state # "Stalled"
    <3>1. Rebase(m, now).state = m.state
      BY <1>2, RebaseSound
    <3>2. Sound(Rebase(m, now))
      BY <1>2, RebaseSound
    <3>3. QED
      BY <1>2, <1>3, <3>1, <3>2 DEF record_activity, Sound, Snapshot
  <2>2. QED
    BY <1>2, <2>1
<1>6. QED
  BY <1>2, <1>4, <1>5, RestartComposes DEF Carried, MarksFrom, MeterKept, r, t

\* Replacing one field that neither the marks nor the meter read.
LEMMA FieldStill ==
    ASSUME NEW s, Sound(s), NEW v, NEW w, NEW t
    PROVE  /\ Still(s, [s EXCEPT !.explicit_deadline = v], t)
           /\ Still(s, [s EXCEPT !.process = v], t)
           /\ Still(s, [s EXCEPT !.warning = v], t)
           /\ Still(s, [s EXCEPT !.reconciliation_required = v], t)
           /\ Still(s, [s EXCEPT !.suspect_emitted = v], t)
           /\ Still(s, [s EXCEPT !.events = v], t)
           /\ Still(s, [s EXCEPT !.source_conflict = v, !.state_before_conflict = w], t)
<1> DEFINE Same(r) == /\ r.pause_started = s.pause_started /\ r.last_activity = s.last_activity
                      /\ r.paused_elapsed = s.paused_elapsed
                      /\ r.state = s.state /\ r.stalled_since = s.stalled_since
                      /\ r.last_reminder = s.last_reminder /\ r.last_mono = s.last_mono
<1>1. ASSUME NEW r, Same(r) PROVE Still(s, r, t)
  BY <1>1, MeterSame DEF Still
<1>2. /\ Same([s EXCEPT !.explicit_deadline = v]) /\ Same([s EXCEPT !.process = v])
      /\ Same([s EXCEPT !.warning = v]) /\ Same([s EXCEPT !.reconciliation_required = v])
      /\ Same([s EXCEPT !.suspect_emitted = v]) /\ Same([s EXCEPT !.events = v])
      /\ Same([s EXCEPT !.source_conflict = v, !.state_before_conflict = w])
  BY DEF Sound, Snapshot
<1> HIDE DEF Same
<1>3. QED
  BY <1>1, <1>2, Zenon

\* The four operations on a deadline leave the marks and the measure alone.
LEMMA DeadlineStill ==
    ASSUME NEW s, Sound(s), NEW deadline \in Time, NEW now \in TimePoint
    PROVE  /\ Still(s, apply_deadline_set(s, deadline), now.mono)
           /\ Still(s, apply_deadline_pause(s, now), now.mono)
           /\ Still(s, apply_deadline_resume(s, now), now.mono)
           /\ Still(s, apply_deadline_clear(s), now.mono)
<1>1. {"DeadlineChanged"} \in SUBSET EventKinds
  BY DEF EventKinds
<1>2. ASSUME NEW r, Sound(r), Still(s, r, now.mono)
      PROVE  Still(s, Emit(r, {"DeadlineChanged"}), now.mono)
  BY <1>1, <1>2, EmitStill, Compose
<1>3. /\ Sound([s EXCEPT !.explicit_deadline = deadline])
      /\ Sound([s EXCEPT !.explicit_deadline = NoTime])
  BY DEF Sound, Snapshot, Marks, Memo, OptTime, Time, NoTime
<1>4. QED
  BY <1>2, <1>3, FieldStill, PauseSound, PauseStill, ResumeSound, ResumeStill
  DEF apply_deadline_set, apply_deadline_pause, apply_deadline_resume, apply_deadline_clear

\* An intentional wait keeps the marks and starts the measure again, its clock
\* stopped.
LEMMA IntentionalWaitCarried ==
    ASSUME NEW s, Sound(s), NEW now \in TimePoint
    PROVE  /\ Carried(s, apply_intentional_wait(s, now), now.mono)
           /\ Restarted(s, apply_intentional_wait(s, now), now.mono)
<1> DEFINE t == now.mono
           m == transition(s, "WaitingForAgent", now)
           b == Rebase(m, now)
           q == [b EXCEPT !.pause_started = t]
           r == apply_intentional_wait(s, now)
<1>1. Sound(m) /\ Carried(s, m, t) /\ m.state = "WaitingForAgent"
  BY TransitionSound, TransitionCarried DEF DetailedState
<1> HIDE DEF m
<1>2. Sound(b) /\ b.state = "WaitingForAgent" /\ Still(m, b, t)
      /\ b.last_activity = t /\ b.paused_elapsed = 0
  BY <1>1, RebaseSound, RebaseStill DEF Sound, Snapshot, Rebase
<1> HIDE DEF b
<1>3. t \in Nat /\ t # NoTime
  BY DEF TimePoint, Time, NoTime
<1>4. /\ q.state = "WaitingForAgent" /\ q.pause_started = t /\ q.last_activity = t
      /\ q.paused_elapsed = 0 /\ q.last_mono = b.last_mono
  BY <1>2 DEF Sound, Snapshot
<1>5. Sound(q)
  BY <1>2, <1>3 DEF Sound, Snapshot, Marks, Memo, TimePoint, Time, OptTime
<1>6. \A c \in Nat : Metered(q, t, c)
  BY <1>3, <1>4 DEF Metered, timers_paused
<1>7. r = Emit(q, {"DeadlineChanged"})
  BY DEF apply_intentional_wait, m, b
<1> HIDE DEF q, r
<1>8. Still(q, r, t)
  BY <1>5, <1>7, EmitStill DEF EventKinds
<1>9. \A c \in Nat : Metered(r, t, c)
  BY <1>6, <1>8 DEF Still, MeterKept
<1>10. r.state = "WaitingForAgent" /\ r.last_mono = s.last_mono
  BY <1>1, <1>2, <1>4, <1>8 DEF Still, Carried
<1>11. QED
  BY <1>9, <1>10 DEF Carried, MarksFrom, MeterKept, Restarted, r, t

\* A compatibility warning, raised or resolved, leaves the marks and the measure
\* alone.
LEMMA CompatibilityStill ==
    ASSUME NEW s, Sound(s), NEW warning \in Warnings, NEW t
    PROVE  /\ Still(s, apply_compatibility_warning(s, warning), t)
           /\ Still(s, apply_compatibility_resolved(s), t)
<1>1. {"CompatibilityChanged"} \in SUBSET EventKinds
  BY DEF EventKinds
<1>2. /\ Sound([s EXCEPT !.warning = warning]) /\ Sound([s EXCEPT !.warning = None])
  BY DEF Sound, Snapshot, Marks, Memo, None
<1>3. /\ Still(s, Emit([s EXCEPT !.warning = warning], {"CompatibilityChanged"}), t)
      /\ Still(s, Emit([s EXCEPT !.warning = None], {"CompatibilityChanged"}), t)
  BY <1>1, <1>2, FieldStill, EmitStill, Compose
<1>4. QED
  BY <1>3, Compose DEF apply_compatibility_warning, apply_compatibility_resolved

\* A conflict of sources, raised or resolved, keeps the marks and the measure.
LEMMA ConflictCarried ==
    ASSUME NEW s, Sound(s), NEW now \in TimePoint
    PROVE  /\ Carried(s, apply_source_conflict(s, now), now.mono)
           /\ Carried(s, apply_source_conflict_resolved(s, now), now.mono)
<1> DEFINE t == now.mono
           l == [s EXCEPT !.source_conflict = TRUE, !.state_before_conflict = s.state]
           latched == IF s.source_conflict THEN s ELSE Emit(l, {"ConflictRaised"})
           c == [s EXCEPT !.source_conflict = FALSE, !.state_before_conflict = None]
           memo == IF s.state_before_conflict = None THEN "Unknown" ELSE s.state_before_conflict
           opened == Emit(c, {"ConflictCleared"})
<1>1. Sound(l) /\ Sound(c) /\ memo \in DetailedState
  <2>1. l \in Snapshot /\ Marks(l) /\ c \in Snapshot /\ Marks(c)
    BY DEF Sound, Snapshot, Marks
  <2>2. Memo(l) /\ Memo(c)
    BY DEF Sound, Snapshot, Memo, DetailedState, None
  <2>3. memo \in DetailedState
    BY DEF Sound, Snapshot, DetailedState
  <2>4. QED
    BY <2>1, <2>2, <2>3 DEF Sound
<1>2. Still(s, l, t) /\ Still(s, c, t)
  BY FieldStill
<1> HIDE DEF l, c, memo
<1>3. Sound(latched) /\ Still(s, latched, t) /\ Sound(opened) /\ Still(s, opened, t)
  BY <1>1, <1>2, EmitSound, EmitStill, Compose DEF EventKinds
<1>4. /\ apply_source_conflict(s, now) = transition(latched, "Unknown", now)
      /\ apply_source_conflict_resolved(s, now) \in
             {s, opened, transition(opened, memo, now)}
  BY DEF apply_source_conflict, apply_source_conflict_resolved, l, c, memo
<1> HIDE DEF latched, opened
<1>5. /\ Carried(latched, transition(latched, "Unknown", now), t)
      /\ Carried(opened, transition(opened, memo, now), t)
  BY <1>1, <1>3, TransitionCarried DEF DetailedState
<1>6. QED
  BY <1>3, <1>4, <1>5, Compose

\* Every trusted payload carries the marks and the meter, and activity restarts it.
LEMMA PayloadCarried ==
    ASSUME NEW s, Sound(s), NEW kind \in PayloadKinds,
           NEW arg \in PayloadArgs(kind), NEW now \in TimePoint
    PROVE  /\ Carried(s, apply_payload(s, kind, arg, now), now.mono)
           /\ IsActive(kind, arg) => Restarted(s, apply_payload(s, kind, arg, now), now.mono)
<1>1. CASE kind = "NativeState"
  BY <1>1, NativeStateCarried DEF apply_payload, PayloadArgs, IsActive
<1>2. CASE kind = "Progress"
  BY <1>2, ProgressCarried DEF apply_payload
<1>3. CASE kind = "ProcessIdentity"
  BY <1>3, FieldStill, Compose DEF apply_payload, apply_process_identity, IsActive
<1>4. CASE kind = "DeadlineSet"
  BY <1>4, DeadlineStill, Compose DEF apply_payload, PayloadArgs, IsActive
<1>5. CASE kind \in {"DeadlinePause", "DeadlineResume", "DeadlineClear"}
  <2>1. 0 \in Time
    BY DEF Time
  <2>2. QED
    BY <1>5, <2>1, DeadlineStill, Compose DEF apply_payload, IsActive
<1>6. CASE kind = "IntentionalWait"
  BY <1>6, IntentionalWaitCarried DEF apply_payload
<1>7. CASE kind = "Compatibility"
  BY <1>7, CompatibilityStill, Compose DEF apply_payload, PayloadArgs, IsActive
<1>8. CASE kind = "CompatibilityResolved"
  <2>1. "Versioned" \in Warnings
    BY DEF Warnings
  <2>2. QED
    BY <1>8, <2>1, CompatibilityStill, Compose DEF apply_payload, IsActive
<1>9. CASE kind \in {"SourceConflict", "SourceConflictResolved"}
  BY <1>9, ConflictCarried DEF apply_payload, IsActive
<1>10. CASE kind = "SchedulerTick"
  BY <1>10, Compose DEF apply_payload, IsActive
<1>11. QED
  BY <1>1, <1>2, <1>3, <1>4, <1>5, <1>6, <1>7, <1>8, <1>9, <1>10 DEF PayloadKinds

\* One observation: what a superseded one leaves, and what another one does.
LEMMA ObservationCarried ==
    ASSUME NEW s, Sound(s), NEW o, o.id \in Nat, o.at \in TimePoint,
           o.kind \in PayloadKinds, o.arg \in PayloadArgs(o.kind), o.trusted \in BOOLEAN
    PROVE  LET r == reduce_observation(s, o)
               t == o.at.mono
           IN  /\ MarksFrom(s, r, t) /\ MeterKept(s, r, t)
               /\ Superseded(s, o) => r = Fresh(s)
               /\ ~Superseded(s, o) => r.last_mono = t
               /\ ~Superseded(s, o) /\ o.trusted /\ IsActive(o.kind, o.arg)
                  => Restarted(s, r, t)
<1> DEFINE t == o.at.mono
           f == Fresh(s)
           p == Stamped(f, o)
           g == Trusted(f, o)
           r == reduce_observation(s, o)
<1>1. Sound(f) /\ Still(s, f, t) /\ (Superseded(f, o) <=> Superseded(s, o))
  <2>1. f.last_id = s.last_id /\ f.last_mono = s.last_mono
    BY DEF Fresh, Sound, Snapshot
  <2>2. Sound(f) /\ Still(s, f, t)
    BY FreshSound, FieldStill DEF Fresh
  <2> HIDE DEF f
  <2>3. QED
    BY <2>1, <2>2 DEF Superseded
<1>2. r = IF Superseded(f, o) THEN f
          ELSE IF ~o.trusted THEN p
          ELSE apply_payload(g, o.kind, o.arg, o.at)
  BY DEF reduce_observation, apply_observation
<1> HIDE DEF r, f
<1>3. /\ p.pause_started = f.pause_started /\ p.last_activity = f.last_activity
      /\ p.paused_elapsed = f.paused_elapsed /\ p.last_mono = t
      /\ p.state = f.state /\ p.stalled_since = f.stalled_since
      /\ p.last_reminder = f.last_reminder
  BY <1>1 DEF Stamped, Sound, Snapshot
<1>4. Sound(p)
  <2>1. p \in Snapshot
    BY <1>1, ZenonT(40) DEF Sound, Snapshot, Stamped, TimePoint, Time, OptTime
  <2>2. Marks(p) /\ Memo(p)
    BY <1>1 DEF Sound, Snapshot, Stamped, Marks, Memo
  <2>3. QED
    BY <2>1, <2>2 DEF Sound
<1>5. MarksFrom(s, p, t) /\ MeterKept(s, p, t) /\ (s.state = "Stalled" <=> p.state = "Stalled")
      /\ p.stalled_since = s.stalled_since /\ p.last_reminder = s.last_reminder
  <2> HIDE DEF p, t
  <2>1. MeterKept(f, p, t)
    BY <1>3, MeterSame
  <2>2. MeterKept(s, p, t)
    BY <1>1, <2>1 DEF Still, MeterKept
  <2>3. QED
    BY <1>1, <1>3, <2>2 DEF Still, MarksFrom
<1>6. g = p \/ g = [p EXCEPT !.reconciliation_required = FALSE]
  BY DEF Trusted
<1> HIDE DEF p, g
<1>7. Sound(g) /\ Still(p, g, t)
  <2>1. Sound([p EXCEPT !.reconciliation_required = FALSE])
    BY <1>4, ZenonT(40) DEF Sound, Snapshot, Marks, Memo
  <2>2. Still(p, [p EXCEPT !.reconciliation_required = FALSE], t)
    BY <1>4, FieldStill
  <2>3. Still(p, p, t)
    BY Compose
  <2>4. QED
    BY <1>4, <1>6, <2>1, <2>2, <2>3
<1>8. CASE Superseded(s, o)
  BY <1>1, <1>2, <1>8, Compose DEF Carried, r, f, t
<1>9. CASE ~Superseded(s, o) /\ ~o.trusted
  BY <1>1, <1>2, <1>3, <1>5, <1>9 DEF r, t
<1>10. CASE ~Superseded(s, o) /\ o.trusted
  <2> DEFINE q == apply_payload(g, o.kind, o.arg, o.at)
  <2>1. Carried(g, q, t) /\ (IsActive(o.kind, o.arg) => Restarted(g, q, t))
    BY <1>7, PayloadCarried
  <2>2. r = q
    BY <1>1, <1>2, <1>10
  <2> HIDE DEF q
  <2>3. Carried(p, q, t)
    BY <1>7, <2>1, Compose
  <2>4. MarksFrom(s, q, t) /\ MeterKept(s, q, t) /\ q.last_mono = t
    BY <1>3, <1>5, <2>3 DEF Carried, MarksFrom, MeterKept
  <2>5. IsActive(o.kind, o.arg) => Restarted(s, q, t)
    BY <1>5, <1>7, <2>1, RestartComposes DEF Still, MeterKept
  <2>6. QED
    BY <1>10, <2>2, <2>4, <2>5 DEF r, t
<1>11. QED
  BY <1>8, <1>9, <1>10

\* One tick: only the reminder's mark may move within a stall, with its event.
LEMMA TickCarried ==
    ASSUME NEW s, Sound(s), NEW now \in TimePoint
    PROVE  LET r == reduce_tick(s, now)
               t == now.mono
           IN  /\ \A u : MeterKept(s, r, u)
               /\ r.last_mono = s.last_mono
               /\ s.state = "Stalled" =>
                    /\ r.state = "Stalled" /\ r.stalled_since = s.stalled_since
                    /\ IF TimerRuns(s) /\ ReminderIsDue(s, now)
                       THEN r.last_reminder = t /\ "ReminderDue" \in r.events
                       ELSE /\ r.last_reminder = s.last_reminder
                            /\ r.events \cap {"AlertDue", "ReminderDue"} = {}
               /\ s.state # "Stalled" /\ r.state = "Stalled" =>
                    /\ TimerRuns(s) /\ StallDue(s, now)
                    /\ r.stalled_since = t /\ r.last_reminder = t
               /\ ~TimerRuns(s) => r = Fresh(s)
<1> DEFINE t == now.mono
           f == Fresh(s)
           h == [f EXCEPT !.suspect_emitted = TRUE]
           g == IF /\ uses_fallback(f)
                   /\ active_elapsed(f, now) >= SuspectAfter
                   /\ ~f.suspect_emitted
                THEN Emit(h, {"Suspect"})
                ELSE f
           r == reduce_tick(s, now)
<1>1. Sound(f) /\ \A u : Still(s, f, u)
  BY FreshSound, FieldStill DEF Fresh
<1>2. /\ TimerRuns(f) <=> TimerRuns(s)
      /\ ReminderIsDue(f, now) <=> ReminderIsDue(s, now)
      /\ StallDue(f, now) <=> StallDue(s, now)
  <2>1. /\ f.reconciliation_required = s.reconciliation_required
        /\ f.pause_started = s.pause_started /\ f.state = s.state
        /\ f.last_reminder = s.last_reminder /\ f.explicit_deadline = s.explicit_deadline
        /\ f.last_activity = s.last_activity /\ f.paused_elapsed = s.paused_elapsed
    BY DEF Fresh, Sound, Snapshot
  <2> HIDE DEF f
  <2>2. QED
    BY <2>1 DEF TimerRuns, timers_paused, ReminderIsDue, StallDue, deadline_expired,
       uses_fallback, active_elapsed
<1>3. r = IF ~TimerRuns(f) THEN f
          ELSE IF StallDue(f, now) /\ f.state # "Stalled"
          THEN Emit(transition(g, "Stalled", now), {"AlertDue"})
          ELSE IF f.state = "Stalled" /\ ReminderIsDue(f, now)
          THEN Emit([g EXCEPT !.last_reminder = t], {"ReminderDue"})
          ELSE g
  BY DEF reduce_tick, apply_tick
<1> HIDE DEF r, f
<1>4. Sound(h) /\ \A u : Still(f, h, u)
  <2>1. Sound(h)
    BY <1>1 DEF Sound, Snapshot, Marks, Memo
  <2>2. QED
    BY <1>1, <2>1, FieldStill
<1> HIDE DEF h
<1>5. Sound(g) /\ \A u : Still(s, g, u)
  <2>1. {"Suspect"} \in SUBSET EventKinds
    BY DEF EventKinds
  <2>2. \A u : Still(h, Emit(h, {"Suspect"}), u)
    BY <1>4, <2>1, EmitStill
  <2>3. Sound(Emit(h, {"Suspect"}))
    BY <1>4, <2>1, EmitSound
  <2>4. g = f \/ g = Emit(h, {"Suspect"})
    OBVIOUS
  <2> HIDE DEF g
  <2>5. QED
    BY <1>1, <1>4, <2>2, <2>3, <2>4, Compose
<1> HIDE DEF g
<1>6. g.state = s.state /\ f.state = s.state /\ g.stalled_since = s.stalled_since
      /\ g.last_reminder = s.last_reminder /\ g.last_mono = s.last_mono
      /\ f.stalled_since = s.stalled_since /\ f.last_mono = s.last_mono
      /\ f.last_reminder = s.last_reminder /\ \A u : MeterKept(s, g, u) /\ MeterKept(s, f, u)
  BY <1>1, <1>5 DEF Still
<1>12. f.events = {} /\ g.events \subseteq {"Suspect"}
  <2>1. f.events = {} /\ h.events = {}
    BY <1>1 DEF Fresh, Sound, Snapshot, f, h
  <2>2. Emit(h, {"Suspect"}).events = h.events \cup {"Suspect"}
    BY <1>4 DEF Emit, Sound, Snapshot
  <2>3. g = f \/ g = Emit(h, {"Suspect"})
    BY DEF g
  <2>4. QED
    BY <2>1, <2>2, <2>3
<1>7. CASE ~TimerRuns(s)
  BY <1>2, <1>3, <1>6, <1>7, <1>12 DEF r, f
<1>8. CASE TimerRuns(s) /\ StallDue(s, now) /\ s.state # "Stalled"
  <2> DEFINE m == transition(g, "Stalled", now)
  <2>1. Sound(m) /\ m.state = "Stalled" /\ Carried(g, m, t)
    BY <1>5, TransitionSound, TransitionCarried DEF DetailedState
  <2>2. /\ m.pause_started = g.pause_started /\ m.last_activity = g.last_activity
        /\ m.paused_elapsed = g.paused_elapsed
    BY <1>5 DEF transition, Sound, Snapshot
  <2>3. r = Emit(m, {"AlertDue"})
    BY <1>2, <1>3, <1>6, <1>8
  <2> HIDE DEF m
  <2>4. \A u : Still(m, r, u) /\ MeterKept(g, m, u)
    BY <2>1, <2>2, <2>3, EmitStill, MeterSame DEF EventKinds
  <2>5. r.state = "Stalled" /\ r.last_mono = s.last_mono /\ r.stalled_since = t
        /\ r.last_reminder = t /\ \A u : MeterKept(s, r, u)
    BY <1>6, <1>8, <2>1, <2>4 DEF Still, Carried, MarksFrom, MeterKept
  <2>6. QED
    BY <1>8, <2>5 DEF r, t
<1>9. CASE TimerRuns(s) /\ s.state = "Stalled" /\ ReminderIsDue(s, now)
  <2> DEFINE k == [g EXCEPT !.last_reminder = t]
  <2>1. /\ k.pause_started = g.pause_started /\ k.last_activity = g.last_activity
        /\ k.paused_elapsed = g.paused_elapsed /\ k.last_mono = g.last_mono
        /\ k.state = g.state /\ k.stalled_since = g.stalled_since /\ k.last_reminder = t
    BY <1>5 DEF Sound, Snapshot
  <2>3. r = Emit(k, {"ReminderDue"})
    BY <1>2, <1>3, <1>6, <1>9
  <2>4. /\ r.pause_started = k.pause_started /\ r.last_activity = k.last_activity
        /\ r.paused_elapsed = k.paused_elapsed /\ r.last_mono = k.last_mono
        /\ r.state = k.state /\ r.stalled_since = k.stalled_since
        /\ r.last_reminder = k.last_reminder /\ "ReminderDue" \in r.events
    BY <1>5, <2>3 DEF Emit, Sound, Snapshot
  <2> HIDE DEF k
  <2>5. \A u : MeterKept(g, r, u)
    BY <2>1, <2>4, MeterSame
  <2>6. \A u : MeterKept(s, r, u)
    BY <1>6, <2>5 DEF MeterKept
  <2>7. QED
    BY <1>6, <1>9, <2>1, <2>4, <2>6 DEF r, t
<1>10. CASE /\ TimerRuns(s) /\ ~(StallDue(s, now) /\ s.state # "Stalled")
            /\ ~(s.state = "Stalled" /\ ReminderIsDue(s, now))
  <2>1. r = g
    BY <1>2, <1>3, <1>6, <1>10
  <2>2. QED
    BY <1>6, <1>10, <1>12, <2>1 DEF r, t
<1>11. QED
  BY <1>7, <1>8, <1>9, <1>10

\* What says nothing of the session leaves its gate up and announces nothing.
LEMMA UnvouchedQuiet ==
    ASSUME NEW s, Sound(s), s.reconciliation_required, NEW o, o.id \in Nat,
           o.at \in TimePoint, o.kind \in PayloadKinds, o.arg \in PayloadArgs(o.kind),
           \/ Superseded(s, o) \/ ~o.trusted
           \/ o.kind \in {"Compatibility", "CompatibilityResolved"}
    PROVE  /\ reduce_observation(s, o).reconciliation_required
           /\ reduce_observation(s, o).events \subseteq {"CompatibilityChanged"}
<1> DEFINE f == Fresh(s)
           p == Stamped(f, o)
           r == reduce_observation(s, o)
<1>1. Sound(f) /\ f.reconciliation_required /\ f.events = {}
      /\ f.last_id = s.last_id /\ f.last_mono = s.last_mono
  BY FreshSound DEF Fresh, Sound, Snapshot
<1>2. r = IF Superseded(f, o) THEN f
          ELSE IF ~o.trusted THEN p
          ELSE apply_payload(Trusted(f, o), o.kind, o.arg, o.at)
  BY DEF reduce_observation, apply_observation
<1>3. Superseded(f, o) <=> Superseded(s, o)
  BY <1>1 DEF Superseded
<1> HIDE DEF r, f
<1>4. p \in Snapshot /\ p.reconciliation_required /\ p.events = {}
  <2>1. p \in Snapshot
    BY <1>1, ZenonT(40) DEF Stamped, Sound, Snapshot, TimePoint, Time, OptTime
  <2>2. p.reconciliation_required = f.reconciliation_required /\ p.events = f.events
    BY <1>1 DEF Stamped, Sound, Snapshot
  <2>3. QED
    BY <1>1, <2>1, <2>2
<1> HIDE DEF p
<1>5. CASE Superseded(s, o) \/ ~o.trusted
  BY <1>1, <1>2, <1>3, <1>4, <1>5 DEF r
<1>6. CASE ~Superseded(s, o) /\ o.trusted
  <2>1. Trusted(f, o) = p
    BY <1>6 DEF Trusted, observation_clears_reconciliation, p
  <2>2. r = apply_compatibility_warning(p, o.arg) \/ r = apply_compatibility_resolved(p)
    BY <1>2, <1>3, <1>6, <2>1 DEF apply_payload
  <2>3. QED
    BY <1>4, <2>2, ZenonT(40) DEF apply_compatibility_warning, apply_compatibility_resolved, Emit, Snapshot, r
<1>7. QED
  BY <1>5, <1>6

\* A reduction that announces nothing new.
Alerts == {"AlertDue", "ReminderDue"}
Calm(s, r) == r.events \cap Alerts \subseteq s.events

\* The helpers announce nothing of their own.
LEMMA HelpersCalm ==
    ASSUME NEW s, Sound(s), NEW now \in TimePoint, NEW state \in DetailedState
    PROVE  /\ Calm(s, pause_clock(s, now)) /\ Calm(s, resume_clock(s, now))
           /\ Calm(s, Rebase(s, now)) /\ Calm(s, transition(s, state, now))
           /\ \A kinds \in SUBSET (EventKinds \ Alerts) : Calm(s, Emit(s, kinds))
<1>1. /\ pause_clock(s, now).events = s.events /\ resume_clock(s, now).events = s.events
      /\ Rebase(s, now).events = s.events
  BY DEF Sound, Snapshot, pause_clock, resume_clock, Rebase
<1>2. transition(s, state, now).events \subseteq s.events \cup {"StateChanged"}
  BY DEF Sound, Snapshot, transition
<1>3. \A kinds \in SUBSET (EventKinds \ Alerts) : Emit(s, kinds).events = s.events \cup kinds
  BY DEF Sound, Snapshot, Emit
<1>4. QED
  BY <1>1, <1>2, <1>3 DEF Calm, Alerts

\* Only a native state that differs is announced.
LEMMA PayloadCalm ==
    ASSUME NEW s, Sound(s), NEW kind \in PayloadKinds,
           NEW arg \in PayloadArgs(kind), NEW now \in TimePoint,
           kind = "NativeState" => s.state = arg
    PROVE  Calm(s, apply_payload(s, kind, arg, now))
<1> DEFINE Quiet == SUBSET (EventKinds \ Alerts)
<1>1. /\ {"DeadlineChanged"} \in Quiet /\ {"CompatibilityChanged"} \in Quiet
      /\ {"ConflictRaised"} \in Quiet /\ {"ConflictCleared"} \in Quiet
  BY DEF EventKinds, Alerts
<1> HIDE DEF Quiet
<1>2. ASSUME NEW r, Sound(r), Calm(s, r), NEW kinds \in Quiet PROVE Calm(s, Emit(r, kinds))
  <2>1. Calm(r, Emit(r, kinds))
    BY <1>2 DEF Quiet, Emit, Calm, Alerts, Sound, Snapshot
  <2>2. QED
    BY <1>2, <2>1 DEF Calm
<1>3. ASSUME NEW r, Sound(r), Calm(s, r), NEW state \in DetailedState
      PROVE  Calm(s, transition(r, state, now))
  <2>1. Calm(r, transition(r, state, now))
    BY <1>3, HelpersCalm
  <2>2. QED
    BY <1>3, <2>1 DEF Calm
<1>4. ASSUME NEW r, r.events = s.events PROVE Calm(s, r)
  BY <1>4 DEF Calm
<1>5. CASE kind = "NativeState"
  <2>1. arg \in DetailedState /\ s.state = arg
    BY <1>5 DEF PayloadArgs
  <2>2. apply_payload(s, kind, arg, now) = apply_native_state(s, arg, now)
    BY <1>5 DEF apply_payload
  <2>3. apply_native_state(s, arg, now) =
          IF arg \in ActivityStates THEN Rebase(s, now) ELSE s
    BY <2>1 DEF apply_native_state, transition
  <2>4. Rebase(s, now).events = s.events
    BY DEF Rebase, Sound, Snapshot
  <2>5. QED
    BY <1>4, <2>2, <2>3, <2>4
<1>6. CASE kind = "Progress"
  <2> DEFINE c == resume_clock(s, now)
             m == IF s.state \in ResumableStates THEN transition(c, "Running", now) ELSE s
             b == Rebase(m, now)
  <2>1. Sound(c) /\ Calm(s, c)
    <3>1. "Running" \in DetailedState
      BY DEF DetailedState
    <3>2. QED
      BY <3>1, ResumeSound, HelpersCalm
  <2> HIDE DEF c
  <2>2. Sound(m) /\ Calm(s, m) /\ m.state # "Stalled"
    <3>1. CASE s.state \in ResumableStates
      BY <1>3, <2>1, <3>1, TransitionSound DEF DetailedState
    <3>2. CASE s.state \notin ResumableStates
      BY <1>4, <3>2 DEF ResumableStates
    <3>3. QED
      BY <3>1, <3>2
  <2>3. apply_payload(s, kind, arg, now) = record_activity(m, now)
    BY <1>6 DEF apply_payload, apply_progress, c
  <2> HIDE DEF m
  <2>4. record_activity(m, now) = [b EXCEPT !.stalled_since = NoTime, !.last_reminder = NoTime]
    BY <2>2 DEF record_activity
  <2>5. Sound(b) /\ b.events = m.events
    BY <2>2, RebaseSound DEF Rebase, Sound, Snapshot
  <2> HIDE DEF b
  <2>6. record_activity(m, now).events = m.events
    BY <2>4, <2>5 DEF Sound, Snapshot
  <2>7. QED
    BY <2>2, <2>3, <2>6 DEF Calm
<1>7. CASE kind \in {"ProcessIdentity", "SchedulerTick"}
  <2>1. [s EXCEPT !.process = arg].events = s.events
    BY DEF Sound, Snapshot
  <2>2. QED
    BY <1>4, <1>7, <2>1 DEF apply_payload, apply_process_identity
<1>8. CASE kind \in {"DeadlineSet", "DeadlinePause", "DeadlineResume", "DeadlineClear"}
  <2>1. ASSUME NEW v \in OptTime
        PROVE  /\ Sound([s EXCEPT !.explicit_deadline = v])
               /\ [s EXCEPT !.explicit_deadline = v].events = s.events
    BY DEF Sound, Snapshot, Marks, Memo
  <2>2. "Running" \in DetailedState /\ NoTime \in OptTime /\ (kind = "DeadlineSet" => arg \in OptTime)
    BY DEF DetailedState, OptTime, PayloadArgs, Time
  <2>3. /\ Sound(pause_clock(s, now)) /\ Calm(s, pause_clock(s, now))
        /\ Sound(resume_clock(s, now)) /\ Calm(s, resume_clock(s, now))
    BY <2>2, PauseSound, ResumeSound, HelpersCalm
  <2>4. /\ Calm(s, apply_deadline_pause(s, now)) /\ Calm(s, apply_deadline_resume(s, now))
        /\ Calm(s, apply_deadline_clear(s))
        /\ kind = "DeadlineSet" => Calm(s, apply_deadline_set(s, arg))
    BY <1>1, <1>2, <1>4, <2>1, <2>2, <2>3
    DEF apply_deadline_pause, apply_deadline_resume, apply_deadline_clear, apply_deadline_set
  <2>5. QED
    BY <1>8, <2>4 DEF apply_payload
<1>9. CASE kind = "IntentionalWait"
  <2> DEFINE m == transition(s, "WaitingForAgent", now)
             b == Rebase(m, now)
             q == [b EXCEPT !.pause_started = now.mono]
  <2>1. Sound(m) /\ Calm(s, m)
    BY <1>3, <1>4, TransitionSound DEF DetailedState
  <2>2. Sound(b) /\ b.events = m.events
    BY <2>1, RebaseSound, ZenonT(40) DEF Rebase, Sound, Snapshot
  <2> HIDE DEF m
  <2> HIDE DEF b
  <2>3. Sound(q) /\ q.events = b.events
    BY <2>2 DEF Sound, Snapshot, Marks, Memo, TimePoint, Time, OptTime
  <2>4. apply_payload(s, kind, arg, now) = Emit(q, {"DeadlineChanged"})
    BY <1>9 DEF apply_payload, apply_intentional_wait, m, b
  <2> HIDE DEF q
  <2>5. QED
    BY <1>1, <1>2, <2>1, <2>2, <2>3, <2>4 DEF Calm
<1>10. CASE kind \in {"Compatibility", "CompatibilityResolved"}
  <2>1. ASSUME NEW v \in Warnings \cup {None}
        PROVE  Sound([s EXCEPT !.warning = v]) /\ [s EXCEPT !.warning = v].events = s.events
    BY DEF Sound, Snapshot, Marks, Memo
  <2>2. kind = "Compatibility" => arg \in Warnings
    BY DEF PayloadArgs
  <2>3. /\ kind = "Compatibility" => Calm(s, apply_compatibility_warning(s, arg))
        /\ Calm(s, apply_compatibility_resolved(s))
    BY <1>1, <1>2, <1>4, <2>1, <2>2 DEF apply_compatibility_warning, apply_compatibility_resolved
  <2>4. QED
    BY <1>10, <2>3 DEF apply_payload
<1>11. CASE kind \in {"SourceConflict", "SourceConflictResolved"}
  <2> DEFINE l == [s EXCEPT !.source_conflict = TRUE, !.state_before_conflict = s.state]
             latched == IF s.source_conflict THEN s ELSE Emit(l, {"ConflictRaised"})
             c == [s EXCEPT !.source_conflict = FALSE, !.state_before_conflict = None]
             memo == IF s.state_before_conflict = None THEN "Unknown" ELSE s.state_before_conflict
             opened == Emit(c, {"ConflictCleared"})
  <2>1. Sound(l) /\ Sound(c) /\ memo \in DetailedState
    <3>1. l \in Snapshot /\ Marks(l) /\ c \in Snapshot /\ Marks(c)
      BY DEF Sound, Snapshot, Marks
    <3>2. Memo(l) /\ Memo(c)
      BY DEF Sound, Snapshot, Memo, DetailedState, None
    <3>3. memo \in DetailedState
      BY DEF Sound, Snapshot, DetailedState
    <3>4. QED
      BY <3>1, <3>2, <3>3 DEF Sound
  <2>2. l.events = s.events /\ c.events = s.events
    BY DEF Sound, Snapshot
  <2> HIDE DEF l, c, memo
  <2>3. Sound(latched) /\ Calm(s, latched) /\ Sound(opened) /\ Calm(s, opened)
    BY <1>1, <1>2, <1>4, <2>1, <2>2, EmitSound DEF EventKinds
  <2>4. /\ apply_source_conflict(s, now) = transition(latched, "Unknown", now)
        /\ apply_source_conflict_resolved(s, now) \in
               {s, opened, transition(opened, memo, now)}
    BY DEF apply_source_conflict, apply_source_conflict_resolved, l, c, memo
  <2> HIDE DEF latched, opened
  <2>5. /\ Calm(s, transition(latched, "Unknown", now))
        /\ Calm(s, transition(opened, memo, now)) /\ Calm(s, s)
    BY <1>3, <1>4, <2>1, <2>3 DEF DetailedState
  <2>6. Calm(s, apply_source_conflict(s, now)) /\ Calm(s, apply_source_conflict_resolved(s, now))
    BY <2>3, <2>4, <2>5
  <2>7. QED
    BY <1>11, <2>6 DEF apply_payload
<1>12. QED
  BY <1>5, <1>6, <1>7, <1>8, <1>9, <1>10, <1>11 DEF PayloadKinds

\* An observation announces nothing of a stall that lasts.
LEMMA LastingStallCalm ==
    ASSUME NEW s, Sound(s), NEW o, o.id \in Nat, o.at \in TimePoint,
           o.kind \in PayloadKinds, o.arg \in PayloadArgs(o.kind), o.trusted \in BOOLEAN,
           s.state = "Stalled", reduce_observation(s, o).state = "Stalled"
    PROVE  reduce_observation(s, o).events \cap Alerts = {}
<1> DEFINE f == Fresh(s)
           p == Stamped(f, o)
           g == Trusted(f, o)
           r == reduce_observation(s, o)
<1>1. Sound(f) /\ f.events = {} /\ f.state = "Stalled"
  BY FreshSound DEF Fresh, Sound, Snapshot
<1>2. r = IF Superseded(f, o) THEN f
          ELSE IF ~o.trusted THEN p
          ELSE apply_payload(g, o.kind, o.arg, o.at)
  BY DEF reduce_observation, apply_observation
<1>3. r.state = "Stalled"
  OBVIOUS
<1> HIDE DEF r, f
<1>4. Sound(p)
  <2>1. p \in Snapshot
    BY <1>1, ZenonT(40) DEF Sound, Snapshot, Stamped, TimePoint, Time, OptTime
  <2>2. Marks(p) /\ Memo(p)
    BY <1>1 DEF Sound, Snapshot, Stamped, Marks, Memo
  <2>3. QED
    BY <2>1, <2>2 DEF Sound
<1>5. p.events = {} /\ p.state = "Stalled"
  BY <1>1 DEF Sound, Snapshot, Stamped
<1>6. g = p \/ g = [p EXCEPT !.reconciliation_required = FALSE]
  BY DEF Trusted
<1> HIDE DEF p, g
<1>7. Sound(g) /\ g.events = {} /\ g.state = "Stalled"
  <2> DEFINE q == [p EXCEPT !.reconciliation_required = FALSE]
  <2>1. Sound(q) /\ q.events = {} /\ q.state = "Stalled"
    BY <1>4, <1>5 DEF Sound, Snapshot, Marks, Memo
  <2> HIDE DEF q
  <2>2. g = p \/ g = q
    BY <1>6 DEF q
  <2>3. QED
    BY <1>4, <1>5, <2>1, <2>2
<1>8. CASE r = f \/ r = p
  BY <1>1, <1>5, <1>8 DEF r
<1>9. CASE r = apply_payload(g, o.kind, o.arg, o.at)
  <2>1. o.kind = "NativeState" => g.state = o.arg
    <3> SUFFICES ASSUME o.kind = "NativeState" PROVE g.state = o.arg
      OBVIOUS
    <3>1. o.arg \in DetailedState
      BY DEF PayloadArgs
    <3>2. r = apply_native_state(g, o.arg, o.at)
      BY <1>9 DEF apply_payload
    <3> DEFINE c == IF g.state = "WaitingForUser" /\ o.arg # "WaitingForUser"
                    THEN resume_clock(g, o.at)
                    ELSE IF g.state # "WaitingForUser" /\ o.arg = "WaitingForUser"
                    THEN pause_clock(g, o.at)
                    ELSE g
               m == transition(c, o.arg, o.at)
               b == IF o.arg \in ActivityStates THEN Rebase(m, o.at) ELSE m
    <3>3. r = IF g.state # o.arg /\ o.arg \in AlertedStates THEN Emit(b, {"AlertDue"}) ELSE b
      BY <3>2 DEF apply_native_state
    <3>4. Sound(c)
      BY <1>7, PauseSound, ResumeSound
    <3> HIDE DEF c
    <3>5. Sound(m) /\ m.state = o.arg
      BY <3>1, <3>4, TransitionSound
    <3> HIDE DEF m
    <3>6. Sound(b) /\ b.state = o.arg
      BY <3>5, RebaseSound
    <3> HIDE DEF b
    <3>7. r.state = o.arg
      BY <3>3, <3>6, EmitSound DEF EventKinds
    <3>8. QED
      BY <1>3, <1>7, <3>7
  <2>2. Calm(g, r)
    BY <1>7, <1>9, <2>1, PayloadCalm
  <2>3. QED
    BY <1>7, <2>2 DEF Calm, r
<1>10. QED
  BY <1>2, <1>8, <1>9

=============================================================================
