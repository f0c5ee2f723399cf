------------------------ MODULE TerminationSagaProofs ------------------------
(***************************************************************************)
(* The termination saga for every policy, grace and evidence, and any      *)
(* number of restarts, failures and stalls: a warning follows a stall of   *)
(* the configured length, signals follow the warning by the graces, and    *)
(* they reach only the process that was warned about.                      *)
(***************************************************************************)
EXTENDS MCTerminationSaga, SessionReducerProofs

\* A snapshot s in a stall k, in the epoch that began at b: the monotonic mark
\* is not older than the stall, although an earlier epoch may have set it.
StallOK(s, k, b) ==
    /\ Sound(s)
    /\ s.state = "Stalled" => k.begin \in Nat /\ k.begin <= b + s.stalled_since

\* A row of the saga, after the warning w and the signals sent: a stage that
\* may still act is about the warned process, and due no earlier than the graces.
RowOK(row, w, sent) ==
    /\ row.stage \in {"WarningGrace", "GracefulCancel", "Sigterm"} => row.process = w.process
    /\ w.at # NoTime =>
         /\ row.stage = "WarningGrace" =>
              row.next_action_at # NoTime /\ row.next_action_at >= w.at + warning_grace
         /\ row.stage = "GracefulCancel" =>
              /\ row.next_action_at # NoTime
              /\ row.next_action_at >= w.at + warning_grace + action_grace
         /\ row.stage = "Sigterm" =>
              /\ row.next_action_at # NoTime
              /\ \E t \in sent : t.kind = "Terminate" /\ row.next_action_at >= t.at + action_grace

\* A pass p of the epoch that began at b: it read a stall of the configured
\* length, and the row it is about to write is in order.
PassOK(p, b, row, w, sent) ==
    /\ p.at # "idle" => p.now.mono = p.now.wall - b
    /\ p.at = "act" /\ p.blockers = {} =>
         p.stall.begin \in Nat /\ p.now.wall - p.stall.begin >= TerminateAfter
    /\ p.at = "persist" => row # NoSaga /\ p.record # NoSaga /\ RowOK(p.record, w, sent)

\* What was sent after the warning w.
SentOK(w, sent) ==
    /\ \A s \in sent : s.to = w.process
    /\ w.at # NoTime =>
         \A s \in sent :
            \/ s.kind = "Terminate" /\ s.at >= w.at + warning_grace + action_grace
            \/ s.kind = "Kill" /\ \E t \in sent : t.kind = "Terminate" /\ s.at >= t.at + action_grace

SagaInv ==
    /\ TypeOK /\ StallOK(snap, stall, boot)
    /\ PassOK(pass, boot, saga, warned, signals)
    /\ RowOK(saga, warned, signals) /\ (saga = NoSaga => signals = {})
    /\ SentOK(warned, signals)

-----------------------------------------------------------------------------
(* The records.                                                            *)

\* A row may act only with a stage, and every stage is one.
LEMMA RowTypes ==
    /\ NoSaga \notin Saga
    /\ \A w, sent : RowOK(NoSaga, w, sent)
    /\ \A row \in Saga : \A w, sent : row.stage \in {"Completed", "Aborted", "Sigkill"}
                                        => RowOK(row, w, sent)
BY DEF NoSaga, Saga, TerminationStage, RowOK, None

\* An idle pass promises nothing.
LEMMA NoPassOK ==
    /\ NoPass \in Pass
    /\ \A b, row, w, sent : PassOK(NoPass, b, row, w, sent)
<1>1. NoPass \in Pass
  BY DEF NoPass, Pass, TimePoint, Time, DetailedState, NoStall, Stalls, OptTime, NoTime
<1>2. QED
  BY <1>1 DEF NoPass, PassOK

\* More signals leave a row in order.
LEMMA RowGrows ==
    ASSUME NEW row, NEW w, NEW sent, NEW more, sent \subseteq more, RowOK(row, w, sent)
    PROVE  RowOK(row, w, more)
BY DEF RowOK

\* The clock of the running server.
LEMMA NowType ==
    ASSUME TypeOK PROVE Now \in TimePoint /\ Now.wall = wall /\ Now.mono = wall - boot
BY DEF TypeOK, Now, TimePoint, Time

\* Forgetting the cursor and the events leaves a snapshot well formed.
LEMMA KeptSound ==
    ASSUME NEW s, Sound(s)
    PROVE  Sound(Kept(s)) /\ Kept(s).state = s.state /\ Kept(s).stalled_since = s.stalled_since
<1>1. Kept(s) \in Snapshot
  BY DEF Sound, Snapshot, Kept, OptTime, NoTime
<1>2. Marks(Kept(s)) /\ Memo(Kept(s)) /\ Kept(s).state = s.state
      /\ Kept(s).stalled_since = s.stalled_since
  BY DEF Sound, Snapshot, Kept, Marks, Memo
<1>3. QED
  BY <1>1, <1>2 DEF Sound

-----------------------------------------------------------------------------
(* The process a snapshot names.                                           *)

\* A snapshot r names the process s names.
Names(s, r) == "process" \in DOMAIN r /\ r.process = s.process

\* The helpers of the reducer leave the process.
LEMMA HelpersName ==
    ASSUME NEW s, NEW r, Names(s, r), NEW now, NEW state, NEW kinds
    PROVE  /\ Names(s, pause_clock(r, now)) /\ Names(s, resume_clock(r, now))
           /\ Names(s, Rebase(r, now)) /\ Names(s, transition(r, state, now))
           /\ Names(s, Emit(r, kinds))
<1>1. Names(s, pause_clock(r, now)) /\ Names(s, resume_clock(r, now)) /\ Names(s, Rebase(r, now))
  BY DEF Names, pause_clock, resume_clock, Rebase
<1>2. Names(s, transition(r, state, now)) /\ Names(s, Emit(r, kinds))
  BY DEF Names, transition, Emit
<1>3. QED
  BY <1>1, <1>2

\* Only a process identity names another process.
LEMMA PayloadNames ==
    ASSUME NEW s, Names(s, s), NEW kind \in PayloadKinds \ {"ProcessIdentity"}, NEW arg, NEW now
    PROVE  Names(s, apply_payload(s, kind, arg, now))
<1>1. CASE kind = "NativeState"
  <2> DEFINE clocked == IF s.state = "WaitingForUser" /\ arg # "WaitingForUser"
                        THEN resume_clock(s, now)
                        ELSE IF s.state # "WaitingForUser" /\ arg = "WaitingForUser"
                        THEN pause_clock(s, now)
                        ELSE s
             moved == transition(clocked, arg, now)
             based == IF arg \in ActivityStates THEN Rebase(moved, now) ELSE moved
  <2>1. Names(s, clocked)
    BY HelpersName
  <2> HIDE DEF clocked
  <2>2. Names(s, moved)
    BY <2>1, HelpersName
  <2> HIDE DEF moved
  <2>3. Names(s, based)
    BY <2>2, HelpersName
  <2>4. apply_payload(s, kind, arg, now) = IF s.state # arg /\ arg \in AlertedStates
                                           THEN Emit(based, {"AlertDue"}) ELSE based
    BY <1>1 DEF apply_payload, apply_native_state, based, moved, clocked
  <2> HIDE DEF based
  <2>5. QED
    BY <2>3, <2>4, HelpersName
<1>2. CASE kind = "Progress"
  <2> DEFINE m == IF s.state \in ResumableStates
                  THEN transition(resume_clock(s, now), "Running", now) ELSE s
             b == Rebase(m, now)
             cleared == [b EXCEPT !.stalled_since = NoTime, !.last_reminder = NoTime]
  <2>1. Names(s, m)
    BY HelpersName
  <2> HIDE DEF m
  <2>2. Names(s, b)
    BY <2>1, HelpersName
  <2> HIDE DEF b
  <2>3. Names(s, cleared)
    BY <2>2 DEF Names
  <2>4. apply_payload(s, kind, arg, now) = IF m.state = "Stalled"
                                           THEN transition(cleared, "Running", now) ELSE cleared
    BY <1>2 DEF apply_payload, apply_progress, record_activity, m, b
  <2> HIDE DEF cleared
  <2>5. QED
    BY <2>3, <2>4, HelpersName
<1>3. CASE kind \in {"DeadlineSet", "DeadlinePause", "DeadlineResume", "DeadlineClear"}
  <2>1. \A v : Names(s, [s EXCEPT !.explicit_deadline = v])
    BY DEF Names
  <2>2. /\ Names(s, apply_deadline_set(s, arg)) /\ Names(s, apply_deadline_pause(s, now))
        /\ Names(s, apply_deadline_resume(s, now)) /\ Names(s, apply_deadline_clear(s))
    BY <2>1, HelpersName
       DEF apply_deadline_set, apply_deadline_pause, apply_deadline_resume, apply_deadline_clear
  <2>3. QED
    BY <1>3, <2>2 DEF apply_payload
<1>4. CASE kind = "IntentionalWait"
  <2> DEFINE b == Rebase(transition(s, "WaitingForAgent", now), now)
             q == [b EXCEPT !.pause_started = now.mono]
  <2>1. Names(s, b)
    <3>1. Names(s, transition(s, "WaitingForAgent", now))
      BY HelpersName
    <3>2. QED
      BY <3>1, HelpersName
  <2> HIDE DEF b
  <2>2. Names(s, q)
    BY <2>1 DEF Names
  <2>3. apply_payload(s, kind, arg, now) = Emit(q, {"DeadlineChanged"})
    BY <1>4 DEF apply_payload, apply_intentional_wait, b
  <2> HIDE DEF q
  <2>4. QED
    BY <2>2, <2>3, HelpersName
<1>5. CASE kind \in {"Compatibility", "CompatibilityResolved"}
  <2>1. \A v : Names(s, [s EXCEPT !.warning = v])
    BY DEF Names
  <2>2. Names(s, apply_compatibility_warning(s, arg)) /\ Names(s, apply_compatibility_resolved(s))
    BY <2>1, HelpersName DEF apply_compatibility_warning, apply_compatibility_resolved
  <2>3. QED
    BY <1>5, <2>2 DEF apply_payload
<1>6. CASE kind \in {"SourceConflict", "SourceConflictResolved"}
  <2> DEFINE l == [s EXCEPT !.source_conflict = TRUE, !.state_before_conflict = s.state]
             latched == IF s.source_conflict THEN s ELSE Emit(l, {"ConflictRaised"})
             c == [s EXCEPT !.source_conflict = FALSE, !.state_before_conflict = None]
             memo == IF s.state_before_conflict = None THEN "Unknown" ELSE s.state_before_conflict
             opened == Emit(c, {"ConflictCleared"})
  <2>1. Names(s, l) /\ Names(s, c)
    BY DEF Names
  <2> HIDE DEF l, c, memo
  <2>2. Names(s, latched) /\ Names(s, opened)
    BY <2>1, HelpersName
  <2>3. /\ apply_source_conflict(s, now) = transition(latched, "Unknown", now)
        /\ apply_source_conflict_resolved(s, now) \in {s, opened, transition(opened, memo, now)}
    BY DEF apply_source_conflict, apply_source_conflict_resolved, l, c, memo
  <2> HIDE DEF latched, opened
  <2>4. Names(s, transition(latched, "Unknown", now)) /\ Names(s, transition(opened, memo, now))
    BY <2>2, HelpersName
  <2>5. QED
    BY <1>6, <2>2, <2>3, <2>4 DEF apply_payload
<1>7. CASE kind = "SchedulerTick"
  BY <1>7 DEF apply_payload
<1>8. QED
  BY <1>1, <1>2, <1>3, <1>4, <1>5, <1>6, <1>7 DEF PayloadKinds

\* A child keeps a process, whatever is observed of it.
LEMMA ObservationNames ==
    ASSUME NEW s, "process" \in DOMAIN s, s.process # None, NEW o, o.kind \in PayloadKinds,
           o.kind = "ProcessIdentity" => o.arg # None
    PROVE  Kept(reduce_observation(s, o)).process # None
<1> DEFINE f == Fresh(s)
           p == Stamped(f, o)
           g == Trusted(f, o)
           a == apply_payload(g, o.kind, o.arg, o.at)
           r == reduce_observation(s, o)
<1>1. Names(s, f)
  BY DEF Names, Fresh
<1>2. r = IF Superseded(f, o) THEN f ELSE IF ~o.trusted THEN p ELSE a
  BY DEF reduce_observation, apply_observation
<1> HIDE DEF r, f
<1>3. Names(s, p)
  BY <1>1 DEF Names, Stamped
<1>4. g = p \/ g = [p EXCEPT !.reconciliation_required = FALSE]
  BY DEF Trusted
<1> HIDE DEF p, g
<1>5. Names(s, g) /\ Names(g, g)
  BY <1>3, <1>4 DEF Names
<1>6. "process" \in DOMAIN a /\ a.process # None
  <2>1. CASE o.kind = "ProcessIdentity"
    <3>1. a = [g EXCEPT !.process = o.arg]
      BY <2>1 DEF apply_payload, apply_process_identity
    <3> HIDE DEF a
    <3>2. QED
      BY <1>5, <2>1, <3>1 DEF Names
  <2>2. CASE o.kind # "ProcessIdentity"
    <3>1. Names(g, a)
      BY <1>5, <2>2, PayloadNames
    <3> HIDE DEF a
    <3>2. QED
      BY <1>5, <3>1 DEF Names
  <2>3. QED
    BY <2>1, <2>2
<1> HIDE DEF a
<1>7. "process" \in DOMAIN r /\ r.process # None
  BY <1>1, <1>2, <1>3, <1>6 DEF Names
<1>8. QED
  BY <1>7 DEF Kept, r

\* So does a tick.
LEMMA TickNames ==
    ASSUME NEW s, "process" \in DOMAIN s, s.process # None, NEW now
    PROVE  Kept(reduce_tick(s, now)).process # None
<1> DEFINE f == Fresh(s)
           suspected == IF /\ uses_fallback(f)
                           /\ active_elapsed(f, now) >= SuspectAfter
                           /\ ~f.suspect_emitted
                        THEN Emit([f EXCEPT !.suspect_emitted = TRUE], {"Suspect"}) ELSE f
           r == reduce_tick(s, now)
<1>1. Names(s, f)
  BY DEF Names, Fresh
<1>2. r \in {f, suspected, Emit(transition(suspected, "Stalled", now), {"AlertDue"}),
             Emit([suspected EXCEPT !.last_reminder = now.mono], {"ReminderDue"})}
  BY DEF reduce_tick, apply_tick
<1> HIDE DEF r, f
<1>3. Names(s, suspected)
  <2>1. Names(s, [f EXCEPT !.suspect_emitted = TRUE])
    BY <1>1 DEF Names
  <2>2. QED
    BY <1>1, <2>1, HelpersName
<1> HIDE DEF suspected
<1>4. Names(s, transition(suspected, "Stalled", now)) /\ Names(s, [suspected EXCEPT !.last_reminder = now.mono])
  <2>1. Names(s, [suspected EXCEPT !.last_reminder = now.mono])
    BY <1>3 DEF Names
  <2>2. QED
    BY <1>3, <2>1, HelpersName
<1>5. Names(s, r)
  BY <1>1, <1>2, <1>3, <1>4, HelpersName
<1>6. QED
  BY <1>5 DEF Kept, Names, r

-----------------------------------------------------------------------------
(* The steps.                                                              *)

\* The child the server finds.
LEMMA InitSaga == Init => SagaInv
<1> SUFFICES ASSUME Init PROVE SagaInv
  OBVIOUS
<1> DEFINE n == NewSnapshot(Now)
           q == saga # NoSaga
<1>1. Now \in TimePoint /\ q \in BOOLEAN
  BY DEF Init, Now, TimePoint, Time
<1>2. n \in Snapshot /\ n.source_conflict = FALSE /\ n.state_before_conflict = None
  BY <1>1 DEF NewSnapshot, Snapshot, DetailedState, TimePoint, Time, OptTime, NoTime, None
<1>3. snap = [n EXCEPT !.state = "Stalled", !.stalled_since = 0, !.last_reminder = 0,
                       !.process = Child, !.reconciliation_required = q]
  BY DEF Init
<1> HIDE DEF n, q
<1>4. snap \in Snapshot
  <2>1. "Stalled" \in DetailedState /\ 0 \in OptTime /\ Child \in Processes \cup {None}
    BY SagaAssumption DEF DetailedState, OptTime
  <2>2. QED
    BY <1>1, <1>2, <1>3, <2>1 DEF Snapshot
<1>5. /\ snap.state = "Stalled" /\ snap.stalled_since = 0 /\ snap.last_reminder = 0
      /\ snap.source_conflict = FALSE /\ snap.state_before_conflict = None
  BY <1>2, <1>3 DEF Snapshot
<1>6. Sound(snap)
  BY <1>4, <1>5 DEF Sound, Marks, Memo, NoTime, None
<1>7. saga \in Saga \cup {NoSaga} /\ RowOK(saga, warned, signals)
  <2>1. CASE saga = NoSaga
    BY <2>1, RowTypes
  <2>2. CASE saga = LegacySaga
    <3>1. saga \in Saga
      BY <2>2, SagaAssumption
      DEF LegacySaga, Saga, TerminationStage, TerminationActionOutcome, OptTime, NoTime
    <3>2. warned.process = saga.process /\ warned.at = NoTime
      BY DEF Init
    <3>3. QED
      BY <3>1, <3>2 DEF RowOK
  <2>3. QED
    BY <2>1, <2>2 DEF Init
<1>8. warned \in [number : Nat, process : Processes \cup {None}, at : OptTime]
  <2>1. saga.process \in Processes \cup {None}
    BY SagaAssumption DEF Init, NoSaga, LegacySaga
  <2>2. QED
    BY <2>1 DEF Init, OptTime
<1>9. TypeOK
  <2>1. stall \in Stalls
    BY DEF Init, Stalls, OptTime
  <2>2. QED
    BY <1>4, <1>7, <1>8, <2>1, NoPassOK, SagaAssumption DEF Init, TypeOK, Time
<1>10. StallOK(snap, stall, boot)
  BY <1>5, <1>6 DEF Init, StallOK
<1>11. QED
  BY <1>7, <1>9, <1>10, NoPassOK DEF Init, SagaInv, SentOK

\* A step of the child's lane, with the stall it leaves.
LEMMA LaneKeeps ==
    ASSUME SagaInv, NEW r, Sound(r),
           r.state = "Stalled" => IF snap.state = "Stalled"
                                  THEN r.stalled_since = snap.stalled_since
                                  ELSE r.stalled_since = wall - boot,
           snap' = Kept(r), stall' = Follow(snap'),
           UNCHANGED <<wall, boot, restarts, failures, proc, env, pass, saga,
                       evaluated, warned, signals>>
    PROVE  SagaInv'
<1>1. Sound(snap') /\ snap'.state = r.state /\ snap'.stalled_since = r.stalled_since
  BY KeptSound
<1>2. wall \in Nat /\ boot \in Nat /\ stall \in Stalls /\ StallOK(snap, stall, boot)
  BY DEF SagaInv, TypeOK, Time
<1>3. /\ snap'.state # "Stalled" => stall' = [stall EXCEPT !.begin = NoTime]
      /\ snap'.state = "Stalled" /\ snap.state = "Stalled" => stall' = stall
      /\ snap'.state = "Stalled" /\ snap.state # "Stalled" =>
            stall' = [number |-> stall.number + 1, begin |-> wall]
  BY DEF Follow
<1>4. stall' \in Stalls
  BY <1>2, <1>3 DEF Stalls, OptTime, NoTime
<1>5. StallOK(snap', stall', boot)
  <2>1. CASE snap'.state # "Stalled"
    BY <1>1, <2>1 DEF StallOK
  <2>2. CASE snap'.state = "Stalled" /\ snap.state = "Stalled"
    BY <1>1, <1>2, <1>3, <2>2 DEF StallOK
  <2>3. CASE snap'.state = "Stalled" /\ snap.state # "Stalled"
    <3>1. stall'.begin = wall /\ snap'.stalled_since = wall - boot
      BY <1>1, <1>3, <2>3
    <3>2. wall <= boot + (wall - boot)
      BY <1>2
    <3>3. QED
      BY <1>1, <1>2, <3>1, <3>2 DEF StallOK
  <2>4. QED
    BY <2>1, <2>2, <2>3
<1>6. TypeOK'
  BY <1>1, <1>4 DEF SagaInv, TypeOK, Sound
<1>7. QED
  BY <1>5, <1>6 DEF SagaInv

\* What a step of the lane leaves: a snapshot of the reducer, whose mark is of
\* the stall it was in, or of now.
LaneStep(r) ==
    /\ Sound(r) /\ snap' = Kept(r)
    /\ r.state = "Stalled" => IF snap.state = "Stalled"
                              THEN r.stalled_since = snap.stalled_since
                              ELSE r.stalled_since = wall - boot
    /\ snap.process # None => snap'.process # None

\* Evidence about the child.
LEMMA EvidenceLane ==
    ASSUME SagaInv, Evidence PROVE \E r : LaneStep(r)
<1>1. PICK kind \in Kinds : \E arg \in Inputs(kind) : snap' = Observed(kind, arg)
  BY DEF Evidence
<1>2. PICK arg \in Inputs(kind) : snap' = Observed(kind, arg)
  BY <1>1
<1> DEFINE o == [id |-> 1, at |-> Now, trusted |-> TRUE, kind |-> kind, arg |-> arg]
           r == reduce_observation(snap, o)
<1>3. kind \in PayloadKinds
  BY SagaAssumption
<1>4. arg \in PayloadArgs(kind)
  BY SagaAssumption DEF Inputs, PayloadArgs
<1>5. /\ o.id \in Nat /\ o.at \in TimePoint /\ o.kind \in PayloadKinds
      /\ o.arg \in PayloadArgs(o.kind) /\ o.trusted \in BOOLEAN /\ o.at.mono = wall - boot
  BY <1>3, <1>4, NowType DEF SagaInv
<1>6. snap' = Kept(r)
  BY <1>2 DEF Observed
<1>7. o.kind = "ProcessIdentity" => o.arg # None
  BY <1>4, SagaAssumption DEF PayloadArgs
<1> HIDE DEF o
<1>8. Sound(snap) /\ "process" \in DOMAIN snap
  BY DEF SagaInv, StallOK, Sound, Snapshot
<1>9. Sound(r)
  BY <1>5, <1>8, ObservationSound
<1>10. r.state = "Stalled" => IF snap.state = "Stalled"
                              THEN r.stalled_since = snap.stalled_since
                              ELSE r.stalled_since = wall - boot
  BY <1>5, <1>8, ObservationCarried DEF MarksFrom
<1>11. snap.process # None => Kept(r).process # None
  BY <1>5, <1>7, <1>8, ObservationNames
<1> HIDE DEF r
<1>12. QED
  BY <1>6, <1>9, <1>10, <1>11 DEF LaneStep

\* Evidence keeps the invariant.
LEMMA EvidenceKeeps ==
    ASSUME SagaInv, Evidence PROVE SagaInv'
<1>1. PICK r : LaneStep(r)
  BY EvidenceLane
<1>2. QED
  BY <1>1, LaneKeeps DEF LaneStep, Evidence

\* A tick of the timers.
LEMMA TickLane ==
    ASSUME SagaInv, Tick PROVE \E r : LaneStep(r)
<1> DEFINE r == reduce_tick(snap, Now)
<1>1. Sound(snap) /\ Now \in TimePoint /\ Now.mono = wall - boot /\ "process" \in DOMAIN snap
  BY NowType DEF SagaInv, StallOK, Sound, Snapshot
<1>2. Sound(r)
  BY <1>1, TickSound
<1>3. r.state = "Stalled" =>
        IF snap.state = "Stalled" THEN r.stalled_since = snap.stalled_since
        ELSE r.stalled_since = wall - boot
  BY <1>1, TickCarried
<1>4. snap' = Kept(r)
  BY DEF Tick
<1>5. snap.process # None => Kept(r).process # None
  BY <1>1, TickNames
<1> HIDE DEF r
<1>6. QED
  BY <1>2, <1>3, <1>4, <1>5 DEF LaneStep

\* A tick keeps the invariant.
LEMMA TickKeeps ==
    ASSUME SagaInv, Tick PROVE SagaInv'
<1>1. PICK r : LaneStep(r)
  BY TickLane
<1>2. QED
  BY <1>1, LaneKeeps DEF LaneStep, Tick

\* A restart begins an epoch; the mark of the stall stays what it was.
LEMMA RestartKeeps ==
    ASSUME SagaInv, Restart PROVE SagaInv'
<1> DEFINE r == reduce_restarted(snap, [wall |-> wall, mono |-> 0])
<1>1. /\ [wall |-> wall, mono |-> 0] \in TimePoint /\ Sound(snap)
      /\ wall \in Nat /\ boot \in Nat /\ boot <= wall /\ restarts \in Nat
  BY DEF SagaInv, StallOK, TypeOK, TimePoint, Time
<1>2. Sound(r) /\ r.state = snap.state /\ r.stalled_since = snap.stalled_since
  BY <1>1, RestartedSound DEF reduce_restarted, Sound, Snapshot
<1>3. /\ snap' = Kept(r) /\ boot' = wall /\ restarts' = restarts + 1 /\ pass' = NoPass
      /\ evaluated' = wall
      /\ UNCHANGED <<wall, failures, proc, env, saga, stall, warned, signals>>
  BY DEF Restart
<1> HIDE DEF r
<1>4. Sound(snap') /\ snap'.state = snap.state /\ snap'.stalled_since = snap.stalled_since
  BY <1>2, <1>3, KeptSound
<1>5. StallOK(snap', stall', boot')
  <2>1. StallOK(snap, stall, boot) /\ (snap.state = "Stalled" => snap.stalled_since \in Nat)
    BY DEF SagaInv, StallOK, Sound, Snapshot, Marks, OptTime
  <2>2. QED
    BY <1>1, <1>3, <1>4, <2>1 DEF StallOK
<1>6. TypeOK'
  BY <1>1, <1>3, <1>4, NoPassOK DEF SagaInv, TypeOK, Sound, Time
<1>7. QED
  BY <1>3, <1>5, <1>6, NoPassOK DEF SagaInv

\* The adapter saw the session again.
LEMMA ReconcileKeeps ==
    ASSUME SagaInv, Reconcile PROVE SagaInv'
<1>1. Sound(snap)
  BY DEF SagaInv, StallOK
<1>2. Sound(snap') /\ snap'.state = snap.state /\ snap'.stalled_since = snap.stalled_since
  BY <1>1, ReconciledSound DEF Reconcile, reduce_reconciled, Sound, Snapshot
<1>3. StallOK(snap', stall', boot')
  BY <1>2 DEF SagaInv, StallOK, Reconcile
<1>4. TypeOK'
  BY <1>2 DEF SagaInv, TypeOK, Sound, Reconcile
<1>5. QED
  BY <1>3, <1>4 DEF SagaInv, Reconcile

\* What the process, the switches and time do.
LEMMA SurroundingsKeep ==
    ASSUME SagaInv,
           Exit \/ Reuse \/ (\E switch \in Toggles : Toggle(switch)) \/ Advance
    PROVE  SagaInv'
<1>1. /\ UNCHANGED <<snap, boot, restarts, failures, pass, saga, evaluated, stall, warned, signals>>
      /\ wall' = wall \/ wall' = wall + 1
  BY DEF Exit, Reuse, Toggle, Advance
<1>2. proc' \in Processes \cup {"gone"}
  BY DEF SagaInv, TypeOK, Exit, Reuse, Toggle, Advance
<1>3. env' \in SUBSET Switches
  BY SagaAssumption DEF SagaInv, TypeOK, Exit, Reuse, Toggle, Advance
<1>4. TypeOK'
  <2>1. wall' \in Time /\ boot' <= wall'
    BY <1>1 DEF SagaInv, TypeOK, Time
  <2>2. QED
    BY <1>1, <1>2, <1>3, <2>1 DEF SagaInv, TypeOK
<1>5. QED
  BY <1>1, <1>4 DEF SagaInv

\* A step of the pass before it decides.
LEMMA PassMoves ==
    ASSUME SagaInv, pass' \in Pass, evaluated' \in Time,
           PassOK(pass', boot, saga, warned, signals),
           UNCHANGED <<snap, wall, boot, restarts, failures, proc, env, saga,
                       stall, warned, signals>>
    PROVE  SagaInv'
<1>1. TypeOK'
  BY DEF SagaInv, TypeOK
<1>2. QED
  BY <1>1 DEF SagaInv

\* Collecting and gating a child: what the pass remembers is what the store and
\* the process table held.
LEMMA BeginPassKeeps ==
    ASSUME SagaInv, BeginPass PROVE SagaInv'
<1> DEFINE a == "trusted" \in env
           b == "automation" \in env
           c == "sigkill" \in env
           now == Now
<1>1. a \in BOOLEAN /\ b \in BOOLEAN /\ c \in BOOLEAN /\ now \in TimePoint
      /\ now.wall = wall /\ now.mono = wall - boot
  BY NowType DEF SagaInv
<1>2. pass' = [NoPass EXCEPT !.at = "read", !.now = now, !.trusted = a,
                             !.automation = b, !.sigkill = c]
  BY DEF BeginPass
<1> HIDE DEF a, b, c, now
<1>3. pass' \in Pass
  BY <1>1, <1>2, NoPassOK DEF Pass
<1>4. pass'.at = "read" /\ pass'.now = now
  BY <1>2, NoPassOK DEF Pass
<1>5. PassOK(pass', boot, saga, warned, signals)
  BY <1>1, <1>4 DEF PassOK
<1>6. QED
  BY <1>3, <1>5, PassMoves DEF BeginPass, SagaInv, TypeOK

\* A pass that finds no blocker has read a stall of the configured length.
LEMMA ReadFactsKeeps ==
    ASSUME SagaInv, ReadFacts PROVE SagaInv'
<1>1. PICK read \in Readings :
        LET f == IF read /\ proc = snap.process THEN proc ELSE None
        IN  pass' = [pass EXCEPT
                       !.at = "act", !.state = snap.state, !.stall = stall, !.fresh = f,
                       !.changed = read /\ proc \notin {"gone", snap.process},
                       !.exited = read /\ proc = "gone",
                       !.blockers = assess_termination(snap, pass.now, pass.trusted,
                                                       "healthy" \in env, f)]
  BY DEF ReadFacts
<1> DEFINE f == IF read /\ proc = snap.process THEN proc ELSE None
           x == read /\ proc \notin {"gone", snap.process}
           y == read /\ proc = "gone"
           set == assess_termination(snap, pass.now, pass.trusted, "healthy" \in env, f)
<1>2. /\ pass \in Pass /\ pass.at = "read" /\ snap \in Snapshot /\ stall \in Stalls
      /\ proc \in Processes \cup {"gone"} /\ snap.process \in Processes \cup {None}
      /\ pass.now \in TimePoint /\ snap.state \in DetailedState
      /\ wall \in Nat /\ boot \in Nat
  BY DEF SagaInv, TypeOK, ReadFacts, Pass, Snapshot, Time
<1>3. f \in Processes \cup {None} /\ x \in BOOLEAN /\ y \in BOOLEAN
  BY <1>2, SagaAssumption DEF None
<1>4. set \subseteq TerminationBlocker
  BY DEF assess_termination
<1>5. set = {} => stalled_long_enough(snap, pass.now)
  BY DEF assess_termination, TerminationBlocker
<1> HIDE DEF f, x, y, set
<1>6. pass' = [pass EXCEPT !.at = "act", !.state = snap.state, !.stall = stall, !.fresh = f,
                           !.changed = x, !.exited = y, !.blockers = set]
  BY <1>1 DEF f, x, y, set
<1>7. pass' \in Pass
  BY <1>2, <1>3, <1>4, <1>6 DEF Pass
<1>8. pass'.at = "act" /\ pass'.now = pass.now /\ pass'.stall = stall /\ pass'.blockers = set
  BY <1>2, <1>6 DEF Pass
<1>9. ASSUME set = {}
      PROVE  stall.begin \in Nat /\ pass.now.wall - stall.begin >= TerminateAfter
  <2>1. /\ snap.state = "Stalled" /\ snap.stalled_since # NoTime
        /\ saturating_sub(pass.now.mono, snap.stalled_since) >= TerminateAfter
    BY <1>5, <1>9 DEF stalled_long_enough
  <2>2. /\ pass.now.mono \in Nat /\ pass.now.wall \in Nat /\ snap.stalled_since \in Nat
        /\ TerminateAfter \in Nat \ {0} /\ pass.now.mono = pass.now.wall - boot
    BY <1>2, <2>1, SagaAssumption DEF TimePoint, Time, Snapshot, OptTime, SagaInv, PassOK
  <2>3. pass.now.mono - snap.stalled_since >= TerminateAfter
    BY <2>1, <2>2 DEF saturating_sub
  <2>4. stall.begin \in Nat /\ stall.begin <= boot + snap.stalled_since
    BY <2>1 DEF SagaInv, StallOK
  <2>5. QED
    BY <1>2, <2>2, <2>3, <2>4
<1>10. PassOK(pass', boot, saga, warned, signals)
  BY <1>2, <1>8, <1>9 DEF PassOK, SagaInv
<1>11. QED
  BY <1>2, <1>7, <1>10, PassMoves DEF ReadFacts, Time

\* What a decision starts from.
LEMMA DecisionFacts ==
    ASSUME SagaInv
    PROVE  /\ pass \in Pass /\ pass.fresh \in Processes \cup {None}
           /\ pass.now.wall \in Nat /\ pass.stall.number \in Nat
           /\ saga \in Saga \cup {NoSaga}
           /\ saga # NoSaga => saga \in Saga /\ saga.next_action_at \in OptTime
           /\ warned.at # NoTime => warned.at \in Nat
           /\ \A s \in signals : s.at \in Nat
           /\ warning_grace \in Nat /\ action_grace \in Nat
<1>1. pass \in Pass /\ saga \in Saga \cup {NoSaga}
  BY DEF SagaInv, TypeOK
<1>2. pass.now \in TimePoint /\ pass.stall \in Stalls /\ pass.fresh \in Processes \cup {None}
  BY <1>1 DEF Pass
<1>3. pass.now.wall \in Nat /\ pass.stall.number \in Nat
  BY <1>2 DEF TimePoint, Stalls, Time
<1>4. saga # NoSaga => saga \in Saga /\ saga.next_action_at \in OptTime
  BY <1>1 DEF Saga
<1>5. warned.at # NoTime => warned.at \in Nat
  BY DEF SagaInv, TypeOK, OptTime
<1>6. \A s \in signals : s.at \in Nat
  BY DEF SagaInv, TypeOK, Time
<1>7. QED
  BY <1>1, <1>2, <1>3, <1>4, <1>5, <1>6, SagaAssumption

\* The rows a pass writes.
LEMMA RowType ==
    ASSUME SagaInv, NEW stage \in TerminationStage, NEW next \in OptTime,
           NEW outcome \in TerminationActionOutcome
    PROVE  /\ Row(stage, next, outcome) \in Saga /\ Row(stage, next, outcome) # NoSaga
           /\ Row(stage, next, outcome).stage = stage
           /\ Row(stage, next, outcome).next_action_at = next
           /\ Row(stage, next, outcome).process = pass.fresh
<1>1. Row(stage, next, outcome) \in Saga
  BY DecisionFacts DEF Row, Saga
<1>2. QED
  BY <1>1, RowTypes DEF Row

\* A pass ends with a row in order.
LEMMA PersistKeeps ==
    ASSUME SagaInv, NEW row, EndPass(row), UNCHANGED warned, failures' \in Nat,
           \/ row = saga
           \/ row \in Saga /\ saga # NoSaga /\ RowOK(row, warned, signals)
    PROVE  SagaInv'
<1>1. /\ saga' = row /\ pass' = NoPass
      /\ UNCHANGED <<snap, wall, boot, restarts, proc, env, evaluated, stall, signals, warned>>
  BY DEF EndPass
<1>2. saga' \in Saga \cup {NoSaga} /\ RowOK(saga', warned, signals)
      /\ (saga' = NoSaga => signals = {})
  BY <1>1, RowTypes DEF SagaInv, TypeOK
<1>3. TypeOK'
  BY <1>1, <1>2, NoPassOK DEF SagaInv, TypeOK
<1>4. QED
  BY <1>1, <1>2, <1>3, NoPassOK DEF SagaInv

\* The rows that end the saga.
LEMMA EndingKeeps ==
    ASSUME SagaInv, FinishIfExited \/ Disable \/ IdentityChanged \/ HandleBlockers
    PROVE  SagaInv'
<1>1. PICK stage \in {"Completed", "Aborted"}, outcome \in TerminationActionOutcome :
        saga # NoSaga /\ Persist(Row(stage, NoTime, outcome))
  BY DEF FinishIfExited, Disable, IdentityChanged, HandleBlockers, Same, TerminationActionOutcome
<1> DEFINE row == Row(stage, NoTime, outcome)
<1>2. row \in Saga /\ row.stage = stage
  <2>1. stage \in TerminationStage /\ NoTime \in OptTime
    BY DEF TerminationStage, OptTime
  <2>2. QED
    BY <2>1, RowType
<1>3. RowOK(row, warned, signals)
  BY <1>2, RowTypes
<1> HIDE DEF row
<1>4. EndPass(row) /\ UNCHANGED <<failures, warned>> /\ saga # NoSaga
  BY <1>1 DEF Persist, row
<1>5. failures' \in Nat
  BY <1>4 DEF SagaInv, TypeOK
<1>6. QED
  BY <1>2, <1>3, <1>4, <1>5, PersistKeeps

\* The warning.
LEMMA StartKeeps ==
    ASSUME SagaInv, Start PROVE SagaInv'
<1> DEFINE next == pass.now.wall + warning_grace
           row == Row("WarningGrace", next, "WarningScheduled")
<1>1. next \in Nat /\ next \in OptTime /\ next # NoTime
  BY DecisionFacts DEF OptTime, NoTime
<1>2. row \in Saga /\ row # NoSaga /\ row.stage = "WarningGrace" /\ row.next_action_at = next
      /\ row.process = pass.fresh
  BY <1>1, RowType DEF TerminationStage, TerminationActionOutcome
<1>3. /\ saga' = row /\ pass' = NoPass /\ saga = NoSaga
      /\ warned' = [number |-> pass.stall.number, process |-> pass.fresh, at |-> pass.now.wall]
      /\ UNCHANGED <<snap, wall, boot, restarts, proc, env, evaluated, stall, signals, failures>>
  BY DEF Start, EndPass
<1> HIDE DEF row
<1>4. /\ warned' \in [number : Nat, process : Processes \cup {None}, at : OptTime]
      /\ warned'.process = pass.fresh /\ warned'.at = pass.now.wall
  BY <1>3, DecisionFacts DEF OptTime
<1>5. signals' = {}
  BY <1>3 DEF SagaInv
<1>6. RowOK(saga', warned', signals')
  BY <1>1, <1>2, <1>3, <1>4 DEF RowOK
<1>7. TypeOK'
  BY <1>2, <1>3, <1>4, NoPassOK DEF SagaInv, TypeOK
<1>8. StallOK(snap', stall', boot') /\ SentOK(warned', signals')
  BY <1>3, <1>5 DEF SagaInv, SentOK
<1>9. QED
  BY <1>3, <1>5, <1>6, <1>7, <1>8, NoPassOK DEF SagaInv

\* A due row that is not the legacy one carries its time.
LEMMA DueTime ==
    ASSUME SagaInv, Due, warned.at # NoTime
    PROVE  /\ saga \in Saga
           /\ saga.stage \in {"WarningGrace", "GracefulCancel", "Sigterm"} =>
                /\ saga.next_action_at \in Nat /\ pass.now.wall >= saga.next_action_at
                /\ pass.fresh = warned.process
<1>1. saga \in Saga /\ saga.next_action_at \in OptTime /\ saga.process = pass.fresh
  BY DecisionFacts DEF Due, Same, ProcessDiffers
<1>2. RowOK(saga, warned, signals)
  BY DEF SagaInv
<1>3. ASSUME saga.stage \in {"WarningGrace", "GracefulCancel", "Sigterm"}
      PROVE  saga.next_action_at # NoTime /\ saga.process = warned.process
  BY <1>2, <1>3 DEF RowOK
<1>4. QED
  BY <1>1, <1>3 DEF Due, IsDue, legacy_sigkill_opt_out, OptTime

\* The warning's grace has passed: the row moves to GracefulCancel.
LEMMA RequestGracefulKeeps ==
    ASSUME SagaInv, RequestGraceful PROVE SagaInv'
<1> DEFINE next == pass.now.wall + action_grace
           row == Row("GracefulCancel", next, "GracefulUnsupported")
<1>1. next \in Nat /\ next \in OptTime /\ next # NoTime
  BY DecisionFacts DEF OptTime, NoTime
<1>2. row \in Saga /\ row.stage = "GracefulCancel" /\ row.next_action_at = next
      /\ row.process = pass.fresh
  BY <1>1, RowType DEF TerminationStage, TerminationActionOutcome
<1>3. Due /\ saga.stage = "WarningGrace" /\ saga # NoSaga /\ saga.process = pass.fresh
  BY DEF RequestGraceful, Due, Same, ProcessDiffers
<1>4. EndPass(row) /\ UNCHANGED <<failures, warned>> /\ failures' \in Nat
  BY DEF RequestGraceful, Persist, SagaInv, TypeOK
<1> HIDE DEF row
<1>5. row.process = warned.process
  BY <1>2, <1>3 DEF SagaInv, RowOK
<1>6. ASSUME warned.at # NoTime PROVE next >= warned.at + warning_grace + action_grace
  <2>1. saga.next_action_at \in Nat /\ pass.now.wall >= saga.next_action_at
    BY <1>3, <1>6, DueTime
  <2>2. saga.next_action_at >= warned.at + warning_grace
    BY <1>3, <1>6 DEF SagaInv, RowOK
  <2>3. QED
    BY <1>6, <2>1, <2>2, DecisionFacts
<1> HIDE DEF next
<1>7. RowOK(row, warned, signals)
  BY <1>1, <1>2, <1>5, <1>6 DEF RowOK
<1>8. QED
  BY <1>2, <1>3, <1>4, <1>7, PersistKeeps

\* A row held at Sigterm because kills are off keeps its stage and its due time.
LEMMA NoteSigkillDisabledKeeps ==
    ASSUME SagaInv, NoteSigkillDisabled PROVE SagaInv'
<1> DEFINE row == Row("Sigterm", saga.next_action_at, "SigkillDisabled")
<1>1. saga.stage = "Sigterm" /\ saga # NoSaga /\ saga.process = pass.fresh
  BY DEF NoteSigkillDisabled, Due, Same, ProcessDiffers
<1>2. row \in Saga /\ row.stage = "Sigterm" /\ row.next_action_at = saga.next_action_at
      /\ row.process = pass.fresh
  <2>1. saga.next_action_at \in OptTime
    BY <1>1, DecisionFacts
  <2>2. QED
    BY <2>1, RowType DEF TerminationStage, TerminationActionOutcome
<1>3. EndPass(row) /\ UNCHANGED <<failures, warned>> /\ failures' \in Nat
  BY DEF NoteSigkillDisabled, Persist, SagaInv, TypeOK
<1> HIDE DEF row
<1>4. RowOK(row, warned, signals)
  BY <1>1, <1>2 DEF SagaInv, RowOK
<1>5. QED
  BY <1>1, <1>2, <1>3, <1>4, PersistKeeps

\* The passes that leave the row.
LEMMA LeavingKeeps ==
    ASSUME SagaInv, LeaveAlone \/ FailToPersist PROVE SagaInv'
<1>1. EndPass(saga) /\ UNCHANGED warned /\ (failures' = failures \/ failures' = failures + 1)
  BY DEF LeaveAlone, Persist, FailToPersist
<1>2. failures' \in Nat
  BY <1>1 DEF SagaInv, TypeOK
<1>3. QED
  BY <1>1, <1>2, PersistKeeps

\* The row of a delivered signal is persisted as the pass prepared it.
LEMMA PersistSignalKeeps ==
    ASSUME SagaInv, PersistSignal PROVE SagaInv'
<1>1. /\ pass.record \in Saga /\ saga # NoSaga /\ RowOK(pass.record, warned, signals)
  BY DEF PersistSignal, SagaInv, TypeOK, PassOK, Pass
<1>2. EndPass(pass.record) /\ UNCHANGED <<failures, warned>> /\ failures' \in Nat
  BY DEF PersistSignal, Persist, SagaInv, TypeOK
<1>3. QED
  BY <1>1, <1>2, PersistKeeps

\* A signal to the process that was read, or to none.
LEMMA DeliverKeeps ==
    ASSUME SagaInv, Due, NEW kind \in {"Terminate", "Kill"}, NEW row \in Saga,
           row # NoSaga, Deliver(kind, row),
           UNCHANGED <<snap, wall, boot, restarts, failures, env, saga,
                       evaluated, stall, warned>>,
           pass.fresh = warned.process,
           NEW sig, sig = [kind |-> kind, to |-> proc, number |-> pass.stall.number,
                           at |-> pass.now.wall],
           RowOK(row, warned, signals \cup {sig}),
           warned.at # NoTime =>
               \/ kind = "Terminate" /\ pass.now.wall >= warned.at + warning_grace + action_grace
               \/ kind = "Kill" /\ \E t \in signals :
                      t.kind = "Terminate" /\ pass.now.wall >= t.at + action_grace
    PROVE  SagaInv'
<1>1. saga # NoSaga /\ pass.at = "act" /\ pass \in Pass
  BY DecisionFacts DEF Due, Same, Enabled, Open
<1> DEFINE abort == Row("Aborted", NoTime, "SafetyAborted")
<1>2. abort \in Saga /\ abort # NoSaga /\ \A sent : RowOK(abort, warned, sent)
  <2>1. NoTime \in OptTime
    BY DEF OptTime
  <2>2. abort \in Saga /\ abort # NoSaga /\ abort.stage = "Aborted"
    BY <2>1, RowType DEF TerminationStage, TerminationActionOutcome
  <2>3. QED
    BY <2>2, RowTypes
<1>3. ASSUME NEW rec \in Saga, rec # NoSaga, NEW sent, RowOK(rec, warned, sent),
             pass' = [pass EXCEPT !.at = "persist", !.record = rec]
      PROVE  pass' \in Pass /\ PassOK(pass', boot, saga, warned, sent)
  <2>1. pass' \in Pass /\ pass'.at = "persist" /\ pass'.now = pass.now /\ pass'.record = rec
    BY <1>1, <1>3 DEF Pass
  <2>2. pass.now.mono = pass.now.wall - boot
    BY <1>1 DEF SagaInv, PassOK
  <2>3. QED
    BY <1>1, <1>3, <2>1, <2>2 DEF PassOK
<1> HIDE DEF abort
<1>4. CASE proc = pass.fresh
  <2>1. /\ signals' = signals \cup {sig} /\ proc' \in {proc, "gone"}
        /\ pass' = [pass EXCEPT !.at = "persist", !.record = row]
    BY <1>4 DEF Deliver
  <2>2. pass' \in Pass /\ PassOK(pass', boot, saga, warned, signals')
    BY <1>3, <2>1
  <2>3. proc \in Processes /\ sig.to = warned.process /\ sig.kind = kind /\ sig.at = pass.now.wall
    BY <1>4, DecisionFacts, SagaAssumption DEF SagaInv, TypeOK, None
  <2>4. sig \in [kind : {"Terminate", "Kill"}, to : Processes, number : Nat, at : Time]
    BY <2>3, DecisionFacts DEF Time
  <2>5. TypeOK'
    BY <2>1, <2>2, <2>4 DEF SagaInv, TypeOK
  <2>6. RowOK(saga, warned, signals')
    BY <2>1, RowGrows DEF SagaInv
  <2>7. SentOK(warned, signals')
    BY <2>1, <2>3 DEF SagaInv, SentOK
  <2>8. QED
    BY <1>1, <2>2, <2>5, <2>6, <2>7 DEF SagaInv
<1>5. CASE proc # pass.fresh
  <2>1. /\ UNCHANGED <<signals, proc>>
        /\ pass' = [pass EXCEPT !.at = "persist", !.record = abort]
    BY <1>5 DEF Deliver, abort
  <2>2. pass' \in Pass /\ PassOK(pass', boot, saga, warned, signals')
    BY <1>2, <1>3, <2>1
  <2>3. TypeOK'
    BY <2>1, <2>2 DEF SagaInv, TypeOK
  <2>4. QED
    BY <2>1, <2>2, <2>3 DEF SagaInv
<1>6. QED
  BY <1>4, <1>5

\* A terminate signal goes to the warned process after both graces.
LEMMA SendTerminateKeeps ==
    ASSUME SagaInv, SendTerminate PROVE SagaInv'
<1> DEFINE next == pass.now.wall + action_grace
           row == Row("Sigterm", next, "SignalSent")
           sig == [kind |-> "Terminate", to |-> proc, number |-> pass.stall.number,
                   at |-> pass.now.wall]
<1>1. Due /\ saga.stage = "GracefulCancel" /\ saga.process = pass.fresh /\ saga # NoSaga
  BY DEF SendTerminate, Due, Same, ProcessDiffers
<1>2. next \in Nat /\ next \in OptTime /\ next # NoTime
  BY DecisionFacts DEF OptTime, NoTime
<1>3. row \in Saga /\ row # NoSaga /\ row.stage = "Sigterm" /\ row.next_action_at = next
      /\ row.process = pass.fresh
  BY <1>2, RowType DEF TerminationStage, TerminationActionOutcome
<1>4. Deliver("Terminate", row)
  BY DEF SendTerminate
<1>5. pass.fresh = warned.process
  BY <1>1 DEF SagaInv, RowOK
<1>6. warned.at # NoTime => pass.now.wall >= warned.at + warning_grace + action_grace
  <2> SUFFICES ASSUME warned.at # NoTime
               PROVE  pass.now.wall >= warned.at + warning_grace + action_grace
    OBVIOUS
  <2>1. saga.next_action_at \in Nat /\ pass.now.wall >= saga.next_action_at
    BY <1>1, DueTime
  <2>2. saga.next_action_at >= warned.at + warning_grace + action_grace
    BY <1>1 DEF SagaInv, RowOK
  <2>3. QED
    BY <2>1, <2>2, DecisionFacts
<1> HIDE DEF row
<1>7. RowOK(row, warned, signals \cup {sig})
  <2>1. sig \in signals \cup {sig} /\ sig.kind = "Terminate" /\ next >= sig.at + action_grace
    BY <1>2, DecisionFacts
  <2> HIDE DEF sig, next
  <2>2. QED
    BY <1>2, <1>3, <1>5, <2>1 DEF RowOK
<1>8. QED
  BY <1>1, <1>3, <1>4, <1>5, <1>6, <1>7, DeliverKeeps DEF SendTerminate

\* A kill signal goes to the warned process, a grace after a terminate signal.
LEMMA SendKillKeeps ==
    ASSUME SagaInv, SendKill PROVE SagaInv'
<1> DEFINE row == Row("Sigkill", NoTime, "SignalSent")
           sig == [kind |-> "Kill", to |-> proc, number |-> pass.stall.number,
                   at |-> pass.now.wall]
<1>1. Due /\ saga.stage = "Sigterm" /\ saga.process = pass.fresh /\ saga # NoSaga
  BY DEF SendKill, Due, Same, ProcessDiffers
<1>2. NoTime \in OptTime
  BY DEF OptTime
<1>3. row \in Saga /\ row # NoSaga /\ row.stage = "Sigkill"
  BY <1>2, RowType DEF TerminationStage, TerminationActionOutcome
<1>4. Deliver("Kill", row)
  BY DEF SendKill
<1>5. pass.fresh = warned.process
  BY <1>1 DEF SagaInv, RowOK
<1>6. warned.at # NoTime => \E t \in signals : t.kind = "Terminate"
                                              /\ pass.now.wall >= t.at + action_grace
  <2> SUFFICES ASSUME warned.at # NoTime
               PROVE  \E t \in signals : t.kind = "Terminate"
                                         /\ pass.now.wall >= t.at + action_grace
    OBVIOUS
  <2>1. saga.next_action_at \in Nat /\ pass.now.wall >= saga.next_action_at
    BY <1>1, DueTime
  <2>2. PICK t \in signals : t.kind = "Terminate" /\ saga.next_action_at >= t.at + action_grace
    BY <1>1 DEF SagaInv, RowOK
  <2>3. pass.now.wall >= t.at + action_grace
    BY <2>1, <2>2, DecisionFacts
  <2>4. QED
    BY <2>2, <2>3
<1> HIDE DEF row
<1>7. RowOK(row, warned, signals \cup {sig})
  BY <1>3, RowTypes
<1>8. QED
  BY <1>1, <1>3, <1>4, <1>5, <1>6, <1>7, DeliverKeeps DEF SendKill

\* Every step keeps the invariant.
LEMMA SagaSteps ==
    ASSUME SagaInv, [Next]_vars PROVE SagaInv'
<1>1. CASE UNCHANGED vars
  BY <1>1 DEF vars, SagaInv, TypeOK
<1>2. CASE Monitor \/ FailToPersist
  BY <1>2, BeginPassKeeps, ReadFactsKeeps, EndingKeeps, StartKeeps, RequestGracefulKeeps,
     NoteSigkillDisabledKeeps, LeavingKeeps, SendTerminateKeeps, SendKillKeeps, PersistSignalKeeps
  DEF Monitor, Decide
<1>3. QED
  BY <1>1, <1>2, EvidenceKeeps, TickKeeps, RestartKeeps, ReconcileKeeps, SurroundingsKeep
  DEF Next

-----------------------------------------------------------------------------
(* The theorems.                                                           *)

\* The invariant of the saga: its row, its pass, the stall and what was sent.
THEOREM SagaInvariant == Spec => []SagaInv
<1>1. Init => SagaInv
  BY InitSaga
<1>2. SagaInv /\ [Next]_vars => SagaInv'
  BY SagaSteps
<1>3. QED
  BY <1>1, <1>2, PTL DEF Spec

\* Type correctness of the saga, its pass and the child's snapshot.
THEOREM SagaTypeCorrect == Spec => []TypeOK
<1>1. SagaInv => TypeOK
  BY DEF SagaInv
<1>2. QED
  BY <1>1, SagaInvariant, PTL

\* A signal only reaches the process the warning named, although PIDs are
\* reused and the session may report a new process (identity_changed,
\* open_verified).
THEOREM OnlyWarnedSignalled == Spec => []OnlyWarnedProcess
<1>1. SagaInv => OnlyWarnedProcess
  BY DEF SagaInv, SentOK, OnlyWarnedProcess
<1>2. QED
  BY <1>1, SagaInvariant, PTL

\* SIGTERM follows the warning by both graces and SIGKILL a SIGTERM by one,
\* across restarts and rows that failed to commit (advance_due, signal).
THEOREM GracesKept == Spec => []GraceRespected
<1>1. SagaInv => GraceRespected
  BY DEF SagaInv, SentOK, GraceRespected
<1>2. QED
  BY <1>1, SagaInvariant, PTL

\* The warning is scheduled only for a child that was stalled for TerminateAfter
\* by the wall clock, although the mark it is measured from may belong to an
\* earlier epoch of the monotonic clock (assess_termination).
THEOREM WarnedAfterStall == Spec => StalledBeforeWarning
<1>1. SagaInv /\ [Next]_vars =>
        [(saga = NoSaga /\ saga' # NoSaga)
         => /\ pass.stall.begin # NoTime
            /\ warned'.at - pass.stall.begin >= TerminateAfter]_vars
  <2> SUFFICES ASSUME SagaInv, [Next]_vars, saga = NoSaga, saga' # NoSaga
               PROVE  /\ pass.stall.begin # NoTime
                      /\ warned'.at - pass.stall.begin >= TerminateAfter
    OBVIOUS
  <2>1. CASE Start
    <3>1. pass.at = "act" /\ pass.blockers = {} /\ warned'.at = pass.now.wall
      BY <2>1 DEF Start, Enabled, Open
    <3>2. pass.stall.begin \in Nat /\ pass.now.wall - pass.stall.begin >= TerminateAfter
      BY <3>1 DEF SagaInv, PassOK
    <3>3. QED
      BY <3>1, <3>2 DEF NoTime
  <2>2. CASE PersistSignal
    BY <2>2 DEF PersistSignal, SagaInv, PassOK
  <2>3. CASE FinishIfExited \/ Disable \/ IdentityChanged \/ HandleBlockers \/ RequestGraceful
             \/ NoteSigkillDisabled
    BY <2>3 DEF FinishIfExited, Disable, IdentityChanged, HandleBlockers, RequestGraceful,
       NoteSigkillDisabled, Due, Same
  <2>4. CASE LeaveAlone \/ FailToPersist
    BY <2>4 DEF LeaveAlone, FailToPersist, Persist, EndPass
  <2>5. QED
    BY <2>1, <2>2, <2>3, <2>4 DEF Next, Monitor, Decide, Evidence, Tick, Restart, Reconcile,
       Exit, Reuse, Toggle, Advance, BeginPass, ReadFacts, SendTerminate, SendKill, vars
<1>2. QED
  BY <1>1, SagaInvariant, PTL DEF Spec, StalledBeforeWarning

-----------------------------------------------------------------------------
(* The rhythm of the passes: which stall a signal is about.                *)

\* A stall other than the one numbered k began after the last look, or in an
\* earlier epoch: its mark is not older than the look.
NewStall(k) == snap.state = "Stalled" /\ stall.number # k => boot + snap.stalled_since >= evaluated

\* A row whose stage may still lead to a signal.
Acting(row) == row.stage \in {"WarningGrace", "GracefulCancel", "Sigterm"}

\* The rhythm of the passes: none is later than PassEvery after the last look.
Rhythm ==
    /\ boot <= evaluated /\ evaluated <= wall /\ wall <= evaluated + PassEvery
    /\ pass.at # "idle" => pass.now.wall <= wall
    /\ snap.process # None

\* What a pass has read of the stall.
LookOK ==
    /\ pass.at \in {"act", "persist"} => NewStall(pass.stall.number)
    /\ ~blind /\ pass.at = "act" =>
          /\ pass.fresh # None \/ pass.changed \/ pass.exited
          /\ Acting(saga) => \/ pass.stall.number = warned.number
                             \/ "InsufficientStall" \in pass.blockers
    /\ ~blind /\ pass.at = "persist" => pass.stall.number = warned.number

\* Between two looks only a new stall can have taken the place of the warned one.
WarnedOK == ~blind /\ Acting(saga) /\ pass.at \in {"idle", "read"} => NewStall(warned.number)

RhythmInv == Rhythm /\ LookOK /\ WarnedOK /\ WarnedStallOrUnread

\* Whatever stall was or will be meant, a lane's step leaves its mark in order.
LEMMA LaneRhythm ==
    ASSUME SagaInv, RhythmInv, NEW r, LaneStep(r), stall' = Follow(snap'),
           UNCHANGED <<wall, boot, pass, saga, evaluated, warned, signals>>,
           ~blind' => ~blind
    PROVE  RhythmInv'
<1>1. snap'.state = r.state /\ snap'.stalled_since = r.stalled_since /\ snap'.process # None
  BY KeptSound DEF LaneStep, RhythmInv, Rhythm
<1>2. wall \in Nat /\ boot \in Nat /\ evaluated <= wall
  BY DEF SagaInv, TypeOK, Time, RhythmInv, Rhythm
<1>3. ASSUME NEW k, NewStall(k)
      PROVE  NewStall(k)'
  <2>1. CASE snap'.state = "Stalled" /\ snap.state = "Stalled"
    BY <1>1, <1>3, <2>1 DEF LaneStep, NewStall, Follow
  <2>2. CASE snap'.state = "Stalled" /\ snap.state # "Stalled"
    <3>1. snap'.stalled_since = wall - boot
      BY <1>1, <2>2 DEF LaneStep
    <3>2. boot + (wall - boot) >= evaluated
      BY <1>2 DEF SagaInv, TypeOK, Time
    <3>3. QED
      BY <3>1, <3>2 DEF NewStall
  <2>3. QED
    BY <2>1, <2>2 DEF NewStall
<1>4. Rhythm'
  BY <1>1 DEF RhythmInv, Rhythm
<1>5. LookOK'
  <2>1. pass.at \in {"act", "persist"} => NewStall(pass.stall.number)'
    BY <1>3 DEF RhythmInv, LookOK
  <2>2. QED
    BY <2>1 DEF RhythmInv, LookOK
<1>6. WarnedOK'
  BY <1>3 DEF RhythmInv, WarnedOK
<1>7. WarnedStallOrUnread'
  BY DEF RhythmInv, WarnedStallOrUnread, SignalsWarnedStall
<1>8. QED
  BY <1>4, <1>5, <1>6, <1>7 DEF RhythmInv

\* Evidence is a step of the lane.
LEMMA EvidenceRhythm ==
    ASSUME SagaInv, RhythmInv, Evidence, ~blind' => ~blind
    PROVE  RhythmInv'
<1>1. PICK r : LaneStep(r)
  BY EvidenceLane
<1>2. QED
  BY <1>1, LaneRhythm DEF Evidence

\* A tick is a step of the lane.
LEMMA TickRhythm ==
    ASSUME SagaInv, RhythmInv, Tick, ~blind' => ~blind
    PROVE  RhythmInv'
<1>1. PICK r : LaneStep(r)
  BY TickLane
<1>2. QED
  BY <1>1, LaneRhythm DEF Tick

\* Time, processes and switches move no stall; time stops before a pass is late.
LEMMA SurroundingsRhythm ==
    ASSUME SagaInv, RhythmInv, ~blind' => ~blind,
           Exit \/ Reuse \/ (\E switch \in Toggles : Toggle(switch)) \/ Advance
    PROVE  RhythmInv'
<1>1. UNCHANGED <<snap, boot, pass, saga, evaluated, stall, warned, signals>>
  BY DEF Exit, Reuse, Toggle, Advance
<1>2. wall' = wall \/ (wall' = wall + 1 /\ wall - evaluated < PassEvery)
  BY DEF Exit, Reuse, Toggle, Advance
<1>3. wall \in Nat /\ evaluated \in Nat /\ boot \in Nat /\ PassEvery \in Nat
  BY SagaAssumption DEF SagaInv, TypeOK, Time
<1>4. pass.at # "idle" => pass.now.wall \in Nat
  BY DecisionFacts
<1>5. Rhythm'
  BY <1>1, <1>2, <1>3, <1>4 DEF RhythmInv, Rhythm
<1>6. LookOK' /\ WarnedOK' /\ WarnedStallOrUnread'
  BY <1>1 DEF RhythmInv, LookOK, WarnedOK, NewStall, WarnedStallOrUnread, SignalsWarnedStall
<1>7. QED
  BY <1>5, <1>6 DEF RhythmInv

\* A restart begins an epoch: every mark is of it or of an earlier one.
LEMMA RestartRhythm ==
    ASSUME SagaInv, RhythmInv, ~blind' => ~blind, Restart
    PROVE  RhythmInv'
<1> DEFINE r == reduce_restarted(snap, [wall |-> wall, mono |-> 0])
<1>1. /\ Sound(snap) /\ wall \in Nat /\ PassEvery \in Nat
      /\ [wall |-> wall, mono |-> 0] \in TimePoint
  BY SagaAssumption DEF SagaInv, StallOK, TypeOK, TimePoint, Time
<1>2. r.state = snap.state /\ r.stalled_since = snap.stalled_since /\ r.process = snap.process
      /\ "process" \in DOMAIN r
  BY <1>1 DEF reduce_restarted, Sound, Snapshot
<1>3. Sound(r)
  BY <1>1, RestartedSound
<1>4. /\ snap' = Kept(r) /\ boot' = wall /\ pass' = NoPass /\ evaluated' = wall
      /\ UNCHANGED <<wall, saga, stall, warned, signals>>
  BY DEF Restart
<1> HIDE DEF r
<1>5. snap'.state = snap.state /\ snap'.stalled_since = snap.stalled_since
  BY <1>2, <1>3, <1>4, KeptSound
<1>6. snap'.process # None
  BY <1>2, <1>4 DEF Kept, RhythmInv, Rhythm
<1>7. \A k : NewStall(k)'
  <2>1. snap.state = "Stalled" => snap.stalled_since \in Nat
    BY <1>1 DEF Sound, Snapshot, Marks, OptTime
  <2>2. QED
    BY <1>1, <1>4, <1>5, <2>1 DEF NewStall
<1>8. Rhythm'
  BY <1>1, <1>4, <1>6 DEF Rhythm, NoPass
<1>9. LookOK' /\ WarnedOK' /\ WarnedStallOrUnread'
  BY <1>4, <1>7 DEF RhythmInv, LookOK, WarnedOK, WarnedStallOrUnread, SignalsWarnedStall, NoPass
<1>10. QED
  BY <1>8, <1>9 DEF RhythmInv

\* Seeing the session again changes no stall, and a pass begins with the time.
LEMMA BeginningsRhythm ==
    ASSUME SagaInv, RhythmInv, ~blind' => ~blind, Reconcile \/ BeginPass
    PROVE  RhythmInv'
<1>1. CASE Reconcile
  <2>1. /\ snap'.state = snap.state /\ snap'.stalled_since = snap.stalled_since
        /\ snap'.process = snap.process
    BY <1>1 DEF Reconcile, reduce_reconciled, SagaInv, StallOK, Sound, Snapshot
  <2>2. UNCHANGED <<wall, boot, pass, saga, evaluated, stall, warned, signals>>
    BY <1>1 DEF Reconcile
  <2>3. QED
    BY <2>1, <2>2 DEF RhythmInv, Rhythm, LookOK, WarnedOK, NewStall, WarnedStallOrUnread,
       SignalsWarnedStall
<1>2. CASE BeginPass
  <2> DEFINE a == "trusted" \in env
             b == "automation" \in env
             c == "sigkill" \in env
             now == Now
  <2>1. now.wall = wall
    BY DEF Now
  <2>2. pass' = [NoPass EXCEPT !.at = "read", !.now = now, !.trusted = a,
                               !.automation = b, !.sigkill = c]
        /\ pass.at = "idle"
    BY <1>2 DEF BeginPass
  <2> HIDE DEF a, b, c, now
  <2>3. pass'.at = "read" /\ pass'.now = now
    BY <2>2, NoPassOK DEF Pass
  <2>4. UNCHANGED <<snap, wall, boot, saga, evaluated, stall, warned, signals>>
    BY <1>2 DEF BeginPass
  <2>5. wall \in Nat
    BY DEF SagaInv, TypeOK, Time
  <2>6. QED
    BY <2>1, <2>2, <2>3, <2>4, <2>5
       DEF RhythmInv, Rhythm, LookOK, WarnedOK, NewStall, WarnedStallOrUnread, SignalsWarnedStall
<1>3. QED
  BY <1>1, <1>2

\* A look at the child: a stall it takes for another than the warned one has not
\* lasted, because it began after the look before.
LEMMA ReadFactsRhythm ==
    ASSUME SagaInv, RhythmInv, PassEvery < TerminateAfter, ReadFacts,
           ~blind' => ~blind /\ ~Unread
    PROVE  RhythmInv'
<1>1. PICK read \in Readings :
        LET f == IF read /\ proc = snap.process THEN proc ELSE None
        IN  pass' = [pass EXCEPT
                       !.at = "act", !.state = snap.state, !.stall = stall, !.fresh = f,
                       !.changed = read /\ proc \notin {"gone", snap.process},
                       !.exited = read /\ proc = "gone",
                       !.blockers = assess_termination(snap, pass.now, pass.trusted,
                                                       "healthy" \in env, f)]
  BY DEF ReadFacts
<1> DEFINE f == IF read /\ proc = snap.process THEN proc ELSE None
           x == read /\ proc \notin {"gone", snap.process}
           y == read /\ proc = "gone"
           set == assess_termination(snap, pass.now, pass.trusted, "healthy" \in env, f)
<1>2. /\ pass \in Pass /\ pass.at = "read" /\ pass.now \in TimePoint
      /\ wall \in Nat /\ boot \in Nat /\ evaluated \in Nat
      /\ UNCHANGED <<snap, wall, boot, saga, stall, warned, signals>> /\ evaluated' = wall
  BY DEF SagaInv, TypeOK, ReadFacts, Pass, Time
<1>3. stalled_long_enough(snap, pass.now) \/ "InsufficientStall" \in set
  BY DEF assess_termination, TerminationBlocker
<1> HIDE DEF f, x, y, set
<1>4. pass' = [pass EXCEPT !.at = "act", !.state = snap.state, !.stall = stall, !.fresh = f,
                           !.changed = x, !.exited = y, !.blockers = set]
  BY <1>1 DEF f, x, y, set
<1>5. /\ pass'.at = "act" /\ pass'.now = pass.now /\ pass'.stall = stall
      /\ pass'.blockers = set /\ pass'.fresh = f /\ pass'.changed = x /\ pass'.exited = y
  BY <1>2, <1>4 DEF Pass
<1>6. Rhythm'
  <2>1. PassEvery \in Nat
    BY SagaAssumption
  <2>2. QED
    BY <1>2, <1>5, <2>1 DEF RhythmInv, Rhythm
<1>7. NewStall(pass.stall.number)'
  BY <1>2, <1>5 DEF NewStall
<1>8. ASSUME ~blind'
      PROVE  pass'.fresh # None \/ pass'.changed \/ pass'.exited
  <2>1. snap.process # None
    BY DEF RhythmInv, Rhythm
  <2>2. QED
    BY <1>5, <1>8, <2>1 DEF Unread, f, x, y
<1>9. ASSUME ~blind', Acting(saga), stall.number # warned.number
      PROVE  "InsufficientStall" \in set
  <2>1. NewStall(warned.number)
    BY <1>2, <1>9 DEF RhythmInv, WarnedOK
  <2>2. SUFFICES ASSUME stalled_long_enough(snap, pass.now) PROVE FALSE
    BY <1>3
  <2>3. snap.state = "Stalled" /\ snap.stalled_since # NoTime
        /\ saturating_sub(pass.now.mono, snap.stalled_since) >= TerminateAfter
    BY <2>2 DEF stalled_long_enough
  <2>4. snap.stalled_since \in Nat
    BY <2>3 DEF SagaInv, TypeOK, Snapshot, OptTime
  <2>5. boot + snap.stalled_since >= evaluated
    BY <1>9, <2>1, <2>3 DEF NewStall
  <2>6. /\ pass.now.mono = pass.now.wall - boot /\ pass.now.mono \in Nat /\ pass.now.wall \in Nat
        /\ pass.now.wall <= wall /\ wall <= evaluated + PassEvery
    BY <1>2 DEF SagaInv, PassOK, RhythmInv, Rhythm, TimePoint, Time
  <2>7. PassEvery \in Nat /\ TerminateAfter \in Nat
    BY SagaAssumption
  <2>8. pass.now.mono - snap.stalled_since >= TerminateAfter
    BY <2>3, <2>4, <2>6, <2>7, SagaAssumption DEF saturating_sub
  <2>9. QED
    BY <1>2, <2>4, <2>5, <2>6, <2>7, <2>8
<1>10. LookOK'
  BY <1>2, <1>5, <1>7, <1>8, <1>9 DEF LookOK, Acting
<1>11. WarnedOK' /\ WarnedStallOrUnread'
  BY <1>2, <1>5 DEF RhythmInv, WarnedOK, WarnedStallOrUnread, SignalsWarnedStall
<1>12. QED
  BY <1>6, <1>10, <1>11 DEF RhythmInv

\* A pass ends: the row it leaves may act only for the warned stall.
LEMMA EndPassRhythm ==
    ASSUME SagaInv, RhythmInv, ~blind' => ~blind, NEW row, EndPass(row), UNCHANGED warned,
           ~blind' /\ Acting(row) => NewStall(warned.number)
    PROVE  RhythmInv'
<1>1. /\ saga' = row /\ pass' = NoPass
      /\ UNCHANGED <<snap, wall, boot, evaluated, stall, signals, warned>>
  BY DEF EndPass
<1>2. Rhythm' /\ LookOK'
  BY <1>1 DEF RhythmInv, Rhythm, LookOK, NoPass
<1>3. WarnedOK' /\ WarnedStallOrUnread'
  BY <1>1 DEF RhythmInv, WarnedOK, NewStall, WarnedStallOrUnread, SignalsWarnedStall
<1>4. QED
  BY <1>2, <1>3 DEF RhythmInv

\* A pass that read a lasting stall under an acting row read the warned one.
LEMMA SameStall ==
    ASSUME SagaInv, RhythmInv, ~blind, pass.at = "act", Acting(saga),
           "InsufficientStall" \notin pass.blockers
    PROVE  pass.stall.number = warned.number /\ NewStall(warned.number)
BY DEF RhythmInv, LookOK

\* A row at its end acts no more.
LEMMA EndingRhythm ==
    ASSUME SagaInv, RhythmInv, ~blind' => ~blind,
           FinishIfExited \/ Disable \/ IdentityChanged \/ HandleBlockers
    PROVE  RhythmInv'
<1>1. PICK stage \in {"Completed", "Aborted"}, outcome \in TerminationActionOutcome :
        Persist(Row(stage, NoTime, outcome))
  BY DEF FinishIfExited, Disable, IdentityChanged, HandleBlockers, TerminationActionOutcome
<1> DEFINE row == Row(stage, NoTime, outcome)
<1>2. ~Acting(row)
  BY DEF Acting, Row
<1> HIDE DEF row
<1>3. EndPass(row) /\ UNCHANGED warned
  BY <1>1 DEF Persist, row
<1>4. QED
  BY <1>2, <1>3, EndPassRhythm

\* The warning is about the stall the pass read.
LEMMA StartRhythm ==
    ASSUME SagaInv, RhythmInv, Start
    PROVE  RhythmInv'
<1>1. /\ pass' = NoPass /\ saga = NoSaga /\ pass.at = "act"
      /\ warned' = [number |-> pass.stall.number, process |-> pass.fresh, at |-> pass.now.wall]
      /\ UNCHANGED <<snap, wall, boot, evaluated, stall, signals>>
  BY DEF Start, EndPass, Enabled, Open
<1>2. signals' = {} /\ warned'.number = pass.stall.number
  BY <1>1 DEF SagaInv
<1>3. Rhythm' /\ LookOK'
  BY <1>1 DEF RhythmInv, Rhythm, LookOK, NoPass
<1>4. WarnedOK' /\ WarnedStallOrUnread'
  BY <1>1, <1>2 DEF RhythmInv, LookOK, WarnedOK, NewStall, WarnedStallOrUnread, SignalsWarnedStall
<1>5. QED
  BY <1>3, <1>4 DEF RhythmInv

\* A row that goes on, or stays, is about the warned stall.
LEMMA GoOnRhythm ==
    ASSUME SagaInv, RhythmInv, ~blind' => ~blind,
           RequestGraceful \/ NoteSigkillDisabled \/ LeaveAlone
    PROVE  RhythmInv'
<1>1. PICK row : EndPass(row) /\ UNCHANGED warned /\ (Acting(row) => Acting(saga))
  <2>1. CASE RequestGraceful
    BY <2>1 DEF RequestGraceful, Persist, Acting
  <2>2. CASE NoteSigkillDisabled
    BY <2>2 DEF NoteSigkillDisabled, Persist, Acting
  <2>3. CASE LeaveAlone
    BY <2>3 DEF LeaveAlone, Persist
  <2>4. QED
    BY <2>1, <2>2, <2>3
<1>2. ASSUME ~blind', Acting(saga)
      PROVE  NewStall(warned.number)
  <2>1. pass.at = "act"
    BY DEF RequestGraceful, NoteSigkillDisabled, LeaveAlone, Due, Same, Enabled, Open
  <2>2. saga # NoSaga /\ saga.stage \notin {"Completed", "Aborted"}
    BY <1>2 DEF Acting, NoSaga, None
  <2>3. "InsufficientStall" \notin pass.blockers
    <3>1. CASE pass.blockers = {} \/ transient_only(pass.blockers)
      BY <3>1 DEF transient_only
    <3>2. CASE Enabled /\ ProcessUnread
      BY <1>2, <2>1, <3>2 DEF Enabled, ProcessUnread, child_exited, RhythmInv, LookOK
    <3>3. QED
      BY <2>1, <2>2, <3>1, <3>2 DEF RequestGraceful, NoteSigkillDisabled, LeaveAlone, Due, Open
  <2>4. QED
    BY <1>2, <2>1, <2>3, SameStall
<1>3. QED
  BY <1>1, <1>2, EndPassRhythm

\* A row that could not be committed stays, and the pass was in vain.
LEMMA FailRhythm ==
    ASSUME SagaInv, RhythmInv, FailToPersist, blind'
    PROVE  RhythmInv'
<1>1. EndPass(saga) /\ UNCHANGED warned
  BY DEF FailToPersist
<1>2. Rhythm' /\ LookOK'
  BY <1>1 DEF EndPass, RhythmInv, Rhythm, LookOK, NoPass
<1>3. QED
  BY <1>2 DEF RhythmInv, WarnedOK, WarnedStallOrUnread

\* A signal is sent for the stall the pass read, which is the warned one.
LEMMA SendRhythm ==
    ASSUME SagaInv, RhythmInv, ~blind' => ~blind, SendTerminate \/ SendKill
    PROVE  RhythmInv'
<1>1. /\ Due /\ Acting(saga) /\ pass.at = "act" /\ pass.blockers = {} /\ pass \in Pass
      /\ UNCHANGED <<snap, wall, boot, evaluated, stall, saga, warned>>
  BY DecisionFacts DEF SendTerminate, SendKill, Due, Same, Enabled, Open, Acting
<1>2. PICK kind, row : Deliver(kind, row)
  BY DEF SendTerminate, SendKill
<1>3. PICK rec : pass' = [pass EXCEPT !.at = "persist", !.record = rec]
  BY <1>2 DEF Deliver
<1>4. pass'.at = "persist" /\ pass'.stall = pass.stall /\ pass'.now = pass.now
  BY <1>1, <1>3 DEF Pass
<1>5. \A s \in signals' : s \in signals \/ s.number = pass.stall.number
  BY <1>2 DEF Deliver
<1>6. ~blind' => pass.stall.number = warned.number
  BY <1>1, SameStall
<1>7. Rhythm' /\ LookOK'
  BY <1>1, <1>4, <1>6 DEF RhythmInv, Rhythm, LookOK, NewStall
<1>8. WarnedOK' /\ WarnedStallOrUnread'
  BY <1>1, <1>4, <1>5, <1>6 DEF RhythmInv, WarnedOK, WarnedStallOrUnread, SignalsWarnedStall
<1>9. QED
  BY <1>7, <1>8 DEF RhythmInv

\* The row that follows a signal is about the warned stall.
LEMMA PersistSignalRhythm ==
    ASSUME SagaInv, RhythmInv, ~blind' => ~blind, PersistSignal
    PROVE  RhythmInv'
<1>1. EndPass(pass.record) /\ UNCHANGED warned /\ pass.at = "persist"
  BY DEF PersistSignal, Persist
<1>2. ~blind' => NewStall(warned.number)
  BY <1>1 DEF RhythmInv, LookOK
<1>3. QED
  BY <1>1, <1>2, EndPassRhythm

\* The child's first stall is the one a saga left behind was warned about.
LEMMA RhythmStarts == MCInit => RhythmInv
<1> SUFFICES ASSUME MCInit PROVE RhythmInv
  OBVIOUS
<1>1. /\ wall = 0 /\ boot = 0 /\ evaluated = 0 /\ pass = NoPass /\ signals = {}
      /\ stall.number = 1 /\ (saga # NoSaga => warned.number = 1)
  BY DEF MCInit, Init
<1>2. snap.process = Child
  BY DEF MCInit, Init, NewSnapshot
<1>3. Child # None /\ PassEvery \in Nat
  BY SagaAssumption
<1>4. Acting(saga) => saga # NoSaga
  BY DEF Acting, NoSaga, None
<1>5. QED
  BY <1>1, <1>2, <1>3, <1>4
     DEF RhythmInv, Rhythm, LookOK, WarnedOK, NewStall, WarnedStallOrUnread, SignalsWarnedStall, NoPass

\* Every step keeps the rhythm when passes come faster than a stall lasts.
LEMMA RhythmSteps ==
    ASSUME SagaInv, RhythmInv, PassEvery < TerminateAfter,
           [MCNext]_<<vars, disturbed, blind>>
    PROVE  RhythmInv' /\ [Next]_vars
<1>1. CASE UNCHANGED <<vars, disturbed, blind>>
  <2>1. UNCHANGED vars /\ UNCHANGED blind
    BY <1>1
  <2>2. QED
    BY <2>1 DEF vars, RhythmInv, Rhythm, LookOK, WarnedOK, NewStall, WarnedStallOrUnread,
       SignalsWarnedStall
<1>2. CASE Disturb /\ blind' = (blind \/ failures' # failures)
  <2>1. ~blind' => ~blind
    BY <1>2
  <2>2. CASE FailToPersist
    <3>1. failures \in Nat /\ failures' = failures + 1
      BY <2>2 DEF FailToPersist, SagaInv, TypeOK
    <3>2. failures' # failures
      BY <3>1
    <3>3. blind'
      BY <1>2, <3>2
    <3>4. QED
      BY <2>2, <3>3, FailRhythm DEF Next
  <2>3. CASE Evidence
    BY <2>1, <2>3, EvidenceRhythm DEF Next
  <2>4. QED
    BY <1>2, <2>1, <2>2, <2>3, RestartRhythm, SurroundingsRhythm DEF Disturb, Next
<1>3. CASE /\ Tick \/ (Reconcile /\ wall <= Horizon) \/ Advance \/ Decide \/ PersistSignal \/ BeginPass
           /\ blind' = (blind /\ warned' = warned)
  <2>1. CASE Start
    BY <2>1, StartRhythm DEF Next, Monitor, Decide
  <2>2. CASE ~Start
    <3>1. UNCHANGED warned
      BY <1>3, <2>2 DEF Tick, Reconcile, Advance, Decide, PersistSignal, BeginPass, Persist,
         FinishIfExited, Disable, IdentityChanged, HandleBlockers, RequestGraceful,
         NoteSigkillDisabled, LeaveAlone, SendTerminate, SendKill
    <3>2. ~blind' => ~blind
      BY <1>3, <3>1
    <3>3. QED
      BY <1>3, <2>2, <3>2, TickRhythm, BeginningsRhythm, SurroundingsRhythm, EndingRhythm,
         GoOnRhythm, SendRhythm, PersistSignalRhythm DEF Next, Monitor, Decide
  <2>3. QED
    BY <2>1, <2>2
<1>4. CASE ReadFacts /\ blind' = (blind \/ Unread)
  <2>1. ~blind' => ~blind /\ ~Unread
    BY <1>4
  <2>2. QED
    BY <1>4, <2>1, ReadFactsRhythm DEF Next, Monitor
<1>5. QED
  BY <1>1, <1>2, <1>3, <1>4 DEF MCNext

\* A stall that ended cancels the saga (handle_blockers): when the worker's passes
\* are closer together than a stall must last, no signal is sent for a stall other
\* than the one warned about, unless a pass in between could not read the process
\* or commit its row.
THEOREM StallKept ==
    ASSUME PassEvery < TerminateAfter
    PROVE  MCSpec => []WarnedStallOrUnread
<1> DEFINE Inv == SagaInv /\ RhythmInv
<1>1. MCInit => Inv
  BY InitSaga, RhythmStarts DEF MCInit
<1>2. Inv /\ [MCNext]_<<vars, disturbed, blind>> => Inv'
  BY RhythmSteps, SagaSteps
<1>3. Inv => WarnedStallOrUnread
  BY DEF RhythmInv
<1>4. QED
  BY <1>1, <1>2, <1>3, PTL DEF MCSpec

=============================================================================
