---------------------------- MODULE SessionReducer ----------------------------
(***************************************************************************)
(* The deterministic session reducer of watchdog-domain                    *)
(* (crates/watchdog-domain/src/reducer.rs), as operators on snapshot       *)
(* records.  A snapshot here is the reducer's ReducerOutput flattened: the *)
(* fields of SessionSnapshot the reducer decides with, and `events', the   *)
(* kinds of the domain events the last input produced.                     *)
(*                                                                         *)
(* Left out, because no guard of the reducer reads them: updated_at,       *)
(* last_trusted_transition, last_progress_summary, and the identity fields *)
(* session and root.  The revision is modelled with the store.             *)
(***************************************************************************)
EXTENDS Integers

CONSTANTS
    SuspectAfter,   \* ReducerPolicy.suspect_after, in clock units
    StallAfter,     \* ReducerPolicy.stall_after
    ReminderEvery,  \* ReducerPolicy.reminder_every
    Processes       \* the process identities an observation may report

\* ReducerPolicy::new: suspect may not follow stall, reminders are spaced.
ASSUME PolicyAssumption ==
    /\ SuspectAfter \in Nat /\ StallAfter \in Nat /\ ReminderEvery \in Nat
    /\ SuspectAfter <= StallAfter
    /\ ReminderEvery > 0

None == "None"      \* Option::None of a non-numeric field
NoTime == -1        \* Option::None of a clock value

DetailedState ==
    {"Starting", "Running", "WaitingForAgent", "WaitingForTool",
     "WaitingForUser", "Idle", "Stalled", "Completed", "Failed",
     "Cancelled", "Disappeared", "Unknown"}

\* DetailedState::stall_timer_runs.
stall_timer_runs(state) ==
    state \notin {"WaitingForUser", "Completed", "Failed", "Cancelled",
                  "Disappeared", "Unknown"}

\* States whose native report counts as activity.
ActivityStates == {"Starting", "Running", "WaitingForAgent", "WaitingForTool"}

\* States whose native report is alerted at once.
AlertedStates == {"Stalled", "Failed", "Disappeared"}

\* States that progress evidence returns to Running.
ResumableStates ==
    {"WaitingForAgent", "WaitingForTool", "WaitingForUser", "Idle", "Stalled"}

\* A compatibility warning is told apart by whether the adapter could read
\* the runtime's version.
Warnings == {"Versioned", "Unversioned"}

EventKinds ==
    {"StateChanged", "AlertDue", "ReminderDue", "Suspect", "DeadlineChanged",
     "CompatibilityChanged", "ConflictRaised", "ConflictCleared",
     "ReconciliationRequired"}

Time == Nat
OptTime == Nat \cup {NoTime}

\* One clock sample: wall time and the process-relative monotonic time.
TimePoint == [wall : Time, mono : Time]

Snapshot ==
    [state : DetailedState,
     last_activity : Time,              \* its monotonic half
     explicit_deadline : OptTime,       \* wall time
     pause_started : OptTime,           \* monotonic
     paused_elapsed : Nat,
     suspect_emitted : BOOLEAN,
     stalled_since : OptTime,           \* monotonic
     last_reminder : OptTime,           \* monotonic
     last_id : Nat,                     \* 0 is None
     last_mono : OptTime,
     process : Processes \cup {None},
     warning : Warnings \cup {None},
     source_conflict : BOOLEAN,
     state_before_conflict : DetailedState \cup {None},
     reconciliation_required : BOOLEAN,
     events : SUBSET EventKinds]

\* SessionSnapshot::new.
NewSnapshot(now) ==
    [state |-> "Starting", last_activity |-> now.mono,
     explicit_deadline |-> NoTime, pause_started |-> NoTime,
     paused_elapsed |-> 0, suspect_emitted |-> FALSE,
     stalled_since |-> NoTime, last_reminder |-> NoTime,
     last_id |-> 0, last_mono |-> NoTime, process |-> None,
     warning |-> None, source_conflict |-> FALSE,
     state_before_conflict |-> None, reconciliation_required |-> FALSE,
     events |-> {}]

-----------------------------------------------------------------------------
(* Clock helpers.                                                          *)

saturating_sub(a, b) == IF a >= b THEN a - b ELSE 0

timers_paused(s) == s.pause_started # NoTime

pause_clock(s, now) ==
    IF timers_paused(s) THEN s ELSE [s EXCEPT !.pause_started = now.mono]

\* Faulty variants, here and below, are what the properties must catch.
ResumeSwapsOperands(s, now) ==
    IF timers_paused(s)
    THEN [s EXCEPT !.pause_started = NoTime,
                   !.paused_elapsed = @ + (s.pause_started - now.mono)]
    ELSE s

ResumeForgetsPause(s, now) == [s EXCEPT !.pause_started = NoTime]

resume_clock(s, now) ==
    IF timers_paused(s)
    THEN [s EXCEPT !.pause_started = NoTime,
                   !.paused_elapsed =
                       @ + saturating_sub(now.mono, s.pause_started)]
    ELSE s

active_elapsed(s, now) ==
    saturating_sub(saturating_sub(now.mono, s.last_activity), s.paused_elapsed)

Emit(s, kinds) == [s EXCEPT !.events = @ \cup kinds]

-----------------------------------------------------------------------------
(* State transitions.                                                      *)

TransitionKeepsMarks(s, state, now) ==
    IF s.state = state
    THEN s
    ELSE [s EXCEPT !.state = state,
                   !.stalled_since = IF state = "Stalled" THEN now.mono ELSE @,
                   !.last_reminder = IF state = "Stalled" THEN now.mono ELSE @,
                   !.events = @ \cup {"StateChanged"}]

transition(s, state, now) ==
    IF s.state = state
    THEN s
    ELSE LET mark == IF state = "Stalled" THEN now.mono
                     ELSE IF s.state = "Stalled" THEN NoTime
                     ELSE s.stalled_since
             reminder == IF state = "Stalled" THEN now.mono
                         ELSE IF s.state = "Stalled" THEN NoTime
                         ELSE s.last_reminder
         IN  [s EXCEPT !.state = state,
                       !.stalled_since = mark,
                       !.last_reminder = reminder,
                       !.events = @ \cup {"StateChanged"}]

\* The activity baseline restarts at the observation.
Rebase(s, now) ==
    [s EXCEPT !.last_activity = now.mono,
              !.paused_elapsed = 0,
              !.suspect_emitted = FALSE]

record_activity(s, now) ==
    LET cleared == [Rebase(s, now) EXCEPT !.stalled_since = NoTime,
                                          !.last_reminder = NoTime]
    IN  IF s.state = "Stalled"
        THEN transition(cleared, "Running", now)
        ELSE cleared

-----------------------------------------------------------------------------
(* Payloads of a trusted observation.                                      *)

apply_native_state(s, state, now) ==
    LET clocked == IF s.state = "WaitingForUser" /\ state # "WaitingForUser"
                   THEN resume_clock(s, now)
                   ELSE IF s.state # "WaitingForUser" /\ state = "WaitingForUser"
                   THEN pause_clock(s, now)
                   ELSE s
        moved == transition(clocked, state, now)
        based == IF state \in ActivityStates THEN Rebase(moved, now) ELSE moved
    IN  IF s.state # state /\ state \in AlertedStates
        THEN Emit(based, {"AlertDue"})
        ELSE based

apply_progress(s, now) ==
    record_activity(
        IF s.state \in ResumableStates
        THEN transition(resume_clock(s, now), "Running", now)
        ELSE s,
        now)

apply_deadline_set(s, deadline) ==
    Emit([s EXCEPT !.explicit_deadline = deadline], {"DeadlineChanged"})

apply_deadline_pause(s, now) == Emit(pause_clock(s, now), {"DeadlineChanged"})

apply_deadline_resume(s, now) == Emit(resume_clock(s, now), {"DeadlineChanged"})

apply_deadline_clear(s) ==
    Emit([s EXCEPT !.explicit_deadline = NoTime], {"DeadlineChanged"})

apply_intentional_wait(s, now) ==
    Emit([Rebase(transition(s, "WaitingForAgent", now), now)
             EXCEPT !.pause_started = now.mono],
         {"DeadlineChanged"})

\* A warning that names the detected version is not replaced by one that
\* cannot.
apply_compatibility_warning(s, warning) ==
    IF s.warning = warning \/ (s.warning = "Versioned" /\ warning = "Unversioned")
    THEN s
    ELSE Emit([s EXCEPT !.warning = warning], {"CompatibilityChanged"})

apply_compatibility_resolved(s) ==
    IF s.warning = None
    THEN s
    ELSE Emit([s EXCEPT !.warning = None], {"CompatibilityChanged"})

apply_source_conflict(s, now) ==
    LET latched == IF s.source_conflict
                   THEN s
                   ELSE Emit([s EXCEPT !.source_conflict = TRUE,
                                       !.state_before_conflict = s.state],
                             {"ConflictRaised"})
    IN  transition(latched, "Unknown", now)

apply_source_conflict_resolved(s, now) ==
    LET memo == IF s.state_before_conflict = None
                THEN "Unknown" ELSE s.state_before_conflict
        opened == Emit([s EXCEPT !.source_conflict = FALSE,
                                 !.state_before_conflict = None],
                       {"ConflictCleared"})
    IN  IF ~s.source_conflict THEN s
        ELSE IF s.state = "Unknown" THEN transition(opened, memo, now)
        ELSE opened

apply_process_identity(s, process) == [s EXCEPT !.process = process]

-----------------------------------------------------------------------------
(* One observation: id, clock sample, whether its source is more than      *)
(* Uncertain, and a payload given by its kind and argument.                *)

PayloadArgs(kind) ==
    CASE kind = "NativeState"     -> DetailedState
      [] kind = "ProcessIdentity" -> Processes
      [] kind = "DeadlineSet"     -> Time
      [] kind = "Compatibility"   -> Warnings
      [] OTHER                    -> {None}

PayloadKinds ==
    {"NativeState", "Progress", "ProcessIdentity", "DeadlineSet",
     "DeadlinePause", "DeadlineResume", "DeadlineClear", "IntentionalWait",
     "Compatibility", "CompatibilityResolved", "SourceConflict",
     "SourceConflictResolved", "SchedulerTick"}

AnythingClearsReconciliation(kind) == TRUE

observation_clears_reconciliation(kind) ==
    kind \notin {"Compatibility", "CompatibilityResolved", "SchedulerTick"}

\* The match on ObservationPayload, for trusted evidence.
apply_payload(s, kind, arg, now) ==
    CASE kind = "NativeState"            -> apply_native_state(s, arg, now)
      [] kind = "Progress"               -> apply_progress(s, now)
      [] kind = "ProcessIdentity"        -> apply_process_identity(s, arg)
      [] kind = "DeadlineSet"            -> apply_deadline_set(s, arg)
      [] kind = "DeadlinePause"          -> apply_deadline_pause(s, now)
      [] kind = "DeadlineResume"         -> apply_deadline_resume(s, now)
      [] kind = "DeadlineClear"          -> apply_deadline_clear(s)
      [] kind = "IntentionalWait"        -> apply_intentional_wait(s, now)
      [] kind = "Compatibility"          -> apply_compatibility_warning(s, arg)
      [] kind = "CompatibilityResolved"  -> apply_compatibility_resolved(s)
      [] kind = "SourceConflict"         -> apply_source_conflict(s, now)
      [] kind = "SourceConflictResolved" -> apply_source_conflict_resolved(s, now)
      [] kind = "SchedulerTick"          -> s

\* The replay of the last observation and evidence sampled before it are
\* ignored.
Superseded(s, o) ==
    \/ s.last_id = o.id
    \/ s.last_mono # NoTime /\ o.at.mono < s.last_mono

Stamped(s, o) == [s EXCEPT !.last_id = o.id, !.last_mono = o.at.mono]

Trusted(s, o) ==
    IF observation_clears_reconciliation(o.kind)
    THEN [Stamped(s, o) EXCEPT !.reconciliation_required = FALSE]
    ELSE Stamped(s, o)

apply_observation(s, o) ==
    IF Superseded(s, o) THEN s
    ELSE IF ~o.trusted THEN Stamped(s, o)
    ELSE apply_payload(Trusted(s, o), o.kind, o.arg, o.at)

-----------------------------------------------------------------------------
(* The scheduler's tick.                                                   *)

\* A tick may decide nothing while the session is unreconciled, its clock is
\* paused, or its state has no stall timer.
TimerRuns(s) ==
    /\ ~s.reconciliation_required
    /\ ~timers_paused(s)
    /\ stall_timer_runs(s.state)

uses_fallback(s) == s.explicit_deadline = NoTime

deadline_expired(s, now) ==
    s.explicit_deadline # NoTime /\ now.wall >= s.explicit_deadline

StallDueOnlyThen(s, now) ==
    \/ deadline_expired(s, now)
    \/ uses_fallback(s) /\ active_elapsed(s, now) = StallAfter

StallDue(s, now) ==
    \/ deadline_expired(s, now)
    \/ uses_fallback(s) /\ active_elapsed(s, now) >= StallAfter

ReminderOneLate(s, now) ==
    /\ s.last_reminder # NoTime
    /\ saturating_sub(now.mono, s.last_reminder) > ReminderEvery

ReminderIsDue(s, now) ==
    /\ s.last_reminder # NoTime
    /\ saturating_sub(now.mono, s.last_reminder) >= ReminderEvery

apply_tick(s, now) ==
    LET suspected ==
            IF /\ uses_fallback(s)
               /\ active_elapsed(s, now) >= SuspectAfter
               /\ ~s.suspect_emitted
            THEN Emit([s EXCEPT !.suspect_emitted = TRUE], {"Suspect"})
            ELSE s
    IN  IF ~TimerRuns(s) THEN s
        ELSE IF StallDue(s, now) /\ s.state # "Stalled"
        THEN Emit(transition(suspected, "Stalled", now), {"AlertDue"})
        ELSE IF s.state = "Stalled" /\ ReminderIsDue(s, now)
        THEN Emit([suspected EXCEPT !.last_reminder = now.mono], {"ReminderDue"})
        ELSE suspected

-----------------------------------------------------------------------------
(* reduce: one input to a fresh output.                                    *)

Fresh(s) == [s EXCEPT !.events = {}]

reduce_observation(s, o) == apply_observation(Fresh(s), o)

reduce_tick(s, now) == apply_tick(Fresh(s), now)

\* Restarted forgets the ordering cursor, the activity baseline and any
\* pause; the stall and reminder marks stay.
reduce_restarted(s, now) ==
    [s EXCEPT !.reconciliation_required = TRUE,
              !.last_id = 0,
              !.last_mono = NoTime,
              !.last_activity = now.mono,
              !.paused_elapsed = 0,
              !.pause_started = NoTime,
              !.events = {"ReconciliationRequired"}]

reduce_reconciled(s) ==
    [s EXCEPT !.reconciliation_required = FALSE, !.events = {}]

=============================================================================
