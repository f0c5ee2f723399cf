----------------------------- MODULE SessionTimers -----------------------------
(***************************************************************************)
(* One session's reducer lane over time: evidence from adapters, parents   *)
(* and the session itself, the scheduler's ticks, and server restarts.     *)
(*                                                                         *)
(* Evidence carries the clock sample its producer took before it queued    *)
(* for the lane, and the scheduler samples the clock once for a pass over  *)
(* all sessions, so both may reach the reducer up to MaxDelay late.  The   *)
(* monotonic clock is process-relative (SystemClock): a restart resets it. *)
(***************************************************************************)
EXTENDS SessionReducer

CONSTANTS
    NativeStates,   \* the states native evidence may report
    Deadlines,      \* the wall times a parent may set as a deadline
    Kinds,          \* the payload kinds that arrive in this instance
    Ids,            \* observation identities; 0 is reserved for None
    MaxDelay,       \* bound: age of a clock sample when it is applied
    Horizon,        \* bound: no evidence or restart after this wall time
    MaxTime,        \* bound: wall time stops here
    MaxRestarts     \* bound: number of restarts

\* SchedulerTick is refused by SessionCoordinator::apply_observation.
ASSUME TimersAssumption ==
    /\ NativeStates \subseteq DetailedState
    /\ Deadlines \subseteq Time
    /\ Kinds \subseteq PayloadKinds \ {"SchedulerTick"}
    /\ Ids \subseteq Nat \ {0}
    /\ MaxDelay \in Nat /\ Horizon \in Nat /\ MaxTime \in Nat
    /\ MaxRestarts \in Nat

VARIABLES
    snap,       \* the session's snapshot with the last step's events
    wall,       \* wall time
    boot,       \* wall time at which the running server process started
    restarts    \* restarts so far

\* History, read by the properties only.
VARIABLES
    mark,       \* monotonic time up to which the credit is accumulated
    credit,     \* time since the last activity during which the clock ran
    notice,     \* wall time of the last alert or reminder of this stall
    vouched     \* evidence about the session arrived since the last restart

history == <<mark, credit, notice, vouched>>
vars == <<snap, wall, boot, restarts, history>>

TypeOK ==
    /\ snap \in Snapshot
    /\ wall \in Time /\ boot \in Time /\ boot <= wall
    /\ restarts \in Nat
    /\ mark \in Time /\ credit \in Nat
    /\ notice \in Time
    /\ vouched \in BOOLEAN

\* SystemClock::now, `delay' units ago.
Sampled(delay) == [wall |-> wall - delay, mono |-> (wall - boot) - delay]

Delays == {d \in 0..MaxDelay : d <= wall - boot}

-----------------------------------------------------------------------------

Init ==
    /\ wall = 0 /\ boot = 0 /\ restarts = 0
    /\ snap = NewSnapshot([wall |-> 0, mono |-> 0])
    /\ mark = 0 /\ credit = 0 /\ notice = 0 /\ vouched = TRUE

\* Time the stall clock ran between the mark and a sample.
Ran(mono) == IF timers_paused(snap) THEN 0 ELSE saturating_sub(mono, mark)

ActiveTime(now) == credit + Ran(now.mono)

IsActivity(o) ==
    /\ o.trusted
    /\ \/ o.kind \in {"Progress", "IntentionalWait"}
       \/ o.kind = "NativeState" /\ o.arg \in ActivityStates

\* Alerts and reminders, and a stall restored after a conflict, restart the
\* reminder interval.
Noticed ==
    \/ snap'.events \cap {"AlertDue", "ReminderDue"} # {}
    \/ snap'.state = "Stalled" /\ snap.state # "Stalled"

Remember == notice' = IF Noticed THEN wall ELSE notice

\* Evidence that speaks about the session itself, from a trusted source.
Vouches(o) ==
    /\ o.trusted
    /\ o.kind \notin {"Compatibility", "CompatibilityResolved"}

Observe(o) ==
    /\ snap' = reduce_observation(snap, o)
    /\ IF Superseded(snap, o)
       THEN UNCHANGED <<mark, credit>>
       ELSE /\ mark' = o.at.mono
            /\ credit' = IF IsActivity(o) THEN 0 ELSE ActiveTime(o.at)
    /\ vouched' = (vouched \/ (~Superseded(snap, o) /\ Vouches(o)))
    /\ Remember
    /\ UNCHANGED <<wall, boot, restarts>>

\* The arguments this instance gives to a payload kind.
Inputs(kind) ==
    CASE kind = "NativeState" -> NativeStates
      [] kind = "DeadlineSet" -> Deadlines
      [] OTHER -> PayloadArgs(kind)

Envelope(id, delay, trusted, kind, arg) ==
    [id |-> id, at |-> Sampled(delay), trusted |-> trusted,
     kind |-> kind, arg |-> arg]

\* An observation reaches the coordinator of the session.
Evidence ==
    /\ wall <= Horizon
    /\ \E id \in Ids, delay \in Delays, trusted \in BOOLEAN, kind \in Kinds :
           \E arg \in Inputs(kind) :
               Observe(Envelope(id, delay, trusted, kind, arg))

\* One session's turn in AgentApi::reconcile_timers.
Tick(delay) ==
    /\ snap' = reduce_tick(snap, Sampled(delay))
    /\ Remember
    /\ UNCHANGED <<wall, boot, restarts, mark, credit, vouched>>

\* The server stops and starts again: a new monotonic epoch, and
\* AgentApi::mark_restarted.
Restart ==
    /\ wall <= Horizon
    /\ restarts < MaxRestarts
    /\ restarts' = restarts + 1
    /\ boot' = wall
    /\ snap' = reduce_restarted(snap, [wall |-> wall, mono |-> 0])
    /\ mark' = 0 /\ credit' = 0 /\ vouched' = FALSE
    /\ UNCHANGED <<wall, notice>>

\* AgentApi::mark_native_reconciled: the adapter saw the session again.
Reconcile ==
    /\ snap' = reduce_reconciled(snap)
    /\ vouched' = TRUE
    /\ UNCHANGED <<wall, boot, restarts, mark, credit, notice>>

Advance ==
    /\ wall < MaxTime
    /\ wall' = wall + 1
    /\ UNCHANGED <<snap, boot, restarts, history>>

Next ==
    \/ Evidence
    \/ \E delay \in Delays : Tick(delay)
    \/ Restart
    \/ Reconcile
    \/ Advance

Spec == Init /\ [][Next]_vars

\* Time passes, and the five-second timer worker keeps evaluating sessions
\* with the time of its pass.
FairSpec == Spec /\ WF_vars(Advance) /\ WF_vars(Tick(0))

-----------------------------------------------------------------------------
(* Properties.                                                             *)

\* The marks the reminder and the termination gate measure from exist exactly
\* while the session is Stalled, and the reminder mark never precedes the
\* stall, whatever order evidence, ticks, conflicts and restarts come in
\* (reducer.rs: transition, record_activity, apply_tick).
StallMarksCoupled ==
    /\ snap.state = "Stalled" <=> snap.stalled_since # NoTime
    /\ snap.state = "Stalled" <=> snap.last_reminder # NoTime
    /\ snap.stalled_since <= snap.last_reminder

\* The memo of the state before a conflict exists exactly while the conflict
\* is latched (reducer.rs: SourceConflict, SourceConflictResolved).
ConflictMemoCoupled ==
    snap.source_conflict <=> snap.state_before_conflict # None

\* A tick turns a session Stalled by the fallback threshold only when its
\* clock really ran for StallAfter since the last activity: paused time is
\* never counted, also when evidence arrives late (reducer.rs: apply_tick,
\* pause_clock, resume_clock, active_elapsed).
NoPrematureStall ==
    [][\A delay \in Delays :
         (/\ Tick(delay)
          /\ uses_fallback(snap)
          /\ snap.state # "Stalled" /\ snap'.state = "Stalled")
         => ActiveTime(Sampled(delay)) >= StallAfter]_vars

\* While a stall is unresolved and its timer runs, every tick leaves a notice
\* younger than ReminderEvery, as far as the last notice belongs to the running
\* epoch: a mark of an earlier one is a monotonic time of another clock
\* (reducer.rs: apply_tick's reminder branch).
ReminderCadence ==
    [][(/\ Tick(0) /\ TimerRuns(snap) /\ snap'.state = "Stalled"
        /\ restarts > 0 => notice > boot)
       => wall - notice' < ReminderEvery]_vars

\* After a restart the timers decide nothing before an adapter has seen the
\* session again or trusted evidence about it arrived; compatibility reports
\* and uncertain evidence do not lift the gate (reducer.rs: Restarted,
\* observation_clears_reconciliation, apply_tick).
QuietUntilVouched ==
    ~vouched => /\ snap.reconciliation_required
                /\ snap.events \cap {"Suspect", "AlertDue", "ReminderDue"} = {}

\* Once evidence stops, a session whose timer runs is eventually Stalled
\* (reducer.rs: apply_tick under the timer worker).
Pending == snap.explicit_deadline # NoTime /\ snap.explicit_deadline > MaxTime
SilentSessionStalls ==
    <>[](snap.state = "Stalled" \/ ~TimerRuns(snap) \/ Pending)

-----------------------------------------------------------------------------
(* What the documents say and the code does not do.                        *)

\* With no parent pausing the clock, a session that reports an unfinished
\* state and then falls silent is eventually Stalled.
UnpausedSilenceStalls ==
    <>[](\/ snap.state = "Stalled"
         \/ ~stall_timer_runs(snap.state)
         \/ snap.reconciliation_required)

=============================================================================
