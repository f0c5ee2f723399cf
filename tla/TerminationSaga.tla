---------------------------- MODULE TerminationSaga ----------------------------
(***************************************************************************)
(* Automated termination of one stalled child: the gate of                 *)
(* watchdog-domain (safety.rs, assess_termination), the monitor pass and   *)
(* the durable saga of watchdog-server (termination.rs), over the reducer  *)
(* lane that produces the child's snapshot and the process that holds its  *)
(* PID.                                                                    *)
(*                                                                         *)
(* A pass samples the clock once, then reads the snapshot and the process, *)
(* then acts: evidence, process exits, time and crashes fall in between.   *)
(* Signals are sent before the saga row that records them commits.         *)
(* Production configures no graceful canceller, so that request answers    *)
(* Unsupported and touches nothing.                                        *)
(***************************************************************************)
EXTENDS SessionReducer

CONSTANTS
    TerminateAfter,  \* DeadlinePolicy.terminate_after_stalled
    warning_grace,   \* TerminationConfig.warning_grace
    action_grace,    \* TerminationConfig.action_grace
    RuntimeMatches,  \* processes whose executable fits the child's runtime
    Child,           \* the process recorded for the child at the start
    Kinds,           \* payload kinds of the evidence in this instance
    NativeStates,    \* states native evidence may report
    Deadlines,       \* wall times a parent may set as a deadline
    Legacy,          \* whether an older version may have left a saga behind
    SamplerFails,    \* whether reading a process may fail transiently
    Toggles,         \* which of the environment's switches change
    Horizon,         \* bound: no evidence, toggles or restarts after this
    MaxTime,         \* bound: wall time stops here
    MaxRestarts,     \* bound: number of restarts
    MaxStalls,       \* bound: number of stalls evidence may begin
    MaxFailures,     \* bound: number of store failures
    PassEvery        \* bound: a pass evaluates the child this often

Switches == {"healthy", "trusted", "automation", "sigkill"}

\* DeadlinePolicy::new refuses to terminate at once, and TerminationConfig::new
\* a zero grace.
ASSUME SagaAssumption ==
    /\ TerminateAfter \in Nat \ {0}
    /\ warning_grace \in Nat \ {0} /\ action_grace \in Nat \ {0}
    /\ RuntimeMatches \subseteq Processes /\ Child \in Processes
    /\ Kinds \subseteq PayloadKinds \ {"SchedulerTick"}
    /\ NativeStates \subseteq DetailedState /\ Deadlines \subseteq Time
    /\ SamplerFails \in BOOLEAN /\ Legacy \in BOOLEAN /\ Toggles \subseteq Switches
    /\ Horizon \in Nat /\ MaxTime \in Nat /\ MaxRestarts \in Nat
    /\ MaxStalls \in Nat /\ MaxFailures \in Nat
    /\ PassEvery \in Nat \ {0}
    /\ {"gone", None} \cap Processes = {}

VARIABLES
    snap,      \* the child's committed snapshot
    wall,      \* wall time
    boot,      \* wall time at which the running server started
    restarts,  \* restarts so far
    failures,  \* store failures so far
    proc,      \* the process that holds the child's PID, or "gone"
    env,       \* which Switches are on
    pass,      \* the monitor's pass over the child
    saga,      \* the durable saga row
    evaluated  \* wall time at which a pass last read the child

\* History, read by the properties only.
VARIABLES
    stall,     \* the current stall: its number and begin (wall)
    warned,    \* the stall, process and time the warning was scheduled for
    signals    \* signals sent: kind, receiver, stall and pass time

vars == <<snap, wall, boot, restarts, failures, proc, env, pass, saga, evaluated,
          stall, warned, signals>>

Stalls == [number : Nat, begin : OptTime]

NoStall == [number |-> 0, begin |-> NoTime]

TerminationStage ==
    {"WarningGrace", "GracefulCancel", "Sigterm", "Sigkill", "Completed",
     "Aborted"}

TerminationActionOutcome ==
    {"WarningScheduled", "GracefulUnsupported", "SignalSent",
     "SigkillDisabled", "ChildExited", "AutomationDisabled", "SafetyAborted"}

NoSaga == [stage |-> None, next_action_at |-> NoTime, process |-> None,
           last_outcome |-> None]

Saga == [stage : TerminationStage, next_action_at : OptTime,
         process : Processes \cup {None},
         last_outcome : TerminationActionOutcome]

TerminationBlocker ==
    {"UntrustedChild", "InsufficientStall", "SourceConflict",
     "ActiveOperation", "WaitingForUser", "DeadlineExtension", "TimersPaused",
     "ReconciliationRequired", "ComponentUnhealthy", "MissingProcess",
     "RuntimeMismatch"}

\* What a pass knows: its policy and clock sample, the relation, and the
\* verdict of the gate on what it read of the child.
Pass == [at : {"idle", "read", "act", "persist"},
         now : TimePoint, trusted : BOOLEAN, automation : BOOLEAN,
         sigkill : BOOLEAN, state : DetailedState,
         blockers : SUBSET TerminationBlocker,
         fresh : Processes \cup {None}, changed : BOOLEAN,
         exited : BOOLEAN, record : Saga \cup {NoSaga},
         stall : Stalls]            \* history: the stall it read

TypeOK ==
    /\ snap \in Snapshot
    /\ wall \in Time /\ boot \in Time /\ boot <= wall
    /\ restarts \in Nat /\ failures \in Nat
    /\ proc \in Processes \cup {"gone"}
    /\ env \in SUBSET Switches
    /\ pass \in Pass
    /\ saga \in Saga \cup {NoSaga}
    /\ evaluated \in Time
    /\ stall \in Stalls
    /\ warned \in [number : Nat, process : Processes \cup {None},
                   at : OptTime]
    /\ signals \subseteq [kind : {"Terminate", "Kill"}, to : Processes,
                          number : Nat, at : Time]

Now == [wall |-> wall, mono |-> wall - boot]

-----------------------------------------------------------------------------
(* The gate: safety.rs.                                                    *)

\* Faulty variants, here and below, are what the properties must catch.
StalledNow(s, now) == s.state = "Stalled"

stalled_long_enough(s, now) ==
    /\ s.state = "Stalled"
    /\ s.stalled_since # NoTime
    /\ saturating_sub(now.mono, s.stalled_since) >= TerminateAfter

\* The monitor derives an active operation from the state alone.
active_operation(s) == s.state \in {"Running", "WaitingForTool"}

\* assess_termination's blockers; the child is eligible when there are none.
assess_termination(s, now, trusted, healthy, fresh) ==
    {b \in TerminationBlocker :
        \/ b = "UntrustedChild" /\ ~trusted
        \/ b = "InsufficientStall" /\ ~stalled_long_enough(s, now)
        \/ b = "SourceConflict" /\ s.source_conflict
        \/ b = "ActiveOperation" /\ active_operation(s)
        \/ b = "WaitingForUser" /\ s.state = "WaitingForUser"
        \/ b = "DeadlineExtension" /\ s.explicit_deadline > now.wall
        \/ b = "TimersPaused" /\ timers_paused(s)
        \/ b = "ReconciliationRequired" /\ s.reconciliation_required
        \/ b = "ComponentUnhealthy" /\ ~healthy
        \/ b = "MissingProcess" /\ fresh = None
        \/ b = "RuntimeMismatch" /\ fresh # None /\ fresh \notin RuntimeMatches}

StallMayLapse(set) ==
    /\ set # {}
    /\ set \subseteq {"ComponentUnhealthy", "MissingProcess", "ActiveOperation",
                      "ReconciliationRequired", "InsufficientStall"}

transient_only(set) ==
    /\ set # {}
    /\ set \subseteq {"ComponentUnhealthy", "MissingProcess",
                      "ReconciliationRequired"}

-----------------------------------------------------------------------------
(* The child's lane: evidence, ticks and restarts.                         *)

\* Bookkeeping of the stall the snapshot is in.
Follow(next) ==
    IF next.state # "Stalled" THEN [stall EXCEPT !.begin = NoTime]
    ELSE IF snap.state = "Stalled" THEN stall
    ELSE [number |-> stall.number + 1, begin |-> wall]

\* Here every observation is new and arrives when it is sampled, so the
\* ordering cursor and the events of the last step need not be kept.
Kept(s) == [s EXCEPT !.events = {}, !.last_id = 0, !.last_mono = NoTime]

Observed(kind, arg) ==
    Kept(reduce_observation(snap, [id |-> 1, at |-> Now, trusted |-> TRUE,
                                   kind |-> kind, arg |-> arg]))

Inputs(kind) ==
    CASE kind = "NativeState" -> NativeStates
      [] kind = "DeadlineSet" -> Deadlines
      [] OTHER -> PayloadArgs(kind)

Evidence ==
    /\ wall <= Horizon
    /\ \E kind \in Kinds : \E arg \in Inputs(kind) : snap' = Observed(kind, arg)
    /\ stall' = Follow(snap')
    /\ stall'.number <= MaxStalls
    /\ UNCHANGED <<wall, boot, restarts, failures, proc, env, pass, saga,
                   evaluated, warned, signals>>

Tick ==
    /\ snap' = Kept(reduce_tick(snap, Now))
    /\ stall' = Follow(snap')
    /\ UNCHANGED <<wall, boot, restarts, failures, proc, env, pass, saga,
                   evaluated, warned, signals>>

NoPass ==
    [at |-> "idle", now |-> [wall |-> 0, mono |-> 0], trusted |-> FALSE,
     automation |-> FALSE, sigkill |-> FALSE, state |-> "Unknown",
     blockers |-> {}, fresh |-> None, changed |-> FALSE, exited |-> FALSE,
     record |-> NoSaga, stall |-> NoStall]

\* The server stops, wherever its pass is, and starts again.
Restart ==
    /\ wall <= Horizon
    /\ restarts < MaxRestarts
    /\ restarts' = restarts + 1
    /\ boot' = wall
    /\ snap' = Kept(reduce_restarted(snap, [wall |-> wall, mono |-> 0]))
    /\ pass' = NoPass
    /\ evaluated' = wall
    /\ UNCHANGED <<wall, failures, proc, env, saga, stall, warned, signals>>

\* The adapter saw the session again.
Reconcile ==
    /\ snap' = reduce_reconciled(snap)
    /\ UNCHANGED <<wall, boot, restarts, failures, proc, env, pass, saga,
                   evaluated, stall, warned, signals>>

-----------------------------------------------------------------------------
(* The environment: the process, and facts other components maintain.      *)

Exit ==
    /\ proc # "gone"
    /\ proc' = "gone"
    /\ UNCHANGED <<snap, wall, boot, restarts, failures, env, pass, saga,
                   evaluated, stall, warned, signals>>

\* Another process takes the PID.
Reuse ==
    /\ proc = "gone"
    /\ proc' \in Processes \ {snap.process, saga.process}
    /\ UNCHANGED <<snap, wall, boot, restarts, failures, env, pass, saga,
                   evaluated, stall, warned, signals>>

Toggle(switch) ==
    /\ wall <= Horizon
    /\ env' = IF switch \in env THEN env \ {switch} ELSE env \cup {switch}
    /\ UNCHANGED <<snap, wall, boot, restarts, failures, proc, pass, saga,
                   evaluated, stall, warned, signals>>

\* Time passes; the five-second worker keeps reaching the child.
Advance ==
    /\ wall < MaxTime
    /\ wall - evaluated < PassEvery
    /\ wall' = wall + 1
    /\ UNCHANGED <<snap, boot, restarts, failures, proc, env, pass, saga,
                   evaluated, stall, warned, signals>>

-----------------------------------------------------------------------------
(* TerminationMonitor::reconcile, for one child.                           *)

\* The pass takes its policy, the relations and the time.
BeginPass ==
    /\ pass.at = "idle"
    /\ pass' = [NoPass EXCEPT !.at = "read", !.now = Now,
                              !.trusted = "trusted" \in env,
                              !.automation = "automation" \in env,
                              !.sigkill = "sigkill" \in env]
    /\ UNCHANGED <<snap, wall, boot, restarts, failures, proc, env, saga,
                   evaluated, stall, warned, signals>>

\* Whether the process can be read: never when none is recorded.
Readings == IF snap.process = None THEN {FALSE} ELSE {TRUE, ~SamplerFails}

\* It reads the snapshot, samples the process and consults health.
ReadFacts ==
    /\ pass.at = "read"
    /\ \E read \in Readings :
           LET fresh == IF read /\ proc = snap.process THEN proc ELSE None
           IN  pass' = [pass EXCEPT
                          !.at = "act", !.state = snap.state,
                          !.stall = stall,
                          !.fresh = fresh,
                          !.changed = read /\ proc \notin {"gone", snap.process},
                          !.exited = read /\ proc = "gone",
                          !.blockers = assess_termination(snap, pass.now,
                                          pass.trusted, "healthy" \in env, fresh)]
    /\ evaluated' = wall
    /\ UNCHANGED <<snap, wall, boot, restarts, failures, proc, env, saga,
                   stall, warned, signals>>

-----------------------------------------------------------------------------
(* TerminationEngine::reconcile, one action per way it ends.  The guards   *)
(* follow the order of its early returns.                                  *)

legacy_sigkill_opt_out ==
    /\ saga.stage = "Sigterm"
    /\ saga.next_action_at = NoTime
    /\ saga.last_outcome = "AutomationDisabled"
    /\ pass.sigkill

DueAtOnce == saga.stage # None

IsDue ==
    \/ legacy_sigkill_opt_out
    \/ saga.next_action_at # NoTime /\ pass.now.wall >= saga.next_action_at

\* The reads past which each branch is taken.
Open == pass.at = "act" /\ saga.stage \notin {"Completed", "Aborted"}

child_exited == pass.exited \/ pass.state \in {"Completed", "Cancelled"}

Enabled == Open /\ ~child_exited /\ pass.automation

\* The process read is not the one the warning was about.
ProcessDiffers == pass.changed \/ saga.process # pass.fresh

ProcessUnread == ~pass.changed /\ pass.fresh = None

Same == Enabled /\ saga # NoSaga /\ ~ProcessDiffers

Due == Same /\ pass.blockers = {} /\ IsDue

\* persist: the row that replaces the saga's.
Row(stage, next, outcome) ==
    [stage |-> stage, next_action_at |-> next, process |-> pass.fresh,
     last_outcome |-> outcome]

EndPass(row) ==
    /\ saga' = row
    /\ pass' = NoPass
    /\ UNCHANGED <<snap, wall, boot, restarts, proc, env, evaluated, stall,
                   signals>>

Persist(row) == EndPass(row) /\ UNCHANGED <<failures, warned>>

\* finish_if_exited.
FinishIfExited ==
    /\ Open /\ child_exited /\ saga # NoSaga
    /\ Persist(Row("Completed", NoTime, "ChildExited"))

\* disable.
Disable ==
    /\ Open /\ ~child_exited /\ ~pass.automation /\ saga # NoSaga
    /\ Persist(Row("Aborted", NoTime, "AutomationDisabled"))

\* start.
Start ==
    /\ Enabled /\ saga = NoSaga /\ pass.blockers = {}
    /\ EndPass(Row("WarningGrace", pass.now.wall + warning_grace,
                   "WarningScheduled"))
    /\ warned' = [number |-> pass.stall.number, process |-> pass.fresh,
                  at |-> pass.now.wall]
    /\ UNCHANGED failures

\* identity_changed.
IdentityChanged ==
    /\ Enabled /\ saga # NoSaga /\ ProcessDiffers /\ ~ProcessUnread
    /\ Persist(Row("Aborted", NoTime, "SafetyAborted"))

\* handle_blockers.
HandleBlockers ==
    /\ Same /\ pass.blockers # {} /\ ~transient_only(pass.blockers)
    /\ Persist(Row("Aborted", NoTime, "SafetyAborted"))

GracefulWithoutDeadline ==
    /\ Due /\ saga.stage = "WarningGrace"
    /\ Persist(Row("GracefulCancel", NoTime, "GracefulUnsupported"))

\* advance_due from WarningGrace: no runtime offers a graceful request.
RequestGraceful ==
    /\ Due /\ saga.stage = "WarningGrace"
    /\ Persist(Row("GracefulCancel", pass.now.wall + action_grace,
                   "GracefulUnsupported"))

\* advance_due from Sigterm with SIGKILL switched off.
NoteSigkillDisabled ==
    /\ Due /\ saga.stage = "Sigterm" /\ ~pass.sigkill
    /\ saga.last_outcome # "SigkillDisabled"
    /\ Persist(Row("Sigterm", saga.next_action_at, "SigkillDisabled"))

\* The branches that commit nothing: Suspended and NoAction.
LeaveAlone ==
    /\ pass.at = "act"
    /\ \/ ~Open
       \/ Open /\ saga = NoSaga
              /\ (child_exited \/ ~pass.automation \/ pass.blockers # {})
       \/ Enabled /\ saga # NoSaga /\ ProcessDiffers /\ ProcessUnread
       \/ Same /\ transient_only(pass.blockers)
       \/ Same /\ pass.blockers = {} /\ ~IsDue
       \/ Due /\ saga.stage = "Sigterm" /\ ~pass.sigkill
              /\ saga.last_outcome = "SigkillDisabled"
       \/ Due /\ saga.stage = "Sigkill"
    /\ Persist(saga)

\* A plausible slip: whatever holds the PID is signalled.
SignalsThePid(kind, row) ==
    IF proc # "gone"
    THEN /\ signals' = signals \cup {[kind |-> kind, to |-> proc,
                                      number |-> pass.stall.number,
                                      at |-> pass.now.wall]}
         /\ proc' = IF kind = "Kill" THEN "gone" ELSE proc
         /\ pass' = [pass EXCEPT !.at = "persist", !.record = row]
    ELSE /\ pass' = [pass EXCEPT !.at = "persist", !.record =
                        Row("Aborted", NoTime, "SafetyAborted")]
         /\ UNCHANGED <<signals, proc>>

\* open_verified and signal: the pidfd is opened only on the expected process.
Deliver(kind, row) ==
    IF proc = pass.fresh
    THEN /\ signals' = signals \cup {[kind |-> kind, to |-> proc,
                                      number |-> pass.stall.number,
                                      at |-> pass.now.wall]}
         /\ proc' \in IF kind = "Kill" THEN {"gone"} ELSE {proc, "gone"}
         /\ pass' = [pass EXCEPT !.at = "persist", !.record = row]
    ELSE /\ pass' = [pass EXCEPT !.at = "persist", !.record =
                        Row("Aborted", NoTime, "SafetyAborted")]
         /\ UNCHANGED <<signals, proc>>

SendTerminate ==
    /\ Due /\ saga.stage = "GracefulCancel"
    /\ Deliver("Terminate", Row("Sigterm", pass.now.wall + action_grace,
                                "SignalSent"))
    /\ UNCHANGED <<snap, wall, boot, restarts, failures, env, saga,
                   evaluated, stall, warned>>

SendKill ==
    /\ Due /\ saga.stage = "Sigterm" /\ pass.sigkill
    /\ Deliver("Kill", Row("Sigkill", NoTime, "SignalSent"))
    /\ UNCHANGED <<snap, wall, boot, restarts, failures, env, saga,
                   evaluated, stall, warned>>

\* The row that follows a signal commits.
PersistSignal == pass.at = "persist" /\ Persist(pass.record)

\* The store fails, before or after a signal, and the pass ends with an error.
FailToPersist ==
    /\ pass.at \in {"act", "persist"}
    /\ failures < MaxFailures
    /\ failures' = failures + 1
    /\ EndPass(saga)
    /\ UNCHANGED warned

-----------------------------------------------------------------------------

\* The row of a version that recorded switched-off SIGKILL differently.
LegacySaga ==
    [stage |-> "Sigterm", next_action_at |-> NoTime, process |-> Child,
     last_outcome |-> "AutomationDisabled"]

\* A child that stalled when the epoch began, after evidence of its process
\* and of the stall.  A saga of an older version implies a restart since.
Init ==
    /\ wall = 0 /\ boot = 0 /\ restarts = 0 /\ failures = 0 /\ evaluated = 0
    /\ \/ saga = NoSaga
       \/ Legacy /\ saga = LegacySaga
    /\ snap = [NewSnapshot(Now) EXCEPT !.state = "Stalled",
                                       !.stalled_since = 0,
                                       !.last_reminder = 0,
                                       !.process = Child,
                                       !.reconciliation_required = saga # NoSaga]
    /\ proc = Child
    /\ env = Switches
    /\ pass = NoPass
    /\ stall = [number |-> 1, begin |-> 0]
    /\ warned = [number |-> IF saga = NoSaga THEN 0 ELSE 1,
                 process |-> saga.process, at |-> NoTime]
    /\ signals = {}

Decide ==
    \/ FinishIfExited \/ Disable \/ Start \/ IdentityChanged
    \/ HandleBlockers \/ RequestGraceful \/ NoteSigkillDisabled
    \/ LeaveAlone \/ SendTerminate \/ SendKill

Monitor == BeginPass \/ ReadFacts \/ Decide \/ PersistSignal

Next ==
    \/ Evidence \/ Tick \/ Restart \/ Reconcile
    \/ Exit \/ Reuse \/ (\E switch \in Toggles : Toggle(switch))
    \/ Advance
    \/ Monitor \/ FailToPersist

Spec == Init /\ [][Next]_vars

-----------------------------------------------------------------------------
(* Properties.                                                             *)

\* A signal only reaches the process the warning named, although PIDs are
\* reused and the session may report a new process (identity_changed,
\* open_verified).
OnlyWarnedProcess == \A s \in signals : s.to = warned.process

\* SIGTERM follows the warning by both graces, SIGKILL follows a SIGTERM by
\* one, by the clock samples of the passes that decide, also across restarts
\* and rows that failed to commit (advance_due, signal).
GraceRespected ==
    warned.at # NoTime =>
        \A s \in signals :
            \/ /\ s.kind = "Terminate"
               /\ s.at >= warned.at + warning_grace + action_grace
            \/ /\ s.kind = "Kill"
               /\ \E t \in signals :
                      t.kind = "Terminate" /\ s.at >= t.at + action_grace

\* The warning is scheduled only when the child has really been stalled for
\* TerminateAfter, although the monotonic marks survive a change of epoch
\* (assess_termination on a persisted stalled_since).
StalledBeforeWarning ==
    [][(saga = NoSaga /\ saga' # NoSaga)
       => /\ pass.stall.begin # NoTime
          /\ warned'.at - pass.stall.begin >= TerminateAfter]_vars

\* A stall that ended cancels the saga: a signal belongs to the stall that was
\* warned about, as long as the child is evaluated and its process can be read
\* (handle_blockers).
SignalsWarnedStall == \A s \in signals : s.number = warned.number

\* The verdict of a pass that would read everything now.
LiveBlockers ==
    assess_termination(snap, Now, "trusted" \in env, "healthy" \in env,
                       IF proc = snap.process THEN proc ELSE None)

=============================================================================
