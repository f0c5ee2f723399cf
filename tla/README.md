# agent-watchdog: TLA+ models and proofs

agent-watchdog is a server that watches coding-agent sessions (Claude Code, Codex CLI, Codex
Companion). It gathers evidence about every session, reduces it to a state, notices when a session
stalls, tells the parent, and, where a policy allows it, terminates the stalled child process. This
directory models the logic on which those promises rest, checks it with TLC on small instances and
proves part of it with TLAPS for every instance.

Paths below are relative to `src/`.

## The system

| Component | State it keeps | Operations | Talks to |
| --- | --- | --- | --- |
| Session reducer (`crates/watchdog-domain/src/reducer.rs`, `state.rs`) | one `SessionSnapshot` per session: state, stall clock, deadline, conflict memo, restart gate | `reduce`: observation, tick, restarted, reconciled | called by the coordinator |
| Session coordinator (`crates/watchdog-runtime/src/coordinator.rs`) | event identity counter | `apply_input`: load, reduce, allocate event identities, commit | reducer, store |
| Observation admission (`crates/watchdog-server/src/agent_api.rs`, `crates/watchdog-runtime/src/queue.rs`) | per session: bounded queue, degraded flag, drainer flag, admission mutex; shared: `queue_health_transition`, uncertain sessions; rejection rows | `apply_observation`, `drain_observations`, `persist_queue_rejection`, `reconcile_rejected_observation`, start-up | coordinator, store, health |
| Durable store (`crates/watchdog-store`) | sessions, snapshots with revisions, observations, events, relations, sagas, outbox, aliases, cursors | SQLite transactions | everybody |
| Termination (`crates/watchdog-server/src/termination.rs`, `crates/watchdog-domain/src/safety.rs`, `crates/watchdog-process/src/linux.rs`) | one saga row per child: stage, due time, process identity, last outcome | monitor pass, gate, stages, pidfd signals | snapshots, process sampler, health, configuration |
| Agent API (`agent_api.rs`) | transport bindings, watch scopes, inbox cursors | register, report, wait, list events, deadlines | admission, store |
| MCP transport (`mcp.rs`) | table of HTTP sessions | admit, evict, close | agent API |
| Watching (`watcher.rs`, `server.rs`) | the callback's queue and flags, request bits and wake-up, uncertainty generation, health of the file system | callback, supervisor, discovery worker, activity worker, reload | discovery, health |
| Discovery (`discovery.rs`, `incremental.rs`, `scan.rs`) | file cursors, alias memories, history marks | Claude registry, transcripts and teams, Codex threads, Companion jobs | adapters, agent API |
| Adapters (`watchdog-claude`, `watchdog-codex`, `watchdog-companion`) | parser state | native records to observations | discovery, hooks |
| Hooks (`hooks.rs`, `watchdog-codex/src/hooks.rs`) | none of their own | one HTTP request each | agent API |
| Process monitor (`process_monitor.rs`, `watchdog-process`) | last counters per process | sample, derive activity | agent API |
| Worktree activity (`filesystem_activity.rs`, `watch_paths.rs`) | registered paths, generation, targets | register, refresh, build, attribute | watcher, agent API |
| Correlation (`watchdog-domain/src/correlation.rs`) | relation candidates | choose parents | store |
| Repository metadata (`github.rs`, `server.rs`) | metadata rows, lookup cache | scan, look up | store, dashboard |
| Health (`health.rs`) | component and scoped component states | publish, aggregate | termination gate, dashboard |
| Notifications (`notifications.rs`), dashboard (`dashboard/`, `web/app.ts`) | outbox rows, attempts, broadcast channel | deliver pending, stream | webhooks, browsers |
| Configuration (`config.rs`, `path_mapping.rs`) | settings | validation | everybody |

What makes it hard:

* Concurrency. Producers (MCP requests, hooks, adapters, the process monitor), one drainer per
  session, and the timer, termination, discovery, activity and delivery workers are tokio tasks;
  they interleave at every `await`. Admission uses two mutexes that different tasks take in different
  orders. The watcher's callback runs on a thread of its own.
* Time. Every sample is a pair of wall and monotonic time. Samples are taken by one task and
  applied by another, late and out of order. Monotonic marks are persisted, and a restart begins
  a new epoch.
* Failure. The server may stop between a signal and the row that records it, between publishing
  health and writing the rejection row, between ingesting a record and saving the cursor. The store may
  fail. A process may exit, and its PID may be given to another one.
* Ordering. Activity is coalesced in the queue, evidence is replayed, conflicts are raised and
  resolved around waits, pauses and terminal states, identities are allocated before they commit.
* Files others write. Registries, transcripts, task files and job records change while a pass
  reads them, are truncated, replaced and torn.

What each part must guarantee: a session is never called stalled before its clock really ran that
long, and always is eventually; a restart keeps quiet until somebody vouches; evidence that was
refused makes the session uncertain until that very evidence is replayed; a producer is answered;
a signal reaches only the process that was warned about, after its graces, for the stall that was
warned about; no event is acknowledged for somebody who has not been given it; a transport sees one
tree and only that one; a change on disk is read in the end, and no record is skipped; nothing is
credited to, and nobody is retired on, evidence that is not about them.

`PROJECT.json` lists the hazards with the line at which each one bites and the properties aimed at
it.

## Modules

Components:

| Module | Models |
| --- | --- |
| `SessionReducer` | the pure reducer: one operator per function of `reducer.rs`, on an abstract snapshot |
| `SessionTimers` | one session's lane: evidence, timer passes, restarts, reconciliation, time |
| `ObservationAdmission` | producers, drainers, the bounded queues, both mutexes, health and rejection rows |
| `HookIngest` | Claude and Codex hooks from request to answer: parents, aliases, late stamps, redelivery, the store's refusals |
| `TerminationSaga` | gate, monitor pass, saga row, signals and processes of one child; extends `SessionReducer` |
| `EventLog` | event identities, the transactions that store events, restarts |
| `ParentInbox` | `list_events`, the inbox row of one root and the client that reads it; extends `EventLog` |
| `HumanDelivery` | outbox, webhook dispatcher, dashboard dispatcher, broadcast channel and one browser; extends `EventLog` |
| `TransportSessions` | the bounded table of MCP transports: admission under the creation mutex, eviction, close, the gauge |
| `Registration` | `ScopeRegistry`, registrations of mains and children, aliases, scoped calls; extends `TransportSessions` |
| `ScopeContract` | the abstract specification of scopes, implemented by `Registration` |
| `WatchPipeline` | inotify callback, supervisor, request bits and wake-up, discovery and activity workers, reload, suspension |
| `TranscriptTail` | `IncrementalReader` and the passes over one growing, truncated or replaced file |
| `LiveRegistry` | Claude's live registry and the retirement of absent mains |
| `TeamTasks` | a Claude team member's configuration and task files folded into one report |
| `TranscriptAliases` | which session a transcript belongs to: cache, shared registry and durable alias |
| `CodexThreads` | Codex threads from rollouts and the state database, with inferred Claude parents |
| `CompanionJobs` | Companion jobs, recorded twice, their outcome and their log |
| `ProcessMonitor` | one capture of `/proc`, one tree per session, progress between samples |
| `WorktreeActivity` | registered worktrees, watch targets and the attribution of changed directories |
| `RepositoryEnrichment` | the metadata row written whole by hooks, scans and the GitHub worker |
| `Correlation` | `correlate`: which parent the evidence supports |

Instances for TLC: `MCSessionTimers`, `MCWorkers` (timers beside the watch pipeline),
`MCObservationAdmission`, `MCHooks` (admission beside hooks), `MCTerminationSaga`,
`MCDelivery` (delivery beside repository columns and correlation), `MCRegistration`, `MCActivity`
(processes, worktrees and the parent's inbox), `MCDiscovery` (one family of discovery at a time). Where an MC module
puts components side by side they share no variable in the code either (they meet in the store, at
different rows); a variable `topic` or `family`, chosen at the start, says which one moves, so the
state spaces add up instead of multiplying.

Proofs: `SessionReducerProofs` (lemmas on single reductions), `WorkersProofs` (the components of
`MCWorkers` and `MCActivity`), `TerminationSagaProofs`, `ObservationAdmissionProofs` (the two of
`MCHooks`), `DeliveryProofs` (event log, inbox, human delivery, correlation), `RegistrationProofs`,
`TranscriptTailProofs`, `DiscoveryProofs` (live registry, team tasks, Codex threads, Companion jobs, transcript
aliases).

### SessionReducer and SessionTimers

A snapshot is a record with the fields of `SessionSnapshot` that the reducer reads: `state`,
`last_activity`, `pause_started`, `paused_elapsed`, `stalled_since`, `last_reminder`, the explicit
deadline, the conflict flag and its memo, `reconciliation_required`, the process identity and the
replay cursor. Optional times use `NoTime`. The domain events of the last step are kept in
`events`, because the properties speak of alerts and reminders. Texts, capability lists and
revision numbers are left out: no branch depends on them. Unsigned subtractions saturate as in the
code (`saturating_sub`).

`SessionTimers` has one action per coordinator input: `Evidence` (`apply_observation`; the sample
may be up to `MaxDelay` old, it may be untrusted, and it may carry an identity used before), `Tick`
(one session's turn in `reconcile_timers`), `Restart` (`mark_restarted` in a new monotonic epoch) and
`Reconcile` (`mark_native_reconciled`). `Advance` is the clock. The history variables `mark`,
`credit`, `notice` and `vouched` measure independently of the reducer's own fields how long the
clock ran since the last activity, when the last notice was given and whether anybody vouched for
the session since the last restart.

### ObservationAdmission and HookIngest

One step of `ObservationAdmission` is the code between two awaits that matter: a mutex, a store call
or the answer channel. A producer goes `idle`, `submit`, then `waiting` (admitted) or `persist` and
`saving` (refused). The drainer of a lane goes `pop`, `apply`, `reconcile`, `clearing`, `admit`, and
back. `admission[s]` and `transition` name the holder of the two mutexes: a refused producer keeps
the admission mutex while it waits for `queue_health_transition`, and the drainer keeps
`queue_health_transition` while it waits for the admission mutex. A producer's connection may
close at any await (`Cancel`), which drops its future and releases what it holds. The coordinator
may fail (`FailToApply`), the rejection row may not be written or cleared (`FailToSave`,
`FailToClear`), and `Restart` loses all memory and rebuilds the uncertain sessions from the table.
Tickets number the admissions, so that order can be stated.

`HookIngest` follows a hook through its own awaits: the parent main, the subject, the stamp, the
application. Admission is one step there. A stamp may be older than what has been applied; the store
then refuses the unchanged revision.

### TerminationSaga

The monitor evaluates a child in a pass: it takes policy and clock (`BeginPass`), then reads
snapshot, process and health (`ReadFacts`), then leaves `TerminationEngine::reconcile` through one
of its exits; the guards of the ten actions under `Decide` follow the order of its early returns.
A signal is a step of its own and the row that records it the next one (`PersistSignal`), so
evidence, exits, PID reuse and crashes fall in between. `FailToPersist` is a store failure.
The child's lane is the same `SessionReducer`. The environment may end the process, give its
PID to another one, and switch trust, health, automation and SIGKILL.

Production configures no graceful canceller, so that request answers `Unsupported`, as in the
code. History variables number the stalls and record what was warned about and which signals were
sent.

### EventLog, ParentInbox, HumanDelivery

A writer (a session's coordinator or the termination engine) draws identities one by one
(`Allocate`) and its transaction then stores all its events (`Commit`) or none (`Rollback`). `log` is
`state_transitions` in commit order. A restart draws again from `MAX(event_id) + 1`.

A call of `list_events` reads the row (`ReadOffset`), reads the page (`ReadPage`), saves the row
(`SavePage`) and answers; the answer may be lost, a store call may fail, and two calls may overlap,
as they do when a client reconnects while its old request is still running. The client confirms
cursors it received, in any order, or one it guessed. `late` records the events that committed below
a page that had been read already.

Outbox rows are not a variable of their own: the rows of a destination are those of the log, and
`acked` says which are delivered. The webhook dispatcher works entry by entry (look up the attempt,
send, record, acknowledge); the dashboard dispatcher reads both batches, reads a snapshot, publishes
it and acknowledges. Rows are named by their position in the log (the outbox ids follow the commit
order), and a snapshot is the number of events it shows: all that were committed when it was read. It is read in one step: in the code the
sessions are read one after another, but every property speaks of one event, whose session is read
once. The revision number of a snapshot is left out, as the browser only displays it. The browser
applies snapshots in the order of arrival, so that it may be shown an older one after a newer one.

### TransportSessions, Registration, ScopeContract

A task of the session manager admits a transport under the creation mutex, evicting the least
recently used one when the table is full, or closes one without any lock. A request goes through the
awaits of `register_session_with_provenance`: it leases an alias, may be redirected, reserves the
binding of its transport (`Reserve`), resolves its parent, persists the session and its relation, and
commits or rolls back the reservation; the transport may be closed, evicted and reused in between,
which the generation of a binding is there to notice. `ReleaseScope` is the close reaching the
registry.

`ScopeContract` says what a client is promised: nothing is visible until a registration succeeds,
then exactly one tree until release, and trees only grow. `Contract` in `Registration` instantiates
it with the mapping `Tree` (the stored sessions by root) and `Scope` (the committed root of a
transport), and `ScopesKept` says that every step of the detailed model is a step or a stutter of it.

### WatchPipeline

The callback sets flags and queues events without waiting; a full queue loses them and says so. The
supervisor polls, rebuilds the watches and requests reconciliation; a request sets its bits and then
leaves a wake-up, and the discovery worker takes the bits in a pass. Loss of coverage raises the
uncertainty generation. The worker notes the generation (`LoadGeneration`), runs its pass, compares
(`CompareGeneration`) and then reports the file system as reconciled (`PublishHealthy`); the supervisor
is a thread of its own, so a loss may fall between any two of these, the last two included. `worker.current`
is history: no loss since the pass noted the generation. It appears in no guard.

### Discovery and progress

`TranscriptTail`, `LiveRegistry`, `TeamTasks`, `TranscriptAliases`, `CodexThreads` and
`CompanionJobs` are one pass each over files another program writes: every read and every store
call is a step, the writers act in between, steps fail, the server restarts and keeps only what is in
the store. `ProcessMonitor` and `WorktreeActivity` are the two sources of progress that no runtime
reports. `RepositoryEnrichment` and `Correlation` decide what a card shows.

In `TeamTasks`, `config` is the team's configuration: whether the member is active, whether its name and
the team's are unique, and whether the file is younger than the 24 hours beyond which
`collect_team_configs` ignores it. `ReadTeam` registers the member and lists the files, `ReadTask` and `StatTask` read
a file's content and then its modification time, `IngestTasks` reports the totals under a key made of
them. The member's state is not the tasks' alone: hooks, transcripts and the timer move it as well
(`OtherEvidence`), so the properties speak of the totals last reported (`member.report`). History: `busy`
are the tasks that have run since the pass began, `left` those whose file it could not read, `again` says that a
file stopped counting or could not be read, so that the totals may be ones reported before.

## Runs

| Run | Shows |
| --- | --- |
| `timers` | A parent sets, pauses, resumes and clears deadlines, native states, conflicts, process identities and compatibility reports arrive late and untrusted, with one restart: `TypeOK`, `StallMarksCoupled`, `QuietUntilVouched`, `NoPrematureStall`, `ReminderCadence`, `SilenceEndsInStall`. The watch pipeline under lost events, full queues and failed passes: `BitsHaveWakeup`, `EveryChangeRead`, `SuspensionLifted`. |
| `admission` | Three producers and two lanes that share the transition mutex, one with the overflow marker of an old database; a failing save, cancellations, a restart: `FailClosed`, `RefusedIsRemembered`, `NoStrandedEntry`, `WaiterHasEntry`, `AdmissionOrder`. Hooks delivered late, twice and while the store fails: `AckedIsStored`. |
| `saga` | Evidence, conflicts, a new process identity, exits, PID reuse, failing commits, switches, a parent and a restart between the steps of a pass, and a row of an older version: `OnlyWarnedProcess`, `GraceRespected`, `WarnedStallOrUnread`, `StalledBeforeWarning`, `EligibleChildEnds`. |
| `delivery` | Both dispatchers and a browser, one channel not configured, one store failure, one restart: `AcknowledgedWasAttempted`, `AcknowledgedIsShown`, `EverythingSettles`, `BrowserCatchesUp`. The repository columns of a card: `BranchComesThrough`. Three candidates for a parent: `NoCloseCall`. |
| `registration` | Two transports in a table of one, two tasks, two requests, two mains and a child: `CapacityHeld`, and `ScopesKept`, the refinement of `ScopeContract`. |
| `tail` | A file that is appended to, truncated, replaced and rewritten: `NoRecordSkipped`, `CatchesUp`. |
| `live` | Two mains that start, exit and reuse PIDs during a pass: `UncertainRetiresNothing`, `LiveComesBack`. |
| `activity` | `DeadGetsNoProgress` of the process monitor, `OwnerCredited` of the worktrees. Of the inbox, with two writers, two overlapping calls, lost answers, one store failure and one restart: `IdsUnique`, `AcknowledgedWasRead`. |
| `discovery` | `TotalsReported` (team tasks), `TranscriptsFollowed`, `NeverGuesses` (Codex parents), `OutcomeArrives` (Companion jobs). |
| `found_deadlock`, `found_late`, `found_overflow` | Disagreements between the code and what a document or comment says of it; see below. |

`live` and `tail` check deadlock. The others say `CHECK_DEADLOCK FALSE`, because time, submissions and
restarts are bounded and a behaviour may end at the bounds; that nobody is stuck before is what
`SilenceEndsInStall`, `EligibleChildEnds`, `EverythingSettles` and the other liveness properties check.

### Bounds

* Timers: `SuspectAfter` < `StallAfter` are 1 and 2 units, the reminder cadence 2, so that suspicion,
  stall and reminders all happen before `MaxTime`, which is 7. `Horizon` ends the environment's part, and
  `MaxTime` leaves room after it for the longest delay. Two observation identities are enough for a
  replay and for a different observation with the same sample. One restart is enough to meet marks of
  another epoch; a second one meets nothing new, because `Restarted` treats all older epochs alike.
* Admission: a lane of two with three producers is full with one in the queue, one with the drainer
  and one refused. Four submissions allow a refusal and its replay around another entry. Producers
  are interchangeable (`SYMMETRY`).
* Saga: `PassEvery` says how long the child may go unevaluated. `TerminateAfter` is larger, in the
  code one hour against five seconds; otherwise a stall could end and another begin unseen between
  two passes and `WarnedStallOrUnread` would fail for want of any look at the child. `MaxDisturbances`
  allows every kind of disturbance but two in a behaviour. The graces are one unit, their minimum
  (`TerminationConfig::new` refuses zero). `LateStall` takes out of `EligibleChildEnds` the stalls that
  begin too late to be carried through before `MaxTime`.
* Inbox and delivery: three events, two to a transaction, are enough for identities of two
  transactions to interleave; a page of two then splits the log. `Guesses` is empty in the run: of a client that confirms a
  cursor it never received nothing is claimed by `AcknowledgedWasRead`; `AcknowledgedWasPaged` is about such
  clients too, and proved. Calls and writers are interchangeable (`SYMMETRY`). One entry per batch and one snapshot in the channel make batches split and the browser lag
  with two events.
* Registration: a table of one makes every second admission an eviction; two generations let a
  transport be reused while a request of its first life is still running.
* Watch pipeline: queues of one overflow with the second event; two runtimes give different bits. The
  two events of `MaxEvents` are a change or a loss before the pass and one during it, and
  `found_overflow` needs no more. `SuspensionLifted` and `EveryChangeRead` hold because the periodic tick
  starts a pass after the last of them.
* Tail: a buffer of three bytes, a limit of two for a partial line and files of four make records
  that fit, that are split over batches and that are too large.
* Discovery, live registry, activity: a few edits (`MaxEdits`, `MaxJobEvents`, `MaxUpdates`) and one or
  two faults; the bounds are per behaviour, so that each fault can fall on any step.

### Fairness

* Timers: weak fairness of `Advance` (time passes) and of `Tick(0)` (the timer worker of `server.rs`
  runs every five seconds and evaluates every session with the time of its pass).
* Watch pipeline: weak fairness of the supervisor's loop, of the discovery worker and of its periodic tick,
  each a loop of a running thread or task; `WatchSpec` has also the activity worker and the reporting of
  adapters, on which no property of the run depends.
* Admission: strong fairness of every producer's and every drainer's next step. tokio keeps polling a
  task that can proceed, and its mutexes are handed over in FIFO order, so a task for which a mutex
  becomes free again and again gets it. Submitting, cancelling and restarting are not fair.
* Saga: weak fairness of `Advance` and of `Monitor` (the termination worker runs every five seconds).
* Delivery: weak fairness of each dispatcher (both workers run every 250 ms) and of a browser
  reading its open stream; of the scans, the end of a hook's request and the GitHub worker.
* Tail, live registry, discovery: weak fairness of the next step of a running pass and of starting
  one (the discovery worker runs periodically).

Writers of files, evidence, exits, switches, failures and restarts are never fair.

## Where the code and its documents differ

Three are runs in which TLC finds the counterexample; `PROJECT.json` quotes the line.

* `found_deadlock`: in a full lane, a refused producer holds the admission mutex and waits for
  `queue_health_transition`, while the drainer holds `queue_health_transition` and waits for the
  admission mutex (`agent_api.rs` 1984 and 2081). Neither is ever answered and every other
  lane's reconciliation waits behind them.
* `found_late`: identities are drawn before the transaction. If two sessions of a tree draw 1 and 2
  and the second commits first, the parent reads and confirms 2, and event 1 is below its cursor when
  it commits: no later call returns it (`coordinator.rs` 218, `agent_api.rs` 1876).
* `found_overflow`: IMPLEMENTATION_STATUS 77, "a newer overflow cannot be cleared by an older scan", and
  ARCHITECTURE 632, suspended until a reconciliation completes "without a newer overflow". The comparison of the generation (`server.rs`
  894) and the report (895) are two operations; a loss found and reported by the supervisor in between is
  overwritten with `Healthy` by the older pass. The request that the loss raised starts another pass soon after, but
  automation is not suspended until then.

The others are definitions of the modules, each with the quotation it states, that TLC refutes when
they are added to the configuration of their component's run (for `WarningFollowsVersion` with
`tested` among its `Kinds`):

| Definition | What the document says, and what the code does |
| --- | --- |
| `SessionTimers!UnpausedSilenceStalls` | FR-STA-005 (`docs/REQUIREMENTS.md` 163). A session that leaves `WaitingForUser` through a source conflict keeps its clock paused, because only a transition out of `WaitingForUser` resumes it (`reducer.rs` 333): it never stalls. |
| `Registration!ParentInTree` | FR-DIS-004 (121), "Every child has one main-session root". A later registration with another parent selects a relation into another tree. |
| `Registration!ExactIdentityWins` | FR-MCP-010 (194), a native ID with a stored session registers against it "regardless of alias evidence". A request can be redirected along an alias although its own identity is stored. |
| `TransportSessions!CapacityUnreachable` | `mcp.rs` 166, "Unreachable while `max_sessions` is at least 1". A close that removes the last transport between the count and the choice leaves nobody to evict (267). |
| `TranscriptTail!NoInventedTerminal` | T-EVD-003 (`docs/TEST_SPECIFICATION.md` 103), "no invented terminal event" on replacement or truncation. A rewritten file is read from a boundary of the old one, so that a fragment can read as a terminal record. |
| `TranscriptTail!WarningFollowsVersion` | ARCHITECTURE 290, the upgrade warning is kept "only when detected and tested SemVer versions differ". A later record of a tested version does not always withdraw it (`discovery.rs` 1872). |
| `LiveRegistry!AbsentTerminal`, `ValidEntrySupplies` | FR-DIS-018 (135). An absent main can outlast a complete scan, and the process of a main with a valid entry can stay unknown: a report under an identifier the store has seen is refused. |
| `WatchPipeline!SuspendedUntilFull` | OPERATIONS 237: suspended until a *full* reconciliation finishes. A pass over one runtime ends the suspension (`server.rs` 1150). |
| `WatchPipeline!OverflowSuspends` | ARCHITECTURE 630: overflow "suspends destructive automation". A rebuild of the watches before the next poll drops the service together with its mark of the loss (`server.rs` 1088, 1117). |
| `ProcessMonitor!PidIsNoIdentity` | ARCHITECTURE 497, "PID alone is never an identity". Samples are compared by PID (`linux.rs` 93). |
| `CompanionJobs!RestartReconciles` | FR-DATA-001 (250). A job whose record did not change is reported under the same identifier after a restart, refused as seen, and keeps its gate. |
| `CompanionJobs!NoWrapperMain` | FR-DIS-015 (132). Jobs read before the alias is learned create the wrapper's card. |
| `CompanionJobs!StallSurvivesRereads` | FR-STA-008 (166). Rereading an unchanged running job ends its stall. |
| `TeamTasks!TotalsShown` | ARCHITECTURE 338, a running task normalizes to running, "then pending to starting; when no active task remains, the newest terminal task supplies" the outcome. Deleting a file can bring back totals that were reported before; their key is known, and the member keeps the state of the totals in between (`discovery.rs` 1200). A Running member that the timer makes Stalled stays so in the same way while its files rest. |
| `TeamTasks!InactiveFinishes` | FR-DIS-012 (129), "An inactive member is retained as a child with a terminal completed state". An inactive member without a finished task keeps the state it has, `Starting` when it is new (the code's own test expects that, `tests/discovery.rs` 1048). |
| `CodexThreads!ChildCompletes` | FR-DIS-010 (127). A child that is registered as a main when its `task_complete` is read waits for a user. |
| `CodexThreads!OriginIsFollowed` | FR-DIS-013 (130). A thread registered as a main before its Claude main is known stays one. |
| `CodexThreads!LastRecordShown` | The cursor of a rollout met for the first time starts at its end (`discovery.rs` 3468), so the state its last record gives is not shown. |
| `WorktreeActivity!ActiveOwnerCredited`, `NestedIsAttributable` | T-EVD-007 and ARCHITECTURE 484. Ended children count as owners; below a linked worktree nested directories have names nobody owns. |
| `HookIngest!FinishedStaysFinished`, `AliasedMainHeard` | ARCHITECTURE 777, "the reducer never revives a finished session" (`reducer.rs` 331); FR-MCP-010 (`agent_api.rs` 1329). |
| `Correlation!RivalsResolveNothing` | `correlation.rs` 231, "never silently resolves close or conflicting evidence". Only the second in rank is compared (295). |
| `RepositoryEnrichment!LinkIsOfBranch` | FR-UI-004 (221). Discovery changes the branch and keeps the pull request until the worker's next pass (`agent_api.rs` 1298). |

Further observations made while modelling. *Unsaved refusals*: if a rejection row
cannot be written, the session is uncertain only in memory, and the next success of any other
evidence lifts it (`agent_api.rs` 2110). *Paused stalls*: `stalled_long_enough` does not subtract paused
time, so a child that was paused while stalled is warned at once after it is resumed (`safety.rs` 262).
*Unread processes*: while the process cannot be read the blockers are not looked at, so a stall may
end and another begin without cancelling the saga (`termination.rs` 1190); `WarnedStallOrUnread`
therefore excepts it. *One attempt*: a crash between sending a webhook and recording the
attempt repeats it; only an attempt on record is never repeated (`notifications.rs` 219). *Shared
inbox*: a child's own transport is bound to the tree of its parent and reads and acknowledges the same
inbox row (`agent_api.rs` 1872). *Pauses*: an activity that arrives during a pause restarts the clock
but keeps the open pause, so the part of the pause before the activity is subtracted from the time
after it and the stall comes late (`reducer.rs` 540); `Restarted` clears an open pause of a waiting
session (288); the reminder mark is compared across epochs (470), so `ReminderCadence` is checked
within one epoch only; a second conflict after later evidence does not renew the memo, and the
resolution then restores the older state (385); after a restart a persisted `stalled_since` that is
ahead of the new monotonic clock yields `InsufficientStall`, which aborts a saga instead of suspending
it (`termination.rs` 1208).

## Further properties

Defined in the modules, satisfied on the instance of the component's run, and left out of its
configuration to keep one run per question: the type invariants of the other modules;
`AdapterRecovers` of the watch pipeline (under `WatchSpec`); `AcknowledgedWasPaged` of the inbox (proved); `PullComesThrough` of the repository columns;
`ConflictAnswered` of the tail; `GateLifted` of the live registry; `ListedIsTailed` of the Codex threads.
The following too, and they are proved below: `GaugeExact` and `PendingIsGuards` of the transports and
registrations; `RegistryMatchesStore` and `NoSilentGap` of the worktrees; `TasksTypeOK` and
`BusyNotFinished` of the team tasks; `RedeliveryIsIdle`
and `ParentIsCanonical` of the hooks; `ExplicitWins` of correlation; `AttemptNotRepeated` of the webhook
dispatcher; `NothingInvented` and `CursorForward` of the tail; `VerifiedNotRetired` of the live registry;
`ConsecutiveSamples` and `SharedStaysNeutral` of the activity; `RoleAndRootKept` of the Codex threads;
`OutcomeIsFinal`, `HistoryStaysOut` and `CreditsAreAppends` of the Companion jobs; `CreditNeedsEvidence`
and `ExactIdentityOutranks` of the aliases.

## Proofs

Each is for every value of the constants: any sets of tasks, sessions and inputs, any capacity, any
policy, and any number of failures and restarts. The assumptions are the named `ASSUME`s of the
modules: the types of the constants, and that marks for "nobody" or "nothing" are not names of
anything.

`SessionReducerProofs` and `WorkersProofs`

* `TypeCorrect`, `StallMarksCorrect` (`StallMarksCoupled`), `ConflictMemoCorrect`. The first part of
  the inductive invariant is `SoundInv`: `TypeOK` with `Sound(snap)`, which couples the stall marks with
  the state and the memo with the flag. The marks are not inductive alone: that a mark is set exactly
  in `Stalled` rests on `transition` clearing both when the state is left, and on the memo never being
  `None` while a conflict is latched (a resolution may restore `Stalled` and must set the marks again).
* `NeverPremature` (`NoPrematureStall`): `MeterInv` says that the reducer's baseline and pauses account
  for all time but what the history's meter has counted (`Metered`), at the last sample it took. Every
  function of the reducer keeps a meter (`MeterKept`) or starts it again (`Restarted`); there is one
  lemma for each, composed for each payload and each input.
* `RemindersInTime` (`ReminderCadence`): `NoticeInv` says that the last notice given is not older than
  the reducer's own mark, as long as both belong to the running epoch; the marks of a stall come from
  the step that enters it (`MarksFrom`).
* `QuietAfterRestart` (`QuietUntilVouched`): what clears the restart's gate is exactly what the history
  calls vouching, and ticks of a gated session raise nothing.
* Watch pipeline: `NoBitForgotten` (`BitsHaveWakeup`) and `WatchTypeCorrect`.
* Process monitor: `DeadUncredited` (`DeadGetsNoProgress`) and `SamplesConsecutive`
  (`ConsecutiveSamples`), from `MonitorInv`: an identity found dead while a capture is taken stays dead
  (start ticks are handed out once) and has no tree in the capture unless another session shares its
  pid, and a session that could not be sampled has lost its baseline. A credit compares two trees taken many steps apart; that both are of the
  identity the session has now rests on those two.
* Worktrees: `OwnersCredited` (`OwnerCredited`) and `NeutralKept` (`SharedStaysNeutral`), from
  `OwnersInv`: what a batch in the queue, or one the worker has loaded, says of the owners of a path is
  still true, or a claim has moved since. Both are proved as long as no more children are stored than
  the attribution can load (`WithinLimit`, on every state of the behaviour): `MAX_CHILD_SESSIONS` is 1 000
  (`filesystem_activity.rs` 18), and the query for children stops there (86), so beyond it an owner may be
  missed, or a worktree with two owners taken for one with a single owner.
* Watches: `RegistrationsStored` (`RegistryMatchesStore`) and `WatchesComplete` (`NoSilentGap`), from
  `GapInv`: the watches are complete for the registry whenever the watcher is healthy and the
  generation applied, or noted by a build that is done, is the current one (`BuiltForAll`). A build reads
  the registry after the generation was noted, so it may know more than it is taken to have applied,
  never less. `WatchesComplete` rests on one hypothesis about the projection alone, `FullBuildLists`: a list
  of candidates that was not cut and lost no path names every path it was made from. It is a fact of
  `SelectSeq` and `FlattenSeq`, whose recursion the provers cannot follow; TLC checked it, and
  `GapInv`, on the instance of `activity`.

`TerminationSagaProofs`

* `OnlyWarnedSignalled` (`OnlyWarnedProcess`), `GracesKept` (`GraceRespected`), `WarnedAfterStall`
  (`StalledBeforeWarning`), `SagaTypeCorrect`.
* The inductive invariant `SagaInv`: `StallOK` (the monotonic mark of a stall is not older than the
  stall, also when an earlier epoch set it), `PassOK` (a pass found without blockers read a stall of
  the configured length, and a row about to be written is in order), `RowOK` (a stage that may still
  act is about the warned process, and due no earlier than the graces after the warning or after a
  `Terminate` that was sent) and `SentOK` (the same of the signals). None of the properties is inductive
  alone: a signal is sent on the strength of a row, a row is written from what a pass remembers, and
  the row of a delivered signal commits a step later or never. The stall's length across a restart
  needs `TerminateAfter` to be positive, which `DeadlinePolicy::new` enforces (`policy.rs` 68). TLC
  checked `SagaInv` on the instance of `saga`.
* `StallKept` (`WarnedStallOrUnread`): every signal is about the stall that was warned of, unless a pass
  in between could not read the process or commit its row. It is about the specification of the MC
  module, which adds the rhythm of the passes, and has a hypothesis, `PassEvery < TerminateAfter`: the
  worker looks every five seconds and `terminate_after_stalled` is one hour by default (`policy.rs` 104).
  It is needed: with the two equal TLC finds a stall that ends and a second one that ripens between
  two looks. `RhythmInv`: no pass is later than `PassEvery` after the last look (`Rhythm`); a pass that
  acts on a row read the warned stall, or found that the stall is too short (`LookOK`); between
  looks only a stall too young to act on can have taken the place of the warned one (`WarnedOK`).

`ObservationAdmissionProofs`

* `TypeCorrect`, `BackpressureFailsClosed` (`FailClosed`), `RefusalRemembered`
  (`RefusedIsRemembered`), `NothingStranded` (`NoStrandedEntry`).
* The inductive invariant `IInv` adds to the properties: `Busy` (who submits has something to
  submit), `Exclusive` (`queue_health_transition` is held exactly by the task inside the section it
  guards), `Recorded` (a session is uncertain and Degraded before its row is written), `Replayed` (a
  drainer clears only what is stored), `Vouched` (a drainer about to lift the queue's flag still
  knows that nothing remains) and `Lanes` (the flag is up exactly while the lane has a drainer, and
  while it has entries). `FailClosed` is not inductive alone: `FinishReconcile` publishes `Healthy`
  on the strength of a table read two steps earlier, and only mutual exclusion on the transition
  keeps a new row out in between.
* `NobodyWaitsInVain` (`WaiterHasEntry`) and `TakenInOrder` (`AdmissionOrder`), from `LaneInv`, which adds
  `Ordered` (the tickets in a queue ascend, above the last one taken), `Released` (a drainer at the head
  of its loop holds nothing) and `Awaited` (a waiter's entry is in a queue or in a drainer's hands). The
  push is the hard step: `PushedShape` says where each entry is after one was cut out of the middle of
  the queue, and from there that the order survives and that only the producer of the displaced entry
  loses its own, and is answered. TLC checked the added parts on the instance of `admission`.
* Hooks: `AnsweredIsStored` (`AckedIsStored`), `RepeatIsIdle` (`RedeliveryIsIdle`) and
  `ChildBelowCanonical` (`ParentIsCanonical`), from `HookInv`: a call sent again was answered before,
  what was answered is stored, and the parent of a child about to be registered is a main of the store.
  The last rests on mains never changing their root (`MainsStay`), which every registration needs.

`DeliveryProofs`

* Inbox: `IdentitiesUnique` (`IdsUnique`), `OnlyReadAcknowledged` (`AcknowledgedWasRead`),
  `OnlyPagedAcknowledged` (`AcknowledgedWasPaged`), `RowNeverGoesBack` (`OffsetsMonotonic`: the saved
  row only moves forward, although calls overlap), `TypeCorrect`.
* The inductive invariant `InboxInv` rests on `LogInv`, which the human delivery shares: identities in the
  log and those drawn by open writers are disjoint and below the next one; without the open writers uniqueness is not inductive, because a commit stores
  identities drawn many steps before. `PagedInv`: what a row or a
  call in flight calls delivered was in a page that was read, up to the events that were late;
  `ReadInv`: the same for what the client received. The two are about every call in flight, not only
  the row, because a call saves what it read before others moved the row. TLC checked `InboxInv`
  on the instance of the inbox in `activity`.

* Human delivery: `AttemptedBeforeAcknowledged` (`AcknowledgedWasAttempted`), `AcknowledgedReachesStreams`
  (`AcknowledgedIsShown`), `OneAttempt` (`AttemptNotRepeated`: an attempt on record is never made
  again), `DeliveryTypeCorrect`.
* The inductive invariant `DeliveryInv` follows an entry through both dispatchers. `WorkerOK`: between its
  steps the webhook dispatcher still knows whether the event of its entry was attempted. `BoardOK`: a
  snapshot about to be published shows everything the dispatcher is going to acknowledge and everything
  acknowledged before. `BrowserOK`: the last snapshot of an open stream, read or still queued, shows
  what is acknowledged or about to be. The property speaks of what is acknowledged already; it is
  inductive only together with what is published and not yet acknowledged, and a stream that
  lags loses its oldest snapshot, never the last. TLC checked `DeliveryInv` on the instance of
  `delivery`.
* Correlation: `InferredNeedsGap` (`NoCloseCall`) and `ExplicitLinkDecides` (`ExplicitWins`), for any finite
  set of candidates. Both need that such a set has a best one; `FiniteHasTop` gives it for any strict order,
  from the least number of elements above one.

`RegistrationProofs`

* `CapHolds` (`CapacityHeld`), `ContractImplemented` (`ScopesKept`: the refinement of `ScopeContract`),
  `ScopeKeptUntilClose` (`ScopeLostByClose`: only the end of a close of that very transport takes a
  scope away), `TypeCorrect`.
* The inductive invariant `RegInv` has four parts. `PoolInv`: whoever is past the eviction holds the
  creation mutex and has found room; the cap is not inductive alone, since a creator inserts into a
  table it counted steps earlier. `ScopeTypes`. `StoreInv`: a stored main is its own root, a stored
  child has the root of a stored main, an alias leads to a main. `RequestsInv`: what a request has
  resolved is in the store, and stays there. The refinement is proved action by action: `Persist` of a
  main maps to `Join`, `Bind` or both at once, `ReleaseScope` to `Release`, and reservations,
  rollbacks and everything of the session manager to stutters (`BeginRegistrationHides`,
  `RollbackHides`).
* `GuardsCounted` (`PendingIsGuards`), for finitely many requests, and `GaugeRight` (`GaugeExact`).
  `GuardInv` counts, for every binding, the requests whose guard carries the binding's generation, and says
  that no generation in use is one still to be handed out. The count alone is not inductive: a guard of
  an earlier life of the transport outlives its binding, and only because generations are never
  reused does it not count for the next.

`TranscriptTailProofs`

* `NeverSkipped` (`NoRecordSkipped`), `NeverInvented` (`NothingInvented`) and `CursorNeverBack`
  (`CursorForward`), for the three adapters at once.
* The inductive invariant `TailInv`. `Kept`: while the file only grows, everything before the durable
  cursor is ingested, and the cursor stands at the end of a record. `Held`: the same for what a pass
  holds in memory, and the bytes it holds are still those of the file. `Offsets`: a batch is the
  complete records followed by the partial one. `WellFormed`: a head opens a record and nothing else
  does, so a cursor at a record's end is where the next one begins. `Sampled`: a Companion log that only
  grew is at least as long as what was sampled of it. The property speaks of the durable cursor alone;
  it is not inductive, because the cursor is saved batches after the records were cut.

`DiscoveryProofs`

* Live registry: `DoubtRetiresNobody` (`UncertainRetiresNothing`) and `VerifiedSpared`
  (`VerifiedNotRetired`), from `LiveInv`: a pass in which anything failed has nothing left to retire, and
  whom it verified is not among those it is about to retire.
* Codex threads: `NoGuess` (`NeverGuesses`), `RoleAndRootFixed` (`RoleAndRootKept`) and `ThreadsPlaced`: every
  stored thread is the main of its own tree, a child in the tree of its stored native parent, or a
  child of a Claude main (`EveryThreadPlaced`). `CodexInv` adds the shape of the pass. Threads register
  their parents on the way, so each operator that stores a thread has a lemma that it keeps the role and
  tree of those already there and places the newcomer (`EnsureKeeps`, `DiscoverKeeps`, `AskedKeeps`). The
  proof showed that the type invariant claimed too much: only a child must have a parent's root.
* Companion jobs: `OutcomesStay` (`OutcomeIsFinal`), `HistoryIgnored` (`HistoryStaysOut`) and `AppendsCredited`
  (`CreditsAreAppends`), from `JobInv`. `OutcomeOK`: wherever a record that tells of an end was copied to,
  it is the last one; a view that is certain tells what the summary told; and a session that ended did
  so on the last record, which the pass in progress has read as well. `HistoryOK`: what a pass found to be history
  is history still, and the pass is at work on it only when the job is known. `CreditOK`: credits are counted
  by the sizes of the log they were given for, all of them sizes the log has had, and the pass never
  holds an older one. The cursor alone would not do: it is saved after the credit, or not at all.
* Aliases: `CreditsHaveEvidence` (`CreditNeedsEvidence`), `OwnIdentityWins` (`ExactIdentityOutranks`) and
  `MemoriesNameStored` (`AliasTypeOK`), from `AliasInv`: whatever the cache, the registry, the row and the
  visit in progress name was named by some configuration without a rival, or is the wrapper
  (`Supported`), and is stored below a main (`Rooted`). `MatchJustified` relates the three cases of
  `resolve` to what it means to be named without a rival.
* Team tasks: `LastOutcomeKept` (`TasksTypeOK`) and `RunningNotFinished` (`BusyNotFinished`), from `TasksInv`.
  `LastOutcome`: the outcome the fold keeps is one it read, and none it read is newer. `BusyOK`: a task of an
  active member that has run since the pass began is still to be read, is being read as running, has been,
  or was left out because its file could not be read; a pass that has left out every running task may report an outcome,
  and so may one over an inactive member, whose unfinished tasks do not count. `BusyNotFinished` names both.

Only model-checked: liveness and what needs fairness, which the prover has no rule for:
`SilenceEndsInStall`, `EveryChangeRead`, `SuspensionLifted`, `EligibleChildEnds`, `EverythingSettles`, `BrowserCatchesUp`,
`BranchComesThrough`, `CatchesUp`, `LiveComesBack`, `TotalsReported`, `OutcomeArrives` and
`TranscriptsFollowed`. Every safety invariant and every action property of the passing runs has a theorem.
Of the repository columns nothing is proved; what the folds and recursive
definitions of `SequencesExt` compute for every input is out of the prover's reach.

## What is not modelled, and the plan

Not modelled: rendering and the web client beyond its stream, parsing of native records and of procfs,
validation of configuration and paths, HTTP and SQLite themselves, migrations, backups and retention;
they are I/O or library code without state of their own that a property here could relate. A
termination pass over several children, where an error for one ends the pass for the others
(`termination.rs` 207), and a timer pass over several sessions are not modelled either: each is a loop
over what is modelled for one.

Next: abstract specifications of a lane (an atomic log of observations with a set of owed replays) and of
a child's termination (warn, wait, signal once per stage).
