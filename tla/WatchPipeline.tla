----------------------------- MODULE WatchPipeline -----------------------------
(***************************************************************************)
(* From a changed file to a reconciliation: the inotify callback and its   *)
(* bounded queue, the supervisor thread that polls it and rebuilds the     *)
(* watches, the request bits and the wake-up of the discovery worker, the  *)
(* queue of worktree activity, and the health the termination gate reads.  *)
(*                                                                         *)
(* The callback, the supervisor, the discovery worker, the activity worker *)
(* and the reload worker are threads or tasks of their own.  A step is one *)
(* operation on an atomic, a queue or the health records; a record that    *)
(* only follows work of its own task is one step with that work.           *)
(***************************************************************************)
EXTENDS Integers, Sequences, FiniteSets, FiniteSetsExt

CONSTANTS
    NumRuntimes,      \* adapters, in the order the worker reconciles them
    QueueCapacity,    \* WATCH_QUEUE_CAPACITY
    ActivityCapacity, \* FILESYSTEM_ACTIVITY_QUEUE_CAPACITY
    MaxEvents         \* bound: changes on disk, lost events, failed steps, reloads together

ASSUME WatchAssumption ==
    /\ NumRuntimes \in Nat \ {0} /\ QueueCapacity \in Nat \ {0} /\ ActivityCapacity \in Nat \ {0}
    /\ MaxEvents \in Nat

Runtimes == 1..NumRuntimes
Worktree == 0 \* the destination of a watch on a worktree

VARIABLES
    dirty,      \* runtimes with a change on disk that no pass has read
    service,    \* the watch service: its queue and the three flags of lost events
    pending,    \* DiscoveryScheduler.pending
    wake,       \* DiscoveryScheduler.wake: the permit of a Notify
    generation, \* filesystem_uncertainty_generation
    uncertain,  \* runtimes not reconciled since events or activity were last lost, until
                \* the suspension ends
    health,     \* global reports: watcher, files (FilesystemReconciliation), adapters
    enabled,    \* adapters the current configuration enables
    stale,      \* the configuration or the watched paths differ from the applied ones
    supervisor, \* the watcher supervisor thread
    worker,     \* the discovery worker
    reload,     \* the reload worker has swapped the configuration and not reported yet
    activity,   \* batches of worktree paths in the activity queue
    events      \* counter of the bound

watchVars == <<dirty, service, pending, wake, generation, uncertain, health, enabled, stale,
          supervisor, worker, reload, activity, events>>

FreshService == [up |-> TRUE, queue |-> <<>>, backend |-> FALSE, rescan |-> FALSE, saturated |-> FALSE]
Down == [FreshService EXCEPT !.up = FALSE]
Polling == [at |-> "check", request |-> {}, topology |-> FALSE,
            full |-> FALSE, then |-> "check"]
Selecting == [at |-> "select", request |-> {}, generation |-> 0, current |-> TRUE]

Event == events < MaxEvents /\ events' = events + 1
Uneventful == events' = events

\* record_initial_health, the first build and the first request of the supervisor.
WatchInit ==
    /\ dirty = Runtimes
    /\ service = FreshService
    /\ pending = Runtimes /\ wake = TRUE
    /\ generation = 0 /\ uncertain = {}
    /\ health = [watcher |-> "healthy", files |-> "none",
                 adapter |-> [r \in Runtimes |-> "degraded"]]
    /\ enabled = Runtimes /\ stale = FALSE
    /\ supervisor = Polling /\ worker = Selecting /\ reload = FALSE
    /\ activity = 0
    /\ events = 0

(***************************************************************************)
(* The callback.  handle_event queues the affected target without          *)
(* blocking; what it cannot queue, and what the kernel or the backend      *)
(* dropped, becomes a flag.                                                *)
(***************************************************************************)
\* Queue without blocking; a full queue is remembered as lost events.
handle_event(target, topology) ==
    IF ~service.up THEN service
    ELSE IF Len(service.queue) < QueueCapacity
    THEN [service EXCEPT !.queue = Append(@, [target |-> target, topology |-> topology])]
    ELSE [service EXCEPT !.saturated = TRUE]

Change(target, topology) ==
    /\ Event
    /\ dirty' = dirty \cup ({target} \cap Runtimes)
    /\ service' = handle_event(target, topology)
    /\ UNCHANGED <<pending, wake, generation, uncertain, health, enabled, stale, supervisor,
                   worker, reload, activity>>

\* The kernel queue overflowed, or the backend failed: events are gone.
LoseEvents(flag, r) ==
    /\ service.up /\ Event
    /\ dirty' = dirty \cup {r}
    /\ service' = [service EXCEPT ![flag] = TRUE]
    /\ UNCHANGED <<pending, wake, generation, uncertain, health, enabled, stale, supervisor,
                   worker, reload, activity>>

(***************************************************************************)
(* The supervisor.  One round of its loop: rebuild if the configuration or *)
(* the watched paths changed, then take one signal.                        *)
(***************************************************************************)
\* build_watcher: healthy, healthy but not covering everything, or unavailable.
build_watcher ==
    \/ /\ Uneventful
       /\ service' = FreshService
       /\ health' = [health EXCEPT !.watcher = "healthy"]
    \/ /\ Event
       /\ service' \in {FreshService, Down}
       /\ health' = [health EXCEPT !.watcher = "degraded"]

\* The configuration or the watched paths changed.
ApplyChange ==
    /\ supervisor.at = "check" /\ stale
    /\ build_watcher
    /\ stale' = FALSE
    /\ supervisor' = [Polling EXCEPT !.at = "or", !.request = Runtimes, !.then = "signal"]
    /\ UNCHANGED <<dirty, pending, wake, generation, uncertain, enabled, worker, reload, activity>>

\* WatchTargetRoutes::actions: a watch leads to its own adapter or to attribution.
actions(target) == {target} \cap Runtimes

\* next_signal: the flags before the queue.
NextSignal ==
    /\ supervisor.at = "signal" \/ (supervisor.at = "check" /\ ~stale)
    /\ \/ \E flag \in {"backend", "rescan", "saturated"} :
            /\ service[flag]
            /\ flag = "rescan" => ~service.backend
            /\ flag = "saturated" => ~service.backend /\ ~service.rescan
            /\ service' = [service EXCEPT ![flag] = FALSE]
            /\ supervisor' = [Polling EXCEPT !.at = "bump", !.full = TRUE]
       \/ /\ ~service.backend /\ ~service.rescan /\ ~service.saturated
          /\ service.queue # <<>>
          /\ LET head == Head(service.queue)
                 runtime == actions(head.target)
             IN  supervisor' = [Polling EXCEPT
                     !.at = IF runtime # {} THEN "or" ELSE "send",
                     !.request = runtime, !.topology = head.topology]
          /\ service' = [service EXCEPT !.queue = Tail(@)]
       \/ /\ ~service.backend /\ ~service.rescan /\ ~service.saturated
          /\ service.queue = <<>>
          /\ supervisor' = Polling
          /\ UNCHANGED service
    /\ UNCHANGED <<dirty, pending, wake, generation, uncertain, health, enabled, stale, worker,
                   reload, activity, events>>

\* The round is over, or the watches are rebuilt first.
AfterRequest == [Polling EXCEPT !.at = IF supervisor.topology THEN "rebuild" ELSE supervisor.then]

\* DiscoveryScheduler::request sets the bits, then leaves the permit.
SetBits ==
    /\ supervisor.at = "or"
    /\ pending' = pending \cup supervisor.request
    /\ supervisor' = [supervisor EXCEPT !.at = "notify"]
    /\ UNCHANGED <<dirty, service, wake, generation, uncertain, health, enabled, stale, worker,
                   reload, activity, events>>

\* A plausible slip: notify_waiters leaves no permit when nobody waits.
NotifyWaiters ==
    /\ supervisor.at = "notify"
    /\ wake' = (wake \/ worker.at = "select")
    /\ supervisor' = AfterRequest
    /\ UNCHANGED <<dirty, service, pending, generation, uncertain, health, enabled, stale, worker,
                   reload, activity, events>>

\* notify_one leaves a permit even when nobody waits.
NotifyOne ==
    /\ supervisor.at = "notify"
    /\ wake' = TRUE
    /\ supervisor' = AfterRequest
    /\ UNCHANGED <<dirty, service, pending, generation, uncertain, health, enabled, stale, worker, reload,
                   activity, events>>

\* reconcile_watch_targets: a full activity queue loses the batch.
SendActivity ==
    /\ supervisor.at = "send"
    /\ IF activity < ActivityCapacity
       THEN activity' = activity + 1 /\ supervisor' = AfterRequest
       ELSE activity' = activity /\ supervisor' = [supervisor EXCEPT !.at = "bump"]
    /\ UNCHANGED <<dirty, service, pending, wake, generation, uncertain, health, enabled, stale,
                   worker, reload, events>>

\* Events or activity were lost: first the generation, then the report.
BumpGeneration ==
    /\ supervisor.at = "bump"
    /\ generation' = generation + 1
    /\ uncertain' = enabled
    /\ worker' = [worker EXCEPT !.current = worker.at \notin {"run", "mark", "publish"}]
    /\ supervisor' = [supervisor EXCEPT !.at = "degrade"]
    /\ UNCHANGED <<dirty, service, pending, wake, health, enabled, stale, reload, activity, events>>

Degrade ==
    /\ supervisor.at = "degrade"
    /\ health' = [health EXCEPT !.files = "degraded"]
    /\ supervisor' = IF supervisor.full THEN [supervisor EXCEPT !.at = "or", !.request = Runtimes]
                     ELSE AfterRequest
    /\ UNCHANGED <<dirty, service, pending, wake, generation, uncertain, enabled, stale, worker,
                   reload, activity, events>>

\* TopologyChanged: the watches are built anew from the applied configuration.
Rebuild ==
    /\ supervisor.at = "rebuild"
    /\ build_watcher
    /\ supervisor' = Polling
    /\ UNCHANGED <<dirty, pending, wake, generation, uncertain, enabled, stale, worker, reload,
                   activity>>

(***************************************************************************)
(* The discovery worker.                                                   *)
(***************************************************************************)
\* A plausible slip: the recovery tick serves only what was requested.
TickPending ==
    /\ worker.at = "select"
    /\ worker' = [Selecting EXCEPT !.at = IF pending = {} THEN "select" ELSE "load", !.request = pending]
    /\ pending' = {}
    /\ UNCHANGED <<dirty, service, wake, generation, uncertain, health, enabled, stale, supervisor,
                   reload, activity, events>>

\* The recovery interval takes the bits, whatever they are, and serves every runtime.
PeriodicTick ==
    /\ worker.at = "select"
    /\ pending' = {}
    /\ worker' = [worker EXCEPT !.at = "load", !.request = Runtimes]
    /\ UNCHANGED <<dirty, service, wake, generation, uncertain, health, enabled, stale, supervisor,
                   reload, activity, events>>

\* A wake-up, and the coalescing sleep before the bits are taken.
Notified ==
    /\ worker.at = "select" /\ wake
    /\ wake' = FALSE
    /\ worker' = [worker EXCEPT !.at = "coalesce"]
    /\ UNCHANGED <<dirty, service, pending, generation, uncertain, health, enabled, stale,
                   supervisor, reload, activity, events>>

TakeBits ==
    /\ worker.at = "coalesce"
    /\ pending' = {}
    /\ worker' = [Selecting EXCEPT !.at = IF pending = {} THEN "select" ELSE "load", !.request = pending]
    /\ UNCHANGED <<dirty, service, wake, generation, uncertain, health, enabled, stale, supervisor,
                   reload, activity, events>>

\* A plausible slip: the generation is loaded when the worker starts and never again.
LoadOnce ==
    /\ worker.at = "load"
    /\ worker' = [worker EXCEPT !.at = "run", !.request = @ \cap enabled,
                                !.generation = 0, !.current = TRUE]
    /\ UNCHANGED <<dirty, service, pending, wake, generation, uncertain, health, enabled, stale,
                   supervisor, reload, activity, events>>

\* The generation and the configuration of this pass.
LoadGeneration ==
    /\ worker.at = "load"
    /\ worker' = [worker EXCEPT !.at = "run", !.request = @ \cap enabled,
                                !.generation = generation, !.current = TRUE]
    /\ UNCHANGED <<dirty, service, pending, wake, generation, uncertain, health, enabled, stale,
                   supervisor, reload, activity, events>>

\* The report of one pass; a report that cannot be persisted is a degraded adapter too.
record_discovery_health(r, level) == health' = [health EXCEPT !.adapter[r] = level]

\* One adapter's pass, in the order of the runtimes; a pass may leave records behind.
ReconcileRuntimes ==
    /\ worker.at = "run" /\ worker.request # {}
    /\ LET r == Min(worker.request)
       IN  /\ worker' = [worker EXCEPT !.request = @ \ {r}]
           /\ \/ /\ Uneventful
                 /\ dirty' = dirty \ {r} /\ uncertain' = uncertain \ {r}
                 /\ record_discovery_health(r, "healthy")
              \/ /\ Event
                 /\ record_discovery_health(r, "degraded")
                 /\ UNCHANGED <<dirty, uncertain>>
    /\ UNCHANGED <<service, pending, wake, generation, enabled, stale, supervisor, reload,
                   activity>>

\* refresh_active may change the watched paths; a failure degrades the watcher.
RefreshActive ==
    /\ worker.at = "run" /\ worker.request = {}
    /\ worker' = [worker EXCEPT !.at = "mark"]
    /\ \/ Uneventful /\ UNCHANGED <<health, stale>>
       \/ Event /\ stale' = TRUE /\ UNCHANGED health
       \/ Event /\ health' = [health EXCEPT !.watcher = "degraded"] /\ UNCHANGED stale
    /\ UNCHANGED <<dirty, service, pending, wake, generation, uncertain, enabled, supervisor,
                   reload, activity>>

\* mark_filesystem_reconciliation_complete compares the generation, and reports if no more
\* was lost until then.
CompareGeneration ==
    /\ worker.at = "mark"
    /\ worker' = IF generation = worker.generation THEN [worker EXCEPT !.at = "publish"] ELSE Selecting
    /\ UNCHANGED <<dirty, service, pending, wake, generation, uncertain, health, enabled, stale,
                   supervisor, reload, activity, events>>

\* The report is a step of its own: the supervisor may find and report a loss before it.
PublishHealthy ==
    /\ worker.at = "publish"
    /\ health' = [health EXCEPT !.files = "healthy"]
    /\ uncertain' = {}
    /\ worker' = Selecting
    /\ UNCHANGED <<dirty, service, pending, wake, generation, enabled, stale,
                   supervisor, reload, activity, events>>

(***************************************************************************)
(* The other tasks.                                                        *)
(***************************************************************************)
\* Attribute one batch; what cannot be attributed safely degrades the watcher.
AttributeActivity ==
    /\ activity > 0
    /\ activity' = activity - 1
    /\ \/ Uneventful /\ UNCHANGED health
       \/ Event /\ health' = [health EXCEPT !.watcher = "degraded"]
    /\ UNCHANGED <<dirty, service, pending, wake, generation, uncertain, enabled, stale,
                   supervisor, worker, reload>>

\* SIGHUP: the configuration is swapped, then the adapters are reported as waiting.
SwapConfig(next) ==
    /\ ~reload /\ Event
    /\ enabled' = next /\ stale' = TRUE /\ reload' = TRUE
    /\ uncertain' = uncertain \cap next
    /\ dirty' = dirty \cup (next \ enabled)
    /\ UNCHANGED <<service, pending, wake, generation, health, supervisor, worker, activity>>

ReportAdapters ==
    /\ reload
    /\ reload' = FALSE
    /\ health' = [health EXCEPT !.adapter = [r \in Runtimes |-> IF r \in enabled THEN "degraded" ELSE @[r]]]
    /\ UNCHANGED <<dirty, service, pending, wake, generation, uncertain, enabled, stale,
                   supervisor, worker, activity, events>>

SupervisorStep == ApplyChange \/ NextSignal \/ SetBits \/ NotifyOne \/ SendActivity \/ BumpGeneration
                  \/ Degrade \/ Rebuild
WorkerStep == TakeBits \/ LoadGeneration \/ ReconcileRuntimes \/ RefreshActive
              \/ CompareGeneration \/ PublishHealthy

WatchNext ==
    \/ \E t \in Runtimes \cup {Worktree}, topology \in BOOLEAN : Change(t, topology)
    \/ \E flag \in {"backend", "rescan"}, r \in Runtimes : LoseEvents(flag, r)
    \/ SupervisorStep \/ WorkerStep \/ PeriodicTick \/ Notified
    \/ AttributeActivity \/ ReportAdapters
    \/ \E next \in SUBSET Runtimes : SwapConfig(next)

\* The supervisor polls every 100 ms, the recovery interval ticks every five minutes, and
\* the tasks run to their end.
WatchFairness ==
    /\ WF_watchVars(SupervisorStep) /\ WF_watchVars(WorkerStep) /\ WF_watchVars(PeriodicTick)
    /\ WF_watchVars(AttributeActivity) /\ WF_watchVars(ReportAdapters)

WatchSpec == WatchInit /\ [][WatchNext]_watchVars /\ WatchFairness

(***************************************************************************)
(* Properties.                                                             *)
(***************************************************************************)
Levels == {"none", "healthy", "degraded"}

Signal == [target : Runtimes \cup {Worktree}, topology : BOOLEAN]

Service == [up : BOOLEAN, queue : Seq(Signal), backend : BOOLEAN, rescan : BOOLEAN,
            saturated : BOOLEAN]

Supervisor == [at : {"check", "signal", "or", "notify", "send", "bump", "degrade", "rebuild"},
               request : SUBSET Runtimes, topology : BOOLEAN,
               full : BOOLEAN, then : {"check", "signal"}]

Worker == [at : {"select", "coalesce", "load", "run", "mark", "publish"}, request : SUBSET Runtimes,
           generation : Nat, current : BOOLEAN]

\* Every variable keeps its shape, and the queues their capacity.
WatchTypeOK ==
    /\ dirty \subseteq Runtimes /\ pending \subseteq Runtimes /\ uncertain \subseteq Runtimes
    /\ enabled \subseteq Runtimes /\ wake \in BOOLEAN /\ stale \in BOOLEAN /\ reload \in BOOLEAN
    /\ service \in Service
    /\ Len(service.queue) <= QueueCapacity
    /\ activity \in 0..ActivityCapacity
    /\ generation \in Nat /\ events \in Nat
    /\ health \in [watcher : Levels, files : Levels, adapter : [Runtimes -> Levels]]
    /\ supervisor \in Supervisor
    /\ worker \in Worker

\* ARCHITECTURE 8: invalidations coalesce "without losing another runtime's pending bit".
\* A bit that is set is never left without a permit, a requester about to leave one, or
\* the worker about to take it.
BitsHaveWakeup == pending # {} => wake \/ supervisor.at = "notify" \/ worker.at = "coalesce"

\* ARCHITECTURE 16: automation stays suspended "until a bounded reconciliation completes
\* without a newer overflow"; IMPLEMENTATION_STATUS: "a newer overflow cannot be cleared by an
\* older scan".  A reported suspension is lifted only by a pass that began after the last loss.
NoNewerOverflow ==
    [][health.files = "degraded" /\ health'.files = "healthy" => worker.current]_watchVars

\* Periodic recovery catches what events missed: a change below an enabled root is read,
\* whatever was dropped, discarded with a watch service, or never watched.
ChangesAreRead == \A r \in Runtimes : (r \in dirty /\ r \in enabled) ~> (r \notin dirty \/ r \notin enabled)

\* A suspension after lost events ends: losses during a pass keep it from ending the
\* suspension, but some later pass does, also when nothing was requested since the last loss
\* (a saturated activity queue requests none).
SuspensionEnds == health.files = "degraded" ~> health.files = "healthy"

\* An adapter that is waiting for a pass, after a reload or a bad pass, is healthy again.
AdapterRecovers ==
    \A r \in Runtimes : (health.adapter[r] = "degraded" /\ r \in enabled)
                            ~> (health.adapter[r] = "healthy" \/ r \notin enabled)

\* OPERATIONS: on lost events or saturated activity "a full bounded runtime reconciliation
\* is requested.  Automated termination remains suspended until that reconciliation
\* finishes": every enabled runtime was reconciled since.
SuspendedUntilFull ==
    [][health.files = "degraded" /\ health'.files = "healthy" => uncertain = {}]_watchVars

\* ARCHITECTURE 16: "Watcher overflow ... suspends destructive automation".
OverflowSuspends == service.rescan ~> health.files = "degraded"

=============================================================================
