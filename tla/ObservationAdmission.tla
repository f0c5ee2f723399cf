------------------------- MODULE ObservationAdmission -------------------------
(***************************************************************************)
(* Admission of observations to the per-session reducer lanes: the bounded *)
(* queue of each lane (watchdog-runtime, queue.rs), the drainer task that  *)
(* empties it, and the bookkeeping of refused evidence                     *)
(* (AgentApi::apply_observation, drain_observations,                       *)
(* persist_queue_rejection and reconcile_rejected_observation).            *)
(*                                                                         *)
(* Producers (MCP tools, hooks, discovery) are callers that run            *)
(* concurrently.  A step runs from one await point to the next: what is    *)
(* done under a lock without awaiting is atomic, and a lock is held across *)
(* a store call exactly where the code holds its guard.                    *)
(***************************************************************************)
EXTENDS Integers, Sequences, FiniteSets

CONSTANTS
    Sessions,        \* the lanes
    Callers,         \* concurrent producer tasks
    Observations,    \* observation identities
    Subject,         \* the session each observation is about
    Class,           \* its admission class
    Capacity,        \* OBSERVATION_QUEUE_CAPACITY
    Overflow,        \* sessions with a legacy overflow marker in the database
    MaxSubmissions,  \* bound: calls of apply_observation
    MaxRestarts,     \* bound: server restarts
    MaxSaveFailures  \* bound: failures of save_observation_queue_rejection

ASSUME AdmissionAssumption ==
    /\ Sessions \cap Callers = {}
    /\ Subject \in [Observations -> Sessions]
    /\ Class \in [Observations -> {"Activity", "Durable"}]
    /\ Capacity \in Nat \ {0}
    /\ Overflow \subseteq Sessions
    /\ MaxSubmissions \in Nat /\ MaxRestarts \in Nat /\ MaxSaveFailures \in Nat

Free == "free"      \* a mutex nobody holds
Nothing == "none"   \* no observation

ASSUME FreeAssumption ==
    Free \notin Sessions \cup Callers /\ Nothing \notin Observations \cup Callers

VARIABLES
    queue,      \* SessionQueue.entries of each lane
    degraded,   \* SessionQueue.degraded
    draining,   \* SessionAdmission.draining
    admission,  \* holder of each lane's admission mutex
    transition, \* holder of queue_health_transition
    uncertain,  \* AgentApiInner.queue_uncertain
    health,     \* the scoped ObservationQueue health of each session
    caller,     \* each caller: where it is, what it submits, its ticket
    drainer,    \* each lane's drainer: where it is, its entry, `remaining'
    rejections, \* table observation_queue_rejections (durable)
    stored,     \* table observations (durable)
    submitted,  \* apply_observation calls so far
    tickets,    \* entries pushed so far
    restarts,   \* restarts so far
    saveFailures \* failed saves so far

\* History, read by the properties only.
VARIABLES
    refused,    \* observations answered with backpressure or saturation
    applied     \* ticket of the last entry each drainer took

memory == <<queue, degraded, draining, admission, transition, uncertain, health>>
tasks == <<caller, drainer>>
durable == <<rejections, stored>>
bounds == <<submitted, tickets, restarts, saveFailures>>
history == <<refused, applied>>
vars == <<memory, tasks, durable, bounds, history>>

Entry == [obs : Observations, from : Callers, ticket : Nat]

NoEntry == [obs |-> Nothing, from |-> Nothing, ticket |-> 0]

IdleCaller == [at |-> "idle", obs |-> Nothing, ticket |-> 0]
NoDrainer == [at |-> "off", entry |-> NoEntry, remaining |-> FALSE]

CallerPlaces == {"idle", "submit", "persist", "saving", "waiting"}
DrainerPlaces == {"off", "pop", "apply", "reconcile", "clearing", "admit"}

CallerRecord ==
    [at : CallerPlaces, obs : Observations \cup {Nothing}, ticket : Nat]

DrainerRecord ==
    [at : DrainerPlaces, entry : Entry \cup {NoEntry}, remaining : BOOLEAN]

TypeOK ==
    /\ queue \in [Sessions -> Seq(Entry)]
    /\ degraded \in [Sessions -> BOOLEAN]
    /\ draining \in [Sessions -> BOOLEAN]
    /\ admission \in [Sessions -> Sessions \cup Callers \cup {Free}]
    /\ transition \in Sessions \cup Callers \cup {Free}
    /\ uncertain \in SUBSET Sessions
    /\ health \in [Sessions -> {"Healthy", "Degraded"}]
    /\ caller \in [Callers -> CallerRecord]
    /\ drainer \in [Sessions -> DrainerRecord]
    /\ rejections \in SUBSET Observations
    /\ stored \in SUBSET Observations
    /\ submitted \in Nat /\ tickets \in Nat /\ restarts \in Nat /\ saveFailures \in Nat
    /\ refused \in SUBSET Observations
    /\ applied \in [Sessions -> Nat]

-----------------------------------------------------------------------------
(* The store.                                                              *)

\* Rows of observation_queue_rejections of one session.
Rejected(table, s) == {o \in table : Subject[o] = s}

\* clear_observation_queue_rejection's answer, after its DELETE.
Remaining(table, s) == Rejected(table, s) # {} \/ s \in Overflow

\* Faulty variants, here and below, are what the properties must catch.
ClearsSession(table, s, o) == table \ Rejected(table, s)

\* The DELETE of clear_observation_queue_rejection.
Cleared(table, s, o) == table \ {r \in Rejected(table, s) : r = o}

observation_queue_uncertain_sessions(table) ==
    {s \in Sessions : Remaining(table, s)}

-----------------------------------------------------------------------------
(* SessionQueue.                                                           *)

Activities(q) == {i \in 1..Len(q) : Class[q[i].obs] = "Activity"}

\* The newest activity entry, the one a new activity replaces.
Displaced(q) == CHOOSE i \in Activities(q) : \A j \in Activities(q) : j <= i

Coalesces(q, o) == Class[o] = "Activity" /\ Activities(q) # {}

\* try_push_replacing when it refuses, and the queue when it does not.
IsFull(q, o) == ~Coalesces(q, o) /\ Len(q) = Capacity

Without(q, i) == SubSeq(q, 1, i - 1) \o SubSeq(q, i + 1, Len(q))

PushedInPlace(q, entry) ==
    IF Coalesces(q, entry.obs)
    THEN [q EXCEPT ![Displaced(q)] = entry]
    ELSE Append(q, entry)

Pushed(q, entry) ==
    IF Coalesces(q, entry.obs)
    THEN Append(Without(q, Displaced(q)), entry)
    ELSE Append(q, entry)

DropsSilently(q, entry) == {}

\* The entry a push displaces, whose producer is told so.
Coalesced(q, entry) ==
    IF Coalesces(q, entry.obs) THEN {q[Displaced(q)]} ELSE {}

-----------------------------------------------------------------------------

Init ==
    /\ queue = [s \in Sessions |-> <<>>]
    /\ degraded = [s \in Sessions |-> FALSE]
    /\ draining = [s \in Sessions |-> FALSE]
    /\ admission = [s \in Sessions |-> Free]
    /\ transition = Free
    /\ uncertain = Overflow
    /\ health = [s \in Sessions |->
                    IF s \in Overflow THEN "Degraded" ELSE "Healthy"]
    /\ caller = [c \in Callers |-> IdleCaller]
    /\ drainer = [s \in Sessions |-> NoDrainer]
    /\ rejections = {} /\ stored = {}
    /\ submitted = 0 /\ tickets = 0 /\ restarts = 0 /\ saveFailures = 0
    /\ refused = {}
    /\ applied = [s \in Sessions |-> 0]

\* The callers in f, with the producers of the given entries answered: a
\* completion reaches the caller only while it still waits for that entry.
Answer(f, entries) ==
    [c \in Callers |->
        IF \E e \in entries :
               e.from = c /\ f[c].at = "waiting" /\ f[c].ticket = e.ticket
        THEN IdleCaller ELSE f[c]]

-----------------------------------------------------------------------------
(* AgentApi::apply_observation.                                            *)

\* A producer calls with new evidence, or retries an identity.
Submit(c) ==
    /\ caller[c].at = "idle"
    /\ submitted < MaxSubmissions
    /\ submitted' = submitted + 1
    /\ \E o \in Observations :
           caller' = [caller EXCEPT ![c] = [at |-> "submit", obs |-> o,
                                            ticket |-> 0]]
    /\ UNCHANGED <<memory, drainer, durable, tickets, restarts, saveFailures,
                   history>>

\* The queue takes the observation.  The admission mutex is free again at the
\* end of the step.
Admit(c) ==
    LET o == caller[c].obs
        s == Subject[o]
        entry == [obs |-> o, from |-> c, ticket |-> tickets']
    IN  /\ caller[c].at = "submit"
        /\ admission[s] = Free
        /\ ~IsFull(queue[s], o)
        /\ tickets' = tickets + 1
        /\ queue' = [queue EXCEPT ![s] = Pushed(@, entry)]
        /\ caller' = [Answer(caller, Coalesced(queue[s], entry))
                         EXCEPT ![c].at = "waiting", ![c].ticket = tickets']
        /\ draining' = [draining EXCEPT ![s] = TRUE]
        /\ drainer' = IF draining[s] THEN drainer
                      ELSE [drainer EXCEPT ![s].at = "pop"]
        /\ UNCHANGED <<degraded, admission, transition, uncertain, health,
                       durable, submitted, restarts, saveFailures, history>>

\* The queue refuses it.  The caller keeps the admission mutex.
Refuse(c) ==
    LET s == Subject[caller[c].obs]
    IN  /\ caller[c].at = "submit"
        /\ admission[s] = Free
        /\ IsFull(queue[s], caller[c].obs)
        /\ degraded' = [degraded EXCEPT ![s] = TRUE]
        /\ admission' = [admission EXCEPT ![s] = c]
        /\ caller' = [caller EXCEPT ![c].at = "persist"]
        /\ UNCHANGED <<queue, draining, transition, uncertain, health,
                       drainer, durable, bounds, history>>

\* persist_queue_rejection up to its store call.
PersistRejection(c) ==
    LET s == Subject[caller[c].obs]
    IN  /\ caller[c].at = "persist"
        /\ transition = Free
        /\ transition' = c
        /\ uncertain' = uncertain \cup {s}
        /\ health' = [health EXCEPT ![s] = "Degraded"]
        /\ caller' = [caller EXCEPT ![c].at = "saving"]
        /\ UNCHANGED <<queue, degraded, draining, admission, drainer, durable,
                       bounds, history>>

\* The rejection row commits; the producer is told to retry.
SaveRejection(c) ==
    LET s == Subject[caller[c].obs]
    IN  /\ caller[c].at = "saving"
        /\ rejections' = rejections \cup {caller[c].obs}
        /\ refused' = refused \cup {caller[c].obs}
        /\ transition' = Free
        /\ admission' = [admission EXCEPT ![s] = Free]
        /\ health' = [health EXCEPT ![s] = "Degraded"]
        /\ caller' = [caller EXCEPT ![c] = IdleCaller]
        /\ UNCHANGED <<queue, degraded, draining, uncertain, drainer, stored,
                       bounds, applied>>

\* The store fails; the producer gets the store's error.
FailToSave(c) ==
    /\ caller[c].at = "saving"
    /\ saveFailures < MaxSaveFailures
    /\ saveFailures' = saveFailures + 1
    /\ transition' = Free
    /\ admission' = [admission EXCEPT ![Subject[caller[c].obs]] = Free]
    /\ caller' = [caller EXCEPT ![c] = IdleCaller]
    /\ UNCHANGED <<queue, degraded, draining, uncertain, health, drainer,
                   durable, submitted, tickets, restarts, refused, applied>>

\* The producer's connection closes and its future is dropped at an await,
\* which frees the mutexes it holds.  An admitted entry stays queued.
Cancel(c) ==
    /\ caller[c].at # "idle"
    /\ caller' = [caller EXCEPT ![c] = IdleCaller]
    /\ admission' = [s \in Sessions |->
                        IF admission[s] = c THEN Free ELSE admission[s]]
    /\ transition' = IF transition = c THEN Free ELSE transition
    /\ UNCHANGED <<queue, degraded, draining, uncertain, health, drainer,
                   durable, bounds, history>>

-----------------------------------------------------------------------------
(* AgentApi::drain_observations.                                           *)

KeepsFlag(s) == draining

\* The flag a stopping drainer resets under the admission mutex.
Stopped(s) == [draining EXCEPT ![s] = FALSE]

\* The drainer takes the oldest entry, or stops when there is none.
Pop(s) ==
    /\ drainer[s].at = "pop"
    /\ admission[s] = Free
    /\ \/ /\ queue[s] # <<>>
          /\ queue' = [queue EXCEPT ![s] = Tail(@)]
          /\ drainer' = [drainer EXCEPT ![s] = [at |-> "apply",
                                                entry |-> Head(queue[s]),
                                                remaining |-> FALSE]]
          /\ applied' = [applied EXCEPT ![s] = Head(queue[s]).ticket]
          /\ UNCHANGED draining
       \/ /\ queue[s] = <<>>
          /\ draining' = Stopped(s)
          /\ drainer' = [drainer EXCEPT ![s] = NoDrainer]
          /\ UNCHANGED <<queue, applied>>
    /\ UNCHANGED <<degraded, admission, transition, uncertain, health, caller,
                   durable, bounds, refused>>

\* Back to the head of the loop, with the producer of the entry answered.
Looped(s) == [drainer EXCEPT ![s] = [NoDrainer EXCEPT !.at = "pop"]]
Answered(s) == Answer(caller, {drainer[s].entry})

\* apply_queued_observation: the coordinator commits the observation, or
\* recognises it as stored already.
Apply(s) ==
    /\ drainer[s].at = "apply"
    /\ stored' = stored \cup {drainer[s].entry.obs}
    /\ drainer' = [drainer EXCEPT ![s].at = "reconcile"]
    /\ UNCHANGED <<memory, caller, rejections, bounds, history>>

\* The coordinator reports an error: stale evidence, a conflicting identity
\* or a store failure.
FailToApply(s) ==
    /\ drainer[s].at = "apply"
    /\ caller' = Answered(s)
    /\ drainer' = Looped(s)
    /\ UNCHANGED <<memory, durable, bounds, history>>

\* reconcile_rejected_observation up to its store call, or up to the lock of
\* the admission mutex when the session is not uncertain.
BeginReconcile(s) ==
    /\ drainer[s].at = "reconcile"
    /\ transition = Free
    /\ transition' = s
    /\ drainer' = [drainer EXCEPT ![s].at =
                      IF s \in uncertain THEN "clearing" ELSE "admit"]
    /\ UNCHANGED <<queue, degraded, draining, admission, uncertain, health,
                   caller, durable, bounds, history>>

\* The replayed identity's row is deleted; the last one lifts the uncertainty.
ClearRejection(s) ==
    LET left == Cleared(rejections, s, drainer[s].entry.obs)
        remaining == Remaining(left, s)
    IN  /\ drainer[s].at = "clearing"
        /\ rejections' = left
        /\ uncertain' = IF remaining THEN uncertain ELSE uncertain \ {s}
        /\ health' = IF remaining THEN health
                     ELSE [health EXCEPT ![s] = "Healthy"]
        /\ drainer' = [drainer EXCEPT ![s].at = "admit",
                                      ![s].remaining = remaining]
        /\ UNCHANGED <<queue, degraded, draining, admission, transition, caller,
                       stored, bounds, history>>

\* The store fails to clear: the replay is answered with the error.
FailToClear(s) ==
    /\ drainer[s].at = "clearing"
    /\ transition' = Free
    /\ caller' = Answered(s)
    /\ drainer' = Looped(s)
    /\ UNCHANGED <<queue, degraded, draining, admission, uncertain, health,
                   durable, bounds, history>>

LiftsAlways(s) == degraded[s]

\* SessionAdmission::reconcile_rejected's answer.
reconcile_rejected(s) == ~drainer[s].remaining /\ degraded[s]

\* The queue's own flag is cleared, and the body of the loop ends.
FinishReconcile(s) ==
    LET lifts == reconcile_rejected(s)
    IN  /\ drainer[s].at = "admit"
        /\ admission[s] = Free
        /\ degraded' = IF lifts THEN [degraded EXCEPT ![s] = FALSE] ELSE degraded
        /\ health' = IF lifts THEN [health EXCEPT ![s] = "Healthy"] ELSE health
        /\ transition' = Free
        /\ caller' = Answered(s)
        /\ drainer' = Looped(s)
        /\ UNCHANGED <<queue, draining, admission, uncertain, durable, bounds,
                       history>>

-----------------------------------------------------------------------------

\* The server stops and starts again: AgentApi::with_policy reads the
\* uncertain sessions and configure_health publishes them.
Restart ==
    /\ restarts < MaxRestarts
    /\ restarts' = restarts + 1
    /\ queue' = [s \in Sessions |-> <<>>]
    /\ degraded' = [s \in Sessions |-> FALSE]
    /\ draining' = [s \in Sessions |-> FALSE]
    /\ admission' = [s \in Sessions |-> Free]
    /\ transition' = Free
    /\ uncertain' = observation_queue_uncertain_sessions(rejections)
    /\ health' = [s \in Sessions |->
                     IF s \in uncertain' THEN "Degraded" ELSE "Healthy"]
    /\ caller' = [c \in Callers |-> IdleCaller]
    /\ drainer' = [s \in Sessions |-> NoDrainer]
    /\ applied' = [s \in Sessions |-> 0]
    /\ UNCHANGED <<durable, submitted, tickets, saveFailures, refused>>

CallerStep(c) ==
    \/ Admit(c) \/ Refuse(c) \/ PersistRejection(c)
    \/ SaveRejection(c) \/ FailToSave(c)

DrainerStep(s) ==
    \/ Pop(s) \/ Apply(s) \/ FailToApply(s) \/ BeginReconcile(s)
    \/ ClearRejection(s) \/ FailToClear(s) \/ FinishReconcile(s)

Next ==
    \/ \E c \in Callers : Submit(c) \/ CallerStep(c) \/ Cancel(c)
    \/ \E s \in Sessions : DrainerStep(s)
    \/ Restart

Spec == Init /\ [][Next]_vars

\* Tokio keeps polling a task that can proceed, and its mutexes are handed
\* over in FIFO order, so a task that keeps finding a mutex free gets it.
FairSpec ==
    /\ Spec
    /\ \A c \in Callers : SF_vars(CallerStep(c))
    /\ \A s \in Sessions : SF_vars(DrainerStep(s))

-----------------------------------------------------------------------------
(* Properties.                                                             *)

\* A session with a rejected observation that was not replayed, or with the
\* overflow marker of an older database, is uncertain and its queue health is
\* Degraded, whatever the callers, the drainers and restarts do
\* (persist_queue_rejection, reconcile_rejected_observation, with_policy).
FailClosed ==
    \A s \in Sessions :
        Remaining(rejections, s) => s \in uncertain /\ health[s] = "Degraded"

\* Evidence whose producer was told to retry stays on record until that very
\* identity has been stored, across restarts (save_ and
\* clear_observation_queue_rejection).
RefusedIsRemembered == refused \ stored \subseteq rejections

\* A drainer runs for every lane with queued entries: none is left behind
\* between a push that finds `draining' set and a drainer that stops
\* (apply_observation, drain_observations).
NoStrandedEntry ==
    \A s \in Sessions : queue[s] # <<>> => draining[s] /\ drainer[s].at # "off"

\* A producer that waits is waiting for an entry somebody will answer
\* (apply_observation's receiver).
WaiterHasEntry ==
    \A c \in Callers : caller[c].at = "waiting" =>
        \E s \in Sessions :
            LET held == {queue[s][i] : i \in 1..Len(queue[s])}
                           \cup {drainer[s].entry}
            IN  \E e \in held : e.from = c /\ e.ticket = caller[c].ticket

\* Entries leave a lane in the order in which they were admitted; a coalesced
\* activity takes the place of its own admission, not of the one it replaces
\* (try_push_replacing, pop).
AdmissionOrder ==
    [][\A s \in Sessions :
         applied'[s] # applied[s] => applied'[s] > applied[s] \/ Restart]_vars

\* A producer whose evidence is admitted or refused is answered
\* (apply_observation, drain_observations).
EverySubmissionAnswered ==
    \A c \in Callers : caller[c].at = "submit" ~> caller[c].at = "idle"

=============================================================================
