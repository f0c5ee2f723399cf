-------------------------------- MODULE EventLog --------------------------------
(***************************************************************************)
(* The durable event log: state_transitions of watchdog-store, written by  *)
(* the coordinators of watchdog-runtime (apply_input) and by the           *)
(* termination engine (apply_termination_advance).                         *)
(*                                                                         *)
(* A writer draws its event identities from the process-wide EventSequence *)
(* one at a time, before its transaction begins; the transaction inserts   *)
(* all of them or none.  So identities order allocations, the log orders   *)
(* commits, and the two need not agree.                                    *)
(***************************************************************************)
EXTENDS Naturals, Sequences, SequencesExt, FiniteSets

CONSTANTS
    Writers,      \* tasks that write events of one root
    Routed,       \* writers with events for humans: main session and engine
    MaxEvents,    \* bound: identities drawn
    MaxBatch,     \* bound: events of one observation
    MaxRestarts,  \* bound: number of restarts
    MaxFailures   \* bound: number of store failures

ASSUME LogAssumption ==
    /\ Routed \subseteq Writers
    /\ MaxEvents \in Nat /\ MaxBatch \in Nat \ {0}
    /\ MaxRestarts \in Nat /\ MaxFailures \in Nat

VARIABLES
    next,      \* EventSequence.next
    drawn,     \* identities a writer drew for its open transaction, in order
    log,       \* state_transitions, in commit order
    restarts,  \* restarts so far
    failures   \* store failures so far

logVars == <<next, drawn, log, restarts, failures>>

EventId == 1 .. MaxEvents

\* A row: its identity and whether the outbox has it for the human destinations
\* (Browser, HomeAssistant, Webhook) besides Sse.
Event == [id : EventId, human : BOOLEAN]

LogTypeOK ==
    /\ next \in Nat \ {0}
    /\ drawn \in [Writers -> Seq(EventId)]
    /\ log \in Seq(Event)
    /\ restarts \in Nat /\ failures \in Nat

Ids(rows) == {row.id : row \in ToSet(rows)}

\* MAX(event_id), zero in an empty store.
HighestId(rows) ==
    IF rows = <<>> THEN 0
    ELSE CHOOSE id \in Ids(rows) : \A other \in Ids(rows) : other <= id

-----------------------------------------------------------------------------

LogInit ==
    /\ next = 1
    /\ drawn = [w \in Writers |-> <<>>]
    /\ log = <<>>
    /\ restarts = 0 /\ failures = 0

\* EventSequence::allocate.
Allocate(w) ==
    /\ next <= MaxEvents
    /\ Len(drawn[w]) < MaxBatch
    /\ drawn' = [drawn EXCEPT ![w] = Append(@, next)]
    /\ next' = next + 1
    /\ UNCHANGED <<log, restarts, failures>>

\* human_event, destinations: some events of the main session and the warning
\* of a termination go to the human destinations too.
Routings(w) ==
    {f \in [1 .. Len(drawn[w]) -> BOOLEAN] :
        w \notin Routed => \A i \in DOMAIN f : ~f[i]}

\* The transaction of apply_observation or apply_termination_advance commits.
Commit(w) ==
    /\ drawn[w] # <<>>
    /\ \E human \in Routings(w) :
           log' = log \o [i \in 1 .. Len(drawn[w]) |->
                             [id |-> drawn[w][i], human |-> human[i]]]
    /\ drawn' = [drawn EXCEPT ![w] = <<>>]
    /\ UNCHANGED <<next, restarts, failures>>

\* The transaction is rolled back: a replayed observation, a stale revision or
\* a store failure.  The identities are not drawn again.
Rollback(w) ==
    /\ drawn[w] # <<>>
    /\ drawn' = [drawn EXCEPT ![w] = <<>>]
    /\ UNCHANGED <<next, log, restarts, failures>>

\* A faulty variant, here and in the modules that extend this one, is what the
\* properties must catch.
RestartAtCount ==
    /\ restarts < MaxRestarts
    /\ restarts' = restarts + 1
    /\ next' = Len(log) + 1
    /\ drawn' = [w \in Writers |-> <<>>]
    /\ UNCHANGED <<log, failures>>

\* The server stops and starts again: EventSequence::from_store.
LogRestart ==
    /\ restarts < MaxRestarts
    /\ restarts' = restarts + 1
    /\ next' = HighestId(log) + 1
    /\ drawn' = [w \in Writers |-> <<>>]
    /\ UNCHANGED <<log, failures>>

\* A store operation of a reader or a dispatcher fails.
StoreFails ==
    /\ failures < MaxFailures
    /\ failures' = failures + 1
    /\ UNCHANGED <<next, drawn, log, restarts>>

Write == \E w \in Writers : Allocate(w) \/ Commit(w) \/ Rollback(w)

\* No identity is given to two events: an insert never meets an identity that
\* is stored or that another open transaction will store, although a restart
\* goes back to what the log shows (allocate, first_unallocated_event_id).
IdsUnique ==
    /\ \A i, j \in DOMAIN log : log[i].id = log[j].id => i = j
    /\ \A w \in Writers :
           /\ ToSet(drawn[w]) \cap Ids(log) = {}
           /\ \A v \in Writers \ {w} : ToSet(drawn[w]) \cap ToSet(drawn[v]) = {}

=============================================================================
