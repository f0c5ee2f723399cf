--------------------------- MODULE TransportSessions ---------------------------
(***************************************************************************)
(* WatchdogSessionManager of watchdog-server (mcp.rs): the bounded table of *)
(* MCP transports.  Admission holds the creation mutex from the count to   *)
(* the insertion; closing a transport, by the client, by idle expiry or by *)
(* an eviction, takes no lock, so it interleaves with an admission at each *)
(* of its awaits.                                                          *)
(*                                                                         *)
(* A transport that is live, or was, when it is admitted stands for an rmcp *)
(* session identity that a client asks to restore; a created one is new.   *)
(***************************************************************************)
EXTENDS Naturals, FiniteSets

CONSTANTS
    Transports,   \* rmcp session identities
    Managers,     \* tasks that may be admitting or closing at once
    MaxSessions,  \* McpLimits::max_sessions
    MaxTasks,     \* bound: admissions and closes asked for
    Nobody        \* no task, no transport, an absent value

\* McpLimits::new refuses a cap of zero.
ASSUME SessionAssumption ==
    /\ MaxSessions \in Nat \ {0} /\ MaxTasks \in Nat
    /\ Nobody \notin Managers \cup Transports

VARIABLES
    live,      \* LocalSessionManager.sessions
    creation,  \* the task that holds the creation mutex
    admitted,  \* McpSessionGauge.admitted
    task,      \* what each task is doing
    tasks      \* tasks begun so far

sessionVars == <<live, creation, admitted, task, tasks>>

Task == [at : {"idle", "lock", "pick", "evict", "evicted", "create",
               "close", "closed"},
         transport : Transports \cup {Nobody},
         victim : Transports \cup {Nobody}]

NoTask == [at |-> "idle", transport |-> Nobody, victim |-> Nobody]

SessionTypeOK ==
    /\ live \subseteq Transports
    /\ creation \in Managers \cup {Nobody}
    /\ admitted \in Nat
    /\ task \in [Managers -> Task]
    /\ tasks \in 0 .. MaxTasks

SessionInit ==
    /\ live = {}
    /\ creation = Nobody
    /\ admitted = 0
    /\ task = [m \in Managers |-> NoTask]
    /\ tasks = 0

Goto(m, at) == task' = [task EXCEPT ![m].at = at]

Begins(m) ==
    /\ task[m].at = "idle"
    /\ tasks < MaxTasks
    /\ tasks' = tasks + 1

-----------------------------------------------------------------------------

\* create_session and restore_session, up to the creation mutex.
Admit(m, t) ==
    /\ Begins(m)
    /\ task' = [task EXCEPT ![m] = [NoTask EXCEPT !.at = "lock", !.transport = t]]
    /\ UNCHANGED <<live, creation, admitted>>

ReserveUnlocked(m) ==
    /\ task[m].at = "lock"
    /\ Goto(m, IF Cardinality(live) < MaxSessions THEN "create" ELSE "pick")
    /\ UNCHANGED <<live, creation, admitted, tasks>>

\* The creation mutex, then the first half of reserve_slot: the count.
ReserveSlot(m) ==
    /\ task[m].at = "lock"
    /\ creation = Nobody
    /\ creation' = m
    /\ Goto(m, IF \/ task[m].transport \in live
                  \/ Cardinality(live) < MaxSessions
               THEN "create" ELSE "pick")
    /\ UNCHANGED <<live, admitted, tasks>>

\* longest_idle.  Activity is left out: touch and eviction race, so any live
\* transport may be the victim.
PickVictim(m) ==
    /\ task[m].at = "pick"
    /\ \E t \in live : task' = [task EXCEPT ![m].at = "evict", ![m].victim = t]
    /\ UNCHANGED <<live, creation, admitted, tasks>>

\* WatchdogSessionManagerError::Capacity: nothing was left to evict.
Capacity(m) ==
    /\ task[m].at = "pick"
    /\ live = {}
    /\ creation' = Nobody
    /\ task' = [task EXCEPT ![m] = NoTask]
    /\ UNCHANGED <<live, admitted, tasks>>

\* The creation of the rmcp session and its publication;
\* rmcp may refuse.
Create(m) ==
    /\ task[m].at = "create"
    /\ creation' = Nobody
    /\ task' = [task EXCEPT ![m] = NoTask]
    /\ UNCHANGED tasks
    /\ \/ /\ live' = live \cup {task[m].transport}
          /\ admitted' = Cardinality(live')
       \/ UNCHANGED <<live, admitted>>

-----------------------------------------------------------------------------

\* A DELETE of the client, or rmcp's idle expiry.
AskToClose(m, t) ==
    /\ Begins(m)
    /\ t \in live
    /\ task' = [task EXCEPT ![m] = [NoTask EXCEPT !.at = "close", !.victim = t]]
    /\ UNCHANGED <<live, creation, admitted>>

\* close_session up to the removal from rmcp's table.  An eviction whose victim
\* is gone goes on to create; a close of an unknown transport only publishes.
BeginClose(m) ==
    /\ task[m].at \in {"evict", "close"}
    /\ live' = live \ {task[m].victim}
    /\ IF task[m].victim \in live
       THEN /\ Goto(m, IF task[m].at = "evict" THEN "evicted" ELSE "closed")
            /\ UNCHANGED admitted
       ELSE /\ task' = [task EXCEPT ![m] = IF @.at = "evict"
                           THEN [@ EXCEPT !.at = "create"] ELSE NoTask]
            /\ admitted' = Cardinality(live)
    /\ UNCHANGED <<creation, tasks>>

\* The rest of close_session: release_transport_scope (in the module
\* that extends this one) and publish_occupancy.
EndClose(m) ==
    /\ task[m].at \in {"evicted", "closed"}
    /\ admitted' = Cardinality(live)
    /\ task' = [task EXCEPT ![m] = IF @.at = "evicted"
                   THEN [@ EXCEPT !.at = "create"] ELSE NoTask]
    /\ UNCHANGED <<live, creation, tasks>>

\* The steps that leave scopes alone.
SessionStep ==
    \E m \in Managers :
        \/ \E t \in Transports : Admit(m, t) \/ AskToClose(m, t)
        \/ ReserveSlot(m) \/ PickVictim(m) \/ Capacity(m)
        \/ Create(m) \/ BeginClose(m)

-----------------------------------------------------------------------------

\* Live transports never exceed the configured cap, whatever admissions,
\* evictions and closes run at once (create_session, reserve_slot).
CapacityHeld == Cardinality(live) <= MaxSessions

\* The gauge get_watchdog_health reads is rmcp's own count whenever no close is
\* between its removal and its publication (publish_occupancy).
GaugeExact ==
    (\A m \in Managers : task[m].at \notin {"evicted", "closed"})
        => admitted = Cardinality(live)

\* "Unreachable while `max_sessions` is at least 1": an admission always finds a
\* transport to evict (WatchdogSessionManagerError::Capacity).
CapacityUnreachable == \A m \in Managers : ~ ENABLED Capacity(m)

=============================================================================
