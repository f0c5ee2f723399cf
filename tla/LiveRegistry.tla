------------------------------ MODULE LiveRegistry ------------------------------
(***************************************************************************)
(* The live-session registry of Claude and the retirement of absent mains: *)
(* reconcile_live_registries and complete_absent_live_mains.               *)
(*                                                                         *)
(* A Claude main writes sessions/<pid>.json while it runs.  A pass scans   *)
(* the directory once, verifies every entry against the process table,     *)
(* and, if all of them could be verified, completes every retained main it *)
(* did not see.  Mains start, change, end and register themselves through  *)
(* MCP while the pass runs.  The store refuses an observation it has seen. *)
(***************************************************************************)
EXTENDS Integers, FiniteSets, Functions

CONSTANTS
    Mains,       \* native main sessions
    MaxStarts,   \* bound: processes started
    MaxRewrites, \* bound: changes of state written to a registry entry
    MaxCalls,    \* bound: MCP calls that report a running main
    MaxLosses    \* bound: uncertain scans, failed store calls, restarts

ASSUME LiveAssumption ==
    /\ MaxStarts \in Nat /\ MaxRewrites \in Nat /\ MaxCalls \in Nat /\ MaxLosses \in Nat

VARIABLES
    process,    \* the native process of each main: its start ticks, 0 when none runs
    starts,     \* start ticks handed out to each main
    entry,      \* the registry entry of each main, if any
    sessions,   \* the retained session of each main, if any
    persisted,  \* identifiers of the observations persisted
    pass,       \* the pass in progress
    edits, calls, faults \* counters of the bounds

native == <<process, starts, entry, edits>>
vars == <<native, sessions, persisted, pass, calls, faults>>

NoEntry == [start |-> 0, updated |-> 0, state |-> "none"]
Unknown == [state |-> "none", process |-> 0, gate |-> FALSE]
Idle == [at |-> "idle", todo |-> {}, main |-> "none", live |-> NoEntry,
         present |-> {}, complete |-> FALSE, failed |-> FALSE, gone |-> {}]

Retained == {m \in Mains : sessions[m] # Unknown}

Init ==
    /\ process = [m \in Mains |-> 0]
    /\ starts = [m \in Mains |-> 0]
    /\ entry = [m \in Mains |-> NoEntry]
    /\ sessions = [m \in Mains |-> Unknown]
    /\ persisted = {}
    /\ pass = Idle
    /\ edits = 0 /\ calls = 0 /\ faults = 0

(***************************************************************************)
(* Claude: processes and the entries they write.  A process that crashes   *)
(* leaves its entry behind until something removes it.                     *)
(***************************************************************************)
Launch(m) ==
    /\ process[m] = 0 /\ FoldFunction(+, 0, starts) < MaxStarts
    /\ starts' = [starts EXCEPT ![m] = @ + 1]
    /\ process' = [process EXCEPT ![m] = starts'[m]]
    /\ UNCHANGED <<entry, edits, sessions, persisted, pass, calls, faults>>

WriteEntry(m, state) ==
    /\ process[m] # 0
    /\ IF entry[m].start # process[m] THEN edits' = edits
       ELSE edits < MaxRewrites /\ edits' = edits + 1
    /\ entry' = [entry EXCEPT ![m] = [start |-> process[m], updated |-> @.updated + 1,
                                      state |-> state]]
    /\ UNCHANGED <<process, starts, sessions, persisted, pass, calls, faults>>

Exit(m, clean) ==
    /\ process[m] # 0
    /\ process' = [process EXCEPT ![m] = 0]
    /\ entry' = IF clean THEN [entry EXCEPT ![m] = NoEntry] ELSE entry
    /\ UNCHANGED <<starts, edits, sessions, persisted, pass, calls, faults>>

RemoveStale(m) ==
    /\ process[m] = 0 /\ entry[m] # NoEntry
    /\ entry' = [entry EXCEPT ![m] = NoEntry]
    /\ UNCHANGED <<process, starts, edits, sessions, persisted, pass, calls, faults>>

(***************************************************************************)
(* The rest of the server.  A main is retained by its own MCP call or by   *)
(* its transcript, and reports its state under an identifier of its own.   *)
(***************************************************************************)
Report(m) ==
    /\ process[m] # 0 /\ calls < MaxCalls
    /\ calls' = calls + 1
    /\ sessions' = [sessions EXCEPT ![m].state = "running", ![m].gate = FALSE]
    /\ UNCHANGED <<native, persisted, pass, faults>>

Fails == faults < MaxLosses /\ faults' = faults + 1
Works == faults' = faults

\* ingest_native_observation: an identifier already persisted changes nothing.
Apply(id, m, update) ==
    /\ persisted' = persisted \cup {id}
    /\ sessions' = IF id \in persisted THEN sessions ELSE [sessions EXCEPT ![m] = update]

(***************************************************************************)
(* reconcile_live_registry: entry by entry; the first that cannot be read  *)
(* or verified ends it, and no absence is inferred.                        *)
(***************************************************************************)
Scan ==
    /\ pass.at = "idle"
    /\ \E certain \in BOOLEAN :
         /\ IF certain THEN Works ELSE Fails
         /\ pass' = [Idle EXCEPT
              !.at = IF certain THEN "entry" ELSE "absent",
              !.todo = IF certain THEN {m \in Mains : entry[m] # NoEntry} ELSE {},
              !.complete = certain, !.failed = ~certain,
              !.gone = {<<m, starts[m]>> :
                           m \in {k \in Retained : process[k] = 0 /\ entry[k] = NoEntry}}]
    /\ UNCHANGED <<native, sessions, persisted, calls>>

Abandon == pass' = [pass EXCEPT !.at = "absent", !.todo = {}, !.main = "none", !.live = NoEntry,
                                !.complete = FALSE, !.failed = TRUE]

\* A plausible slip: an entry that went away is skipped.
SkipGone(m) ==
    /\ pass.at = "entry" /\ m \in pass.todo
    /\ IF entry[m].start # process[m] \/ process[m] = 0
       THEN pass' = [pass EXCEPT !.todo = @ \ {m}, !.failed = TRUE]
       ELSE pass' = [pass EXCEPT !.at = "process", !.todo = @ \ {m}, !.main = m,
                                 !.live = entry[m], !.present = @ \cup {m}]
    /\ UNCHANGED <<native, sessions, persisted, calls, faults>>

\* Read the entry and verify its process: the file may be gone or stale by now.
ReadEntry(m) ==
    /\ pass.at = "entry" /\ m \in pass.todo
    /\ IF entry[m].start # process[m] \/ process[m] = 0
       THEN Abandon
       ELSE pass' = [pass EXCEPT !.at = "process", !.todo = @ \ {m}, !.main = m,
                                 !.live = entry[m], !.present = @ \cup {m}]
    /\ UNCHANGED <<native, sessions, persisted, calls, faults>>

\* discover_session and the process identity.
IngestProcess ==
    LET m == pass.main
        known == IF sessions[m] = Unknown THEN [Unknown EXCEPT !.state = "starting"] ELSE sessions[m]
    IN  /\ pass.at = "process"
        /\ \/ /\ Works
              /\ Apply(<<"process", m, pass.live.start>>, m,
                       [known EXCEPT !.process = pass.live.start, !.gate = FALSE])
              /\ pass' = [pass EXCEPT !.at = "state"]
           \/ Fails /\ Abandon /\ UNCHANGED <<sessions, persisted>>
        /\ UNCHANGED <<native, calls>>

\* A plausible slip: the identifier leaves out the process and the time of the update.
IngestStateByName ==
    LET m == pass.main
    IN  /\ pass.at = "state"
        /\ \/ /\ Works
              /\ Apply(<<"state", m, pass.live.state>>, m,
                       [sessions[m] EXCEPT !.state = pass.live.state, !.gate = FALSE])
              /\ pass' = [pass EXCEPT !.at = "reconciled"]
           \/ Fails /\ Abandon /\ UNCHANGED <<sessions, persisted>>
        /\ UNCHANGED <<native, calls>>

\* The registry's state, identified by the process and the time of the update.
IngestState ==
    LET m == pass.main
    IN  /\ pass.at = "state"
        /\ \/ /\ Works
              /\ Apply(<<"state", m, pass.live.start, pass.live.updated, pass.live.state>>, m,
                       [sessions[m] EXCEPT !.state = pass.live.state, !.gate = FALSE])
              /\ pass' = [pass EXCEPT !.at = "reconciled"]
           \/ Fails /\ Abandon /\ UNCHANGED <<sessions, persisted>>
        /\ UNCHANGED <<native, calls>>

\* mark_native_reconciled clears the restart gate, whatever was seen before.
MarkReconciled ==
    /\ pass.at = "reconciled"
    /\ \/ /\ Works
          /\ sessions' = [sessions EXCEPT ![pass.main].gate = FALSE]
          /\ pass' = [pass EXCEPT !.at = "entry", !.main = "none", !.live = NoEntry]
       \/ Fails /\ Abandon /\ UNCHANGED sessions
    /\ UNCHANGED <<native, persisted, calls>>

\* All entries read: list the retained mains.
ListMains ==
    /\ pass.at = "entry" /\ pass.todo = {}
    /\ pass' = [pass EXCEPT !.at = "absent", !.todo = Retained \ pass.present]
    /\ UNCHANGED <<native, sessions, persisted, calls, faults>>

\* complete_absent_live_mains, one main; the identifier names the process last seen.  A
\* main that cannot be ingested is skipped, one that cannot be read ends the loop.
RetireAbsent(m) ==
    LET rest == pass.todo \ {m}
    IN  /\ pass.at = "absent" /\ m \in pass.todo
        /\ \/ /\ Works
              /\ pass' = [pass EXCEPT !.todo = rest]
              /\ IF sessions[m].state = "completed" THEN UNCHANGED <<sessions, persisted>>
                 ELSE Apply(<<"absent", m, sessions[m].process>>, m,
                            [sessions[m] EXCEPT !.state = "completed", !.gate = FALSE])
           \/ /\ Fails
              /\ \E todo \in {rest, {}} : pass' = [pass EXCEPT !.todo = todo]
              /\ UNCHANGED <<sessions, persisted>>
        /\ UNCHANGED <<native, calls>>

EndPass ==
    /\ pass.at = "absent" /\ pass.todo = {}
    /\ pass' = Idle
    /\ UNCHANGED <<native, sessions, persisted, calls, faults>>

\* The server restarts: the pass is lost and mark_restarted gates every session.
Restart ==
    /\ Fails
    /\ pass' = Idle
    /\ sessions' = [m \in Mains |-> [sessions[m] EXCEPT !.gate = m \in Retained]]
    /\ UNCHANGED <<native, persisted, calls>>

RegistryStep ==
    \/ \E m \in Mains : ReadEntry(m) \/ RetireAbsent(m)
    \/ IngestProcess \/ IngestState \/ MarkReconciled \/ ListMains \/ EndPass

Next ==
    \/ \E m \in Mains :
          \/ Launch(m) \/ RemoveStale(m) \/ Report(m)
          \/ \E s \in {"running", "waiting"} : WriteEntry(m, s)
          \/ \E clean \in BOOLEAN : Exit(m, clean)
    \/ Scan \/ RegistryStep \/ Restart

\* Watch events and the recovery interval start passes; a pass runs to its end.
Fairness == WF_vars(Scan) /\ WF_vars(RegistryStep)

Spec == Init /\ [][Next]_vars /\ Fairness

(***************************************************************************)
(* Properties.                                                             *)
(***************************************************************************)
MainStates == {"none", "starting", "running", "waiting", "completed"}

\* Every variable keeps its shape.
TypeOK ==
    /\ process \in [Mains -> 0..MaxStarts] /\ starts \in [Mains -> 0..MaxStarts]
    /\ sessions \in [Mains -> [state : MainStates, process : 0..MaxStarts, gate : BOOLEAN]]
    /\ pass.at \in {"idle", "entry", "process", "state", "reconciled", "absent"}
    /\ pass.todo \subseteq Mains /\ pass.present \subseteq Mains
    /\ pass.at \in {"process", "state", "reconciled"} => pass.main \in pass.present

\* OPERATIONS: a malformed or incomplete registry "never causes a mass terminal
\* transition": once an entry could not be read, verified or persisted, the pass
\* completes nobody.
UncertainRetiresNothing ==
    [][pass.failed => \A m \in Mains : sessions'[m].state = "completed" =>
                                       sessions[m].state = "completed"]_vars

\* A main the pass retires was not in the registry when the pass scanned it, or has
\* been started again since: a main that kept its entry is never retired.
VerifiedNotRetired ==
    [][\A m \in Mains : (sessions[m].state # "completed" /\ sessions'[m].state = "completed")
                            => m \notin pass.present]_vars

Registered(m) == process[m] # 0 /\ entry[m].start = process[m]
Stale == \E m \in Mains : entry[m] # NoEntry /\ ~Registered(m)

\* A main that is running, with its entry in place, is not left completed, however it
\* was retired: a pass over a sound registry reports its state under a new identifier.
LiveComesBack ==
    \A m \in Mains :
        (Registered(m) /\ sessions[m].state = "completed")
            ~> (sessions[m].state # "completed" \/ ~Registered(m) \/ Stale)

\* A restart's gate is lifted again for a main that keeps running in a sound registry.
GateLifted ==
    \A m \in Mains :
        (sessions[m].gate /\ Registered(m)) ~> (~sessions[m].gate \/ ~Registered(m) \/ Stale)

\* FR-DIS-018: "Each valid registry entry supplies an exact session ID, PID/start identity,
\* cwd, title, state, and version": a main that keeps a valid entry is discovered.
ValidEntrySupplies ==
    \A m \in Mains : Registered(m) ~> (sessions[m].process = process[m] \/ ~Registered(m))

\* FR-DIS-018: "A complete registry scan makes absent retained Claude mains terminal".
AbsentTerminal ==
    [][pass.at = "absent" /\ pass'.at = "idle" /\ pass.complete /\ faults = 0 =>
         \A m \in Mains : <<m, starts[m]>> \in pass.gone => sessions[m].state = "completed"]_vars

=============================================================================
