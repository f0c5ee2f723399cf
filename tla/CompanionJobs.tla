------------------------------ MODULE CompanionJobs ------------------------------
(***************************************************************************)
(* Codex Companion reconciliation: CompanionDiscovery::reconcile and the   *)
(* parser of crates/watchdog-companion.                                    *)
(*                                                                         *)
(* The plugin records a job twice, in the workspace's state.json and in    *)
(* jobs/<id>.json, without a transaction, and appends to jobs/<id>.log.  A *)
(* pass reads the summary, then job by job the detail, registers the job   *)
(* under its owning Claude main, ingests the reconciled state and credits  *)
(* the growth of the log.  The plugin writes, Claude's reconciliation      *)
(* learns aliases and the timers fire while the pass runs.                 *)
(*                                                                         *)
(* The process a job reports (ingest_companion_process) is evidence of     *)
(* its own and left to ProcessMonitor and TerminationSaga.                 *)
(***************************************************************************)
EXTENDS Integers, FiniteSets, Functions

CONSTANTS
    Jobs,      \* native job identifiers
    MaxJobEvents, \* bound: changes of a job, torn writes, prunings, appends, stalls, aliases
    MaxFaults  \* bound: reads and store calls that fail, restarts

ASSUME CompanionAssumption == MaxJobEvents \in Nat /\ MaxFaults \in Nat

VARIABLES
    job,      \* the job itself: its state and the native time of its last change
    summary,  \* its record in state.json, if any
    detail,   \* its record in jobs/<id>.json, if any
    log,      \* bytes in jobs/<id>.log
    aged,     \* jobs whose detail file left the bootstrap window
    aliased,  \* the registry resolves the owning session to its canonical main
    mains,    \* main sessions the store holds
    session,  \* the job's session
    cursor,   \* the log cursor saved for the job, -1 when none
    credits,  \* log activity credited to the job
    seen,     \* identifiers of the observations persisted
    run,      \* the pass in progress
    tally     \* the bounds used up

files == <<job, summary, detail, log, aged>>
store == <<mains, session, cursor, credits, seen>>
jobVars == <<files, aliased, store, run, tally>>

States == {"Starting", "Running", "Completed", "Cancelled"}
Terminal == {"Completed", "Cancelled"}

Record(s, at) == [state |-> s, at |-> at]
Absent == Record("none", 0)
Torn == Record("torn", 0)
NoView == [state |-> "none", at |-> 0, source |-> "none", certain |-> FALSE]
NoSession == [root |-> "none", state |-> "none", gate |-> FALSE]
Resting == [at |-> "rest", todo |-> {}, read |-> [j \in Jobs |-> Absent], job |-> "none",
            view |-> NoView, size |-> 0, settled |-> {}]

Known(j) == session[j] # NoSession

\* The job is over, both files say so and are no longer recent.
History(j) == /\ j \in aged /\ job[j].state \in Terminal
              /\ summary[j] = job[j] /\ detail[j] \in {job[j], Absent}

JobInit ==
    /\ job \in [Jobs -> {Record("Starting", 1), Record("Running", 1)}]
    /\ summary = [j \in Jobs |-> Absent] /\ detail = [j \in Jobs |-> Absent]
    /\ log = [j \in Jobs |-> 0] /\ aged = {}
    /\ aliased = FALSE /\ mains = {"canonical"}
    /\ session = [j \in Jobs |-> NoSession]
    /\ cursor = [j \in Jobs |-> -1] /\ credits = [j \in Jobs |-> 0]
    /\ seen = {} /\ run = Resting
    /\ tally = [events |-> 0, faults |-> 0]

Spend(what, max) == tally[what] < max /\ tally' = [tally EXCEPT ![what] = @ + 1]
Happens == Spend("events", MaxJobEvents)
Breaks == Spend("faults", MaxFaults)
Holds == tally' = tally

(***************************************************************************)
(* The plugin.                                                             *)
(***************************************************************************)
Advance(j, s) ==
    /\ s \in (CASE job[j].state = "Starting" -> {"Running", "Cancelled"}
                [] job[j].state = "Running" -> {"Running"} \cup Terminal
                [] OTHER -> {})
    /\ Happens
    /\ job' = [job EXCEPT ![j] = Record(s, @.at + 1)]
    /\ aged' = aged \ {j}
    /\ UNCHANGED <<summary, detail, log, aliased, store, run>>

WriteSummary(j) ==
    /\ summary[j] # job[j]
    /\ summary' = [summary EXCEPT ![j] = job[j]]
    /\ UNCHANGED <<job, detail, log, aged, aliased, store, run, tally>>

\* A detail is rewritten in place: a reader may meet it half written.
WriteDetail(j, whole) ==
    /\ detail[j] # job[j] /\ j \notin aged
    /\ IF whole THEN Holds ELSE detail[j] # Torn /\ Happens
    /\ detail' = [detail EXCEPT ![j] = IF whole THEN job[j] ELSE Torn]
    /\ UNCHANGED <<job, summary, log, aged, aliased, store, run>>

Prune(j) ==
    /\ job[j].state \in Terminal /\ detail[j] = job[j]
    /\ detail' = [detail EXCEPT ![j] = Absent]
    /\ Happens
    /\ UNCHANGED <<job, summary, log, aged, aliased, store, run>>

AppendLog(j) ==
    /\ Happens
    /\ log' = [log EXCEPT ![j] = @ + 1]
    /\ UNCHANGED <<job, summary, detail, aged, aliased, store, run>>

\* The bootstrap window of a finished job passes.
Age(j) ==
    /\ job[j].state \in Terminal /\ summary[j] = job[j] /\ detail[j] \in {job[j], Absent}
    /\ j \notin aged
    /\ aged' = aged \cup {j}
    /\ UNCHANGED <<job, summary, detail, log, aliased, store, run, tally>>

(***************************************************************************)
(* The rest of the server: an alias of the owning session is learned, the  *)
(* stall timer of a session that awaits no reconciliation fires.           *)
(***************************************************************************)
LearnAlias ==
    /\ ~aliased /\ aliased' = TRUE
    /\ Happens
    /\ UNCHANGED <<files, store, run>>

Stall(j) ==
    /\ session[j].state \in {"Starting", "Running"} /\ ~session[j].gate
    /\ Happens
    /\ session' = [session EXCEPT ![j].state = "Stalled"]
    /\ UNCHANGED <<files, aliased, mains, cursor, credits, seen, run>>

\* ingest_native_observation: an identifier already persisted changes nothing.
Ingest(id, j, next) ==
    /\ seen' = seen \cup {id}
    /\ session' = IF id \in seen THEN session ELSE [session EXCEPT ![j] = next]

(***************************************************************************)
(* The pass.                                                               *)
(***************************************************************************)

\* parse_summary: a summary that cannot be read, or one bad job in it, yields no job.
ReadSummary ==
    /\ run.at = "rest"
    /\ \/ /\ Holds
          /\ run' = [Resting EXCEPT !.at = "job", !.read = summary,
                        !.todo = {j \in Jobs : summary[j] # Absent},
                        !.settled = {j \in Jobs : History(j)}]
       \/ Breaks /\ run' = run
    /\ UNCHANGED <<files, aliased, store>>

\* CompanionParser::reconcile; a detail that is absent or cannot be parsed leaves the summary.
Reconcile(s, d) ==
    IF d \in {Absent, Torn}
    THEN [state |-> s.state, at |-> s.at, source |-> "summary", certain |-> TRUE]
    ELSE [state |-> IF s.state = d.state THEN d.state ELSE "Unknown",
          at |-> s.at, source |-> "both", certain |-> s.state = d.state]

\* should_reconcile_companion_job: an unknown finished job needs a recent detail file.
Admitted(j, v) == v.state \in Terminal => Known(j) \/ (detail[j] # Absent /\ j \notin aged)

NextJob == run' = [run EXCEPT !.at = "job", !.job = "none", !.view = NoView, !.size = 0,
                              !.todo = @ \ {run.job}]

ReadDetail(j) ==
    /\ run.at = "job" /\ j \in run.todo
    /\ \E d \in {detail[j], Absent} :
         /\ IF d = detail[j] THEN Holds ELSE Breaks
         /\ LET v == Reconcile(run.read[j], d)
            IN  run' = IF Admitted(j, v)
                       THEN [run EXCEPT !.at = "register", !.job = j, !.view = v]
                       ELSE [run EXCEPT !.todo = @ \ {j}]
    /\ UNCHANGED <<files, aliased, store>>

\* ensure_native_parent: the owner becomes a main session when the store holds none.
EnsureParent(root) == mains' = mains \cup {root}

\* The owner, then discover_session for the job: a job already held under another root is refused.
Register ==
    LET j == run.job
        root == IF aliased THEN "canonical" ELSE "owner"
    IN  /\ run.at = "register"
        /\ \/ /\ Holds
              /\ EnsureParent(root)
              /\ IF Known(j) /\ session[j].root # root
                 THEN session' = session /\ NextJob
                 ELSE /\ session' = IF Known(j) THEN session
                                    ELSE [session EXCEPT ![j] = [root |-> root, state |-> "Starting",
                                                                 gate |-> FALSE]]
                      /\ run' = [run EXCEPT !.at = "state"]
           \/ Breaks /\ NextJob /\ UNCHANGED <<mains, session>>
        /\ UNCHANGED <<files, aliased, cursor, credits, seen>>

\* A plausible slip: the native time and the files read are taken to tell states apart.
KeyByTime(j, v) == <<"state", j, v.at, "any", v.source, TRUE>>

\* companion_event_key.
EventKey(j, v) == <<"state", j, v.at, v.state, v.source, v.certain>>

\* Conflicting records are Uncertain evidence, which the reducer only notes.
IngestJobState ==
    LET j == run.job
        next == IF run.view.certain
                THEN [session[j] EXCEPT !.state = run.view.state, !.gate = FALSE]
                ELSE session[j]
    IN  /\ run.at = "state"
        /\ \/ Holds /\ Ingest(EventKey(j, run.view), j, next) /\ run' = [run EXCEPT !.at = "log"]
           \/ Breaks /\ NextJob /\ UNCHANGED <<session, seen>>
        /\ UNCHANGED <<files, aliased, mains, cursor, credits>>

\* The log grew since the cursor was saved.
Appended(j, size) == cursor[j] >= 0 /\ size > cursor[j]

ReadLog ==
    LET j == run.job
    IN  /\ run.at = "log"
        /\ IF log[j] = 0 \/ log[j] = cursor[j] THEN NextJob
           ELSE run' = [run EXCEPT !.at = IF Appended(j, log[j]) THEN "progress" ELSE "cursor",
                                   !.size = log[j]]
        /\ UNCHANGED <<files, aliased, store, tally>>

\* log_activity, identified by the size of the log.
IngestProgress ==
    LET j == run.job
        id == <<"log", j, run.size, "none", "none", TRUE>>
        resumed == IF session[j].state = "Stalled" THEN "Running" ELSE session[j].state
    IN  /\ run.at = "progress"
        /\ \/ /\ Holds
              /\ Ingest(id, j, [session[j] EXCEPT !.state = resumed, !.gate = FALSE])
              /\ credits' = IF id \in seen THEN credits ELSE [credits EXCEPT ![j] = @ + 1]
              /\ run' = [run EXCEPT !.at = "cursor"]
           \/ Breaks /\ NextJob /\ UNCHANGED <<session, seen, credits>>
        /\ UNCHANGED <<files, aliased, mains, cursor>>

SaveCursor ==
    /\ run.at = "cursor"
    /\ \/ Holds /\ cursor' = [cursor EXCEPT ![run.job] = run.size]
       \/ Breaks /\ UNCHANGED cursor
    /\ NextJob
    /\ UNCHANGED <<files, aliased, mains, session, credits, seen>>

Rest ==
    /\ run.at = "job" /\ run.todo = {}
    /\ run' = Resting
    /\ UNCHANGED <<files, aliased, store, tally>>

\* The pass is lost and mark_restarted gates every session; aliases are hydrated again.
Reboot ==
    /\ Breaks
    /\ run' = Resting
    /\ session' = [j \in Jobs |-> [session[j] EXCEPT !.gate = Known(j)]]
    /\ UNCHANGED <<files, aliased, mains, cursor, credits, seen>>

JobStep ==
    \/ \E j \in Jobs : ReadDetail(j)
    \/ Register \/ IngestJobState \/ ReadLog \/ IngestProgress \/ SaveCursor \/ Rest

JobNext ==
    \/ \E j \in Jobs :
          \/ \E s \in States : Advance(j, s)
          \/ WriteSummary(j) \/ Prune(j) \/ AppendLog(j) \/ Age(j) \/ Stall(j)
          \/ \E whole \in BOOLEAN : WriteDetail(j, whole)
    \/ LearnAlias \/ ReadSummary \/ JobStep \/ Reboot

\* Watch events and the recovery interval start passes; a pass runs to its end.
JobWork == ReadSummary \/ JobStep

JobSpec == JobInit /\ [][JobNext]_jobVars /\ WF_jobVars(JobWork)

(***************************************************************************)
(* Properties.                                                             *)
(***************************************************************************)

\* Every variable keeps its shape, and the root of a job is a session the store holds.
JobsTypeOK ==
    /\ \A j \in Jobs : /\ session[j].state \in States \cup {"none", "Stalled"}
                       /\ session[j].root \in {"none", "owner", "canonical"}
                       /\ Known(j) => session[j].root \in mains
                       /\ cursor[j] \in -1..log[j] /\ credits[j] \in Nat
    /\ run.at \in {"rest", "job", "register", "state", "log", "progress", "cursor"}
    /\ run.at \notin {"rest", "job"} => run.job \in run.todo
    /\ run.at = "progress" => run.size > cursor[run.job]

\* "preventing false completion or recovery": a job gets an outcome only when it has
\* ended, and no read of two files caught at different times takes the outcome back.
OutcomeIsFinal ==
    [][\A j \in Jobs :
          /\ session'[j].state \in Terminal => session'[j].state = job[j].state
          /\ session[j].state \in Terminal => session'[j].state = session[j].state]_jobVars

\* FR-DIS-016: "Retained terminal Companion history must not bootstrap old wrapper
\* sessions": what was history when a pass read the summary gets no session from it.
HistoryStaysOut ==
    [][\A j \in run.settled : session'[j] # NoSession => Known(j)]_jobVars

\* Every activity credited to a job is backed by a byte appended after the watchdog met
\* its log, however often a pass is cut short between the credit and the cursor.
CreditsAreAppends == \A j \in Jobs : credits[j] <= IF log[j] = 0 THEN 0 ELSE log[j] - 1

Settled(j) == summary[j] = job[j] /\ detail[j] = job[j]

\* A job that ended and whose files agree is shown as ended, unless its owner's alias
\* was learned after the job was registered.
OutcomeArrives ==
    \A j \in Jobs :
        (Settled(j) /\ job[j].state \in Terminal /\ j \notin aged)
            ~> (session[j].state = job[j].state \/ ~Settled(j) \/ j \in aged
                  \/ (aliased /\ session[j].root = "owner"))

\* FR-DATA-001: "A restart reconstructs active state from native sources and reconciles".
RestartReconciles ==
    \A j \in Jobs : (session[j].gate /\ Settled(j)) ~> (~session[j].gate \/ ~Settled(j))

\* FR-DIS-015: jobs of a uniquely aliased session "do not create a wrapper main card".
NoWrapperMain == aliased => \A j \in Jobs : session[j].root # "owner"

\* FR-STA-008: "Identical observations do not create duplicate transitions": a stalled job
\* whose native record and log did not change stays stalled.
StallSurvivesRereads ==
    [][\A j \in Jobs : (session[j].state = "Stalled" /\ session'[j].state = "Running") =>
          (run.at = "progress" \/ \A id \in seen : ~(id[1] = "state" /\ id[2] = j /\ id[3] = run.view.at
                                                     /\ id[4] = run.view.state))]_jobVars

=============================================================================
