------------------------------ MODULE TeamTasks ------------------------------
(***************************************************************************)
(* The task files of a Claude team: collect_team_task_aggregates,          *)
(* ClaudeTaskAggregate and ingest_team_task_aggregate.                     *)
(*                                                                         *)
(* Each task of a team is a JSON file that names its owner.  A pass reads  *)
(* the team's configuration, unless it is older than a day, registers the  *)
(* member, folds its task files into one state and ingests it under a key  *)
(* made of the state, the latest modification time and the number of       *)
(* tasks.  Claude rewrites the files while the pass reads them; the        *)
(* content of a file and its modification time are read one after the      *)
(* other.  Hooks, transcripts and the timer move the same session.         *)
(***************************************************************************)
EXTENDS Integers, FiniteSets, FiniteSetsExt

CONSTANTS
    Tasks,      \* the task files one member may own
    MaxUpdates, \* bound: changes of the task files and the configuration, other evidence
    MaxMishaps  \* bound: files that cannot be read, failed store calls, restarts

ASSUME TasksAssumption == MaxUpdates \in Nat /\ MaxMishaps \in Nat /\ "none" \notin Tasks

VARIABLES
    task,    \* each task file: its state and modification time
    config,  \* the team's configuration: the member is active, the names of the team and
             \* of the member are unique, the file is less than a day old
    member,  \* the member's session: state, restart gate, the totals a pass last reported
    keys,    \* identifiers of the observations persisted
    fold,    \* the pass in progress
    again,   \* since a counted file was last written some file no longer counted or could
             \* not be read: the totals may be ones reported earlier
    count    \* updates and mishaps so far

taskVars == <<task, config, member, keys, fold, again, count>>

TaskStates == {"Starting", "Running", "Completed", "Failed"}
Finished == {"Completed", "Failed"}
NoTask == [state |-> "none", at |-> 0]
NoTotals == [state |-> "none", latest |-> 0, tasks |-> 0]
NoMember == [state |-> "none", gate |-> FALSE, report |-> NoTotals]
Team == [active |-> TRUE, unique |-> TRUE, recent |-> TRUE]

\* ClaudeTaskAggregate::new, with the tasks still to read.
Empty == [at |-> "idle", todo |-> {}, task |-> "none", state |-> "none", got |-> {}, states |-> {},
          terminal |-> NoTask, latest |-> 0, tasks |-> 0, busy |-> {}, left |-> {}]

Clock == count.updates + 2

TaskInit ==
    /\ task \in [Tasks -> {NoTask, [state |-> "Running", at |-> 1]}] /\ config = Team
    /\ member = NoMember /\ keys = {} /\ fold = Empty
    /\ again = FALSE /\ count = [updates |-> 0, mishaps |-> 0]

Update == count.updates < MaxUpdates /\ count' = [count EXCEPT !.updates = @ + 1]
Mishap == count.mishaps < MaxMishaps /\ count' = [count EXCEPT !.mishaps = @ + 1]
Smooth == count' = count

(***************************************************************************)
(* Claude, and the other sources of evidence.                              *)
(***************************************************************************)

\* The files a pass would count.
Counts(f) == f # NoTask /\ (config.active \/ f.state \in Finished)

WriteTask(k, s) ==
    LET file == [state |-> s, at |-> Clock]
    IN  /\ task[k].state # s
        /\ Update
        /\ task' = [task EXCEPT ![k] = file]
        /\ fold' = [fold EXCEPT !.busy = @ \ {k}]
        /\ again' = (~Counts(file) /\ (again \/ Counts(task[k])))
        /\ UNCHANGED <<config, member, keys>>

\* The file is deleted or its task given to another owner.
DeleteTask(k) ==
    /\ task[k] # NoTask
    /\ Update
    /\ task' = [task EXCEPT ![k] = NoTask]
    /\ again' = TRUE /\ fold' = [fold EXCEPT !.busy = @ \ {k}]
    /\ UNCHANGED <<config, member, keys>>

\* config.json is rewritten, or a day old.
Configure(next) ==
    /\ config # next /\ (next.recent \/ next = [config EXCEPT !.recent = FALSE])
    /\ Update
    /\ config' = next
    /\ again' = (again \/ config.active # next.active)
    /\ UNCHANGED <<task, member, keys, fold>>

\* Hooks and transcripts report the member, and the timer finds it silent.
OtherEvidence(s) ==
    /\ member # NoMember /\ member.state # s
    /\ s = "Stalled" => member.state \in {"Starting", "Running"} /\ ~member.gate
    /\ Update
    /\ member' = [member EXCEPT !.state = s, !.gate = FALSE]
    /\ UNCHANGED <<task, config, keys, fold, again>>

(***************************************************************************)
(* The pass.                                                               *)
(***************************************************************************)

\* discover_session and mark_native_reconciled; the latter alone may fail.
Discovered(gate) == [member EXCEPT !.state = IF member = NoMember THEN "Starting" ELSE @, !.gate = gate]

\* collect_team_configs and reconcile_team, for a configuration that is recent: the member is
\* registered, and the scan's files are folded unless a name is ambiguous.
ReadTeam ==
    /\ fold.at = "idle" /\ config.recent
    /\ \/ Smooth /\ member' = Discovered(FALSE)
       \/ Mishap /\ member' \in {member, Discovered(member.gate)}
    /\ fold' = [Empty EXCEPT !.at = IF config.active THEN "active" ELSE "inactive",
                  !.todo = IF config.unique THEN {k \in Tasks : task[k] # NoTask} ELSE {},
                  !.busy = {k \in Tasks : task[k].state = "Running"}]
    /\ UNCHANGED <<task, config, keys, again>>

Reading == fold.at \in {"active", "inactive"} /\ fold.task = "none"

\* The content of one file; a deleted one is skipped, so is one that cannot be read, and an
\* unfinished task of an inactive member.
ReadTask(k) ==
    LET skip == [fold EXCEPT !.todo = @ \ {k}]
    IN  /\ Reading /\ k \in fold.todo
        /\ \/ /\ Smooth
              /\ fold' = IF task[k] = NoTask \/ (fold.at = "inactive" /\ task[k].state \notin Finished)
                         THEN skip
                         ELSE [fold EXCEPT !.task = k, !.state = task[k].state]
              /\ again' = again
           \/ Mishap /\ fold' = [skip EXCEPT !.left = @ \cup {k}] /\ again' = TRUE
        /\ UNCHANGED <<task, config, member, keys>>

\* ClaudeTaskAggregate::observe; `got` records what was read.
Observe(f, s, at) ==
    [f EXCEPT !.states = @ \cup {s}, !.got = @ \cup {<<s, at>>},
              !.terminal = IF s \in Finished /\ at >= @.at THEN [state |-> s, at |-> at] ELSE @,
              !.latest = IF at > @ THEN at ELSE @, !.tasks = @ + 1]

\* The file's modification time, read after its content; without it the file is left out.
StatTask ==
    LET k == fold.task
        rest == [fold EXCEPT !.todo = @ \ {k}, !.task = "none", !.state = "none"]
    IN  /\ fold.task # "none"
        /\ \/ /\ Smooth /\ again' = again
              /\ fold' = IF task[k] = NoTask THEN rest ELSE Observe(rest, fold.state, task[k].at)
           \/ Mishap /\ fold' = [rest EXCEPT !.left = @ \cup {k}] /\ again' = TRUE
        /\ UNCHANGED <<task, config, member, keys>>

\* ClaudeTaskAggregate::state.
Aggregate(f) ==
    IF "Running" \in f.states THEN "Running"
    ELSE IF "Starting" \in f.states THEN "Starting"
    ELSE IF f.terminal # NoTask THEN f.terminal.state
    ELSE "Unknown"

\* A plausible slip: the key leaves out the modification time.
KeyByCount(f) == <<Aggregate(f), 0, f.tasks>>

TaskKey(f) == <<Aggregate(f), f.latest, f.tasks>>

\* ingest_team_task_aggregate: nothing without a task, or with a key already persisted.
IngestTasks ==
    LET known == fold.tasks = 0 \/ TaskKey(fold) \in keys
    IN  /\ Reading /\ fold.todo = {}
        /\ fold' = Empty
        /\ \/ /\ Smooth
              /\ IF known \/ member = NoMember THEN UNCHANGED <<keys, member>>
                 ELSE /\ keys' = keys \cup {TaskKey(fold)}
                      /\ member' = [state |-> Aggregate(fold), gate |-> FALSE,
                                    report |-> [state |-> Aggregate(fold), latest |-> fold.latest,
                                                tasks |-> fold.tasks]]
           \/ Mishap /\ UNCHANGED <<keys, member>>
        /\ UNCHANGED <<task, config, again>>

RestartTasks ==
    /\ Mishap
    /\ fold' = Empty
    /\ member' = [member EXCEPT !.gate = member # NoMember]
    /\ UNCHANGED <<task, config, keys, again>>

FoldStep == (\E k \in Tasks : ReadTask(k)) \/ StatTask \/ IngestTasks

TaskNext ==
    \/ \E k \in Tasks : DeleteTask(k) \/ \E s \in TaskStates : WriteTask(k, s)
    \/ \E next \in [active : BOOLEAN, unique : BOOLEAN, recent : BOOLEAN] : Configure(next)
    \/ \E s \in {"Running", "Completed", "Stalled"} : OtherEvidence(s)
    \/ ReadTeam \/ FoldStep \/ RestartTasks

\* Watch events and the recovery interval start passes; a pass runs to its end.
TaskWork == ReadTeam \/ FoldStep

TaskSpec == TaskInit /\ [][TaskNext]_taskVars /\ WF_taskVars(TaskWork)

(***************************************************************************)
(* Properties.                                                             *)
(***************************************************************************)

\* Every variable keeps its shape, and whatever the order of the scan the outcome kept is
\* that of the task modified last.
TasksTypeOK ==
    /\ member.state \in TaskStates \cup {"none", "Unknown", "Stalled"}
    /\ fold.at \in {"idle", "active", "inactive"} /\ fold.todo \subseteq Tasks
    /\ LET ended == {r \in fold.got : r[1] \in Finished}
       IN  ended # {} => /\ fold.terminal.at = Max({r[2] : r \in ended})
                         /\ <<fold.terminal.state, fold.terminal.at>> \in ended

\* A pass reports an outcome only if each task that ran from its start to its end could not be
\* read, or if the member is inactive: then its unfinished tasks do not count.
BusyNotFinished ==
    [][(member'.report # member.report /\ member'.report.state \in Finished) =>
           fold.at = "inactive" \/ fold.busy \subseteq fold.left]_taskVars

\* What the files of an active member, or the finished ones of an inactive one, add up to.
Counted == {k \in Tasks : Counts(task[k])}
Totals ==
    LET in(s) == {task[k] : k \in {j \in Counted : task[j].state \in s}}
    IN  [state |-> IF in({"Running"}) # {} THEN "Running"
                   ELSE IF in({"Starting"}) # {} THEN "Starting"
                   ELSE (CHOOSE f \in in(Finished) : \A g \in in(Finished) : g.at <= f.at).state,
         latest |-> Max({f.at : f \in in(TaskStates)}),
         tasks |-> Cardinality(Counted)]

\* Once the task files rest, the totals last reported are what they add up to, however files
\* and configuration were rewritten during the passes: the key tells them from all earlier
\* ones.  Not so where a file no longer counts or could not be read (`again`), nor for a
\* configuration that is old or ambiguous.
TotalsReported ==
    <>[](Counted = {} \/ again \/ ~config.recent \/ ~config.unique \/ member.report = Totals)

\* ARCHITECTURE 7.1: "any in-progress task normalizes to running, then pending to starting;
\* when no active task remains, the newest terminal task supplies" the outcome.
TotalsShown ==
    <>[](Counted = {} \/ ~config.recent \/ ~config.unique \/ member.report.state = Totals.state)

\* FR-DIS-012: "An inactive member is retained as a child with a terminal completed state".
InactiveFinishes ==
    (~config.active /\ config.recent /\ config.unique)
        ~> (member.state \in Finished \/ config.active \/ ~config.recent \/ ~config.unique)

=============================================================================
