------------------------------ MODULE CodexThreads ------------------------------
(***************************************************************************)
(* Native Codex reconciliation: CodexDiscovery::reconcile.                 *)
(*                                                                         *)
(* A thread is known from its rollout file and, usually later, from the    *)
(* state database.  A pass indexes the active Claude mains, registers the  *)
(* threads of the rollouts, newest first, then those of the database, and  *)
(* tails the rollout of each.  A thread without a native parent that names *)
(* Claude as its originator becomes a child of the one Claude main in its  *)
(* directory, or else in its repository.  Claude mains come, end and lose  *)
(* their gate while the pass runs.                                         *)
(***************************************************************************)
EXTENDS Integers, Sequences, FiniteSets, SequencesExt

CONSTANTS
    Newest,     \* the threads, in the order of the rollout scan
    ParentOf,   \* the native parent of each thread, or None
    Claude,     \* Claude main sessions
    None,
    MaxEvents,  \* bound: records written, threads listed, changes of Claude mains
    MaxFailures \* bound: reads and store calls that fail, restarts

Threads == ToSet(Newest)

ASSUME CodexAssumption ==
    /\ MaxEvents \in Nat /\ MaxFailures \in Nat
    /\ ParentOf \in [Threads -> Threads \cup {None}]
    /\ IsFiniteSet(Claude) /\ Threads \cap Claude = {} /\ None \notin Threads \cup Claude

VARIABLES
    place,   \* where each Claude main works: the threads' directory or their repository
    claude,  \* the state of each Claude main: absent, gated, active or ended
    origin,  \* threads that name Claude Code as originator
    written, \* lifecycle records in each rollout: task_started and task_complete in turn
    listed,  \* threads in the state database
    threads, \* the session of each thread
    saved,   \* the cursor saved for each rollout, -1 when none
    ingested,\* identifiers of the observations persisted
    sweep,   \* the pass in progress
    used     \* the bounds used up

codexFiles == <<place, origin, written, listed>>
codexStore == <<threads, saved, ingested>>
codexVars == <<codexFiles, claude, codexStore, sweep, used>>

NoThread == [kind |-> "none", root |-> None, state |-> "none"]
Asleep == [at |-> "asleep", todo |-> <<>>, index |-> {}, sources |-> {}, fresh |-> {}]

CodexInit ==
    /\ place \in [Claude -> {"directory", "repository"}]
    /\ claude = [c \in Claude |-> "absent"]
    /\ origin \in {{}, {t \in Threads : ParentOf[t] = None}}
    /\ written = [t \in Threads |-> 0] /\ listed = {}
    /\ threads = [t \in Threads |-> NoThread]
    /\ saved = [t \in Threads |-> -1]
    /\ ingested = {} /\ sweep = Asleep
    /\ used = [events |-> 0, failures |-> 0]

Event == used.events < MaxEvents /\ used' = [used EXCEPT !.events = @ + 1]
Fault == used.failures < MaxFailures /\ used' = [used EXCEPT !.failures = @ + 1]
Fine == used' = used

(***************************************************************************)
(* Codex and Claude.                                                       *)
(***************************************************************************)
WriteRecord(t) ==
    /\ Event
    /\ ParentOf[t] # None => written[ParentOf[t]] > 0
    /\ written' = [written EXCEPT ![t] = @ + 1]
    /\ UNCHANGED <<place, origin, listed, claude, codexStore, sweep>>

List(t) ==
    /\ written[t] > 0 /\ t \notin listed
    /\ Event
    /\ listed' = listed \cup {t}
    /\ UNCHANGED <<place, origin, written, claude, codexStore, sweep>>

\* Claude's own reconciliation discovers, gates, vouches for and ends its mains.
Change(c, s) ==
    /\ s \in (CASE claude[c] = "absent" -> {"active"}
                [] claude[c] = "gated"  -> {"active", "ended"}
                [] claude[c] = "active" -> {"ended"}
                [] OTHER -> {})
    /\ Event
    /\ claude' = [claude EXCEPT ![c] = s]
    /\ UNCHANGED <<codexFiles, codexStore, sweep>>

(***************************************************************************)
(* Correlation and registration.                                           *)
(***************************************************************************)

\* claude_parent_index: the active mains that await no reconciliation.
ParentIndex == {c \in Claude : claude[c] = "active"}

\* A plausible slip: the first of several candidates is taken.
FirstOf(s) == IF s = {} THEN None ELSE CHOOSE c \in s : TRUE

\* one_candidate.
One(s) == IF Cardinality(s) = 1 THEN CHOOSE c \in s : TRUE ELSE None

\* ClaudeParentIndex::resolve: the only main in the directory, else the only one in the repository.
Resolve(index) ==
    LET exact == {c \in index : place[c] = "directory"}
    IN  IF exact # {} THEN One(exact) ELSE One(index)

Stored(t) == threads[t] # NoThread

\* reject_conflicting_identity.
Accepted(t, kind, root) ==
    Stored(t) => threads[t].kind = kind /\ threads[t].root = root

WithSession(held, t, kind, root) ==
    IF held[t] = NoThread \/ held[t].kind # kind \/ held[t].root # root
    THEN [held EXCEPT ![t] = [kind |-> kind, root |-> root, state |-> "Starting"]]
    ELSE held

\* ensure_native_parent: a parent nobody has met is registered as a main.
EnsureThread(t) == IF Stored(t) THEN threads ELSE WithSession(threads, t, "Main", t)

RootOf(held, p) == IF p \in Threads THEN held[p].root ELSE p

\* discover_session of t as kind under parent, on the sessions held; [ok, held].
Discover(held, t, kind, parent) ==
    LET root == IF kind = "Main" THEN t ELSE RootOf(held, parent)
        ok == Accepted(t, kind, root)
    IN  [ok |-> ok, held |-> IF ok THEN WithSession(held, t, kind, root) ELSE held]

(***************************************************************************)
(* Rollout records.                                                        *)
(***************************************************************************)

\* codex_rollout_observation_for_kind: a main that completes a task waits for its user.
Outcome(n, kind) == IF n % 2 = 1 THEN "Running"
                    ELSE IF kind = "Main" THEN "WaitingForUser" ELSE "Completed"

\* The records first..last ingested in order; one already persisted changes nothing.
IngestRecords(t, first, last, kind) ==
    LET new == {n \in first..last : <<t, n>> \notin ingested}
    IN  /\ ingested' = ingested \cup {<<t, n>> : n \in first..last}
        /\ threads' = IF new = {} THEN threads
                      ELSE [threads EXCEPT ![t].state =
                               Outcome(CHOOSE n \in new : \A m \in new : m <= n, kind)]

(***************************************************************************)
(* The pass.                                                               *)
(***************************************************************************)
Listed(s) == SelectSeq(Newest, LAMBDA t : t \in s)

\* The parent index, then the scan of the rollouts; no index is an empty one.
Begin ==
    /\ sweep.at = "asleep"
    /\ \E index \in {ParentIndex, {}} :
         /\ IF index = ParentIndex THEN Fine ELSE Fault
         /\ sweep' = [Asleep EXCEPT !.at = "rollouts", !.index = index,
                        !.todo = Listed({t \in Threads : written[t] > 0})]
    /\ UNCHANGED <<codexFiles, claude, codexStore>>

Skip == sweep' = [sweep EXCEPT !.todo = Tail(@)]

\* reconcile_rollout_candidate up to the registration; what fails may fail after the native
\* parent was registered.
Candidate ==
    LET t == Head(sweep.todo)
        native == ParentOf[t]
        held == IF native = None THEN threads ELSE EnsureThread(native)
        inferred == IF native = None /\ t \in origin THEN Resolve(sweep.index) ELSE None
        parent == IF native # None THEN native ELSE inferred
        kind == IF parent = None THEN "Main" ELSE "Child"
        found == Discover(held, t, kind, parent)
    IN  /\ sweep.at = "rollouts" /\ sweep.todo # <<>>
        /\ \/ /\ Fine
              /\ threads' = found.held
              /\ IF found.ok
                 THEN sweep' = [sweep EXCEPT !.at = "tail", !.sources = @ \cup {<<t, kind>>}]
                 ELSE Skip
           \/ Fault /\ Skip /\ threads' \in {threads, held}
        /\ UNCHANGED <<codexFiles, claude, saved, ingested>>

\* reconcile_codex_bootstrap_tail: without a cursor, the last lifecycle record; the
\* identifier is the length of the file.
BootstrapTail ==
    LET t == Head(sweep.todo)
        kind == (CHOOSE s \in sweep.sources : s[1] = t)[2]
    IN  /\ sweep.at = "tail"
        /\ \/ Fine /\ IF saved[t] >= 0 THEN UNCHANGED <<threads, ingested>>
                      ELSE IngestRecords(t, written[t], written[t], kind)
           \/ Fault /\ UNCHANGED <<threads, ingested>>
        /\ sweep' = [sweep EXCEPT !.at = "rollouts", !.todo = Tail(@)]
        /\ UNCHANGED <<codexFiles, claude, saved>>

\* The database is read: threads without a parent first.
ReadDatabase ==
    /\ sweep.at = "rollouts" /\ sweep.todo = <<>>
    /\ \E rows \in {listed, {}} :
         /\ IF rows = listed THEN Fine ELSE Fault
         /\ sweep' = [sweep EXCEPT !.at = "rows", !.fresh = rows,
                        !.todo = Listed({t \in rows : ParentOf[t] = None})
                                 \o Listed({t \in rows : ParentOf[t] # None})]
    /\ UNCHANGED <<codexFiles, claude, codexStore>>

\* reconcile_codex_main leaves a thread held as a child alone; reconcile_codex_child.
Row ==
    LET t == Head(sweep.todo)
        native == ParentOf[t]
        held == IF native = None THEN threads ELSE EnsureThread(native)
        kind == IF native = None THEN "Main" ELSE "Child"
    IN  /\ sweep.at = "rows" /\ sweep.todo # <<>>
        /\ Skip
        /\ \/ /\ Fine
              /\ threads' = IF native = None /\ threads[t].kind = "Child" THEN threads
                            ELSE Discover(held, t, kind, native).held
           \/ Fault /\ threads' \in {threads, held}
        /\ UNCHANGED <<codexFiles, claude, saved, ingested>>

ListTails ==
    /\ sweep.at = "rows" /\ sweep.todo = <<>>
    /\ sweep' = [sweep EXCEPT !.at = "tails", !.todo = Listed(sweep.fresh)]
    /\ UNCHANGED <<codexFiles, claude, codexStore, used>>

\* reconcile_codex_rollout_source: without a cursor one is placed at the end; else the
\* records after it are ingested, and a failure leaves the cursor where it was.
TailRollout(t, kind) ==
    \/ /\ Fine
       /\ saved' = [saved EXCEPT ![t] = IF Stored(t) \/ @ < 0 THEN written[t] ELSE @]
       /\ IF saved[t] < 0 \/ ~Stored(t) THEN UNCHANGED <<threads, ingested>>
          ELSE IngestRecords(t, saved[t] + 1, written[t], kind)
    \/ /\ Fault /\ saved' = saved
       /\ IF saved[t] < 0 \/ saved[t] = written[t] \/ ~Stored(t)
          THEN UNCHANGED <<threads, ingested>>
          ELSE IngestRecords(t, saved[t] + 1, saved[t] + 1, kind)

\* The threads of the database, with the kind the database gives them.
TailRow ==
    LET t == Head(sweep.todo)
    IN  /\ sweep.at = "tails" /\ sweep.todo # <<>>
        /\ TailRollout(t, IF ParentOf[t] = None THEN "Main" ELSE "Child")
        /\ Skip
        /\ UNCHANGED <<codexFiles, claude>>

ListSources ==
    /\ sweep.at = "tails" /\ sweep.todo = <<>>
    /\ sweep' = [sweep EXCEPT !.at = "sources",
                              !.todo = Listed({s[1] : s \in sweep.sources})]
    /\ UNCHANGED <<codexFiles, claude, codexStore, used>>

\* The threads of the rollouts, with the kind they were registered under.
TailSource ==
    LET t == Head(sweep.todo)
    IN  /\ sweep.at = "sources" /\ sweep.todo # <<>>
        /\ TailRollout(t, (CHOOSE s \in sweep.sources : s[1] = t)[2])
        /\ Skip
        /\ UNCHANGED <<codexFiles, claude>>

EndSweep ==
    /\ sweep.at = "sources" /\ sweep.todo = <<>>
    /\ sweep' = Asleep
    /\ UNCHANGED <<codexFiles, claude, codexStore, used>>

\* The pass is lost and the Claude mains await reconciliation.
ServerRestarts ==
    /\ Fault
    /\ sweep' = Asleep
    /\ claude' = [c \in Claude |-> IF claude[c] = "active" THEN "gated" ELSE claude[c]]
    /\ UNCHANGED <<codexFiles, codexStore>>

SweepStep ==
    \/ Candidate \/ BootstrapTail \/ ReadDatabase \/ Row \/ ListTails
    \/ TailRow \/ ListSources \/ TailSource \/ EndSweep

CodexNext ==
    \/ \E t \in Threads : WriteRecord(t) \/ List(t)
    \/ \E c \in Claude, s \in {"active", "ended"} : Change(c, s)
    \/ Begin \/ SweepStep \/ ServerRestarts

\* Watch events and the recovery interval start passes; a pass runs to its end.
CodexWork == Begin \/ SweepStep

CodexSpec == CodexInit /\ [][CodexNext]_codexVars /\ WF_codexVars(CodexWork)

(***************************************************************************)
(* Properties.                                                             *)
(***************************************************************************)

\* Every variable keeps its shape; a child has the root of its native parent, which is held.
\* A thread that was first met as the parent of another stays a main, whatever it is below.
CodexTypeOK ==
    /\ \A t \in Threads :
          /\ saved[t] \in -1..written[t]
          /\ Stored(t) => /\ threads[t].kind \in {"Main", "Child"}
                          /\ threads[t].kind = "Main" => threads[t].root = t
                          /\ threads[t].kind = "Child" /\ ParentOf[t] # None =>
                                threads[t].root = threads[ParentOf[t]].root
    /\ sweep.at \in {"asleep", "rollouts", "tail", "rows", "tails", "sources"}
    /\ \A s \in sweep.sources : Stored(s[1]) /\ threads[s[1]].kind = s[2]

\* FR-DIS-013: "ambiguity leaves the Codex session unassigned": a thread is put under a
\* Claude main only if no other main the index knew fits it as well.
NeverGuesses ==
    [][\A t \in Threads :
          (~Stored(t) /\ threads'[t].root \in Claude /\ ParentOf[t] = None) =>
              LET c == threads'[t].root
              IN  ~\E d \in sweep.index \ {c} : place[d] = "directory" \/ place[c] = "repository"]_codexVars

\* Rollout, database, spawn edge and inference name a thread in any order, and Claude mains
\* come and go: a thread never changes its role or the tree it belongs to.
RoleAndRootKept ==
    [][\A t \in Threads : Stored(t) => /\ threads'[t].kind = threads[t].kind
                                       /\ threads'[t].root = threads[t].root]_codexVars

\* The records of a thread the database lists are read in the end, whatever becomes of the
\* inference that registered it.
ListedIsTailed ==
    \A t \in Threads : (t \in listed) ~> (saved[t] = written[t])

\* FR-DIS-010: Codex task_complete "means waiting for user on a main session and completed
\* on a child".
ChildCompletes ==
    \A t \in Threads : threads[t].kind = "Child" => threads[t].state # "WaitingForUser"

\* FR-DIS-013: "Explicit Claude origin plus one unique same-directory or same-repository
\* Claude main creates a logged heuristic child relation".
OriginIsFollowed ==
    [][\A t \in Threads :
         (sweep.at = "rollouts" /\ sweep'.at = "rows" /\ t \in origin
            /\ Resolve(sweep.index) # None /\ written[t] > 0 /\ used.failures = 0)
            => threads[t].kind # "Main"]_codexVars

\* The state of a thread is the one its last record gives, once a pass has read it.
LastRecordShown ==
    \A t \in Threads :
       (t \in listed) ~> (threads[t].state = Outcome(written[t], threads[t].kind))

=============================================================================
