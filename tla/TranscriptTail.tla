----------------------------- MODULE TranscriptTail -----------------------------
(***************************************************************************)
(* The tail of one native file: IncrementalReader and the passes of        *)
(* discovery over a Claude transcript, a Codex rollout or a Companion log. *)
(*                                                                         *)
(* A pass loads the durable cursor, reads bounded batches of complete      *)
(* records, ingests each record under an identifier made of the offset     *)
(* where it ends, and saves the cursor after the batch.  The runtime keeps *)
(* writing meanwhile, may truncate or replace the file, and the server may *)
(* stop between any two steps, losing everything but the store.            *)
(*                                                                         *)
(* A record is its head byte, which stands for what the parsers make of    *)
(* the record, body bytes that pad it, and a newline.                      *)
(***************************************************************************)
EXTENDS Integers, Sequences, FiniteSets, FiniteSetsExt

CONSTANTS
    Adapters,    \* the readers considered: "claude", "codex", "companion"
    Kinds,       \* the heads the runtime writes
    Versions,    \* what the state database says of a thread's cli_version
    MaxBytes,    \* ReadBudget.max_bytes
    MaxPartial,  \* ReadBudget.max_partial_bytes
    MaxRecords,  \* ReadBudget.max_records
    MaxBatches,  \* MAX_CLAUDE_TRANSCRIPT_BATCHES, MAX_CODEX_ROLLOUT_BATCHES
    TailBytes,   \* MAX_CODEX_BOOTSTRAP_TAIL_BYTES
    MaxLength,   \* bound: length of the file
    MaxFaults,   \* bound: failed store calls and restarts
    MaxRewrites  \* bound: truncations and replacements

\* ReadBudget::new refuses a zero limit; a batch outgrows the longest partial record.  A head
\* stands for a record's content, which has no newline.
ASSUME TailAssumption ==
    /\ Adapters \subseteq {"claude", "codex", "companion"}
    /\ "unknown" \in Versions /\ Versions \subseteq {"unknown", "tested", "drifted"}
    /\ MaxBytes \in Nat \ {0} /\ MaxPartial \in Nat \ {0} /\ MaxRecords \in Nat \ {0}
    /\ Kinds \cap {"body", "nl"} = {}
    /\ MaxPartial < MaxBytes /\ MaxBatches \in Nat \ {0} /\ TailBytes \in Nat \ {0}
    /\ MaxLength \in Nat /\ MaxFaults \in Nat /\ MaxRewrites \in Nat

VARIABLES
    adapter,  \* which reader owns the file
    file,     \* the native file: its inode and its bytes
    saved,    \* the file_cursors row, if any
    seen,     \* identifiers of the observations persisted
    session,  \* what the session's snapshot holds
    pass,     \* the pass in progress; lost when the server stops
    faults, rewrites, \* counters of the bounds
    base,     \* history: where the cursor was last established, and in which writing
    past      \* history: whether a record that ends a task was written, and whether
              \* a resolution was dropped

vars == <<adapter, file, saved, seen, session, pass, faults, rewrites, base, past>>

Bytes == Kinds \cup {"body", "nl"}
\* The heads each runtime writes: activity, the end of a task, another session's
\* identity, and a record no parser takes, of a drifted or of a tested version.
Writes(kind) ==
    kind \in CASE adapter = "claude" -> {"run", "conflict", "drifted", "tested"}
             [] adapter = "codex" -> {"run", "done", "drifted"}
             [] adapter = "companion" -> {"run"}
None == [inode |-> -1, offset |-> 0]
Idle == [at |-> "idle", inode |-> -1, read |-> 0, complete |-> 0, partial |-> <<>>,
         records |-> <<>>, next |-> 0, more |-> FALSE, batches |-> 0, version |-> "unknown"]

Length == Len(file.data)
EndsAt == {i \in 1..Length : file.data[i] = "nl"}
\* Where the record that ends at e begins.
StartOf(e) == Max({0} \cup {i \in EndsAt : i < e})

\* The parsers: one whole JSON object or an error.
Parsed(record) ==
    IF record # <<>> /\ record[1] \in Kinds
       /\ \A i \in 2..Len(record) : record[i] = "body"
    THEN record[1] ELSE "garbage"

(***************************************************************************)
(* IncrementalReader::read on a file of the cursor's identity.             *)
(***************************************************************************)
ReadAppended(p) ==
    LET available == SubSeq(file.data, p.read + 1, Length)
        appended == SubSeq(available, 1, Min({MaxBytes, Len(available)}))
        buffer == p.partial \o appended
        newlines == {i \in 1..Len(buffer) : buffer[i] = "nl"}
        taken == {i \in newlines : Cardinality({j \in newlines : j <= i}) <= MaxRecords}
        consumed == Max({0} \cup taken)
        exhausted == newlines # taken
        partial == IF exhausted THEN <<>> ELSE SubSeq(buffer, consumed + 1, Len(buffer))
        read == p.read + IF exhausted THEN consumed - Len(p.partial) ELSE Len(appended)
    IN  [records |-> SubSeq(buffer, 1, consumed),
         read |-> read,
         partial |-> partial,
         complete |-> read - Len(partial),
         more |-> Len(available) > MaxBytes \/ exhausted \/ read < Length]

\* The conditions of read that need a new boundary: Replaced, Truncated, PartialRecordTooLarge.
ReconcileRequired(p) ==
    \/ file.inode # p.inode
    \/ Length < p.read
    \/ Len(ReadAppended(p).partial) > MaxPartial

Init ==
    /\ adapter \in Adapters
    /\ file = [inode |-> 0, data |-> <<>>]
    /\ saved = None
    /\ seen = {}
    /\ session = [conflict |-> FALSE, warned |-> FALSE, state |-> "unknown"]
    /\ pass = Idle
    /\ faults = 0 /\ rewrites = 0
    /\ base = [rewrites |-> 0, offset |-> 0]
    /\ past = [done |-> FALSE, dropped |-> FALSE]

(***************************************************************************)
(* The runtime: it appends bytes, and may truncate or replace the file.    *)
(***************************************************************************)
Append1(b) ==
    /\ Length < MaxLength
    /\ IF Length \in EndsAt \cup {0} THEN b \in Kinds /\ Writes(b) ELSE b \in {"body", "nl"}
    /\ file' = [file EXCEPT !.data = Append(@, b)]
    /\ past' = [past EXCEPT !.done = @ \/ (b = "nl" /\ file.data[StartOf(Length + 1) + 1] = "done")]
    /\ UNCHANGED <<adapter, saved, seen, session, pass, faults, rewrites, base>>

Rewrite(inode, length) ==
    /\ rewrites < MaxRewrites
    /\ length < Length
    /\ file' = [inode |-> inode, data |-> SubSeq(file.data, 1, length)]
    /\ rewrites' = rewrites + 1
    /\ UNCHANGED <<adapter, saved, seen, session, pass, faults, base, past>>

(***************************************************************************)
(* ingest_native_observation: an identifier already persisted changes      *)
(* nothing.                                                                *)
(***************************************************************************)
Apply(id, effect) ==
    /\ seen' = seen \cup {id}
    /\ session' = IF id \in seen THEN session ELSE effect

Progressed == session
Conflicted == [session EXCEPT !.conflict = TRUE]
Agreed == [session EXCEPT !.conflict = FALSE]
Warned == [session EXCEPT !.warned = TRUE]
Resolved == [session EXCEPT !.warned = FALSE]
Reached(state) == [session EXCEPT !.state = state]

\* What a failed store call costs: the bounded number of them.
Fails == faults < MaxFaults /\ faults' = faults + 1
Works == faults' = faults

Leave == pass' = Idle

(***************************************************************************)
(* The start of a pass, and the boundary of a file with no cursor yet.     *)
(***************************************************************************)
StartPass(version) ==
    /\ pass.at = "idle"
    /\ adapter # "codex" => version = "unknown"
    /\ pass' = [Idle EXCEPT
         !.at = IF adapter = "companion" THEN "sample"
                ELSE IF saved # None THEN "read"
                ELSE IF adapter = "codex" THEN "tail" ELSE "baseline",
         !.inode = saved.inode, !.read = saved.offset, !.complete = saved.offset,
         !.version = version]
    /\ UNCHANGED <<adapter, file, saved, seen, session, faults, rewrites, base, past>>

\* parse_codex_rollout_tail: the last record that says whether a task runs.
TailStates ==
    LET start == Max({0, Length - TailBytes})
        first == IF start = 0 THEN 0
                 ELSE Min({Length + 1} \cup {i \in EndsAt : i > start})
    IN  {e \in EndsAt : /\ StartOf(e) >= first
                        /\ Parsed(SubSeq(file.data, StartOf(e) + 1, e - 1)) \in {"run", "done"}}

BootstrapTail ==
    /\ pass.at = "tail"
    /\ pass' = [Idle EXCEPT !.at = "baseline"]
    /\ \/ /\ TailStates # {}
          /\ LET e == Max(TailStates)
             IN  Apply(<<"tail", Length>>, Reached(file.data[StartOf(e) + 1]))
          /\ Works
       \/ /\ IF TailStates = {} THEN Works ELSE Fails
          /\ UNCHANGED <<seen, session>>
    /\ UNCHANGED <<adapter, file, saved, rewrites, base, past>>

\* cursor_at_end, persisted.
Establish ==
    /\ Leave
    /\ \/ /\ Works
          /\ saved' = [inode |-> file.inode, offset |-> Length]
          /\ base' = [rewrites |-> rewrites, offset |-> Length]
       \/ Fails /\ UNCHANGED <<saved, base>>
    /\ UNCHANGED <<adapter, file, seen, session, rewrites, past>>

\* A file with no cursor is read from its end on; after ReconcileRequired too.
InitializeClaude == adapter = "claude" /\ pass.at = "baseline" /\ Establish
InitializeCodex == adapter = "codex" /\ pass.at = "baseline" /\ Establish
RecoverClaude == adapter = "claude" /\ pass.at = "recover" /\ Establish
RecoverCodex == adapter = "codex" /\ pass.at = "recover" /\ Establish

(***************************************************************************)
(* One batch: read it, ingest its records one by one, save the cursor.     *)
(***************************************************************************)
\* A plausible slip: no new boundary is established.
ReadOrGiveUp ==
    /\ pass.at = "read"
    /\ IF ReconcileRequired(pass)
       THEN Leave
       ELSE LET batch == ReadAppended(pass)
            IN  pass' = [pass EXCEPT !.at = "ingest", !.records = batch.records,
                           !.read = batch.read, !.partial = batch.partial,
                           !.next = batch.complete, !.more = batch.more]
    /\ UNCHANGED <<adapter, file, saved, seen, session, faults, rewrites, base, past>>

ReadBatch ==
    /\ pass.at = "read"
    /\ IF ReconcileRequired(pass)
       THEN pass' = [Idle EXCEPT !.at = "recover"]
       ELSE LET batch == ReadAppended(pass)
            IN  pass' = [pass EXCEPT !.at = "ingest", !.records = batch.records,
                           !.read = batch.read, !.partial = batch.partial,
                           !.next = batch.complete, !.more = batch.more]
    /\ UNCHANGED <<adapter, file, saved, seen, session, faults, rewrites, base, past>>

\* The records still to ingest follow one another, each with its newline.
FirstEnd == Min({i \in 1..Len(pass.records) : pass.records[i] = "nl"})

\* The offset where the record ends names it.
RecordKey == pass.complete + FirstEnd

\* emit_*_compatibility_*.  Claude's resolution is named by the version, not by the record.
WarnClaude == Apply(<<"compatibility", RecordKey>>, Warned)
ResolveClaude == Apply(<<"compatibility", 0>>, Resolved)
WarnCodex == Apply(<<"compatibility", RecordKey>>, Warned)
ResolveCodex == Apply(<<"compatibility", RecordKey>>, Resolved)

\* ingest_claude_transcript_record.
IngestClaude(kind) ==
    CASE kind = "run" -> Apply(<<"record", RecordKey>>, Progressed)
      [] kind = "conflict" -> Apply(<<"conflict", RecordKey>>, Conflicted)
      [] kind = "drifted" -> WarnClaude
      [] kind = "tested" -> ResolveClaude
      [] OTHER -> UNCHANGED <<seen, session>>

\* ingest_codex_rollout_record.
IngestCodex(kind) ==
    CASE kind \in {"run", "done"} -> Apply(<<"record", RecordKey>>, Reached(kind))
      [] kind \notin {"run", "done"} /\ pass.version = "drifted" -> WarnCodex
      [] kind \notin {"run", "done"} /\ pass.version = "tested" -> ResolveCodex
      [] OTHER -> UNCHANGED <<seen, session>>

\* A compatibility observation that fails is dropped; any other failure ends the pass.
Optional(kind) == kind \notin {"run", IF adapter = "claude" THEN "conflict" ELSE "done"}

Kind == Parsed(SubSeq(pass.records, 1, FirstEnd - 1))
Rest == [pass EXCEPT !.records = SubSeq(@, FirstEnd + 1, Len(@)), !.complete = RecordKey]

IngestFails ==
    /\ Fails
    /\ UNCHANGED <<seen, session>>
    /\ IF Optional(Kind) THEN pass' = Rest ELSE Leave

IngestClaudeRecord ==
    /\ adapter = "claude" /\ pass.at = "ingest" /\ pass.records # <<>>
    /\ \/ /\ Works
          /\ IngestClaude(Kind)
          /\ pass' = IF Kind = "run" /\ session.conflict
                     THEN [Rest EXCEPT !.at = "agree"] ELSE Rest
       \/ IngestFails
    /\ UNCHANGED <<adapter, file, saved, rewrites, base, past>>

IngestCodexRecord ==
    /\ adapter = "codex" /\ pass.at = "ingest" /\ pass.records # <<>>
    /\ \/ Works /\ IngestCodex(Kind) /\ pass' = Rest
       \/ IngestFails
    /\ UNCHANGED <<adapter, file, saved, rewrites, base, past>>

\* emit_claude_source_conflict_resolution; a failure is only logged.
ResolveConflict ==
    /\ pass.at = "agree"
    /\ pass' = [pass EXCEPT !.at = "ingest"]
    /\ \/ Works /\ Apply(<<"agreed", pass.complete>>, Agreed) /\ past' = past
       \/ Fails /\ past' = [past EXCEPT !.dropped = TRUE] /\ UNCHANGED <<seen, session>>
    /\ UNCHANGED <<adapter, file, saved, rewrites, base>>

\* A plausible slip: the cursor is saved past the partial record.
SaveReadOffset == [inode |-> pass.inode, offset |-> pass.read]

\* persist_claude_cursor and persist_codex_cursor keep only the complete offset.
Persisted == [inode |-> pass.inode, offset |-> pass.next]

NextBatch ==
    IF pass.more /\ pass.batches + 1 < MaxBatches
    THEN pass' = [pass EXCEPT !.at = "read", !.batches = @ + 1, !.next = 0, !.more = FALSE]
    ELSE Leave

SaveCursor ==
    /\ pass.at = "ingest" /\ pass.records = <<>>
    /\ \/ Works /\ saved' = Persisted /\ NextBatch
       \/ Fails /\ Leave /\ UNCHANGED saved
    /\ UNCHANGED <<adapter, file, seen, session, rewrites, base, past>>

(***************************************************************************)
(* reconcile_companion_log: only the length of the log is looked at.       *)
(***************************************************************************)
SampleLog ==
    /\ pass.at = "sample"
    /\ LET grown == saved.inode = file.inode /\ Length > saved.offset
           same == saved = [inode |-> file.inode, offset |-> Length]
       IN  IF same THEN Leave
           ELSE pass' = [pass EXCEPT !.at = IF grown THEN "activity" ELSE "mark",
                                     !.inode = file.inode, !.next = Length]
    /\ UNCHANGED <<adapter, file, saved, seen, session, faults, rewrites, base, past>>

LogActivity ==
    /\ pass.at = "activity"
    /\ \/ /\ Works
          /\ Apply(<<"log", pass.inode, pass.next>>, Progressed)
          /\ pass' = [pass EXCEPT !.at = "mark"]
       \/ Fails /\ Leave /\ UNCHANGED <<seen, session>>
    /\ UNCHANGED <<adapter, file, saved, rewrites, base, past>>

MarkLog ==
    /\ pass.at = "mark"
    /\ Leave
    /\ \/ Works /\ saved' = [inode |-> pass.inode, offset |-> pass.next]
       \/ Fails /\ UNCHANGED saved
    /\ UNCHANGED <<adapter, file, seen, session, rewrites, base, past>>

\* The server stops: the pass is lost, the store is not.
Restart ==
    /\ pass.at # "idle"
    /\ Fails
    /\ Leave
    /\ UNCHANGED <<adapter, file, saved, seen, session, rewrites, base, past>>

Runtime ==
    \/ \E b \in Bytes : Append1(b)
    \/ \E length \in 0..MaxLength : Rewrite(file.inode, length)
    \/ Rewrite(file.inode + 1, 0)

PassStep ==
    \/ BootstrapTail \/ InitializeClaude \/ InitializeCodex \/ RecoverClaude \/ RecoverCodex
    \/ ReadBatch \/ IngestClaudeRecord \/ IngestCodexRecord \/ ResolveConflict \/ SaveCursor
    \/ SampleLog \/ LogActivity \/ MarkLog

Next ==
    \/ Runtime
    \/ \E v \in Versions : StartPass(v)
    \/ PassStep
    \/ Restart

\* Watch events and the recovery interval start passes; a pass runs to its end.
Fairness == WF_vars(PassStep) /\ WF_vars(StartPass("unknown"))

Spec == Init /\ [][Next]_vars /\ Fairness

(***************************************************************************)
(* Properties.                                                             *)
(***************************************************************************)
\* Every variable keeps its shape, and the reader's offsets stay in order.
TypeOK ==
    /\ adapter \in Adapters
    /\ file.inode \in 0..MaxRewrites /\ file.data \in Seq(Bytes) /\ Length <= MaxLength
    /\ saved.inode \in -1..file.inode /\ saved.offset \in 0..MaxLength
    /\ session \in [conflict : BOOLEAN, warned : BOOLEAN, state : {"unknown", "run", "done"}]
    /\ pass.at \in {"idle", "tail", "baseline", "read", "ingest", "agree", "recover",
                    "sample", "activity", "mark"}
    /\ pass.complete <= pass.read /\ pass.read <= MaxLength
    /\ Len(pass.partial) <= MaxPartial
    /\ Cardinality({i \in 1..Len(pass.records) : pass.records[i] = "nl"}) <= MaxRecords
    /\ pass.batches < MaxBatches

\* What the file says, while it has only grown since the cursor was established: the
\* records past that boundary, and what each one is.
Undisturbed == saved # None /\ base.rewrites = rewrites
KindAt(e) == Parsed(SubSeq(file.data, StartOf(e) + 1, e - 1))
Owned(e) == e \in EndsAt /\ StartOf(e) >= base.offset
Counted(e) ==
    IF KindAt(e) \in {"run", IF adapter = "codex" THEN "done" ELSE "run"} THEN {<<"record", e>>}
    ELSE IF adapter = "claude" /\ KindAt(e) = "conflict" THEN {<<"conflict", e>>} ELSE {}

\* The durable cursor never passes a record that was not ingested, whatever the budgets
\* of a batch, the failures and the restarts between ingesting and saving.
NoRecordSkipped ==
    adapter # "companion" /\ Undisturbed =>
        \A e \in 1..saved.offset : Owned(e) => Counted(e) \subseteq seen

\* Of a file that only grew, every observation is of a complete record at the place it
\* names: a partial write, a split batch or a re-read never makes one up (FR-EVD-004).
NothingInvented ==
    adapter # "companion" /\ rewrites = 0 =>
        \A id \in seen : id[1] \in {"record", "conflict"} =>
            id[2] \in EndsAt /\ id \in Counted(id[2])

\* A transcript whose last ingested record agrees with its identity leaves no conflict
\* latched, unless the resolution itself was dropped: a restart between the record and
\* its resolution loses neither.
ConflictAnswered ==
    adapter = "claude" /\ rewrites = 0 /\ ~past.dropped =>
        LET done == {e \in 1..saved.offset : Owned(e) /\ KindAt(e) \in {"run", "conflict"}}
            later == {id \in seen : id[1] = "conflict" /\ id[2] > saved.offset}
        IN  pass.at = "idle" /\ done # {} /\ KindAt(Max(done)) = "run" /\ later = {}
                => ~session.conflict

\* The durable cursor of one inode never moves back.
CursorForward ==
    [][rewrites' = 0 /\ saved # None => saved'.offset >= saved.offset]_vars

\* Once the runtime stops writing, passes bring the cursor to the last complete record
\* of the current file, whatever was truncated, replaced or too large before.
CatchesUp ==
    <>[](saved.inode = file.inode /\ saved.offset >= Max({0} \cup EndsAt) /\ saved.offset <= Length)

\* T-EVD-003: "Replace, truncate, or rotate a watched file ... no invented terminal event."
NoInventedTerminal == session.state = "done" => past.done

\* ARCHITECTURE: the UPGRADE warning is kept "only when detected and tested SemVer
\* versions differ": a record of a tested version withdraws it.
WarningFollowsVersion ==
    adapter = "claude" /\ rewrites = 0 /\ faults = 0 /\ pass.at = "idle" =>
        LET versioned == {e \in 1..saved.offset : Owned(e) /\ KindAt(e) \in {"drifted", "tested"}}
        IN  versioned # {} /\ KindAt(Max(versioned)) = "tested" => ~session.warned

=============================================================================
