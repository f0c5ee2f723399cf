---------------------------- MODULE ProcessMonitor ----------------------------
(***************************************************************************)
(* The process monitor: one capture of /proc, one tree for every monitored *)
(* session, and progress for the sessions whose tree advanced since the    *)
(* previous sample.  Processes start, work, exit and reuse identifiers     *)
(* while the capture is read, one process after the other.                 *)
(*                                                                         *)
(* The counters of a process, four of CPU and two of I/O, are one number;  *)
(* "readable" says whether a sample could read its I/O file.  The          *)
(* executable goes with the start time.                                    *)
(***************************************************************************)
EXTENDS Integers, FiniteSets, FiniteSetsExt

CONSTANTS
    NumPids,     \* process identifiers the kernel hands out
    NumSessions, \* sessions, in the order the store lists them
    MaxSpawns,   \* bound: processes started
    MaxWork,     \* bound: what a process advances its counters by
    MaxNamed,    \* bound: identities the adapters report
    MaxFaults,   \* bound: failed reads, failed store calls and restarts
    MaxTogether  \* bound: processes, identities and failures together

ASSUME ProcessAssumption ==
    /\ NumPids \in Nat \ {0} /\ NumSessions \in Nat \ {0}
    /\ MaxSpawns \in Nat /\ MaxWork \in Nat /\ MaxNamed \in Nat /\ MaxFaults \in Nat
    /\ MaxTogether \in Nat

Pids == 1..NumPids
Sessions == 1..NumSessions

VARIABLES
    table,     \* the kernel's process table; start 0 means no such process
    spawns,    \* start times handed out
    named,     \* counter of the bound
    identity,  \* the process identity each session's snapshot holds
    previous,  \* ProcessMonitor.previous: the last tree of each session
    pass,      \* the pass in progress
    credited,  \* the session given progress by the last comparison
    unsampled, \* sessions whose tree the last pass could not sample
    faults     \* counter of the bound

monitorVars == <<table, spawns, named, identity, previous, pass, credited, unsampled, faults>>

NoProcess == [start |-> 0, parent |-> 0, work |-> 0, readable |-> FALSE]
NoIdentity == [pid |-> 0, start |-> 0]
NoTree == [root |-> NoIdentity, processes |-> [p \in Pids |-> NoProcess], uncertain |-> FALSE]
Idle == [at |-> "idle", next |-> 1, loaded |-> [s \in Sessions |-> NoIdentity],
         stats |-> [p \in Pids |-> NoProcess], incomplete |-> FALSE, trees |-> [p \in Pids |-> NoTree], dead |-> {}]

Bounded(n) == spawns + named + faults + n <= MaxTogether
Fault == faults < MaxFaults /\ Bounded(1) /\ faults' = faults + 1

Live == {p \in Pids : table[p].start # 0}
Alive(i) == i.pid # 0 /\ table[i.pid].start = i.start

MonitorInit ==
    /\ table = [p \in Pids |-> NoProcess] /\ spawns = 0 /\ named = 0
    /\ identity = [s \in Sessions |-> NoIdentity]
    /\ previous = [s \in Sessions |-> NoTree]
    /\ pass = Idle
    /\ credited = {} /\ unsampled = {} /\ faults = 0

(***************************************************************************)
(* The kernel, and the adapters that identify a session's process.         *)
(***************************************************************************)
Spawn(p, parent) ==
    /\ p \notin Live /\ parent \in Live \cup {0} /\ spawns < MaxSpawns /\ Bounded(1)
    /\ spawns' = spawns + 1
    /\ table' = [table EXCEPT ![p] = [start |-> spawns', parent |-> parent, work |-> 0,
                                      readable |-> TRUE]]
    /\ UNCHANGED <<named, identity, previous, pass, credited, unsampled, faults>>

Work(p) ==
    /\ p \in Live /\ table[p].work < MaxWork
    /\ table' = [table EXCEPT ![p].work = @ + 1]
    /\ UNCHANGED <<spawns, named, identity, previous, pass, credited, unsampled, faults>>

\* The children of a process that exits are adopted by init.
ExitProcess(p) ==
    /\ p \in Live
    /\ table' = [q \in Pids |-> IF q = p THEN NoProcess
                                ELSE IF table[q].parent = p THEN [table[q] EXCEPT !.parent = 0]
                                ELSE table[q]]
    /\ UNCHANGED <<spawns, named, identity, previous, pass, credited, unsampled, faults>>

Identify(s, p) ==
    /\ p \in Live /\ ~Alive(identity[s]) /\ named < MaxNamed /\ Bounded(1)
    /\ named' = named + 1
    /\ identity' = [identity EXCEPT ![s] = [pid |-> p, start |-> table[p].start]]
    /\ UNCHANGED <<table, spawns, previous, pass, credited, unsampled, faults>>

(***************************************************************************)
(* The sampler.                                                            *)
(***************************************************************************)
\* descendant_ids, over the parents the capture saw.
descendant_ids(root, stats) ==
    LET reach[n \in 0..NumPids] ==
            IF n = 0 THEN {root}
            ELSE reach[n - 1] \cup {p \in Pids : stats[p].start # 0 /\ stats[p].parent \in reach[n - 1]}
    IN  reach[NumPids]

\* sample_process: a process that has exited since the capture is omitted; the I/O of the
\* processes in blind cannot be read.
sample_process(p, stats, blind) ==
    IF stats[p].start # 0 /\ p \in Live
    THEN [stats[p] EXCEPT !.readable = p \notin blind]
    ELSE NoProcess

\* A plausible slip: the identifier is taken for the process.
SampleByPid(expected, stats, incomplete, blind) ==
    LET selected == descendant_ids(expected.pid, stats)
        root == [expected EXCEPT !.start = table[expected.pid].start]
    IN  IF ~Alive(root) \/ stats[root.pid].start # root.start THEN NoTree
        ELSE [root |-> root,
              processes |-> [p \in Pids |-> IF p \in selected THEN sample_process(p, stats, blind) ELSE NoProcess],
              uncertain |-> incomplete \/ \E p \in selected : sample_process(p, stats, blind) = NoProcess]

\* sample_tree_from_stats and ProcessTreeSnapshot::new: the root is verified afresh, and
\* the capture must have seen the same process; NoTree is an error.
sample_tree_from_stats(expected, stats, incomplete, blind) ==
    LET selected == descendant_ids(expected.pid, stats)
    IN  IF ~Alive(expected) \/ stats[expected.pid].start # expected.start THEN NoTree
        ELSE [root |-> expected,
              processes |-> [p \in Pids |-> IF p \in selected THEN sample_process(p, stats, blind) ELSE NoProcess],
              uncertain |-> incomplete \/ \E p \in selected : sample_process(p, stats, blind) = NoProcess]

\* activity_since: what makes the comparison uncertain, and what grew.
Both(current, before) == {p \in Pids : current.processes[p].start # 0 /\ before.processes[p].start # 0}

CounterReset(current, before, p) == current.processes[p].work < before.processes[p].work

IdentityChanged(current, before, p) == current.processes[p].start # before.processes[p].start

Vanished(current, before) == \E p \in Pids : before.processes[p].start # 0 /\ current.processes[p].start = 0

Uncertain(current, before) ==
    \/ current.uncertain \/ before.uncertain \/ Vanished(current, before)
    \/ \E p \in Both(current, before) :
          \/ IdentityChanged(current, before, p) \/ CounterReset(current, before, p)
          \/ ~current.processes[p].readable \/ ~before.processes[p].readable

Grew(current, before) ==
    \E p \in Pids :
        /\ current.processes[p].start # 0
        /\ before.processes[p].start # 0 => current.processes[p].work > before.processes[p].work

(***************************************************************************)
(* The pass.                                                               *)
(***************************************************************************)
\* The identities of the monitored sessions; without any the pass is over at once.
Load ==
    /\ pass.at = "idle"
    /\ pass' = [Idle EXCEPT !.at = IF \E s \in Sessions : identity[s] # NoIdentity THEN "stat" ELSE "idle",
                            !.loaded = identity,
                            !.dead = {s \in Sessions : identity[s] # NoIdentity /\ ~Alive(identity[s])}]
    /\ credited' = {}
    /\ UNCHANGED <<table, spawns, named, identity, previous, unsampled, faults>>

\* enumerate_stats, one entry of /proc.
ReadStat ==
    /\ pass.at = "stat"
    /\ pass' = [pass EXCEPT !.stats[pass.next] = table[pass.next],
                            !.at = IF pass.next = NumPids THEN "sample" ELSE "stat",
                            !.next = IF pass.next = NumPids THEN 1 ELSE pass.next + 1]
    /\ UNCHANGED <<table, spawns, named, identity, previous, credited, unsampled, faults>>

\* enumerate_stats, an entry that cannot be read or the process budget spent.
SkipEntry ==
    /\ pass.at = "stat" /\ Fault
    /\ pass' = [pass EXCEPT !.incomplete = TRUE,
                            !.at = IF pass.next = NumPids THEN "sample" ELSE "stat",
                            !.next = IF pass.next = NumPids THEN 1 ELSE pass.next + 1]
    /\ UNCHANGED <<table, spawns, named, identity, previous, credited, unsampled>>

\* /proc itself cannot be listed: the pass ends, and every baseline stays.
CaptureFails ==
    /\ pass.at = "stat" /\ pass.next = 1 /\ Fault
    /\ pass' = Idle
    /\ UNCHANGED <<table, spawns, named, identity, previous, credited, unsampled>>

\* sample_trees: one tree a root, kept under the root's identifier.
SampleRoot(blind) ==
    LET expected == pass.loaded[pass.next]
    IN  /\ pass.at = "sample"
        /\ faults + Cardinality(blind) <= MaxFaults /\ Bounded(Cardinality(blind)) /\ faults' = faults + Cardinality(blind)
        /\ pass' = [pass EXCEPT
              !.trees = IF expected = NoIdentity THEN @
                        ELSE [@ EXCEPT ![expected.pid] = sample_tree_from_stats(expected, pass.stats, pass.incomplete, blind)],
              !.stats = IF pass.next = NumSessions THEN [p \in Pids |-> NoProcess] ELSE @,
              !.at = IF pass.next = NumSessions THEN "credit" ELSE "sample",
              !.next = IF pass.next = NumSessions THEN 1 ELSE pass.next + 1]
        /\ UNCHANGED <<table, spawns, named, identity, previous, credited, unsampled>>

\* remove_previous: the next sample is a baseline again.
remove_previous(s) == [previous EXCEPT ![s] = NoTree]

\* One session's comparison (replace_previous), its diagnostic and its progress.
Compare ==
    LET s == pass.next
        loaded == pass.loaded[s]
        current == pass.trees[loaded.pid]
        before == previous[s]
        advance == IF s = NumSessions THEN Idle ELSE [pass EXCEPT !.next = s + 1]
    IN  /\ pass.at = "credit"
        /\ pass' = advance
        /\ IF loaded = NoIdentity THEN credited' = {} /\ UNCHANGED <<previous, unsampled, faults>>
           ELSE IF current = NoTree
           THEN /\ previous' = remove_previous(s)
                /\ unsampled' = unsampled \cup {s}
                /\ credited' = {} /\ UNCHANGED faults
           ELSE /\ previous' = [previous EXCEPT ![s] = current]
                /\ unsampled' = unsampled \ {s}
                /\ IF before.root = current.root /\ ~Uncertain(current, before) /\ Grew(current, before)
                   THEN \/ credited' = {s} /\ UNCHANGED faults
                        \/ Fault /\ credited' = {}
                   ELSE credited' = {} /\ UNCHANGED faults
        /\ UNCHANGED <<table, spawns, named, identity>>

\* The server restarts: the samples are gone.
MonitorRestart ==
    /\ Fault
    /\ pass' = Idle /\ credited' = {} /\ unsampled' = {}
    /\ previous' = [s \in Sessions |-> NoTree]
    /\ UNCHANGED <<table, spawns, named, identity>>

MonitorNext ==
    \/ \E p \in Pids :
          \/ \E parent \in Pids \cup {0} : Spawn(p, parent)
          \/ Work(p) \/ ExitProcess(p)
          \/ \E s \in Sessions : Identify(s, p)
    \/ Load \/ ReadStat \/ SkipEntry \/ CaptureFails \/ Compare \/ MonitorRestart
    \/ \E blind \in SUBSET Pids : SampleRoot(blind)

MonitorSpec == MonitorInit /\ [][MonitorNext]_monitorVars

(***************************************************************************)
(* Properties.                                                             *)
(***************************************************************************)
\* Every variable keeps its shape, and a tree has its own root in it.
MonitorTypeOK ==
    /\ \A p \in Pids : table[p].start \in 0..MaxSpawns /\ table[p].work \in 0..MaxWork
    /\ credited \subseteq Sessions /\ unsampled \subseteq Sessions
    /\ pass.at \in {"idle", "stat", "sample", "credit"}
    /\ \A s \in Sessions :
          previous[s] # NoTree => previous[s].processes[previous[s].root.pid].start = previous[s].root.start

Shared(s) == \E t \in Sessions \ {s} : pass.loaded[t].pid = pass.loaded[s].pid

\* "PID alone is never an identity" (ARCHITECTURE 9), as far as a session is the only one
\* that names its identifier: a session whose process was gone when the pass began is
\* given no progress, whatever runs under its identifier now.
DeadGetsNoProgress ==
    [][\A s \in credited' \ credited : s \notin pass.dead \/ Shared(s)]_monitorVars

\* "The first sample is a baseline": progress is never measured across a pass that could
\* not sample the session.
ConsecutiveSamples == [][\A s \in credited' \ credited : s \notin unsampled]_monitorVars

\* "PID alone is never an identity", of every session.
PidIsNoIdentity == [][\A s \in credited' \ credited : s \notin pass.dead]_monitorVars

=============================================================================
