---------------------------- MODULE MCDiscovery ----------------------------
(***************************************************************************)
(* The adapters of discovery.rs, one family of files at a time: Claude     *)
(* team tasks, Claude transcripts and their aliases, Codex threads and     *)
(* Codex Companion jobs.  The families share no state here, so each        *)
(* behaviour follows the one chosen at its start.                          *)
(***************************************************************************)
EXTENDS TeamTasks, TranscriptAliases, CodexThreads, CompanionJobs

VARIABLE family \* the files this behaviour is about

vars == <<family, taskVars, aliasVars, codexVars, jobVars>>

\* t2 is a subagent of t1 and its rollout is the newer one.
MCParentOf == [t \in {"t1", "t2"} |-> IF t = "t2" THEN "t1" ELSE "none"]
MCNewest == <<"t2", "t1">>

\* No team, a lead, a lead and a member, two members of one lead, two teams in one directory.
MCShapes == {{}, {Entry("l", Nobody)}, {Entry("l", Nobody), Entry("m", "l")},
             {Entry("l", Nobody), Entry("m", "l"), Entry("n", "l")},
             {Entry("l", Nobody), Entry("k", Nobody), Entry("m", "l"), Entry("n", "k")}}

Init ==
    /\ family \in {"tasks", "aliases", "codex", "jobs"}
    /\ TaskInit /\ AliasInit /\ CodexInit /\ JobInit
    /\ family # "aliases" => shape = {} /\ headed
    /\ family # "codex" => origin = {} /\ \A c \in Claude : place[c] = "directory"
    /\ family # "tasks" => \A k \in Tasks : task[k] = NoTask
    /\ family # "jobs" => \A j \in Jobs : job[j].state = "Starting"

Only(f) ==
    /\ family = f /\ UNCHANGED family
    /\ f # "tasks" => UNCHANGED taskVars
    /\ f # "aliases" => UNCHANGED aliasVars
    /\ f # "codex" => UNCHANGED codexVars
    /\ f # "jobs" => UNCHANGED jobVars

Next ==
    \/ Only("tasks") /\ TaskNext
    \/ Only("aliases") /\ AliasNext
    \/ Only("codex") /\ CodexNext
    \/ Only("jobs") /\ JobNext

\* The reconciliation worker of the chosen adapter.
Work ==
    \/ Only("tasks") /\ TaskWork
    \/ Only("aliases") /\ PassStep
    \/ Only("codex") /\ CodexWork
    \/ Only("jobs") /\ JobWork

Spec == Init /\ [][Next]_vars /\ WF_vars(Work)

\* A transcript goes on being read under whichever identity (TailingGoesOn).
TranscriptsFollowed == family = "aliases" => TailingGoesOn

=============================================================================
