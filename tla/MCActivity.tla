------------------------------- MODULE MCActivity -------------------------------
(***************************************************************************)
(* Three models on small instances: the two sources of progress that no    *)
(* runtime reports, process samples and worktree changes, and the inbox    *)
(* that hands a parent the events of its children.  They share only the    *)
(* store, so a behaviour runs one of them and leaves the others alone.     *)
(***************************************************************************)
EXTENDS ProcessMonitor, WorktreeActivity, ParentInbox, TLC

VARIABLE topic

\* A directory with one below it, a link to it, and a link that leaves the prefix.
SomeNatives == <<<<"a">>, <<"a", "b">>, <<"l">>, <<"x">>>>
OutsidePath == <<"outside">>
Links == [p \in ToSet(SomeNatives) |->
              CASE p = <<"l">> -> <<"a">> [] p = <<"x">> -> OutsidePath [] OTHER -> p]

activityVars == <<topic, monitorVars, worktreeVars, inboxVars>>

ActivityInit ==
    /\ topic \in {"process", "worktree", "inbox"} /\ MonitorInit /\ WorktreeInit /\ InboxInit
    /\ topic # "worktree" => created = <<>>

Samples == topic = "process" /\ MonitorNext /\ UNCHANGED <<topic, worktreeVars, inboxVars>>
Changes == topic = "worktree" /\ WorktreeNext /\ UNCHANGED <<topic, monitorVars, inboxVars>>
Events == topic = "inbox" /\ InboxNext /\ UNCHANGED <<topic, monitorVars, worktreeVars>>

ActivitySpec == ActivityInit /\ [][Samples \/ Changes \/ Events]_activityVars

\* Calls and writers are interchangeable, and so are the children and the registration keys
\* of the worktree model; they share their names, since a behaviour is about one model.
Symmetry == Permutations(Calls) \cup Permutations(Writers)

=============================================================================
