--------------------------- MODULE MCSessionTimers ---------------------------
(***************************************************************************)
(* The timers with every kind of evidence, late and distrusted evidence    *)
(* and a restart allowed at once, but only MaxEvidence observations in one *)
(* behaviour.                                                              *)
(***************************************************************************)
EXTENDS SessionTimers

CONSTANT MaxEvidence \* bound: observations in one behaviour

VARIABLE given       \* counter of the bound

MCInit == Init /\ given = 0

MCNext ==
    \/ Evidence /\ given < MaxEvidence /\ given' = given + 1
    \/ (Restart \/ Reconcile \/ Advance) /\ UNCHANGED given
    \/ \E delay \in Delays : Tick(delay) /\ UNCHANGED given

MCSpec ==
    /\ MCInit /\ [][MCNext]_<<vars, given>>
    /\ WF_vars(Advance) /\ WF_vars(Tick(0))

\* What parents, the session and the adapters report.
AllKinds ==
    {"NativeState", "Progress", "DeadlineSet", "DeadlinePause", "DeadlineResume",
     "DeadlineClear", "IntentionalWait", "ProcessIdentity", "Compatibility",
     "CompatibilityResolved", "SourceConflict", "SourceConflictResolved"}

=============================================================================
