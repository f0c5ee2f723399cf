--------------------------- MODULE MCTerminationSaga ---------------------------
(***************************************************************************)
(* The saga with every kind of disturbance allowed at once, but only       *)
(* MaxDisturbances of them in one behaviour.                               *)
(***************************************************************************)
EXTENDS TerminationSaga

CONSTANT MaxDisturbances \* bound: disturbances in one behaviour

VARIABLES
    disturbed, \* counter of the bound
    blind      \* history: since the warning a pass could not read or commit

\* The pass could not read the process it knows of.
Unread == /\ pass'.at = "act" /\ snap.process # None
          /\ pass'.fresh = None /\ ~pass'.changed /\ ~pass'.exited

Disturb ==
    \/ Evidence \/ Restart \/ Exit \/ Reuse \/ FailToPersist
    \/ \E switch \in Toggles : Toggle(switch)

MCNext ==
    \/ /\ Disturb
       /\ disturbed < MaxDisturbances /\ disturbed' = disturbed + 1
       /\ blind' = (blind \/ failures' # failures)
    \/ /\ Tick \/ (Reconcile /\ wall <= Horizon) \/ Advance \/ Decide \/ PersistSignal \/ BeginPass
       /\ blind' = (blind /\ warned' = warned)
       /\ UNCHANGED disturbed
    \/ /\ ReadFacts
       /\ blind' = (blind \/ Unread)
       /\ disturbed' = IF Unread THEN disturbed + 1 ELSE disturbed
       /\ disturbed' <= MaxDisturbances

MCInit == Init /\ disturbed = 0 /\ blind = FALSE

MCSpec == MCInit /\ [][MCNext]_<<vars, disturbed, blind>>

\* Time passes and the five-second worker runs.
MCFairSpec == MCSpec /\ WF_vars(Advance) /\ WF_vars(Monitor)

\* A stall that ended cancels the saga: a signal belongs to the stall that was warned
\* about, unless a pass in between could not read the process or commit its row
\* (handle_blockers keeps the row through transient blockers).
WarnedStallOrUnread == blind \/ SignalsWarnedStall

\* A child that stays eligible gets through every stage: once evidence stops, its saga
\* ends or it is killed (advance_due under the worker).  A stall the timers notice too
\* late for the bounded time does not count.
LateStall == stall.begin > MaxTime - (TerminateAfter + warning_grace + action_grace + 5 * PassEvery)
EligibleChildEnds ==
    <>[](\/ saga.stage \in {"Completed", "Aborted", "Sigkill"}
         \/ ~({"automation", "sigkill"} \subseteq env)
         \/ LiveBlockers # {} \/ LateStall)

=============================================================================
