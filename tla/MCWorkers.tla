------------------------------ MODULE MCWorkers ------------------------------
(***************************************************************************)
(* Two of the server's background workers side by side: the timer worker,  *)
(* which turns silence into a stall, and the pipeline from a changed file  *)
(* to a reconciliation.  They share no state, so a behaviour is about one  *)
(* topic and the other stands still.                                       *)
(***************************************************************************)
EXTENDS MCSessionTimers, WatchPipeline

VARIABLE topic

AllVars == <<vars, given, watchVars, topic>>

AllInit == MCInit /\ WatchInit /\ topic \in {"timers", "watch"}

Timers(A) == topic = "timers" /\ A /\ UNCHANGED <<watchVars, topic>>
Watch(A) == topic = "watch" /\ A /\ UNCHANGED <<vars, given, topic>>

AllNext == Timers(MCNext) \/ Watch(WatchNext)

\* The fairness of MCSpec, and as much of that of WatchSpec as the properties need.  The
\* topic never changes, so weak fairness of two actions of different topics together is weak
\* fairness of each.
AllSpec ==
    /\ AllInit /\ [][AllNext]_AllVars
    /\ WF_AllVars(Timers(Advance /\ UNCHANGED given) \/ Watch(SupervisorStep))
    /\ WF_AllVars(Timers(Tick(0) /\ UNCHANGED given) \/ Watch(WorkerStep))
    /\ WF_AllVars(Watch(PeriodicTick))

\* A session that stays silent while its clock runs becomes stalled (SilentSessionStalls).
SilenceEndsInStall == topic = "timers" => SilentSessionStalls

\* A change below an enabled root is read (ChangesAreRead).
EveryChangeRead == topic = "watch" => ChangesAreRead

\* A suspension after lost events ends (SuspensionEnds).
SuspensionLifted == topic = "watch" => SuspensionEnds

=============================================================================
