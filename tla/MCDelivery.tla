------------------------------ MODULE MCDelivery ------------------------------
(***************************************************************************)
(* What a human is shown: the delivery of events to webhooks and the       *)
(* dashboard, the repository columns of its cards, and the parent a child  *)
(* is shown under, side by side: a behaviour is about one topic.           *)
(***************************************************************************)
EXTENDS HumanDelivery, RepositoryEnrichment, Correlation

VARIABLE topic

AllVars == <<vars, enrichVars, candidates, topic>>

\* The branches are alike, so one of them is the first.  The columns are up to date in a
\* behaviour that is not about them.
AllInit ==
    /\ Init /\ EnrichInit /\ CorrelationInit /\ topic \in {"events", "columns", "parents"}
    /\ \A s \in Mains : source[s].branch = "b1"
    /\ topic # "columns" =>
           /\ \A s \in Mains : source[s].remote = "gh" /\ row[s] = Shown(source[s], open)
           /\ open = {}

Events(A) == topic = "events" /\ A /\ UNCHANGED <<enrichVars, candidates, topic>>
Cards(A) == topic = "columns" /\ A /\ UNCHANGED <<vars, candidates, topic>>
Parent(A) == topic = "parents" /\ A /\ UNCHANGED <<vars, enrichVars, topic>>

AllNext == Events(Next) \/ Cards(EnrichNext) \/ Parent(CorrelationNext)

\* The fairness of HumanDelivery and of RepositoryEnrichment, each for its topic.
AllSpec ==
    /\ AllInit /\ [][AllNext]_AllVars
    /\ WF_AllVars(Events(Dispatch)) /\ WF_AllVars(Events(Deliver))
    /\ WF_AllVars(Events(ReadInitial)) /\ WF_AllVars(Events(Receive))
    /\ \A s \in Mains : WF_AllVars(Cards(ScanStep(<<"scan", s>>)))
    /\ \A s \in Mains : WF_AllVars(Cards(DiscoverSaves(<<"hook", s>>)))
    /\ WF_AllVars(Cards(GitHubStep))

=============================================================================
