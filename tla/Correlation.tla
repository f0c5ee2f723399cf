------------------------------ MODULE Correlation ------------------------------
(***************************************************************************)
(* Which parent a child belongs to, from the candidates that evidence      *)
(* produced: correlate of the domain crate, with evidence arriving one     *)
(* candidate at a time.                                                    *)
(*                                                                         *)
(* The code sorts the candidates first, so the order in which they arrived *)
(* is not part of the state.  The text of the evidence only breaks ties    *)
(* within one parent.  Parents are numbers, in the order of their session  *)
(* identities.                                                             *)
(***************************************************************************)
EXTENDS Integers, FiniteSets

CONSTANTS
    Parents,      \* candidate parents
    Confidences,  \* confidence of a candidate
    MinimumConfidence,
    MinimumGap,   \* CorrelationPolicy
    Bases,
    Trusts,       \* bound: kinds of evidence that arrive
    MaxCandidates \* bound: candidates

VARIABLE candidates

rank ==
    [WeakHeuristic |-> 1, TranscriptReference |-> 2, UniqueWorktree |-> 3,
     ProcessAncestry |-> 4, McpRegistration |-> 5, ExactNative |-> 6]

is_explicit(c) == c.basis \in {"ExactNative", "McpRegistration"}

trust_rank == [Uncertain |-> 0, Heuristic |-> 1, Corroborating |-> 2, Authoritative |-> 3]

ASSUME CorrelationAssumption ==
    /\ Parents \subseteq Nat /\ Confidences \subseteq Nat /\ MinimumConfidence \in Nat
    /\ Bases \subseteq DOMAIN rank /\ Trusts \subseteq DOMAIN trust_rank
    /\ MinimumGap \in Nat \ {0} /\ MaxCandidates \in Nat

Candidate == [parent : Parents, basis : Bases, trust : Trusts, confidence : Confidences]

\* One tuple of numbers before another.
Precedes(a, b) ==
    \E i \in DOMAIN a : a[i] < b[i] /\ \A j \in 1..(i - 1) : a[j] = b[j]

\* a ranks below b.
compare_candidate(a, b) ==
    Precedes(<<rank[a.basis], trust_rank[a.trust], a.confidence, b.parent>>,
             <<rank[b.basis], trust_rank[b.trust], b.confidence, a.parent>>)

\* best_by_parent.
BestOf(p, given) ==
    CHOOSE c \in given : c.parent = p /\ \A d \in given : d.parent = p => ~compare_candidate(c, d)

Ranked(given) == {BestOf(p, given) : p \in {c.parent : c \in given}}
First(set) == CHOOSE c \in set : \A d \in set \ {c} : compare_candidate(d, c)

\* saturating_sub.
Lead(c, d) == IF c.confidence > d.confidence THEN c.confidence - d.confidence ELSE 0

\* A plausible slip: only a tie is too close.
Tied(c, d) == c.basis = d.basis /\ Lead(c, d) = 0

TooClose(c, d) == c.basis = d.basis /\ Lead(c, d) < MinimumGap

Selected(p) == [answer |-> "Selected", parent |-> p]
Ambiguous == [answer |-> "Ambiguous", parent |-> 0]
Unassigned == [answer |-> "Unassigned", parent |-> 0]

correlate(given) ==
    LET ranked == Ranked(given)
        best == First(ranked)
        others == ranked \ {best}
    IN  IF given = {} THEN Unassigned
        ELSE IF Cardinality({c \in ranked : is_explicit(c)}) > 1 THEN Ambiguous
        ELSE IF is_explicit(best) THEN Selected(best.parent)
        ELSE IF best.confidence < MinimumConfidence THEN Unassigned
        ELSE IF others # {} /\ TooClose(best, First(others)) THEN Ambiguous
        ELSE Selected(best.parent)

CorrelationInit == candidates = {}

Observe(c) ==
    /\ c \notin candidates /\ Cardinality(candidates) < MaxCandidates
    /\ candidates' = candidates \cup {c}

CorrelationNext == \E c \in Candidate : Observe(c)

CorrelationSpec == CorrelationInit /\ [][CorrelationNext]_candidates

(***************************************************************************)
(* Properties.                                                             *)
(***************************************************************************)
Of(p, given) == {c \in given : c.parent = p}

\* FR-DIS-005: explicit links outrank heuristics.  However much trusted or confident evidence
\* there is for others, the one parent with an explicit link is selected.
ExplicitWins ==
    \A p \in Parents :
        {c.parent : c \in {d \in candidates : is_explicit(d)}} = {p}
            => correlate(candidates) = Selected(p)

\* ARCHITECTURE 10: an inferred parent needs "a minimum gap to the runner-up".  Among all the
\* evidence of the best basis and trust, nothing for another parent comes close.
NoCloseCall ==
    LET decision == correlate(candidates) IN
    decision.answer = "Selected" =>
        \A c \in Of(decision.parent, candidates), d \in candidates :
            /\ ~is_explicit(c) /\ d.parent # decision.parent
            /\ \A e \in candidates : /\ rank[e.basis] <= rank[c.basis]
                                     /\ e.basis = c.basis => trust_rank[e.trust] <= trust_rank[c.trust]
            /\ d.basis = c.basis /\ d.trust = c.trust
            /\ \A e \in Of(decision.parent, candidates) :
                   e.basis = c.basis /\ e.trust = c.trust => e.confidence <= c.confidence
            => c.confidence - d.confidence >= MinimumGap

\* correlation.rs: a decision "never silently resolves close or conflicting evidence".  Only
\* the second in rank is compared: with evidence for a third parent of the same basis, more
\* trusted but far less likely, a close call between two becomes a selection.
RivalsResolveNothing ==
    [][LET was == correlate(candidates)
           now == correlate(candidates')
       IN  was.answer = "Ambiguous" /\ now.answer = "Selected"
               => now.parent \in {c.parent : c \in candidates' \ candidates}]_candidates

=============================================================================
