------------------------- MODULE RepositoryEnrichment -------------------------
(***************************************************************************)
(* The repository columns of a main session: remote, branch and pull       *)
(* request.  Discovery copies remote and branch from the runtime's state,  *)
(* the GitHub worker looks the pull request up, and every registration (a  *)
(* hook, a scan) saves the same row.  Each of them reads the row, waits,   *)
(* and writes all of it back: no writer knows of the others.               *)
(*                                                                         *)
(* A pull request is the pair of the remote and the branch it is for.      *)
(* Time is counted in passes of the worker; a lookup, cut off after        *)
(* TOTAL_TIMEOUT, is shorter than one.                                     *)
(***************************************************************************)
EXTENDS Integers, FiniteSets

CONSTANTS
    Mains,      \* main sessions
    Branches,   \* branches
    Supported,  \* remotes parse_github_remote understands, in canonical form
    Others,     \* remotes it does not
    None,       \* an empty column
    CacheTtl,   \* CACHE_TTL, in passes
    MaxChanges  \* bound: changes of a branch, remote or pull request, failures, restarts

ASSUME EnrichmentAssumption ==
    /\ None \notin Branches \cup Supported \cup Others /\ Supported \cap Others = {}
    /\ CacheTtl \in Nat \ {0} /\ MaxChanges \in Nat

VARIABLES
    source,  \* remote and branch in the runtime's own state
    open,    \* pull requests open on GitHub
    row,     \* the columns in table sessions
    cache,   \* GitHubEnricher.cache: the answer, and the passes it is good for
    writer,  \* for each main: the scan and the hook that may be saving its row
    github,  \* the GitHub worker
    changes  \* counter of the bound

enrichVars == <<source, open, row, cache, writer, github, changes>>

Keys == Supported \X Branches
Columns ==
    [remote : Supported \cup {None}, branch : Branches \cup {None}, pull : Keys \cup {None}]
Empty == [remote |-> None, branch |-> None, pull |-> None]
Idle == [at |-> "idle", seen |-> Empty, remote |-> None, branch |-> None]
Resting == [at |-> "rest", left |-> {}, main |-> None, key |-> None, answer |-> None]

\* Only remotes of GitHub are kept.
canonical_remote(remote) == IF remote \in Supported THEN remote ELSE None

\* What an earlier run of the server may have left in the row.
Shown(thread, pulls) ==
    LET k == <<thread.remote, thread.branch>>
    IN  [remote |-> k[1], branch |-> k[2], pull |-> IF k \in pulls THEN k ELSE None]

EnrichInit ==
    /\ source \in [Mains -> [remote : Supported \cup Others, branch : Branches]]
    /\ open \in SUBSET Keys
    /\ \/ row = [s \in Mains |-> Empty]
       \/ /\ \A s \in Mains : source[s].remote \in Supported
          /\ row = [s \in Mains |-> Shown(source[s], open)]
    /\ cache = [k \in Keys |-> [answer |-> None, left |-> 0]]
    /\ writer = [w \in {"scan", "hook"} \X Mains |-> Idle]
    /\ github = Resting
    /\ changes = 0

Upset == changes < MaxChanges /\ changes' = changes + 1

(***************************************************************************)
(* Merging.                                                                *)
(***************************************************************************)
Or(a, b) == IF a # None THEN a ELSE b

\* A plausible slip: the stored column wins.
FirstBranchWins(seen, remote, branch) ==
    [seen EXCEPT !.remote = Or(remote, @), !.branch = Or(@, branch)]

\* enrich_repository_metadata for discovery: what the request leaves out is kept.
Merged(seen, remote, branch) ==
    [seen EXCEPT !.remote = Or(remote, @), !.branch = Or(branch, @)]

\* enrich_repository_metadata for the GitHub worker: the pull request is replaced, by
\* nothing too, and the remote and branch it was looked up for are written with it.
Replaced(seen, key, answer) == [remote |-> key[1], branch |-> key[2], pull |-> answer]

(***************************************************************************)
(* Registrations: a scan of the runtime's state, or a hook.                *)
(***************************************************************************)
\* discover_session reads the columns; a scan has read the runtime's state before.
DiscoverReads(w) ==
    /\ writer[w].at = "idle"
    /\ writer' = [writer EXCEPT ![w] =
                     IF w[1] = "hook" THEN [Idle EXCEPT !.at = "discover", !.seen = row[w[2]]]
                     ELSE [at |-> "discover", seen |-> row[w[2]],
                           remote |-> canonical_remote(source[w[2]].remote),
                           branch |-> source[w[2]].branch]]
    /\ UNCHANGED <<source, open, row, cache, github, changes>>

\* It saves them with a title; a hook is done then.
DiscoverSaves(w) ==
    /\ writer[w].at = "discover"
    /\ row' = [row EXCEPT ![w[2]] = writer[w].seen]
    /\ writer' = [writer EXCEPT ![w] = IF w[1] = "hook" THEN Idle
                                            ELSE [@ EXCEPT !.at = "known", !.seen = Empty]]
    /\ UNCHANGED <<source, open, cache, github, changes>>

EnrichReads(w) ==
    /\ writer[w].at = "known"
    /\ writer' = [writer EXCEPT ![w].at = "enrich", ![w].seen = row[w[2]]]
    /\ UNCHANGED <<source, open, row, cache, github, changes>>

EnrichSaves(w) ==
    /\ writer[w].at = "enrich"
    /\ row' = [row EXCEPT ![w[2]] = Merged(writer[w].seen, writer[w].remote, writer[w].branch)]
    /\ writer' = [writer EXCEPT ![w] = Idle]
    /\ UNCHANGED <<source, open, cache, github, changes>>

WriterFails(w) ==
    /\ writer[w].at # "idle" /\ Upset
    /\ writer' = [writer EXCEPT ![w] = Idle]
    /\ UNCHANGED <<source, open, row, cache, github>>

(***************************************************************************)
(* The GitHub worker: one pass over the mains per tick of its interval.    *)
(***************************************************************************)
\* The entry of a key is used until it expires.
Cached(k) == cache[k].left > 0

\* What is left of an entry one pass later.
Aged(k) == IF Cached(k) THEN cache[k].left - 1 ELSE 0

BeginPass ==
    /\ github.at = "rest"
    /\ github' = [Resting EXCEPT !.at = "next", !.left = Mains]
    /\ cache' = [k \in Keys |-> [cache[k] EXCEPT !.left = Aged(k)]]
    /\ UNCHANGED <<source, open, row, writer, changes>>

\* session_metadata of the next main: without a remote or a branch it is passed over, and
\* a key in the cache is not looked up.
ReadMain(s) ==
    LET k == <<row[s].remote, row[s].branch>>
        turn == [github EXCEPT !.main = s, !.left = @ \ {s}, !.key = k]
    IN  /\ github.at = "next" /\ s \in github.left
        /\ github' = IF None \in {k[1], k[2]} THEN [github EXCEPT !.left = @ \ {s}]
                     ELSE IF Cached(k) THEN [turn EXCEPT !.at = "answered", !.answer = cache[k].answer]
                     ELSE [turn EXCEPT !.at = "lookup"]
        /\ UNCHANGED <<source, open, row, cache, writer, changes>>

\* What comes back, or nothing on any failure, is cached.
Lookup(k) ==
    \/ (IF k \in open THEN k ELSE None) = github'.answer /\ changes' = changes
    \/ github'.answer = None /\ Upset

enrich ==
    LET k == github.key IN
    /\ github.at = "lookup"
    /\ \E answer \in {k, None} : github' = [github EXCEPT !.at = "answered", !.answer = answer]
    /\ Lookup(k)
    /\ cache' = [cache EXCEPT ![k] = [answer |-> github'.answer, left |-> CacheTtl]]
    /\ UNCHANGED <<source, open, row, writer>>

Following == IF github.left = {} THEN Resting ELSE [Resting EXCEPT !.at = "next", !.left = github.left]

\* All three columns are written: what the merge reads of the row is only the title.
MergeSaves ==
    /\ github.at = "answered"
    /\ row' = [row EXCEPT ![github.main] = Replaced(@, github.key, github.answer)]
    /\ github' = Following
    /\ UNCHANGED <<source, open, cache, writer, changes>>

\* An error while merging is a warning; one while reading a main ends the pass.
GitHubFails ==
    /\ github.at \in {"next", "answered"} /\ Upset
    /\ github' = IF github.at = "next" THEN Resting ELSE Following
    /\ UNCHANGED <<source, open, row, cache, writer>>

EndPass ==
    /\ github.at = "next" /\ github.left = {}
    /\ github' = Resting
    /\ UNCHANGED <<source, open, row, cache, writer, changes>>

\* The cache is in memory.
EnrichRestart ==
    /\ Upset
    /\ github' = Resting
    /\ writer' = [w \in DOMAIN writer |-> Idle]
    /\ cache' = [k \in Keys |-> [answer |-> None, left |-> 0]]
    /\ UNCHANGED <<source, open, row>>

(***************************************************************************)
(* The host and GitHub.                                                    *)
(***************************************************************************)
Checkout(s, branch) ==
    /\ source[s].branch # branch /\ Upset
    /\ source' = [source EXCEPT ![s].branch = branch]
    /\ UNCHANGED <<open, row, cache, writer, github>>

SetRemote(s, remote) ==
    /\ source[s].remote # remote /\ Upset
    /\ source' = [source EXCEPT ![s].remote = remote]
    /\ UNCHANGED <<open, row, cache, writer, github>>

OpenOrClose(k) ==
    /\ Upset
    /\ open' = IF k \in open THEN open \ {k} ELSE open \cup {k}
    /\ UNCHANGED <<source, row, cache, writer, github>>

ScanStep(w) == DiscoverReads(w) \/ DiscoverSaves(w) \/ EnrichReads(w) \/ EnrichSaves(w)

GitHubStep ==
    \/ BeginPass \/ \E s \in Mains : ReadMain(s)
    \/ enrich \/ MergeSaves \/ EndPass

EnrichNext ==
    \/ \E w \in DOMAIN writer : ScanStep(w) \/ WriterFails(w)
    \/ GitHubStep \/ GitHubFails \/ EnrichRestart
    \/ \E s \in Mains : \/ \E b \in Branches : Checkout(s, b)
                        \/ \E r \in Supported \cup Others : SetRemote(s, r)
    \/ \E k \in Keys : OpenOrClose(k)

\* Scans are repeated by the discovery worker, passes by the interval of the GitHub
\* worker, and what they began is carried on; nobody has to send a hook.
EnrichFairness ==
    /\ \A s \in Mains : WF_enrichVars(ScanStep(<<"scan", s>>))
    /\ \A s \in Mains : WF_enrichVars(DiscoverSaves(<<"hook", s>>))
    /\ WF_enrichVars(GitHubStep)

(***************************************************************************)
(* Properties.                                                             *)
(***************************************************************************)
\* Every variable keeps its shape; ARCHITECTURE 20: "Only supported GitHub remotes are
\* retained", in the row, in the cache and in what a scan is about to write.
EnrichTypeOK ==
    /\ row \in [Mains -> Columns]
    /\ \A w \in DOMAIN writer :
           /\ writer[w].seen \in Columns /\ writer[w].remote \in Supported \cup {None}
           /\ writer[w].at \in {"idle", "discover", "known", "enrich"}
    /\ \A k \in Keys : cache[k].answer \in {k, None} /\ cache[k].left \in 0..CacheTtl
    /\ github.at \in {"rest", "next", "lookup", "answered"} /\ github.left \subseteq Mains
    /\ github.at \in {"lookup", "answered"} => github.key \in Keys /\ github.main \in Mains

\* Once the branch is left alone the row names it again and again, although the GitHub worker
\* writes back the branch it read before its lookup and a hook the one it read before its save.
BranchComesThrough == \A s \in Mains : []<>(row[s].branch = source[s].branch)

OpenFor(s) == LET k == <<row[s].remote, row[s].branch>> IN IF k \in open THEN k ELSE None

\* ARCHITECTURE 20: a lookup without a match "clears a stale PR while retaining the branch".
\* The row shows, again and again, exactly the pull request that is open for the branch it
\* shows, through failed lookups that were cached, expired answers and lost restarts.
PullComesThrough == \A s \in Mains : []<>(row[s].pull = OpenFor(s))

\* FR-UI-004: a card shows "branch or linked GitHub PR".  The link may be another branch's:
\* discovery changes the branch and keeps the pull request until the worker's next pass.
LinkIsOfBranch == \A s \in Mains : row[s].pull # None => row[s].pull = <<row[s].remote, row[s].branch>>

=============================================================================
