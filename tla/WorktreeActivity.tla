--------------------------- MODULE WorktreeActivity ----------------------------
(***************************************************************************)
(* Which worktrees are watched and whose progress a change in one of them  *)
(* is: the durable registry of watch paths, the ephemeral registry of      *)
(* active children, the projection of native paths into the container, the *)
(* build of the watches under the target limit, and the attribution of a   *)
(* batch of changed directories.                                           *)
(*                                                                         *)
(* A native path is a sequence of names below the one configured prefix.   *)
(* Resolve gives the directory it stands for in the container: itself,     *)
(* another directory if the path leads through a link, or Outside.  A      *)
(* directory found below another one is reported under its resolved name.  *)
(*                                                                         *)
(* Every await, lock and atomic is a step: a registration holds its mutex  *)
(* from the check to the insertion, a refresh reads the store and then     *)
(* replaces the registry, the supervisor notes the generation before it    *)
(* builds, the attribution reads sessions, registrations and metadata one  *)
(* after the other.                                                        *)
(***************************************************************************)
EXTENDS Integers, Sequences, FiniteSets, FiniteSetsExt, SequencesExt

CONSTANTS
    Children,         \* child sessions that may be discovered
    Natives,          \* native paths, as a sequence in the order of their names
    Resolve,          \* native path -> directory in the container, or Outside
    Outside,          \* what lies outside the mounted root
    Keys,             \* event keys of registrations
    MaxRegistered,    \* MAX_REGISTERED_WATCH_PATHS
    MaxChildSessions, \* MAX_CHILD_SESSIONS
    TargetLimit,      \* WATCH_TARGET_LIMIT
    MaxRuntimeDirs,   \* bound: directories below the runtime roots
    MaxSteps          \* bound: discoveries, changes, requests, failures, restarts together

NativePaths == ToSet(Natives)
Mounted == {Resolve[p] : p \in NativePaths} \ {Outside}

ASSUME WorktreeAssumption ==
    /\ \A p \in NativePaths : Resolve[p] \in NativePaths \cup {Outside}
    /\ \A p \in Mounted : Resolve[p] = p
    /\ Natives \in Seq(Seq(STRING) \ {<<>>}) /\ IsFiniteSet(Children)
    /\ MaxRegistered \in Nat /\ MaxChildSessions \in Nat /\ TargetLimit \in Nat
    /\ MaxRuntimeDirs \in Nat \ {0} /\ MaxSteps \in Nat

VARIABLES
    created,     \* stored children, oldest first
    child,       \* per child: ended, and its startup directory or <<>>
    rows,        \* registered_watch_paths in the store
    records,     \* WatchPathRegistry.records
    active,      \* WatchPathRegistry.active, as pairs
    turn,        \* WatchPathRegistry.generation
    applied,     \* applied_watch_generation of the supervisor
    builder,     \* the supervisor between noting the generation and keeping it
    rebuild,     \* the configuration changed, or a directory appeared or went
    routes,      \* worktree targets: the watched directory and the path it reports
    coverage,    \* health of the watcher
    disk,        \* directories that exist below the mounted root
    exclusions,  \* excluded directories of the current configuration
    runtimeDirs, \* directories below the enabled runtime roots
    request,     \* the registration that holds the mutex
    refresher,   \* the refresh between its query and its write
    queued,      \* batches in the activity queue
    task,        \* the attribution under way
    restarted,   \* the process was restarted: its monotonic clock began again
    steps        \* counter of the bound

worktreeVars == <<created, child, rows, records, active, turn, applied, builder, rebuild, routes,
                  coverage, disk, exclusions, runtimeDirs, request, refresher, queued, task,
                  restarted, steps>>

sessions == <<created, child>>
registry == <<rows, records, active, turn, request, refresher>>
watches == <<applied, builder, rebuild, routes, runtimeDirs>>
places == <<disk, exclusions>>
attribution == <<queued, task>>

Step == steps < MaxSteps /\ steps' = steps + 1
Same == steps' = steps

NoRequest == [at |-> "free", row |-> <<>>]
NoTask == [at |-> "idle", batch |-> {}, known |-> {}, claims |-> {}, todo |-> {}, done |-> {}]
Starting == [at |-> "noted", noted |-> 1]

\* A new store, or one with the children of an earlier process.
WorktreeInit ==
    /\ created \in {<<>>, SetToSeq(Children)}
    /\ child = [c \in Children |-> [ended |-> FALSE, directory |-> <<>>]]
    /\ rows = {} /\ records = {} /\ active = {}
    /\ turn = 1 /\ applied = 0 /\ builder = Starting /\ rebuild = FALSE
    /\ routes = {} /\ coverage = "healthy"
    /\ disk = Mounted /\ exclusions = {} /\ runtimeDirs = 1
    /\ request = NoRequest /\ refresher = {} /\ queued = <<>> /\ task = NoTask
    /\ restarted = FALSE /\ steps = 0

(***************************************************************************)
(* Projection.                                                             *)
(***************************************************************************)
\* project_native_directory: the path stays below the mounted root and is a directory there.
project_path(p) == Resolve[p] # Outside /\ Resolve[p] \in disk

Excluded(d) == \E x \in exclusions : IsPrefix(x, d)

\* What register accepts and projected_paths keeps.
Watchable(p) == project_path(p) /\ ~Excluded(Resolve[p])

(***************************************************************************)
(* Ownership.  A claim is a pair of a directory and a child.               *)
(***************************************************************************)
ClaimsOf(known, registered) ==
    {<<child[c].directory, c>> : c \in {k \in known : child[k].directory # <<>>}}
        \cup {<<r.path, r.child>> : r \in {q \in registered : q.child \in known}}

\* A plausible slip: every worktree the change is in counts, not only the innermost.
AnyOwner(claims, path) == {claim[2] : claim \in {q \in claims : IsPrefix(q[1], path)}}

\* WorktreeOwners::attribute: the owners of the innermost worktree.
OwnersOf(claims, path) ==
    LET around == {q \in claims : IsPrefix(q[1], path)}
    IN  {q[2] : q \in {r \in around : \A s \in around : Len(s[1]) <= Len(r[1])}}

\* Whose a change is, for the properties: what every stored child claims at this moment.
ClaimsIt(c, path) == child[c].directory = path \/ \E r \in rows : r.child = c /\ r.path = path
Claimants(path) == {c \in ToSet(created) : ClaimsIt(c, path)}
OwnersNow(path) ==
    LET claimed == {n \in 1..Len(path) : Claimants(SubSeq(path, 1, n)) # {}}
    IN  IF claimed = {} THEN {} ELSE Claimants(SubSeq(path, 1, Max(claimed)))

\* Claims change: whose a change still to be attributed was can no longer be told.
Unsettle(changes) == {[c EXCEPT !.settled = FALSE] : c \in changes}
ClaimsMove ==
    /\ queued' = [i \in DOMAIN queued |-> Unsettle(queued[i])]
    /\ task' = IF task.at = "apply" THEN task ELSE [task EXCEPT !.batch = Unsettle(@)]

(***************************************************************************)
(* Sessions, by discovery.                                                 *)
(***************************************************************************)
\* A child is stored, then its metadata is saved.
Discover(c) ==
    /\ c \notin ToSet(created) /\ Step
    /\ created' = Append(created, c)
    /\ UNCHANGED <<child, registry, watches, coverage, places, attribution, restarted>>

SaveMetadata(c, p) ==
    /\ c \in ToSet(created) /\ child[c].directory = <<>> /\ Step
    /\ child' = [child EXCEPT ![c].directory = p]
    /\ ClaimsMove
    /\ UNCHANGED <<created, registry, watches, coverage, places, restarted>>

End(c) ==
    /\ c \in ToSet(created) /\ ~child[c].ended /\ Step
    /\ child' = [child EXCEPT ![c].ended = TRUE]
    /\ UNCHANGED <<created, registry, watches, coverage, places, attribution, restarted>>

(***************************************************************************)
(* Registration.                                                           *)
(***************************************************************************)
\* What is refused, and a repeated request, change nothing.
register(c, p, k) ==
    /\ request.at = "free" /\ c \in ToSet(created) /\ Step
    /\ Watchable(p)
    /\ ~\E r \in records : r.child = c /\ r.path = p
    /\ Cardinality(records) < MaxRegistered
    /\ request' = [at |-> "save", row |-> [child |-> c, path |-> p, key |-> k]]
    /\ UNCHANGED <<sessions, rows, records, active, turn, refresher, watches, coverage, places,
                   attribution, restarted>>

\* save_registered_watch_path: one row per key, and per child and path.
SaveRow ==
    /\ request.at = "save"
    /\ IF \E r \in rows : r.key = request.row.key
                         \/ (r.child = request.row.child /\ r.path = request.row.path)
       THEN request' = NoRequest /\ UNCHANGED <<rows, attribution, steps>>
       ELSE \/ /\ rows' = rows \cup {request.row} /\ Same
               /\ request' = [request EXCEPT !.at = "insert"]
               /\ ClaimsMove
            \/ Step /\ request' = NoRequest /\ UNCHANGED <<rows, attribution>> \* the store failed
    /\ UNCHANGED <<sessions, records, active, turn, refresher, watches, coverage, places, restarted>>

InsertRecord ==
    /\ request.at = "insert"
    /\ records' = records \cup {request.row}
    /\ turn' = turn + 1
    /\ request' = NoRequest
    /\ UNCHANGED <<sessions, rows, active, refresher, watches, coverage, places, attribution,
                   restarted, steps>>

(***************************************************************************)
(* The refresh after each reconciliation.                                  *)
(***************************************************************************)
Candidates == {<<c, child[c].directory>> : c \in {k \in ToSet(created) : ~child[k].ended
                                                                        /\ child[k].directory # <<>>}}
SoleOwned == {q \in Candidates : \A r \in Candidates : r[2] = q[2] => r = q}

\* The query; one that finds what is there already has nothing to write.
QueryActive ==
    /\ refresher = {} /\ SoleOwned # active
    /\ refresher' = {SoleOwned}
    /\ UNCHANGED <<sessions, rows, records, active, turn, request, watches, coverage, places,
                   attribution, restarted, steps>>

WriteActive ==
    /\ refresher # {}
    /\ active' \in refresher
    /\ turn' = turn + 1
    /\ refresher' = {}
    /\ UNCHANGED <<sessions, rows, records, request, watches, coverage, places, attribution,
                   restarted, steps>>

\* The query fails or finds too many children.
RefreshFails ==
    /\ refresher = {} /\ coverage = "healthy" /\ Step
    /\ coverage' = "degraded"
    /\ UNCHANGED <<sessions, registry, watches, places, attribution, restarted>>

(***************************************************************************)
(* The supervisor.                                                         *)
(***************************************************************************)
NativeOrder(paths) == SelectSeq(Natives, LAMBDA p : p \in paths)

\* projected_paths: the registered ones first, each path once.
Projected ==
    LET durable == {r.path : r \in records}
    IN  NativeOrder(durable) \o NativeOrder({q[2] : q \in active} \ durable)

\* The directory under the path it was asked for by, and what is below it under its own.
Below(d) == NativeOrder({m \in disk : IsStrictPrefix(d, m)})
CandidatesAt(p) ==
    SelectSeq(<<[at |-> Resolve[p], native |-> p]>>
                  \o [i \in DOMAIN Below(Resolve[p]) |-> [at |-> Below(Resolve[p])[i],
                                                          native |-> Below(Resolve[p])[i]]],
              LAMBDA t : ~Excluded(t.at))
Wanted == FlattenSeq([i \in DOMAIN SelectSeq(Projected, Watchable)
                          |-> CandidatesAt(SelectSeq(Projected, Watchable)[i])])

\* The runtime roots, then what is below them, take their targets first.
RuntimeTargets == Min({runtimeDirs, TargetLimit})
Room == TargetLimit - RuntimeTargets

Target == [at : Mounted, native : NativePaths]
Targets == ToSet(SubSeq(Wanted, 1, Min({Len(Wanted), Room}))) \cap Target
Covered == /\ runtimeDirs <= TargetLimit /\ Len(Wanted) <= Room
           /\ \A i \in DOMAIN Projected : Watchable(Projected[i])

\* The loop compares the generation and the configuration with the applied ones.
NoteGeneration ==
    /\ builder.at = "idle" /\ (turn # applied \/ rebuild)
    /\ builder' = [at |-> "noted", noted |-> turn]
    /\ UNCHANGED <<sessions, registry, applied, rebuild, routes, runtimeDirs, coverage, places,
                   attribution, restarted, steps>>

\* Every watch is added anew; the backend may refuse some of them or be unavailable, a scan
\* may stop at its budget.
build_watcher_with_limit ==
    /\ builder.at = "noted"
    /\ builder' = [builder EXCEPT !.at = "built"]
    /\ rebuild' = FALSE
    /\ \/ Same /\ routes' = Targets /\ coverage' = IF Covered THEN "healthy" ELSE "degraded"
       \/ /\ Step /\ coverage' = "degraded"
          /\ routes' \in SUBSET Targets
    /\ UNCHANGED <<sessions, registry, applied, runtimeDirs, places, attribution, restarted>>

KeepNoted ==
    /\ builder.at = "built"
    /\ applied' = builder.noted
    /\ builder' = [at |-> "idle", noted |-> 0]
    /\ UNCHANGED <<sessions, registry, rebuild, routes, runtimeDirs, coverage, places,
                   attribution, restarted, steps>>

(***************************************************************************)
(* The file system and the configuration.                                  *)
(***************************************************************************)
Watched == {t.at : t \in routes}

\* What a signal of the watch on d reports: each of its targets' paths.
Report(d) == {[path |-> t.native, owners |-> OwnersNow(t.native), settled |-> TRUE] :
                  t \in {r \in routes : r.at = d}}

\* A file changes in a directory.
Touch(d) ==
    /\ d \in disk /\ d \in Watched /\ Step
    /\ queued' = Append(queued, Report(d))
    /\ UNCHANGED <<sessions, registry, watches, coverage, places, task, restarted>>

\* A directory appears or goes: a topology change if its parent is watched.
Alter(d) ==
    /\ Len(d) > 1 /\ Step
    /\ disk' = IF d \in disk THEN disk \ {d} ELSE disk \cup {d}
    /\ IF Front(d) \in Watched
       THEN rebuild' = TRUE /\ queued' = Append(queued, Report(Front(d)))
       ELSE UNCHANGED <<rebuild, queued>>
    /\ UNCHANGED <<sessions, registry, applied, builder, routes, runtimeDirs, coverage, exclusions,
                   task, restarted>>

\* A directory appears below a runtime root.
GrowRuntime ==
    /\ runtimeDirs < MaxRuntimeDirs /\ Step
    /\ runtimeDirs' = runtimeDirs + 1
    /\ rebuild' = TRUE
    /\ UNCHANGED <<sessions, registry, applied, builder, routes, coverage, places, attribution,
                   restarted>>

Reload(excluded) ==
    /\ excluded # exclusions /\ Step
    /\ exclusions' = excluded
    /\ rebuild' = TRUE
    /\ UNCHANGED <<sessions, registry, applied, builder, routes, runtimeDirs, coverage, disk,
                   attribution, restarted>>

(***************************************************************************)
(* Attribution.                                                            *)
(***************************************************************************)
\* sessions_by_kind: the oldest children, up to the limit.
LoadSessions ==
    /\ task.at = "idle" /\ queued # <<>>
    /\ task' = [NoTask EXCEPT !.at = "sessions", !.batch = Head(queued),
                    !.known = ToSet(SubSeq(created, 1, Min({Len(created), MaxChildSessions})))]
    /\ queued' = Tail(queued)
    /\ UNCHANGED <<sessions, registry, watches, coverage, places, restarted, steps>>

LoadRegistered ==
    /\ task.at = "sessions"
    /\ task' = [task EXCEPT !.at = "registered", !.claims = rows]
    /\ UNCHANGED <<sessions, registry, watches, coverage, places, queued, restarted, steps>>

\* One owner is credited; several, or none, leave the change neutral.
attribute(owners) == IF Cardinality(owners) = 1 THEN owners ELSE {}

\* load_owners, then every path of the batch.
Attribute ==
    /\ task.at = "registered"
    /\ LET claims == ClaimsOf(task.known, task.claims)
       IN  task' = [task EXCEPT !.at = "apply",
                        !.todo = UNION {attribute(OwnersOf(claims, c.path)) : c \in task.batch}]
    /\ UNCHANGED <<sessions, registry, watches, coverage, places, queued, restarted, steps>>

\* Ownership cannot be loaded: the batch is given up.
LoadFails ==
    /\ task.at \in {"sessions", "registered"} /\ Step
    /\ task' = NoTask
    /\ coverage' = "degraded"
    /\ UNCHANGED <<sessions, registry, watches, places, queued, restarted>>

\* One observation per child; a refused one degrades the watcher when the batch is done.
\* Its key is the child, the monotonic time and the index: after a restart it may be that of
\* an earlier observation, which is then a duplicate and refreshes nothing.
Ingest(c) ==
    /\ task.at = "apply" /\ c \in task.todo
    /\ \/ /\ Same /\ UNCHANGED coverage
          /\ task' = [task EXCEPT !.todo = @ \ {c}, !.done = @ \cup {c}]
       \/ /\ Step /\ coverage' = "degraded"
          /\ task' = [task EXCEPT !.todo = @ \ {c}]
       \/ /\ restarted /\ Step /\ UNCHANGED coverage
          /\ task' = [task EXCEPT !.todo = @ \ {c}]
    /\ UNCHANGED <<sessions, registry, watches, places, queued, restarted>>

FinishBatch ==
    /\ task.at = "apply" /\ task.todo = {}
    /\ task' = NoTask
    /\ UNCHANGED <<sessions, registry, watches, coverage, places, queued, restarted, steps>>

\* The process stops anywhere; the next one loads the registry and builds the watches.
WorktreeRestart ==
    /\ Step
    /\ records' = rows /\ active' = {} /\ turn' = 1
    /\ applied' = 0 /\ builder' = Starting /\ rebuild' = FALSE /\ routes' = {}
    /\ request' = NoRequest /\ refresher' = {} /\ queued' = <<>> /\ task' = NoTask
    /\ restarted' = TRUE /\ coverage' = "healthy"
    /\ UNCHANGED <<sessions, rows, places, runtimeDirs>>

WorktreeNext ==
    \/ \E c \in Children : Discover(c) \/ End(c) \/ Ingest(c)
    \/ \E c \in Children, p \in NativePaths : SaveMetadata(c, p)
    \/ \E c \in Children, p \in NativePaths, k \in Keys : register(c, p, k)
    \/ SaveRow \/ InsertRecord
    \/ QueryActive \/ WriteActive \/ RefreshFails
    \/ NoteGeneration \/ build_watcher_with_limit \/ KeepNoted
    \/ \E d \in Mounted : Touch(d) \/ Alter(d)
    \/ GrowRuntime
    \/ \E excluded \in {{}} \cup {{d} : d \in Mounted} : Reload(excluded)
    \/ LoadSessions \/ LoadRegistered \/ Attribute \/ LoadFails \/ FinishBatch
    \/ WorktreeRestart

WorktreeSpec == WorktreeInit /\ [][WorktreeNext]_worktreeVars

(***************************************************************************)
(* Properties.                                                             *)
(***************************************************************************)
\* Every variable keeps its shape, and the registries and the watches their limits.
WorktreeTypeOK ==
    /\ ToSet(created) \subseteq Children
    /\ child \in [Children -> [ended : BOOLEAN, directory : NativePaths \cup {<<>>}]]
    /\ records \subseteq rows /\ Cardinality(rows) <= MaxRegistered
    /\ \A q, r \in rows : q.key = r.key => q = r
    /\ Cardinality(routes) < TargetLimit
    /\ coverage \in {"healthy", "degraded"} /\ applied <= turn
    /\ task.todo \subseteq Children /\ disk \subseteq Mounted

\* A registration survives every restart, and nothing is registered that is not stored:
\* outside the one request between its row and its record the two agree.
RegistryMatchesStore == request.at # "insert" => records = rows

\* FR-EVD-012 and OPERATIONS: exact, uniquely owned active worktrees and registered paths
\* are watched, and one that could not be within bounds is a degraded watcher.  However
\* registrations, refreshes, reloads and builds interleave, once nothing is left to apply a
\* healthy watcher covers every registered path and the worktree of every sole active child.
NoSilentGap ==
    /\ coverage = "healthy" /\ request.at # "insert" /\ refresher = {} /\ SoleOwned = active
    /\ builder.at = "idle" /\ turn = applied /\ ~rebuild
    => {r.path : r \in rows} \cup {q[2] : q \in SoleOwned} \subseteq {t.native : t \in routes}

\* FR-EVD-006: "worktree activity must not refresh any child clock" without attribution.
\* A child about to be credited was the only owner of a worktree when a change happened in
\* it, unless a worktree was claimed since: the three reads agree with one state.
SharedStaysNeutral ==
    task.at = "apply" =>
        \A c \in task.todo : \E change \in task.batch : change.settled => change.owners = {c}

\* FR-EVD-005: a change in a worktree with one owner is that child's activity.
OwnerCredited ==
    [][task.at = "registered" /\ task'.at = "apply" =>
        \A change \in task.batch : change.settled /\ Cardinality(change.owners) = 1
            => change.owners \subseteq task'.todo]_worktreeVars

\* T-EVD-007: "One child owns a worktree and a file changes. Its activity clock advances".
\* Attribution counts ended children, which the watches do not: a worktree an ended child
\* had before stays neutral.
ActiveOwnerCredited ==
    [][task.at = "registered" /\ task'.at = "apply" =>
        \A change \in task.batch, c \in Children :
            change.settled /\ {o \in change.owners : ~child[o].ended} = {c} => c \in task'.todo]_worktreeVars

\* ARCHITECTURE 8: with one child on a worktree, "any in-root change is attributable,
\* including changes in nested directories".  Below a worktree reached through a link the
\* nested directories are reported under their resolved names, which nobody owns.
NestedIsAttributable ==
    \A t \in routes : builder.at = "idle" /\ turn = applied /\ ~rebuild => OwnersNow(t.native) # {}

=============================================================================
