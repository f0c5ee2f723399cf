------------------------------ MODULE Registration ------------------------------
(***************************************************************************)
(* Registration and scope: ScopeRegistry and ScopeGuard, the registrations *)
(* of agents (register_session) and of discovery (discover_session), the   *)
(* discovery aliases of watchdog-store, and the calls that scope protects. *)
(*                                                                         *)
(* Every await of a handler is a step of its request.  A registration      *)
(* reserves the binding of its transport before it persists and commits it *)
(* after; the transport may be closed, and reused, in between.  SessionId  *)
(* is a function of the native identity, so a session is named by it.      *)
(***************************************************************************)
EXTENDS TransportSessions

CONSTANTS
    Mains, Children,  \* native identities, by the role they register with
    Requests,         \* requests that may be in progress at once
    MaxGenerations,   \* bound: generations ScopeRegistry hands out
    MaxRequests       \* bound: requests begun

ASSUME RegistrationAssumption ==
    /\ Mains \cap Children = {}
    /\ MaxGenerations \in Nat /\ MaxRequests \in Nat

VARIABLES
    roots,      \* ScopeRegistry.roots
    generation, \* ScopeRegistry.next_generation
    sessions,   \* the sessions table
    lanes,      \* the record each in-memory lane was built for
    finished,   \* sessions whose outcome is established
    selected,   \* the selected, still valid relation of each child
    aliases,    \* discovery_aliases
    lease,      \* the request that holds discovery_alias_lock
    request,    \* what each request is doing
    requests    \* requests begun so far

scopeVars == <<roots, generation>>
storeVars == <<sessions, lanes, finished, selected, aliases>>
vars == <<sessionVars, scopeVars, storeVars, lease, request, requests>>

Natives == Mains \cup Children

\* discovery_transport: one key for each root, never released while the server runs.
discovery_transport(root) == <<"autodiscovery", root>>
Keys == Transports \cup {discovery_transport(n) : n \in Mains}

None == Nobody

\* StoredSessionRecord; the record of a main session is its own root.
Record == [kind : {"main", "child"}, root : Mains]
MainRecord(n) == [kind |-> "main", root |-> n]
ChildRecord(root) == [kind |-> "child", root |-> root]

Binding == [root : Mains, generation : Nat, pending : Nat, committed : BOOLEAN]

\* An absent value is no value.
ASSUME AbsentAssumption == None \notin Natives \cup Record \cup Binding

Request == [at : {"idle", "lease", "redirect", "own", "parent",
                  "check", "apply", "persist", "relate", "target", "complete"},
            op : {"main", "child", "delegate", "complete"},
            key : Keys \cup {None}, native : Natives \cup {None},
            parent : Natives \cup {None}, root : Mains \cup {None},
            target : Natives \cup {None}, generation : Nat]

NoRequest == [at |-> "idle", op |-> "main", key |-> None, native |-> None,
              parent |-> None, root |-> None, target |-> None, generation |-> 0]

TypeOK ==
    /\ SessionTypeOK
    /\ roots \in [Keys -> Binding \cup {None}]
    /\ generation \in 0 .. MaxGenerations
    /\ sessions \in [Natives -> Record \cup {None}]
    /\ lanes \in [Natives -> Record \cup {None}]
    /\ finished \subseteq Natives
    /\ selected \in [Children -> Natives \cup {None}]
    /\ aliases \in [Natives -> Mains \cup {None}]
    /\ lease \in Requests \cup {Nobody}
    /\ request \in [Requests -> Request]
    /\ requests \in 0 .. MaxRequests

\* The server starts over a store that may hold main sessions already.
Init ==
    /\ SessionInit
    /\ roots = [key \in Keys |-> None]
    /\ generation = 0
    /\ \E stored \in SUBSET Mains :
          sessions = [n \in Natives |-> IF n \in stored THEN MainRecord(n) ELSE None]
    /\ lanes = [n \in Natives |-> None]
    /\ finished = {}
    /\ selected = [n \in Children |-> None]
    /\ aliases = [n \in Natives |-> None]
    /\ lease = Nobody
    /\ request = [r \in Requests |-> NoRequest]
    /\ requests = 0

-----------------------------------------------------------------------------
(* ScopeRegistry.                                                           *)

Bound(key) == roots[key] # None

\* next_generation, and the binding a fresh key gets.
Fresh(key, root, pending, committed) ==
    /\ generation < MaxGenerations
    /\ generation' = generation + 1
    /\ roots' = [roots EXCEPT ![key] = [root |-> root, generation |-> generation,
                                        pending |-> pending, committed |-> committed]]

\* bind_committed.
BindCommitted(key, root) ==
    \/ ~Bound(key) /\ Fresh(key, root, 0, TRUE)
    \/ /\ Bound(key) /\ roots[key].root = root
       /\ roots' = [roots EXCEPT ![key].committed = TRUE]
       /\ UNCHANGED generation

\* begin_registration.
BeginRegistration(key, root) ==
    \/ ~Bound(key) /\ Fresh(key, root, 1, FALSE)
    \/ /\ Bound(key) /\ roots[key].root = root
       /\ roots' = [roots EXCEPT ![key].pending = @ + 1]
       /\ UNCHANGED generation

\* TransportAlreadyBound, TransportBindingCapacityExhausted.
BindRefused(key, root) ==
    \/ Bound(key) /\ roots[key].root # root
    \/ ~Bound(key) /\ generation = MaxGenerations

\* The guard of request r is for the binding the key has now.
Current(r) ==
    LET q == request[r]
    IN  Bound(q.key) /\ roots[q.key].root = q.root
                     /\ roots[q.key].generation = q.generation

\* commit_registration: TransportNotBound when the binding was released.
CommitRegistration(r) ==
    IF Current(r) /\ roots[request[r].key].pending > 0
    THEN roots' = [roots EXCEPT ![request[r].key].pending = @ - 1,
                                ![request[r].key].committed = TRUE]
    ELSE UNCHANGED roots

\* rollback_registration, when the guard is dropped.
RollbackRegistration(r) ==
    LET key == request[r].key
        left == [roots[key] EXCEPT !.pending = IF @ > 0 THEN @ - 1 ELSE 0]
    IN  IF ~Current(r) THEN UNCHANGED roots
        ELSE roots' = [roots EXCEPT ![key] =
                          IF left.pending = 0 /\ ~left.committed THEN None ELSE left]

\* ScopeRegistry::root: only a committed binding answers.
ScopeRoot(key) == IF Bound(key) /\ roots[key].committed THEN roots[key].root ELSE None

-----------------------------------------------------------------------------
(* Requests.                                                                *)

Move(r, at) == request' = [request EXCEPT ![r].at = at]
Finish(r) == request' = [request EXCEPT ![r] = NoRequest]
Unlease(r) == lease' = IF lease = r THEN Nobody ELSE lease

\* A request of a client needs its live transport; discovery acts under the key of
\* the root it names.
Arrives(r, key) ==
    /\ request[r].at = "idle"
    /\ key \in Transports => key \in live
    /\ requests < MaxRequests
    /\ requests' = requests + 1
    /\ UNCHANGED <<sessionVars, scopeVars, storeVars, lease>>

\* register_session and discover_session of a main session.
RegisterMain(r, key, n) ==
    /\ key \in Transports \/ key = discovery_transport(n)
    /\ Arrives(r, key)
    /\ request' = [request EXCEPT ![r] = [NoRequest EXCEPT
                     !.at = "lease", !.op = "main", !.key = key, !.native = n, !.root = n]]

\* register_session and discover_session of a child: discovery first looks up the
\* root of the parent it names.
RegisterChild(r, key, n, parent) ==
    /\ \/ key \in Transports
       \/ sessions[parent] # None /\ key = discovery_transport(sessions[parent].root)
    /\ Arrives(r, key)
    /\ request' = [request EXCEPT ![r] = [NoRequest EXCEPT
                     !.at = "parent", !.op = "child", !.key = key, !.native = n,
                     !.parent = parent]]

\* register_delegation, complete_session: the calls of a scope that change what
\* is modelled here.
ScopedCall(r, key, op, n, parent) ==
    /\ key \in Transports
    /\ Arrives(r, key)
    /\ request' = [request EXCEPT ![r] =
          IF ScopeRoot(key) = None THEN NoRequest
          ELSE [NoRequest EXCEPT !.at = "target", !.op = op, !.key = key, !.native = n,
                                 !.parent = parent, !.root = ScopeRoot(key)]]

\* alias_target_accepts_registration.
Accepts(n) ==
    /\ sessions[n] = MainRecord(n)
    /\ n \notin finished

\* discovery_alias_unlocked: an exactly stored identity hides the alias.
AliasTarget(n) == IF sessions[n] # None THEN n ELSE aliases[n]

\* forget_discovery_alias.
Forget(n) == [aliases EXCEPT ![n] = None]

\* lease_discovery_alias: an alias whose target cannot adopt the caller is forgotten.
LeaseAlias(r) ==
    LET n == request[r].native
        target == AliasTarget(n)
        stale == target \notin {None, n} /\ ~Accepts(target)
    IN  /\ request[r].at = "lease"
        /\ lease = Nobody
        /\ lease' = r
        /\ request' = [request EXCEPT ![r].target = target, ![r].at =
                          IF target = None \/ stale THEN "own" ELSE "redirect"]
        /\ aliases' = IF stale THEN Forget(n) ELSE aliases
        /\ UNCHANGED <<sessionVars, scopeVars, sessions, lanes, finished, selected>>

\* bind_main_record, then the lease ends.
Redirect(r) ==
    LET q == request[r]
        target == sessions[q.target]
    IN  /\ q.at = "redirect"
        /\ Unlease(r)
        /\ \/ /\ target = MainRecord(q.target)
              /\ BindCommitted(q.key, target.root)
              /\ request' = [request EXCEPT ![r].at = "apply", ![r].native = q.target,
                                            ![r].root = target.root]
           \/ /\ target = MainRecord(q.target) => BindRefused(q.key, target.root)
              /\ Finish(r)
              /\ UNCHANGED scopeVars
        /\ UNCHANGED <<sessionVars, storeVars>>

\* reject_conflicting_identity and ScopeGuard::bind, then the lease ends.
Reserve(r) ==
    LET q == request[r]
        record == IF q.op = "main" THEN MainRecord(q.native) ELSE ChildRecord(q.root)
        conflict == sessions[q.native] \notin {None, record}
    IN  /\ q.at \in {"own", "check"}
        /\ Unlease(r)
        /\ \/ /\ ~conflict
              /\ BeginRegistration(q.key, q.root)
              /\ request' = [request EXCEPT ![r].at = "persist", ![r].generation =
                    IF Bound(q.key) THEN roots[q.key].generation ELSE generation]
           \/ /\ conflict \/ BindRefused(q.key, q.root)
              /\ Finish(r)
              /\ UNCHANGED scopeVars
        /\ UNCHANGED <<sessionVars, storeVars>>

\* resolve_child_parent: the parent by its identity, then the scope of the caller.
ResolveParent(r) ==
    LET q == request[r]
        parent == sessions[q.parent]
    IN  /\ q.at = "parent"
        /\ IF parent # None /\ ScopeRoot(q.key) \in {None, parent.root}
           THEN request' = [request EXCEPT ![r].at = "check", ![r].root = parent.root]
           ELSE Finish(r)
        /\ UNCHANGED <<sessionVars, scopeVars, storeVars, lease>>

StoredAsAsked(n, record) ==
    /\ lanes' = [lanes EXCEPT ![n] = record]
    /\ sessions' = [sessions EXCEPT ![n] = record]
    /\ UNCHANGED <<finished, selected, aliases>>

\* apply_observation: the first observation builds the lane and its coordinator
\* stores the session the lane was built for, whichever request it serves.
Applied(n, record) ==
    /\ lanes' = [lanes EXCEPT ![n] = IF @ # None THEN @
                                      ELSE IF sessions[n] # None THEN sessions[n] ELSE record]
    /\ sessions' = [sessions EXCEPT ![n] = lanes'[n]]
    /\ UNCHANGED <<finished, selected, aliases>>

\* The registration observation of a redirected or repeated main registration.
Apply(r) ==
    /\ request[r].at = "apply"
    /\ Finish(r)
    /\ Applied(request[r].native, MainRecord(request[r].root))
    /\ UNCHANGED <<sessionVars, scopeVars, lease>>

\* commit_registration of AgentApi: a main session is committed at once, a child
\* after its relation.
Persist(r) ==
    LET q == request[r]
    IN  /\ q.at = "persist"
        /\ Applied(q.native, IF q.op = "main" THEN MainRecord(q.native)
                                              ELSE ChildRecord(q.root))
        /\ IF q.op = "main" THEN CommitRegistration(r) /\ Finish(r)
           ELSE Move(r, "relate") /\ UNCHANGED roots
        /\ UNCHANGED <<sessionVars, generation, lease>>

\* select_relation: the newest assertion is the selected one.
Select(n, parent) == [selected EXCEPT ![n] = parent]

\* save_relation.
Relate(r) ==
    LET q == request[r]
    IN  /\ q.at = "relate"
        /\ selected' = Select(q.native, q.parent)
        /\ IF q.op = "child" THEN CommitRegistration(r) ELSE UNCHANGED roots
        /\ Finish(r)
        /\ UNCHANGED <<sessionVars, generation, sessions, lanes, finished, aliases, lease>>

\* An observation or a relation the store or a full queue refuses; a guard rolls
\* its registration back.
Refused(r) ==
    LET q == request[r]
        record == IF q.op = "main" THEN MainRecord(q.root) ELSE ChildRecord(q.root)
    IN  /\ q.at \in {"apply", "persist", "relate", "complete"}
        /\ IF q.at = "persist" \/ (q.at = "relate" /\ q.op = "child")
           THEN RollbackRegistration(r) ELSE UNCHANGED roots
        /\ lanes' = [lanes EXCEPT ![q.native] =
              IF q.at = "relate" \/ @ # None THEN @
              ELSE IF sessions[q.native] # None THEN sessions[q.native] ELSE record]
        /\ Finish(r)
        /\ UNCHANGED <<sessionVars, generation, sessions, finished, selected, aliases, lease>>

\* resolve_scoped of the sessions a call names.
ResolveScoped(r) ==
    LET q == request[r]
        InScope(n) == sessions[n] # None /\ sessions[n].root = q.root
    IN  /\ q.at = "target"
        /\ IF InScope(q.native) /\ (q.op = "delegate" => InScope(q.parent)
                                       /\ sessions[q.native].kind = "child")
           THEN Move(r, IF q.op = "delegate" THEN "relate" ELSE "complete")
           ELSE Finish(r)
        /\ UNCHANGED <<sessionVars, scopeVars, storeVars, lease>>

\* complete_session.
Complete(r) ==
    /\ request[r].at = "complete"
    /\ finished' = finished \cup {request[r].native}
    /\ lanes' = [lanes EXCEPT ![request[r].native] = sessions[request[r].native]]
    /\ Finish(r)
    /\ UNCHANGED <<sessionVars, scopeVars, sessions, selected, aliases, lease>>

-----------------------------------------------------------------------------
(* Others.                                                                  *)

\* save_discovery_alias: a newer correlation replaces an older one; one observed
\* earlier than the stored one changes nothing.
SaveAlias(n, canonical) ==
    /\ lease = Nobody
    /\ sessions[canonical] # None
    /\ aliases' = [aliases EXCEPT ![n] = canonical]
    /\ UNCHANGED <<sessionVars, scopeVars, sessions, lanes, finished, selected, lease, request, requests>>

\* The end of a close releases the scope of the transport that closed.
ReleaseScope(m) ==
    /\ EndClose(m)
    /\ roots' = [roots EXCEPT ![task[m].victim] = None]
    /\ UNCHANGED <<generation, storeVars, lease, request, requests>>

ManageSessions == SessionStep /\ UNCHANGED <<scopeVars, storeVars, lease, request, requests>>

RequestStep(r) ==
    \/ LeaseAlias(r) \/ Redirect(r) \/ Reserve(r) \/ ResolveParent(r)
    \/ Apply(r) \/ Persist(r) \/ Relate(r) \/ Refused(r) \/ ResolveScoped(r) \/ Complete(r)

Arrival(r) ==
    \E key \in Keys :
        \/ \E n \in Mains : RegisterMain(r, key, n)
        \/ \E n \in Children, parent \in Natives : RegisterChild(r, key, n, parent)
        \/ \E n \in Children, parent \in Natives : ScopedCall(r, key, "delegate", n, parent)
        \/ \E n \in Natives : ScopedCall(r, key, "complete", n, None)

Next ==
    \/ ManageSessions
    \/ \E m \in Managers : ReleaseScope(m)
    \/ \E r \in Requests : Arrival(r) \/ (RequestStep(r) /\ UNCHANGED requests)
    \/ \E n, canonical \in Mains : n # canonical /\ SaveAlias(n, canonical)

Spec == Init /\ [][Next]_vars

-----------------------------------------------------------------------------

Holding(r, key) ==
    /\ request[r].key = key
    /\ request[r].at = "persist" \/ (request[r].at = "relate" /\ request[r].op = "child")
    /\ roots[key].generation = request[r].generation

\* However registrations, closes and reuses of a transport interleave, a binding
\* counts exactly the guards that are still open on it, so it goes when the last
\* of them fails and not before, and a guard of an earlier life of the transport
\* counts for nothing (ScopeGuard, begin_registration, rollback_registration).
PendingIsGuards ==
    \A key \in Keys : Bound(key) =>
        /\ roots[key].pending = Cardinality({r \in Requests : Holding(r, key)})
        /\ roots[key].committed \/ roots[key].pending > 0

\* A transport whose registration succeeded keeps its scope until the transport
\* itself closes: no other registration that fails, finishes late or belongs to an
\* earlier life of the transport takes it away (rollback_registration, release).
ScopeLostByClose ==
    [][\A key \in Keys : ScopeRoot(key) # None /\ ScopeRoot(key)' = None =>
          \E m \in Managers : task[m].at \in {"evicted", "closed"} /\ task[m].victim = key]_vars

\* The trees of the store and the scope of a transport, as a client sees them.
Tree == [root \in Natives |->
            {n \in Natives : sessions[n] # None /\ sessions[n].root = root}]
Scope == [key \in Keys |-> ScopeRoot(key)]

Contract == INSTANCE ScopeContract WITH
    Sessions <- Natives, Unbound <- None, tree <- Tree, scope <- Scope

\* The registrations, aliases, evictions and restarts keep the contract of scopes.
ScopesKept == Contract!Spec

\* "Every child has one main-session root": the selected parent of a child is in
\* the child's own tree (register_session_with_provenance, select_relation).
ParentInTree ==
    \A n \in Children : selected[n] # None => sessions[selected[n]].root = sessions[n].root

\* "A native ID that already has its own stored session registers against that
\* session regardless of alias evidence" (register_session_with_provenance).
ExactIdentityWins ==
    \A r \in Requests : request[r].at = "redirect" /\ request[r].target # request[r].native
                            => sessions[request[r].native] = None

=============================================================================
