-------------------------- MODULE TranscriptAliases --------------------------
(***************************************************************************)
(* Which session a Claude transcript belongs to: ClaudeDiscovery's         *)
(* reconcile_transcript with its three memories.                           *)
(*                                                                         *)
(* A team member or lead may run in a wrapper whose transcript carries the *)
(* wrapper's own identifier.  The transcript is then credited to the       *)
(* session the team configuration names, when exactly one entry matches    *)
(* its title and directory.  The choice is kept in a cache by path, in a   *)
(* registry by identifier that every adapter shares, and in a durable      *)
(* alias row.  The wrapper may at any time register itself over MCP: the   *)
(* identity it asserts outranks what was inferred.                         *)
(***************************************************************************)
EXTENDS Integers, FiniteSets

CONSTANTS
    Wrapper,    \* the identifier the transcript carries
    Named,      \* leads and members named by team configurations
    Shapes,     \* the team configurations that may be seen
    MaxEdits,   \* bound: changes of the files, registrations, ends of sessions
    MaxLapses   \* bound: failed calls, evictions and restarts

Nobody == "nobody"
Identities == Named \cup {Wrapper}

\* ClaudeTeamTranscriptAlias: an entry whose directory (and title, for a member) match.
Entry(s, p) == [subject |-> s, parent |-> p]
Entries == [subject : Named, parent : Named \cup {Nobody}]

ASSUME AliasesAssumption ==
    /\ Wrapper \notin Named /\ Nobody \notin Identities
    /\ \A entries \in Shapes : entries \subseteq Entries /\ IsFiniteSet(entries)
    /\ MaxEdits \in Nat /\ MaxLapses \in Nat

VARIABLES
    shape,     \* the team configurations on disk
    headed,    \* the transcript's head with its title and directory is written
    held,      \* the root of each stored session
    over,      \* sessions whose outcome is established
    gated,     \* the wrapper's own session has its restart gate
    row,       \* the durable alias of the wrapper
    registry,  \* DiscoveryAliasRegistry: the targets it maps the wrapper to
    cached,    \* alias_cache: the entry chosen for the path
    read,      \* the transcript has a file cursor
    claim,     \* the wrapper's registration over MCP
    visit,     \* the pass in progress
    credited,  \* the sessions transcript records were applied to
    evidence,  \* the sessions a unique match has named so far
    spent      \* edits and lapses so far

aliasVars == <<shape, headed, held, over, gated, row, registry, cached, read, claim, visit,
               credited, evidence, spent>>
storedVars == <<held, over, gated, row>>

(***************************************************************************)
(* ClaudeTeamTranscriptAliases::resolve: the one matching member; else the *)
(* parent all the matching members share; else the one lead.               *)
(***************************************************************************)

Match(entries) ==
    LET members == {e \in entries : e.parent # Nobody}
        leads == entries \ members
        parents == {e.parent : e \in members}
    IN  IF Cardinality(members) = 1 THEN members
        ELSE IF Cardinality(parents) = 1 THEN {Entry(p, Nobody) : p \in parents}
        ELSE IF Cardinality(leads) = 1 THEN leads
        ELSE {}

\* The sessions the configurations name without a rival: the only member, the lead of all the
\* members, or the only lead where the members say nothing.
Justified(entries) ==
    {s \in Named :
        \/ \E e \in entries : e.subject = s /\ e.parent # Nobody
                              /\ \A f \in entries : f.parent # Nobody => f = e
        \/ \E e, f \in entries : e # f /\ e.parent = s
                              /\ \A g \in entries : g.parent \in {Nobody, s}
        \/ /\ Entry(s, Nobody) \in entries
           /\ \A e \in entries : e.parent = Nobody => e.subject = s
           /\ \A e \in entries : e.parent # Nobody =>
                 \E f \in entries : f.parent \notin {Nobody, e.parent}}

NoVisit == [at |-> "idle", teams |-> {}, todo |-> {}, subject |-> Nobody, parent |-> Nobody]

AliasInit ==
    /\ shape \in Shapes /\ headed \in BOOLEAN
    /\ held = [s \in Identities |-> Nobody] /\ over = {} /\ gated = FALSE
    /\ row = Nobody /\ registry = {} /\ cached = {} /\ read = FALSE
    /\ claim = "none" /\ visit = NoVisit /\ credited = {}
    /\ evidence = Justified(shape)
    /\ spent = [edits |-> 0, lapses |-> 0]

Edit == spent.edits < MaxEdits /\ spent' = [spent EXCEPT !.edits = @ + 1]
Lapse == spent.lapses < MaxLapses /\ spent' = [spent EXCEPT !.lapses = @ + 1]
NoLapse == spent' = spent

(***************************************************************************)
(* The files, and sessions that end.                                       *)
(***************************************************************************)
EditTeams ==
    /\ Edit
    /\ \/ shape' \in Shapes \ {shape} /\ headed' = headed
       \/ ~headed /\ headed' = TRUE /\ shape' = shape
    /\ evidence' = evidence \cup Justified(shape')
    /\ UNCHANGED <<storedVars, registry, cached, read, claim, visit, credited>>

SessionEnds(s) ==
    /\ Edit
    /\ held[s] # Nobody /\ over' = over \cup {s}
    /\ UNCHANGED <<shape, headed, held, gated, row, registry, cached, read, claim, visit, credited,
                   evidence>>

(***************************************************************************)
(* The store.                                                              *)
(***************************************************************************)

\* discovery_alias_unlocked: the exact identity outranks the inferred one.
Resolution == IF held[Wrapper] # Nobody THEN Wrapper ELSE row

\* alias_target_accepts_registration.
AcceptsMain(s) == held[s] = s /\ s \notin over

StaleRow == Resolution \notin {Nobody, Wrapper} /\ ~AcceptsMain(Resolution)

(***************************************************************************)
(* The wrapper registers itself: the alias lease ends before its session   *)
(* is stored.                                                              *)
(***************************************************************************)
ClaimLease ==
    /\ Edit
    /\ claim = "none" /\ held[Wrapper] = Nobody
    /\ claim' = IF Resolution = Nobody \/ StaleRow THEN "own" ELSE "none"
    /\ row' = IF StaleRow THEN Nobody ELSE row
    /\ UNCHANGED <<shape, headed, held, over, gated, registry, cached, read, visit, credited, evidence>>

ClaimCommit ==
    /\ claim = "own" /\ claim' = "none"
    /\ held' = [held EXCEPT ![Wrapper] = IF @ = Nobody THEN Wrapper ELSE @]
    /\ UNCHANGED <<shape, headed, over, gated, row, registry, cached, read, visit, credited, evidence,
                   spent>>

(***************************************************************************)
(* The pass.                                                               *)
(***************************************************************************)

\* DiscoveryAliasRegistry::bind: a second target makes the alias ambiguous for good.
BindAlias(s) == registry' = registry \cup {s}

\* hydrate_native_aliases; a failure costs a warning.
Hydrate ==
    /\ visit.at = "idle"
    /\ visit' = [visit EXCEPT !.at = "teams"]
    /\ \/ /\ NoLapse
          /\ IF row = Nobody THEN registry' = registry ELSE BindAlias(Resolution)
       \/ Lapse /\ registry' = registry
    /\ UNCHANGED <<shape, headed, storedVars, cached, read, claim, credited, evidence>>

\* One lead per configuration.
Leads(entries) == {e.subject : e \in {f \in entries : f.parent = Nobody}}
                    \cup ({e.parent : e \in entries} \ {Nobody})

\* The pass moves on to the transcript when every configuration has been reconciled.
AfterTeams(left) == IF left = {} THEN "prepare" ELSE "team"

\* The configurations are collected for the aliases.
CollectTeams ==
    /\ visit.at = "teams"
    /\ visit' = [visit EXCEPT !.at = AfterTeams(Leads(shape)), !.teams = shape, !.todo = Leads(shape)]
    /\ UNCHANGED <<shape, headed, storedVars, registry, cached, read, claim, credited, evidence, spent>>

\* reconcile_team: the lead as a main, unless it is held as a child, then its members below it.
ReconcileTeam(lead) ==
    /\ visit.at = "team" /\ lead \in visit.todo
    /\ visit' = [visit EXCEPT !.at = AfterTeams(visit.todo \ {lead}), !.todo = @ \ {lead}]
    /\ \/ /\ NoLapse
          /\ held' = [s \in Identities |->
                        IF held[s] # Nobody \/ held[lead] \notin {Nobody, lead} THEN held[s]
                        ELSE IF s = lead \/ Entry(s, lead) \in visit.teams THEN lead ELSE Nobody]
       \/ Lapse /\ held' = held
    /\ UNCHANGED <<shape, headed, over, gated, row, registry, cached, read, claim, credited, evidence>>

\* prepare_transcript_candidate reads the head of the transcript when it has no cursor, or to
\* look for an alias while the wrapper's own session is absent or gated.
Bootstrapped ==
    /\ headed
    /\ ~read \/ (cached = {} /\ visit.teams # {} /\ (held[Wrapper] = Nobody \/ gated))

\* A plausible slip: the session the registry names is taken for a main.
RegistryNamesMains(s) == Entry(s, Nobody)

\* The stored session the registry names, with its selected parent.
StoredEntry(s) == Entry(s, IF held[s] = s THEN Nobody ELSE held[s])

\* bind_team_alias, or the identity of the path.
Candidates ==
    LET matched == IF Bootstrapped THEN Match(visit.teams) ELSE {}
    IN  IF cached # {} THEN cached
        ELSE IF Cardinality(registry) = 1
             THEN {StoredEntry(s) : s \in registry}
        ELSE IF matched # {} THEN matched
        ELSE {Entry(Wrapper, Nobody)}

\* prepare_transcript_candidate: the cache, the registry, the team configurations, the path.
Prepare ==
    /\ visit.at = "prepare"
    /\ \E e \in Candidates :
          visit' = [visit EXCEPT !.at = "register", !.subject = e.subject, !.parent = e.parent]
    /\ cached' = IF Cardinality(registry) = 1 \/ ~Bootstrapped \/ cached # {} THEN cached
                 ELSE Match(visit.teams)
    /\ UNCHANGED <<shape, headed, storedVars, registry, read, claim, credited, evidence, spent>>

\* ensure_native_parent: the parent to register first.
MissingParent(p) == IF p # Nobody /\ held[p] = Nobody THEN p ELSE Nobody

\* ensure_transcript_parent and discover_session: a parent not held is registered as a main;
\* a subject held under another root is refused; the wrapper itself may be redirected.
RegisterCandidate ==
    LET s == visit.subject
        p == visit.parent
        parent == MissingParent(p)
        root == IF p = Nobody THEN s ELSE IF held[p] = Nobody THEN p ELSE held[p]
        redirected == s = Wrapper /\ Resolution \notin {Nobody, Wrapper} /\ ~StaleRow
        refused == held[s] \notin {Nobody, root}
    IN  /\ visit.at = "register"
        /\ row' = IF s = Wrapper /\ StaleRow THEN Nobody ELSE row
        /\ held' = [x \in Identities |->
                      IF x = parent THEN x
                      ELSE IF x = s /\ held[s] = Nobody /\ ~redirected THEN root
                      ELSE held[x]]
        /\ visit' = IF refused THEN NoVisit
                    ELSE [visit EXCEPT !.at = IF s = Wrapper THEN "tail" ELSE "save"]
        /\ UNCHANGED <<shape, headed, over, gated, registry, cached, read, claim, credited, evidence, spent>>

\* persist_transcript_alias: save_discovery_alias.
SaveAlias ==
    /\ visit.at = "save"
    /\ \/ NoLapse /\ row' = visit.subject /\ visit' = [visit EXCEPT !.at = "bind"]
       \/ Lapse /\ row' = row /\ visit' = [visit EXCEPT !.at = "tail"]
    /\ UNCHANGED <<shape, headed, held, over, gated, registry, cached, read, claim, credited, evidence>>

\* persist_transcript_alias: the registry takes what a lease of the alias still says.
BindSaved ==
    /\ visit.at = "bind"
    /\ visit' = [visit EXCEPT !.at = "tail"]
    /\ IF Resolution = visit.subject THEN BindAlias(visit.subject) ELSE registry' = registry
    /\ UNCHANGED <<shape, headed, storedVars, cached, read, claim, credited, evidence, spent>>

\* reconcile_transcript_cursor: records of a session that is not stored are refused.
TailCandidate ==
    LET known == held[visit.subject] # Nobody
    IN  /\ visit.at = "tail"
        /\ visit' = NoVisit
        /\ credited' = IF known THEN credited \cup {visit.subject} ELSE credited
        /\ read' = (read \/ known)
        /\ gated' = (gated /\ visit.subject # Wrapper)
        /\ UNCHANGED <<shape, headed, held, over, row, registry, cached, claim, evidence, spent>>

\* Another alias or path takes the place; an ambiguous alias is not evicted.
Evict ==
    /\ Lapse
    /\ \/ Cardinality(registry) = 1 /\ registry' = {} /\ cached' = cached
       \/ cached # {} /\ cached' = {} /\ registry' = registry
    /\ UNCHANGED <<shape, headed, storedVars, read, claim, visit, credited, evidence>>

RestartAliases ==
    /\ Lapse
    /\ registry' = {} /\ cached' = {} /\ visit' = NoVisit /\ claim' = "none"
    /\ gated' = (held[Wrapper] # Nobody /\ Wrapper \notin over)
    /\ UNCHANGED <<shape, headed, held, over, row, read, credited, evidence>>

PassStep ==
    \/ Hydrate \/ CollectTeams \/ \E s \in Named : ReconcileTeam(s)
    \/ Prepare \/ RegisterCandidate \/ SaveAlias \/ BindSaved \/ TailCandidate

AliasNext ==
    \/ EditTeams \/ ClaimLease \/ ClaimCommit \/ PassStep \/ Evict \/ RestartAliases
    \/ \E s \in Identities : SessionEnds(s)

\* Watch events and the recovery interval start passes; a pass runs to its end.
AliasSpec == AliasInit /\ [][AliasNext]_aliasVars /\ WF_aliasVars(PassStep)

(***************************************************************************)
(* Properties.                                                             *)
(***************************************************************************)

\* Every variable keeps its shape, a session's root is itself stored as a main, and the
\* registry, the row and the credits name stored sessions.
AliasTypeOK ==
    /\ visit.at \in {"idle", "teams", "team", "prepare", "register", "save", "bind", "tail"}
    /\ \A s \in Identities : held[s] # Nobody => held[held[s]] = held[s]
    /\ \A s \in registry \cup credited \cup ({row} \ {Nobody}) : held[s] # Nobody

\* Records are credited only to the identity the transcript carries or to a session that some
\* configuration named uniquely, whatever cache the choice came through.
CreditNeedsEvidence == credited \subseteq evidence \cup {Wrapper}

\* Once the wrapper has registered itself, nothing newly maps it to another session.
ExactIdentityOutranks ==
    [][held[Wrapper] # Nobody => registry' \ registry \subseteq {Wrapper}]_aliasVars

\* The transcript goes on being read, under whichever identity, whatever was evicted or lost
\* in a restart, unless its identifier has become ambiguous in this process.
TailingGoesOn == []<>(Cardinality(registry) > 1 \/ (visit.at = "tail" /\ held[visit.subject] # Nobody))

=============================================================================
