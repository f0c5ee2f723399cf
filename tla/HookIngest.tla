------------------------------ MODULE HookIngest -------------------------------
(***************************************************************************)
(* Official lifecycle hooks of Claude and Codex.  Each is one HTTP         *)
(* request: parse, make sure the parent main is known, make sure the       *)
(* subject is known, stamp the evidence, apply it.  Requests of one        *)
(* runtime run beside each other, may be sent again, and may fail between  *)
(* any two steps.                                                          *)
(*                                                                         *)
(* A session is its native identity; root[s] is the main of its tree once  *)
(* it is stored, so a main is its own root.  The session's snapshot is its *)
(* detailed state; "late" marks a request whose stamp is older than the    *)
(* last observation applied to its subject.                                *)
(***************************************************************************)
EXTENDS Integers, FiniteSets

CONSTANTS
    Natives,     \* native session identities
    Nobody,      \* no session
    Payloads,    \* request bodies: runtime, event, session, agent, text
    Calls,       \* requests that may be under way
    MaxMishaps,  \* bound: failures and restarts
    MaxRequests  \* bound: requests

ASSUME HookAssumption ==
    /\ Nobody \notin Natives
    /\ \A p \in Payloads :
          /\ p.session \in Natives
          /\ p.event \in {"SubagentStart", "SubagentStop"} => p.agent \in Natives

Outcomes == {"Completed", "Failed", "Cancelled", "Disappeared"}

VARIABLES
    root,       \* stored sessions
    state,      \* their detailed states
    alias,      \* discovery_aliases: the canonical main of an identity
    taken,      \* keys of the native states in the store
    registered, \* keys of the registrations in the store
    calls,      \* requests under way
    acked,      \* payloads answered with success
    requests,   \* counter of the bound
    mishaps     \* counter of the bound

hookVars == <<root, state, alias, taken, registered, calls, acked, requests, mishaps>>

NoCall == [at |-> "idle", payload |-> Nobody, parent |-> Nobody, late |-> FALSE, again |-> FALSE]

HookInit ==
    /\ root = [s \in Natives |-> Nobody] /\ state = [s \in Natives |-> "none"]
    /\ alias = [s \in Natives |-> Nobody]
    /\ taken = {} /\ registered = {}
    /\ calls = [c \in Calls |-> NoCall] /\ acked = {}
    /\ requests = 0 /\ mishaps = 0

(***************************************************************************)
(* The parsers.                                                            *)
(***************************************************************************)
\* The state of a session that ends depends on the reason.
session_end_state(reason) ==
    CASE reason \in {"clear", "resume"}             -> "Idle"
      [] reason = "bypass_permissions_disabled"     -> "Cancelled"
      [] OTHER                                      -> "Completed"

\* What both runtimes report.
SharedEvents == {"SessionStart", "SubagentStart", "SubagentStop", "Stop"}

\* ClaudeHookParser::parse_hook: the events, and the one notification, it accepts.
ClaudeAccepts(p) ==
    \/ p.event \in SharedEvents \cup {"StopFailure", "SessionEnd"}
    \/ p.event = "Notification" /\ p.text = "permission_prompt"

\* CodexHookParser::parse_hook.
CodexAccepts(p) == p.event \in SharedEvents

parse_hook(p) == IF p.runtime = "claude" THEN ClaudeAccepts(p) ELSE CodexAccepts(p)

OfAgent(p) == p.event \in {"SubagentStart", "SubagentStop"}
SubjectOf(p) == IF OfAgent(p) THEN p.agent ELSE p.session
Reported(p) ==
    CASE p.event = "SessionStart"  -> "Running"
      [] p.event = "SubagentStart" -> "Starting"
      [] p.event = "SubagentStop"  -> "Completed"
      [] p.event = "Stop"          -> "Idle"
      [] p.event = "StopFailure"   -> "Failed"
      [] p.event = "SessionEnd"    -> session_end_state(p.text)
      [] p.event = "Notification"  -> "WaitingForUser"

\* The UUID of the request bytes, per runtime.
EventKey(p) == p

\* The store holds an observation of this key.
Known(p) == EventKey(p) \in taken

(***************************************************************************)
(* One request after the other's step.                                     *)
(***************************************************************************)
Finish(c) == calls' = [calls EXCEPT ![c] = NoCall]

\* Another observation of the session is applied: what was stamped before it is older.
Overtake(c, s, next) ==
    calls' = [d \in Calls |->
                IF d = c THEN next
                ELSE IF calls[d].at = "apply" /\ SubjectOf(calls[d].payload) = s
                THEN [calls[d] EXCEPT !.late = TRUE]
                ELSE calls[d]]

Mishap == mishaps < MaxMishaps /\ mishaps' = mishaps + 1

\* A hook fires; what the parser refuses is answered at once.
Post(c, p) ==
    /\ calls[c].at = "idle" /\ requests < MaxRequests
    /\ parse_hook(p)
    /\ calls' = [calls EXCEPT ![c] = [NoCall EXCEPT !.at = IF OfAgent(p) THEN "parent" ELSE "subject",
                                                   !.payload = p, !.again = p \in acked]]
    /\ requests' = requests + 1
    /\ UNCHANGED <<root, state, alias, taken, registered, acked, mishaps>>

\* alias_target_accepts_registration: a stored main without an outcome.
Accepts(s) == root[s] = s /\ state[s] \notin Outcomes

\* A session stored under the identity itself outranks an alias.
Redirects(s) == root[s] = Nobody /\ alias[s] # Nobody
Canonical(s) == IF Redirects(s) /\ Accepts(alias[s]) THEN alias[s] ELSE s

\* The progress a registration reports, once per event key.
Progressed(s) ==
    IF state[s] = "none" THEN "Starting"
    ELSE IF state[s] \in {"WaitingForAgent", "WaitingForTool", "WaitingForUser", "Idle", "Stalled"}
    THEN "Running" ELSE state[s]

\* The session s is stored below r and the registration under key applied to it.
Register(c, s, r, key, next) ==
    /\ root' = [root EXCEPT ![s] = r]
    /\ IF key \in registered
       THEN UNCHANGED <<state, registered>> /\ calls' = [calls EXCEPT ![c] = next]
       ELSE /\ state' = [state EXCEPT ![s] = Progressed(s)]
            /\ registered' = registered \cup {key}
            /\ Overtake(c, s, next)

\* An alias whose target accepts nobody is discarded.
DropStaleAlias(s) ==
    alias' = IF Redirects(s) /\ ~Accepts(alias[s]) THEN [alias EXCEPT ![s] = Nobody] ELSE alias

\* discover_session for a main: redirected onto its canonical session, refused when the
\* identity is a child's.  The step after it may fail with the registration in place.
DiscoverMain(c, s, tag, next) ==
    /\ DropStaleAlias(s)
    /\ IF root[Canonical(s)] \in {Nobody, Canonical(s)}
       THEN \/ Register(c, Canonical(s), Canonical(s), <<tag, Canonical(s), s>>, next)
               /\ UNCHANGED mishaps
            \/ Register(c, Canonical(s), Canonical(s), <<tag, Canonical(s), s>>, NoCall) /\ Mishap
       ELSE Finish(c) /\ UNCHANGED <<root, state, registered, mishaps>>

\* The parent of the child is the session the registration returned.
ParentOf(s) == Canonical(s)

DiscoverParent(c) ==
    LET call == calls[c] IN
    /\ call.at = "parent"
    /\ DiscoverMain(c, call.payload.session, "parent",
                    [call EXCEPT !.at = "subject", !.parent = ParentOf(call.payload.session)])
    /\ UNCHANGED <<taken, acked, requests>>

\* The subject: a child below the tree of its parent, unless it is stored in another place.
DiscoverSubject(c) ==
    LET call == calls[c]
        s == SubjectOf(call.payload)
        next == [call EXCEPT !.at = "stamp"]
    IN  /\ call.at = "subject"
        /\ IF ~OfAgent(call.payload) THEN DiscoverMain(c, s, "session", next)
           ELSE /\ IF root[call.parent] # Nobody /\ root[s] \in {Nobody, root[call.parent]}
                   THEN \/ /\ Register(c, s, root[call.parent], <<"session", s, s>>, next)
                           /\ UNCHANGED mishaps
                        \/ /\ Register(c, s, root[call.parent], <<"session", s, s>>, NoCall)
                           /\ Mishap
                   ELSE Finish(c) /\ UNCHANGED <<root, state, registered, mishaps>>
                /\ UNCHANGED alias
        /\ UNCHANGED <<taken, acked, requests>>

\* The evidence is stamped again, after the registrations.
Stamp(c) ==
    /\ calls[c].at = "stamp"
    /\ calls' = [calls EXCEPT ![c].at = "apply"]
    /\ UNCHANGED <<root, state, alias, taken, registered, acked, requests, mishaps>>

\* A plausible slip: evidence the reducer ignores is answered like evidence it took.
AcknowledgeIgnored(c) ==
    LET call == calls[c] IN
    /\ call.at = "apply" /\ call.late
    /\ acked' = acked \cup {call.payload}
    /\ Finish(c)
    /\ UNCHANGED <<root, state, alias, taken, registered, requests, mishaps>>

\* Evidence older than the last observation changes nothing, and the store refuses the
\* revision it already holds: the sender is told to try again.
RefuseLate(c) ==
    LET call == calls[c] IN
    /\ call.at = "apply" /\ call.late
    /\ root[SubjectOf(call.payload)] # Nobody /\ ~Known(call.payload)
    /\ Finish(c)
    /\ UNCHANGED <<root, state, alias, taken, registered, acked, requests, mishaps>>

\* ingest_native_observation looks for the asserted identity: one that was redirected is not
\* stored.  A key that is stored already is answered without being applied again.
IngestState(c) ==
    LET call == calls[c]
        p == call.payload
        s == SubjectOf(p)
    IN  /\ call.at = "apply"
        /\ IF root[s] = Nobody
           THEN Finish(c) /\ UNCHANGED <<state, taken, acked, mishaps>>
           ELSE IF Known(p)
           THEN Finish(c) /\ acked' = acked \cup {p} /\ UNCHANGED <<state, taken, mishaps>>
           ELSE /\ ~call.late
                /\ taken' = taken \cup {EventKey(p)}
                /\ state' = [state EXCEPT ![s] = Reported(p)]
                /\ Overtake(c, s, NoCall)
                /\ \/ acked' = acked \cup {p} /\ UNCHANGED mishaps
                   \/ acked' = acked /\ Mishap  \* applied, and the answer is lost
        /\ UNCHANGED <<root, alias, registered, requests>>

\* The store fails, or the observation queue refuses: 503.
HookFails(c) ==
    /\ calls[c].at # "idle" /\ Mishap
    /\ Finish(c)
    /\ UNCHANGED <<root, state, alias, taken, registered, acked, requests>>

HookRestart ==
    /\ Mishap /\ calls # [c \in Calls |-> NoCall]
    /\ calls' = [c \in Calls |-> NoCall]
    /\ UNCHANGED <<root, state, alias, taken, registered, acked, requests>>

\* Discovery learns that an identity is another main's.
LearnAlias(s, m) ==
    /\ alias[s] = Nobody /\ root[s] = Nobody /\ s # m /\ Accepts(m)
    /\ alias' = [alias EXCEPT ![s] = m]
    /\ UNCHANGED <<root, state, taken, registered, calls, acked, requests, mishaps>>

HookNext ==
    \/ \E c \in Calls, p \in Payloads : Post(c, p)
    \/ \E c \in Calls : \/ DiscoverParent(c) \/ DiscoverSubject(c) \/ Stamp(c) \/ RefuseLate(c)
                        \/ IngestState(c) \/ HookFails(c)
    \/ HookRestart
    \/ \E s \in Natives, m \in Natives : LearnAlias(s, m)

HookSpec == HookInit /\ [][HookNext]_hookVars

(***************************************************************************)
(* Properties.                                                             *)
(***************************************************************************)
\* Every variable keeps its shape; a stored session has a state and a stored main above it.
HookTypeOK ==
    /\ \A s \in Natives : root[s] # Nobody => root[root[s]] = root[s] /\ state[s] # "none"
    /\ \A s \in Natives : root[s] = Nobody => state[s] = "none"
    /\ \A k \in taken : root[SubjectOf(k)] # Nobody
    /\ alias \in [Natives -> Natives \cup {Nobody}] /\ acked \subseteq Payloads
    /\ \A c \in Calls : calls[c].at \in {"idle", "parent", "subject", "stamp", "apply"}

\* ARCHITECTURE 6: the request bytes are "the stable retry identity".  A hook that was
\* answered with success is in the store, whatever overtook, failed or was restarted between
\* its steps: the sender need not repeat it.
AckedIsStored == \A p \in acked : EventKey(p) \in taken

\* A hook sent again after it was answered does not bring its state back and never touches a
\* session with an outcome, whatever hooks, registrations and aliases came in between.
RedeliveryIsIdle ==
    [][\A c \in Calls, s \in Natives :
           calls[c].again /\ calls'[c].at # calls[c].at /\ state'[s] # state[s]
               => calls[c].at # "apply" /\ state[s] \notin Outcomes]_hookVars

\* T-MCP-014: "The child registers against the canonical main, no parallel tree is created":
\* the parent a child is about to be registered under is stored, and one that was
\* redirected is not the identity the hook named.
ParentIsCanonical ==
    \A c \in Calls : calls[c].at = "subject" /\ OfAgent(calls[c].payload)
        => root[calls[c].parent] = calls[c].parent

\* ARCHITECTURE 11: "the reducer never revives a finished session".  A SubagentStart that is
\* stamped after the SubagentStop of the same agent was applied revives it.
FinishedStaysFinished ==
    [][\A s \in Natives : state[s] \in Outcomes => state'[s] \in Outcomes]_hookVars

\* FR-MCP-010: runtime evidence of a redirected identity is kept.  The state of a main whose
\* identity is an alias is refused, however often it is sent.
AliasedMainHeard ==
    [][\A c \in Calls : calls[c].at = "apply" /\ calls'[c].at = "idle" /\ mishaps' = mishaps
           /\ ~calls[c].late => calls[c].payload \in acked']_hookVars

=============================================================================
