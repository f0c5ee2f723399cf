--------------------------- MODULE DiscoveryProofs ---------------------------
(***************************************************************************)
(* Five adapters of discovery.rs, for any sessions, threads, jobs, tasks   *)
(* and processes and without their bounds: the live registry of Claude,    *)
(* whose passes retire mains that went away; the threads of Codex, which a *)
(* pass puts under a Claude main only when nothing else fits; the jobs of  *)
(* Codex Companion, whose outcome and history stand; the identity a Claude *)
(* transcript is credited to; and the task files of a team, which a pass   *)
(* folds into the outcome of the one modified last.                        *)
(***************************************************************************)
EXTENDS LiveRegistry, CodexThreads, CompanionJobs, TranscriptAliases, TeamTasks, FiniteSetTheorems, TLAPS

(* The live registry. *)

\* The states a registry entry can name; none of them is terminal.
EntryStates == {"none", "running", "waiting"}

LiveEntry == [start : Nat, updated : Nat, state : EntryStates]
LiveSession == [state : MainStates, process : Nat, gate : BOOLEAN]
LivePass == [at : {"idle", "entry", "process", "state", "reconciled", "absent"},
             todo : SUBSET Mains, main : Mains \cup {"none"}, live : LiveEntry,
             present : SUBSET Mains, complete : BOOLEAN, failed : BOOLEAN,
             gone : SUBSET (Mains \X Nat)]

\* Processes, entries, sessions and the pass keep their shapes, without the bounds.
LiveTypes ==
    /\ process \in [Mains -> Nat] /\ starts \in [Mains -> Nat]
    /\ entry \in [Mains -> LiveEntry]
    /\ sessions \in [Mains -> LiveSession]
    /\ pass \in LivePass
    /\ pass.at \in {"process", "state", "reconciled"} => pass.main \in Mains

\* A pass that failed has nobody left to retire.
FailedIsDone == pass.failed => pass.at = "absent" /\ pass.todo = {}

\* Nobody the pass has verified is on its list.
PresentSpared == pass.at = "absent" => pass.todo \cap pass.present = {}

\* The inductive invariant.
LiveInv == LiveTypes /\ FailedIsDone /\ PresentSpared

\* No entry is an entry of its own kind, and no pass a pass.
LEMMA Blanks == NoEntry \in LiveEntry /\ Idle \in LivePass
BY DEF NoEntry, LiveEntry, EntryStates, Idle, LivePass

\* A new server has no pass and no sessions.
LEMMA LiveStarts == Init => LiveInv
<1>1. Unknown \in LiveSession
  BY DEF Unknown, LiveSession, MainStates
<1>2. QED
  BY <1>1, Blanks DEF Init, LiveInv, LiveTypes, FailedIsDone, PresentSpared, Idle

\* A pass given up has nobody to retire.
LEMMA AbandonKeeps ==
    ASSUME LiveTypes, Abandon
    PROVE  pass' \in LivePass /\ pass'.at = "absent" /\ FailedIsDone' /\ PresentSpared'
<1>1. pass' = [at |-> "absent", todo |-> {}, main |-> "none", live |-> NoEntry,
               present |-> pass.present, complete |-> FALSE, failed |-> TRUE, gone |-> pass.gone]
  BY DEF Abandon, LiveTypes, LivePass
<1>2. QED
  BY <1>1, Blanks DEF LiveTypes, LivePass, FailedIsDone, PresentSpared

\* An observation leaves every other session alone.
LEMMA ApplyKeeps ==
    ASSUME LiveTypes, NEW m \in Mains, NEW id, NEW update \in LiveSession, Apply(id, m, update)
    PROVE  /\ sessions' \in [Mains -> LiveSession]
           /\ \A k \in Mains \ {m} : sessions'[k] = sessions[k]
           /\ sessions'[m] \in {sessions[m], update}
BY DEF Apply, LiveTypes

\* Claude's own steps touch its processes and entries only, and write no
\* terminal state.
LEMMA ClaudeKeepsLive ==
    ASSUME LiveInv, NEW m \in Mains,
           \/ Launch(m) \/ RemoveStale(m)
           \/ \E s \in {"running", "waiting"} : WriteEntry(m, s)
           \/ \E clean \in BOOLEAN : Exit(m, clean)
    PROVE  LiveInv' /\ UNCHANGED sessions
<1> USE DEF LiveEntry
<1>1. CASE Launch(m)
  <2>0. starts' = [starts EXCEPT ![m] = @ + 1]
    BY <1>1, Zenon DEF Launch
  <2>1. starts' \in [Mains -> Nat]
    BY <2>0 DEF LiveInv, LiveTypes
  <2>2. process' \in [Mains -> Nat]
    BY <1>1, <2>1 DEF LiveInv, LiveTypes, Launch
  <2>3. QED
    BY <1>1, <2>1, <2>2 DEF LiveInv, LiveTypes, FailedIsDone, PresentSpared, Launch
<1>2. CASE RemoveStale(m)
  BY <1>2 DEF LiveInv, LiveTypes, FailedIsDone, PresentSpared, RemoveStale, NoEntry, EntryStates
<1>3. ASSUME NEW s \in {"running", "waiting"}, WriteEntry(m, s)
      PROVE  LiveInv' /\ UNCHANGED sessions
  BY <1>3 DEF LiveInv, LiveTypes, FailedIsDone, PresentSpared, WriteEntry, EntryStates
<1>4. ASSUME NEW clean \in BOOLEAN, Exit(m, clean)
      PROVE  LiveInv' /\ UNCHANGED sessions
  BY <1>4 DEF LiveInv, LiveTypes, FailedIsDone, PresentSpared, Exit, NoEntry, EntryStates
<1>5. QED
  BY <1>1, <1>2, <1>3, <1>4

\* Nobody's session becomes completed in this step.
NobodyRetired ==
    \A m \in Mains : sessions'[m].state = "completed" => sessions[m].state = "completed"

\* Reading entries and reporting what they say retires nobody: an entry names
\* no terminal state, and whoever could not be read empties the list.
LEMMA EntriesKeepLive ==
    ASSUME LiveInv,
           \/ Scan \/ IngestProcess \/ IngestState \/ MarkReconciled \/ ListMains
           \/ \E m \in Mains : ReadEntry(m) \/ Report(m)
    PROVE  LiveInv' /\ NobodyRetired
<1>1. CASE Scan
  <2>1. {m \in Mains : entry[m] # NoEntry} \in SUBSET Mains
    OBVIOUS
  <2>2. {<<m, starts[m]>> : m \in {k \in Retained : process[k] = 0 /\ entry[k] = NoEntry}}
            \in SUBSET (Mains \X Nat)
    BY DEF LiveInv, LiveTypes, Retained
  <2>3. PICK certain \in BOOLEAN :
            pass' = [Idle EXCEPT
              !.at = IF certain THEN "entry" ELSE "absent",
              !.todo = IF certain THEN {m \in Mains : entry[m] # NoEntry} ELSE {},
              !.complete = certain, !.failed = ~certain,
              !.gone = {<<m, starts[m]>> : m \in {k \in Retained : process[k] = 0 /\ entry[k] = NoEntry}}]
    BY <1>1 DEF Scan
  <2>4. pass' \in LivePass /\ pass'.at \in {"entry", "absent"}
    BY <2>1, <2>2, <2>3, Blanks DEF LivePass, Idle
  <2>5. FailedIsDone' /\ PresentSpared'
    BY <2>3 DEF FailedIsDone, PresentSpared, Idle
  <2>6. QED
    BY <1>1, <2>4, <2>5 DEF LiveInv, LiveTypes, NobodyRetired, Scan, native
<1>2. CASE IngestProcess
  <2> DEFINE m == pass.main
             known == IF sessions[m] = Unknown THEN [sessions[m] EXCEPT !.state = "starting"] ELSE sessions[m]
             update == [known EXCEPT !.process = pass.live.start, !.gate = FALSE]
  <2>1. m \in Mains /\ pass.live.start \in Nat /\ pass.at = "process"
    BY <1>2 DEF IngestProcess, LiveInv, LiveTypes, LivePass, LiveEntry
  <2>2. update \in LiveSession /\ update.state = known.state
    BY <2>1, ZenonT(40) DEF LiveInv, LiveTypes, LiveSession, MainStates
  <2>3. sessions[m].state # "completed" => update.state # "completed"
    BY <2>2
  <2>4. CASE Apply(<<"process", m, pass.live.start>>, m, update) /\ pass' = [pass EXCEPT !.at = "state"]
    <3> HIDE DEF m, update
    <3>1. /\ sessions' \in [Mains -> LiveSession]
          /\ \A k \in Mains \ {m} : sessions'[k] = sessions[k]
          /\ sessions'[m] \in {sessions[m], update}
      BY <2>1, <2>2, <2>4, ApplyKeeps DEF LiveInv
    <3>2. NobodyRetired
      BY <2>3, <3>1 DEF NobodyRetired
    <3>3. LiveTypes'
      BY <1>2, <2>1, <2>4, <3>1 DEF LiveInv, LiveTypes, LivePass, IngestProcess, native, m
    <3>4. QED
      BY <2>1, <2>4, <3>2, <3>3 DEF LiveInv, LiveTypes, LivePass, FailedIsDone, PresentSpared
  <2>5. CASE Abandon /\ UNCHANGED <<sessions, persisted>>
    BY <1>2, <2>5, AbandonKeeps DEF IngestProcess, LiveInv, LiveTypes, NobodyRetired, native
  <2>6. QED
    BY <1>2, <2>4, <2>5 DEF IngestProcess
<1>3. CASE IngestState
  <2> DEFINE m == pass.main
             update == [sessions[m] EXCEPT !.state = pass.live.state, !.gate = FALSE]
  <2>1. m \in Mains /\ pass.live.state \in EntryStates /\ pass.at = "state"
    BY <1>3 DEF IngestState, LiveInv, LiveTypes, LivePass, LiveEntry
  <2>2. update \in LiveSession /\ update.state # "completed"
    BY <2>1, ZenonT(40) DEF LiveInv, LiveTypes, LiveSession, MainStates, EntryStates
  <2>3. CASE /\ Apply(<<"state", m, pass.live.start, pass.live.updated, pass.live.state>>, m, update)
             /\ pass' = [pass EXCEPT !.at = "reconciled"]
    <3> HIDE DEF m, update
    <3>1. /\ sessions' \in [Mains -> LiveSession]
          /\ \A k \in Mains \ {m} : sessions'[k] = sessions[k]
          /\ sessions'[m] \in {sessions[m], update}
      BY <2>1, <2>2, <2>3, ApplyKeeps DEF LiveInv
    <3>2. NobodyRetired
      BY <2>2, <3>1 DEF NobodyRetired
    <3>3. LiveTypes'
      BY <1>3, <2>1, <2>3, <3>1 DEF LiveInv, LiveTypes, LivePass, IngestState, native, m
    <3>4. QED
      BY <2>1, <2>3, <3>2, <3>3 DEF LiveInv, LiveTypes, LivePass, FailedIsDone, PresentSpared
  <2>4. CASE Abandon /\ UNCHANGED <<sessions, persisted>>
    BY <1>3, <2>4, AbandonKeeps DEF IngestState, LiveInv, LiveTypes, NobodyRetired, native
  <2>5. QED
    BY <1>3, <2>3, <2>4 DEF IngestState
<1>4. CASE MarkReconciled
  <2>1. pass.at = "reconciled" /\ pass.main \in Mains
    BY <1>4 DEF MarkReconciled, LiveInv, LiveTypes
  <2>2. CASE /\ sessions' = [sessions EXCEPT ![pass.main].gate = FALSE]
             /\ pass' = [pass EXCEPT !.at = "entry", !.main = "none", !.live = NoEntry]
    <3>1. sessions' \in [Mains -> LiveSession] /\ \A k \in Mains : sessions'[k].state = sessions[k].state
      BY <2>1, <2>2 DEF LiveInv, LiveTypes, LiveSession
    <3>2. pass' \in LivePass /\ pass'.at = "entry" /\ pass'.failed = pass.failed
      BY <2>2, Blanks DEF LiveInv, LiveTypes, LivePass
    <3>3. QED
      BY <1>4, <2>1, <3>1, <3>2 DEF MarkReconciled, LiveInv, LiveTypes, FailedIsDone, PresentSpared,
                                   NobodyRetired, native
  <2>3. CASE Abandon /\ UNCHANGED sessions
    BY <1>4, <2>3, AbandonKeeps DEF MarkReconciled, LiveInv, LiveTypes, NobodyRetired, native
  <2>4. QED
    BY <1>4, <2>2, <2>3 DEF MarkReconciled
<1>5. CASE ListMains
  BY <1>5 DEF LiveInv, LiveTypes, LivePass, FailedIsDone, PresentSpared, NobodyRetired, ListMains,
              Retained, native
<1>6. ASSUME NEW m \in Mains, ReadEntry(m)
      PROVE  LiveInv' /\ NobodyRetired
  <2>1. CASE Abandon
    BY <1>6, <2>1, AbandonKeeps DEF ReadEntry, LiveInv, LiveTypes, NobodyRetired, native
  <2>2. CASE pass' = [pass EXCEPT !.at = "process", !.todo = @ \ {m}, !.main = m,
                                  !.live = entry[m], !.present = @ \cup {m}]
    BY <1>6, <2>2 DEF ReadEntry, LiveInv, LiveTypes, LivePass, FailedIsDone, PresentSpared,
                      NobodyRetired, native
  <2>3. QED
    BY <1>6, <2>1, <2>2 DEF ReadEntry
<1>7. ASSUME NEW m \in Mains, Report(m)
      PROVE  LiveInv' /\ NobodyRetired
  BY <1>7 DEF LiveInv, LiveTypes, LiveSession, FailedIsDone, PresentSpared, NobodyRetired, Report,
              native, MainStates
<1>8. QED
  BY <1>1, <1>2, <1>3, <1>4, <1>5, <1>6, <1>7

\* Retiring one main takes it off the list, and it was not among the verified.
LEMMA RetireKeepsLive ==
    ASSUME LiveInv, NEW m \in Mains, RetireAbsent(m)
    PROVE  /\ LiveInv'
           /\ ~pass.failed /\ m \notin pass.present
           /\ \A k \in Mains \ {m} : sessions'[k] = sessions[k]
<1>1. ~pass.failed /\ m \notin pass.present
  BY DEF LiveInv, FailedIsDone, PresentSpared, RetireAbsent
<1>2. \A k \in Mains \ {m} : sessions'[k] = sessions[k]
  BY DEF LiveInv, LiveTypes, RetireAbsent, Apply
<1>3. sessions' \in [Mains -> LiveSession]
  <2>1. [sessions[m] EXCEPT !.state = "completed", !.gate = FALSE] \in LiveSession
    BY DEF LiveInv, LiveTypes, LiveSession, MainStates
  <2>2. QED
    BY <2>1, ApplyKeeps DEF LiveInv, LiveTypes, RetireAbsent
<1>4. PICK todo \in {pass.todo \ {m}, {}} : pass' = [pass EXCEPT !.todo = todo]
  BY DEF RetireAbsent
<1>5. LiveTypes'
  BY <1>3, <1>4 DEF LiveInv, LiveTypes, LivePass, RetireAbsent, native
<1>6. FailedIsDone' /\ PresentSpared'
  BY <1>1, <1>4 DEF LiveInv, LiveTypes, LivePass, FailedIsDone, PresentSpared
<1>7. QED
  BY <1>1, <1>2, <1>5, <1>6 DEF LiveInv

\* The end of a pass and a restart forget the pass and retire nobody.
LEMMA EndKeepsLive ==
    ASSUME LiveInv, EndPass \/ Restart
    PROVE  LiveInv' /\ NobodyRetired
<1>2. CASE EndPass
  BY <1>2, Blanks DEF LiveInv, LiveTypes, FailedIsDone, PresentSpared, NobodyRetired, EndPass,
                      Idle, native
<1>3. CASE Restart
  <2>0. \A r \in LiveSession, gate \in BOOLEAN : [r EXCEPT !.gate = gate] \in LiveSession
    BY DEF LiveSession
  <2>1. ASSUME NEW m \in Mains
        PROVE  [sessions[m] EXCEPT !.gate = m \in Retained] \in LiveSession
    <3> DEFINE gate == m \in Retained
    <3>1. gate \in BOOLEAN
      OBVIOUS
    <3>2. sessions[m] \in LiveSession
      BY DEF LiveInv, LiveTypes
    <3> HIDE DEF gate
    <3>3. [sessions[m] EXCEPT !.gate = gate] \in LiveSession
      BY <2>0, <3>1, <3>2
    <3>4. QED
      BY <3>3 DEF gate
  <2>2. sessions' \in [Mains -> LiveSession] /\ \A m \in Mains : sessions'[m].state = sessions[m].state
    BY <1>3, <2>1 DEF LiveInv, LiveTypes, LiveSession, Restart
  <2>3. QED
    BY <1>3, <2>2, Blanks DEF LiveInv, LiveTypes, FailedIsDone, PresentSpared, NobodyRetired,
                              Restart, Idle, native
<1>4. QED
  BY <1>2, <1>3

\* What one step may retire.
RetiresProperly ==
    \A m \in Mains : (sessions[m].state # "completed" /\ sessions'[m].state = "completed")
        => ~pass.failed /\ m \notin pass.present

\* Every step keeps the invariant and retires only whom a sound pass missed.
LEMMA LiveStep ==
    ASSUME LiveInv, [Next]_vars
    PROVE  LiveInv' /\ RetiresProperly
<1>1. CASE UNCHANGED vars
  BY <1>1 DEF vars, native, LiveInv, LiveTypes, FailedIsDone, PresentSpared, RetiresProperly
<1>2. ASSUME NEW m \in Mains, \/ Launch(m) \/ RemoveStale(m)
                              \/ \E s \in {"running", "waiting"} : WriteEntry(m, s)
                              \/ \E clean \in BOOLEAN : Exit(m, clean)
      PROVE  LiveInv' /\ RetiresProperly
  BY <1>2, ClaudeKeepsLive DEF RetiresProperly
<1>3. CASE \/ Scan \/ IngestProcess \/ IngestState \/ MarkReconciled \/ ListMains
           \/ \E m \in Mains : ReadEntry(m) \/ Report(m)
  BY <1>3, EntriesKeepLive DEF RetiresProperly, NobodyRetired
<1>4. ASSUME NEW m \in Mains, RetireAbsent(m)
      PROVE  LiveInv' /\ RetiresProperly
  BY <1>4, RetireKeepsLive DEF RetiresProperly
<1>5. CASE EndPass \/ Restart
  BY <1>5, EndKeepsLive DEF RetiresProperly, NobodyRetired
<1>6. QED
  BY <1>1, <1>2, <1>3, <1>4, <1>5 DEF Next, RegistryStep

\* The invariant holds always.
LEMMA LiveInvariant == Spec => []LiveInv
<1>1. LiveInv /\ [Next]_vars => LiveInv'
  BY LiveStep
<1>2. QED
  BY <1>1, LiveStarts, PTL DEF Spec

\* Once a pass could not read, verify or persist one entry it completes nobody:
\* the error sets complete to false and the list of absent mains is never drawn
\* up, whatever Claude, its processes and other calls do meanwhile.
THEOREM DoubtRetiresNobody == Spec => UncertainRetiresNothing
<1>1. LiveInv /\ [Next]_vars
          => [pass.failed => \A m \in Mains : sessions'[m].state = "completed" =>
                                       sessions[m].state = "completed"]_vars
  BY LiveStep DEF RetiresProperly
<1>2. QED
  BY <1>1, LiveInvariant, PTL DEF Spec, UncertainRetiresNothing

\* A main whose entry this pass verified is not completed by it: only the mains
\* outside present are on the list complete_absent_live_mains works off.
THEOREM VerifiedSpared == Spec => VerifiedNotRetired
<1>1. LiveInv /\ [Next]_vars
          => [\A m \in Mains : (sessions[m].state # "completed" /\ sessions'[m].state = "completed")
                            => m \notin pass.present]_vars
  BY LiveStep DEF RetiresProperly
<1>2. QED
  BY <1>1, LiveInvariant, PTL DEF Spec, VerifiedNotRetired

(* The threads of Codex. *)

Roles == {"none", "Main", "Child"}
Thread == [kind : Roles, root : Threads \cup Claude \cup {None},
           state : {"none", "Starting", "Running", "WaitingForUser", "Completed"}]

\* What a thread's session is to other sessions: a tree of its own, a part of
\* its native parent's tree, or a child of a Claude main.
Placed(stock, t) ==
    \/ stock[t].kind = "Main" /\ stock[t].root = t
    \/ /\ stock[t].kind = "Child" /\ ParentOf[t] # None
       /\ stock[ParentOf[t]] # NoThread /\ stock[t].root = stock[ParentOf[t]].root
    \/ stock[t].kind = "Child" /\ ParentOf[t] = None /\ stock[t].root \in Claude

\* Threads and the pass keep their shapes, and the index knows Claude mains only.
CodexTypes ==
    /\ threads \in [Threads -> Thread]
    /\ sweep = [at |-> sweep.at, todo |-> sweep.todo, index |-> sweep.index,
                sources |-> sweep.sources, fresh |-> sweep.fresh]
    /\ sweep.index \subseteq Claude

\* The inductive invariant.
CodexInv ==
    /\ CodexTypes
    /\ \A t \in Threads : Stored(t) => Placed(threads, t)
    /\ sweep.at = "tail" /\ Head(sweep.todo) \in Threads => Stored(Head(sweep.todo))

\* A new server knows no thread.
LEMMA CodexStarts == CodexInit => CodexInv
<1>1. NoThread \in Thread
  BY DEF NoThread, Thread, Roles
<1>2. QED
  BY <1>1 DEF CodexInit, CodexInv, CodexTypes, Stored, Asleep

\* Sessions held before are held after, with the same role and tree.
Kept(before, after) ==
    \A t \in Threads : before[t] # NoThread => /\ after[t].kind = before[t].kind
                                               /\ after[t].root = before[t].root

\* A new session has its place, and one below a Claude main was inferred.
SettledKept(before, after) ==
    \A t \in Threads : before[t] = NoThread /\ after[t] # NoThread =>
        /\ Placed(after, t)
        /\ after[t].root \in Claude /\ ParentOf[t] = None => after[t].root = Resolve(sweep.index)

\* A session is never the blank one again: it has a role.
LEMMA KeptStored ==
    ASSUME NEW before \in [Threads -> Thread], NEW after \in [Threads -> Thread],
           Kept(before, after), NEW t \in Threads, before[t] # NoThread, before[t].kind # "none"
    PROVE  after[t] # NoThread
BY DEF Kept, NoThread

\* Who was placed stays placed.
LEMMA PlacedKept ==
    ASSUME NEW before \in [Threads -> Thread], NEW after \in [Threads -> Thread],
           Kept(before, after), \A t \in Threads : before[t] # NoThread => Placed(before, t),
           NEW u \in Threads, before[u] # NoThread
    PROVE  Placed(after, u) /\ after[u] # NoThread
<1>1. \A t \in Threads : before[t] # NoThread => before[t].kind # "none" /\ after[t] # NoThread
  BY DEF Placed, Kept, NoThread
<1>2. ParentOf[u] # None => ParentOf[u] \in Threads
  BY CodexAssumption
<1>3. QED
  BY <1>1, <1>2 DEF Placed, Kept

\* A native parent nobody has met becomes a main of its own tree.
LEMMA EnsureKeeps ==
    ASSUME CodexInv, NEW p \in Threads
    PROVE  /\ EnsureThread(p) \in [Threads -> Thread]
           /\ Kept(threads, EnsureThread(p)) /\ SettledKept(threads, EnsureThread(p))
           /\ EnsureThread(p)[p] # NoThread
           /\ \A t \in Threads \ {p} : EnsureThread(p)[t] = threads[t]
           /\ Stored(p) => EnsureThread(p)[p] = threads[p]
<1>1. CASE Stored(p)
  BY <1>1 DEF EnsureThread, Stored, Kept, SettledKept, CodexInv, CodexTypes
<1>2. CASE ~Stored(p)
  <2> DEFINE new == [kind |-> "Main", root |-> p, state |-> "Starting"]
  <2>1. EnsureThread(p) = [threads EXCEPT ![p] = new]
    BY <1>2 DEF EnsureThread, Stored, WithSession
  <2>2. new \in Thread /\ new # NoThread /\ new.kind = "Main" /\ new.root = p /\ p \notin Claude
    BY CodexAssumption DEF Thread, Roles, NoThread
  <2> HIDE DEF new
  <2>3. QED
    BY <1>2, <2>1, <2>2 DEF CodexInv, CodexTypes, Stored, Kept, SettledKept, Placed
<1>3. QED
  BY <1>1, <1>2

\* The main registered for an unmet parent.
LEMMA EnsureShape ==
    ASSUME CodexInv, NEW p \in Threads, ~Stored(p)
    PROVE  EnsureThread(p)[p] = [kind |-> "Main", root |-> p, state |-> "Starting"]
BY DEF EnsureThread, Stored, WithSession, CodexInv, CodexTypes

\* discover_session keeps who is held in its role and tree, and places a newcomer:
\* below its native parent, below the inferred Claude main, or in a tree of its own.
LEMMA DiscoverKeeps ==
    ASSUME CodexInv, NEW t \in Threads, NEW stock, NEW kind, NEW parent,
           \/ ParentOf[t] # None /\ stock = EnsureThread(parent) /\ kind = "Child" /\ parent = ParentOf[t]
           \/ ParentOf[t] = None /\ stock = threads /\ kind = "Main" /\ parent = None
           \/ /\ ParentOf[t] = None /\ stock = threads /\ kind = "Child"
              /\ parent = Resolve(sweep.index) /\ parent \in Claude
    PROVE  LET after == Discover(stock, t, kind, parent).held
           IN  /\ after \in [Threads -> Thread]
               /\ Kept(threads, after) /\ SettledKept(threads, after)
               /\ Discover(stock, t, kind, parent).ok => after[t] # NoThread
<1> DEFINE root == IF kind = "Main" THEN t ELSE RootOf(stock, parent)
           after == Discover(stock, t, kind, parent).held
           new == [kind |-> kind, root |-> root, state |-> "Starting"]
<1>1. ParentOf[t] # None => ParentOf[t] \in Threads
  BY CodexAssumption
<1>2. /\ stock \in [Threads -> Thread]
      /\ Kept(threads, stock) /\ SettledKept(threads, stock)
      /\ \A u \in Threads : u # parent \/ ParentOf[t] = None \/ Stored(u) => stock[u] = threads[u]
      /\ ParentOf[t] # None => stock[parent] # NoThread
  BY <1>1, EnsureKeeps DEF CodexInv, CodexTypes, Kept, SettledKept
<1>3. after \in {stock, WithSession(stock, t, kind, root)} /\ (after # stock => Accepted(t, kind, root))
  BY DEF Discover
<1>4. root \in Threads \cup Claude \cup {None}
  BY <1>1, <1>2, CodexAssumption DEF RootOf, Thread
<1>5. new \in Thread /\ new # NoThread /\ new.kind = kind /\ new.root = root
  BY <1>4 DEF Thread, Roles, NoThread
<1> HIDE DEF root, after, new
<1>6. CASE after = stock
  <2>1. Discover(stock, t, kind, parent).ok => stock = WithSession(stock, t, kind, root)
    BY <1>6 DEF Discover, after, root
  <2>2. WithSession(stock, t, kind, root)[t] # NoThread
    BY <1>2, <1>5 DEF WithSession, new
  <2>3. QED
    BY <1>2, <1>6, <2>1, <2>2 DEF after
<1>7. CASE after # stock
  <2>1. ~Stored(t)
    BY <1>2, <1>3, <1>7 DEF Stored, Accepted, WithSession
  <2>2. after = [stock EXCEPT ![t] = new]
    BY <1>3, <1>7 DEF WithSession, new
  <2>3. after \in [Threads -> Thread] /\ after[t] = new /\ \A u \in Threads \ {t} : after[u] = stock[u]
    BY <1>2, <1>5, <2>2
  <2>4. Kept(threads, after)
    BY <1>2, <2>1, <2>3 DEF Kept, Stored
  <2>5. ASSUME NEW u \in Threads, ~Stored(u), after[u] # NoThread
        PROVE  /\ Placed(after, u)
               /\ after[u].root \in Claude /\ ParentOf[u] = None => after[u].root = Resolve(sweep.index)
    <3>1. CASE u = t /\ ParentOf[t] # None
      <4>1. after[t].kind = "Child" /\ after[t].root = stock[parent].root /\ parent = ParentOf[t]
        BY <1>1, <1>5, <2>3, <3>1 DEF root, RootOf
      <4>2. after[parent] # NoThread /\ after[parent].root = stock[parent].root
        BY <1>1, <1>2, <1>5, <2>3, <3>1, <4>1
      <4>3. QED
        BY <3>1, <4>1, <4>2 DEF Placed
    <3>2. CASE u = t /\ ParentOf[t] = None /\ kind = "Main"
      BY <1>5, <2>3, <3>2, CodexAssumption DEF Placed, root
    <3>3. CASE u = t /\ ParentOf[t] = None /\ kind = "Child"
      BY <1>5, <2>3, <3>3, CodexAssumption DEF Placed, root, RootOf
    <3>4. CASE u # t
      <4>1. u = parent /\ ParentOf[t] # None /\ after[u] = stock[u]
        BY <1>2, <2>3, <2>5, <3>4 DEF Stored
      <4>2. stock[u] = [kind |-> "Main", root |-> u, state |-> "Starting"]
        BY <2>5, <4>1, EnsureShape
      <4>3. QED
        BY <4>1, <4>2, CodexAssumption DEF Placed
    <3>5. QED
      BY <3>1, <3>2, <3>3, <3>4
  <2>6. QED
    BY <1>5, <2>3, <2>4, <2>5 DEF SettledKept, Stored, after
<1>8. QED
  BY <1>6, <1>7

\* A record changes the state of a session that is held, and nothing else.
LEMMA RecordsKeep ==
    ASSUME CodexInv, NEW t, t \in Threads => Stored(t), NEW first, NEW last, NEW kind,
           IngestRecords(t, first, last, kind)
    PROVE  threads' \in [Threads -> Thread] /\ Kept(threads, threads') /\ SettledKept(threads, threads')
<1>1. PICK n : threads' \in {threads, [threads EXCEPT ![t].state = Outcome(n, kind)]}
  BY DEF IngestRecords
<1>2. Outcome(n, kind) \in {"Running", "WaitingForUser", "Completed"}
  BY DEF Outcome
<1>3. CASE threads' = threads
  BY <1>3 DEF CodexInv, CodexTypes, Kept, SettledKept
<1>4. CASE t \in Threads /\ threads' = [threads EXCEPT ![t].state = Outcome(n, kind)]
  <2>1. threads' \in [Threads -> Thread]
    BY <1>2, <1>4 DEF CodexInv, CodexTypes, Thread
  <2>2. \A u \in Threads : /\ threads'[u].kind = threads[u].kind
                           /\ threads'[u].root = threads[u].root
                           /\ u # t => threads'[u] = threads[u]
    BY <1>4 DEF CodexInv, CodexTypes, Thread
  <2>3. QED
    BY <1>4, <2>1, <2>2 DEF Kept, SettledKept, Stored
<1>5. CASE t \notin Threads /\ threads' = [threads EXCEPT ![t].state = Outcome(n, kind)]
  <2>1. threads' = threads
    BY <1>5 DEF CodexInv, CodexTypes
  <2>2. QED
    BY <1>3, <2>1
<1>6. QED
  BY <1>1, <1>3, <1>4, <1>5

\* What a step must do to the threads for the invariant to hold again.
GoodStep ==
    /\ threads' \in [Threads -> Thread]
    /\ Kept(threads, threads') /\ SettledKept(threads, threads')

\* A step on the threads that is good keeps everybody placed.
LEMMA GoodKeepsPlaces ==
    ASSUME CodexInv, GoodStep
    PROVE  \A t \in Threads : /\ Stored(t)' => Placed(threads', t)
                              /\ Stored(t) => Stored(t)'
<1>1. TAKE t \in Threads
<1>2. CASE Stored(t)
  BY <1>2, PlacedKept DEF CodexInv, CodexTypes, GoodStep, Stored
<1>3. CASE ~Stored(t)
  BY <1>3 DEF GoodStep, SettledKept, Stored
<1>4. QED
  BY <1>2, <1>3

\* one_candidate gives the only element of a set, if it has just one.
LEMMA OneIsOnly ==
    ASSUME NEW s \in SUBSET Claude, One(s) # None
    PROVE  s = {One(s)}
<1>1. IsFiniteSet(s) /\ Cardinality(s) = 1
  BY FS_Subset, CodexAssumption DEF One
<1>2. PICK x : s = {x}
  BY <1>1, FS_Singleton
<1>3. QED
  BY <1>1, <1>2 DEF One

\* ClaudeParentIndex::resolve gives a main only when no other one fits as well.
LEMMA ResolveIsUnique ==
    ASSUME NEW index \in SUBSET Claude, Resolve(index) # None
    PROVE  LET c == Resolve(index)
           IN  /\ c \in index
               /\ ~\E d \in index \ {c} : place[d] = "directory" \/ place[c] = "repository"
<1> DEFINE exact == {c \in index : place[c] = "directory"}
<1>1. CASE exact # {}
  <2>1. Resolve(index) = One(exact)
    BY <1>1 DEF Resolve
  <2>2. exact = {Resolve(index)}
    BY <2>1, OneIsOnly
  <2>3. QED
    BY <2>2
<1>2. CASE exact = {}
  <2>1. Resolve(index) = One(index)
    BY <1>2 DEF Resolve
  <2>2. index = {Resolve(index)}
    BY <2>1, OneIsOnly
  <2>3. QED
    BY <2>2
<1>3. QED
  BY <1>1, <1>2

\* The parent inferred for a thread is a Claude main, if there is one.
LEMMA ResolveType ==
    ASSUME CodexInv
    PROVE  Resolve(sweep.index) \in Claude \cup {None}
BY ResolveIsUnique DEF CodexInv, CodexTypes

\* How reconcile_rollout_candidate and the rows of the database call discover_session.
Asked(t, stock, kind, parent) ==
    \/ ParentOf[t] # None /\ stock = EnsureThread(parent) /\ kind = "Child" /\ parent = ParentOf[t]
    \/ ParentOf[t] = None /\ stock = threads /\ kind = "Main" /\ parent = None
    \/ /\ ParentOf[t] = None /\ stock = threads /\ kind = "Child"
       /\ parent = Resolve(sweep.index) /\ parent \in Claude

\* The native parent alone, whatever becomes of the thread, keeps who is held.
LEMMA StockKeeps ==
    ASSUME CodexInv, NEW t, NEW stock, NEW kind, NEW parent, Asked(t, stock, kind, parent)
    PROVE  stock \in [Threads -> Thread] /\ Kept(threads, stock) /\ SettledKept(threads, stock)
<1>1. EnsureThread(parent) \in {threads, [threads EXCEPT ![parent] =
                                    [kind |-> "Main", root |-> parent, state |-> "Starting"]]}
  BY DEF EnsureThread, WithSession
<1>2. /\ EnsureThread(parent) \in [Threads -> Thread]
      /\ Kept(threads, EnsureThread(parent)) /\ SettledKept(threads, EnsureThread(parent))
  <2>1. CASE parent \in Threads
    BY <2>1, EnsureKeeps DEF CodexInv, CodexTypes
  <2>2. CASE parent \notin Threads
    BY <1>1, <2>2 DEF CodexInv, CodexTypes, Kept, SettledKept
  <2>3. QED
    BY <2>1, <2>2
<1>3. QED
  BY <1>2 DEF Asked, CodexInv, CodexTypes, Kept, SettledKept

\* So called, it keeps who is held and places who is new.
LEMMA AskedKeeps ==
    ASSUME CodexInv, NEW t, NEW stock, NEW kind, NEW parent, Asked(t, stock, kind, parent)
    PROVE  LET found == Discover(stock, t, kind, parent)
           IN  /\ found.held \in [Threads -> Thread]
               /\ Kept(threads, found.held) /\ SettledKept(threads, found.held)
               /\ found.ok /\ t \in Threads => found.held[t] # NoThread
<1>1. CASE t \in Threads
  BY <1>1, DiscoverKeeps DEF Asked
<1>2. CASE t \notin Threads
  <2>1. stock \in [Threads -> Thread] /\ Kept(threads, stock) /\ SettledKept(threads, stock)
    BY StockKeeps
  <2>2. \A root : WithSession(stock, t, kind, root) = stock
    BY <1>2, <2>1 DEF WithSession
  <2>3. Discover(stock, t, kind, parent).held = stock
    BY <2>2 DEF Discover
  <2>4. QED
    BY <1>2, <2>1, <2>3
<1>3. QED
  BY <1>1, <1>2

\* The pass after a step: its shape, its index, and what a candidate's tail rests on.
NextSweep ==
    /\ sweep' = [at |-> sweep'.at, todo |-> sweep'.todo, index |-> sweep'.index,
                 sources |-> sweep'.sources, fresh |-> sweep'.fresh]
    /\ sweep'.index \subseteq Claude
    /\ sweep'.at = "tail" /\ Head(sweep'.todo) \in Threads => Stored(Head(sweep.todo))'

\* A step that is good for the threads and the pass keeps the invariant.
LEMMA GoodKeeps ==
    ASSUME CodexInv, GoodStep, NextSweep
    PROVE  CodexInv'
<1>1. CodexTypes'
  BY DEF GoodStep, NextSweep, CodexTypes
<1>2. \A t \in Threads : Stored(t)' => Placed(threads, t)'
  BY GoodKeepsPlaces DEF Placed
<1>3. QED
  BY <1>1, <1>2 DEF CodexInv, NextSweep

\* Nothing happens to the threads.
LEMMA SameIsGood ==
    ASSUME CodexInv, UNCHANGED threads
    PROVE  GoodStep
BY DEF GoodStep, CodexInv, CodexTypes, Kept, SettledKept

\* A rollout that was read: its thread is registered, or the candidate skipped.
LEMMA CandidateKeeps ==
    ASSUME CodexInv, Candidate
    PROVE  CodexInv' /\ GoodStep
<1> DEFINE t == Head(sweep.todo)
           stock == IF ParentOf[t] = None THEN threads ELSE EnsureThread(ParentOf[t])
           inferred == IF ParentOf[t] = None /\ t \in origin THEN Resolve(sweep.index) ELSE None
           parent == IF ParentOf[t] # None THEN ParentOf[t] ELSE inferred
           kind == IF parent = None THEN "Main" ELSE "Child"
           found == Discover(stock, t, kind, parent)
<1>1. /\ sweep.at = "rollouts"
      /\ \/ /\ threads' = found.held
            /\ IF found.ok
               THEN sweep' = [sweep EXCEPT !.at = "tail", !.sources = @ \cup {<<t, kind>>}]
               ELSE Skip
         \/ Skip /\ threads' \in {threads, stock}
  BY DEF Candidate
<1>2. Asked(t, stock, kind, parent)
  BY ResolveType DEF Asked
<1> HIDE DEF t, stock, kind, parent
<1>3. /\ found.held \in [Threads -> Thread]
      /\ Kept(threads, found.held) /\ SettledKept(threads, found.held)
      /\ found.ok /\ t \in Threads => found.held[t] # NoThread
      /\ stock \in [Threads -> Thread] /\ Kept(threads, stock) /\ SettledKept(threads, stock)
  BY <1>2, AskedKeeps, StockKeeps
<1> HIDE DEF found
<1>4. CASE /\ threads' = found.held /\ found.ok
           /\ sweep' = [sweep EXCEPT !.at = "tail", !.sources = @ \cup {<<t, kind>>}]
  <2>1. GoodStep
    BY <1>3, <1>4 DEF GoodStep
  <2>2. sweep' = [at |-> "tail", todo |-> sweep.todo, index |-> sweep.index,
                  sources |-> sweep.sources \cup {<<t, kind>>}, fresh |-> sweep.fresh]
    BY <1>4 DEF CodexInv, CodexTypes
  <2>3. NextSweep
    BY <1>3, <1>4, <2>2 DEF NextSweep, CodexInv, CodexTypes, Stored, t
  <2>4. QED
    BY <2>1, <2>3, GoodKeeps
<1>5. CASE Skip /\ threads' \in {threads, stock, found.held}
  <2>1. GoodStep
    BY <1>3, <1>5, SameIsGood DEF GoodStep
  <2>2. NextSweep
    BY <1>1, <1>5 DEF NextSweep, Skip, CodexInv, CodexTypes
  <2>3. QED
    BY <2>1, <2>2, GoodKeeps
<1>6. QED
  BY <1>1, <1>4, <1>5

\* A row of the database is registered like a rollout, without inference.
LEMMA RowKeeps ==
    ASSUME CodexInv, Row
    PROVE  CodexInv' /\ GoodStep
<1> DEFINE t == Head(sweep.todo)
           stock == IF ParentOf[t] = None THEN threads ELSE EnsureThread(ParentOf[t])
           kind == IF ParentOf[t] = None THEN "Main" ELSE "Child"
<1>1. /\ sweep.at = "rows" /\ Skip
      /\ threads' \in {threads, stock, Discover(stock, t, kind, ParentOf[t]).held}
  BY DEF Row
<1>2. Asked(t, stock, kind, ParentOf[t])
  BY DEF Asked
<1>3. GoodStep
  BY <1>1, <1>2, AskedKeeps, StockKeeps, SameIsGood DEF GoodStep
<1>4. NextSweep
  BY <1>1 DEF NextSweep, Skip, CodexInv, CodexTypes
<1>5. QED
  BY <1>3, <1>4, GoodKeeps

\* The tail of a rollout that was just registered.
LEMMA BootstrapKeeps ==
    ASSUME CodexInv, BootstrapTail
    PROVE  CodexInv' /\ GoodStep
<1> DEFINE t == Head(sweep.todo)
           kind == (CHOOSE s \in sweep.sources : s[1] = t)[2]
<1>1. t \in Threads => Stored(t)
  BY DEF BootstrapTail, CodexInv
<1>2. IngestRecords(t, written[t], written[t], kind) \/ UNCHANGED threads
  BY DEF BootstrapTail
<1>3. GoodStep
  <2> HIDE DEF t, kind
  <2>1. QED
    BY <1>1, <1>2, RecordsKeep, SameIsGood DEF GoodStep
<1>4. NextSweep
  BY DEF BootstrapTail, NextSweep, CodexInv, CodexTypes
<1>5. QED
  BY <1>3, <1>4, GoodKeeps

\* Following a rollout touches only a session that is held.
LEMMA TailKeeps ==
    ASSUME CodexInv, NEW t, NEW kind, TailRollout(t, kind)
    PROVE  GoodStep
<1>1. CASE Stored(t)
  <2>1. PICK last : IngestRecords(t, saved[t] + 1, last, kind) \/ UNCHANGED threads
    BY DEF TailRollout
  <2>2. QED
    BY <1>1, <2>1, RecordsKeep, SameIsGood DEF GoodStep
<1>2. CASE ~Stored(t)
  BY <1>2, SameIsGood DEF TailRollout
<1>3. QED
  BY <1>1, <1>2

\* Every step keeps the invariant, roles and trees.
LEMMA CodexStep ==
    ASSUME CodexInv, [CodexNext]_codexVars
    PROVE  CodexInv' /\ GoodStep
<1>1. ASSUME UNCHANGED <<threads, sweep>>
      PROVE  CodexInv' /\ GoodStep
  BY <1>1, SameIsGood DEF CodexInv, CodexTypes, Stored, Placed
<1>2. ASSUME NEW t \in Threads, WriteRecord(t) \/ List(t)
      PROVE  CodexInv' /\ GoodStep
  BY <1>1, <1>2 DEF WriteRecord, List, codexStore
<1>3. ASSUME NEW c \in Claude, NEW s \in {"active", "ended"}, Change(c, s)
      PROVE  CodexInv' /\ GoodStep
  BY <1>1, <1>3 DEF Change, codexStore
<1>4. CASE Begin \/ ReadDatabase \/ ListTails \/ ListSources \/ EndSweep \/ ServerRestarts
  <2>1. UNCHANGED threads
    BY <1>4 DEF Begin, ReadDatabase, ListTails, ListSources, EndSweep, ServerRestarts, codexStore
  <2>2. NextSweep
    <3>1. CASE Begin
      <4>1. PICK index \in {ParentIndex, {}} : \E todo :
                sweep' = [Asleep EXCEPT !.at = "rollouts", !.index = index, !.todo = todo]
        BY <3>1 DEF Begin
      <4>2. index \subseteq Claude
        BY <4>1 DEF ParentIndex
      <4>3. QED
        BY <4>1, <4>2 DEF NextSweep, Asleep
    <3>2. CASE ReadDatabase
      <4>1. PICK rows, todo : sweep' = [sweep EXCEPT !.at = "rows", !.fresh = rows, !.todo = todo]
        BY <3>2 DEF ReadDatabase
      <4>2. QED
        BY <4>1 DEF NextSweep, CodexInv, CodexTypes
    <3>3. CASE ListTails \/ ListSources
      <4>1. PICK at \in {"tails", "sources"} : \E todo : sweep' = [sweep EXCEPT !.at = at, !.todo = todo]
        BY <3>3 DEF ListTails, ListSources
      <4>2. QED
        BY <4>1 DEF NextSweep, CodexInv, CodexTypes
    <3>4. CASE EndSweep \/ ServerRestarts
      BY <3>4 DEF EndSweep, ServerRestarts, NextSweep, Asleep
    <3>5. QED
      BY <1>4, <3>1, <3>2, <3>3, <3>4
  <2>3. QED
    BY <2>1, <2>2, SameIsGood, GoodKeeps
<1>5. CASE TailRow \/ TailSource
  <2>1. PICK kind : TailRollout(Head(sweep.todo), kind)
    BY <1>5 DEF TailRow, TailSource
  <2>2. NextSweep
    BY <1>5 DEF TailRow, TailSource, Skip, NextSweep, CodexInv, CodexTypes
  <2>3. QED
    BY <2>1, <2>2, TailKeeps, GoodKeeps
<1>6. CASE UNCHANGED codexVars
  BY <1>1, <1>6 DEF codexVars, codexStore
<1>7. QED
  BY <1>2, <1>3, <1>4, <1>5, <1>6, CandidateKeeps, RowKeeps, BootstrapKeeps
     DEF CodexNext, SweepStep

\* The invariant holds always.
LEMMA CodexInvariant == CodexSpec => []CodexInv
<1>1. CodexInv /\ [CodexNext]_codexVars => CodexInv'
  BY CodexStep
<1>2. QED
  BY <1>1, CodexStarts, PTL DEF CodexSpec

\* A thread is put under a Claude main only if no other main the index knew fits
\* it as well, however mains come and go and whatever is registered meanwhile:
\* ClaudeParentIndex::resolve takes the only candidate of the first scope that
\* has one, and no other registration names a Claude main.
THEOREM NoGuess == CodexSpec => NeverGuesses
<1>1. ASSUME CodexInv, [CodexNext]_codexVars, NEW t \in Threads,
             ~Stored(t), threads'[t].root \in Claude, ParentOf[t] = None
      PROVE  LET c == threads'[t].root
             IN  ~\E d \in sweep.index \ {c} : place[d] = "directory" \/ place[c] = "repository"
  <2>1. threads'[t].root = Resolve(sweep.index)
    BY <1>1, CodexStep, CodexAssumption DEF GoodStep, SettledKept, Stored, NoThread
  <2>2. QED
    BY <1>1, <2>1, ResolveIsUnique, CodexAssumption DEF CodexInv, CodexTypes
<1>2. CodexInv /\ [CodexNext]_codexVars
        => [\A t \in Threads :
              (~Stored(t) /\ threads'[t].root \in Claude /\ ParentOf[t] = None) =>
                  LET c == threads'[t].root
                  IN  ~\E d \in sweep.index \ {c} : place[d] = "directory" \/ place[c] = "repository"]_codexVars
  BY <1>1
<1>3. QED
  BY <1>2, CodexInvariant, PTL DEF CodexSpec, NeverGuesses

\* Rollouts, rows and inferences name a thread in any order, before and after
\* restarts: a session that is held keeps its role and its tree, because
\* reject_conflicting_identity refuses every registration that says otherwise.
THEOREM RoleAndRootFixed == CodexSpec => RoleAndRootKept
<1>1. CodexInv /\ [CodexNext]_codexVars
        => [\A t \in Threads : Stored(t) => /\ threads'[t].kind = threads[t].kind
                                            /\ threads'[t].root = threads[t].root]_codexVars
  BY CodexStep DEF GoodStep, Kept, Stored
<1>2. QED
  BY <1>1, CodexInvariant, PTL DEF CodexSpec, RoleAndRootKept

\* Every thread that is held is the main of its own tree, a child in the tree of
\* its native parent, which is held too, or a child of a Claude main.
EveryThreadPlaced == \A t \in Threads : Stored(t) => Placed(threads, t)

\* A child never stands in a tree its native parent is not part of, whichever of
\* the two was met first: ensure_native_parent registers the parent before the
\* child takes its root from it.
THEOREM ThreadsPlaced == CodexSpec => []EveryThreadPlaced
BY CodexInvariant, PTL DEF CodexInv, EveryThreadPlaced

(* Companion jobs. *)

JobRecord == [state : States, at : Nat]
JobSession == [root : {"none", "owner", "canonical"}, state : States \cup {"none", "Stalled"},
               gate : BOOLEAN]
JobView == [state : States \cup {"none", "Unknown"}, at : Nat,
            source : {"none", "summary", "both"}, certain : BOOLEAN]
JobRun == [at : {"rest", "job", "register", "state", "log", "progress", "cursor"},
           todo : SUBSET Jobs, read : [Jobs -> JobRecord \cup {Absent}], job : Jobs \cup {"none"},
           view : JobView, size : Nat, settled : SUBSET Jobs]

\* A pass is at work on one job.
AtJob == run.at \notin {"rest", "job"}

\* Records, sessions and the pass keep their shapes, and a job's root is stored.
JobTypes ==
    /\ job \in [Jobs -> JobRecord] /\ summary \in [Jobs -> JobRecord \cup {Absent}]
    /\ detail \in [Jobs -> JobRecord \cup {Absent, Torn}] /\ log \in [Jobs -> Nat]
    /\ session \in [Jobs -> JobSession] /\ run \in JobRun
    /\ \A j \in Jobs : session[j].root = "none" => session[j] = NoSession
    /\ \A j \in Jobs : Known(j) => session[j].root \in mains
    /\ \A j \in run.todo : run.read[j] # Absent
    /\ AtJob => run.job \in run.todo

\* A record that tells of an end is the last one, wherever it was copied; a view
\* that is certain tells what the summary told; a session that ended did so on
\* the last record, which the pass in progress has read as well.
OutcomeOK ==
    /\ \A j \in Jobs :
          /\ summary[j].state \in Terminal => summary[j] = job[j]
          /\ run.read[j].state \in Terminal => run.read[j] = job[j] /\ summary[j] = job[j]
          /\ session[j].state \in Terminal =>
                /\ session[j].state = job[j].state /\ summary[j] = job[j]
                /\ j \in run.todo => run.read[j] = job[j]
    /\ AtJob /\ run.view.certain => run.view.state = run.read[run.job].state

\* What was history when the pass read the summary is history still, and the pass
\* is at work on it only when the job was known.
HistoryOK ==
    /\ \A j \in run.settled : History(j) /\ (j \in run.todo => run.read[j] = job[j])
    /\ AtJob /\ (run.job \in run.settled \/ run.at # "register") => Known(run.job)

\* Sizes of the log for which the job was credited.
Sizes(j) == {n \in Nat : <<"log", j, n, "none", "none", TRUE>> \in seen}

\* However few bytes the credited sizes leave room for, there are not more credits.
CreditsFit(j) == \A k \in Nat \ {0} : (\A n \in Sizes(j) : n <= k) => credits[j] <= k - 1

\* Cursors and credited sizes are sizes the log has had, and the pass never holds an
\* older one than was credited.
CreditOK ==
    /\ cursor \in [Jobs -> Int] /\ credits \in [Jobs -> Nat]
    /\ \A j \in Jobs :
          /\ cursor[j] # 0 /\ -1 <= cursor[j] /\ cursor[j] <= log[j]
          /\ \A n \in Sizes(j) : n <= log[j]
          /\ CreditsFit(j)
    /\ run.at \in {"progress", "cursor"} =>
          /\ 1 <= run.size /\ run.size <= log[run.job]
          /\ \A n \in Sizes(run.job) : n <= run.size
    /\ run.at = "progress" => run.size > 1 /\ run.size > cursor[run.job]

JobInv == JobTypes /\ OutcomeOK /\ HistoryOK /\ CreditOK

\* The records that stand for nothing tell of no end.
LEMMA JobBlanks ==
    /\ Absent.state = "none" /\ Torn.state = "torn" /\ NoView \in JobView
    /\ NoSession \in JobSession /\ NoSession.root = "none" /\ NoSession.state = "none"
    /\ Terminal \subseteq States /\ "none" \notin States /\ "Stalled" \notin Terminal
    /\ Absent \notin JobRecord /\ Torn \notin JobRecord
BY DEF Absent, Torn, Record, NoView, JobView, NoSession, JobSession, Terminal, States, JobRecord

\* No pass runs.
LEMMA RestingOK ==
    /\ Resting \in JobRun /\ Resting.at = "rest" /\ Resting.todo = {} /\ Resting.settled = {}
    /\ \A j \in Jobs : Resting.read[j] = Absent
BY JobBlanks DEF Resting, JobRun

\* Nothing is recorded of a job that has just begun.
LEMMA JobsStart == JobInit => JobInv
<1> SUFFICES ASSUME JobInit PROVE JobInv
  OBVIOUS
<1>1. job \in [Jobs -> JobRecord]
  BY DEF JobInit, Record, JobRecord, States
<1>2. JobTypes
  BY <1>1, JobBlanks, RestingOK DEF JobInit, JobTypes, AtJob, Known
<1>3. OutcomeOK /\ HistoryOK
  BY JobBlanks, RestingOK DEF JobInit, OutcomeOK, HistoryOK, AtJob, Terminal
<1>4. CreditOK
  BY RestingOK DEF JobInit, CreditOK, Sizes, CreditsFit
<1>5. QED
  BY <1>2, <1>3, <1>4 DEF JobInv

\* The plugin at work: a job that ended stays as it is, and so do its records.
LEMMA FilesKeepJobs ==
    ASSUME JobInv, NEW k \in Jobs,
           \/ \E s \in States : Advance(k, s)
           \/ WriteSummary(k) \/ Prune(k) \/ AppendLog(k) \/ Age(k)
           \/ \E whole \in BOOLEAN : WriteDetail(k, whole)
    PROVE  JobInv'
<1>1. UNCHANGED <<aliased, store, run>>
  BY DEF Advance, WriteSummary, Prune, AppendLog, Age, WriteDetail
<1>2. /\ job' \in [Jobs -> JobRecord]
      /\ \A j \in Jobs : job[j].state \in Terminal => job'[j] = job[j]
      /\ \A j \in Jobs : job'[j] # job[j] => summary'[j] = summary[j]
  <2>1. CASE \E s \in States : Advance(k, s)
    <3>1. PICK s \in States : Advance(k, s)
      BY <2>1
    <3>2. job' = [job EXCEPT ![k] = Record(s, job[k].at + 1)]
      BY <3>1 DEF Advance
    <3>3. job[k].at + 1 \in Nat
      BY DEF JobInv, JobTypes, JobRecord
    <3>4. Record(s, job[k].at + 1) \in JobRecord
      BY <3>3 DEF Record, JobRecord
    <3>5. job[k].state \notin Terminal
      BY <3>1 DEF Advance, Terminal
    <3>6. QED
      BY <3>1, <3>2, <3>4, <3>5 DEF JobInv, JobTypes, Advance
  <2>2. CASE ~\E s \in States : Advance(k, s)
    BY <2>2 DEF WriteSummary, Prune, AppendLog, Age, WriteDetail, JobInv, JobTypes
  <2>3. QED
    BY <2>1, <2>2
<1>3. /\ summary' \in [Jobs -> JobRecord \cup {Absent}]
      /\ \A j \in Jobs : summary'[j] = summary[j] \/ (summary'[j] = job'[j] /\ summary[j] # job[j])
  BY DEF Advance, WriteSummary, Prune, AppendLog, Age, WriteDetail, JobInv, JobTypes
<1>4. detail' \in [Jobs -> JobRecord \cup {Absent, Torn}]
  BY DEF Advance, WriteSummary, Prune, AppendLog, Age, WriteDetail, JobInv, JobTypes
<1>5. log' \in [Jobs -> Nat] /\ \A j \in Jobs : log'[j] >= log[j]
  BY DEF Advance, WriteSummary, Prune, AppendLog, Age, WriteDetail, JobInv, JobTypes
<1>6. JobTypes'
  BY <1>1, <1>2, <1>3, <1>4, <1>5 DEF JobInv, JobTypes, store, AtJob, Known
<1>7. OutcomeOK'
  BY <1>1, <1>2, <1>3 DEF JobInv, JobTypes, OutcomeOK, store, AtJob
<1>8. ASSUME NEW j \in Jobs, History(j)
      PROVE  History(j)' /\ job'[j] = job[j]
  <2>1. job'[j] = job[j] /\ summary'[j] = summary[j]
    BY <1>2, <1>3, <1>8 DEF History
  <2>2. j \in aged'
    BY <1>8 DEF History, Advance, WriteSummary, Prune, AppendLog, Age, WriteDetail, Terminal
  <2>3. detail'[j] \in {job[j], Absent}
    BY <1>8 DEF History, Advance, WriteSummary, Prune, AppendLog, Age, WriteDetail, JobInv, JobTypes
  <2>4. QED
    BY <1>8, <2>1, <2>2, <2>3 DEF History
<1>9. HistoryOK'
  BY <1>1, <1>8 DEF JobInv, JobTypes, JobRun, HistoryOK, store, AtJob, Known
<1>10. CreditOK'
  <2>1. /\ UNCHANGED <<cursor, credits, seen, run>> /\ cursor \in [Jobs -> Int]
        /\ \A j \in Jobs : log[j] \in Nat /\ log'[j] \in Nat /\ log'[j] >= log[j] /\ cursor[j] \in Int
    BY <1>1, <1>5 DEF JobInv, JobTypes, CreditOK, store
  <2>2. \A j \in Jobs : Sizes(j)' = Sizes(j) /\ (CreditsFit(j) => CreditsFit(j)')
    BY <2>1 DEF Sizes, CreditsFit
  <2>3. run.at \in {"progress", "cursor"} => run.job \in Jobs /\ run.size \in Nat
    BY DEF JobInv, JobTypes, JobRun, AtJob
  <2>4. \A j \in Jobs : Sizes(j) \subseteq Nat
    BY DEF Sizes
  <2>5. \A j \in Jobs : /\ cursor'[j] # 0 /\ -1 <= cursor'[j] /\ cursor'[j] <= log'[j]
                        /\ \A n \in Sizes(j)' : n <= log'[j]
    BY <2>1, <2>2, <2>4 DEF JobInv, CreditOK
  <2>6. run.at \in {"progress", "cursor"} =>
          /\ 1 <= run.size /\ run.size <= log'[run.job]
          /\ \A n \in Sizes(run.job) : n <= run.size
    BY <2>1, <2>3 DEF JobInv, CreditOK
  <2>7. QED
    BY <2>1, <2>2, <2>3, <2>5, <2>6 DEF JobInv, CreditOK
<1>11. QED
  BY <1>6, <1>7, <1>9, <1>10 DEF JobInv

\* No step takes an outcome back, or begins a session for what was history.
StepOK ==
    \A j \in Jobs :
        /\ session[j].state \in Terminal => session'[j].state = session[j].state
        /\ j \in run.settled /\ session'[j] # NoSession => Known(j)

\* A step of the server, with the files as they are: a session takes an outcome only
\* from the record its pass has read.
LEMMA PassMoves ==
    ASSUME JobInv, UNCHANGED files, NEW p \in JobRun, run' = p,
           p.todo \subseteq run.todo, p.read = run.read, p.settled = run.settled,
           p.at \notin {"rest", "job"} =>
               /\ p.job \in p.todo
               /\ p.view.certain => p.view.state = p.read[p.job].state
               /\ p.job \in p.settled => Known(p.job)
               /\ p.at # "register" => session'[p.job] # NoSession,
           session' \in [Jobs -> JobSession], mains \subseteq mains',
           \A j \in Jobs :
              /\ session'[j].root = "none" => session'[j] = NoSession
              /\ Known(j) => session'[j].root = session[j].root
              /\ session'[j] # NoSession => Known(j) \/ (session'[j].root \in mains' /\ j \notin run.settled)
              /\ session'[j].state \in Terminal =>
                    session'[j].state = session[j].state
                    \/ (j \in run.todo /\ session'[j].state = run.read[j].state)
    PROVE  JobTypes' /\ OutcomeOK' /\ HistoryOK'
<1>1. UNCHANGED <<job, summary, detail, log, aged>>
  BY DEF files
<1>2. \A j \in Jobs : Known(j) => Known(j)'
  BY JobBlanks DEF JobInv, JobTypes, Known
<1>3. JobTypes'
  BY <1>1, <1>2 DEF JobInv, JobTypes, AtJob, Known
<1>4. OutcomeOK'
  <2>1. ASSUME NEW j \in Jobs
        PROVE  /\ summary[j].state \in Terminal => summary[j] = job[j]
               /\ p.read[j].state \in Terminal => p.read[j] = job[j] /\ summary[j] = job[j]
               /\ session'[j].state \in Terminal =>
                     /\ session'[j].state = job[j].state /\ summary[j] = job[j]
                     /\ j \in p.todo => p.read[j] = job[j]
    BY DEF JobInv, OutcomeOK
  <2>2. QED
    BY <1>1, <2>1 DEF OutcomeOK, AtJob
<1>5. HistoryOK'
  <2>1. p.settled \subseteq Jobs
    BY DEF JobRun
  <2>2. \A j \in run.settled : History(j)' /\ (j \in p.todo => p.read[j] = job[j])
    BY <1>1 DEF JobInv, HistoryOK, History
  <2>3. p.at \notin {"rest", "job"} /\ (p.job \in p.settled \/ p.at # "register") => Known(p.job)'
    BY <1>2, <2>1 DEF Known
  <2>4. QED
    BY <1>1, <2>2, <2>3 DEF HistoryOK, AtJob
<1>6. QED
  BY <1>3, <1>4, <1>5

\* A step that credits nothing.
LEMMA CreditStays ==
    ASSUME CreditOK, UNCHANGED <<log, cursor, credits>>, \A j \in Jobs : Sizes(j)' = Sizes(j),
           run'.at \notin {"progress", "cursor"}
    PROVE  CreditOK'
BY DEF CreditOK, CreditsFit

\* The pass turns to the next job.
LEMMA NextJobRun ==
    ASSUME JobInv, NextJob
    PROVE  /\ run' \in JobRun /\ run'.at = "job" /\ run'.todo \subseteq run.todo
           /\ run'.read = run.read /\ run'.settled = run.settled
<1>1. run \in JobRun
  BY DEF JobInv, JobTypes
<1>2. QED
  BY <1>1, JobBlanks DEF NextJob, JobRun

\* What a pass at work on a job knows of it.
LEMMA AtWork ==
    ASSUME JobInv, AtJob
    PROVE  /\ run \in JobRun /\ run.job \in Jobs /\ run.job \in run.todo /\ run.size \in Nat
           /\ run.read[run.job] \in JobRecord /\ run.view \in JobView
           /\ run.view.certain => run.view.state = run.read[run.job].state
           /\ run.job \in run.settled \/ run.at # "register" => Known(run.job)
BY DEF JobInv, JobTypes, JobRun, OutcomeOK, HistoryOK

\* Another part of the server, or a pass that only moves on.
LEMMA IdleKeepsJobs ==
    ASSUME JobInv, UNCHANGED files, NEW p \in JobRun, run' = p, p.at = "job",
           p.todo \subseteq run.todo, p.read = run.read, p.settled = run.settled,
           UNCHANGED <<session, seen, cursor, credits>>, mains \subseteq mains'
    PROVE  JobInv' /\ StepOK
<1>1. JobTypes' /\ OutcomeOK' /\ HistoryOK'
  BY PassMoves, JobBlanks DEF JobInv, JobTypes, Known
<1>2. CreditOK'
  BY CreditStays DEF JobInv, Sizes, files
<1>3. QED
  BY <1>1, <1>2 DEF JobInv, StepOK, Known

\* A session stalls, an alias is learned.
LEMMA AsideKeepsJobs ==
    ASSUME JobInv, LearnAlias \/ \E j \in Jobs : Stall(j)
    PROVE  JobInv' /\ StepOK
<1>1. CASE LearnAlias
  <2>1. UNCHANGED <<job, summary, detail, log, aged, mains, session, cursor, credits, seen, run>>
    BY <1>1 DEF LearnAlias, files, store
  <2>2. JobTypes' /\ OutcomeOK' /\ HistoryOK' /\ CreditOK'
    BY <2>1 DEF JobInv, JobTypes, OutcomeOK, HistoryOK, History, CreditOK, CreditsFit, Sizes, AtJob, Known
  <2>3. QED
    BY <2>1, <2>2 DEF JobInv, StepOK, Known
<1>2. ASSUME NEW k \in Jobs, Stall(k)
      PROVE  JobInv' /\ StepOK
  <2>1. /\ UNCHANGED <<job, summary, detail, log, aged, mains, cursor, credits, seen, run>>
        /\ session' = [session EXCEPT ![k].state = "Stalled"]
        /\ session[k].state \in {"Starting", "Running"}
    BY <1>2 DEF Stall, files
  <2>2. session \in [Jobs -> JobSession] /\ run \in JobRun
    BY DEF JobInv, JobTypes
  <2>3. /\ session' \in [Jobs -> JobSession]
        /\ \A j \in Jobs : /\ session'[j].root = session[j].root
                           /\ session'[j].state = IF j = k THEN "Stalled" ELSE session[j].state
                           /\ j # k => session'[j] = session[j]
    BY <2>1, <2>2 DEF JobSession
  <2>4. session[k] # NoSession /\ session[k].root # "none"
    BY <2>1, JobBlanks DEF JobInv, JobTypes
  <2>5. JobTypes' /\ OutcomeOK' /\ HistoryOK'
    <3>1. \A j \in Jobs : Known(j) <=> Known(j)'
      BY <2>3, <2>4, JobBlanks DEF JobInv, JobTypes, Known
    <3>2. JobTypes'
      BY <2>1, <2>3, <2>4, <3>1, JobBlanks DEF JobInv, JobTypes, AtJob, Known
    <3>3. OutcomeOK'
      BY <2>1, <2>3, JobBlanks DEF JobInv, OutcomeOK, AtJob
    <3>4. run.settled \subseteq Jobs /\ (AtJob => run.job \in Jobs)
      BY <2>2, AtWork DEF JobRun
    <3>5. HistoryOK'
      BY <2>1, <3>1, <3>4 DEF JobInv, HistoryOK, History, AtJob
    <3>6. QED
      BY <3>2, <3>3, <3>5
  <2>6. CreditOK'
    BY <2>1 DEF JobInv, CreditOK, CreditsFit, Sizes
  <2>7. StepOK
    BY <2>1, <2>3, <2>4, JobBlanks DEF StepOK, Known, Terminal
  <2>8. QED
    BY <2>5, <2>6, <2>7 DEF JobInv
<1>3. QED
  BY <1>1, <1>2

\* A pass begins with the summary.
LEMMA SummaryKeepsJobs ==
    ASSUME JobInv, ReadSummary
    PROVE  JobInv' /\ StepOK
<1>1. UNCHANGED <<job, summary, detail, log, aged, aliased, mains, session, cursor, credits, seen>>
  BY DEF ReadSummary, files, store
<1>2. CASE run' = run
  <2>1. JobTypes' /\ OutcomeOK' /\ HistoryOK' /\ CreditOK'
    BY <1>1, <1>2 DEF JobInv, JobTypes, OutcomeOK, HistoryOK, History, CreditOK, CreditsFit, Sizes,
       AtJob, Known
  <2>2. QED
    BY <1>1, <2>1 DEF JobInv, StepOK, Known
<1>3. CASE run' # run
  <2> DEFINE all == {j \in Jobs : summary[j] # Absent}
             old == {j \in Jobs : History(j)}
  <2>1. run' = [Resting EXCEPT !.at = "job", !.read = summary, !.todo = all, !.settled = old]
    BY <1>3 DEF ReadSummary
  <2>2. all \subseteq Jobs /\ old \subseteq Jobs /\ (\A j \in all : summary[j] # Absent)
        /\ \A j \in old : History(j)
    OBVIOUS
  <2> HIDE DEF all, old
  <2>3. /\ run' \in JobRun /\ run'.at = "job" /\ run'.read = summary
        /\ run'.todo = all /\ run'.settled = old
    BY <2>1, <2>2, RestingOK DEF JobRun, JobInv, JobTypes
  <2>4. JobTypes'
    BY <1>1, <2>2, <2>3 DEF JobInv, JobTypes, AtJob, Known
  <2>5. OutcomeOK'
    BY <1>1, <2>3 DEF JobInv, OutcomeOK, AtJob
  <2>6. HistoryOK'
    BY <1>1, <2>2, <2>3 DEF HistoryOK, History, AtJob
  <2>7. CreditOK'
    BY <1>1, <2>3, CreditStays DEF JobInv, Sizes
  <2>8. StepOK
    BY <1>1 DEF StepOK, Known
  <2>9. QED
    BY <2>4, <2>5, <2>6, <2>7, <2>8 DEF JobInv
<1>4. QED
  BY <1>2, <1>3

\* The second file of a job: a view that is certain tells what the summary told, and
\* what was history is left alone unless the job is known.
LEMMA DetailKeepsJobs ==
    ASSUME JobInv, NEW k \in Jobs, ReadDetail(k)
    PROVE  JobInv' /\ StepOK
<1>1. UNCHANGED <<job, summary, detail, log, aged, aliased, mains, session, cursor, credits, seen>>
      /\ run.at = "job" /\ k \in run.todo
  BY DEF ReadDetail, files, store
<1>2. PICK d \in {detail[k], Absent} :
        run' = IF Admitted(k, Reconcile(run.read[k], d))
               THEN [run EXCEPT !.at = "register", !.job = k, !.view = Reconcile(run.read[k], d)]
               ELSE [run EXCEPT !.todo = @ \ {k}]
  BY DEF ReadDetail
<1> DEFINE v == Reconcile(run.read[k], d)
<1>3. run \in JobRun /\ run.read[k] \in JobRecord /\ run.read[k] # Absent
  BY <1>1 DEF JobInv, JobTypes, JobRun
<1>4. v \in JobView /\ (v.certain => v.state = run.read[k].state)
  <2>1. run.read[k].state \in States /\ run.read[k].at \in Nat
    BY <1>3 DEF JobRecord
  <2>2. QED
    BY <2>1 DEF Reconcile, JobView
<1>5. ASSUME k \in run.settled, Admitted(k, v)
      PROVE  Known(k)
  <2>1. History(k) /\ run.read[k] = job[k]
    BY <1>1, <1>5 DEF JobInv, HistoryOK
  <2>2. d \in {job[k], Absent} /\ job[k].state \in Terminal
    BY <2>1 DEF History
  <2>3. v.state = job[k].state
    BY <2>1, <2>2 DEF Reconcile
  <2>4. QED
    BY <1>5, <2>1, <2>2, <2>3 DEF Admitted, History
<1>6. CASE Admitted(k, v)
  <2> DEFINE w == v
  <2>1. run' = [run EXCEPT !.at = "register", !.job = k, !.view = w]
    BY <1>2, <1>6
  <2>2. w \in JobView /\ (w.certain => w.state = run.read[k].state)
    BY <1>4
  <2> HIDE DEF w, v
  <2>3. /\ run' \in JobRun /\ run'.at = "register" /\ run'.job = k /\ run'.view = w
        /\ run'.todo = run.todo /\ run'.read = run.read /\ run'.settled = run.settled
    BY <1>3, <2>1, <2>2 DEF JobRun
  <2>4. PICK p \in JobRun : run' = p
    BY <2>3
  <2>5. JobTypes' /\ OutcomeOK' /\ HistoryOK'
    BY <1>1, <1>5, <1>6, <2>2, <2>3, <2>4, PassMoves DEF files, JobInv, JobTypes, Known
  <2>6. CreditOK'
    BY <1>1, <2>3, CreditStays DEF JobInv, Sizes
  <2>7. QED
    BY <1>1, <2>5, <2>6 DEF JobInv, StepOK, Known
<1>7. CASE ~Admitted(k, v)
  <2>1. run' = [run EXCEPT !.todo = run.todo \ {k}]
    BY <1>2, <1>7
  <2>2. PICK p \in JobRun : run' = p
    BY <1>3, <2>1 DEF JobRun
  <2>3. p.at = "job" /\ p.todo \subseteq run.todo /\ p.read = run.read /\ p.settled = run.settled
    BY <1>1, <1>3, <2>1, <2>2 DEF JobRun
  <2>4. QED
    BY <1>1, <2>2, <2>3, IdleKeepsJobs DEF files
<1>8. QED
  BY <1>6, <1>7

\* The pass changes at most the session of its job.
LEMMA OneSession ==
    ASSUME JobInv, AtJob, UNCHANGED files, NEW p \in JobRun, run' = p,
           p.todo \subseteq run.todo, p.read = run.read, p.settled = run.settled,
           NEW e \in JobSession,
           \/ p.at = "job"
           \/ p.job = run.job /\ p.todo = run.todo /\ p.view = run.view /\ e # NoSession,
           session' = [session EXCEPT ![run.job] = e], mains \subseteq mains',
           e = session[run.job] \/ e.root # "none",
           Known(run.job) => e.root = session[run.job].root,
           e.root \in mains' \/ Known(run.job) \/ e = session[run.job],
           run.job \in run.settled => Known(run.job),
           \/ e.state = session[run.job].state
           \/ e.state = run.read[run.job].state
           \/ e.state \notin Terminal /\ session[run.job].state \notin Terminal
    PROVE  JobTypes' /\ OutcomeOK' /\ HistoryOK' /\ StepOK
<1>1. session \in [Jobs -> JobSession] /\ run.job \in Jobs /\ run.job \in run.todo
  BY AtWork DEF JobInv, JobTypes
<1>2. session' \in [Jobs -> JobSession]
      /\ \A j \in Jobs : session'[j] = IF j = run.job THEN e ELSE session[j]
  BY <1>1
<1>3. \A j \in Jobs :
        /\ session'[j].root = "none" => session'[j] = NoSession
        /\ Known(j) => session'[j].root = session[j].root
        /\ session'[j] # NoSession => Known(j) \/ (session'[j].root \in mains' /\ j \notin run.settled)
        /\ session'[j].state \in Terminal =>
              session'[j].state = session[j].state
              \/ (j \in run.todo /\ session'[j].state = run.read[j].state)
  BY <1>1, <1>2 DEF JobInv, JobTypes, Known
<1>4. p.at \notin {"rest", "job"} =>
        /\ p.job \in p.todo
        /\ p.view.certain => p.view.state = p.read[p.job].state
        /\ p.job \in p.settled => Known(p.job)
        /\ p.at # "register" => session'[p.job] # NoSession
  BY <1>1, <1>2, AtWork
<1>5. StepOK
  <2>1. session[run.job].state \in Terminal =>
          session[run.job].state = job[run.job].state /\ run.read[run.job] = job[run.job]
    BY <1>1 DEF JobInv, OutcomeOK
  <2>2. QED
    BY <1>1, <1>2, <2>1 DEF StepOK, Known
<1>6. QED
  BY <1>2, <1>3, <1>4, <1>5, PassMoves

\* The job gets its session, below the owner's.
LEMMA RegisterKeepsJobs ==
    ASSUME JobInv, Register
    PROVE  JobInv' /\ StepOK
<1> DEFINE root == IF aliased THEN "canonical" ELSE "owner"
           k == run.job
           new == [root |-> root, state |-> "Starting", gate |-> FALSE]
<1>1. UNCHANGED <<files, cursor, credits, seen>> /\ run.at = "register" /\ AtJob
  BY DEF Register, AtJob
<1>2. UNCHANGED <<job, summary, detail, log, aged>>
  BY <1>1 DEF files
<1>3. k \in Jobs /\ session \in [Jobs -> JobSession] /\ new \in JobSession /\ new # NoSession
      /\ new.root = root /\ new.state = "Starting" /\ root # "none"
  BY <1>1, AtWork, JobBlanks DEF JobInv, JobTypes, JobSession, States
<1>4. CASE NextJob /\ session' = session
  <2>1. PICK p \in JobRun : run' = p
    BY <1>4, NextJobRun
  <2>2. mains \subseteq mains'
    BY DEF Register, EnsureParent
  <2>3. QED
    BY <1>1, <1>4, <2>1, <2>2, NextJobRun, IdleKeepsJobs
<1>5. CASE ~(NextJob /\ session' = session)
  <2>1. /\ mains' = mains \cup {root} /\ run' = [run EXCEPT !.at = "state"]
        /\ session' = IF Known(k) THEN session ELSE [session EXCEPT ![k] = new]
    BY <1>5 DEF Register, EnsureParent
  <2>2. /\ run' \in JobRun /\ run'.at = "state" /\ run'.job = k /\ run'.view = run.view
        /\ run'.todo = run.todo /\ run'.read = run.read /\ run'.settled = run.settled
    BY <1>1, <2>1, AtWork DEF JobRun
  <2>3. ASSUME ~Known(k) PROVE k \notin run.settled /\ session[k] = NoSession
    BY <1>1, <2>3, AtWork DEF Known
  <2>4. /\ session' \in [Jobs -> JobSession]
        /\ \A j \in Jobs : session'[j] = IF j = k /\ ~Known(k) THEN new ELSE session[j]
    BY <1>3, <2>1
  <2>5. PICK p \in JobRun : run' = p
    BY <2>2
  <2>6. p.at \notin {"rest", "job"} =>
          /\ p.job \in p.todo
          /\ p.view.certain => p.view.state = p.read[p.job].state
          /\ p.job \in p.settled => Known(p.job)
          /\ p.at # "register" => session'[p.job] # NoSession
    BY <1>1, <1>3, <2>2, <2>4, <2>5, AtWork DEF Known
  <2> HIDE DEF new, root
  <2>7. \A j \in Jobs :
          /\ session'[j].root = "none" => session'[j] = NoSession
          /\ Known(j) => session'[j].root = session[j].root
          /\ session'[j] # NoSession => Known(j) \/ (session'[j].root \in mains' /\ j \notin run.settled)
          /\ session'[j].state \in Terminal => session'[j].state = session[j].state
    BY <1>3, <2>1, <2>3, <2>4 DEF JobInv, JobTypes, Known, Terminal
  <2>8. mains \subseteq mains'
    BY <2>1
  <2>9. JobTypes' /\ OutcomeOK' /\ HistoryOK'
    BY <1>1, <2>2, <2>4, <2>5, <2>6, <2>7, <2>8, PassMoves
  <2>10. CreditOK'
    BY <1>1, <1>2, <2>2, CreditStays DEF JobInv, Sizes
  <2>11. StepOK
    <3>1. \A j \in Jobs : session[j].state \in Terminal => session'[j] = session[j]
      BY <2>3, <2>4, JobBlanks DEF Terminal
    <3>2. QED
      BY <2>7, <3>1 DEF StepOK
  <2>12. QED
    BY <2>9, <2>10, <2>11 DEF JobInv
<1>6. QED
  BY <1>4, <1>5

\* Identifiers of states are not those of log activity.
LEMMA StateKeyOK ==
    ASSUME NEW j, NEW v, seen' = seen \cup {EventKey(j, v)}
    PROVE  \A i \in Jobs : Sizes(i)' = Sizes(i)
BY DEF EventKey, Sizes

\* The state the files agree on: a job that ended is told of the same end again.
LEMMA StateKeepsJobs ==
    ASSUME JobInv, IngestJobState
    PROVE  JobInv' /\ StepOK
<1> DEFINE k == run.job
           id == EventKey(k, run.view)
           next == IF run.view.certain
                   THEN [session[k] EXCEPT !.state = run.view.state, !.gate = FALSE]
                   ELSE session[k]
           e == IF id \in seen THEN session[k] ELSE next
<1>1. UNCHANGED <<files, mains, cursor, credits>> /\ run.at = "state" /\ AtJob
  BY DEF IngestJobState, AtJob
<1>2. k \in Jobs /\ session \in [Jobs -> JobSession] /\ k \in run.todo
      /\ run.read[k] \in JobRecord /\ (run.view.certain => run.view.state = run.read[k].state)
  BY <1>1, AtWork DEF JobInv, JobTypes
<1>3. CASE NextJob /\ UNCHANGED <<session, seen>>
  <2>1. PICK p \in JobRun : run' = p
    BY <1>3, NextJobRun
  <2>2. QED
    BY <1>1, <1>3, <2>1, NextJobRun, IdleKeepsJobs
<1>4. CASE ~(NextJob /\ UNCHANGED <<session, seen>>)
  <2>1. /\ seen' = seen \cup {id} /\ run' = [run EXCEPT !.at = "log"]
        /\ session' = IF id \in seen THEN session ELSE [session EXCEPT ![k] = next]
    BY <1>4 DEF IngestJobState, Ingest
  <2>2. session' = [session EXCEPT ![k] = e]
    BY <1>2, <2>1
  <2>3. session[k] \in JobSession
    BY <1>2
  <2>4. /\ e \in JobSession /\ e.root = session[k].root
        /\ e.state = session[k].state \/ e.state = run.read[k].state
    BY <1>2, <2>3 DEF JobSession, JobRecord
  <2>5. e = session[k] \/ e.root # "none"
    <3>1. Known(k)
      BY <1>1, AtWork
    <3>2. QED
      BY <1>2, <2>4, <3>1 DEF JobInv, JobTypes, Known
  <2>6. /\ run' \in JobRun /\ run'.at = "log" /\ run'.job = k /\ run'.view = run.view
        /\ run'.todo = run.todo /\ run'.read = run.read /\ run'.settled = run.settled
    BY <1>1, <2>1, AtWork DEF JobRun
  <2>7. UNCHANGED log /\ \A i \in Jobs : Sizes(i)' = Sizes(i)
    BY <1>1, <2>1, StateKeyOK DEF files
  <2> HIDE DEF e, id, next
  <2>8. JobTypes' /\ OutcomeOK' /\ HistoryOK' /\ StepOK
    <3>1. Known(k) /\ session[k] # NoSession /\ session[k].root # "none"
      BY <1>1, <1>2, AtWork DEF JobInv, JobTypes, Known
    <3>2. e # NoSession
      BY <2>4, <3>1, JobBlanks
    <3>3. PICK p \in JobRun : run' = p
      BY <2>6
    <3>4. QED
      BY <1>1, <2>2, <2>4, <2>6, <3>1, <3>2, <3>3, OneSession
  <2>9. CreditOK'
    BY <1>1, <2>6, <2>7, CreditStays DEF JobInv
  <2>10. QED
    BY <2>8, <2>9 DEF JobInv
<1>5. QED
  BY <1>3, <1>4

\* The log is read: the size taken is not older than any credited.
LEMMA LogKeepsJobs ==
    ASSUME JobInv, ReadLog
    PROVE  JobInv' /\ StepOK
<1> DEFINE k == run.job
           at == IF Appended(k, log[k]) THEN "progress" ELSE "cursor"
<1>1. UNCHANGED <<files, store>> /\ UNCHANGED <<job, summary, detail, log, aged, mains, session, cursor, credits, seen>>
      /\ run.at = "log" /\ AtJob
  BY DEF ReadLog, AtJob, files, store
<1>2. CASE NextJob
  <2>1. PICK p \in JobRun : run' = p
    BY <1>2, NextJobRun
  <2>2. QED
    BY <1>1, <1>2, <2>1, NextJobRun, IdleKeepsJobs
<1>3. CASE ~NextJob
  <2>1. log[k] # 0 /\ run' = [run EXCEPT !.at = at, !.size = log[k]]
    BY <1>3 DEF ReadLog
  <2>2. /\ k \in Jobs /\ log[k] \in Nat /\ run \in JobRun /\ session \in [Jobs -> JobSession]
        /\ cursor[k] \in Int /\ cursor[k] # 0
    BY <1>1, AtWork DEF JobInv, JobTypes, CreditOK
  <2>3. at \in {"progress", "cursor"}
    OBVIOUS
  <2>4. at = "progress" => log[k] > cursor[k] /\ cursor[k] > 0
    BY <2>2 DEF Appended
  <2> HIDE DEF at
  <2>5. /\ run' \in JobRun /\ run'.at = at /\ run'.job = k /\ run'.view = run.view
        /\ run'.size = log[k]
        /\ run'.todo = run.todo /\ run'.read = run.read /\ run'.settled = run.settled
    BY <2>1, <2>2, <2>3 DEF JobRun
  <2>6. JobTypes' /\ OutcomeOK' /\ HistoryOK' /\ StepOK
    <3>1. PICK p \in JobRun : run' = p
      BY <2>5
    <3>2. session' = [session EXCEPT ![k] = session[k]] /\ session[k] \in JobSession
      BY <1>1, <2>2
    <3>3. session[k] # NoSession /\ session[k].root # "none" /\ Known(k)
      BY <1>1, <2>2, AtWork DEF JobInv, JobTypes, Known
    <3>4. QED
      BY <1>1, <2>5, <3>1, <3>2, <3>3, OneSession
  <2>7. CreditOK'
    <3>1. \A j \in Jobs : Sizes(j)' = Sizes(j) /\ (CreditsFit(j) => CreditsFit(j)')
      BY <1>1 DEF Sizes, CreditsFit
    <3>2. 1 <= log[k] /\ (at = "progress" => log[k] > 1) /\ \A n \in Sizes(k) : n <= log[k]
      BY <2>1, <2>2, <2>4 DEF JobInv, CreditOK
    <3>3. QED
      BY <1>1, <2>2, <2>3, <2>4, <2>5, <3>1, <3>2 DEF JobInv, CreditOK
  <2>8. QED
    BY <2>6, <2>7 DEF JobInv
<1>4. QED
  BY <1>2, <1>3

\* One more credit for a size that is above every credited one.
LEMMA CreditFits ==
    ASSUME NEW k \in Jobs, CreditsFit(k), credits[k] \in Nat, NEW n \in Nat, n > 1,
           n \notin Sizes(k), \A i \in Sizes(k) : i <= n,
           Sizes(k)' = Sizes(k) \cup {n}, credits'[k] = credits[k] + 1
    PROVE  CreditsFit(k)'
<1> SUFFICES ASSUME NEW l \in Nat \ {0}, \A i \in Sizes(k)' : i <= l
             PROVE  credits'[k] <= l - 1
  BY DEF CreditsFit
<1>1. n <= l
  OBVIOUS
<1>2. n - 1 \in Nat \ {0} /\ \A i \in Sizes(k) : i <= n - 1
  <2>1. Sizes(k) \subseteq Nat
    BY DEF Sizes
  <2>2. \A i \in Sizes(k) : i \in Nat /\ i <= n /\ i # n
    BY <2>1
  <2>3. QED
    BY <2>2
<1>3. credits[k] <= (n - 1) - 1
  BY <1>2 DEF CreditsFit
<1>4. QED
  BY <1>1, <1>3

\* A size of the log is credited once.
LEMMA ProgressKeepsJobs ==
    ASSUME JobInv, IngestProgress
    PROVE  JobInv' /\ StepOK
<1>0. PICK k, n : k = run.job /\ n = run.size
  OBVIOUS
<1> DEFINE id == <<"log", k, n, "none", "none", TRUE>>
           resumed == IF session[k].state = "Stalled" THEN "Running" ELSE session[k].state
           next == [session[k] EXCEPT !.state = resumed, !.gate = FALSE]
           e == IF id \in seen THEN session[k] ELSE next
<1>1. UNCHANGED <<files, mains, cursor>> /\ run.at = "progress" /\ AtJob
      /\ UNCHANGED <<job, summary, detail, log, aged>>
  BY DEF IngestProgress, AtJob, files
<1>2. k \in Jobs /\ session \in [Jobs -> JobSession] /\ run \in JobRun /\ n \in Nat
      /\ Known(k) /\ session[k] # NoSession /\ session[k].root # "none"
  BY <1>0, <1>1, AtWork DEF JobInv, JobTypes, Known
<1>3. CASE NextJob /\ UNCHANGED <<session, seen, credits>>
  <2>1. PICK p \in JobRun : run' = p
    BY <1>3, NextJobRun
  <2>2. QED
    BY <1>1, <1>3, <2>1, NextJobRun, IdleKeepsJobs
<1>4. CASE ~(NextJob /\ UNCHANGED <<session, seen, credits>>)
  <2>1. /\ seen' = seen \cup {id} /\ run' = [run EXCEPT !.at = "cursor"]
        /\ session' = IF id \in seen THEN session ELSE [session EXCEPT ![k] = next]
        /\ credits' = IF id \in seen THEN credits ELSE [credits EXCEPT ![k] = @ + 1]
    BY <1>0, <1>4 DEF IngestProgress, Ingest
  <2>2. session' = [session EXCEPT ![k] = e]
    BY <1>2, <2>1
  <2>3. session[k] \in JobSession
    BY <1>2
  <2>4. /\ e \in JobSession /\ e.root = session[k].root
        /\ e.state = session[k].state
             \/ (e.state \notin Terminal /\ session[k].state \notin Terminal)
    BY <2>3, JobBlanks DEF JobSession, States, Terminal
  <2>5. /\ run' \in JobRun /\ run'.at = "cursor" /\ run'.job = k /\ run'.view = run.view
        /\ run'.size = n
        /\ run'.todo = run.todo /\ run'.read = run.read /\ run'.settled = run.settled
    BY <1>0, <1>2, <2>1 DEF JobRun
  <2>6. /\ \A j \in Jobs : Sizes(j)' = IF j = k THEN Sizes(k) \cup {n} ELSE Sizes(j)
        /\ id \in seen <=> n \in Sizes(k)
    BY <1>2, <2>1 DEF Sizes
  <2> HIDE DEF e, next, resumed
  <2>7. JobTypes' /\ OutcomeOK' /\ HistoryOK' /\ StepOK
    <3>1. PICK p \in JobRun : run' = p
      BY <2>5
    <3>2. e # NoSession /\ e.root # "none"
      BY <1>2, <2>4, JobBlanks
    <3>3. QED
      BY <1>0, <1>1, <1>2, <2>2, <2>4, <2>5, <3>1, <3>2, OneSession
  <2>8. CreditOK'
    <3>1. /\ credits \in [Jobs -> Nat] /\ n > 1 /\ n <= log[k]
          /\ \A i \in Sizes(k) : i <= n
          /\ \A j \in Jobs : /\ cursor[j] # 0 /\ -1 <= cursor[j] /\ cursor[j] <= log[j]
                             /\ \A i \in Sizes(j) : i <= log[j]
                             /\ CreditsFit(j)
      BY <1>0, <1>1 DEF JobInv, CreditOK
    <3>2. credits' \in [Jobs -> Nat]
          /\ \A j \in Jobs : credits'[j] = IF j = k /\ n \notin Sizes(k) THEN credits[k] + 1 ELSE credits[j]
      <4> HIDE DEF id
      <4>1. CASE n \in Sizes(k)
        BY <1>2, <2>1, <2>6, <3>1, <4>1
      <4>2. CASE n \notin Sizes(k)
        <5>1. credits' = [credits EXCEPT ![k] = credits[k] + 1]
          BY <2>1, <2>6, <4>2
        <5>2. credits[k] + 1 \in Nat
          BY <1>2, <3>1
        <5>3. QED
          BY <1>2, <3>1, <4>2, <5>1, <5>2
      <4>3. QED
        BY <4>1, <4>2
    <3> HIDE DEF id
    <3>3. ASSUME NEW j \in Jobs PROVE CreditsFit(j)'
      <4>1. CASE j = k /\ n \notin Sizes(k)
        <5>1. CreditsFit(k) /\ credits[k] \in Nat
          BY <1>2, <3>1
        <5>2. Sizes(k)' = Sizes(k) \cup {n} /\ credits'[k] = credits[k] + 1
          BY <1>2, <2>6, <3>2, <4>1
        <5>3. CreditsFit(k)'
          BY <1>2, <3>1, <4>1, <5>1, <5>2, CreditFits
        <5>4. QED
          BY <4>1, <5>3
      <4>2. CASE ~(j = k /\ n \notin Sizes(k))
        <5>1. Sizes(j)' = Sizes(j) /\ credits'[j] = credits[j]
          BY <2>6, <3>2, <4>2
        <5>2. QED
          BY <3>1, <5>1 DEF CreditsFit
      <4>3. QED
        BY <4>1, <4>2
    <3>4. \A j \in Jobs : \A i \in Sizes(j)' : i <= log[j]
      BY <2>6, <3>1
    <3>5. 1 <= n /\ \A i \in Sizes(k)' : i <= n
      BY <1>2, <2>6, <3>1
    <3>6. run'.at = "cursor" /\ run'.size = n /\ run'.job = k
      BY <2>5
    <3>7. cursor \in [Jobs -> Int]
      BY DEF JobInv, CreditOK
    <3>8. QED
      BY <1>1, <3>1, <3>2, <3>3, <3>4, <3>5, <3>6, <3>7 DEF CreditOK
  <2>9. QED
    BY <2>7, <2>8 DEF JobInv
<1>5. QED
  BY <1>3, <1>4

\* The size read becomes the cursor.
LEMMA CursorKeepsJobs ==
    ASSUME JobInv, SaveCursor
    PROVE  JobInv' /\ StepOK
<1>1. UNCHANGED <<files, mains, session, credits, seen>> /\ run.at = "cursor" /\ AtJob /\ NextJob
      /\ (cursor' = cursor \/ cursor' = [cursor EXCEPT ![run.job] = run.size])
  BY DEF SaveCursor, AtJob
<1>2. PICK p \in JobRun : run' = p
  BY <1>1, NextJobRun
<1>3. JobTypes' /\ OutcomeOK' /\ HistoryOK'
  BY <1>1, <1>2, NextJobRun, PassMoves DEF JobInv, JobTypes, Known
<1>4. /\ run.job \in Jobs /\ run.size \in Nat /\ 1 <= run.size /\ run.size <= log[run.job]
      /\ cursor \in [Jobs -> Int]
  BY <1>1, AtWork DEF JobInv, CreditOK
<1>5. /\ cursor' \in [Jobs -> Int]
      /\ \A j \in Jobs : cursor'[j] = cursor[j] \/ (j = run.job /\ cursor'[j] = run.size)
  BY <1>1, <1>4
<1>6. /\ log' = log /\ run'.at = "job"
      /\ \A j \in Jobs : Sizes(j)' = Sizes(j) /\ (CreditsFit(j) => CreditsFit(j)')
  BY <1>1, NextJobRun DEF Sizes, CreditsFit, files
<1>7. \A j \in Jobs : cursor'[j] # 0 /\ -1 <= cursor'[j] /\ cursor'[j] <= log[j]
  BY <1>4, <1>5 DEF JobInv, CreditOK
<1>8. CreditOK'
  BY <1>1, <1>5, <1>6, <1>7 DEF JobInv, CreditOK
<1>9. QED
  BY <1>1, <1>3, <1>8 DEF JobInv, StepOK, Known

\* A gate set to what it was.
LEMMA SameGate ==
    ASSUME NEW a, NEW b, NEW g, NEW r, r = [root |-> a, state |-> b, gate |-> g]
    PROVE  [r EXCEPT !.gate = g] = r
OBVIOUS

\* A pass ends, or is lost in a restart, which keeps what the sessions came to.
LEMMA EndsKeepJobs ==
    ASSUME JobInv, Rest \/ Reboot
    PROVE  JobInv' /\ StepOK
<1>1. UNCHANGED <<job, summary, detail, log, aged, mains, cursor, credits, seen>> /\ run' = Resting
  BY DEF Rest, Reboot, files, store
<1>2. session \in [Jobs -> JobSession]
  BY DEF JobInv, JobTypes
<1>3. \A j \in Jobs : session'[j] = session[j]
                     \/ session'[j] = [session[j] EXCEPT !.gate = Known(j)]
  BY DEF Rest, Reboot, store
<1>4. \A j \in Jobs : session'[j] \in JobSession /\ session'[j].root = session[j].root
                     /\ session'[j].state = session[j].state
  BY <1>2, <1>3 DEF JobSession, Known
<1>5. session' \in [Jobs -> JobSession]
  <2>1. session' = session \/ session' = [j \in Jobs |-> [session[j] EXCEPT !.gate = Known(j)]]
    BY DEF Rest, Reboot, store
  <2>2. QED
    BY <1>2, <1>4, <2>1
<1>6. ASSUME NEW j \in Jobs, ~Known(j) PROVE session'[j] = NoSession
  <2>1. PICK b : b = Known(j)
    OBVIOUS
  <2>2. NoSession = [root |-> "none", state |-> "none", gate |-> b]
    <3>1. b = FALSE
      BY <1>6, <2>1
    <3>2. QED
      BY <3>1, Zenon DEF NoSession
  <2>3. session'[j] = session[j] \/ session'[j] = [session[j] EXCEPT !.gate = b]
    BY <1>3, <2>1
  <2>4. session[j] = NoSession
    BY <1>6 DEF Known
  <2>5. QED
    BY <2>2, <2>3, <2>4, SameGate
<1>7. \A j \in Jobs : session'[j].root = "none" => session'[j] = NoSession
  BY <1>4, <1>6 DEF JobInv, JobTypes, Known
<1>8. \A j \in Jobs : Known(j)' => Known(j)
  BY <1>6 DEF Known
<1>9. JobTypes'
  BY <1>1, <1>4, <1>5, <1>7, <1>8, RestingOK DEF JobInv, JobTypes, AtJob
<1>10. OutcomeOK' /\ HistoryOK' /\ CreditOK'
  BY <1>1, <1>4, JobBlanks, RestingOK
     DEF JobInv, OutcomeOK, HistoryOK, CreditOK, CreditsFit, Sizes, AtJob, Terminal
<1>11. StepOK
  BY <1>4, <1>8 DEF StepOK, Known
<1>12. QED
  BY <1>9, <1>10, <1>11 DEF JobInv

\* Every step keeps the invariant, and takes no outcome back.
LEMMA JobStepKeeps ==
    ASSUME JobInv, [JobNext]_jobVars
    PROVE  JobInv' /\ StepOK
<1>1. CASE UNCHANGED jobVars
  <2>1. UNCHANGED <<job, summary, detail, log, aged, mains, session, cursor, credits, seen, run>>
    BY <1>1 DEF jobVars, files, store
  <2>2. JobTypes' /\ OutcomeOK' /\ HistoryOK' /\ CreditOK'
    BY <2>1 DEF JobInv, JobTypes, OutcomeOK, HistoryOK, History, CreditOK, CreditsFit, Sizes, AtJob,
       Known
  <2>3. QED
    BY <2>1, <2>2 DEF JobInv, StepOK, Known
<1>2. CASE JobNext
  <2>1. CASE \E j \in Jobs : /\ ~Stall(j)
                           /\ \/ \E s \in States : Advance(j, s)
                              \/ WriteSummary(j) \/ Prune(j) \/ AppendLog(j) \/ Age(j)
                              \/ \E whole \in BOOLEAN : WriteDetail(j, whole)
    <3>1. JobInv'
      BY <2>1, FilesKeepJobs
    <3>2. UNCHANGED <<session, run>>
      BY <2>1 DEF Advance, WriteSummary, Prune, AppendLog, Age, WriteDetail, store
    <3>3. QED
      BY <3>1, <3>2 DEF StepOK, Known
  <2>2. CASE LearnAlias \/ \E j \in Jobs : Stall(j)
    BY <2>2, AsideKeepsJobs
  <2>3. CASE ReadSummary \/ JobStep \/ Reboot
    BY <2>3, SummaryKeepsJobs, DetailKeepsJobs, RegisterKeepsJobs, StateKeepsJobs, LogKeepsJobs,
       ProgressKeepsJobs, CursorKeepsJobs, EndsKeepJobs DEF JobStep
  <2>4. QED
    BY <1>2, <2>1, <2>2, <2>3 DEF JobNext
<1>3. QED
  BY <1>1, <1>2

\* Records, sessions, the pass and the log are in order.
LEMMA JobInvariant == JobSpec => []JobInv
<1>1. JobInit => JobInv
  BY JobsStart
<1>2. JobInv /\ [JobNext]_jobVars => JobInv'
  BY JobStepKeeps
<1>3. QED
  BY <1>1, <1>2, PTL DEF JobSpec

\* A job is shown with an outcome only when it has that outcome, and no pair of files
\* read at different times takes it back (CompanionParser::reconcile, companion_event_key).
THEOREM OutcomesStay == JobSpec => OutcomeIsFinal
<1>1. JobInv /\ [JobNext]_jobVars
      => [\A j \in Jobs :
            /\ session'[j].state \in Terminal => session'[j].state = job[j].state
            /\ session[j].state \in Terminal => session'[j].state = session[j].state]_jobVars
  <2> SUFFICES ASSUME JobInv, [JobNext]_jobVars, NEW j \in Jobs
               PROVE  /\ session'[j].state \in Terminal => \/ session'[j].state = job[j].state
                                                           \/ UNCHANGED jobVars
                      /\ session[j].state \in Terminal => session'[j].state = session[j].state
    OBVIOUS
  <2>1. JobInv' /\ StepOK
    BY JobStepKeeps
  <2>2. session[j].state \in Terminal => session'[j].state = session[j].state
    BY <2>1 DEF StepOK
  <2>3. session'[j].state \in Terminal => session'[j].state = job'[j].state
    BY <2>1 DEF JobInv, OutcomeOK
  <2>4. job'[j] = job[j] \/ session' = session
    BY DEF JobNext, Advance, WriteSummary, Prune, AppendLog, Age, Stall, WriteDetail, LearnAlias,
       ReadSummary, JobStep, ReadDetail, Register, IngestJobState, ReadLog, IngestProgress, SaveCursor,
       Rest, Reboot, jobVars, files, store
  <2>5. session' = session /\ session[j].state \in Terminal => session[j].state = job[j].state
    BY DEF JobInv, OutcomeOK
  <2>6. QED
    BY <2>2, <2>3, <2>4, <2>5
<1>2. QED
  BY <1>1, JobInvariant, PTL DEF JobSpec, OutcomeIsFinal

\* What was history when a pass read the summary gets no session from that pass
\* (should_reconcile_companion_job).
THEOREM HistoryIgnored == JobSpec => HistoryStaysOut
<1>1. JobInv /\ [JobNext]_jobVars
      => [\A j \in run.settled : session'[j] # NoSession => Known(j)]_jobVars
  <2>1. JobInv => run.settled \subseteq Jobs
    BY DEF JobInv, JobTypes, JobRun
  <2>2. QED
    BY <2>1, JobStepKeeps DEF StepOK
<1>2. QED
  BY <1>1, JobInvariant, PTL DEF JobSpec, HistoryStaysOut

\* Every credit is backed by a byte appended since the log was met, however often a pass
\* is cut short between the credit and the cursor (log_activity).
THEOREM AppendsCredited == JobSpec => []CreditsAreAppends
<1>1. JobInv => CreditsAreAppends
  <2> SUFFICES ASSUME JobInv, NEW j \in Jobs
               PROVE  credits[j] <= IF log[j] = 0 THEN 0 ELSE log[j] - 1
    BY DEF CreditsAreAppends
  <2>1. log[j] \in Nat /\ (\A n \in Sizes(j) : n <= log[j]) /\ CreditsFit(j) /\ credits[j] \in Nat
    BY DEF JobInv, JobTypes, CreditOK
  <2>2. CASE log[j] = 0
    <3>1. \A n \in Sizes(j) : n <= 1
      <4>1. Sizes(j) \subseteq Nat
        BY DEF Sizes
      <4>2. \A n \in Sizes(j) : n \in Nat /\ n <= 0
        BY <2>1, <2>2, <4>1
      <4>3. QED
        BY <4>2
    <3>2. 1 \in Nat \ {0} /\ 1 - 1 = 0
      OBVIOUS
    <3>3. credits[j] <= 0
      BY <2>1, <3>1, <3>2 DEF CreditsFit
    <3>4. QED
      BY <2>2, <3>3
  <2>3. CASE log[j] # 0
    BY <2>1, <2>3 DEF CreditsFit
  <2>4. QED
    BY <2>2, <2>3
<1>2. QED
  BY <1>1, JobInvariant, PTL

\* A finite set of one element has nothing else.
LEMMA OnlyOne ==
    ASSUME NEW S, IsFiniteSet(S), Cardinality(S) = 1
    PROVE  \E x : S = {x}
BY FS_Singleton

(* Transcripts. *)

AliasVisit == [at : {"idle", "teams", "team", "prepare", "register", "save", "bind", "tail"},
               teams : SUBSET Entries, todo : SUBSET Named,
               subject : Identities \cup {Nobody}, parent : Identities \cup {Nobody}]

\* Sessions, entries and the visit keep their shapes.
AliasTypes ==
    /\ shape \in Shapes
    /\ held \in [Identities -> Identities \cup {Nobody}]
    /\ row \in Named \cup {Nobody} /\ registry \subseteq Identities /\ cached \subseteq Entries
    /\ credited \subseteq Identities
    /\ visit \in AliasVisit /\ IsFiniteSet(visit.teams)
    /\ visit.at \in {"register", "save", "bind", "tail"} => visit.subject \in Identities
    /\ visit.at \in {"save", "bind"} => visit.subject # Wrapper

\* Whoever the transcript is, was or will be taken for was named without a rival, or is
\* the wrapper.
Supported ==
    /\ Justified(shape) \subseteq evidence /\ Justified(visit.teams) \subseteq evidence
    /\ \A e \in cached : e.subject \in evidence
    /\ registry \subseteq evidence \cup {Wrapper} /\ row \in evidence \cup {Nobody}
    /\ visit.at \in {"register", "save", "bind", "tail"} => visit.subject \in evidence \cup {Wrapper}
    /\ CreditNeedsEvidence

\* Roots are mains, and whatever a memory names is stored.
Rooted ==
    /\ \A s \in Identities : held[s] # Nobody => held[held[s]] = held[s]
    /\ \A s \in registry \cup credited \cup ({row} \ {Nobody}) : held[s] # Nobody
    /\ visit.at \in {"save", "bind"} => held[visit.subject] # Nobody

AliasInv == AliasTypes /\ Supported /\ Rooted

\* A match is a session named without a rival (ClaudeTeamTranscriptAliases::resolve).
LEMMA MatchJustified ==
    ASSUME NEW entries, entries \subseteq Entries, IsFiniteSet(entries)
    PROVE  Match(entries) \subseteq Entries /\ \A e \in Match(entries) : e.subject \in Justified(entries)
<1> DEFINE members == {e \in entries : e.parent # Nobody}
           leads == entries \ members
           parents == {e.parent : e \in members}
<1>1. IsFiniteSet(members) /\ IsFiniteSet(leads) /\ members \subseteq entries
  BY FS_Subset
<1>2. IsFiniteSet(parents)
  <2> DEFINE f == [e \in members |-> e.parent]
  <2>1. f \in Surjection(members, parents)
    BY DEF Surjection
  <2>2. QED
    BY <1>1, <2>1, FS_Surjection
<1>3. \A e \in entries : e.subject \in Named /\ e.parent \in Named \cup {Nobody}
                         /\ e = Entry(e.subject, e.parent)
  BY DEF Entries, Entry
<1>4. CASE Cardinality(members) = 1
  <2>1. PICK e : members = {e}
    BY <1>1, <1>4, OnlyOne
  <2>2. e \in entries /\ e.parent # Nobody /\ e.subject \in Named
        /\ \A f \in entries : f.parent # Nobody => f = e
    BY <1>3, <2>1
  <2>3. e.subject \in Justified(entries)
    BY <2>2 DEF Justified
  <2>4. Match(entries) = {e}
    BY <1>4, <2>1 DEF Match
  <2>5. QED
    BY <2>2, <2>3, <2>4
<1>5. CASE Cardinality(members) # 1 /\ Cardinality(parents) = 1
  <2>1. PICK p : parents = {p}
    BY <1>2, <1>5, OnlyOne
  <2>2. PICK e \in members : e.parent = p
    BY <2>1
  <2>3. members # {e}
    BY <1>5, FS_Singleton
  <2>4. PICK f \in members : f # e
    BY <2>2, <2>3
  <2>5. \A g \in entries : g.parent \in {Nobody, p}
    BY <2>1
  <2>6. p \in Named
    BY <1>3, <2>2
  <2>7. p \in Justified(entries)
    BY <2>2, <2>4, <2>5, <2>6 DEF Justified
  <2>8. Match(entries) = {Entry(p, Nobody)}
    BY <1>5, <2>1 DEF Match
  <2>9. Entry(p, Nobody) \in Entries /\ Entry(p, Nobody).subject = p
    BY <2>6 DEF Entry, Entries
  <2>10. QED
    BY <2>7, <2>8, <2>9
<1>6. CASE Cardinality(members) # 1 /\ Cardinality(parents) # 1 /\ Cardinality(leads) = 1
  <2>1. PICK e : leads = {e}
    BY <1>1, <1>6, OnlyOne
  <2>2. e \in entries /\ e.parent = Nobody /\ e.subject \in Named /\ e = Entry(e.subject, Nobody)
    BY <1>3, <2>1
  <2>3. \A g \in entries : g.parent = Nobody => g.subject = e.subject
    BY <2>1
  <2>4. ASSUME NEW g \in entries, g.parent # Nobody
        PROVE  \E f \in entries : f.parent \notin {Nobody, g.parent}
    <3>1. g.parent \in parents /\ parents # {g.parent}
      BY <1>6, <2>4, FS_Singleton
    <3>2. QED
      BY <3>1
  <2>5. e.subject \in Justified(entries)
    BY <2>2, <2>3, <2>4 DEF Justified
  <2>6. Match(entries) = {e}
    BY <1>6, <2>1 DEF Match
  <2>7. QED
    BY <2>2, <2>5, <2>6
<1>7. CASE Cardinality(members) # 1 /\ Cardinality(parents) # 1 /\ Cardinality(leads) # 1
  BY <1>7 DEF Match
<1>8. QED
  BY <1>4, <1>5, <1>6, <1>7

\* Nobody is known at the start.
LEMMA AliasesStart == AliasInit => AliasInv
<1> SUFFICES ASSUME AliasInit PROVE AliasInv
  OBVIOUS
<1>1. Nobody \notin Identities /\ Wrapper \in Identities
  BY AliasesAssumption DEF Identities
<1>2. /\ visit.at = "idle" /\ visit.teams = {} /\ visit \in AliasVisit
  BY DEF AliasInit, NoVisit, AliasVisit
<1>3. Justified({}) = {}
  BY DEF Justified
<1>4. IsFiniteSet({})
  BY FS_EmptySet
<1>5. QED
  BY <1>1, <1>2, <1>3, <1>4
     DEF AliasInit, AliasInv, AliasTypes, Supported, Rooted, CreditNeedsEvidence

\* What the store answers is the wrapper or a named session, stored and with evidence.
LEMMA ResolutionOK ==
    ASSUME AliasInv, Resolution # Nobody
    PROVE  /\ Resolution \in Identities /\ Resolution \in evidence \cup {Wrapper}
           /\ held[Resolution] # Nobody
BY AliasesAssumption DEF AliasInv, AliasTypes, Supported, Rooted, Resolution, Identities

\* Configurations change, sessions end, a lease of the alias clears a stale row.
LEMMA OutsideKeeps ==
    ASSUME AliasInv, EditTeams \/ ClaimLease \/ \E s \in Identities : SessionEnds(s)
    PROVE  AliasInv'
<1>1. /\ shape' \in Shapes /\ UNCHANGED <<held, registry, cached, visit, credited>>
      /\ row' \in {row, Nobody}
      /\ evidence \subseteq evidence' /\ Justified(shape') \subseteq evidence'
  BY DEF EditTeams, ClaimLease, SessionEnds, storedVars, AliasInv, AliasTypes, Supported
<1>2. AliasTypes'
  BY <1>1 DEF AliasInv, AliasTypes
<1>3. Supported'
  BY <1>1 DEF AliasInv, Supported, CreditNeedsEvidence
<1>4. Rooted'
  BY <1>1 DEF AliasInv, Rooted
<1>5. QED
  BY <1>2, <1>3, <1>4 DEF AliasInv

\* More sessions are stored, each below a main.
LEMMA MoreStored ==
    ASSUME AliasInv, UNCHANGED <<shape, registry, cached, credited, evidence>>, row' \in {row, Nobody},
           held' \in [Identities -> Identities \cup {Nobody}],
           NEW v \in AliasVisit, visit' = v, IsFiniteSet(v.teams),
           Justified(v.teams) \subseteq evidence,
           v.at \in {"register", "save", "bind", "tail"} =>
               v.subject \in Identities /\ v.subject \in evidence \cup {Wrapper},
           v.at \in {"save", "bind"} => v.subject # Wrapper /\ held'[v.subject] # Nobody,
           \A s \in Identities :
              /\ held[s] # Nobody => held'[s] = held[s]
              /\ held'[s] # Nobody => held'[held'[s]] = held'[s]
    PROVE  AliasInv'
<1>1. AliasTypes'
  BY DEF AliasInv, AliasTypes
<1>2. Supported'
  BY DEF AliasInv, Supported, CreditNeedsEvidence
<1>3. \A s \in registry \cup credited \cup ({row} \ {Nobody}) : s \in Identities /\ held[s] # Nobody
  BY DEF AliasInv, AliasTypes, Rooted, Identities
<1>4. Rooted'
  BY <1>3 DEF Rooted
<1>5. QED
  BY <1>1, <1>2, <1>4 DEF AliasInv

\* The wrapper becomes a main of its own.
LEMMA CommitKeeps ==
    ASSUME AliasInv, ClaimCommit PROVE AliasInv'
<1>1. /\ held' = [held EXCEPT ![Wrapper] = IF held[Wrapper] = Nobody THEN Wrapper ELSE held[Wrapper]]
      /\ UNCHANGED <<shape, row, registry, cached, visit, credited, evidence>>
  BY DEF ClaimCommit
<1>2. Wrapper \in Identities /\ Nobody \notin Identities
      /\ held \in [Identities -> Identities \cup {Nobody}] /\ visit \in AliasVisit
  BY AliasesAssumption DEF Identities, AliasInv, AliasTypes
<1>3. held' \in [Identities -> Identities \cup {Nobody}]
      /\ \A s \in Identities : held'[s] = IF s = Wrapper /\ held[s] = Nobody THEN Wrapper ELSE held[s]
  BY <1>1, <1>2
<1>4. \A s \in Identities : held[s] # Nobody => held[s] \in Identities /\ held[held[s]] = held[s]
  BY <1>2 DEF AliasInv, Rooted
<1>5. \A s \in Identities : /\ held[s] # Nobody => held'[s] = held[s]
                           /\ held'[s] # Nobody => held'[held'[s]] = held'[s]
  BY <1>2, <1>3, <1>4
<1>6. PICK v \in AliasVisit : v = visit
  BY <1>2
<1>7. QED
  BY <1>1, <1>2, <1>3, <1>5, <1>6, MoreStored DEF AliasInv, AliasTypes, Supported, Rooted

\* The visit moves on; what it carries is unchanged or justified.
LEMMA VisitKeeps ==
    ASSUME AliasInv, UNCHANGED <<shape, held, registry, credited, evidence>>, row' \in {row, Nobody},
           NEW v \in AliasVisit, visit' = v, IsFiniteSet(v.teams),
           Justified(v.teams) \subseteq evidence,
           cached' \subseteq Entries, \A e \in cached' : e.subject \in evidence,
           v.at \in {"register", "save", "bind", "tail"} =>
               v.subject \in Identities /\ v.subject \in evidence \cup {Wrapper},
           v.at \in {"save", "bind"} => v.subject # Wrapper /\ held[v.subject] # Nobody
    PROVE  AliasInv'
<1>1. AliasTypes'
  BY DEF AliasInv, AliasTypes
<1>2. Supported'
  BY DEF AliasInv, Supported, CreditNeedsEvidence
<1>3. Rooted'
  BY DEF AliasInv, Rooted
<1>4. QED
  BY <1>1, <1>2, <1>3 DEF AliasInv

\* The registry takes a stored session that has evidence, or is the wrapper.
LEMMA BindKeeps ==
    ASSUME AliasInv, UNCHANGED <<shape, held, row, cached, credited, evidence>>,
           NEW at \in {"teams", "tail"}, visit' = [visit EXCEPT !.at = at],
           at = "tail" => visit.at = "bind",
           \/ registry' = registry
           \/ Resolution # Nobody /\ registry' = registry \cup {Resolution}
    PROVE  AliasInv'
<1>1. visit \in AliasVisit
  BY DEF AliasInv, AliasTypes
<1>2. /\ visit' \in AliasVisit /\ visit'.at = at /\ visit'.teams = visit.teams
      /\ visit'.subject = visit.subject
  BY <1>1 DEF AliasVisit
<1>3. AliasTypes'
  BY <1>2, ResolutionOK DEF AliasInv, AliasTypes
<1>4. Supported'
  BY <1>2, ResolutionOK DEF AliasInv, Supported, CreditNeedsEvidence
<1>5. Rooted'
  BY <1>2, ResolutionOK DEF AliasInv, Rooted
<1>6. QED
  BY <1>3, <1>4, <1>5 DEF AliasInv

\* hydrate_native_aliases and the binding of a saved row.
LEMMA RegistryTakes ==
    ASSUME AliasInv, Hydrate \/ BindSaved PROVE AliasInv'
<1>1. visit.at = "bind" => visit.subject # Nobody
  BY AliasesAssumption DEF AliasInv, AliasTypes
<1>2. row # Nobody => Resolution # Nobody
  BY AliasesAssumption DEF Resolution, Identities
<1>3. CASE Hydrate
  <2>1. UNCHANGED <<shape, held, row, cached, credited, evidence>>
        /\ visit' = [visit EXCEPT !.at = "teams"]
        /\ \/ registry' = registry
           \/ Resolution # Nobody /\ registry' = registry \cup {Resolution}
    BY <1>2, <1>3 DEF Hydrate, storedVars, BindAlias
  <2>2. QED
    BY <2>1, BindKeeps
<1>4. CASE BindSaved
  <2>1. UNCHANGED <<shape, held, row, cached, credited, evidence>>
        /\ visit' = [visit EXCEPT !.at = "tail"] /\ visit.at = "bind"
        /\ \/ registry' = registry
           \/ Resolution # Nobody /\ registry' = registry \cup {Resolution}
    BY <1>1, <1>4 DEF BindSaved, storedVars, BindAlias
  <2>2. QED
    BY <2>1, BindKeeps
<1>5. QED
  BY <1>3, <1>4

\* The configurations a pass works on are those on disk when it collects them.
LEMMA CollectKeeps ==
    ASSUME AliasInv, CollectTeams PROVE AliasInv'
<1>1. PICK v : v = [visit EXCEPT !.at = AfterTeams(Leads(shape)), !.teams = shape, !.todo = Leads(shape)]
  OBVIOUS
<1>2. visit' = v /\ UNCHANGED <<shape, held, row, registry, cached, credited, evidence>>
  BY <1>1 DEF CollectTeams, storedVars
<1>3. shape \subseteq Entries /\ IsFiniteSet(shape) /\ visit \in AliasVisit
  BY AliasesAssumption DEF AliasInv, AliasTypes
<1>4. Leads(shape) \subseteq Named
  BY <1>3 DEF Leads, Entries
<1>5. AfterTeams(Leads(shape)) \in {"team", "prepare"}
  BY DEF AfterTeams
<1>6. v \in AliasVisit /\ v.at \in {"team", "prepare"} /\ v.teams = shape
  BY <1>1, <1>3, <1>4, <1>5 DEF AliasVisit
<1>7. Justified(v.teams) \subseteq evidence /\ IsFiniteSet(v.teams) /\ cached \subseteq Entries
      /\ \A e \in cached : e.subject \in evidence
  BY <1>3, <1>6 DEF AliasInv, AliasTypes, Supported
<1>8. QED
  BY <1>2, <1>6, <1>7, VisitKeeps

\* reconcile_team stores a lead as a main and members below it, or leaves a team out.
LEMMA TeamKeeps ==
    ASSUME AliasInv, NEW lead \in Named, ReconcileTeam(lead) PROVE AliasInv'
<1>1. PICK v : v = [visit EXCEPT !.at = AfterTeams(visit.todo \ {lead}), !.todo = visit.todo \ {lead}]
  OBVIOUS
<1>2. visit' = v /\ UNCHANGED <<shape, row, registry, cached, credited, evidence>>
      /\ \/ held' = held
         \/ held' = [s \in Identities |->
                       IF held[s] # Nobody \/ held[lead] \notin {Nobody, lead} THEN held[s]
                       ELSE IF s = lead \/ Entry(s, lead) \in visit.teams THEN lead ELSE Nobody]
  BY <1>1 DEF ReconcileTeam
<1>3. visit \in AliasVisit /\ lead \in Identities /\ Nobody \notin Identities
      /\ held \in [Identities -> Identities \cup {Nobody}]
  BY AliasesAssumption DEF Identities, AliasInv, AliasTypes
<1>4. AfterTeams(visit.todo \ {lead}) \in {"team", "prepare"}
  BY DEF AfterTeams
<1>5. v \in AliasVisit /\ v.at \in {"team", "prepare"} /\ v.teams = visit.teams
  BY <1>1, <1>3, <1>4 DEF AliasVisit
<1>6. \A s \in Identities : held[s] # Nobody => held[s] \in Identities /\ held[held[s]] = held[s]
  BY <1>3 DEF AliasInv, Rooted
<1>7. /\ held' \in [Identities -> Identities \cup {Nobody}]
      /\ \A s \in Identities : /\ held[s] # Nobody => held'[s] = held[s]
                              /\ held'[s] # Nobody => held'[held'[s]] = held'[s]
  BY <1>2, <1>3, <1>6
<1>8. Justified(v.teams) \subseteq evidence /\ IsFiniteSet(v.teams)
  BY <1>5 DEF AliasInv, AliasTypes, Supported
<1>9. QED
  BY <1>2, <1>5, <1>7, <1>8, MoreStored

\* prepare_transcript_candidate takes nobody without evidence.
LEMMA PrepareKeeps ==
    ASSUME AliasInv, Prepare PROVE AliasInv'
<1>1. visit.teams \subseteq Entries /\ IsFiniteSet(visit.teams) /\ visit \in AliasVisit
      /\ Justified(visit.teams) \subseteq evidence
      /\ registry \subseteq Identities /\ registry \subseteq evidence \cup {Wrapper}
      /\ cached \subseteq Entries /\ (\A e \in cached : e.subject \in evidence)
      /\ held \in [Identities -> Identities \cup {Nobody}]
  BY DEF AliasInv, AliasTypes, Supported, AliasVisit
<1>2. Match(visit.teams) \subseteq Entries /\ \A e \in Match(visit.teams) : e.subject \in evidence
  BY <1>1, MatchJustified
<1>3. ASSUME NEW e \in Entries PROVE e.subject \in Identities /\ e.parent \in Identities \cup {Nobody}
  BY DEF Entries, Identities
<1>4. ASSUME NEW e \in Candidates
      PROVE  /\ e.subject \in Identities /\ e.parent \in Identities \cup {Nobody}
             /\ e.subject \in evidence \cup {Wrapper}
  <2>1. CASE e \in cached \cup Match(visit.teams)
    BY <2>1, <1>1, <1>2, <1>3
  <2>2. CASE e \in {StoredEntry(s) : s \in registry}
    BY <2>2, <1>1 DEF StoredEntry, Entry
  <2>3. CASE e = Entry(Wrapper, Nobody)
    BY <2>3 DEF Entry, Identities
  <2>4. QED
    BY <2>1, <2>2, <2>3 DEF Candidates
<1>5. PICK e \in Candidates :
        visit' = [visit EXCEPT !.at = "register", !.subject = e.subject, !.parent = e.parent]
  BY DEF Prepare
<1>6. PICK v : v = [visit EXCEPT !.at = "register", !.subject = e.subject, !.parent = e.parent]
  OBVIOUS
<1>7. v \in AliasVisit /\ v.at = "register" /\ v.teams = visit.teams /\ v.subject = e.subject
  BY <1>1, <1>4, <1>6 DEF AliasVisit
<1>8. /\ visit' = v /\ UNCHANGED <<shape, held, row, registry, credited, evidence>>
      /\ cached' \in {cached, Match(visit.teams)}
  BY <1>5, <1>6 DEF Prepare, storedVars
<1>9. cached' \subseteq Entries /\ \A x \in cached' : x.subject \in evidence
  BY <1>1, <1>2, <1>8
<1>10. QED
  BY <1>1, <1>4, <1>7, <1>8, <1>9, VisitKeeps

\* discover_session stores the candidate below its main, or refuses it.
LEMMA RegisterKeeps ==
    ASSUME AliasInv, RegisterCandidate PROVE AliasInv'
<1> DEFINE s == visit.subject
           p == visit.parent
           parent == MissingParent(p)
           root == IF p = Nobody THEN s ELSE IF held[p] = Nobody THEN p ELSE held[p]
           redirected == s = Wrapper /\ Resolution \notin {Nobody, Wrapper} /\ ~StaleRow
           refused == held[s] \notin {Nobody, root}
<1>1. visit \in AliasVisit /\ held \in [Identities -> Identities \cup {Nobody}]
      /\ Nobody \notin Identities /\ s \in Identities /\ p \in Identities \cup {Nobody}
      /\ s \in evidence \cup {Wrapper}
      /\ Justified(visit.teams) \subseteq evidence /\ IsFiniteSet(visit.teams)
  BY AliasesAssumption DEF AliasInv, AliasTypes, Supported, AliasVisit, RegisterCandidate
<1>2. PICK v : v = IF refused THEN NoVisit
                  ELSE [visit EXCEPT !.at = IF s = Wrapper THEN "tail" ELSE "save"]
  OBVIOUS
<1>3. visit' = v /\ row' \in {row, Nobody}
      /\ UNCHANGED <<shape, registry, cached, credited, evidence>>
      /\ held' = [x \in Identities |->
                    IF x = parent THEN x
                    ELSE IF x = s /\ held[s] = Nobody /\ ~redirected THEN root
                    ELSE held[x]]
  BY <1>2 DEF RegisterCandidate
<1>4. \A x \in Identities : held[x] # Nobody => held[x] \in Identities /\ held[held[x]] = held[x]
  BY <1>1 DEF AliasInv, Rooted
<1>5. parent # Nobody => parent = p /\ held[p] = Nobody
  BY DEF MissingParent
<1>6. p # Nobody /\ held[p] = Nobody => parent = p
  BY DEF MissingParent
<1>7. root \in Identities
  BY <1>1, <1>4
<1>8. s # Wrapper => ~redirected
  OBVIOUS
<1> HIDE DEF parent, redirected
<1>9. /\ held' \in [Identities -> Identities \cup {Nobody}]
      /\ \A x \in Identities : held[x] # Nobody => held'[x] = held[x]
  BY <1>1, <1>3, <1>4, <1>5, <1>7
<1>10. held'[root] = root \/ held'[s] # root \/ (held[s] # Nobody)
  BY <1>1, <1>3, <1>4, <1>5, <1>6, <1>7
<1>11. ASSUME NEW x \in Identities, held'[x] # Nobody PROVE held'[held'[x]] = held'[x]
  <2>1. CASE held[x] # Nobody
    BY <2>1, <1>4, <1>9
  <2>2. CASE held[x] = Nobody /\ x = parent
    BY <2>2, <1>1, <1>3
  <2>3. CASE held[x] = Nobody /\ x # parent
    <3>1. x = s /\ held'[x] = root
      BY <2>3, <1>3, <1>11
    <3>2. QED
      BY <3>1, <2>3, <1>10
  <2>4. QED
    BY <2>1, <2>2, <2>3
<1>12. s # Wrapper /\ ~refused => held'[s] # Nobody
  BY <1>1, <1>3, <1>7, <1>8, <1>9
<1>13. CASE refused
  <2>1. v = NoVisit
    BY <1>2, <1>13
  <2>2. v \in AliasVisit /\ v.at = "idle" /\ v.teams = {}
    BY <2>1 DEF NoVisit, AliasVisit
  <2>3. Justified(v.teams) \subseteq evidence /\ IsFiniteSet(v.teams)
    BY <2>2, FS_EmptySet DEF Justified
  <2>4. QED
    BY <1>3, <1>9, <1>11, <2>2, <2>3, MoreStored
<1>14. CASE ~refused
  <2>1. v = [visit EXCEPT !.at = IF s = Wrapper THEN "tail" ELSE "save"]
    BY <1>2, <1>14
  <2>2. v \in AliasVisit /\ v.at = (IF s = Wrapper THEN "tail" ELSE "save") /\ v.teams = visit.teams
        /\ v.subject = s
    BY <2>1, <1>1 DEF AliasVisit
  <2> HIDE DEF s, p, root, refused
  <2>3. v.at \in {"save", "bind"} => v.subject # Wrapper /\ held'[v.subject] # Nobody
    BY <2>2, <1>12, <1>14
  <2>4. Justified(v.teams) \subseteq evidence /\ IsFiniteSet(v.teams)
        /\ v.subject \in Identities /\ v.subject \in evidence \cup {Wrapper}
    BY <2>2, <1>1
  <2>5. QED
    BY <1>3, <1>9, <1>11, <2>2, <2>3, <2>4, MoreStored
<1>15. QED
  BY <1>13, <1>14

\* persist_transcript_alias saves a stored session that has evidence.
LEMMA SaveKeeps ==
    ASSUME AliasInv, SaveAlias PROVE AliasInv'
<1>1. /\ visit.at = "save" /\ visit' \in {[visit EXCEPT !.at = "bind"], [visit EXCEPT !.at = "tail"]}
      /\ row' \in {row, visit.subject}
      /\ UNCHANGED <<shape, held, registry, cached, credited, evidence>>
  BY DEF SaveAlias
<1>2. visit \in AliasVisit /\ visit.subject \in Named /\ visit.subject \in evidence
      /\ held[visit.subject] # Nobody /\ visit.subject # Wrapper
  BY <1>1, AliasesAssumption DEF AliasInv, AliasTypes, Supported, Rooted, Identities
<1>3. /\ visit' \in AliasVisit /\ visit'.at \in {"bind", "tail"} /\ visit'.teams = visit.teams
      /\ visit'.subject = visit.subject
  BY <1>1, <1>2 DEF AliasVisit
<1>4. AliasTypes'
  BY <1>1, <1>2, <1>3 DEF AliasInv, AliasTypes, Identities
<1>5. Supported'
  BY <1>1, <1>2, <1>3 DEF AliasInv, Supported, CreditNeedsEvidence
<1>6. Rooted'
  BY <1>1, <1>2, <1>3 DEF AliasInv, Rooted
<1>7. QED
  BY <1>4, <1>5, <1>6 DEF AliasInv

\* A pass ends with a credit or is lost; memories are evicted.
LEMMA EndKeeps ==
    ASSUME AliasInv, TailCandidate \/ Evict \/ RestartAliases PROVE AliasInv'
<1>1. /\ UNCHANGED <<shape, held, row, evidence>>
      /\ registry' \subseteq registry /\ cached' \subseteq cached
      /\ visit' \in {visit, NoVisit}
      /\ \/ credited' = credited
         \/ /\ visit.at = "tail" /\ held[visit.subject] # Nobody
            /\ credited' = credited \cup {visit.subject}
  BY DEF TailCandidate, Evict, RestartAliases, storedVars
<1>2. NoVisit \in AliasVisit /\ NoVisit.at = "idle" /\ NoVisit.teams = {} /\ Justified({}) = {}
      /\ IsFiniteSet({})
  BY FS_EmptySet DEF NoVisit, AliasVisit, Justified
<1>3. AliasTypes'
  BY <1>1, <1>2 DEF AliasInv, AliasTypes
<1>4. Supported'
  BY <1>1, <1>2 DEF AliasInv, Supported, CreditNeedsEvidence
<1>5. Rooted'
  BY <1>1, <1>2 DEF AliasInv, Rooted
<1>6. QED
  BY <1>3, <1>4, <1>5 DEF AliasInv

\* Every step keeps the invariant.
LEMMA AliasStep ==
    AliasInv /\ [AliasNext]_aliasVars => AliasInv'
<1> SUFFICES ASSUME AliasInv, [AliasNext]_aliasVars PROVE AliasInv'
  OBVIOUS
<1>1. CASE EditTeams \/ ClaimLease \/ \E s \in Identities : SessionEnds(s)
  BY <1>1, OutsideKeeps
<1>2. CASE ClaimCommit
  BY <1>2, CommitKeeps
<1>3. CASE PassStep
  BY <1>3, RegistryTakes, CollectKeeps, TeamKeeps, PrepareKeeps, RegisterKeeps, SaveKeeps, EndKeeps
     DEF PassStep
<1>4. CASE Evict \/ RestartAliases
  BY <1>4, EndKeeps
<1>5. CASE UNCHANGED aliasVars
  BY <1>5 DEF aliasVars, AliasInv, AliasTypes, Supported, Rooted, CreditNeedsEvidence
<1>6. QED
  BY <1>1, <1>2, <1>3, <1>4, <1>5 DEF AliasNext

\* The sessions, the alias row and the memories of ClaudeDiscovery keep their shapes: a
\* root is a main, and whatever a memory names is stored.
THEOREM MemoriesNameStored == AliasSpec => []AliasTypeOK
<1>1. AliasInv => AliasTypeOK
  BY DEF AliasInv, AliasTypes, Rooted, AliasTypeOK, AliasVisit
<1>2. QED
  BY AliasesStart, AliasStep, <1>1, PTL DEF AliasSpec

\* reconcile_transcript credits records only to the identity the transcript carries or to a
\* session some configuration named without a rival, through whatever memory it chose it.
THEOREM CreditsHaveEvidence == AliasSpec => []CreditNeedsEvidence
<1>1. AliasInv => CreditNeedsEvidence
  BY DEF AliasInv, Supported
<1>2. QED
  BY AliasesStart, AliasStep, <1>1, PTL DEF AliasSpec

\* Once the wrapper is stored under its own identifier, neither hydrate_native_aliases nor
\* persist_transcript_alias maps it to another session.
THEOREM OwnIdentityWins == AliasSpec => ExactIdentityOutranks
<1>1. [AliasNext]_aliasVars => (held[Wrapper] # Nobody => registry' \ registry \subseteq {Wrapper})
  <2> SUFFICES ASSUME [AliasNext]_aliasVars, held[Wrapper] # Nobody
               PROVE  registry' \ registry \subseteq {Wrapper}
    OBVIOUS
  <2>1. Resolution = Wrapper
    BY DEF Resolution
  <2>2. CASE Hydrate \/ BindSaved
    BY <2>1, <2>2 DEF Hydrate, BindSaved, BindAlias
  <2>3. CASE ~(Hydrate \/ BindSaved)
    <3>1. registry' \subseteq registry
      BY <2>3 DEF AliasNext, PassStep, EditTeams, ClaimLease, ClaimCommit, CollectTeams, ReconcileTeam,
                  Prepare, RegisterCandidate, SaveAlias, TailCandidate, Evict, RestartAliases,
                  SessionEnds, aliasVars
    <3>2. QED
      BY <3>1
  <2>4. QED
    BY <2>2, <2>3
<1>2. QED
  BY <1>1, PTL DEF AliasSpec, ExactIdentityOutranks

-----------------------------------------------------------------------------
(* Team tasks. *)

TaskFile == [state : TaskStates, at : Nat] \cup {NoTask}
Fold == [at : {"idle", "active", "inactive"}, todo : SUBSET Tasks, task : Tasks \cup {"none"},
         state : TaskStates \cup {"none"}, got : SUBSET (TaskStates \X Nat), states : SUBSET TaskStates,
         terminal : [state : Finished, at : Nat] \cup {NoTask}, latest : Nat, tasks : Nat,
         busy : SUBSET Tasks, left : SUBSET Tasks]
Reported == [state : TaskStates \cup {"none", "Unknown"}, latest : Nat, tasks : Nat]
Member == [state : TaskStates \cup {"none", "Unknown", "Stalled"}, gate : BOOLEAN, report : Reported]

\* Files, the member and the pass keep their shapes.
TaskTypes ==
    /\ task \in [Tasks -> TaskFile] /\ count \in [updates : Nat, mishaps : Nat]
    /\ member \in Member
    /\ fold \in Fold
    /\ fold.task # "none" => fold.task \in fold.todo /\ fold.state \in TaskStates

Ended(f) == {r \in f.got : r[1] \in Finished}

\* The outcome kept is one that was read, and none that was read is newer.
LastOutcome(f) ==
    IF Ended(f) = {} THEN f.terminal = NoTask
    ELSE /\ <<f.terminal.state, f.terminal.at>> \in Ended(f)
         /\ \A r \in Ended(f) : r[2] <= f.terminal.at

\* A pass that folds no file.
Barren(f) == f.tasks = 0 /\ f.todo = {} /\ f.task = "none"

\* A task that ran from the start of the pass runs still, and if its file can be read, that is
\* yet to happen, happens as it runs, or did.
BusyOK ==
    \A k \in fold.busy \ fold.left :
        /\ task[k].state = "Running"
        /\ fold.at = "active" => k \in fold.todo \/ "Running" \in fold.states \/ Barren(fold)
        /\ fold.task = k => fold.state = "Running"

TasksInv == TaskTypes /\ LastOutcome(fold) /\ BusyOK

\* A pass that has not begun.
LEMMA EmptyFold == Empty \in Fold /\ LastOutcome(Empty) /\ Empty.busy = {} /\ Empty.task = "none"
BY DEF Empty, Fold, LastOutcome, Ended, NoTask

\* A file that is there is not the absence of one.
LEMMA NoTaskIsNone == NoTask.state = "none" /\ NoTask.state \notin TaskStates /\ NoTask.at = 0
                      /\ "Running" \notin Finished /\ Finished \subseteq TaskStates
BY DEF NoTask, TaskStates, Finished

\* A new server has no member and no pass.
LEMMA TasksStart == TaskInit => TasksInv
<1> SUFFICES ASSUME TaskInit PROVE TasksInv
  OBVIOUS
<1>1. [state |-> "Running", at |-> 1] \in TaskFile /\ NoTask \in TaskFile
  BY DEF TaskFile, TaskStates
<1>2. NoMember \in Member
  BY DEF NoMember, NoTotals, Member, Reported
<1>3. QED
  BY <1>1, <1>2, EmptyFold DEF TaskInit, TasksInv, TaskTypes, BusyOK

\* Claude rewrites or deletes a file: it is not one that kept running.
LEMMA FilesKeep ==
    ASSUME TasksInv, NEW k \in Tasks, DeleteTask(k) \/ \E s \in TaskStates : WriteTask(k, s)
    PROVE  TasksInv'
<1>1. /\ UNCHANGED member /\ fold' = [fold EXCEPT !.busy = @ \ {k}]
      /\ count' = [count EXCEPT !.updates = @ + 1]
  BY DEF DeleteTask, WriteTask, Update
<1>2. fold \in Fold /\ count \in [updates : Nat, mishaps : Nat]
  BY DEF TasksInv, TaskTypes
<1>3. /\ fold' \in Fold /\ fold'.busy = fold.busy \ {k} /\ fold'.at = fold.at /\ fold'.todo = fold.todo
      /\ fold'.task = fold.task /\ fold'.state = fold.state /\ fold'.states = fold.states
      /\ fold'.got = fold.got /\ fold'.terminal = fold.terminal
      /\ fold'.left = fold.left /\ fold'.tasks = fold.tasks
  BY <1>1, <1>2 DEF Fold
<1>4. /\ count' \in [updates : Nat, mishaps : Nat] /\ Clock \in Nat
  BY <1>1, <1>2 DEF Clock
<1>5. task' \in [Tasks -> TaskFile] /\ \A j \in Tasks \ {k} : task'[j] = task[j]
  <2>1. PICK file \in TaskFile : task' = [task EXCEPT ![k] = file]
    BY <1>4 DEF DeleteTask, WriteTask, TaskFile
  <2>2. QED
    BY <2>1 DEF TasksInv, TaskTypes
<1>6. TaskTypes'
  BY <1>1, <1>3, <1>4, <1>5 DEF TasksInv, TaskTypes
<1>7. LastOutcome(fold)'
  BY <1>3 DEF TasksInv, LastOutcome, Ended
<1>8. fold.busy \subseteq Tasks
  BY <1>2 DEF Fold
<1>9. BusyOK'
  BY <1>3, <1>5, <1>8 DEF TasksInv, BusyOK, Barren
<1>10. QED
  BY <1>6, <1>7, <1>9 DEF TasksInv

\* The member is registered, or a hook, a transcript or the timer moves it.
LEMMA MemberKeeps ==
    ASSUME NEW m \in Member, NEW s \in {"Starting", "Running", "Completed", "Stalled"}, NEW gate \in BOOLEAN
    PROVE  [m EXCEPT !.state = s, !.gate = gate] \in Member /\ [m EXCEPT !.gate = gate] \in Member
BY DEF Member, TaskStates

LEMMA MemberDiscovered ==
    ASSUME member \in Member, NEW gate \in BOOLEAN
    PROVE  Discovered(gate) \in Member
<1>1. CASE member = NoMember
  <2>1. Discovered(gate) = [member EXCEPT !.state = "Starting", !.gate = gate]
    BY <1>1 DEF Discovered
  <2>2. [member EXCEPT !.state = "Starting", !.gate = gate] \in Member
    BY MemberKeeps
  <2>3. QED
    BY <2>1, <2>2
<1>2. CASE member # NoMember
  <2>1. Discovered(gate) = [member EXCEPT !.state = member.state, !.gate = gate]
    BY <1>2 DEF Discovered
  <2>2. member.state \in TaskStates \cup {"none", "Unknown", "Stalled"}
    BY DEF Member
  <2>3. QED
    BY <2>1, <2>2 DEF Member
<1>3. QED
  BY <1>1, <1>2

\* reconcile_team begins a pass.
LEMMA TeamReadKeeps ==
    ASSUME TasksInv, ReadTeam PROVE TasksInv'
<1> DEFINE todo == IF config.unique THEN {k \in Tasks : task[k] # NoTask} ELSE {}
           busy == {k \in Tasks : task[k].state = "Running"}
           at == IF config.active THEN "active" ELSE "inactive"
<1>1. /\ UNCHANGED task /\ fold' = [Empty EXCEPT !.at = at, !.todo = todo, !.busy = busy]
  BY DEF ReadTeam
<1>2. member' \in Member /\ count' \in [updates : Nat, mishaps : Nat]
  <2>1. member \in Member /\ member.gate \in BOOLEAN /\ count \in [updates : Nat, mishaps : Nat]
    BY DEF TasksInv, TaskTypes, Member
  <2>2. member' = member \/ member' = Discovered(FALSE) \/ member' = Discovered(member.gate)
    BY DEF ReadTeam
  <2>3. count' = count \/ count' = [count EXCEPT !.mishaps = @ + 1]
    BY DEF ReadTeam, Smooth, Mishap
  <2>4. count' \in [updates : Nat, mishaps : Nat]
    BY <2>1, <2>3
  <2>5. QED
    BY <2>1, <2>2, <2>4, MemberDiscovered
<1>3. at \in {"active", "inactive"} /\ todo \subseteq Tasks /\ busy \subseteq Tasks
      /\ \A k \in busy : task[k].state = "Running" /\ (k \in todo \/ todo = {})
  BY NoTaskIsNone
<1> HIDE DEF at, todo, busy
<1>4. /\ fold' \in Fold /\ fold'.busy = busy /\ fold'.at = at /\ fold'.todo = todo
      /\ fold'.task = "none" /\ fold'.got = {} /\ fold'.terminal = NoTask /\ fold'.tasks = 0
  BY <1>1, <1>3, EmptyFold DEF Fold, Empty
<1>5. TaskTypes'
  BY <1>1, <1>2, <1>4 DEF TasksInv, TaskTypes
<1>6. LastOutcome(fold)'
  BY <1>4 DEF LastOutcome, Ended
<1>7. BusyOK'
  BY <1>1, <1>3, <1>4, TasksAssumption DEF BusyOK, Barren
<1>8. QED
  BY <1>5, <1>6, <1>7 DEF TasksInv

\* The content of a file is read, or the file is left out.
LEMMA ReadKeeps ==
    ASSUME TasksInv, NEW k \in Tasks, ReadTask(k) PROVE TasksInv'
<1> DEFINE skip == [fold EXCEPT !.todo = @ \ {k}]
<1>1. /\ UNCHANGED <<task, member>> /\ fold \in Fold /\ k \in fold.todo /\ fold.task = "none"
      /\ fold.busy \subseteq Tasks /\ ~Barren(fold)
  BY DEF ReadTask, Reading, TasksInv, TaskTypes, Fold, Barren
<1>2. count' \in [updates : Nat, mishaps : Nat]
  BY DEF TasksInv, TaskTypes, ReadTask, Smooth, Mishap
<1>3. \/ fold' = skip /\ (task[k] = NoTask \/ (fold.at = "inactive" /\ task[k].state \notin Finished))
      \/ fold' = [fold EXCEPT !.task = k, !.state = task[k].state] /\ task[k] # NoTask
      \/ fold' = [skip EXCEPT !.left = @ \cup {k}]
  BY DEF ReadTask
<1>4. task[k] # NoTask => task[k].state \in TaskStates
  BY DEF TasksInv, TaskTypes, TaskFile
<1>5. /\ fold' \in Fold /\ fold'.at = fold.at /\ fold'.states = fold.states /\ fold'.got = fold.got
      /\ fold'.terminal = fold.terminal /\ fold'.busy = fold.busy
      /\ \/ /\ fold'.todo = fold.todo \ {k} /\ fold'.task = "none" /\ fold'.state = fold.state
            /\ \/ /\ fold'.left = fold.left
                  /\ task[k] = NoTask \/ (fold.at = "inactive" /\ task[k].state \notin Finished)
               \/ fold'.left = fold.left \cup {k}
         \/ /\ fold'.todo = fold.todo /\ fold'.left = fold.left /\ fold'.task = k
            /\ fold'.state = task[k].state /\ task[k] # NoTask
  <2>1. CASE fold' = skip /\ (task[k] = NoTask \/ (fold.at = "inactive" /\ task[k].state \notin Finished))
    BY <1>1, <2>1 DEF Fold
  <2>2. CASE fold' = [fold EXCEPT !.task = k, !.state = task[k].state] /\ task[k] # NoTask
    BY <1>1, <1>4, <2>2 DEF Fold
  <2>3. CASE fold' = [skip EXCEPT !.left = @ \cup {k}]
    <3>1. /\ fold'.todo = fold.todo \ {k} /\ fold'.left = fold.left \cup {k} /\ fold'.task = "none"
          /\ fold'.state = fold.state /\ fold'.at = fold.at /\ fold'.states = fold.states
          /\ fold'.got = fold.got /\ fold'.terminal = fold.terminal /\ fold'.busy = fold.busy
      BY <1>1, <2>3 DEF Fold
    <3>2. fold' \in Fold
      BY <1>1, <2>3 DEF Fold
    <3>3. QED
      BY <3>1, <3>2
  <2>4. QED
    BY <1>3, <2>1, <2>2, <2>3
<1>6. TaskTypes'
  BY <1>1, <1>2, <1>4, <1>5 DEF TasksInv, TaskTypes
<1>7. LastOutcome(fold)'
  BY <1>5 DEF TasksInv, LastOutcome, Ended
<1>8. \A j \in fold.busy \ fold.left :
          task[j].state = "Running"
          /\ (fold.at = "active" => j \in fold.todo \/ "Running" \in fold.states)
  BY <1>1 DEF TasksInv, BusyOK
<1>9. BusyOK'
  BY <1>1, <1>5, <1>8, NoTaskIsNone, TasksAssumption DEF BusyOK
<1>10. QED
  BY <1>6, <1>7, <1>9 DEF TasksInv

\* ClaudeTaskAggregate::observe keeps the last outcome, whatever the order of the scan.
LEMMA ObserveKeeps ==
    ASSUME NEW f \in Fold, LastOutcome(f), NEW s \in TaskStates, NEW at \in Nat
    PROVE  LET g == Observe(f, s, at)
           IN  /\ g \in Fold /\ LastOutcome(g) /\ g.states = f.states \cup {s}
               /\ g.todo = f.todo /\ g.busy = f.busy /\ g.at = f.at /\ g.task = f.task
               /\ g.left = f.left
<1> DEFINE g == Observe(f, s, at)
           terminal == IF s \in Finished /\ at >= f.terminal.at THEN [state |-> s, at |-> at]
                       ELSE f.terminal
           latest == IF at > f.latest THEN at ELSE f.latest
<1>1. terminal \in [state : Finished, at : Nat] \cup {NoTask} /\ latest \in Nat
  BY DEF Fold
<1>2. g = [f EXCEPT !.states = @ \cup {s}, !.got = @ \cup {<<s, at>>}, !.terminal = terminal,
                    !.latest = latest, !.tasks = @ + 1]
  BY DEF Observe
<1> HIDE DEF terminal, latest, g
<1>3. /\ g \in Fold /\ g.states = f.states \cup {s} /\ g.got = f.got \cup {<<s, at>>}
      /\ g.terminal = terminal
      /\ g.todo = f.todo /\ g.busy = f.busy /\ g.at = f.at /\ g.task = f.task
      /\ g.left = f.left
  <2>1. f \in Fold /\ f.tasks \in Nat /\ f.tasks + 1 \in Nat /\ <<s, at>> \in TaskStates \X Nat
    BY DEF Fold
  <2> DEFINE states == f.states \cup {s}
             got == f.got \cup {<<s, at>>}
             tasks == f.tasks + 1
  <2>2. states \subseteq TaskStates /\ got \subseteq TaskStates \X Nat /\ tasks \in Nat
    BY <2>1 DEF Fold
  <2>3. g = [f EXCEPT !.states = states, !.got = got, !.terminal = terminal, !.latest = latest,
                      !.tasks = tasks]
    BY <1>2
  <2> HIDE DEF states, got, tasks
  <2>4. g \in Fold
    BY <1>1, <2>2, <2>3 DEF Fold
  <2>5. /\ g.states = states /\ g.got = got /\ g.terminal = terminal
        /\ g.todo = f.todo /\ g.busy = f.busy /\ g.at = f.at /\ g.task = f.task
        /\ g.left = f.left
    BY <2>3 DEF Fold
  <2>6. QED
    BY <2>4, <2>5 DEF states, got
<1>4. Ended(g) = IF s \in Finished THEN Ended(f) \cup {<<s, at>>} ELSE Ended(f)
  BY <1>3 DEF Ended
<1>5. f.terminal.at \in Nat /\ \A r \in Ended(f) : r[2] \in Nat
  BY NoTaskIsNone DEF Fold, Ended
<1>6. LastOutcome(g)
  <2>1. CASE s \notin Finished
    BY <1>3, <1>4, <2>1 DEF LastOutcome, terminal
  <2>2. CASE s \in Finished /\ at >= f.terminal.at
    <3>1. g.terminal = [state |-> s, at |-> at] /\ Ended(g) = Ended(f) \cup {<<s, at>>}
      BY <1>3, <1>4, <2>2 DEF terminal
    <3>2. \A r \in Ended(f) : r[2] <= at
      BY <1>5, <2>2 DEF LastOutcome
    <3>3. <<s, at>> \in Ended(g) /\ g.terminal.state = s /\ g.terminal.at = at
      BY <3>1
    <3>4. \A r \in Ended(g) : r[2] <= at
      BY <3>1, <3>2
    <3>5. QED
      BY <3>3, <3>4 DEF LastOutcome
  <2>3. CASE s \in Finished /\ ~(at >= f.terminal.at)
    <3>1. g.terminal = f.terminal /\ Ended(g) = Ended(f) \cup {<<s, at>>} /\ at <= f.terminal.at
      BY <1>3, <1>4, <1>5, <2>3 DEF terminal
    <3>2. Ended(f) # {}
      BY <2>3, NoTaskIsNone DEF LastOutcome
    <3>3. QED
      BY <3>1, <3>2 DEF LastOutcome
  <2>4. QED
    BY <2>1, <2>2, <2>3
<1>7. QED
  BY <1>3, <1>6 DEF g

\* The modification time is read, and the file counts.
LEMMA StatKeeps ==
    ASSUME TasksInv, StatTask PROVE TasksInv'
<1> DEFINE k == fold.task
           rest == [fold EXCEPT !.todo = @ \ {k}, !.task = "none", !.state = "none"]
<1>1. /\ UNCHANGED <<task, member>> /\ fold \in Fold /\ k # "none" /\ k \in fold.todo
      /\ fold.state \in TaskStates /\ k \in Tasks /\ fold.busy \subseteq Tasks /\ ~Barren(fold)
  BY DEF StatTask, TasksInv, TaskTypes, Fold, Barren
<1>2. /\ rest \in Fold /\ rest.todo = fold.todo \ {k} /\ rest.task = "none" /\ rest.busy = fold.busy
      /\ rest.states = fold.states /\ rest.at = fold.at /\ rest.got = fold.got
      /\ rest.terminal = fold.terminal /\ rest.left = fold.left
  BY <1>1 DEF Fold
<1>3. \/ fold' = IF task[k] = NoTask THEN rest ELSE Observe(rest, fold.state, task[k].at)
      \/ fold' = [rest EXCEPT !.left = @ \cup {k}]
  BY DEF StatTask
<1>11. count' \in [updates : Nat, mishaps : Nat]
  BY DEF TasksInv, TaskTypes, StatTask, Smooth, Mishap
<1> HIDE DEF rest
<1>4. LastOutcome(rest)
  BY <1>2 DEF TasksInv, LastOutcome, Ended
<1>5. task[k] # NoTask => task[k].at \in Nat
  BY <1>1 DEF TasksInv, TaskTypes, TaskFile
<1>6. /\ fold' \in Fold /\ LastOutcome(fold') /\ fold'.todo = fold.todo \ {k} /\ fold'.task = "none"
      /\ fold'.busy = fold.busy /\ fold'.at = fold.at
      /\ \/ /\ fold'.states = fold.states \cup {fold.state} /\ fold'.left = fold.left
         \/ /\ fold'.states = fold.states /\ fold'.left = fold.left /\ task[k] = NoTask
         \/ /\ fold'.states = fold.states /\ fold'.left = fold.left \cup {k}
  <2>1. CASE fold' = rest /\ task[k] = NoTask
    BY <1>2, <1>4, <2>1
  <2>2. CASE fold' = Observe(rest, fold.state, task[k].at) /\ task[k] # NoTask
    BY <1>1, <1>2, <1>4, <1>5, <2>2, ObserveKeeps
  <2>3. CASE fold' = [rest EXCEPT !.left = @ \cup {k}]
    <3>1. /\ fold' \in Fold /\ fold'.todo = rest.todo /\ fold'.task = rest.task
          /\ fold'.busy = rest.busy /\ fold'.at = rest.at /\ fold'.states = rest.states
          /\ fold'.got = rest.got /\ fold'.terminal = rest.terminal /\ fold'.left = rest.left \cup {k}
      BY <1>1, <1>2, <2>3 DEF Fold
    <3>2. LastOutcome(fold')
      BY <1>4, <3>1 DEF LastOutcome, Ended
    <3>3. QED
      BY <1>2, <3>1, <3>2
  <2>4. QED
    BY <1>3, <2>1, <2>2, <2>3
<1>7. TaskTypes'
  BY <1>1, <1>6, <1>11 DEF TasksInv, TaskTypes
<1>8. \A j \in fold.busy \ fold.left :
          /\ task[j].state = "Running"
          /\ fold.at = "active" => j \in fold.todo \/ "Running" \in fold.states
          /\ j = k => fold.state = "Running"
  BY <1>1 DEF TasksInv, BusyOK
<1> HIDE DEF k
<1>9. BusyOK'
  BY <1>1, <1>6, <1>8, NoTaskIsNone, TasksAssumption DEF BusyOK
<1>10. QED
  BY <1>6, <1>7, <1>9 DEF TasksInv

\* What ingest_team_task_aggregate leaves in the member's lane.
LEMMA ReportType ==
    ASSUME fold \in Fold
    PROVE  [state |-> Aggregate(fold), gate |-> FALSE,
            report |-> [state |-> Aggregate(fold), latest |-> fold.latest, tasks |-> fold.tasks]] \in Member
<1>1. Aggregate(fold) \in TaskStates \cup {"none", "Unknown"}
  BY DEF Aggregate, Fold, TaskStates, Finished
<1>2. fold.latest \in Nat /\ fold.tasks \in Nat
  BY DEF Fold
<1>3. QED
  BY <1>1, <1>2 DEF Member, Reported

\* A pass ends or is lost.
LEMMA PassEndKeeps ==
    ASSUME TasksInv, IngestTasks \/ RestartTasks PROVE TasksInv'
<1>1. UNCHANGED task /\ fold' = Empty
  BY DEF IngestTasks, RestartTasks
<1>2. member \in Member /\ count \in [updates : Nat, mishaps : Nat] /\ fold \in Fold
  BY DEF TasksInv, TaskTypes
<1>3. count' \in [updates : Nat, mishaps : Nat]
  BY <1>2 DEF IngestTasks, RestartTasks, Smooth, Mishap
<1>4. member' \in Member
  <2>1. CASE IngestTasks
    BY <1>2, <2>1, ReportType DEF IngestTasks
  <2>2. CASE RestartTasks
    <3>1. \E gate \in BOOLEAN : member' = [member EXCEPT !.gate = gate]
      <4>1. (member # NoMember) \in BOOLEAN
        OBVIOUS
      <4>2. QED
        BY <2>2, <4>1 DEF RestartTasks
    <3>2. QED
      BY <1>2, <3>1, MemberKeeps
  <2>3. QED
    BY <2>1, <2>2
<1>5. QED
  BY <1>1, <1>3, <1>4, EmptyFold DEF TasksInv, TaskTypes, BusyOK

\* Every step keeps the invariant.
LEMMA TasksStep ==
    TasksInv /\ [TaskNext]_taskVars => TasksInv'
<1> SUFFICES ASSUME TasksInv, [TaskNext]_taskVars PROVE TasksInv'
  OBVIOUS
<1>1. ASSUME NEW next, Configure(next)
      PROVE  TasksInv'
  <2>1. UNCHANGED <<task, member, fold>> /\ count' \in [updates : Nat, mishaps : Nat]
    BY <1>1 DEF Configure, Update, TasksInv, TaskTypes
  <2>2. QED
    BY <2>1 DEF TasksInv, TaskTypes, BusyOK
<1>4. ASSUME NEW s \in {"Running", "Completed", "Stalled"}, OtherEvidence(s)
      PROVE  TasksInv'
  <2>1. UNCHANGED <<task, fold>> /\ count' \in [updates : Nat, mishaps : Nat]
        /\ member' = [member EXCEPT !.state = s, !.gate = FALSE]
    BY <1>4 DEF OtherEvidence, Update, TasksInv, TaskTypes
  <2>2. member' \in Member
    BY <2>1, MemberKeeps DEF TasksInv, TaskTypes
  <2>3. QED
    BY <2>1, <2>2 DEF TasksInv, TaskTypes, BusyOK
<1>2. CASE UNCHANGED taskVars
  BY <1>2 DEF taskVars, TasksInv, TaskTypes, BusyOK
<1>3. QED
  BY <1>1, <1>2, <1>4, FilesKeep, TeamReadKeeps, ReadKeeps, StatKeeps, PassEndKeeps DEF TaskNext, FoldStep

\* Files, member and pass keep their types, and the outcome a pass keeps is that of the task
\* modified last, in whatever order the files are scanned (ClaudeTaskAggregate::observe).
THEOREM LastOutcomeKept == TaskSpec => []TasksTypeOK
<1>1. ASSUME TasksInv PROVE TasksTypeOK
  <2>1. fold \in Fold /\ LastOutcome(fold)
        /\ member.state \in TaskStates \cup {"none", "Unknown", "Stalled"}
    BY <1>1 DEF TasksInv, TaskTypes, Member
  <2>2. ASSUME Ended(fold) # {}
        PROVE  /\ fold.terminal.at = Max({r[2] : r \in Ended(fold)})
               /\ <<fold.terminal.state, fold.terminal.at>> \in Ended(fold)
    <3> DEFINE S == {r[2] : r \in Ended(fold)}
    <3>1. /\ <<fold.terminal.state, fold.terminal.at>> \in Ended(fold)
          /\ \A r \in Ended(fold) : r[2] <= fold.terminal.at
      BY <2>1, <2>2 DEF LastOutcome
    <3>2. S \subseteq Nat
      BY <2>1 DEF Fold, Ended
    <3>3. fold.terminal.at \in S /\ \A n \in S : n <= fold.terminal.at
      BY <3>1
    <3> HIDE DEF S
    <3>4. Max(S) \in S /\ \A n \in S : Max(S) >= n
      BY <3>2, <3>3 DEF Max
    <3>5. Max(S) = fold.terminal.at
      <4>1. Max(S) \in Nat /\ fold.terminal.at \in Nat
        BY <3>2, <3>3, <3>4
      <4>2. Max(S) <= fold.terminal.at /\ fold.terminal.at <= Max(S)
        BY <3>3, <3>4, <4>1
      <4>3. QED
        BY <4>1, <4>2
    <3>6. QED
      BY <3>1, <3>5 DEF S
  <2>3. QED
    BY <2>1, <2>2 DEF TasksTypeOK, Fold, Ended
<1>2. QED
  BY TasksStart, TasksStep, <1>1, PTL DEF TaskSpec

\* reconcile_team_tasks reports an outcome only if every task that ran from the start of the
\* pass to its end had a file that could not be read, or if the configuration said at the start
\* that the member is inactive.
THEOREM RunningNotFinished == TaskSpec => BusyNotFinished
<1> DEFINE Good == (member'.report # member.report /\ member'.report.state \in Finished)
                       => fold.at = "inactive" \/ fold.busy \subseteq fold.left
<1>1. ASSUME TasksInv, [TaskNext]_taskVars PROVE [Good]_taskVars
  <2> SUFFICES ASSUME member'.report # member.report, member'.report.state \in Finished,
                      fold.at # "inactive"
               PROVE  fold.busy \subseteq fold.left
    OBVIOUS
  <2>1. member \in Member /\ member' # member
    BY <1>1 DEF TasksInv, TaskTypes
  <2>2. CASE IngestTasks
    <3>1. /\ fold.todo = {} /\ fold.at = "active" /\ fold.tasks # 0
          /\ member'.report.state = Aggregate(fold)
      BY <2>1, <2>2 DEF IngestTasks, Reading
    <3>2. "Running" \notin fold.states
      BY <3>1, NoTaskIsNone DEF Aggregate
    <3>3. QED
      BY <1>1, <3>1, <3>2 DEF TasksInv, BusyOK, Barren
  <2>3. CASE ReadTeam
    <3>1. member' = member \/ member'.report = member.report
      BY <2>1, <2>3 DEF ReadTeam, Discovered, Member
    <3>2. QED
      BY <3>1
  <2>4. CASE RestartTasks
    BY <2>1, <2>4 DEF RestartTasks, Member
  <2>5. ASSUME NEW s \in {"Running", "Completed", "Stalled"}, OtherEvidence(s)
        PROVE  FALSE
    BY <2>1, <2>5 DEF OtherEvidence, Member
  <2>6. CASE UNCHANGED member
    BY <2>1, <2>6
  <2>7. QED
    BY <1>1, <2>2, <2>3, <2>4, <2>5, <2>6 DEF TaskNext, FoldStep, DeleteTask, WriteTask, Configure,
                                              ReadTask, StatTask, taskVars
<1>2. QED
  BY TasksStart, TasksStep, <1>1, PTL DEF TaskSpec, BusyNotFinished

=============================================================================
