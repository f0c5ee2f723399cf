-------------------------- MODULE RegistrationProofs --------------------------
(***************************************************************************)
(* Transports, registrations and scopes for any number of transports,      *)
(* tasks, requests and sessions: the cap holds, and every interleaving     *)
(* keeps the contract of scopes.                                           *)
(***************************************************************************)
EXTENDS Registration, FiniteSetTheorems, TLAPS

-----------------------------------------------------------------------------
(* The pool of transports.                                                 *)

\* The task that holds the creation mutex has found room, or will make it.
RoomFound ==
    \A m \in Managers :
        /\ task[m].at \in {"pick", "evict", "evicted", "create"} => creation = m
        /\ task[m].at \in {"lock", "pick", "evict", "evicted", "create"} =>
               task[m].transport \in Transports
        /\ task[m].at = "evict" =>
               Cardinality(live) < MaxSessions \/ task[m].victim \in live
        /\ task[m].at \in {"evicted", "create"} =>
               Cardinality(live) < MaxSessions \/ task[m].transport \in live

PoolInv == SessionTypeOK /\ IsFiniteSet(live) /\ CapacityHeld /\ RoomFound

\* A transport leaves: there is room, if it was there.
LEMMA Leaves ==
    ASSUME IsFiniteSet(live), CapacityHeld, NEW t
    PROVE  /\ IsFiniteSet(live \ {t})
           /\ Cardinality(live) \in Nat /\ Cardinality(live \ {t}) \in Nat
           /\ Cardinality(live \ {t}) <= Cardinality(live)
           /\ t \in live => Cardinality(live \ {t}) < MaxSessions
<1>1. Cardinality(live) \in Nat /\ IsFiniteSet(live \ {t})
  BY FS_CardinalityType, FS_RemoveElement
<1>2. Cardinality(live \ {t}) \in Nat
  BY <1>1, FS_CardinalityType
<1>3. Cardinality(live \ {t}) = IF t \in live THEN Cardinality(live) - 1 ELSE Cardinality(live)
  BY FS_RemoveElement
<1>4. QED
  BY <1>1, <1>2, <1>3, SessionAssumption DEF CapacityHeld

\* A transport comes into the room that was found for it.
LEMMA Joins ==
    ASSUME IsFiniteSet(live), CapacityHeld, NEW t,
           Cardinality(live) < MaxSessions \/ t \in live
    PROVE  IsFiniteSet(live \cup {t}) /\ Cardinality(live \cup {t}) <= MaxSessions
                                      /\ Cardinality(live \cup {t}) \in Nat
<1>1. /\ IsFiniteSet(live \cup {t}) /\ Cardinality(live) \in Nat
      /\ Cardinality(live \cup {t}) = IF t \in live THEN Cardinality(live) ELSE Cardinality(live) + 1
  BY FS_CardinalityType, FS_AddElement
<1>2. QED
  BY <1>1, SessionAssumption DEF CapacityHeld

\* No session is live and no task is under way at the start.
LEMMA InitPool == SessionInit => PoolInv
<1> SUFFICES ASSUME SessionInit PROVE PoolInv
  OBVIOUS
<1>1. IsFiniteSet(live) /\ Cardinality(live) = 0
  BY FS_EmptySet DEF SessionInit
<1>2. NoTask \in Task /\ NoTask.at = "idle"
  BY DEF NoTask, Task
<1>3. SessionTypeOK
  BY <1>2, SessionAssumption DEF SessionInit, SessionTypeOK
<1>4. CapacityHeld
  BY <1>1, SessionAssumption DEF CapacityHeld
<1>5. \A m \in Managers : task[m].at = "idle"
  BY <1>2 DEF SessionInit
<1>6. QED
  BY <1>1, <1>3, <1>4, <1>5 DEF PoolInv, RoomFound

\* What a task's own step may do to its record, with the others left alone.
LEMMA TaskStep ==
    ASSUME PoolInv, NEW m \in Managers, NEW q \in Task,
           task' = [task EXCEPT ![m] = q], live' = live,
           creation' \in Managers \cup {Nobody}, admitted' \in Nat, tasks' \in 0 .. MaxTasks,
           q.at \in {"pick", "evict", "evicted", "create"} => creation' = m,
           q.at \in {"lock", "pick", "evict", "evicted", "create"} => q.transport \in Transports,
           creation' = creation \/ creation \in {m, Nobody},
           q.at = "evict" => Cardinality(live) < MaxSessions \/ q.victim \in live,
           q.at \in {"evicted", "create"} =>
               Cardinality(live) < MaxSessions \/ q.transport \in live
    PROVE  PoolInv'
<1>1. /\ task \in [Managers -> Task] /\ task' \in [Managers -> Task]
      /\ task'[m] = q /\ \A d \in Managers \ {m} : task'[d] = task[d]
  BY DEF PoolInv, SessionTypeOK
<1>2. SessionTypeOK'
  BY <1>1 DEF PoolInv, SessionTypeOK
<1>3. IsFiniteSet(live') /\ CapacityHeld'
  BY DEF PoolInv, CapacityHeld
<1>4. Nobody \notin Managers
  BY SessionAssumption
<1>5. ASSUME NEW d \in Managers
      PROVE  /\ task'[d].at \in {"pick", "evict", "evicted", "create"} => creation' = d
             /\ task'[d].at \in {"lock", "pick", "evict", "evicted", "create"} =>
                    task'[d].transport \in Transports
             /\ task'[d].at = "evict" =>
                    Cardinality(live) < MaxSessions \/ task'[d].victim \in live
             /\ task'[d].at \in {"evicted", "create"} =>
                    Cardinality(live) < MaxSessions \/ task'[d].transport \in live
  <2>1. CASE d = m
    BY <1>1, <2>1
  <2>2. CASE d # m
    BY <1>1, <1>4, <2>2 DEF PoolInv, RoomFound
  <2>3. QED
    BY <2>1, <2>2
<1>6. RoomFound'
  BY <1>5 DEF RoomFound
<1>7. QED
  BY <1>2, <1>3, <1>6 DEF PoolInv

\* A task removes a transport.
LEMMA BeginCloseKeepsPool ==
    ASSUME PoolInv, NEW m \in Managers, BeginClose(m)
    PROVE  PoolInv'
<1> DEFINE v == task[m].victim
<1>1. /\ task \in [Managers -> Task] /\ task[m] \in Task /\ live \subseteq Transports
      /\ NoTask \in Task /\ NoTask.at = "idle"
  BY DEF PoolInv, SessionTypeOK, NoTask, Task
<1>2. /\ live' = live \ {v} /\ creation' = creation /\ tasks' = tasks
      /\ task[m].at \in {"evict", "close"}
  BY DEF BeginClose
<1>3. /\ IsFiniteSet(live') /\ Cardinality(live) \in Nat /\ Cardinality(live') \in Nat
      /\ Cardinality(live') <= Cardinality(live)
      /\ v \in live => Cardinality(live') < MaxSessions
  BY <1>2, Leaves DEF PoolInv
<1>4. CapacityHeld'
  BY <1>3, SessionAssumption DEF PoolInv, CapacityHeld
<1>5. PICK q \in Task :
        /\ task' = [task EXCEPT ![m] = q]
        /\ q.at \in {"evicted", "create"} =>
               task[m].at = "evict" /\ q.transport = task[m].transport
        /\ q.at \in {"evicted", "create", "closed", "idle"}
  <2>1. CASE v \in live
    <3> DEFINE at == IF task[m].at = "evict" THEN "evicted" ELSE "closed"
               q == [task[m] EXCEPT !.at = at]
    <3>1. task' = [task EXCEPT ![m] = q]
      BY <1>1, <2>1 DEF BeginClose, Goto
    <3>2. q \in Task /\ q.at = at /\ q.transport = task[m].transport
      BY <1>1 DEF Task
    <3> HIDE DEF q
    <3>3. QED
      BY <3>1, <3>2
  <2>2. CASE v \notin live
    <3> DEFINE q == IF task[m].at = "evict" THEN [task[m] EXCEPT !.at = "create"] ELSE NoTask
    <3>1. task' = [task EXCEPT ![m] = q]
      BY <2>2 DEF BeginClose
    <3>2. q \in Task
      BY <1>1 DEF Task
    <3>3. /\ q.at = IF task[m].at = "evict" THEN "create" ELSE "idle"
          /\ task[m].at = "evict" => q.transport = task[m].transport
      BY <1>1 DEF Task
    <3> HIDE DEF q
    <3>4. QED
      BY <3>1, <3>2, <3>3
  <2>3. QED
    BY <2>1, <2>2
<1>6. /\ task' \in [Managers -> Task] /\ task'[m] = q
      /\ \A d \in Managers \ {m} : task'[d] = task[d]
  BY <1>1, <1>5
<1>7. admitted' \in Nat
  BY <1>3, FS_CardinalityType DEF PoolInv, SessionTypeOK, BeginClose
<1>8. SessionTypeOK'
  BY <1>1, <1>2, <1>6, <1>7 DEF PoolInv, SessionTypeOK
<1>9. ASSUME NEW d \in Managers
      PROVE  /\ task'[d].at \in {"pick", "evict", "evicted", "create"} => creation' = d
             /\ task'[d].at \in {"lock", "pick", "evict", "evicted", "create"} =>
                    task'[d].transport \in Transports
             /\ task'[d].at = "evict" =>
                    Cardinality(live') < MaxSessions \/ task'[d].victim \in live'
             /\ task'[d].at \in {"evicted", "create"} =>
                    Cardinality(live') < MaxSessions \/ task'[d].transport \in live'
  <2>0. Cardinality(live) < MaxSessions => Cardinality(live') < MaxSessions
    BY <1>3, SessionAssumption
  <2>1. CASE d = m
    <3>1. task[m].at = "evict" => /\ creation = m /\ task[m].transport \in Transports
                                  /\ Cardinality(live) < MaxSessions \/ v \in live
      BY DEF PoolInv, RoomFound
    <3>2. QED
      BY <1>2, <1>3, <1>5, <1>6, <2>0, <2>1, <3>1
  <2>2. CASE d # m
    <3>1. task'[d] = task[d]
      BY <1>6, <2>2
    <3>2. \A t : t \in live => t \in live' \/ v \in live
      BY <1>2
    <3>3. QED
      BY <1>2, <1>3, <2>0, <3>1, <3>2 DEF PoolInv, RoomFound
  <2>3. QED
    BY <2>1, <2>2
<1>10. RoomFound'
  BY <1>9 DEF RoomFound
<1>11. QED
  BY <1>3, <1>4, <1>8, <1>10 DEF PoolInv

\* An admission ends.
LEMMA CreateKeepsPool ==
    ASSUME PoolInv, NEW m \in Managers, Create(m)
    PROVE  PoolInv'
<1>1. /\ task \in [Managers -> Task] /\ task[m] \in Task /\ live \subseteq Transports
      /\ NoTask \in Task /\ NoTask.at = "idle" /\ task[m].at = "create"
  BY DEF PoolInv, SessionTypeOK, NoTask, Task, Create
<1>2. /\ task' = [task EXCEPT ![m] = NoTask] /\ creation' = Nobody /\ tasks' = tasks
  BY DEF Create
<1>3. /\ creation = m /\ task[m].transport \in Transports
      /\ Cardinality(live) < MaxSessions \/ task[m].transport \in live
  BY <1>1 DEF PoolInv, RoomFound
<1>4. CASE live' = live /\ admitted' = admitted
  <2>1. creation' \in Managers \cup {Nobody} /\ admitted' \in Nat /\ tasks' \in 0 .. MaxTasks
    BY <1>2, <1>4 DEF PoolInv, SessionTypeOK
  <2>2. QED
    BY <1>1, <1>2, <1>3, <1>4, <2>1, TaskStep
<1>5. CASE live' = live \cup {task[m].transport} /\ admitted' = Cardinality(live')
  <2>1. IsFiniteSet(live') /\ Cardinality(live') <= MaxSessions /\ admitted' \in Nat
    BY <1>3, <1>5, Joins DEF PoolInv
  <2>2. ASSUME NEW d \in Managers
        PROVE  /\ task'[d].at \notin {"pick", "evict", "evicted", "create"}
               /\ task'[d].at = "lock" => task'[d].transport \in Transports
    BY <1>1, <1>2, <1>3 DEF PoolInv, RoomFound
  <2>3. task' \in [Managers -> Task]
    BY <1>1, <1>2
  <2>4. live' \subseteq Transports
    BY <1>1, <1>3, <1>5
  <2>5. QED
    BY <1>2, <2>1, <2>2, <2>3, <2>4 DEF PoolInv, SessionTypeOK, CapacityHeld, RoomFound
<1>6. QED
  BY <1>4, <1>5 DEF Create

\* Every step of the pool keeps the cap.
LEMMA PoolSteps ==
    ASSUME PoolInv, SessionStep \/ (\E m \in Managers : EndClose(m)) \/ UNCHANGED sessionVars
    PROVE  PoolInv'
<1>1. /\ task \in [Managers -> Task] /\ creation \in Managers \cup {Nobody}
      /\ admitted \in Nat /\ tasks \in 0 .. MaxTasks /\ live \subseteq Transports
      /\ \A m \in Managers : task[m] \in Task
      /\ NoTask \in Task /\ NoTask.at = "idle"
  BY DEF PoolInv, SessionTypeOK, NoTask, Task
<1>2. Cardinality(live) \in Nat
  BY FS_CardinalityType DEF PoolInv
<1>3. ASSUME NEW m \in Managers, NEW t \in Transports, Admit(m, t) PROVE PoolInv'
  <2> DEFINE q == [NoTask EXCEPT !.at = "lock", !.transport = t]
  <2>1. q \in Task /\ q.at = "lock" /\ q.transport = t
    BY DEF NoTask, Task
  <2>2. task' = [task EXCEPT ![m] = q] /\ UNCHANGED <<live, creation, admitted>>
    BY <1>3 DEF Admit
  <2>3. tasks' \in 0 .. MaxTasks
    BY <1>1, <1>3, SessionAssumption DEF Admit, Begins
  <2> HIDE DEF q
  <2>4. QED
    BY <1>1, <2>1, <2>2, <2>3, TaskStep
<1>4. ASSUME NEW m \in Managers, NEW t \in Transports, AskToClose(m, t) PROVE PoolInv'
  <2> DEFINE q == [NoTask EXCEPT !.at = "close", !.victim = t]
  <2>1. q \in Task /\ q.at = "close"
    BY DEF NoTask, Task
  <2>2. task' = [task EXCEPT ![m] = q] /\ UNCHANGED <<live, creation, admitted>>
    BY <1>4 DEF AskToClose
  <2>3. tasks' \in 0 .. MaxTasks
    BY <1>1, <1>4, SessionAssumption DEF AskToClose, Begins
  <2> HIDE DEF q
  <2>4. QED
    BY <1>1, <2>1, <2>2, <2>3, TaskStep
<1>5. ASSUME NEW m \in Managers, ReserveSlot(m) PROVE PoolInv'
  <2> DEFINE room == task[m].transport \in live \/ Cardinality(live) < MaxSessions
             q == [task[m] EXCEPT !.at = IF room THEN "create" ELSE "pick"]
  <2>1. /\ q \in Task /\ q.at = IF room THEN "create" ELSE "pick"
        /\ q.transport = task[m].transport
    BY <1>1 DEF Task
  <2>2. /\ task' = [task EXCEPT ![m] = q] /\ UNCHANGED <<live, admitted, tasks>>
        /\ creation = Nobody /\ creation' = m /\ task[m].at = "lock"
    BY <1>5 DEF ReserveSlot, Goto
  <2>3. task[m].transport \in Transports
    BY <2>2 DEF PoolInv, RoomFound
  <2> HIDE DEF q
  <2>4. QED
    BY <1>1, <2>1, <2>2, <2>3, TaskStep
<1>6. ASSUME NEW m \in Managers, PickVictim(m) PROVE PoolInv'
  <2>1. PICK t \in live : task' = [task EXCEPT ![m].at = "evict", ![m].victim = t]
    BY <1>6 DEF PickVictim
  <2> DEFINE q == [task[m] EXCEPT !.at = "evict", !.victim = t]
  <2>2. /\ q \in Task /\ q.at = "evict" /\ q.victim = t
        /\ q.transport = task[m].transport
    BY <1>1, <2>1 DEF Task
  <2>3. task' = [task EXCEPT ![m] = q]
    BY <1>1, <2>1 DEF Task
  <2>4. UNCHANGED <<live, creation, admitted, tasks>> /\ task[m].at = "pick"
    BY <1>6 DEF PickVictim
  <2>5. creation = m /\ task[m].transport \in Transports
    BY <2>4 DEF PoolInv, RoomFound
  <2> HIDE DEF q
  <2>6. QED
    BY <1>1, <2>1, <2>2, <2>3, <2>4, <2>5, TaskStep
<1>7. ASSUME NEW m \in Managers, Capacity(m) PROVE PoolInv'
  <2>1. /\ task' = [task EXCEPT ![m] = NoTask] /\ UNCHANGED <<live, admitted, tasks>>
        /\ creation' = Nobody /\ task[m].at = "pick"
    BY <1>7 DEF Capacity
  <2>2. creation = m
    BY <2>1 DEF PoolInv, RoomFound
  <2>3. QED
    BY <1>1, <2>1, <2>2, TaskStep
<1>8. ASSUME NEW m \in Managers, EndClose(m) PROVE PoolInv'
  <2> DEFINE q == IF task[m].at = "evicted" THEN [task[m] EXCEPT !.at = "create"] ELSE NoTask
  <2>1. /\ q \in Task
        /\ task[m].at = "evicted" => q.at = "create" /\ q.transport = task[m].transport
        /\ task[m].at # "evicted" => q.at = "idle"
    BY <1>1 DEF Task
  <2>2. /\ task' = [task EXCEPT ![m] = q] /\ UNCHANGED <<live, creation, tasks>>
        /\ admitted' = Cardinality(live) /\ task[m].at \in {"evicted", "closed"}
    BY <1>8 DEF EndClose
  <2>3. task[m].at = "evicted" =>
          /\ creation = m /\ task[m].transport \in Transports
          /\ Cardinality(live) < MaxSessions \/ task[m].transport \in live
    BY DEF PoolInv, RoomFound
  <2> HIDE DEF q
  <2>4. QED
    BY <1>1, <1>2, <2>1, <2>2, <2>3, TaskStep
<1>9. CASE UNCHANGED sessionVars
  BY <1>9 DEF sessionVars, PoolInv, SessionTypeOK, CapacityHeld, RoomFound
<1>10. QED
  BY <1>3, <1>4, <1>5, <1>6, <1>7, <1>8, <1>9, BeginCloseKeepsPool, CreateKeepsPool DEF SessionStep

-----------------------------------------------------------------------------
(* The registry of scopes.                                                 *)

ScopeTypes == roots \in [Keys -> Binding \cup {None}] /\ generation \in 0 .. MaxGenerations

\* The root a binding answers with.
RootOf(binding) == IF binding # None /\ binding.committed THEN binding.root ELSE None

\* A registration leaves every scope, or gives an unbound key its root.
Binds(key, root) ==
    \/ Scope' = Scope
    \/ Scope[key] = None /\ Scope' = [Scope EXCEPT ![key] = root]

\* The scope of every transport is the committed root of its binding, before a
\* step and after it.
LEMMA ScopeIsRoots ==
    /\ Scope = [key \in Keys |-> RootOf(roots[key])]
    /\ Scope' = [key \in Keys |-> RootOf(roots'[key])]
  BY DEF Scope, ScopeRoot, Bound, RootOf

\* One binding changes.
LEMMA OneBinding ==
    ASSUME ScopeTypes, NEW key \in Keys, NEW binding \in Binding \cup {None},
           roots' = [roots EXCEPT ![key] = binding]
    PROVE  /\ roots' \in [Keys -> Binding \cup {None}]
           /\ RootOf(binding) = RootOf(roots[key]) => Scope' = Scope
           /\ Scope' = [Scope EXCEPT ![key] = RootOf(binding)]
<1>1. roots \in [Keys -> Binding \cup {None}]
  BY DEF ScopeTypes
<1>2. \A k \in Keys : roots'[k] = IF k = key THEN binding ELSE roots[k]
  BY <1>1
<1>3. QED
  BY <1>1, <1>2, ScopeIsRoots

\* bind_committed.
LEMMA BindCommittedBinds ==
    ASSUME ScopeTypes, NEW key \in Keys, NEW root \in Mains, BindCommitted(key, root)
    PROVE  ScopeTypes' /\ Binds(key, root)
<1>1. roots \in [Keys -> Binding \cup {None}] /\ generation \in 0 .. MaxGenerations
      /\ MaxGenerations \in Nat
  BY RegistrationAssumption DEF ScopeTypes
<1>2. Scope[key] = RootOf(roots[key])
  BY ScopeIsRoots
<1>3. CASE ~Bound(key) /\ Fresh(key, root, 0, TRUE)
  <2> DEFINE b == [root |-> root, generation |-> generation, pending |-> 0, committed |-> TRUE]
  <2>1. b \in Binding /\ roots' = [roots EXCEPT ![key] = b] /\ generation' \in 0 .. MaxGenerations
    BY <1>1, <1>3 DEF Fresh, Binding
  <2>2. b # None
    BY <2>1, AbsentAssumption
  <2>3. RootOf(b) = root /\ Scope[key] = None
    BY <1>2, <1>3, <2>2 DEF RootOf, Bound
  <2> HIDE DEF b
  <2>4. QED
    BY <2>1, <2>3, OneBinding DEF ScopeTypes, Binds
<1>4. CASE Bound(key) /\ roots[key].root = root /\ roots' = [roots EXCEPT ![key].committed = TRUE]
           /\ UNCHANGED generation
  <2> DEFINE b == [roots[key] EXCEPT !.committed = TRUE]
  <2>1. roots[key] \in Binding /\ roots[key] # None
    BY <1>1, <1>4 DEF Bound
  <2>2. b \in Binding /\ b.root = root /\ b.committed = TRUE /\ roots' = [roots EXCEPT ![key] = b]
    BY <1>1, <1>4, <2>1 DEF Binding
  <2>3. b # None
    BY <2>2, AbsentAssumption
  <2>4. RootOf(b) = root
    BY <2>2, <2>3 DEF RootOf
  <2>5. Scope[key] = None \/ Scope[key] = root
    BY <1>2, <1>4, <2>1 DEF RootOf
  <2> HIDE DEF b
  <2>6. QED
    BY <1>1, <1>2, <1>4, <2>2, <2>4, <2>5, OneBinding DEF ScopeTypes, Binds
<1>5. QED
  BY <1>3, <1>4 DEF BindCommitted

\* begin_registration: nobody sees a tree by it.
LEMMA BeginRegistrationHides ==
    ASSUME ScopeTypes, NEW key \in Keys, NEW root \in Mains, BeginRegistration(key, root)
    PROVE  ScopeTypes' /\ Scope' = Scope
<1>1. roots \in [Keys -> Binding \cup {None}] /\ generation \in 0 .. MaxGenerations
      /\ MaxGenerations \in Nat
  BY RegistrationAssumption DEF ScopeTypes
<1>2. CASE ~Bound(key) /\ Fresh(key, root, 1, FALSE)
  <2> DEFINE b == [root |-> root, generation |-> generation, pending |-> 1, committed |-> FALSE]
  <2>1. b \in Binding /\ roots' = [roots EXCEPT ![key] = b] /\ generation' \in 0 .. MaxGenerations
    BY <1>1, <1>2 DEF Fresh, Binding
  <2>2. RootOf(b) = None /\ RootOf(roots[key]) = None
    BY <1>2 DEF RootOf, Bound
  <2> HIDE DEF b
  <2>3. QED
    BY <2>1, <2>2, OneBinding DEF ScopeTypes
<1>3. CASE Bound(key) /\ roots[key].root = root /\ roots' = [roots EXCEPT ![key].pending = @ + 1]
           /\ UNCHANGED generation
  <2> DEFINE b == [roots[key] EXCEPT !.pending = roots[key].pending + 1]
  <2>1. roots[key] \in Binding /\ roots[key] # None
    BY <1>1, <1>3 DEF Bound
  <2>2. /\ b \in Binding /\ b.root = roots[key].root /\ b.committed = roots[key].committed
        /\ roots' = [roots EXCEPT ![key] = b]
    BY <1>1, <1>3, <2>1 DEF Binding
  <2>3. b # None
    BY <2>2, AbsentAssumption
  <2>4. RootOf(b) = RootOf(roots[key])
    BY <2>1, <2>2, <2>3 DEF RootOf
  <2> HIDE DEF b
  <2>5. QED
    BY <1>1, <1>3, <2>2, <2>4, OneBinding DEF ScopeTypes
<1>4. QED
  BY <1>2, <1>3 DEF BeginRegistration

\* commit_registration.
LEMMA CommitBinds ==
    ASSUME ScopeTypes, NEW r \in Requests, request[r].key \in Keys, CommitRegistration(r),
           UNCHANGED generation
    PROVE  ScopeTypes' /\ Binds(request[r].key, request[r].root)
<1> DEFINE key == request[r].key
           root == request[r].root
<1>1. roots \in [Keys -> Binding \cup {None}] /\ generation \in 0 .. MaxGenerations /\ key \in Keys
  BY DEF ScopeTypes
<1>2. CASE UNCHANGED roots
  BY <1>1, <1>2, ScopeIsRoots DEF ScopeTypes, Binds
<1>3. CASE Current(r) /\ roots[key].pending > 0
           /\ roots' = [roots EXCEPT ![key].pending = @ - 1, ![key].committed = TRUE]
  <2> DEFINE b == [roots[key] EXCEPT !.pending = roots[key].pending - 1, !.committed = TRUE]
  <2>1. roots[key] \in Binding /\ roots[key] # None /\ roots[key].root = root
    BY <1>1, <1>3 DEF Current, Bound
  <2>2. roots[key].pending \in Nat /\ roots[key].pending - 1 \in Nat
    BY <1>3, <2>1 DEF Binding
  <2>3. b \in Binding /\ b.root = root /\ b.committed = TRUE
    BY <2>1, <2>2 DEF Binding
  <2>4. roots' = [roots EXCEPT ![key] = b]
    BY <1>1, <1>3, <2>1 DEF Binding
  <2>5. b # None
    BY <2>3, AbsentAssumption
  <2>6. RootOf(b) = root
    BY <2>3, <2>5 DEF RootOf
  <2>7. Scope[key] = RootOf(roots[key]) /\ RootOf(roots[key]) \in {None, root}
    BY <1>1, <2>1, ScopeIsRoots DEF RootOf
  <2> HIDE DEF b, key, root
  <2>8. Scope' = [Scope EXCEPT ![key] = root] /\ (RootOf(roots[key]) = root => Scope' = Scope)
        /\ roots' \in [Keys -> Binding \cup {None}]
    BY <1>1, <2>3, <2>4, <2>6, OneBinding
  <2>9. Binds(key, root)
    BY <2>7, <2>8 DEF Binds
  <2>10. QED
    BY <1>1, <2>8, <2>9 DEF ScopeTypes, key, root
<1>4. QED
  BY <1>2, <1>3 DEF CommitRegistration

\* rollback_registration: what it drops answered nobody.
LEMMA RollbackHides ==
    ASSUME ScopeTypes, NEW r \in Requests, request[r].key \in Keys, RollbackRegistration(r),
           UNCHANGED generation
    PROVE  ScopeTypes' /\ Scope' = Scope
<1> DEFINE key == request[r].key
           less == IF roots[key].pending > 0 THEN roots[key].pending - 1 ELSE 0
           left == [roots[key] EXCEPT !.pending = less]
           b == IF left.pending = 0 /\ ~left.committed THEN None ELSE left
<1>1. roots \in [Keys -> Binding \cup {None}] /\ generation \in 0 .. MaxGenerations /\ key \in Keys
  BY DEF ScopeTypes
<1>2. CASE UNCHANGED roots
  BY <1>1, <1>2, ScopeIsRoots DEF ScopeTypes
<1>3. CASE Current(r) /\ roots' = [roots EXCEPT ![key] = b]
  <2>1. roots[key] \in Binding /\ roots[key] # None
    BY <1>1, <1>3 DEF Current, Bound
  <2>2. less \in Nat
    <3>1. roots[key].pending \in Nat
      BY <2>1 DEF Binding
    <3>2. QED
      BY <3>1
  <2> HIDE DEF less
  <2>3. /\ left \in Binding /\ left.root = roots[key].root
        /\ left.committed = roots[key].committed
    BY <2>1, <2>2 DEF Binding
  <2>4. left # None
    BY <2>3, AbsentAssumption
  <2> HIDE DEF left
  <2>5. RootOf(left) = RootOf(roots[key])
    BY <2>1, <2>3, <2>4 DEF RootOf
  <2>6. ~left.committed => RootOf(roots[key]) = None
    BY <2>3 DEF RootOf
  <2>7. RootOf(None) = None
    BY DEF RootOf
  <2>8. b \in Binding \cup {None} /\ RootOf(b) = RootOf(roots[key])
    BY <2>3, <2>5, <2>6, <2>7
  <2> HIDE DEF b, key
  <2>9. QED
    BY <1>1, <1>3, <2>8, OneBinding DEF ScopeTypes
<1>4. QED
  BY <1>2, <1>3 DEF RollbackRegistration

-----------------------------------------------------------------------------
(* The store.                                                              *)

\* A main session's record is its own; a child's names a root that is stored.
RecordOK(n, record, stored) ==
    IF n \in Mains THEN record = MainRecord(n)
    ELSE \E root \in Mains : record = ChildRecord(root) /\ stored[root] = MainRecord(root)

\* Sessions are as their lanes know them, and lead to stored roots.
StoreInv ==
    /\ sessions \in [Natives -> Record \cup {None}] /\ lanes \in [Natives -> Record \cup {None}]
    /\ finished \subseteq Natives
    /\ selected \in [Children -> Natives \cup {None}]
    /\ aliases \in [Natives -> Mains \cup {None}]
    /\ \A n \in Natives :
           /\ sessions[n] # None => RecordOK(n, sessions[n], sessions)
           /\ lanes[n] # None => RecordOK(n, lanes[n], sessions)
           /\ sessions[n] # None /\ lanes[n] # None => lanes[n] = sessions[n]

\* What a request knows at each of its awaits.
RequestOK(q, stored) ==
    /\ q.at # "idle" => q.key \in Keys /\ q.native \in Natives
    /\ \/ q.at = "idle"
       \/ /\ q.at \in {"lease", "redirect", "own", "apply", "persist"}
          /\ q.op = "main" /\ q.native \in Mains /\ q.root = q.native
          /\ q.at = "redirect" => q.target \in Mains
       \/ /\ q.at \in {"parent", "check", "persist", "relate"}
          /\ q.op = "child" /\ q.native \in Children /\ q.parent \in Natives
          /\ q.at # "parent" => q.root \in Mains /\ stored[q.root] = MainRecord(q.root)
       \/ /\ q.at \in {"target", "relate"}
          /\ q.op = "delegate" /\ q.native \in Children /\ q.parent \in Natives
       \/ q.at = "target" /\ q.op = "complete"
       \/ q.at = "complete" /\ q.op = "complete" /\ stored[q.native] # None

RequestsInv ==
    /\ request \in [Requests -> Request]
    /\ \A r \in Requests : RequestOK(request[r], sessions)

RegInv ==
    /\ PoolInv /\ ScopeTypes /\ StoreInv /\ RequestsInv
    /\ lease \in Requests \cup {Nobody} /\ requests \in 0 .. MaxRequests

\* A stored session is never replaced.
StoreGrows == \A n \in Natives : sessions[n] # None => sessions'[n] = sessions[n]

\* Absence is not a session, a record or a binding, and main and child sessions
\* are told apart.
LEMMA Absent ==
    /\ None \notin Mains /\ None \notin Children /\ None \notin Record /\ None \notin Binding
    /\ \A n \in Mains : MainRecord(n) \in Record /\ MainRecord(n) # None
                        /\ MainRecord(n).root = n /\ n \notin Children /\ n \in Natives
    /\ \A root \in Mains : ChildRecord(root) \in Record /\ ChildRecord(root) # None
                        /\ ChildRecord(root).root = root
    /\ \A n \in Children : n \in Natives /\ n \notin Mains
<1>1. /\ None \notin Mains /\ None \notin Children /\ None \notin Record /\ None \notin Binding
      /\ Mains \cap Children = {}
  BY AbsentAssumption, RegistrationAssumption DEF Natives
<1>2. \A n \in Mains : MainRecord(n) \in Record /\ MainRecord(n).root = n
  BY DEF MainRecord, Record
<1>3. \A n \in Mains : ChildRecord(n) \in Record /\ ChildRecord(n).root = n
  BY DEF ChildRecord, Record
<1>4. QED
  BY <1>1, <1>2, <1>3 DEF Natives

\* What is right stays right as the store grows.
LEMMA GrowthKeeps ==
    ASSUME StoreInv, StoreGrows
    PROVE  /\ \A n \in Natives : \A record \in Record :
                 RecordOK(n, record, sessions) => RecordOK(n, record, sessions')
           /\ \A q \in Request : RequestOK(q, sessions) => RequestOK(q, sessions')
<1>1. \A n \in Mains : sessions[n] = MainRecord(n) => sessions'[n] = MainRecord(n)
  BY Absent DEF StoreGrows
<1>2. ASSUME NEW n \in Natives, NEW record \in Record, RecordOK(n, record, sessions)
      PROVE  RecordOK(n, record, sessions')
  BY <1>1, <1>2 DEF RecordOK
<1>3. ASSUME NEW q \in Request, RequestOK(q, sessions)
      PROVE  RequestOK(q, sessions')
  <2>1. q.native \in Natives /\ sessions[q.native] # None => sessions'[q.native] # None
    BY DEF StoreGrows
  <2>2. q.root \in Mains /\ sessions[q.root] = MainRecord(q.root) => sessions'[q.root] = MainRecord(q.root)
    BY <1>1
  <2>3. QED
    BY <1>3, <2>1, <2>2 DEF RequestOK
<1>4. QED
  BY <1>2, <1>3

\* One request moves on; the others keep what they know.
LEMMA RequestMoves ==
    ASSUME RequestsInv, StoreInv, StoreGrows, NEW r \in Requests, NEW q \in Request,
           request' = [request EXCEPT ![r] = q], RequestOK(q, sessions')
    PROVE  RequestsInv'
<1>1. request \in [Requests -> Request] /\ request' \in [Requests -> Request]
  BY DEF RequestsInv
<1>2. \A s \in Requests : request'[s] = IF s = r THEN q ELSE request[s]
  BY <1>1
<1>3. ASSUME NEW s \in Requests PROVE RequestOK(request'[s], sessions')
  <2>1. request[s] \in Request /\ RequestOK(request[s], sessions)
    BY DEF RequestsInv
  <2>2. RequestOK(request[s], sessions')
    BY <2>1, GrowthKeeps
  <2>3. QED
    BY <1>2, <2>2
<1>4. QED
  BY <1>1, <1>3 DEF RequestsInv

\* A request that has not begun claims nothing about the store.
LEMMA NoRequestOK ==
    NoRequest \in Request /\ NoRequest.at = "idle" /\ \A stored : RequestOK(NoRequest, stored)
<1>1. NoRequest \in Request /\ NoRequest.at = "idle"
  BY DEF NoRequest, Request
<1>2. QED
  BY <1>1 DEF RequestOK

\* A request ends.
LEMMA RequestEnds ==
    ASSUME RequestsInv, StoreInv, StoreGrows, NEW r \in Requests, Finish(r)
    PROVE  RequestsInv'
  BY RequestMoves, NoRequestOK DEF Finish

\* The trees, by session.
LEMMA TreeIs ==
    /\ Tree \in [Natives -> SUBSET Natives] /\ Tree' \in [Natives -> SUBSET Natives]
    /\ \A n, root \in Natives : n \in Tree[root] <=> sessions[n] # None /\ sessions[n].root = root
    /\ \A n, root \in Natives : n \in Tree'[root] <=> sessions'[n] # None /\ sessions'[n].root = root
  BY DEF Tree

\* apply_observation of a registration: the session joins one tree, or is there already.
LEMMA AppliedJoins ==
    ASSUME StoreInv, NEW n \in Natives, NEW record \in Record, RecordOK(n, record, sessions),
           Applied(n, record)
    PROVE  /\ StoreInv' /\ StoreGrows
           /\ sessions'[n] # None /\ RecordOK(n, sessions'[n], sessions')
           /\ \A other \in Natives \ {n} : sessions'[other] = sessions[other]
<1> DEFINE lane == IF lanes[n] # None THEN lanes[n]
                   ELSE IF sessions[n] # None THEN sessions[n] ELSE record
<1>1. /\ sessions \in [Natives -> Record \cup {None}] /\ lanes \in [Natives -> Record \cup {None}]
      /\ None \notin Record
  BY Absent DEF StoreInv
<1>2. lanes' = [lanes EXCEPT ![n] = lane]
  BY DEF Applied
<1>3. lanes'[n] = lane
  BY <1>1, <1>2
<1>4. sessions' = [sessions EXCEPT ![n] = lane] /\ UNCHANGED <<finished, selected, aliases>>
  BY <1>3 DEF Applied
<1>5. lane \in Record /\ lane # None
  BY <1>1
<1>6. RecordOK(n, lane, sessions) /\ (sessions[n] # None => lane = sessions[n])
  BY DEF StoreInv
<1> HIDE DEF lane
<1>7. /\ \A m \in Natives : sessions'[m] = IF m = n THEN lane ELSE sessions[m]
      /\ \A m \in Natives : lanes'[m] = IF m = n THEN lane ELSE lanes[m]
      /\ sessions' \in [Natives -> Record \cup {None}] /\ lanes' \in [Natives -> Record \cup {None}]
  BY <1>1, <1>2, <1>4, <1>5
<1>8. StoreGrows
  BY <1>6, <1>7 DEF StoreGrows
<1>9. ASSUME NEW m \in Natives, NEW x \in Record, RecordOK(m, x, sessions)
      PROVE  RecordOK(m, x, sessions')
  BY <1>8, <1>9, GrowthKeeps
<1>10. ASSUME NEW m \in Natives
       PROVE  /\ sessions'[m] # None => RecordOK(m, sessions'[m], sessions')
              /\ lanes'[m] # None => RecordOK(m, lanes'[m], sessions')
              /\ sessions'[m] # None /\ lanes'[m] # None => lanes'[m] = sessions'[m]
  <2>1. CASE m = n
    BY <1>5, <1>6, <1>7, <1>9, <2>1
  <2>2. CASE m # n
    <3>1. /\ sessions'[m] = sessions[m] /\ lanes'[m] = lanes[m]
          /\ sessions[m] \in Record \cup {None} /\ lanes[m] \in Record \cup {None}
      BY <1>1, <1>7, <2>2
    <3>2. QED
      BY <1>9, <3>1 DEF StoreInv
  <2>3. QED
    BY <2>1, <2>2
<1>11. StoreInv'
  BY <1>4, <1>7, <1>10 DEF StoreInv
<1>12. QED
  BY <1>5, <1>7, <1>8, <1>10, <1>11

-----------------------------------------------------------------------------
(* The contract of scopes.                                                 *)

Kept == [Contract!Next]_<<Tree, Scope>>

\* The root of a stored session is stored.
LEMMA RootStored ==
    ASSUME StoreInv, NEW n \in Natives, sessions[n] # None
    PROVE  /\ sessions[n].root \in Mains /\ sessions[n].root \in Natives
           /\ sessions[sessions[n].root] = MainRecord(sessions[n].root)
           /\ sessions[n].root \in Tree[sessions[n].root]
<1>1. RecordOK(n, sessions[n], sessions)
  BY DEF StoreInv
<1>2. sessions[n].root \in Mains /\ sessions[sessions[n].root] = MainRecord(sessions[n].root)
  <2>1. CASE n \in Mains
    BY <1>1, <2>1, Absent DEF RecordOK
  <2>2. CASE n \notin Mains
    BY <1>1, <2>2, Absent DEF RecordOK
  <2>3. QED
    BY <2>1, <2>2
<1>3. QED
  BY <1>2, Absent, TreeIs

\* A scope is given to a stored root.
LEMMA BindKept ==
    ASSUME StoreInv, NEW key \in Keys, NEW root \in Mains, sessions[root] = MainRecord(root),
           Binds(key, root), sessions' = sessions
    PROVE  Kept
<1>1. Tree' = Tree
  BY DEF Tree
<1>2. root \in Tree[root] /\ root \in Natives
  BY Absent, TreeIs
<1>3. CASE Scope' = Scope
  BY <1>1, <1>3 DEF Kept
<1>4. CASE Scope[key] = None /\ Scope' = [Scope EXCEPT ![key] = root]
  <2>1. Contract!Bind(key, root)
    BY <1>1, <1>2, <1>4 DEF Contract!Bind
  <2>2. QED
    BY <1>2, <2>1 DEF Contract!Next, Kept
<1>5. QED
  BY <1>3, <1>4 DEF Binds

\* A session is registered, and a main session's caller may get its scope.
LEMMA RegisterKept ==
    ASSUME StoreInv, StoreInv', NEW n \in Natives, NEW key \in Keys,
           sessions'[n] # None, StoreGrows,
           \A other \in Natives \ {n} : sessions'[other] = sessions[other],
           Scope' = Scope \/ (n \in Mains /\ Binds(key, n))
    PROVE  Kept
<1>1. RecordOK(n, sessions'[n], sessions')
  BY DEF StoreInv
<1>2. n \in Mains => sessions'[n] = MainRecord(n) /\ sessions'[n].root = n
  BY <1>1, Absent DEF RecordOK
<1>3. CASE sessions[n] # None
  <2>1. sessions' = sessions
    <3>1. \A m \in Natives : sessions'[m] = sessions[m]
      BY <1>3 DEF StoreGrows
    <3>2. QED
      BY <3>1 DEF StoreInv
  <2>2. Tree' = Tree
    BY <2>1 DEF Tree
  <2>3. QED
    BY <1>2, <2>1, <2>2, BindKept DEF Kept
<1>4. CASE sessions[n] = None
  <2> DEFINE root == sessions'[n].root
  <2>1. root \in Mains /\ root \in Natives /\ (n = root \/ sessions[root] = MainRecord(root))
    <3>1. CASE n \in Mains
      BY <1>2, <3>1
    <3>2. CASE n \notin Mains
      <4>1. PICK x \in Mains : sessions'[n] = ChildRecord(x) /\ sessions'[x] = MainRecord(x)
        BY <1>1, <3>2 DEF RecordOK
      <4>2. root = x /\ x \in Natives /\ x # n
        BY <3>2, <4>1, Absent
      <4>3. sessions[x] = sessions'[x]
        BY <4>2
      <4>4. QED
        BY <4>1, <4>2, <4>3
    <3>3. QED
      BY <3>1, <3>2
  <2> HIDE DEF root
  <2>2. \A other \in Natives : n \notin Tree[other]
    BY <1>4, TreeIs
  <2>3. n = root \/ root \in Tree[root]
    BY <2>1, Absent, TreeIs
  <2>4. ASSUME NEW x \in Natives, NEW m \in Natives
        PROVE  m \in Tree'[x] <=> m \in Tree[x] \/ (m = n /\ x = root)
    <3>1. CASE m = n
      BY <2>2, <3>1, TreeIs DEF root
    <3>2. CASE m # n
      <4>1. sessions'[m] = sessions[m]
        BY <3>2
      <4>2. QED
        BY <3>2, <4>1, TreeIs
    <3>3. QED
      BY <3>1, <3>2
  <2>5. Tree \in [Natives -> SUBSET Natives] /\ Tree' \in [Natives -> SUBSET Natives]
    BY TreeIs
  <2>6. Tree' = [Tree EXCEPT ![root] = Tree[root] \cup {n}]
    <3>1. \A x \in Natives : Tree'[x] = IF x = root THEN Tree[root] \cup {n} ELSE Tree[x]
      BY <2>4, <2>5
    <3>2. QED
      BY <2>5, <3>1
  <2>7. CASE Scope' = Scope
    <3>1. Contract!Join(n, root)
      BY <2>2, <2>3, <2>6, <2>7 DEF Contract!Join
    <3>2. QED
      BY <2>1, <3>1 DEF Contract!Next, Kept
  <2>8. CASE n \in Mains /\ Scope[key] = None /\ Scope' = [Scope EXCEPT ![key] = n]
    <3>1. root = n
      BY <1>2, <2>8 DEF root
    <3>2. ASSUME NEW m \in Tree[n] PROVE FALSE
      <4>1. m \in Natives /\ sessions[m] # None /\ sessions[m].root = n
        BY <2>5, <3>2, TreeIs
      <4>2. sessions[n] = MainRecord(n)
        BY <4>1, RootStored
      <4>3. QED
        BY <1>4, <2>8, <4>2, Absent
    <3>3. Tree' = [Tree EXCEPT ![n] = {n}]
      BY <2>6, <3>1, <3>2
    <3>4. Contract!JoinAndBind(key, n)
      BY <2>2, <2>8, <3>3 DEF Contract!JoinAndBind
    <3>5. QED
      BY <3>4 DEF Contract!Next, Kept
  <2>9. QED
    BY <2>7, <2>8 DEF Binds
<1>5. QED
  BY <1>3, <1>4

\* A step that leaves the scopes and the store alone.
LEMMA Quiet ==
    ASSUME RegInv
    PROVE  /\ UNCHANGED sessionVars => PoolInv'
           /\ UNCHANGED scopeVars => ScopeTypes' /\ Scope' = Scope
           /\ UNCHANGED storeVars => StoreInv' /\ sessions' = sessions
           /\ sessions' = sessions => StoreGrows /\ Tree' = Tree
           /\ sessions' = sessions /\ Scope' = Scope => Kept
<1>1. UNCHANGED sessionVars => PoolInv'
  BY PoolSteps DEF RegInv
<1>2. UNCHANGED scopeVars => ScopeTypes' /\ Scope' = Scope
  BY ScopeIsRoots DEF RegInv, ScopeTypes, scopeVars
<1>3. UNCHANGED storeVars => StoreInv' /\ sessions' = sessions
  BY DEF RegInv, StoreInv, storeVars
<1>4. sessions' = sessions => StoreGrows /\ Tree' = Tree
  BY DEF StoreGrows, Tree
<1>5. QED
  BY <1>1, <1>2, <1>3, <1>4 DEF Kept

\* What request r knows.
LEMMA RequestKnown ==
    ASSUME RegInv, NEW r \in Requests
    PROVE  /\ request \in [Requests -> Request] /\ request[r] \in Request
           /\ RequestOK(request[r], sessions)
           /\ NoRequest \in Request
  BY NoRequestOK DEF RegInv, RequestsInv

\* A request arrives.
LEMMA ArrivalKeeps ==
    ASSUME RegInv, NEW r \in Requests, Arrival(r)
    PROVE  RegInv' /\ Kept
<1>1. PICK key \in Keys :
        \/ \E n \in Mains : RegisterMain(r, key, n)
        \/ \E n \in Children, parent \in Natives : RegisterChild(r, key, n, parent)
        \/ \E n \in Children, parent \in Natives : ScopedCall(r, key, "delegate", n, parent)
        \/ \E n \in Natives : ScopedCall(r, key, "complete", n, None)
  BY DEF Arrival
<1>2. Arrives(r, key)
  BY <1>1 DEF RegisterMain, RegisterChild, ScopedCall
<1>3. UNCHANGED <<sessionVars, scopeVars, storeVars, lease>> /\ requests' \in 0 .. MaxRequests
  BY <1>2, RegistrationAssumption DEF RegInv, Arrives
<1>4. PoolInv' /\ ScopeTypes' /\ StoreInv' /\ StoreGrows /\ Kept /\ sessions' = sessions
  BY <1>3, Quiet
<1>5. \A k \in Keys : RootOf(roots[k]) \in Mains \cup {None}
  BY DEF RegInv, ScopeTypes, RootOf, Binding
<1>6. ScopeRoot(key) \in Mains \cup {None}
  BY <1>5 DEF ScopeRoot, Bound, RootOf
<1>7. PICK q \in Request : request' = [request EXCEPT ![r] = q] /\ RequestOK(q, sessions)
  <2>1. ASSUME NEW n \in Mains, RegisterMain(r, key, n)
        PROVE  \E q \in Request : request' = [request EXCEPT ![r] = q] /\ RequestOK(q, sessions)
    <3> DEFINE q == [NoRequest EXCEPT !.at = "lease", !.op = "main", !.key = key,
                                      !.native = n, !.root = n]
    <3>1. /\ q \in Request /\ q.at = "lease" /\ q.op = "main" /\ q.key = key
          /\ q.native = n /\ q.root = n
      BY DEF NoRequest, Request, Natives
    <3>2. request' = [request EXCEPT ![r] = q]
      BY <2>1 DEF RegisterMain
    <3> HIDE DEF q
    <3>3. RequestOK(q, sessions)
      BY <3>1, Absent DEF RequestOK
    <3>4. QED
      BY <3>1, <3>2, <3>3
  <2>2. ASSUME NEW n \in Children, NEW parent \in Natives, RegisterChild(r, key, n, parent)
        PROVE  \E q \in Request : request' = [request EXCEPT ![r] = q] /\ RequestOK(q, sessions)
    <3> DEFINE q == [NoRequest EXCEPT !.at = "parent", !.op = "child", !.key = key,
                                      !.native = n, !.parent = parent]
    <3>1. /\ q \in Request /\ q.at = "parent" /\ q.op = "child" /\ q.key = key
          /\ q.native = n /\ q.parent = parent
      BY DEF NoRequest, Request, Natives
    <3>2. request' = [request EXCEPT ![r] = q]
      BY <2>2 DEF RegisterChild
    <3> HIDE DEF q
    <3>3. RequestOK(q, sessions)
      BY <3>1, Absent DEF RequestOK
    <3>4. QED
      BY <3>1, <3>2, <3>3
  <2>3. ASSUME NEW op \in {"delegate", "complete"}, NEW n \in Natives,
               NEW parent \in Natives \cup {None},
               op = "delegate" => n \in Children /\ parent \in Natives,
               ScopedCall(r, key, op, n, parent)
        PROVE  \E q \in Request : request' = [request EXCEPT ![r] = q] /\ RequestOK(q, sessions)
    <3> DEFINE q == [NoRequest EXCEPT !.at = "target", !.op = op, !.key = key,
                             !.native = n, !.parent = parent, !.root = ScopeRoot(key)]
    <3>1. /\ q \in Request /\ q.at = "target" /\ q.op = op /\ q.key = key
          /\ q.native = n /\ q.parent = parent
      BY <1>6 DEF NoRequest, Request
    <3>2. request' = [request EXCEPT ![r] = IF ScopeRoot(key) = None THEN NoRequest ELSE q]
      BY <2>3 DEF ScopedCall
    <3> HIDE DEF q
    <3>3. RequestOK(q, sessions)
      BY <2>3, <3>1 DEF RequestOK
    <3>4. QED
      BY <3>1, <3>2, <3>3, NoRequestOK
  <2>4. QED
    BY <1>1, <2>1, <2>2, <2>3, Absent
<1>8. RequestsInv'
  BY <1>4, <1>7, RequestMoves DEF RegInv
<1>9. QED
  BY <1>3, <1>4, <1>8 DEF RegInv

\* lease_discovery_alias.
LEMMA LeaseAliasKeeps ==
    ASSUME RegInv, NEW r \in Requests, LeaseAlias(r), UNCHANGED requests
    PROVE  RegInv' /\ Kept
<1> DEFINE n == request[r].native
           target == AliasTarget(n)
           stale == target \notin {None, n} /\ ~Accepts(target)
           at == IF target = None \/ stale THEN "own" ELSE "redirect"
           q == [request[r] EXCEPT !.target = target, !.at = at]
<1>1. /\ request[r] \in Request /\ request \in [Requests -> Request]
      /\ RequestOK(request[r], sessions) /\ request[r].at = "lease"
  BY RequestKnown DEF LeaseAlias
<1>2. /\ n \in Mains /\ n \in Natives /\ request[r].op = "main" /\ request[r].root = n
      /\ request[r].key \in Keys
  BY <1>1 DEF RequestOK
<1>3. target \in Mains \cup {None}
  BY <1>2 DEF AliasTarget, RegInv, StoreInv
<1>4. at \in {"own", "redirect"} /\ (at = "redirect" => target \in Mains)
  BY <1>3
<1>5. /\ request' = [request EXCEPT ![r].target = target, ![r].at = at]
      /\ lease' = r /\ aliases' = IF stale THEN Forget(n) ELSE aliases
      /\ UNCHANGED <<sessionVars, scopeVars, sessions, lanes, finished, selected>>
  BY DEF LeaseAlias
<1> HIDE DEF at, target, stale
<1>6. /\ q \in Request /\ q.at = at /\ q.op = "main" /\ q.native = n /\ q.root = n
      /\ q.key = request[r].key /\ q.target = target
  BY <1>1, <1>2, <1>3, <1>4 DEF Request, Natives
<1>7. request' = [request EXCEPT ![r] = q]
  BY <1>1, <1>5 DEF Request
<1> HIDE DEF q
<1>8. RequestOK(q, sessions)
  BY <1>2, <1>4, <1>6 DEF RequestOK
<1>9. /\ PoolInv' /\ ScopeTypes' /\ StoreGrows /\ Kept /\ sessions' = sessions
  BY <1>5, Quiet
<1>10. aliases' \in [Natives -> Mains \cup {None}]
  BY <1>2, <1>5 DEF Forget, RegInv, StoreInv
<1>11. StoreInv'
  BY <1>5, <1>10 DEF RegInv, StoreInv
<1>12. RequestsInv'
  BY <1>6, <1>7, <1>8, <1>9, RequestMoves DEF RegInv
<1>13. QED
  BY <1>5, <1>9, <1>11, <1>12 DEF RegInv

\* bind_main_record.
LEMMA RedirectKeeps ==
    ASSUME RegInv, NEW r \in Requests, Redirect(r), UNCHANGED requests
    PROVE  RegInv' /\ Kept
<1> DEFINE target == request[r].target
           record == sessions[target]
<1>1. /\ request[r] \in Request /\ request \in [Requests -> Request]
      /\ RequestOK(request[r], sessions) /\ request[r].at = "redirect"
  BY RequestKnown DEF Redirect
<1>2. target \in Mains /\ request[r].op = "main" /\ request[r].key \in Keys
  BY <1>1 DEF RequestOK
<1>3. UNCHANGED <<sessionVars, storeVars>> /\ lease' \in Requests \cup {Nobody}
  BY DEF Redirect, Unlease, RegInv
<1>4. PoolInv' /\ StoreInv' /\ sessions' = sessions /\ StoreGrows
  BY <1>3, Quiet
<1>5. CASE Finish(r) /\ UNCHANGED scopeVars
  <2>1. ScopeTypes' /\ Kept
    BY <1>4, <1>5, Quiet
  <2>2. RequestsInv'
    BY <1>4, <1>5, RequestEnds DEF RegInv
  <2>3. QED
    BY <1>3, <1>4, <2>1, <2>2 DEF RegInv
<1>6. CASE /\ record = MainRecord(target)
           /\ BindCommitted(request[r].key, record.root)
           /\ request' = [request EXCEPT ![r].at = "apply", ![r].native = target,
                                         ![r].root = record.root]
  <2> DEFINE q == [request[r] EXCEPT !.at = "apply", !.native = target, !.root = target]
  <2>1. record.root = target
    BY <1>2, <1>6, Absent
  <2>2. request' = [request EXCEPT ![r] = q]
    BY <1>1, <1>6, <2>1 DEF Request
  <2>3. /\ q \in Request /\ q.at = "apply" /\ q.op = "main" /\ q.native = target
        /\ q.root = target /\ q.key = request[r].key
    BY <1>1, <1>2 DEF Request, Natives
  <2> HIDE DEF q
  <2>4. RequestOK(q, sessions)
    BY <1>2, <2>3, Absent DEF RequestOK
  <2>5. RequestsInv'
    BY <1>4, <2>2, <2>3, <2>4, RequestMoves DEF RegInv
  <2>6. ScopeTypes' /\ Binds(request[r].key, target)
    BY <1>2, <1>6, <2>1, BindCommittedBinds DEF RegInv
  <2>7. Kept
    BY <1>2, <1>4, <1>6, <2>6, BindKept DEF RegInv
  <2>8. QED
    BY <1>3, <1>4, <2>5, <2>6, <2>7 DEF RegInv
<1>7. QED
  BY <1>5, <1>6 DEF Redirect

\* ScopeGuard::bind.
LEMMA ReserveKeeps ==
    ASSUME RegInv, NEW r \in Requests, Reserve(r), UNCHANGED requests
    PROVE  RegInv' /\ Kept
<1> DEFINE key == request[r].key
           root == request[r].root
           g == IF Bound(key) THEN roots[key].generation ELSE generation
           q == [request[r] EXCEPT !.at = "persist", !.generation = g]
<1>1. /\ request[r] \in Request /\ request \in [Requests -> Request]
      /\ RequestOK(request[r], sessions) /\ request[r].at \in {"own", "check"}
  BY RequestKnown DEF Reserve
<1>2. key \in Keys /\ root \in Mains
  BY <1>1 DEF RequestOK
<1>3. UNCHANGED <<sessionVars, storeVars>> /\ lease' \in Requests \cup {Nobody}
  BY DEF Reserve, Unlease, RegInv
<1>4. PoolInv' /\ StoreInv' /\ sessions' = sessions /\ StoreGrows
  BY <1>3, Quiet
<1>5. CASE Finish(r) /\ UNCHANGED scopeVars
  <2>1. ScopeTypes' /\ Kept
    BY <1>4, <1>5, Quiet
  <2>2. RequestsInv'
    BY <1>4, <1>5, RequestEnds DEF RegInv
  <2>3. QED
    BY <1>3, <1>4, <2>1, <2>2 DEF RegInv
<1>6. CASE /\ BeginRegistration(key, root)
           /\ request' = [request EXCEPT ![r].at = "persist", ![r].generation = g]
  <2>1. g \in Nat
    <3>1. roots[key] \in Binding \cup {None} /\ generation \in Nat
      BY <1>2, RegistrationAssumption DEF RegInv, ScopeTypes
    <3>2. Bound(key) => roots[key].generation \in Nat
      BY <3>1 DEF Bound, Binding
    <3>3. QED
      BY <3>1, <3>2
  <2> HIDE DEF g
  <2>2. request' = [request EXCEPT ![r] = q]
    BY <1>1, <1>6 DEF Request
  <2>3. /\ q \in Request /\ q.at = "persist" /\ q.op = request[r].op /\ q.key = key
        /\ q.native = request[r].native /\ q.root = root /\ q.parent = request[r].parent
    BY <1>1, <2>1 DEF Request
  <2> HIDE DEF q
  <2>4. RequestOK(q, sessions)
    BY <1>1, <2>3 DEF RequestOK
  <2>5. RequestsInv'
    BY <1>4, <2>2, <2>3, <2>4, RequestMoves DEF RegInv
  <2>6. ScopeTypes' /\ Scope' = Scope
    BY <1>2, <1>6, BeginRegistrationHides DEF RegInv
  <2>7. Kept
    BY <1>4, <2>6, Quiet
  <2>8. QED
    BY <1>3, <1>4, <2>5, <2>6, <2>7 DEF RegInv
<1>7. QED
  BY <1>5, <1>6 DEF Reserve

\* resolve_child_parent.
LEMMA ResolveParentKeeps ==
    ASSUME RegInv, NEW r \in Requests, ResolveParent(r), UNCHANGED requests
    PROVE  RegInv' /\ Kept
<1> DEFINE parent == request[r].parent
           root == sessions[parent].root
<1>1. /\ request[r] \in Request /\ request \in [Requests -> Request]
      /\ RequestOK(request[r], sessions) /\ request[r].at = "parent"
  BY RequestKnown DEF ResolveParent
<1>2. /\ parent \in Natives /\ request[r].op = "child" /\ request[r].key \in Keys
      /\ request[r].native \in Children
  BY <1>1 DEF RequestOK
<1>3. UNCHANGED <<sessionVars, scopeVars, storeVars, lease>>
  BY DEF ResolveParent
<1>4. PoolInv' /\ ScopeTypes' /\ StoreInv' /\ sessions' = sessions /\ StoreGrows /\ Kept
  BY <1>3, Quiet
<1>5. CASE Finish(r)
  <2>1. RequestsInv'
    BY <1>4, <1>5, RequestEnds DEF RegInv
  <2>2. QED
    BY <1>3, <1>4, <2>1 DEF RegInv
<1>6. CASE sessions[parent] # None
           /\ request' = [request EXCEPT ![r].at = "check", ![r].root = root]
  <2> DEFINE q == [request[r] EXCEPT !.at = "check", !.root = root]
  <2>1. root \in Mains /\ sessions[root] = MainRecord(root)
    BY <1>2, <1>6, RootStored DEF RegInv
  <2> HIDE DEF root
  <2>2. request' = [request EXCEPT ![r] = q]
    BY <1>1, <1>6 DEF Request
  <2>3. /\ q \in Request /\ q.at = "check" /\ q.op = "child" /\ q.key = request[r].key
        /\ q.native = request[r].native /\ q.root = root /\ q.parent = parent
    BY <1>1, <1>2, <2>1 DEF Request
  <2> HIDE DEF q
  <2>4. RequestOK(q, sessions)
    BY <1>2, <2>1, <2>3, Absent DEF RequestOK
  <2>5. RequestsInv'
    BY <1>4, <2>2, <2>3, <2>4, RequestMoves DEF RegInv
  <2>6. QED
    BY <1>3, <1>4, <2>5 DEF RegInv
<1>7. QED
  BY <1>5, <1>6 DEF ResolveParent

\* The observation of a redirected registration.
LEMMA ApplyKeeps ==
    ASSUME RegInv, NEW r \in Requests, Apply(r), UNCHANGED requests
    PROVE  RegInv' /\ Kept
<1> DEFINE n == request[r].native
<1>1. /\ request[r] \in Request /\ RequestOK(request[r], sessions) /\ request[r].at = "apply"
  BY RequestKnown DEF Apply
<1>2. n \in Mains /\ n \in Natives /\ request[r].root = n /\ request[r].key \in Keys
  BY <1>1 DEF RequestOK
<1>3. UNCHANGED <<sessionVars, scopeVars, lease>> /\ Finish(r) /\ Applied(n, MainRecord(n))
  BY <1>2 DEF Apply
<1>4. RecordOK(n, MainRecord(n), sessions) /\ MainRecord(n) \in Record
  BY <1>2, Absent DEF RecordOK
<1>5. /\ StoreInv' /\ StoreGrows /\ sessions'[n] # None
      /\ \A other \in Natives \ {n} : sessions'[other] = sessions[other]
  BY <1>2, <1>3, <1>4, AppliedJoins DEF RegInv
<1>6. PoolInv' /\ ScopeTypes' /\ Scope' = Scope
  BY <1>3, Quiet
<1>7. Kept
  BY <1>2, <1>5, <1>6, RegisterKept DEF RegInv
<1>8. RequestsInv'
  BY <1>3, <1>5, RequestEnds DEF RegInv
<1>9. QED
  BY <1>3, <1>5, <1>6, <1>7, <1>8 DEF RegInv

\* A registration is persisted.
LEMMA PersistKeeps ==
    ASSUME RegInv, NEW r \in Requests, Persist(r), UNCHANGED requests
    PROVE  RegInv' /\ Kept
<1> DEFINE n == request[r].native
           key == request[r].key
           root == request[r].root
           record == IF request[r].op = "main" THEN MainRecord(n) ELSE ChildRecord(root)
<1>1. /\ request[r] \in Request /\ request \in [Requests -> Request]
      /\ RequestOK(request[r], sessions) /\ request[r].at = "persist"
  BY RequestKnown DEF Persist
<1>2. /\ n \in Natives /\ key \in Keys /\ request[r].op \in {"main", "child"}
      /\ request[r].op = "main" => n \in Mains /\ root = n
      /\ request[r].op = "child" =>
             n \in Children /\ root \in Mains /\ sessions[root] = MainRecord(root)
             /\ request[r].parent \in Natives
  BY <1>1 DEF RequestOK
<1>3. UNCHANGED <<sessionVars, generation, lease>> /\ Applied(n, record)
  BY DEF Persist
<1>4. RecordOK(n, record, sessions) /\ record \in Record
  BY <1>2, Absent DEF RecordOK
<1>5. /\ StoreInv' /\ StoreGrows /\ sessions'[n] # None
      /\ \A other \in Natives \ {n} : sessions'[other] = sessions[other]
  BY <1>2, <1>3, <1>4, AppliedJoins DEF RegInv
<1>6. PoolInv'
  BY <1>3, Quiet
<1>7. CASE request[r].op = "main"
  <2>1. CommitRegistration(r) /\ Finish(r)
    BY <1>7 DEF Persist
  <2>2. ScopeTypes' /\ Binds(key, n)
    BY <1>2, <1>3, <1>7, <2>1, CommitBinds DEF RegInv
  <2>3. Kept
    BY <1>2, <1>5, <1>7, <2>2, RegisterKept DEF RegInv
  <2>4. RequestsInv'
    BY <1>5, <2>1, RequestEnds DEF RegInv
  <2>5. QED
    BY <1>3, <1>5, <1>6, <2>2, <2>3, <2>4 DEF RegInv
<1>8. CASE request[r].op = "child"
  <2> DEFINE q == [request[r] EXCEPT !.at = "relate"]
  <2>1. request' = [request EXCEPT ![r].at = "relate"] /\ UNCHANGED roots
    BY <1>8 DEF Persist, Move
  <2>2. ScopeTypes' /\ Scope' = Scope
    BY <1>3, <2>1, Quiet DEF scopeVars
  <2>3. Kept
    BY <1>2, <1>5, <2>2, RegisterKept DEF RegInv
  <2>4. request' = [request EXCEPT ![r] = q]
    BY <1>1, <2>1 DEF Request
  <2>5. /\ q \in Request /\ q.at = "relate" /\ q.op = "child" /\ q.key = key
        /\ q.native = n /\ q.root = root /\ q.parent = request[r].parent
    BY <1>1, <1>8 DEF Request
  <2> HIDE DEF q
  <2>6. RequestOK(q, sessions)
    BY <1>2, <1>8, <2>5 DEF RequestOK
  <2>7. RequestOK(q, sessions')
    BY <1>5, <2>5, <2>6, GrowthKeeps DEF RegInv
  <2>8. RequestsInv'
    BY <1>5, <2>4, <2>5, <2>7, RequestMoves DEF RegInv
  <2>9. QED
    BY <1>3, <1>5, <1>6, <2>2, <2>3, <2>8 DEF RegInv
<1>9. QED
  BY <1>2, <1>7, <1>8

\* save_relation, and the commit of a child's registration.
LEMMA RelateKeeps ==
    ASSUME RegInv, NEW r \in Requests, Relate(r), UNCHANGED requests
    PROVE  RegInv' /\ Kept
<1> DEFINE key == request[r].key
           root == request[r].root
<1>1. /\ request[r] \in Request /\ RequestOK(request[r], sessions) /\ request[r].at = "relate"
  BY RequestKnown DEF Relate
<1>2. /\ request[r].native \in Children /\ request[r].parent \in Natives /\ key \in Keys
      /\ request[r].op = "child" => root \in Mains /\ sessions[root] = MainRecord(root)
  BY <1>1 DEF RequestOK
<1>3. /\ UNCHANGED <<sessionVars, generation, sessions, lanes, finished, aliases, lease>>
      /\ Finish(r) /\ selected' = [selected EXCEPT ![request[r].native] = request[r].parent]
  BY DEF Relate, Select
<1>4. PoolInv' /\ StoreGrows /\ sessions' = sessions
  BY <1>3, Quiet
<1>5. StoreInv'
  BY <1>2, <1>3 DEF RegInv, StoreInv
<1>6. RequestsInv'
  BY <1>3, <1>4, RequestEnds DEF RegInv
<1>7. CASE request[r].op = "child"
  <2>1. ScopeTypes' /\ Binds(key, root)
    BY <1>2, <1>3, <1>7, CommitBinds DEF RegInv, Relate
  <2>2. Kept
    BY <1>2, <1>4, <1>7, <2>1, BindKept DEF RegInv
  <2>3. QED
    BY <1>3, <1>4, <1>5, <1>6, <2>1, <2>2 DEF RegInv
<1>8. CASE request[r].op # "child"
  <2>1. ScopeTypes' /\ Scope' = Scope
    BY <1>3, <1>8, Quiet DEF Relate, scopeVars
  <2>2. Kept
    BY <1>4, <2>1, Quiet
  <2>3. QED
    BY <1>3, <1>4, <1>5, <1>6, <2>1, <2>2 DEF RegInv
<1>9. QED
  BY <1>7, <1>8

\* An observation or a relation is refused.
LEMMA RefusedKeeps ==
    ASSUME RegInv, NEW r \in Requests, Refused(r), UNCHANGED requests
    PROVE  RegInv' /\ Kept
<1> DEFINE n == request[r].native
           record == IF request[r].op = "main" THEN MainRecord(request[r].root)
                     ELSE ChildRecord(request[r].root)
           lane == IF request[r].at = "relate" \/ lanes[n] # None THEN lanes[n]
                   ELSE IF sessions[n] # None THEN sessions[n] ELSE record
<1>1. /\ request[r] \in Request /\ RequestOK(request[r], sessions)
      /\ request[r].at \in {"apply", "persist", "relate", "complete"}
  BY RequestKnown DEF Refused
<1>2. n \in Natives /\ request[r].key \in Keys
  BY <1>1 DEF RequestOK
<1>3. /\ UNCHANGED <<sessionVars, generation, sessions, finished, selected, aliases, lease>>
      /\ Finish(r) /\ lanes' = [lanes EXCEPT ![n] = lane]
  BY DEF Refused
<1>4. PoolInv' /\ StoreGrows /\ sessions' = sessions
  BY <1>3, Quiet
<1>5. ScopeTypes' /\ Scope' = Scope
  <2>1. CASE RollbackRegistration(r)
    BY <1>2, <1>3, <2>1, RollbackHides DEF RegInv
  <2>2. CASE UNCHANGED roots
    BY <1>3, <2>2, Quiet DEF scopeVars
  <2>3. QED
    BY <2>1, <2>2 DEF Refused
<1>6. Kept
  BY <1>4, <1>5, Quiet
<1>7. RequestsInv'
  BY <1>3, <1>4, RequestEnds DEF RegInv
<1>8. \/ request[r].at \in {"relate", "complete"} /\ (request[r].at = "complete" => sessions[n] # None)
      \/ record \in Record /\ RecordOK(n, record, sessions)
  <2>1. CASE request[r].op = "main" /\ n \in Mains /\ request[r].root = n
    BY <2>1, Absent DEF RecordOK
  <2>2. CASE /\ request[r].op = "child" /\ n \in Children /\ request[r].root \in Mains
             /\ sessions[request[r].root] = MainRecord(request[r].root)
    BY <2>2, Absent DEF RecordOK
  <2>3. QED
    BY <1>1, <2>1, <2>2 DEF RequestOK
<1>9. /\ lane \in Record \cup {None}
      /\ lane # None => RecordOK(n, lane, sessions)
      /\ sessions[n] # None /\ lane # None => lane = sessions[n]
  <2>1. lanes[n] \in Record \cup {None} /\ sessions[n] \in Record \cup {None}
    BY <1>2 DEF RegInv, StoreInv
  <2> HIDE DEF record
  <2>2. QED
    BY <1>2, <1>8, <2>1 DEF RegInv, StoreInv
<1> HIDE DEF lane
<1>10. /\ lanes' \in [Natives -> Record \cup {None}]
       /\ \A m \in Natives : lanes'[m] = IF m = n THEN lane ELSE lanes[m]
  BY <1>2, <1>3, <1>9 DEF RegInv, StoreInv
<1>11. StoreInv'
  BY <1>3, <1>9, <1>10 DEF RegInv, StoreInv
<1>12. QED
  BY <1>3, <1>4, <1>5, <1>6, <1>7, <1>11 DEF RegInv

\* resolve_scoped.
LEMMA ResolveScopedKeeps ==
    ASSUME RegInv, NEW r \in Requests, ResolveScoped(r), UNCHANGED requests
    PROVE  RegInv' /\ Kept
<1> DEFINE at == IF request[r].op = "delegate" THEN "relate" ELSE "complete"
           q == [request[r] EXCEPT !.at = at]
<1>1. /\ request[r] \in Request /\ request \in [Requests -> Request]
      /\ RequestOK(request[r], sessions) /\ request[r].at = "target"
  BY RequestKnown DEF ResolveScoped
<1>2. UNCHANGED <<sessionVars, scopeVars, storeVars, lease>>
  BY DEF ResolveScoped
<1>3. PoolInv' /\ ScopeTypes' /\ StoreInv' /\ sessions' = sessions /\ StoreGrows /\ Kept
  BY <1>2, Quiet
<1>4. CASE Finish(r)
  <2>1. RequestsInv'
    BY <1>3, <1>4, RequestEnds DEF RegInv
  <2>2. QED
    BY <1>2, <1>3, <2>1 DEF RegInv
<1>5. CASE sessions[request[r].native] # None /\ request' = [request EXCEPT ![r].at = at]
  <2>1. request' = [request EXCEPT ![r] = q]
    BY <1>1, <1>5 DEF Request
  <2>2. /\ q \in Request /\ q.at = at /\ q.op = request[r].op /\ q.key = request[r].key
        /\ q.native = request[r].native /\ q.parent = request[r].parent
    BY <1>1 DEF Request
  <2> HIDE DEF q
  <2>3. RequestOK(q, sessions)
    BY <1>1, <1>5, <2>2 DEF RequestOK
  <2>4. RequestsInv'
    BY <1>3, <2>1, <2>2, <2>3, RequestMoves DEF RegInv
  <2>5. QED
    BY <1>2, <1>3, <2>4 DEF RegInv
<1>6. QED
  BY <1>4, <1>5 DEF ResolveScoped, Move

\* complete_session.
LEMMA CompleteKeeps ==
    ASSUME RegInv, NEW r \in Requests, Complete(r), UNCHANGED requests
    PROVE  RegInv' /\ Kept
<1> DEFINE n == request[r].native
<1>1. RequestOK(request[r], sessions) /\ request[r].at = "complete"
  BY RequestKnown DEF Complete
<1>2. n \in Natives
  BY <1>1 DEF RequestOK
<1>3. /\ UNCHANGED <<sessionVars, scopeVars, sessions, selected, aliases, lease>>
      /\ Finish(r) /\ finished' = finished \cup {n}
      /\ lanes' = [lanes EXCEPT ![n] = sessions[n]]
  BY DEF Complete
<1>4. PoolInv' /\ ScopeTypes' /\ StoreGrows /\ sessions' = sessions /\ Kept
  BY <1>3, Quiet
<1>5. RequestsInv'
  BY <1>3, <1>4, RequestEnds DEF RegInv
<1>6. /\ lanes' \in [Natives -> Record \cup {None}]
      /\ \A m \in Natives : lanes'[m] = IF m = n THEN sessions[n] ELSE lanes[m]
  BY <1>2, <1>3 DEF RegInv, StoreInv
<1>7. StoreInv'
  BY <1>2, <1>3, <1>6 DEF RegInv, StoreInv
<1>8. QED
  BY <1>3, <1>4, <1>5, <1>7 DEF RegInv

\* Discovery saves an alias, a close ends, the pool moves.
LEMMA OthersKeep ==
    ASSUME RegInv, \/ \E n, canonical \in Mains : SaveAlias(n, canonical)
                   \/ \E m \in Managers : ReleaseScope(m)
                   \/ ManageSessions \/ UNCHANGED vars
    PROVE  RegInv' /\ Kept
<1>1. RequestsInv /\ StoreInv
  BY DEF RegInv
<1>2. ASSUME UNCHANGED <<request, sessions>> PROVE RequestsInv'
  BY <1>1, <1>2 DEF RequestsInv
<1>3. ASSUME NEW n \in Mains, NEW canonical \in Mains, SaveAlias(n, canonical)
      PROVE  RegInv' /\ Kept
  <2>1. /\ UNCHANGED <<sessionVars, scopeVars, sessions, lanes, finished, selected, lease,
                       request, requests>>
        /\ aliases' = [aliases EXCEPT ![n] = canonical]
    BY <1>3 DEF SaveAlias
  <2>2. StoreInv'
    BY <1>1, <2>1, Absent DEF StoreInv
  <2>3. PoolInv' /\ ScopeTypes' /\ Kept
    BY <2>1, Quiet
  <2>4. QED
    BY <1>2, <2>1, <2>2, <2>3 DEF RegInv
<1>4. ASSUME NEW m \in Managers, ReleaseScope(m) PROVE RegInv' /\ Kept
  <2> DEFINE v == task[m].victim
  <2>1. /\ EndClose(m) /\ roots' = [roots EXCEPT ![v] = None]
        /\ UNCHANGED <<generation, storeVars, lease, request, requests>>
    BY <1>4 DEF ReleaseScope
  <2>2. PoolInv' /\ StoreInv' /\ sessions' = sessions /\ Tree' = Tree
    BY <2>1, PoolSteps, Quiet DEF RegInv
  <2>3. /\ roots \in [Keys -> Binding \cup {None}]
        /\ roots' \in [Keys -> Binding \cup {None}]
        /\ \A k \in Keys : roots'[k] = IF k = v THEN None ELSE roots[k]
    BY <2>1 DEF RegInv, ScopeTypes
  <2>4. ScopeTypes'
    BY <2>1, <2>3 DEF RegInv, ScopeTypes
  <2>5. RootOf(None) = None
    BY DEF RootOf
  <2>6. Scope' = [k \in Keys |-> IF k \in {v} \cap Keys THEN None ELSE Scope[k]]
    <3>1. \A k \in Keys : RootOf(roots'[k]) = IF k \in {v} \cap Keys THEN None ELSE RootOf(roots[k])
      BY <2>3, <2>5
    <3>2. QED
      BY <3>1, ScopeIsRoots
  <2>7. Contract!Release({v} \cap Keys)
    BY <2>2, <2>6 DEF Contract!Release
  <2>8. {v} \cap Keys \in SUBSET Keys
    OBVIOUS
  <2>9. Kept
    BY <2>7, <2>8 DEF Contract!Next, Kept
  <2>10. QED
    BY <1>2, <2>1, <2>2, <2>4, <2>9 DEF RegInv
<1>5. CASE ManageSessions
  <2>1. SessionStep /\ UNCHANGED <<scopeVars, storeVars, lease, request, requests>>
    BY <1>5 DEF ManageSessions
  <2>2. PoolInv'
    BY <2>1, PoolSteps DEF RegInv
  <2>3. ScopeTypes' /\ StoreInv' /\ sessions' = sessions /\ Kept
    BY <2>1, Quiet
  <2>4. QED
    BY <1>2, <2>1, <2>2, <2>3 DEF RegInv
<1>6. CASE UNCHANGED vars
  <2>1. UNCHANGED <<sessionVars, scopeVars, storeVars, lease, request, requests>>
    BY <1>6 DEF vars
  <2>2. PoolInv' /\ ScopeTypes' /\ StoreInv' /\ sessions' = sessions /\ Kept
    BY <2>1, Quiet
  <2>3. QED
    BY <1>2, <2>1, <2>2 DEF RegInv
<1>7. QED
  BY <1>3, <1>4, <1>5, <1>6

\* The daemon starts in an initial state of the contract, whatever main sessions
\* the store already holds.
LEMMA InitRegistration == Init => RegInv /\ Contract!Init
<1> SUFFICES ASSUME Init PROVE RegInv /\ Contract!Init
  OBVIOUS
<1>1. PICK stored \in SUBSET Mains :
        sessions = [n \in Natives |-> IF n \in stored THEN MainRecord(n) ELSE None]
  BY DEF Init
<1>2. PoolInv
  BY InitPool DEF Init
<1>3. ScopeTypes
  BY RegistrationAssumption DEF Init, ScopeTypes
<1>4. \A n \in Natives : /\ sessions[n] \in Record \cup {None}
                         /\ sessions[n] # None <=> n \in stored
                         /\ n \in stored => sessions[n] = MainRecord(n) /\ n \in Mains
  BY <1>1, Absent
<1>5. StoreInv
  <2>1. sessions \in [Natives -> Record \cup {None}]
    BY <1>1, <1>4
  <2>2. \A n \in Natives : sessions[n] # None => RecordOK(n, sessions[n], sessions)
    BY <1>4 DEF RecordOK
  <2>3. QED
    BY <2>1, <2>2 DEF Init, StoreInv
<1>6. RequestsInv
  BY NoRequestOK DEF Init, RequestsInv
<1>7. RegInv
  BY <1>2, <1>3, <1>5, <1>6, RegistrationAssumption DEF Init, RegInv
<1>8. Tree = [root \in Natives |-> {root} \cap stored]
  <2>1. \A n, root \in Natives : n \in Tree[root] <=> n = root /\ n \in stored
    BY <1>4, Absent, TreeIs
  <2>2. \A root \in Natives : Tree[root] = {root} \cap stored
    BY <2>1, TreeIs
  <2>3. QED
    BY <2>2 DEF Tree
<1>9. Scope = [key \in Keys |-> None]
  BY DEF Init, Scope, ScopeRoot, Bound
<1>10. stored \in SUBSET Natives
  BY Absent
<1>11. Contract!Init
  BY <1>8, <1>9, <1>10 DEF Contract!Init
<1>12. QED
  BY <1>7, <1>11

\* Every step keeps the invariant and the contract.
LEMMA RegistrationSteps ==
    ASSUME RegInv, [Next]_vars
    PROVE  RegInv' /\ Kept
<1>1. ASSUME NEW r \in Requests, Arrival(r) PROVE RegInv' /\ Kept
  BY <1>1, ArrivalKeeps
<1>2. ASSUME NEW r \in Requests, RequestStep(r), UNCHANGED requests PROVE RegInv' /\ Kept
  BY <1>2, LeaseAliasKeeps, RedirectKeeps, ReserveKeeps, ResolveParentKeeps, ApplyKeeps,
     PersistKeeps, RelateKeeps, RefusedKeeps, ResolveScopedKeeps, CompleteKeeps DEF RequestStep
<1>3. QED
  BY <1>1, <1>2, OthersKeep DEF Next

\* Every reachable state satisfies the invariant.
THEOREM RegistrationInvariant == Spec => []RegInv
<1>1. RegInv /\ [Next]_vars => RegInv'
  BY RegistrationSteps
<1>2. QED
  BY <1>1, InitRegistration, PTL DEF Spec

\* The registry, the store and the pool stay in their types.
THEOREM TypeCorrect == Spec => []TypeOK
<1>1. RegInv => TypeOK
  BY DEF RegInv, PoolInv, ScopeTypes, StoreInv, RequestsInv, TypeOK
<1>2. QED
  BY <1>1, RegistrationInvariant, PTL

\* Live transports never exceed the cap (create_session, reserve_slot).
THEOREM CapHolds == Spec => []CapacityHeld
<1>1. RegInv => CapacityHeld
  BY DEF RegInv, PoolInv
<1>2. QED
  BY <1>1, RegistrationInvariant, PTL

\* Registrations implement the contract of scopes (ScopeRegistry, register_session,
\* discover_session).
THEOREM ContractImplemented == Spec => ScopesKept
<1>1. Init => Contract!Init
  BY InitRegistration
<1>2. RegInv /\ [Next]_vars => [Contract!Next]_<<Tree, Scope>>
  BY RegistrationSteps DEF Kept
<1>3. QED
  BY <1>1, <1>2, RegistrationInvariant, PTL DEF Spec, ScopesKept, Contract!Spec

\* What a transport's scope is, it stays.
Stays == \A k \in Keys : Scope[k] # None => Scope'[k] = Scope[k]

\* Giving an unbound transport a root takes no other transport's scope away.
LEMMA BindingStays ==
    ASSUME NEW key \in Keys, NEW root, Binds(key, root)
    PROVE  Stays
<1>1. CASE Scope' = Scope
  BY <1>1 DEF Stays
<1>2. CASE Scope[key] = None /\ Scope' = [Scope EXCEPT ![key] = root]
  BY <1>2, ScopeIsRoots DEF Stays
<1>3. QED
  BY <1>1, <1>2 DEF Binds

\* Only the end of a close takes a scope away.
LEMMA StepsStay ==
    ASSUME RegInv, [Next]_vars, ~ \E m \in Managers : ReleaseScope(m)
    PROVE  Stays
<1>1. ASSUME NEW r \in Requests,
             Arrival(r) \/ LeaseAlias(r) \/ ResolveParent(r) \/ Apply(r) \/ ResolveScoped(r)
             \/ Complete(r)
      PROVE  Stays
  <2>1. UNCHANGED scopeVars
    BY <1>1 DEF Arrival, RegisterMain, RegisterChild, ScopedCall, Arrives, LeaseAlias,
       ResolveParent, Apply, ResolveScoped, Complete
  <2>2. QED
    BY <2>1, Quiet DEF Stays
<1>2. ASSUME ManageSessions \/ (\E n, canonical \in Mains : SaveAlias(n, canonical))
             \/ UNCHANGED vars
      PROVE  Stays
  <2>1. UNCHANGED scopeVars
    BY <1>2 DEF ManageSessions, SaveAlias, vars
  <2>2. QED
    BY <2>1, Quiet DEF Stays
<1>3. ASSUME NEW r \in Requests,
             Redirect(r) \/ Reserve(r) \/ Persist(r) \/ Relate(r) \/ Refused(r)
      PROVE  Stays
  <2>1. request[r] \in Request /\ RequestOK(request[r], sessions) /\ ScopeTypes
    BY RequestKnown DEF RegInv
  <2>2. CASE Redirect(r)
    <3>1. /\ request[r].target \in Mains /\ request[r].key \in Keys
      BY <2>1, <2>2 DEF Redirect, RequestOK
    <3>2. CASE UNCHANGED scopeVars
      BY <3>2, Quiet DEF Stays
    <3>3. CASE /\ sessions[request[r].target] = MainRecord(request[r].target)
               /\ BindCommitted(request[r].key, sessions[request[r].target].root)
      BY <2>1, <3>1, <3>3, Absent, BindCommittedBinds, BindingStays
    <3>4. QED
      BY <2>2, <3>2, <3>3 DEF Redirect
  <2>3. CASE Reserve(r)
    <3>1. request[r].root \in Mains /\ request[r].key \in Keys
      BY <2>1, <2>3 DEF Reserve, RequestOK
    <3>2. QED
      BY <2>1, <2>3, <3>1, BeginRegistrationHides, Quiet DEF Reserve, Stays
  <2>4. CASE Persist(r) \/ Relate(r) \/ Refused(r)
    <3>1. request[r].key \in Keys /\ UNCHANGED generation
      BY <2>1, <2>4 DEF Persist, Relate, Refused, RequestOK
    <3>2. CASE UNCHANGED roots
      BY <3>1, <3>2, Quiet DEF scopeVars, Stays
    <3>3. CASE CommitRegistration(r)
      BY <2>1, <3>1, <3>3, CommitBinds, BindingStays
    <3>4. CASE RollbackRegistration(r)
      BY <2>1, <3>1, <3>4, RollbackHides DEF Stays
    <3>5. QED
      BY <2>4, <3>2, <3>3, <3>4 DEF Persist, Relate, Refused
  <2>5. QED
    BY <1>3, <2>2, <2>3, <2>4
<1>4. QED
  BY <1>1, <1>2, <1>3 DEF Next, RequestStep

\* A transport keeps its scope until the transport itself has closed, whatever other
\* registrations fail or finish late (rollback_registration, release).
THEOREM ScopeKeptUntilClose == Spec => ScopeLostByClose
<1> DEFINE Lost == \A key \in Keys : ScopeRoot(key) # None /\ ScopeRoot(key)' = None =>
          \E m \in Managers : task[m].at \in {"evicted", "closed"} /\ task[m].victim = key
<1>1. ASSUME RegInv, [Next]_vars PROVE [Lost]_vars
  <2>1. \A key \in Keys : Scope[key] = ScopeRoot(key) /\ Scope'[key] = ScopeRoot(key)'
    BY DEF Scope
  <2>2. ASSUME NEW m \in Managers, ReleaseScope(m) PROVE Lost
    <3> DEFINE v == task[m].victim
    <3>1. task[m].at \in {"evicted", "closed"} /\ roots' = [roots EXCEPT ![v] = None]
      BY <2>2 DEF ReleaseScope, EndClose
    <3>2. \A key \in Keys : key # v => roots'[key] = roots[key]
      BY <1>1, <3>1 DEF RegInv, ScopeTypes
    <3>3. \A key \in Keys : key # v => Scope'[key] = Scope[key]
      BY <3>2, ScopeIsRoots
    <3>4. QED
      BY <2>1, <3>1, <3>3
  <2>3. CASE ~ \E m \in Managers : ReleaseScope(m)
    BY <1>1, <2>1, <2>3, StepsStay DEF Stays
  <2>4. QED
    BY <2>2, <2>3
<1>2. QED
  BY <1>1, RegistrationInvariant, PTL DEF Spec, ScopeLostByClose

-----------------------------------------------------------------------------
(* Guards and gauge.                                                       *)

\* A request in this state holds a ScopeGuard.
IsGuard(q) == q.at = "persist" \/ (q.at = "relate" /\ q.op = "child")

\* The requests among held whose guard is for this binding of the key.
Holders(held, binding, key) ==
    {r \in Requests : IsGuard(held[r]) /\ held[r].key = key /\ binding.generation = held[r].generation}

\* A binding counts its guards, is younger than the next generation, and has the root its
\* guards reserved.
KeyOK(held, binding, next, key) ==
    binding # None =>
        /\ binding.generation < next
        /\ binding.pending = Cardinality(Holders(held, binding, key))
        /\ binding.committed \/ binding.pending > 0
        /\ \A r \in Holders(held, binding, key) : held[r].root = binding.root

\* No guard is for a generation not handed out yet; every binding counts its guards.
GuardInv ==
    /\ \A r \in Requests : IsGuard(request[r]) => request[r].generation < generation
    /\ \A key \in Keys : KeyOK(request, roots[key], generation, key)

\* Two states of a request are guards of the same binding of the key, or both are none.
SameAt(p, q, key) ==
    /\ (IsGuard(p) /\ p.key = key) <=> (IsGuard(q) /\ q.key = key)
    /\ IsGuard(q) /\ q.key = key => p.generation = q.generation /\ p.root = q.root

\* Nothing happens to the guards of a binding.
LEMMA GuardsStay ==
    ASSUME NEW held, NEW after, NEW key, NEW binding, NEW n \in Nat, NEW m \in Nat, n <= m,
           KeyOK(held, binding, n, key), binding # None => binding.generation \in Nat,
           \A s \in Requests : SameAt(after[s], held[s], key)
    PROVE  KeyOK(after, binding, m, key)
<1>1. Holders(after, binding, key) = Holders(held, binding, key)
  BY DEF Holders, SameAt
<1>2. \A r \in Holders(held, binding, key) : after[r].root = held[r].root
  BY DEF Holders, SameAt
<1>3. binding # None /\ binding.generation < n => binding.generation < m
  OBVIOUS
<1>4. QED
  BY <1>1, <1>2, <1>3 DEF KeyOK

\* bind_committed: a binding that is there is committed.
LEMMA BindingCommits ==
    ASSUME NEW held, NEW key, NEW binding \in Binding, NEW n \in Nat, KeyOK(held, binding, n, key)
    PROVE  KeyOK(held, [binding EXCEPT !.committed = TRUE], n, key)
<1> DEFINE left == [binding EXCEPT !.committed = TRUE]
<1>1. /\ left.generation = binding.generation /\ left.pending = binding.pending
      /\ left.root = binding.root /\ left.committed = TRUE /\ binding # None
  BY AbsentAssumption DEF Binding
<1> HIDE DEF left
<1>2. Holders(held, left, key) = Holders(held, binding, key)
  BY <1>1 DEF Holders
<1>3. QED
  BY <1>1, <1>2 DEF KeyOK, left

\* bind_committed and begin_registration of a key without a binding: nobody holds a guard
\* of the generation it gets, but for the request that begins.
LEMMA FreshGuards ==
    ASSUME IsFiniteSet(Requests), NEW held, NEW key, NEW root \in Mains, NEW n \in Nat,
           \A s \in Requests : IsGuard(held[s]) => held[s].generation < n /\ held[s].generation \in Nat,
           NEW r \in Requests, NEW q, NEW after, after = [held EXCEPT ![r] = q],
           DOMAIN held = Requests, ~IsGuard(held[r]), NEW pending \in Nat, NEW committed \in BOOLEAN,
           \/ ~IsGuard(q) /\ pending = 0 /\ committed
           \/ IsGuard(q) /\ q.key = key /\ q.generation = n /\ q.root = root /\ pending = 1
    PROVE  KeyOK(after, [root |-> root, generation |-> n, pending |-> pending, committed |-> committed],
                 n + 1, key)
<1> DEFINE binding == [root |-> root, generation |-> n, pending |-> pending, committed |-> committed]
<1>1. binding.generation = n /\ binding.pending = pending /\ binding.root = root
      /\ binding.committed = committed
  OBVIOUS
<1> HIDE DEF binding
<1>2. \A s \in Requests : after[s] = IF s = r THEN q ELSE held[s]
  OBVIOUS
<1>3. \A s \in Requests : IsGuard(held[s]) => held[s].generation # n
  OBVIOUS
<1>4. CASE ~IsGuard(q) /\ pending = 0 /\ committed
  <2>1. Holders(after, binding, key) = {}
    BY <1>1, <1>2, <1>3, <1>4 DEF Holders
  <2>2. binding.generation < n + 1 /\ binding.pending = Cardinality({})
    BY <1>1, <1>4, FS_EmptySet
  <2>3. binding.committed
    BY <1>1, <1>4, Zenon
  <2>4. KeyOK(after, binding, n + 1, key)
    BY <2>1, <2>2, <2>3, Zenon DEF KeyOK
  <2>5. QED
    BY <2>4 DEF binding
<1>5. CASE IsGuard(q) /\ q.key = key /\ q.generation = n /\ q.root = root /\ pending = 1
  <2>1. Holders(after, binding, key) = {r}
    BY <1>1, <1>2, <1>3, <1>5 DEF Holders
  <2>2. after[r].root = root
    BY <1>2, <1>5
  <2>3. Cardinality({r}) = 1
    BY FS_Singleton
  <2>4. binding.generation < n + 1 /\ binding.pending = Cardinality({r}) /\ binding.pending > 0
        /\ binding.root = root
    BY <1>1, <1>5, <2>3
  <2>5. KeyOK(after, binding, n + 1, key)
    BY <2>1, <2>2, <2>4, Zenon DEF KeyOK
  <2>6. QED
    BY <2>5 DEF binding
<1>6. QED
  BY <1>4, <1>5

\* begin_registration of a bound key: one guard more.
LEMMA GuardJoins ==
    ASSUME IsFiniteSet(Requests), NEW held, NEW key, NEW binding \in Binding, NEW n \in Nat,
           KeyOK(held, binding, n, key),
           NEW r \in Requests, NEW q, NEW after, after = [held EXCEPT ![r] = q],
           DOMAIN held = Requests, ~IsGuard(held[r]), IsGuard(q), q.key = key,
           q.generation = binding.generation, q.root = binding.root
    PROVE  KeyOK(after, [binding EXCEPT !.pending = @ + 1], n, key)
<1> DEFINE more == [binding EXCEPT !.pending = @ + 1]
           H == Holders(held, binding, key)
<1>1. /\ more.generation = binding.generation /\ more.pending = binding.pending + 1
      /\ more.root = binding.root /\ more.committed = binding.committed /\ binding # None
      /\ binding.pending \in Nat
  BY AbsentAssumption DEF Binding
<1> HIDE DEF more
<1>2. \A s \in Requests : after[s] = IF s = r THEN q ELSE held[s]
  OBVIOUS
<1>3. Holders(after, more, key) = H \cup {r} /\ r \notin H /\ H \subseteq Requests
  BY <1>1, <1>2 DEF Holders
<1>4. \A s \in Holders(after, more, key) : after[s].root = binding.root
  BY <1>1, <1>2, <1>3 DEF KeyOK, Holders
<1> HIDE DEF H
<1>5. IsFiniteSet(H)
  BY <1>3, FS_Subset
<1>6. Cardinality(H \cup {r}) = Cardinality(H) + 1
  BY <1>3, <1>5, FS_AddElement
<1>7. binding.pending = Cardinality(H)
  BY <1>1 DEF KeyOK, H
<1>8. more.generation < n /\ more.pending = Cardinality(H \cup {r}) /\ more.pending > 0
  BY <1>1, <1>6, <1>7 DEF KeyOK
<1>9. KeyOK(after, more, n, key)
  BY <1>1, <1>3, <1>4, <1>8, Zenon DEF KeyOK
<1>10. QED
  BY <1>9 DEF more

\* A guard is committed or dropped: one guard less, unless it is of an earlier life.
LEMMA GuardLeaves ==
    ASSUME IsFiniteSet(Requests), NEW held, NEW key, NEW binding \in Binding, NEW n \in Nat,
           KeyOK(held, binding, n, key),
           NEW r \in Requests, NEW q, NEW after, after = [held EXCEPT ![r] = q],
           DOMAIN held = Requests, IsGuard(held[r]), held[r].key = key, ~IsGuard(q),
           held[r].generation = binding.generation
    PROVE  /\ binding.pending > 0 /\ held[r].root = binding.root
           /\ KeyOK(after, [binding EXCEPT !.pending = @ - 1, !.committed = TRUE], n, key)
           /\ LET left == [binding EXCEPT !.pending = @ - 1]
              IN  ~(left.pending = 0 /\ ~left.committed) => KeyOK(after, left, n, key)
<1> DEFINE H == Holders(held, binding, key)
<1>1. binding # None /\ binding.pending \in Nat
  BY AbsentAssumption DEF Binding
<1>2. \A s \in Requests : after[s] = IF s = r THEN q ELSE held[s]
  OBVIOUS
<1>3. r \in H /\ H \subseteq Requests
  BY DEF Holders
<1>4. binding.pending = Cardinality(H) /\ binding.generation < n
      /\ \A s \in H : held[s].root = binding.root
  BY <1>1 DEF KeyOK
<1>5. IsFiniteSet(H) /\ Cardinality(H \ {r}) = Cardinality(H) - 1
  BY <1>3, FS_Subset, FS_RemoveElement
<1>6. Cardinality(H) > 0
  <2>1. Cardinality(H) \in Nat /\ Cardinality(H \ {r}) \in Nat
    BY <1>5, FS_CardinalityType, FS_RemoveElement
  <2> HIDE DEF H
  <2>2. QED
    BY <1>5, <2>1
<1>7. ASSUME NEW left, left # None, left.generation = binding.generation, left.root = binding.root,
             left.pending = binding.pending - 1, left.committed \/ left.pending > 0
      PROVE  KeyOK(after, left, n, key)
  <2>1. Holders(after, left, key) = H \ {r}
    BY <1>2, <1>7 DEF Holders
  <2>2. \A s \in H \ {r} : after[s].root = binding.root
    BY <1>2, <1>3, <1>4
  <2> HIDE DEF H
  <2>3. QED
    BY <1>4, <1>5, <1>7, <2>1, <2>2 DEF KeyOK
<1>8. KeyOK(after, [binding EXCEPT !.pending = @ - 1, !.committed = TRUE], n, key)
  <2> DEFINE left == [binding EXCEPT !.pending = @ - 1, !.committed = TRUE]
  <2>1. /\ left.generation = binding.generation /\ left.pending = binding.pending - 1
        /\ left.root = binding.root /\ left.committed = TRUE
    BY DEF Binding
  <2>2. binding.pending - 1 \in Nat
    <3> HIDE DEF H
    <3>1. QED
      BY <1>1, <1>4, <1>6
  <2>3. left # None
    <3>1. left \in Binding
      BY <2>2 DEF Binding
    <3>2. QED
      BY <3>1, AbsentAssumption
  <2> HIDE DEF left
  <2>4. KeyOK(after, left, n, key)
    BY <1>7, <2>1, <2>3
  <2>5. QED
    BY <2>4 DEF left
<1>9. ASSUME ~([binding EXCEPT !.pending = @ - 1].pending = 0
               /\ ~[binding EXCEPT !.pending = @ - 1].committed)
      PROVE  KeyOK(after, [binding EXCEPT !.pending = @ - 1], n, key)
  <2> DEFINE left == [binding EXCEPT !.pending = @ - 1]
  <2>1. /\ left.generation = binding.generation /\ left.pending = binding.pending - 1
        /\ left.root = binding.root /\ left.committed = binding.committed
    BY DEF Binding
  <2>2. left \in Binding /\ left.pending \in Nat
    BY <1>1, <1>4, <1>6 DEF Binding
  <2>3. left # None
    BY <2>2, AbsentAssumption
  <2>4. ~(left.pending = 0 /\ ~left.committed)
    BY <1>9
  <2> HIDE DEF left
  <2>5. left.committed \/ left.pending > 0
    BY <2>2, <2>4
  <2>6. KeyOK(after, left, n, key)
    BY <1>7, <2>1, <2>3, <2>5
  <2>7. QED
    BY <2>6 DEF left
<1>10. QED
  <2> HIDE DEF H
  <2>1. binding.pending > 0 /\ held[r].root = binding.root
    BY <1>3, <1>4, <1>6
  <2>2. QED
    BY <2>1, <1>8, <1>9

\* A guard of an earlier life of the key goes: the binding there is now does not count it.
LEMMA StaleLeaves ==
    ASSUME NEW held, NEW key, NEW binding, NEW n, KeyOK(held, binding, n, key),
           NEW r \in Requests, NEW q, NEW after, after = [held EXCEPT ![r] = q],
           DOMAIN held = Requests, ~IsGuard(q),
           binding # None => r \notin Holders(held, binding, key)
    PROVE  KeyOK(after, binding, n, key)
<1>1. \A s \in Requests : after[s] = IF s = r THEN q ELSE held[s]
  OBVIOUS
<1>2. CASE binding # None
  <2>1. Holders(after, binding, key) = Holders(held, binding, key)
    BY <1>1, <1>2 DEF Holders
  <2>2. \A s \in Holders(held, binding, key) : after[s].root = held[s].root
    BY <1>1, <1>2
  <2>3. QED
    BY <2>1, <2>2 DEF KeyOK
<1>3. CASE binding = None
  BY <1>3 DEF KeyOK
<1>4. QED
  BY <1>2, <1>3

\* The shapes the guards need.
LEMMA GuardShapes ==
    ASSUME RegInv
    PROVE  /\ request \in [Requests -> Request] /\ DOMAIN request = Requests
           /\ \A r \in Requests : request[r] \in Request /\ request[r].generation \in Nat
                                  /\ RequestOK(request[r], sessions)
           /\ roots \in [Keys -> Binding \cup {None}] /\ generation \in Nat
           /\ \A key \in Keys : roots[key] # None =>
                 roots[key] \in Binding /\ roots[key].generation \in Nat
           /\ NoRequest \in Request /\ ~IsGuard(NoRequest)
<1>1. request \in [Requests -> Request] /\ \A r \in Requests : RequestOK(request[r], sessions)
  BY DEF RegInv, RequestsInv
<1>2. roots \in [Keys -> Binding \cup {None}] /\ generation \in Nat
  BY RegistrationAssumption DEF RegInv, ScopeTypes
<1>3. NoRequest \in Request /\ ~IsGuard(NoRequest)
  BY NoRequestOK DEF IsGuard
<1>4. \A r \in Requests : request[r] \in Request /\ request[r].generation \in Nat
  BY <1>1 DEF Request
<1>5. \A key \in Keys : roots[key] # None => roots[key] \in Binding /\ roots[key].generation \in Nat
  BY <1>2 DEF Binding
<1>6. QED
  BY <1>1, <1>2, <1>3, <1>4, <1>5

\* One request moves and the binding of one key changes.
LEMMA OneKey ==
    ASSUME RegInv, GuardInv, generation' \in Nat, generation <= generation',
           NEW r \in Requests, NEW q \in Request, request' = [request EXCEPT ![r] = q],
           NEW key \in Keys, NEW b, roots' = [roots EXCEPT ![key] = b],
           KeyOK(request', b, generation', key),
           IsGuard(q) => q.key = key /\ q.generation < generation',
           IsGuard(request[r]) => request[r].key = key
    PROVE  GuardInv'
<1>1. \A s \in Requests : request'[s] = IF s = r THEN q ELSE request[s]
  BY GuardShapes
<1>2. \A k \in Keys : roots'[k] = IF k = key THEN b ELSE roots[k]
  BY GuardShapes
<1>3. ASSUME NEW s \in Requests, IsGuard(request'[s]) PROVE request'[s].generation < generation'
  <2>1. CASE s = r
    BY <1>1, <1>3, <2>1
  <2>2. CASE s # r
    <3>1. request[s].generation < generation /\ request[s].generation \in Nat /\ generation \in Nat
      BY <1>1, <1>3, <2>2, GuardShapes DEF GuardInv
    <3>2. QED
      BY <1>1, <2>2, <3>1
  <2>3. QED
    BY <2>1, <2>2
<1>4. ASSUME NEW k \in Keys PROVE KeyOK(request', roots'[k], generation', k)
  <2>1. CASE k = key
    BY <1>2, <2>1
  <2>2. CASE k # key
    <3>1. \A s \in Requests : SameAt(request'[s], request[s], k)
      BY <1>1, <2>2 DEF SameAt
    <3>2. KeyOK(request, roots[k], generation, k) /\ generation \in Nat
          /\ (roots[k] # None => roots[k].generation \in Nat)
      BY GuardShapes DEF GuardInv
    <3>3. KeyOK(request', roots[k], generation', k)
      BY <3>1, <3>2, GuardsStay
    <3>4. QED
      BY <1>2, <2>2, <3>3
  <2>3. QED
    BY <2>1, <2>2
<1>5. QED
  BY <1>3, <1>4 DEF GuardInv

\* Nothing happens to the scopes, and no guard comes or goes.
LEMMA GuardsQuiet ==
    ASSUME RegInv, GuardInv, UNCHANGED scopeVars,
           \A s \in Requests, key \in Keys : SameAt(request'[s], request[s], key),
           \A s \in Requests : IsGuard(request'[s]) =>
               IsGuard(request[s]) /\ request'[s].generation = request[s].generation
    PROVE  GuardInv'
<1>1. roots' = roots /\ generation' = generation
  BY DEF scopeVars
<1>2. \A s \in Requests : IsGuard(request'[s]) => request'[s].generation < generation'
  BY <1>1 DEF GuardInv
<1>3. ASSUME NEW key \in Keys PROVE KeyOK(request', roots'[key], generation', key)
  <2>1. KeyOK(request, roots[key], generation, key) /\ generation \in Nat
        /\ (roots[key] # None => roots[key].generation \in Nat)
    BY GuardShapes DEF GuardInv
  <2>2. generation <= generation
    BY <2>1
  <2>3. KeyOK(request', roots[key], generation, key)
    BY <2>1, <2>2, GuardsStay
  <2>4. QED
    BY <1>1, <2>3
<1>4. QED
  BY <1>2, <1>3 DEF GuardInv

\* A request without a guard moves on without one.
LEMMA NoGuardMoves ==
    ASSUME RegInv, GuardInv, UNCHANGED scopeVars, NEW r \in Requests, NEW q,
           request' = [request EXCEPT ![r] = q], ~IsGuard(request[r]), ~IsGuard(q)
    PROVE  GuardInv'
<1>1. \A s \in Requests : request'[s] = IF s = r THEN q ELSE request[s]
  BY GuardShapes
<1>2. \A s \in Requests, key \in Keys : SameAt(request'[s], request[s], key)
  BY <1>1 DEF SameAt
<1>3. QED
  BY <1>1, <1>2, GuardsQuiet

\* Calls arrive; what comes before the reservation and what holds no guard.
LEMMA UnguardedSteps ==
    ASSUME RegInv, GuardInv, NEW r \in Requests,
           Arrival(r) \/ LeaseAlias(r) \/ ResolveParent(r) \/ Apply(r) \/ ResolveScoped(r) \/ Complete(r)
    PROVE  GuardInv'
<1>1. UNCHANGED scopeVars
  BY DEF Arrival, RegisterMain, RegisterChild, ScopedCall, Arrives, LeaseAlias,
     ResolveParent, Apply, ResolveScoped, Complete
<1>2. ~IsGuard(request[r])
  BY DEF Arrival, RegisterMain, RegisterChild, ScopedCall, Arrives, LeaseAlias,
     ResolveParent, Apply, ResolveScoped, Complete, IsGuard
<1>3. request[r] \in Request /\ NoRequest \in Request /\ ~IsGuard(NoRequest)
  BY GuardShapes
<1>4. \E q : request' = [request EXCEPT ![r] = q] /\ ~IsGuard(q)
  <2>1. CASE Arrival(r)
    <3>1. PICK key \in Keys :
            \/ \E n \in Mains : RegisterMain(r, key, n)
            \/ \E n \in Children, parent \in Natives : RegisterChild(r, key, n, parent)
            \/ \E n \in Children, parent \in Natives : ScopedCall(r, key, "delegate", n, parent)
            \/ \E n \in Natives : ScopedCall(r, key, "complete", n, None)
      BY <2>1 DEF Arrival
    <3>2. ASSUME NEW n, RegisterMain(r, key, n)
          PROVE  \E q : request' = [request EXCEPT ![r] = q] /\ ~IsGuard(q)
      <4>1. [NoRequest EXCEPT !.at = "lease", !.op = "main", !.key = key, !.native = n, !.root = n].at
              = "lease"
        BY DEF NoRequest
      <4>2. QED
        BY <3>2, <4>1 DEF RegisterMain, IsGuard
    <3>3. ASSUME NEW n, NEW parent, RegisterChild(r, key, n, parent)
          PROVE  \E q : request' = [request EXCEPT ![r] = q] /\ ~IsGuard(q)
      <4>1. [NoRequest EXCEPT !.at = "parent", !.op = "child", !.key = key, !.native = n,
                              !.parent = parent].at = "parent"
        BY DEF NoRequest
      <4>2. QED
        BY <3>3, <4>1 DEF RegisterChild, IsGuard
    <3>4. ASSUME NEW op, NEW n, NEW parent, ScopedCall(r, key, op, n, parent)
          PROVE  \E q : request' = [request EXCEPT ![r] = q] /\ ~IsGuard(q)
      <4>1. [NoRequest EXCEPT !.at = "target", !.op = op, !.key = key, !.native = n,
                              !.parent = parent, !.root = ScopeRoot(key)].at = "target"
        BY DEF NoRequest
      <4>2. ~IsGuard([NoRequest EXCEPT !.at = "target", !.op = op, !.key = key, !.native = n,
                                       !.parent = parent, !.root = ScopeRoot(key)])
        BY <4>1 DEF IsGuard
      <4>3. CASE ScopeRoot(key) = None
        BY <3>4, <4>3, <1>3 DEF ScopedCall
      <4>4. CASE ScopeRoot(key) # None
        BY <3>4, <4>2, <4>4 DEF ScopedCall
      <4>5. QED
        BY <4>3, <4>4
    <3>5. QED
      BY <3>1, <3>2, <3>3, <3>4
  <2>2. CASE Apply(r) \/ Complete(r)
    BY <2>2, <1>3 DEF Apply, Complete, Finish
  <2>3. CASE LeaseAlias(r)
    <3>1. PICK target, at : at \in {"own", "redirect"}
            /\ request' = [request EXCEPT ![r].target = target, ![r].at = at]
      BY <2>3 DEF LeaseAlias
    <3>2. [request[r] EXCEPT !.target = target, !.at = at].at = at
      BY <1>3 DEF Request
    <3>3. request' = [request EXCEPT ![r] = [request[r] EXCEPT !.target = target, !.at = at]]
      BY <3>1
    <3>4. QED
      BY <3>1, <3>2, <3>3 DEF IsGuard
  <2>4. CASE ResolveParent(r)
    <3>1. CASE Finish(r)
      BY <3>1, <1>3 DEF Finish
    <3>2. CASE \E root : request' = [request EXCEPT ![r].at = "check", ![r].root = root]
      <4>1. PICK root : request' = [request EXCEPT ![r].at = "check", ![r].root = root]
        BY <3>2
      <4>2. [request[r] EXCEPT !.at = "check", !.root = root].at = "check"
        BY <1>3 DEF Request
      <4>3. request' = [request EXCEPT ![r] = [request[r] EXCEPT !.at = "check", !.root = root]]
        BY <4>1
      <4>4. QED
        BY <4>2, <4>3 DEF IsGuard
    <3>3. QED
      BY <2>4, <3>1, <3>2 DEF ResolveParent
  <2>5. CASE ResolveScoped(r)
    <3>1. CASE Finish(r)
      BY <3>1, <1>3 DEF Finish
    <3>2. CASE Move(r, IF request[r].op = "delegate" THEN "relate" ELSE "complete")
      <4> DEFINE q == [request[r] EXCEPT !.at = IF request[r].op = "delegate" THEN "relate"
                                                ELSE "complete"]
      <4>1. q.at = (IF request[r].op = "delegate" THEN "relate" ELSE "complete") /\ q.op = request[r].op
        BY <1>3 DEF Request
      <4>2. request' = [request EXCEPT ![r] = q]
        BY <3>2 DEF Move
      <4>3. ~IsGuard(q)
        BY <4>1 DEF IsGuard
      <4>4. QED
        BY <4>2, <4>3
    <3>3. QED
      BY <2>5, <3>1, <3>2 DEF ResolveScoped
  <2>6. QED
    BY <2>1, <2>2, <2>3, <2>4, <2>5
<1>5. QED
  BY <1>1, <1>2, <1>4, NoGuardMoves

\* bind_committed leaves the guards alone.
LEMMA RedirectGuards ==
    ASSUME IsFiniteSet(Requests), RegInv, GuardInv, NEW r \in Requests, Redirect(r)
    PROVE  GuardInv'
<1> DEFINE key == request[r].key
           target == request[r].target
           root == sessions[target].root
<1>1. /\ request[r] \in Request /\ request[r].at = "redirect" /\ key \in Keys /\ target \in Mains
      /\ ~IsGuard(request[r]) /\ generation \in Nat /\ NoRequest \in Request /\ ~IsGuard(NoRequest)
  BY GuardShapes DEF Redirect, RequestOK, IsGuard
<1>2. CASE Finish(r) /\ UNCHANGED scopeVars
  BY <1>1, <1>2, NoGuardMoves DEF Finish
<1>3. CASE /\ sessions[target] = MainRecord(target) /\ BindCommitted(key, root)
           /\ request' = [request EXCEPT ![r].at = "apply", ![r].native = target, ![r].root = root]
  <2> DEFINE q == [request[r] EXCEPT !.at = "apply", !.native = target, !.root = root]
  <2>1. root \in Mains /\ target \in Natives
    BY <1>1, <1>3, Absent
  <2>2. q \in Request /\ q.at = "apply"
    BY <1>1, <2>1 DEF Request
  <2>3. request' = [request EXCEPT ![r] = q] /\ ~IsGuard(q)
    BY <1>3, <2>2 DEF IsGuard
  <2> HIDE DEF q, key, root
  <2>4. CASE ~Bound(key) /\ Fresh(key, root, 0, TRUE)
    <3>1. /\ generation' = generation + 1
          /\ roots' = [roots EXCEPT ![key] = [root |-> root, generation |-> generation, pending |-> 0,
                                              committed |-> TRUE]]
      BY <2>4 DEF Fresh
    <3>2. \A s \in Requests : IsGuard(request[s]) =>
             request[s].generation < generation /\ request[s].generation \in Nat
      BY GuardShapes DEF GuardInv
    <3>3. KeyOK(request', [root |-> root, generation |-> generation, pending |-> 0, committed |-> TRUE],
                generation + 1, key)
      BY <1>1, <2>1, <2>3, <3>2, FreshGuards, GuardShapes
    <3>4. generation' \in Nat /\ generation <= generation'
      BY <1>1, <3>1
    <3>5. QED
      BY <1>1, <2>2, <2>3, <3>1, <3>3, <3>4, OneKey
  <2>5. CASE /\ Bound(key) /\ UNCHANGED generation
             /\ roots' = [roots EXCEPT ![key].committed = TRUE]
    <3>1. roots[key] \in Binding /\ roots[key].generation \in Nat /\ KeyOK(request, roots[key], generation, key)
      BY <1>1, <2>5, GuardShapes DEF Bound, GuardInv
    <3>2. roots' = [roots EXCEPT ![key] = [roots[key] EXCEPT !.committed = TRUE]]
      BY <2>5
    <3>3. KeyOK(request, [roots[key] EXCEPT !.committed = TRUE], generation, key)
      BY <1>1, <3>1, BindingCommits
    <3>4. [roots[key] EXCEPT !.committed = TRUE].generation \in Nat
      BY <3>1 DEF Binding
    <3>5. \A s \in Requests : SameAt(request'[s], request[s], key)
      BY <1>1, <2>3, GuardShapes DEF SameAt
    <3>6. generation' = generation /\ generation' \in Nat /\ generation <= generation'
      BY <1>1, <2>5
    <3>7. KeyOK(request', [roots[key] EXCEPT !.committed = TRUE], generation', key)
      BY <1>1, <3>3, <3>4, <3>5, <3>6, GuardsStay
    <3>8. QED
      BY <1>1, <2>2, <2>3, <3>2, <3>6, <3>7, OneKey
  <2>6. QED
    BY <1>3, <2>4, <2>5 DEF BindCommitted, key, root
<1>4. QED
  BY <1>2, <1>3 DEF Redirect

\* begin_registration hands out a guard.
LEMMA ReserveGuards ==
    ASSUME IsFiniteSet(Requests), RegInv, GuardInv, NEW r \in Requests, Reserve(r)
    PROVE  GuardInv'
<1> DEFINE key == request[r].key
           root == request[r].root
           g == IF Bound(key) THEN roots[key].generation ELSE generation
           q == [request[r] EXCEPT !.at = "persist", !.generation = g]
<1>1. /\ request[r] \in Request /\ request[r].at \in {"own", "check"} /\ key \in Keys /\ root \in Mains
      /\ ~IsGuard(request[r]) /\ generation \in Nat /\ NoRequest \in Request /\ ~IsGuard(NoRequest)
  BY GuardShapes DEF Reserve, RequestOK, IsGuard
<1>2. CASE Finish(r) /\ UNCHANGED scopeVars
  BY <1>1, <1>2, NoGuardMoves DEF Finish
<1>3. CASE /\ BeginRegistration(key, root)
           /\ request' = [request EXCEPT ![r].at = "persist", ![r].generation = g]
  <2>1. g \in Nat
    BY <1>1, GuardShapes DEF Bound
  <2> HIDE DEF g
  <2>2. q \in Request /\ q.at = "persist" /\ q.key = key /\ q.root = root /\ q.generation = g
    BY <1>1, <2>1 DEF Request
  <2>3. request' = [request EXCEPT ![r] = q] /\ IsGuard(q)
    BY <1>3, <2>2 DEF IsGuard
  <2> HIDE DEF q, key, root
  <2>4. CASE ~Bound(key) /\ Fresh(key, root, 1, FALSE)
    <3>1. /\ generation' = generation + 1 /\ g = generation
          /\ roots' = [roots EXCEPT ![key] = [root |-> root, generation |-> generation, pending |-> 1,
                                              committed |-> FALSE]]
      BY <2>4 DEF Fresh, g
    <3>2. \A s \in Requests : IsGuard(request[s]) =>
             request[s].generation < generation /\ request[s].generation \in Nat
      BY GuardShapes DEF GuardInv
    <3>3. KeyOK(request', [root |-> root, generation |-> generation, pending |-> 1, committed |-> FALSE],
                generation + 1, key)
      BY <1>1, <2>2, <2>3, <3>1, <3>2, FreshGuards, GuardShapes
    <3>4. generation' \in Nat /\ generation <= generation' /\ q.generation < generation'
      BY <1>1, <2>2, <3>1
    <3>5. QED
      BY <1>1, <2>2, <2>3, <3>1, <3>3, <3>4, OneKey
  <2>5. CASE /\ Bound(key) /\ roots[key].root = root /\ UNCHANGED generation
             /\ roots' = [roots EXCEPT ![key].pending = @ + 1]
    <3>1. /\ roots[key] \in Binding /\ roots[key].generation \in Nat
          /\ KeyOK(request, roots[key], generation, key) /\ g = roots[key].generation
      BY <1>1, <2>5, GuardShapes DEF Bound, GuardInv, g
    <3>2. roots' = [roots EXCEPT ![key] = [roots[key] EXCEPT !.pending = @ + 1]]
      BY <2>5
    <3>3. KeyOK(request', [roots[key] EXCEPT !.pending = @ + 1], generation, key)
      BY <1>1, <2>2, <2>3, <2>5, <3>1, GuardJoins, GuardShapes
    <3>4. q.generation < generation
      BY <2>2, <2>5, <3>1 DEF KeyOK, Bound
    <3>5. generation' = generation /\ generation' \in Nat /\ generation <= generation'
      BY <1>1, <2>5
    <3>6. KeyOK(request', [roots[key] EXCEPT !.pending = @ + 1], generation', key)
          /\ q.generation < generation'
      BY <3>3, <3>4, <3>5
    <3> HIDE DEF g
    <3>7. QED
      BY <1>1, <2>2, <2>3, <3>2, <3>5, <3>6, OneKey
  <2>6. QED
    BY <1>3, <2>4, <2>5 DEF BeginRegistration, key, root
<1>4. QED
  BY <1>2, <1>3 DEF Reserve

\* commit_registration and rollback_registration take one guard away.
LEMMA GuardEnds ==
    ASSUME IsFiniteSet(Requests), RegInv, GuardInv, NEW r \in Requests, IsGuard(request[r]),
           request' = [request EXCEPT ![r] = NoRequest], UNCHANGED generation,
           CommitRegistration(r) \/ RollbackRegistration(r)
    PROVE  GuardInv'
<1> DEFINE key == request[r].key
           bound == roots[key]
           less == IF bound.pending > 0 THEN bound.pending - 1 ELSE 0
           left == [bound EXCEPT !.pending = less]
<1>1. /\ key \in Keys /\ generation \in Nat /\ NoRequest \in Request /\ ~IsGuard(NoRequest)
      /\ KeyOK(request, bound, generation, key) /\ DOMAIN request = Requests
      /\ bound # None => bound \in Binding
  BY GuardShapes DEF RequestOK, IsGuard, GuardInv
<1>2. generation' = generation /\ generation' \in Nat /\ generation <= generation'
  BY <1>1
<1> DEFINE Ends(b) == roots' = [roots EXCEPT ![key] = b] /\ KeyOK(request', b, generation, key)
<1>3. ASSUME NEW b, Ends(b) PROVE GuardInv'
  <2> HIDE DEF key, bound
  <2>1. KeyOK(request', b, generation', key)
    BY <1>2, <1>3
  <2>2. request[r].key = key
    BY DEF key
  <2>3. QED
    BY <1>2, <1>1, <1>3, <2>1, <2>2, OneKey
<1>4. CASE Current(r)
  <2>1. bound # None /\ bound.generation = request[r].generation
    BY <1>4 DEF Current, Bound
  <2>2. /\ bound.pending > 0
        /\ KeyOK(request', [bound EXCEPT !.pending = @ - 1, !.committed = TRUE], generation, key)
        /\ ~([bound EXCEPT !.pending = @ - 1].pending = 0 /\ ~[bound EXCEPT !.pending = @ - 1].committed)
              => KeyOK(request', [bound EXCEPT !.pending = @ - 1], generation, key)
    BY <1>1, <2>1, GuardLeaves
  <2>3. left = [bound EXCEPT !.pending = @ - 1]
    BY <2>2
  <2>4. CASE CommitRegistration(r)
    <3>1. roots' = [roots EXCEPT ![key] = [bound EXCEPT !.pending = @ - 1, !.committed = TRUE]]
      BY <1>4, <2>2, <2>4 DEF CommitRegistration
    <3>2. QED
      BY <1>3, <2>2, <3>1
  <2>5. CASE RollbackRegistration(r)
    <3>1. roots' = [roots EXCEPT ![key] = IF left.pending = 0 /\ ~left.committed THEN None ELSE left]
      BY <1>4, <2>5 DEF RollbackRegistration
    <3> HIDE DEF left
    <3>2. KeyOK(request', IF left.pending = 0 /\ ~left.committed THEN None ELSE left, generation, key)
      BY <2>2, <2>3, Zenon DEF KeyOK
    <3>3. QED
      BY <1>3, <3>1, <3>2
  <2>6. QED
    BY <2>4, <2>5
<1>5. CASE ~Current(r)
  <2>1. roots' = roots
    BY <1>5 DEF CommitRegistration, RollbackRegistration
  <2>2. bound # None => r \notin Holders(request, bound, key)
    BY <1>1, <1>5 DEF KeyOK, Holders, Current, Bound
  <2>3. KeyOK(request', bound, generation, key)
    BY <1>1, <2>2, StaleLeaves
  <2>4. roots' = [roots EXCEPT ![key] = bound]
    BY <1>1, <2>1, GuardShapes
  <2>5. QED
    BY <1>3, <2>3, <2>4
<1>6. QED
  BY <1>4, <1>5

\* The end of a registration, of a relation, or of what the store refused.
LEMMA EndingGuards ==
    ASSUME IsFiniteSet(Requests), RegInv, GuardInv, NEW r \in Requests,
           Persist(r) \/ Relate(r) \/ Refused(r)
    PROVE  GuardInv'
<1>1. /\ request[r] \in Request /\ request[r].at \in {"apply", "persist", "relate", "complete"}
      /\ UNCHANGED generation /\ NoRequest \in Request /\ ~IsGuard(NoRequest)
  BY GuardShapes DEF Persist, Relate, Refused
<1>2. CASE Finish(r) /\ UNCHANGED roots /\ ~IsGuard(request[r])
  BY <1>1, <1>2, NoGuardMoves DEF Finish, scopeVars
<1>3. CASE Finish(r) /\ IsGuard(request[r]) /\ (CommitRegistration(r) \/ RollbackRegistration(r))
  BY <1>1, <1>3, GuardEnds DEF Finish
<1>4. CASE Persist(r) /\ request[r].op # "main"
  <2> DEFINE q == [request[r] EXCEPT !.at = "relate"]
  <2>1. UNCHANGED scopeVars /\ request' = [request EXCEPT ![r] = q] /\ request[r].at = "persist"
    BY <1>1, <1>4 DEF Persist, Move, scopeVars
  <2>2. q.at = "relate" /\ q.op = request[r].op /\ q.key = request[r].key
        /\ q.generation = request[r].generation /\ q.root = request[r].root
    BY <1>1 DEF Request
  <2>3. request[r].op = "child"
    BY <1>4, <2>1, GuardShapes DEF RequestOK
  <2> HIDE DEF q
  <2>4. \A s \in Requests : request'[s] = IF s = r THEN q ELSE request[s]
    BY <2>1, GuardShapes
  <2>5. IsGuard(q) /\ IsGuard(request[r])
    BY <2>1, <2>2, <2>3 DEF IsGuard
  <2>6. \A s \in Requests, key \in Keys : SameAt(request'[s], request[s], key)
    BY <2>2, <2>4, <2>5 DEF SameAt
  <2>7. QED
    BY <2>1, <2>2, <2>4, <2>5, <2>6, GuardsQuiet
<1>5. CASE Persist(r) /\ request[r].op = "main"
  BY <1>3, <1>5 DEF Persist, IsGuard
<1>6. CASE Relate(r)
  BY <1>2, <1>3, <1>6 DEF Relate, IsGuard
<1>7. CASE Refused(r)
  BY <1>2, <1>3, <1>7 DEF Refused, IsGuard
<1>8. QED
  BY <1>4, <1>5, <1>6, <1>7

\* The end of a close takes the binding of the transport; its guards count for nothing.
LEMMA CloseGuards ==
    ASSUME RegInv, GuardInv, NEW m \in Managers, ReleaseScope(m) PROVE GuardInv'
<1>1. roots' = [roots EXCEPT ![task[m].victim] = None] /\ UNCHANGED <<generation, request>>
  BY DEF ReleaseScope
<1>2. \A key \in Keys : roots'[key] \in {roots[key], None}
  BY <1>1, GuardShapes
<1>3. ASSUME NEW key \in Keys PROVE KeyOK(request', roots'[key], generation', key)
  <2>1. CASE roots'[key] = None
    BY <2>1 DEF KeyOK
  <2>2. CASE roots'[key] = roots[key]
    BY <1>1, <2>2 DEF GuardInv
  <2>3. QED
    BY <1>2, <2>1, <2>2
<1>4. QED
  BY <1>1, <1>3 DEF GuardInv

\* Every step keeps the guards counted.
LEMMA GuardSteps ==
    ASSUME IsFiniteSet(Requests), RegInv, GuardInv, [Next]_vars PROVE GuardInv'
<1>1. ASSUME UNCHANGED <<scopeVars, request>> PROVE GuardInv'
  <2>1. roots' = roots /\ generation' = generation /\ request' = request
    BY <1>1 DEF scopeVars
  <2>2. QED
    BY <2>1 DEF GuardInv
<1>2. ASSUME NEW r \in Requests, RequestStep(r) PROVE GuardInv'
  BY <1>2, UnguardedSteps, RedirectGuards, ReserveGuards, EndingGuards DEF RequestStep
<1>3. CASE \/ ManageSessions \/ UNCHANGED vars
           \/ \E n, canonical \in Mains : n # canonical /\ SaveAlias(n, canonical)
  BY <1>1, <1>3 DEF ManageSessions, SaveAlias, vars
<1>4. QED
  BY <1>2, <1>3, UnguardedSteps, CloseGuards DEF Next

\* A server that starts has no guards.
LEMMA InitGuards == Init => GuardInv
<1> SUFFICES ASSUME Init PROVE GuardInv
  OBVIOUS
<1>1. \A r \in Requests : ~IsGuard(request[r])
  BY DEF Init, NoRequest, IsGuard
<1>2. \A key \in Keys : roots[key] = None
  BY DEF Init
<1>3. QED
  BY <1>1, <1>2 DEF GuardInv, KeyOK

\* Of finitely many requests, a binding counts exactly the guards still open on it, and is
\* there only while it is committed or one is (ScopeGuard, begin_registration,
\* commit_registration, rollback_registration).
THEOREM GuardsCounted ==
    ASSUME IsFiniteSet(Requests) PROVE Spec => []PendingIsGuards
<1>1. ASSUME GuardInv PROVE PendingIsGuards
  <2>1. ASSUME NEW key \in Keys, Bound(key)
        PROVE  /\ roots[key].pending = Cardinality({r \in Requests : Holding(r, key)})
               /\ roots[key].committed \/ roots[key].pending > 0
    <3>1. Holders(request, roots[key], key) = {r \in Requests : Holding(r, key)}
      BY DEF Holders, Holding, IsGuard
    <3>2. QED
      BY <1>1, <2>1, <3>1 DEF GuardInv, KeyOK, Bound
  <2>2. QED
    BY <2>1 DEF PendingIsGuards
<1>2. RegInv /\ GuardInv /\ [Next]_vars => GuardInv'
  BY GuardSteps
<1>3. QED
  BY <1>1, <1>2, InitGuards, RegistrationInvariant, PTL DEF Spec

\* The gauge is rmcp's own count whenever no close is between its removal from the table
\* and its publication (create_session, close_session, publish_occupancy).
THEOREM GaugeRight == Spec => []GaugeExact
<1>1. Init => GaugeExact
  BY FS_EmptySet DEF Init, SessionInit, GaugeExact
<1>2. ASSUME RegInv, GaugeExact, [Next]_vars PROVE GaugeExact'
  <2>1. task \in [Managers -> Task]
    BY <1>2 DEF RegInv, PoolInv, SessionTypeOK
  <2>2. ASSUME NEW m \in Managers, EndClose(m) PROVE GaugeExact'
    BY <2>2 DEF EndClose, GaugeExact
  <2>3. ASSUME NEW m \in Managers, BeginClose(m) PROVE GaugeExact'
    <3>1. CASE task[m].victim \in live
      <4> DEFINE at == IF task[m].at = "evict" THEN "evicted" ELSE "closed"
      <4>1. task' = [task EXCEPT ![m].at = at]
        BY <2>3, <3>1 DEF BeginClose, Goto
      <4>2. task'[m].at = at
        BY <2>1, <4>1 DEF Task
      <4>3. QED
        BY <4>2 DEF GaugeExact
    <3>2. CASE task[m].victim \notin live
      <4>1. live' = live /\ admitted' = Cardinality(live)
        BY <2>3, <3>2 DEF BeginClose
      <4>2. QED
        BY <4>1 DEF GaugeExact
    <3>3. QED
      BY <3>1, <3>2
  <2>4. ASSUME NEW m \in Managers, UNCHANGED <<live, admitted>>, NEW q,
               task' = [task EXCEPT ![m] = q], task[m].at \notin {"evicted", "closed"}
        PROVE  GaugeExact'
    <3>1. \A k \in Managers : k # m => task'[k] = task[k]
      BY <2>1, <2>4
    <3>2. QED
      BY <1>2, <2>4, <3>1 DEF GaugeExact
  <2>5. ASSUME NEW m \in Managers, Create(m) PROVE GaugeExact'
    <3>1. CASE admitted' = Cardinality(live')
      BY <3>1 DEF GaugeExact
    <3>2. CASE UNCHANGED <<live, admitted>>
      BY <2>4, <2>5, <3>2 DEF Create
    <3>3. QED
      BY <2>5, <3>1, <3>2 DEF Create
  <2>6. ASSUME NEW m \in Managers, NEW t \in Transports,
               Admit(m, t) \/ AskToClose(m, t) \/ ReserveSlot(m) \/ PickVictim(m) \/ Capacity(m)
        PROVE  GaugeExact'
    <3>1. UNCHANGED <<live, admitted>> /\ task[m].at \notin {"evicted", "closed"}
      BY <2>6 DEF Admit, AskToClose, ReserveSlot, PickVictim, Capacity, Begins
    <3>2. \E q : task' = [task EXCEPT ![m] = q]
      BY <2>6 DEF Admit, AskToClose, ReserveSlot, PickVictim, Capacity, Goto
    <3>3. QED
      BY <2>4, <3>1, <3>2
  <2>7. ASSUME NEW m \in Managers, ReserveSlot(m) \/ PickVictim(m) \/ Capacity(m) PROVE GaugeExact'
    <3>1. UNCHANGED <<live, admitted>> /\ task[m].at \notin {"evicted", "closed"}
      BY <2>7 DEF ReserveSlot, PickVictim, Capacity
    <3>2. \E q : task' = [task EXCEPT ![m] = q]
      BY <2>7 DEF ReserveSlot, PickVictim, Capacity, Goto
    <3>3. QED
      BY <2>4, <3>1, <3>2
  <2>8. CASE SessionStep
    BY <2>3, <2>5, <2>6, <2>7, <2>8 DEF SessionStep
  <2>9. ASSUME UNCHANGED sessionVars PROVE GaugeExact'
    BY <1>2, <2>9 DEF sessionVars, GaugeExact
  <2>10. ASSUME NEW r \in Requests, Arrival(r) \/ RequestStep(r) PROVE UNCHANGED sessionVars
    BY <2>10 DEF Arrival, RegisterMain, RegisterChild, ScopedCall, Arrives, RequestStep, LeaseAlias,
       Redirect, Reserve, ResolveParent, Apply, Persist, Relate, Refused, ResolveScoped, Complete
  <2>11. QED
    BY <1>2, <2>2, <2>8, <2>9, <2>10 DEF Next, ManageSessions, ReleaseScope, SaveAlias, vars
<1>3. QED
  BY <1>1, <1>2, RegistrationInvariant, PTL DEF Spec

=============================================================================
