----------------------------- MODULE DeliveryProofs -----------------------------
(***************************************************************************)
(* What the store delivers, for any writers, calls, endpoints, sizes and   *)
(* capacities, and any number of restarts and failures: the event log, the *)
(* parent's inbox over it, the webhooks and dashboard over it, and the     *)
(* parent a child is shown under.                                          *)
(***************************************************************************)
EXTENDS ParentInbox, HumanDelivery, Correlation, SequenceTheorems, FiniteSetTheorems, WellFoundedInduction, TLAPS

(***************************************************************************)
(* The event log: what each of its steps keeps, for both of its readers.   *)
(***************************************************************************)

\* Every identity given out is below the next one, and a writer's are distinct: what makes
\* IdsUnique inductive.
IdsBelowNext ==
    /\ \A id \in Ids(log) : id < next
    /\ \A w \in Writers : \A i \in 1 .. Len(drawn[w]) : drawn[w][i] < next
    /\ \A w \in Writers : \A i, j \in 1 .. Len(drawn[w]) :
           drawn[w][i] = drawn[w][j] => i = j

LogInv == LogTypeOK /\ IdsUnique /\ IdsBelowNext

\* The identities of a log, by position.
LEMMA IdsByPosition ==
    ASSUME NEW rows \in Seq(Event)
    PROVE  \A id : id \in Ids(rows) <=> \E i \in 1 .. Len(rows) : rows[i].id = id
<1>1. DOMAIN rows = 1 .. Len(rows)
  BY LenProperties
<1>2. QED
  BY <1>1, Zenon DEF Ids, ToSet

\* Identities are positive.
LEMMA IdsType ==
    ASSUME NEW rows \in Seq(Event)
    PROVE  Ids(rows) \subseteq EventId
<1>1. \A i \in 1 .. Len(rows) : rows[i] \in Event
  BY ElementOfSeq
<1>2. \A i \in 1 .. Len(rows) : rows[i].id \in EventId
  BY <1>1 DEF Event
<1>3. QED
  BY <1>2, IdsByPosition

\* A non-empty bounded set of identities has a highest one.
LEMMA HighestExists ==
    ASSUME NEW n \in Nat, NEW T \in SUBSET (1 .. n), T # {}
    PROVE  \E i \in T : \A j \in T : j <= i
<1> DEFINE D == {n - i : i \in T}
<1>1. \A i \in T : i \in Nat /\ i <= n /\ n - i \in Nat
  OBVIOUS
<1>2. D \subseteq Nat /\ D # {}
  BY <1>1, Zenon
<1>3. PICK d \in D : \A e \in D : ~(<<e, d>> \in OpToRel(<, Nat))
  <2> HIDE DEF D
  <2>1. QED
    BY <1>2, NatLessThanWellFounded, WFMin, Zenon
<1>4. \A e \in D : d <= e
  <2>1. \A e \in D : ~(e < d)
    BY <1>2, <1>3 DEF OpToRel
  <2>2. QED
    BY <1>2, <2>1
<1>5. PICK i \in T : d = n - i
  OBVIOUS
<1>6. \A j \in T : d <= n - j
  BY <1>4, Zenon
<1>7. QED
  BY <1>1, <1>5, <1>6

\* MAX(event_id) bounds every identity of the log.
LEMMA HighestIdBounds ==
    ASSUME NEW rows \in Seq(Event)
    PROVE  HighestId(rows) \in Nat /\ \A id \in Ids(rows) : id <= HighestId(rows)
<1>1. CASE rows = <<>>
  <2>1. Len(rows) = 0
    BY <1>1
  <2>2. ASSUME NEW id \in Ids(rows) PROVE FALSE
    <3>1. PICK i \in 1 .. Len(rows) : rows[i].id = id
      BY <2>2, IdsByPosition
    <3>2. QED
      BY <2>1, <3>1
  <2>3. QED
    BY <1>1, <2>2 DEF HighestId
<1>2. CASE rows # <<>>
  <2>1. Len(rows) \in Nat /\ Len(rows) # 0
    BY <1>2, EmptySeq, LenProperties
  <2>2. rows[1].id \in Ids(rows)
    BY <2>1, IdsByPosition
  <2>3. Ids(rows) \in SUBSET (1 .. MaxEvents) /\ Ids(rows) # {}
    BY <2>2, IdsType DEF EventId
  <2>4. \E i \in Ids(rows) : \A j \in Ids(rows) : j <= i
    BY <2>3, HighestExists, LogAssumption
  <2>5. HighestId(rows) \in Ids(rows) /\ \A j \in Ids(rows) : j <= HighestId(rows)
    BY <1>2, <2>4 DEF HighestId
  <2>6. QED
    BY <2>3, <2>5
<1>3. QED
  BY <1>1, <1>2

\* What a commit appends: as many rows as identities were drawn, in the same order.
LEMMA CommitAppends ==
    ASSUME LogInv, NEW w \in Writers, Commit(w)
    PROVE  /\ log' \in Seq(Event)
           /\ Len(log') = Len(log) + Len(drawn[w])
           /\ \A i \in 1 .. Len(log) : log'[i] = log[i]
           /\ \A i \in 1 .. Len(drawn[w]) : log'[Len(log) + i].id = drawn[w][i]
<1>1. PICK human \in Routings(w) :
        log' = log \o [i \in 1 .. Len(drawn[w]) |-> [id |-> drawn[w][i], human |-> human[i]]]
  BY DEF Commit
<1> DEFINE batch == [i \in 1 .. Len(drawn[w]) |-> [id |-> drawn[w][i], human |-> human[i]]]
<1>2. /\ drawn[w] \in Seq(EventId) /\ Len(drawn[w]) \in Nat
      /\ log \in Seq(Event) /\ Len(log) \in Nat
  BY LenProperties DEF LogInv, LogTypeOK
<1>3. human \in [1 .. Len(drawn[w]) -> BOOLEAN]
  BY DEF Routings
<1>4. \A i \in 1 .. Len(drawn[w]) : drawn[w][i] \in EventId
  BY <1>2, ElementOfSeq
<1>5. \A i \in 1 .. Len(drawn[w]) : batch[i] \in Event /\ batch[i].id = drawn[w][i]
  BY <1>3, <1>4 DEF Event
<1>6. batch \in Seq(Event) /\ Len(batch) = Len(drawn[w])
  <2>1. batch \in [1 .. Len(drawn[w]) -> Event]
    BY <1>5
  <2> HIDE DEF batch
  <2>2. ASSUME NEW n \in Nat, NEW f \in [1 .. n -> Event]
        PROVE  f \in Seq(Event) /\ Len(f) = n
    BY SMT
  <2>3. QED
    BY <1>2, <2>1, <2>2, Zenon
<1> HIDE DEF batch
<1>7. log' = log \o batch
  BY <1>1 DEF batch
<1>8. /\ log' \in Seq(Event)
      /\ Len(log') = Len(log) + Len(batch)
      /\ \A i \in 1 .. Len(log) + Len(batch) :
            log'[i] = IF i <= Len(log) THEN log[i] ELSE batch[i - Len(log)]
  BY <1>2, <1>6, <1>7, ConcatProperties
<1>9. ASSUME NEW i \in 1 .. Len(log) PROVE log'[i] = log[i]
  BY <1>2, <1>6, <1>8
<1>10. ASSUME NEW i \in 1 .. Len(drawn[w]) PROVE log'[Len(log) + i].id = drawn[w][i]
  <2>1. Len(log) + i \in 1 .. Len(log) + Len(batch) /\ ~(Len(log) + i <= Len(log))
        /\ (Len(log) + i) - Len(log) = i
    BY <1>2, <1>6
  <2>2. log'[Len(log) + i] = batch[i]
    BY <1>8, <2>1
  <2>3. QED
    BY <1>5, <2>2
<1>11. QED
  BY <1>6, <1>8, <1>9, <1>10

\* So the identities of the log are the old ones and the drawn ones.
LEMMA CommitIds ==
    ASSUME LogInv, NEW w \in Writers, Commit(w)
    PROVE  Ids(log') = Ids(log) \cup ToSet(drawn[w])
<1>1. /\ drawn[w] \in Seq(EventId) /\ Len(drawn[w]) \in Nat
      /\ log \in Seq(Event) /\ Len(log) \in Nat
  BY LenProperties DEF LogInv, LogTypeOK
<1>2. \A id : id \in ToSet(drawn[w]) <=> \E i \in 1 .. Len(drawn[w]) : drawn[w][i] = id
  BY <1>1, LenProperties DEF ToSet
<1>3. ASSUME NEW id \in Ids(log') PROVE id \in Ids(log) \cup ToSet(drawn[w])
  <2>1. PICK i \in 1 .. Len(log') : log'[i].id = id
    BY <1>3, CommitAppends, IdsByPosition
  <2>2. CASE i <= Len(log)
    <3>1. i \in 1 .. Len(log)
      BY <1>1, <2>2
    <3>2. log[i].id = id
      BY <2>1, <3>1, CommitAppends
    <3>3. QED
      BY <1>1, <3>1, <3>2, IdsByPosition
  <2>3. CASE ~(i <= Len(log))
    <3>1. Len(log') = Len(log) + Len(drawn[w])
      BY CommitAppends
    <3>2. i - Len(log) \in 1 .. Len(drawn[w]) /\ Len(log) + (i - Len(log)) = i
      BY <1>1, <2>3, <3>1
    <3>3. drawn[w][i - Len(log)] = id
      BY <2>1, <3>2, CommitAppends
    <3>4. QED
      BY <1>2, <3>2, <3>3
  <2>4. QED
    BY <2>2, <2>3
<1>4. ASSUME NEW id \in Ids(log) PROVE id \in Ids(log')
  <2>1. PICK i \in 1 .. Len(log) : log[i].id = id
    BY <1>1, IdsByPosition
  <2>2. log'[i].id = id /\ i \in 1 .. Len(log')
    BY <1>1, <2>1, CommitAppends
  <2>3. QED
    BY <2>2, CommitAppends, IdsByPosition
<1>5. ASSUME NEW id \in ToSet(drawn[w]) PROVE id \in Ids(log')
  <2>1. PICK i \in 1 .. Len(drawn[w]) : drawn[w][i] = id
    BY <1>2
  <2>2. log'[Len(log) + i].id = id /\ Len(log) + i \in 1 .. Len(log')
    BY <1>1, <2>1, CommitAppends
  <2>3. QED
    BY <2>2, CommitAppends, IdsByPosition
<1>6. QED
  BY <1>3, <1>4, <1>5

\* The drawn identities of a writer, by position.
LEMMA DrawnByPosition ==
    ASSUME NEW ids \in Seq(EventId)
    PROVE  /\ Len(ids) \in Nat
           /\ \A id : id \in ToSet(ids) <=> \E i \in 1 .. Len(ids) : ids[i] = id
           /\ \A i \in 1 .. Len(ids) : ids[i] \in EventId
  BY LenProperties, ElementOfSeq DEF ToSet

\* A writer draws one more identity.
LEMMA AllocateKeepsLog ==
    ASSUME LogInv, NEW w \in Writers, Allocate(w)
    PROVE  LogInv'
<1> USE LogAssumption
<1>1. /\ next \in Nat \ {0} /\ drawn[w] \in Seq(EventId) /\ drawn \in [Writers -> Seq(EventId)]
      /\ next \in EventId /\ log \in Seq(Event)
  BY DEF LogInv, LogTypeOK, Allocate, EventId
<1> DEFINE more == Append(drawn[w], next)
<1>2. /\ more \in Seq(EventId) /\ Len(more) = Len(drawn[w]) + 1
      /\ \A i \in 1 .. Len(drawn[w]) : more[i] = drawn[w][i]
      /\ more[Len(drawn[w]) + 1] = next
      /\ Len(drawn[w]) \in Nat
  BY <1>1, AppendProperties, LenProperties
<1>3. /\ drawn' = [drawn EXCEPT ![w] = more] /\ next' = next + 1
      /\ log' = log /\ restarts' = restarts /\ failures' = failures
  BY DEF Allocate
<1> HIDE DEF more
<1>4. drawn'[w] = more /\ \A v \in Writers \ {w} : drawn'[v] = drawn[v]
  BY <1>1, <1>3
<1>5. LogTypeOK'
  BY <1>1, <1>2, <1>3 DEF LogInv, LogTypeOK
<1>6. /\ \A id \in Ids(log) : id < next
      /\ \A v \in Writers : \A i \in 1 .. Len(drawn[v]) : drawn[v][i] < next
      /\ \A v \in Writers : \A i, j \in 1 .. Len(drawn[v]) : drawn[v][i] = drawn[v][j] => i = j
      /\ \A v \in Writers : drawn[v] \in Seq(EventId)
  BY <1>1 DEF LogInv, IdsBelowNext
<1>7. \A i \in 1 .. Len(more) : i \in 1 .. Len(drawn[w]) \/ i = Len(drawn[w]) + 1
  BY <1>2
<1>8. \A i \in 1 .. Len(more) : more[i] < next + 1
  <2>1. \A i \in 1 .. Len(drawn[w]) : drawn[w][i] \in Nat /\ drawn[w][i] < next
    BY <1>1, <1>6, DrawnByPosition DEF EventId
  <2>2. next < next + 1 /\ \A n \in Nat : n < next => n < next + 1
    BY <1>1
  <2>3. SUFFICES ASSUME NEW i \in 1 .. Len(more) PROVE more[i] < next + 1
    OBVIOUS
  <2>4. CASE i \in 1 .. Len(drawn[w])
    BY <1>2, <2>1, <2>2, <2>4
  <2>5. CASE i = Len(drawn[w]) + 1
    BY <1>2, <2>2, <2>5
  <2>6. QED
    BY <1>7, <2>4, <2>5
<1>9. \A i, j \in 1 .. Len(more) : more[i] = more[j] => i = j
  BY <1>1, <1>2, <1>6, <1>7
<1>10. \A id \in Ids(log) : id \in EventId
  BY <1>1, IdsType
<1>11. \A v \in Writers : \A i \in 1 .. Len(drawn[v]) : drawn[v][i] < next + 1
  <2>1. \A v \in Writers : \A i \in 1 .. Len(drawn[v]) : drawn[v][i] \in EventId
    BY <1>6, DrawnByPosition
  <2>2. QED
    BY <1>1, <1>6, <2>1 DEF EventId
<1>12. IdsBelowNext'
  <2>1. \A id \in Ids(log') : id < next'
    BY <1>1, <1>3, <1>6, <1>10 DEF EventId
  <2>2. \A v \in Writers : \A i \in 1 .. Len(drawn'[v]) : drawn'[v][i] < next'
    BY <1>3, <1>4, <1>8, <1>11
  <2>3. \A v \in Writers : \A i, j \in 1 .. Len(drawn'[v]) : drawn'[v][i] = drawn'[v][j] => i = j
    BY <1>4, <1>6, <1>9
  <2>4. QED
    BY <2>1, <2>2, <2>3 DEF IdsBelowNext
<1>13. ToSet(more) = ToSet(drawn[w]) \cup {next}
  <2>1. /\ \A id : id \in ToSet(drawn[w]) <=> \E i \in 1 .. Len(drawn[w]) : drawn[w][i] = id
        /\ \A id : id \in ToSet(more) <=> \E i \in 1 .. Len(more) : more[i] = id
    BY <1>1, <1>2, DrawnByPosition
  <2>2. \A i \in 1 .. Len(drawn[w]) : i \in 1 .. Len(more)
    BY <1>2
  <2>3. Len(drawn[w]) + 1 \in 1 .. Len(more)
    BY <1>2
  <2>4. ASSUME NEW id \in ToSet(more) PROVE id \in ToSet(drawn[w]) \cup {next}
    BY <1>2, <1>7, <2>1, <2>4
  <2>5. ASSUME NEW id \in ToSet(drawn[w]) PROVE id \in ToSet(more)
    BY <1>2, <2>1, <2>2, <2>5
  <2>6. next \in ToSet(more)
    BY <1>2, <2>1, <2>3
  <2>7. QED
    BY <2>4, <2>5, <2>6
<1>14. next \notin Ids(log) /\ \A v \in Writers : next \notin ToSet(drawn[v])
  BY <1>1, <1>6, DrawnByPosition
<1>15. IdsUnique'
  <2>1. \A i, j \in DOMAIN log' : log'[i].id = log'[j].id => i = j
    BY <1>3 DEF LogInv, IdsUnique
  <2>2. ASSUME NEW v \in Writers PROVE ToSet(drawn'[v]) \cap Ids(log') = {}
    BY <1>3, <1>4, <1>13, <1>14 DEF LogInv, IdsUnique
  <2>3. ASSUME NEW v \in Writers, NEW u \in Writers \ {v}
        PROVE  ToSet(drawn'[v]) \cap ToSet(drawn'[u]) = {}
    BY <1>4, <1>13, <1>14 DEF LogInv, IdsUnique
  <2>4. QED
    BY <2>1, <2>2, <2>3 DEF IdsUnique
<1>16. QED
  BY <1>5, <1>12, <1>15 DEF LogInv

\* A writer lets go of what it drew: its transaction ended.
LEMMA ReleaseKeepsLog ==
    ASSUME LogInv, NEW w \in Writers,
           drawn' = [drawn EXCEPT ![w] = <<>>], log' = log,
           UNCHANGED <<next, restarts, failures>>
    PROVE  LogInv'
<1>1. drawn \in [Writers -> Seq(EventId)] /\ <<>> \in Seq(EventId) /\ Len(<<>>) = 0
  BY DEF LogInv, LogTypeOK
<1>2. drawn'[w] = <<>> /\ \A v \in Writers \ {w} : drawn'[v] = drawn[v]
  BY <1>1
<1>3. ToSet(<<>>) = {}
  BY DEF ToSet
<1>4. LogTypeOK'
  BY <1>1 DEF LogInv, LogTypeOK
<1>5. IdsUnique'
  BY <1>2, <1>3 DEF LogInv, IdsUnique
<1>6. \A i \in 1 .. Len(drawn'[w]) : FALSE
  BY <1>1, <1>2
<1>7. IdsBelowNext'
  BY <1>2, <1>6 DEF LogInv, IdsBelowNext
<1>8. QED
  BY <1>4, <1>5, <1>7 DEF LogInv

\* A transaction commits.
LEMMA CommitKeepsLog ==
    ASSUME LogInv, NEW w \in Writers, Commit(w)
    PROVE  LogInv'
<1>1. /\ drawn \in [Writers -> Seq(EventId)] /\ <<>> \in Seq(EventId) /\ Len(<<>>) = 0
      /\ log \in Seq(Event) /\ Len(log) \in Nat /\ Len(drawn[w]) \in Nat
      /\ drawn[w] \in Seq(EventId) /\ next \in Nat
  BY LenProperties DEF LogInv, LogTypeOK
<1>2. drawn' = [drawn EXCEPT ![w] = <<>>] /\ UNCHANGED <<next, restarts, failures>>
  BY DEF Commit
<1>3. drawn'[w] = <<>> /\ \A v \in Writers \ {w} : drawn'[v] = drawn[v]
  BY <1>1, <1>2
<1>4. LogTypeOK'
  BY <1>1, <1>2, CommitAppends DEF LogInv, LogTypeOK
<1>5. Ids(log') = Ids(log) \cup ToSet(drawn[w])
  BY CommitIds
<1>6. ToSet(<<>>) = {}
  BY DEF ToSet
<1>7. \A i \in 1 .. Len(drawn'[w]) : FALSE
  BY <1>1, <1>3
<1>8. IdsBelowNext'
  <2>1. \A id \in Ids(log') : id < next'
    BY <1>1, <1>2, <1>5, DrawnByPosition DEF LogInv, IdsBelowNext
  <2>2. QED
    BY <1>2, <1>3, <1>7, <2>1 DEF LogInv, IdsBelowNext
<1>9. DOMAIN log = 1 .. Len(log) /\ DOMAIN log' = 1 .. Len(log) + Len(drawn[w])
  BY <1>1, CommitAppends, LenProperties
<1>10. ASSUME NEW i \in DOMAIN log', NEW j \in DOMAIN log', log'[i].id = log'[j].id
       PROVE  i = j
  <2>1. ASSUME NEW k \in DOMAIN log'
        PROVE  \/ k \in 1 .. Len(log) /\ log'[k].id = log[k].id /\ log[k].id \in Ids(log)
               \/ /\ k - Len(log) \in 1 .. Len(drawn[w]) /\ k = Len(log) + (k - Len(log))
                  /\ log'[k].id = drawn[w][k - Len(log)]
                  /\ drawn[w][k - Len(log)] \in ToSet(drawn[w])
    <3>1. CASE k <= Len(log)
      <4>1. k \in 1 .. Len(log)
        BY <1>1, <1>9, <3>1
      <4>2. QED
        BY <1>1, <4>1, CommitAppends, IdsByPosition
    <3>2. CASE ~(k <= Len(log))
      <4>1. k - Len(log) \in 1 .. Len(drawn[w]) /\ k = Len(log) + (k - Len(log))
        BY <1>1, <1>9, <3>2
      <4>2. log'[k].id = drawn[w][k - Len(log)]
        BY <4>1, CommitAppends
      <4>3. QED
        BY <1>1, <4>1, <4>2, DrawnByPosition
    <3>3. QED
      BY <3>1, <3>2
  <2>2. ToSet(drawn[w]) \cap Ids(log) = {}
    BY DEF LogInv, IdsUnique
  <2>3. CASE i \in 1 .. Len(log) /\ j \in 1 .. Len(log)
    BY <1>9, <1>10, <2>3, CommitAppends DEF LogInv, IdsUnique
  <2>4. CASE i \notin 1 .. Len(log) /\ j \notin 1 .. Len(log)
    <3>1. i - Len(log) = j - Len(log)
      BY <1>10, <2>1, <2>4 DEF LogInv, IdsBelowNext
    <3>2. QED
      BY <1>1, <1>9, <3>1
  <2>5. QED
    BY <1>10, <2>1, <2>2, <2>3, <2>4
<1>11. IdsUnique'
  <2>1. ASSUME NEW v \in Writers PROVE ToSet(drawn'[v]) \cap Ids(log') = {}
    BY <1>3, <1>5, <1>6 DEF LogInv, IdsUnique
  <2>2. ASSUME NEW v \in Writers, NEW u \in Writers \ {v}
        PROVE  ToSet(drawn'[v]) \cap ToSet(drawn'[u]) = {}
    BY <1>3, <1>6 DEF LogInv, IdsUnique
  <2>3. QED
    BY <1>10, <2>1, <2>2 DEF IdsUnique
<1>12. QED
  BY <1>4, <1>8, <1>11 DEF LogInv

\* The server restarts.
LEMMA RestartKeepsLog ==
    ASSUME LogInv, LogRestart
    PROVE  LogInv'
<1>1. /\ drawn' = [w \in Writers |-> <<>>] /\ next' = HighestId(log) + 1
      /\ log' = log /\ failures' = failures /\ restarts' = restarts + 1
  BY DEF LogRestart
<1>2. /\ <<>> \in Seq(EventId) /\ Len(<<>>) = 0 /\ ToSet(<<>>) = {}
      /\ log \in Seq(Event) /\ \A w \in Writers : drawn'[w] = <<>>
  BY <1>1 DEF LogInv, LogTypeOK, ToSet
<1>3. HighestId(log) \in Nat /\ \A id \in Ids(log) : id \in EventId /\ id <= HighestId(log)
  BY <1>2, HighestIdBounds, IdsType
<1>4. LogTypeOK'
  BY <1>1, <1>2, <1>3 DEF LogInv, LogTypeOK
<1>5. \A id \in Ids(log') : id < next'
  BY <1>1, <1>3, LogAssumption DEF EventId
<1>6. \A w \in Writers : \A i \in 1 .. Len(drawn'[w]) : FALSE
  BY <1>2
<1>7. IdsBelowNext'
  BY <1>5, <1>6 DEF IdsBelowNext
<1>8. IdsUnique'
  BY <1>1, <1>2 DEF LogInv, IdsUnique
<1>9. QED
  BY <1>4, <1>7, <1>8 DEF LogInv

\* Every step of the log keeps its invariant.
LEMMA LogSteps ==
    ASSUME LogInv, Write \/ LogRestart \/ StoreFails \/ UNCHANGED logVars
    PROVE  LogInv'
<1>1. ASSUME NEW w \in Writers, Allocate(w) PROVE LogInv'
  BY <1>1, AllocateKeepsLog
<1>2. ASSUME NEW w \in Writers, Commit(w) PROVE LogInv'
  BY <1>2, CommitKeepsLog
<1>3. ASSUME NEW w \in Writers, Rollback(w) PROVE LogInv'
  BY <1>3, ReleaseKeepsLog DEF Rollback
<1>4. CASE LogRestart
  BY <1>4, RestartKeepsLog
<1>5. CASE StoreFails
  BY <1>5 DEF StoreFails, LogInv, LogTypeOK, IdsUnique, IdsBelowNext
<1>6. CASE UNCHANGED logVars
  BY <1>6 DEF logVars, LogInv, LogTypeOK, IdsUnique, IdsBelowNext
<1>7. QED
  BY <1>1, <1>2, <1>3, <1>4, <1>5, <1>6 DEF Write

\* The empty log.
LEMMA InitLog == LogInit => LogInv
<1> SUFFICES ASSUME LogInit PROVE LogInv
  OBVIOUS
<1>1. ToSet(<<>>) = {} /\ Len(<<>>) = 0 /\ <<>> \in Seq(EventId) /\ <<>> \in Seq(Event)
  BY DEF ToSet
<1>2. Ids(log) = {}
  BY <1>1 DEF Ids, LogInit
<1>3. LogTypeOK
  BY <1>1 DEF LogInit, LogTypeOK
<1>4. \A w \in Writers : drawn[w] = <<>>
  BY DEF LogInit
<1>5. \A w \in Writers : \A i \in 1 .. Len(drawn[w]) : FALSE
  BY <1>1, <1>4
<1>6. IdsBelowNext
  BY <1>2, <1>5 DEF IdsBelowNext
<1>7. \A i \in DOMAIN log : FALSE
  BY DEF LogInit
<1>8. IdsUnique
  BY <1>1, <1>2, <1>4, <1>7 DEF IdsUnique
<1>9. QED
  BY <1>3, <1>6, <1>8 DEF LogInv

\* The rows of the log.
LEMMA LogRows ==
    ASSUME LogInv
    PROVE  /\ log \in Seq(Event) /\ Len(log) \in Nat /\ DOMAIN log = 1 .. Len(log)
           /\ \A i \in 1 .. Len(log) : log[i].id \in EventId
<1>1. log \in Seq(Event)
  BY DEF LogInv, LogTypeOK
<1>2. \A i \in 1 .. Len(log) : log[i] \in Event
  BY <1>1, ElementOfSeq
<1>3. \A i \in 1 .. Len(log) : log[i].id \in EventId
  BY <1>2 DEF Event
<1>4. QED
  BY <1>1, <1>3, LenProperties

\* Rows that are stored stay what and where they are.
LEMMA LogGrows ==
    ASSUME LogInv, Write \/ LogRestart \/ StoreFails \/ UNCHANGED logVars
    PROVE  /\ Len(log) \in Nat /\ Len(log') \in Nat /\ Len(log) <= Len(log')
           /\ \A i \in 1 .. Len(log) : log'[i] = log[i]
<1>1. log' \in Seq(Event)
  BY LogSteps DEF LogInv, LogTypeOK
<1>2. Len(log) \in Nat /\ Len(log') \in Nat
  BY <1>1, LogRows, LenProperties
<1>3. ASSUME NEW w \in Writers, Commit(w)
      PROVE  Len(log) <= Len(log') /\ \A i \in 1 .. Len(log) : log'[i] = log[i]
  <2>1. Len(drawn[w]) \in Nat
    BY LenProperties DEF LogInv, LogTypeOK
  <2>2. /\ Len(log') = Len(log) + Len(drawn[w])
        /\ \A i \in 1 .. Len(log) : log'[i] = log[i]
    BY <1>3, CommitAppends
  <2>3. QED
    BY <1>2, <2>1, <2>2
<1>4. CASE log' = log
  BY <1>2, <1>4
<1>5. QED
  BY <1>2, <1>3, <1>4 DEF Write, Allocate, Rollback, LogRestart, StoreFails, logVars

(***************************************************************************)
(* The parent's inbox: identities are unique, and nothing is acknowledged  *)
(* that was not paged or, for a client that confirms only what it          *)
(* received, not read.                                                     *)
(***************************************************************************)

\* The events that did not commit late.
OnTime == Ids(log) \ late

\* The mark k is not beyond what was shown, and every event up to it was seen.  The first
\* half keeps the second true when an event commits below the mark: that event is late.
UpTo(k, ids, shown, seen) ==
    /\ k = 0 \/ \E p \in shown : k <= p
    /\ \A id \in ids : id <= k => id \in seen

CallPaged(r, ids, shown) ==
    /\ UpTo(r.offset.last_event_id, ids, shown, shown)
    /\ UpTo(r.offset.last_delivered_event_id, ids, shown, shown)
    /\ UpTo(r.cursor, ids, shown, shown)
    /\ UpTo(r.next_cursor, ids, shown, shown)

CallRead(r, ids, shown, seen) ==
    /\ UpTo(r.offset.last_event_id, ids, shown, seen)
    /\ UpTo(r.after, ids, shown, seen)
    /\ UpTo(r.cursor, ids, shown, seen)
    /\ UpTo(r.next_cursor, ids, shown, seen \cup r.page)

\* Every mark of the row and of the calls in progress covers paged events only.
PagedInv ==
    /\ paged \subseteq Ids(log)
    /\ UpTo(inbox.last_event_id, OnTime, paged, paged)
    /\ UpTo(inbox.last_delivered_event_id, OnTime, paged, paged)
    /\ \A c \in Calls : CallPaged(call[c], OnTime, paged)

\* While the client confirms what it received, the acknowledging marks cover read events
\* only, and the cursor of an answer under way covers read events and its page.
ReadInv ==
    ~guessed =>
        /\ UpTo(inbox.last_event_id, OnTime, paged, read)
        /\ \A k \in cursors : UpTo(k, OnTime, paged, read)
        /\ \A c \in Calls : CallRead(call[c], OnTime, paged, read)

InboxInv == LogInv /\ InboxTypeOK /\ PagedInv /\ ReadInv

\* A mark stays covered when more is shown and seen and only late or higher events appear.
LEMMA UpToGrows ==
    ASSUME NEW k \in Nat, NEW ids, NEW shown \in SUBSET Nat, NEW seen,
           NEW ids2 \in SUBSET Nat, NEW shown2, NEW seen2,
           UpTo(k, ids, shown, seen), shown \subseteq shown2, seen \subseteq seen2,
           \A id \in ids2 : id \in ids \/ \A p \in shown : p < id,
           0 \notin ids2
    PROVE  UpTo(k, ids2, shown2, seen2)
<1>1. k = 0 \/ \E p \in shown2 : k <= p
  BY DEF UpTo
<1>2. ASSUME NEW id \in ids2, id <= k PROVE id \in seen2
  <2>1. CASE k = 0
    BY <1>2, <2>1
  <2>2. CASE \E p \in shown : k <= p
    <3>1. PICK p \in shown : k <= p
      BY <2>2
    <3>2. ~(p < id)
      BY <1>2, <3>1
    <3>3. id \in ids
      BY <3>2
    <3>4. QED
      BY <1>2, <3>3 DEF UpTo
  <2>3. QED
    BY <2>1, <2>2 DEF UpTo
<1>3. QED
  BY <1>1, <1>2 DEF UpTo

\* A lower mark is covered too.
LEMMA UpToLower ==
    ASSUME NEW k \in Nat, NEW j \in Nat, j <= k, NEW ids \in SUBSET Nat,
           NEW shown \in SUBSET Nat, NEW seen, UpTo(k, ids, shown, seen)
    PROVE  UpTo(j, ids, shown, seen)
<1>1. j = 0 \/ \E p \in shown : j <= p
  <2>1. CASE k = 0
    BY <2>1
  <2>2. CASE \E p \in shown : k <= p
    <3>1. PICK p \in shown : k <= p
      BY <2>2
    <3>2. QED
      BY <3>1
  <2>3. QED
    BY <2>1, <2>2 DEF UpTo
<1>2. ASSUME NEW id \in ids, id <= j PROVE id \in seen
  <2>1. id <= k
    BY <1>2
  <2>2. QED
    BY <2>1 DEF UpTo
<1>3. QED
  BY <1>1, <1>2 DEF UpTo

\* Nothing is below the first event.
LEMMA UpToZero ==
    ASSUME NEW ids \in SUBSET EventId, NEW shown, NEW seen
    PROVE  UpTo(0, ids, shown, seen)
  BY DEF UpTo, EventId

\* The greater of two covered marks is covered.
LEMMA UpToGreater ==
    ASSUME NEW j, NEW k, NEW ids, NEW shown, NEW seen,
           UpTo(j, ids, shown, seen), UpTo(k, ids, shown, seen)
    PROVE  UpTo(Greater(j, k), ids, shown, seen)
  BY DEF Greater

\* The types of the sets the marks range over.
LEMMA InboxSets ==
    ASSUME InboxInv
    PROVE  /\ Ids(log) \subseteq EventId /\ OnTime \subseteq EventId
           /\ paged \subseteq EventId /\ read \subseteq EventId
           /\ EventId \subseteq Nat /\ 0 \notin EventId
           /\ Cursor \subseteq Nat
<1>1. log \in Seq(Event)
  BY DEF InboxInv, LogInv, LogTypeOK
<1>2. Ids(log) \subseteq EventId
  BY <1>1, IdsType
<1>3. QED
  BY <1>2 DEF InboxInv, InboxTypeOK, OnTime, EventId, Cursor

\* What a page contains: events past the cursor, and with an event every earlier one past
\* the cursor; next_cursor covers the cursor's events and the page.
LEMMA PageIsPrefix ==
    ASSUME InboxInv, NEW cursor \in Cursor, NEW limit \in Nat,
           NEW id \in Ids(log), cursor < id,
           NEW higher \in events_after(cursor, limit), id <= higher
    PROVE  id \in events_after(cursor, limit)
<1> DEFINE ahead == {e \in Ids(log) : e > cursor}
<1> DEFINE below(e) == {other \in ahead : other < e}
<1>1. Ids(log) \subseteq 1 .. MaxEvents /\ Ids(log) \subseteq Nat /\ cursor \in Nat
  BY InboxSets DEF EventId
<1>2. higher \in ahead /\ Cardinality(below(higher)) < limit
  BY DEF events_after
<1>3. IsFiniteSet(1 .. MaxEvents)
  BY FS_Interval, LogAssumption
<1>4. below(higher) \in SUBSET (1 .. MaxEvents)
  BY <1>1
<1>5. below(id) \in SUBSET below(higher)
  BY <1>1, <1>2
<1>6. id \in ahead
  BY <1>1
<1> HIDE DEF below
<1>7. IsFiniteSet(below(higher))
  BY <1>3, <1>4, FS_Subset, Zenon
<1>8. Cardinality(below(id)) <= Cardinality(below(higher)) /\ IsFiniteSet(below(id))
  BY <1>5, <1>7, FS_Subset, Zenon
<1>9. Cardinality(below(id)) \in Nat /\ Cardinality(below(higher)) \in Nat
  BY <1>7, <1>8, FS_CardinalityType
<1>10. Cardinality(below(id)) < limit
  BY <1>2, <1>8, <1>9
<1>11. QED
  BY <1>6, <1>10 DEF events_after, below

\* The cursor of the answer covers what the cursor covered and the page.
LEMMA NextCursorCovers ==
    ASSUME InboxInv, NEW cursor \in Cursor, NEW limit \in Nat, NEW seen,
           NEW page, page = events_after(cursor, limit),
           NEW next_cursor,
           next_cursor = IF page = {} THEN cursor ELSE Highest(page),
           UpTo(cursor, OnTime, paged, seen)
    PROVE  /\ page \subseteq Ids(log)
           /\ next_cursor \in Cursor
           /\ UpTo(next_cursor, OnTime, paged \cup page, seen \cup page)
<1>1. page \subseteq Ids(log)
  BY DEF events_after
<1>2. /\ Ids(log) \subseteq EventId /\ OnTime \subseteq EventId /\ paged \subseteq EventId
      /\ EventId \subseteq Nat /\ Cursor \subseteq Nat /\ 0 \notin EventId
      /\ OnTime \subseteq Ids(log)
  BY InboxSets DEF OnTime
<1>3. CASE page = {}
  <2>1. next_cursor = cursor
    BY <1>3
  <2>2. UpTo(cursor, OnTime, paged \cup page, seen \cup page)
    BY <1>3 DEF UpTo
  <2>3. QED
    BY <1>1, <2>1, <2>2
<1>4. CASE page # {}
  <2>1. page \in SUBSET (1 .. MaxEvents) /\ page # {}
    BY <1>1, <1>2, <1>4 DEF EventId
  <2>2. \E i \in page : \A j \in page : j <= i
    BY <2>1, HighestExists, LogAssumption, Zenon
  <2>3. next_cursor \in page /\ \A j \in page : j <= next_cursor
    BY <1>4, <2>2 DEF Highest
  <2>4. next_cursor \in Cursor /\ next_cursor \in Nat
    BY <2>1, <2>3 DEF Cursor
  <2>5. \E p \in paged \cup page : next_cursor <= p
    BY <2>3, <2>4
  <2>6. ASSUME NEW id \in OnTime, id <= next_cursor PROVE id \in seen \cup page
    <3>1. CASE id <= cursor
      BY <2>6, <3>1 DEF UpTo
    <3>2. CASE ~(id <= cursor)
      <4>1. cursor < id /\ id \in Ids(log)
        BY <1>2, <3>2
      <4>2. id \in page
        BY <2>3, <2>6, <4>1, PageIsPrefix
      <4>3. QED
        BY <4>2
    <3>3. QED
      BY <3>1, <3>2
  <2>7. QED
    BY <1>1, <2>4, <2>5, <2>6 DEF UpTo
<1>5. QED
  BY <1>3, <1>4

\* The marks of a call stay covered as the sets grow.
LEMMA CallGrows ==
    ASSUME NEW r \in Call, NEW ids, NEW shown \in SUBSET Nat, NEW seen,
           NEW ids2 \in SUBSET Nat, NEW shown2, NEW seen2,
           shown \subseteq shown2, seen \subseteq seen2,
           \A id \in ids2 : id \in ids \/ \A p \in shown : p < id,
           0 \notin ids2
    PROVE  /\ CallPaged(r, ids, shown) => CallPaged(r, ids2, shown2)
           /\ CallRead(r, ids, shown, seen) => CallRead(r, ids2, shown2, seen2)
<1>1. /\ r.offset.last_event_id \in Nat /\ r.offset.last_delivered_event_id \in Nat
      /\ r.after \in Nat /\ r.cursor \in Nat /\ r.next_cursor \in Nat
  BY LogAssumption DEF Call, InboxOffset, Cursor
<1>2. ASSUME NEW k \in Nat, UpTo(k, ids, shown, shown)
      PROVE  UpTo(k, ids2, shown2, shown2)
  BY <1>2, UpToGrows
<1>3. ASSUME NEW k \in Nat, UpTo(k, ids, shown, seen)
      PROVE  UpTo(k, ids2, shown2, seen2)
  BY <1>3, UpToGrows
<1>4. ASSUME UpTo(r.next_cursor, ids, shown, seen \cup r.page)
      PROVE  UpTo(r.next_cursor, ids2, shown2, seen2 \cup r.page)
  <2>1. seen \cup r.page \subseteq seen2 \cup r.page
    OBVIOUS
  <2>2. QED
    BY <1>1, <1>4, <2>1, UpToGrows
<1>5. QED
  BY <1>1, <1>2, <1>3, <1>4, Zenon DEF CallPaged, CallRead

\* A call that has read nothing covers nothing.
LEMMA FreshCall ==
    ASSUME NEW ids \in SUBSET EventId, NEW shown, NEW seen, NEW r,
           r.offset = NoOffset, r.cursor = 0, r.next_cursor = 0
    PROVE  /\ CallPaged(r, ids, shown)
           /\ UpTo(r.after, ids, shown, seen) => CallRead(r, ids, shown, seen)
<1>1. r.offset.last_event_id = 0 /\ r.offset.last_delivered_event_id = 0
  BY DEF NoOffset
<1>2. UpTo(0, ids, shown, shown) /\ UpTo(0, ids, shown, seen) /\ UpTo(0, ids, shown, seen \cup r.page)
  BY UpToZero
<1>3. QED
  BY <1>1, <1>2 DEF CallPaged, CallRead

\* The idle call.
LEMMA NoCallFresh ==
    /\ NoCall \in Call
    /\ \A ids \in SUBSET EventId : \A shown, seen :
           CallPaged(NoCall, ids, shown) /\ CallRead(NoCall, ids, shown, seen)
<1>1. NoCall \in Call
  BY LogAssumption, InboxAssumption DEF NoCall, Call, InboxOffset, NoOffset, Cursor, Omitted, EventId
<1>2. NoCall.offset = NoOffset /\ NoCall.cursor = 0 /\ NoCall.next_cursor = 0 /\ NoCall.after = 0
  BY DEF NoCall, Omitted
<1>3. ASSUME NEW ids \in SUBSET EventId, NEW shown, NEW seen
      PROVE  CallPaged(NoCall, ids, shown) /\ CallRead(NoCall, ids, shown, seen)
  <2>1. UpTo(NoCall.after, ids, shown, seen)
    BY <1>2, UpToZero
  <2>2. QED
    BY <1>2, <2>1, FreshCall
<1>4. QED
  BY <1>1, <1>3

\* The invariant holds before the first call, with an empty row.
LEMMA InitInbox == InboxInit => InboxInv
<1> SUFFICES ASSUME InboxInit PROVE InboxInv
  OBVIOUS
<1> USE LogAssumption, InboxAssumption
<1>1. LogInv
  BY InitLog DEF InboxInit
<1>2. NoOffset \in InboxOffset
  BY DEF NoOffset, InboxOffset, Cursor
<1>3. InboxTypeOK
  BY <1>1, <1>2, NoCallFresh DEF LogInv, InboxInit, InboxTypeOK
<1>4. OnTime \subseteq EventId
  <2>1. log \in Seq(Event)
    BY <1>1 DEF LogInv, LogTypeOK
  <2>2. QED
    BY <2>1, IdsType DEF OnTime
<1>5. /\ inbox.last_event_id = 0 /\ inbox.last_delivered_event_id = 0
      /\ cursors = {} /\ paged = {} /\ \A c \in Calls : call[c] = NoCall
  BY DEF InboxInit, NoOffset
<1>6. PagedInv
  BY <1>4, <1>5, UpToZero, NoCallFresh DEF PagedInv
<1>7. ReadInv
  BY <1>4, <1>5, UpToZero, NoCallFresh DEF ReadInv
<1>8. QED
  BY <1>1, <1>3, <1>6, <1>7 DEF InboxInv

\* Events are written below and above the marks.
LEMMA WriteKeepsInbox ==
    ASSUME InboxInv, InboxWrites
    PROVE  InboxInv'
<1>1. LogInv'
  BY LogSteps DEF InboxInv, InboxWrites
<1>2. Ids(log) \subseteq Ids(log')
  <2>1. ASSUME NEW w \in Writers, Commit(w) PROVE Ids(log) \subseteq Ids(log')
    BY <2>1, CommitIds DEF InboxInv
  <2>2. ASSUME NEW w \in Writers, Allocate(w) \/ Rollback(w) PROVE log' = log
    BY <2>2 DEF Allocate, Rollback
  <2>3. QED
    BY <2>1, <2>2 DEF InboxWrites, Write
<1>3. /\ UNCHANGED <<inbox, call, cursors, read, paged, guessed>>
      /\ late' = late \cup {id \in Ids(log') \ Ids(log) : \E shown \in paged : id < shown}
  BY DEF InboxWrites
<1>4. Ids(log') \subseteq EventId
  <2>1. log' \in Seq(Event)
    BY <1>1 DEF LogInv, LogTypeOK
  <2>2. QED
    BY <2>1, IdsType
<1>5. InboxTypeOK'
  <2>1. LogTypeOK'
    BY <1>1 DEF LogInv
  <2>2. QED
    BY <1>3, <1>4, <2>1 DEF InboxInv, InboxTypeOK
<1>6. OnTime' = Ids(log') \ late'
  BY DEF OnTime
<1>7. /\ paged \subseteq Ids(log) /\ paged \subseteq EventId /\ EventId \subseteq Nat
      /\ 0 \notin EventId /\ OnTime' \subseteq EventId /\ Cursor \subseteq Nat
  BY <1>4, <1>6, InboxSets DEF InboxInv, PagedInv
<1>8. ASSUME NEW id \in OnTime' PROVE id \in OnTime \/ \A p \in paged : p < id
  <2>1. CASE id \in Ids(log)
    BY <1>3, <1>6, <2>1 DEF OnTime
  <2>2. CASE id \notin Ids(log)
    <3>1. ASSUME NEW p \in paged PROVE p < id
      <4>1. ~(id < p)
        BY <1>3, <1>6, <2>2
      <4>2. id # p /\ id \in Nat /\ p \in Nat
        BY <1>7, <2>2
      <4>3. QED
        BY <4>1, <4>2
    <3>2. QED
      BY <3>1
  <2>3. QED
    BY <2>1, <2>2
<1>9. OnTime' \in SUBSET Nat /\ paged \in SUBSET Nat /\ 0 \notin OnTime'
  BY <1>7
<1>10. ASSUME NEW k \in Nat, NEW seen, UpTo(k, OnTime, paged, seen)
       PROVE  UpTo(k, OnTime', paged, seen)
  BY <1>8, <1>9, <1>10, UpToGrows
<1>11. ASSUME NEW c \in Calls
       PROVE  /\ CallPaged(call[c], OnTime, paged) => CallPaged(call[c], OnTime', paged)
              /\ CallRead(call[c], OnTime, paged, read) => CallRead(call[c], OnTime', paged, read)
  <2>1. call[c] \in Call
    BY DEF InboxInv, InboxTypeOK
  <2>2. QED
    BY <1>8, <1>9, <2>1, CallGrows
<1>12. inbox.last_event_id \in Nat /\ inbox.last_delivered_event_id \in Nat /\ cursors \subseteq Nat
  BY <1>7 DEF InboxInv, InboxTypeOK, InboxOffset
<1>13. PagedInv'
  BY <1>2, <1>3, <1>10, <1>11, <1>12 DEF InboxInv, PagedInv
<1>14. ReadInv'
  BY <1>3, <1>10, <1>11, <1>12 DEF InboxInv, ReadInv
<1>15. QED
  BY <1>1, <1>5, <1>13, <1>14 DEF InboxInv

\* Where a page begins is covered by what the call read from the row and, for the client's
\* reads, by the cursor it confirmed.
LEMMA StartCovered ==
    ASSUME InboxInv, NEW c \in Calls
    PROVE  LET cursor == StartCursor(call[c].offset, call[c].after)
           IN  /\ cursor \in Cursor
               /\ UpTo(cursor, OnTime, paged, paged)
               /\ ~guessed => UpTo(cursor, OnTime, paged, read)
<1> DEFINE low == call[c].offset.last_event_id
           high == call[c].offset.last_delivered_event_id
           after == call[c].after
           cursor == StartCursor(call[c].offset, call[c].after)
<1>1. low \in Cursor /\ high \in Cursor /\ after \in Nat /\ Cursor \subseteq Nat
  BY InboxSets DEF InboxInv, InboxTypeOK, Call, InboxOffset
<1>2. UpTo(low, OnTime, paged, paged) /\ UpTo(high, OnTime, paged, paged)
  BY DEF InboxInv, PagedInv, CallPaged
<1>3. ~guessed => UpTo(low, OnTime, paged, read) /\ UpTo(after, OnTime, paged, read)
  BY DEF InboxInv, ReadInv, CallRead
<1>4. OnTime \in SUBSET Nat /\ paged \in SUBSET Nat
  BY InboxSets
<1>5. Smaller(after, high) \in Nat /\ Smaller(after, high) <= after /\ Smaller(after, high) <= high
  <2>1. \A a, b \in Nat : Smaller(a, b) \in Nat /\ Smaller(a, b) <= a /\ Smaller(a, b) <= b
    BY DEF Smaller
  <2>2. after \in Nat /\ high \in Nat
    BY <1>1
  <2> HIDE DEF after, high
  <2>3. QED
    BY <2>1, <2>2
<1>6. cursor \in {low, Smaller(after, high)}
  BY DEF StartCursor, Greater
<1>7. Smaller(after, high) \in Cursor
  BY <1>1, <1>5, LogAssumption DEF Cursor
<1>8. UpTo(Smaller(after, high), OnTime, paged, paged)
  BY <1>1, <1>2, <1>4, <1>5, UpToLower
<1>9. ~guessed => UpTo(Smaller(after, high), OnTime, paged, read)
  BY <1>1, <1>3, <1>4, <1>5, UpToLower
<1> HIDE DEF low, high, after
<1>10. QED
  BY <1>1, <1>2, <1>3, <1>6, <1>7, <1>8, <1>9, Zenon

\* A page is read.
LEMMA ReadPageKeepsInbox ==
    ASSUME InboxInv, NEW c \in Calls, ReadPage(c)
    PROVE  InboxInv'
<1> DEFINE cursor == StartCursor(call[c].offset, call[c].after)
           page == events_after(cursor, call[c].limit)
           next_cursor == IF page = {} THEN cursor ELSE Highest(page)
<1>1. /\ UNCHANGED <<logVars, inbox, cursors, read, late, guessed>>
      /\ paged' = paged \cup page
      /\ call' = [call EXCEPT ![c].at = "save", ![c].after = Omitted, ![c].limit = 0,
                    ![c].cursor = cursor, ![c].page = page, ![c].next_cursor = next_cursor]
  BY DEF ReadPage
<1>2. /\ cursor \in Cursor
      /\ UpTo(cursor, OnTime, paged, paged)
      /\ ~guessed => UpTo(cursor, OnTime, paged, read)
  BY StartCovered
<1>3. call[c].limit \in Nat /\ call \in [Calls -> Call] /\ call[c] \in Call
  <2>1. call \in [Calls -> Call] /\ call[c] \in Call
    BY DEF InboxInv, InboxTypeOK
  <2>2. call[c].limit \in {0} \cup Limits
    BY <2>1 DEF Call
  <2>3. \A x \in {0} \cup Limits : x \in Nat
    BY InboxAssumption
  <2>4. QED
    BY <2>1, <2>2, <2>3, Zenon
<1> HIDE DEF cursor
<1>4. /\ page \subseteq Ids(log) /\ next_cursor \in Cursor
      /\ UpTo(next_cursor, OnTime, paged \cup page, paged \cup page)
      /\ ~guessed => UpTo(next_cursor, OnTime, paged \cup page, read \cup page)
  <2>1. ASSUME NEW seen, UpTo(cursor, OnTime, paged, seen)
        PROVE  /\ page \subseteq Ids(log) /\ next_cursor \in Cursor
               /\ UpTo(next_cursor, OnTime, paged \cup page, seen \cup page)
    BY <1>2, <1>3, <2>1, NextCursorCovers
  <2> HIDE DEF page, next_cursor
  <2>2. QED
    BY <1>2, <2>1
<1> HIDE DEF page, next_cursor
<1>5. /\ OnTime' = OnTime /\ Ids(log') = Ids(log)
      /\ inbox' = inbox /\ cursors' = cursors /\ read' = read /\ guessed' = guessed
  BY <1>1 DEF OnTime, logVars
<1>6. /\ OnTime \in SUBSET Nat /\ paged \in SUBSET Nat /\ 0 \notin OnTime
      /\ OnTime \in SUBSET EventId /\ Ids(log) \subseteq EventId /\ Cursor \subseteq Nat
  BY InboxSets
<1>7. ASSUME NEW k \in Nat
      PROVE  /\ UpTo(k, OnTime, paged, paged) => UpTo(k, OnTime, paged', paged')
             /\ \A seen : UpTo(k, OnTime, paged, seen) => UpTo(k, OnTime, paged', seen)
  BY <1>1 DEF UpTo
<1>8. /\ call'[c].offset = call[c].offset /\ call'[c].after = 0 /\ call'[c].cursor = cursor
      /\ call'[c].page = page /\ call'[c].next_cursor = next_cursor
      /\ \A d \in Calls \ {c} : call'[d] = call[d]
  BY <1>1, <1>3 DEF Call, Omitted
<1>9. call' \in [Calls -> Call]
  <2>1. page \in SUBSET EventId
    BY <1>4, <1>6
  <2>2. ASSUME NEW r \in Call
        PROVE  [r EXCEPT !.at = "save", !.after = Omitted, !.limit = 0, !.cursor = cursor,
                         !.page = page, !.next_cursor = next_cursor] \in Call
    BY <1>2, <1>4, <2>1 DEF Call, Omitted
  <2>3. QED
    BY <1>1, <1>3, <2>2
<1>10. LogInv'
  BY <1>1, LogSteps DEF InboxInv
<1>11. InboxTypeOK'
  BY <1>1, <1>4, <1>5, <1>6, <1>9, <1>10 DEF InboxInv, InboxTypeOK, LogInv
<1>12. \A k \in Cursor : k \in Nat
  BY <1>6
<1>13. /\ inbox.last_event_id \in Nat /\ inbox.last_delivered_event_id \in Nat /\ cursors \subseteq Nat
       /\ call[c].offset.last_event_id \in Nat /\ call[c].offset.last_delivered_event_id \in Nat
  BY <1>3, <1>6 DEF InboxInv, InboxTypeOK, InboxOffset, Call
<1>14. ASSUME NEW d \in Calls PROVE CallPaged(call'[d], OnTime, paged')
  <2>1. CASE d = c
    <3>1. /\ UpTo(call[c].offset.last_event_id, OnTime, paged', paged')
          /\ UpTo(call[c].offset.last_delivered_event_id, OnTime, paged', paged')
      BY <1>7, <1>13 DEF InboxInv, PagedInv, CallPaged
    <3>2. UpTo(cursor, OnTime, paged', paged') /\ UpTo(next_cursor, OnTime, paged', paged')
      BY <1>1, <1>2, <1>4, <1>7, <1>12
    <3>3. QED
      BY <1>8, <2>1, <3>1, <3>2 DEF CallPaged
  <2>2. CASE d # c
    <3>1. call[d] \in Call /\ CallPaged(call[d], OnTime, paged) /\ call'[d] = call[d]
      BY <1>3, <1>8, <2>2 DEF InboxInv, PagedInv
    <3>2. paged \subseteq paged'
      BY <1>1
    <3>3. QED
      BY <1>6, <3>1, <3>2, CallGrows
  <2>3. QED
    BY <2>1, <2>2
<1>15. PagedInv'
  BY <1>1, <1>4, <1>5, <1>7, <1>13, <1>14 DEF InboxInv, PagedInv
<1>16. ASSUME ~guessed, NEW d \in Calls PROVE CallRead(call'[d], OnTime, paged', read)
  <2>1. CASE d = c
    <3>1. UpTo(call[c].offset.last_event_id, OnTime, paged', read)
      BY <1>7, <1>13, <1>16 DEF InboxInv, ReadInv, CallRead
    <3>2. UpTo(cursor, OnTime, paged', read) /\ UpTo(next_cursor, OnTime, paged', read \cup page)
      BY <1>1, <1>2, <1>4, <1>7, <1>12, <1>16
    <3>3. UpTo(0, OnTime, paged', read)
      BY <1>6, UpToZero
    <3>4. QED
      BY <1>8, <2>1, <3>1, <3>2, <3>3 DEF CallRead
  <2>2. CASE d # c
    <3>1. call[d] \in Call /\ CallRead(call[d], OnTime, paged, read) /\ call'[d] = call[d]
      BY <1>3, <1>8, <1>16, <2>2 DEF InboxInv, ReadInv
    <3>2. paged \subseteq paged'
      BY <1>1
    <3>3. QED
      BY <1>6, <3>1, <3>2, CallGrows
  <2>3. QED
    BY <2>1, <2>2
<1>17. ReadInv'
  BY <1>5, <1>7, <1>13, <1>16 DEF InboxInv, ReadInv
<1>18. QED
  BY <1>10, <1>11, <1>15, <1>17 DEF InboxInv

\* The row is saved.
LEMMA SavePageKeepsInbox ==
    ASSUME InboxInv, NEW c \in Calls, SavePage(c)
    PROVE  InboxInv' /\ inbox'.last_event_id >= inbox.last_event_id
                     /\ inbox'.last_delivered_event_id >= inbox.last_delivered_event_id
<1> DEFINE delivered == Greater(call[c].offset.last_delivered_event_id, call[c].next_cursor)
<1>1. /\ UNCHANGED <<logVars, cursors, read, paged, late, guessed>>
      /\ call' = [call EXCEPT ![c].at = "answer", ![c].offset = NoOffset, ![c].cursor = 0]
      /\ inbox' = [last_event_id |-> Greater(inbox.last_event_id, call[c].cursor),
                   last_delivered_event_id |-> Greater(inbox.last_delivered_event_id, delivered)]
  BY DEF SavePage, SaveOffset
<1>2. /\ call \in [Calls -> Call] /\ call[c] \in Call
      /\ inbox.last_event_id \in Cursor /\ inbox.last_delivered_event_id \in Cursor
      /\ call[c].cursor \in Cursor /\ call[c].next_cursor \in Cursor
      /\ call[c].offset.last_delivered_event_id \in Cursor
  BY DEF InboxInv, InboxTypeOK, Call, InboxOffset
<1>3. /\ inbox'.last_event_id = Greater(inbox.last_event_id, call[c].cursor)
      /\ inbox'.last_delivered_event_id = Greater(inbox.last_delivered_event_id, delivered)
  BY <1>1
<1>4. /\ inbox'.last_event_id \in Cursor /\ inbox'.last_delivered_event_id \in Cursor
      /\ inbox' \in InboxOffset
  BY <1>1, <1>2, <1>3 DEF Greater, InboxOffset
<1>5. /\ OnTime' = OnTime /\ Ids(log') = Ids(log) /\ paged' = paged
      /\ cursors' = cursors /\ read' = read /\ guessed' = guessed
  BY <1>1 DEF OnTime, logVars
<1>6. OnTime \in SUBSET EventId /\ Cursor \subseteq Nat
  BY InboxSets
<1>7. LogInv'
  BY <1>1, LogSteps DEF InboxInv
<1>8. call' \in [Calls -> Call]
  <2>1. NoOffset \in InboxOffset /\ 0 \in Cursor
    BY LogAssumption DEF InboxOffset, NoOffset, Cursor
  <2>2. ASSUME NEW r \in Call
        PROVE  [r EXCEPT !.at = "answer", !.offset = NoOffset, !.cursor = 0] \in Call
    BY <2>1 DEF Call
  <2>3. QED
    BY <1>1, <1>2, <2>2
<1>9. InboxTypeOK'
  BY <1>1, <1>4, <1>5, <1>7, <1>8 DEF InboxInv, InboxTypeOK, LogInv
<1>10. /\ call'[c].offset = NoOffset /\ call'[c].cursor = 0 /\ call'[c].after = call[c].after
       /\ call'[c].next_cursor = call[c].next_cursor /\ call'[c].page = call[c].page
       /\ \A d \in Calls \ {c} : call'[d] = call[d]
  BY <1>1, <1>2 DEF Call
<1>11. NoOffset.last_event_id = 0 /\ NoOffset.last_delivered_event_id = 0
  BY DEF NoOffset
<1>12. UpTo(0, OnTime, paged, paged) /\ UpTo(0, OnTime, paged, read)
  BY <1>6, UpToZero
<1>13. CallPaged(call[c], OnTime, paged)
  BY DEF InboxInv, PagedInv
<1>14. PagedInv'
  <2>1. UpTo(inbox'.last_event_id, OnTime, paged, paged)
    BY <1>3, <1>13, UpToGreater DEF InboxInv, PagedInv, CallPaged
  <2>2. UpTo(inbox'.last_delivered_event_id, OnTime, paged, paged)
    BY <1>3, <1>13, UpToGreater DEF InboxInv, PagedInv, CallPaged
  <2>3. CallPaged(call'[c], OnTime, paged)
    BY <1>10, <1>11, <1>12, <1>13 DEF CallPaged
  <2>4. \A d \in Calls : CallPaged(call'[d], OnTime, paged)
    BY <1>10, <2>3 DEF InboxInv, PagedInv
  <2>5. QED
    BY <1>5, <2>1, <2>2, <2>4 DEF InboxInv, PagedInv
<1>15. ASSUME ~guessed
       PROVE  /\ UpTo(inbox'.last_event_id, OnTime, paged, read)
              /\ \A d \in Calls : CallRead(call'[d], OnTime, paged, read)
  <2>1. CallRead(call[c], OnTime, paged, read) /\ UpTo(inbox.last_event_id, OnTime, paged, read)
    BY <1>15 DEF InboxInv, ReadInv
  <2>2. UpTo(inbox'.last_event_id, OnTime, paged, read)
    BY <1>3, <2>1, UpToGreater DEF CallRead
  <2>3. CallRead(call'[c], OnTime, paged, read)
    BY <1>10, <1>11, <1>12, <2>1 DEF CallRead
  <2>4. QED
    BY <1>10, <1>15, <2>2, <2>3 DEF InboxInv, ReadInv
<1>16. ReadInv'
  BY <1>5, <1>15 DEF InboxInv, ReadInv
<1>17. /\ inbox'.last_event_id >= inbox.last_event_id
       /\ inbox'.last_delivered_event_id >= inbox.last_delivered_event_id
  <2>1. \A a, b \in Nat : Greater(a, b) >= a
    BY DEF Greater
  <2>2. delivered \in Cursor
    BY <1>2 DEF Greater
  <2> HIDE DEF delivered
  <2>3. QED
    BY <1>2, <1>3, <1>6, <2>1, <2>2
<1>18. QED
  BY <1>7, <1>9, <1>14, <1>16, <1>17 DEF InboxInv

\* A call begins, and the client confirms a cursor it received, or guesses.
LEMMA AskKeepsInbox ==
    ASSUME InboxInv, NEW c \in Calls, Ask(c)
    PROVE  InboxInv'
<1>1. PICK after \in {Omitted} \cup cursors \cup Guesses, limit \in Limits :
        /\ call' = [call EXCEPT ![c] = [NoCall EXCEPT !.at = "offset", !.after = after,
                                                      !.limit = limit]]
        /\ guessed' = (guessed \/ after \notin cursors \cup {Omitted})
  BY DEF Ask
<1> DEFINE r == [NoCall EXCEPT !.at = "offset", !.after = after, !.limit = limit]
<1>2. UNCHANGED <<logVars, inbox, cursors, read, paged, late>>
  BY DEF Ask
<1>3. OnTime \in SUBSET EventId /\ Cursor \subseteq Nat
  BY InboxSets
<1>4. after \in Nat
  <2>1. cursors \subseteq Nat
    BY <1>3 DEF InboxInv, InboxTypeOK
  <2>2. QED
    BY <2>1, InboxAssumption DEF Omitted
<1>5. /\ r \in Call /\ r.offset = NoOffset /\ r.cursor = 0 /\ r.next_cursor = 0
      /\ r.after = after
  <2>1. NoCall \in Call
    BY NoCallFresh
  <2>2. r \in Call
    BY <1>4, <2>1 DEF Call
  <2>3. QED
    BY <2>2 DEF NoCall
<1> HIDE DEF r
<1>6. call \in [Calls -> Call] /\ call' = [call EXCEPT ![c] = r]
  BY <1>1 DEF InboxInv, InboxTypeOK, r
<1>7. call' \in [Calls -> Call] /\ call'[c] = r /\ \A d \in Calls \ {c} : call'[d] = call[d]
  BY <1>5, <1>6
<1>8. /\ OnTime' = OnTime /\ Ids(log') = Ids(log) /\ paged' = paged /\ inbox' = inbox
      /\ cursors' = cursors /\ read' = read /\ late' = late
  BY <1>2 DEF OnTime, logVars
<1>9. LogInv'
  BY <1>2, LogSteps DEF InboxInv
<1>10. guessed' \in BOOLEAN
  BY <1>1, Zenon
<1>11. InboxTypeOK'
  BY <1>7, <1>8, <1>9, <1>10 DEF InboxInv, InboxTypeOK, LogInv
<1>12. CallPaged(r, OnTime, paged)
  BY <1>3, <1>5, FreshCall
<1>13. PagedInv'
  BY <1>7, <1>8, <1>12 DEF InboxInv, PagedInv
<1>14. ASSUME ~guessed' PROVE ~guessed /\ CallRead(r, OnTime, paged, read)
  <2>1. ~guessed /\ after \in cursors \cup {0}
    BY <1>1, <1>14, Zenon DEF Omitted
  <2>2. UpTo(0, OnTime, paged, read)
    BY <1>3, UpToZero
  <2>3. UpTo(after, OnTime, paged, read)
    BY <2>1, <2>2 DEF InboxInv, ReadInv
  <2>4. QED
    BY <1>3, <1>5, <2>1, <2>3, FreshCall
<1>15. ReadInv'
  BY <1>7, <1>8, <1>14 DEF InboxInv, ReadInv
<1>16. QED
  BY <1>9, <1>11, <1>13, <1>15 DEF InboxInv

\* The call reads the row.
LEMMA ReadOffsetKeepsInbox ==
    ASSUME InboxInv, NEW c \in Calls, ReadOffset(c)
    PROVE  InboxInv'
<1>1. /\ UNCHANGED <<logVars, inbox, cursors, read, paged, late, guessed>>
      /\ call' = [call EXCEPT ![c].at = "page", ![c].offset = inbox]
  BY DEF ReadOffset
<1>2. call \in [Calls -> Call] /\ call[c] \in Call /\ inbox \in InboxOffset
  BY DEF InboxInv, InboxTypeOK
<1>3. call' \in [Calls -> Call]
  <2>1. \A r \in Call : [r EXCEPT !.at = "page", !.offset = inbox] \in Call
    BY <1>2 DEF Call
  <2>2. QED
    BY <1>1, <1>2, <2>1
<1>4. /\ call'[c].offset = inbox /\ call'[c].after = call[c].after
      /\ call'[c].cursor = call[c].cursor /\ call'[c].page = call[c].page
      /\ call'[c].next_cursor = call[c].next_cursor
      /\ \A d \in Calls \ {c} : call'[d] = call[d]
  BY <1>1, <1>2 DEF Call
<1>5. /\ OnTime' = OnTime /\ Ids(log') = Ids(log) /\ paged' = paged /\ inbox' = inbox
      /\ cursors' = cursors /\ read' = read /\ late' = late /\ guessed' = guessed
  BY <1>1 DEF OnTime, logVars
<1>6. LogInv'
  BY <1>1, LogSteps DEF InboxInv
<1>7. InboxTypeOK'
  BY <1>3, <1>5, <1>6 DEF InboxInv, InboxTypeOK, LogInv
<1>8. CallPaged(call'[c], OnTime, paged)
  BY <1>4 DEF InboxInv, PagedInv, CallPaged
<1>9. PagedInv'
  BY <1>4, <1>5, <1>8 DEF InboxInv, PagedInv
<1>10. ~guessed => CallRead(call'[c], OnTime, paged, read)
  BY <1>4 DEF InboxInv, ReadInv, CallRead
<1>11. ReadInv'
  BY <1>4, <1>5, <1>10 DEF InboxInv, ReadInv
<1>12. QED
  BY <1>6, <1>7, <1>9, <1>11 DEF InboxInv

\* The client receives the page.
LEMMA AnswerKeepsInbox ==
    ASSUME InboxInv, NEW c \in Calls, Answer(c)
    PROVE  InboxInv'
<1>1. /\ UNCHANGED <<logVars, inbox, paged, late, guessed>>
      /\ read' = read \cup call[c].page /\ cursors' = cursors \cup {call[c].next_cursor}
      /\ call' = [call EXCEPT ![c] = NoCall]
  BY DEF Answer
<1>2. /\ call \in [Calls -> Call] /\ call[c] \in Call
      /\ call[c].page \subseteq EventId /\ call[c].next_cursor \in Cursor
  BY DEF InboxInv, InboxTypeOK, Call
<1>3. call' \in [Calls -> Call] /\ call'[c] = NoCall /\ \A d \in Calls \ {c} : call'[d] = call[d]
  BY <1>1, <1>2, NoCallFresh
<1>4. /\ OnTime' = OnTime /\ Ids(log') = Ids(log) /\ paged' = paged /\ inbox' = inbox
      /\ late' = late /\ guessed' = guessed
  BY <1>1 DEF OnTime, logVars
<1>5. LogInv'
  BY <1>1, LogSteps DEF InboxInv
<1>6. InboxTypeOK'
  BY <1>1, <1>2, <1>3, <1>4, <1>5 DEF InboxInv, InboxTypeOK, LogInv
<1>7. OnTime \in SUBSET EventId /\ OnTime \in SUBSET Nat /\ paged \in SUBSET Nat /\ 0 \notin OnTime
  BY InboxSets
<1>8. /\ CallPaged(NoCall, OnTime, paged) /\ CallRead(NoCall, OnTime, paged, read')
  BY <1>7, NoCallFresh
<1>9. PagedInv'
  BY <1>3, <1>4, <1>8 DEF InboxInv, PagedInv
<1>10. \A k : UpTo(k, OnTime, paged, read) => UpTo(k, OnTime, paged, read')
  BY <1>1 DEF UpTo
<1>11. ASSUME ~guessed PROVE \A d \in Calls : CallRead(call'[d], OnTime, paged, read')
  <2>1. ASSUME NEW d \in Calls, d # c PROVE CallRead(call'[d], OnTime, paged, read')
    <3>1. call[d] \in Call /\ CallRead(call[d], OnTime, paged, read) /\ call'[d] = call[d]
      BY <1>2, <1>3, <1>11, <2>1 DEF InboxInv, ReadInv
    <3>2. read \subseteq read'
      BY <1>1
    <3>3. QED
      BY <1>7, <3>1, <3>2, CallGrows
  <2>2. QED
    BY <1>3, <1>8, <2>1
<1>12. ASSUME ~guessed PROVE \A k \in cursors' : UpTo(k, OnTime, paged, read')
  <2>1. UpTo(call[c].next_cursor, OnTime, paged, read')
    BY <1>1, <1>12 DEF InboxInv, ReadInv, CallRead
  <2>2. QED
    BY <1>1, <1>10, <1>12, <2>1 DEF InboxInv, ReadInv
<1>13. ReadInv'
  BY <1>4, <1>10, <1>11, <1>12 DEF InboxInv, ReadInv
<1>14. QED
  BY <1>5, <1>6, <1>9, <1>13 DEF InboxInv

\* Calls end without an answer, some of them: the answer is lost, the store fails, the
\* server restarts.
LEMMA CallsEndKeepInbox ==
    ASSUME InboxInv, LogInv', log' = log,
           UNCHANGED <<inbox, cursors, read, paged, late, guessed>>,
           call' \in [Calls -> Call],
           \A d \in Calls : call'[d] = call[d] \/ call'[d] = NoCall
    PROVE  InboxInv'
<1>1. /\ OnTime' = OnTime /\ Ids(log') = Ids(log) /\ paged' = paged /\ inbox' = inbox
      /\ cursors' = cursors /\ read' = read /\ late' = late /\ guessed' = guessed
  BY DEF OnTime
<1>2. InboxTypeOK'
  BY <1>1 DEF InboxInv, InboxTypeOK, LogInv
<1>3. OnTime \in SUBSET EventId
  BY InboxSets
<1>4. CallPaged(NoCall, OnTime, paged) /\ CallRead(NoCall, OnTime, paged, read)
  BY <1>3, NoCallFresh
<1>5. PagedInv'
  BY <1>1, <1>4 DEF InboxInv, PagedInv
<1>6. ReadInv'
  BY <1>1, <1>4 DEF InboxInv, ReadInv
<1>7. QED
  BY <1>2, <1>5, <1>6 DEF InboxInv

\* The invariant is inductive, and no step takes the row back.
LEMMA InboxSteps ==
    ASSUME InboxInv, [InboxNext]_inboxVars
    PROVE  /\ InboxInv'
           /\ inbox' = inbox \/ /\ inbox'.last_event_id >= inbox.last_event_id
                                /\ inbox'.last_delivered_event_id >= inbox.last_delivered_event_id
<1>1. call \in [Calls -> Call] /\ NoCall \in Call
  BY NoCallFresh DEF InboxInv, InboxTypeOK
<1>2. CASE InboxWrites
  BY <1>2, WriteKeepsInbox DEF InboxWrites
<1>3. CASE InboxRestart
  <2>1. LogInv' /\ log' = log
    BY <1>3, LogSteps DEF InboxInv, InboxRestart, LogRestart
  <2>2. call' \in [Calls -> Call] /\ \A d \in Calls : call'[d] = NoCall
    BY <1>1, <1>3 DEF InboxRestart
  <2>3. QED
    BY <1>3, <2>1, <2>2, CallsEndKeepInbox DEF InboxRestart
<1>4. ASSUME NEW c \in Calls, Ask(c) PROVE InboxInv' /\ inbox' = inbox
  BY <1>4, AskKeepsInbox DEF Ask
<1>5. ASSUME NEW c \in Calls, ReadOffset(c) PROVE InboxInv' /\ inbox' = inbox
  BY <1>5, ReadOffsetKeepsInbox DEF ReadOffset
<1>6. ASSUME NEW c \in Calls, ReadPage(c) PROVE InboxInv' /\ inbox' = inbox
  BY <1>6, ReadPageKeepsInbox DEF ReadPage
<1>7. ASSUME NEW c \in Calls, Answer(c) PROVE InboxInv' /\ inbox' = inbox
  BY <1>7, AnswerKeepsInbox DEF Answer
<1>8. ASSUME NEW c \in Calls, LoseAnswer(c) \/ CallFails(c) PROVE InboxInv' /\ inbox' = inbox
  <2>1. LogInv' /\ log' = log
    BY <1>8, LogSteps DEF InboxInv, LoseAnswer, CallFails, StoreFails, logVars
  <2>2. call' = [call EXCEPT ![c] = NoCall] /\ UNCHANGED <<inbox, cursors, read, paged, late, guessed>>
    BY <1>8 DEF LoseAnswer, CallFails
  <2>3. call' \in [Calls -> Call] /\ \A d \in Calls : call'[d] = call[d] \/ call'[d] = NoCall
    BY <1>1, <2>2
  <2>4. QED
    BY <2>1, <2>2, <2>3, CallsEndKeepInbox
<1>9. CASE UNCHANGED inboxVars
  <2>1. LogInv' /\ log' = log
    BY <1>9, LogSteps DEF InboxInv, inboxVars, logVars
  <2>2. QED
    BY <1>1, <1>9, <2>1, CallsEndKeepInbox DEF inboxVars, callVars
<1>10. QED
  BY <1>2, <1>3, <1>4, <1>5, <1>6, <1>7, <1>8, <1>9, SavePageKeepsInbox DEF InboxNext, list_events

\* Every reachable state of the log and the inbox satisfies the invariant.
THEOREM InboxInvariant == InboxSpec => []InboxInv
<1>1. InboxInv /\ [InboxNext]_inboxVars => InboxInv'
  BY InboxSteps
<1>2. QED
  BY <1>1, InitInbox, PTL DEF InboxSpec

\* The row, the calls and the log stay in their types, whatever cursors clients confirm.
THEOREM TypeCorrect == InboxSpec => []InboxTypeOK
<1>1. InboxInv => InboxTypeOK
  BY DEF InboxInv
<1>2. QED
  BY <1>1, InboxInvariant, PTL

\* No identity is given to two events (EventSequence::allocate, from_store).
THEOREM IdentitiesUnique == InboxSpec => []IdsUnique
<1>1. InboxInv => IdsUnique
  BY DEF InboxInv, LogInv
<1>2. QED
  BY <1>1, InboxInvariant, PTL

\* Only events a page contained are acknowledged (list_events, save_inbox_offset).
THEOREM OnlyPagedAcknowledged == InboxSpec => []AcknowledgedWasPaged
<1>1. InboxInv => AcknowledgedWasPaged
  BY DEF InboxInv, PagedInv, UpTo, OnTime, AcknowledgedWasPaged
<1>2. QED
  BY <1>1, InboxInvariant, PTL

\* A client that confirms the cursors it received has received what is acknowledged
\* (list_events, save_inbox_offset).
THEOREM OnlyReadAcknowledged == InboxSpec => []AcknowledgedWasRead
<1>1. InboxInv => AcknowledgedWasRead
  BY DEF InboxInv, ReadInv, UpTo, OnTime, AcknowledgedWasRead
<1>2. QED
  BY <1>1, InboxInvariant, PTL

\* The row never goes back (save_inbox_offset).
THEOREM RowNeverGoesBack == InboxSpec => OffsetsMonotonic
<1>1. InboxInv /\ [InboxNext]_inboxVars =>
        [/\ inbox'.last_event_id >= inbox.last_event_id
         /\ inbox'.last_delivered_event_id >= inbox.last_delivered_event_id]_inboxVars
  <2> SUFFICES ASSUME InboxInv, [InboxNext]_inboxVars
               PROVE  /\ inbox'.last_event_id >= inbox.last_event_id
                      /\ inbox'.last_delivered_event_id >= inbox.last_delivered_event_id
    OBVIOUS
  <2>1. inbox.last_event_id \in Nat /\ inbox.last_delivered_event_id \in Nat
    BY InboxSets DEF InboxInv, InboxTypeOK, InboxOffset
  <2>2. QED
    BY <2>1, InboxSteps
<1>2. QED
  BY <1>1, InboxInvariant, PTL DEF InboxSpec, OffsetsMonotonic

(***************************************************************************)
(* Webhooks and dashboard: a webhook entry is acknowledged only with its   *)
(* attempt on record, and what is acknowledged for the dashboard reaches   *)
(* every open stream.                                                      *)
(***************************************************************************)

\* The records of a log of n rows.
Workers(n) == [at : {"batch", "entry", "send", "record", "ack"},
               channel : Channels, batch : SUBSET (1 .. n)]
Boards(n) == [at : {"sse", "browser", "snapshot", "publish", "ack"},
              pending : [Screens -> SUBSET (1 .. n)], view : 0 .. n]
Browsers(n) == [at : {"closed", "subscribed", "live"}, lagged : BOOLEAN,
                queue : Seq(0 .. n), latest : 0 .. n]

DeliveryTypes(n) ==
    /\ acked \in [Destinations -> SUBSET (1 .. n)]
    /\ attempts \in [Channels -> SUBSET EventId]
    /\ worker \in Workers(n) /\ board \in Boards(n) /\ browser \in Browsers(n)

\* The webhook dispatcher w knows whether the event of its entry was attempted.
WorkerOK(w, rows, tried) ==
    /\ w.at # "batch" => w.batch # {}
    /\ w.at \in {"send", "record"} => rows[Min(w.batch)].id \notin tried[w.channel]
    /\ w.at = "ack" /\ w.channel \in Endpoints => rows[Min(w.batch)].id \in tried[w.channel]

\* The dashboard dispatcher b shows what it is going to acknowledge, and what was.
BoardOK(b, done) ==
    /\ b.at \in {"snapshot", "publish", "ack"} => \E d \in Screens : b.pending[d] # {}
    /\ b.at = "publish" => \A d \in Screens : \A i \in done[d] \cup b.pending[d] : i <= b.view

\* What a stream shows last, when it is read to the end.
ShownLast(s) == IF s.queue = <<>> THEN s.latest ELSE s.queue[Len(s.queue)]

\* The rows that are acknowledged or about to be.
Promised(b, done, d) == done[d] \cup (IF b.at = "ack" THEN b.pending[d] ELSE {})

\* An open stream ends with all of them, also before its first snapshot is read.
BrowserOK(s, b, done) ==
    /\ s.at = "closed" => s.queue = <<>>
    /\ s.at = "live" \/ s.queue # <<>> =>
           \A d \in Screens : \A i \in Promised(b, done, d) : i <= ShownLast(s)

DeliveryInv ==
    /\ LogInv /\ DeliveryTypes(Len(log))
    /\ WorkerOK(worker, log, attempts) /\ AcknowledgedWasAttempted
    /\ BoardOK(board, acked) /\ BrowserOK(browser, board, acked)

-----------------------------------------------------------------------------
(* Facts about the records.                                                *)

\* A batch has a first row.
LEMMA MinExists ==
    ASSUME NEW S \in SUBSET Nat, S # {}
    PROVE  Min(S) \in S
<1>1. PICK m \in S : \A e \in S : ~(<<e, m>> \in OpToRel(<, Nat))
  BY NatLessThanWellFounded, WFMin, Zenon
<1>2. \A e \in S : ~(e < m)
  BY <1>1 DEF OpToRel
<1>3. \A e \in S : m <= e
  BY <1>2
<1>4. QED
  BY <1>3 DEF Min

\* What is read of the outbox are rows of the log.
LEMMA PendingAreRows ==
    ASSUME NEW d PROVE pending_outbox_for(d) \subseteq DOMAIN log
  BY DEF pending_outbox_for

\* Types of a longer log.
LEMMA TypesGrow ==
    ASSUME NEW n \in Nat, NEW m \in Nat, n <= m
    PROVE  /\ Workers(n) \subseteq Workers(m) /\ Boards(n) \subseteq Boards(m)
           /\ Browsers(n) \subseteq Browsers(m)
           /\ [Destinations -> SUBSET (1 .. n)] \subseteq [Destinations -> SUBSET (1 .. m)]
<1>1. 1 .. n \subseteq 1 .. m /\ 0 .. n \subseteq 0 .. m
  OBVIOUS
<1>2. SUBSET (1 .. n) \subseteq SUBSET (1 .. m)
  BY <1>1
<1>3. Seq(0 .. n) \subseteq Seq(0 .. m)
  BY <1>1, SeqMonotonic
<1>4. [Screens -> SUBSET (1 .. n)] \subseteq [Screens -> SUBSET (1 .. m)]
  BY <1>2
<1>5. Workers(n) \subseteq Workers(m)
  BY <1>2 DEF Workers
<1>6. Boards(n) \subseteq Boards(m)
  BY <1>1, <1>4 DEF Boards
<1>7. Browsers(n) \subseteq Browsers(m)
  BY <1>1, <1>3 DEF Browsers
<1>8. QED
  BY <1>2, <1>5, <1>6, <1>7

\* A delivery pass, a board delivery and a browser that start from nothing are
\* well typed and promise nothing that is not acknowledged.
LEMMA FreshRecords ==
    ASSUME NEW n \in Nat
    PROVE  /\ NewPass \in Workers(n) /\ NewDelivery \in Boards(n)
           /\ \A rows, tried : WorkerOK(NewPass, rows, tried)
           /\ \A done : BoardOK(NewDelivery, done)
           /\ \A done, d : Promised(NewDelivery, done, d) = done[d]
           /\ \A latest \in 0 .. n : Closed(latest) \in Browsers(n)
           /\ \A latest, b, done : BrowserOK(Closed(latest), b, done)
<1>1. NewPass \in Workers(n)
  BY DEF NewPass, Workers, Channels
<1>2. NewDelivery \in Boards(n)
  BY DEF NewDelivery, Boards
<1>3. <<>> \in Seq(0 .. n)
  OBVIOUS
<1>4. \A latest \in 0 .. n : Closed(latest) \in Browsers(n)
  BY <1>3 DEF Closed, Browsers
<1>5. QED
  BY <1>1, <1>2, <1>4 DEF NewPass, NewDelivery, Closed, WorkerOK, BoardOK, BrowserOK, Promised

\* The snapshot a sender broadcasts is the last an open stream shows.
LEMMA BroadcastShows ==
    ASSUME NEW n \in Nat, browser \in Browsers(n), NEW view \in 0 .. n
    PROVE  /\ Broadcast(view) \in Browsers(n)
           /\ browser.at = "closed" => Broadcast(view) = browser
           /\ browser.at # "closed" => /\ Broadcast(view).at # "closed"
                                       /\ ShownLast(Broadcast(view)) = view
<1> DEFINE q == browser.queue
<1>1. q \in Seq(0 .. n) /\ Len(q) \in Nat
  BY LenProperties DEF Browsers
<1>2. ASSUME NEW s \in Seq(0 .. n)
      PROVE  /\ Append(s, view) \in Seq(0 .. n)
             /\ Append(s, view) # <<>>
             /\ Append(s, view)[Len(Append(s, view))] = view
  BY AppendProperties, LenProperties
<1>3. CASE browser.at = "closed"
  BY <1>3 DEF Broadcast
<1>4. CASE browser.at # "closed" /\ Len(q) = LIVE_CAPACITY
  <2>1. Tail(q) \in Seq(0 .. n)
    <3>1. q # <<>>
      BY <1>1, <1>4, DeliveryAssumption
    <3>2. QED
      BY <1>1, <3>1, HeadTailProperties
  <2> DEFINE r == Append(Tail(q), view)
  <2>2. r \in Seq(0 .. n) /\ r # <<>> /\ r[Len(r)] = view
    BY <1>2, <2>1
  <2> HIDE DEF r
  <2>3. Broadcast(view) = [browser EXCEPT !.queue = r, !.lagged = TRUE]
    BY <1>4 DEF Broadcast, r
  <2>4. /\ Broadcast(view) \in Browsers(n) /\ Broadcast(view).at = browser.at
        /\ Broadcast(view).queue = r
    BY <2>2, <2>3 DEF Browsers
  <2>5. QED
    BY <1>4, <2>2, <2>4 DEF ShownLast
<1>5. CASE browser.at # "closed" /\ Len(q) # LIVE_CAPACITY
  <2> DEFINE r == Append(q, view)
  <2>2. r \in Seq(0 .. n) /\ r # <<>> /\ r[Len(r)] = view
    BY <1>1, <1>2
  <2> HIDE DEF r
  <2>3. Broadcast(view) = [browser EXCEPT !.queue = r]
    BY <1>5 DEF Broadcast, r
  <2>4. /\ Broadcast(view) \in Browsers(n) /\ Broadcast(view).at = browser.at
        /\ Broadcast(view).queue = r
    BY <2>2, <2>3 DEF Browsers
  <2>5. QED
    BY <1>5, <2>2, <2>4 DEF ShownLast
<1>6. QED
  BY <1>3, <1>4, <1>5

-----------------------------------------------------------------------------
(* The steps.                                                              *)

\* The invariant holds when the daemon first starts.
LEMMA InitDelivery == Init => DeliveryInv
<1> SUFFICES ASSUME Init PROVE DeliveryInv
  OBVIOUS
<1>1. LogInv /\ Len(log) = 0
  BY InitLog DEF Init, LogInit
<1>2. DeliveryTypes(Len(log))
  <2>1. acked \in [Destinations -> SUBSET (1 .. Len(log))] /\ attempts \in [Channels -> SUBSET EventId]
    BY DEF Init
  <2>2. Closed(0) \in Browsers(Len(log))
    BY <1>1, FreshRecords
  <2>3. QED
    BY <1>1, <2>1, <2>2, FreshRecords DEF Init, DeliveryTypes
<1>3. AcknowledgedWasAttempted
  BY DeliveryAssumption DEF Init, AcknowledgedWasAttempted, Destinations
<1>4. WorkerOK(worker, log, attempts) /\ BoardOK(board, acked) /\ BrowserOK(browser, board, acked)
  BY <1>1, FreshRecords DEF Init
<1>5. QED
  BY <1>1, <1>2, <1>3, <1>4 DEF DeliveryInv

\* A step of the log that leaves the dispatchers alone.
LEMMA WriteKeepsDelivery ==
    ASSUME DeliveryInv, Write \/ StoreFails \/ UNCHANGED logVars
    PROVE  /\ LogInv' /\ DeliveryTypes(Len(log')) /\ WorkerOK(worker, log', attempts)
           /\ \A c \in Endpoints : \A i \in acked[c] : log'[i].id \in attempts[c]
<1> DEFINE n == Len(log)
<1>1. /\ n \in Nat /\ Len(log') \in Nat /\ n <= Len(log')
      /\ \A i \in 1 .. n : log'[i] = log[i]
      /\ LogInv'
  BY LogSteps, LogGrows DEF DeliveryInv
<1>2. DeliveryTypes(n)
  BY DEF DeliveryInv
<1>3. DeliveryTypes(Len(log'))
  BY <1>1, <1>2, TypesGrow DEF DeliveryTypes
<1>4. worker.batch \subseteq 1 .. n
  BY <1>2 DEF DeliveryTypes, Workers
<1>5. worker.batch # {} => log'[Min(worker.batch)] = log[Min(worker.batch)]
  <2>1. worker.batch \subseteq Nat
    BY <1>1, <1>4
  <2>2. QED
    BY <1>1, <1>4, <2>1, MinExists
<1>6. WorkerOK(worker, log', attempts)
  BY <1>5 DEF DeliveryInv, WorkerOK
<1>7. \A c \in Endpoints : acked[c] \subseteq 1 .. n
  BY <1>2, DeliveryAssumption DEF DeliveryTypes, Destinations
<1>8. \A c \in Endpoints : \A i \in acked[c] : log'[i].id \in attempts[c]
  BY <1>1, <1>7 DEF DeliveryInv, AcknowledgedWasAttempted
<1>9. QED
  BY <1>1, <1>3, <1>6, <1>8

\* A step that changes neither the log nor what is acknowledged.
LEMMA WorkerKeeps ==
    ASSUME DeliveryInv, UNCHANGED <<logVars, acked, board, browser>>,
           attempts' \in [Channels -> SUBSET EventId],
           \A c \in Channels : attempts[c] \subseteq attempts'[c],
           worker' \in Workers(Len(log)), WorkerOK(worker', log, attempts')
    PROVE  DeliveryInv'
<1>1. log' = log /\ LogInv'
  BY LogSteps DEF DeliveryInv, logVars
<1>2. DeliveryTypes(Len(log))'
  BY <1>1 DEF DeliveryInv, DeliveryTypes
<1>3. AcknowledgedWasAttempted'
  BY <1>1, DeliveryAssumption DEF DeliveryInv, AcknowledgedWasAttempted
<1>4. QED
  BY <1>1, <1>2, <1>3 DEF DeliveryInv

\* The webhook dispatcher.
LEMMA DispatchKeeps ==
    ASSUME DeliveryInv, Dispatch
    PROVE  DeliveryInv'
<1> DEFINE n == Len(log)
           e == log[Min(worker.batch)].id
<1>1. /\ n \in Nat /\ DOMAIN log = 1 .. n /\ \A i \in 1 .. n : log[i].id \in EventId
  BY LogRows DEF DeliveryInv
<1>2. /\ worker \in Workers(n) /\ worker.channel \in Channels /\ worker.batch \subseteq 1 .. n
      /\ attempts \in [Channels -> SUBSET EventId]
      /\ acked \in [Destinations -> SUBSET (1 .. n)]
      /\ WorkerOK(worker, log, attempts)
  BY DEF DeliveryInv, DeliveryTypes, Workers
<1>3. worker.batch # {} => Min(worker.batch) \in worker.batch /\ e \in EventId
  <2>1. worker.batch \subseteq Nat
    BY <1>1, <1>2
  <2>2. QED
    BY <1>1, <1>2, <2>1, MinExists
<1>4. /\ NextChannel \in Workers(n)
      /\ \A tried : WorkerOK(NextChannel, log, tried)
  <2>1. NextChannel.at = "batch" /\ NextChannel \in Workers(n)
    BY <1>2 DEF NextChannel, NewPass, Workers, Channels
  <2>2. QED
    BY <2>1 DEF WorkerOK
<1>5. CASE ReadBatch
  <2> DEFINE batch == pending_outbox_for(worker.channel)
  <2>1. batch \subseteq 1 .. n
    BY <1>1, PendingAreRows
  <2> HIDE DEF batch
  <2>2. /\ worker' = IF batch = {} THEN NextChannel
                     ELSE [worker EXCEPT !.at = "entry", !.batch = batch]
        /\ UNCHANGED <<logVars, acked, attempts, board, browser>>
    BY <1>5 DEF ReadBatch, batch
  <2>3. worker' \in Workers(n)
    BY <1>2, <1>4, <2>1, <2>2 DEF Workers
  <2>4. WorkerOK(worker', log, attempts)
    BY <1>2, <1>4, <2>2 DEF WorkerOK, Workers
  <2>5. QED
    BY <1>2, <2>2, <2>3, <2>4, WorkerKeeps
<1>6. CASE CheckEntry
  <2>1. /\ worker.at = "entry" /\ worker.batch # {}
        /\ worker' = [worker EXCEPT !.at =
              IF e \in attempts[worker.channel] \/ worker.channel \notin Endpoints
              THEN "ack" ELSE "send"]
        /\ UNCHANGED <<logVars, acked, attempts, board, browser>>
    BY <1>2, <1>6 DEF CheckEntry, EventOfEntry, Entry, WorkerOK
  <2>2. worker' \in Workers(n)
    BY <1>2, <2>1 DEF Workers
  <2>3. WorkerOK(worker', log, attempts)
    BY <1>2, <2>1 DEF WorkerOK, Workers
  <2>4. QED
    BY <1>2, <2>1, <2>2, <2>3, WorkerKeeps
<1>7. CASE Send
  <2>1. /\ worker.at = "send" /\ worker' = [worker EXCEPT !.at = "record"]
        /\ UNCHANGED <<logVars, acked, attempts, board, browser>>
    BY <1>7 DEF Send
  <2>2. worker' \in Workers(n)
    BY <1>2, <2>1 DEF Workers
  <2>3. WorkerOK(worker', log, attempts)
    BY <1>2, <2>1 DEF WorkerOK, Workers
  <2>4. QED
    BY <1>2, <2>1, <2>2, <2>3, WorkerKeeps
<1>8. CASE RecordAttempt
  <2>1. /\ worker.at = "record" /\ worker.batch # {}
        /\ attempts' = [attempts EXCEPT ![worker.channel] = @ \cup {e}]
        /\ worker' = [worker EXCEPT !.at = "ack"]
        /\ UNCHANGED <<logVars, acked, board, browser>>
    BY <1>2, <1>8 DEF RecordAttempt, EventOfEntry, Entry, WorkerOK
  <2>2. worker' \in Workers(n) /\ worker'.batch = worker.batch /\ worker'.channel = worker.channel
        /\ worker'.at = "ack"
    BY <1>2, <2>1 DEF Workers
  <2>3. /\ attempts' \in [Channels -> SUBSET EventId]
        /\ \A c \in Channels : attempts[c] \subseteq attempts'[c]
        /\ e \in attempts'[worker.channel]
    BY <1>2, <1>3, <2>1
  <2>4. WorkerOK(worker', log, attempts')
    BY <2>1, <2>2, <2>3 DEF WorkerOK
  <2>5. QED
    BY <2>1, <2>2, <2>3, <2>4, WorkerKeeps
<1>9. CASE AcknowledgeEntry
  <2> DEFINE c == worker.channel
  <2>1. /\ worker.at = "ack" /\ worker.batch # {}
        /\ acked' = [acked EXCEPT ![c] = @ \cup {Min(worker.batch)}]
        /\ worker' = IF worker.batch = {Min(worker.batch)} THEN NextChannel
                     ELSE [worker EXCEPT !.at = "entry", !.batch = @ \ {Min(worker.batch)}]
        /\ UNCHANGED <<logVars, attempts, board, browser>>
    BY <1>2, <1>9 DEF AcknowledgeEntry, Proceed, Entry, WorkerOK
  <2>2. worker' \in Workers(n)
    BY <1>2, <1>4, <2>1 DEF Workers
  <2>3. WorkerOK(worker', log, attempts)
    BY <1>2, <1>3, <1>4, <2>1 DEF WorkerOK, Workers
  <2>4. c \in Channels /\ c \in Destinations /\ "Sse" \in Destinations /\ "Browser" \in Destinations
        /\ c # "Sse" /\ c # "Browser"
    BY <1>2 DEF Destinations, Channels, Screens
  <2>5. /\ acked' \in [Destinations -> SUBSET (1 .. n)]
        /\ \A d \in Screens : acked'[d] = acked[d]
        /\ \A d \in Destinations : acked'[d] = IF d = c THEN acked[d] \cup {Min(worker.batch)}
                                               ELSE acked[d]
    BY <1>2, <1>3, <2>1, <2>4 DEF Screens
  <2>6. log' = log /\ LogInv' /\ DeliveryTypes(Len(log))'
    BY <1>2, <2>1, <2>2, <2>5, LogSteps DEF DeliveryInv, DeliveryTypes, logVars
  <2>7. AcknowledgedWasAttempted'
    <3>1. ASSUME NEW k \in Endpoints, NEW i \in acked'[k] PROVE log[i].id \in attempts[k]
      <4>1. k \in Destinations
        BY <3>1, DeliveryAssumption DEF Destinations
      <4>2. CASE i \in acked[k]
        BY <3>1, <4>2 DEF DeliveryInv, AcknowledgedWasAttempted
      <4>3. CASE i \notin acked[k]
        <5>1. k = c /\ i = Min(worker.batch)
          BY <2>5, <3>1, <4>1, <4>3
        <5>2. QED
          BY <1>2, <2>1, <3>1, <5>1 DEF WorkerOK
      <4>4. QED
        BY <4>2, <4>3
    <3>2. QED
      BY <2>1, <2>6, <3>1 DEF AcknowledgedWasAttempted
  <2>8. BoardOK(board, acked')
    BY <2>5 DEF DeliveryInv, BoardOK
  <2>9. BrowserOK(browser, board, acked')
    BY <2>5 DEF DeliveryInv, BrowserOK, Promised
  <2>10. QED
    BY <2>1, <2>3, <2>6, <2>7, <2>8, <2>9 DEF DeliveryInv
<1>10. QED
  BY <1>5, <1>6, <1>7, <1>8, <1>9 DEF Dispatch

\* A step of the dashboard dispatcher or the browser that acknowledges nothing.
LEMMA ShowKeeps ==
    ASSUME DeliveryInv, UNCHANGED <<logVars, acked, attempts, worker>>,
           board' \in Boards(Len(log)), browser' \in Browsers(Len(log)),
           BoardOK(board', acked), BrowserOK(browser', board', acked)
    PROVE  DeliveryInv'
<1>1. log' = log /\ LogInv'
  BY LogSteps DEF DeliveryInv, logVars
<1>2. DeliveryTypes(Len(log))'
  BY <1>1 DEF DeliveryInv, DeliveryTypes
<1>3. AcknowledgedWasAttempted'
  BY <1>1 DEF DeliveryInv, AcknowledgedWasAttempted
<1>4. QED
  BY <1>1, <1>2, <1>3 DEF DeliveryInv

\* The facts the next lemmas start from.
LEMMA ShowTypes ==
    ASSUME DeliveryInv
    PROVE  /\ Len(log) \in Nat /\ DOMAIN log = 1 .. Len(log)
           /\ board \in Boards(Len(log)) /\ browser \in Browsers(Len(log))
           /\ board.pending \in [Screens -> SUBSET (1 .. Len(log))]
           /\ acked \in [Destinations -> SUBSET (1 .. Len(log))]
           /\ \A d \in Screens : acked[d] \subseteq 1 .. Len(log)
           /\ BoardOK(board, acked) /\ BrowserOK(browser, board, acked)
<1>1. board \in Boards(Len(log)) /\ acked \in [Destinations -> SUBSET (1 .. Len(log))]
  BY DEF DeliveryInv, DeliveryTypes
<1>2. \A d \in Screens : d \in Destinations
  BY DEF Destinations
<1>3. board.pending \in [Screens -> SUBSET (1 .. Len(log))]
  BY <1>1 DEF Boards
<1>4. QED
  BY <1>1, <1>2, <1>3, LogRows DEF DeliveryInv, DeliveryTypes

\* A dispatcher that does not acknowledge promises no more than is acknowledged.
LEMMA PromiseKept ==
    ASSUME NEW s, NEW b, NEW c, NEW done, BrowserOK(s, b, done),
           \A d \in Screens : Promised(c, done, d) \subseteq Promised(b, done, d)
    PROVE  BrowserOK(s, c, done)
  BY DEF BrowserOK

\* The dashboard dispatcher.
LEMMA DeliverKeeps ==
    ASSUME DeliveryInv, Deliver
    PROVE  DeliveryInv'
<1> DEFINE n == Len(log)
<1>1. /\ n \in Nat /\ DOMAIN log = 1 .. n /\ board \in Boards(n) /\ browser \in Browsers(n)
      /\ board.pending \in [Screens -> SUBSET (1 .. n)]
      /\ acked \in [Destinations -> SUBSET (1 .. n)]
      /\ \A d \in Screens : acked[d] \subseteq 1 .. n
      /\ BoardOK(board, acked) /\ BrowserOK(browser, board, acked)
  BY ShowTypes
<1> HIDE DEF n
<1>2. \A d \in Screens : Reading(d) \in [Screens -> SUBSET (1 .. n)]
  BY <1>1, PendingAreRows DEF Reading
<1>3. CASE ReadSse
  <2> DEFINE more == Reading("Sse")
  <2>1. more \in [Screens -> SUBSET (1 .. n)]
    BY <1>2 DEF Screens
  <2> HIDE DEF more
  <2>2. /\ board.at = "sse" /\ board' = [board EXCEPT !.at = "browser", !.pending = more]
        /\ UNCHANGED <<logVars, acked, attempts, worker, browser>>
    BY <1>3 DEF ReadSse, more
  <2>3. board' \in Boards(n) /\ board'.at = "browser"
    BY <1>1, <2>1, <2>2 DEF Boards
  <2>4. BoardOK(board', acked) /\ BrowserOK(browser, board', acked)
    BY <1>1, <2>3, PromiseKept DEF BoardOK, Promised
  <2>5. QED
    BY <1>1, <2>2, <2>3, <2>4, ShowKeeps DEF n
<1>4. CASE ReadBrowser
  <2> DEFINE more == Reading("Browser")
  <2>1. more \in [Screens -> SUBSET (1 .. n)]
    BY <1>2 DEF Screens
  <2> HIDE DEF more
  <2>2. /\ board.at = "browser"
        /\ board' = IF \A d \in Screens : more[d] = {} THEN NewDelivery
                    ELSE [board EXCEPT !.at = "snapshot", !.pending = more]
        /\ UNCHANGED <<logVars, acked, attempts, worker, browser>>
    BY <1>4 DEF ReadBrowser, more
  <2>3. CASE \A d \in Screens : more[d] = {}
    <3>1. board' = NewDelivery
      BY <2>2, <2>3
    <3>2. board' \in Boards(n) /\ BoardOK(board', acked) /\ BrowserOK(browser, board', acked)
      BY <1>1, <3>1, FreshRecords, PromiseKept DEF Promised
    <3>3. QED
      BY <1>1, <2>2, <3>2, ShowKeeps DEF n
  <2>4. CASE ~ \A d \in Screens : more[d] = {}
    <3>1. board' \in Boards(n) /\ board'.at = "snapshot" /\ board'.pending = more
      BY <1>1, <2>1, <2>2, <2>4 DEF Boards
    <3>2. BoardOK(board', acked) /\ BrowserOK(browser, board', acked)
      BY <1>1, <2>4, <3>1, PromiseKept DEF BoardOK, Promised
    <3>3. QED
      BY <1>1, <2>2, <3>1, <3>2, ShowKeeps DEF n
  <2>5. QED
    BY <2>3, <2>4
<1>5. CASE ReadSnapshot
  <2>1. /\ board.at = "snapshot" /\ board' = [board EXCEPT !.at = "publish", !.view = n]
        /\ UNCHANGED <<logVars, acked, attempts, worker, browser>>
    BY <1>5 DEF ReadSnapshot, n
  <2>2. /\ board' \in Boards(n) /\ board'.at = "publish" /\ board'.view = n
        /\ board'.pending = board.pending
    <3>1. n \in 0 .. n
      BY <1>1
    <3>2. board' \in Boards(n)
      BY <1>1, <2>1, <3>1 DEF Boards
    <3>3. QED
      BY <1>1, <2>1, <3>2 DEF Boards
  <2>3. \A d \in Screens : acked[d] \cup board.pending[d] \subseteq 1 .. n
    BY <1>1
  <2>4. \A d \in Screens : \A i \in acked[d] \cup board.pending[d] : i <= n
    BY <1>1, <2>3
  <2>5. BoardOK(board', acked) /\ BrowserOK(browser, board', acked)
    BY <1>1, <2>1, <2>2, <2>4, PromiseKept, ZenonT(40) DEF BoardOK, Promised
  <2>6. QED
    BY <1>1, <2>1, <2>2, <2>5, ShowKeeps DEF n
<1>6. CASE Publish
  <2>1. /\ board.at = "publish" /\ browser' = Broadcast(board.view)
        /\ board' = [board EXCEPT !.at = "ack", !.view = 0]
        /\ UNCHANGED <<logVars, acked, attempts, worker>>
    BY <1>6 DEF Publish
  <2>2. /\ board' \in Boards(n) /\ board'.at = "ack" /\ board'.pending = board.pending
        /\ board.view \in 0 .. n
    <3>1. 0 \in 0 .. n
      BY <1>1
    <3>2. board' \in Boards(n)
      BY <1>1, <2>1, <3>1 DEF Boards
    <3>3. QED
      BY <1>1, <2>1, <3>2 DEF Boards
  <2>3. \A d \in Screens : \A i \in Promised(board', acked, d) : i <= board.view
    BY <1>1, <2>1, <2>2 DEF BoardOK, Promised
  <2>4. BoardOK(board', acked)
    BY <1>1, <2>1, <2>2 DEF BoardOK
  <2>5. /\ browser' \in Browsers(n)
        /\ browser.at = "closed" => browser' = browser
        /\ browser.at # "closed" => browser'.at # "closed" /\ ShownLast(browser') = board.view
    BY <1>1, <2>1, <2>2, BroadcastShows
  <2>6. BrowserOK(browser', board', acked)
    <3>1. CASE browser.at = "closed"
      BY <1>1, <2>5, <3>1 DEF BrowserOK
    <3>2. CASE browser.at # "closed"
      BY <2>3, <2>5, <3>2 DEF BrowserOK
    <3>3. QED
      BY <3>1, <3>2
  <2>7. QED
    BY <2>1, <2>2, <2>4, <2>5, <2>6, ShowKeeps DEF n
<1>7. CASE AcknowledgeShown
  <2> DEFINE p == board.pending
             screen == IF p["Sse"] # {} THEN "Sse" ELSE "Browser"
             first == Min(p[screen])
             rest == [p EXCEPT ![screen] = @ \ {first}]
  <2>1. /\ board.at = "ack" /\ acked' = [acked EXCEPT ![screen] = @ \cup {first}]
        /\ board' = IF \A d \in Screens : rest[d] = {} THEN NewDelivery
                    ELSE [board EXCEPT !.pending = rest]
        /\ UNCHANGED <<logVars, attempts, worker, browser>>
    BY <1>7 DEF AcknowledgeShown
  <2>2. screen \in Screens /\ screen \in Destinations /\ p[screen] # {}
    BY <1>1, <2>1 DEF BoardOK, Screens, Destinations
  <2>3. p \in [Screens -> SUBSET (1 .. n)] /\ first \in p[screen]
    <3>1. p[screen] \subseteq Nat
      BY <1>1, <2>2
    <3>2. QED
      BY <1>1, <2>2, <3>1, MinExists
  <2> HIDE DEF p, first, screen
  <2>4. /\ rest \in [Screens -> SUBSET (1 .. n)]
        /\ \A d \in Screens : rest[d] \subseteq p[d]
    BY <2>2, <2>3
  <2> HIDE DEF rest
  <2>5. /\ acked' \in [Destinations -> SUBSET (1 .. n)]
        /\ \A d \in Destinations : acked'[d] = IF d = screen THEN acked[d] \cup {first} ELSE acked[d]
    BY <1>1, <2>1, <2>2, <2>3
  <2>6. board' \in Boards(n) /\ BoardOK(board', acked')
    <3>1. CASE \A d \in Screens : rest[d] = {}
      BY <1>1, <2>1, <3>1, FreshRecords
    <3>2. CASE ~ \A d \in Screens : rest[d] = {}
      <4>1. board' \in Boards(n) /\ board'.at = "ack" /\ board'.pending = rest
        BY <1>1, <2>1, <2>4, <3>2 DEF Boards
      <4>2. QED
        BY <3>2, <4>1 DEF BoardOK
    <3>3. QED
      BY <3>1, <3>2
  <2>7. \A d \in Screens : Promised(board', acked', d) \subseteq Promised(board, acked, d)
    <3>1. ASSUME NEW d \in Screens PROVE acked'[d] \subseteq Promised(board, acked, d)
      <4>1. d \in Destinations
        BY DEF Destinations
      <4>2. QED
        BY <2>1, <2>3, <2>5, <4>1 DEF Promised, p
    <3>2. CASE \A d \in Screens : rest[d] = {}
      BY <1>1, <2>1, <3>1, <3>2, FreshRecords
    <3>3. CASE ~ \A d \in Screens : rest[d] = {}
      <4>1. board'.at = "ack" /\ board'.pending = rest
        BY <1>1, <2>1, <2>4, <3>3 DEF Boards
      <4>2. \A d \in Screens : rest[d] \subseteq Promised(board, acked, d)
        BY <2>1, <2>4 DEF Promised, p
      <4>3. QED
        BY <3>1, <4>1, <4>2 DEF Promised
    <3>4. QED
      BY <3>2, <3>3
  <2>8. BrowserOK(browser, board', acked')
    BY <1>1, <2>7 DEF BrowserOK
  <2>9. log' = log /\ LogInv' /\ DeliveryTypes(Len(log))'
    BY <2>1, <2>5, <2>6, LogSteps DEF DeliveryInv, DeliveryTypes, logVars, n
  <2>10. AcknowledgedWasAttempted'
    <3>1. \A c \in Endpoints : c \in Destinations /\ c # screen
      BY <2>2, DeliveryAssumption DEF Destinations, Channels, Screens
    <3>2. QED
      BY <2>1, <2>5, <2>9, <3>1 DEF DeliveryInv, AcknowledgedWasAttempted
  <2>11. QED
    BY <2>1, <2>6, <2>8, <2>9, <2>10 DEF DeliveryInv
<1>8. QED
  BY <1>3, <1>4, <1>5, <1>6, <1>7 DEF Deliver

\* The browser.
LEMMA BrowserKeeps ==
    ASSUME DeliveryInv, Subscribe \/ ReadInitial \/ Receive \/ Disconnect
    PROVE  DeliveryInv'
<1> DEFINE n == Len(log)
<1>1. /\ n \in Nat /\ board \in Boards(n) /\ browser \in Browsers(n)
      /\ board.pending \in [Screens -> SUBSET (1 .. n)]
      /\ \A d \in Screens : acked[d] \subseteq 1 .. n
      /\ BoardOK(board, acked) /\ BrowserOK(browser, board, acked)
  BY ShowTypes
<1>2. /\ browser.queue \in Seq(0 .. n) /\ Len(browser.queue) \in Nat /\ browser.latest \in 0 .. n
  BY <1>1, LenProperties DEF Browsers
<1> HIDE DEF n
<1>3. UNCHANGED <<logVars, acked, attempts, worker, board>>
  BY DEF Subscribe, ReadInitial, Receive, Disconnect
<1>4. Closed(browser.latest) \in Browsers(n) /\ BrowserOK(Closed(browser.latest), board, acked)
  BY <1>1, <1>2, FreshRecords
<1>5. CASE Subscribe
  <2>1. browser.at = "closed" /\ browser' = [browser EXCEPT !.at = "subscribed"]
    BY <1>5 DEF Subscribe
  <2>2. browser' \in Browsers(n) /\ browser'.at = "subscribed" /\ browser'.queue = browser.queue
    BY <1>1, <2>1 DEF Browsers
  <2>3. BrowserOK(browser', board, acked)
    BY <1>1, <2>1, <2>2 DEF BrowserOK
  <2>4. QED
    BY <1>1, <1>3, <2>2, <2>3, ShowKeeps DEF n
<1>6. CASE ReadInitial
  <2>1. browser' = [browser EXCEPT !.at = "live", !.latest = n]
    BY <1>6 DEF ReadInitial, n
  <2>2. /\ browser' \in Browsers(n) /\ browser'.at = "live" /\ browser'.queue = browser.queue
        /\ browser'.latest = n
    <3>1. n \in 0 .. n
      BY <1>1
    <3>2. browser' \in Browsers(n)
      BY <1>1, <2>1, <3>1 DEF Browsers
    <3>3. QED
      BY <1>1, <2>1, <3>2 DEF Browsers
  <2>3. \A d \in Screens : \A i \in Promised(board, acked, d) : i <= n
    <3>1. \A d \in Screens : Promised(board, acked, d) \subseteq 1 .. n
      BY <1>1 DEF Promised
    <3>2. QED
      BY <1>1, <3>1
  <2>4. BrowserOK(browser', board, acked)
    BY <1>1, <2>2, <2>3 DEF BrowserOK, ShownLast
  <2>5. QED
    BY <1>1, <1>3, <2>2, <2>4, ShowKeeps DEF n
<1>7. CASE Receive
  <2>1. CASE browser.lagged
    BY <1>1, <1>3, <1>4, <1>7, <2>1, ShowKeeps DEF Receive, n
  <2>2. CASE ~browser.lagged
    <3> DEFINE q == browser.queue
    <3>1. /\ browser.at = "live" /\ q # <<>>
          /\ browser' = [browser EXCEPT !.latest = Head(q), !.queue = Tail(q)]
      BY <1>7, <2>2 DEF Receive
    <3>2. /\ Head(q) \in 0 .. n /\ Tail(q) \in Seq(0 .. n) /\ Len(Tail(q)) = Len(q) - 1
          /\ Head(q) = q[1] /\ \A i \in 1 .. Len(Tail(q)) : Tail(q)[i] = q[i + 1]
      <4>1. /\ Head(q) \in 0 .. n /\ Tail(q) \in Seq(0 .. n) /\ Len(Tail(q)) = Len(q) - 1
            /\ \A i \in 1 .. Len(Tail(q)) : Tail(q)[i] = q[i + 1]
        BY <1>2, <3>1, HeadTailProperties, Zenon
      <4>2. Head(q) = q[1]
        BY <1>2, <3>1
      <4>3. QED
        BY <4>1, <4>2
    <3>3. Len(q) \in Nat /\ Len(q) # 0
      BY <1>2, <3>1, EmptySeq
    <3>4. ShownLast(browser) = q[Len(q)]
      BY <3>1 DEF ShownLast
    <3> HIDE DEF q
    <3>5. /\ browser' \in Browsers(n) /\ browser'.at = "live" /\ browser'.latest = Head(q)
          /\ browser'.queue = Tail(q)
      BY <1>1, <3>1, <3>2 DEF Browsers, q
    <3>6. ShownLast(browser') = ShownLast(browser)
      <4>1. CASE Tail(q) = <<>>
        <5>1. Len(q) = 1
          <6> DEFINE t == Tail(q)
          <6>1. Len(t) = Len(q) - 1 /\ t = <<>>
            BY <3>2, <4>1
          <6> HIDE DEF t
          <6>2. Len(t) = 0
            BY <6>1
          <6>3. QED
            BY <3>3, <6>1, <6>2
        <5>2. QED
          BY <3>2, <3>4, <3>5, <4>1, <5>1 DEF ShownLast
      <4>2. CASE Tail(q) # <<>>
        <5>1. Len(Tail(q)) \in 1 .. Len(Tail(q)) /\ Len(Tail(q)) + 1 = Len(q)
          BY <3>2, <3>3, <4>2, EmptySeq
        <5>2. QED
          BY <3>2, <3>4, <3>5, <4>2, <5>1 DEF ShownLast
      <4>3. QED
        BY <4>1, <4>2
    <3>7. BrowserOK(browser', board, acked)
      BY <1>1, <3>1, <3>5, <3>6 DEF BrowserOK
    <3>8. QED
      BY <1>1, <1>3, <3>5, <3>7, ShowKeeps DEF n
  <2>3. QED
    BY <2>1, <2>2
<1>8. CASE Disconnect
  BY <1>1, <1>3, <1>4, <1>8, ShowKeeps DEF Disconnect, n
<1>9. QED
  BY <1>5, <1>6, <1>7, <1>8

\* The server stops and starts again.
LEMMA RestartKeepsDelivery ==
    ASSUME DeliveryInv, Restart
    PROVE  DeliveryInv'
<1>1. /\ worker' = NewPass /\ board' = NewDelivery /\ browser' = Closed(browser.latest)
      /\ log' = log /\ acked' = acked /\ attempts' = attempts /\ LogInv'
  BY LogSteps DEF Restart, LogRestart, DeliveryInv
<1>2. Len(log) \in Nat /\ browser.latest \in 0 .. Len(log)
  BY ShowTypes DEF Browsers
<1>3. DeliveryTypes(Len(log))'
  BY <1>1, <1>2, FreshRecords DEF DeliveryInv, DeliveryTypes
<1>4. /\ WorkerOK(worker', log', attempts') /\ BoardOK(board', acked')
      /\ BrowserOK(browser', board', acked')
  BY <1>1, <1>2, FreshRecords
<1>5. AcknowledgedWasAttempted'
  BY <1>1 DEF DeliveryInv, AcknowledgedWasAttempted
<1>6. QED
  BY <1>1, <1>3, <1>4, <1>5 DEF DeliveryInv

\* A step of the log after which each dispatcher is where it was or starts over.
LEMMA StartOverKeepsDelivery ==
    ASSUME DeliveryInv, Write \/ StoreFails \/ UNCHANGED logVars,
           UNCHANGED <<acked, attempts, browser>>,
           worker' \in {worker, NewPass}, board' \in {board, NewDelivery}
    PROVE  DeliveryInv'
<1>1. /\ LogInv' /\ DeliveryTypes(Len(log')) /\ WorkerOK(worker, log', attempts)
      /\ \A c \in Endpoints : \A i \in acked[c] : log'[i].id \in attempts[c]
  BY WriteKeepsDelivery
<1>2. Len(log') \in Nat
  BY LogGrows DEF DeliveryInv
<1>3. DeliveryTypes(Len(log))'
  BY <1>1, <1>2, FreshRecords DEF DeliveryTypes
<1>4. WorkerOK(worker', log', attempts')
  BY <1>1, <1>2, FreshRecords
<1>5. BoardOK(board', acked') /\ BrowserOK(browser', board', acked')
  <2>1. BoardOK(board, acked) /\ BrowserOK(browser, board, acked)
    BY DEF DeliveryInv
  <2>2. BoardOK(NewDelivery, acked) /\ BrowserOK(browser, NewDelivery, acked)
    BY <1>2, <2>1, FreshRecords, PromiseKept DEF Promised
  <2>3. QED
    BY <2>1, <2>2
<1>6. AcknowledgedWasAttempted'
  BY <1>1 DEF AcknowledgedWasAttempted
<1>7. QED
  BY <1>1, <1>3, <1>4, <1>5, <1>6 DEF DeliveryInv

\* Every step keeps the invariant.
LEMMA DeliverySteps ==
    ASSUME DeliveryInv, [Next]_vars
    PROVE  DeliveryInv'
<1>1. CASE WriteEvents
  BY <1>1, StartOverKeepsDelivery DEF WriteEvents, deliveryVars
<1>2. CASE DispatchFails
  BY <1>2, StartOverKeepsDelivery DEF DispatchFails
<1>3. CASE DeliveryFails
  BY <1>3, StartOverKeepsDelivery DEF DeliveryFails
<1>4. CASE UNCHANGED vars
  BY <1>4, StartOverKeepsDelivery DEF vars, deliveryVars
<1>5. QED
  BY <1>1, <1>2, <1>3, <1>4, RestartKeepsDelivery, DispatchKeeps, DeliverKeeps, BrowserKeeps
  DEF Next

-----------------------------------------------------------------------------
(* The theorems.                                                           *)

\* The invariant of the delivery: the log, both dispatchers and the stream.
THEOREM DeliveryInvariant == Spec => []DeliveryInv
<1>1. Init => DeliveryInv
  BY InitDelivery
<1>2. DeliveryInv /\ [Next]_vars => DeliveryInv'
  BY DeliverySteps
<1>3. QED
  BY <1>1, <1>2, PTL DEF Spec

\* Type correctness of the outbox, the dispatchers and the browser.
THEOREM DeliveryTypeCorrect == Spec => []TypeOK
<1>1. DeliveryInv => TypeOK
  <2> SUFFICES ASSUME DeliveryInv PROVE TypeOK
    OBVIOUS
  <2>1. DOMAIN log = 1 .. Len(log) /\ LogTypeOK /\ DeliveryTypes(Len(log))
    BY LogRows DEF DeliveryInv, LogInv
  <2>2. QED
    BY <2>1 DEF TypeOK, DeliveryTypes, Workers, Boards, Browsers
<1>2. QED
  BY <1>1, DeliveryInvariant, PTL

\* A configured webhook's entry is acknowledged only with an attempt on record,
\* whatever fails and whenever the server stops (deliver_entry).
THEOREM AttemptedBeforeAcknowledged == Spec => []AcknowledgedWasAttempted
<1>1. DeliveryInv => AcknowledgedWasAttempted
  BY DEF DeliveryInv
<1>2. QED
  BY <1>1, DeliveryInvariant, PTL

\* No attempt on record is made again, also not after a failed acknowledgement
\* or a restart between the two (deliver_entry).
THEOREM OneAttempt == Spec => AttemptNotRepeated
<1>1. DeliveryInv /\ [Next]_vars =>
        [worker.at = "send" /\ worker'.at = "record"
         => EventOfEntry \notin attempts[worker.channel]]_vars
  BY DEF DeliveryInv, WorkerOK, EventOfEntry, Entry
<1>2. QED
  BY <1>1, DeliveryInvariant, PTL DEF Spec, AttemptNotRepeated

\* What is acknowledged for the dashboard is in what every open stream shows
\* last, whenever it subscribed: before, while or after the snapshot was
\* published (deliver_pending, events).
THEOREM AcknowledgedReachesStreams == Spec => []AcknowledgedIsShown
<1>1. DeliveryInv => AcknowledgedIsShown
  BY DEF DeliveryInv, BrowserOK, Promised, AcknowledgedIsShown, FinallyShown, ShownLast
<1>2. QED
  BY <1>1, DeliveryInvariant, PTL

(***************************************************************************)
(* Correlation: for any parents, bases, trusts, confidences and policy, an *)
(* explicit link decides and an inferred parent has no close rival.        *)
(***************************************************************************)

\* A finite, non-empty set has an element that a strict order puts below no other.
LEMMA FiniteHasTop ==
    ASSUME NEW S, IsFiniteSet(S), S # {}, NEW R,
           \A x \in S : <<x, x>> \notin R,
           \A x, y, z \in S : <<x, y>> \in R /\ <<y, z>> \in R => <<x, z>> \in R
    PROVE  \E x \in S : \A y \in S : <<x, y>> \notin R
<1> DEFINE Above(x) == {y \in S : <<x, y>> \in R}
           N == {Cardinality(Above(x)) : x \in S}
<1>1. \A x \in S : IsFiniteSet(Above(x)) /\ Cardinality(Above(x)) \in Nat
  <2>1. TAKE x \in S
  <2>2. Above(x) \in SUBSET S
    OBVIOUS
  <2>3. IsFiniteSet(Above(x))
    <3> HIDE DEF Above
    <3>1. QED
      BY <2>2, FS_Subset
  <2>4. QED
    <3> HIDE DEF Above
    <3>1. QED
      BY <2>3, FS_CardinalityType
<1>2. N \subseteq Nat /\ N # {}
  <2> HIDE DEF Above
  <2>1. QED
    BY <1>1
<1>3. PICK n \in N : \A m \in N : ~(<<m, n>> \in OpToRel(<, Nat))
  <2> HIDE DEF N
  <2>1. QED
    BY <1>2, NatLessThanWellFounded, WFMin, Zenon
<1>4. PICK x \in S : n = Cardinality(Above(x))
  OBVIOUS
<1>5. SUFFICES ASSUME NEW y \in S, <<x, y>> \in R PROVE FALSE
  OBVIOUS
<1>6. Above(y) \in SUBSET Above(x) /\ y \in Above(x) /\ y \notin Above(y)
  BY <1>5
<1>7. Cardinality(Above(y)) < Cardinality(Above(x))
  <2>1. Above(y) # Above(x)
    BY <1>6
  <2>2. Cardinality(Above(y)) <= Cardinality(Above(x)) /\ Cardinality(Above(y)) # Cardinality(Above(x))
    <3> HIDE DEF Above
    <3>1. QED
      BY <1>1, <1>6, <2>1, FS_Subset
  <2>3. Cardinality(Above(x)) \in Nat /\ Cardinality(Above(y)) \in Nat
    BY <1>1
  <2>4. QED
    BY <2>2, <2>3
<1>8. Cardinality(Above(y)) \in N
  OBVIOUS
<1>9. QED
  <2> HIDE DEF Above, N
  <2>1. QED
    BY <1>1, <1>2, <1>3, <1>4, <1>7, <1>8 DEF OpToRel

-----------------------------------------------------------------------------

\* What candidates are made of.
LEMMA CandidateFields ==
    ASSUME NEW c \in Candidate
    PROVE  /\ c.parent \in Nat /\ c.parent \in Parents /\ c.confidence \in Nat
           /\ rank[c.basis] \in 1 .. 6 /\ trust_rank[c.trust] \in 0 .. 3
           /\ is_explicit(c) <=> rank[c.basis] > 4
           /\ c.basis \in DOMAIN rank /\ c.trust \in DOMAIN trust_rank
<1>1. /\ c.parent \in Parents /\ c.confidence \in Confidences
      /\ c.basis \in Bases /\ c.trust \in Trusts
  BY DEF Candidate
<1>2. /\ DOMAIN rank = {"WeakHeuristic", "TranscriptReference", "UniqueWorktree",
                        "ProcessAncestry", "McpRegistration", "ExactNative"}
      /\ DOMAIN trust_rank = {"Uncertain", "Heuristic", "Corroborating", "Authoritative"}
  BY DEF rank, trust_rank
<1>3. c.basis \in DOMAIN rank /\ c.trust \in DOMAIN trust_rank
  BY <1>1, CorrelationAssumption
<1>4. rank[c.basis] \in 1 .. 6 /\ (is_explicit(c) <=> rank[c.basis] > 4)
  BY <1>2, <1>3 DEF rank, is_explicit
<1>5. trust_rank[c.trust] \in 0 .. 3
  BY <1>2, <1>3 DEF trust_rank
<1>6. QED
  BY <1>1, <1>3, <1>4, <1>5, CorrelationAssumption

\* The ranks tell bases, and trusts, apart.
LEMMA RanksInjective ==
    /\ \A b, d \in DOMAIN rank : rank[b] = rank[d] => b = d
    /\ \A t, u \in DOMAIN trust_rank : trust_rank[t] = trust_rank[u] => t = u
BY DEF rank, trust_rank

\* compare_candidate is the lexicographic order of basis, trust, confidence and identity.
LEMMA CompareIsLexicographic ==
    ASSUME NEW a \in Candidate, NEW b \in Candidate
    PROVE  compare_candidate(a, b) <=>
             \/ rank[a.basis] < rank[b.basis]
             \/ /\ rank[a.basis] = rank[b.basis]
                /\ \/ trust_rank[a.trust] < trust_rank[b.trust]
                   \/ /\ trust_rank[a.trust] = trust_rank[b.trust]
                      /\ \/ a.confidence < b.confidence
                         \/ a.confidence = b.confidence /\ b.parent < a.parent
<1> DEFINE s == <<rank[a.basis], trust_rank[a.trust], a.confidence, b.parent>>
           t == <<rank[b.basis], trust_rank[b.trust], b.confidence, a.parent>>
           Here(i) == s[i] < t[i] /\ \A j \in 1 .. (i - 1) : s[j] = t[j]
<1>1. compare_candidate(a, b) <=> \E i \in 1 .. 4 : Here(i)
  BY DEF compare_candidate, Precedes
<1>2. 1 .. 4 = {1, 2, 3, 4}
  OBVIOUS
<1>3. compare_candidate(a, b) <=> Here(1) \/ Here(2) \/ Here(3) \/ Here(4)
  <2> HIDE DEF Here
  <2>1. QED
    BY <1>1, <1>2
<1>4. 1 .. 0 = {} /\ 1 .. 1 = {1} /\ 1 .. 2 = {1, 2} /\ 1 .. 3 = {1, 2, 3}
  OBVIOUS
<1>5. Here(1) <=> s[1] < t[1]
  BY <1>4
<1>6. Here(2) <=> s[2] < t[2] /\ s[1] = t[1]
  BY <1>4
<1>7. Here(3) <=> s[3] < t[3] /\ s[1] = t[1] /\ s[2] = t[2]
  BY <1>4
<1>8. Here(4) <=> s[4] < t[4] /\ s[1] = t[1] /\ s[2] = t[2] /\ s[3] = t[3]
  BY <1>4
<1>9. QED
  BY <1>3, <1>5, <1>6, <1>7, <1>8

\* It is a strict order, and decides between candidates of two parents.
LEMMA CompareOrders ==
    /\ \A a \in Candidate : ~compare_candidate(a, a)
    /\ \A a, b, c \in Candidate :
          compare_candidate(a, b) /\ compare_candidate(b, c) => compare_candidate(a, c)
    /\ \A a, b \in Candidate :
          a.parent # b.parent => compare_candidate(a, b) \/ compare_candidate(b, a)
    /\ \A a, b \in Candidate : compare_candidate(a, b) => ~compare_candidate(b, a)
<1>1. \A a \in Candidate : ~compare_candidate(a, a)
  BY CandidateFields, CompareIsLexicographic
<1>2. ASSUME NEW a \in Candidate, NEW b \in Candidate, NEW c \in Candidate,
             compare_candidate(a, b), compare_candidate(b, c)
      PROVE  compare_candidate(a, c)
  BY <1>2, CandidateFields, CompareIsLexicographic
<1>3. ASSUME NEW a \in Candidate, NEW b \in Candidate, a.parent # b.parent
      PROVE  compare_candidate(a, b) \/ compare_candidate(b, a)
  BY <1>3, CandidateFields, CompareIsLexicographic
<1>4. ASSUME NEW a \in Candidate, NEW b \in Candidate, compare_candidate(a, b)
      PROVE  ~compare_candidate(b, a)
  BY <1>4, CandidateFields, CompareIsLexicographic
<1>5. QED
  BY <1>1, <1>2, <1>3, <1>4

\* So some of finitely many candidates ranks below none of them.
LEMMA TopCandidate ==
    ASSUME NEW S \in SUBSET Candidate, IsFiniteSet(S), S # {}
    PROVE  \E c \in S : \A d \in S : ~compare_candidate(c, d)
<1> DEFINE R == {p \in S \X S : compare_candidate(p[1], p[2])}
<1>1. \A x, y \in S : <<x, y>> \in R <=> compare_candidate(x, y)
  OBVIOUS
<1>2. \E x \in S : \A y \in S : <<x, y>> \notin R
  <2>1. \A x \in S : <<x, x>> \notin R
    BY <1>1, CompareOrders
  <2>2. \A x, y, z \in S : <<x, y>> \in R /\ <<y, z>> \in R => <<x, z>> \in R
    <3> HIDE DEF R
    <3>1. QED
      BY <1>1, CompareOrders
  <2>3. QED
    <3> HIDE DEF R
    <3>1. QED
      BY <2>1, <2>2, FiniteHasTop
<1>3. QED
  <2> HIDE DEF R
  <2>1. QED
    BY <1>1, <1>2

\* best_by_parent picks a candidate of the parent that no other of it outranks.
LEMMA BestOfParent ==
    ASSUME NEW given \in SUBSET Candidate, IsFiniteSet(given),
           NEW p, \E c \in given : c.parent = p
    PROVE  /\ BestOf(p, given) \in given /\ BestOf(p, given).parent = p
           /\ \A d \in given : d.parent = p => ~compare_candidate(BestOf(p, given), d)
<1> DEFINE S == {c \in given : c.parent = p}
<1>1. S \in SUBSET given /\ S # {}
  OBVIOUS
<1>2. IsFiniteSet(S)
  <2> HIDE DEF S
  <2>1. QED
    BY <1>1, FS_Subset
<1>3. S \in SUBSET Candidate
  OBVIOUS
<1>4. \E c \in S : \A d \in S : ~compare_candidate(c, d)
  <2> HIDE DEF S
  <2>1. QED
    BY <1>1, <1>2, <1>3, TopCandidate
<1>5. \E c \in given : c.parent = p /\ \A d \in given : d.parent = p => ~compare_candidate(c, d)
  BY <1>4
<1>6. QED
  BY <1>5, Zenon DEF BestOf

\* First is the candidate before which all others of distinct parents rank.
LEMMA FirstOutranks ==
    ASSUME NEW S \in SUBSET Candidate, IsFiniteSet(S), S # {},
           \A c, d \in S : c # d => c.parent # d.parent
    PROVE  First(S) \in S /\ \A d \in S \ {First(S)} : compare_candidate(d, First(S))
<1>1. PICK c \in S : \A d \in S : ~compare_candidate(c, d)
  BY TopCandidate
<1>2. \A d \in S \ {c} : compare_candidate(d, c)
  BY <1>1, CompareOrders
<1>3. QED
  BY <1>2, Zenon DEF First

\* The ranked candidates: one for each parent, finitely many.
LEMMA RankedParents ==
    ASSUME NEW given \in SUBSET Candidate, IsFiniteSet(given)
    PROVE  /\ Ranked(given) \in SUBSET given /\ IsFiniteSet(Ranked(given))
           /\ given # {} => Ranked(given) # {}
           /\ \A c, d \in Ranked(given) : c # d => c.parent # d.parent
           /\ \A d \in given : \E c \in Ranked(given) :
                 c = BestOf(d.parent, given) /\ c.parent = d.parent /\ ~compare_candidate(c, d)
           /\ \A c \in Ranked(given) : c = BestOf(c.parent, given)
<1>1. \A d \in given : /\ BestOf(d.parent, given) \in given
                       /\ BestOf(d.parent, given).parent = d.parent
                       /\ ~compare_candidate(BestOf(d.parent, given), d)
  BY BestOfParent
<1>2. \A c \in Ranked(given) : \E d \in given : c = BestOf(d.parent, given)
  BY DEF Ranked
<1>3. \A d \in given : BestOf(d.parent, given) \in Ranked(given)
  BY DEF Ranked
<1>4. Ranked(given) \in SUBSET given
  BY <1>1, <1>2
<1>5. QED
  BY <1>1, <1>2, <1>3, <1>4, FS_Subset

-----------------------------------------------------------------------------

\* The evidence is finite and well-formed.
EvidenceInv == candidates \in SUBSET Candidate /\ IsFiniteSet(candidates)

\* Evidence arrives one candidate at a time.
LEMMA EvidenceInductive ==
    /\ CorrelationInit => EvidenceInv
    /\ EvidenceInv /\ [CorrelationNext]_candidates => EvidenceInv'
<1>1. CorrelationInit => EvidenceInv
  BY FS_EmptySet DEF CorrelationInit, EvidenceInv
<1>2. ASSUME EvidenceInv, NEW c \in Candidate, Observe(c) PROVE EvidenceInv'
  BY <1>2, FS_AddElement DEF EvidenceInv, Observe
<1>3. EvidenceInv /\ UNCHANGED candidates => EvidenceInv'
  BY DEF EvidenceInv
<1>4. QED
  BY <1>1, <1>2, <1>3 DEF CorrelationNext

\* Where no candidate is explicit, what correlate selects is the first in rank, and the
\* second is not too close to it.
LEMMA InferredSelection ==
    ASSUME NEW given \in SUBSET Candidate, IsFiniteSet(given), given # {},
           \A c \in given : ~is_explicit(c), correlate(given).answer = "Selected"
    PROVE  LET best == First(Ranked(given))
               others == Ranked(given) \ {best}
           IN  /\ correlate(given).parent = best.parent
               /\ best \in Ranked(given) /\ \A d \in others : compare_candidate(d, best)
               /\ others # {} => /\ ~TooClose(best, First(others))
                                 /\ First(others) \in others
                                 /\ \A d \in others \ {First(others)} : compare_candidate(d, First(others))
<1> DEFINE ranked == Ranked(given)
           best == First(ranked)
           others == ranked \ {best}
<1>1. /\ ranked \in SUBSET given /\ IsFiniteSet(ranked) /\ ranked # {}
      /\ \A c, d \in ranked : c # d => c.parent # d.parent
  BY RankedParents
<1>2. best \in ranked /\ \A d \in others : compare_candidate(d, best)
  <2> HIDE DEF ranked
  <2>1. ranked \in SUBSET Candidate
    BY <1>1
  <2>2. QED
    BY <1>1, <2>1, FirstOutranks
<1>3. ~is_explicit(best)
  BY <1>1, <1>2
<1>4. correlate(given) \in {Selected(best.parent), Ambiguous, Unassigned}
  BY DEF correlate
<1>5. correlate(given) = Selected(best.parent) /\ (others # {} => ~TooClose(best, First(others)))
  <2>1. Ambiguous.answer # "Selected" /\ Unassigned.answer # "Selected"
    BY DEF Ambiguous, Unassigned
  <2> HIDE DEF best
  <2>2. QED
    BY <1>3, <2>1 DEF correlate, best
<1>6. others # {} => /\ First(others) \in others
                     /\ \A d \in others \ {First(others)} : compare_candidate(d, First(others))
  <2>1. SUFFICES ASSUME others # {}
                 PROVE  /\ First(others) \in others
                        /\ \A d \in others \ {First(others)} : compare_candidate(d, First(others))
    OBVIOUS
  <2>2. others \in SUBSET ranked
    OBVIOUS
  <2> HIDE DEF others, ranked
  <2>3. others \in SUBSET Candidate /\ IsFiniteSet(others)
    BY <1>1, <2>2, FS_Subset
  <2>4. QED
    BY <1>1, <2>1, <2>2, <2>3, FirstOutranks
<1>7. QED
  BY <1>2, <1>5, <1>6 DEF Selected

\* Nothing for another parent comes close to the evidence an inferred parent is selected on.
LEMMA SelectionHasGap ==
    ASSUME EvidenceInv PROVE NoCloseCall
<1> DEFINE decision == correlate(candidates)
<1>1. SUFFICES ASSUME decision.answer = "Selected",
                      NEW c \in Of(decision.parent, candidates), NEW d \in candidates,
                      ~is_explicit(c), d.parent # decision.parent,
                      \A e \in candidates :
                          /\ rank[e.basis] <= rank[c.basis]
                          /\ e.basis = c.basis => trust_rank[e.trust] <= trust_rank[c.trust],
                      d.basis = c.basis, d.trust = c.trust,
                      \A e \in Of(decision.parent, candidates) :
                          e.basis = c.basis /\ e.trust = c.trust => e.confidence <= c.confidence
               PROVE  c.confidence - d.confidence >= MinimumGap
  BY DEF NoCloseCall
<1>2. c \in candidates /\ c.parent = decision.parent
  BY DEF Of
<1>3. candidates \in SUBSET Candidate /\ IsFiniteSet(candidates) /\ candidates # {}
  BY <1>2 DEF EvidenceInv
<1>4. \A e \in candidates : ~is_explicit(e)
  BY <1>1, <1>2, <1>3, CandidateFields
<1> DEFINE best == First(Ranked(candidates))
           others == Ranked(candidates) \ {best}
           second == First(others)
<1>5. /\ decision.parent = best.parent
      /\ best \in Ranked(candidates) /\ \A e \in others : compare_candidate(e, best)
      /\ others # {} => /\ ~TooClose(best, second) /\ second \in others
                        /\ \A e \in others \ {second} : compare_candidate(e, second)
  BY <1>1, <1>3, <1>4, InferredSelection
<1> HIDE DEF decision
<1>6. PICK m \in Ranked(candidates) : m = BestOf(c.parent, candidates) /\ m.parent = c.parent /\ ~compare_candidate(m, c)
  BY <1>2, <1>3, RankedParents
<1>7. PICK r \in Ranked(candidates) : r.parent = d.parent /\ ~compare_candidate(r, d)
  BY <1>1, <1>3, RankedParents
<1>8. Ranked(candidates) \in SUBSET candidates /\ \A x, y \in Ranked(candidates) : x # y => x.parent # y.parent
  BY <1>3, RankedParents
<1>9. m = best
  BY <1>2, <1>5, <1>6, <1>8
<1>10. r \in others
  BY <1>1, <1>5, <1>7
<1> HIDE DEF best, others, second
<1>11. /\ second \in others /\ ~TooClose(best, second)
       /\ r = second \/ compare_candidate(r, second)
  BY <1>5, <1>10
<1>12. others \in SUBSET candidates
  BY <1>8 DEF others
<1>13. best \in Candidate /\ second \in Candidate /\ r \in Candidate /\ c \in Candidate /\ d \in Candidate
       /\ best \in candidates /\ second \in candidates /\ r \in candidates
  BY <1>2, <1>3, <1>5, <1>7, <1>8, <1>11, <1>12
<1>14. best.basis = c.basis /\ best.trust = c.trust /\ best.confidence = c.confidence
  <2>1. ~compare_candidate(best, c)
    BY <1>6, <1>9
  <2>2. rank[best.basis] <= rank[c.basis]
    BY <1>1, <1>13
  <2>3. rank[best.basis] = rank[c.basis]
    BY <1>13, <2>1, <2>2, CandidateFields, CompareIsLexicographic
  <2>4. best.basis = c.basis
    BY <1>13, <2>3, CandidateFields, RanksInjective
  <2>5. trust_rank[best.trust] = trust_rank[c.trust]
    BY <1>1, <1>13, <2>1, <2>3, <2>4, CandidateFields, CompareIsLexicographic
  <2>6. best.trust = c.trust
    BY <1>13, <2>5, CandidateFields, RanksInjective
  <2>7. best.confidence <= c.confidence
    BY <1>1, <1>5, <1>13, <2>4, <2>6 DEF Of
  <2>8. best.confidence >= c.confidence
    BY <1>13, <2>1, <2>3, <2>5, CandidateFields, CompareIsLexicographic
  <2>9. QED
    BY <1>13, <2>4, <2>6, <2>7, <2>8, CandidateFields
<1>15. ASSUME NEW x \in candidates, NEW y \in candidates, ~compare_candidate(x, y),
              y.basis = c.basis, y.trust = c.trust
       PROVE  x.basis = c.basis /\ x.trust = c.trust /\ x.confidence >= y.confidence
  <2>1. x \in Candidate /\ y \in Candidate
    BY <1>3
  <2>2. rank[x.basis] = rank[c.basis]
    BY <1>1, <1>13, <1>15, <2>1, CandidateFields, CompareIsLexicographic
  <2>3. x.basis = c.basis
    BY <1>13, <2>1, <2>2, CandidateFields, RanksInjective
  <2>4. trust_rank[x.trust] = trust_rank[c.trust]
    BY <1>1, <1>13, <1>15, <2>1, <2>2, <2>3, CandidateFields, CompareIsLexicographic
  <2>5. x.trust = c.trust
    BY <1>13, <2>1, <2>4, CandidateFields, RanksInjective
  <2>6. x.confidence >= y.confidence
    BY <1>15, <2>1, <2>3, <2>5, CandidateFields, CompareIsLexicographic
  <2>7. QED
    BY <2>3, <2>5, <2>6
<1>16. r.basis = c.basis /\ r.trust = c.trust /\ r.confidence >= d.confidence
  BY <1>1, <1>7, <1>13, <1>15
<1>17. ~compare_candidate(second, r)
  BY <1>11, <1>13, CompareOrders
<1>18. second.basis = c.basis /\ second.confidence >= r.confidence
  BY <1>13, <1>15, <1>16, <1>17
<1>19. best.confidence - second.confidence >= MinimumGap
  <2>1. ~(Lead(best, second) < MinimumGap)
    BY <1>11, <1>14, <1>18 DEF TooClose
  <2>2. QED
    BY <1>13, <2>1, CandidateFields, CorrelationAssumption DEF Lead
<1>20. QED
  BY <1>13, <1>14, <1>16, <1>18, <1>19, CandidateFields, CorrelationAssumption

\* An inferred parent has "a minimum gap to the runner-up": nothing for another parent comes
\* close to the best evidence for it (correlation.rs: correlate).
THEOREM InferredNeedsGap == CorrelationSpec => []NoCloseCall
<1>1. CorrelationSpec => []EvidenceInv
  BY EvidenceInductive, PTL DEF CorrelationSpec
<1>2. QED
  BY <1>1, SelectionHasGap, PTL

\* The one parent with an explicit link has the first candidate in rank.
LEMMA ExplicitIsFirst ==
    ASSUME EvidenceInv PROVE ExplicitWins
<1>1. SUFFICES ASSUME NEW p \in Parents,
                      {c.parent : c \in {d \in candidates : is_explicit(d)}} = {p}
               PROVE  correlate(candidates) = Selected(p)
  BY DEF ExplicitWins
<1>2. PICK x \in candidates : is_explicit(x) /\ x.parent = p
  BY <1>1
<1>3. \A d \in candidates : is_explicit(d) => d.parent = p
  BY <1>1
<1>4. candidates \in SUBSET Candidate /\ IsFiniteSet(candidates) /\ candidates # {}
  BY <1>2 DEF EvidenceInv
<1> DEFINE ranked == Ranked(candidates)
           best == First(ranked)
<1>5. /\ ranked \in SUBSET candidates /\ IsFiniteSet(ranked) /\ ranked # {}
      /\ \A c, d \in ranked : c # d => c.parent # d.parent
  BY <1>4, RankedParents
<1>6. PICK m \in ranked : m.parent = p /\ ~compare_candidate(m, x)
  BY <1>2, <1>4, RankedParents
<1> HIDE DEF ranked
<1>7. is_explicit(m)
  BY <1>2, <1>4, <1>5, <1>6, CandidateFields, CompareIsLexicographic
<1>8. best \in ranked /\ \A d \in ranked \ {best} : compare_candidate(d, best)
  BY <1>4, <1>5, FirstOutranks
<1>9. best = m
  <2>1. SUFFICES ASSUME best # m PROVE FALSE
    OBVIOUS
  <2>2. compare_candidate(m, best)
    BY <1>6, <1>8, <2>1
  <2>3. is_explicit(best)
    BY <1>4, <1>5, <1>7, <1>8, <2>2, CandidateFields, CompareIsLexicographic
  <2>4. best.parent = p
    BY <1>3, <1>5, <1>8, <2>3
  <2>5. QED
    BY <1>5, <1>6, <1>8, <2>1, <2>4
<1>10. {c \in ranked : is_explicit(c)} = {m}
  BY <1>3, <1>5, <1>6, <1>7
<1>11. Cardinality({c \in ranked : is_explicit(c)}) = 1
  BY <1>10, FS_Singleton
<1>12. QED
  <2>1. ~(Cardinality({c \in ranked : is_explicit(c)}) > 1)
    BY <1>11
  <2>2. is_explicit(best) /\ best.parent = p
    BY <1>6, <1>7, <1>9
  <2>3. QED
    BY <1>4, <2>1, <2>2 DEF correlate, ranked

\* Explicit links outrank heuristics: the one parent that has one is selected, however much
\* trusted or confident evidence there is for others (correlation.rs: correlate).
THEOREM ExplicitLinkDecides == CorrelationSpec => []ExplicitWins
<1>1. CorrelationSpec => []EvidenceInv
  BY EvidenceInductive, PTL DEF CorrelationSpec
<1>2. QED
  BY <1>1, ExplicitIsFirst, PTL

=============================================================================
