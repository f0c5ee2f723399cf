------------------------- MODULE TranscriptTailProofs -------------------------
(***************************************************************************)
(* The tail of a native file for files of any length, any budgets of a     *)
(* batch and any number of failures, restarts and rewrites: no complete    *)
(* record is skipped, none is made up, and the cursor never moves back.    *)
(***************************************************************************)
EXTENDS TranscriptTail, SequenceTheorems, WellFoundedInduction, TLAPS

\* A pass that reads and ingests the records of the file.
Reads == pass.at \in {"read", "ingest", "agree"}

\* The bytes are those of the file that follow the first n.
Copies(bytes, n) == \A i \in 1..Len(bytes) : bytes[i] = file.data[n + i]

\* The records that end among the first n bytes are ingested, as far as they count.
CountedTo(n) == \A e \in 1..n : Owned(e) => Counted(e) \subseteq seen

\* The first n bytes are whole records, but for the one the reader began in.
Boundary(n) == n = base.offset \/ n \in EndsAt

Stages == {"idle", "tail", "baseline", "read", "ingest", "agree", "recover",
           "sample", "activity", "mark"}

Pass == [at : Stages, inode : Int, read : Nat, complete : Nat, partial : Seq(Bytes),
         records : Seq(Bytes), next : Nat, more : BOOLEAN, batches : Nat, version : Versions]

TailTypes ==
    /\ adapter \in {"claude", "codex", "companion"}
    /\ file \in [inode : Nat, data : Seq(Bytes)]
    /\ saved \in [inode : Int, offset : Nat]
    /\ base \in [rewrites : Nat, offset : Nat]
    /\ rewrites \in Nat /\ base.rewrites <= rewrites
    /\ pass \in Pass

\* A batch is made of the complete records and, after them, the partial one.
Offsets ==
    /\ pass.at = "read" => pass.read = pass.complete + Len(pass.partial)
    /\ pass.at \in {"ingest", "agree"} =>
          /\ pass.next = pass.complete + Len(pass.records)
          /\ pass.read = pass.next + Len(pass.partial)
          /\ pass.records # <<>> => pass.records[Len(pass.records)] = "nl"
    /\ saved # None => saved.inode \in Nat
    /\ Reads => saved # None /\ pass.inode \in Nat
    /\ pass.at \in {"activity", "mark"} => pass.inode \in Nat
    /\ IF adapter = "companion" THEN pass.at \in {"idle", "sample", "activity", "mark"}
       ELSE pass.at \notin {"sample", "activity", "mark"}

\* While the file only grows, everything before the durable cursor is ingested.
Kept ==
    /\ base.offset <= saved.offset /\ saved.offset <= Length
    /\ Boundary(saved.offset) /\ CountedTo(saved.offset)

\* So is everything before what a pass holds, and that is still what the file says.
Held ==
    /\ Reads =>
          /\ saved.offset <= pass.complete /\ pass.read <= Length
          /\ Boundary(pass.complete) /\ CountedTo(pass.complete)
    /\ pass.at = "read" => Copies(pass.partial, pass.complete)
    /\ pass.at \in {"ingest", "agree"} =>
          Copies(pass.records, pass.complete) /\ Copies(pass.partial, pass.next)

\* A head opens a record and nothing else does.
WellFormed ==
    \A i \in 1..Length :
        IF i - 1 \in EndsAt \cup {0} THEN file.data[i] \in Kinds ELSE file.data[i] \in {"body", "nl"}

\* A log that only grew is at least as long as what was sampled of it.
Sampled ==
    /\ saved.offset <= Length
    /\ pass.at \in {"activity", "mark"} => saved.offset <= pass.next /\ pass.next <= Length

\* The observations a record of this kind that ends at e must leave.
Expected(kind, e) ==
    IF kind \in {"run", IF adapter = "codex" THEN "done" ELSE "run"} THEN {<<"record", e>>}
    ELSE IF adapter = "claude" /\ kind = "conflict" THEN {<<"conflict", e>>} ELSE {}

TailInv ==
    /\ TailTypes /\ Offsets /\ WellFormed /\ NothingInvented
    /\ adapter # "companion" /\ Undisturbed => Kept /\ Held
    /\ adapter = "companion" /\ rewrites = 0 => Sampled

-----------------------------------------------------------------------------
(* Maxima and minima.                                                      *)

\* A non-empty set of naturals has a minimum.
LEMMA MinIsLeast ==
    ASSUME NEW T \in SUBSET Nat, T # {}
    PROVE  Min(T) \in T /\ \A j \in T : Min(T) <= j
<1>1. PICK d \in T : \A e \in T : ~(<<e, d>> \in OpToRel(<, Nat))
  BY NatLessThanWellFounded, WFMin, Zenon
<1>2. \A e \in T : d <= e
  <2>1. \A e \in T : ~(e < d)
    BY <1>1 DEF OpToRel
  <2>2. QED
    BY <2>1
<1>3. QED
  BY <1>2, Zenon DEF Min

\* A non-empty bounded set of naturals has a maximum.
LEMMA MaxIsGreatest ==
    ASSUME NEW n \in Nat, NEW T \in SUBSET (0..n), T # {}
    PROVE  Max(T) \in T /\ \A j \in T : j <= Max(T)
<1> DEFINE D == {n - i : i \in T}
<1>1. \A i \in T : i \in Nat /\ i <= n /\ n - i \in Nat
  OBVIOUS
<1>2. D \subseteq Nat /\ D # {}
  BY <1>1, Zenon
<1>3. Min(D) \in D /\ \A j \in D : Min(D) <= j
  BY <1>2, MinIsLeast, Zenon
<1>4. PICK i \in T : Min(D) = n - i
  BY <1>3
<1>5. \A j \in T : n - i <= n - j
  BY <1>3, <1>4, Zenon
<1>6. \A j \in T : i >= j
  BY <1>1, <1>5
<1>7. Max(T) \in T /\ \A j \in T : Max(T) >= j
  BY <1>6, Zenon DEF Max
<1>8. QED
  BY <1>1, <1>7

-----------------------------------------------------------------------------
(* Stretches of a sequence.                                                *)

\* The bytes from c on, as far as n.
LEMMA Stretch ==
    ASSUME NEW S, NEW s \in Seq(S), NEW n \in 0..Len(s), NEW c \in 0..n
    PROVE  /\ SubSeq(s, c + 1, n) \in Seq(S) /\ Len(SubSeq(s, c + 1, n)) = n - c
           /\ \A i \in 1..(n - c) : SubSeq(s, c + 1, n)[i] = s[c + i]
<1> DEFINE t == SubSeq(s, c + 1, n)
<1>1. /\ Len(s) \in Nat /\ \A i \in 1..Len(s) : s[i] \in S
  BY LenProperties, ElementOfSeq
<1>2. /\ n \in Int /\ c \in Int /\ 0 <= c /\ c <= n /\ n <= Len(s) /\ c + 1 \in Int
  BY <1>1
<1>3. \A i \in (c + 1)..n : s[i] \in S
  BY <1>1, <1>2
<1>4. /\ t \in Seq(S)
      /\ Len(t) = IF c + 1 <= n THEN n - (c + 1) + 1 ELSE 0
      /\ \A i \in 1..(n - (c + 1) + 1) : t[i] = s[c + 1 + i - 1]
  BY <1>2, <1>3, SubSeqProperties
<1> HIDE DEF t
<1>5. Len(t) = n - c
  BY <1>2, <1>4
<1>6. ASSUME NEW i \in 1..(n - c) PROVE t[i] = s[c + i]
  <2>1. i \in 1..(n - (c + 1) + 1) /\ c + 1 + i - 1 = c + i
    BY <1>2
  <2>2. t[i] = s[c + 1 + i - 1]
    BY <1>4, <2>1
  <2>3. QED
    BY <2>1, <2>2
<1>7. QED
  BY <1>4, <1>5, <1>6 DEF t

\* One sequence after another.
LEMMA Joined ==
    ASSUME NEW S, NEW s \in Seq(S), NEW t \in Seq(S)
    PROVE  /\ s \o t \in Seq(S) /\ Len(s \o t) = Len(s) + Len(t)
           /\ \A i \in 1..Len(s) : (s \o t)[i] = s[i]
           /\ \A i \in 1..Len(t) : (s \o t)[Len(s) + i] = t[i]
<1>1. Len(s) \in Nat /\ Len(t) \in Nat
  BY LenProperties
<1>2. /\ s \o t \in Seq(S) /\ Len(s \o t) = Len(s) + Len(t)
      /\ \A i \in 1..(Len(s) + Len(t)) :
             (s \o t)[i] = IF i <= Len(s) THEN s[i] ELSE t[i - Len(s)]
  BY ConcatProperties
<1>3. ASSUME NEW i \in 1..Len(s) PROVE (s \o t)[i] = s[i]
  <2>1. i \in 1..(Len(s) + Len(t)) /\ i <= Len(s)
    BY <1>1
  <2>2. QED
    BY <1>2, <2>1
<1>4. ASSUME NEW i \in 1..Len(t) PROVE (s \o t)[Len(s) + i] = t[i]
  <2>1. Len(s) + i \in 1..(Len(s) + Len(t)) /\ ~(Len(s) + i <= Len(s)) /\ Len(s) + i - Len(s) = i
    BY <1>1
  <2>2. QED
    BY <1>2, <2>1
<1>5. QED
  BY <1>2, <1>3, <1>4

\* Two stretches of the same bytes are the same.
LEMMA SameStretch ==
    ASSUME NEW S, NEW s \in Seq(S), NEW n \in 0..Len(s), NEW c \in 0..n,
           NEW t \in Seq(S), Len(t) = n - c, \A i \in 1..(n - c) : t[i] = s[c + i]
    PROVE  SubSeq(s, c + 1, n) = t
<1> DEFINE u == SubSeq(s, c + 1, n)
<1>1. u \in Seq(S) /\ Len(u) = n - c /\ \A i \in 1..(n - c) : u[i] = s[c + i]
  BY Stretch
<1> HIDE DEF u
<1>2. \A i \in 1..Len(u) : u[i] = t[i]
  BY <1>1
<1>3. u = t
  BY <1>1, <1>2, SeqEqual
<1>4. QED
  BY <1>3 DEF u

-----------------------------------------------------------------------------
(* The file.                                                               *)

\* Where a record begins: after the newline before it.
LEMMA StartOfRecord ==
    ASSUME TailTypes, NEW e \in 1..Length
    PROVE  /\ StartOf(e) \in Nat /\ StartOf(e) < e
           /\ StartOf(e) = 0 \/ StartOf(e) \in EndsAt
           /\ \A i \in EndsAt : i < e => i <= StartOf(e)
<1> DEFINE T == {0} \cup {i \in EndsAt : i < e}
<1>1. Length \in Nat
  BY LenProperties DEF TailTypes, Length
<1>2. T \in SUBSET (0..(e - 1)) /\ T # {} /\ e - 1 \in Nat
  BY <1>1 DEF EndsAt
<1>3. Max(T) \in T /\ \A j \in T : j <= Max(T)
  <2> HIDE DEF T
  <2>1. QED
    BY <1>2, MaxIsGreatest
<1>4. StartOf(e) = Max(T)
  BY DEF StartOf
<1>5. QED
  BY <1>2, <1>3, <1>4

\* A record that no newline divides begins where the one before it ended.
LEMMA StartOfNext ==
    ASSUME TailTypes, NEW c \in Nat, NEW e \in (c + 1)..Length, Boundary(c), Owned(e),
           \A i \in (c + 1)..(e - 1) : i \notin EndsAt
    PROVE  StartOf(e) = c
<1>1. Length \in Nat
  BY LenProperties DEF TailTypes, Length
<1>2. e \in 1..Length
  BY <1>1
<1>3. /\ StartOf(e) \in Nat /\ StartOf(e) < e
      /\ StartOf(e) = 0 \/ StartOf(e) \in EndsAt
      /\ \A i \in EndsAt : i < e => i <= StartOf(e)
  BY <1>2, StartOfRecord
<1>4. StartOf(e) <= c
  BY <1>1, <1>3
<1>5. StartOf(e) >= c
  BY <1>1, <1>2, <1>3 DEF Boundary, Owned, TailTypes
<1>6. QED
  BY <1>3, <1>4, <1>5

\* What the file says changes with the file only.
LEMMA SameFile ==
    ASSUME file' = file
    PROVE  /\ Length' = Length /\ EndsAt' = EndsAt /\ WellFormed' = WellFormed
           /\ \A e : StartOf(e)' = StartOf(e) /\ KindAt(e)' = KindAt(e)
<1>1. Length' = Length
  BY DEF Length
<1>2. EndsAt' = EndsAt
  BY <1>1 DEF EndsAt
<1>3. ASSUME NEW e PROVE StartOf(e)' = StartOf(e)
  BY <1>2 DEF StartOf
<1>4. ASSUME NEW e PROVE KindAt(e)' = KindAt(e)
  BY <1>3 DEF KindAt
<1>5. WellFormed' = WellFormed
  BY <1>1, <1>2 DEF WellFormed
<1>6. QED
  BY <1>1, <1>2, <1>3, <1>4, <1>5

\* A byte more leaves what the file said: the records complete, where each begins and
\* what it is.
LEMMA Growth ==
    ASSUME TailTypes, NEW b \in Bytes, file' = [file EXCEPT !.data = Append(@, b)]
    PROVE  /\ file'.data \in Seq(Bytes) /\ Length' = Length + 1 /\ Length \in Nat
           /\ \A i \in 1..Length : file'.data[i] = file.data[i]
           /\ file'.data[Length + 1] = b
           /\ \A i \in 1..Length : i \in EndsAt' <=> i \in EndsAt
           /\ \A e \in 1..Length : StartOf(e)' = StartOf(e) /\ KindAt(e)' = KindAt(e)
<1>1. file.data \in Seq(Bytes) /\ file'.data = Append(file.data, b)
  BY DEF TailTypes
<1>2. /\ file'.data \in Seq(Bytes) /\ Length' = Length + 1 /\ Length \in Nat
      /\ \A i \in 1..Length : file'.data[i] = file.data[i]
      /\ file'.data[Length + 1] = b
  BY <1>1, AppendProperties, LenProperties DEF Length
<1>3. \A i \in 1..Length : i \in EndsAt' <=> i \in EndsAt
  <2>1. \A i \in 1..Length : i \in 1..(Length')
    BY <1>2
  <2>2. QED
    BY <1>2, <2>1 DEF EndsAt
<1>4. ASSUME NEW e \in 1..Length PROVE StartOf(e)' = StartOf(e)
  <2>1. {i \in EndsAt' : i < e} = {i \in EndsAt : i < e}
    <3>1. ASSUME NEW i, i < e PROVE i \in EndsAt' <=> i \in EndsAt
      <4>1. i \in EndsAt' => i \in 1..Length
        BY <1>2, <3>1 DEF EndsAt
      <4>2. i \in EndsAt => i \in 1..Length
        BY DEF EndsAt
      <4>3. QED
        BY <1>3, <4>1, <4>2
    <3>2. QED
      BY <3>1
  <2>2. QED
    BY <2>1 DEF StartOf
<1>5. ASSUME NEW e \in 1..Length PROVE KindAt(e)' = KindAt(e)
  <2> DEFINE c == StartOf(e)
  <2>1. c \in Nat /\ c < e
    BY StartOfRecord
  <2> HIDE DEF c
  <2> DEFINE old == file.data
             new == file'.data
             to == e - 1
             word == SubSeq(old, c + 1, to)
  <2>2. to \in 0..Len(old) /\ to \in 0..Len(new) /\ c \in 0..to /\ to <= Length
    BY <1>2, <2>1 DEF Length
  <2>3. ASSUME NEW i \in 1..(to - c) PROVE new[c + i] = old[c + i]
    <3>1. c + i \in 1..Length
      BY <1>2, <2>1
    <3>2. QED
      BY <1>2, <3>1
  <2>4. old \in Seq(Bytes) /\ new \in Seq(Bytes)
    BY <1>1, <1>2
  <2> HIDE DEF old, new, to
  <2>5. word \in Seq(Bytes) /\ Len(word) = to - c /\ \A i \in 1..(to - c) : word[i] = old[c + i]
    BY <2>2, <2>4, Stretch
  <2> HIDE DEF word
  <2>6. \A i \in 1..(to - c) : word[i] = new[c + i]
    BY <2>3, <2>5
  <2>7. SubSeq(new, c + 1, to) = word
    BY <2>2, <2>4, <2>5, <2>6, SameStretch
  <2>8. QED
    BY <1>4, <2>7 DEF KindAt, c, old, new, to, word
<1>6. QED
  BY <1>2, <1>3, <1>4, <1>5

-----------------------------------------------------------------------------
(* IncrementalReader::read.                                                *)

\* The bytes of a batch follow those the reader holds.
LEMMA BufferIsCopy ==
    ASSUME TailTypes, NEW p \in Pass, p.read = p.complete + Len(p.partial), p.read <= Length
    PROVE  LET available == SubSeq(file.data, p.read + 1, Length)
               appended == SubSeq(available, 1, Min({MaxBytes, Len(available)}))
               buffer == p.partial \o appended
           IN  /\ appended \in Seq(Bytes) /\ p.read + Len(appended) <= Length
               /\ buffer \in Seq(Bytes) /\ Len(buffer) = Len(p.partial) + Len(appended)
               /\ Copies(p.partial, p.complete) => Copies(buffer, p.complete)
<1> DEFINE available == SubSeq(file.data, p.read + 1, Length)
           k == Min({MaxBytes, Len(available)})
           appended == SubSeq(available, 1, k)
           buffer == p.partial \o appended
<1>1. /\ p.read \in Nat /\ p.complete \in Nat /\ p.partial \in Seq(Bytes)
      /\ file.data \in Seq(Bytes)
  BY DEF Pass, TailTypes
<1>2. Length \in Nat /\ Len(p.partial) \in Nat
  BY <1>1, LenProperties DEF Length
<1>3. /\ available \in Seq(Bytes) /\ Len(available) = Length - p.read
      /\ \A i \in 1..(Length - p.read) : available[i] = file.data[p.read + i]
  <2>1. Length \in 0..Len(file.data) /\ p.read \in 0..Length
    BY <1>1, <1>2 DEF Length
  <2>2. QED
    BY <1>1, <2>1, Stretch
<1> HIDE DEF available
<1>4. k \in 0..Len(available) /\ Len(available) \in Nat
  <2>1. Len(available) \in Nat
    BY <1>1, <1>2, <1>3
  <2>2. {MaxBytes, Len(available)} \in SUBSET Nat /\ {MaxBytes, Len(available)} # {}
    BY <2>1, TailAssumption
  <2> DEFINE T == {MaxBytes, Len(available)}
  <2>3. k \in T /\ \A j \in T : k <= j
    <3> HIDE DEF T
    <3>1. k = Min(T)
      BY DEF T
    <3>2. T \in SUBSET Nat /\ T # {}
      BY <2>2 DEF T
    <3>3. QED
      BY <3>1, <3>2, MinIsLeast
  <2> HIDE DEF k
  <2>4. QED
    BY <2>1, <2>2, <2>3
<1> HIDE DEF k
<1>5. /\ appended \in Seq(Bytes) /\ Len(appended) = k
      /\ \A i \in 1..k : appended[i] = available[i]
  <2> DEFINE t == SubSeq(available, 0 + 1, k)
  <2>1. /\ t \in Seq(Bytes) /\ Len(t) = k - 0
        /\ \A i \in 1..(k - 0) : t[i] = available[0 + i]
    <3>1. 0 \in 0..k
      BY <1>4
    <3>2. QED
      BY <1>3, <1>4, <3>1, Stretch
  <2>2. t = appended
    <3>1. 0 + 1 = 1
      OBVIOUS
    <3>2. QED
      BY <3>1
  <2> HIDE DEF t, appended
  <2>3. k - 0 = k /\ \A i \in 1..k : 0 + i = i
    BY <1>4
  <2>4. QED
    BY <2>1, <2>2, <2>3
<1> HIDE DEF appended
<1>6. /\ buffer \in Seq(Bytes) /\ Len(buffer) = Len(p.partial) + Len(appended)
      /\ \A i \in 1..Len(p.partial) : buffer[i] = p.partial[i]
      /\ \A i \in 1..Len(appended) : buffer[Len(p.partial) + i] = appended[i]
  <2> DEFINE held == p.partial
  <2>1. held \in Seq(Bytes) /\ appended \in Seq(Bytes)
    BY <1>1, <1>5
  <2>2. buffer = held \o appended
    OBVIOUS
  <2> HIDE DEF held, buffer
  <2>3. /\ held \o appended \in Seq(Bytes) /\ Len(held \o appended) = Len(held) + Len(appended)
        /\ \A i \in 1..Len(held) : (held \o appended)[i] = held[i]
        /\ \A i \in 1..Len(appended) : (held \o appended)[Len(held) + i] = appended[i]
    BY <2>1, Joined
  <2>4. QED
    BY <2>2, <2>3 DEF held
<1> HIDE DEF buffer
<1>7. ASSUME Copies(p.partial, p.complete) PROVE Copies(buffer, p.complete)
  <2>1. SUFFICES ASSUME NEW i \in 1..Len(buffer) PROVE buffer[i] = file.data[p.complete + i]
    BY DEF Copies
  <2>2. CASE i <= Len(p.partial)
    <3>1. i \in 1..Len(p.partial)
      BY <1>2, <1>4, <1>5, <1>6, <2>1, <2>2
    <3>2. QED
      BY <1>6, <1>7, <3>1 DEF Copies
  <2>3. CASE i > Len(p.partial)
    <3> DEFINE j == i - Len(p.partial)
    <3>1. j \in 1..k /\ i = Len(p.partial) + j
      BY <1>2, <1>4, <1>5, <1>6, <2>1, <2>3
    <3>2. j \in 1..(Length - p.read)
      BY <1>1, <1>2, <1>3, <1>4, <3>1
    <3>3. p.read + j = p.complete + i
      <4>1. i \in Int /\ j \in Int
        BY <1>2, <1>4, <3>1
      <4> HIDE DEF j
      <4>2. QED
        BY <1>1, <1>2, <3>1, <4>1
    <3> HIDE DEF j
    <3>4. buffer[i] = appended[j]
      BY <1>5, <1>6, <3>1
    <3>5. appended[j] = available[j]
      BY <1>5, <3>1
    <3>6. available[j] = file.data[p.complete + i]
      BY <1>3, <3>2, <3>3
    <3>7. QED
      BY <3>4, <3>5, <3>6
  <2>4. QED
    BY <1>2, <1>4, <1>5, <1>6, <2>1, <2>2, <2>3
<1>8. p.read + Len(appended) <= Length
  BY <1>1, <1>2, <1>3, <1>4, <1>5
<1>9. QED
  BY <1>5, <1>6, <1>7, <1>8 DEF available, k, appended, buffer

\* read returns whole records and leaves the rest for later, without a gap.
LEMMA BatchIsCopy ==
    ASSUME TailTypes, NEW p \in Pass, p.read = p.complete + Len(p.partial), p.read <= Length
    PROVE  LET batch == ReadAppended(p)
           IN  /\ batch.records \in Seq(Bytes) /\ batch.partial \in Seq(Bytes)
               /\ batch.read \in Nat /\ batch.complete \in Nat /\ batch.more \in BOOLEAN
               /\ batch.complete = p.complete + Len(batch.records)
               /\ batch.read = batch.complete + Len(batch.partial)
               /\ batch.read <= Length
               /\ batch.records # <<>> => batch.records[Len(batch.records)] = "nl"
               /\ Copies(p.partial, p.complete) =>
                     Copies(batch.records, p.complete) /\ Copies(batch.partial, batch.complete)
<1> DEFINE available == SubSeq(file.data, p.read + 1, Length)
           appended == SubSeq(available, 1, Min({MaxBytes, Len(available)}))
           buffer == p.partial \o appended
           newlines == {i \in 1..Len(buffer) : buffer[i] = "nl"}
           taken == {i \in newlines : Cardinality({j \in newlines : j <= i}) <= MaxRecords}
           consumed == Max({0} \cup taken)
           exhausted == newlines # taken
           records == SubSeq(buffer, 1, consumed)
           partial == IF exhausted THEN <<>> ELSE SubSeq(buffer, consumed + 1, Len(buffer))
           read == p.read + IF exhausted THEN consumed - Len(p.partial) ELSE Len(appended)
           more == Len(available) > MaxBytes \/ exhausted \/ read < Length
<1>1. /\ appended \in Seq(Bytes) /\ p.read + Len(appended) <= Length
      /\ buffer \in Seq(Bytes) /\ Len(buffer) = Len(p.partial) + Len(appended)
      /\ Copies(p.partial, p.complete) => Copies(buffer, p.complete)
  BY BufferIsCopy
<1>2. ReadAppended(p) = [records |-> records, read |-> read, partial |-> partial,
                         complete |-> read - Len(partial), more |-> more]
  BY DEF ReadAppended
<1> HIDE DEF appended
<1> HIDE DEF buffer
<1>3. /\ p.read \in Nat /\ p.complete \in Nat /\ p.partial \in Seq(Bytes)
      /\ Length \in Nat /\ Len(p.partial) \in Nat /\ Len(appended) \in Nat /\ Len(buffer) \in Nat
      /\ \A i \in 1..Len(buffer) : buffer[i] \in Bytes
  <2>1. p.partial \in Seq(Bytes) /\ file.data \in Seq(Bytes) /\ appended \in Seq(Bytes) /\ buffer \in Seq(Bytes)
    BY <1>1 DEF Pass, TailTypes
  <2>2. Length \in Nat /\ Len(p.partial) \in Nat /\ Len(appended) \in Nat /\ Len(buffer) \in Nat
    BY <2>1, LenProperties DEF Length
  <2>3. \A i \in 1..Len(buffer) : buffer[i] \in Bytes
    BY <2>1, ElementOfSeq
  <2>4. p.read \in Nat /\ p.complete \in Nat
    BY DEF Pass
  <2>5. QED
    BY <2>1, <2>2, <2>3, <2>4
<1>4. /\ consumed \in 0..Len(buffer)
      /\ consumed # 0 => buffer[consumed] = "nl"
  <2> DEFINE T == {0} \cup taken
  <2>1. T \in SUBSET (0..Len(buffer)) /\ T # {}
    BY <1>3
  <2>2. Max(T) \in T
    <3> HIDE DEF T
    <3>1. QED
      BY <1>3, <2>1, MaxIsGreatest
  <2>3. QED
    BY <2>1, <2>2
<1> HIDE DEF consumed, exhausted
<1>5. /\ records \in Seq(Bytes) /\ Len(records) = consumed
      /\ \A i \in 1..consumed : records[i] = buffer[i]
  <2> DEFINE t == SubSeq(buffer, 0 + 1, consumed)
  <2>1. /\ t \in Seq(Bytes) /\ Len(t) = consumed - 0
        /\ \A i \in 1..(consumed - 0) : t[i] = buffer[0 + i]
    <3>1. 0 \in 0..consumed
      BY <1>3, <1>4
    <3>2. QED
      BY <1>1, <1>4, <3>1, Stretch
  <2>2. t = records
    <3>1. 0 + 1 = 1
      OBVIOUS
    <3>2. QED
      BY <3>1
  <2> HIDE DEF t, records
  <2>3. consumed - 0 = consumed /\ \A i \in 1..consumed : 0 + i = i
    BY <1>3, <1>4
  <2>4. QED
    BY <2>1, <2>2, <2>3
<1>6. /\ partial \in Seq(Bytes)
      /\ Len(partial) = IF exhausted THEN 0 ELSE Len(buffer) - consumed
      /\ Len(partial) \in Nat
      /\ \A i \in 1..Len(partial) : partial[i] = buffer[consumed + i]
      /\ exhausted => partial = <<>>
  <2>1. CASE exhausted
    BY <2>1, EmptySeq
  <2>2. CASE ~exhausted
    <3> DEFINE rest == SubSeq(buffer, consumed + 1, Len(buffer))
    <3>1. Len(buffer) \in 0..Len(buffer) /\ consumed \in 0..Len(buffer)
      BY <1>3, <1>4
    <3>2. /\ rest \in Seq(Bytes) /\ Len(rest) = Len(buffer) - consumed
          /\ \A i \in 1..(Len(buffer) - consumed) : rest[i] = buffer[consumed + i]
      BY <1>1, <3>1, Stretch
    <3>3. partial = rest
      BY <2>2
    <3> HIDE DEF rest, partial
    <3>4. Len(partial) = Len(buffer) - consumed /\ partial \in Seq(Bytes)
      BY <3>2, <3>3
    <3>5. Len(buffer) - consumed \in Nat
      BY <1>3, <1>4
    <3>6. \A i \in 1..Len(partial) : partial[i] = buffer[consumed + i]
      BY <3>2, <3>3, <3>4
    <3>7. QED
      BY <2>2, <3>4, <3>5, <3>6
  <2>3. QED
    BY <2>1, <2>2
<1> HIDE DEF records, partial
<1>7. read = p.complete + consumed + Len(partial) /\ read <= Length /\ read \in Nat
  <2>1. /\ p.read + (consumed - Len(p.partial)) = p.complete + consumed
        /\ p.complete + consumed \in Nat /\ p.complete + consumed <= Length
        /\ p.read + Len(appended) = p.complete + consumed + (Len(buffer) - consumed)
        /\ p.read + Len(appended) \in Nat /\ p.read + Len(appended) <= Length
    <3> DEFINE start == p.read
               complete == p.complete
               kept == Len(p.partial)
               extra == Len(appended)
               size == Len(buffer)
               length == Length
    <3>1. /\ start \in Nat /\ complete \in Nat /\ kept \in Nat /\ extra \in Nat /\ size \in Nat
          /\ length \in Nat /\ consumed \in 0..size
          /\ start = complete + kept /\ size = kept + extra /\ start + extra <= length
      BY <1>1, <1>3, <1>4
    <3> HIDE DEF start, complete, kept, extra, size, length
    <3>2. /\ start + (consumed - kept) = complete + consumed
          /\ complete + consumed \in Nat /\ complete + consumed <= length
          /\ start + extra = complete + consumed + (size - consumed)
          /\ start + extra \in Nat
      BY <3>1
    <3>3. QED
      BY <3>1, <3>2 DEF start, complete, kept, extra, size, length
  <2>2. CASE exhausted
    <3>1. read = p.read + (consumed - Len(p.partial))
      BY <2>2
    <3>2. Len(partial) = 0
      BY <1>6, <2>2
    <3> HIDE DEF read
    <3>3. p.complete + consumed + Len(partial) = p.complete + consumed
      BY <2>1, <3>2
    <3>4. QED
      BY <2>1, <3>1, <3>3
  <2>3. CASE ~exhausted
    <3>1. read = p.read + Len(appended)
      BY <2>3
    <3>2. Len(partial) = Len(buffer) - consumed
      BY <1>6, <2>3
    <3> HIDE DEF read
    <3>3. QED
      BY <2>1, <3>1, <3>2
  <2>4. QED
    BY <2>2, <2>3
<1> HIDE DEF read
<1>8. ASSUME Copies(p.partial, p.complete)
      PROVE  Copies(records, p.complete) /\ Copies(partial, p.complete + consumed)
  <2>1. \A i \in 1..Len(buffer) : buffer[i] = file.data[p.complete + i]
    BY <1>1, <1>8 DEF Copies
  <2>2. ASSUME NEW i \in 1..Len(records) PROVE records[i] = file.data[p.complete + i]
    <3>1. i \in 1..consumed /\ i \in 1..Len(buffer)
      BY <1>3, <1>4, <1>5, <2>2
    <3>2. QED
      BY <1>5, <2>1, <3>1
  <2>3. ASSUME NEW i \in 1..Len(partial) PROVE partial[i] = file.data[p.complete + consumed + i]
    <3>1. consumed + i \in 1..Len(buffer)
      BY <1>3, <1>4, <1>6, <2>3
    <3>2. buffer[consumed + i] = file.data[p.complete + (consumed + i)]
      BY <2>1, <3>1
    <3>3. p.complete + (consumed + i) = p.complete + consumed + i
      BY <1>3, <1>4, <2>3
    <3>4. QED
      BY <1>6, <2>3, <3>2, <3>3
  <2>4. QED
    BY <2>2, <2>3 DEF Copies
<1>9. more \in BOOLEAN
  OBVIOUS
<1>10. records # <<>> => records[Len(records)] = "nl"
  <2>1. records # <<>> => consumed # 0
    BY <1>5, EmptySeq
  <2>2. QED
    BY <1>4, <1>5, <2>1
<1>11. /\ read - Len(partial) = p.complete + consumed /\ read - Len(partial) \in Nat
       /\ p.complete + consumed \in Nat
  <2>1. p.complete + consumed \in Nat /\ Len(partial) \in Nat
    BY <1>3, <1>4, <1>6
  <2> DEFINE done == p.complete + consumed
             left == Len(partial)
  <2>2. read = done + left /\ done \in Nat /\ left \in Nat
    BY <1>7, <2>1
  <2> HIDE DEF done, left, read
  <2>3. read - left = done
    BY <2>2
  <2>4. QED
    BY <2>1, <2>3 DEF done, left
<1> HIDE DEF more
<1> DEFINE batch == ReadAppended(p)
<1>12. /\ batch.records = records /\ batch.read = read /\ batch.partial = partial
       /\ batch.complete = p.complete + consumed /\ batch.more = more
  BY <1>2, <1>11
<1> HIDE DEF batch
<1>13. /\ p.complete + consumed = p.complete + Len(records)
       /\ p.complete + consumed \in Nat
       /\ read = p.complete + consumed + Len(partial)
  BY <1>5, <1>7, <1>11
<1>14. QED
  BY <1>5, <1>6, <1>7, <1>8, <1>9, <1>10, <1>12, <1>13 DEF batch

-----------------------------------------------------------------------------
(* The records of a batch, one after another.                              *)

\* The first record ends at the first newline.
LEMMA FirstEndIsFirst ==
    ASSUME TailTypes, Offsets, pass.at = "ingest", pass.records # <<>>
    PROVE  /\ FirstEnd \in 1..Len(pass.records) /\ Len(pass.records) \in Nat
           /\ pass.records[FirstEnd] = "nl"
           /\ \A i \in 1..(FirstEnd - 1) : pass.records[i] # "nl"
<1> DEFINE T == {i \in 1..Len(pass.records) : pass.records[i] = "nl"}
<1>1. Len(pass.records) \in Nat \ {0}
  <2>1. pass.records \in Seq(Bytes)
    BY DEF TailTypes, Pass
  <2>2. QED
    BY <2>1, EmptySeq, LenProperties
<1>2. T \in SUBSET Nat /\ T # {}
  BY <1>1 DEF Offsets
<1>3. FirstEnd = Min(T)
  BY DEF FirstEnd
<1>4. FirstEnd \in T /\ \A j \in T : FirstEnd <= j
  <2> HIDE DEF T
  <2>1. QED
    BY <1>2, <1>3, MinIsLeast
<1>5. \A i \in 1..(FirstEnd - 1) : pass.records[i] # "nl"
  BY <1>1, <1>4
<1>6. QED
  BY <1>1, <1>4, <1>5

\* What is left of the batch once its first record is ingested.
LEMMA RestOfBatch ==
    ASSUME TailTypes, Offsets, pass.at = "ingest", pass.records # <<>>
    PROVE  /\ Rest \in Pass /\ Rest.at = "ingest" /\ RecordKey \in Nat
           /\ Rest.complete = RecordKey /\ pass.complete < RecordKey
           /\ Rest.next = pass.next /\ Rest.read = pass.read /\ Rest.partial = pass.partial
           /\ Rest.next = Rest.complete + Len(Rest.records)
           /\ RecordKey <= pass.next /\ pass.next <= pass.read
           /\ Rest.records # <<>> => Rest.records[Len(Rest.records)] = "nl"
           /\ \A i \in 1..Len(Rest.records) : Rest.records[i] = pass.records[FirstEnd + i]
           /\ Len(Rest.records) = Len(pass.records) - FirstEnd
<1> DEFINE n == FirstEnd
           bytes == pass.records
           left == SubSeq(bytes, n + 1, Len(bytes))
<1>1. /\ n \in 1..Len(bytes) /\ Len(bytes) \in Nat
  BY FirstEndIsFirst
<1>2. /\ pass \in Pass /\ bytes \in Seq(Bytes) /\ pass.complete \in Nat
      /\ pass.partial \in Seq(Bytes) /\ Len(pass.partial) \in Nat
  BY LenProperties DEF TailTypes, Pass
<1>3. Rest = [pass EXCEPT !.records = left, !.complete = RecordKey]
  BY DEF Rest
<1>4. RecordKey = pass.complete + n
  BY DEF RecordKey
<1>5. /\ pass.next = pass.complete + Len(bytes) /\ pass.read = pass.next + Len(pass.partial)
      /\ bytes[Len(bytes)] = "nl"
  BY DEF Offsets
<1> HIDE DEF n, bytes
<1>6. /\ left \in Seq(Bytes) /\ Len(left) = Len(bytes) - n
      /\ \A i \in 1..(Len(bytes) - n) : left[i] = bytes[n + i]
  <2>1. Len(bytes) \in 0..Len(bytes) /\ n \in 0..Len(bytes)
    BY <1>1
  <2>2. QED
    BY <1>2, <2>1, Stretch
<1> HIDE DEF left
<1>7. left # <<>> => left[Len(left)] = "nl"
  <2>1. SUFFICES ASSUME left # <<>> PROVE left[Len(left)] = "nl"
    OBVIOUS
  <2>2. Len(left) \in Nat \ {0}
    BY <1>6, <2>1, EmptySeq
  <2>3. Len(left) \in 1..(Len(bytes) - n) /\ n + Len(left) = Len(bytes)
    BY <1>1, <1>6, <2>2
  <2>4. QED
    BY <1>5, <1>6, <2>3
<1>8. RecordKey \in Nat
  BY <1>1, <1>2, <1>4
<1>9. /\ Rest \in Pass /\ Rest.at = "ingest" /\ Rest.complete = RecordKey /\ Rest.next = pass.next
      /\ Rest.read = pass.read /\ Rest.partial = pass.partial /\ Rest.records = left
  BY <1>2, <1>3, <1>6, <1>8 DEF Pass
<1>10. /\ pass.complete < RecordKey /\ pass.next = RecordKey + Len(left)
       /\ RecordKey <= pass.next /\ pass.next <= pass.read /\ Len(left) = Len(bytes) - n
  BY <1>1, <1>2, <1>4, <1>5, <1>6
<1>11. \A i \in 1..Len(left) : left[i] = bytes[n + i]
  BY <1>6
<1>12. QED
  BY <1>7, <1>8, <1>9, <1>10, <1>11 DEF n, bytes

\* The record a pass ingests next is the next record of the file, and it is parsed as
\* what the file says there.
LEMMA NextRecord ==
    ASSUME TailTypes, Offsets, Held, pass.at = "ingest", pass.records # <<>>
    PROVE  /\ RecordKey \in EndsAt /\ RecordKey <= Length
           /\ \A i \in (pass.complete + 1)..(RecordKey - 1) : i \notin EndsAt
           /\ Owned(RecordKey) => StartOf(RecordKey) = pass.complete
           /\ StartOf(RecordKey) = pass.complete => KindAt(RecordKey) = Kind
           /\ \A i \in 1..Len(Rest.records) : Rest.records[i] = file.data[RecordKey + i]
<1> DEFINE n == FirstEnd
           c == pass.complete
           bytes == pass.records
<1>1. /\ n \in 1..Len(bytes) /\ Len(bytes) \in Nat /\ bytes[n] = "nl"
      /\ \A i \in 1..(n - 1) : bytes[i] # "nl"
  BY FirstEndIsFirst
<1>2. /\ bytes \in Seq(Bytes) /\ file.data \in Seq(Bytes) /\ c \in Nat /\ Length \in Nat
  BY LenProperties DEF TailTypes, Pass, Length
<1>3. RecordKey = c + n
  BY DEF RecordKey
<1>4. RecordKey \in Nat /\ RecordKey <= pass.next /\ pass.next = c + Len(bytes) /\ pass.next <= Length
  <2>1. /\ RecordKey \in Nat /\ RecordKey <= pass.next /\ pass.next <= pass.read
        /\ pass.next \in Nat /\ pass.read \in Nat
    BY RestOfBatch DEF TailTypes, Pass
  <2>2. pass.read <= Length /\ pass.next = c + Len(bytes)
    BY DEF Held, Reads, Offsets
  <2>3. QED
    BY <1>2, <2>1, <2>2
<1>5. \A i \in 1..Len(bytes) : bytes[i] = file.data[c + i]
  BY DEF Held, Copies
<1>6. Kind = Parsed(SubSeq(bytes, 1, n - 1))
  BY DEF Kind
<1>7. \A i \in 1..Len(Rest.records) : Rest.records[i] = bytes[n + i]
  BY RestOfBatch
<1>8. Len(Rest.records) = Len(bytes) - n
  BY RestOfBatch
<1>9. Boundary(c)
  BY DEF Held, Reads
<1> HIDE DEF n, bytes
<1>10. RecordKey \in 1..Length /\ RecordKey \in (c + 1)..Length
  BY <1>1, <1>2, <1>3, <1>4
<1>11. RecordKey \in EndsAt
  BY <1>1, <1>3, <1>5, <1>10 DEF EndsAt
<1>12. ASSUME NEW i \in (c + 1)..(RecordKey - 1) PROVE i \notin EndsAt
  <2> DEFINE j == i - c
  <2>1. i \in Int /\ c \in Int /\ n \in Int /\ c + 1 <= i /\ i <= c + n - 1 /\ n <= Len(bytes)
    BY <1>1, <1>2, <1>3, <1>4
  <2>2. j \in 1..(n - 1) /\ j \in 1..Len(bytes) /\ c + j = i
    <3> HIDE DEF c
    <3>1. QED
      BY <1>1, <2>1
  <2> HIDE DEF j
  <2>3. QED
    BY <1>1, <1>5, <2>2 DEF EndsAt
<1>13. ASSUME NEW i \in 1..Len(Rest.records) PROVE Rest.records[i] = file.data[RecordKey + i]
  <2>1. n + i \in 1..Len(bytes) /\ c + (n + i) = RecordKey + i
    BY <1>1, <1>2, <1>3, <1>8
  <2>2. QED
    BY <1>5, <1>7, <2>1
<1>14. Owned(RecordKey) => StartOf(RecordKey) = c
  BY <1>2, <1>9, <1>10, <1>12, StartOfNext
<1>15. ASSUME StartOf(RecordKey) = c PROVE KindAt(RecordKey) = Kind
  <2> DEFINE data == file.data
             to == RecordKey - 1
             k == n - 1
             word == SubSeq(bytes, 0 + 1, k)
  <2>1. /\ c \in Int /\ n \in Int /\ Len(bytes) \in Int /\ RecordKey = c + n
        /\ 1 <= n /\ n <= Len(bytes) /\ 0 <= c /\ RecordKey <= Length /\ Length \in Int
    BY <1>1, <1>2, <1>3, <1>4
  <2> HIDE DEF c
  <2>2. /\ to \in 0..Len(data) /\ c \in 0..to /\ to - c = k
        /\ k \in 0..Len(bytes) /\ 0 \in 0..k /\ k - 0 = k /\ 0 + 1 = 1
    BY <2>1 DEF Length
  <2>3. \A i \in 1..k : i \in 1..Len(bytes) /\ 0 + i = i
    BY <2>1
  <2>4. data \in Seq(Bytes) /\ bytes \in Seq(Bytes) /\ \A i \in 1..Len(bytes) : bytes[i] = data[c + i]
    BY <1>2, <1>5 DEF c
  <2> HIDE DEF data, to, k
  <2>5. /\ word \in Seq(Bytes) /\ Len(word) = k - 0
        /\ \A i \in 1..(k - 0) : word[i] = bytes[0 + i]
    BY <2>2, <2>4, Stretch
  <2>6. word = SubSeq(bytes, 1, k)
    BY <2>2
  <2> HIDE DEF word
  <2>7. Len(word) = to - c /\ \A i \in 1..(to - c) : word[i] = data[c + i]
    BY <2>2, <2>3, <2>4, <2>5
  <2>8. SubSeq(data, c + 1, to) = word
    BY <2>2, <2>4, <2>5, <2>7, SameStretch
  <2>9. QED
    BY <1>6, <1>15, <2>6, <2>8 DEF KindAt, c, data, to, k
<1>16. QED
  BY <1>4, <1>10, <1>11, <1>12, <1>13, <1>14, <1>15

-----------------------------------------------------------------------------
(* What a step leaves alone.                                               *)

\* Owned and Counted follow the file.
LEMMA SameRecords ==
    ASSUME file' = file, adapter' = adapter, base' = base
    PROVE  \A e : (Owned(e)' <=> Owned(e)) /\ Counted(e)' = Counted(e)
<1>1. /\ EndsAt' = EndsAt
      /\ \A e : StartOf(e)' = StartOf(e) /\ KindAt(e)' = KindAt(e)
  BY SameFile
<1>2. ASSUME NEW e PROVE Owned(e)' <=> Owned(e)
  BY <1>1 DEF Owned
<1>3. ASSUME NEW e PROVE Counted(e)' = Counted(e)
  BY <1>1 DEF Counted
<1>4. QED
  BY <1>2, <1>3

\* What is ingested stays ingested.
LEMMA StillCounted ==
    ASSUME file' = file, adapter' = adapter, base' = base, seen \subseteq seen',
           NEW n, CountedTo(n)
    PROVE  \A e \in 1..n : Owned(e)' => Counted(e)' \subseteq seen'
<1>1. SUFFICES ASSUME NEW e \in 1..n, Owned(e)' PROVE Counted(e)' \subseteq seen'
  OBVIOUS
<1>2. Owned(e) /\ Counted(e)' = Counted(e)
  BY <1>1, SameRecords
<1>3. Counted(e) \subseteq seen
  BY <1>1, <1>2 DEF CountedTo
<1>4. QED
  BY <1>2, <1>3

\* The cursor is as good as it was.
LEMMA StillKept ==
    ASSUME Kept, UNCHANGED <<adapter, file, saved, base>>, seen \subseteq seen'
    PROVE  Kept'
<1>1. Length' = Length /\ EndsAt' = EndsAt
  BY SameFile
<1>2. CountedTo(saved.offset)
  BY DEF Kept
<1>3. \A e \in 1..saved.offset : Owned(e)' => Counted(e)' \subseteq seen'
  BY <1>2, StillCounted
<1>4. CountedTo(saved.offset)'
  BY <1>3 DEF CountedTo
<1>5. QED
  BY <1>1, <1>4 DEF Kept, Boundary

\* No observation of a record is added that the file does not bear out.
LEMMA NothingNew ==
    ASSUME NothingInvented, UNCHANGED <<adapter, file, rewrites>>,
           adapter # "companion" /\ rewrites = 0 =>
               \A id \in seen' : \/ id \in seen
                                 \/ id[1] \notin {"record", "conflict"}
                                 \/ id[2] \in EndsAt /\ id \in Counted(id[2])
    PROVE  NothingInvented'
<1>1. SUFFICES ASSUME adapter # "companion", rewrites = 0, NEW id \in seen', id[1] \in {"record", "conflict"}
               PROVE  id[2] \in EndsAt' /\ id \in Counted(id[2])'
  BY DEF NothingInvented
<1>2. id[2] \in EndsAt /\ id \in Counted(id[2])
  BY <1>1 DEF NothingInvented
<1>3. EndsAt' = EndsAt /\ Counted(id[2])' = Counted(id[2])
  <2>1. /\ EndsAt' = EndsAt
        /\ \A e : StartOf(e)' = StartOf(e) /\ KindAt(e)' = KindAt(e)
    BY SameFile
  <2>2. QED
    BY <2>1 DEF Counted
<1>4. QED
  BY <1>2, <1>3

\* No pass in progress.
LEMMA IdleIsPass == Idle \in Pass /\ Idle.at = "idle"
<1>1. <<>> \in Seq(Bytes)
  BY EmptySeq
<1>2. QED
  BY <1>1, TailAssumption DEF Idle, Pass, Stages

\* A pass that ends, or a server that stops, keeps the store as it is.
LEMMA PassEnds ==
    ASSUME TailInv, pass' = Idle, UNCHANGED <<adapter, file, saved, seen, rewrites, base>>
    PROVE  TailInv'
<1>1. pass' \in Pass /\ pass'.at = "idle"
  BY IdleIsPass
<1>2. TailTypes'
  BY <1>1 DEF TailInv, TailTypes
<1>3. Offsets'
  BY <1>1 DEF TailInv, Offsets, Reads
<1>4. WellFormed' /\ Length' = Length
  BY SameFile DEF TailInv
<1>5. NothingInvented'
  BY NothingNew DEF TailInv
<1>6. adapter' # "companion" /\ Undisturbed' => Kept' /\ Held'
  <2>1. SUFFICES ASSUME adapter # "companion", Undisturbed PROVE Kept' /\ Held'
    BY DEF Undisturbed
  <2>2. Kept'
    BY <2>1, StillKept DEF TailInv
  <2>3. Held'
    BY <1>1 DEF Held, Reads
  <2>4. QED
    BY <2>2, <2>3
<1>7. adapter' = "companion" /\ rewrites' = 0 => Sampled'
  BY <1>1, <1>4 DEF TailInv, Sampled
<1>8. QED
  BY <1>2, <1>3, <1>4, <1>5, <1>6, <1>7 DEF TailInv

-----------------------------------------------------------------------------
(* The runtime.                                                            *)

\* A byte more changes nothing of what was read.
LEMMA AppendKeeps ==
    ASSUME TailInv, NEW b \in Bytes, Append1(b)
    PROVE  TailInv'
<1>1. /\ file' = [file EXCEPT !.data = Append(@, b)]
      /\ UNCHANGED <<adapter, saved, seen, pass, rewrites, base>>
      /\ IF Length \in EndsAt \cup {0} THEN b \in Kinds ELSE b \in {"body", "nl"}
  BY DEF Append1
<1>2. TailTypes /\ Offsets
  BY DEF TailInv
<1>3. /\ file'.data \in Seq(Bytes) /\ Length' = Length + 1 /\ Length \in Nat
      /\ \A i \in 1..Length : file'.data[i] = file.data[i]
      /\ file'.data[Length + 1] = b
      /\ \A i \in 1..Length : i \in EndsAt' <=> i \in EndsAt
      /\ \A e \in 1..Length : StartOf(e)' = StartOf(e) /\ KindAt(e)' = KindAt(e)
  BY <1>1, <1>2, Growth
<1>4. \A e \in 1..Length : (Owned(e)' <=> Owned(e)) /\ Counted(e)' = Counted(e)
  <2>1. ASSUME NEW e \in 1..Length PROVE Owned(e)' <=> Owned(e)
    BY <1>1, <1>3 DEF Owned
  <2>2. ASSUME NEW e \in 1..Length PROVE Counted(e)' = Counted(e)
    <3>1. KindAt(e)' = KindAt(e)
      BY <1>3
    <3>2. QED
      BY <1>1, <3>1 DEF Counted
  <2>3. QED
    BY <2>1, <2>2
<1>5. TailTypes'
  BY <1>1, <1>2, <1>3 DEF TailTypes
<1>6. Offsets'
  BY <1>1, <1>2 DEF Offsets, Reads
<1>7. WellFormed'
  <2>1. SUFFICES ASSUME NEW i \in 1..(Length + 1)
                 PROVE  IF i - 1 \in EndsAt' \cup {0} THEN file'.data[i] \in Kinds
                        ELSE file'.data[i] \in {"body", "nl"}
    BY <1>3 DEF WellFormed
  <2>2. i - 1 \in EndsAt' \cup {0} <=> i - 1 \in EndsAt \cup {0}
    <3>1. i - 1 = 0 \/ i - 1 \in 1..Length
      BY <1>3
    <3>2. QED
      BY <1>3, <3>1
  <2>3. CASE i \in 1..Length
    BY <1>3, <2>2, <2>3 DEF TailInv, WellFormed
  <2>4. CASE i \notin 1..Length
    <3>1. i = Length + 1 /\ i - 1 = Length
      BY <1>3, <2>4
    <3>2. QED
      BY <1>1, <1>3, <2>2, <3>1
  <2>5. QED
    BY <2>3, <2>4
<1>8. NothingInvented'
  <2>1. SUFFICES ASSUME adapter # "companion", rewrites = 0, NEW id \in seen,
                        id[1] \in {"record", "conflict"}
                 PROVE  id[2] \in EndsAt' /\ id \in Counted(id[2])'
    BY <1>1 DEF NothingInvented
  <2>2. id[2] \in EndsAt /\ id \in Counted(id[2])
    BY <2>1 DEF TailInv, NothingInvented
  <2>3. id[2] \in 1..Length
    BY <2>2 DEF EndsAt
  <2>4. QED
    BY <1>3, <1>4, <2>2, <2>3
<1>9. \A n \in Nat : n <= Length /\ Boundary(n) => Boundary(n)'
  <2>1. SUFFICES ASSUME NEW n \in Nat, n <= Length, Boundary(n) PROVE Boundary(n)'
    OBVIOUS
  <2>2. n \in EndsAt => n \in 1..Length
    BY DEF EndsAt
  <2>3. QED
    BY <1>1, <1>3, <2>1, <2>2 DEF Boundary
<1>10. \A n \in Nat : n <= Length /\ CountedTo(n) => CountedTo(n)'
  <2>1. SUFFICES ASSUME NEW n \in Nat, n <= Length, CountedTo(n), NEW e \in 1..n, Owned(e)'
                 PROVE  Counted(e)' \subseteq seen'
    BY DEF CountedTo
  <2>2. e \in 1..Length
    BY <1>3, <2>1
  <2>3. Owned(e) /\ Counted(e)' = Counted(e)
    BY <1>4, <2>1, <2>2
  <2>4. QED
    BY <1>1, <2>1, <2>3 DEF CountedTo
<1>11. adapter' # "companion" /\ Undisturbed' => Kept' /\ Held'
  <2>1. SUFFICES ASSUME adapter # "companion", Undisturbed PROVE Kept' /\ Held'
    BY <1>1 DEF Undisturbed
  <2>2. Kept /\ Held
    BY <2>1 DEF TailInv
  <2>3. /\ saved.offset \in Nat /\ pass.complete \in Nat /\ pass.read \in Nat /\ pass.next \in Nat
        /\ base.offset \in Nat /\ Len(pass.partial) \in Nat /\ Len(pass.records) \in Nat
    BY <1>2, LenProperties DEF TailTypes, Pass
  <2>4. Kept'
    BY <1>1, <1>3, <1>9, <1>10, <2>2, <2>3 DEF Kept
  <2>5. Reads =>
           /\ saved.offset <= pass.complete /\ pass.complete <= Length /\ pass.read <= Length
           /\ Boundary(pass.complete) /\ CountedTo(pass.complete)
    <3>1. SUFFICES ASSUME Reads PROVE pass.complete <= Length
      BY <2>2 DEF Held
    <3>2. pass.read <= Length /\ Length \in Nat
      BY <1>3, <2>2, <3>1 DEF Held
    <3>3. CASE pass.at = "read"
      BY <1>2, <2>3, <3>2, <3>3 DEF Offsets
    <3>4. CASE pass.at \in {"ingest", "agree"}
      BY <1>2, <2>3, <3>2, <3>4 DEF Offsets
    <3>5. QED
      BY <3>1, <3>3, <3>4 DEF Reads
  <2>6. Reads' =>
           /\ saved'.offset <= pass'.complete /\ pass'.read <= Length'
           /\ Boundary(pass.complete)' /\ CountedTo(pass.complete)'
    BY <1>1, <1>3, <1>9, <1>10, <2>3, <2>5 DEF Reads
  <2>7. ASSUME NEW bytes \in Seq(Bytes), NEW n \in Nat, n + Len(bytes) <= Length, Copies(bytes, n)
        PROVE  \A i \in 1..Len(bytes) : bytes[i] = file'.data[n + i]
    <3>1. SUFFICES ASSUME NEW i \in 1..Len(bytes) PROVE bytes[i] = file'.data[n + i]
      OBVIOUS
    <3>2. Len(bytes) \in Nat
      BY LenProperties
    <3>3. n + i \in 1..Length
      BY <1>3, <2>7, <3>2
    <3>4. QED
      BY <1>3, <2>7, <3>3 DEF Copies
  <2>8. pass.partial \in Seq(Bytes) /\ pass.records \in Seq(Bytes)
    BY <1>2 DEF TailTypes, Pass
  <2>9. ASSUME pass.at = "read" PROVE Copies(pass.partial, pass.complete)'
    <3>1. pass.complete + Len(pass.partial) <= Length /\ Copies(pass.partial, pass.complete)
      BY <1>2, <2>2, <2>9 DEF Held, Offsets, Reads
    <3>2. \A i \in 1..Len(pass.partial) : pass.partial[i] = file'.data[pass.complete + i]
      BY <2>3, <2>7, <2>8, <3>1
    <3>3. QED
      BY <1>1, <3>2 DEF Copies
  <2>10. ASSUME pass.at \in {"ingest", "agree"}
         PROVE  Copies(pass.records, pass.complete)' /\ Copies(pass.partial, pass.next)'
    <3>1. /\ pass.next = pass.complete + Len(pass.records) /\ pass.read = pass.next + Len(pass.partial)
          /\ pass.read <= Length
          /\ Copies(pass.records, pass.complete) /\ Copies(pass.partial, pass.next)
      BY <1>2, <2>2, <2>10 DEF Held, Offsets, Reads
    <3>2. pass.complete + Len(pass.records) <= Length /\ pass.next + Len(pass.partial) <= Length
      BY <1>3, <2>3, <3>1
    <3>3. /\ \A i \in 1..Len(pass.partial) : pass.partial[i] = file'.data[pass.next + i]
          /\ \A i \in 1..Len(pass.records) : pass.records[i] = file'.data[pass.complete + i]
      BY <2>3, <2>7, <2>8, <3>1, <3>2
    <3>4. QED
      BY <1>1, <3>3 DEF Copies
  <2>11. Held'
    BY <1>1, <2>6, <2>9, <2>10 DEF Held
  <2>12. QED
    BY <2>4, <2>11
<1>12. adapter' = "companion" /\ rewrites' = 0 => Sampled'
  <2>1. SUFFICES ASSUME adapter = "companion", rewrites = 0 PROVE Sampled'
    BY <1>1
  <2>2. saved.offset \in Nat /\ pass.next \in Nat
    BY <1>2 DEF TailTypes, Pass
  <2>3. QED
    BY <1>1, <1>3, <2>1, <2>2 DEF TailInv, Sampled
<1>13. QED
  BY <1>5, <1>6, <1>7, <1>8, <1>11, <1>12 DEF TailInv

\* A truncated or replaced file is no longer the one the cursor was established on.
LEMMA RewriteKeeps ==
    ASSUME TailInv, NEW inode \in Nat, NEW length \in Nat, Rewrite(inode, length)
    PROVE  TailInv'
<1>1. /\ length < Length /\ file' = [inode |-> inode, data |-> SubSeq(file.data, 1, length)]
      /\ rewrites' = rewrites + 1
      /\ UNCHANGED <<adapter, saved, seen, pass, base>>
  BY DEF Rewrite
<1>2. TailTypes /\ Offsets
  BY DEF TailInv
<1>3. file.data \in Seq(Bytes) /\ Length \in Nat /\ rewrites \in Nat /\ base.rewrites \in Nat
  BY <1>2, LenProperties DEF TailTypes, Length
<1>4. /\ file'.data \in Seq(Bytes) /\ Length' = length
      /\ \A i \in 1..length : file'.data[i] = file.data[i]
  <2> DEFINE data == file.data
             kept == SubSeq(data, 0 + 1, length)
  <2>1. /\ length \in 0..Len(data) /\ 0 \in 0..length /\ length - 0 = length /\ 0 + 1 = 1
        /\ \A i \in 1..length : 0 + i = i
    BY <1>1, <1>3 DEF Length
  <2>2. data \in Seq(Bytes) /\ file'.data = kept
    BY <1>1, <1>3, <2>1
  <2> HIDE DEF data
  <2>3. /\ kept \in Seq(Bytes) /\ Len(kept) = length - 0
        /\ \A i \in 1..(length - 0) : kept[i] = data[0 + i]
    BY <2>1, <2>2, Stretch
  <2> HIDE DEF kept
  <2>4. kept \in Seq(Bytes) /\ Len(kept) = length /\ \A i \in 1..length : kept[i] = data[i]
    BY <2>1, <2>3
  <2>5. QED
    BY <2>2, <2>4 DEF Length, data
<1>5. TailTypes'
  BY <1>1, <1>2, <1>3, <1>4 DEF TailTypes
<1>6. Offsets'
  BY <1>1, <1>2 DEF Offsets, Reads
<1>7. rewrites' # 0 /\ ~Undisturbed'
  BY <1>1, <1>2, <1>3 DEF Undisturbed, TailTypes
<1>8. WellFormed'
  <2>1. SUFFICES ASSUME NEW i \in 1..length
                 PROVE  IF i - 1 \in EndsAt' \cup {0} THEN file'.data[i] \in Kinds
                        ELSE file'.data[i] \in {"body", "nl"}
    BY <1>4 DEF WellFormed
  <2>2. i \in 1..Length /\ (i - 1 = 0 \/ (i - 1 \in 1..length /\ i - 1 \in 1..Length))
    BY <1>1, <1>3
  <2>3. i - 1 \in EndsAt' \cup {0} <=> i - 1 \in EndsAt \cup {0}
    BY <1>4, <2>2 DEF EndsAt
  <2>4. QED
    BY <1>4, <2>2, <2>3 DEF TailInv, WellFormed
<1>9. NothingInvented'
  BY <1>7 DEF NothingInvented
<1>10. QED
  BY <1>5, <1>6, <1>7, <1>8, <1>9 DEF TailInv

-----------------------------------------------------------------------------
(* The steps of a pass.                                                    *)

\* A pass reads on from the durable cursor.
LEMMA StartKeeps ==
    ASSUME TailInv, NEW v \in Versions, StartPass(v)
    PROVE  TailInv'
<1> DEFINE at == IF adapter = "companion" THEN "sample"
                 ELSE IF saved # None THEN "read"
                 ELSE IF adapter = "codex" THEN "tail" ELSE "baseline"
<1>1. /\ pass' = [Idle EXCEPT !.at = at, !.inode = saved.inode, !.read = saved.offset,
                    !.complete = saved.offset, !.version = v]
      /\ UNCHANGED <<adapter, file, saved, seen, rewrites, base>>
  BY DEF StartPass
<1>2. TailTypes /\ Offsets
  BY DEF TailInv
<1>3. /\ pass' = [at |-> at, inode |-> saved.inode, read |-> saved.offset, complete |-> saved.offset,
                  partial |-> <<>>, records |-> <<>>, next |-> 0, more |-> FALSE, batches |-> 0,
                  version |-> v]
      /\ at \in Stages
  BY <1>1 DEF Idle, Stages
<1>4. <<>> \in Seq(Bytes) /\ Len(<<>>) = 0
  BY EmptySeq
<1>5. pass' \in Pass
  BY <1>2, <1>3, <1>4 DEF TailTypes, Pass
<1>6. TailTypes'
  BY <1>1, <1>2, <1>5 DEF TailTypes
<1>7. at = "read" => saved # None
  OBVIOUS
<1>8. /\ pass'.at = at /\ pass'.inode = saved.inode /\ pass'.read = saved.offset
      /\ pass'.complete = saved.offset /\ pass'.partial = <<>>
  BY <1>3
<1>9. /\ at \notin {"ingest", "agree", "activity", "mark"}
      /\ IF adapter = "companion" THEN at = "sample" ELSE at # "sample"
  OBVIOUS
<1> HIDE DEF at
<1>10. Offsets'
  BY <1>1, <1>2, <1>4, <1>7, <1>8, <1>9 DEF Offsets, Reads, TailTypes
<1>11. WellFormed' /\ Length' = Length /\ EndsAt' = EndsAt
  BY <1>1, SameFile DEF TailInv
<1>12. NothingInvented'
  BY <1>1, NothingNew DEF TailInv
<1>13. adapter' # "companion" /\ Undisturbed' => Kept' /\ Held'
  <2>1. SUFFICES ASSUME adapter # "companion", Undisturbed PROVE Kept' /\ Held'
    BY <1>1 DEF Undisturbed
  <2>2. Kept'
    BY <1>1, <2>1, StillKept DEF TailInv
  <2>3. Copies(pass.partial, pass.complete)'
    BY <1>4, <1>8 DEF Copies
  <2>4. Reads' => /\ saved'.offset <= pass'.complete /\ pass'.read <= Length'
                  /\ Boundary(pass.complete)' /\ CountedTo(pass.complete)'
    BY <1>1, <1>2, <1>8, <2>2 DEF Kept, Boundary, CountedTo, TailTypes
  <2>5. Held'
    BY <1>8, <1>9, <2>3, <2>4 DEF Held
  <2>6. QED
    BY <2>2, <2>5
<1>14. adapter' = "companion" /\ rewrites' = 0 => Sampled'
  BY <1>1, <1>8, <1>9, <1>11 DEF TailInv, Sampled
<1>15. QED
  BY <1>6, <1>10, <1>11, <1>12, <1>13, <1>14 DEF TailInv

\* The tail of a rollout only sets what the session starts from.
LEMMA TailKeeps ==
    ASSUME TailInv, BootstrapTail
    PROVE  TailInv'
<1>1. /\ pass.at = "tail" /\ pass' = [Idle EXCEPT !.at = "baseline"]
      /\ UNCHANGED <<adapter, file, saved, rewrites, base>>
      /\ seen' = seen \cup {<<"tail", Length>>} \/ seen' = seen
  BY DEF BootstrapTail, Apply
<1>2. TailTypes /\ Offsets
  BY DEF TailInv
<1>3. pass' \in Pass /\ pass'.at = "baseline"
  <2>1. Idle \in Pass
    BY IdleIsPass
  <2>2. QED
    BY <1>1, <2>1 DEF Pass, Stages
<1>4. TailTypes'
  BY <1>1, <1>2, <1>3 DEF TailTypes
<1>5. Offsets'
  BY <1>1, <1>2, <1>3 DEF Offsets, Reads
<1>6. WellFormed' /\ Length' = Length
  BY <1>1, SameFile DEF TailInv
<1>7. NothingInvented'
  <2>1. \A id \in seen' : id \in seen \/ id[1] \notin {"record", "conflict"}
    BY <1>1
  <2>2. QED
    BY <1>1, <2>1, NothingNew DEF TailInv
<1>8. adapter' # "companion" /\ Undisturbed' => Kept' /\ Held'
  <2>1. SUFFICES ASSUME adapter # "companion", Undisturbed PROVE Kept' /\ Held'
    BY <1>1 DEF Undisturbed
  <2>2. Kept'
    <3>1. seen \subseteq seen'
      BY <1>1
    <3>2. QED
      BY <1>1, <2>1, <3>1, StillKept DEF TailInv
  <2>3. Held'
    BY <1>3 DEF Held, Reads
  <2>4. QED
    BY <2>2, <2>3
<1>9. adapter' = "companion" /\ rewrites' = 0 => Sampled'
  BY <1>1, <1>2 DEF Offsets
<1>10. QED
  BY <1>4, <1>5, <1>6, <1>7, <1>8, <1>9 DEF TailInv

\* A new boundary is the end of the file: no record that ends there began after it.
LEMMA EstablishKeeps ==
    ASSUME TailInv, adapter # "companion", Establish
    PROVE  TailInv'
<1>1. pass' = Idle /\ UNCHANGED <<adapter, file, seen, rewrites>>
  BY DEF Establish, Leave
<1>2. CASE UNCHANGED <<saved, base>>
  BY <1>1, <1>2, PassEnds
<1>3. CASE /\ saved' = [inode |-> file.inode, offset |-> Length]
           /\ base' = [rewrites |-> rewrites, offset |-> Length]
  <2>1. TailTypes /\ Offsets
    BY DEF TailInv
  <2>2. pass' \in Pass /\ pass'.at = "idle"
    BY <1>1, IdleIsPass
  <2>3. Length \in Nat /\ file.inode \in Nat
    BY <2>1, LenProperties DEF TailTypes, Length
  <2>4. TailTypes'
    BY <1>1, <1>3, <2>1, <2>2, <2>3 DEF TailTypes
  <2>5. Offsets'
    BY <1>1, <1>3, <2>1, <2>2, <2>3 DEF Offsets, Reads
  <2>6. WellFormed' /\ Length' = Length /\ EndsAt' = EndsAt /\ \A e : StartOf(e)' = StartOf(e)
    BY <1>1, SameFile DEF TailInv
  <2>7. NothingInvented'
    BY <1>1, NothingNew DEF TailInv
  <2>8. Kept'
    <3>1. ASSUME NEW e \in 1..Length PROVE ~Owned(e)'
      <4>1. StartOf(e) \in Nat /\ StartOf(e) < e
        BY <2>1, StartOfRecord
      <4>2. ~(StartOf(e)' >= base'.offset)
        BY <1>3, <2>3, <2>6, <4>1
      <4>3. QED
        BY <4>2 DEF Owned
    <3>2. CountedTo(saved.offset)'
      BY <1>3, <3>1 DEF CountedTo
    <3>3. QED
      BY <1>3, <2>3, <2>6, <3>2 DEF Kept, Boundary
  <2>9. Held'
    BY <2>2 DEF Held, Reads
  <2>10. QED
    BY <1>1, <2>4, <2>5, <2>6, <2>7, <2>8, <2>9 DEF TailInv
<1>4. QED
  BY <1>2, <1>3 DEF Establish

\* A batch holds what the file says next.
LEMMA ReadKeeps ==
    ASSUME TailInv, ReadBatch
    PROVE  TailInv'
<1>1. pass.at = "read" /\ UNCHANGED <<adapter, file, saved, seen, rewrites, base>>
  BY DEF ReadBatch
<1>2. TailTypes /\ Offsets /\ adapter # "companion" /\ pass \in Pass
  BY <1>1 DEF TailInv, Offsets, TailTypes
<1>3. WellFormed' /\ Length' = Length /\ EndsAt' = EndsAt
  BY <1>1, SameFile DEF TailInv
<1>4. NothingInvented'
  BY <1>1, NothingNew DEF TailInv
<1>5. Undisturbed => Kept'
  BY <1>1, <1>2, StillKept DEF TailInv
<1>6. CASE ReconcileRequired(pass)
  <2>1. pass' = [Idle EXCEPT !.at = "recover"]
    BY <1>6 DEF ReadBatch
  <2>2. pass' \in Pass /\ pass'.at = "recover"
    <3>1. Idle \in Pass
      BY IdleIsPass
    <3>2. QED
      BY <2>1, <3>1 DEF Pass, Stages
  <2>3. TailTypes'
    BY <1>1, <1>2, <2>2 DEF TailTypes
  <2>4. Offsets'
    BY <1>1, <1>2, <2>2 DEF Offsets, Reads
  <2>5. Held'
    BY <2>2 DEF Held, Reads
  <2>6. Undisturbed' <=> Undisturbed
    BY <1>1 DEF Undisturbed
  <2>7. QED
    BY <1>1, <1>2, <1>3, <1>4, <1>5, <2>3, <2>4, <2>5, <2>6 DEF TailInv
<1>7. CASE ~ReconcileRequired(pass)
  <2> DEFINE batch == ReadAppended(pass)
  <2>1. pass' = [pass EXCEPT !.at = "ingest", !.records = batch.records,
                   !.read = batch.read, !.partial = batch.partial,
                   !.next = batch.complete, !.more = batch.more]
    BY <1>7 DEF ReadBatch
  <2>2. pass.read = pass.complete + Len(pass.partial) /\ pass.read <= Length
    <3>1. ~(Length < pass.read) /\ pass.read \in Nat /\ Length \in Nat
      BY <1>2, <1>7, LenProperties DEF ReconcileRequired, Pass, TailTypes, Length
    <3>2. QED
      BY <1>1, <1>2, <3>1 DEF Offsets
  <2>3. /\ batch.records \in Seq(Bytes) /\ batch.partial \in Seq(Bytes)
        /\ batch.read \in Nat /\ batch.complete \in Nat /\ batch.more \in BOOLEAN
        /\ batch.complete = pass.complete + Len(batch.records)
        /\ batch.read = batch.complete + Len(batch.partial)
        /\ batch.read <= Length
        /\ batch.records # <<>> => batch.records[Len(batch.records)] = "nl"
        /\ Copies(pass.partial, pass.complete) =>
              Copies(batch.records, pass.complete) /\ Copies(batch.partial, batch.complete)
    BY <1>2, <2>2, BatchIsCopy
  <2> HIDE DEF batch
  <2>4. /\ pass' \in Pass /\ pass'.at = "ingest" /\ pass'.records = batch.records
        /\ pass'.read = batch.read /\ pass'.partial = batch.partial /\ pass'.next = batch.complete
        /\ pass'.complete = pass.complete /\ pass'.inode = pass.inode
    BY <1>2, <2>1, <2>3 DEF Pass, Stages
  <2>5. TailTypes'
    BY <1>1, <1>2, <2>4 DEF TailTypes
  <2>6. Offsets'
    BY <1>1, <1>2, <2>3, <2>4 DEF Offsets, Reads
  <2>7. ASSUME Undisturbed PROVE Held'
    <3>1. Held
      BY <1>2, <2>7 DEF TailInv
    <3>2. /\ saved.offset <= pass.complete /\ Boundary(pass.complete) /\ CountedTo(pass.complete)
          /\ Copies(pass.partial, pass.complete)
      BY <1>1, <3>1 DEF Held, Reads
    <3>3. /\ saved'.offset <= pass'.complete /\ pass'.read <= Length'
          /\ Boundary(pass.complete)'
      BY <1>1, <1>3, <2>3, <2>4, <3>2 DEF Boundary
    <3>4. CountedTo(pass.complete)'
      <4>1. \A e \in 1..pass.complete : Owned(e)' => Counted(e)' \subseteq seen'
        BY <1>1, <3>2, StillCounted
      <4>2. QED
        BY <2>4, <4>1 DEF CountedTo
    <3>5. Copies(pass.records, pass.complete)' /\ Copies(pass.partial, pass.next)'
      BY <1>1, <2>3, <2>4, <3>2 DEF Copies
    <3>6. QED
      BY <2>4, <3>3, <3>4, <3>5 DEF Held
  <2>8. Undisturbed' <=> Undisturbed
    BY <1>1 DEF Undisturbed
  <2>9. QED
    BY <1>1, <1>2, <1>3, <1>4, <1>5, <2>5, <2>6, <2>7, <2>8 DEF TailInv
<1>8. QED
  BY <1>6, <1>7

\* What Counted says is what the record's kind calls for.
LEMMA CountedIsExpected == \A e : Counted(e) = Expected(KindAt(e), e)
  BY DEF Counted, Expected

\* A record that counts is one that the file itself opens with a head, so that the reader
\* and the file agree on where it begins.
LEMMA HeadOpensRecord ==
    ASSUME TailTypes, Offsets, WellFormed, Held, pass.at = "ingest", pass.records # <<>>,
           Expected(Kind, RecordKey) # {}
    PROVE  KindAt(RecordKey) = Kind
<1> DEFINE c == pass.complete
           n == FirstEnd
           bytes == pass.records
           word == SubSeq(bytes, 0 + 1, n - 1)
<1>1. /\ RecordKey \in EndsAt /\ RecordKey <= Length
      /\ \A i \in (c + 1)..(RecordKey - 1) : i \notin EndsAt
      /\ StartOf(RecordKey) = c => KindAt(RecordKey) = Kind
  BY NextRecord
<1>2. n \in 1..Len(bytes) /\ Len(bytes) \in Nat /\ RecordKey = c + n
  BY FirstEndIsFirst DEF RecordKey
<1>3. c \in Nat /\ bytes \in Seq(Bytes) /\ Length \in Nat
  BY LenProperties DEF TailTypes, Pass, Length
<1>4. Kind = Parsed(word)
  <2>1. 0 + 1 = 1
    OBVIOUS
  <2>2. QED
    BY <2>1 DEF Kind
<1>5. Kind \in {"run", "done", "conflict"}
  BY DEF Expected
<1>6. word # <<>> /\ word[1] \in Kinds
  <2> HIDE DEF word
  <2>1. Kind # "garbage"
    BY <1>5
  <2>2. QED
    BY <1>4, <2>1 DEF Parsed
<1> HIDE DEF n, bytes
<1>7. /\ word \in Seq(Bytes) /\ Len(word) = n - 1 - 0
      /\ \A i \in 1..(n - 1 - 0) : word[i] = bytes[0 + i]
  <2>1. n - 1 \in 0..Len(bytes) /\ 0 \in 0..(n - 1)
    BY <1>2
  <2>2. QED
    BY <1>3, <2>1, Stretch
<1> HIDE DEF word
<1>8. n >= 2 /\ word[1] = bytes[1]
  <2>1. Len(word) \in Nat \ {0}
    BY <1>6, <1>7, EmptySeq
  <2>2. n - 1 - 0 >= 1 /\ 0 + 1 = 1
    BY <1>2, <1>7, <2>1
  <2>3. n >= 2 /\ 1 \in 1..(n - 1 - 0)
    BY <1>2, <2>2
  <2>4. QED
    BY <1>7, <2>2, <2>3
<1>9. bytes[1] = file.data[c + 1]
  BY <1>2 DEF Held, Copies, bytes
<1> HIDE DEF c
<1>10. c + 1 \in 1..Length /\ c + 1 - 1 = c
  BY <1>1, <1>2, <1>3, <1>8
<1>11. c \in EndsAt \cup {0}
  <2>1. file.data[c + 1] \in Kinds
    BY <1>6, <1>8, <1>9
  <2>2. file.data[c + 1] \notin {"body", "nl"}
    BY <2>1, TailAssumption
  <2> DEFINE i == c + 1
  <2>3. i \in 1..Length /\ i - 1 = c
    BY <1>3, <1>10 DEF c
  <2>4. file.data[i] \notin {"body", "nl"}
    BY <2>2
  <2> HIDE DEF i
  <2>5. QED
    BY <2>3, <2>4 DEF WellFormed
<1>12. StartOf(RecordKey) = c
  <2>1. RecordKey \in 1..Length
    BY <1>1, <1>2, <1>3
  <2>2. /\ StartOf(RecordKey) \in Nat /\ StartOf(RecordKey) < RecordKey
        /\ StartOf(RecordKey) = 0 \/ StartOf(RecordKey) \in EndsAt
        /\ \A i \in EndsAt : i < RecordKey => i <= StartOf(RecordKey)
    BY <2>1, StartOfRecord
  <2>3. c < RecordKey
    BY <1>2, <1>3
  <2>4. c <= StartOf(RecordKey)
    BY <1>3, <1>11, <2>2, <2>3
  <2>5. ~(StartOf(RecordKey) > c)
    <3>1. SUFFICES ASSUME StartOf(RecordKey) > c PROVE FALSE
      OBVIOUS
    <3>2. RecordKey \in Nat
      BY <2>1
    <3>3. StartOf(RecordKey) \in (c + 1)..(RecordKey - 1)
      BY <1>3, <2>2, <3>1, <3>2
    <3>4. StartOf(RecordKey) \notin EndsAt
      BY <1>1, <3>3 DEF c
    <3>5. QED
      BY <1>3, <2>2, <3>1, <3>4
  <2>6. QED
    BY <1>3, <2>2, <2>4, <2>5
<1>13. QED
  BY <1>1, <1>12 DEF c

\* A record ingested, with all that it calls for, leaves nothing behind and adds nothing
\* the file does not say.
LEMMA IngestKeeps ==
    ASSUME TailInv, adapter # "companion", pass.at = "ingest", pass.records # <<>>,
           UNCHANGED <<adapter, file, saved, rewrites, base>>,
           pass' = Rest \/ pass' = [Rest EXCEPT !.at = "agree"],
           seen \subseteq seen', Expected(Kind, RecordKey) \subseteq seen',
           \A id \in seen' : \/ id \in seen \/ id[1] \notin {"record", "conflict"}
                             \/ id \in Expected(Kind, RecordKey)
    PROVE  TailInv'
<1>1. TailTypes /\ Offsets /\ WellFormed /\ saved # None /\ pass.inode \in Nat /\ pass \in Pass
  BY DEF TailInv, Offsets, Reads, TailTypes
<1>2. /\ Rest \in Pass /\ Rest.at = "ingest" /\ RecordKey \in Nat
      /\ Rest.complete = RecordKey /\ pass.complete < RecordKey
      /\ Rest.next = pass.next /\ Rest.read = pass.read /\ Rest.partial = pass.partial
      /\ Rest.next = Rest.complete + Len(Rest.records)
      /\ Rest.records # <<>> => Rest.records[Len(Rest.records)] = "nl"
  BY <1>1, RestOfBatch
<1>3. Rest.inode = pass.inode
  BY <1>1 DEF Rest, Pass
<1>4. /\ pass' \in Pass /\ pass'.at \in {"ingest", "agree"} /\ pass'.complete = RecordKey
      /\ pass'.next = pass.next /\ pass'.read = pass.read /\ pass'.partial = pass.partial
      /\ pass'.records = Rest.records /\ pass'.inode = pass.inode
  BY <1>2, <1>3 DEF Pass, Stages
<1>5. TailTypes'
  BY <1>1, <1>4 DEF TailTypes
<1>6. Offsets'
  <2>1. pass.read = pass.next + Len(pass.partial)
    BY <1>1 DEF Offsets
  <2>2. /\ pass'.next = pass'.complete + Len(pass'.records)
        /\ pass'.read = pass'.next + Len(pass'.partial)
        /\ pass'.records # <<>> => pass'.records[Len(pass'.records)] = "nl"
    BY <1>2, <1>4, <2>1, ZenonT(40)
  <2>3. saved' # None /\ saved'.inode \in Nat /\ pass'.inode \in Nat
    BY <1>1, <1>4 DEF Offsets
  <2>4. QED
    BY <1>4, <2>2, <2>3 DEF Offsets, Reads
<1>7. WellFormed' /\ Length' = Length /\ EndsAt' = EndsAt
  BY SameFile DEF TailInv
<1>8. Undisturbed' <=> Undisturbed
  BY DEF Undisturbed
<1>9. NothingInvented'
  <2>1. rewrites = 0 =>
            \A id \in seen' : \/ id \in seen
                              \/ id[1] \notin {"record", "conflict"}
                              \/ id[2] \in EndsAt /\ id \in Counted(id[2])
    <3>1. SUFFICES ASSUME rewrites = 0, NEW id \in Expected(Kind, RecordKey)
                   PROVE  id[2] \in EndsAt /\ id \in Counted(id[2])
      OBVIOUS
    <3>2. Undisturbed
      BY <1>1, <3>1 DEF Undisturbed, TailTypes
    <3>3. Held
      BY <3>2 DEF TailInv
    <3>4. KindAt(RecordKey) = Kind
      BY <1>1, <3>1, <3>3, HeadOpensRecord
    <3>5. RecordKey \in EndsAt
      BY <1>1, <3>3, NextRecord
    <3>6. id[2] = RecordKey
      BY <3>1 DEF Expected
    <3>7. QED
      BY <3>1, <3>4, <3>5, <3>6, CountedIsExpected
  <2>2. NothingInvented /\ UNCHANGED <<adapter, file, rewrites>>
    BY DEF TailInv
  <2>3. QED
    BY <2>1, <2>2, NothingNew, Zenon
<1>10. ASSUME Undisturbed PROVE Kept' /\ Held'
  <2>1. Kept /\ Held
    BY <1>10 DEF TailInv
  <2>2. Kept'
    BY <2>1, StillKept
  <2>3. /\ RecordKey \in EndsAt /\ RecordKey <= Length
        /\ \A i \in (pass.complete + 1)..(RecordKey - 1) : i \notin EndsAt
        /\ Owned(RecordKey) => StartOf(RecordKey) = pass.complete
        /\ StartOf(RecordKey) = pass.complete => KindAt(RecordKey) = Kind
        /\ \A i \in 1..Len(Rest.records) : Rest.records[i] = file.data[RecordKey + i]
    BY <1>1, <2>1, NextRecord
  <2>4. /\ saved.offset <= pass.complete /\ pass.read <= Length /\ CountedTo(pass.complete)
        /\ Copies(pass.partial, pass.next)
    BY <2>1 DEF Held, Reads
  <2>5. \A e \in 1..RecordKey : Owned(e)' => Counted(e)' \subseteq seen'
    <3>1. SUFFICES ASSUME NEW e \in 1..RecordKey, Owned(e)' PROVE Counted(e)' \subseteq seen'
      OBVIOUS
    <3>2. Owned(e) /\ Counted(e)' = Counted(e)
      BY <3>1, SameRecords
    <3>3. CASE e \in 1..pass.complete
      BY <2>4, <3>2, <3>3 DEF CountedTo
    <3>4. CASE e = RecordKey
      <4>1. KindAt(e) = Kind
        BY <2>3, <3>2, <3>4
      <4>2. QED
        BY <3>2, <3>4, <4>1, CountedIsExpected
    <3>5. CASE e \notin 1..pass.complete /\ e # RecordKey
      <4>0. pass.complete \in Nat /\ RecordKey \in Nat
        BY <1>1, <1>2 DEF Pass
      <4>1. e \in (pass.complete + 1)..(RecordKey - 1)
        BY <3>5, <4>0
      <4>2. QED
        BY <2>3, <3>2, <4>1 DEF Owned
    <3>6. QED
      BY <3>3, <3>4, <3>5
  <2>6. /\ saved'.offset <= pass'.complete /\ pass'.read <= Length'
        /\ Boundary(pass.complete)' /\ CountedTo(pass.complete)'
    <3>1. saved.offset \in Nat /\ pass.complete \in Nat
      BY <1>1 DEF TailTypes, Pass
    <3>2. saved'.offset <= pass'.complete
      BY <1>2, <1>4, <2>4, <3>1
    <3>3. CountedTo(pass.complete)'
      BY <1>4, <2>5 DEF CountedTo
    <3>4. pass'.read <= Length' /\ Boundary(pass.complete)'
      BY <1>4, <1>7, <2>3, <2>4 DEF Boundary
    <3>5. QED
      BY <3>2, <3>3, <3>4
  <2>7. Copies(pass.records, pass.complete)' /\ Copies(pass.partial, pass.next)'
    BY <1>4, <2>3, <2>4 DEF Copies
  <2>8. Held'
    BY <1>4, <2>6, <2>7 DEF Held
  <2>9. QED
    BY <2>2, <2>8
<1>11. QED
  BY <1>5, <1>6, <1>7, <1>8, <1>9, <1>10 DEF TailInv

\* A failed ingest ends the pass, or drops an observation no cursor waits for.
LEMMA FailureKeeps ==
    ASSUME TailInv, adapter # "companion", pass.at = "ingest", pass.records # <<>>, IngestFails,
           UNCHANGED <<adapter, file, saved, rewrites, base>>
    PROVE  TailInv'
<1>1. seen' = seen /\ IF Optional(Kind) THEN pass' = Rest ELSE pass' = Idle
  BY DEF IngestFails, Leave
<1>2. CASE Optional(Kind)
  <2>1. adapter \in {"claude", "codex"}
    BY DEF TailInv, TailTypes
  <2>2. Expected(Kind, RecordKey) = {}
    BY <1>2, <2>1 DEF Optional, Expected
  <2>3. QED
    BY <1>1, <1>2, <2>2, IngestKeeps
<1>3. CASE ~Optional(Kind)
  BY <1>1, <1>3, PassEnds
<1>4. QED
  BY <1>2, <1>3

\* A record of a transcript.
LEMMA ClaudeKeeps ==
    ASSUME TailInv, IngestClaudeRecord
    PROVE  TailInv'
<1>1. /\ adapter = "claude" /\ pass.at = "ingest" /\ pass.records # <<>>
      /\ UNCHANGED <<adapter, file, saved, rewrites, base>>
  BY DEF IngestClaudeRecord
<1>2. CASE /\ IngestClaude(Kind)
           /\ pass' = IF Kind = "run" /\ session.conflict THEN [Rest EXCEPT !.at = "agree"] ELSE Rest
  <2>1. /\ seen \subseteq seen' /\ Expected(Kind, RecordKey) \subseteq seen'
        /\ \A id \in seen' : \/ id \in seen \/ id[1] \notin {"record", "conflict"}
                             \/ id \in Expected(Kind, RecordKey)
    <3>1. CASE Kind = "run"
      BY <1>1, <1>2, <3>1 DEF IngestClaude, Apply, Expected
    <3>2. CASE Kind = "conflict"
      BY <1>1, <1>2, <3>2 DEF IngestClaude, Apply, Expected
    <3>3. CASE Kind \notin {"run", "conflict"}
      <4>1. Expected(Kind, RecordKey) = {}
        BY <1>1, <3>3 DEF Expected
      <4>2. CASE Kind = "drifted"
        BY <1>2, <4>1, <4>2 DEF IngestClaude, WarnClaude, Apply
      <4>3. CASE Kind = "tested"
        BY <1>2, <4>1, <4>3 DEF IngestClaude, ResolveClaude, Apply
      <4>4. CASE Kind \notin {"drifted", "tested"}
        BY <1>2, <3>3, <4>1, <4>4 DEF IngestClaude
      <4>5. QED
        BY <4>2, <4>3, <4>4
    <3>4. QED
      BY <3>1, <3>2, <3>3
  <2>2. pass' = Rest \/ pass' = [Rest EXCEPT !.at = "agree"]
    BY <1>2
  <2>3. QED
    BY <1>1, <2>1, <2>2, IngestKeeps
<1>3. CASE IngestFails
  BY <1>1, <1>3, FailureKeeps
<1>4. QED
  BY <1>2, <1>3 DEF IngestClaudeRecord

\* A record of a rollout.
LEMMA CodexKeeps ==
    ASSUME TailInv, IngestCodexRecord
    PROVE  TailInv'
<1>1. /\ adapter = "codex" /\ pass.at = "ingest" /\ pass.records # <<>>
      /\ UNCHANGED <<adapter, file, saved, rewrites, base>>
  BY DEF IngestCodexRecord
<1>2. CASE IngestCodex(Kind) /\ pass' = Rest
  <2>1. /\ seen \subseteq seen' /\ Expected(Kind, RecordKey) \subseteq seen'
        /\ \A id \in seen' : \/ id \in seen \/ id[1] \notin {"record", "conflict"}
                             \/ id \in Expected(Kind, RecordKey)
    <3>1. CASE Kind \in {"run", "done"}
      BY <1>1, <1>2, <3>1 DEF IngestCodex, Apply, Expected
    <3>2. CASE Kind \notin {"run", "done"}
      <4>1. Expected(Kind, RecordKey) = {}
        BY <1>1, <3>2 DEF Expected
      <4>2. CASE pass.version = "drifted"
        BY <1>2, <3>2, <4>1, <4>2 DEF IngestCodex, WarnCodex, Apply
      <4>3. CASE pass.version = "tested"
        BY <1>2, <3>2, <4>1, <4>3 DEF IngestCodex, ResolveCodex, Apply
      <4>4. CASE pass.version \notin {"drifted", "tested"}
        BY <1>2, <3>2, <4>1, <4>4 DEF IngestCodex
      <4>5. QED
        BY <4>2, <4>3, <4>4
    <3>3. QED
      BY <3>1, <3>2
  <2>2. QED
    BY <1>1, <1>2, <2>1, IngestKeeps
<1>3. CASE IngestFails
  BY <1>1, <1>3, FailureKeeps
<1>4. QED
  BY <1>2, <1>3 DEF IngestCodexRecord

\* Whether a conflict is answered or not, the pass goes on where it was.
LEMMA ResolveKeeps ==
    ASSUME TailInv, ResolveConflict
    PROVE  TailInv'
<1>1. /\ pass.at = "agree" /\ pass' = [pass EXCEPT !.at = "ingest"]
      /\ UNCHANGED <<adapter, file, saved, rewrites, base>>
      /\ seen' = seen \cup {<<"agreed", pass.complete>>} \/ seen' = seen
  BY DEF ResolveConflict, Apply
<1>2. TailTypes /\ Offsets /\ pass \in Pass
  BY DEF TailInv, TailTypes
<1>3. /\ pass' \in Pass /\ pass'.at = "ingest" /\ pass'.complete = pass.complete
      /\ pass'.next = pass.next /\ pass'.read = pass.read /\ pass'.partial = pass.partial
      /\ pass'.records = pass.records /\ pass'.inode = pass.inode
  BY <1>1, <1>2 DEF Pass, Stages
<1>4. TailTypes'
  BY <1>1, <1>2, <1>3 DEF TailTypes
<1>5. Offsets'
  BY <1>1, <1>2, <1>3 DEF Offsets, Reads
<1>6. WellFormed' /\ Length' = Length /\ EndsAt' = EndsAt
  BY <1>1, SameFile DEF TailInv
<1>7. NothingInvented'
  <2>1. \A id \in seen' : id \in seen \/ id[1] \notin {"record", "conflict"}
    BY <1>1
  <2>2. QED
    BY <1>1, <2>1, NothingNew DEF TailInv
<1>8. adapter # "companion"
  BY <1>1, <1>2 DEF Offsets
<1>9. ASSUME Undisturbed PROVE Kept' /\ Held'
  <2>1. Kept /\ Held /\ seen \subseteq seen'
    BY <1>1, <1>8, <1>9 DEF TailInv
  <2>2. Kept'
    BY <1>1, <2>1, StillKept
  <2>3. /\ saved.offset <= pass.complete /\ pass.read <= Length
        /\ Boundary(pass.complete) /\ CountedTo(pass.complete)
        /\ Copies(pass.records, pass.complete) /\ Copies(pass.partial, pass.next)
    BY <1>1, <2>1 DEF Held, Reads
  <2>4. CountedTo(pass.complete)'
    <3>1. \A e \in 1..pass.complete : Owned(e)' => Counted(e)' \subseteq seen'
      BY <1>1, <2>1, <2>3, StillCounted
    <3>2. QED
      BY <1>3, <3>1 DEF CountedTo
  <2>5. /\ saved'.offset <= pass'.complete /\ pass'.read <= Length' /\ Boundary(pass.complete)'
        /\ Copies(pass.records, pass.complete)' /\ Copies(pass.partial, pass.next)'
    BY <1>1, <1>3, <1>6, <2>3 DEF Boundary, Copies
  <2>6. Held'
    BY <1>3, <2>4, <2>5 DEF Held
  <2>7. QED
    BY <2>2, <2>6
<1>10. Undisturbed' <=> Undisturbed
  BY <1>1 DEF Undisturbed
<1>11. QED
  BY <1>1, <1>4, <1>5, <1>6, <1>7, <1>8, <1>9, <1>10 DEF TailInv

\* The cursor saved is what the pass has ingested.
LEMMA SaveKeeps ==
    ASSUME TailInv, SaveCursor
    PROVE  TailInv'
<1>1. /\ pass.at = "ingest" /\ pass.records = <<>>
      /\ UNCHANGED <<adapter, file, seen, rewrites, base>>
  BY DEF SaveCursor
<1>2. TailTypes /\ Offsets /\ pass \in Pass /\ adapter # "companion"
  BY <1>1 DEF TailInv, TailTypes, Offsets
<1>3. CASE Leave /\ UNCHANGED saved
  BY <1>1, <1>3, PassEnds DEF Leave
<1>4. CASE saved' = Persisted /\ NextBatch
  <2>1. /\ pass.next = pass.complete /\ pass.read = pass.complete + Len(pass.partial)
        /\ pass.complete \in Nat /\ pass.inode \in Nat /\ saved # None
    <3>1. Len(<<>>) = 0
      BY EmptySeq
    <3>2. /\ pass.next = pass.complete + 0 /\ pass.read = pass.next + Len(pass.partial)
          /\ pass.complete \in Nat /\ pass.inode \in Nat /\ saved # None
      BY <1>1, <1>2, <3>1 DEF Offsets, Reads, Pass
    <3>3. QED
      BY <3>2
  <2>2. /\ saved' = [inode |-> pass.inode, offset |-> pass.complete]
        /\ saved' # None /\ saved'.inode \in Nat /\ saved'.offset = pass.complete
    BY <1>4, <2>1 DEF Persisted, None
  <2>3. \/ pass' = Idle
        \/ pass' = [pass EXCEPT !.at = "read", !.batches = @ + 1, !.next = 0, !.more = FALSE]
    BY <1>4 DEF NextBatch, Leave
  <2>4. /\ pass' \in Pass /\ pass'.at \in {"idle", "read"}
        /\ pass'.at = "read" => /\ pass'.complete = pass.complete /\ pass'.read = pass.read
                                /\ pass'.partial = pass.partial /\ pass'.inode = pass.inode
    <3>1. CASE pass' = Idle
      BY <3>1, IdleIsPass
    <3>2. CASE pass' = [pass EXCEPT !.at = "read", !.batches = @ + 1, !.next = 0, !.more = FALSE]
      <4>1. pass.batches + 1 \in Nat /\ 0 \in Nat /\ FALSE \in BOOLEAN /\ "read" \in Stages
        BY <1>2 DEF Pass, Stages
      <4>2. pass' \in Pass
        BY <1>2, <3>2, <4>1 DEF Pass
      <4>3. /\ pass'.at = "read" /\ pass'.complete = pass.complete /\ pass'.read = pass.read
            /\ pass'.partial = pass.partial /\ pass'.inode = pass.inode
        BY <1>2, <3>2 DEF Pass
      <4>4. QED
        BY <4>2, <4>3
    <3>3. QED
      BY <2>3, <3>1, <3>2
  <2>5. TailTypes'
    BY <1>1, <1>2, <2>1, <2>2, <2>4 DEF TailTypes, Pass
  <2>6. Offsets'
    BY <1>1, <1>2, <2>1, <2>2, <2>4 DEF Offsets, Reads
  <2>7. WellFormed' /\ Length' = Length /\ EndsAt' = EndsAt
    BY <1>1, SameFile DEF TailInv
  <2>8. NothingInvented'
    BY <1>1, NothingNew DEF TailInv
  <2>9. Undisturbed' => Undisturbed
    BY <1>1, <2>1 DEF Undisturbed
  <2>10. ASSUME Undisturbed PROVE Kept' /\ Held'
    <3>1. Kept /\ Held
      BY <1>2, <2>10 DEF TailInv
    <3>2. /\ saved.offset <= pass.complete /\ pass.read <= Length
          /\ Boundary(pass.complete) /\ CountedTo(pass.complete)
          /\ Copies(pass.partial, pass.next)
      BY <1>1, <3>1 DEF Held, Reads
    <3>3. \A e \in 1..pass.complete : Owned(e)' => Counted(e)' \subseteq seen'
      BY <1>1, <3>2, StillCounted
    <3>4. Kept'
      <4>1. CountedTo(saved.offset)'
        BY <2>2, <3>3 DEF CountedTo
      <4>2. Boundary(saved.offset)'
        BY <1>1, <2>2, <2>7, <3>2 DEF Boundary
      <4>3. base.offset <= pass.complete /\ pass.complete <= Length
        <5>1. /\ base.offset \in Nat /\ saved.offset \in Nat /\ Len(pass.partial) \in Nat
              /\ Length \in Nat /\ base.offset <= saved.offset
          BY <1>2, <3>1, LenProperties DEF TailTypes, Pass, Kept, Length
        <5>2. QED
          BY <2>1, <3>2, <5>1
      <4>4. QED
        BY <1>1, <2>2, <2>7, <4>1, <4>2, <4>3 DEF Kept
    <3>5. ASSUME pass'.at = "read" PROVE Held'
      <4>1. CountedTo(pass.complete)'
        BY <2>4, <3>3, <3>5 DEF CountedTo
      <4>2. /\ saved'.offset <= pass'.complete /\ pass'.read <= Length' /\ Boundary(pass.complete)'
            /\ Copies(pass.partial, pass.complete)'
        BY <1>1, <2>1, <2>2, <2>4, <2>7, <3>2, <3>5 DEF Boundary, Copies
      <4>3. QED
        BY <3>5, <4>1, <4>2 DEF Held
    <3>6. CASE pass'.at = "idle"
      BY <3>4, <3>6 DEF Held, Reads
    <3>7. QED
      BY <2>4, <3>4, <3>5, <3>6
  <2>11. QED
    BY <1>1, <1>2, <2>5, <2>6, <2>7, <2>8, <2>9, <2>10 DEF TailInv
<1>5. QED
  BY <1>3, <1>4 DEF SaveCursor

\* The length of a log is sampled, reported and remembered.
LEMMA LogKeeps ==
    ASSUME TailInv, SampleLog \/ LogActivity \/ MarkLog
    PROVE  TailInv'
<1>1. /\ pass.at \in {"sample", "activity", "mark"}
      /\ UNCHANGED <<adapter, file, rewrites, base>>
  BY DEF SampleLog, LogActivity, MarkLog
<1>2. TailTypes /\ Offsets /\ pass \in Pass /\ adapter = "companion"
  BY <1>1 DEF TailInv, TailTypes, Offsets
<1>3. Length \in Nat /\ file.inode \in Nat /\ pass.next \in Nat
  BY <1>2, LenProperties DEF TailTypes, Length, Pass
<1>4. CASE pass' = Idle /\ UNCHANGED <<saved, seen>>
  BY <1>1, <1>4, PassEnds
<1>5. WellFormed' /\ Length' = Length
  BY <1>1, SameFile DEF TailInv
<1>6. NothingInvented'
  BY <1>1, <1>2 DEF NothingInvented
<1>7. ASSUME TailTypes', Offsets', rewrites = 0 => Sampled' PROVE TailInv'
  BY <1>1, <1>2, <1>5, <1>6, <1>7 DEF TailInv
<1>8. ASSUME SampleLog, pass' # Idle PROVE TailInv'
  <2> DEFINE grown == saved.inode = file.inode /\ Length > saved.offset
             at == IF grown THEN "activity" ELSE "mark"
  <2>1. /\ pass' = [pass EXCEPT !.at = at, !.inode = file.inode, !.next = Length]
        /\ saved' = saved
    BY <1>8 DEF SampleLog, Leave
  <2>2. at \in {"activity", "mark"}
    OBVIOUS
  <2> HIDE DEF at
  <2>3. /\ pass' \in Pass /\ pass'.at \in {"activity", "mark"} /\ pass'.inode = file.inode
        /\ pass'.next = Length
    <3>1. at \in Stages /\ file.inode \in Int /\ Length \in Nat
      BY <1>3, <2>2 DEF Stages
    <3>2. pass' \in Pass
      BY <1>2, <2>1, <3>1 DEF Pass
    <3>3. pass'.at = at /\ pass'.inode = file.inode /\ pass'.next = Length
      BY <1>2, <2>1 DEF Pass
    <3>4. QED
      BY <2>2, <3>2, <3>3
  <2>4. TailTypes'
    BY <1>1, <1>2, <2>1, <2>3 DEF TailTypes
  <2>5. Offsets'
    BY <1>1, <1>2, <1>3, <2>1, <2>3 DEF Offsets, Reads
  <2>6. rewrites = 0 => Sampled'
    BY <1>2, <1>3, <1>5, <2>1, <2>3 DEF TailInv, Sampled
  <2>7. QED
    BY <1>7, <2>4, <2>5, <2>6
<1>9. ASSUME LogActivity, pass' # Idle PROVE TailInv'
  <2>1. pass.at = "activity" /\ pass' = [pass EXCEPT !.at = "mark"] /\ saved' = saved
    BY <1>9 DEF LogActivity, Leave
  <2>2. /\ pass' \in Pass /\ pass'.at = "mark" /\ pass'.inode = pass.inode /\ pass'.next = pass.next
    BY <1>2, <2>1 DEF Pass, Stages
  <2>3. TailTypes'
    BY <1>1, <1>2, <2>1, <2>2 DEF TailTypes
  <2>4. Offsets'
    BY <1>1, <1>2, <2>1, <2>2 DEF Offsets, Reads
  <2>5. rewrites = 0 => Sampled'
    BY <1>2, <1>5, <2>1, <2>2 DEF TailInv, Sampled
  <2>6. QED
    BY <1>7, <2>3, <2>4, <2>5
<1>10. ASSUME MarkLog, saved' # saved PROVE TailInv'
  <2>1. /\ pass.at = "mark" /\ pass' = Idle
        /\ saved' = [inode |-> pass.inode, offset |-> pass.next]
    BY <1>10 DEF MarkLog, Leave
  <2>2. pass' \in Pass /\ pass'.at = "idle"
    BY <2>1, IdleIsPass
  <2>3. TailTypes'
    BY <1>1, <1>2, <1>3, <2>1, <2>2 DEF TailTypes, Pass
  <2>4. Offsets'
    BY <1>1, <1>2, <2>1, <2>2 DEF Offsets, Reads
  <2>5. rewrites = 0 => Sampled'
    BY <1>2, <1>5, <2>1, <2>2 DEF TailInv, Sampled
  <2>6. QED
    BY <1>7, <2>3, <2>4, <2>5
<1>11. SampleLog \/ LogActivity => saved' = saved
  BY DEF SampleLog, LogActivity
<1>12. SampleLog \/ MarkLog => seen' = seen
  BY DEF SampleLog, MarkLog
<1>13. LogActivity /\ pass' = Idle => seen' = seen
  BY DEF LogActivity, Leave, Idle, Pass
<1>14. MarkLog => pass' = Idle
  BY DEF MarkLog, Leave
<1>15. QED
  BY <1>4, <1>8, <1>9, <1>10, <1>11, <1>12, <1>13, <1>14

-----------------------------------------------------------------------------
(* The invariant, and what follows from it.                                *)

\* Nothing is read of an empty file.
LEMMA TailInitially == Init => TailInv
<1> SUFFICES ASSUME Init PROVE TailInv
  OBVIOUS
<1>1. /\ adapter \in Adapters /\ file = [inode |-> 0, data |-> <<>>] /\ saved = None /\ seen = {}
      /\ pass = Idle /\ rewrites = 0 /\ base = [rewrites |-> 0, offset |-> 0]
  BY DEF Init
<1>2. pass \in Pass /\ pass.at = "idle"
  BY <1>1, IdleIsPass
<1>3. <<>> \in Seq(Bytes) /\ Len(<<>>) = 0
  BY EmptySeq
<1>4. TailTypes
  BY <1>1, <1>2, <1>3, TailAssumption DEF TailTypes, None
<1>5. Offsets
  BY <1>1, <1>2 DEF Offsets, Reads
<1>6. Length = 0
  BY <1>1, <1>3 DEF Length
<1>7. WellFormed /\ NothingInvented
  BY <1>1, <1>6 DEF WellFormed, NothingInvented
<1>8. ~Undisturbed /\ Sampled
  BY <1>1, <1>2, <1>6 DEF Undisturbed, Sampled, None
<1>9. QED
  BY <1>4, <1>5, <1>7, <1>8 DEF TailInv

\* Every step keeps it.
LEMMA TailSteps == TailInv /\ [Next]_vars => TailInv'
<1> SUFFICES ASSUME TailInv, [Next]_vars PROVE TailInv'
  OBVIOUS
<1>1. CASE \E b \in Bytes : Append1(b)
  BY <1>1, AppendKeeps
<1>2. CASE \E length \in 0..MaxLength : Rewrite(file.inode, length)
  <2>1. PICK length \in 0..MaxLength : Rewrite(file.inode, length)
    BY <1>2
  <2>2. length \in Nat /\ file.inode \in Nat
    BY TailAssumption DEF TailInv, TailTypes
  <2>3. QED
    BY <2>1, <2>2, RewriteKeeps
<1>3. CASE Rewrite(file.inode + 1, 0)
  <2>1. file.inode + 1 \in Nat /\ 0 \in Nat
    BY DEF TailInv, TailTypes
  <2>2. QED
    BY <1>3, <2>1, RewriteKeeps
<1>4. CASE \E v \in Versions : StartPass(v)
  BY <1>4, StartKeeps
<1>5. CASE BootstrapTail
  BY <1>5, TailKeeps
<1>6. CASE InitializeClaude \/ InitializeCodex \/ RecoverClaude \/ RecoverCodex
  BY <1>6, EstablishKeeps DEF InitializeClaude, InitializeCodex, RecoverClaude, RecoverCodex
<1>7. CASE ReadBatch
  BY <1>7, ReadKeeps
<1>8. CASE IngestClaudeRecord
  BY <1>8, ClaudeKeeps
<1>9. CASE IngestCodexRecord
  BY <1>9, CodexKeeps
<1>10. CASE ResolveConflict
  BY <1>10, ResolveKeeps
<1>11. CASE SaveCursor
  BY <1>11, SaveKeeps
<1>12. CASE SampleLog \/ LogActivity \/ MarkLog
  BY <1>12, LogKeeps
<1>13. CASE Restart
  BY <1>13, PassEnds DEF Restart, Leave
<1>14. CASE UNCHANGED vars
  <2>1. UNCHANGED <<adapter, file, saved, seen, pass, rewrites, base>>
    BY <1>14 DEF vars
  <2>2. Length' = Length /\ WellFormed' /\ EndsAt' = EndsAt
    BY <2>1, SameFile DEF TailInv
  <2>3. NothingInvented'
    BY <2>1, NothingNew DEF TailInv
  <2>4. \A n : CountedTo(n) => CountedTo(n)'
    <3>1. SUFFICES ASSUME NEW n, CountedTo(n) PROVE CountedTo(n)'
      OBVIOUS
    <3>2. \A e \in 1..n : Owned(e)' => Counted(e)' \subseteq seen'
      BY <2>1, <3>1, StillCounted
    <3>3. QED
      BY <3>2 DEF CountedTo
  <2>5. TailTypes' /\ Offsets' /\ (Undisturbed' => Undisturbed) /\ (Sampled => Sampled')
    BY <2>1, <2>2 DEF TailInv, TailTypes, Offsets, Reads, Undisturbed, Sampled
  <2>6. Kept => Kept'
    BY <2>1, <2>2, <2>4 DEF Kept, Boundary, CountedTo
  <2>7. Held => Held'
    <3>1. \A bytes, n : Copies(bytes, n) => Copies(bytes, n)'
      BY <2>1 DEF Copies
    <3>2. QED
      BY <2>1, <2>2, <2>4, <3>1 DEF Held, Reads, Boundary, CountedTo, Copies
  <2>8. QED
    BY <2>1, <2>2, <2>3, <2>5, <2>6, <2>7 DEF TailInv
<1>15. QED
  BY <1>1, <1>2, <1>3, <1>4, <1>5, <1>6, <1>7, <1>8, <1>9, <1>10, <1>11, <1>12, <1>13, <1>14
     DEF Next, Runtime, PassStep

\* The reader's offsets, what it holds and what it has ingested fit the file in every
\* reachable state.
LEMMA TailInvariant == Spec => []TailInv
<1>1. Init => TailInv
  BY TailInitially
<1>2. TailInv /\ [Next]_vars => TailInv'
  BY TailSteps
<1>3. QED
  BY <1>1, <1>2, PTL DEF Spec

\* The durable cursor never passes a record that was not ingested, for any budgets of a
\* batch, any failures and restarts between ingesting and saving, and any rewrites.
THEOREM NeverSkipped == Spec => []NoRecordSkipped
<1>1. TailInv => NoRecordSkipped
  BY DEF TailInv, NoRecordSkipped, Kept, CountedTo
<1>2. QED
  BY <1>1, TailInvariant, PTL

\* Of a file that only grew, every observation is of a complete record at the place it
\* names, however its bytes were written and read.
THEOREM NeverInvented == Spec => []NothingInvented
<1>1. TailInv => NothingInvented
  BY DEF TailInv
<1>2. QED
  BY <1>1, TailInvariant, PTL

\* The durable cursor of a file that only grew never moves back.
THEOREM CursorNeverBack == Spec => CursorForward
<1>1. TailInv /\ [Next]_vars => (rewrites' = 0 /\ saved # None => saved'.offset >= saved.offset)
  <2>1. SUFFICES ASSUME TailInv, [Next]_vars, rewrites' = 0, saved # None
                 PROVE  saved'.offset >= saved.offset
    OBVIOUS
  <2>2. TailTypes /\ Offsets /\ rewrites \in Nat /\ saved.offset \in Nat /\ Length \in Nat
    BY <2>1, LenProperties DEF TailInv, TailTypes, Length
  <2>3. CASE saved' = saved
    BY <2>2, <2>3
  <2>4. rewrites = 0
    <3>1. ASSUME NEW i, NEW n, Rewrite(i, n) PROVE FALSE
      <4>1. rewrites' = rewrites + 1
        BY <3>1 DEF Rewrite
      <4>2. QED
        BY <2>1, <2>2, <4>1
    <3>2. ~Runtime => rewrites' = rewrites
      BY <2>1 DEF Next, StartPass, PassStep, BootstrapTail, InitializeClaude, InitializeCodex,
         RecoverClaude, RecoverCodex, Establish, ReadBatch, IngestClaudeRecord, IngestCodexRecord,
         ResolveConflict, SaveCursor, SampleLog, LogActivity, MarkLog, Restart, vars
    <3>3. Runtime => rewrites' = rewrites
      BY <3>1 DEF Runtime, Append1
    <3>4. QED
      BY <2>1, <3>2, <3>3
  <2>5. adapter # "companion" => Kept /\ Held
    BY <2>1, <2>2, <2>4 DEF TailInv, Undisturbed, TailTypes
  <2>6. CASE adapter # "companion" /\ saved' = [inode |-> file.inode, offset |-> Length]
    BY <2>2, <2>5, <2>6 DEF Kept
  <2>7. CASE SaveCursor
    <3>1. /\ pass.at = "ingest" /\ pass.records = <<>>
          /\ saved' = saved \/ saved'.offset = pass.next
      BY <2>7 DEF SaveCursor, Persisted
    <3>2. adapter # "companion" /\ Len(<<>>) = 0 /\ pass.complete \in Nat
      BY <2>2, <3>1, EmptySeq DEF Offsets, TailTypes, Pass
    <3>3. pass.next = pass.complete + 0 /\ saved.offset <= pass.complete
      BY <2>2, <2>5, <3>1, <3>2 DEF Offsets, Held, Reads
    <3>4. QED
      BY <2>2, <3>1, <3>2, <3>3
  <2>8. CASE MarkLog
    <3>1. pass.at = "mark" /\ (saved' = saved \/ saved'.offset = pass.next)
      BY <2>8 DEF MarkLog
    <3>2. adapter = "companion" /\ pass.next \in Nat
      BY <2>2, <3>1 DEF Offsets, TailTypes, Pass
    <3>3. saved.offset <= pass.next
      BY <2>1, <2>4, <3>1, <3>2 DEF TailInv, Sampled
    <3>4. QED
      BY <2>2, <3>1, <3>2, <3>3
  <2>9. \/ saved' = saved
        \/ adapter # "companion" /\ saved' = [inode |-> file.inode, offset |-> Length]
        \/ SaveCursor \/ MarkLog
    BY <2>1 DEF Next, Runtime, Append1, Rewrite, StartPass, PassStep, BootstrapTail,
       InitializeClaude, InitializeCodex, RecoverClaude, RecoverCodex, Establish, ReadBatch,
       IngestClaudeRecord, IngestCodexRecord, ResolveConflict, SampleLog, LogActivity, Restart, vars
  <2>10. QED
    BY <2>3, <2>6, <2>7, <2>8, <2>9
<1>2. QED
  BY <1>1, TailInvariant, PTL DEF Spec, CursorForward

=============================================================================
