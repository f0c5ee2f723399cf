--------------------- MODULE ObservationAdmissionProofs ---------------------
(***************************************************************************)
(* The lanes for every set of sessions, callers and observations, every    *)
(* capacity and every bound: refused evidence fails closed and is          *)
(* remembered, entries leave a lane in order, and nobody waits in vain.    *)
(* Then the hooks that submit evidence, for every payload and any number   *)
(* of requests: what was answered is stored, and repeating it does         *)
(* nothing.                                                                *)
(***************************************************************************)
EXTENDS ObservationAdmission, HookIngest, SequenceTheorems, WellFoundedInduction, TLAPS

\* Who submits has something to submit.
Busy == \A c \in Callers : caller[c].at # "idle" => caller[c].obs \in Observations

\* queue_health_transition is held exactly in the sections it guards.
Exclusive ==
    /\ \A c \in Callers : transition = c <=> caller[c].at = "saving"
    /\ \A s \in Sessions :
           transition = s <=> drainer[s].at \in {"clearing", "admit"}

\* The session of an observation being saved is published first.
Recorded ==
    \A c \in Callers : caller[c].at = "saving" =>
        /\ Subject[caller[c].obs] \in uncertain
        /\ health[Subject[caller[c].obs]] = "Degraded"

\* A drainer past its pop holds an entry, and clears only what is stored.
Replayed ==
    \A s \in Sessions :
        /\ drainer[s].at \notin {"off", "pop"} => drainer[s].entry \in Entry
        /\ drainer[s].at \in {"reconcile", "clearing", "admit"} =>
               drainer[s].entry.obs \in stored

\* A drainer about to lift the queue's flag still knows that nothing remains.
Vouched ==
    \A s \in Sessions :
        drainer[s].at = "admit" /\ ~drainer[s].remaining =>
            ~Remaining(rejections, s)

\* The flag is up exactly while the lane has a drainer, and while the lane has
\* entries.
Lanes ==
    \A s \in Sessions :
        /\ draining[s] <=> drainer[s].at # "off"
        /\ queue[s] # <<>> => draining[s]

IInv ==
    /\ TypeOK /\ Busy /\ Exclusive /\ Recorded /\ Replayed /\ Vouched
    /\ Lanes /\ FailClosed /\ RefusedIsRemembered

-----------------------------------------------------------------------------
(* The queue.                                                              *)

\* A non-empty set of positions of a queue has a last one: the entry that
\* rposition finds exists.
LEMMA LastPosition ==
    ASSUME NEW n \in Nat, NEW T \in SUBSET (1..n), T # {}
    PROVE  \E i \in T : \A j \in T : j <= i
<1> DEFINE D == {n - i : i \in T}
<1>0. \A i \in T : i \in Nat /\ i <= n
  OBVIOUS
<1>1. D \subseteq Nat /\ D # {}
  <2>1. \A i \in T : n - i \in Nat
    BY <1>0
  <2>2. D \subseteq Nat
    BY <2>1, Zenon
  <2>3. D # {}
    OBVIOUS
  <2>4. QED
    BY <2>2, <2>3
<1>2. PICK d \in D : \A e \in D : ~(<<e, d>> \in OpToRel(<, Nat))
  <2> HIDE DEF D
  <2>1. QED
    BY <1>1, NatLessThanWellFounded, WFMin, Zenon
<1>3. \A e \in D : d <= e
  <2>1. \A e \in D : ~(e < d)
    BY <1>1, <1>2 DEF OpToRel
  <2>2. QED
    BY <1>1, <2>1
<1>4. PICK i \in T : d = n - i
  OBVIOUS
<1>5. \A j \in T : j <= i
  <2>1. \A j \in T : d <= n - j
    BY <1>3, Zenon
  <2>2. QED
    BY <1>0, <1>4, <2>1
<1>6. QED
  BY <1>5

\* try_push_replacing returns a queue.
LEMMA PushedIsQueue ==
    ASSUME NEW q \in Seq(Entry), NEW entry \in Entry
    PROVE  Pushed(q, entry) \in Seq(Entry)
<1>1. CASE ~Coalesces(q, entry.obs)
  BY <1>1, AppendProperties DEF Pushed
<1>2. CASE Coalesces(q, entry.obs)
  <2>0. Len(q) \in Nat /\ \A k \in 1..Len(q) : q[k] \in Entry
    BY LenProperties, ElementOfSeq
  <2>1. \E i \in Activities(q) : \A j \in Activities(q) : j <= i
    BY <1>2, <2>0, LastPosition DEF Coalesces, Activities
  <2>2. Displaced(q) \in 1..Len(q)
    BY <2>1 DEF Displaced, Activities
  <2> DEFINE d == Displaced(q)
  <2> HIDE DEF d
  <2>3. d \in 1..Len(q)
    BY <2>2 DEF d
  <2>4. SubSeq(q, 1, d - 1) \in Seq(Entry)
    <3>1. d - 1 \in Int /\ \A k \in 1..(d - 1) : q[k] \in Entry
      BY <2>0, <2>3
    <3>2. QED
      BY <3>1, SubSeqProperties
  <2>5. SubSeq(q, d + 1, Len(q)) \in Seq(Entry)
    <3>1. d + 1 \in Int /\ \A k \in (d + 1)..Len(q) : q[k] \in Entry
      BY <2>0, <2>3
    <3>2. QED
      BY <2>0, <3>1, SubSeqProperties
  <2>6. Without(q, d) \in Seq(Entry)
    BY <2>4, <2>5, ConcatProperties DEF Without
  <2>7. QED
    BY <1>2, <2>6, AppendProperties DEF Pushed, d
<1>3. QED
  BY <1>1, <1>2

-----------------------------------------------------------------------------
(* The invariant holds initially and every operation keeps it.             *)

\* Nobody is saving and nobody drains when the server starts.
LEMMA InitInductive == Init => IInv
<1> SUFFICES ASSUME Init PROVE IInv
  OBVIOUS
<1> USE AdmissionAssumption, FreeAssumption
<1>1. IdleCaller \in CallerRecord
  BY DEF IdleCaller, CallerRecord, CallerPlaces
<1>2. NoDrainer \in DrainerRecord
  BY DEF NoDrainer, DrainerRecord, DrainerPlaces
<1>3. TypeOK
  BY <1>1, <1>2, EmptySeq DEF Init, TypeOK
<1>4. Busy /\ Exclusive /\ Recorded /\ Replayed /\ Vouched
  BY DEF Init, Busy, Exclusive, Recorded, Replayed, Vouched, IdleCaller,
         NoDrainer
<1>5. FailClosed /\ RefusedIsRemembered
  BY DEF Init, FailClosed, RefusedIsRemembered, Remaining, Rejected
<1>6. Lanes
  BY DEF Init, Lanes, NoDrainer
<1>7. QED
  BY <1>3, <1>4, <1>5, <1>6 DEF IInv

\* Completing an entry leaves every caller idle or as it was; the caller of an
\* entry waits, so no caller that saves is disturbed.
LEMMA AnswerKeepsOthers ==
    ASSUME TypeOK, NEW entries
    PROVE  /\ Answer(caller, entries) \in [Callers -> CallerRecord]
           /\ \A c \in Callers :
                 \/ Answer(caller, entries)[c] = caller[c]
                 \/ /\ Answer(caller, entries)[c] = IdleCaller
                    /\ caller[c].at = "waiting"
<1>1. IdleCaller \in CallerRecord
  BY DEF IdleCaller, CallerRecord, CallerPlaces
<1>2. QED
  BY <1>1 DEF Answer, TypeOK

\* A caller that moves keeps what it submits.
LEMMA CallerMoves ==
    ASSUME TypeOK, NEW c \in Callers, NEW place \in CallerPlaces,
           caller' = [caller EXCEPT ![c].at = place]
    PROVE  /\ caller' \in [Callers -> CallerRecord]
           /\ caller'[c].at = place /\ caller'[c].obs = caller[c].obs
           /\ \A d \in Callers : d # c => caller'[d] = caller[d]
<1>1. [caller[c] EXCEPT !.at = place] \in CallerRecord
  BY DEF CallerRecord, TypeOK
<1>2. QED
  BY <1>1 DEF CallerRecord, TypeOK

\* So does one that starts to wait, once others have been answered.
LEMMA CallerWaits ==
    ASSUME NEW f \in [Callers -> CallerRecord], NEW c \in Callers, NEW n \in Nat,
           caller' = [f EXCEPT ![c].at = "waiting", ![c].ticket = n]
    PROVE  /\ caller' \in [Callers -> CallerRecord]
           /\ caller'[c].at = "waiting" /\ caller'[c].obs = f[c].obs
           /\ \A d \in Callers : d # c => caller'[d] = f[d]
<1>1. [f[c] EXCEPT !.at = "waiting", !.ticket = n] \in CallerRecord
  BY DEF CallerRecord, CallerPlaces
<1>2. QED
  BY <1>1 DEF CallerRecord

\* A drainer that moves keeps its entry.
LEMMA DrainerMoves ==
    ASSUME TypeOK, NEW s \in Sessions, NEW place \in DrainerPlaces,
           drainer' = [drainer EXCEPT ![s].at = place]
    PROVE  /\ drainer' \in [Sessions -> DrainerRecord]
           /\ drainer'[s].at = place /\ drainer'[s].entry = drainer[s].entry
           /\ \A r \in Sessions : r # s => drainer'[r] = drainer[r]
<1>1. [drainer[s] EXCEPT !.at = place] \in DrainerRecord
  BY DEF DrainerRecord, TypeOK
<1>2. QED
  BY <1>1 DEF DrainerRecord, TypeOK

\* So does one that notes whether rejections remain.
LEMMA DrainerNotes ==
    ASSUME TypeOK, NEW s \in Sessions, NEW left \in BOOLEAN,
           drainer' = [drainer EXCEPT ![s].at = "admit", ![s].remaining = left]
    PROVE  /\ drainer' \in [Sessions -> DrainerRecord]
           /\ drainer'[s].at = "admit" /\ drainer'[s].entry = drainer[s].entry
           /\ drainer'[s].remaining = left
           /\ \A r \in Sessions : r # s => drainer'[r] = drainer[r]
<1>1. [drainer[s] EXCEPT !.at = "admit", !.remaining = left] \in DrainerRecord
  BY ZenonT(40) DEF DrainerRecord, DrainerPlaces, TypeOK
<1>2. QED
  BY <1>1 DEF DrainerRecord, TypeOK

\* A drainer that takes an entry, stops or loops is replaced as a whole.
LEMMA DrainerReplaced ==
    ASSUME TypeOK, NEW s \in Sessions, NEW record \in DrainerRecord
    PROVE  LET g == [drainer EXCEPT ![s] = record]
           IN  /\ g \in [Sessions -> DrainerRecord]
               /\ g[s] = record
               /\ \A r \in Sessions : r # s => g[r] = drainer[r]
BY DEF TypeOK

\* A caller that only submits touches nothing the lanes share.
LEMMA SubmitInductive ==
    ASSUME IInv, NEW c \in Callers, Submit(c)
    PROVE  IInv'
<1> USE AdmissionAssumption, FreeAssumption
<1> USE DEF IInv, Submit, memory, tasks, durable, bounds, history
<1>1. TypeOK'
  BY DEF TypeOK, CallerRecord, CallerPlaces
<1>2. (Busy /\ Exclusive)'
  BY DEF TypeOK, Busy, Exclusive, IdleCaller, NoDrainer
<1>3. Recorded'
  BY DEF TypeOK, Busy, Exclusive, Recorded, IdleCaller
<1>4. Replayed'
  BY DEF TypeOK, Replayed, NoDrainer
<1>5. Vouched'
  BY DEF TypeOK, Exclusive, Vouched, Remaining, Rejected, NoDrainer
<1>6. (FailClosed /\ RefusedIsRemembered)'
  BY DEF TypeOK, FailClosed, RefusedIsRemembered, Remaining, Rejected
<1>7. Lanes'
  BY DEF Lanes
<1>8. QED
  BY <1>1, <1>2, <1>3, <1>4, <1>5, <1>6, <1>7

\* What an admission reads and writes besides the places of callers and drainers.
LEMMA AdmitTakes ==
    ASSUME TypeOK, Busy, NEW c \in Callers, Admit(c)
    PROVE  LET o == caller[c].obs
               s == Subject[o]
               entry == [obs |-> o, from |-> c, ticket |-> tickets']
           IN  /\ o \in Observations /\ s \in Sessions
               /\ tickets' = tickets + 1 /\ tickets \in Nat /\ tickets' \in Nat
               /\ entry \in Entry /\ entry.ticket = tickets' /\ entry.from = c
               /\ queue' = [queue EXCEPT ![s] = Pushed(queue[s], entry)]
               /\ applied' = applied
<1> DEFINE o == caller[c].obs
           s == Subject[o]
           entry == [obs |-> o, from |-> c, ticket |-> tickets']
<1>1. o \in Observations
  <2>1. caller[c].at = "submit"
    BY Zenon DEF Admit
  <2>2. QED
    BY <2>1 DEF Busy
<1>2. s \in Sessions
  BY <1>1, AdmissionAssumption
<1>3. tickets' = tickets + 1 /\ tickets \in Nat
  <2>1. tickets' = tickets + 1
    BY Zenon DEF Admit
  <2>2. tickets \in Nat
    BY DEF TypeOK
  <2>3. QED
    BY <2>1, <2>2
<1>4. /\ queue' = [queue EXCEPT ![s] = Pushed(queue[s], entry)]
      /\ applied' = applied
  BY Zenon DEF Admit, history
<1>5. tickets' \in Nat
  BY <1>3
<1> HIDE DEF o, s
<1>6. entry \in Entry /\ entry.ticket = tickets' /\ entry.from = c
  BY <1>1, <1>5 DEF Entry
<1>7. QED
  BY <1>1, <1>2, <1>3, <1>4, <1>5, <1>6 DEF o, s

\* A push, the answer to a displaced producer and a new drainer touch neither
\* the rejections nor the health transition.
LEMMA AdmitInductive ==
    ASSUME IInv, NEW c \in Callers, Admit(c)
    PROVE  IInv'
<1> DEFINE o == caller[c].obs
           s == Subject[o]
           entry == [obs |-> o, from |-> c, ticket |-> tickets']
           answered == Answer(caller, Coalesced(queue[s], entry))
<1>a. /\ o \in Observations /\ s \in Sessions /\ tickets' \in Nat
      /\ entry \in Entry
  BY AdmitTakes, Zenon DEF IInv
<1> USE AdmissionAssumption, FreeAssumption
<1> USE DEF IInv, Admit, memory, tasks, durable, bounds, history
<1>b. /\ answered \in [Callers -> CallerRecord]
      /\ \A d \in Callers : \/ answered[d] = caller[d]
                           \/ /\ answered[d] = IdleCaller
                              /\ caller[d].at = "waiting"
  BY AnswerKeepsOthers, Zenon
<1>c. caller' = [answered EXCEPT ![c].at = "waiting", ![c].ticket = tickets']
  BY Zenon
<1>d. queue' = [queue EXCEPT ![s] = Pushed(queue[s], entry)]
  BY Zenon
<1>e. drainer' = IF draining[s] THEN drainer ELSE [drainer EXCEPT ![s].at = "pop"]
  BY Zenon
<1>u. /\ tickets' = tickets + 1 /\ draining' = [draining EXCEPT ![s] = TRUE]
      /\ caller[c].at = "submit" /\ caller[c].obs = o
      /\ UNCHANGED <<degraded, admission, transition, uncertain, health,
                     rejections, stored, submitted, restarts, saveFailures,
                     refused, applied>>
  BY Zenon
<1> HIDE DEF answered, entry, o, s, Admit
<1>f. /\ caller' \in [Callers -> CallerRecord]
      /\ caller'[c].at = "waiting" /\ caller'[c].obs = o
      /\ \A d \in Callers : d # c => caller'[d] = answered[d]
  <2>1. answered[c] = caller[c]
    BY <1>b, <1>u
  <2>2. /\ caller' \in [Callers -> CallerRecord]
        /\ caller'[c].at = "waiting" /\ caller'[c].obs = answered[c].obs
        /\ \A d \in Callers : d # c => caller'[d] = answered[d]
    BY <1>a, <1>b, <1>c, CallerWaits, Zenon
  <2>3. QED
    BY <1>u, <2>1, <2>2
<1>g. /\ drainer' \in [Sessions -> DrainerRecord]
      /\ \A r \in Sessions : drainer'[r] = drainer[r] \/ drainer'[r].at = "pop"
  <2>1. "pop" \in DrainerPlaces
    BY DEF DrainerPlaces
  <2>2. CASE draining[s]
    BY <1>e, <2>2 DEF TypeOK
  <2>3. CASE ~draining[s]
    <3>1. drainer' = [drainer EXCEPT ![s].at = "pop"]
      BY <1>e, <2>3
    <3>2. /\ drainer' \in [Sessions -> DrainerRecord]
          /\ drainer'[s].at = "pop"
          /\ \A r \in Sessions : r # s => drainer'[r] = drainer[r]
      BY <1>a, <2>1, <3>1, DrainerMoves, Zenon
    <3>3. QED
      BY <3>2
  <2>4. QED
    BY <2>2, <2>3
<1>h. draining[s] \/ drainer[s].at = "off"
  BY <1>a DEF Lanes
<1>1. TypeOK'
  <2>1. queue' \in [Sessions -> Seq(Entry)]
    BY <1>a, <1>d, PushedIsQueue DEF TypeOK
  <2>2. draining' \in [Sessions -> BOOLEAN]
    BY <1>u DEF TypeOK
  <2>3. QED
    BY <1>a, <1>f, <1>g, <1>u, <2>1, <2>2 DEF TypeOK
<1>2. (Busy /\ Exclusive)'
  <2>1. Busy'
    BY <1>a, <1>b, <1>f DEF Busy, IdleCaller
  <2>2. \A d \in Callers : caller'[d].at = "saving" <=> caller[d].at = "saving"
    BY <1>b, <1>f, <1>u DEF IdleCaller
  <2>3. \A r \in Sessions : drainer'[r].at \in {"clearing", "admit"}
                             <=> drainer[r].at \in {"clearing", "admit"}
    BY <1>a, <1>e, <1>g, <1>h DEF TypeOK
  <2>4. QED
    BY <1>u, <2>1, <2>2, <2>3 DEF Exclusive
<1>3. Recorded'
  <2>1. \A d \in Callers : caller'[d].at = "saving" => caller'[d] = caller[d]
    BY <1>b, <1>f DEF IdleCaller
  <2>2. QED
    BY <1>u, <2>1 DEF Recorded
<1>4. Replayed'
  BY <1>g, <1>u DEF Replayed
<1>5. Vouched'
  BY <1>g, <1>u DEF Vouched
<1>6. (FailClosed /\ RefusedIsRemembered)'
  BY <1>u DEF FailClosed, RefusedIsRemembered
<1>7. Lanes'
  <2>1. /\ draining'[s] /\ drainer'[s].at # "off"
        /\ \A r \in Sessions : r # s => /\ draining'[r] = draining[r]
                                        /\ drainer'[r] = drainer[r]
                                        /\ queue'[r] = queue[r]
    BY <1>a, <1>d, <1>e, <1>g, <1>u DEF TypeOK, Lanes
  <2>2. QED
    BY <2>1 DEF Lanes
<1>8. QED
  BY <1>1, <1>2, <1>3, <1>4, <1>5, <1>6, <1>7

\* A refusal takes the lane's admission mutex only.
LEMMA RefuseInductive ==
    ASSUME IInv, NEW c \in Callers, Refuse(c)
    PROVE  IInv'
<1> USE AdmissionAssumption, FreeAssumption
<1> USE DEF IInv, Refuse, memory, tasks, durable, bounds, history
<1>a. caller[c].obs \in Observations /\ Subject[caller[c].obs] \in Sessions
  BY DEF Busy
<1>b. /\ caller' \in [Callers -> CallerRecord]
      /\ caller'[c].at = "persist" /\ caller'[c].obs = caller[c].obs
      /\ \A d \in Callers : d # c => caller'[d] = caller[d]
  <2>1. "persist" \in CallerPlaces
    BY DEF CallerPlaces
  <2>2. caller' = [caller EXCEPT ![c].at = "persist"]
    OBVIOUS
  <2>3. QED
    BY <2>1, <2>2, CallerMoves, Zenon
<1>1. TypeOK'
  BY <1>a, <1>b DEF TypeOK
<1>2. (Busy /\ Exclusive)'
  BY <1>a, <1>b DEF Busy, Exclusive
<1>3. Recorded'
  BY <1>a, <1>b DEF TypeOK, Busy, Recorded
<1>4. Replayed'
  BY DEF TypeOK, Replayed, NoDrainer
<1>5. Vouched'
  BY DEF TypeOK, Exclusive, Vouched, Remaining, Rejected, NoDrainer
<1>6. (FailClosed /\ RefusedIsRemembered)'
  BY DEF TypeOK, FailClosed, RefusedIsRemembered, Remaining, Rejected
<1>7. Lanes'
  BY DEF Lanes
<1>8. QED
  BY <1>1, <1>2, <1>3, <1>4, <1>5, <1>6, <1>7

\* The session is uncertain and Degraded before the store is asked.
LEMMA PersistRejectionInductive ==
    ASSUME IInv, NEW c \in Callers, PersistRejection(c)
    PROVE  IInv'
<1> USE AdmissionAssumption, FreeAssumption
<1> USE DEF IInv, PersistRejection, memory, tasks, durable, bounds, history
<1>a. caller[c].obs \in Observations /\ Subject[caller[c].obs] \in Sessions
  BY DEF Busy
<1>b. /\ caller' \in [Callers -> CallerRecord]
      /\ caller'[c].at = "saving" /\ caller'[c].obs = caller[c].obs
      /\ \A d \in Callers : d # c => caller'[d] = caller[d]
  <2>1. "saving" \in CallerPlaces
    BY DEF CallerPlaces
  <2>2. caller' = [caller EXCEPT ![c].at = "saving"]
    OBVIOUS
  <2>3. QED
    BY <2>1, <2>2, CallerMoves, Zenon
<1>1. TypeOK'
  BY <1>a, <1>b DEF TypeOK
<1>2. (Busy /\ Exclusive)'
  BY <1>a, <1>b DEF Busy, Exclusive
<1>3. Recorded'
  BY <1>a, <1>b DEF TypeOK, Busy, Recorded
<1>4. Replayed'
  BY DEF TypeOK, Replayed, NoDrainer
<1>5. Vouched'
  BY DEF TypeOK, Exclusive, Vouched, Remaining, Rejected, NoDrainer
<1>6. (FailClosed /\ RefusedIsRemembered)'
  BY DEF TypeOK, FailClosed, RefusedIsRemembered, Remaining, Rejected
<1>7. Lanes'
  BY DEF Lanes
<1>8. QED
  BY <1>1, <1>2, <1>3, <1>4, <1>5, <1>6, <1>7

\* The row that commits belongs to a session already published.
LEMMA SaveRejectionInductive ==
    ASSUME IInv, NEW c \in Callers, SaveRejection(c)
    PROVE  IInv'
<1> USE AdmissionAssumption, FreeAssumption
<1> USE DEF IInv, SaveRejection, memory, tasks, durable, bounds, history
<1>1. TypeOK'
  <2>1. caller[c].obs \in Observations /\ Subject[caller[c].obs] \in Sessions
    BY DEF Busy
  <2>2. caller' \in [Callers -> CallerRecord]
    BY DEF TypeOK, IdleCaller, CallerRecord, CallerPlaces
  <2>3. QED
    BY <2>1, <2>2 DEF TypeOK
<1>2. (Busy /\ Exclusive)'
  BY DEF TypeOK, Busy, Exclusive, IdleCaller, NoDrainer
<1>3. Recorded'
  BY DEF TypeOK, Busy, Exclusive, Recorded, IdleCaller
<1>4. Replayed'
  BY DEF TypeOK, Replayed, NoDrainer
<1>5. Vouched'
  BY DEF TypeOK, Exclusive, Vouched, Remaining, Rejected, NoDrainer
<1>6. (FailClosed /\ RefusedIsRemembered)'
  <2>1. FailClosed'
    BY DEF TypeOK, Busy, Recorded, FailClosed, Remaining, Rejected
  <2>2. RefusedIsRemembered'
    BY DEF RefusedIsRemembered
  <2>3. QED
    BY <2>1, <2>2
<1>7. Lanes'
  BY DEF Lanes
<1>8. QED
  BY <1>1, <1>2, <1>3, <1>4, <1>5, <1>6, <1>7

\* A failed save leaves the session published.
LEMMA FailToSaveInductive ==
    ASSUME IInv, NEW c \in Callers, FailToSave(c)
    PROVE  IInv'
<1> USE AdmissionAssumption, FreeAssumption
<1> USE DEF IInv, FailToSave, memory, tasks, durable, bounds, history
<1>1. TypeOK'
  <2>1. caller[c].obs \in Observations /\ Subject[caller[c].obs] \in Sessions
    BY DEF Busy
  <2>2. caller' \in [Callers -> CallerRecord]
    BY DEF TypeOK, IdleCaller, CallerRecord, CallerPlaces
  <2>3. QED
    BY <2>1, <2>2 DEF TypeOK
<1>2. (Busy /\ Exclusive)'
  BY DEF TypeOK, Busy, Exclusive, IdleCaller, NoDrainer
<1>3. Recorded'
  BY DEF TypeOK, Busy, Exclusive, Recorded, IdleCaller
<1>4. Replayed'
  BY DEF TypeOK, Replayed, NoDrainer
<1>5. Vouched'
  BY DEF TypeOK, Exclusive, Vouched, Remaining, Rejected, NoDrainer
<1>6. (FailClosed /\ RefusedIsRemembered)'
  BY DEF TypeOK, FailClosed, RefusedIsRemembered, Remaining, Rejected
<1>7. Lanes'
  BY DEF Lanes
<1>8. QED
  BY <1>1, <1>2, <1>3, <1>4, <1>5, <1>6, <1>7

\* A dropped caller releases the transition only if it held it.
LEMMA CancelInductive ==
    ASSUME IInv, NEW c \in Callers, Cancel(c)
    PROVE  IInv'
<1> USE AdmissionAssumption, FreeAssumption
<1> USE DEF IInv, Cancel, memory, tasks, durable, bounds, history
<1>1. TypeOK'
  BY DEF TypeOK, IdleCaller, CallerRecord, CallerPlaces
<1>2. (Busy /\ Exclusive)'
  BY DEF TypeOK, Busy, Exclusive, IdleCaller, NoDrainer
<1>3. Recorded'
  BY DEF TypeOK, Busy, Exclusive, Recorded, IdleCaller
<1>4. Replayed'
  BY DEF TypeOK, Replayed, NoDrainer
<1>5. Vouched'
  BY DEF TypeOK, Exclusive, Vouched, Remaining, Rejected, NoDrainer
<1>6. (FailClosed /\ RefusedIsRemembered)'
  BY DEF TypeOK, FailClosed, RefusedIsRemembered, Remaining, Rejected
<1>7. Lanes'
  BY DEF Lanes
<1>8. QED
  BY <1>1, <1>2, <1>3, <1>4, <1>5, <1>6, <1>7

\* A popped entry is one of the queue's.
LEMMA PopInductive ==
    ASSUME IInv, NEW s \in Sessions, Pop(s)
    PROVE  IInv'
<1> USE AdmissionAssumption, FreeAssumption
<1> USE DEF IInv, Pop, memory, tasks, durable, bounds, history
<1>a. queue[s] # <<>> => Head(queue[s]) \in Entry /\ Tail(queue[s]) \in Seq(Entry)
  BY HeadTailProperties DEF TypeOK
<1>b. /\ drainer' \in [Sessions -> DrainerRecord]
      /\ \A r \in Sessions : r # s => drainer'[r] = drainer[r]
      /\ \/ drainer'[s].at = "off"
         \/ drainer'[s].at = "apply" /\ drainer'[s].entry \in Entry
  <2>1. CASE queue[s] # <<>>
    <3> DEFINE record == [at |-> "apply", entry |-> Head(queue[s]),
                          remaining |-> FALSE]
    <3>1. record \in DrainerRecord
      BY <1>a, <2>1 DEF DrainerRecord, DrainerPlaces
    <3>2. drainer' = [drainer EXCEPT ![s] = record]
      BY <2>1
    <3>3. record.at = "apply" /\ record.entry \in Entry
      BY <1>a, <2>1
    <3> HIDE DEF record
    <3>4. QED
      BY <3>1, <3>2, <3>3, DrainerReplaced
  <2>2. CASE queue[s] = <<>>
    <3>1. NoDrainer \in DrainerRecord /\ NoDrainer.at = "off"
      BY DEF NoDrainer, DrainerRecord, DrainerPlaces
    <3>2. drainer' = [drainer EXCEPT ![s] = NoDrainer]
      BY <2>2
    <3>3. QED
      BY <3>1, <3>2, DrainerReplaced
  <2>3. QED
    BY <2>1, <2>2
<1>1. TypeOK'
  <2>1. CASE queue[s] # <<>>
    <3>1. queue' = [queue EXCEPT ![s] = Tail(queue[s])]
      BY <2>1
    <3>2. queue' \in [Sessions -> Seq(Entry)]
      BY <1>a, <2>1, <3>1 DEF TypeOK
    <3>3. applied' \in [Sessions -> Nat]
      BY <1>a, <2>1 DEF TypeOK, Entry
    <3>4. QED
      BY <1>b, <2>1, <3>2, <3>3 DEF TypeOK
  <2>2. CASE queue[s] = <<>>
    BY <1>b, <2>2 DEF TypeOK, Stopped
  <2>3. QED
    BY <2>1, <2>2
<1>2. (Busy /\ Exclusive)'
  BY <1>b DEF Busy, Exclusive
<1>3. Recorded'
  BY DEF TypeOK, Busy, Exclusive, Recorded, IdleCaller
<1>4. Replayed'
  BY <1>b DEF Replayed
<1>5. Vouched'
  BY <1>b DEF Vouched
<1>6. (FailClosed /\ RefusedIsRemembered)'
  BY DEF TypeOK, FailClosed, RefusedIsRemembered, Remaining, Rejected
<1>7. Lanes'
  <2>1. CASE queue[s] # <<>>
    <3>1. /\ \A r \in Sessions : r # s => queue'[r] = queue[r]
          /\ draining' = draining
      BY <2>1 DEF TypeOK
    <3>2. draining[s] /\ drainer'[s].at # "off"
      BY <2>1 DEF TypeOK, Lanes
    <3>3. QED
      BY <1>b, <3>1, <3>2 DEF Lanes
  <2>2. CASE queue[s] = <<>>
    <3>1. /\ queue' = queue /\ draining'[s] = FALSE
          /\ \A r \in Sessions : r # s => draining'[r] = draining[r]
          /\ drainer'[s].at = "off"
      BY <2>2 DEF TypeOK, Stopped, NoDrainer
    <3>2. QED
      BY <1>b, <2>2, <3>1 DEF Lanes
  <2>3. QED
    BY <2>1, <2>2
<1>8. QED
  BY <1>1, <1>2, <1>3, <1>4, <1>5, <1>6, <1>7

\* What is applied is stored.
LEMMA ApplyInductive ==
    ASSUME IInv, NEW s \in Sessions, Apply(s)
    PROVE  IInv'
<1> USE AdmissionAssumption, FreeAssumption
<1> USE DEF IInv, Apply, memory, tasks, durable, bounds, history
<1>a. drainer[s].entry.obs \in Observations
  BY DEF Replayed, Entry
<1>b. /\ drainer' \in [Sessions -> DrainerRecord]
      /\ drainer'[s].at = "reconcile" /\ drainer'[s].entry = drainer[s].entry
      /\ \A r \in Sessions : r # s => drainer'[r] = drainer[r]
  <2>1. "reconcile" \in DrainerPlaces
    BY DEF DrainerPlaces
  <2>2. drainer' = [drainer EXCEPT ![s].at = "reconcile"]
    OBVIOUS
  <2>3. QED
    BY <2>1, <2>2, DrainerMoves, Zenon
<1>1. TypeOK'
  BY <1>a, <1>b DEF TypeOK
<1>2. (Busy /\ Exclusive)'
  BY <1>b DEF Busy, Exclusive
<1>3. Recorded'
  BY DEF TypeOK, Busy, Exclusive, Recorded, IdleCaller
<1>4. Replayed'
  BY <1>b DEF Replayed
<1>5. Vouched'
  BY <1>b DEF Vouched
<1>6. (FailClosed /\ RefusedIsRemembered)'
  BY DEF TypeOK, FailClosed, RefusedIsRemembered, Remaining, Rejected
<1>7. Lanes'
  BY <1>b DEF Lanes
<1>8. QED
  BY <1>1, <1>2, <1>3, <1>4, <1>5, <1>6, <1>7

\* An observation that failed stays out of the store and of the rejections.
LEMMA FailToApplyInductive ==
    ASSUME IInv, NEW s \in Sessions, FailToApply(s)
    PROVE  IInv'
<1> USE AdmissionAssumption, FreeAssumption
<1> USE DEF IInv, FailToApply, memory, tasks, durable, bounds, history
<1>a. /\ caller' \in [Callers -> CallerRecord]
      /\ \A d \in Callers : \/ caller'[d] = caller[d]
                           \/ /\ caller'[d] = IdleCaller
                              /\ caller[d].at = "waiting"
  BY AnswerKeepsOthers DEF Answered
<1>b. /\ drainer' \in [Sessions -> DrainerRecord]
      /\ drainer'[s].at = "pop"
      /\ \A r \in Sessions : r # s => drainer'[r] = drainer[r]
  <2>1. [NoDrainer EXCEPT !.at = "pop"] \in DrainerRecord
    BY DEF NoDrainer, DrainerRecord, DrainerPlaces
  <2>2. [NoDrainer EXCEPT !.at = "pop"].at = "pop"
    BY DEF NoDrainer
  <2>3. QED
    BY <2>1, <2>2, DrainerReplaced DEF Looped
<1>1. TypeOK'
  BY <1>a, <1>b DEF TypeOK
<1>2. (Busy /\ Exclusive)'
  <2>1. Busy'
    BY <1>a DEF Busy, IdleCaller
  <2>2. \A d \in Callers : caller'[d].at = "saving" <=> caller[d].at = "saving"
    BY <1>a DEF IdleCaller
  <2>3. QED
    BY <1>b, <2>1, <2>2 DEF TypeOK, Exclusive
<1>3. Recorded'
  <2>1. \A d \in Callers : caller'[d].at = "saving" => caller'[d] = caller[d]
    BY <1>a DEF IdleCaller
  <2>2. QED
    BY <2>1 DEF TypeOK, Exclusive, Recorded
<1>4. Replayed'
  BY <1>b DEF Replayed
<1>5. Vouched'
  BY <1>b DEF TypeOK, Exclusive, Vouched, Remaining, Rejected
<1>6. (FailClosed /\ RefusedIsRemembered)'
  BY DEF TypeOK, FailClosed, RefusedIsRemembered, Remaining, Rejected
<1>7. Lanes'
  BY <1>b DEF Lanes
<1>8. QED
  BY <1>1, <1>2, <1>3, <1>4, <1>5, <1>6, <1>7

\* A session that is not uncertain has nothing left to replay.
LEMMA BeginReconcileInductive ==
    ASSUME IInv, NEW s \in Sessions, BeginReconcile(s)
    PROVE  IInv'
<1> USE AdmissionAssumption, FreeAssumption
<1> USE DEF IInv, BeginReconcile, memory, tasks, durable, bounds, history
<1> DEFINE place == IF s \in uncertain THEN "clearing" ELSE "admit"
<1>a. /\ drainer' \in [Sessions -> DrainerRecord]
      /\ drainer'[s].at = place /\ drainer'[s].entry = drainer[s].entry
      /\ \A r \in Sessions : r # s => drainer'[r] = drainer[r]
  <2>1. place \in DrainerPlaces
    BY DEF DrainerPlaces
  <2>2. drainer' = [drainer EXCEPT ![s].at = place]
    OBVIOUS
  <2> HIDE DEF place
  <2>3. QED
    BY <2>1, <2>2, DrainerMoves, Zenon
<1>1. TypeOK'
  BY <1>a DEF TypeOK
<1>2. (Busy /\ Exclusive)'
  BY <1>a DEF Busy, Exclusive
<1>3. Recorded'
  BY DEF TypeOK, Busy, Exclusive, Recorded, IdleCaller
<1>4. Replayed'
  BY <1>a DEF Replayed
<1>5. Vouched'
  <2>1. drainer'[s].at = "admit" => ~Remaining(rejections, s)
    BY <1>a DEF FailClosed
  <2>2. QED
    BY <1>a, <2>1 DEF Vouched
<1>6. (FailClosed /\ RefusedIsRemembered)'
  BY DEF TypeOK, FailClosed, RefusedIsRemembered, Remaining, Rejected
<1>7. Lanes'
  BY <1>a DEF Lanes
<1>8. QED
  BY <1>1, <1>2, <1>3, <1>4, <1>5, <1>6, <1>7

\* The only row deleted is that of a stored observation, and the uncertainty
\* is lifted exactly when no row is left: no save can come in between.
LEMMA ClearRejectionInductive ==
    ASSUME IInv, NEW s \in Sessions, ClearRejection(s)
    PROVE  IInv'
<1> USE AdmissionAssumption, FreeAssumption
<1> USE DEF IInv, ClearRejection, memory, tasks, durable, bounds, history
<1> DEFINE o == drainer[s].entry.obs
           left == Cleared(rejections, s, o)
           remaining == Remaining(left, s)
<1>a. o \in Observations /\ o \in stored
  BY DEF Replayed, Entry
<1>b. /\ left \subseteq rejections /\ rejections \subseteq left \cup {o}
      /\ remaining \in BOOLEAN
  BY DEF Cleared, Rejected, Remaining
<1>c. \A r \in Sessions : r # s => (Remaining(left, r) = Remaining(rejections, r))
  BY DEF Cleared, Rejected, Remaining
<1>d. /\ drainer' = [drainer EXCEPT ![s].at = "admit", ![s].remaining = remaining]
      /\ rejections' = left
      /\ uncertain' = IF remaining THEN uncertain ELSE uncertain \ {s}
      /\ health' = IF remaining THEN health ELSE [health EXCEPT ![s] = "Healthy"]
  OBVIOUS
<1> HIDE DEF left, remaining
<1>e. /\ drainer' \in [Sessions -> DrainerRecord]
      /\ drainer'[s].at = "admit" /\ drainer'[s].entry = drainer[s].entry
      /\ drainer'[s].remaining = remaining
      /\ \A r \in Sessions : r # s => drainer'[r] = drainer[r]
  BY <1>b, <1>d, DrainerNotes, Zenon
<1>1. TypeOK'
  <2>1. /\ uncertain' \in SUBSET Sessions
        /\ health' \in [Sessions -> {"Healthy", "Degraded"}]
        /\ rejections' \in SUBSET Observations
    BY <1>b, <1>d DEF TypeOK
  <2>2. QED
    BY <1>e, <2>1 DEF TypeOK
<1>2. (Busy /\ Exclusive)'
  BY <1>e DEF Busy, Exclusive
<1>3. Recorded'
  <2>1. \A c \in Callers : caller[c].at # "saving"
    BY DEF Exclusive
  <2>2. QED
    BY <2>1 DEF Recorded
<1>4. Replayed'
  BY <1>a, <1>e DEF Replayed
<1>5. Vouched'
  <2>1. \A r \in Sessions : r # s => drainer[r].at # "admit"
    BY DEF Exclusive
  <2>2. drainer'[s].remaining = Remaining(rejections', s)
    BY <1>b, <1>d, <1>e DEF TypeOK, remaining
  <2>3. QED
    BY <1>e, <2>1, <2>2 DEF Vouched
<1>6. (FailClosed /\ RefusedIsRemembered)'
  <2>1. FailClosed'
    <3>1. \A r \in Sessions : r # s => (Remaining(rejections', r) => Remaining(rejections, r))
      BY <1>c, <1>d
    <3>2. remaining => Remaining(rejections, s)
      BY <1>b DEF remaining, Remaining, Rejected
    <3>3. Remaining(rejections', s) = remaining
      BY <1>d DEF remaining
    <3>4. QED
      BY <1>b, <1>d, <3>1, <3>2, <3>3 DEF TypeOK, FailClosed
  <2>2. RefusedIsRemembered'
    BY <1>a, <1>b, <1>d DEF RefusedIsRemembered
  <2>3. QED
    BY <2>1, <2>2
<1>7. Lanes'
  BY <1>e DEF Lanes
<1>8. QED
  BY <1>1, <1>2, <1>3, <1>4, <1>5, <1>6, <1>7

\* A failed clear leaves the session uncertain.
LEMMA FailToClearInductive ==
    ASSUME IInv, NEW s \in Sessions, FailToClear(s)
    PROVE  IInv'
<1> USE AdmissionAssumption, FreeAssumption
<1> USE DEF IInv, FailToClear, memory, tasks, durable, bounds, history
<1>a. /\ caller' \in [Callers -> CallerRecord]
      /\ \A d \in Callers : \/ caller'[d] = caller[d]
                           \/ /\ caller'[d] = IdleCaller
                              /\ caller[d].at = "waiting"
  BY AnswerKeepsOthers DEF Answered
<1>b. /\ drainer' \in [Sessions -> DrainerRecord]
      /\ drainer'[s].at = "pop"
      /\ \A r \in Sessions : r # s => drainer'[r] = drainer[r]
  <2>1. [NoDrainer EXCEPT !.at = "pop"] \in DrainerRecord
    BY DEF NoDrainer, DrainerRecord, DrainerPlaces
  <2>2. [NoDrainer EXCEPT !.at = "pop"].at = "pop"
    BY DEF NoDrainer
  <2>3. QED
    BY <2>1, <2>2, DrainerReplaced DEF Looped
<1>1. TypeOK'
  BY <1>a, <1>b DEF TypeOK
<1>2. (Busy /\ Exclusive)'
  <2>1. Busy'
    BY <1>a DEF Busy, IdleCaller
  <2>2. \A d \in Callers : caller'[d].at = "saving" <=> caller[d].at = "saving"
    BY <1>a DEF IdleCaller
  <2>3. /\ \A d \in Callers : caller[d].at # "saving" /\ transition' # d
        /\ \A r \in Sessions : r # s => drainer[r].at \notin {"clearing", "admit"}
        /\ \A r \in Sessions : transition' # r
    BY DEF Exclusive
  <2>4. QED
    BY <1>b, <2>1, <2>2, <2>3 DEF Exclusive
<1>3. Recorded'
  <2>1. \A d \in Callers : caller'[d].at = "saving" => caller'[d] = caller[d]
    BY <1>a DEF IdleCaller
  <2>2. QED
    BY <2>1 DEF TypeOK, Exclusive, Recorded
<1>4. Replayed'
  BY <1>b DEF Replayed
<1>5. Vouched'
  BY <1>b DEF TypeOK, Exclusive, Vouched, Remaining, Rejected
<1>6. (FailClosed /\ RefusedIsRemembered)'
  BY DEF TypeOK, FailClosed, RefusedIsRemembered, Remaining, Rejected
<1>7. Lanes'
  BY <1>b DEF Lanes
<1>8. QED
  BY <1>1, <1>2, <1>3, <1>4, <1>5, <1>6, <1>7

\* The queue's flag is lifted when nothing remained, which still holds.
LEMMA FinishReconcileInductive ==
    ASSUME IInv, NEW s \in Sessions, FinishReconcile(s)
    PROVE  IInv'
<1> USE AdmissionAssumption, FreeAssumption
<1> USE DEF IInv, FinishReconcile, memory, tasks, durable, bounds, history
<1>a. /\ caller' \in [Callers -> CallerRecord]
      /\ \A d \in Callers : \/ caller'[d] = caller[d]
                           \/ /\ caller'[d] = IdleCaller
                              /\ caller[d].at = "waiting"
  BY AnswerKeepsOthers DEF Answered
<1>b. /\ drainer' \in [Sessions -> DrainerRecord]
      /\ drainer'[s].at = "pop"
      /\ \A r \in Sessions : r # s => drainer'[r] = drainer[r]
  <2>1. [NoDrainer EXCEPT !.at = "pop"] \in DrainerRecord
    BY DEF NoDrainer, DrainerRecord, DrainerPlaces
  <2>2. [NoDrainer EXCEPT !.at = "pop"].at = "pop"
    BY DEF NoDrainer
  <2>3. QED
    BY <2>1, <2>2, DrainerReplaced DEF Looped
<1>1. TypeOK'
  <2>1. /\ degraded' \in [Sessions -> BOOLEAN]
        /\ health' \in [Sessions -> {"Healthy", "Degraded"}]
    BY DEF TypeOK
  <2>2. QED
    BY <1>a, <1>b, <2>1 DEF TypeOK
<1>2. (Busy /\ Exclusive)'
  <2>1. Busy'
    BY <1>a DEF Busy, IdleCaller
  <2>2. \A d \in Callers : caller'[d].at = "saving" <=> caller[d].at = "saving"
    BY <1>a DEF IdleCaller
  <2>3. /\ \A d \in Callers : caller[d].at # "saving" /\ transition' # d
        /\ \A r \in Sessions : r # s => drainer[r].at \notin {"clearing", "admit"}
        /\ \A r \in Sessions : transition' # r
    BY DEF Exclusive
  <2>4. QED
    BY <1>b, <2>1, <2>2, <2>3 DEF Exclusive
<1>3. Recorded'
  <2>1. \A d \in Callers : caller[d].at # "saving"
    BY DEF Exclusive
  <2>2. QED
    BY <1>a, <2>1 DEF Recorded, IdleCaller
<1>4. Replayed'
  BY <1>b DEF Replayed
<1>5. Vouched'
  BY <1>b DEF TypeOK, Exclusive, Vouched, Remaining, Rejected
<1>6. (FailClosed /\ RefusedIsRemembered)'
  <2>1. CASE ~reconcile_rejected(s)
    BY <2>1 DEF FailClosed, RefusedIsRemembered
  <2>2. CASE reconcile_rejected(s)
    <3>1. ~Remaining(rejections, s)
      BY <2>2 DEF reconcile_rejected, Vouched
    <3>2. QED
      BY <2>2, <3>1 DEF TypeOK, FailClosed, RefusedIsRemembered
  <2>3. QED
    BY <2>1, <2>2
<1>7. Lanes'
  BY <1>b DEF Lanes
<1>8. QED
  BY <1>1, <1>2, <1>3, <1>4, <1>5, <1>6, <1>7

\* The sessions with rejections are read back from the table.
LEMMA RestartInductive ==
    ASSUME IInv, Restart
    PROVE  IInv'
<1> USE AdmissionAssumption, FreeAssumption
<1> USE DEF IInv, Restart, memory, tasks, durable, bounds, history
<1>1. TypeOK'
  <2>1. IdleCaller \in CallerRecord
    BY DEF IdleCaller, CallerRecord, CallerPlaces
  <2>2. NoDrainer \in DrainerRecord
    BY DEF NoDrainer, DrainerRecord, DrainerPlaces
  <2>3. uncertain' \in SUBSET Sessions
    BY DEF observation_queue_uncertain_sessions
  <2>4. QED
    BY <2>1, <2>2, <2>3, EmptySeq DEF TypeOK
<1>2. (Busy /\ Exclusive)'
  BY DEF TypeOK, Busy, Exclusive, IdleCaller, NoDrainer
<1>3. Recorded'
  BY DEF TypeOK, Busy, Exclusive, Recorded, IdleCaller
<1>4. Replayed'
  BY DEF TypeOK, Replayed, NoDrainer
<1>5. Vouched'
  BY DEF TypeOK, Exclusive, Vouched, Remaining, Rejected, NoDrainer
<1>6. (FailClosed /\ RefusedIsRemembered)'
  BY DEF TypeOK, FailClosed, RefusedIsRemembered, Remaining, Rejected,
         observation_queue_uncertain_sessions
<1>7. Lanes'
  BY DEF Lanes, NoDrainer
<1>8. QED
  BY <1>1, <1>2, <1>3, <1>4, <1>5, <1>6, <1>7

\* Every step keeps the invariant.
LEMMA NextInductive == IInv /\ [Next]_vars => IInv'
<1> SUFFICES ASSUME IInv, [Next]_vars PROVE IInv'
  OBVIOUS
<1>1. CASE \E c \in Callers : Submit(c) \/ CallerStep(c) \/ Cancel(c)
  BY <1>1, SubmitInductive, AdmitInductive, RefuseInductive,
     PersistRejectionInductive, SaveRejectionInductive, FailToSaveInductive,
     CancelInductive DEF CallerStep
<1>2. CASE \E s \in Sessions : DrainerStep(s)
  BY <1>2, PopInductive, ApplyInductive, FailToApplyInductive,
     BeginReconcileInductive, ClearRejectionInductive, FailToClearInductive,
     FinishReconcileInductive DEF DrainerStep
<1>3. CASE Restart
  BY <1>3, RestartInductive
<1>4. CASE UNCHANGED vars
  BY <1>4 DEF vars, memory, tasks, durable, bounds, history, IInv, TypeOK,
     Busy, Exclusive, Recorded, Replayed, Vouched, Lanes, FailClosed,
     RefusedIsRemembered, Remaining, Rejected
<1>5. QED
  BY <1>1, <1>2, <1>3, <1>4 DEF Next

\* The state stays well typed: queues of entries, mutexes held by tasks.
THEOREM TypeCorrect == Spec => []TypeOK
<1>1. IInv => TypeOK
  BY DEF IInv
<1>2. QED
  BY InitInductive, NextInductive, <1>1, PTL DEF Spec

\* Backpressure fails closed: a session with a rejection on record is
\* uncertain and Degraded (persist_queue_rejection,
\* reconcile_rejected_observation, with_policy).
THEOREM BackpressureFailsClosed == Spec => []FailClosed
<1>1. IInv => FailClosed
  BY DEF IInv
<1>2. QED
  BY InitInductive, NextInductive, <1>1, PTL DEF Spec

\* A refused observation stays on record until it is stored
\* (save_observation_queue_rejection, clear_observation_queue_rejection).
THEOREM RefusalRemembered == Spec => []RefusedIsRemembered
<1>1. IInv => RefusedIsRemembered
  BY DEF IInv
<1>2. QED
  BY InitInductive, NextInductive, <1>1, PTL DEF Spec

\* No entry is left in a lane without a drainer (apply_observation's spawn
\* against drain_observations' last look at the queue).
THEOREM NothingStranded == Spec => []NoStrandedEntry
<1>1. IInv => NoStrandedEntry
  BY DEF IInv, Lanes, NoStrandedEntry
<1>2. QED
  BY InitInductive, NextInductive, <1>1, PTL DEF Spec


-----------------------------------------------------------------------------
(* The order of a lane, and who waits for what.                            *)

\* The tickets of a queue grow, all of them above low and none above high.
Ascending(q, low, high) ==
    /\ \A i \in 1..Len(q) : low < q[i].ticket /\ q[i].ticket <= high
    /\ \A i, j \in 1..Len(q) : i < j => q[i].ticket < q[j].ticket

\* What is queued was pushed after what the drainer took last, in order.
Ordered ==
    \A s \in Sessions : applied[s] <= tickets /\ Ascending(queue[s], applied[s], tickets)

\* A drainer at its loop's head, or none, holds no entry.
Released ==
    \A s \in Sessions : drainer[s].at \in {"off", "pop"} => drainer[s].entry = NoEntry

\* The entry e is in the queue q or in the hands of a drainer d.
Holds(q, d, e) == d.entry = e \/ \E i \in 1..Len(q) : q[i] = e

\* Every waiting caller's entry is held in some lane.
Awaited ==
    \A c \in Callers : caller[c].at = "waiting" =>
        \E s \in Sessions, e \in Entry :
            Holds(queue[s], drainer[s], e) /\ e.from = c /\ e.ticket = caller[c].ticket

LaneInv == IInv /\ Ordered /\ Released /\ Awaited

\* try_push_replacing: the entry goes to the end, and the others keep their
\* order, without the activity it replaces.
LEMMA PushedShape ==
    ASSUME NEW q \in Seq(Entry), NEW entry \in Entry
    PROVE  LET p == Pushed(q, entry)
           IN  \/ /\ Coalesced(q, entry) = {} /\ Len(p) = Len(q) + 1
                  /\ p[Len(q) + 1] = entry /\ \A i \in 1..Len(q) : p[i] = q[i]
               \/ \E d \in 1..Len(q) :
                     /\ Coalesced(q, entry) = {q[d]} /\ Len(p) = Len(q)
                     /\ p[Len(q)] = entry
                     /\ \A i \in 1..(Len(q) - 1) : p[i] = IF i < d THEN q[i] ELSE q[i + 1]
<1>1. CASE ~Coalesces(q, entry.obs)
  BY <1>1, AppendProperties DEF Pushed, Coalesced
<1>2. CASE Coalesces(q, entry.obs)
  <2>0. Len(q) \in Nat /\ \A k \in 1..Len(q) : q[k] \in Entry
    BY LenProperties, ElementOfSeq
  <2>1. \E i \in Activities(q) : \A j \in Activities(q) : j <= i
    BY <1>2, <2>0, LastPosition DEF Coalesces, Activities
  <2>2. Displaced(q) \in 1..Len(q)
    BY <2>1 DEF Displaced, Activities
  <2> DEFINE d == Displaced(q)
             a == SubSeq(q, 1, d - 1)
             b == SubSeq(q, d + 1, Len(q))
             w == Without(q, d)
  <2>3. d \in 1..Len(q)
    BY <2>2
  <2>e. /\ Coalesced(q, entry) = {q[d]} /\ Pushed(q, entry) = Append(w, entry) /\ w = a \o b
    BY <1>2 DEF Coalesced, Pushed, Without
  <2> HIDE DEF d, w
  <2>4. a \in Seq(Entry) /\ Len(a) = d - 1 /\ \A i \in 1..(d - 1) : a[i] = q[i]
    <3>1. d - 1 \in Int /\ \A k \in 1..(d - 1) : q[k] \in Entry
      BY <2>0, <2>3
    <3>2. /\ a \in Seq(Entry) /\ Len(a) = (IF 1 <= d - 1 THEN d - 1 - 1 + 1 ELSE 0)
          /\ \A i \in 1..(d - 1 - 1 + 1) : a[i] = q[1 + i - 1]
      BY <3>1, SubSeqProperties
    <3> HIDE DEF a
    <3>3. QED
      BY <2>0, <2>3, <3>2
  <2>5. b \in Seq(Entry) /\ Len(b) = Len(q) - d /\ \A i \in 1..(Len(q) - d) : b[i] = q[d + i]
    <3>1. d + 1 \in Int /\ \A k \in (d + 1)..Len(q) : q[k] \in Entry
      BY <2>0, <2>3
    <3>2. /\ b \in Seq(Entry)
          /\ Len(b) = (IF d + 1 <= Len(q) THEN Len(q) - (d + 1) + 1 ELSE 0)
          /\ \A i \in 1..(Len(q) - (d + 1) + 1) : b[i] = q[d + 1 + i - 1]
      BY <2>0, <3>1, SubSeqProperties
    <3> HIDE DEF b
    <3>3. QED
      BY <2>0, <2>3, <3>2
  <2> HIDE DEF a, b
  <2>6. /\ w \in Seq(Entry) /\ Len(w) = Len(a) + Len(b)
        /\ \A i \in 1..(Len(a) + Len(b)) : w[i] = IF i <= Len(a) THEN a[i] ELSE b[i - Len(a)]
    BY <2>4, <2>5, <2>e, ConcatProperties
  <2>7. Len(w) = Len(q) - 1
        /\ \A i \in 1..(Len(q) - 1) : w[i] = IF i < d THEN q[i] ELSE q[i + 1]
    <3>1. Len(w) = Len(q) - 1
      BY <2>0, <2>3, <2>4, <2>5, <2>6
    <3>2. ASSUME NEW i \in 1..(Len(q) - 1) PROVE w[i] = IF i < d THEN q[i] ELSE q[i + 1]
      <4>1. i \in 1..(Len(a) + Len(b)) /\ (i < d <=> i <= Len(a)) /\ i \in Int /\ d \in Int
        BY <2>0, <2>3, <2>4, <2>5
      <4>2. CASE i < d
        <5>1. i \in 1..(d - 1)
          BY <4>1, <4>2
        <5>2. QED
          BY <2>4, <2>6, <4>1, <4>2, <5>1
      <4>3. CASE ~(i < d)
        <5>1. i - Len(a) \in 1..(Len(q) - d) /\ d + (i - Len(a)) = i + 1
          BY <2>0, <2>3, <2>4, <4>1, <4>3
        <5>2. w[i] = b[i - Len(a)]
          BY <2>6, <4>1, <4>3
        <5>3. QED
          BY <2>5, <4>3, <5>1, <5>2
      <4>4. QED
        BY <4>2, <4>3
    <3>3. QED
      BY <3>1, <3>2
  <2> DEFINE p == Append(w, entry)
  <2>8. Len(p) = Len(w) + 1 /\ p[Len(w) + 1] = entry /\ \A i \in 1..Len(w) : p[i] = w[i]
    BY <2>6, AppendProperties
  <2> HIDE DEF p
  <2>9. /\ Len(p) = Len(q) /\ p[Len(q)] = entry
        /\ \A i \in 1..(Len(q) - 1) : p[i] = IF i < d THEN q[i] ELSE q[i + 1]
    BY <2>0, <2>3, <2>7, <2>8
  <2>10. QED
    BY <2>3, <2>9, <2>e DEF p
<1>3. QED
  BY <1>1, <1>2

\* A push with the next ticket keeps the order, and holds its entry and every
\* other one whose producer is not answered.
LEMMA PushedOrder ==
    ASSUME NEW q \in Seq(Entry), NEW entry \in Entry, NEW low \in Nat, NEW n \in Nat,
           low <= n, entry.ticket = n + 1, Ascending(q, low, n)
    PROVE  /\ Ascending(Pushed(q, entry), low, n + 1)
           /\ \E i \in 1..Len(Pushed(q, entry)) : Pushed(q, entry)[i] = entry
           /\ \A k \in 1..Len(q) :
                 \/ q[k] \in Coalesced(q, entry)
                 \/ \E i \in 1..Len(Pushed(q, entry)) : Pushed(q, entry)[i] = q[k]
<1> DEFINE p == Pushed(q, entry)
<1>0. Len(q) \in Nat /\ \A k \in 1..Len(q) : q[k] \in Entry /\ q[k].ticket \in Nat
  <2>1. Len(q) \in Nat /\ \A k \in 1..Len(q) : q[k] \in Entry
    BY LenProperties, ElementOfSeq
  <2>2. \A e \in Entry : e.ticket \in Nat
    BY DEF Entry
  <2>3. QED
    BY <2>1, <2>2
<1>1. CASE /\ Coalesced(q, entry) = {} /\ Len(p) = Len(q) + 1
           /\ p[Len(q) + 1] = entry /\ \A i \in 1..Len(q) : p[i] = q[i]
  <2> HIDE DEF p
  <2>0. \A i \in 1..Len(p) : i \in 1..Len(q) \/ i = Len(q) + 1
    BY <1>0, <1>1
  <2>1. Ascending(p, low, n + 1)
    <3>1. ASSUME NEW i \in 1..Len(p) PROVE low < p[i].ticket /\ p[i].ticket <= n + 1
      BY <1>0, <1>1, <2>0 DEF Ascending
    <3>2. ASSUME NEW i \in 1..Len(p), NEW j \in 1..Len(p), i < j
          PROVE  p[i].ticket < p[j].ticket
      <4>1. i \in 1..Len(q)
        BY <1>0, <1>1, <3>2
      <4>2. QED
        BY <1>0, <1>1, <2>0, <3>2, <4>1 DEF Ascending
    <3>3. QED
      BY <3>1, <3>2 DEF Ascending
  <2>2. Len(q) + 1 \in 1..Len(p) /\ \A k \in 1..Len(q) : k \in 1..Len(p)
    BY <1>0, <1>1
  <2>3. QED
    BY <1>1, <2>1, <2>2 DEF p
<1>2. ASSUME NEW d \in 1..Len(q), Coalesced(q, entry) = {q[d]}, Len(p) = Len(q),
             p[Len(q)] = entry,
             \A i \in 1..(Len(q) - 1) : p[i] = IF i < d THEN q[i] ELSE q[i + 1]
      PROVE  /\ Ascending(p, low, n + 1)
             /\ \E i \in 1..Len(p) : p[i] = entry
             /\ \A k \in 1..Len(q) : q[k] \in Coalesced(q, entry) \/ \E i \in 1..Len(p) : p[i] = q[k]
  <2> HIDE DEF p
  <2>1. \A i \in 1..Len(q) :
           \/ i = Len(q)
           \/ i \in 1..(Len(q) - 1) /\ i < d /\ p[i] = q[i]
           \/ i \in 1..(Len(q) - 1) /\ i >= d /\ p[i] = q[i + 1] /\ i + 1 \in 1..Len(q)
    BY <1>0, <1>2
  <2>2. ASSUME NEW i \in 1..(Len(q) - 1)
        PROVE  \E k \in 1..Len(q) : p[i] = q[k] /\ ((k = i /\ i < d) \/ (k = i + 1 /\ i >= d))
    <3>1. i \in 1..Len(q) /\ i # Len(q)
      BY <1>0
    <3>2. CASE i < d /\ p[i] = q[i]
      <4>1. p[i] = q[i] /\ ((i = i /\ i < d) \/ (i = i + 1 /\ i >= d))
        BY <3>2
      <4>2. QED
        BY <3>1, <4>1, Zenon
    <3>3. CASE i >= d /\ p[i] = q[i + 1] /\ i + 1 \in 1..Len(q)
      BY <3>3
    <3>4. QED
      BY <2>1, <3>1, <3>2, <3>3
  <2>3. ASSUME NEW i \in 1..Len(p) PROVE low < p[i].ticket /\ p[i].ticket <= n + 1
    <3>1. CASE i = Len(q)
      BY <1>0, <1>2, <3>1
    <3>2. CASE i # Len(q)
      <4>1. i \in 1..(Len(q) - 1)
        BY <1>0, <1>2, <3>2
      <4>2. PICK k \in 1..Len(q) : p[i] = q[k]
        BY <2>2, <4>1
      <4>3. low < q[k].ticket /\ q[k].ticket <= n
        BY DEF Ascending
      <4>4. q[k].ticket \in Nat
        BY <1>0
      <4>5. QED
        BY <4>2, <4>3, <4>4
    <3>3. QED
      BY <3>1, <3>2
  <2>4. ASSUME NEW i \in 1..Len(p), NEW j \in 1..Len(p), i < j
        PROVE  p[i].ticket < p[j].ticket
    <3>1. i \in 1..(Len(q) - 1)
      BY <1>0, <1>2, <2>4
    <3>2. PICK k \in 1..Len(q) : p[i] = q[k] /\ ((k = i /\ i < d) \/ (k = i + 1 /\ i >= d))
      BY <2>2, <3>1
    <3>3. CASE j = Len(q)
      BY <1>0, <1>2, <3>2, <3>3 DEF Ascending
    <3>4. CASE j # Len(q)
      <4>1. PICK l \in 1..Len(q) : p[j] = q[l] /\ ((l = j /\ j < d) \/ (l = j + 1 /\ j >= d))
        <5>1. j \in 1..(Len(q) - 1)
          BY <1>0, <1>2, <3>4
        <5>2. QED
          BY <2>2, <5>1
      <4>2. k < l
        BY <1>0, <1>2, <2>4, <3>2, <4>1
      <4>3. QED
        BY <3>2, <4>1, <4>2 DEF Ascending
    <3>5. QED
      BY <3>3, <3>4
  <2>5. ASSUME NEW k \in 1..Len(q), k # d PROVE \E i \in 1..Len(p) : p[i] = q[k]
    <3>1. CASE k < d
      <4>1. k \in 1..(Len(q) - 1) /\ k \in 1..Len(p)
        BY <1>0, <1>2, <3>1
      <4>2. QED
        BY <1>2, <3>1, <4>1
    <3>2. CASE k > d
      <4>1. k - 1 \in 1..(Len(q) - 1) /\ k - 1 \in 1..Len(p) /\ ~(k - 1 < d) /\ (k - 1) + 1 = k
        BY <1>0, <1>2, <3>2
      <4>2. p[k - 1] = q[k]
        BY <1>2, <4>1
      <4>3. QED
        BY <4>1, <4>2
    <3>3. QED
      BY <1>0, <2>5, <3>1, <3>2
  <2>6. Len(q) \in 1..Len(p)
    BY <1>0, <1>2
  <2>7. QED
    BY <1>2, <2>3, <2>4, <2>5, <2>6 DEF Ascending
<1>3. QED
  BY <1>1, <1>2, PushedShape, ZenonT(40)

\* No operation but a push, a pop and a restart touches the order of a lane.
LEMMA OrderUntouched ==
    ASSUME Ordered, UNCHANGED <<queue, tickets, applied>>
    PROVE  Ordered'
BY DEF Ordered

\* An admitted observation gets the newest ticket and the last place.
LEMMA AdmitOrdered ==
    ASSUME IInv, Ordered, NEW c \in Callers, Admit(c)
    PROVE  Ordered' /\ applied' = applied
<1> USE AdmissionAssumption
<1> DEFINE o == caller[c].obs
           s == Subject[o]
           entry == [obs |-> o, from |-> c, ticket |-> tickets']
<1>1. /\ o \in Observations /\ s \in Sessions /\ tickets' = tickets + 1 /\ tickets \in Nat
      /\ tickets' \in Nat /\ applied' = applied /\ applied \in [Sessions -> Nat]
      /\ queue \in [Sessions -> Seq(Entry)] /\ queue' = [queue EXCEPT ![s] = Pushed(queue[s], entry)]
  <2>1. TypeOK /\ Busy
    BY DEF IInv
  <2>2. applied \in [Sessions -> Nat] /\ queue \in [Sessions -> Seq(Entry)]
    BY <2>1 DEF TypeOK
  <2>3. QED
    BY <2>1, <2>2, AdmitTakes
<1>2. entry \in Entry /\ entry.ticket = tickets + 1
  BY <1>1, AdmitTakes DEF IInv
<1> HIDE DEF entry, o, s
<1>3. ASSUME NEW r \in Sessions PROVE Ascending(queue'[r], applied[r], tickets + 1)
  <2>1. /\ queue[r] \in Seq(Entry) /\ applied[r] \in Nat /\ applied[r] <= tickets
        /\ Ascending(queue[r], applied[r], tickets)
    BY <1>1 DEF Ordered
  <2>2. CASE r = s
    <3>1. queue'[r] = Pushed(queue[r], entry)
      BY <1>1, <2>2
    <3>2. QED
      BY <1>1, <1>2, <2>1, <3>1, PushedOrder
  <2>3. CASE r # s
    <3>1. queue'[r] = queue[r]
      BY <1>1, <2>3
    <3>2. Len(queue[r]) \in Nat /\ \A i \in 1..Len(queue[r]) : queue[r][i] \in Entry
      BY <2>1, LenProperties, ElementOfSeq
    <3>3. \A e \in Entry : e.ticket \in Nat
      BY DEF Entry
    <3>4. \A i \in 1..Len(queue[r]) : /\ queue[r][i].ticket \in Nat
                                      /\ applied[r] < queue[r][i].ticket
                                      /\ queue[r][i].ticket <= tickets
      BY <2>1, <3>2, <3>3 DEF Ascending
    <3>5. \A n \in Nat : n <= tickets => n <= tickets + 1
      BY <1>1
    <3>6. \A i, j \in 1..Len(queue[r]) : i < j => queue[r][i].ticket < queue[r][j].ticket
      BY <2>1 DEF Ascending
    <3>7. Ascending(queue[r], applied[r], tickets + 1)
      BY <3>4, <3>5, <3>6 DEF Ascending
    <3>8. QED
      BY <3>1, <3>7
  <2>4. QED
    BY <2>2, <2>3
<1>4. ASSUME NEW r \in Sessions PROVE applied[r] <= tickets + 1
  BY <1>1 DEF Ordered
<1>5. QED
  BY <1>1, <1>3, <1>4 DEF Ordered

\* The rest of a queue whose head was taken.
LEMMA TailOrder ==
    ASSUME NEW q \in Seq(Entry), q # <<>>, NEW low \in Nat, NEW high \in Nat,
           Ascending(q, low, high)
    PROVE  /\ Head(q) = q[1] /\ Head(q) \in Entry
           /\ low < Head(q).ticket /\ Head(q).ticket <= high /\ Head(q).ticket \in Nat
           /\ Ascending(Tail(q), Head(q).ticket, high)
           /\ \A i \in 1..Len(q) : i = 1 \/ \E j \in 1..Len(Tail(q)) : Tail(q)[j] = q[i]
<1>1. /\ Head(q) = q[1] /\ Head(q) \in Entry /\ Len(q) \in Nat /\ Len(q) # 0
      /\ Tail(q) \in Seq(Entry) /\ Len(Tail(q)) = Len(q) - 1
      /\ \A i \in 1..Len(Tail(q)) : Tail(q)[i] = q[i + 1]
  BY EmptySeq, HeadTailProperties, LenProperties
<1>2. \A i \in 1..Len(q) : q[i] \in Entry
  BY ElementOfSeq
<1>3. \A e \in Entry : e.ticket \in Nat
  BY DEF Entry
<1>4. 1 \in 1..Len(q) /\ \A i \in 1..Len(Tail(q)) : i + 1 \in 1..Len(q) /\ 1 < i + 1
  BY <1>1
<1>5. low < q[1].ticket /\ q[1].ticket <= high /\ q[1].ticket \in Nat
  BY <1>2, <1>3, <1>4 DEF Ascending
<1> DEFINE r == Tail(q)
<1> HIDE DEF r
<1>6. \A i \in 1..Len(r) : q[1].ticket < r[i].ticket /\ r[i].ticket <= high
  BY <1>1, <1>4 DEF Ascending, r
<1>7. ASSUME NEW i \in 1..Len(r), NEW j \in 1..Len(r), i < j
      PROVE  r[i].ticket < r[j].ticket
  <2>1. /\ i + 1 \in 1..Len(q) /\ j + 1 \in 1..Len(q) /\ i + 1 < j + 1
        /\ r[i] = q[i + 1] /\ r[j] = q[j + 1]
    BY <1>1, <1>4, <1>7 DEF r
  <2>2. QED
    BY <2>1 DEF Ascending
<1>8. ASSUME NEW i \in 1..Len(q), i # 1 PROVE \E j \in 1..Len(r) : r[j] = q[i]
  <2>1. i - 1 \in 1..Len(r) /\ (i - 1) + 1 = i
    BY <1>1, <1>8 DEF r
  <2>2. QED
    BY <1>1, <2>1 DEF r
<1>9. QED
  BY <1>1, <1>5, <1>6, <1>7, <1>8 DEF Ascending, r

\* A pop takes the oldest ticket, which is newer than the one before.
LEMMA PopOrdered ==
    ASSUME IInv, Ordered, NEW s \in Sessions, Pop(s)
    PROVE  /\ Ordered'
           /\ \A r \in Sessions : applied'[r] # applied[r] => applied'[r] > applied[r]
<1>1. /\ tickets' = tickets /\ tickets \in Nat /\ applied \in [Sessions -> Nat]
      /\ queue \in [Sessions -> Seq(Entry)]
  BY DEF Pop, IInv, TypeOK, bounds
<1>2. CASE queue[s] = <<>>
  <2>1. queue' = queue /\ applied' = applied
    BY <1>2 DEF Pop
  <2>2. QED
    BY <1>1, <2>1, OrderUntouched
<1>3. CASE queue[s] # <<>>
  <2>1. /\ queue' = [queue EXCEPT ![s] = Tail(queue[s])]
        /\ applied' = [applied EXCEPT ![s] = Head(queue[s]).ticket]
    BY <1>3 DEF Pop
  <2>2. /\ applied[s] < Head(queue[s]).ticket /\ Head(queue[s]).ticket <= tickets
        /\ Ascending(Tail(queue[s]), Head(queue[s]).ticket, tickets)
    <3>1. queue[s] \in Seq(Entry) /\ applied[s] \in Nat /\ Ascending(queue[s], applied[s], tickets)
      BY <1>1 DEF Ordered
    <3>2. QED
      BY <1>1, <1>3, <3>1, TailOrder
  <2>3. /\ queue'[s] = Tail(queue[s]) /\ applied'[s] = Head(queue[s]).ticket
        /\ \A r \in Sessions : r # s => queue'[r] = queue[r] /\ applied'[r] = applied[r]
    BY <1>1, <2>1
  <2>4. Ordered'
    <3>1. ASSUME NEW r \in Sessions
          PROVE  applied'[r] <= tickets /\ Ascending(queue'[r], applied'[r], tickets)
      BY <2>2, <2>3 DEF Ordered
    <3>2. QED
      BY <1>1, <3>1 DEF Ordered
  <2>5. QED
    BY <2>2, <2>3, <2>4
<1>4. QED
  BY <1>2, <1>3

\* A restart empties the lanes.
LEMMA RestartOrdered ==
    ASSUME IInv, Restart PROVE Ordered'
<1>1. /\ tickets' = tickets /\ tickets \in Nat
      /\ \A s \in Sessions : applied'[s] = 0 /\ queue'[s] = <<>>
  BY DEF Restart, IInv, TypeOK
<1>2. Len(<<>>) = 0 /\ \A i \in 1..0 : FALSE
  BY EmptySeq
<1>3. QED
  BY <1>1, <1>2 DEF Ordered, Ascending

\* Every step keeps the order, and takes entries in it.
LEMMA OrderSteps ==
    ASSUME IInv, Ordered, [Next]_vars
    PROVE  /\ Ordered'
           /\ \A s \in Sessions : applied'[s] # applied[s] => applied'[s] > applied[s] \/ Restart
<1>1. ASSUME UNCHANGED <<queue, tickets, applied>>
      PROVE  Ordered' /\ applied' = applied
  BY <1>1, OrderUntouched
<1>2. CASE UNCHANGED vars
  BY <1>1, <1>2 DEF vars, memory, bounds, history
<1>3. ASSUME NEW c \in Callers, Submit(c) \/ CallerStep(c) \/ Cancel(c)
      PROVE  Ordered' /\ applied' = applied
  <2>1. CASE Admit(c)
    BY <2>1, AdmitOrdered
  <2>2. CASE \/ Submit(c) \/ Refuse(c) \/ PersistRejection(c)
             \/ SaveRejection(c) \/ FailToSave(c) \/ Cancel(c)
    BY <1>1, <2>2 DEF Submit, Refuse, PersistRejection, SaveRejection, FailToSave,
                      Cancel, memory, bounds, history
  <2>3. QED
    BY <1>3, <2>1, <2>2 DEF CallerStep
<1>4. ASSUME NEW s \in Sessions, DrainerStep(s)
      PROVE  /\ Ordered'
             /\ \A r \in Sessions : applied'[r] # applied[r] => applied'[r] > applied[r]
  <2>1. CASE Pop(s)
    BY <2>1, PopOrdered
  <2>2. CASE \/ Apply(s) \/ FailToApply(s) \/ BeginReconcile(s)
             \/ ClearRejection(s) \/ FailToClear(s) \/ FinishReconcile(s)
    BY <1>1, <2>2 DEF Apply, FailToApply, BeginReconcile, ClearRejection,
                      FailToClear, FinishReconcile, memory, bounds, history
  <2>3. QED
    BY <1>4, <2>1, <2>2 DEF DrainerStep
<1>5. CASE Restart
  BY <1>5, RestartOrdered
<1>6. QED
  BY <1>2, <1>3, <1>4, <1>5 DEF Next

\* Who waits before and after a step still waits for an entry some lane holds.
LEMMA StillAwaited ==
    ASSUME Awaited,
           \A c \in Callers : caller'[c].at = "waiting" => caller'[c] = caller[c],
           \A c \in Callers, s \in Sessions, e \in Entry :
               /\ caller'[c].at = "waiting" /\ Holds(queue[s], drainer[s], e)
               /\ e.from = c /\ e.ticket = caller[c].ticket
               => \E r \in Sessions : Holds(queue'[r], drainer'[r], e)
    PROVE  Awaited'
<1> SUFFICES ASSUME NEW c \in Callers, caller'[c].at = "waiting"
             PROVE  \E r \in Sessions, e \in Entry :
                       /\ Holds(queue'[r], drainer'[r], e)
                       /\ e.from = c /\ e.ticket = caller'[c].ticket
  BY DEF Awaited
<1>1. caller'[c] = caller[c]
  OBVIOUS
<1>2. PICK s \in Sessions, e \in Entry :
        Holds(queue[s], drainer[s], e) /\ e.from = c /\ e.ticket = caller[c].ticket
  BY <1>1 DEF Awaited
<1>3. \E r \in Sessions : Holds(queue'[r], drainer'[r], e)
  BY <1>2
<1>4. QED
  BY <1>1, <1>2, <1>3

\* A step that keeps the lanes' entries, and lets nobody start to wait.
LEMMA WaitersUntouched ==
    ASSUME Released, Awaited, queue' = queue,
           \A s \in Sessions : /\ drainer'[s].entry = drainer[s].entry
                               /\ drainer'[s].at \in {"off", "pop"} => drainer'[s] = drainer[s],
           \A c \in Callers : caller'[c].at = "waiting" => caller'[c] = caller[c]
    PROVE  Released' /\ Awaited'
<1>1. Released'
  BY DEF Released
<1>2. \A s \in Sessions, e \in Entry :
        Holds(queue[s], drainer[s], e) => Holds(queue'[s], drainer'[s], e)
  BY DEF Holds
<1>3. Awaited'
  BY <1>2, StillAwaited
<1>4. QED
  BY <1>1, <1>3

\* The end of the drainer's loop body answers whoever waits for its entry.
LEMMA LoopAnswers ==
    ASSUME TypeOK, Released, Awaited, NEW s \in Sessions, queue' = queue,
           caller' = Answered(s), drainer' = Looped(s)
    PROVE  Released' /\ Awaited'
<1>1. /\ drainer'[s].entry = NoEntry
      /\ \A r \in Sessions : r # s => drainer'[r] = drainer[r]
  BY DEF TypeOK, Looped, NoDrainer
<1>2. Released'
  BY <1>1 DEF Released
<1>3. \A c \in Callers :
        /\ caller'[c] = caller[c] \/ caller'[c] = IdleCaller
        /\ drainer[s].entry.from = c /\ caller[c].at = "waiting"
             /\ caller[c].ticket = drainer[s].entry.ticket => caller'[c] = IdleCaller
  BY DEF Answered, Answer
<1>4. IdleCaller.at = "idle"
  BY DEF IdleCaller
<1>5. ASSUME NEW c \in Callers, NEW r \in Sessions, NEW e \in Entry, caller'[c].at = "waiting",
             Holds(queue[r], drainer[r], e), e.from = c, e.ticket = caller[c].ticket
      PROVE  Holds(queue'[r], drainer'[r], e)
  <2>1. caller'[c] = caller[c] /\ caller'[c] # IdleCaller
    BY <1>3, <1>4, <1>5
  <2>2. r = s => drainer[r].entry # e
    BY <1>3, <1>5, <2>1
  <2>3. QED
    BY <1>1, <1>5, <2>2 DEF Holds
<1>6. \A c \in Callers : caller'[c].at = "waiting" => caller'[c] = caller[c]
  BY <1>3, <1>4
<1>7. Awaited'
  BY <1>5, <1>6, StillAwaited
<1>8. QED
  BY <1>2, <1>7

\* A popped entry goes from the queue into its drainer's hands.
LEMMA PopAwaited ==
    ASSUME LaneInv, NEW s \in Sessions, Pop(s)
    PROVE  Released' /\ Awaited'
<1>1. /\ caller' = caller /\ drainer[s].at = "pop" /\ drainer[s].entry = NoEntry
      /\ queue \in [Sessions -> Seq(Entry)] /\ drainer \in [Sessions -> DrainerRecord]
      /\ tickets \in Nat /\ applied \in [Sessions -> Nat]
  BY DEF Pop, LaneInv, IInv, TypeOK, Released
<1>2. NoEntry \notin Entry
  BY FreeAssumption DEF NoEntry, Entry
<1>3. CASE queue[s] = <<>>
  <2>1. queue' = queue /\ drainer'[s] = NoDrainer /\ \A r \in Sessions : r # s => drainer'[r] = drainer[r]
    BY <1>1, <1>3 DEF Pop
  <2>2. Released'
    BY <2>1 DEF LaneInv, Released, NoDrainer
  <2>3. \A r \in Sessions, e \in Entry :
          Holds(queue[r], drainer[r], e) => Holds(queue'[r], drainer'[r], e)
    BY <1>1, <1>2, <2>1 DEF Holds
  <2>4. QED
    BY <1>1, <2>2, <2>3, StillAwaited DEF LaneInv
<1>4. CASE queue[s] # <<>>
  <2>1. /\ queue'[s] = Tail(queue[s]) /\ drainer'[s].at = "apply"
        /\ drainer'[s].entry = Head(queue[s])
        /\ \A r \in Sessions : r # s => drainer'[r] = drainer[r] /\ queue'[r] = queue[r]
    BY <1>1, <1>4 DEF Pop
  <2>2. Released'
    BY <2>1 DEF LaneInv, Released
  <2>3. /\ Head(queue[s]) = queue[s][1]
        /\ \A i \in 1..Len(queue[s]) :
              i = 1 \/ \E j \in 1..Len(Tail(queue[s])) : Tail(queue[s])[j] = queue[s][i]
    <3>1. queue[s] \in Seq(Entry) /\ applied[s] \in Nat /\ Ascending(queue[s], applied[s], tickets)
      BY <1>1 DEF LaneInv, Ordered
    <3>2. QED
      BY <1>1, <1>4, <3>1, TailOrder
  <2>4. ASSUME NEW r \in Sessions, NEW e \in Entry, Holds(queue[r], drainer[r], e)
        PROVE  Holds(queue'[r], drainer'[r], e)
    <3>1. CASE r # s
      BY <2>1, <2>4, <3>1
    <3>2. CASE r = s
      <4>1. PICK i \in 1..Len(queue[s]) : queue[s][i] = e
        BY <1>1, <1>2, <2>4, <3>2 DEF Holds
      <4>2. CASE i = 1
        BY <2>1, <2>3, <3>2, <4>1, <4>2 DEF Holds
      <4>3. CASE i # 1
        BY <2>1, <2>3, <3>2, <4>1, <4>3 DEF Holds
      <4>4. QED
        BY <4>2, <4>3
    <3>3. QED
      BY <3>1, <3>2
  <2>5. Awaited'
    BY <1>1, <2>4, StillAwaited DEF LaneInv
  <2>6. QED
    BY <2>2, <2>5
<1>5. QED
  BY <1>3, <1>4

\* A producer waits for the entry it pushed; who loses an entry to the push is
\* told so.
LEMMA AdmitAwaited ==
    ASSUME LaneInv, NEW c \in Callers, Admit(c)
    PROVE  Released' /\ Awaited'
<1> USE AdmissionAssumption
<1> DEFINE o == caller[c].obs
           s == Subject[o]
           entry == [obs |-> o, from |-> c, ticket |-> tickets']
           gone == Coalesced(queue[s], entry)
           answered == Answer(caller, gone)
<1>1. /\ o \in Observations /\ s \in Sessions /\ tickets' = tickets + 1 /\ tickets \in Nat
      /\ tickets' \in Nat /\ applied \in [Sessions -> Nat]
      /\ queue \in [Sessions -> Seq(Entry)] /\ queue' = [queue EXCEPT ![s] = Pushed(queue[s], entry)]
      /\ drainer \in [Sessions -> DrainerRecord]
      /\ drainer' = (IF draining[s] THEN drainer ELSE [drainer EXCEPT ![s].at = "pop"])
      /\ caller' = [answered EXCEPT ![c].at = "waiting", ![c].ticket = tickets']
      /\ draining[s] \/ drainer[s].at = "off"
  <2>1. TypeOK /\ Busy /\ Lanes
    BY DEF LaneInv, IInv
  <2>2. /\ applied \in [Sessions -> Nat] /\ queue \in [Sessions -> Seq(Entry)]
        /\ drainer \in [Sessions -> DrainerRecord]
    BY <2>1 DEF TypeOK
  <2>3. /\ drainer' = (IF draining[s] THEN drainer ELSE [drainer EXCEPT ![s].at = "pop"])
        /\ caller' = [answered EXCEPT ![c].at = "waiting", ![c].ticket = tickets']
    BY DEF Admit
  <2>4. /\ o \in Observations /\ s \in Sessions /\ tickets' = tickets + 1 /\ tickets \in Nat
        /\ tickets' \in Nat /\ queue' = [queue EXCEPT ![s] = Pushed(queue[s], entry)]
    BY <2>1, AdmitTakes
  <2>5. draining[s] \/ drainer[s].at = "off"
    BY <2>1, <2>4 DEF Lanes
  <2>6. QED
    BY <2>2, <2>3, <2>4, <2>5
<1>2. /\ entry \in Entry /\ entry.ticket = tickets + 1 /\ entry.from = c
      /\ entry.ticket = tickets'
  BY <1>1, AdmitTakes DEF LaneInv, IInv
<1>3. /\ answered \in [Callers -> CallerRecord]
      /\ \A d \in Callers :
            /\ answered[d] = caller[d] \/ answered[d] = IdleCaller
            /\ (\E e \in gone : e.from = d /\ caller[d].at = "waiting" /\ caller[d].ticket = e.ticket)
                 => answered[d] = IdleCaller
  <2>1. answered \in [Callers -> CallerRecord]
    BY AnswerKeepsOthers DEF LaneInv, IInv
  <2>2. QED
    BY <2>1 DEF Answer
<1> HIDE DEF entry, o, s, gone, answered
<1>4. caller'[c].ticket = tickets' /\ \A d \in Callers : d # c => caller'[d] = answered[d]
  <2>1. [answered[c] EXCEPT !.at = "waiting", !.ticket = tickets'].ticket = tickets'
    BY <1>3 DEF CallerRecord
  <2>2. QED
    BY <1>1, <1>3, <2>1
<1>5. \A r \in Sessions : drainer'[r].entry = drainer[r].entry
                          /\ (drainer'[r] = drainer[r] \/ drainer[r].at = "off")
  <2>1. CASE draining[s]
    BY <1>1, <2>1
  <2>2. CASE ~draining[s]
    BY <1>1, <2>2 DEF DrainerRecord
  <2>3. QED
    BY <2>1, <2>2
<1>6. Released'
  BY <1>5 DEF LaneInv, Released
<1>7. /\ queue'[s] = Pushed(queue[s], entry) /\ \A r \in Sessions : r # s => queue'[r] = queue[r]
      /\ \E i \in 1..Len(queue'[s]) : queue'[s][i] = entry
      /\ \A k \in 1..Len(queue[s]) :
            queue[s][k] \in gone \/ \E i \in 1..Len(queue'[s]) : queue'[s][i] = queue[s][k]
  <2>1. /\ queue[s] \in Seq(Entry) /\ applied[s] \in Nat /\ applied[s] <= tickets
        /\ Ascending(queue[s], applied[s], tickets)
    BY <1>1 DEF LaneInv, Ordered
  <2>2. queue'[s] = Pushed(queue[s], entry) /\ \A r \in Sessions : r # s => queue'[r] = queue[r]
    BY <1>1
  <2> DEFINE q == queue[s]
             p == Pushed(q, entry)
  <2> HIDE DEF q
  <2>3. /\ \E i \in 1..Len(p) : p[i] = entry
        /\ \A k \in 1..Len(q) : q[k] \in Coalesced(q, entry) \/ \E i \in 1..Len(p) : p[i] = q[k]
    <3> DEFINE low == applied[s]
    <3>1. q \in Seq(Entry) /\ low \in Nat /\ low <= tickets /\ Ascending(q, low, tickets)
      BY <2>1 DEF q
    <3> HIDE DEF low
    <3>2. tickets \in Nat /\ entry \in Entry /\ entry.ticket = tickets + 1
      BY <1>1, <1>2
    <3>3. QED
      BY <3>1, <3>2, PushedOrder, ZenonT(30)
  <2>4. QED
    BY <2>2, <2>3, Zenon DEF gone, p, q
<1>8. \E r \in Sessions, e \in Entry :
        Holds(queue'[r], drainer'[r], e) /\ e.from = c /\ e.ticket = caller'[c].ticket
  <2>1. Holds(queue'[s], drainer'[s], entry)
    BY <1>7 DEF Holds
  <2>2. QED
    BY <1>1, <1>2, <1>4, <2>1
<1>9. ASSUME NEW d \in Callers, d # c, caller'[d].at = "waiting"
      PROVE  \E r \in Sessions, e \in Entry :
                Holds(queue'[r], drainer'[r], e) /\ e.from = d /\ e.ticket = caller'[d].ticket
  <2>1. caller'[d] = caller[d] /\ caller'[d] # IdleCaller /\ answered[d] # IdleCaller
    BY <1>3, <1>4, <1>9 DEF IdleCaller
  <2>2. PICK r \in Sessions, e \in Entry :
          Holds(queue[r], drainer[r], e) /\ e.from = d /\ e.ticket = caller[d].ticket
    BY <1>9, <2>1 DEF LaneInv, Awaited
  <2>3. e \notin gone
    BY <1>3, <1>9, <2>1, <2>2
  <2>4. Holds(queue'[r], drainer'[r], e)
    <3>1. CASE drainer[r].entry = e
      BY <1>5, <3>1 DEF Holds
    <3>2. CASE \E i \in 1..Len(queue[r]) : queue[r][i] = e
      BY <1>7, <2>3, <3>2 DEF Holds
    <3>3. QED
      BY <2>2, <3>1, <3>2 DEF Holds
  <2>5. QED
    BY <2>1, <2>2, <2>4
<1>10. QED
  BY <1>6, <1>8, <1>9 DEF Awaited

\* Every step keeps the waiters' entries.
LEMMA WaitSteps ==
    ASSUME LaneInv, [Next]_vars PROVE Released' /\ Awaited'
<1>1. TypeOK /\ Released /\ Awaited
  BY DEF LaneInv, IInv
<1>2. CASE UNCHANGED vars
  BY <1>1, <1>2, WaitersUntouched DEF vars, memory, tasks
<1>3. ASSUME NEW c \in Callers, Submit(c) \/ CallerStep(c) \/ Cancel(c)
      PROVE  Released' /\ Awaited'
  <2>1. CASE Admit(c)
    BY <2>1, AdmitAwaited
  <2>2. CASE \/ Submit(c) \/ Refuse(c) \/ PersistRejection(c)
             \/ SaveRejection(c) \/ FailToSave(c) \/ Cancel(c)
    <3>1. queue' = queue /\ drainer' = drainer
      BY <2>2 DEF Submit, Refuse, PersistRejection, SaveRejection, FailToSave,
                  Cancel, memory
    <3>2. \A d \in Callers : caller'[d].at = "waiting" => caller'[d] = caller[d]
      <4>0. caller \in [Callers -> CallerRecord]
        BY <1>1 DEF TypeOK
      <4>1. CASE Submit(c)
        BY <4>0, <4>1 DEF Submit
      <4>2. CASE Refuse(c)
        BY <4>0, <4>2 DEF Refuse, CallerRecord
      <4>3. CASE PersistRejection(c)
        BY <4>0, <4>3 DEF PersistRejection, CallerRecord
      <4>4. CASE SaveRejection(c) \/ FailToSave(c) \/ Cancel(c)
        BY <4>0, <4>4 DEF SaveRejection, FailToSave, Cancel, IdleCaller
      <4>5. QED
        BY <2>2, <4>1, <4>2, <4>3, <4>4
    <3>3. QED
      BY <1>1, <3>1, <3>2, WaitersUntouched
  <2>3. QED
    BY <1>3, <2>1, <2>2 DEF CallerStep
<1>4. ASSUME NEW s \in Sessions, DrainerStep(s) PROVE Released' /\ Awaited'
  <2>1. CASE Pop(s)
    BY <2>1, PopAwaited
  <2>2. CASE FailToApply(s) \/ FailToClear(s) \/ FinishReconcile(s)
    BY <1>1, <2>2, LoopAnswers DEF FailToApply, FailToClear, FinishReconcile, memory
  <2>3. CASE Apply(s) \/ BeginReconcile(s) \/ ClearRejection(s)
    <3>1. queue' = queue /\ caller' = caller
      BY <2>3 DEF Apply, BeginReconcile, ClearRejection, memory
    <3>2. \A r \in Sessions : /\ drainer'[r].entry = drainer[r].entry
                              /\ drainer'[r].at \in {"off", "pop"} => drainer'[r] = drainer[r]
      <4>0. drainer \in [Sessions -> DrainerRecord]
        BY <1>1 DEF TypeOK
      <4>1. CASE Apply(s)
        BY <4>0, <4>1 DEF Apply, DrainerRecord
      <4>2. CASE BeginReconcile(s)
        BY <4>0, <4>2 DEF BeginReconcile, DrainerRecord
      <4>3. CASE ClearRejection(s)
        BY <4>0, <4>3 DEF ClearRejection, DrainerRecord
      <4>4. QED
        BY <2>3, <4>1, <4>2, <4>3
    <3>3. QED
      BY <1>1, <3>1, <3>2, WaitersUntouched
  <2>4. QED
    BY <1>4, <2>1, <2>2, <2>3 DEF DrainerStep
<1>5. CASE Restart
  BY <1>5 DEF Restart, Released, Awaited, NoDrainer, IdleCaller
<1>6. QED
  BY <1>2, <1>3, <1>4, <1>5 DEF Next

\* The lanes' invariant holds of every behaviour.
LEMMA LaneInvariant == Spec => []LaneInv
<1>1. Init => LaneInv
  <2>1. Init => Released /\ Awaited
    BY DEF Init, Released, Awaited, NoDrainer, IdleCaller
  <2>2. Init => Ordered
    <3>1. Len(<<>>) = 0 /\ \A i \in 1..0 : FALSE
      BY EmptySeq
    <3>2. QED
      BY <3>1 DEF Init, Ordered, Ascending
  <2>3. QED
    BY <2>1, <2>2, InitInductive DEF LaneInv
<1>2. LaneInv /\ [Next]_vars => LaneInv'
  BY NextInductive, OrderSteps, WaitSteps DEF LaneInv
<1>3. QED
  BY <1>1, <1>2, PTL DEF Spec

\* No producer waits for an entry that nobody will answer: whatever is
\* coalesced, popped, failed or cancelled, a waiting caller's entry is in a
\* queue or in its drainer's hands (apply_observation's receiver).
THEOREM NobodyWaitsInVain == Spec => []WaiterHasEntry
<1>1. LaneInv => WaiterHasEntry
  <2> SUFFICES ASSUME LaneInv, NEW c \in Callers, caller[c].at = "waiting"
               PROVE  \E s \in Sessions :
                         LET held == {queue[s][i] : i \in 1..Len(queue[s])}
                                        \cup {drainer[s].entry}
                         IN  \E e \in held : e.from = c /\ e.ticket = caller[c].ticket
    BY DEF WaiterHasEntry
  <2>1. PICK s \in Sessions, e \in Entry :
          Holds(queue[s], drainer[s], e) /\ e.from = c /\ e.ticket = caller[c].ticket
    BY DEF LaneInv, Awaited
  <2>2. e \in {queue[s][i] : i \in 1..Len(queue[s])} \cup {drainer[s].entry}
    BY <2>1 DEF Holds
  <2>3. QED
    BY <2>1, <2>2
<1>2. QED
  BY <1>1, LaneInvariant, PTL

\* Entries leave a lane in the order of their admission, although an activity
\* may replace an older one anywhere in the queue (try_push_replacing, pop).
THEOREM TakenInOrder == Spec => AdmissionOrder
<1> DEFINE Order == \A s \in Sessions :
                       applied'[s] # applied[s] => applied'[s] > applied[s] \/ Restart
<1>1. LaneInv /\ [Next]_vars => Order
  BY OrderSteps DEF LaneInv
<1>2. QED
  BY <1>1, LaneInvariant, PTL DEF Spec, AdmissionOrder

-----------------------------------------------------------------------------
(* Hooks.                                                                  *)

CallRecord ==
    [at : {"idle", "parent", "subject", "stamp", "apply"},
     payload : Payloads \cup {Nobody}, parent : Natives \cup {Nobody},
     late : BOOLEAN, again : BOOLEAN]

HookTypes ==
    /\ root \in [Natives -> Natives \cup {Nobody}]
    /\ alias \in [Natives -> Natives \cup {Nobody}]
    /\ state = [s \in Natives |-> state[s]]
    /\ calls \in [Calls -> CallRecord]
    /\ \A c \in Calls : calls[c].at # "idle" => calls[c].payload \in Payloads

\* A call sent again was answered before.
Repeated == \A c \in Calls : calls[c].again => calls[c].payload \in acked

\* The parent of a child about to be registered is a main of the store.
ParentStored ==
    \A c \in Calls : calls[c].at = "subject" /\ OfAgent(calls[c].payload)
        => calls[c].parent \in Natives /\ root[calls[c].parent] = calls[c].parent

HookInv == HookTypes /\ Repeated /\ ParentStored /\ AckedIsStored

\* A main stays one.
MainsStay == \A s \in Natives : root[s] = s => root'[s] = s

\* Another call's step, as far as this one notices: its stamp may become old.
Undisturbed(call, next) ==
    /\ next.at = call.at /\ next.payload = call.payload /\ next.parent = call.parent
    /\ next.again = call.again

\* A call ends, or is replaced by the one given, and the others go on.
Moves(c, next) ==
    /\ calls'[c] = next
    /\ \A d \in Calls : d # c => Undisturbed(calls[d], calls'[d])

\* Both ways in which a call moves on leave the others where they are.
LEMMA CallMoves ==
    ASSUME HookTypes, NEW c \in Calls, NEW next \in CallRecord
    PROVE  /\ calls' = [calls EXCEPT ![c] = next]
              => Moves(c, next) /\ calls' \in [Calls -> CallRecord]
           /\ \A s : Overtake(c, s, next)
              => Moves(c, next) /\ calls' \in [Calls -> CallRecord]
<1>1. ASSUME calls' = [calls EXCEPT ![c] = next]
      PROVE  Moves(c, next) /\ calls' \in [Calls -> CallRecord]
  BY <1>1 DEF HookTypes, Moves, Undisturbed
<1>2. ASSUME NEW s, Overtake(c, s, next)
      PROVE  Moves(c, next) /\ calls' \in [Calls -> CallRecord]
  <2>1. \A d \in Calls : /\ [calls[d] EXCEPT !.late = TRUE] \in CallRecord
                         /\ Undisturbed(calls[d], [calls[d] EXCEPT !.late = TRUE])
    BY DEF HookTypes, CallRecord, Undisturbed
  <2>2. calls'[c] = next /\ \A d \in Calls : d # c =>
          calls'[d] \in {calls[d], [calls[d] EXCEPT !.late = TRUE]}
    BY <1>2 DEF Overtake
  <2>3. Moves(c, next)
    BY <2>1, <2>2 DEF Moves, Undisturbed
  <2>4. calls' = [d \in Calls |-> calls'[d]]
    BY <1>2 DEF Overtake
  <2>5. \A d \in Calls : calls'[d] \in CallRecord
    BY <2>1, <2>2 DEF HookTypes
  <2>6. QED
    BY <2>3, <2>4, <2>5
<1>3. QED
  BY <1>1, <1>2

\* The empty call.
LEMMA NoCallType ==
    NoCall \in CallRecord /\ NoCall.at = "idle" /\ NoCall.again = FALSE
BY DEF NoCall, CallRecord

\* A step of one call keeps the invariant when what it writes is in order.
LEMMA CallKeeps ==
    ASSUME HookInv, NEW c \in Calls, NEW next \in CallRecord, Moves(c, next),
           calls' \in [Calls -> CallRecord],
           root' \in [Natives -> Natives \cup {Nobody}], MainsStay,
           alias' \in [Natives -> Natives \cup {Nobody}],
           state' = [s \in Natives |-> state'[s]],
           acked \subseteq acked', AckedIsStored',
           next.at # "idle" => next.payload \in Payloads,
           next.again => next.payload \in acked',
           next.at = "subject" /\ OfAgent(next.payload)
             => next.parent \in Natives /\ root'[next.parent] = next.parent
    PROVE  HookInv'
<1>1. \A d \in Calls : d # c => Undisturbed(calls[d], calls'[d])
  BY DEF Moves
<1>2. calls'[c] = next
  BY DEF Moves
<1>3. HookTypes'
  BY <1>1, <1>2 DEF HookInv, HookTypes, Undisturbed
<1>4. Repeated'
  BY <1>1, <1>2 DEF HookInv, Repeated, Undisturbed
<1>5. ParentStored'
  <2> SUFFICES ASSUME NEW d \in Calls, calls'[d].at = "subject", OfAgent(calls'[d].payload)
               PROVE  calls'[d].parent \in Natives /\ root'[calls'[d].parent] = calls'[d].parent
    BY DEF ParentStored
  <2>1. CASE d = c
    BY <1>2, <2>1
  <2>2. CASE d # c
    <3>1. /\ calls[d].at = "subject" /\ calls[d].payload = calls'[d].payload
          /\ calls[d].parent = calls'[d].parent
      BY <1>1, <2>2 DEF Undisturbed
    <3>2. calls[d].parent \in Natives /\ root[calls[d].parent] = calls[d].parent
      BY <3>1 DEF HookInv, ParentStored
    <3>3. QED
      BY <3>1, <3>2 DEF MainsStay
  <2>3. QED
    BY <2>1, <2>2
<1>6. QED
  BY <1>3, <1>4, <1>5 DEF HookInv

\* A call that ends, with nothing written but what the store may gain.
LEMMA CallEnds ==
    ASSUME HookInv, NEW c \in Calls, Moves(c, NoCall), calls' \in [Calls -> CallRecord],
           root' \in [Natives -> Natives \cup {Nobody}], MainsStay,
           alias' \in [Natives -> Natives \cup {Nobody}],
           state' = [s \in Natives |-> state'[s]],
           acked \subseteq acked', AckedIsStored'
    PROVE  HookInv'
BY NoCallType, CallKeeps

\* Progress is no way out of an outcome.
LEMMA ProgressKeepsOutcome ==
    \A s \in Natives : state[s] \in Outcomes => Progressed(s) = state[s]
BY DEF Progressed, Outcomes

\* A registration stores a session below a main, or below itself, and gives a
\* session with an outcome no other state.
LEMMA RegisterStep ==
    ASSUME HookTypes, NEW c \in Calls, NEW s \in Natives, NEW r \in Natives, NEW key,
           NEW next \in CallRecord, Register(c, s, r, key, next),
           root[s] \in {Nobody, r}
    PROVE  /\ Moves(c, next) /\ calls' \in [Calls -> CallRecord]
           /\ root' \in [Natives -> Natives \cup {Nobody}] /\ MainsStay /\ root'[s] = r
           /\ state' = [x \in Natives |-> state'[x]]
           /\ \A x \in Natives : state[x] \in Outcomes => state'[x] = state[x]
<1>1. root' = [root EXCEPT ![s] = r] /\ root \in [Natives -> Natives \cup {Nobody}]
  BY DEF Register, HookTypes
<1>2. root' \in [Natives -> Natives \cup {Nobody}] /\ root'[s] = r
  BY <1>1
<1>3. MainsStay
  BY <1>1, HookAssumption DEF MainsStay
<1>4. CASE key \in registered
  <2>1. state' = state /\ calls' = [calls EXCEPT ![c] = next]
    BY <1>4 DEF Register
  <2>2. QED
    BY <1>2, <1>3, <2>1, CallMoves DEF HookTypes
<1>5. CASE key \notin registered
  <2>1. state' = [state EXCEPT ![s] = Progressed(s)] /\ Overtake(c, s, next)
    BY <1>5 DEF Register
  <2> DEFINE new == Progressed(s)
  <2>2. state[s] \in Outcomes => new = state[s]
    BY ProgressKeepsOutcome
  <2> HIDE DEF new
  <2>3. /\ state' = [x \in Natives |-> state'[x]]
        /\ \A x \in Natives : state[x] \in Outcomes => state'[x] = state[x]
    <3>1. state' = [state EXCEPT ![s] = new] /\ state = [x \in Natives |-> state[x]]
      BY <2>1 DEF HookTypes, new
    <3>2. QED
      BY <2>2, <3>1
  <2>4. QED
    BY <1>2, <1>3, <2>1, <2>3, CallMoves
<1>6. QED
  BY <1>4, <1>5

\* The canonical session of a known identity is one.
LEMMA CanonicalType ==
    ASSUME HookTypes, NEW s \in Natives
    PROVE  Canonical(s) \in Natives
BY DEF HookTypes, Canonical, Redirects

\* discover_session for a main.
LEMMA DiscoverMainStep ==
    ASSUME HookInv, NEW c \in Calls, NEW s \in Natives, NEW tag,
           NEW next \in CallRecord, DiscoverMain(c, s, tag, next),
           acked' = acked, taken' = taken,
           next.payload \in Payloads, next.again => next.payload \in acked,
           next.at = "subject" /\ OfAgent(next.payload) => next.parent = Canonical(s)
    PROVE  /\ HookInv'
           /\ \A x \in Natives : state[x] \in Outcomes => state'[x] = state[x]
           /\ \A d \in Calls : d # c => Undisturbed(calls[d], calls'[d])
<1> DEFINE m == Canonical(s)
           key == <<tag, m, s>>
<1>1. m \in Natives
  BY CanonicalType DEF HookInv
<1>2. alias' \in [Natives -> Natives \cup {Nobody}]
  BY DEF DiscoverMain, DropStaleAlias, HookInv, HookTypes
<1>3. AckedIsStored'
  BY DEF HookInv, AckedIsStored
<1>4. \/ root[m] \in {Nobody, m} /\ (Register(c, m, m, key, next) \/ Register(c, m, m, key, NoCall))
      \/ Finish(c) /\ UNCHANGED <<root, state>>
  BY DEF DiscoverMain
<1> HIDE DEF m, key
<1>5. CASE root[m] \in {Nobody, m} /\ Register(c, m, m, key, next)
  <2>1. /\ Moves(c, next) /\ calls' \in [Calls -> CallRecord]
        /\ root' \in [Natives -> Natives \cup {Nobody}] /\ MainsStay /\ root'[m] = m
        /\ state' = [x \in Natives |-> state'[x]]
        /\ \A x \in Natives : state[x] \in Outcomes => state'[x] = state[x]
    BY <1>1, <1>5, RegisterStep DEF HookInv
  <2>2. next.at = "subject" /\ OfAgent(next.payload)
          => next.parent \in Natives /\ root'[next.parent] = next.parent
    BY <1>1, <2>1 DEF m
  <2>3. HookInv'
    BY <1>2, <1>3, <2>1, <2>2, CallKeeps
  <2>4. QED
    BY <2>1, <2>3 DEF Moves
<1>6. CASE root[m] \in {Nobody, m} /\ Register(c, m, m, key, NoCall)
  <2>1. /\ Moves(c, NoCall) /\ calls' \in [Calls -> CallRecord]
        /\ root' \in [Natives -> Natives \cup {Nobody}] /\ MainsStay
        /\ state' = [x \in Natives |-> state'[x]]
        /\ \A x \in Natives : state[x] \in Outcomes => state'[x] = state[x]
    BY <1>1, <1>6, NoCallType, RegisterStep DEF HookInv
  <2>2. HookInv'
    BY <1>2, <1>3, <2>1, CallEnds
  <2>3. QED
    BY <2>1, <2>2 DEF Moves
<1>7. CASE Finish(c) /\ UNCHANGED <<root, state>>
  <2>1. Moves(c, NoCall) /\ calls' \in [Calls -> CallRecord]
    BY <1>7, NoCallType, CallMoves DEF Finish, HookInv
  <2>2. MainsStay /\ root' \in [Natives -> Natives \cup {Nobody}]
        /\ state' = [x \in Natives |-> state'[x]]
    BY <1>7 DEF MainsStay, HookInv, HookTypes
  <2>3. HookInv'
    BY <1>2, <1>3, <2>1, <2>2, CallEnds
  <2>4. QED
    BY <1>7, <2>1, <2>3 DEF Moves
<1>8. QED
  BY <1>4, <1>5, <1>6, <1>7

\* What a repeated request may still do.
IdleAgain ==
    \A c \in Calls, s \in Natives :
        calls[c].again /\ calls'[c].at # calls[c].at /\ state'[s] # state[s]
            => calls[c].at # "apply" /\ state[s] \notin Outcomes

\* One call moves, before it applies its evidence, and no outcome changes.
LEMMA EarlyStepIdle ==
    ASSUME NEW c \in Calls, calls[c].at # "apply",
           \A x \in Natives : state[x] \in Outcomes => state'[x] = state[x],
           \A d \in Calls : d # c => Undisturbed(calls[d], calls'[d])
    PROVE  IdleAgain
BY DEF IdleAgain, Undisturbed

\* The step of a request that is received.
LEMMA PostStep ==
    ASSUME HookInv, NEW c \in Calls, NEW p \in Payloads, Post(c, p)
    PROVE  HookInv' /\ state' = state
<1> DEFINE next == [NoCall EXCEPT !.at = IF OfAgent(p) THEN "parent" ELSE "subject",
                                  !.payload = p, !.again = p \in acked]
           again == p \in acked
<1>1. again \in BOOLEAN
  OBVIOUS
<1>2. /\ next \in CallRecord /\ next.payload = p /\ next.again = again
      /\ next.at = IF OfAgent(p) THEN "parent" ELSE "subject"
  <2> HIDE DEF again
  <2>1. [NoCall EXCEPT !.at = IF OfAgent(p) THEN "parent" ELSE "subject",
                       !.payload = p, !.again = again] \in CallRecord
    BY <1>1 DEF NoCall, CallRecord
  <2>2. QED
    BY <2>1 DEF NoCall, again
<1>3. calls' = [calls EXCEPT ![c] = next] /\ UNCHANGED <<root, state, alias, taken, acked>>
  BY DEF Post
<1> HIDE DEF next
<1>4. Moves(c, next) /\ calls' \in [Calls -> CallRecord]
  BY <1>2, <1>3, CallMoves DEF HookInv
<1>5. MainsStay /\ AckedIsStored'
  BY <1>3 DEF MainsStay, AckedIsStored, HookInv
<1>6. next.again => next.payload \in acked'
  BY <1>2, <1>3
<1>7. ~(next.at = "subject" /\ OfAgent(next.payload))
  BY <1>2
<1>8. HookInv'
  <2>1. /\ root' \in [Natives -> Natives \cup {Nobody}]
        /\ alias' \in [Natives -> Natives \cup {Nobody}]
        /\ state' = [s \in Natives |-> state'[s]] /\ acked \subseteq acked'
    BY <1>3 DEF HookInv, HookTypes
  <2>2. QED
    BY <1>2, <1>4, <1>5, <1>6, <1>7, <2>1, CallKeeps
<1>9. QED
  BY <1>3, <1>8

\* The parent is made known.
LEMMA DiscoverParentStep ==
    ASSUME HookInv, NEW c \in Calls, DiscoverParent(c)
    PROVE  HookInv' /\ IdleAgain
<1> DEFINE call == calls[c]
           s == call.payload.session
           m == ParentOf(s)
           next == [call EXCEPT !.at = "subject", !.parent = m]
<1>1. call \in CallRecord /\ call.at = "parent" /\ call.payload \in Payloads /\ s \in Natives
      /\ (call.again => call.payload \in acked)
  BY HookAssumption DEF DiscoverParent, HookInv, HookTypes, Repeated
<1>2. m = Canonical(s) /\ m \in Natives
  BY <1>1, CanonicalType DEF ParentOf, HookInv
<1>3. DiscoverMain(c, s, "parent", next) /\ acked' = acked /\ taken' = taken
  BY DEF DiscoverParent
<1> HIDE DEF call, s, m
<1>4. /\ next \in CallRecord /\ next.parent = Canonical(s) /\ next.payload = call.payload
      /\ next.again = call.again
  BY <1>1, <1>2 DEF CallRecord
<1> HIDE DEF next
<1>5. /\ HookInv'
      /\ \A x \in Natives : state[x] \in Outcomes => state'[x] = state[x]
      /\ \A d \in Calls : d # c => Undisturbed(calls[d], calls'[d])
  BY <1>1, <1>3, <1>4, DiscoverMainStep
<1>6. calls[c].at # "apply"
  BY <1>1 DEF call
<1>7. QED
  BY <1>5, <1>6, EarlyStepIdle

\* The subject is made known.
LEMMA DiscoverSubjectStep ==
    ASSUME HookInv, NEW c \in Calls, DiscoverSubject(c)
    PROVE  HookInv' /\ IdleAgain
<1> DEFINE call == calls[c]
           s == SubjectOf(call.payload)
           next == [call EXCEPT !.at = "stamp"]
           r == root[call.parent]
           key == <<"session", s, s>>
<1>1. /\ call \in CallRecord /\ call.at = "subject" /\ call.payload \in Payloads
      /\ s \in Natives /\ (call.again => call.payload \in acked)
      /\ OfAgent(call.payload) => call.parent \in Natives /\ r = call.parent
  BY HookAssumption
  DEF DiscoverSubject, HookInv, HookTypes, Repeated, ParentStored, SubjectOf, OfAgent
<1>2. acked' = acked /\ taken' = taken
  BY DEF DiscoverSubject
<1>3. /\ ~OfAgent(call.payload) => DiscoverMain(c, s, "session", next)
      /\ OfAgent(call.payload) =>
            /\ alias' = alias
            /\ \/ root[s] \in {Nobody, r}
                  /\ (Register(c, s, r, key, next) \/ Register(c, s, r, key, NoCall))
               \/ Finish(c) /\ UNCHANGED <<root, state>>
  BY DEF DiscoverSubject
<1> HIDE DEF call, s, r, key
<1>4. /\ next \in CallRecord /\ next.at = "stamp" /\ next.payload = call.payload
      /\ next.again = call.again
  BY <1>1 DEF CallRecord
<1> HIDE DEF next
<1>5. /\ HookInv'
      /\ \A x \in Natives : state[x] \in Outcomes => state'[x] = state[x]
      /\ \A d \in Calls : d # c => Undisturbed(calls[d], calls'[d])
  <2>1. CASE ~OfAgent(call.payload)
    BY <1>1, <1>2, <1>3, <1>4, <2>1, DiscoverMainStep
  <2>2. CASE OfAgent(call.payload)
    <3>0. AckedIsStored' /\ alias' \in [Natives -> Natives \cup {Nobody}]
      BY <1>2, <1>3, <2>2 DEF HookInv, AckedIsStored, HookTypes
    <3>1. CASE root[s] \in {Nobody, r} /\ Register(c, s, r, key, next)
      <4>1. /\ Moves(c, next) /\ calls' \in [Calls -> CallRecord]
            /\ root' \in [Natives -> Natives \cup {Nobody}] /\ MainsStay
            /\ state' = [x \in Natives |-> state'[x]]
            /\ \A x \in Natives : state[x] \in Outcomes => state'[x] = state[x]
        BY <1>1, <1>4, <2>2, <3>1, RegisterStep DEF HookInv
      <4>2. HookInv'
        BY <1>1, <1>2, <1>4, <3>0, <4>1, CallKeeps
      <4>3. QED
        BY <4>1, <4>2 DEF Moves
    <3>2. CASE root[s] \in {Nobody, r} /\ Register(c, s, r, key, NoCall)
      <4>1. /\ Moves(c, NoCall) /\ calls' \in [Calls -> CallRecord]
            /\ root' \in [Natives -> Natives \cup {Nobody}] /\ MainsStay
            /\ state' = [x \in Natives |-> state'[x]]
            /\ \A x \in Natives : state[x] \in Outcomes => state'[x] = state[x]
        BY <1>1, <2>2, <3>2, NoCallType, RegisterStep DEF HookInv
      <4>2. HookInv'
        BY <1>2, <3>0, <4>1, CallEnds
      <4>3. QED
        BY <4>1, <4>2 DEF Moves
    <3>3. CASE Finish(c) /\ UNCHANGED <<root, state>>
      <4>1. Moves(c, NoCall) /\ calls' \in [Calls -> CallRecord]
        BY <3>3, NoCallType, CallMoves DEF Finish, HookInv
      <4>2. MainsStay /\ root' \in [Natives -> Natives \cup {Nobody}]
            /\ state' = [x \in Natives |-> state'[x]]
        BY <3>3 DEF MainsStay, HookInv, HookTypes
      <4>3. HookInv'
        BY <1>2, <3>0, <4>1, <4>2, CallEnds
      <4>4. QED
        BY <3>3, <4>1, <4>3 DEF Moves
    <3>4. QED
      BY <1>3, <2>2, <3>1, <3>2, <3>3
  <2>3. QED
    BY <2>1, <2>2
<1>6. calls[c].at # "apply"
  BY <1>1 DEF call
<1>7. QED
  BY <1>5, <1>6, EarlyStepIdle

\* The evidence is applied: once for each key.
LEMMA IngestStep ==
    ASSUME HookInv, NEW c \in Calls, IngestState(c)
    PROVE  HookInv' /\ IdleAgain
<1> DEFINE call == calls[c]
           p == call.payload
           s == SubjectOf(p)
<1>1. /\ call.at = "apply" /\ p \in Payloads /\ s \in Natives
      /\ call.again => p \in acked
  BY HookAssumption
  DEF IngestState, HookInv, HookTypes, Repeated, SubjectOf, OfAgent
<1>2. root' = root /\ alias' = alias
  BY DEF IngestState
<1>3. \/ Finish(c) /\ UNCHANGED <<state, taken, acked>>
      \/ Known(p) /\ Finish(c) /\ acked' = acked \cup {p} /\ UNCHANGED <<state, taken>>
      \/ /\ ~Known(p) /\ taken' = taken \cup {EventKey(p)} /\ Overtake(c, s, NoCall)
         /\ state' = [state EXCEPT ![s] = Reported(p)] /\ acked' \in {acked, acked \cup {p}}
  BY DEF IngestState
<1> HIDE DEF call, p, s
<1>4. /\ AckedIsStored' /\ acked \subseteq acked'
      /\ call.again => UNCHANGED state
  BY <1>1, <1>3 DEF HookInv, AckedIsStored, Known, EventKey
<1>5. Moves(c, NoCall) /\ calls' \in [Calls -> CallRecord]
  BY <1>3, NoCallType, CallMoves DEF Finish, HookInv
<1>6. state' = [x \in Natives |-> state'[x]]
  <2>1. state = [x \in Natives |-> state[x]]
    BY DEF HookInv, HookTypes
  <2> DEFINE new == Reported(p)
  <2>2. state' = state \/ state' = [state EXCEPT ![s] = new]
    BY <1>3
  <2> HIDE DEF new
  <2>3. QED
    BY <2>1, <2>2
<1>7. HookInv'
  <2>1. MainsStay /\ root' \in [Natives -> Natives \cup {Nobody}]
        /\ alias' \in [Natives -> Natives \cup {Nobody}]
    BY <1>2 DEF MainsStay, HookInv, HookTypes
  <2>2. QED
    BY <1>4, <1>5, <1>6, <2>1, CallEnds
<1>8. IdleAgain
  BY <1>4, <1>5 DEF IdleAgain, Moves, Undisturbed, call
<1>9. QED
  BY <1>7, <1>8

\* Every step keeps the hooks' invariant, and a repeated request idle.
LEMMA HookSteps ==
    ASSUME HookInv, [HookNext]_hookVars PROVE HookInv' /\ IdleAgain
<1>1. ASSUME UNCHANGED <<root, alias, state, taken, acked>>, NEW c \in Calls,
             Moves(c, NoCall), calls' \in [Calls -> CallRecord]
      PROVE  HookInv'
  <2>1. MainsStay /\ AckedIsStored' /\ acked \subseteq acked'
    BY <1>1 DEF MainsStay, HookInv, AckedIsStored
  <2>2. QED
    BY <1>1, <2>1, CallEnds DEF HookInv, HookTypes
<1>2. ASSUME state' = state PROVE IdleAgain
  BY <1>2 DEF IdleAgain
<1>3. ASSUME NEW c \in Calls, NEW p \in Payloads, Post(c, p) PROVE HookInv' /\ IdleAgain
  BY <1>2, <1>3, PostStep
<1>4. ASSUME NEW c \in Calls, Stamp(c) PROVE HookInv' /\ IdleAgain
  <2> DEFINE next == [calls[c] EXCEPT !.at = "apply"]
  <2>1. /\ calls[c] \in CallRecord /\ calls[c].payload \in Payloads
        /\ calls[c].again => calls[c].payload \in acked
    BY <1>4 DEF Stamp, HookInv, HookTypes, Repeated
  <2>2. /\ next \in CallRecord /\ next.at = "apply" /\ next.payload = calls[c].payload
        /\ next.again = calls[c].again
    BY <2>1 DEF CallRecord
  <2>3. calls' = [calls EXCEPT ![c] = next] /\ UNCHANGED <<root, state, alias, taken, acked>>
    BY <1>4 DEF Stamp
  <2> HIDE DEF next
  <2>4. Moves(c, next) /\ calls' \in [Calls -> CallRecord]
    BY <2>2, <2>3, CallMoves DEF HookInv
  <2>5. MainsStay /\ AckedIsStored' /\ acked \subseteq acked'
    BY <2>3 DEF MainsStay, HookInv, AckedIsStored
  <2>6. /\ root' \in [Natives -> Natives \cup {Nobody}]
        /\ alias' \in [Natives -> Natives \cup {Nobody}]
        /\ state' = [s \in Natives |-> state'[s]]
    BY <2>3 DEF HookInv, HookTypes
  <2>7. HookInv'
    BY <2>1, <2>2, <2>3, <2>4, <2>5, <2>6, CallKeeps
  <2>8. QED
    BY <1>2, <2>3, <2>7
<1>5. ASSUME NEW c \in Calls, RefuseLate(c) \/ HookFails(c) PROVE HookInv' /\ IdleAgain
  <2>1. Finish(c) /\ UNCHANGED <<root, alias, state, taken, acked>>
    BY <1>5 DEF RefuseLate, HookFails
  <2>2. Moves(c, NoCall) /\ calls' \in [Calls -> CallRecord]
    BY <2>1, NoCallType, CallMoves DEF Finish, HookInv
  <2>3. QED
    BY <1>1, <1>2, <2>1, <2>2
<1>6. CASE HookRestart
  <2>1. /\ UNCHANGED <<root, alias, state, taken, acked>>
        /\ calls' = [c \in Calls |-> NoCall]
    BY <1>6 DEF HookRestart
  <2>2. HookInv'
    BY <2>1, NoCallType
    DEF HookInv, HookTypes, Repeated, ParentStored, AckedIsStored
  <2>3. QED
    BY <1>2, <2>1, <2>2
<1>7. ASSUME NEW s \in Natives, NEW m \in Natives, LearnAlias(s, m)
      PROVE  HookInv' /\ IdleAgain
  <2>1. /\ alias' = [alias EXCEPT ![s] = m]
        /\ UNCHANGED <<root, state, taken, calls, acked>>
    BY <1>7 DEF LearnAlias
  <2>2. HookInv'
    BY <2>1 DEF HookInv, HookTypes, Repeated, ParentStored, AckedIsStored
  <2>3. QED
    BY <1>2, <2>1, <2>2
<1>8. CASE UNCHANGED hookVars
  BY <1>2, <1>8
  DEF hookVars, HookInv, HookTypes, Repeated, ParentStored, AckedIsStored
<1>9. QED
  BY <1>3, <1>4, <1>5, <1>6, <1>7, <1>8, DiscoverParentStep, DiscoverSubjectStep, IngestStep
  DEF HookNext

\* The hooks' invariant holds of every behaviour.
LEMMA HookInvariant == HookSpec => []HookInv
<1>1. HookInit => HookInv
  BY NoCallType
  DEF HookInit, HookInv, HookTypes, Repeated, ParentStored, AckedIsStored
<1>2. HookInv /\ [HookNext]_hookVars => HookInv'
  BY HookSteps
<1>3. QED
  BY <1>1, <1>2, PTL DEF HookSpec

\* A hook answered with success is in the store, whatever overtook it, failed or
\* was restarted between its steps (ingest_evidence, insert_observation).
THEOREM AnsweredIsStored == HookSpec => []AckedIsStored
<1>1. HookInv => AckedIsStored
  BY DEF HookInv
<1>2. QED
  BY <1>1, HookInvariant, PTL

\* A hook sent again after its answer applies no state a second time and touches
\* no session with an outcome (the stable retry identity of a request).
THEOREM RepeatIsIdle == HookSpec => RedeliveryIsIdle
<1> DEFINE Idle == \A c \in Calls, s \in Natives :
                      calls[c].again /\ calls'[c].at # calls[c].at /\ state'[s] # state[s]
                          => calls[c].at # "apply" /\ state[s] \notin Outcomes
<1>1. HookInv /\ [HookNext]_hookVars => Idle
  BY HookSteps DEF IdleAgain
<1>2. QED
  BY <1>1, HookInvariant, PTL DEF HookSpec, RedeliveryIsIdle

\* A child is registered below a stored main, the canonical one when the hook
\* named an alias (ingest_evidence on discover_session's answer).
THEOREM ChildBelowCanonical == HookSpec => []ParentIsCanonical
<1>1. HookInv => ParentIsCanonical
  BY DEF HookInv, ParentStored, ParentIsCanonical
<1>2. QED
  BY <1>1, HookInvariant, PTL

=============================================================================
