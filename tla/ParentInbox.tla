------------------------------ MODULE ParentInbox ------------------------------
(***************************************************************************)
(* The parent's durable inbox: list_events of watchdog-server and the      *)
(* inbox_offsets row of watchdog-store, over the event log of one root.    *)
(*                                                                         *)
(* A call reads the row, then a page of the log, then saves the row, then  *)
(* answers; other calls of the same root, for instance of the transport a  *)
(* client reconnected from, interleave with it, and an answer may be lost. *)
(***************************************************************************)
EXTENDS EventLog

CONSTANTS
    Calls,    \* calls of list_events that may be in progress at once
    Limits,   \* page sizes a client asks for
    Guesses   \* cursors a client may confirm without having received them

ASSUME InboxAssumption ==
    /\ Limits \subseteq Nat \ {0}
    /\ Guesses \subseteq Nat

VARIABLES
    inbox,    \* the inbox_offsets row of the root
    call,     \* what each call has read so far
    cursors,  \* next_cursor values the client has received
    read      \* events the client has received

\* History, read by the properties only.
VARIABLES
    paged,    \* events put into a page
    late,     \* events that committed below an event already put into a page
    guessed   \* whether the client confirmed a cursor it had not received

callVars == <<inbox, call, cursors, read, paged, late, guessed>>
inboxVars == <<logVars, callVars>>

Cursor == 0 .. MaxEvents

\* The argument `after` left out, which reads and acknowledges what zero does.
Omitted == 0

InboxOffset == [last_event_id : Cursor, last_delivered_event_id : Cursor]

Call == [at : {"idle", "offset", "page", "save", "answer"},
         after : Nat, limit : {0} \cup Limits,
         offset : InboxOffset, cursor : Cursor, page : SUBSET EventId,
         next_cursor : Cursor]

NoOffset == [last_event_id |-> 0, last_delivered_event_id |-> 0]

NoCall == [at |-> "idle", after |-> Omitted, limit |-> 0, offset |-> NoOffset,
           cursor |-> 0, page |-> {}, next_cursor |-> 0]

InboxTypeOK ==
    /\ LogTypeOK
    /\ inbox \in InboxOffset
    /\ call \in [Calls -> Call]
    /\ cursors \subseteq Cursor
    /\ read \subseteq EventId /\ paged \subseteq EventId /\ late \subseteq EventId
    /\ guessed \in BOOLEAN

Highest(ids) == CHOOSE id \in ids : \A other \in ids : other <= id

Greater(a, b) == IF a >= b THEN a ELSE b

Smaller(a, b) == IF a <= b THEN a ELSE b

-----------------------------------------------------------------------------
(* The client, as the skill describes it, and one that guesses.            *)

\* A call begins.  The client confirms a cursor it received, or none.
Ask(c) ==
    /\ call[c].at = "idle"
    /\ \E after \in {Omitted} \cup cursors \cup Guesses, limit \in Limits :
           /\ call' = [call EXCEPT ![c] = [NoCall EXCEPT !.at = "offset",
                                              !.after = after, !.limit = limit]]
           /\ guessed' = (guessed \/ after \notin cursors \cup {Omitted})
    /\ UNCHANGED <<logVars, inbox, cursors, read, paged, late>>

-----------------------------------------------------------------------------
(* list_events.                                                            *)

\* inbox_offset.
ReadOffset(c) ==
    /\ call[c].at = "offset"
    /\ call' = [call EXCEPT ![c].at = "page", ![c].offset = inbox]
    /\ UNCHANGED <<logVars, inbox, cursors, read, paged, late, guessed>>

FromDelivered(offset, after) ==
    IF after = Omitted THEN offset.last_delivered_event_id
    ELSE Greater(Smaller(after, offset.last_delivered_event_id),
                 offset.last_event_id)

\* Where the page begins; it also acknowledges what precedes.
StartCursor(offset, after) ==
    IF after = Omitted THEN offset.last_event_id
    ELSE Greater(Smaller(after, offset.last_delivered_event_id),
                 offset.last_event_id)

\* events_after: the first `limit` events past the cursor, by identity.
events_after(cursor, limit) ==
    LET ahead == {id \in Ids(log) : id > cursor}
    IN  {id \in ahead : Cardinality({other \in ahead : other < id}) < limit}

ReadPage(c) ==
    /\ call[c].at = "page"
    /\ LET cursor == StartCursor(call[c].offset, call[c].after)
           page == events_after(cursor, call[c].limit)
       IN  /\ call' = [call EXCEPT ![c].at = "save", ![c].after = Omitted,
                          ![c].limit = 0, ![c].cursor = cursor,
                          ![c].page = page,
                          ![c].next_cursor = IF page = {} THEN cursor
                                             ELSE Highest(page)]
           /\ paged' = paged \cup page
    /\ UNCHANGED <<logVars, inbox, cursors, read, late, guessed>>

\* save_inbox_offset: the columns only grow.
SaveOffset(offset) ==
    inbox' = [last_event_id |-> Greater(inbox.last_event_id, offset.last_event_id),
              last_delivered_event_id |->
                  Greater(inbox.last_delivered_event_id,
                          offset.last_delivered_event_id)]

SavePage(c) ==
    /\ call[c].at = "save"
    /\ SaveOffset([last_event_id |-> call[c].cursor,
                   last_delivered_event_id |->
                       Greater(call[c].offset.last_delivered_event_id,
                               call[c].next_cursor)])
    /\ call' = [call EXCEPT ![c].at = "answer", ![c].offset = NoOffset,
                            ![c].cursor = 0]
    /\ UNCHANGED <<logVars, cursors, read, paged, late, guessed>>

\* The client receives the page and processes it.
Answer(c) ==
    /\ call[c].at = "answer"
    /\ read' = read \cup call[c].page
    /\ cursors' = cursors \cup {call[c].next_cursor}
    /\ call' = [call EXCEPT ![c] = NoCall]
    /\ UNCHANGED <<logVars, inbox, paged, late, guessed>>

\* The transport is gone: the client learns nothing.
LoseAnswer(c) ==
    /\ call[c].at = "answer"
    /\ call' = [call EXCEPT ![c] = NoCall]
    /\ UNCHANGED <<logVars, inbox, cursors, read, paged, late, guessed>>

\* A read or the save fails and the client gets an error.
CallFails(c) ==
    /\ call[c].at \in {"offset", "page", "save"}
    /\ StoreFails
    /\ call' = [call EXCEPT ![c] = NoCall]
    /\ UNCHANGED <<inbox, cursors, read, paged, late, guessed>>

list_events(c) ==
    \/ ReadOffset(c) \/ ReadPage(c) \/ SavePage(c) \/ Answer(c)
    \/ LoseAnswer(c) \/ CallFails(c)

-----------------------------------------------------------------------------

InboxInit ==
    /\ LogInit
    /\ inbox = NoOffset
    /\ call = [c \in Calls |-> NoCall]
    /\ cursors = {} /\ read = {} /\ paged = {} /\ late = {}
    /\ guessed = FALSE

InboxWrites ==
    /\ Write
    /\ late' = late \cup {id \in Ids(log') \ Ids(log) :
                             \E shown \in paged : id < shown}
    /\ UNCHANGED <<inbox, call, cursors, read, paged, guessed>>

\* The server stops; the client keeps what it received.
InboxRestart ==
    /\ LogRestart
    /\ call' = [c \in Calls |-> NoCall]
    /\ UNCHANGED <<inbox, cursors, read, paged, late, guessed>>

InboxNext ==
    \/ InboxWrites \/ InboxRestart
    \/ \E c \in Calls : Ask(c) \/ list_events(c)

InboxSpec == InboxInit /\ [][InboxNext]_inboxVars

-----------------------------------------------------------------------------
(* Properties.                                                             *)

\* Only events that a page contained can be acknowledged, whatever cursor a
\* client confirms and whichever calls overlap; events that committed below
\* a page already read are excepted (list_events' cursor, save_inbox_offset).
AcknowledgedWasPaged ==
    \A id \in Ids(log) \ late : id <= inbox.last_event_id => id \in paged

\* A client that confirms only the cursors it received loses no event to a lost
\* answer, a failed save, a restart or an overlapping call: what is
\* acknowledged it has received; late events are excepted (list_events).
AcknowledgedWasRead ==
    ~guessed => \A id \in Ids(log) \ late :
                    id <= inbox.last_event_id => id \in read

\* The row never goes back, so an acknowledged event is not delivered again
\* by a slower call (save_inbox_offset).
OffsetsMonotonic ==
    [][/\ inbox'.last_event_id >= inbox.last_event_id
       /\ inbox'.last_delivered_event_id >= inbox.last_delivered_event_id]_inboxVars

-----------------------------------------------------------------------------
(* What the documents say and the code does not do.                        *)

\* No event is lost to a client that follows the protocol: what is acknowledged
\* it has received, without exception.
NoEventLost ==
    ~guessed => \A id \in Ids(log) : id <= inbox.last_event_id => id \in read

=============================================================================
