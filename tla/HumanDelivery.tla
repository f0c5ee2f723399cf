----------------------------- MODULE HumanDelivery -----------------------------
(***************************************************************************)
(* Delivery of committed events to people: the durable outbox of           *)
(* watchdog-store, the one-attempt webhook dispatcher (notifications.rs),  *)
(* the dashboard dispatcher (dashboard/delivery.rs) and one browser on the *)
(* event stream (dashboard/router.rs, web/app.ts).                         *)
(*                                                                         *)
(* Outbox rows are written with their events, so the position of an event  *)
(* in the log serves as its outbox_id, and the rows of a destination are   *)
(* the log's less the acknowledged ones.  A dashboard snapshot is the      *)
(* number of events, in commit order, whose effect it shows.               *)
(***************************************************************************)
EXTENDS EventLog

CONSTANTS
    Endpoints,     \* the webhook channels that are configured
    Limit,         \* entries a dispatcher reads at once
    LIVE_CAPACITY  \* snapshots the broadcast channel holds for a browser

Channels == {"HomeAssistant", "Webhook"}
Screens == {"Sse", "Browser"}
Destinations == Channels \cup Screens

ASSUME DeliveryAssumption ==
    /\ Endpoints \subseteq Channels
    /\ Limit \in Nat \ {0} /\ LIVE_CAPACITY \in Nat \ {0}

VARIABLES
    acked,     \* delivered outbox rows, by destination
    attempts,  \* notification_attempts: events with an attempt, by channel
    worker,    \* the webhook dispatcher
    board,     \* the dashboard dispatcher
    browser    \* the browser and its receiver

deliveryVars == <<acked, attempts, worker, board, browser>>
vars == <<logVars, deliveryVars>>

TypeOK ==
    /\ LogTypeOK
    /\ acked \in [Destinations -> SUBSET DOMAIN log]
    /\ attempts \in [Channels -> SUBSET EventId]
    /\ worker \in [at : {"batch", "entry", "send", "record", "ack"},
                   channel : Channels, batch : SUBSET DOMAIN log]
    /\ board \in [at : {"sse", "browser", "snapshot", "publish", "ack"},
                  pending : [Screens -> SUBSET DOMAIN log], view : 0 .. Len(log)]
    /\ browser \in [at : {"closed", "subscribed", "live"}, lagged : BOOLEAN,
                    queue : Seq(0 .. Len(log)), latest : 0 .. Len(log)]

RoutedTo(row, destination) == destination = "Sse" \/ row.human

\* pending_outbox_for.
pending_outbox_for(destination) ==
    LET open == {i \in DOMAIN log : RoutedTo(log[i], destination) /\ i \notin acked[destination]}
    IN  {i \in open : Cardinality({j \in open : j < i}) < Limit}

-----------------------------------------------------------------------------
(* HumanOutboxDispatcher::deliver_pending, every 250 ms.                   *)

NewPass == [at |-> "batch", channel |-> "HomeAssistant", batch |-> {}]

\* The Webhook channel follows HomeAssistant, and a new pass follows Webhook.
NextChannel ==
    [NewPass EXCEPT !.channel = IF worker.channel = "Webhook"
                                THEN "HomeAssistant" ELSE "Webhook"]

ReadBatch ==
    /\ worker.at = "batch"
    /\ LET batch == pending_outbox_for(worker.channel)
       IN  worker' = IF batch = {} THEN NextChannel
                     ELSE [worker EXCEPT !.at = "entry", !.batch = batch]
    /\ UNCHANGED <<logVars, acked, attempts, board, browser>>

\* The entry the pass is at, in the order of the rows, and its event.
Entry == Min(worker.batch)
EventOfEntry == log[Entry].id

\* deliver_entry: an attempt on record, or a channel that is not configured,
\* needs no network.
CheckEntry ==
    /\ worker.at = "entry"
    /\ worker' = [worker EXCEPT !.at =
                     IF \/ EventOfEntry \in attempts[worker.channel]
                        \/ worker.channel \notin Endpoints
                     THEN "ack" ELSE "send"]
    /\ UNCHANGED <<logVars, acked, attempts, board, browser>>

SendUnrecorded ==
    /\ worker.at = "send"
    /\ worker' = [worker EXCEPT !.at = "ack"]
    /\ UNCHANGED <<logVars, acked, attempts, board, browser>>

\* attempt: whatever the endpoint answers, the attempt is over.
Send ==
    /\ worker.at = "send"
    /\ worker' = [worker EXCEPT !.at = "record"]
    /\ UNCHANGED <<logVars, acked, attempts, board, browser>>

\* record_notification_attempt.
RecordAttempt ==
    /\ worker.at = "record"
    /\ attempts' = [attempts EXCEPT ![worker.channel] = @ \cup {EventOfEntry}]
    /\ worker' = [worker EXCEPT !.at = "ack"]
    /\ UNCHANGED <<logVars, acked, board, browser>>

\* The pass goes on to the next entry or channel.
Proceed ==
    worker' = IF worker.batch = {Entry} THEN NextChannel
              ELSE [worker EXCEPT !.at = "entry", !.batch = @ \ {Entry}]

AcknowledgeConfigured ==
    /\ worker.at = "ack"
    /\ acked' = IF worker.channel \in Endpoints
                THEN [acked EXCEPT ![worker.channel] = @ \cup {Entry}]
                ELSE acked
    /\ Proceed
    /\ UNCHANGED <<logVars, attempts, board, browser>>

\* acknowledge_outbox.
AcknowledgeEntry ==
    /\ worker.at = "ack"
    /\ acked' = [acked EXCEPT ![worker.channel] = @ \cup {Entry}]
    /\ Proceed
    /\ UNCHANGED <<logVars, attempts, board, browser>>

\* A store operation fails: the pass ends, both channels with it.
DispatchFails ==
    /\ worker.at # "send"
    /\ StoreFails
    /\ worker' = NewPass
    /\ UNCHANGED <<acked, attempts, board, browser>>

Dispatch ==
    \/ ReadBatch \/ CheckEntry \/ Send \/ RecordAttempt \/ AcknowledgeEntry

-----------------------------------------------------------------------------
(* DashboardOutboxDispatcher::deliver_pending, every 250 ms.               *)

NewDelivery == [at |-> "sse", pending |-> [d \in Screens |-> {}], view |-> 0]

Reading(destination) == [board.pending EXCEPT ![destination] = pending_outbox_for(destination)]

ReadSse ==
    /\ board.at = "sse"
    /\ board' = [board EXCEPT !.at = "browser", !.pending = Reading("Sse")]
    /\ UNCHANGED <<logVars, acked, attempts, worker, browser>>

ReadBrowser ==
    /\ board.at = "browser"
    /\ LET pending == Reading("Browser")
       IN  board' = IF \A d \in Screens : pending[d] = {} THEN NewDelivery
                    ELSE [board EXCEPT !.at = "snapshot", !.pending = pending]
    /\ UNCHANGED <<logVars, acked, attempts, worker, browser>>

\* publish reads the sessions; what committed until then is shown.
ReadSnapshot ==
    /\ board.at = "snapshot"
    /\ board' = [board EXCEPT !.at = "publish", !.view = Len(log)]
    /\ UNCHANGED <<logVars, acked, attempts, worker, browser>>

\* broadcast::Sender::send: a receiver that is LIVE_CAPACITY behind loses the
\* oldest snapshot and will be told so.
Broadcast(view) ==
    IF browser.at = "closed" THEN browser
    ELSE IF Len(browser.queue) = LIVE_CAPACITY
    THEN [browser EXCEPT !.queue = Append(Tail(@), view), !.lagged = TRUE]
    ELSE [browser EXCEPT !.queue = Append(@, view)]

PublishThenRead ==
    /\ board.at = "publish"
    /\ browser' = Broadcast(board.view)
    /\ board' = [board EXCEPT !.at = "ack", !.view = 0,
                    !.pending = [d \in Screens |-> pending_outbox_for(d)]]
    /\ UNCHANGED <<logVars, acked, attempts, worker>>

Publish ==
    /\ board.at = "publish"
    /\ browser' = Broadcast(board.view)
    /\ board' = [board EXCEPT !.at = "ack", !.view = 0]
    /\ UNCHANGED <<logVars, acked, attempts, worker>>

\* The entries for Sse come before those for Browser.
AcknowledgeShown ==
    /\ board.at = "ack"
    /\ LET screen == IF board.pending["Sse"] # {} THEN "Sse" ELSE "Browser"
           i == Min(board.pending[screen])
           rest == [board.pending EXCEPT ![screen] = @ \ {i}]
       IN  /\ acked' = [acked EXCEPT ![screen] = @ \cup {i}]
           /\ board' = IF \A d \in Screens : rest[d] = {} THEN NewDelivery
                       ELSE [board EXCEPT !.pending = rest]
    /\ UNCHANGED <<logVars, attempts, worker, browser>>

DeliveryFails ==
    /\ board.at # "publish"
    /\ StoreFails
    /\ board' = NewDelivery
    /\ UNCHANGED <<acked, attempts, worker, browser>>

Deliver ==
    \/ ReadSse \/ ReadBrowser \/ ReadSnapshot \/ Publish \/ AcknowledgeShown

-----------------------------------------------------------------------------
(* The browser and its stream (router.rs, events; app.ts, connect).        *)

Closed(latest) ==
    [at |-> "closed", lagged |-> FALSE, queue |-> <<>>, latest |-> latest]

\* The stream subscribes before it reads the initial snapshot.
Subscribe ==
    /\ browser.at = "closed"
    /\ browser' = [browser EXCEPT !.at = "subscribed"]
    /\ UNCHANGED <<logVars, acked, attempts, worker, board>>

ReadInitial ==
    /\ browser.at = "subscribed"
    /\ browser' = [browser EXCEPT !.at = "live", !.latest = Len(log)]
    /\ UNCHANGED <<logVars, acked, attempts, worker, board>>

IgnoreResync ==
    /\ browser.at = "live"
    /\ browser.queue # <<>>
    /\ browser' = IF browser.lagged THEN [browser EXCEPT !.queue = Tail(@)]
                  ELSE [browser EXCEPT !.latest = Head(browser.queue),
                                       !.queue = Tail(@)]
    /\ UNCHANGED <<logVars, acked, attempts, worker, board>>

\* The browser applies every snapshot; told that it lagged, it reconnects.
Receive ==
    /\ browser.at = "live"
    /\ browser.queue # <<>>
    /\ browser' = IF browser.lagged THEN Closed(browser.latest)
                  ELSE [browser EXCEPT !.latest = Head(browser.queue),
                                       !.queue = Tail(@)]
    /\ UNCHANGED <<logVars, acked, attempts, worker, board>>

Disconnect ==
    /\ browser.at # "closed"
    /\ browser' = Closed(browser.latest)
    /\ UNCHANGED <<logVars, acked, attempts, worker, board>>

-----------------------------------------------------------------------------

Init ==
    /\ LogInit
    /\ acked = [d \in Destinations |-> {}]
    /\ attempts = [c \in Channels |-> {}]
    /\ worker = NewPass
    /\ board = NewDelivery
    /\ browser = Closed(0)

WriteEvents == Write /\ UNCHANGED deliveryVars

\* The server stops, wherever its dispatchers are, and the stream closes.
Restart ==
    /\ LogRestart
    /\ worker' = NewPass
    /\ board' = NewDelivery
    /\ browser' = Closed(browser.latest)
    /\ UNCHANGED <<acked, attempts>>

Next ==
    \/ WriteEvents \/ Restart
    \/ Dispatch \/ DispatchFails
    \/ Deliver \/ DeliveryFails
    \/ Subscribe \/ ReadInitial \/ Receive \/ Disconnect

Spec == Init /\ [][Next]_vars

\* Both workers run every 250 ms; a browser reads its open stream.
FairSpec ==
    /\ Spec
    /\ WF_vars(Dispatch) /\ WF_vars(Deliver)
    /\ WF_vars(ReadInitial) /\ WF_vars(Receive)

-----------------------------------------------------------------------------
(* Properties.                                                             *)

\* A webhook entry of a configured channel is acknowledged only after an
\* attempt is on record, through failures and restarts at any step
\* (deliver_entry, deliver_channel).
AcknowledgedWasAttempted ==
    \A c \in Endpoints : \A i \in acked[c] : log[i].id \in attempts[c]

\* An attempt on record is never repeated, also when the acknowledgement that
\* followed it failed or the server stopped in between (deliver_entry).
AttemptNotRepeated ==
    [][worker.at = "send" /\ worker'.at = "record"
       => EventOfEntry \notin attempts[worker.channel]]_vars

\* What an open stream will show last, once the browser has read it all.
FinallyShown ==
    IF browser.queue = <<>> THEN browser.latest
    ELSE browser.queue[Len(browser.queue)]

\* An event acknowledged for the dashboard reaches every open stream, whenever it
\* was opened: it is in what the browser shows last, or the browser is about
\* to reconnect (deliver_pending, events).
AcknowledgedIsShown ==
    browser.at = "live" /\ ~browser.lagged
    => \A d \in Screens : \A i \in acked[d] : i <= FinallyShown

\* Every committed event is acknowledged for all its destinations, configured
\* or not (deliver_pending of both dispatchers).
EverythingSettles ==
    <>[](\A i \in DOMAIN log : \A d \in Destinations :
             RoutedTo(log[i], d) => i \in acked[d])

\* A browser whose stream stays open ends up with the current state, although it
\* may be shown an older snapshot after a newer one, or lag (publish, events).
BrowserCatchesUp ==
    <>[](browser.at = "live" => browser.latest = Len(log))

=============================================================================
