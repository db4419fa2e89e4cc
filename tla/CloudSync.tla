------------------------------- MODULE CloudSync ------------------------------
(***************************************************************************)
(* cloud-sync: the store-and-forward path from the onboard event-store to  *)
(* the landside MQTT broker.  Three asyncio tasks share one SQLite file:   *)
(*   pull loop     GET pages from the store into publish_queue             *)
(*   publish loop  QoS-1 publish of the pending rows, oldest first         *)
(*   ack loop      POST the contiguous published prefix to the store and   *)
(*                 drop the rows behind it                                 *)
(* The tasks run in one thread: a step below is the code between two       *)
(* awaits.  A SIGKILL may fall between any two SQLite commits.             *)
(***************************************************************************)
EXTENDS EventStore

CONSTANTS
    PublishRate,     \* publish_rate_per_sec: rows fetched per batch
    EnqueueMayFail,  \* TRUE: an INSERT into publish_queue may raise
    MaxFaults        \* bound on crashes, failed publishes and failed ACKs

ASSUME SyncAssumption ==
    /\ PublishRate \in Nat \ {0}
    /\ EnqueueMayFail \in BOOLEAN
    /\ MaxFaults \in Nat

VARIABLES
    queue,       \* publish_queue: "absent", "pending" or "published" per event
    lastPulled,  \* cursor_state.last_pulled_event_id
    lastAcked,   \* cursor_state.last_acked_event_id
    page,        \* pull loop: the response body awaiting enqueue, {} if none
    link,        \* publish loop: "up" inside the aiomqtt.Client context
    batch,       \* publish loop: rows of iter_pending still to publish
    wire,        \* publish loop: the PUBLISH of the head of batch
    limbo,       \* network: PUBLISHes the client has given up on but the
                 \* broker may still read, per event
    ackReq,      \* ack loop: the cursor it POSTed, NoEvent if idle
    ackReply,    \* ack loop: what the store answered
    accepted,    \* history: events ever enqueued
    copies,      \* history: how often the broker received each event
    faults       \* history: faults so far

pullVars == <<lastPulled, page>>
pubVars  == <<link, batch, wire>>
ackVars  == <<lastAcked, ackReq, ackReply>>
histVars == <<accepted, copies, faults>>
syncVars == <<queue, pullVars, pubVars, limbo, ackVars, histVars>>
vars     == <<storeVars, syncVars>>

RowState == {"absent", "pending", "published"}

TypeOK ==
    /\ StoreTypeOK
    /\ queue \in [Event -> RowState]
    /\ lastPulled \in Cursor /\ lastAcked \in Cursor /\ ackReq \in Cursor
    /\ page \subseteq Event /\ accepted \subseteq Event
    /\ batch \subseteq {e \in Event : queue[e] # "absent"}
    /\ link \in {"down", "up"}
    /\ wire \in {"idle", "sent", "arrived"}
    /\ ackReply \in {"none", "ok", "drift"}
    /\ limbo \in [Event -> Nat] /\ copies \in [Event -> Nat]
    /\ faults \in Nat

Init ==
    /\ StoreInit
    /\ queue = [e \in Event |-> "absent"]
    /\ lastPulled = NoEvent /\ lastAcked = NoEvent
    /\ page = {} /\ batch = {} /\ accepted = {}
    /\ link = "down" /\ wire = "idle"
    /\ ackReq = NoEvent /\ ackReply = "none"
    /\ limbo = [e \in Event |-> 0] /\ copies = [e \in Event |-> 0]
    /\ faults = 0

Rows      == {e \in Event : queue[e] # "absent"}
Pending   == {e \in Event : queue[e] = "pending"}
Published == {e \in Event : queue[e] = "published"}
Delivered == {e \in Event : copies[e] > 0}

Fault == faults < MaxFaults /\ faults' = faults + 1

-----------------------------------------------------------------------------
(* Pull loop.                                                                *)

\* INSERT OR IGNORE of every event of S: a row already queued keeps its state.
Enqueued(S) == [e \in Event |-> IF e \in S /\ queue[e] = "absent" THEN "pending"
                                ELSE queue[e]]

BadPullReceive ==
    /\ page = {}
    /\ CursorKnown(lastPulled)
    /\ Cardinality(EventsPage(lastPulled)) = PageLimit
    /\ page' = ListEvents(lastPulled)
    /\ UNCHANGED <<storeVars, limbo, queue, lastPulled, pubVars, ackVars, histVars>>

\* The GET is answered.  A 400 and an empty page leave everything as it was:
\* the loop sleeps and asks again with the same cursor.
PullReceive ==
    /\ page = {}
    /\ CursorKnown(lastPulled)
    /\ ListEvents(lastPulled) # {}
    /\ page' = ListEvents(lastPulled)
    /\ UNCHANGED <<storeVars, limbo, queue, lastPulled, pubVars, ackVars, histVars>>

\* Enqueue the page and move the pull cursor to its last envelope.  A row
\* whose INSERT raised is logged and skipped; the cursor passes it all the same.
PullApply ==
    /\ page # {}
    /\ \E failed \in SUBSET page :
          /\ EnqueueMayFail \/ failed = {}
          /\ queue' = Enqueued(page \ failed)
          /\ accepted' = accepted \cup (page \ failed)
    /\ lastPulled' = Max(page)
    /\ page' = {}
    /\ UNCHANGED <<storeVars, limbo, pubVars, ackVars, copies, faults>>

-----------------------------------------------------------------------------
(* Publish loop.                                                             *)

Connect ==
    /\ link = "down"
    /\ link' = "up"
    /\ UNCHANGED <<storeVars, limbo, queue, pullVars, batch, wire, ackVars, histVars>>

BadFetchBatch ==
    /\ link = "up" /\ batch = {} /\ Rows # {}
    /\ batch' = FirstN(Rows, PublishRate)
    /\ UNCHANGED <<storeVars, limbo, queue, pullVars, link, wire, ackVars, histVars>>

FetchBatch ==
    /\ link = "up" /\ batch = {} /\ Pending # {}
    /\ batch' = FirstN(Pending, PublishRate)
    /\ UNCHANGED <<storeVars, limbo, queue, pullVars, link, wire, ackVars, histVars>>

BadNextRow == Max(batch)

\* The row being published: iter_pending returns the rows oldest first.
NextRow == Min(batch)

\* A token is acquired and the oldest row of the batch handed to the client.
SendPublish ==
    /\ batch # {} /\ wire = "idle"
    /\ wire' = "sent"
    /\ UNCHANGED <<storeVars, limbo, queue, pullVars, link, batch, ackVars, histVars>>

BrokerReceive ==
    /\ wire = "sent"
    /\ wire' = "arrived"
    /\ copies' = [copies EXCEPT ![NextRow] = @ + 1]
    /\ UNCHANGED <<storeVars, limbo, queue, pullVars, link, batch, ackVars,
                   accepted, faults>>

BadPuback ==
    /\ wire \in {"sent", "arrived"}
    /\ queue' = [queue EXCEPT ![NextRow] = "published"]
    /\ batch' = batch \ {NextRow}
    /\ wire' = "idle"
    /\ UNCHANGED <<storeVars, limbo, pullVars, link, ackVars, histVars>>

\* PUBACK returns and mark_published commits.
Puback ==
    /\ wire = "arrived"
    /\ queue' = [queue EXCEPT ![NextRow] = "published"]
    /\ batch' = batch \ {NextRow}
    /\ wire' = "idle"
    /\ UNCHANGED <<storeVars, limbo, pullVars, link, ackVars, histVars>>

\* The client context is left.  A PUBLISH it had sent may still be read by the
\* broker, now or much later.
LeaveClient ==
    /\ link' = "down" /\ batch' = {} /\ wire' = "idle"
    /\ limbo' = IF wire = "sent" THEN [limbo EXCEPT ![NextRow] = @ + 1] ELSE limbo

BadPublishFail ==
    /\ wire # "idle"
    /\ Fault
    /\ queue' = [queue EXCEPT ![NextRow] = "published"]
    /\ LeaveClient
    /\ UNCHANGED <<storeVars, pullVars, ackVars, accepted, copies>>

\* Timeout or MqttError: the row stays pending (mark_failed touches only its
\* attempts counter), the rest of the batch is forgotten and the connection
\* dropped -- whether or not the message had reached the broker.
PublishFail ==
    /\ wire # "idle"
    /\ Fault
    /\ LeaveClient
    /\ UNCHANGED <<storeVars, queue, pullVars, ackVars, accepted, copies>>

LateReceive(e) ==
    /\ limbo[e] > 0
    /\ limbo' = [limbo EXCEPT ![e] = @ - 1]
    /\ copies' = [copies EXCEPT ![e] = @ + 1]
    /\ UNCHANGED <<storeVars, queue, pullVars, pubVars, ackVars, accepted, faults>>

-----------------------------------------------------------------------------
(* Ack loop.                                                                 *)

BadContiguousPublishedPrefix ==
    IF Published = {} THEN NoEvent ELSE Max(Published)

\* The last published row before the first pending one.
ContiguousPublishedPrefix ==
    LET prefix == {e \in Published : \A f \in Pending : e < f}
    IN  IF prefix = {} THEN NoEvent ELSE Max(prefix)

AckStart ==
    /\ ackReq = NoEvent
    /\ ContiguousPublishedPrefix \notin {NoEvent, lastAcked}
    /\ ackReq' = ContiguousPublishedPrefix
    /\ UNCHANGED <<storeVars, limbo, queue, pullVars, pubVars, lastAcked, ackReply, histVars>>

BadServeAck ==
    /\ ackReq # NoEvent /\ ackReply = "none"
    /\ \/ /\ AdvanceCursor(ackReq)
          /\ UNCHANGED ackReply
       \/ /\ ackReq \notin events
          /\ ackReply' = "drift"
          /\ UNCHANGED storeVars
    /\ UNCHANGED <<limbo, queue, pullVars, pubVars, lastAcked, ackReq, histVars>>

\* The store handles the POST, up to its first commit.  A request whose answer
\* was lost is repeated, so the same cursor may be handled more than once.
ServeAck ==
    /\ ackReq # NoEvent /\ ackReply = "none"
    /\ \/ /\ AdvanceCursor(ackReq)
          /\ UNCHANGED ackReply
       \/ /\ ackReq \notin events
          /\ ackReply' = "drift"
          /\ UNCHANGED storeVars
       \/ /\ ackReq \in events /\ ackReq = syncCursor
          /\ ackReply' = "ok"
          /\ UNCHANGED storeVars
    /\ UNCHANGED <<limbo, queue, pullVars, pubVars, lastAcked, ackReq, histVars>>

\* The handler that advanced to c truncates and answers.
ServeTruncate(c) ==
    /\ TruncateOldJourneys(c)
    /\ ackReply' = IF ackReq = c /\ ackReply = "none" THEN "ok" ELSE ackReply
    /\ UNCHANGED <<limbo, queue, pullVars, pubVars, lastAcked, ackReq, histVars>>

BadDeleteAcked(c) ==
    [e \in Event |-> IF queue[c] # "absent" /\ e <= c THEN "absent" ELSE queue[e]]

\* DELETE of the published rows up to and including the cursor's.
DeleteAcked(c) ==
    [e \in Event |-> IF queue[c] # "absent" /\ queue[e] = "published" /\ e <= c
                     THEN "absent" ELSE queue[e]]

\* set_acked, then delete_acked.  A drifted cursor is treated like an ACK.
AckApply ==
    /\ ackReply # "none"
    /\ lastAcked' = ackReq
    /\ queue' = DeleteAcked(ackReq)
    /\ ackReq' = NoEvent /\ ackReply' = "none"
    /\ UNCHANGED <<storeVars, limbo, pullVars, pubVars, histVars>>

\* All five attempts of ack_cursor failed: the tick ends.
AckFail ==
    /\ ackReq # NoEvent
    /\ Fault
    /\ ackReq' = NoEvent /\ ackReply' = "none"
    /\ UNCHANGED <<storeVars, limbo, queue, pullVars, pubVars, lastAcked, accepted, copies>>

-----------------------------------------------------------------------------
(* Kill and restart of the container: the tasks start over from the file.    *)

LoseVolatile ==
    /\ Fault
    /\ page' = {}
    /\ LeaveClient
    /\ ackReq' = NoEvent /\ ackReply' = "none"

Crash ==
    /\ LoseVolatile
    /\ UNCHANGED <<storeVars, queue, lastPulled, lastAcked, accepted, copies>>

\* Killed after the first n INSERTs of the page, before set_pulled.
CrashMidPull(n) ==
    /\ LoseVolatile
    /\ page # {}
    /\ queue' = Enqueued(FirstN(page, n))
    /\ accepted' = accepted \cup FirstN(page, n)
    /\ UNCHANGED <<storeVars, lastPulled, lastAcked, copies>>

\* Killed between set_acked and delete_acked.
CrashMidAck ==
    /\ LoseVolatile
    /\ ackReply # "none"
    /\ lastAcked' = ackReq
    /\ UNCHANGED <<storeVars, queue, lastPulled, accepted, copies>>

-----------------------------------------------------------------------------
Next ==
    \/ \E e \in Event : IngestEvent(e) /\ UNCHANGED syncVars
    \/ StoreCrash /\ UNCHANGED syncVars
    \/ PullReceive
    \/ PullApply
    \/ Connect
    \/ FetchBatch
    \/ SendPublish
    \/ BrokerReceive
    \/ Puback
    \/ PublishFail
    \/ \E e \in Event : LateReceive(e)
    \/ AckStart
    \/ ServeAck
    \/ \E c \in Event : ServeTruncate(c)
    \/ AckApply
    \/ AckFail
    \/ Crash
    \/ \E n \in 1..PageLimit : CrashMidPull(n)
    \/ CrashMidAck

Spec == Init /\ [][Next]_vars

\* The three loops keep running, the broker is eventually reachable and the
\* store eventually answers.  Producers and faults are not fair.
FairSpec ==
    /\ Spec
    /\ WF_vars(PullReceive) /\ WF_vars(PullApply)
    /\ WF_vars(Connect) /\ WF_vars(FetchBatch) /\ WF_vars(SendPublish)
    /\ WF_vars(BrokerReceive) /\ WF_vars(Puback)
    /\ WF_vars(AckStart) /\ WF_vars(ServeAck) /\ WF_vars(AckApply)
    /\ \A c \in Event : WF_vars(ServeTruncate(c))

-----------------------------------------------------------------------------
(* Properties.                                                               *)

(* Custody: once cloud-sync has taken an event over from the store, it keeps *)
(* the row until the broker has the event.  No interleaving of the three     *)
(* loops and no kill between two commits loses one; a row marked published   *)
(* or deleted was received.                                                  *)
Custody ==
    /\ \A e \in accepted : queue[e] = "pending" \/ e \in Delivered
    /\ Published \subseteq Delivered

Hop == INSTANCE AtLeastOnce
           WITH Message <- Event, held <- Rows, received <- Delivered

(* cloud-sync implements the at-least-once hop: its custody is the rows of   *)
(* publish_queue, the receiver is the broker.                                *)
ImplementsAtLeastOnce == Hop!Spec

(* What contiguous_published_prefix promises (db.py:165-168): every event    *)
(* cloud-sync ever took over, up to and including the cursor it would ACK    *)
(* now, has reached the broker -- including those already deleted.           *)
PrefixDelivered ==
    \A e \in accepted : e <= ContiguousPublishedPrefix => e \in Delivered

(* anonymise_page: an event withheld from the cloud never reaches the queue, *)
(* the response in flight or the broker.                                     *)
WithheldStaysOnboard ==
    Withheld \cap (page \cup accepted \cup Rows \cup Delivered) = {}

(* A duplicate at the broker is the trace of a fault: an event is received   *)
(* at most once more than there were faults.                                 *)
DuplicatesNeedFaults == \A e \in Event : copies[e] <= 1 + faults

(* ack_loop.py:5-7, of the store's own cursor: every event up to and         *)
(* including last_synced_event_id has reached the broker.                    *)
SyncedWasDelivered ==
    \A e \in posted \ Withheld : e <= syncCursor => e \in Delivered

(* The broker gets first copies in chronological order (iter_pending's       *)
(* ORDER BY survives reconnects, restarts and stale batches).                *)
ChronologicalFirstDelivery ==
    [][\A e \in Delivered' \ Delivered :
          \A f \in accepted : f < e => f \in Delivered]_vars

(* The pull cursor never moves back, not even over a restart.                *)
PullCursorMonotone == [][lastPulled' >= lastPulled]_vars

(* The cursor the ack loop has confirmed with the store eventually covers    *)
(* every row marked published.                                               *)
PublishedEventuallyAcked == \A e \in Event : queue[e] = "published" ~> lastAcked >= e

(* Every event the store may give out reaches the broker, through failed     *)
(* publishes and kills.                                                      *)
StoredEventuallyDelivered ==
    \A e \in Event \ Withheld : e \in posted ~> e \in Delivered

=============================================================================
