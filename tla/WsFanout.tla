------------------------------- MODULE WsFanout -------------------------------
(***************************************************************************)
(* The WebSocket side of event-store: POST /api/v1/events stores an event  *)
(* and fans it out; a subscriber registers with the Broadcaster first,     *)
(* then has the tail of the table replayed, then is served from its queue. *)
(* Every await is a point where the other coroutines may run: in the       *)
(* ingest handler between the INSERT and the fan-out, in the endpoint      *)
(* between registration and the replay query, and in every send_text.      *)
(*                                                                         *)
(* An event is its place in the (timestamp, event_id) order.  What a       *)
(* truncated event does to later replays is left out: see EventStore.      *)
(***************************************************************************)
EXTENDS Integers, Sequences, FiniteSets, SequencesExt

CONSTANTS
    NumEvents,    \* how many events the producers POST
    Sub,          \* WebSocket clients
    TypeOf, SeverityOf, CarOf,  \* of every event; the car is NoCar if the
    NoCar,                      \* payload has none
    EventTypes, MinSeverity, CoachIds,  \* the filter of every client,
    AllCoaches,                         \* coach_ids = null
    Depth,        \* reconnect_replay_depth of every client, capped at 1000
    QueueMax      \* _QUEUE_MAX = 256

Event == 1..NumEvents
NoEvent == 0

ASSUME FanoutAssumption ==
    /\ NumEvents \in Nat
    /\ Depth \in [Sub -> Nat]
    /\ QueueMax \in Nat \ {0}
    /\ SeverityOf \in [Event -> 0..2] /\ MinSeverity \in [Sub -> 0..2]

VARIABLES
    stored,    \* rows of the events table
    posting,   \* events inserted, whose handler has not broadcast them yet
    phase,     \* where the endpoint of each client stands
    rows,      \* replay_to: the envelopes still to be sent, oldest first
    replayed,  \* pending_replay_ids
    queue,     \* the subscriber's asyncio.Queue
    sending,   \* writer: the envelope taken from the queue, being sent
    received,  \* what the client has got over this connection
    dropped,   \* events put_nowait refused
    older      \* history: matching events the replay query left out

connVars == <<phase, rows, replayed, queue, sending, received, dropped, older>>
vars == <<stored, posting, connVars>>

TypeOK ==
    /\ posting \subseteq stored /\ stored \subseteq Event
    /\ phase \in [Sub -> {"closed", "registered", "replaying", "live"}]
    /\ rows \in [Sub -> SUBSET Event]
    /\ queue \in [Sub -> Seq(Event)] /\ \A s \in Sub : Len(queue[s]) <= QueueMax
    /\ received \in [Sub -> Seq(Event)]
    /\ sending \in [Sub -> Event \cup {NoEvent}]
    /\ replayed \in [Sub -> SUBSET Event]
    /\ dropped \in [Sub -> SUBSET Event] /\ older \in [Sub -> SUBSET Event]

Init ==
    /\ stored = {} /\ posting = {}
    /\ phase = [s \in Sub |-> "closed"]
    /\ rows = [s \in Sub |-> {}]
    /\ queue = [s \in Sub |-> << >>]
    /\ received = [s \in Sub |-> << >>]
    /\ sending = [s \in Sub |-> NoEvent]
    /\ replayed = [s \in Sub |-> {}]
    /\ dropped = [s \in Sub |-> {}]
    /\ older = [s \in Sub |-> {}]

-----------------------------------------------------------------------------
(* The subscription filter, once in Python for live events and once in SQL   *)
(* for replay.                                                               *)

MatchesCoach(s, e) ==
    CoachIds[s] = AllCoaches \/ CarOf[e] = NoCar \/ CarOf[e] \in CoachIds[s]

Matches(s, e) ==
    /\ TypeOf[e] \in EventTypes[s]
    /\ SeverityOf[e] >= MinSeverity[s]
    /\ MatchesCoach(s, e)

ReplayCoach(s, e) ==
    CoachIds[s] # AllCoaches => CarOf[e] \in CoachIds[s] \/ CarOf[e] = NoCar

ReplayFilter(s) ==
    {e \in stored : /\ TypeOf[e] \in EventTypes[s]
                    /\ SeverityOf[e] >= MinSeverity[s]
                    /\ ReplayCoach(s, e)}

\* ORDER BY ... DESC LIMIT n, read backwards: the rows with fewer than n after them.
LastN(S, n) == {e \in S : Cardinality({f \in S : f > e}) < n}

ReplayRows(s) == LastN(ReplayFilter(s), Depth[s])

-----------------------------------------------------------------------------
(* POST /api/v1/events.                                                      *)

Insert(e) ==
    /\ e \notin stored
    /\ stored' = stored \cup {e}
    /\ posting' = posting \cup {e}
    /\ UNCHANGED connVars

\* The subscribers registered at this moment that want e.
Targets(e) == {s \in Sub : phase[s] # "closed" /\ Matches(s, e)}

BadBroadcast(e) ==
    /\ e \in posting
    /\ posting' = posting \ {e}
    /\ queue' = [s \in Sub |-> IF s \in Targets(e) /\ Len(queue[s]) < QueueMax
                               THEN Append(queue[s], e) ELSE queue[s]]
    /\ UNCHANGED <<stored, phase, rows, replayed, sending, received, dropped, older>>

Broadcast(e) ==
    /\ e \in posting
    /\ posting' = posting \ {e}
    /\ queue' = [s \in Sub |-> IF s \in Targets(e) /\ Len(queue[s]) < QueueMax
                               THEN Append(queue[s], e) ELSE queue[s]]
    /\ dropped' = [s \in Sub |-> IF s \in Targets(e) /\ Len(queue[s]) = QueueMax
                                 THEN dropped[s] \cup {e} ELSE dropped[s]]
    /\ UNCHANGED <<stored, phase, rows, replayed, sending, received, older>>

-----------------------------------------------------------------------------
(* The endpoint of one client.                                               *)

\* broadcaster.add, with a fresh Subscriber object.
Register(s) ==
    /\ phase[s] = "closed"
    /\ phase' = [phase EXCEPT ![s] = "registered"]
    /\ UNCHANGED <<stored, posting, rows, replayed, queue, sending, received, dropped, older>>

\* The replay query.  A depth of zero replays nothing.
ReadReplay(s) ==
    /\ phase[s] = "registered"
    /\ phase' = [phase EXCEPT ![s] = "replaying"]
    /\ rows' = [rows EXCEPT ![s] = ReplayRows(s)]
    /\ older' = [older EXCEPT ![s] = ReplayFilter(s) \ ReplayRows(s)]
    /\ UNCHANGED <<stored, posting, replayed, queue, sending, received, dropped>>

BadSendReplay(s) ==
    /\ phase[s] = "replaying" /\ rows[s] # {}
    /\ received' = [received EXCEPT ![s] = Append(@, Min(rows[s]))]
    /\ rows' = [rows EXCEPT ![s] = @ \ {Min(@)}]
    /\ UNCHANGED <<stored, posting, phase, replayed, queue, sending, dropped, older>>

\* One replayed row is noted for the writer and sent.
SendReplay(s) ==
    /\ phase[s] = "replaying" /\ rows[s] # {}
    /\ replayed' = [replayed EXCEPT ![s] = @ \cup {Min(rows[s])}]
    /\ received' = [received EXCEPT ![s] = Append(@, Min(rows[s]))]
    /\ rows' = [rows EXCEPT ![s] = @ \ {Min(@)}]
    /\ UNCHANGED <<stored, posting, phase, queue, sending, dropped, older>>

\* The "subscribed" acknowledgement; reader and writer start.
Subscribed(s) ==
    /\ phase[s] = "replaying" /\ rows[s] = {}
    /\ phase' = [phase EXCEPT ![s] = "live"]
    /\ UNCHANGED <<stored, posting, rows, replayed, queue, sending, received, dropped, older>>

\* The writer takes an envelope and skips it if it has been replayed.
WriterGet(s) ==
    /\ phase[s] = "live" /\ sending[s] = NoEvent /\ queue[s] # << >>
    /\ LET e == Head(queue[s]) IN
          /\ queue' = [queue EXCEPT ![s] = Tail(@)]
          /\ sending' = [sending EXCEPT ![s] = IF e \in replayed[s] THEN NoEvent ELSE e]
          /\ replayed' = [replayed EXCEPT ![s] = @ \ {e}]
    /\ UNCHANGED <<stored, posting, phase, rows, received, dropped, older>>

WriterSend(s) ==
    /\ sending[s] # NoEvent
    /\ received' = [received EXCEPT ![s] = Append(@, sending[s])]
    /\ sending' = [sending EXCEPT ![s] = NoEvent]
    /\ UNCHANGED <<stored, posting, phase, rows, replayed, queue, dropped, older>>

\* The socket closes in any phase; broadcaster.remove.  A later connection
\* starts over with nothing.
Disconnect(s) ==
    /\ phase[s] # "closed"
    /\ phase' = [phase EXCEPT ![s] = "closed"]
    /\ rows' = [rows EXCEPT ![s] = {}]
    /\ queue' = [queue EXCEPT ![s] = << >>]
    /\ received' = [received EXCEPT ![s] = << >>]
    /\ sending' = [sending EXCEPT ![s] = NoEvent]
    /\ replayed' = [replayed EXCEPT ![s] = {}]
    /\ dropped' = [dropped EXCEPT ![s] = {}]
    /\ older' = [older EXCEPT ![s] = {}]
    /\ UNCHANGED <<stored, posting>>

-----------------------------------------------------------------------------
Next ==
    \/ \E e \in Event : Insert(e) \/ Broadcast(e)
    \/ \E s \in Sub :
          \/ Register(s) \/ ReadReplay(s) \/ SendReplay(s) \/ Subscribed(s)
          \/ WriterGet(s) \/ WriterSend(s) \/ Disconnect(s)

Spec == Init /\ [][Next]_vars

\* Handlers and endpoints keep running; clients and producers are free.
FairSpec ==
    /\ Spec
    /\ \A e \in Event : WF_vars(Broadcast(e))
    /\ \A s \in Sub : WF_vars(ReadReplay(s) \/ SendReplay(s) \/ Subscribed(s)
                              \/ WriterGet(s) \/ WriterSend(s))

-----------------------------------------------------------------------------
(* Properties.                                                               *)

(* Register-first with dedupe by id: no event reaches a client twice over    *)
(* one connection, whichever of replay and fan-out comes first.              *)
DeliveredOnce == \A s \in Sub : IsInjective(received[s])

\* e is somewhere on its way to s.
OnItsWay(s, e) ==
    e \in posting \cup rows[s] \cup ToSet(queue[s]) \cup {sending[s]}

(* No gap between replay and live: once the replay query has run, every      *)
(* stored event the client's live filter matches was received, is on its     *)
(* way, was dropped because the queue was full, or is older than a full      *)
(* replay.                                                                   *)
NoGap ==
    \A s \in Sub : phase[s] \in {"replaying", "live"} =>
        \A e \in stored : Matches(s, e) =>
            \/ e \in ToSet(received[s]) \/ OnItsWay(s, e)
            \/ e \in dropped[s]
            \/ /\ e \in older[s]
               /\ Cardinality({f \in ToSet(received[s]) \cup rows[s] : f > e}) >= Depth[s]

(* Replay and live stream meet without a gap and without a duplicate, and    *)
(* the queue of a slow client stays within its bound.                        *)
ReplayMeetsLive == TypeOK /\ DeliveredOnce /\ NoGap

(* What is stored while a client is live reaches it, unless its queue was    *)
(* full or it goes away.                                                     *)
EventuallyReceived ==
    \A s \in Sub, e \in Event :
        (phase[s] = "live" /\ e \in posting /\ Matches(s, e))
            ~> \/ e \in ToSet(received[s]) \cup dropped[s]
               \/ phase[s] = "closed"

=============================================================================
