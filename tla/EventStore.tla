------------------------------ MODULE EventStore ------------------------------
(***************************************************************************)
(* The onboard event-store as cloud-sync sees it: the events table, the    *)
(* sync_state cursor, the paginated egress read GET /api/v1/events and the *)
(* handler of POST /api/v1/sync/cursor.                                    *)
(*                                                                         *)
(* An event is a positive integer: its place in the (timestamp, event_id)  *)
(* order every query of the store and of cloud-sync sorts by.  NoEvent is  *)
(* the NULL cursor.  Distinct events have distinct natural keys, so a      *)
(* repeated POST of one is the ignored INSERT OR IGNORE.  What ingest_event *)
(* broadcasts to WebSocket subscribers is the subject of WsFanout.         *)
(***************************************************************************)
EXTENDS Integers, FiniteSets, FiniteSetsExt

CONSTANTS
    NumEvents,    \* how many events the onboard producers ever POST
    JourneyOf,    \* the journey_id of every event
    TimestampOf,  \* the timestamp of every event; ties are possible
    Withheld,     \* events anonymise_page drops (ACCESSIBILITY_DETECTED)
    Retain,       \* truncate_old_journeys(retain=3)
    PageLimit,    \* pull_batch_size
    InOrder       \* TRUE: no event is POSTed after one that sorts behind it

Event == 1..NumEvents
NoEvent == 0
Cursor == Event \cup {NoEvent}

ASSUME StoreAssumption ==
    /\ NumEvents \in Nat
    /\ Withheld \subseteq Event
    /\ Retain \in Nat /\ PageLimit \in Nat \ {0}
    /\ InOrder \in BOOLEAN
    /\ TimestampOf \in [Event -> Nat]
    /\ \A e, f \in Event : e < f => TimestampOf[e] <= TimestampOf[f]

VARIABLES
    events,      \* rows of the events table
    posted,      \* history: events ever inserted
    syncCursor,  \* sync_state.last_synced_event_id
    truncating   \* cursors whose handler has committed advance_cursor but
                 \* not yet truncate_old_journeys

storeVars == <<events, posted, syncCursor, truncating>>

StoreInit ==
    /\ events = {}
    /\ posted = {}
    /\ syncCursor = NoEvent
    /\ truncating = {}

StoreTypeOK ==
    /\ events \subseteq posted
    /\ posted \subseteq Event
    /\ syncCursor \in Cursor
    /\ truncating \subseteq Event

-----------------------------------------------------------------------------
(* POST /api/v1/events.  A producer stamps the envelope before it POSTs and  *)
(* retries with back-off, so unless InOrder an event may arrive late.  A     *)
(* second POST of a stored event changes nothing.                            *)

IngestEvent(e) ==
    /\ e \notin posted
    /\ InOrder => \A f \in posted : f < e
    /\ events' = events \cup {e}
    /\ posted' = posted \cup {e}
    /\ UNCHANGED <<syncCursor, truncating>>

-----------------------------------------------------------------------------
(* GET /api/v1/events?after=c&limit=PageLimit.                               *)

\* The first n elements of S: ORDER BY timestamp, event_id LIMIT n.
FirstN(S, n) == {e \in S : Cardinality({f \in S : f < e}) < n}

\* An unknown cursor is answered 400 INVALID_CURSOR.
CursorKnown(c) == c = NoEvent \/ c \in events

EventsPage(c) == FirstN({e \in events : e > c}, PageLimit)

\* The page as it leaves the train: withheld rows are dropped after the page
\* was cut, so a full page may come out short or empty.
ListEvents(c) == EventsPage(c) \ Withheld

-----------------------------------------------------------------------------
(* POST /api/v1/sync/cursor.  advance_cursor commits on its own, which ends  *)
(* the BEGIN IMMEDIATE transaction; truncate_old_journeys is a second one.   *)

AdvanceCursor(c) ==
    /\ c \in events
    /\ c # syncCursor
    /\ syncCursor' = c
    /\ truncating' = truncating \cup {c}
    /\ UNCHANGED <<events, posted>>

Journeys == {JourneyOf[e] : e \in events}

LastTimestamp(j) == Max({TimestampOf[e] : e \in {f \in events : JourneyOf[f] = j}})

\* The journeys the sub-select may return: the Retain most recent ones, where
\* SQLite is free to break a tie on MAX(timestamp) either way.
RetainedJourneys(K) ==
    /\ K \subseteq Journeys
    /\ Cardinality(K) = Min({Retain, Cardinality(Journeys)})
    /\ \A k \in K, j \in Journeys \ K : LastTimestamp(k) >= LastTimestamp(j)

TruncateOldJourneys(c) ==
    /\ c \in truncating
    /\ \E K \in SUBSET Journeys :
          /\ RetainedJourneys(K)
          /\ events' = {e \in events : JourneyOf[e] \in K}
    /\ truncating' = truncating \ {c}
    /\ UNCHANGED <<posted, syncCursor>>

\* A kill of the container loses the handlers that have not truncated yet.
StoreCrash ==
    /\ truncating # {}
    /\ truncating' = {}
    /\ UNCHANGED <<events, posted, syncCursor>>

=============================================================================
