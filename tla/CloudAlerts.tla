----------------------------- MODULE CloudAlerts ------------------------------
(***************************************************************************)
(* Alerts in cloud-backend: POST /api/v1/events stores a batch in one      *)
(* transaction and publishes its alerts as it goes; GET                    *)
(* /api/v1/alerts/stream replays what a returning client missed and then   *)
(* forwards its queue.  Both ask the AlertClassFilter, the CachedTable     *)
(* this module extends, about every ALERT_RAISED.  Every await is a yield  *)
(* point.  The browser (EventSource) and PostgreSQL at READ COMMITTED are  *)
(* external: a client reconnects with the id of the last frame it got, an  *)
(* INSERT waits for the transaction that holds the same key, a cycle of    *)
(* such waits is aborted.  Journeys rows exist; a batch is what is left of *)
(* it without the events of unsupported schema versions.                   *)
(***************************************************************************)
EXTENDS CachedTable, Sequences, SequencesExt, FiniteSets

CONSTANTS
    Request, Client,  \* ingest connections, SSE clients
    Event,            \* a set of numbers: the order of event_id
    Alert,            \* those of ALERT_EVENT_TYPES
    Raised,           \* the ALERT_RAISED among them
    Killable,         \* those of the class admins switch, raised after disabled_at
    Stamp,            \* source_timestamp
    Batches,          \* the batches landside may send
    QueueMax,         \* 256
    ReplayLimit,      \* 200
    NoEvent,
    MaxIngests, MaxUpdates  \* bounds

ASSUME CloudAlertsAssumption ==
    /\ Reader = Request \cup Client /\ Request \cap Client = {}
    /\ Killable \subseteq Raised /\ Raised \subseteq Alert /\ Alert \subseteq Event
    /\ Event \subseteq Nat /\ Stamp \in [Event -> Nat] /\ NoEvent \notin Event
    /\ Batches \subseteq Seq(Event) /\ QueueMax \in Nat /\ ReplayLimit \in Nat
    /\ MaxIngests \in Nat /\ MaxUpdates \in Nat

VARIABLES
    committed,  \* events rows
    req,        \* an ingest request: where it is, what is left of its batch, the rows
                \* its transaction holds, and (history) those of them it published
    sse,        \* a client's stream, and the Last-Event-ID its browser keeps
    aired,      \* history: how often a transaction that committed published an event
    begun, updates

alertVars == <<committed, req, sse, aired, begun, updates>>

vars == <<alertVars, cacheVars>>

Frame == [id : Event, kind : {"alert", "update"}]

TypeOK ==
    /\ CacheTypeOK
    /\ committed \subseteq Event
    /\ req \in [Request -> [pc : {"idle", "insert", "filter", "commit"},
                            left : Seq(Event), mine : SUBSET Event, out : SUBSET Event]]
    /\ \A c \in Client :
        /\ sse[c].pc \in {"off", "read", "filter", "send", "live"}
        /\ sse[c].queue \in Seq(Frame) /\ Len(sse[c].queue) <= QueueMax
        /\ sse[c].rows \in Seq(Alert) /\ sse[c].replay \in Seq(Alert)
        /\ Len(sse[c].rows) + Len(sse[c].replay) <= ReplayLimit
        /\ {sse[c].last, sse[c].from} \subseteq Event \cup {NoEvent}
    /\ aired \in [Event -> Nat] /\ begun \in 0..MaxIngests /\ updates \in 0..MaxUpdates

Idle == [pc |-> "idle", left |-> <<>>, mine |-> {}, out |-> {}]

Off(last) ==
    [pc |-> "off", queue |-> <<>>, rows |-> <<>>, replay |-> <<>>, last |-> last, from |-> last,
     got |-> {}, since |-> {}, base |-> {}, excused |-> {}]

Init ==
    /\ CacheInit
    /\ committed = {}
    /\ req = [q \in Request |-> Idle]
    /\ sse = [c \in Client |-> Off(NoEvent)]
    /\ aired = [e \in Event |-> 0] /\ begun = 0 /\ updates = 0

-----------------------------------------------------------------------------
(* publish_alert: one put_nowait per subscriber, a full queue loses it.      *)

\* The queue joins _subscribers before the replay and leaves in the finally.
BadSubscribed(c) == sse[c].pc = "live"

Subscribed(c) == sse[c].pc # "off"

publish_alert(frame) ==
    [c \in Client |->
        LET alert == IF frame.kind = "alert" /\ sse[c].pc # "off" THEN {frame.id} ELSE {}
            s == [sse[c] EXCEPT !.since = @ \cup alert]
        IN  IF ~Subscribed(c) THEN s
            ELSE IF Len(s.queue) < QueueMax THEN [s EXCEPT !.queue = Append(@, frame)]
            ELSE [s EXCEPT !.excused = @ \cup alert]]

-----------------------------------------------------------------------------
(* ingest_events                                                             *)

Step(left) == IF left = <<>> THEN "commit" ELSE "insert"

BeginIngest(q, batch) ==
    /\ req[q].pc = "idle" /\ begun < MaxIngests
    /\ begun' = begun + 1
    /\ req' = [req EXCEPT ![q] = [Idle EXCEPT !.pc = Step(batch), !.left = batch]]
    /\ UNCHANGED <<committed, sse, aired, updates, cacheVars>>

\* q's INSERT waits for the end of p's transaction.
WaitsFor(q, p) ==
    p # q /\ req[q].pc = "insert" /\ Head(req[q].left) \in req[p].mine

\* The event is dealt with: published or not, on to the next.
Finished(q, published) ==
    LET e == Head(req[q].left)
        left == Tail(req[q].left)
    IN  /\ req' = [req EXCEPT ![q].left = left, ![q].pc = Step(left),
                              ![q].mine = @ \cup ({e} \ committed),
                              ![q].out = IF published THEN @ \cup {e} ELSE @]
        /\ sse' = IF published THEN publish_alert([id |-> e, kind |-> "alert"]) ELSE sse

BadInsert(q) ==
    /\ req[q].pc = "insert"
    /\ \A p \in Request : ~WaitsFor(q, p)
    /\ LET e == Head(req[q].left)
       IN  IF e \in Raised
           THEN /\ req' = [req EXCEPT ![q].pc = "filter", ![q].mine = @ \cup {e}]
                /\ UNCHANGED sse
           ELSE Finished(q, e \in Alert)
    /\ UNCHANGED <<committed, aired, begun, updates, cacheVars>>

\* INSERT ... ON CONFLICT DO NOTHING.  A new ALERT_RAISED also gets its escalation
\* and 'raised' audit rows, in the same transaction, and has to pass the filter; any
\* other alert is published before the next await.
Insert(q) ==
    /\ req[q].pc = "insert"
    /\ \A p \in Request : ~WaitsFor(q, p)
    /\ LET e == Head(req[q].left)
       IN  IF e \in committed \cup req[q].mine THEN Finished(q, FALSE)
           ELSE IF e \in Raised
           THEN /\ req' = [req EXCEPT ![q].pc = "filter", ![q].mine = @ \cup {e}]
                /\ UNCHANGED sse
           ELSE Finished(q, e \in Alert)
    /\ UNCHANGED <<committed, aired, begun, updates, cacheVars>>

\* The map says the class is disabled, and the alert was raised since.
Filters(version, e) == version % 2 = 1 /\ e \in Killable

IngestLoads(q) ==
    /\ req[q].pc = "filter" /\ Loading(q)
    /\ UNCHANGED alertVars

IngestFiltered(q) ==
    /\ req[q].pc = "filter" /\ Answered(q)
    /\ Finished(q, ~Filters(used'.version, Head(req[q].left)))
    /\ UNCHANGED <<committed, aired, begun, updates>>

Commit(q) ==
    /\ req[q].pc = "commit"
    /\ committed' = committed \cup req[q].mine
    /\ aired' = [e \in Event |-> aired[e] + (IF e \in req[q].out THEN 1 ELSE 0)]
    /\ req' = [req EXCEPT ![q] = Idle]
    /\ UNCHANGED <<sse, begun, updates, cacheVars>>

\* A coroutine that is in load leaves it by an exception.
LeavesLoad(r) == IF at[r] = "out" THEN UNCHANGED cacheVars ELSE LoadFails(r)

\* A statement raises: the session is closed without a commit.  What was published
\* stays published.
Rollback(q) ==
    /\ req[q].pc # "idle"
    /\ req' = [req EXCEPT ![q] = Idle]
    /\ LeavesLoad(q)
    /\ UNCHANGED <<committed, sse, aired, begun, updates>>

\* PostgreSQL finds a cycle of waiting transactions and aborts one.
DeadlockAbort(q) ==
    /\ \E S \in SUBSET Request :
        q \in S /\ \A p \in S : \E r \in S : WaitsFor(p, r)
    /\ Rollback(q)

\* _publish_lifecycle: an operator acknowledged or resolved the escalation.  The frame
\* carries the id of the ALERT_RAISED.
PublishLifecycle(e) ==
    /\ e \in committed \cap Raised /\ updates < MaxUpdates
    /\ updates' = updates + 1
    /\ sse' = publish_alert([id |-> e, kind |-> "update"])
    /\ UNCHANGED <<committed, req, aired, begun, cacheVars>>

-----------------------------------------------------------------------------
(* _sse_generator                                                            *)

Connect(c) ==
    /\ sse[c].pc = "off"
    /\ sse' = [sse EXCEPT ![c].pc = IF sse[c].last = NoEvent THEN "live" ELSE "read",
                          ![c].base = committed]
    /\ UNCHANGED <<committed, req, aired, begun, updates, cacheVars>>

Later(base, from) == {e \in base \cap Alert : from \in base /\ Stamp[e] > Stamp[from]}

\* ORDER BY source_timestamp, event_id.
Sorted(S) ==
    {rows \in [1..Cardinality(S) -> S] :
        ToSet(rows) = S /\ \A i, j \in 1..Cardinality(S) : i < j =>
            \/ Stamp[rows[i]] < Stamp[rows[j]]
            \/ Stamp[rows[i]] = Stamp[rows[j]] /\ rows[i] < rows[j]}

\* The rows _replay_since selects, in its order, before the LIMIT and after it.
ReplayRead(c) ==
    /\ sse[c].pc = "read"
    /\ \E rows \in Sorted(Later(committed, sse[c].from)) :
        LET kept == SubSeq(rows, 1, IF Len(rows) < ReplayLimit THEN Len(rows) ELSE ReplayLimit)
        IN  sse' = [sse EXCEPT ![c].rows = kept,
                               ![c].excused = @ \cup (ToSet(rows) \ ToSet(kept)),
                               ![c].pc = IF kept = <<>> THEN "live" ELSE "filter"]
    /\ UNCHANGED <<committed, req, aired, begun, updates, cacheVars>>

RowDone(c, keep) ==
    LET rows == Tail(sse[c].rows)
        replay == IF keep THEN Append(sse[c].replay, Head(sse[c].rows)) ELSE sse[c].replay
    IN  /\ sse' = [sse EXCEPT ![c].rows = rows, ![c].replay = replay,
                              ![c].pc = IF rows # <<>> THEN "filter"
                                        ELSE IF replay # <<>> THEN "send" ELSE "live"]
        /\ UNCHANGED <<committed, req, aired, begun, updates>>

RowPasses(c) ==
    /\ sse[c].pc = "filter" /\ Head(sse[c].rows) \notin Raised
    /\ RowDone(c, TRUE)
    /\ UNCHANGED cacheVars

RowLoads(c) ==
    /\ sse[c].pc = "filter" /\ Head(sse[c].rows) \in Raised
    /\ Loading(c)
    /\ UNCHANGED alertVars

RowFiltered(c) ==
    /\ sse[c].pc = "filter" /\ Head(sse[c].rows) \in Raised
    /\ Answered(c)
    /\ RowDone(c, ~Filters(used'.version, Head(sse[c].rows)))

SendReplay(c) ==
    LET e == Head(sse[c].replay)
    IN  /\ sse[c].pc = "send"
        /\ sse' = [sse EXCEPT ![c].replay = Tail(@), ![c].last = e, ![c].got = @ \cup {e},
                              ![c].pc = IF Len(sse[c].replay) = 1 THEN "live" ELSE "send"]
        /\ UNCHANGED <<committed, req, aired, begun, updates, cacheVars>>

SendLive(c) ==
    LET frame == Head(sse[c].queue)
    IN  /\ sse[c].pc = "live" /\ sse[c].queue # <<>>
        /\ sse' = [sse EXCEPT ![c].queue = Tail(@), ![c].last = frame.id,
                              ![c].got = IF frame.kind = "alert" THEN @ \cup {frame.id} ELSE @]
        /\ UNCHANGED <<committed, req, aired, begun, updates, cacheVars>>

Disconnect(c) ==
    /\ sse[c].pc # "off"
    /\ sse' = [sse EXCEPT ![c] = Off(sse[c].last)]
    /\ LeavesLoad(c)
    /\ UNCHANGED <<committed, req, aired, begun, updates>>

-----------------------------------------------------------------------------
Ingest(q) == Insert(q) \/ IngestLoads(q) \/ IngestFiltered(q) \/ Commit(q)

Replay(c) == RowPasses(c) \/ RowLoads(c) \/ RowFiltered(c)

Admin ==
    /\ Expire \/ AdminCommit \/ \E n \in 1..MaxWrites : Invalidate(n)
    /\ UNCHANGED alertVars

Next ==
    \/ \E q \in Request :
        \/ \E batch \in Batches : BeginIngest(q, batch)
        \/ Ingest(q) \/ Rollback(q) \/ DeadlockAbort(q)
    \/ \E e \in Event : PublishLifecycle(e)
    \/ \E c \in Client :
        Connect(c) \/ ReplayRead(c) \/ Replay(c) \/ SendReplay(c) \/ SendLive(c) \/ Disconnect(c)
    \/ Admin

(* A request that can go on does, PostgreSQL answers and breaks deadlocks,   *)
(* and asyncio.Lock wakes its waiters in the order they came.                *)
Fairness ==
    /\ \A q \in Request :
        /\ WF_vars(Insert(q)) /\ WF_vars(Commit(q)) /\ WF_vars(DeadlockAbort(q))
        /\ SF_vars(IngestLoads(q)) /\ SF_vars(IngestFiltered(q))
    /\ \A c \in Client : WF_vars(RowLoads(c)) /\ WF_vars(RowFiltered(c))

Spec == Init /\ [][Next]_vars /\ Fairness

-----------------------------------------------------------------------------
(* "Replay missed events on reconnect" (alerts_sse.py:145): once a client is *)
(* live, it has got, or has in its queue, every alert published since it     *)
(* connected and every one that was stored by then with a later timestamp    *)
(* than its cursor, unless its queue was full or the LIMIT cut it off.  The  *)
(* queue keeps its bound (TypeOK).                                           *)
NothingMissed ==
    /\ TypeOK
    /\ \A c \in Client : sse[c].pc = "live" =>
        LET s == sse[c]
        IN  (s.since \cup Later(s.base, s.from)) \ Killable \subseteq
                s.got \cup s.excused \cup {f.id : f \in ToSet(s.queue)}

(* The unique constraint and the rowcount gate: of all the requests that     *)
(* carry an event, one at most publishes it (and writes its escalation and   *)
(* its 'raised' audit row) without being rolled back, however they overlap.  *)
AiredOnce ==
    \A e \in Event : aired[e] + Cardinality({q \in Request : e \in req[q].out}) <= 1

(* No ingest request hangs: not on another transaction's row, not on the     *)
(* filter's lock, not on both.                                               *)
IngestEnds == \A q \in Request : req[q].pc # "idle" ~> req[q].pc = "idle"

=============================================================================
