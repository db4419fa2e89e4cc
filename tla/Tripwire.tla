------------------------------- MODULE Tripwire -------------------------------
(***************************************************************************)
(* inference's TripwireHandler, one per gangway camera: it remembers on    *)
(* which side of the wire each track was last seen, emits a WAGON_EXIT     *)
(* (gangway-fwd) or a WAGON_ENTRY (gangway-aft) when the side changes, and *)
(* watches every forward exit with an orphan timer.                        *)
(*                                                                         *)
(* _handle_detection runs on the asyncio loop without an await up to the   *)
(* emission, so a detection is one step; the emission is one step per HTTP *)
(* request, and other detections of the same track interleave with it.     *)
(* A crossing has an identity while its emission or its timer lives, and   *)
(* carries the history of its own requests.                                *)
(***************************************************************************)
EXTENDS Integers, Sequences, SequencesExt

CONSTANTS
    Gangway, GangwayZone,  \* the gangway cameras and their "zone"
    TrackId, Seen,   \* track ids, and those the tracker of a camera gives
    Wire,            \* tripwire_polygon
    Centroid,        \* centroids a detection may have
    LastSideMax,     \* _LAST_SIDE_MAX_SIZE
    EvictCount,      \* _LAST_SIDE_MAX_SIZE // 4
    Attempts,        \* stop_after_attempt of DEFAULT_RETRY
    MaxLive,         \* bound on crossings whose emission or timer is live
    None

\* main.py and __init__ refuse a camera that is not like this (the fleet has
\* at least one gangway camera; a wire of one point puts everything on "from").
ASSUME TripwireAssumption ==
    /\ GangwayZone \in [Gangway -> {"gangway-fwd", "gangway-aft"}]
    /\ Seen \in [Gangway -> SUBSET TrackId]
    /\ Wire \in Seq(Int \X Int) /\ Centroid \subseteq Int \X Int
    /\ LastSideMax \in Nat \ {0} /\ EvictCount \in 1..LastSideMax
    /\ Attempts \in Nat \ {0} /\ MaxLive \in Nat
    /\ None \notin TrackId

Crossing == 1..MaxLive
Side == {"from", "to"}
Traversal == {"from_to", "to_from"}
Sighting == [track : TrackId, side : Side]
Emission == [cam : Gangway, track : TrackId, traversal : Traversal,
             phase : {"store", "fuse"}, left : 1..Attempts,
             \* history: records in the event store, answers of it that were
             \* lost, deliveries to fusion
             stored : Nat, lost : Nat, fused : Nat]
Handle == [cam : Gangway, track : TrackId, crossing : Crossing, stored : Nat]

VARIABLES
    lastSide,   \* _last_side of every handler, least recently seen first
    emitting,   \* the emissions in flight, by crossing
    pending,    \* _pending_exits: the crossing whose handle is kept, by track
    timers,     \* armed call_later handles
    fired       \* _handle_orphaned_exit tasks that have yet to run

VARIABLES       \* history
    balance,    \* 0 or 1 for the side a remembered track was first seen on,
                \* plus the from_to and less the to_from crossings emitted since
    recent      \* track of the last detection a handler kept

exitVars == <<emitting, pending, timers, fired>>
sideVars == <<lastSide, balance, recent>>
tripwireVars == <<exitVars, sideVars>>

TripwireTypeOK ==
    /\ lastSide \in [Gangway -> Seq(Sighting)]
    /\ \A c \in Gangway : Len(lastSide[c]) <= LastSideMax
    /\ emitting \in [Crossing -> Emission \cup {None}]
    /\ pending \in [Gangway -> [TrackId -> Crossing \cup {None}]]
    /\ timers \subseteq Handle /\ fired \subseteq Handle
    /\ balance \in [Gangway -> [TrackId -> Int]]
    /\ recent \in [Gangway -> TrackId \cup {None}]

TripwireInit ==
    /\ lastSide = [c \in Gangway |-> <<>>]
    /\ emitting = [k \in Crossing |-> None]
    /\ pending = [c \in Gangway |-> [t \in TrackId |-> None]]
    /\ timers = {} /\ fired = {}
    /\ balance = [c \in Gangway |-> [t \in TrackId |-> 0]]
    /\ recent = [c \in Gangway |-> None]

-----------------------------------------------------------------------------
(* The side of the wire.                                                     *)

\* Sign of the cross product with the first segment; on the wire is "from".
CentroidSide(p) ==
    IF Len(Wire) < 2 THEN "from"
    ELSE LET a == Wire[1]
             b == Wire[2]
             cross == (b[1] - a[1]) * (p[2] - a[2]) - (b[2] - a[2]) * (p[1] - a[1])
         IN IF cross >= 0 THEN "from" ELSE "to"

Known(c) == {lastSide[c][i].track : i \in DOMAIN lastSide[c]}
SideOf(c, t) == (CHOOSE s \in ToSet(lastSide[c]) : s.track = t).side

\* A mutant: the position in the LRU order is not refreshed.
TouchInPlace(seq, t, side) ==
    IF \E i \in DOMAIN seq : seq[i].track = t
    THEN [i \in DOMAIN seq |-> IF seq[i].track = t THEN [seq[i] EXCEPT !.side = side]
                               ELSE seq[i]]
    ELSE Append(seq, [track |-> t, side |-> side])

\* _last_side[t] = side; move_to_end(t).
Touch(seq, t, side) ==
    LET rest == IF \E i \in DOMAIN seq : seq[i].track = t
                THEN RemoveAt(seq, CHOOSE i \in DOMAIN seq : seq[i].track = t) ELSE seq
    IN Append(rest, [track |-> t, side |-> side])

\* _maybe_evict_last_side: above the maximum, the oldest quarter goes.
MaybeEvict(seq) ==
    IF Len(seq) > LastSideMax THEN SubSeq(seq, EvictCount + 1, Len(seq)) ELSE seq

Offset(side) == IF side = "to" THEN 1 ELSE 0

\* The handler of c keeps the side of t; the history of a track starts when
\* it is first seen and ends when it is evicted.
Keep(c, t, side, step) ==
    LET kept == MaybeEvict(Touch(lastSide[c], t, side))
        live == {kept[i].track : i \in DOMAIN kept}
    IN /\ lastSide' = [lastSide EXCEPT ![c] = kept]
       /\ balance' = [balance EXCEPT ![c] =
              [u \in TrackId |-> IF u \notin live THEN 0
                               ELSE IF u # t THEN @[u]
                               ELSE IF t \in Known(c) THEN @[u] + step
                               ELSE Offset(side)]]
       /\ recent' = [recent EXCEPT ![c] = t]

-----------------------------------------------------------------------------
(* process_frame and _handle_detection, up to the first await.               *)

\* First sight, or the side has not changed.
Settle(c, t, side) ==
    /\ t \in Known(c) => SideOf(c, t) = side
    /\ Keep(c, t, side, 0)
    /\ UNCHANGED exitVars

\* A mutant: the side is kept before the confidence is looked at.
SuppressLate(c, t, side) ==
    /\ t \in Known(c) /\ SideOf(c, t) # side
    /\ Keep(c, t, side, 0)
    /\ UNCHANGED exitVars

\* A crossing seen with too little confidence (P4): the side is not kept.
Suppress(c, t, side) ==
    /\ t \in Known(c) /\ SideOf(c, t) # side
    /\ UNCHANGED tripwireVars

Live == {k \in Crossing : emitting[k] # None} \cup {h.crossing : h \in timers \cup fired}

\* The identity of the next crossing.
Fresh == CHOOSE k \in Crossing \ Live : TRUE

\* A crossing: the side is kept and an emission starts.
Cross(c, t, side) ==
    /\ t \in Known(c) /\ SideOf(c, t) # side
    /\ Live # Crossing
    /\ Keep(c, t, side, IF side = "to" THEN 1 ELSE -1)
    /\ emitting' = [emitting EXCEPT ![Fresh] =
           [cam |-> c, track |-> t,
            traversal |-> IF side = "to" THEN "from_to" ELSE "to_from",
            phase |-> "store", left |-> Attempts,
            stored |-> 0, lost |-> 0, fused |-> 0]]
    /\ UNCHANGED fired

\* gangway-aft: WAGON_ENTRY.
EntryCrossing(c, t, side) ==
    /\ GangwayZone[c] = "gangway-aft"
    /\ Cross(c, t, side)
    /\ UNCHANGED <<pending, timers>>

\* gangway-fwd: WAGON_EXIT.  A from_to crossing first drops the pending exit of
\* the track and cancels its timer (P10); a to_from one has expect_orphan set.
ExitCrossing(c, t, side) ==
    /\ GangwayZone[c] = "gangway-fwd"
    /\ Cross(c, t, side)
    /\ IF side = "to"
       THEN /\ timers' = {h \in timers : ~ (h.cam = c /\ h.crossing = pending[c][t])}
            /\ pending' = [pending EXCEPT ![c][t] = None]
       ELSE UNCHANGED <<pending, timers>>

\* process_frame drops the detection when the loop is shut down: no step.
Detect(c, t, p, confident) ==
    LET side == CentroidSide(p)
    IN \/ Settle(c, t, side)
       \/ ~ confident /\ Suppress(c, t, side)
       \/ confident /\ EntryCrossing(c, t, side)
       \/ confident /\ ExitCrossing(c, t, side)

-----------------------------------------------------------------------------
(* _emit_wagon_exit and _emit_wagon_entry, retried by DEFAULT_RETRY.         *)

InPhase(k, ph) == emitting[k] # None /\ emitting[k].phase = ph

\* The attempt has failed: another one, or the emission is given up.
Failed(e) ==
    IF e.left > 1 THEN [e EXCEPT !.phase = "store", !.left = @ - 1] ELSE None

\* POST /api/v1/events.  A retry builds a new envelope, hence a new record.
StorePost(k) ==
    /\ InPhase(k, "store")
    /\ LET e == emitting[k]
           recorded == [e EXCEPT !.stored = @ + 1]
       IN \E after \in {[recorded EXCEPT !.phase = "fuse"],
                        Failed([recorded EXCEPT !.lost = @ + 1]),
                        Failed(e)} :
              emitting' = [emitting EXCEPT ![k] = after]
    /\ UNCHANGED <<pending, timers, fired, sideVars>>

\* After the emission: a from_to exit is pending and its timer is armed.
Arm(k) ==
    LET e == emitting[k]
        h == [cam |-> e.cam, track |-> e.track, crossing |-> k, stored |-> e.stored]
    IN IF e.traversal = "from_to"
       THEN /\ timers' = timers \cup {h}
            /\ pending' = [pending EXCEPT ![e.cam][e.track] = k]
       ELSE UNCHANGED <<timers, pending>>

\* A mutant: an error of fusion reaches the retry.
ExitFusedRaises(k) ==
    /\ InPhase(k, "fuse") /\ GangwayZone[emitting[k].cam] = "gangway-fwd"
    /\ \/ emitting' = [emitting EXCEPT ![k] = None] /\ Arm(k)
       \/ /\ emitting' = [emitting EXCEPT ![k] = Failed([@ EXCEPT !.fused = @ + 1])]
          /\ UNCHANGED <<timers, pending>>
    /\ UNCHANGED <<fired, sideVars>>

\* The one POST to fusion: whether it arrives and whether it is answered, the
\* emission is over.
ExitFused(k) ==
    /\ InPhase(k, "fuse") /\ GangwayZone[emitting[k].cam] = "gangway-fwd"
    /\ emitting' = [emitting EXCEPT ![k] = None]
    /\ Arm(k)
    /\ UNCHANGED <<fired, sideVars>>

EntryFused(k) ==
    /\ InPhase(k, "fuse") /\ GangwayZone[emitting[k].cam] = "gangway-aft"
    /\ emitting' = [emitting EXCEPT ![k] = None]
    /\ UNCHANGED <<pending, timers, fired, sideVars>>

FusePost(k) == ExitFused(k) \/ EntryFused(k)

-----------------------------------------------------------------------------
(* The orphan timer and the process.                                         *)

\* The callback of call_later creates the task.
TimerFires(h) ==
    /\ h \in timers
    /\ timers' = timers \ {h}
    /\ fired' = fired \cup {h}
    /\ UNCHANGED <<emitting, pending, sideVars>>

\* A mutant: the pending exit is forgotten about.
OrphanedExitKeeps(h) ==
    /\ h \in fired
    /\ fired' = fired \ {h}
    /\ UNCHANGED <<emitting, pending, timers, sideVars>>

\* _handle_orphaned_exit drops whatever exit of the track is pending, then tells
\* fusion, whose /context handler ignores the key; a failure is only logged.
OrphanedExit(h) ==
    /\ h \in fired
    /\ fired' = fired \ {h}
    /\ pending' = [pending EXCEPT ![h.cam][h.track] = None]
    /\ UNCHANGED <<emitting, timers, sideVars>>

\* The process restarts: nothing of the handlers is persisted.
Restart ==
    /\ lastSide' = [c \in Gangway |-> <<>>]
    /\ emitting' = [k \in Crossing |-> None]
    /\ pending' = [c \in Gangway |-> [t \in TrackId |-> None]]
    /\ timers' = {} /\ fired' = {}
    /\ balance' = [c \in Gangway |-> [t \in TrackId |-> 0]]
    /\ recent' = [c \in Gangway |-> None]

TripwireNext ==
    \/ \E c \in Gangway : \E t \in Seen[c], p \in Centroid, confident \in BOOLEAN :
          Detect(c, t, p, confident)
    \/ \E k \in Crossing : StorePost(k) \/ FusePost(k)
    \/ \E h \in timers : TimerFires(h)
    \/ \E h \in fired : OrphanedExit(h)
    \/ Restart

TripwireSpec == TripwireInit /\ [][TripwireNext]_tripwireVars

\* HTTP requests end (clients have timeouts), and the loop runs its timers and
\* its tasks.  Detections and restarts are owed to nobody.
TripwireFairSpec ==
    /\ TripwireSpec
    /\ \A k \in Crossing :
          /\ WF_tripwireVars(StorePost(k) \/ FusePost(k))
          /\ WF_tripwireVars(\E h \in timers : h.crossing = k /\ TimerFires(h))
          /\ WF_tripwireVars(\E h \in fired : h.crossing = k /\ OrphanedExit(h))

-----------------------------------------------------------------------------
(* Properties.                                                               *)

\* The crossings emitted for a track since it was first seen account for the
\* side it is remembered on: low-confidence frames, retries of earlier
\* emissions and concurrent emissions neither hide nor invent a crossing.
CrossingsMatchSide ==
    \A c \in Gangway : \A t \in Known(c) :
        balance[c][t] = Offset(SideOf(c, t))

\* A pending exit is watched: its own timer is armed or its task is about to
\* run, also when crossings of the track overlapped in their emissions.
PendingWatched ==
    \A c \in Gangway, t \in TrackId :
        pending[c][t] # None =>
            \E h \in timers \cup fired :
                h.cam = c /\ h.track = t /\ h.crossing = pending[c][t]

\* Only a crossing the event store has a record of is handed to fusion, timed
\* and reported as orphaned.
ReportedIsStored ==
    /\ \A k \in Crossing : InPhase(k, "fuse") => emitting[k].stored > 0
    /\ \A h \in timers \cup fired : h.stored > 0

\* A crossing has at most one record more than lost answers, and one delivered
\* to fusion is not emitted again: that fusion fails makes no second record.
CopiesNeedLostAnswers ==
    \A k \in Crossing : emitting[k] # None =>
        emitting[k].stored <= emitting[k].lost + 1 /\ emitting[k].fused = 0

\* Together: an emission, its retries and the timer it leaves behind are about a
\* crossing that is recorded, and as often as answers were lost at most.
EmissionsSound == TripwireTypeOK /\ PendingWatched /\ ReportedIsStored /\ CopiesNeedLostAnswers

\* LRU (P9): the track a handler saw last is not the one evicted by the next
\* detection.
RecentSurvives ==
    [][\A c \in Gangway :
           recent'[c] # None /\ recent[c] # None /\ EvictCount < LastSideMax =>
               \E i \in DOMAIN lastSide'[c] : lastSide'[c][i].track = recent[c]]_tripwireVars

Pending(k) == \E c \in Gangway, t \in TrackId : pending[c][t] = k

\* An emission ends, and a pending exit does not stay pending: it is superseded
\* by a later exit, reported, or forgotten in a restart.
ExitsSettle ==
    /\ \A k \in Crossing : emitting[k] # None ~> emitting[k] = None
    /\ \A k \in Crossing : Pending(k) ~> ~ Pending(k)
=============================================================================
