------------------------------- MODULE Pollers --------------------------------
(***************************************************************************)
(* vlan-pollers: four polling loops (SNMP; PIS, APC and reservations, the  *)
(* feeds) and the station-approach watchdog, five asyncio tasks that share *)
(* one ContextState.  A loop reads its source, compares, changes the state *)
(* and POSTs a snapshot of it to fusion and then to inference; the SNMP    *)
(* loop also POSTs ALARM_ACTIVE and ALARM_CLEARED to the event store.      *)
(* Every await is a yield point.  A POST is tried MaxAttempts times with   *)
(* the same body; a try may be lost before or after the receiver acts.     *)
(*                                                                         *)
(* The sources are external and change on their own.  update_speed and     *)
(* set_door_release have no caller: the speed stays 0 and the branches on  *)
(* it are never taken.                                                     *)
(***************************************************************************)
EXTENDS Integers, Sequences, SequencesExt, FiniteSets

CONSTANTS
    Trip, Alarm,
    Counts,       \* the feeds of numbers: APC and reservations
    Schedule,     \* answers of the PIS, told apart by their arrival time
    Reading,      \* answers of APC and of the reservation system
    Days,         \* bound on days of operation
    MaxAttempts,  \* DEFAULT_RETRY's attempts
    MaxFaults,    \* bound on failed reads and tries
    MaxChanges,   \* bound on changes of the sources
    Worlds,       \* the sources to start from
    Empty, None   \* the empty string or dict; no value

ASSUME PollersAssumption ==
    /\ Counts \cap {"pis", "snmp", "watchdog"} = {}
    /\ Days \in Nat \ {0} /\ MaxAttempts \in Nat \ {0}
    /\ MaxFaults \in Nat /\ MaxChanges \in Nat
    /\ Empty \notin Schedule \cup Reading
    /\ None \notin Trip \cup Schedule \cup Reading \cup (1..Days)

Feed == {"pis"} \cup Counts
Task == Feed \cup {"snmp", "watchdog"}
Consumer == {"fusion", "inference"}

VARIABLES         \* the sources
    trip, table,  \* the SNMP agent: trip number and alarm rows
    source,       \* what each feed answers
    arrival,      \* where now lies relative to a schedule's arrival window
    day, changes, faults

VARIABLES         \* vlan-pollers
    state,        \* ContextState; "under" records the journey pis was set in (history)
    startDates,   \* JourneyTracker
    prevAlarms,   \* SnmpPoller._prev_alarms
    connected,    \* health: _snmp_connected
    snmp,         \* the SNMP loop
    fetched,      \* a feed's answer not yet applied
    alive,        \* the watchdog's task has not ended
    post          \* the POST each task awaits

VARIABLES         \* the receivers
    copy,         \* the context a consumer holds, field by field
    stored        \* the event store: the events of each alarm

VARIABLES         \* history
    ver,                   \* changes of state so far
    newest, dropped,       \* per consumer and field: the newest version delivered, and
                           \* a newer one that was given up, or 0
    overtaken,             \* per consumer: the fields whose newest value was overwritten
    used,                  \* journey ids ever set
    doubt,                 \* the last emission of an alarm ended unanswered, stored
    unanswered             \* how many emissions of an alarm ended so

world == <<trip, table, source, arrival, day, changes>>
receivers == <<copy, newest, dropped, overtaken>>
alarmLog == <<stored, doubt, unanswered>>
vars == <<world, faults, state, startDates, prevAlarms, connected, snmp, fetched, alive,
          post, receivers, alarmLog, ver, used>>

\* What decode_alarm_table makes of an alarm: no row, or none that decodes; a row
\* whose TruthValue is 1 or missing; any other row.
Row == {"absent", "active", "inactive"}
Phase == {"before", "within", "past", "unreadable"}
\* An answer that reaches the context: of a reservation payload, an object, the
\* configured cars with a number.
Answers(f) == {Empty} \cup (IF f = "pis" THEN Schedule ELSE Reading)
Journey == (Trip \X (1..Days)) \cup {Empty}

Field == {"journey", "alarms", "feed", "under", "approach"}

ContextState == [journey : Journey, alarms : [Alarm -> {"unseen", "active", "inactive"}],
                 feed : [Feed -> {Empty} \cup Schedule \cup Reading],
                 under : Journey, approach : BOOLEAN]

ContextPost == [to : Consumer, carries : {Field, {"journey", "approach"}}, body : ContextState,
                ver : Nat, tries : 1..MaxAttempts]
AlarmPost == [to : {"event-store"}, alarm : Alarm, kind : {"active", "cleared"},
              stored : BOOLEAN, tries : 1..MaxAttempts]

ASSUME WorldsAssumption ==
    /\ \A w \in Worlds : /\ w.trip \in Trip \cup {None} /\ w.table \in [Alarm -> Row]
                         /\ w.pis \in Answers("pis") /\ w.arrival \in [Schedule -> Phase]
    /\ None \notin ContextPost \cup AlarmPost

TypeOK ==
    /\ trip \in Trip \cup {None} /\ table \in [Alarm -> Row]
    /\ \A f \in Feed : source[f] \in Answers(f) /\ fetched[f] \in Answers(f) \cup {None}
    /\ arrival \in [Schedule -> Phase] /\ day \in 1..Days
    /\ state \in ContextState /\ copy \in [Consumer -> ContextState]
    /\ startDates \in [Trip -> (1..Days) \cup {None}]
    /\ prevAlarms \in [Alarm -> {"unseen", "active", "inactive"}]
    /\ snmp.at \in {"idle", "answered", "working"}
    /\ snmp.todo \subseteq Alarm /\ connected \in BOOLEAN /\ alive \in BOOLEAN
    /\ post \in [Task -> ContextPost \cup AlarmPost \cup {None}]
    /\ \A a \in Alarm : stored[a] \in Seq({"active", "cleared"})

Resting == [at |-> "idle", trip |-> None, table |-> None, todo |-> {}]
Start == [journey |-> Empty, alarms |-> [a \in Alarm |-> "unseen"],
          feed |-> [f \in Feed |-> Empty], under |-> Empty, approach |-> FALSE]
AtZero == [c \in Consumer |-> [x \in Field |-> 0]]

Init ==
    /\ \E w \in Worlds :
        /\ trip = w.trip /\ table = w.table /\ arrival = w.arrival
        /\ source = [f \in Feed |-> IF f = "pis" THEN w.pis ELSE Empty]
    /\ day = 1 /\ changes = 0 /\ faults = 0
    /\ state = Start /\ copy = [c \in Consumer |-> Start]
    /\ startDates = [t \in Trip |-> None] /\ used = {}
    /\ prevAlarms = [a \in Alarm |-> "unseen"] /\ stored = [a \in Alarm |-> <<>>]
    /\ doubt = [a \in Alarm |-> FALSE] /\ unanswered = [a \in Alarm |-> 0]
    /\ snmp = Resting /\ connected = FALSE /\ alive = TRUE
    /\ fetched = [f \in Feed |-> None] /\ post = [t \in Task |-> None]
    /\ ver = 0 /\ newest = AtZero /\ dropped = AtZero
    /\ overtaken = [c \in Consumer |-> {}]

-----------------------------------------------------------------------------
(* The sources (external). *)

TripChanges ==
    /\ \E t \in (Trip \cup {None}) \ {trip} : trip' = t
    /\ UNCHANGED <<table, source, arrival, day>>

RowChanges ==
    /\ \E a \in Alarm, r \in Row : table[a] # r /\ table' = [table EXCEPT ![a] = r]
    /\ UNCHANGED <<trip, source, arrival, day>>

SourceChanges ==
    /\ \E f \in Feed : \E v \in Answers(f) \ {source[f]} :
          source' = [source EXCEPT ![f] = v]
    /\ UNCHANGED <<trip, table, arrival, day>>

TimePasses ==
    /\ \E s \in Schedule :
        \/ arrival[s] = "before" /\ arrival' = [arrival EXCEPT ![s] = "within"]
        \/ arrival[s] = "within" /\ arrival' = [arrival EXCEPT ![s] = "past"]
    /\ UNCHANGED <<trip, table, source, day>>

Midnight == day < Days /\ day' = day + 1 /\ UNCHANGED <<trip, table, source, arrival>>

SourcesChange ==
    /\ changes < MaxChanges /\ changes' = changes + 1
    /\ TripChanges \/ RowChanges \/ SourceChanges \/ TimePasses \/ Midnight
    /\ UNCHANGED <<faults, state, startDates, prevAlarms, connected, snmp, fetched, alive,
                   post, receivers, alarmLog, ver, used>>

-----------------------------------------------------------------------------
(* ContextStateManager. *)

\* The payload is a snapshot, taken before the first await.
PushContextDelta(t, s) ==
    /\ state' = s /\ ver' = ver + 1
    /\ post' = [post EXCEPT ![t] = [to |-> "fusion", carries |-> Field, body |-> s,
                                    ver |-> ver + 1, tries |-> 1]]

\* A mutant: the schedule of the journey before stays.
UpdateJourneyKeepsPis(j) ==
    IF state.journey = j THEN UNCHANGED <<state, ver, post, used>>
    ELSE PushContextDelta("snmp", [state EXCEPT !.journey = j]) /\ used' = used \cup {j}

\* A new journey starts without a schedule.
UpdateJourney(j) ==
    IF state.journey = j THEN UNCHANGED <<state, ver, post, used>>
    ELSE /\ PushContextDelta("snmp", [state EXCEPT !.journey = j, !.feed["pis"] = Empty,
                                                   !.under = Empty])
         /\ used' = used \cup {j}

UpdateAlarm(a) ==
    LET posted == [post EXCEPT !["snmp"] = None]
    IN  IF state.alarms[a] = snmp.table[a] THEN post' = posted /\ UNCHANGED <<state, ver>>
        ELSE PushContextDelta("snmp", [state EXCEPT !.alarms[a] = snmp.table[a]])

\* Three methods of one shape: compare with what is held, replace, push.
UpdateFeed(f, v) ==
    IF state.feed[f] = v THEN UNCHANGED <<state, ver, post>>
    ELSE PushContextDelta(f, [state EXCEPT !.feed[f] = v,
                                           !.under = IF f = "pis" THEN state.journey ELSE @])

\* fusion alone is told, with the journey and nothing else of the state.
SetStationApproach(active) ==
    /\ state.approach # active
    /\ state' = [state EXCEPT !.approach = active] /\ ver' = ver + 1
    /\ post' = [post EXCEPT !["watchdog"] =
                    [to |-> "fusion", carries |-> {"journey", "approach"}, body |-> state',
                     ver |-> ver + 1, tries |-> 1]]

Later(m, n) == IF m < n THEN n ELSE m
Mark(versions, p) ==
    [versions EXCEPT ![p.to] =
        [x \in Field |-> IF x \in p.carries THEN Later(@[x], p.ver) ELSE @[x]]]

\* The fields a delivery of p finds newer than it.
Ahead(p) == {x \in p.carries : newest[p.to][x] > p.ver}

\* A consumer's POST /context: what the payload carries replaces what is held.
Deliver(p) ==
    /\ copy' = [copy EXCEPT ![p.to] =
                    [x \in Field |-> IF x \in p.carries THEN p.body[x] ELSE @[x]]]
    /\ newest' = Mark(newest, p)
    /\ overtaken' = [overtaken EXCEPT ![p.to] = (@ \ p.carries) \cup Ahead(p)]

StillDropped(versions) ==
    [c \in Consumer |-> [x \in Field |-> IF versions[c][x] > newest'[c][x] THEN versions[c][x]
                                         ELSE 0]]

\* A mutant: fusion alone is pushed to.
NextPostNone(p) == None

\* After fusion comes inference, whether fusion answered or not.
NextPost(p) ==
    IF p.carries = Field /\ p.to = "fusion" THEN [p EXCEPT !.to = "inference", !.tries = 1]
    ELSE None

\* With its last POST answered or given up and no row left, the poll ends.
PollEnds(left, next) ==
    snmp' = IF left = {} /\ next = None THEN Resting ELSE [snmp EXCEPT !.todo = left]

SnmpResumes(t, next) ==
    IF t = "snmp" THEN PollEnds(snmp.todo, next) ELSE UNCHANGED snmp

Posting(t) == post[t] # None /\ post[t].to \in Consumer

PostAnswered(t) ==
    /\ Posting(t)
    /\ Deliver(post[t]) /\ dropped' = StillDropped(dropped)
    /\ post' = [post EXCEPT ![t] = NextPost(@)] /\ SnmpResumes(t, post'[t])
    /\ UNCHANGED <<world, faults, state, startDates, prevAlarms, connected, fetched, alive,
                   alarmLog, ver, used>>

\* No answer: another try, or an exception.  A push logs it and goes on; from
\* set_station_approach it ends the watchdog.
PostLost(t, arrived) ==
    LET p == post[t]
        last == p.tries = MaxAttempts
    IN  /\ Posting(t) /\ faults < MaxFaults /\ faults' = faults + 1
        /\ IF arrived THEN Deliver(p) ELSE UNCHANGED <<copy, newest, overtaken>>
        /\ dropped' = StillDropped(IF last THEN Mark(dropped, p) ELSE dropped)
        /\ post' = [post EXCEPT ![t] = IF last THEN NextPost(p) ELSE [p EXCEPT !.tries = @ + 1]]
        /\ SnmpResumes(t, post'[t])
        /\ alive' = (alive /\ ~(last /\ t = "watchdog"))
        /\ UNCHANGED <<world, state, startDates, prevAlarms, connected, fetched, alarmLog, ver,
                       used>>

-----------------------------------------------------------------------------
(* SnmpPoller. *)

GetBulk ==
    /\ snmp.at = "idle"
    /\ snmp' = [Resting EXCEPT !.at = "answered", !.trip = trip, !.table = table]
    /\ connected' = TRUE
    /\ UNCHANGED <<world, faults, state, startDates, prevAlarms, fetched, alive, post,
                   receivers, alarmLog, ver, used>>

GetBulkFails ==
    /\ snmp.at = "idle" /\ faults < MaxFaults /\ faults' = faults + 1
    /\ connected' = FALSE
    /\ UNCHANGED <<world, state, startDates, prevAlarms, snmp, fetched, alive, post,
                   receivers, alarmLog, ver, used>>

\* The date of a trip is the day it was first seen.
GetJourneyId(t) ==
    startDates' = [startDates EXCEPT ![t] = IF @ = None THEN day ELSE @]

\* The rows that are not as _prev_alarms and the context have them, and the ones
\* that were active and are gone; the others take no await.
Present == {a \in Alarm : snmp.table[a] # "absent"}
Unsettled == {a \in Present : prevAlarms[a] # snmp.table[a] \/ state.alarms[a] # snmp.table[a]}
\* A mutant: a vanished row is forgotten.
VanishedIgnored == {}

Vanished == {a \in Alarm \ Present : prevAlarms[a] = "active"}

\* Without a trip number the answer is dropped, alarms and all.
Process ==
    /\ snmp.at = "answered"
    /\ \/ /\ snmp.trip = None /\ snmp' = Resting
          /\ UNCHANGED <<startDates, state, ver, post, used>>
       \/ /\ snmp.trip # None
          /\ GetJourneyId(snmp.trip)
          /\ UpdateJourney(<<snmp.trip, startDates'[snmp.trip]>>)
          /\ snmp' = IF Unsettled \cup Vanished = {} /\ UNCHANGED post THEN Resting
                     ELSE [snmp EXCEPT !.at = "working", !.todo = Unsettled \cup Vanished]
    /\ UNCHANGED <<world, faults, prevAlarms, connected, fetched, alive, receivers, alarmLog>>

EmitAlarmEvent(a, kind) ==
    post' = [post EXCEPT !["snmp"] = [to |-> "event-store", alarm |-> a, kind |-> kind,
                                      stored |-> FALSE, tries |-> 1]]

\* The rows of the table in any order, then the vanished ones; an event for a
\* transition, a vanished row counting as cleared.
ProcessAlarm(a) ==
    /\ snmp.at = "working" /\ post["snmp"] = None
    /\ a \in snmp.todo /\ (a \in Present \/ snmp.todo \cap Present = {})
    /\ IF prevAlarms[a] = snmp.table[a]
       THEN UpdateAlarm(a) /\ PollEnds(snmp.todo \ {a}, post'["snmp"])
       ELSE /\ EmitAlarmEvent(a, IF snmp.table[a] = "active" THEN "active" ELSE "cleared")
            /\ UNCHANGED <<snmp, state, ver>>
    /\ UNCHANGED <<world, faults, startDates, prevAlarms, connected, fetched, alive,
                   receivers, alarmLog, used>>

Emitting == post["snmp"] # None /\ post["snmp"].to = "event-store"

\* The event store keeps one event per envelope (natural key).
Store(p) ==
    stored' = IF p.stored THEN stored ELSE [stored EXCEPT ![p.alarm] = Append(@, p.kind)]

\* What follows an emission, answered or not: update_alarm for a row of the table.
EmissionEnds(a) ==
    /\ IF a \in Present THEN UpdateAlarm(a)
       ELSE post' = [post EXCEPT !["snmp"] = None] /\ UNCHANGED <<state, ver>>
    /\ PollEnds(snmp.todo \ {a}, post'["snmp"])

\* _prev_alarms moves only with an answered emission.
Remember(a) ==
    prevAlarms' = [prevAlarms EXCEPT ![a] = IF a \in Present THEN snmp.table[a] ELSE "unseen"]

EventAnswered ==
    /\ Emitting
    /\ LET p == post["snmp"]
       IN  /\ Store(p) /\ Remember(p.alarm) /\ EmissionEnds(p.alarm)
           /\ doubt' = [doubt EXCEPT ![p.alarm] = FALSE]
    /\ UNCHANGED <<world, faults, startDates, connected, fetched, alive, receivers,
                   unanswered, used>>

\* A mutant: a failed emission counts as made.
EmissionFailsRemembered(p, done) ==
    /\ p.tries = MaxAttempts
    /\ EmissionEnds(p.alarm) /\ Remember(p.alarm)
    /\ doubt' = [doubt EXCEPT ![p.alarm] = @ \/ done]
    /\ unanswered' = [unanswered EXCEPT ![p.alarm] = IF done THEN @ + 1 ELSE @]

\* Another try with the same envelope, or a failed emission: the next poll
\* compares with the same _prev_alarms again.
EmissionFails(p, done) ==
    /\ p.tries = MaxAttempts
    /\ EmissionEnds(p.alarm)
    /\ doubt' = [doubt EXCEPT ![p.alarm] = @ \/ done]
    /\ unanswered' = [unanswered EXCEPT ![p.alarm] = IF done THEN @ + 1 ELSE @]
    /\ UNCHANGED prevAlarms

EventLost(arrived) ==
    /\ Emitting /\ faults < MaxFaults /\ faults' = faults + 1
    /\ LET p == post["snmp"]
           done == p.stored \/ arrived
       IN  /\ IF arrived THEN Store(p) ELSE UNCHANGED stored
           /\ \/ /\ p.tries < MaxAttempts
                 /\ post' = [post EXCEPT !["snmp"].tries = @ + 1, !["snmp"].stored = done]
                 /\ UNCHANGED <<doubt, unanswered, prevAlarms, snmp, state, ver>>
              \/ EmissionFails(p, done)
    /\ UNCHANGED <<world, startDates, connected, fetched, alive, receivers, used>>

-----------------------------------------------------------------------------
(* The feeds and the watchdog.  A fetch that fails leaves everything as it was, *)
(* and so does one of numbers that finds what its own task last set.            *)

Fetch(f) ==
    /\ fetched[f] = None /\ post[f] = None
    /\ f \in Counts => source[f] # state.feed[f]
    /\ fetched' = [fetched EXCEPT ![f] = source[f]]
    /\ UNCHANGED <<world, faults, state, startDates, prevAlarms, connected, snmp, alive,
                   post, receivers, alarmLog, ver, used>>

Apply(f) ==
    /\ fetched[f] # None
    /\ UpdateFeed(f, fetched[f])
    /\ fetched' = [fetched EXCEPT ![f] = None]
    /\ UNCHANGED <<world, faults, startDates, prevAlarms, connected, snmp, alive, receivers,
                   alarmLog, used>>

Readable == state.feed["pis"] \notin {s \in Schedule : arrival[s] = "unreadable"}
Approaching == state.feed["pis"] \in {s \in Schedule : arrival[s] = "within"}

\* An arrival time that does not parse leaves the flag as it is.
Watchdog ==
    /\ alive /\ post["watchdog"] = None /\ Readable
    /\ SetStationApproach(Approaching)
    /\ UNCHANGED <<world, faults, startDates, prevAlarms, connected, snmp, fetched, alive,
                   receivers, alarmLog, used>>

Snmp ==
    \/ GetBulk \/ Process \/ EventAnswered
    \/ \E a \in Alarm : ProcessAlarm(a)
    \/ PostAnswered("snmp")
FeedStep(f) == Fetch(f) \/ Apply(f) \/ PostAnswered(f)
WatchdogStep == Watchdog \/ PostAnswered("watchdog")
Fault ==
    \/ GetBulkFails
    \/ \E arrived \in BOOLEAN : EventLost(arrived)
    \/ \E t \in Task, arrived \in BOOLEAN : PostLost(t, arrived)

Next == SourcesChange \/ Fault \/ Snmp \/ WatchdogStep \/ \E f \in Feed : FeedStep(f)

Spec == Init /\ [][Next]_vars

\* Each loop sleeps and polls again for as long as its task lives, and every
\* request ends, by an answer, an error or its 5 s timeout.
FairSpec ==
    Spec /\ WF_vars(Snmp) /\ WF_vars(WatchdogStep) /\ \A f \in Feed : WF_vars(FeedStep(f))

-----------------------------------------------------------------------------
(* Correctness. *)

\* Context POSTs of several tasks interleave, and none is repeated once it is
\* given up.  When none is under way a consumer holds the current value of a
\* field, or an older snapshot of another task was delivered last, or the
\* newest one was given up.  inference learns station_approach with the next
\* full push only.
CopiesCurrent ==
    (\A t \in Task : ~Posting(t)) =>
        \A c \in Consumer, x \in Field :
            \/ x = "approach" /\ c = "inference"
            \/ copy[c][x] = state[x]
            \/ x \in overtaken[c]
            \/ dropped[c][x] # 0

\* The schedule that goes with a journey was set in that journey: update_journey
\* clears the one before it (R1).  fusion is told the journey by the watchdog too,
\* so there it is so only as far as CopiesCurrent goes.
NoInheritedSchedule ==
    \A s \in {state, copy["inference"]} :
        s.feed["pis"] # Empty => s.under = s.journey

\* A trip number never has two journey ids, across midnight and across other
\* trips in between (ADR-2).
OneIdPerTrip == \A j, k \in used : j[1] = k[1] => j = k

\* Both: what is pushed as a journey is one journey, id and schedule.
JourneySound == TypeOK /\ NoInheritedSchedule /\ OneIdPerTrip

LastEvent(a) == IF stored[a] = <<>> THEN "none" ELSE Last(stored[a])

\* Between emissions _prev_alarms says what the event store was last told of an
\* alarm, unless the last emission was stored and its answer lost.
PrevMatchesStore ==
    \A a \in Alarm : doubt[a] \/ (Emitting /\ post["snmp"].alarm = a) \/
        CASE prevAlarms[a] = "active" -> LastEvent(a) = "active"
          [] prevAlarms[a] = "inactive" -> LastEvent(a) = "cleared"
          [] prevAlarms[a] = "unseen" -> LastEvent(a) # "active"

\* An ALARM_ACTIVE follows another of the same alarm only when an emission was
\* stored and never answered: "emit event only on state transition".
ActiveRepeatsNeedLostAnswers ==
    \A a \in Alarm :
        Cardinality({i \in 1..Len(stored[a]) - 1 :
                        stored[a][i] = "active" /\ stored[a][i + 1] = "active"})
            <= unanswered[a]

\* Both: the event store and _prev_alarms part only over a lost answer.
AlarmsReported == PrevMatchesStore /\ ActiveRepeatsNeedLostAnswers

\* The state is that of the sources: readiness, the journey, every feed, and the
\* approach flag while its task lives.
StateFollows ==
    /\ connected
    /\ trip # None => state.journey # Empty /\ state.journey[1] = trip
    /\ state.feed = source
    /\ alive /\ Readable => state.approach = Approaching

\* While a trip is running, every alarm row is reported as it stands and every
\* vanished one cleared, except after a lost answer.
AlarmsFollow ==
    trip # None => \A a \in Alarm :
        /\ table[a] # "absent" => prevAlarms[a] = table[a] /\ state.alarms[a] = table[a]
        /\ doubt[a] \/ (LastEvent(a) = "active") = (table[a] = "active")

\* Once the sources and the network are stable, the state and the alarms reported
\* follow them, whatever was lost before.
Settles == <>[](StateFollows /\ AlarmsFollow)
=============================================================================
