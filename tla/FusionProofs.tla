----------------------------- MODULE FusionProofs -----------------------------
(***************************************************************************)
(* The two halves of fusion.  For any number of coaches, tracks, timers,   *)
(* crossings and faults: the ledger's unreconciled exits are exactly those *)
(* awaited or given up on, and an awaited exit has its timer.  For any     *)
(* number of requests in flight, journeys, cars and failed POSTs: one      *)
(* JOURNEY_ENDED per journey, and comfort-index baselines that were        *)
(* published.                                                              *)
(***************************************************************************)
EXTENDS Fusion, CoachLedger, FiniteSetTheorems, TLAPS

(* The ledger.                                                               *)

USE LedgerAssumption DEF Exit, Alarm

(* The inductive invariant.  An entry cancels by timer, a timeout drops by   *)
(* track: neither takes another track's exit from under its timer only       *)
(* because no two armed or fired timers share a handle.                      *)
TimersDistinct == \A a, b \in timers \cup fired : a.timer = b.timer => a = b

From(S, c) == {p \in S : p.from = c}

LedgerInv ==
    /\ ExitsTracked
    /\ IsFiniteSet(pending)
    /\ TimersDistinct

-----------------------------------------------------------------------------
\* At most one exit of a track is pending.
LEMMA OnePending ==
  ASSUME LedgerTypeOK, NEW t \in Track
  PROVE  \/ PendingOf(t) = {}
         \/ \E p \in pending : p.track = t /\ PendingOf(t) = {p}
  BY DEF LedgerTypeOK, PendingOf

\* Counting the exits of a coach over one more, or one less, pending exit.
LEMMA FromAdd ==
  ASSUME NEW S, IsFiniteSet(S), NEW p, p \notin S, NEW c
  PROVE  /\ Cardinality(From(S, c)) \in Nat
         /\ Cardinality(From(S \cup {p}, c)) =
              Cardinality(From(S, c)) + (IF p.from = c THEN 1 ELSE 0)
<1>1. IsFiniteSet(From(S, c))
  BY FS_Subset, From(S, c) \in SUBSET S DEF From
<1>2. Cardinality(From(S, c)) \in Nat
  BY <1>1, FS_CardinalityType
<1>3. CASE p.from = c
  <2>1. From(S \cup {p}, c) = From(S, c) \cup {p} /\ p \notin From(S, c)
    BY <1>3 DEF From
  <2> QED  BY <1>1, <1>2, <1>3, <2>1, FS_AddElement
<1>4. CASE p.from # c
  <2>1. From(S \cup {p}, c) = From(S, c)
    BY <1>4 DEF From
  <2> QED  BY <1>2, <1>4, <2>1
<1> QED  BY <1>3, <1>4

LEMMA FromRemove ==
  ASSUME NEW S, IsFiniteSet(S), NEW p \in S, NEW c
  PROVE  /\ Cardinality(From(S \ {p}, c)) \in Nat
         /\ Cardinality(From(S, c)) =
              Cardinality(From(S \ {p}, c)) + (IF p.from = c THEN 1 ELSE 0)
<1>1. IsFiniteSet(S \ {p}) /\ (S \ {p}) \cup {p} = S /\ p \notin S \ {p}
  BY FS_RemoveElement
<1> QED  BY <1>1, FromAdd

\* What a step leaves alone.
LEMMA LedgerFrame ==
  ASSUME LedgerInv
  PROVE  /\ UNCHANGED <<pending, unreconciled, unpaired>> => ExitsAccounted'
         /\ UNCHANGED timerVars => PendingWatched' /\ TimersDistinct' /\ IsFiniteSet(pending)'
  BY DEF LedgerInv, ExitsTracked, ExitsAccounted, PendingWatched, TimersDistinct, timerVars

-----------------------------------------------------------------------------
\* Nothing is awaited when fusion starts.
LEMMA LedgerInitInv == LedgerInit => LedgerInv
<1> SUFFICES ASSUME LedgerInit PROVE LedgerInv  OBVIOUS
<1>1. LedgerTypeOK /\ PendingWatched /\ TimersDistinct
  BY DEF LedgerInit, LedgerTypeOK, PendingWatched, TimersDistinct
<1>2. IsFiniteSet(pending)
  BY FS_EmptySet DEF LedgerInit
<1>3. ExitsAccounted
  <2>1. \A c : {p \in pending : p.from = c} = {}
    BY DEF LedgerInit
  <2> QED  BY <2>1, FS_EmptySet DEF LedgerInit, ExitsAccounted
<1> QED  BY <1>1, <1>2, <1>3 DEF LedgerInv, ExitsTracked

\* Steps that touch neither the pending exits nor the two counters.
LEMMA QuietInv ==
  ASSUME LedgerInv, NEW t \in Track, NEW a \in Coach, NEW b \in Coach,
         DuplicateExit(t, a, b) \/ OrphanExit(t, a, b)
  PROVE  LedgerInv'
<1>1. LedgerTypeOK'
  BY DEF LedgerInv, ExitsTracked, LedgerTypeOK, DuplicateExit, OrphanExit, Move, Fault, timerVars
<1> QED
  BY <1>1, LedgerFrame DEF LedgerInv, ExitsTracked, DuplicateExit, OrphanExit, timerVars

\* A drift correction moves counts only.
LEMMA DriftInv ==
  ASSUME LedgerInv, NEW c \in Coach, NEW n \in CameraCount, CheckDrift(c, n)
  PROVE  LedgerInv'
<1>1. count[c] - n \in Int /\ n \in Int
  BY DEF LedgerInv, ExitsTracked, LedgerTypeOK
<1>2. DriftBucket(count[c] - n) \in Int
  <2>1. PICK d \in Int : d = count[c] - n
    BY <1>1
  <2>2. PICK size \in Nat : size = IF d < 0 THEN -d ELSE d
    OBVIOUS
  <2>3. PICK k \in Int : k = size \div BucketSize
    OBVIOUS
  <2>4. DriftBucket(d) = IF size <= DriftThreshold THEN 0 ELSE IF d < 0 THEN -k ELSE k
    BY <2>2, <2>3 DEF DriftBucket
  <2> QED  BY <2>1, <2>4
<1>3. LedgerTypeOK'
  BY <1>1, <1>2 DEF LedgerInv, ExitsTracked, LedgerTypeOK, CheckDrift, Fault, timerVars
<1> QED
  BY <1>3, LedgerFrame DEF LedgerInv, ExitsTracked, CheckDrift, timerVars

\* An exit is registered with a timer nobody else has.
LEMMA WagonExitInv ==
  ASSUME LedgerInv, NEW t \in Track, NEW a \in Coach, NEW b \in Coach, WagonExit(t, a, b)
  PROVE  LedgerInv'
<1> USE DEF LedgerInv, ExitsTracked, WagonExit
<1>1. PICK k \in Idle :
        /\ timers' = timers \cup {[track |-> t, timer |-> k]}
        /\ pending' = pending \cup {[track |-> t, from |-> a, timer |-> k]}
  OBVIOUS
<1> DEFINE p == [track |-> t, from |-> a, timer |-> k]
<1>2. p \in Exit /\ p \notin pending /\ p.from = a /\ p.track = t /\ p.timer = k
  BY <1>1 DEF Idle, PendingOf
<1>3. LedgerTypeOK'
  BY <1>1, <1>2 DEF LedgerTypeOK, Move, PendingOf, Idle
<1>4. PendingWatched'
  <2>1. [track |-> p.track, timer |-> p.timer] \in timers'
    BY <1>1, <1>2
  <2>2. pending' = pending \cup {p} /\ timers \subseteq timers' /\ fired' = fired
    BY <1>1
  <2> HIDE DEF p
  <2> QED  BY <2>1, <2>2 DEF PendingWatched
<1>5. TimersDistinct'
  BY <1>1 DEF TimersDistinct, Idle, LedgerTypeOK
<1>6. IsFiniteSet(pending)'
  BY <1>1, FS_AddElement
<1>7. ExitsAccounted'
  <2> SUFFICES ASSUME NEW c \in Coach
               PROVE  unreconciled'[c] = Cardinality(From(pending', c)) + unpaired'[c]
    BY DEF ExitsAccounted, From
  <2>1. /\ Cardinality(From(pending, c)) \in Nat
        /\ Cardinality(From(pending', c)) =
             Cardinality(From(pending, c)) + (IF a = c THEN 1 ELSE 0)
    <3>1. pending' = pending \cup {p} /\ p \notin pending /\ p.from = a /\ IsFiniteSet(pending)
      BY <1>1, <1>2
    <3> HIDE DEF p
    <3> QED  BY <3>1, FromAdd
  <2>2. unreconciled[c] = Cardinality(From(pending, c)) + unpaired[c]
    BY DEF ExitsAccounted, From
  <2> QED  BY <2>1, <2>2 DEF LedgerTypeOK
<1> QED  BY <1>3, <1>4, <1>5, <1>6, <1>7

\* The write of an exit raises: counted, and given up at once.
LEMMA WagonExitUnsavedInv ==
  ASSUME LedgerInv, NEW t \in Track, NEW a \in Coach, NEW b \in Coach, WagonExitUnsaved(t, a, b)
  PROVE  LedgerInv'
<1> USE DEF LedgerInv, ExitsTracked, WagonExitUnsaved
<1>1. LedgerTypeOK'
  BY DEF LedgerTypeOK, Move, Fault, timerVars
<1>2. ExitsAccounted'
  <2> SUFFICES ASSUME NEW c \in Coach
               PROVE  unreconciled'[c] = Cardinality(From(pending', c)) + unpaired'[c]
    BY DEF ExitsAccounted, From
  <2>1. unreconciled[c] = Cardinality(From(pending, c)) + unpaired[c]
    BY DEF ExitsAccounted, From
  <2>2. Cardinality(From(pending, c)) \in Nat
    BY FS_Subset, FS_CardinalityType, From(pending, c) \in SUBSET pending DEF From
  <2> QED  BY <2>1, <2>2 DEF LedgerTypeOK, timerVars
<1> QED  BY <1>1, <1>2, LedgerFrame DEF timerVars

\* Removing the pending exit of a track: the other exits keep their timers.
LEMMA DropTrack ==
  ASSUME LedgerInv, NEW t \in Track, pending' = pending \ PendingOf(t)
  PROVE  /\ IsFiniteSet(pending)'
         /\ \A c \in Coach :
              LET one == IF \E p \in PendingOf(t) : p.from = c THEN 1 ELSE 0 IN
              /\ Cardinality(From(pending', c)) \in Nat
              /\ Cardinality(From(pending, c)) = Cardinality(From(pending', c)) + one
<1> USE DEF LedgerInv, ExitsTracked
<1>1. IsFiniteSet(pending)'
  BY FS_Difference
<1>2. CASE PendingOf(t) = {}
  <2>1. pending' = pending
    BY <1>2
  <2>2. \A c : Cardinality(From(pending, c)) \in Nat
    BY FS_Subset, FS_CardinalityType, \A c : From(pending, c) \in SUBSET pending DEF From
  <2> QED  BY <1>1, <1>2, <2>1, <2>2
<1>3. ASSUME NEW p \in pending, PendingOf(t) = {p}
      PROVE  \A c \in Coach :
              LET one == IF \E q \in PendingOf(t) : q.from = c THEN 1 ELSE 0 IN
              /\ Cardinality(From(pending', c)) \in Nat
              /\ Cardinality(From(pending, c)) = Cardinality(From(pending', c)) + one
  BY <1>3, FromRemove
<1> QED  BY <1>1, <1>2, <1>3, OnePending

\* An entry takes the exit of its track, if any, and that exit's timer.
LEMMA TakePendingKeeps ==
  ASSUME LedgerInv, NEW t \in Track, TakePending(t)
  PROVE  PendingWatched' /\ TimersDistinct'
<1> USE DEF LedgerInv, ExitsTracked, TakePending
<1>1. TimersDistinct'
  BY DEF TimersDistinct
<1>2. PendingWatched'
  <2> SUFFICES ASSUME NEW q \in pending'
               PROVE  [track |-> q.track, timer |-> q.timer] \in timers' \cup fired'
    BY DEF PendingWatched
  <2> DEFINE w == [track |-> q.track, timer |-> q.timer]
  <2>1. q \in pending /\ q.track # t /\ w \in timers \cup fired
    BY DEF PendingWatched, PendingOf
  <2>2. ASSUME NEW p \in PendingOf(t), w.timer = p.timer PROVE FALSE
    <3>1. [track |-> p.track, timer |-> p.timer] \in timers \cup fired /\ p.track = t
      BY DEF PendingWatched, PendingOf
    <3> QED  BY <2>1, <2>2, <3>1 DEF TimersDistinct
  <2> QED  BY <2>1, <2>2
<1> QED  BY <1>1, <1>2

\* An entry, saved or not: reconciled, or counted as given up.
LEMMA WagonEntryInv ==
  ASSUME LedgerInv, NEW t \in Track, NEW a \in Coach, NEW b \in Coach,
         WagonEntry(t, a, b) \/ WagonEntryUnsaved(t, a, b)
  PROVE  LedgerInv'
<1> USE DEF LedgerInv, ExitsTracked
<1>1. TakePending(t)
  BY DEF WagonEntry, WagonEntryUnsaved
<1>2. pending' = pending \ PendingOf(t)
  BY <1>1 DEF TakePending
<1>3. /\ IsFiniteSet(pending)'
      /\ \A c \in Coach :
              LET one == IF \E p \in PendingOf(t) : p.from = c THEN 1 ELSE 0 IN
              /\ Cardinality(From(pending', c)) \in Nat
              /\ Cardinality(From(pending, c)) = Cardinality(From(pending', c)) + one
  BY <1>2, DropTrack
<1>4. PendingWatched' /\ TimersDistinct'
  BY <1>1, TakePendingKeeps
<1>5. LedgerTypeOK'
  BY <1>1 DEF LedgerTypeOK, WagonEntry, WagonEntryUnsaved, TakePending, Move, Fault
<1>6. ExitsAccounted'
  <2> SUFFICES ASSUME NEW c \in Coach
               PROVE  unreconciled'[c] = Cardinality(From(pending', c)) + unpaired'[c]
    BY DEF ExitsAccounted, From
  <2>1. unreconciled[c] = Cardinality(From(pending, c)) + unpaired[c]
    BY DEF ExitsAccounted, From
  <2> QED  BY <1>3, <2>1 DEF LedgerTypeOK, WagonEntry, WagonEntryUnsaved
<1> QED  BY <1>3, <1>4, <1>5, <1>6

\* A timer that fires turns into its task.
LEMMA TimerFiresInv ==
  ASSUME LedgerInv, NEW a \in Alarm, TimerFires(a)
  PROVE  LedgerInv'
<1> USE DEF LedgerInv, ExitsTracked, TimerFires, rowVars
<1>1. LedgerTypeOK'
  BY DEF LedgerTypeOK
<1>2. timers' \cup fired' = timers \cup fired
  OBVIOUS
<1>3. PendingWatched' /\ TimersDistinct'
  BY <1>2 DEF PendingWatched, TimersDistinct
<1> QED  BY <1>1, <1>3, LedgerFrame

\* A timeout, its own or a stale one, drops the exit of its track.
LEMMA PendingTimeoutInv ==
  ASSUME LedgerInv, NEW a \in Alarm, PendingTimeout(a)
  PROVE  LedgerInv'
<1> USE DEF LedgerInv, ExitsTracked, PendingTimeout, rowVars
<1>1. LedgerTypeOK'
  BY DEF LedgerTypeOK
<1>2. /\ IsFiniteSet(pending)'
      /\ \A c \in Coach :
              LET one == IF \E p \in PendingOf(a.track) : p.from = c THEN 1 ELSE 0 IN
              /\ Cardinality(From(pending', c)) \in Nat
              /\ Cardinality(From(pending, c)) = Cardinality(From(pending', c)) + one
  BY DropTrack
<1>3. PendingWatched' /\ TimersDistinct'
  <2>1. TimersDistinct'
    BY DEF TimersDistinct
  <2>2. ASSUME NEW q \in pending'
        PROVE  [track |-> q.track, timer |-> q.timer] \in timers' \cup fired'
    <3>1. q \in pending /\ q.track # a.track
      BY DEF PendingOf
    <3>2. [track |-> q.track, timer |-> q.timer] # a
      BY <3>1
    <3> QED  BY <3>1, <3>2 DEF PendingWatched
  <2> QED  BY <2>1, <2>2 DEF PendingWatched
<1>4. ExitsAccounted'
  <2> SUFFICES ASSUME NEW c \in Coach
               PROVE  unreconciled'[c] = Cardinality(From(pending', c)) + unpaired'[c]
    BY DEF ExitsAccounted, From
  <2>1. unreconciled[c] = Cardinality(From(pending, c)) + unpaired[c]
    BY DEF ExitsAccounted, From
  <2>2. unreconciled'[c] = unreconciled[c] /\ unpaired[c] \in Nat
    BY DEF LedgerTypeOK
  <2>3. unpaired'[c] = unpaired[c] + (IF \E p \in PendingOf(a.track) : p.from = c THEN 1 ELSE 0)
    BY <2>2
  <2>4. PICK one \in {0, 1} : one = IF \E p \in PendingOf(a.track) : p.from = c THEN 1 ELSE 0
    OBVIOUS
  <2>5. /\ Cardinality(From(pending', c)) \in Nat
        /\ Cardinality(From(pending, c)) = Cardinality(From(pending', c)) + one
    BY <1>2, <2>4
  <2> QED  BY <2>1, <2>2, <2>3, <2>4, <2>5
<1> QED  BY <1>1, <1>2, <1>3, <1>4

\* After a restart nothing is awaited and both counters are zero.
LEMMA RestartInv ==
  ASSUME LedgerInv, Restart
  PROVE  LedgerInv'
<1> USE DEF Restart
<1>1. LedgerTypeOK'
  BY DEF LedgerInv, ExitsTracked, LedgerTypeOK, Fault
<1>2. PendingWatched' /\ TimersDistinct'
  BY DEF PendingWatched, TimersDistinct
<1>3. ExitsAccounted' /\ IsFiniteSet(pending)'
  <2>1. \A c : {p \in pending' : p.from = c} = {}
    OBVIOUS
  <2> QED  BY <2>1, FS_EmptySet DEF ExitsAccounted
<1> QED  BY <1>1, <1>2, <1>3 DEF LedgerInv, ExitsTracked

-----------------------------------------------------------------------------
\* Every step keeps the invariant.
LEMMA LedgerNextInv == LedgerInv /\ [LedgerNext]_ledgerVars => LedgerInv'
<1> SUFFICES ASSUME LedgerInv, [LedgerNext]_ledgerVars PROVE LedgerInv'  OBVIOUS
<1>1. ASSUME NEW t \in Track, NEW a \in Coach, NEW b \in Coach, Crossing(t, a, b)
      PROVE  LedgerInv'
  BY <1>1, QuietInv, WagonExitInv, WagonExitUnsavedInv, WagonEntryInv DEF Crossing
<1>2. CASE UNCHANGED ledgerVars
  <2>1. LedgerTypeOK'
    BY <1>2 DEF LedgerInv, ExitsTracked, LedgerTypeOK, ledgerVars, rowVars, timerVars
  <2> QED  BY <1>2, <2>1, LedgerFrame DEF LedgerInv, ExitsTracked, ledgerVars, rowVars, timerVars
<1> QED
  BY <1>1, <1>2, TimerFiresInv, PendingTimeoutInv, DriftInv, RestartInv DEF LedgerNext

(* Review P4 for every train: through timeouts, stale timers, failed writes  *)
(* and restarts an unreconciled exit is awaited, with a timer, or given up.  *)
THEOREM ExitsStayTracked == LedgerSpec => []ExitsTracked
<1>1. LedgerInv => ExitsTracked
  BY DEF LedgerInv
<1> QED
  BY <1>1, LedgerInitInv, LedgerNextInv, PTL DEF LedgerSpec

-----------------------------------------------------------------------------
(* The handlers.  Each part of the invariant is about the state one kind of  *)
(* step changes: where the requests stand and who holds the gate's lock, the *)
(* gate, and the comfort index with the journey it belongs to.               *)
USE FusionAssumption

Places == {"idle", "waiting"} \cup Local \cup Posting
Args == [ramp : BOOLEAN, occupancy : Payload \cup {NoOccupancy}, rest : SUBSET Payload]

\* The lock is held during the POST of JOURNEY_ENDED, and an occupancy is there
\* for as long as it is looked at.
ControlOK ==
    /\ running \in Task \cup {NoTask} /\ lock \in Task \cup {NoTask}
    /\ pc \in [Task -> Places] /\ arg \in [Task -> Args]
    /\ \A t \in Task :
        /\ pc[t] \in Local <=> running = t
        /\ pc[t] = "ended" <=> lock = t
        /\ pc[t] \in {"comfort", "drift", "delta"} => arg[t].occupancy \in Payload

\* An envelope built is a journey noted.
GateOK ==
    /\ lastState \in {"NORMAL", "GPS_INVALID", "MAINTENANCE", "DEPOT"}
    /\ endedFor \subseteq Journey /\ ended \in [Journey -> Nat]
    /\ \A j \in Journey : ended[j] <= 1 /\ (ended[j] # 0 => j \in endedFor)

ComfortOK ==
    /\ ctx \in [journey : Journey \cup {NoJourney}, flags : Flags, approach : BOOLEAN]
    /\ baseline \in [Car -> Pct \cup {NoPct}] /\ observed \subseteq Car
    /\ known \in [Car -> SUBSET Pct]
    /\ BaselinePublished /\ ObservedHaveBaseline

EdgesOK == prevApproach \in BOOLEAN /\ ramp \in BOOLEAN /\ waiters \in Seq(Task)

FusionInv == ControlOK /\ GateOK /\ ComfortOK /\ EdgesOK

\* Request t goes to label with the local state a.
Moved(t, label, a) ==
    /\ pc' = [pc EXCEPT ![t] = label] /\ arg' = [arg EXCEPT ![t] = a]
    /\ running' = IF label \in Local THEN t ELSE NoTask
    /\ lock' = IF label = "ended" THEN t ELSE IF lock = t THEN NoTask ELSE lock

LEMMA MoveControl ==
  ASSUME ControlOK, NEW t \in Task, NEW label \in Places, NEW a \in Args, Moved(t, label, a),
         running \in {NoTask, t}, label = "ended" => lock = NoTask,
         label \in {"comfort", "drift", "delta"} => a.occupancy \in Payload
  PROVE  ControlOK'
  <1>1. /\ pc' \in [Task -> Places] /\ arg' \in [Task -> Args]
        /\ pc'[t] = label /\ arg'[t] = a
        /\ \A s \in Task : s # t => pc'[s] = pc[s] /\ arg'[s] = arg[s]
    BY DEF ControlOK, Moved
  <1>2. running' \in Task \cup {NoTask} /\ lock' \in Task \cup {NoTask}
    BY DEF ControlOK, Moved
  <1>3. ASSUME NEW s \in Task
        PROVE  /\ pc'[s] \in Local <=> running' = s
               /\ pc'[s] = "ended" <=> lock' = s
               /\ pc'[s] \in {"comfort", "drift", "delta"} => arg'[s].occupancy \in Payload
    <2>1. CASE s = t
      BY <1>1, <2>1 DEF ControlOK, Moved
    <2>2. CASE s # t
      BY <1>1, <2>2 DEF ControlOK, Moved
    <2> QED
      BY <2>1, <2>2
  <1> QED
    BY <1>1, <1>2, <1>3 DEF ControlOK

\* A request that goes on, or awaits, as it is.
LEMMA StepControl ==
  ASSUME ControlOK, NEW t \in Task, NEW label \in Places \ {"ended"},
         (label \in Local /\ Goto(t, label)) \/ (label \notin Local /\ Yield(t, label)),
         UNCHANGED arg, running \in {NoTask, t},
         lock' = IF lock = t THEN NoTask ELSE lock,
         label \in {"comfort", "drift", "delta"} => arg[t].occupancy \in Payload
  PROVE  ControlOK'
  <1>1. PICK a \in Args : a = arg[t]
    BY DEF ControlOK
  <1>2. arg' = [arg EXCEPT ![t] = a]
    BY <1>1 DEF ControlOK
  <1>3. Moved(t, label, a)
    BY <1>2 DEF Moved, Goto, Yield
  <1> QED
    BY <1>1, <1>3, MoveControl

LEMMA AnswerControl ==
  ASSUME ControlOK, NEW t \in Task, Answer(t), running \in {NoTask, t},
         lock' = IF lock = t THEN NoTask ELSE lock
  PROVE  ControlOK'
  <1>1. NoArg \in Args /\ "idle" \in Places /\ "idle" \notin Local
    BY DEF NoArg, Args, Places, Local
  <1>2. Moved(t, "idle", NoArg)
    BY <1>1 DEF Moved, Answer, Yield
  <1> QED
    BY <1>1, <1>2, MoveControl

\* The lock is somebody else's, or nobody's, for a request that does not hold it.
LEMMA NotHolder ==
  ASSUME ControlOK, NEW t \in Task, pc[t] # "ended", UNCHANGED lock
  PROVE  lock' = IF lock = t THEN NoTask ELSE lock
  BY DEF ControlOK

-----------------------------------------------------------------------------
LEMMA ContextPushInv ==
  ASSUME FusionInv, NEW t \in Task, NEW j \in Journey \cup {NoJourney}, NEW f \in Flags,
         NEW a \in BOOLEAN, NEW s \in BOOLEAN, ContextPush(t, j, f, a, s)
  PROVE  FusionInv'
  <1>1. ControlOK'
    <2>1. PICK x \in Args : x = [NoArg EXCEPT !.ramp = s]
      BY DEF NoArg, Args
    <2>2. /\ running = NoTask /\ running' = t /\ pc' = [pc EXCEPT ![t] = "gate"]
          /\ arg' = [arg EXCEPT ![t] = x] /\ pc[t] = "idle" /\ UNCHANGED lock
      BY <2>1 DEF ContextPush, Begin, lockVars
    <2>3. Moved(t, "gate", x) /\ "gate" \in Places
      BY <2>2, NotHolder DEF FusionInv, Moved, Local, Places
    <2> QED
      BY <2>2, <2>3, MoveControl DEF FusionInv
  <1>2. ComfortOK'
    <2>1. PICK k \in Journey \cup {NoJourney} : k = IF j = NoJourney THEN ctx.journey ELSE j
      BY DEF FusionInv, ComfortOK
    <2>2. ctx' = [journey |-> k, flags |-> f, approach |-> a]
      BY <2>1 DEF ContextPush
    <2>3. /\ ctx' \in [journey : Journey \cup {NoJourney}, flags : Flags, approach : BOOLEAN]
          /\ ctx'.journey = k
      BY <2>2
    <2>4. CASE ctx'.journey # ctx.journey
      <3>1. baseline' = [c \in Car |-> NoPct] /\ observed' = {} /\ known' = known
        BY <2>4 DEF ContextPush, Reset
      <3> QED
        BY <2>3, <3>1 DEF FusionInv, ComfortOK, BaselinePublished, ObservedHaveBaseline
    <2>5. CASE ctx'.journey = ctx.journey
      <3>1. UNCHANGED <<baseline, observed, known>>
        BY <2>5 DEF ContextPush, comfortVars
      <3> QED
        BY <2>3, <2>5, <3>1 DEF FusionInv, ComfortOK, BaselinePublished, ObservedHaveBaseline
    <2> QED
      BY <2>4, <2>5
  <1>3. GateOK' /\ EdgesOK'
    BY DEF FusionInv, GateOK, EdgesOK, ContextPush, gateVars, edgeVars, lockVars
  <1> QED
    BY <1>1, <1>2, <1>3 DEF FusionInv

\* What the steps that leave the journey and the baselines alone keep.
LEMMA ComfortFrame ==
  ASSUME ComfortOK, UNCHANGED <<ctx, baseline, observed, known>> PROVE ComfortOK'
  BY DEF ComfortOK, BaselinePublished, ObservedHaveBaseline

\* The gate, with the lock free.
LEMMA ObserveInv ==
  ASSUME FusionInv, NEW t \in Task, Observe(t), lock = NoTask, running \in {NoTask, t},
         waiters' \in Seq(Task)
  PROVE  FusionInv'
  <1>1. UNCHANGED <<ctx, prevApproach, ramp, baseline, observed, known, arg>>
    BY DEF Observe, edgeVars, comfortVars
  <1>2. ComfortOK' /\ EdgesOK'
    BY <1>1, ComfortFrame DEF FusionInv, EdgesOK
  <1>3. lastState' \in {"NORMAL", "GPS_INVALID", "MAINTENANCE", "DEPOT"}
    BY DEF Observe, Evaluate
  <1>4. CASE /\ Evaluate = "DEPOT" /\ lastState # "DEPOT"
             /\ ctx.journey \notin endedFor \cup {NoJourney}
    <2>1. PICK k \in Journey : k = ctx.journey /\ k \notin endedFor
      BY <1>4 DEF FusionInv, ComfortOK
    <2>2. /\ endedFor' = endedFor \cup {k} /\ ended' = [ended EXCEPT ![k] = @ + 1]
          /\ lock' = t /\ Yield(t, "ended")
      BY <1>4, <2>1 DEF Observe
    <2>3. ended[k] = 0
      BY <2>1 DEF FusionInv, GateOK
    <2>4. ended' \in [Journey -> Nat] /\ ended'[k] = 1 /\ \A i \in Journey : i # k => ended'[i] = ended[i]
      BY <2>2, <2>3 DEF FusionInv, GateOK
    <2>5. GateOK'
      BY <1>3, <2>2, <2>4 DEF FusionInv, GateOK
    <2>6. PICK a \in Args : a = arg[t]
      BY DEF FusionInv, ControlOK
    <2>7. arg' = [arg EXCEPT ![t] = a]
      BY <1>1, <2>6 DEF FusionInv, ControlOK
    <2>8. Moved(t, "ended", a) /\ "ended" \in Places
      BY <2>2, <2>7 DEF Moved, Yield, Local, Places, Posting
    <2>9. ControlOK'
      BY <2>8, MoveControl DEF FusionInv
    <2> QED
      BY <1>2, <2>5, <2>9 DEF FusionInv
  <1>5. CASE ~ (/\ Evaluate = "DEPOT" /\ lastState # "DEPOT"
                /\ ctx.journey \notin endedFor \cup {NoJourney})
    <2>1. UNCHANGED <<endedFor, ended, lock>> /\ Goto(t, "ramp")
      BY <1>5 DEF Observe
    <2>2. GateOK'
      BY <1>3, <2>1 DEF FusionInv, GateOK
    <2>3. "ramp" \in Places \ {"ended"} /\ "ramp" \in Local
      BY DEF Places, Local
    <2>4. ControlOK'
      BY <1>1, <2>1, <2>3, StepControl DEF FusionInv
    <2> QED
      BY <1>2, <2>2, <2>4 DEF FusionInv
  <1> QED
    BY <1>4, <1>5

LEMMA LockInv ==
  ASSUME FusionInv, NEW t \in Task, Acquire(t) \/ Wait(t) \/ Wake(t) PROVE FusionInv'
  <1>1. CASE Acquire(t)
    <2>1. pc[t] \in Local
      BY <1>1 DEF Acquire, Local
    <2> QED
      BY <1>1, <2>1, ObserveInv DEF Acquire, FusionInv, EdgesOK, ControlOK
  <1>2. CASE Wait(t)
    <2>1. pc[t] = "gate" /\ Yield(t, "waiting") /\ waiters' = Append(waiters, t)
          /\ UNCHANGED <<ctx, prevApproach, ramp, lastState, endedFor, ended, lock, baseline,
                         observed, known, arg>>
      BY <1>2 DEF Wait, edgeVars, gateVars, comfortVars
    <2>2. running = t /\ "waiting" \in Places \ {"ended"} /\ "waiting" \notin Local
      BY <2>1 DEF FusionInv, ControlOK, Local, Places
    <2>3. ControlOK'
      BY <2>1, <2>2, NotHolder, StepControl DEF FusionInv
    <2>4. GateOK' /\ EdgesOK' /\ ComfortOK'
      BY <2>1, ComfortFrame DEF FusionInv, GateOK, EdgesOK
    <2> QED
      BY <2>3, <2>4 DEF FusionInv
  <1>3. CASE Wake(t)
    <2>1. waiters # <<>> /\ waiters' = Tail(waiters) /\ waiters \in Seq(Task)
      BY <1>3 DEF Wake, FusionInv, EdgesOK
    <2>2. waiters' \in Seq(Task)
      BY <2>1
    <2> QED
      BY <1>3, <2>2, ObserveInv DEF Wake
  <1> QED
    BY <1>1, <1>2, <1>3

-----------------------------------------------------------------------------
\* What a step that is not about the gate keeps.
LEMMA GateFrame ==
  ASSUME FusionInv, UNCHANGED <<lastState, endedFor, ended, waiters>>,
         prevApproach' \in BOOLEAN, ramp' \in BOOLEAN
  PROVE  GateOK' /\ EdgesOK'
  BY DEF FusionInv, GateOK, EdgesOK

LEMMA RampEdgeInv ==
  ASSUME FusionInv, NEW t \in Task, RampEdge(t) PROVE FusionInv'
  <1>1. /\ pc[t] = "ramp" /\ ramp' = arg[t].ramp /\ UNCHANGED arg
        /\ Goto(t, "approach") \/ Yield(t, "ramped")
        /\ UNCHANGED <<ctx, prevApproach, lastState, endedFor, ended, lock, waiters, baseline,
                       observed, known>>
    BY DEF RampEdge, Emit, gateVars, lockVars, comfortVars
  <1>2. running = t /\ arg[t] \in Args
    BY <1>1 DEF FusionInv, ControlOK, Local
  <1>3. /\ "approach" \in Places \ {"ended"} /\ "approach" \in Local
        /\ "ramped" \in Places \ {"ended"} /\ "ramped" \notin Local
    BY DEF Places, Local, Posting
  <1>4. lock' = IF lock = t THEN NoTask ELSE lock
    BY <1>1, NotHolder DEF FusionInv
  <1>5. ControlOK'
    BY <1>1, <1>2, <1>3, <1>4, StepControl DEF FusionInv
  <1>6. ramp' \in BOOLEAN /\ prevApproach' \in BOOLEAN
    BY <1>1, <1>2 DEF Args, FusionInv, EdgesOK
  <1>7. GateOK' /\ EdgesOK' /\ ComfortOK'
    BY <1>1, <1>6, GateFrame, ComfortFrame DEF FusionInv
  <1> QED
    BY <1>5, <1>7 DEF FusionInv

\* The payloads of a station-approach edge are occupancies: a baseline is one.
LEMMA ApproachEdgeInv ==
  ASSUME FusionInv, NEW t \in Task, ApproachEdge(t) PROVE FusionInv'
  <1>1. /\ pc[t] = "approach"
        /\ UNCHANGED <<ctx, ramp, lastState, endedFor, ended, lock, waiters, baseline, observed,
                       known>>
    BY DEF ApproachEdge, gateVars, lockVars, comfortVars
  <1>2. running = t /\ arg[t] \in Args
    BY <1>1 DEF FusionInv, ControlOK, Local
  <1>3. lock' = IF lock = t THEN NoTask ELSE lock
    BY <1>1, NotHolder DEF FusionInv
  <1>4. CASE ~prevApproach /\ ctx.approach /\ ShouldEmit
    <2>1. PICK R : R = {[car |-> c, pct |-> baseline[c]] :
                           c \in {d \in observed : baseline[d] # NoPct}}
      OBVIOUS
    <2>2. R \in SUBSET Payload
      BY <2>1 DEF FusionInv, ComfortOK, Payload
    <2>3. prevApproach' = ctx.approach /\ Goto(t, "coaches") /\ arg' = [arg EXCEPT ![t].rest = R]
      BY <1>4, <2>1 DEF ApproachEdge
    <2>4. PICK a \in Args : a = [arg[t] EXCEPT !.rest = R]
      BY <1>2, <2>2 DEF Args
    <2>5. arg' = [arg EXCEPT ![t] = a]
      BY <2>3, <2>4
    <2>6. "coaches" \in Places /\ Moved(t, "coaches", a)
      BY <1>3, <2>3, <2>5 DEF Moved, Goto, Local, Places
    <2>7. ControlOK'
      BY <1>2, <2>6, MoveControl DEF FusionInv
    <2>8. prevApproach' \in BOOLEAN /\ ramp' \in BOOLEAN
      BY <1>1, <2>3 DEF FusionInv, EdgesOK, ComfortOK
    <2> QED
      BY <1>1, <2>7, <2>8, GateFrame, ComfortFrame DEF FusionInv
  <1>5. CASE ~(~prevApproach /\ ctx.approach /\ ShouldEmit)
    <2>1. UNCHANGED prevApproach /\ Answer(t)
      BY <1>5 DEF ApproachEdge
    <2>2. ControlOK'
      BY <1>2, <1>3, <2>1, AnswerControl DEF FusionInv
    <2>3. prevApproach' \in BOOLEAN /\ ramp' \in BOOLEAN
      BY <1>1, <2>1 DEF FusionInv, EdgesOK
    <2> QED
      BY <1>1, <2>2, <2>3, GateFrame, ComfortFrame DEF FusionInv
  <1> QED
    BY <1>4, <1>5

LEMMA NextCoachInv ==
  ASSUME FusionInv, NEW t \in Task, NextCoach(t) PROVE FusionInv'
  <1>1. /\ pc[t] = "coaches"
        /\ UNCHANGED <<ctx, prevApproach, ramp, lastState, endedFor, ended, lock, waiters,
                       baseline, observed, known>>
    BY DEF NextCoach, edgeVars, gateVars, lockVars, comfortVars
  <1>2. running = t /\ arg[t] \in Args
    BY <1>1 DEF FusionInv, ControlOK, Local
  <1>3. lock' = IF lock = t THEN NoTask ELSE lock
    BY <1>1, NotHolder DEF FusionInv
  <1>4. ASSUME Answer(t) PROVE ControlOK'
    BY <1>2, <1>3, <1>4, AnswerControl DEF FusionInv
  <1>5. ASSUME Yield(t, "coach"),
               \E x \in arg[t].rest : arg' = [arg EXCEPT ![t].rest = @ \ {x}, ![t].occupancy = x]
        PROVE  ControlOK'
    <2>1. PICK x \in arg[t].rest : arg' = [arg EXCEPT ![t].rest = @ \ {x}, ![t].occupancy = x]
      BY <1>5
    <2>2. x \in Payload
      BY <1>2, <2>1 DEF Args
    <2>3. PICK a \in Args : a = [arg[t] EXCEPT !.rest = @ \ {x}, !.occupancy = x]
      BY <1>2, <2>2 DEF Args
    <2>4. arg' = [arg EXCEPT ![t] = a]
      BY <2>1, <2>3 DEF FusionInv, ControlOK
    <2>5. "coach" \in Places /\ Moved(t, "coach", a)
      BY <1>3, <1>5, <2>4 DEF Moved, Yield, Local, Places, Posting
    <2> QED
      BY <1>2, <2>5, MoveControl DEF FusionInv
  <1>6. ControlOK'
    BY <1>4, <1>5 DEF NextCoach
  <1>7. GateOK' /\ EdgesOK' /\ ComfortOK'
    BY <1>1, GateFrame, ComfortFrame DEF FusionInv, EdgesOK
  <1> QED
    BY <1>6, <1>7 DEF FusionInv

-----------------------------------------------------------------------------
LEMMA CandidateInv ==
  ASSUME FusionInv, NEW t \in Task,
         AlertCandidate(t) \/ \E c \in Car, x \in Pct, d \in BOOLEAN : OccupancyUpdate(t, c, x, d)
  PROVE  FusionInv'
  <1>1. /\ running = NoTask /\ pc[t] = "idle"
        /\ UNCHANGED <<ctx, prevApproach, ramp, lastState, endedFor, ended, lock, waiters,
                       baseline, observed, known>>
    BY DEF AlertCandidate, OccupancyUpdate, edgeVars, gateVars, lockVars, comfortVars
  <1>2. lock' = IF lock = t THEN NoTask ELSE lock
    BY <1>1, NotHolder DEF FusionInv
  <1>3. ASSUME AlertCandidate(t) PROVE ControlOK'
    <2>1. "alert" \in Places \ {"ended"} /\ "alert" \notin Local
      BY DEF Places, Local, Posting
    <2>2. Yield(t, "alert") /\ UNCHANGED arg
      BY <1>3 DEF AlertCandidate
    <2> QED
      BY <1>1, <1>2, <2>1, <2>2, StepControl DEF FusionInv
  <1>4. ASSUME NEW c \in Car, NEW x \in Pct, NEW d \in BOOLEAN, OccupancyUpdate(t, c, x, d)
        PROVE  ControlOK'
    <2>1. PICK o \in Payload : o = [car |-> c, pct |-> x]
      BY DEF Payload
    <2>2. arg[t] \in Args
      BY DEF FusionInv, ControlOK
    <2>3. PICK a : a = [arg[t] EXCEPT !.occupancy = o]
      OBVIOUS
    <2>4. a \in Args /\ a.occupancy = o
      BY <2>2, <2>3 DEF Args
    <2>5. arg' = [arg EXCEPT ![t] = a]
      BY <1>4, <2>1, <2>3 DEF OccupancyUpdate
    <2>6. PICK label \in {"drift", "comfort"} :
            IF label = "drift" THEN Yield(t, label) ELSE Goto(t, label)
      BY <1>4 DEF OccupancyUpdate
    <2>7. label \in Places /\ Moved(t, label, a) /\ label # "ended"
      BY <1>2, <2>5, <2>6 DEF Moved, Yield, Goto, Local, Places, Posting
    <2> QED
      BY <1>1, <2>1, <2>4, <2>7, MoveControl DEF FusionInv
  <1>5. ControlOK'
    BY <1>3, <1>4
  <1>6. GateOK' /\ EdgesOK' /\ ComfortOK'
    BY <1>1, GateFrame, ComfortFrame DEF FusionInv, EdgesOK
  <1> QED
    BY <1>5, <1>6 DEF FusionInv

\* A coach's baseline becomes an occupancy that is published, or nothing is.
LEMMA Rebase ==
  ASSUME ComfortOK, NEW x \in Payload, UNCHANGED ctx,
         baseline' = [baseline EXCEPT ![x.car] = x.pct],
         observed' = observed \/ observed' = observed \cup {x.car},
         \/ known' = [known EXCEPT ![x.car] = @ \cup {x.pct}]
         \/ known' = known /\ ctx.journey = NoJourney
  PROVE  ComfortOK'
  <1>1. PICK c \in Car : c = x.car
    BY DEF Payload
  <1>2. PICK p \in Pct : p = x.pct /\ p # NoPct
    BY DEF Payload
  <1>3. /\ baseline' \in [Car -> Pct \cup {NoPct}] /\ baseline'[c] = p
        /\ \A d \in Car : d # c => baseline'[d] = baseline[d]
    BY <1>1, <1>2 DEF ComfortOK
  <1>4. observed' \subseteq Car /\ observed' \subseteq observed \cup {c}
    BY <1>1 DEF ComfortOK
  <1>5. known' \in [Car -> SUBSET Pct]
        /\ \A d \in Car : known[d] \subseteq known'[d]
        /\ ctx.journey # NoJourney => p \in known'[c]
    <2>1. CASE known' = [known EXCEPT ![x.car] = @ \cup {x.pct}]
      BY <1>1, <1>2, <2>1 DEF ComfortOK
    <2>2. CASE known' = known /\ ctx.journey = NoJourney
      BY <2>2 DEF ComfortOK
    <2> QED
      BY <2>1, <2>2
  <1>6. ObservedHaveBaseline'
    BY <1>2, <1>3, <1>4 DEF ComfortOK, ObservedHaveBaseline
  <1>7. BaselinePublished'
    <2>1. ASSUME ctx.journey # NoJourney, NEW d \in Car, baseline'[d] # NoPct
          PROVE  baseline'[d] \in known'[d]
      BY <1>3, <1>5, <2>1 DEF ComfortOK, BaselinePublished
    <2> QED
      BY <2>1 DEF BaselinePublished
  <1> QED
    BY <1>3, <1>4, <1>5, <1>6, <1>7 DEF ComfortOK

\* The Coach Comfort Index: suppressed, seeding, within the threshold, emitting.
LEMMA ComfortInv ==
  ASSUME FusionInv, NEW t \in Task, Comfort(t) PROVE FusionInv'
  <1>1. /\ pc[t] = "comfort"
        /\ UNCHANGED <<ctx, prevApproach, ramp, lastState, endedFor, ended, lock, waiters>>
    BY DEF Comfort, edgeVars, gateVars, lockVars
  <1>2. running = t
    BY <1>1 DEF FusionInv, ControlOK, Local
  <1>3. PICK x \in Payload : x = arg[t].occupancy
    BY <1>1 DEF FusionInv, ControlOK
  <1>4. lock' = IF lock = t THEN NoTask ELSE lock
    BY <1>1, NotHolder DEF FusionInv
  <1>5. GateOK' /\ EdgesOK'
    BY <1>1, GateFrame DEF FusionInv, EdgesOK
  <1>6. ControlOK'
    <2>1. CASE Answer(t)
      BY <1>2, <1>4, <2>1, AnswerControl DEF FusionInv
    <2>2. CASE Yield(t, "delta") /\ UNCHANGED arg
      <3>1. "delta" \in Places \ {"ended"} /\ "delta" \notin Local
        BY DEF Places, Local, Posting
      <3> QED
        BY <1>2, <1>3, <1>4, <2>2, <3>1, StepControl DEF FusionInv
    <2> QED
      BY <2>1, <2>2 DEF Comfort
  <1>7. ComfortOK'
    <2>1. CASE UNCHANGED <<baseline, observed, known>>
      BY <1>1, <2>1, ComfortFrame DEF FusionInv
    <2>2. CASE /\ observed' = observed \cup {x.car} /\ UNCHANGED <<baseline, known>>
               /\ baseline[x.car] # NoPct
      BY <1>1, <1>3, <2>2
      DEF FusionInv, ComfortOK, Payload, ObservedHaveBaseline, BaselinePublished
    <2>3. CASE /\ observed' = observed \cup {x.car}
               /\ baseline' = [baseline EXCEPT ![x.car] = x.pct]
               /\ \/ known' = [known EXCEPT ![x.car] = @ \cup {x.pct}]
                  \/ known' = known /\ ctx.journey = NoJourney
      BY <1>1, <2>3, Rebase DEF FusionInv
    <2> QED
      BY <1>3, <2>1, <2>2, <2>3 DEF Comfort, comfortVars
  <1> QED
    BY <1>5, <1>6, <1>7 DEF FusionInv

-----------------------------------------------------------------------------
\* Where a handler goes on after a POST it does not look at.
LEMMA ResumeControl ==
  ASSUME FusionInv, NEW t \in Task, running = NoTask, Resume(t), UNCHANGED lock
  PROVE  ControlOK'
  <1>1. pc[t] # "ended"
    BY DEF Resume
  <1>2. lock' = IF lock = t THEN NoTask ELSE lock
    BY <1>1, NotHolder DEF FusionInv
  <1>3. CASE Answer(t)
    BY <1>2, <1>3, AnswerControl DEF FusionInv
  <1>4. ASSUME NEW label \in {"approach", "coaches", "comfort"}, Goto(t, label), UNCHANGED arg,
               label = "comfort" => pc[t] = "drift"
        PROVE  ControlOK'
    <2>1. label \in Places \ {"ended"} /\ label \in Local
      BY DEF Places, Local
    <2>2. label \in {"comfort", "drift", "delta"} => arg[t].occupancy \in Payload
      BY <1>4 DEF FusionInv, ControlOK
    <2> QED
      BY <1>2, <1>4, <2>1, <2>2, StepControl DEF FusionInv
  <1> QED
    BY <1>3, <1>4 DEF Resume

\* The lock is released with the POST it was held for.
LEMMA ReleaseControl ==
  ASSUME FusionInv, NEW t \in Task, running = NoTask, pc[t] = "ended", lock' = NoTask,
         Answer(t) \/ (Goto(t, "ramp") /\ UNCHANGED arg)
  PROVE  ControlOK'
  <1>1. lock' = IF lock = t THEN NoTask ELSE lock
    BY DEF FusionInv, ControlOK
  <1>2. "ramp" \in Places \ {"ended"} /\ "ramp" \in Local
    BY DEF Places, Local
  <1>3. CASE Answer(t)
    BY <1>1, <1>3, AnswerControl DEF FusionInv
  <1>4. CASE Goto(t, "ramp") /\ UNCHANGED arg
    BY <1>1, <1>2, <1>4, StepControl DEF FusionInv
  <1> QED
    BY <1>3, <1>4

LEMMA PostReturnsInv ==
  ASSUME FusionInv, NEW t \in Task, PostReturns(t) PROVE FusionInv'
  <1>1. /\ running = NoTask
        /\ UNCHANGED <<ctx, prevApproach, ramp, lastState, endedFor, ended, waiters>>
    BY DEF PostReturns, edgeVars, gateVars
  <1>2. GateOK' /\ EdgesOK'
    BY <1>1, GateFrame DEF FusionInv, EdgesOK
  <1>3. CASE Resume(t) /\ UNCHANGED <<lock, comfortVars>>
    BY <1>1, <1>2, <1>3, ResumeControl, ComfortFrame DEF FusionInv, comfortVars
  <1>4. CASE /\ pc[t] = "ended" /\ lock' = NoTask /\ Goto(t, "ramp")
             /\ UNCHANGED <<comfortVars, arg>>
    BY <1>1, <1>2, <1>4, ReleaseControl, ComfortFrame DEF FusionInv, comfortVars
  <1>5. CASE /\ pc[t] = "delta" /\ ConfirmEmit(arg[t].occupancy)
             /\ known' = [known EXCEPT ![arg[t].occupancy.car] = @ \cup {arg[t].occupancy.pct}]
             /\ Answer(t) /\ UNCHANGED lock
    <2>1. PICK x \in Payload : x = arg[t].occupancy
      BY <1>5 DEF FusionInv, ControlOK
    <2>2. /\ baseline' = [baseline EXCEPT ![x.car] = x.pct] /\ observed' = observed
          /\ known' = [known EXCEPT ![x.car] = @ \cup {x.pct}]
      BY <1>5, <2>1 DEF ConfirmEmit
    <2>3. ComfortOK'
      BY <1>1, <2>2, Rebase DEF FusionInv
    <2>4. ControlOK'
      BY <1>1, <1>5, NotHolder, AnswerControl DEF FusionInv
    <2> QED
      BY <1>2, <2>3, <2>4 DEF FusionInv
  <1> QED
    BY <1>3, <1>4, <1>5 DEF PostReturns

LEMMA PostFailsInv ==
  ASSUME FusionInv, NEW t \in Task, PostFails(t) PROVE FusionInv'
  <1>1. /\ running = NoTask
        /\ UNCHANGED <<ctx, prevApproach, ramp, lastState, endedFor, ended, waiters, baseline,
                       observed, known>>
    BY DEF PostFails, edgeVars, gateVars, comfortVars
  <1>2. GateOK' /\ EdgesOK' /\ ComfortOK'
    BY <1>1, GateFrame, ComfortFrame DEF FusionInv, EdgesOK
  <1>3. CASE Resume(t) /\ UNCHANGED lock
    BY <1>1, <1>2, <1>3, ResumeControl DEF FusionInv
  <1>4. CASE pc[t] = "ended" /\ lock' = NoTask /\ Answer(t)
    BY <1>1, <1>2, <1>4, ReleaseControl DEF FusionInv
  <1>5. CASE pc[t] = "delta" /\ UNCHANGED lock /\ Answer(t)
    BY <1>1, <1>2, <1>5, NotHolder, AnswerControl DEF FusionInv
  <1> QED
    BY <1>3, <1>4, <1>5 DEF PostFails

-----------------------------------------------------------------------------
LEMMA FusionInitInv == Init => FusionInv
<1> SUFFICES ASSUME Init PROVE FusionInv
  OBVIOUS
<1>1. NoArg \in Args
  BY DEF NoArg, Args
<1>2. ControlOK
  BY <1>1 DEF Init, ControlOK, Places, Local
<1>3. GateOK
  BY DEF Init, GateOK
<1>4. ComfortOK
  BY DEF Init, ComfortOK, BaselinePublished, ObservedHaveBaseline
<1>5. waiters \in Seq(Task)
  BY DEF Init
<1>6. EdgesOK
  BY <1>5, Zenon DEF Init, EdgesOK
<1> QED
  BY <1>2, <1>3, <1>4, <1>6 DEF FusionInv

LEMMA FusionNextInv == FusionInv /\ [Next]_vars => FusionInv'
<1> SUFFICES ASSUME FusionInv, [Next]_vars PROVE FusionInv'
  OBVIOUS
<1>1. CASE UNCHANGED vars
  <2>1. UNCHANGED <<ctx, prevApproach, ramp, lastState, endedFor, ended, lock, waiters, baseline,
                    observed, known, running, pc, arg>>
    BY <1>1 DEF vars, edgeVars, gateVars, lockVars, comfortVars
  <2>2. ControlOK'
    BY <2>1 DEF FusionInv, ControlOK
  <2> QED
    BY <2>1, <2>2, GateFrame, ComfortFrame DEF FusionInv, EdgesOK
<1>2. ASSUME NEW t \in Task, Step(t) PROVE FusionInv'
  BY <1>2, LockInv, RampEdgeInv, ApproachEdgeInv, NextCoachInv, ComfortInv, PostReturnsInv DEF Step
<1> QED
  BY <1>1, <1>2, ContextPushInv, CandidateInv, PostFailsInv DEF Next

(* However many /context pushes overlap, whatever the journeys and however   *)
(* often the depot flag comes back: the journey is noted before the POST of  *)
(* its JOURNEY_ENDED, so the envelope is built once.                         *)
THEOREM JourneysEndOnce == Spec => []JourneyEndedOnce
<1>1. FusionInv => JourneyEndedOnce
  BY DEF FusionInv, GateOK, JourneyEndedOnce
<1> QED
  BY <1>1, FusionInitInv, FusionNextInv, PTL DEF Spec

(* For every set of coaches and every interleaving of handlers, resets and   *)
(* failing POSTs the comfort index compares with a published occupancy, and  *)
(* an observed coach has one.                                                *)
THEOREM BaselinesAlwaysSound == Spec => []BaselineSound
<1>1. ASSUME FusionInv PROVE BaselineSound
  <2>1. lock # NoTask <=> \E t \in Task : pc[t] = "ended" /\ lock = t
    BY <1>1 DEF FusionInv, ControlOK
  <2>2. TypeOK
    BY <1>1, <2>1 DEF FusionInv, ControlOK, GateOK, ComfortOK, EdgesOK, TypeOK, Places, Args
  <2> QED
    BY <1>1, <2>2 DEF FusionInv, ComfortOK, BaselineSound
<1> QED
  BY <1>1, FusionInitInv, FusionNextInv, PTL DEF Spec

=============================================================================
