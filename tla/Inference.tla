------------------------------ MODULE Inference -------------------------------
(***************************************************************************)
(* inference behind the detector: the frame callback of every camera, the  *)
(* ZoneCounter's chain of POSTs, the door-obstruction counters, the budget *)
(* and the heartbeat.  The gangway cameras (tripwire.py) are left out.     *)
(*                                                                         *)
(* The streaming thread calls Frame; what it schedules on the event loop   *)
(* is taken to begin at once, because nothing it reads before its first    *)
(* await is written by that thread.  Between two awaits the chains may     *)
(* interleave more finely here than they do on the loop.  A POST returns   *)
(* or, after its last attempt, raises; it may then have been stored.       *)
(***************************************************************************)
EXTENDS Integers, FiniteSets

CONSTANTS
    Task,           \* coroutines of ZoneCounter.update; a bound
    Car, Camera, CarOf, Priority, Zone,  \* cameras.json
    VestibuleZone,  \* cameras with a vestibule polygon
    Track, Suitcase,
    Views,          \* what the cameras show, of all Detections
    RisingAt, FallingAt,  \* threshold count plus and minus the deadband
    Crowd,          \* persons above which the congestion score is too high
    MinFrames,      \* door_obstruction_min_frames
    MaxFrames, MaxFaults  \* bounds

ASSUME InferenceAssumption ==
    /\ CarOf \in [Camera -> Car]
    /\ Priority \in [Camera -> {"P1", "P2"}]
    /\ Zone \in [Camera -> {"interior", "door"}]
    /\ VestibuleZone \subseteq Camera
    /\ Suitcase \notin Track /\ Views \subseteq [Track -> {"upright", "low", "absent"}]
    /\ \A det \in Views : IsFiniteSet({t \in Track : det[t] # "absent"})
    /\ RisingAt \in Int /\ FallingAt \in Int /\ FallingAt <= RisingAt
    /\ Crowd \in Nat /\ MinFrames \in Nat \ {0}
    /\ MaxFrames \in Nat /\ MaxFaults \in Nat

VARIABLES
    throttled,  \* Budget
    count,      \* OccupancyState.occupancy_count
    dir,        \* _threshold_state
    inFlight,   \* _in_flight
    due,        \* a second has passed since _last_emit
    vestDue,    \* ten seconds have passed since _vestibule_last_emit
    boxes,      \* _track_bboxes, per camera
    chain,      \* the coroutines: where each stands, and its arguments
    hits,       \* _door_zone_hits
    suitcase,   \* a last suitcase bbox is known
    window,     \* HeartbeatEmitter._frames
    beat,       \* the heartbeat being posted, -1 if none
    recorded, acked,  \* history: frames recorded, frames of posted heartbeats
    streak,     \* history: successive frames that had the object in place
    raised,     \* history: the objects the last frame reported as obstructions
    lastSeen,   \* history: the detections of a camera's last finished update
    failed,     \* history: a POST of this car's chain has raised
    faults

beatVars == <<window, beat, recorded, acked>>
doorVars == <<hits, suitcase, streak, raised>>
zoneVars == <<count, dir, inFlight, due, vestDue, boxes, chain, lastSeen, failed>>
vars == <<throttled, zoneVars, doorVars, beatVars, faults>>

\* A person's box, as far as a fall can be told from two of them.
Box == {"upright", "low"}
Absent == "absent"
Detections == [Track -> Box \cup {Absent}]
Persons(det) == {t \in Track : det[t] # Absent}
Object == Track \cup {Suitcase}

Posting == {"occupancy", "fusion", "fired", "fall", "congested"}
Idle == [phase |-> "idle"]
Chain == [phase : Posting \cup {"slip"}, car : Car, cam : Camera,
          det : Detections, tagged : SUBSET Track, prev : Nat, todo : SUBSET Track]

TypeOK ==
    /\ throttled \in BOOLEAN
    /\ count \in [Car -> Nat]
    /\ dir \in [Car -> {"none", "rising", "falling"}]
    /\ inFlight \in [Car -> BOOLEAN] /\ due \in [Car -> BOOLEAN] /\ vestDue \in [Car -> BOOLEAN]
    /\ boxes \in [Camera -> Detections] /\ lastSeen \in [Camera -> Detections]
    /\ chain \in [Task -> Chain \cup {Idle}]
    /\ hits \in [Camera -> [Object -> 0..(MinFrames - 1)]]
    /\ suitcase \in [Camera -> BOOLEAN]
    /\ streak \in [Camera -> [Object -> 0..MinFrames]]
    /\ raised \subseteq Camera \X Object
    /\ window \in Nat /\ recorded \in 0..MaxFrames /\ acked \in Nat
    /\ beat \in Nat \cup {-1}
    /\ failed \in [Car -> SUBSET Posting]
    /\ faults \in 0..MaxFaults

NoOne == [t \in Track |-> Absent]

Init ==
    /\ throttled = FALSE
    /\ count = [c \in Car |-> 0]
    /\ dir = [c \in Car |-> "none"]
    /\ inFlight = [c \in Car |-> FALSE]
    /\ due = [c \in Car |-> TRUE] /\ vestDue = [c \in Car |-> TRUE]
    /\ boxes = [m \in Camera |-> NoOne] /\ lastSeen = [m \in Camera |-> NoOne]
    /\ chain = [t \in Task |-> Idle]
    /\ hits = [m \in Camera |-> [o \in Object |-> 0]]
    /\ suitcase = [m \in Camera |-> FALSE]
    /\ streak = [m \in Camera |-> [o \in Object |-> 0]]
    /\ raised = {}
    /\ window = 0 /\ beat = -1 /\ recorded = 0 /\ acked = 0
    /\ failed = [c \in Car |-> {}]
    /\ faults = 0

-----------------------------------------------------------------------------
(* The streaming thread.                                                     *)

ShouldProcess(m) == ~(Priority[m] = "P2" /\ throttled)

Free == {t \in Task : chain[t] = Idle}

BadUpdate(m, det, tagged) ==
    LET c == CarOf[m] IN
    IF ~due[c] THEN UNCHANGED zoneVars
    ELSE /\ Free # {}
         /\ chain' = [chain EXCEPT ![CHOOSE t \in Free : TRUE] =
               [phase |-> "occupancy", car |-> c, cam |-> m, det |-> det,
                tagged |-> tagged, prev |-> count[c], todo |-> Persons(det)]]
         /\ count' = [count EXCEPT ![c] = Cardinality(Persons(det))]
         /\ due' = [due EXCEPT ![c] = FALSE]
         /\ inFlight' = [inFlight EXCEPT ![c] = TRUE]
         /\ UNCHANGED <<dir, vestDue, boxes, lastSeen, failed>>

\* ZoneCounter.update up to its first await: a car with a chain in flight, or
\* updated less than a second ago, is skipped.  The cameras of a coach
\* overwrite one another's count.
Update(m, det, tagged) ==
    LET c == CarOf[m] IN
    IF inFlight[c] \/ ~due[c] THEN UNCHANGED zoneVars
    ELSE /\ Free # {}
         /\ chain' = [chain EXCEPT ![CHOOSE t \in Free : TRUE] =
               [phase |-> "occupancy", car |-> c, cam |-> m, det |-> det,
                tagged |-> tagged, prev |-> count[c], todo |-> Persons(det)]]
         /\ count' = [count EXCEPT ![c] = Cardinality(Persons(det))]
         /\ due' = [due EXCEPT ![c] = FALSE]
         /\ inFlight' = [inFlight EXCEPT ![c] = TRUE]
         /\ UNCHANGED <<dir, vestDue, boxes, lastSeen, failed>>

\* _handle_suitcase_door_obstruction: the first suitcase is followed by its
\* overlap with the last one; _handle_person_door_obstruction: by track_id.
\* An object that is gone, or somewhere else, starts again.
Hits(m, o, present, moved) ==
    IF ~present THEN 0
    ELSE IF o = Suitcase /\ (moved \/ ~suitcase[m]) THEN 1
    ELSE hits[m][o] + 1

Stayed(m, o, present, moved) ==
    IF ~present THEN 0
    ELSE IF moved THEN 1
    ELSE IF streak[m][o] < MinFrames THEN streak[m][o] + 1 ELSE MinFrames

DoorObstruction(m, present, moved) ==
    LET n == [o \in Object |-> Hits(m, o, o \in present, moved)]
        full == {o \in Object : n[o] >= MinFrames}
    IN  /\ hits' = [hits EXCEPT ![m] = [o \in Object |-> IF o \in full THEN 0 ELSE n[o]]]
        /\ raised' = {m} \X full
        /\ streak' = [streak EXCEPT ![m] =
              [o \in Object |-> Stayed(m, o, o \in present, moved /\ o = Suitcase)]]
        /\ suitcase' = [suitcase EXCEPT ![m] = Suitcase \in present]

\* OccupancyCallback.__call__ with the accepted detections of one frame.  Only
\* cameras with a vestibule polygon tag persons; the key is there all the same.
Frame(m, det, tagged, case, moved) ==
    /\ recorded < MaxFrames
    /\ ShouldProcess(m)
    /\ tagged \subseteq Persons(det) /\ (m \notin VestibuleZone => tagged = {})
    /\ moved => case
    /\ window' = window + 1 /\ recorded' = recorded + 1
    /\ Update(m, det, tagged)
    /\ IF Zone[m] = "door"
       THEN DoorObstruction(m, Persons(det) \cup (IF case THEN {Suitcase} ELSE {}), moved)
       ELSE ~case /\ UNCHANGED doorVars
    /\ UNCHANGED <<throttled, beat, acked, faults>>

\* POST /context.
ContextUpdate ==
    /\ throttled' = ~throttled
    /\ UNCHANGED <<zoneVars, doorVars, beatVars, faults>>

-----------------------------------------------------------------------------
(* ZoneCounter: the chain of one update.                                     *)

Elapsed(c) ==
    /\ ~due[c] /\ due' = [due EXCEPT ![c] = TRUE]
    /\ UNCHANGED <<throttled, count, dir, inFlight, vestDue, boxes, chain, lastSeen, failed,
                   doorVars, beatVars, faults>>

VestibuleElapsed(c) ==
    /\ ~vestDue[c] /\ vestDue' = [vestDue EXCEPT ![c] = TRUE]
    /\ UNCHANGED <<throttled, count, dir, inFlight, due, boxes, chain, lastSeen, failed,
                   doorVars, beatVars, faults>>

Goto(t, phase) == chain' = [chain EXCEPT ![t].phase = phase]

\* The chain ends, by its last POST or by the exception of any of them.
Finish(t) ==
    /\ chain' = [chain EXCEPT ![t] = Idle]
    /\ inFlight' = [inFlight EXCEPT ![chain[t].car] = FALSE]

OccupancyPosted(t) ==
    /\ chain[t].phase = "occupancy"
    /\ Goto(t, "fusion")
    /\ UNCHANGED <<throttled, count, dir, inFlight, due, vestDue, boxes, lastSeen, failed,
                   doorVars, beatVars, faults>>

BadCheckThreshold(t) ==
    LET c == chain[t].car  prev == chain[t].prev IN
    /\ chain[t].phase = "fusion"
    /\ IF prev < RisingAt /\ RisingAt < count[c] /\ dir[c] # "rising"
       THEN dir' = [dir EXCEPT ![c] = "rising"] /\ Goto(t, "fired")
       ELSE IF prev > FallingAt /\ FallingAt >= count[c] /\ dir[c] # "falling"
       THEN dir' = [dir EXCEPT ![c] = "falling"] /\ Goto(t, "fired")
       ELSE Goto(t, "slip") /\ UNCHANGED dir
    /\ UNCHANGED <<throttled, count, inFlight, due, vestDue, boxes, lastSeen, failed,
                   doorVars, beatVars, faults>>

\* The POST to fusion has returned or failed, which is logged and no more.
CheckThreshold(t) ==
    LET c == chain[t].car  prev == chain[t].prev IN
    /\ chain[t].phase = "fusion"
    /\ IF prev < RisingAt /\ RisingAt <= count[c] /\ dir[c] # "rising"
       THEN dir' = [dir EXCEPT ![c] = "rising"] /\ Goto(t, "fired")
       ELSE IF prev > FallingAt /\ FallingAt >= count[c] /\ dir[c] # "falling"
       THEN dir' = [dir EXCEPT ![c] = "falling"] /\ Goto(t, "fired")
       ELSE Goto(t, "slip") /\ UNCHANGED dir
    /\ UNCHANGED <<throttled, count, inFlight, due, vestDue, boxes, lastSeen, failed,
                   doorVars, beatVars, faults>>

\* _check_slip_fall looks at one person; the box is noted after the POST.
SlipStep(t) ==
    LET m == chain[t].cam  det == chain[t].det IN
    /\ chain[t].phase = "slip"
    /\ \E p \in chain[t].todo :
          IF boxes[m][p] = "upright" /\ det[p] = "low"
          THEN /\ chain' = [chain EXCEPT ![t].phase = "fall", ![t].todo = @ \ {p}]
               /\ UNCHANGED boxes
          ELSE /\ chain' = [chain EXCEPT ![t].todo = @ \ {p}]
               /\ boxes' = [boxes EXCEPT ![m][p] = det[p]]
    /\ UNCHANGED <<throttled, count, dir, inFlight, due, vestDue, lastSeen, failed,
                   doorVars, beatVars, faults>>

BadPrune(t) ==
    /\ lastSeen' = [lastSeen EXCEPT ![chain[t].cam] = chain[t].det]
    /\ UNCHANGED boxes

\* The boxes of persons who have left the frame are dropped.
Prune(t) ==
    /\ boxes' = [boxes EXCEPT ![chain[t].cam] =
          [p \in Track |-> IF chain[t].det[p] = Absent THEN Absent ELSE @[p]]]
    /\ lastSeen' = [lastSeen EXCEPT ![chain[t].cam] = chain[t].det]

\* After the last person, _check_vestibule_congestion; its rate limit is set
\* before the POST.
CheckVestibule(t) ==
    LET c == chain[t].car IN
    /\ chain[t].phase = "slip" /\ chain[t].todo = {}
    /\ Prune(t)
    /\ IF Zone[chain[t].cam] = "door" /\ Cardinality(chain[t].tagged) > Crowd /\ vestDue[c]
       THEN /\ vestDue' = [vestDue EXCEPT ![c] = FALSE]
            /\ Goto(t, "congested")
            /\ UNCHANGED inFlight
       ELSE Finish(t) /\ UNCHANGED vestDue
    /\ UNCHANGED <<throttled, count, dir, due, failed, doorVars, beatVars, faults>>

\* The POST of a threshold event, of a fall or of a congestion returns.
PostReturns(t) ==
    /\ \/ /\ chain[t].phase = "fired" /\ Goto(t, "slip")
          /\ UNCHANGED <<inFlight, boxes>>
       \/ /\ chain[t].phase = "fall"
          /\ Goto(t, "slip")
          /\ LET m == chain[t].cam  det == chain[t].det IN
             boxes' = [boxes EXCEPT ![m] =
                [p \in Track |-> IF det[p] # Absent /\ p \notin chain[t].todo THEN det[p] ELSE @[p]]]
          /\ UNCHANGED inFlight
       \/ /\ chain[t].phase = "congested" /\ Finish(t)
          /\ UNCHANGED boxes
    /\ UNCHANGED <<throttled, count, dir, due, vestDue, lastSeen, failed,
                   doorVars, beatVars, faults>>

\* The last attempt of any POST but fusion's raises: the rest is skipped.
PostRaises(t) ==
    /\ faults < MaxFaults /\ faults' = faults + 1
    /\ chain[t].phase \in Posting \ {"fusion"}
    /\ Finish(t)
    /\ failed' = [failed EXCEPT ![chain[t].car] = @ \cup {chain[t].phase}]
    /\ UNCHANGED <<throttled, count, dir, due, vestDue, boxes, lastSeen, doorVars, beatVars>>

-----------------------------------------------------------------------------
(* HeartbeatEmitter.                                                         *)

\* emit_once reads the counter under the lock ...
BeatStart ==
    /\ beat = -1 /\ beat' = window
    /\ UNCHANGED <<throttled, zoneVars, doorVars, window, recorded, acked, faults>>

BadBeatPosted ==
    /\ beat # -1 /\ beat' = -1
    /\ window' = 0 /\ acked' = acked + beat
    /\ UNCHANGED <<throttled, zoneVars, doorVars, recorded, faults>>

\* ... and takes what it has reported off it once the POST has returned.
BeatPosted ==
    /\ beat # -1 /\ beat' = -1
    /\ window' = window - beat /\ acked' = acked + beat
    /\ UNCHANGED <<throttled, zoneVars, doorVars, recorded, faults>>

BeatFails ==
    /\ beat # -1 /\ beat' = -1
    /\ faults < MaxFaults /\ faults' = faults + 1
    /\ UNCHANGED <<throttled, zoneVars, doorVars, window, recorded, acked>>

-----------------------------------------------------------------------------
ChainStep(t) ==
    \/ OccupancyPosted(t) \/ CheckThreshold(t) \/ SlipStep(t) \/ CheckVestibule(t)
    \/ PostReturns(t)

Next ==
    \/ \E m \in Camera, det \in Views, tagged \in SUBSET Track, case, moved \in BOOLEAN :
          Frame(m, det, tagged, case, moved)
    \/ ContextUpdate
    \/ \E c \in Car : Elapsed(c) \/ VestibuleElapsed(c)
    \/ \E t \in Task : ChainStep(t) \/ PostRaises(t)
    \/ BeatStart \/ BeatPosted \/ BeatFails

Spec == Init /\ [][Next]_vars

-----------------------------------------------------------------------------
(* Properties.                                                               *)

(* M4 and M9: a car has at most one chain of POSTs in flight, so that its    *)
(* envelopes leave in order and no later frame changes the count that a      *)
(* chain has yet to compare and report.                                      *)
OneChainPerCar ==
    \A t, u \in Task :
        /\ chain[t] # Idle =>
              /\ inFlight[chain[t].car]
              /\ count[chain[t].car] = Cardinality(Persons(chain[t].det))
        /\ chain[t] # Idle /\ chain[u] # Idle /\ t # u => chain[t].car # chain[u].car

(* The in-flight mark of a car is taken back whatever POST raises: while it  *)
(* is set some chain will still clear it, otherwise the car would never be   *)
(* counted again.                                                            *)
MarkHeldByChain ==
    \A c \in Car : inFlight[c] => \E t \in Task : chain[t] # Idle /\ chain[t].car = c

(* Both: the mark of a car is set exactly while its one chain runs.          *)
MarksMatchChains == TypeOK /\ OneChainPerCar /\ MarkHeldByChain

(* The last OCCUPANCY_THRESHOLD_CROSSED of a car agrees with its count: none *)
(* above the deadband without "rising", none below it with "rising", as long *)
(* as no OCCUPANCY_UPDATE of the car has failed; the failure of any other    *)
(* POST is no excuse.                                                        *)
ThresholdFollowsCount ==
    \A c \in Car : ~inFlight[c] /\ "occupancy" \notin failed[c] =>
        /\ count[c] >= RisingAt => dir[c] = "rising"
        /\ count[c] <= FallingAt => dir[c] # "rising"

(* R7: slip and fall compares a person with what the same camera saw in the  *)
(* last update it contributed, never with another camera's box or with a     *)
(* box from before the person left the frame.                                *)
BoxesOfLastUpdate ==
    \A m \in Camera : ~inFlight[CarOf[m]] /\ failed[CarOf[m]] = {} => boxes[m] = lastSeen[m]

(* An obstruction is reported only for an object that was in place in each   *)
(* of the last MinFrames frames of its camera.                               *)
ObstructionSustained == \A r \in raised : streak[r[1]][r[2]] = MinFrames

(* Both: what a detector compares with or counts is what the same camera saw *)
(* in the frames it is meant to be about.                                    *)
EvidenceFresh == BoxesOfLastUpdate /\ ObstructionSustained

(* heartbeat.py:5-7: a frame is in the window until a heartbeat that counts  *)
(* it has been posted; none is lost between the read and the subtraction,    *)
(* and none is counted twice.                                                *)
FramesAccounted == recorded = acked + window /\ beat <= window

=============================================================================
