-------------------------------- MODULE Fusion --------------------------------
(***************************************************************************)
(* fusion's request handlers over the shared ContextState: POST /context   *)
(* with the suppression gate, the ramp and the station-approach edges, and *)
(* the candidate endpoints with the Coach Comfort Index.  The ledger the   *)
(* occupancy handler consults is the subject of CoachLedger.               *)
(*                                                                         *)
(* The handlers are coroutines of one thread: the one named by running     *)
(* goes on until it awaits a POST to event-store or the gate's lock.  A    *)
(* POST is retried with the same envelope and finally succeeds or raises;  *)
(* one that raises may have been stored all the same.                      *)
(***************************************************************************)
EXTENDS Integers, FiniteSets, Sequences

CONSTANTS
    Task,       \* requests in flight at once; a bound
    Journey, Car,
    Flags,      \* sets of "depot", "maintenance", "gps_invalid" a push may set
    Pct,        \* occupancies the cameras report
    Threshold,  \* comfort_index_pct_threshold
    NoJourney, NoTask, NoPct, NoOccupancy,
    MaxPushes, MaxCandidates, MaxFaults  \* bounds

ASSUME FusionAssumption ==
    /\ NoJourney \notin Journey /\ NoTask \notin Task
    /\ Pct \subseteq Int /\ NoPct \notin Pct /\ Threshold \in Nat
    /\ Flags \subseteq SUBSET {"depot", "maintenance", "gps_invalid"} /\ {} \in Flags
    /\ MaxPushes \in Nat /\ MaxCandidates \in Nat /\ MaxFaults \in Nat

VARIABLES
    ctx,           \* ContextState: journey, flags and station_approach
    prevApproach,  \* _prev_station_approach
    ramp,          \* ramp_deployed as last observed
    lastState, endedFor,  \* SuppressionGate
    lock, waiters,        \* its asyncio.Lock: holder and queue
    baseline,      \* _last_emitted_pct
    observed,      \* _observed_coaches
    running,       \* the coroutine that runs, NoTask if all await
    pc,            \* where every request stands
    arg,           \* its request, or its local state
    ended,         \* history: JOURNEY_ENDED envelopes built, per journey
    known,         \* history: occupancies seeded or published, per coach
    pushes, candidates, faults

gateVars == <<lastState, endedFor, ended>>
lockVars == <<lock, waiters>>
comfortVars == <<baseline, observed, known>>
edgeVars == <<prevApproach, ramp>>
bounds == <<pushes, candidates, faults>>
vars == <<ctx, edgeVars, gateVars, lockVars, comfortVars, running, pc, arg, bounds>>

\* A request waits for the gate's lock, or for the POST it is named after.
Posting == {"ended", "ramped", "coach", "drift", "delta", "alert"}
Local == {"gate", "ramp", "approach", "coaches", "comfort"}

Payload == [car : Car, pct : Pct]

TypeOK ==
    /\ ctx \in [journey : Journey \cup {NoJourney}, flags : Flags, approach : BOOLEAN]
    /\ prevApproach \in BOOLEAN /\ ramp \in BOOLEAN
    /\ lastState \in {"NORMAL", "GPS_INVALID", "MAINTENANCE", "DEPOT"}
    /\ endedFor \subseteq Journey /\ ended \in [Journey -> Nat]
    /\ lock \in Task \cup {NoTask} /\ waiters \in Seq(Task)
    /\ baseline \in [Car -> Pct \cup {NoPct}] /\ observed \subseteq Car
    /\ known \in [Car -> SUBSET Pct]
    /\ running \in Task \cup {NoTask}
    /\ pc \in [Task -> {"idle", "waiting"} \cup Local \cup Posting]
    /\ arg \in [Task -> [ramp : BOOLEAN, occupancy : Payload \cup {NoOccupancy},
                         rest : SUBSET Payload]]
    /\ lock # NoTask <=> \E t \in Task : pc[t] = "ended" /\ lock = t
    /\ \A t \in Task : pc[t] \in Local <=> running = t

NoArg == [ramp |-> FALSE, occupancy |-> NoOccupancy, rest |-> {}]

Init ==
    /\ ctx = [journey |-> NoJourney, flags |-> {}, approach |-> FALSE]
    /\ prevApproach = FALSE /\ ramp = FALSE
    /\ lastState = "NORMAL" /\ endedFor = {} /\ ended = [j \in Journey |-> 0]
    /\ lock = NoTask /\ waiters = << >>
    /\ baseline = [c \in Car |-> NoPct] /\ observed = {}
    /\ known = [c \in Car |-> {}]
    /\ running = NoTask
    /\ pc = [t \in Task |-> "idle"] /\ arg = [t \in Task |-> NoArg]
    /\ pushes = 0 /\ candidates = 0 /\ faults = 0

-----------------------------------------------------------------------------
(* Coroutines.                                                               *)

Evaluate ==
    IF "depot" \in ctx.flags THEN "DEPOT"
    ELSE IF "maintenance" \in ctx.flags THEN "MAINTENANCE"
    ELSE IF "gps_invalid" \in ctx.flags THEN "GPS_INVALID"
    ELSE "NORMAL"

ShouldEmit == Evaluate = "NORMAL"

\* Request t begins; nothing runs and none of its predecessors' state is left.
Begin(t, label, a) ==
    /\ running = NoTask /\ pc[t] = "idle"
    /\ running' = t
    /\ pc' = [pc EXCEPT ![t] = label]
    /\ arg' = [arg EXCEPT ![t] = a]

\* t runs on to label without awaiting anything.
Goto(t, label) ==
    /\ running' = t
    /\ pc' = [pc EXCEPT ![t] = label]

\* t awaits, or has been answered.
Yield(t, label) ==
    /\ running' = NoTask
    /\ pc' = [pc EXCEPT ![t] = label]

\* emit_envelope: without a journey_id the envelope is not built and the
\* handler goes on; otherwise the POST is awaited.
Emit(t, posting, next) ==
    /\ IF ctx.journey = NoJourney THEN Goto(t, next) ELSE Yield(t, posting)
    /\ UNCHANGED arg

Answer(t) ==
    /\ Yield(t, "idle")
    /\ arg' = [arg EXCEPT ![t] = NoArg]

-----------------------------------------------------------------------------
(* POST /context.                                                            *)

Reset ==
    /\ baseline' = [c \in Car |-> NoPct]
    /\ observed' = {}
    /\ UNCHANGED known

\* update_from_push: a push without a journey_id (NoJourney) keeps the old one.
\* Other absent fields are like a push that repeats them.
ContextPush(t, j, flags, approach, signal) ==
    /\ pushes < MaxPushes /\ pushes' = pushes + 1
    /\ ctx' = [journey |-> IF j = NoJourney THEN ctx.journey ELSE j,
               flags |-> flags, approach |-> approach]
    /\ IF ctx'.journey # ctx.journey THEN Reset ELSE UNCHANGED comfortVars
    /\ Begin(t, "gate", [NoArg EXCEPT !.ramp = signal])
    /\ UNCHANGED <<edgeVars, gateVars, lockVars, candidates, faults>>

BadObserve(t) ==
    /\ lastState' = Evaluate
    /\ IF Evaluate = "DEPOT" /\ lastState # "DEPOT" /\ ctx.journey # NoJourney
       THEN /\ endedFor' = endedFor \cup {ctx.journey}
            /\ ended' = [ended EXCEPT ![ctx.journey] = @ + 1]
            /\ lock' = t
            /\ Yield(t, "ended")
       ELSE /\ Goto(t, "ramp")
            /\ UNCHANGED <<endedFor, ended, lock>>
    /\ UNCHANGED <<ctx, edgeVars, comfortVars, arg, bounds>>

\* The body of on_context_changed.  The journey is noted as ended before the
\* POST; only that POST is awaited with the lock held.
Observe(t) ==
    /\ lastState' = Evaluate
    /\ IF /\ Evaluate = "DEPOT" /\ lastState # "DEPOT"
          /\ ctx.journey \notin endedFor \cup {NoJourney}
       THEN /\ endedFor' = endedFor \cup {ctx.journey}
            /\ ended' = [ended EXCEPT ![ctx.journey] = @ + 1]
            /\ lock' = t
            /\ Yield(t, "ended")
       ELSE /\ Goto(t, "ramp")
            /\ UNCHANGED <<endedFor, ended, lock>>
    /\ UNCHANGED <<ctx, edgeVars, comfortVars, arg, bounds>>

Acquire(t) ==
    /\ pc[t] = "gate"
    /\ lock = NoTask /\ waiters = << >>
    /\ Observe(t)
    /\ UNCHANGED waiters

Wait(t) ==
    /\ pc[t] = "gate"
    /\ lock # NoTask \/ waiters # << >>
    /\ waiters' = Append(waiters, t)
    /\ Yield(t, "waiting")
    /\ UNCHANGED <<ctx, edgeVars, gateVars, lock, comfortVars, arg, bounds>>

Wake(t) ==
    /\ running = NoTask /\ lock = NoTask
    /\ waiters # << >> /\ Head(waiters) = t
    /\ waiters' = Tail(waiters)
    /\ Observe(t)

RampEdge(t) ==
    /\ pc[t] = "ramp"
    /\ ramp' = arg[t].ramp
    /\ IF ~ramp /\ arg[t].ramp /\ ShouldEmit
       THEN Emit(t, "ramped", "approach")
       ELSE Goto(t, "approach") /\ UNCHANGED arg
    /\ UNCHANGED <<ctx, prevApproach, gateVars, lockVars, comfortVars, bounds>>

\* peek, gate, consume; the payloads are computed before the first POST.
ApproachEdge(t) ==
    /\ pc[t] = "approach"
    /\ IF ~prevApproach /\ ctx.approach /\ ShouldEmit
       THEN /\ prevApproach' = ctx.approach
            /\ Goto(t, "coaches")
            /\ arg' = [arg EXCEPT ![t].rest =
                  {[car |-> c, pct |-> baseline[c]] :
                      c \in {d \in observed : baseline[d] # NoPct}}]
       ELSE UNCHANGED prevApproach /\ Answer(t)
    /\ UNCHANGED <<ctx, ramp, gateVars, lockVars, comfortVars, bounds>>

NextCoach(t) ==
    /\ pc[t] = "coaches"
    /\ \/ /\ arg[t].rest = {} \/ ctx.journey = NoJourney
          /\ Answer(t)
       \/ /\ ctx.journey # NoJourney
          /\ \E x \in arg[t].rest :
                arg' = [arg EXCEPT ![t].rest = @ \ {x}, ![t].occupancy = x]
          /\ Yield(t, "coach")
    /\ UNCHANGED <<ctx, edgeVars, gateVars, lockVars, comfortVars, bounds>>

-----------------------------------------------------------------------------
(* The candidate endpoints.                                                  *)

Candidate == candidates < MaxCandidates /\ candidates' = candidates + 1

\* door_obstruction with the door shut, or alert_raised: gated, then emitted.
AlertCandidate(t) ==
    /\ Candidate
    /\ running = NoTask /\ pc[t] = "idle"
    /\ ShouldEmit /\ ctx.journey # NoJourney
    /\ Yield(t, "alert")
    /\ UNCHANGED <<ctx, edgeVars, gateVars, lockVars, comfortVars, arg, pushes, faults>>

\* occupancy_update: drift says whether check_drift returned an observation.
OccupancyUpdate(t, c, x, drift) ==
    /\ Candidate
    /\ running = NoTask /\ pc[t] = "idle"
    /\ arg' = [arg EXCEPT ![t].occupancy = [car |-> c, pct |-> x]]
    /\ IF drift /\ ShouldEmit /\ ctx.journey # NoJourney
       THEN Yield(t, "drift")
       ELSE Goto(t, "comfort")
    /\ UNCHANGED <<ctx, edgeVars, gateVars, lockVars, comfortVars, pushes, faults>>

Abs(n) == IF n < 0 THEN -n ELSE n

\* confirm_emit.
ConfirmEmit(x) ==
    /\ baseline' = [baseline EXCEPT ![x.car] = x.pct]
    /\ UNCHANGED observed

\* on_occupancy_update: suppressed, or seeds the baseline, or within the
\* threshold, or emits.  Without a journey_id the emit is skipped and
\* confirmed all the same.
Comfort(t) ==
    /\ pc[t] = "comfort"
    /\ LET x == arg[t].occupancy IN
       \/ /\ ~ShouldEmit
          /\ Answer(t)
          /\ UNCHANGED comfortVars
       \/ /\ ShouldEmit
          /\ observed' = observed \cup {x.car}
          /\ \/ /\ baseline[x.car] = NoPct
                /\ baseline' = [baseline EXCEPT ![x.car] = x.pct]
                /\ known' = [known EXCEPT ![x.car] = @ \cup {x.pct}]
                /\ Answer(t)
             \/ /\ baseline[x.car] # NoPct /\ Abs(x.pct - baseline[x.car]) <= Threshold
                /\ UNCHANGED <<baseline, known>>
                /\ Answer(t)
             \/ /\ baseline[x.car] # NoPct /\ Abs(x.pct - baseline[x.car]) > Threshold
                /\ UNCHANGED known
                /\ IF ctx.journey = NoJourney
                   THEN /\ baseline' = [baseline EXCEPT ![x.car] = x.pct]
                        /\ Answer(t)
                   ELSE /\ UNCHANGED baseline
                        /\ Yield(t, "delta")
                        /\ UNCHANGED arg
    /\ UNCHANGED <<ctx, edgeVars, gateVars, lockVars, bounds>>

-----------------------------------------------------------------------------
(* A POST returns and the handler goes on where it awaited it.               *)

Resume(t) ==
    \/ pc[t] = "ramped" /\ Goto(t, "approach") /\ UNCHANGED arg
    \/ pc[t] = "coach" /\ Goto(t, "coaches") /\ UNCHANGED arg
    \/ pc[t] = "drift" /\ Goto(t, "comfort") /\ UNCHANGED arg
    \/ pc[t] = "alert" /\ Answer(t)

PostReturns(t) ==
    /\ running = NoTask
    /\ \/ Resume(t) /\ UNCHANGED <<lock, comfortVars>>
       \/ /\ pc[t] = "ended"
          /\ lock' = NoTask
          /\ Goto(t, "ramp")
          /\ UNCHANGED <<comfortVars, arg>>
       \/ /\ pc[t] = "delta"
          /\ ConfirmEmit(arg[t].occupancy)
          /\ known' = [known EXCEPT ![arg[t].occupancy.car] = @ \cup {arg[t].occupancy.pct}]
          /\ Answer(t)
          /\ UNCHANGED lock
    /\ UNCHANGED <<ctx, edgeVars, gateVars, waiters, bounds>>

StuckPostFails(t) ==
    /\ running = NoTask
    /\ faults < MaxFaults /\ faults' = faults + 1
    /\ \/ Resume(t)
       \/ pc[t] \in {"ended", "delta"} /\ Answer(t)
    /\ UNCHANGED <<ctx, edgeVars, gateVars, lockVars, comfortVars, pushes, candidates>>

BadPostFails(t) ==
    /\ running = NoTask
    /\ faults < MaxFaults /\ faults' = faults + 1
    /\ \/ Resume(t) /\ UNCHANGED <<lock, baseline, observed>>
       \/ /\ pc[t] = "ended" /\ lock' = NoTask /\ Answer(t)
          /\ UNCHANGED <<baseline, observed>>
       \/ /\ pc[t] = "delta" /\ UNCHANGED lock /\ Answer(t)
          /\ ConfirmEmit(arg[t].occupancy)
    /\ UNCHANGED <<ctx, edgeVars, gateVars, waiters, known, pushes, candidates>>

\* The last attempt raised.  Only on_context_changed lets the exception
\* through: the lock is released and the rest of the push is not looked at.
PostFails(t) ==
    /\ running = NoTask
    /\ faults < MaxFaults /\ faults' = faults + 1
    /\ \/ Resume(t) /\ UNCHANGED lock
       \/ pc[t] = "ended" /\ lock' = NoTask /\ Answer(t)
       \/ pc[t] = "delta" /\ UNCHANGED lock /\ Answer(t)
    /\ UNCHANGED <<ctx, edgeVars, gateVars, waiters, comfortVars, pushes, candidates>>

-----------------------------------------------------------------------------
Step(t) ==
    \/ Acquire(t) \/ Wait(t) \/ Wake(t)
    \/ RampEdge(t) \/ ApproachEdge(t) \/ NextCoach(t) \/ Comfort(t)
    \/ PostReturns(t)

Next ==
    \E t \in Task :
        \/ \E j \in Journey \cup {NoJourney}, f \in Flags, a, s \in BOOLEAN :
              ContextPush(t, j, f, a, s)
        \/ AlertCandidate(t)
        \/ \E c \in Car, x \in Pct, d \in BOOLEAN : OccupancyUpdate(t, c, x, d)
        \/ Step(t)
        \/ PostFails(t)

Spec == Init /\ [][Next]_vars

\* The event loop runs what can run, and a POST ends, one way or the other,
\* after five attempts.
FairSpec == Spec /\ \A t \in Task : WF_vars(Step(t))

-----------------------------------------------------------------------------
(* Properties.                                                               *)

(* One JOURNEY_ENDED per journey, however /context pushes overlap while the  *)
(* gate's POST is awaited and however often the train enters the depot.      *)
JourneyEndedOnce == \A j \in Journey : ended[j] <= 1

(* AC5: the point of comparison is an occupancy that was seeded or that      *)
(* event-store has confirmed, never one whose emit failed.                   *)
BaselinePublished ==
    ctx.journey # NoJourney =>
        \A c \in Car : baseline[c] # NoPct => baseline[c] \in known[c]

(* A coach counted as observed has a baseline, so that a station-approach    *)
(* edge never has to leave one out (the case comfort_index.py calls          *)
(* defensive).                                                               *)
ObservedHaveBaseline == \A c \in observed : baseline[c] # NoPct

(* Both: whatever fails or changes during the await before confirm_emit, the *)
(* comfort index compares with published occupancies and with one for each   *)
(* observed coach.                                                           *)
BaselineSound == TypeOK /\ BaselinePublished /\ ObservedHaveBaseline

(* Every request is answered: a failing POST leaves neither the gate locked  *)
(* nor a push waiting for it.                                                *)
RequestsAnswered == \A t \in Task : pc[t] # "idle" ~> pc[t] = "idle"

=============================================================================
