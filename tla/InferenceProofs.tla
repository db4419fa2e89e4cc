---------------------------- MODULE InferenceProofs ---------------------------
(***************************************************************************)
(* For any number of cars, cameras, persons, frames and failed POSTs: one  *)
(* chain per marked car, threshold events that agree with the counts,      *)
(* detectors that look at what the same camera saw, and a heartbeat that   *)
(* loses no frame.  And for any number of gangways, tracks, overlapping    *)
(* emissions and retries: the crossings a trip-wire emits account for the  *)
(* side it remembers, a pending exit is watched by its own timer, only     *)
(* recorded crossings are reported, and the track seen last is not         *)
(* evicted.                                                                *)
(***************************************************************************)
EXTENDS Inference, Tripwire, FiniteSetTheorems, TLAPS

USE InferenceAssumption

Active(t) == chain[t] # Idle

-----------------------------------------------------------------------------
(* Chains and marks.  MarksMatchChains is inductive as it stands.            *)

\* A chain has a phase that Idle does not have.
LEMMA ChainFields ==
  ASSUME TypeOK, NEW t \in Task
  PROVE  /\ chain[t].phase # "idle" <=> Active(t)
         /\ Active(t) => /\ chain[t] \in Chain
                         /\ chain[t].car \in Car /\ chain[t].cam \in Camera
                         /\ chain[t].det \in Detections /\ chain[t].prev \in Nat
                         /\ chain[t].todo \in SUBSET Track
                         /\ chain[t].phase \in Posting \cup {"slip"}
  BY DEF TypeOK, Active, Idle, Chain, Posting

\* A view shows a finite number of persons.
LEMMA ViewFinite ==
  ASSUME NEW det \in Views
  PROVE  det \in Detections /\ Cardinality(Persons(det)) \in Nat
<1>1. det \in Detections
  BY DEF Detections, Box, Absent
<1>2. IsFiniteSet(Persons(det))
  BY DEF Persons, Absent
<1> QED  BY <1>1, <1>2, FS_CardinalityType

\* Update starts a chain for a car that has none, or does nothing.
LEMMA UpdateCases ==
  ASSUME TypeOK, NEW m \in Camera, NEW det \in Views, NEW tagged \in SUBSET Track,
         Update(m, det, tagged)
  PROVE  \/ UNCHANGED zoneVars
         \/ \E t \in Task :
              /\ ~ inFlight[CarOf[m]] /\ ~ Active(t)
              /\ chain' = [chain EXCEPT ![t] =
                    [phase |-> "occupancy", car |-> CarOf[m], cam |-> m, det |-> det,
                     tagged |-> tagged, prev |-> count[CarOf[m]], todo |-> Persons(det)]]
              /\ count' = [count EXCEPT ![CarOf[m]] = Cardinality(Persons(det))]
              /\ due' = [due EXCEPT ![CarOf[m]] = FALSE]
              /\ inFlight' = [inFlight EXCEPT ![CarOf[m]] = TRUE]
              /\ UNCHANGED <<dir, vestDue, boxes, lastSeen, failed>>
<1>1. CASE inFlight[CarOf[m]] \/ ~ due[CarOf[m]]
  BY <1>1 DEF Update
<1>2. CASE ~ (inFlight[CarOf[m]] \/ ~ due[CarOf[m]])
  <2> DEFINE t == CHOOSE t \in Free : TRUE
  <2>1. Free # {}
    BY <1>2 DEF Update
  <2>2. t \in Free
    BY <2>1
  <2>3. t \in Task /\ ~ Active(t)
    BY <2>2 DEF Free, Active
  <2> QED  BY <1>2, <2>3 DEF Update
<1> QED  BY <1>1, <1>2

\* The hit counters stay below the limit: one that reaches it is reset.
LEMMA DoorTypes ==
  ASSUME TypeOK, NEW m \in Camera, NEW present, NEW moved,
         DoorObstruction(m, present, moved)
  PROVE  /\ hits' \in [Camera -> [Object -> 0..(MinFrames - 1)]]
         /\ suitcase' \in [Camera -> BOOLEAN]
         /\ streak' \in [Camera -> [Object -> 0..MinFrames]]
         /\ raised' \subseteq Camera \X Object
<1> DEFINE n == [o \in Object |-> Hits(m, o, o \in present, moved)]
           full == {o \in Object : n[o] >= MinFrames}
           h == [o \in Object |-> IF o \in full THEN 0 ELSE n[o]]
           s == [o \in Object |-> Stayed(m, o, o \in present, moved /\ o = Suitcase)]
<1>1. \A o \in Object : Hits(m, o, o \in present, moved) \in Nat
  BY DEF TypeOK, Hits
<1>2. \A o \in Object : Stayed(m, o, o \in present, moved /\ o = Suitcase) \in 0..MinFrames
  BY DEF TypeOK, Stayed
<1>3. h \in [Object -> 0..(MinFrames - 1)]
  BY <1>1
<1>4. s \in [Object -> 0..MinFrames]
  BY <1>2
<1>5. /\ hits' = [hits EXCEPT ![m] = h] /\ raised' = {m} \X full
      /\ streak' = [streak EXCEPT ![m] = s]
      /\ suitcase' = [suitcase EXCEPT ![m] = Suitcase \in present]
  BY DEF DoorObstruction
<1>6. full \subseteq Object
  OBVIOUS
<1> HIDE DEF h, s, full
<1> QED  BY <1>3, <1>4, <1>5, <1>6 DEF TypeOK

\* A chain that goes on keeps its car and its detections.
LEMMA ChainGoesOn ==
  ASSUME MarksMatchChains, NEW t \in Task, Active(t), NEW x \in Chain,
         x.car = chain[t].car, x.det = chain[t].det,
         chain' = [chain EXCEPT ![t] = x], UNCHANGED <<inFlight, count>>
  PROVE  /\ chain' \in [Task -> Chain \cup {Idle}]
         /\ OneChainPerCar' /\ MarkHeldByChain'
<1>1. chain \in [Task -> Chain \cup {Idle}] /\ OneChainPerCar /\ MarkHeldByChain
  BY DEF MarksMatchChains, TypeOK
<1>2. x # Idle
  BY DEF Chain, Idle, Posting
<1>3. chain' \in [Task -> Chain \cup {Idle}]
  BY <1>1
<1>4. \A u \in Task : /\ chain'[u] # Idle <=> chain[u] # Idle
                     /\ chain'[u].car = chain[u].car
                     /\ chain'[u].det = chain[u].det
  BY <1>1, <1>2 DEF Active
<1>5. \A u \in Task : chain'[u] # Idle =>
          inFlight'[chain'[u].car] /\ count'[chain'[u].car] = Cardinality(Persons(chain'[u].det))
  BY <1>1, <1>4 DEF OneChainPerCar
<1>6. \A u, v \in Task : chain'[u] # Idle /\ chain'[v] # Idle /\ u # v =>
          chain'[u].car # chain'[v].car
  BY <1>1, <1>4 DEF OneChainPerCar
<1>7. OneChainPerCar'
  BY <1>5, <1>6, Zenon DEF OneChainPerCar
<1>8. MarkHeldByChain'
  <2> SUFFICES ASSUME NEW c \in Car, inFlight'[c]
               PROVE  \E u \in Task : chain'[u] # Idle /\ chain'[u].car = c
    BY DEF MarkHeldByChain
  <2>1. PICK u \in Task : chain[u] # Idle /\ chain[u].car = c
    BY <1>1 DEF MarkHeldByChain
  <2> QED  BY <1>4, <2>1
<1> QED  BY <1>3, <1>7, <1>8

\* A chain that ends takes the mark of its car along, and no other.
LEMMA ChainEnds ==
  ASSUME MarksMatchChains, NEW t \in Task, Active(t), Finish(t), UNCHANGED count
  PROVE  /\ chain' \in [Task -> Chain \cup {Idle}] /\ inFlight' \in [Car -> BOOLEAN]
         /\ OneChainPerCar' /\ MarkHeldByChain'
<1>0. /\ TypeOK /\ OneChainPerCar /\ MarkHeldByChain
      /\ chain \in [Task -> Chain \cup {Idle}] /\ inFlight \in [Car -> BOOLEAN]
  BY DEF MarksMatchChains, TypeOK
<1>1. chain' \in [Task -> Chain \cup {Idle}] /\ inFlight' \in [Car -> BOOLEAN]
  BY <1>0 DEF Finish
<1>2. chain[t].car \in Car
  BY <1>0, ChainFields
<1>3. \A u \in Task : chain'[u] # Idle => u # t /\ chain'[u] = chain[u]
  BY <1>0 DEF Finish
<1>4. \A u \in Task : u # t /\ chain[u] # Idle =>
          /\ chain'[u] = chain[u]
          /\ chain[u].car \in Car /\ chain[u].car # chain[t].car
  BY <1>0, ChainFields DEF Finish, OneChainPerCar, Active
<1>5. \A c \in Car : inFlight'[c] = (inFlight[c] /\ c # chain[t].car)
  BY <1>0 DEF Finish
<1>6. \A u \in Task : chain'[u] # Idle =>
          inFlight'[chain'[u].car] /\ count'[chain'[u].car] = Cardinality(Persons(chain'[u].det))
  <2> SUFFICES ASSUME NEW u \in Task, chain'[u] # Idle
               PROVE  inFlight'[chain[u].car] /\ count[chain[u].car] = Cardinality(Persons(chain[u].det))
    BY <1>3
  <2>1. u # t /\ chain[u] # Idle
    BY <1>3
  <2> QED  BY <1>0, <1>4, <1>5, <2>1 DEF OneChainPerCar
<1>7. \A u, v \in Task : chain'[u] # Idle /\ chain'[v] # Idle /\ u # v =>
          chain'[u].car # chain'[v].car
  BY <1>0, <1>3 DEF OneChainPerCar
<1>8. OneChainPerCar'
  BY <1>6, <1>7, Zenon DEF OneChainPerCar
<1>9. MarkHeldByChain'
  <2> SUFFICES ASSUME NEW c \in Car, inFlight'[c]
               PROVE  \E u \in Task : chain'[u] # Idle /\ chain'[u].car = c
    BY DEF MarkHeldByChain
  <2>1. PICK u \in Task : chain[u] # Idle /\ chain[u].car = c
    BY <1>0, <1>5 DEF MarkHeldByChain
  <2> QED  BY <1>4, <1>5, <2>1
<1> QED  BY <1>1, <1>8, <1>9

LEMMA MarksFrame ==
  ASSUME OneChainPerCar, MarkHeldByChain, UNCHANGED <<chain, inFlight, count>>
  PROVE  OneChainPerCar' /\ MarkHeldByChain'
  BY DEF OneChainPerCar, MarkHeldByChain

\* A new chain is the only one of its car.
LEMMA FrameMarks ==
  ASSUME MarksMatchChains,
         NEW m \in Camera, NEW det \in Views, NEW tagged \in SUBSET Track,
         NEW case \in BOOLEAN, NEW moved \in BOOLEAN, Frame(m, det, tagged, case, moved)
  PROVE  MarksMatchChains'
<1> DEFINE c == CarOf[m]
           x == [phase |-> "occupancy", car |-> c, cam |-> m, det |-> det,
                 tagged |-> tagged, prev |-> count[c], todo |-> Persons(det)]
<1> USE DEF MarksMatchChains
<1>1. Update(m, det, tagged)
  BY DEF Frame
<1>2. det \in Detections /\ Cardinality(Persons(det)) \in Nat
  BY ViewFinite
<1>3. /\ hits' \in [Camera -> [Object -> 0..(MinFrames - 1)]]
      /\ suitcase' \in [Camera -> BOOLEAN]
      /\ streak' \in [Camera -> [Object -> 0..MinFrames]]
      /\ raised' \subseteq Camera \X Object
  <2> DEFINE present == Persons(det) \cup (IF case THEN {Suitcase} ELSE {})
  <2>2. CASE Zone[m] = "door"
    <3>1. DoorObstruction(m, present, moved)
      BY <2>2 DEF Frame
    <3>2. TypeOK
      OBVIOUS
    <3> HIDE DEF present, MarksMatchChains
    <3> QED  BY <3>1, <3>2, DoorTypes
  <2>3. CASE Zone[m] # "door"
    BY <2>3 DEF Frame, doorVars, TypeOK
  <2> QED  BY <2>2, <2>3
<1>4. CASE UNCHANGED zoneVars
  <2>1. TypeOK'
    BY <1>3, <1>4 DEF TypeOK, Frame, zoneVars
  <2>2. UNCHANGED <<chain, inFlight, count>>
    BY <1>4 DEF zoneVars
  <2>3. OneChainPerCar' /\ MarkHeldByChain'
    BY <2>2, MarksFrame
  <2> QED  BY <2>1, <2>3
<1>5. ASSUME NEW t \in Task, ~ inFlight[c], ~ Active(t),
             chain' = [chain EXCEPT ![t] = x],
             count' = [count EXCEPT ![c] = Cardinality(Persons(det))],
             due' = [due EXCEPT ![c] = FALSE],
             inFlight' = [inFlight EXCEPT ![c] = TRUE],
             UNCHANGED <<dir, vestDue, boxes, lastSeen, failed>>
      PROVE  MarksMatchChains'
  <2>1. x \in Chain
    BY <1>2 DEF Chain, Posting, Persons, TypeOK
  <2>2. x.car = c /\ x.det = det /\ x # Idle /\ c \in Car
    BY DEF Idle
  <2> HIDE DEF x, c
  <2>3. TypeOK'
    BY <1>2, <1>3, <1>5, <2>1, <2>2 DEF TypeOK, Frame
  <2>4. \A u \in Task : u # t => chain'[u] = chain[u]
    BY <1>5 DEF TypeOK
  <2>5. chain'[t] = x
    BY <1>5 DEF TypeOK
  <2>6. \A u \in Task : chain[u] # Idle => chain[u].car \in Car /\ chain[u].car # c
    BY <1>5, ChainFields DEF OneChainPerCar, Active
  <2>7. \A u \in Task : chain'[u] # Idle =>
          inFlight'[chain'[u].car] /\ count'[chain'[u].car] = Cardinality(Persons(chain'[u].det))
    <3>1. inFlight'[c] /\ count'[c] = Cardinality(Persons(det))
      BY <1>5, <2>2 DEF TypeOK
    <3>2. ASSUME NEW u \in Task, u # t, chain[u] # Idle
          PROVE  /\ inFlight'[chain[u].car]
                 /\ count'[chain[u].car] = Cardinality(Persons(chain[u].det))
      BY <1>5, <2>6, <3>2 DEF OneChainPerCar, TypeOK
    <3> QED  BY <2>2, <2>4, <2>5, <3>1, <3>2
  <2>8. \A u, v \in Task : chain'[u] # Idle /\ chain'[v] # Idle /\ u # v =>
          chain'[u].car # chain'[v].car
    BY <2>2, <2>4, <2>5, <2>6 DEF OneChainPerCar
  <2>9. OneChainPerCar'
    BY <2>7, <2>8, Zenon DEF OneChainPerCar
  <2>10. MarkHeldByChain'
    BY <1>5, <2>2, <2>4, <2>5 DEF MarkHeldByChain, TypeOK, Active
  <2> QED  BY <2>3, <2>9, <2>10
<1> QED  BY <1>1, <1>4, <1>5, UpdateCases

\* Every step of a chain, the last one included.
LEMMA ChainMarks ==
  ASSUME MarksMatchChains, NEW t \in Task, ChainStep(t) \/ PostRaises(t)
  PROVE  MarksMatchChains'
<1> USE DEF MarksMatchChains
<1>1. Active(t)
  BY ChainFields DEF ChainStep, OccupancyPosted, CheckThreshold, SlipStep, CheckVestibule,
                     PostReturns, PostRaises, Posting
<1>2. /\ chain[t] \in Chain /\ chain[t].car \in Car /\ chain[t].cam \in Camera
      /\ chain[t].det \in Detections /\ chain[t].todo \in SUBSET Track
      /\ chain[t].phase \in Posting \cup {"slip"}
  BY <1>1, ChainFields
<1>3. ASSUME NEW phase \in Posting \cup {"slip"}, Goto(t, phase), UNCHANGED <<inFlight, count>>
      PROVE  chain' \in [Task -> Chain \cup {Idle}] /\ OneChainPerCar' /\ MarkHeldByChain'
  <2> DEFINE x == [chain[t] EXCEPT !.phase = phase]
  <2>1. x \in Chain /\ x.car = chain[t].car /\ x.det = chain[t].det
    BY <1>2 DEF Chain
  <2>2. chain' = [chain EXCEPT ![t] = x]
    BY <1>3 DEF Goto
  <2> QED  BY <1>1, <1>3, <2>1, <2>2, ChainGoesOn
<1>4. CASE OccupancyPosted(t)
  BY <1>3, <1>4 DEF OccupancyPosted, TypeOK, Posting, doorVars, beatVars
<1>5. CASE CheckThreshold(t)
  <2>1. \E phase \in {"fired", "slip"} : Goto(t, phase)
    BY <1>5 DEF CheckThreshold
  <2>2. chain' \in [Task -> Chain \cup {Idle}] /\ OneChainPerCar' /\ MarkHeldByChain'
    BY <1>3, <1>5, <2>1 DEF CheckThreshold, Posting
  <2>3. dir' \in [Car -> {"none", "rising", "falling"}]
    BY <1>2, <1>5 DEF CheckThreshold, TypeOK
  <2> QED  BY <1>5, <2>2, <2>3 DEF CheckThreshold, TypeOK, doorVars, beatVars
<1>6. CASE SlipStep(t)
  <2> USE DEF SlipStep
  <2>1. PICK p \in chain[t].todo :
          \/ /\ chain' = [chain EXCEPT ![t].phase = "fall", ![t].todo = @ \ {p}]
             /\ UNCHANGED boxes
          \/ /\ chain' = [chain EXCEPT ![t].todo = @ \ {p}]
             /\ boxes' = [boxes EXCEPT ![chain[t].cam][p] = chain[t].det[p]]
    BY <1>6
  <2> DEFINE x == [chain[t] EXCEPT !.phase = "fall", !.todo = @ \ {p}]
             y == [chain[t] EXCEPT !.todo = @ \ {p}]
  <2>2. /\ x \in Chain /\ x.car = chain[t].car /\ x.det = chain[t].det
        /\ y \in Chain /\ y.car = chain[t].car /\ y.det = chain[t].det
    BY <1>2 DEF Chain, Posting
  <2>3. chain' = [chain EXCEPT ![t] = x] \/ chain' = [chain EXCEPT ![t] = y]
    BY <2>1
  <2> HIDE DEF x, y
  <2>4. chain' \in [Task -> Chain \cup {Idle}] /\ OneChainPerCar' /\ MarkHeldByChain'
    BY <1>1, <1>6, <2>2, <2>3, ChainGoesOn
  <2>5. boxes' \in [Camera -> Detections]
    <3>1. /\ boxes \in [Camera -> [Track -> Box \cup {Absent}]] /\ p \in Track
          /\ chain[t].det[p] \in Box \cup {Absent}
      BY <1>2 DEF TypeOK, Detections
    <3>2. boxes' = boxes \/ boxes' = [boxes EXCEPT ![chain[t].cam][p] = chain[t].det[p]]
      BY <2>1
    <3> HIDE DEF MarksMatchChains, SlipStep
    <3> QED  BY <1>2, <3>1, <3>2 DEF Detections
  <2> QED  BY <1>6, <2>4, <2>5 DEF TypeOK, doorVars, beatVars
<1>7. CASE CheckVestibule(t)
  <2>1. boxes' \in [Camera -> Detections] /\ lastSeen' \in [Camera -> Detections]
    BY <1>2, <1>7 DEF CheckVestibule, Prune, TypeOK, Detections
  <2>2. vestDue' \in [Car -> BOOLEAN]
    BY <1>2, <1>7 DEF CheckVestibule, TypeOK
  <2>3. /\ chain' \in [Task -> Chain \cup {Idle}] /\ inFlight' \in [Car -> BOOLEAN]
        /\ OneChainPerCar' /\ MarkHeldByChain'
    <3>1. CASE Finish(t)
      BY <1>1, <1>7, <3>1, ChainEnds DEF CheckVestibule
    <3>2. CASE Goto(t, "congested") /\ UNCHANGED inFlight
      BY <1>3, <1>7, <3>2 DEF CheckVestibule, TypeOK, Posting
    <3> QED  BY <1>7, <3>1, <3>2 DEF CheckVestibule
  <2> QED  BY <1>7, <2>1, <2>2, <2>3 DEF CheckVestibule, TypeOK, doorVars, beatVars
<1>8. CASE PostReturns(t)
  <2>1. boxes' \in [Camera -> Detections]
    <3>1. CASE UNCHANGED boxes
      BY <3>1 DEF TypeOK
    <3>2. CASE boxes' = [boxes EXCEPT ![chain[t].cam] =
                [p \in Track |-> IF chain[t].det[p] # Absent /\ p \notin chain[t].todo
                                 THEN chain[t].det[p] ELSE @[p]]]
      BY <1>2, <3>2 DEF TypeOK, Detections
    <3> QED  BY <1>8, <3>1, <3>2 DEF PostReturns
  <2>2. /\ chain' \in [Task -> Chain \cup {Idle}] /\ inFlight' \in [Car -> BOOLEAN]
        /\ OneChainPerCar' /\ MarkHeldByChain'
    <3>1. CASE Finish(t)
      BY <1>1, <1>8, <3>1, ChainEnds DEF PostReturns
    <3>2. CASE Goto(t, "slip") /\ UNCHANGED inFlight
      BY <1>3, <1>8, <3>2 DEF PostReturns, TypeOK
    <3> QED  BY <1>8, <3>1, <3>2 DEF PostReturns
  <2> QED  BY <1>8, <2>1, <2>2 DEF PostReturns, TypeOK, doorVars, beatVars
<1>9. CASE PostRaises(t)
  <2>1. /\ chain' \in [Task -> Chain \cup {Idle}] /\ inFlight' \in [Car -> BOOLEAN]
        /\ OneChainPerCar' /\ MarkHeldByChain'
    BY <1>1, <1>9, ChainEnds DEF PostRaises
  <2>2. failed' \in [Car -> SUBSET Posting] /\ faults' \in 0..MaxFaults
    BY <1>2, <1>9 DEF PostRaises, TypeOK
  <2> QED  BY <1>9, <2>1, <2>2 DEF PostRaises, TypeOK, doorVars, beatVars
<1> QED  BY <1>4, <1>5, <1>6, <1>7, <1>8, <1>9 DEF ChainStep

\* The clocks, the budget and the heartbeat touch neither chain nor mark.
LEMMA RestMarks ==
  ASSUME MarksMatchChains, FramesAccounted,
         \/ ContextUpdate \/ BeatStart \/ BeatPosted \/ BeatFails \/ UNCHANGED vars
         \/ \E c \in Car : Elapsed(c) \/ VestibuleElapsed(c)
  PROVE  MarksMatchChains'
<1> USE DEF MarksMatchChains
<1>1. UNCHANGED <<chain, inFlight, count>>
  BY DEF ContextUpdate, BeatStart, BeatPosted, BeatFails, Elapsed, VestibuleElapsed, vars, zoneVars
<1>2. OneChainPerCar' /\ MarkHeldByChain'
  BY <1>1 DEF OneChainPerCar, MarkHeldByChain
<1>3. TypeOK'
  <2>1. CASE ContextUpdate \/ \E c \in Car : Elapsed(c) \/ VestibuleElapsed(c)
    BY <2>1 DEF TypeOK, ContextUpdate, Elapsed, VestibuleElapsed, zoneVars, doorVars, beatVars
  <2>2. CASE BeatStart \/ BeatFails
    BY <2>2 DEF TypeOK, BeatStart, BeatFails, zoneVars, doorVars, FramesAccounted
  <2>3. CASE BeatPosted
    BY <2>3 DEF TypeOK, BeatPosted, zoneVars, doorVars, FramesAccounted
  <2>4. CASE UNCHANGED vars
    BY <2>4 DEF TypeOK, vars, zoneVars, doorVars, beatVars
  <2> QED  BY <2>1, <2>2, <2>3, <2>4
<1> QED  BY <1>2, <1>3

-----------------------------------------------------------------------------
(* Frames.                                                                   *)

\* A heartbeat subtracts what it has reported, whatever was recorded meanwhile.
LEMMA NextFrames ==
  ASSUME TypeOK, FramesAccounted, [Next]_vars
  PROVE  FramesAccounted'
<1>1. CASE UNCHANGED beatVars
  BY <1>1 DEF FramesAccounted, beatVars
<1>2. CASE window' = window + 1 /\ recorded' = recorded + 1 /\ UNCHANGED <<beat, acked>>
  BY <1>2 DEF TypeOK, FramesAccounted
<1>3. CASE BeatStart \/ BeatPosted \/ BeatFails
  BY <1>3 DEF TypeOK, FramesAccounted, BeatStart, BeatPosted, BeatFails
<1> QED
  BY <1>1, <1>2, <1>3
  DEF Next, Frame, ContextUpdate, Elapsed, VestibuleElapsed, ChainStep, OccupancyPosted,
      CheckThreshold, SlipStep, CheckVestibule, PostReturns, PostRaises, beatVars, vars

-----------------------------------------------------------------------------
(* Thresholds.  An idle car agrees with its count because a running chain    *)
(* carries the debt: until it has compared, the direction agrees with the    *)
(* count before the update, from then on with the count after it.            *)

Met(n, d) == (n >= RisingAt => d = "rising") /\ (n <= FallingAt => d # "rising")

Compared(t) == chain[t].phase \notin {"occupancy", "fusion"}

ChainThreshold ==
    \A t \in Task : Active(t) /\ "occupancy" \notin failed[chain[t].car] =>
        IF Compared(t) THEN Met(count[chain[t].car], dir[chain[t].car])
        ELSE Met(chain[t].prev, dir[chain[t].car])

CarThreshold ==
    \A c \in Car : ~inFlight[c] /\ "occupancy" \notin failed[c] => Met(count[c], dir[c])

ThresholdInv == MarksMatchChains /\ ChainThreshold /\ CarThreshold

\* Another car's chain, and its count and direction, are not touched.
LEMMA OtherChains ==
  ASSUME MarksMatchChains, NEW t \in Task, Active(t), NEW u \in Task, u # t, Active(u)
  PROVE  chain[u].car \in Car /\ chain[u].car # chain[t].car
  BY ChainFields DEF MarksMatchChains, OneChainPerCar, Active

\* The comparison: from the count before, or from the one after, never neither.
LEMMA ThresholdCompared ==
  ASSUME FallingAt < RisingAt, NEW prev \in Nat, NEW n \in Nat,
         NEW d \in {"none", "rising", "falling"}, Met(prev, d)
  PROVE  IF prev < RisingAt /\ RisingAt <= n /\ d # "rising" THEN Met(n, "rising")
         ELSE IF prev > FallingAt /\ FallingAt >= n /\ d # "falling" THEN Met(n, "falling")
         ELSE Met(n, d)
  BY DEF Met

\* A chain that goes on without comparing.
LEMMA ThresholdGoesOn ==
  ASSUME ThresholdInv, NEW t \in Task, Active(t), NEW x \in Chain,
         x.car = chain[t].car, x.prev = chain[t].prev,
         x.phase \notin {"occupancy", "fusion"} <=> Compared(t),
         chain' = [chain EXCEPT ![t] = x], UNCHANGED <<inFlight, count, dir, failed>>
  PROVE  ChainThreshold' /\ CarThreshold'
<1>1. chain \in [Task -> Chain \cup {Idle}] /\ x # Idle
  BY DEF ThresholdInv, MarksMatchChains, TypeOK, Chain, Idle, Posting
<1>2. \A u \in Task : /\ chain'[u] # Idle <=> chain[u] # Idle
                     /\ chain'[u].car = chain[u].car
                     /\ chain'[u].prev = chain[u].prev
                     /\ chain'[u].phase \notin {"occupancy", "fusion"} <=> Compared(u)
  BY <1>1 DEF Active, Compared
<1>3. CarThreshold'
  BY DEF ThresholdInv, CarThreshold, Met
<1>4. ChainThreshold'
  BY <1>2 DEF ThresholdInv, ChainThreshold, Compared, Active, Met
<1> QED  BY <1>3, <1>4

\* A chain that ends has compared, or has failed to post the occupancy.
LEMMA ThresholdEnds ==
  ASSUME ThresholdInv, NEW t \in Task, Active(t), Finish(t), UNCHANGED <<count, dir>>,
         \A c \in Car : failed[c] \subseteq failed'[c],
         Compared(t) \/ "occupancy" \in failed'[chain[t].car]
  PROVE  ChainThreshold' /\ CarThreshold'
<1>0. /\ TypeOK /\ MarksMatchChains
      /\ chain \in [Task -> Chain \cup {Idle}] /\ inFlight \in [Car -> BOOLEAN]
  BY DEF ThresholdInv, MarksMatchChains, TypeOK
<1>1. chain[t].car \in Car
  BY <1>0, ChainFields
<1>2. \A u \in Task : chain'[u] # Idle => chain'[u] = chain[u] /\ chain[u].car \in Car
  BY <1>0, ChainFields DEF Finish, Active
<1>3. \A c \in Car : c # chain[t].car => inFlight'[c] = inFlight[c]
  BY <1>0 DEF Finish
<1>4. ChainThreshold'
  BY <1>2 DEF ThresholdInv, ChainThreshold, Compared, Active, Met
<1>5. CarThreshold'
  <2> SUFFICES ASSUME NEW c \in Car, ~ inFlight'[c], "occupancy" \notin failed'[c]
               PROVE  Met(count[c], dir[c])
    BY DEF CarThreshold, Met
  <2>1. CASE c = chain[t].car
    BY <2>1 DEF ThresholdInv, ChainThreshold
  <2>2. CASE c # chain[t].car
    BY <1>3, <2>2 DEF ThresholdInv, CarThreshold
  <2> QED  BY <2>1, <2>2
<1> QED  BY <1>4, <1>5

\* A frame starts a chain only for a car that agrees with its count.
LEMMA FrameThreshold ==
  ASSUME ThresholdInv, NEW m \in Camera, NEW det \in Views, NEW tagged \in SUBSET Track,
         Update(m, det, tagged)
  PROVE  ChainThreshold' /\ CarThreshold'
<1> DEFINE c == CarOf[m]
           x == [phase |-> "occupancy", car |-> c, cam |-> m, det |-> det,
                 tagged |-> tagged, prev |-> count[c], todo |-> Persons(det)]
<1>0. /\ TypeOK /\ c \in Car /\ chain \in [Task -> Chain \cup {Idle}]
      /\ inFlight \in [Car -> BOOLEAN] /\ count \in [Car -> Nat]
  BY DEF ThresholdInv, MarksMatchChains, TypeOK
<1>1. CASE UNCHANGED zoneVars
  BY <1>1 DEF zoneVars, ThresholdInv, ChainThreshold, CarThreshold, Met, Active, Compared
<1>2. ASSUME NEW t \in Task, ~ inFlight[c], ~ Active(t),
             chain' = [chain EXCEPT ![t] = x],
             count' = [count EXCEPT ![c] = Cardinality(Persons(det))],
             inFlight' = [inFlight EXCEPT ![c] = TRUE],
             UNCHANGED <<dir, failed>>
      PROVE  ChainThreshold' /\ CarThreshold'
  <2>1. x.car = c /\ x.prev = count[c] /\ x.phase = "occupancy"
    OBVIOUS
  <2> HIDE DEF x, c
  <2>2. chain'[t] = x /\ \A u \in Task : u # t => chain'[u] = chain[u]
    BY <1>0, <1>2
  <2>3. \A u \in Task : Active(u) => chain[u].car # c
    BY <1>2 DEF ThresholdInv, MarksMatchChains, OneChainPerCar, Active
  <2>4. \A d \in Car : d # c => count'[d] = count[d] /\ inFlight'[d] = inFlight[d]
    BY <1>0, <1>2
  <2>5. inFlight'[c]
    BY <1>0, <1>2
  <2>6. "occupancy" \notin failed[c] => Met(count[c], dir[c])
    BY <1>0, <1>2 DEF ThresholdInv, CarThreshold
  <2>7. CarThreshold'
    BY <1>2, <2>4, <2>5 DEF ThresholdInv, CarThreshold, Met
  <2>8. ASSUME NEW u \in Task, chain'[u] # Idle, "occupancy" \notin failed[chain'[u].car]
        PROVE  IF chain'[u].phase \notin {"occupancy", "fusion"}
               THEN Met(count'[chain'[u].car], dir[chain'[u].car])
               ELSE Met(chain'[u].prev, dir[chain'[u].car])
    <3>1. CASE u = t
      BY <2>1, <2>2, <2>6, <2>8, <3>1
    <3>2. CASE u # t
      <4>1. chain'[u] = chain[u] /\ Active(u) /\ chain[u].car \in Car /\ chain[u].car # c
        BY <1>0, <2>2, <2>3, <2>8, <3>2, ChainFields DEF Active
      <4> QED  BY <2>4, <2>8, <4>1 DEF ThresholdInv, ChainThreshold, Compared
    <3> QED  BY <3>1, <3>2
  <2>9. ChainThreshold'
    BY <1>2, <2>8 DEF ChainThreshold, Compared, Active, Met
  <2> QED  BY <2>7, <2>9
<1> QED  BY <1>0, <1>1, <1>2, UpdateCases

\* Every step of a chain: one compares, the others leave the direction alone.
LEMMA ChainStepThreshold ==
  ASSUME FallingAt < RisingAt, ThresholdInv, NEW t \in Task, ChainStep(t) \/ PostRaises(t)
  PROVE  ChainThreshold' /\ CarThreshold'
<1>0. TypeOK /\ MarksMatchChains /\ chain \in [Task -> Chain \cup {Idle}]
  BY DEF ThresholdInv, MarksMatchChains, TypeOK
<1>1. Active(t)
  BY <1>0, ChainFields DEF ChainStep, OccupancyPosted, CheckThreshold, SlipStep,
                           CheckVestibule, PostReturns, PostRaises, Posting
<1>2. /\ chain[t] \in Chain /\ chain[t].car \in Car /\ chain[t].prev \in Nat
      /\ chain[t].todo \in SUBSET Track
  BY <1>0, <1>1, ChainFields
<1>3. ASSUME NEW phase \in Posting \cup {"slip"}, Goto(t, phase),
             phase \notin {"occupancy", "fusion"} <=> Compared(t),
             UNCHANGED <<inFlight, count, dir, failed>>
      PROVE  ChainThreshold' /\ CarThreshold'
  <2> DEFINE x == [chain[t] EXCEPT !.phase = phase]
  <2>1. x \in Chain /\ x.car = chain[t].car /\ x.prev = chain[t].prev /\ x.phase = phase
    BY <1>2 DEF Chain
  <2>2. chain' = [chain EXCEPT ![t] = x]
    BY <1>3 DEF Goto
  <2> HIDE DEF x
  <2> QED  BY <1>1, <1>3, <2>1, <2>2, ThresholdGoesOn
<1>4. CASE OccupancyPosted(t)
  BY <1>3, <1>4 DEF OccupancyPosted, Compared, Posting
<1>5. CASE SlipStep(t)
  <2>1. PICK p : \/ chain' = [chain EXCEPT ![t].phase = "fall", ![t].todo = @ \ {p}]
                 \/ chain' = [chain EXCEPT ![t].todo = @ \ {p}]
    BY <1>5 DEF SlipStep
  <2> DEFINE x == [chain[t] EXCEPT !.phase = "fall", !.todo = @ \ {p}]
             y == [chain[t] EXCEPT !.todo = @ \ {p}]
  <2>2. /\ x \in Chain /\ x.car = chain[t].car /\ x.prev = chain[t].prev /\ x.phase = "fall"
        /\ y \in Chain /\ y.car = chain[t].car /\ y.prev = chain[t].prev
        /\ y.phase = chain[t].phase
    BY <1>2 DEF Chain, Posting
  <2>3. chain' = [chain EXCEPT ![t] = x] \/ chain' = [chain EXCEPT ![t] = y]
    BY <2>1
  <2> HIDE DEF x, y
  <2>4. chain[t].phase = "slip" /\ UNCHANGED <<inFlight, count, dir, failed>>
    BY <1>5 DEF SlipStep
  <2> QED  BY <1>1, <2>2, <2>3, <2>4, ThresholdGoesOn DEF Compared
<1>6. CASE CheckVestibule(t)
  <2>1. chain[t].phase = "slip" /\ UNCHANGED <<count, dir, failed>>
    BY <1>6 DEF CheckVestibule
  <2>2. CASE Finish(t)
    BY <1>1, <2>1, <2>2, ThresholdEnds DEF Compared
  <2>3. CASE Goto(t, "congested") /\ UNCHANGED inFlight
    BY <1>3, <2>1, <2>3 DEF Compared, Posting
  <2> QED  BY <1>6, <2>2, <2>3 DEF CheckVestibule
<1>7. CASE PostReturns(t)
  <2>1. chain[t].phase \in {"fired", "fall", "congested"} /\ UNCHANGED <<count, dir, failed>>
    BY <1>7 DEF PostReturns
  <2>2. CASE Finish(t)
    BY <1>1, <2>1, <2>2, ThresholdEnds DEF Compared
  <2>3. CASE Goto(t, "slip") /\ UNCHANGED inFlight
    BY <1>3, <2>1, <2>3 DEF Compared
  <2> QED  BY <1>7, <2>2, <2>3 DEF PostReturns
<1>8. CASE PostRaises(t)
  <2>1. /\ Finish(t) /\ chain[t].phase \in Posting \ {"fusion"} /\ UNCHANGED <<count, dir>>
        /\ failed' = [failed EXCEPT ![chain[t].car] = @ \cup {chain[t].phase}]
    BY <1>8 DEF PostRaises
  <2>2. \A c \in Car : failed[c] \subseteq failed'[c]
    BY <1>0, <1>2, <2>1 DEF TypeOK
  <2>3. Compared(t) \/ "occupancy" \in failed'[chain[t].car]
    BY <1>0, <1>2, <2>1 DEF TypeOK, Compared, Posting
  <2> QED  BY <1>1, <2>1, <2>2, <2>3, ThresholdEnds
<1>9. CASE CheckThreshold(t)
  <2> DEFINE c == chain[t].car
  <2>1. /\ chain[t].phase = "fusion" /\ UNCHANGED <<count, inFlight, failed>>
        /\ c \in Car /\ count[c] \in Nat /\ dir \in [Car -> {"none", "rising", "falling"}]
    BY <1>0, <1>2, <1>9 DEF CheckThreshold, TypeOK
  <2>2. \E phase \in {"fired", "slip"} : Goto(t, phase)
    BY <1>9 DEF CheckThreshold
  <2>3. "occupancy" \notin failed[c] => Met(chain[t].prev, dir[c])
    BY <1>1, <2>1 DEF ThresholdInv, ChainThreshold, Compared
  <2>4. "occupancy" \notin failed[c] => Met(count[c], dir'[c])
    BY <1>2, <1>9, <2>1, <2>3, ThresholdCompared DEF CheckThreshold
  <2>5. \A d \in Car : d # c => dir'[d] = dir[d]
    BY <1>9, <2>1 DEF CheckThreshold
  <2>6. inFlight[c]
    BY <1>0, <1>1 DEF MarksMatchChains, OneChainPerCar, Active
  <2>7. CarThreshold'
    BY <2>1, <2>5, <2>6 DEF ThresholdInv, CarThreshold, Met
  <2>8. /\ chain'[t].car = c /\ chain'[t].phase \in {"fired", "slip"}
        /\ \A u \in Task : u # t => chain'[u] = chain[u]
    BY <1>0, <1>2, <2>2 DEF Goto, Chain
  <2> HIDE DEF c
  <2>9. ASSUME NEW u \in Task, chain'[u] # Idle, "occupancy" \notin failed[chain'[u].car]
        PROVE  IF chain'[u].phase \notin {"occupancy", "fusion"}
               THEN Met(count[chain'[u].car], dir'[chain'[u].car])
               ELSE Met(chain'[u].prev, dir'[chain'[u].car])
    <3>1. CASE u = t
      BY <2>4, <2>8, <2>9, <3>1
    <3>2. CASE u # t
      <4>1. chain'[u] = chain[u] /\ Active(u) /\ chain[u].car \in Car /\ chain[u].car # c
        BY <1>0, <1>1, <2>8, <2>9, <3>2, OtherChains DEF Active, c
      <4> QED  BY <2>5, <2>9, <4>1 DEF ThresholdInv, ChainThreshold, Compared
    <3> QED  BY <3>1, <3>2
  <2>10. ChainThreshold'
    BY <2>1, <2>9 DEF ChainThreshold, Compared, Active, Met
  <2> QED  BY <2>7, <2>10
<1> QED  BY <1>4, <1>5, <1>6, <1>7, <1>8, <1>9 DEF ChainStep

-----------------------------------------------------------------------------
(* Boxes.  While a chain looks at its persons, the boxes of its camera are   *)
(* those of the new detections for whoever it has looked at; the old boxes   *)
(* are the camera's last ones unless such a chain is on its way.             *)

ChainBoxes ==
    \A t \in Task : Active(t) =>
        /\ chain[t].car = CarOf[chain[t].cam]
        /\ chain[t].phase \in {"occupancy", "fusion", "fired"} =>
              chain[t].todo = Persons(chain[t].det)
        /\ chain[t].phase = "slip" =>
              \A p \in Persons(chain[t].det) \ chain[t].todo :
                  boxes[chain[t].cam][p] = chain[t].det[p]

Looking(t, m) == Active(t) /\ chain[t].cam = m /\ chain[t].phase # "congested"

BoxesKept ==
    \A m \in Camera : failed[CarOf[m]] = {} =>
        boxes[m] = lastSeen[m] \/ \E t \in Task : Looking(t, m)

BoxesInv == MarksMatchChains /\ ChainBoxes /\ BoxesKept

\* Once nobody is in flight for its car, a camera's boxes are its last ones.
LEMMA BoxesSettled == BoxesInv => BoxesOfLastUpdate
  BY DEF BoxesInv, ChainBoxes, BoxesKept, BoxesOfLastUpdate, MarksMatchChains,
         OneChainPerCar, Looking, Active

\* The part of a chain that the boxes depend on.
ChainOK(x, b) ==
    /\ x.car = CarOf[x.cam]
    /\ x.phase \in {"occupancy", "fusion", "fired"} => x.todo = Persons(x.det)
    /\ x.phase = "slip" => \A p \in Persons(x.det) \ x.todo : b[p] = x.det[p]

\* A chain goes on, perhaps writing boxes of its own camera: the chains of
\* other cars have other cameras.
LEMMA BoxesGoOn ==
  ASSUME BoxesInv, NEW t \in Task, Active(t), NEW x \in Chain, NEW b,
         x.cam = chain[t].cam, ChainOK(x, b),
         chain' = [chain EXCEPT ![t] = x], boxes' = [boxes EXCEPT ![x.cam] = b]
  PROVE  ChainBoxes'
<1>0. /\ TypeOK /\ MarksMatchChains /\ x # Idle /\ x.cam \in Camera
      /\ chain \in [Task -> Chain \cup {Idle}] /\ boxes \in [Camera -> Detections]
  BY DEF BoxesInv, MarksMatchChains, TypeOK, Chain, Idle, Posting
<1>1. boxes'[x.cam] = b /\ \A m \in Camera : m # x.cam => boxes'[m] = boxes[m]
  BY <1>0
<1>2. chain'[t] = x /\ \A u \in Task : u # t => chain'[u] = chain[u]
  BY <1>0
<1>3. \A u \in Task : u # t /\ Active(u) =>
          chain[u].cam \in Camera /\ chain[u].cam # x.cam
  BY <1>0, OtherChains, ChainFields DEF BoxesInv, ChainBoxes
<1>4. ASSUME NEW u \in Task, chain'[u] # Idle
      PROVE  ChainOK(chain'[u], boxes'[chain'[u].cam])
  <2>1. CASE u = t
    BY <1>1, <1>2, <2>1
  <2>2. CASE u # t
    <3>1. chain'[u] = chain[u] /\ Active(u) /\ boxes'[chain[u].cam] = boxes[chain[u].cam]
      BY <1>1, <1>2, <1>3, <1>4, <2>2 DEF Active
    <3>2. ChainOK(chain[u], boxes[chain[u].cam])
      BY <3>1 DEF BoxesInv, ChainBoxes, ChainOK
    <3> QED  BY <3>1, <3>2
  <2> QED  BY <2>1, <2>2
<1> QED  BY <1>4 DEF ChainBoxes, ChainOK, Active, Persons

\* A chain that ends leaves the others as they are.
LEMMA BoxesEnd ==
  ASSUME BoxesInv, NEW t \in Task, Active(t), chain' = [chain EXCEPT ![t] = Idle], NEW b,
         boxes' = [boxes EXCEPT ![chain[t].cam] = b]
  PROVE  ChainBoxes'
<1>0. /\ TypeOK /\ MarksMatchChains /\ chain[t].cam \in Camera
      /\ chain \in [Task -> Chain \cup {Idle}] /\ boxes \in [Camera -> Detections]
  BY ChainFields DEF BoxesInv, MarksMatchChains, TypeOK
<1>1. \A m \in Camera : m # chain[t].cam => boxes'[m] = boxes[m]
  BY <1>0
<1>2. \A u \in Task : chain'[u] # Idle => u # t /\ chain'[u] = chain[u]
  BY <1>0
<1>3. \A u \in Task : u # t /\ Active(u) =>
          chain[u].cam \in Camera /\ chain[u].cam # chain[t].cam
  BY <1>0, OtherChains, ChainFields DEF BoxesInv, ChainBoxes
<1>4. ASSUME NEW u \in Task, chain'[u] # Idle
      PROVE  ChainOK(chain'[u], boxes'[chain'[u].cam])
  <2>1. chain'[u] = chain[u] /\ Active(u) /\ boxes'[chain[u].cam] = boxes[chain[u].cam]
    BY <1>1, <1>2, <1>3, <1>4 DEF Active
  <2>2. ChainOK(chain[u], boxes[chain[u].cam])
    BY <2>1 DEF BoxesInv, ChainBoxes, ChainOK
  <2> QED  BY <2>1, <2>2
<1> QED  BY <1>4 DEF ChainBoxes, ChainOK, Active, Persons

\* A step of a chain does not matter to the cameras it is not looking at.
LEMMA KeptElsewhere ==
  ASSUME BoxesInv, NEW t \in Task, NEW m \in Camera, ~ Looking(t, m),
         \A u \in Task : u # t => chain'[u] = chain[u],
         boxes'[m] = boxes[m], lastSeen'[m] = lastSeen[m], failed[CarOf[m]] = {}
  PROVE  boxes'[m] = lastSeen'[m] \/ \E u \in Task : Looking(u, m)'
  BY DEF BoxesInv, BoxesKept, Looking, Active

\* A chain that goes on and keeps looking.
LEMMA KeptGoingOn ==
  ASSUME BoxesInv, NEW t \in Task, Active(t), NEW x \in Chain, NEW b,
         x.cam = chain[t].cam, x.phase # "congested",
         chain' = [chain EXCEPT ![t] = x], boxes' = [boxes EXCEPT ![x.cam] = b],
         UNCHANGED <<lastSeen, failed>>
  PROVE  BoxesKept'
<1>0. /\ x # Idle /\ x.cam \in Camera
      /\ chain \in [Task -> Chain \cup {Idle}] /\ boxes \in [Camera -> Detections]
  BY DEF BoxesInv, MarksMatchChains, TypeOK, Chain, Idle, Posting
<1>1. chain'[t] = x /\ \A u \in Task : u # t => chain'[u] = chain[u]
  BY <1>0
<1>2. ASSUME NEW m \in Camera, failed[CarOf[m]] = {}
      PROVE  boxes'[m] = lastSeen'[m] \/ \E u \in Task : Looking(u, m)'
  <2>1. CASE m = x.cam
    BY <1>0, <1>1, <2>1 DEF Looking, Active
  <2>2. CASE m # x.cam
    BY <1>0, <1>1, <1>2, <2>2, KeptElsewhere DEF Looking
  <2> QED  BY <2>1, <2>2
<1> QED  BY <1>2 DEF BoxesKept

\* Every step of a chain.
LEMMA ChainStepBoxes ==
  ASSUME BoxesInv, NEW t \in Task, ChainStep(t) \/ PostRaises(t)
  PROVE  ChainBoxes' /\ BoxesKept'
<1> DEFINE m == chain[t].cam
           det == chain[t].det
<1>0. /\ TypeOK /\ MarksMatchChains /\ chain \in [Task -> Chain \cup {Idle}]
      /\ boxes \in [Camera -> Detections] /\ lastSeen \in [Camera -> Detections]
      /\ failed \in [Car -> SUBSET Posting]
  BY DEF BoxesInv, MarksMatchChains, TypeOK
<1>1. Active(t)
  BY <1>0, ChainFields DEF ChainStep, OccupancyPosted, CheckThreshold, SlipStep,
                           CheckVestibule, PostReturns, PostRaises, Posting
<1>2. /\ chain[t] \in Chain /\ m \in Camera /\ det \in Detections
      /\ chain[t].todo \in SUBSET Track /\ ChainOK(chain[t], boxes[m])
      /\ chain[t].car = CarOf[m]
  BY <1>0, <1>1, ChainFields DEF BoxesInv, ChainBoxes, ChainOK
<1>3. boxes = [boxes EXCEPT ![m] = boxes[m]]
  BY <1>0, <1>2
<1>4. ASSUME NEW x \in Chain, NEW b, x.cam = m, ChainOK(x, b), x.phase # "congested",
             chain' = [chain EXCEPT ![t] = x], boxes' = [boxes EXCEPT ![m] = b],
             UNCHANGED <<lastSeen, failed>>
      PROVE  ChainBoxes' /\ BoxesKept'
  BY <1>1, <1>4, BoxesGoOn, KeptGoingOn
<1>5. CASE OccupancyPosted(t) \/ CheckThreshold(t) \/ (chain[t].phase = "fired" /\ PostReturns(t))
  <2>1. /\ chain[t].phase \in {"occupancy", "fusion", "fired"}
        /\ UNCHANGED <<boxes, lastSeen, failed>>
    BY <1>5 DEF OccupancyPosted, CheckThreshold, PostReturns
  <2>2. PICK phase \in {"fusion", "fired", "slip"} : Goto(t, phase)
    BY <1>5 DEF OccupancyPosted, CheckThreshold, PostReturns
  <2> DEFINE x == [chain[t] EXCEPT !.phase = phase]
  <2>3. /\ x \in Chain /\ x.cam = m /\ x.car = chain[t].car /\ x.phase = phase
        /\ x.det = det /\ x.todo = chain[t].todo
    BY <1>2 DEF Chain, Posting
  <2>4. chain' = [chain EXCEPT ![t] = x]
    BY <2>2 DEF Goto
  <2> HIDE DEF x
  <2>5. ChainOK(x, boxes[m])
    BY <1>2, <2>1, <2>3 DEF ChainOK
  <2> QED  BY <1>3, <1>4, <2>1, <2>2, <2>3, <2>4, <2>5
<1>6. CASE SlipStep(t)
  <2>0. chain[t].phase = "slip" /\ UNCHANGED <<lastSeen, failed>>
    BY <1>6 DEF SlipStep
  <2>1. PICK p \in chain[t].todo :
          \/ /\ chain' = [chain EXCEPT ![t].phase = "fall", ![t].todo = @ \ {p}]
             /\ UNCHANGED boxes
          \/ /\ chain' = [chain EXCEPT ![t].todo = @ \ {p}]
             /\ boxes' = [boxes EXCEPT ![m][p] = det[p]]
    BY <1>6 DEF SlipStep
  <2> DEFINE x == [chain[t] EXCEPT !.phase = "fall", !.todo = @ \ {p}]
             y == [chain[t] EXCEPT !.todo = @ \ {p}]
             b == [boxes[m] EXCEPT ![p] = det[p]]
  <2>2. /\ x \in Chain /\ x.cam = m /\ x.car = chain[t].car /\ x.phase = "fall"
        /\ y \in Chain /\ y.cam = m /\ y.car = chain[t].car /\ y.phase = "slip"
        /\ y.det = det /\ y.todo = chain[t].todo \ {p}
    BY <1>2, <2>0 DEF Chain, Posting
  <2>3. \/ chain' = [chain EXCEPT ![t] = x] /\ UNCHANGED boxes
        \/ chain' = [chain EXCEPT ![t] = y] /\ boxes' = [boxes EXCEPT ![m] = b]
    BY <2>1
  <2>4. \A q \in Track : b[q] = IF q = p THEN det[p] ELSE boxes[m][q]
    BY <1>0, <1>2 DEF Detections
  <2> HIDE DEF x, y, b
  <2>5. ChainOK(x, boxes[m])
    BY <1>2, <2>2 DEF ChainOK
  <2>6. ChainOK(y, b)
    BY <1>2, <2>0, <2>2, <2>4 DEF ChainOK, Persons
  <2> QED  BY <1>3, <1>4, <2>0, <2>2, <2>3, <2>5, <2>6
<1>7. CASE chain[t].phase = "fall" /\ PostReturns(t)
  <2> DEFINE x == [chain[t] EXCEPT !.phase = "slip"]
             b == [p \in Track |-> IF det[p] # Absent /\ p \notin chain[t].todo
                                   THEN det[p] ELSE boxes[m][p]]
  <2>1. /\ chain' = [chain EXCEPT ![t] = x] /\ boxes' = [boxes EXCEPT ![m] = b]
        /\ UNCHANGED <<lastSeen, failed>>
    BY <1>7 DEF PostReturns, Goto
  <2>2. /\ x \in Chain /\ x.cam = m /\ x.car = chain[t].car /\ x.phase = "slip"
        /\ x.det = det /\ x.todo = chain[t].todo
    BY <1>2 DEF Chain
  <2>3. \A p \in Persons(det) \ chain[t].todo : b[p] = det[p]
    BY DEF Persons
  <2> HIDE DEF x, b
  <2>4. ChainOK(x, b)
    BY <1>2, <2>2, <2>3 DEF ChainOK
  <2> QED  BY <1>4, <2>1, <2>2, <2>4
<1>8. CASE chain[t].phase = "congested" /\ PostReturns(t)
  <2>1. /\ chain' = [chain EXCEPT ![t] = Idle] /\ UNCHANGED <<boxes, lastSeen, failed>>
    BY <1>8 DEF PostReturns, Finish
  <2>2. ChainBoxes'
    BY <1>1, <1>3, <2>1, BoxesEnd
  <2>3. \A u \in Task : u # t => chain'[u] = chain[u]
    BY <1>0, <2>1
  <2>4. BoxesKept'
    BY <1>8, <2>1, <2>3, KeptElsewhere DEF BoxesKept, Looking
  <2> QED  BY <2>2, <2>4
<1>9. CASE PostRaises(t)
  <2>1. /\ chain' = [chain EXCEPT ![t] = Idle] /\ UNCHANGED <<boxes, lastSeen>>
        /\ failed' = [failed EXCEPT ![chain[t].car] = @ \cup {chain[t].phase}]
    BY <1>9 DEF PostRaises, Finish
  <2>2. ChainBoxes'
    BY <1>1, <1>3, <2>1, BoxesEnd
  <2>3. \A u \in Task : u # t => chain'[u] = chain[u]
    BY <1>0, <2>1
  <2>4. \A n \in Camera : failed'[CarOf[n]] = {} => failed[CarOf[n]] = {} /\ n # m
    BY <1>0, <1>2, <2>1
  <2>5. BoxesKept'
    BY <2>1, <2>3, <2>4, KeptElsewhere DEF BoxesKept, Looking
  <2> QED  BY <2>2, <2>5
<1>10. CASE CheckVestibule(t)
  <2> DEFINE b == [p \in Track |-> IF det[p] = Absent THEN Absent ELSE boxes[m][p]]
             x == [chain[t] EXCEPT !.phase = "congested"]
  <2>1. /\ chain[t].phase = "slip" /\ chain[t].todo = {}
        /\ boxes' = [boxes EXCEPT ![m] = b] /\ lastSeen' = [lastSeen EXCEPT ![m] = det]
        /\ UNCHANGED failed
        /\ chain' = [chain EXCEPT ![t] = x] \/ chain' = [chain EXCEPT ![t] = Idle]
    BY <1>10 DEF CheckVestibule, Prune, Goto, Finish
  <2>2. b = det
    <3>1. \A p \in Track : det[p] # Absent => boxes[m][p] = det[p]
      BY <1>2, <2>1 DEF ChainOK, Persons
    <3>2. det = [p \in Track |-> det[p]]
      BY <1>2 DEF Detections
    <3> QED  BY <3>1, <3>2
  <2>3. x \in Chain /\ x.cam = m /\ x.car = chain[t].car /\ x.phase = "congested"
    BY <1>2 DEF Chain, Posting
  <2> HIDE DEF b, x
  <2>4. ChainOK(x, b)
    BY <1>2, <2>3 DEF ChainOK
  <2>5. ChainBoxes'
    BY <1>1, <2>1, <2>3, <2>4, BoxesGoOn, BoxesEnd
  <2>6. \A u \in Task : u # t => chain'[u] = chain[u]
    BY <1>0, <2>1
  <2>7. ASSUME NEW n \in Camera, failed[CarOf[n]] = {}
        PROVE  boxes'[n] = lastSeen'[n] \/ \E u \in Task : Looking(u, n)'
    <3>1. CASE n = m
      BY <1>0, <1>2, <2>1, <2>2, <3>1
    <3>2. CASE n # m
      <4>1. boxes'[n] = boxes[n] /\ lastSeen'[n] = lastSeen[n]
        BY <1>0, <2>1, <3>2
      <4> QED  BY <2>6, <2>7, <3>2, <4>1, KeptElsewhere DEF Looking
    <3> QED  BY <3>1, <3>2
  <2> QED  BY <2>1, <2>5, <2>7 DEF BoxesKept
<1> QED
  BY <1>5, <1>6, <1>7, <1>8, <1>9, <1>10 DEF ChainStep, PostReturns

\* A frame starts a chain that has yet to look at everyone it shows.
LEMMA FrameBoxes ==
  ASSUME BoxesInv, NEW m \in Camera, NEW det \in Views, NEW tagged \in SUBSET Track,
         Update(m, det, tagged)
  PROVE  ChainBoxes' /\ BoxesKept'
<1> DEFINE c == CarOf[m]
           x == [phase |-> "occupancy", car |-> c, cam |-> m, det |-> det,
                 tagged |-> tagged, prev |-> count[c], todo |-> Persons(det)]
<1>0. TypeOK /\ chain \in [Task -> Chain \cup {Idle}]
  BY DEF BoxesInv, MarksMatchChains, TypeOK
<1>1. CASE UNCHANGED zoneVars
  BY <1>1 DEF zoneVars, BoxesInv, ChainBoxes, BoxesKept, Looking, Active, Persons
<1>2. ASSUME NEW t \in Task, ~ Active(t), chain' = [chain EXCEPT ![t] = x],
             UNCHANGED <<boxes, lastSeen, failed>>
      PROVE  ChainBoxes' /\ BoxesKept'
  <2>1. \A b : ChainOK(x, b)
    BY DEF ChainOK
  <2> HIDE DEF x, c
  <2>2. chain'[t] = x /\ \A u \in Task : u # t => chain'[u] = chain[u]
    BY <1>0, <1>2
  <2>3. ASSUME NEW u \in Task, chain'[u] # Idle
        PROVE  ChainOK(chain'[u], boxes[chain'[u].cam])
    <3>1. CASE u = t
      BY <2>1, <2>2, <3>1
    <3>2. CASE u # t
      <4>1. chain'[u] = chain[u] /\ Active(u)
        BY <2>2, <2>3, <3>2 DEF Active
      <4>2. ChainOK(chain[u], boxes[chain[u].cam])
        BY <4>1 DEF BoxesInv, ChainBoxes, ChainOK
      <4> QED  BY <4>1, <4>2
    <3> QED  BY <3>1, <3>2
  <2>4. ChainBoxes'
    BY <1>2, <2>3 DEF ChainBoxes, ChainOK, Active, Persons
  <2>5. BoxesKept'
    BY <1>2, <2>2, KeptElsewhere DEF BoxesKept, Looking
  <2> QED  BY <2>4, <2>5
<1> QED  BY <1>0, <1>1, <1>2, UpdateCases

-----------------------------------------------------------------------------
(* Obstructions.  The counter of an object never runs ahead of the frames    *)
(* that had it in place.                                                     *)

HitsBacked == \A m \in Camera, o \in Object : hits[m][o] <= streak[m][o]

ObstructionInv == ObstructionSustained /\ HitsBacked

\* One frame of a door camera.
LEMMA FrameObstruction ==
  ASSUME TypeOK, ObstructionInv, NEW m \in Camera, NEW present, NEW moved,
         DoorObstruction(m, present, moved)
  PROVE  ObstructionInv'
<1> DEFINE n == [o \in Object |-> Hits(m, o, o \in present, moved)]
           full == {o \in Object : n[o] >= MinFrames}
           h == [o \in Object |-> IF o \in full THEN 0 ELSE n[o]]
           s == [o \in Object |-> Stayed(m, o, o \in present, moved /\ o = Suitcase)]
<1>1. /\ hits' = [hits EXCEPT ![m] = h] /\ raised' = {m} \X full
      /\ streak' = [streak EXCEPT ![m] = s]
  BY DEF DoorObstruction
<1>2. \A o \in Object : hits[m][o] \in 0..(MinFrames - 1) /\ streak[m][o] \in 0..MinFrames
  BY DEF TypeOK
<1>3. \A o \in Object : hits[m][o] <= streak[m][o]
  BY DEF ObstructionInv, HitsBacked
<1>4. \A o \in Object : /\ Hits(m, o, o \in present, moved) \in Nat
                       /\ Stayed(m, o, o \in present, moved /\ o = Suitcase) \in 0..MinFrames
                       /\ Hits(m, o, o \in present, moved)
                            <= Stayed(m, o, o \in present, moved /\ o = Suitcase)
  BY <1>2, <1>3 DEF Hits, Stayed
<1>5. \A o \in Object : n[o] \in Nat /\ s[o] \in 0..MinFrames /\ n[o] <= s[o]
  BY <1>4
<1>6. \A o \in Object : h[o] <= s[o]
  BY <1>5
<1>7. \A o \in full : o \in Object /\ s[o] = MinFrames
  BY <1>5
<1> HIDE DEF h, s, full
<1>8. HitsBacked'
  BY <1>1, <1>6 DEF ObstructionInv, HitsBacked, TypeOK
<1>9. ObstructionSustained'
  BY <1>1, <1>7 DEF ObstructionSustained, TypeOK
<1> QED  BY <1>8, <1>9 DEF ObstructionInv

\* Nothing but a frame touches the counters.
LEMMA NextObstruction ==
  ASSUME TypeOK, ObstructionInv, [Next]_vars
  PROVE  ObstructionInv'
<1>1. CASE UNCHANGED doorVars
  BY <1>1 DEF doorVars, ObstructionInv, ObstructionSustained, HitsBacked
<1>2. ASSUME NEW m \in Camera, NEW det \in Views, NEW tagged \in SUBSET Track,
             NEW case \in BOOLEAN, NEW moved \in BOOLEAN, Frame(m, det, tagged, case, moved)
      PROVE  ObstructionInv'
  <2> DEFINE present == Persons(det) \cup (IF case THEN {Suitcase} ELSE {})
  <2>1. DoorObstruction(m, present, moved) \/ UNCHANGED doorVars
    BY <1>2 DEF Frame
  <2> HIDE DEF present
  <2> QED  BY <1>1, <2>1, FrameObstruction
<1>3. ASSUME NEW t \in Task, ChainStep(t) \/ PostRaises(t) PROVE UNCHANGED doorVars
  BY <1>3 DEF ChainStep, OccupancyPosted, CheckThreshold, SlipStep, CheckVestibule,
              PostReturns, PostRaises
<1>4. ASSUME NEW c \in Car, Elapsed(c) \/ VestibuleElapsed(c) PROVE UNCHANGED doorVars
  BY <1>4 DEF Elapsed, VestibuleElapsed
<1>5. ASSUME ContextUpdate \/ BeatStart \/ BeatPosted \/ BeatFails \/ UNCHANGED vars
      PROVE  UNCHANGED doorVars
  BY <1>5 DEF ContextUpdate, BeatStart, BeatPosted, BeatFails, vars
<1> QED  BY <1>1, <1>2, <1>3, <1>4, <1>5 DEF Next

-----------------------------------------------------------------------------
(* The theorems.                                                             *)

Core == MarksMatchChains /\ FramesAccounted

\* Nothing has happened yet.
LEMMA InitCore == Init => Core /\ ObstructionInv
<1> SUFFICES ASSUME Init PROVE Core /\ ObstructionInv  OBVIOUS
<1>1. NoOne \in Detections
  BY DEF NoOne, Detections
<1>2. TypeOK
  <2>1. /\ boxes \in [Camera -> Detections] /\ lastSeen \in [Camera -> Detections]
        /\ chain \in [Task -> Chain \cup {Idle}] /\ failed \in [Car -> SUBSET Posting]
    BY <1>1 DEF Init
  <2>2. /\ hits \in [Camera -> [Object -> 0..(MinFrames - 1)]]
        /\ streak \in [Camera -> [Object -> 0..MinFrames]]
    BY DEF Init
  <2>3. /\ throttled \in BOOLEAN /\ inFlight \in [Car -> BOOLEAN] /\ due \in [Car -> BOOLEAN]
        /\ vestDue \in [Car -> BOOLEAN] /\ suitcase \in [Camera -> BOOLEAN]
    BY DEF Init
  <2>4. /\ count \in [Car -> Nat] /\ dir \in [Car -> {"none", "rising", "falling"}]
        /\ raised \subseteq Camera \X Object
    BY DEF Init
  <2>5. /\ window \in Nat /\ recorded \in 0..MaxFrames /\ acked \in Nat
        /\ beat \in Nat \cup {-1} /\ faults \in 0..MaxFaults
    BY DEF Init
  <2> QED  BY <2>1, <2>2, <2>3, <2>4, <2>5 DEF TypeOK
<1>3. OneChainPerCar /\ MarkHeldByChain /\ FramesAccounted /\ ObstructionInv
  BY DEF Init, OneChainPerCar, MarkHeldByChain, FramesAccounted, ObstructionInv,
         ObstructionSustained, HitsBacked
<1> QED  BY <1>2, <1>3 DEF Core, MarksMatchChains

\* Every step keeps chains, marks and frames.
LEMMA NextCore == Core /\ [Next]_vars => Core'
<1> SUFFICES ASSUME Core, [Next]_vars PROVE Core'  OBVIOUS
<1>1. MarksMatchChains /\ FramesAccounted /\ TypeOK
  BY DEF Core, MarksMatchChains
<1>2. FramesAccounted'
  BY <1>1, NextFrames
<1>3. MarksMatchChains'
  BY <1>1, FrameMarks, ChainMarks, RestMarks DEF Next
<1> QED  BY <1>2, <1>3 DEF Core

(* M4 and M9 for every train: a car's mark is set exactly while its one      *)
(* chain runs, whatever POST raises.                                         *)
THEOREM MarksAlwaysMatch == Spec => []MarksMatchChains
<1>1. Core => MarksMatchChains
  BY DEF Core
<1> QED  BY <1>1, InitCore, NextCore, PTL DEF Spec

(* No frame is lost to, or counted twice by, the heartbeats.                 *)
THEOREM FramesAlwaysAccounted == Spec => []FramesAccounted
<1>1. Core => FramesAccounted
  BY DEF Core
<1> QED  BY <1>1, InitCore, NextCore, PTL DEF Spec

\* The steps that touch neither chain nor box nor direction.
LEMMA RestUnchanged ==
  ASSUME \/ ContextUpdate \/ BeatStart \/ BeatPosted \/ BeatFails \/ UNCHANGED vars
         \/ \E c \in Car : Elapsed(c) \/ VestibuleElapsed(c)
  PROVE  UNCHANGED <<count, dir, inFlight, boxes, chain, lastSeen, failed>>
  BY DEF ContextUpdate, BeatStart, BeatPosted, BeatFails, Elapsed, VestibuleElapsed, vars, zoneVars

(* With a deadband, and a threshold that an empty coach is below, the last   *)
(* threshold event of an idle car agrees with its count; only a failed       *)
(* OCCUPANCY_UPDATE can part them.                                           *)
THEOREM ThresholdAlwaysFollows ==
  ASSUME FallingAt < RisingAt, RisingAt > 0
  PROVE  Spec => []ThresholdFollowsCount
<1> DEFINE I == Core /\ ThresholdInv
<1>1. Init => I
  <2> SUFFICES ASSUME Init PROVE I  OBVIOUS
  <2>1. Core /\ MarksMatchChains
    BY InitCore DEF Core
  <2>2. ChainThreshold
    BY DEF Init, ChainThreshold, Active
  <2>3. CarThreshold
    BY DEF Init, CarThreshold, Met
  <2> QED  BY <2>1, <2>2, <2>3 DEF ThresholdInv
<1>2. I /\ [Next]_vars => I'
  <2> SUFFICES ASSUME I, [Next]_vars PROVE I'  OBVIOUS
  <2>1. Core' /\ MarksMatchChains'
    BY NextCore DEF Core
  <2>2. ASSUME NEW m \in Camera, NEW det \in Views, NEW tagged \in SUBSET Track,
               NEW case \in BOOLEAN, NEW moved \in BOOLEAN, Frame(m, det, tagged, case, moved)
        PROVE  ChainThreshold' /\ CarThreshold'
    BY <2>2, FrameThreshold DEF Frame
  <2>3. ASSUME UNCHANGED <<count, dir, inFlight, boxes, chain, lastSeen, failed>>
        PROVE  ChainThreshold' /\ CarThreshold'
    BY <2>3 DEF ThresholdInv, ChainThreshold, CarThreshold, Active, Compared, Met
  <2>4. ChainThreshold' /\ CarThreshold'
    BY <2>2, <2>3, RestUnchanged, ChainStepThreshold DEF Next
  <2> QED  BY <2>1, <2>4 DEF ThresholdInv
<1>3. I => ThresholdFollowsCount
  BY DEF ThresholdInv, CarThreshold, Met, ThresholdFollowsCount
<1> QED  BY <1>1, <1>2, <1>3, PTL DEF Spec

(* R7 and the obstruction rule for every train: a detector compares with, or *)
(* counts, what the same camera saw in the frames it is meant to be about.   *)
THEOREM EvidenceAlwaysFresh == Spec => []EvidenceFresh
<1> DEFINE I == Core /\ BoxesInv /\ ObstructionInv
<1>1. Init => I
  <2> SUFFICES ASSUME Init PROVE I  OBVIOUS
  <2>1. Core /\ MarksMatchChains /\ ObstructionInv
    BY InitCore DEF Core
  <2>2. ChainBoxes /\ BoxesKept
    BY DEF Init, ChainBoxes, BoxesKept, Active
  <2> QED  BY <2>1, <2>2 DEF BoxesInv
<1>2. I /\ [Next]_vars => I'
  <2> SUFFICES ASSUME I, [Next]_vars PROVE I'  OBVIOUS
  <2>1. Core' /\ MarksMatchChains' /\ ObstructionInv'
    BY NextCore, NextObstruction DEF Core, MarksMatchChains
  <2>2. ASSUME NEW m \in Camera, NEW det \in Views, NEW tagged \in SUBSET Track,
               NEW case \in BOOLEAN, NEW moved \in BOOLEAN, Frame(m, det, tagged, case, moved)
        PROVE  ChainBoxes' /\ BoxesKept'
    BY <2>2, FrameBoxes DEF Frame
  <2>3. ASSUME UNCHANGED <<count, dir, inFlight, boxes, chain, lastSeen, failed>>
        PROVE  ChainBoxes' /\ BoxesKept'
    BY <2>3 DEF BoxesInv, ChainBoxes, BoxesKept, Looking, Active, Persons
  <2>4. ChainBoxes' /\ BoxesKept'
    BY <2>2, <2>3, RestUnchanged, ChainStepBoxes DEF Next
  <2> QED  BY <2>1, <2>4 DEF BoxesInv
<1>3. I => EvidenceFresh
  BY BoxesSettled DEF EvidenceFresh, ObstructionInv
<1> QED  BY <1>1, <1>2, <1>3, PTL DEF Spec

-----------------------------------------------------------------------------
(* The trip-wires.                                                           *)

HIDE InferenceAssumption
USE TripwireAssumption

\* A handler remembers a track once.
Distinct(seq) == \A i, j \in DOMAIN seq : seq[i].track = seq[j].track => i = j

-----------------------------------------------------------------------------
(* The least-recently-seen order.                                            *)

\* Without one entry, the others follow each other as before.
LEMMA Removed ==
  ASSUME NEW seq \in Seq(Sighting), NEW k \in DOMAIN seq
  PROVE  /\ RemoveAt(seq, k) \in Seq(Sighting) /\ Len(RemoveAt(seq, k)) = Len(seq) - 1
         /\ \A i \in 1..(Len(seq) - 1) :
               RemoveAt(seq, k)[i] = IF i < k THEN seq[i] ELSE seq[i + 1]
<1>1. Len(seq) \in Nat /\ k \in 1..Len(seq)
  OBVIOUS
<1> DEFINE a == SubSeq(seq, 1, k - 1)  b == SubSeq(seq, k + 1, Len(seq))
<1>2. /\ a \in Seq(Sighting) /\ Len(a) = k - 1 /\ \A i \in 1..(k - 1) : a[i] = seq[i]
  BY <1>1
<1>3. /\ b \in Seq(Sighting) /\ Len(b) = Len(seq) - k
      /\ \A i \in 1..(Len(seq) - k) : b[i] = seq[k + i]
  BY <1>1
<1>4. RemoveAt(seq, k) = a \o b
  BY DEF RemoveAt
<1> HIDE DEF a, b
<1>5. /\ a \o b \in Seq(Sighting) /\ Len(a \o b) = Len(seq) - 1
      /\ \A i \in 1..(Len(seq) - 1) : (a \o b)[i] = IF i < k THEN a[i] ELSE b[i - Len(a)]
  BY <1>1, <1>2, <1>3
<1>6. ASSUME NEW i \in 1..(Len(seq) - 1)
      PROVE  (a \o b)[i] = IF i < k THEN seq[i] ELSE seq[i + 1]
  <2>1. CASE i < k
    BY <1>1, <1>2, <1>5, <2>1
  <2>2. CASE ~ (i < k)
    <3>1. i - Len(a) \in 1..(Len(seq) - k) /\ k + (i - Len(a)) = i + 1
      BY <1>1, <1>2, <2>2
    <3> QED  BY <1>3, <1>5, <2>2, <3>1
  <2> QED  BY <2>1, <2>2
<1> QED  BY <1>4, <1>5, <1>6

\* What _last_side is after a track was touched: the track last, the others
\* before it, each once, and the one that was last next to last.
MovedToEnd(new, seq, t, side) ==
    /\ new \in Seq(Sighting) /\ Len(new) \in 1..(Len(seq) + 1) /\ Distinct(new)
    /\ new[Len(new)] = [track |-> t, side |-> side]
    /\ \A i \in 1..(Len(new) - 1) :
          \E j \in DOMAIN seq : new[i] = seq[j] /\ seq[j].track # t
    /\ seq # <<>> /\ seq[Len(seq)].track # t =>
          Len(new) > 1 /\ new[Len(new) - 1] = seq[Len(seq)]

LEMMA Touched ==
  ASSUME NEW seq \in Seq(Sighting), Distinct(seq), NEW t \in TrackId, NEW side \in Side
  PROVE  MovedToEnd(Touch(seq, t, side), seq, t, side)
<1> DEFINE x == [track |-> t, side |-> side]
<1>1. x \in Sighting /\ x.track = t
  BY DEF Sighting
<1>2. Len(seq) \in Nat /\ DOMAIN seq = 1..Len(seq)
  OBVIOUS
<1>3. ASSUME NEW rest \in Seq(Sighting), Len(rest) <= Len(seq), Distinct(rest),
             \A i \in DOMAIN rest : \E j \in DOMAIN seq : rest[i] = seq[j] /\ seq[j].track # t,
             seq # <<>> /\ seq[Len(seq)].track # t =>
                Len(rest) > 0 /\ rest[Len(rest)] = seq[Len(seq)]
      PROVE  MovedToEnd(Append(rest, x), seq, t, side)
  <2> HIDE DEF x
  <2>1. /\ Append(rest, x) \in Seq(Sighting) /\ Len(Append(rest, x)) = Len(rest) + 1
        /\ Append(rest, x)[Len(rest) + 1] = x
        /\ \A i \in 1..Len(rest) : Append(rest, x)[i] = rest[i]
        /\ Len(rest) \in Nat /\ DOMAIN rest = 1..Len(rest)
        /\ DOMAIN Append(rest, x) = 1..(Len(rest) + 1)
    BY <1>1
  <2>2. Distinct(Append(rest, x))
    BY <1>1, <1>3, <2>1 DEF Distinct
  <2> DEFINE n == Append(rest, x)
  <2>3. n \in Seq(Sighting) /\ Len(n) = Len(rest) + 1 /\ Distinct(n) /\ n[Len(rest) + 1] = x
        /\ \A i \in 1..Len(rest) : n[i] = rest[i]
    BY <2>1, <2>2
  <2> HIDE DEF n
  <2>4. Len(n) \in 1..(Len(seq) + 1) /\ n[Len(n)] = x /\ Len(n) - 1 = Len(rest)
    BY <1>2, <1>3, <2>1, <2>3
  <2>5. \A i \in 1..(Len(n) - 1) : \E j \in DOMAIN seq : n[i] = seq[j] /\ seq[j].track # t
    BY <1>3, <2>1, <2>3, <2>4
  <2>6. seq # <<>> /\ seq[Len(seq)].track # t => Len(n) > 1 /\ n[Len(n) - 1] = seq[Len(seq)]
    BY <1>3, <2>1, <2>3, <2>4
  <2> QED  BY <2>3, <2>4, <2>5, <2>6 DEF n, x, MovedToEnd
<1>4. CASE \E i \in DOMAIN seq : seq[i].track = t
  <2> DEFINE k == CHOOSE i \in DOMAIN seq : seq[i].track = t
             rest == RemoveAt(seq, k)
  <2>1. k \in 1..Len(seq) /\ seq[k].track = t
    BY <1>2, <1>4
  <2>2. Touch(seq, t, side) = Append(rest, x)
    BY <1>4 DEF Touch
  <2> HIDE DEF k
  <2>3. /\ rest \in Seq(Sighting) /\ Len(rest) = Len(seq) - 1
        /\ \A i \in 1..(Len(seq) - 1) : rest[i] = IF i < k THEN seq[i] ELSE seq[i + 1]
    BY <1>2, <2>1, Removed
  <2> HIDE DEF rest
  <2>4. DOMAIN rest = 1..(Len(seq) - 1)
    BY <2>3
  <2>5. ASSUME NEW i \in DOMAIN rest
        PROVE  /\ rest[i] = IF i < k THEN seq[i] ELSE seq[i + 1]
               /\ i \in 1..Len(seq) /\ i + 1 \in 1..Len(seq)
    BY <1>2, <2>3, <2>4, <2>5
  <2>8. Distinct(rest)
    <3> SUFFICES ASSUME NEW i \in DOMAIN rest, NEW j \in DOMAIN rest, rest[i].track = rest[j].track
                 PROVE  i = j
      BY DEF Distinct
    <3>1. \A m, n \in 1..Len(seq) : seq[m].track = seq[n].track => m = n
      BY <1>2 DEF Distinct
    <3>2. CASE i < k /\ j < k
      BY <2>5, <3>1, <3>2
    <3>3. CASE ~ (i < k) /\ ~ (j < k)
      <4>1. i + 1 = j + 1
        BY <2>5, <3>1, <3>3
      <4> QED  BY <2>4, <4>1, <1>2
    <3>4. CASE i < k /\ ~ (j < k)
      <4>1. i = j + 1
        BY <2>5, <3>1, <3>4
      <4> QED  BY <1>2, <2>1, <2>4, <3>4, <4>1
    <3>5. CASE ~ (i < k) /\ j < k
      <4>1. i + 1 = j
        BY <2>5, <3>1, <3>5
      <4> QED  BY <1>2, <2>1, <2>4, <3>5, <4>1
    <3> QED  BY <3>2, <3>3, <3>4, <3>5
  <2>6. ASSUME NEW i \in DOMAIN rest
        PROVE  \E j \in DOMAIN seq : rest[i] = seq[j] /\ seq[j].track # t
    <3>1. CASE i < k
      <4>1. i \in DOMAIN seq /\ rest[i] = seq[i] /\ i # k
        BY <1>2, <2>1, <2>5, <2>6, <3>1
      <4> QED  BY <1>2, <2>1, <4>1 DEF Distinct
    <3>2. CASE ~ (i < k)
      <4>1. i + 1 \in DOMAIN seq /\ rest[i] = seq[i + 1] /\ i + 1 # k
        BY <1>2, <2>1, <2>3, <2>4, <2>6, <3>2
      <4> QED  BY <1>2, <2>1, <4>1 DEF Distinct
    <3> QED  BY <3>1, <3>2
  <2>7. ASSUME seq # <<>>, seq[Len(seq)].track # t
        PROVE  Len(rest) > 0 /\ rest[Len(rest)] = seq[Len(seq)]
    <3>1. k < Len(seq) /\ Len(rest) = Len(seq) - 1
      BY <1>2, <2>1, <2>3, <2>7
    <3>2. Len(rest) \in 1..(Len(seq) - 1) /\ ~ (Len(rest) < k) /\ Len(rest) + 1 = Len(seq)
      BY <1>2, <2>1, <3>1
    <3> QED  BY <2>3, <3>2
  <2> HIDE DEF x
  <2>9. Len(rest) <= Len(seq)
    BY <1>2, <2>3
  <2> QED  BY <1>3, <2>2, <2>3, <2>6, <2>7, <2>8, <2>9
<1>5. CASE ~ \E i \in DOMAIN seq : seq[i].track = t
  <2>1. Touch(seq, t, side) = Append(seq, x)
    BY <1>5 DEF Touch
  <2>2. seq # <<>> => Len(seq) > 0
    BY <1>2
  <2>3. Len(seq) <= Len(seq) /\ \A i \in DOMAIN seq : seq[i] = seq[i] /\ seq[i].track # t
    BY <1>2, <1>5
  <2> HIDE DEF x
  <2> QED  BY <1>3, <2>1, <2>2, <2>3
<1> QED  BY <1>4, <1>5

\* And after _maybe_evict_last_side: the one that was last is still there.
Kept(new, seq, t, side) ==
    /\ new \in Seq(Sighting) /\ Len(new) \in 1..LastSideMax /\ Distinct(new)
    /\ new[Len(new)] = [track |-> t, side |-> side]
    /\ \A i \in 1..(Len(new) - 1) :
          \E j \in DOMAIN seq : new[i] = seq[j] /\ seq[j].track # t
    /\ EvictCount < LastSideMax /\ seq # <<>> =>
          \E i \in DOMAIN new : new[i].track = seq[Len(seq)].track

LEMMA Evicted ==
  ASSUME NEW seq \in Seq(Sighting), Len(seq) <= LastSideMax, NEW t \in TrackId, NEW side \in Side,
         NEW old, MovedToEnd(old, seq, t, side)
  PROVE  Kept(MaybeEvict(old), seq, t, side)
<1>1. /\ old \in Seq(Sighting) /\ Len(old) \in 1..(Len(seq) + 1) /\ Distinct(old)
      /\ old[Len(old)] = [track |-> t, side |-> side]
      /\ \A i \in 1..(Len(old) - 1) : \E j \in DOMAIN seq : old[i] = seq[j] /\ seq[j].track # t
      /\ seq # <<>> /\ seq[Len(seq)].track # t =>
            Len(old) > 1 /\ old[Len(old) - 1] = seq[Len(seq)]
  BY DEF MovedToEnd
<1>2. /\ Len(seq) \in Nat /\ LastSideMax \in Nat /\ EvictCount \in 1..LastSideMax
      /\ Len(old) \in Nat /\ DOMAIN old = 1..Len(old) /\ [track |-> t, side |-> side].track = t
  BY <1>1
<1>3. CASE Len(old) > LastSideMax
  <2> DEFINE new == SubSeq(old, EvictCount + 1, Len(old))
  <2>1. MaybeEvict(old) = new
    BY <1>3 DEF MaybeEvict
  <2>2. Len(old) = LastSideMax + 1
    <3>1. PICK n \in Nat, k \in Nat : n = Len(old) /\ k = Len(seq)
      BY <1>2, Zenon
    <3>2. n <= k + 1 /\ k <= LastSideMax /\ n > LastSideMax
      BY <1>1, <1>3, <3>1
    <3>3. n = LastSideMax + 1
      BY <3>2
    <3> QED  BY <3>1, <3>3
  <2>3. /\ new \in Seq(Sighting) /\ Len(new) = Len(old) - EvictCount
        /\ \A i \in 1..(Len(old) - EvictCount) : new[i] = old[i + EvictCount]
    BY <1>1, <1>2, <2>2
  <2> HIDE DEF new
  <2>4. /\ DOMAIN new = 1..Len(new) /\ Len(new) \in 1..LastSideMax
        /\ \A i \in 1..Len(new) : i + EvictCount \in 1..Len(old) /\ new[i] = old[i + EvictCount]
    BY <1>2, <2>2, <2>3
  <2>5. Distinct(new)
    <3> SUFFICES ASSUME NEW i \in 1..Len(new), NEW j \in 1..Len(new), new[i].track = new[j].track
                 PROVE  i = j
      BY <2>4 DEF Distinct
    <3>1. /\ i + EvictCount \in DOMAIN old /\ j + EvictCount \in DOMAIN old
          /\ old[i + EvictCount].track = old[j + EvictCount].track
      BY <1>2, <2>4
    <3>2. i + EvictCount = j + EvictCount
      BY <1>1, <3>1 DEF Distinct
    <3> QED  BY <1>2, <2>4, <3>2
  <2>6. new[Len(new)] = [track |-> t, side |-> side]
    <3>1. PICK n \in 1..LastSideMax : n = Len(new)
      BY <2>4
    <3>2. n \in 1..Len(new) /\ n + EvictCount = Len(old)
      BY <1>2, <2>2, <2>3, <3>1
    <3> QED  BY <1>1, <2>4, <3>1, <3>2
  <2>7. ASSUME NEW i \in 1..(Len(new) - 1)
        PROVE  \E j \in DOMAIN seq : new[i] = seq[j] /\ seq[j].track # t
    <3>1. i \in 1..Len(new) /\ i + EvictCount \in 1..(Len(old) - 1)
      BY <1>2, <2>2, <2>3, <2>4
    <3> QED  BY <1>1, <2>4, <3>1
  <2>8. ASSUME EvictCount < LastSideMax, seq # <<>>
        PROVE  \E i \in DOMAIN new : new[i].track = seq[Len(seq)].track
    <3>1. CASE seq[Len(seq)].track = t
      <4>1. Len(new) \in DOMAIN new /\ new[Len(new)].track = t
        BY <1>2, <2>4, <2>6
      <4> QED  BY <3>1, <4>1
    <3>2. CASE seq[Len(seq)].track # t
      <4>1. old[Len(old) - 1] = seq[Len(seq)]
        BY <1>1, <2>8, <3>2
      <4>2. /\ Len(new) - 1 \in 1..Len(new) /\ (Len(new) - 1) + EvictCount = Len(old) - 1
        BY <1>2, <2>2, <2>3, <2>8
      <4> QED  BY <2>4, <4>1, <4>2
    <3> QED  BY <3>1, <3>2
  <2> QED  BY <2>1, <2>3, <2>4, <2>5, <2>6, <2>7, <2>8 DEF Kept
<1>4. CASE ~ (Len(old) > LastSideMax)
  <2>1. MaybeEvict(old) = old /\ Len(old) \in 1..LastSideMax
    BY <1>1, <1>2, <1>4 DEF MaybeEvict
  <2>2. ASSUME seq # <<>> PROVE \E i \in DOMAIN old : old[i].track = seq[Len(seq)].track
    <3>1. CASE seq[Len(seq)].track = t
      <4>1. Len(old) \in DOMAIN old /\ old[Len(old)].track = t
        BY <1>1, <1>2, <2>1
      <4> QED  BY <3>1, <4>1
    <3>2. CASE seq[Len(seq)].track # t
      <4>1. Len(old) - 1 \in DOMAIN old /\ old[Len(old) - 1] = seq[Len(seq)]
        BY <1>1, <1>2, <2>1, <2>2, <3>2
      <4> QED  BY <4>1
    <3> QED  BY <3>1, <3>2
  <2> QED  BY <1>1, <2>1, <2>2 DEF Kept
<1> QED  BY <1>3, <1>4

-----------------------------------------------------------------------------
(* The sides.                                                                *)

SideTypes ==
    /\ lastSide \in [Gangway -> Seq(Sighting)]
    /\ \A c \in Gangway : Len(lastSide[c]) <= LastSideMax
    /\ balance \in [Gangway -> [TrackId -> Int]]
    /\ recent \in [Gangway -> TrackId \cup {None}]

\* A track is remembered once, with the side its crossings account for, and the
\* track seen last is the last.
Sides(c) ==
    /\ Distinct(lastSide[c])
    /\ \A i \in DOMAIN lastSide[c] :
          balance[c][lastSide[c][i].track] = Offset(lastSide[c][i].side)
    /\ recent[c] # None =>
          lastSide[c] # <<>> /\ lastSide[c][Len(lastSide[c])].track = recent[c]

SideInv == SideTypes /\ \A c \in Gangway : Sides(c)

\* The side looked up is the one of the track's only entry.
LEMMA SideOfEntry ==
  ASSUME NEW c \in Gangway, Distinct(lastSide[c]), NEW i \in DOMAIN lastSide[c]
  PROVE  SideOf(c, lastSide[c][i].track) = lastSide[c][i].side
<1>1. \A x \in ToSet(lastSide[c]) : x.track = lastSide[c][i].track => x = lastSide[c][i]
  BY DEF ToSet, Distinct
<1>2. lastSide[c][i] \in ToSet(lastSide[c])
  BY DEF ToSet
<1>3. (CHOOSE x \in ToSet(lastSide[c]) : x.track = lastSide[c][i].track) = lastSide[c][i]
  BY <1>1, <1>2
<1> QED  BY <1>3 DEF SideOf

\* A detection is kept with the step that its change of side asks for.
LEMMA KeepSides ==
  ASSUME SideInv, NEW c \in Gangway, NEW t \in TrackId, NEW side \in Side, NEW step \in Int,
         Keep(c, t, side, step),
         t \in Known(c) => Offset(SideOf(c, t)) + step = Offset(side)
  PROVE  /\ SideInv' /\ recent'[c] = t
         /\ \A d \in Gangway : d # c => recent'[d] = recent[d] /\ lastSide'[d] = lastSide[d]
         /\ EvictCount < LastSideMax /\ lastSide[c] # <<>> =>
               \E i \in DOMAIN lastSide'[c] :
                  lastSide'[c][i].track = lastSide[c][Len(lastSide[c])].track
<1>1. /\ lastSide \in [Gangway -> Seq(Sighting)] /\ lastSide[c] \in Seq(Sighting)
      /\ Len(lastSide[c]) <= LastSideMax /\ Sides(c) /\ Distinct(lastSide[c])
      /\ balance \in [Gangway -> [TrackId -> Int]] /\ balance[c] \in [TrackId -> Int]
      /\ recent \in [Gangway -> TrackId \cup {None}]
  BY DEF SideInv, SideTypes, Sides
<1> DEFINE kept == MaybeEvict(Touch(lastSide[c], t, side))
           live == {kept[i].track : i \in DOMAIN kept}
           after == [u \in TrackId |-> IF u \notin live THEN 0
                                     ELSE IF u # t THEN balance[c][u]
                                     ELSE IF t \in Known(c) THEN balance[c][u] + step
                                     ELSE Offset(side)]
<1>2. Kept(kept, lastSide[c], t, side)
  BY <1>1, Touched, Evicted
<1>3. /\ lastSide' = [lastSide EXCEPT ![c] = kept] /\ recent' = [recent EXCEPT ![c] = t]
      /\ balance' = [balance EXCEPT ![c] = after]
  BY DEF Keep
<1>4. /\ kept \in Seq(Sighting) /\ Len(kept) \in 1..LastSideMax /\ Distinct(kept)
      /\ kept[Len(kept)] = [track |-> t, side |-> side] /\ DOMAIN kept = 1..Len(kept)
      /\ \A i \in 1..(Len(kept) - 1) :
            \E j \in DOMAIN lastSide[c] : kept[i] = lastSide[c][j] /\ lastSide[c][j].track # t
      /\ EvictCount < LastSideMax /\ lastSide[c] # <<>> =>
            \E i \in DOMAIN kept : kept[i].track = lastSide[c][Len(lastSide[c])].track
  BY <1>2 DEF Kept
<1>5. Offset(side) \in Int /\ after \in [TrackId -> Int]
  BY <1>1 DEF Offset
<1> HIDE DEF kept
<1>6. /\ lastSide'[c] = kept /\ recent'[c] = t /\ balance'[c] = after
      /\ \A d \in Gangway : d # c => /\ lastSide'[d] = lastSide[d] /\ recent'[d] = recent[d]
                                    /\ balance'[d] = balance[d]
  BY <1>1, <1>3
<1>7. SideTypes'
  <2>1. /\ lastSide' \in [Gangway -> Seq(Sighting)] /\ recent' \in [Gangway -> TrackId \cup {None}]
        /\ balance' \in [Gangway -> [TrackId -> Int]]
    BY <1>1, <1>3, <1>4, <1>5
  <2>2. \A d \in Gangway : Len(lastSide'[d]) <= LastSideMax
    <3>1. Len(kept) <= LastSideMax
      BY <1>4
    <3>2. \A d \in Gangway : Len(lastSide[d]) <= LastSideMax
      BY DEF SideInv, SideTypes
    <3> QED  BY <1>6, <3>1, <3>2
  <2> QED  BY <2>1, <2>2 DEF SideTypes
<1>8. ASSUME NEW i \in DOMAIN kept PROVE after[kept[i].track] = Offset(kept[i].side)
  <2>1. kept[i].track \in live /\ kept[i].track \in TrackId
    <3>1. kept[i] \in Sighting
      BY <1>4, <1>8
    <3> QED  BY <1>8, <3>1 DEF Sighting
  <2>2. CASE i = Len(kept)
    <3>1. kept[i].track = t /\ kept[i].side = side
      BY <1>4, <2>2
    <3>2. CASE t \in Known(c)
      <4>1. PICK j \in DOMAIN lastSide[c] : lastSide[c][j].track = t
        BY <3>2 DEF Known
      <4>2. balance[c][t] = Offset(SideOf(c, t))
        BY <1>1, <4>1, SideOfEntry DEF Sides
      <4> QED  BY <2>1, <3>1, <3>2, <4>2
    <3>3. CASE t \notin Known(c)
      BY <2>1, <3>1, <3>3
    <3> QED  BY <3>2, <3>3
  <2>3. CASE i # Len(kept)
    <3>1. i \in 1..(Len(kept) - 1)
      BY <1>4, <1>8, <2>3
    <3>2. PICK j \in DOMAIN lastSide[c] : kept[i] = lastSide[c][j] /\ lastSide[c][j].track # t
      BY <1>4, <3>1
    <3>3. after[kept[i].track] = balance[c][kept[i].track]
      BY <2>1, <3>2
    <3> QED  BY <1>1, <3>2, <3>3 DEF Sides
  <2> QED  BY <2>2, <2>3
<1> HIDE DEF after
<1>9. ASSUME NEW d \in Gangway PROVE Sides(d)'
  <2>1. CASE d = c
    <3>1. kept # <<>> /\ kept[Len(kept)].track = t
      BY <1>4
    <3> QED  BY <1>4, <1>6, <1>8, <2>1, <3>1 DEF Sides
  <2>2. CASE d # c
    BY <1>6, <2>2 DEF SideInv, Sides
  <2> QED  BY <2>1, <2>2
<1> QED  BY <1>4, <1>6, <1>7, <1>9 DEF SideInv

\* The track seen last is among those remembered after the step.
RecentKept ==
    \A c \in Gangway :
        recent'[c] # None /\ recent[c] # None /\ EvictCount < LastSideMax =>
            \E i \in DOMAIN lastSide'[c] : lastSide'[c][i].track = recent[c]

\* A step that leaves the sides alone.
LEMMA SidesUnchanged ==
  ASSUME SideInv, UNCHANGED sideVars
  PROVE  SideInv' /\ RecentKept
<1>1. lastSide' = lastSide /\ balance' = balance /\ recent' = recent
  BY DEF sideVars
<1>2. SideInv'
  BY <1>1 DEF SideInv, SideTypes, Sides
<1>3. ASSUME NEW c \in Gangway, recent[c] # None
      PROVE  \E i \in DOMAIN lastSide[c] : lastSide[c][i].track = recent[c]
  <2>1. /\ lastSide[c] \in Seq(Sighting) /\ lastSide[c] # <<>>
        /\ lastSide[c][Len(lastSide[c])].track = recent[c]
    BY <1>3 DEF SideInv, SideTypes, Sides
  <2>2. Len(lastSide[c]) \in DOMAIN lastSide[c]
    BY <2>1
  <2> QED  BY <2>1, <2>2
<1> QED  BY <1>1, <1>2, <1>3 DEF RecentKept

\* A step that keeps a detection.
LEMMA SidesKept ==
  ASSUME SideInv, NEW c \in Gangway, NEW t \in TrackId, NEW side \in Side, NEW step \in Int,
         Keep(c, t, side, step),
         t \in Known(c) => Offset(SideOf(c, t)) + step = Offset(side)
  PROVE  SideInv' /\ RecentKept
<1>1. /\ SideInv' /\ recent'[c] = t
      /\ \A d \in Gangway : d # c => recent'[d] = recent[d] /\ lastSide'[d] = lastSide[d]
      /\ EvictCount < LastSideMax /\ lastSide[c] # <<>> =>
            \E i \in DOMAIN lastSide'[c] :
               lastSide'[c][i].track = lastSide[c][Len(lastSide[c])].track
  BY KeepSides
<1>2. ASSUME NEW d \in Gangway, recent[d] # None, EvictCount < LastSideMax
      PROVE  \E i \in DOMAIN lastSide'[d] : lastSide'[d][i].track = recent[d]
  <2>1. /\ lastSide[d] \in Seq(Sighting) /\ lastSide[d] # <<>>
        /\ lastSide[d][Len(lastSide[d])].track = recent[d]
    BY <1>2 DEF SideInv, SideTypes, Sides
  <2>2. CASE d = c
    BY <1>1, <1>2, <2>1, <2>2
  <2>3. CASE d # c
    <3>1. Len(lastSide[d]) \in DOMAIN lastSide[d]
      BY <2>1
    <3> QED  BY <1>1, <2>1, <2>3, <3>1
  <2> QED  BY <2>2, <2>3
<1> QED  BY <1>1, <1>2 DEF RecentKept

\* CentroidSide answers a side, and so does the memory.
LEMMA SideValues ==
  ASSUME SideInv
  PROVE  /\ \A p \in Centroid : CentroidSide(p) \in Side
         /\ \A c \in Gangway, t \in TrackId : t \in Known(c) => SideOf(c, t) \in Side
<1>1. \A p \in Centroid : CentroidSide(p) \in Side
  BY DEF CentroidSide, Side
<1>2. ASSUME NEW c \in Gangway, NEW t \in TrackId, t \in Known(c) PROVE SideOf(c, t) \in Side
  <2>1. PICK i \in DOMAIN lastSide[c] : lastSide[c][i].track = t
    BY <1>2 DEF Known
  <2>2. lastSide[c][i] \in Sighting /\ Distinct(lastSide[c])
    BY DEF SideInv, SideTypes, Sides
  <2> QED  BY <2>1, <2>2, SideOfEntry DEF Sighting
<1> QED  BY <1>1, <1>2

\* A detection, whatever it is taken for.
LEMMA DetectSides ==
  ASSUME SideInv, NEW c \in Gangway, NEW t \in TrackId, NEW p \in Centroid, NEW confident \in BOOLEAN,
         Detect(c, t, p, confident)
  PROVE  SideInv' /\ RecentKept
<1>1. PICK side \in Side : side = CentroidSide(p)
  BY SideValues
<1>2. CASE Settle(c, t, side)
  <2>1. t \in Known(c) => Offset(SideOf(c, t)) + 0 = Offset(side)
    BY <1>2 DEF Settle, Offset
  <2>2. Keep(c, t, side, 0)
    BY <1>2 DEF Settle
  <2> QED  BY <2>1, <2>2, SidesKept
<1>3. CASE Suppress(c, t, side)
  <2>1. UNCHANGED sideVars
    BY <1>3 DEF Suppress, tripwireVars
  <2> QED  BY <2>1, SidesUnchanged
<1>4. CASE Cross(c, t, side)
  <2>1. t \in Known(c) /\ SideOf(c, t) # side /\ SideOf(c, t) \in Side
    BY <1>4, SideValues DEF Cross
  <2>2. PICK step \in Int : Keep(c, t, side, step) /\ step = IF side = "to" THEN 1 ELSE -1
    BY <1>4 DEF Cross
  <2>3. Offset(SideOf(c, t)) + step = Offset(side)
    BY <2>1, <2>2 DEF Offset, Side
  <2> QED  BY <2>2, <2>3, SidesKept
<1> QED  BY <1>1, <1>2, <1>3, <1>4 DEF Detect, EntryCrossing, ExitCrossing

LEMMA NextSides ==
  ASSUME SideInv, [TripwireNext]_tripwireVars
  PROVE  SideInv' /\ RecentKept
<1>1. ASSUME NEW c \in Gangway, NEW t \in Seen[c], NEW p \in Centroid, NEW confident \in BOOLEAN,
             Detect(c, t, p, confident)
      PROVE  SideInv' /\ RecentKept
  BY <1>1, DetectSides
<1>2. CASE \/ \E k \in Crossing : StorePost(k) \/ FusePost(k)
           \/ \E h \in timers : TimerFires(h)
           \/ \E h \in fired : OrphanedExit(h)
           \/ UNCHANGED tripwireVars
  <2>1. UNCHANGED sideVars
    BY <1>2 DEF StorePost, FusePost, ExitFused, EntryFused, TimerFires, OrphanedExit, tripwireVars
  <2> QED  BY <2>1, SidesUnchanged
<1>3. CASE Restart
  <2>1. /\ \A c \in Gangway : lastSide'[c] = <<>> /\ recent'[c] = None
    BY <1>3 DEF Restart
  <2>2. SideTypes'
    BY <1>3 DEF Restart, SideTypes
  <2>3. \A c \in Gangway : Sides(c)'
    BY <2>1 DEF Sides, Distinct
  <2> QED  BY <2>1, <2>2, <2>3 DEF SideInv, RecentKept
<1> QED  BY <1>1, <1>2, <1>3 DEF TripwireNext

LEMMA InitSides == TripwireInit => SideInv
<1> SUFFICES ASSUME TripwireInit PROVE SideInv
  OBVIOUS
<1>1. \A c \in Gangway : lastSide[c] = <<>> /\ recent[c] = None
  BY DEF TripwireInit
<1>2. SideTypes
  BY DEF TripwireInit, SideTypes
<1>3. \A c \in Gangway : Sides(c)
  BY <1>1 DEF Sides, Distinct
<1> QED  BY <1>2, <1>3 DEF SideInv

\* The crossings emitted for a track account for the side it is remembered on,
\* for any wire, number of tracks, eviction and restart.
THEOREM CrossingsAlwaysMatch == TripwireSpec => []CrossingsMatchSide
<1>1. SideInv => CrossingsMatchSide
  <2> SUFFICES ASSUME SideInv, NEW c \in Gangway, NEW t \in Known(c)
               PROVE  balance[c][t] = Offset(SideOf(c, t))
    BY DEF CrossingsMatchSide
  <2>1. PICK i \in DOMAIN lastSide[c] : lastSide[c][i].track = t
    BY DEF Known
  <2> QED  BY <2>1, SideOfEntry DEF SideInv, Sides
<1>2. SideInv /\ [TripwireNext]_tripwireVars => SideInv'
  BY NextSides
<1> QED  BY <1>1, <1>2, InitSides, PTL DEF TripwireSpec

\* P9, for every size of the memory above the quarter it evicts: the track seen
\* last survives the next detection.
THEOREM RecentAlwaysSurvives == TripwireSpec => RecentSurvives
<1>1. SideInv /\ [TripwireNext]_tripwireVars => SideInv'
  BY NextSides
<1>2. SideInv /\ [TripwireNext]_tripwireVars => [RecentKept]_tripwireVars
  BY NextSides
<1> QED  BY <1>1, <1>2, InitSides, PTL DEF TripwireSpec, RecentSurvives, RecentKept

-----------------------------------------------------------------------------
(* The emissions and their timers.                                           *)

ExitTypes ==
    /\ emitting \in [Crossing -> Emission \cup {None}]
    /\ pending \in [Gangway -> [TrackId -> Crossing \cup {None}]]
    /\ timers \subseteq Handle /\ fired \subseteq Handle

Handles == timers \cup fired

\* A crossing is emitted or watched, by one handle: cancelling the timer of a
\* pending exit cancels no other exit's.
OneHandle ==
    /\ \A g, h \in Handles : g.crossing = h.crossing => g = h
    /\ \A k \in Crossing : emitting[k] # None => \A h \in Handles : h.crossing # k

\* An emission in flight: while it has yet to be stored, every record it has made
\* lost its answer.
EmissionOK(e) ==
    e # None => /\ e.phase = "fuse" => e.stored > 0 /\ e.stored <= e.lost + 1
                /\ e.phase = "store" => e.stored <= e.lost
                /\ e.fused = 0

Recorded ==
    /\ \A k \in Crossing : EmissionOK(emitting[k])
    /\ \A h \in Handles : h.stored > 0

ExitInv == ExitTypes /\ OneHandle /\ PendingWatched /\ Recorded

\* A step of the emission k: the timers and the pending exits are left alone.
LEMMA EmissionMoves ==
  ASSUME ExitInv, NEW k \in Crossing, NEW e \in Emission \cup {None}, EmissionOK(e),
         emitting' = [emitting EXCEPT ![k] = e], UNCHANGED <<pending, timers, fired>>,
         e # None => \A h \in Handles : h.crossing # k
  PROVE  ExitInv'
<1>1. /\ emitting \in [Crossing -> Emission \cup {None}] /\ emitting'[k] = e
      /\ \A j \in Crossing : j # k => emitting'[j] = emitting[j]
      /\ emitting' \in [Crossing -> Emission \cup {None}]
  BY DEF ExitInv, ExitTypes
<1>2. ExitTypes' /\ PendingWatched'
  BY <1>1 DEF ExitInv, ExitTypes, PendingWatched
<1>3. OneHandle'
  BY <1>1 DEF ExitInv, OneHandle, Handles
<1>4. Recorded'
  BY <1>1 DEF ExitInv, Recorded, EmissionOK, Handles
<1> QED  BY <1>2, <1>3, <1>4 DEF ExitInv

\* The emissions stay, some timers go and with them the exits they watched.
LEMMA HandlesGo ==
  ASSUME ExitInv, UNCHANGED emitting, timers' \cup fired' \subseteq timers \cup fired,
         pending' \in [Gangway -> [TrackId -> Crossing \cup {None}]],
         \A c \in Gangway, t \in TrackId : pending'[c][t] # None =>
            /\ pending'[c][t] = pending[c][t]
            /\ \A h \in Handles : h.cam = c /\ h.track = t /\ h.crossing = pending[c][t] =>
                  h \in timers' \cup fired'
  PROVE  ExitInv'
<1>1. ExitTypes'
  BY DEF ExitInv, ExitTypes
<1>2. OneHandle'
  BY DEF ExitInv, OneHandle, Handles
<1>3. PendingWatched'
  BY DEF ExitInv, PendingWatched, Handles
<1>4. Recorded'
  BY DEF ExitInv, Recorded, EmissionOK, Handles
<1> QED  BY <1>1, <1>2, <1>3, <1>4 DEF ExitInv

\* The next crossing has an identity that nothing of an earlier one bears.
LEMMA FreshIsFree ==
  ASSUME ExitInv, Live # Crossing
  PROVE  Fresh \in Crossing /\ emitting[Fresh] = None /\ \A h \in Handles : h.crossing # Fresh
<1>1. Live \subseteq Crossing
  BY DEF ExitInv, ExitTypes, Live, Handle
<1>2. \E k \in Crossing \ Live : TRUE
  BY <1>1
<1>3. Fresh \in Crossing \ Live
  BY <1>2 DEF Fresh
<1> QED  BY <1>3 DEF Live, Handles

\* A crossing starts its emission; of a forward exit the one before it is dropped.
LEMMA CrossExits ==
  ASSUME ExitInv, NEW c \in Gangway, NEW t \in TrackId, NEW side \in Side,
         EntryCrossing(c, t, side) \/ ExitCrossing(c, t, side)
  PROVE  ExitInv'
<1>1. Cross(c, t, side)
  BY DEF EntryCrossing, ExitCrossing
<1>2. PICK k \in Crossing : k = Fresh /\ \A h \in Handles : h.crossing # k
  BY <1>1, FreshIsFree DEF Cross
<1> DEFINE e == [cam |-> c, track |-> t,
                 traversal |-> IF side = "to" THEN "from_to" ELSE "to_from",
                 phase |-> "store", left |-> Attempts, stored |-> 0, lost |-> 0, fused |-> 0]
<1>3. e \in Emission /\ EmissionOK(e)
  BY DEF Emission, EmissionOK, Traversal
<1>4. emitting' = [emitting EXCEPT ![k] = e] /\ UNCHANGED fired
  BY <1>1, <1>2 DEF Cross
<1> HIDE DEF e
<1>5. /\ emitting \in [Crossing -> Emission \cup {None}] /\ emitting'[k] = e
      /\ \A j \in Crossing : j # k => emitting'[j] = emitting[j]
      /\ pending \in [Gangway -> [TrackId -> Crossing \cup {None}]]
  BY <1>4 DEF ExitInv, ExitTypes
<1>6. CASE UNCHANGED <<pending, timers>>
  BY <1>2, <1>3, <1>4, <1>6, EmissionMoves
<1>7. CASE /\ timers' = {h \in timers : ~ (h.cam = c /\ h.crossing = pending[c][t])}
           /\ pending' = [pending EXCEPT ![c][t] = None]
  <2>1. /\ pending' \in [Gangway -> [TrackId -> Crossing \cup {None}]] /\ pending'[c][t] = None
        /\ \A d \in Gangway, u \in TrackId : ~ (d = c /\ u = t) => pending'[d][u] = pending[d][u]
    BY <1>5, <1>7
  <2>2. ExitTypes'
    BY <1>3, <1>4, <1>5, <1>7, <2>1 DEF ExitInv, ExitTypes
  <2>3. OneHandle'
    BY <1>2, <1>4, <1>5, <1>7 DEF ExitInv, OneHandle, Handles
  <2>4. PendingWatched'
    <3> SUFFICES ASSUME NEW d \in Gangway, NEW u \in TrackId, pending'[d][u] # None
                 PROVE  \E h \in timers' \cup fired' :
                           h.cam = d /\ h.track = u /\ h.crossing = pending'[d][u]
      BY DEF PendingWatched
    <3>1. ~ (d = c /\ u = t) /\ pending'[d][u] = pending[d][u]
      BY <2>1
    <3>2. PICK h \in Handles : h.cam = d /\ h.track = u /\ h.crossing = pending[d][u]
      BY <3>1 DEF ExitInv, PendingWatched, Handles
    <3>3. ASSUME h.cam = c, h.crossing = pending[c][t] PROVE FALSE
      <4>1. PICK g \in Handles : g.cam = c /\ g.track = t /\ g.crossing = pending[c][t]
        BY <3>1, <3>2, <3>3 DEF ExitInv, PendingWatched, Handles
      <4>2. g = h
        BY <3>3, <4>1 DEF ExitInv, OneHandle
      <4> QED  BY <3>1, <3>2, <4>1, <4>2
    <3> QED  BY <1>4, <1>7, <3>1, <3>2, <3>3 DEF Handles
  <2>5. Recorded'
    BY <1>3, <1>4, <1>5, <1>7 DEF ExitInv, Recorded, EmissionOK, Handles
  <2> QED  BY <2>2, <2>3, <2>4, <2>5 DEF ExitInv
<1> QED  BY <1>6, <1>7 DEF EntryCrossing, ExitCrossing

\* Another attempt, or none: what the emission has recorded stays true of it.
LEMMA FailedOK ==
  ASSUME NEW e \in Emission, e.stored <= e.lost, e.fused = 0
  PROVE  Failed(e) \in Emission \cup {None} /\ EmissionOK(Failed(e))
<1>1. /\ e.left \in 1..Attempts /\ e.stored \in Nat /\ e.lost \in Nat
      /\ e.cam \in Gangway /\ e.track \in TrackId /\ e.traversal \in Traversal /\ e.fused \in Nat
  BY DEF Emission
<1>2. CASE e.left > 1
  <2>3. PICK n \in 1..Attempts : n = e.left - 1
    BY <1>1, <1>2
  <2> DEFINE f == [e EXCEPT !.phase = "store", !.left = n]
  <2>1. Failed(e) = f
    BY <1>2, <2>3 DEF Failed
  <2>2. f \in Emission /\ f.phase = "store" /\ f.stored = e.stored /\ f.lost = e.lost /\ f.fused = 0
    BY DEF Emission
  <2> HIDE DEF f
  <2> QED  BY <2>1, <2>2 DEF EmissionOK
<1>3. CASE ~ (e.left > 1)
  BY <1>3 DEF Failed, EmissionOK
<1> QED  BY <1>2, <1>3

\* POST /api/v1/events.
LEMMA StoreExits ==
  ASSUME ExitInv, NEW k \in Crossing, StorePost(k)
  PROVE  ExitInv'
<1>1. /\ emitting[k] \in Emission /\ emitting[k].stored <= emitting[k].lost
      /\ emitting[k].fused = 0
      /\ UNCHANGED <<pending, timers, fired>> /\ \A h \in Handles : h.crossing # k
  BY DEF StorePost, InPhase, ExitInv, ExitTypes, EmissionOK, Recorded, OneHandle
<1>2. PICK e \in Emission : e = emitting[k] /\ e.stored <= e.lost /\ e.fused = 0
  BY <1>1
<1>10. PICK n \in Nat, m \in Nat : n = e.stored + 1 /\ m = e.lost + 1
  BY DEF Emission
<1> DEFINE posted == [e EXCEPT !.stored = n]
           fuse == [posted EXCEPT !.phase = "fuse"]
           lost == [posted EXCEPT !.lost = m]
<1>3. /\ posted \in Emission /\ posted.stored = n /\ posted.lost = e.lost
      /\ posted.fused = e.fused /\ e.stored \in Nat /\ e.lost \in Nat
  BY DEF Emission
<1>4. \/ emitting' = [emitting EXCEPT ![k] = fuse]
      \/ emitting' = [emitting EXCEPT ![k] = Failed(lost)]
      \/ emitting' = [emitting EXCEPT ![k] = Failed(e)]
  <2>1. /\ posted = [e EXCEPT !.stored = @ + 1]
        /\ lost = [posted EXCEPT !.lost = @ + 1]
    BY <1>3, <1>10
  <2> HIDE DEF posted, lost
  <2> QED  BY <1>2, <2>1 DEF StorePost
<1> HIDE DEF posted
<1>5. /\ fuse \in Emission /\ fuse.stored = posted.stored /\ fuse.lost = posted.lost
      /\ fuse.fused = posted.fused /\ fuse.phase = "fuse"
  BY <1>3 DEF Emission
<1>6. /\ lost \in Emission /\ lost.stored = posted.stored /\ lost.lost = m
      /\ lost.fused = posted.fused
  BY <1>3 DEF Emission
<1> HIDE DEF fuse, lost
<1>7. CASE emitting' = [emitting EXCEPT ![k] = Failed(e)]
  BY <1>1, <1>2, <1>7, FailedOK, EmissionMoves
<1>8. CASE emitting' = [emitting EXCEPT ![k] = Failed(lost)]
  <2>1. lost.stored <= lost.lost /\ lost.fused = 0
    BY <1>2, <1>3, <1>6, <1>10
  <2> QED  BY <1>1, <1>6, <1>8, <2>1, FailedOK, EmissionMoves
<1>9. CASE emitting' = [emitting EXCEPT ![k] = fuse]
  <2>1. EmissionOK(fuse)
    BY <1>2, <1>3, <1>5, <1>10 DEF EmissionOK
  <2> QED  BY <1>1, <1>5, <1>9, <2>1, EmissionMoves
<1> QED  BY <1>4, <1>7, <1>8, <1>9

\* The POST to fusion; a from_to exit is pending and watched from then on.
LEMMA FuseExits ==
  ASSUME ExitInv, NEW k \in Crossing, FusePost(k)
  PROVE  ExitInv'
<1>1. /\ emitting[k] \in Emission /\ emitting[k] # None /\ emitting[k].stored > 0
      /\ emitting \in [Crossing -> Emission \cup {None}] /\ UNCHANGED fired
      /\ pending \in [Gangway -> [TrackId -> Crossing \cup {None}]]
      /\ emitting' = [emitting EXCEPT ![k] = None] /\ \A h \in Handles : h.crossing # k
  BY DEF FusePost, ExitFused, EntryFused, InPhase, ExitInv, ExitTypes, EmissionOK, Recorded,
         OneHandle
<1>2. CASE UNCHANGED <<pending, timers>>
  <2>1. EmissionOK(None)
    BY DEF EmissionOK
  <2> QED  BY <1>1, <1>2, <2>1, EmissionMoves
<1>3. CASE Arm(k) /\ ~ UNCHANGED <<pending, timers>>
  <2>1. PICK c \in Gangway, t \in TrackId, n \in Nat :
           c = emitting[k].cam /\ t = emitting[k].track /\ n = emitting[k].stored /\ n > 0
    BY <1>1 DEF Emission
  <2> DEFINE h == [cam |-> c, track |-> t, crossing |-> k, stored |-> n]
  <2>2. h \in Handle /\ h.cam = c /\ h.track = t /\ h.crossing = k /\ h.stored = n
    BY DEF Handle
  <2>3. timers' = timers \cup {h} /\ pending' = [pending EXCEPT ![c][t] = k]
    BY <1>3, <2>1 DEF Arm
  <2> HIDE DEF h
  <2>4. /\ pending' \in [Gangway -> [TrackId -> Crossing \cup {None}]] /\ pending'[c][t] = k
        /\ \A d \in Gangway, u \in TrackId : ~ (d = c /\ u = t) => pending'[d][u] = pending[d][u]
    BY <1>1, <2>3
  <2>5. /\ emitting' \in [Crossing -> Emission \cup {None}] /\ emitting'[k] = None
        /\ \A j \in Crossing : j # k => emitting'[j] = emitting[j]
    BY <1>1
  <2>6. ExitTypes'
    BY <1>1, <2>2, <2>3, <2>4, <2>5 DEF ExitInv, ExitTypes
  <2>7. OneHandle'
    BY <1>1, <2>2, <2>3, <2>5 DEF ExitInv, OneHandle, Handles
  <2>8. PendingWatched'
    BY <1>1, <2>2, <2>3, <2>4 DEF ExitInv, PendingWatched
  <2>9. Recorded'
    BY <1>1, <2>1, <2>2, <2>3, <2>5 DEF ExitInv, Recorded, EmissionOK, Handles
  <2> QED  BY <2>6, <2>7, <2>8, <2>9 DEF ExitInv
<1> QED  BY <1>2, <1>3 DEF FusePost, ExitFused, EntryFused

LEMMA NextExits == ExitInv /\ [TripwireNext]_tripwireVars => ExitInv'
<1> SUFFICES ASSUME ExitInv, [TripwireNext]_tripwireVars PROVE ExitInv'
  OBVIOUS
<1>1. ASSUME NEW c \in Gangway, NEW t \in Seen[c], NEW p \in Centroid, NEW confident \in BOOLEAN,
             Detect(c, t, p, confident)
      PROVE  ExitInv'
  <2>1. CASE UNCHANGED exitVars
    BY <2>1 DEF exitVars, ExitInv, ExitTypes, OneHandle, Handles, PendingWatched, Recorded, EmissionOK
  <2>2. PICK side \in Side : side = CentroidSide(p)
    BY DEF CentroidSide, Side
  <2>3. t \in TrackId
    BY <1>1
  <2> QED  BY <1>1, <2>1, <2>2, <2>3, CrossExits DEF Detect, Settle, Suppress, tripwireVars
<1>2. ASSUME NEW k \in Crossing, StorePost(k) \/ FusePost(k) PROVE ExitInv'
  BY <1>2, StoreExits, FuseExits
<1>3. ASSUME NEW h \in timers, TimerFires(h) PROVE ExitInv'
  <2>1. /\ UNCHANGED <<emitting, pending>> /\ timers' \cup fired' = timers \cup fired
    BY <1>3 DEF TimerFires
  <2>2. pending' \in [Gangway -> [TrackId -> Crossing \cup {None}]]
    BY <2>1 DEF ExitInv, ExitTypes
  <2> QED  BY <2>1, <2>2, HandlesGo DEF Handles
<1>4. ASSUME NEW h \in fired, OrphanedExit(h) PROVE ExitInv'
  <2>1. /\ UNCHANGED <<emitting, timers>> /\ fired' = fired \ {h}
        /\ pending' = [pending EXCEPT ![h.cam][h.track] = None]
        /\ pending \in [Gangway -> [TrackId -> Crossing \cup {None}]]
        /\ h.cam \in Gangway /\ h.track \in TrackId
    BY <1>4 DEF OrphanedExit, ExitInv, ExitTypes, Handle
  <2>2. /\ pending' \in [Gangway -> [TrackId -> Crossing \cup {None}]]
        /\ pending'[h.cam][h.track] = None
        /\ \A d \in Gangway, u \in TrackId :
              ~ (d = h.cam /\ u = h.track) => pending'[d][u] = pending[d][u]
    BY <2>1
  <2> QED  BY <2>1, <2>2, HandlesGo DEF Handles
<1>5. CASE Restart
  <2>1. /\ \A k \in Crossing : emitting'[k] = None
        /\ \A c \in Gangway, t \in TrackId : pending'[c][t] = None
        /\ timers' = {} /\ fired' = {}
    BY <1>5 DEF Restart
  <2>2. ExitTypes'
    BY <1>5 DEF Restart, ExitTypes
  <2> QED  BY <2>1, <2>2 DEF ExitInv, OneHandle, Handles, PendingWatched, Recorded, EmissionOK
<1>6. CASE UNCHANGED tripwireVars
  BY <1>6 DEF tripwireVars, exitVars, ExitInv, ExitTypes, OneHandle, Handles, PendingWatched, Recorded, EmissionOK
<1> QED  BY <1>1, <1>2, <1>3, <1>4, <1>5, <1>6 DEF TripwireNext

\* An emission, its retries and the timer it leaves behind are about a crossing
\* that is recorded, as often as answers were lost at most, and a pending exit is
\* watched by its own timer, for any number of overlapping crossings.
THEOREM EmissionsAlwaysSound == TripwireSpec => []EmissionsSound
<1>1. TripwireInit => ExitInv
  <2> SUFFICES ASSUME TripwireInit PROVE ExitInv
    OBVIOUS
  <2>1. /\ \A k \in Crossing : emitting[k] = None
        /\ \A c \in Gangway, t \in TrackId : pending[c][t] = None
        /\ timers = {} /\ fired = {}
    BY DEF TripwireInit
  <2>2. ExitTypes
    BY DEF TripwireInit, ExitTypes
  <2> QED  BY <2>1, <2>2 DEF ExitInv, OneHandle, Handles, PendingWatched, Recorded, EmissionOK
<1>2. SideInv /\ [TripwireNext]_tripwireVars => SideInv'
  BY NextSides
<1>3. SideInv /\ ExitInv => EmissionsSound
  <2> SUFFICES ASSUME SideInv, ExitInv PROVE EmissionsSound
    OBVIOUS
  <2>1. TripwireTypeOK /\ PendingWatched
    BY DEF SideInv, SideTypes, ExitInv, ExitTypes, TripwireTypeOK
  <2>2. ReportedIsStored
    BY DEF ExitInv, Recorded, EmissionOK, Handles, ReportedIsStored, InPhase
  <2>3. CopiesNeedLostAnswers
    <3> SUFFICES ASSUME NEW k \in Crossing, emitting[k] # None
                 PROVE  emitting[k].stored <= emitting[k].lost + 1 /\ emitting[k].fused = 0
      BY DEF CopiesNeedLostAnswers
    <3>1. emitting[k] \in Emission /\ EmissionOK(emitting[k])
      BY DEF ExitInv, ExitTypes, Recorded
    <3> QED  BY <3>1 DEF Emission, EmissionOK
  <2> QED  BY <2>1, <2>2, <2>3 DEF EmissionsSound
<1> QED  BY <1>1, <1>2, <1>3, InitSides, NextExits, PTL DEF TripwireSpec

=============================================================================
