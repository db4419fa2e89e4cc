---------------------------- MODULE WsFanoutProofs ----------------------------
(***************************************************************************)
(* For any number of clients, events, replay depths and queue sizes: the   *)
(* replay and the live stream of a WebSocket client meet without a gap and *)
(* without a duplicate.                                                    *)
(***************************************************************************)
EXTENDS WsFanout, FiniteSetTheorems, WellFoundedInduction, TLAPS

USE FanoutAssumption DEF Event, NoEvent

(* The inductive invariant, for one client.  Where an endpoint stands says   *)
(* which of its parts are in use.                                            *)
Phases(s) ==
    /\ phase[s] = "closed" =>
          queue[s] = <<>> /\ dropped[s] = {} /\ older[s] = {}
    /\ phase[s] \in {"closed", "registered"} => received[s] = <<>> /\ replayed[s] = {}
    /\ phase[s] # "replaying" => rows[s] = {}
    /\ phase[s] # "live" => sending[s] = NoEvent

\* An event goes through the handler, the queue and the writer once: it is in one
\* of them at a time, and once it is past the handler it does not come back.
OnePlace(s) ==
    /\ IsInjective(queue[s])
    /\ ToSet(queue[s]) \subseteq stored \ posting
    /\ sending[s] # NoEvent =>
          sending[s] \in stored \ (posting \cup ToSet(queue[s]) \cup ToSet(received[s]))

\* What was received and is still to come the other way is noted as replayed.
Noted(s) ==
    /\ replayed[s] \subseteq ToSet(received[s])
    /\ ToSet(received[s]) \cap (posting \cup ToSet(queue[s])) \subseteq replayed[s]
    /\ ToSet(received[s]) \subseteq stored /\ rows[s] \subseteq stored \ ToSet(received[s])

\* NoGap of one client and one event.
Covered(s, e) ==
    \/ e \in ToSet(received[s]) \/ OnItsWay(s, e)
    \/ e \in dropped[s]
    \/ /\ e \in older[s]
       /\ Cardinality({f \in ToSet(received[s]) \cup rows[s] : f > e}) >= Depth[s]

ClientOK(s) ==
    /\ Phases(s) /\ OnePlace(s) /\ Noted(s) /\ IsInjective(received[s])
    /\ phase[s] \in {"replaying", "live"} =>
          \A e \in stored : Matches(s, e) => Covered(s, e)

FanoutInv == TypeOK /\ \A s \in Sub : ClientOK(s)

-----------------------------------------------------------------------------
(* Sets of events.                                                           *)

NatLess == {p \in Nat \X Nat : p[1] < p[2]}

\* The order of the naturals, as a relation that is well founded.
LEMMA NatLessFounded == IsWellFoundedOn(NatLess, Nat)
  BY NatLessThanWellFounded, Zenon DEF OpToRel, NatLess

LEMMA LeastNat ==
  ASSUME NEW S \in SUBSET Nat, S # {}
  PROVE  \E x \in S : \A y \in S : x <= y
  <1>1. PICK x \in S : \A y \in S : ~ (<<y, x>> \in NatLess)
    BY NatLessFounded, WFMin, Zenon
  <1>2. ASSUME NEW y \in S PROVE x <= y
    <2>1. x \in Nat /\ y \in Nat /\ <<y, x>> \in Nat \X Nat /\ ~ (<<y, x>> \in NatLess)
      BY <1>1
    <2>2. ~ (y < x)
      BY <2>1 DEF NatLess
    <2> QED
      BY <2>1, <2>2
  <1> QED
    BY <1>2

\* The oldest row of a replay, and the newest event of a set.
LEMMA Oldest ==
  ASSUME NEW S \in SUBSET Event, S # {} PROVE Min(S) \in S
  <1>1. S \in SUBSET Nat
    OBVIOUS
  <1>2. \E x \in S : \A y \in S : x <= y
    BY <1>1, LeastNat
  <1> QED
    BY <1>2 DEF Min

LEMMA Newest ==
  ASSUME NEW S \in SUBSET Event, S # {} PROVE \E m \in S : \A y \in S : y <= m
  <1> DEFINE D == {d \in Nat : NumEvents - d \in S}
  <1>1. \A x \in S : x \in Nat /\ NumEvents - x \in D
    OBVIOUS
  <1>2. PICK d \in D : \A y \in D : d <= y
    <2>1. D \in SUBSET Nat /\ D # {}
      BY <1>1
    <2> QED
      BY <2>1, LeastNat
  <1>3. NumEvents - d \in S
    OBVIOUS
  <1>4. ASSUME NEW y \in S PROVE y <= NumEvents - d
    <2>1. d <= NumEvents - y
      BY <1>1, <1>2
    <2> QED
      BY <2>1
  <1> QED
    BY <1>3, <1>4

\* A set of events is finite, and a part of it counts no more.
LEMMA EventsFinite ==
  ASSUME NEW S \in SUBSET Event
  PROVE  /\ IsFiniteSet(S) /\ Cardinality(S) \in Nat
         /\ \A T \in SUBSET S : Cardinality(T) \in Nat /\ Cardinality(T) <= Cardinality(S)
  <1>1. IsFiniteSet(1..NumEvents)
    BY FS_Interval
  <1>2. IsFiniteSet(S)
    BY <1>1, FS_Subset
  <1> QED
    BY <1>2, FS_Subset, FS_CardinalityType

\* With enough events to choose from, LIMIT n returns n rows.
LEMMA LastNFull ==
  ASSUME NEW G \in SUBSET Event, NEW n \in Nat, Cardinality(G) >= n
  PROVE  Cardinality(LastN(G, n)) >= n
  <1> DEFINE L == LastN(G, n)
  <1>1. L \in SUBSET G /\ Cardinality(L) \in Nat /\ Cardinality(G) \in Nat
    BY EventsFinite DEF LastN
  <1> SUFFICES ASSUME Cardinality(L) < n PROVE FALSE
    BY <1>1
  <1>2. G \ L # {} /\ G \ L \in SUBSET Event
    <2> HIDE DEF L
    <2>1. L # G
      BY <1>1
    <2> QED
      BY <1>1, <2>1
  <1>3. PICK m \in G \ L : \A y \in G \ L : y <= m
    BY <1>2, Newest
  <1>4. {f \in G : f > m} \subseteq L
    <2>1. ASSUME NEW f \in G, f > m PROVE f \in L
      BY <1>3, <2>1
    <2> QED
      BY <2>1
  <1>5. Cardinality({f \in G : f > m}) <= Cardinality(L) /\ Cardinality({f \in G : f > m}) \in Nat
    <2>1. L \in SUBSET Event
      BY <1>1
    <2> QED
      BY <1>4, <2>1, EventsFinite
  <1>6. m \in L
    BY <1>1, <1>3, <1>5 DEF LastN
  <1> QED
    BY <1>3, <1>6

\* A row that the LIMIT cut off has a full replay after it.
LEMMA CutOff ==
  ASSUME NEW S \in SUBSET Event, NEW n \in Nat, NEW e \in S, e \notin LastN(S, n)
  PROVE  Cardinality({f \in LastN(S, n) : f > e}) >= n
  <1> DEFINE G == {f \in S : f > e}
  <1>1. G \in SUBSET Event /\ Cardinality(G) \in Nat /\ ~ (Cardinality(G) < n)
    BY EventsFinite DEF LastN
  <1>2. ASSUME NEW f \in G PROVE {g \in S : g > f} = {g \in G : g > f}
    <2>1. \A g \in S : g > f => g > e
      OBVIOUS
    <2> QED
      BY <2>1
  <1>3. {f \in LastN(S, n) : f > e} = LastN(G, n)
    BY <1>2 DEF LastN
  <1>4. Cardinality(LastN(G, n)) >= n
    BY <1>1, LastNFull
  <1> QED
    BY <1>3, <1>4

-----------------------------------------------------------------------------
(* Sequences of events.                                                      *)

\* What Append adds, and what it leaves distinct.
LEMMA Appended ==
  ASSUME NEW S, NEW q \in Seq(S), NEW e \in S
  PROVE  /\ Append(q, e) \in Seq(S) /\ Len(Append(q, e)) = Len(q) + 1
         /\ ToSet(Append(q, e)) = ToSet(q) \cup {e}
         /\ IsInjective(q) /\ e \notin ToSet(q) => IsInjective(Append(q, e))
  <1>1. /\ Append(q, e) \in Seq(S) /\ Len(Append(q, e)) = Len(q) + 1 /\ Len(q) \in Nat
        /\ DOMAIN q = 1..Len(q) /\ DOMAIN Append(q, e) = 1..(Len(q) + 1)
        /\ \A i \in 1..Len(q) : Append(q, e)[i] = q[i]
        /\ Append(q, e)[Len(q) + 1] = e
    OBVIOUS
  <1>2. \A y \in ToSet(Append(q, e)) : y \in ToSet(q) \cup {e}
    BY <1>1 DEF ToSet
  <1>3. \A y \in ToSet(q) : y \in ToSet(Append(q, e))
    BY <1>1 DEF ToSet
  <1>4. e \in ToSet(Append(q, e))
    BY <1>1 DEF ToSet
  <1>5. ASSUME IsInjective(q), e \notin ToSet(q) PROVE IsInjective(Append(q, e))
    BY <1>1, <1>5 DEF IsInjective, ToSet
  <1> QED
    BY <1>1, <1>2, <1>3, <1>4, <1>5

\* What is left of a queue when its first event is taken.
LEMMA Taken ==
  ASSUME NEW S, NEW q \in Seq(S), q # <<>>, IsInjective(q)
  PROVE  /\ Head(q) \in S /\ Tail(q) \in Seq(S) /\ Len(Tail(q)) <= Len(q)
         /\ Head(q) \in ToSet(q) /\ ToSet(Tail(q)) = ToSet(q) \ {Head(q)}
         /\ IsInjective(Tail(q))
  <1>1. /\ Head(q) \in S /\ Tail(q) \in Seq(S) /\ Len(Tail(q)) = Len(q) - 1
        /\ Len(q) \in Nat \ {0} /\ Head(q) = q[1]
        /\ DOMAIN q = 1..Len(q) /\ DOMAIN Tail(q) = 1..(Len(q) - 1)
        /\ \A i \in 1..(Len(q) - 1) : Tail(q)[i] = q[i + 1]
    OBVIOUS
  <1>2. ASSUME NEW i \in 1..(Len(q) - 1) PROVE Tail(q)[i] \in ToSet(q) \ {Head(q)}
    <2>1. i + 1 \in DOMAIN q /\ 1 \in DOMAIN q /\ i + 1 # 1
      BY <1>1
    <2>2. q[i + 1] # q[1]
      BY <2>1 DEF IsInjective
    <2> QED
      BY <1>1, <2>1, <2>2 DEF ToSet
  <1>3. ASSUME NEW i \in 1..Len(q), i # 1 PROVE q[i] \in ToSet(Tail(q))
    <2>1. i - 1 \in 1..(Len(q) - 1) /\ q[(i - 1) + 1] = q[i]
      BY <1>1, <1>3
    <2> QED
      BY <1>1, <2>1 DEF ToSet
  <1>4. \A y \in ToSet(Tail(q)) : y \in ToSet(q) \ {Head(q)}
    BY <1>1, <1>2 DEF ToSet
  <1>5. \A y \in ToSet(q) \ {Head(q)} : y \in ToSet(Tail(q))
    BY <1>1, <1>3 DEF ToSet
  <1>6. Head(q) \in ToSet(q)
    BY <1>1 DEF ToSet
  <1>7. ASSUME NEW i \in 1..(Len(q) - 1), NEW j \in 1..(Len(q) - 1), Tail(q)[i] = Tail(q)[j]
        PROVE  i = j
    <2>1. i + 1 \in DOMAIN q /\ j + 1 \in DOMAIN q /\ q[i + 1] = q[j + 1]
      BY <1>1, <1>7
    <2>2. i + 1 = j + 1
      BY <2>1 DEF IsInjective
    <2> QED
      BY <2>2
  <1>8. IsInjective(Tail(q))
    BY <1>1, <1>7 DEF IsInjective
  <1> QED
    BY <1>1, <1>4, <1>5, <1>6, <1>8

LEMMA NothingThere == ToSet(<<>>) = {} /\ IsInjective(<<>>)
  BY DEF ToSet, IsInjective

-----------------------------------------------------------------------------
(* The steps.                                                                *)

\* A client whose connection is as it was, while the table is too.
Untouched(s) ==
    /\ phase'[s] = phase[s] /\ rows'[s] = rows[s] /\ replayed'[s] = replayed[s]
    /\ queue'[s] = queue[s] /\ sending'[s] = sending[s] /\ received'[s] = received[s]
    /\ dropped'[s] = dropped[s] /\ older'[s] = older[s]

LEMMA OtherClient ==
  ASSUME NEW s \in Sub, ClientOK(s), Untouched(s), UNCHANGED <<stored, posting>>
  PROVE  ClientOK(s)'
  BY DEF ClientOK, Phases, OnePlace, Noted, Covered, OnItsWay, Untouched

\* Two filters, one meaning: what the replay query selects is what the
\* broadcaster matches.
LEMMA FiltersAgree ==
  ASSUME NEW s \in Sub, NEW e \in stored PROVE e \in ReplayFilter(s) <=> Matches(s, e)
  BY DEF ReplayFilter, ReplayCoach, Matches, MatchesCoach

LEMMA InsertInv ==
  ASSUME FanoutInv, NEW e \in Event, Insert(e) PROVE FanoutInv'
  <1>1. /\ e \notin stored /\ stored' = stored \cup {e} /\ posting' = posting \cup {e}
        /\ UNCHANGED <<phase, rows, replayed, queue, sending, received, dropped, older>>
    BY DEF Insert, connVars
  <1>2. TypeOK'
    BY <1>1 DEF FanoutInv, TypeOK
  <1>3. ASSUME NEW s \in Sub PROVE ClientOK(s)'
    <2>1. ClientOK(s)
      BY DEF FanoutInv
    <2>2. /\ Phases(s)' /\ IsInjective(received[s])'
          /\ OnePlace(s)' /\ Noted(s)'
      BY <1>1, <2>1 DEF ClientOK, Phases, OnePlace, Noted
    <2>3. ASSUME phase[s] \in {"replaying", "live"}, NEW f \in stored', Matches(s, f)
          PROVE  Covered(s, f)'
      BY <1>1, <2>1, <2>3 DEF ClientOK, Covered, OnItsWay
    <2> QED
      BY <1>1, <2>2, <2>3 DEF ClientOK, Matches, MatchesCoach
  <1> QED
    BY <1>2, <1>3 DEF FanoutInv

\* A subscriber that wants the event gets it into its queue or is known to have
\* lost it.
LEMMA BroadcastInv ==
  ASSUME FanoutInv, NEW e \in Event, Broadcast(e) PROVE FanoutInv'
  <1>1. /\ e \in posting /\ posting' = posting \ {e}
        /\ UNCHANGED <<stored, phase, rows, replayed, sending, received, older>>
    BY DEF Broadcast
  <1>2. ASSUME NEW s \in Sub
        PROVE  /\ queue'[s] \in Seq(Event) /\ Len(queue'[s]) <= QueueMax
               /\ dropped'[s] \in SUBSET Event
               /\ ClientOK(s)'
    <2>1. ClientOK(s) /\ phase[s] \in {"closed", "registered", "replaying", "live"}
      BY DEF FanoutInv, TypeOK
    <2>2. PICK q \in Seq(Event) : q = queue[s] /\ Len(q) <= QueueMax
      BY DEF FanoutInv, TypeOK
    <2>3. /\ queue'[s] = IF s \in Targets(e) /\ Len(q) < QueueMax THEN Append(q, e) ELSE q
          /\ dropped'[s] = IF s \in Targets(e) /\ Len(q) = QueueMax
                           THEN dropped[s] \cup {e} ELSE dropped[s]
      BY <2>2 DEF Broadcast
    <2>4. /\ Append(q, e) \in Seq(Event) /\ Len(Append(q, e)) = Len(q) + 1 /\ Len(q) \in Nat
          /\ ToSet(Append(q, e)) = ToSet(q) \cup {e}
          /\ IsInjective(q) /\ e \notin ToSet(q) => IsInjective(Append(q, e))
      BY Appended
    <2>5. e \notin ToSet(q) /\ IsInjective(q)
      BY <1>1, <2>1, <2>2 DEF ClientOK, OnePlace
    <2>6. /\ queue'[s] \in Seq(Event) /\ Len(queue'[s]) <= QueueMax
          /\ dropped'[s] \in SUBSET Event /\ IsInjective(queue'[s])
      <3>1. CASE s \in Targets(e) /\ Len(q) < QueueMax
        <4>1. queue'[s] = Append(q, e) /\ Len(q) + 1 <= QueueMax
          BY <2>3, <2>4, <3>1
        <4> QED
          BY <2>3, <2>4, <2>5, <4>1, Zenon DEF FanoutInv, TypeOK
      <3>2. CASE ~ (s \in Targets(e) /\ Len(q) < QueueMax)
        BY <2>2, <2>3, <2>5, <3>2 DEF FanoutInv, TypeOK
      <3> QED
        BY <3>1, <3>2
    <2>7. /\ ToSet(q) \subseteq ToSet(queue'[s]) /\ ToSet(queue'[s]) \subseteq ToSet(q) \cup {e}
          /\ dropped[s] \subseteq dropped'[s]
          /\ s \in Targets(e) => e \in ToSet(queue'[s]) \cup dropped'[s]
      BY <2>2, <2>3, <2>4
    <2>8. Phases(s)'
      <3>1. phase[s] = "closed" => s \notin Targets(e)
        BY DEF Targets
      <3> QED
        BY <1>1, <2>1, <2>2, <2>3, <3>1 DEF ClientOK, Phases
    <2>9. OnePlace(s)' /\ Noted(s)'
      BY <1>1, <2>1, <2>2, <2>5, <2>6, <2>7 DEF ClientOK, OnePlace, Noted, FanoutInv, TypeOK
    <2>10. ASSUME phase[s] \in {"replaying", "live"}, NEW f \in stored, Matches(s, f)
           PROVE  Covered(s, f)'
      <3>1. f = e => s \in Targets(e)
        BY <2>10 DEF Targets
      <3>2. Covered(s, f)
        BY <2>1, <2>10 DEF ClientOK
      <3> QED
        BY <1>1, <2>2, <2>7, <3>1, <3>2 DEF Covered, OnItsWay
    <2>11. ClientOK(s)'
      BY <1>1, <2>1, <2>8, <2>9, <2>10 DEF ClientOK, Matches, MatchesCoach
    <2> QED
      BY <2>6, <2>11
  <1>3. /\ queue' = [s \in Sub |-> queue'[s]] /\ dropped' = [s \in Sub |-> dropped'[s]]
    BY DEF Broadcast
  <1>4. queue' \in [Sub -> Seq(Event)] /\ dropped' \in [Sub -> SUBSET Event]
    BY <1>2, <1>3
  <1>5. TypeOK'
    BY <1>1, <1>2, <1>4 DEF FanoutInv, TypeOK
  <1> QED
    BY <1>2, <1>5 DEF FanoutInv

\* The connection of client s, and no other, takes a step.
Solo(s) ==
    /\ UNCHANGED <<stored, posting>>
    /\ \A p \in Sub : p # s => Untouched(p)

LEMMA SoloInv ==
  ASSUME FanoutInv, NEW s \in Sub, Solo(s), TypeOK', ClientOK(s)' PROVE FanoutInv'
  <1>1. ASSUME NEW p \in Sub PROVE ClientOK(p)'
    <2>1. CASE p = s
      BY <2>1
    <2>2. CASE p # s
      BY <2>2, OtherClient DEF FanoutInv, Solo
    <2> QED
      BY <2>1, <2>2
  <1> QED
    BY <1>1 DEF FanoutInv

LEMMA RegisterInv ==
  ASSUME FanoutInv, NEW s \in Sub, Register(s) PROVE FanoutInv'
  <1>1. /\ phase[s] = "closed" /\ phase' = [phase EXCEPT ![s] = "registered"]
        /\ UNCHANGED <<stored, posting, rows, replayed, queue, sending, received, dropped, older>>
    BY DEF Register
  <1>2. TypeOK' /\ phase'[s] = "registered" /\ Solo(s)
    BY <1>1 DEF FanoutInv, TypeOK, Solo, Untouched
  <1>3. ClientOK(s)
    BY DEF FanoutInv
  <1>4. ClientOK(s)'
    BY <1>1, <1>2, <1>3 DEF ClientOK, Phases, OnePlace, Noted
  <1> QED
    BY <1>2, <1>4, SoloInv

\* The query: a matching row is to be sent, or a full replay comes after it.
LEMMA ReadReplayInv ==
  ASSUME FanoutInv, NEW s \in Sub, ReadReplay(s) PROVE FanoutInv'
  <1>1. /\ phase[s] = "registered" /\ phase' = [phase EXCEPT ![s] = "replaying"]
        /\ UNCHANGED <<stored, posting, replayed, queue, sending, received, dropped>>
    BY DEF ReadReplay
  <1>2. PICK F \in SUBSET Event : F = ReplayFilter(s) /\ F \subseteq stored
    BY DEF ReplayFilter, FanoutInv, TypeOK
  <1>3. PICK W \in SUBSET F : W = LastN(F, Depth[s])
    BY DEF LastN
  <1>4. rows' = [rows EXCEPT ![s] = W] /\ older' = [older EXCEPT ![s] = F \ W]
    BY <1>2, <1>3 DEF ReadReplay, ReplayRows
  <1>5. /\ TypeOK' /\ Solo(s)
        /\ phase'[s] = "replaying" /\ rows'[s] = W /\ older'[s] = F \ W
    BY <1>1, <1>4 DEF FanoutInv, TypeOK, Solo, Untouched
  <1>6. ClientOK(s) /\ received[s] = <<>> /\ replayed[s] = {}
    BY <1>1 DEF FanoutInv, ClientOK, Phases
  <1>7. Phases(s)' /\ OnePlace(s)' /\ Noted(s)'
    BY <1>1, <1>2, <1>3, <1>5, <1>6, NothingThere DEF ClientOK, Phases, OnePlace, Noted
  <1>8. ASSUME NEW e \in stored, Matches(s, e) PROVE Covered(s, e)'
    <2>1. e \in F
      BY <1>2, <1>8, FiltersAgree
    <2>2. CASE e \in W
      BY <1>5, <2>2 DEF Covered, OnItsWay
    <2>3. CASE e \notin W
      <3>1. Cardinality({f \in W : f > e}) >= Depth[s]
        BY <1>3, <2>1, <2>3, CutOff
      <3>2. ToSet(received'[s]) \cup rows'[s] = W
        BY <1>1, <1>5, <1>6, NothingThere
      <3>3. Cardinality({f \in ToSet(received'[s]) \cup rows'[s] : f > e}) >= Depth[s]
        BY <3>1, <3>2, Zenon
      <3> QED
        BY <1>5, <2>1, <2>3, <3>3 DEF Covered
    <2> QED
      BY <2>2, <2>3
  <1>9. ClientOK(s)'
    BY <1>1, <1>6, <1>7, <1>8 DEF ClientOK, Matches, MatchesCoach
  <1> QED
    BY <1>5, <1>9, SoloInv

\* What a client has received only adds to what comes after an event.
LEMMA ReplayStaysFull ==
  ASSUME NEW R \in SUBSET Event, NEW T \in SUBSET Event, R \subseteq T, NEW e \in Event,
         NEW n \in Nat, Cardinality({f \in R : f > e}) >= n
  PROVE  Cardinality({f \in T : f > e}) >= n
  <1>1. PICK A \in SUBSET Event : A = {f \in R : f > e}
    OBVIOUS
  <1>2. PICK B \in SUBSET Event : B = {f \in T : f > e} /\ A \in SUBSET B
    BY <1>1
  <1>3. Cardinality(A) \in Nat /\ Cardinality(B) \in Nat /\ Cardinality(A) <= Cardinality(B)
    BY <1>2, EventsFinite
  <1>4. Cardinality(A) >= n
    BY <1>1
  <1>5. Cardinality(B) >= n
    BY <1>3, <1>4
  <1> QED
    BY <1>2, <1>5

\* A client receives e, which it had not: what came after an event still does.
LEMMA ReceivedMore ==
  ASSUME TypeOK, TypeOK', NEW s \in Sub, NEW e \in stored, NEW x \in Event,
         ToSet(received'[s]) = ToSet(received[s]) \cup {x}, rows'[s] \subseteq rows[s],
         rows[s] \subseteq rows'[s] \cup {x}, ToSet(received[s]) \subseteq Event,
         UNCHANGED <<posting, queue, dropped, older>>,
         sending[s] \in {x, NoEvent},
         Covered(s, e)
  PROVE  Covered(s, e)'
  <1>1. e \in Event /\ rows[s] \in SUBSET Event /\ rows'[s] \in SUBSET Event /\ Depth[s] \in Nat
    BY DEF TypeOK
  <1>2. CASE /\ e \in older[s]
             /\ Cardinality({f \in ToSet(received[s]) \cup rows[s] : f > e}) >= Depth[s]
    <2>1. PICK R \in SUBSET Event : R = ToSet(received[s]) \cup rows[s]
      BY <1>1
    <2>2. PICK T : T = ToSet(received'[s]) \cup rows'[s]
      OBVIOUS
    <2>3. \A f : f \in T => f \in Event
      BY <1>1, <2>2
    <2>4. \A f : f \in R => f \in T
      BY <2>1, <2>2
    <2>5. T \in SUBSET Event /\ R \subseteq T
      BY <2>3, <2>4
    <2>6. Cardinality({f \in T : f > e}) >= Depth[s]
      BY <1>1, <1>2, <2>1, <2>5, ReplayStaysFull
    <2> QED
      BY <1>2, <2>2, <2>6 DEF Covered
  <1>3. CASE \/ e \in ToSet(received[s]) \/ OnItsWay(s, e) \/ e \in dropped[s]
    BY <1>1, <1>3 DEF Covered, OnItsWay
  <1> QED
    BY <1>2, <1>3 DEF Covered

LEMMA SendReplayInv ==
  ASSUME FanoutInv, NEW s \in Sub, SendReplay(s) PROVE FanoutInv'
  <1>1. /\ phase[s] = "replaying" /\ rows[s] # {}
        /\ UNCHANGED <<stored, posting, phase, queue, sending, dropped, older>>
    BY DEF SendReplay
  <1>2. ClientOK(s) /\ rows[s] \in SUBSET Event /\ replayed[s] \in SUBSET Event
    BY DEF FanoutInv, TypeOK
  <1>3. PICK x \in Event : x = Min(rows[s]) /\ x \in rows[s]
    BY <1>1, <1>2, Oldest
  <1>4. PICK r \in Seq(Event) : r = received[s]
    BY DEF FanoutInv, TypeOK
  <1>5. PICK t \in Seq(Event) : /\ t = Append(r, x) /\ ToSet(t) = ToSet(r) \cup {x}
                                /\ (IsInjective(r) /\ x \notin ToSet(r) => IsInjective(t))
    BY Appended
  <1>6. /\ replayed' = [replayed EXCEPT ![s] = @ \cup {x}]
        /\ received' = [received EXCEPT ![s] = t] /\ rows' = [rows EXCEPT ![s] = @ \ {x}]
    BY <1>3, <1>4, <1>5 DEF SendReplay
  <1>7. TypeOK'
    BY <1>1, <1>2, <1>6 DEF FanoutInv, TypeOK
  <1>8. /\ replayed'[s] = replayed[s] \cup {x} /\ received'[s] = t /\ rows'[s] = rows[s] \ {x}
        /\ Solo(s)
    BY <1>1, <1>6 DEF FanoutInv, TypeOK, Solo, Untouched
  <1>9. /\ sending[s] = NoEvent /\ x \notin ToSet(r) /\ IsInjective(r) /\ x \in stored
        /\ ToSet(r) \subseteq Event
    BY <1>1, <1>2, <1>3, <1>4 DEF ClientOK, Phases, Noted, FanoutInv, TypeOK
  <1>10. Phases(s)' /\ OnePlace(s)'
    BY <1>1, <1>2, <1>9 DEF ClientOK, Phases, OnePlace
  <1>11. Noted(s)'
    BY <1>1, <1>2, <1>4, <1>5, <1>8, <1>9 DEF ClientOK, Noted
  <1>12. ASSUME NEW e \in stored, Matches(s, e) PROVE Covered(s, e)'
    <2>1. Covered(s, e)
      BY <1>1, <1>2, <1>12 DEF ClientOK
    <2> QED
      BY <1>1, <1>4, <1>5, <1>7, <1>8, <1>9, <2>1, ReceivedMore DEF FanoutInv
  <1>13. ClientOK(s)'
    BY <1>1, <1>5, <1>8, <1>9, <1>10, <1>11, <1>12 DEF ClientOK, Matches, MatchesCoach
  <1> QED
    BY <1>7, <1>8, <1>13, SoloInv

LEMMA SubscribedInv ==
  ASSUME FanoutInv, NEW s \in Sub, Subscribed(s) PROVE FanoutInv'
  <1>1. /\ phase[s] = "replaying" /\ rows[s] = {} /\ phase' = [phase EXCEPT ![s] = "live"]
        /\ UNCHANGED <<stored, posting, rows, replayed, queue, sending, received, dropped, older>>
    BY DEF Subscribed
  <1>2. TypeOK' /\ phase'[s] = "live" /\ Solo(s)
    BY <1>1 DEF FanoutInv, TypeOK, Solo, Untouched
  <1>3. ClientOK(s)
    BY DEF FanoutInv
  <1>4. Phases(s)' /\ OnePlace(s)' /\ Noted(s)'
    BY <1>1, <1>2, <1>3 DEF ClientOK, Phases, OnePlace, Noted
  <1>5. ASSUME NEW e \in stored, Matches(s, e) PROVE Covered(s, e)'
    BY <1>1, <1>3, <1>5 DEF ClientOK, Covered, OnItsWay
  <1>6. ClientOK(s)'
    BY <1>1, <1>3, <1>4, <1>5 DEF ClientOK, Matches, MatchesCoach
  <1> QED
    BY <1>2, <1>6, SoloInv

\* The writer skips what it finds noted, which was received, and holds what it
\* does not, which was not.
LEMMA WriterGetInv ==
  ASSUME FanoutInv, NEW s \in Sub, WriterGet(s) PROVE FanoutInv'
  <1>1. /\ phase[s] = "live" /\ sending[s] = NoEvent /\ queue[s] # <<>>
        /\ UNCHANGED <<stored, posting, phase, rows, received, dropped, older>>
    BY DEF WriterGet
  <1>2. ClientOK(s) /\ IsInjective(queue[s]) /\ replayed[s] \in SUBSET Event
    BY DEF FanoutInv, ClientOK, OnePlace, TypeOK
  <1>3. PICK q \in Seq(Event) : q = queue[s] /\ Len(q) <= QueueMax /\ Len(q) \in Nat
    BY DEF FanoutInv, TypeOK
  <1>4. PICK x \in Event, t \in Seq(Event) :
           /\ x = Head(q) /\ t = Tail(q) /\ Len(t) <= QueueMax /\ IsInjective(t)
           /\ x \in ToSet(q) /\ ToSet(t) = ToSet(q) \ {x}
    <2>1. /\ Head(q) \in Event /\ Tail(q) \in Seq(Event) /\ Len(Tail(q)) <= Len(q)
          /\ Head(q) \in ToSet(q) /\ ToSet(Tail(q)) = ToSet(q) \ {Head(q)}
          /\ IsInjective(Tail(q))
      BY <1>1, <1>2, <1>3, Taken
    <2>2. Len(Tail(q)) <= QueueMax
      <3>1. Len(Tail(q)) \in Nat
        BY <2>1
      <3> QED
        BY <1>3, <2>1, <3>1
    <2> QED
      BY <2>1, <2>2
  <1>5. PICK y \in Event \cup {NoEvent} : y = IF x \in replayed[s] THEN NoEvent ELSE x
    OBVIOUS
  <1>6. /\ queue' = [queue EXCEPT ![s] = t] /\ sending' = [sending EXCEPT ![s] = y]
        /\ replayed' = [replayed EXCEPT ![s] = @ \ {x}]
    BY <1>3, <1>4, <1>5 DEF WriterGet
  <1>7. /\ queue'[s] = t /\ sending'[s] = y /\ replayed'[s] = replayed[s] \ {x} /\ Solo(s)
    BY <1>1, <1>6 DEF FanoutInv, TypeOK, Solo, Untouched
  <1>8. TypeOK'
    <2>1. \A p \in Sub : Len(queue'[p]) <= QueueMax
      BY <1>4, <1>6 DEF FanoutInv, TypeOK
    <2> QED
      BY <1>1, <1>2, <1>6, <2>1 DEF FanoutInv, TypeOK
  <1>9. x \notin posting /\ x \in stored /\ (x \notin replayed[s] => x \notin ToSet(received[s]))
    BY <1>2, <1>3, <1>4 DEF ClientOK, OnePlace, Noted
  <1>10. Phases(s)' /\ OnePlace(s)'
    BY <1>1, <1>2, <1>3, <1>4, <1>5, <1>7, <1>9 DEF ClientOK, Phases, OnePlace
  <1>11. Noted(s)'
    BY <1>1, <1>2, <1>3, <1>4, <1>7, <1>9 DEF ClientOK, Noted
  <1>12. ASSUME NEW e \in stored, Matches(s, e) PROVE Covered(s, e)'
    <2>1. Covered(s, e)
      BY <1>1, <1>2, <1>12 DEF ClientOK
    <2>2. x \in replayed[s] => x \in ToSet(received[s])
      BY <1>2 DEF ClientOK, Noted
    <2>3. e \in Event
      BY DEF FanoutInv, TypeOK
    <2> QED
      BY <1>1, <1>3, <1>4, <1>5, <1>7, <2>1, <2>2, <2>3 DEF Covered, OnItsWay
  <1>13. ClientOK(s)'
    BY <1>1, <1>2, <1>10, <1>11, <1>12 DEF ClientOK, Matches, MatchesCoach
  <1> QED
    BY <1>7, <1>8, <1>13, SoloInv

LEMMA WriterSendInv ==
  ASSUME FanoutInv, NEW s \in Sub, WriterSend(s) PROVE FanoutInv'
  <1>1. /\ sending[s] # NoEvent /\ sending' = [sending EXCEPT ![s] = NoEvent]
        /\ UNCHANGED <<stored, posting, phase, rows, replayed, queue, dropped, older>>
    BY DEF WriterSend
  <1>2. ClientOK(s)
    BY DEF FanoutInv
  <1>3. PICK x \in Event : x = sending[s]
    BY <1>1 DEF FanoutInv, TypeOK
  <1>4. PICK r \in Seq(Event) : r = received[s]
    BY DEF FanoutInv, TypeOK
  <1>5. PICK t \in Seq(Event) : /\ t = Append(r, x) /\ ToSet(t) = ToSet(r) \cup {x}
                                /\ (IsInjective(r) /\ x \notin ToSet(r) => IsInjective(t))
    BY Appended
  <1>6. received' = [received EXCEPT ![s] = t]
    BY <1>3, <1>4, <1>5 DEF WriterSend
  <1>7. TypeOK' /\ Solo(s) /\ received'[s] = t /\ sending'[s] = NoEvent
    BY <1>1, <1>6 DEF FanoutInv, TypeOK, Solo, Untouched
  <1>8. /\ x \in stored /\ x \notin posting \cup ToSet(queue[s]) \cup ToSet(r)
        /\ IsInjective(r) /\ ToSet(r) \subseteq Event /\ phase[s] = "live" /\ rows[s] = {}
    BY <1>1, <1>2, <1>3, <1>4 DEF ClientOK, Phases, OnePlace, Noted, FanoutInv, TypeOK
  <1>9. Phases(s)' /\ OnePlace(s)'
    BY <1>1, <1>2, <1>7, <1>8 DEF ClientOK, Phases, OnePlace
  <1>10. Noted(s)'
    BY <1>1, <1>2, <1>4, <1>5, <1>7, <1>8 DEF ClientOK, Noted
  <1>11. ASSUME NEW e \in stored, Matches(s, e) PROVE Covered(s, e)'
    <2>1. Covered(s, e)
      BY <1>2, <1>8, <1>11 DEF ClientOK
    <2> QED
      BY <1>1, <1>3, <1>4, <1>5, <1>7, <1>8, <2>1, ReceivedMore DEF FanoutInv
  <1>12. ClientOK(s)'
    BY <1>1, <1>5, <1>7, <1>8, <1>9, <1>10, <1>11 DEF ClientOK, Matches, MatchesCoach
  <1> QED
    BY <1>7, <1>12, SoloInv

\* A connection without anything, as at the start and after it was closed.
LEMMA EmptyConnection ==
  ASSUME NEW s \in Sub, phase[s] = "closed", rows[s] = {}, queue[s] = <<>>, received[s] = <<>>,
         sending[s] = NoEvent, replayed[s] = {}, dropped[s] = {}, older[s] = {}
  PROVE  ClientOK(s)
  BY NothingThere DEF ClientOK, Phases, OnePlace, Noted

LEMMA DisconnectInv ==
  ASSUME FanoutInv, NEW s \in Sub, Disconnect(s) PROVE FanoutInv'
  <1>1. <<>> \in Seq(Event) /\ Len(<<>>) = 0
    OBVIOUS
  <1>2. TypeOK'
    BY <1>1 DEF FanoutInv, TypeOK, Disconnect
  <1>3. Solo(s)
    BY DEF FanoutInv, TypeOK, Solo, Untouched, Disconnect
  <1>4. /\ phase'[s] = "closed" /\ rows'[s] = {} /\ queue'[s] = <<>> /\ received'[s] = <<>>
        /\ sending'[s] = NoEvent /\ replayed'[s] = {} /\ dropped'[s] = {} /\ older'[s] = {}
    BY DEF FanoutInv, TypeOK, Disconnect
  <1>5. ClientOK(s)'
    BY <1>4, NothingThere DEF ClientOK, Phases, OnePlace, Noted
  <1> QED
    BY <1>2, <1>3, <1>5, SoloInv

-----------------------------------------------------------------------------
LEMMA FanoutInitInv == Init => FanoutInv
<1> SUFFICES ASSUME Init PROVE FanoutInv
  OBVIOUS
<1>1. <<>> \in Seq(Event) /\ Len(<<>>) = 0
  OBVIOUS
<1>2. TypeOK
  BY <1>1 DEF Init, TypeOK
<1>3. \A s \in Sub : ClientOK(s)
  BY EmptyConnection DEF Init
<1> QED
  BY <1>2, <1>3 DEF FanoutInv

LEMMA FanoutNextInv == FanoutInv /\ [Next]_vars => FanoutInv'
<1> SUFFICES ASSUME FanoutInv, [Next]_vars PROVE FanoutInv'
  OBVIOUS
<1>1. CASE UNCHANGED vars
  <2>1. TypeOK' /\ UNCHANGED <<stored, posting>> /\ \A s \in Sub : Untouched(s)
    BY <1>1 DEF vars, connVars, FanoutInv, TypeOK, Untouched
  <2> QED
    BY <2>1, OtherClient DEF FanoutInv
<1>2. ASSUME NEW e \in Event, Insert(e) \/ Broadcast(e) PROVE FanoutInv'
  BY <1>2, InsertInv, BroadcastInv
<1>3. ASSUME NEW s \in Sub,
             \/ Register(s) \/ ReadReplay(s) \/ SendReplay(s) \/ Subscribed(s)
             \/ WriterGet(s) \/ WriterSend(s) \/ Disconnect(s)
      PROVE  FanoutInv'
  BY <1>3, RegisterInv, ReadReplayInv, SendReplayInv, SubscribedInv, WriterGetInv,
     WriterSendInv, DisconnectInv
<1> QED
  BY <1>1, <1>2, <1>3 DEF Next

(* AC7 and the register-first order of the endpoint, for every number of     *)
(* clients and events, every filter, replay depth and queue size: a client   *)
(* gets no event twice over one connection, and none that its filter matches *)
(* is missing, other than those a full queue dropped and those older than a  *)
(* full replay.                                                              *)
THEOREM ReplayAlwaysMeetsLive == Spec => []ReplayMeetsLive
<1>1. FanoutInv => ReplayMeetsLive
  BY DEF FanoutInv, ClientOK, Covered, ReplayMeetsLive, DeliveredOnce, NoGap
<1> QED
  BY <1>1, FanoutInitInv, FanoutNextInv, PTL DEF Spec

=============================================================================
