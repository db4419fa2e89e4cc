---------------------------- MODULE PollersProofs -----------------------------
(***************************************************************************)
(* For any number of trips, alarms, feeds, tries and lost answers: a       *)
(* journey is pushed with its own id and schedule, the event store and     *)
(* _prev_alarms part only over a lost answer, and a consumer's copy parts  *)
(* from the state only over a push that was overtaken or given up.         *)
(***************************************************************************)
EXTENDS Pollers, FiniteSetTheorems, TLAPS

USE PollersAssumption, WorldsAssumption

-----------------------------------------------------------------------------
(* The inductive invariant, in parts.                                        *)

\* The SNMP loop has an answer unless it rests.
Polling ==
    /\ snmp \in [at : {"idle", "answered", "working"}, trip : Trip \cup {None},
                 table : [Alarm -> Row] \cup {None}, todo : SUBSET Alarm]
    /\ snmp.at # "idle" => snmp.table \in [Alarm -> Row]

\* A task awaits one POST at a time: what would start another finds none under
\* way.  Versions grow with the state.
Discipline ==
    /\ source \in [Feed -> {Empty} \cup Schedule \cup Reading]
    /\ fetched \in [Feed -> {Empty} \cup Schedule \cup Reading \cup {None}]
    /\ stored \in [Alarm -> Seq({"active", "cleared"})]
    /\ Polling
    /\ post["snmp"] # None => snmp.at = "working"
    /\ \A t \in Task : post[t] \in AlarmPost => t = "snmp"
    /\ \A f \in Feed : fetched[f] # None => post[f] = None

Versions ==
    /\ ver \in Nat
    /\ newest \in [Consumer -> [Field -> Nat]] /\ dropped \in [Consumer -> [Field -> Nat]]
    /\ overtaken \in [Consumer -> SUBSET Field]
    /\ \A c \in Consumer, x \in Field : newest[c][x] <= ver
    /\ \A t \in Task : Posting(t) =>
          post[t].ver <= ver /\ (post[t].carries = Field \/ post[t].to = "fusion")

\* A context without the schedule of the journey before.
OwnSchedule(s) == s.feed["pis"] # Empty => s.under = s.journey

Schedules ==
    /\ OwnSchedule(state) /\ OwnSchedule(copy["inference"])
    /\ \A t \in Task : Posting(t) => OwnSchedule(post[t].body)

\* An id ever set is the trip's with the day it was first seen.
Ids == \A j \in used : j[1] \in Trip /\ startDates[j[1]] # None /\ j = <<j[1], startDates[j[1]]>>

\* The POST p will bring field x to consumer c.
Reaches(p, c, x) == x \in p.carries /\ (p.to = c \/ (p.to = "fusion" /\ p.carries = Field))

\* From version v on every snapshot has the current value of x; one of those was
\* delivered to c and is the last delivered or was overwritten, or is under way,
\* or was given up.
Follows(c, x, v) ==
    /\ \A t \in Task : Posting(t) /\ x \in post[t].carries /\ post[t].ver >= v =>
          post[t].body[x] = state[x]
    /\ newest[c][x] >= v => copy[c][x] = state[x] \/ x \in overtaken[c]
    /\ newest[c][x] < v =>
          \/ \E t \in Task : Posting(t) /\ Reaches(post[t], c, x) /\ post[t].ver >= v
          \/ dropped[c][x] >= v

Copies ==
    \A c \in Consumer, x \in Field :
        (x = "approach" /\ c = "inference") \/ \E v \in 0..ver : Follows(c, x, v)

\* The events of the emission under way are those of the row read.
Matches(a) ==
    \/ prevAlarms[a] = "active" /\ LastEvent(a) = "active"
    \/ prevAlarms[a] = "inactive" /\ LastEvent(a) = "cleared"
    \/ prevAlarms[a] = "unseen" /\ LastEvent(a) # "active"

EmittingStored(a) == Emitting /\ post["snmp"].alarm = a /\ post["snmp"].stored

Repeats(s) == {i \in 1..(Len(s) - 1) : s[i] = "active" /\ s[i + 1] = "active"}

\* An unanswered emission that was stored pays for one repetition, when it comes.
AlarmOK(a) ==
    /\ IF EmittingStored(a) THEN LastEvent(a) = post["snmp"].kind ELSE doubt[a] \/ Matches(a)
    /\ Cardinality(Repeats(stored[a])) + (IF doubt[a] /\ ~EmittingStored(a) THEN 1 ELSE 0)
          <= unanswered[a]

Alarms ==
    /\ doubt \in [Alarm -> BOOLEAN] /\ unanswered \in [Alarm -> Nat]
    /\ Emitting => LET a == post["snmp"].alarm IN
          /\ post["snmp"].kind = IF snmp.table[a] = "active" THEN "active" ELSE "cleared"
          /\ prevAlarms[a] # snmp.table[a]
    /\ \A a \in Alarm : AlarmOK(a)

-----------------------------------------------------------------------------
(* The POSTs.                                                                *)

\* What a context POST under way is.
LEMMA PostTypes ==
  ASSUME TypeOK, NEW t \in Task
  PROVE  /\ post[t] \in ContextPost \cup AlarmPost \cup {None}
         /\ Posting(t) <=> post[t] \in ContextPost
         /\ Posting(t) => /\ post[t].to \in Consumer /\ post[t].body \in ContextState
                          /\ post[t].carries \in {Field, {"journey", "approach"}}
                          /\ post[t].ver \in Nat /\ post[t].tries \in 1..MaxAttempts
<1>1. post[t] \in ContextPost \cup AlarmPost \cup {None}
  BY DEF TypeOK
<1>2. post[t] \in AlarmPost => post[t].to = "event-store" /\ post[t] # None
  BY DEF AlarmPost
<1>3. post[t] \in ContextPost => /\ post[t].to \in Consumer /\ post[t].body \in ContextState
                                 /\ post[t].carries \in {Field, {"journey", "approach"}}
                                 /\ post[t].ver \in Nat /\ post[t].tries \in 1..MaxAttempts
                                 /\ post[t] # None
  BY DEF ContextPost
<1> QED  BY <1>1, <1>2, <1>3 DEF Posting, Consumer

\* A push begins as a POST to fusion.
LEMMA NewPost ==
  ASSUME NEW s \in ContextState, NEW C \in {Field, {"journey", "approach"}}, NEW v \in Nat
  PROVE  LET p == [to |-> "fusion", carries |-> C, body |-> s, ver |-> v, tries |-> 1] IN
         /\ p \in ContextPost /\ p # None /\ p.to = "fusion" /\ p.carries = C /\ p.body = s
         /\ p.ver = v
  BY DEF ContextPost, Consumer

\* The context POSTs, the state and the copies are left alone.
LEMMA QuietStep ==
  ASSUME TypeOK, Versions, Schedules, Copies, UNCHANGED <<state, ver, copy, newest, dropped, overtaken>>,
         \A t \in Task : (Posting(t)' <=> Posting(t)) /\ (Posting(t) => post'[t] = post[t])
  PROVE  Versions' /\ Schedules' /\ Copies'
<1>1. Versions'
  BY DEF Versions
<1>2. Schedules'
  BY DEF Schedules
<1>3. ASSUME NEW c \in Consumer, NEW x \in Field, NEW v \in 0..ver, Follows(c, x, v)
      PROVE  Follows(c, x, v)'
  BY <1>3 DEF Follows, Reaches
<1>4. Copies'
  BY <1>3 DEF Copies
<1> QED  BY <1>1, <1>2, <1>4

\* The state changes and its snapshot sets out: a field that is as it was is still
\* covered, and one that is not is under way from now on.
LEMMA PushStep ==
  ASSUME TypeOK, Versions, Schedules, Copies, UNCHANGED <<copy, newest, dropped, overtaken>>,
         NEW t \in Task, ~ Posting(t), NEW p \in ContextPost, post' = [post EXCEPT ![t] = p],
         p # None, p.to = "fusion", p.ver = ver + 1, ver' = ver + 1, p.body = state',
         state' \in ContextState, OwnSchedule(state'),
         \/ p.carries = Field
         \/ /\ p.carries = {"journey", "approach"}
            /\ \A x \in Field : x # "approach" => state'[x] = state[x]
  PROVE  Versions' /\ Schedules' /\ Copies'
<1>1. /\ post'[t] = p /\ \A u \in Task : u # t => post'[u] = post[u]
  BY DEF TypeOK
<1>2. /\ Posting(t)' /\ \A u \in Task : u # t => (Posting(u)' <=> Posting(u))
      /\ \A u \in Task : Posting(u) => u # t /\ post'[u] = post[u]
  BY <1>1 DEF Posting, Consumer
<1>3. ver \in Nat /\ ver' \in Nat /\ ver < ver'
  BY DEF Versions
<1>4. Versions'
  <2>1. \A c \in Consumer, x \in Field : newest'[c][x] <= ver'
    BY <1>3 DEF Versions
  <2>2. \A u \in Task : Posting(u)' =>
           post'[u].ver <= ver' /\ (post'[u].carries = Field \/ post'[u].to = "fusion")
    <3> SUFFICES ASSUME NEW u \in Task, Posting(u)'
                 PROVE  post'[u].ver <= ver' /\ (post'[u].carries = Field \/ post'[u].to = "fusion")
      OBVIOUS
    <3>1. CASE u = t
      BY <1>1, <1>3, <3>1
    <3>2. CASE u # t
      BY <1>1, <1>2, <1>3, <3>2, PostTypes DEF Versions
    <3> QED  BY <3>1, <3>2
  <2> QED  BY <1>3, <2>1, <2>2 DEF Versions
<1>5. Schedules'
  BY <1>1, <1>2 DEF Schedules, OwnSchedule
<1>6. ASSUME NEW c \in Consumer, NEW x \in Field, ~ (x = "approach" /\ c = "inference")
      PROVE  \E v \in 0..ver' : Follows(c, x, v)'
  <2>1. PICK v \in 0..ver : Follows(c, x, v)
    BY <1>6 DEF Copies
  <2>2. newest[c][x] \in Nat /\ newest[c][x] <= ver
    BY DEF Versions
  <2>3. CASE state'[x] = state[x]
    <3>1. \A u \in Task : Posting(u)' /\ x \in post'[u].carries /\ post'[u].ver >= v =>
             post'[u].body[x] = state'[x]
      BY <1>1, <1>2, <2>1, <2>3 DEF Follows
    <3>2. newest[c][x] < v =>
             \/ \E u \in Task : Posting(u)' /\ Reaches(post'[u], c, x) /\ post'[u].ver >= v
             \/ dropped[c][x] >= v
      BY <1>2, <2>1 DEF Follows, Reaches
    <3>3. Follows(c, x, v)'
      BY <2>1, <2>3, <3>1, <3>2 DEF Follows, Reaches
    <3> QED  BY <1>3, <3>3
  <2>4. CASE state'[x] # state[x]
    <3>1. x \in p.carries /\ (c = "fusion" \/ p.carries = Field)
      BY <1>6, <2>4 DEF Consumer
    <3>2. \A u \in Task : Posting(u)' /\ post'[u].ver >= ver' => u = t
      BY <1>2, <1>3, PostTypes DEF Versions
    <3>3. Posting(t)' /\ Reaches(post'[t], c, x) /\ post'[t].ver >= ver'
      BY <1>1, <1>2, <1>3, <3>1 DEF Reaches
    <3>4. ~ (newest[c][x] >= ver')
      BY <1>3, <2>2
    <3>5. PICK w \in Nat : w = ver'
      BY <1>3
    <3>6. Follows(c, x, w)'
      <4>1. \A u \in Task : Posting(u)' /\ x \in post'[u].carries /\ post'[u].ver >= w =>
               post'[u].body[x] = state'[x]
        BY <1>1, <3>2, <3>5
      <4>2. ~ (newest'[c][x] >= w)
        BY <3>4, <3>5
      <4>3. \E u \in Task : Posting(u)' /\ Reaches(post'[u], c, x) /\ post'[u].ver >= w
        BY <3>3, <3>5
      <4> QED  BY <4>1, <4>2, <4>3 DEF Follows, Reaches
    <3> QED  BY <1>3, <3>5, <3>6
  <2> QED  BY <2>3, <2>4
<1> QED  BY <1>4, <1>5, <1>6 DEF Copies

\* Whether task t's try arrived and whether it was the last one: p goes on to
\* inference, is tried again or is over; what it carried is delivered, still under
\* way, given up or behind what was delivered before.
Delivery(t, p) ==
    /\ \A u \in Task : u # t => post'[u] = post[u]
    /\ Posting(t)' => /\ post'[t].carries = p.carries /\ post'[t].body = p.body
                      /\ post'[t].ver = p.ver
                      /\ \/ post'[t].to = p.to
                         \/ p.to = "fusion" /\ p.carries = Field /\ post'[t].to = "inference"
    /\ p.to = "fusion" /\ p.carries = Field => Posting(t)'
    /\ \A c \in Consumer, x \in Field : c # p.to \/ x \notin p.carries =>
          /\ newest'[c][x] = newest[c][x] /\ copy'[c][x] = copy[c][x]
          /\ x \in overtaken'[c] <=> x \in overtaken[c]
    /\ \A x \in p.carries :
          \/ /\ newest'[p.to][x] = IF newest[p.to][x] < p.ver THEN p.ver ELSE newest[p.to][x]
             /\ copy'[p.to][x] = p.body[x]
             /\ x \in overtaken'[p.to] <=> newest[p.to][x] > p.ver
          \/ /\ newest'[p.to][x] = newest[p.to][x] /\ copy'[p.to][x] = copy[p.to][x]
             /\ x \in overtaken'[p.to] <=> x \in overtaken[p.to]
             /\ \/ Posting(t)' /\ post'[t].to = p.to
                \/ dropped'[p.to][x] >= p.ver
                \/ newest[p.to][x] >= p.ver
    /\ \A c \in Consumer, x \in Field :
          dropped[c][x] > newest'[c][x] => dropped'[c][x] >= dropped[c][x]

\* Whatever becomes of a try, every field is still covered.
LEMMA DeliveryCopies ==
  ASSUME TypeOK, Versions, Copies, NEW t \in Task, NEW p, p = post[t], Posting(t), Delivery(t, p),
         UNCHANGED <<state, ver>>,
         dropped' \in [Consumer -> [Field -> Nat]], newest' \in [Consumer -> [Field -> Nat]]
  PROVE  Copies'
<1> SUFFICES ASSUME NEW c \in Consumer, NEW x \in Field, ~ (x = "approach" /\ c = "inference")
             PROVE  \E v \in 0..ver' : Follows(c, x, v)'
  BY DEF Copies
<1>1. PICK v \in 0..ver : Follows(c, x, v)
  BY DEF Copies
<1>2. /\ newest[c][x] \in Nat /\ newest'[c][x] \in Nat /\ dropped[c][x] \in Nat
      /\ dropped'[c][x] \in Nat /\ v \in Nat
      /\ p.ver \in Nat /\ p.to \in Consumer
      /\ \A u \in Task : Posting(u) => post[u].ver \in Nat
  BY PostTypes DEF Versions
<1>3. \A u \in Task : u # t => post'[u] = post[u] /\ (Posting(u)' <=> Posting(u))
  BY DEF Delivery, Posting
<1>4. \A u \in Task : Posting(u)' => /\ Posting(u) /\ post'[u].carries = post[u].carries
                                     /\ post'[u].body = post[u].body /\ post'[u].ver = post[u].ver
  BY <1>3 DEF Delivery
<1>5. \A u \in Task : Posting(u)' /\ x \in post'[u].carries /\ post'[u].ver >= v =>
         post'[u].body[x] = state'[x]
  BY <1>1, <1>4 DEF Follows
<1>6. ASSUME dropped[c][x] >= v, newest'[c][x] < v PROVE dropped'[c][x] >= v
  BY <1>2, <1>6 DEF Delivery
<1>7. ASSUME NEW u \in Task, u # t, Posting(u), Reaches(post[u], c, x), post[u].ver >= v
      PROVE  \E w \in Task : Posting(w)' /\ Reaches(post'[w], c, x) /\ post'[w].ver >= v
  BY <1>3, <1>7
<1>8. CASE c # p.to \/ x \notin p.carries
  <2>1. /\ newest'[c][x] = newest[c][x] /\ copy'[c][x] = copy[c][x]
        /\ x \in overtaken'[c] <=> x \in overtaken[c]
    BY <1>8 DEF Delivery
  <2>2. newest'[c][x] >= v => copy'[c][x] = state'[x] \/ x \in overtaken'[c]
    BY <1>1, <2>1 DEF Follows
  <2>3. ASSUME Reaches(p, c, x), p.ver >= v
        PROVE  Posting(t)' /\ Reaches(post'[t], c, x) /\ post'[t].ver >= v
    BY <1>2, <1>8, <2>3 DEF Delivery, Reaches, Consumer
  <2>4. newest'[c][x] < v =>
           \/ \E w \in Task : Posting(w)' /\ Reaches(post'[w], c, x) /\ post'[w].ver >= v
           \/ dropped'[c][x] >= v
    BY <1>1, <1>6, <1>7, <2>1, <2>3 DEF Follows
  <2>5. Follows(c, x, v)'
    BY <1>5, <2>2, <2>4 DEF Follows, Reaches
  <2> QED  BY <2>5
<1>9. CASE /\ c = p.to /\ x \in p.carries
           /\ newest'[c][x] = (IF newest[c][x] < p.ver THEN p.ver ELSE newest[c][x])
           /\ copy'[c][x] = p.body[x]
           /\ x \in overtaken'[c] <=> newest[c][x] > p.ver
  <2>1. newest'[c][x] >= v => copy'[c][x] = state'[x] \/ x \in overtaken'[c]
    <3>1. CASE newest[c][x] > p.ver
      BY <1>9, <3>1
    <3>2. CASE newest[c][x] <= p.ver
      <4>1. newest'[c][x] = p.ver
        <5>1. CASE newest[c][x] < p.ver
          BY <1>9, <5>1
        <5>2. CASE ~ (newest[c][x] < p.ver)
          <6>1. \A m, n \in Nat : m <= n /\ ~ (m < n) => m = n
            OBVIOUS
          <6>2. newest[c][x] = p.ver
            BY <1>2, <3>2, <5>2, <6>1, Zenon
          <6> QED  BY <1>9, <5>2, <6>2
        <5> QED  BY <5>1, <5>2
      <4> QED  BY <1>1, <1>9, <4>1 DEF Follows
    <3> QED  BY <1>2, <3>1, <3>2
  <2>2. newest'[c][x] < v => newest[c][x] < v /\ p.ver < v
    BY <1>2, <1>9
  <2>3. newest'[c][x] < v =>
           \/ \E w \in Task : Posting(w)' /\ Reaches(post'[w], c, x) /\ post'[w].ver >= v
           \/ dropped'[c][x] >= v
    BY <1>1, <1>2, <1>6, <1>7, <2>2 DEF Follows
  <2>5. Follows(c, x, v)'
    BY <1>5, <2>1, <2>3 DEF Follows, Reaches
  <2> QED  BY <2>5
<1>10. CASE /\ c = p.to /\ x \in p.carries
            /\ newest'[c][x] = newest[c][x] /\ copy'[c][x] = copy[c][x]
            /\ x \in overtaken'[c] <=> x \in overtaken[c]
            /\ \/ Posting(t)' /\ post'[t].to = c
               \/ dropped'[c][x] >= p.ver
               \/ newest[c][x] >= p.ver
  <2>2. newest'[c][x] >= v => copy'[c][x] = state'[x] \/ x \in overtaken'[c]
    BY <1>1, <1>10 DEF Follows
  <2>3. ASSUME p.ver >= v, newest'[c][x] < v
        PROVE  \/ Posting(t)' /\ Reaches(post'[t], c, x) /\ post'[t].ver >= v
               \/ dropped'[c][x] >= v
    <3>1. CASE Posting(t)' /\ post'[t].to = c
      BY <1>4, <1>10, <2>3, <3>1 DEF Reaches
    <3>2. CASE dropped'[c][x] >= p.ver
      BY <1>2, <2>3, <3>2
    <3>3. CASE newest[c][x] >= p.ver
      BY <1>2, <1>10, <2>3, <3>3
    <3> QED  BY <1>10, <3>1, <3>2, <3>3
  <2>4. newest'[c][x] < v =>
           \/ \E w \in Task : Posting(w)' /\ Reaches(post'[w], c, x) /\ post'[w].ver >= v
           \/ dropped'[c][x] >= v
    BY <1>1, <1>6, <1>7, <1>10, <2>3 DEF Follows
  <2>5. Follows(c, x, v)'
    BY <1>5, <2>2, <2>4 DEF Follows, Reaches
  <2> QED  BY <2>5
<1> QED  BY <1>8, <1>9, <1>10 DEF Delivery

\* What becomes of a POST: inference comes after fusion; another try.
LEMMA NextPosts ==
  ASSUME NEW p \in ContextPost
  PROVE  /\ ~ (p.to = "fusion" /\ p.carries = Field) => NextPost(p) = None
         /\ p.to = "fusion" /\ p.carries = Field =>
               /\ NextPost(p) \in ContextPost /\ NextPost(p).to = "inference"
               /\ NextPost(p).carries = p.carries /\ NextPost(p).body = p.body
               /\ NextPost(p).ver = p.ver
         /\ p.tries # MaxAttempts =>
               LET q == [p EXCEPT !.tries = @ + 1] IN
               /\ q \in ContextPost /\ q.to = p.to /\ q.carries = p.carries /\ q.body = p.body
               /\ q.ver = p.ver
<1>1. ~ (p.to = "fusion" /\ p.carries = Field) => NextPost(p) = None
  BY DEF NextPost
<1>2. ASSUME p.to = "fusion", p.carries = Field
      PROVE  /\ NextPost(p) \in ContextPost /\ NextPost(p).to = "inference"
             /\ NextPost(p).carries = p.carries /\ NextPost(p).body = p.body
             /\ NextPost(p).ver = p.ver
  <2> DEFINE q == [p EXCEPT !.to = "inference"]
             r == [q EXCEPT !.tries = 1]
  <2>1. NextPost(p) = r
    BY <1>2 DEF NextPost, ContextPost
  <2>2. /\ q \in ContextPost /\ q.to = "inference" /\ q.carries = p.carries
        /\ q.body = p.body /\ q.ver = p.ver
    BY DEF ContextPost, Consumer
  <2> HIDE DEF q
  <2>3. 1 \in 1..MaxAttempts
    OBVIOUS
  <2>4. /\ r \in ContextPost /\ r.to = q.to /\ r.carries = q.carries /\ r.body = q.body
        /\ r.ver = q.ver
    BY <2>2, <2>3 DEF ContextPost
  <2> HIDE DEF r
  <2> QED  BY <2>1, <2>2, <2>4
<1>3. ASSUME p.tries # MaxAttempts
      PROVE  LET q == [p EXCEPT !.tries = @ + 1] IN
             /\ q \in ContextPost /\ q.to = p.to /\ q.carries = p.carries /\ q.body = p.body
             /\ q.ver = p.ver
  <2>1. PICK n \in 1..MaxAttempts : n = p.tries + 1
    BY <1>3 DEF ContextPost
  <2> DEFINE r == [p EXCEPT !.tries = n]
  <2>2. r \in ContextPost /\ r.to = p.to /\ r.carries = p.carries /\ r.body = p.body /\ r.ver = p.ver
    BY DEF ContextPost
  <2>3. r = [p EXCEPT !.tries = @ + 1]
    BY <2>1
  <2> HIDE DEF r
  <2> QED  BY <2>2, <2>3
<1> QED  BY <1>1, <1>2, <1>3

\* The arrival of p at a consumer.
LEMMA Delivered ==
  ASSUME TypeOK, Versions, NEW p \in ContextPost, p.ver <= ver, Deliver(p)
  PROVE  /\ copy' \in [Consumer -> ContextState] /\ newest' \in [Consumer -> [Field -> Nat]]
         /\ overtaken' \in [Consumer -> SUBSET Field]
         /\ \A c \in Consumer : c # p.to => /\ copy'[c] = copy[c] /\ newest'[c] = newest[c]
                                            /\ overtaken'[c] = overtaken[c]
         /\ \A x \in Field : x \notin p.carries =>
               /\ copy'[p.to][x] = copy[p.to][x] /\ newest'[p.to][x] = newest[p.to][x]
               /\ x \in overtaken'[p.to] <=> x \in overtaken[p.to]
         /\ \A x \in p.carries :
               /\ newest'[p.to][x] = IF newest[p.to][x] < p.ver THEN p.ver ELSE newest[p.to][x]
               /\ copy'[p.to][x] = p.body[x]
               /\ x \in overtaken'[p.to] <=> newest[p.to][x] > p.ver
         /\ p.carries = Field => copy'[p.to] = p.body
<1>1. /\ p.to \in Consumer /\ p.carries \subseteq Field /\ p.body \in ContextState /\ p.ver \in Nat
      /\ copy \in [Consumer -> ContextState] /\ copy[p.to] \in ContextState
  BY DEF ContextPost, TypeOK, Field
<1>2. /\ newest \in [Consumer -> [Field -> Nat]] /\ newest[p.to] \in [Field -> Nat]
      /\ overtaken \in [Consumer -> SUBSET Field]
  BY <1>1 DEF Versions
<1> DEFINE held == [x \in Field |-> IF x \in p.carries THEN p.body[x] ELSE copy[p.to][x]]
           marks == [x \in Field |-> IF x \in p.carries THEN Later(newest[p.to][x], p.ver)
                                     ELSE newest[p.to][x]]
<1>3. /\ copy' = [copy EXCEPT ![p.to] = held] /\ newest' = [newest EXCEPT ![p.to] = marks]
      /\ overtaken' = [overtaken EXCEPT ![p.to] = (overtaken[p.to] \ p.carries) \cup Ahead(p)]
  BY DEF Deliver, Mark
<1>4. held \in ContextState /\ (p.carries = Field => held = p.body)
  BY <1>1 DEF ContextState, Field
<1>5. marks \in [Field -> Nat]
  BY <1>1, <1>2 DEF Later
<1>6. \A x \in Field : /\ x \in p.carries => held[x] = p.body[x]
                       /\ x \notin p.carries => held[x] = copy[p.to][x] /\ marks[x] = newest[p.to][x]
                       /\ x \in p.carries => marks[x] = Later(newest[p.to][x], p.ver)
  OBVIOUS
<1> HIDE DEF held, marks
<1>7. /\ copy' \in [Consumer -> ContextState] /\ newest' \in [Consumer -> [Field -> Nat]]
      /\ overtaken' \in [Consumer -> SUBSET Field]
  BY <1>1, <1>2, <1>3, <1>4, <1>5 DEF Ahead
<1>8. /\ copy'[p.to] = held /\ newest'[p.to] = marks
      /\ overtaken'[p.to] = (overtaken[p.to] \ p.carries) \cup Ahead(p)
      /\ \A c \in Consumer : c # p.to => /\ copy'[c] = copy[c] /\ newest'[c] = newest[c]
                                         /\ overtaken'[c] = overtaken[c]
  BY <1>1, <1>2, <1>3
<1>9. \A x \in Field : x \notin p.carries =>
         /\ copy'[p.to][x] = copy[p.to][x] /\ newest'[p.to][x] = newest[p.to][x]
         /\ x \in overtaken'[p.to] <=> x \in overtaken[p.to]
  BY <1>6, <1>8 DEF Ahead
<1>10. \A x \in p.carries :
         /\ newest'[p.to][x] = IF newest[p.to][x] < p.ver THEN p.ver ELSE newest[p.to][x]
         /\ copy'[p.to][x] = p.body[x]
         /\ x \in overtaken'[p.to] <=> newest[p.to][x] > p.ver
  BY <1>1, <1>6, <1>8 DEF Ahead, Later
<1> QED  BY <1>4, <1>7, <1>8, <1>9, <1>10

\* What was given up is forgotten once something newer is delivered.
LEMMA DroppedKept ==
  ASSUME NEW d \in [Consumer -> [Field -> Nat]], newest' \in [Consumer -> [Field -> Nat]],
         dropped' = StillDropped(d)
  PROVE  /\ dropped' \in [Consumer -> [Field -> Nat]]
         /\ \A c \in Consumer, x \in Field : d[c][x] > newest'[c][x] => dropped'[c][x] = d[c][x]
  BY DEF StillDropped

\* A push given up is noted with its version.
LEMMA Marked ==
  ASSUME NEW d \in [Consumer -> [Field -> Nat]], NEW p \in ContextPost
  PROVE  /\ Mark(d, p) \in [Consumer -> [Field -> Nat]]
         /\ \A c \in Consumer, x \in Field : Mark(d, p)[c][x] >= d[c][x]
         /\ \A x \in p.carries : Mark(d, p)[p.to][x] >= p.ver
<1>1. p.to \in Consumer /\ p.carries \subseteq Field /\ p.ver \in Nat
  BY DEF ContextPost, Field
<1> DEFINE m == [x \in Field |-> IF x \in p.carries THEN Later(d[p.to][x], p.ver) ELSE d[p.to][x]]
<1>2. Mark(d, p) = [d EXCEPT ![p.to] = m]
  BY DEF Mark
<1>3. /\ m \in [Field -> Nat] /\ \A x \in Field : m[x] >= d[p.to][x]
      /\ \A x \in p.carries : m[x] >= p.ver
  BY <1>1 DEF Later
<1> HIDE DEF m
<1>4. Mark(d, p)[p.to] = m /\ \A c \in Consumer : c # p.to => Mark(d, p)[c] = d[c]
  BY <1>1, <1>2
<1>5. \A c \in Consumer, x \in Field : d[c][x] >= d[c][x]
  OBVIOUS
<1> QED  BY <1>1, <1>2, <1>3, <1>4, <1>5

\* A try of task t's POST ends: it arrived or not, and q is what t awaits next.
TryEnds(t, q, d) ==
    /\ Deliver(post[t]) \/ UNCHANGED <<copy, newest, overtaken>>
    /\ post' = [post EXCEPT ![t] = q] /\ dropped' = StillDropped(d)
    /\ \/ q = NextPost(post[t]) /\ Deliver(post[t]) /\ d = dropped
       \/ q = NextPost(post[t]) /\ d = Mark(dropped, post[t])
       \/ /\ post[t].tries # MaxAttempts /\ q = [post[t] EXCEPT !.tries = @ + 1]
          /\ d = dropped

LEMMA TryStep ==
  ASSUME TypeOK, Versions, Schedules, Copies, NEW t \in Task, Posting(t), NEW q, NEW d,
         TryEnds(t, q, d), UNCHANGED <<state, ver>>
  PROVE  /\ copy' \in [Consumer -> ContextState] /\ q \in ContextPost \cup {None}
         /\ post' \in [Task -> ContextPost \cup AlarmPost \cup {None}]
         /\ Versions' /\ Schedules' /\ Copies'
<1>1. PICK p \in ContextPost : p = post[t]
  BY PostTypes
<1>2. /\ p.ver \in Nat /\ p.ver <= ver /\ p.to \in Consumer /\ p.carries \subseteq Field
      /\ p.carries = Field \/ p.to = "fusion"
      /\ OwnSchedule(p.body) /\ p.body \in ContextState /\ p.carries \in {Field, {"journey", "approach"}}
  BY <1>1, PostTypes DEF Versions, Schedules, Field
<1>3. /\ dropped \in [Consumer -> [Field -> Nat]] /\ newest \in [Consumer -> [Field -> Nat]]
      /\ overtaken \in [Consumer -> SUBSET Field] /\ copy \in [Consumer -> ContextState]
      /\ ver \in Nat
  BY DEF TypeOK, Versions
<1>4. /\ d \in [Consumer -> [Field -> Nat]]
      /\ \A c \in Consumer, x \in Field : d[c][x] >= dropped[c][x]
  <2>1. \A c \in Consumer, x \in Field : dropped[c][x] >= dropped[c][x]
    BY <1>3
  <2>2. CASE d = dropped
    BY <1>3, <2>1, <2>2
  <2>3. CASE d = Mark(dropped, p)
    BY <1>3, <2>3, Marked
  <2> QED  BY <1>1, <2>2, <2>3 DEF TryEnds
<1>5. /\ copy' \in [Consumer -> ContextState] /\ newest' \in [Consumer -> [Field -> Nat]]
      /\ overtaken' \in [Consumer -> SUBSET Field]
      /\ \A c \in Consumer, x \in Field : c # p.to \/ x \notin p.carries =>
            /\ newest'[c][x] = newest[c][x] /\ copy'[c][x] = copy[c][x]
            /\ x \in overtaken'[c] <=> x \in overtaken[c]
  <2>1. CASE Deliver(p)
    BY <1>2, <2>1, Delivered
  <2>2. CASE UNCHANGED <<copy, newest, overtaken>>
    BY <1>3, <2>2
  <2> QED  BY <1>1, <2>1, <2>2 DEF TryEnds
<1>6. /\ dropped' \in [Consumer -> [Field -> Nat]]
      /\ \A c \in Consumer, x \in Field : d[c][x] > newest'[c][x] => dropped'[c][x] = d[c][x]
  BY <1>4, <1>5, DroppedKept DEF TryEnds
<1>7. \/ q = None /\ ~ (p.to = "fusion" /\ p.carries = Field)
      \/ /\ q \in ContextPost /\ q.carries = p.carries /\ q.body = p.body /\ q.ver = p.ver
         /\ q.to = p.to \/ (p.to = "fusion" /\ p.carries = Field /\ q.to = "inference")
  BY <1>1, NextPosts DEF TryEnds
<1>8. /\ post' \in [Task -> ContextPost \cup AlarmPost \cup {None}]
      /\ post'[t] = q /\ \A u \in Task : u # t => post'[u] = post[u]
  BY <1>7 DEF TypeOK, TryEnds
<1>9. /\ Posting(t)' <=> q \in ContextPost
      /\ \A u \in Task : u # t => (Posting(u)' <=> Posting(u))
  <2>1. q \in ContextPost => q # None /\ q.to \in Consumer
    BY DEF ContextPost
  <2> QED  BY <1>7, <1>8, <2>1 DEF Posting
<1>10. ASSUME NEW x \in p.carries
       PROVE  \/ /\ newest'[p.to][x] = IF newest[p.to][x] < p.ver THEN p.ver ELSE newest[p.to][x]
                 /\ copy'[p.to][x] = p.body[x]
                 /\ x \in overtaken'[p.to] <=> newest[p.to][x] > p.ver
              \/ /\ newest'[p.to][x] = newest[p.to][x] /\ copy'[p.to][x] = copy[p.to][x]
                 /\ x \in overtaken'[p.to] <=> x \in overtaken[p.to]
                 /\ \/ Posting(t)' /\ post'[t].to = p.to
                    \/ dropped'[p.to][x] >= p.ver
                    \/ newest[p.to][x] >= p.ver
  <2>1. CASE Deliver(p)
    BY <1>2, <2>1, Delivered
  <2>2. CASE UNCHANGED <<copy, newest, overtaken>> /\ d = Mark(dropped, p)
    <3>1. d[p.to][x] >= p.ver
      BY <1>3, <2>2, Marked
    <3>2. /\ d[p.to][x] \in Nat /\ newest[p.to][x] \in Nat
          /\ d[p.to][x] > newest[p.to][x] => dropped'[p.to][x] = d[p.to][x]
      <4>1. x \in Field /\ p.to \in Consumer
        BY <1>2
      <4>2. d[p.to][x] \in Nat /\ newest[p.to][x] \in Nat
        BY <1>3, <1>4, <4>1
      <4>3. d[p.to][x] > newest'[p.to][x] => dropped'[p.to][x] = d[p.to][x]
        BY <1>6, <4>1
      <4>4. newest' = newest
        BY <2>2
      <4> QED  BY <4>2, <4>3, <4>4
    <3>3. dropped'[p.to][x] >= p.ver \/ newest[p.to][x] >= p.ver
      BY <1>2, <3>1, <3>2
    <3> QED  BY <2>2, <3>3
  <2>3. CASE /\ UNCHANGED <<copy, newest, overtaken>> /\ p.tries # MaxAttempts
             /\ q = [p EXCEPT !.tries = @ + 1]
    <3>1. q \in ContextPost /\ q.to = p.to
      BY <2>3, NextPosts
    <3> QED  BY <1>8, <1>9, <2>3, <3>1
  <2> QED  BY <1>1, <2>1, <2>2, <2>3 DEF TryEnds
<1>11. Delivery(t, p)
  <2>1. Posting(t)' => /\ post'[t].carries = p.carries /\ post'[t].body = p.body
                       /\ post'[t].ver = p.ver
                       /\ \/ post'[t].to = p.to
                          \/ p.to = "fusion" /\ p.carries = Field /\ post'[t].to = "inference"
    BY <1>7, <1>8, <1>9
  <2>2. p.to = "fusion" /\ p.carries = Field => Posting(t)'
    BY <1>7, <1>9
  <2>3. ASSUME NEW c \in Consumer, NEW x \in Field, dropped[c][x] > newest'[c][x]
        PROVE  dropped'[c][x] >= dropped[c][x]
    <3>1. /\ dropped[c][x] \in Nat /\ newest'[c][x] \in Nat /\ d[c][x] \in Nat
          /\ d[c][x] >= dropped[c][x]
      BY <1>3, <1>4, <1>5
    <3> QED  BY <1>6, <2>3, <3>1
  <2> QED  BY <1>5, <1>8, <1>10, <2>1, <2>2, <2>3 DEF Delivery
<1>12. Copies'
  BY <1>1, <1>5, <1>6, <1>11, DeliveryCopies
<1>13. \A u \in Task : Posting(u)' => /\ Posting(u) /\ post'[u].carries = post[u].carries
                                      /\ post'[u].body = post[u].body /\ post'[u].ver = post[u].ver
                                      /\ post[u].carries = Field \/ post'[u].to = post[u].to
  BY <1>1, <1>7, <1>8, <1>9
<1>14. Versions'
  <2>1. ASSUME NEW c \in Consumer, NEW x \in Field PROVE newest'[c][x] <= ver
    <3>1. newest[c][x] \in Nat /\ newest[c][x] <= ver
      BY <1>3 DEF Versions
    <3>2. newest'[c][x] = newest[c][x] \/ newest'[c][x] = p.ver
      BY <1>5, <1>10
    <3> QED  BY <1>2, <3>1, <3>2
  <2>2. ASSUME NEW u \in Task, Posting(u)'
        PROVE  post'[u].ver <= ver /\ (post'[u].carries = Field \/ post'[u].to = "fusion")
    BY <1>13, <2>2 DEF Versions
  <2> QED  BY <1>3, <1>5, <1>6, <2>1, <2>2 DEF Versions
<1>15. Schedules'
  <2>1. OwnSchedule(copy'["inference"])
    <3>1. CASE Deliver(p) /\ p.to = "inference"
      <4>1. copy'["inference"] = p.body
        BY <1>2, <3>1, Delivered
      <4> QED  BY <1>2, <4>1
    <3>2. CASE Deliver(p) /\ p.to # "inference"
      <4>1. copy'["inference"] = copy["inference"]
        BY <1>2, <3>2, Delivered DEF Consumer
      <4> QED  BY <4>1 DEF Schedules
    <3>3. CASE UNCHANGED <<copy, newest, overtaken>>
      BY <3>3 DEF Schedules
    <3> QED  BY <1>1, <3>1, <3>2, <3>3 DEF TryEnds
  <2>2. OwnSchedule(state')
    BY DEF Schedules
  <2>3. ASSUME NEW u \in Task, Posting(u)' PROVE OwnSchedule(post'[u].body)
    BY <1>13, <2>3 DEF Schedules
  <2> QED  BY <2>1, <2>2, <2>3 DEF Schedules, OwnSchedule
<1> QED  BY <1>5, <1>7, <1>8, <1>12, <1>14, <1>15

-----------------------------------------------------------------------------
(* The steps.                                                                *)

ContextInv == TypeOK /\ Discipline /\ Versions /\ Schedules /\ Copies

\* The poll goes on or rests.
LEMMA PollStep ==
  ASSUME Polling, snmp.at = "working", NEW left \in SUBSET Alarm, NEW next, PollEnds(left, next)
  PROVE  Polling' /\ (next # None => snmp'.at = "working") /\ snmp'.todo \subseteq Alarm
<1>1. CASE snmp' = Resting
  <2>1. Resting.at = "idle" /\ Resting.todo = {} /\
        Resting \in [at : {"idle", "answered", "working"}, trip : Trip \cup {None},
                     table : [Alarm -> Row] \cup {None}, todo : SUBSET Alarm]
    BY DEF Resting
  <2>2. next = None
    <3>1. ASSUME next # None PROVE FALSE
      <4>1. snmp' = [snmp EXCEPT !.todo = left]
        BY <3>1 DEF PollEnds
      <4>2. snmp'.at = "working"
        BY <4>1 DEF Polling
      <4> QED  BY <1>1, <2>1, <4>2
    <3> QED  BY <3>1
  <2> QED  BY <1>1, <2>1, <2>2 DEF Polling
<1>2. CASE snmp' = [snmp EXCEPT !.todo = left]
  <2>1. /\ snmp'.at = "working" /\ snmp'.table = snmp.table /\ snmp'.todo = left
        /\ snmp' \in [at : {"idle", "answered", "working"}, trip : Trip \cup {None},
                      table : [Alarm -> Row] \cup {None}, todo : SUBSET Alarm]
    BY <1>2 DEF Polling
  <2> QED  BY <2>1 DEF Polling
<1> QED  BY <1>1, <1>2 DEF PollEnds

\* A try ends, answered or not.
LEMMA PostStep ==
  ASSUME ContextInv, NEW t \in Task,
         PostAnswered(t) \/ \E arrived \in BOOLEAN : PostLost(t, arrived)
  PROVE  ContextInv' /\ post'[t] \in ContextPost \cup {None} /\ Posting(t)
         /\ \A u \in Task : u # t => post'[u] = post[u]
<1> USE DEF ContextInv
<1>1. /\ Posting(t) /\ UNCHANGED <<world, state, startDates, prevAlarms, connected, fetched, alarmLog,
                                   ver, used>>
      /\ alive' \in BOOLEAN /\ SnmpResumes(t, post'[t])
  BY DEF PostAnswered, PostLost, TypeOK
<1>2. \E q, d : TryEnds(t, q, d)
  <2>1. CASE PostAnswered(t)
    <3>1. TryEnds(t, NextPost(post[t]), dropped)
      BY <2>1 DEF PostAnswered, TryEnds
    <3> QED  BY <3>1
  <2>2. ASSUME NEW arrived \in BOOLEAN, PostLost(t, arrived) PROVE \E q, d : TryEnds(t, q, d)
    <3>1. Deliver(post[t]) \/ UNCHANGED <<copy, newest, overtaken>>
      BY <2>2 DEF PostLost
    <3>2. CASE post[t].tries = MaxAttempts
      <4>1. TryEnds(t, NextPost(post[t]), Mark(dropped, post[t]))
        BY <2>2, <3>1, <3>2 DEF PostLost, TryEnds
      <4> QED  BY <4>1
    <3>3. CASE post[t].tries # MaxAttempts
      <4>1. TryEnds(t, [post[t] EXCEPT !.tries = @ + 1], dropped)
        BY <2>2, <3>1, <3>3 DEF PostLost, TryEnds
      <4> QED  BY <4>1
    <3> QED  BY <3>2, <3>3
  <2> QED  BY <2>1, <2>2
<1>3. PICK q, d : TryEnds(t, q, d)
  BY <1>2
<1>4. /\ copy' \in [Consumer -> ContextState] /\ q \in ContextPost \cup {None}
      /\ post' \in [Task -> ContextPost \cup AlarmPost \cup {None}]
      /\ Versions' /\ Schedules' /\ Copies'
  BY <1>1, <1>3, TryStep
<1>5. post'[t] = q /\ \A u \in Task : u # t => post'[u] = post[u]
  BY <1>3 DEF TryEnds, TypeOK
<1>6. Polling' /\ (post'["snmp"] # None => snmp'.at = "working") /\ snmp'.todo \subseteq Alarm
  <2>1. CASE t = "snmp"
    <3>1. Polling /\ snmp.at = "working" /\ PollEnds(snmp.todo, post'["snmp"])
      BY <1>1, <2>1 DEF SnmpResumes, Discipline, Posting
    <3>2. snmp.todo \in SUBSET Alarm
      BY DEF TypeOK
    <3> QED  BY <3>1, <3>2, PollStep
  <2>2. CASE t # "snmp"
    <3>1. snmp' = snmp /\ post'["snmp"] = post["snmp"]
      BY <1>1, <1>5, <2>2 DEF SnmpResumes, Task
    <3>2. Polling'
      BY <3>1 DEF Discipline, Polling
    <3> QED  BY <3>1, <3>2 DEF Discipline, TypeOK
  <2> QED  BY <2>1, <2>2
<1>7. TypeOK'
  BY <1>1, <1>4, <1>6 DEF TypeOK, world, alarmLog, Polling
<1>8. \A u \in Task : post'[u] \in AlarmPost => u = "snmp"
  <2>1. q \notin AlarmPost
    BY <1>4 DEF ContextPost, AlarmPost, Consumer
  <2> QED  BY <1>5, <2>1 DEF Discipline
<1>9. \A f \in Feed : fetched'[f] # None => post'[f] = None
  BY <1>1, <1>5 DEF Discipline, Posting, Task
<1>10. Discipline'
  BY <1>1, <1>6, <1>8, <1>9 DEF Discipline, world, alarmLog
<1> QED  BY <1>1, <1>4, <1>5, <1>7, <1>10

\* A change of the state sets out as a push.
LEMMA DeltaStep ==
  ASSUME TypeOK, Versions, Schedules, Copies, UNCHANGED receivers, NEW t \in Task, ~ Posting(t),
         NEW s \in ContextState, OwnSchedule(s), PushContextDelta(t, s)
  PROVE  /\ state' \in ContextState /\ Versions' /\ Schedules' /\ Copies'
         /\ post' \in [Task -> ContextPost \cup AlarmPost \cup {None}] /\ post'[t] \in ContextPost
         /\ \A u \in Task : u # t => post'[u] = post[u]
<1>1. PICK v \in Nat : v = ver + 1
  BY DEF Versions
<1>2. PICK p : p = [to |-> "fusion", carries |-> Field, body |-> s, ver |-> v, tries |-> 1]
  OBVIOUS
<1>3. /\ p \in ContextPost /\ p # None /\ p.to = "fusion" /\ p.carries = Field /\ p.body = s
      /\ p.ver = v
  BY <1>2, NewPost
<1>4. post' = [post EXCEPT ![t] = p] /\ state' = s /\ ver' = ver + 1
  BY <1>1, <1>2 DEF PushContextDelta
<1>5. Versions' /\ Schedules' /\ Copies'
  BY <1>1, <1>3, <1>4, PushStep DEF receivers
<1> QED  BY <1>3, <1>4, <1>5 DEF TypeOK

\* A step that starts and ends no context POST.
LEMMA QuietContext ==
  ASSUME ContextInv, TypeOK', Discipline', UNCHANGED <<state, ver, receivers>>,
         \A t \in Task : post'[t] = post[t] \/ (~ Posting(t) /\ ~ Posting(t)')
  PROVE  ContextInv'
<1>1. \A t \in Task : (Posting(t)' <=> Posting(t)) /\ (Posting(t) => post'[t] = post[t])
  BY DEF Posting
<1> QED  BY <1>1, QuietStep DEF ContextInv, receivers

\* The sources change on their own.
LEMMA SourceStep == ContextInv /\ SourcesChange => ContextInv'
<1> SUFFICES ASSUME ContextInv, SourcesChange PROVE ContextInv'
  OBVIOUS
<1>1. /\ UNCHANGED <<state, startDates, prevAlarms, connected, snmp, fetched, alive, post, receivers,
                     alarmLog, ver>>
      /\ TripChanges \/ RowChanges \/ SourceChanges \/ TimePasses \/ Midnight
  BY DEF SourcesChange
<1>2. /\ trip' \in Trip \cup {None} /\ table' \in [Alarm -> Row] /\ arrival' \in [Schedule -> Phase]
      /\ day' \in 1..Days
      /\ source' = source \/ \E f \in Feed : \E v \in Answers(f) : source' = [source EXCEPT ![f] = v]
  <2>1. CASE TripChanges
    BY <2>1 DEF TripChanges, ContextInv, TypeOK
  <2>2. CASE RowChanges
    BY <2>2 DEF RowChanges, ContextInv, TypeOK
  <2>3. CASE SourceChanges
    BY <2>3 DEF SourceChanges, ContextInv, TypeOK
  <2>4. CASE TimePasses
    BY <2>4 DEF TimePasses, ContextInv, TypeOK, Phase
  <2>5. CASE Midnight
    BY <2>5 DEF Midnight, ContextInv, TypeOK
  <2> QED  BY <1>1, <2>1, <2>2, <2>3, <2>4, <2>5
<1>3. /\ \A f \in Feed : source'[f] \in Answers(f)
      /\ source' \in [Feed -> {Empty} \cup Schedule \cup Reading]
  <2>1. \A f \in Feed : Answers(f) \subseteq {Empty} \cup Schedule \cup Reading
    BY DEF Answers
  <2>2. /\ source \in [Feed -> {Empty} \cup Schedule \cup Reading]
        /\ \A f \in Feed : source[f] \in Answers(f)
    BY DEF ContextInv, Discipline, TypeOK
  <2>3. ASSUME NEW f \in Feed, NEW v \in Answers(f), source' = [source EXCEPT ![f] = v]
        PROVE  /\ \A g \in Feed : source'[g] \in Answers(g)
               /\ source' \in [Feed -> {Empty} \cup Schedule \cup Reading]
    BY <2>1, <2>2, <2>3
  <2> QED  BY <1>2, <2>2, <2>3
<1>4. TypeOK'
  BY <1>1, <1>2, <1>3 DEF ContextInv, TypeOK, receivers, alarmLog
<1>5. Discipline'
  BY <1>1, <1>3 DEF ContextInv, Discipline, Polling, alarmLog
<1> QED  BY <1>1, <1>4, <1>5, QuietContext

\* A poll of the agent, answered or not.
LEMMA BulkStep == ContextInv /\ (GetBulk \/ GetBulkFails) => ContextInv'
<1> SUFFICES ASSUME ContextInv, GetBulk \/ GetBulkFails PROVE ContextInv'
  OBVIOUS
<1>1. /\ snmp.at = "idle" /\ connected' \in BOOLEAN
      /\ UNCHANGED <<world, state, startDates, prevAlarms, fetched, alive, post, receivers, alarmLog, ver>>
  BY DEF GetBulk, GetBulkFails
<1>2. Polling' /\ snmp'.todo \subseteq Alarm /\ snmp'.at \in {"idle", "answered"}
  <2>1. CASE GetBulk
    <3>1. snmp' = [at |-> "answered", trip |-> trip, table |-> table, todo |-> {}]
      BY <2>1 DEF GetBulk, Resting
    <3>2. trip \in Trip \cup {None} /\ table \in [Alarm -> Row]
      BY DEF ContextInv, TypeOK
    <3> QED  BY <3>1, <3>2 DEF Polling
  <2>2. CASE GetBulkFails
    <3>1. snmp' = snmp
      BY <2>2 DEF GetBulkFails
    <3> QED  BY <1>1, <3>1 DEF ContextInv, Discipline, Polling
  <2> QED  BY <2>1, <2>2
<1>3. TypeOK'
  BY <1>1, <1>2 DEF ContextInv, TypeOK, receivers, alarmLog, world
<1>4. post["snmp"] = None
  BY <1>1 DEF ContextInv, Discipline
<1>5. Discipline'
  BY <1>1, <1>2, <1>4 DEF ContextInv, Discipline, alarmLog, world
<1> QED  BY <1>1, <1>3, <1>5, QuietContext

\* A feed reads its source and later compares.
LEMMA FetchStep ==
  ASSUME ContextInv, NEW f \in Feed, Fetch(f) PROVE ContextInv'
<1>1. /\ fetched[f] = None /\ post[f] = None /\ fetched' = [fetched EXCEPT ![f] = source[f]]
      /\ UNCHANGED <<world, state, startDates, prevAlarms, connected, snmp, alive, post, receivers,
                     alarmLog, ver>>
  BY DEF Fetch
<1>2. /\ \A g \in Feed : fetched'[g] \in Answers(g) \cup {None}
      /\ fetched' \in [Feed -> {Empty} \cup Schedule \cup Reading \cup {None}]
      /\ \A g \in Feed : fetched'[g] # None => post[g] = None
  BY <1>1 DEF ContextInv, TypeOK, Discipline
<1>3. TypeOK'
  BY <1>1, <1>2 DEF ContextInv, TypeOK, receivers, alarmLog, world
<1>4. Discipline'
  BY <1>1, <1>2 DEF ContextInv, Discipline, Polling, alarmLog, world
<1> QED  BY <1>1, <1>3, <1>4, QuietContext

LEMMA ApplyStep ==
  ASSUME ContextInv, NEW f \in Feed, Apply(f)
  PROVE  ContextInv' /\ post'["snmp"] = post["snmp"]
<1>1. /\ fetched[f] # None /\ fetched' = [fetched EXCEPT ![f] = None] /\ UpdateFeed(f, fetched[f])
      /\ UNCHANGED <<world, startDates, prevAlarms, connected, snmp, alive, receivers, alarmLog>>
  BY DEF Apply
<1>2. /\ fetched[f] \in {Empty} \cup Schedule \cup Reading /\ post[f] = None /\ f \in Task
      /\ f # "snmp" /\ "snmp" \in Task
  BY <1>1 DEF ContextInv, Discipline, Feed, Task
<1>3. /\ fetched' \in [Feed -> {Empty} \cup Schedule \cup Reading \cup {None}]
      /\ \A g \in Feed : fetched'[g] \in Answers(g) \cup {None}
      /\ \A g \in Feed : fetched'[g] # None => g # f /\ post[g] = None
  BY <1>1 DEF ContextInv, TypeOK, Discipline
<1>4. ~ Posting(f)
  BY <1>2 DEF Posting
<1>5. CASE UNCHANGED <<state, ver, post>>
  <2>1. TypeOK'
    BY <1>1, <1>3, <1>5 DEF ContextInv, TypeOK, receivers, alarmLog, world
  <2>2. Discipline'
    BY <1>1, <1>3, <1>5 DEF ContextInv, Discipline, Polling, alarmLog, world
  <2> QED  BY <1>1, <1>5, <2>1, <2>2, QuietContext
<1>6. CASE state.feed[f] # fetched[f]
  <2> DEFINE fed == [state.feed EXCEPT ![f] = fetched[f]]
             s == [state EXCEPT !.feed[f] = fetched[f],
                                !.under = IF f = "pis" THEN state.journey ELSE @]
  <2>1. state \in ContextState /\ OwnSchedule(state)
    BY DEF ContextInv, TypeOK, Schedules
  <2>2. PushContextDelta(f, s)
    BY <1>1, <1>6 DEF UpdateFeed
  <2>3. fed \in [Feed -> {Empty} \cup Schedule \cup Reading] /\ (f # "pis" => fed["pis"] = state.feed["pis"])
    BY <1>2, <2>1 DEF ContextState, Feed
  <2>4. s = [state EXCEPT !.feed = fed, !.under = IF f = "pis" THEN state.journey ELSE state.under]
    BY <2>1 DEF ContextState
  <2> HIDE DEF fed
  <2>5. s \in ContextState /\ OwnSchedule(s)
    <3>1. PICK u \in Journey : u = IF f = "pis" THEN state.journey ELSE state.under
      BY <2>1 DEF ContextState
    <3>2. s = [state EXCEPT !.feed = fed, !.under = u]
      BY <2>4, <3>1
    <3>3. s \in ContextState /\ s.feed = fed /\ s.under = u /\ s.journey = state.journey
      BY <2>1, <2>3, <3>2 DEF ContextState
    <3> HIDE DEF s
    <3> QED  BY <2>1, <2>3, <3>1, <3>3 DEF OwnSchedule
  <2> HIDE DEF s
  <2>6. /\ state' \in ContextState /\ Versions' /\ Schedules' /\ Copies'
        /\ post' \in [Task -> ContextPost \cup AlarmPost \cup {None}] /\ post'[f] \in ContextPost
        /\ \A u \in Task : u # f => post'[u] = post[u]
    BY <1>1, <1>2, <1>4, <2>2, <2>5, DeltaStep DEF ContextInv
  <2>7. TypeOK'
    BY <1>1, <1>3, <2>6 DEF ContextInv, TypeOK, receivers, alarmLog, world
  <2>8. \A u \in Task : post'[u] \in AlarmPost => u = "snmp"
    <3>1. post'[f] \notin AlarmPost
      BY <2>6 DEF ContextPost, AlarmPost, Consumer
    <3> QED  BY <2>6, <3>1 DEF ContextInv, Discipline
  <2>9. \A g \in Feed : fetched'[g] # None => post'[g] = None
    BY <1>3, <2>6 DEF Task
  <2>10. Discipline'
    BY <1>1, <1>2, <1>3, <2>6, <2>8, <2>9 DEF ContextInv, Discipline, Polling, alarmLog, world
  <2> QED  BY <1>2, <2>6, <2>7, <2>10 DEF ContextInv
<1> QED  BY <1>1, <1>5, <1>6 DEF UpdateFeed

\* The watchdog tells fusion.
LEMMA WatchdogPush ==
  ASSUME ContextInv, Watchdog PROVE ContextInv' /\ post'["snmp"] = post["snmp"]
<1>1. /\ post["watchdog"] = None /\ SetStationApproach(Approaching)
      /\ UNCHANGED <<world, startDates, prevAlarms, connected, snmp, fetched, alive, receivers, alarmLog>>
  BY DEF Watchdog
<1>2. PICK b \in BOOLEAN : b = Approaching
  <2>1. Approaching \in BOOLEAN
    BY DEF Approaching
  <2> QED  BY <2>1
<1>3. state \in ContextState /\ OwnSchedule(state)
  BY DEF ContextInv, TypeOK, Schedules
<1>4. /\ state' = [state EXCEPT !.approach = b] /\ state' \in ContextState
      /\ state'.feed = state.feed /\ state'.under = state.under /\ state'.journey = state.journey
      /\ \A x \in Field : x # "approach" => state'[x] = state[x]
  BY <1>1, <1>2, <1>3 DEF SetStationApproach, ContextState, Field
<1>5. PICK v \in Nat : v = ver + 1
  BY DEF ContextInv, Versions
<1>6. PICK p : p = [to |-> "fusion", carries |-> {"journey", "approach"}, body |-> state',
                    ver |-> v, tries |-> 1]
  OBVIOUS
<1>7. /\ p \in ContextPost /\ p # None /\ p.to = "fusion" /\ p.carries = {"journey", "approach"}
      /\ p.body = state' /\ p.ver = v
  BY <1>4, <1>6, NewPost
<1>8. post' = [post EXCEPT !["watchdog"] = p] /\ ver' = ver + 1
  BY <1>1, <1>5, <1>6 DEF SetStationApproach
<1>9. "watchdog" \in Task /\ ~ Posting("watchdog") /\ OwnSchedule(state')
  BY <1>1, <1>3, <1>4 DEF Task, Posting, OwnSchedule
<1>10. Versions' /\ Schedules' /\ Copies'
  BY <1>1, <1>4, <1>5, <1>7, <1>8, <1>9, PushStep DEF ContextInv, receivers
<1>11. /\ post' \in [Task -> ContextPost \cup AlarmPost \cup {None}] /\ post'["watchdog"] = p
       /\ \A u \in Task : u # "watchdog" => post'[u] = post[u]
  BY <1>7, <1>8, <1>9 DEF ContextInv, TypeOK
<1>12. TypeOK'
  BY <1>1, <1>4, <1>11 DEF ContextInv, TypeOK, receivers, alarmLog, world
<1>13. "snmp" \in Task /\ \A g \in Feed : g \in Task /\ g # "watchdog"
  BY DEF Feed, Task
<1>14. \A u \in Task : post'[u] \in AlarmPost => u = "snmp"
  <2>1. p \notin AlarmPost
    BY <1>7 DEF AlarmPost
  <2> QED  BY <1>11, <2>1 DEF ContextInv, Discipline
<1>15. Discipline'
  BY <1>1, <1>11, <1>13, <1>14 DEF ContextInv, Discipline, Polling, alarmLog, world
<1> QED  BY <1>10, <1>11, <1>12, <1>13, <1>15 DEF ContextInv

\* The loop is done with a row: the context takes it, or has nothing to take.
LEMMA RowStep ==
  ASSUME ContextInv, snmp.at = "working", ~ Posting("snmp"), NEW a \in Alarm,
         UNCHANGED <<world, startDates, connected, fetched, alive, receivers>>,
         prevAlarms' \in [Alarm -> {"unseen", "active", "inactive"}],
         stored' \in [Alarm -> Seq({"active", "cleared"})],
         \/ snmp.table[a] # "absent" /\ UpdateAlarm(a)
         \/ post' = [post EXCEPT !["snmp"] = None] /\ UNCHANGED <<state, ver>>,
         PollEnds(snmp.todo \ {a}, post'["snmp"])
  PROVE  ContextInv' /\ post'["snmp"] \in ContextPost \cup {None}
<1>1. /\ Polling /\ snmp.table[a] \in Row /\ "snmp" \in Task /\ snmp.todo \ {a} \in SUBSET Alarm
      /\ state \in ContextState /\ OwnSchedule(state)
      /\ post \in [Task -> ContextPost \cup AlarmPost \cup {None}]
  BY DEF ContextInv, Discipline, Polling, TypeOK, Schedules, Task
<1>2. /\ state' \in ContextState /\ Versions' /\ Schedules' /\ Copies'
      /\ post' \in [Task -> ContextPost \cup AlarmPost \cup {None}]
      /\ post'["snmp"] \in ContextPost \cup {None}
      /\ \A u \in Task : u # "snmp" => post'[u] = post[u]
  <2>1. CASE post' = [post EXCEPT !["snmp"] = None] /\ UNCHANGED <<state, ver>>
    <3>1. /\ post' \in [Task -> ContextPost \cup AlarmPost \cup {None}] /\ post'["snmp"] = None
          /\ \A u \in Task : u # "snmp" => post'[u] = post[u]
      BY <1>1, <2>1
    <3>2. \A u \in Task : (Posting(u)' <=> Posting(u)) /\ (Posting(u) => post'[u] = post[u])
      BY <3>1 DEF Posting
    <3> QED  BY <1>1, <2>1, <3>1, <3>2, QuietStep DEF ContextInv, receivers
  <2>2. CASE snmp.table[a] # "absent" /\ state.alarms[a] # snmp.table[a] /\ UpdateAlarm(a)
    <3> DEFINE rows == [state.alarms EXCEPT ![a] = snmp.table[a]]
               s == [state EXCEPT !.alarms[a] = snmp.table[a]]
    <3>1. PushContextDelta("snmp", s)
      BY <2>2 DEF UpdateAlarm
    <3>2. rows \in [Alarm -> {"unseen", "active", "inactive"}]
      BY <1>1, <2>2 DEF ContextState, Row
    <3>3. s = [state EXCEPT !.alarms = rows]
      BY <1>1 DEF ContextState
    <3> HIDE DEF rows
    <3>4. /\ s \in ContextState /\ s.feed = state.feed /\ s.under = state.under
          /\ s.journey = state.journey
      BY <1>1, <3>2, <3>3 DEF ContextState
    <3> HIDE DEF s
    <3>5. OwnSchedule(s)
      BY <1>1, <3>4 DEF OwnSchedule
    <3> QED  BY <1>1, <3>1, <3>4, <3>5, DeltaStep DEF ContextInv
  <2> QED  BY <2>1, <2>2 DEF UpdateAlarm
<1>3. Polling' /\ (post'["snmp"] # None => snmp'.at = "working") /\ snmp'.todo \subseteq Alarm
  BY <1>1, PollStep
<1>4. TypeOK'
  BY <1>2, <1>3 DEF ContextInv, TypeOK, receivers, world, Polling
<1>5. \A u \in Task : post'[u] \in AlarmPost => u = "snmp"
  BY <1>2 DEF ContextInv, Discipline
<1>6. \A g \in Feed : g \in Task /\ g # "snmp"
  BY DEF Feed, Task
<1>7. Discipline'
  BY <1>2, <1>3, <1>5, <1>6 DEF ContextInv, Discipline, world
<1> QED  BY <1>2, <1>4, <1>7 DEF ContextInv

\* The answer is taken up: the journey first, with the day its trip was first seen.
LEMMA ProcessStep ==
  ASSUME ContextInv, Ids, Process
  PROVE  ContextInv' /\ Ids' /\ post["snmp"] = None /\ post'["snmp"] \in ContextPost \cup {None}
<1>1. /\ snmp.at = "answered"
      /\ UNCHANGED <<world, prevAlarms, connected, fetched, alive, receivers, alarmLog>>
  BY DEF Process
<1>2. /\ post["snmp"] = None /\ Polling /\ "snmp" \in Task /\ ~ Posting("snmp")
      /\ \A g \in Feed : g \in Task /\ g # "snmp"
  BY <1>1 DEF ContextInv, Discipline, Task, Posting, Feed
<1>3. CASE snmp.trip = None
  <2>1. snmp' = Resting /\ UNCHANGED <<startDates, state, ver, post, used>>
    BY <1>3 DEF Process
  <2>2. Polling' /\ snmp'.todo = {} /\ snmp'.at = "idle"
    BY <2>1 DEF Resting, Polling
  <2>3. TypeOK'
    BY <1>1, <2>1, <2>2 DEF ContextInv, TypeOK, receivers, alarmLog, world
  <2>4. Discipline'
    BY <1>1, <1>2, <2>1, <2>2 DEF ContextInv, Discipline, alarmLog, world
  <2>5. Ids'
    BY <2>1 DEF Ids
  <2> QED  BY <1>1, <1>2, <2>1, <2>3, <2>4, <2>5, QuietContext
<1>4. CASE snmp.trip # None
  <2>1. PICK t \in Trip : t = snmp.trip
    BY <1>2, <1>4 DEF Polling
  <2>2. GetJourneyId(t) /\ UpdateJourney(<<t, startDates'[t]>>)
    BY <1>4, <2>1 DEF Process
  <2>3. /\ startDates' \in [Trip -> (1..Days) \cup {None}] /\ startDates'[t] \in 1..Days
        /\ \A u \in Trip : startDates[u] # None => startDates'[u] = startDates[u]
    BY <2>2 DEF GetJourneyId, ContextInv, TypeOK
  <2>4. PICK j \in Journey : j = <<t, startDates'[t]>>
    BY <2>3 DEF Journey
  <2>5. Ids'
    <3>1. used' = used \/ used' = used \cup {j}
      BY <2>2, <2>4 DEF UpdateJourney
    <3>2. j[1] \in Trip /\ startDates'[j[1]] # None /\ j = <<j[1], startDates'[j[1]]>>
      BY <2>3, <2>4
    <3>3. \A k \in used : k[1] \in Trip /\ startDates'[k[1]] # None /\ k = <<k[1], startDates'[k[1]]>>
      BY <2>3 DEF Ids
    <3> QED  BY <3>1, <3>2, <3>3 DEF Ids
  <2>6. /\ state' \in ContextState /\ Versions' /\ Schedules' /\ Copies'
        /\ post' \in [Task -> ContextPost \cup AlarmPost \cup {None}]
        /\ post'["snmp"] \in ContextPost \cup {None}
        /\ \A u \in Task : u # "snmp" => post'[u] = post[u]
    <3>1. state \in ContextState /\ post \in [Task -> ContextPost \cup AlarmPost \cup {None}]
      BY DEF ContextInv, TypeOK
    <3>2. CASE UNCHANGED <<state, ver, post>>
      <4>1. \A u \in Task : (Posting(u)' <=> Posting(u)) /\ (Posting(u) => post'[u] = post[u])
        BY <3>2 DEF Posting
      <4> QED  BY <1>1, <1>2, <3>1, <3>2, <4>1, QuietStep DEF ContextInv, receivers
    <3>3. CASE state.journey # j
      <4> DEFINE fed == [state.feed EXCEPT !["pis"] = Empty]
                 s == [state EXCEPT !.journey = j, !.feed["pis"] = Empty, !.under = Empty]
      <4>1. PushContextDelta("snmp", s)
        BY <2>2, <2>4, <3>3 DEF UpdateJourney
      <4>2. fed \in [Feed -> {Empty} \cup Schedule \cup Reading] /\ fed["pis"] = Empty
        BY <3>1 DEF ContextState, Feed
      <4>3. s = [state EXCEPT !.journey = j, !.feed = fed, !.under = Empty]
        BY <3>1 DEF ContextState
      <4> HIDE DEF fed
      <4>4. s \in ContextState /\ s.feed = fed
        BY <3>1, <4>2, <4>3 DEF ContextState, Journey
      <4> HIDE DEF s
      <4>5. OwnSchedule(s)
        BY <4>2, <4>4 DEF OwnSchedule
      <4> QED  BY <1>1, <1>2, <4>1, <4>4, <4>5, DeltaStep DEF ContextInv
    <3> QED  BY <2>2, <2>4, <3>2, <3>3 DEF UpdateJourney
  <2>7. Polling' /\ (post'["snmp"] # None => snmp'.at = "working") /\ snmp'.todo \subseteq Alarm
    <3>1. Unsettled \cup Vanished \subseteq Alarm
      BY DEF Unsettled, Vanished, Present
    <3>2. CASE snmp' = Resting /\ post' = post
      BY <1>2, <3>2 DEF Resting, Polling
    <3>3. CASE snmp' = [snmp EXCEPT !.at = "working", !.todo = Unsettled \cup Vanished]
      BY <1>1, <1>2, <3>1, <3>3 DEF Polling
    <3> QED  BY <1>4, <3>2, <3>3 DEF Process
  <2>8. TypeOK'
    BY <1>1, <2>3, <2>6, <2>7 DEF ContextInv, TypeOK, receivers, alarmLog, world, Polling
  <2>9. \A u \in Task : post'[u] \in AlarmPost => u = "snmp"
    BY <2>6 DEF ContextInv, Discipline
  <2>10. Discipline'
    BY <1>1, <1>2, <2>6, <2>7, <2>9 DEF ContextInv, Discipline, alarmLog, world
  <2> QED  BY <1>2, <2>5, <2>6, <2>8, <2>10 DEF ContextInv
<1> QED  BY <1>3, <1>4

\* An emission sets out, or is tried again: the context POSTs stay.
LEMMA EmitStep ==
  ASSUME ContextInv, snmp.at = "working", ~ Posting("snmp"), NEW p \in AlarmPost,
         post' = [post EXCEPT !["snmp"] = p],
         UNCHANGED <<world, state, startDates, prevAlarms, connected, snmp, fetched, alive, receivers,
                     ver>>,
         stored' \in [Alarm -> Seq({"active", "cleared"})]
  PROVE  ContextInv'
<1>1. /\ post' \in [Task -> ContextPost \cup AlarmPost \cup {None}] /\ post'["snmp"] = p
      /\ \A u \in Task : u # "snmp" => post'[u] = post[u]
      /\ \A g \in Feed : g \in Task /\ g # "snmp"
  BY DEF ContextInv, TypeOK, Task, Feed
<1>2. TypeOK'
  BY <1>1 DEF ContextInv, TypeOK, receivers, world
<1>3. Discipline'
  BY <1>1 DEF ContextInv, Discipline, Polling, world
<1>4. ~ Posting("snmp")'
  BY <1>1 DEF Posting, AlarmPost, Consumer
<1> QED  BY <1>1, <1>2, <1>3, <1>4, QuietContext

-----------------------------------------------------------------------------
(* The alarms.                                                               *)

\* An event more repeats ALARM_ACTIVE only after ALARM_ACTIVE.
LEMMA RepeatsAppend ==
  ASSUME NEW s \in Seq({"active", "cleared"}), NEW k \in {"active", "cleared"}
  PROVE  /\ Append(s, k) \in Seq({"active", "cleared"}) /\ Append(s, k) # <<>>
         /\ Last(Append(s, k)) = k
         /\ IsFiniteSet(Repeats(s)) /\ Cardinality(Repeats(s)) \in Nat
         /\ Cardinality(Repeats(Append(s, k))) \in Nat
         /\ Cardinality(Repeats(Append(s, k))) <= Cardinality(Repeats(s)) + 1
         /\ ~ (k = "active" /\ s # <<>> /\ Last(s) = "active") =>
               Repeats(Append(s, k)) = Repeats(s)
<1>1. /\ Append(s, k) \in Seq({"active", "cleared"}) /\ Append(s, k) # <<>>
      /\ Last(Append(s, k)) = k /\ Len(Append(s, k)) = Len(s) + 1 /\ Len(s) \in Nat
      /\ \A i \in 1..Len(s) : Append(s, k)[i] = s[i]
      /\ Append(s, k)[Len(s) + 1] = k
  BY DEF Last
<1>2. IsFiniteSet(Repeats(s)) /\ Cardinality(Repeats(s)) \in Nat
  <2>1. IsFiniteSet(1..(Len(s) - 1))
    BY <1>1, FS_Interval
  <2>2. Repeats(s) \subseteq 1..(Len(s) - 1)
    BY DEF Repeats
  <2> QED  BY <2>1, <2>2, FS_Subset, FS_CardinalityType
<1>3. \A i \in Repeats(s) : i \in Repeats(Append(s, k))
  BY <1>1 DEF Repeats
<1>4. \A i \in Repeats(Append(s, k)) : i \in Repeats(s) \/ i = Len(s)
  BY <1>1 DEF Repeats
<1>5. Len(s) \in Repeats(Append(s, k)) => k = "active" /\ s # <<>> /\ Last(s) = "active"
  BY <1>1 DEF Repeats, Last
<1>6. CASE ~ (k = "active" /\ s # <<>> /\ Last(s) = "active")
  <2>1. Repeats(Append(s, k)) = Repeats(s)
    BY <1>3, <1>4, <1>5, <1>6
  <2>2. \A n \in Nat : n <= n + 1
    OBVIOUS
  <2> QED  BY <1>1, <1>2, <2>1, <2>2
<1>7. CASE k = "active" /\ s # <<>> /\ Last(s) = "active"
  <2>1. Repeats(Append(s, k)) \subseteq Repeats(s) \cup {Len(s)}
    BY <1>4
  <2>2. /\ IsFiniteSet(Repeats(s) \cup {Len(s)})
        /\ Cardinality(Repeats(s) \cup {Len(s)}) <= Cardinality(Repeats(s)) + 1
        /\ Cardinality(Repeats(s) \cup {Len(s)}) \in Nat
    <3>1. /\ IsFiniteSet(Repeats(s) \cup {Len(s)})
          /\ \/ Cardinality(Repeats(s) \cup {Len(s)}) = Cardinality(Repeats(s))
             \/ Cardinality(Repeats(s) \cup {Len(s)}) = Cardinality(Repeats(s)) + 1
      BY <1>2, FS_AddElement, Zenon
    <3> QED  BY <1>2, <3>1
  <2>3. /\ Cardinality(Repeats(Append(s, k))) \in Nat
        /\ Cardinality(Repeats(Append(s, k))) <= Cardinality(Repeats(s) \cup {Len(s)})
    BY <2>1, <2>2, FS_Subset, FS_CardinalityType
  <2>4. Cardinality(Repeats(Append(s, k))) <= Cardinality(Repeats(s)) + 1
    BY <1>2, <2>2, <2>3
  <2> QED  BY <1>1, <1>2, <1>7, <2>3, <2>4
<1> QED  BY <1>6, <1>7

\* What an emission under way is.
LEMMA Emission ==
  ASSUME ContextInv
  PROVE  /\ Emitting <=> post["snmp"] \in AlarmPost
         /\ Emitting => /\ post["snmp"].alarm \in Alarm /\ post["snmp"].kind \in {"active", "cleared"}
                        /\ post["snmp"].stored \in BOOLEAN /\ post["snmp"].tries \in 1..MaxAttempts
                        /\ snmp.at = "working" /\ snmp.table \in [Alarm -> Row] /\ ~ Posting("snmp")
<1>1. post["snmp"] \in ContextPost \cup AlarmPost \cup {None}
  BY DEF ContextInv, TypeOK, Task
<1>2. post["snmp"] \in ContextPost => post["snmp"].to # "event-store"
  BY DEF ContextPost, Consumer
<1>3. post["snmp"] \in AlarmPost =>
         /\ post["snmp"].to = "event-store" /\ post["snmp"] # None
         /\ post["snmp"].alarm \in Alarm /\ post["snmp"].kind \in {"active", "cleared"}
         /\ post["snmp"].stored \in BOOLEAN /\ post["snmp"].tries \in 1..MaxAttempts
  BY DEF AlarmPost
<1>4. post["snmp"] # None => snmp.at = "working" /\ snmp.table \in [Alarm -> Row]
  BY DEF ContextInv, Discipline, Polling
<1> QED  BY <1>1, <1>2, <1>3, <1>4 DEF Emitting, Posting, Consumer

\* A step without an emission, or beside one.
LEMMA AlarmsQuiet ==
  ASSUME Alarms, UNCHANGED <<prevAlarms, alarmLog>>,
         (post'["snmp"] = post["snmp"] /\ snmp' = snmp) \/ (~ Emitting /\ ~ Emitting')
  PROVE  Alarms'
<1>1. CASE post'["snmp"] = post["snmp"] /\ snmp' = snmp
  <2>1. \A a \in Alarm : AlarmOK(a)'
    BY <1>1 DEF Alarms, AlarmOK, EmittingStored, Emitting, Matches, LastEvent, alarmLog
  <2> QED  BY <1>1, <2>1 DEF Alarms, Emitting, alarmLog
<1>2. CASE ~ Emitting /\ ~ Emitting'
  <2>1. \A a \in Alarm : AlarmOK(a)'
    BY <1>2 DEF Alarms, AlarmOK, EmittingStored, Matches, LastEvent, alarmLog
  <2> QED  BY <1>2, <2>1 DEF Alarms, alarmLog
<1> QED  BY <1>1, <1>2

\* The event of the emission under way is in the store, now or before: it is the
\* last of its alarm, and an ALARM_ACTIVE that repeats one was paid for.
LEMMA StoreStep ==
  ASSUME ContextInv, Alarms, Emitting, NEW a \in Alarm, a = post["snmp"].alarm, Store(post["snmp"])
  PROVE  /\ stored' \in [Alarm -> Seq({"active", "cleared"})]
         /\ \A b \in Alarm : b # a => stored'[b] = stored[b]
         /\ LastEvent(a)' = post["snmp"].kind
         /\ Cardinality(Repeats(stored'[a])) <= unanswered[a]
         /\ Cardinality(Repeats(stored'[a])) \in Nat
<1>1. PICK k \in {"active", "cleared"} : k = post["snmp"].kind
  BY Emission
<1>2. /\ stored \in [Alarm -> Seq({"active", "cleared"})] /\ stored[a] \in Seq({"active", "cleared"})
      /\ unanswered[a] \in Nat /\ doubt[a] \in BOOLEAN /\ AlarmOK(a)
  BY DEF ContextInv, Discipline, Alarms
<1>3. /\ k = (IF snmp.table[a] = "active" THEN "active" ELSE "cleared") /\ prevAlarms[a] # snmp.table[a]
  BY <1>1 DEF Alarms
<1>4. CASE post["snmp"].stored
  <2>1. stored' = stored
    BY <1>4 DEF Store
  <2>2. EmittingStored(a)
    BY <1>4 DEF EmittingStored
  <2>3. Cardinality(Repeats(stored[a])) \in Nat
    BY <1>2, RepeatsAppend
  <2>4. Cardinality(Repeats(stored[a])) <= unanswered[a] /\ LastEvent(a) = post["snmp"].kind
    BY <1>2, <2>2, <2>3 DEF AlarmOK
  <2> QED  BY <1>2, <2>1, <2>3, <2>4 DEF LastEvent
<1>5. CASE ~ post["snmp"].stored
  <2>1. stored' = [stored EXCEPT ![a] = Append(stored[a], k)]
    BY <1>1, <1>5 DEF Store
  <2>2. /\ Append(stored[a], k) \in Seq({"active", "cleared"}) /\ Append(stored[a], k) # <<>>
        /\ Last(Append(stored[a], k)) = k
        /\ Cardinality(Repeats(stored[a])) \in Nat
        /\ Cardinality(Repeats(Append(stored[a], k))) \in Nat
        /\ Cardinality(Repeats(Append(stored[a], k))) <= Cardinality(Repeats(stored[a])) + 1
        /\ ~ (k = "active" /\ stored[a] # <<>> /\ Last(stored[a]) = "active") =>
              Repeats(Append(stored[a], k)) = Repeats(stored[a])
    <3>1. PICK s \in Seq({"active", "cleared"}) : s = stored[a]
      BY <1>2
    <3>2. /\ Append(s, k) \in Seq({"active", "cleared"}) /\ Append(s, k) # <<>>
          /\ Last(Append(s, k)) = k
          /\ Cardinality(Repeats(s)) \in Nat
          /\ Cardinality(Repeats(Append(s, k))) \in Nat
          /\ Cardinality(Repeats(Append(s, k))) <= Cardinality(Repeats(s)) + 1
          /\ ~ (k = "active" /\ s # <<>> /\ Last(s) = "active") =>
                Repeats(Append(s, k)) = Repeats(s)
      BY RepeatsAppend, Zenon
    <3> QED  BY <3>1, <3>2, Zenon
  <2>3. /\ stored' \in [Alarm -> Seq({"active", "cleared"})] /\ stored'[a] = Append(stored[a], k)
        /\ \A b \in Alarm : b # a => stored'[b] = stored[b]
    BY <1>2, <2>1, <2>2
  <2>4. ~ EmittingStored(a)
    BY <1>5 DEF EmittingStored
  <2>5. CASE k = "active" /\ stored[a] # <<>> /\ Last(stored[a]) = "active"
    <3>1. LastEvent(a) = "active"
      BY <2>5 DEF LastEvent
    <3>2. prevAlarms[a] # "active"
      BY <1>3, <2>5
    <3>3. doubt[a]
      BY <1>2, <2>4, <3>1, <3>2 DEF AlarmOK, Matches
    <3>4. Cardinality(Repeats(stored[a])) + 1 <= unanswered[a]
      BY <1>2, <2>2, <2>4, <3>3 DEF AlarmOK
    <3>5. Cardinality(Repeats(Append(stored[a], k))) <= unanswered[a]
      BY <1>2, <2>2, <3>4
    <3> QED  BY <1>1, <2>2, <2>3, <3>5 DEF LastEvent
  <2>6. CASE ~ (k = "active" /\ stored[a] # <<>> /\ Last(stored[a]) = "active")
    <3>1. Cardinality(Repeats(stored[a])) <= unanswered[a]
      BY <1>2, <2>2, <2>4 DEF AlarmOK
    <3> QED  BY <1>1, <2>2, <2>3, <2>6, <3>1 DEF LastEvent
  <2> QED  BY <2>5, <2>6
<1> QED  BY <1>4, <1>5

\* An emission concerns its alarm alone.
LEMMA OneAlarm ==
  ASSUME ContextInv, Alarms, Emitting, NEW a \in Alarm, a = post["snmp"].alarm,
         NEW b \in Alarm, b # a, stored'[b] = stored[b], prevAlarms'[b] = prevAlarms[b],
         doubt'[b] = doubt[b], unanswered'[b] = unanswered[b],
         ~ Emitting' \/ post'["snmp"].alarm = a
  PROVE  AlarmOK(b)'
<1>1. ~ EmittingStored(b) /\ ~ EmittingStored(b)'
  BY DEF EmittingStored
<1> QED  BY <1>1 DEF Alarms, AlarmOK, Matches, LastEvent

\* A row is looked at: nothing to report, or an emission sets out.
LEMMA ProcessAlarmStep ==
  ASSUME ContextInv, Alarms, NEW a \in Alarm, ProcessAlarm(a)
  PROVE  ContextInv' /\ Alarms'
<1>1. /\ snmp.at = "working" /\ post["snmp"] = None /\ ~ Posting("snmp") /\ ~ Emitting
      /\ UNCHANGED <<world, startDates, prevAlarms, connected, fetched, alive, receivers, alarmLog>>
      /\ prevAlarms \in [Alarm -> {"unseen", "active", "inactive"}]
      /\ stored' = stored /\ stored \in [Alarm -> Seq({"active", "cleared"})]
  BY DEF ProcessAlarm, Posting, Emitting, ContextInv, TypeOK, Discipline, alarmLog
<1>2. CASE prevAlarms[a] = snmp.table[a]
  <2>1. snmp.table[a] # "absent" /\ UpdateAlarm(a) /\ PollEnds(snmp.todo \ {a}, post'["snmp"])
    BY <1>1, <1>2 DEF ProcessAlarm
  <2>2. ContextInv' /\ post'["snmp"] \in ContextPost \cup {None}
    BY <1>1, <2>1, RowStep
  <2>3. ~ Emitting'
    BY <2>2 DEF Emitting, ContextPost, Consumer
  <2> QED  BY <1>1, <2>2, <2>3, AlarmsQuiet
<1>3. CASE prevAlarms[a] # snmp.table[a]
  <2> DEFINE k == IF snmp.table[a] = "active" THEN "active" ELSE "cleared"
             p == [to |-> "event-store", alarm |-> a, kind |-> k, stored |-> FALSE, tries |-> 1]
  <2>1. post' = [post EXCEPT !["snmp"] = p] /\ UNCHANGED <<snmp, state, ver>>
    BY <1>3 DEF ProcessAlarm, EmitAlarmEvent
  <2>2. p \in AlarmPost /\ p.alarm = a /\ p.kind = k /\ p.stored = FALSE
    BY DEF AlarmPost
  <2>3. k = IF snmp.table[a] = "active" THEN "active" ELSE "cleared"
    OBVIOUS
  <2> HIDE DEF k, p
  <2>4. ContextInv'
    BY <1>1, <2>1, <2>2, EmitStep
  <2>5. post'["snmp"] = p
    BY <2>1 DEF ContextInv, TypeOK, Task
  <2>6. ASSUME NEW b \in Alarm PROVE AlarmOK(b)'
    <3>1. ~ EmittingStored(b) /\ ~ EmittingStored(b)'
      BY <1>1, <2>2, <2>5 DEF EmittingStored
    <3> QED  BY <1>1, <3>1 DEF Alarms, AlarmOK, Matches, LastEvent, alarmLog
  <2>7. Alarms'
    BY <1>1, <1>3, <2>1, <2>2, <2>3, <2>5, <2>6 DEF Alarms, alarmLog
  <2> QED  BY <2>4, <2>7
<1> QED  BY <1>2, <1>3

\* The loop goes on after an emission, answered or given up.
LEMMA EmissionOver ==
  ASSUME ContextInv, Emitting, NEW a \in Alarm, a = post["snmp"].alarm, EmissionEnds(a),
         UNCHANGED <<world, startDates, connected, fetched, alive, receivers>>,
         prevAlarms' \in [Alarm -> {"unseen", "active", "inactive"}],
         stored' \in [Alarm -> Seq({"active", "cleared"})]
  PROVE  ContextInv' /\ ~ Emitting'
<1>1. snmp.at = "working" /\ ~ Posting("snmp")
  BY Emission
<1>2. /\ \/ snmp.table[a] # "absent" /\ UpdateAlarm(a)
         \/ post' = [post EXCEPT !["snmp"] = None] /\ UNCHANGED <<state, ver>>
      /\ PollEnds(snmp.todo \ {a}, post'["snmp"])
  BY DEF EmissionEnds, Present
<1>3. ContextInv' /\ post'["snmp"] \in ContextPost \cup {None}
  BY <1>1, <1>2, RowStep
<1> QED  BY <1>3 DEF Emitting, ContextPost, Consumer

\* The emission is answered: _prev_alarms takes the row, which is what was told.
LEMMA AnsweredStep ==
  ASSUME ContextInv, Alarms, EventAnswered PROVE ContextInv' /\ Alarms'
<1>1. PICK a \in Alarm : a = post["snmp"].alarm
  BY Emission DEF EventAnswered
<1>2. /\ Emitting /\ Store(post["snmp"]) /\ Remember(a) /\ EmissionEnds(a)
      /\ doubt' = [doubt EXCEPT ![a] = FALSE] /\ unanswered' = unanswered
      /\ UNCHANGED <<world, startDates, connected, fetched, alive, receivers>>
  BY <1>1 DEF EventAnswered
<1>3. snmp.table \in [Alarm -> Row] /\ snmp.table[a] \in Row
  BY <1>2, Emission
<1>4. /\ stored' \in [Alarm -> Seq({"active", "cleared"})]
      /\ \A b \in Alarm : b # a => stored'[b] = stored[b]
      /\ LastEvent(a)' = post["snmp"].kind
      /\ Cardinality(Repeats(stored'[a])) <= unanswered[a]
      /\ Cardinality(Repeats(stored'[a])) \in Nat
  BY <1>1, <1>2, StoreStep
<1>5. PICK r \in {"unseen", "active", "inactive"} :
         r = IF a \in Present THEN snmp.table[a] ELSE "unseen"
  BY <1>3 DEF Present, Row
<1>6. /\ prevAlarms' = [prevAlarms EXCEPT ![a] = r]
      /\ prevAlarms \in [Alarm -> {"unseen", "active", "inactive"}]
  BY <1>2, <1>5 DEF Remember, ContextInv, TypeOK
<1>7. /\ prevAlarms' \in [Alarm -> {"unseen", "active", "inactive"}] /\ prevAlarms'[a] = r
      /\ \A b \in Alarm : b # a => prevAlarms'[b] = prevAlarms[b]
  BY <1>6
<1>8. /\ doubt' \in [Alarm -> BOOLEAN] /\ doubt'[a] = FALSE /\ unanswered[a] \in Nat
      /\ \A b \in Alarm : b # a => doubt'[b] = doubt[b]
  BY <1>2 DEF Alarms
<1>9. ContextInv' /\ ~ Emitting'
  BY <1>1, <1>2, <1>4, <1>7, EmissionOver
<1>10. AlarmOK(a)'
  <2>1. post["snmp"].kind = IF snmp.table[a] = "active" THEN "active" ELSE "cleared"
    BY <1>1, <1>2 DEF Alarms
  <2>2. Matches(a)'
    BY <1>3, <1>4, <1>5, <1>7, <2>1 DEF Matches, Present, Row
  <2>3. ~ EmittingStored(a)'
    BY <1>9 DEF EmittingStored
  <2>4. Cardinality(Repeats(stored'[a])) + 0 <= unanswered'[a]
    BY <1>2, <1>4
  <2> QED  BY <1>8, <2>2, <2>3, <2>4 DEF AlarmOK
<1>11. \A b \in Alarm : AlarmOK(b)'
  <2>1. ASSUME NEW b \in Alarm, b # a PROVE AlarmOK(b)'
    BY <1>1, <1>2, <1>4, <1>7, <1>8, <1>9, <2>1, OneAlarm
  <2> QED  BY <1>10, <2>1
<1>12. Alarms'
  BY <1>2, <1>8, <1>9, <1>11 DEF Alarms
<1> QED  BY <1>9, <1>12

\* The answer is lost: another try, or a doubt that an answered emission clears.
LEMMA LostStep ==
  ASSUME ContextInv, Alarms, NEW arrived \in BOOLEAN, EventLost(arrived) PROVE ContextInv' /\ Alarms'
<1>1. PICK a \in Alarm : a = post["snmp"].alarm
  BY Emission DEF EventLost
<1>2. /\ Emitting /\ UNCHANGED <<world, startDates, connected, fetched, alive, receivers>>
      /\ IF arrived THEN Store(post["snmp"]) ELSE UNCHANGED stored
  BY DEF EventLost
<1>3. /\ post["snmp"] \in AlarmPost /\ post["snmp"].stored \in BOOLEAN /\ snmp.at = "working"
      /\ ~ Posting("snmp") /\ post["snmp"].tries \in 1..MaxAttempts
  BY <1>2, Emission
<1>4. PICK done \in BOOLEAN : done = (post["snmp"].stored \/ arrived)
  BY <1>3
<1>5. done => Store(post["snmp"])
  BY <1>2, <1>4 DEF Store
<1>6. ~ done => stored' = stored /\ ~ EmittingStored(a)
  BY <1>2, <1>4 DEF EmittingStored
<1>7. /\ stored \in [Alarm -> Seq({"active", "cleared"})] /\ AlarmOK(a)
      /\ doubt \in [Alarm -> BOOLEAN] /\ unanswered \in [Alarm -> Nat]
      /\ prevAlarms \in [Alarm -> {"unseen", "active", "inactive"}]
  BY DEF ContextInv, Discipline, TypeOK, Alarms
<1>8. done => /\ LastEvent(a)' = post["snmp"].kind
              /\ Cardinality(Repeats(stored'[a])) <= unanswered[a]
              /\ Cardinality(Repeats(stored'[a])) \in Nat
  BY <1>1, <1>2, <1>5, StoreStep
<1>9. /\ stored' \in [Alarm -> Seq({"active", "cleared"})]
      /\ \A b \in Alarm : b # a => stored'[b] = stored[b]
  BY <1>1, <1>2, <1>5, <1>6, <1>7, StoreStep
<1>10. CASE /\ post["snmp"].tries < MaxAttempts
            /\ post' = [post EXCEPT !["snmp"].tries = @ + 1, !["snmp"].stored = done]
            /\ UNCHANGED <<doubt, unanswered, prevAlarms, snmp, state, ver>>
  <2>1. PICK n \in 1..MaxAttempts : n = post["snmp"].tries + 1
    BY <1>3, <1>10
  <2>2. PICK p : p = [post["snmp"] EXCEPT !.tries = n, !.stored = done]
    OBVIOUS
  <2>3. /\ p \in AlarmPost /\ p.stored = done /\ p.alarm = a /\ p.kind = post["snmp"].kind
        /\ p # None /\ p.to = "event-store"
    BY <1>1, <1>3, <2>2 DEF AlarmPost
  <2>4. post' = [post EXCEPT !["snmp"] = p] /\ post'["snmp"] = p
    BY <1>10, <2>1, <2>2 DEF ContextInv, TypeOK, Task
  <2>5. ContextInv'
    BY <1>2, <1>3, <1>9, <1>10, <2>3, <2>4, EmitStep
  <2>6. Emitting' /\ (EmittingStored(a)' <=> done)
    BY <2>3, <2>4 DEF Emitting, EmittingStored
  <2>7. AlarmOK(a)'
    <3>1. CASE done
      <4>1. Cardinality(Repeats(stored'[a])) + 0 <= unanswered'[a]
        BY <1>8, <1>10, <3>1
      <4>2. LastEvent(a)' = post'["snmp"].kind
        BY <1>8, <2>3, <2>4, <3>1
      <4> QED  BY <2>6, <3>1, <4>1, <4>2 DEF AlarmOK
    <3>2. CASE ~ done
      BY <1>6, <1>7, <1>10, <2>6, <3>2 DEF AlarmOK, Matches, LastEvent
    <3> QED  BY <3>1, <3>2
  <2>8. \A b \in Alarm : AlarmOK(b)'
    <3>1. ASSUME NEW b \in Alarm, b # a PROVE AlarmOK(b)'
      BY <1>1, <1>2, <1>9, <1>10, <2>3, <2>4, <3>1, OneAlarm
    <3> QED  BY <2>7, <3>1
  <2>9. Alarms'
    <3>1. /\ post["snmp"].kind = IF snmp.table[a] = "active" THEN "active" ELSE "cleared"
          /\ prevAlarms[a] # snmp.table[a]
      BY <1>1, <1>2 DEF Alarms
    <3> QED  BY <1>7, <1>10, <2>3, <2>4, <2>8, <3>1 DEF Alarms
  <2> QED  BY <2>5, <2>9
<1>11. CASE EmissionFails(post["snmp"], done)
  <2>1. PICK m \in Nat : m = IF done THEN unanswered[a] + 1 ELSE unanswered[a]
    BY <1>7
  <2>2. /\ EmissionEnds(a) /\ doubt' = [doubt EXCEPT ![a] = doubt[a] \/ done]
        /\ unanswered' = [unanswered EXCEPT ![a] = m] /\ prevAlarms' = prevAlarms
    BY <1>1, <1>11, <2>1 DEF EmissionFails
  <2>3. ContextInv' /\ ~ Emitting'
    BY <1>1, <1>2, <1>7, <1>9, <2>2, EmissionOver
  <2>4. /\ doubt' \in [Alarm -> BOOLEAN] /\ unanswered' \in [Alarm -> Nat]
        /\ doubt'[a] = (doubt[a] \/ done) /\ unanswered'[a] = m
        /\ \A b \in Alarm : b # a => doubt'[b] = doubt[b] /\ unanswered'[b] = unanswered[b]
    <3>1. (doubt[a] \/ done) \in BOOLEAN
      BY <1>7
    <3> QED  BY <1>7, <2>2, <3>1
  <2>5. ~ EmittingStored(a)'
    BY <2>3 DEF EmittingStored
  <2>6. AlarmOK(a)'
    <3>1. CASE done
      <4>1. doubt'[a] /\ unanswered'[a] = unanswered[a] + 1
        BY <2>1, <2>4, <3>1
      <4>2. Cardinality(Repeats(stored'[a])) + 1 <= unanswered'[a]
        BY <1>7, <1>8, <3>1, <4>1
      <4> QED  BY <2>5, <4>1, <4>2 DEF AlarmOK
    <3>2. CASE ~ done
      <4>1. (doubt'[a] <=> doubt[a]) /\ unanswered'[a] = unanswered[a]
        BY <1>7, <2>1, <2>4, <3>2
      <4> QED  BY <1>6, <1>7, <2>2, <2>5, <3>2, <4>1 DEF AlarmOK, Matches, LastEvent
    <3> QED  BY <3>1, <3>2
  <2>7. \A b \in Alarm : AlarmOK(b)'
    <3>1. ASSUME NEW b \in Alarm, b # a PROVE AlarmOK(b)'
      BY <1>1, <1>2, <1>9, <2>2, <2>3, <2>4, <3>1, OneAlarm
    <3> QED  BY <2>6, <3>1
  <2>8. Alarms'
    BY <2>3, <2>4, <2>7 DEF Alarms
  <2> QED  BY <2>3, <2>8
<1> QED  BY <1>4, <1>10, <1>11 DEF EventLost

-----------------------------------------------------------------------------
(* The theorems.                                                             *)

Inv == ContextInv /\ Ids /\ Alarms

LEMMA InitInv == Init => Inv
<1> SUFFICES ASSUME Init PROVE Inv
  OBVIOUS
<1>1. PICK w \in Worlds :
         /\ trip = w.trip /\ table = w.table /\ arrival = w.arrival
         /\ source = [f \in Feed |-> IF f = "pis" THEN w.pis ELSE Empty]
  BY DEF Init
<1>2. /\ day = 1 /\ state = Start /\ copy = [c \in Consumer |-> Start]
      /\ startDates = [t \in Trip |-> None] /\ used = {}
      /\ prevAlarms = [a \in Alarm |-> "unseen"] /\ stored = [a \in Alarm |-> <<>>]
      /\ doubt = [a \in Alarm |-> FALSE] /\ unanswered = [a \in Alarm |-> 0]
      /\ snmp = Resting /\ connected = FALSE /\ alive = TRUE
      /\ fetched = [f \in Feed |-> None] /\ post = [t \in Task |-> None]
      /\ ver = 0 /\ newest = AtZero /\ dropped = AtZero
      /\ overtaken = [c \in Consumer |-> {}]
  BY DEF Init
<1>3. /\ Start \in ContextState /\ Start.feed["pis"] = Empty
  BY DEF Start, ContextState, Journey, Feed
<1>4. /\ "inference" \in Consumer /\ "snmp" \in Task /\ "pis" \in Feed
  BY DEF Consumer, Task, Feed
<1>5. Polling /\ snmp.todo = {} /\ snmp.at = "idle"
  BY <1>2 DEF Polling, Resting
<1>6. \A t \in Task : post[t] = None /\ ~ Posting(t)
  BY <1>2 DEF Posting
<1>7. TypeOK
  <2>1. \A f \in Feed : source[f] \in Answers(f) /\ fetched[f] \in Answers(f) \cup {None}
    BY <1>1, <1>2 DEF Answers
  <2>2. 1 \in 1..Days /\ \A a \in Alarm : stored[a] \in Seq({"active", "cleared"})
    BY <1>2
  <2>3. trip \in Trip \cup {None} /\ table \in [Alarm -> Row] /\ arrival \in [Schedule -> Phase]
    BY <1>1
  <2> QED  BY <1>2, <1>3, <1>5, <2>1, <2>2, <2>3 DEF TypeOK
<1>8. Discipline
  <2>1. source \in [Feed -> {Empty} \cup Schedule \cup Reading]
    BY <1>1 DEF Answers
  <2>2. \A t \in Task : post[t] \notin AlarmPost
    BY <1>6
  <2> QED  BY <1>2, <1>4, <1>5, <1>6, <2>1, <2>2 DEF Discipline, Feed, Task
<1>9. Versions
  BY <1>2, <1>6 DEF Versions, AtZero
<1>10. Schedules
  BY <1>2, <1>3, <1>4, <1>6 DEF Schedules, OwnSchedule
<1>11. Copies
  <2>1. ASSUME NEW c \in Consumer, NEW x \in Field PROVE Follows(c, x, 0)
    BY <1>2, <1>6 DEF Follows, AtZero
  <2> QED  BY <1>2, <2>1 DEF Copies
<1>12. Ids
  BY <1>2 DEF Ids
<1>13. Alarms
  <2>1. ~ Emitting
    BY <1>4, <1>6 DEF Emitting
  <2>2. ASSUME NEW a \in Alarm PROVE AlarmOK(a)
    <3>1. stored[a] = <<>> /\ ~ doubt[a] /\ unanswered[a] = 0 /\ prevAlarms[a] = "unseen"
      BY <1>2
    <3>2. Repeats(stored[a]) = {}
      BY <3>1 DEF Repeats
    <3>3. Cardinality(Repeats(stored[a])) = 0
      BY <3>2, FS_EmptySet
    <3>4. ~ EmittingStored(a) /\ Matches(a)
      BY <2>1, <3>1 DEF EmittingStored, Matches, LastEvent
    <3> QED  BY <3>1, <3>3, <3>4 DEF AlarmOK
  <2> QED  BY <1>2, <2>1, <2>2 DEF Alarms
<1> QED  BY <1>7, <1>8, <1>9, <1>10, <1>11, <1>12, <1>13 DEF Inv, ContextInv

LEMMA NextInv == Inv /\ [Next]_vars => Inv'
<1> SUFFICES ASSUME Inv, [Next]_vars PROVE Inv'
  OBVIOUS
<1>1. ContextInv /\ Ids /\ Alarms /\ "snmp" \in Task
  BY DEF Inv, Task
<1>2. ASSUME UNCHANGED <<used, startDates>> PROVE Ids'
  BY <1>1, <1>2 DEF Ids
<1>3. CASE SourcesChange
  <2>1. UNCHANGED <<used, startDates, prevAlarms, alarmLog, post, snmp>>
    BY <1>3 DEF SourcesChange
  <2> QED  BY <1>1, <1>2, <1>3, <2>1, SourceStep, AlarmsQuiet DEF Inv
<1>4. CASE GetBulk \/ GetBulkFails
  <2>1. UNCHANGED <<used, startDates, prevAlarms, alarmLog, post>> /\ snmp.at = "idle"
    BY <1>4 DEF GetBulk, GetBulkFails
  <2>2. ~ Emitting /\ ~ Emitting'
    BY <1>1, <2>1 DEF ContextInv, Discipline, Emitting
  <2> QED  BY <1>1, <1>2, <1>4, <2>1, <2>2, BulkStep, AlarmsQuiet DEF Inv
<1>5. CASE Process
  <2>1. ContextInv' /\ Ids' /\ post["snmp"] = None /\ post'["snmp"] \in ContextPost \cup {None}
    BY <1>1, <1>5, ProcessStep
  <2>2. ~ Emitting /\ ~ Emitting'
    BY <2>1 DEF Emitting, ContextPost, Consumer
  <2>3. UNCHANGED <<prevAlarms, alarmLog>>
    BY <1>5 DEF Process
  <2> QED  BY <1>1, <2>1, <2>2, <2>3, AlarmsQuiet DEF Inv
<1>6. ASSUME NEW a \in Alarm, ProcessAlarm(a) PROVE Inv'
  <2>1. UNCHANGED <<used, startDates>>
    BY <1>6 DEF ProcessAlarm
  <2> QED  BY <1>1, <1>2, <1>6, <2>1, ProcessAlarmStep DEF Inv
<1>7. CASE EventAnswered
  <2>1. UNCHANGED <<used, startDates>>
    BY <1>7 DEF EventAnswered
  <2> QED  BY <1>1, <1>2, <1>7, <2>1, AnsweredStep DEF Inv
<1>8. ASSUME NEW arrived \in BOOLEAN, EventLost(arrived) PROVE Inv'
  <2>1. UNCHANGED <<used, startDates>>
    BY <1>8 DEF EventLost
  <2> QED  BY <1>1, <1>2, <1>8, <2>1, LostStep DEF Inv
<1>9. ASSUME NEW t \in Task, PostAnswered(t) \/ \E arrived \in BOOLEAN : PostLost(t, arrived)
      PROVE  Inv'
  <2>1. UNCHANGED <<used, startDates, prevAlarms, alarmLog>> /\ SnmpResumes(t, post'[t])
    BY <1>9 DEF PostAnswered, PostLost
  <2>2. /\ ContextInv' /\ post'[t] \in ContextPost \cup {None} /\ Posting(t)
        /\ \A u \in Task : u # t => post'[u] = post[u]
    BY <1>1, <1>9, PostStep
  <2>3. (post'["snmp"] = post["snmp"] /\ snmp' = snmp) \/ (~ Emitting /\ ~ Emitting')
    <3>1. CASE t = "snmp"
      BY <2>2, <3>1 DEF Emitting, Posting, ContextPost, Consumer
    <3>2. CASE t # "snmp"
      BY <1>1, <2>1, <2>2, <3>2 DEF SnmpResumes
    <3> QED  BY <3>1, <3>2
  <2> QED  BY <1>1, <1>2, <2>1, <2>2, <2>3, AlarmsQuiet DEF Inv
<1>10. ASSUME NEW f \in Feed, Fetch(f) \/ Apply(f) PROVE Inv'
  <2>1. UNCHANGED <<used, startDates, prevAlarms, alarmLog, snmp>>
    BY <1>10 DEF Fetch, Apply
  <2>2. ContextInv' /\ post'["snmp"] = post["snmp"]
    <3>1. CASE Fetch(f)
      BY <1>1, <3>1, FetchStep DEF Fetch
    <3>2. CASE Apply(f)
      BY <1>1, <3>2, ApplyStep
    <3> QED  BY <1>10, <3>1, <3>2
  <2> QED  BY <1>1, <1>2, <2>1, <2>2, AlarmsQuiet DEF Inv
<1>11. CASE Watchdog
  <2>1. UNCHANGED <<used, startDates, prevAlarms, alarmLog, snmp>>
    BY <1>11 DEF Watchdog
  <2>2. ContextInv' /\ post'["snmp"] = post["snmp"]
    BY <1>1, <1>11, WatchdogPush
  <2> QED  BY <1>1, <1>2, <2>1, <2>2, AlarmsQuiet DEF Inv
<1>12. CASE UNCHANGED vars
  <2>1. UNCHANGED <<used, startDates, prevAlarms, alarmLog, snmp, post, state, ver, receivers>>
    BY <1>12 DEF vars
  <2>2. TypeOK'
    BY <1>1, <1>12 DEF ContextInv, TypeOK, vars, world, receivers, alarmLog
  <2>3. Discipline'
    BY <1>1, <1>12 DEF ContextInv, Discipline, Polling, vars, world, alarmLog
  <2>4. ContextInv'
    BY <1>1, <2>1, <2>2, <2>3, QuietContext
  <2> QED  BY <1>1, <1>2, <2>1, <2>4, AlarmsQuiet DEF Inv
<1>13. "watchdog" \in Task /\ \A f \in Feed : f \in Task
  BY DEF Task
<1>14. CASE Next
  BY <1>1, <1>3, <1>4, <1>5, <1>6, <1>7, <1>8, <1>9, <1>10, <1>11, <1>13, <1>14
     DEF Next, Fault, Snmp, WatchdogStep, FeedStep
<1> QED  BY <1>12, <1>14

LEMMA AlwaysInv == Spec => []Inv
  BY InitInv, NextInv, PTL DEF Spec

\* Whatever the order of the polls, pushes and lost answers: a pushed journey carries
\* no schedule of the journey before (update_journey clears it in the step that sets
\* the id, and every POST is a snapshot), and a trip number keeps its first id
\* (JourneyTracker).
THEOREM JourneyAlwaysSound == Spec => []JourneySound
<1>1. Inv => JourneySound
  <2> SUFFICES ASSUME Inv PROVE JourneySound
    OBVIOUS
  <2>1. NoInheritedSchedule
    BY DEF Inv, ContextInv, Schedules, OwnSchedule, NoInheritedSchedule
  <2>2. OneIdPerTrip
    <3>1. ASSUME NEW j \in used, NEW k \in used, j[1] = k[1] PROVE j = k
      <4>1. j = <<j[1], startDates[j[1]]>> /\ k = <<k[1], startDates[k[1]]>>
        BY DEF Inv, Ids
      <4> QED  BY <3>1, <4>1
    <3> QED  BY <3>1 DEF OneIdPerTrip
  <2> QED  BY <2>1, <2>2 DEF JourneySound, Inv, ContextInv
<1> QED  BY <1>1, AlwaysInv, PTL

\* Between emissions _prev_alarms and the event store agree on an alarm unless a
\* stored emission went unanswered, and ALARM_ACTIVE is repeated at most once for
\* each such emission, however many tries are lost.
THEOREM AlarmsAlwaysReported == Spec => []AlarmsReported
<1>1. Inv => AlarmsReported
  <2> SUFFICES ASSUME Inv PROVE AlarmsReported
    OBVIOUS
  <2>1. PrevMatchesStore
    <3> SUFFICES ASSUME NEW a \in Alarm, ~ doubt[a], ~ (Emitting /\ post["snmp"].alarm = a)
                 PROVE  CASE prevAlarms[a] = "active" -> LastEvent(a) = "active"
                          [] prevAlarms[a] = "inactive" -> LastEvent(a) = "cleared"
                          [] prevAlarms[a] = "unseen" -> LastEvent(a) # "active"
      BY DEF PrevMatchesStore
    <3>1. Matches(a)
      BY DEF Inv, Alarms, AlarmOK, EmittingStored
    <3> QED  BY <3>1 DEF Matches
  <2>2. ActiveRepeatsNeedLostAnswers
    <3> SUFFICES ASSUME NEW a \in Alarm PROVE Cardinality(Repeats(stored[a])) <= unanswered[a]
      BY DEF ActiveRepeatsNeedLostAnswers, Repeats
    <3>1. /\ stored[a] \in Seq({"active", "cleared"}) /\ unanswered[a] \in Nat
          /\ AlarmOK(a)
      BY DEF Inv, ContextInv, Discipline, Alarms
    <3>2. Cardinality(Repeats(stored[a])) \in Nat
      BY <3>1, RepeatsAppend
    <3> QED  BY <3>1, <3>2 DEF AlarmOK
  <2> QED  BY <2>1, <2>2 DEF AlarmsReported
<1> QED  BY <1>1, AlwaysInv, PTL

\* Five tasks push snapshots of one state and none is repeated once it is given up:
\* when no push is under way, a field a consumer holds that is not the current one
\* was overwritten by an older snapshot or its newest one was given up.
THEOREM CopiesAlwaysCurrent == Spec => []CopiesCurrent
<1>1. Inv => CopiesCurrent
  <2> SUFFICES ASSUME Inv, \A t \in Task : ~ Posting(t),
                      NEW c \in Consumer, NEW x \in Field, ~ (x = "approach" /\ c = "inference")
               PROVE  copy[c][x] = state[x] \/ x \in overtaken[c] \/ dropped[c][x] # 0
    BY DEF CopiesCurrent
  <2>1. PICK v \in 0..ver : Follows(c, x, v)
    BY DEF Inv, ContextInv, Copies
  <2>2. newest[c][x] \in Nat /\ dropped[c][x] \in Nat /\ v \in Nat
    BY DEF Inv, ContextInv, Versions
  <2>3. CASE newest[c][x] >= v
    BY <2>1, <2>3 DEF Follows
  <2>4. CASE newest[c][x] < v
    <3>1. dropped[c][x] >= v
      BY <2>1, <2>4 DEF Follows
    <3> QED  BY <2>2, <2>4, <3>1
  <2> QED  BY <2>2, <2>3, <2>4
<1> QED  BY <1>1, AlwaysInv, PTL

=============================================================================
