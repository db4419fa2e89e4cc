-------------------------- MODULE CloudAlertsProofs ---------------------------
(***************************************************************************)
(* An answer is never older than the last invalidate() before the question *)
(* (FreshAfterInvalidate), for any number of readers and writes.  What     *)
(* makes it inductive: a map that is trusted has every write that was told *)
(* (Trusted), and a query that no invalidate() has overtaken read a table  *)
(* that had them (Overtaken); an overtaken one still has what was told     *)
(* before its reader called.  Ingest and streams use the filter as         *)
(* CachedTable says, so that this holds under them too.                    *)
(***************************************************************************)
EXTENDS CloudAlerts, FiniteSetTheorems, TLAPS

(* Writes are told after they are committed.                                 *)
Told == told <= table /\ untold \subseteq 1..table /\ cache <= table

(* A map that is trusted has every write invalidate() was called for.        *)
Trusted == fresh => cache >= told

(* What a load in flight has read.                                           *)
Overtaken ==
    \A r \in Reader :
        /\ began[r] <= told /\ gen[r] <= generation
        /\ at[r] = "rows" => began[r] <= snap[r] /\ snap[r] <= table
        /\ at[r] = "rows" /\ gen[r] = generation => told <= snap[r]

CacheInv ==
    CacheTypeOK /\ Told /\ Trusted /\ Overtaken /\ LoadsOneAtATime /\ FreshAfterInvalidate

LEMMA CacheInitInv == CacheInit => CacheInv
  <1> SUFFICES ASSUME CacheInit PROVE CacheInv
    OBVIOUS
  <1> USE CachedTableAssumption DEF CacheInit
  <1>1. CacheTypeOK
    <2>1. fresh \in BOOLEAN
      OBVIOUS
    <2>2. at \in [Reader -> {"out", "waiting", "query", "rows"}]
      OBVIOUS
    <2>3. used \in [began : 0..MaxWrites, version : 0..MaxWrites]
      OBVIOUS
    <2>4. /\ gen \in [Reader -> Nat]
          /\ snap \in [Reader -> 0..MaxWrites] /\ began \in [Reader -> 0..MaxWrites]
      OBVIOUS
    <2>5. /\ table \in 0..MaxWrites /\ told \in 0..MaxWrites /\ cache \in 0..MaxWrites
          /\ untold \subseteq 1..MaxWrites /\ generation \in Nat
          /\ holder \in Reader \cup {NoReader}
      OBVIOUS
    <2> QED
      BY <2>1, <2>2, <2>3, <2>4, <2>5 DEF CacheTypeOK
  <1>2. Told /\ Trusted
    BY DEF Told, Trusted
  <1>3. Overtaken
    <2> SUFFICES ASSUME NEW r \in Reader
                 PROVE began[r] <= told /\ gen[r] <= generation /\ at[r] # "rows"
      BY DEF Overtaken
    <2>1. began[r] = 0 /\ told = 0 /\ gen[r] = 0 /\ generation = 0 /\ at[r] = "out"
      OBVIOUS
    <2> QED
      BY <2>1
  <1>4. LoadsOneAtATime /\ FreshAfterInvalidate
    BY DEF LoadsOneAtATime, FreshAfterInvalidate
  <1> QED
    BY <1>1, <1>2, <1>3, <1>4 DEF CacheInv

(* One case per step of load, of the clock and of the admin endpoints.       *)
LEMMA CacheNextInv == CacheInv /\ [CacheNext]_cacheVars => CacheInv'
  <1> SUFFICES ASSUME CacheInv, [CacheNext]_cacheVars PROVE CacheInv'
    OBVIOUS
  <1> USE CachedTableAssumption
      DEF CacheInv, CacheTypeOK, Told, Trusted, Overtaken, LoadsOneAtATime, FreshAfterInvalidate
  <1>1. ASSUME NEW r \in Reader, CacheHit(r) PROVE CacheInv'
    BY <1>1 DEF CacheHit
  <1>2. ASSUME NEW r \in Reader, LoadStart(r) PROVE CacheInv'
    BY <1>2 DEF LoadStart
  <1>3. ASSUME NEW r \in Reader, LoadWait(r) PROVE CacheInv'
    BY <1>3 DEF LoadWait
  <1>4. ASSUME NEW r \in Reader, WaitHit(r) PROVE CacheInv'
    BY <1>4 DEF WaitHit
  <1>5. ASSUME NEW r \in Reader, WaitLoad(r) PROVE CacheInv'
    BY <1>5 DEF WaitLoad
  <1>6. ASSUME NEW r \in Reader, QueryRuns(r) PROVE CacheInv'
    BY <1>6 DEF QueryRuns
  <1>7. ASSUME NEW r \in Reader, LoadReturns(r) PROVE CacheInv'
    BY <1>7 DEF LoadReturns
  <1>8. ASSUME NEW r \in Reader, LoadFails(r) PROVE CacheInv'
    BY <1>8 DEF LoadFails
  <1>9. CASE Expire
    BY <1>9 DEF Expire
  <1>10. CASE AdminCommit
    BY <1>10 DEF AdminCommit
  <1>11. ASSUME NEW n \in 1..MaxWrites, Invalidate(n) PROVE CacheInv'
    <2> USE <1>11 DEF Invalidate
    <2>1. told' = IF n > told THEN n ELSE told
      OBVIOUS
    <2>2. told <= told' /\ told' <= table /\ told' \in 0..MaxWrites /\ n \in 1..table
      BY <2>1
    <2>3. CacheTypeOK'
      <3>1. fresh' \in BOOLEAN
        OBVIOUS
      <3>2. generation' \in Nat /\ untold' \subseteq 1..MaxWrites
        OBVIOUS
      <3> QED
        BY <2>2, <3>1, <3>2
    <2>4. Told' /\ Trusted'
      BY <2>2
    <2>5. Overtaken'
      BY <2>2
    <2> QED
      BY <2>3, <2>4, <2>5
  <1>12. CASE UNCHANGED cacheVars
    BY <1>12 DEF cacheVars
  <1> QED
    BY <1>1, <1>2, <1>3, <1>4, <1>5, <1>6, <1>7, <1>8, <1>9, <1>10, <1>11, <1>12
       DEF CacheNext, Answered, Loading

(* The kill-switch and the threshold editor: whoever asks after invalidate() *)
(* gets an answer with the write in it.                                      *)
THEOREM AnswersAreFresh == CacheSpec => []FreshAfterInvalidate
  <1>1. CacheInv => FreshAfterInvalidate
    BY DEF CacheInv
  <1> QED
    BY CacheInitInv, CacheNextInv, <1>1, PTL DEF CacheSpec

(* One query at a time, and a lock that nobody leaves behind.                *)
THEOREM OneLoadAtATime == CacheSpec => []LoadsOneAtATime
  <1>1. CacheInv => LoadsOneAtATime
    BY DEF CacheInv
  <1> QED
    BY CacheInitInv, CacheNextInv, <1>1, PTL DEF CacheSpec

-----------------------------------------------------------------------------
(* A step of a request, a client or an admin is a step of the cache, or      *)
(* leaves it alone.                                                          *)
LEMMA StepUsesCache == [Next]_vars => [CacheNext]_cacheVars
  <1> SUFFICES ASSUME [Next]_vars PROVE [CacheNext]_cacheVars
    OBVIOUS
  <1> USE CloudAlertsAssumption
  <1>1. ASSUME NEW r \in Reader, Answered(r) \/ Loading(r) \/ LeavesLoad(r)
        PROVE [CacheNext]_cacheVars
    BY <1>1 DEF LeavesLoad, CacheNext
  <1>2. ASSUME NEW q \in Request, \E batch \in Batches : BeginIngest(q, batch)
        PROVE [CacheNext]_cacheVars
    BY <1>2 DEF BeginIngest
  <1>3. ASSUME NEW q \in Request, Ingest(q) PROVE [CacheNext]_cacheVars
    BY <1>1, <1>3 DEF Ingest, Insert, IngestLoads, IngestFiltered, Commit
  <1>4. ASSUME NEW q \in Request, Rollback(q) \/ DeadlockAbort(q) PROVE [CacheNext]_cacheVars
    BY <1>1, <1>4 DEF Rollback, DeadlockAbort
  <1>5. ASSUME NEW e \in Event, PublishLifecycle(e) PROVE [CacheNext]_cacheVars
    BY <1>5 DEF PublishLifecycle
  <1>6. ASSUME NEW c \in Client, Replay(c) \/ Disconnect(c) PROVE [CacheNext]_cacheVars
    BY <1>1, <1>6 DEF Replay, RowPasses, RowLoads, RowFiltered, Disconnect
  <1>7. ASSUME NEW c \in Client, Connect(c) \/ ReplayRead(c) \/ SendReplay(c) \/ SendLive(c)
        PROVE [CacheNext]_cacheVars
    BY <1>7 DEF Connect, ReplayRead, SendReplay, SendLive
  <1>8. CASE Admin
    BY <1>8 DEF Admin, CacheNext
  <1>9. CASE UNCHANGED vars
    BY <1>9 DEF vars
  <1> QED
    BY <1>2, <1>3, <1>4, <1>5, <1>6, <1>7, <1>8, <1>9 DEF Next

(* The kill-switch under load: no ingest and no replay gets an answer that   *)
(* is older than the last invalidate() before it asked.                      *)
THEOREM KillSwitchTakesEffect == Spec => []FreshAfterInvalidate
  <1>1. Init => CacheInit
    BY DEF Init
  <1>2. CacheInv => FreshAfterInvalidate
    BY DEF CacheInv
  <1> QED
    BY <1>1, <1>2, CacheInitInv, CacheNextInv, StepUsesCache, PTL DEF Spec

-----------------------------------------------------------------------------
(* Ingest.  A row belongs to one transaction until that commits or is rolled *)
(* back, and only a row of its own is published by a transaction.            *)

IngestType ==
    /\ committed \subseteq Event /\ IsFiniteSet(committed)
    /\ req \in [Request -> [pc : {"idle", "insert", "filter", "commit"},
                            left : Seq(Event), mine : SUBSET Event, out : SUBSET Event]]
    /\ aired \in [Event -> Nat] /\ begun \in 0..MaxIngests /\ updates \in 0..MaxUpdates

\* A request between two awaits.
RequestOK(s) ==
    /\ IsFiniteSet(s.mine) /\ s.out \subseteq s.mine
    /\ s.pc \in {"insert", "filter"} => s.left # <<>>
    /\ s.pc = "filter" => Head(s.left) \in s.mine

OneOwner ==
    /\ \A q \in Request : req[q].mine \cap committed = {}
    /\ \A p, q \in Request : p # q => req[p].mine \cap req[q].mine = {}

AiredCommitted == \A e \in Event : aired[e] <= 1 /\ (aired[e] # 0 => e \in committed)

IngestInv == IngestType /\ (\A q \in Request : RequestOK(req[q])) /\ OneOwner /\ AiredCommitted

LEMMA IngestInit == Init => IngestInv
  <1> SUFFICES ASSUME Init PROVE IngestInv
    OBVIOUS
  <1>1. /\ committed = {} /\ req = [q \in Request |-> Idle] /\ aired = [e \in Event |-> 0]
        /\ begun = 0 /\ updates = 0
    BY DEF Init
  <1>2. /\ Idle \in [pc : {"idle", "insert", "filter", "commit"},
                     left : Seq(Event), mine : SUBSET Event, out : SUBSET Event]
        /\ Idle.mine = {} /\ Idle.out = {} /\ Idle.pc = "idle"
    BY DEF Idle
  <1>3. IngestType
    BY <1>1, <1>2, FS_EmptySet, CloudAlertsAssumption DEF IngestType
  <1>4. \A q \in Request : RequestOK(req[q])
    BY <1>1, <1>2, FS_EmptySet DEF RequestOK
  <1>5. OneOwner /\ AiredCommitted
    BY <1>1, <1>2 DEF OneOwner, AiredCommitted
  <1> QED
    BY <1>3, <1>4, <1>5 DEF IngestInv

\* One request moves on; the row it takes, if any, is nobody's.
LEMMA RequestMoves ==
  ASSUME IngestInv, NEW q \in Request, NEW s, req' = [req EXCEPT ![q] = s], RequestOK(s),
         s \in [pc : {"idle", "insert", "filter", "commit"},
                left : Seq(Event), mine : SUBSET Event, out : SUBSET Event],
         \A e \in s.mine : e \in req[q].mine \/
            (e \notin committed /\ \A p \in Request : e \notin req[p].mine),
         UNCHANGED <<committed, aired, updates>>, begun' \in 0..MaxIngests
  PROVE  IngestInv'
  <1>1. req'[q] = s /\ \A p \in Request : p # q => req'[p] = req[p]
    BY DEF IngestInv, IngestType
  <1>2. IngestType'
    BY DEF IngestInv, IngestType
  <1>3. \A p \in Request : RequestOK(req'[p])
    BY <1>1 DEF IngestInv
  <1>4. OneOwner'
    BY <1>1 DEF IngestInv, OneOwner
  <1>5. AiredCommitted'
    BY DEF IngestInv, AiredCommitted
  <1> QED
    BY <1>2, <1>3, <1>4, <1>5 DEF IngestInv

\* The event at the head is dealt with.
LEMMA EventFinished ==
  ASSUME IngestInv, NEW q \in Request, NEW published \in BOOLEAN, Finished(q, published),
         req[q].pc \in {"insert", "filter"},
         LET e == Head(req[q].left) IN
            /\ e \in committed \cup req[q].mine \/ \A p \in Request : e \notin req[p].mine
            /\ published => e \notin committed,
         UNCHANGED <<committed, aired, begun, updates>>
  PROVE  IngestInv'
  <1>1. /\ req[q] \in [pc : {"idle", "insert", "filter", "commit"},
                       left : Seq(Event), mine : SUBSET Event, out : SUBSET Event]
        /\ RequestOK(req[q]) /\ req[q].left # <<>> /\ begun \in 0..MaxIngests
    BY DEF IngestInv, IngestType, RequestOK
  <1>2. PICK e \in Event : e = Head(req[q].left)
    BY <1>1
  <1>3. PICK left \in Seq(Event) : left = Tail(req[q].left)
    <2>1. req[q].left \in Seq(Event) /\ req[q].left # <<>>
      BY <1>1
    <2>2. Tail(req[q].left) \in Seq(Event)
      BY <2>1
    <2> QED
      BY <2>2
  <1>4. PICK mine \in SUBSET Event : mine = req[q].mine \cup ({e} \ committed)
    BY <1>1, <1>2
  <1>5. PICK out \in SUBSET Event : out = IF published THEN req[q].out \cup {e} ELSE req[q].out
    BY <1>1, <1>2
  <1>6. PICK step \in {"insert", "commit"} : step = Step(left)
    BY DEF Step
  <1>7. PICK s : s = [req[q] EXCEPT !.left = left, !.pc = step, !.mine = mine, !.out = out]
    OBVIOUS
  <1>8. req' = [req EXCEPT ![q] = s]
    <2>1. req' = [req EXCEPT ![q].left = left, ![q].pc = step, ![q].mine = mine, ![q].out = out]
      BY <1>2, <1>3, <1>4, <1>5, <1>6 DEF Finished
    <2> QED
      BY <1>7, <2>1 DEF IngestInv, IngestType
  <1>9. /\ s \in [pc : {"idle", "insert", "filter", "commit"},
                  left : Seq(Event), mine : SUBSET Event, out : SUBSET Event]
        /\ s.pc = step /\ s.left = left /\ s.mine = mine /\ s.out = out
    BY <1>1, <1>7
  <1>10. RequestOK(s)
    <2>1. IsFiniteSet(mine)
      <3>1. IsFiniteSet({e} \ committed) /\ IsFiniteSet(req[q].mine)
        BY <1>1, FS_Singleton, FS_Subset DEF RequestOK
      <3> QED
        BY <1>4, <3>1, FS_Union
    <2>2. out \subseteq mine
      BY <1>1, <1>2, <1>4, <1>5 DEF RequestOK
    <2>3. step = "insert" => left # <<>>
      BY <1>6 DEF Step
    <2> QED
      BY <1>6, <1>9, <2>1, <2>2, <2>3 DEF RequestOK
  <1>11. \A d \in s.mine : d \in req[q].mine \/
            (d \notin committed /\ \A p \in Request : d \notin req[p].mine)
    BY <1>2, <1>4, <1>9
  <1> QED
    BY <1>1, <1>8, <1>9, <1>10, <1>11, RequestMoves

LEMMA IngestNext == IngestInv /\ [Next]_vars => IngestInv'
  <1> SUFFICES ASSUME IngestInv, [Next]_vars PROVE IngestInv'
    OBVIOUS
  <1>1. /\ Idle \in [pc : {"idle", "insert", "filter", "commit"},
                     left : Seq(Event), mine : SUBSET Event, out : SUBSET Event]
        /\ Idle.mine = {} /\ Idle.out = {} /\ Idle.pc = "idle" /\ RequestOK(Idle)
    BY FS_EmptySet DEF Idle, RequestOK
  <1>2. \A q \in Request :
           /\ RequestOK(req[q])
           /\ req[q] \in [pc : {"idle", "insert", "filter", "commit"},
                          left : Seq(Event), mine : SUBSET Event, out : SUBSET Event]
    BY DEF IngestInv, IngestType
  <1>3. begun \in 0..MaxIngests
    BY DEF IngestInv, IngestType
  <1>4. ASSUME UNCHANGED <<committed, req, aired, begun>>, updates' \in 0..MaxUpdates
        PROVE  IngestInv'
    BY <1>4 DEF IngestInv, IngestType, OneOwner, AiredCommitted
  <1>5. updates \in 0..MaxUpdates
    BY DEF IngestInv, IngestType
  <1>6. ASSUME NEW q \in Request, NEW batch \in Batches, BeginIngest(q, batch) PROVE IngestInv'
    <2>1. batch \in Seq(Event) /\ begun' \in 0..MaxIngests
      BY <1>3, <1>6, CloudAlertsAssumption DEF BeginIngest
    <2>2. PICK step \in {"insert", "commit"} : step = Step(batch)
      BY DEF Step
    <2>3. PICK s : s = [Idle EXCEPT !.pc = step, !.left = batch]
      OBVIOUS
    <2>4. req' = [req EXCEPT ![q] = s]
      BY <1>6, <2>2, <2>3 DEF BeginIngest
    <2>5. /\ s \in [pc : {"idle", "insert", "filter", "commit"},
                    left : Seq(Event), mine : SUBSET Event, out : SUBSET Event]
          /\ s.pc = step /\ s.left = batch /\ s.mine = {} /\ s.out = {}
      BY <1>1, <2>1, <2>3
    <2>6. RequestOK(s)
      BY <2>2, <2>5, FS_EmptySet DEF RequestOK, Step
    <2> QED
      BY <1>6, <2>1, <2>4, <2>5, <2>6, RequestMoves DEF BeginIngest
  <1>7. ASSUME NEW q \in Request, Insert(q) PROVE IngestInv'
    <2> DEFINE e == Head(req[q].left)
    <2>1. /\ req[q].pc = "insert" /\ UNCHANGED <<committed, aired, begun, updates>>
          /\ \A p \in Request : ~ WaitsFor(q, p)
      BY <1>7 DEF Insert
    <2>2. req[q].left # <<>> /\ e \in Event
      BY <1>2, <2>1 DEF RequestOK
    <2>3. \A p \in Request : p # q => e \notin req[p].mine
      BY <2>1 DEF WaitsFor
    <2>4. CASE e \in committed \cup req[q].mine
      <3>1. Finished(q, FALSE)
        BY <1>7, <2>4 DEF Insert
      <3> QED
        BY <2>1, <2>4, <3>1, EventFinished
    <2>5. CASE e \notin committed \cup req[q].mine /\ e \notin Raised
      <3>1. Finished(q, e \in Alert)
        BY <1>7, <2>5 DEF Insert
      <3>2. PICK b \in BOOLEAN : b = (e \in Alert)
        <4>1. (e \in Alert) \in BOOLEAN
          OBVIOUS
        <4> QED
          BY <4>1
      <3> QED
        BY <2>1, <2>3, <2>5, <3>1, <3>2, EventFinished
    <2>6. CASE e \notin committed \cup req[q].mine /\ e \in Raised
      <3>1. PICK mine \in SUBSET Event : mine = req[q].mine \cup {e}
        BY <1>2, <2>2
      <3>2. req' = [req EXCEPT ![q].pc = "filter", ![q].mine = mine]
        BY <1>7, <2>6, <3>1 DEF Insert
      <3>3. PICK s : s = [req[q] EXCEPT !.pc = "filter", !.mine = mine]
        OBVIOUS
      <3>4. req' = [req EXCEPT ![q] = s]
        BY <3>2, <3>3 DEF IngestInv, IngestType
      <3>5. /\ s \in [pc : {"idle", "insert", "filter", "commit"},
                      left : Seq(Event), mine : SUBSET Event, out : SUBSET Event]
            /\ s.pc = "filter" /\ s.left = req[q].left /\ s.mine = mine /\ s.out = req[q].out
        BY <1>2, <3>3
      <3>6. RequestOK(s)
        <4>1. /\ IsFiniteSet(req[q].mine) /\ req[q].out \subseteq req[q].mine
              /\ e \in mine /\ req[q].mine \subseteq mine
          BY <1>2, <3>1 DEF RequestOK
        <4>2. IsFiniteSet(mine)
          <5>1. IsFiniteSet(req[q].mine \cup {e})
            BY <4>1, FS_AddElement, Zenon
          <5> QED
            BY <3>1, <5>1
        <4> QED
          BY <2>2, <3>5, <4>1, <4>2 DEF RequestOK
      <3>7. \A d \in s.mine : d \in req[q].mine \/
               (d \notin committed /\ \A p \in Request : d \notin req[p].mine)
        BY <2>3, <2>6, <3>1, <3>5
      <3> QED
        BY <1>3, <2>1, <3>4, <3>5, <3>6, <3>7, RequestMoves
    <2> QED
      BY <2>4, <2>5, <2>6
  <1>8. ASSUME NEW q \in Request, IngestFiltered(q) PROVE IngestInv'
    <2>1. /\ req[q].pc = "filter" /\ UNCHANGED <<committed, aired, begun, updates>>
          /\ Finished(q, ~ Filters(used'.version, Head(req[q].left)))
      BY <1>8 DEF IngestFiltered
    <2>2. PICK b \in BOOLEAN : b = ~ Filters(used'.version, Head(req[q].left))
      OBVIOUS
    <2>3. Head(req[q].left) \in req[q].mine /\ Head(req[q].left) \notin committed
      BY <1>2, <2>1 DEF RequestOK, IngestInv, OneOwner
    <2> QED
      BY <2>1, <2>2, <2>3, EventFinished
  <1>9. ASSUME NEW q \in Request, Commit(q) PROVE IngestInv'
    <2>1. /\ committed' = committed \cup req[q].mine /\ req' = [req EXCEPT ![q] = Idle]
          /\ UNCHANGED <<begun, updates>>
          /\ aired' = [e \in Event |-> aired[e] + (IF e \in req[q].out THEN 1 ELSE 0)]
      BY <1>9 DEF Commit
    <2>2. req'[q] = Idle /\ \A p \in Request : p # q => req'[p] = req[p]
      BY <2>1 DEF IngestInv, IngestType
    <2>3. IngestType'
      <3>1. IsFiniteSet(committed')
        BY <1>2, <2>1, FS_Union DEF IngestInv, IngestType, RequestOK
      <3>2. aired' \in [Event -> Nat]
        BY <2>1 DEF IngestInv, IngestType
      <3>3. req' \in [Request -> [pc : {"idle", "insert", "filter", "commit"},
                                  left : Seq(Event), mine : SUBSET Event, out : SUBSET Event]]
        BY <1>1, <2>1 DEF IngestInv, IngestType
      <3>4. committed' \subseteq Event
        BY <1>2, <2>1 DEF IngestInv, IngestType
      <3> QED
        BY <1>3, <1>5, <2>1, <3>1, <3>2, <3>3, <3>4 DEF IngestType
    <2>4. \A p \in Request : RequestOK(req'[p])
      BY <1>1, <1>2, <2>2
    <2>5. OneOwner'
      BY <1>1, <2>1, <2>2 DEF IngestInv, OneOwner
    <2>6. AiredCommitted'
      <3> SUFFICES ASSUME NEW e \in Event
                   PROVE  aired'[e] <= 1 /\ (aired'[e] # 0 => e \in committed')
        BY DEF AiredCommitted
      <3>1. aired[e] \in Nat /\ aired[e] <= 1 /\ (aired[e] # 0 => e \in committed)
        BY DEF IngestInv, IngestType, AiredCommitted
      <3>2. CASE e \in req[q].out
        <4>1. e \in req[q].mine /\ e \notin committed
          BY <1>2, <3>2 DEF RequestOK, IngestInv, OneOwner
        <4>2. aired'[e] = 1
          BY <2>1, <3>1, <3>2, <4>1
        <4> QED
          BY <2>1, <4>1, <4>2
      <3>3. CASE e \notin req[q].out
        <4>1. aired'[e] = aired[e]
          BY <2>1, <3>1, <3>3
        <4> QED
          BY <2>1, <3>1, <4>1
      <3> QED
        BY <3>2, <3>3
    <2> QED
      BY <2>3, <2>4, <2>5, <2>6 DEF IngestInv
  <1>10. ASSUME NEW q \in Request, Rollback(q) PROVE IngestInv'
    BY <1>1, <1>3, <1>10, RequestMoves DEF Rollback
  <1>11. ASSUME NEW e \in Event, PublishLifecycle(e) PROVE IngestInv'
    <2>1. updates' \in 0..MaxUpdates
      BY <1>5, <1>11, CloudAlertsAssumption DEF PublishLifecycle
    <2> QED
      BY <1>4, <1>11, <2>1 DEF PublishLifecycle
  <1>12. ASSUME NEW c \in Client, Connect(c) \/ ReplayRead(c) \/ Replay(c) \/ SendReplay(c)
                                  \/ SendLive(c) \/ Disconnect(c)
         PROVE  IngestInv'
    <2>1. UNCHANGED <<committed, req, aired, begun, updates>>
      BY <1>12 DEF Connect, ReplayRead, Replay, RowPasses, RowLoads, RowFiltered, RowDone,
                   SendReplay, SendLive, Disconnect, alertVars
    <2> QED
      BY <1>4, <1>5, <2>1
  <1>13. CASE Admin \/ UNCHANGED vars \/ \E q \in Request : IngestLoads(q)
    <2>1. UNCHANGED alertVars
      BY <1>13 DEF Admin, vars, IngestLoads
    <2> QED
      BY <1>4, <1>5, <2>1 DEF alertVars
  <1> QED
    BY <1>6, <1>7, <1>8, <1>9, <1>10, <1>11, <1>12, <1>13 DEF Next, Ingest, DeadlockAbort

(* Whatever batches overlap, in whatever order, with rollbacks and deadlocks *)
(* in between: one transaction at most publishes an event and survives (the  *)
(* unique constraint and the rowcount gate of ingest_events).                *)
THEOREM AlwaysAiredOnce == Spec => []AiredOnce
  <1>1. IngestInv => AiredOnce
    <2> SUFFICES ASSUME IngestInv, NEW e \in Event
                 PROVE  aired[e] + Cardinality({q \in Request : e \in req[q].out}) <= 1
      BY DEF AiredOnce
    <2> DEFINE Out == {q \in Request : e \in req[q].out}
    <2>1. \A q \in Out : e \in req[q].mine /\ e \notin committed
      BY DEF IngestInv, RequestOK, OneOwner
    <2>2. aired[e] \in Nat /\ aired[e] <= 1 /\ (aired[e] # 0 => e \in committed)
      BY DEF IngestInv, IngestType, AiredCommitted
    <2>3. \A p, q \in Out : p = q
      BY <2>1 DEF IngestInv, OneOwner
    <2>4. CASE Out = {}
      BY <2>2, <2>4, FS_EmptySet
    <2>5. CASE Out # {}
      <3>1. PICK q \in Out : TRUE
        BY <2>5
      <3>2. Out = {q}
        BY <2>3, <3>1
      <3>3. Cardinality(Out) = 1
        BY <3>2, FS_Singleton
      <3>4. aired[e] = 0
        BY <2>1, <2>2, <3>1
      <3> QED
        BY <3>3, <3>4
    <2> QED
      BY <2>4, <2>5
  <1> QED
    BY <1>1, IngestInit, IngestNext, PTL DEF Spec

-----------------------------------------------------------------------------
(* The streams.  What was published since a client connected is in its queue *)
(* until it is sent; what it missed is in the rows it read, or in the replay *)
(* made of them, until it is sent.                                           *)

LEMMA SeqSets ==
  ASSUME NEW S, NEW s \in Seq(S)
  PROVE  /\ \A x \in S : /\ Append(s, x) \in Seq(S) /\ Len(Append(s, x)) = Len(s) + 1
                         /\ ToSet(Append(s, x)) = ToSet(s) \cup {x}
         /\ s # <<>> => /\ Head(s) \in S /\ Tail(s) \in Seq(S) /\ Len(Tail(s)) = Len(s) - 1
                        /\ ToSet(s) = {Head(s)} \cup ToSet(Tail(s))
         /\ s = <<>> => ToSet(s) = {}
         /\ Len(s) \in Nat /\ (Len(s) = 0 <=> s = <<>>)
  <1>1. /\ \A x \in S : /\ Append(s, x) \in Seq(S) /\ Len(Append(s, x)) = Len(s) + 1
                        /\ ToSet(Append(s, x)) = ToSet(s) \cup {x}
    <2> SUFFICES ASSUME NEW x \in S
                 PROVE  /\ Append(s, x) \in Seq(S) /\ Len(Append(s, x)) = Len(s) + 1
                        /\ ToSet(Append(s, x)) = ToSet(s) \cup {x}
      OBVIOUS
    <2>1. /\ Append(s, x) \in Seq(S) /\ Len(Append(s, x)) = Len(s) + 1 /\ Len(s) \in Nat
          /\ DOMAIN s = 1..Len(s) /\ DOMAIN Append(s, x) = 1..(Len(s) + 1)
          /\ \A i \in 1..Len(s) : Append(s, x)[i] = s[i]
          /\ Append(s, x)[Len(s) + 1] = x
      OBVIOUS
    <2>2. \A y \in ToSet(Append(s, x)) : y \in ToSet(s) \cup {x}
      BY <2>1 DEF ToSet
    <2>3. \A y \in ToSet(s) : y \in ToSet(Append(s, x))
      BY <2>1 DEF ToSet
    <2>4. x \in ToSet(Append(s, x))
      BY <2>1 DEF ToSet
    <2> QED
      BY <2>1, <2>2, <2>3, <2>4
  <1>2. ASSUME s # <<>>
        PROVE  /\ Head(s) \in S /\ Tail(s) \in Seq(S) /\ Len(Tail(s)) = Len(s) - 1
               /\ ToSet(s) = {Head(s)} \cup ToSet(Tail(s))
    <2>1. /\ Head(s) \in S /\ Tail(s) \in Seq(S) /\ Len(Tail(s)) = Len(s) - 1
          /\ Len(s) \in Nat \ {0} /\ Head(s) = s[1]
          /\ DOMAIN s = 1..Len(s) /\ DOMAIN Tail(s) = 1..(Len(s) - 1)
          /\ \A i \in 1..(Len(s) - 1) : Tail(s)[i] = s[i + 1]
      BY <1>2
    <2>2. \A y \in ToSet(s) : y = Head(s) \/ y \in ToSet(Tail(s))
      <3> SUFFICES ASSUME NEW i \in 1..Len(s), i # 1 PROVE s[i] \in ToSet(Tail(s))
        BY <2>1 DEF ToSet
      <3>1. i - 1 \in 1..(Len(s) - 1) /\ s[(i - 1) + 1] = s[i]
        BY <2>1
      <3> QED
        BY <2>1, <3>1 DEF ToSet
    <2>3. Head(s) \in ToSet(s)
      BY <2>1 DEF ToSet
    <2>4. \A y \in ToSet(Tail(s)) : y \in ToSet(s)
      BY <2>1 DEF ToSet
    <2> QED
      BY <2>1, <2>2, <2>3, <2>4
  <1>3. s = <<>> => ToSet(s) = {}
    BY DEF ToSet
  <1>4. Len(s) \in Nat /\ (Len(s) = 0 <=> s = <<>>)
    OBVIOUS
  <1> QED
    BY <1>1, <1>2, <1>3, <1>4

Stream ==
    [pc : {"off", "read", "filter", "send", "live"}, queue : Seq(Frame), rows : Seq(Alert),
     replay : Seq(Alert), last : Event \cup {NoEvent}, from : Event \cup {NoEvent},
     got : SUBSET Event, since : SUBSET Event, base : SUBSET Event, excused : SUBSET Event]

\* The alerts in a queue: an ESCALATION_UPDATED frame with the same id is none.
Queued(queue) == {f.id : f \in {g \in ToSet(queue) : g.kind = "alert"}}

StreamOK(s) ==
    /\ Len(s.queue) <= QueueMax /\ Len(s.rows) + Len(s.replay) <= ReplayLimit
    /\ s.pc \in {"off", "read", "live"} => s.rows = <<>> /\ s.replay = <<>>
    /\ s.pc = "filter" => s.rows # <<>>
    /\ s.pc = "send" => s.rows = <<>> /\ s.replay # <<>>
    /\ s.pc = "off" => s.from = s.last
    /\ s.since \subseteq s.got \cup s.excused \cup Queued(s.queue)
    /\ s.pc \in {"filter", "send", "live"} =>
          Later(s.base, s.from) \ Killable \subseteq
              s.got \cup s.excused \cup ToSet(s.rows) \cup ToSet(s.replay)

Streams ==
    /\ sse \in [Client -> Stream]
    /\ \A c \in Client : StreamOK(sse[c]) /\ sse[c].base \subseteq committed

LEMMA StreamMoves ==
  ASSUME Streams, NEW c \in Client, NEW t \in Stream, sse' = [sse EXCEPT ![c] = t], StreamOK(t),
         t.base \subseteq committed, committed' = committed
  PROVE  Streams'
  <1>1. sse'[c] = t /\ \A d \in Client : d # c => sse'[d] = sse[d]
    BY DEF Streams
  <1>2. sse' \in [Client -> Stream]
    BY DEF Streams
  <1> QED
    BY <1>1, <1>2 DEF Streams

LEMMA QueueStep ==
  ASSUME NEW queue \in Seq(Frame), NEW f \in Frame
  PROVE  /\ Queued(Append(queue, f)) = Queued(queue) \cup (IF f.kind = "alert" THEN {f.id} ELSE {})
         /\ queue # <<>> =>
               Queued(queue) = Queued(Tail(queue)) \cup
                               (IF Head(queue).kind = "alert" THEN {Head(queue).id} ELSE {})
  <1>1. ToSet(Append(queue, f)) = ToSet(queue) \cup {f}
    BY SeqSets
  <1>2. queue # <<>> => ToSet(queue) = {Head(queue)} \cup ToSet(Tail(queue))
    BY SeqSets
  <1>3. Queued(Append(queue, f)) = Queued(queue) \cup (IF f.kind = "alert" THEN {f.id} ELSE {})
    BY <1>1 DEF Queued
  <1>4. queue # <<>> =>
           Queued(queue) = Queued(Tail(queue)) \cup
                           (IF Head(queue).kind = "alert" THEN {Head(queue).id} ELSE {})
    BY <1>2 DEF Queued
  <1> QED
    BY <1>3, <1>4

\* A frame is put into every queue that has room; a full one excuses it.
LEMMA PublishStep ==
  ASSUME Streams, NEW frame \in Frame, sse' = publish_alert(frame), committed' = committed
  PROVE  Streams'
  <1>1. frame.id \in Event /\ frame.kind \in {"alert", "update"}
    BY DEF Frame
  <1>2. ASSUME NEW c \in Client
        PROVE  /\ sse'[c] \in Stream /\ StreamOK(sse'[c]) /\ sse'[c].base \subseteq committed
    <2>1. sse[c] \in Stream /\ StreamOK(sse[c]) /\ sse[c].base \subseteq committed
      BY DEF Streams
    <2>2. PICK alert \in SUBSET Event :
             alert = IF frame.kind = "alert" /\ sse[c].pc # "off" THEN {frame.id} ELSE {}
      BY <1>1
    <2>3. PICK since \in SUBSET Event : since = sse[c].since \cup alert
      BY <2>1 DEF Stream
    <2>4. PICK s : s = [sse[c] EXCEPT !.since = since]
      OBVIOUS
    <2>5. /\ s \in Stream /\ s.pc = sse[c].pc /\ s.queue = sse[c].queue /\ s.rows = sse[c].rows
          /\ s.replay = sse[c].replay /\ s.last = sse[c].last /\ s.from = sse[c].from
          /\ s.got = sse[c].got /\ s.since = since /\ s.base = sse[c].base
          /\ s.excused = sse[c].excused
      BY <2>1, <2>4 DEF Stream
    <2>6. sse'[c] = IF ~ Subscribed(c) THEN s
                    ELSE IF Len(s.queue) < QueueMax THEN [s EXCEPT !.queue = Append(@, frame)]
                    ELSE [s EXCEPT !.excused = @ \cup alert]
      BY <2>2, <2>3, <2>4 DEF publish_alert
    <2>7. CASE sse[c].pc = "off"
      <3>1. sse'[c] = s /\ since = sse[c].since
        BY <2>2, <2>3, <2>6, <2>7 DEF Subscribed
      <3> QED
        BY <2>1, <2>5, <3>1 DEF StreamOK
    <2>8. CASE sse[c].pc # "off" /\ Len(s.queue) < QueueMax
      <3>1. PICK queue \in Seq(Frame) : queue = Append(s.queue, frame)
        BY <2>5, SeqSets DEF Stream
      <3>2. sse'[c] = [s EXCEPT !.queue = queue]
        BY <2>6, <2>8, <3>1 DEF Subscribed
      <3>3. /\ sse'[c] \in Stream /\ sse'[c].pc = s.pc /\ sse'[c].queue = queue
            /\ sse'[c].rows = s.rows /\ sse'[c].replay = s.replay /\ sse'[c].last = s.last
            /\ sse'[c].from = s.from /\ sse'[c].got = s.got /\ sse'[c].since = s.since
            /\ sse'[c].base = s.base /\ sse'[c].excused = s.excused
        BY <2>5, <3>2 DEF Stream
      <3>4. s.queue \in Seq(Frame) /\ Len(s.queue) \in Nat /\ Len(queue) = Len(s.queue) + 1
        BY <2>5, <3>1 DEF Stream
      <3>5. Len(queue) <= QueueMax
        BY <2>8, <3>4, CloudAlertsAssumption
      <3>6. Queued(queue) = Queued(s.queue) \cup (IF frame.kind = "alert" THEN {frame.id} ELSE {})
        BY <3>1, <3>4, QueueStep
      <3>7. sse'[c].since \subseteq sse'[c].got \cup sse'[c].excused \cup Queued(queue)
        BY <2>1, <2>2, <2>3, <2>5, <3>3, <3>6 DEF StreamOK
      <3> QED
        BY <2>1, <2>5, <3>3, <3>5, <3>7 DEF StreamOK
    <2>9. CASE sse[c].pc # "off" /\ ~ (Len(s.queue) < QueueMax)
      <3>1. PICK excused \in SUBSET Event : excused = s.excused \cup alert
        BY <2>5 DEF Stream
      <3>2. sse'[c] = [s EXCEPT !.excused = excused]
        BY <2>6, <2>9, <3>1 DEF Subscribed
      <3>3. /\ sse'[c] \in Stream /\ sse'[c].pc = s.pc /\ sse'[c].queue = s.queue
            /\ sse'[c].rows = s.rows /\ sse'[c].replay = s.replay /\ sse'[c].last = s.last
            /\ sse'[c].from = s.from /\ sse'[c].got = s.got /\ sse'[c].since = s.since
            /\ sse'[c].base = s.base /\ sse'[c].excused = excused
        BY <2>5, <3>2 DEF Stream
      <3>4. sse'[c].since \subseteq sse'[c].got \cup sse'[c].excused \cup Queued(sse'[c].queue)
        BY <2>1, <2>3, <2>5, <3>1, <3>3 DEF StreamOK
      <3> QED
        BY <2>1, <2>5, <3>1, <3>3, <3>4 DEF StreamOK
    <2> QED
      BY <2>7, <2>8, <2>9
  <1>3. DOMAIN sse' = Client /\ sse' = [c \in Client |-> sse'[c]]
    BY DEF publish_alert
  <1>4. sse' \in [Client -> Stream]
    BY <1>2, <1>3
  <1> QED
    BY <1>2, <1>4 DEF Streams

\* A client connects: with a cursor it asks for what it missed.
LEMMA ConnectStep ==
  ASSUME Streams, IngestType, NEW c \in Client, Connect(c) PROVE Streams'
  <1>1. /\ sse[c] \in Stream /\ StreamOK(sse[c]) /\ sse[c].pc = "off" /\ committed' = committed
        /\ committed \subseteq Event
    BY DEF Streams, Connect, IngestType
  <1>2. PICK pc \in {"live", "read"} : pc = IF sse[c].last = NoEvent THEN "live" ELSE "read"
    OBVIOUS
  <1>3. PICK t : t = [sse[c] EXCEPT !.pc = pc, !.base = committed]
    OBVIOUS
  <1>4. sse' = [sse EXCEPT ![c] = t]
    <2>1. sse' = [sse EXCEPT ![c].pc = pc, ![c].base = committed]
      BY <1>2 DEF Connect
    <2> QED
      BY <1>3, <2>1 DEF Streams
  <1>5. /\ t \in Stream /\ t.pc = pc /\ t.queue = sse[c].queue /\ t.rows = sse[c].rows
        /\ t.replay = sse[c].replay /\ t.last = sse[c].last /\ t.from = sse[c].from
        /\ t.got = sse[c].got /\ t.since = sse[c].since /\ t.base = committed
        /\ t.excused = sse[c].excused
    BY <1>1, <1>3 DEF Stream
  <1>6. pc = "live" => Later(committed, sse[c].from) = {}
    <2>1. pc = "live" => sse[c].from = NoEvent
      BY <1>1, <1>2 DEF StreamOK
    <2> QED
      BY <1>1, <2>1, CloudAlertsAssumption DEF Later
  <1>7. StreamOK(t)
    BY <1>1, <1>2, <1>5, <1>6 DEF StreamOK
  <1> QED
    BY <1>1, <1>4, <1>5, <1>7, StreamMoves

\* The query: what lies beyond the LIMIT is excused.
LEMMA ReplayReadStep ==
  ASSUME Streams, IngestType, NEW c \in Client, ReplayRead(c) PROVE Streams'
  <1>1. /\ sse[c] \in Stream /\ StreamOK(sse[c]) /\ sse[c].pc = "read" /\ committed' = committed
        /\ sse[c].base \subseteq committed
    BY DEF Streams, ReplayRead
  <1> DEFINE S == Later(committed, sse[c].from)
             Kept(rows) == SubSeq(rows, 1, IF Len(rows) < ReplayLimit THEN Len(rows) ELSE ReplayLimit)
  <1>2. PICK rows \in Sorted(S) :
           sse' = [sse EXCEPT ![c].rows = Kept(rows),
                              ![c].excused = @ \cup (ToSet(rows) \ ToSet(Kept(rows))),
                              ![c].pc = IF Kept(rows) = <<>> THEN "live" ELSE "filter"]
    BY DEF ReplayRead
  <1>3. rows \in Seq(Alert) /\ ToSet(rows) = S
    <2>1. S \subseteq committed /\ S \subseteq Alert
      BY DEF Later
    <2>2. IsFiniteSet(S)
      BY <2>1, FS_Subset DEF IngestType
    <2>3. Cardinality(S) \in Nat
      BY <2>2, FS_CardinalityType
    <2>4. rows \in [1..Cardinality(S) -> S] /\ ToSet(rows) = S
      BY <1>2 DEF Sorted
    <2> HIDE DEF S
    <2>5. rows \in [1..Cardinality(S) -> Alert]
      BY <2>1, <2>4
    <2> QED
      BY <2>3, <2>4, <2>5
  <1>4. PICK kept \in Seq(Alert) : kept = Kept(rows) /\ Len(kept) <= ReplayLimit
    <2>1. Len(rows) \in Nat /\ ReplayLimit \in Nat
      BY <1>3, CloudAlertsAssumption
    <2>2. PICK n \in Nat : n = (IF Len(rows) < ReplayLimit THEN Len(rows) ELSE ReplayLimit)
                           /\ n <= Len(rows) /\ n <= ReplayLimit
      BY <2>1
    <2>3. SubSeq(rows, 1, n) \in Seq(Alert) /\ Len(SubSeq(rows, 1, n)) = n
      BY <1>3, <2>2
    <2> QED
      BY <2>2, <2>3
  <1>5. PICK excused \in SUBSET Event : excused = sse[c].excused \cup (S \ ToSet(kept))
    <2>1. S \subseteq Event
      BY CloudAlertsAssumption DEF Later
    <2> QED
      BY <1>1, <2>1 DEF Stream
  <1>6. PICK pc \in {"live", "filter"} : pc = IF kept = <<>> THEN "live" ELSE "filter"
    OBVIOUS
  <1>7. PICK t : t = [sse[c] EXCEPT !.rows = kept, !.excused = excused, !.pc = pc]
    OBVIOUS
  <1>8. sse' = [sse EXCEPT ![c] = t]
    <2>1. sse' = [sse EXCEPT ![c].rows = kept, ![c].excused = @ \cup (S \ ToSet(kept)), ![c].pc = pc]
      BY <1>2, <1>3, <1>4, <1>6
    <2> HIDE DEF S
    <2>2. sse' = [sse EXCEPT ![c].rows = kept, ![c].excused = excused, ![c].pc = pc]
      BY <1>5, <2>1 DEF Streams
    <2> QED
      BY <1>7, <2>2 DEF Streams
  <1>9. /\ t \in Stream /\ t.pc = pc /\ t.queue = sse[c].queue /\ t.rows = kept
        /\ t.replay = sse[c].replay /\ t.last = sse[c].last /\ t.from = sse[c].from
        /\ t.got = sse[c].got /\ t.since = sse[c].since /\ t.base = sse[c].base
        /\ t.excused = excused
    BY <1>1, <1>7 DEF Stream
  <1>10. Later(sse[c].base, sse[c].from) \subseteq S
    BY <1>1 DEF Later
  <1>11. Later(t.base, t.from) \ Killable \subseteq
            t.got \cup t.excused \cup ToSet(t.rows) \cup ToSet(t.replay)
    <2> HIDE DEF S
    <2> QED
      BY <1>5, <1>9, <1>10
  <1>12. t.since \subseteq t.got \cup t.excused \cup Queued(t.queue)
    <2> HIDE DEF S
    <2> QED
      BY <1>1, <1>5, <1>9 DEF StreamOK
  <1>13. Len(kept) \in Nat /\ sse[c].replay = <<>> /\ Len(<<>>) = 0
    BY <1>1 DEF StreamOK
  <1>14. Len(t.rows) + Len(t.replay) <= ReplayLimit
    BY <1>4, <1>9, <1>13, CloudAlertsAssumption
  <1>15. StreamOK(t)
    BY <1>1, <1>6, <1>9, <1>11, <1>12, <1>13, <1>14 DEF StreamOK
  <1> QED
    BY <1>1, <1>8, <1>9, <1>15, StreamMoves

\* A row is asked about; only one of the class that is switched off is left out.
LEMMA RowStep ==
  ASSUME Streams, NEW c \in Client, sse[c].pc = "filter", NEW keep \in BOOLEAN, RowDone(c, keep),
         keep \/ Head(sse[c].rows) \in Killable
  PROVE  Streams'
  <1>1. /\ sse[c] \in Stream /\ StreamOK(sse[c]) /\ sse[c].rows # <<>> /\ committed' = committed
        /\ sse[c].base \subseteq committed
    BY DEF Streams, RowDone, StreamOK
  <1>2. sse[c].rows \in Seq(Alert) /\ sse[c].replay \in Seq(Alert)
    BY <1>1 DEF Stream
  <1>3. PICK e \in Alert : e = Head(sse[c].rows)
    BY <1>1, <1>2
  <1>4. PICK rows \in Seq(Alert) :
           /\ rows = Tail(sse[c].rows) /\ Len(rows) = Len(sse[c].rows) - 1
           /\ ToSet(sse[c].rows) = {e} \cup ToSet(rows)
    <2>1. PICK s \in Seq(Alert) : s = sse[c].rows
      BY <1>2
    <2>2. /\ Tail(s) \in Seq(Alert) /\ Len(Tail(s)) = Len(s) - 1
          /\ ToSet(s) = {Head(s)} \cup ToSet(Tail(s))
      BY <1>1, <2>1, SeqSets, Zenon
    <2> QED
      BY <1>3, <2>1, <2>2, Zenon
  <1>5. PICK replay \in Seq(Alert) :
           /\ replay = IF keep THEN Append(sse[c].replay, e) ELSE sse[c].replay
           /\ Len(replay) <= Len(sse[c].replay) + 1
           /\ ToSet(sse[c].replay) \subseteq ToSet(replay) /\ (keep => e \in ToSet(replay))
    <2>1. CASE keep
      <3>1. PICK s \in Seq(Alert) : s = sse[c].replay
        BY <1>2
      <3>2. Append(s, e) \in Seq(Alert) /\ Len(Append(s, e)) = Len(s) + 1 /\ Len(s) \in Nat
        OBVIOUS
      <3>3. \A x \in Alert : ToSet(Append(s, x)) = ToSet(s) \cup {x}
        BY SeqSets
      <3>4. ToSet(Append(s, e)) = ToSet(s) \cup {e}
        BY <3>3, Zenon
      <3>5. PICK r \in Seq(Alert) : r = Append(s, e)
        BY <3>2
      <3>6. /\ r = IF keep THEN Append(sse[c].replay, e) ELSE sse[c].replay
            /\ Len(r) <= Len(sse[c].replay) + 1
        BY <2>1, <3>1, <3>2, <3>5
      <3>7. ToSet(sse[c].replay) \subseteq ToSet(r) /\ e \in ToSet(r)
        BY <3>1, <3>4, <3>5
      <3> QED
        BY <3>6, <3>7
    <2>2. CASE ~ keep
      BY <1>2, <2>2
    <2> QED
      BY <2>1, <2>2
  <1>6. PICK pc \in {"filter", "send", "live"} :
           pc = IF rows # <<>> THEN "filter" ELSE IF replay # <<>> THEN "send" ELSE "live"
    OBVIOUS
  <1>7. PICK t : t = [sse[c] EXCEPT !.rows = rows, !.replay = replay, !.pc = pc]
    OBVIOUS
  <1>8. sse' = [sse EXCEPT ![c] = t]
    <2>1. sse' = [sse EXCEPT ![c].rows = rows, ![c].replay = replay, ![c].pc = pc]
      BY <1>3, <1>4, <1>5, <1>6 DEF RowDone
    <2> QED
      BY <1>7, <2>1 DEF Streams
  <1>9. /\ t \in Stream /\ t.pc = pc /\ t.queue = sse[c].queue /\ t.rows = rows
        /\ t.replay = replay /\ t.last = sse[c].last /\ t.from = sse[c].from
        /\ t.got = sse[c].got /\ t.since = sse[c].since /\ t.base = sse[c].base
        /\ t.excused = sse[c].excused
    BY <1>1, <1>7 DEF Stream
  <1>10. Later(t.base, t.from) \ Killable \subseteq
            t.got \cup t.excused \cup ToSet(t.rows) \cup ToSet(t.replay)
    <2>1. Later(t.base, t.from) \ Killable \subseteq
            sse[c].got \cup sse[c].excused \cup ToSet(sse[c].rows) \cup ToSet(sse[c].replay)
      BY <1>1, <1>9 DEF StreamOK
    <2> QED
      BY <1>3, <1>4, <1>5, <1>9, <2>1
  <1>11. Len(t.rows) + Len(t.replay) <= ReplayLimit
    <2>1. /\ Len(sse[c].rows) \in Nat /\ Len(sse[c].replay) \in Nat /\ Len(replay) \in Nat
          /\ Len(rows) \in Nat
      BY <1>2
    <2>2. Len(sse[c].rows) + Len(sse[c].replay) <= ReplayLimit
      BY <1>1 DEF StreamOK
    <2>3. Len(rows) = Len(sse[c].rows) - 1 /\ Len(replay) <= Len(sse[c].replay) + 1
      BY <1>4, <1>5
    <2>4. ReplayLimit \in Nat
      BY CloudAlertsAssumption
    <2>5. Len(rows) + Len(replay) <= ReplayLimit
      <3>1. PICK k \in Nat, m \in Nat, i \in Nat, j \in Nat :
               /\ k = Len(sse[c].rows) /\ m = Len(sse[c].replay)
               /\ i = Len(rows) /\ j = Len(replay)
        BY <2>1
      <3>2. k + m <= ReplayLimit /\ i = k - 1 /\ j <= m + 1
        BY <2>2, <2>3, <3>1
      <3>3. i + j <= ReplayLimit
        BY <2>4, <3>2
      <3> QED
        BY <3>1, <3>3
    <2> QED
      BY <1>9, <2>5
  <1>12. StreamOK(t)
    BY <1>1, <1>6, <1>9, <1>10, <1>11 DEF StreamOK
  <1> QED
    BY <1>1, <1>8, <1>9, <1>12, StreamMoves

\* A frame of the replay is sent.
LEMMA SendReplayStep ==
  ASSUME Streams, NEW c \in Client, SendReplay(c) PROVE Streams'
  <1>1. /\ sse[c] \in Stream /\ StreamOK(sse[c]) /\ sse[c].rows = <<>> /\ sse[c].replay # <<>>
        /\ sse[c].pc = "send" /\ committed' = committed /\ sse[c].base \subseteq committed
    BY DEF Streams, SendReplay, StreamOK
  <1>2. sse[c].replay \in Seq(Alert) /\ Alert \subseteq Event
    BY <1>1, CloudAlertsAssumption DEF Stream
  <1>3. PICK e \in Event : e = Head(sse[c].replay)
    BY <1>1, <1>2, SeqSets
  <1>4. PICK replay \in Seq(Alert) :
           /\ replay = Tail(sse[c].replay) /\ Len(replay) = Len(sse[c].replay) - 1
           /\ ToSet(sse[c].replay) = {e} \cup ToSet(replay)
    <2>1. PICK s \in Seq(Alert) : s = sse[c].replay
      BY <1>2
    <2>2. /\ Tail(s) \in Seq(Alert) /\ Len(Tail(s)) = Len(s) - 1
          /\ ToSet(s) = {Head(s)} \cup ToSet(Tail(s))
      BY <1>1, <2>1, SeqSets, Zenon
    <2> QED
      BY <1>3, <2>1, <2>2, Zenon
  <1>5. PICK got \in SUBSET Event : got = sse[c].got \cup {e}
    BY <1>1 DEF Stream
  <1>6. PICK pc \in {"live", "send"} : pc = IF Len(sse[c].replay) = 1 THEN "live" ELSE "send"
    OBVIOUS
  <1>7. PICK t : t = [sse[c] EXCEPT !.replay = replay, !.last = e, !.got = got, !.pc = pc]
    OBVIOUS
  <1>8. sse' = [sse EXCEPT ![c] = t]
    <2>1. sse' = [sse EXCEPT ![c].replay = Tail(@), ![c].last = e, ![c].got = @ \cup {e}, ![c].pc = pc]
      BY <1>3, <1>6 DEF SendReplay
    <2>2. sse' = [sse EXCEPT ![c].replay = replay, ![c].last = e, ![c].got = got, ![c].pc = pc]
      BY <1>4, <1>5, <2>1 DEF Streams
    <2> QED
      BY <1>7, <2>2 DEF Streams
  <1>9. /\ t \in Stream /\ t.pc = pc /\ t.queue = sse[c].queue /\ t.rows = sse[c].rows
        /\ t.replay = replay /\ t.last = e /\ t.from = sse[c].from
        /\ t.got = got /\ t.since = sse[c].since /\ t.base = sse[c].base
        /\ t.excused = sse[c].excused
    BY <1>1, <1>7 DEF Stream
  <1>10. Later(t.base, t.from) \ Killable \subseteq
            t.got \cup t.excused \cup ToSet(t.rows) \cup ToSet(t.replay)
    <2>1. Later(t.base, t.from) \ Killable \subseteq
            sse[c].got \cup sse[c].excused \cup ToSet(sse[c].rows) \cup ToSet(sse[c].replay)
      BY <1>1, <1>9 DEF StreamOK
    <2> QED
      BY <1>4, <1>5, <1>9, <2>1
  <1>11. /\ Len(sse[c].replay) \in Nat /\ Len(replay) \in Nat /\ (Len(replay) = 0 <=> replay = <<>>)
         /\ Len(sse[c].rows) \in Nat /\ Len(sse[c].rows) + Len(sse[c].replay) <= ReplayLimit
    BY <1>1, <1>2, SeqSets DEF StreamOK, Stream
  <1>12. Len(t.rows) + Len(t.replay) <= ReplayLimit /\ (pc = "live" <=> replay = <<>>)
    <2>1. Len(replay) = Len(sse[c].replay) - 1
      BY <1>4
    <2>2. Len(sse[c].rows) + Len(replay) <= ReplayLimit
      <3>1. PICK k \in Nat, m \in Nat, j \in Nat :
               k = Len(sse[c].rows) /\ m = Len(sse[c].replay) /\ j = Len(replay)
        BY <1>11
      <3>2. k + m <= ReplayLimit /\ j = m - 1 /\ ReplayLimit \in Nat
        BY <1>11, <2>1, <3>1, CloudAlertsAssumption
      <3>3. k + j <= ReplayLimit
        BY <3>2
      <3> QED
        BY <3>1, <3>3
    <2>3. pc = "live" <=> Len(replay) = 0
      BY <1>6, <1>11, <2>1
    <2> QED
      BY <1>9, <1>11, <2>2, <2>3
  <1>13. t.since \subseteq t.got \cup t.excused \cup Queued(t.queue)
    BY <1>1, <1>5, <1>9 DEF StreamOK
  <1>14. StreamOK(t)
    BY <1>1, <1>6, <1>9, <1>10, <1>12, <1>13 DEF StreamOK
  <1> QED
    BY <1>1, <1>8, <1>9, <1>14, StreamMoves

\* A frame of the queue is sent.
LEMMA SendLiveStep ==
  ASSUME Streams, NEW c \in Client, SendLive(c) PROVE Streams'
  <1>1. /\ sse[c] \in Stream /\ StreamOK(sse[c]) /\ sse[c].queue # <<>>
        /\ sse[c].pc = "live" /\ committed' = committed /\ sse[c].base \subseteq committed
    BY DEF Streams, SendLive
  <1>2. sse[c].queue \in Seq(Frame)
    BY <1>1 DEF Stream
  <1>3. PICK f \in Frame : f = Head(sse[c].queue)
    BY <1>1, <1>2
  <1>4. PICK queue \in Seq(Frame) :
           /\ queue = Tail(sse[c].queue) /\ Len(queue) = Len(sse[c].queue) - 1
           /\ Queued(sse[c].queue) = Queued(queue) \cup (IF f.kind = "alert" THEN {f.id} ELSE {})
    <2>1. Tail(sse[c].queue) \in Seq(Frame) /\ Len(Tail(sse[c].queue)) = Len(sse[c].queue) - 1
      BY <1>1, <1>2, SeqSets
    <2>2. Queued(sse[c].queue) = Queued(Tail(sse[c].queue)) \cup
                                 (IF f.kind = "alert" THEN {f.id} ELSE {})
      BY <1>1, <1>2, <1>3, QueueStep
    <2> QED
      BY <2>1, <2>2
  <1>5. f.id \in Event
    BY DEF Frame
  <1>6. PICK got \in SUBSET Event :
           got = IF f.kind = "alert" THEN sse[c].got \cup {f.id} ELSE sse[c].got
    BY <1>1, <1>5 DEF Stream
  <1>7. PICK t : t = [sse[c] EXCEPT !.queue = queue, !.last = f.id, !.got = got]
    OBVIOUS
  <1>8. sse' = [sse EXCEPT ![c] = t]
    <2>1. sse' = [sse EXCEPT ![c].queue = Tail(@), ![c].last = f.id,
                             ![c].got = IF f.kind = "alert" THEN @ \cup {f.id} ELSE @]
      BY <1>3 DEF SendLive
    <2>2. sse' = [sse EXCEPT ![c].queue = queue, ![c].last = f.id, ![c].got = got]
      BY <1>4, <1>6, <2>1 DEF Streams
    <2> QED
      BY <1>7, <2>2 DEF Streams
  <1>9. /\ t \in Stream /\ t.pc = "live" /\ t.queue = queue /\ t.rows = sse[c].rows
        /\ t.replay = sse[c].replay /\ t.last = f.id /\ t.from = sse[c].from
        /\ t.got = got /\ t.since = sse[c].since /\ t.base = sse[c].base
        /\ t.excused = sse[c].excused
    BY <1>1, <1>5, <1>7 DEF Stream
  <1>10. Later(t.base, t.from) \ Killable \subseteq
            t.got \cup t.excused \cup ToSet(t.rows) \cup ToSet(t.replay)
    <2>1. Later(t.base, t.from) \ Killable \subseteq
            sse[c].got \cup sse[c].excused \cup ToSet(sse[c].rows) \cup ToSet(sse[c].replay)
      BY <1>1, <1>9 DEF StreamOK
    <2> QED
      BY <1>6, <1>9, <2>1
  <1>11. t.since \subseteq t.got \cup t.excused \cup Queued(t.queue)
    <2>1. sse[c].since \subseteq sse[c].got \cup sse[c].excused \cup Queued(sse[c].queue)
      BY <1>1 DEF StreamOK
    <2> QED
      BY <1>4, <1>6, <1>9, <2>1
  <1>12. Len(t.queue) <= QueueMax
    <2>1. Len(sse[c].queue) \in Nat /\ Len(sse[c].queue) <= QueueMax
      BY <1>1, <1>2 DEF StreamOK
    <2> QED
      BY <1>4, <1>9, <2>1, CloudAlertsAssumption
  <1>13. StreamOK(t)
    BY <1>1, <1>9, <1>10, <1>11, <1>12 DEF StreamOK
  <1> QED
    BY <1>1, <1>8, <1>9, <1>13, StreamMoves

\* A browser that has nothing to ask for, or goes away: its cursor is all it keeps.
LEMMA OffStep ==
  ASSUME NEW last \in Event \cup {NoEvent}
  PROVE  Off(last) \in Stream /\ StreamOK(Off(last)) /\ Off(last).base = {}
  <1>1. PICK t : t = Off(last)
    OBVIOUS
  <1>2. /\ t.pc = "off" /\ t.queue = <<>> /\ t.rows = <<>> /\ t.replay = <<>> /\ t.last = last
        /\ t.from = last /\ t.got = {} /\ t.since = {} /\ t.base = {} /\ t.excused = {}
    BY <1>1 DEF Off
  <1>3. t \in Stream
    BY <1>1 DEF Off, Stream
  <1>4. Len(<<>>) = 0 /\ 0 <= QueueMax /\ 0 + 0 <= ReplayLimit
    BY CloudAlertsAssumption
  <1>5. StreamOK(t)
    BY <1>2, <1>4 DEF StreamOK
  <1> QED
    BY <1>1, <1>2, <1>3, <1>5

LEMMA StreamsInit == Init => Streams
  <1> SUFFICES ASSUME Init PROVE Streams
    OBVIOUS
  <1>1. sse = [c \in Client |-> Off(NoEvent)]
    BY DEF Init
  <1>2. Off(NoEvent) \in Stream /\ StreamOK(Off(NoEvent)) /\ Off(NoEvent).base = {}
    BY OffStep
  <1> QED
    BY <1>1, <1>2 DEF Streams

LEMMA StreamsNext == IngestInv /\ Streams /\ [Next]_vars => Streams'
  <1> SUFFICES ASSUME IngestInv, Streams, [Next]_vars PROVE Streams'
    OBVIOUS
  <1>1. IngestType
    BY DEF IngestInv
  <1>2. ASSUME sse' = sse, committed \subseteq committed' PROVE Streams'
    BY <1>2 DEF Streams
  <1>3. ASSUME NEW q \in Request, NEW published \in BOOLEAN, Finished(q, published),
               req[q].pc \in {"insert", "filter"}, committed' = committed
        PROVE  Streams'
    <2>1. /\ req[q].left \in Seq(Event) /\ req[q].left # <<>>
      BY <1>3 DEF IngestInv, IngestType, RequestOK
    <2>2. PICK e \in Event : e = Head(req[q].left)
      BY <2>1
    <2>3. PICK frame \in Frame : frame = [id |-> e, kind |-> "alert"]
      BY DEF Frame
    <2>4. sse' = IF published THEN publish_alert(frame) ELSE sse
      BY <1>3, <2>2, <2>3 DEF Finished
    <2> QED
      BY <1>2, <1>3, <2>4, PublishStep
  <1>4. ASSUME NEW q \in Request, Insert(q) PROVE Streams'
    <2> DEFINE e == Head(req[q].left)
    <2>1. req[q].pc = "insert" /\ committed' = committed
      BY <1>4 DEF Insert
    <2>2. PICK b \in BOOLEAN : b = (e \in Alert)
      <3>1. (e \in Alert) \in BOOLEAN
        OBVIOUS
      <3> QED
        BY <3>1
    <2>3. Finished(q, FALSE) \/ Finished(q, b) \/ sse' = sse
      BY <1>4, <2>2 DEF Insert
    <2> QED
      BY <1>2, <1>3, <2>1, <2>2, <2>3
  <1>5. ASSUME NEW q \in Request, IngestFiltered(q) PROVE Streams'
    <2>1. PICK b \in BOOLEAN : b = ~ Filters(used'.version, Head(req[q].left))
      OBVIOUS
    <2>2. req[q].pc = "filter" /\ committed' = committed /\ Finished(q, b)
      BY <1>5, <2>1 DEF IngestFiltered
    <2> QED
      BY <1>3, <2>2
  <1>6. ASSUME NEW q \in Request,
               \/ \E batch \in Batches : BeginIngest(q, batch)
               \/ IngestLoads(q) \/ Commit(q) \/ Rollback(q)
        PROVE  Streams'
    <2>1. sse' = sse /\ committed \subseteq committed'
      BY <1>6 DEF BeginIngest, IngestLoads, Commit, Rollback, alertVars
    <2> QED
      BY <1>2, <2>1
  <1>7. ASSUME NEW e \in Event, PublishLifecycle(e) PROVE Streams'
    <2>1. PICK frame \in Frame : frame = [id |-> e, kind |-> "update"]
      BY DEF Frame
    <2>2. sse' = publish_alert(frame) /\ committed' = committed
      BY <1>7, <2>1 DEF PublishLifecycle
    <2> QED
      BY <2>2, PublishStep
  <1>8. ASSUME NEW c \in Client, Replay(c) PROVE Streams'
    <2>1. CASE RowPasses(c)
      BY <2>1, RowStep DEF RowPasses
    <2>2. CASE RowLoads(c)
      BY <1>2, <2>2 DEF RowLoads, alertVars
    <2>3. CASE RowFiltered(c)
      <3>1. PICK keep \in BOOLEAN : keep = ~ Filters(used'.version, Head(sse[c].rows))
        OBVIOUS
      <3>2. sse[c].pc = "filter" /\ RowDone(c, keep)
        BY <2>3, <3>1 DEF RowFiltered
      <3>3. keep \/ Head(sse[c].rows) \in Killable
        BY <3>1 DEF Filters
      <3> QED
        BY <3>2, <3>3, RowStep
    <2> QED
      BY <1>8, <2>1, <2>2, <2>3 DEF Replay
  <1>9. ASSUME NEW c \in Client, Disconnect(c) PROVE Streams'
    <2>1. PICK last \in Event \cup {NoEvent} : last = sse[c].last
      BY DEF Streams, Stream
    <2>2. PICK t : t = Off(last)
      OBVIOUS
    <2>3. sse' = [sse EXCEPT ![c] = t] /\ committed' = committed
      BY <1>9, <2>1, <2>2 DEF Disconnect
    <2>4. t \in Stream /\ StreamOK(t) /\ t.base \subseteq committed
      BY <2>1, <2>2, OffStep
    <2> QED
      BY <2>3, <2>4, StreamMoves
  <1>10. CASE Admin \/ UNCHANGED vars
    BY <1>2, <1>10 DEF Admin, vars, alertVars
  <1> QED
    BY <1>1, <1>4, <1>5, <1>6, <1>7, <1>8, <1>9, <1>10,
       ConnectStep, ReplayReadStep, SendReplayStep, SendLiveStep
       DEF Next, Ingest, DeadlockAbort

(* A reconnecting client misses nothing (alerts_sse.py:145): what is         *)
(* published between its subscription, the query, the filter's awaits and    *)
(* the first live frame waits in its queue, what was stored before is in the *)
(* replay, unless the queue was full, the LIMIT cut it off or the class is   *)
(* switched off.  For every number of clients, requests, batches and limits. *)
THEOREM NothingEverMissed == Spec => []NothingMissed
  <1> DEFINE Inv == CacheInv /\ IngestInv /\ Streams
  <1>1. Inv => NothingMissed
    <2> SUFFICES ASSUME CacheInv, IngestInv, Streams PROVE NothingMissed
      OBVIOUS
    <2>1. \A c \in Client : sse[c] \in Stream /\ StreamOK(sse[c])
      BY DEF Streams
    <2>2. TypeOK
      <3>1. ASSUME NEW c \in Client
            PROVE  /\ sse[c].pc \in {"off", "read", "filter", "send", "live"}
                   /\ sse[c].queue \in Seq(Frame) /\ Len(sse[c].queue) <= QueueMax
                   /\ sse[c].rows \in Seq(Alert) /\ sse[c].replay \in Seq(Alert)
                   /\ Len(sse[c].rows) + Len(sse[c].replay) <= ReplayLimit
                   /\ {sse[c].last, sse[c].from} \subseteq Event \cup {NoEvent}
        BY <2>1 DEF Stream, StreamOK
      <3> QED
        BY <3>1 DEF TypeOK, CacheInv, IngestInv, IngestType
    <2>3. ASSUME NEW c \in Client, sse[c].pc = "live"
          PROVE  (sse[c].since \cup Later(sse[c].base, sse[c].from)) \ Killable \subseteq
                    sse[c].got \cup sse[c].excused \cup {f.id : f \in ToSet(sse[c].queue)}
      <3>1. sse[c].rows = <<>> /\ sse[c].replay = <<>>
        BY <2>1, <2>3 DEF StreamOK
      <3>2. ToSet(sse[c].rows) = {} /\ ToSet(sse[c].replay) = {}
        BY <3>1 DEF ToSet
      <3>3. Later(sse[c].base, sse[c].from) \ Killable \subseteq sse[c].got \cup sse[c].excused
        BY <2>1, <2>3, <3>2 DEF StreamOK
      <3>4. sse[c].since \subseteq sse[c].got \cup sse[c].excused \cup Queued(sse[c].queue)
        BY <2>1 DEF StreamOK
      <3>5. Queued(sse[c].queue) \subseteq {f.id : f \in ToSet(sse[c].queue)}
        BY DEF Queued
      <3> QED
        BY <3>3, <3>4, <3>5
    <2> QED
      BY <2>2, <2>3 DEF NothingMissed
  <1>2. Init => CacheInit
    BY DEF Init
  <1> QED
    BY <1>1, <1>2, CacheInitInv, CacheNextInv, StepUsesCache, IngestInit, IngestNext,
       StreamsInit, StreamsNext, PTL DEF Spec

=============================================================================
