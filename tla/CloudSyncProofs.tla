--------------------------- MODULE CloudSyncProofs ----------------------------
(***************************************************************************)
(* For any number of events, any page and batch size, any arrival order    *)
(* and any number of faults: cloud-sync keeps custody of what it pulled,   *)
(* implements the at-least-once hop, keeps what is withheld onboard, and   *)
(* duplicates only what a fault made it repeat.                            *)
(***************************************************************************)
EXTENDS CloudSync, FiniteSetsExt, FiniteSetTheorems, WellFoundedInduction, TLAPS

(* Least and greatest elements of sets of naturals.                          *)

NatLess == {p \in Nat \X Nat : p[1] < p[2]}

\* The naturals are well founded under <, in the form LeastExists needs.
LEMMA NatLessWellFounded == IsWellFoundedOn(NatLess, Nat)
  BY NatLessThanWellFounded, Zenon DEF OpToRel, NatLess

\* Every non-empty set of naturals has a least element.
LEMMA LeastExists ==
  ASSUME NEW S \in SUBSET Nat, S # {}
  PROVE  \E x \in S : \A y \in S : x <= y
<1>1. PICK x \in S : \A y \in S : ~ (<<y, x>> \in NatLess)
  BY NatLessWellFounded, WFMin, Zenon
<1>2. ASSUME NEW y \in S PROVE x <= y
  <2>1. ~ (<<y, x>> \in NatLess)  BY <1>1
  <2>2. x \in Nat /\ y \in Nat  OBVIOUS
  <2>3. <<y, x>> \in Nat \X Nat  BY <2>2
  <2>4. ~ (y < x)  BY <2>1, <2>3 DEF NatLess
  <2> QED  BY <2>2, <2>4
<1> QED  BY <1>2

\* Min returns it.
LEMMA MinIsLeast ==
  ASSUME NEW S \in SUBSET Nat, S # {}
  PROVE  Min(S) \in S /\ \A y \in S : Min(S) <= y
  BY LeastExists DEF Min

\* Max returns the greatest element of a non-empty bounded set.
LEMMA MaxIsGreatest ==
  ASSUME NEW N \in Nat, NEW S \in SUBSET (0..N), S # {}
  PROVE  Max(S) \in S /\ \A y \in S : y <= Max(S)
<1> DEFINE D == {d \in Nat : N - d \in S}
<1>1. \A x \in S : x \in Nat /\ N - x \in Nat /\ N - (N - x) = x
  OBVIOUS
<1>2. D # {}
  <2>1. PICK x \in S : TRUE  OBVIOUS
  <2>2. N - x \in D  BY <1>1, <2>1
  <2> QED  BY <2>2
<1>3. PICK d \in D : \A y \in D : d <= y
  BY <1>2, LeastExists
<1>4. N - d \in S
  OBVIOUS
<1>5. ASSUME NEW y \in S PROVE N - d >= y
  <2>1. N - y \in D  BY <1>1
  <2>2. d <= N - y  BY <2>1, <1>3
  <2> QED  BY <2>2, <1>1
<1> QED  BY <1>4, <1>5 DEF Max

-----------------------------------------------------------------------------
USE StoreAssumption, SyncAssumption DEF Event, NoEvent, Cursor

(* The inductive invariant.  Custody is not inductive alone: PUBACK marks    *)
(* the head of a batch fetched earlier, so the batch must still be pending   *)
(* rows and a PUBLISH that arrived must be in the broker's set; the page in  *)
(* flight lies beyond the pull cursor and holds nothing withheld.            *)
BatchPending == batch \subseteq Pending
WireBusy == wire # "idle" => batch # {}
ArrivedReceived == wire = "arrived" => NextRow \in Delivered
PageBeyondCursor == \A e \in page : e > lastPulled
RowsAccepted == Rows \subseteq accepted
LimboAccepted == \A e \in Event : limbo[e] > 0 => e \in accepted

Inv ==
    /\ TypeOK
    /\ BatchPending
    /\ WireBusy
    /\ ArrivedReceived
    /\ PageBeyondCursor
    /\ RowsAccepted
    /\ LimboAccepted
    /\ Custody

\* LIMIT returns rows of the query.
LEMMA FirstNSubset == \A S, n : FirstN(S, n) \subseteq S
  BY DEF FirstN

\* iter_pending has an oldest row: Min of a non-empty set of events.
LEMMA EventMin ==
  ASSUME NEW S \in SUBSET Event, S # {}
  PROVE  Min(S) \in S /\ \A y \in S : Min(S) <= y
<1>1. S \in SUBSET Nat  OBVIOUS
<1> QED  BY <1>1, MinIsLeast

\* A page has a last envelope: Max of a non-empty set of events.
LEMMA EventMax ==
  ASSUME NEW S \in SUBSET Event, S # {}
  PROVE  Max(S) \in S /\ \A y \in S : y <= Max(S)
<1>1. S \in SUBSET (0..NumEvents)  OBVIOUS
<1> QED  BY <1>1, MaxIsGreatest

\* The prefix cursor is NULL or a published row with no pending row before it.
LEMMA PrefixCursor ==
  ASSUME TypeOK
  PROVE  \/ ContiguousPublishedPrefix = NoEvent
         \/ /\ ContiguousPublishedPrefix \in Published
            /\ \A f \in Pending : ContiguousPublishedPrefix < f
<1> DEFINE prefix == {e \in Published : \A f \in Pending : e < f}
<1>1. prefix \in SUBSET Event  BY DEF Published
<1>2. prefix # {} => Max(prefix) \in prefix  BY <1>1, EventMax
<1>3. ContiguousPublishedPrefix = IF prefix = {} THEN NoEvent ELSE Max(prefix)
  BY DEF ContiguousPublishedPrefix
<1> QED  BY <1>2, <1>3

-----------------------------------------------------------------------------
\* The invariant holds of empty databases and idle loops.
LEMMA InitInv == Init => Inv
<1> SUFFICES ASSUME Init PROVE Inv  OBVIOUS
<1> USE DEF Init, StoreInit
<1>1. TypeOK  BY DEF TypeOK, StoreTypeOK, RowState
<1>2. BatchPending /\ WireBusy /\ ArrivedReceived /\ PageBeyondCursor
  BY DEF BatchPending, WireBusy, ArrivedReceived, PageBeyondCursor
<1>3. RowsAccepted /\ LimboAccepted /\ Custody
  BY DEF RowsAccepted, LimboAccepted, Custody, Rows, Published
<1> QED  BY <1>1, <1>2, <1>3 DEF Inv

\* Frame facts: what each part of the invariant depends on.
LEMMA Frame ==
  ASSUME Inv
  PROVE  /\ UNCHANGED <<queue, batch>> => BatchPending'
         /\ UNCHANGED <<wire, batch>> => WireBusy'
         /\ UNCHANGED <<wire, batch, copies>> => ArrivedReceived'
         /\ UNCHANGED <<page, lastPulled>> => PageBeyondCursor'
         /\ UNCHANGED <<queue, accepted>> => RowsAccepted'
         /\ UNCHANGED <<limbo, accepted>> => LimboAccepted'
         /\ UNCHANGED <<queue, accepted, copies>> => Custody'
<1>1. UNCHANGED <<queue, batch>> => BatchPending'  BY DEF Inv, BatchPending, Pending
<1>2. UNCHANGED <<wire, batch>> => WireBusy'  BY DEF Inv, WireBusy
<1>3. UNCHANGED <<wire, batch, copies>> => ArrivedReceived'
  BY DEF Inv, ArrivedReceived, NextRow, Delivered
<1>4. UNCHANGED <<page, lastPulled>> => PageBeyondCursor'  BY DEF Inv, PageBeyondCursor
<1>5. UNCHANGED <<queue, accepted>> => RowsAccepted'  BY DEF Inv, RowsAccepted, Rows
<1>6. UNCHANGED <<queue, accepted, copies>> => Custody'
  BY DEF Inv, Custody, Published, Delivered
<1>7. UNCHANGED <<limbo, accepted>> => LimboAccepted'  BY DEF Inv, LimboAccepted
<1> QED  BY <1>1, <1>2, <1>3, <1>4, <1>5, <1>6, <1>7

\* Store steps leave cloud-sync alone.
LEMMA StoreStepInv ==
  ASSUME Inv, UNCHANGED syncVars, StoreCrash \/ \E e \in Event : IngestEvent(e)
  PROVE  Inv'
<1> USE DEF IngestEvent, StoreCrash, storeVars, syncVars, pullVars, pubVars, ackVars, histVars
<1>1. TypeOK'  BY DEF Inv, TypeOK, StoreTypeOK, RowState
<1>2. BatchPending' /\ WireBusy' /\ ArrivedReceived' /\ PageBeyondCursor' /\ RowsAccepted' /\ Custody' /\ LimboAccepted'
  BY Frame
<1> QED  BY <1>1, <1>2 DEF Inv

\* A page is taken from beyond the pull cursor.
LEMMA PullReceiveInv ==
  ASSUME Inv, PullReceive
  PROVE  Inv'
<1> USE DEF PullReceive, storeVars, syncVars, pullVars, pubVars, ackVars, histVars
<1>0. ListEvents(lastPulled) \subseteq {e \in events : e > lastPulled}
  BY FirstNSubset DEF ListEvents, EventsPage
<1>1. TypeOK'  BY <1>0 DEF Inv, TypeOK, StoreTypeOK, RowState
<1>2. BatchPending' /\ WireBusy' /\ ArrivedReceived' /\ RowsAccepted' /\ Custody' /\ LimboAccepted'
  BY Frame
<1>3. PageBeyondCursor'  BY <1>0 DEF Inv, PageBeyondCursor
<1> QED  BY <1>1, <1>2, <1>3 DEF Inv

\* Enqueue only adds pending rows.
LEMMA PullApplyInv ==
  ASSUME Inv, PullApply
  PROVE  Inv'
<1> USE DEF PullApply, Enqueued, storeVars, syncVars, pullVars, pubVars, ackVars, histVars
<1>0. Max(page) \in Event  BY EventMax DEF Inv, TypeOK
<1>1. TypeOK'  BY <1>0 DEF Inv, TypeOK, StoreTypeOK, RowState
<1>2. WireBusy' /\ ArrivedReceived'
  BY Frame
<1>3. BatchPending'  BY DEF Inv, BatchPending, Pending, TypeOK, RowState
<1>4. PageBeyondCursor'  BY DEF Inv, PageBeyondCursor
<1>5. RowsAccepted'  BY DEF Inv, RowsAccepted, Rows, TypeOK, RowState
<1>6. Custody'  BY DEF Inv, Custody, Published, Delivered, TypeOK, RowState
<1>20. LimboAccepted'  BY DEF Inv, LimboAccepted, TypeOK
<1> QED  BY <1>1, <1>2, <1>3, <1>4, <1>5, <1>6, <1>20 DEF Inv

\* The publish loop up to the hand-over to the client.
LEMMA ConnectInv ==
  ASSUME Inv, Connect
  PROVE  Inv'
<1> USE DEF Connect, storeVars, syncVars, pullVars, pubVars, ackVars, histVars
<1>1. TypeOK'  BY DEF Inv, TypeOK, StoreTypeOK, RowState
<1>2. BatchPending' /\ WireBusy' /\ ArrivedReceived' /\ PageBeyondCursor' /\ RowsAccepted' /\ Custody' /\ LimboAccepted'
  BY Frame
<1> QED  BY <1>1, <1>2 DEF Inv

\* A batch is cut from the pending rows.
LEMMA FetchBatchInv ==
  ASSUME Inv, FetchBatch
  PROVE  Inv'
<1> USE DEF FetchBatch, storeVars, syncVars, pullVars, pubVars, ackVars, histVars
<1>0. wire = "idle" /\ batch' \subseteq Pending
  BY FirstNSubset DEF Inv, TypeOK, WireBusy
<1>1. TypeOK'
  <2>1. batch' \subseteq {e \in Event : queue'[e] # "absent"}  BY <1>0 DEF Pending
  <2> QED  BY <2>1 DEF Inv, TypeOK, StoreTypeOK
<1>2. PageBeyondCursor' /\ RowsAccepted' /\ Custody' /\ LimboAccepted'
  BY Frame
<1>3. BatchPending'  BY <1>0 DEF Inv, BatchPending, Pending
<1>4. WireBusy'  BY <1>0 DEF Inv, WireBusy
<1>5. ArrivedReceived'  BY <1>0 DEF Inv, ArrivedReceived, NextRow, Delivered
<1> QED  BY <1>1, <1>2, <1>3, <1>4, <1>5 DEF Inv

\* Only a row of the batch is handed to the client.
LEMMA SendPublishInv ==
  ASSUME Inv, SendPublish
  PROVE  Inv'
<1> USE DEF SendPublish, storeVars, syncVars, pullVars, pubVars, ackVars, histVars
<1>1. TypeOK'  BY DEF Inv, TypeOK, StoreTypeOK, RowState
<1>2. BatchPending' /\ PageBeyondCursor' /\ RowsAccepted' /\ Custody' /\ LimboAccepted'
  BY Frame
<1>3. WireBusy'  BY DEF Inv, WireBusy
<1>4. ArrivedReceived'  BY DEF Inv, ArrivedReceived, NextRow, Delivered
<1> QED  BY <1>1, <1>2, <1>3, <1>4 DEF Inv

\* The broker counts the row the loop is waiting for.
LEMMA BrokerReceiveInv ==
  ASSUME Inv, BrokerReceive
  PROVE  Inv'
<1> USE DEF BrokerReceive, storeVars, syncVars, pullVars, pubVars, ackVars, histVars
<1>0. NextRow \in Event /\ NextRow' = NextRow
  BY EventMin DEF Inv, TypeOK, WireBusy, NextRow
<1>1. TypeOK'
  <2>1. copies' \in [Event -> Nat]  BY <1>0 DEF Inv, TypeOK
  <2> QED  BY <2>1 DEF Inv, TypeOK, StoreTypeOK
<1>2. BatchPending' /\ PageBeyondCursor' /\ RowsAccepted' /\ LimboAccepted'
  BY Frame
<1>3. WireBusy'  BY DEF Inv, WireBusy
<1>4. ArrivedReceived'  BY <1>0 DEF Inv, ArrivedReceived, NextRow, Delivered, TypeOK
<1>5. Custody'  BY <1>0 DEF Inv, Custody, Published, Delivered, TypeOK
<1> QED  BY <1>1, <1>2, <1>3, <1>4, <1>5 DEF Inv

\* PUBACK marks a row that is pending and has been received.
LEMMA PubackInv ==
  ASSUME Inv, Puback
  PROVE  Inv'
<1> USE DEF Puback, storeVars, syncVars, pullVars, pubVars, ackVars, histVars
<1>0. NextRow \in Event /\ NextRow \in batch  BY EventMin DEF Inv, TypeOK, WireBusy, NextRow
<1>1. TypeOK'  BY <1>0 DEF Inv, TypeOK, StoreTypeOK, RowState
<1>2. PageBeyondCursor' /\ LimboAccepted'
  BY Frame
<1>3. BatchPending'  BY <1>0 DEF Inv, BatchPending, Pending
<1>4. WireBusy'  BY DEF Inv, WireBusy
<1>5. ArrivedReceived'  BY DEF Inv, ArrivedReceived, NextRow, Delivered
<1>6. RowsAccepted'  BY <1>0 DEF Inv, RowsAccepted, Rows, TypeOK, BatchPending, Pending
<1>7. Custody'  BY <1>0 DEF Inv, Custody, Published, Delivered, TypeOK, ArrivedReceived
<1> QED  BY <1>1, <1>2, <1>3, <1>4, <1>5, <1>6, <1>7 DEF Inv

\* A copy that arrives late is one more of an event taken over before.
LEMMA LateReceiveInv ==
  ASSUME Inv, NEW e \in Event, LateReceive(e)
  PROVE  Inv'
<1> USE DEF LateReceive, storeVars, pullVars, pubVars, ackVars
<1>1. TypeOK'
  <2>1. copies' \in [Event -> Nat]  BY DEF Inv, TypeOK
  <2>2. limbo[e] \in Nat /\ limbo[e] - 1 \in Nat  BY DEF Inv, TypeOK
  <2>3. limbo' \in [Event -> Nat]  BY <2>2 DEF Inv, TypeOK
  <2> QED  BY <2>1, <2>3 DEF Inv, TypeOK, StoreTypeOK
<1>2. BatchPending' /\ WireBusy' /\ PageBeyondCursor' /\ RowsAccepted'
  BY Frame
<1>3. \A f \in Event : copies'[f] >= copies[f] /\ limbo'[f] <= limbo[f]
  BY DEF Inv, TypeOK
<1>4. Delivered \subseteq Delivered'  BY <1>1, <1>3 DEF Delivered, Inv, TypeOK
<1>5. ArrivedReceived'  BY <1>4 DEF Inv, ArrivedReceived, NextRow
<1>6. LimboAccepted'  BY <1>1, <1>3 DEF Inv, LimboAccepted, TypeOK
<1>7. Custody'  BY <1>4 DEF Inv, Custody, Published
<1> QED  BY <1>1, <1>2, <1>5, <1>6, <1>7 DEF Inv

\* What leaving the client may leave in the network was taken over before.
LEMMA LeaveClientLimbo ==
  ASSUME Inv, LeaveClient, accepted \subseteq accepted'
  PROVE  limbo' \in [Event -> Nat] /\ LimboAccepted'
<1>1. CASE wire = "sent"
  <2>1. NextRow \in batch  BY <1>1, EventMin DEF Inv, TypeOK, WireBusy, NextRow
  <2>2. NextRow \in Event /\ NextRow \in accepted  BY <2>1 DEF Inv, TypeOK, Rows, RowsAccepted
  <2>3. limbo' = [limbo EXCEPT ![NextRow] = @ + 1]  BY <1>1 DEF LeaveClient
  <2> HIDE DEF NextRow
  <2> QED  BY <2>2, <2>3 DEF Inv, TypeOK, LimboAccepted
<1>2. CASE wire # "sent"
  BY <1>2 DEF Inv, TypeOK, LimboAccepted, LeaveClient
<1> QED  BY <1>1, <1>2

\* A failed publish leaves its row pending.
LEMMA PublishFailInv ==
  ASSUME Inv, PublishFail
  PROVE  Inv'
<1> USE DEF PublishFail, Fault, storeVars, pullVars, pubVars, ackVars
<1>l. limbo' \in [Event -> Nat] /\ LimboAccepted'  BY LeaveClientLimbo
<1>b. link' = "down" /\ batch' = {} /\ wire' = "idle"  BY DEF LeaveClient
<1>1. TypeOK'
  <2>1. StoreTypeOK'  BY DEF Inv, TypeOK, StoreTypeOK
  <2>2. batch' \subseteq {e \in Event : queue'[e] # "absent"}  BY <1>b
  <2>3. faults' \in Nat  BY DEF Inv, TypeOK
  <2> QED  BY <1>l, <1>b, <2>1, <2>2, <2>3 DEF Inv, TypeOK
<1>2. PageBeyondCursor' /\ RowsAccepted' /\ Custody'
  BY Frame
<1>3. BatchPending'  BY <1>b DEF Inv, BatchPending, Pending
<1>4. WireBusy'  BY <1>b DEF Inv, WireBusy
<1>5. ArrivedReceived'  BY <1>b DEF Inv, ArrivedReceived, NextRow, Delivered
<1> QED  BY <1>1, <1>2, <1>3, <1>4, <1>5, <1>l DEF Inv

\* The ack loop reads the queue and writes nothing.
LEMMA AckStartInv ==
  ASSUME Inv, AckStart
  PROVE  Inv'
<1> USE DEF AckStart, storeVars, syncVars, pullVars, pubVars, ackVars, histVars
<1>0. ackReq' \in Cursor  BY PrefixCursor DEF Inv, Published
<1>1. TypeOK'  BY <1>0 DEF Inv, TypeOK, StoreTypeOK, RowState
<1>2. BatchPending' /\ WireBusy' /\ ArrivedReceived' /\ PageBeyondCursor' /\ RowsAccepted' /\ Custody' /\ LimboAccepted'
  BY Frame
<1> QED  BY <1>1, <1>2 DEF Inv

\* The store handles the cursor without touching the queue.
LEMMA ServeAckInv ==
  ASSUME Inv, ServeAck
  PROVE  Inv'
<1> USE DEF ServeAck, AdvanceCursor, storeVars, syncVars, pullVars, pubVars, ackVars, histVars
<1>1. TypeOK'  BY DEF Inv, TypeOK, StoreTypeOK, RowState
<1>2. BatchPending' /\ WireBusy' /\ ArrivedReceived' /\ PageBeyondCursor' /\ RowsAccepted' /\ Custody' /\ LimboAccepted'
  BY Frame
<1> QED  BY <1>1, <1>2 DEF Inv

\* Truncation removes rows of the store only.
LEMMA ServeTruncateInv ==
  ASSUME Inv, NEW c \in Event, ServeTruncate(c)
  PROVE  Inv'
<1> USE DEF ServeTruncate, TruncateOldJourneys, storeVars, syncVars, pullVars, pubVars, ackVars, histVars
<1>1. TypeOK'  BY DEF Inv, TypeOK, StoreTypeOK, RowState
<1>2. BatchPending' /\ WireBusy' /\ ArrivedReceived' /\ PageBeyondCursor' /\ RowsAccepted' /\ Custody' /\ LimboAccepted'
  BY Frame
<1> QED  BY <1>1, <1>2 DEF Inv

\* delete_acked touches only published rows, never one of the batch.
LEMMA AckApplyInv ==
  ASSUME Inv, AckApply
  PROVE  Inv'
<1> USE DEF AckApply, DeleteAcked, storeVars, syncVars, pullVars, pubVars, ackVars, histVars
<1>0. queue' \in [Event -> RowState] /\ batch \subseteq {e \in Event : queue'[e] # "absent"}
  BY DEF Inv, TypeOK, RowState, BatchPending, Pending
<1>1. TypeOK'  BY <1>0 DEF Inv, TypeOK, StoreTypeOK, RowState
<1>2. WireBusy' /\ ArrivedReceived' /\ PageBeyondCursor' /\ LimboAccepted'
  BY Frame
<1>3. BatchPending'  BY DEF Inv, BatchPending, Pending, TypeOK
<1>4. RowsAccepted'  BY DEF Inv, RowsAccepted, Rows, TypeOK
<1>5. Custody'  BY DEF Inv, Custody, Published, Delivered, TypeOK
<1> QED  BY <1>1, <1>2, <1>3, <1>4, <1>5 DEF Inv

\* A tick that gives up leaves the queue alone.
LEMMA AckFailInv ==
  ASSUME Inv, AckFail
  PROVE  Inv'
<1> USE DEF AckFail, Fault, storeVars, syncVars, pullVars, pubVars, ackVars, histVars
<1>1. TypeOK'  BY DEF Inv, TypeOK, StoreTypeOK, RowState
<1>2. BatchPending' /\ WireBusy' /\ ArrivedReceived' /\ PageBeyondCursor' /\ RowsAccepted' /\ Custody' /\ LimboAccepted'
  BY Frame
<1> QED  BY <1>1, <1>2 DEF Inv

\* Kills.
LEMMA CrashInv ==
  ASSUME Inv, Crash
  PROVE  Inv'
<1> USE DEF Crash, LoseVolatile, Fault, storeVars, pullVars, pubVars, ackVars
<1>l. limbo' \in [Event -> Nat] /\ LimboAccepted'  BY LeaveClientLimbo
<1>b. link' = "down" /\ batch' = {} /\ wire' = "idle"  BY DEF LeaveClient
<1>1. TypeOK'
  <2>1. StoreTypeOK'  BY DEF Inv, TypeOK, StoreTypeOK
  <2>2. batch' \subseteq {e \in Event : queue'[e] # "absent"}  BY <1>b
  <2>3. faults' \in Nat  BY DEF Inv, TypeOK
  <2> QED  BY <1>l, <1>b, <2>1, <2>2, <2>3 DEF Inv, TypeOK
<1>2. RowsAccepted' /\ Custody'
  BY Frame
<1>3. BatchPending'  BY <1>b DEF Inv, BatchPending, Pending
<1>4. WireBusy'  BY <1>b DEF Inv, WireBusy
<1>5. ArrivedReceived'  BY <1>b DEF Inv, ArrivedReceived, NextRow, Delivered
<1>6. PageBeyondCursor'  BY DEF Inv, PageBeyondCursor
<1> QED  BY <1>1, <1>2, <1>3, <1>4, <1>5, <1>6, <1>l DEF Inv

\* A kill between set_acked and delete_acked only keeps rows longer.
LEMMA CrashMidAckInv ==
  ASSUME Inv, CrashMidAck
  PROVE  Inv'
<1> USE DEF CrashMidAck, LoseVolatile, Fault, storeVars, pullVars, pubVars, ackVars
<1>l. limbo' \in [Event -> Nat] /\ LimboAccepted'  BY LeaveClientLimbo
<1>b. link' = "down" /\ batch' = {} /\ wire' = "idle"  BY DEF LeaveClient
<1>1. TypeOK'
  <2>1. StoreTypeOK'  BY DEF Inv, TypeOK, StoreTypeOK
  <2>2. batch' \subseteq {e \in Event : queue'[e] # "absent"}  BY <1>b
  <2>3. faults' \in Nat  BY DEF Inv, TypeOK
  <2> QED  BY <1>l, <1>b, <2>1, <2>2, <2>3 DEF Inv, TypeOK
<1>2. RowsAccepted' /\ Custody'
  BY Frame
<1>3. BatchPending'  BY <1>b DEF Inv, BatchPending, Pending
<1>4. WireBusy'  BY <1>b DEF Inv, WireBusy
<1>5. ArrivedReceived'  BY <1>b DEF Inv, ArrivedReceived, NextRow, Delivered
<1>6. PageBeyondCursor'  BY DEF Inv, PageBeyondCursor
<1> QED  BY <1>1, <1>2, <1>3, <1>4, <1>5, <1>6, <1>l DEF Inv

\* A kill in the middle of a page keeps the rows already inserted, as pending.
LEMMA CrashMidPullInv ==
  ASSUME Inv, NEW n \in 1..PageLimit, CrashMidPull(n)
  PROVE  Inv'
<1> USE DEF CrashMidPull, LoseVolatile, Fault, Enqueued, storeVars, pullVars, pubVars, ackVars
<1>l. limbo' \in [Event -> Nat] /\ LimboAccepted'  BY LeaveClientLimbo
<1>b. link' = "down" /\ batch' = {} /\ wire' = "idle"  BY DEF LeaveClient
<1>0. FirstN(page, n) \subseteq page  BY FirstNSubset
<1>1. TypeOK'
  <2>1. queue' \in [Event -> RowState] /\ accepted' \subseteq Event
    BY <1>0 DEF Inv, TypeOK, RowState
  <2>2. StoreTypeOK'  BY DEF Inv, TypeOK, StoreTypeOK
  <2>3. faults' \in Nat /\ copies' \in [Event -> Nat] /\ lastPulled' \in Cursor /\ lastAcked' \in Cursor
    BY DEF Inv, TypeOK
  <2>4. batch' \subseteq {e \in Event : queue'[e] # "absent"}  BY <1>b
  <2> QED  BY <1>l, <1>b, <2>1, <2>2, <2>3, <2>4 DEF TypeOK
<1>2. BatchPending'  BY <1>b DEF Inv, BatchPending, Pending
<1>3. WireBusy'  BY <1>b DEF Inv, WireBusy
<1>4. ArrivedReceived'  BY <1>b DEF Inv, ArrivedReceived, NextRow, Delivered
<1>5. PageBeyondCursor'  BY DEF Inv, PageBeyondCursor
<1>6. RowsAccepted'  BY <1>0 DEF Inv, RowsAccepted, Rows, TypeOK, RowState
<1>7. Custody'  BY <1>0 DEF Inv, Custody, Published, Delivered, TypeOK, RowState
<1> QED  BY <1>1, <1>2, <1>3, <1>4, <1>5, <1>6, <1>7, <1>l DEF Inv

\* Every step preserves the invariant.
LEMMA NextInv == Inv /\ [Next]_vars => Inv'
<1> SUFFICES ASSUME Inv, [Next]_vars PROVE Inv'  OBVIOUS
<1>1. CASE UNCHANGED vars
  <2>1. TypeOK'  BY <1>1 DEF Inv, TypeOK, StoreTypeOK, vars, storeVars, syncVars, pullVars, pubVars, ackVars, histVars
  <2>2. BatchPending' /\ WireBusy' /\ ArrivedReceived' /\ PageBeyondCursor' /\ RowsAccepted' /\ LimboAccepted' /\ Custody'
    BY <1>1, Frame DEF vars, syncVars, pullVars, pubVars, histVars
  <2> QED  BY <2>1, <2>2 DEF Inv
<1>2. CASE Next
  BY <1>2, StoreStepInv, PullReceiveInv, PullApplyInv, ConnectInv, FetchBatchInv, SendPublishInv, BrokerReceiveInv, LateReceiveInv,
     PubackInv, PublishFailInv, AckStartInv, ServeAckInv, ServeTruncateInv, AckApplyInv, AckFailInv,
     CrashInv, CrashMidAckInv, CrashMidPullInv DEF Next
<1> QED  BY <1>1, <1>2

-----------------------------------------------------------------------------
(* The inductive invariant holds throughout: the published and the deleted   *)
(* rows were received, whatever the interleaving of the three loops.         *)
THEOREM InvHolds == Spec => []Inv
  BY InitInv, NextInv, PTL DEF Spec

(* Type correctness: in particular the batch in the publish loop's hands     *)
(* never holds a row that delete_acked has removed behind its back.          *)
THEOREM TypeCorrect == Spec => []TypeOK
<1>1. Inv => TypeOK  BY DEF Inv
<1> QED  BY <1>1, InvHolds, PTL

(* cloud-sync never loses an event it has taken over from the store.         *)
THEOREM CustodyKept == Spec => []Custody
<1>1. Inv => Custody  BY DEF Inv
<1> QED  BY <1>1, InvHolds, PTL

(* The cursor contiguous_published_prefix returns covers only events the     *)
(* broker has, deleted rows included.                                        *)
THEOREM PrefixIsDelivered == Spec => []PrefixDelivered
<1>1. Inv => PrefixDelivered
  <2> SUFFICES ASSUME Inv, NEW e \in accepted, e <= ContiguousPublishedPrefix
               PROVE  e \in Delivered
    BY DEF PrefixDelivered
  <2>1. e \in Event  BY DEF Inv, TypeOK
  <2>2. queue[e] = "pending" \/ e \in Delivered  BY DEF Inv, Custody
  <2>3. queue[e] # "pending"
    BY <2>1, PrefixCursor DEF Inv, Pending, Published
  <2> QED  BY <2>2, <2>3
<1> QED  BY <1>1, InvHolds, PTL

(* No step, kill and restart included, moves the pull cursor back.           *)
THEOREM PullCursorNeverRegresses == Spec => PullCursorMonotone
<1>1. Inv /\ [Next]_vars => [lastPulled' >= lastPulled]_vars
  <2> SUFFICES ASSUME Inv, [Next]_vars PROVE lastPulled' >= lastPulled
    OBVIOUS
  <2>1. lastPulled \in Int  BY DEF Inv, TypeOK
  <2>2. CASE PullApply
    <3>1. Max(page) \in page  BY <2>2, EventMax DEF PullApply, Inv, TypeOK
    <3>2. Max(page) \in Event /\ Max(page) > lastPulled
      BY <3>1 DEF Inv, TypeOK, PageBeyondCursor
    <3> QED  BY <2>1, <2>2, <3>2 DEF PullApply
  <2>3. CASE UNCHANGED lastPulled
    BY <2>1, <2>3
  <2>4. PullApply \/ UNCHANGED lastPulled
    BY DEF Next, vars, storeVars, syncVars, pullVars, StoreCrash, PullReceive, Connect, FetchBatch,
           SendPublish, BrokerReceive, LateReceive, Puback, PublishFail, AckStart, ServeAck, ServeTruncate,
           AckApply, AckFail, Crash, CrashMidPull, CrashMidAck
  <2> QED  BY <2>2, <2>3, <2>4
<1> QED  BY <1>1, InvHolds, PTL DEF Spec, PullCursorMonotone

-----------------------------------------------------------------------------
(* The at-least-once hop.                                                    *)

\* What one step may do to the queue and to the broker.
QueueStep ==
    \/ UNCHANGED <<Rows, Delivered>>
    \/ \E S \in SUBSET Event : Rows' = Rows \cup S /\ Delivered' = Delivered
    \/ \E S \in SUBSET Delivered : Rows' = Rows \ S /\ Delivered' = Delivered
    \/ \E m \in Rows : Rows' = Rows /\ Delivered' = Delivered \cup {m}

\* Enqueue adds rows and removes none.
LEMMA EnqueueAdds ==
  ASSUME Inv, NEW S \in SUBSET Event, queue' = Enqueued(S), copies' = copies
  PROVE  Rows' = Rows \cup S /\ Delivered' = Delivered
  BY DEF Inv, TypeOK, RowState, Enqueued, Rows, Delivered

\* Every step takes over, releases or delivers, or does neither.
LEMMA StepIsQueueStep ==
  ASSUME Inv, [Next]_vars
  PROVE  QueueStep
<1>1. CASE PullApply
  <2>1. PICK failed \in SUBSET page : queue' = Enqueued(page \ failed)
    BY <1>1 DEF PullApply
  <2>2. page \ failed \in SUBSET Event /\ copies' = copies
    BY <1>1 DEF Inv, TypeOK, PullApply
  <2> QED  BY <2>1, <2>2, EnqueueAdds DEF QueueStep
<1>2. ASSUME NEW n \in 1..PageLimit, CrashMidPull(n) PROVE QueueStep
  <2>1. FirstN(page, n) \in SUBSET Event /\ copies' = copies
    BY <1>2, FirstNSubset DEF Inv, TypeOK, CrashMidPull
  <2> QED  BY <1>2, <2>1, EnqueueAdds DEF QueueStep, CrashMidPull
<1>3. CASE BrokerReceive
  <2>1. NextRow \in batch  BY <1>3, EventMin DEF BrokerReceive, Inv, TypeOK, WireBusy, NextRow
  <2>2. NextRow \in Rows  BY <2>1 DEF Inv, TypeOK, Rows
  <2>3. Rows' = Rows  BY <1>3 DEF BrokerReceive, Rows
  <2>4. Delivered' = Delivered \cup {NextRow}
    BY <1>3, <2>2 DEF BrokerReceive, Inv, TypeOK, Delivered, Rows
  <2> QED  BY <2>2, <2>3, <2>4 DEF QueueStep
<1>4. CASE Puback
  <2>1. NextRow \in batch  BY <1>4, EventMin DEF Puback, Inv, TypeOK, WireBusy, NextRow
  <2>2. Rows' = Rows /\ Delivered' = Delivered
    BY <1>4, <2>1 DEF Puback, Inv, TypeOK, Rows, Delivered, histVars
  <2> QED  BY <2>2 DEF QueueStep
<1>5. CASE AckApply
  <2> DEFINE S == {e \in Rows : queue'[e] = "absent"}
  <2>1. S \subseteq Delivered
    BY <1>5 DEF AckApply, DeleteAcked, Inv, Custody, Published, Rows
  <2>2. Rows' = Rows \ S /\ Delivered' = Delivered
    BY <1>5 DEF AckApply, DeleteAcked, Inv, TypeOK, Rows, Delivered, histVars
  <2> QED  BY <2>1, <2>2 DEF QueueStep
<1>6. CASE UNCHANGED <<queue, copies>>
  BY <1>6 DEF QueueStep, Rows, Delivered
<1>8. ASSUME NEW e \in Event, LateReceive(e) PROVE QueueStep
  <2>1. Rows' = Rows /\ Delivered' = Delivered \cup {e}
    BY <1>8 DEF LateReceive, Inv, TypeOK, Rows, Delivered
  <2>2. e \in accepted  BY <1>8 DEF LateReceive, Inv, LimboAccepted
  <2>3. e \in Rows \/ e \in Delivered  BY <2>2 DEF Inv, Custody, Rows
  <2> QED  BY <2>1, <2>3 DEF QueueStep
<1>7. \/ PullApply \/ BrokerReceive \/ Puback \/ AckApply
      \/ \E n \in 1..PageLimit : CrashMidPull(n)
      \/ \E e \in Event : LateReceive(e)
      \/ UNCHANGED <<queue, copies>>
  BY DEF Next, vars, storeVars, syncVars, histVars, StoreCrash, PullReceive, Connect, FetchBatch,
         SendPublish, PublishFail, AckStart, ServeAck, ServeTruncate, AckFail, Crash, CrashMidAck
<1> QED  BY <1>1, <1>2, <1>3, <1>4, <1>5, <1>6, <1>7, <1>8

(* cloud-sync implements the at-least-once hop: a row leaves publish_queue   *)
(* only when the broker has the event.                                       *)
THEOREM Refinement == Spec => ImplementsAtLeastOnce
<1>1. Init => Hop!Init
  BY DEF Init, Hop!Init, Rows, Delivered
<1>2. Inv /\ [Next]_vars => [Hop!Next]_(Hop!vars)
  <2> SUFFICES ASSUME Inv, [Next]_vars PROVE [Hop!Next]_(Hop!vars)  OBVIOUS
  <2>1. QueueStep  BY StepIsQueueStep
  <2>2. CASE UNCHANGED <<Rows, Delivered>>  BY <2>2 DEF Hop!vars
  <2>3. ASSUME NEW S \in SUBSET Event, Rows' = Rows \cup S, Delivered' = Delivered
        PROVE  Hop!Next
    BY <2>3 DEF Hop!Next, Hop!Accept
  <2>4. ASSUME NEW S \in SUBSET Delivered, Rows' = Rows \ S, Delivered' = Delivered
        PROVE  Hop!Next
    <3>1. S \in SUBSET Event  BY DEF Delivered
    <3> QED  BY <2>4, <3>1 DEF Hop!Next, Hop!Release
  <2>5. ASSUME NEW m \in Rows, Rows' = Rows, Delivered' = Delivered \cup {m}
        PROVE  Hop!Next
    <3>1. m \in Event  BY DEF Rows
    <3> QED  BY <2>5, <3>1 DEF Hop!Next, Hop!Deliver
  <2> QED  BY <2>1, <2>2, <2>3, <2>4, <2>5 DEF QueueStep
<1> QED  BY <1>1, <1>2, InvHolds, PTL DEF Spec, Hop!Spec, ImplementsAtLeastOnce

-----------------------------------------------------------------------------
(* WithheldStaysOnboard is inductive once it is known where the broker's     *)
(* events come from.                                                         *)
WithheldInv ==
    /\ page \cap Withheld = {}
    /\ accepted \cap Withheld = {}
    /\ Delivered \subseteq accepted

\* Only the pull loop and the broker touch what WithheldInv is about.
LEMMA WithheldNext == Inv /\ WithheldInv /\ [Next]_vars => WithheldInv'
<1> SUFFICES ASSUME Inv, WithheldInv, [Next]_vars PROVE WithheldInv'  OBVIOUS
<1>1. CASE PullReceive
  BY <1>1 DEF PullReceive, ListEvents, WithheldInv, Delivered, histVars
<1>2. CASE PullApply
  BY <1>2 DEF PullApply, WithheldInv, Delivered
<1>3. ASSUME NEW n \in 1..PageLimit, CrashMidPull(n) PROVE WithheldInv'
  <2>1. FirstN(page, n) \subseteq page  BY FirstNSubset
  <2> QED  BY <1>3, <2>1 DEF CrashMidPull, LoseVolatile, WithheldInv, Delivered
<1>4. CASE BrokerReceive
  <2>1. NextRow \in batch  BY <1>4, EventMin DEF BrokerReceive, Inv, TypeOK, WireBusy, NextRow
  <2>2. NextRow \in accepted  BY <2>1 DEF Inv, TypeOK, Rows, RowsAccepted
  <2>3. Delivered' \subseteq Delivered \cup {NextRow}
    BY <1>4 DEF BrokerReceive, Inv, TypeOK, Delivered
  <2> QED  BY <1>4, <2>2, <2>3 DEF BrokerReceive, WithheldInv, pullVars
<1>5. CASE page' \subseteq page /\ UNCHANGED <<accepted, copies>>
  BY <1>5 DEF WithheldInv, Delivered
<1>7. ASSUME NEW e \in Event, LateReceive(e) PROVE WithheldInv'
  <2>1. Delivered' \subseteq Delivered \cup {e} /\ e \in accepted
    BY <1>7 DEF LateReceive, Inv, TypeOK, LimboAccepted, Delivered
  <2> QED  BY <1>7, <2>1 DEF LateReceive, WithheldInv, pullVars
<1>6. \/ PullReceive \/ PullApply \/ BrokerReceive
      \/ \E e \in Event : LateReceive(e)
      \/ \E n \in 1..PageLimit : CrashMidPull(n)
      \/ page' \subseteq page /\ UNCHANGED <<accepted, copies>>
  BY DEF Next, vars, storeVars, syncVars, histVars, pullVars, StoreCrash, Connect, FetchBatch,
         SendPublish, Puback, PublishFail, AckStart, ServeAck, ServeTruncate, AckApply, AckFail,
         Crash, CrashMidAck, LoseVolatile
<1> QED  BY <1>1, <1>2, <1>3, <1>4, <1>5, <1>6, <1>7

(* What anonymise_page withholds never leaves the train by this path.        *)
THEOREM WithheldNeverLeaves == Spec => []WithheldStaysOnboard
<1>1. Init => WithheldInv  BY DEF Init, WithheldInv, Delivered
<1>2. Inv /\ WithheldInv => WithheldStaysOnboard
  BY DEF WithheldInv, WithheldStaysOnboard, Inv, RowsAccepted
<1> QED  BY <1>1, <1>2, InvHolds, WithheldNext, PTL DEF Spec

-----------------------------------------------------------------------------
(* An event's allowance of copies is one more than the faults so far.  Three *)
(* things reserve a copy of it: a pending row that has yet to be received, a *)
(* place beyond the pull cursor, from where it may be enqueued again, and a  *)
(* PUBLISH given up on that is still in the network.                         *)
Unreceived(e) == queue[e] = "pending" /\ ~ (wire = "arrived" /\ e = NextRow)
Reserved(e) == (IF Unreceived(e) THEN 1 ELSE 0) + (IF e > lastPulled THEN 1 ELSE 0)
CopiesInv == \A e \in Event : copies[e] + limbo[e] + Reserved(e) <= 1 + faults

\* CopiesInv in terms of its own state, for steps that leave some of it alone.
LEMMA CopiesFrame ==
  ASSUME Inv, CopiesInv, UNCHANGED <<lastPulled, limbo, copies, faults>>,
         \A e \in Event : Unreceived(e)' => Unreceived(e)
  PROVE  CopiesInv'
<1> SUFFICES ASSUME NEW e \in Event PROVE copies'[e] + limbo'[e] + Reserved(e)' <= 1 + faults'
  BY DEF CopiesInv
<1>1. copies[e] + limbo[e] + Reserved(e) <= 1 + faults  BY DEF CopiesInv
<1>2. copies[e] \in Nat /\ limbo[e] \in Nat /\ faults \in Nat  BY DEF Inv, TypeOK
<1>3. Reserved(e)' <= Reserved(e) /\ Reserved(e) \in Nat /\ Reserved(e)' \in Nat
  BY DEF Reserved
<1> QED  BY <1>1, <1>2, <1>3

\* A fault pays for one more reservation of every event: the row whose PUBLISH
\* is left in the network was reserved as unreceived before.
LEMMA CopiesFault ==
  ASSUME Inv, CopiesInv, UNCHANGED <<lastPulled, copies>>, faults' = faults + 1,
         LeaveClient \/ UNCHANGED limbo
  PROVE  CopiesInv'
<1> SUFFICES ASSUME NEW e \in Event PROVE copies'[e] + limbo'[e] + Reserved(e)' <= 1 + faults'
  BY DEF CopiesInv
<1>1. copies[e] + limbo[e] + Reserved(e) <= 1 + faults  BY DEF CopiesInv
<1>2. copies[e] \in Nat /\ limbo[e] \in Nat /\ faults \in Nat  BY DEF Inv, TypeOK
<1>3. Reserved(e)' <= Reserved(e) + 1 /\ Reserved(e) \in Nat /\ Reserved(e)' \in Nat
  BY DEF Reserved
<1>4. CASE limbo'[e] = limbo[e]  BY <1>1, <1>2, <1>3, <1>4
<1>5. CASE LeaveClient /\ wire = "sent" /\ e = NextRow
  <2>1. NextRow \in batch  BY <1>5, EventMin DEF Inv, TypeOK, WireBusy, NextRow
  <2>2. Unreceived(e)  BY <1>5, <2>1 DEF Unreceived, Inv, BatchPending, Pending
  <2>3. Reserved(e)' <= Reserved(e)  BY <2>2 DEF Reserved
  <2>4. limbo' = [limbo EXCEPT ![e] = @ + 1]  BY <1>5 DEF LeaveClient
  <2>5. limbo'[e] = limbo[e] + 1  BY <2>4 DEF Inv, TypeOK
  <2> QED  BY <1>1, <1>2, <1>3, <2>3, <2>5
<1>6. limbo'[e] = limbo[e] \/ (LeaveClient /\ wire = "sent" /\ e = NextRow)
  BY DEF LeaveClient, Inv, TypeOK
<1> QED  BY <1>4, <1>5, <1>6

\* Every step keeps within the allowance.
LEMMA CopiesNext == Inv /\ CopiesInv /\ [Next]_vars => CopiesInv'
<1> SUFFICES ASSUME Inv, CopiesInv, [Next]_vars PROVE CopiesInv'  OBVIOUS
<1> USE DEF Unreceived
<1>1. CASE PullApply
  <2> SUFFICES ASSUME NEW e \in Event PROVE copies'[e] + limbo'[e] + Reserved(e)' <= 1 + faults'
    BY DEF CopiesInv
  <2>1. copies[e] + limbo[e] + Reserved(e) <= 1 + faults  BY DEF CopiesInv
  <2>2. copies'[e] = copies[e] /\ limbo'[e] = limbo[e] /\ faults' = faults
        /\ copies[e] \in Nat /\ limbo[e] \in Nat /\ faults \in Nat
    BY <1>1 DEF PullApply, Inv, TypeOK
  <2>3. page # {} /\ page \subseteq Event /\ lastPulled' = Max(page)
    BY <1>1 DEF PullApply, Inv, TypeOK
  <2>4. Max(page) \in page /\ \A y \in page : y <= Max(page)
    BY <2>3, EventMax
  <2>5. lastPulled < lastPulled' /\ lastPulled \in Cursor /\ lastPulled' \in Event
    BY <2>3, <2>4 DEF Inv, TypeOK, PageBeyondCursor
  <2>6. Unreceived(e)' => Unreceived(e) \/ e \in page
    BY <1>1 DEF PullApply, Enqueued, pubVars, NextRow
  <2>7. e \in page => e > lastPulled /\ ~ (e > lastPulled')
    BY <2>3, <2>4, <2>5 DEF Inv, PageBeyondCursor
  <2>8. Reserved(e)' <= Reserved(e) /\ Reserved(e) \in Nat /\ Reserved(e)' \in Nat
    BY <2>5, <2>6, <2>7 DEF Reserved
  <2> QED  BY <2>1, <2>2, <2>8
<1>2. CASE BrokerReceive
  <2> SUFFICES ASSUME NEW e \in Event PROVE copies'[e] + limbo'[e] + Reserved(e)' <= 1 + faults'
    BY DEF CopiesInv
  <2>1. copies[e] + limbo[e] + Reserved(e) <= 1 + faults  BY DEF CopiesInv
  <2>2. limbo'[e] = limbo[e] /\ faults' = faults
        /\ copies[e] \in Nat /\ limbo[e] \in Nat /\ faults \in Nat
    BY <1>2 DEF BrokerReceive, Inv, TypeOK
  <2>3. NextRow \in batch /\ NextRow' = NextRow
    BY <1>2, EventMin DEF BrokerReceive, Inv, TypeOK, WireBusy, NextRow
  <2>4. queue[NextRow] = "pending"  BY <2>3 DEF Inv, BatchPending, Pending
  <2>5. CASE e = NextRow
    <3>1. copies'[e] = copies[e] + 1  BY <1>2, <2>5 DEF BrokerReceive, Inv, TypeOK
    <3>2. Unreceived(e) /\ ~ Unreceived(e)'  BY <1>2, <2>3, <2>4, <2>5 DEF BrokerReceive
    <3>3. Reserved(e) = Reserved(e)' + 1 /\ Reserved(e)' \in Nat
      BY <1>2, <3>2 DEF Reserved, BrokerReceive, pullVars
    <3> QED  BY <2>1, <2>2, <3>1, <3>3
  <2>6. CASE e # NextRow
    <3>1. copies'[e] = copies[e]  BY <1>2, <2>6 DEF BrokerReceive, Inv, TypeOK
    <3>2. Reserved(e)' = Reserved(e) /\ Reserved(e) \in Nat
      BY <1>2, <2>3, <2>6 DEF Reserved, BrokerReceive, pullVars
    <3> QED  BY <2>1, <2>2, <3>1, <3>2
  <2> QED  BY <2>5, <2>6
<1>3. CASE Puback
  <2>1. \A e \in Event : Unreceived(e)' => Unreceived(e)  BY <1>3 DEF Puback, Inv, TypeOK
  <2> QED  BY <1>3, <2>1, CopiesFrame DEF Puback, pullVars, histVars
<1>4. CASE AckApply
  <2>1. \A e \in Event : Unreceived(e)' => Unreceived(e)
    BY <1>4 DEF AckApply, DeleteAcked, pubVars, NextRow
  <2> QED  BY <1>4, <2>1, CopiesFrame DEF AckApply, pullVars, histVars
<1>5. CASE UNCHANGED <<lastPulled, copies>> /\ faults' = faults + 1 /\ (LeaveClient \/ UNCHANGED limbo)
  BY <1>5, CopiesFault
<1>6. CASE FetchBatch
  <2>1. wire = "idle"  BY <1>6 DEF FetchBatch, Inv, WireBusy, TypeOK
  <2> QED  BY <1>6, <2>1, CopiesFrame DEF FetchBatch, pullVars, histVars
<1>7. CASE SendPublish
  BY <1>7, CopiesFrame DEF SendPublish, pullVars, histVars
<1>8. CASE UNCHANGED <<queue, lastPulled, batch, wire, limbo, copies, faults>>
  BY <1>8, CopiesFrame DEF NextRow
<1>10. ASSUME NEW f \in Event, LateReceive(f) PROVE CopiesInv'
  <2> SUFFICES ASSUME NEW e \in Event PROVE copies'[e] + limbo'[e] + Reserved(e)' <= 1 + faults'
    BY DEF CopiesInv
  <2>1. copies[e] + limbo[e] + Reserved(e) <= 1 + faults  BY DEF CopiesInv
  <2>2. faults' = faults /\ copies[e] \in Nat /\ limbo[e] \in Nat /\ faults \in Nat
    BY <1>10 DEF LateReceive, Inv, TypeOK
  <2>3. copies'[e] + limbo'[e] = copies[e] + limbo[e]
    BY <1>10, <2>2 DEF LateReceive, Inv, TypeOK
  <2>4. Reserved(e)' = Reserved(e) /\ Reserved(e) \in Nat
    BY <1>10 DEF LateReceive, pullVars, pubVars, Reserved, NextRow
  <2>5. copies'[e] \in Nat /\ limbo'[e] \in Int
    BY <1>10, <2>2 DEF LateReceive, Inv, TypeOK
  <2> QED  BY <2>1, <2>2, <2>3, <2>4, <2>5
<1>9. \/ PullApply \/ BrokerReceive \/ Puback \/ AckApply \/ FetchBatch \/ SendPublish
      \/ UNCHANGED <<lastPulled, copies>> /\ faults' = faults + 1 /\ (LeaveClient \/ UNCHANGED limbo)
      \/ UNCHANGED <<queue, lastPulled, batch, wire, limbo, copies, faults>>
      \/ \E e \in Event : LateReceive(e)
  BY DEF Next, vars, storeVars, syncVars, histVars, pullVars, pubVars, StoreCrash, PullReceive,
         Connect, PublishFail, AckStart, ServeAck, ServeTruncate, AckFail,
         Crash, CrashMidPull, CrashMidAck, LoseVolatile, Fault
<1> QED  BY <1>1, <1>2, <1>3, <1>4, <1>5, <1>6, <1>7, <1>8, <1>9, <1>10

(* The broker gets no more copies of an event than one per fault, and one:   *)
(* for any number of kills, failed publishes and failed ACKs.                *)
THEOREM DuplicatesAreBounded == Spec => []DuplicatesNeedFaults
<1>1. Init => CopiesInv  BY DEF Init, CopiesInv, Reserved, Unreceived
<1>2. Inv /\ CopiesInv => DuplicatesNeedFaults
  <2> SUFFICES ASSUME Inv, CopiesInv, NEW e \in Event PROVE copies[e] <= 1 + faults
    BY DEF DuplicatesNeedFaults
  <2>1. copies[e] \in Nat /\ limbo[e] \in Nat /\ faults \in Nat /\ Reserved(e) \in Nat
    BY DEF Inv, TypeOK, Reserved
  <2> QED  BY <2>1 DEF CopiesInv
<1> QED  BY <1>1, <1>2, InvHolds, CopiesNext, PTL DEF Spec

-----------------------------------------------------------------------------
(* Producers that POST in order.  The pull loop then only ever takes over    *)
(* events beyond all it has taken over before, also when a kill makes it     *)
(* read a page again: the page and the rows beyond the cursor are the first  *)
(* of what the store would give out.                                         *)
Readable == (events \cup page) \ Withheld
Known == page \cup accepted \subseteq posted /\ lastPulled \in posted \cup {NoEvent}
PageClosed == \A x \in page, e \in Readable : lastPulled < e /\ e < x => e \in page
AcceptedClosed == \A x \in accepted, e \in Readable : lastPulled < e /\ e < x => e \in accepted

\* What the publish loop holds, and what it gave up on, is the oldest there is.
BatchFirst == \A b \in batch, f \in accepted \ Delivered : f < b => f \in batch
LimboFirst ==
    \A e \in Event : limbo[e] > 0 => \A f \in accepted : f < e => f \in Delivered

OrderInv == Known /\ PageClosed /\ AcceptedClosed /\ BatchFirst /\ LimboFirst

\* With LIMIT, what sorts before a row of the result is a row of the result.
LEMMA FirstNClosed ==
  ASSUME NEW S \in SUBSET Event, NEW n \in Nat, NEW x \in FirstN(S, n), NEW e \in S, e < x
  PROVE  e \in FirstN(S, n)
<1> DEFINE A == {f \in S : f < e}
           B == {f \in S : f < x}
<1>0. x \in Nat /\ e \in Nat /\ \A f \in S : f \in Nat  BY DEF FirstN
<1>1. IsFiniteSet(Event)  BY FS_Interval
<1>2. A \in SUBSET B
  <2>1. ASSUME NEW f \in A PROVE f \in B
    <3>1. f \in S /\ f \in Nat /\ f < e  BY <1>0
    <3>2. f < x  BY <1>0, <3>1
    <3> QED  BY <3>1, <3>2
  <2> HIDE DEF A, B
  <2> QED  BY <2>1
<1>3. IsFiniteSet(B)  BY <1>1, FS_Subset
<1>4. IsFiniteSet(A) /\ Cardinality(A) <= Cardinality(B)  BY <1>2, <1>3, FS_Subset
<1>5. Cardinality(A) \in Nat /\ Cardinality(B) \in Nat  BY <1>3, <1>4, FS_CardinalityType
<1>6. Cardinality(B) < n  BY DEF FirstN
<1>7. Cardinality(A) < n  BY <1>4, <1>5, <1>6
<1> QED  BY <1>7 DEF FirstN

\* What is taken over from a page lies beyond all that was taken over before.
LEMMA TakenLater ==
  ASSUME Inv, WithheldInv, OrderInv, NEW e \in page, e \notin accepted, NEW x \in accepted
  PROVE  x < e
<1>1. e \in Event /\ x \in Event /\ lastPulled \in Nat  BY DEF Inv, TypeOK
<1>2. e \in Readable /\ lastPulled < e
  BY <1>1 DEF Readable, WithheldInv, Inv, PageBeyondCursor
<1>3. ~ (e < x)  BY <1>2 DEF OrderInv, AcceptedClosed
<1> QED  BY <1>1, <1>3

\* Taking over the first rows of a page.
LEMMA TakeOver ==
  ASSUME Inv, WithheldInv, OrderInv, NEW T \in SUBSET page, accepted' = accepted \cup T
  PROVE  /\ \A b \in accepted, f \in accepted' : f < b => f \in accepted
         /\ accepted' \subseteq posted
<1>1. ASSUME NEW b \in accepted, NEW f \in accepted', f < b, f \notin accepted PROVE FALSE
  <2>1. f \in page  BY <1>1
  <2>2. b < f  BY <1>1, <2>1, TakenLater
  <2>3. b \in Event /\ f \in Event  BY <2>1 DEF Inv, TypeOK
  <2> QED  BY <1>1, <2>2, <2>3
<1> QED  BY <1>1 DEF OrderInv, Known

\* The client is left with the oldest row not yet received on the wire.
LEMMA LeaveFirst ==
  ASSUME Inv, OrderInv, LeaveClient
  PROVE  \A e \in Event : limbo'[e] > 0 =>
            e \in accepted /\ \A f \in accepted : f < e => f \in Delivered
<1>1. \A e \in Event : limbo[e] > 0 =>
         e \in accepted /\ \A f \in accepted : f < e => f \in Delivered
  BY DEF Inv, LimboAccepted, OrderInv, LimboFirst
<1>2. CASE wire = "sent"
  <2>1. NextRow \in batch /\ \A b \in batch : NextRow <= b
    BY <1>2, EventMin DEF Inv, TypeOK, WireBusy, NextRow
  <2>2. NextRow \in Event /\ NextRow \in accepted  BY <2>1 DEF Inv, TypeOK, Rows, RowsAccepted
  <2>3. limbo' = [limbo EXCEPT ![NextRow] = @ + 1]  BY <1>2 DEF LeaveClient
  <2> HIDE DEF NextRow
  <2>4. \A f \in accepted : f < NextRow => f \in Delivered
    <3> SUFFICES ASSUME NEW f \in accepted, f < NextRow, f \notin Delivered PROVE FALSE
      OBVIOUS
    <3>1. f \in batch  BY <2>1 DEF OrderInv, BatchFirst
    <3>2. f \in Event  BY DEF Inv, TypeOK
    <3> QED  BY <2>1, <2>2, <3>1, <3>2
  <2>5. \A e \in Event : e # NextRow => limbo'[e] = limbo[e]  BY <2>3 DEF Inv, TypeOK
  <2> QED  BY <1>1, <2>2, <2>4, <2>5
<1>3. CASE wire # "sent"
  BY <1>1, <1>3 DEF LeaveClient
<1> QED  BY <1>2, <1>3

LEMMA OrderNext ==
  ASSUME InOrder
  PROVE  Inv /\ WithheldInv /\ OrderInv /\ [Next]_vars => OrderInv'
<1> SUFFICES ASSUME Inv, WithheldInv, OrderInv, [Next]_vars PROVE OrderInv'  OBVIOUS
<1>a. /\ events \subseteq posted /\ posted \subseteq Event /\ page \subseteq Event
      /\ accepted \subseteq Event /\ batch \subseteq Event /\ lastPulled \in Nat
  BY DEF Inv, TypeOK, StoreTypeOK
<1>b. batch \subseteq accepted  BY DEF Inv, TypeOK, RowsAccepted, Rows
<1>1. ASSUME NEW e \in Event, IngestEvent(e), UNCHANGED syncVars PROVE OrderInv'
  <2>1. events' = events \cup {e} /\ posted' = posted \cup {e} /\ \A f \in posted : f < e
    BY <1>1 DEF IngestEvent
  <2>2. UNCHANGED <<page, lastPulled, accepted, batch, copies, limbo>>
    BY <1>1 DEF syncVars, pullVars, pubVars, histVars
  <2>3. Known'  BY <2>1, <2>2 DEF OrderInv, Known
  <2>4. \A x \in page \cup accepted : x < e  BY <2>1 DEF OrderInv, Known
  <2>5. Readable' \subseteq Readable \cup {e}  BY <2>1, <2>2 DEF Readable
  <2>6. PageClosed'  BY <1>a, <2>2, <2>4, <2>5 DEF OrderInv, PageClosed
  <2>7. AcceptedClosed'  BY <1>a, <2>2, <2>4, <2>5 DEF OrderInv, AcceptedClosed
  <2>8. BatchFirst' /\ LimboFirst'  BY <2>2 DEF OrderInv, BatchFirst, LimboFirst, Delivered
  <2> QED  BY <2>3, <2>6, <2>7, <2>8 DEF OrderInv
<1>2. CASE PullReceive
  <2>1. page' = ListEvents(lastPulled)
        /\ UNCHANGED <<events, posted, lastPulled, accepted, batch, copies, limbo>>
    BY <1>2 DEF PullReceive, storeVars, pubVars, histVars
  <2> DEFINE S == {e \in events : e > lastPulled}
  <2>2. S \in SUBSET Event /\ page' = FirstN(S, PageLimit) \ Withheld
    BY <1>a, <2>1 DEF ListEvents, EventsPage
  <2>3. page' \subseteq S /\ page' \subseteq events  BY <2>2, FirstNSubset
  <2>4. Readable' \subseteq Readable  BY <2>1, <2>3 DEF Readable
  <2>5. Known'  BY <1>a, <2>1, <2>3 DEF OrderInv, Known
  <2>6. PageClosed'
    <3> SUFFICES ASSUME NEW x \in page', NEW e \in Readable', lastPulled < e, e < x
                 PROVE  e \in page'
      BY <2>1 DEF PageClosed
    <3>1. e \in events /\ e \notin Withheld /\ e \in S  BY <1>a, <2>1, <2>3 DEF Readable
    <3>2. x \in FirstN(S, PageLimit)  BY <2>2
    <3> HIDE DEF S
    <3>3. e \in FirstN(S, PageLimit)  BY <2>2, <3>1, <3>2, FirstNClosed
    <3> QED  BY <2>2, <3>1, <3>3
  <2>7. AcceptedClosed'  BY <2>1, <2>4 DEF OrderInv, AcceptedClosed
  <2>8. BatchFirst' /\ LimboFirst'  BY <2>1 DEF OrderInv, BatchFirst, LimboFirst, Delivered
  <2> QED  BY <2>5, <2>6, <2>7, <2>8 DEF OrderInv
<1>3. CASE PullApply
  <2>1. PICK T \in SUBSET page : accepted' = accepted \cup T
    BY <1>3 DEF PullApply
  <2>2. page # {} /\ page' = {} /\ lastPulled' = Max(page)
        /\ UNCHANGED <<events, posted, batch, copies, limbo>>
    BY <1>3 DEF PullApply, storeVars, pubVars
  <2>3. Max(page) \in page /\ \A y \in page : y <= Max(page)  BY <1>a, <2>2, EventMax
  <2>4. Known'  BY <2>1, <2>2, <2>3 DEF OrderInv, Known
  <2>5. PageClosed'  BY <2>2 DEF PageClosed
  <2>6. AcceptedClosed'
    <3> SUFFICES ASSUME NEW x \in accepted', NEW e \in Readable', lastPulled' < e, e < x
                 PROVE  e \in accepted'
      BY DEF AcceptedClosed
    <3>1. e \in Readable /\ e \in Event /\ x \in Event  BY <1>a, <2>1, <2>2 DEF Readable
    <3>2. Max(page) \in Event /\ lastPulled < Max(page)
      BY <1>a, <2>3 DEF Inv, PageBeyondCursor
    <3>3. lastPulled < e  BY <1>a, <2>2, <3>1, <3>2
    <3>4. x \notin page  BY <2>2, <2>3, <3>1, <3>2
    <3>5. x \in accepted  BY <2>1, <3>4
    <3> QED  BY <2>1, <3>1, <3>3, <3>5 DEF OrderInv, AcceptedClosed
  <2>7. BatchFirst'  BY <1>b, <2>1, <2>2, TakeOver DEF OrderInv, BatchFirst, Delivered
  <2>8. LimboFirst'
    BY <2>1, <2>2, TakeOver DEF OrderInv, LimboFirst, Delivered, Inv, LimboAccepted
  <2> QED  BY <2>4, <2>5, <2>6, <2>7, <2>8 DEF OrderInv
<1>4. CASE FetchBatch
  <2>1. batch' = FirstN(Pending, PublishRate)
        /\ UNCHANGED <<events, posted, page, lastPulled, accepted, copies, limbo>>
    BY <1>4 DEF FetchBatch, storeVars, pullVars, histVars
  <2>2. BatchFirst'
    <3> SUFFICES ASSUME NEW b \in batch', NEW f \in accepted \ Delivered, f < b PROVE f \in batch'
      BY <2>1 DEF BatchFirst, Delivered
    <3>1. f \in Pending  BY <1>a DEF Inv, Custody, Pending
    <3>2. Pending \in SUBSET Event  BY DEF Pending
    <3> QED  BY <2>1, <3>1, <3>2, FirstNClosed
  <2>3. Known' /\ PageClosed' /\ AcceptedClosed' /\ LimboFirst'
    BY <2>1 DEF OrderInv, Known, PageClosed, AcceptedClosed, LimboFirst, Readable, Delivered
  <2> QED  BY <2>2, <2>3 DEF OrderInv
<1>5. ASSUME UNCHANGED <<events, posted, page, lastPulled, accepted>>,
             Delivered \subseteq Delivered', batch' \subseteq batch,
             \A f \in batch \ batch' : f \in Delivered',
             \A e \in Event : limbo'[e] > 0 => limbo[e] > 0
      PROVE  OrderInv'
  <2>1. Known' /\ PageClosed' /\ AcceptedClosed'
    BY <1>5 DEF OrderInv, Known, PageClosed, AcceptedClosed, Readable
  <2>2. BatchFirst'  BY <1>5 DEF OrderInv, BatchFirst
  <2>3. LimboFirst'  BY <1>5 DEF OrderInv, LimboFirst
  <2> QED  BY <2>1, <2>2, <2>3 DEF OrderInv
<1>6. CASE BrokerReceive
  <2>1. UNCHANGED <<events, posted, page, lastPulled, accepted, batch, limbo>>
    BY <1>6 DEF BrokerReceive, storeVars, pullVars
  <2>2. Delivered \subseteq Delivered'  BY <1>6 DEF BrokerReceive, Delivered, Inv, TypeOK
  <2> QED  BY <1>5, <2>1, <2>2
<1>7. CASE Puback
  <2>1. UNCHANGED <<events, posted, page, lastPulled, accepted, copies, limbo>>
        /\ batch' = batch \ {NextRow} /\ NextRow \in Delivered
    BY <1>7 DEF Puback, storeVars, pullVars, histVars, Inv, ArrivedReceived
  <2>2. Delivered' = Delivered  BY <2>1 DEF Delivered
  <2> QED  BY <1>5, <2>1, <2>2
<1>8. ASSUME NEW e \in Event, LateReceive(e) PROVE OrderInv'
  <2>1. UNCHANGED <<events, posted, page, lastPulled, accepted, batch>> /\ limbo[e] > 0
    BY <1>8 DEF LateReceive, storeVars, pullVars, pubVars
  <2>2. Delivered \subseteq Delivered'  BY <1>8 DEF LateReceive, Delivered, Inv, TypeOK
  <2>3. \A f \in Event : limbo'[f] > 0 => limbo[f] > 0
    BY <1>8, <2>1 DEF LateReceive, Inv, TypeOK
  <2> QED  BY <1>5, <2>1, <2>2, <2>3
<1>9. ASSUME LeaveClient, page' = page \/ page' = {}, NEW T \in SUBSET page,
             accepted' = accepted \cup T, UNCHANGED <<events, posted, lastPulled, copies>>,
             \A x \in T, e \in page : e < x => e \in T
      PROVE  OrderInv'
  <2>1. Known'  BY <1>9 DEF OrderInv, Known
  <2>2. Readable' \subseteq Readable  BY <1>9 DEF Readable
  <2>3. PageClosed'
    <3> SUFFICES ASSUME NEW x \in page', NEW e \in Readable', lastPulled < e, e < x
                 PROVE  e \in page'
      BY <1>9 DEF PageClosed
    <3> QED  BY <1>9, <2>2 DEF OrderInv, PageClosed
  <2>4. AcceptedClosed'
    <3> SUFFICES ASSUME NEW x \in accepted', NEW e \in Readable', lastPulled < e, e < x
                 PROVE  e \in accepted'
      BY <1>9 DEF AcceptedClosed
    <3>1. CASE x \in accepted  BY <1>9, <2>2, <3>1 DEF OrderInv, AcceptedClosed
    <3>2. CASE x \in T
      <4>1. e \in page  BY <2>2, <3>2 DEF OrderInv, PageClosed
      <4> QED  BY <1>9, <3>2, <4>1
    <3> QED  BY <1>9, <3>1, <3>2
  <2>5. BatchFirst'  BY <1>9 DEF LeaveClient, BatchFirst
  <2>6. LimboFirst'
    <3>1. \A b \in accepted, f \in accepted' : f < b => f \in accepted  BY <1>9, TakeOver
    <3>2. \A e \in Event : limbo'[e] > 0 =>
             e \in accepted /\ \A f \in accepted : f < e => f \in Delivered
      BY <1>9, LeaveFirst
    <3>3. Delivered' = Delivered  BY <1>9 DEF Delivered
    <3> QED  BY <3>1, <3>2, <3>3 DEF LimboFirst
  <2> QED  BY <2>1, <2>3, <2>4, <2>5, <2>6 DEF OrderInv
<1>10. CASE PublishFail \/ Crash \/ CrashMidAck
  <2>1. /\ LeaveClient /\ (page' = page \/ page' = {}) /\ accepted' = accepted \cup {}
        /\ UNCHANGED <<events, posted, lastPulled, copies>>
    BY <1>10 DEF PublishFail, Crash, CrashMidAck, LoseVolatile, storeVars, pullVars
  <2> QED  BY <1>9, <2>1
<1>11. ASSUME NEW n \in 1..PageLimit, CrashMidPull(n) PROVE OrderInv'
  <2>1. PICK T \in SUBSET page : T = FirstN(page, n)  BY FirstNSubset
  <2>2. /\ LeaveClient /\ page' = {} /\ accepted' = accepted \cup T
        /\ UNCHANGED <<events, posted, lastPulled, copies>>
    BY <1>11, <2>1 DEF CrashMidPull, LoseVolatile, storeVars
  <2>3. \A x \in T, e \in page : e < x => e \in T  BY <1>a, <2>1, FirstNClosed
  <2> QED  BY <1>9, <2>2, <2>3
<1>12. ASSUME events' \subseteq events,
              UNCHANGED <<posted, page, lastPulled, accepted, batch, copies, limbo>>
       PROVE  OrderInv'
  <2>1. Readable' \subseteq Readable  BY <1>12 DEF Readable
  <2>2. Known' /\ PageClosed' /\ AcceptedClosed'
    BY <1>12, <2>1 DEF OrderInv, Known, PageClosed, AcceptedClosed
  <2>3. BatchFirst' /\ LimboFirst'  BY <1>12 DEF OrderInv, BatchFirst, LimboFirst, Delivered
  <2> QED  BY <2>2, <2>3 DEF OrderInv
<1>13. CASE \/ StoreCrash /\ UNCHANGED syncVars
            \/ Connect \/ SendPublish \/ AckStart \/ ServeAck \/ AckApply \/ AckFail
            \/ \E c \in Event : ServeTruncate(c)
            \/ UNCHANGED vars
  <2>1. /\ events' \subseteq events
        /\ UNCHANGED <<posted, page, lastPulled, accepted, batch, copies, limbo>>
    BY <1>13 DEF StoreCrash, Connect, SendPublish, AckStart, ServeAck, AdvanceCursor, AckApply,
       AckFail, ServeTruncate, TruncateOldJourneys, vars, storeVars, syncVars, pullVars, pubVars,
       histVars
  <2> QED  BY <1>12, <2>1
<1> QED
  BY <1>1, <1>2, <1>3, <1>4, <1>6, <1>7, <1>8, <1>10, <1>11, <1>13 DEF Next

(* The broker gets first copies in the order of the events whenever the      *)
(* store does, through failed INSERTs, truncation, late copies, reconnects   *)
(* and kills (iter_pending's ORDER BY, and a batch fetched before the rows   *)
(* behind it).                                                               *)
THEOREM FirstCopiesInOrder ==
  ASSUME InOrder
  PROVE  Spec => ChronologicalFirstDelivery
<1>1. Init => WithheldInv /\ OrderInv
  BY DEF Init, StoreInit, WithheldInv, Delivered, OrderInv, Known, PageClosed, AcceptedClosed,
         BatchFirst, LimboFirst
<1>2. Inv /\ WithheldInv /\ OrderInv /\ [Next]_vars =>
         [\A e \in Delivered' \ Delivered :
             \A f \in accepted : f < e => f \in Delivered]_vars
  <2> SUFFICES ASSUME Inv, WithheldInv, OrderInv, [Next]_vars,
                      NEW e \in Delivered' \ Delivered, NEW f \in accepted, f < e
               PROVE  f \in Delivered
    OBVIOUS
  <2>1. CASE BrokerReceive
    <3>1. NextRow \in batch /\ \A b \in batch : NextRow <= b
      BY <2>1, EventMin DEF BrokerReceive, Inv, TypeOK, WireBusy, NextRow
    <3>2. e = NextRow  BY <2>1 DEF BrokerReceive, Inv, TypeOK, Delivered
    <3>3. f \in Event /\ e \in Event  BY DEF Inv, TypeOK, Delivered
    <3>4. f \notin batch  BY <3>1, <3>2, <3>3
    <3> QED  BY <3>1, <3>2, <3>4 DEF OrderInv, BatchFirst
  <2>2. ASSUME NEW d \in Event, LateReceive(d) PROVE f \in Delivered
    <3>1. e = d /\ limbo[d] > 0  BY <2>2 DEF LateReceive, Inv, TypeOK, Delivered
    <3> QED  BY <3>1 DEF OrderInv, LimboFirst
  <2>3. CASE UNCHANGED copies
    BY <2>3 DEF Delivered
  <2>4. BrokerReceive \/ (\E d \in Event : LateReceive(d)) \/ UNCHANGED copies
    BY DEF Next, vars, storeVars, syncVars, histVars, StoreCrash, PullReceive, PullApply, Connect,
           FetchBatch, SendPublish, Puback, PublishFail, AckStart, ServeAck, ServeTruncate,
           AckApply, AckFail, Crash, CrashMidPull, CrashMidAck
  <2> QED  BY <2>1, <2>2, <2>3, <2>4
<1> QED
  BY <1>1, <1>2, InvHolds, WithheldNext, OrderNext, PTL DEF Spec, ChronologicalFirstDelivery

-----------------------------------------------------------------------------
(* What ack_loop.py:5-7 says of the store's cursor, and what it rests on:    *)
(* no event arrives late, no INSERT fails and no journey is truncated.       *)
AllRetained == Cardinality({JourneyOf[e] : e \in Event}) <= Retain

CoveredBy(c) ==
    c \in posted \cup {NoEvent} /\ \A e \in posted \ Withheld : e <= c => e \in Delivered

SyncedInv ==
    /\ events = posted
    /\ \A e \in posted \ Withheld : e <= lastPulled => e \in accepted
    /\ CoveredBy(syncCursor) /\ CoveredBy(ackReq)

\* With no more journeys than it retains, truncation deletes nothing.
LEMMA NothingTruncated ==
  ASSUME AllRetained, Inv, NEW c \in Event, TruncateOldJourneys(c)
  PROVE  events' = events
<1> DEFINE J == {JourneyOf[e] : e \in Event}
           f == [e \in Event |-> JourneyOf[e]]
<1>1. IsFiniteSet(J)
  <2>1. f \in Surjection(Event, J)  BY DEF Surjection
  <2>2. IsFiniteSet(Event)  BY FS_Interval
  <2> HIDE DEF J, f
  <2> QED  BY <2>1, <2>2, FS_Surjection
<1>2. PICK K \in SUBSET Journeys :
         RetainedJourneys(K) /\ events' = {e \in events : JourneyOf[e] \in K}
  BY DEF TruncateOldJourneys
<1>3. Journeys \in SUBSET J  BY DEF Inv, TypeOK, StoreTypeOK, Journeys
<1>4. /\ IsFiniteSet(Journeys) /\ Cardinality(Journeys) <= Cardinality(J)
      /\ Cardinality(Journeys) \in Nat /\ Cardinality(J) \in Nat
  BY <1>1, <1>3, FS_Subset, FS_CardinalityType
<1>5. Cardinality(Journeys) <= Retain  BY <1>4 DEF AllRetained
<1>6. Min({Retain, Cardinality(Journeys)}) = Cardinality(Journeys)
  <2>1. PICK n \in Nat : n = Cardinality(Journeys)  BY <1>4
  <2>2. {Retain, n} \in SUBSET Nat /\ n <= Retain  BY <1>5, <2>1
  <2>3. Min({Retain, n}) \in {Retain, n} /\ Min({Retain, n}) <= n
    BY <2>2, MinIsLeast
  <2>4. Min({Retain, n}) = n  BY <2>2, <2>3
  <2> QED  BY <2>1, <2>4
<1>7. Cardinality(K) = Cardinality(Journeys)  BY <1>2, <1>6 DEF RetainedJourneys
<1>8. K = Journeys  BY <1>4, <1>7, FS_Subset
<1> QED  BY <1>2, <1>8 DEF Journeys

LEMMA SyncedNext ==
  ASSUME InOrder, ~ EnqueueMayFail, AllRetained
  PROVE  Inv /\ WithheldInv /\ OrderInv /\ SyncedInv /\ [Next]_vars => SyncedInv'
<1> SUFFICES ASSUME Inv, WithheldInv, OrderInv, SyncedInv, [Next]_vars PROVE SyncedInv'
  OBVIOUS
<1>a. /\ posted \subseteq Event /\ page \subseteq Event /\ accepted \subseteq Event
      /\ lastPulled \in Cursor /\ syncCursor \in Cursor /\ ackReq \in Cursor
  BY DEF Inv, TypeOK, StoreTypeOK
<1>d. Delivered \subseteq Delivered'
  <2>1. CASE BrokerReceive
    BY <2>1 DEF BrokerReceive, Delivered, Inv, TypeOK
  <2>2. ASSUME NEW d \in Event, LateReceive(d) PROVE Delivered \subseteq Delivered'
    BY <2>2 DEF LateReceive, Delivered, Inv, TypeOK
  <2>3. CASE UNCHANGED copies
    BY <2>3 DEF Delivered
  <2>4. BrokerReceive \/ (\E d \in Event : LateReceive(d)) \/ UNCHANGED copies
    BY DEF Next, vars, storeVars, syncVars, histVars, StoreCrash, PullReceive, PullApply, Connect,
           FetchBatch, SendPublish, Puback, PublishFail, AckStart, ServeAck, ServeTruncate,
           AckApply, AckFail, Crash, CrashMidPull, CrashMidAck
  <2> QED  BY <2>1, <2>2, <2>3, <2>4
<1>c. ASSUME UNCHANGED posted, NEW c, CoveredBy(c) PROVE CoveredBy(c)'
  BY <1>c, <1>d DEF CoveredBy
<1>0. CoveredBy(NoEvent)
  BY <1>a DEF CoveredBy
<1>1. ASSUME NEW e \in Event, IngestEvent(e), UNCHANGED syncVars PROVE SyncedInv'
  <2>1. /\ events' = events \cup {e} /\ posted' = posted \cup {e} /\ \A f \in posted : f < e
        /\ syncCursor' = syncCursor
    BY <1>1 DEF IngestEvent
  <2>2. UNCHANGED <<lastPulled, accepted, ackReq, copies>>
    BY <1>1 DEF syncVars, pullVars, ackVars, histVars
  <2>3. \A c \in posted \cup {NoEvent} : c < e  BY <2>1
  <2>4. lastPulled < e  BY <2>3 DEF OrderInv, Known
  <2>5. ASSUME NEW c \in Cursor, CoveredBy(c) PROVE c \in posted' \cup {NoEvent}
               /\ \A f \in posted' \ Withheld : f <= c => f \in Delivered
    <3>1. c < e  BY <2>3, <2>5 DEF CoveredBy
    <3> QED  BY <2>1, <2>5, <3>1 DEF CoveredBy
  <2>6. CoveredBy(syncCursor)' /\ CoveredBy(ackReq)'
    BY <1>a, <1>d, <2>1, <2>2, <2>5 DEF SyncedInv, CoveredBy
  <2>7. \A f \in posted' \ Withheld : f <= lastPulled' => f \in accepted'
    BY <1>a, <2>1, <2>2, <2>4 DEF SyncedInv
  <2> QED  BY <2>1, <2>6, <2>7 DEF SyncedInv
<1>2. CASE PullApply
  <2>1. /\ accepted' = accepted \cup page /\ page # {} /\ lastPulled' = Max(page)
        /\ UNCHANGED <<events, posted, syncCursor, ackReq>>
    BY <1>2 DEF PullApply, storeVars, ackVars
  <2>2. Max(page) \in page /\ Max(page) \in Event  BY <1>a, <2>1, EventMax
  <2>3. ASSUME NEW e \in posted \ Withheld, e <= lastPulled' PROVE e \in accepted'
    <3>1. CASE e <= lastPulled  BY <2>1, <3>1 DEF SyncedInv
    <3>2. CASE e = Max(page)  BY <2>1, <2>2, <3>2
    <3>3. CASE lastPulled < e /\ e < Max(page)
      <4>1. e \in Readable  BY DEF SyncedInv, Readable
      <4> QED  BY <2>1, <2>2, <3>3, <4>1 DEF OrderInv, PageClosed
    <3> QED  BY <1>a, <2>1, <2>2, <2>3, <3>1, <3>2, <3>3
  <2> QED  BY <1>c, <2>1, <2>3 DEF SyncedInv
<1>3. CASE AckStart
  <2>1. /\ ackReq' = ContiguousPublishedPrefix /\ ackReq' # NoEvent
        /\ UNCHANGED <<events, posted, syncCursor, lastPulled, accepted, copies>>
    BY <1>3 DEF AckStart, storeVars, pullVars, histVars
  <2>2. PICK c \in Event : c = ContiguousPublishedPrefix /\ c \in Published
                           /\ \A f \in Pending : c < f
    BY <2>1, PrefixCursor DEF Inv, Published
  <2>3. c \in accepted  BY <2>2 DEF Inv, RowsAccepted, Rows, Published
  <2>4. ASSUME NEW e \in posted \ Withheld, e <= c PROVE e \in Delivered
    <3>1. e \in accepted
      <4>1. CASE e <= lastPulled  BY <4>1 DEF SyncedInv
      <4>2. CASE e = c  BY <2>3, <4>2
      <4>3. CASE lastPulled < e /\ e < c
        <5>1. e \in Readable  BY DEF SyncedInv, Readable
        <5> QED  BY <2>3, <4>3, <5>1 DEF OrderInv, AcceptedClosed
      <4> QED  BY <1>a, <2>4, <4>1, <4>2, <4>3
    <3>2. e \notin Pending  BY <1>a, <2>2, <2>4
    <3> QED  BY <1>a, <3>1, <3>2 DEF Inv, Custody, Pending
  <2>5. CoveredBy(ackReq)'
    BY <1>d, <2>1, <2>2, <2>3, <2>4 DEF CoveredBy, OrderInv, Known
  <2> QED  BY <1>c, <2>1, <2>5 DEF SyncedInv
<1>4. ASSUME events' = events, posted' = posted, lastPulled' = lastPulled,
             accepted \subseteq accepted',
             syncCursor' \in {syncCursor, ackReq}, ackReq' \in {ackReq, NoEvent}
      PROVE  SyncedInv'
  <2>1. CoveredBy(syncCursor)'
    <3>1. CoveredBy(syncCursor')  BY <1>4 DEF SyncedInv
    <3> QED  BY <1>4, <1>d, <3>1 DEF CoveredBy
  <2>2. CoveredBy(ackReq)'
    <3>1. CoveredBy(ackReq')  BY <1>0, <1>4 DEF SyncedInv
    <3> QED  BY <1>4, <1>d, <3>1 DEF CoveredBy
  <2> QED  BY <1>4, <2>1, <2>2 DEF SyncedInv
<1>5. ASSUME NEW c \in Event, ServeTruncate(c) PROVE SyncedInv'
  <2>1. TruncateOldJourneys(c) /\ UNCHANGED <<lastPulled, accepted, ackReq, posted, syncCursor>>
    BY <1>5 DEF ServeTruncate, TruncateOldJourneys, pullVars, histVars
  <2>2. events' = events  BY <2>1, NothingTruncated
  <2> QED  BY <1>4, <2>1, <2>2
<1>6. ASSUME NEW n \in 1..PageLimit, CrashMidPull(n) PROVE SyncedInv'
  <2>1. UNCHANGED <<events, posted, lastPulled, syncCursor>> /\ accepted \subseteq accepted'
        /\ ackReq' = NoEvent
    BY <1>6 DEF CrashMidPull, LoseVolatile, storeVars
  <2> QED  BY <1>4, <2>1
<1>7. CASE \/ StoreCrash /\ UNCHANGED syncVars
           \/ PullReceive \/ Connect \/ FetchBatch \/ SendPublish \/ BrokerReceive \/ Puback
           \/ PublishFail \/ ServeAck \/ AckApply \/ AckFail \/ Crash \/ CrashMidAck
           \/ (\E e \in Event : LateReceive(e)) \/ UNCHANGED vars
  <2>1. /\ UNCHANGED <<events, posted, lastPulled, accepted>>
        /\ syncCursor' \in {syncCursor, ackReq} /\ ackReq' \in {ackReq, NoEvent}
    BY <1>7 DEF StoreCrash, PullReceive, Connect, FetchBatch, SendPublish, BrokerReceive, Puback,
       PublishFail, ServeAck, AdvanceCursor, AckApply, AckFail, Crash, CrashMidAck, LoseVolatile,
       LateReceive, vars, storeVars, syncVars, pullVars, ackVars, histVars
  <2> QED  BY <1>4, <2>1
<1> QED  BY <1>1, <1>2, <1>3, <1>5, <1>6, <1>7 DEF Next

(* "All delivered" (ack_loop.py:5-7): with events stored in order, INSERTs   *)
(* that work and no more journeys than are retained, everything the store    *)
(* may give out up to and including last_synced_event_id has reached the     *)
(* broker, whatever is killed, retried or answered late.                     *)
THEOREM SyncedIsDelivered ==
  ASSUME InOrder, ~ EnqueueMayFail, AllRetained
  PROVE  Spec => []SyncedWasDelivered
<1>1. Init => WithheldInv /\ OrderInv /\ SyncedInv
  BY DEF Init, StoreInit, WithheldInv, Delivered, OrderInv, Known, PageClosed, AcceptedClosed,
         BatchFirst, LimboFirst, SyncedInv, CoveredBy
<1>2. SyncedInv => SyncedWasDelivered
  BY DEF SyncedInv, CoveredBy, SyncedWasDelivered
<1> QED
  BY <1>1, <1>2, InvHolds, WithheldNext, OrderNext, SyncedNext, PTL DEF Spec

=============================================================================
