----------------------------- MODULE Escalations ------------------------------
(***************************************************************************)
(* The escalation lifecycle of cloud-backend: ingest raises an escalation, *)
(* operators acknowledge, resolve or silently dismiss it, and every        *)
(* transition is audited in its own transaction and announced to the open  *)
(* panels after it.  Every statement is a yield point.                     *)
(*                                                                         *)
(* PostgreSQL at READ COMMITTED is external: a statement reads what is     *)
(* committed when it starts; a write of a row that another transaction has *)
(* written waits for its end and then looks at the row again; a plain read *)
(* waits for nobody.                                                       *)
(***************************************************************************)
EXTENDS Integers, Sequences, FiniteSets, SequencesExt

CONSTANTS
    Escalation, Request,
    MaxRequests,  \* bound on requests begun
    None

ASSUME EscalationsAssumption ==
    MaxRequests \in Nat /\ None \notin Request /\ IsFiniteSet(Request)

VARIABLES
    status,   \* escalations.status, "absent" when there is no row
    audit,    \* the committed escalation_audit rows, in the order of their commits
    lock,     \* the transaction that has written the row and not ended
    req,      \* the requests being handled
    begun

VARIABLES     \* history
    frames,   \* ESCALATION_UPDATED frames handed to the subscribers
    unheard,  \* transitions whose COMMIT was done but not answered
    racing    \* dismissals already inserted when the acknowledgement committed

history == <<frames, unheard, racing>>
vars == <<status, audit, lock, req, begun, history>>

Op == {"raise", "acknowledge", "resolve", "dismiss"}
Transition == {"raised", "acknowledged", "resolved"}
Status == {"absent", "unacknowledged", "acknowledged", "resolved"}

\* The status a transition needs, the one it leaves, and its audit row.
Needs == [raise |-> "absent", acknowledge |-> "unacknowledged",
          resolve |-> "acknowledged", dismiss |-> "unacknowledged"]
Leaves == [raise |-> "unacknowledged", acknowledge |-> "acknowledged", resolve |-> "resolved"]
RowOf == [raise |-> "raised", acknowledge |-> "acknowledged", resolve |-> "resolved",
          dismiss |-> "silently_dismissed"]

Idle == [pc |-> "idle", op |-> None, esc |-> None, rows |-> <<>>]

TypeOK ==
    /\ status \in [Escalation -> Status]
    /\ audit \in [Escalation -> Seq(Transition \cup {"silently_dismissed"})]
    /\ lock \in [Escalation -> Request \cup {None}]
    /\ req \in [Request -> [pc : {"idle", "read", "write", "audit", "commit", "publish"},
                            op : Op \cup {None}, esc : Escalation \cup {None},
                            rows : Seq(Transition \cup {"silently_dismissed"})]]
    /\ begun \in 0..MaxRequests
    /\ frames \in [Escalation -> Seq(Status)]
    /\ unheard \subseteq Escalation \X Status
    /\ racing \in [Escalation -> Nat]
    /\ \A e \in Escalation : lock[e] # None => req[lock[e]].esc = e

Init ==
    /\ status = [e \in Escalation |-> "absent"]
    /\ audit = [e \in Escalation |-> <<>>]
    /\ lock = [e \in Escalation |-> None]
    /\ req = [r \in Request |-> Idle]
    /\ begun = 0
    /\ frames = [e \in Escalation |-> <<>>] /\ unheard = {}
    /\ racing = [e \in Escalation |-> 0]

-----------------------------------------------------------------------------
(* The requests.                                                             *)

At(r, pc, op) == req[r].pc = pc /\ req[r].op = op
Goto(r, pc) == req' = [req EXCEPT ![r].pc = pc]
End(r) == req' = [req EXCEPT ![r] = Idle]

\* The row locks go with the transaction.
Unlocked(r) == [e \in Escalation |-> IF lock[e] = r THEN None ELSE lock[e]]

\* ingest.py has no status to read first.
Begin(r, op, e) ==
    /\ req[r].pc = "idle" /\ begun < MaxRequests
    /\ begun' = begun + 1
    /\ req' = [req EXCEPT ![r] = [pc |-> IF op = "raise" THEN "write" ELSE "read",
                                  op |-> op, esc |-> e, rows |-> <<>>]]
    /\ UNCHANGED <<status, audit, lock, history>>

\* _get_status: the request goes on to write when the status is the one its
\* transition needs and nothing else refuses it, and is answered otherwise.
GetStatus(r, op, refused) ==
    /\ At(r, "read", op)
    /\ IF status[req[r].esc] = Needs[op] /\ ~ refused THEN Goto(r, "write") ELSE End(r)
    /\ UNCHANGED <<status, audit, lock, begun, history>>

\* 404, or the idempotent answer.
ReadForAcknowledge(r) == GetStatus(r, "acknowledge", FALSE)

\* 404, 409 before the acknowledgement, 422 for a tag outside the taxonomy, or
\* the idempotent answer.
ReadForResolve(r) == \E invalidTag \in BOOLEAN : GetStatus(r, "resolve", invalidTag)

\* 404, or a dismissal that lost the race.
ReadForDismiss(r) == GetStatus(r, "dismiss", FALSE)

\* A mutant: the statement's own condition is left out, the read is relied on.
WriteUnconditional(r, op) ==
    LET e == req[r].esc
    IN /\ At(r, "write", op)
       /\ lock[e] = None
       /\ Goto(r, "audit") /\ lock' = [lock EXCEPT ![e] = r]
       /\ UNCHANGED <<status, audit, begun, history>>

\* A conditional write waits for the transaction that has written the row; then
\* its rowcount is 1, and the row is locked, or 0.
Write(r, op) ==
    LET e == req[r].esc
        match == status[e] = Needs[op]
    IN /\ At(r, "write", op)
       /\ match => lock[e] = None
       /\ IF match THEN Goto(r, "audit") /\ lock' = [lock EXCEPT ![e] = r]
                   ELSE Goto(r, "commit") /\ UNCHANGED lock
       /\ UNCHANGED <<status, audit, begun, history>>

\* INSERT ... ON CONFLICT DO NOTHING of ingest.
InsertEscalation(r) == Write(r, "raise")

\* UPDATE ... WHERE status = 'unacknowledged' and ... = 'acknowledged'.
UpdateAcknowledged(r) == Write(r, "acknowledge")
UpdateResolved(r) == Write(r, "resolve")

\* record_raised and record_transition: an INSERT in the same transaction.
RecordTransition(r) ==
    /\ req[r].pc = "audit"
    /\ req' = [req EXCEPT ![r].pc = "commit", ![r].rows = <<RowOf[req[r].op]>>]
    /\ UNCHANGED <<status, audit, lock, begun, history>>

\* A mutant: a plain INSERT that relies on the status read before.
RecordDismissedUnchecked(r) ==
    /\ At(r, "write", "dismiss")
    /\ req' = [req EXCEPT ![r].pc = "commit", ![r].rows = <<RowOf["dismiss"]>>]
    /\ UNCHANGED <<status, audit, lock, begun, history>>

\* record_silently_dismissed: INSERT ... SELECT ... WHERE status = 'unacknowledged'
\* waits for nobody and does not see a transition that is not committed.
RecordSilentlyDismissed(r) ==
    /\ At(r, "write", "dismiss")
    /\ req' = [req EXCEPT ![r].pc = "commit",
                          ![r].rows = IF status[req[r].esc] = Needs["dismiss"]
                                      THEN <<RowOf["dismiss"]>> ELSE <<>>]
    /\ UNCHANGED <<status, audit, lock, begun, history>>

\* The dismissals of e that are inserted and not committed.
Inserted(e) ==
    {r \in Request : At(r, "commit", "dismiss") /\ req[r].esc = e /\ req[r].rows # <<>>}

\* The transaction's writes become visible.
Visible(r) ==
    LET e == req[r].esc
        moved == lock[e] = r
    IN /\ status' = IF moved THEN [status EXCEPT ![e] = Leaves[req[r].op]] ELSE status
       /\ audit' = [audit EXCEPT ![e] = @ \o req[r].rows]
       /\ lock' = Unlocked(r)
       /\ racing' = IF moved /\ req[r].op = "acknowledge"
                    THEN [racing EXCEPT ![e] = Cardinality(Inserted(e))] ELSE racing

\* A mutant: whoever got as far as the COMMIT publishes.
AnnouncesAlways(r) == req[r].op \in {"acknowledge", "resolve"}

\* A mutant: one of the two routes forgets to.
AnnouncesAckOnly(r) == req[r].op = "acknowledge" /\ lock[req[r].esc] = r

\* if result.rowcount == 1
Announces(r) == req[r].op \in {"acknowledge", "resolve"} /\ lock[req[r].esc] = r

Commit(r) ==
    /\ req[r].pc = "commit"
    /\ Visible(r)
    /\ IF Announces(r) THEN Goto(r, "publish") ELSE End(r)
    /\ UNCHANGED <<begun, frames, unheard>>

\* The connection breaks after the COMMIT and before its answer: a 500, no frame.
CommitUnanswered(r) ==
    /\ req[r].pc = "commit"
    /\ Visible(r)
    /\ End(r)
    /\ unheard' = IF Announces(r) THEN unheard \cup {<<req[r].esc, Leaves[req[r].op]>>}
                                  ELSE unheard
    /\ UNCHANGED <<begun, frames>>

\* A statement raises, or the process dies: the session ends without a commit.
Rollback(r) ==
    /\ req[r].pc \in {"read", "write", "audit", "commit"}
    /\ lock' = Unlocked(r)
    /\ End(r)
    /\ UNCHANGED <<status, audit, begun, history>>

\* _publish_lifecycle; the fan-out itself is publish_alert of CloudAlerts.
PublishLifecycle(r) ==
    /\ req[r].pc = "publish"
    /\ frames' = [frames EXCEPT ![req[r].esc] = Append(@, Leaves[req[r].op])]
    /\ End(r)
    /\ UNCHANGED <<status, audit, lock, begun, unheard, racing>>

-----------------------------------------------------------------------------
Step(r) ==
    \/ ReadForAcknowledge(r) \/ ReadForResolve(r) \/ ReadForDismiss(r)
    \/ InsertEscalation(r) \/ UpdateAcknowledged(r) \/ UpdateResolved(r)
    \/ RecordTransition(r) \/ RecordSilentlyDismissed(r)
    \/ Commit(r) \/ PublishLifecycle(r)

Next ==
    \E r \in Request :
        \/ \E op \in Op, e \in Escalation : Begin(r, op, e)
        \/ Step(r) \/ CommitUnanswered(r) \/ Rollback(r)

Spec == Init /\ [][Next]_vars

\* PostgreSQL answers and the loop resumes a coroutine whose answer is there.
FairSpec == Spec /\ \A r \in Request : WF_vars(Step(r))

-----------------------------------------------------------------------------
(* Properties.                                                               *)

Lifecycle == INSTANCE EscalationLifecycle WITH trail <- audit

\* Whatever the requests do between their read and their write, the row and its
\* audit trail go through the lifecycle together: no transition is skipped, done
\* twice, audited twice or left unaudited (rowcount gate, same transaction).
ImplementsLifecycle == Lifecycle!Spec

\* A frame announces a transition that is committed, and no transition is
\* announced twice (Review R1), whoever raced for it and whatever failed.
FramesFollowCommits ==
    /\ TypeOK
    /\ \A e \in Escalation :
        /\ IsInjective(frames[e])
        /\ \A i \in DOMAIN frames[e] : Contains(audit[e], frames[e][i])

Late(e) ==
    Cardinality({i \in DOMAIN audit[e] : audit[e][i] = "silently_dismissed"
                    /\ \E j \in 1..(i - 1) : audit[e][j] = "acknowledged"})

\* D-2: a dismissal that follows the acknowledgement in the trail had inserted its
\* row before the acknowledgement committed; a read that is stale by then adds none.
LateDismissalsOverlap ==
    \A e \in Escalation :
        Contains(audit[e], "acknowledged") =>
            Late(e) + Cardinality(Inserted(e)) <= racing[e]

\* A transition is announced unless its COMMIT went unanswered.
Announced ==
    \A e \in Escalation : \A s \in {"acknowledged", "resolved"} :
        status[e] = s ~> Contains(frames[e], s) \/ <<e, s>> \in unheard

\* Panels converge: no request hangs on a row another one has written, and every
\* transition whose request heard of its COMMIT is announced.
PanelsConverge ==
    /\ \A r \in Request : req[r].pc # "idle" ~> req[r].pc = "idle"
    /\ Announced
=============================================================================
