--------------------------- MODULE EscalationsProofs --------------------------
(***************************************************************************)
(* For any number of escalations, overlapping requests, lost COMMIT        *)
(* answers and rollbacks: the escalation and its audit trail implement the *)
(* lifecycle, a frame announces a committed transition and none twice, and *)
(* a dismissal after the acknowledgement was inserted before it.           *)
(***************************************************************************)
EXTENDS Escalations, FiniteSetTheorems, TLAPS

USE EscalationsAssumption

AuditRow == Transition \cup {"silently_dismissed"}

Req == [pc : {"idle", "read", "write", "audit", "commit", "publish"},
        op : Op \cup {None}, esc : Escalation \cup {None}, rows : Seq(AuditRow)]

(* What a request has done by the time it is somewhere.  A row is written    *)
(* under its lock, and by whoever holds the lock only, so that the status    *)
(* the statement matched is the status until the commit.                     *)
Handled(r) ==
    LET e == req[r].esc  op == req[r].op IN
    /\ req[r].pc # "idle" => op \in Op /\ e \in Escalation
    /\ req[r].pc \in {"read", "write", "audit"} => req[r].rows = <<>>
    /\ req[r].pc = "audit" => lock[e] = r
    /\ req[r].pc = "publish" => op \in {"acknowledge", "resolve"}
    /\ \A x \in Escalation : lock[x] = r =>
          /\ x = e /\ req[r].pc \in {"audit", "commit"} /\ op # "dismiss"
          /\ status[x] = Needs[op]
    /\ req[r].pc = "commit" =>
          \/ lock[e] = r /\ req[r].rows = <<RowOf[op]>>
          \/ lock[e] # r /\ req[r].rows = <<>>
          \/ op = "dismiss" /\ req[r].rows = <<"silently_dismissed">> /\ status[e] # "absent"

Inv == TypeOK /\ \A r \in Request : Handled(r)

-----------------------------------------------------------------------------
\* Needs, Leaves and RowOf at their arguments.
LEMMA Tables ==
  /\ Needs["raise"] = "absent" /\ Needs["acknowledge"] = "unacknowledged"
  /\ Needs["resolve"] = "acknowledged" /\ Needs["dismiss"] = "unacknowledged"
  /\ Leaves["raise"] = "unacknowledged" /\ Leaves["acknowledge"] = "acknowledged"
  /\ Leaves["resolve"] = "resolved"
  /\ RowOf["raise"] = "raised" /\ RowOf["acknowledge"] = "acknowledged"
  /\ RowOf["resolve"] = "resolved" /\ RowOf["dismiss"] = "silently_dismissed"
  BY DEF Needs, Leaves, RowOf

\* The types TypeOK gives, by their names here.
LEMMA Types ==
  ASSUME Inv
  PROVE  /\ status \in [Escalation -> Status] /\ audit \in [Escalation -> Seq(AuditRow)]
         /\ lock \in [Escalation -> Request \cup {None}] /\ req \in [Request -> Req]
         /\ begun \in 0..MaxRequests /\ frames \in [Escalation -> Seq(Status)]
         /\ unheard \subseteq Escalation \X Status /\ racing \in [Escalation -> Nat]
  BY DEF Inv, TypeOK, Req, AuditRow

\* Another request is none the wiser while its locks and the status of what it
\* has locked, or dismissed, are as they were.
LEMMA OthersKeep ==
  ASSUME Inv, NEW p \in Request, req'[p] = req[p],
         \A e \in Escalation : lock'[e] = p <=> lock[e] = p,
         \A e \in Escalation : lock[e] = p => status'[e] = status[e],
         \A e \in Escalation : status[e] # "absent" => status'[e] # "absent"
  PROVE  Handled(p)'
  BY DEF Inv, Handled

\* One request moves and the database does not.
LEMMA OneMoves ==
  ASSUME Inv, NEW r \in Request, NEW x \in Req, req' = [req EXCEPT ![r] = x],
         UNCHANGED <<status, audit, racing>>,
         lock' \in [Escalation -> Request \cup {None}],
         \A e \in Escalation : lock'[e] = lock[e] \/ (lock[e] \in {None, r} /\ lock'[e] \in {None, r}),
         begun' \in 0..MaxRequests, frames' \in [Escalation -> Seq(Status)],
         unheard' \subseteq Escalation \X Status, Handled(r)'
  PROVE  Inv'
<1>1. req \in [Request -> Req]
  BY Types
<1>2. \A p \in Request : Handled(p)'
  <2>1. ASSUME NEW p \in Request, p # r PROVE Handled(p)'
    <3>1. req'[p] = req[p]
      BY <1>1, <2>1
    <3>2. \A e \in Escalation : lock'[e] = p <=> lock[e] = p
      BY <2>1
    <3> QED  BY <3>1, <3>2, OthersKeep
  <2> QED  BY <2>1
<1>3. req' \in [Request -> Req]
  BY <1>1
<1>4. \A e \in Escalation : lock'[e] # None => req'[lock'[e]].esc = e
  BY <1>2 DEF Handled
<1>5. TypeOK'
  BY <1>3, <1>4, Types DEF TypeOK, Req, AuditRow
<1> QED  BY <1>2, <1>5 DEF Inv

\* An idle request has nothing.
LEMMA IdleOK ==
  ASSUME NEW r \in Request, req'[r] = Idle, \A e \in Escalation : lock'[e] # r
  PROVE  Handled(r)'
  BY DEF Handled, Idle

\* A request ends without a commit, and its locks with it.
LEMMA EndInv ==
  ASSUME Inv, NEW r \in Request, End(r), UNCHANGED <<status, audit, racing, begun, unheard>>,
         frames' \in [Escalation -> Seq(Status)],
         lock' = Unlocked(r) \/ (UNCHANGED lock /\ req[r].pc \notin {"audit", "commit"})
  PROVE  Inv'
<1>1. Idle \in Req
  BY DEF Idle, Req, AuditRow
<1>2. /\ req \in [Request -> Req] /\ lock \in [Escalation -> Request \cup {None}]
      /\ begun \in 0..MaxRequests /\ unheard \subseteq Escalation \X Status
  BY Types
<1>3. /\ lock' \in [Escalation -> Request \cup {None}]
      /\ \A e \in Escalation : lock'[e] # r
      /\ \A e \in Escalation : lock'[e] = lock[e] \/ (lock[e] \in {None, r} /\ lock'[e] \in {None, r})
  <2>1. CASE lock' = Unlocked(r)
    BY <1>2, <2>1 DEF Unlocked
  <2>2. CASE UNCHANGED lock /\ req[r].pc \notin {"audit", "commit"}
    BY <1>2, <2>2 DEF Inv, Handled
  <2> QED  BY <2>1, <2>2
<1>4. req' = [req EXCEPT ![r] = Idle] /\ req'[r] = Idle
  BY <1>2 DEF End
<1>5. Handled(r)'
  BY <1>3, <1>4, IdleOK
<1> QED  BY <1>1, <1>2, <1>3, <1>4, <1>5, OneMoves

\* A request arrives.
LEMMA BeginInv ==
  ASSUME Inv, NEW r \in Request, NEW op \in Op, NEW e \in Escalation, Begin(r, op, e)
  PROVE  Inv'
<1> DEFINE x == [pc |-> IF op = "raise" THEN "write" ELSE "read", op |-> op, esc |-> e,
                 rows |-> <<>>]
<1>1. /\ x \in Req /\ x.pc \in {"read", "write"} /\ x.op = op /\ x.esc = e /\ x.rows = <<>>
  BY DEF Req, AuditRow
<1>2. /\ req \in [Request -> Req] /\ lock \in [Escalation -> Request \cup {None}]
      /\ begun' \in 0..MaxRequests /\ unheard \subseteq Escalation \X Status
      /\ frames \in [Escalation -> Seq(Status)]
  BY Types DEF Begin
<1>3. /\ req[r].pc = "idle" /\ req' = [req EXCEPT ![r] = x]
      /\ UNCHANGED <<status, audit, lock, frames, unheard, racing>>
  BY DEF Begin, history
<1> HIDE DEF x
<1>4. req'[r] = x
  BY <1>2, <1>3
<1>5. \A y \in Escalation : lock[y] # r
  BY <1>3 DEF Inv, Handled
<1>6. Handled(r)'
  BY <1>1, <1>3, <1>4, <1>5 DEF Handled
<1> QED  BY <1>1, <1>2, <1>3, <1>6, OneMoves

\* _get_status.
LEMMA GetStatusInv ==
  ASSUME Inv, NEW r \in Request, NEW op \in Op, NEW refused, GetStatus(r, op, refused)
  PROVE  Inv'
<1>1. /\ req \in [Request -> Req] /\ req[r] \in Req /\ begun \in 0..MaxRequests
      /\ lock \in [Escalation -> Request \cup {None}]
      /\ unheard \subseteq Escalation \X Status /\ frames \in [Escalation -> Seq(Status)]
  BY Types
<1>2. /\ req[r].pc = "read" /\ Handled(r)
      /\ UNCHANGED <<status, audit, lock, begun, frames, unheard, racing>>
  BY DEF GetStatus, At, history, Inv
<1>3. CASE End(r)
  BY <1>1, <1>2, <1>3, EndInv
<1>4. CASE Goto(r, "write")
  <2> DEFINE x == [req[r] EXCEPT !.pc = "write"]
  <2>1. /\ x \in Req /\ x.pc = "write" /\ x.op = req[r].op /\ x.esc = req[r].esc
        /\ x.rows = req[r].rows
    BY <1>1 DEF Req
  <2>2. req' = [req EXCEPT ![r] = x]
    BY <1>4 DEF Goto
  <2> HIDE DEF x
  <2>3. req'[r] = x
    BY <1>1, <2>2
  <2>4. Handled(r)'
    BY <1>2, <2>1, <2>3 DEF Handled
  <2> QED  BY <1>1, <1>2, <2>1, <2>2, <2>4, OneMoves
<1> QED  BY <1>3, <1>4 DEF GetStatus

\* The conditional write: the row is locked with the status it matched.
LEMMA WriteInv ==
  ASSUME Inv, NEW r \in Request, NEW op \in Op \ {"dismiss"}, Write(r, op)
  PROVE  Inv'
<1>1. /\ req \in [Request -> Req] /\ req[r] \in Req /\ begun \in 0..MaxRequests
      /\ lock \in [Escalation -> Request \cup {None}]
      /\ unheard \subseteq Escalation \X Status /\ frames \in [Escalation -> Seq(Status)]
  BY Types
<1>2. /\ req[r].pc = "write" /\ req[r].op = op /\ Handled(r)
      /\ UNCHANGED <<status, audit, begun, frames, unheard, racing>>
  BY DEF Write, At, history, Inv
<1>3. PICK e \in Escalation : e = req[r].esc
  BY <1>2 DEF Handled
<1>4. \A y \in Escalation : lock[y] # r
  BY <1>2 DEF Handled
<1>5. ASSUME NEW pc \in {"audit", "commit"}, Goto(r, pc)
      PROVE  \E x \in Req : /\ req' = [req EXCEPT ![r] = x] /\ req'[r] = x
                            /\ x.pc = pc /\ x.op = op /\ x.esc = e /\ x.rows = <<>>
  <2> DEFINE x == [req[r] EXCEPT !.pc = pc]
  <2>1. /\ x \in Req /\ x.pc = pc /\ x.op = op /\ x.esc = e /\ x.rows = <<>>
    BY <1>1, <1>2, <1>3 DEF Req, Handled
  <2>2. req' = [req EXCEPT ![r] = x]
    BY <1>5 DEF Goto
  <2> HIDE DEF x
  <2> QED  BY <1>1, <2>1, <2>2
<1>6. CASE status[e] = Needs[op] /\ lock[e] = None /\ lock' = [lock EXCEPT ![e] = r] /\ Goto(r, "audit")
  <2>1. PICK x \in Req : /\ req' = [req EXCEPT ![r] = x] /\ req'[r] = x
                         /\ x.pc = "audit" /\ x.op = op /\ x.esc = e /\ x.rows = <<>>
    BY <1>5, <1>6
  <2>2. /\ lock' \in [Escalation -> Request \cup {None}]
        /\ \A y \in Escalation : lock'[y] = IF y = e THEN r ELSE lock[y]
    BY <1>1, <1>6
  <2>3. Handled(r)'
    BY <1>2, <1>4, <1>6, <2>1, <2>2 DEF Handled
  <2>4. \A y \in Escalation : lock'[y] = lock[y] \/ (lock[y] \in {None, r} /\ lock'[y] \in {None, r})
    BY <1>6, <2>2
  <2> QED  BY <1>1, <1>2, <2>1, <2>2, <2>3, <2>4, OneMoves
<1>7. CASE UNCHANGED lock /\ Goto(r, "commit")
  <2>1. PICK x \in Req : /\ req' = [req EXCEPT ![r] = x] /\ req'[r] = x
                         /\ x.pc = "commit" /\ x.op = op /\ x.esc = e /\ x.rows = <<>>
    BY <1>5, <1>7
  <2>2. Handled(r)'
    BY <1>2, <1>4, <1>7, <2>1 DEF Handled
  <2> QED  BY <1>1, <1>2, <1>7, <2>1, <2>2, OneMoves
<1> QED  BY <1>3, <1>6, <1>7 DEF Write

\* The audit rows of a transition and of a dismissal.
LEMMA RecordInv ==
  ASSUME Inv, NEW r \in Request, RecordTransition(r) \/ RecordSilentlyDismissed(r)
  PROVE  Inv'
<1>1. /\ req \in [Request -> Req] /\ req[r] \in Req /\ begun \in 0..MaxRequests
      /\ lock \in [Escalation -> Request \cup {None}]
      /\ unheard \subseteq Escalation \X Status /\ frames \in [Escalation -> Seq(Status)]
  BY Types
<1>2. /\ Handled(r) /\ UNCHANGED <<status, audit, lock, begun, frames, unheard, racing>>
  BY DEF RecordTransition, RecordSilentlyDismissed, history, Inv
<1>3. PICK rows \in Seq(AuditRow) :
        /\ req' = [req EXCEPT ![r].pc = "commit", ![r].rows = rows]
        /\ \/ req[r].pc = "audit" /\ rows = <<RowOf[req[r].op]>>
           \/ /\ req[r].pc = "write" /\ req[r].op = "dismiss"
              /\ \/ rows = <<>>
                 \/ rows = <<"silently_dismissed">> /\ status[req[r].esc] # "absent"
  <2>1. CASE RecordTransition(r)
    <3>1. RowOf[req[r].op] \in AuditRow
      BY <1>2, <2>1, Tables DEF RecordTransition, Handled, Op, AuditRow, Transition
    <3> DEFINE rows == <<RowOf[req[r].op]>>
    <3>2. rows \in Seq(AuditRow) /\ rows = <<RowOf[req[r].op]>>
      BY <3>1
    <3>3. req[r].pc = "audit" /\ req' = [req EXCEPT ![r].pc = "commit", ![r].rows = rows]
      BY <2>1 DEF RecordTransition
    <3> HIDE DEF rows
    <3> QED  BY <3>2, <3>3
  <2>2. CASE RecordSilentlyDismissed(r)
    <3>1. <<>> \in Seq(AuditRow) /\ <<"silently_dismissed">> \in Seq(AuditRow)
      BY DEF AuditRow
    <3> DEFINE rows == IF status[req[r].esc] = Needs["dismiss"] THEN <<RowOf["dismiss"]>> ELSE <<>>
    <3>2. /\ rows = <<>> \/ (rows = <<"silently_dismissed">> /\ status[req[r].esc] # "absent")
          /\ rows \in Seq(AuditRow)
      BY <3>1, Tables
    <3>3. /\ req[r].pc = "write" /\ req[r].op = "dismiss"
          /\ req' = [req EXCEPT ![r].pc = "commit", ![r].rows = rows]
      BY <2>2 DEF RecordSilentlyDismissed, At
    <3> HIDE DEF rows
    <3> QED  BY <3>2, <3>3
  <2> QED  BY <2>1, <2>2
<1> DEFINE x == [req[r] EXCEPT !.pc = "commit", !.rows = rows]
<1>4. x \in Req /\ x.pc = "commit" /\ x.op = req[r].op /\ x.esc = req[r].esc /\ x.rows = rows
  BY <1>1 DEF Req
<1>5. req' = [req EXCEPT ![r] = x]
  BY <1>3
<1> HIDE DEF x
<1>6. req'[r] = x
  BY <1>1, <1>5
<1>7. Handled(r)'
  BY <1>2, <1>3, <1>4, <1>6 DEF Handled
<1> QED  BY <1>1, <1>2, <1>4, <1>5, <1>7, OneMoves

-----------------------------------------------------------------------------
(* The commit.                                                               *)

\* A trail gains the rows of the transaction: none or one.
LEMMA TrailGrows ==
  ASSUME NEW s \in Seq(AuditRow), NEW row \in AuditRow
  PROVE  /\ s \o <<>> = s
         /\ s \o <<row>> = Append(s, row)
  OBVIOUS

\* What a commit makes visible: a transition with its row, a dismissal, nothing.
LEMMA VisibleCases ==
  ASSUME Inv, NEW r \in Request, req[r].pc = "commit", Visible(r), NEW e \in Escalation,
         e = req[r].esc
  PROVE  \/ /\ lock[e] = r /\ req[r].op \in {"raise", "acknowledge", "resolve"}
            /\ status[e] = Needs[req[r].op]
            /\ status' = [status EXCEPT ![e] = Leaves[req[r].op]]
            /\ audit' = [audit EXCEPT ![e] = Append(@, RowOf[req[r].op])]
         \/ /\ lock[e] # r /\ req[r].op = "dismiss" /\ status[e] # "absent"
            /\ req[r].rows = <<"silently_dismissed">>
            /\ UNCHANGED <<status, racing>>
            /\ audit' = [audit EXCEPT ![e] = Append(@, "silently_dismissed")]
         \/ lock[e] # r /\ req[r].rows = <<>> /\ UNCHANGED <<status, audit, racing>>
<1>1. audit \in [Escalation -> Seq(AuditRow)] /\ audit[e] \in Seq(AuditRow) /\ Handled(r)
  BY Types DEF Inv
<1>2. audit' = [audit EXCEPT ![e] = audit[e] \o req[r].rows]
  BY DEF Visible
<1>3. CASE lock[e] = r
  <2>1. /\ req[r].op \in {"raise", "acknowledge", "resolve"} /\ status[e] = Needs[req[r].op]
        /\ req[r].rows = <<RowOf[req[r].op]>>
    BY <1>1, <1>3 DEF Handled, Op
  <2>2. RowOf[req[r].op] \in AuditRow
    BY <2>1, Tables DEF AuditRow, Transition
  <2>3. audit[e] \o req[r].rows = Append(audit[e], RowOf[req[r].op])
    BY <1>1, <2>1, <2>2, TrailGrows
  <2>4. status' = [status EXCEPT ![e] = Leaves[req[r].op]]
    BY <1>3 DEF Visible
  <2> QED  BY <1>2, <1>3, <2>1, <2>3, <2>4
<1>4. CASE lock[e] # r /\ req[r].rows = <<>>
  <2>1. audit[e] \o req[r].rows = audit[e]
    BY <1>1, <1>4, TrailGrows DEF AuditRow
  <2>2. audit' = audit
    BY <1>1, <1>2, <2>1
  <2> QED  BY <1>4, <2>2 DEF Visible
<1>5. CASE lock[e] # r /\ req[r].rows # <<>>
  <2>1. req[r].op = "dismiss" /\ req[r].rows = <<"silently_dismissed">> /\ status[e] # "absent"
    BY <1>1, <1>5 DEF Handled
  <2>2. audit[e] \o req[r].rows = Append(audit[e], "silently_dismissed")
    BY <1>1, <2>1, TrailGrows DEF AuditRow
  <2> QED  BY <1>2, <1>5, <2>1, <2>2 DEF Visible
<1> QED  BY <1>3, <1>4, <1>5

\* The commit, answered or not.
LEMMA CommitInv ==
  ASSUME Inv, NEW r \in Request, Commit(r) \/ CommitUnanswered(r)
  PROVE  Inv'
<1>1. /\ req \in [Request -> Req] /\ req[r] \in Req /\ begun \in 0..MaxRequests
      /\ lock \in [Escalation -> Request \cup {None}] /\ status \in [Escalation -> Status]
      /\ audit \in [Escalation -> Seq(AuditRow)] /\ racing \in [Escalation -> Nat]
      /\ unheard \subseteq Escalation \X Status /\ frames \in [Escalation -> Seq(Status)]
  BY Types
<1>2. /\ req[r].pc = "commit" /\ Handled(r) /\ Visible(r) /\ UNCHANGED <<begun, frames>>
  BY DEF Commit, CommitUnanswered, Inv
<1>3. PICK e \in Escalation : e = req[r].esc
  BY <1>2 DEF Handled
<1>4. \/ /\ lock[e] = r /\ req[r].op \in {"raise", "acknowledge", "resolve"}
         /\ status' = [status EXCEPT ![e] = Leaves[req[r].op]]
         /\ audit' = [audit EXCEPT ![e] = Append(@, RowOf[req[r].op])]
      \/ /\ lock[e] # r /\ UNCHANGED status
         /\ audit' = audit \/ audit' = [audit EXCEPT ![e] = Append(@, "silently_dismissed")]
  BY <1>2, <1>3, VisibleCases
<1>5. /\ lock' \in [Escalation -> Request \cup {None}] /\ \A x \in Escalation : lock'[x] # r
      /\ \A p \in Request : p # r => \A x \in Escalation : lock'[x] = p <=> lock[x] = p
  BY <1>1, <1>2 DEF Visible, Unlocked
<1>6. /\ \A x \in Escalation : status'[x] = status[x] \/ (x = e /\ lock[e] = r)
      /\ \A x \in Escalation : status[x] # "absent" => status'[x] # "absent"
      /\ status' \in [Escalation -> Status]
  <2>1. CASE UNCHANGED status
    BY <1>1, <2>1
  <2>2. CASE lock[e] = r /\ req[r].op \in {"raise", "acknowledge", "resolve"}
             /\ status' = [status EXCEPT ![e] = Leaves[req[r].op]]
    <3>1. PICK s \in Status \ {"absent"} : s = Leaves[req[r].op]
      BY <2>2, Tables DEF Status
    <3> QED  BY <1>1, <2>2, <3>1
  <2> QED  BY <1>4, <2>1, <2>2
<1>7. audit' \in [Escalation -> Seq(AuditRow)]
  <2>1. \A row \in AuditRow : [audit EXCEPT ![e] = Append(@, row)] \in [Escalation -> Seq(AuditRow)]
    BY <1>1
  <2>2. "silently_dismissed" \in AuditRow
        /\ (req[r].op \in {"raise", "acknowledge", "resolve"} => RowOf[req[r].op] \in AuditRow)
    BY Tables DEF AuditRow, Transition
  <2> QED  BY <1>1, <1>4, <2>1, <2>2
<1>8. racing' \in [Escalation -> Nat]
  <2>1. IsFiniteSet(Inserted(e)) /\ Cardinality(Inserted(e)) \in Nat
    BY FS_Subset, FS_CardinalityType, Inserted(e) \in SUBSET Request DEF Inserted
  <2>2. racing' = racing \/ racing' = [racing EXCEPT ![e] = Cardinality(Inserted(e))]
    BY <1>2, <1>3 DEF Visible
  <2> QED  BY <1>1, <2>1, <2>2
<1>9. unheard' \subseteq Escalation \X Status
  <2>1. unheard' = unheard \/ (Announces(r) /\ unheard' = unheard \cup {<<e, Leaves[req[r].op]>>})
    BY <1>3 DEF Commit, CommitUnanswered
  <2>2. Announces(r) => Leaves[req[r].op] \in Status
    BY Tables DEF Announces, Status
  <2> QED  BY <1>1, <2>1, <2>2
<1>10. \A p \in Request : p # r => req'[p] = req[p]
  BY <1>1 DEF Commit, CommitUnanswered, Goto, End
<1>11. /\ req'[r] \in Req /\ req'[r].pc \in {"idle", "publish"}
       /\ req'[r].pc = "publish" =>
             Announces(r) /\ req'[r].op = req[r].op /\ req'[r].esc = req[r].esc
  <2>1. CASE End(r)
    BY <1>1, <2>1 DEF End, Idle, Req, AuditRow
  <2>2. CASE Goto(r, "publish") /\ Announces(r)
    <3>1. req'[r] = [req[r] EXCEPT !.pc = "publish"]
      BY <1>1, <2>2 DEF Goto
    <3> QED  BY <1>1, <2>2, <3>1 DEF Req
  <2> QED  BY <2>1, <2>2 DEF Commit, CommitUnanswered
<1>12. req' \in [Request -> Req]
  <2>1. req' = [req EXCEPT ![r] = req'[r]]
    BY <1>1 DEF Commit, CommitUnanswered, Goto, End
  <2> QED  BY <1>1, <1>11, <2>1
<1>13. Handled(r)'
  BY <1>2, <1>5, <1>11 DEF Handled, Announces
<1>14. ASSUME NEW p \in Request, p # r PROVE Handled(p)'
  <2>1. \A x \in Escalation : lock[x] = p => status'[x] = status[x]
    BY <1>6, <1>14
  <2> QED  BY <1>5, <1>6, <1>10, <1>14, <2>1, OthersKeep
<1>15. \A x \in Escalation : lock'[x] # None => req'[lock'[x]].esc = x
  BY <1>5, <1>14 DEF Handled
<1>16. TypeOK'
  BY <1>1, <1>2, <1>5, <1>6, <1>7, <1>8, <1>9, <1>12, <1>15 DEF TypeOK, Req, AuditRow
<1> QED  BY <1>13, <1>14, <1>16 DEF Inv

\* The frame.
LEMMA PublishInv ==
  ASSUME Inv, NEW r \in Request, PublishLifecycle(r)
  PROVE  Inv'
<1>1. /\ req[r].pc = "publish" /\ Handled(r) /\ End(r)
      /\ UNCHANGED <<status, audit, lock, begun, unheard, racing>>
  BY DEF PublishLifecycle, Inv
<1>2. PICK e \in Escalation : e = req[r].esc
  BY <1>1 DEF Handled
<1>3. PICK s \in Status : s = Leaves[req[r].op]
  BY <1>1, Tables DEF Handled, Status
<1>4. frames' = [frames EXCEPT ![e] = Append(@, s)]
  BY <1>2, <1>3 DEF PublishLifecycle
<1>5. frames' \in [Escalation -> Seq(Status)]
  BY <1>4, Types
<1> QED  BY <1>1, <1>5, EndInv

\* The session ends without a commit.
LEMMA RollbackInv ==
  ASSUME Inv, NEW r \in Request, Rollback(r)
  PROVE  Inv'
  BY EndInv, Types DEF Rollback, history

-----------------------------------------------------------------------------
LEMMA InitInv == Init => Inv
<1> SUFFICES ASSUME Init PROVE Inv
  OBVIOUS
<1>1. Idle \in Req /\ Idle.pc = "idle"
  BY DEF Idle, Req, AuditRow
<1>2. req = [r \in Request |-> Idle] /\ \A r \in Request : req[r] = Idle
  BY DEF Init
<1>3. TypeOK
  <2>1. req \in [Request -> Req]
    BY <1>1, <1>2
  <2>2. /\ <<>> \in Seq(AuditRow) /\ <<>> \in Seq(Status)
        /\ "absent" \in Status
    BY DEF Status
  <2> QED  BY <2>1, <2>2 DEF Init, TypeOK, Req, AuditRow
<1>4. \A r \in Request : Handled(r)
  BY <1>1, <1>2 DEF Init, Handled
<1> QED  BY <1>3, <1>4 DEF Inv

LEMMA NextInv == Inv /\ [Next]_vars => Inv'
<1> SUFFICES ASSUME Inv, [Next]_vars PROVE Inv'
  OBVIOUS
<1>1. ASSUME NEW r \in Request, NEW op \in Op, NEW e \in Escalation, Begin(r, op, e) PROVE Inv'
  BY <1>1, BeginInv
<1>2. ASSUME NEW r \in Request, Step(r) PROVE Inv'
  <2>1. CASE ReadForAcknowledge(r) \/ ReadForResolve(r) \/ ReadForDismiss(r)
    BY <2>1, GetStatusInv DEF ReadForAcknowledge, ReadForResolve, ReadForDismiss, Op
  <2>2. CASE InsertEscalation(r) \/ UpdateAcknowledged(r) \/ UpdateResolved(r)
    BY <2>2, WriteInv DEF InsertEscalation, UpdateAcknowledged, UpdateResolved, Op
  <2>3. CASE RecordTransition(r) \/ RecordSilentlyDismissed(r)
    BY <2>3, RecordInv
  <2>4. CASE Commit(r)
    BY <2>4, CommitInv
  <2>5. CASE PublishLifecycle(r)
    BY <2>5, PublishInv
  <2> QED  BY <1>2, <2>1, <2>2, <2>3, <2>4, <2>5 DEF Step
<1>3. ASSUME NEW r \in Request, CommitUnanswered(r) \/ Rollback(r) PROVE Inv'
  BY <1>3, CommitInv, RollbackInv
<1>4. CASE UNCHANGED vars
  <2>1. UNCHANGED <<status, audit, lock, req, begun, frames, unheard, racing>>
    BY <1>4 DEF vars, history
  <2> QED  BY <2>1 DEF Inv, TypeOK, Handled
<1> QED  BY <1>1, <1>2, <1>3, <1>4 DEF Next

\* TypeOK, and what a request has done by the time it is somewhere, of every
\* behaviour.
LEMMA Invariance == Spec => []Inv
  BY InitInv, NextInv, PTL DEF Spec

-----------------------------------------------------------------------------
(* The lifecycle.                                                            *)

\* A step that is no commit leaves the row and the trail alone.
LEMMA OnlyCommitsWrite ==
  ASSUME NEW r \in Request,
         \/ \E op \in Op, e \in Escalation : Begin(r, op, e)
         \/ Step(r) /\ ~ Commit(r)
         \/ Rollback(r)
  PROVE  UNCHANGED <<status, audit>>
  BY DEF Begin, Step, Rollback, ReadForAcknowledge, ReadForResolve, ReadForDismiss, GetStatus,
         InsertEscalation, UpdateAcknowledged, UpdateResolved, Write, RecordTransition,
         RecordSilentlyDismissed, PublishLifecycle

\* A commit is a step of the lifecycle, or none.
LEMMA CommitRefines ==
  ASSUME Inv, NEW r \in Request, req[r].pc = "commit", Visible(r)
  PROVE  Lifecycle!Next \/ UNCHANGED <<status, audit>>
<1>1. PICK e \in Escalation : e = req[r].esc
  BY DEF Inv, Handled
<1>2. CASE /\ req[r].op \in {"raise", "acknowledge", "resolve"}
           /\ status[e] = Needs[req[r].op]
           /\ status' = [status EXCEPT ![e] = Leaves[req[r].op]]
           /\ audit' = [audit EXCEPT ![e] = Append(@, RowOf[req[r].op])]
  <2>1. CASE req[r].op = "raise"
    BY <1>2, <2>1, Tables DEF Lifecycle!Next, Lifecycle!Raise, Lifecycle!Move
  <2>2. CASE req[r].op = "acknowledge"
    BY <1>2, <2>2, Tables DEF Lifecycle!Next, Lifecycle!Acknowledge, Lifecycle!Move
  <2>3. CASE req[r].op = "resolve"
    BY <1>2, <2>3, Tables DEF Lifecycle!Next, Lifecycle!Resolve, Lifecycle!Move
  <2> QED  BY <1>2, <2>1, <2>2, <2>3
<1>3. CASE /\ status[e] # "absent" /\ UNCHANGED status
           /\ audit' = [audit EXCEPT ![e] = Append(@, "silently_dismissed")]
  BY <1>3 DEF Lifecycle!Next, Lifecycle!Dismiss
<1>4. CASE UNCHANGED <<status, audit>>
  BY <1>4
<1> QED  BY <1>1, <1>2, <1>3, <1>4, VisibleCases

\* Whatever requests overlap, whatever they read before they write, and
\* whichever COMMIT goes unanswered or session is rolled back, the row and its
\* audit trail go through the lifecycle together.
THEOREM LifecycleImplemented == Spec => ImplementsLifecycle
<1>1. Init => Lifecycle!Init
  BY DEF Init, Lifecycle!Init
<1>2. Inv /\ [Next]_vars => [Lifecycle!Next]_<<status, audit>>
  <2> SUFFICES ASSUME Inv, [Next]_vars PROVE [Lifecycle!Next]_<<status, audit>>
    OBVIOUS
  <2>1. ASSUME NEW r \in Request, Commit(r) \/ CommitUnanswered(r)
        PROVE  [Lifecycle!Next]_<<status, audit>>
    BY <2>1, CommitRefines DEF Commit, CommitUnanswered
  <2>2. CASE UNCHANGED vars
    BY <2>2 DEF vars
  <2> QED  BY <2>1, <2>2, OnlyCommitsWrite DEF Next
<1> QED  BY <1>1, <1>2, Invariance, PTL DEF Spec, ImplementsLifecycle, Lifecycle!Spec

-----------------------------------------------------------------------------
(* The frames.                                                               *)

\* The transition to s is in the trail, and the row has not been brought back.
Done(e, s) ==
    /\ s \in {"acknowledged", "resolved"}
    /\ status[e] = s \/ (s = "acknowledged" /\ status[e] = "resolved")
    /\ Contains(audit[e], s)

\* A request about to publish a transition is the only one, and no frame has
\* announced it.
Publisher(r) ==
    req[r].pc = "publish" =>
        /\ Done(req[r].esc, Leaves[req[r].op])
        /\ \A i \in DOMAIN frames[req[r].esc] : frames[req[r].esc][i] # Leaves[req[r].op]
        /\ \A p \in Request \ {r} :
              req[p].pc = "publish" /\ req[p].esc = req[r].esc => req[p].op # req[r].op

Announcements ==
    /\ \A e \in Escalation :
          /\ IsInjective(frames[e])
          /\ \A i \in DOMAIN frames[e] : Done(e, frames[e][i])
    /\ \A r \in Request : Publisher(r)

\* A trail only grows.
LEMMA ContainsGrows ==
  ASSUME NEW t \in Seq(AuditRow), NEW row \in AuditRow
  PROVE  /\ Contains(Append(t, row), row)
         /\ \A s : Contains(t, s) => Contains(Append(t, row), s)
         /\ \A s : Contains(Append(t, row), s) => s = row \/ Contains(t, s)
<1>1. /\ Len(Append(t, row)) = Len(t) + 1 /\ Append(t, row)[Len(t) + 1] = row
      /\ \A i \in 1..Len(t) : Append(t, row)[i] = t[i]
      /\ Len(t) \in Nat
  OBVIOUS
<1>2. \A s : Contains(t, s) => Contains(Append(t, row), s)
  BY <1>1 DEF Contains
<1>3. Contains(Append(t, row), row)
  BY <1>1 DEF Contains
<1>4. \A s : Contains(Append(t, row), s) => s = row \/ Contains(t, s)
  BY <1>1 DEF Contains
<1> QED  BY <1>2, <1>3, <1>4

\* What a commit does to the transitions that are done: it adds the one it
\* locked the row for, which was not.
LEMMA CommitDone ==
  ASSUME Inv, NEW r \in Request, req[r].pc = "commit", Visible(r)
  PROVE  /\ \A e \in Escalation : \A s : Done(e, s) => Done(e, s)'
         /\ Announces(r) => /\ ~ Done(req[r].esc, Leaves[req[r].op])
                            /\ \A e \in Escalation :
                                  e = req[r].esc => Done(e, Leaves["acknowledge"])' \/ req[r].op # "acknowledge"
                            /\ \A e \in Escalation :
                                  e = req[r].esc => Done(e, Leaves["resolve"])' \/ req[r].op # "resolve"
<1>1. PICK e \in Escalation : e = req[r].esc
  BY DEF Inv, Handled
<1>2. /\ audit \in [Escalation -> Seq(AuditRow)] /\ audit[e] \in Seq(AuditRow)
      /\ status \in [Escalation -> Status]
  BY Types
<1>3. CASE /\ lock[e] = r /\ req[r].op \in {"raise", "acknowledge", "resolve"}
           /\ status[e] = Needs[req[r].op]
           /\ status' = [status EXCEPT ![e] = Leaves[req[r].op]]
           /\ audit' = [audit EXCEPT ![e] = Append(@, RowOf[req[r].op])]
  <2>1. PICK to \in Status, row \in AuditRow :
           /\ to = Leaves[req[r].op] /\ row = RowOf[req[r].op]
           /\ \/ req[r].op = "raise" /\ status[e] = "absent" /\ to = "unacknowledged"
              \/ req[r].op = "acknowledge" /\ status[e] = "unacknowledged" /\ to = "acknowledged" /\ row = to
              \/ req[r].op = "resolve" /\ status[e] = "acknowledged" /\ to = "resolved" /\ row = to
    BY <1>3, Tables DEF Status, AuditRow, Transition
  <2>2. /\ status'[e] = to /\ audit'[e] = Append(audit[e], row)
        /\ \A x \in Escalation : x # e => status'[x] = status[x] /\ audit'[x] = audit[x]
    BY <1>2, <1>3, <2>1
  <2>3. /\ Contains(audit'[e], row) /\ \A s : Contains(audit[e], s) => Contains(audit'[e], s)
    BY <1>2, <2>2, ContainsGrows
  <2>4. ASSUME NEW x \in Escalation, NEW s, Done(x, s) PROVE Done(x, s)'
    <3>1. CASE x = e
      BY <2>1, <2>2, <2>3, <2>4, <3>1 DEF Done
    <3>2. CASE x # e
      BY <2>2, <2>4, <3>2 DEF Done
    <3> QED  BY <3>1, <3>2
  <2>5. ~ Done(e, to)
    BY <2>1 DEF Done
  <2>6. /\ req[r].op = "acknowledge" => Done(e, "acknowledged")'
        /\ req[r].op = "resolve" => Done(e, "resolved")'
    BY <2>1, <2>2, <2>3 DEF Done
  <2> QED  BY <1>1, <2>1, <2>4, <2>5, <2>6, Tables
<1>4. CASE /\ lock[e] # r /\ UNCHANGED status
           /\ audit' = [audit EXCEPT ![e] = Append(@, "silently_dismissed")]
  <2>1. "silently_dismissed" \in AuditRow
    BY DEF AuditRow
  <2>2. \A x \in Escalation : \A s : Contains(audit[x], s) => Contains(audit'[x], s)
    BY <1>2, <1>4, <2>1, ContainsGrows
  <2> QED  BY <1>1, <1>4, <2>2 DEF Done, Announces
<1>5. CASE lock[e] # r /\ UNCHANGED <<status, audit>>
  BY <1>1, <1>5 DEF Done, Announces
<1> QED  BY <1>1, <1>3, <1>4, <1>5, VisibleCases

\* A step after which whoever publishes was about to, and no frame is sent.
LEMMA QuietAnnouncements ==
  ASSUME Inv, Announcements, UNCHANGED frames,
         \A e \in Escalation : \A s : Done(e, s) => Done(e, s)',
         \A p \in Request : req'[p].pc = "publish" => req'[p] = req[p]
  PROVE  Announcements'
<1>1. ASSUME NEW e \in Escalation
      PROVE  IsInjective(frames[e])' /\ \A i \in DOMAIN frames[e]' : Done(e, frames[e][i])'
  <2>1. frames'[e] = frames[e] /\ IsInjective(frames[e])
    BY DEF Announcements
  <2>2. ASSUME NEW i \in DOMAIN frames[e]' PROVE Done(e, frames[e][i])'
    <3>1. PICK s : s = frames[e][i] /\ Done(e, s)
      BY <2>1, <2>2 DEF Announcements
    <3>2. Done(e, s)' /\ frames'[e][i] = s
      BY <2>1, <3>1
    <3> QED  BY <3>2 DEF Done
  <2> QED  BY <2>1, <2>2
<1>2. ASSUME NEW p \in Request, req'[p].pc = "publish" PROVE Publisher(p)'
  <2>1. req'[p] = req[p] /\ Publisher(p) /\ Handled(p)
    BY <1>2 DEF Inv, Announcements
  <2>2. PICK e \in Escalation : e = req[p].esc
    BY <1>2, <2>1 DEF Handled
  <2>3. PICK s : s = Leaves[req[p].op]
    OBVIOUS
  <2>4. Done(e, s)'
    BY <1>2, <2>1, <2>2, <2>3 DEF Publisher
  <2>5. Done(req[p].esc, Leaves[req[p].op])'
    BY <2>1, <2>2, <2>3, <2>4 DEF Done
  <2> QED  BY <1>2, <2>1, <2>5 DEF Publisher
<1>3. \A p \in Request : Publisher(p)'
  BY <1>2 DEF Publisher
<1> QED  BY <1>1, <1>3, Zenon DEF Announcements

\* A commit: the one that may publish from now on is the first to do so.
LEMMA CommitAnnouncements ==
  ASSUME Inv, Announcements, NEW r \in Request, Commit(r)
  PROVE  Announcements'
<1>1. /\ req \in [Request -> Req] /\ req[r] \in Req /\ req[r].pc = "commit" /\ Visible(r)
      /\ UNCHANGED frames
  BY Types DEF Commit
<1>2. \A p \in Request : p # r => req'[p] = req[p]
  BY <1>1 DEF Commit, Goto, End
<1>3. CASE End(r)
  <2>1. req'[r].pc = "idle"
    BY <1>1, <1>3 DEF End, Idle
  <2> QED  BY <1>1, <1>2, <2>1, CommitDone, QuietAnnouncements
<1>4. CASE Goto(r, "publish") /\ Announces(r)
  <2>1. /\ req'[r].pc = "publish" /\ req'[r].op = req[r].op /\ req'[r].esc = req[r].esc
    BY <1>1, <1>4 DEF Goto, Req
  <2>2. PICK e \in Escalation, s \in {Leaves[req[r].op]} : e = req[r].esc /\ s = Leaves[req[r].op]
    BY <1>1 DEF Inv, Handled
  <2>3. ~ Done(e, s) /\ Done(e, s)' /\ \A x \in Escalation : \A t : Done(x, t) => Done(x, t)'
    <3>1. ~ Done(e, s) /\ \A x \in Escalation : \A t : Done(x, t) => Done(x, t)'
      BY <1>1, <1>4, <2>2, CommitDone
    <3>2. Done(e, s)'
      <4>1. CASE req[r].op = "acknowledge"
        <5>1. Done(e, Leaves["acknowledge"])'
          BY <1>1, <1>4, <2>2, <4>1, CommitDone
        <5>2. Leaves["acknowledge"] = s
          BY <2>2, <4>1
        <5> QED  BY <5>1, <5>2 DEF Done
      <4>2. CASE req[r].op = "resolve"
        <5>1. Done(e, Leaves["resolve"])'
          BY <1>1, <1>4, <2>2, <4>2, CommitDone
        <5>2. Leaves["resolve"] = s
          BY <2>2, <4>2
        <5> QED  BY <5>1, <5>2 DEF Done
      <4> QED  BY <1>4, <4>1, <4>2 DEF Announces
    <3> QED  BY <3>1, <3>2
  <2>4. ASSUME NEW x \in Escalation
        PROVE  IsInjective(frames[x])' /\ \A i \in DOMAIN frames[x]' : Done(x, frames[x][i])'
    <3>1. frames'[x] = frames[x] /\ IsInjective(frames[x])
      BY <1>1 DEF Announcements
    <3>2. ASSUME NEW i \in DOMAIN frames[x]' PROVE Done(x, frames[x][i])'
      <4>1. PICK t : t = frames[x][i] /\ Done(x, t)
        BY <3>1, <3>2 DEF Announcements
      <4>2. Done(x, t)' /\ frames'[x][i] = t
        BY <2>3, <3>1, <4>1
      <4> QED  BY <4>2 DEF Done
    <3> QED  BY <3>1, <3>2
  <2>5. Publisher(r)'
    <3>1. Done(req[r].esc, Leaves[req[r].op])'
      BY <2>1, <2>2, <2>3 DEF Done
    <3>2. \A i \in DOMAIN frames'[req'[r].esc] : frames'[req'[r].esc][i] # Leaves[req'[r].op]
      BY <1>1, <2>1, <2>2, <2>3 DEF Announcements
    <3>3. ASSUME NEW p \in Request \ {r}, req'[p].pc = "publish", req'[p].esc = req'[r].esc
          PROVE  req'[p].op # req'[r].op
      <4>1. req'[p] = req[p] /\ Done(req[p].esc, Leaves[req[p].op])
        BY <1>2, <3>3 DEF Announcements, Publisher
      <4> QED  BY <2>1, <2>2, <2>3, <3>3, <4>1
    <3> QED  BY <3>1, <3>2, <3>3 DEF Publisher
  <2>6. ASSUME NEW p \in Request, p # r, req'[p].pc = "publish" PROVE Publisher(p)'
    <3>1. req'[p] = req[p] /\ Publisher(p) /\ Handled(p)
      BY <1>2, <2>6 DEF Inv, Announcements
    <3>2. PICK x \in Escalation, t \in {Leaves[req[p].op]} : x = req[p].esc /\ t = Leaves[req[p].op] /\ Done(x, t)
      BY <2>6, <3>1 DEF Handled, Publisher
    <3>3. Done(req[p].esc, Leaves[req[p].op])'
      BY <2>3, <3>1, <3>2 DEF Done
    <3>4. req'[r].esc = req'[p].esc => req'[r].op # req'[p].op
      BY <2>1, <2>2, <2>3, <3>1, <3>2
    <3>5. \A q \in Request \ {p} :
            req'[q].pc = "publish" /\ req'[q].esc = req'[p].esc => req'[q].op # req'[p].op
      BY <1>2, <2>6, <3>1, <3>4 DEF Publisher
    <3>6. \A i \in DOMAIN frames'[req'[p].esc] : frames'[req'[p].esc][i] # Leaves[req'[p].op]
      BY <1>1, <2>6, <3>1 DEF Publisher
    <3> QED  BY <3>3, <3>5, <3>6 DEF Publisher
  <2>7. \A p \in Request : Publisher(p)'
    BY <2>5, <2>6 DEF Publisher
  <2> QED  BY <2>4, <2>7, Zenon DEF Announcements
<1> QED  BY <1>3, <1>4 DEF Commit

\* The frame: nobody announces what the publisher has announced.
LEMMA PublishAnnouncements ==
  ASSUME Inv, Announcements, NEW r \in Request, PublishLifecycle(r)
  PROVE  Announcements'
<1>1. /\ req \in [Request -> Req] /\ req[r].pc = "publish" /\ Handled(r) /\ Publisher(r)
      /\ UNCHANGED <<status, audit>> /\ frames \in [Escalation -> Seq(Status)]
  BY Types DEF PublishLifecycle, Inv, Announcements
<1>2. /\ req'[r].pc = "idle" /\ \A p \in Request : p # r => req'[p] = req[p]
  BY <1>1 DEF PublishLifecycle, End, Idle
<1>3. PICK e \in Escalation, s \in Status : e = req[r].esc /\ s = Leaves[req[r].op]
  BY <1>1, Tables DEF Handled, Status
<1>4. /\ Done(e, s) /\ \A i \in DOMAIN frames[e] : frames[e][i] # s
      /\ \A p \in Request \ {r} : req[p].pc = "publish" /\ req[p].esc = e => Leaves[req[p].op] # s
  <2>1. \A p \in Request : req[p].pc = "publish" => req[p].op \in {"acknowledge", "resolve"}
    BY DEF Inv, Handled
  <2> QED  BY <1>1, <1>3, <2>1, Tables DEF Publisher
<1>5. /\ \A x \in Escalation : x # e => frames'[x] = frames[x]
      /\ frames'[e] = Append(frames[e], s) /\ frames[e] \in Seq(Status)
  BY <1>1, <1>3 DEF PublishLifecycle
<1>6. /\ DOMAIN frames'[e] = 1..(Len(frames[e]) + 1) /\ Len(frames[e]) \in Nat
      /\ DOMAIN frames[e] = 1..Len(frames[e])
      /\ frames'[e][Len(frames[e]) + 1] = s
      /\ \A i \in 1..Len(frames[e]) : frames'[e][i] = frames[e][i]
  BY <1>5
<1>7. ASSUME NEW x \in Escalation
      PROVE  IsInjective(frames[x])' /\ \A i \in DOMAIN frames[x]' : Done(x, frames[x][i])'
  <2>1. CASE x # e
    BY <1>1, <1>5, <2>1 DEF Announcements, Done, IsInjective
  <2>2. CASE x = e
    <3>1. IsInjective(frames[e])
      BY DEF Announcements
    <3>2. IsInjective(frames'[e])
      BY <1>4, <1>6, <3>1 DEF IsInjective
    <3>3. ASSUME NEW i \in DOMAIN frames[x]' PROVE Done(x, frames[x][i])'
      <4>1. Done(e, frames'[e][i])
        BY <1>4, <1>6, <2>2, <3>3 DEF Announcements
      <4> QED  BY <1>1, <2>2, <4>1 DEF Done
    <3> QED  BY <2>2, <3>2, <3>3
  <2> QED  BY <2>1, <2>2
<1>8. ASSUME NEW p \in Request, req'[p].pc = "publish" PROVE Publisher(p)'
  <2>1. p # r /\ req'[p] = req[p] /\ Publisher(p) /\ Handled(p)
    BY <1>2, <1>8 DEF Inv, Announcements
  <2>2. Done(req[p].esc, Leaves[req[p].op])'
    BY <1>1, <1>8, <2>1 DEF Publisher, Done
  <2>3. \A i \in DOMAIN frames'[req'[p].esc] : frames'[req'[p].esc][i] # Leaves[req'[p].op]
    <3>1. CASE req[p].esc = e
      BY <1>4, <1>6, <1>8, <2>1, <3>1 DEF Publisher
    <3>2. CASE req[p].esc # e
      BY <1>5, <1>8, <2>1, <3>2 DEF Publisher, Handled
    <3> QED  BY <3>1, <3>2
  <2>4. \A q \in Request \ {p} :
          req'[q].pc = "publish" /\ req'[q].esc = req'[p].esc => req'[q].op # req'[p].op
    BY <1>2, <1>8, <2>1 DEF Publisher
  <2> QED  BY <2>2, <2>3, <2>4 DEF Publisher
<1>9. \A p \in Request : Publisher(p)'
  BY <1>8 DEF Publisher
<1> QED  BY <1>7, <1>9, Zenon DEF Announcements

\* A request that does not commit or publish is not about to publish after it.
LEMMA QuietSteps ==
  ASSUME Inv, NEW r \in Request,
         \/ \E op \in Op, e \in Escalation : Begin(r, op, e)
         \/ Step(r) /\ ~ Commit(r) /\ ~ PublishLifecycle(r)
         \/ Rollback(r)
  PROVE  /\ UNCHANGED <<status, audit, frames, racing>>
         /\ \A p \in Request : p # r => req'[p] = req[p]
         /\ req'[r].pc # "publish"
<1>1. req \in [Request -> Req] /\ req[r] \in Req
  BY Types
<1>2. CASE \E op \in Op, e \in Escalation : Begin(r, op, e)
  BY <1>1, <1>2 DEF Begin, history
<1>3. CASE Rollback(r)
  BY <1>1, <1>3 DEF Rollback, history, End, Idle
<1>4. ASSUME NEW op, NEW refused, GetStatus(r, op, refused)
      PROVE  /\ UNCHANGED <<status, audit, frames, racing>>
             /\ \A p \in Request : p # r => req'[p] = req[p]
             /\ req'[r].pc # "publish"
  BY <1>1, <1>4 DEF GetStatus, history, Goto, End, Idle, Req
<1>5. ASSUME NEW op, Write(r, op)
      PROVE  /\ UNCHANGED <<status, audit, frames, racing>>
             /\ \A p \in Request : p # r => req'[p] = req[p]
             /\ req'[r].pc # "publish"
  BY <1>1, <1>5 DEF Write, history, Goto, Req
<1>6. CASE RecordTransition(r) \/ RecordSilentlyDismissed(r)
  BY <1>1, <1>6 DEF RecordTransition, RecordSilentlyDismissed, history, Req
<1>7. CASE ReadForAcknowledge(r) \/ ReadForResolve(r) \/ ReadForDismiss(r)
  BY <1>4, <1>7 DEF ReadForAcknowledge, ReadForResolve, ReadForDismiss
<1>8. CASE InsertEscalation(r) \/ UpdateAcknowledged(r) \/ UpdateResolved(r)
  BY <1>5, <1>8 DEF InsertEscalation, UpdateAcknowledged, UpdateResolved
<1> QED  BY <1>2, <1>3, <1>6, <1>7, <1>8 DEF Step

LEMMA NextAnnouncements == Inv /\ Announcements /\ [Next]_vars => Announcements'
<1> SUFFICES ASSUME Inv, Announcements, [Next]_vars PROVE Announcements'
  OBVIOUS
<1>1. ASSUME NEW r \in Request, Commit(r) PROVE Announcements'
  BY <1>1, CommitAnnouncements
<1>2. ASSUME NEW r \in Request, PublishLifecycle(r) PROVE Announcements'
  BY <1>2, PublishAnnouncements
<1>3. ASSUME NEW r \in Request, CommitUnanswered(r) PROVE Announcements'
  <2>1. /\ req \in [Request -> Req] /\ req[r].pc = "commit" /\ Visible(r) /\ UNCHANGED frames
        /\ End(r)
    BY <1>3, Types DEF CommitUnanswered
  <2>2. \A p \in Request : req'[p].pc = "publish" => req'[p] = req[p]
    BY <2>1 DEF End, Idle
  <2> QED  BY <2>1, <2>2, CommitDone, QuietAnnouncements
<1>4. ASSUME NEW r \in Request,
             \/ \E op \in Op, e \in Escalation : Begin(r, op, e)
             \/ Step(r) /\ ~ Commit(r) /\ ~ PublishLifecycle(r)
             \/ Rollback(r)
      PROVE  Announcements'
  <2>1. /\ UNCHANGED <<status, audit, frames>>
        /\ \A p \in Request : req'[p].pc = "publish" => req'[p] = req[p]
    BY <1>4, QuietSteps
  <2>2. \A e \in Escalation : \A s : Done(e, s) => Done(e, s)'
    BY <2>1 DEF Done
  <2> QED  BY <2>1, <2>2, QuietAnnouncements
<1>5. CASE UNCHANGED vars
  <2>1. UNCHANGED <<status, audit, frames, req>>
    BY <1>5 DEF vars, history
  <2>2. \A e \in Escalation : \A s : Done(e, s) => Done(e, s)'
    BY <2>1 DEF Done
  <2> QED  BY <2>1, <2>2, QuietAnnouncements
<1> QED  BY <1>1, <1>2, <1>3, <1>4, <1>5 DEF Next

\* A frame announces a committed transition and no transition is announced twice,
\* however many requests race for it.
THEOREM FramesAlwaysFollow == Spec => []FramesFollowCommits
<1>1. Init => Announcements
  <2> SUFFICES ASSUME Init PROVE Announcements
    OBVIOUS
  <2>1. \A e \in Escalation : frames[e] = <<>> /\ DOMAIN frames[e] = {}
    BY DEF Init
  <2>2. \A r \in Request : req[r].pc = "idle"
    BY DEF Init, Idle
  <2> QED  BY <2>1, <2>2 DEF Announcements, Publisher, IsInjective
<1>2. Inv /\ Announcements => FramesFollowCommits
  BY DEF Inv, Announcements, FramesFollowCommits, Done
<1> QED  BY <1>1, <1>2, NextAnnouncements, Invariance, PTL DEF Spec

-----------------------------------------------------------------------------
(* The dismissals.                                                           *)

\* The positions of the dismissals that follow the acknowledgement in a trail.
LateIn(t) ==
    {i \in DOMAIN t : t[i] = "silently_dismissed" /\ \E j \in 1..(i - 1) : t[j] = "acknowledged"}

\* With the status: after the acknowledgement the row does not match a dismissal.
Overlap(e) ==
    Contains(audit[e], "acknowledged") =>
        /\ status[e] \in {"acknowledged", "resolved"}
        /\ Cardinality(LateIn(audit[e])) + Cardinality(Inserted(e)) <= racing[e]

\* What a row adds to the late dismissals of a trail.
LEMMA LateGrows ==
  ASSUME NEW t \in Seq(AuditRow), NEW row \in AuditRow
  PROVE  /\ IsFiniteSet(LateIn(t)) /\ Cardinality(LateIn(t)) \in Nat
         /\ row # "silently_dismissed" => LateIn(Append(t, row)) = LateIn(t)
         /\ Cardinality(LateIn(Append(t, row))) <= Cardinality(LateIn(t)) + 1
         /\ ~ Contains(t, "acknowledged") => Cardinality(LateIn(t)) = 0
<1>1. /\ Len(Append(t, row)) = Len(t) + 1 /\ Append(t, row)[Len(t) + 1] = row
      /\ \A i \in 1..Len(t) : Append(t, row)[i] = t[i]
      /\ Len(t) \in Nat /\ DOMAIN t = 1..Len(t)
      /\ DOMAIN Append(t, row) = 1..(Len(t) + 1)
  OBVIOUS
<1>2. IsFiniteSet(LateIn(t)) /\ Cardinality(LateIn(t)) \in Nat
  <2>1. IsFiniteSet(1..Len(t)) /\ LateIn(t) \subseteq 1..Len(t)
    BY <1>1, FS_Interval DEF LateIn
  <2> QED  BY <2>1, FS_Subset, FS_CardinalityType
<1>3. \A i \in 1..Len(t) : i \in LateIn(Append(t, row)) <=> i \in LateIn(t)
  <2> SUFFICES ASSUME NEW i \in 1..Len(t)
               PROVE  i \in LateIn(Append(t, row)) <=> i \in LateIn(t)
    OBVIOUS
  <2>1. \A j \in 1..(i - 1) : Append(t, row)[j] = t[j]
    BY <1>1
  <2> QED  BY <1>1, <2>1 DEF LateIn
<1>4. LateIn(Append(t, row)) \subseteq 1..(Len(t) + 1) /\ LateIn(t) \subseteq 1..Len(t)
  BY <1>1 DEF LateIn
<1>5. ASSUME row # "silently_dismissed" PROVE LateIn(Append(t, row)) = LateIn(t)
  <2>1. Len(t) + 1 \notin LateIn(Append(t, row))
    BY <1>1, <1>5 DEF LateIn
  <2>2. 1..(Len(t) + 1) = 1..Len(t) \cup {Len(t) + 1}
    BY <1>1
  <2> QED  BY <1>3, <1>4, <2>1, <2>2
<1>6. Cardinality(LateIn(Append(t, row))) <= Cardinality(LateIn(t)) + 1
  <2>1. LateIn(Append(t, row)) \subseteq LateIn(t) \cup {Len(t) + 1}
    BY <1>1, <1>3, <1>4
  <2>2. /\ IsFiniteSet(LateIn(t) \cup {Len(t) + 1})
        /\ Cardinality(LateIn(t) \cup {Len(t) + 1}) <= Cardinality(LateIn(t)) + 1
    <3> DEFINE n == Len(t) + 1
    <3> HIDE DEF n
    <3>1. /\ IsFiniteSet(LateIn(t) \cup {n})
          /\ \/ Cardinality(LateIn(t) \cup {n}) = Cardinality(LateIn(t)) + 1
             \/ Cardinality(LateIn(t) \cup {n}) = Cardinality(LateIn(t))
      BY <1>2, FS_AddElement
    <3> QED  BY <1>2, <3>1 DEF n
  <2>3. Cardinality(LateIn(Append(t, row))) <= Cardinality(LateIn(t) \cup {Len(t) + 1})
    BY <2>1, <2>2, FS_Subset
  <2>4. /\ Cardinality(LateIn(t) \cup {Len(t) + 1}) \in Nat
        /\ Cardinality(LateIn(Append(t, row))) \in Nat
    BY <2>1, <2>2, FS_Subset, FS_CardinalityType
  <2> QED  BY <1>2, <2>2, <2>3, <2>4
<1>7. ASSUME ~ Contains(t, "acknowledged") PROVE Cardinality(LateIn(t)) = 0
  <2>1. LateIn(t) = {}
    BY <1>1, <1>7 DEF LateIn, Contains
  <2> QED  BY <2>1, FS_EmptySet
<1> QED  BY <1>2, <1>5, <1>6, <1>7

\* A set of requests is finite, and a part of one counts no more.
LEMMA InsertedFinite ==
  ASSUME NEW S \in SUBSET Request, NEW T \in SUBSET S
  PROVE  /\ IsFiniteSet(S) /\ IsFiniteSet(T)
         /\ Cardinality(S) \in Nat /\ Cardinality(T) \in Nat /\ Cardinality(T) <= Cardinality(S)
         /\ \A r \in S : Cardinality(S \ {r}) = Cardinality(S) - 1
  BY FS_Subset, FS_CardinalityType, FS_RemoveElement

\* A step that adds no audit row, for what is acknowledged.
LEMMA OverlapKept ==
  ASSUME NEW e \in Escalation, Overlap(e), Inv,
         status'[e] = status[e], audit'[e] = audit[e], racing'[e] = racing[e],
         Contains(audit[e], "acknowledged") => Inserted(e)' \subseteq Inserted(e)
  PROVE  Overlap(e)'
<1> SUFFICES ASSUME Contains(audit[e], "acknowledged") PROVE Overlap(e)'
  BY DEF Overlap
<1>1. Inserted(e) \in SUBSET Request /\ Inserted(e)' \in SUBSET Inserted(e)
  BY DEF Inserted
<1>2. /\ Cardinality(Inserted(e)) \in Nat /\ Cardinality(Inserted(e)') \in Nat
      /\ Cardinality(Inserted(e)') <= Cardinality(Inserted(e))
  BY <1>1, InsertedFinite
<1>3. Cardinality(LateIn(audit[e])) \in Nat /\ racing[e] \in Nat
  BY Types, LateGrows DEF AuditRow
<1> QED  BY <1>2, <1>3 DEF Overlap

\* Only a dismissal that finds the row unacknowledged inserts its row.
LEMMA QuietInserts ==
  ASSUME Inv, NEW r \in Request, NEW e \in Escalation, status[e] # "unacknowledged",
         \/ \E op \in Op, x \in Escalation : Begin(r, op, x)
         \/ Step(r) /\ ~ Commit(r)
         \/ CommitUnanswered(r) \/ Commit(r)
         \/ Rollback(r)
  PROVE  Inserted(e)' \subseteq Inserted(e)
<1>1. req \in [Request -> Req] /\ req[r] \in Req /\ Handled(r)
  BY Types DEF Inv
<1>2. \A p \in Request : p # r => req'[p] = req[p]
  BY <1>1 DEF Begin, Step, Rollback, ReadForAcknowledge, ReadForResolve, ReadForDismiss,
              GetStatus, InsertEscalation, UpdateAcknowledged, UpdateResolved, Write,
              RecordTransition, RecordSilentlyDismissed, PublishLifecycle, Commit,
              CommitUnanswered, Goto, End
<1>3. ASSUME req'[r].pc = "commit", req'[r].op = "dismiss", req'[r].esc = e,
             req'[r].rows # <<>>
      PROVE  FALSE
  <2>1. CASE \/ \E op \in Op, x \in Escalation : Begin(r, op, x)
             \/ Rollback(r) \/ CommitUnanswered(r) \/ Commit(r) \/ PublishLifecycle(r)
             \/ ReadForAcknowledge(r) \/ ReadForResolve(r) \/ ReadForDismiss(r)
    <3>1. End(r) \/ Goto(r, "write") \/ Goto(r, "publish")
          \/ \E op \in Op, x \in Escalation : Begin(r, op, x)
      BY <2>1 DEF Rollback, CommitUnanswered, Commit, PublishLifecycle,
                  ReadForAcknowledge, ReadForResolve, ReadForDismiss, GetStatus
    <3> QED  BY <1>1, <1>3, <3>1 DEF End, Idle, Goto, Begin, Req
  <2>2. ASSUME NEW op \in Op \ {"dismiss"}, Write(r, op) PROVE FALSE
    BY <1>1, <1>3, <2>2 DEF Write, Goto, At, Req
  <2>3. CASE RecordTransition(r)
    BY <1>1, <1>3, <2>3 DEF RecordTransition, Handled, Req
  <2>4. CASE RecordSilentlyDismissed(r)
    <3>1. req'[r].esc = req[r].esc
          /\ req'[r].rows = IF status[req[r].esc] = "unacknowledged" THEN <<RowOf["dismiss"]>> ELSE <<>>
      BY <1>1, <2>4, Tables DEF RecordSilentlyDismissed, Req
    <3> QED  BY <1>3, <3>1
  <2>5. CASE InsertEscalation(r) \/ UpdateAcknowledged(r) \/ UpdateResolved(r)
    BY <2>2, <2>5 DEF InsertEscalation, UpdateAcknowledged, UpdateResolved, Op
  <2> QED  BY <2>1, <2>3, <2>4, <2>5 DEF Step
<1> QED  BY <1>2, <1>3 DEF Inserted, At

\* A commit: an acknowledgement starts the count with the dismissals inserted by
\* then, and each of those moves from the inserted to the late.
LEMMA CommitOverlap ==
  ASSUME Inv, NEW r \in Request, Commit(r) \/ CommitUnanswered(r),
         NEW e \in Escalation, Overlap(e)
  PROVE  Overlap(e)'
<1>1. /\ req \in [Request -> Req] /\ req[r].pc = "commit" /\ Visible(r) /\ Handled(r)
      /\ audit \in [Escalation -> Seq(AuditRow)] /\ audit[e] \in Seq(AuditRow)
      /\ status \in [Escalation -> Status] /\ racing \in [Escalation -> Nat]
  BY Types DEF Commit, CommitUnanswered, Inv
<1>2. Inserted(e)' \subseteq Inserted(e) \ {r} /\ Inserted(e) \in SUBSET Request
  <2>1. End(r) \/ Goto(r, "publish")
    BY DEF Commit, CommitUnanswered
  <2>2. req'[r].pc # "commit"
    BY <1>1, <2>1 DEF Goto, End, Idle, Req
  <2>3. \A p \in Request : p # r => req'[p] = req[p]
    BY <1>1, <2>1 DEF Goto, End
  <2> QED  BY <2>2, <2>3 DEF Inserted, At
<1>3. /\ Cardinality(Inserted(e)) \in Nat /\ Cardinality(Inserted(e)') \in Nat
      /\ Cardinality(Inserted(e)') <= Cardinality(Inserted(e))
      /\ r \in Inserted(e) => Cardinality(Inserted(e)') <= Cardinality(Inserted(e)) - 1
  <2>1. Inserted(e)' \in SUBSET Inserted(e) /\ Inserted(e) \ {r} \in SUBSET Request
        /\ Inserted(e)' \in SUBSET (Inserted(e) \ {r})
    BY <1>2
  <2> QED  BY <1>2, <2>1, InsertedFinite
<1>4. PICK x \in Escalation : x = req[r].esc
  BY <1>1 DEF Handled
<1>5. CASE x # e
  <2>1. status'[e] = status[e] /\ audit'[e] = audit[e] /\ racing'[e] = racing[e]
    BY <1>1, <1>4, <1>5 DEF Visible
  <2> QED  BY <1>2, <2>1, OverlapKept
<1>6. CASE x = e /\ lock[e] # r /\ UNCHANGED <<status, audit, racing>>
  BY <1>2, <1>6, OverlapKept
<1>7. CASE /\ x = e /\ lock[e] # r /\ req[r].op = "dismiss" /\ UNCHANGED <<status, racing>>
           /\ req[r].rows = <<"silently_dismissed">>
           /\ audit' = [audit EXCEPT ![e] = Append(@, "silently_dismissed")]
  <2>1. audit'[e] = Append(audit[e], "silently_dismissed") /\ "silently_dismissed" \in AuditRow
    BY <1>1, <1>7 DEF AuditRow
  <2>2. r \in Inserted(e)
    <3>1. <<"silently_dismissed">> # <<>>
      OBVIOUS
    <3> QED  BY <1>1, <1>4, <1>7, <3>1, Zenon DEF Inserted, At
  <2>3. /\ Cardinality(LateIn(audit[e])) \in Nat
        /\ Cardinality(LateIn(audit'[e])) <= Cardinality(LateIn(audit[e])) + 1
        /\ Cardinality(LateIn(audit'[e])) \in Nat
    <3>1. audit'[e] \in Seq(AuditRow)
      BY <1>1, <2>1
    <3> QED  BY <1>1, <2>1, <3>1, LateGrows
  <2>4. Contains(audit'[e], "acknowledged") => Contains(audit[e], "acknowledged")
    BY <1>1, <2>1, ContainsGrows
  <2> QED  BY <1>1, <1>3, <1>7, <2>2, <2>3, <2>4 DEF Overlap
<1>8. CASE /\ x = e /\ lock[e] = r /\ req[r].op \in {"raise", "acknowledge", "resolve"}
           /\ status[e] = Needs[req[r].op]
           /\ status' = [status EXCEPT ![e] = Leaves[req[r].op]]
           /\ audit' = [audit EXCEPT ![e] = Append(@, RowOf[req[r].op])]
  <2>1. CASE req[r].op = "raise"
    <3>1. status[e] = "absent" /\ audit'[e] = Append(audit[e], "raised") /\ "raised" \in AuditRow
      BY <1>1, <1>8, <2>1, Tables DEF AuditRow, Transition
    <3>2. Contains(audit'[e], "acknowledged") => Contains(audit[e], "acknowledged")
      BY <1>1, <3>1, ContainsGrows
    <3> QED  BY <3>1, <3>2 DEF Overlap
  <2>2. CASE req[r].op = "acknowledge"
    <3>1. /\ status[e] = "unacknowledged" /\ status'[e] = "acknowledged"
          /\ audit'[e] = Append(audit[e], "acknowledged") /\ "acknowledged" \in AuditRow
      BY <1>1, <1>8, <2>2, Tables DEF AuditRow, Transition
    <3>2. racing'[e] = Cardinality(Inserted(e))
      BY <1>1, <1>4, <1>8, <2>2 DEF Visible
    <3>3. Cardinality(LateIn(audit'[e])) = 0
      BY <1>1, <3>1, LateGrows DEF Overlap
    <3> QED  BY <1>3, <3>1, <3>2, <3>3 DEF Overlap
  <2>3. CASE req[r].op = "resolve"
    <3>1. /\ status[e] = "acknowledged" /\ status'[e] = "resolved"
          /\ audit'[e] = Append(audit[e], "resolved") /\ "resolved" \in AuditRow
      BY <1>1, <1>8, <2>3, Tables DEF AuditRow, Transition
    <3>2. racing'[e] = racing[e]
      BY <1>1, <2>3 DEF Visible
    <3>3. /\ LateIn(audit'[e]) = LateIn(audit[e]) /\ Cardinality(LateIn(audit[e])) \in Nat
          /\ Contains(audit'[e], "acknowledged") => Contains(audit[e], "acknowledged")
      BY <1>1, <3>1, LateGrows, ContainsGrows
    <3> QED  BY <1>1, <1>3, <3>1, <3>2, <3>3 DEF Overlap
  <2> QED  BY <1>8, <2>1, <2>2, <2>3
<1> QED  BY <1>1, <1>4, <1>5, <1>6, <1>7, <1>8, VisibleCases

LEMMA NextOverlap ==
  Inv /\ (\A e \in Escalation : Overlap(e)) /\ [Next]_vars => (\A e \in Escalation : Overlap(e))'
<1> SUFFICES ASSUME Inv, [Next]_vars, NEW e \in Escalation, Overlap(e) PROVE Overlap(e)'
  OBVIOUS
<1>1. ASSUME NEW r \in Request, Commit(r) \/ CommitUnanswered(r) PROVE Overlap(e)'
  BY <1>1, CommitOverlap
<1>2. ASSUME NEW r \in Request,
             \/ \E op \in Op, x \in Escalation : Begin(r, op, x)
             \/ Step(r) /\ ~ Commit(r)
             \/ Rollback(r)
      PROVE  Overlap(e)'
  <2>1. UNCHANGED <<status, audit, racing>>
    <3>1. CASE PublishLifecycle(r)
      BY <3>1 DEF PublishLifecycle
    <3> QED  BY <1>2, <3>1, QuietSteps
  <2>2. Contains(audit[e], "acknowledged") => Inserted(e)' \subseteq Inserted(e)
    BY <1>2, QuietInserts DEF Overlap
  <2> QED  BY <2>1, <2>2, OverlapKept
<1>3. CASE UNCHANGED vars
  BY <1>3 DEF vars, history, Overlap, Inserted, At
<1> QED  BY <1>1, <1>2, <1>3 DEF Next

\* D-2, for any number of racing requests: a dismissal that follows the
\* acknowledgement in the trail was inserted before the acknowledgement committed.
THEOREM LateDismissalsAlwaysOverlap == Spec => []LateDismissalsOverlap
<1>1. Init => \A e \in Escalation : Overlap(e)
  BY DEF Init, Overlap, Contains
<1>2. (\A e \in Escalation : Overlap(e)) => LateDismissalsOverlap
  BY DEF Overlap, LateDismissalsOverlap, Late, LateIn
<1> QED  BY <1>1, <1>2, NextOverlap, Invariance, PTL DEF Spec

=============================================================================
