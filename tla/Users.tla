-------------------------------- MODULE Users ---------------------------------
(***************************************************************************)
(* cloud-backend's user administration: create, patch and reset-password   *)
(* behind the admin gate, each one transaction that writes the users row   *)
(* and its user_audit rows, and the guard that keeps an active admin.      *)
(* Every statement is a yield point.                                       *)
(*                                                                         *)
(* PostgreSQL at READ COMMITTED is external: SELECT ... FOR UPDATE takes   *)
(* the rows its snapshot matches one by one in the order of its scan,      *)
(* waits for each, and keeps those that still match; a write waits for the *)
(* row, an INSERT for the uncommitted INSERT of the same username; a cycle *)
(* of waits is broken by aborting one.  usernames are unique (index), so a *)
(* user is named by its username.                                          *)
(***************************************************************************)
EXTENDS Integers, Sequences, SequencesExt

CONSTANTS
    User, Request,
    Tables,       \* the users tables to start from, each with an active admin
    Bodies,       \* the PATCH bodies: role and is_active, None when not given
    MaxRequests,  \* bound on requests that pass the gate
    None

Role == {"admin", "operator"}
Row == [role : Role, active : BOOLEAN]
Body == [role : Role \cup {None}, active : BOOLEAN \cup {None}]

ASSUME UsersAssumption ==
    /\ Tables \subseteq [User -> Row \cup {None}]
    /\ \A table \in Tables : \E u \in User : table[u] = [role |-> "admin", active |-> TRUE]
    /\ Bodies \subseteq Body
    /\ IsFiniteSet(User)
    /\ MaxRequests \in Nat /\ None \notin Request /\ None \notin Row

VARIABLES
    row,      \* users, as committed
    lock,     \* row locks
    req,      \* the requests being handled
    token,    \* users with a token that claims the role admin; none expires
    begun

VARIABLES     \* history
    trail,    \* what the last committed user_audit rows say of a user
    crossed   \* a user became an active admin between another request's read of
              \* that user and its write

vars == <<row, lock, req, token, begun, trail, crossed>>

Exists(u) == row[u] # None
ActiveAdmin(u) == Exists(u) /\ row[u].role = "admin" /\ row[u].active
ActiveAdmins == {u \in User : ActiveAdmin(u)}

Idle == [pc |-> "idle", op |-> None, target |-> None, body |-> None, seen |-> None,
         scan |-> <<>>, ids |-> {}]

TypeOK ==
    /\ row \in [User -> Row \cup {None}] /\ trail \in [User -> Row \cup {None}]
    /\ lock \in [User -> Request \cup {None}]
    /\ \A r \in Request :
        /\ req[r].pc \in {"idle", "read", "guard", "scan", "write", "commit"}
        /\ req[r].scan \in Seq(User) /\ req[r].ids \subseteq User
        /\ req[r].pc = "idle" => \A u \in User : lock[u] # r
    /\ token \subseteq User /\ begun \in 0..MaxRequests /\ crossed \in BOOLEAN

Init ==
    /\ row \in Tables /\ trail = row
    /\ lock = [u \in User |-> None]
    /\ req = [r \in Request |-> Idle]
    /\ token = ActiveAdmins /\ begun = 0 /\ crossed = FALSE

At(r, pc) == req[r].pc = pc
End(r) == req' = [req EXCEPT ![r] = Idle]

Released(r) == [u \in User |-> IF lock[u] = r THEN None ELSE lock[u]]

-----------------------------------------------------------------------------
(* Tokens and the gate.                                                      *)

\* The role claim is the role at login (an operator's token opens nothing here).
Login(u) ==
    /\ ActiveAdmin(u) /\ u \notin token
    /\ token' = token \cup {u}
    /\ UNCHANGED <<row, lock, req, begun, trail, crossed>>

\* require_role("admin") looks at the claim, assert_user_active at the row.
Admitted == \E actor \in token : Exists(actor) /\ row[actor].active

Begin(r, op, u, body) ==
    /\ At(r, "idle") /\ Admitted
    /\ begun < MaxRequests
    /\ begun' = begun + 1
    /\ req' = [req EXCEPT ![r] = [Idle EXCEPT !.pc = "read", !.op = op, !.target = u,
                                              !.body = body]]
    /\ UNCHANGED <<row, lock, token, trail, crossed>>

-----------------------------------------------------------------------------
(* create_user_endpoint                                                      *)

\* The pre-check: 409 when the name is taken.
CheckName(r) ==
    /\ At(r, "read") /\ req[r].op = "create"
    /\ IF Exists(req[r].target) THEN End(r) ELSE req' = [req EXCEPT ![r].pc = "write"]
    /\ UNCHANGED <<row, lock, token, begun, trail, crossed>>

\* INSERT and audit; IntegrityError, a rollback and 409 when the name was taken
\* since.
InsertUser(r) ==
    LET u == req[r].target
    IN /\ At(r, "write") /\ req[r].op = "create"
       /\ lock[u] = None
       /\ IF Exists(u)
          THEN End(r) /\ UNCHANGED lock
          ELSE req' = [req EXCEPT ![r].pc = "commit"] /\ lock' = [lock EXCEPT ![u] = r]
       /\ UNCHANGED <<row, token, begun, trail, crossed>>

-----------------------------------------------------------------------------
(* patch_user and reset_password                                             *)

Given(new, old) == new # None /\ new # old

\* The columns the UPDATE sets, by what was read.
Sets(r) ==
    [role |-> Given(req[r].body.role, req[r].seen.role),
     active |-> Given(req[r].body.active, req[r].seen.active)]

Guarded(body, seen) ==
    \/ body.active = FALSE /\ seen.role = "admin"
    \/ Given(body.role, "admin") /\ seen.role = "admin"

\* _load_user: 404, or on to the guard or the UPDATE.
LoadUser(r) ==
    LET u == req[r].target
        pc == IF req[r].op = "patch" /\ Guarded(req[r].body, row[u]) THEN "guard" ELSE "write"
    IN /\ At(r, "read") /\ req[r].op # "create"
       /\ IF ~ Exists(u) THEN End(r)
          ELSE req' = [req EXCEPT ![r].seen = row[u], ![r].pc = pc]
       /\ UNCHANGED <<row, lock, token, begun, trail, crossed>>

\* _would_orphan_admins: the snapshot, in whatever order the scan has.
GuardStart(r) ==
    /\ At(r, "guard")
    /\ \E order \in SetToSeqs(ActiveAdmins) :
          req' = [req EXCEPT ![r].pc = "scan", ![r].scan = order]
    /\ UNCHANGED <<row, lock, token, begun, trail, crossed>>

\* A mutant: a plain SELECT takes no locks.
GuardReads(r) ==
    /\ At(r, "scan") /\ req[r].scan # <<>>
    /\ req' = [req EXCEPT ![r].scan = Tail(@), ![r].ids = @ \cup {Head(req[r].scan)}]
    /\ UNCHANGED <<row, lock, token, begun, trail, crossed>>

\* FOR UPDATE: the next row, once it is free; it counts if it still matches.
GuardLocks(r) ==
    LET u == Head(req[r].scan)
    IN /\ At(r, "scan") /\ req[r].scan # <<>>
       /\ lock[u] \in {None, r}
       /\ lock' = [lock EXCEPT ![u] = r]
       /\ req' = [req EXCEPT ![r].scan = Tail(@),
                             ![r].ids = IF ActiveAdmin(u) THEN @ \cup {u} ELSE @]
       /\ UNCHANGED <<row, token, begun, trail, crossed>>

\* 409 for the last active admin.
GuardDecides(r) ==
    /\ At(r, "scan") /\ req[r].scan = <<>>
    /\ IF req[r].ids = {req[r].target}
       THEN End(r) /\ lock' = Released(r)
       ELSE req' = [req EXCEPT ![r].pc = "write"] /\ UNCHANGED lock
    /\ UNCHANGED <<row, token, begun, trail, crossed>>

\* Nothing to set by what was read: the answer is the row as read.
NoOp(r) ==
    /\ At(r, "write") /\ req[r].op = "patch"
    /\ ~ Sets(r).role /\ ~ Sets(r).active
    /\ End(r) /\ lock' = Released(r)
    /\ UNCHANGED <<row, token, begun, trail, crossed>>

\* A mutant: the guard's locks belong to another session.
PatchElsewhere(r) ==
    LET u == req[r].target
    IN /\ At(r, "write") /\ req[r].op = "patch"
       /\ Sets(r).role \/ Sets(r).active
       /\ lock[u] = None
       /\ lock' = [lock EXCEPT ![u] = r]
       /\ req' = [req EXCEPT ![r].pc = "commit"]
       /\ UNCHANGED <<row, token, begun, trail, crossed>>

\* The UPDATE and the audit rows: one per column that is set.
PatchUser(r) ==
    LET u == req[r].target
    IN /\ At(r, "write") /\ req[r].op = "patch"
       /\ Sets(r).role \/ Sets(r).active
       /\ lock[u] \in {None, r}
       /\ lock' = [lock EXCEPT ![u] = r]
       /\ req' = [req EXCEPT ![r].pc = "commit"]
       /\ UNCHANGED <<row, token, begun, trail, crossed>>

ResetPassword(r) ==
    LET u == req[r].target
    IN /\ At(r, "write") /\ req[r].op = "reset"
       /\ lock[u] \in {None, r}
       /\ lock' = [lock EXCEPT ![u] = r]
       /\ req' = [req EXCEPT ![r].pc = "commit"]
       /\ UNCHANGED <<row, token, begun, trail, crossed>>

-----------------------------------------------------------------------------
(* Transactions.                                                             *)

\* The row after r's write.
Written(r, old) ==
    CASE req[r].op = "create" -> [role |-> req[r].body.role, active |-> TRUE]
      [] req[r].op = "patch" -> [old EXCEPT !.role = IF Sets(r).role THEN req[r].body.role ELSE @,
                                            !.active = IF Sets(r).active THEN req[r].body.active
                                                       ELSE @]
      [] req[r].op = "reset" -> old

\* A mutant: one audit row per PATCH, for the role if it changed.
AuditedOnce(r, old) ==
    IF req[r].op = "patch" /\ Sets(r).role
    THEN [old EXCEPT !.role = req[r].body.role]
    ELSE Written(r, old)

\* What r's audit rows say: create, role_change, (de|re)activate, password_reset.
Audited(r, old) ==
    CASE req[r].op = "create" -> [role |-> req[r].body.role, active |-> TRUE]
      [] req[r].op = "patch" ->
            [old EXCEPT !.role = IF Sets(r).role THEN req[r].body.role ELSE @,
                        !.active = IF Sets(r).active THEN req[r].body.active = TRUE ELSE @]
      [] req[r].op = "reset" -> old

\* The others that have read u and have yet to write it.
Readers(r, u) ==
    {p \in Request \ {r} : req[p].target = u /\ req[p].seen # None
                           /\ req[p].pc \in {"guard", "scan", "write"}}

Commit(r) ==
    LET u == req[r].target
    IN /\ At(r, "commit")
       /\ row' = [row EXCEPT ![u] = Written(r, @)]
       /\ trail' = [trail EXCEPT ![u] = Audited(r, @)]
       /\ crossed' = (crossed \/ (~ ActiveAdmin(u) /\ Readers(r, u) # {}
                                  /\ row'[u].role = "admin" /\ row'[u].active))
       /\ lock' = Released(r)
       /\ End(r)
       /\ UNCHANGED <<token, begun>>

\* A statement raises, the connection breaks or the process dies.
Rollback(r) ==
    /\ ~ At(r, "idle")
    /\ lock' = Released(r)
    /\ End(r)
    /\ UNCHANGED <<row, token, begun, trail, crossed>>

\* The row r needs next is locked by p.
WaitsFor(r, p) ==
    /\ p # r
    /\ \/ At(r, "scan") /\ req[r].scan # <<>> /\ lock[Head(req[r].scan)] = p
       \/ At(r, "write") /\ lock[req[r].target] = p

\* deadlock_timeout: one of a cycle is aborted.
DeadlockAbort(r) ==
    /\ \E S \in SUBSET Request : r \in S /\ \A p \in S : \E q \in S : WaitsFor(p, q)
    /\ Rollback(r)

-----------------------------------------------------------------------------
Step(r) ==
    \/ CheckName(r) \/ InsertUser(r)
    \/ LoadUser(r) \/ GuardStart(r) \/ GuardLocks(r) \/ GuardDecides(r)
    \/ NoOp(r) \/ PatchUser(r) \/ ResetPassword(r)
    \/ Commit(r)

Next ==
    \/ \E u \in User : Login(u)
    \/ \E r \in Request :
        \/ \E u \in User :
            \/ \E role \in Role : Begin(r, "create", u, [role |-> role, active |-> None])
            \/ \E body \in Bodies : Begin(r, "patch", u, body)
            \/ Begin(r, "reset", u, None)
        \/ Step(r) \/ Rollback(r) \/ DeadlockAbort(r)

Spec == Init /\ [][Next]_vars

\* PostgreSQL answers, and breaks deadlocks; row locks are granted in turn, so a
\* request whose row is free again and again gets it.
FairSpec ==
    Spec /\ \A r \in Request : SF_vars(Step(r)) /\ WF_vars(DeadlockAbort(r))

-----------------------------------------------------------------------------
(* Properties.                                                               *)

\* Lock-out guard (D3/AC6): whatever deactivations, demotions, reactivations and
\* creations overlap, an active admin is left; only when a user is promoted or
\* reactivated between another request's read of that user and its write is this
\* not so.
AdminRemains == crossed \/ ActiveAdmins # {}

\* AC5: replaying the audit rows in the order of their commits gives the users
\* table, whatever rolled back, lost a race or worked from a stale read.
TrailReplays == TypeOK /\ trail = row

\* No request hangs on row locks: waits end, and deadlocks between scans of the
\* admin rows are broken.
RequestsEnd == \A r \in Request : req[r].pc # "idle" ~> req[r].pc = "idle"
=============================================================================
