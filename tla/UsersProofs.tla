------------------------------ MODULE UsersProofs -----------------------------
(***************************************************************************)
(* For any number of users, requests and overlapping transactions: the     *)
(* lock-out guard leaves an active admin, and the audit rows replay to the *)
(* users table.                                                            *)
(***************************************************************************)
EXTENDS Users, FiniteSetTheorems, TLAPS

USE UsersAssumption

Req == [pc : {"idle", "read", "guard", "scan", "write", "commit"},
        op : {"create", "patch", "reset", None}, target : User \cup {None},
        body : Body \cup {None}, seen : Row \cup {None},
        scan : Seq(User), ids : SUBSET User]

Types ==
    /\ row \in [User -> Row \cup {None}] /\ trail \in [User -> Row \cup {None}]
    /\ lock \in [User -> Request \cup {None}]
    /\ req \in [Request -> Req]
    /\ token \subseteq User /\ begun \in 0..MaxRequests /\ crossed \in BOOLEAN

Loaded(r) == req[r].pc \in {"guard", "scan", "write", "commit"} /\ req[r].op # "create"

\* What a request has got together by the time it is somewhere.
Handled(r) ==
    /\ req[r].pc \in {"idle", "read", "guard"} \/ (req[r].pc = "write" /\ req[r].op = "create") =>
          \A u \in User : lock[u] # r
    /\ req[r].pc # "idle" =>
          /\ req[r].target \in User /\ req[r].op \in {"create", "patch", "reset"}
          /\ req[r].op = "create" => req[r].body \in Body /\ req[r].body.role \in Role
          /\ req[r].op = "patch" => req[r].body \in Body
    /\ req[r].pc \in {"guard", "scan"} => req[r].op = "patch"
    /\ req[r].pc \in {"read", "guard"} => req[r].ids = {}
    /\ Loaded(r) => req[r].seen \in Row /\ row[req[r].target] # None
    /\ req[r].pc = "commit" =>
          /\ lock[req[r].target] = r
          /\ req[r].op = "create" => row[req[r].target] = None

(* The guard.  The admins a request has counted are locked by it and so stay *)
(* active admins.  Its target is an active admin only if it was one when it  *)
(* was read, is among the rows still to be scanned or counted, and is not    *)
(* the only one counted once the guard has passed: a user who becomes an     *)
(* active admin behind a reader's back is what crossed stands for.           *)
SeenAdmin(r) == req[r].seen.role = "admin" /\ req[r].seen.active

Counted(r) == \A v \in req[r].ids : lock[v] = r /\ ActiveAdmin(v)

Guarding(r) ==
    req[r].op = "patch" /\ req[r].pc \in {"guard", "scan", "write", "commit"} =>
        /\ Counted(r)
        /\ ~ crossed /\ ActiveAdmin(req[r].target) =>
              /\ SeenAdmin(r)
              /\ req[r].pc = "scan" => req[r].target \in ToSet(req[r].scan) \cup req[r].ids
              /\ req[r].pc \in {"write", "commit"} /\ Guarded(req[r].body, req[r].seen) =>
                    \E v \in req[r].ids : v # req[r].target

RequestOK(r) == Handled(r) /\ Guarding(r)

Inv ==
    /\ Types
    /\ \A r \in Request : RequestOK(r)
    /\ trail = row
    /\ AdminRemains

-----------------------------------------------------------------------------
\* The invariant gives the type invariant that the run checks.
LEMMA InvTypes == Inv => TypeOK
  BY DEF Inv, Types, TypeOK, RequestOK, Handled, Req

\* A scan order has every active admin in it.
LEMMA ScanCovers ==
  ASSUME NEW S \in SUBSET User, NEW order \in SetToSeqs(S)
  PROVE  order \in Seq(User) /\ ToSet(order) = S
<1>1. IsFiniteSet(S) /\ Cardinality(S) \in Nat
  BY FS_Subset, FS_CardinalityType
<1> DEFINE n == Cardinality(S)
<1>2. order \in [1..n -> S] /\ \A i, j \in 1..n : i # j => order[i] # order[j]
  BY DEF SetToSeqs
<1>3. order \in Injection(1..n, S)
  BY <1>2 DEF Injection, IsInjective
<1>4. IsFiniteSet(1..n) /\ Cardinality(1..n) = n
  BY <1>1, FS_Interval
<1>5. order \in Surjection(1..n, S)
  BY <1>1, <1>3, <1>4, FS_Injection
<1>6. order \in Seq(User)
  BY <1>1, <1>2
<1>7. ToSet(order) = S
  BY <1>2, <1>5 DEF ToSet, Surjection
<1> QED  BY <1>6, <1>7

\* Taking the first of a scan.
LEMMA ScanStep ==
  ASSUME NEW s \in Seq(User), s # <<>>
  PROVE  /\ Head(s) \in User /\ Tail(s) \in Seq(User)
         /\ \A u \in ToSet(s) : u = Head(s) \/ u \in ToSet(Tail(s))
<1>1. Head(s) \in User /\ Tail(s) \in Seq(User) /\ Len(s) \in Nat /\ Len(s) > 0
  OBVIOUS
<1>2. ASSUME NEW i \in 1..Len(s), i # 1 PROVE s[i] \in ToSet(Tail(s))
  <2>1. i - 1 \in 1..Len(Tail(s)) /\ Tail(s)[i - 1] = s[i]
    BY <1>1, <1>2
  <2> QED  BY <1>1, <2>1 DEF ToSet
<1> QED  BY <1>1, <1>2 DEF ToSet

\* A step that leaves the table alone does not matter to another request, as
\* long as that one keeps its locks.
LEMMA OthersKeep ==
  ASSUME Inv, NEW r \in Request, NEW p \in Request, p # r,
         req'[p] = req[p], UNCHANGED <<row, crossed>>,
         \A u \in User : lock'[u] = p <=> lock[u] = p
  PROVE  RequestOK(p)'
<1>1. RequestOK(p) /\ req[p] \in Req /\ req[p].ids \subseteq User
  BY DEF Inv, Types, Req
<1>2. Handled(p)'
  BY <1>1 DEF RequestOK, Handled, Loaded
<1>3. Guarding(p)'
  BY <1>1 DEF RequestOK, Guarding, Counted, SeenAdmin, ActiveAdmin, Exists
<1> QED  BY <1>2, <1>3 DEF RequestOK

\* One request moves, the table does not.
LEMMA OneMoves ==
  ASSUME Inv, NEW r \in Request, NEW x \in Req,
         req' = [req EXCEPT ![r] = x],
         UNCHANGED <<row, trail, crossed>>,
         lock' \in [User -> Request \cup {None}],
         \A u \in User : lock'[u] = lock[u] \/ (lock[u] \in {None, r} /\ lock'[u] \in {None, r}),
         token' \subseteq User, begun' \in 0..MaxRequests,
         RequestOK(r)'
  PROVE  Inv'
<1>1. req \in [Request -> Req]
  BY DEF Inv, Types
<1>2. Types'
  BY <1>1 DEF Inv, Types
<1>3. \A p \in Request : RequestOK(p)'
  <2>1. ASSUME NEW p \in Request, p # r PROVE RequestOK(p)'
    <3>1. req'[p] = req[p]
      BY <1>1, <2>1
    <3>2. \A u \in User : lock'[u] = p <=> lock[u] = p
      BY <2>1
    <3> QED  BY <2>1, <3>1, <3>2, OthersKeep
  <2> QED  BY <2>1
<1>4. (trail = row)' /\ AdminRemains'
  BY DEF Inv, AdminRemains, ActiveAdmins, ActiveAdmin, Exists
<1> QED  BY <1>2, <1>3, <1>4 DEF Inv

-----------------------------------------------------------------------------
\* A request ends, by its answer, a rollback or an abort, with its locks.
LEMMA EndInv ==
  ASSUME Inv, NEW r \in Request, End(r), UNCHANGED <<row, token, begun, trail, crossed>>,
         lock' = Released(r) \/ (UNCHANGED lock /\ \A u \in User : lock[u] # r)
  PROVE  Inv'
<1>1. Idle \in Req /\ Idle.pc = "idle"
  BY DEF Idle, Req
<1>2. /\ req \in [Request -> Req] /\ lock \in [User -> Request \cup {None}]
      /\ token \subseteq User /\ begun \in 0..MaxRequests
  BY DEF Inv, Types
<1>3. /\ lock' \in [User -> Request \cup {None}] /\ \A u \in User : lock'[u] # r
      /\ \A u \in User : lock'[u] = lock[u] \/ (lock[u] \in {None, r} /\ lock'[u] \in {None, r})
  BY <1>2 DEF Released
<1>4. req' = [req EXCEPT ![r] = Idle] /\ req'[r] = Idle
  BY <1>2 DEF End
<1>5. RequestOK(r)'
  BY <1>1, <1>3, <1>4 DEF RequestOK, Handled, Guarding, Loaded
<1> HIDE DEF Inv
<1> QED  BY <1>1, <1>2, <1>3, <1>4, <1>5, OneMoves

\* An admin logs in.
LEMMA LoginInv ==
  ASSUME Inv, NEW u \in User, Login(u)
  PROVE  Inv'
<1>1. Types'
  BY DEF Inv, Types, Login
<1>2. UNCHANGED <<row, lock, req, trail, crossed>>
  BY DEF Login
<1>3. \A r \in Request : RequestOK(r)'
  BY <1>2 DEF Inv, RequestOK, Handled, Guarding, Loaded, Counted, SeenAdmin, ActiveAdmin, Exists
<1>4. (trail = row)' /\ AdminRemains'
  BY <1>2 DEF Inv, AdminRemains, ActiveAdmins, ActiveAdmin, Exists
<1> QED  BY <1>1, <1>3, <1>4 DEF Inv

\* A request passes the gate.
LEMMA BeginInv ==
  ASSUME Inv, NEW r \in Request, NEW op \in {"create", "patch", "reset"}, NEW u \in User,
         NEW body \in Body \cup {None}, Begin(r, op, u, body),
         op = "create" => body \in Body /\ body.role \in Role,
         op = "patch" => body \in Body
  PROVE  Inv'
<1> DEFINE x == [Idle EXCEPT !.pc = "read", !.op = op, !.target = u, !.body = body]
<1>0. Idle \in Req
  BY DEF Idle, Req
<1>1. /\ x \in Req /\ x.pc = "read" /\ x.op = op /\ x.target = u /\ x.body = body /\ x.ids = {}
  BY <1>0 DEF Req, Idle
<1>2. /\ req \in [Request -> Req] /\ lock \in [User -> Request \cup {None}]
      /\ token \subseteq User /\ begun' \in 0..MaxRequests
  BY DEF Inv, Types, Begin
<1>3. req' = [req EXCEPT ![r] = x] /\ UNCHANGED <<row, lock, token, trail, crossed>>
  BY DEF Begin
<1>4. \A v \in User : lock[v] # r
  BY DEF Inv, RequestOK, Handled, Begin, At
<1> HIDE DEF x
<1>5. req'[r] = x
  BY <1>2, <1>3
<1>6. RequestOK(r)'
  BY <1>1, <1>3, <1>4, <1>5 DEF RequestOK, Handled, Guarding, Loaded
<1> QED  BY <1>1, <1>2, <1>3, <1>6, OneMoves

\* create_user up to the commit.
LEMMA CheckNameInv ==
  ASSUME Inv, NEW r \in Request, CheckName(r)
  PROVE  Inv'
<1>1. /\ req \in [Request -> Req] /\ req[r] \in Req /\ lock \in [User -> Request \cup {None}]
      /\ token \subseteq User /\ begun \in 0..MaxRequests
  BY DEF Inv, Types
<1>2. /\ req[r].pc = "read" /\ req[r].op = "create" /\ Handled(r)
      /\ UNCHANGED <<row, lock, token, begun, trail, crossed>>
  BY DEF CheckName, At, Inv, RequestOK
<1>3. CASE End(r)
  BY <1>2, <1>3, EndInv DEF Handled
<1>4. CASE req' = [req EXCEPT ![r].pc = "write"]
  <2> DEFINE x == [req[r] EXCEPT !.pc = "write"]
  <2>1. /\ x \in Req /\ x.pc = "write" /\ x.op = "create" /\ x.target = req[r].target
        /\ x.body = req[r].body
    BY <1>1, <1>2 DEF Req
  <2>2. req' = [req EXCEPT ![r] = x]
    BY <1>4
  <2> HIDE DEF x
  <2>3. req'[r] = x
    BY <1>1, <2>2
  <2>4. RequestOK(r)'
    BY <1>2, <2>1, <2>3 DEF RequestOK, Handled, Guarding, Loaded
  <2> QED  BY <1>1, <1>2, <2>1, <2>2, <2>4, OneMoves
<1> QED  BY <1>3, <1>4 DEF CheckName

\* The row of the target is taken and the statement done.
LEMMA WriteInv ==
  ASSUME Inv, NEW r \in Request,
         (InsertUser(r) /\ ~ Exists(req[r].target)) \/ PatchUser(r) \/ ResetPassword(r)
  PROVE  Inv'
<1> DEFINE u == req[r].target
           x == [req[r] EXCEPT !.pc = "commit"]
<1>1. /\ req \in [Request -> Req] /\ req[r] \in Req /\ lock \in [User -> Request \cup {None}]
      /\ token \subseteq User /\ begun \in 0..MaxRequests
  BY DEF Inv, Types
<1>2. /\ req[r].pc = "write" /\ Handled(r) /\ Guarding(r) /\ u \in User
      /\ lock[u] \in {None, r} /\ lock' = [lock EXCEPT ![u] = r]
      /\ req' = [req EXCEPT ![r] = x]
      /\ req[r].op = "create" => row[u] = None
      /\ UNCHANGED <<row, token, begun, trail, crossed>>
  BY DEF InsertUser, PatchUser, ResetPassword, At, Inv, RequestOK, Handled, Exists
<1>3. /\ x \in Req /\ x.pc = "commit" /\ x.op = req[r].op /\ x.target = u
      /\ x.body = req[r].body /\ x.seen = req[r].seen /\ x.ids = req[r].ids
  BY <1>1 DEF Req
<1> HIDE DEF x
<1>4. req'[r] = x
  BY <1>1, <1>2
<1>5. \A v \in User : /\ lock'[v] = r <=> (lock[v] = r \/ v = u)
                      /\ lock'[v] = lock[v] \/ (lock[v] \in {None, r} /\ lock'[v] \in {None, r})
  <2>1. \A v \in User : lock'[v] = IF v = u THEN r ELSE lock[v]
    BY <1>1, <1>2
  <2> HIDE DEF u
  <2> QED  BY <1>2, <2>1
<1>6. Handled(r)'
  <2>1. u = req[r].target /\ lock'[u] = r
    BY <1>1, <1>2
  <2> HIDE DEF u
  <2> QED  BY <1>2, <1>3, <1>4, <2>1 DEF Handled, Loaded
<1>7. Guarding(r)'
  <2>1. \A v \in req[r].ids : v \in User
    BY <1>1 DEF Req
  <2> QED  BY <1>2, <1>3, <1>4, <1>5, <2>1 DEF Guarding, Counted, SeenAdmin, ActiveAdmin, Exists
<1>8. RequestOK(r)' /\ lock' \in [User -> Request \cup {None}]
  BY <1>1, <1>2, <1>6, <1>7 DEF RequestOK
<1> HIDE DEF u
<1> QED  BY <1>1, <1>2, <1>3, <1>5, <1>8, OneMoves

\* _load_user: what is seen is what the row is now.
LEMMA LoadUserInv ==
  ASSUME Inv, NEW r \in Request, LoadUser(r)
  PROVE  Inv'
<1> DEFINE u == req[r].target
           pc == IF req[r].op = "patch" /\ Guarded(req[r].body, row[u]) THEN "guard" ELSE "write"
           x == [req[r] EXCEPT !.seen = row[u], !.pc = pc]
<1>1. /\ req \in [Request -> Req] /\ req[r] \in Req /\ lock \in [User -> Request \cup {None}]
      /\ row \in [User -> Row \cup {None}] /\ token \subseteq User /\ begun \in 0..MaxRequests
  BY DEF Inv, Types
<1>2. /\ req[r].pc = "read" /\ req[r].op # "create" /\ Handled(r)
      /\ UNCHANGED <<row, lock, token, begun, trail, crossed>>
  BY DEF LoadUser, At, Inv, RequestOK
<1>3. CASE End(r)
  BY <1>2, <1>3, EndInv DEF Handled
<1>4. CASE Exists(u) /\ req' = [req EXCEPT ![r] = x]
  <2>1. u \in User /\ row[u] \in Row /\ req[r].op \in {"patch", "reset"} /\ req[r].ids = {}
        /\ (req[r].op = "patch" => req[r].body \in Body)
        /\ (\A v \in User : lock[v] # r)
    BY <1>1, <1>2, <1>4 DEF Handled, Exists
  <2>2. pc \in {"guard", "write"}
    OBVIOUS
  <2>3. pc = "guard" => req[r].op = "patch"
    OBVIOUS
  <2>4. pc = "write" /\ req[r].op = "patch" => ~ Guarded(req[r].body, row[u])
    OBVIOUS
  <2> HIDE DEF pc, u
  <2>5. /\ x \in Req /\ x.pc = pc /\ x.op = req[r].op /\ x.target = req[r].target
        /\ x.body = req[r].body /\ x.seen = row[u] /\ x.ids = {}
    BY <1>1, <2>1, <2>2 DEF Req
  <2> HIDE DEF x
  <2>6. req'[r] = x /\ u = req[r].target
    BY <1>1, <1>4 DEF u
  <2>7. Handled(r)'
    BY <1>2, <1>4, <2>1, <2>2, <2>3, <2>5, <2>6 DEF Handled, Loaded, Exists
  <2>8. Guarding(r)'
    BY <1>2, <1>4, <2>1, <2>2, <2>4, <2>5, <2>6
    DEF Guarding, Counted, SeenAdmin, ActiveAdmin, Exists
  <2>9. RequestOK(r)'
    BY <2>7, <2>8 DEF RequestOK
  <2> QED  BY <1>1, <1>2, <1>4, <2>5, <2>9, OneMoves
<1> QED  BY <1>3, <1>4 DEF LoadUser

\* The snapshot of the guard.
LEMMA GuardStartInv ==
  ASSUME Inv, NEW r \in Request, GuardStart(r)
  PROVE  Inv'
<1>1. /\ req \in [Request -> Req] /\ req[r] \in Req /\ lock \in [User -> Request \cup {None}]
      /\ token \subseteq User /\ begun \in 0..MaxRequests
  BY DEF Inv, Types
<1>2. /\ req[r].pc = "guard" /\ Handled(r) /\ Guarding(r)
      /\ UNCHANGED <<row, lock, token, begun, trail, crossed>>
  BY DEF GuardStart, At, Inv, RequestOK
<1>3. PICK order \in SetToSeqs(ActiveAdmins) :
        req' = [req EXCEPT ![r].pc = "scan", ![r].scan = order]
  BY DEF GuardStart
<1>4. order \in Seq(User) /\ ToSet(order) = ActiveAdmins
  BY ScanCovers, ActiveAdmins \in SUBSET User DEF ActiveAdmins
<1> DEFINE x == [req[r] EXCEPT !.pc = "scan", !.scan = order]
<1>5. /\ x \in Req /\ x.pc = "scan" /\ x.op = req[r].op /\ x.target = req[r].target
      /\ x.body = req[r].body /\ x.seen = req[r].seen /\ x.ids = req[r].ids /\ x.scan = order
  BY <1>1, <1>4 DEF Req
<1>6. req' = [req EXCEPT ![r] = x]
  BY <1>3
<1> HIDE DEF x
<1>7. req'[r] = x
  BY <1>1, <1>6
<1>8. req[r].target \in User /\ (ActiveAdmin(req[r].target) => req[r].target \in ToSet(order))
  BY <1>2, <1>4 DEF Handled, ActiveAdmins
<1>9. Handled(r)'
  BY <1>2, <1>5, <1>7 DEF Handled, Loaded
<1>10. Guarding(r)'
  BY <1>2, <1>5, <1>7, <1>8 DEF Guarding, Counted, SeenAdmin, ActiveAdmin, Exists, Handled
<1>11. RequestOK(r)'
  BY <1>9, <1>10 DEF RequestOK
<1> QED  BY <1>1, <1>2, <1>5, <1>6, <1>11, OneMoves

\* FOR UPDATE of the next row: who counts is locked.
LEMMA GuardLocksInv ==
  ASSUME Inv, NEW r \in Request, GuardLocks(r)
  PROVE  Inv'
<1> DEFINE u == Head(req[r].scan)
           ids == IF ActiveAdmin(u) THEN req[r].ids \cup {u} ELSE req[r].ids
           x == [req[r] EXCEPT !.scan = Tail(@), !.ids = ids]
<1>1. /\ req \in [Request -> Req] /\ req[r] \in Req /\ lock \in [User -> Request \cup {None}]
      /\ token \subseteq User /\ begun \in 0..MaxRequests
  BY DEF Inv, Types
<1>2. /\ req[r].pc = "scan" /\ req[r].scan # <<>> /\ Handled(r) /\ Guarding(r)
      /\ lock[u] \in {None, r} /\ lock' = [lock EXCEPT ![u] = r]
      /\ req' = [req EXCEPT ![r] = x]
      /\ UNCHANGED <<row, token, begun, trail, crossed>>
  BY DEF GuardLocks, At, Inv, RequestOK
<1>3. req[r].scan \in Seq(User) /\ req[r].ids \subseteq User
  BY <1>1 DEF Req
<1>4. /\ u \in User /\ Tail(req[r].scan) \in Seq(User)
      /\ \A v \in ToSet(req[r].scan) : v = u \/ v \in ToSet(Tail(req[r].scan))
  BY <1>2, <1>3, ScanStep
<1>5. /\ ids \subseteq User /\ req[r].ids \subseteq ids
      /\ ActiveAdmin(u) => u \in ids
      /\ \A v \in ids : v \in req[r].ids \/ (v = u /\ ActiveAdmin(u))
  BY <1>3, <1>4
<1> HIDE DEF u, ids
<1>6. /\ x \in Req /\ x.pc = "scan" /\ x.op = req[r].op /\ x.target = req[r].target
      /\ x.body = req[r].body /\ x.seen = req[r].seen /\ x.ids = ids
      /\ x.scan = Tail(req[r].scan)
  BY <1>1, <1>2, <1>4, <1>5 DEF Req
<1> HIDE DEF x
<1>7. req'[r] = x
  BY <1>1, <1>2
<1>8. \A v \in User : lock'[v] = IF v = u THEN r ELSE lock[v]
  BY <1>1, <1>2
<1>9. /\ lock' \in [User -> Request \cup {None}]
      /\ \A v \in User : lock'[v] = lock[v] \/ (lock[v] \in {None, r} /\ lock'[v] \in {None, r})
  BY <1>1, <1>2, <1>8
<1>10. Handled(r)'
  BY <1>2, <1>6, <1>7 DEF Handled, Loaded
<1>11. Guarding(r)'
  <2>1. /\ req[r].op = "patch" /\ Counted(r)
        /\ ~ crossed /\ ActiveAdmin(req[r].target) =>
              SeenAdmin(r) /\ req[r].target \in ToSet(req[r].scan) \cup req[r].ids
    BY <1>2 DEF Guarding, Handled
  <2>2. Counted(r)'
    BY <1>2, <1>3, <1>5, <1>6, <1>7, <1>8, <2>1 DEF Counted, ActiveAdmin, Exists
  <2>3. ActiveAdmin(req[r].target) /\ req[r].target \in ToSet(req[r].scan) \cup req[r].ids
        => req[r].target \in ToSet(x.scan) \cup x.ids
    BY <1>4, <1>5, <1>6
  <2> QED  BY <1>2, <1>6, <1>7, <2>1, <2>2, <2>3 DEF Guarding, SeenAdmin, ActiveAdmin, Exists
<1>12. RequestOK(r)'
  BY <1>10, <1>11 DEF RequestOK
<1> QED  BY <1>1, <1>2, <1>6, <1>9, <1>12, OneMoves

\* The decision: the target alone is refused.
LEMMA GuardDecidesInv ==
  ASSUME Inv, NEW r \in Request, GuardDecides(r)
  PROVE  Inv'
<1> DEFINE x == [req[r] EXCEPT !.pc = "write"]
<1>1. /\ req \in [Request -> Req] /\ req[r] \in Req /\ lock \in [User -> Request \cup {None}]
      /\ token \subseteq User /\ begun \in 0..MaxRequests
  BY DEF Inv, Types
<1>2. /\ req[r].pc = "scan" /\ req[r].scan = <<>> /\ Handled(r) /\ Guarding(r)
      /\ UNCHANGED <<row, token, begun, trail, crossed>>
  BY DEF GuardDecides, At, Inv, RequestOK
<1>3. CASE End(r) /\ lock' = Released(r)
  BY <1>2, <1>3, EndInv
<1>4. CASE req[r].ids # {req[r].target} /\ req' = [req EXCEPT ![r] = x] /\ UNCHANGED lock
  <2>1. /\ x \in Req /\ x.pc = "write" /\ x.op = req[r].op /\ x.target = req[r].target
        /\ x.body = req[r].body /\ x.seen = req[r].seen /\ x.ids = req[r].ids
    BY <1>1 DEF Req
  <2> HIDE DEF x
  <2>2. req'[r] = x
    BY <1>1, <1>4
  <2>3. ToSet(req[r].scan) = {}
    BY <1>2 DEF ToSet
  <2>4. req[r].target \in req[r].ids => \E v \in req[r].ids : v # req[r].target
    BY <1>4
  <2>5. Handled(r)'
    BY <1>2, <1>4, <2>1, <2>2 DEF Handled, Loaded
  <2>6. Guarding(r)'
    BY <1>2, <1>4, <2>1, <2>2, <2>3, <2>4
    DEF Guarding, Counted, SeenAdmin, ActiveAdmin, Exists
  <2>7. RequestOK(r)'
    BY <2>5, <2>6 DEF RequestOK
  <2> QED  BY <1>1, <1>2, <1>4, <2>1, <2>7, OneMoves
<1> QED  BY <1>3, <1>4 DEF GuardDecides

-----------------------------------------------------------------------------
\* What a commit writes is a row, and what its audit rows say.
LEMMA WrittenIsAudited ==
  ASSUME Inv, NEW r \in Request, req[r].pc = "commit"
  PROVE  /\ Written(r, row[req[r].target]) \in Row
         /\ Audited(r, row[req[r].target]) = Written(r, row[req[r].target])
<1> DEFINE old == row[req[r].target]
<1>1. /\ req[r].op \in {"create", "patch", "reset"} /\ req[r].target \in User
      /\ req[r].op = "create" => req[r].body.role \in Role
      /\ req[r].op = "patch" => req[r].body \in Body
      /\ req[r].op # "create" => req[r].seen \in Row /\ old # None
  BY DEF Inv, RequestOK, Handled, Loaded
<1>2. old \in Row \cup {None}
  BY <1>1 DEF Inv, Types
<1>3. CASE req[r].op = "create"
  BY <1>1, <1>3 DEF Written, Audited, Row
<1>4. CASE req[r].op = "reset"
  BY <1>1, <1>2, <1>4 DEF Written, Audited
<1>5. CASE req[r].op = "patch"
  <2> DEFINE body == req[r].body
  <2>1. /\ old \in Row
        /\ body.role \in Role \cup {None} /\ body.active \in BOOLEAN \cup {None}
    BY <1>1, <1>2, <1>5 DEF Body
  <2>2. Sets(r).role => body.role \in Role
    BY <2>1 DEF Sets, Given
  <2>3. Sets(r).active => body.active \in BOOLEAN
    BY <2>1 DEF Sets, Given
  <2>4. Sets(r).active => (body.active = TRUE) = body.active
    BY <2>3
  <2> DEFINE role == IF Sets(r).role THEN body.role ELSE old.role
             active == IF Sets(r).active THEN body.active ELSE old.active
             told == IF Sets(r).active THEN body.active = TRUE ELSE old.active
  <2>5. /\ Written(r, old) = [old EXCEPT !.role = role, !.active = active]
        /\ Audited(r, old) = [old EXCEPT !.role = role, !.active = told]
    BY <1>5 DEF Written, Audited
  <2>6. told = active
    BY <2>4
  <2>7. role \in Role /\ active \in BOOLEAN
    BY <2>1, <2>2, <2>3 DEF Row
  <2> HIDE DEF old, body, role, active, told
  <2>8. Written(r, old) \in Row
    BY <2>1, <2>5, <2>7 DEF Row
  <2>9. Audited(r, old) = Written(r, old)
    BY <2>5, <2>6
  <2> QED  BY <2>8, <2>9 DEF old
<1> QED  BY <1>1, <1>3, <1>4, <1>5

\* A patch whose guard did not apply to an admin leaves the admin alone.
LEMMA UnguardedKeeps ==
  ASSUME NEW r \in Request, req[r].op = "patch", req[r].body \in Body, SeenAdmin(r),
         ~ Guarded(req[r].body, req[r].seen), NEW old \in Row
  PROVE  Written(r, old).role = old.role /\ Written(r, old).active = old.active
<1> DEFINE body == req[r].body
<1>1. body.active # FALSE /\ ~ Given(body.role, "admin")
  BY DEF Guarded, SeenAdmin
<1>2. ~ Sets(r).role
  BY <1>1 DEF Sets, SeenAdmin
<1>3. body.active \in BOOLEAN \cup {None}
  BY DEF Body
<1>4. body.active = TRUE \/ body.active = None
  BY <1>1, <1>3
<1>5. ~ Sets(r).active
  <2>1. Sets(r).active = Given(body.active, req[r].seen.active)
    BY DEF Sets
  <2>2. req[r].seen.active
    BY DEF SeenAdmin
  <2>3. CASE body.active = None
    BY <2>1, <2>3 DEF Given
  <2>4. CASE body.active = TRUE
    BY <2>1, <2>2, <2>4 DEF Given
  <2> QED  BY <1>4, <2>3, <2>4
<1>6. Written(r, old) = [old EXCEPT !.role = old.role, !.active = old.active]
  BY <1>2, <1>5 DEF Written
<1> QED  BY <1>6 DEF Row

\* The commit: the one step that changes the table.
LEMMA CommitInv ==
  ASSUME Inv, NEW r \in Request, Commit(r)
  PROVE  Inv'
<1>0. PICK u \in User : u = req[r].target
  BY DEF Commit, At, Inv, RequestOK, Handled
<1> DEFINE w == Written(r, row[u])
<1>1. /\ req \in [Request -> Req] /\ req[r] \in Req /\ lock \in [User -> Request \cup {None}]
      /\ row \in [User -> Row \cup {None}] /\ trail = row
  BY DEF Inv, Types
<1>2. /\ req[r].pc = "commit" /\ Handled(r) /\ Guarding(r) /\ u \in User /\ lock[u] = r
  BY <1>0 DEF Commit, At, Inv, RequestOK, Handled
<1>3. w \in Row /\ Audited(r, row[u]) = w
  BY <1>0, <1>2, WrittenIsAudited
<1>4. /\ row' = [row EXCEPT ![u] = w] /\ trail' = [trail EXCEPT ![u] = Audited(r, trail[u])]
      /\ crossed' = (crossed \/ (~ ActiveAdmin(u) /\ Readers(r, u) # {}
                                  /\ row'[u].role = "admin" /\ row'[u].active))
      /\ lock' = Released(r) /\ req' = [req EXCEPT ![r] = Idle]
      /\ UNCHANGED <<token, begun>>
  BY <1>0 DEF Commit, End
<1>5. trail' = row'
  BY <1>1, <1>3, <1>4
<1>6. Idle \in Req /\ Idle.pc = "idle"
  BY DEF Idle, Req
<1>7. /\ row'[u] = w /\ \A v \in User : v # u => row'[v] = row[v]
      /\ \A v \in User : v # u => (ActiveAdmin(v)' <=> ActiveAdmin(v))
      /\ row' \in [User -> Row \cup {None}]
  BY <1>1, <1>2, <1>3, <1>4 DEF ActiveAdmin, Exists
<1>8. /\ lock' \in [User -> Request \cup {None}] /\ \A v \in User : lock'[v] # r
      /\ \A p \in Request : p # r => \A v \in User : lock'[v] = p <=> lock[v] = p
  BY <1>1, <1>4 DEF Released
<1>9. req'[r] = Idle /\ \A p \in Request : p # r => req'[p] = req[p]
  BY <1>1, <1>4
<1>10. ActiveAdmin(u)' <=> w.role = "admin" /\ w.active
  BY <1>3, <1>7 DEF ActiveAdmin, Exists
<1>11. ~ crossed' => ~ crossed /\ (ActiveAdmin(u)' => ActiveAdmin(u) \/ Readers(r, u) = {})
  BY <1>4, <1>7, <1>10
<1> HIDE DEF w
<1>12. Types'
  <2>1. crossed' \in BOOLEAN
    BY <1>4 DEF Inv, Types
  <2> QED  BY <1>1, <1>4, <1>5, <1>6, <1>7, <1>8, <2>1 DEF Inv, Types
<1>13. RequestOK(r)'
  BY <1>6, <1>8, <1>9 DEF RequestOK, Handled, Guarding, Loaded
<1>14. ASSUME NEW p \in Request, p # r PROVE RequestOK(p)'
  <2>1. /\ Handled(p) /\ Guarding(p) /\ req'[p] = req[p]
        /\ \A v \in User : lock'[v] = p <=> lock[v] = p
        /\ req[p].ids \subseteq User
    BY <1>1, <1>8, <1>9, <1>14 DEF Inv, RequestOK, Req
  <2>2. \A v \in User : row[v] # None => row'[v] # None
    BY <1>3, <1>7
  <2>3. \A v \in User : lock[v] = p => v # u
    BY <1>2, <1>14
  <2>4. Handled(p)'
    BY <1>7, <2>1, <2>2, <2>3 DEF Handled, Loaded
  <2>5. ASSUME req[p].op = "patch", req[p].pc \in {"guard", "scan", "write", "commit"}
        PROVE  /\ Counted(p)'
               /\ ~ crossed' /\ ActiveAdmin(req[p].target)' => ~ crossed /\ ActiveAdmin(req[p].target)
    <3>1. Counted(p)'
      BY <1>7, <2>1, <2>3, <2>5 DEF Guarding, Counted
    <3>2. CASE req[p].target # u
      BY <1>7, <1>11, <2>1, <2>5, <3>1, <3>2 DEF Handled
    <3>3. CASE req[p].target = u
      <4>1. req[p].pc # "commit"
        BY <1>2, <2>1, <2>3, <3>3 DEF Handled
      <4>2. req[p].seen # None
        BY <2>1, <2>5 DEF Handled, Loaded
      <4>3. p \in Readers(r, u)
        BY <1>14, <2>5, <3>3, <4>1, <4>2 DEF Readers
      <4> QED  BY <1>11, <2>1, <3>1, <3>3, <4>3
    <3> QED  BY <3>2, <3>3
  <2>6. Guarding(p)'
    BY <2>1, <2>5 DEF Guarding, SeenAdmin
  <2> QED  BY <2>4, <2>6 DEF RequestOK
<1>15. AdminRemains'
  <2> SUFFICES ASSUME ~ crossed' PROVE \E v \in User : ActiveAdmin(v)'
    BY DEF AdminRemains, ActiveAdmins
  <2>1. PICK v \in User : ActiveAdmin(v)
    BY <1>11 DEF Inv, AdminRemains, ActiveAdmins
  <2>2. CASE v # u
    BY <1>7, <2>1, <2>2
  <2>3. CASE v = u
    <3>1. ActiveAdmin(u) /\ row[u] # None /\ row[u] \in Row
      BY <1>1, <2>1, <2>3 DEF ActiveAdmin, Exists
    <3>2. req[r].op \in {"patch", "reset"} /\ (req[r].op = "patch" => req[r].body \in Body)
      BY <1>0, <1>2, <3>1 DEF Handled
    <3>3. CASE req[r].op = "reset"
      <4>1. w = row[u]
        BY <3>3 DEF w, Written
      <4> QED  BY <1>2, <1>10, <3>1, <4>1 DEF ActiveAdmin
    <3>4. CASE req[r].op = "patch"
      <4>1. /\ SeenAdmin(r)
            /\ Guarded(req[r].body, req[r].seen) => \E x \in req[r].ids : x # u /\ ActiveAdmin(x)
        BY <1>0, <1>2, <1>11, <3>1, <3>4 DEF Guarding, Counted
      <4>2. CASE Guarded(req[r].body, req[r].seen)
        BY <1>1, <1>7, <4>1, <4>2 DEF Req
      <4>3. CASE ~ Guarded(req[r].body, req[r].seen)
        <5>1. w.role = row[u].role /\ w.active = row[u].active
          BY <3>1, <3>2, <3>4, <4>1, <4>3, UnguardedKeeps DEF w
        <5> QED  BY <1>2, <1>10, <3>1, <5>1 DEF ActiveAdmin
      <4> QED  BY <4>2, <4>3
    <3> QED  BY <3>2, <3>3, <3>4
  <2> QED  BY <2>2, <2>3
<1> QED  BY <1>5, <1>12, <1>13, <1>14, <1>15 DEF Inv

-----------------------------------------------------------------------------
\* No request is being handled; the table has an active admin.
LEMMA InitInv == Init => Inv
<1> SUFFICES ASSUME Init PROVE Inv  OBVIOUS
<1>1. Idle \in Req /\ Idle.pc = "idle"
  BY DEF Idle, Req
<1>2. /\ row \in [User -> Row \cup {None}] /\ trail = row
      /\ \E u \in User : row[u] = [role |-> "admin", active |-> TRUE]
  BY DEF Init
<1>3. AdminRemains
  <2>1. PICK u \in User : row[u] = [role |-> "admin", active |-> TRUE]
    BY <1>2
  <2>2. row[u] \in Row
    BY <2>1 DEF Row, Role
  <2>3. row[u].role = "admin" /\ row[u].active
    BY <2>1
  <2>4. ActiveAdmin(u)
    BY <2>2, <2>3 DEF ActiveAdmin, Exists
  <2> QED  BY <2>4 DEF AdminRemains, ActiveAdmins
<1>4. Types
  <2>1. token \subseteq User /\ begun \in 0..MaxRequests /\ crossed \in BOOLEAN
    <3>1. token = ActiveAdmins /\ begun = 0 /\ crossed = FALSE
      BY DEF Init
    <3>2. ActiveAdmins \subseteq User
      BY DEF ActiveAdmins
    <3>3. MaxRequests \in Nat
      OBVIOUS
    <3>4. token \subseteq User
      BY <3>1, <3>2
    <3>5. begun \in 0..MaxRequests
      BY <3>1, <3>3
    <3>6. crossed \in BOOLEAN
      BY <3>1
    <3> QED  BY <3>4, <3>5, <3>6
  <2>2. lock \in [User -> Request \cup {None}] /\ req \in [Request -> Req]
    BY <1>1 DEF Init
  <2> QED  BY <1>2, <2>1, <2>2 DEF Types
<1>5. \A r \in Request : req[r] = Idle /\ \A u \in User : lock[u] # r
  BY DEF Init
<1>6. \A r \in Request : RequestOK(r)
  BY <1>1, <1>5 DEF RequestOK, Handled, Guarding, Loaded
<1> QED  BY <1>2, <1>3, <1>4, <1>6 DEF Inv

\* Every step of a request.
LEMMA StepInv ==
  ASSUME Inv, NEW r \in Request, Step(r) \/ Rollback(r) \/ DeadlockAbort(r)
  PROVE  Inv'
<1>1. CASE Rollback(r) \/ DeadlockAbort(r) \/ NoOp(r)
  BY <1>1, EndInv DEF Rollback, DeadlockAbort, NoOp
<1>2. CASE InsertUser(r)
  <2>1. CASE ~ Exists(req[r].target)
    BY <1>2, <2>1, WriteInv
  <2>2. CASE Exists(req[r].target)
    <3>1. \A u \in User : lock[u] # r
      BY <1>2 DEF InsertUser, At, Inv, RequestOK, Handled
    <3> QED  BY <1>2, <2>2, <3>1, EndInv DEF InsertUser
  <2> QED  BY <2>1, <2>2
<1> QED
  BY <1>1, <1>2, CheckNameInv, LoadUserInv, GuardStartInv, GuardLocksInv, GuardDecidesInv,
     WriteInv, CommitInv DEF Step

\* Every step.
LEMMA NextInv == Inv /\ [Next]_vars => Inv'
<1> SUFFICES ASSUME Inv, [Next]_vars PROVE Inv'  OBVIOUS
<1>1. ASSUME NEW r \in Request, NEW u \in User, NEW role \in Role,
             Begin(r, "create", u, [role |-> role, active |-> None])
      PROVE  Inv'
  <2> DEFINE body == [role |-> role, active |-> None]
  <2>1. body \in Body /\ body.role \in Role
    BY DEF Body
  <2> HIDE DEF body
  <2>2. Begin(r, "create", u, body)
    BY <1>1 DEF body
  <2> QED  BY <2>1, <2>2, BeginInv
<1>2. ASSUME NEW r \in Request, NEW u \in User, NEW body \in Bodies, Begin(r, "patch", u, body)
      PROVE  Inv'
  BY <1>2, BeginInv
<1>3. ASSUME NEW r \in Request, NEW u \in User, Begin(r, "reset", u, None)
      PROVE  Inv'
  BY <1>3, BeginInv
<1>4. CASE UNCHANGED vars
  BY <1>4 DEF vars, Inv, Types, RequestOK, Handled, Guarding, Loaded, Counted, SeenAdmin,
              AdminRemains, ActiveAdmins, ActiveAdmin, Exists
<1> QED  BY <1>1, <1>2, <1>3, <1>4, LoginInv, StepInv DEF Next

(* D3/AC6 for every users table and any number of overlapping requests: an   *)
(* active admin is left, unless a user became one between another request's  *)
(* read of that user and its write.                                          *)
THEOREM AdminAlwaysRemains == Spec => []AdminRemains
<1>1. Inv => AdminRemains
  BY DEF Inv
<1> QED  BY <1>1, InitInv, NextInv, PTL DEF Spec

(* AC5 for any number of users and requests: the audit rows, replayed in the *)
(* order of their commits, give the users table.                             *)
THEOREM TrailAlwaysReplays == Spec => []TrailReplays
<1>1. Inv => TrailReplays
  BY InvTypes DEF Inv, TrailReplays
<1> QED  BY <1>1, InitInv, NextInv, PTL DEF Spec

=============================================================================
