---------------------------- MODULE AccountsProofs ----------------------------
(***************************************************************************)
(* What the runs check of the rows of users, for any people, requests and  *)
(* numbers of requests: a login that meets nobody is not refused; and in a *)
(* row whose saves never overlapped, a verified address was proven, and    *)
(* role and block are what was decided last.                               *)
(***************************************************************************)
EXTENDS Accounts, TLAPS

Fields == DOMAIN Free
Saves == {"login", "profile", "brand", "send", "verify", "role", "block", "unblock"}

\* Rows that are there, and whose saves did not overlap.
Sound == DOMAIN users \ lost

\* Whether the request has a row that it is about to save.
Holds(q) == q.at \in {"reload", "write"}
Active(q) == q.at \notin {"idle", "refused"}

Differ(entity, row) == {c \in DOMAIN entity : entity[c] # row[c]}

-----------------------------------------------------------------------------
(* The inductive invariant                                                 *)

Staged(q) ==
    /\ q.at \in {"idle", "refused", "guard", "load", "byToken", "byGoogle", "byEmail", "handle",
                 "insert", "session", "reload", "write", "mail", "delete"}
    /\ q.at = "guard" => q.op \in {"profile", "brand", "send", "delete"}
    /\ q.at = "load" => q.op \in Saves \ {"login", "verify"}
    /\ q.at = "byToken" => q.op = "verify"
    /\ q.at \in {"byGoogle", "byEmail", "handle", "insert", "session"} => q.op = "login"
    /\ Holds(q) => q.op \in Saves
    /\ q.at = "mail" => q.op = "send"

\* What is about to be saved is the edit of the row as it is, unless saves
\* overlapped on it or it is gone.
Current(q) ==
    Holds(q) =>
      /\ DOMAIN q.entity = Columns
      /\ q.id \in (DOMAIN users \cup deleted) \cap Ids \cap DOMAIN ruled
      /\ q.id \in Sound =>
           /\ q.entity = Edited(q.op, users[q.id], q.arg)
           /\ q.at = "write" => q.cols = Differ(q.entity, users[q.id])
           /\ q.op = "verify" => users[q.id].token = q.arg

\* The token of a request that sends one is not mailed yet, and in no row until
\* it is saved; then it is beside the address it goes to.
Sends(q) ==
    q.op = "send" /\ Active(q) =>
      /\ q.arg \in 1..served /\ mailed[q.arg] = None
      /\ q.at # "mail" => \A i \in Sound : users[i].token # q.arg
      /\ q.at = "mail" => \A i \in Sound :
            users[i].token = q.arg => users[i].contact = q.entity.contact

Verifies(q) ==
    q.op = "verify" /\ Active(q) => q.arg \in 1..MaxRequests /\ mailed[q.arg] # None

\* What a login that has met nobody has looked up still holds.
Unmet(q) == q.op = "login" /\ Active(q) /\ ~q.met
LookedUp(q) ==
    Unmet(q) =>
      /\ q.at \in {"byEmail", "handle", "insert"} =>
            \A i \in DOMAIN users : users[i].google # q.arg.google
      /\ q.at \in {"handle", "insert"} =>
            q.arg.email = None \/ \A i \in DOMAIN users : users[i].email # q.arg.email
      /\ q.at = "insert" => \A i \in DOMAIN users : users[i].handle # q.n

Valid(q) ==
    DOMAIN q = Fields /\ Staged(q) /\ Current(q) /\ Sends(q) /\ Verifies(q) /\ LookedUp(q)

RequestsAre ==
    /\ DOMAIN req = Requests
    /\ \A r \in Requests : Valid(req[r])
    /\ \A r, q \in Requests :
         r # q /\ Active(req[r]) /\ Active(req[q]) =>
           /\ ~Unmet(req[r])
           /\ req[r].op = "send" /\ req[q].op = "send" => req[r].arg # req[q].arg

RowsAre ==
    /\ \A i \in DOMAIN users : DOMAIN users[i] = Columns
    /\ DOMAIN users \subseteq Ids \cap DOMAIN ruled
    /\ DOMAIN proven = Ids

\* A token that has been mailed, and is still in its row, was mailed to the
\* address of the row.
Tokens ==
    /\ DOMAIN mailed = 1..MaxRequests /\ served \in 0..MaxRequests
    /\ \A t \in 1..MaxRequests : mailed[t] # None => t <= served
    /\ \A i \in Sound :
         users[i].token # None =>
           users[i].token \in 1..served /\ mailed[users[i].token] \in {None, users[i].contact}

Promises == VerifiedWasProven /\ DecisionsHold /\ LoginAlone

IInv == RequestsAre /\ RowsAre /\ Tokens /\ Promises

-----------------------------------------------------------------------------
(* What an edit makes of a row                                             *)

Row(op, row, arg, new) ==
    /\ DOMAIN new = Columns
    /\ op # "verify" => \/ new.verified = row.verified /\ new.contact = row.contact
                        \/ new.verified = FALSE
    /\ op = "verify" => new.token = None /\ new.contact = row.contact
    /\ op \notin {"send", "verify"} =>
         new.token = None \/ (new.token = row.token /\ new.contact = row.contact)
    /\ op = "send" => new.token = arg /\ new.contact = row.contact

LEMMA EditedRow ==
  ASSUME NEW op \in Saves, NEW row, DOMAIN row = Columns, NEW arg
  PROVE  Row(op, row, arg, Edited(op, row, arg))
<1> USE DEF Row
<1>1. CASE op = "login"
  BY <1>1 DEF Edited, Login, Columns
<1>2. CASE op = "profile"
  BY <1>2 DEF Edited, Columns
<1>3. CASE op = "brand"
  BY <1>3 DEF Edited, UpdateBrand, Columns
<1>4. CASE op = "send"
  BY <1>4 DEF Edited, Columns
<1>5. CASE op = "verify"
  BY <1>5 DEF Edited, Verified, Columns
<1>6. CASE op = "role"
  BY <1>6 DEF Edited, Columns
<1>7. CASE op = "block"
  BY <1>7 DEF Edited, Columns
<1>8. CASE op = "unblock"
  BY <1>8 DEF Edited, Columns
<1> QED
  BY <1>1, <1>2, <1>3, <1>4, <1>5, <1>6, <1>7, <1>8 DEF Saves

LEMMA EditedIsRow ==
  ASSUME NEW op \in Saves, NEW row, DOMAIN row = Columns, NEW arg
  PROVE  Edited(op, row, arg) = [c \in Columns |-> Edited(op, row, arg)[c]]
<1>1. CASE op \in {"login", "profile", "send"}
  BY <1>1 DEF Edited, Login, Columns
<1>2. CASE op \in {"brand", "verify"}
  BY <1>2 DEF Edited, UpdateBrand, Verified, Columns
<1>3. CASE op \in {"role", "block", "unblock"}
  BY <1>3 DEF Edited, Columns
<1> QED
  BY <1>1, <1>2, <1>3 DEF Saves

\* The role and the block that a save writes are those it decides, or the row's.
LEMMA EditedRule ==
  ASSUME NEW n, n.op \in Saves, NEW id, id \in DOMAIN users, DOMAIN users[id] = Columns,
         n.entity = Edited(n.op, users[id], n.arg), DOMAIN ruled[id] = {"role", "blocked"},
         ruled[id] = Of(users[id])
  PROVE  Of(n.entity) = Rule(n, id)
<1> DEFINE row == users[id]
<1>0. ruled[id] = [role |-> row.role, blocked |-> row.blocked]
  BY DEF Of
<1>1. CASE n.op = "login"
  <2>1. /\ n.entity.blocked = row.blocked
        /\ n.entity.role = IF IsAdminEmail(n.arg) THEN "admin" ELSE row.role
    BY <1>1 DEF Edited, Login, Columns
  <2>2. Rule(n, id) = IF IsAdminEmail(n.arg) THEN [ruled[id] EXCEPT !.role = "admin"] ELSE ruled[id]
    BY <1>1 DEF Rule
  <2> QED
    BY <1>0, <2>1, <2>2 DEF Of
<1>2. CASE n.op \in {"profile", "brand", "send", "verify"}
  <2>1. n.entity.blocked = row.blocked /\ n.entity.role = row.role
    BY <1>2 DEF Edited, UpdateBrand, Verified, Columns
  <2>2. Rule(n, id) = ruled[id]
    BY <1>2 DEF Rule
  <2> QED
    BY <1>0, <2>1, <2>2 DEF Of
<1>3. CASE n.op = "role"
  <2>1. n.entity.blocked = row.blocked
    BY <1>3 DEF Edited, Columns
  <2>2. Rule(n, id) = [ruled[id] EXCEPT !.role = n.entity.role]
    BY <1>3 DEF Rule
  <2> QED
    BY <1>0, <2>1, <2>2 DEF Of
<1>4. CASE n.op \in {"block", "unblock"}
  <2>1. n.entity.role = row.role
    BY <1>4 DEF Edited, Columns
  <2>2. Rule(n, id) = [ruled[id] EXCEPT !.blocked = n.entity.blocked]
    BY <1>4 DEF Rule
  <2> QED
    BY <1>0, <2>1, <2>2 DEF Of
<1> QED
  BY <1>1, <1>2, <1>3, <1>4 DEF Saves

-----------------------------------------------------------------------------
(* The steps that leave the tables alone                                   *)

LEMMA SetOnly ==
  ASSUME IInv, NEW r \in Requests, NEW n, Set(r, n)
  PROVE  DOMAIN req' = Requests /\ req'[r] = n /\ \A q \in Requests \ {r} : req'[q] = req[q]
  BY DEF IInv, RequestsAre, Set

LEMMA FreeValid == Valid([Free EXCEPT !.at = "idle"])
  BY DEF Valid, Fields, Free, Staged, Current, Holds, Sends, Verifies, LookedUp, Unmet, Active

\* A request that goes on as what it is, or ends.
LEMMA QuietKeeps ==
  ASSUME IInv, NEW r \in Requests, NEW n, Set(r, n), UNCHANGED <<db, served>>, Valid(n),
         Active(n) => Active(req[r]) /\ n.op = req[r].op /\ n.arg = req[r].arg /\ n.met = req[r].met,
         n.at = "refused" => n.met
  PROVE  IInv'
<1>1. DOMAIN req' = Requests /\ req'[r] = n /\ \A q \in Requests \ {r} : req'[q] = req[q]
  BY SetOnly
<1>2. UNCHANGED <<users, mailed, lost, proven, ruled, deleted, served>>
  BY DEF db
<1>3. RowsAre' /\ Tokens' /\ VerifiedWasProven' /\ DecisionsHold'
  BY <1>2 DEF IInv, RowsAre, Tokens, Promises, VerifiedWasProven, DecisionsHold, Sound
<1>4. LoginAlone'
  BY <1>1 DEF IInv, Promises, LoginAlone
<1>5. \A q \in Requests : Valid(req[q])'
  <2>1. \A q \in Requests : Valid(req'[q])
    BY <1>1 DEF IInv, RequestsAre
  <2> QED
    BY <1>2, <2>1 DEF Valid, Current, Sends, Verifies, LookedUp, Sound
<1>6. \A p, q \in Requests :
         p # q /\ Active(req'[p]) /\ Active(req'[q]) =>
           /\ ~Unmet(req'[p])
           /\ req'[p].op = "send" /\ req'[q].op = "send" => req'[p].arg # req'[q].arg
  BY <1>1 DEF IInv, RequestsAre, Unmet
<1> QED
  BY <1>1, <1>3, <1>4, <1>5, <1>6 DEF IInv, RequestsAre, Promises

LEMMA EndKeeps ==
  ASSUME IInv, NEW r \in Requests, End(r), UNCHANGED <<db, served>>
  PROVE  IInv'
  BY FreeValid, QuietKeeps DEF End, Free, Active


\* A request that goes on to another statement.
LEMMA GoKeeps ==
  ASSUME IInv, NEW r \in Requests, NEW at, Go(r, at), UNCHANGED <<db, served>>,
         Active(req[r]), Valid([req[r] EXCEPT !.at = at]), at = "refused" => req[r].met
  PROVE  IInv'
<1> DEFINE n == [req[r] EXCEPT !.at = at]
<1>1. /\ DOMAIN req[r] = Fields
      /\ n.op = req[r].op /\ n.arg = req[r].arg /\ n.met = req[r].met /\ n.at = at
  BY DEF IInv, RequestsAre, Valid, Fields, Free
<1> QED
  BY <1>1, QuietKeeps DEF Go

\* A row that is found and edited: the request has the edit of the row as it is.
LEMMA LoadedKeeps ==
  ASSUME IInv, NEW r \in Requests, Active(req[r]), req[r].at # "mail", ~Holds(req[r]),
         req[r].op \in Saves,
         NEW id \in DOMAIN users, Loaded(r, id), UNCHANGED <<db, served>>,
         req[r].op = "verify" => users[id].token = req[r].arg
  PROVE  IInv'
<1> DEFINE q == req[r]
           entity == Edited(q.op, users[id], q.arg)
           next == IF entity = users[id] /\ q.op = "login" THEN {"session", "reload"} ELSE {"reload"}
           n(at) == [q EXCEPT !.at = at, !.id = id, !.entity = entity]
<1>1. CASE End(r)
  BY <1>1, EndKeeps
<1>2. ASSUME NEW at \in next, Set(r, n(at)) PROVE IInv'
  <2>1. DOMAIN q = Fields /\ Valid(q)
    BY DEF IInv, RequestsAre, Valid
  <2>2. /\ DOMAIN n(at) = Fields /\ n(at).at = at /\ n(at).id = id /\ n(at).entity = entity
        /\ n(at).op = q.op /\ n(at).arg = q.arg /\ n(at).met = q.met
    BY <2>1 DEF Fields, Free
  <2>3. at \in {"session", "reload"} /\ (at = "session" => q.op = "login")
    OBVIOUS
  <2>4. DOMAIN entity = Columns
    <3>1. DOMAIN users[id] = Columns
      BY DEF IInv, RowsAre
    <3>2. Row(q.op, users[id], q.arg, entity)
      BY <3>1, EditedRow
    <3> QED
      BY <3>2 DEF Row
  <2> HIDE DEF next, entity, n
  <2>5. Staged(n(at))
    BY <2>2, <2>3 DEF Staged, Holds
  <2>6. Current(n(at))
    <3>1. id \in Ids \cap DOMAIN ruled
      BY DEF IInv, RowsAre
    <3> QED
      BY <2>2, <2>3, <2>4, <3>1 DEF Current, Holds, entity
  <2>7. Sends(n(at)) /\ Verifies(n(at))
    BY <2>1, <2>2, <2>3 DEF Valid, Sends, Verifies, Active
  <2>8. LookedUp(n(at))
    BY <2>2, <2>3 DEF LookedUp
  <2>9. Valid(n(at))
    BY <2>2, <2>5, <2>6, <2>7, <2>8 DEF Valid
  <2> QED
    BY <1>2, <2>2, <2>3, <2>9, QuietKeeps
<1> QED
  BY <1>1, <1>2 DEF Loaded

LEMMA GuardKeeps ==
  ASSUME IInv, NEW r \in Requests, Guard(r)
  PROVE  IInv'
<1> DEFINE q == req[r]
           at == IF q.op = "delete" THEN "delete" ELSE "load"
<1>1. q.at = "guard" /\ Active(q) /\ Valid(q) /\ UNCHANGED <<db, served>>
  BY DEF Guard, Active, IInv, RequestsAre
<1>2. CASE End(r)
  BY <1>1, <1>2, EndKeeps
<1>3. CASE Go(r, at)
  <2> DEFINE n == [q EXCEPT !.at = at]
  <2>1. /\ DOMAIN n = Fields /\ n.at = at /\ n.op = q.op /\ n.arg = q.arg
    BY <1>1 DEF Valid, Fields, Free
  <2> HIDE DEF n
  <2>2. Staged(n) /\ Current(n) /\ LookedUp(n)
    BY <1>1, <2>1 DEF Valid, Staged, Current, Holds, LookedUp, Unmet, Saves
  <2>3. Sends(n) /\ Verifies(n)
    BY <1>1, <2>1 DEF Valid, Sends, Verifies, Active
  <2>4. Valid(n)
    BY <2>1, <2>2, <2>3 DEF Valid
  <2> QED
    BY <1>1, <1>3, <2>4, GoKeeps DEF n
<1> QED
  BY <1>2, <1>3 DEF Guard

LEMMA FindKeeps ==
  ASSUME IInv, NEW r \in Requests, Load(r) \/ FindByToken(r)
  PROVE  IInv'
<1>1. /\ Valid(req[r]) /\ UNCHANGED <<db, served>> /\ req[r].at \in {"load", "byToken"}
      /\ req[r].at = "byToken" => req[r].op = "verify"
      /\ req[r].at = "load" => req[r].op \in Saves \ {"login", "verify"}
  BY DEF Load, FindByToken, IInv, RequestsAre, Valid, Staged
<1>2. Active(req[r]) /\ ~Holds(req[r]) /\ req[r].op \in Saves
  BY <1>1 DEF Active, Holds, Saves
<1>3. CASE End(r)
  BY <1>1, <1>3, EndKeeps
<1>4. CASE Load(r) /\ ~End(r)
  BY <1>1, <1>2, <1>4, LoadedKeeps DEF Load
<1>5. CASE FindByToken(r) /\ ~End(r)
  <2> DEFINE found == FoundBy("token", req[r].arg)
  <2>1. found # {} /\ Loaded(r, CHOOSE i \in found : TRUE)
    BY <1>5 DEF FindByToken
  <2>2. PICK id \in found : Loaded(r, id)
    BY <2>1
  <2>3. id \in DOMAIN users /\ users[id].token = req[r].arg
    BY <2>2 DEF FoundBy
  <2> QED
    BY <1>1, <1>2, <2>2, <2>3, LoadedKeeps
<1> QED
  BY <1>3, <1>4, <1>5

LEMMA LookUpKeeps ==
  ASSUME IInv, NEW r \in Requests, FindByGoogle(r) \/ FindByEmail(r)
  PROVE  IInv'
<1> DEFINE q == req[r]
<1>1. /\ Valid(q) /\ UNCHANGED <<db, served>> /\ q.at \in {"byGoogle", "byEmail"} /\ q.op = "login"
  BY DEF FindByGoogle, FindByEmail, IInv, RequestsAre, Valid, Staged
<1>2. Active(q) /\ ~Holds(q) /\ q.op \in Saves /\ DOMAIN q = Fields
  BY <1>1 DEF Active, Holds, Saves, Valid
<1>3. ASSUME NEW column, FoundBy(column, q.arg[column]) # {},
             Loaded(r, CHOOSE i \in FoundBy(column, q.arg[column]) : TRUE)
      PROVE  IInv'
  <2>1. PICK id \in FoundBy(column, q.arg[column]) : Loaded(r, id)
    BY <1>3
  <2> QED
    BY <1>1, <1>2, <2>1, LoadedKeeps DEF FoundBy
<1>4. ASSUME NEW at \in {"byEmail", "handle"}, Go(r, at),
             \A i \in DOMAIN users : users[i].google # q.arg.google \/ ~Unmet(q),
             at = "handle" => q.arg.email = None \/ \A i \in DOMAIN users : users[i].email # q.arg.email
      PROVE  IInv'
  <2> DEFINE n == [q EXCEPT !.at = at]
  <2>1. /\ DOMAIN n = Fields /\ n.at = at /\ n.op = q.op /\ n.arg = q.arg /\ n.met = q.met
    BY <1>2 DEF Fields, Free
  <2> HIDE DEF n
  <2>2. Staged(n) /\ Current(n) /\ Sends(n) /\ Verifies(n)
    BY <1>1, <1>4, <2>1 DEF Staged, Current, Holds, Sends, Verifies
  <2>3. Unmet(n) => Unmet(q)
    BY <1>1, <1>2, <2>1 DEF Unmet
  <2>4. LookedUp(n)
    BY <1>4, <2>1, <2>3 DEF LookedUp
  <2>5. Valid(n)
    BY <2>1, <2>2, <2>4 DEF Valid
  <2> QED
    BY <1>1, <1>2, <1>4, <2>5, GoKeeps DEF n
<1>5. CASE FindByGoogle(r)
  <2>1. CASE FoundBy("google", q.arg.google) = {}
    <3>1. Go(r, NextLookup(q.arg))
      BY <1>5, <2>1 DEF FindByGoogle
    <3>2. \A i \in DOMAIN users : users[i].google # q.arg.google
      BY <2>1 DEF FoundBy
    <3> QED
      BY <1>4, <3>1, <3>2 DEF NextLookup
  <2>2. CASE FoundBy("google", q.arg.google) # {}
    BY <1>3, <1>5, <2>2 DEF FindByGoogle
  <2> QED
    BY <2>1, <2>2
<1>6. CASE FindByEmail(r)
  <2>1. CASE FoundBy("email", q.arg.email) = {}
    <3>1. Go(r, "handle") /\ q.at = "byEmail"
      BY <1>6, <2>1 DEF FindByEmail
    <3>2. \A i \in DOMAIN users : users[i].email # q.arg.email
      BY <2>1 DEF FoundBy
    <3>3. \A i \in DOMAIN users : users[i].google # q.arg.google \/ ~Unmet(q)
      BY <1>1, <3>1 DEF Valid, LookedUp
    <3> QED
      BY <1>4, <3>1, <3>2, <3>3
  <2>2. CASE FoundBy("email", q.arg.email) # {}
    BY <1>3, <1>6, <2>2 DEF FindByEmail
  <2> QED
    BY <2>1, <2>2
<1> QED
  BY <1>5, <1>6


LEMMA UniqueHandleKeeps ==
  ASSUME IInv, NEW r \in Requests, UniqueHandle(r)
  PROVE  IInv'
<1> DEFINE q == req[r]
           found == FoundBy("handle", q.n + 1)
           at == IF found = {} THEN "insert" ELSE q.at
           n == [q EXCEPT !.n = q.n + 1, !.at = at]
<1>1. /\ Valid(q) /\ UNCHANGED <<db, served>> /\ q.at = "handle" /\ q.op = "login" /\ Active(q)
      /\ DOMAIN q = Fields
  BY DEF UniqueHandle, IInv, RequestsAre, Valid, Staged, Active
<1>2. Set(r, n)
  BY <1>1 DEF UniqueHandle
<1>3. /\ DOMAIN n = Fields /\ n.at = at /\ n.n = q.n + 1
      /\ n.op = q.op /\ n.arg = q.arg /\ n.met = q.met
  BY <1>1 DEF Fields, Free
<1>4. at \in {"insert", "handle"} /\ (at = "insert" => \A i \in DOMAIN users : users[i].handle # q.n + 1)
  BY <1>1 DEF FoundBy
<1> HIDE DEF n, at
<1>5. Staged(n) /\ Current(n) /\ Sends(n) /\ Verifies(n)
  BY <1>1, <1>3, <1>4 DEF Staged, Current, Holds, Sends, Verifies
<1>6. Unmet(n) => Unmet(q)
  BY <1>1, <1>3 DEF Unmet
<1>7. LookedUp(n)
  BY <1>1, <1>3, <1>4, <1>6 DEF Valid, LookedUp
<1>8. Valid(n)
  BY <1>3, <1>5, <1>7 DEF Valid
<1> QED
  BY <1>1, <1>2, <1>3, <1>4, <1>8, QuietKeeps

LEMMA ReloadKeeps ==
  ASSUME IInv, NEW r \in Requests, Reload(r)
  PROVE  IInv'
<1> DEFINE q == req[r]
           cols == IF q.id \notin DOMAIN users THEN {"insert"}
                   ELSE {c \in DOMAIN q.entity : q.entity[c] # users[q.id][c]}
           n == [q EXCEPT !.at = "write", !.cols = cols]
<1>1. /\ Valid(q) /\ UNCHANGED <<db, served>> /\ q.at = "reload" /\ Active(q) /\ DOMAIN q = Fields
  BY DEF Reload, IInv, RequestsAre, Valid, Active
<1>2. Set(r, n)
  BY DEF Reload
<1>3. /\ DOMAIN n = Fields /\ n.at = "write" /\ n.cols = cols /\ n.id = q.id /\ n.entity = q.entity
      /\ n.op = q.op /\ n.arg = q.arg /\ n.met = q.met
  BY <1>1 DEF Fields, Free
<1>4. q.id \in DOMAIN users => cols = Differ(q.entity, users[q.id])
  BY DEF Differ
<1> HIDE DEF n, cols
<1>5. Staged(n)
  BY <1>1, <1>3 DEF Valid, Staged, Holds
<1>6. Current(n)
  BY <1>1, <1>3, <1>4 DEF Valid, Current, Holds, Sound
<1>7. Sends(n) /\ Verifies(n)
  BY <1>1, <1>3 DEF Valid, Sends, Verifies, Active
<1>8. LookedUp(n)
  BY <1>3 DEF LookedUp
<1>9. Valid(n)
  BY <1>3, <1>5, <1>6, <1>7, <1>8 DEF Valid
<1> QED
  BY <1>1, <1>2, <1>3, <1>9, QuietKeeps

LEMMA EndingKeeps ==
  ASSUME IInv, NEW r \in Requests, IssueSession(r) \/ Fail(r)
  PROVE  IInv'
  BY EndKeeps DEF IssueSession, Fail

-----------------------------------------------------------------------------
(* The beginnings                                                          *)

LEMMA BeginKeeps ==
  ASSUME IInv, NEW r \in Requests, NEW op, NEW at, NEW by, NEW id, NEW arg,
         Begin(r, op, at, by, id, arg), at \in {"guard", "load", "byToken", "byGoogle"},
         at = "guard" => op \in {"profile", "brand", "send", "delete"},
         at = "load" => op \in Saves \ {"login", "verify"},
         at = "byToken" => op = "verify", at = "byGoogle" => op = "login",
         op = "send" => arg = served + 1,
         op = "verify" => arg \in 1..MaxRequests /\ mailed[arg] # None
  PROVE  IInv'
<1> DEFINE others == {q \in Requests \ {r} : Busy(q)}
           met == op = "login" /\ others # {}
           n == [Free EXCEPT !.op = op, !.at = at, !.by = by, !.id = id, !.arg = arg, !.met = met]
<1>1. /\ UNCHANGED <<users, mailed, lost, proven, ruled, deleted>>
      /\ served' = served + 1 /\ served < MaxRequests /\ ~Active(req[r])
  BY DEF Begin, db, Busy, Active
<1>2. /\ req' = [q \in Requests |->
            IF q = r THEN n
            ELSE IF q \in others /\ req[q].op = "login" THEN [req[q] EXCEPT !.met = TRUE] ELSE req[q]]
  BY DEF Begin
<1>3. /\ DOMAIN req'[r] = Fields /\ req'[r].op = op /\ req'[r].at = at /\ req'[r].arg = arg
      /\ req'[r].met = met
  BY <1>2 DEF Fields, Free
<1>4. served \in 0..MaxRequests /\ \A t \in 1..MaxRequests : mailed[t] # None => t <= served
  BY DEF IInv, Tokens
<1>5. served' \in 0..MaxRequests /\ \A t : t \in 1..served => t \in 1..served'
  BY <1>1, <1>4, AccountsAssumption
<1>6. RowsAre' /\ Tokens' /\ VerifiedWasProven' /\ DecisionsHold'
  <2>1. RowsAre' /\ VerifiedWasProven' /\ DecisionsHold'
    BY <1>1 DEF IInv, RowsAre, Promises, VerifiedWasProven, DecisionsHold, Sound
  <2>2. Tokens'
    BY <1>1, <1>4, <1>5, AccountsAssumption DEF IInv, Tokens, Sound
  <2> QED
    BY <2>1, <2>2
<1>7. Valid(req[r])'
  <2>1. Staged(req[r])' /\ Current(req[r])' /\ LookedUp(req[r])'
    BY <1>3 DEF Staged, Current, Holds, LookedUp, Saves
  <2>2. Sends(req[r])'
    <3> SUFFICES ASSUME op = "send"
                 PROVE  /\ arg \in 1..served' /\ mailed'[arg] = None
                        /\ \A i \in Sound' : users'[i].token # arg
      BY <1>3 DEF Sends, Active
    <3>1. arg = served + 1 /\ arg \in 1..MaxRequests /\ arg \in 1..served'
      BY <1>1, <1>4, AccountsAssumption
    <3>2. mailed[arg] = None
      BY <1>4, <3>1, AccountsAssumption
    <3>3. \A i \in Sound : users[i].token # arg
      BY <1>4, <3>1, AccountsAssumption DEF IInv, Tokens
    <3> QED
      BY <1>1, <3>1, <3>2, <3>3 DEF Sound
  <2>3. Verifies(req[r])'
    BY <1>1, <1>3 DEF Verifies
  <2> QED
    BY <1>3, <2>1, <2>2, <2>3 DEF Valid
<1>8. \A q \in Requests \ {r} :
        /\ DOMAIN req'[q] = Fields /\ req'[q].op = req[q].op /\ req'[q].at = req[q].at
        /\ req'[q].id = req[q].id /\ req'[q].arg = req[q].arg /\ req'[q].entity = req[q].entity
        /\ req'[q].cols = req[q].cols /\ req'[q].n = req[q].n
        /\ req[q].met => req'[q].met
        /\ Active(req[q]) /\ req[q].op = "login" => req'[q].met
  BY <1>2 DEF IInv, RequestsAre, Valid, Fields, Free, Busy, Active
<1>9. ASSUME NEW q \in Requests \ {r} PROVE Valid(req[q])'
  <2> DEFINE m == req'[q]
  <2>1. Valid(req[q]) /\ (Unmet(m) => Unmet(req[q]))
    BY <1>8 DEF IInv, RequestsAre, Unmet, Active
  <2>2. Staged(m)
    BY <1>8, <2>1 DEF Valid, Staged, Holds
  <2>3. Current(req[q])'
    BY <1>1, <1>8, <2>1 DEF Valid, Current, Holds, Sound
  <2>4. Sends(req[q])'
    BY <1>1, <1>5, <1>8, <2>1 DEF Valid, Sends, Active, Sound
  <2>5. Verifies(req[q])'
    BY <1>1, <1>8, <2>1 DEF Valid, Verifies, Active
  <2>6. LookedUp(req[q])'
    BY <1>1, <1>8, <2>1 DEF Valid, LookedUp
  <2> QED
    BY <1>8, <2>2, <2>3, <2>4, <2>5, <2>6 DEF Valid
<1>10. served + 1 \notin 1..served
  BY <1>4, AccountsAssumption
<1>11. \A p, q \in Requests :
         p # q /\ Active(req'[p]) /\ Active(req'[q]) =>
           /\ ~Unmet(req'[p])
           /\ req'[p].op = "send" /\ req'[q].op = "send" => req'[p].arg # req'[q].arg
  <2> SUFFICES ASSUME NEW p \in Requests, NEW q \in Requests, p # q, Active(req'[p]), Active(req'[q])
               PROVE  /\ ~Unmet(req'[p])
                      /\ req'[p].op = "send" /\ req'[q].op = "send" => req'[p].arg # req'[q].arg
    OBVIOUS
  <2>1. CASE p = r
    <3>1. Active(req[q]) /\ q \in others
      BY <1>8, <2>1 DEF Active, Busy
    <3>2. ~Unmet(req'[p])
      BY <1>3, <2>1, <3>1 DEF Unmet
    <3>3. req[q].op = "send" => req[q].arg \in 1..served
      BY <3>1 DEF IInv, RequestsAre, Valid, Sends
    <3>4. req'[p].arg = arg /\ req'[q].arg = req[q].arg /\ req'[p].op = op /\ req'[q].op = req[q].op
      BY <1>3, <1>8, <2>1
    <3> QED
      BY <1>10, <3>2, <3>3, <3>4
  <2>2. CASE q = r
    <3>1. Active(req[p])
      BY <1>8, <2>2 DEF Active
    <3>2. ~Unmet(req'[p])
      BY <1>8, <2>2, <3>1 DEF Unmet
    <3>3. req[p].op = "send" => req[p].arg \in 1..served
      BY <3>1 DEF IInv, RequestsAre, Valid, Sends
    <3>4. req'[q].arg = arg /\ req'[p].arg = req[p].arg /\ req'[q].op = op /\ req'[p].op = req[p].op
      BY <1>3, <1>8, <2>2
    <3> QED
      BY <1>10, <3>2, <3>3, <3>4
  <2>3. CASE p # r /\ q # r
    BY <1>8, <2>3 DEF IInv, RequestsAre, Unmet, Active
  <2> QED
    BY <2>1, <2>2, <2>3
<1>12. RequestsAre'
  <2>1. DOMAIN req' = Requests
    BY <1>2
  <2> QED
    BY <1>7, <1>9, <1>11, <2>1 DEF RequestsAre
<1>13. LoginAlone'
  BY <1>3, <1>8 DEF IInv, Promises, LoginAlone
<1> QED
  BY <1>6, <1>12, <1>13 DEF IInv, Promises

LEMMA BeginningsKeep ==
  ASSUME IInv, NEW r \in Requests,
         BeginLogin(r) \/ BeginOwn(r) \/ BeginLink(r) \/ BeginAdmin(r) \/ BeginVerify(r)
  PROVE  IInv'
<1>1. CASE BeginLogin(r)
  BY <1>1, BeginKeeps DEF BeginLogin
<1>2. CASE BeginOwn(r)
  BY <1>2, BeginKeeps DEF BeginOwn
<1>5. CASE BeginLink(r)
  BY <1>5, BeginKeeps DEF BeginLink, Saves
<1>3. CASE BeginAdmin(r)
  BY <1>3, BeginKeeps DEF BeginAdmin, Saves
<1>4. CASE BeginVerify(r)
  <2>1. PICK t \in DOMAIN mailed : mailed[t] # None /\ Begin(r, "verify", "byToken", None, None, t)
    BY <1>4 DEF BeginVerify
  <2> QED
    BY <2>1, BeginKeeps DEF IInv, Tokens
<1> QED
  BY <1>1, <1>2, <1>3, <1>4, <1>5


-----------------------------------------------------------------------------
(* The steps that write the tables                                         *)

LEMMA ExpireKeeps ==
  ASSUME IInv, NEW t, Expire(t)
  PROVE  IInv'
<1>1. UNCHANGED <<users, mailed, req, served, lost, proven, ruled, deleted>>
  BY DEF Expire
<1>2. RequestsAre'
  BY <1>1 DEF IInv, RequestsAre, Valid, Staged, Current, Holds, Sends, Verifies, LookedUp, Unmet, Active, Sound
<1>3. RowsAre' /\ Tokens' /\ Promises'
  BY <1>1 DEF IInv, RowsAre, Tokens, Promises, VerifiedWasProven, DecisionsHold, LoginAlone, Sound
<1> QED
  BY <1>2, <1>3 DEF IInv

\* What is left to show when a request writes: the other requests keep to what
\* they know, this one too, and the rows and tokens are right.
LEMMA TableKeeps ==
  ASSUME IInv, NEW r \in Requests, NEW n, Set(r, n), Active(req[r]), UNCHANGED served,
         Active(n) => n.op = req[r].op /\ n.arg = req[r].arg /\ n.met = req[r].met,
         n.at # "refused", Valid(req[r])',
         \A q \in Requests \ {r} : Active(req[q]) /\ ~Unmet(req[q]) => Valid(req[q])',
         RowsAre', Tokens', VerifiedWasProven', DecisionsHold'
  PROVE  IInv'
<1>1. DOMAIN req' = Requests /\ req'[r] = n /\ \A q \in Requests \ {r} : req'[q] = req[q]
  BY SetOnly
<1>2. \A q \in Requests \ {r} : Valid(req[q])'
  <2> SUFFICES ASSUME NEW q \in Requests \ {r}, ~Active(req[q]) PROVE Valid(req[q])'
    BY DEF IInv, RequestsAre
  <2> QED
    BY <1>1 DEF IInv, RequestsAre, Valid, Staged, Current, Holds, Sends, Verifies, LookedUp, Unmet, Active
<1>4. \A p, q \in Requests :
         p # q /\ Active(req'[p]) /\ Active(req'[q]) =>
           /\ ~Unmet(req'[p])
           /\ req'[p].op = "send" /\ req'[q].op = "send" => req'[p].arg # req'[q].arg
  BY <1>1 DEF IInv, RequestsAre, Unmet
<1>5. LoginAlone'
  BY <1>1 DEF IInv, Promises, LoginAlone
<1> QED
  BY <1>1, <1>2, <1>4, <1>5 DEF IInv, RequestsAre, Promises

LEMMA MailKeeps ==
  ASSUME IInv, NEW r \in Requests, Mail(r)
  PROVE  IInv'
<1> DEFINE arg == req[r].arg
           contact == req[r].entity.contact
           free == [Free EXCEPT !.at = "idle"]
<1>1. /\ UNCHANGED <<users, served, lost, proven, ruled, deleted>>
      /\ Set(r, free) /\ mailed' = [mailed EXCEPT ![arg] = contact]
  BY DEF Mail, End
<1>2. /\ req[r].at = "mail" /\ req[r].op = "send" /\ Active(req[r]) /\ Valid(req[r])
  BY DEF Mail, IInv, RequestsAre, Valid, Staged, Active
<1>3. /\ arg \in 1..served /\ mailed[arg] = None
      /\ \A i \in Sound : users[i].token = arg => users[i].contact = contact
  BY <1>2 DEF Valid, Sends
<1>4. /\ DOMAIN mailed = 1..MaxRequests /\ served \in 0..MaxRequests /\ arg \in 1..MaxRequests
  BY <1>3, AccountsAssumption DEF IInv, Tokens
<1>5. /\ DOMAIN mailed' = 1..MaxRequests /\ mailed'[arg] = contact
      /\ \A t \in 1..MaxRequests : t # arg => mailed'[t] = mailed[t]
  BY <1>1, <1>4
<1>6. RowsAre' /\ VerifiedWasProven' /\ DecisionsHold'
  BY <1>1 DEF IInv, RowsAre, Promises, VerifiedWasProven, DecisionsHold, Sound
<1>7. Tokens'
  <2>1. \A t \in 1..MaxRequests : mailed'[t] # None => t <= served
    BY <1>3, <1>4, <1>5 DEF IInv, Tokens
  <2>2. ASSUME NEW i \in Sound, users[i].token # None
        PROVE  users[i].token \in 1..served /\ mailed'[users[i].token] \in {None, users[i].contact}
    <3>1. users[i].token \in 1..served /\ mailed[users[i].token] \in {None, users[i].contact}
      BY <2>2 DEF IInv, Tokens
    <3>2. users[i].token \in 1..MaxRequests
      BY <1>4, <3>1, AccountsAssumption
    <3> QED
      BY <1>3, <1>5, <3>1, <3>2
  <2> QED
    BY <1>1, <1>4, <1>5, <2>1, <2>2 DEF Tokens, Sound
<1>8. Valid(req[r])'
  <2>1. req'[r] = free
    BY <1>1, SetOnly
  <2> QED
    BY <2>1 DEF Valid, Fields, Free, Staged, Current, Holds, Sends, Verifies, LookedUp, Unmet, Active
<1>9. ASSUME NEW q \in Requests \ {r}, Active(req[q]) PROVE Valid(req[q])'
  <2>1. Valid(req[q]) /\ req'[q] = req[q]
    BY <1>1 DEF IInv, RequestsAre, Set
  <2>2. Staged(req'[q]) /\ Current(req[q])' /\ LookedUp(req[q])'
    BY <1>1, <2>1 DEF Valid, Current, LookedUp, Sound
  <2>3. Sends(req[q])'
    <3> SUFFICES ASSUME req[q].op = "send" PROVE Sends(req[q])'
      BY <2>1 DEF Sends
    <3>1. req[q].arg # arg /\ req[q].arg \in 1..served
      BY <1>2, <1>9, <2>1 DEF IInv, RequestsAre, Valid, Sends
    <3>2. mailed'[req[q].arg] = mailed[req[q].arg]
      BY <1>4, <1>5, <3>1, AccountsAssumption
    <3> QED
      BY <1>1, <1>9, <2>1, <3>1, <3>2 DEF Valid, Sends, Sound
  <2>4. Verifies(req[q])'
    BY <1>3, <1>5, <2>1 DEF Valid, Verifies
  <2> QED
    BY <2>1, <2>2, <2>3, <2>4 DEF Valid
<1> QED
  BY <1>1, <1>2, <1>6, <1>7, <1>8, <1>9, TableKeeps DEF Free, Active

LEMMA DeleteKeeps ==
  ASSUME IInv, NEW r \in Requests, DeleteAccount(r)
  PROVE  IInv'
<1> DEFINE free == [Free EXCEPT !.at = "idle"]
           id == req[r].id
<1>1. /\ UNCHANGED <<mailed, served, lost, proven, ruled>> /\ Set(r, free) /\ Active(req[r])
      /\ DOMAIN users' = DOMAIN users \ {id} /\ \A i \in DOMAIN users' : users'[i] = users[i]
      /\ deleted' = deleted \cup {id}
  BY DEF DeleteAccount, End, Active
<1>2. Sound' = Sound \ {id} /\ \A i \in Sound' : users'[i] = users[i]
  BY <1>1 DEF Sound
<1>3. RowsAre' /\ Tokens'
  BY <1>1, <1>2 DEF IInv, RowsAre, Tokens
<1>4. VerifiedWasProven' /\ DecisionsHold'
  BY <1>1, <1>2 DEF IInv, Promises, VerifiedWasProven, DecisionsHold, Sound
<1>5. Valid(req[r])'
  <2>1. req'[r] = free
    BY <1>1, SetOnly
  <2> QED
    BY <2>1 DEF Valid, Fields, Free, Staged, Current, Holds, Sends, Verifies, LookedUp, Unmet, Active
<1>6. ASSUME NEW q \in Requests \ {r} PROVE Valid(req[q])'
  <2>1. Valid(req[q]) /\ req'[q] = req[q]
    BY <1>1 DEF IInv, RequestsAre, Set
  <2>2. Staged(req'[q]) /\ Current(req[q])'
    BY <1>1, <1>2, <2>1 DEF Valid, Current
  <2>3. Sends(req[q])' /\ Verifies(req[q])'
    BY <1>1, <1>2, <2>1 DEF Valid, Sends, Verifies
  <2>4. LookedUp(req[q])'
    BY <1>1, <2>1 DEF Valid, LookedUp
  <2> QED
    BY <2>1, <2>2, <2>3, <2>4 DEF Valid
<1> QED
  BY <1>1, <1>3, <1>4, <1>5, <1>6, TableKeeps DEF Free, Active

LEMMA InsertKeeps ==
  ASSUME IInv, NEW r \in Requests, Insert(r)
  PROVE  IInv'
<1> DEFINE q == req[r]
           row == NewUser(q.arg, q.n)
           id == CHOOSE i \in Unused : TRUE
           n == [q EXCEPT !.at = "session", !.id = id, !.entity = row]
<1>1. /\ Valid(q) /\ q.at = "insert" /\ q.op = "login" /\ Active(q) /\ DOMAIN q = Fields
      /\ UNCHANGED <<served, mailed, expired, lost, proven, deleted>>
  BY DEF Insert, IInv, RequestsAre, Valid, Staged, Active
<1>2. id \in Unused /\ id \in Ids /\ id \notin DOMAIN users /\ id \notin deleted
  BY DEF Insert, Unused
<1>3. CASE Collides(row, id)
  <2>1. Go(r, "refused") /\ UNCHANGED <<db, served>>
    BY <1>1, <1>3 DEF Insert, db
  <2>2. q.met
    <3> SUFFICES ASSUME ~q.met PROVE FALSE
      OBVIOUS
    <3>1. /\ \A i \in DOMAIN users : users[i].google # q.arg.google /\ users[i].handle # q.n
          /\ q.arg.email = None \/ \A i \in DOMAIN users : users[i].email # q.arg.email
      BY <1>1 DEF Valid, LookedUp, Unmet
    <3> QED
      BY <1>3, <3>1 DEF Collides, NewUser
  <2> DEFINE m == [q EXCEPT !.at = "refused"]
  <2>3. DOMAIN m = Fields /\ m.at = "refused"
    BY <1>1 DEF Fields, Free
  <2> HIDE DEF m
  <2>4. Valid(m)
    BY <2>3 DEF Valid, Staged, Current, Holds, Sends, Verifies, LookedUp, Unmet, Active
  <2> QED
    BY <1>1, <2>1, <2>2, <2>4, GoKeeps DEF m
<1>4. CASE ~Collides(row, id)
  <2>1. users' = Put(users, id, row) /\ ruled' = Put(ruled, id, Of(row)) /\ Set(r, n)
    BY <1>4 DEF Insert
  <2>2. /\ DOMAIN row = Columns /\ row.verified = FALSE /\ row.token = None
    BY DEF NewUser, Columns
  <2>3. /\ DOMAIN n = Fields /\ n.at = "session" /\ n.op = q.op /\ n.arg = q.arg /\ n.met = q.met
    BY <1>1 DEF Fields, Free
  <2> HIDE DEF n, row, id
  <2>4. /\ DOMAIN users' = DOMAIN users \cup {id} /\ users'[id] = row
        /\ \A j \in DOMAIN users : users'[j] = users[j]
    BY <1>2, <2>1 DEF Put
  <2>5. /\ DOMAIN ruled' = DOMAIN ruled \cup {id} /\ ruled'[id] = Of(row)
        /\ \A j \in DOMAIN users : ruled'[j] = ruled[j]
    BY <1>2, <2>1 DEF Put, IInv, RowsAre
  <2>6. Sound' \subseteq Sound \cup {id} /\ \A i \in Sound : users'[i] = users[i]
    BY <1>1, <2>4 DEF Sound
  <2>7. RowsAre'
    BY <1>1, <1>2, <2>2, <2>4, <2>5 DEF IInv, RowsAre
  <2>8. Tokens'
    BY <1>1, <2>2, <2>4, <2>6 DEF IInv, Tokens
  <2>9. VerifiedWasProven'
    BY <1>1, <2>2, <2>4, <2>6 DEF IInv, Promises, VerifiedWasProven, Sound
  <2>10. DecisionsHold'
    BY <1>1, <2>4, <2>5, <2>6 DEF IInv, Promises, DecisionsHold, Sound, Of
  <2>11. Valid(req[r])'
    <3>1. req'[r] = n
      BY <2>1, SetOnly
    <3>2. /\ DOMAIN req'[r] = Fields /\ req'[r].at = "session" /\ req'[r].op = "login"
      BY <1>1, <2>3, <3>1
    <3>3. Staged(req[r])' /\ Current(req[r])' /\ Sends(req[r])' /\ Verifies(req[r])' /\ LookedUp(req[r])'
      BY <3>2 DEF Staged, Current, Holds, Sends, Verifies, LookedUp, Saves
    <3> QED
      BY <3>2, <3>3 DEF Valid
  <2>12. ASSUME NEW p \in Requests \ {r}, Active(req[p]), ~Unmet(req[p]) PROVE Valid(req[p])'
    <3>1. Valid(req[p]) /\ req'[p] = req[p]
      BY <2>1, SetOnly DEF IInv, RequestsAre
    <3>2. Staged(req'[p])
      BY <3>1 DEF Valid
    <3>3. Current(req[p])'
      <4> SUFFICES ASSUME Holds(req[p]) PROVE Current(req[p])'
        BY <3>1 DEF Current
      <4>1. /\ DOMAIN req[p].entity = Columns
            /\ req[p].id \in (DOMAIN users \cup deleted) \cap Ids \cap DOMAIN ruled
            /\ req[p].id # id
        BY <1>2, <3>1 DEF Valid, Current
      <4>2. req[p].id \in Sound' => req[p].id \in Sound /\ users'[req[p].id] = users[req[p].id]
        BY <2>6, <4>1
      <4> QED
        BY <1>1, <2>4, <2>5, <3>1, <4>1, <4>2 DEF Valid, Current
    <3>4. Sends(req[p])'
      <4> SUFFICES ASSUME req[p].op = "send" PROVE Sends(req[p])'
        BY <3>1 DEF Sends
      <4>1. req[p].arg \in 1..served /\ req[p].arg # None
        BY <2>12, <3>1, AccountsAssumption DEF Valid, Sends, IInv, Tokens
      <4> QED
        BY <1>1, <2>2, <2>4, <2>6, <2>12, <3>1, <4>1 DEF Valid, Sends
    <3>5. Verifies(req[p])'
      BY <1>1, <3>1 DEF Valid, Verifies
    <3>6. LookedUp(req[p])'
      BY <2>12, <3>1 DEF LookedUp, Unmet
    <3> QED
      BY <3>1, <3>2, <3>3, <3>4, <3>5, <3>6 DEF Valid
  <2> QED
    BY <1>1, <2>1, <2>3, <2>7, <2>8, <2>9, <2>10, <2>11, <2>12, TableKeeps
<1> QED
  BY <1>3, <1>4

\* The save that reaches its row: unless saves overlapped on it, the row
\* becomes the entity.
LEMMA WriteKeeps ==
  ASSUME IInv, NEW r \in Requests, Write(r)
  PROVE  IInv'
<1> DEFINE q == req[r]
           inserts == q.cols = {"insert"}
           gone == q.id \notin DOMAIN users
           row == IF gone THEN q.entity
                  ELSE [c \in DOMAIN q.entity |-> IF c \in q.cols THEN q.entity[c] ELSE users[q.id][c]]
           at == IF q.op = "send" THEN "mail" ELSE "session"
           n == IF q.op \in {"send", "login"} THEN [q EXCEPT !.at = at] ELSE [Free EXCEPT !.at = "idle"]
<1>1. /\ Valid(q) /\ q.at = "write" /\ q.op \in Saves /\ Active(q) /\ Holds(q) /\ DOMAIN q = Fields
      /\ UNCHANGED <<served, mailed, expired, deleted>>
  BY DEF Write, IInv, RequestsAre, Valid, Staged, Active, Holds
<1>2. After(r) => Set(r, n)
  BY DEF After, Go, End
<1>3. /\ DOMAIN n = Fields
      /\ q.op = "send" => n.at = "mail"
      /\ q.op = "login" => n.at = "session"
      /\ q.op \notin {"send", "login"} => n.at = "idle"
      /\ Active(n) => n.op = q.op /\ n.arg = q.arg /\ n.met = q.met /\ n.entity = q.entity
  BY <1>1 DEF Fields, Free, Active
<1>4. /\ DOMAIN q.entity = Columns /\ q.id \in (DOMAIN users \cup deleted) \cap Ids \cap DOMAIN ruled
      /\ q.id \in Sound => /\ q.entity = Edited(q.op, users[q.id], q.arg)
                           /\ q.cols = Differ(q.entity, users[q.id])
                           /\ q.op = "verify" => users[q.id].token = q.arg
  BY <1>1 DEF Valid, Current
<1>5. CASE End(r) /\ UNCHANGED <<users, lost, ruled, proven>>
  BY <1>1, <1>5, EndKeeps DEF db
<1>6. CASE After(r) /\ UNCHANGED <<users, lost, ruled, proven>> /\ gone
  <2> HIDE DEF n
  <2>1. Staged(n) /\ Current(n) /\ Verifies(n) /\ LookedUp(n)
    BY <1>1, <1>3 DEF Valid, Staged, Current, Holds, Verifies, LookedUp, Active, Saves
  <2>2. Sends(n)
    BY <1>1, <1>3 DEF Valid, Sends, Active
  <2>3. Valid(n)
    BY <1>3, <2>1, <2>2 DEF Valid
  <2> QED
    BY <1>1, <1>2, <1>3, <1>6, <2>3, QuietKeeps DEF db
<1>7. ASSUME users' = Put(users, q.id, row),
             lost' = IF gone \/ Saving(q.id) # {r} THEN lost \cup {q.id} ELSE lost,
             ruled' = [ruled EXCEPT ![q.id] = Rule(q, q.id)],
             proven' = IF q.op = "verify" THEN [proven EXCEPT ![q.id] = @ \cup {mailed[q.arg]}] ELSE proven,
             After(r)
      PROVE  IInv'
  <2> DEFINE id == q.id
             old == users[id]
  <2>1. /\ DOMAIN users' = DOMAIN users \cup {id} /\ users'[id] = row
        /\ \A i \in DOMAIN users \ {id} : users'[i] = users[i]
    BY <1>7 DEF Put
  <2>2. /\ DOMAIN ruled' = DOMAIN ruled /\ \A i \in DOMAIN ruled \ {id} : ruled'[i] = ruled[i]
        /\ ruled'[id] = Rule(q, id)
    BY <1>4, <1>7
  <2>3. /\ DOMAIN proven' = Ids /\ \A i \in Ids : i # id => proven'[i] = proven[i]
        /\ proven[id] \subseteq proven'[id]
        /\ q.op = "verify" => mailed[q.arg] \in proven'[id]
    BY <1>4, <1>7 DEF IInv, RowsAre
  <2>4. Sound' \subseteq Sound /\ \A i \in Sound' \ {id} : users'[i] = users[i]
    BY <1>7, <2>1 DEF Sound
  <2>5. ASSUME id \in Sound'
        PROVE  /\ Saving(id) = {r} /\ id \in Sound /\ row = q.entity
               /\ q.entity = Edited(q.op, old, q.arg) /\ DOMAIN old = Columns
               /\ q.op = "verify" => old.token = q.arg
    <3>1. Saving(id) = {r} /\ ~gone /\ id \in Sound
      BY <1>7, <2>4, <2>5 DEF Sound
    <3>2. DOMAIN old = Columns
      BY <3>1 DEF IInv, RowsAre
    <3>3. \A c \in DOMAIN q.entity : c \notin q.cols => q.entity[c] = old[c]
      BY <1>4, <3>1 DEF Differ
    <3>4. row = [c \in DOMAIN q.entity |-> q.entity[c]]
      BY <3>1, <3>3
    <3>5. q.entity = [c \in DOMAIN q.entity |-> q.entity[c]]
      BY <1>4, <3>1, <3>2, EditedIsRow, <1>1
    <3> QED
      BY <1>4, <3>1, <3>2, <3>4, <3>5
  <2>6. RowsAre'
    <3>1. DOMAIN row = Columns
      BY <1>4
    <3> QED
      BY <1>4, <2>1, <2>2, <2>3, <3>1 DEF IInv, RowsAre
  <2> HIDE DEF row, n
  <2>7. id \in Sound' => Row(q.op, old, q.arg, row) /\ row.contact = q.entity.contact
    BY <1>1, <2>5, EditedRow
  <2>8. Tokens'
    <3>1. ASSUME NEW i \in Sound', users'[i].token # None
          PROVE  users'[i].token \in 1..served /\ mailed[users'[i].token] \in {None, users'[i].contact}
      <4>1. CASE i # id
        BY <2>4, <3>1, <4>1 DEF IInv, Tokens
      <4>2. CASE i = id /\ q.op = "send"
        BY <1>1, <2>1, <2>7, <3>1, <4>2 DEF Valid, Sends, Row
      <4>3. CASE i = id /\ q.op # "send"
        <5>1. row.token = old.token /\ row.contact = old.contact /\ id \in Sound
          BY <2>1, <2>4, <2>7, <3>1, <4>3 DEF Row
        <5> QED
          BY <2>1, <3>1, <4>3, <5>1 DEF IInv, Tokens
      <4> QED
        BY <4>1, <4>2, <4>3
    <3> QED
      BY <1>1, <3>1 DEF IInv, Tokens
  <2>9. VerifiedWasProven'
    <3>1. ASSUME NEW i \in Sound', users'[i].verified
          PROVE  users'[i].contact \in proven'[i]
      <4>1. CASE i # id
        <5>1. i \in Ids /\ i \in Sound
          BY <2>4 DEF Sound, IInv, RowsAre
        <5> QED
          BY <2>3, <2>4, <3>1, <4>1, <5>1 DEF IInv, Promises, VerifiedWasProven, Sound
      <4>2. CASE i = id /\ q.op = "verify"
        <5>1. mailed[q.arg] # None /\ old.token = q.arg /\ id \in Sound /\ q.arg # None
          BY <1>1, <2>5, <3>1, <4>2, AccountsAssumption DEF Valid, Verifies
        <5>2. mailed[q.arg] = old.contact
          BY <5>1 DEF IInv, Tokens
        <5> QED
          BY <2>1, <2>3, <2>7, <3>1, <4>2, <5>2 DEF Row
      <4>3. CASE i = id /\ q.op # "verify"
        <5>1. row.verified = old.verified /\ row.contact = old.contact /\ old.verified /\ id \in Sound
          BY <2>1, <2>4, <2>7, <3>1, <4>3 DEF Row
        <5> QED
          BY <2>1, <2>3, <4>3, <5>1 DEF IInv, Promises, VerifiedWasProven, Sound
      <4> QED
        BY <4>1, <4>2, <4>3
    <3> QED
      BY <3>1 DEF VerifiedWasProven, Sound
  <2>10. DecisionsHold'
    <3>1. ASSUME NEW i \in Sound' PROVE Of(users'[i]) = ruled'[i]
      <4>1. i \in Sound /\ i \in DOMAIN ruled /\ Of(users[i]) = ruled[i]
        BY <2>4, <3>1 DEF Sound, IInv, RowsAre, Promises, DecisionsHold
      <4>2. CASE i # id
        BY <2>2, <2>4, <3>1, <4>1, <4>2
      <4>3. CASE i = id
        <5>1. DOMAIN ruled[id] = {"role", "blocked"} /\ ruled[id] = Of(old) /\ id \in DOMAIN users
          BY <4>1, <4>3 DEF Of, Sound
        <5>2. Of(q.entity) = Rule(q, id)
          BY <1>1, <2>5, <3>1, <4>3, <5>1, EditedRule
        <5> QED
          BY <2>1, <2>2, <2>5, <3>1, <4>3, <5>2
      <4> QED
        BY <4>2, <4>3
    <3> QED
      BY <3>1 DEF DecisionsHold, Sound
  <2>11. req'[r] = n /\ \A p \in Requests \ {r} : req'[p] = req[p]
    BY <1>2, <1>7, SetOnly
  <2>12. Valid(req[r])'
    <3>1. Staged(req[r])' /\ Current(req[r])' /\ Verifies(req[r])' /\ LookedUp(req[r])'
      BY <1>1, <1>3, <2>11 DEF Staged, Current, Holds, Verifies, LookedUp, Saves, Active
    <3>2. Sends(req[r])'
      <4> SUFFICES ASSUME q.op = "send" PROVE Sends(req[r])'
        BY <1>3, <2>11 DEF Sends, Active
      <4>1. /\ q.arg \in 1..served /\ mailed[q.arg] = None
            /\ \A i \in Sound : users[i].token # q.arg
        BY <1>1 DEF Valid, Sends
      <4>2. req'[r].at = "mail" /\ req'[r].arg = q.arg /\ req'[r].entity = q.entity
        BY <1>3, <2>11 DEF Active
      <4>3. \A i \in Sound' : users'[i].token = q.arg => users'[i].contact = q.entity.contact
        BY <2>1, <2>4, <2>7, <4>1 DEF Row
      <4> QED
        BY <1>1, <4>1, <4>2, <4>3 DEF Sends
    <3> QED
      BY <1>3, <2>11, <3>1, <3>2 DEF Valid
  <2>13. ASSUME NEW p \in Requests \ {r}, Active(req[p]), ~Unmet(req[p]) PROVE Valid(req[p])'
    <3>1. Valid(req[p]) /\ req'[p] = req[p]
      BY <2>11 DEF IInv, RequestsAre
    <3>2. Current(req[p])'
      <4> SUFFICES ASSUME Holds(req[p]) PROVE Current(req[p])'
        BY <3>1 DEF Current
      <4>1. req[p].id \in Sound' => req[p].id # id
        BY <2>5 DEF Holds, Saving
      <4>2. req[p].id \in Sound' => req[p].id \in Sound /\ users'[req[p].id] = users[req[p].id]
        BY <2>4, <4>1
      <4>3. req[p].id \in (DOMAIN users' \cup deleted') \cap Ids \cap DOMAIN ruled'
        BY <1>1, <2>1, <2>2, <3>1 DEF Valid, Current
      <4> QED
        BY <3>1, <4>2, <4>3 DEF Valid, Current
    <3>3. Sends(req[p])'
      <4> SUFFICES ASSUME req[p].op = "send" PROVE Sends(req[p])'
        BY <3>1 DEF Sends
      <4>1. req[p].arg \in 1..served /\ req[p].arg # None
        BY <2>13, <3>1, AccountsAssumption DEF Valid, Sends, IInv, Tokens
      <4>2. q.op = "send" => q.arg # req[p].arg
        BY <1>1, <2>13 DEF IInv, RequestsAre
      <4>3. ASSUME NEW i \in Sound', users'[i].token = req[p].arg
            PROVE  i \in Sound /\ users[i].token = req[p].arg /\ users'[i].contact = users[i].contact
        <5>1. CASE i # id
          BY <2>4, <4>3, <5>1
        <5>2. CASE i = id
          BY <2>1, <2>4, <2>7, <4>1, <4>2, <4>3, <5>2 DEF Row
        <5> QED
          BY <5>1, <5>2
      <4> QED
        BY <1>1, <2>13, <3>1, <4>1, <4>3 DEF Valid, Sends
    <3>4. Verifies(req[p])' /\ LookedUp(req[p])'
      BY <1>1, <2>13, <3>1 DEF Valid, Verifies, LookedUp, Unmet
    <3> QED
      BY <3>1, <3>2, <3>3, <3>4 DEF Valid
  <2> QED
    BY <1>1, <1>2, <1>3, <1>7, <2>6, <2>8, <2>9, <2>10, <2>12, <2>13, TableKeeps DEF Active
<1> QED
  BY <1>5, <1>6, <1>7 DEF Write

-----------------------------------------------------------------------------
(* The theorems                                                            *)

LEMMA InitHolds == Init => IInv
<1> SUFFICES ASSUME Init PROVE IInv
  OBVIOUS
<1>1. RequestsAre
  BY DEF Init, RequestsAre, Valid, Fields, Free, Staged, Current, Holds, Sends, Verifies, LookedUp,
         Unmet, Active
<1>2. \A i \in DOMAIN users : DOMAIN users[i] = Columns /\ users[i].verified = FALSE /\ users[i].token = None
  BY AccountsAssumption DEF Init, IsUser
<1>3. RowsAre
  BY <1>2, AccountsAssumption DEF Init, RowsAre
<1>4. Tokens
  BY <1>2, AccountsAssumption DEF Init, Tokens, Sound
<1>5. Promises
  BY <1>2 DEF Init, Promises, VerifiedWasProven, DecisionsHold, LoginAlone, Free
<1> QED
  BY <1>1, <1>3, <1>4, <1>5 DEF IInv

LEMMA StepHolds == IInv /\ [Next]_vars => IInv'
<1> SUFFICES ASSUME IInv, [Next]_vars PROVE IInv'
  OBVIOUS
<1>1. CASE UNCHANGED vars
  BY <1>1 DEF vars, IInv, RequestsAre, RowsAre, Tokens, Promises, VerifiedWasProven, DecisionsHold,
              LoginAlone, Valid, Staged, Current, Holds, Sends, Verifies, LookedUp, Unmet, Active, Sound
<1>2. CASE \E t \in 1..MaxRequests : Expire(t)
  BY <1>2, ExpireKeeps
<1>3. CASE \E r \in Requests : BeginLogin(r) \/ BeginOwn(r) \/ BeginLink(r) \/ BeginAdmin(r) \/ BeginVerify(r)
  BY <1>3, BeginningsKeep
<1>4. CASE \E r \in Requests : Guard(r) \/ Load(r) \/ FindByToken(r) \/ FindByGoogle(r) \/ FindByEmail(r)
  BY <1>4, GuardKeeps, FindKeeps, LookUpKeeps
<1>5. CASE \E r \in Requests : UniqueHandle(r) \/ Insert(r) \/ IssueSession(r) \/ Reload(r) \/ Write(r)
  BY <1>5, UniqueHandleKeeps, InsertKeeps, EndingKeeps, ReloadKeeps, WriteKeeps
<1>6. CASE \E r \in Requests : Mail(r) \/ DeleteAccount(r) \/ Fail(r)
  BY <1>6, MailKeeps, DeleteKeeps, EndingKeeps
<1> QED
  BY <1>1, <1>2, <1>3, <1>4, <1>5, <1>6 DEF Next

THEOREM Invariant == Spec => []IInv
  BY InitHolds, StepHolds, PTL DEF Spec

\* findOrCreateGoogleUser refuses nobody unless another request is in flight,
\* for any people, identities and addresses.
THEOREM LoginsGoThrough == Spec => []LoginAlone
<1>1. IInv => LoginAlone
  BY DEF IInv, Promises
<1> QED
  BY <1>1, Invariant, PTL

\* A contact address counts as verified only when a token mailed to that very
\* address was opened, whatever the brand edits, mails and expiries in between.
THEOREM VerifiedIsProven == Spec => []VerifiedWasProven
<1>1. IInv => VerifiedWasProven
  BY DEF IInv, Promises
<1> QED
  BY <1>1, Invariant, PTL

\* No profile, brand, mail or login save takes back what an administrator
\* decided on the role or the block.
THEOREM DecisionsAreKept == Spec => []DecisionsHold
<1>1. IInv => DecisionsHold
  BY DEF IInv, Promises
<1> QED
  BY <1>1, Invariant, PTL

-----------------------------------------------------------------------------
(* Types                                                                   *)

\* What a request brings to the row that it edits.
Brings(q) ==
    /\ q.op = "brand" => q.arg \in Contacts \cup {None}
    /\ q.op = "role" => q.arg \in Roles
Carries(q) ==
    /\ Brings(q) /\ q.met \in BOOLEAN
    /\ q.at \in {"session", "reload", "write"} => IsUser(q.entity) /\ q.id \in Ids

TypedInv == TypeOK /\ \A r \in Requests : Carries(req[r])

LEMMA EditedIsUser ==
  ASSUME NEW op \in Saves, NEW row, IsUser(row), NEW arg,
         op = "brand" => arg \in Contacts \cup {None}, op = "role" => arg \in Roles
  PROVE  IsUser(Edited(op, row, arg))
<1> USE DEF IsUser
<1>1. CASE op = "login"
  BY <1>1 DEF Edited, Login, Columns, Roles
<1>2. CASE op = "brand"
  BY <1>2 DEF Edited, UpdateBrand, Columns
<1>3. CASE op \in {"profile", "send", "verify"}
  BY <1>3 DEF Edited, Verified, Columns
<1>4. CASE op \in {"role", "block", "unblock"}
  BY <1>4 DEF Edited, Columns
<1> QED
  BY <1>1, <1>2, <1>3, <1>4 DEF Saves

LEMMA NewIsUser == \A p, n : IsUser(NewUser(p, n))
  BY DEF IsUser, NewUser, Columns, Roles

LEMMA FreeCarries == Carries([Free EXCEPT !.at = "idle"])
  BY DEF Carries, Brings, Free

\* A request moves and the rows stay.
LEMMA MoveTyped ==
  ASSUME IInv, TypedInv, NEW r \in Requests, NEW n, Set(r, n), users' = users,
         sessions' \subseteq Ids \X Roles, Carries(n)
  PROVE  TypedInv'
<1>1. DOMAIN req' = Requests /\ req'[r] = n /\ \A q \in Requests \ {r} : req'[q] = req[q]
  BY SetOnly
<1>2. \A q \in Requests : Carries(req'[q])
  BY <1>1 DEF TypedInv
<1> QED
  BY <1>1, <1>2 DEF TypedInv, TypeOK, Carries, Brings

LEMMA EndTyped ==
  ASSUME IInv, TypedInv, NEW r \in Requests, End(r), users' = users, sessions' \subseteq Ids \X Roles
  PROVE  TypedInv'
  BY MoveTyped, FreeCarries DEF End

\* The next statement of a request that has its row, or does not need it yet.
LEMMA GoTyped ==
  ASSUME IInv, TypedInv, NEW r \in Requests, NEW at, Go(r, at), users' = users, sessions' = sessions,
         at \in {"session", "reload", "write"} => req[r].at \in {"session", "reload", "write"}
  PROVE  TypedInv'
<1> DEFINE n == [req[r] EXCEPT !.at = at]
<1>1. DOMAIN req[r] = Fields
  BY DEF IInv, RequestsAre, Valid
<1>2. /\ n.op = req[r].op /\ n.arg = req[r].arg /\ n.met = req[r].met /\ n.at = at
      /\ n.entity = req[r].entity /\ n.id = req[r].id
  BY <1>1 DEF Fields, Free
<1> HIDE DEF n
<1>3. Carries(n)
  BY <1>2 DEF TypedInv, Carries, Brings
<1>4. Set(r, n)
  BY DEF Go, n
<1> QED
  BY <1>3, <1>4, MoveTyped DEF TypedInv, TypeOK

LEMMA BeginTyped ==
  ASSUME IInv, TypedInv, NEW r \in Requests, NEW op, NEW at, NEW by, NEW id, NEW arg,
         Begin(r, op, at, by, id, arg), at \notin {"session", "reload", "write"},
         op = "brand" => arg \in Contacts \cup {None}, op = "role" => arg \in Roles
  PROVE  TypedInv'
<1> DEFINE others == {q \in Requests \ {r} : Busy(q)}
           met == op = "login" /\ others # {}
           n == [Free EXCEPT !.op = op, !.at = at, !.by = by, !.id = id, !.arg = arg, !.met = met]
<1>1. UNCHANGED <<users, sessions>>
  BY DEF Begin, db
<1>2. req' = [q \in Requests |->
            IF q = r THEN n
            ELSE IF q \in others /\ req[q].op = "login" THEN [req[q] EXCEPT !.met = TRUE] ELSE req[q]]
  BY DEF Begin
<1>3. n.op = op /\ n.at = at /\ n.arg = arg /\ n.met = met /\ met \in BOOLEAN
  BY DEF Free
<1> HIDE DEF n, met
<1>4. Carries(req'[r])
  BY <1>2, <1>3 DEF Carries, Brings
<1>5. ASSUME NEW q \in Requests \ {r} PROVE Carries(req'[q])
  <2>1. Carries(req[q]) /\ DOMAIN req[q] = Fields
    BY DEF TypedInv, IInv, RequestsAre, Valid
  <2>2. Carries([req[q] EXCEPT !.met = TRUE])
    BY <2>1 DEF Carries, Brings, Fields, Free
  <2> QED
    BY <1>2, <2>1, <2>2
<1> QED
  BY <1>1, <1>4, <1>5 DEF TypedInv, TypeOK, Carries, Brings

LEMMA BeginningsTyped ==
  ASSUME IInv, TypedInv, NEW r \in Requests,
         BeginLogin(r) \/ BeginOwn(r) \/ BeginLink(r) \/ BeginAdmin(r) \/ BeginVerify(r)
  PROVE  TypedInv'
<1>1. CASE BeginLogin(r)
  BY <1>1, BeginTyped DEF BeginLogin
<1>2. CASE BeginOwn(r)
  BY <1>2, BeginTyped DEF BeginOwn
<1>5. CASE BeginLink(r)
  BY <1>5, BeginTyped DEF BeginLink
<1>3. CASE BeginAdmin(r)
  BY <1>3, BeginTyped DEF BeginAdmin
<1>4. CASE BeginVerify(r)
  BY <1>4, BeginTyped DEF BeginVerify
<1> QED
  BY <1>1, <1>2, <1>3, <1>4, <1>5

LEMMA LoadedTyped ==
  ASSUME IInv, TypedInv, NEW r \in Requests, NEW id \in DOMAIN users, Loaded(r, id),
         req[r].op \in Saves, UNCHANGED <<users, sessions>>
  PROVE  TypedInv'
<1> DEFINE q == req[r]
           entity == Edited(q.op, users[id], q.arg)
           next == IF entity = users[id] /\ q.op = "login" THEN {"session", "reload"} ELSE {"reload"}
           n(at) == [q EXCEPT !.at = at, !.id = id, !.entity = entity]
<1>1. DOMAIN q = Fields /\ Carries(q) /\ IsUser(users[id]) /\ id \in Ids /\ sessions' \subseteq Ids \X Roles
  BY DEF IInv, RequestsAre, Valid, TypedInv, TypeOK
<1>2. IsUser(entity)
  BY <1>1, EditedIsUser DEF Carries, Brings
<1>3. ASSUME NEW at PROVE /\ n(at).op = q.op /\ n(at).arg = q.arg /\ n(at).met = q.met
                         /\ n(at).id = id /\ n(at).entity = entity
  BY <1>1 DEF Fields, Free
<1>4. CASE End(r)
  BY <1>1, <1>4, EndTyped
<1>5. ASSUME NEW at \in next, Set(r, n(at)) PROVE TypedInv'
  <2> HIDE DEF n, entity
  <2>1. Carries(n(at))
    BY <1>1, <1>2, <1>3 DEF Carries, Brings
  <2> QED
    BY <1>1, <1>5, <2>1, MoveTyped
<1> QED
  BY <1>4, <1>5 DEF Loaded

LEMMA LookUpsTyped ==
  ASSUME IInv, TypedInv, NEW r \in Requests,
         Load(r) \/ FindByToken(r) \/ FindByGoogle(r) \/ FindByEmail(r)
  PROVE  TypedInv'
<1>1. Valid(req[r]) /\ UNCHANGED <<users, sessions>> /\ sessions' \subseteq Ids \X Roles
  BY DEF IInv, RequestsAre, Load, FindByToken, FindByGoogle, FindByEmail, db, TypedInv, TypeOK
<1>2. req[r].op \in Saves
  BY <1>1 DEF Valid, Staged, Saves, Load, FindByToken, FindByGoogle, FindByEmail
<1>3. CASE End(r)
  BY <1>1, <1>3, EndTyped
<1>4. CASE \E id \in DOMAIN users : Loaded(r, id)
  BY <1>1, <1>2, <1>4, LoadedTyped
<1>5. CASE \E at \in {"handle", "byEmail"} : Go(r, at)
  BY <1>1, <1>5, GoTyped
<1>6. ASSUME NEW column, NEW value, NEW found, found = FoundBy(column, value), found # {}
      PROVE  (CHOOSE i \in found : TRUE) \in DOMAIN users
  BY <1>6 DEF FoundBy
<1> QED
  BY <1>3, <1>4, <1>5, <1>6 DEF Load, FindByToken, FindByGoogle, FindByEmail, NextLookup

LEMMA HandleTyped ==
  ASSUME IInv, TypedInv, NEW r \in Requests, UniqueHandle(r) \/ Reload(r)
  PROVE  TypedInv'
<1>1. DOMAIN req[r] = Fields /\ Carries(req[r]) /\ UNCHANGED <<users, sessions>>
      /\ sessions' \subseteq Ids \X Roles
  BY DEF IInv, RequestsAre, Valid, TypedInv, TypeOK, UniqueHandle, Reload, db
<1>2. CASE UniqueHandle(r)
  <2> DEFINE n == [req[r] EXCEPT !.n = @ + 1,
                     !.at = IF FoundBy("handle", req[r].n + 1) = {} THEN "insert" ELSE @]
  <2>1. /\ n.op = req[r].op /\ n.arg = req[r].arg /\ n.met = req[r].met
        /\ n.at \in {"insert", "handle"}
    BY <1>1, <1>2 DEF Fields, Free, UniqueHandle
  <2> HIDE DEF n
  <2>2. Carries(n)
    BY <1>1, <2>1 DEF Carries, Brings
  <2>3. Set(r, n)
    BY <1>2 DEF UniqueHandle, n
  <2> QED
    BY <1>1, <2>2, <2>3, MoveTyped
<1>3. CASE Reload(r)
  <2>1. PICK cols : Set(r, [req[r] EXCEPT !.at = "write", !.cols = cols])
    BY <1>3 DEF Reload
  <2> DEFINE n == [req[r] EXCEPT !.at = "write", !.cols = cols]
  <2>2. /\ n.op = req[r].op /\ n.arg = req[r].arg /\ n.met = req[r].met
        /\ n.entity = req[r].entity /\ n.id = req[r].id
    BY <1>1 DEF Fields, Free
  <2>3. req[r].at = "reload"
    BY <1>3 DEF Reload
  <2> HIDE DEF n
  <2>4. Carries(n)
    BY <1>1, <2>2, <2>3 DEF Carries, Brings
  <2> QED
    BY <1>1, <2>1, <2>4, MoveTyped DEF n
<1> QED
  BY <1>2, <1>3

LEMMA EndingTyped ==
  ASSUME IInv, TypedInv, NEW r \in Requests, IssueSession(r) \/ Mail(r) \/ Fail(r)
  PROVE  TypedInv'
<1>1. End(r) /\ users' = users
  BY DEF IssueSession, Mail, Fail, db
<1>2. sessions' \subseteq Ids \X Roles
  <2>1. CASE IssueSession(r)
    <3>1. req[r].id \in Ids /\ req[r].entity.role \in Roles
      BY <2>1 DEF IssueSession, TypedInv, Carries, IsUser
    <3> QED
      BY <2>1, <3>1 DEF IssueSession, TypedInv, TypeOK
  <2>2. CASE Mail(r) \/ Fail(r)
    BY <2>2 DEF Mail, Fail, TypedInv, TypeOK
  <2> QED
    BY <2>1, <2>2
<1> QED
  BY <1>1, <1>2, EndTyped

\* The indexes let a row in only if it shares nothing with another.
LEMMA PutUnique ==
  ASSUME Unique(users), NEW id, NEW row, ~Collides(row, id), NEW table, table = Put(users, id, row)
  PROVE  Unique(table)
<1>1. /\ DOMAIN table = DOMAIN users \cup {id} /\ table[id] = row
      /\ \A j \in DOMAIN users \ {id} : table[j] = users[j]
  BY DEF Put
<1>2. ASSUME NEW j \in DOMAIN users \ {id}
      PROVE  /\ users[j].handle # row.handle
             /\ row.google # None => users[j].google # row.google
             /\ row.email # None => users[j].email # row.email
  BY <1>2 DEF Collides
<1> QED
  BY <1>1, <1>2 DEF Unique

\* A row is put into the table by a request that goes on as n.
LEMMA PutTyped ==
  ASSUME IInv, TypedInv, NEW r \in Requests, NEW n, Set(r, n), Carries(n), sessions' = sessions,
         NEW id \in Ids, NEW row, IsUser(row), ~Collides(row, id), users' = Put(users, id, row)
  PROVE  TypedInv'
<1>1. DOMAIN req' = Requests /\ req'[r] = n /\ \A q \in Requests \ {r} : req'[q] = req[q]
  BY SetOnly
<1>2. \A q \in Requests : Carries(req'[q])
  BY <1>1 DEF TypedInv
<1>3. Unique(users')
  BY PutUnique DEF TypedInv, TypeOK
<1>4. DOMAIN users' \subseteq Ids /\ \A i \in DOMAIN users' : IsUser(users'[i])
  BY DEF Put, TypedInv, TypeOK
<1>5. Unique(users)'
  BY <1>3 DEF Unique
<1> QED
  BY <1>2, <1>4, <1>5 DEF TypedInv, TypeOK, Carries, Brings, IsUser

LEMMA InsertTyped ==
  ASSUME IInv, TypedInv, NEW r \in Requests, Insert(r)
  PROVE  TypedInv'
<1> DEFINE row == NewUser(req[r].arg, req[r].n)
           id == CHOOSE i \in Unused : TRUE
           n == [req[r] EXCEPT !.at = "session", !.id = id, !.entity = row]
<1>1. DOMAIN req[r] = Fields /\ Carries(req[r]) /\ sessions' = sessions /\ id \in Ids /\ IsUser(row)
  BY NewIsUser DEF IInv, RequestsAre, Valid, TypedInv, Insert, Unused
<1>2. CASE Collides(row, id)
  BY <1>1, <1>2, GoTyped DEF Insert
<1>3. CASE ~Collides(row, id)
  <2>1. n.op = req[r].op /\ n.arg = req[r].arg /\ n.met = req[r].met /\ n.id = id /\ n.entity = row
    BY <1>1 DEF Fields, Free
  <2>2. Set(r, n) /\ users' = Put(users, id, row)
    BY <1>3 DEF Insert
  <2> HIDE DEF n, row, id
  <2>3. Carries(n)
    BY <1>1, <2>1 DEF Carries, Brings
  <2> QED
    BY <1>1, <1>3, <2>2, <2>3, PutTyped
<1> QED
  BY <1>2, <1>3

LEMMA WriteTyped ==
  ASSUME IInv, TypedInv, NEW r \in Requests, Write(r)
  PROVE  TypedInv'
<1> DEFINE q == req[r]
           gone == q.id \notin DOMAIN users
           row == IF gone THEN q.entity
                  ELSE [c \in DOMAIN q.entity |-> IF c \in q.cols THEN q.entity[c] ELSE users[q.id][c]]
<1>1. /\ DOMAIN q = Fields /\ Carries(q) /\ IsUser(q.entity) /\ q.id \in Ids /\ q.at = "write"
      /\ sessions' = sessions
  BY DEF IInv, RequestsAre, Valid, TypedInv, Carries, Write
<1>2. IsUser(row)
  <2>1. CASE gone
    BY <1>1, <2>1
  <2>2. CASE ~gone
    <3>1. IsUser(users[q.id])
      BY <2>2 DEF TypedInv, TypeOK
    <3> QED
      BY <1>1, <2>2, <3>1 DEF IsUser, Columns
  <2> QED
    BY <2>1, <2>2
<1>3. CASE End(r) /\ users' = users
  BY <1>1, <1>3, EndTyped DEF TypedInv, TypeOK
<1>4. CASE After(r) /\ users' = users
  BY <1>1, <1>4, EndTyped, GoTyped DEF After, TypedInv, TypeOK
<1>5. CASE After(r) /\ users' = Put(users, q.id, row) /\ ~Collides(row, q.id)
  <2>1. PICK n : Set(r, n) /\ Carries(n)
    <3>1. CASE End(r)
      BY <3>1, FreeCarries DEF End
    <3>2. ASSUME NEW at \in {"mail", "session"}, Go(r, at)
          PROVE  \E n : Set(r, n) /\ Carries(n)
      <4> DEFINE n == [q EXCEPT !.at = at]
      <4>1. n.op = q.op /\ n.arg = q.arg /\ n.met = q.met /\ n.entity = q.entity /\ n.id = q.id
        BY <1>1 DEF Fields, Free
      <4>2. Set(r, n)
        BY <3>2 DEF Go
      <4> HIDE DEF n
      <4>3. Carries(n)
        BY <1>1, <4>1 DEF Carries, Brings
      <4> QED
        BY <4>2, <4>3
    <3> QED
      BY <1>5, <3>1, <3>2 DEF After
  <2> HIDE DEF row
  <2> QED
    BY <1>1, <1>2, <1>5, <2>1, PutTyped
<1> QED
  BY <1>3, <1>4, <1>5 DEF Write

LEMMA DeleteTyped ==
  ASSUME IInv, TypedInv, NEW r \in Requests, DeleteAccount(r)
  PROVE  TypedInv'
<1> DEFINE id == req[r].id
           free == [Free EXCEPT !.at = "idle"]
<1>1. Set(r, free) /\ users' = [i \in DOMAIN users \ {id} |-> users[i]] /\ sessions' = sessions
  BY DEF DeleteAccount, End
<1>2. DOMAIN req' = Requests /\ req'[r] = free /\ \A q \in Requests \ {r} : req'[q] = req[q]
  BY <1>1, SetOnly
<1>3. \A q \in Requests : Carries(req'[q])
  BY <1>2, FreeCarries DEF TypedInv
<1>4. /\ DOMAIN users' \subseteq Ids /\ Unique(users)'
      /\ \A i \in DOMAIN users' : IsUser(users'[i])
  BY <1>1 DEF TypedInv, TypeOK, Unique
<1> QED
  BY <1>1, <1>3, <1>4 DEF TypedInv, TypeOK, Carries, Brings, IsUser

LEMMA TypedInit == Init => TypedInv
<1> SUFFICES ASSUME Init PROVE TypedInv
  OBVIOUS
<1>1. DOMAIN users \subseteq Ids /\ Unique(users) /\ \A i \in DOMAIN users : IsUser(users[i])
  BY AccountsAssumption DEF Init, IsUser
<1>2. sessions \subseteq Ids \X Roles
  BY <1>1 DEF Init, IsUser
<1>3. \A r \in Requests : Carries(req[r])
  BY DEF Init, Carries, Brings, Free
<1> QED
  BY <1>1, <1>2, <1>3 DEF TypedInv, TypeOK, Carries

LEMMA TypedStep == IInv /\ TypedInv /\ [Next]_vars => TypedInv'
<1> SUFFICES ASSUME IInv, TypedInv, [Next]_vars PROVE TypedInv'
  OBVIOUS
<1>1. CASE UNCHANGED vars \/ \E t \in 1..MaxRequests : Expire(t)
  <2>1. UNCHANGED <<users, sessions, req>>
    BY <1>1 DEF vars, Expire
  <2> QED
    BY <2>1 DEF TypedInv, TypeOK, Carries, Brings, IsUser, Unique
<1>2. CASE \E r \in Requests : BeginLogin(r) \/ BeginOwn(r) \/ BeginLink(r) \/ BeginAdmin(r) \/ BeginVerify(r)
  BY <1>2, BeginningsTyped
<1>3. CASE \E r \in Requests : Guard(r)
  <2>1. PICK r \in Requests : Guard(r)
    BY <1>3
  <2>2. UNCHANGED <<users, sessions>> /\ (End(r) \/ \E at \in {"delete", "load"} : Go(r, at))
    BY <2>1 DEF Guard, db
  <2> QED
    BY <2>2, EndTyped, GoTyped DEF TypedInv, TypeOK
<1>4. CASE \E r \in Requests : Load(r) \/ FindByToken(r) \/ FindByGoogle(r) \/ FindByEmail(r)
  BY <1>4, LookUpsTyped
<1>5. CASE \E r \in Requests : UniqueHandle(r) \/ Reload(r)
  BY <1>5, HandleTyped
<1>6. CASE \E r \in Requests : IssueSession(r) \/ Mail(r) \/ Fail(r)
  BY <1>6, EndingTyped
<1>7. CASE \E r \in Requests : Insert(r) \/ Write(r) \/ DeleteAccount(r)
  BY <1>7, InsertTyped, WriteTyped, DeleteTyped
<1> QED
  BY <1>1, <1>2, <1>3, <1>4, <1>5, <1>6, <1>7 DEF Next

\* Rows, sessions and requests are of their types: the role of a row, and of a
\* token, is one there is, and no two rows share a handle, an identity or an
\* address, although whole rows are saved and only the unique indexes object.
THEOREM AccountTypes == Spec => []TypeOK
<1>1. TypedInv => TypeOK
  BY DEF TypedInv
<1> QED
  BY <1>1, TypedInit, TypedStep, Invariant, PTL DEF Spec

=============================================================================
