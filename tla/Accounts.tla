------------------------------- MODULE Accounts -------------------------------
(***************************************************************************)
(* The rows of users: first logins and later ones by web or app, the       *)
(* profile and the link to Instagram, the brand and the proof of its       *)
(* e-mail address, administrators who change roles and block, and the      *)
(* deletion of an account.  Every change but the deletion loads a row,     *)
(* edits it in memory and saves all of it: save() reads the row once more, *)
(* writes the columns that differ, and inserts the row if it is gone.      *)
(***************************************************************************)
EXTENDS Integers

CONSTANTS Ids,             \* what ids are drawn from
          Profiles,        \* [google, email]: what Google or Firebase say of a person
          AdminEmails, Contacts,
          Starts,          \* the users there are at the beginning, by id
          Requests, MaxRequests,   \* requests in flight, and in all
          None

VARIABLES users,      \* the table, by id
          sessions,   \* the tokens that people hold, as pairs of an id and a role
          mailed,     \* the address to which the token of a request was mailed
          expired,    \* tokens older than a day
          req, served,
          lost,       \* history: rows whose saves overlapped
          proven,     \* history: addresses whose token was opened, by user
          ruled,      \* history: the role and the block that were last decided
          deleted     \* history: accounts deleted

vars == <<users, sessions, mailed, expired, req, served, lost, proven, ruled, deleted>>
db == <<users, mailed, expired, lost, proven, ruled, deleted>>

Roles == {"user", "business", "admin"}
Columns == {"google", "email", "handle", "role", "blocked", "ig", "brand", "contact", "verified", "token"}

IsUser(row) ==
    /\ DOMAIN row = Columns
    /\ row.role \in Roles /\ row.blocked \in BOOLEAN
    /\ row.contact \in Contacts \cup {None} /\ row.verified \in BOOLEAN
Unique(table) ==
    \A i, j \in DOMAIN table : i # j =>
       \A c \in {"handle", "google", "email"} : table[i][c] # None => table[i][c] # table[j][c]

\* Tokens are numbers; no address is verified at first, and no token is out.
ASSUME AccountsAssumption ==
    /\ MaxRequests \in Nat /\ None \notin 1..MaxRequests
    /\ \A start \in Starts :
          /\ DOMAIN start \subseteq Ids /\ Unique(start)
          /\ \A i \in DOMAIN start : /\ IsUser(start[i])
                                     /\ start[i].verified = FALSE /\ start[i].token = None

Free == [op |-> "none", at |-> "idle", by |-> None, id |-> None, arg |-> None,
         entity |-> None, cols |-> {}, n |-> 0, met |-> FALSE]
Of(row) == [role |-> row.role, blocked |-> row.blocked]
----------------------------------------------------------------------------
FoundBy(column, value) == {i \in DOMAIN users : users[i][column] = value}
Unused == Ids \ (DOMAIN users \cup deleted)
IsAdminEmail(p) == p.email \in AdminEmails

NewUser(p, n) ==
    [google |-> p.google, email |-> p.email, handle |-> n,
     role |-> IF IsAdminEmail(p) THEN "admin" ELSE "user", blocked |-> FALSE, ig |-> None,
     brand |-> None, contact |-> None, verified |-> FALSE, token |-> None]

\* An existing row at a login: promoted when configured, never demoted.
LoginDemoting(row, p) ==
    [row EXCEPT !.google = IF @ = None THEN p.google ELSE @,
                !.role = IF IsAdminEmail(p) THEN "admin" ELSE "user"]
Login(row, p) ==
    [row EXCEPT !.google = IF @ = None THEN p.google ELSE @,
                !.role = IF IsAdminEmail(p) THEN "admin" ELSE @]

\* BrandingService.update: another address is to be proven again.
UpdateBrandKeepingToken(row, contact) ==
    IF contact \in {None, row.contact} THEN [row EXCEPT !.brand = "brand"]
    ELSE [row EXCEPT !.brand = "brand", !.contact = contact, !.verified = FALSE]
UpdateBrand(row, contact) ==
    IF contact \in {None, row.contact} THEN [row EXCEPT !.brand = "brand"]
    ELSE [row EXCEPT !.brand = "brand", !.contact = contact, !.verified = FALSE, !.token = None]

Verified(row) == [row EXCEPT !.verified = TRUE, !.token = None]

\* The entity that each operation makes of the row it has loaded.
Edited(op, row, arg) ==
    CASE op = "login"   -> Login(row, arg)
      [] op = "profile" -> [row EXCEPT !.ig = arg]
      [] op = "brand"   -> UpdateBrand(row, arg)
      [] op = "send"    -> [row EXCEPT !.token = arg]
      [] op = "verify"  -> Verified(row)
      [] op = "role"    -> [row EXCEPT !.role = arg]
      [] op = "block"   -> [row EXCEPT !.blocked = TRUE]
      [] op = "unblock" -> [row EXCEPT !.blocked = FALSE]

\* What the handlers refuse of a row they have loaded.
Refused(op, row) ==
    CASE op = "send"  -> row.brand = None \/ row.contact = None \/ row.verified
      [] op = "block" -> row.role = "admin"
      [] OTHER        -> FALSE
----------------------------------------------------------------------------
Busy(r) == req[r].at \notin {"idle", "refused"}
Set(r, n) == req' = [req EXCEPT ![r] = n]
End(r) == Set(r, [Free EXCEPT !.at = "idle"])
Go(r, at) == Set(r, [req[r] EXCEPT !.at = at])

Init ==
    /\ users \in Starts
    /\ sessions = {<<i, users[i].role>> : i \in DOMAIN users}
    /\ mailed = [t \in 1..MaxRequests |-> None] /\ expired = {} /\ deleted = {} /\ lost = {} /\ served = 0
    /\ req = [r \in Requests |-> Free]
    /\ proven = [i \in Ids |-> {}]
    /\ ruled = [i \in DOMAIN users |-> Of(users[i])]

\* A login that meets another request is marked.
Begin(r, op, at, by, id, arg) ==
    /\ ~Busy(r) /\ served < MaxRequests
    /\ served' = served + 1
    /\ LET others == {q \in Requests \ {r} : Busy(q)}
       IN  req' = [q \in Requests |->
              IF q = r THEN [Free EXCEPT !.op = op, !.at = at, !.by = by, !.id = id,
                                         !.arg = arg, !.met = op = "login" /\ others # {}]
              ELSE IF q \in others /\ req[q].op = "login" THEN [req[q] EXCEPT !.met = TRUE] ELSE req[q]]
    /\ UNCHANGED <<db, sessions>>

BeginLogin(r) == \E p \in Profiles : Begin(r, "login", "byGoogle", None, None, p)

\* RolesGuard reads the role in the token, not the row.
BeginOwn(r) ==
    \E s \in sessions :
        \/ Begin(r, "profile", "guard", s, s[1], None)
        \/ Begin(r, "delete", "guard", s, s[1], None)
        \/ /\ s[2] # "user"
           /\ \/ \E contact \in Contacts \cup {None} : Begin(r, "brand", "guard", s, s[1], contact)
              \/ Begin(r, "send", "guard", s, s[1], served + 1)

\* The callback of Instagram is public and carries the id of whoever asked for it.
BeginLink(r) == \E s \in sessions : Begin(r, "profile", "load", None, s[1], "ig")

BeginAdmin(r) ==
    \E s \in sessions, id \in DOMAIN users :
        /\ s[2] = "admin"
        /\ \/ \E role \in Roles : (s[1] = id => role = "admin") /\ Begin(r, "role", "load", s, id, role)
           \/ s[1] # id /\ Begin(r, "block", "load", s, id, None)
           \/ Begin(r, "unblock", "load", s, id, None)

\* BrandingController.verify: public, by the token in the mail.
BeginVerify(r) == \E t \in {t \in DOMAIN mailed : mailed[t] # None} : Begin(r, "verify", "byToken", None, None, t)

\* BlockedReadOnlyGuard: an administrator's token passes, and so does a row gone.
Guard(r) ==
    LET n == req[r]
        open == n.by[2] = "admin" \/ n.id \notin DOMAIN users \/ ~users[n.id].blocked
    IN  /\ n.at = "guard"
        /\ IF open THEN Go(r, IF n.op = "delete" THEN "delete" ELSE "load") ELSE End(r)
        /\ UNCHANGED <<db, sessions, served>>

\* The statement that finds a row, and the edit of it in memory.  A login that
\* changes nothing here saves the row if it brings a new picture.
Loaded(r, id) ==
    LET n == req[r]
        entity == Edited(n.op, users[id], n.arg)
        next == IF entity = users[id] /\ n.op = "login" THEN {"session", "reload"} ELSE {"reload"}
    IN  IF Refused(n.op, users[id]) THEN End(r)
        ELSE \E at \in next : Set(r, [n EXCEPT !.at = at, !.id = id, !.entity = entity])

Load(r) ==
    /\ req[r].at = "load"
    /\ IF req[r].id \in DOMAIN users THEN Loaded(r, req[r].id) ELSE End(r)
    /\ UNCHANGED <<db, sessions, served>>

FindByToken(r) ==
    LET found == FoundBy("token", req[r].arg)
    IN  /\ req[r].at = "byToken"
        /\ IF found # {} /\ req[r].arg \notin expired THEN Loaded(r, CHOOSE i \in found : TRUE) ELSE End(r)
        /\ UNCHANGED <<db, sessions, served>>

\* findOrCreateGoogleUser: by the id at the provider, then by address.
NoLookup(p) == "handle"
NextLookup(p) == IF p.email = None THEN "handle" ELSE "byEmail"
FindByGoogle(r) ==
    LET p == req[r].arg
        found == FoundBy("google", p.google)
    IN  /\ req[r].at = "byGoogle"
        /\ IF found # {} THEN Loaded(r, CHOOSE i \in found : TRUE) ELSE Go(r, NextLookup(p))
        /\ UNCHANGED <<db, sessions, served>>

FindByEmail(r) ==
    LET found == FoundBy("email", req[r].arg.email)
    IN  /\ req[r].at = "byEmail"
        /\ IF found # {} THEN Loaded(r, CHOOSE i \in found : TRUE) ELSE Go(r, "handle")
        /\ UNCHANGED <<db, sessions, served>>

\* uniqueHandle asks for one name after another; everyone's base is the same.
UniqueHandle(r) ==
    /\ req[r].at = "handle"
    /\ Set(r, [req[r] EXCEPT !.n = @ + 1,
                  !.at = IF FoundBy("handle", req[r].n + 1) = {} THEN "insert" ELSE @])
    /\ UNCHANGED <<db, sessions, served>>

\* The unique indexes on google_id, e-mail and handle.
Collides(row, id) ==
    \E i \in DOMAIN users \ {id} : \/ users[i].handle = row.handle
                                   \/ row.google # None /\ users[i].google = row.google
                                   \/ row.email # None /\ users[i].email = row.email
Put(f, i, v) == [j \in DOMAIN f \cup {i} |-> IF j = i THEN v ELSE f[j]]

Insert(r) ==
    LET row == NewUser(req[r].arg, req[r].n)
        id == CHOOSE i \in Unused : TRUE
    IN  /\ req[r].at = "insert" /\ Unused # {}
        /\ IF Collides(row, id) THEN Go(r, "refused") /\ UNCHANGED <<users, ruled>>
           ELSE /\ users' = Put(users, id, row)
                /\ ruled' = Put(ruled, id, Of(row))
                /\ Set(r, [req[r] EXCEPT !.at = "session", !.id = id, !.entity = row])
        /\ UNCHANGED <<sessions, served, mailed, expired, lost, proven, deleted>>

\* issueSession: the role is the entity's.
IssueSession(r) ==
    LET n == req[r]
    IN  /\ n.at = "session"
        /\ sessions' = sessions \cup {<<n.id, n.entity.role>>}
        /\ End(r)
        /\ UNCHANGED <<db, served>>

\* save(): the columns to write are those that differ from the row now; a row
\* that is gone is to be inserted.
Reload(r) ==
    LET n == req[r]
    IN  /\ n.at = "reload"
        /\ Set(r, [n EXCEPT !.at = "write", !.cols =
              IF n.id \notin DOMAIN users THEN {"insert"}
              ELSE {c \in DOMAIN n.entity : n.entity[c] # users[n.id][c]}])
        /\ UNCHANGED <<db, sessions, served>>

\* What an administrator, or the login of a configured address, decides.
Rule(n, id) ==
    CASE n.op = "role" -> [ruled[id] EXCEPT !.role = n.entity.role]
      [] n.op = "login" /\ IsAdminEmail(n.arg) -> [ruled[id] EXCEPT !.role = "admin"]
      [] n.op \in {"block", "unblock"} -> [ruled[id] EXCEPT !.blocked = n.entity.blocked]
      [] OTHER -> ruled[id]

Saving(id) == {q \in Requests : req[q].id = id /\ req[q].at \in {"reload", "write"}}

After(r) == IF req[r].op = "send" THEN Go(r, "mail")
            ELSE IF req[r].op = "login" THEN Go(r, "session") ELSE End(r)

Write(r) ==
    LET n == req[r]
        inserts == n.cols = {"insert"}
        gone == n.id \notin DOMAIN users
        row == IF gone THEN n.entity
               ELSE [c \in DOMAIN n.entity |-> IF c \in n.cols THEN n.entity[c] ELSE users[n.id][c]]
    IN  /\ n.at = "write"
        /\ \/ \* a unique index refuses
              /\ (inserts /\ ~gone) \/ Collides(row, n.id)
              /\ End(r) /\ UNCHANGED <<users, lost, ruled, proven>>
           \/ \* an UPDATE of no row
              /\ gone /\ ~inserts /\ ~Collides(row, n.id)
              /\ After(r) /\ UNCHANGED <<users, lost, ruled, proven>>
           \/ /\ gone = inserts /\ ~Collides(row, n.id)
              /\ users' = Put(users, n.id, row)
              /\ lost' = IF gone \/ Saving(n.id) # {r} THEN lost \cup {n.id} ELSE lost
              /\ ruled' = [ruled EXCEPT ![n.id] = Rule(n, n.id)]
              /\ proven' = IF n.op = "verify" THEN [proven EXCEPT ![n.id] = @ \cup {mailed[n.arg]}] ELSE proven
              /\ After(r)
        /\ UNCHANGED <<sessions, served, mailed, expired, deleted>>

\* sendBrandVerification, to the address of the entity.
Mail(r) ==
    /\ req[r].at = "mail"
    /\ mailed' = [mailed EXCEPT ![req[r].arg] = req[r].entity.contact]
    /\ End(r)
    /\ UNCHANGED <<users, sessions, served, expired, lost, proven, ruled, deleted>>

\* One DELETE, which cascades.
DeleteAccount(r) ==
    LET id == req[r].id
    IN  /\ req[r].at = "delete"
        /\ users' = [i \in DOMAIN users \ {id} |-> users[i]]
        /\ deleted' = deleted \cup {id}
        /\ End(r)
        /\ UNCHANGED <<sessions, served, mailed, expired, lost, proven, ruled>>

\* A statement that times out, or a mail that is refused, ends the request.
Fail(r) ==
    /\ Busy(r) /\ End(r)
    /\ UNCHANGED <<db, sessions, served>>
\* A token is good for 24 hours.
Expire(t) ==
    /\ mailed[t] # None /\ t \notin expired
    /\ expired' = expired \cup {t}
    /\ UNCHANGED <<users, sessions, mailed, req, served, lost, proven, ruled, deleted>>

Next ==
    \/ \E r \in Requests :
          \/ BeginLogin(r) \/ BeginOwn(r) \/ BeginLink(r) \/ BeginAdmin(r) \/ BeginVerify(r)
          \/ Guard(r) \/ Load(r) \/ FindByToken(r) \/ FindByGoogle(r) \/ FindByEmail(r)
          \/ UniqueHandle(r) \/ Insert(r) \/ IssueSession(r) \/ Reload(r) \/ Write(r)
          \/ Mail(r) \/ DeleteAccount(r) \/ Fail(r)
    \/ \E t \in 1..MaxRequests : Expire(t)

Spec == Init /\ [][Next]_vars
----------------------------------------------------------------------------
\* Rows, sessions and requests are of their types, and no two rows share a
\* handle, an identity or an address.
TypeOK ==
    /\ DOMAIN users \subseteq Ids /\ Unique(users)
    /\ \A i \in DOMAIN users : IsUser(users[i])
    /\ sessions \subseteq Ids \X Roles
    /\ \A r \in Requests :
          /\ req[r].met \in BOOLEAN
          /\ req[r].at \in {"session", "reload", "write"} => IsUser(req[r].entity) /\ req[r].id \in Ids

\* A person who signs in by web or by app, known by either identity or by the
\* address, is never refused by an index: only another request in flight may
\* take the row or the handle between the look-ups and the insert.
LoginAlone == \A r \in Requests : req[r].at = "refused" => req[r].met

\* A verified contact address is one whose own token was opened: a token sent
\* to the address before it verifies nothing once the address has changed.
\* Rows whose saves overlapped are left out.
VerifiedWasProven ==
    \A i \in DOMAIN users \ lost : users[i].verified => users[i].contact \in proven[i]

\* Role and block are what an administrator, or the list of administrators at
\* a login, decided last, whatever else changes the row.  Rows whose saves
\* overlapped are left out.
DecisionsHold == \A i \in DOMAIN users \ lost : Of(users[i]) = ruled[i]

\* The deletion of an account removes the row for good.  It does not when a
\* save of the row is in flight.
DeletedForGood == DOMAIN users \cap deleted = {}
=============================================================================
