----------------------------- MODULE FollowGraph -----------------------------
(***************************************************************************)
(* UsersService.follow and unfollow, with the two requests that meet them  *)
(* on the rows of users: a whole-row save (updateProfile and every other   *)
(* users.save) and deleteAccount.                                          *)
(*                                                                         *)
(* As in Engagement, a session is one READ COMMITTED transaction and every *)
(* statement is an action.  A statement waits while another session holds  *)
(* a lock that conflicts with one it takes; Commit applies what was        *)
(* written, and the statement timeout rolls back a session that waits too  *)
(* long, which is how a deadlock ends.                                     *)
(***************************************************************************)
EXTENDS Integers, FiniteSets

CONSTANTS
    Users,      \* accounts that exist initially
    Deletable,  \* the accounts that may be deleted (a bound)
    Sessions,   \* concurrent transactions
    None,       \* no user, no kind
    SaveRaces   \* whether a whole-row save of a user may overlap with a request
                \* that moves the counters of that user

ASSUME ConstantsAssumption ==
    /\ Deletable \subseteq Users
    /\ None \notin Users
    /\ IsFiniteSet(Users)
    /\ SaveRaces \in BOOLEAN

VARIABLES
    accounts,        \* SUBSET Users: rows of users
    follows,         \* set of <<follower, following>>: rows of user_follows
    followerCount,   \* [Users -> Int]: users.follower_count
    followingCount,  \* [Users -> Int]: users.following_count
    tx,              \* [Sessions -> the session's record]
    holds,           \* [Sessions -> set of locks]
    lostFollowers,   \* [Users -> Nat]: history, followers who deleted their account
    lostFollowing    \* [Users -> Nat]: history, followed accounts that were deleted

rows == <<accounts, follows, followerCount, followingCount,
          lostFollowers, lostFollowing>>
vars == <<rows, tx, holds>>

Edges == {e \in Users \X Users : e[1] # e[2]}

Statements == {"idle", "insertEdge", "checkKeys", "deleteEdge", "countTarget",
               "countSelf", "eraseUser", "eraseEdges", "reload", "save", "commit"}
Kinds == {"follow", "unfollow", "account", "save"}
Columns == {"followerCount", "followingCount"}

TxState == [pc : Statements, kind : Kinds \cup {None},
            user : Users \cup {None},     \* who acts
            target : Users \cup {None},   \* whom they follow or unfollow
            wrote : BOOLEAN,              \* whether an edge came or went
            followers : Int,              \* the counters a save has loaded
            following : Int,
            stale : SUBSET Columns]       \* those its UPDATE overwrites

Idle == [pc |-> "idle", kind |-> None, user |-> None, target |-> None,
         wrote |-> FALSE, followers |-> 0, following |-> 0, stale |-> {}]

\* A lock is <<mode, row>>; the row of user u is <<u, u>>.  "share" is the FOR KEY
\* SHARE of a foreign key's check, "count" the lock of an UPDATE, "erase" that of
\* a DELETE; "edge" is on a row or a unique key of user_follows.
Row(u) == <<u, u>>
Locks == ({"share", "count", "erase"} \X {Row(u) : u \in Users})
            \cup ({"edge"} \X Edges)

Compatible(l, m) ==
    l[2] # m[2] \/ {l[1], m[1]} \in {{"share"}, {"share", "count"}}

InFlight(s) == tx[s].pc # "idle"

Free(s, locks) ==
    \A t \in Sessions \ {s} : \A l \in locks, m \in holds[t] : Compatible(l, m)
Lock(s, locks) ==
    /\ Free(s, locks)
    /\ holds' = [holds EXCEPT ![s] = @ \cup locks]

\* The locks the next statement takes.
Takes(t) ==
    CASE t.pc = "insertEdge"  -> {<<"edge", <<t.user, t.target>>>>}
      [] t.pc = "checkKeys"   -> {<<"share", Row(t.user)>>, <<"share", Row(t.target)>>}
      [] t.pc = "deleteEdge"  -> {<<"edge", e>> : e \in follows \cap {<<t.user, t.target>>}}
      [] t.pc = "countTarget" -> {<<"count", Row(t.target)>>}
      [] t.pc = "countSelf"   -> {<<"count", Row(t.user)>>}
      [] t.pc = "eraseUser"   -> {<<"erase", Row(t.user)>>}
      [] t.pc = "eraseEdges"  -> {<<"edge", e>> : e \in {f \in follows : t.user \in {f[1], f[2]}}}
      [] t.pc = "save"        -> {<<"count", Row(t.user)>>}
      [] OTHER                -> {}

Step(s, next) == tx' = [tx EXCEPT ![s] = next]
Goto(s, pc) == Step(s, [tx[s] EXCEPT !.pc = pc])
End(s) ==
    /\ Step(s, Idle)
    /\ holds' = [holds EXCEPT ![s] = {}]

\* The users whose counters a request moves.
Counted(t) == IF t.kind \in {"follow", "unfollow"} THEN {t.user, t.target} ELSE {}

\* An account goes, or is saved, when no other request of its user is in flight;
\* and, but for SaveRaces, no counters move under a save.
MayBegin(s, next) ==
    /\ ~InFlight(s)
    /\ next.user \in accounts
    /\ \A t \in Sessions : InFlight(t) =>
         /\ {next.kind, tx[t].kind} \cap {"account", "save"} # {}
              => tx[t].user # next.user
         /\ next.kind = "save" => SaveRaces \/ next.user \notin Counted(tx[t])
         /\ tx[t].kind = "save" => SaveRaces \/ tx[t].user \notin Counted(next)

Begin(s, next) ==
    /\ MayBegin(s, next)
    /\ Step(s, next)
    /\ UNCHANGED <<rows, holds>>

-----------------------------------------------------------------------------
(* UsersService.follow                                                     *)

\* The lookup of the target, and the refusal to follow oneself.
FollowBegin(s, a, b) ==
    /\ b \in accounts /\ a # b
    /\ Begin(s, [Idle EXCEPT !.pc = "insertEdge", !.kind = "follow",
                             !.user = a, !.target = b])

\* Mutant of InsertEdge: the duplicate is swallowed, as the comment has it, but the
\* counters are not skipped.
InsertEdgeSwallowing(s) ==
    LET t == tx[s] IN
    /\ t.pc = "insertEdge"
    /\ Lock(s, Takes(t))
    /\ Step(s, [t EXCEPT !.pc = "checkKeys", !.wrote = TRUE])
    /\ UNCHANGED rows

\* The INSERT puts its key in the unique index; 23505 is the ConflictException,
\* which rolls back.
InsertEdge(s) ==
    LET t == tx[s] IN
    /\ t.pc = "insertEdge"
    /\ Free(s, Takes(t))
    /\ IF <<t.user, t.target>> \in follows
       THEN End(s)
       ELSE Lock(s, Takes(t)) /\ Step(s, [t EXCEPT !.pc = "checkKeys", !.wrote = TRUE])
    /\ UNCHANGED rows

\* Its foreign keys: an account that is gone is an error, rethrown.
CheckKeys(s) ==
    LET t == tx[s] IN
    /\ t.pc = "checkKeys"
    /\ Free(s, Takes(t))
    /\ IF {t.user, t.target} \subseteq accounts
       THEN Lock(s, Takes(t)) /\ Goto(s, "countTarget")
       ELSE End(s)
    /\ UNCHANGED rows

-----------------------------------------------------------------------------
(* UsersService.unfollow                                                   *)

UnfollowBegin(s, a, b) ==
    /\ b \in accounts /\ a # b
    /\ Begin(s, [Idle EXCEPT !.pc = "deleteEdge", !.kind = "unfollow",
                             !.user = a, !.target = b])

\* Only a row that was there is counted down.
DeleteEdge(s) ==
    LET t == tx[s]
        affected == <<t.user, t.target>> \in follows
    IN
    /\ t.pc = "deleteEdge"
    /\ Lock(s, Takes(t))
    /\ Step(s, [t EXCEPT !.pc = IF affected THEN "countTarget" ELSE "commit",
                         !.wrote = affected])
    /\ UNCHANGED rows

-----------------------------------------------------------------------------
(* The two counters, in this order for both requests                       *)

CountTarget(s) ==
    /\ tx[s].pc = "countTarget"
    /\ Lock(s, Takes(tx[s]))
    /\ Goto(s, "countSelf")
    /\ UNCHANGED rows

CountSelf(s) ==
    /\ tx[s].pc = "countSelf"
    /\ Lock(s, Takes(tx[s]))
    /\ Goto(s, "commit")
    /\ UNCHANGED rows

-----------------------------------------------------------------------------
(* UsersService.deleteAccount: the DELETE, then what ON DELETE CASCADE does *)

EraseBegin(s, u) ==
    /\ u \in Deletable
    /\ Begin(s, [Idle EXCEPT !.pc = "eraseUser", !.kind = "account", !.user = u])

EraseUser(s) ==
    /\ tx[s].pc = "eraseUser"
    /\ Lock(s, Takes(tx[s]))
    /\ Goto(s, "eraseEdges")
    /\ UNCHANGED rows

EraseEdges(s) ==
    /\ tx[s].pc = "eraseEdges"
    /\ Lock(s, Takes(tx[s]))
    /\ Goto(s, "commit")
    /\ UNCHANGED rows

-----------------------------------------------------------------------------
(* users.save(user): the row is loaded, changed, and saved as a whole.     *)

SaveBegin(s, u) ==
    Begin(s, [Idle EXCEPT !.pc = "reload", !.kind = "save", !.user = u,
                          !.followers = followerCount[u],
                          !.following = followingCount[u]])

\* TypeORM reads the row again; a column that differs from the loaded one is
\* written back, the counters too.
SaveReload(s) ==
    LET t == tx[s] IN
    /\ t.pc = "reload"
    /\ Step(s, [t EXCEPT !.pc = "save", !.stale =
            {c \in Columns :
                \/ c = "followerCount" /\ followerCount[t.user] # t.followers
                \/ c = "followingCount" /\ followingCount[t.user] # t.following}])
    /\ UNCHANGED <<rows, holds>>

SaveWrite(s) ==
    /\ tx[s].pc = "save"
    /\ Lock(s, Takes(tx[s]))
    /\ Goto(s, "commit")
    /\ UNCHANGED rows

-----------------------------------------------------------------------------
(* The end of a transaction                                                *)

\* Mutant of Delta: every unfollow counts down, whether or not a row went.
DeltaUnchecked(t) ==
    IF t.kind = "unfollow" THEN -1 ELSE IF t.wrote THEN 1 ELSE 0

\* What a follow or an unfollow adds to the counters of its two users.
Delta(t) ==
    IF ~t.wrote THEN 0 ELSE IF t.kind = "follow" THEN 1 ELSE -1

CommitEdge(s) ==
    LET t == tx[s]
        edge == {<<t.user, t.target>>}
    IN
    /\ t.pc = "commit" /\ t.kind \in {"follow", "unfollow"}
    /\ follows' = CASE Delta(t) = 0  -> follows
                    [] Delta(t) = 1  -> follows \cup edge
                    [] Delta(t) = -1 -> follows \ edge
    /\ followerCount' = [followerCount EXCEPT ![t.target] = @ + Delta(t)]
    /\ followingCount' = [followingCount EXCEPT ![t.user] = @ + Delta(t)]
    /\ End(s)
    /\ UNCHANGED <<accounts, lostFollowers, lostFollowing>>

CommitErase(s) ==
    LET u == tx[s].user IN
    /\ tx[s].pc = "commit" /\ tx[s].kind = "account"
    /\ accounts' = accounts \ {u}
    /\ follows' = {e \in follows : u \notin {e[1], e[2]}}
    /\ lostFollowers' = [b \in Users |->
          lostFollowers[b] + IF <<u, b>> \in follows THEN 1 ELSE 0]
    /\ lostFollowing' = [a \in Users |->
          lostFollowing[a] + IF <<a, u>> \in follows THEN 1 ELSE 0]
    /\ End(s)
    /\ UNCHANGED <<followerCount, followingCount>>

CommitSave(s) ==
    LET t == tx[s] IN
    /\ t.pc = "commit" /\ t.kind = "save"
    /\ followerCount' = [followerCount EXCEPT ![t.user] =
          IF "followerCount" \in t.stale THEN t.followers ELSE @]
    /\ followingCount' = [followingCount EXCEPT ![t.user] =
          IF "followingCount" \in t.stale THEN t.following ELSE @]
    /\ End(s)
    /\ UNCHANGED <<accounts, follows, lostFollowers, lostFollowing>>

\* Mutant of Timeout: statement_timeout is not set.
NoTimeout(s) ==
    /\ FALSE
    /\ End(s)
    /\ UNCHANGED rows

\* statement_timeout cancels a statement that waits; the transaction rolls back.
Timeout(s) ==
    /\ InFlight(s)
    /\ ~Free(s, Takes(tx[s]))
    /\ End(s)
    /\ UNCHANGED rows

\* The connection or the process is lost: the transaction rolls back.
Abort(s) ==
    /\ InFlight(s)
    /\ End(s)
    /\ UNCHANGED rows

-----------------------------------------------------------------------------

Init ==
    /\ accounts = Users
    /\ follows = {}
    /\ followerCount = [u \in Users |-> 0]
    /\ followingCount = [u \in Users |-> 0]
    /\ tx = [s \in Sessions |-> Idle]
    /\ holds = [s \in Sessions |-> {}]
    /\ lostFollowers = [u \in Users |-> 0]
    /\ lostFollowing = [u \in Users |-> 0]

Request(s) ==
    \/ \E a, b \in Users : FollowBegin(s, a, b) \/ UnfollowBegin(s, a, b)
    \/ \E u \in Users : EraseBegin(s, u) \/ SaveBegin(s, u)

Statement(s) ==
    \/ InsertEdge(s) \/ CheckKeys(s) \/ DeleteEdge(s)
    \/ CountTarget(s) \/ CountSelf(s)
    \/ EraseUser(s) \/ EraseEdges(s)
    \/ SaveReload(s) \/ SaveWrite(s)
    \/ CommitEdge(s) \/ CommitErase(s) \/ CommitSave(s)

Next == \E s \in Sessions : Request(s) \/ Statement(s) \/ Timeout(s) \/ Abort(s)

Spec == Init /\ [][Next]_vars

\* A statement runs, or is cancelled after statement_timeout; nothing makes a
\* client send a request or a connection break.
Fairness == \A s \in Sessions : WF_vars(Statement(s) \/ Timeout(s))
FairSpec == Spec /\ Fairness

-----------------------------------------------------------------------------
(* Properties                                                              *)

Followers(u) == {e \in follows : e[2] = u}
Followed(u) == {e \in follows : e[1] = u}

TypeOK ==
    /\ accounts \in SUBSET Users
    /\ follows \in SUBSET Edges
    /\ followerCount \in [Users -> Nat]
    /\ followingCount \in [Users -> Nat]
    /\ tx \in [Sessions -> TxState]
    /\ holds \in [Sessions -> SUBSET Locks]
    /\ lostFollowers \in [Users -> Nat]
    /\ lostFollowing \in [Users -> Nat]

\* The one way the two counters of an account leave the numbers of its edges is the
\* deletion of the account at the other end, by one for each such edge: no double
\* click, replay, pair of opposite follows that deadlock or rollback moves them.
DriftOnlyByDeletion ==
    \A u \in accounts :
        /\ followerCount[u] = Cardinality(Followers(u)) + lostFollowers[u]
        /\ followingCount[u] = Cardinality(Followed(u)) + lostFollowing[u]

\* "users.follower_count is the denormalised count of rows where following_id =
\* users.id, kept in sync by UsersService.follow/unfollow inside a transaction"
\* (user-follow.entity.ts:15-17): the deletion of a follower leaves it too high.
FollowerCountInSync ==
    \A u \in accounts : followerCount[u] = Cardinality(Followers(u))

\* A request never hangs: users who follow each other at the same moment lock each
\* other's rows in opposite orders, and the timeout lets one of them go on.
RequestsEnd == \A s \in Sessions : InFlight(s) ~> ~InFlight(s)

\* The transactions behave as the ledger, in which every request is one step.
Ledger == INSTANCE FollowLedger

ImplementsLedger == Ledger!Spec

=============================================================================
