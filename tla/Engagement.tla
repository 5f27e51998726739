----------------------------- MODULE Engagement -----------------------------
(***************************************************************************)
(* Check-ins, votes and the two counters derived from them.                *)
(*                                                                         *)
(* CheckInsService and VotesService keep four tables and two denormalised  *)
(* counters (venues.upvotes, users.check_in_count) in step by running each *)
(* request in one READ COMMITTED transaction, without SELECT ... FOR       *)
(* UPDATE.  A session is one such transaction.  Every SQL statement is an  *)
(* action: a SELECT reads what is committed at that moment into the        *)
(* session's record, a write takes the lock of its row and is buffered in  *)
(* "writes", and Commit applies the buffer and releases the locks.         *)
(* A statement whose row is locked by another session waits: its action is *)
(* not enabled.  A request the code refuses before writing leaves no trace *)
(* and is not modelled as a step.                                          *)
(*                                                                         *)
(* Left out: a memory's text, photos and 30-minute lock (it can only       *)
(* refuse a request), and the venue lookup (venues are fixed here).        *)
(***************************************************************************)
EXTENDS Integers, FiniteSets

CONSTANTS
    Users,       \* accounts that exist initially
    Deletable,   \* the accounts that may be deleted (a bound)
    Venues,      \* catalogue venues
    Custom,      \* the venue of a check-in at a custom place: venue_id NULL
    CheckInIds,  \* primary keys of check_ins (a bound: a soft delete frees none)
    VoteIds,     \* primary keys of votes (a bound on the rows at one time)
    Sessions,    \* concurrent transactions, at most one per pool connection
    None,        \* no row, no id
    Overlap,     \* the sets {k1, k2} of request kinds that one user may have in
                 \* flight together; {} when each user awaits every answer
    LastDay,     \* the last calendar day (a bound)
    MidnightSplits  \* whether midnight may fall inside an open create

Kinds == {"cast", "create", "remove", "memory", "leave", "account"}

ASSUME OverlapAssumption == Overlap \subseteq SUBSET Kinds
ASSUME ConstantsAssumption ==
    /\ Deletable \subseteq Users
    /\ Custom \notin Venues
    /\ None \notin Users \cup Venues \cup {Custom} \cup CheckInIds \cup VoteIds
    /\ LastDay \in Nat
    /\ MidnightSplits \in BOOLEAN
    /\ IsFiniteSet(CheckInIds)
    /\ IsFiniteSet(VoteIds)

VARIABLES
    accounts,      \* SUBSET Users: rows of users
    checkIns,      \* [CheckInIds -> row or None]
    votes,         \* [VoteIds -> row or None]
    journey,       \* set of <<user, venue>>: rows of journey_entries
    upvotes,       \* [Venues -> Int]: venues.upvotes
    checkInCount,  \* [Users -> Int]: users.check_in_count
    today,         \* the Vietnam calendar day
    tx,            \* [Sessions -> the session's record]
    holds,         \* [Sessions -> set of locked rows]
    orphaned       \* [Venues -> Nat]: history, +1 votes erased with their account

rows == <<accounts, checkIns, votes, journey, upvotes, checkInCount, orphaned>>
vars == <<rows, today, tx, holds>>

VoteValues == {1, -1}
Places == Venues \cup {Custom}
Days == 0..LastDay

CheckInRow == [user : Users, venue : Places, day : Days, deleted : BOOLEAN]
VoteRow == [user : Users, venue : Venues, value : VoteValues]

ASSUME RowAssumption == None \notin CheckInRow \cup VoteRow

\* A lock is on a row, or on the key an uncommitted INSERT has put in a unique
\* index (uq_vote_user_venue, uq_journey_user_venue).
Locks ==
    ({"user"} \X Users) \cup ({"venue"} \X Venues)
    \cup ({"checkIn"} \X CheckInIds) \cup ({"vote"} \X VoteIds)
    \cup ({"voteKey", "journeyKey"} \X (Users \X Venues))

Writes == {"insertCheckIn", "softDelete", "undelete", "addJourney",
           "insertVote", "setVote", "deleteVote"}

\* The statement a session runs next.
Statements == {"idle", "commit",
    "findVote", "insertVote", "reloadVote", "setVote", "deleteVote", "count",
    "findLast", "insertCheckIn", "findJourney", "addJourney",
    "softDelete", "decrement", "countRemaining", "findLingering", "uncount",
    "reloadCheckIn", "saveCheckIn"}

TxState == [pc : Statements, kind : Kinds \cup {None},
            user : Users \cup {None}, venue : Places \cup {None},
            ci : CheckInIds \cup {None}, vote : VoteIds \cup {None},
            want : VoteValues \cup {0},   \* the value a cast asks for
            old : VoteValues \cup {0},    \* the value of the vote it read
            day : Days,                   \* now() of the transaction
            writes : SUBSET Writes]

Idle == [pc |-> "idle", kind |-> None, user |-> None, venue |-> None,
         ci |-> None, vote |-> None, want |-> 0, old |-> 0, day |-> 0,
         writes |-> {}]

-----------------------------------------------------------------------------
(* What a statement sees: committed rows.                                  *)

\* A soft-deleted row is invisible to find, exists and count.
Live(c) == checkIns[c] # None /\ ~checkIns[c].deleted

VisitsOf(u, v) == {c \in CheckInIds :
    Live(c) /\ checkIns[c].user = u /\ checkIns[c].venue = v}
VoteOf(u, v) == {i \in VoteIds :
    votes[i] # None /\ votes[i].user = u /\ votes[i].venue = v}

InFlight(s) == tx[s].pc # "idle"

\* A user begins a request of a kind when no other of theirs is in flight, but
\* for the kinds Overlap lets run together.
MayBegin(s, u, kind) ==
    /\ ~InFlight(s)
    /\ u \in accounts
    /\ \A t \in Sessions :
         InFlight(t) /\ tx[t].user = u => {tx[t].kind, kind} \in Overlap

Free(s, lock) == \A t \in Sessions \ {s} : lock \notin holds[t]

\* A write takes its row's lock; the session keeps it until it ends.
Lock(s, lock) ==
    /\ Free(s, lock)
    /\ holds' = [holds EXCEPT ![s] = @ \cup {lock}]

Step(s, next) == tx' = [tx EXCEPT ![s] = next]
Goto(s, pc) == Step(s, [tx[s] EXCEPT !.pc = pc])
GotoWriting(s, pc, write) ==
    Step(s, [tx[s] EXCEPT !.pc = pc, !.writes = @ \cup {write}])
End(s) ==
    /\ Step(s, Idle)
    /\ holds' = [holds EXCEPT ![s] = {}]

\* A primary key no row and no session has.
FreshCheckIn(c) == checkIns[c] = None /\ \A t \in Sessions : tx[t].ci # c
FreshVote(i) == votes[i] = None /\ \A t \in Sessions : tx[t].vote # i

-----------------------------------------------------------------------------
(* VotesService.cast                                                       *)

\* Mutant of VoteDelta: an upvote that becomes a downvote is still counted.
VoteDeltaKeepingUpvote(old, want) ==
    IF want = 1 /\ old # 1 THEN 1 ELSE IF want = 1 /\ old = 1 THEN -1 ELSE 0

\* What cast adds to venue.upvotes when it finds the value old (0: no vote).
VoteDelta(old, want) ==
    CASE old = 0    -> IF want = 1 THEN 1 ELSE 0
      [] old = want -> IF old = 1 THEN -1 ELSE 0
      [] OTHER      -> IF want = 1 THEN 1 ELSE -1

AfterVoteWrite(t) ==
    IF t.kind = "cast" /\ VoteDelta(t.old, t.want) # 0 THEN "count" ELSE "commit"

CastBegin(s, u, v, want) ==
    /\ MayBegin(s, u, "cast")
    /\ VisitsOf(u, v) # {}
    /\ Step(s, [Idle EXCEPT !.pc = "findVote", !.kind = "cast", !.user = u,
                            !.venue = v, !.want = want])
    /\ UNCHANGED <<rows, today, holds>>

CastFindVote(s) ==
    LET t == tx[s] IN
    /\ t.pc = "findVote"
    /\ \/ /\ VoteOf(t.user, t.venue) = {}
          /\ Goto(s, "insertVote")
       \/ \E i \in VoteOf(t.user, t.venue) :
            Step(s, [t EXCEPT !.vote = i, !.old = votes[i].value,
                       !.pc = IF votes[i].value = t.want THEN "deleteVote"
                                                         ELSE "reloadVote"])
    /\ UNCHANGED <<rows, today, holds>>

\* manager.insert, or the INSERT of a save that found its row gone, which keeps
\* the id.  A duplicate (user, venue) or a user_id without its user (the account
\* was deleted meanwhile) is an error, left to Abort.
CastInsertVote(s) ==
    LET t == tx[s] IN
    /\ t.pc = "insertVote"
    /\ t.user \in accounts
    /\ VoteOf(t.user, t.venue) = {}
    /\ Lock(s, <<"voteKey", <<t.user, t.venue>>>>)
    /\ \E i \in VoteIds :
         /\ IF t.vote = None THEN FreshVote(i) ELSE i = t.vote
         /\ Step(s, [t EXCEPT !.vote = i, !.writes = @ \cup {"insertVote"},
                              !.pc = AfterVoteWrite(t)])
    /\ UNCHANGED <<rows, today>>

\* DELETE by id; a row that is gone makes it affect no row and lock none.
DeleteVote(s) ==
    LET t == tx[s] IN
    /\ t.pc = "deleteVote"
    /\ \/ /\ votes[t.vote] # None
          /\ Lock(s, <<"vote", t.vote>>)
          /\ GotoWriting(s, AfterVoteWrite(t), "deleteVote")
       \/ /\ votes[t.vote] = None
          /\ Goto(s, AfterVoteWrite(t))
          /\ UNCHANGED holds
    /\ UNCHANGED <<rows, today>>

\* manager.save(existing): TypeORM first re-reads the row by its id.  A row that
\* is gone is inserted again; one that has the value already is left alone.
CastReloadVote(s) ==
    LET t == tx[s] IN
    /\ t.pc = "reloadVote"
    /\ Goto(s, CASE votes[t.vote] = None         -> "insertVote"
                 [] votes[t.vote] # None /\ votes[t.vote].value = t.want
                                                  -> AfterVoteWrite(t)
                 [] OTHER                         -> "setVote")
    /\ UNCHANGED <<rows, today, holds>>

CastSetVote(s) ==
    LET t == tx[s] IN
    /\ t.pc = "setVote"
    /\ \/ /\ votes[t.vote] # None
          /\ Lock(s, <<"vote", t.vote>>)
          /\ GotoWriting(s, AfterVoteWrite(t), "setVote")
       \/ /\ votes[t.vote] = None
          /\ Goto(s, AfterVoteWrite(t))
          /\ UNCHANGED holds
    /\ UNCHANGED <<rows, today>>

\* manager.increment(Venue, { id }, 'upvotes', upvoteDelta)
CastCount(s) ==
    LET t == tx[s] IN
    /\ t.pc = "count"
    /\ Lock(s, <<"venue", t.venue>>)
    /\ Goto(s, "commit")
    /\ UNCHANGED <<rows, today>>

-----------------------------------------------------------------------------
(* CheckInsService.create and createCustom                                 *)

\* BEGIN: created_at will be DEFAULT now(), the time of this step.
CreateBegin(s, u, v) ==
    /\ MayBegin(s, u, "create")
    /\ Step(s, [Idle EXCEPT !.kind = "create", !.user = u, !.venue = v,
                  !.day = today,
                  !.pc = IF v = Custom THEN "insertCheckIn" ELSE "findLast"])
    /\ UNCHANGED <<rows, today, holds>>

\* last = the newest live check-in here; isSameVnDay(last.createdAt, new Date())
\* refuses the request.
VisitedToday(u, v) ==
    \E c \in VisitsOf(u, v) :
        /\ \A d \in VisitsOf(u, v) : checkIns[d].day <= checkIns[c].day
        /\ checkIns[c].day = today

\* Mutant of CreateFindLast: nothing is refused.
CreateWithoutLimit(s) ==
    /\ tx[s].pc = "findLast"
    /\ Goto(s, "insertCheckIn")
    /\ UNCHANGED <<rows, today, holds>>

CreateFindLast(s) ==
    LET t == tx[s] IN
    /\ t.pc = "findLast"
    /\ \/ /\ VisitedToday(t.user, t.venue)
          /\ End(s)
       \/ /\ ~VisitedToday(t.user, t.venue)
          /\ Goto(s, "insertCheckIn")
          /\ UNCHANGED holds
    /\ UNCHANGED <<rows, today>>

\* The INSERT, which nobody sees before the commit and which fails without the
\* user's row (left to Abort), and the increment of users.check_in_count.
CreateInsert(s) ==
    LET t == tx[s] IN
    /\ t.pc = "insertCheckIn"
    /\ t.user \in accounts
    /\ Lock(s, <<"user", t.user>>)
    /\ \E c \in CheckInIds :
         /\ FreshCheckIn(c)
         /\ Step(s, [t EXCEPT !.ci = c, !.writes = @ \cup {"insertCheckIn"},
              !.pc = IF t.venue = Custom THEN "commit" ELSE "findJourney"])
    /\ UNCHANGED <<rows, today>>

CreateFindJourney(s) ==
    LET t == tx[s] IN
    /\ t.pc = "findJourney"
    /\ Goto(s, IF <<t.user, t.venue>> \in journey THEN "commit" ELSE "addJourney")
    /\ UNCHANGED <<rows, today, holds>>

\* A duplicate (user, venue) is an error, left to Abort.
CreateAddJourney(s) ==
    LET t == tx[s] IN
    /\ t.pc = "addJourney"
    /\ <<t.user, t.venue>> \notin journey
    /\ Lock(s, <<"journeyKey", <<t.user, t.venue>>>>)
    /\ GotoWriting(s, "commit", "addJourney")
    /\ UNCHANGED <<rows, today>>

-----------------------------------------------------------------------------
(* CheckInsService.remove; removeLatest calls it with the id it looked up   *)

\* findOne, then the owner's check.
RemoveBegin(s, u, c) ==
    /\ MayBegin(s, u, "remove")
    /\ Live(c)
    /\ checkIns[c].user = u
    /\ Step(s, [Idle EXCEPT !.pc = "softDelete", !.kind = "remove", !.user = u,
                            !.ci = c, !.venue = checkIns[c].venue])
    /\ UNCHANGED <<rows, today, holds>>

\* UPDATE ... SET deleted_at WHERE id: it does not ask that deleted_at be null.
\* A row that went with its account makes it affect no row.
RemoveSoftDelete(s) ==
    LET t == tx[s] IN
    /\ t.pc = "softDelete"
    /\ \/ /\ checkIns[t.ci] # None
          /\ Lock(s, <<"checkIn", t.ci>>)
          /\ GotoWriting(s, "decrement", "softDelete")
       \/ /\ checkIns[t.ci] = None
          /\ Goto(s, "decrement")
          /\ UNCHANGED holds
    /\ UNCHANGED <<rows, today>>

\* Mutant of RemoveDecrement: the count moves to after the commit, so nothing
\* serialises two removals of one user.
RemoveWithoutUserLock(s) ==
    LET t == tx[s] IN
    /\ t.pc = "decrement"
    /\ Goto(s, IF t.venue = Custom THEN "commit" ELSE "countRemaining")
    /\ UNCHANGED <<rows, today, holds>>

RemoveDecrement(s) ==
    LET t == tx[s] IN
    /\ t.pc = "decrement"
    /\ IF t.user \in accounts THEN Lock(s, <<"user", t.user>>) ELSE UNCHANGED holds
    /\ Goto(s, IF t.venue = Custom THEN "commit" ELSE "countRemaining")
    /\ UNCHANGED <<rows, today>>

\* The session sees its own soft delete.
RemoveCountRemaining(s) ==
    LET t == tx[s] IN
    /\ t.pc = "countRemaining"
    /\ Goto(s, IF VisitsOf(t.user, t.venue) \ {t.ci} = {}
               THEN "findLingering" ELSE "commit")
    /\ UNCHANGED <<rows, today, holds>>

RemoveFindVote(s) ==
    LET t == tx[s] IN
    /\ t.pc = "findLingering"
    /\ \/ /\ VoteOf(t.user, t.venue) = {}
          /\ Goto(s, "commit")
       \/ \E i \in VoteOf(t.user, t.venue) :
            Step(s, [t EXCEPT !.vote = i, !.old = votes[i].value,
                       !.pc = IF votes[i].value = 1 THEN "uncount"
                                                    ELSE "deleteVote"])
    /\ UNCHANGED <<rows, today, holds>>

RemoveUncount(s) ==
    LET t == tx[s] IN
    /\ t.pc = "uncount"
    /\ Lock(s, <<"venue", t.venue>>)
    /\ Goto(s, "deleteVote")
    /\ UNCHANGED <<rows, today>>

-----------------------------------------------------------------------------
(* CheckInsService.updateMemory: find, then manager.save of the whole row   *)

MemoryBegin(s, u, c) ==
    /\ MayBegin(s, u, "memory")
    /\ Live(c)
    /\ checkIns[c].user = u
    /\ Step(s, [Idle EXCEPT !.pc = "reloadCheckIn", !.kind = "memory",
                            !.user = u, !.ci = c, !.venue = checkIns[c].venue])
    /\ UNCHANGED <<rows, today, holds>>

\* The entity in hand has deletedAt null: a row found soft-deleted differs from
\* it in that column too, and the UPDATE will set it.  A row that is gone would be
\* inserted again, but its user is gone too: an error, left to Abort.
MemoryReload(s) ==
    LET t == tx[s] IN
    /\ t.pc = "reloadCheckIn"
    /\ checkIns[t.ci] # None
    /\ IF checkIns[t.ci].deleted THEN GotoWriting(s, "saveCheckIn", "undelete")
                                 ELSE Goto(s, "saveCheckIn")
    /\ UNCHANGED <<rows, today, holds>>

MemorySave(s) ==
    LET t == tx[s] IN
    /\ t.pc = "saveCheckIn"
    /\ IF checkIns[t.ci] # None THEN Lock(s, <<"checkIn", t.ci>>) ELSE UNCHANGED holds
    /\ Goto(s, "commit")
    /\ UNCHANGED <<rows, today>>

-----------------------------------------------------------------------------
(* The end of a transaction                                                *)

\* Mutant of UpvotesDelta: removing a last check-in forgets the upvote.
UpvotesDeltaOfCasts(t) ==
    IF t.kind = "cast" THEN VoteDelta(t.old, t.want) ELSE 0

\* Mutant of CheckInDelta: a removal does not count down.
CheckInDeltaUpOnly(t) == IF "insertCheckIn" \in t.writes THEN 1 ELSE 0

\* What a transaction adds to venue.upvotes and to user.checkInCount.
UpvotesDelta(t) ==
    CASE t.kind = "cast"                  -> VoteDelta(t.old, t.want)
      [] t.kind = "remove" /\ t.old = 1   -> -1
      [] OTHER                            -> 0
CheckInDelta(t) ==
    CASE "insertCheckIn" \in t.writes -> 1
      [] "softDelete" \in t.writes    -> -1
      [] OTHER                        -> 0

CheckInAfter(t) ==
    CASE "insertCheckIn" \in t.writes ->
           [user |-> t.user, venue |-> t.venue, day |-> t.day, deleted |-> FALSE]
      [] checkIns[t.ci] # None /\ "softDelete" \in t.writes ->
           [checkIns[t.ci] EXCEPT !.deleted = TRUE]
      [] checkIns[t.ci] # None /\ "undelete" \in t.writes ->
           [checkIns[t.ci] EXCEPT !.deleted = FALSE]
      [] OTHER -> checkIns[t.ci]

VoteAfter(t) ==
    CASE "insertVote" \in t.writes ->
           [user |-> t.user, venue |-> t.venue, value |-> t.want]
      [] "setVote" \in t.writes    -> [votes[t.vote] EXCEPT !.value = t.want]
      [] "deleteVote" \in t.writes -> None
      [] OTHER                     -> votes[t.vote]

Commit(s) ==
    LET t == tx[s] IN
    /\ t.pc = "commit"
    /\ checkIns' = IF t.ci = None THEN checkIns
                   ELSE [checkIns EXCEPT ![t.ci] = CheckInAfter(t)]
    /\ votes' = IF t.vote = None THEN votes
                ELSE [votes EXCEPT ![t.vote] = VoteAfter(t)]
    /\ journey' = IF "addJourney" \in t.writes
                  THEN journey \cup {<<t.user, t.venue>>} ELSE journey
    /\ upvotes' = IF t.venue = Custom THEN upvotes
                  ELSE [upvotes EXCEPT ![t.venue] = @ + UpvotesDelta(t)]
    /\ checkInCount' = [checkInCount EXCEPT ![t.user] = @ + CheckInDelta(t)]
    /\ End(s)
    /\ UNCHANGED <<accounts, orphaned, today>>

\* The transaction rolls back: a unique violation, a deadlock, the statement
\* timeout, a lost connection or the end of the process.
Abort(s) ==
    /\ InFlight(s)
    /\ End(s)
    /\ UNCHANGED <<rows, today>>

-----------------------------------------------------------------------------
(* Requests of one statement, and the clock                                *)

\* JourneyService.remove
LeaveJourney(s, u, v) ==
    /\ MayBegin(s, u, "leave")
    /\ <<u, v>> \in journey
    /\ journey' = journey \ {<<u, v>>}
    /\ UNCHANGED <<accounts, checkIns, votes, upvotes, checkInCount, orphaned,
                   today, tx, holds>>

\* The locks the DELETE of a user waits for: its row's, those of the rows that go
\* with it, and an uncommitted row of the user, whose INSERT holds the user's row.
LocksOf(u) ==
    {<<"user", u>>}
    \cup {<<"checkIn", c>> : c \in {d \in CheckInIds :
             checkIns[d] # None /\ checkIns[d].user = u}}
    \cup {<<"vote", i>> : i \in {j \in VoteIds :
             votes[j] # None /\ votes[j].user = u}}
    \cup ({"voteKey", "journeyKey"} \X ({u} \X Venues))

\* UsersService.deleteAccount: one DELETE, whose cascades empty the user's rows
\* of check_ins, votes and journey_entries and adjust no counter.  Requests of the
\* user that hold no lock yet go on without their rows.
DeleteAccount(s, u) ==
    /\ MayBegin(s, u, "account")
    /\ u \in Deletable
    /\ \A lock \in LocksOf(u) : Free(s, lock)
    /\ accounts' = accounts \ {u}
    /\ checkIns' = [c \in CheckInIds |->
          IF checkIns[c] # None /\ checkIns[c].user = u THEN None ELSE checkIns[c]]
    /\ votes' = [i \in VoteIds |->
          IF votes[i] # None /\ votes[i].user = u THEN None ELSE votes[i]]
    /\ journey' = {e \in journey : e[1] # u}
    /\ orphaned' = [v \in Venues |-> orphaned[v]
          + Cardinality({i \in VoteOf(u, v) : votes[i].value = 1})]
    /\ UNCHANGED <<upvotes, checkInCount, today, tx, holds>>

Midnight ==
    /\ today < LastDay
    /\ MidnightSplits \/ \A s \in Sessions : tx[s].kind # "create"
    /\ today' = today + 1
    /\ UNCHANGED <<rows, tx, holds>>

-----------------------------------------------------------------------------

Init ==
    /\ accounts = Users
    /\ checkIns = [c \in CheckInIds |-> None]
    /\ votes = [i \in VoteIds |-> None]
    /\ journey = {}
    /\ upvotes = [v \in Venues |-> 0]
    /\ checkInCount = [u \in Users |-> 0]
    /\ today = 0
    /\ tx = [s \in Sessions |-> Idle]
    /\ holds = [s \in Sessions |-> {}]
    /\ orphaned = [v \in Venues |-> 0]

CastStep(s) ==
    \/ \E u \in Users, v \in Venues, want \in VoteValues : CastBegin(s, u, v, want)
    \/ CastFindVote(s) \/ CastInsertVote(s) \/ CastReloadVote(s)
    \/ CastSetVote(s) \/ CastCount(s)

CreateStep(s) ==
    \/ \E u \in Users, v \in Places : CreateBegin(s, u, v)
    \/ CreateFindLast(s) \/ CreateInsert(s) \/ CreateFindJourney(s)
    \/ CreateAddJourney(s)

RemoveStep(s) ==
    \/ \E u \in Users, c \in CheckInIds : RemoveBegin(s, u, c)
    \/ RemoveSoftDelete(s) \/ RemoveDecrement(s) \/ RemoveCountRemaining(s)
    \/ RemoveFindVote(s) \/ RemoveUncount(s)

MemoryStep(s) ==
    \/ \E u \in Users, c \in CheckInIds : MemoryBegin(s, u, c)
    \/ MemoryReload(s) \/ MemorySave(s)

Next ==
    \/ \E s \in Sessions :
         \/ CastStep(s) \/ CreateStep(s) \/ RemoveStep(s) \/ MemoryStep(s)
         \/ DeleteVote(s) \/ Commit(s) \/ Abort(s)
         \/ \E u \in Users, v \in Venues : LeaveJourney(s, u, v)
         \/ \E u \in Users : DeleteAccount(s, u)
    \/ Midnight

Spec == Init /\ [][Next]_vars

-----------------------------------------------------------------------------
(* Properties                                                              *)

TypeOK ==
    /\ accounts \in SUBSET Users
    /\ checkIns \in [CheckInIds -> CheckInRow \cup {None}]
    /\ votes \in [VoteIds -> VoteRow \cup {None}]
    /\ journey \in SUBSET (Users \X Venues)
    /\ upvotes \in [Venues -> Int]
    /\ checkInCount \in [Users -> Int]
    /\ today \in Days
    /\ tx \in [Sessions -> TxState]
    /\ holds \in [Sessions -> SUBSET Locks]
    /\ orphaned \in [Venues -> Nat]

\* Rows the counters count.
UpvotesAt(v) == {i \in VoteIds :
    votes[i] # None /\ votes[i].venue = v /\ votes[i].value = 1}
LiveOf(u) == {c \in CheckInIds : Live(c) /\ checkIns[c].user = u}

\* venue.upvotes is the number of users that voted +1 (votes.service.ts:20), plus
\* the +1 votes that went with a deleted account: no toggle, flip, removal of a
\* last check-in or rolled back request ever makes the counter drift.
UpvotesExact ==
    \A v \in Venues : upvotes[v] = Cardinality(UpvotesAt(v)) + orphaned[v]

\* The same without the correction for deleted accounts: what the comment at
\* votes.service.ts:20 says.
UpvotesCountVoters ==
    \A v \in Venues : upvotes[v] = Cardinality(UpvotesAt(v))

\* user.checkInCount is the number of the user's check-ins that are not deleted.
CheckInCountExact ==
    \A u \in accounts : checkInCount[u] = Cardinality(LiveOf(u))

\* "User must have already checked in to vote" (votes.service.ts:19): whoever has
\* a vote at a venue still has a check-in there, whatever was removed since.
VoteNeedsCheckIn ==
    \A i \in VoteIds : votes[i] # None =>
        VisitsOf(votes[i].user, votes[i].venue) # {}

\* "at most once per Vietnam calendar day" (check-ins.service.ts:75).
OncePerVnDay ==
    \A c, d \in CheckInIds :
        /\ c # d /\ Live(c) /\ Live(d)
        /\ checkIns[c].user = checkIns[d].user
        /\ checkIns[c].venue = checkIns[d].venue
        /\ checkIns[c].venue # Custom
        => checkIns[c].day # checkIns[d].day

\* Each user's requests one after the other, the transactions of all users
\* together behave as the ledger, in which every request is one step: nobody is
\* ever counted in two halves, and a request rolled back leaves nothing behind.
Opinion(u, v) ==
    IF VoteOf(u, v) = {} THEN 0 ELSE votes[CHOOSE i \in VoteOf(u, v) : TRUE].value

Ledger == INSTANCE EngagementLedger WITH
    members <- accounts,
    visits <- [u \in Users |-> [p \in Places |-> Cardinality(VisitsOf(u, p))]],
    opinion <- [u \in Users |-> [v \in Venues |-> Opinion(u, v)]]

ImplementsLedger == Ledger!Spec

=============================================================================
