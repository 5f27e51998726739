-------------------------------- MODULE Trips --------------------------------
(***************************************************************************)
(* TripsService: one trip, its members and the feed of the memories they   *)
(* post.                                                                   *)
(*                                                                         *)
(* A request loads rows, decides, and saves.  Nothing locks what it has    *)
(* loaded, so a request is two steps: its Load keeps the entities it will  *)
(* save, and its Save writes them over the rows as they are by then, every *)
(* column, as TypeORM's save does.  Requests that write a common row       *)
(* overlap only as Races has it; the reload and the write of one save are  *)
(* one step, and so are the statements of one transaction.                 *)
(***************************************************************************)
EXTENDS Integers, FiniteSets

CONSTANTS
    Users,       \* accounts
    Sessions,    \* concurrent requests
    None,        \* no trip, no row, no time
    Races,       \* the pairs of kinds of request that may overlap though they write
                 \* a common row
    MaxTime,     \* the last day (a bound)
    MaxPosts     \* the memories posted (a bound)

Kinds == {"update", "end", "delete", "invite", "respond", "leave", "removeMember",
          "transfer"}

ASSUME TripsAssumption ==
    /\ None \notin Users
    /\ Races \subseteq SUBSET Kinds
    /\ {MaxTime, MaxPosts} \subseteq Nat
    /\ IsFiniteSet(Sessions)

VARIABLES
    trip,      \* the row of trips, None before it is created
    members,   \* [Users -> the user's row of trip_members, or None]
    memories,  \* set of <<author, day>>: public check-ins
    now,       \* the day
    tx         \* [Sessions -> the request in flight]

vars == <<trip, members, memories, now, tx>>

Days == 0..MaxTime
Statuses == {"invited", "joined", "declined", "left"}

TripRow == [owner : Users, start : Days, end : Days, ended : Days \cup {None},
            deleted : BOOLEAN]
MemberRow == [row : 1..(Cardinality(Sessions) + 1),   \* its id
              role : {"owner", "member"}, status : Statuses,
              joinedAt : BOOLEAN]                     \* whether joined_at is set

\* A request: the entities it is about to save.
TxState == [kind : Kinds \cup {"idle"},
            trip : TripRow \cup {None},
            rows : [Users -> MemberRow \cup {None}],  \* None: the row is not saved
            gone : SUBSET Users]                      \* rows to delete

ASSUME RowAssumption == None \notin TripRow /\ None \notin MemberRow

NoRows == [u \in Users |-> None]
Idle == [kind |-> "idle", trip |-> None, rows |-> NoRows, gone |-> {}]

Live == trip # None /\ ~trip.deleted

-----------------------------------------------------------------------------
(* Loading and saving                                                      *)

\* The rows a request writes.
Writes(t) ==
    {u \in Users : t.rows[u] # None} \cup t.gone
        \cup (IF t.trip # None \/ t.kind = "delete" THEN {None} ELSE {})

Load(s, t) ==
    /\ tx[s] = Idle
    /\ \A r \in Sessions : {tx[r].kind, t.kind} \in Races \/ Writes(tx[r]) \cap Writes(t) = {}
    /\ tx' = [tx EXCEPT ![s] = t]
    /\ UNCHANGED <<trip, members, memories, now>>

\* A saved entity finds its row by id: it is updated, inserted again if it has
\* gone, and refused by uq_trip_member_pair if another row has taken its place.
Clash(t) ==
    \E u \in Users : /\ t.rows[u] # None /\ members[u] # None
                     /\ members[u].row # t.rows[u].row

SaveMembers(t) ==
    /\ ~Clash(t)
    /\ members' = [u \in Users |->
         IF u \in t.gone THEN None ELSE IF t.rows[u] # None THEN t.rows[u] ELSE members[u]]

SaveTrip(t) == trip' = t.trip

Finish(s, kind) ==
    /\ tx[s].kind = kind
    /\ tx' = [tx EXCEPT ![s] = Idle]
    /\ UNCHANGED <<memories, now>>

\* The request is refused by a constraint, or its connection is lost.
Abort(s) ==
    /\ tx[s] # Idle
    /\ tx' = [tx EXCEPT ![s] = Idle]
    /\ UNCHANGED <<trip, members, memories, now>>

IsOwner(u) == Live /\ trip.owner = u

-----------------------------------------------------------------------------
(* create, update, endTrip, remove                                         *)

\* One transaction inserts the trip and its owner's row.
Create(u, start, end) ==
    /\ trip = None
    /\ start <= end
    /\ trip' = [owner |-> u, start |-> start, end |-> end, ended |-> None,
                deleted |-> FALSE]
    /\ members' = [members EXCEPT ![u] = [row |-> 1, role |-> "owner",
                                               status |-> "joined", joinedAt |-> TRUE]]
    /\ UNCHANGED <<memories, now, tx>>

\* Any of the dates may be absent from the body; the check is on the entity.
UpdateLoad(s, u, start, end) ==
    LET changed == [trip EXCEPT !.start = start, !.end = end] IN
    /\ IsOwner(u)
    /\ changed.start <= changed.end
    /\ Load(s, [Idle EXCEPT !.kind = "update", !.trip = changed])

UpdateSave(s) ==
    /\ Finish(s, "update")
    /\ SaveTrip(tx[s])
    /\ UNCHANGED members

\* Mutant of EndLoad: a trip that has ended is stamped again.
EndLoadAgain(s, u) ==
    /\ IsOwner(u)
    /\ Load(s, [Idle EXCEPT !.kind = "end", !.trip = [trip EXCEPT !.ended = now]])

\* A no-op if already ended.
EndLoad(s, u) ==
    /\ IsOwner(u)
    /\ trip.ended = None
    /\ Load(s, [Idle EXCEPT !.kind = "end", !.trip = [trip EXCEPT !.ended = now]])

EndSave(s) ==
    /\ Finish(s, "end")
    /\ SaveTrip(tx[s])
    /\ UNCHANGED members

DeleteLoad(s, u) ==
    /\ IsOwner(u)
    /\ Load(s, [Idle EXCEPT !.kind = "delete"])

DeleteSave(s) ==
    /\ Finish(s, "delete")
    /\ trip' = [trip EXCEPT !.deleted = TRUE]
    /\ UNCHANGED members

-----------------------------------------------------------------------------
(* invite, respondInvite, leave, removeMember, transferOwner               *)

\* An id that neither the row nor an entity in flight has.
FreshRow(u) ==
    CHOOSE n \in 1..(Cardinality(Sessions) + 1) :
        /\ members[u] = None \/ members[u].row # n
        /\ \A r \in Sessions : tx[r].rows[u] = None \/ tx[r].rows[u].row # n

\* The row an invitation saves: a new one, or that of a member who had declined.
Invited(u) ==
    IF members[u] = None
    THEN [row |-> FreshRow(u), role |-> "member", status |-> "invited",
          joinedAt |-> FALSE]
    ELSE IF members[u].status = "declined"
         THEN [members[u] EXCEPT !.status = "invited"]
         ELSE None

InviteLoad(s, u, who) ==
    /\ IsOwner(u)
    /\ Load(s, [Idle EXCEPT !.kind = "invite",
            !.rows = [v \in Users |-> IF v \in who \ {u} THEN Invited(v) ELSE None]])

InviteSave(s) ==
    /\ Finish(s, "invite")
    /\ SaveMembers(tx[s])
    /\ UNCHANGED trip

Answered(row, accept) ==
    [row EXCEPT !.status = IF accept THEN "joined" ELSE "declined", !.joinedAt = accept]

\* Mutant of RespondLoad: the status is not looked at.
RespondLoadAnyTime(s, u, accept) ==
    /\ members[u] # None
    /\ Load(s, [Idle EXCEPT !.kind = "respond",
                            !.rows[u] = Answered(members[u], accept)])

\* The trip is not looked at: an invite outlives a trip that is deleted.
RespondLoad(s, u, accept) ==
    /\ members[u] # None /\ members[u].status = "invited"
    /\ Load(s, [Idle EXCEPT !.kind = "respond",
                            !.rows[u] = Answered(members[u], accept)])

RespondSave(s) ==
    /\ Finish(s, "respond")
    /\ SaveMembers(tx[s])
    /\ UNCHANGED trip

\* Whatever the member's status is; only the owner is refused.
LeaveLoad(s, u) ==
    /\ members[u] # None
    /\ ~IsOwner(u)
    /\ Load(s, [Idle EXCEPT !.kind = "leave",
                            !.rows[u] = [members[u] EXCEPT !.status = "left"]])

LeaveSave(s) ==
    /\ Finish(s, "leave")
    /\ SaveMembers(tx[s])
    /\ UNCHANGED trip

\* Mutant of RemoveMemberLoad: the owner may be removed.
RemoveMemberLoadAnyone(s, u, v) ==
    /\ IsOwner(u)
    /\ Load(s, [Idle EXCEPT !.kind = "removeMember", !.gone = {v}])

RemoveMemberLoad(s, u, v) ==
    /\ IsOwner(u)
    /\ v # trip.owner
    /\ Load(s, [Idle EXCEPT !.kind = "removeMember", !.gone = {v}])

RemoveMemberSave(s) ==
    /\ Finish(s, "removeMember")
    /\ SaveMembers(tx[s])
    /\ UNCHANGED trip

\* The roles change hands and so does owner_id; a missing row of the old owner is
\* skipped.
TransferLoad(s, u, v) ==
    /\ IsOwner(u)
    /\ v # u
    /\ members[v] # None /\ members[v].status = "joined"
    /\ Load(s, [Idle EXCEPT !.kind = "transfer", !.trip = [trip EXCEPT !.owner = v],
            !.rows = [w \in Users |->
                CASE w = v                        -> [members[v] EXCEPT !.role = "owner"]
                  [] w = u /\ members[u] # None   -> [members[u] EXCEPT !.role = "member"]
                  [] OTHER                        -> None]])

TransferSave(s) ==
    /\ Finish(s, "transfer")
    /\ SaveMembers(tx[s])
    /\ SaveTrip(tx[s])

-----------------------------------------------------------------------------
(* The feed: listMemories                                                  *)

Authors == {u \in Users : members[u] # None /\ members[u].status \in {"joined", "left"}}

\* Mutant of WindowEnd: an early end is forgotten.
WindowEndByDate == trip.end + 1

\* The end day counts in full, unless the owner has ended the trip: then the window
\* ends at that instant.
WindowEnd == IF trip.ended # None THEN trip.ended ELSE trip.end + 1

Feed == IF ~Live THEN {}
        ELSE {m \in memories : /\ m[1] \in Authors
                               /\ trip.start <= m[2] /\ m[2] < WindowEnd}

Post(u) ==
    /\ Cardinality(memories) < MaxPosts
    /\ memories' = memories \cup {<<u, now>>}
    /\ UNCHANGED <<trip, members, now, tx>>

Tick ==
    /\ now < MaxTime
    /\ now' = now + 1
    /\ UNCHANGED <<trip, members, memories, tx>>

-----------------------------------------------------------------------------

Init ==
    /\ trip = None
    /\ members = [u \in Users |-> None]
    /\ memories = {}
    /\ now = 0
    /\ tx = [s \in Sessions |-> Idle]

TripRequest(s, u) ==
    \/ \E start, end \in Days : UpdateLoad(s, u, start, end)
    \/ EndLoad(s, u)
    \/ DeleteLoad(s, u)

MemberRequest(s, u) ==
    \/ \E who \in SUBSET Users : InviteLoad(s, u, who)
    \/ \E accept \in BOOLEAN : RespondLoad(s, u, accept)
    \/ LeaveLoad(s, u)
    \/ \E v \in Users : RemoveMemberLoad(s, u, v) \/ TransferLoad(s, u, v)

Save(s) ==
    \/ UpdateSave(s) \/ EndSave(s) \/ DeleteSave(s)
    \/ InviteSave(s) \/ RespondSave(s) \/ LeaveSave(s) \/ RemoveMemberSave(s)
    \/ TransferSave(s)

Next ==
    \/ \E u \in Users, start, end \in Days : Create(u, start, end)
    \/ \E s \in Sessions, u \in Users : TripRequest(s, u) \/ MemberRequest(s, u)
    \/ \E s \in Sessions : Save(s) \/ Abort(s)
    \/ \E u \in Users : Post(u)
    \/ Tick

Spec == Init /\ [][Next]_vars

-----------------------------------------------------------------------------
(* Properties                                                              *)

TypeOK ==
    /\ trip \in TripRow \cup {None}
    /\ members \in [Users -> MemberRow \cup {None}]
    /\ memories \in SUBSET (Users \X Days)
    /\ now \in Days
    /\ tx \in [Sessions -> TxState]

\* However ownership changes hands while others are invited, join, leave and are
\* removed, the owner of a trip is its one member with the role, and has joined.
OneOwner ==
    Live => \A u \in Users :
        /\ u = trip.owner <=> members[u] # None /\ members[u].role = "owner"
        /\ u = trip.owner => members[u].status = "joined"

\* Nobody becomes a member but from a pending invite, and only who is new or has
\* declined is invited: not whoever is a member already, or has left.
Membership ==
    [][\A u \in Users :
         trip # None /\ members'[u] # None /\ members'[u] # members[u] =>
           LET status == IF members[u] = None THEN None ELSE members[u].status IN
           /\ members'[u].status = "joined"  => status \in {"invited", "joined"}
           /\ members'[u].status = "invited" => status \in {None, "declined"}]_vars

\* An ended or a deleted trip is not opened again by a later request.
ClosedForGood ==
    [][trip # None => /\ trip.ended # None => trip'.ended = trip.ended
                      /\ trip.deleted => trip'.deleted]_vars

\* Once a trip has ended its feed takes no memory that is posted afterwards, even
\* if an update moves the end date on.
AlbumFrozen ==
    [][Live /\ trip.ended # None => Feed' \cap (memories' \ memories) = {}]_vars

\* "left -> was a joined member but left" (trip-member.entity.ts:18).
LeftWereJoined ==
    \A u \in Users : members[u] # None /\ members[u].status = "left" => members[u].joinedAt

\* "The owner can't leave - they must transfer ownership or delete the trip"
\* (trips.service.ts:309).
OwnerCannotLeave ==
    [][\A s \in Sessions : Live /\ LeaveSave(s) => tx[s].rows[trip.owner] = None]_vars
=============================================================================
