------------------------------ MODULE TripsProofs ------------------------------
(***************************************************************************)
(* Proofs about Trips, for any users, requests in flight, days and         *)
(* memories: what holds when requests that write a common row follow one   *)
(* another.                                                                *)
(***************************************************************************)
EXTENDS Trips, FiniteSetTheorems, TLAPS

\* Requests in flight write different rows.
Disjoint == \A r, s \in Sessions : r # s => Writes(tx[r]) \cap Writes(tx[s]) = {}

\* What the row of u may become by the save of m.
Legal(u, m) ==
    /\ m.status = "joined" => members[u] # None /\ members[u].status \in {"invited", "joined"}
    /\ m.status = "invited" => members[u] = None \/ members[u].status = "declined"

\* The trip a request has loaded is still the row but for what it changes.
TripKept(t) ==
    /\ t.trip # None <=> t.kind \in {"update", "end", "transfer"}
    /\ t.kind = "delete" => Live
    /\ t.trip # None =>
         /\ Live /\ ~t.trip.deleted
         /\ IF t.kind = "end" THEN trip.ended = None ELSE t.trip.ended = trip.ended
         /\ t.kind # "transfer" => t.trip.owner = trip.owner
         /\ t.trip.ended # None => t.trip.ended <= now

\* Only a transfer saves a row of the owner, or an owner's row.
RowsKept(t) ==
    /\ \A u \in Users : t.rows[u] # None => Legal(u, t.rows[u])
    /\ Live /\ t.kind # "transfer" => \A u \in Users :
         /\ t.rows[u] # None \/ u \in t.gone => u # trip.owner
         /\ t.rows[u] # None => t.rows[u].role # "owner"
    /\ t.kind = "transfer" =>
         /\ t.gone = {}
         /\ t.trip.owner # trip.owner
         /\ t.rows[t.trip.owner] # None /\ t.rows[t.trip.owner].role = "owner"
         /\ t.rows[t.trip.owner].status = "joined"
         /\ t.rows[trip.owner] # None /\ t.rows[trip.owner].role = "member"
         /\ \A u \in Users : t.rows[u] # None => u \in {trip.owner, t.trip.owner}

EndsInPast == trip # None /\ trip.ended # None => trip.ended <= now

IInv ==
    /\ TypeOK /\ Disjoint /\ OneOwner /\ EndsInPast
    /\ \A s \in Sessions : TripKept(tx[s]) /\ RowsKept(tx[s])
-----------------------------------------------------------------------------
(* The types.                                                              *)

LEMMA IdleTyped == Idle \in TxState /\ Writes(Idle) = {}
BY TripsAssumption DEF Idle, NoRows, TxState, Writes

\* What an idle request says holds.
LEMMA IdleKept == TripKept(Idle) /\ RowsKept(Idle)
BY DEF Idle, NoRows, TripKept, RowsKept

LEMMA RowNumbers == 1 \in 1..(Cardinality(Sessions) + 1)
<1>1. Cardinality(Sessions) \in Nat
  BY TripsAssumption, FS_CardinalityType
<1>. QED
  BY <1>1

\* The rows of a user that no request in flight writes can be numbered afresh.
LEMMA FreshTyped ==
    ASSUME TypeOK, NEW u \in Users, members[u] = None, \A r \in Sessions : tx[r].rows[u] = None
    PROVE  FreshRow(u) \in 1..(Cardinality(Sessions) + 1)
<1> DEFINE P(n) == /\ members[u] = None \/ members[u].row # n
                   /\ \A r \in Sessions : tx[r].rows[u] = None \/ tx[r].rows[u].row # n
<1>1. P(1)
  OBVIOUS
<1>2. \E n \in 1..(Cardinality(Sessions) + 1) : P(n)
  BY <1>1, RowNumbers
<1> HIDE DEF P
<1>3. (CHOOSE n \in 1..(Cardinality(Sessions) + 1) : P(n)) \in 1..(Cardinality(Sessions) + 1)
  BY <1>2
<1>. QED
  BY <1>3 DEF P, FreshRow

LEMMA LoadDisjoint ==
    ASSUME Races = {}, NEW s \in Sessions, NEW t, Load(s, t)
    PROVE  \A r \in Sessions : Writes(tx[r]) \cap Writes(t) = {}
BY DEF Load

\* A load that is typed, keeps what it says of the rows and writes none that
\* another writes.
LEMMA LoadStep ==
    ASSUME Races = {}, IInv, NEW s \in Sessions, NEW t \in TxState, Load(s, t),
           TripKept(t), RowsKept(t)
    PROVE  IInv'
<1>1. /\ UNCHANGED <<trip, members, memories, now>>
      /\ tx' = [tx EXCEPT ![s] = t]
      /\ tx \in [Sessions -> TxState]
  BY DEF Load, IInv, TypeOK
<1>2. /\ tx' \in [Sessions -> TxState] /\ tx'[s] = t
      /\ \A r \in Sessions : r # s => tx'[r] = tx[r]
  BY <1>1
<1>3. \A r \in Sessions : Writes(tx[r]) \cap Writes(t) = {}
  BY DEF Load
<1>4. TypeOK'
  BY <1>1, <1>2 DEF IInv, TypeOK
<1>5. Disjoint'
  <2> SUFFICES ASSUME NEW q \in Sessions, NEW r \in Sessions, q # r
               PROVE  Writes(tx'[q]) \cap Writes(tx'[r]) = {}
    BY DEF Disjoint, Writes
  <2> HIDE DEF Writes
  <2>. QED
    BY <1>2, <1>3 DEF IInv, Disjoint
<1>6. \A r \in Sessions : TripKept(tx'[r]) /\ RowsKept(tx'[r])
  <2> HIDE DEF TripKept, RowsKept
  <2>. QED
    BY <1>2 DEF IInv
<1>7. \A r \in Sessions : (TripKept(tx[r]) /\ RowsKept(tx[r]))'
  BY <1>1, <1>6 DEF TripKept, RowsKept, Legal, Live
<1>8. OneOwner' /\ EndsInPast'
  BY <1>1 DEF IInv, OneOwner, Live, EndsInPast
<1>. QED
  BY <1>4, <1>5, <1>7, <1>8 DEF IInv

-----------------------------------------------------------------------------
(* The loads, one by one.                                                  *)

\* A trip as an entity, with a column changed.
LEMMA TripEntity ==
    ASSUME IInv, Live
    PROVE  /\ trip \in TripRow
           /\ \A t \in TripRow : t # None
BY RowAssumption DEF IInv, TypeOK, Live

LEMMA UpdateLoadStep ==
    ASSUME Races = {}, IInv, NEW s \in Sessions, NEW u \in Users,
           NEW start \in Days, NEW end \in Days, UpdateLoad(s, u, start, end)
    PROVE  IInv'
<1> DEFINE changed == [trip EXCEPT !.start = start, !.end = end]
           t == [Idle EXCEPT !.kind = "update", !.trip = changed]
<1>1. Live /\ Load(s, t)
  BY DEF UpdateLoad, IsOwner
<1>2. /\ changed \in TripRow /\ changed # None
      /\ changed.owner = trip.owner /\ changed.ended = trip.ended
      /\ changed.deleted = trip.deleted
  BY <1>1, TripEntity DEF TripRow
<1>3. trip # None /\ ~trip.deleted /\ (trip.ended # None => trip.ended <= now)
  BY <1>1 DEF IInv, EndsInPast, Live
<1> HIDE DEF changed
<1>4. /\ t \in TxState /\ t.kind = "update" /\ t.trip = changed
      /\ t.gone = {} /\ \A v \in Users : t.rows[v] = None
  BY <1>2, IdleTyped DEF Idle, NoRows, TxState, Kinds
<1> HIDE DEF t
<1>5. TripKept(t) /\ RowsKept(t)
  BY <1>1, <1>2, <1>3, <1>4 DEF TripKept, RowsKept
<1>. QED
  BY <1>1, <1>4, <1>5, LoadStep

LEMMA EndLoadStep ==
    ASSUME Races = {}, IInv, NEW s \in Sessions, NEW u \in Users, EndLoad(s, u)
    PROVE  IInv'
<1> DEFINE changed == [trip EXCEPT !.ended = now]
           t == [Idle EXCEPT !.kind = "end", !.trip = changed]
<1>1. Live /\ Load(s, t) /\ trip.ended = None /\ now \in Days /\ now <= now
  BY TripsAssumption DEF EndLoad, IsOwner, IInv, TypeOK, Days
<1>2. /\ changed \in TripRow /\ changed # None
      /\ changed.owner = trip.owner /\ changed.ended = now
      /\ changed.deleted = trip.deleted
  BY <1>1, TripEntity DEF TripRow
<1>3. ~trip.deleted
  BY <1>1 DEF Live
<1> HIDE DEF changed
<1>4. /\ t \in TxState /\ t.kind = "end" /\ t.trip = changed
      /\ t.gone = {} /\ \A v \in Users : t.rows[v] = None
  BY <1>2, IdleTyped DEF Idle, NoRows, TxState, Kinds
<1> HIDE DEF t
<1>5. TripKept(t) /\ RowsKept(t)
  BY <1>1, <1>2, <1>3, <1>4 DEF TripKept, RowsKept
<1>. QED
  BY <1>1, <1>4, <1>5, LoadStep

LEMMA DeleteLoadStep ==
    ASSUME Races = {}, IInv, NEW s \in Sessions, NEW u \in Users, DeleteLoad(s, u)
    PROVE  IInv'
<1> DEFINE t == [Idle EXCEPT !.kind = "delete"]
<1>1. Live /\ Load(s, t)
  BY DEF DeleteLoad, IsOwner
<1>2. /\ t \in TxState /\ t.kind = "delete" /\ t.trip = None
      /\ t.gone = {} /\ \A v \in Users : t.rows[v] = None
  BY IdleTyped DEF Idle, NoRows, TxState, Kinds
<1> HIDE DEF t
<1>3. TripKept(t) /\ RowsKept(t)
  BY <1>1, <1>2 DEF TripKept, RowsKept
<1>. QED
  BY <1>1, <1>2, <1>3, LoadStep

\* Requests that save rows of members and not the trip.
LEMMA MemberLoadStep ==
    ASSUME Races = {}, IInv, NEW s \in Sessions, NEW t \in TxState, Load(s, t),
           t.kind \in {"invite", "respond", "leave", "removeMember"}, t.trip = None,
           \A u \in Users : t.rows[u] # None => Legal(u, t.rows[u]),
           Live => \A u \in Users :
             /\ t.rows[u] # None \/ u \in t.gone => u # trip.owner
             /\ t.rows[u] # None => t.rows[u].role # "owner"
    PROVE  IInv'
<1>1. TripKept(t) /\ RowsKept(t)
  BY DEF TripKept, RowsKept
<1>. QED
  BY <1>1, LoadStep

\* A member's row that is not the owner's is not an owner's row.
LEMMA NotOwners ==
    ASSUME IInv, Live, NEW u \in Users, members[u] # None, u # trip.owner
    PROVE  members[u].role # "owner"
BY DEF IInv, OneOwner

LEMMA InviteLoadStep ==
    ASSUME Races = {}, IInv, NEW s \in Sessions, NEW u \in Users, NEW who \in SUBSET Users,
           InviteLoad(s, u, who)
    PROVE  IInv'
<1> DEFINE rows == [v \in Users |-> IF v \in who \ {u} THEN Invited(v) ELSE None]
           t == [Idle EXCEPT !.kind = "invite", !.rows = rows]
<1>1. Live /\ Load(s, t) /\ trip.owner = u
  BY DEF InviteLoad, IsOwner
<1>2. t.kind = "invite" /\ t.trip = None /\ t.gone = {} /\ t.rows = rows
  BY DEF Idle
<1>3. ASSUME NEW v \in Users, rows[v] # None
      PROVE  /\ rows[v] \in MemberRow /\ rows[v].role # "owner"
             /\ rows[v].status = "invited" /\ v # u
             /\ members[v] = None \/ members[v].status = "declined"
  <2>1. v # u /\ rows[v] = Invited(v) /\ Invited(v) # None
    BY <1>3
  <2>2. CASE members[v] = None
    <3>1. \A r \in Sessions : tx[r].rows[v] = None
      <4>1. v \in Writes(t)
        BY <1>2, <1>3 DEF Writes
      <4>2. \A r \in Sessions : v \notin Writes(tx[r])
        BY <1>1, <4>1, LoadDisjoint
      <4>. QED
        BY <4>2 DEF Writes
    <3>2. FreshRow(v) \in 1..(Cardinality(Sessions) + 1)
      BY <2>2, <3>1, FreshTyped DEF IInv
    <3> DEFINE m == [row |-> FreshRow(v), role |-> "member", status |-> "invited",
                     joinedAt |-> FALSE]
    <3>3. rows[v] = m
      BY <2>1, <2>2 DEF Invited
    <3>4. m \in MemberRow /\ m.role # "owner" /\ m.status = "invited"
      BY <3>2 DEF MemberRow, Statuses
    <3> HIDE DEF m, rows
    <3>. QED
      BY <2>1, <2>2, <3>3, <3>4
  <2>3. CASE members[v] # None
    <3> DEFINE m == [members[v] EXCEPT !.status = "invited"]
    <3>1. members[v].status = "declined" /\ rows[v] = m
      BY <2>1, <2>3 DEF Invited
    <3>2. members[v] \in MemberRow /\ members[v].role # "owner"
      BY <1>1, <2>1, <2>3, NotOwners DEF IInv, TypeOK
    <3>3. m \in MemberRow /\ m.role = members[v].role /\ m.status = "invited"
      BY <3>2 DEF MemberRow, Statuses
    <3> HIDE DEF m, rows
    <3>. QED
      BY <2>1, <3>1, <3>2, <3>3
  <2>. QED
    BY <2>2, <2>3
<1>4. rows \in [Users -> MemberRow \cup {None}]
  <2>1. \A v \in Users : rows[v] \in MemberRow \cup {None}
    BY <1>3
  <2>2. rows = [v \in Users |-> rows[v]]
    OBVIOUS
  <2> HIDE DEF rows
  <2>. QED
    BY <2>1, <2>2
<1> HIDE DEF rows
<1>5. t \in TxState
  BY <1>4, IdleTyped DEF Idle, TxState, Kinds
<1> HIDE DEF t
<1>6. \A v \in Users : t.rows[v] # None => Legal(v, t.rows[v])
  BY <1>2, <1>3 DEF Legal
<1>. QED
  BY <1>1, <1>2, <1>3, <1>5, <1>6, MemberLoadStep

\* One row is saved: that of u, as m.
LEMMA OneRowStep ==
    ASSUME Races = {}, IInv, NEW s \in Sessions, NEW kind \in {"respond", "leave"},
           NEW u \in Users, NEW m \in MemberRow,
           Load(s, [Idle EXCEPT !.kind = kind, !.rows[u] = m]),
           Legal(u, m), members[u] # None, m.role = members[u].role,
           Live => u # trip.owner
    PROVE  IInv'
<1> DEFINE rows == [NoRows EXCEPT ![u] = m]
           t == [Idle EXCEPT !.kind = kind, !.rows = rows]
<1>1. t = [Idle EXCEPT !.kind = kind, !.rows[u] = m]
  BY DEF Idle
<1>2. rows \in [Users -> MemberRow \cup {None}] /\ rows[u] = m /\ m # None
  BY RowAssumption DEF NoRows
<1>3. \A v \in Users : v # u => rows[v] = None
  BY DEF NoRows
<1> HIDE DEF rows
<1>4. /\ t \in TxState /\ t.kind = kind /\ t.trip = None /\ t.gone = {} /\ t.rows = rows
  BY <1>2, IdleTyped DEF Idle, TxState, Kinds
<1>5. Load(s, t)
  BY <1>1
<1> HIDE DEF t
<1>6. Live => m.role # "owner"
  BY NotOwners
<1>. QED
  BY <1>2, <1>3, <1>4, <1>5, <1>6, MemberLoadStep

LEMMA RespondLoadStep ==
    ASSUME Races = {}, IInv, NEW s \in Sessions, NEW u \in Users, NEW accept \in BOOLEAN,
           RespondLoad(s, u, accept)
    PROVE  IInv'
<1> DEFINE m == Answered(members[u], accept)
<1>1. /\ members[u] # None /\ members[u] \in MemberRow /\ members[u].status = "invited"
      /\ Load(s, [Idle EXCEPT !.kind = "respond", !.rows[u] = m])
  BY DEF RespondLoad, IInv, TypeOK
<1>2. /\ m \in MemberRow /\ m.role = members[u].role
      /\ m.status = IF accept THEN "joined" ELSE "declined"
  BY <1>1 DEF Answered, MemberRow, Statuses
<1> HIDE DEF m
<1>3. Live => u # trip.owner
  BY <1>1 DEF IInv, OneOwner
<1>4. Legal(u, m)
  BY <1>1, <1>2 DEF Legal
<1>. QED
  BY <1>1, <1>2, <1>3, <1>4, OneRowStep

LEMMA LeaveLoadStep ==
    ASSUME Races = {}, IInv, NEW s \in Sessions, NEW u \in Users, LeaveLoad(s, u)
    PROVE  IInv'
<1> DEFINE m == [members[u] EXCEPT !.status = "left"]
<1>1. /\ members[u] # None /\ members[u] \in MemberRow /\ ~IsOwner(u)
      /\ Load(s, [Idle EXCEPT !.kind = "leave", !.rows[u] = m])
  BY DEF LeaveLoad, IInv, TypeOK
<1>2. m \in MemberRow /\ m.role = members[u].role /\ m.status = "left"
  BY <1>1 DEF MemberRow, Statuses
<1> HIDE DEF m
<1>3. Legal(u, m) /\ (Live => u # trip.owner)
  BY <1>1, <1>2 DEF Legal, IsOwner
<1>. QED
  BY <1>1, <1>2, <1>3, OneRowStep

LEMMA RemoveMemberLoadStep ==
    ASSUME Races = {}, IInv, NEW s \in Sessions, NEW u \in Users, NEW v \in Users,
           RemoveMemberLoad(s, u, v)
    PROVE  IInv'
<1> DEFINE t == [Idle EXCEPT !.kind = "removeMember", !.gone = {v}]
<1>1. Load(s, t) /\ v # trip.owner
  BY DEF RemoveMemberLoad
<1>2. /\ t \in TxState /\ t.kind = "removeMember" /\ t.trip = None
      /\ t.gone = {v} /\ \A w \in Users : t.rows[w] = None
  BY IdleTyped DEF Idle, NoRows, TxState, Kinds
<1> HIDE DEF t
<1>. QED
  BY <1>1, <1>2, MemberLoadStep

LEMMA TransferLoadStep ==
    ASSUME Races = {}, IInv, NEW s \in Sessions, NEW u \in Users, NEW v \in Users,
           TransferLoad(s, u, v)
    PROVE  IInv'
<1> DEFINE changed == [trip EXCEPT !.owner = v]
           new == [members[v] EXCEPT !.role = "owner"]
           old == [members[u] EXCEPT !.role = "member"]
           rows == [w \in Users |->
                      CASE w = v                       -> new
                        [] w = u /\ members[u] # None  -> old
                        [] OTHER                       -> None]
           t == [Idle EXCEPT !.kind = "transfer", !.trip = changed, !.rows = rows]
<1>1. /\ Live /\ trip.owner = u /\ v # u /\ Load(s, t)
      /\ members[v] # None /\ members[v].status = "joined"
  BY DEF TransferLoad, IsOwner
<1>2. /\ members[u] # None /\ members[u].status = "joined"
      /\ members[u] \in MemberRow /\ members[v] \in MemberRow
  BY <1>1 DEF IInv, OneOwner, TypeOK
<1>3. /\ new \in MemberRow /\ new.role = "owner" /\ new.status = "joined" /\ new # None
      /\ old \in MemberRow /\ old.role = "member" /\ old.status = "joined" /\ old # None
  BY <1>1, <1>2, RowAssumption DEF MemberRow
<1>4. /\ changed \in TripRow /\ changed # None
      /\ changed.owner = v /\ changed.ended = trip.ended
      /\ changed.deleted = trip.deleted
  BY <1>1, TripEntity DEF TripRow
<1>5. trip # None /\ ~trip.deleted /\ (trip.ended # None => trip.ended <= now)
  BY <1>1 DEF IInv, EndsInPast, Live
<1> HIDE DEF changed, new, old
<1>6. /\ rows \in [Users -> MemberRow \cup {None}] /\ rows[v] = new /\ rows[u] = old
      /\ \A w \in Users : w \notin {u, v} => rows[w] = None
  BY <1>1, <1>2, <1>3
<1> HIDE DEF rows
<1>7. /\ t \in TxState /\ t.kind = "transfer" /\ t.trip = changed /\ t.gone = {} /\ t.rows = rows
  BY <1>4, <1>6, IdleTyped DEF Idle, TxState, Kinds
<1> HIDE DEF t
<1>8. TripKept(t)
  BY <1>1, <1>4, <1>5, <1>7 DEF TripKept
<1>9. \A w \in Users : rows[w] # None => Legal(w, rows[w])
  BY <1>1, <1>2, <1>3, <1>6 DEF Legal
<1>10. RowsKept(t)
  BY <1>1, <1>3, <1>4, <1>6, <1>7, <1>9 DEF RowsKept
<1>. QED
  BY <1>1, <1>7, <1>8, <1>10, LoadStep

-----------------------------------------------------------------------------
(* The saves.                                                              *)

\* Whoever finishes is idle.
LEMMA FinishMoves ==
    ASSUME IInv, NEW s \in Sessions, NEW kind, Finish(s, kind)
    PROVE  /\ tx' \in [Sessions -> TxState] /\ tx'[s] = Idle
           /\ \A r \in Sessions : r # s => tx'[r] = tx[r]
BY IdleTyped DEF Finish, IInv, TypeOK

\* The others, when s has saved what it writes.
LEMMA OthersKept ==
    ASSUME IInv, NEW s \in Sessions,
           tx' \in [Sessions -> TxState], tx'[s] = Idle,
           \A r \in Sessions : r # s => tx'[r] = tx[r],
           now' = now,
           \A u \in Users : u \notin Writes(tx[s]) => members'[u] = members[u],
           trip' = trip \/ None \in Writes(tx[s]),
           Live' => Live /\ (trip'.owner = trip.owner \/ trip'.owner \in Writes(tx[s]) \cap Users)
    PROVE  Disjoint' /\ \A r \in Sessions : (TripKept(tx[r]) /\ RowsKept(tx[r]))'
<1>1. Disjoint'
  <2> SUFFICES ASSUME NEW q \in Sessions, NEW r \in Sessions, q # r
               PROVE  Writes(tx'[q]) \cap Writes(tx'[r]) = {}
    BY DEF Disjoint, Writes
  <2> HIDE DEF Writes
  <2>. QED
    BY IdleTyped DEF IInv, Disjoint
<1>2. (TripKept(tx[s]) /\ RowsKept(tx[s]))'
  BY DEF Idle, NoRows, TripKept, RowsKept
<1>3. ASSUME NEW r \in Sessions, r # s PROVE (TripKept(tx[r]) /\ RowsKept(tx[r]))'
  <2>0. PICK t : t = tx[r]
    OBVIOUS
  <2>1. tx[r] = t /\ tx'[r] = t /\ TripKept(t) /\ RowsKept(t) /\ Writes(t) \cap Writes(tx[s]) = {}
    BY <1>3, <2>0 DEF IInv, Disjoint
  <2>2. t.trip # None \/ t.kind = "delete" => trip' = trip /\ Live = Live'
    <3>1. t.trip # None \/ t.kind = "delete" => None \in Writes(t)
      BY DEF Writes
    <3>. QED
      BY <2>1, <3>1 DEF Live
  <2>3. \A u \in Users : t.rows[u] # None \/ u \in t.gone => u \in Writes(t)
    BY DEF Writes
  <2>4. \A u \in Users : t.rows[u] # None \/ u \in t.gone =>
          members'[u] = members[u] /\ (Live' => Live /\ (trip'.owner = trip.owner \/ u # trip'.owner))
    BY <2>1, <2>3
  <2>5. TripKept(t)'
    BY <2>1, <2>2 DEF TripKept
  <2>6. \A u \in Users : t.rows[u] # None => Legal(u, t.rows[u])'
    BY <2>1, <2>4 DEF RowsKept, Legal
  <2>7. RowsKept(t)'
    BY <2>1, <2>2, <2>4, <2>6 DEF RowsKept, TripKept
  <2>. QED
    BY <2>1, <2>5, <2>7 DEF TripKept, RowsKept, Legal
<1>. QED
  BY <1>1, <1>2, <1>3

LEMMA RequestKept ==
    ASSUME IInv, NEW s \in Sessions
    PROVE  tx[s] \in TxState /\ TripKept(tx[s]) /\ RowsKept(tx[s])
BY DEF IInv, TypeOK

\* update and endTrip.
LEMMA TripSaveStep ==
    ASSUME IInv, NEW s \in Sessions, UpdateSave(s) \/ EndSave(s)
    PROVE  IInv'
<1>0. PICK t : t = tx[s]
  OBVIOUS
<1>1. /\ t \in TxState /\ t.kind \in {"update", "end"} /\ TripKept(t) /\ trip' = t.trip
      /\ UNCHANGED <<members, memories, now>>
  BY <1>0, RequestKept DEF UpdateSave, EndSave, SaveTrip, Finish
<1>2. /\ tx' \in [Sessions -> TxState] /\ tx'[s] = Idle
      /\ \A r \in Sessions : r # s => tx'[r] = tx[r]
  BY FinishMoves DEF UpdateSave, EndSave
<1>3. /\ Live /\ t.trip # None /\ ~t.trip.deleted /\ t.trip.owner = trip.owner
      /\ t.trip.ended # None => t.trip.ended <= now
  BY <1>1 DEF TripKept
<1>4. t.trip \in TripRow \cup {None}
  BY <1>1 DEF TxState
<1>5. None \in Writes(tx[s])
  BY <1>0, <1>3 DEF Writes
<1>6. Disjoint' /\ \A r \in Sessions : (TripKept(tx[r]) /\ RowsKept(tx[r]))'
  BY <1>1, <1>2, <1>3, <1>5, OthersKept
<1>7. TypeOK'
  BY <1>1, <1>2, <1>4 DEF IInv, TypeOK
<1>8. OneOwner' /\ EndsInPast'
  BY <1>1, <1>3 DEF IInv, OneOwner, EndsInPast, Live
<1>. QED
  BY <1>6, <1>7, <1>8 DEF IInv

LEMMA DeleteSaveStep ==
    ASSUME IInv, NEW s \in Sessions, DeleteSave(s)
    PROVE  IInv'
<1>1. /\ Live /\ tx[s].kind = "delete" /\ trip' = [trip EXCEPT !.deleted = TRUE]
      /\ UNCHANGED <<members, memories, now>>
  BY RequestKept DEF DeleteSave, Finish, TripKept
<1>2. /\ tx' \in [Sessions -> TxState] /\ tx'[s] = Idle
      /\ \A r \in Sessions : r # s => tx'[r] = tx[r]
  BY FinishMoves DEF DeleteSave
<1>3. trip' \in TripRow /\ trip'.deleted /\ trip'.ended = trip.ended
  BY <1>1, TripEntity DEF TripRow
<1>4. None \in Writes(tx[s]) /\ ~Live'
  BY <1>1, <1>3 DEF Writes, Live
<1>5. Disjoint' /\ \A r \in Sessions : (TripKept(tx[r]) /\ RowsKept(tx[r]))'
  BY <1>1, <1>2, <1>4, OthersKept
<1>6. TypeOK'
  BY <1>1, <1>2, <1>3 DEF IInv, TypeOK
<1>7. OneOwner' /\ EndsInPast'
  BY <1>1, <1>3, <1>4 DEF IInv, OneOwner, EndsInPast, Live
<1>. QED
  BY <1>5, <1>6, <1>7 DEF IInv

\* What SaveMembers does to the rows.
LEMMA MembersSaved ==
    ASSUME IInv, NEW s \in Sessions, SaveMembers(tx[s])
    PROVE  /\ members' \in [Users -> MemberRow \cup {None}]
           /\ \A u \in Users : members'[u] = IF u \in tx[s].gone THEN None
                                 ELSE IF tx[s].rows[u] # None THEN tx[s].rows[u] ELSE members[u]
           /\ \A u \in Users : u \notin Writes(tx[s]) => members'[u] = members[u]
<1>1. tx[s].rows \in [Users -> MemberRow \cup {None}] /\ members \in [Users -> MemberRow \cup {None}]
  BY RequestKept DEF TxState, IInv, TypeOK
<1>2. members' \in [Users -> MemberRow \cup {None}]
  BY <1>1 DEF SaveMembers
<1>3. \A u \in Users : members'[u] = IF u \in tx[s].gone THEN None
                         ELSE IF tx[s].rows[u] # None THEN tx[s].rows[u] ELSE members[u]
  BY DEF SaveMembers
<1>. QED
  BY <1>2, <1>3 DEF Writes

\* invite, respondInvite, leave and removeMember.
MemberSave(s) == InviteSave(s) \/ RespondSave(s) \/ LeaveSave(s) \/ RemoveMemberSave(s)

LEMMA MemberSaveStep ==
    ASSUME IInv, NEW s \in Sessions, MemberSave(s)
    PROVE  IInv'
<1>0. PICK t : t = tx[s]
  OBVIOUS
<1>1. /\ t.kind # "transfer" /\ RowsKept(t) /\ SaveMembers(tx[s])
      /\ UNCHANGED <<trip, memories, now>>
  BY <1>0, RequestKept DEF MemberSave, InviteSave, RespondSave, LeaveSave, RemoveMemberSave, Finish
<1>2. /\ tx' \in [Sessions -> TxState] /\ tx'[s] = Idle
      /\ \A r \in Sessions : r # s => tx'[r] = tx[r]
  BY FinishMoves DEF MemberSave, InviteSave, RespondSave, LeaveSave, RemoveMemberSave
<1>3. /\ members' \in [Users -> MemberRow \cup {None}]
      /\ \A u \in Users : members'[u] = IF u \in t.gone THEN None
                            ELSE IF t.rows[u] # None THEN t.rows[u] ELSE members[u]
      /\ \A u \in Users : u \notin Writes(tx[s]) => members'[u] = members[u]
  BY <1>0, <1>1, MembersSaved
<1>4. Disjoint' /\ \A r \in Sessions : (TripKept(tx[r]) /\ RowsKept(tx[r]))'
  BY <1>1, <1>2, <1>3, OthersKept DEF Live
<1>5. TypeOK'
  BY <1>1, <1>2, <1>3 DEF IInv, TypeOK
<1>6. OneOwner'
  <2>1. Live /\ OneOwner => \A u \in Users :
          /\ t.rows[u] # None \/ u \in t.gone => u # trip.owner
          /\ t.rows[u] # None => t.rows[u].role # "owner"
    BY <1>1 DEF RowsKept
  <2>. QED
    BY <1>1, <1>3, <2>1 DEF IInv, OneOwner, Live
<1>7. EndsInPast'
  BY <1>1 DEF IInv, EndsInPast
<1>. QED
  BY <1>4, <1>5, <1>6, <1>7 DEF IInv

LEMMA TransferSaveStep ==
    ASSUME IInv, NEW s \in Sessions, TransferSave(s)
    PROVE  IInv'
<1>0. PICK t : t = tx[s]
  OBVIOUS
<1>1. /\ t \in TxState /\ t.kind = "transfer" /\ RowsKept(t) /\ TripKept(t)
      /\ SaveMembers(tx[s]) /\ trip' = t.trip /\ UNCHANGED <<memories, now>>
  BY <1>0, RequestKept DEF TransferSave, SaveTrip, Finish
<1>2. /\ tx' \in [Sessions -> TxState] /\ tx'[s] = Idle
      /\ \A r \in Sessions : r # s => tx'[r] = tx[r]
  BY FinishMoves DEF TransferSave
<1>3. /\ members' \in [Users -> MemberRow \cup {None}]
      /\ \A u \in Users : members'[u] = IF u \in t.gone THEN None
                            ELSE IF t.rows[u] # None THEN t.rows[u] ELSE members[u]
      /\ \A u \in Users : u \notin Writes(tx[s]) => members'[u] = members[u]
  BY <1>0, <1>1, MembersSaved
<1>4. /\ t.trip # None /\ t.trip \in TripRow /\ Live /\ ~t.trip.deleted
      /\ t.trip.ended # None => t.trip.ended <= now
  BY <1>1 DEF TripKept, TxState
<1>5. t.trip.owner \in Users /\ trip.owner \in Users
  BY <1>4, TripEntity DEF TripRow
<1>6. /\ t.gone = {} /\ t.trip.owner # trip.owner
      /\ t.rows[t.trip.owner] # None /\ t.rows[t.trip.owner].role = "owner"
      /\ t.rows[t.trip.owner].status = "joined"
      /\ t.rows[trip.owner] # None /\ t.rows[trip.owner].role = "member"
      /\ \A u \in Users : t.rows[u] # None => u \in {trip.owner, t.trip.owner}
  BY <1>1 DEF RowsKept
<1>7. None \in Writes(tx[s]) /\ t.trip.owner \in Writes(tx[s]) \cap Users
  BY <1>0, <1>4, <1>5, <1>6 DEF Writes
<1>8. Disjoint' /\ \A r \in Sessions : (TripKept(tx[r]) /\ RowsKept(tx[r]))'
  BY <1>1, <1>2, <1>3, <1>4, <1>7, OthersKept
<1>9. TypeOK'
  BY <1>1, <1>2, <1>3, <1>4 DEF IInv, TypeOK
<1>10. OneOwner'
  <2>1. \A u \in Users : u = trip.owner <=> members[u] # None /\ members[u].role = "owner"
    BY <1>4 DEF IInv, OneOwner
  <2>2. /\ members'[t.trip.owner] # None /\ members'[t.trip.owner].role = "owner"
        /\ members'[t.trip.owner].status = "joined"
        /\ members'[trip.owner].role = "member"
        /\ \A u \in Users : u \notin {trip.owner, t.trip.owner} => members'[u] = members[u]
    BY <1>3, <1>5, <1>6
  <2>3. \A u \in Users : u = t.trip.owner <=> members'[u] # None /\ members'[u].role = "owner"
    BY <1>5, <1>6, <2>1, <2>2
  <2>. QED
    BY <1>1, <2>2, <2>3 DEF OneOwner
<1>11. EndsInPast'
  BY <1>1, <1>4 DEF EndsInPast
<1>. QED
  BY <1>8, <1>9, <1>10, <1>11 DEF IInv

LEMMA AbortStep ==
    ASSUME IInv, NEW s \in Sessions, Abort(s)
    PROVE  IInv'
<1>1. /\ tx' \in [Sessions -> TxState] /\ tx'[s] = Idle
      /\ \A r \in Sessions : r # s => tx'[r] = tx[r]
      /\ UNCHANGED <<trip, members, memories, now>>
  BY IdleTyped DEF Abort, IInv, TypeOK
<1>2. Disjoint' /\ \A r \in Sessions : (TripKept(tx[r]) /\ RowsKept(tx[r]))'
  BY <1>1, OthersKept DEF Live
<1>. QED
  BY <1>1, <1>2 DEF IInv, TypeOK, OneOwner, EndsInPast, Live

-----------------------------------------------------------------------------
(* Everything else, and the theorems.                                      *)

LEMMA InvInit == Init => IInv
<1> SUFFICES ASSUME Init PROVE IInv
  OBVIOUS
<1>1. TypeOK
  BY IdleTyped, TripsAssumption DEF Init, TypeOK, Days
<1>2. Disjoint
  BY IdleTyped DEF Init, Disjoint
<1>3. \A s \in Sessions : TripKept(tx[s]) /\ RowsKept(tx[s])
  BY IdleKept DEF Init
<1>. QED
  BY <1>1, <1>2, <1>3 DEF Init, IInv, OneOwner, EndsInPast, Live

\* Before the trip there are neither members nor requests.
NothingBefore ==
    trip = None => (\A u \in Users : members[u] = None) /\ \A s \in Sessions : tx[s] = Idle

LEMMA CreateStep ==
    ASSUME IInv, NothingBefore,
           NEW u \in Users, NEW start \in Days, NEW end \in Days, Create(u, start, end)
    PROVE  IInv'
<1> DEFINE m == [row |-> 1, role |-> "owner", status |-> "joined", joinedAt |-> TRUE]
           t == [owner |-> u, start |-> start, end |-> end, ended |-> None, deleted |-> FALSE]
<1>1. trip = None /\ trip' = t /\ members' = [members EXCEPT ![u] = m] /\ UNCHANGED <<memories, now, tx>>
  BY DEF Create
<1>2. /\ m \in MemberRow /\ m.role = "owner" /\ m.status = "joined" /\ m # None
      /\ t \in TripRow /\ t.owner = u /\ t.ended = None /\ ~t.deleted /\ t # None
  <2>1. m \in MemberRow /\ m.role = "owner" /\ m.status = "joined"
    BY RowNumbers DEF MemberRow, Statuses
  <2>2. t \in TripRow /\ t.owner = u /\ t.ended = None /\ ~t.deleted
    BY DEF TripRow
  <2>. QED
    BY <2>1, <2>2, RowAssumption
<1> HIDE DEF m, t
<1>3. /\ members' \in [Users -> MemberRow \cup {None}] /\ members'[u] = m
      /\ \A v \in Users : v # u => members'[v] = None
  BY <1>1, <1>2 DEF IInv, TypeOK, NothingBefore
<1>4. TypeOK'
  BY <1>1, <1>2, <1>3 DEF IInv, TypeOK
<1>5. OneOwner' /\ EndsInPast'
  BY <1>1, <1>2, <1>3 DEF OneOwner, EndsInPast
<1>6. \A s \in Sessions : tx'[s] = Idle
  BY <1>1 DEF NothingBefore
<1>7. Disjoint'
  BY <1>6, IdleTyped DEF Disjoint, Writes
<1>8. \A s \in Sessions : (TripKept(tx[s]) /\ RowsKept(tx[s]))'
  BY <1>6 DEF Idle, NoRows, TripKept, RowsKept
<1>. QED
  BY <1>4, <1>5, <1>7, <1>8 DEF IInv

LEMMA PostStep ==
    ASSUME IInv, NEW u \in Users, Post(u)
    PROVE  IInv'
<1>1. UNCHANGED <<trip, members, now, tx>> /\ memories' = memories \cup {<<u, now>>}
  BY DEF Post
<1>2. TypeOK'
  BY <1>1 DEF IInv, TypeOK
<1>. QED
  BY <1>1, <1>2 DEF IInv, Disjoint, Writes, OneOwner, EndsInPast, TripKept, RowsKept, Legal, Live

LEMMA TickStep ==
    ASSUME IInv, Tick
    PROVE  IInv'
<1>1. /\ UNCHANGED <<trip, members, memories, tx>> /\ now' = now + 1 /\ now < MaxTime
      /\ now \in Days /\ MaxTime \in Nat
  BY TripsAssumption DEF Tick, IInv, TypeOK
<1>2. TypeOK'
  BY <1>1 DEF IInv, TypeOK, Days
<1>3. \A d \in Days : d <= now => d <= now'
  BY <1>1 DEF Days
<1>4. Disjoint' /\ OneOwner'
  BY <1>1 DEF IInv, Disjoint, Writes, OneOwner, Live
<1>5. EndsInPast'
  <2>1. trip # None /\ trip.ended # None => trip.ended \in Days
    BY DEF IInv, TypeOK, TripRow
  <2>. QED
    BY <1>1, <1>3, <2>1 DEF IInv, EndsInPast
<1>6. ASSUME NEW s \in Sessions PROVE (TripKept(tx[s]) /\ RowsKept(tx[s]))'
  <2>0. PICK t : t = tx[s]
    OBVIOUS
  <2>1. t.trip # None /\ t.trip.ended # None => t.trip.ended \in Days
    BY <2>0, RequestKept DEF TxState, TripRow
  <2>2. TripKept(t) /\ RowsKept(t) /\ tx'[s] = t
    BY <1>1, <2>0, RequestKept
  <2>3. TripKept(t)'
    BY <1>1, <1>3, <2>1, <2>2 DEF TripKept, Live
  <2>4. RowsKept(t)'
    BY <1>1, <2>2 DEF RowsKept, Legal, Live
  <2>. QED
    BY <2>2, <2>3, <2>4 DEF TripKept, RowsKept, Legal
<1>. QED
  BY <1>2, <1>4, <1>5, <1>6 DEF IInv

LEMMA InvStep == Races = {} /\ IInv /\ NothingBefore /\ [Next]_vars => IInv'
<1> SUFFICES ASSUME Races = {}, IInv, NothingBefore, [Next]_vars PROVE IInv'
  OBVIOUS
<1>1. CASE \E u \in Users, start, end \in Days : Create(u, start, end)
  BY <1>1, CreateStep
<1>2. ASSUME NEW s \in Sessions, NEW u \in Users, TripRequest(s, u) PROVE IInv'
  BY <1>2, UpdateLoadStep, EndLoadStep, DeleteLoadStep DEF TripRequest
<1>3. ASSUME NEW s \in Sessions, NEW u \in Users, MemberRequest(s, u) PROVE IInv'
  BY <1>3, InviteLoadStep, RespondLoadStep, LeaveLoadStep, RemoveMemberLoadStep, TransferLoadStep
     DEF MemberRequest
<1>4. ASSUME NEW s \in Sessions, Save(s) \/ Abort(s) PROVE IInv'
  BY <1>4, TripSaveStep, DeleteSaveStep, MemberSaveStep, TransferSaveStep, AbortStep
     DEF Save, MemberSave
<1>5. CASE \E u \in Users : Post(u)
  BY <1>5, PostStep
<1>6. CASE Tick
  BY <1>6, TickStep
<1>7. CASE UNCHANGED vars
  BY <1>7 DEF vars, IInv, TypeOK, Disjoint, Writes, OneOwner, EndsInPast, TripKept, RowsKept, Legal, Live
<1>. QED
  BY <1>1, <1>2, <1>3, <1>4, <1>5, <1>6, <1>7 DEF Next

\* What a step does to the trip.
TripMoves ==
    \/ trip' = trip
    \/ trip = None /\ (\E u \in Users, start, end \in Days : Create(u, start, end))
    \/ \E s \in Sessions : UpdateSave(s) \/ EndSave(s) \/ DeleteSave(s) \/ TransferSave(s)

LEMMA TripSteps == [Next]_vars => TripMoves
<1> SUFFICES ASSUME [Next]_vars PROVE TripMoves
  OBVIOUS
<1>1. CASE \E u \in Users, start, end \in Days : Create(u, start, end)
  BY <1>1 DEF TripMoves, Create
<1>2. ASSUME NEW s \in Sessions, NEW u \in Users, TripRequest(s, u) PROVE trip' = trip
  BY <1>2 DEF TripRequest, UpdateLoad, EndLoad, DeleteLoad, Load
<1>3. ASSUME NEW s \in Sessions, NEW u \in Users, MemberRequest(s, u) PROVE trip' = trip
  BY <1>3 DEF MemberRequest, InviteLoad, RespondLoad, LeaveLoad, RemoveMemberLoad, TransferLoad, Load
<1>4. ASSUME NEW s \in Sessions, Save(s) \/ Abort(s) PROVE TripMoves
  BY <1>4 DEF Save, InviteSave, RespondSave, LeaveSave, RemoveMemberSave, Abort, TripMoves
<1>5. ASSUME NEW u \in Users, Post(u) PROVE trip' = trip
  BY <1>5 DEF Post
<1>6. CASE Tick
  BY <1>6 DEF Tick, TripMoves
<1>7. CASE UNCHANGED vars
  BY <1>7 DEF vars, TripMoves
<1>. QED
  BY <1>1, <1>2, <1>3, <1>4, <1>5, <1>6, <1>7 DEF Next, TripMoves

\* A trip that is there stays there, is not opened again once it has ended, nor
\* restored once it is deleted.
LEMMA TripStays ==
    ASSUME IInv, TripMoves, trip # None
    PROVE  /\ trip' # None
           /\ trip.ended # None => trip'.ended = trip.ended
           /\ trip.deleted => trip'.deleted
<1>1. CASE trip' = trip
  BY <1>1
<1>2. ASSUME NEW s \in Sessions, UpdateSave(s) \/ EndSave(s) \/ TransferSave(s)
      PROVE  /\ trip' # None
             /\ trip.ended # None => trip'.ended = trip.ended
             /\ trip.deleted => trip'.deleted
  <2>1. /\ trip' = tx[s].trip /\ tx[s].kind \in {"update", "end", "transfer"} /\ TripKept(tx[s])
    BY <1>2, RequestKept DEF UpdateSave, EndSave, TransferSave, SaveTrip, Finish
  <2>. QED
    BY <2>1 DEF TripKept, Live
<1>3. ASSUME NEW s \in Sessions, DeleteSave(s)
      PROVE  trip' # None /\ trip'.ended = trip.ended /\ trip'.deleted
  <2>1. Live /\ trip' = [trip EXCEPT !.deleted = TRUE]
    BY <1>3, RequestKept DEF DeleteSave, Finish, TripKept
  <2>2. trip' \in TripRow /\ trip'.ended = trip.ended /\ trip'.deleted
    BY <2>1, TripEntity DEF TripRow
  <2>. QED
    BY <2>2, RowAssumption
<1>. QED
  BY <1>1, <1>2, <1>3 DEF TripMoves

LEMMA BeforeStep == IInv /\ NothingBefore /\ [Next]_vars => NothingBefore'
<1> SUFFICES ASSUME IInv, NothingBefore, [Next]_vars, trip' = None
             PROVE  (\A u \in Users : members'[u] = None) /\ \A s \in Sessions : tx'[s] = Idle
  BY DEF NothingBefore
<1>1. trip = None
  BY TripStays, TripSteps
<1>2. (\A u \in Users : members[u] = None) /\ \A s \in Sessions : tx[s] = Idle
  BY <1>1 DEF NothingBefore
<1>3. ~Live /\ Idle.kind = "idle"
  BY <1>1 DEF Live, Idle
<1>4. ASSUME NEW u \in Users, NEW start \in Days, NEW end \in Days, Create(u, start, end) PROVE FALSE
  <2> DEFINE t == [owner |-> u, start |-> start, end |-> end, ended |-> None, deleted |-> FALSE]
  <2>1. t \in TripRow /\ trip' = t
    BY <1>4 DEF Create, TripRow
  <2>. QED
    BY <2>1, RowAssumption
<1>5. ASSUME NEW s \in Sessions, NEW u \in Users, TripRequest(s, u) \/ MemberRequest(s, u) PROVE FALSE
  BY <1>2, <1>3, <1>5 DEF TripRequest, UpdateLoad, EndLoad, DeleteLoad, MemberRequest, InviteLoad,
     RespondLoad, LeaveLoad, RemoveMemberLoad, TransferLoad, IsOwner
<1>6. ASSUME NEW s \in Sessions, Save(s) \/ Abort(s) PROVE FALSE
  BY <1>2, <1>3, <1>6 DEF Save, UpdateSave, EndSave, DeleteSave, InviteSave, RespondSave, LeaveSave,
     RemoveMemberSave, TransferSave, Finish, Abort
<1>7. CASE (\E u \in Users : Post(u)) \/ Tick \/ UNCHANGED vars
  BY <1>2, <1>7 DEF Post, Tick, vars
<1>. QED
  BY <1>4, <1>5, <1>6, <1>7 DEF Next

LEMMA InvAlways == Races = {} => (Spec => [](IInv /\ NothingBefore))
<1> SUFFICES ASSUME Races = {} PROVE Spec => [](IInv /\ NothingBefore)
  OBVIOUS
<1>1. Init => NothingBefore
  BY DEF Init, NothingBefore
<1>2. IInv /\ NothingBefore /\ [Next]_vars => (IInv /\ NothingBefore)'
  BY InvStep, BeforeStep
<1>. QED
  BY <1>1, <1>2, InvInit, PTL DEF Spec

\* Every reachable state is typed, row numbers included: an invitation always
\* finds a number that no request in flight has.
THEOREM TripTypes == Races = {} => (Spec => []TypeOK)
<1> SUFFICES ASSUME Races = {} PROVE Spec => []TypeOK
  OBVIOUS
<1>1. IInv /\ NothingBefore => TypeOK
  BY DEF IInv
<1>. QED
  BY <1>1, InvAlways, PTL

\* A live trip has one owner, who is its one member of that role and has joined,
\* however many requests are in flight.
THEOREM TripHasOneOwner == Races = {} => (Spec => []OneOwner)
<1> SUFFICES ASSUME Races = {} PROVE Spec => []OneOwner
  OBVIOUS
<1>1. IInv /\ NothingBefore => OneOwner
  BY DEF IInv
<1>. QED
  BY <1>1, InvAlways, PTL

\* What a save does to the row of a member is legal.
LEMMA MembersMove ==
    ASSUME IInv, [Next]_vars, trip # None, NEW u \in Users, members'[u] # None, members'[u] # members[u]
    PROVE  Legal(u, members'[u])
<1>1. CASE \E v \in Users, start, end \in Days : Create(v, start, end)
  BY <1>1 DEF Create
<1>2. ASSUME NEW s \in Sessions, NEW v \in Users, TripRequest(s, v) \/ MemberRequest(s, v) PROVE FALSE
  BY <1>2 DEF TripRequest, UpdateLoad, EndLoad, DeleteLoad, MemberRequest, InviteLoad,
     RespondLoad, LeaveLoad, RemoveMemberLoad, TransferLoad, Load
<1>3. ASSUME NEW s \in Sessions, SaveMembers(tx[s]) PROVE Legal(u, members'[u])
  <2>1. members'[u] = tx[s].rows[u] /\ tx[s].rows[u] # None
    BY <1>3, MembersSaved
  <2>2. Legal(u, tx[s].rows[u])
    BY <2>1, RequestKept DEF RowsKept
  <2>. QED
    BY <2>1, <2>2
<1>4. ASSUME NEW s \in Sessions, Save(s) \/ Abort(s) PROVE Legal(u, members'[u])
  BY <1>3, <1>4 DEF Save, UpdateSave, EndSave, DeleteSave, InviteSave, RespondSave, LeaveSave,
     RemoveMemberSave, TransferSave, Abort
<1>5. CASE (\E v \in Users : Post(v)) \/ Tick \/ UNCHANGED vars
  BY <1>5 DEF Post, Tick, vars
<1>. QED
  BY <1>1, <1>2, <1>4, <1>5 DEF Next

\* Nobody becomes a member without having been invited, and no one is invited who
\* is a member or has left.
THEOREM MembersWereInvited == Races = {} => (Spec => Membership)
<1> SUFFICES ASSUME Races = {} PROVE Spec => Membership
  OBVIOUS
<1> DEFINE Invites == \A u \in Users :
         trip # None /\ members'[u] # None /\ members'[u] # members[u] =>
           LET status == IF members[u] = None THEN None ELSE members[u].status IN
           /\ members'[u].status = "joined"  => status \in {"invited", "joined"}
           /\ members'[u].status = "invited" => status \in {None, "declined"}
<1>1. IInv /\ NothingBefore /\ [Next]_vars => [Invites]_vars
  BY MembersMove DEF Legal
<1>. QED
  BY <1>1, InvAlways, PTL DEF Membership, Spec

\* No request opens an ended trip again, or restores a deleted one.
THEOREM EndedForGood == Races = {} => (Spec => ClosedForGood)
<1> SUFFICES ASSUME Races = {} PROVE Spec => ClosedForGood
  OBVIOUS
<1>1. IInv /\ NothingBefore /\ [Next]_vars =>
        [trip # None => /\ trip.ended # None => trip'.ended = trip.ended
                        /\ trip.deleted => trip'.deleted]_vars
  BY TripStays, TripSteps
<1>. QED
  BY <1>1, InvAlways, PTL DEF ClosedForGood, Spec

LEMMA MemoriesMove == [Next]_vars => memories' = memories \/ \E u \in Users : Post(u)
<1> SUFFICES ASSUME [Next]_vars PROVE memories' = memories \/ \E u \in Users : Post(u)
  OBVIOUS
<1>1. CASE \E u \in Users, start, end \in Days : Create(u, start, end)
  BY <1>1 DEF Create
<1>2. ASSUME NEW s \in Sessions, NEW u \in Users, TripRequest(s, u) \/ MemberRequest(s, u)
      PROVE  memories' = memories
  BY <1>2 DEF TripRequest, UpdateLoad, EndLoad, DeleteLoad, MemberRequest, InviteLoad,
     RespondLoad, LeaveLoad, RemoveMemberLoad, TransferLoad, Load
<1>3. ASSUME NEW s \in Sessions, Save(s) \/ Abort(s) PROVE memories' = memories
  BY <1>3 DEF Save, UpdateSave, EndSave, DeleteSave, InviteSave, RespondSave, LeaveSave,
     RemoveMemberSave, TransferSave, Finish, Abort
<1>4. CASE Tick \/ UNCHANGED vars
  BY <1>4 DEF Tick, vars
<1>. QED
  BY <1>1, <1>2, <1>3, <1>4 DEF Next

\* The feed of an ended trip takes no memory that is posted afterwards.
THEOREM AlbumStaysFrozen == Races = {} => (Spec => AlbumFrozen)
<1> SUFFICES ASSUME Races = {} PROVE Spec => AlbumFrozen
  OBVIOUS
<1>1. ASSUME IInv, [Next]_vars, Live, trip.ended # None
      PROVE  Feed' \cap (memories' \ memories) = {}
  <2>1. ASSUME NEW u \in Users, Post(u) PROVE Feed' \cap (memories' \ memories) = {}
    <3>1. /\ memories' = memories \cup {<<u, now>>} /\ trip' = trip
          /\ trip.ended \in Days /\ now \in Days /\ trip.ended <= now
      BY <1>1, <2>1 DEF Post, IInv, EndsInPast, Live, TypeOK, TripRow
    <3>2. ~(now < trip.ended)
      BY <3>1, TripsAssumption DEF Days
    <3>3. \A m \in Feed' : m[2] < trip.ended
      BY <1>1, <3>1 DEF Feed, WindowEnd
    <3>. QED
      BY <3>1, <3>2, <3>3
  <2>2. CASE memories' = memories
    BY <2>2
  <2>. QED
    BY <1>1, <2>1, <2>2, MemoriesMove
<1>2. IInv /\ NothingBefore /\ [Next]_vars =>
        [Live /\ trip.ended # None => Feed' \cap (memories' \ memories) = {}]_vars
  BY <1>1
<1>. QED
  BY <1>2, InvAlways, PTL DEF AlbumFrozen, Spec
================================================================================
