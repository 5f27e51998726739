-------------------------- MODULE EngagementProofs --------------------------
(***************************************************************************)
(* Proofs about Engagement, for any number of users, venues, sessions and  *)
(* rows. A theorem's hypotheses name the requests of one user that must    *)
(* not overlap for it to hold: where they do, the code lets it break.      *)
(***************************************************************************)
EXTENDS Engagement, FiniteSetTheorems, TLAPS

\* A user's cast overlaps with no other cast, no removal of a check-in and not with
\* the deletion of the account.
NoCastPairs ==
    {"cast"} \notin Overlap /\ {"cast", "remove"} \notin Overlap
    /\ {"cast", "account"} \notin Overlap

-----------------------------------------------------------------------------
(* The inductive invariant.                                                *)

LocksExclusive ==
    \A s, t \in Sessions : s # t => holds[s] \cap holds[t] = {}

\* Two requests in flight for one user are of kinds that may overlap.
Discipline ==
    \A s, t \in Sessions :
        s # t /\ InFlight(s) /\ InFlight(t) /\ tx[s].user = tx[t].user
        => {tx[s].kind, tx[t].kind} \in Overlap

\* uq_vote_user_venue, and the foreign key user_id of votes.
VoteKeys ==
    /\ \A i, j \in VoteIds :
         /\ votes[i] # None /\ votes[j] # None
         /\ votes[i].user = votes[j].user /\ votes[i].venue = votes[j].venue
         => i = j
    /\ \A i \in VoteIds : votes[i] # None => votes[i].user \in accounts

\* Two sessions know the same primary key only if its row is committed, or was and
\* is gone.
IdsDistinct ==
    \A s, t \in Sessions : s # t =>
        /\ tx[s].ci # None /\ tx[s].ci = tx[t].ci =>
             \/ checkIns[tx[s].ci] # None
             \/ tx[s].kind # "create" /\ tx[t].kind # "create"
        /\ tx[s].vote # None /\ tx[s].vote = tx[t].vote => votes[tx[s].vote] # None

\* The vote a session read is still in the table as it read it.
VoteAsRead(t) ==
    /\ t.vote \in VoteIds /\ votes[t.vote] # None
    /\ votes[t.vote] = [user |-> t.user, venue |-> t.venue, value |-> t.old]
CheckInAsRead(t) ==
    /\ t.ci \in CheckInIds
    /\ checkIns[t.ci] # None
    /\ checkIns[t.ci].user = t.user
    /\ checkIns[t.ci].venue = t.venue

CastOK(t) ==
    /\ t.pc \in {"findVote", "insertVote", "deleteVote", "reloadVote", "setVote",
                 "count", "commit"}
    /\ t.user \in Users /\ t.venue \in Venues /\ t.want \in VoteValues
    /\ t.ci = None
    /\ VisitsOf(t.user, t.venue) # {}
    /\ t.pc \in {"findVote", "insertVote"} =>
         t.vote = None /\ t.old = 0 /\ t.writes = {}
    /\ t.pc = "insertVote" => VoteOf(t.user, t.venue) = {}
    /\ t.pc = "deleteVote" => VoteAsRead(t) /\ t.old = t.want /\ t.writes = {}
    /\ t.pc \in {"reloadVote", "setVote"} =>
         VoteAsRead(t) /\ t.old # t.want /\ t.writes = {}
    /\ t.pc \in {"count", "commit"} =>
         \/ /\ t.writes = {"insertVote"} /\ t.old = 0 /\ t.vote \in VoteIds
            /\ votes[t.vote] = None /\ VoteOf(t.user, t.venue) = {}
         \/ t.writes = {"deleteVote"} /\ VoteAsRead(t) /\ t.old = t.want
         \/ t.writes = {"setVote"} /\ VoteAsRead(t) /\ t.old # t.want

CreateOK(t, locks) ==
    /\ t.pc \in {"findLast", "insertCheckIn", "findJourney", "addJourney", "commit"}
    /\ t.user \in Users /\ t.venue \in Places
    /\ t.vote = None /\ t.old = 0
    /\ t.pc = "findLast" => t.venue \in Venues
    /\ t.pc \in {"findLast", "insertCheckIn"} => t.ci = None /\ t.writes = {}
    /\ t.pc \in {"findJourney", "addJourney", "commit"} =>
         /\ t.ci \in CheckInIds /\ checkIns[t.ci] = None
         /\ t.writes \in {{"insertCheckIn"}, {"insertCheckIn", "addJourney"}}
         /\ <<"user", t.user>> \in locks
    /\ t.pc \in {"findJourney", "addJourney"} \/ "addJourney" \in t.writes =>
         t.venue \in Venues

RemoveOK(t, locks) ==
    /\ t.pc \in {"softDelete", "decrement", "countRemaining", "findLingering",
                 "uncount", "deleteVote", "commit"}
    /\ t.user \in Users /\ t.venue \in Places
    /\ CheckInAsRead(t)
    /\ t.pc \in {"softDelete", "decrement", "countRemaining", "findLingering"} =>
         t.vote = None /\ t.old = 0
    /\ t.pc = "softDelete" => t.writes = {}
    /\ t.pc \in {"decrement", "countRemaining", "findLingering", "uncount",
                 "deleteVote"} => t.writes = {"softDelete"}
    /\ t.pc = "decrement" => <<"checkIn", t.ci>> \in locks
    /\ t.pc \notin {"softDelete", "decrement"} => <<"user", t.user>> \in locks
    /\ t.pc \in {"countRemaining", "findLingering", "uncount", "deleteVote"} =>
         t.venue \in Venues
    /\ t.pc \in {"uncount", "deleteVote"} => VoteAsRead(t)
    /\ t.pc = "commit" =>
         \/ /\ t.vote = None /\ t.old = 0 /\ t.writes = {"softDelete"}
            /\ \/ t.venue = Custom
               \/ VisitsOf(t.user, t.venue) \ {t.ci} # {}
               \/ VoteOf(t.user, t.venue) = {}
         \/ /\ VoteAsRead(t) /\ t.venue \in Venues
            /\ t.writes = {"softDelete", "deleteVote"}

MemoryOK(t) ==
    /\ t.pc \in {"reloadCheckIn", "saveCheckIn", "commit"}
    /\ t.user \in Users /\ t.venue \in Places
    /\ CheckInAsRead(t)
    /\ t.vote = None /\ t.old = 0
    /\ t.writes \in {{}, {"undelete"}}

\* The account went while the request held no lock: it will write nothing.
GoneOK(t) ==
    /\ t.user \in Users \ accounts
    /\ t.venue \in Places /\ t.vote = None /\ t.old = 0
    /\ \/ /\ t.kind = "create" /\ t.pc \in {"findLast", "insertCheckIn"}
          /\ t.ci = None /\ t.writes = {}
       \/ /\ t.kind = "remove" /\ t.ci \in CheckInIds /\ checkIns[t.ci] = None
          /\ t.pc \in {"softDelete", "decrement", "countRemaining",
                       "findLingering", "commit"}
          /\ t.writes = {}
       \/ /\ t.kind = "memory" /\ t.ci \in CheckInIds /\ checkIns[t.ci] = None
          /\ t.pc \in {"reloadCheckIn", "saveCheckIn", "commit"}
          /\ t.writes \in {{}, {"undelete"}}

\* Every other request in flight is of a user who still has an account.
Present(s) == InFlight(s) => tx[s].user \in accounts
AccountsStay == \A s \in Sessions : Present(s) \/ GoneOK(tx[s])

SessionOK(s) ==
    \/ tx[s] = Idle
    \/ GoneOK(tx[s])
    \/ tx[s].kind = "cast" /\ CastOK(tx[s])
    \/ tx[s].kind = "create" /\ CreateOK(tx[s], holds[s])
    \/ tx[s].kind = "remove" /\ RemoveOK(tx[s], holds[s])
    \/ tx[s].kind = "memory" /\ MemoryOK(tx[s])

SessionsOK == \A s \in Sessions : SessionOK(s)

IInv ==
    /\ TypeOK
    /\ LocksExclusive /\ Discipline /\ AccountsStay
    /\ VoteKeys /\ IdsDistinct
    /\ SessionsOK
    /\ UpvotesExact /\ VoteNeedsCheckIn

-----------------------------------------------------------------------------
(* Steps that only move one session.                                       *)

LEMMA InitIInv == Init => IInv
<1> SUFFICES ASSUME Init PROVE IInv
  OBVIOUS
<1>1. TypeOK
  BY ConstantsAssumption DEF Init, TypeOK, Idle, TxState, Statements, Days, CheckInRow, VoteRow
<1>2. LocksExclusive /\ Discipline /\ AccountsStay
  BY DEF Init, LocksExclusive, Discipline, AccountsStay, Present, InFlight, Idle
<1>3. VoteKeys /\ IdsDistinct /\ VoteNeedsCheckIn
  BY DEF Init, VoteKeys, IdsDistinct, VoteNeedsCheckIn, Idle
<1>4. SessionsOK
  BY DEF Init, SessionsOK, SessionOK
<1>5. UpvotesExact
  <2>1. \A v \in Venues : UpvotesAt(v) = {}
    BY DEF Init, UpvotesAt
  <2>. QED
    BY <2>1, FS_EmptySet DEF Init, UpvotesExact
<1>. QED
  BY <1>1, <1>2, <1>3, <1>4, <1>5 DEF IInv

\* A session begins a request or goes on with it: its record and its locks may
\* change, the rows may not, and a primary key it learns is fresh or that of a
\* committed row.
LEMMA SessionStep ==
    ASSUME IInv, NEW s \in Sessions,
           NEW next \in TxState, Step(s, next),
           \/ MayBegin(s, next.user, next.kind)
           \/ InFlight(s) /\ next.user = tx[s].user /\ next.kind = tx[s].kind,
           next.user \in accounts \/ GoneOK(next),
           \/ next.ci = None
           \/ next.ci = tx[s].ci /\ next.kind = tx[s].kind
           \/ FreshCheckIn(next.ci)
           \/ checkIns[next.ci] # None,
           \/ next.vote \in {tx[s].vote, None}
           \/ FreshVote(next.vote)
           \/ votes[next.vote] # None,
           UNCHANGED holds \/ (\E lock \in Locks : Lock(s, lock)),
           UNCHANGED <<rows, today>>,
           SessionOK(s)'
    PROVE  IInv'
<1> USE DEF IInv
<1>0. /\ tx' = [tx EXCEPT ![s] = next] /\ tx'[s] = next
      /\ \A t \in Sessions \ {s} : tx'[t] = tx[t] /\ holds'[t] = holds[t]
      /\ holds' \in [Sessions -> SUBSET Locks]
  BY DEF TypeOK, Step, Lock
<1>1. TypeOK'
  BY <1>0 DEF TypeOK, rows
<1>2. LocksExclusive'
  BY <1>0 DEF LocksExclusive, TypeOK, Lock, Free
<1>3. Discipline'
  BY <1>0 DEF Discipline, MayBegin, InFlight
<1>4. AccountsStay'
  BY <1>0 DEF AccountsStay, Present, GoneOK, InFlight, rows
<1>5. VoteKeys' /\ VoteNeedsCheckIn' /\ UpvotesExact'
  BY DEF VoteKeys, VoteNeedsCheckIn, UpvotesExact, UpvotesAt, VisitsOf, Live, rows
<1>6. IdsDistinct'
  BY <1>0 DEF IdsDistinct, FreshCheckIn, FreshVote, rows
<1>7. SessionsOK'
  <2> SUFFICES ASSUME NEW t \in Sessions, t # s PROVE SessionOK(t)'
    BY DEF SessionsOK
  <2>1. SessionOK(t) /\ tx'[t] = tx[t] /\ holds'[t] = holds[t]
    BY <1>0 DEF SessionsOK
  <2>2. /\ \A u, v : VisitsOf(u, v)' = VisitsOf(u, v) /\ VoteOf(u, v)' = VoteOf(u, v)
        /\ checkIns' = checkIns /\ votes' = votes
    BY DEF VisitsOf, VoteOf, Live, rows
  <2>3. CASE tx[t] = Idle
    BY <2>1, <2>3 DEF SessionOK
  <2>4. CASE tx[t].kind = "cast" /\ CastOK(tx[t])
    BY <2>1, <2>2, <2>4 DEF SessionOK, CastOK, VoteAsRead
  <2>5. CASE tx[t].kind = "create" /\ CreateOK(tx[t], holds[t])
    BY <2>1, <2>2, <2>5 DEF SessionOK, CreateOK
  <2>6. CASE tx[t].kind = "remove" /\ RemoveOK(tx[t], holds[t])
    BY <2>1, <2>2, <2>6 DEF SessionOK, RemoveOK, VoteAsRead, CheckInAsRead
  <2>7. CASE tx[t].kind = "memory" /\ MemoryOK(tx[t])
    BY <2>1, <2>2, <2>7 DEF SessionOK, MemoryOK, CheckInAsRead
  <2>8. CASE GoneOK(tx[t])
    BY <2>1, <2>2, <2>8 DEF SessionOK, GoneOK, rows
  <2>. QED
    BY <2>1, <2>3, <2>4, <2>5, <2>6, <2>7, <2>8 DEF SessionOK
<1>. QED
  BY <1>1, <1>2, <1>3, <1>4, <1>5, <1>6, <1>7

\* Which invariant a session satisfies is told by its next statement.
LEMMA SessionKind ==
    ASSUME IInv, NEW s \in Sessions, Present(s)
    PROVE  /\ tx[s] \in TxState
           /\ tx[s].pc \in {"findVote", "insertVote", "reloadVote", "setVote", "count"}
                => tx[s].kind = "cast" /\ CastOK(tx[s])
           /\ tx[s].pc \in {"findLast", "insertCheckIn", "findJourney", "addJourney"}
                => tx[s].kind = "create" /\ CreateOK(tx[s], holds[s])
           /\ tx[s].pc \in {"softDelete", "decrement", "countRemaining",
                            "findLingering", "uncount"}
                => tx[s].kind = "remove" /\ RemoveOK(tx[s], holds[s])
           /\ tx[s].pc \in {"reloadCheckIn", "saveCheckIn"}
                => tx[s].kind = "memory" /\ MemoryOK(tx[s])
           /\ tx[s].pc = "deleteVote" =>
                \/ tx[s].kind = "cast" /\ CastOK(tx[s])
                \/ tx[s].kind = "remove" /\ RemoveOK(tx[s], holds[s])
<1>1. tx[s] \in TxState /\ SessionOK(s)
  BY DEF IInv, TypeOK, SessionsOK
<1>2. CASE tx[s] = Idle
  BY <1>1, <1>2 DEF Idle
<1>3. CASE tx[s].kind = "cast" /\ CastOK(tx[s])
  <2>1. tx[s].pc \in {"findVote", "insertVote", "deleteVote", "reloadVote", "setVote",
                      "count", "commit"}
    BY <1>3 DEF CastOK
  <2>. QED
    BY <1>1, <1>3, <2>1
<1>4. CASE tx[s].kind = "create" /\ CreateOK(tx[s], holds[s])
  <2>1. tx[s].pc \in {"findLast", "insertCheckIn", "findJourney", "addJourney", "commit"}
    BY <1>4 DEF CreateOK
  <2>. QED
    BY <1>1, <1>4, <2>1
<1>5. CASE tx[s].kind = "remove" /\ RemoveOK(tx[s], holds[s])
  <2>1. tx[s].pc \in {"softDelete", "decrement", "countRemaining", "findLingering",
                      "uncount", "deleteVote", "commit"}
    BY <1>5 DEF RemoveOK
  <2>. QED
    BY <1>1, <1>5, <2>1
<1>6. CASE tx[s].kind = "memory" /\ MemoryOK(tx[s])
  <2>1. tx[s].pc \in {"reloadCheckIn", "saveCheckIn", "commit"}
    BY <1>6 DEF MemoryOK
  <2>. QED
    BY <1>1, <1>6, <2>1
<1>. QED
  BY <1>1, <1>2, <1>3, <1>4, <1>5, <1>6 DEF SessionOK, GoneOK, Present, InFlight

\* A statement reads or locks, and sets the next one; the rows stay.
LEMMA Reads ==
    ASSUME UNCHANGED rows
    PROVE  /\ checkIns' = checkIns /\ votes' = votes
           /\ \A u, v : VisitsOf(u, v)' = VisitsOf(u, v) /\ VoteOf(u, v)' = VoteOf(u, v)
BY DEF VisitsOf, VoteOf, Live, rows

LEMMA IdleType == Idle \in TxState
BY ConstantsAssumption DEF Idle, TxState, Statements, Days

LEMMA CastBeginOK ==
    ASSUME IInv, NEW s \in Sessions, NEW u \in Users, NEW v \in Venues,
           NEW want \in VoteValues, CastBegin(s, u, v, want)
    PROVE  IInv'
<1> DEFINE next == [Idle EXCEPT !.pc = "findVote", !.kind = "cast", !.user = u,
                                !.venue = v, !.want = want]
<1>1. /\ next \in TxState /\ next.user = u /\ next.kind = "cast"
      /\ next.ci = None /\ next.vote = None
  BY IdleType DEF Idle, TxState, Statements, Kinds, Places
<1>2. Step(s, next) /\ tx'[s] = next /\ UNCHANGED <<rows, today, holds>>
  BY DEF CastBegin, Step, IInv, TypeOK
<1>3. VisitsOf(u, v)' # {}
  BY <1>2, Reads DEF CastBegin, MayBegin
<1>4. SessionOK(s)'
  BY <1>1, <1>2, <1>3 DEF SessionOK, CastOK, Idle
<1>5. MayBegin(s, next.user, next.kind) /\ next.user \in accounts
  BY <1>1 DEF CastBegin, MayBegin
<1>. HIDE DEF next
<1>. QED
  BY <1>1, <1>2, <1>4, <1>5, SessionStep

LEMMA CastFindVoteOK ==
    ASSUME IInv, NEW s \in Sessions, Present(s), CastFindVote(s)
    PROVE  IInv'
<1> DEFINE t == tx[s]
<1>1. /\ t.pc = "findVote" /\ t.kind = "cast" /\ CastOK(t) /\ t \in TxState
      /\ UNCHANGED <<rows, today, holds>>
  <2>1. t.pc = "findVote" /\ UNCHANGED <<rows, today, holds>>
    BY DEF CastFindVote
  <2>. QED
    BY <2>1, SessionKind
<1>2. CASE VoteOf(t.user, t.venue) = {} /\ Goto(s, "insertVote")
  <2> DEFINE next == [t EXCEPT !.pc = "insertVote"]
  <2>1. next \in TxState
    BY <1>1 DEF TxState, Statements
  <2>2. Step(s, next) /\ tx'[s] = next
    BY <1>2 DEF Goto, Step, IInv, TypeOK
  <2>3. SessionOK(s)'
    BY <1>1, <1>2, <2>2, Reads DEF SessionOK, CastOK, TxState
  <2>. QED
    BY <1>1, <2>1, <2>2, <2>3, SessionStep DEF TxState, InFlight, Present
<1>3. ASSUME NEW i \in VoteOf(t.user, t.venue),
             Step(s, [t EXCEPT !.vote = i, !.old = votes[i].value,
                        !.pc = IF votes[i].value = t.want THEN "deleteVote"
                                                          ELSE "reloadVote"])
      PROVE  IInv'
  <2> DEFINE next == [t EXCEPT !.vote = i, !.old = votes[i].value,
                        !.pc = IF votes[i].value = t.want THEN "deleteVote"
                                                          ELSE "reloadVote"]
  <2>1. i \in VoteIds /\ votes[i] # None /\ votes[i] \in VoteRow
        /\ votes[i].user = t.user /\ votes[i].venue = t.venue
    BY <1>3 DEF VoteOf, IInv, TypeOK
  <2>2. votes[i] = [user |-> t.user, venue |-> t.venue, value |-> votes[i].value]
    BY <2>1 DEF VoteRow
  <2>3. next \in TxState
    <3>1. votes[i].value \in VoteValues
      BY <2>1 DEF VoteRow
    <3>2. (IF votes[i].value = t.want THEN "deleteVote" ELSE "reloadVote") \in Statements
      BY DEF Statements
    <3>. QED
      BY <1>1, <2>1, <3>1, <3>2 DEF TxState
  <2>4. Step(s, next) /\ tx'[s] = next
    BY <1>3 DEF Step, IInv, TypeOK
  <2>5. SessionOK(s)'
    BY <1>1, <2>1, <2>2, <2>4, Reads DEF SessionOK, CastOK, VoteAsRead, TxState
  <2>. QED
    BY <1>1, <2>1, <2>3, <2>4, <2>5, SessionStep DEF TxState, InFlight, Present
<1>. QED
  BY <1>2, <1>3 DEF CastFindVote

LEMMA CastInsertVoteOK ==
    ASSUME IInv, NEW s \in Sessions, Present(s), CastInsertVote(s)
    PROVE  IInv'
<1> DEFINE t == tx[s]
           lock == <<"voteKey", <<t.user, t.venue>>>>
<1>1. /\ t.pc = "insertVote" /\ t.kind = "cast" /\ CastOK(t) /\ t \in TxState
      /\ UNCHANGED <<rows, today>> /\ Lock(s, lock)
  BY SessionKind DEF CastInsertVote
<1>2. /\ t.user \in Users /\ t.venue \in Venues /\ t.vote = None /\ t.old = 0
      /\ t.writes = {} /\ VoteOf(t.user, t.venue) = {}
  BY <1>1 DEF CastOK
<1>3. lock \in Locks
  BY <1>2 DEF Locks
<1>4. PICK i \in VoteIds :
        /\ FreshVote(i)
        /\ Step(s, [t EXCEPT !.vote = i, !.writes = @ \cup {"insertVote"},
                             !.pc = AfterVoteWrite(t)])
  BY <1>2 DEF CastInsertVote
<1> DEFINE next == [t EXCEPT !.vote = i, !.writes = @ \cup {"insertVote"},
                             !.pc = AfterVoteWrite(t)]
<1>5. AfterVoteWrite(t) \in {"count", "commit"}
  BY DEF AfterVoteWrite
<1>6. next \in TxState
  BY <1>1, <1>5 DEF TxState, Statements, Writes
<1>7. Step(s, next) /\ tx'[s] = next
  BY <1>4 DEF Step, IInv, TypeOK
<1>8. votes[i] = None
  BY <1>4 DEF FreshVote
<1>9. SessionOK(s)'
  BY <1>1, <1>2, <1>5, <1>7, <1>8, Reads DEF SessionOK, CastOK, TxState
<1>. QED
  BY <1>1, <1>3, <1>4, <1>6, <1>7, <1>9, SessionStep DEF TxState, InFlight, Present

LEMMA CastReloadVoteOK ==
    ASSUME IInv, NEW s \in Sessions, Present(s), CastReloadVote(s)
    PROVE  IInv'
<1> DEFINE t == tx[s]
           next == [t EXCEPT !.pc = "setVote"]
<1>1. /\ t.pc = "reloadVote" /\ t.kind = "cast" /\ CastOK(t) /\ t \in TxState
      /\ UNCHANGED <<rows, today, holds>>
  BY SessionKind DEF CastReloadVote
<1>2. votes[t.vote] # None /\ votes[t.vote].value # t.want
  BY <1>1 DEF CastOK, VoteAsRead
<1>3. next \in TxState
  BY <1>1 DEF TxState, Statements
<1>4. Step(s, next) /\ tx'[s] = next
  BY <1>2 DEF CastReloadVote, Goto, Step, IInv, TypeOK
<1>5. SessionOK(s)'
  BY <1>1, <1>4, Reads DEF SessionOK, CastOK, VoteAsRead, TxState
<1>. QED
  BY <1>1, <1>3, <1>4, <1>5, SessionStep DEF TxState, InFlight, Present

LEMMA CastSetVoteOK ==
    ASSUME IInv, NEW s \in Sessions, Present(s), CastSetVote(s)
    PROVE  IInv'
<1> DEFINE t == tx[s]
           lock == <<"vote", t.vote>>
           next == [t EXCEPT !.pc = AfterVoteWrite(t), !.writes = @ \cup {"setVote"}]
<1>1. /\ t.pc = "setVote" /\ t.kind = "cast" /\ CastOK(t) /\ t \in TxState
      /\ UNCHANGED <<rows, today>>
  BY SessionKind DEF CastSetVote
<1>2. VoteAsRead(t) /\ t.old # t.want /\ t.writes = {}
  BY <1>1 DEF CastOK
<1>3. Lock(s, lock) /\ lock \in Locks
  BY <1>2 DEF CastSetVote, VoteAsRead, Locks
<1>4. AfterVoteWrite(t) \in {"count", "commit"}
  BY DEF AfterVoteWrite
<1>5. next \in TxState
  BY <1>1, <1>4 DEF TxState, Statements, Writes
<1>6. Step(s, next) /\ tx'[s] = next
  BY <1>2 DEF CastSetVote, VoteAsRead, GotoWriting, Step, IInv, TypeOK
<1>7. SessionOK(s)'
  BY <1>1, <1>2, <1>4, <1>6, Reads DEF SessionOK, CastOK, VoteAsRead, TxState
<1>. QED
  BY <1>1, <1>3, <1>5, <1>6, <1>7, SessionStep DEF TxState, InFlight, Present

LEMMA CastCountOK ==
    ASSUME IInv, NEW s \in Sessions, Present(s), CastCount(s)
    PROVE  IInv'
<1> DEFINE t == tx[s]
           lock == <<"venue", t.venue>>
           next == [t EXCEPT !.pc = "commit"]
<1>1. /\ t.pc = "count" /\ t.kind = "cast" /\ CastOK(t) /\ t \in TxState
      /\ UNCHANGED <<rows, today>> /\ Lock(s, lock)
  BY SessionKind DEF CastCount
<1>2. lock \in Locks
  BY <1>1 DEF CastOK, Locks
<1>3. next \in TxState
  BY <1>1 DEF TxState, Statements
<1>4. Step(s, next) /\ tx'[s] = next
  BY DEF CastCount, Goto, Step, IInv, TypeOK
<1>5. SessionOK(s)'
  BY <1>1, <1>4, Reads DEF SessionOK, CastOK, VoteAsRead, TxState
<1>. QED
  BY <1>1, <1>2, <1>3, <1>4, <1>5, SessionStep DEF TxState, InFlight, Present

\* Shared by cast and remove.
LEMMA DeleteVoteOK ==
    ASSUME IInv, NEW s \in Sessions, Present(s), DeleteVote(s)
    PROVE  IInv'
<1> DEFINE t == tx[s]
           lock == <<"vote", t.vote>>
           next == [t EXCEPT !.pc = AfterVoteWrite(t), !.writes = @ \cup {"deleteVote"}]
<1>1. /\ t.pc = "deleteVote" /\ t \in TxState /\ UNCHANGED <<rows, today>>
      /\ \/ t.kind = "cast" /\ CastOK(t)
         \/ t.kind = "remove" /\ RemoveOK(t, holds[s])
  BY SessionKind DEF DeleteVote
<1>2. VoteAsRead(t)
  BY <1>1 DEF CastOK, RemoveOK
<1>3. Lock(s, lock) /\ lock \in Locks
  BY <1>2 DEF DeleteVote, VoteAsRead, Locks
<1>4. AfterVoteWrite(t) \in {"count", "commit"}
      /\ (t.kind = "remove" => AfterVoteWrite(t) = "commit")
  BY DEF AfterVoteWrite
<1>5. next \in TxState
  BY <1>1, <1>4 DEF TxState, Statements, Writes
<1>6. Step(s, next) /\ tx'[s] = next
  BY <1>2 DEF DeleteVote, VoteAsRead, GotoWriting, Step, IInv, TypeOK
<1>7. CASE t.kind = "cast" /\ CastOK(t)
  <2>1. SessionOK(s)'
    BY <1>1, <1>2, <1>4, <1>6, <1>7, Reads DEF SessionOK, CastOK, VoteAsRead, TxState
  <2>. QED
    BY <1>1, <1>3, <1>5, <1>6, <2>1, SessionStep DEF TxState, InFlight, Present
<1>8. CASE t.kind = "remove" /\ RemoveOK(t, holds[s])
  <2>1. holds[s] \subseteq holds'[s]
    BY <1>3 DEF Lock, IInv, TypeOK
  <2>2. next.writes = {"softDelete", "deleteVote"}
    BY <1>1, <1>8 DEF RemoveOK, TxState
  <2>3. /\ next.user = t.user /\ next.venue = t.venue /\ next.ci = t.ci
        /\ next.vote = t.vote /\ next.old = t.old /\ next.kind = "remove"
        /\ next.pc = "commit"
    BY <1>1, <1>4, <1>8 DEF TxState
  <2>4. SessionOK(s)'
    <3>1. tx'[s].kind = "remove" /\ tx'[s].pc = "commit"
          /\ tx'[s].writes = {"softDelete", "deleteVote"}
      BY <1>6, <2>2, <2>3
    <3>2. CheckInAsRead(tx[s])' /\ VoteAsRead(tx[s])'
      BY <1>1, <1>2, <1>6, <1>8, <2>3, Reads DEF RemoveOK, VoteAsRead, CheckInAsRead
    <3>3. tx'[s].user \in Users /\ tx'[s].venue \in Venues /\ tx'[s].venue \in Places
          /\ <<"user", tx'[s].user>> \in holds'[s]
      BY <1>1, <1>6, <1>8, <2>1, <2>3 DEF RemoveOK
    <3>. QED
      BY <3>1, <3>2, <3>3 DEF SessionOK, RemoveOK
  <2>. QED
    BY <1>1, <1>3, <1>5, <1>6, <2>4, SessionStep DEF TxState, InFlight, Present
<1>. QED
  BY <1>1, <1>7, <1>8

\* A step that only sets the next statement, and perhaps takes a lock.
LEMMA Goes ==
    ASSUME IInv, NEW s \in Sessions, NEW pc \in Statements, InFlight(s), Present(s),
           Goto(s, pc),
           UNCHANGED holds \/ (\E lock \in Locks : Lock(s, lock)),
           UNCHANGED <<rows, today>>
    PROVE  /\ tx'[s].pc = pc /\ tx'[s].kind = tx[s].kind
           /\ tx'[s].user = tx[s].user /\ tx'[s].venue = tx[s].venue
           /\ tx'[s].ci = tx[s].ci /\ tx'[s].vote = tx[s].vote
           /\ tx'[s].want = tx[s].want /\ tx'[s].old = tx[s].old
           /\ tx'[s].writes = tx[s].writes
           /\ holds[s] \subseteq holds'[s]
           /\ SessionOK(s)' => IInv'
<1> DEFINE next == [tx[s] EXCEPT !.pc = pc]
<1>1. tx[s] \in TxState /\ next \in TxState
  BY DEF IInv, TypeOK, TxState
<1>2. Step(s, next) /\ tx'[s] = next
  BY DEF Goto, Step, IInv, TypeOK
<1>3. holds[s] \subseteq holds'[s]
  BY DEF Lock, IInv, TypeOK
<1>. QED
  BY <1>1, <1>2, <1>3, SessionStep DEF TxState, Present

\* The same, with a write put in the session's buffer.
LEMMA GoesWriting ==
    ASSUME IInv, NEW s \in Sessions, NEW pc \in Statements, NEW write \in Writes,
           InFlight(s), Present(s), GotoWriting(s, pc, write),
           UNCHANGED holds \/ (\E lock \in Locks : Lock(s, lock)),
           UNCHANGED <<rows, today>>
    PROVE  /\ tx'[s].pc = pc /\ tx'[s].kind = tx[s].kind
           /\ tx'[s].user = tx[s].user /\ tx'[s].venue = tx[s].venue
           /\ tx'[s].ci = tx[s].ci /\ tx'[s].vote = tx[s].vote
           /\ tx'[s].want = tx[s].want /\ tx'[s].old = tx[s].old
           /\ tx'[s].writes = tx[s].writes \cup {write}
           /\ holds[s] \subseteq holds'[s]
           /\ SessionOK(s)' => IInv'
<1> DEFINE next == [tx[s] EXCEPT !.pc = pc, !.writes = @ \cup {write}]
<1>1. tx[s] \in TxState /\ next \in TxState
  BY DEF IInv, TypeOK, TxState
<1>2. Step(s, next) /\ tx'[s] = next
  BY DEF GotoWriting, Step, IInv, TypeOK
<1>3. holds[s] \subseteq holds'[s]
  BY DEF Lock, IInv, TypeOK
<1>. QED
  BY <1>1, <1>2, <1>3, SessionStep DEF TxState, Present

\* A session ends and nothing was written.
LEMMA Ends ==
    ASSUME IInv, NEW s \in Sessions, End(s), UNCHANGED <<rows, today>>
    PROVE  IInv'
<1>1. /\ tx' = [tx EXCEPT ![s] = Idle] /\ tx'[s] = Idle /\ holds'[s] = {}
      /\ \A t \in Sessions \ {s} : tx'[t] = tx[t] /\ holds'[t] = holds[t]
      /\ holds' \in [Sessions -> SUBSET Locks]
  BY DEF IInv, TypeOK, End, Step
<1>2. TypeOK'
  BY <1>1, IdleType DEF IInv, TypeOK, rows
<1>3. LocksExclusive'
  BY <1>1 DEF IInv, LocksExclusive
<1>4. Discipline' /\ AccountsStay'
  BY <1>1 DEF IInv, Discipline, AccountsStay, Present, GoneOK, InFlight, Idle, rows
<1>5. VoteKeys' /\ VoteNeedsCheckIn' /\ UpvotesExact'
  BY DEF IInv, VoteKeys, VoteNeedsCheckIn, UpvotesExact, UpvotesAt, VisitsOf, Live, rows
<1>6. IdsDistinct'
  BY <1>1 DEF IInv, IdsDistinct, Idle, rows
<1>7. SessionsOK'
  <2> SUFFICES ASSUME NEW t \in Sessions, t # s PROVE SessionOK(t)'
    BY <1>1 DEF SessionsOK, SessionOK
  <2>1. SessionOK(t) /\ tx'[t] = tx[t] /\ holds'[t] = holds[t]
    BY <1>1 DEF IInv, SessionsOK
  <2>2. CASE tx[t] = Idle
    BY <2>1, <2>2 DEF SessionOK
  <2>3. CASE tx[t].kind = "cast" /\ CastOK(tx[t])
    BY <2>1, <2>3, Reads DEF SessionOK, CastOK, VoteAsRead
  <2>4. CASE tx[t].kind = "create" /\ CreateOK(tx[t], holds[t])
    BY <2>1, <2>4, Reads DEF SessionOK, CreateOK
  <2>5. CASE tx[t].kind = "remove" /\ RemoveOK(tx[t], holds[t])
    BY <2>1, <2>5, Reads DEF SessionOK, RemoveOK, VoteAsRead, CheckInAsRead
  <2>6. CASE tx[t].kind = "memory" /\ MemoryOK(tx[t])
    BY <2>1, <2>6, Reads DEF SessionOK, MemoryOK, CheckInAsRead
  <2>7. CASE GoneOK(tx[t])
    BY <2>1, Reads, <2>7 DEF SessionOK, GoneOK, rows
  <2>. QED
    BY <2>1, <2>2, <2>3, <2>4, <2>5, <2>6, <2>7 DEF SessionOK
<1>. QED
  BY <1>2, <1>3, <1>4, <1>5, <1>6, <1>7 DEF IInv

LEMMA CreateBeginOK ==
    ASSUME IInv, NEW s \in Sessions, NEW u \in Users, NEW v \in Places,
           CreateBegin(s, u, v)
    PROVE  IInv'
<1> DEFINE first == IF v = Custom THEN "insertCheckIn" ELSE "findLast"
           next == [Idle EXCEPT !.kind = "create", !.user = u, !.venue = v,
                                !.day = today, !.pc = first]
<1>1. first \in {"insertCheckIn", "findLast"} /\ (first = "findLast" => v \in Venues)
  BY DEF Places
<1>2. today \in Days
  BY DEF IInv, TypeOK
<1> HIDE DEF first
<1>3. /\ next \in TxState /\ next.user = u /\ next.kind = "create" /\ next.pc = first
      /\ next.venue = v /\ next.ci = None /\ next.vote = None /\ next.old = 0
      /\ next.writes = {}
  BY <1>1, <1>2, IdleType DEF Idle, TxState, Statements, Kinds
<1>4. Step(s, next) /\ tx'[s] = next /\ UNCHANGED <<rows, today, holds>>
  BY DEF CreateBegin, Step, IInv, TypeOK, first
<1>5. MayBegin(s, next.user, next.kind) /\ next.user \in accounts
  BY <1>3 DEF CreateBegin, MayBegin
<1> HIDE DEF next
<1>6. SessionOK(s)'
  BY <1>1, <1>3, <1>4 DEF SessionOK, CreateOK
<1>. QED
  BY <1>3, <1>4, <1>5, <1>6, SessionStep

LEMMA CreateFindLastOK ==
    ASSUME IInv, NEW s \in Sessions, Present(s), CreateFindLast(s)
    PROVE  IInv'
<1>1. /\ tx[s].pc = "findLast" /\ tx[s].kind = "create" /\ InFlight(s)
      /\ CreateOK(tx[s], holds[s]) /\ UNCHANGED <<rows, today>>
  BY SessionKind DEF CreateFindLast, InFlight
<1>2. CASE End(s)
  BY <1>1, <1>2, Ends
<1>3. CASE Goto(s, "insertCheckIn") /\ UNCHANGED holds
  <2>1. "insertCheckIn" \in Statements
    BY DEF Statements
  <2>2. SessionOK(s)'
    BY <1>1, <1>3, <2>1, Goes DEF SessionOK, CreateOK
  <2>. QED
    BY <1>1, <1>3, <2>1, <2>2, Goes
<1>. QED
  BY <1>2, <1>3 DEF CreateFindLast

LEMMA CreateInsertOK ==
    ASSUME IInv, NEW s \in Sessions, Present(s), CreateInsert(s)
    PROVE  IInv'
<1> DEFINE t == tx[s]
           lock == <<"user", t.user>>
           pc == IF t.venue = Custom THEN "commit" ELSE "findJourney"
<1>1. /\ t.pc = "insertCheckIn" /\ t.kind = "create" /\ CreateOK(t, holds[s])
      /\ t \in TxState /\ UNCHANGED <<rows, today>> /\ Lock(s, lock)
  BY SessionKind DEF CreateInsert
<1>2. /\ t.user \in Users /\ t.venue \in Places /\ t.ci = None /\ t.writes = {}
      /\ t.vote = None /\ t.old = 0
  BY <1>1 DEF CreateOK
<1>3. lock \in Locks /\ lock \in holds'[s]
  BY <1>1, <1>2 DEF Locks, Lock, IInv, TypeOK
<1>4. pc \in {"commit", "findJourney"} /\ (pc = "findJourney" => t.venue \in Venues)
  BY <1>2 DEF Places
<1>5. PICK c \in CheckInIds :
        FreshCheckIn(c) /\ Step(s, [t EXCEPT !.ci = c, !.writes = @ \cup {"insertCheckIn"},
                                             !.pc = pc])
  BY DEF CreateInsert
<1> HIDE DEF pc
<1> DEFINE next == [t EXCEPT !.ci = c, !.writes = @ \cup {"insertCheckIn"}, !.pc = pc]
<1>6. /\ next \in TxState /\ next.kind = "create" /\ next.user = t.user
      /\ next.venue = t.venue /\ next.ci = c /\ next.vote = None /\ next.old = 0
      /\ next.writes = {"insertCheckIn"} /\ next.pc = pc
  BY <1>1, <1>2, <1>4 DEF TxState, Statements, Writes
<1>7. Step(s, next) /\ tx'[s] = next
  BY <1>5 DEF Step, IInv, TypeOK
<1>8. checkIns'[c] = None
  BY <1>1, <1>5, Reads DEF FreshCheckIn
<1> HIDE DEF next
<1>9. SessionOK(s)'
  BY <1>2, <1>3, <1>4, <1>6, <1>7, <1>8 DEF SessionOK, CreateOK
<1>. QED
  BY <1>1, <1>3, <1>5, <1>6, <1>7, <1>9, SessionStep DEF InFlight, Present

LEMMA CreateFindJourneyOK ==
    ASSUME IInv, NEW s \in Sessions, Present(s), CreateFindJourney(s)
    PROVE  IInv'
<1> DEFINE pc == IF <<tx[s].user, tx[s].venue>> \in journey THEN "commit" ELSE "addJourney"
<1>1. /\ tx[s].pc = "findJourney" /\ tx[s].kind = "create" /\ InFlight(s)
      /\ CreateOK(tx[s], holds[s]) /\ UNCHANGED <<rows, today, holds>>
      /\ Goto(s, pc)
  BY SessionKind DEF CreateFindJourney, InFlight
<1>2. pc \in {"commit", "addJourney"} /\ pc \in Statements
  BY DEF Statements
<1> HIDE DEF pc
<1>3. SessionOK(s)'
  BY <1>1, <1>2, Goes, Reads DEF SessionOK, CreateOK
<1>. QED
  BY <1>1, <1>2, <1>3, Goes

LEMMA CreateAddJourneyOK ==
    ASSUME IInv, NEW s \in Sessions, Present(s), CreateAddJourney(s)
    PROVE  IInv'
<1> DEFINE lock == <<"journeyKey", <<tx[s].user, tx[s].venue>>>>
<1>1. /\ tx[s].pc = "addJourney" /\ tx[s].kind = "create" /\ InFlight(s)
      /\ CreateOK(tx[s], holds[s]) /\ UNCHANGED <<rows, today>>
      /\ Lock(s, lock) /\ GotoWriting(s, "commit", "addJourney")
  BY SessionKind DEF CreateAddJourney, InFlight
<1>2. lock \in Locks /\ "commit" \in Statements /\ "addJourney" \in Writes
  BY <1>1 DEF CreateOK, Locks, Statements, Writes
<1> HIDE DEF lock
<1>3. SessionOK(s)'
  BY <1>1, <1>2, GoesWriting, Reads DEF SessionOK, CreateOK
<1>. QED
  BY <1>1, <1>2, <1>3, GoesWriting

LEMMA RemoveBeginOK ==
    ASSUME IInv, NEW s \in Sessions, NEW u \in Users, NEW c \in CheckInIds,
           RemoveBegin(s, u, c)
    PROVE  IInv'
<1> DEFINE next == [Idle EXCEPT !.pc = "softDelete", !.kind = "remove", !.user = u,
                                !.ci = c, !.venue = checkIns[c].venue]
<1>1. checkIns[c] # None /\ checkIns[c].venue \in Places /\ checkIns[c].user = u
  BY DEF RemoveBegin, Live, IInv, TypeOK, CheckInRow
<1>2. /\ next \in TxState /\ next.kind = "remove" /\ next.user = u
      /\ next.venue = checkIns[c].venue /\ next.ci = c /\ next.vote = None
      /\ next.old = 0 /\ next.writes = {} /\ next.pc = "softDelete"
  BY <1>1, IdleType DEF Idle, TxState, Statements, Kinds
<1>3. Step(s, next) /\ tx'[s] = next /\ UNCHANGED <<rows, today, holds>>
  BY DEF RemoveBegin, Step, IInv, TypeOK
<1>4. MayBegin(s, next.user, next.kind) /\ next.user \in accounts
  BY <1>2 DEF RemoveBegin, MayBegin
<1> HIDE DEF next
<1>5. SessionOK(s)'
  BY <1>1, <1>2, <1>3, Reads DEF SessionOK, RemoveOK, CheckInAsRead
<1>. QED
  BY <1>1, <1>2, <1>3, <1>4, <1>5, SessionStep

LEMMA RemoveSoftDeleteOK ==
    ASSUME IInv, NEW s \in Sessions, Present(s), RemoveSoftDelete(s)
    PROVE  IInv'
<1> DEFINE lock == <<"checkIn", tx[s].ci>>
<1>1. /\ tx[s].pc = "softDelete" /\ tx[s].kind = "remove" /\ InFlight(s)
      /\ RemoveOK(tx[s], holds[s]) /\ UNCHANGED <<rows, today>>
  BY SessionKind DEF RemoveSoftDelete, InFlight
<1>4. Lock(s, lock) /\ GotoWriting(s, "decrement", "softDelete") /\ lock \in holds'[s]
  BY <1>1 DEF RemoveSoftDelete, RemoveOK, CheckInAsRead, Lock, IInv, TypeOK
<1>2. lock \in Locks /\ "decrement" \in Statements /\ "softDelete" \in Writes
  BY <1>1 DEF RemoveOK, CheckInAsRead, Locks, Statements, Writes
<1>5. <<"checkIn", tx[s].ci>> \in holds'[s]
  BY <1>4
<1> HIDE DEF lock
<1>3. SessionOK(s)'
  BY <1>1, <1>2, <1>4, <1>5, GoesWriting, Reads DEF SessionOK, RemoveOK, CheckInAsRead
<1>. QED
  BY <1>1, <1>2, <1>3, <1>4, GoesWriting

LEMMA RemoveDecrementOK ==
    ASSUME IInv, NEW s \in Sessions, Present(s), RemoveDecrement(s)
    PROVE  IInv'
<1> DEFINE lock == <<"user", tx[s].user>>
           pc == IF tx[s].venue = Custom THEN "commit" ELSE "countRemaining"
<1>1. /\ tx[s].pc = "decrement" /\ tx[s].kind = "remove" /\ InFlight(s)
      /\ RemoveOK(tx[s], holds[s]) /\ UNCHANGED <<rows, today>>
      /\ Lock(s, lock) /\ Goto(s, pc)
  BY SessionKind DEF RemoveDecrement, InFlight, Present
<1>2. lock \in Locks /\ lock \in holds'[s]
  BY <1>1 DEF RemoveOK, Locks, Lock, IInv, TypeOK
<1>3. /\ pc \in {"commit", "countRemaining"} /\ pc \in Statements
      /\ pc = "commit" => tx[s].venue = Custom
      /\ pc = "countRemaining" => tx[s].venue \in Venues
  BY <1>1 DEF Statements, RemoveOK, Places
<1> HIDE DEF pc
<1>4. SessionOK(s)'
  BY <1>1, <1>2, <1>3, Goes, Reads DEF SessionOK, RemoveOK, CheckInAsRead
<1>. QED
  BY <1>1, <1>2, <1>3, <1>4, Goes

LEMMA RemoveCountRemainingOK ==
    ASSUME IInv, NEW s \in Sessions, Present(s), RemoveCountRemaining(s)
    PROVE  IInv'
<1> DEFINE others == VisitsOf(tx[s].user, tx[s].venue) \ {tx[s].ci}
           pc == IF others = {} THEN "findLingering" ELSE "commit"
<1>1. /\ tx[s].pc = "countRemaining" /\ tx[s].kind = "remove" /\ InFlight(s)
      /\ RemoveOK(tx[s], holds[s]) /\ UNCHANGED <<rows, today, holds>>
      /\ Goto(s, pc)
  BY SessionKind DEF RemoveCountRemaining, InFlight
<1>2. /\ pc \in {"commit", "findLingering"} /\ pc \in Statements
      /\ pc = "commit" => others # {}
  BY DEF Statements
<1> HIDE DEF pc
<1>3. SessionOK(s)'
  BY <1>1, <1>2, Goes, Reads DEF SessionOK, RemoveOK, CheckInAsRead
<1>. QED
  BY <1>1, <1>2, <1>3, Goes

LEMMA RemoveFindVoteOK ==
    ASSUME IInv, NEW s \in Sessions, Present(s), RemoveFindVote(s)
    PROVE  IInv'
<1> DEFINE t == tx[s]
<1>1. /\ t.pc = "findLingering" /\ t.kind = "remove" /\ InFlight(s)
      /\ RemoveOK(t, holds[s]) /\ t \in TxState /\ UNCHANGED <<rows, today, holds>>
  <2>1. t.pc = "findLingering" /\ UNCHANGED <<rows, today, holds>>
    BY DEF RemoveFindVote
  <2>. QED
    BY <2>1, SessionKind DEF InFlight
<1>2. CASE VoteOf(t.user, t.venue) = {} /\ Goto(s, "commit")
  <2>1. "commit" \in Statements
    BY DEF Statements
  <2>2. SessionOK(s)'
    BY <1>1, <1>2, <2>1, Goes, Reads DEF SessionOK, RemoveOK, CheckInAsRead
  <2>. QED
    BY <1>1, <1>2, <2>1, <2>2, Goes
<1>3. ASSUME NEW i \in VoteOf(t.user, t.venue),
             Step(s, [t EXCEPT !.vote = i, !.old = votes[i].value,
                        !.pc = IF votes[i].value = 1 THEN "uncount"
                                                     ELSE "deleteVote"])
      PROVE  IInv'
  <2> DEFINE pc == IF votes[i].value = 1 THEN "uncount" ELSE "deleteVote"
             next == [t EXCEPT !.vote = i, !.old = votes[i].value, !.pc = pc]
  <2>1. i \in VoteIds /\ votes[i] # None /\ votes[i] \in VoteRow
        /\ votes[i].user = t.user /\ votes[i].venue = t.venue
    BY <1>3 DEF VoteOf, IInv, TypeOK
  <2>2. votes[i] = [user |-> t.user, venue |-> t.venue, value |-> votes[i].value]
        /\ votes[i].value \in VoteValues
    BY <2>1 DEF VoteRow
  <2>3. Step(s, next) /\ tx'[s] = next
    BY <1>3 DEF Step, IInv, TypeOK
  <2>4. pc \in {"uncount", "deleteVote"} /\ pc \in Statements
    BY DEF Statements
  <2> HIDE DEF pc
  <2>5. /\ next \in TxState /\ next.kind = "remove" /\ next.user = t.user
        /\ next.venue = t.venue /\ next.ci = t.ci /\ next.vote = i
        /\ next.old = votes[i].value /\ next.writes = t.writes /\ next.pc = pc
    BY <1>1, <2>1, <2>2, <2>4 DEF TxState
  <2> HIDE DEF next
  <2>6. VoteAsRead(tx[s])' /\ CheckInAsRead(tx[s])'
    BY <1>1, <2>1, <2>2, <2>3, <2>5, Reads DEF VoteAsRead, CheckInAsRead, RemoveOK
  <2>7. SessionOK(s)'
    BY <1>1, <2>1, <2>3, <2>4, <2>5, <2>6 DEF SessionOK, RemoveOK
  <2>8. t.user \in accounts
    BY <1>1 DEF Present
  <2>. QED
    BY <1>1, <2>1, <2>3, <2>5, <2>7, <2>8, SessionStep
<1>. QED
  BY <1>2, <1>3 DEF RemoveFindVote

LEMMA RemoveUncountOK ==
    ASSUME IInv, NEW s \in Sessions, Present(s), RemoveUncount(s)
    PROVE  IInv'
<1> DEFINE lock == <<"venue", tx[s].venue>>
<1>1. /\ tx[s].pc = "uncount" /\ tx[s].kind = "remove" /\ InFlight(s)
      /\ RemoveOK(tx[s], holds[s]) /\ UNCHANGED <<rows, today>>
      /\ Lock(s, lock) /\ Goto(s, "deleteVote")
  BY SessionKind DEF RemoveUncount, InFlight
<1>2. lock \in Locks /\ "deleteVote" \in Statements
  BY <1>1 DEF RemoveOK, Locks, Statements
<1> HIDE DEF lock
<1>3. SessionOK(s)'
  BY <1>1, <1>2, Goes, Reads DEF SessionOK, RemoveOK, CheckInAsRead, VoteAsRead
<1>. QED
  BY <1>1, <1>2, <1>3, Goes

LEMMA MemoryBeginOK ==
    ASSUME IInv, NEW s \in Sessions, NEW u \in Users, NEW c \in CheckInIds,
           MemoryBegin(s, u, c)
    PROVE  IInv'
<1> DEFINE next == [Idle EXCEPT !.pc = "reloadCheckIn", !.kind = "memory",
                       !.user = u, !.ci = c, !.venue = checkIns[c].venue]
<1>1. checkIns[c] # None /\ checkIns[c].venue \in Places /\ checkIns[c].user = u
  BY DEF MemoryBegin, Live, IInv, TypeOK, CheckInRow
<1>2. /\ next \in TxState /\ next.kind = "memory" /\ next.user = u
      /\ next.venue = checkIns[c].venue /\ next.ci = c /\ next.vote = None
      /\ next.old = 0 /\ next.writes = {} /\ next.pc = "reloadCheckIn"
  BY <1>1, IdleType DEF Idle, TxState, Statements, Kinds
<1>3. Step(s, next) /\ tx'[s] = next /\ UNCHANGED <<rows, today, holds>>
  BY DEF MemoryBegin, Step, IInv, TypeOK
<1>4. MayBegin(s, next.user, next.kind) /\ next.user \in accounts
  BY <1>2 DEF MemoryBegin, MayBegin
<1> HIDE DEF next
<1>5. SessionOK(s)'
  BY <1>1, <1>2, <1>3, Reads DEF SessionOK, MemoryOK, CheckInAsRead
<1>. QED
  BY <1>1, <1>2, <1>3, <1>4, <1>5, SessionStep

LEMMA MemoryReloadOK ==
    ASSUME IInv, NEW s \in Sessions, Present(s), MemoryReload(s)
    PROVE  IInv'
<1>1. /\ tx[s].pc = "reloadCheckIn" /\ tx[s].kind = "memory" /\ InFlight(s)
      /\ MemoryOK(tx[s]) /\ UNCHANGED <<rows, today, holds>>
  BY SessionKind DEF MemoryReload, InFlight
<1>2. "saveCheckIn" \in Statements /\ "undelete" \in Writes
  BY DEF Statements, Writes
<1>3. CASE Goto(s, "saveCheckIn")
  <2>1. SessionOK(s)'
    BY <1>1, <1>2, <1>3, Goes, Reads DEF SessionOK, MemoryOK, CheckInAsRead
  <2>. QED
    BY <1>1, <1>2, <1>3, <2>1, Goes
<1>4. CASE GotoWriting(s, "saveCheckIn", "undelete")
  <2>1. SessionOK(s)'
    BY <1>1, <1>2, <1>4, GoesWriting, Reads DEF SessionOK, MemoryOK, CheckInAsRead
  <2>. QED
    BY <1>1, <1>2, <1>4, <2>1, GoesWriting
<1>. QED
  BY <1>3, <1>4 DEF MemoryReload

LEMMA MemorySaveOK ==
    ASSUME IInv, NEW s \in Sessions, Present(s), MemorySave(s)
    PROVE  IInv'
<1> DEFINE lock == <<"checkIn", tx[s].ci>>
<1>1. /\ tx[s].pc = "saveCheckIn" /\ tx[s].kind = "memory" /\ InFlight(s)
      /\ MemoryOK(tx[s]) /\ UNCHANGED <<rows, today>>
      /\ Lock(s, lock) /\ Goto(s, "commit")
  BY SessionKind DEF MemorySave, InFlight, MemoryOK, CheckInAsRead
<1>2. lock \in Locks /\ "commit" \in Statements
  BY <1>1 DEF MemoryOK, CheckInAsRead, Locks, Statements
<1> HIDE DEF lock
<1>3. SessionOK(s)'
  BY <1>1, <1>2, Goes, Reads DEF SessionOK, MemoryOK, CheckInAsRead
<1>. QED
  BY <1>1, <1>2, <1>3, Goes

-----------------------------------------------------------------------------
(* A request whose account is gone.                                        *)

\* Nobody has voted who has no account.
LEMMA GoneVoteless ==
    ASSUME IInv, NEW s \in Sessions, GoneOK(tx[s])
    PROVE  \A v : VoteOf(tx[s].user, v) = {}
BY DEF IInv, VoteKeys, GoneOK, VoteOf

\* Its statements find nothing: it only moves on, or ends.
LEMMA GoneMoves ==
    ASSUME IInv, NEW s \in Sessions, GoneOK(tx[s]),
           \/ CreateFindLast(s) \/ CreateInsert(s)
           \/ RemoveSoftDelete(s) \/ RemoveDecrement(s)
           \/ RemoveCountRemaining(s) \/ RemoveFindVote(s)
           \/ MemoryReload(s) \/ MemorySave(s)
    PROVE  /\ UNCHANGED <<rows, today>>
           /\ \/ End(s)
              \/ /\ UNCHANGED holds
                 /\ \E pc \in Statements :
                      Goto(s, pc) /\ GoneOK([tx[s] EXCEPT !.pc = pc])
<1>0. tx[s] \in TxState
  BY DEF IInv, TypeOK
<1>1. ASSUME NEW pc \in {"insertCheckIn"}, tx[s].kind = "create"
      PROVE  pc \in Statements /\ GoneOK([tx[s] EXCEPT !.pc = pc])
  BY <1>0, <1>1 DEF GoneOK, TxState, Statements
<1>2. ASSUME NEW pc \in {"decrement", "countRemaining", "findLingering", "commit"},
             tx[s].kind = "remove"
      PROVE  pc \in Statements /\ GoneOK([tx[s] EXCEPT !.pc = pc])
  BY <1>0, <1>2 DEF GoneOK, TxState, Statements
<1>3. ASSUME tx[s].kind = "memory"
      PROVE  "commit" \in Statements /\ GoneOK([tx[s] EXCEPT !.pc = "commit"])
  BY <1>0, <1>3 DEF GoneOK, TxState, Statements
<1>4. CASE CreateFindLast(s)
  <2>1. tx[s].kind = "create"
    BY <1>4 DEF CreateFindLast, GoneOK
  <2>. QED
    BY <1>1, <1>4, <2>1 DEF CreateFindLast
<1>5. CASE CreateInsert(s)
  <2>1. tx[s].user \in accounts
    BY <1>5 DEF CreateInsert
  <2>. QED
    BY <2>1 DEF GoneOK
<1>11. CASE MemoryReload(s)
  <2>1. tx[s].pc = "reloadCheckIn" /\ checkIns[tx[s].ci] # None
    BY <1>11 DEF MemoryReload
  <2>. QED
    BY <2>1 DEF GoneOK
<1>6. CASE RemoveSoftDelete(s)
  <2>1. tx[s].kind = "remove" /\ checkIns[tx[s].ci] = None
    BY <1>6 DEF RemoveSoftDelete, GoneOK
  <2>. QED
    BY <1>2, <1>6, <2>1 DEF RemoveSoftDelete
<1>7. CASE RemoveDecrement(s)
  <2>1. tx[s].kind = "remove" /\ tx[s].user \notin accounts
    BY <1>7 DEF RemoveDecrement, GoneOK
  <2>. QED
    BY <1>2, <1>7, <2>1 DEF RemoveDecrement
<1>8. CASE RemoveCountRemaining(s)
  <2>1. tx[s].kind = "remove"
    BY <1>8 DEF RemoveCountRemaining, GoneOK
  <2>. QED
    BY <1>2, <1>8, <2>1 DEF RemoveCountRemaining
<1>9. CASE RemoveFindVote(s)
  <2>2. tx[s].pc = "findLingering"
    BY <1>9 DEF RemoveFindVote
  <2>1. tx[s].kind = "remove" /\ VoteOf(tx[s].user, tx[s].venue) = {}
    BY <2>2, GoneVoteless DEF GoneOK
  <2>. QED
    BY <1>2, <1>9, <2>1 DEF RemoveFindVote
<1>10. CASE MemorySave(s)
  <2>1. tx[s].kind = "memory" /\ checkIns[tx[s].ci] = None
    BY <1>10 DEF MemorySave, GoneOK
  <2>. QED
    BY <1>3, <1>10, <2>1 DEF MemorySave
<1>. QED
  BY <1>4, <1>5, <1>6, <1>7, <1>8, <1>9, <1>10, <1>11

\* Its commit writes no row and moves no counter.
LEMMA GoneCommits ==
    ASSUME IInv, NEW s \in Sessions, GoneOK(tx[s]), Commit(s)
    PROVE  UNCHANGED <<rows, today>> /\ End(s)
<1> DEFINE t == tx[s]
<1>1. /\ t.kind \in {"remove", "memory"} /\ t.writes \in {{}, {"undelete"}}
      /\ t.ci \in CheckInIds /\ checkIns[t.ci] = None
      /\ t.user \in Users /\ t.vote = None /\ t.old = 0
  BY DEF Commit, GoneOK
<1>2. UpvotesDelta(t) = 0 /\ CheckInDelta(t) = 0 /\ CheckInAfter(t) = None
  <2>1. UpvotesDelta(t) = 0
    BY <1>1 DEF UpvotesDelta
  <2>2. "insertCheckIn" \notin t.writes /\ "softDelete" \notin t.writes
    BY <1>1
  <2>3. CheckInDelta(t) = 0
    BY <2>2 DEF CheckInDelta
  <2>4. CheckInAfter(t) = None
    BY <1>1, <2>2 DEF CheckInAfter
  <2>. QED
    BY <2>1, <2>3, <2>4
<1>3. checkIns' = checkIns /\ votes' = votes /\ journey' = journey
  BY <1>1, <1>2 DEF Commit, IInv, TypeOK
<1>4. upvotes' = upvotes
  BY <1>2 DEF Commit, IInv, TypeOK
<1>5. checkInCount' = checkInCount
  BY <1>1, <1>2 DEF Commit, IInv, TypeOK
<1>. QED
  BY <1>3, <1>4, <1>5 DEF Commit, rows

LEMMA GoneGoes ==
    ASSUME IInv, NEW s \in Sessions, GoneOK(tx[s]), InFlight(s),
           UNCHANGED <<rows, today, holds>>,
           NEW pc \in Statements, Goto(s, pc), GoneOK([tx[s] EXCEPT !.pc = pc])
    PROVE  IInv'
<1> DEFINE next == [tx[s] EXCEPT !.pc = pc]
<1>1. /\ tx[s] \in TxState /\ next \in TxState /\ next.user = tx[s].user
      /\ next.kind = tx[s].kind /\ next.ci = tx[s].ci /\ next.vote = tx[s].vote
  BY DEF IInv, TypeOK, TxState
<1>2. Step(s, next) /\ tx'[s] = next
  BY DEF Goto, Step, IInv, TypeOK
<1> HIDE DEF next
<1>3. GoneOK(next)
  BY DEF next
<1>4. SessionOK(s)'
  BY <1>2, <1>3 DEF SessionOK, GoneOK, rows
<1>. QED
  BY <1>1, <1>2, <1>3, <1>4, SessionStep

LEMMA GoneStepOK ==
    ASSUME IInv, NEW s \in Sessions, GoneOK(tx[s]), InFlight(s),
           \/ CreateFindLast(s) \/ CreateInsert(s)
           \/ RemoveSoftDelete(s) \/ RemoveDecrement(s)
           \/ RemoveCountRemaining(s) \/ RemoveFindVote(s)
           \/ MemoryReload(s) \/ MemorySave(s)
    PROVE  IInv'
<1>1. UNCHANGED <<rows, today>>
  BY GoneMoves
<1>2. CASE End(s)
  BY <1>1, <1>2, Ends
<1>3. CASE /\ UNCHANGED holds
           /\ \E pc \in Statements : Goto(s, pc) /\ GoneOK([tx[s] EXCEPT !.pc = pc])
  BY <1>1, <1>3, GoneGoes
<1>. QED
  BY <1>2, <1>3, GoneMoves

\* Its next statement is one of those.
LEMMA GoneStatement ==
    ASSUME NEW s, GoneOK(tx[s])
    PROVE  tx[s].pc \in {"findLast", "insertCheckIn", "softDelete", "decrement",
                         "countRemaining", "findLingering", "reloadCheckIn",
                         "saveCheckIn", "commit"}
BY DEF GoneOK

-----------------------------------------------------------------------------
(* Steps that leave the votes, the check-ins and the sessions alone.       *)

LEMMA Untouched ==
    ASSUME IInv, TypeOK',
           UNCHANGED <<accounts, checkIns, votes, upvotes, orphaned, tx, holds>>
    PROVE  IInv'
<1>1. LocksExclusive' /\ Discipline' /\ AccountsStay'
  BY DEF IInv, LocksExclusive, Discipline, AccountsStay, Present, GoneOK, InFlight
<1>2. VoteKeys' /\ IdsDistinct' /\ VoteNeedsCheckIn' /\ UpvotesExact'
  BY DEF IInv, VoteKeys, IdsDistinct, VoteNeedsCheckIn, UpvotesExact, UpvotesAt,
         VisitsOf, Live
<1>3. SessionsOK'
  BY DEF IInv, SessionsOK, SessionOK, GoneOK, CastOK, CreateOK, RemoveOK, MemoryOK,
         VoteAsRead, CheckInAsRead, VisitsOf, VoteOf, Live
<1>. QED
  BY <1>1, <1>2, <1>3 DEF IInv

LEMMA LeaveJourneyOK ==
    ASSUME IInv, NEW s \in Sessions, NEW u \in Users, NEW v \in Venues,
           LeaveJourney(s, u, v)
    PROVE  IInv'
<1>1. TypeOK'
  BY DEF IInv, TypeOK, LeaveJourney
<1>. QED
  BY <1>1, Untouched DEF LeaveJourney

LEMMA MidnightOK ==
    ASSUME IInv, Midnight
    PROVE  IInv'
<1>1. today' \in Days
  BY ConstantsAssumption DEF IInv, TypeOK, Midnight, Days
<1>2. TypeOK'
  BY <1>1 DEF IInv, TypeOK, Midnight, rows
<1>. QED
  BY <1>2, Untouched DEF Midnight, rows

-----------------------------------------------------------------------------
(* Commit.                                                                 *)

\* What a row adds to the count of a venue's +1 votes.
Counts(row, v) == IF row # None /\ row.venue = v /\ row.value = 1 THEN 1 ELSE 0

\* One vote changes: the number of +1 votes changes by what it counts for.
LEMMA VotesCounted ==
    ASSUME IInv, NEW i \in VoteIds, NEW row, votes' = [votes EXCEPT ![i] = row],
           NEW v
    PROVE  /\ Cardinality(UpvotesAt(v)) \in Nat
           /\ Cardinality(UpvotesAt(v)')
                = Cardinality(UpvotesAt(v)) + Counts(row, v) - Counts(votes[i], v)
<1>1. IsFiniteSet(UpvotesAt(v)) /\ IsFiniteSet(UpvotesAt(v)')
  BY FS_Subset, ConstantsAssumption DEF UpvotesAt
<1>2. Cardinality(UpvotesAt(v)) \in Nat /\ Cardinality(UpvotesAt(v)') \in Nat
  BY <1>1, FS_CardinalityType
<1>3. votes'[i] = row /\ \A j \in VoteIds \ {i} : votes'[j] = votes[j]
  BY DEF IInv, TypeOK
<1>4. CASE Counts(row, v) = Counts(votes[i], v)
  <2>1. UpvotesAt(v)' = UpvotesAt(v)
    BY <1>3, <1>4 DEF UpvotesAt, Counts
  <2>. QED
    BY <1>2, <1>4, <2>1 DEF Counts
<1>5. CASE Counts(row, v) = 1 /\ Counts(votes[i], v) = 0
  <2>1. UpvotesAt(v)' = UpvotesAt(v) \cup {i} /\ i \notin UpvotesAt(v)
    BY <1>3, <1>5 DEF UpvotesAt, Counts
  <2>2. Cardinality(UpvotesAt(v)') = Cardinality(UpvotesAt(v)) + 1
    BY <1>1, <2>1, FS_AddElement
  <2>. QED
    BY <1>2, <1>5, <2>2
<1>6. CASE Counts(row, v) = 0 /\ Counts(votes[i], v) = 1
  <2>1. UpvotesAt(v) = UpvotesAt(v)' \cup {i} /\ i \notin UpvotesAt(v)'
    BY <1>3, <1>6 DEF UpvotesAt, Counts
  <2>2. Cardinality(UpvotesAt(v)) = Cardinality(UpvotesAt(v)') + 1
    BY <1>1, <2>1, FS_AddElement
  <2>. QED
    BY <1>2, <1>6, <2>2
<1>. QED
  BY <1>2, <1>4, <1>5, <1>6 DEF Counts

\* What every commit does: its session ends, the others go on as they were.
LEMMA CommitFrame ==
    ASSUME IInv, NEW s \in Sessions, Commit(s)
    PROVE  /\ tx'[s] = Idle
           /\ \A r \in Sessions \ {s} : tx'[r] = tx[r] /\ holds'[r] = holds[r]
           /\ tx' \in [Sessions -> TxState] /\ holds' \in [Sessions -> SUBSET Locks]
           /\ LocksExclusive' /\ Discipline'
           /\ tx[s] \in TxState /\ InFlight(s)
           /\ UNCHANGED <<accounts, orphaned, today>>
<1>1. /\ tx' = [tx EXCEPT ![s] = Idle] /\ tx'[s] = Idle /\ holds'[s] = {}
      /\ \A r \in Sessions \ {s} : tx'[r] = tx[r] /\ holds'[r] = holds[r]
      /\ holds' \in [Sessions -> SUBSET Locks]
      /\ UNCHANGED <<accounts, orphaned, today>>
  BY DEF IInv, TypeOK, Commit, End, Step
<1>2. tx' \in [Sessions -> TxState]
  BY <1>1, IdleType DEF IInv, TypeOK
<1>3. LocksExclusive'
  BY <1>1 DEF IInv, LocksExclusive
<1>4. Discipline'
  BY <1>1 DEF IInv, Discipline, InFlight, Idle
<1>5. tx[s] \in TxState /\ InFlight(s)
  BY DEF IInv, TypeOK, Commit, InFlight
<1>. QED
  BY <1>1, <1>2, <1>3, <1>4, <1>5

\* A commit that puts in one check-in, or keeps it where it was, and hides none.
LEMMA CommitCheckIn ==
    ASSUME IInv, NEW s \in Sessions, Commit(s),
           votes' = votes, \A v \in Venues : upvotes'[v] = upvotes[v],
           TypeOK',
           NEW row \in CheckInRow, NEW c \in CheckInIds, tx[s].ci = c,
           checkIns' = [checkIns EXCEPT ![c] = row],
           \/ checkIns[c] = None /\ tx[s].kind = "create"
           \/ /\ checkIns[c] # None
              /\ row.user = checkIns[c].user /\ row.venue = checkIns[c].venue
              /\ ~checkIns[c].deleted => ~row.deleted
    PROVE  IInv'
<1>0. /\ tx'[s] = Idle
      /\ \A r \in Sessions \ {s} : tx'[r] = tx[r] /\ holds'[r] = holds[r]
      /\ LocksExclusive' /\ Discipline' /\ orphaned' = orphaned
      /\ accounts' = accounts
  BY CommitFrame
<1>1. checkIns'[c] = row /\ row # None
      /\ \A d \in CheckInIds \ {c} : checkIns'[d] = checkIns[d]
  BY RowAssumption DEF IInv, TypeOK
<1>2. \A u, v : /\ VisitsOf(u, v) \subseteq VisitsOf(u, v)'
                /\ VoteOf(u, v)' = VoteOf(u, v)
  BY <1>1 DEF VisitsOf, VoteOf, Live
<1>3. VoteKeys' /\ UpvotesExact'
  BY <1>0 DEF IInv, VoteKeys, UpvotesExact, UpvotesAt
<1>4. VoteNeedsCheckIn'
  BY <1>2 DEF IInv, VoteNeedsCheckIn
<1>5. IdsDistinct'
  BY <1>0, <1>1 DEF IInv, IdsDistinct, Idle
<1>7. \A r \in Sessions \ {s} : GoneOK(tx[r]) => GoneOK(tx[r])'
  <2> SUFFICES ASSUME NEW r \in Sessions \ {s}, GoneOK(tx[r]) PROVE GoneOK(tx[r])'
    OBVIOUS
  <2>1. tx[r].ci \in CheckInIds /\ checkIns[tx[r].ci] = None => checkIns'[tx[r].ci] = None
    <3>1. tx[r].ci = c /\ checkIns[c] = None => tx[s].kind # "create"
      BY ConstantsAssumption DEF IInv, IdsDistinct
    <3>. QED
      BY <1>1, <3>1
  <2>. QED
    BY <1>0, <2>1 DEF GoneOK
<1>8. AccountsStay'
  BY <1>0, <1>7 DEF IInv, AccountsStay, Present, InFlight, Idle
<1>6. SessionsOK'
  <2> SUFFICES ASSUME NEW r \in Sessions, r # s PROVE SessionOK(r)'
    BY <1>0 DEF SessionsOK, SessionOK
  <2>1. SessionOK(r) /\ tx'[r] = tx[r] /\ holds'[r] = holds[r]
    BY <1>0 DEF IInv, SessionsOK
  <2>2. tx[r].ci = c /\ tx[r].kind = "create" => checkIns[c] # None
    BY ConstantsAssumption DEF IInv, IdsDistinct
  <2>3. CheckInAsRead(tx[r]) => CheckInAsRead(tx[r])'
    BY <1>1, <2>1 DEF CheckInAsRead
  <2>4. CASE tx[r] = Idle
    BY <2>1, <2>4 DEF SessionOK
  <2>5. CASE tx[r].kind = "cast" /\ CastOK(tx[r])
    BY <1>2, <2>1, <2>5 DEF SessionOK, CastOK, VoteAsRead
  <2>6. CASE tx[r].kind = "create" /\ CreateOK(tx[r], holds[r])
    BY <1>1, <2>1, <2>2, <2>6 DEF SessionOK, CreateOK
  <2>7. CASE tx[r].kind = "remove" /\ RemoveOK(tx[r], holds[r])
    <3>1. VoteAsRead(tx[r]) => VoteAsRead(tx[r])'
      BY <2>1 DEF VoteAsRead
    <3>2. VisitsOf(tx[r].user, tx[r].venue) \ {tx[r].ci} # {}
            => (VisitsOf(tx[r].user, tx[r].venue) \ {tx[r].ci} # {})'
      BY <1>2, <2>1
    <3>. QED
      BY <1>2, <2>1, <2>3, <2>7, <3>1, <3>2 DEF SessionOK, RemoveOK
  <2>8. CASE tx[r].kind = "memory" /\ MemoryOK(tx[r])
    BY <2>1, <2>3, <2>8 DEF SessionOK, MemoryOK
  <2>9. CASE GoneOK(tx[r])
    BY <1>7, <2>1, <2>9 DEF SessionOK
  <2>. QED
    BY <2>1, <2>4, <2>5, <2>6, <2>7, <2>8, <2>9 DEF SessionOK
<1>. QED
  BY <1>0, <1>3, <1>4, <1>5, <1>6, <1>8 DEF IInv

\* No commit, whatever its kind, takes a counter or the journey out of its type.
LEMMA CommitTypes ==
    ASSUME IInv, NEW s \in Sessions, Commit(s),
           checkIns' \in [CheckInIds -> CheckInRow \cup {None}],
           votes' \in [VoteIds -> VoteRow \cup {None}],
           "addJourney" \in tx[s].writes => tx[s].venue \in Venues,
           tx[s].user \in Users
    PROVE  TypeOK'
<1> DEFINE t == tx[s]
<1>1. t \in TxState /\ t.old \in Int /\ t.want \in Int
  BY CommitFrame DEF TxState, VoteValues
<1>2. UpvotesDelta(t) \in Int /\ CheckInDelta(t) \in Int
  BY DEF UpvotesDelta, CheckInDelta, VoteDelta
<1>3. upvotes' \in [Venues -> Int] /\ checkInCount' \in [Users -> Int]
  <2>1. \/ upvotes' = upvotes
        \/ upvotes' = [upvotes EXCEPT ![t.venue] = @ + UpvotesDelta(t)]
    BY DEF Commit
  <2>2. checkInCount' = [checkInCount EXCEPT ![t.user] = @ + CheckInDelta(t)]
    BY DEF Commit
  <2>3. upvotes \in [Venues -> Int] /\ checkInCount \in [Users -> Int]
    BY DEF IInv, TypeOK
  <2>. QED
    BY <1>2, <2>1, <2>2, <2>3
<1>4. journey' \in SUBSET (Users \X Venues)
  BY DEF IInv, TypeOK, Commit
<1>. QED
  BY <1>3, <1>4, CommitFrame DEF IInv, TypeOK

LEMMA CommitCreateOK ==
    ASSUME IInv, NEW s \in Sessions, Commit(s),
           tx[s].kind = "create", CreateOK(tx[s], holds[s])
    PROVE  IInv'
<1> DEFINE t == tx[s]
           row == [user |-> t.user, venue |-> t.venue, day |-> t.day, deleted |-> FALSE]
<1>1. /\ t.user \in Users /\ t.venue \in Places /\ t.vote = None /\ t.old = 0
      /\ t.ci \in CheckInIds /\ checkIns[t.ci] = None
      /\ "insertCheckIn" \in t.writes
      /\ "addJourney" \in t.writes => t.venue \in Venues
  BY DEF Commit, CreateOK
<1>2. t \in TxState
  BY CommitFrame
<1>3. row \in CheckInRow
  BY <1>1, <1>2 DEF TxState, CheckInRow
<1>4. checkIns' = [checkIns EXCEPT ![t.ci] = row] /\ votes' = votes
  BY <1>1, ConstantsAssumption DEF Commit, CheckInAfter
<1>5. \A v \in Venues : upvotes'[v] = upvotes[v]
  <2>1. UpvotesDelta(t) = 0
    BY DEF UpvotesDelta
  <2>. QED
    BY <2>1 DEF Commit, IInv, TypeOK
<1>6. checkIns' \in [CheckInIds -> CheckInRow \cup {None}]
  BY <1>3, <1>4 DEF IInv, TypeOK
<1>7. TypeOK'
  BY <1>1, <1>4, <1>6, CommitTypes DEF IInv, TypeOK
<1>. QED
  BY <1>1, <1>3, <1>4, <1>5, <1>7, CommitCheckIn

LEMMA CommitMemoryOK ==
    ASSUME IInv, NEW s \in Sessions, Commit(s),
           tx[s].kind = "memory", MemoryOK(tx[s])
    PROVE  IInv'
<1> DEFINE t == tx[s]
           row == CheckInAfter(t)
<1>1. /\ t.user \in Users /\ t.vote = None /\ t.writes \in {{}, {"undelete"}}
      /\ t.ci \in CheckInIds /\ checkIns[t.ci] # None /\ checkIns[t.ci] \in CheckInRow
  BY DEF MemoryOK, CheckInAsRead, IInv, TypeOK
<1>2. /\ row \in CheckInRow
      /\ row.user = checkIns[t.ci].user /\ row.venue = checkIns[t.ci].venue
      /\ ~checkIns[t.ci].deleted => ~row.deleted
  <2>1. CASE t.writes = {"undelete"}
    <3>1. row = [checkIns[t.ci] EXCEPT !.deleted = FALSE]
      BY <1>1, <2>1 DEF CheckInAfter
    <3>. QED
      BY <1>1, <3>1 DEF CheckInRow
  <2>2. CASE t.writes = {}
    <3>1. row = checkIns[t.ci]
      BY <1>1, <2>2 DEF CheckInAfter
    <3>. QED
      BY <1>1, <3>1
  <2>. QED
    BY <1>1, <2>1, <2>2
<1> HIDE DEF row
<1>3. checkIns' = [checkIns EXCEPT ![t.ci] = row] /\ votes' = votes
  BY <1>1, ConstantsAssumption DEF Commit, row
<1>4. \A v \in Venues : upvotes'[v] = upvotes[v]
  <2>1. UpvotesDelta(t) = 0
    BY DEF UpvotesDelta
  <2>. QED
    BY <2>1 DEF Commit, IInv, TypeOK
<1>5. checkIns' \in [CheckInIds -> CheckInRow \cup {None}]
  BY <1>2, <1>3 DEF IInv, TypeOK
<1>6. TypeOK'
  BY <1>1, <1>3, <1>5, CommitTypes DEF IInv, TypeOK
<1>. QED
  BY <1>1, <1>2, <1>3, <1>4, <1>6, CommitCheckIn

\* Who knows a vote has read it, or has inserted it.
LEMMA VoteHolder ==
    ASSUME IInv, NEW r \in Sessions, tx[r].vote # None
    PROVE  /\ InFlight(r) /\ tx[r].vote \in VoteIds
           /\ \/ /\ tx[r].kind = "cast"
                 /\ VoteAsRead(tx[r]) \/ votes[tx[r].vote] = None
              \/ /\ tx[r].kind = "remove" /\ VoteAsRead(tx[r])
                 /\ <<"user", tx[r].user>> \in holds[r]
<1>1. SessionOK(r) /\ tx[r] \in TxState
  BY DEF IInv, SessionsOK, TypeOK
<1>2. CASE tx[r] = Idle
  BY <1>2 DEF Idle
<1>3. CASE tx[r].kind = "cast" /\ CastOK(tx[r])
  <2>1. VoteAsRead(tx[r]) \/ (tx[r].vote \in VoteIds /\ votes[tx[r].vote] = None)
    BY <1>3 DEF CastOK
  <2>2. tx[r].pc # "idle"
    BY <1>3 DEF CastOK
  <2>. QED
    BY <1>3, <2>1, <2>2 DEF VoteAsRead, InFlight
<1>4. CASE tx[r].kind = "create" /\ CreateOK(tx[r], holds[r])
  BY <1>4 DEF CreateOK
<1>5. CASE tx[r].kind = "remove" /\ RemoveOK(tx[r], holds[r])
  <2>1. tx[r].pc \in {"uncount", "deleteVote", "commit"}
    BY <1>5 DEF RemoveOK
  <2>2. VoteAsRead(tx[r]) /\ <<"user", tx[r].user>> \in holds[r]
    BY <1>5, <2>1 DEF RemoveOK
  <2>. QED
    BY <1>5, <2>1, <2>2 DEF VoteAsRead, InFlight
<1>6. CASE tx[r].kind = "memory" /\ MemoryOK(tx[r])
  BY <1>6 DEF MemoryOK
<1>7. CASE GoneOK(tx[r])
  BY <1>7 DEF GoneOK
<1>. QED
  BY <1>1, <1>2, <1>3, <1>4, <1>5, <1>6, <1>7 DEF SessionOK

\* A user whose cast is in flight has no other cast and no removal in flight.
LEMMA CastAlone ==
    ASSUME IInv, NoCastPairs, NEW s \in Sessions, NEW r \in Sessions, r # s,
           tx[s].kind = "cast", InFlight(s), InFlight(r),
           tx[r].kind \in {"cast", "remove"}
    PROVE  tx[r].user # tx[s].user
<1> SUFFICES ASSUME tx[r].user = tx[s].user PROVE FALSE
  OBVIOUS
<1>1. {tx[s].kind, tx[r].kind} \in Overlap
  BY DEF IInv, Discipline
<1>2. {tx[s].kind, tx[r].kind} \in {{"cast"}, {"cast", "remove"}}
  OBVIOUS
<1>. QED
  BY <1>1, <1>2 DEF NoCastPairs

\* What a cast does to its vote, and that the delta it applies says so.
LEMMA CastEffect ==
    ASSUME IInv, NEW s \in Sessions, Commit(s), tx[s].kind = "cast", CastOK(tx[s])
    PROVE  LET t == tx[s]
               row == VoteAfter(t)
           IN  /\ t.user \in Users /\ t.venue \in Venues /\ t.vote \in VoteIds
               /\ VisitsOf(t.user, t.venue) # {}
               /\ row \in VoteRow \cup {None}
               /\ row # None => row.user = t.user /\ row.venue = t.venue
               /\ VoteAsRead(t) \/ (votes[t.vote] = None /\ VoteOf(t.user, t.venue) = {})
               /\ \A v : Counts(row, v) - Counts(votes[t.vote], v)
                            = IF v = t.venue THEN UpvotesDelta(t) ELSE 0
               /\ checkIns' = checkIns
               /\ votes' = [votes EXCEPT ![t.vote] = row]
               /\ upvotes' = [upvotes EXCEPT ![t.venue] = @ + UpvotesDelta(t)]
               /\ "addJourney" \notin t.writes
<1> DEFINE t == tx[s]
           row == VoteAfter(t)
<1>1. /\ t.user \in Users /\ t.venue \in Venues /\ t.want \in VoteValues
      /\ t.ci = None /\ VisitsOf(t.user, t.venue) # {} /\ t \in TxState
  BY CommitFrame DEF CastOK
<1>2. \/ /\ t.writes = {"insertVote"} /\ t.old = 0 /\ t.vote \in VoteIds
         /\ votes[t.vote] = None /\ VoteOf(t.user, t.venue) = {}
      \/ t.writes = {"deleteVote"} /\ VoteAsRead(t) /\ t.old = t.want
      \/ t.writes = {"setVote"} /\ VoteAsRead(t) /\ t.old # t.want
  BY DEF Commit, CastOK
<1>3. t.vote \in VoteIds /\ t.vote # None /\ t.venue # Custom
  BY <1>1, <1>2, ConstantsAssumption DEF VoteAsRead
<1>4. UpvotesDelta(t) = VoteDelta(t.old, t.want)
  BY DEF UpvotesDelta
<1>5. VoteAsRead(t) => t.old \in VoteValues
  <2>1. ASSUME VoteAsRead(t) PROVE t.old \in VoteValues
    <3>1. votes[t.vote] \in VoteRow /\ votes[t.vote].value = t.old
      BY <2>1 DEF VoteAsRead, IInv, TypeOK
    <3>. QED
      BY <3>1 DEF VoteRow
  <2>. QED
    BY <2>1
<1>6. /\ row \in VoteRow \cup {None}
      /\ row # None => row.user = t.user /\ row.venue = t.venue
      /\ \A v : Counts(row, v) - Counts(votes[t.vote], v)
                  = IF v = t.venue THEN UpvotesDelta(t) ELSE 0
  <2>1. CASE t.writes = {"insertVote"} /\ t.old = 0 /\ votes[t.vote] = None
    <3>1. row = [user |-> t.user, venue |-> t.venue, value |-> t.want]
      BY <2>1 DEF VoteAfter
    <3>2. row \in VoteRow /\ row # None
      BY <1>1, <3>1, RowAssumption DEF VoteRow
    <3>3. VoteDelta(t.old, t.want) = IF t.want = 1 THEN 1 ELSE 0
      BY <2>1 DEF VoteDelta
    <3>. QED
      BY <1>4, <2>1, <3>1, <3>2, <3>3 DEF Counts
  <2>2. CASE t.writes = {"deleteVote"} /\ VoteAsRead(t) /\ t.old = t.want
    <3>1. row = None
      BY <2>2 DEF VoteAfter
    <3>2. VoteDelta(t.old, t.want) = IF t.old = 1 THEN -1 ELSE 0
      BY <1>5, <2>2 DEF VoteDelta, VoteValues
    <3>. QED
      BY <1>4, <2>2, <3>1, <3>2 DEF Counts, VoteAsRead
  <2>3. CASE t.writes = {"setVote"} /\ VoteAsRead(t) /\ t.old # t.want
    <3>1. row = [user |-> t.user, venue |-> t.venue, value |-> t.want]
      BY <2>3 DEF VoteAfter, VoteAsRead
    <3>2. row \in VoteRow /\ row # None
      BY <1>1, <3>1, RowAssumption DEF VoteRow
    <3>3. VoteDelta(t.old, t.want) = (IF t.want = 1 THEN 1 ELSE -1)
          /\ (t.want = 1 <=> t.old # 1)
      BY <1>1, <1>5, <2>3 DEF VoteDelta, VoteValues
    <3>. QED
      BY <1>4, <2>3, <3>1, <3>2, <3>3 DEF Counts, VoteAsRead
  <2>. QED
    BY <1>2, <2>1, <2>2, <2>3
<1>7. /\ checkIns' = checkIns
      /\ votes' = [votes EXCEPT ![t.vote] = row]
      /\ upvotes' = [upvotes EXCEPT ![t.venue] = @ + UpvotesDelta(t)]
  BY <1>1, <1>3 DEF Commit
<1>. QED
  BY <1>1, <1>2, <1>3, <1>6, <1>7

\* A venue's count moves by what its vote counts for: the count stays exact.
LEMMA CountMoves ==
    ASSUME IInv, NEW i \in VoteIds, NEW row, NEW place \in Venues, NEW delta \in Int,
           votes' = [votes EXCEPT ![i] = row],
           \A v : Counts(row, v) - Counts(votes[i], v)
                    = IF v = place THEN delta ELSE 0,
           upvotes' = [upvotes EXCEPT ![place] = @ + delta],
           orphaned' = orphaned
    PROVE  UpvotesExact'
<1> SUFFICES ASSUME NEW v \in Venues
             PROVE  upvotes'[v] = Cardinality(UpvotesAt(v)') + orphaned[v]
  BY DEF UpvotesExact
<1>1. /\ Cardinality(UpvotesAt(v)) \in Nat
      /\ Cardinality(UpvotesAt(v)')
           = Cardinality(UpvotesAt(v)) + Counts(row, v) - Counts(votes[i], v)
  BY VotesCounted
<1>2. /\ upvotes[v] = Cardinality(UpvotesAt(v)) + orphaned[v]
      /\ upvotes[v] \in Int /\ orphaned[v] \in Nat
  BY DEF IInv, UpvotesExact, TypeOK
<1>3. upvotes'[v] = upvotes[v] + (IF v = place THEN delta ELSE 0)
  BY <1>2 DEF IInv, TypeOK
<1>4. Counts(row, v) \in Int /\ Counts(votes[i], v) \in Int
  BY DEF Counts
<1>5. Counts(row, v) - Counts(votes[i], v) = IF v = place THEN delta ELSE 0
  OBVIOUS
<1>. QED
  BY <1>1, <1>2, <1>3, <1>4, <1>5

LEMMA CommitCastOK ==
    ASSUME IInv, NoCastPairs, NEW s \in Sessions, Commit(s), tx[s].user \in accounts,
           tx[s].kind = "cast", CastOK(tx[s])
    PROVE  IInv'
<1> DEFINE t == tx[s]
           row == VoteAfter(t)
<1>0. /\ tx'[s] = Idle /\ InFlight(s)
      /\ \A r \in Sessions \ {s} : tx'[r] = tx[r] /\ holds'[r] = holds[r]
      /\ LocksExclusive' /\ Discipline' /\ orphaned' = orphaned
      /\ accounts' = accounts
      /\ t \in TxState
  BY CommitFrame
<1>1. /\ t.user \in Users /\ t.venue \in Venues /\ t.vote \in VoteIds
      /\ VisitsOf(t.user, t.venue) # {}
      /\ row \in VoteRow \cup {None}
      /\ row # None => row.user = t.user /\ row.venue = t.venue
      /\ VoteAsRead(t) \/ (votes[t.vote] = None /\ VoteOf(t.user, t.venue) = {})
      /\ \A v : Counts(row, v) - Counts(votes[t.vote], v)
                   = IF v = t.venue THEN UpvotesDelta(t) ELSE 0
      /\ checkIns' = checkIns
      /\ votes' = [votes EXCEPT ![t.vote] = row]
      /\ upvotes' = [upvotes EXCEPT ![t.venue] = @ + UpvotesDelta(t)]
      /\ "addJourney" \notin t.writes
  BY CastEffect
<1> HIDE DEF row
<1>2. votes'[t.vote] = row /\ \A i \in VoteIds \ {t.vote} : votes'[i] = votes[i]
  BY <1>1 DEF IInv, TypeOK
<1>3. TypeOK'
  <2>1. checkIns' \in [CheckInIds -> CheckInRow \cup {None}]
        /\ votes' \in [VoteIds -> VoteRow \cup {None}]
    BY <1>1 DEF IInv, TypeOK
  <2>. QED
    BY <1>1, <2>1, CommitTypes
<1>4. \A u, v : VisitsOf(u, v)' = VisitsOf(u, v)
  BY <1>1 DEF VisitsOf, Live
<1>5. \A u, v : u # t.user => VoteOf(u, v)' = VoteOf(u, v)
  BY <1>1, <1>2 DEF VoteOf, VoteAsRead
<1>6. UpvotesExact'
  <2>1. UpvotesDelta(t) \in Int
    BY <1>0 DEF UpvotesDelta, VoteDelta
  <2>. QED
    BY <1>0, <1>1, <2>1, CountMoves
<1>7. VoteKeys'
  BY <1>0, <1>1, <1>2 DEF IInv, VoteKeys, VoteAsRead, VoteOf
<1>8. VoteNeedsCheckIn'
  BY <1>1, <1>2, <1>4 DEF IInv, VoteNeedsCheckIn
<1>9. \A r \in Sessions \ {s} :
        InFlight(r) /\ tx[r].kind \in {"cast", "remove"} => tx[r].user # t.user
  BY <1>0, CastAlone
<1>10. \A r \in Sessions \ {s} : VoteAsRead(tx[r]) /\ tx[r].user # t.user
         => tx[r].vote # t.vote /\ VoteAsRead(tx[r])'
  BY <1>0, <1>1, <1>2 DEF VoteAsRead
<1>11. IdsDistinct'
  <2> SUFFICES ASSUME NEW r \in Sessions, NEW q \in Sessions, r # q, r # s, q # s,
                      tx[r].vote # None, tx[r].vote = tx[q].vote
               PROVE  votes'[tx[r].vote] # None
    BY <1>0, <1>1 DEF IInv, IdsDistinct, Idle
  <2>1. votes[tx[r].vote] # None
    BY DEF IInv, IdsDistinct
  <2>2. VoteAsRead(tx[r]) /\ tx[r].user # t.user
    BY <1>9, <2>1, VoteHolder
  <2>. QED
    BY <1>2, <1>10, <2>1, <2>2 DEF VoteAsRead
<1>13. AccountsStay'
  <2>1. \A r \in Sessions \ {s} : GoneOK(tx[r]) => GoneOK(tx[r])'
    BY <1>0, <1>1 DEF GoneOK
  <2>. QED
    BY <1>0, <2>1 DEF IInv, AccountsStay, Present, InFlight, Idle
<1>12. SessionsOK'
  <2> SUFFICES ASSUME NEW r \in Sessions, r # s PROVE SessionOK(r)'
    BY <1>0 DEF SessionsOK, SessionOK
  <2>1. SessionOK(r) /\ tx'[r] = tx[r] /\ holds'[r] = holds[r]
    BY <1>0 DEF IInv, SessionsOK
  <2>2. CheckInAsRead(tx[r]) => CheckInAsRead(tx[r])'
    BY <1>1, <2>1 DEF CheckInAsRead
  <2>3. CASE tx[r] = Idle
    BY <2>1, <2>3 DEF SessionOK
  <2>4. CASE tx[r].kind = "cast" /\ CastOK(tx[r])
    <3>1. tx[r].user # t.user
      BY <1>9, <2>4 DEF CastOK, InFlight
    <3>2. VoteAsRead(tx[r]) => VoteAsRead(tx[r])'
      BY <1>10, <3>1
    <3>3. tx[r].vote \in VoteIds /\ votes[tx[r].vote] = None => votes'[tx[r].vote] = None
      <4>1. tx[r].vote \in VoteIds /\ tx[r].vote = t.vote => votes[t.vote] # None
        BY ConstantsAssumption DEF IInv, IdsDistinct
      <4>. QED
        BY <1>2, <4>1
    <3>. QED
      BY <1>4, <1>5, <2>1, <2>4, <3>1, <3>2, <3>3 DEF SessionOK, CastOK
  <2>5. CASE tx[r].kind = "create" /\ CreateOK(tx[r], holds[r])
    BY <1>1, <2>1, <2>5 DEF SessionOK, CreateOK
  <2>6. CASE tx[r].kind = "remove" /\ RemoveOK(tx[r], holds[r])
    <3>1. tx[r].user # t.user
      BY <1>9, <2>6 DEF RemoveOK, InFlight
    <3>2. VoteAsRead(tx[r]) => VoteAsRead(tx[r])'
      BY <1>10, <3>1
    <3>. QED
      BY <1>4, <1>5, <2>1, <2>2, <2>6, <3>1, <3>2 DEF SessionOK, RemoveOK
  <2>7. CASE tx[r].kind = "memory" /\ MemoryOK(tx[r])
    BY <2>1, <2>2, <2>7 DEF SessionOK, MemoryOK
  <2>8. CASE GoneOK(tx[r])
    BY <1>0, <1>1, <2>1, <2>8 DEF SessionOK, GoneOK
  <2>. QED
    BY <2>1, <2>3, <2>4, <2>5, <2>6, <2>7, <2>8 DEF SessionOK
<1>. QED
  BY <1>0, <1>3, <1>6, <1>7, <1>8, <1>11, <1>12, <1>13 DEF IInv

\* What a removal does to the tables.
LEMMA RemoveEffect ==
    ASSUME IInv, NEW s \in Sessions, Commit(s), tx[s].kind = "remove",
           RemoveOK(tx[s], holds[s])
    PROVE  LET t == tx[s] IN
           /\ t.user \in Users /\ CheckInAsRead(t) /\ <<"user", t.user>> \in holds[s]
           /\ checkIns' = [checkIns EXCEPT ![t.ci] = [@ EXCEPT !.deleted = TRUE]]
           /\ "addJourney" \notin t.writes
           /\ \/ /\ votes' = votes
                 /\ \A v \in Venues : upvotes'[v] = upvotes[v]
                 /\ \/ t.venue = Custom
                    \/ VisitsOf(t.user, t.venue) \ {t.ci} # {}
                    \/ VoteOf(t.user, t.venue) = {}
              \/ /\ VoteAsRead(t) /\ t.venue \in Venues /\ t.old \in VoteValues
                 /\ votes' = [votes EXCEPT ![t.vote] = None]
                 /\ upvotes' = [upvotes EXCEPT ![t.venue] = @ + UpvotesDelta(t)]
                 /\ UpvotesDelta(t) = IF t.old = 1 THEN -1 ELSE 0
<1> DEFINE t == tx[s]
<1>1. /\ t.user \in Users /\ CheckInAsRead(t) /\ <<"user", t.user>> \in holds[s]
      /\ \/ /\ t.vote = None /\ t.old = 0 /\ t.writes = {"softDelete"}
            /\ \/ t.venue = Custom
               \/ VisitsOf(t.user, t.venue) \ {t.ci} # {}
               \/ VoteOf(t.user, t.venue) = {}
         \/ /\ VoteAsRead(t) /\ t.venue \in Venues
            /\ t.writes = {"softDelete", "deleteVote"}
  BY DEF Commit, RemoveOK
<1>2. checkIns' = [checkIns EXCEPT ![t.ci] = [@ EXCEPT !.deleted = TRUE]]
  <2>1. CheckInAfter(t) = [checkIns[t.ci] EXCEPT !.deleted = TRUE]
    BY <1>1 DEF CheckInAfter, CheckInAsRead
  <2>. QED
    BY <1>1, <2>1, ConstantsAssumption DEF Commit, CheckInAsRead
<1>3. UpvotesDelta(t) = IF t.old = 1 THEN -1 ELSE 0
  BY DEF UpvotesDelta
<1>4. CASE t.vote = None /\ t.old = 0 /\ t.writes = {"softDelete"}
  <2>1. votes' = votes /\ UpvotesDelta(t) = 0
    BY <1>3, <1>4 DEF Commit
  <2>2. \A v \in Venues : upvotes'[v] = upvotes[v]
    BY <2>1 DEF Commit, IInv, TypeOK
  <2>. QED
    BY <1>1, <1>2, <1>4, <2>1, <2>2, ConstantsAssumption DEF VoteAsRead
<1>5. CASE VoteAsRead(t) /\ t.venue \in Venues /\ t.writes = {"softDelete", "deleteVote"}
  <2>1. t.vote # None /\ t.venue # Custom /\ VoteAfter(t) = None
    BY <1>5, ConstantsAssumption DEF VoteAsRead, VoteAfter
  <2>2. t.old \in VoteValues
    <3>1. votes[t.vote] \in VoteRow /\ votes[t.vote].value = t.old
      BY <1>5 DEF VoteAsRead, IInv, TypeOK
    <3>. QED
      BY <3>1 DEF VoteRow
  <2>. QED
    BY <1>1, <1>2, <1>3, <1>5, <2>1, <2>2 DEF Commit
<1>. QED
  BY <1>1, <1>4, <1>5

LEMMA CommitRemoveOK ==
    ASSUME IInv, NoCastPairs, NEW s \in Sessions, Commit(s),
           tx[s].kind = "remove", RemoveOK(tx[s], holds[s])
    PROVE  IInv'
<1> DEFINE t == tx[s]
<1>0. /\ tx'[s] = Idle /\ InFlight(s)
      /\ \A r \in Sessions \ {s} : tx'[r] = tx[r] /\ holds'[r] = holds[r]
      /\ LocksExclusive' /\ Discipline' /\ orphaned' = orphaned
      /\ accounts' = accounts
      /\ t \in TxState
  BY CommitFrame
<1>1. /\ t.user \in Users /\ CheckInAsRead(t) /\ <<"user", t.user>> \in holds[s]
      /\ checkIns' = [checkIns EXCEPT ![t.ci] = [@ EXCEPT !.deleted = TRUE]]
      /\ "addJourney" \notin t.writes
  BY RemoveEffect
<1>2. \/ /\ votes' = votes
         /\ \A v \in Venues : upvotes'[v] = upvotes[v]
         /\ \/ t.venue = Custom
            \/ VisitsOf(t.user, t.venue) \ {t.ci} # {}
            \/ VoteOf(t.user, t.venue) = {}
      \/ /\ VoteAsRead(t) /\ t.venue \in Venues /\ t.old \in VoteValues
         /\ votes' = [votes EXCEPT ![t.vote] = None]
         /\ upvotes' = [upvotes EXCEPT ![t.venue] = @ + UpvotesDelta(t)]
         /\ UpvotesDelta(t) = IF t.old = 1 THEN -1 ELSE 0
  BY RemoveEffect
<1>3. /\ checkIns'[t.ci] = [checkIns[t.ci] EXCEPT !.deleted = TRUE]
      /\ checkIns[t.ci] \in CheckInRow /\ checkIns'[t.ci] \in CheckInRow
      /\ checkIns'[t.ci].user = t.user /\ checkIns'[t.ci].venue = t.venue
      /\ checkIns'[t.ci].deleted /\ checkIns'[t.ci] # None
      /\ \A c \in CheckInIds \ {t.ci} : checkIns'[c] = checkIns[c]
      /\ checkIns' \in [CheckInIds -> CheckInRow \cup {None}]
  BY <1>1, RowAssumption DEF CheckInAsRead, IInv, TypeOK, CheckInRow
<1>4. \A i \in VoteIds :
        \/ votes'[i] = votes[i]
        \/ votes[i] # None /\ votes[i].user = t.user /\ votes'[i] = None
  BY <1>2 DEF VoteAsRead, IInv, TypeOK
<1>5. TypeOK'
  <2>1. votes' \in [VoteIds -> VoteRow \cup {None}]
    BY <1>2 DEF IInv, TypeOK
  <2>. QED
    BY <1>1, <1>3, <2>1, CommitTypes
<1>6. \A u, v : /\ VisitsOf(u, v) \ {t.ci} \subseteq VisitsOf(u, v)'
                /\ u # t.user => VisitsOf(u, v)' = VisitsOf(u, v)
                /\ v # t.venue => VisitsOf(u, v)' = VisitsOf(u, v)
  BY <1>1, <1>3 DEF VisitsOf, Live, CheckInAsRead
<1>7. \A u, v : u # t.user => VoteOf(u, v)' = VoteOf(u, v)
  BY <1>4 DEF VoteOf
<1>8. UpvotesExact'
  <2>1. CASE votes' = votes /\ \A v \in Venues : upvotes'[v] = upvotes[v]
    BY <1>0, <2>1 DEF IInv, UpvotesExact, UpvotesAt
  <2>2. CASE /\ VoteAsRead(t) /\ t.venue \in Venues /\ t.old \in VoteValues
             /\ votes' = [votes EXCEPT ![t.vote] = None]
             /\ upvotes' = [upvotes EXCEPT ![t.venue] = @ + UpvotesDelta(t)]
             /\ UpvotesDelta(t) = IF t.old = 1 THEN -1 ELSE 0
    <3>1. UpvotesDelta(t) \in Int /\ t.vote \in VoteIds
      BY <2>2 DEF VoteAsRead
    <3>2. \A v : Counts(None, v) - Counts(votes[t.vote], v)
                    = IF v = t.venue THEN UpvotesDelta(t) ELSE 0
      BY <2>2 DEF Counts, VoteAsRead
    <3>. QED
      BY <1>0, <2>2, <3>1, <3>2, CountMoves
  <2>. QED
    BY <1>2, <2>1, <2>2
<1>9. VoteKeys'
  BY <1>0, <1>4 DEF IInv, VoteKeys
<1>10. VoteNeedsCheckIn'
  <2> SUFFICES ASSUME NEW i \in VoteIds, votes'[i] # None
               PROVE  (VisitsOf(votes[i].user, votes[i].venue) # {})'
    BY DEF VoteNeedsCheckIn
  <2>1. /\ votes'[i] = votes[i] /\ votes[i] \in VoteRow
        /\ VisitsOf(votes[i].user, votes[i].venue) # {}
    BY <1>4 DEF IInv, TypeOK, VoteNeedsCheckIn
  <2>2. CASE votes[i].user # t.user \/ votes[i].venue # t.venue
    BY <1>6, <2>1, <2>2
  <2>3. CASE votes[i].user = t.user /\ votes[i].venue = t.venue
    <3>1. t.venue \in Venues /\ t.venue # Custom
      BY <2>1, <2>3, ConstantsAssumption DEF VoteRow
    <3>2. i \in VoteOf(t.user, t.venue)
      BY <2>1, <2>3 DEF VoteOf
    <3>3. CASE VoteAsRead(t) /\ votes' = [votes EXCEPT ![t.vote] = None]
      <4>1. i = t.vote
        BY <2>1, <2>3, <3>3 DEF VoteAsRead, IInv, VoteKeys
      <4>2. votes'[i] = None
        BY <3>3, <4>1 DEF IInv, TypeOK
      <4>. QED
        BY <4>2
    <3>4. CASE VisitsOf(t.user, t.venue) \ {t.ci} # {}
      BY <1>6, <2>1, <2>3, <3>4
    <3>. QED
      BY <1>2, <3>1, <3>2, <3>3, <3>4
  <2>. QED
    BY <2>2, <2>3
<1>11. \A r \in Sessions \ {s} :
         /\ InFlight(r) /\ tx[r].kind = "cast" => tx[r].user # t.user
         /\ <<"user", tx[r].user>> \in holds[r] => tx[r].user # t.user
  BY <1>0, <1>1, CastAlone DEF IInv, LocksExclusive
<1>12. \A r \in Sessions \ {s} : VoteAsRead(tx[r]) /\ tx[r].user # t.user
         => VoteAsRead(tx[r])' /\ votes'[tx[r].vote] = votes[tx[r].vote]
  BY <1>0, <1>4 DEF VoteAsRead
<1>13. IdsDistinct'
  <2> SUFFICES ASSUME NEW r \in Sessions, NEW q \in Sessions, r # q, r # s, q # s
               PROVE  /\ tx[r].vote # None /\ tx[r].vote = tx[q].vote
                           => votes'[tx[r].vote] # None
                      /\ tx[r].ci # None /\ tx[r].ci = tx[q].ci =>
                           \/ checkIns'[tx[r].ci] # None
                           \/ tx[r].kind # "create" /\ tx[q].kind # "create"
    BY <1>0 DEF IdsDistinct, Idle
  <2>1. tx[r].ci # None /\ tx[r].ci = tx[q].ci =>
          \/ checkIns'[tx[r].ci] # None
          \/ tx[r].kind # "create" /\ tx[q].kind # "create"
    BY <1>3 DEF IInv, IdsDistinct, TypeOK, TxState
  <2>2. ASSUME tx[r].vote # None, tx[r].vote = tx[q].vote
        PROVE  votes'[tx[r].vote] # None
    <3>1. votes[tx[r].vote] # None
      BY <2>2 DEF IInv, IdsDistinct
    <3>2. VoteAsRead(tx[r]) /\ tx[r].user # t.user
      BY <1>11, <2>2, <3>1, VoteHolder
    <3>. QED
      BY <1>12, <3>1, <3>2
  <2>. QED
    BY <2>1, <2>2
<1>15. \A r \in Sessions \ {s} : GoneOK(tx[r]) => GoneOK(tx[r])'
  BY <1>0, <1>1, <1>3 DEF GoneOK, CheckInAsRead
<1>16. AccountsStay'
  BY <1>0, <1>15 DEF IInv, AccountsStay, Present, InFlight, Idle
<1>14. SessionsOK'
  <2> SUFFICES ASSUME NEW r \in Sessions, r # s PROVE SessionOK(r)'
    BY <1>0 DEF SessionsOK, SessionOK
  <2>1. SessionOK(r) /\ tx'[r] = tx[r] /\ holds'[r] = holds[r]
    BY <1>0 DEF IInv, SessionsOK
  <2>2. CheckInAsRead(tx[r]) => CheckInAsRead(tx[r])'
    BY <1>1, <1>3, <2>1 DEF CheckInAsRead
  <2>3. CASE tx[r] = Idle
    BY <2>1, <2>3 DEF SessionOK
  <2>4. CASE tx[r].kind = "cast" /\ CastOK(tx[r])
    <3>1. tx[r].user # t.user
      BY <1>11, <2>4 DEF CastOK, InFlight
    <3>2. VoteAsRead(tx[r]) => VoteAsRead(tx[r])'
      BY <1>12, <3>1
    <3>3. tx[r].vote \in VoteIds /\ votes[tx[r].vote] = None => votes'[tx[r].vote] = None
      BY <1>4
    <3>. QED
      BY <1>6, <1>7, <2>1, <2>4, <3>1, <3>2, <3>3 DEF SessionOK, CastOK
  <2>5. CASE tx[r].kind = "create" /\ CreateOK(tx[r], holds[r])
    <3>1. tx[r].ci \in CheckInIds /\ checkIns[tx[r].ci] = None
            => checkIns'[tx[r].ci] = None
      BY <1>1, <1>3 DEF CheckInAsRead
    <3>. QED
      BY <2>1, <2>5, <3>1 DEF SessionOK, CreateOK
  <2>6. CASE tx[r].kind = "remove" /\ RemoveOK(tx[r], holds[r])
    <3>1. CASE tx[r].user # t.user
      <4>1. VoteAsRead(tx[r]) => VoteAsRead(tx[r])'
        BY <1>12, <3>1
      <4>. QED
        BY <1>6, <1>7, <2>1, <2>2, <2>6, <3>1, <4>1 DEF SessionOK, RemoveOK
    <3>2. CASE tx[r].user = t.user
      <4>1. tx[r].pc \in {"softDelete", "decrement"}
        BY <1>11, <2>6, <3>2 DEF RemoveOK
      <4>. QED
        BY <2>1, <2>2, <2>6, <4>1 DEF SessionOK, RemoveOK
    <3>. QED
      BY <3>1, <3>2
  <2>7. CASE tx[r].kind = "memory" /\ MemoryOK(tx[r])
    BY <2>1, <2>2, <2>7 DEF SessionOK, MemoryOK
  <2>8. CASE GoneOK(tx[r])
    BY <1>15, <2>8 DEF SessionOK
  <2>. QED
    BY <2>1, <2>3, <2>4, <2>5, <2>6, <2>7, <2>8 DEF SessionOK
<1>. QED
  BY <1>0, <1>5, <1>8, <1>9, <1>10, <1>13, <1>14, <1>16 DEF IInv

-----------------------------------------------------------------------------
(* Deleting an account.                                                    *)

\* A request of the user that is in flight holds no lock yet and is no cast, so it
\* goes on without its account.
LEMMA RequestGoes ==
    ASSUME IInv, NoCastPairs, NEW s \in Sessions, NEW u \in Users,
           DeleteAccount(s, u), NEW r \in Sessions, InFlight(r), tx[r].user = u
    PROVE  GoneOK(tx[r])' /\ tx[r].vote = None
<1> DEFINE t == tx[r]
<1>1. /\ u \in accounts /\ ~InFlight(s)
      /\ {t.kind, "account"} \in Overlap
      /\ \A lock \in LocksOf(u) : Free(s, lock)
      /\ accounts' = accounts \ {u} /\ tx' = tx
      /\ checkIns' = [c \in CheckInIds |->
           IF checkIns[c] # None /\ checkIns[c].user = u THEN None ELSE checkIns[c]]
  BY DEF DeleteAccount, MayBegin
<1>2. r # s
  BY <1>1
<1>3. /\ <<"user", u>> \notin holds[r]
      /\ \A c \in CheckInIds : checkIns[c] # None /\ checkIns[c].user = u
           => <<"checkIn", c>> \notin holds[r]
  BY <1>1, <1>2 DEF LocksOf, Free
<1>4. SessionOK(r) /\ t \in TxState
  BY DEF IInv, SessionsOK, TypeOK
<1>5. CASE t.kind = "create" /\ CreateOK(t, holds[r])
  <2>1. t.pc \in {"findLast", "insertCheckIn"} /\ t.ci = None /\ t.writes = {}
    BY <1>3, <1>5 DEF CreateOK
  <2>. QED
    BY <1>1, <1>5, <2>1 DEF GoneOK, CreateOK
<1>6. CASE t.kind = "remove" /\ RemoveOK(t, holds[r])
  <2>1. t.ci \in CheckInIds /\ checkIns[t.ci] # None /\ checkIns[t.ci].user = u
    BY <1>6 DEF RemoveOK, CheckInAsRead
  <2>2. t.pc = "softDelete"
    BY <1>3, <1>6, <2>1 DEF RemoveOK
  <2>3. t.writes = {} /\ t.vote = None /\ t.old = 0 /\ t.venue \in Places
    BY <1>6, <2>2 DEF RemoveOK
  <2>. QED
    BY <1>1, <1>6, <2>1, <2>2, <2>3 DEF GoneOK
<1>7. CASE t.kind = "memory" /\ MemoryOK(t)
  BY <1>1, <1>7 DEF GoneOK, MemoryOK, CheckInAsRead
<1>8. t.kind # "cast"
  BY <1>1 DEF NoCastPairs
<1>9. ~GoneOK(t) /\ t # Idle
  BY <1>1 DEF GoneOK, InFlight, Idle
<1>. QED
  BY <1>4, <1>5, <1>6, <1>7, <1>8, <1>9 DEF SessionOK

LEMMA IdleOrInFlight ==
    ASSUME NEW r \in Sessions, SessionOK(r), ~InFlight(r)
    PROVE  tx[r] = Idle
<1>1. ~CastOK(tx[r])
  BY DEF CastOK, InFlight
<1>2. ~CreateOK(tx[r], holds[r])
  BY DEF CreateOK, InFlight
<1>3. ~RemoveOK(tx[r], holds[r])
  BY DEF RemoveOK, InFlight
<1>4. ~MemoryOK(tx[r])
  BY DEF MemoryOK, InFlight
<1>5. ~GoneOK(tx[r])
  BY DEF GoneOK, InFlight
<1>. QED
  BY <1>1, <1>2, <1>3, <1>4, <1>5 DEF SessionOK

LEMMA DeleteAccountOK ==
    ASSUME IInv, NoCastPairs, NEW s \in Sessions, NEW u \in Users, DeleteAccount(s, u)
    PROVE  IInv'
<1>1. /\ accounts' = accounts \ {u}
      /\ checkIns' = [c \in CheckInIds |->
           IF checkIns[c] # None /\ checkIns[c].user = u THEN None ELSE checkIns[c]]
      /\ votes' = [i \in VoteIds |->
           IF votes[i] # None /\ votes[i].user = u THEN None ELSE votes[i]]
      /\ orphaned' = [v \in Venues |-> orphaned[v]
           + Cardinality({i \in VoteOf(u, v) : votes[i].value = 1})]
      /\ UNCHANGED <<upvotes, checkInCount, today, tx, holds>>
      /\ journey' \subseteq journey
  BY DEF DeleteAccount
<1>2. \A c \in CheckInIds :
        \/ checkIns'[c] = checkIns[c] /\ (checkIns[c] # None => checkIns[c].user # u)
        \/ checkIns[c] # None /\ checkIns[c].user = u /\ checkIns'[c] = None
  BY <1>1
<1>3. \A i \in VoteIds :
        \/ votes'[i] = votes[i] /\ (votes[i] # None => votes[i].user # u)
        \/ votes[i] # None /\ votes[i].user = u /\ votes'[i] = None
  BY <1>1
<1>4. \A w, v : w # u => VisitsOf(w, v)' = VisitsOf(w, v) /\ VoteOf(w, v)' = VoteOf(w, v)
  BY <1>2, <1>3 DEF VisitsOf, VoteOf, Live
<1>5. \A r \in Sessions : InFlight(r) /\ tx[r].user = u
         => GoneOK(tx[r])' /\ tx[r].vote = None
  BY RequestGoes
<1>16. \A r \in Sessions : GoneOK(tx[r]) => GoneOK(tx[r])'
  BY <1>1, <1>2 DEF GoneOK
<1>6. \A v \in Venues :
        LET gone == {i \in VoteOf(u, v) : votes[i].value = 1} IN
        /\ IsFiniteSet(gone) /\ Cardinality(gone) \in Nat
        /\ Cardinality(UpvotesAt(v)') = Cardinality(UpvotesAt(v)) - Cardinality(gone)
        /\ Cardinality(UpvotesAt(v)) \in Nat
  <2> TAKE v \in Venues
  <2> DEFINE gone == {i \in VoteOf(u, v) : votes[i].value = 1}
  <2>1. IsFiniteSet(UpvotesAt(v)) /\ IsFiniteSet(gone)
    BY FS_Subset, ConstantsAssumption DEF UpvotesAt, VoteOf
  <2>2. UpvotesAt(v)' = UpvotesAt(v) \ gone /\ UpvotesAt(v) \cap gone = gone
    BY <1>3 DEF UpvotesAt, VoteOf
  <2>3. Cardinality(UpvotesAt(v) \ gone)
          = Cardinality(UpvotesAt(v)) - Cardinality(UpvotesAt(v) \cap gone)
    BY <2>1, FS_Difference
  <2>. QED
    BY <2>1, <2>2, <2>3, FS_CardinalityType
<1>7. TypeOK'
  <2>1. /\ checkIns' \in [CheckInIds -> CheckInRow \cup {None}]
        /\ votes' \in [VoteIds -> VoteRow \cup {None}]
    BY <1>1 DEF IInv, TypeOK
  <2>2. orphaned' \in [Venues -> Nat]
    <3>1. \A v \in Venues : orphaned[v] \in Nat
      BY DEF IInv, TypeOK
    <3>2. ASSUME NEW v \in Venues
          PROVE  orphaned[v] + Cardinality({i \in VoteOf(u, v) : votes[i].value = 1}) \in Nat
      <4>1. Cardinality({i \in VoteOf(u, v) : votes[i].value = 1}) \in Nat
        BY <1>6
      <4>. QED
        BY <3>1, <4>1
    <3>. QED
      BY <1>1, <3>2
  <2>. QED
    BY <1>1, <2>1, <2>2 DEF IInv, TypeOK
<1>8. LocksExclusive' /\ Discipline'
  BY <1>1 DEF IInv, LocksExclusive, Discipline, InFlight
<1>9. AccountsStay'
  BY <1>1, <1>5, <1>16 DEF IInv, AccountsStay, Present, InFlight
<1>10. VoteKeys'
  BY <1>1, <1>3 DEF IInv, VoteKeys
<1>11. VoteNeedsCheckIn'
  BY <1>3, <1>4 DEF IInv, VoteNeedsCheckIn
<1>12. UpvotesExact'
  <2> SUFFICES ASSUME NEW v \in Venues
               PROVE  upvotes'[v] = Cardinality(UpvotesAt(v)') + orphaned'[v]
    BY DEF UpvotesExact
  <2>1. upvotes'[v] = upvotes[v] /\ orphaned[v] \in Nat
        /\ upvotes[v] = Cardinality(UpvotesAt(v)) + orphaned[v]
    BY <1>1 DEF IInv, TypeOK, UpvotesExact
  <2>2. orphaned'[v] = orphaned[v] + Cardinality({i \in VoteOf(u, v) : votes[i].value = 1})
    BY <1>1
  <2>. QED
    BY <1>6, <2>1, <2>2
<1>13. \A r \in Sessions : tx[r].user # u =>
         /\ VoteAsRead(tx[r]) => VoteAsRead(tx[r])' /\ votes'[tx[r].vote] # None
         /\ CheckInAsRead(tx[r]) => CheckInAsRead(tx[r])'
  BY <1>1, <1>2, <1>3 DEF VoteAsRead, CheckInAsRead
<1>14. IdsDistinct'
  <2> SUFFICES ASSUME NEW r \in Sessions, NEW q \in Sessions, r # q
               PROVE  /\ tx[r].vote # None /\ tx[r].vote = tx[q].vote
                           => votes'[tx[r].vote] # None
                      /\ tx[r].ci # None /\ tx[r].ci = tx[q].ci =>
                           \/ checkIns'[tx[r].ci] # None
                           \/ tx[r].kind # "create" /\ tx[q].kind # "create"
    BY <1>1 DEF IdsDistinct
  <2>1. ASSUME tx[r].vote # None, tx[r].vote = tx[q].vote
        PROVE  votes'[tx[r].vote] # None
    <3>1. votes[tx[r].vote] # None
      BY <2>1 DEF IInv, IdsDistinct
    <3>2. VoteAsRead(tx[r]) /\ InFlight(r)
      BY <2>1, <3>1, VoteHolder
    <3>. QED
      BY <1>5, <1>13, <2>1, <3>2
  <2>2. ASSUME tx[r].ci # None, tx[r].ci = tx[q].ci
        PROVE  tx[r].kind # "create" /\ tx[q].kind # "create"
    <3>1. \/ checkIns[tx[r].ci] # None
          \/ tx[r].kind # "create" /\ tx[q].kind # "create"
      BY <2>2 DEF IInv, IdsDistinct
    <3>2. SessionOK(r) /\ SessionOK(q)
      BY DEF IInv, SessionsOK
    <3>3. \A o \in Sessions : SessionOK(o) /\ tx[o].kind = "create" /\ tx[o].ci # None
            => checkIns[tx[o].ci] = None
      BY DEF SessionOK, Idle, CreateOK, GoneOK
    <3>. QED
      BY <2>2, <3>1, <3>2, <3>3
  <2>. QED
    BY <2>1, <2>2
<1>15. SessionsOK'
  <2> SUFFICES ASSUME NEW r \in Sessions PROVE SessionOK(r)'
    BY DEF SessionsOK
  <2>1. SessionOK(r) /\ tx'[r] = tx[r] /\ holds'[r] = holds[r]
    BY <1>1 DEF IInv, SessionsOK
  <2>2. CASE ~InFlight(r)
    <3>1. tx[r] = Idle
      BY <2>1, <2>2, IdleOrInFlight
    <3>. QED
      BY <2>1, <3>1 DEF SessionOK
  <2>4. CASE GoneOK(tx[r])'
    BY <2>4 DEF SessionOK
  <2>3. CASE InFlight(r) /\ ~GoneOK(tx[r])'
    <3>1. /\ tx[r].user # u /\ ~GoneOK(tx[r])
          /\ VoteAsRead(tx[r]) => VoteAsRead(tx[r])'
          /\ CheckInAsRead(tx[r]) => CheckInAsRead(tx[r])'
      BY <1>5, <1>13, <1>16, <2>3
    <3>2. /\ VisitsOf(tx[r].user, tx[r].venue)' = VisitsOf(tx[r].user, tx[r].venue)
          /\ VoteOf(tx[r].user, tx[r].venue)' = VoteOf(tx[r].user, tx[r].venue)
      BY <1>4, <2>1, <3>1
    <3>3. /\ tx[r].vote \in VoteIds /\ votes[tx[r].vote] = None
               => votes'[tx[r].vote] = None
          /\ tx[r].ci \in CheckInIds /\ checkIns[tx[r].ci] = None
               => checkIns'[tx[r].ci] = None
      BY <1>2, <1>3
    <3>4. CASE tx[r] = Idle
      BY <2>1, <3>4 DEF SessionOK
    <3>5. CASE tx[r].kind = "cast" /\ CastOK(tx[r])
      BY <2>1, <3>1, <3>2, <3>3, <3>5 DEF SessionOK, CastOK
    <3>6. CASE tx[r].kind = "create" /\ CreateOK(tx[r], holds[r])
      BY <2>1, <3>3, <3>6 DEF SessionOK, CreateOK
    <3>7. CASE tx[r].kind = "remove" /\ RemoveOK(tx[r], holds[r])
      BY <2>1, <3>1, <3>2, <3>7 DEF SessionOK, RemoveOK
    <3>8. CASE tx[r].kind = "memory" /\ MemoryOK(tx[r])
      BY <2>1, <3>1, <3>8 DEF SessionOK, MemoryOK
    <3>. QED
      BY <2>1, <3>1, <3>4, <3>5, <3>6, <3>7, <3>8 DEF SessionOK
  <2>. QED
    BY <2>2, <2>3, <2>4
<1>. QED
  BY <1>7, <1>8, <1>9, <1>10, <1>11, <1>12, <1>14, <1>15 DEF IInv

-----------------------------------------------------------------------------
(* The theorems.                                                           *)

LEMMA CommitOK ==
    ASSUME IInv, NoCastPairs, NEW s \in Sessions, Commit(s)
    PROVE  IInv'
<1>1. SessionOK(s) /\ tx[s].pc = "commit"
  BY DEF IInv, SessionsOK, Commit
<1>2. tx[s] # Idle
  BY <1>1 DEF Idle
<1>3. CASE GoneOK(tx[s])
  BY <1>3, GoneCommits, Ends
<1>4. CASE ~GoneOK(tx[s])
  <2>1. tx[s].user \in accounts
    BY <1>1, <1>4 DEF IInv, AccountsStay, Present, InFlight
  <2>. QED
    BY <1>1, <1>2, <1>4, <2>1, CommitCastOK, CommitCreateOK, CommitRemoveOK,
       CommitMemoryOK DEF SessionOK
<1>. QED
  BY <1>3, <1>4

\* Every statement of a request.
LEMMA StatementOK ==
    ASSUME IInv, NEW s \in Sessions,
           \/ CastFindVote(s) \/ CastInsertVote(s) \/ CastReloadVote(s)
           \/ CastSetVote(s) \/ CastCount(s) \/ DeleteVote(s)
           \/ CreateFindLast(s) \/ CreateInsert(s) \/ CreateFindJourney(s)
           \/ CreateAddJourney(s)
           \/ RemoveSoftDelete(s) \/ RemoveDecrement(s) \/ RemoveCountRemaining(s)
           \/ RemoveFindVote(s) \/ RemoveUncount(s)
           \/ MemoryReload(s) \/ MemorySave(s)
    PROVE  IInv'
<1>1. CASE Present(s)
  BY <1>1, CastFindVoteOK, CastInsertVoteOK, CastReloadVoteOK, CastSetVoteOK,
     CastCountOK, DeleteVoteOK, CreateFindLastOK, CreateInsertOK,
     CreateFindJourneyOK, CreateAddJourneyOK, RemoveSoftDeleteOK,
     RemoveDecrementOK, RemoveCountRemainingOK, RemoveFindVoteOK, RemoveUncountOK,
     MemoryReloadOK, MemorySaveOK
<1>2. CASE ~Present(s)
  <2>1. GoneOK(tx[s]) /\ InFlight(s)
    BY <1>2 DEF IInv, AccountsStay, Present
  <2>2. /\ ~CastFindVote(s) /\ ~CastInsertVote(s) /\ ~CastReloadVote(s)
        /\ ~CastSetVote(s) /\ ~CastCount(s) /\ ~DeleteVote(s)
        /\ ~CreateFindJourney(s) /\ ~CreateAddJourney(s) /\ ~RemoveUncount(s)
    BY <2>1, GoneStatement
       DEF CastFindVote, CastInsertVote, CastReloadVote, CastSetVote, CastCount,
           DeleteVote, CreateFindJourney, CreateAddJourney, RemoveUncount
  <2>. QED
    BY <2>1, <2>2, GoneStepOK
<1>. QED
  BY <1>1, <1>2

LEMMA StepIInv == IInv /\ NoCastPairs /\ [Next]_vars => IInv'
<1> SUFFICES ASSUME IInv, NoCastPairs, [Next]_vars PROVE IInv'
  OBVIOUS
<1>1. ASSUME NEW s \in Sessions, CastStep(s) PROVE IInv'
  BY <1>1, CastBeginOK, StatementOK DEF CastStep
<1>2. ASSUME NEW s \in Sessions, CreateStep(s) PROVE IInv'
  BY <1>2, CreateBeginOK, StatementOK DEF CreateStep
<1>3. ASSUME NEW s \in Sessions, RemoveStep(s) PROVE IInv'
  BY <1>3, RemoveBeginOK, StatementOK DEF RemoveStep
<1>4. ASSUME NEW s \in Sessions, MemoryStep(s) PROVE IInv'
  BY <1>4, MemoryBeginOK, StatementOK DEF MemoryStep
<1>5. ASSUME NEW s \in Sessions, DeleteVote(s) PROVE IInv'
  BY <1>5, StatementOK
<1>6. ASSUME NEW s \in Sessions, Commit(s) PROVE IInv'
  BY <1>6, CommitOK
<1>7. ASSUME NEW s \in Sessions, Abort(s) PROVE IInv'
  BY <1>7, Ends DEF Abort
<1>8. ASSUME NEW s \in Sessions, NEW u \in Users, NEW v \in Venues,
             LeaveJourney(s, u, v)
      PROVE  IInv'
  BY <1>8, LeaveJourneyOK
<1>9. ASSUME NEW s \in Sessions, NEW u \in Users, DeleteAccount(s, u) PROVE IInv'
  BY <1>9, DeleteAccountOK
<1>10. CASE Midnight
  BY <1>10, MidnightOK
<1>11. CASE UNCHANGED vars
  <2>1. TypeOK'
    BY <1>11 DEF IInv, TypeOK, vars, rows
  <2>. QED
    BY <1>11, <2>1, Untouched DEF vars, rows
<1>. QED
  BY <1>1, <1>2, <1>3, <1>4, <1>5, <1>6, <1>7, <1>8, <1>9, <1>10, <1>11 DEF Next

LEMMA InductiveInvariant == NoCastPairs => (Spec => []IInv)
<1> SUFFICES ASSUME NoCastPairs PROVE Spec => []IInv
  OBVIOUS
<1>1. Init => IInv
  BY InitIInv
<1>2. IInv /\ [Next]_vars => IInv'
  BY StepIInv
<1>. QED
  BY <1>1, <1>2, PTL DEF Spec

\* However the statements of the requests interleave, whatever rolls back, and
\* whichever accounts go, every row, lock and session keeps its type (while no cast
\* overlaps with a cast, a removal or the deletion of the account of its user).
THEOREM EngagementTypes == NoCastPairs => (Spec => []TypeOK)
<1>1. IInv => TypeOK
  BY DEF IInv
<1>. QED
  BY <1>1, InductiveInvariant, PTL

\* venue.upvotes is the number of +1 votes, and of those that went with an account
\* (VotesService.cast and the removal of a last check-in move both in one
\* transaction), as long as no user's cast overlaps with another cast, a removal or
\* the deletion of the account of that user: each of the three breaks it, for the
\* delta comes from a vote read earlier (votes.service.ts:40). All other requests
\* may overlap, the deletion of an account with its own other requests too.
THEOREM UpvotesAreExact == NoCastPairs => (Spec => []UpvotesExact)
<1>1. IInv => UpvotesExact
  BY DEF IInv
<1>. QED
  BY <1>1, InductiveInvariant, PTL

\* Whoever has voted still has a check-in there, under the same condition: the
\* removals themselves may overlap, for the user's row serialises them.
THEOREM VotersHaveCheckedIn == NoCastPairs => (Spec => []VoteNeedsCheckIn)
<1>1. IInv => VoteNeedsCheckIn
  BY DEF IInv
<1>. QED
  BY <1>1, InductiveInvariant, PTL

-----------------------------------------------------------------------------
(* The count of check-ins, and the limit of one a day.                     *)

\* A user's removals overlap neither with each other nor with a memory edit.
NoRemovePairs == {"remove"} \notin Overlap /\ {"remove", "memory"} \notin Overlap

\* Nor a check-in with another, and a create ends on the day it began.
CreatesAlone == {"create"} \notin Overlap /\ ~MidnightSplits

\* A removal or a memory edit of an account that is still there has a check-in in
\* hand that is still there.
HoldsLive(t) ==
    t.pc # "idle" /\ t.user \in accounts /\ t.kind \in {"remove", "memory"}
        => Live(t.ci) /\ "undelete" \notin t.writes

\* A removal that looks for a vote removes the last check-in at its venue.
HoldsLast(t) ==
    t.kind = "remove" /\ t.user \in accounts
    /\ (t.pc = "findLingering" \/ t.vote # None)
        => VisitsOf(t.user, t.venue) = {t.ci}

CountInv ==
    /\ \A s \in Sessions : HoldsLive(tx[s]) /\ HoldsLast(tx[s])
    /\ CheckInCountExact

\* A create knows of no check-in of its day, which is today.
CreatesToday(t) ==
    t.pc # "idle" /\ t.user \in accounts /\ t.kind = "create" =>
        /\ t.day = today
        /\ t.pc # "findLast" /\ t.venue # Custom =>
             \A c \in VisitsOf(t.user, t.venue) : checkIns[c].day # today

DayInv ==
    /\ \A s \in Sessions : CreatesToday(tx[s])
    /\ \A c \in CheckInIds : Live(c) => checkIns[c].day <= today
    /\ OncePerVnDay

\* What a statement of a session leaves to itself: the other sessions and the rows.
Quiet(s) ==
    /\ UNCHANGED <<rows, today>>
    /\ \A r \in Sessions \ {s} : tx'[r] = tx[r]

LEMMA QuietCounts ==
    ASSUME CountInv, NEW s \in Sessions, Quiet(s), HoldsLive(tx[s])', HoldsLast(tx[s])'
    PROVE  CountInv'
<1>1. CheckInCountExact'
  BY DEF CountInv, Quiet, rows, CheckInCountExact, LiveOf, Live
<1>2. ASSUME NEW r \in Sessions \ {s} PROVE HoldsLive(tx[r])' /\ HoldsLast(tx[r])'
  <2>1. tx'[r] = tx[r] /\ HoldsLive(tx[r]) /\ HoldsLast(tx[r])
        /\ accounts' = accounts /\ UNCHANGED rows
    BY <1>2 DEF CountInv, Quiet, rows
  <2>2. Live(tx[r].ci)' = Live(tx[r].ci)
        /\ VisitsOf(tx[r].user, tx[r].venue)' = VisitsOf(tx[r].user, tx[r].venue)
    BY <2>1 DEF rows, VisitsOf, Live
  <2>. QED
    BY <2>1, <2>2 DEF HoldsLive, HoldsLast
<1>. QED
  BY <1>1, <1>2 DEF CountInv

LEMMA QuietDays ==
    ASSUME DayInv, NEW s \in Sessions, Quiet(s), CreatesToday(tx[s])'
    PROVE  DayInv'
BY DEF DayInv, Quiet, rows, CreatesToday, OncePerVnDay, VisitsOf, Live

\* A statement sets the next one of its session, and may note a write.
LEMMA MovesOn ==
    ASSUME IInv, NEW s \in Sessions, NEW pc, NEW write, UNCHANGED <<rows, today>>,
           Goto(s, pc) \/ GotoWriting(s, pc, write)
    PROVE  /\ Quiet(s) /\ tx'[s].pc = pc
           /\ tx'[s].kind = tx[s].kind /\ tx'[s].user = tx[s].user
           /\ tx'[s].venue = tx[s].venue /\ tx'[s].ci = tx[s].ci
           /\ tx'[s].vote = tx[s].vote /\ tx'[s].day = tx[s].day
           /\ tx'[s].writes \in {tx[s].writes, tx[s].writes \cup {write}}
<1>1. tx \in [Sessions -> TxState] /\ tx[s] \in TxState
  BY DEF IInv, TypeOK
<1>2. CASE Goto(s, pc)
  BY <1>1, <1>2 DEF Goto, Step, Quiet, TxState
<1>3. CASE GotoWriting(s, pc, write)
  BY <1>1, <1>3 DEF GotoWriting, Step, Quiet, TxState
<1>. QED
  BY <1>2, <1>3

\* A statement that leaves its session with nothing to check in or to take out.
LEMMA OtherKinds ==
    ASSUME CountInv, NEW s \in Sessions, Quiet(s),
           tx'[s] = Idle \/ tx'[s].kind \notin {"create", "remove", "memory"}
    PROVE  CountInv' /\ (DayInv => DayInv')
BY QuietCounts, QuietDays DEF HoldsLive, HoldsLast, CreatesToday, Idle

LEMMA RemoveKind ==
    ASSUME CountInv, NEW s \in Sessions, Quiet(s), tx'[s].kind \in {"remove", "memory"},
           HoldsLive(tx[s])', HoldsLast(tx[s])'
    PROVE  CountInv' /\ (DayInv => DayInv')
BY QuietCounts, QuietDays DEF CreatesToday

LEMMA CreateKind ==
    ASSUME CountInv, NEW s \in Sessions, Quiet(s), tx'[s].kind = "create",
           DayInv => CreatesToday(tx[s])'
    PROVE  CountInv' /\ (DayInv => DayInv')
BY QuietCounts, QuietDays DEF HoldsLive, HoldsLast

LEMMA CastCounts ==
    ASSUME IInv, CountInv, NEW s \in Sessions, Present(s), CastStep(s)
    PROVE  CountInv' /\ (DayInv => DayInv')
<1>0. tx \in [Sessions -> TxState] /\ tx[s] \in TxState
  BY DEF IInv, TypeOK
<1>1. ASSUME NEW u \in Users, NEW v \in Venues, NEW want \in VoteValues, CastBegin(s, u, v, want)
      PROVE  Quiet(s) /\ tx'[s].kind = "cast"
  BY <1>0, <1>1 DEF CastBegin, Step, Quiet, Idle
<1>2. CASE CastFindVote(s)
  <2>1. tx[s].kind = "cast" /\ UNCHANGED <<rows, today>>
    BY <1>2, SessionKind DEF CastFindVote
  <2>2. CASE Goto(s, "insertVote")
    BY <2>1, <2>2, MovesOn, OtherKinds
  <2>3. ASSUME NEW i, NEW old, NEW pc, Step(s, [tx[s] EXCEPT !.vote = i, !.old = old, !.pc = pc])
        PROVE  Quiet(s) /\ tx'[s].kind = "cast"
    BY <1>0, <2>1, <2>3 DEF Step, Quiet, TxState
  <2>. QED
    BY <1>2, <2>1, <2>2, <2>3, OtherKinds DEF CastFindVote
<1>3. CASE CastInsertVote(s)
  <2>1. tx[s].kind = "cast" /\ UNCHANGED <<rows, today>>
    BY <1>3, SessionKind DEF CastInsertVote
  <2>2. ASSUME NEW i, NEW pc,
               Step(s, [tx[s] EXCEPT !.vote = i, !.writes = @ \cup {"insertVote"}, !.pc = pc])
        PROVE  Quiet(s) /\ tx'[s].kind = "cast"
    BY <1>0, <2>1, <2>2 DEF Step, Quiet, TxState
  <2>. QED
    BY <1>3, <2>1, <2>2, OtherKinds DEF CastInsertVote
<1>4. CASE CastReloadVote(s) \/ CastSetVote(s) \/ CastCount(s)
  <2>1. tx[s].kind = "cast" /\ UNCHANGED <<rows, today>>
    BY <1>4, SessionKind DEF CastReloadVote, CastSetVote, CastCount
  <2>2. \E pc : Goto(s, pc) \/ GotoWriting(s, pc, "setVote")
    BY <1>4 DEF CastReloadVote, CastSetVote, CastCount
  <2>. QED
    BY <2>1, <2>2, MovesOn, OtherKinds
<1>. QED
  BY <1>1, <1>2, <1>3, <1>4, OtherKinds DEF CastStep

LEMMA CreateCounts ==
    ASSUME IInv, CountInv, NEW s \in Sessions, Present(s), CreateStep(s)
    PROVE  CountInv' /\ (DayInv => DayInv')
<1>0. tx \in [Sessions -> TxState] /\ tx[s] \in TxState
  BY DEF IInv, TypeOK
<1>1. ASSUME NEW u \in Users, NEW v \in Places, CreateBegin(s, u, v)
      PROVE  CountInv' /\ (DayInv => DayInv')
  <2>1. /\ Quiet(s) /\ today' = today
        /\ tx'[s].kind = "create" /\ tx'[s].day = today /\ tx'[s].venue = v
        /\ v # Custom => tx'[s].pc = "findLast"
    BY <1>0, <1>1 DEF CreateBegin, Step, Quiet, Idle, rows
  <2>. QED
    BY <2>1, CreateKind DEF CreatesToday
<1>2. ASSUME DayInv
      PROVE  \A c \in CheckInIds : Live(c) => checkIns[c].day \in Int /\ checkIns[c].day <= today
  BY <1>2 DEF DayInv, IInv, TypeOK, Live, CheckInRow, Days
<1>3. CASE CreateFindLast(s)
  <2>1. tx[s].kind = "create" /\ tx[s].pc = "findLast" /\ UNCHANGED <<rows, today>>
    BY <1>3, SessionKind DEF CreateFindLast
  <2>2. CASE End(s)
    <3>1. Quiet(s) /\ tx'[s] = Idle
      BY <1>0, <2>1, <2>2 DEF End, Step, Quiet
    <3>. QED
      BY <3>1, OtherKinds
  <2>3. CASE ~VisitedToday(tx[s].user, tx[s].venue) /\ Goto(s, "insertCheckIn")
    <3>1. /\ Quiet(s) /\ tx'[s].kind = "create" /\ tx'[s].day = tx[s].day
          /\ tx'[s].user = tx[s].user /\ tx'[s].venue = tx[s].venue
      BY <2>1, <2>3, MovesOn
    <3>2. ASSUME DayInv PROVE CreatesToday(tx[s])'
      <4>1. tx[s].day = today /\ today \in Int
        BY <2>1, <3>2 DEF Present, InFlight, DayInv, CreatesToday, IInv, TypeOK, Days
      <4>2. \A c \in VisitsOf(tx[s].user, tx[s].venue) : checkIns[c].day # today
        BY <1>2, <2>3, <3>2, <4>1 DEF VisitedToday, VisitsOf
      <4>3. UNCHANGED <<checkIns, today>> /\ VisitsOf(tx[s].user, tx[s].venue)' = VisitsOf(tx[s].user, tx[s].venue)'
        BY <2>1 DEF rows
      <4>. QED
        BY <2>1, <3>1, <4>1, <4>2, Reads DEF CreatesToday
    <3>. QED
      BY <3>1, <3>2, CreateKind
  <2>. QED
    BY <1>3, <2>2, <2>3 DEF CreateFindLast
\* The statements after the limit: the day and the venue stay.
<1>4. ASSUME tx[s].kind = "create", tx[s].pc \notin {"idle", "findLast"}, Quiet(s), UNCHANGED <<rows, today>>,
             tx'[s].kind = tx[s].kind, tx'[s].day = tx[s].day,
             tx'[s].user = tx[s].user, tx'[s].venue = tx[s].venue
      PROVE  CountInv' /\ (DayInv => DayInv')
  <2>1. ASSUME DayInv PROVE CreatesToday(tx[s])'
    BY <1>4, <2>1, Reads DEF DayInv, CreatesToday, rows
  <2>. QED
    BY <1>4, <2>1, CreateKind
<1>5. CASE CreateInsert(s)
  <2>1. tx[s].kind = "create" /\ tx[s].pc \notin {"idle", "findLast"} /\ UNCHANGED <<rows, today>> /\ tx[s] \in TxState
    BY <1>5, SessionKind DEF CreateInsert
  <2>2. ASSUME NEW c, NEW pc,
               Step(s, [tx[s] EXCEPT !.ci = c, !.writes = @ \cup {"insertCheckIn"}, !.pc = pc])
        PROVE  CountInv' /\ (DayInv => DayInv')
    <3>1. /\ Quiet(s) /\ tx'[s].kind = tx[s].kind /\ tx'[s].day = tx[s].day
          /\ tx'[s].user = tx[s].user /\ tx'[s].venue = tx[s].venue
      BY <1>0, <2>1, <2>2 DEF Step, Quiet, TxState
    <3>. QED
      BY <1>4, <2>1, <3>1
  <2>. QED
    BY <1>5, <2>2 DEF CreateInsert
<1>6. CASE CreateFindJourney(s) \/ CreateAddJourney(s)
  <2>1. tx[s].kind = "create" /\ tx[s].pc \notin {"idle", "findLast"} /\ UNCHANGED <<rows, today>>
    BY <1>6, SessionKind DEF CreateFindJourney, CreateAddJourney
  <2>2. \E pc : Goto(s, pc) \/ GotoWriting(s, pc, "addJourney")
    BY <1>6 DEF CreateFindJourney, CreateAddJourney
  <2>. QED
    BY <1>4, <2>1, <2>2, MovesOn
<1>. QED
  BY <1>1, <1>3, <1>5, <1>6 DEF CreateStep

\* A statement of a removal that leaves the vote it knows, or knows none yet.
LEMMA RemoveGoes ==
    ASSUME IInv, CountInv, NEW s \in Sessions, UNCHANGED <<rows, today>>,
           tx[s].kind = "remove", tx[s].pc # "idle",
           NEW pc, Goto(s, pc) \/ GotoWriting(s, pc, "softDelete"),
           tx[s].vote = None \/ tx[s].pc = "uncount",
           pc = "findLingering" => VisitsOf(tx[s].user, tx[s].venue) = {tx[s].ci}
    PROVE  CountInv' /\ (DayInv => DayInv')
<1>1. /\ Quiet(s) /\ tx'[s].kind = "remove" /\ tx'[s].pc = pc
      /\ tx'[s].ci = tx[s].ci /\ tx'[s].vote = tx[s].vote
      /\ tx'[s].user = tx[s].user /\ tx'[s].venue = tx[s].venue
      /\ tx'[s].writes \in {tx[s].writes, tx[s].writes \cup {"softDelete"}}
  BY MovesOn
<1>2. HoldsLive(tx[s]) /\ HoldsLast(tx[s])
  BY DEF CountInv
<1>3. VisitsOf(tx[s].user, tx[s].venue)' = VisitsOf(tx'[s].user, tx'[s].venue)
  BY DEF VisitsOf, Live, rows
<1>4. Live(tx[s].ci)' = Live(tx'[s].ci)
  BY DEF Live, rows
<1>5. HoldsLive(tx[s])'
  BY <1>1, <1>2, <1>4 DEF HoldsLive, rows
<1>6. HoldsLast(tx[s])'
  BY <1>1, <1>2, <1>3 DEF HoldsLast, rows
<1>. QED
  BY <1>1, <1>5, <1>6, RemoveKind

LEMMA RemoveCounts ==
    ASSUME IInv, CountInv, NEW s \in Sessions, Present(s), RemoveStep(s)
    PROVE  CountInv' /\ (DayInv => DayInv')
<1>0. tx \in [Sessions -> TxState] /\ tx[s] \in TxState
  BY DEF IInv, TypeOK
<1>1. ASSUME NEW u \in Users, NEW c \in CheckInIds, RemoveBegin(s, u, c)
      PROVE  CountInv' /\ (DayInv => DayInv')
  <2>1. /\ Quiet(s) /\ tx'[s].kind = "remove" /\ tx'[s].pc = "softDelete"
        /\ tx'[s].ci = c /\ tx'[s].writes = {} /\ tx'[s].vote = None
        /\ Live(c)' = Live(c) /\ Live(c)
    BY <1>0, <1>1 DEF RemoveBegin, Step, Quiet, Idle, rows, Live
  <2>. QED
    BY <2>1, RemoveKind DEF HoldsLive, HoldsLast
<1>3. CASE RemoveSoftDelete(s) \/ RemoveDecrement(s)
  <2>1. /\ tx[s].kind = "remove" /\ tx[s].pc # "idle" /\ UNCHANGED <<rows, today>>
        /\ tx[s].vote = None
    BY <1>3, SessionKind DEF RemoveSoftDelete, RemoveDecrement, RemoveOK
  <2>3. CASE GotoWriting(s, "decrement", "softDelete")
    BY RemoveGoes, <2>1, <2>3
  <2>4. CASE Goto(s, "commit")
    BY RemoveGoes, <2>1, <2>4
  <2>5. CASE Goto(s, "countRemaining")
    BY RemoveGoes, <2>1, <2>5
  <2>6. CASE Goto(s, "decrement")
    BY RemoveGoes, <2>1, <2>6
  <2>. QED
    BY <1>3, <2>3, <2>4, <2>5, <2>6 DEF RemoveSoftDelete, RemoveDecrement
<1>4. CASE RemoveCountRemaining(s)
  <2>1. /\ tx[s].kind = "remove" /\ RemoveOK(tx[s], holds[s]) /\ UNCHANGED <<rows, today>>
        /\ tx[s].vote = None /\ tx[s].pc # "idle" /\ CheckInAsRead(tx[s])
    BY <1>4, SessionKind DEF RemoveCountRemaining, RemoveOK
  <2>2. tx[s].ci \in VisitsOf(tx[s].user, tx[s].venue)
    BY <2>1 DEF CountInv, HoldsLive, CheckInAsRead, VisitsOf, Present, InFlight
  <2>3. CASE VisitsOf(tx[s].user, tx[s].venue) \ {tx[s].ci} = {}
    <3>1. Goto(s, "findLingering") /\ VisitsOf(tx[s].user, tx[s].venue) = {tx[s].ci}
      BY <1>4, <2>2, <2>3 DEF RemoveCountRemaining
    <3>. QED
      BY RemoveGoes, <2>1, <3>1
  <2>4. CASE VisitsOf(tx[s].user, tx[s].venue) \ {tx[s].ci} # {}
    <3>1. Goto(s, "commit")
      BY <1>4, <2>4 DEF RemoveCountRemaining
    <3>. QED
      BY RemoveGoes, <2>1, <3>1
  <2>. QED
    BY <2>3, <2>4
<1>5. CASE RemoveFindVote(s)
  <2>1. /\ tx[s].kind = "remove" /\ RemoveOK(tx[s], holds[s]) /\ UNCHANGED <<rows, today>>
        /\ tx[s].vote = None /\ tx[s].pc = "findLingering"
    BY <1>5, SessionKind DEF RemoveFindVote, RemoveOK
  <2>2. HoldsLive(tx[s]) /\ HoldsLast(tx[s])
    BY DEF CountInv
  <2>3. CASE Goto(s, "commit")
    BY RemoveGoes, <2>1, <2>3
  <2>4. ASSUME NEW i, NEW old, NEW pc, Step(s, [tx[s] EXCEPT !.vote = i, !.old = old, !.pc = pc])
        PROVE  CountInv' /\ (DayInv => DayInv')
    <3>1. /\ Quiet(s) /\ tx'[s].kind = "remove" /\ tx'[s].ci = tx[s].ci
          /\ tx'[s].user = tx[s].user /\ tx'[s].venue = tx[s].venue
          /\ tx'[s].writes = tx[s].writes
      BY <1>0, <2>1, <2>4 DEF Step, Quiet, TxState
    <3>2. VisitsOf(tx[s].user, tx[s].venue)' = VisitsOf(tx'[s].user, tx'[s].venue)
      BY <2>1 DEF VisitsOf, Live, rows
    <3>3. Live(tx[s].ci)' = Live(tx'[s].ci)
      BY <2>1 DEF Live, rows
    <3>4. HoldsLive(tx[s])' /\ HoldsLast(tx[s])'
      BY <2>1, <2>2, <3>1, <3>2, <3>3 DEF HoldsLive, HoldsLast, rows
    <3>. QED
      BY <3>1, <3>4, RemoveKind
  <2>. QED
    BY <1>5, <2>3, <2>4 DEF RemoveFindVote
<1>6. CASE RemoveUncount(s)
  <2>1. /\ tx[s].kind = "remove" /\ RemoveOK(tx[s], holds[s]) /\ UNCHANGED <<rows, today>>
        /\ tx[s].pc = "uncount"
    BY <1>6, SessionKind DEF RemoveUncount
  <2>2. Goto(s, "deleteVote")
    BY <1>6 DEF RemoveUncount
  <2>. QED
    BY RemoveGoes, <2>1, <2>2
<1>. QED
  BY <1>1, <1>3, <1>4, <1>5, <1>6 DEF RemoveStep

LEMMA DeleteVoteCounts ==
    ASSUME IInv, CountInv, NEW s \in Sessions, Present(s), DeleteVote(s)
    PROVE  CountInv' /\ (DayInv => DayInv')
<1>1. UNCHANGED <<rows, today>> /\ tx[s].pc = "deleteVote"
  BY DEF DeleteVote
<1>0. PICK pc : pc # "findLingering" /\ (Goto(s, pc) \/ GotoWriting(s, pc, "deleteVote"))
  BY DEF DeleteVote, AfterVoteWrite
<1>2. /\ Quiet(s) /\ tx'[s].kind = tx[s].kind /\ tx'[s].pc # "findLingering"
      /\ tx'[s].ci = tx[s].ci /\ tx'[s].vote = tx[s].vote
      /\ tx'[s].user = tx[s].user /\ tx'[s].venue = tx[s].venue
      /\ tx'[s].writes \in {tx[s].writes, tx[s].writes \cup {"deleteVote"}}
  BY <1>0, <1>1, MovesOn
<1>3. CASE tx[s].kind = "cast"
  BY <1>2, <1>3, OtherKinds
<1>4. CASE tx[s].kind = "remove"
  <2>1. HoldsLive(tx[s]) /\ HoldsLast(tx[s])
    BY DEF CountInv
  <2>2. VisitsOf(tx[s].user, tx[s].venue)' = VisitsOf(tx'[s].user, tx'[s].venue)
    BY <1>1 DEF VisitsOf, Live, rows
  <2>3. Live(tx[s].ci)' = Live(tx'[s].ci)
    BY <1>1 DEF Live, rows
  <2>4. HoldsLive(tx[s])' /\ HoldsLast(tx[s])'
    BY <1>1, <1>2, <1>4, <2>1, <2>2, <2>3 DEF HoldsLive, HoldsLast, rows
  <2>. QED
    BY <1>2, <1>4, <2>4, RemoveKind
<1>. QED
  BY <1>1, <1>3, <1>4, SessionKind

LEMMA MemoryCounts ==
    ASSUME IInv, CountInv, NEW s \in Sessions, Present(s), MemoryStep(s)
    PROVE  CountInv' /\ (DayInv => DayInv')
<1>0. tx \in [Sessions -> TxState] /\ tx[s] \in TxState
  BY DEF IInv, TypeOK
<1>1. ASSUME NEW u \in Users, NEW c \in CheckInIds, MemoryBegin(s, u, c)
      PROVE  CountInv' /\ (DayInv => DayInv')
  <2>1. /\ Quiet(s) /\ tx'[s].kind = "memory"
        /\ tx'[s].ci = c /\ tx'[s].writes = {} /\ tx'[s].vote = None
        /\ Live(c)' = Live(c) /\ Live(c)
    BY <1>0, <1>1 DEF MemoryBegin, Step, Quiet, Idle, rows, Live
  <2>. QED
    BY <2>1, RemoveKind DEF HoldsLive, HoldsLast
<1>2. CASE MemoryReload(s) \/ MemorySave(s)
  <2>1. /\ tx[s].kind = "memory" /\ tx[s].pc # "idle" /\ UNCHANGED <<rows, today>>
    BY <1>2, SessionKind DEF MemoryReload, MemorySave
  <2>2. Live(tx[s].ci) /\ "undelete" \notin tx[s].writes
    BY <2>1 DEF CountInv, HoldsLive, Present, InFlight
  <2>3. \E pc : Goto(s, pc)
    BY <1>2, <2>2 DEF MemoryReload, MemorySave, Live
  <2>4. /\ Quiet(s) /\ tx'[s].kind = "memory" /\ tx'[s].ci = tx[s].ci
        /\ tx'[s].writes = tx[s].writes
    <3>1. PICK pc : Goto(s, pc)
      BY <2>3
    <3>. QED
      BY <1>0, <2>1, <3>1 DEF Goto, Step, Quiet, TxState
  <2>5. Live(tx[s].ci)' = Live(tx'[s].ci)
    BY <2>1 DEF Live, rows
  <2>6. HoldsLive(tx[s])' /\ HoldsLast(tx[s])'
    BY <2>2, <2>4, <2>5 DEF HoldsLive, HoldsLast
  <2>. QED
    BY <2>4, <2>6, RemoveKind
<1>. QED
  BY <1>1, <1>2 DEF MemoryStep

\* A session that ends with nothing written, and the two requests of one statement
\* that touch none of this.
LEMMA EndCounts ==
    ASSUME IInv, CountInv, NEW s \in Sessions, End(s), UNCHANGED <<rows, today>>
    PROVE  CountInv' /\ (DayInv => DayInv')
<1>1. tx \in [Sessions -> TxState]
  BY DEF IInv, TypeOK
<1>2. Quiet(s) /\ tx'[s] = Idle
  BY <1>1 DEF End, Step, Quiet
<1>. QED
  BY <1>2, OtherKinds

LEMMA LeaveCounts ==
    ASSUME CountInv, UNCHANGED <<accounts, checkIns, checkInCount, tx>>
    PROVE  CountInv' /\ (DayInv /\ UNCHANGED today => DayInv')
<1>1. CountInv'
  BY DEF CountInv, HoldsLive, HoldsLast, CheckInCountExact, LiveOf, VisitsOf, Live
<1>2. DayInv /\ UNCHANGED today => DayInv'
  BY DEF DayInv, CreatesToday, OncePerVnDay, VisitsOf, Live
<1>. QED
  BY <1>1, <1>2

LEMMA MidnightCounts ==
    ASSUME IInv, CountInv, Midnight
    PROVE  CountInv' /\ (DayInv /\ CreatesAlone => DayInv')
<1>1. CountInv'
  BY LeaveCounts DEF Midnight, rows
<1>2. ASSUME DayInv, CreatesAlone PROVE DayInv'
  <2>1. \A c \in CheckInIds : Live(c) => checkIns[c].day \in Int /\ checkIns[c].day <= today
    BY <1>2 DEF DayInv, IInv, TypeOK, Live, CheckInRow, Days
  <2>2. today \in Int /\ today' = today + 1
    BY DEF IInv, TypeOK, Days, Midnight
  <2>3. \A s \in Sessions : tx'[s].kind # "create"
    BY <1>2 DEF Midnight, CreatesAlone
  <2>4. \A c \in CheckInIds : Live(c)' => (checkIns[c].day <= today)'
    BY <2>1, <2>2 DEF Midnight, rows, Live
  <2>5. OncePerVnDay'
    BY <1>2 DEF DayInv, Midnight, rows, OncePerVnDay, Live
  <2>. QED
    BY <2>3, <2>4, <2>5 DEF DayInv, CreatesToday
<1>. QED
  BY <1>1, <1>2

\* The requests of the user that go on have no account, the others keep their rows.
LEMMA DeleteCounts ==
    ASSUME IInv, CountInv, NEW s \in Sessions, NEW u \in Users, DeleteAccount(s, u)
    PROVE  CountInv' /\ (DayInv => DayInv')
<1>1. /\ accounts' = accounts \ {u} /\ UNCHANGED <<checkInCount, today, tx>>
      /\ \A c \in CheckInIds : checkIns'[c] =
           IF checkIns[c] # None /\ checkIns[c].user = u THEN None ELSE checkIns[c]
  BY DEF DeleteAccount
<1>2. \A c \in CheckInIds :
        Live(c)' <=> Live(c) /\ checkIns[c].user # u
  BY <1>1 DEF Live
<1>3. \A c \in CheckInIds : Live(c)' => checkIns'[c] = checkIns[c]
  BY <1>1 DEF Live
<1>4. \A w, p : w # u => VisitsOf(w, p)' = VisitsOf(w, p)
  BY <1>2, <1>3 DEF VisitsOf
<1>6. \A r \in Sessions : HoldsLive(tx[r])' /\ HoldsLast(tx[r])'
  <2> SUFFICES ASSUME NEW r \in Sessions PROVE HoldsLive(tx[r])' /\ HoldsLast(tx[r])'
    OBVIOUS
  <2>1. SessionOK(r) /\ HoldsLive(tx[r]) /\ HoldsLast(tx[r]) /\ tx'[r] = tx[r]
    BY <1>1 DEF IInv, SessionsOK, CountInv
  <2>2. CASE tx[r] = Idle
    BY <2>1, <2>2 DEF HoldsLive, HoldsLast, Idle
  <2>3. CASE /\ tx[r].kind \in {"remove", "memory"} /\ tx[r].pc # "idle"
             /\ CheckInAsRead(tx[r]) /\ tx[r].user \in accounts'
    <3>1. /\ tx[r].user \in accounts /\ tx[r].user # u
          /\ Live(tx[r].ci) /\ Live(tx[r].ci)'
      BY <1>1, <1>2, <2>1, <2>3 DEF CheckInAsRead, HoldsLive
    <3>2. VisitsOf(tx[r].user, tx[r].venue)' = VisitsOf(tx[r].user, tx[r].venue)
      BY <1>1, <1>4, <3>1
    <3>. QED
      BY <2>1, <2>3, <3>1, <3>2 DEF HoldsLive, HoldsLast
  <2>4. CASE tx[r].kind \in {"cast", "create"} \/ tx[r].user \notin accounts'
    BY <2>1, <2>4 DEF HoldsLive, HoldsLast
  <2>5. GoneOK(tx[r]) => tx[r].user \notin accounts'
    BY <1>1 DEF GoneOK
  <2>. QED
    BY <2>1, <2>2, <2>3, <2>4, <2>5 DEF SessionOK, RemoveOK, MemoryOK
<1>7. CheckInCountExact'
  <2>1. \A w \in accounts' : w \in accounts /\ w # u /\ LiveOf(w)' = LiveOf(w)
    BY <1>1, <1>2, <1>3 DEF LiveOf
  <2>. QED
    BY <1>1, <2>1 DEF CountInv, CheckInCountExact
<1>8. ASSUME DayInv PROVE DayInv'
  <2>1. \A r \in Sessions : CreatesToday(tx[r])'
    BY <1>1, <1>3, <1>4, <1>8 DEF DayInv, CreatesToday, VisitsOf
  <2>. QED
    BY <1>1, <1>2, <1>3, <1>8, <2>1 DEF DayInv, OncePerVnDay
<1>. QED
  BY <1>6, <1>7, <1>8 DEF CountInv

-----------------------------------------------------------------------------
(* The commit of a transaction, seen from the check-ins.                   *)

\* A user's check-ins change by at most one, and by what the transaction counts.
LEMMA LiveMoves ==
    ASSUME NEW S, NEW T, NEW c, IsFiniteSet(S)
    PROVE  /\ Cardinality(S) \in Nat
           /\ T = S \cup {c} /\ c \notin S => Cardinality(T) = Cardinality(S) + 1
           /\ T = S \ {c} /\ c \in S => Cardinality(T) = Cardinality(S) - 1
BY FS_CardinalityType, FS_AddElement, FS_RemoveElement

\* What a commit does to the check-ins: nothing, or to the one it has in hand, which
\* comes into being, goes away or stays as it was.
Nothing(t) == checkIns' = checkIns /\ CheckInDelta(t) = 0
Arrives(t) ==
    /\ t.ci \in CheckInIds /\ checkIns[t.ci] = None /\ CheckInDelta(t) = 1
    /\ checkIns' = [checkIns EXCEPT ![t.ci] =
         [user |-> t.user, venue |-> t.venue, day |-> t.day, deleted |-> FALSE]]
Departs(t) ==
    /\ CheckInAsRead(t) /\ Live(t.ci) /\ CheckInDelta(t) = -1
    /\ checkIns' = [checkIns EXCEPT ![t.ci].deleted = TRUE]

LEMMA CommitMoves ==
    ASSUME IInv, CountInv, NEW s \in Sessions, Present(s), Commit(s)
    PROVE  /\ tx[s].user \in Users
           /\ \/ tx[s].kind \in {"cast", "memory"} /\ Nothing(tx[s])
              \/ tx[s].kind = "create" /\ CreateOK(tx[s], holds[s]) /\ Arrives(tx[s])
              \/ tx[s].kind = "remove" /\ RemoveOK(tx[s], holds[s]) /\ Departs(tx[s])
<1> DEFINE t == tx[s]
<1>1. /\ SessionOK(s) /\ t.pc = "commit" /\ t # Idle /\ HoldsLive(t) /\ t \in TxState
      /\ checkIns \in [CheckInIds -> CheckInRow \cup {None}]
  BY DEF IInv, SessionsOK, CountInv, Commit, Idle, TypeOK
<1>0. t.user \in accounts /\ ~GoneOK(t)
  BY <1>1 DEF Present, InFlight, GoneOK
<1>2. checkIns' = IF t.ci = None THEN checkIns ELSE [checkIns EXCEPT ![t.ci] = CheckInAfter(t)]
  BY DEF Commit
<1>3. CASE t.kind = "cast" /\ CastOK(t)
  <2>1. /\ t.ci = None /\ t.user \in Users
        /\ t.writes \in {{"insertVote"}, {"deleteVote"}, {"setVote"}}
    BY <1>1, <1>3 DEF CastOK
  <2>. QED
    BY <1>2, <1>3, <2>1 DEF Nothing, CheckInDelta
<1>4. CASE t.kind = "create" /\ CreateOK(t, holds[s])
  <2>1. /\ t.ci \in CheckInIds /\ checkIns[t.ci] = None /\ t.user \in Users
        /\ t.writes \in {{"insertCheckIn"}, {"insertCheckIn", "addJourney"}}
    BY <1>1, <1>4 DEF CreateOK
  <2>2. CheckInDelta(t) = 1 /\ t.ci # None
    BY <2>1, ConstantsAssumption DEF CheckInDelta
  <2>3. CheckInAfter(t) = [user |-> t.user, venue |-> t.venue, day |-> t.day, deleted |-> FALSE]
    BY <2>1 DEF CheckInAfter
  <2>. QED
    BY <1>2, <1>4, <2>1, <2>2, <2>3 DEF Arrives
<1>5. CASE t.kind = "remove" /\ RemoveOK(t, holds[s])
  <2>1. /\ t.user \in Users /\ CheckInAsRead(t) /\ Live(t.ci)
        /\ t.writes \in {{"softDelete"}, {"softDelete", "deleteVote"}}
    BY <1>0, <1>1, <1>5 DEF RemoveOK, HoldsLive
  <2>2. CheckInDelta(t) = -1
    BY <2>1 DEF CheckInDelta
  <2>3. CheckInAfter(t) = [checkIns[t.ci] EXCEPT !.deleted = TRUE]
    BY <2>1 DEF CheckInAfter, CheckInAsRead
  <2>4. t.ci \in CheckInIds /\ t.ci # None
    BY <2>1, ConstantsAssumption DEF CheckInAsRead
  <2>. QED
    BY <1>2, <1>5, <2>1, <2>2, <2>3, <2>4 DEF Departs
<1>6. CASE t.kind = "memory" /\ MemoryOK(t)
  <2>1. /\ t.user \in Users /\ CheckInAsRead(t) /\ t.writes = {}
    BY <1>0, <1>1, <1>6 DEF MemoryOK, HoldsLive
  <2>2. CheckInDelta(t) = 0
    BY <2>1 DEF CheckInDelta
  <2>3. t.ci \in CheckInIds /\ checkIns[t.ci] \in CheckInRow
    BY <1>1, <2>1 DEF CheckInAsRead
  <2>5. CheckInAfter(t) = checkIns[t.ci]
    BY <2>1 DEF CheckInAfter, CheckInAsRead
  <2>. QED
    BY <1>1, <1>2, <1>6, <2>1, <2>2, <2>3, <2>5 DEF Nothing
<1>. QED
  BY <1>0, <1>1, <1>3, <1>4, <1>5, <1>6 DEF SessionOK

\* Who else has something in hand belongs to another user, or has other rows in hand.
LEMMA CommitOthers ==
    ASSUME IInv, CountInv, NoRemovePairs, NEW s \in Sessions, Present(s), Commit(s),
           NEW r \in Sessions, r # s, tx[r].pc # "idle", tx[r].user \in accounts
    PROVE  /\ tx[s].kind = "remove" /\ tx[r].kind \in {"remove", "memory"}
                => tx[r].user # tx[s].user
           /\ tx[s].kind = "create" /\ tx[r].kind = "remove"
              /\ (tx[r].pc = "findLingering" \/ tx[r].vote # None)
                => tx[r].user # tx[s].user
           /\ tx[s].kind = "create" /\ tx[r].kind = "create" /\ CreatesAlone
                => tx[r].user # tx[s].user
<1>1. InFlight(s) /\ InFlight(r) /\ tx[s].pc = "commit"
  BY CommitFrame DEF InFlight, Commit
<1>2. tx[r].user = tx[s].user => {tx[s].kind, tx[r].kind} \in Overlap
  BY <1>1 DEF IInv, Discipline
<1>3. tx[s].kind = "remove" /\ tx[r].kind \in {"remove", "memory"} => tx[r].user # tx[s].user
  <2> SUFFICES ASSUME tx[s].kind = "remove", tx[r].kind \in {"remove", "memory"},
                      tx[r].user = tx[s].user
               PROVE  FALSE
    OBVIOUS
  <2>1. {tx[s].kind, tx[r].kind} \in {{"remove"}, {"remove", "memory"}}
    OBVIOUS
  <2>. QED
    BY <1>2, <2>1 DEF NoRemovePairs
<1>4. tx[s].kind = "create" /\ tx[r].kind = "create" /\ CreatesAlone => tx[r].user # tx[s].user
  <2> SUFFICES ASSUME tx[s].kind = "create", tx[r].kind = "create", CreatesAlone,
                      tx[r].user = tx[s].user
               PROVE  FALSE
    OBVIOUS
  <2>1. {tx[s].kind, tx[r].kind} = {"create"}
    OBVIOUS
  <2>. QED
    BY <1>2, <2>1 DEF CreatesAlone
\* The lock on the row of the user keeps a check-in away from a removal.
<1>5. ASSUME tx[s].kind = "create", tx[r].kind = "remove",
             tx[r].pc = "findLingering" \/ tx[r].vote # None
      PROVE  tx[r].user # tx[s].user
  <2>1. CreateOK(tx[s], holds[s]) /\ RemoveOK(tx[r], holds[r])
    <3>1. SessionOK(s) /\ SessionOK(r) /\ tx[s] # Idle /\ tx[r] # Idle
      BY <1>1 DEF IInv, SessionsOK, InFlight, Idle
    <3>2. ~GoneOK(tx[s]) /\ ~GoneOK(tx[r])
      BY <1>1 DEF GoneOK, Present
    <3>. QED
      BY <1>5, <3>1, <3>2 DEF SessionOK
  <2>2. <<"user", tx[s].user>> \in holds[s]
    BY <1>1, <2>1 DEF CreateOK
  <2>3. tx[r].pc \notin {"softDelete", "decrement"}
    BY <1>5, <2>1 DEF RemoveOK
  <2>4. <<"user", tx[r].user>> \in holds[r]
    BY <2>1, <2>3 DEF RemoveOK
  <2>. QED
    BY <2>2, <2>4 DEF IInv, LocksExclusive
<1>. QED
  BY <1>3, <1>4, <1>5

LEMMA CommitCounts ==
    ASSUME IInv, CountInv, NoRemovePairs, NEW s \in Sessions, Present(s), Commit(s)
    PROVE  CountInv' /\ (CreatesAlone /\ DayInv => DayInv')
<1> DEFINE t == tx[s]
<1>0. /\ tx'[s] = Idle /\ (\A r \in Sessions \ {s} : tx'[r] = tx[r])
      /\ UNCHANGED <<accounts, today>>
      /\ checkIns \in [CheckInIds -> CheckInRow \cup {None}]
      /\ checkInCount \in [Users -> Int] /\ accounts \subseteq Users
      /\ t \in TxState
  BY CommitFrame DEF IInv, TypeOK
<1>1. t.user \in Users /\ checkInCount' = [checkInCount EXCEPT ![t.user] = @ + CheckInDelta(t)]
  BY CommitMoves DEF Commit
<1>2. \A u : IsFiniteSet(LiveOf(u))
  BY FS_Subset, ConstantsAssumption DEF LiveOf
<1>3. \A r \in Sessions : /\ HoldsLive(tx[r]) /\ HoldsLast(tx[r])
                          /\ SessionOK(r)
                          /\ tx[r].pc # "idle" /\ tx[r].user \in accounts
                             /\ tx[r].kind \in {"remove", "memory"}
                               => CheckInAsRead(tx[r]) /\ Live(tx[r].ci)
  <2> TAKE r \in Sessions
  <2>1. SessionOK(r) /\ HoldsLive(tx[r]) /\ HoldsLast(tx[r])
    BY DEF IInv, SessionsOK, CountInv
  <2>2. tx[r].pc # "idle" => tx[r] # Idle
    BY DEF Idle
  <2>3. tx[r].user \in accounts => ~GoneOK(tx[r])
    BY DEF GoneOK
  <2>. QED
    BY <2>1, <2>2, <2>3 DEF SessionOK, RemoveOK, MemoryOK, HoldsLive
\* The session itself is over.
<1>4. HoldsLive(tx[s])' /\ HoldsLast(tx[s])' /\ CreatesToday(tx[s])'
  BY <1>0 DEF HoldsLive, HoldsLast, CreatesToday, Idle
\* What is left to prove of each kind of commit.
<1> DEFINE Goal == /\ \A r \in Sessions \ {s} : HoldsLive(tx[r])' /\ HoldsLast(tx[r])'
                   /\ \A u \in accounts : checkInCount'[u] = Cardinality(LiveOf(u)')
                   /\ CreatesAlone /\ DayInv =>
                        /\ \A r \in Sessions \ {s} : CreatesToday(tx[r])'
                        /\ \A c \in CheckInIds : Live(c)' => checkIns'[c].day <= today
                        /\ OncePerVnDay'
<1>5. ASSUME Nothing(t) PROVE Goal
  <2>1. checkIns' = checkIns /\ (\A u, v : VisitsOf(u, v)' = VisitsOf(u, v))
        /\ (\A u : LiveOf(u)' = LiveOf(u)) /\ (\A c : Live(c)' = Live(c))
    BY <1>5 DEF Nothing, VisitsOf, LiveOf, Live
  <2>2. checkInCount' = checkInCount
    BY <1>0, <1>1, <1>5 DEF Nothing
  <2>3. \A r \in Sessions \ {s} : HoldsLive(tx[r])' /\ HoldsLast(tx[r])'
    BY <1>0, <1>3, <2>1 DEF HoldsLive, HoldsLast
  <2>4. \A u \in accounts : checkInCount'[u] = Cardinality(LiveOf(u)')
    BY <2>1, <2>2 DEF CountInv, CheckInCountExact
  <2>5. DayInv => /\ \A r \in Sessions \ {s} : CreatesToday(tx[r])'
                  /\ \A c \in CheckInIds : Live(c)' => checkIns'[c].day <= today
                  /\ OncePerVnDay'
    BY <1>0, <2>1 DEF DayInv, CreatesToday, OncePerVnDay
  <2>. QED
    BY <2>3, <2>4, <2>5
<1>6. ASSUME t.kind = "create", CreateOK(t, holds[s]), Arrives(t) PROVE Goal
  <2>0. PICK mine : mine = t.ci
    OBVIOUS
  <2> DEFINE row == [user |-> t.user, venue |-> t.venue, day |-> t.day, deleted |-> FALSE]
  <2>1. /\ mine \in CheckInIds /\ checkIns[mine] = None /\ CheckInDelta(t) = 1
        /\ checkIns'[mine] = row /\ (\A c \in CheckInIds \ {mine} : checkIns'[c] = checkIns[c])
        /\ row \in CheckInRow /\ row # None
    <3>1. t.venue \in Places
      BY <1>6 DEF CreateOK
    <3>2. row \in CheckInRow
      BY <1>0, <1>1, <3>1 DEF TxState, CheckInRow
    <3>. QED
      BY <1>0, <1>6, <2>0, <3>2, RowAssumption DEF Arrives
  <2>2. ~Live(mine) /\ Live(mine)' /\ \A c \in CheckInIds \ {mine} : Live(c)' = Live(c)
    BY <2>1 DEF Live
  <2>3. \A u, v : u # t.user \/ v # t.venue => VisitsOf(u, v)' = VisitsOf(u, v)
    BY <2>1, <2>2 DEF VisitsOf
  <2>4. ASSUME NEW r \in Sessions \ {s} PROVE HoldsLive(tx[r])' /\ HoldsLast(tx[r])'
    <3>1. tx'[r] = tx[r] /\ HoldsLive(tx[r]) /\ HoldsLast(tx[r])
      BY <1>0, <1>3
    <3>2. HoldsLive(tx[r])'
      <4>1. tx[r].pc # "idle" /\ tx[r].user \in accounts
            /\ tx[r].kind \in {"remove", "memory"} =>
              tx[r].ci \in CheckInIds \ {mine}
        BY <1>3, <2>2 DEF CheckInAsRead
      <4>. QED
        BY <1>0, <2>2, <3>1, <4>1 DEF HoldsLive
    <3>3. HoldsLast(tx[r])'
      <4>1. tx[r].pc # "idle" /\ tx[r].kind = "remove" /\ tx[r].user \in accounts
            /\ (tx[r].pc = "findLingering" \/ tx[r].vote # None) => tx[r].user # t.user
        BY <1>6, CommitOthers
      <4>2. tx[r].kind = "remove" /\ (tx[r].pc = "findLingering" \/ tx[r].vote # None)
              => tx[r].pc # "idle" \/ tx[r] = Idle
        BY <1>3 DEF SessionOK, CastOK, CreateOK, RemoveOK, MemoryOK, GoneOK
      <4>3. CASE tx[r] = Idle
        BY <3>1, <4>3 DEF HoldsLast, Idle
      <4>4. CASE tx[r] # Idle
        BY <1>0, <2>3, <3>1, <4>1, <4>2, <4>4 DEF HoldsLast
      <4>. QED
        BY <4>3, <4>4
    <3>. QED
      BY <3>2, <3>3
  <2>5. ASSUME NEW u \in accounts PROVE checkInCount'[u] = Cardinality(LiveOf(u)')
    <3>1. checkInCount[u] = Cardinality(LiveOf(u)) /\ u \in Users /\ checkInCount[u] \in Int
      BY <1>0 DEF CountInv, CheckInCountExact
    <3>2. CASE u = t.user
      <4>1. LiveOf(u)' = LiveOf(u) \cup {mine} /\ mine \notin LiveOf(u)
        BY <2>1, <2>2, <3>2 DEF LiveOf
      <4>2. Cardinality(LiveOf(u)') = Cardinality(LiveOf(u)) + 1
        BY <1>2, <4>1, LiveMoves
      <4>. QED
        BY <1>0, <1>1, <2>1, <3>1, <3>2, <4>2
    <3>3. CASE u # t.user
      <4>1. LiveOf(u)' = LiveOf(u)
        BY <2>1, <2>2, <3>3 DEF LiveOf
      <4>. QED
        BY <1>0, <1>1, <3>1, <3>3, <4>1
    <3>. QED
      BY <3>2, <3>3
  <2>6. ASSUME CreatesAlone, DayInv
        PROVE  /\ \A r \in Sessions \ {s} : CreatesToday(tx[r])'
               /\ \A c \in CheckInIds : Live(c)' => checkIns'[c].day <= today
               /\ OncePerVnDay'
    <3>1. /\ t.day = today /\ today \in Int
          /\ t.venue # Custom => \A c \in VisitsOf(t.user, t.venue) : checkIns[c].day # today
      <4>1. t.pc # "idle" /\ t.pc # "findLast" /\ t.user \in accounts
        BY DEF Commit, Present, InFlight
      <4>. QED
        BY <1>6, <2>6, <4>1 DEF DayInv, CreatesToday, IInv, TypeOK, Days
    <3>2. ASSUME NEW r \in Sessions \ {s} PROVE CreatesToday(tx[r])'
      <4>1. tx'[r] = tx[r] /\ CreatesToday(tx[r])
        BY <1>0, <2>6 DEF DayInv
      <4>2. tx[r].pc # "idle" /\ tx[r].user \in accounts /\ tx[r].kind = "create"
              => tx[r].user # t.user
        BY <1>6, <2>6, CommitOthers
      <4>3. \A v, c : tx[r].user # t.user /\ c \in VisitsOf(tx[r].user, v) =>
              checkIns'[c] = checkIns[c]
        BY <2>1, <2>2 DEF VisitsOf
      <4>. QED
        BY <1>0, <2>3, <4>1, <4>2, <4>3 DEF CreatesToday
    <3>3. \A c \in CheckInIds : Live(c)' => checkIns'[c].day <= today
      BY <2>1, <2>2, <2>6, <3>1 DEF DayInv
    <3>4. OncePerVnDay'
      <4> SUFFICES ASSUME NEW c \in CheckInIds, NEW d \in CheckInIds, c # d,
                          Live(c)', Live(d)', checkIns'[c].user = checkIns'[d].user,
                          checkIns'[c].venue = checkIns'[d].venue, checkIns'[c].venue # Custom
                   PROVE  checkIns'[c].day # checkIns'[d].day
        BY DEF OncePerVnDay
      <4>1. CASE c # mine /\ d # mine
        BY <2>1, <2>2, <2>6, <4>1 DEF DayInv, OncePerVnDay
      <4>2. CASE c = mine
        <5>1. d \in VisitsOf(t.user, t.venue) /\ checkIns'[d] = checkIns[d] /\ t.venue # Custom
          BY <2>1, <2>2, <4>2 DEF VisitsOf
        <5>. QED
          BY <2>1, <3>1, <4>2, <5>1
      <4>3. CASE d = mine
        <5>1. c \in VisitsOf(t.user, t.venue) /\ checkIns'[c] = checkIns[c] /\ t.venue # Custom
          BY <2>1, <2>2, <4>3 DEF VisitsOf
        <5>. QED
          BY <2>1, <3>1, <4>3, <5>1
      <4>. QED
        BY <4>1, <4>2, <4>3
    <3>. QED
      BY <3>2, <3>3, <3>4
  <2>. QED
    BY <2>4, <2>5, <2>6
<1>7. ASSUME t.kind = "remove", RemoveOK(t, holds[s]), Departs(t) PROVE Goal
  <2>0. PICK mine : mine = t.ci
    OBVIOUS
  <2>1. /\ mine \in CheckInIds /\ Live(mine) /\ CheckInDelta(t) = -1
        /\ checkIns[mine].user = t.user /\ checkIns[mine].venue = t.venue
        /\ ~Live(mine)' /\ \A c \in CheckInIds \ {mine} : checkIns'[c] = checkIns[c]
    <3>1. mine \in CheckInIds /\ Live(mine) /\ checkIns[mine] \in CheckInRow
          /\ checkIns' = [checkIns EXCEPT ![mine].deleted = TRUE]
      BY <1>0, <1>7, <2>0 DEF Departs, CheckInAsRead
    <3>2. checkIns'[mine].deleted
      BY <1>0, <3>1 DEF CheckInRow
    <3>. QED
      BY <1>0, <1>7, <2>0, <3>1, <3>2 DEF Departs, CheckInAsRead, Live
  <2>2. \A c \in CheckInIds \ {mine} : Live(c)' = Live(c)
    BY <2>1 DEF Live
  <2>3. \A u, v : u # t.user => VisitsOf(u, v)' = VisitsOf(u, v)
    BY <2>1, <2>2 DEF VisitsOf
  <2>4. ASSUME NEW r \in Sessions \ {s} PROVE HoldsLive(tx[r])' /\ HoldsLast(tx[r])'
    <3>1. tx'[r] = tx[r] /\ HoldsLive(tx[r]) /\ HoldsLast(tx[r]) /\ SessionOK(r)
      BY <1>0, <1>3
    <3>2. CASE /\ tx[r].pc # "idle" /\ tx[r].user \in accounts
               /\ tx[r].kind \in {"remove", "memory"}
      <4>1. tx[r].user # t.user /\ tx[r].ci \in CheckInIds /\ Live(tx[r].ci)
            /\ checkIns[tx[r].ci].user = tx[r].user
        BY <1>3, <1>7, <3>2, CommitOthers DEF CheckInAsRead
      <4>2. tx[r].ci # mine
        BY <2>1, <4>1
      <4>. QED
        BY <1>0, <2>2, <2>3, <3>1, <4>1, <4>2 DEF HoldsLive, HoldsLast
    <3>3. CASE tx[r].pc = "idle"
      <4>1. tx[r] = Idle
        BY <3>1, <3>3 DEF SessionOK, CastOK, CreateOK, RemoveOK, MemoryOK, GoneOK
      <4>. QED
        BY <3>1, <4>1 DEF HoldsLive, HoldsLast, Idle
    <3>4. CASE tx[r].kind \notin {"remove", "memory"} \/ tx[r].user \notin accounts
      BY <1>0, <3>1, <3>4 DEF HoldsLive, HoldsLast
    <3>. QED
      BY <3>2, <3>3, <3>4
  <2>5. ASSUME NEW u \in accounts PROVE checkInCount'[u] = Cardinality(LiveOf(u)')
    <3>1. checkInCount[u] = Cardinality(LiveOf(u)) /\ u \in Users /\ checkInCount[u] \in Int
      BY <1>0 DEF CountInv, CheckInCountExact
    <3>2. CASE u = t.user
      <4>1. LiveOf(u)' = LiveOf(u) \ {mine} /\ mine \in LiveOf(u)
        BY <2>1, <2>2, <3>2 DEF LiveOf
      <4>2. Cardinality(LiveOf(u)') = Cardinality(LiveOf(u)) - 1
        BY <1>2, <4>1, LiveMoves
      <4>. QED
        BY <1>0, <1>1, <2>1, <3>1, <3>2, <4>2
    <3>3. CASE u # t.user
      <4>1. LiveOf(u)' = LiveOf(u)
        BY <2>1, <2>2, <3>3 DEF LiveOf
      <4>. QED
        BY <1>0, <1>1, <3>1, <3>3, <4>1
    <3>. QED
      BY <3>2, <3>3
  <2>6. ASSUME DayInv
        PROVE  /\ \A r \in Sessions \ {s} : CreatesToday(tx[r])'
               /\ \A c \in CheckInIds : Live(c)' => checkIns'[c].day <= today
               /\ OncePerVnDay'
    <3>1. \A c \in CheckInIds : Live(c)' => Live(c) /\ checkIns'[c] = checkIns[c]
      BY <2>1, <2>2
    <3>2. \A u, v, c : c \in VisitsOf(u, v)' => c \in VisitsOf(u, v) /\ checkIns'[c] = checkIns[c]
      BY <3>1 DEF VisitsOf
    <3>3. ASSUME NEW r \in Sessions \ {s} PROVE CreatesToday(tx[r])'
      <4>1. tx'[r] = tx[r] /\ CreatesToday(tx[r])
        BY <1>0, <2>6 DEF DayInv
      <4>. QED
        BY <1>0, <3>2, <4>1 DEF CreatesToday
    <3>4. \A c \in CheckInIds : Live(c)' => checkIns'[c].day <= today
      BY <2>6, <3>1 DEF DayInv
    <3>5. OncePerVnDay'
      BY <2>6, <3>1 DEF DayInv, OncePerVnDay
    <3>. QED
      BY <3>3, <3>4, <3>5
  <2>. QED
    BY <2>4, <2>5, <2>6
<1>8. Goal
  BY <1>5, <1>6, <1>7, CommitMoves
<1>. QED
  BY <1>0, <1>4, <1>8 DEF CountInv, DayInv, CheckInCountExact

\* A request without its account changes nothing, and nothing is asked of it.
LEMMA GoneCounts ==
    ASSUME IInv, CountInv, NEW s \in Sessions, GoneOK(tx[s]),
           UNCHANGED <<rows, today>>, NEW pc, Goto(s, pc)
    PROVE  CountInv' /\ (DayInv => DayInv')
<1>1. Quiet(s) /\ tx'[s].user = tx[s].user
  BY MovesOn
<1>2. tx'[s].user \notin accounts'
  BY <1>1 DEF GoneOK, rows
<1>3. HoldsLive(tx[s])' /\ HoldsLast(tx[s])' /\ CreatesToday(tx[s])'
  BY <1>2 DEF HoldsLive, HoldsLast, CreatesToday
<1>. QED
  BY <1>1, <1>3, QuietCounts, QuietDays

LEMMA AbsentCounts ==
    ASSUME IInv, CountInv, NEW s \in Sessions, ~Present(s),
           \/ CastStep(s) \/ CreateStep(s) \/ RemoveStep(s) \/ MemoryStep(s)
           \/ DeleteVote(s) \/ Commit(s)
    PROVE  CountInv' /\ (DayInv => DayInv')
<1>1. GoneOK(tx[s]) /\ InFlight(s)
  BY DEF IInv, AccountsStay, Present
<1>2. CASE Commit(s)
  BY <1>1, <1>2, GoneCommits, EndCounts
<1>3. CASE \/ CreateFindLast(s) \/ CreateInsert(s)
           \/ RemoveSoftDelete(s) \/ RemoveDecrement(s)
           \/ RemoveCountRemaining(s) \/ RemoveFindVote(s)
           \/ MemoryReload(s) \/ MemorySave(s)
  <2>1. UNCHANGED <<rows, today>> /\ (End(s) \/ \E pc : Goto(s, pc))
    BY <1>1, <1>3, GoneMoves
  <2>. QED
    BY <1>1, <2>1, EndCounts, GoneCounts
<1>4. /\ ~CastFindVote(s) /\ ~CastInsertVote(s) /\ ~CastReloadVote(s)
      /\ ~CastSetVote(s) /\ ~CastCount(s) /\ ~DeleteVote(s)
      /\ ~CreateFindJourney(s) /\ ~CreateAddJourney(s) /\ ~RemoveUncount(s)
  BY <1>1, GoneStatement
     DEF CastFindVote, CastInsertVote, CastReloadVote, CastSetVote, CastCount,
         DeleteVote, CreateFindJourney, CreateAddJourney, RemoveUncount
<1>5. ~CastStep(s)
  BY <1>1, <1>4 DEF CastStep, CastBegin, MayBegin
<1>6. CreateStep(s) => CreateFindLast(s) \/ CreateInsert(s)
  BY <1>1, <1>4 DEF CreateStep, CreateBegin, MayBegin
<1>7. RemoveStep(s) => \/ RemoveSoftDelete(s) \/ RemoveDecrement(s)
                       \/ RemoveCountRemaining(s) \/ RemoveFindVote(s)
  BY <1>1, <1>4 DEF RemoveStep, RemoveBegin, MayBegin
<1>8. MemoryStep(s) => MemoryReload(s) \/ MemorySave(s)
  BY <1>1 DEF MemoryStep, MemoryBegin, MayBegin
<1>. QED
  BY <1>2, <1>3, <1>4, <1>5, <1>6, <1>7, <1>8

LEMMA InitCounts == Init => CountInv /\ DayInv
<1> SUFFICES ASSUME Init PROVE CountInv /\ DayInv
  OBVIOUS
<1>1. /\ \A s \in Sessions : tx[s] = Idle
      /\ \A c \in CheckInIds : ~Live(c)
  BY DEF Init, Live
<1>2. \A u : LiveOf(u) = {}
  BY <1>1 DEF LiveOf
<1>3. CheckInCountExact
  BY <1>2, FS_EmptySet DEF Init, CheckInCountExact
<1>4. OncePerVnDay
  BY <1>1 DEF OncePerVnDay
<1>5. \A s \in Sessions : HoldsLive(tx[s]) /\ HoldsLast(tx[s]) /\ CreatesToday(tx[s])
  BY <1>1 DEF HoldsLive, HoldsLast, CreatesToday, Idle
<1>. QED
  BY <1>1, <1>3, <1>4, <1>5 DEF CountInv, DayInv

LEMMA StepCounts ==
    ASSUME IInv, CountInv, NoRemovePairs, [Next]_vars
    PROVE  CountInv' /\ (CreatesAlone /\ DayInv => DayInv')
<1> DEFINE Goal == CountInv' /\ (CreatesAlone /\ DayInv => DayInv')
<1>1. ASSUME NEW s \in Sessions,
             CastStep(s) \/ CreateStep(s) \/ RemoveStep(s) \/ MemoryStep(s) \/ DeleteVote(s)
      PROVE  Goal
  BY <1>1, CastCounts, CreateCounts, RemoveCounts, MemoryCounts, DeleteVoteCounts,
     AbsentCounts
<1>2. ASSUME NEW s \in Sessions, Commit(s) PROVE Goal
  BY <1>2, CommitCounts, AbsentCounts
<1>3. ASSUME NEW s \in Sessions, Abort(s) PROVE Goal
  BY <1>3, EndCounts DEF Abort
<1>4. ASSUME NEW s \in Sessions, NEW u \in Users, NEW v \in Venues, LeaveJourney(s, u, v)
      PROVE  Goal
  BY <1>4, LeaveCounts DEF LeaveJourney
<1>5. ASSUME NEW s \in Sessions, NEW u \in Users, DeleteAccount(s, u) PROVE Goal
  BY <1>5, DeleteCounts
<1>6. CASE Midnight
  BY <1>6, MidnightCounts
<1>7. CASE UNCHANGED vars
  BY <1>7, LeaveCounts DEF vars, rows
<1>. QED
  BY <1>1, <1>2, <1>3, <1>4, <1>5, <1>6, <1>7 DEF Next

LEMMA CountInvAlways == NoCastPairs /\ NoRemovePairs => (Spec => [](IInv /\ CountInv))
<1> SUFFICES ASSUME NoCastPairs, NoRemovePairs PROVE Spec => [](IInv /\ CountInv)
  OBVIOUS
<1>1. Init => IInv /\ CountInv
  BY InitIInv, InitCounts
<1>2. IInv /\ CountInv /\ [Next]_vars => (IInv /\ CountInv)'
  BY StepIInv, StepCounts
<1>. QED
  BY <1>1, <1>2, PTL DEF Spec

\* user.checkInCount is the number of live check-ins of every account, whatever rolls
\* back and whichever accounts go, as long as no cast overlaps as said above and no removal of a check-in overlaps with
\* another removal or a memory edit of the same user (CheckInsService.remove
\* decrements without looking at what its soft delete touched).
THEOREM CheckInCountsAreExact ==
    NoCastPairs /\ NoRemovePairs => (Spec => []CheckInCountExact)
<1>1. CountInv => CheckInCountExact
  BY DEF CountInv
<1>. QED
  BY <1>1, CountInvAlways, PTL

\* At most one check-in a day of a user at a venue, for any number of users, days and
\* removals in between, as long as no two creates of a user overlap and none is open
\* at midnight: the read before the insert (CheckInsService.create) is enough then.
THEOREM OneCheckInADay ==
    NoCastPairs /\ NoRemovePairs /\ CreatesAlone => (Spec => []OncePerVnDay)
<1> SUFFICES ASSUME NoCastPairs, NoRemovePairs, CreatesAlone PROVE Spec => []OncePerVnDay
  OBVIOUS
<1>1. Init => IInv /\ CountInv /\ DayInv
  BY InitIInv, InitCounts
<1>2. IInv /\ CountInv /\ DayInv /\ [Next]_vars => (IInv /\ CountInv /\ DayInv)'
  BY StepIInv, StepCounts
<1>3. DayInv => OncePerVnDay
  BY DEF DayInv
<1>. QED
  BY <1>1, <1>2, <1>3, PTL DEF Spec

-----------------------------------------------------------------------------
(* The ledger.                                                             *)

\* What the ledger sees of a user at a place.
Visits(u, p) == Cardinality(VisitsOf(u, p))
VisitsMap == [u \in Users |-> [p \in Places |-> Visits(u, p)]]
OpinionMap == [u \in Users |-> [v \in Venues |-> Opinion(u, v)]]

\* uq_vote_user_venue: the vote of a user at a venue is their opinion of it.
LEMMA OpinionIs ==
    ASSUME IInv, NEW u, NEW v
    PROVE  /\ VoteOf(u, v) = {} => Opinion(u, v) = 0
           /\ \A i \in VoteOf(u, v) : Opinion(u, v) = votes[i].value
<1>1. \A i, j \in VoteOf(u, v) : i = j
  BY DEF IInv, VoteKeys, VoteOf
<1>. QED
  BY <1>1 DEF Opinion

LEMMA VisitsAre ==
    \A u, p : IsFiniteSet(VisitsOf(u, p)) /\ Visits(u, p) \in Nat
BY FS_Subset, FS_CardinalityType, ConstantsAssumption DEF VisitsOf, Visits

\* Nothing that the ledger sees has moved.
LEMMA LedgerStays ==
    ASSUME UNCHANGED <<accounts, checkIns, votes, upvotes, checkInCount>>
    PROVE  UNCHANGED Ledger!vars
<1>1. \A u, p : VisitsOf(u, p)' = VisitsOf(u, p) /\ Opinion(u, p)' = Opinion(u, p)
  BY DEF VisitsOf, Live, Opinion, VoteOf
<1>. QED
  BY <1>1 DEF Ledger!vars

LEMMA LedgerBegins == Init => Ledger!Init
<1> SUFFICES ASSUME Init PROVE Ledger!Init
  OBVIOUS
<1>1. \A u, p : VisitsOf(u, p) = {} /\ Opinion(u, p) = 0
  BY DEF Init, VisitsOf, Live, Opinion, VoteOf
<1>. QED
  BY <1>1, FS_EmptySet DEF Init, Ledger!Init, Places, Ledger!Places

LEMMA OpinionNow ==
    IInv => \A u, v : /\ VoteOf(u, v) = {} => Opinion(u, v) = 0
                      /\ \A i \in VoteOf(u, v) : Opinion(u, v) = votes[i].value
BY OpinionIs

LEMMA OpinionNext ==
    IInv' => (\A u, v : /\ VoteOf(u, v) = {} => Opinion(u, v) = 0
                        /\ \A i \in VoteOf(u, v) : Opinion(u, v) = votes[i].value)'
BY OpinionNow, PTL

\* The one vote of a user at a venue comes, goes or turns; no other opinion moves.
LEMMA OpinionMoves ==
    ASSUME IInv, IInv', NEW u, NEW v, NEW i \in VoteIds, NEW row,
           votes'[i] = row, \A j \in VoteIds \ {i} : votes'[j] = votes[j],
           row # None => row.user = u /\ row.venue = v,
           VoteOf(u, v) = {i} \/ (votes[i] = None /\ VoteOf(u, v) = {})
    PROVE  /\ Opinion(u, v)' = IF row = None THEN 0 ELSE row.value
           /\ \A w, p : w # u \/ p # v => Opinion(w, p)' = Opinion(w, p)
<1>2. Opinion(u, v)' = IF row = None THEN 0 ELSE row.value
  <2>1. CASE row = None
    <3>1. VoteOf(u, v)' = {}
      BY <2>1 DEF VoteOf
    <3>. QED
      BY <2>1, <3>1, OpinionNext
  <2>2. CASE row # None
    <3>1. i \in VoteOf(u, v)'
      BY <2>2 DEF VoteOf
    <3>. QED
      BY <2>2, <3>1, OpinionNext
  <2>. QED
    BY <2>1, <2>2
<1>3. ASSUME NEW w, NEW p, w # u \/ p # v PROVE Opinion(w, p)' = Opinion(w, p)
  <2>1. i \notin VoteOf(w, p) /\ i \notin VoteOf(w, p)'
    BY <1>3 DEF VoteOf
  <2>2. VoteOf(w, p)' = VoteOf(w, p) /\ \A j \in VoteOf(w, p) : votes'[j] = votes[j]
    BY <2>1 DEF VoteOf
  <2>3. CASE VoteOf(w, p) = {}
    BY <2>2, <2>3, OpinionNow, OpinionNext
  <2>4. CASE VoteOf(w, p) # {}
    <3>1. PICK j \in VoteOf(w, p) : TRUE
      BY <2>4
    <3>2. Opinion(w, p) = votes[j].value
      BY <3>1, OpinionNow
    <3>3. Opinion(w, p)' = votes'[j].value
      BY <2>2, <3>1, OpinionNext
    <3>. QED
      BY <2>2, <3>1, <3>2, <3>3
  <2>. QED
    BY <2>3, <2>4
<1>. QED
  BY <1>2, <1>3

LEMMA OpinionType ==
    IInv => \A u, v : Opinion(u, v) \in Int
<1> SUFFICES ASSUME IInv, NEW u, NEW v PROVE Opinion(u, v) \in Int
  OBVIOUS
<1>1. \A i \in VoteIds : votes[i] # None => votes[i].value \in Int
  BY DEF IInv, TypeOK, VoteRow, VoteValues
<1>. QED
  BY <1>1, OpinionNow DEF VoteOf

LEMMA OpinionTypeNext == IInv' => (\A u, v : Opinion(u, v) \in Int)'
BY OpinionType, PTL

LEMMA VisitsAreNext == (\A u, p : IsFiniteSet(VisitsOf(u, p)) /\ Visits(u, p) \in Nat)'
BY VisitsAre, PTL

\* A table of which one cell changes.
LEMMA OneCell ==
    ASSUME NEW A, NEW B, NEW f \in [A -> [B -> Int]], NEW g \in [A -> [B -> Int]],
           NEW a \in A, NEW b \in B,
           \A c \in A, d \in B : c # a \/ d # b => g[c][d] = f[c][d]
    PROVE  g = [f EXCEPT ![a][b] = g[a][b]]
OBVIOUS

\* A step of the ledger that changes an opinion, and one that changes a count.
LEMMA Opines ==
    ASSUME IInv, IInv', NEW u \in Users, NEW v \in Venues, NEW value,
           Opinion(u, v)' = value,
           \A w, p : w # u \/ p # v => Opinion(w, p)' = Opinion(w, p),
           upvotes' = [upvotes EXCEPT ![v] =
              @ + Ledger!Upvote(value) - Ledger!Upvote(Opinion(u, v))]
    PROVE  Ledger!Opine(u, v, value)
<1>1. OpinionMap \in [Users -> [Venues -> Int]]
  BY OpinionType DEF OpinionMap
<1>2. (OpinionMap \in [Users -> [Venues -> Int]])'
  BY OpinionTypeNext DEF OpinionMap
<1>3. \A w \in Users, p \in Venues : /\ OpinionMap[w][p] = Opinion(w, p)
                                     /\ OpinionMap'[w][p] = Opinion(w, p)'
  BY DEF OpinionMap
<1>4. OpinionMap' = [OpinionMap EXCEPT ![u][v] = OpinionMap'[u][v]]
  BY <1>1, <1>2, <1>3, OneCell
<1>. QED
  BY <1>3, <1>4 DEF Ledger!Opine, OpinionMap

LEMMA VisitsMove ==
    ASSUME NEW u \in Users, NEW p \in Places, NEW n \in Int,
           Visits(u, p)' = n,
           \A w, q : w # u \/ q # p => VisitsOf(w, q)' = VisitsOf(w, q)
    PROVE  VisitsMap' = [VisitsMap EXCEPT ![u][p] = n]
<1>1. VisitsMap \in [Users -> [Places -> Int]]
  BY VisitsAre DEF VisitsMap
<1>2. (VisitsMap \in [Users -> [Places -> Int]])'
  BY VisitsAreNext DEF VisitsMap
<1>3. \A w \in Users, q \in Places : /\ VisitsMap[w][q] = Visits(w, q)
                                     /\ VisitsMap'[w][q] = Visits(w, q)'
  BY DEF VisitsMap
<1>4. \A w, q : w # u \/ q # p => Visits(w, q)' = Visits(w, q)
  BY DEF Visits
<1>. QED
  BY <1>1, <1>2, <1>3, <1>4, OneCell

LEMMA LedgerVotes ==
    ASSUME IInv, IInv', NEW s \in Sessions, Commit(s), tx[s].kind = "cast", CastOK(tx[s]),
           checkInCount' = checkInCount
    PROVE  Ledger!Vote(tx[s].user, tx[s].venue, tx[s].want)
<1> DEFINE t == tx[s]
<1>0. PICK u, v, i, row : u = t.user /\ v = t.venue /\ i = t.vote /\ row = VoteAfter(t)
  OBVIOUS
<1>1. /\ u \in Users /\ v \in Venues /\ i \in VoteIds /\ VisitsOf(u, v) # {}
      /\ row # None => row.user = u /\ row.venue = v
      /\ checkIns' = checkIns /\ votes' = [votes EXCEPT ![i] = row]
      /\ upvotes' = [upvotes EXCEPT ![v] = @ + UpvotesDelta(t)]
  BY <1>0, CastEffect
<1>2. /\ t.pc = "commit" /\ t.want \in VoteValues /\ UpvotesDelta(t) = VoteDelta(t.old, t.want)
      /\ votes \in [VoteIds -> VoteRow \cup {None}] /\ UNCHANGED accounts
  BY CommitFrame DEF Commit, CastOK, UpvotesDelta, IInv, TypeOK
<1>3. \/ /\ t.old = 0 /\ votes[i] = None /\ VoteOf(u, v) = {}
         /\ row = [user |-> u, venue |-> v, value |-> t.want]
      \/ /\ VoteAsRead(t) /\ t.old = t.want /\ row = None
      \/ /\ VoteAsRead(t) /\ t.old # t.want /\ row # None /\ row.value = t.want
  <2>1. CASE /\ t.writes = {"insertVote"} /\ t.old = 0 /\ t.vote \in VoteIds
             /\ votes[t.vote] = None /\ VoteOf(t.user, t.venue) = {}
    BY <1>0, <2>1 DEF VoteAfter
  <2>2. CASE t.writes = {"deleteVote"} /\ VoteAsRead(t) /\ t.old = t.want
    BY <1>0, <2>2 DEF VoteAfter
  <2>3. CASE t.writes = {"setVote"} /\ VoteAsRead(t) /\ t.old # t.want
    <3>1. row = [votes[t.vote] EXCEPT !.value = t.want] /\ votes[t.vote] \in VoteRow
      BY <1>0, <1>2, <2>3 DEF VoteAfter, VoteAsRead
    <3>2. row \in VoteRow /\ row.value = t.want
      BY <1>2, <3>1 DEF VoteRow
    <3>. QED
      BY <2>3, <3>2, RowAssumption
  <2>. QED
    BY <1>2, <2>1, <2>2, <2>3 DEF CastOK
<1>4. VoteAsRead(t) => VoteOf(u, v) = {i} /\ votes[i].value = t.old
  BY <1>0, <1>1 DEF VoteAsRead, VoteOf, IInv, VoteKeys
<1>5. /\ Opinion(u, v)' = IF row = None THEN 0 ELSE row.value
      /\ \A w, p : w # u \/ p # v => Opinion(w, p)' = Opinion(w, p)
  <2>1. VoteOf(u, v) = {i} \/ (votes[i] = None /\ VoteOf(u, v) = {})
    BY <1>3, <1>4
  <2>2. votes'[i] = row /\ \A j \in VoteIds \ {i} : votes'[j] = votes[j]
    BY <1>1, <1>2
  <2>. QED
    BY <1>1, <2>1, <2>2, OpinionMoves
<1>6. Opinion(u, v) = t.old
  BY <1>3, <1>4, OpinionNow
<1> DEFINE value == IF Opinion(u, v) = t.want THEN 0 ELSE t.want
<1>7. value = IF row = None THEN 0 ELSE row.value
  <2>1. t.want # 0
    BY <1>2 DEF VoteValues
  <2>2. [user |-> u, venue |-> v, value |-> t.want] # None
    BY <1>1, <1>2, RowAssumption DEF VoteRow
  <2>. QED
    BY <1>3, <1>6, <2>1, <2>2
<1>8. UpvotesDelta(t) = Ledger!Upvote(value) - Ledger!Upvote(t.old)
  <2>1. t.old \in VoteValues \cup {0}
    BY CommitFrame DEF TxState
  <2>. QED
    BY <1>2, <1>6, <2>1 DEF VoteDelta, Ledger!Upvote, VoteValues
<1>9. upvotes' = [upvotes EXCEPT ![v] = @ + Ledger!Upvote(value) - Ledger!Upvote(Opinion(u, v))]
  <2>1. upvotes[v] \in Int /\ Ledger!Upvote(value) \in Int /\ Ledger!Upvote(t.old) \in Int
    BY <1>1 DEF IInv, TypeOK, Ledger!Upvote
  <2>2. upvotes[v] + UpvotesDelta(t) = upvotes[v] + Ledger!Upvote(value) - Ledger!Upvote(t.old)
    BY <1>8, <2>1
  <2>. QED
    BY <1>1, <1>6, <2>2
<1> HIDE DEF value
<1>10. Ledger!Opine(u, v, value)
  BY <1>1, <1>5, <1>7, <1>9, Opines
<1>11. Visits(u, v) > 0
  BY <1>1, VisitsAre, FS_EmptySet DEF Visits
<1>12. UNCHANGED <<accounts, VisitsMap, checkInCount>>
  BY <1>1, <1>2 DEF VisitsMap, Visits, VisitsOf, Live
<1>. QED
  BY <1>0, <1>1, <1>10, <1>11, <1>12 DEF Ledger!Vote, value, VisitsMap, Visits, Places

LEMMA LedgerChecksIn ==
    ASSUME IInv, CountInv, NEW s \in Sessions, Commit(s),
           tx[s].kind = "create", CreateOK(tx[s], holds[s]), Arrives(tx[s])
    PROVE  Ledger!CheckIn(tx[s].user, tx[s].venue)
<1> DEFINE t == tx[s]
<1>0. PICK u, p, c : u = t.user /\ p = t.venue /\ c = t.ci
  OBVIOUS
<1>1. /\ u \in Users /\ p \in Places /\ c \in CheckInIds /\ checkIns[c] = None
      /\ t.vote = None /\ t.kind = "create" /\ CheckInDelta(t) = 1 /\ UNCHANGED accounts
      /\ checkIns \in [CheckInIds -> CheckInRow \cup {None}]
      /\ t \in TxState
  BY <1>0, CommitFrame DEF CreateOK, Arrives, IInv, TypeOK
<1>2. /\ checkIns'[c] = [user |-> u, venue |-> p, day |-> t.day, deleted |-> FALSE]
      /\ checkIns'[c] # None
      /\ \A d \in CheckInIds \ {c} : checkIns'[d] = checkIns[d]
  <2>1. [user |-> u, venue |-> p, day |-> t.day, deleted |-> FALSE] \in CheckInRow
    BY <1>1 DEF TxState, CheckInRow
  <2>. QED
    BY <1>0, <1>1, <2>1, RowAssumption DEF Arrives
<1>3. VisitsOf(u, p)' = VisitsOf(u, p) \cup {c} /\ c \notin VisitsOf(u, p)
  BY <1>1, <1>2 DEF VisitsOf, Live
<1>4. \A w, q : w # u \/ q # p => VisitsOf(w, q)' = VisitsOf(w, q)
  BY <1>1, <1>2 DEF VisitsOf, Live
<1>5. Visits(u, p) \in Int /\ Visits(u, p)' = Visits(u, p) + 1
  BY <1>3, VisitsAre, LiveMoves DEF Visits
<1>6. VisitsMap' = [VisitsMap EXCEPT ![u][p] = Visits(u, p) + 1]
  BY <1>1, <1>4, <1>5, VisitsMove
<1>7. VisitsMap[u][p] = Visits(u, p)
  BY <1>1 DEF VisitsMap
<1>8. votes' = votes /\ upvotes' = upvotes
  <2>1. UpvotesDelta(t) = 0
    BY <1>1 DEF UpvotesDelta
  <2>2. upvotes' = IF p = Custom THEN upvotes ELSE [upvotes EXCEPT ![p] = @ + 0]
    BY <1>0, <2>1 DEF Commit
  <2>3. upvotes \in [Venues -> Int]
    BY DEF IInv, TypeOK
  <2>4. p # Custom => [upvotes EXCEPT ![p] = @ + 0] = upvotes
    BY <1>1, <2>3 DEF Places
  <2>. QED
    BY <1>1, <2>2, <2>4 DEF Commit
<1>9. OpinionMap' = OpinionMap
  BY <1>8 DEF OpinionMap, Opinion, VoteOf
<1>10. checkInCount' = [checkInCount EXCEPT ![u] = @ + 1]
  BY <1>0, <1>1 DEF Commit
<1>11. VisitsMap' = [VisitsMap EXCEPT ![u][p] = @ + 1]
  BY <1>1, <1>6, <1>7 DEF VisitsMap
<1>. QED
  BY <1>0, <1>1, <1>8, <1>9, <1>10, <1>11 DEF Ledger!CheckIn, VisitsMap, Visits, OpinionMap

LEMMA LedgerRemoves ==
    ASSUME IInv, IInv', CountInv, NEW s \in Sessions, Present(s), Commit(s),
           tx[s].kind = "remove", RemoveOK(tx[s], holds[s]), Departs(tx[s])
    PROVE  Ledger!RemoveCheckIn(tx[s].user, tx[s].venue)
<1> DEFINE t == tx[s]
<1>0. PICK u, p, c, i : u = t.user /\ p = t.venue /\ c = t.ci /\ i = t.vote
  OBVIOUS
<1>1. /\ u \in Users /\ p \in Places /\ c \in CheckInIds /\ checkIns[c] # None /\ Live(c)
      /\ checkIns[c] \in CheckInRow /\ checkIns[c].user = u /\ checkIns[c].venue = p
      /\ CheckInDelta(t) = -1 /\ UNCHANGED accounts
  BY <1>0, CommitFrame DEF RemoveOK, Departs, CheckInAsRead, IInv, TypeOK
<1>2. /\ checkIns'[c].deleted
      /\ \A d \in CheckInIds \ {c} : checkIns'[d] = checkIns[d]
  BY <1>0, <1>1 DEF Departs, IInv, TypeOK, CheckInRow
<1>3. VisitsOf(u, p)' = VisitsOf(u, p) \ {c} /\ c \in VisitsOf(u, p)
  BY <1>1, <1>2 DEF VisitsOf, Live
<1>4. \A w, q : w # u \/ q # p => VisitsOf(w, q)' = VisitsOf(w, q)
  BY <1>1, <1>2 DEF VisitsOf, Live
<1>5. Visits(u, p) \in Nat /\ Visits(u, p)' = Visits(u, p) - 1 /\ Visits(u, p) > 0
  <2>1. VisitsOf(u, p) # {} /\ IsFiniteSet(VisitsOf(u, p)) /\ Visits(u, p) \in Nat
    BY <1>3, VisitsAre
  <2>2. Visits(u, p)' = Visits(u, p) - 1
    BY <1>3, <2>1, LiveMoves DEF Visits
  <2>3. Visits(u, p) # 0
    BY <2>1, FS_EmptySet DEF Visits
  <2>. QED
    BY <2>1, <2>2, <2>3
<1>6. VisitsMap' = [VisitsMap EXCEPT ![u][p] = Visits(u, p) - 1]
  BY <1>1, <1>4, <1>5, VisitsMove
<1>7. VisitsMap[u][p] = Visits(u, p)
  BY <1>1 DEF VisitsMap
<1>8. VisitsMap' = [VisitsMap EXCEPT ![u][p] = @ - 1]
  BY <1>1, <1>6, <1>7 DEF VisitsMap
<1>9. checkInCount' = [checkInCount EXCEPT ![u] = @ - 1]
  <2>1. checkInCount' = [checkInCount EXCEPT ![u] = checkInCount[u] + (-1)]
    BY <1>0, <1>1 DEF Commit
  <2>2. checkInCount[u] + (-1) = checkInCount[u] - 1
    BY <1>1 DEF IInv, TypeOK
  <2>. QED
    BY <2>1, <2>2
\* The last check-in at a venue: the vote goes with it.
<1> DEFINE Keeps == UNCHANGED <<OpinionMap, upvotes>>
           Takes == p # Custom /\ Visits(u, p) = 1
<1>10. (Takes => Ledger!Opine(u, p, 0)) /\ (~Takes => Keeps)
  <2>1. CASE /\ votes' = votes
             /\ \A v \in Venues : upvotes'[v] = upvotes[v]
             /\ \/ p = Custom
                \/ VisitsOf(u, p) \ {c} # {}
                \/ VoteOf(u, p) = {}
    <3>1. upvotes' = upvotes
      BY <2>1 DEF IInv, TypeOK
    <3>2. Keeps /\ \A w, q : Opinion(w, q)' = Opinion(w, q)
      BY <2>1, <3>1 DEF OpinionMap, Opinion, VoteOf
    <3>3. ASSUME Takes PROVE Ledger!Opine(u, p, 0)
      <4>1. VisitsOf(u, p) \ {c} = {}
        <5>1. Cardinality(VisitsOf(u, p) \ {c}) = 0 /\ IsFiniteSet(VisitsOf(u, p) \ {c})
          BY <1>3, <1>5, <3>3, VisitsAre, FS_RemoveElement DEF Visits
        <5>. QED
          BY <5>1, FS_EmptySet
      <4>2. VoteOf(u, p) = {} /\ p \in Venues
        BY <1>1, <2>1, <3>3, <4>1 DEF Places
      <4>3. Opinion(u, p) = 0
        BY <4>2, OpinionNow
      <4>4. upvotes' = [upvotes EXCEPT ![p] = @ + Ledger!Upvote(0) - Ledger!Upvote(Opinion(u, p))]
        BY <3>1, <4>2, <4>3 DEF Ledger!Upvote, IInv, TypeOK
      <4>. QED
        BY <1>1, <3>2, <4>2, <4>3, <4>4, Opines
    <3>. QED
      BY <3>2, <3>3
  <2>2. CASE /\ VoteAsRead(t) /\ t.venue \in Venues /\ t.old \in VoteValues
             /\ votes' = [votes EXCEPT ![t.vote] = None]
             /\ upvotes' = [upvotes EXCEPT ![t.venue] = @ + UpvotesDelta(t)]
             /\ UpvotesDelta(t) = IF t.old = 1 THEN -1 ELSE 0
    <3>1. i \in VoteIds /\ p \in Venues /\ p # Custom /\ VoteOf(u, p) = {i} /\ votes[i].value = t.old
      BY <1>0, <2>2, ConstantsAssumption DEF VoteAsRead, VoteOf, IInv, VoteKeys
    <3>2. Takes
      <4>1. HoldsLast(t) /\ i # None
        BY <3>1, ConstantsAssumption DEF CountInv
      <4>2. VisitsOf(u, p) = {c}
        BY <1>0, <4>1 DEF HoldsLast, Present, InFlight, Commit
      <4>. QED
        BY <3>1, <4>2, FS_Singleton DEF Visits
    <3>3. Opinion(u, p)' = 0 /\ \A w, q : w # u \/ q # p => Opinion(w, q)' = Opinion(w, q)
      <4>1. votes'[i] = None /\ \A j \in VoteIds \ {i} : votes'[j] = votes[j]
        BY <1>0, <2>2, <3>1 DEF IInv, TypeOK
      <4>. QED
        BY <3>1, <4>1, OpinionMoves
    <3>4. Opinion(u, p) = t.old
      BY <3>1, OpinionNow
    <3>5. upvotes' = [upvotes EXCEPT ![p] = @ + Ledger!Upvote(0) - Ledger!Upvote(Opinion(u, p))]
      <4>1. upvotes[p] + UpvotesDelta(t)
              = upvotes[p] + Ledger!Upvote(0) - Ledger!Upvote(Opinion(u, p))
        BY <2>2, <3>1, <3>4 DEF Ledger!Upvote, IInv, TypeOK, VoteValues
      <4>. QED
        BY <1>0, <2>2, <4>1
    <3>. QED
      BY <1>1, <3>1, <3>2, <3>3, <3>5, Opines
  <2>. QED
    BY <1>0, <2>1, <2>2, RemoveEffect
<1>. QED
  BY <1>0, <1>1, <1>5, <1>7, <1>8, <1>9, <1>10
     DEF Ledger!RemoveCheckIn, VisitsMap, Visits, OpinionMap

LEMMA LedgerErases ==
    ASSUME IInv, IInv', NEW s \in Sessions, NEW u \in Users, DeleteAccount(s, u)
    PROVE  u \in accounts /\ Ledger!Erase(u)
<1>1. /\ u \in accounts /\ accounts' = accounts \ {u} /\ UNCHANGED <<upvotes, checkInCount>>
      /\ \A c \in CheckInIds : checkIns'[c] =
           IF checkIns[c] # None /\ checkIns[c].user = u THEN None ELSE checkIns[c]
      /\ \A i \in VoteIds : votes'[i] =
           IF votes[i] # None /\ votes[i].user = u THEN None ELSE votes[i]
  BY DEF DeleteAccount, MayBegin
<1>2. \A w, p : VisitsOf(w, p)' = IF w = u THEN {} ELSE VisitsOf(w, p)
  BY <1>1 DEF VisitsOf, Live
<1>3. \A w, p : Opinion(w, p)' = IF w = u THEN 0 ELSE Opinion(w, p)
  <2> SUFFICES ASSUME NEW w, NEW p
               PROVE  Opinion(w, p)' = IF w = u THEN 0 ELSE Opinion(w, p)
    OBVIOUS
  <2>1. CASE w = u
    <3>1. VoteOf(w, p)' = {}
      BY <1>1, <2>1 DEF VoteOf
    <3>. QED
      BY <2>1, <3>1, OpinionNext
  <2>2. CASE w # u
    <3>1. VoteOf(w, p)' = VoteOf(w, p) /\ \A i \in VoteOf(w, p) : votes'[i] = votes[i]
      BY <1>1, <2>2 DEF VoteOf
    <3>2. CASE VoteOf(w, p) = {}
      BY <2>2, <3>1, <3>2, OpinionNow, OpinionNext
    <3>3. CASE VoteOf(w, p) # {}
      <4>1. PICK i \in VoteOf(w, p) : TRUE
        BY <3>3
      <4>2. Opinion(w, p) = votes[i].value
        BY <4>1, OpinionNow
      <4>3. Opinion(w, p)' = votes'[i].value
        BY <3>1, <4>1, OpinionNext
      <4>. QED
        BY <2>2, <3>1, <4>1, <4>2, <4>3
    <3>. QED
      BY <3>2, <3>3
  <2>. QED
    BY <2>1, <2>2
<1>4. \A w, p : Visits(w, p)' = IF w = u THEN 0 ELSE Visits(w, p)
  BY <1>2, FS_EmptySet DEF Visits
<1>5. VisitsMap' = [VisitsMap EXCEPT ![u] = [p \in Places |-> 0]]
  BY <1>4 DEF VisitsMap
<1>6. OpinionMap' = [OpinionMap EXCEPT ![u] = [v \in Venues |-> 0]]
  BY <1>3 DEF OpinionMap
<1>. QED
  BY <1>1, <1>5, <1>6
     DEF Ledger!Erase, VisitsMap, Visits, OpinionMap, Places, Ledger!Places

LEMMA LedgerStep ==
    ASSUME IInv, IInv', CountInv, [Next]_vars
    PROVE  [Ledger!Next]_(Ledger!vars)
<1>7. ASSUME NEW s \in Sessions, Commit(s), ~Present(s) PROVE UNCHANGED rows
  BY <1>7, GoneCommits DEF IInv, AccountsStay
<1>1. ASSUME NEW s \in Sessions, Commit(s), Present(s)
      PROVE  [Ledger!Next]_(Ledger!vars)
  <2>1. /\ SessionOK(s) /\ tx[s].pc = "commit" /\ tx[s] # Idle
        /\ tx[s].user \in accounts /\ accounts' = accounts
        /\ checkInCount' = [checkInCount EXCEPT ![tx[s].user] = @ + CheckInDelta(tx[s])]
        /\ checkInCount \in [Users -> Int]
    <3>1. tx[s].pc = "commit" /\ tx[s] # Idle
      BY <1>1 DEF Commit, Idle
    <3>2. SessionOK(s)
      BY DEF IInv, SessionsOK
    <3>3. InFlight(s) /\ accounts' = accounts
      BY <1>1, CommitFrame
    <3>4. tx[s].user \in accounts
      BY <1>1, <3>3 DEF Present
    <3>5. checkInCount' = [checkInCount EXCEPT ![tx[s].user] = @ + CheckInDelta(tx[s])]
      BY <1>1 DEF Commit
    <3>6. checkInCount \in [Users -> Int]
      BY DEF IInv, TypeOK
    <3>. QED
      BY <3>1, <3>2, <3>3, <3>4, <3>5, <3>6
  <2>2. CASE tx[s].kind = "cast" /\ CastOK(tx[s])
    <3>1. Nothing(tx[s]) /\ tx[s].user \in Users
      BY <1>1, <2>2, CommitMoves
    <3>2. checkInCount' = checkInCount
      BY <2>1, <3>1 DEF Nothing
    <3>3. Ledger!Vote(tx[s].user, tx[s].venue, tx[s].want)
      BY <1>1, <2>2, <3>2, LedgerVotes
    <3>. QED
      BY <2>1, <2>2, <3>3 DEF CastOK, VoteValues, Ledger!Next
  <2>3. CASE tx[s].kind = "create" /\ CreateOK(tx[s], holds[s])
    <3>1. Arrives(tx[s]) /\ tx[s].venue \in Ledger!Places
      BY <1>1, <2>3, CommitMoves DEF CreateOK, Places, Ledger!Places
    <3>. QED
      BY <1>1, <2>1, <2>3, <3>1, LedgerChecksIn DEF Ledger!Next
  <2>4. CASE tx[s].kind = "remove" /\ RemoveOK(tx[s], holds[s])
    <3>1. Departs(tx[s]) /\ tx[s].venue \in Ledger!Places
      BY <1>1, <2>4, CommitMoves DEF RemoveOK, Places, Ledger!Places
    <3>. QED
      BY <1>1, <2>1, <2>4, <3>1, LedgerRemoves DEF Ledger!Next
  <2>5. CASE tx[s].kind = "memory" /\ MemoryOK(tx[s])
    <3>1. Nothing(tx[s]) /\ tx[s].user \in Users /\ tx[s].vote = None
          /\ UpvotesDelta(tx[s]) = 0
      BY <1>1, <2>5, CommitMoves DEF MemoryOK, UpvotesDelta
    <3>2. checkInCount' = checkInCount /\ checkIns' = checkIns
      BY <2>1, <3>1 DEF Nothing
    <3>3. votes' = votes
      BY <1>1, <3>1 DEF Commit
    <3>4. upvotes' = upvotes
      BY <1>1, <3>1 DEF Commit, IInv, TypeOK
    <3>. QED
      BY <2>1, <3>2, <3>3, <3>4, LedgerStays
  <2>6. ~GoneOK(tx[s])
    BY <2>1 DEF GoneOK
  <2>. QED
    BY <2>1, <2>2, <2>3, <2>4, <2>5, <2>6 DEF SessionOK
<1>2. ASSUME NEW s \in Sessions, NEW u \in Users, DeleteAccount(s, u) PROVE Ledger!Next
  BY <1>2, LedgerErases DEF Ledger!Next
<1>3. ASSUME NEW s \in Sessions,
             \/ CastStep(s) \/ CreateStep(s) \/ RemoveStep(s) \/ MemoryStep(s)
             \/ DeleteVote(s) \/ Abort(s)
      PROVE  UNCHANGED rows
  BY <1>3 DEF CastStep, CreateStep, RemoveStep, MemoryStep, CastBegin, CastFindVote,
     CastInsertVote, CastReloadVote, CastSetVote, CastCount, CreateBegin, CreateFindLast,
     CreateInsert, CreateFindJourney, CreateAddJourney, RemoveBegin, RemoveSoftDelete,
     RemoveDecrement, RemoveCountRemaining, RemoveFindVote, RemoveUncount, MemoryBegin,
     MemoryReload, MemorySave, DeleteVote, Abort
<1>4. ASSUME NEW s \in Sessions, NEW u \in Users, NEW v \in Venues, LeaveJourney(s, u, v)
      PROVE  UNCHANGED Ledger!vars
  BY <1>4, LedgerStays DEF LeaveJourney
<1>5. CASE Midnight \/ UNCHANGED vars
  BY <1>5, LedgerStays DEF Midnight, vars, rows
<1>6. UNCHANGED rows => UNCHANGED Ledger!vars
  BY LedgerStays DEF rows
<1>. QED
  BY <1>1, <1>2, <1>3, <1>4, <1>5, <1>6, <1>7 DEF Next

\* Under the two conditions (no cast of a user overlaps with a cast, a removal or the
\* deletion of the account, no removal with a removal or a memory edit) the
\* transactions implement the ledger: every check-in, removal, vote and deletion of
\* an account takes effect at once and entirely, with both counters. A check-in,
\* removal or memory edit that the deletion of its account overtakes has no effect.
THEOREM EngagementImplementsLedger ==
    NoCastPairs /\ NoRemovePairs => (Spec => ImplementsLedger)
<1> SUFFICES ASSUME NoCastPairs, NoRemovePairs PROVE Spec => ImplementsLedger
  OBVIOUS
<1>1. Init => Ledger!Init
  BY LedgerBegins
<1>2. IInv /\ CountInv /\ IInv' /\ [Next]_vars => [Ledger!Next]_(Ledger!vars)
  BY LedgerStep
<1>. QED
  BY <1>1, <1>2, CountInvAlways, PTL DEF Spec, Ledger!Spec, ImplementsLedger
=============================================================================
