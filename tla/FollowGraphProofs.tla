-------------------------- MODULE FollowGraphProofs --------------------------
(***************************************************************************)
(* Proofs about FollowGraph, for any number of users and of overlapping    *)
(* transactions, when no whole-row save races with the counters it writes. *)
(***************************************************************************)
EXTENDS FollowGraph, FiniteSetTheorems, TLAPS

-----------------------------------------------------------------------------
(* The inductive invariant.                                                *)

LocksCompatible ==
    \A s, t \in Sessions : s # t =>
        \A l \in holds[s], m \in holds[t] : Compatible(l, m)

\* An account that goes, and one that is saved, has no other request in flight.
ActsAlone ==
    \A s, t \in Sessions :
        /\ s # t /\ InFlight(s) /\ InFlight(t)
        /\ tx[s].kind \in {"account", "save"}
        => tx[s].user # tx[t].user

\* No counters move under a save.
SavesUndisturbed ==
    \A s, t \in Sessions :
        s # t /\ InFlight(s) /\ InFlight(t) /\ tx[s].kind = "save"
        => tx[s].user \notin Counted(tx[t])

EdgesBetweenAccounts == \A e \in follows : e[1] \in accounts /\ e[2] \in accounts

Edge(t) == <<t.user, t.target>>
Touching(u) == {e \in follows : u \in {e[1], e[2]}}

FollowOK(t, locks) ==
    /\ t.pc \in {"insertEdge", "checkKeys", "countTarget", "countSelf", "commit"}
    /\ t.user \in Users /\ t.target \in Users /\ t.user # t.target
    /\ t.pc # "insertEdge" =>
         t.wrote /\ <<"edge", Edge(t)>> \in locks /\ Edge(t) \notin follows
    /\ t.pc \in {"countTarget", "countSelf", "commit"} =>
         /\ t.user \in accounts /\ t.target \in accounts
         /\ <<"share", Row(t.user)>> \in locks /\ <<"share", Row(t.target)>> \in locks

UnfollowOK(t, locks) ==
    /\ t.pc \in {"deleteEdge", "countTarget", "countSelf", "commit"}
    /\ t.user \in Users /\ t.target \in Users /\ t.user # t.target
    /\ t.pc \in {"countTarget", "countSelf"} => t.wrote
    /\ t.wrote => <<"edge", Edge(t)>> \in locks /\ Edge(t) \in follows

AccountOK(t, locks) ==
    /\ t.pc \in {"eraseUser", "eraseEdges", "commit"}
    /\ t.user \in Users /\ t.user \in accounts
    /\ t.pc # "eraseUser" => <<"erase", Row(t.user)>> \in locks
    /\ t.pc = "commit" => \A e \in Touching(t.user) : <<"edge", e>> \in locks

SaveOK(t) ==
    /\ t.pc \in {"reload", "save", "commit"}
    /\ t.user \in Users
    /\ t.followers = followerCount[t.user] /\ t.following = followingCount[t.user]
    /\ t.stale = {}

SessionOK(s) ==
    \/ tx[s] = Idle
    \/ tx[s].kind = "follow" /\ FollowOK(tx[s], holds[s])
    \/ tx[s].kind = "unfollow" /\ UnfollowOK(tx[s], holds[s])
    \/ tx[s].kind = "account" /\ AccountOK(tx[s], holds[s])
    \/ tx[s].kind = "save" /\ SaveOK(tx[s])

SessionsOK == \A s \in Sessions : SessionOK(s)

Settled == LocksCompatible /\ ActsAlone /\ SavesUndisturbed

IInv ==
    /\ TypeOK /\ Settled
    /\ EdgesBetweenAccounts
    /\ SessionsOK
    /\ DriftOnlyByDeletion

-----------------------------------------------------------------------------
(* The edges of one user are finitely many.                                *)

LEMMA EdgesFinite ==
    ASSUME TypeOK, NEW u
    PROVE  /\ IsFiniteSet(Followers(u)) /\ IsFiniteSet(Followed(u))
           /\ Cardinality(Followers(u)) \in Nat /\ Cardinality(Followed(u)) \in Nat
<1>1. IsFiniteSet(Users \X Users)
  BY ConstantsAssumption, FS_Product
<1>2. Followers(u) \in SUBSET (Users \X Users) /\ Followed(u) \in SUBSET (Users \X Users)
  BY DEF Followers, Followed, TypeOK, Edges
<1>3. IsFiniteSet(Followers(u)) /\ IsFiniteSet(Followed(u))
  BY <1>1, <1>2, FS_Subset
<1>. QED
  BY <1>3, FS_CardinalityType

LEMMA IdleType == Idle \in TxState
BY ConstantsAssumption DEF Idle, TxState, Statements

LEMMA InitIInv == Init => IInv
<1> SUFFICES ASSUME Init PROVE IInv
  OBVIOUS
<1>1. TypeOK
  BY IdleType DEF Init, TypeOK
<1>2. Settled
  BY DEF Init, Settled, LocksCompatible, ActsAlone, SavesUndisturbed, InFlight, Idle
<1>3. EdgesBetweenAccounts /\ SessionsOK
  BY DEF Init, EdgesBetweenAccounts, SessionsOK, SessionOK
<1>4. DriftOnlyByDeletion
  <2>1. \A u : Followers(u) = {} /\ Followed(u) = {}
    BY DEF Init, Followers, Followed
  <2>. QED
    BY <2>1, FS_EmptySet DEF Init, DriftOnlyByDeletion
<1>. QED
  BY <1>1, <1>2, <1>3, <1>4 DEF IInv

-----------------------------------------------------------------------------
(* Steps that leave the rows alone.                                        *)

\* The other sessions do not notice: their records, their locks and the rows they
\* rest on are as before.
LEMMA OthersOK ==
    ASSUME IInv, UNCHANGED rows, NEW t \in Sessions,
           tx'[t] = tx[t], holds'[t] = holds[t]
    PROVE  SessionOK(t)'
<1>1. SessionOK(t)
  BY DEF IInv, SessionsOK
<1>2. Touching(tx[t].user)' = Touching(tx[t].user)
  BY DEF Touching, rows
<1>3. CASE tx[t] = Idle
  BY <1>3 DEF SessionOK
<1>4. CASE tx[t].kind = "follow" /\ FollowOK(tx[t], holds[t])
  BY <1>4 DEF SessionOK, FollowOK, Edge, rows
<1>5. CASE tx[t].kind = "unfollow" /\ UnfollowOK(tx[t], holds[t])
  BY <1>5 DEF SessionOK, UnfollowOK, Edge, rows
<1>6. CASE tx[t].kind = "account" /\ AccountOK(tx[t], holds[t])
  BY <1>2, <1>6 DEF SessionOK, AccountOK, rows
<1>7. CASE tx[t].kind = "save" /\ SaveOK(tx[t])
  BY <1>7 DEF SessionOK, SaveOK, rows
<1>. QED
  BY <1>1, <1>3, <1>4, <1>5, <1>6, <1>7 DEF SessionOK

\* A session begins a request, or goes on with it.
LEMMA SessionStep ==
    ASSUME IInv, ~SaveRaces, NEW s \in Sessions, NEW next \in TxState, Step(s, next),
           \/ MayBegin(s, next)
           \/ /\ InFlight(s) /\ next.user = tx[s].user
              /\ next.target = tx[s].target /\ next.kind = tx[s].kind,
           UNCHANGED holds \/ (\E locks \in SUBSET Locks : Lock(s, locks)),
           UNCHANGED rows,
           SessionOK(s)'
    PROVE  IInv'
<1>0. /\ tx' = [tx EXCEPT ![s] = next] /\ tx'[s] = next
      /\ \A t \in Sessions \ {s} : tx'[t] = tx[t] /\ holds'[t] = holds[t]
      /\ holds' \in [Sessions -> SUBSET Locks]
  BY DEF IInv, TypeOK, Step, Lock
<1>1. TypeOK'
  BY <1>0 DEF IInv, TypeOK, rows
<1>2. LocksCompatible'
  <2>1. CASE UNCHANGED holds
    BY <2>1 DEF IInv, Settled, LocksCompatible, Compatible
  <2>2. ASSUME NEW locks \in SUBSET Locks, Lock(s, locks) PROVE LocksCompatible'
    <3>1. holds'[s] = holds[s] \cup locks
      BY <2>2 DEF Lock, IInv, TypeOK
    <3>2. \A l, m : Compatible(l, m) => Compatible(m, l)
      BY DEF Compatible
    <3>. QED
      BY <1>0, <2>2, <3>1, <3>2 DEF IInv, Settled, LocksCompatible, Lock, Free
  <2>. QED
    BY <2>1, <2>2
<1>3. \A t \in Sessions \ {s} : InFlight(t) =>
        /\ next.kind \in {"account", "save"} \/ tx[t].kind \in {"account", "save"}
             => next.user # tx[t].user
        /\ next.kind = "save" => next.user \notin Counted(tx[t])
        /\ tx[t].kind = "save" => tx[t].user \notin Counted(next)
  <2>1. CASE MayBegin(s, next)
    <3> SUFFICES ASSUME NEW t \in Sessions, InFlight(t)
                 PROVE  /\ next.kind \in {"account", "save"} \/ tx[t].kind \in {"account", "save"}
                             => next.user # tx[t].user
                        /\ next.kind = "save" => next.user \notin Counted(tx[t])
                        /\ tx[t].kind = "save" => tx[t].user \notin Counted(next)
      OBVIOUS
    <3>1. /\ {next.kind, tx[t].kind} \cap {"account", "save"} # {}
               => tx[t].user # next.user
          /\ next.kind = "save" => next.user \notin Counted(tx[t])
          /\ tx[t].kind = "save" => tx[t].user \notin Counted(next)
      BY <2>1 DEF MayBegin
    <3>. QED
      BY <3>1
  <2>2. CASE /\ InFlight(s) /\ next.user = tx[s].user
             /\ next.target = tx[s].target /\ next.kind = tx[s].kind
    <3>1. Counted(next) = Counted(tx[s])
      BY <2>2 DEF Counted
    <3>. QED
      BY <2>2, <3>1 DEF IInv, Settled, ActsAlone, SavesUndisturbed
  <2>. QED
    BY <2>1, <2>2
<1>4. ActsAlone' /\ SavesUndisturbed'
  <2> SUFFICES ASSUME NEW r \in Sessions, NEW t \in Sessions, r # t,
                      InFlight(r)', InFlight(t)'
               PROVE  /\ tx'[r].kind \in {"account", "save"} => tx'[r].user # tx'[t].user
                      /\ tx'[r].kind = "save" => tx'[r].user \notin Counted(tx'[t])
    BY DEF ActsAlone, SavesUndisturbed, Counted
  <2>1. CASE r = s
    BY <1>0, <1>3, <2>1 DEF InFlight
  <2>2. CASE t = s
    BY <1>0, <1>3, <2>2 DEF InFlight
  <2>3. CASE r # s /\ t # s
    BY <1>0, <2>3 DEF IInv, Settled, ActsAlone, SavesUndisturbed, InFlight
  <2>. QED
    BY <2>1, <2>2, <2>3
<1>5. EdgesBetweenAccounts' /\ DriftOnlyByDeletion'
  BY DEF IInv, EdgesBetweenAccounts, DriftOnlyByDeletion, Followers, Followed, rows
<1>6. SessionsOK'
  BY <1>0, OthersOK DEF SessionsOK
<1>. QED
  BY <1>1, <1>2, <1>4, <1>5, <1>6 DEF IInv, Settled

\* A session ends, whatever it writes.
LEMMA EndSettled ==
    ASSUME IInv, NEW s \in Sessions, End(s)
    PROVE  /\ tx' \in [Sessions -> TxState] /\ holds' \in [Sessions -> SUBSET Locks]
           /\ \A t \in Sessions \ {s} : tx'[t] = tx[t] /\ holds'[t] = holds[t]
           /\ Settled' /\ SessionOK(s)'
<1>1. /\ tx' = [tx EXCEPT ![s] = Idle] /\ tx'[s] = Idle /\ holds'[s] = {}
      /\ \A t \in Sessions \ {s} : tx'[t] = tx[t] /\ holds'[t] = holds[t]
      /\ holds' \in [Sessions -> SUBSET Locks]
  BY DEF IInv, TypeOK, End, Step
<1>2. tx' \in [Sessions -> TxState]
  BY <1>1, IdleType DEF IInv, TypeOK
<1>3. LocksCompatible'
  BY <1>1 DEF IInv, Settled, LocksCompatible, Compatible
<1>4. ActsAlone'
  BY <1>1 DEF IInv, Settled, ActsAlone, InFlight, Idle
<1>5. SavesUndisturbed'
  BY <1>1 DEF IInv, Settled, SavesUndisturbed, InFlight, Idle, Counted
<1>6. SessionOK(s)'
  BY <1>1 DEF SessionOK
<1>. QED
  BY <1>1, <1>2, <1>3, <1>4, <1>5, <1>6 DEF Settled

\* A session ends with nothing written.
LEMMA Ends ==
    ASSUME IInv, NEW s \in Sessions, End(s), UNCHANGED rows
    PROVE  IInv'
<1>1. TypeOK' /\ Settled'
  BY EndSettled DEF IInv, TypeOK, rows
<1>2. EdgesBetweenAccounts' /\ DriftOnlyByDeletion'
  BY DEF IInv, EdgesBetweenAccounts, DriftOnlyByDeletion, Followers, Followed, rows
<1>3. SessionsOK'
  BY EndSettled, OthersOK DEF SessionsOK
<1>. QED
  BY <1>1, <1>2, <1>3 DEF IInv

\* Which part of the invariant a session satisfies is told by its next statement.
LEMMA SessionKind ==
    ASSUME IInv, NEW s \in Sessions
    PROVE  /\ tx[s] \in TxState
           /\ tx[s].pc \in {"insertEdge", "checkKeys"} =>
                tx[s].kind = "follow" /\ FollowOK(tx[s], holds[s])
           /\ tx[s].pc = "deleteEdge" =>
                tx[s].kind = "unfollow" /\ UnfollowOK(tx[s], holds[s])
           /\ tx[s].pc \in {"countTarget", "countSelf"} =>
                \/ tx[s].kind = "follow" /\ FollowOK(tx[s], holds[s])
                \/ tx[s].kind = "unfollow" /\ UnfollowOK(tx[s], holds[s])
           /\ tx[s].pc \in {"eraseUser", "eraseEdges"} =>
                tx[s].kind = "account" /\ AccountOK(tx[s], holds[s])
           /\ tx[s].pc \in {"reload", "save"} =>
                tx[s].kind = "save" /\ SaveOK(tx[s])
<1>1. tx[s] \in TxState /\ SessionOK(s)
  BY DEF IInv, TypeOK, SessionsOK
<1>2. CASE tx[s] = Idle
  BY <1>1, <1>2 DEF Idle
<1>3. CASE tx[s].kind = "follow" /\ FollowOK(tx[s], holds[s])
  <2>1. tx[s].pc \in {"insertEdge", "checkKeys", "countTarget", "countSelf", "commit"}
    BY <1>3 DEF FollowOK
  <2>. QED
    BY <1>1, <1>3, <2>1
<1>4. CASE tx[s].kind = "unfollow" /\ UnfollowOK(tx[s], holds[s])
  <2>1. tx[s].pc \in {"deleteEdge", "countTarget", "countSelf", "commit"}
    BY <1>4 DEF UnfollowOK
  <2>. QED
    BY <1>1, <1>4, <2>1
<1>5. CASE tx[s].kind = "account" /\ AccountOK(tx[s], holds[s])
  <2>1. tx[s].pc \in {"eraseUser", "eraseEdges", "commit"}
    BY <1>5 DEF AccountOK
  <2>. QED
    BY <1>1, <1>5, <2>1
<1>6. CASE tx[s].kind = "save" /\ SaveOK(tx[s])
  <2>1. tx[s].pc \in {"reload", "save", "commit"}
    BY <1>6 DEF SaveOK
  <2>. QED
    BY <1>1, <1>6, <2>1
<1>. QED
  BY <1>1, <1>2, <1>3, <1>4, <1>5, <1>6 DEF SessionOK

\* A step that only sets the next statement, and perhaps takes locks.
LEMMA Goes ==
    ASSUME IInv, ~SaveRaces, NEW s \in Sessions, NEW pc \in Statements, InFlight(s),
           Goto(s, pc),
           UNCHANGED holds \/ (\E locks \in SUBSET Locks : Lock(s, locks)),
           UNCHANGED rows
    PROVE  /\ tx'[s].pc = pc /\ tx'[s].kind = tx[s].kind
           /\ tx'[s].user = tx[s].user /\ tx'[s].target = tx[s].target
           /\ tx'[s].wrote = tx[s].wrote /\ tx'[s].stale = tx[s].stale
           /\ tx'[s].followers = tx[s].followers /\ tx'[s].following = tx[s].following
           /\ holds[s] \subseteq holds'[s]
           /\ SessionOK(s)' => IInv'
<1> DEFINE next == [tx[s] EXCEPT !.pc = pc]
<1>1. tx[s] \in TxState /\ next \in TxState
  BY DEF IInv, TypeOK, TxState
<1>2. Step(s, next) /\ tx'[s] = next
  BY DEF Goto, Step, IInv, TypeOK
<1>3. holds[s] \subseteq holds'[s]
  BY DEF Lock, IInv, TypeOK
<1>. QED
  BY <1>1, <1>2, <1>3, SessionStep DEF TxState

LEMMA LockTakes ==
    ASSUME IInv, NEW s \in Sessions, NEW locks \in SUBSET Locks, Lock(s, locks)
    PROVE  /\ \E l \in SUBSET Locks : Lock(s, l)
           /\ locks \subseteq holds'[s] /\ holds[s] \subseteq holds'[s]
BY DEF Lock, IInv, TypeOK

\* Every request begins in a state its kind allows.
LEMMA RequestOK ==
    ASSUME IInv, ~SaveRaces, NEW s \in Sessions, Request(s)
    PROVE  IInv'
<1>1. ASSUME NEW a \in Users, NEW b \in Users, FollowBegin(s, a, b) PROVE IInv'
  <2> DEFINE next == [Idle EXCEPT !.pc = "insertEdge", !.kind = "follow",
                                  !.user = a, !.target = b]
  <2>1. /\ next \in TxState /\ next.pc = "insertEdge" /\ next.kind = "follow"
        /\ next.user = a /\ next.target = b
    BY IdleType DEF Idle, TxState, Statements, Kinds
  <2>2. /\ MayBegin(s, next) /\ Step(s, next) /\ tx'[s] = next /\ a # b
        /\ UNCHANGED <<rows, holds>>
    BY <1>1 DEF FollowBegin, Begin, Step, IInv, TypeOK
  <2> HIDE DEF next
  <2>3. SessionOK(s)'
    BY <2>1, <2>2 DEF SessionOK, FollowOK
  <2>. QED
    BY <2>1, <2>2, <2>3, SessionStep
<1>2. ASSUME NEW a \in Users, NEW b \in Users, UnfollowBegin(s, a, b) PROVE IInv'
  <2> DEFINE next == [Idle EXCEPT !.pc = "deleteEdge", !.kind = "unfollow",
                                  !.user = a, !.target = b]
  <2>1. /\ next \in TxState /\ next.pc = "deleteEdge" /\ next.kind = "unfollow"
        /\ next.user = a /\ next.target = b /\ next.wrote = FALSE
    BY IdleType DEF Idle, TxState, Statements, Kinds
  <2>2. /\ MayBegin(s, next) /\ Step(s, next) /\ tx'[s] = next /\ a # b
        /\ UNCHANGED <<rows, holds>>
    BY <1>2 DEF UnfollowBegin, Begin, Step, IInv, TypeOK
  <2> HIDE DEF next
  <2>3. SessionOK(s)'
    BY <2>1, <2>2 DEF SessionOK, UnfollowOK
  <2>. QED
    BY <2>1, <2>2, <2>3, SessionStep
<1>3. ASSUME NEW u \in Users, EraseBegin(s, u) PROVE IInv'
  <2> DEFINE next == [Idle EXCEPT !.pc = "eraseUser", !.kind = "account", !.user = u]
  <2>1. /\ next \in TxState /\ next.pc = "eraseUser" /\ next.kind = "account"
        /\ next.user = u
    BY IdleType DEF Idle, TxState, Statements, Kinds
  <2>2. /\ MayBegin(s, next) /\ Step(s, next) /\ tx'[s] = next
        /\ UNCHANGED <<rows, holds>>
    BY <1>3 DEF EraseBegin, Begin, Step, IInv, TypeOK
  <2> HIDE DEF next
  <2>3. u \in accounts'
    BY <2>1, <2>2 DEF MayBegin, rows
  <2>4. SessionOK(s)'
    BY <2>1, <2>2, <2>3 DEF SessionOK, AccountOK
  <2>. QED
    BY <2>1, <2>2, <2>4, SessionStep
<1>4. ASSUME NEW u \in Users, SaveBegin(s, u) PROVE IInv'
  <2> DEFINE next == [Idle EXCEPT !.pc = "reload", !.kind = "save", !.user = u,
                          !.followers = followerCount[u],
                          !.following = followingCount[u]]
  <2>1. followerCount[u] \in Int /\ followingCount[u] \in Int
    BY DEF IInv, TypeOK
  <2>2. /\ next \in TxState /\ next.pc = "reload" /\ next.kind = "save"
        /\ next.user = u /\ next.followers = followerCount[u]
        /\ next.following = followingCount[u] /\ next.stale = {}
    BY <2>1, IdleType DEF Idle, TxState, Statements, Kinds
  <2>3. /\ MayBegin(s, next) /\ Step(s, next) /\ tx'[s] = next
        /\ UNCHANGED <<rows, holds>>
    BY <1>4 DEF SaveBegin, Begin, Step, IInv, TypeOK
  <2> HIDE DEF next
  <2>4. SessionOK(s)'
    BY <2>2, <2>3 DEF SessionOK, SaveOK, rows
  <2>. QED
    BY <2>2, <2>3, <2>4, SessionStep
<1>. QED
  BY <1>1, <1>2, <1>3, <1>4 DEF Request

LEMMA InsertEdgeOK ==
    ASSUME IInv, ~SaveRaces, NEW s \in Sessions, InsertEdge(s)
    PROVE  IInv'
<1> DEFINE t == tx[s]
           locks == {<<"edge", Edge(t)>>}
           next == [t EXCEPT !.pc = "checkKeys", !.wrote = TRUE]
<1>1. /\ t.pc = "insertEdge" /\ t.kind = "follow" /\ FollowOK(t, holds[s])
      /\ t \in TxState /\ InFlight(s) /\ UNCHANGED rows /\ Takes(t) = locks
  BY SessionKind DEF InsertEdge, Takes, Edge, InFlight
<1>2. CASE End(s)
  BY <1>1, <1>2, Ends
<1>3. CASE Edge(t) \notin follows /\ Lock(s, locks) /\ Step(s, next)
  <2>1. locks \in SUBSET Locks
    BY <1>1 DEF FollowOK, Locks, Edges, Edge
  <2>2. /\ next \in TxState /\ next.user = t.user /\ next.target = t.target
        /\ next.kind = "follow" /\ next.pc = "checkKeys" /\ next.wrote
    BY <1>1 DEF TxState, Statements
  <2>3. tx'[s] = next
    BY <1>3 DEF Step, IInv, TypeOK
  <2>4. <<"edge", Edge(t)>> \in holds'[s] /\ \E l \in SUBSET Locks : Lock(s, l)
    BY <1>3, <2>1, LockTakes
  <2> HIDE DEF next, locks
  <2>5. SessionOK(s)'
    BY <1>1, <1>3, <2>2, <2>3, <2>4 DEF SessionOK, FollowOK, Edge, rows
  <2>. QED
    BY <1>1, <1>3, <2>2, <2>3, <2>4, <2>5, SessionStep
<1>. QED
  BY <1>1, <1>2, <1>3 DEF InsertEdge, Edge

LEMMA CheckKeysOK ==
    ASSUME IInv, ~SaveRaces, NEW s \in Sessions, CheckKeys(s)
    PROVE  IInv'
<1> DEFINE t == tx[s]
           locks == {<<"share", Row(t.user)>>, <<"share", Row(t.target)>>}
<1>1. /\ t.pc = "checkKeys" /\ t.kind = "follow" /\ FollowOK(t, holds[s])
      /\ t \in TxState /\ InFlight(s) /\ UNCHANGED rows /\ Takes(t) = locks
  BY SessionKind DEF CheckKeys, Takes, InFlight
<1>2. CASE End(s)
  BY <1>1, <1>2, Ends
<1>3. CASE {t.user, t.target} \subseteq accounts /\ Lock(s, locks) /\ Goto(s, "countTarget")
  <2>1. locks \in SUBSET Locks /\ "countTarget" \in Statements
    BY <1>1 DEF FollowOK, Locks, Statements
  <2>2. locks \subseteq holds'[s] /\ \E l \in SUBSET Locks : Lock(s, l)
    BY <1>3, <2>1, LockTakes
  <2>3. SessionOK(s)'
    BY <1>1, <1>3, <2>1, <2>2, Goes DEF SessionOK, FollowOK, Edge, rows
  <2>. QED
    BY <1>1, <1>3, <2>1, <2>2, <2>3, Goes
<1>. QED
  BY <1>1, <1>2, <1>3 DEF CheckKeys

LEMMA DeleteEdgeOK ==
    ASSUME IInv, ~SaveRaces, NEW s \in Sessions, DeleteEdge(s)
    PROVE  IInv'
<1> DEFINE t == tx[s]
           locks == {<<"edge", e>> : e \in follows \cap {Edge(t)}}
           pc == IF Edge(t) \in follows THEN "countTarget" ELSE "commit"
           wrote == Edge(t) \in follows
           next == [t EXCEPT !.pc = pc, !.wrote = wrote]
<1>1. /\ t.pc = "deleteEdge" /\ t.kind = "unfollow" /\ UnfollowOK(t, holds[s])
      /\ t \in TxState /\ InFlight(s) /\ UNCHANGED rows /\ Takes(t) = locks
  BY SessionKind DEF DeleteEdge, Takes, Edge, InFlight
<1>2. Lock(s, locks) /\ Step(s, next) /\ tx'[s] = next
  BY <1>1 DEF DeleteEdge, Edge, Step, IInv, TypeOK
<1>3. locks \in SUBSET Locks
  BY DEF Locks, IInv, TypeOK
<1>4. Edge(t) \in follows => <<"edge", Edge(t)>> \in locks
  OBVIOUS
<1>5. locks \subseteq holds'[s] /\ \E l \in SUBSET Locks : Lock(s, l)
  BY <1>2, <1>3, LockTakes
<1>6. /\ pc \in {"countTarget", "commit"} /\ pc \in Statements
      /\ pc = "countTarget" => wrote
      /\ wrote \in BOOLEAN
  BY DEF Statements
<1>w. wrote <=> Edge(t) \in follows
  OBVIOUS
<1> HIDE DEF pc, locks, wrote
<1>7. /\ next \in TxState /\ next.user = t.user /\ next.target = t.target
      /\ next.kind = "unfollow" /\ next.pc = pc
      /\ next.wrote = wrote
  BY <1>1, <1>6 DEF TxState
<1> HIDE DEF next
<1>8. Edge(next) = Edge(t) /\ follows' = follows
  BY <1>1, <1>7 DEF Edge, rows
<1>9. SessionOK(s)'
  BY <1>1, <1>2, <1>4, <1>5, <1>6, <1>w, <1>7, <1>8 DEF SessionOK, UnfollowOK, Edge
<1>. QED
  BY <1>1, <1>2, <1>5, <1>7, <1>9, SessionStep

LEMMA CountTargetOK ==
    ASSUME IInv, ~SaveRaces, NEW s \in Sessions, CountTarget(s)
    PROVE  IInv'
<1> DEFINE t == tx[s]
           locks == {<<"count", Row(t.target)>>}
<1>1. /\ t.pc = "countTarget" /\ InFlight(s) /\ UNCHANGED rows /\ Takes(t) = locks
      /\ \/ t.kind = "follow" /\ FollowOK(t, holds[s])
         \/ t.kind = "unfollow" /\ UnfollowOK(t, holds[s])
      /\ Lock(s, locks) /\ Goto(s, "countSelf")
  BY SessionKind DEF CountTarget, Takes, InFlight
<1>2. locks \in SUBSET Locks /\ "countSelf" \in Statements
  BY <1>1 DEF FollowOK, UnfollowOK, Locks, Statements
<1>3. \E l \in SUBSET Locks : Lock(s, l)
  BY <1>1, <1>2, LockTakes
<1> HIDE DEF locks
<1>4. SessionOK(s)'
  BY <1>1, <1>2, <1>3, Goes DEF SessionOK, FollowOK, UnfollowOK, Edge, rows
<1>. QED
  BY <1>1, <1>2, <1>3, <1>4, Goes

LEMMA CountSelfOK ==
    ASSUME IInv, ~SaveRaces, NEW s \in Sessions, CountSelf(s)
    PROVE  IInv'
<1> DEFINE t == tx[s]
           locks == {<<"count", Row(t.user)>>}
<1>1. /\ t.pc = "countSelf" /\ InFlight(s) /\ UNCHANGED rows /\ Takes(t) = locks
      /\ \/ t.kind = "follow" /\ FollowOK(t, holds[s])
         \/ t.kind = "unfollow" /\ UnfollowOK(t, holds[s])
      /\ Lock(s, locks) /\ Goto(s, "commit")
  BY SessionKind DEF CountSelf, Takes, InFlight
<1>2. locks \in SUBSET Locks /\ "commit" \in Statements
  BY <1>1 DEF FollowOK, UnfollowOK, Locks, Statements
<1>3. \E l \in SUBSET Locks : Lock(s, l)
  BY <1>1, <1>2, LockTakes
<1> HIDE DEF locks
<1>4. SessionOK(s)'
  BY <1>1, <1>2, <1>3, Goes DEF SessionOK, FollowOK, UnfollowOK, Edge, rows
<1>. QED
  BY <1>1, <1>2, <1>3, <1>4, Goes

LEMMA EraseUserOK ==
    ASSUME IInv, ~SaveRaces, NEW s \in Sessions, EraseUser(s)
    PROVE  IInv'
<1> DEFINE t == tx[s]
           locks == {<<"erase", Row(t.user)>>}
<1>1. /\ t.pc = "eraseUser" /\ InFlight(s) /\ UNCHANGED rows /\ Takes(t) = locks
      /\ t.kind = "account" /\ AccountOK(t, holds[s])
      /\ Lock(s, locks) /\ Goto(s, "eraseEdges")
  BY SessionKind DEF EraseUser, Takes, InFlight
<1>2. locks \in SUBSET Locks /\ "eraseEdges" \in Statements
  BY <1>1 DEF AccountOK, Locks, Statements
<1>3. locks \subseteq holds'[s] /\ \E l \in SUBSET Locks : Lock(s, l)
  BY <1>1, <1>2, LockTakes
<1>4. SessionOK(s)'
  BY <1>1, <1>2, <1>3, Goes DEF SessionOK, AccountOK, rows
<1>. QED
  BY <1>1, <1>2, <1>3, <1>4, Goes

LEMMA EraseEdgesOK ==
    ASSUME IInv, ~SaveRaces, NEW s \in Sessions, EraseEdges(s)
    PROVE  IInv'
<1> DEFINE t == tx[s]
           locks == {<<"edge", e>> : e \in Touching(t.user)}
<1>1. /\ t.pc = "eraseEdges" /\ InFlight(s) /\ UNCHANGED rows /\ Takes(t) = locks
      /\ t.kind = "account" /\ AccountOK(t, holds[s])
      /\ Lock(s, locks) /\ Goto(s, "commit")
  BY SessionKind DEF EraseEdges, Takes, Touching, InFlight
<1>2. locks \in SUBSET Locks /\ "commit" \in Statements
  BY DEF Touching, IInv, TypeOK, Locks, Statements
<1>3. locks \subseteq holds'[s] /\ \E l \in SUBSET Locks : Lock(s, l)
  BY <1>1, <1>2, LockTakes
<1>4. \A e \in Touching(t.user) : <<"edge", e>> \in holds'[s]
  BY <1>3
<1> HIDE DEF locks
<1>5. Touching(t.user)' = Touching(t.user) /\ tx'[s].user = t.user
  BY <1>1, <1>2, <1>3, Goes DEF Touching, rows
<1>6. SessionOK(s)'
  BY <1>1, <1>2, <1>3, <1>4, <1>5, Goes DEF SessionOK, AccountOK, rows, Touching
<1>. QED
  BY <1>1, <1>2, <1>3, <1>6, Goes

LEMMA SaveReloadOK ==
    ASSUME IInv, ~SaveRaces, NEW s \in Sessions, SaveReload(s)
    PROVE  IInv'
<1> DEFINE t == tx[s]
           next == [t EXCEPT !.pc = "save", !.stale = {}]
<1>1. /\ t.pc = "reload" /\ t.kind = "save" /\ SaveOK(t) /\ t \in TxState
      /\ InFlight(s) /\ UNCHANGED <<rows, holds>>
  BY SessionKind DEF SaveReload, InFlight
<1>2. {c \in Columns :
         \/ c = "followerCount" /\ followerCount[t.user] # t.followers
         \/ c = "followingCount" /\ followingCount[t.user] # t.following} = {}
  BY <1>1 DEF SaveOK
<1>3. Step(s, next) /\ tx'[s] = next
  BY <1>2 DEF SaveReload, Step, IInv, TypeOK
<1>4. /\ next \in TxState /\ next.kind = "save" /\ next.pc = "save" /\ next.user = t.user
      /\ next.target = t.target /\ next.followers = t.followers
      /\ next.following = t.following /\ next.stale = {}
  BY <1>1 DEF TxState, Statements
<1> HIDE DEF next
<1>5. SessionOK(s)'
  BY <1>1, <1>3, <1>4 DEF SessionOK, SaveOK, rows
<1>. QED
  BY <1>1, <1>3, <1>4, <1>5, SessionStep

LEMMA SaveWriteOK ==
    ASSUME IInv, ~SaveRaces, NEW s \in Sessions, SaveWrite(s)
    PROVE  IInv'
<1> DEFINE t == tx[s]
           locks == {<<"count", Row(t.user)>>}
<1>1. /\ t.pc = "save" /\ t.kind = "save" /\ SaveOK(t) /\ InFlight(s)
      /\ UNCHANGED rows /\ Takes(t) = locks /\ Lock(s, locks) /\ Goto(s, "commit")
  BY SessionKind DEF SaveWrite, Takes, InFlight
<1>2. locks \in SUBSET Locks /\ "commit" \in Statements
  BY <1>1 DEF SaveOK, Locks, Statements
<1>3. \E l \in SUBSET Locks : Lock(s, l)
  BY <1>1, <1>2, LockTakes
<1> HIDE DEF locks
<1>4. SessionOK(s)'
  BY <1>1, <1>2, <1>3, Goes DEF SessionOK, SaveOK, rows
<1>. QED
  BY <1>1, <1>2, <1>3, <1>4, Goes

-----------------------------------------------------------------------------
(* Commits.                                                                *)

\* What a session knows when its transaction commits.
LEMMA CommitKind ==
    ASSUME IInv, NEW s \in Sessions, tx[s].pc = "commit"
    PROVE  /\ tx[s] \in TxState /\ InFlight(s)
           /\ tx[s].kind = "follow" => FollowOK(tx[s], holds[s])
           /\ tx[s].kind = "unfollow" => UnfollowOK(tx[s], holds[s])
           /\ tx[s].kind = "account" => AccountOK(tx[s], holds[s])
           /\ tx[s].kind = "save" => SaveOK(tx[s])
<1>1. tx[s] \in TxState /\ SessionOK(s) /\ tx[s] # Idle
  BY DEF IInv, TypeOK, SessionsOK, Idle
<1>. QED
  BY <1>1 DEF SessionOK, InFlight

\* Two sessions never hold the lock of one edge.
LEMMA EdgeLocksExclude ==
    ASSUME IInv, NEW s \in Sessions, NEW r \in Sessions, r # s,
           NEW d, NEW e, <<"edge", d>> \in holds[s], <<"edge", e>> \in holds[r]
    PROVE  d # e
<1>1. Compatible(<<"edge", d>>, <<"edge", e>>)
  BY DEF IInv, Settled, LocksCompatible
<1>. QED
  BY <1>1 DEF Compatible

\* Nobody erases an account while a foreign key to it is being checked.
LEMMA ShareExcludesErase ==
    ASSUME IInv, NEW s \in Sessions, NEW r \in Sessions, r # s,
           NEW u, NEW v, <<"share", Row(u)>> \in holds[s], <<"erase", Row(v)>> \in holds[r]
    PROVE  u # v
<1>1. Compatible(<<"share", Row(u)>>, <<"erase", Row(v)>>)
  BY DEF IInv, Settled, LocksCompatible
<1>. QED
  BY <1>1 DEF Compatible, Row

\* How the edges of every user change with one edge.
LEMMA FollowCounts ==
    ASSUME TypeOK, NEW a \in Users, NEW b \in Users, <<a, b>> \notin follows,
           follows' = follows \cup {<<a, b>>}, NEW u
    PROVE  /\ Cardinality(Followers(u)') = Cardinality(Followers(u)) + IF u = b THEN 1 ELSE 0
           /\ Cardinality(Followed(u)') = Cardinality(Followed(u)) + IF u = a THEN 1 ELSE 0
<1> DEFINE Grown(S) == S \cup {<<a, b>>}
<1>1. /\ Followers(u)' = IF u = b THEN Grown(Followers(u)) ELSE Followers(u)
      /\ Followed(u)' = IF u = a THEN Grown(Followed(u)) ELSE Followed(u)
      /\ <<a, b>> \notin Followers(u) /\ <<a, b>> \notin Followed(u)
  BY DEF Followers, Followed
<1>2. \A S : IsFiniteSet(S) /\ <<a, b>> \notin S => Cardinality(Grown(S)) = Cardinality(S) + 1
  BY FS_AddElement
<1>3. /\ IsFiniteSet(Followers(u)) /\ IsFiniteSet(Followed(u))
      /\ Cardinality(Followers(u)) \in Nat /\ Cardinality(Followed(u)) \in Nat
  BY EdgesFinite
<1> HIDE DEF Grown
<1>. QED
  BY <1>1, <1>2, <1>3

LEMMA UnfollowCounts ==
    ASSUME TypeOK, NEW a \in Users, NEW b \in Users, <<a, b>> \in follows,
           follows' = follows \ {<<a, b>>}, NEW u
    PROVE  /\ Cardinality(Followers(u)') = Cardinality(Followers(u)) - IF u = b THEN 1 ELSE 0
           /\ Cardinality(Followed(u)') = Cardinality(Followed(u)) - IF u = a THEN 1 ELSE 0
           /\ Cardinality(Followers(u)') \in Nat /\ Cardinality(Followed(u)') \in Nat
<1> DEFINE Shrunk(S) == S \ {<<a, b>>}
<1>1. /\ Followers(u)' = IF u = b THEN Shrunk(Followers(u)) ELSE Followers(u)
      /\ Followed(u)' = IF u = a THEN Shrunk(Followed(u)) ELSE Followed(u)
      /\ u = b => <<a, b>> \in Followers(u)
      /\ u = a => <<a, b>> \in Followed(u)
  BY DEF Followers, Followed
<1>2. \A S : IsFiniteSet(S) =>
        /\ Cardinality(Shrunk(S)) \in Nat
        /\ <<a, b>> \in S => Cardinality(Shrunk(S)) = Cardinality(S) - 1
  BY FS_RemoveElement, FS_CardinalityType
<1>3. /\ IsFiniteSet(Followers(u)) /\ IsFiniteSet(Followed(u))
      /\ Cardinality(Followers(u)) \in Nat /\ Cardinality(Followed(u)) \in Nat
  BY EdgesFinite
<1> HIDE DEF Shrunk
<1>. QED
  BY <1>1, <1>2, <1>3

\* The edges that remain when an account goes.
LEMMA EraseCounts ==
    ASSUME TypeOK, NEW u \in Users, NEW x \in Users, x # u,
           follows' = {e \in follows : u \notin {e[1], e[2]}}
    PROVE  /\ Cardinality(Followers(x)) =
                 Cardinality(Followers(x)') + IF <<u, x>> \in follows THEN 1 ELSE 0
           /\ Cardinality(Followed(x)) =
                 Cardinality(Followed(x)') + IF <<x, u>> \in follows THEN 1 ELSE 0
           /\ Cardinality(Followers(x)') \in Nat /\ Cardinality(Followed(x)') \in Nat
<1> DEFINE Shrunk(S, e) == S \ {e}
<1>1. /\ Followers(x)' = Shrunk(Followers(x), <<u, x>>)
      /\ Followed(x)' = Shrunk(Followed(x), <<x, u>>)
      /\ <<u, x>> \in Followers(x) <=> <<u, x>> \in follows
      /\ <<x, u>> \in Followed(x) <=> <<x, u>> \in follows
  <2>1. \A e \in follows : e = <<e[1], e[2]>>
    BY DEF TypeOK, Edges
  <2>. QED
    BY <2>1 DEF Followers, Followed
<1>2. \A S, e : IsFiniteSet(S) =>
        /\ Cardinality(Shrunk(S, e)) \in Nat
        /\ e \in S => Cardinality(Shrunk(S, e)) = Cardinality(S) - 1
        /\ e \notin S => Cardinality(Shrunk(S, e)) = Cardinality(S)
  BY FS_RemoveElement, FS_CardinalityType
<1>3. /\ IsFiniteSet(Followers(x)) /\ IsFiniteSet(Followed(x))
      /\ Cardinality(Followers(x)) \in Nat /\ Cardinality(Followed(x)) \in Nat
  BY EdgesFinite
<1> HIDE DEF Shrunk
<1>. QED
  BY <1>1, <1>2, <1>3

LEMMA CommitEdgeOK ==
    ASSUME IInv, ~SaveRaces, NEW s \in Sessions, CommitEdge(s)
    PROVE  IInv'
<1> DEFINE t == tx[s]
           a == t.user
           b == t.target
<1>1. /\ t \in TxState /\ InFlight(s) /\ End(s) /\ t.pc = "commit"
      /\ UNCHANGED <<accounts, lostFollowers, lostFollowing>>
      /\ \/ t.kind = "follow" /\ FollowOK(t, holds[s])
         \/ t.kind = "unfollow" /\ UnfollowOK(t, holds[s])
  BY CommitKind DEF CommitEdge
<1>2. a \in Users /\ b \in Users /\ a # b
  BY <1>1 DEF FollowOK, UnfollowOK
<1>3. CASE ~t.wrote
  <2>1. Delta(t) = 0
    BY <1>3 DEF Delta
  <2>2. /\ followerCount \in [Users -> Nat] /\ followingCount \in [Users -> Nat]
        /\ followerCount' = [followerCount EXCEPT ![b] = @ + 0]
        /\ followingCount' = [followingCount EXCEPT ![a] = @ + 0]
    BY <2>1 DEF CommitEdge, IInv, TypeOK
  <2>3. UNCHANGED <<followerCount, followingCount>>
    BY <1>2, <2>2
  <2>4. UNCHANGED follows
    BY <2>1 DEF CommitEdge
  <2>. QED
    BY <1>1, <2>3, <2>4, Ends DEF rows
<1>4. CASE t.wrote
  <2>1. <<"edge", <<a, b>>>> \in holds[s] /\ a \in accounts /\ b \in accounts
    BY <1>1, <1>4 DEF FollowOK, UnfollowOK, Edge, IInv, EdgesBetweenAccounts
  <2>2. /\ Delta(t) \in {1, -1}
        /\ followerCount' = [followerCount EXCEPT ![b] = @ + Delta(t)]
        /\ followingCount' = [followingCount EXCEPT ![a] = @ + Delta(t)]
        /\ t.kind = "follow" => Delta(t) = 1 /\ follows' = follows \cup {<<a, b>>}
        /\ t.kind = "unfollow" => Delta(t) = -1 /\ follows' = follows \ {<<a, b>>}
    BY <1>1, <1>4 DEF CommitEdge, Delta
  <2>3. \A u \in Users :
          /\ Cardinality(Followers(u)') = Cardinality(Followers(u)) + IF u = b THEN Delta(t) ELSE 0
          /\ Cardinality(Followed(u)') = Cardinality(Followed(u)) + IF u = a THEN Delta(t) ELSE 0
          /\ Cardinality(Followers(u)') \in Nat /\ Cardinality(Followed(u)') \in Nat
    <3> TAKE u \in Users
    <3>1. /\ Cardinality(Followers(u)) \in Nat /\ Cardinality(Followed(u)) \in Nat
      BY EdgesFinite DEF IInv
    <3>2. CASE t.kind = "follow"
      <4>1. <<a, b>> \notin follows
        BY <1>1, <3>2 DEF FollowOK, Edge
      <4>2. /\ Cardinality(Followers(u)') = Cardinality(Followers(u)) + IF u = b THEN 1 ELSE 0
            /\ Cardinality(Followed(u)') = Cardinality(Followed(u)) + IF u = a THEN 1 ELSE 0
        BY <1>2, <2>2, <3>2, <4>1, FollowCounts DEF IInv
      <4>. QED
        BY <2>2, <3>1, <3>2, <4>2
    <3>3. CASE t.kind = "unfollow"
      <4>1. <<a, b>> \in follows
        BY <1>1, <1>4, <3>3 DEF UnfollowOK, Edge
      <4>2. /\ Cardinality(Followers(u)') = Cardinality(Followers(u)) - IF u = b THEN 1 ELSE 0
            /\ Cardinality(Followed(u)') = Cardinality(Followed(u)) - IF u = a THEN 1 ELSE 0
            /\ Cardinality(Followers(u)') \in Nat /\ Cardinality(Followed(u)') \in Nat
        BY <1>2, <2>2, <3>3, <4>1, UnfollowCounts DEF IInv
      <4>. QED
        BY <2>2, <3>1, <3>3, <4>2
    <3>. QED
      BY <1>1, <3>2, <3>3
  <2>4. \A u \in accounts :
          /\ followerCount'[u] = Cardinality(Followers(u)') + lostFollowers[u]
          /\ followingCount'[u] = Cardinality(Followed(u)') + lostFollowing[u]
    <3> TAKE u \in accounts
    <3>1. /\ u \in Users /\ lostFollowers[u] \in Nat /\ lostFollowing[u] \in Nat
          /\ Cardinality(Followers(u)) \in Nat /\ Cardinality(Followed(u)) \in Nat
          /\ followerCount[u] = Cardinality(Followers(u)) + lostFollowers[u]
          /\ followingCount[u] = Cardinality(Followed(u)) + lostFollowing[u]
      BY EdgesFinite DEF IInv, TypeOK, DriftOnlyByDeletion
    <3>2. /\ followerCount'[u] = followerCount[u] + IF u = b THEN Delta(t) ELSE 0
          /\ followingCount'[u] = followingCount[u] + IF u = a THEN Delta(t) ELSE 0
      BY <2>2, <3>1 DEF IInv, TypeOK
    <3>. QED
      BY <2>2, <2>3, <3>1, <3>2
  <2>5. TypeOK'
    <3>1. followerCount'[b] \in Nat /\ followingCount'[a] \in Nat
      BY <1>2, <2>1, <2>3, <2>4 DEF IInv, TypeOK
    <3>2. followerCount' \in [Users -> Nat] /\ followingCount' \in [Users -> Nat]
      BY <1>2, <2>2, <3>1 DEF IInv, TypeOK
    <3>3. follows' \in SUBSET Edges
      BY <1>1, <1>2, <2>2 DEF IInv, TypeOK, Edges
    <3>. QED
      BY <1>1, <3>2, <3>3, EndSettled DEF IInv, TypeOK
  <2>6. EdgesBetweenAccounts' /\ DriftOnlyByDeletion'
    BY <1>1, <2>1, <2>2, <2>4 DEF IInv, EdgesBetweenAccounts, DriftOnlyByDeletion
  <2>7. ASSUME NEW r \in Sessions \ {s} PROVE SessionOK(r)'
    <3> DEFINE o == tx[r]
    <3>1. tx'[r] = o /\ holds'[r] = holds[r] /\ SessionOK(r) /\ o \in TxState
      BY <1>1, EndSettled DEF IInv, TypeOK, SessionsOK
    <3>2. \A e : e # <<a, b>> => (e \in follows' <=> e \in follows)
      BY <1>1, <2>2
    <3>3. \A e : <<"edge", e>> \in holds[r] => e # <<a, b>>
      BY <2>1, EdgeLocksExclude
    <3>4. CASE o = Idle
      BY <3>1, <3>4 DEF SessionOK
    <3>5. CASE o.kind = "follow" /\ FollowOK(o, holds[r])
      BY <1>1, <3>1, <3>2, <3>3, <3>5 DEF SessionOK, FollowOK
    <3>6. CASE o.kind = "unfollow" /\ UnfollowOK(o, holds[r])
      BY <1>1, <3>1, <3>2, <3>3, <3>6 DEF SessionOK, UnfollowOK
    <3>7. CASE o.kind = "account" /\ AccountOK(o, holds[r])
      <4>1. o.pc = "commit" => Touching(o.user)' \subseteq Touching(o.user)
        <5>0. CASE t.kind = "unfollow"
          <6>1. follows' \subseteq follows
            BY <2>2, <5>0
          <6>. QED
            BY <3>1, <6>1 DEF Touching
        <5> SUFFICES ASSUME o.pc = "commit", t.kind = "follow"
                     PROVE  Touching(o.user)' \subseteq Touching(o.user)
          BY <1>1, <5>0
        <5>1. <<"erase", Row(o.user)>> \in holds[r]
          BY <3>7 DEF AccountOK
        <5>2. <<"share", Row(a)>> \in holds[s] /\ <<"share", Row(b)>> \in holds[s]
          BY <1>1 DEF FollowOK
        <5>3. o.user # a /\ o.user # b
          BY <5>1, <5>2, ShareExcludesErase
        <5>4. o.user \notin {<<a, b>>[1], <<a, b>>[2]} /\ follows' = follows \cup {<<a, b>>}
          BY <2>2, <5>3
        <5>. QED
          BY <3>1, <5>4 DEF Touching
      <4>. QED
        BY <1>1, <3>1, <3>7, <4>1 DEF SessionOK, AccountOK
    <3>8. CASE o.kind = "save" /\ SaveOK(o)
      <4>1. o.user \in Users /\ o.user \notin {a, b}
        <5>1. InFlight(r)
          BY <3>8 DEF SaveOK, InFlight
        <5>. QED
          BY <1>1, <3>8, <5>1 DEF SaveOK, IInv, Settled, SavesUndisturbed, Counted
      <4>2. followerCount'[o.user] = followerCount[o.user]
            /\ followingCount'[o.user] = followingCount[o.user]
        BY <2>2, <4>1 DEF IInv, TypeOK
      <4>. QED
        BY <3>1, <3>8, <4>2 DEF SessionOK, SaveOK
    <3>. QED
      BY <3>1, <3>4, <3>5, <3>6, <3>7, <3>8 DEF SessionOK
  <2>. QED
    BY <1>1, <2>5, <2>6, <2>7, EndSettled DEF IInv, SessionsOK
<1>. QED
  BY <1>1, <1>3, <1>4 DEF TxState

LEMMA CommitSaveOK ==
    ASSUME IInv, ~SaveRaces, NEW s \in Sessions, CommitSave(s)
    PROVE  IInv'
<1>1. SaveOK(tx[s]) /\ End(s)
  BY CommitKind DEF CommitSave
<1>2. UNCHANGED rows
  BY <1>1 DEF CommitSave, SaveOK, rows, IInv, TypeOK
<1>. QED
  BY <1>1, <1>2, Ends

LEMMA CommitEraseOK ==
    ASSUME IInv, ~SaveRaces, NEW s \in Sessions, CommitErase(s)
    PROVE  IInv'
<1> DEFINE u == tx[s].user
<1>1. /\ tx[s] \in TxState /\ InFlight(s) /\ End(s)
      /\ tx[s].pc = "commit" /\ tx[s].kind = "account" /\ AccountOK(tx[s], holds[s])
      /\ UNCHANGED <<followerCount, followingCount>>
      /\ accounts' = accounts \ {u}
      /\ follows' = {e \in follows : u \notin {e[1], e[2]}}
      /\ lostFollowers' = [b \in Users |->
            lostFollowers[b] + IF <<u, b>> \in follows THEN 1 ELSE 0]
      /\ lostFollowing' = [a \in Users |->
            lostFollowing[a] + IF <<a, u>> \in follows THEN 1 ELSE 0]
  BY CommitKind DEF CommitErase
<1>2. /\ u \in Users /\ <<"erase", Row(u)>> \in holds[s]
      /\ \A e \in Touching(u) : <<"edge", e>> \in holds[s]
  BY <1>1 DEF AccountOK
<1>3. TypeOK' /\ EdgesBetweenAccounts'
  BY <1>1, EndSettled DEF IInv, TypeOK, EdgesBetweenAccounts
<1>4. DriftOnlyByDeletion'
  <2> SUFFICES ASSUME NEW x \in accounts'
               PROVE  /\ followerCount[x] = Cardinality(Followers(x)') + lostFollowers'[x]
                      /\ followingCount[x] = Cardinality(Followed(x)') + lostFollowing'[x]
    BY <1>1 DEF DriftOnlyByDeletion
  <2>1. x \in accounts /\ x \in Users /\ x # u
    BY <1>1 DEF IInv, TypeOK
  <2>2. /\ Cardinality(Followers(x)) =
             Cardinality(Followers(x)') + IF <<u, x>> \in follows THEN 1 ELSE 0
        /\ Cardinality(Followed(x)) =
             Cardinality(Followed(x)') + IF <<x, u>> \in follows THEN 1 ELSE 0
        /\ Cardinality(Followers(x)') \in Nat /\ Cardinality(Followed(x)') \in Nat
    BY <1>1, <1>2, <2>1, EraseCounts DEF IInv
  <2>3. /\ followerCount[x] = Cardinality(Followers(x)) + lostFollowers[x]
        /\ followingCount[x] = Cardinality(Followed(x)) + lostFollowing[x]
        /\ lostFollowers[x] \in Nat /\ lostFollowing[x] \in Nat
    BY <2>1 DEF IInv, TypeOK, DriftOnlyByDeletion
  <2>4. /\ lostFollowers'[x] = lostFollowers[x] + IF <<u, x>> \in follows THEN 1 ELSE 0
        /\ lostFollowing'[x] = lostFollowing[x] + IF <<x, u>> \in follows THEN 1 ELSE 0
    BY <1>1, <2>1
  <2>. QED
    BY <2>2, <2>3, <2>4
<1>5. ASSUME NEW r \in Sessions \ {s} PROVE SessionOK(r)'
  <2> DEFINE o == tx[r]
  <2>1. tx'[r] = o /\ holds'[r] = holds[r] /\ SessionOK(r)
    BY <1>1, EndSettled DEF IInv, SessionsOK
  <2>2. \A e \in follows : <<"edge", e>> \in holds[r] => e \in follows'
    <3> TAKE e \in follows
    <3>1. <<"edge", e>> \in holds[r] => e \notin Touching(u)
      BY <1>2, EdgeLocksExclude
    <3>. QED
      BY <1>1, <3>1 DEF Touching
  <2>3. follows' \subseteq follows
    BY <1>1
  <2>4. \A v : <<"share", Row(v)>> \in holds[r] => v # u
    BY <1>2, ShareExcludesErase
  <2>5. CASE o = Idle
    BY <2>1, <2>5 DEF SessionOK
  <2>6. CASE o.kind = "follow" /\ FollowOK(o, holds[r])
    BY <1>1, <2>1, <2>3, <2>4, <2>6 DEF SessionOK, FollowOK
  <2>7. CASE o.kind = "unfollow" /\ UnfollowOK(o, holds[r])
    BY <2>1, <2>2, <2>7 DEF SessionOK, UnfollowOK
  <2>8. CASE o.kind = "account" /\ AccountOK(o, holds[r])
    <3>1. InFlight(r)
      BY <2>8 DEF AccountOK, InFlight
    <3>2. o.user # u
      BY <1>1, <3>1 DEF IInv, Settled, ActsAlone
    <3>3. Touching(o.user)' \subseteq Touching(o.user)
      BY <2>1, <2>3 DEF Touching
    <3>. QED
      BY <1>1, <2>1, <2>8, <3>2, <3>3 DEF SessionOK, AccountOK
  <2>9. CASE o.kind = "save" /\ SaveOK(o)
    BY <1>1, <2>1, <2>9 DEF SessionOK, SaveOK
  <2>. QED
    BY <2>1, <2>5, <2>6, <2>7, <2>8, <2>9 DEF SessionOK
<1>. QED
  BY <1>1, <1>3, <1>4, <1>5, EndSettled DEF IInv, SessionsOK

LEMMA IInvStep ==
    ASSUME IInv, ~SaveRaces, [Next]_vars
    PROVE  IInv'
<1>1. CASE UNCHANGED vars
  <2>1. UNCHANGED rows /\ UNCHANGED <<tx, holds>>
    BY <1>1 DEF vars
  <2>2. TypeOK' /\ EdgesBetweenAccounts' /\ DriftOnlyByDeletion'
    BY <2>1 DEF rows, IInv, TypeOK, EdgesBetweenAccounts, DriftOnlyByDeletion, Followers, Followed
  <2>3. Settled'
    BY <2>1 DEF IInv, Settled, LocksCompatible, ActsAlone, SavesUndisturbed, InFlight, Counted
  <2>4. SessionsOK'
    BY <2>1, OthersOK DEF SessionsOK
  <2>. QED
    BY <2>2, <2>3, <2>4 DEF IInv
<1>2. ASSUME NEW s \in Sessions, Request(s) \/ Statement(s) \/ Timeout(s) \/ Abort(s)
      PROVE  IInv'
  <2>1. CASE Request(s)
    BY <2>1, RequestOK
  <2>2. CASE Statement(s)
    BY <2>2, InsertEdgeOK, CheckKeysOK, DeleteEdgeOK, CountTargetOK, CountSelfOK,
       EraseUserOK, EraseEdgesOK, SaveReloadOK, SaveWriteOK,
       CommitEdgeOK, CommitEraseOK, CommitSaveOK DEF Statement
  <2>3. CASE Timeout(s) \/ Abort(s)
    BY <2>3, Ends DEF Timeout, Abort
  <2>. QED
    BY <1>2, <2>1, <2>2, <2>3
<1>. QED
  BY <1>1, <1>2 DEF Next

LEMMA IInvAlways == ~SaveRaces => (Spec => []IInv)
<1> SUFFICES ASSUME ~SaveRaces PROVE Spec => []IInv
  OBVIOUS
<1>1. Init => IInv
  BY InitIInv
<1>2. IInv /\ [Next]_vars => IInv'
  BY IInvStep
<1>. QED
  BY <1>1, <1>2, PTL DEF Spec

-----------------------------------------------------------------------------
(* The theorems.                                                           *)

\* Whatever the requests and however they overlap, every row and every session is of
\* its type; in particular no counter of a user ever goes below zero.
THEOREM FollowTypes == ~SaveRaces => (Spec => []TypeOK)
<1>1. IInv => TypeOK
  BY DEF IInv
<1>. QED
  BY <1>1, IInvAlways, PTL

\* follower_count and following_count of every account exceed the numbers of its edges
\* by exactly the accounts at the other end that were deleted, and by nothing else:
\* for any number of users following, unfollowing and leaving at the same time, where
\* no whole-row save of a user overlaps with a request that moves its counters.
THEOREM FollowsDriftOnlyByDeletion == ~SaveRaces => (Spec => []DriftOnlyByDeletion)
<1>1. IInv => DriftOnlyByDeletion
  BY DEF IInv
<1>. QED
  BY <1>1, IInvAlways, PTL

\* Only a commit changes what the ledger sees.
LEMMA LedgerStutters ==
    ASSUME UNCHANGED rows
    PROVE  UNCHANGED Ledger!vars
BY DEF rows, Ledger!vars

LEMMA LedgerStep ==
    ASSUME IInv, ~SaveRaces, [Next]_vars
    PROVE  [Ledger!Next]_(Ledger!vars)
<1>1. ASSUME NEW s \in Sessions, CommitEdge(s) PROVE Ledger!Next \/ UNCHANGED rows
  <2> DEFINE t == tx[s]
  <2>1. /\ t \in TxState /\ UNCHANGED <<accounts, lostFollowers, lostFollowing>>
        /\ \/ t.kind = "follow" /\ FollowOK(t, holds[s]) /\ t.pc = "commit"
           \/ t.kind = "unfollow" /\ UnfollowOK(t, holds[s])
    BY <1>1, CommitKind DEF CommitEdge
  <2>2. CASE t.kind = "follow"
    <3>1. /\ t.user # t.target /\ t.wrote /\ Edge(t) \notin follows
          /\ t.user \in accounts /\ t.target \in accounts
      BY <2>1, <2>2 DEF FollowOK
    <3>2. Ledger!Follow(t.user, t.target)
      BY <1>1, <2>1, <2>2, <3>1 DEF CommitEdge, Delta, Edge, Ledger!Follow
    <3>. QED
      BY <3>1, <3>2 DEF Ledger!Next
  <2>3. CASE t.kind = "unfollow" /\ t.wrote
    <3>1. /\ Edge(t) \in follows /\ t.user \in accounts /\ t.target \in accounts
      BY <2>1, <2>3 DEF UnfollowOK, Edge, IInv, EdgesBetweenAccounts
    <3>2. Delta(t) = -1
      BY <2>3 DEF Delta
    <3>3. /\ follows' = follows \ {Edge(t)}
          /\ followerCount' = [followerCount EXCEPT ![t.target] = @ - 1]
          /\ followingCount' = [followingCount EXCEPT ![t.user] = @ - 1]
      <4>1. /\ follows' = follows \ {Edge(t)}
            /\ followerCount' = [followerCount EXCEPT ![t.target] = @ + (-1)]
            /\ followingCount' = [followingCount EXCEPT ![t.user] = @ + (-1)]
        BY <1>1, <3>2 DEF CommitEdge, Edge
      <4>2. /\ followerCount \in [Users -> Nat] /\ followingCount \in [Users -> Nat]
            /\ \A n \in Nat : n + (-1) = n - 1
        BY DEF IInv, TypeOK
      <4>3. t.target \in Users /\ t.user \in Users
        BY <2>1, <2>3 DEF UnfollowOK
      <4> DEFINE less(f, u) == [f EXCEPT ![u] = @ - 1]
      <4>4. \A f \in [Users -> Nat], u \in Users : [f EXCEPT ![u] = @ + (-1)] = less(f, u)
        OBVIOUS
      <4>. QED
        BY <4>1, <4>2, <4>3, <4>4
    <3>4. Ledger!Unfollow(t.user, t.target)
      BY <2>1, <3>1, <3>3 DEF Edge, Ledger!Unfollow
    <3>. QED
      BY <3>1, <3>4 DEF Ledger!Next
  <2>4. CASE t.kind = "unfollow" /\ ~t.wrote
    <3>1. Delta(t) = 0
      BY <2>4 DEF Delta
    <3>2. /\ followerCount' = [followerCount EXCEPT ![t.target] = @ + 0]
          /\ followingCount' = [followingCount EXCEPT ![t.user] = @ + 0]
          /\ UNCHANGED follows
      BY <1>1, <3>1 DEF CommitEdge
    <3>3. UNCHANGED <<followerCount, followingCount>>
      BY <3>2 DEF IInv, TypeOK
    <3>. QED
      BY <2>1, <3>2, <3>3 DEF rows
  <2>. QED
    BY <2>1, <2>2, <2>3, <2>4 DEF TxState
<1>2. ASSUME NEW s \in Sessions, CommitErase(s) PROVE Ledger!Next
  <2>1. tx[s].user \in accounts
    BY <1>2, CommitKind DEF CommitErase, AccountOK
  <2>2. Ledger!Erase(tx[s].user)
    BY <1>2 DEF CommitErase, Ledger!Erase
  <2>. QED
    BY <2>1, <2>2 DEF Ledger!Next
<1>3. ASSUME NEW s \in Sessions, CommitSave(s) PROVE UNCHANGED rows
  <2>1. SaveOK(tx[s])
    BY <1>3, CommitKind DEF CommitSave
  <2>. QED
    BY <1>3, <2>1 DEF CommitSave, SaveOK, rows, IInv, TypeOK
<1>4. ASSUME NEW s \in Sessions,
             Request(s) \/ Timeout(s) \/ Abort(s) \/ InsertEdge(s) \/ CheckKeys(s)
             \/ DeleteEdge(s) \/ CountTarget(s) \/ CountSelf(s) \/ EraseUser(s)
             \/ EraseEdges(s) \/ SaveReload(s) \/ SaveWrite(s)
      PROVE  UNCHANGED rows
  BY <1>4 DEF Request, FollowBegin, UnfollowBegin, EraseBegin, SaveBegin, Begin, Timeout,
     Abort, InsertEdge, CheckKeys, DeleteEdge, CountTarget, CountSelf, EraseUser,
     EraseEdges, SaveReload, SaveWrite
<1>5. CASE UNCHANGED vars
  BY <1>5, LedgerStutters DEF vars
<1>. QED
  BY <1>1, <1>2, <1>3, <1>4, <1>5, LedgerStutters DEF Next, Statement

\* For any number of users and of overlapping transactions, a follow or an unfollow
\* takes effect at once and entirely or not at all, and an account leaves with its
\* edges in one step.
THEOREM FollowImplementsLedger == ~SaveRaces => (Spec => ImplementsLedger)
<1> SUFFICES ASSUME ~SaveRaces PROVE Spec => ImplementsLedger
  OBVIOUS
<1>1. Init => Ledger!Init
  BY DEF Init, Ledger!Init
<1>2. IInv /\ [Next]_vars => [Ledger!Next]_(Ledger!vars)
  BY LedgerStep
<1>. QED
  BY <1>1, <1>2, IInvAlways, PTL DEF Spec, Ledger!Spec, ImplementsLedger

=============================================================================
