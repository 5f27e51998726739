-------------------------- MODULE EngagementLedger --------------------------
(***************************************************************************)
(* What check-ins and votes promise, with no transactions in sight: every  *)
(* request takes effect at once, and both counters move with it.           *)
(***************************************************************************)
EXTENDS Integers

CONSTANTS Users, Venues, Custom

VARIABLES
    members,       \* the accounts
    visits,        \* [Users -> [Places -> Nat]]: check-ins that are not deleted
    opinion,       \* [Users -> [Venues -> {-1, 0, 1}]]: 0 when there is no vote
    upvotes,       \* [Venues -> Int]
    checkInCount   \* [Users -> Int]

vars == <<members, visits, opinion, upvotes, checkInCount>>

Places == Venues \cup {Custom}

Init ==
    /\ members = Users
    /\ visits = [u \in Users |-> [p \in Places |-> 0]]
    /\ opinion = [u \in Users |-> [v \in Venues |-> 0]]
    /\ upvotes = [v \in Venues |-> 0]
    /\ checkInCount = [u \in Users |-> 0]

Upvote(value) == IF value = 1 THEN 1 ELSE 0

\* The user's opinion of the venue becomes value, and the venue's count follows.
Opine(u, v, value) ==
    /\ opinion' = [opinion EXCEPT ![u][v] = value]
    /\ upvotes' = [upvotes EXCEPT ![v] = @ + Upvote(value) - Upvote(opinion[u][v])]

CheckIn(u, p) ==
    /\ visits' = [visits EXCEPT ![u][p] = @ + 1]
    /\ checkInCount' = [checkInCount EXCEPT ![u] = @ + 1]
    /\ UNCHANGED <<members, opinion, upvotes>>

\* Removing the last check-in at a venue takes the vote back.
RemoveCheckIn(u, p) ==
    /\ visits[u][p] > 0
    /\ visits' = [visits EXCEPT ![u][p] = @ - 1]
    /\ checkInCount' = [checkInCount EXCEPT ![u] = @ - 1]
    /\ IF p # Custom /\ visits[u][p] = 1 THEN Opine(u, p, 0)
                                         ELSE UNCHANGED <<opinion, upvotes>>
    /\ UNCHANGED members

\* Only a visitor votes; the same vote again takes it back.
Vote(u, v, value) ==
    /\ visits[u][v] > 0
    /\ Opine(u, v, IF opinion[u][v] = value THEN 0 ELSE value)
    /\ UNCHANGED <<members, visits, checkInCount>>

\* The account's check-ins and votes go; the venues keep what they had counted.
Erase(u) ==
    /\ members' = members \ {u}
    /\ visits' = [visits EXCEPT ![u] = [p \in Places |-> 0]]
    /\ opinion' = [opinion EXCEPT ![u] = [v \in Venues |-> 0]]
    /\ UNCHANGED <<upvotes, checkInCount>>

Next ==
    \E u \in members :
        \/ \E p \in Places : CheckIn(u, p) \/ RemoveCheckIn(u, p)
        \/ \E v \in Venues, value \in {1, -1} : Vote(u, v, value)
        \/ Erase(u)

Spec == Init /\ [][Next]_vars

=============================================================================
