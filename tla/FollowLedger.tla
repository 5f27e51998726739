---------------------------- MODULE FollowLedger ----------------------------
(***************************************************************************)
(* What the follow graph promises: to follow and to unfollow take effect   *)
(* at once, at most once per pair, and move both users' counters with the  *)
(* edge.  An account that goes takes its edges with it and leaves the      *)
(* counters of the others as they are.                                     *)
(***************************************************************************)
EXTENDS Integers

CONSTANT Users

VARIABLES
    accounts,        \* SUBSET Users
    follows,         \* set of <<follower, following>>
    followerCount,   \* [Users -> Int]
    followingCount   \* [Users -> Int]

vars == <<accounts, follows, followerCount, followingCount>>

Init ==
    /\ accounts = Users
    /\ follows = {}
    /\ followerCount = [u \in Users |-> 0]
    /\ followingCount = [u \in Users |-> 0]

Follow(a, b) ==
    /\ a # b /\ <<a, b>> \notin follows
    /\ follows' = follows \cup {<<a, b>>}
    /\ followerCount' = [followerCount EXCEPT ![b] = @ + 1]
    /\ followingCount' = [followingCount EXCEPT ![a] = @ + 1]
    /\ UNCHANGED accounts

Unfollow(a, b) ==
    /\ <<a, b>> \in follows
    /\ follows' = follows \ {<<a, b>>}
    /\ followerCount' = [followerCount EXCEPT ![b] = @ - 1]
    /\ followingCount' = [followingCount EXCEPT ![a] = @ - 1]
    /\ UNCHANGED accounts

Erase(u) ==
    /\ accounts' = accounts \ {u}
    /\ follows' = {e \in follows : u \notin {e[1], e[2]}}
    /\ UNCHANGED <<followerCount, followingCount>>

Next ==
    \/ \E a, b \in accounts : Follow(a, b) \/ Unfollow(a, b)
    \/ \E u \in accounts : Erase(u)

Spec == Init /\ [][Next]_vars

=============================================================================
