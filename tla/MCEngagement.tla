---------------------------- MODULE MCEngagement ----------------------------
(* Instances of Engagement for TLC: which requests of one user overlap.     *)
EXTENDS Engagement, TLC

\* Ids and sessions are interchangeable, and so are the users who cannot leave.
Interchangeable ==
    Permutations(CheckInIds) \cup Permutations(VoteIds)
        \cup Permutations(Sessions) \cup Permutations(Users \ Deletable)

Pairs(kinds) == {{k, l} : k, l \in kinds}

\* Every pair but those that break the votes (cast with cast, remove or account).
\* Pairs of a removal and a memory edit are left out here too: each can add a
\* check-in without counting it, and checkInCount would have no bound.
AllButCastPairs ==
    Pairs(Kinds) \ {{"cast"}, {"cast", "remove"}, {"cast", "account"},
                    {"remove", "memory"}}

\* Each request waits for the user's last one, but the deletion of the account,
\* which may come in the middle of any but a cast.
DeletionOnly == {{k, "account"} : k \in Kinds \ {"cast"}}
=============================================================================
