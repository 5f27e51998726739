---------------------------- MODULE MCRehostQueue ----------------------------
(* RehostQueue for TLC: lists of at most two different images.             *)
EXTENDS RehostQueue

CONSTANTS x, y

MCEdits == {<<>>, <<x>>, <<y, x>>}

\* Select is the library's SelectSeq of what is in the set.
ASSUME SelectIsSelectSeq ==
    \A seq \in SeqOf(Urls, 4), set \in SUBSET Urls :
        Select(seq, set) = SelectSeq(seq, LAMBDA u : u \in set)

=============================================================================
