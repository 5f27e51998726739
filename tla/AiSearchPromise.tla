--------------------------- MODULE AiSearchPromise ---------------------------
(***************************************************************************)
(* The searches of AiSearchService, what they are given and the rows that  *)
(* cache their lists; what is promised, whatever the language model says.  *)
(***************************************************************************)
EXTENDS Selection, SequencesExt

CONSTANTS Searches,         \* the requests
          Listed,           \* the venues, by upvotes
          Hideable,         \* those that administrators hide and show
          Intents,          \* what the parser may answer
          NoCount,          \* an intent's count when the parser names none
          Offsets,          \* of further pages
          DefaultCount, MaxCount, PageSize, PoolCap, Window,  \* 12, 30, 24, 120 and 30
          RowTtl            \* ticks

\* An intent is a record; what the user asked for is a number of venues.
ASSUME IntentsAssumption ==
    \A i \in Intents : /\ i = [f \in DOMAIN i |-> i[f]]
                        /\ {"cities", "count", "fits"} \subseteq DOMAIN i
                        /\ i.count \in Nat \cup {NoCount}

\* Each venue once; CANDIDATE_POOL_CAP is no more than MAX_RESULT_COUNT * 4.
ASSUME ListedAssumption ==
    Listed \in Seq(ToSet(Listed)) /\ IsInjective(Listed) /\ Hideable \subseteq ToSet(Listed)
ASSUME CountsAssumption ==
    /\ {DefaultCount, MaxCount, PageSize, PoolCap, Window, RowTtl} \cup Offsets \subseteq Nat
    /\ PoolCap <= 4 * MaxCount

\* A count of none, or of 0 and below, asks for no number of venues.
Asks(count) == count # NoCount /\ count > 0

VARIABLES row,       \* row[city]: the cache of the query asked from that city
          search,    \* the requests
          raced      \* history: rows that overlapping requests may have mixed

\* Whatever the model picks, repeats or invents, the list that is cached holds
\* every candidate once; only a count the user asked for shortens it.
ListComplete ==
    \A r \in Searches : search[r].step = "cacheFind" =>
        LET n == search[r]
        IN  /\ IsInjective(n.ids) /\ ToSet(n.ids) \subseteq ToSet(n.cand)
            /\ ~Asks(n.intent.count) => ToSet(n.ids) = ToSet(n.cand)
            /\ Asks(n.intent.count) => Len(n.ids) = Fewer(n.intent.count, Len(n.cand))

\* A venue hidden since before the request began is in no answer, though the
\* cached list that serves it is older and still names it.
HiddenNotShown ==
    \A r \in Searches : search[r].step = "answered" =>
        ToSet(search[r].shown) \cap search[r].gone = {}

\* Unless searches of one query overlapped, its row is one search's: the count
\* by which it is paged is the count by which it was cut.
RowIsOneSearch ==
    \A c \in DOMAIN row \ raced :
        (\A r \in Searches : search[r].city = c => search[r].step \notin {"insert", "reload", "save"}) =>
            /\ Asks(row[c].intent.count) => Len(row[c].ids) <= row[c].intent.count
            /\ ToSet(row[c].ids) \subseteq row[c].intent.fits
=============================================================================
