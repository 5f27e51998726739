------------------------------- MODULE AiSearch -------------------------------
(***************************************************************************)
(* AiSearchService: a query is parsed by a language model into an intent,  *)
(* the intent filters the venues, a second call of the model re-ranks them *)
(* and the ordered ids are cached in a row of the database, from which the *)
(* same query and its further pages are served.  The model may fail, time  *)
(* out or invent ids at either call.  What the model understands and which *)
(* venues fit the clauses without control flow are data of an intent.      *)
(***************************************************************************)
EXTENDS AiSearchPromise

CONSTANTS CityOf, WardOf, RegionOf,   \* functions of venues, of venues, of cities
          Wards,            \* expandQueryToWards: what a ward query of a city stands for
          Capital,          \* ho-chi-minh
          CurrentCities,    \* where users are: slugs, known or not, or None
          Bogus,            \* an id the model invents
          TooFew,           \* 2
          None

VARIABLE hidden    \* venues that are not published

vars == <<hidden, row, search, raced>>

V == ToSet(Listed)
Free == [op |-> "idle", step |-> "idle", city |-> None, intent |-> None, cand |-> <<>>,
         ids |-> <<>>, cols |-> {}, offset |-> 0, gone |-> {}, shown |-> <<>>]
----------------------------------------------------------------------------
Published(s) == Pick(s, {i \in DOMAIN s : s[i] \notin hidden})

ClampResultCount(n) == IF Asks(n) THEN Fewer(n, MaxCount) ELSE DefaultCount

\* The query's city: the parser's, else the user's when it exists, else the
\* capital for a query that names a category.
Scoped(intent, city) ==
    IF intent.cities # {} THEN intent
    ELSE IF city \in DOMAIN RegionOf THEN [intent EXCEPT !.cities = {city}]
    ELSE IF intent.categories # {} THEN [intent EXCEPT !.cities = {Capital}] ELSE intent

\* "vague": none of the twelve fields that keep a query from the listing page.
BuildShortcutUrl(intent) ==
    intent.vague /\ Cardinality(intent.cities) = 1 /\ Cardinality(intent.categories) <= 1

FetchByIntent(intent) ==
    LET InCity(v) == IF intent.cities # {} THEN CityOf[v] \in intent.cities
                     ELSE intent.region = None \/ RegionOf[CityOf[v]] = intent.region
        wards == UNION {Wards[c][intent.ward] : c \in intent.cities}
        InWard(v) == intent.ward = None \/ Cardinality(intent.cities) # 1 \/ wards = {}
                     \/ WardOf[v] \in wards
    IN  Page(Published(Select(Listed, {v \in intent.fits : InCity(v) /\ InWard(v)})), 0, PoolCap)

\* The picks of the model that are in the window, each once.
ValidPicks(picks, window) ==
    Pick(picks, {i \in DOMAIN picks : /\ picks[i] \in ToSet(window)
                                     /\ \A j \in 1..(i - 1) : picks[j] # picks[i]})

OrderedAll(picks, cand) == picks \o cand
Ordered(picks, cand) == picks \o Select(cand, ToSet(cand) \ ToSet(picks))
Capped(ids, count) == IF Asks(count) THEN Page(ids, 0, Fewer(count, 4 * MaxCount)) ELSE ids
----------------------------------------------------------------------------
Busy(r) == search[r].step \notin {"idle", "answered"}
Set(r, n) == search' = [search EXCEPT ![r] = n]
\* What a request still knows once its list is read or written.
Hydrating(n, ids) == [Free EXCEPT !.gone = n.gone, !.step = "hydrate", !.ids = ids]
Answered(n, shown) == [Free EXCEPT !.gone = n.gone, !.step = "answered", !.shown = shown]
Valid(city) == city \in DOMAIN row /\ row[city].age <= RowTtl

\* Searches on the row of a city other than r's that have found or will write it.
Writing(r) == \E q \in Searches \ {r} : search[q].city = search[r].city
                                        /\ search[q].step \in {"cacheFind", "insert", "reload", "save"}

Init ==
    /\ hidden = {}
    /\ row = <<>>
    /\ search = [r \in Searches |-> Free]
    /\ raced = {}

Begin(r, op, city, offset) ==
    /\ ~Busy(r)
    /\ Set(r, [Free EXCEPT !.op = op, !.step = "get", !.city = city, !.offset = offset, !.gone = hidden])
    /\ UNCHANGED <<hidden, row, raced>>

\* AiCacheService.get also counts the hit, a statistic that nothing reads.
CacheHit(r) ==
    LET n == search[r]
        e == row[n.city]
        page == IF n.op = "more" THEN Page(e.ids, n.offset, PageSize)
                ELSE Page(e.ids, 0, ClampResultCount(e.intent.count))
    IN  /\ n.step = "get" /\ Valid(n.city)
        /\ Set(r, Hydrating(n, page))
        /\ UNCHANGED <<hidden, row, raced>>

CacheMiss(r) ==
    /\ search[r].step = "get" /\ ~Valid(search[r].city)
    /\ Set(r, IF search[r].op = "more" THEN Answered(search[r], <<>>)
              ELSE [search[r] EXCEPT !.step = "parse"])
    /\ UNCHANGED <<hidden, row, raced>>

\* No key, a time-out, a transport error, a non-2xx answer, no tool call or
\* malformed arguments: parse() returns null.
ParseFails(r) ==
    /\ search[r].step = "parse"
    /\ Set(r, [search[r] EXCEPT !.step = "fallback"])
    /\ UNCHANGED <<hidden, row, raced>>

Parse(r) ==
    /\ search[r].step = "parse"
    /\ \E intent \in Intents :
          LET scoped == Scoped(intent, search[r].city)
          IN  Set(r, IF BuildShortcutUrl(scoped) THEN Answered(search[r], <<>>)
                     ELSE [search[r] EXCEPT !.intent = scoped, !.step = "fetch"])
    /\ UNCHANGED <<hidden, row, raced>>

Fetch(r) ==
    LET cand == FetchByIntent(search[r].intent)
    IN  /\ search[r].step = "fetch"
        /\ Set(r, [search[r] EXCEPT !.cand = cand,
                      !.step = IF cand = <<>> THEN "fallback"
                               ELSE IF Len(cand) <= TooFew THEN "unranked" ELSE "rerank"])
        /\ UNCHANGED <<hidden, row, raced>>

\* keywordFallback: which venues the words fit is data.
KeywordFallback(r) ==
    /\ search[r].step = "fallback"
    /\ \E words \in {{}, V} :
          Set(r, Answered(search[r],
                     Page(Published(Select(Listed, words)), 0, DefaultCount)))
    /\ UNCHANGED <<hidden, row, raced>>

Ranked(r, ids) ==
    /\ Set(r, [search[r] EXCEPT !.step = "cacheFind", !.ids = Capped(ids, search[r].intent.count)])
    /\ UNCHANGED <<hidden, row, raced>>

Rerank(r) ==
    /\ search[r].step = "rerank"
    /\ \E picks \in [1..2 -> V \cup {Bogus}] :
          LET valid == ValidPicks(picks, Page(search[r].cand, 0, Window))
          IN  valid # <<>> /\ Ranked(r, Ordered(valid, search[r].cand))

\* Too few candidates, a failed call, no known pick or no introduction.
Unranked(r) ==
    /\ search[r].step \in {"rerank", "unranked"}
    /\ Ranked(r, search[r].cand)

\* AiCacheService.set: find, then insert, or save over what is reloaded.
Entry(n) == [intent |-> n.intent, ids |-> n.ids]
DiffButIds(entity, now) == {c \in {"intent"} : entity[c] # now[c]}
Diff(entity, now) == {c \in {"intent", "ids"} : entity[c] # now[c]}

CacheFind(r) ==
    /\ search[r].step = "cacheFind"
    /\ Set(r, [search[r] EXCEPT !.cand = <<>>,
                  !.step = IF search[r].city \in DOMAIN row THEN "reload" ELSE "insert"])
    /\ raced' = IF Writing(r) THEN raced \cup {search[r].city} ELSE raced \ {search[r].city}
    /\ UNCHANGED <<hidden, row>>

\* What save() will write: the columns in which the entity, loaded before and
\* changed since, differs from the row now.
CacheReload(r) ==
    LET n == search[r]
    IN  /\ n.step = "reload"
        /\ Set(r, [n EXCEPT !.step = "save", !.cols = Diff(Entry(n), row[n.city])])
        /\ UNCHANGED <<hidden, row, raced>>

Saved(r) ==
    Set(r, Hydrating(search[r], Page(search[r].ids, 0, ClampResultCount(search[r].intent.count))))

CacheSave(r) ==
    LET n == search[r]
        old == row[n.city]
    IN  /\ n.step = "save"
        /\ row' = [row EXCEPT ![n.city] =
              [intent |-> IF "intent" \in n.cols THEN n.intent ELSE old.intent,
               ids |-> IF "ids" \in n.cols THEN n.ids ELSE old.ids,
               age |-> 0]]
        /\ Saved(r)
        /\ UNCHANGED <<hidden, raced>>

\* The unique index refuses a second insert; the error is only logged.
CacheInsert(r) ==
    LET n == search[r]
        new == [intent |-> n.intent, ids |-> n.ids, age |-> 0]
    IN  /\ n.step = "insert"
        /\ row' = [c \in DOMAIN row \cup {n.city} |-> IF c \in DOMAIN row THEN row[c] ELSE new]
        /\ Saved(r)
        /\ UNCHANGED <<hidden, raced>>

HydrateAll(r) ==
    /\ search[r].step = "hydrate"
    /\ Set(r, Answered(search[r], search[r].ids))
    /\ UNCHANGED <<hidden, row, raced>>
Hydrate(r) ==
    /\ search[r].step = "hydrate"
    /\ Set(r, Answered(search[r], Published(search[r].ids)))
    /\ UNCHANGED <<hidden, row, raced>>
----------------------------------------------------------------------------
SetPublished(v) ==
    /\ hidden' = IF v \in hidden THEN hidden \ {v} ELSE hidden \cup {v}
    /\ search' = [r \in Searches |-> [search[r] EXCEPT !.gone = @ \cap hidden']]
    /\ UNCHANGED <<row, raced>>

\* Rows age; an expired row stays until it is overwritten.
Tick ==
    /\ row' = [c \in DOMAIN row |-> [row[c] EXCEPT !.age = Fewer(RowTtl + 1, @ + 1)]]
    /\ row' # row
    /\ UNCHANGED <<hidden, search, raced>>

Step(r) == \/ CacheHit(r) \/ CacheMiss(r) \/ ParseFails(r) \/ Parse(r) \/ Fetch(r)
           \/ KeywordFallback(r) \/ Rerank(r) \/ Unranked(r)
           \/ CacheFind(r) \/ CacheReload(r) \/ CacheSave(r) \/ CacheInsert(r) \/ Hydrate(r)

Next ==
    \/ \E r \in Searches :
          \/ \E city \in CurrentCities :
                \/ Begin(r, "search", city, 0)
                \/ \E offset \in Offsets : Begin(r, "more", city, offset)
          \/ Step(r)
    \/ \E v \in Hideable : SetPublished(v)
    \/ Tick

Spec == Init /\ [][Next]_vars
----------------------------------------------------------------------------
\* Rows and requests are of their types.
TypeOK ==
    /\ hidden \subseteq V
    /\ DOMAIN row \subseteq CurrentCities
    /\ \A c \in DOMAIN row :
          /\ DOMAIN row[c] = {"intent", "ids", "age"}
          /\ ToSet(row[c].ids) \subseteq V
          /\ row[c].age \in 0..(RowTtl + 1)
    /\ \A r \in Searches : DOMAIN search[r] = DOMAIN Free /\ ToSet(search[r].shown) \subseteq V
    /\ raced \subseteq CurrentCities
=============================================================================
