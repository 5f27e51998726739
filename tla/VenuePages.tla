----------------------------- MODULE VenuePages -----------------------------
(***************************************************************************)
(* The public pages of venues and cities and the administrators' edits that*)
(* they show.  CitiesService and DiscoverService are cache-asides in the   *)
(* memory of each worker of the cluster, in front of them a CDN obeys the  *)
(* Cache-Control of PublicCacheInterceptor; an editor saves a row as       *)
(* TypeORM does and then invalidates the keys of the cities in the memory  *)
(* of its own worker.  Numbers that rank venues are data.                  *)
(***************************************************************************)
EXTENDS Selection, SequencesExt

CONSTANTS Workers, Requests, Cities, Venues,
          Data,               \* each venue's id, city, category and ranking numbers
          Pages,              \* the sets of cached pages that behaviours look at:
                              \* <<kind, city>>, the city AllCities for any
          Liked,              \* the venues that the recommended user has upvoted
          Limit,              \* the length of a section
          Listings,           \* the lists that clients page through
          Ttl, SMaxAge, Swr,  \* ticks: the cache's time to live and the CDN's two periods
          Edits,              \* bound: the requests of editors
          None                \* no entry, no worker, any category

AllCities == "all"
Kinds == {"list", "slug", "trending", "favorites", "picks", "gems"}
Numbers == {"id", "created", "upvotes", "week", "saves", "rating", "reviews"}

ASSUME VenuesAssumption == /\ IsFiniteSet(Venues)
                           /\ \A v \in Venues, number \in Numbers : Data[v][number] \in Nat
                           /\ \A v, w \in Venues : Data[v].id = Data[w].id => v = w
ASSUME PagesAssumption == \A pages \in Pages : pages \subseteq Kinds \X (Cities \cup {AllCities})
ASSUME TimesAssumption == {Limit, Ttl, SMaxAge, Swr} \subseteq Nat
\* ListVenuesDto and PaginationDto.
ASSUME ListingsAssumption ==
    \A q \in Listings : q.sort \in {"upvotes", "rating", "newest"} /\ q.limit \in Nat \ {0}

VARIABLES keys,      \* the pages looked at
          db,        \* the rows of venues (state, publication) and of cities (a text)
          cache,     \* cache[w][k]: None, or a value and its age in ticks
          edge,      \* the CDN, likewise
          req,       \* the requests
          edits,     \* how many requests of editors have begun
          changed,   \* history: the age of each page's last change, up to MaxAge
          clean      \* history: clean[w]: pages invalidated in w and not changed since

vars == <<keys, db, cache, edge, req, edits, changed, clean>>

MaxAge == Ttl + SMaxAge + Swr + 3
Free == [op |-> "idle", step |-> 0, w |-> None, key |-> None, arg |-> None,
         got |-> <<>>, ticked |-> FALSE, calm |-> TRUE]
----------------------------------------------------------------------------
\* What the queries of the public pages see of the rows.
Public(d) == {v \in Venues : d.venue[v] = [state |-> "live", published |-> TRUE]}
In(d, city) == {v \in Public(d) : city \in {AllCities, Data[v].city}}

Number(name) == [v \in Venues |-> Data[v][name]]

\* bayesianScoreExpr, with ratings in hundredths, in thousandths of them.
Bayesian ==
    [v \in Venues |-> (1000 * (Data[v].reviews * Data[v].rating + 100 * 380)) \div (Data[v].reviews + 100)]

\* ORDER BY num DESC, next DESC, id LIMIT n.  Where a query names no id, equals
\* come in any order: the same each time, here that of the id, too.
Ahead(x, v, num, next) == \/ num[x] > num[v]
                          \/ num[x] = num[v] /\ next[x] > next[v]
                          \/ num[x] = num[v] /\ next[x] = next[v] /\ Data[x].id <= Data[v].id
Top(S, n, num, next) ==
    [i \in 1..Fewer(n, Cardinality(S)) |->
        CHOOSE v \in S : Cardinality({x \in S : Ahead(x, v, num, next)}) = i]

\* findPaged: the filters, of which the category stands for those that follow it,
\* and the orders that ORDER BY num DESC, id allows.
Found(d, q) == {v \in In(d, q.city) : q.category \in {None, Data[v].category}}
By(sort) == CASE sort = "rating" -> Bayesian
              [] sort = "newest" -> Number("created")
              [] sort = "upvotes" -> Number("upvotes")
BeforeByNumber(x, v, num) == num[x] >= num[v]
Before(x, v, num) == num[x] > num[v] \/ (num[x] = num[v] /\ Data[x].id <= Data[v].id)
Sortings(S, num) ==
    {s \in [1..Cardinality(S) -> S] :
        IsInjective(s) /\ \A i, j \in DOMAIN s : i < j => Before(s[i], s[j], num)}

TotalPages(total, limit) == IF total = 0 THEN 1 ELSE (total + limit - 1) \div limit
----------------------------------------------------------------------------
\* The statements of each page's loader: what the i-th makes of what it has got.
FillTwice(d, ids, city) == ids \o Top(In(d, city), Limit - Len(ids), Number("upvotes"), Number("rating"))
Fill(d, ids, city) ==
    ids \o Top(In(d, city) \ ToSet(ids), Limit - Len(ids), Number("upvotes"), Number("rating"))
FetchInOrder(d, ids) == Select(ids, Public(d))

\* The venues that anyone has voted up in a week, or saved in a month.
Counted(kind) == Number(IF kind = "trending" THEN "week" ELSE "saves")
Ranked(d, kind, city) ==
    Top({v \in In(d, city) : Counted(kind)[v] > 0}, Limit, Counted(kind), Counted(kind))

EditorsPick(d, city) == Top({v \in In(d, city) : Data[v].rating >= 470}, Limit, Bayesian, Number("reviews"))
HiddenGems(d, city) ==
    Top({v \in In(d, city) : Data[v].rating >= 460 /\ Data[v].upvotes < 800 /\ Data[v].reviews >= 30},
        Limit, Bayesian, Bayesian)

VenueCount(d, city) == Cardinality(In(d, city))

Statements(kind) == CASE kind \in {"list", "slug"} -> 2
                      [] kind \in {"trending", "favorites"} -> 3
                      [] kind \in {"picks", "gems"} -> 1

Statement(d, k, i, got) ==
    LET kind == k[1]
        city == k[2]
    IN  CASE kind = "list" -> IF i = 1 THEN <<d.text>> ELSE Append(got, [c \in Cities |-> VenueCount(d, c)])
          [] kind = "slug" -> IF i = 1 THEN <<d.text[city]>> ELSE Append(got, VenueCount(d, city))
          [] kind = "picks" -> EditorsPick(d, city)
          [] kind = "gems" -> HiddenGems(d, city)
          [] OTHER -> IF i = 1 THEN Ranked(d, kind, city)
                      ELSE IF i = 2 THEN Fill(d, got, city) ELSE FetchInOrder(d, got)

\* The page as a load that nothing overlaps computes it.
Answer(d, k) ==
    LET After(i, got) == IF i <= Statements(k[1]) THEN Statement(d, k, i, got) ELSE got
    IN  After(3, After(2, After(1, <<>>)))
----------------------------------------------------------------------------
Loading(r) == req[r].op = "read"

\* A step that changes the rows: what it does to the history, and to the loads
\* under way.
Changes(next) ==
    LET hit == {k \in keys : Answer(db, k) # Answer(db', k)}
    IN  /\ changed' = [k \in keys |-> IF k \in hit THEN 0 ELSE changed[k]]
        /\ clean' = [w \in Workers |-> clean[w] \ hit]
        /\ req' = [r \in Requests |-> IF next[r].op \in {"read", "pages"}
                                      THEN [next[r] EXCEPT !.calm = FALSE] ELSE next[r]]
Same == UNCHANGED <<changed, clean>>

Init ==
    /\ keys \in Pages
    /\ db = [venue |-> [v \in Venues |->
                           IF Data[v].new THEN [state |-> "none", published |-> FALSE]
                           ELSE [state |-> "live", published |-> TRUE]],
              text |-> [c \in Cities |-> 0]]
    /\ edits = 0
    /\ cache = [w \in Workers |-> [k \in keys |-> None]]
    /\ edge = [k \in keys |-> None]
    /\ req = [r \in Requests |-> Free]
    /\ changed = [k \in keys |-> MaxAge]
    /\ clean = [w \in Workers |-> {}]

\* A request that the CDN does not answer, or revalidates while it answers.
Missed(k) == edge[k] # None => edge[k].age > SMaxAge

BeginRead(r, w, k) ==
    /\ req[r].step = 0 /\ Missed(k)
    /\ req' = [req EXCEPT ![r] = [Free EXCEPT !.op = "read", !.step = 1, !.w = w, !.key = k]]
    /\ UNCHANGED <<keys, db, cache, edge, edits>> /\ Same

\* The answers to a user (arg "forMe") are not the CDN's to keep.
Respond(r, value) ==
    /\ edge' = IF req[r].arg = "forMe" THEN edge
               ELSE [edge EXCEPT ![req[r].key] = [value |-> value, age |-> 0]]
    /\ req' = [req EXCEPT ![r] = Free]
    /\ UNCHANGED <<keys, db, edits>> /\ Same

CacheHit(r) ==
    /\ Loading(r) /\ req[r].step = 1
    /\ LET e == cache[req[r].w][req[r].key]
       IN  e # None /\ Respond(r, e.value)
    /\ UNCHANGED cache

\* The first statement follows a miss; later ones look at no cache.
Load(r) ==
    LET n == req[r]
    IN  /\ Loading(r) /\ n.step <= Statements(n.key[1])
        /\ n.step = 1 => cache[n.w][n.key] = None
        /\ req' = [req EXCEPT ![r].got = Statement(db, n.key, n.step, n.got), ![r].step = n.step + 1]
        /\ UNCHANGED <<keys, db, cache, edge, edits>> /\ Same

CacheSet(r) ==
    LET n == req[r]
    IN  /\ Loading(r) /\ n.step = Statements(n.key[1]) + 1
        /\ cache' = [cache EXCEPT ![n.w][n.key] = [value |-> n.got, age |-> 0]]
        /\ Respond(r, n.got)
----------------------------------------------------------------------------
\* AdminCitiesVenuesService: load, reload and save of a row, then invalidation.
\* An update that leaves the publication alone writes the one it has loaded: it
\* is one of the first two.
EditOps == {"publish", "unpublish", "delete", "create", "city"}

BeginEdit(r, w, op, arg) ==
    /\ req[r].step = 0 /\ edits < Edits
    /\ op \in EditOps
    /\ CASE op = "city" -> arg \in Cities
         [] op = "create" -> arg \in Venues /\ db.venue[arg].state = "none"
         [] OTHER -> arg \in Venues /\ db.venue[arg].state = "live"
    /\ req' = [req EXCEPT ![r] = [Free EXCEPT !.op = op, !.step = 1, !.w = w, !.arg = arg,
                                    !.got = IF op = "city" THEN <<db.text[arg]>> ELSE <<db.venue[arg]>>]]
    /\ edits' = edits + 1
    /\ UNCHANGED <<keys, db, cache, edge>> /\ Same

Edited(op, row) == [row EXCEPT !.published = (op = "publish")]

\* save() compares the edited entity with the row it reads again.
Reload(r) ==
    /\ req[r].op \in {"publish", "unpublish"} /\ req[r].step = 1
    /\ req' = [req EXCEPT ![r].got = <<Edited(req[r].op, @[1]), db.venue[req[r].arg]>>, ![r].step = 2]
    /\ UNCHANGED <<keys, db, cache, edge, edits>> /\ Same

Saved(r) ==
    LET n == req[r]
        old == db.venue[n.arg]
    IN  CASE n.op = "create" -> {[state |-> "live", published |-> p] : p \in BOOLEAN}
          [] n.op = "delete" -> {[old EXCEPT !.state = "deleted"]}
          [] OTHER -> {[c \in DOMAIN old |-> IF n.got[1][c] # n.got[2][c] THEN n.got[1][c] ELSE old[c]]}

\* Two creations of one slug: the unique index refuses the second.
RefuseSlug(r) ==
    /\ req[r].op = "create" /\ req[r].step = 1 /\ db.venue[req[r].arg].state # "none"
    /\ req' = [req EXCEPT ![r] = Free]
    /\ UNCHANGED <<keys, db, cache, edge, edits>> /\ Same

SaveVenue(r) ==
    /\ req[r].op \in EditOps \ {"city"}
    /\ req[r].op = "create" => db.venue[req[r].arg].state = "none"
    /\ req[r].step = IF req[r].op \in {"create", "delete"} THEN 1 ELSE 2
    /\ \E row \in Saved(r) : db' = [db EXCEPT !.venue[req[r].arg] = row]
    /\ Changes([req EXCEPT ![r].step = 3])
    /\ UNCHANGED <<keys, cache, edge, edits>>

SaveCity(r) ==
    /\ req[r].op = "city" /\ req[r].step = 1
    /\ db' = [db EXCEPT !.text[req[r].arg] = 1 - req[r].got[1]]
    /\ Changes([req EXCEPT ![r].step = 3])
    /\ UNCHANGED <<keys, cache, edge, edits>>

\* invalidateBySlug drops the city's page and the list, in this worker only and,
\* for the cache is in memory, with nothing in between.
PagesOf(r) == {<<"list", AllCities>>,
               <<"slug", IF req[r].op = "city" THEN req[r].arg ELSE Data[req[r].arg].city>>}
InvalidatedListOnly(r) == {<<"list", AllCities>>}
Invalidated(r) == PagesOf(r)

Invalidate(r) ==
    LET w == req[r].w
        loaded == {req[q].key : q \in {q \in Requests : Loading(q) /\ req[q].w = w}}
    IN  /\ req[r].op \in EditOps /\ req[r].step = 3
        /\ cache' = [cache EXCEPT ![w] = [k \in keys |-> IF k \in Invalidated(r) THEN None ELSE @[k]]]
        /\ clean' = [clean EXCEPT ![w] = @ \cup ((keys \cap PagesOf(r)) \ loaded)]
        /\ req' = [req EXCEPT ![r] = Free]
        /\ UNCHANGED <<keys, db, edge, edits, changed>>
----------------------------------------------------------------------------
\* recommendForUser.  Scores are in hundredths; the jitter adds less than 60.
Affinity(seen, v) ==
    100 * (2 * Cardinality({x \in seen : Data[x].category = Data[v].category})
           + Cardinality({x \in Liked : Data[x].category = Data[v].category}))
    + 50 * Cardinality({x \in seen : Data[x].city = Data[v].city})
    + Data[v].rating

Candidates(seen) == ToSet(Top(Public(db) \ seen, 6 * Limit, Number("rating"), Number("rating")))

\* Every order that some jitter gives the n best of the pool.
Recommended(pool, seen, n) ==
    {s \in [1..Fewer(n, Cardinality(pool)) -> pool] :
        /\ IsInjective(s)
        /\ \A i \in DOMAIN s : \A x \in pool \ {s[j] : j \in 1..i} :
              Affinity(seen, x) - Affinity(seen, s[i]) < 60}

Picks == <<"picks", AllCities>>

\* Without a check-in the answer is the editors' pick.
BeginForMe(r, w, seen) ==
    /\ req[r].step = 0 /\ Picks \in keys
    /\ IF seen = {}
       THEN req' = [req EXCEPT ![r] = [Free EXCEPT !.op = "read", !.step = 1, !.w = w, !.key = Picks,
                                             !.arg = "forMe"]]
       ELSE req' = [req EXCEPT ![r] = [Free EXCEPT !.op = "forMe", !.step = 1, !.arg = seen]]
    /\ UNCHANGED <<keys, db, cache, edge, edits>> /\ Same

AnswerForMe(r) ==
    /\ req[r].op = "forMe"
    /\ Recommended(Candidates(req[r].arg), req[r].arg, Limit) # {}
    /\ req' = [req EXCEPT ![r] = Free]
    /\ UNCHANGED <<keys, db, cache, edge, edits>> /\ Same

----------------------------------------------------------------------------
\* A client that asks for one page of a list after another, of which the CDN keeps
\* none; such behaviours look at no cached page.  getManyAndCount reads the ids of
\* the page, the rows of those ids, and how many there are of all.
BeginPages(r, q) ==
    /\ req[r].step = 0 /\ keys = {}
    /\ req' = [req EXCEPT ![r] = [Free EXCEPT !.op = "pages", !.step = 1, !.arg = q,
                                    !.got = [page |-> 1, ids |-> <<>>, shown |-> <<>>]]]
    /\ UNCHANGED <<keys, db, cache, edge, edits>> /\ Same

Goes(r, step, got) ==
    /\ req' = [req EXCEPT ![r].step = step, ![r].got = got]
    /\ UNCHANGED <<keys, db, cache, edge, edits>> /\ Same

PageIds(r) ==
    LET q == req[r].arg
        got == req[r].got
    IN  /\ req[r].op = "pages" /\ req[r].step = 1
        /\ \E all \in Sortings(Found(db, q), By(q.sort)) :
              Goes(r, 2, [got EXCEPT !.ids = Page(all, (got.page - 1) * q.limit, q.limit)])

PageRows(r) ==
    LET got == req[r].got
    IN  /\ req[r].op = "pages" /\ req[r].step = 2
        /\ Goes(r, 3, [got EXCEPT !.shown = @ \o Select(got.ids, Found(db, req[r].arg))])

PageCount(r) ==
    LET got == req[r].got
        last == TotalPages(Cardinality(Found(db, req[r].arg)), req[r].arg.limit)
    IN  /\ req[r].op = "pages" /\ req[r].step = 3
        /\ IF got.page < last THEN Goes(r, 1, [got EXCEPT !.page = @ + 1]) ELSE Goes(r, 4, got)

EndPages(r) ==
    /\ req[r].op = "pages" /\ req[r].step = 4
    /\ req' = [req EXCEPT ![r] = Free]
    /\ UNCHANGED <<keys, db, cache, edge, edits>> /\ Same

\* Time passes.  A load lasts one tick at most (three statements of ten seconds).
OlderForever(e, last) == IF e = None THEN None ELSE [e EXCEPT !.age = Fewer(last, @ + 1)]
Older(e, last) == IF e = None \/ e.age = last THEN None ELSE [e EXCEPT !.age = @ + 1]

Tick ==
    /\ \A r \in Requests : ~req[r].ticked
    /\ req' = [r \in Requests |-> [req[r] EXCEPT !.ticked = Loading(r)]]
    /\ cache' = [w \in Workers |-> [k \in keys |-> Older(cache[w][k], Ttl)]]
    /\ edge' = [k \in keys |-> Older(edge[k], SMaxAge + Swr)]
    /\ changed' = [k \in keys |-> Fewer(MaxAge, changed[k] + 1)]
    /\ UNCHANGED <<keys, db, edits, clean>>

Next ==
    \/ \E r \in Requests, w \in Workers :
          \/ \E k \in keys : BeginRead(r, w, k)
          \/ \E op \in EditOps, arg \in Venues \cup Cities : BeginEdit(r, w, op, arg)
          \/ \E seen \in SUBSET Venues : BeginForMe(r, w, seen)
    \/ \E r \in Requests, q \in Listings : BeginPages(r, q)
    \/ \E r \in Requests : \/ CacheHit(r) \/ Load(r) \/ CacheSet(r)
                           \/ Reload(r) \/ RefuseSlug(r) \/ SaveVenue(r) \/ SaveCity(r) \/ Invalidate(r)
                           \/ AnswerForMe(r)
                           \/ PageIds(r) \/ PageRows(r) \/ PageCount(r) \/ EndPages(r)
    \/ Tick

Spec == Init /\ [][Next]_vars
----------------------------------------------------------------------------
\* Rows, caches and requests are of their types.
TypeOK ==
    /\ db.venue \in [Venues -> [state : {"none", "live", "deleted"}, published : BOOLEAN]]
    /\ db.text \in [Cities -> 0..1]
    /\ \A r \in Requests : DOMAIN req[r] = DOMAIN Free /\ req[r].step \in 0..4
    /\ \A w \in Workers, k \in keys : cache[w][k] # None => cache[w][k].age \in 0..Ttl

\* Whichever worker answers, a page from its cache is the database's, or has
\* changed no longer ago than a load and the time to live; the CDN adds its two
\* periods, and the tick of the request it answered.
StaleBounded ==
    \A k \in keys :
        LET Fresh(e, bound) == e # None => e.value = Answer(db, k) \/ changed[k] <= bound
        IN  /\ \A w \in Workers : Fresh(cache[w][k], Ttl + 1)
            /\ Fresh(edge[k], Ttl + SMaxAge + Swr + 1)

\* After an editor's invalidation its worker shows the edit, unless a load was
\* under way then or another worker's editor has changed the page since.
EditorSeesEdit ==
    \A w \in Workers : \A k \in clean[w] :
        cache[w][k] # None => cache[w][k].value = Answer(db, k)

\* A section that no edit overlapped is as long as there are venues to fill it,
\* shows none twice and none that is hidden; recommendations show only public
\* venues that are new to the user, whatever edits go on.
SectionFull ==
    \A r \in Requests :
        LET n == req[r]
        IN  /\ Loading(r) /\ n.calm /\ n.key[1] \in {"trending", "favorites"} /\ n.step = 4 =>
                 /\ IsInjective(n.got) /\ ToSet(n.got) \subseteq In(db, n.key[2])
                 /\ Len(n.got) = Fewer(Limit, VenueCount(db, n.key[2]))
            /\ n.op = "forMe" => \A s \in Recommended(Candidates(n.arg), n.arg, Limit) :
                 ToSet(s) \cap n.arg = {} /\ ToSet(s) \subseteq Public(db)

\* A client that follows a list to its last page, with no edit meanwhile, is shown
\* each of its venues once, in one order, whatever numbers are equal and wherever
\* the pages break.
PagesShowAll ==
    \A r \in Requests :
        req[r].op = "pages" /\ req[r].step = 4 /\ req[r].calm =>
            req[r].got.shown \in Sortings(Found(db, req[r].arg), By(req[r].arg.sort))
=============================================================================
