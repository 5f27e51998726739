----------------------------- MODULE MCVenueLists -----------------------------
(***************************************************************************)
(* What visitors are shown of the venues: a behaviour looks at the public  *)
(* pages or at the searches, while the others stay as they begin.          *)
(***************************************************************************)
EXTENDS VenuePages, AiSearchPromise, TLC

CONSTANTS w1, w2, r1, r2,
          CityOf, WardOf, RegionOf, Wards, Capital, CurrentCities, Bogus, TooFew

VARIABLES part, hidden

A == INSTANCE AiSearch
----------------------------------------------------------------------------
\* A city and two venues of as many votes, one of which an editor has yet to create.
Row(id, city, category, new, created, upvotes, week, saves, rating, reviews) ==
    [id |-> id, city |-> city, category |-> category, new |-> new, created |-> created,
     upvotes |-> upvotes, week |-> week, saves |-> saves, rating |-> rating, reviews |-> reviews]

MCData == [v1 |-> Row(1, "c1", "cafe", FALSE, 1, 700, 0, 3, 490, 40),
           v2 |-> Row(2, "c1", "cafe", TRUE, 2, 700, 2, 0, 480, 200)]
MCVenues == {"v1", "v2"}
MCCities == {"c1"}
MCPages == {{}, {<<"list", AllCities>>}, {<<"slug", "c1">>}, {<<"trending", AllCities>>},
            {<<"favorites", "c1">>}, {<<"picks", AllCities>>}, {<<"gems", "c1">>}}
MCListings == {[city |-> AllCities, category |-> None, sort |-> "upvotes", limit |-> 1],
               [city |-> "c1", category |-> "cafe", sort |-> "rating", limit |-> 1],
               [city |-> "c1", category |-> None, sort |-> "newest", limit |-> 2]}
MCWorkers == {w1, w2}
MCRequests == {r1, r2}
----------------------------------------------------------------------------
\* Three venues of two cities; intents with and without a city, a category, a
\* ward and a count, one of which is a listing page and one fits no venue.
MCListed == <<"v1", "v2", "v3">>
MCCityOf == [v1 |-> "c1", v2 |-> "c1", v3 |-> "c2"]
MCWardOf == [v1 |-> "w1", v2 |-> "w2", v3 |-> "w3"]
MCRegionOf == [c1 |-> "south", c2 |-> "north"]
MCWards == [c1 |-> [q1 |-> {"w1", "w2"}], c2 |-> [q1 |-> {}]]

I(cities, categories, region, ward, count, vague, fits) ==
    [cities |-> cities, categories |-> categories, region |-> region, ward |-> ward,
     count |-> count, vague |-> vague, fits |-> fits]
All == {"v1", "v2", "v3"}
MCIntents == {I({}, {}, None, None, NoCount, FALSE, All),
              I({}, {"cafe"}, None, "q1", 1, FALSE, {"v1", "v2"}),
              I({"c1"}, {"cafe"}, None, None, NoCount, TRUE, All),
              I({}, {}, "north", None, 0, FALSE, {"v1"})}
MCCurrentCities == {None, "c2"}

Symmetry == Permutations(MCWorkers) \cup Permutations(MCRequests)
----------------------------------------------------------------------------
MCInit ==
    /\ part \in {"pages", "searches"}
    /\ Init /\ A!Init
    /\ part = "searches" => keys = {}

PagesPart == part = "pages" /\ Next /\ UNCHANGED <<part, hidden, row, search, raced>>
SearchesPart == part = "searches" /\ A!Next /\ UNCHANGED <<part, vars>>

MCNext == PagesPart \/ SearchesPart
allVars == <<part, vars, hidden, row, search, raced>>
MCSpec == MCInit /\ [][MCNext]_allVars
=============================================================================
