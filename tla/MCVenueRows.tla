------------------------------ MODULE MCVenueRows ------------------------------
(***************************************************************************)
(* The components that write the rows of venues, or rows that point to     *)
(* them, besides the editor: a behaviour runs one of the parts, while the  *)
(* others stay as they begin.                                              *)
(***************************************************************************)
EXTENDS Reviews, ImportsPromise, WardsPromise, JourneyPromise, SavedPromise

CONSTANTS Places, Data, Curated, MinRating, MinReviews, Bars, ReviewLimit, Count,
          MaxUploads, Touched,
          Editors, Seeds,
          JourneyVenues, JourneySessions, Workers, w1, MaxVisits, Months

VARIABLES part,
          users, script, uploads,
          index, wardScript, edits, versions,
          healed, req, finding

I == INSTANCE Imports
W == INSTANCE Wards WITH Workers <- {w1}, script <- wardScript
J == INSTANCE Journey WITH Venues <- JourneyVenues, Sessions <- JourneySessions
S == INSTANCE SavedVenues WITH Sessions <- JourneySessions
----------------------------------------------------------------------------
\* Two places share a title and one is the sibling city's; one author reviews
\* two places and two names make one handle; a landmark has the slug of a place.
Review(author, handle, photos, stars) ==
    [author |-> author, handle |-> handle, photos |-> photos, stars |-> stars]
Place(slug, rating, count, score, sibling, reviews) ==
    [slug |-> slug, rating |-> rating, count |-> count, score |-> score, sibling |-> sibling, reviews |-> reviews]
MCData == [p1 |-> Place("pho", 450, 100, 1, FALSE, <<Review("An", "an", 0, 5), Review("Binh", "binh", 1, 4)>>),
           p2 |-> Place("pho", 500, 100, 3, FALSE, <<Review("An", "an", 0, 5), Review("An!", "an", 0, 3)>>),
           p3 |-> Place("tower", 420, 200, 2, FALSE, <<Review("Binh", "binh", 2, 4), Review("Chi", "chi", 1, 5)>>),
           p4 |-> Place("far", 480, 200, 4, TRUE, <<>>)]
MCPlaces == DOMAIN MCData
MCBars == {90, 150}
MCCurated == {"tower"}

\* An alias of two wards, which the next version of the file keeps for one; a
\* venue that its address resolves, one near it without texts, one far away.
MCSeedFiles == {[banco |-> {<<"q3">>}, xuanhoa |-> {<<"q3">>}],
                [banco |-> {<<"q3">>}, saigon |-> {<<"q1">>, <<"ben", "nghe">>}]}
Seg(text, street) == [text |-> text, street |-> street]
WardRow(district, address, at) ==
    [district |-> district, address |-> address, at |-> at, published |-> TRUE,
     ward |-> None, method |-> None]
Address == <<Seg(<<"q3">>, TRUE), Seg(<<"saigon">>, FALSE), Seg(<<"xuanhoa">>, FALSE),
             Seg(<<"hcm">>, FALSE), Seg(<<"viet nam">>, FALSE)>>
MCVenue0 == [v1 |-> WardRow(<<"hcm">>, Address, 5),
             v2 |-> WardRow(<<"hcm">>, <<>>, 7),
             v3 |-> WardRow(<<"p6", "q3">>, <<>>, 20)]
MCChanges == {[district |-> <<"ben", "nghe">>, address |-> <<>>, at |-> 20], [published |-> FALSE]}
\* A save that carries a district without a ward, of a venue whose address has one.
MCRedistrict == {[district |-> <<"hcm">>]}
MCNewVenues == [v4 |-> [WardRow(<<"saigon">>, <<>>, 20) EXCEPT !.published = FALSE]]
----------------------------------------------------------------------------
MCInit ==
    /\ part \in {"reviews", "imports", "wards", "journey", "saved"}
    /\ Init /\ I!Init /\ W!Init /\ J!Init /\ S!Init
    /\ part # "wards" => file = CHOOSE f \in SeedFiles : TRUE
    /\ part # "journey" => visits = [v \in JourneyVenues |-> 0]

importVars == <<venues, users, disk, progress, script, uploads, reset>>
wardVars == <<file, wards, located, index, wardScript, edits, versions, tidy>>
journeyVars == <<visits, entries, healed, req, good, dropped, fails>>
savedVars == <<saved, month, wiped, finding>>

ReviewsPart == part = "reviews" /\ Next /\ UNCHANGED <<part, importVars, wardVars, journeyVars, savedVars>>
ImportsPart == part = "imports" /\ I!Next /\ UNCHANGED <<part, vars, wardVars, journeyVars, savedVars>>
WardsPart == part = "wards" /\ W!Next /\ UNCHANGED <<part, vars, importVars, journeyVars, savedVars>>
JourneyPart == part = "journey" /\ J!Next /\ UNCHANGED <<part, vars, importVars, wardVars, savedVars>>
SavedPart == part = "saved" /\ S!Next /\ UNCHANGED <<part, vars, importVars, wardVars, journeyVars>>

MCNext == ReviewsPart \/ ImportsPart \/ WardsPart \/ JourneyPart \/ SavedPart
allVars == <<part, vars, importVars, wardVars, journeyVars, savedVars>>
MCSpec == MCInit /\ [][MCNext]_allVars
=============================================================================
