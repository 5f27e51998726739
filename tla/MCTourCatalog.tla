--------------------------- MODULE MCTourCatalog ---------------------------
(* Instances of TourCatalog for TLC: a tour of a brand and room for another *)
(* of each, one venue in each of two cities, and the requests that can meet.*)
EXTENDS TourCatalog, TLC

CONSTANTS t1, t2, b1, b2

MCVenueCity == [v \in {"cafe", "beach"} |-> IF v = "cafe" THEN "hanoi" ELSE "hue"]

Hanoi == <<[city |-> "hanoi", venue |-> "cafe"]>>
Both == <<[city |-> "hue", venue |-> "beach"], [city |-> "hanoi", venue |-> NoVenue]>>
Wrong == <<[city |-> "hue", venue |-> "cafe"]>>

Brand0 == [NewBrand EXCEPT !.exists = TRUE, !.name = "b", !.logo = "logo"]
Tour0 == [WithItinerary(NewTour, Hanoi) EXCEPT !.exists = TRUE, !.slug = <<"hanoi", 1>>,
            !.images = <<"f1", "f2">>, !.cover = "f1", !.brand = b1,
            !.provider = BuildProvider(Brand0)]
MCRow0 == [tours |-> t1 :> Tour0, stops |-> StopRows("seed", Hanoi), brands |-> b1 :> Brand0]

Edits == {
    [Body("update", t1) EXCEPT !.stops = Both],
    [Body("update", t1) EXCEPT !.stops = Wrong],
    [Body("update", t1) EXCEPT !.brand = NoBrand, !.cover = "f2"],
    [Body("update", t1) EXCEPT !.images = <<"f2">>],
    [Body("publish", t1) EXCEPT !.published = FALSE],
    Body("remove", t1),
    Body("addPromotion", t1), Body("updatePromotion", t1), Body("removePromotion", t1)}
Creates == {[Body("create", t2) EXCEPT !.stops = Hanoi, !.brand = b1]}
BrandEdits == {
    [Body("editBrand", b1) EXCEPT !.name = "new", !.logo = "logo2"],
    [Body("verifyBrand", b1) EXCEPT !.verified = TRUE],
    [Body("verifyBrand", b1) EXCEPT !.verified = FALSE],
    Body("removeBrand", b1),
    [Body("createBrand", b2) EXCEPT !.name = "other"]}
Emptied == [Body("update", t1) EXCEPT !.images = <<>>]
MCOps == Edits \cup Creates \cup BrandEdits
MCEmptied == {Emptied} \cup BrandEdits
Symmetric == Permutations(Reqs)

\* The first hypothesis of the theorem about galleries holds of these requests.
ASSUME OwnImages
============================================================================
