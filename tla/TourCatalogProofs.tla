-------------------------- MODULE TourCatalogProofs --------------------------
(***************************************************************************)
(* The properties of TourCatalog, for any tours, brands, requests          *)
(* and limit.  PromotionsBounded: a request writes the whole list of       *)
(* promotions that it counted, so overlapping requests may lose one        *)
(* another's promotions but never exceed the limit, and the id of a        *)
(* promotion is in no list before its request has loaded.  The others      *)
(* follow every request along its route: Pc is the statement it stands at, *)
(* After the one that comes next, and Statement(r) what the statement does *)
(* to the columns that the properties read.  ItinerariesSurvive holds      *)
(* whatever overlaps; DerivedFromStops and ProviderIsBrand rest on what    *)
(* the only request on a tour, or on a brand, has in hand (InStep,         *)
(* SavingInStep, Branding); GalleryOnDisk on the names of the files too    *)
(* (Pictured), for an edit of anything else unlinks none of a tour's.      *)
(***************************************************************************)
EXTENDS TourCatalog, FiniteSetTheorems, SequenceTheorems, TLAPS

Columns == DOMAIN NewTour
Fields == DOMAIN Idle

TourSteps == {"itinerary", "brand", "slug", "insert", "load", "delete", "reload", "write",
              "unlink", "softDelete"}
BrandSteps == {"insertBrand", "loadBrand", "reloadBrand", "writeBrand", "sync", "unlinkLogo",
               "unstamp", "softDeleteBrand"}
PromotionSteps == {"load", "reload", "write"}

StepsOf(op) == IF op.kind \in BrandKinds THEN BrandSteps
               ELSE IF op.kind \in PromotionKinds THEN PromotionSteps ELSE TourSteps

ForTour(r) == req[r] # Idle /\ req[r].op.kind \notin BrandKinds
Unloaded(r) == req[r] = Idle \/ At(r, "load")

\* A list of promotions within the limit, and its ids.
Good(promos) == IsFiniteSet(promos) /\ WithinLimit(promos)
IdsOf(promos) == {p.id : p \in promos}
Others(promos, id) == {p \in promos : p.id # id}

RowsAre == /\ DOMAIN tours = Tours
           /\ \A t \in Tours : DOMAIN tours[t] = Columns /\ Good(tours[t].promos)

\* What a request that has begun keeps to.
Begun(q) == /\ q.op \in Ops
            /\ q.todo \in Seq(StepsOf(q.op))
            /\ q.todo # <<>> => Tail(q.todo) \in Seq(StepsOf(q.op) \ {"load"})
            /\ q.end # "none" => q.todo = <<>>
            /\ q.op.kind \notin BrandKinds => DOMAIN q.row = Columns /\ Good(q.row.promos)

RequestsAre == /\ DOMAIN req = Reqs
               /\ \A r \in Reqs : DOMAIN req[r] = Fields /\ (req[r] = Idle \/ Begun(req[r]))

\* The promotion of a request is that of one that has loaded, or its own, and
\* who adds one adds its own.
OwnPromo ==
    \A r \in Reqs : req[r] # Idle =>
        /\ req[r].promo \in Reqs
        /\ req[r].promo = r \/ ~Unloaded(req[r].promo)
        /\ req[r].op.kind = "addPromotion" => req[r].promo = r

\* The id of a request that has not loaded is in no list.
Unseen ==
    \A r \in Reqs : Unloaded(r) =>
        /\ \A t \in Tours : r \notin IdsOf(tours[t].promos)
        /\ \A q \in Reqs : ForTour(q) => r \notin IdsOf(req[q].row.promos)

\* The inductive invariant.
IInv == RowsAre /\ RequestsAre /\ OwnPromo /\ Unseen

-----------------------------------------------------------------------------
(* Lists of promotions                                                     *)

LEMMA NoneGood == Good({}) /\ IdsOf({}) = {}
  BY FS_EmptySet, PromotionsAssumption DEF Good, WithinLimit, IdsOf

LEMMA AddGood ==
  ASSUME NEW promos, NEW promo, Good(promos), Cardinality(promos) < MaxPromotions,
         promo.id \notin IdsOf(promos)
  PROVE  Good(promos \cup {promo})
<1>1. /\ IsFiniteSet(promos \cup {promo})
      /\ Cardinality(promos \cup {promo}) \in {Cardinality(promos), Cardinality(promos) + 1}
  BY FS_AddElement DEF Good
<1>2. Cardinality(promos) \in Nat
  BY FS_CardinalityType DEF Good
<1>3. \A p, q \in promos \cup {promo} : p.id = q.id => p = q
  BY DEF Good, WithinLimit, IdsOf
<1> QED
  BY <1>1, <1>2, <1>3, PromotionsAssumption DEF Good, WithinLimit

LEMMA OthersGood ==
  ASSUME NEW promos, NEW id, Good(promos)
  PROVE  /\ Good(Others(promos, id))
         /\ id \notin IdsOf(Others(promos, id))
         /\ IdsOf(Others(promos, id)) \subseteq IdsOf(promos)
         /\ (\E p \in promos : p.id = id) => Cardinality(Others(promos, id)) < Cardinality(promos)
<1> DEFINE others == Others(promos, id)
<1>1. others \subseteq promos /\ IsFiniteSet(promos)
  BY DEF Good, Others
<1>2. /\ IsFiniteSet(others)
      /\ Cardinality(others) \in Nat /\ Cardinality(promos) \in Nat
      /\ Cardinality(others) <= Cardinality(promos)
      /\ Cardinality(others) = Cardinality(promos) => others = promos
  BY <1>1, FS_Subset, FS_CardinalityType
<1>3. Good(others)
  BY <1>1, <1>2, PromotionsAssumption DEF Good, WithinLimit
<1>4. id \notin IdsOf(others) /\ IdsOf(others) \subseteq IdsOf(promos)
  BY DEF IdsOf, Others
<1>5. (\E p \in promos : p.id = id) => Cardinality(others) < Cardinality(promos)
  BY <1>2 DEF Others
<1> QED
  BY <1>3, <1>4, <1>5

\* What a request makes of the list it loads is within the limit, and has no
\* new id but that of its promotion.
LEMMA EditedGood ==
  ASSUME NEW r \in Reqs, NEW row, DOMAIN row = Columns, Good(row.promos),
         ~Refused(r, row), req[r].op.kind = "addPromotion" => req[r].promo \notin IdsOf(row.promos)
  PROVE  /\ DOMAIN Edited(r, row) = Columns
         /\ Good(Edited(r, row).promos)
         /\ IdsOf(Edited(r, row).promos) \subseteq IdsOf(row.promos) \cup {req[r].promo}
<1> DEFINE kind == req[r].op.kind
           promo == [id |-> req[r].promo, by |-> r]
           others == Others(row.promos, req[r].promo)
<1>0. "promos" \in Columns
  BY DEF Columns, NewTour
<1>1. CASE kind = "addPromotion"
  <2>1. Edited(r, row) = [row EXCEPT !.promos = @ \cup {promo}]
    BY <1>1 DEF Edited
  <2>2. Cardinality(row.promos) < MaxPromotions
    BY <1>1, FS_CardinalityType, PromotionsAssumption DEF Refused, Good
  <2>3. Good(row.promos \cup {promo})
    BY <1>1, <2>2, AddGood
  <2> QED
    BY <1>0, <2>1, <2>3 DEF IdsOf
<1>2. CASE kind = "updatePromotion"
  <2>1. Edited(r, row) = [row EXCEPT !.promos = others \cup {promo}]
    BY <1>2 DEF Edited, Others
  <2>2. \E p \in row.promos : p.id = promo.id
    BY <1>2 DEF Refused
  <2>3. /\ Good(others) /\ promo.id \notin IdsOf(others)
        /\ IdsOf(others) \subseteq IdsOf(row.promos)
        /\ Cardinality(others) < Cardinality(row.promos)
    BY <2>2, OthersGood
  <2>4. Cardinality(others) < MaxPromotions
    BY <2>3, FS_CardinalityType, PromotionsAssumption DEF Good, WithinLimit
  <2>5. Good(others \cup {promo})
    BY <2>3, <2>4, AddGood
  <2> QED
    BY <1>0, <2>1, <2>3, <2>5 DEF IdsOf
<1>3. CASE kind = "removePromotion"
  <2>1. Edited(r, row) = [row EXCEPT !.promos = others]
    BY <1>3 DEF Edited, Others
  <2>2. Good(others) /\ IdsOf(others) \subseteq IdsOf(row.promos)
    BY OthersGood
  <2> QED
    BY <1>0, <2>1, <2>2
<1>4. CASE kind \notin PromotionKinds
  <2>1. DOMAIN Edited(r, row) = Columns /\ Edited(r, row).promos = row.promos
    BY <1>0, <1>4 DEF Edited, PromotionKinds
  <2> QED
    BY <2>1
<1> QED
  BY <1>1, <1>2, <1>3, <1>4 DEF PromotionKinds

-----------------------------------------------------------------------------
(* One statement of a request                                              *)

\* A request runs one statement or stops; the others stay as they are.
Proceeds(r) ==
    /\ req[r].todo # <<>>
    /\ DOMAIN req' = Reqs /\ \A q \in Reqs \ {r} : req'[q] = req[q]
    /\ DOMAIN req'[r] = Fields
    /\ req'[r].op = req[r].op /\ req'[r].promo = req[r].promo
    /\ \/ /\ req'[r].todo = Tail(req[r].todo)
          /\ req'[r].end = IF Len(req[r].todo) = 1 THEN "ok" ELSE "none"
       \/ req'[r].todo = <<>>

\* What it may do to the lists: only loading brings in an id.
Moves(r) ==
    /\ Proceeds(r)
    /\ RowsAre'
    /\ \A t \in Tours : IdsOf(tours'[t].promos) \subseteq IdsOf(tours[t].promos) \cup
            (IF ForTour(r) THEN IdsOf(req[r].row.promos) ELSE {})
    /\ ForTour(r) =>
         /\ DOMAIN req'[r].row = Columns /\ Good(req'[r].row.promos)
         /\ IdsOf(req'[r].row.promos) \subseteq IdsOf(req[r].row.promos) \cup
               (IF At(r, "load") THEN IdsOf(tours[req[r].op.at].promos) \cup {req[r].promo} ELSE {})

LEMMA GoProceeds ==
  ASSUME RequestsAre, NEW r \in Reqs, req[r].todo # <<>>, NEW new, DOMAIN new = Fields,
         new.todo = req[r].todo, new.op = req[r].op, new.promo = req[r].promo, Go(r, new)
  PROVE  Proceeds(r) /\ req'[r].row = new.row
  BY DEF RequestsAre, Go, Proceeds, Fields, Idle

LEMMA StopProceeds ==
  ASSUME RequestsAre, NEW r \in Reqs, req[r].todo # <<>>, NEW how, Stop(r, how)
  PROVE  Proceeds(r) /\ req'[r].row = req[r].row
  BY DEF RequestsAre, Stop, Proceeds, Fields, Idle

\* A request that stands at a step has begun, and the step is one of its kind.
LEMMA StandsAt ==
  ASSUME RequestsAre, NEW r \in Reqs, req[r].todo # <<>>
  PROVE  /\ Begun(req[r]) /\ req[r] # Idle /\ DOMAIN req[r] = Fields
         /\ Head(req[r].todo) \in StepsOf(req[r].op)
         /\ req[r].op.kind \notin BrandKinds => req[r].op.at \in Tours
<1>1. req[r] # Idle
  BY DEF Idle
<1>2. Begun(req[r]) /\ DOMAIN req[r] = Fields
  BY <1>1 DEF RequestsAre
<1>3. Head(req[r].todo) \in StepsOf(req[r].op)
  BY <1>2, HeadTailProperties DEF Begun
<1>4. req[r].op.kind \notin BrandKinds => req[r].op.at \in Tours
  BY <1>2, OpsAssumption DEF Begun
<1> QED
  BY <1>1, <1>2, <1>3, <1>4

\* A statement that leaves the tours' lists and its own alone.
LEMMA QuietMoves ==
  ASSUME RowsAre, RequestsAre, NEW r \in Reqs, Proceeds(r), RowsAre',
         \A t \in Tours : tours'[t].promos = tours[t].promos,
         ForTour(r) => DOMAIN req'[r].row = Columns /\ req'[r].row.promos = req[r].row.promos
  PROVE  Moves(r)
<1>1. ForTour(r) => Good(req[r].row.promos)
  BY StandsAt DEF Proceeds, Begun, ForTour
<1> QED
  BY <1>1 DEF Moves

(* The statements on tours                                                 *)

LEMMA LoadMoves ==
  ASSUME IInv, NEW r \in Reqs, LoadTour(r)
  PROVE  Moves(r)
<1> DEFINE at == req[r].op.at
<1>1. req[r].todo # <<>> /\ At(r, "load")
  BY DEF LoadTour, At
<1>2. /\ Begun(req[r]) /\ req[r] # Idle /\ DOMAIN req[r] = Fields
      /\ Head(req[r].todo) \in StepsOf(req[r].op)
      /\ req[r].op.kind \notin BrandKinds => at \in Tours
  BY <1>1, StandsAt DEF IInv
<1>3. ForTour(r) /\ at \in Tours
  BY <1>1, <1>2 DEF At, ForTour, StepsOf, BrandSteps
<1>4. RowsAre'
  BY DEF IInv, RowsAre, LoadTour
<1>5. CASE Stop(r, "refused")
  BY <1>1, <1>3, <1>4, <1>5, StopProceeds, QuietMoves, StandsAt DEF IInv, LoadTour, ForTour, Begun
<1>6. CASE ~Refused(r, tours[at])
           /\ Go(r, [req[r] EXCEPT !.old = tours[at], !.row = Edited(r, tours[at])])
  <2>1. Proceeds(r) /\ req'[r].row = Edited(r, tours[at])
    <3> DEFINE new == [req[r] EXCEPT !.old = tours[at], !.row = Edited(r, tours[at])]
    <3>1. /\ DOMAIN new = Fields /\ new.row = Edited(r, tours[at])
          /\ new.todo = req[r].todo /\ new.op = req[r].op /\ new.promo = req[r].promo
      BY <1>2 DEF Fields, Idle
    <3> QED
      BY <1>1, <1>6, <3>1, GoProceeds DEF IInv
  <2>2. req[r].op.kind = "addPromotion" => req[r].promo \notin IdsOf(tours[at].promos)
    BY <1>1, <1>2, <1>3 DEF IInv, OwnPromo, Unseen, Unloaded
  <2>3. /\ DOMAIN Edited(r, tours[at]) = Columns
        /\ Good(Edited(r, tours[at]).promos)
        /\ IdsOf(Edited(r, tours[at]).promos) \subseteq IdsOf(tours[at].promos) \cup {req[r].promo}
    <3>1. DOMAIN tours[at] = Columns /\ Good(tours[at].promos)
      BY <1>3 DEF IInv, RowsAre
    <3> QED
      BY <1>6, <2>2, <3>1, EditedGood
  <2> QED
    BY <1>1, <1>4, <2>1, <2>3 DEF Moves, LoadTour
<1> QED
  BY <1>5, <1>6 DEF LoadTour

LEMMA ResolveMoves ==
  ASSUME IInv, NEW r \in Reqs, ResolveBrand(r) \/ ResolveItinerary(r) \/ UniqueSlug(r)
  PROVE  Moves(r)
<1>1. req[r].todo # <<>>
  BY DEF ResolveBrand, ResolveItinerary, UniqueSlug, At
<1>2. Begun(req[r]) /\ DOMAIN req[r] = Fields
  BY <1>1, StandsAt DEF IInv
<1>3. RowsAre' /\ \A t \in Tours : tours'[t].promos = tours[t].promos
  BY DEF IInv, RowsAre, ResolveBrand, ResolveItinerary, UniqueSlug
<1>4. CASE \E how : Stop(r, how)
  BY <1>1, <1>2, <1>3, <1>4, StopProceeds, QuietMoves DEF IInv, ForTour, Begun
<1>5. ASSUME NEW row, Go(r, [req[r] EXCEPT !.row = row]),
             ForTour(r) => DOMAIN row = Columns /\ row.promos = req[r].row.promos
      PROVE  Moves(r)
  <2> DEFINE new == [req[r] EXCEPT !.row = row]
  <2>1. /\ DOMAIN new = Fields /\ new.row = row
        /\ new.todo = req[r].todo /\ new.op = req[r].op /\ new.promo = req[r].promo
    BY <1>2 DEF Fields, Idle
  <2>2. Proceeds(r) /\ req'[r].row = row
    BY <1>1, <1>5, <2>1, GoProceeds DEF IInv
  <2> QED
    BY <1>3, <1>5, <2>2, QuietMoves DEF IInv
<1>6. CASE ResolveBrand(r)
  <2>1. PICK b, p : \/ Stop(r, "refused")
                    \/ Go(r, [req[r] EXCEPT !.row.brand = b, !.row.provider = p])
    BY <1>6 DEF ResolveBrand
  <2> DEFINE row == [req[r].row EXCEPT !.brand = b, !.provider = p]
  <2>2. ForTour(r) => DOMAIN row = Columns /\ row.promos = req[r].row.promos
    BY <1>2 DEF ForTour, Begun, Columns, NewTour
  <2>3. [req[r] EXCEPT !.row.brand = b, !.row.provider = p] = [req[r] EXCEPT !.row = row]
    BY <1>2 DEF Fields, Idle
  <2> QED
    BY <1>4, <1>5, <2>1, <2>2, <2>3
<1>7. CASE ResolveItinerary(r)
  <2> DEFINE row == WithItinerary(req[r].row, req[r].op.stops)
  <2>1. Stop(r, "refused") \/ Go(r, [req[r] EXCEPT !.row = row])
    BY <1>2, <1>7 DEF ResolveItinerary, Fields, Idle
  <2>2. ForTour(r) => DOMAIN row = Columns /\ row.promos = req[r].row.promos
    BY <1>2 DEF ForTour, Begun, Columns, NewTour, WithItinerary
  <2> QED
    BY <1>4, <1>5, <2>1, <2>2
<1>8. CASE UniqueSlug(r)
  <2> DEFINE row == [req[r].row EXCEPT !.slug = Slug(req[r].row)]
  <2>1. Go(r, [req[r] EXCEPT !.row = row])
    BY <1>2, <1>8 DEF UniqueSlug, Fields, Idle
  <2>2. ForTour(r) => DOMAIN row = Columns /\ row.promos = req[r].row.promos
    BY <1>2 DEF ForTour, Begun, Columns, NewTour
  <2> QED
    BY <1>5, <2>1, <2>2
<1> QED
  BY <1>6, <1>7, <1>8


\* A statement that goes on with the tours and the row it has.
LEMMA PlainMoves ==
  ASSUME IInv, NEW r \in Reqs, DeleteStops(r) \/ ReloadTour(r) \/ UnlinkImages(r) \/ Fail(r)
  PROVE  Moves(r)
<1>1. req[r].todo # <<>>
  BY DEF DeleteStops, ReloadTour, UnlinkImages, At, Fail, InFlight
<1>2. Begun(req[r]) /\ DOMAIN req[r] = Fields
  BY <1>1, StandsAt DEF IInv
<1>3. RowsAre' /\ \A t \in Tours : tours'[t].promos = tours[t].promos
  BY DEF IInv, RowsAre, DeleteStops, ReloadTour, UnlinkImages, Fail
<1>4. Proceeds(r) /\ req'[r].row = req[r].row
  <2>1. CASE DeleteStops(r) \/ UnlinkImages(r)
    BY <1>1, <1>2, <2>1, GoProceeds DEF IInv, DeleteStops, UnlinkImages
  <2>2. CASE ReloadTour(r)
    <3>1. PICK a, b : Go(r, [req[r] EXCEPT !.seen = a, !.seenStops = b])
      BY <2>2 DEF ReloadTour
    <3> DEFINE new == [req[r] EXCEPT !.seen = a, !.seenStops = b]
    <3>2. /\ DOMAIN new = Fields /\ new.row = req[r].row
          /\ new.todo = req[r].todo /\ new.op = req[r].op /\ new.promo = req[r].promo
      BY <1>2 DEF Fields, Idle
    <3> QED
      BY <1>1, <3>1, <3>2, GoProceeds DEF IInv
  <2>3. CASE Fail(r)
    BY <1>1, <2>3, StopProceeds DEF IInv, Fail
  <2> QED
    BY <2>1, <2>2, <2>3
<1> QED
  BY <1>2, <1>3, <1>4, QuietMoves DEF IInv, ForTour, Begun

\* The save writes its whole list, or leaves the column alone.
LEMMA WriteMoves ==
  ASSUME IInv, NEW r \in Reqs, WriteTour(r)
  PROVE  Moves(r)
<1> DEFINE at == req[r].op.at
           saved == SaveDiff(req[r].row, req[r].seen, tours[at])
<1>1. req[r].todo # <<>> /\ At(r, "write")
  BY DEF WriteTour, At
<1>2. /\ Begun(req[r]) /\ req[r] # Idle /\ DOMAIN req[r] = Fields
      /\ Head(req[r].todo) \in StepsOf(req[r].op)
      /\ req[r].op.kind \notin BrandKinds => at \in Tours
  BY <1>1, StandsAt DEF IInv
<1>3. ForTour(r) /\ at \in Tours
  BY <1>1, <1>2 DEF At, ForTour, StepsOf, BrandSteps
<1>4. CASE Stop(r, "failed") /\ UNCHANGED tours
  <2>1. RowsAre'
    BY <1>4 DEF IInv, RowsAre
  <2> QED
    BY <1>1, <1>2, <1>3, <1>4, <2>1, StopProceeds, QuietMoves DEF IInv, Begun, ForTour
<1>5. CASE tours' = [tours EXCEPT ![at] = saved] /\ Go(r, req[r])
  <2>1. Proceeds(r) /\ req'[r].row = req[r].row
    BY <1>1, <1>2, <1>5, GoProceeds DEF IInv
  <2>2. /\ DOMAIN tours[at] = Columns /\ Good(tours[at].promos)
        /\ DOMAIN req[r].row = Columns /\ Good(req[r].row.promos)
    BY <1>2, <1>3 DEF IInv, RowsAre, Begun, ForTour
  <2>3. DOMAIN saved = Columns /\ saved.promos \in {tours[at].promos, req[r].row.promos}
    BY <2>2 DEF SaveDiff, Columns, NewTour
  <2>4. Good(saved.promos)
    BY <2>2, <2>3
  <2>5. /\ DOMAIN tours' = Tours /\ tours'[at] = saved
        /\ \A t \in Tours \ {at} : tours'[t] = tours[t]
    BY <1>3, <1>5 DEF IInv, RowsAre
  <2>6. RowsAre'
    BY <2>3, <2>4, <2>5 DEF IInv, RowsAre
  <2>7. IdsOf(saved.promos) \subseteq IdsOf(tours[at].promos) \cup IdsOf(req[r].row.promos)
    BY <2>3
  <2> QED
    BY <1>3, <2>1, <2>2, <2>5, <2>6, <2>7 DEF Moves
<1> QED
  BY <1>4, <1>5 DEF WriteTour

LEMMA InsertMoves ==
  ASSUME IInv, NEW r \in Reqs, InsertTour(r)
  PROVE  Moves(r)
<1> DEFINE at == req[r].op.at
           row == Edited(r, req[r].row)
<1>1. req[r].todo # <<>> /\ At(r, "insert")
  BY DEF InsertTour, At
<1>2. /\ Begun(req[r]) /\ req[r] # Idle /\ DOMAIN req[r] = Fields
      /\ Head(req[r].todo) \in StepsOf(req[r].op)
      /\ req[r].op.kind \notin BrandKinds => at \in Tours
  BY <1>1, StandsAt DEF IInv
<1>3. ForTour(r) /\ at \in Tours /\ req[r].op.kind \notin PromotionKinds
  BY <1>1, <1>2 DEF At, ForTour, StepsOf, BrandSteps, PromotionSteps
<1>4. CASE Stop(r, "failed") /\ UNCHANGED tours
  <2>1. RowsAre'
    BY <1>4 DEF IInv, RowsAre
  <2> QED
    BY <1>1, <1>2, <1>3, <1>4, <2>1, StopProceeds, QuietMoves DEF IInv, Begun, ForTour
<1>5. ASSUME NEW cover, Go(r, req[r]),
             tours' = [tours EXCEPT ![at] = [row EXCEPT !.exists = TRUE, !.cover = cover]]
      PROVE  Moves(r)
  <2> DEFINE inserted == [row EXCEPT !.exists = TRUE, !.cover = cover]
  <2>1. Proceeds(r) /\ req'[r].row = req[r].row
    BY <1>1, <1>2, <1>5, GoProceeds DEF IInv
  <2>2. DOMAIN req[r].row = Columns /\ Good(req[r].row.promos)
    BY <1>2, <1>3 DEF Begun, ForTour
  <2>3. DOMAIN row = Columns /\ row.promos = req[r].row.promos
    BY <1>3, <2>2 DEF Edited, PromotionKinds, Columns, NewTour
  <2>4. DOMAIN inserted = Columns /\ inserted.promos = req[r].row.promos
    BY <2>3 DEF Columns, NewTour
  <2>5. /\ DOMAIN tours' = Tours /\ tours'[at] = inserted
        /\ \A t \in Tours \ {at} : tours'[t] = tours[t]
    BY <1>3, <1>5 DEF IInv, RowsAre
  <2>6. RowsAre'
    <3> HIDE DEF inserted
    <3> QED
      BY <2>2, <2>4, <2>5 DEF IInv, RowsAre
  <2>7. tours'[at].promos = req[r].row.promos
    BY <2>4, <2>5
  <2> QED
    BY <1>3, <2>1, <2>2, <2>5, <2>6, <2>7 DEF Moves
<1>6. CASE ~(Stop(r, "failed") /\ UNCHANGED tours)
  <2> DEFINE cover == IF Given(req[r].op.cover) THEN row.cover
                      ELSE First(row.images, row.provider.logo)
  <2>1. /\ Go(r, req[r])
        /\ tours' = [tours EXCEPT ![at] = [row EXCEPT !.exists = TRUE,
                         !.cover = IF Given(req[r].op.cover) THEN @
                                   ELSE First(row.images, row.provider.logo)]]
    BY <1>6 DEF InsertTour
  <2>2. tours' = [tours EXCEPT ![at] = [row EXCEPT !.exists = TRUE, !.cover = cover]]
    BY <2>1
  <2> QED
    BY <1>5, <2>1, <2>2
<1> QED
  BY <1>4, <1>6


LEMMA SoftDeleteMoves ==
  ASSUME IInv, NEW r \in Reqs, SoftDeleteTour(r)
  PROVE  Moves(r)
<1> DEFINE at == req[r].op.at
<1>1. req[r].todo # <<>> /\ At(r, "softDelete")
  BY DEF SoftDeleteTour, At
<1>2. /\ Begun(req[r]) /\ req[r] # Idle /\ DOMAIN req[r] = Fields
      /\ Head(req[r].todo) \in StepsOf(req[r].op)
      /\ req[r].op.kind \notin BrandKinds => at \in Tours
  BY <1>1, StandsAt DEF IInv
<1>3. ForTour(r) /\ at \in Tours
  BY <1>1, <1>2 DEF At, ForTour, StepsOf, BrandSteps
<1>4. Proceeds(r) /\ req'[r].row = req[r].row
  BY <1>1, <1>2, GoProceeds DEF IInv, SoftDeleteTour
<1>5. /\ DOMAIN tours' = Tours
      /\ \A t \in Tours : DOMAIN tours'[t] = Columns /\ tours'[t].promos = tours[t].promos
  BY <1>3 DEF SoftDeleteTour, IInv, RowsAre, Columns, NewTour
<1>6. RowsAre'
  BY <1>5 DEF IInv, RowsAre
<1> QED
  BY <1>2, <1>4, <1>5, <1>6, QuietMoves DEF IInv, ForTour, Begun

-----------------------------------------------------------------------------
(* The statements on brands, of which two stamp the tours                  *)

LEMMA BrandMoves ==
  ASSUME IInv, NEW r \in Reqs, BrandStep(r)
  PROVE  Moves(r)
<1>1. req[r].todo # <<>> /\ Head(req[r].todo) \in BrandSteps
  BY DEF BrandStep, InsertBrand, LoadBrand, ReloadBrand, WriteBrand, SyncTourProviders, UnlinkLogo,
         UnstampTours, SoftDeleteBrand, At, BrandSteps
<1>2. /\ Begun(req[r]) /\ DOMAIN req[r] = Fields
      /\ Head(req[r].todo) \in StepsOf(req[r].op)
  BY <1>1, StandsAt DEF IInv
<1>3. ~ForTour(r)
  BY <1>1, <1>2 DEF ForTour, StepsOf, BrandSteps, PromotionSteps, TourSteps
<1>4. Proceeds(r)
  <2>1. CASE InsertBrand(r) \/ WriteBrand(r) \/ SyncTourProviders(r) \/ UnlinkLogo(r)
             \/ UnstampTours(r) \/ SoftDeleteBrand(r)
    <3>1. Go(r, req[r])
      BY <2>1 DEF InsertBrand, WriteBrand, SyncTourProviders, UnlinkLogo, UnstampTours, SoftDeleteBrand
    <3> QED
      BY <1>1, <1>2, <3>1, GoProceeds DEF IInv
  <2>2. CASE LoadBrand(r)
    <3>1. PICK a, b : Stop(r, "refused") \/ Go(r, [req[r] EXCEPT !.old = a, !.row = b])
      BY <2>2 DEF LoadBrand
    <3> DEFINE new == [req[r] EXCEPT !.old = a, !.row = b]
    <3>2. /\ DOMAIN new = Fields
          /\ new.todo = req[r].todo /\ new.op = req[r].op /\ new.promo = req[r].promo
      BY <1>2 DEF Fields, Idle
    <3> QED
      BY <1>1, <3>1, <3>2, GoProceeds, StopProceeds DEF IInv
  <2>3. CASE ReloadBrand(r)
    <3>1. PICK a : Go(r, [req[r] EXCEPT !.seen = a])
      BY <2>3 DEF ReloadBrand
    <3> DEFINE new == [req[r] EXCEPT !.seen = a]
    <3>2. /\ DOMAIN new = Fields
          /\ new.todo = req[r].todo /\ new.op = req[r].op /\ new.promo = req[r].promo
      BY <1>2 DEF Fields, Idle
    <3> QED
      BY <1>1, <3>1, <3>2, GoProceeds DEF IInv
  <2> QED
    BY <2>1, <2>2, <2>3 DEF BrandStep
<1>5. /\ DOMAIN tours' = Tours
      /\ \A t \in Tours : DOMAIN tours'[t] = Columns /\ tours'[t].promos = tours[t].promos
  <2>1. CASE UNCHANGED tours
    BY <2>1 DEF IInv, RowsAre
  <2>2. CASE \E b, p : Stamp(b, p)
    BY <2>2 DEF Stamp, IInv, RowsAre, Columns, NewTour
  <2> QED
    BY <2>1, <2>2 DEF BrandStep, InsertBrand, LoadBrand, ReloadBrand, WriteBrand, SyncTourProviders,
                      UnlinkLogo, UnstampTours, SoftDeleteBrand
<1>6. RowsAre'
  BY <1>5 DEF IInv, RowsAre
<1> QED
  BY <1>3, <1>4, <1>5, <1>6, QuietMoves DEF IInv


-----------------------------------------------------------------------------
(* The invariant                                                           *)

LEMMA TailsStay ==
  ASSUME NEW S, NEW todo \in Seq(S), todo # <<>>, Tail(todo) \in Seq(S \ {"load"})
  PROVE  /\ Tail(todo) \in Seq(S)
         /\ Tail(todo) # <<>> => /\ Head(Tail(todo)) # "load"
                                 /\ Tail(Tail(todo)) \in Seq(S \ {"load"})
         /\ Len(todo) = 1 => Tail(todo) = <<>>
<1> DEFINE rest == Tail(todo)
<1>1. rest \in Seq(S) /\ Len(rest) = Len(todo) - 1
  BY HeadTailProperties
<1>2. rest # <<>> => Head(rest) \in S \ {"load"} /\ Tail(rest) \in Seq(S \ {"load"})
  <2> HIDE DEF rest
  <2>1. rest \in Seq(S \ {"load"})
    BY DEF rest
  <2> QED
    BY <2>1, HeadTailProperties
<1>3. Len(todo) = 1 => rest = <<>>
  <2> HIDE DEF rest
  <2> QED
    BY <1>1, EmptySeq
<1> QED
  BY <1>1, <1>2, <1>3

LEMMA MovesKeep ==
  ASSUME IInv, NEW r \in Reqs, Moves(r)
  PROVE  IInv'
<1>1. /\ Begun(req[r]) /\ req[r] # Idle
      /\ req[r].op.kind \notin BrandKinds => req[r].op.at \in Tours
  BY StandsAt DEF IInv, Moves, Proceeds
<1>2. req'[r].op = req[r].op /\ req'[r] # Idle /\ req'[r].promo = req[r].promo
  BY <1>1, OpsAssumption DEF Moves, Proceeds, Begun, Idle
<1>3. /\ req'[r].todo \in Seq(StepsOf(req'[r].op))
      /\ req'[r].todo # <<>> => /\ Head(req'[r].todo) # "load"
                                /\ Tail(req'[r].todo) \in Seq(StepsOf(req'[r].op) \ {"load"})
      /\ req'[r].end # "none" => req'[r].todo = <<>>
  <2>1. CASE req'[r].todo = <<>>
    BY <2>1
  <2>2. CASE /\ req'[r].todo = Tail(req[r].todo)
             /\ req'[r].end = IF Len(req[r].todo) = 1 THEN "ok" ELSE "none"
    <3>1. /\ req[r].todo \in Seq(StepsOf(req[r].op)) /\ req[r].todo # <<>>
          /\ Tail(req[r].todo) \in Seq(StepsOf(req[r].op) \ {"load"})
      BY <1>1 DEF Begun, Moves, Proceeds
    <3> QED
      BY <1>2, <2>2, <3>1, TailsStay
  <2> QED
    BY <2>1, <2>2 DEF Moves, Proceeds
<1>4. req'[r].op.kind \notin BrandKinds => DOMAIN req'[r].row = Columns /\ Good(req'[r].row.promos)
  BY <1>1, <1>2 DEF Moves, ForTour
<1>5. Begun(req'[r])
  BY <1>1, <1>2, <1>3, <1>4 DEF Begun
<1>6. RequestsAre'
  BY <1>5 DEF IInv, RequestsAre, Moves, Proceeds
<1>7. ~Unloaded(r)' /\ \A q \in Reqs \ {r} : Unloaded(q)' <=> Unloaded(q)
  BY <1>2, <1>3 DEF Unloaded, At, Moves, Proceeds
<1>8. OwnPromo'
  BY <1>1, <1>2, <1>7 DEF IInv, OwnPromo, Moves, Proceeds
<1>9. Unseen'
  <2> SUFFICES ASSUME NEW q \in Reqs, Unloaded(q)'
               PROVE  /\ \A t \in Tours : q \notin IdsOf(tours'[t].promos)
                      /\ \A p \in Reqs : ForTour(p)' => q \notin IdsOf(req'[p].row.promos)
    BY DEF Unseen
  <2>1. Unloaded(q) /\ q # r
    BY <1>7
  <2>2. /\ \A t \in Tours : q \notin IdsOf(tours[t].promos)
        /\ \A p \in Reqs : ForTour(p) => q \notin IdsOf(req[p].row.promos)
    BY <2>1 DEF IInv, Unseen
  <2>3. ForTour(r)' <=> ForTour(r)
    BY <1>1, <1>2 DEF ForTour
  <2>4. \A t \in Tours : q \notin IdsOf(tours'[t].promos)
    BY <2>2 DEF Moves
  <2>5. At(r, "load") => q # req[r].promo
    BY <1>1, <2>1 DEF IInv, OwnPromo
  <2>6. ForTour(r)' => q \notin IdsOf(req'[r].row.promos)
    BY <1>1, <2>2, <2>3, <2>5 DEF Moves, ForTour
  <2>7. \A p \in Reqs \ {r} : ForTour(p)' => q \notin IdsOf(req'[p].row.promos)
    BY <2>2 DEF ForTour, Moves, Proceeds
  <2> QED
    BY <2>4, <2>6, <2>7
<1> QED
  BY <1>6, <1>8, <1>9 DEF IInv, Moves

\* The route of a request has the steps of its kind, and loads first if at all.
LEMMA RouteSteps ==
  ASSUME NEW op \in Ops
  PROVE  /\ Route(op) \in Seq(StepsOf(op)) /\ Route(op) # <<>>
         /\ Tail(Route(op)) \in Seq(StepsOf(op) \ {"load"})
<1> DEFINE kinds == {"create", "update", "publish", "remove"}
<1>1. op.kind \in BrandKinds \cup PromotionKinds \cup kinds
  BY OpsAssumption
<1>2. CASE op.kind \in PromotionKinds
  <2>1. Route(op) = <<"load", "reload", "write">> /\ StepsOf(op) = PromotionSteps
    BY <1>2 DEF Route, StepsOf, PromotionKinds, BrandKinds, UpsertPromotion
  <2>2. <<"load", "reload", "write">> \in Seq(PromotionSteps) /\ <<"reload", "write">> \in Seq(PromotionSteps \ {"load"})
    BY DEF PromotionSteps
  <2> QED
    BY <2>1, <2>2
<1>3. CASE op.kind = "publish"
  <2>1. Route(op) = <<"load", "reload", "write">> /\ StepsOf(op) = TourSteps
    BY <1>3 DEF Route, StepsOf, PromotionKinds, BrandKinds, SetPublished
  <2>2. <<"load", "reload", "write">> \in Seq(TourSteps) /\ <<"reload", "write">> \in Seq(TourSteps \ {"load"})
    BY DEF TourSteps
  <2> QED
    BY <2>1, <2>2
<1>5. CASE op.kind = "create"
  <2>1. Route(op) = <<"itinerary", "brand", "slug", "insert">> /\ StepsOf(op) = TourSteps
    BY <1>5 DEF Route, StepsOf, PromotionKinds, BrandKinds, CreateTour
  <2>2. <<"itinerary", "brand", "slug", "insert">> \in Seq(TourSteps) /\ <<"brand", "slug", "insert">> \in Seq(TourSteps \ {"load"})
    BY DEF TourSteps
  <2> QED
    BY <2>1, <2>2
<1>6. CASE op.kind = "remove"
  <2>1. Route(op) = <<"load", "softDelete">> /\ StepsOf(op) = TourSteps
    BY <1>6 DEF Route, StepsOf, PromotionKinds, BrandKinds, RemoveTour
  <2>2. <<"load", "softDelete">> \in Seq(TourSteps) /\ <<"softDelete">> \in Seq(TourSteps \ {"load"})
    BY DEF TourSteps
  <2> QED
    BY <2>1, <2>2
<1>7. CASE op.kind = "createBrand"
  <2>1. Route(op) = <<"insertBrand">> /\ StepsOf(op) = BrandSteps
    BY <1>7 DEF Route, StepsOf, PromotionKinds, BrandKinds, If
  <2>2. <<"insertBrand">> \in Seq(BrandSteps) /\ <<>> \in Seq(BrandSteps \ {"load"})
    BY DEF BrandSteps
  <2> QED
    BY <2>1, <2>2
<1>8. CASE op.kind = "verifyBrand"
  <2>1. Route(op) = <<"loadBrand", "reloadBrand", "writeBrand", "sync">> /\ StepsOf(op) = BrandSteps
    BY <1>8 DEF Route, StepsOf, PromotionKinds, BrandKinds, VerifyBrand
  <2>2. <<"loadBrand", "reloadBrand", "writeBrand", "sync">> \in Seq(BrandSteps) /\ <<"reloadBrand", "writeBrand", "sync">> \in Seq(BrandSteps \ {"load"})
    BY DEF BrandSteps
  <2> QED
    BY <2>1, <2>2
<1>9. CASE op.kind = "removeBrand"
  <2>1. Route(op) = <<"loadBrand", "unstamp", "softDeleteBrand">> /\ StepsOf(op) = BrandSteps
    BY <1>9 DEF Route, StepsOf, PromotionKinds, BrandKinds, RemoveBrand
  <2>2. <<"loadBrand", "unstamp", "softDeleteBrand">> \in Seq(BrandSteps) /\ <<"unstamp", "softDeleteBrand">> \in Seq(BrandSteps \ {"load"})
    BY DEF BrandSteps
  <2> QED
    BY <2>1, <2>2
<1>10. CASE op.kind = "editBrand"
  <2> DEFINE first == <<"loadBrand", "reloadBrand", "writeBrand", "sync">>
             last == If(Given(op.logo), <<"unlinkLogo">>)
  <2>1. Route(op) = first \o last /\ StepsOf(op) = BrandSteps
    BY <1>10 DEF Route, StepsOf, PromotionKinds, BrandKinds, UpdateBrand
  <2>2. first \in Seq(BrandSteps) /\ <<>> \in Seq(BrandSteps) /\ <<"unlinkLogo">> \in Seq(BrandSteps)
    BY DEF BrandSteps
  <2>3. last \in Seq(BrandSteps) /\ Len(first) = 4
    BY <2>2 DEF If
  <2>4. Route(op) \in Seq(BrandSteps) /\ Route(op) # <<>>
    <3> HIDE DEF first, last
    <3>1. first \o last \in Seq(BrandSteps) /\ Len(first \o last) = Len(first) + Len(last)
      BY <2>2, <2>3, ConcatProperties
    <3>2. Len(last) \in Nat /\ Len(<<>>) = 0
      BY <2>3, LenProperties, EmptySeq
    <3> QED
      BY <2>1, <2>3, <3>1, <3>2
  <2>5. BrandSteps \ {"load"} = BrandSteps
    BY DEF BrandSteps
  <2> QED
    BY <2>1, <2>4, <2>5, HeadTailProperties
<1>4. CASE op.kind = "update"
  <2> DEFINE a == If(Given(op.brand), <<"brand">>)
             b == If(Given(op.stops), <<"itinerary", "delete">>)
             c == If(Given(op.images) \/ Given(op.cover), <<"unlink">>)
             rest == TourSteps \ {"load"}
  <2>0. /\ <<>> \in Seq(rest) /\ <<"brand">> \in Seq(rest) /\ <<"unlink">> \in Seq(rest)
        /\ <<"itinerary", "delete">> \in Seq(rest) /\ <<"reload", "write">> \in Seq(rest)
    BY DEF TourSteps
  <2>1. a \in Seq(rest) /\ b \in Seq(rest) /\ c \in Seq(rest) /\ <<"reload", "write">> \in Seq(rest)
    BY <2>0 DEF If
  <2>2. Route(op) = <<"load">> \o a \o b \o <<"reload", "write">> \o c
    BY <1>4 DEF Route, UpdateTour, PromotionKinds
  <2> DEFINE d == a \o b \o <<"reload", "write">> \o c
  <2>3. d \in Seq(rest)
    BY <2>1
  <2>4. Route(op) = <<"load">> \o d
    <3> HIDE DEF a, b, c
    <3> QED
      BY <2>1, <2>2
  <2>5. StepsOf(op) = TourSteps /\ rest \subseteq TourSteps /\ "load" \in TourSteps
    BY <1>4 DEF StepsOf, BrandKinds, PromotionKinds, TourSteps
  <2>6. Route(op) \in Seq(TourSteps) /\ Route(op) # <<>> /\ Tail(Route(op)) = d
    <3> HIDE DEF d, rest
    <3> QED
      BY <2>3, <2>4, <2>5
  <2> QED
    BY <2>3, <2>5, <2>6
<1> QED
  BY <1>1, <1>2, <1>3, <1>4, <1>5, <1>6, <1>7, <1>8, <1>9, <1>10 DEF BrandKinds

LEMMA StartKeeps ==
  ASSUME IInv, NEW r \in Reqs, Start(r)
  PROVE  IInv'
<1>1. PICK op \in Ops, p \in Reqs :
        /\ IF op.kind \in {"updatePromotion", "removePromotion"}
           THEN req[p].end = "ok" ELSE p = r
        /\ req' = [req EXCEPT ![r] = [Idle EXCEPT !.op = op, !.promo = p, !.todo = Route(op),
                        !.row = IF op.at \in Tours THEN NewTour ELSE NewBrand]]
  BY DEF Start
<1>2. req[r] = Idle /\ UNCHANGED tours
  BY DEF Start
<1>3. /\ DOMAIN req' = Reqs /\ \A q \in Reqs \ {r} : req'[q] = req[q]
      /\ DOMAIN req'[r] = Fields /\ req'[r].op = op /\ req'[r].promo = p /\ req'[r].todo = Route(op)
      /\ req'[r].end = "none"
      /\ req'[r].row = IF op.at \in Tours THEN NewTour ELSE NewBrand
  BY <1>1 DEF IInv, RequestsAre, Fields, Idle
<1>4. req'[r] # Idle
  BY <1>3, OpsAssumption DEF Idle
<1>5. op.kind \notin BrandKinds => req'[r].row = NewTour
  BY <1>3, OpsAssumption
<1>6. DOMAIN NewTour = Columns /\ Good(NewTour.promos) /\ IdsOf(NewTour.promos) = {}
  BY NoneGood DEF Columns, NewTour
<1>7. Begun(req'[r])
  BY <1>3, <1>5, <1>6, RouteSteps DEF Begun
<1>8. RequestsAre' /\ RowsAre'
  BY <1>2, <1>3, <1>7 DEF IInv, RequestsAre, RowsAre
<1>9. \A q \in Reqs \ {r} : (Unloaded(q)' <=> Unloaded(q)) /\ (ForTour(q)' <=> ForTour(q))
  BY <1>3 DEF Unloaded, ForTour, At
<1>10. p = r \/ ~Unloaded(p)'
  <2> SUFFICES ASSUME p # r PROVE ~Unloaded(p)'
    OBVIOUS
  <2>1. req[p].end = "ok"
    BY <1>1
  <2>2. req[p] # Idle
    BY <2>1 DEF Idle
  <2>3. req[p].todo = <<>>
    BY <2>1, <2>2 DEF IInv, RequestsAre, Begun
  <2> QED
    BY <1>3, <1>9, <2>2, <2>3 DEF Unloaded, At
<1>11. op.kind = "addPromotion" => p = r
  BY <1>1
<1>12. OwnPromo'
  <2>1. \A q \in Reqs \ {r} : req[q] # Idle => req[q].promo # r
    BY <1>2 DEF IInv, OwnPromo, Unloaded
  <2> QED
    BY <1>3, <1>9, <1>10, <1>11, <2>1 DEF IInv, OwnPromo
<1>13. Unseen'
  <2>1. \A q \in Reqs : Unloaded(q)' => Unloaded(q)
    BY <1>2, <1>9 DEF Unloaded
  <2>2. ForTour(r)' => IdsOf(req'[r].row.promos) = {}
    BY <1>3, <1>5, <1>6 DEF ForTour
  <2> QED
    BY <1>2, <1>3, <1>9, <2>1, <2>2 DEF IInv, Unseen
<1> QED
  BY <1>8, <1>12, <1>13 DEF IInv

LEMMA InitHolds == Init => IInv
<1> SUFFICES ASSUME Init PROVE IInv
  OBVIOUS
<1>1. RowsAre
  <2>1. \A t \in Tours : DOMAIN tours[t] = Columns /\ tours[t].promos = {}
    BY OpsAssumption DEF Init, Columns, NewTour
  <2> QED
    BY <2>1, NoneGood DEF RowsAre, Init
<1>2. RequestsAre
  BY DEF RequestsAre, Init, Fields, Idle
<1>3. \A t \in Tours : tours[t].promos = {}
  BY OpsAssumption DEF Init, NewTour
<1>4. OwnPromo /\ Unseen
  BY <1>3, NoneGood DEF OwnPromo, Unseen, Init, ForTour
<1> QED
  BY <1>1, <1>2, <1>4 DEF IInv

\* One case per statement.
LEMMA StepHolds == IInv /\ [Next]_vars => IInv'
<1> SUFFICES ASSUME IInv, [Next]_vars PROVE IInv'
  OBVIOUS
<1>1. CASE UNCHANGED vars
  BY <1>1 DEF IInv, RowsAre, RequestsAre, OwnPromo, Unseen, Unloaded, ForTour, At, vars
<1>2. ASSUME NEW r \in Reqs, TourStep(r) PROVE IInv'
  BY <1>2, LoadMoves, ResolveMoves, PlainMoves, WriteMoves, InsertMoves, SoftDeleteMoves, MovesKeep
  DEF TourStep
<1>3. ASSUME NEW r \in Reqs, BrandStep(r) \/ Fail(r) PROVE IInv'
  BY <1>3, BrandMoves, PlainMoves, MovesKeep
<1>4. ASSUME NEW r \in Reqs, Start(r) PROVE IInv'
  BY <1>4, StartKeeps
<1> QED
  BY <1>1, <1>2, <1>3, <1>4 DEF Next

\* No tour exceeds the limit of promotions, and none has two of one id: the code
\* counts the list it has loaded and writes all of that list back.
THEOREM PromotionsAreBounded == Spec => []PromotionsBounded
<1>1. IInv => PromotionsBounded
  BY DEF IInv, RowsAre, Good, PromotionsBounded
<1> QED
  BY <1>1, InitHolds, StepHolds, PTL DEF Spec

-----------------------------------------------------------------------------
(* The route of a request as a program counter: Pc is the statement a      *)
(* request stands at, and After the one that follows it on its route.      *)

Steps == TourSteps \cup BrandSteps

Pc(r) == IF req[r].todo = <<>> THEN "end" ELSE Head(req[r].todo)

AfterLoad(op) == IF op.kind = "remove" THEN "softDelete"
                 ELSE IF op.kind = "update" /\ Given(op.brand) THEN "brand"
                 ELSE IF op.kind = "update" /\ Given(op.stops) THEN "itinerary" ELSE "reload"

After(op, step) ==
    IF step = "load" THEN AfterLoad(op)
    ELSE IF step = "brand" THEN IF op.kind = "create" THEN "slug"
                                ELSE IF Given(op.stops) THEN "itinerary" ELSE "reload"
    ELSE IF step = "itinerary" THEN IF op.kind = "create" THEN "brand" ELSE "delete"
    ELSE IF step = "slug" THEN "insert"
    ELSE IF step = "delete" THEN "reload"
    ELSE IF step = "reload" THEN "write"
    ELSE IF step = "write" /\ op.kind = "update" /\ (Given(op.images) \/ Given(op.cover))
         THEN "unlink"
    ELSE IF step = "loadBrand" THEN IF op.kind = "removeBrand" THEN "unstamp" ELSE "reloadBrand"
    ELSE IF step = "reloadBrand" THEN "writeBrand"
    ELSE IF step = "writeBrand" THEN "sync"
    ELSE IF step = "sync" /\ op.kind = "editBrand" /\ Given(op.logo) THEN "unlinkLogo"
    ELSE IF step = "unstamp" THEN "softDeleteBrand"
    ELSE "end"

\* Whether a statement is one of the route of a request.
Uses(op, step) ==
    \/ op.kind = "create" /\ step \in {"itinerary", "brand", "slug", "insert"}
    \/ op.kind = "update" /\ step \in {"load", "reload", "write", "unlink"}
    \/ op.kind = "update" /\ step = "brand" /\ Given(op.brand)
    \/ op.kind = "update" /\ step \in {"itinerary", "delete"} /\ Given(op.stops)
    \/ op.kind \in PromotionKinds \cup {"publish"} /\ step \in {"load", "reload", "write"}
    \/ op.kind = "remove" /\ step \in {"load", "softDelete"}
    \/ op.kind = "createBrand" /\ step = "insertBrand"
    \/ op.kind \in {"editBrand", "verifyBrand"}
            /\ step \in {"loadBrand", "reloadBrand", "writeBrand", "sync", "unlinkLogo"}
    \/ op.kind = "removeBrand" /\ step \in {"loadBrand", "unstamp", "softDeleteBrand"}

OnRoute(op, todo) ==
    \A i \in DOMAIN todo :
        /\ Uses(op, todo[i])
        /\ After(op, todo[i]) = IF i = Len(todo) THEN "end" ELSE todo[i + 1]

Control == \A r \in Reqs : req[r] # Idle => OnRoute(req[r].op, req[r].todo)

LEMMA NothingLeft == ASSUME NEW op PROVE OnRoute(op, <<>>)
  BY DEF OnRoute

LEMMA StepBefore ==
  ASSUME NEW op, NEW step, NEW rest \in Seq(Steps), OnRoute(op, rest), Uses(op, step),
         After(op, step) = IF rest = <<>> THEN "end" ELSE Head(rest)
  PROVE  OnRoute(op, <<step>> \o rest)
<1> DEFINE todo == <<step>> \o rest
<1> SUFFICES ASSUME NEW i \in DOMAIN todo
             PROVE  /\ Uses(op, todo[i])
                    /\ After(op, todo[i]) = IF i = Len(todo) THEN "end" ELSE todo[i + 1]
  BY DEF OnRoute
<1>1. /\ Len(todo) = 1 + Len(rest) /\ DOMAIN todo = 1 .. (1 + Len(rest)) /\ Len(rest) \in Nat
      /\ todo[1] = step /\ \A j \in 1 .. Len(rest) : todo[j + 1] = rest[j]
  OBVIOUS
<1>2. rest # <<>> => Len(rest) # 0 /\ Head(rest) = rest[1]
  BY EmptySeq
<1>3. rest = <<>> => Len(rest) = 0
  OBVIOUS
<1>4. \A j \in 1 .. Len(rest) : /\ Uses(op, rest[j])
                                /\ After(op, rest[j]) = IF j = Len(rest) THEN "end" ELSE rest[j + 1]
  BY DEF OnRoute
<1> HIDE DEF todo
<1>5. CASE i = 1
  <2>1. todo[i] = step
    BY <1>1, <1>5
  <2>2. rest # <<>> => i # Len(todo) /\ todo[i + 1] = Head(rest)
    BY <1>1, <1>2, <1>5
  <2>3. rest = <<>> => i = Len(todo)
    BY <1>1, <1>3, <1>5
  <2> QED
    BY <2>1, <2>2, <2>3
<1>6. CASE i # 1
  <2>1. PICK j \in 1 .. Len(rest) : i = j + 1
    <3>1. i - 1 \in 1 .. Len(rest) /\ i = (i - 1) + 1
      BY <1>1, <1>6
    <3> QED
      BY <3>1
  <2>2. todo[i] = rest[j] /\ (i = Len(todo) <=> j = Len(rest))
    BY <1>1, <2>1
  <2>3. j # Len(rest) => j + 1 \in 1 .. Len(rest) /\ todo[i + 1] = rest[j + 1]
    BY <1>1, <2>1
  <2> QED
    BY <1>4, <2>2, <2>3
<1> QED
  BY <1>5, <1>6

LEMMA RouteLeft ==
  ASSUME NEW op, NEW todo \in Seq(Steps), todo # <<>>, OnRoute(op, todo)
  PROVE  /\ Uses(op, Head(todo)) /\ OnRoute(op, Tail(todo)) /\ Tail(todo) \in Seq(Steps)
         /\ After(op, Head(todo)) = IF Tail(todo) = <<>> THEN "end" ELSE Head(Tail(todo))
<1> DEFINE rest == Tail(todo)
<1>1. /\ Len(todo) \in Nat \ {0} /\ Head(todo) = todo[1] /\ rest \in Seq(Steps)
      /\ Len(rest) = Len(todo) - 1 /\ \A j \in 1 .. Len(rest) : rest[j] = todo[j + 1]
      /\ DOMAIN rest = 1 .. Len(rest) /\ DOMAIN todo = 1 .. Len(todo)
  <2>1. Len(todo) \in Nat \ {0} /\ rest \in Seq(Steps) /\ Len(rest) = Len(todo) - 1
    BY HeadTailProperties, EmptySeq
  <2>2. Head(todo) = todo[1] /\ \A j \in 1 .. Len(rest) : rest[j] = todo[j + 1]
    OBVIOUS
  <2> QED
    BY <2>1, <2>2, LenProperties
<1>2. rest # <<>> => Len(rest) # 0 /\ Head(rest) = rest[1]
  BY <1>1, EmptySeq
<1> HIDE DEF rest
<1>3. rest = <<>> => Len(rest) = 0
  OBVIOUS
<1>4. OnRoute(op, rest)
  <2> SUFFICES ASSUME NEW j \in 1 .. Len(rest)
               PROVE  /\ Uses(op, rest[j])
                      /\ After(op, rest[j]) = IF j = Len(rest) THEN "end" ELSE rest[j + 1]
    BY <1>1 DEF OnRoute
  <2>1. j + 1 \in DOMAIN todo /\ rest[j] = todo[j + 1] /\ (j = Len(rest) <=> j + 1 = Len(todo))
    BY <1>1
  <2>2. j # Len(rest) => rest[j + 1] = todo[(j + 1) + 1]
    BY <1>1
  <2> QED
    BY <2>1, <2>2 DEF OnRoute
<1>5. /\ Uses(op, todo[1])
      /\ After(op, todo[1]) = IF 1 = Len(todo) THEN "end" ELSE todo[1 + 1]
  BY <1>1 DEF OnRoute
<1>6. After(op, todo[1]) = IF rest = <<>> THEN "end" ELSE Head(rest)
  <2>1. rest = <<>> => Len(todo) = 1
    BY <1>1, <1>3
  <2>2. rest # <<>> => Len(todo) # 1 /\ Head(rest) = todo[1 + 1]
    BY <1>1, <1>2
  <2> QED
    BY <1>5, <2>1, <2>2
<1> QED
  BY <1>1, <1>4, <1>5, <1>6 DEF rest

\* The route of every request.
LEMMA OneStep ==
  ASSUME NEW op, NEW a \in Steps, Uses(op, a), After(op, a) = "end"
  PROVE  OnRoute(op, <<a>>)
  BY DEF OnRoute

LEMMA MoreSteps ==
  ASSUME NEW op, NEW a \in Steps, NEW rest \in Seq(Steps), OnRoute(op, rest), rest # <<>>,
         Uses(op, a), After(op, a) = Head(rest)
  PROVE  /\ OnRoute(op, <<a>> \o rest) /\ <<a>> \o rest \in Seq(Steps)
         /\ <<a>> \o rest # <<>> /\ Head(<<a>> \o rest) = a
  BY StepBefore, HeadTailProperties

\* A route of statements that ends.
Runs(op, todo, first) == OnRoute(op, todo) /\ todo \in Seq(Steps) /\ todo # <<>> /\ Head(todo) = first

LEMMA Last ==
  ASSUME NEW op, NEW a \in Steps, Uses(op, a), After(op, a) = "end"
  PROVE  Runs(op, <<a>>, a)
  BY OneStep DEF Runs

LEMMA Earlier ==
  ASSUME NEW op, NEW a \in Steps, NEW b, NEW rest, Runs(op, rest, b), Uses(op, a), After(op, a) = b
  PROVE  Runs(op, <<a>> \o rest, a)
  BY MoreSteps DEF Runs

Begins(op) == CASE op.kind = "create" -> "itinerary"
                [] op.kind = "createBrand" -> "insertBrand"
                [] op.kind \in BrandKinds \ {"createBrand"} -> "loadBrand"
                [] OTHER -> "load"

LEMMA JoinsAssociate ==
  ASSUME NEW s \in Seq(Steps), NEW t \in Seq(Steps), NEW u \in Seq(Steps)
  PROVE  (s \o t) \o u = s \o (t \o u)
  BY ConcatAssociative

LEMMA UpdateRuns ==
  ASSUME NEW op, op.kind = "update"
  PROVE  Runs(op, UpdateTour(op), "load")
<1> DEFINE a == If(Given(op.brand), <<"brand">>)
           b == If(Given(op.stops), <<"itinerary", "delete">>)
           c == If(Given(op.images) \/ Given(op.cover), <<"unlink">>)
           w == <<"write">> \o c
           x == <<"reload">> \o w
           y == b \o x
           z == a \o y
<1>0. \A step \in {"load", "brand", "itinerary", "delete", "reload", "write", "unlink"} : step \in Steps
  BY DEF Steps, TourSteps
<1>1. Runs(op, w, "write")
  <2>1. CASE Given(op.images) \/ Given(op.cover)
    <3>0. Uses(op, "unlink") /\ After(op, "unlink") = "end"
      BY DEF Uses, After
    <3>1. Runs(op, <<"unlink">>, "unlink")
      BY <3>0, <1>0, Last
    <3>2. Uses(op, "write") /\ After(op, "write") = "unlink" /\ c = <<"unlink">>
      BY <2>1 DEF Uses, After, If
    <3> QED
      BY <3>1, <3>2, <1>0, Earlier
  <2>2. CASE ~(Given(op.images) \/ Given(op.cover))
    <3>0. Uses(op, "write") /\ After(op, "write") = "end"
      BY <2>2 DEF Uses, After
    <3>1. Runs(op, <<"write">>, "write")
      BY <3>0, <1>0, Last
    <3>2. c = <<>>
      BY <2>2 DEF If
    <3>3. <<"write">> \o <<>> = <<"write">>
      OBVIOUS
    <3> QED
      BY <3>1, <3>2, <3>3
  <2> QED
    BY <2>1, <2>2
<1>2. Runs(op, x, "reload")
  <2>1. Uses(op, "reload") /\ After(op, "reload") = "write"
    BY DEF Uses, After
  <2> HIDE DEF w
  <2> QED
    BY <1>1, <2>1, <1>0, Earlier
<1>3. Runs(op, y, IF Given(op.stops) THEN "itinerary" ELSE "reload")
  <2>1. CASE Given(op.stops)
    <3> HIDE DEF x
    <3>1. /\ Uses(op, "delete") /\ After(op, "delete") = "reload"
          /\ Uses(op, "itinerary") /\ After(op, "itinerary") = "delete"
      BY <2>1 DEF Uses, After
    <3>2. Runs(op, <<"itinerary">> \o (<<"delete">> \o x), "itinerary")
      BY <1>2, <3>1, <1>0, Earlier
    <3>3. b = <<"itinerary">> \o <<"delete">>
      BY <2>1 DEF If
    <3>4. <<"itinerary">> \in Seq(Steps) /\ <<"delete">> \in Seq(Steps) /\ x \in Seq(Steps)
      BY <1>0, <1>2 DEF Runs
    <3>5. (<<"itinerary">> \o <<"delete">>) \o x = <<"itinerary">> \o (<<"delete">> \o x)
      BY <3>4, ConcatAssociative
    <3> QED
      BY <2>1, <3>2, <3>3, <3>5
  <2>2. CASE ~Given(op.stops)
    <3> HIDE DEF x
    <3>1. b = <<>> /\ x \in Seq(Steps)
      BY <1>2, <2>2 DEF If, Runs
    <3>2. y = x
      BY <3>1, ConcatEmptySeq
    <3> QED
      BY <1>2, <2>2, <3>2
  <2> QED
    BY <2>1, <2>2
<1>4. Runs(op, z, AfterLoad(op))
  <2> HIDE DEF y
  <2>1. CASE Given(op.brand)
    <3>1. /\ Uses(op, "brand") /\ After(op, "brand") = IF Given(op.stops) THEN "itinerary" ELSE "reload"
          /\ a = <<"brand">> /\ AfterLoad(op) = "brand"
      BY <2>1 DEF Uses, After, If, AfterLoad
    <3> QED
      BY <1>3, <3>1, <1>0, Earlier
  <2>2. CASE ~Given(op.brand)
    <3>1. a = <<>> /\ y \in Seq(Steps) /\ AfterLoad(op) = IF Given(op.stops) THEN "itinerary" ELSE "reload"
      BY <1>3, <2>2 DEF If, Runs, AfterLoad
    <3>2. z = y
      BY <3>1, ConcatEmptySeq
    <3> QED
      BY <1>3, <3>1, <3>2
  <2> QED
    BY <2>1, <2>2
<1>5. Runs(op, <<"load">> \o z, "load")
  <2>1. Uses(op, "load") /\ After(op, "load") = AfterLoad(op)
    BY DEF Uses, After
  <2> HIDE DEF z
  <2> QED
    BY <1>4, <2>1, <1>0, Earlier
<1>6. UpdateTour(op) = <<"load">> \o z
  <2>1. /\ a \in Seq(Steps) /\ b \in Seq(Steps) /\ c \in Seq(Steps)
        /\ <<"load">> \in Seq(Steps) /\ <<"reload", "write">> \in Seq(Steps)
        /\ <<"reload">> \in Seq(Steps) /\ <<"write">> \in Seq(Steps)
    BY <1>0 DEF If
  <2>2. UpdateTour(op) = (((<<"load">> \o a) \o b) \o <<"reload", "write">>) \o c
    BY DEF UpdateTour
  <2>3. <<"reload", "write">> = <<"reload">> \o <<"write">>
    OBVIOUS
  <2> HIDE DEF a, b, c
  <2>4. x = <<"reload", "write">> \o c /\ x \in Seq(Steps) /\ y \in Seq(Steps)
    BY <2>1, <2>3, ConcatAssociative, ConcatProperties
  <2> HIDE DEF x
  <2>5. <<"load">> \o a \in Seq(Steps)
    BY <2>1, ConcatProperties
  <2> DEFINE f == <<"load">> \o a
             g == f \o b
  <2>6. f \in Seq(Steps) /\ b \in Seq(Steps) /\ x \in Seq(Steps)
    BY <2>1, <2>4, <2>5
  <2> HIDE DEF f
  <2>7. (f \o b) \o x = f \o (b \o x)
    BY <2>6, JoinsAssociate
  <2>8. g \in Seq(Steps) /\ <<"reload", "write">> \in Seq(Steps) /\ c \in Seq(Steps)
    BY <2>1, <2>6, ConcatProperties
  <2> HIDE DEF g
  <2>9. (g \o <<"reload", "write">>) \o c = g \o (<<"reload", "write">> \o c)
    BY <2>8, JoinsAssociate
  <2> HIDE DEF y
  <2>10. <<"load">> \in Seq(Steps) /\ a \in Seq(Steps) /\ y \in Seq(Steps)
    BY <2>1, <2>4
  <2>11. (<<"load">> \o a) \o y = <<"load">> \o (a \o y)
    BY <2>10, JoinsAssociate
  <2> QED
    BY <2>2, <2>4, <2>7, <2>9, <2>11 DEF f, g, y
<1> QED
  BY <1>5, <1>6

LEMMA ShortRuns ==
  ASSUME NEW op
  PROVE  /\ op.kind = "create" => Runs(op, CreateTour, "itinerary")
         /\ op.kind \in PromotionKinds => Runs(op, UpsertPromotion, "load")
         /\ op.kind = "publish" => Runs(op, SetPublished, "load")
         /\ op.kind = "remove" => Runs(op, RemoveTour, "load")
         /\ op.kind = "createBrand" => Runs(op, <<"insertBrand">>, "insertBrand")
         /\ op.kind = "verifyBrand" => Runs(op, VerifyBrand, "loadBrand")
         /\ op.kind = "removeBrand" => Runs(op, RemoveBrand, "loadBrand")
<1> USE DEF Runs, OnRoute, Steps, TourSteps, BrandSteps
<1>1. op.kind = "create" => Runs(op, CreateTour, "itinerary")
  BY DEF CreateTour, Uses, After
<1>2. op.kind \in PromotionKinds => Runs(op, UpsertPromotion, "load")
  BY DEF UpsertPromotion, Uses, After, AfterLoad, PromotionKinds
<1>3. op.kind = "publish" => Runs(op, SetPublished, "load")
  BY DEF SetPublished, Uses, After, AfterLoad, PromotionKinds
<1>4. op.kind = "remove" => Runs(op, RemoveTour, "load")
  BY DEF RemoveTour, Uses, After, AfterLoad, PromotionKinds
<1>5. op.kind = "createBrand" => Runs(op, <<"insertBrand">>, "insertBrand")
  BY DEF Uses, After, PromotionKinds
<1>6. op.kind = "verifyBrand" => Runs(op, VerifyBrand, "loadBrand")
  BY DEF VerifyBrand, Uses, After, PromotionKinds
<1>7. op.kind = "removeBrand" => Runs(op, RemoveBrand, "loadBrand")
  BY DEF RemoveBrand, Uses, After, PromotionKinds
<1> QED
  BY <1>1, <1>2, <1>3, <1>4, <1>5, <1>6, <1>7

LEMMA EditRuns ==
  ASSUME NEW op, op.kind = "editBrand"
  PROVE  Runs(op, UpdateBrand(op), "loadBrand")
<1> DEFINE front == <<"loadBrand", "reloadBrand", "writeBrand", "sync">>
<1>1. CASE Given(op.logo)
  <2> DEFINE todo == <<"loadBrand", "reloadBrand", "writeBrand", "sync", "unlinkLogo">>
  <2>1. UpdateBrand(op) = front \o <<"unlinkLogo">>
    BY <1>1 DEF UpdateBrand, If
  <2>2. UpdateBrand(op) = todo
    <3> DEFINE joined == front \o <<"unlinkLogo">>
    <3>1. /\ front \in Seq(Steps) /\ <<"unlinkLogo">> \in Seq(Steps) /\ todo \in Seq(Steps)
          /\ Len(front) = 4 /\ Len(<<"unlinkLogo">>) = 1 /\ Len(todo) = 5
      BY DEF Steps, BrandSteps
    <3>2. /\ joined \in Seq(Steps) /\ Len(joined) = 5
          /\ \A i \in 1 .. 5 : joined[i] = IF i <= 4 THEN front[i] ELSE <<"unlinkLogo">>[i - 4]
      BY <3>1, ConcatProperties
    <3>3. /\ joined[1] = todo[1] /\ joined[2] = todo[2] /\ joined[3] = todo[3]
          /\ joined[4] = todo[4] /\ joined[5] = todo[5]
      BY <3>2
    <3>4. \A i \in 1 .. 5 : joined[i] = todo[i]
      BY <3>3
    <3> HIDE DEF joined, todo
    <3>5. joined = todo
      BY <3>1, <3>2, <3>4, SeqEqual
    <3> QED
      BY <2>1, <3>5 DEF joined
  <2>3. todo \in Seq(Steps) /\ todo # <<>> /\ Head(todo) = "loadBrand"
    BY DEF Steps, BrandSteps
  <2>4. \A i \in 1 .. 5 : Uses(op, todo[i])
    BY DEF Uses
  <2>5. /\ After(op, "loadBrand") = "reloadBrand" /\ After(op, "reloadBrand") = "writeBrand"
        /\ After(op, "writeBrand") = "sync" /\ After(op, "sync") = "unlinkLogo"
        /\ After(op, "unlinkLogo") = "end"
    BY <1>1 DEF After
  <2>6. \A i \in 1 .. 5 : After(op, todo[i]) = IF i = 5 THEN "end" ELSE todo[i + 1]
    BY <2>5
  <2> QED
    BY <2>2, <2>3, <2>4, <2>6 DEF Runs, OnRoute
<1>2. CASE ~Given(op.logo)
  <2>1. UpdateBrand(op) = front \o <<>>
    BY <1>2 DEF UpdateBrand, If
  <2>2. UpdateBrand(op) = front
    BY <2>1
  <2> QED
    BY <1>2, <2>2 DEF Runs, OnRoute, Uses, After, Steps, BrandSteps
<1> QED
  BY <1>1, <1>2

LEMMA RouteRuns ==
  ASSUME NEW op \in Ops
  PROVE  Runs(op, Route(op), Begins(op))
<1>1. op.kind \in BrandKinds \cup PromotionKinds \cup {"create", "update", "publish", "remove"}
  BY OpsAssumption
<1>2. CASE op.kind = "update"
  BY <1>2, UpdateRuns DEF Route, Begins, BrandKinds, PromotionKinds
<1>3. CASE op.kind = "editBrand"
  BY <1>3, EditRuns DEF Route, Begins, BrandKinds, PromotionKinds
<1>4. CASE op.kind \notin {"update", "editBrand"}
  BY <1>1, <1>4, ShortRuns DEF Route, Begins, BrandKinds, PromotionKinds
<1> QED
  BY <1>2, <1>3, <1>4

-----------------------------------------------------------------------------
(* Where a request stands.                                                 *)

On(x) == {r \in InFlight : req[r].op.at = x}
Same(a, b, columns) == \A c \in columns : a[c] = b[c]
StopColumns == {"city", "venues", "scope"}
BrandColumns == {"brand", "provider"}

\* It has the row of its tour in hand.
Loaded(r) == /\ Pc(r) \in {"brand", "itinerary", "delete", "reload", "write"}
             /\ req[r].op.kind # "create"

\* It has deleted the stops of its tour and not saved the new ones.
Emptied(r) == Pc(r) \in {"reload", "write"} /\ Given(req[r].op.stops)

\* Its row has the columns of its stops, or the provider of its brand.
Resolved(r) == IF req[r].op.kind = "create" THEN Pc(r) \in {"brand", "slug", "insert"}
               ELSE Given(req[r].op.stops) /\ Pc(r) \in {"delete", "reload", "write"}
Branded(r) == IF req[r].op.kind = "create" THEN Pc(r) \in {"slug", "insert"}
              ELSE /\ req[r].op.kind = "update" /\ Given(req[r].op.brand)
                   /\ Pc(r) \in {"itinerary", "delete", "reload", "write"}

\* It is saving a brand.
Saving(s) == Pc(s) \in {"reloadBrand", "writeBrand", "sync"}

\* A row of brands is a record of its columns.
BrandRow(row) == row = [c \in DOMAIN NewBrand |-> row[c]]

KnownBrand(b) == b # NoBrand => b \in Brands /\ brands[b].exists
Right(b) == IF b = NoBrand THEN SiteProvider
            ELSE IF brands[b].deleted THEN SiteProvider ELSE BuildProvider(brands[b])

-----------------------------------------------------------------------------
(* What a statement does, in the columns that matter here.                 *)

Copied == {"exists"} \cup StopColumns \cup BrandColumns

Stands(r) == /\ r \in InFlight /\ req[r] # Idle /\ req[r].op \in Ops
             /\ Pc(r) = Head(req[r].todo) /\ Pc(r) # "end" /\ Uses(req[r].op, Pc(r))

OnlyTour(t) == \A u \in Tours \ {t} : tours'[u] = tours[u]
OnlyBrand(b) == DOMAIN brands' = DOMAIN brands /\ \A x \in Brands \ {b} : brands'[x] = brands[x]

Ends(r) == /\ Pc(r)' = "end" /\ UNCHANGED <<tours, stops, brands>>
           /\ torn \subseteq torn' /\ torn' \subseteq torn \cup {req[r].op.at}
           /\ Emptied(r) \/ Pc(r) \in {"sync", "softDeleteBrand"} => req[r].op.at \in torn'

Loads(r) == /\ Pc(r) = "load" /\ Pc(r)' = AfterLoad(req[r].op)
            /\ UNCHANGED <<tours, stops, brands, torn>>
            /\ tours[req[r].op.at].exists
            /\ Same(req'[r].row, tours[req[r].op.at], Copied)

GetsBrand(r) == /\ Pc(r) = "brand" /\ UNCHANGED <<tours, stops, brands, torn>>
                /\ Pc(r)' = After(req[r].op, "brand")
                /\ req'[r].row.brand = req[r].op.brand /\ KnownBrand(req[r].op.brand)
                /\ req'[r].row.provider = Right(req[r].op.brand)
                /\ Same(req'[r].row, req[r].row, {"exists"} \cup StopColumns)

GetsStops(r) == /\ Pc(r) = "itinerary" /\ UNCHANGED <<tours, stops, brands, torn>>
                /\ Pc(r)' = After(req[r].op, "itinerary")
                /\ Same(req'[r].row, Derived(StopRows(0, req[r].op.stops)), StopColumns)
                /\ Same(req'[r].row, req[r].row, {"exists"} \cup BrandColumns)

GetsSlug(r) == /\ Pc(r) = "slug" /\ Pc(r)' = "insert" /\ UNCHANGED <<tours, stops, brands, torn>>
               /\ Same(req'[r].row, req[r].row, Copied)

Deletes(r) == /\ Pc(r) = "delete" /\ Pc(r)' = "reload" /\ UNCHANGED <<tours, brands, torn>>
              /\ stops' = [stops EXCEPT ![req[r].op.at] = {}] /\ req'[r].row = req[r].row

Reloads(r) == /\ Pc(r) = "reload" /\ Pc(r)' = "write" /\ UNCHANGED <<tours, stops, brands, torn>>
              /\ req'[r].row = req[r].row /\ req'[r].seen = tours[req[r].op.at]

Writes(r) == /\ Pc(r) = "write" /\ Pc(r)' \in {"unlink", "end"} /\ UNCHANGED <<brands, torn>>
             /\ Same(tours'[req[r].op.at],
                     SaveDiff(req[r].row, req[r].seen, tours[req[r].op.at]), Copied)
             /\ OnlyTour(req[r].op.at) /\ req'[r].row = req[r].row
             /\ stops' = [stops EXCEPT ![req[r].op.at] = @ \cup
                             IF Given(req[r].op.stops) THEN StopRows(r, req[r].op.stops) ELSE {}]

Inserts(r) == /\ Pc(r) = "insert" /\ Pc(r)' = "end" /\ UNCHANGED <<brands, torn>>
              /\ tours'[req[r].op.at].exists /\ OnlyTour(req[r].op.at)
              /\ Same(tours'[req[r].op.at], req[r].row, StopColumns \cup BrandColumns)
              /\ stops' = [stops EXCEPT ![req[r].op.at] = StopRows(r, req[r].op.stops)]

SoftDeletes(r) == /\ Pc(r) = "softDelete" /\ Pc(r)' = "end" /\ UNCHANGED <<stops, brands, torn>>
                  /\ OnlyTour(req[r].op.at)
                  /\ Same(tours'[req[r].op.at], tours[req[r].op.at], Copied)

InsertsBrand(s) == /\ Pc(s) = "insertBrand" /\ Pc(s)' = "end" /\ UNCHANGED <<tours, stops, torn>>
                   /\ OnlyBrand(req[s].op.at) /\ brands'[req[s].op.at].exists
                   /\ DOMAIN brands'[req[s].op.at] = DOMAIN NewBrand

LoadsBrand(s) == /\ Pc(s) = "loadBrand" /\ Pc(s)' \in {"unstamp", "reloadBrand"}
                 /\ UNCHANGED <<tours, stops, brands, torn>>
                 /\ LiveBrand(req[s].op.at) /\ req'[s].row.exists /\ ~req'[s].row.deleted
                 /\ DOMAIN req'[s].row = DOMAIN brands[req[s].op.at] /\ BrandRow(req'[s].row)

ReloadsBrand(s) == /\ Pc(s) = "reloadBrand" /\ Pc(s)' = "writeBrand"
                   /\ UNCHANGED <<tours, stops, brands, torn>>
                   /\ req'[s].row = req[s].row /\ req'[s].seen = brands[req[s].op.at]

WritesBrand(s) == /\ Pc(s) = "writeBrand" /\ Pc(s)' = "sync" /\ UNCHANGED <<tours, stops, torn>>
                  /\ OnlyBrand(req[s].op.at) /\ req'[s].row = req[s].row
                  /\ brands'[req[s].op.at] =
                        SaveDiff(req[s].row, req[s].seen, brands[req[s].op.at])

Stamps(b, provider) ==
    \A t \in Tours : /\ Same(tours'[t], tours[t], Copied \ {"provider"})
                     /\ tours'[t].provider = IF tours[t].brand = b THEN provider
                                             ELSE tours[t].provider

Syncs(s) == /\ Pc(s) = "sync" /\ Pc(s)' \in {"unlinkLogo", "end"}
            /\ UNCHANGED <<stops, brands, torn>>
            /\ Stamps(req[s].op.at, BuildProvider(req[s].row)) /\ req'[s].row = req[s].row

Unstamps(s) == /\ Pc(s) = "unstamp" /\ Pc(s)' = "softDeleteBrand"
               /\ UNCHANGED <<stops, brands, torn>>
               /\ Stamps(req[s].op.at, SiteProvider) /\ req'[s].row = req[s].row

SoftDeletesBrand(s) == /\ Pc(s) = "softDeleteBrand" /\ Pc(s)' = "end"
                       /\ UNCHANGED <<tours, stops, torn>> /\ OnlyBrand(req[s].op.at)
                       /\ brands' = [brands EXCEPT ![req[s].op.at].deleted = TRUE]

-----------------------------------------------------------------------------

LEMMA Standing ==
  ASSUME IInv, Control, NEW r \in Reqs, req[r].todo # <<>>
  PROVE  /\ Stands(r) /\ req[r].todo \in Seq(Steps)
         /\ OnRoute(req[r].op, Tail(req[r].todo))
         /\ After(req[r].op, Pc(r)) = IF Tail(req[r].todo) = <<>> THEN "end"
                                      ELSE Head(Tail(req[r].todo))
<1>1. Begun(req[r]) /\ req[r] # Idle
  BY StandsAt DEF IInv
<1>2. req[r].todo \in Seq(Steps)
  BY <1>1 DEF Begun, StepsOf, Steps, PromotionSteps, TourSteps
<1>3. OnRoute(req[r].op, req[r].todo)
  BY <1>1 DEF Control
<1>4. /\ Uses(req[r].op, Head(req[r].todo)) /\ OnRoute(req[r].op, Tail(req[r].todo))
      /\ After(req[r].op, Head(req[r].todo)) =
            IF Tail(req[r].todo) = <<>> THEN "end" ELSE Head(Tail(req[r].todo))
  BY <1>2, <1>3, RouteLeft
<1>5. Pc(r) = Head(req[r].todo) /\ Pc(r) # "end"
  <2>1. Head(req[r].todo) # "end"
    BY <1>4 DEF Uses
  <2> QED
    BY <2>1 DEF Pc
<1> QED
  BY <1>1, <1>2, <1>4, <1>5 DEF Stands, InFlight, Begun

\* A request stays on its route.
LEMMA Advances ==
  ASSUME IInv, Control, NEW r \in Reqs, Proceeds(r)
  PROVE  /\ Control' /\ req'[r] # Idle
         /\ req'[r].todo = Tail(req[r].todo) => Pc(r)' = After(req[r].op, Pc(r))
         /\ Pc(r)' = "end" \/ Pc(r)' = After(req[r].op, Pc(r))
         /\ \A q \in Reqs \ {r} : Pc(q)' = Pc(q) /\ (q \in InFlight' <=> q \in InFlight)
         /\ r \in InFlight' <=> Pc(r)' # "end"
<1>1. /\ Stands(r) /\ req[r].todo \in Seq(Steps)
      /\ OnRoute(req[r].op, Tail(req[r].todo))
      /\ After(req[r].op, Pc(r)) = IF Tail(req[r].todo) = <<>> THEN "end"
                                   ELSE Head(Tail(req[r].todo))
  BY Standing DEF Proceeds
<1>2. OnRoute(req'[r].op, req'[r].todo)
  BY <1>1, NothingLeft DEF Proceeds
<1>3. req'[r] # Idle
  <2>1. req'[r].op # Keep
    BY <1>1, OpsAssumption DEF Proceeds, Stands
  <2>2. Idle.op = Keep
    BY DEF Idle
  <2> QED
    BY <2>1, <2>2
<1>4. req'[r].todo = Tail(req[r].todo) => Pc(r)' = After(req[r].op, Pc(r))
  BY <1>1 DEF Pc
<1>5. Control'
  <2> SUFFICES ASSUME NEW q \in Reqs, req'[q] # Idle PROVE OnRoute(req'[q].op, req'[q].todo)
    BY DEF Control
  <2>1. q # r => req'[q] = req[q]
    BY DEF Proceeds
  <2> QED
    BY <1>2, <2>1 DEF Control
<1>6. \A q \in Reqs \ {r} : Pc(q)' = Pc(q) /\ (q \in InFlight' <=> q \in InFlight)
  BY DEF Pc, Proceeds, InFlight
<1>7. req'[r].todo = <<>> => Pc(r)' = "end"
  BY DEF Pc
<1>8. req'[r].todo # <<>> => Pc(r)' # "end"
  <2> SUFFICES ASSUME req'[r].todo # <<>> PROVE Pc(r)' # "end"
    OBVIOUS
  <2>1. req'[r].todo = Tail(req[r].todo) /\ Pc(r)' = Head(req'[r].todo)
    BY DEF Proceeds, Pc
  <2>2. Tail(req[r].todo) \in Seq(Steps)
    BY <1>1, HeadTailProperties DEF Stands, InFlight
  <2>3. Uses(req[r].op, Head(req'[r].todo))
    BY <1>1, <2>1, <2>2, RouteLeft
  <2> QED
    BY <2>1, <2>3 DEF Uses
<1> QED
  BY <1>3, <1>4, <1>5, <1>6, <1>7, <1>8 DEF Proceeds, InFlight

LEMMA GoSets ==
  ASSUME IInv, Control, NEW r \in Reqs, req[r].todo # <<>>, NEW new, DOMAIN new = Fields,
         new.todo = req[r].todo, new.op = req[r].op, new.promo = req[r].promo, Go(r, new)
  PROVE  /\ req'[r].row = new.row /\ req'[r].seen = new.seen
         /\ Pc(r)' = After(req[r].op, Pc(r))
<1>1. Proceeds(r) /\ req'[r].todo = Tail(req[r].todo)
  <2>1. Proceeds(r)
    BY GoProceeds DEF IInv
  <2> QED
    BY <2>1 DEF IInv, RequestsAre, Go, Fields, Idle
<1>2. req'[r].row = new.row /\ req'[r].seen = new.seen
  BY DEF IInv, RequestsAre, Go, Fields, Idle
<1> QED
  BY <1>1, <1>2, Advances

LEMMA StopSets ==
  ASSUME IInv, NEW r \in Reqs, req[r].todo # <<>>, NEW how, Stop(r, how)
  PROVE  Pc(r)' = "end"
<1>1. req'[r].todo = <<>>
  <2>1. r \in DOMAIN req /\ DOMAIN req[r] = Fields
    BY DEF IInv, RequestsAre
  <2> QED
    BY <2>1 DEF Stop, Fields, Idle
<1> QED
  BY <1>1 DEF Pc

-----------------------------------------------------------------------------
(* The statements on tours                                                 *)

LEMMA EditedCopies ==
  ASSUME NEW r \in Reqs, NEW row, DOMAIN row = Columns
  PROVE  Same(Edited(r, row), row, Copied)
<1>1. Copied \subseteq Columns /\ {"promos", "images", "cover", "published"} \cap Copied = {}
  BY DEF Copied, Columns, NewTour, StopColumns, BrandColumns
<1> QED
  BY <1>1 DEF Edited, Same

LEMMA LoadDoes ==
  ASSUME IInv, Control, NEW r \in Reqs, LoadTour(r)
  PROVE  Loads(r) \/ Ends(r)
<1> DEFINE at == req[r].op.at
<1>1. req[r].todo # <<>> /\ Head(req[r].todo) = "load"
  BY DEF LoadTour, At
<1>2. Stands(r) /\ Pc(r) = "load" /\ DOMAIN req[r] = Fields
  BY <1>1, Standing, StandsAt DEF Stands, IInv
<1>3. req[r].op.kind \notin BrandKinds /\ at \in Tours /\ DOMAIN tours[at] = Columns
  <2>1. req[r].op.kind \notin BrandKinds
    BY <1>2 DEF Stands, Uses, BrandKinds, PromotionKinds
  <2> QED
    BY <1>1, <2>1, StandsAt DEF IInv, RowsAre
<1>4. CASE Stop(r, "refused")
  BY <1>1, <1>2, <1>4, StopSets DEF LoadTour, Ends, Emptied
<1>5. CASE LiveTour(at) /\ Go(r, [req[r] EXCEPT !.old = tours[at], !.row = Edited(r, tours[at])])
  <2> DEFINE new == [req[r] EXCEPT !.old = tours[at], !.row = Edited(r, tours[at])]
  <2>1. /\ DOMAIN new = Fields /\ new.row = Edited(r, tours[at])
        /\ new.todo = req[r].todo /\ new.op = req[r].op /\ new.promo = req[r].promo
    BY <1>2 DEF Fields, Idle
  <2>2. req'[r].row = Edited(r, tours[at]) /\ Pc(r)' = After(req[r].op, Pc(r))
    <3> HIDE DEF new
    <3> QED
      BY <1>1, <1>5, <2>1, GoSets DEF new
  <2>3. Same(Edited(r, tours[at]), tours[at], Copied)
    BY <1>3, EditedCopies
  <2> QED
    BY <1>2, <1>5, <2>2, <2>3 DEF LoadTour, Loads, LiveTour, After
<1> QED
  BY <1>4, <1>5 DEF LoadTour

\* A request at a statement of its tour.
LEMMA AtTour ==
  ASSUME IInv, Control, NEW r \in Reqs, req[r].todo # <<>>,
         Head(req[r].todo) \in {"load", "brand", "itinerary", "slug", "delete", "reload", "write",
                               "unlink", "insert", "softDelete"}
  PROVE  /\ Stands(r) /\ DOMAIN req[r] = Fields /\ ForTour(r)
         /\ req[r].op.at \in Tours /\ DOMAIN tours[req[r].op.at] = Columns
         /\ DOMAIN req[r].row = Columns
<1>1. Stands(r) /\ DOMAIN req[r] = Fields /\ Begun(req[r])
  BY Standing, StandsAt DEF IInv
<1>2. req[r].op.kind \notin BrandKinds
  BY <1>1 DEF Stands, Uses, BrandKinds, PromotionKinds
<1> QED
  BY <1>1, <1>2, StandsAt DEF IInv, RowsAre, Begun, ForTour, Stands

\* A statement that changes the row and what it saw only.
LEMMA GoesOn ==
  ASSUME IInv, Control, NEW r \in Reqs, req[r].todo # <<>>, NEW row, NEW seen, NEW seenStops,
         Go(r, [req[r] EXCEPT !.row = row, !.seen = seen, !.seenStops = seenStops])
  PROVE  req'[r].row = row /\ req'[r].seen = seen /\ Pc(r)' = After(req[r].op, Pc(r))
<1> DEFINE new == [req[r] EXCEPT !.row = row, !.seen = seen, !.seenStops = seenStops]
<1>1. DOMAIN req[r] = Fields
  BY DEF IInv, RequestsAre
<1>2. /\ DOMAIN new = Fields /\ new.row = row /\ new.seen = seen
      /\ new.todo = req[r].todo /\ new.op = req[r].op /\ new.promo = req[r].promo
  BY <1>1 DEF Fields, Idle
<1> HIDE DEF new
<1>3. Go(r, new)
  BY DEF new
<1> QED
  BY <1>2, <1>3, GoSets

LEMMA GoesOnWithRow ==
  ASSUME IInv, Control, NEW r \in Reqs, req[r].todo # <<>>, NEW row,
         Go(r, [req[r] EXCEPT !.row = row])
  PROVE  req'[r].row = row /\ Pc(r)' = After(req[r].op, Pc(r))
<1> DEFINE new == [req[r] EXCEPT !.row = row]
<1>1. DOMAIN req[r] = Fields
  BY DEF IInv, RequestsAre
<1>2. /\ DOMAIN new = Fields /\ new.row = row
      /\ new.todo = req[r].todo /\ new.op = req[r].op /\ new.promo = req[r].promo
  BY <1>1 DEF Fields, Idle
<1> HIDE DEF new
<1>3. Go(r, new)
  BY DEF new
<1> QED
  BY <1>2, <1>3, GoSets

LEMMA GoesOnAsIs ==
  ASSUME IInv, Control, NEW r \in Reqs, req[r].todo # <<>>, Go(r, req[r])
  PROVE  req'[r].row = req[r].row /\ req'[r].seen = req[r].seen
         /\ Pc(r)' = After(req[r].op, Pc(r))
<1>1. DOMAIN req[r] = Fields
  BY DEF IInv, RequestsAre
<1> QED
  BY <1>1, GoSets

LEMMA ResolveBrandDoes ==
  ASSUME IInv, Control, NEW r \in Reqs, ResolveBrand(r)
  PROVE  GetsBrand(r) \/ Ends(r)
<1> DEFINE b == req[r].op.brand
           shown == BuildProvider(IF b = NoBrand THEN NoBrand ELSE brands[b])
           row == [req[r].row EXCEPT !.brand = b, !.provider = shown]
<1>1. req[r].todo # <<>> /\ Head(req[r].todo) = "brand"
  BY DEF ResolveBrand, At
<1>2. Stands(r) /\ Pc(r) = "brand" /\ DOMAIN req[r] = Fields /\ DOMAIN req[r].row = Columns
  BY <1>1, AtTour DEF Stands
<1>3. b \in Brands \cup {NoBrand}
  BY <1>2, BodiesAssumption DEF Stands, Uses, PromotionKinds
<1>4. CASE Stop(r, "refused")
  BY <1>1, <1>2, <1>4, StopSets DEF ResolveBrand, Ends, Emptied
<1>5. CASE ~Stop(r, "refused")
  <2>1. /\ b # NoBrand => LiveBrand(b)
        /\ Go(r, [req[r] EXCEPT !.row.brand = b, !.row.provider = shown])
    BY <1>5 DEF ResolveBrand
  <2>2. [req[r] EXCEPT !.row.brand = b, !.row.provider = shown] = [req[r] EXCEPT !.row = row]
    BY <1>2 DEF Fields, Idle
  <2>3. req'[r].row = row /\ Pc(r)' = After(req[r].op, Pc(r))
    <3> HIDE DEF row
    <3> QED
      BY <1>1, <2>1, <2>2, GoesOnWithRow
  <2>4. row.brand = b /\ row.provider = shown /\ Same(row, req[r].row, {"exists"} \cup StopColumns)
    BY <1>2 DEF Columns, NewTour, Same, StopColumns
  <2>5. KnownBrand(b) /\ shown = Right(b)
    BY <1>3, <2>1 DEF KnownBrand, Right, BuildProvider, LiveBrand
  <2> HIDE DEF row, shown
  <2> QED
    BY <1>2, <2>3, <2>4, <2>5 DEF ResolveBrand, GetsBrand
<1> QED
  BY <1>4, <1>5

LEMMA ResolveItineraryDoes ==
  ASSUME IInv, Control, NEW r \in Reqs, ResolveItinerary(r)
  PROVE  GetsStops(r) \/ Ends(r)
<1> DEFINE row == WithItinerary(req[r].row, req[r].op.stops)
           d == Derived(StopRows(0, req[r].op.stops))
<1>1. req[r].todo # <<>> /\ Head(req[r].todo) = "itinerary"
  BY DEF ResolveItinerary, At
<1>2. Stands(r) /\ Pc(r) = "itinerary" /\ DOMAIN req[r] = Fields /\ DOMAIN req[r].row = Columns
  BY <1>1, AtTour DEF Stands
<1>3. CASE Stop(r, "refused")
  BY <1>1, <1>2, <1>3, StopSets DEF ResolveItinerary, Ends, Emptied
<1>4. CASE ~Stop(r, "refused")
  <2>1. Go(r, [req[r] EXCEPT !.row = row])
    BY <1>2, <1>4 DEF ResolveItinerary, Fields, Idle
  <2>2. req'[r].row = row /\ Pc(r)' = After(req[r].op, Pc(r))
    <3> HIDE DEF row
    <3> QED
      BY <1>1, <2>1, GoesOnWithRow
  <2>3. /\ row = [req[r].row EXCEPT !.city = d.city, !.venues = d.venues, !.scope = d.scope]
    BY DEF WithItinerary
  <2>4. Same(row, d, StopColumns) /\ Same(row, req[r].row, {"exists"} \cup BrandColumns)
    <3> HIDE DEF d
    <3> QED
      BY <1>2, <2>3 DEF Columns, NewTour, Same, StopColumns, BrandColumns
  <2> HIDE DEF row
  <2> QED
    BY <1>2, <2>2, <2>4 DEF ResolveItinerary, GetsStops
<1> QED
  BY <1>3, <1>4

LEMMA UniqueSlugDoes ==
  ASSUME IInv, Control, NEW r \in Reqs, UniqueSlug(r)
  PROVE  GetsSlug(r)
<1> DEFINE row == [req[r].row EXCEPT !.slug = Slug(req[r].row)]
<1>1. req[r].todo # <<>> /\ Head(req[r].todo) = "slug"
  BY DEF UniqueSlug, At
<1>2. Stands(r) /\ Pc(r) = "slug" /\ DOMAIN req[r] = Fields /\ DOMAIN req[r].row = Columns
  BY <1>1, AtTour DEF Stands
<1>3. Go(r, [req[r] EXCEPT !.row = row])
  BY <1>2 DEF UniqueSlug, Fields, Idle
<1>4. req'[r].row = row /\ Pc(r)' = After(req[r].op, Pc(r))
  <2> HIDE DEF row
  <2> QED
    BY <1>1, <1>3, GoesOnWithRow
<1>5. Same(row, req[r].row, Copied)
  BY <1>2 DEF Columns, NewTour, Same, Copied, StopColumns, BrandColumns
<1> HIDE DEF row
<1> QED
  BY <1>2, <1>4, <1>5 DEF UniqueSlug, GetsSlug, After

LEMMA DeleteDoes ==
  ASSUME IInv, Control, NEW r \in Reqs, DeleteStops(r)
  PROVE  Deletes(r)
<1>1. req[r].todo # <<>> /\ Head(req[r].todo) = "delete"
  BY DEF DeleteStops, At
<1>2. Stands(r) /\ Pc(r) = "delete"
  BY <1>1, AtTour DEF Stands
<1>3. req'[r].row = req[r].row /\ Pc(r)' = After(req[r].op, Pc(r))
  BY <1>1, GoesOnAsIs DEF DeleteStops
<1> QED
  BY <1>2, <1>3 DEF DeleteStops, Deletes, After

LEMMA ReloadDoes ==
  ASSUME IInv, Control, NEW r \in Reqs, ReloadTour(r)
  PROVE  Reloads(r)
<1> DEFINE seen == tours[req[r].op.at]
           seenStops == IF Given(req[r].op.stops) THEN stops[req[r].op.at] ELSE {}
<1>1. req[r].todo # <<>> /\ Head(req[r].todo) = "reload"
  BY DEF ReloadTour, At
<1>2. Stands(r) /\ Pc(r) = "reload" /\ DOMAIN req[r] = Fields
  BY <1>1, AtTour DEF Stands
<1>3. Go(r, [req[r] EXCEPT !.row = req[r].row, !.seen = seen, !.seenStops = seenStops])
  BY <1>2 DEF ReloadTour, Fields, Idle
<1>4. req'[r].row = req[r].row /\ req'[r].seen = seen /\ Pc(r)' = After(req[r].op, Pc(r))
  <2> HIDE DEF seen, seenStops
  <2> QED
    BY <1>1, <1>3, GoesOn
<1> QED
  BY <1>2, <1>4 DEF ReloadTour, Reloads, After

LEMMA WriteDoes ==
  ASSUME IInv, Control, NEW r \in Reqs, WriteTour(r)
  PROVE  Writes(r) \/ Ends(r)
<1> DEFINE at == req[r].op.at
           saved == SaveDiff(req[r].row, req[r].seen, tours[at])
<1>1. req[r].todo # <<>> /\ Head(req[r].todo) = "write"
  BY DEF WriteTour, At
<1>2. Stands(r) /\ Pc(r) = "write" /\ at \in Tours
  BY <1>1, AtTour DEF Stands
<1>3. CASE Stop(r, "failed") /\ torn' = torn \cup {at} /\ UNCHANGED <<tours, stops>>
  <2>1. Pc(r)' = "end"
    BY <1>1, <1>3, StopSets
  <2> QED
    BY <1>2, <1>3, <2>1 DEF WriteTour, Ends
<1>4. CASE /\ tours' = [tours EXCEPT ![at] = saved] /\ Go(r, req[r]) /\ UNCHANGED torn
           /\ stops' = [stops EXCEPT ![at] = @ \cup
                             IF Given(req[r].op.stops) THEN StopRows(r, req[r].op.stops) ELSE {}]
  <2>1. req'[r].row = req[r].row /\ Pc(r)' = After(req[r].op, Pc(r))
    BY <1>1, <1>4, GoesOnAsIs
  <2>2. Pc(r)' \in {"unlink", "end"}
    BY <1>2, <2>1 DEF After
  <2>3. tours'[at] = saved /\ OnlyTour(at)
    <3> HIDE DEF saved
    <3> QED
      BY <1>2, <1>4 DEF IInv, RowsAre, OnlyTour
  <2>4. Same(tours'[at], saved, Copied)
    BY <2>3 DEF Same
  <2> QED
    BY <1>2, <1>4, <2>1, <2>2, <2>3, <2>4 DEF WriteTour, Writes
<1> QED
  BY <1>3, <1>4 DEF WriteTour

LEMMA InsertDoes ==
  ASSUME IInv, Control, NEW r \in Reqs, InsertTour(r)
  PROVE  Inserts(r) \/ Ends(r)
<1> DEFINE at == req[r].op.at
           row == Edited(r, req[r].row)
<1>1. req[r].todo # <<>> /\ Head(req[r].todo) = "insert"
  BY DEF InsertTour, At
<1>2. Stands(r) /\ Pc(r) = "insert" /\ at \in Tours /\ DOMAIN req[r].row = Columns
  BY <1>1, AtTour DEF Stands
<1>3. CASE Stop(r, "failed") /\ UNCHANGED <<tours, stops>>
  <2>1. Pc(r)' = "end"
    BY <1>1, <1>3, StopSets
  <2> QED
    BY <1>2, <1>3, <2>1 DEF InsertTour, Ends, Emptied
<1>4. CASE ~(Stop(r, "failed") /\ UNCHANGED <<tours, stops>>)
  <2> DEFINE cover == IF Given(req[r].op.cover) THEN row.cover
                      ELSE First(row.images, row.provider.logo)
             inserted == [row EXCEPT !.exists = TRUE, !.cover = cover]
  <2>1. /\ tours' = [tours EXCEPT ![at] = inserted] /\ Go(r, req[r])
        /\ stops' = [stops EXCEPT ![at] = StopRows(r, req[r].op.stops)]
    BY <1>4 DEF InsertTour
  <2>2. Pc(r)' = After(req[r].op, Pc(r))
    BY <1>1, <2>1, GoesOnAsIs
  <2>3. tours'[at] = inserted /\ OnlyTour(at)
    <3> HIDE DEF inserted
    <3> QED
      BY <1>2, <2>1 DEF IInv, RowsAre, OnlyTour
  <2>4. DOMAIN row = Columns /\ Same(row, req[r].row, Copied)
    <3>1. DOMAIN row = Columns
      BY <1>2 DEF Edited
    <3> QED
      BY <1>2, <3>1, EditedCopies
  <2>5. inserted.exists /\ Same(inserted, req[r].row, StopColumns \cup BrandColumns)
    <3> HIDE DEF row, cover
    <3> QED
      BY <2>4 DEF Columns, NewTour, Same, Copied, StopColumns, BrandColumns
  <2> HIDE DEF inserted
  <2> QED
    BY <1>2, <2>1, <2>2, <2>3, <2>5 DEF InsertTour, Inserts, After
<1> QED
  BY <1>3, <1>4

LEMMA SoftDeleteDoes ==
  ASSUME IInv, Control, NEW r \in Reqs, SoftDeleteTour(r)
  PROVE  SoftDeletes(r)
<1> DEFINE at == req[r].op.at
<1>1. req[r].todo # <<>> /\ Head(req[r].todo) = "softDelete"
  BY DEF SoftDeleteTour, At
<1>2. Stands(r) /\ Pc(r) = "softDelete" /\ at \in Tours /\ DOMAIN tours[at] = Columns
  BY <1>1, AtTour DEF Stands
<1>3. Pc(r)' = After(req[r].op, Pc(r))
  BY <1>1, GoesOnAsIs DEF SoftDeleteTour
<1>4. tours'[at] = [tours[at] EXCEPT !.deleted = TRUE] /\ OnlyTour(at)
  BY <1>2 DEF SoftDeleteTour, IInv, RowsAre, OnlyTour
<1>5. Same([tours[at] EXCEPT !.deleted = TRUE], tours[at], Copied)
  BY <1>2 DEF Columns, NewTour, Same, Copied, StopColumns, BrandColumns
<1> QED
  BY <1>2, <1>3, <1>4, <1>5 DEF SoftDeleteTour, SoftDeletes, After

LEMMA UnlinkDoes ==
  ASSUME IInv, Control, NEW r \in Reqs, UnlinkImages(r) \/ UnlinkLogo(r)
  PROVE  Ends(r)
<1>1. req[r].todo # <<>> /\ Head(req[r].todo) \in {"unlink", "unlinkLogo"} /\ Go(r, req[r])
  BY DEF UnlinkImages, UnlinkLogo, At
<1>2. Pc(r) \in {"unlink", "unlinkLogo"}
  BY <1>1, Standing DEF Stands
<1>3. Pc(r)' = After(req[r].op, Pc(r))
  BY <1>1, GoesOnAsIs
<1>4. UNCHANGED <<tours, stops, brands, torn>>
  BY DEF UnlinkImages, UnlinkLogo
<1> QED
  BY <1>2, <1>3, <1>4 DEF Ends, Emptied, After

LEMMA FailDoes ==
  ASSUME IInv, Control, NEW r \in Reqs, Fail(r)
  PROVE  Ends(r)
<1>1. req[r].todo # <<>>
  BY DEF Fail, InFlight
<1>2. Stands(r) /\ Pc(r) = Head(req[r].todo)
  BY <1>1, Standing DEF Stands
<1>3. Pc(r)' = "end"
  BY <1>1, StopSets DEF Fail
<1>4. Emptied(r) => req[r].op.kind = "update"
  BY <1>2, BodiesAssumption DEF Emptied, Stands, Uses, PromotionKinds
<1> QED
  BY <1>2, <1>3, <1>4 DEF Fail, Ends, Emptied

-----------------------------------------------------------------------------
(* The statements on brands                                                *)

LEMMA AtBrand ==
  ASSUME IInv, Control, NEW r \in Reqs, req[r].todo # <<>>, Head(req[r].todo) \in BrandSteps
  PROVE  /\ Stands(r) /\ DOMAIN req[r] = Fields /\ ~ForTour(r)
         /\ req[r].op.kind \in BrandKinds /\ req[r].op.at \in Brands
<1>1. Stands(r) /\ DOMAIN req[r] = Fields
  BY Standing, StandsAt DEF IInv
<1>2. req[r].op.kind \in BrandKinds
  BY <1>1 DEF Stands, Uses, BrandKinds, BrandSteps
<1> QED
  BY <1>1, <1>2, OpsAssumption DEF ForTour, Stands

LEMMA EditedBrandCopies ==
  ASSUME NEW op, NEW row, DOMAIN row = DOMAIN NewBrand
  PROVE  /\ DOMAIN EditedBrand(op, row) = DOMAIN NewBrand
         /\ EditedBrand(op, row).exists = row.exists
         /\ EditedBrand(op, row).deleted = row.deleted
         /\ BrandRow(EditedBrand(op, row))
  BY DEF EditedBrand, NewBrand, BrandRow

LEMMA InsertBrandDoes ==
  ASSUME IInv, Control, DOMAIN brands = Brands, NEW r \in Reqs, InsertBrand(r)
  PROVE  InsertsBrand(r)
<1> DEFINE b == req[r].op.at
           edited == EditedBrand(req[r].op, NewBrand)
           row == [edited EXCEPT !.exists = TRUE]
<1>1. req[r].todo # <<>> /\ Head(req[r].todo) = "insertBrand"
  BY DEF InsertBrand, At
<1>2. Stands(r) /\ Pc(r) = "insertBrand" /\ b \in Brands
  BY <1>1, AtBrand DEF Stands, BrandSteps
<1>3. Pc(r)' = After(req[r].op, Pc(r))
  BY <1>1, GoesOnAsIs DEF InsertBrand
<1>4. DOMAIN edited = DOMAIN NewBrand
  BY EditedBrandCopies
<1>5. DOMAIN row = DOMAIN NewBrand /\ row.exists
  <2> HIDE DEF edited
  <2> QED
    BY <1>4 DEF NewBrand
<1>6. brands'[b] = row /\ OnlyBrand(b)
  <2>1. brands' = [brands EXCEPT ![b] = row]
    BY DEF InsertBrand
  <2> HIDE DEF row
  <2> QED
    BY <1>2, <2>1 DEF OnlyBrand
<1> HIDE DEF row
<1> QED
  BY <1>2, <1>3, <1>5, <1>6 DEF InsertBrand, InsertsBrand, After

LEMMA LoadBrandDoes ==
  ASSUME IInv, Control, NEW r \in Reqs, LoadBrand(r),
         \A b \in Brands : DOMAIN brands[b] = DOMAIN NewBrand
  PROVE  LoadsBrand(r) \/ Ends(r)
<1> DEFINE b == req[r].op.at
           row == EditedBrand(req[r].op, brands[b])
           new == [req[r] EXCEPT !.old = brands[b], !.row = row]
<1>1. req[r].todo # <<>> /\ Head(req[r].todo) = "loadBrand"
  BY DEF LoadBrand, At
<1>2. Stands(r) /\ Pc(r) = "loadBrand" /\ b \in Brands /\ DOMAIN req[r] = Fields
  BY <1>1, AtBrand DEF Stands, BrandSteps
<1>3. CASE Stop(r, "refused")
  BY <1>1, <1>2, <1>3, StopSets DEF LoadBrand, Ends, Emptied
<1>4. CASE LiveBrand(b) /\ Go(r, new)
  <2>1. /\ DOMAIN new = Fields /\ new.row = row
        /\ new.todo = req[r].todo /\ new.op = req[r].op /\ new.promo = req[r].promo
    <3> HIDE DEF row
    <3> QED
      BY <1>2 DEF Fields, Idle
  <2>2. req'[r].row = row /\ Pc(r)' = After(req[r].op, Pc(r))
    <3> HIDE DEF new, row
    <3> QED
      BY <1>1, <1>4, <2>1, GoSets
  <2>3. row.exists /\ ~row.deleted /\ DOMAIN row = DOMAIN brands[b] /\ BrandRow(row)
    BY <1>2, <1>4, EditedBrandCopies DEF LiveBrand
  <2>4. Pc(r)' \in {"unstamp", "reloadBrand"}
    BY <1>2, <2>2 DEF After
  <2> HIDE DEF new, row
  <2> QED
    BY <1>2, <1>4, <2>2, <2>3, <2>4 DEF LoadBrand, LoadsBrand
<1> QED
  BY <1>3, <1>4 DEF LoadBrand

LEMMA ReloadBrandDoes ==
  ASSUME IInv, Control, NEW r \in Reqs, ReloadBrand(r)
  PROVE  ReloadsBrand(r)
<1> DEFINE seen == brands[req[r].op.at]
<1>1. req[r].todo # <<>> /\ Head(req[r].todo) = "reloadBrand"
  BY DEF ReloadBrand, At
<1>2. Stands(r) /\ Pc(r) = "reloadBrand" /\ DOMAIN req[r] = Fields
  BY <1>1, AtBrand DEF Stands, BrandSteps
<1>3. Go(r, [req[r] EXCEPT !.row = req[r].row, !.seen = seen, !.seenStops = req[r].seenStops])
  BY <1>2 DEF ReloadBrand, Fields, Idle
<1>4. req'[r].row = req[r].row /\ req'[r].seen = seen /\ Pc(r)' = After(req[r].op, Pc(r))
  <2> HIDE DEF seen
  <2> QED
    BY <1>1, <1>3, GoesOn
<1> QED
  BY <1>2, <1>4 DEF ReloadBrand, ReloadsBrand, After

LEMMA WriteBrandDoes ==
  ASSUME IInv, Control, DOMAIN brands = Brands, NEW r \in Reqs, WriteBrand(r)
  PROVE  WritesBrand(r)
<1> DEFINE b == req[r].op.at
           saved == SaveDiff(req[r].row, req[r].seen, brands[b])
<1>1. req[r].todo # <<>> /\ Head(req[r].todo) = "writeBrand"
  BY DEF WriteBrand, At
<1>2. Stands(r) /\ Pc(r) = "writeBrand" /\ b \in Brands
  BY <1>1, AtBrand DEF Stands, BrandSteps
<1>3. req'[r].row = req[r].row /\ Pc(r)' = After(req[r].op, Pc(r))
  BY <1>1, GoesOnAsIs DEF WriteBrand
<1>4. brands'[b] = saved /\ OnlyBrand(b)
  <2>1. brands' = [brands EXCEPT ![b] = saved]
    BY DEF WriteBrand
  <2> HIDE DEF saved
  <2> QED
    BY <1>2, <2>1 DEF OnlyBrand
<1> QED
  BY <1>2, <1>3, <1>4 DEF WriteBrand, WritesBrand, After

LEMMA StampDoes ==
  ASSUME RowsAre, NEW b, NEW provider, Stamp(b, provider)
  PROVE  Stamps(b, provider)
<1> SUFFICES ASSUME NEW t \in Tours
             PROVE  /\ Same(tours'[t], tours[t], Copied \ {"provider"})
                    /\ tours'[t].provider = IF tours[t].brand = b THEN provider
                                            ELSE tours[t].provider
  BY DEF Stamps
<1>1. tours'[t] = IF tours[t].brand = b THEN [tours[t] EXCEPT !.provider = provider] ELSE tours[t]
  BY DEF Stamp
<1>2. DOMAIN tours[t] = Columns /\ Copied \subseteq Columns /\ "provider" \in Columns
  BY DEF RowsAre, Columns, NewTour, Copied, StopColumns, BrandColumns
<1> QED
  BY <1>1, <1>2 DEF Same

LEMMA SyncDoes ==
  ASSUME IInv, Control, NEW r \in Reqs, SyncTourProviders(r)
  PROVE  Syncs(r)
<1>1. req[r].todo # <<>> /\ Head(req[r].todo) = "sync"
  BY DEF SyncTourProviders, At
<1>2. Stands(r) /\ Pc(r) = "sync"
  BY <1>1, AtBrand DEF Stands, BrandSteps
<1>3. req'[r].row = req[r].row /\ Pc(r)' = After(req[r].op, Pc(r))
  BY <1>1, GoesOnAsIs DEF SyncTourProviders
<1>4. Stamps(req[r].op.at, BuildProvider(req[r].row))
  BY StampDoes DEF SyncTourProviders, IInv
<1> QED
  BY <1>2, <1>3, <1>4 DEF SyncTourProviders, Syncs, After

LEMMA UnstampDoes ==
  ASSUME IInv, Control, NEW r \in Reqs, UnstampTours(r)
  PROVE  Unstamps(r)
<1>1. req[r].todo # <<>> /\ Head(req[r].todo) = "unstamp"
  BY DEF UnstampTours, At
<1>2. Stands(r) /\ Pc(r) = "unstamp"
  BY <1>1, AtBrand DEF Stands, BrandSteps
<1>3. req'[r].row = req[r].row /\ Pc(r)' = After(req[r].op, Pc(r))
  BY <1>1, GoesOnAsIs DEF UnstampTours
<1>4. Stamps(req[r].op.at, SiteProvider)
  BY StampDoes DEF UnstampTours, IInv
<1> QED
  BY <1>2, <1>3, <1>4 DEF UnstampTours, Unstamps, After

LEMMA SoftDeleteBrandDoes ==
  ASSUME IInv, Control, DOMAIN brands = Brands, NEW r \in Reqs, SoftDeleteBrand(r)
  PROVE  SoftDeletesBrand(r)
<1>1. req[r].todo # <<>> /\ Head(req[r].todo) = "softDeleteBrand"
  BY DEF SoftDeleteBrand, At
<1>2. Stands(r) /\ Pc(r) = "softDeleteBrand" /\ req[r].op.at \in Brands
  BY <1>1, AtBrand DEF Stands, BrandSteps
<1>3. Pc(r)' = After(req[r].op, Pc(r))
  BY <1>1, GoesOnAsIs DEF SoftDeleteBrand
<1>4. OnlyBrand(req[r].op.at)
  BY DEF SoftDeleteBrand, OnlyBrand
<1> QED
  BY <1>2, <1>3, <1>4 DEF SoftDeleteBrand, SoftDeletesBrand, After

-----------------------------------------------------------------------------
(* What holds of every request, whatever overlaps.                         *)

BrandRows == DOMAIN brands = Brands /\ \A b \in Brands : DOMAIN brands[b] = DOMAIN NewBrand

TourEffect(r) ==
    \/ Loads(r) \/ GetsBrand(r) \/ GetsStops(r) \/ GetsSlug(r) \/ Deletes(r) \/ Reloads(r)
    \/ Writes(r) \/ Inserts(r) \/ SoftDeletes(r) \/ Ends(r)
BrandEffect(s) ==
    \/ InsertsBrand(s) \/ LoadsBrand(s) \/ ReloadsBrand(s) \/ WritesBrand(s)
    \/ Syncs(s) \/ Unstamps(s) \/ SoftDeletesBrand(s) \/ Ends(s)

\* One statement of a request.
Statement(r) ==
    /\ Proceeds(r) /\ Stands(r) /\ UNCHANGED raced
    /\ \/ ForTour(r) /\ req[r].op.at \in Tours /\ TourEffect(r)
       \/ ~ForTour(r) /\ req[r].op.at \in Brands /\ BrandEffect(r)

LEMMA Statements ==
  ASSUME IInv, Control, BrandRows, NEW r \in Reqs, TourStep(r) \/ BrandStep(r) \/ Fail(r)
  PROVE  Statement(r) /\ IInv' /\ Control'
<1>1. Moves(r)
  BY LoadMoves, ResolveMoves, PlainMoves, WriteMoves, InsertMoves, SoftDeleteMoves, BrandMoves
  DEF TourStep
<1>2. Proceeds(r) /\ req[r].todo # <<>>
  BY <1>1 DEF Moves, Proceeds
<1>3. Stands(r)
  BY <1>2, Standing
<1>4. UNCHANGED raced
  BY DEF TourStep, LoadTour, ResolveBrand, ResolveItinerary, DeleteStops, ReloadTour, WriteTour,
         UnlinkImages, UniqueSlug, InsertTour, SoftDeleteTour, BrandStep, InsertBrand, LoadBrand,
         ReloadBrand, WriteBrand, SyncTourProviders, UnlinkLogo, UnstampTours, SoftDeleteBrand, Fail
<1>5. IF ForTour(r) THEN req[r].op.at \in Tours ELSE req[r].op.at \in Brands
  BY <1>3, OpsAssumption DEF Stands, ForTour
<1>6. ASSUME TourStep(r) PROVE ForTour(r) /\ TourEffect(r)
  <2>1. Head(req[r].todo) \in {"load", "brand", "itinerary", "slug", "delete", "reload", "write",
                               "unlink", "insert", "softDelete"}
    BY <1>6 DEF TourStep, LoadTour, ResolveBrand, ResolveItinerary, DeleteStops, ReloadTour,
                WriteTour, UnlinkImages, UniqueSlug, InsertTour, SoftDeleteTour, At
  <2>2. ForTour(r)
    BY <1>2, <2>1, AtTour
  <2>3. TourEffect(r)
    BY <1>6, LoadDoes, ResolveBrandDoes, ResolveItineraryDoes, UniqueSlugDoes, DeleteDoes,
       ReloadDoes, WriteDoes, InsertDoes, SoftDeleteDoes, UnlinkDoes DEF TourStep, TourEffect
  <2> QED
    BY <2>2, <2>3
<1>7. ASSUME BrandStep(r) PROVE ~ForTour(r) /\ BrandEffect(r)
  <2>1. Head(req[r].todo) \in BrandSteps
    BY <1>7 DEF BrandStep, InsertBrand, LoadBrand, ReloadBrand, WriteBrand, SyncTourProviders,
                UnlinkLogo, UnstampTours, SoftDeleteBrand, At, BrandSteps
  <2>2. ~ForTour(r)
    BY <1>2, <2>1, AtBrand
  <2>3. BrandEffect(r)
    BY <1>7, InsertBrandDoes, LoadBrandDoes, ReloadBrandDoes, WriteBrandDoes, SyncDoes, UnstampDoes,
       SoftDeleteBrandDoes, UnlinkDoes DEF BrandStep, BrandEffect, BrandRows
  <2> QED
    BY <2>2, <2>3
<1>8. ASSUME Fail(r) PROVE TourEffect(r) /\ BrandEffect(r)
  BY <1>8, FailDoes DEF TourEffect, BrandEffect
<1>9. IInv'
  BY <1>1, MovesKeep
<1>10. Control'
  BY <1>2, Advances
<1> QED
  BY <1>2, <1>3, <1>4, <1>5, <1>6, <1>7, <1>8, <1>9, <1>10 DEF Statement

\* Requests that create a brand.
Creates(q, b) == req[q] # Idle /\ req[q].op.kind = "createBrand" /\ req[q].op.at = b

\* A new request.
Starts(r, op) ==
    /\ req[r] = Idle /\ op \in Ops
    /\ DOMAIN req' = Reqs
    /\ \A q \in Reqs \ {r} : req'[q] = req[q] /\ Pc(q)' = Pc(q)
    /\ req'[r] # Idle /\ req'[r].op = op /\ Pc(r)' = Begins(op) /\ req'[r].todo # <<>>
    /\ (op.kind \notin BrandKinds => req'[r].row = NewTour)
    /\ (op.kind = "createBrand" => \A q \in Reqs : ~Creates(q, op.at))
    /\ (\A q \in InFlight, x \in TouchedBy(op) :
            x \in TouchedBy(req[q].op) => <<q, x>> \in raced' /\ <<r, x>> \in raced')
    /\ raced \subseteq raced'
    /\ (\A y \in raced' \ raced :
            y[2] \in TouchedBy(op) /\ (y[1] = r \/ (y[1] \in InFlight /\ y[2] \in TouchedBy(req[y[1]].op))))
    /\ UNCHANGED <<tours, stops, brands, torn>>

LEMMA StartsHere ==
  ASSUME IInv, Control, NEW r \in Reqs, Start(r)
  PROVE  \E op \in Ops : Starts(r, op) /\ Control'
<1>1. PICK op \in Ops, p \in Reqs :
        /\ op.kind \in {"create", "createBrand"} =>
              \A q \in Reqs : req[q] # Idle => req[q].op.kind # op.kind \/ req[q].op.at # op.at
        /\ req' = [req EXCEPT ![r] = [Idle EXCEPT !.op = op, !.promo = p, !.todo = Route(op),
                        !.row = IF op.at \in Tours THEN NewTour ELSE NewBrand]]
        /\ raced' = raced \cup UNION {{z, <<r, z[2]>>} :
              z \in {y \in InFlight \X TouchedBy(op) : y[2] \in TouchedBy(req[y[1]].op)}}
  BY DEF Start
<1>2. req[r] = Idle /\ UNCHANGED <<tours, stops, brands, torn>>
  BY DEF Start
<1>3. /\ DOMAIN req' = Reqs /\ \A q \in Reqs \ {r} : req'[q] = req[q]
      /\ req'[r].op = op /\ req'[r].todo = Route(op)
      /\ req'[r].row = IF op.at \in Tours THEN NewTour ELSE NewBrand
  BY <1>1 DEF IInv, RequestsAre, Idle
<1>4. OnRoute(op, Route(op)) /\ Route(op) # <<>> /\ Head(Route(op)) = Begins(op)
  BY RouteRuns DEF Runs
<1>5. Pc(r)' = Begins(op) /\ \A q \in Reqs \ {r} : Pc(q)' = Pc(q)
  BY <1>3, <1>4 DEF Pc
<1>6. req'[r] # Idle
  <2>1. req'[r].op # Keep
    BY <1>3, OpsAssumption
  <2>2. Idle.op = Keep
    BY DEF Idle
  <2> QED
    BY <2>1, <2>2
<1>7. Control'
  <2> SUFFICES ASSUME NEW q \in Reqs, req'[q] # Idle PROVE OnRoute(req'[q].op, req'[q].todo)
    BY DEF Control
  <2> QED
    BY <1>3, <1>4 DEF Control
<1>8. op.kind \notin BrandKinds => req'[r].row = NewTour
  BY <1>3, OpsAssumption
<1> DEFINE meet == {y \in InFlight \X TouchedBy(op) : y[2] \in TouchedBy(req[y[1]].op)}
<1>9. ASSUME NEW q \in InFlight, NEW x \in TouchedBy(op), x \in TouchedBy(req[q].op)
      PROVE  <<q, x>> \in raced' /\ <<r, x>> \in raced'
  <2>1. <<q, x>> \in meet
    BY <1>9
  <2>2. <<r, <<q, x>>[2]>> = <<r, x>>
    OBVIOUS
  <2> HIDE DEF meet
  <2>3. {<<q, x>>, <<r, <<q, x>>[2]>>} \in {{z, <<r, z[2]>>} : z \in meet}
    BY <2>1
  <2>4. raced' = raced \cup UNION {{z, <<r, z[2]>>} : z \in meet}
    BY <1>1 DEF meet
  <2> QED
    BY <2>2, <2>3, <2>4
<1>10. ASSUME NEW y \in raced' \ raced
       PROVE  y[2] \in TouchedBy(op) /\ (y[1] = r \/ (y[1] \in InFlight /\ y[2] \in TouchedBy(req[y[1]].op)))
  <2>1. PICK z \in meet : y \in {z, <<r, z[2]>>}
    <3> HIDE DEF meet
    <3>1. raced' = raced \cup UNION {{z, <<r, z[2]>>} : z \in meet}
      BY <1>1 DEF meet
    <3> QED
      BY <3>1
  <2>2. /\ z[1] \in InFlight /\ z[2] \in TouchedBy(op)
        /\ z[2] \in TouchedBy(req[z[1]].op)
    <3>1. z \in InFlight \X TouchedBy(op) /\ z[2] \in TouchedBy(req[z[1]].op)
      OBVIOUS
    <3>2. PICK q \in InFlight, x \in TouchedBy(op) : z = <<q, x>>
      BY <3>1
    <3> QED
      BY <3>1, <3>2
  <2>3. CASE y = z
    BY <2>2, <2>3
  <2>4. CASE y = <<r, z[2]>>
    <3>1. y[1] = r /\ y[2] = z[2]
      BY <2>4
    <3> QED
      BY <2>2, <3>1
  <2> QED
    BY <2>1, <2>3, <2>4
<1>11. raced \subseteq raced'
  BY <1>1
<1>12. op.kind = "createBrand" => \A q \in Reqs : ~Creates(q, op.at)
  BY <1>1 DEF Creates
<1>13. DOMAIN req' = Reqs /\ \A q \in Reqs \ {r} : req'[q] = req[q] /\ Pc(q)' = Pc(q)
  BY <1>3, <1>5
<1>14. /\ req'[r] # Idle /\ req'[r].op = op /\ Pc(r)' = Begins(op) /\ req'[r].todo # <<>>
       /\ req[r] = Idle /\ op \in Ops
  BY <1>2, <1>3, <1>4, <1>5, <1>6
<1> HIDE DEF meet
<1>15. Starts(r, op)
  BY <1>2, <1>8, <1>9, <1>10, <1>11, <1>12, <1>13, <1>14 DEF Starts
<1> QED
  BY <1>7, <1>15

-----------------------------------------------------------------------------
(* What a request has in hand.                                             *)

InHand(r) ==
    r \in InFlight =>
        /\ ForTour(r) => KnownBrand(req[r].row.brand)
        /\ Loaded(r) => tours[req[r].op.at].exists /\ req[r].row.exists
        /\ Resolved(r) => Same(req[r].row, Derived(StopRows(0, req[r].op.stops)), StopColumns)
        /\ Saving(r) => /\ DOMAIN req[r].row = DOMAIN NewBrand /\ req[r].row.exists
                        /\ brands[req[r].op.at].exists

\* Requests that met on a tour are for that tour.
RacedIs == \A y \in raced : /\ y[1] \in Reqs /\ req[y[1]] # Idle
                            /\ y[2] \in Tours => req[y[1]].op.at = y[2]

\* A brand was there at first or one request has created it.
Created ==
    \A b \in Brands :
        /\ brands[b].exists =>
              b \in DOMAIN Row0.brands \/ \E q \in Reqs : Creates(q, b) /\ q \notin InFlight
        /\ \A q, r \in Reqs : Creates(q, b) /\ Creates(r, b) => q = r

Basics == /\ IInv /\ Control /\ BrandRows /\ DOMAIN stops = Tours /\ Created /\ RacedIs
          /\ \A t \in Tours : KnownBrand(tours[t].brand)
          /\ \A r \in Reqs : InHand(r)

\* Rows stay, and a tour names a brand that exists.
LEMMA RowsStay ==
  ASSUME Basics, NEW r \in Reqs, Statement(r)
  PROVE  /\ BrandRows' /\ DOMAIN stops' = Tours
         /\ \A b \in Brands : brands[b].exists => brands'[b].exists
         /\ \A t \in Tours : tours[t].exists => tours'[t].exists
         /\ \A t \in Tours : KnownBrand(tours[t].brand)'
<1> DEFINE at == req[r].op.at
<1>1. r \in InFlight /\ InHand(r)
  BY DEF Statement, Stands, Basics
<1>2. DOMAIN stops' = Tours
  <2>1. UNCHANGED stops \/ \E rows : stops' = [stops EXCEPT ![at] = rows]
    BY DEF Statement, TourEffect, BrandEffect, Loads, GetsBrand, GetsStops, GetsSlug, Deletes,
           Reloads, Writes, Inserts, SoftDeletes, Ends, InsertsBrand, LoadsBrand, ReloadsBrand,
           WritesBrand, Syncs, Unstamps, SoftDeletesBrand
  <2> QED
    BY <2>1 DEF Basics
<1>3. \/ UNCHANGED brands
      \/ ~ForTour(r) /\ at \in Brands /\ (InsertsBrand(r) \/ WritesBrand(r) \/ SoftDeletesBrand(r))
  BY DEF Statement, TourEffect, BrandEffect, Loads, GetsBrand, GetsStops, GetsSlug, Deletes,
         Reloads, Writes, Inserts, SoftDeletes, Ends, LoadsBrand, ReloadsBrand, Syncs, Unstamps
<1>4. /\ BrandRows'
      /\ \A b \in Brands : brands[b].exists => brands'[b].exists
  <2>1. CASE UNCHANGED brands
    BY <2>1 DEF Basics, BrandRows
  <2>2. CASE at \in Brands /\ InsertsBrand(r)
    BY <2>2 DEF InsertsBrand, OnlyBrand, Basics, BrandRows
  <2>3. CASE at \in Brands /\ WritesBrand(r)
    <3>1. Saving(r)
      BY <2>3 DEF WritesBrand, Saving
    <3>2. req[r].row.exists /\ brands[at].exists /\ DOMAIN brands[at] = DOMAIN NewBrand
      BY <1>1, <2>3, <3>1 DEF InHand, Basics, BrandRows
    <3>3. DOMAIN brands'[at] = DOMAIN NewBrand /\ brands'[at].exists
      BY <2>3, <3>2 DEF WritesBrand, SaveDiff, NewBrand
    <3> QED
      BY <2>3, <3>3 DEF WritesBrand, OnlyBrand, Basics, BrandRows
  <2>4. CASE at \in Brands /\ SoftDeletesBrand(r)
    BY <2>4 DEF SoftDeletesBrand, OnlyBrand, Basics, BrandRows, NewBrand
  <2> QED
    BY <1>3, <2>1, <2>2, <2>3, <2>4
<1>5. \A t \in Tours : /\ tours[t].exists => tours'[t].exists
                       /\ KnownBrand(tours'[t].brand)
  <2>1. \A t \in Tours : KnownBrand(tours[t].brand)
    BY DEF Basics
  <2>2. CASE Writes(r) /\ at \in Tours /\ ForTour(r)
    <3>1. Loaded(r)
      BY <2>2 DEF Writes, Loaded, Statement, Stands, Uses, PromotionKinds
    <3>2. /\ tours[at].exists /\ req[r].row.exists
          /\ KnownBrand(req[r].row.brand) /\ KnownBrand(tours[at].brand)
      BY <1>1, <2>1, <2>2, <3>1 DEF InHand
    <3> DEFINE saved == SaveDiff(req[r].row, req[r].seen, tours[at])
    <3>3. DOMAIN tours[at] = Columns /\ {"exists", "brand"} \subseteq Columns
      BY <2>2 DEF Basics, IInv, RowsAre, Columns, NewTour
    <3>4. saved.exists /\ saved.brand \in {req[r].row.brand, tours[at].brand}
      BY <3>2, <3>3 DEF SaveDiff
    <3>5. tours'[at].exists = saved.exists /\ tours'[at].brand = saved.brand
      <4> HIDE DEF saved
      <4>1. Same(tours'[at], saved, Copied)
        BY <2>2 DEF Writes, saved
      <4> QED
        BY <4>1 DEF Same, Copied, BrandColumns
    <3>6. tours'[at].exists /\ KnownBrand(tours'[at].brand)
      BY <2>2, <3>2, <3>4, <3>5 DEF Writes
    <3> QED
      BY <2>1, <2>2, <3>6 DEF Writes, OnlyTour
  <2>3. CASE Inserts(r) /\ at \in Tours /\ ForTour(r)
    <3>1. KnownBrand(req[r].row.brand)
      BY <1>1, <2>3 DEF InHand
    <3>2. tours'[at].exists /\ tours'[at].brand = req[r].row.brand
      BY <2>3 DEF Inserts, Same, BrandColumns
    <3>3. KnownBrand(tours'[at].brand)
      BY <3>1, <3>2
    <3> QED
      BY <2>1, <2>3, <3>2, <3>3 DEF Inserts, OnlyTour
  <2>4. CASE SoftDeletes(r) /\ at \in Tours
    <3>1. tours'[at].exists = tours[at].exists /\ tours'[at].brand = tours[at].brand
      BY <2>4 DEF SoftDeletes, Same, Copied, BrandColumns
    <3> QED
      BY <2>1, <2>4, <3>1 DEF SoftDeletes, OnlyTour
  <2>5. CASE \E b, provider : Stamps(b, provider)
    <3>1. \A t \in Tours : tours'[t].exists = tours[t].exists /\ tours'[t].brand = tours[t].brand
      BY <2>5 DEF Stamps, Same, Copied, BrandColumns
    <3> QED
      BY <2>1, <3>1
  <2>6. CASE UNCHANGED tours
    BY <2>1, <2>6
  <2>7. \/ UNCHANGED tours \/ \E b, provider : Stamps(b, provider)
        \/ SoftDeletes(r) /\ at \in Tours
        \/ Inserts(r) /\ at \in Tours /\ ForTour(r)
        \/ Writes(r) /\ at \in Tours /\ ForTour(r)
    <3>1. Syncs(r) \/ Unstamps(r) => \E b, provider : Stamps(b, provider)
      BY DEF Syncs, Unstamps
    <3> QED
      BY <3>1 DEF Statement, TourEffect, BrandEffect, Loads, GetsBrand, GetsStops, GetsSlug, Deletes,
             Reloads, Ends, InsertsBrand, LoadsBrand, ReloadsBrand, WritesBrand, SoftDeletesBrand
  <2> QED
    BY <2>2, <2>3, <2>4, <2>5, <2>6, <2>7
<1>6. \A t \in Tours : KnownBrand(tours[t].brand)'
  BY <1>4, <1>5 DEF KnownBrand
<1> QED
  BY <1>2, <1>4, <1>5, <1>6

KnownNext(b) == b # NoBrand => b \in Brands /\ brands'[b].exists

\* The other requests keep what they have in hand.
LEMMA HandsStay ==
  ASSUME NEW r \in Reqs, InHand(r), req'[r] = req[r], Pc(r)' = Pc(r),
         r \in InFlight => Stands(r) /\ req[r].op.at \in IF ForTour(r) THEN Tours ELSE Brands,
         \A b \in Brands : brands[b].exists => brands'[b].exists,
         \A t \in Tours : tours[t].exists => tours'[t].exists
  PROVE  InHand(r)'
<1>1. /\ ((r \in InFlight)' <=> r \in InFlight)
      /\ (ForTour(r)' <=> ForTour(r))
      /\ (Loaded(r)' <=> Loaded(r))
      /\ (Resolved(r)' <=> Resolved(r))
      /\ (Saving(r)' <=> Saving(r))
  BY DEF InFlight, ForTour, Loaded, Resolved, Saving
<1>2. CASE r \in InFlight
  <2>1. Loaded(r) => req[r].op.at \in Tours
    BY <1>2 DEF Loaded, ForTour, Stands, Uses, BrandKinds, PromotionKinds
  <2>2. Saving(r) => req[r].op.at \in Brands
    BY <1>2 DEF Saving, ForTour, Stands, Uses, BrandKinds, PromotionKinds
  <2>3. ForTour(r) => KnownBrand(req[r].row.brand)'
    BY <1>2 DEF KnownBrand, InHand
  <2>4. Loaded(r) => tours'[req[r].op.at].exists /\ req[r].row.exists
    BY <1>2, <2>1 DEF InHand
  <2>5. Resolved(r) => Same(req[r].row, Derived(StopRows(0, req[r].op.stops)), StopColumns)
    BY <1>2 DEF InHand
  <2>6. Saving(r) => /\ DOMAIN req[r].row = DOMAIN NewBrand /\ req[r].row.exists
                     /\ brands'[req[r].op.at].exists
    BY <1>2, <2>2 DEF InHand
  <2> QED
    BY <1>1, <1>2, <2>3, <2>4, <2>5, <2>6 DEF InHand
<1> QED
  BY <1>1, <1>2 DEF InHand

\* And so does the one that runs.
LEMMA HandRuns ==
  ASSUME Basics, NEW r \in Reqs, Statement(r)
  PROVE  InHand(r)'
<1> DEFINE at == req[r].op.at
           op == req[r].op
           row == req'[r].row
           d == Derived(StopRows(0, op.stops))
<1>1. /\ r \in InFlight /\ InHand(r) /\ Stands(r) /\ op \in Ops /\ Uses(op, Pc(r))
      /\ req'[r].op = op /\ IInv /\ Control /\ BrandRows
  BY DEF Statement, Stands, Basics, Proceeds
<1>2. /\ \A b \in Brands : brands[b].exists => brands'[b].exists
      /\ \A t \in Tours : tours[t].exists => tours'[t].exists
      /\ \A t \in Tours : KnownNext(tours'[t].brand)
  BY RowsStay DEF KnownBrand, KnownNext
<1>3. ForTour(r)' <=> ForTour(r)
  <2>1. req'[r] # Idle
    BY <1>1, Advances DEF Statement
  <2> QED
    BY <1>1, <2>1 DEF ForTour, Stands
<1>4. CASE Pc(r)' = "end"
  <2>1. r \notin InFlight'
    BY <1>1, <1>4, Advances DEF Statement
  <2> QED
    BY <2>1 DEF InHand
<1>5. /\ (Given(op.stops) => op.kind \in {"create", "update"})
      /\ (Given(op.brand) => op.brand \in Brands \cup {NoBrand})
  BY <1>1, BodiesAssumption
<1>6. CASE ForTour(r) /\ at \in Tours /\ TourEffect(r) /\ Pc(r)' # "end"
  <2>1. KnownNext(req[r].row.brand)
    BY <1>1, <1>2, <1>6 DEF InHand, KnownBrand, KnownNext
  <2>2. /\ (Loaded(r) => tours'[at].exists /\ req[r].row.exists)
        /\ (Resolved(r) => Same(req[r].row, d, StopColumns))
    BY <1>1, <1>2, <1>6 DEF InHand
  <2>3. SUFFICES /\ KnownNext(row.brand)
                 /\ (Loaded(r)' => tours'[at].exists /\ row.exists)
                 /\ (Resolved(r)' => Same(row, d, StopColumns))
                 /\ ~Saving(r)'
    BY <1>1, <1>3, <1>6 DEF InHand, KnownBrand, KnownNext
  <2>4. Pc(r)' \notin {"reloadBrand", "writeBrand", "sync"}
    BY <1>1, <1>6 DEF TourEffect, Loads, GetsBrand, GetsStops, GetsSlug, Deletes, Reloads, Writes,
       Inserts, SoftDeletes, Ends, After, AfterLoad
  <2>5. CASE Loads(r)
    <3>1. row.exists = tours[at].exists /\ row.brand = tours[at].brand /\ tours[at].exists
      BY <2>5 DEF Loads, Same, Copied, BrandColumns
    <3>2. KnownNext(row.brand) /\ tours'[at].exists
      BY <1>2, <1>6, <2>5, <3>1 DEF Loads
    <3>3. ~Resolved(r)'
      BY <1>1, <1>5, <2>5 DEF Loads, AfterLoad, Resolved, Uses, PromotionKinds
    <3> QED
      BY <2>4, <3>1, <3>2, <3>3 DEF Saving
  <2>6. CASE GetsBrand(r)
    <3>1. /\ row.brand = op.brand /\ KnownBrand(op.brand) /\ row.exists = req[r].row.exists
          /\ Same(row, req[r].row, StopColumns)
      BY <2>6 DEF GetsBrand, Same
    <3>2. KnownNext(row.brand)
      BY <1>2, <2>6, <3>1 DEF GetsBrand, KnownBrand, KnownNext
    <3>3. Loaded(r)' => Loaded(r)
      BY <1>1, <2>6 DEF GetsBrand, Loaded
    <3>4. Resolved(r)' => Resolved(r)
      BY <1>1, <2>6 DEF GetsBrand, Resolved, After
    <3>5. Resolved(r)' => Same(row, d, StopColumns)
      BY <2>2, <3>1, <3>4 DEF Same
    <3> QED
      BY <2>2, <2>4, <3>1, <3>2, <3>3, <3>5 DEF Saving
  <2>7. CASE GetsStops(r)
    <3>1. /\ row.brand = req[r].row.brand /\ row.exists = req[r].row.exists
          /\ Same(row, d, StopColumns)
      BY <2>7 DEF GetsStops, Same, BrandColumns
    <3>2. Loaded(r)' => Loaded(r)
      BY <1>1, <2>7 DEF GetsStops, Loaded
    <3>3. KnownNext(row.brand)
      BY <2>1, <3>1
    <3> QED
      BY <2>2, <2>4, <3>1, <3>2, <3>3 DEF Saving
  <2>8. CASE GetsSlug(r)
    <3>1. /\ row.brand = req[r].row.brand
          /\ Same(row, req[r].row, StopColumns)
      BY <2>8 DEF GetsSlug, Same, Copied, BrandColumns
    <3>2. ~Loaded(r)' /\ op.kind = "create"
      BY <1>1, <2>8 DEF GetsSlug, Loaded, Uses
    <3>3. Resolved(r)
      BY <2>8, <3>2 DEF GetsSlug, Resolved
    <3>4. KnownNext(row.brand) /\ Same(row, d, StopColumns)
      BY <2>1, <2>2, <3>1, <3>3 DEF Same
    <3> QED
      BY <2>4, <3>2, <3>4 DEF Saving
  <2>9. CASE Deletes(r) \/ Reloads(r)
    <3>1. row = req[r].row
      BY <2>9 DEF Deletes, Reloads
    <3>2. Loaded(r)' => Loaded(r)
      BY <1>1, <2>9 DEF Deletes, Reloads, Loaded
    <3>3. Resolved(r)' => Resolved(r)
      BY <1>1, <2>9 DEF Deletes, Reloads, Resolved, Uses, PromotionKinds
    <3>4. KnownNext(row.brand)
      BY <2>1, <3>1
    <3> QED
      BY <2>2, <2>4, <3>1, <3>2, <3>3, <3>4 DEF Saving
  <2>10. CASE Writes(r)
    <3>1. row = req[r].row /\ Pc(r)' = "unlink"
      BY <1>6, <2>10 DEF Writes
    <3>2. KnownNext(row.brand)
      BY <2>1, <3>1
    <3> QED
      BY <2>4, <3>1, <3>2 DEF Saving, Loaded, Resolved
  <2> QED
    BY <1>6, <2>5, <2>6, <2>7, <2>8, <2>9, <2>10
    DEF TourEffect, Inserts, SoftDeletes, Ends
<1>7. CASE ~ForTour(r) /\ at \in Brands /\ BrandEffect(r) /\ Pc(r)' # "end"
  <2>1. Saving(r) => /\ DOMAIN req[r].row = DOMAIN NewBrand /\ req[r].row.exists
                     /\ brands'[at].exists
    BY <1>1, <1>2, <1>7 DEF InHand
  <2>2. Pc(r)' \in {"unstamp", "reloadBrand", "writeBrand", "sync", "unlinkLogo", "softDeleteBrand"}
    BY <1>7 DEF BrandEffect, InsertsBrand, LoadsBrand, ReloadsBrand, WritesBrand, Syncs, Unstamps,
       SoftDeletesBrand, Ends
  <2>3. SUFFICES Saving(r)' => /\ DOMAIN row = DOMAIN NewBrand /\ row.exists
                               /\ brands'[at].exists
    BY <1>1, <1>3, <1>7, <2>2 DEF InHand, Loaded, Resolved
  <2>4. CASE LoadsBrand(r)
    <3>1. brands[at].exists /\ row.exists /\ DOMAIN row = DOMAIN brands[at]
      BY <2>4 DEF LoadsBrand, LiveBrand
    <3> QED
      BY <1>1, <1>2, <1>7, <3>1 DEF BrandRows
  <2>5. CASE ReloadsBrand(r) \/ WritesBrand(r)
    <3>1. Saving(r) /\ row = req[r].row
      BY <2>5 DEF ReloadsBrand, WritesBrand, Saving
    <3> QED
      BY <2>1, <3>1
  <2>6. CASE Syncs(r) \/ Unstamps(r)
    BY <2>6 DEF Syncs, Unstamps, Saving
  <2> QED
    BY <1>7, <2>4, <2>5, <2>6 DEF BrandEffect, InsertsBrand, SoftDeletesBrand, Ends
<1> QED
  BY <1>4, <1>6, <1>7 DEF Statement

\* The tour a request touches is the one it is for.
LEMMA TouchesTour ==
  ASSUME NEW op \in Ops, NEW x \in TouchedBy(op), x \in Tours,
         \A t \in Tours : KnownBrand(tours[t].brand)
  PROVE  x = op.at
<1>1. /\ x \in {op.at, op.brand} \cup (IF op.at \in Tours THEN {tours[op.at].brand} ELSE {})
      /\ x \notin {Keep, NoBrand} /\ x \notin Brands
  BY OpsAssumption DEF TouchedBy
<1>2. op.brand \in Brands \cup {NoBrand, Keep}
  BY BodiesAssumption DEF Given
<1>3. op.at \in Tours => tours[op.at].brand \in Brands \cup {NoBrand}
  BY DEF KnownBrand
<1> QED
  BY <1>1, <1>2, <1>3

LEMMA NewRows == NewTour.brand = NoBrand /\ ~NewTour.exists /\ ~NewBrand.exists
  BY DEF NewTour, NewBrand

LEMMA StatementBasics ==
  ASSUME Basics, NEW r \in Reqs, Statement(r), IInv', Control'
  PROVE  Basics'
<1>1. /\ r \in InFlight /\ (r \notin InFlight' <=> Pc(r)' = "end")
      /\ req[r] # Idle /\ req'[r] # Idle /\ req'[r].op = req[r].op
      /\ \A q \in Reqs \ {r} : /\ Pc(q)' = Pc(q) /\ req'[q] = req[q]
                               /\ (q \in InFlight' <=> q \in InFlight)
  BY Advances DEF Basics, Statement, Stands, Proceeds
<1>2. /\ BrandRows' /\ DOMAIN stops' = Tours
      /\ \A b \in Brands : brands[b].exists => brands'[b].exists
      /\ \A t \in Tours : tours[t].exists => tours'[t].exists
      /\ \A t \in Tours : KnownBrand(tours[t].brand)'
  BY RowsStay
<1>3. \A q \in Reqs : \A b : Creates(q, b)' <=> Creates(q, b)
  BY <1>1 DEF Creates
<1>4. Created'
  <2> SUFFICES ASSUME NEW b \in Brands
               PROVE  /\ (brands'[b].exists =>
                            b \in DOMAIN Row0.brands
                               \/ \E q \in Reqs : Creates(q, b)' /\ q \notin InFlight')
                      /\ \A p, q \in Reqs : Creates(p, b)' /\ Creates(q, b)' => p = q
    BY DEF Created
  <2>1. \A p, q \in Reqs : Creates(p, b)' /\ Creates(q, b)' => p = q
    BY <1>3 DEF Basics, Created
  <2>2. CASE brands[b].exists
    <3>1. CASE b \notin DOMAIN Row0.brands
      <4>1. PICK q \in Reqs : Creates(q, b) /\ q \notin InFlight
        BY <2>2, <3>1 DEF Basics, Created
      <4>2. q # r /\ Creates(q, b)' /\ q \notin InFlight'
        BY <1>1, <1>3, <4>1
      <4> QED
        BY <2>1, <4>2
    <3> QED
      BY <2>1, <3>1
  <2>3. CASE ~brands[b].exists /\ brands'[b].exists
    <3>1. InsertsBrand(r) /\ req[r].op.at = b
      <4>1. brands' # brands
        BY <2>3
      <4>2. /\ ~ForTour(r) /\ req[r].op.at \in Brands
            /\ InsertsBrand(r) \/ WritesBrand(r) \/ SoftDeletesBrand(r)
        BY <4>1 DEF Statement, TourEffect, BrandEffect, Loads, GetsBrand, GetsStops, GetsSlug,
           Deletes, Reloads, Writes, Inserts, SoftDeletes, Ends, LoadsBrand, ReloadsBrand, Syncs,
           Unstamps
      <4>3. b = req[r].op.at
        BY <2>3, <4>2 DEF InsertsBrand, WritesBrand, SoftDeletesBrand, OnlyBrand
      <4>4. ~WritesBrand(r)
        <5>1. WritesBrand(r) => Saving(r)
          BY DEF WritesBrand, Saving
        <5>2. InHand(r)
          BY DEF Basics
        <5> QED
          BY <1>1, <2>3, <4>3, <5>1, <5>2 DEF InHand
      <4>5. ~SoftDeletesBrand(r)
        BY <2>3, <4>3 DEF SoftDeletesBrand, Basics, BrandRows, NewBrand
      <4> QED
        BY <4>2, <4>3, <4>4, <4>5
    <3>2. Pc(r) = "insertBrand" /\ Pc(r)' = "end" /\ Uses(req[r].op, Pc(r))
      BY <3>1 DEF InsertsBrand, Statement, Stands
    <3>3. req[r].op.kind = "createBrand"
      BY <3>2 DEF Uses, PromotionKinds
    <3>4. Creates(r, b)' /\ r \notin InFlight'
      BY <1>1, <3>1, <3>2, <3>3 DEF Creates
    <3> QED
      BY <2>1, <3>4
  <2> QED
    BY <2>1, <2>2, <2>3
<1>5. RacedIs'
  <2>1. raced' = raced
    BY DEF Statement
  <2> SUFFICES ASSUME NEW y \in raced
               PROVE  /\ y[1] \in Reqs /\ req'[y[1]] # Idle
                      /\ (y[2] \in Tours => req'[y[1]].op.at = y[2])
    BY <2>1 DEF RacedIs
  <2>2. y[1] \in Reqs /\ req[y[1]] # Idle /\ (y[2] \in Tours => req[y[1]].op.at = y[2])
    BY DEF Basics, RacedIs
  <2> QED
    BY <1>1, <2>2
<1>6. \A q \in Reqs : InHand(q)'
  <2>1. InHand(r)'
    BY HandRuns
  <2>2. ASSUME NEW q \in Reqs \ {r} PROVE InHand(q)'
    <3>1. InHand(q) /\ IInv /\ Control
      BY DEF Basics
    <3>2. ASSUME q \in InFlight
          PROVE  Stands(q) /\ req[q].op.at \in IF ForTour(q) THEN Tours ELSE Brands
      <4>1. Stands(q)
        BY <3>1, <3>2, Standing DEF InFlight
      <4> QED
        BY <4>1, OpsAssumption DEF Stands, ForTour
    <3> QED
      BY <1>1, <1>2, <3>1, <3>2, HandsStay
  <2> QED
    BY <2>1, <2>2
<1> QED
  BY <1>2, <1>4, <1>5, <1>6 DEF Basics

LEMMA StartBasics ==
  ASSUME Basics, NEW r \in Reqs, NEW op \in Ops, Starts(r, op), IInv', Control'
  PROVE  Basics'
<1>1. /\ r \notin InFlight /\ req[r] = Idle /\ req'[r].op = op /\ req'[r] # Idle
      /\ Pc(r)' = Begins(op) /\ r \in InFlight'
      /\ (op.kind \notin BrandKinds => req'[r].row = NewTour)
      /\ \A q \in Reqs \ {r} : Pc(q)' = Pc(q) /\ req'[q] = req[q]
      /\ UNCHANGED <<tours, stops, brands>>
  BY DEF Starts, InFlight, Idle
<1>2. /\ \A q \in Reqs \ {r} : q \in InFlight' <=> q \in InFlight
      /\ \A q \in Reqs : req[q] # Idle => q # r /\ req'[q] = req[q]
  BY <1>1 DEF InFlight
<1>3. BrandRows' /\ DOMAIN stops' = Tours /\ \A t \in Tours : KnownBrand(tours[t].brand)'
  BY <1>1 DEF Basics, BrandRows, KnownBrand
<1>4. Created'
  <2> SUFFICES ASSUME NEW b \in Brands
               PROVE  /\ (brands[b].exists =>
                            b \in DOMAIN Row0.brands
                               \/ \E q \in Reqs : Creates(q, b)' /\ q \notin InFlight')
                      /\ \A p, q \in Reqs : Creates(p, b)' /\ Creates(q, b)' => p = q
    BY <1>1 DEF Created
  <2>1. \A q \in Reqs : Creates(q, b) => Creates(q, b)' /\ (q \notin InFlight => q \notin InFlight')
    BY <1>1, <1>2 DEF Creates
  <2>2. \A q \in Reqs : Creates(q, b)' =>
                          Creates(q, b) \/ (q = r /\ \A p \in Reqs : ~Creates(p, b))
    BY <1>1 DEF Creates, Starts
  <2> QED
    BY <2>1, <2>2 DEF Basics, Created
<1>5. RacedIs'
  <2> SUFFICES ASSUME NEW y \in raced'
               PROVE  /\ y[1] \in Reqs /\ req'[y[1]] # Idle
                      /\ (y[2] \in Tours => req'[y[1]].op.at = y[2])
    BY DEF RacedIs
  <2>1. CASE y \in raced
    BY <1>2, <2>1 DEF Basics, RacedIs
  <2>2. CASE y \notin raced
    <3>1. /\ y[2] \in TouchedBy(op)
          /\ y[1] = r \/ (y[1] \in InFlight /\ y[2] \in TouchedBy(req[y[1]].op))
      BY <2>2 DEF Starts
    <3>2. CASE y[1] = r
      BY <1>1, <3>1, <3>2, TouchesTour DEF Basics
    <3>3. CASE y[1] \in InFlight /\ y[2] \in TouchedBy(req[y[1]].op)
      <4> DEFINE q == y[1]
      <4>1. q \in Reqs /\ IInv /\ Control /\ req[q].todo # <<>>
        BY <3>3 DEF InFlight, Basics
      <4>2. req[q].op \in Ops /\ req[q] # Idle
        BY <4>1, Standing DEF Stands
      <4> QED
        BY <1>2, <3>3, <4>1, <4>2, TouchesTour DEF Basics
    <3> QED
      BY <3>1, <3>2, <3>3
  <2> QED
    BY <2>1, <2>2
<1>6. \A q \in Reqs : InHand(q)'
  <2>1. InHand(r)'
    <3>1. Begins(op) \in {"itinerary", "insertBrand", "loadBrand", "load"}
      BY DEF Begins
    <3>2. Begins(op) = "itinerary" => op.kind = "create"
      BY DEF Begins
    <3>3. ~Loaded(r)' /\ ~Resolved(r)' /\ ~Saving(r)'
      BY <1>1, <3>1, <3>2 DEF Loaded, Resolved, Saving
    <3>4. ForTour(r)' => req'[r].row.brand = NoBrand
      BY <1>1, NewRows DEF ForTour
    <3> QED
      BY <3>3, <3>4 DEF InHand, KnownBrand
  <2>2. ASSUME NEW q \in Reqs \ {r} PROVE InHand(q)'
    <3>1. InHand(q) /\ IInv /\ Control
      BY DEF Basics
    <3>2. ASSUME q \in InFlight
          PROVE  Stands(q) /\ req[q].op.at \in IF ForTour(q) THEN Tours ELSE Brands
      <4>1. Stands(q)
        BY <3>1, <3>2, Standing DEF InFlight
      <4> QED
        BY <4>1, OpsAssumption DEF Stands, ForTour
    <3> QED
      BY <1>1, <3>1, <3>2, HandsStay
  <2> QED
    BY <2>1, <2>2
<1> QED
  BY <1>3, <1>4, <1>5, <1>6 DEF Basics

LEMMA BasicsStep ==
  ASSUME Basics, [Next]_vars
  PROVE  /\ Basics'
         /\ \/ UNCHANGED <<tours, stops, brands, req, raced, torn>>
            \/ \E r \in Reqs : Statement(r)
            \/ \E r \in Reqs, op \in Ops : Starts(r, op)
<1>1. IInv' /\ IInv /\ Control /\ BrandRows
  BY StepHolds DEF Basics
<1>2. CASE UNCHANGED vars
  <2>1. UNCHANGED <<tours, stops, brands, req, raced, torn>>
    BY <1>2 DEF vars
  <2>2. \A r \in Reqs : InHand(r)' <=> InHand(r)
    BY <2>1 DEF InHand, InFlight, ForTour, KnownBrand, Loaded, Resolved, Saving, Pc
  <2>3. /\ (Control' <=> Control) /\ (BrandRows' <=> BrandRows) /\ (Created' <=> Created)
        /\ (RacedIs' <=> RacedIs)
        /\ \A t \in Tours : KnownBrand(tours[t].brand)' <=> KnownBrand(tours[t].brand)
    BY <2>1 DEF Control, BrandRows, Created, Creates, InFlight, RacedIs, KnownBrand
  <2> QED
    BY <1>1, <2>1, <2>2, <2>3 DEF Basics
<1>3. ASSUME NEW r \in Reqs, TourStep(r) \/ BrandStep(r) \/ Fail(r) PROVE Statement(r) /\ Basics'
  <2>1. Statement(r) /\ IInv' /\ Control'
    BY <1>1, <1>3, Statements
  <2> QED
    BY <2>1, StatementBasics
<1>4. ASSUME NEW r \in Reqs, Start(r) PROVE Basics' /\ \E op \in Ops : Starts(r, op)
  <2>1. PICK op \in Ops : Starts(r, op) /\ Control'
    BY <1>1, <1>4, StartsHere
  <2> QED
    BY <1>1, <2>1, StartBasics
<1> QED
  BY <1>2, <1>3, <1>4 DEF Next, vars

LEMMA BasicsInit == Init => Basics
<1> SUFFICES ASSUME Init PROVE Basics
  OBVIOUS
<1>1. IInv
  BY InitHolds
<1>2. /\ \A r \in Reqs : req[r] = Idle /\ r \notin InFlight
      /\ raced = {} /\ DOMAIN stops = Tours
  BY DEF Init, InFlight, Idle
<1>3. /\ DOMAIN brands = Brands
      /\ \A b \in Brands : brands[b] = IF b \in DOMAIN Row0.brands THEN Row0.brands[b] ELSE NewBrand
      /\ \A t \in Tours : tours[t] = IF t \in DOMAIN Row0.tours THEN Row0.tours[t] ELSE NewTour
  BY DEF Init
<1>4. BrandRows
  BY <1>3, FirstRowsAssumption DEF BrandRows
<1>5. \A b \in Brands : brands[b].exists <=> b \in DOMAIN Row0.brands
  BY <1>3, NewRows, FirstRowsAssumption
<1>6. \A t \in Tours : KnownBrand(tours[t].brand)
  <2> SUFFICES ASSUME NEW t \in Tours PROVE KnownBrand(tours[t].brand)
    OBVIOUS
  <2>1. CASE t \in DOMAIN Row0.tours
    <3>1. tours[t].brand # NoBrand => tours[t].brand \in Brands \cap DOMAIN Row0.brands
      BY <1>3, <2>1, FirstRowsAssumption
    <3> QED
      BY <1>5, <3>1 DEF KnownBrand
  <2>2. CASE t \notin DOMAIN Row0.tours
    <3>1. tours[t].brand = NoBrand
      BY <1>3, <2>2, NewRows
    <3> QED
      BY <3>1 DEF KnownBrand
  <2> QED
    BY <2>1, <2>2
<1> QED
  BY <1>1, <1>2, <1>4, <1>5, <1>6 DEF Basics, Control, Created, Creates, RacedIs, InHand

-----------------------------------------------------------------------------
(* The stops of a tour.                                                    *)

\* What the rows of a list of stops give does not depend on who saves them.
LEMMA RowsOfStops ==
  ASSUME NEW it, 1 \in DOMAIN it, DOMAIN it \subseteq Nat, NEW r
  PROVE  /\ StopRows(r, it) # {}
         /\ \A a, b \in StopRows(r, it) : a.order = b.order => a = b
         /\ Derived(StopRows(r, it)) = Derived(StopRows(0, it))
<1> DEFINE StopOf(q, i) == [by |-> q, order |-> i - 1, city |-> it[i].city, venue |-> it[i].venue]
           FirstOf(q) == CHOOSE s \in StopRows(q, it) : s.order = 0
<1>1. \A q : StopRows(q, it) = {StopOf(q, i) : i \in DOMAIN it}
  BY DEF StopRows
<1>2. \A q, i : /\ StopOf(q, i).order = i - 1 /\ StopOf(q, i).city = it[i].city
                /\ StopOf(q, i).venue = it[i].venue
  OBVIOUS
<1>3. ASSUME NEW q PROVE FirstOf(q).city = it[1].city
  <2>1. StopOf(q, 1) \in StopRows(q, it) /\ StopOf(q, 1).order = 0
    BY <1>1
  <2>2. FirstOf(q) \in StopRows(q, it) /\ FirstOf(q).order = 0
    BY <2>1
  <2> HIDE DEF FirstOf
  <2>3. PICK i \in DOMAIN it : FirstOf(q) = StopOf(q, i)
    BY <1>1, <2>2
  <2>4. i - 1 = 0
    BY <1>2, <2>2, <2>3
  <2> QED
    BY <1>2, <2>3, <2>4
<1>4. ASSUME NEW q
      PROVE  /\ {s.venue : s \in StopRows(q, it)} = {it[i].venue : i \in DOMAIN it}
             /\ {s.city : s \in StopRows(q, it)} = {it[i].city : i \in DOMAIN it}
  <2>1. /\ \A s \in StopRows(q, it) : \E i \in DOMAIN it : s.venue = it[i].venue /\ s.city = it[i].city
        /\ \A i \in DOMAIN it : \E s \in StopRows(q, it) : s.venue = it[i].venue /\ s.city = it[i].city
    <3>1. StopRows(q, it) = {StopOf(q, i) : i \in DOMAIN it}
      BY <1>1
    <3> HIDE DEF StopOf
    <3> QED
      BY <1>2, <3>1
  <2>2. {s.venue : s \in StopRows(q, it)} = {it[i].venue : i \in DOMAIN it}
    <3>1. \A v \in {s.venue : s \in StopRows(q, it)} : v \in {it[i].venue : i \in DOMAIN it}
      BY <2>1
    <3>2. \A v \in {it[i].venue : i \in DOMAIN it} : v \in {s.venue : s \in StopRows(q, it)}
      BY <2>1
    <3> QED
      BY <3>1, <3>2
  <2>3. {s.city : s \in StopRows(q, it)} = {it[i].city : i \in DOMAIN it}
    <3>1. \A v \in {s.city : s \in StopRows(q, it)} : v \in {it[i].city : i \in DOMAIN it}
      BY <2>1
    <3>2. \A v \in {it[i].city : i \in DOMAIN it} : v \in {s.city : s \in StopRows(q, it)}
      BY <2>1
    <3> QED
      BY <3>1, <3>2
  <2> QED
    BY <2>2, <2>3
<1>5. StopRows(r, it) # {}
  <2>1. StopOf(r, 1) \in {StopOf(r, i) : i \in DOMAIN it}
    OBVIOUS
  <2> HIDE DEF StopOf
  <2> QED
    BY <1>1, <2>1
<1>6. ASSUME NEW a \in StopRows(r, it), NEW b \in StopRows(r, it), a.order = b.order
      PROVE  a = b
  <2>1. PICK i \in DOMAIN it, j \in DOMAIN it : a = StopOf(r, i) /\ b = StopOf(r, j)
    BY <1>1
  <2>2. i - 1 = j - 1
    BY <1>2, <1>6, <2>1
  <2>3. i = j
    BY <2>2
  <2> QED
    BY <2>1, <2>3
<1>7. Derived(StopRows(r, it)) = Derived(StopRows(0, it))
  <2>1. FirstOf(r).city = FirstOf(0).city
    BY <1>3
  <2>2. /\ {s.venue : s \in StopRows(r, it)} = {s.venue : s \in StopRows(0, it)}
        /\ {s.city : s \in StopRows(r, it)} = {s.city : s \in StopRows(0, it)}
    BY <1>4
  <2> QED
    BY <2>1, <2>2 DEF Derived, ScopeOf
<1> QED
  BY <1>5, <1>6, <1>7

LEMMA StopsOfBody ==
  ASSUME NEW op \in Ops, Given(op.stops), NEW r
  PROVE  /\ StopRows(r, op.stops) # {}
         /\ \A row : Same(row, Derived(StopRows(0, op.stops)), StopColumns)
                        => Matches(row, StopRows(r, op.stops))
<1>1. 1 \in DOMAIN op.stops /\ DOMAIN op.stops \subseteq Nat
  BY BodiesAssumption
<1>2. /\ StopRows(r, op.stops) # {}
      /\ \A a, b \in StopRows(r, op.stops) : a.order = b.order => a = b
      /\ Derived(StopRows(r, op.stops)) = Derived(StopRows(0, op.stops))
  BY <1>1, RowsOfStops
<1> QED
  BY <1>2 DEF Matches, Same, StopColumns

\* One request runs, the others stay where they are.
LEMMA OneRuns ==
  ASSUME Basics, NEW r \in Reqs, Statement(r)
  PROVE  /\ r \in InFlight /\ req'[r].op = req[r].op /\ (r \in InFlight' <=> Pc(r)' # "end")
         /\ req[r].op \in Ops /\ Uses(req[r].op, Pc(r))
         /\ \A q \in Reqs \ {r} : /\ req'[q] = req[q] /\ Pc(q)' = Pc(q)
                                  /\ (q \in InFlight' <=> q \in InFlight)
         /\ \A x : On(x)' = IF req[r].op.at = x /\ Pc(r)' = "end" THEN On(x) \ {r} ELSE On(x)
<1>1. /\ r \in InFlight /\ req'[r].op = req[r].op /\ (r \in InFlight' <=> Pc(r)' # "end")
      /\ req[r].op \in Ops /\ Uses(req[r].op, Pc(r))
      /\ \A q \in Reqs \ {r} : /\ req'[q] = req[q] /\ Pc(q)' = Pc(q)
                               /\ (q \in InFlight' <=> q \in InFlight)
  BY Advances DEF Basics, Statement, Stands, Proceeds
<1>2. InFlight \subseteq Reqs /\ InFlight' \subseteq Reqs
  BY DEF InFlight
<1>3. \A x : On(x)' = IF req[r].op.at = x /\ Pc(r)' = "end" THEN On(x) \ {r} ELSE On(x)
  <2> SUFFICES ASSUME NEW x
               PROVE  On(x)' = IF req[r].op.at = x /\ Pc(r)' = "end" THEN On(x) \ {r} ELSE On(x)
    OBVIOUS
  <2>1. On(x)' = {q \in InFlight' : req'[q].op.at = x}
    BY DEF On
  <2> QED
    BY <1>1, <1>2, <2>1 DEF On
<1> QED
  BY <1>1, <1>3

\* What a statement does to a tour it is not for, and to stops.
LEMMA StopsChange ==
  ASSUME Basics, NEW r \in Reqs, Statement(r), NEW t \in Tours
  PROVE  /\ torn \subseteq torn' /\ torn' \subseteq torn \cup {req[r].op.at}
         /\ stops'[t] = stops[t]
              \/ (req[r].op.at = t /\ ForTour(r) /\ (Deletes(r) \/ Writes(r) \/ Inserts(r)))
         /\ (req[r].op.at = t /\ ForTour(r))
              \/ (Same(tours'[t], tours[t], {"exists"} \cup StopColumns) /\ stops'[t] = stops[t])
<1> DEFINE at == req[r].op.at
<1>1. DOMAIN stops = Tours
  BY DEF Basics
<1>2. torn \subseteq torn' /\ torn' \subseteq torn \cup {at}
  BY DEF Statement, TourEffect, BrandEffect, Loads, GetsBrand, GetsStops, GetsSlug, Deletes,
     Reloads, Writes, Inserts, SoftDeletes, Ends, InsertsBrand, LoadsBrand, ReloadsBrand, WritesBrand,
     Syncs, Unstamps, SoftDeletesBrand
<1>3. stops'[t] = stops[t] \/ (at = t /\ ForTour(r) /\ (Deletes(r) \/ Writes(r) \/ Inserts(r)))
  <2>1. UNCHANGED stops \/ (ForTour(r) /\ (Deletes(r) \/ Writes(r) \/ Inserts(r)))
    BY DEF Statement, TourEffect, BrandEffect, Loads, GetsBrand, GetsStops, GetsSlug,
       Reloads, SoftDeletes, Ends, InsertsBrand, LoadsBrand, ReloadsBrand, WritesBrand, Syncs,
       Unstamps, SoftDeletesBrand
  <2>2. Deletes(r) \/ Writes(r) \/ Inserts(r) => at = t \/ stops'[t] = stops[t]
    BY <1>1 DEF Deletes, Writes, Inserts
  <2> QED
    BY <2>1, <2>2
<1>4. (at = t /\ ForTour(r)) \/ Same(tours'[t], tours[t], {"exists"} \cup StopColumns)
  <2>1. \/ UNCHANGED tours
        \/ ForTour(r) /\ OnlyTour(at)
        \/ \E b, provider : Stamps(b, provider)
    BY DEF Statement, TourEffect, BrandEffect, Loads, GetsBrand, GetsStops, GetsSlug, Deletes,
       Reloads, Writes, Inserts, SoftDeletes, Ends, InsertsBrand, LoadsBrand, ReloadsBrand,
       WritesBrand, Syncs, Unstamps, SoftDeletesBrand
  <2>2. UNCHANGED tours \/ (ForTour(r) /\ OnlyTour(at))
           => (at = t /\ ForTour(r)) \/ Same(tours'[t], tours[t], {"exists"} \cup StopColumns)
    BY DEF OnlyTour, Same
  <2>3. ASSUME NEW b, NEW provider, Stamps(b, provider)
        PROVE  Same(tours'[t], tours[t], {"exists"} \cup StopColumns)
    BY <2>3 DEF Stamps, Same, Copied, StopColumns, BrandColumns
  <2> QED
    BY <2>1, <2>2, <2>3
<1> QED
  BY <1>2, <1>3, <1>4

-----------------------------------------------------------------------------
(* A tour without stops is one that a request is saving.                   *)

BeingSaved ==
    \A t \in Tours : tours[t].exists /\ stops[t] = {} /\ t \notin torn => \E r \in On(t) : Emptied(r)

\* A tour that is not there appears by its insert.
LEMMA Appears ==
  ASSUME Basics, NEW r \in Reqs, Statement(r), NEW t \in Tours, tours'[t].exists, ~tours[t].exists
  PROVE  Inserts(r) /\ req[r].op.at = t
<1>1. req[r].op.at = t /\ ForTour(r)
  BY StopsChange DEF Same
<1>2. ~Writes(r)
  <2>1. Writes(r) => Loaded(r)
    BY OneRuns DEF Writes, Loaded, Uses, PromotionKinds
  <2> QED
    BY <1>1, <2>1, OneRuns DEF Basics, InHand
<1>3. Inserts(r) \/ SoftDeletes(r) \/ tours' = tours
  BY <1>1, <1>2 DEF Statement, TourEffect, Loads, GetsBrand, GetsStops, GetsSlug, Deletes,
     Reloads, Ends
<1>4. ~SoftDeletes(r)
  BY <1>1 DEF SoftDeletes, Same, Copied
<1> QED
  BY <1>1, <1>3, <1>4

LEMMA SavedRuns ==
  ASSUME Basics, BeingSaved, NEW r \in Reqs, Statement(r)
  PROVE  BeingSaved'
<1> DEFINE at == req[r].op.at
           op == req[r].op
<1> SUFFICES ASSUME NEW t \in Tours, tours'[t].exists, stops'[t] = {}, t \notin torn'
             PROVE  \E q \in On(t)' : Emptied(q)'
  BY DEF BeingSaved
<1>0. /\ r \in InFlight /\ req'[r].op = op /\ op \in Ops /\ Uses(op, Pc(r))
      /\ \A q \in Reqs \ {r} : req'[q] = req[q] /\ Pc(q)' = Pc(q)
      /\ On(t)' = IF at = t /\ Pc(r)' = "end" THEN On(t) \ {r} ELSE On(t)
      /\ DOMAIN stops = Tours
  BY OneRuns DEF Basics
<1>1. t \notin torn /\ On(t) \subseteq Reqs
  BY StopsChange DEF On, InFlight
<1>2. Given(op.stops) => StopRows(r, op.stops) # {}
  BY <1>0, StopsOfBody
<1>3. tours[t].exists
  <2>1. Inserts(r) => Given(op.stops)
    BY <1>0, BodiesAssumption DEF Inserts, Uses, PromotionKinds
  <2>2. ~(Inserts(r) /\ at = t)
    BY <1>0, <1>2, <2>1 DEF Inserts
  <2> QED
    BY <2>2, Appears
<1>4. CASE stops[t] = {}
  <2>1. PICK q \in On(t) : Emptied(q)
    BY <1>1, <1>3, <1>4 DEF BeingSaved
  <2>2. CASE q # r
    <3>1. q \in On(t)' /\ Emptied(q)'
      BY <1>0, <1>1, <2>1, <2>2 DEF Emptied
    <3> QED
      BY <3>1
  <2>3. CASE q = r
    <3>1. at = t /\ Pc(r) \in {"reload", "write"} /\ Given(op.stops)
      BY <2>1, <2>3 DEF On, Emptied
    <3>2. Reloads(r) \/ Writes(r) \/ Ends(r)
      BY <3>1 DEF Statement, TourEffect, BrandEffect, Loads, GetsBrand, GetsStops, GetsSlug, Deletes,
         Inserts, SoftDeletes, InsertsBrand, LoadsBrand, ReloadsBrand, WritesBrand, Syncs, Unstamps,
         SoftDeletesBrand
    <3>3. ~Ends(r)
      BY <2>1, <2>3, <3>1 DEF Ends
    <3>4. ~Writes(r)
      BY <1>0, <1>2, <3>1 DEF Writes
    <3>5. Pc(r)' = "write" /\ r \in On(t)'
      BY <1>0, <2>3, <3>2, <3>3, <3>4 DEF Reloads
    <3> QED
      BY <1>0, <3>1, <3>5 DEF Emptied
  <2> QED
    BY <2>2, <2>3
<1>5. CASE stops[t] # {}
  <2>1. at = t /\ (Deletes(r) \/ Writes(r) \/ Inserts(r))
    BY <1>5, StopsChange
  <2>2. ~Writes(r)
    BY <1>0, <1>5, <2>1 DEF Writes
  <2>3. ~Inserts(r)
    <3>1. Inserts(r) => Given(op.stops)
      BY <1>0, BodiesAssumption DEF Inserts, Uses, PromotionKinds
    <3> QED
      BY <1>0, <1>2, <2>1, <3>1 DEF Inserts
  <2>4. Pc(r) = "delete" /\ Pc(r)' = "reload"
    BY <2>1, <2>2, <2>3 DEF Deletes
  <2>5. Given(op.stops)
    BY <1>0, <2>4 DEF Uses, PromotionKinds
  <2>6. r \in On(t)'
    BY <1>0, <2>1, <2>4 DEF On
  <2> QED
    BY <1>0, <2>4, <2>5, <2>6 DEF Emptied
<1> QED
  BY <1>4, <1>5

\* Those in flight stay where they are when a request begins.
LEMMA OneStarts ==
  ASSUME Basics, NEW r \in Reqs, NEW op \in Ops, Starts(r, op)
  PROVE  /\ r \notin InFlight /\ req'[r].op = op /\ r \in InFlight'
         /\ Pc(r)' \in {"itinerary", "insertBrand", "loadBrand", "load"}
         /\ (Pc(r)' = "itinerary" => op.kind = "create")
         /\ \A q \in Reqs \ {r} : /\ req'[q] = req[q] /\ Pc(q)' = Pc(q)
                                  /\ (q \in InFlight' <=> q \in InFlight)
         /\ \A x : On(x)' = IF op.at = x THEN On(x) \cup {r} ELSE On(x)
         /\ UNCHANGED <<tours, stops, brands, torn>>
<1>1. /\ r \notin InFlight /\ req'[r].op = op /\ Pc(r)' = Begins(op) /\ r \in InFlight'
      /\ \A q \in Reqs \ {r} : req'[q] = req[q] /\ Pc(q)' = Pc(q)
      /\ UNCHANGED <<tours, stops, brands, torn>>
  BY DEF Starts, InFlight, Idle
<1>2. \A q \in Reqs \ {r} : q \in InFlight' <=> q \in InFlight
  BY <1>1 DEF InFlight
<1>3. /\ Begins(op) \in {"itinerary", "insertBrand", "loadBrand", "load"}
      /\ (Begins(op) = "itinerary" => op.kind = "create")
  BY DEF Begins
<1>4. InFlight \subseteq Reqs /\ InFlight' \subseteq Reqs
  BY DEF InFlight
<1>5. \A x : On(x)' = IF op.at = x THEN On(x) \cup {r} ELSE On(x)
  <2> SUFFICES ASSUME NEW x PROVE On(x)' = IF op.at = x THEN On(x) \cup {r} ELSE On(x)
    OBVIOUS
  <2>1. On(x)' = {q \in InFlight' : req'[q].op.at = x}
    BY DEF On
  <2> QED
    BY <1>1, <1>2, <1>4, <2>1 DEF On
<1> QED
  BY <1>1, <1>2, <1>3, <1>5

LEMMA SavedStarts ==
  ASSUME Basics, BeingSaved, NEW r \in Reqs, NEW op \in Ops, Starts(r, op)
  PROVE  BeingSaved'
<1>1. /\ r \notin InFlight /\ UNCHANGED <<tours, stops, torn>>
      /\ \A q \in Reqs \ {r} : req'[q] = req[q] /\ Pc(q)' = Pc(q)
      /\ \A x : On(x) \subseteq On(x)' /\ On(x) \subseteq Reqs \ {r}
  BY OneStarts DEF On, InFlight
<1>2. \A x : \A q \in On(x) : q \in On(x)' /\ (Emptied(q) => Emptied(q)')
  BY <1>1 DEF Emptied
<1> QED
  BY <1>1, <1>2 DEF BeingSaved

LEMMA SavedHolds ==
  /\ Init => BeingSaved
  /\ Basics /\ BeingSaved /\ [Next]_vars => BeingSaved'
  /\ BeingSaved => ItinerariesSurvive
<1>1. ASSUME Init PROVE BeingSaved
  <2> SUFFICES ASSUME NEW t \in Tours, tours[t].exists PROVE stops[t] # {}
    BY DEF BeingSaved
  <2>1. t \in DOMAIN Row0.tours /\ tours[t] = Row0.tours[t] /\ stops[t] = Row0.stops
    BY <1>1, NewRows DEF Init
  <2> QED
    BY <2>1, FirstRowsAssumption
<1>2. ASSUME Basics, BeingSaved, [Next]_vars PROVE BeingSaved'
  <2>1. CASE UNCHANGED <<tours, stops, brands, req, raced, torn>>
    BY <1>2, <2>1 DEF BeingSaved, On, InFlight, Emptied, Pc
  <2> QED
    BY <1>2, <2>1, BasicsStep, SavedRuns, SavedStarts
<1>3. ASSUME BeingSaved PROVE ItinerariesSurvive
  <2> SUFFICES ASSUME NEW t \in Tours, AtRest(t) PROVE On(t) = {}
    BY <1>3 DEF BeingSaved, ItinerariesSurvive
  <2>1. \A r \in On(t) : t \in TouchedBy(req[r].op)
    BY BodiesAssumption DEF On, TouchedBy
  <2> QED
    BY <2>1 DEF AtRest, On
<1> QED
  BY <1>1, <1>2, <1>3

\* A tour has stops again once its requests have ended, however many of them
\* overlapped, unless one of them failed between the deletion of the stops and
\* the save that inserts the new ones.
THEOREM ItinerariesAreSaved == Spec => []ItinerariesSurvive
<1>1. Init => Basics /\ BeingSaved
  BY BasicsInit, SavedHolds
<1>2. Basics /\ BeingSaved /\ [Next]_vars => (Basics /\ BeingSaved)'
  BY BasicsStep, SavedHolds
<1>3. Basics /\ BeingSaved => ItinerariesSurvive
  BY SavedHolds
<1> QED
  BY <1>1, <1>2, <1>3, PTL DEF Spec

-----------------------------------------------------------------------------
(* The columns of a tour whose edits follow one another.                   *)

Alone(x) == \A q, r \in On(x) : q = r

\* The row a request on a tour has in hand, and the row of the tour.
InStep(t, r) ==
    /\ (Loaded(r) /\ ~Resolved(r) => Same(req[r].row, tours[t], StopColumns))
    /\ (Pc(r) = "write" => Same(req[r].seen, tours[t], StopColumns))
    /\ (Emptied(r) => stops[t] = {})

Whole(t) == tours[t].exists /\ t \notin torn /\ (\A r \in On(t) : ~Emptied(r))
               => Matches(tours[t], stops[t])

KeptDerived(t) == ~Raced(t) => Alone(t) /\ (\A r \in On(t) : InStep(t, r)) /\ Whole(t)

\* Nothing of a tour changes while a request on another thing runs.
LEMMA ElsewhereStays ==
  ASSUME Basics, NEW t \in Tours, KeptDerived(t), ~Raced(t),
         Same(tours'[t], tours[t], {"exists"} \cup StopColumns), stops'[t] = stops[t],
         t \in torn => t \in torn', On(t)' = On(t),
         \A q \in On(t) : req'[q] = req[q] /\ Pc(q)' = Pc(q)
  PROVE  Alone(t)' /\ (\A r \in On(t)' : InStep(t, r)') /\ Whole(t)'
<1>1. Alone(t) /\ (\A r \in On(t) : InStep(t, r)) /\ Whole(t)
  BY DEF KeptDerived
<1>2. Alone(t)'
  BY <1>1 DEF Alone
<1>3. tours'[t].exists = tours[t].exists /\ Same(tours'[t], tours[t], StopColumns)
  BY DEF Same
<1>4. \A q \in On(t) : /\ (Loaded(q)' <=> Loaded(q)) /\ (Resolved(q)' <=> Resolved(q))
                       /\ (Emptied(q)' <=> Emptied(q))
  BY DEF Loaded, Resolved, Emptied
<1>5. ASSUME NEW q \in On(t) PROVE InStep(t, q)'
  BY <1>1, <1>3, <1>4 DEF InStep, Same
<1>6. Whole(t)'
  <2>1. Matches(tours[t], stops[t]) => Matches(tours'[t], stops'[t])
    BY <1>3 DEF Matches, Same, StopColumns
  <2> QED
    BY <1>1, <1>3, <1>4, <2>1 DEF Whole
<1> QED
  BY <1>2, <1>5, <1>6

LEMMA DerivedRuns ==
  ASSUME Basics, NEW t \in Tours, KeptDerived(t), NEW r \in Reqs, Statement(r)
  PROVE  KeptDerived(t)'
<1> DEFINE at == req[r].op.at
           op == req[r].op
           row == req'[r].row
<1> SUFFICES ASSUME ~Raced(t)
             PROVE  Alone(t)' /\ (\A q \in On(t)' : InStep(t, q)') /\ Whole(t)'
  BY DEF KeptDerived, Raced, Statement
<1>0. /\ r \in InFlight /\ req'[r].op = op /\ op \in Ops /\ Uses(op, Pc(r))
      /\ \A q \in Reqs \ {r} : req'[q] = req[q] /\ Pc(q)' = Pc(q)
      /\ On(t)' = IF at = t /\ Pc(r)' = "end" THEN On(t) \ {r} ELSE On(t)
      /\ DOMAIN stops = Tours /\ On(t) \subseteq Reqs
  BY OneRuns DEF Basics, On, InFlight
<1>1. /\ torn \subseteq torn'
      /\ (at = t /\ ForTour(r))
           \/ (Same(tours'[t], tours[t], {"exists"} \cup StopColumns) /\ stops'[t] = stops[t])
  BY StopsChange
<1>2. Alone(t) /\ (\A q \in On(t) : InStep(t, q)) /\ Whole(t)
  BY DEF KeptDerived
<1>3. CASE ~(at = t /\ ForTour(r))
  <2>1. at # t
    <3>1. ForTour(r) \/ at \in Brands
      BY DEF Statement
    <3> QED
      BY <1>3, <3>1, OpsAssumption
  <2>2. r \notin On(t)
    BY <2>1 DEF On
  <2> QED
    BY <1>0, <1>1, <1>3, <2>1, <2>2, ElsewhereStays
<1>4. CASE at = t /\ ForTour(r)
  <2>1. On(t) = {r} /\ On(t)' = (IF Pc(r)' = "end" THEN {} ELSE {r}) /\ Alone(t)'
    BY <1>0, <1>2, <1>4 DEF On, Alone
  <2>2. InStep(t, r) /\ InHand(r) /\ IInv
    BY <1>2, <2>1 DEF Basics
  <2>3. (tours[t].exists /\ t \notin torn /\ ~Emptied(r)) => Matches(tours[t], stops[t])
    BY <1>2, <2>1 DEF Whole
  <2>4. TourEffect(r)
    BY <1>4 DEF Statement
  <2>5. SUFFICES /\ (Pc(r)' # "end" => InStep(t, r)')
                 /\ (tours'[t].exists /\ t \notin torn' /\ (Pc(r)' # "end" => ~Emptied(r)')
                        => Matches(tours'[t], stops'[t]))
    BY <2>1 DEF Whole
  <2>6. (Given(op.stops) => op.kind \in {"create", "update"}) /\ (op.kind = "create" => Given(op.stops))
    BY <1>0, BodiesAssumption
  <2>7. /\ (Loaded(r) => tours[t].exists)
        /\ (Resolved(r) => Same(req[r].row, Derived(StopRows(0, op.stops)), StopColumns))
    BY <1>0, <1>4, <2>2 DEF InHand
  <2>8. Given(op.stops) =>
           \A x : Same(x, Derived(StopRows(0, op.stops)), StopColumns)
                     => Matches(x, StopRows(r, op.stops))
    BY <1>0, StopsOfBody
  <2>9. \A x, y, rows : Same(x, y, StopColumns) /\ Matches(y, rows) => Matches(x, rows)
    BY DEF Same, StopColumns, Matches
  <2> HIDE DEF at, op, row
  <2>10. CASE Ends(r)
    <3>1. Emptied(r) => t \in torn'
      BY <1>4, <2>10 DEF Ends, at, op
    <3> QED
      BY <1>1, <2>3, <2>10, <3>1 DEF Ends
  <2>11. CASE Loads(r)
    <3>1. Pc(r)' = AfterLoad(op) /\ op.kind # "create" /\ ~Emptied(r)
      BY <1>0, <2>11 DEF Loads, Uses, PromotionKinds, Emptied, op
    <3>2. ~Emptied(r)' /\ Pc(r)' # "write"
      BY <1>0, <2>6, <3>1 DEF Emptied, AfterLoad, Uses, op
    <3>3. Same(req'[r].row, tours'[t], StopColumns)
      BY <1>4, <2>11 DEF Loads, Same, Copied, at, op
    <3>4. InStep(t, r)'
      BY <3>2, <3>3 DEF InStep
    <3> QED
      BY <2>3, <2>11, <3>1, <3>4 DEF Loads
  <2>12. CASE GetsBrand(r)
    <3>1. ~Emptied(r) /\ ~Emptied(r)' /\ Pc(r)' # "write"
      BY <1>0, <2>12 DEF GetsBrand, Emptied, After, op
    <3>2. Loaded(r)' /\ ~Resolved(r)' => Loaded(r) /\ ~Resolved(r)
      BY <1>0, <2>12 DEF GetsBrand, Loaded, Resolved, op
    <3>3. Same(req'[r].row, req[r].row, StopColumns) /\ UNCHANGED <<tours, stops, torn>>
      BY <2>12 DEF GetsBrand, Same
    <3>4. Loaded(r)' /\ ~Resolved(r)' => Same(req'[r].row, tours'[t], StopColumns)
      BY <2>2, <3>2, <3>3 DEF InStep, Same
    <3>5. InStep(t, r)'
      BY <3>1, <3>4 DEF InStep
    <3> QED
      BY <2>3, <3>1, <3>3, <3>5
  <2>13. CASE GetsStops(r)
    <3>1. ~Emptied(r) /\ ~Emptied(r)' /\ Pc(r)' # "write" /\ UNCHANGED <<tours, stops, torn>>
      BY <1>0, <2>13 DEF GetsStops, Emptied, After, op
    <3>2. Loaded(r)' => Resolved(r)'
      BY <1>0, <2>13 DEF GetsStops, Loaded, Resolved, After, Uses, PromotionKinds, op
    <3>3. InStep(t, r)'
      BY <3>1, <3>2 DEF InStep
    <3> QED
      BY <2>3, <3>1, <3>3
  <2>14. CASE GetsSlug(r)
    <3>1. /\ ~Emptied(r) /\ ~Emptied(r)' /\ Pc(r)' # "write" /\ ~Loaded(r)'
          /\ UNCHANGED <<tours, stops, torn>>
      BY <1>0, <2>14 DEF GetsSlug, Emptied, Loaded, op
    <3> QED
      BY <2>3, <3>1 DEF InStep
  <2>15. CASE Deletes(r)
    <3>1. Given(op.stops) /\ Pc(r)' = "reload" /\ stops'[t] = {}
      BY <1>0, <1>4, <2>15 DEF Deletes, Uses, PromotionKinds, at, op
    <3>2. Loaded(r)' => Resolved(r)'
      BY <1>0, <3>1 DEF Loaded, Resolved, op
    <3>3. Emptied(r)'
      BY <1>0, <3>1 DEF Emptied, op
    <3> QED
      BY <3>1, <3>2, <3>3 DEF InStep
  <2>16. CASE Reloads(r)
    <3>1. /\ Pc(r) = "reload" /\ Pc(r)' = "write" /\ UNCHANGED <<tours, stops, torn>>
          /\ req'[r].row = req[r].row /\ req'[r].seen = tours[t]
      BY <1>4, <2>16 DEF Reloads, at, op
    <3>2. /\ (Loaded(r)' <=> Loaded(r)) /\ (Resolved(r)' <=> Resolved(r))
          /\ (Emptied(r)' <=> Emptied(r))
      BY <1>0, <2>6, <3>1 DEF Loaded, Resolved, Emptied, op
    <3>3. InStep(t, r)'
      BY <2>2, <3>1, <3>2 DEF InStep, Same
    <3> QED
      BY <2>3, <3>1, <3>2, <3>3
  <2>17. CASE Writes(r)
    <3>1. Pc(r) = "write" /\ Pc(r)' \in {"unlink", "end"} /\ UNCHANGED torn
      BY <2>17 DEF Writes
    <3>2. InStep(t, r)'
      BY <3>1 DEF InStep, Loaded, Emptied
    <3>3. Same(tours'[t], req[r].row, StopColumns)
      <4> DEFINE saved == SaveDiff(req[r].row, req[r].seen, tours[t])
      <4>1. Same(tours'[t], saved, Copied)
        BY <1>4, <2>17 DEF Writes, at, op
      <4>2. DOMAIN tours[t] = Columns /\ StopColumns \subseteq Columns
        BY <2>2 DEF IInv, RowsAre, Columns, NewTour, StopColumns
      <4>3. Same(req[r].seen, tours[t], StopColumns)
        BY <2>2, <3>1 DEF InStep
      <4>4. Same(saved, req[r].row, StopColumns)
        BY <4>2, <4>3 DEF SaveDiff, Same
      <4> HIDE DEF saved
      <4> QED
        BY <4>1, <4>4 DEF Same, Copied
    <3>4. CASE Given(op.stops)
      <4>1. Emptied(r)
        BY <3>1, <3>4 DEF Emptied, op
      <4>2. stops[t] = {}
        BY <2>2, <4>1 DEF InStep
      <4>3. stops'[t] = StopRows(r, op.stops)
        BY <1>0, <1>4, <2>17, <3>4, <4>2 DEF Writes, at, op
      <4>4. Resolved(r)
        BY <1>0, <3>1, <3>4 DEF Resolved, Uses, PromotionKinds, op
      <4> QED
        BY <2>7, <2>8, <2>9, <3>2, <3>3, <3>4, <4>3, <4>4 DEF Same
    <3>5. CASE ~Given(op.stops)
      <4>1. Loaded(r) /\ ~Resolved(r) /\ ~Emptied(r)
        BY <1>0, <2>6, <3>1, <3>5 DEF Loaded, Resolved, Emptied, op, Uses, PromotionKinds
      <4>2. Same(req[r].row, tours[t], StopColumns) /\ tours[t].exists
        BY <2>2, <2>7, <4>1 DEF InStep
      <4>3. stops'[t] = stops[t]
        BY <1>0, <1>4, <2>17, <3>5 DEF Writes, at, op
      <4>4. Same(tours'[t], tours[t], StopColumns)
        BY <3>3, <4>2 DEF Same
      <4> QED
        BY <2>3, <2>9, <3>1, <3>2, <4>1, <4>2, <4>3, <4>4
    <3> QED
      BY <3>4, <3>5
  <2>18. CASE Inserts(r)
    <3>1. Pc(r) = "insert" /\ Pc(r)' = "end" /\ op.kind = "create" /\ Resolved(r)
      BY <1>0, <2>18 DEF Inserts, Uses, PromotionKinds, Resolved, op
    <3>2. Same(tours'[t], req[r].row, StopColumns) /\ stops'[t] = StopRows(r, op.stops)
      BY <1>0, <1>4, <2>18 DEF Inserts, Same, at, op
    <3>3. Same(tours'[t], Derived(StopRows(0, op.stops)), StopColumns)
      BY <2>7, <3>1, <3>2 DEF Same
    <3> QED
      BY <2>6, <2>8, <3>1, <3>2, <3>3
  <2>19. CASE SoftDeletes(r)
    <3>1. Pc(r)' = "end" /\ ~Emptied(r) /\ UNCHANGED <<stops, torn>>
      BY <2>19 DEF SoftDeletes, Emptied
    <3>2. Same(tours'[t], tours[t], StopColumns) /\ tours'[t].exists = tours[t].exists
      BY <1>4, <2>19 DEF SoftDeletes, Same, Copied, at, op
    <3> QED
      BY <2>3, <2>9, <3>1, <3>2
  <2> QED
    BY <2>4, <2>10, <2>11, <2>12, <2>13, <2>14, <2>15, <2>16, <2>17, <2>18, <2>19 DEF TourEffect
<1> QED
  BY <1>3, <1>4

LEMMA DerivedStarts ==
  ASSUME Basics, NEW t \in Tours, KeptDerived(t), NEW r \in Reqs, NEW op \in Ops, Starts(r, op)
  PROVE  KeptDerived(t)'
<1> SUFFICES ASSUME ~Raced(t)'
             PROVE  Alone(t)' /\ (\A q \in On(t)' : InStep(t, q)') /\ Whole(t)'
  BY DEF KeptDerived
<1>1. /\ r \notin InFlight /\ req'[r].op = op
      /\ Pc(r)' \in {"itinerary", "insertBrand", "loadBrand", "load"}
      /\ (Pc(r)' = "itinerary" => op.kind = "create")
      /\ \A q \in Reqs \ {r} : req'[q] = req[q] /\ Pc(q)' = Pc(q)
      /\ On(t)' = IF op.at = t THEN On(t) \cup {r} ELSE On(t)
      /\ On(t) \subseteq Reqs \ {r}
      /\ UNCHANGED <<tours, stops, torn>>
  BY OneStarts DEF On, InFlight
<1>2. ~Raced(t)
  BY DEF Raced, Starts
<1>3. Alone(t) /\ (\A q \in On(t) : InStep(t, q)) /\ Whole(t)
  BY <1>2 DEF KeptDerived
<1>4. op.at = t => On(t) = {}
  <2> SUFFICES ASSUME op.at = t, NEW q \in On(t) PROVE FALSE
    OBVIOUS
  <2>1. t \in TouchedBy(op) /\ t \in TouchedBy(req[q].op) /\ q \in InFlight
    BY BodiesAssumption DEF TouchedBy, On
  <2>2. <<q, t>> \in raced'
    BY <2>1 DEF Starts
  <2> QED
    BY <2>2 DEF Raced
<1>5. ~Loaded(r)' /\ Pc(r)' # "write" /\ ~Emptied(r)'
  BY <1>1 DEF Loaded, Emptied
<1>6. \A q \in On(t) : /\ (Loaded(q)' <=> Loaded(q)) /\ (Resolved(q)' <=> Resolved(q))
                       /\ (Emptied(q)' <=> Emptied(q)) /\ req'[q] = req[q] /\ Pc(q)' = Pc(q)
  BY <1>1 DEF Loaded, Resolved, Emptied
<1>7. ASSUME NEW q \in On(t) PROVE InStep(t, q)'
  BY <1>1, <1>3, <1>6, <1>7 DEF InStep
<1>8. InStep(t, r)'
  BY <1>5 DEF InStep
<1>9. Alone(t)'
  BY <1>1, <1>3, <1>4 DEF Alone
<1>10. Whole(t)'
  BY <1>1, <1>3, <1>4, <1>5, <1>6 DEF Whole
<1> QED
  BY <1>1, <1>7, <1>8, <1>9, <1>10

LEMMA DerivedHolds ==
  /\ Init => \A t \in Tours : KeptDerived(t)
  /\ Basics /\ (\A t \in Tours : KeptDerived(t)) /\ [Next]_vars => (\A t \in Tours : KeptDerived(t))'
  /\ (\A t \in Tours : KeptDerived(t)) => DerivedFromStops
<1>1. ASSUME Init, NEW t \in Tours PROVE KeptDerived(t)
  <2>1. On(t) = {}
    BY <1>1 DEF Init, On, InFlight, Idle
  <2>2. ASSUME tours[t].exists PROVE Matches(tours[t], stops[t])
    <3>1. t \in DOMAIN Row0.tours /\ tours[t] = Row0.tours[t] /\ stops[t] = Row0.stops
      BY <1>1, <2>2, NewRows DEF Init
    <3> QED
      BY <2>2, <3>1, FirstRowsAssumption
  <2> QED
    BY <2>1, <2>2 DEF KeptDerived, Alone, Whole
<1>2. ASSUME Basics, [Next]_vars, NEW t \in Tours, KeptDerived(t) PROVE KeptDerived(t)'
  <2>1. CASE UNCHANGED <<tours, stops, brands, req, raced, torn>>
    BY <1>2, <2>1 DEF KeptDerived, Raced, Alone, InStep, Whole, On, InFlight, Loaded, Resolved,
                      Emptied, Pc
  <2> QED
    BY <1>2, <2>1, BasicsStep, DerivedRuns, DerivedStarts
<1>3. ASSUME \A t \in Tours : KeptDerived(t) PROVE DerivedFromStops
  <2> SUFFICES ASSUME NEW t \in Tours, AtRest(t) PROVE On(t) = {}
    BY <1>3 DEF KeptDerived, Whole, DerivedFromStops
  <2>1. \A r \in On(t) : t \in TouchedBy(req[r].op)
    BY BodiesAssumption DEF On, TouchedBy
  <2> QED
    BY <2>1 DEF AtRest, On
<1> QED
  BY <1>1, <1>2, <1>3

\* The city, the venues and the scope of a tour whose edits followed one another
\* are those of its stops, one at each position.
THEOREM ColumnsAreDerived == Spec => []DerivedFromStops
<1>1. Init => Basics /\ \A t \in Tours : KeptDerived(t)
  BY BasicsInit, DerivedHolds
<1>2. Basics /\ (\A t \in Tours : KeptDerived(t)) /\ [Next]_vars
         => (Basics /\ \A t \in Tours : KeptDerived(t))'
  BY BasicsStep, DerivedHolds
<1>3. Basics /\ (\A t \in Tours : KeptDerived(t)) => DerivedFromStops
  BY DerivedHolds
<1> QED
  BY <1>1, <1>2, <1>3, PTL DEF Spec

-----------------------------------------------------------------------------
(* A brand whose edits follow one another.                                 *)

BrandFields == DOMAIN NewBrand

\* The row a request on a brand has in hand, and the row of the brand.
SavingInStep(b, s) ==
    /\ (Saving(s) => ~brands[b].deleted /\ ~req[s].row.deleted /\ BrandRow(req[s].row))
    /\ (Pc(s) = "writeBrand" => Same(req[s].seen, brands[b], BrandFields))
    /\ (Pc(s) = "sync" => req[s].row = brands[b])

KeptBrand(b) == ~Raced(b) => Alone(b) /\ \A s \in On(b) : SavingInStep(b, s)

LEMMA BrandRuns ==
  ASSUME Basics, NEW b \in Brands, KeptBrand(b), NEW r \in Reqs, Statement(r)
  PROVE  KeptBrand(b)'
<1> DEFINE at == req[r].op.at
           row == req'[r].row
<1> SUFFICES ASSUME ~Raced(b)
             PROVE  Alone(b)' /\ (\A q \in On(b)' : SavingInStep(b, q)')
  BY DEF KeptBrand, Raced, Statement
<1>0. /\ r \in InFlight /\ req'[r].op = req[r].op
      /\ \A q \in Reqs \ {r} : req'[q] = req[q] /\ Pc(q)' = Pc(q)
      /\ On(b)' = IF at = b /\ Pc(r)' = "end" THEN On(b) \ {r} ELSE On(b)
      /\ On(b) \subseteq Reqs
      /\ DOMAIN brands[b] = BrandFields
  BY OneRuns DEF On, InFlight, Basics, BrandRows, BrandFields
<1>1. Alone(b) /\ \A q \in On(b) : SavingInStep(b, q)
  BY DEF KeptBrand
<1>2. Alone(b)'
  BY <1>0, <1>1 DEF Alone
<1>3. CASE at # b
  <2>1. brands'[b] = brands[b]
    <3>1. UNCHANGED brands \/ OnlyBrand(at)
      BY DEF Statement, TourEffect, BrandEffect, Loads, GetsBrand, GetsStops, GetsSlug, Deletes,
         Reloads, Writes, Inserts, SoftDeletes, Ends, InsertsBrand, LoadsBrand, ReloadsBrand,
         WritesBrand, Syncs, Unstamps, SoftDeletesBrand
    <3> QED
      BY <1>3, <3>1 DEF OnlyBrand
  <2>2. r \notin On(b) /\ On(b)' = On(b)
    BY <1>0, <1>3 DEF On
  <2>3. ASSUME NEW q \in On(b) PROVE SavingInStep(b, q)'
    <3>1. req'[q] = req[q] /\ Pc(q)' = Pc(q) /\ SavingInStep(b, q)
      BY <1>0, <1>1, <2>2
    <3> QED
      BY <2>1, <3>1 DEF SavingInStep, Saving
  <2> QED
    BY <1>2, <2>2, <2>3
<1>4. CASE at = b
  <2>1. On(b) = {r} /\ On(b)' = IF Pc(r)' = "end" THEN {} ELSE {r}
    BY <1>0, <1>1, <1>4 DEF On, Alone
  <2>2. SavingInStep(b, r) /\ InHand(r)
    BY <1>1, <2>1 DEF Basics
  <2>3. ~ForTour(r) /\ BrandEffect(r)
    BY <1>4, OpsAssumption DEF Statement
  <2>4. SUFFICES ASSUME Pc(r)' # "end" PROVE SavingInStep(b, r)'
    BY <1>2, <2>1
  <2>5. CASE LoadsBrand(r)
    BY <1>4, <2>5 DEF LoadsBrand, LiveBrand, SavingInStep
  <2>6. CASE ReloadsBrand(r)
    <3>1. Pc(r)' = "writeBrand" /\ row = req[r].row /\ req'[r].seen = brands[b]
          /\ brands' = brands /\ Saving(r)
      BY <1>4, <2>6 DEF ReloadsBrand, Saving
    <3> QED
      BY <2>2, <3>1 DEF SavingInStep, Same
  <2>7. CASE WritesBrand(r)
    <3> DEFINE saved == SaveDiff(req[r].row, req[r].seen, brands[b])
    <3>1. Pc(r) = "writeBrand" /\ Pc(r)' = "sync" /\ row = req[r].row /\ brands'[b] = saved
          /\ Saving(r)
      BY <1>4, <2>7 DEF WritesBrand, Saving
    <3>2. BrandRow(req[r].row) /\ ~req[r].row.deleted /\ Same(req[r].seen, brands[b], BrandFields)
      BY <2>2, <3>1 DEF SavingInStep
    <3>3. saved = [c \in BrandFields |-> IF req[r].row[c] # req[r].seen[c] THEN req[r].row[c]
                                         ELSE brands[b][c]]
      BY <1>0 DEF SaveDiff
    <3>4. \A c \in BrandFields : (IF req[r].row[c] # req[r].seen[c] THEN req[r].row[c]
                                  ELSE brands[b][c]) = req[r].row[c]
      BY <3>2 DEF Same
    <3>5. req[r].row = [c \in BrandFields |-> req[r].row[c]]
      BY <3>2 DEF BrandRow, BrandFields
    <3>6. saved = req[r].row
      <4> HIDE DEF saved, BrandFields
      <4> QED
        BY <3>3, <3>4, <3>5
    <3> HIDE DEF saved
    <3> QED
      BY <3>1, <3>2, <3>6 DEF SavingInStep
  <2>8. CASE Syncs(r) \/ Unstamps(r)
    BY <2>8 DEF Syncs, Unstamps, SavingInStep, Saving
  <2> QED
    BY <2>3, <2>4, <2>5, <2>6, <2>7, <2>8 DEF BrandEffect, Ends, InsertsBrand, SoftDeletesBrand
<1> QED
  BY <1>3, <1>4

LEMMA BrandStarts ==
  ASSUME Basics, NEW b \in Brands, KeptBrand(b), NEW r \in Reqs, NEW op \in Ops, Starts(r, op)
  PROVE  KeptBrand(b)'
<1> SUFFICES ASSUME ~Raced(b)'
             PROVE  Alone(b)' /\ (\A q \in On(b)' : SavingInStep(b, q)')
  BY DEF KeptBrand
<1>1. /\ r \notin InFlight /\ req'[r].op = op
      /\ Pc(r)' \in {"itinerary", "insertBrand", "loadBrand", "load"}
      /\ \A q \in Reqs \ {r} : req'[q] = req[q] /\ Pc(q)' = Pc(q)
      /\ On(b)' = IF op.at = b THEN On(b) \cup {r} ELSE On(b)
      /\ On(b) \subseteq Reqs \ {r}
      /\ UNCHANGED brands
  BY OneStarts DEF On, InFlight
<1>2. ~Raced(b)
  BY DEF Raced, Starts
<1>3. Alone(b) /\ (\A q \in On(b) : SavingInStep(b, q))
  BY <1>2 DEF KeptBrand
<1>4. op.at = b => On(b) = {}
  <2> SUFFICES ASSUME op.at = b, NEW q \in On(b) PROVE FALSE
    OBVIOUS
  <2>1. b \in TouchedBy(op) /\ b \in TouchedBy(req[q].op) /\ q \in InFlight
    BY BodiesAssumption DEF TouchedBy, On
  <2>2. <<q, b>> \in raced'
    BY <2>1 DEF Starts
  <2> QED
    BY <2>2 DEF Raced
<1>5. SavingInStep(b, r)'
  BY <1>1 DEF SavingInStep, Saving
<1>6. ASSUME NEW q \in On(b) PROVE SavingInStep(b, q)'
  <2>1. req'[q] = req[q] /\ Pc(q)' = Pc(q) /\ SavingInStep(b, q)
    BY <1>1, <1>3
  <2> QED
    BY <1>1, <2>1 DEF SavingInStep, Saving
<1>7. Alone(b)'
  BY <1>1, <1>3, <1>4 DEF Alone
<1> QED
  BY <1>1, <1>5, <1>6, <1>7

LEMMA BrandHolds ==
  /\ Init => \A b \in Brands : KeptBrand(b)
  /\ Basics /\ (\A b \in Brands : KeptBrand(b)) /\ [Next]_vars => (\A b \in Brands : KeptBrand(b))'
<1>1. ASSUME Init, NEW b \in Brands PROVE KeptBrand(b)
  <2>1. On(b) = {}
    BY <1>1 DEF Init, On, InFlight, Idle
  <2> QED
    BY <2>1 DEF KeptBrand, Alone
<1>2. ASSUME Basics, [Next]_vars, NEW b \in Brands, KeptBrand(b) PROVE KeptBrand(b)'
  <2>1. CASE UNCHANGED <<tours, stops, brands, req, raced, torn>>
    <3>1. On(b)' = On(b) /\ (Raced(b)' <=> Raced(b)) /\ \A q \in On(b) : Pc(q)' = Pc(q)
      BY <2>1 DEF On, InFlight, Raced, Pc
    <3>2. \A q \in On(b) : SavingInStep(b, q)' <=> SavingInStep(b, q)
      BY <2>1, <3>1 DEF SavingInStep, Saving
    <3> QED
      BY <1>2, <3>1, <3>2 DEF KeptBrand, Alone
  <2> QED
    BY <1>2, <2>1, BasicsStep, BrandRuns, BrandStarts
<1> QED
  BY <1>1, <1>2

-----------------------------------------------------------------------------
(* The provider of a tour no request on which met another.                 *)

Clean(t) == \A y \in raced : req[y[1]].op.at # t

\* The brand that a tour has, or is to have, is not being edited.
Apart(t, r) == \A b \in Brands : On(b) # {} => b # req[r].op.brand /\ b # tours[t].brand

\* The row in hand has the brand of the tour, or the one the request gives it.
Branding(t, r) ==
    /\ (Loaded(r) /\ ~Branded(r) => Same(req[r].row, tours[t], BrandColumns))
    /\ (Pc(r) = "write" => Same(req[r].seen, tours[t], BrandColumns))
    /\ (Branded(r) => /\ req[r].row.brand = req[r].op.brand
                      /\ req[r].row.provider = Right(req[r].op.brand))

\* The provider of a tour is its brand, but between the two statements of an
\* edit of the brand.
ShowsBrand(t, b) ==
    ~Raced(b) /\ b \notin torn =>
        /\ ((\A s \in On(b) : Pc(s) \notin {"sync", "softDeleteBrand"})
               => tours[t].provider = Right(b))
        /\ ((\E s \in On(b) : Pc(s) = "softDeleteBrand") => tours[t].provider = SiteProvider)

Shows(t) == /\ (tours[t].brand = NoBrand => tours[t].provider = SiteProvider)
            /\ \A b \in Brands : tours[t].brand = b => ShowsBrand(t, b)

KeptProvider(t) ==
    Clean(t) => (\A r \in On(t) : Apart(t, r) /\ Branding(t, r)) /\ (tours[t].exists => Shows(t))

\* A request whose tour is clean is alone on it.
LEMMA CleanAlone ==
  ASSUME RacedIs, NEW t \in Tours, KeptDerived(t), Clean(t)
  PROVE  Alone(t)
  BY DEF RacedIs, KeptDerived, Clean, Raced

\* What shows on a tour depends on its own columns, its brand and who edits it.
LEMMA ShowsStays ==
  ASSUME NEW t \in Tours, Shows(t), tours'[t].brand = tours[t].brand,
         tours'[t].provider = tours[t].provider,
         \A b \in Brands : /\ brands'[b] = brands[b] /\ On(b)' = On(b)
                           /\ (Raced(b)' <=> Raced(b)) /\ (b \in torn => b \in torn')
                           /\ \A s \in On(b) : Pc(s)' = Pc(s)
  PROVE  Shows(t)'
<1>1. \A b \in Brands : Right(b)' = Right(b)
  BY DEF Right
<1>2. ASSUME NEW b \in Brands, ShowsBrand(t, b) PROVE ShowsBrand(t, b)'
  BY <1>1, <1>2 DEF ShowsBrand
<1> QED
  BY <1>2 DEF Shows

\* A tour that just got the provider of a brand that nobody edits shows it.
LEMMA ShowsAtOnce ==
  ASSUME NEW t \in Tours, NEW b \in Brands \cup {NoBrand}, b \in Brands => On(b)' = {},
         tours'[t].brand = b, tours'[t].provider = Right(b)'
  PROVE  Shows(t)'
<1>1. NoBrand \notin Brands
  BY BodiesAssumption
<1>2. CASE b = NoBrand
  BY <1>1, <1>2 DEF Shows, Right
<1>3. CASE b \in Brands
  BY <1>1, <1>3 DEF Shows, ShowsBrand
<1> QED
  BY <1>2, <1>3

\* A request on the tour runs.
LEMMA ProviderRunsHere ==
  ASSUME Basics, NEW t \in Tours, KeptDerived(t), KeptProvider(t), Clean(t), NEW r \in Reqs,
         Statement(r), req[r].op.at = t, ForTour(r)
  PROVE  /\ (\A q \in On(t)' : Apart(t, q)' /\ Branding(t, q)')
         /\ (tours'[t].exists => Shows(t)')
<1> DEFINE op == req[r].op
           row == req'[r].row
<1>0. /\ r \in InFlight /\ req'[r].op = op /\ op \in Ops /\ Uses(op, Pc(r))
      /\ \A q \in Reqs \ {r} : req'[q] = req[q] /\ Pc(q)' = Pc(q)
      /\ On(t)' = IF Pc(r)' = "end" THEN On(t) \ {r} ELSE On(t)
      /\ DOMAIN tours[t] = Columns
  BY OneRuns DEF Basics, IInv, RowsAre
<1>1. On(t) = {r} /\ On(t)' \subseteq {r} /\ (r \in On(t)' => Pc(r)' # "end")
  BY <1>0, CleanAlone DEF Basics, On, Alone
<1>2. Apart(t, r) /\ Branding(t, r) /\ (tours[t].exists => Shows(t))
  BY <1>1 DEF KeptProvider
<1>3. TourEffect(r) /\ brands' = brands /\ raced' = raced
  BY DEF Statement, TourEffect, Loads, GetsBrand, GetsStops, GetsSlug, Deletes, Reloads, Writes,
         Inserts, SoftDeletes, Ends
<1>4. ASSUME NEW b \in Brands
      PROVE  /\ On(b)' = On(b) /\ (Raced(b)' <=> Raced(b)) /\ (b \in torn => b \in torn')
             /\ \A s \in On(b) : Pc(s)' = Pc(s)
  <2>1. b # t
    BY OpsAssumption
  <2>2. On(b)' = On(b) /\ On(b) \subseteq Reqs /\ r \notin On(b)
    BY <2>1, OneRuns DEF On, InFlight
  <2> QED
    BY <1>0, <1>3, <2>2, StopsChange DEF Raced
<1>5. \A b : Right(b)' = Right(b)
  BY <1>3 DEF Right
<1>6. Given(op.brand) => op.brand \in Brands \cup {NoBrand}
  BY <1>0, BodiesAssumption
<1>7. (op.kind = "create" => Given(op.brand)) /\ InHand(r)
  BY <1>0, BodiesAssumption DEF Basics
<1>8. Loaded(r) => tours[t].exists
  BY <1>0, <1>7 DEF InHand
<1>9. ASSUME tours'[t].brand = tours[t].brand, tours'[t].provider = tours[t].provider,
             tours'[t].exists => tours[t].exists
      PROVE  tours'[t].exists => Shows(t)'
  BY <1>2, <1>3, <1>4, <1>9, ShowsStays
\* While the tour stays as it is.
<1>10. ASSUME UNCHANGED tours PROVE Apart(t, r)' /\ (tours'[t].exists => Shows(t)')
  BY <1>0, <1>2, <1>4, <1>9, <1>10 DEF Apart
<1>11. SUFFICES /\ (Pc(r)' # "end" => Apart(t, r)' /\ Branding(t, r)')
                /\ (tours'[t].exists => Shows(t)')
  BY <1>1
<1> HIDE DEF op, row
<1>12. CASE Ends(r)
  BY <1>10, <1>12 DEF Ends
<1>13. CASE Loads(r)
  <2>1. UNCHANGED tours /\ Pc(r)' = AfterLoad(op) /\ op.kind # "create"
        /\ Same(row, tours[t], BrandColumns)
    BY <1>0, <1>13 DEF Loads, Uses, PromotionKinds, Same, Copied, op, row
  <2>2. Pc(r)' # "write" /\ ~Branded(r)'
    BY <1>0, <2>1 DEF AfterLoad, Branded, op
  <2>3. Branding(t, r)'
    BY <2>1, <2>2 DEF Branding, row
  <2> QED
    BY <1>10, <2>1, <2>3
<1>14. CASE GetsBrand(r)
  <2>1. /\ UNCHANGED tours /\ Pc(r)' = After(op, "brand") /\ Pc(r) = "brand"
        /\ row.brand = op.brand /\ row.provider = Right(op.brand)
    BY <1>14 DEF GetsBrand, op, row
  <2>2. Pc(r)' # "write"
    BY <2>1 DEF After
  <2>3. Loaded(r)' => Branded(r)'
    BY <1>0, <2>1 DEF After, Loaded, Branded, Uses, PromotionKinds, op
  <2>4. row.provider = Right(op.brand)'
    BY <1>0, <1>3, <2>1 DEF Right, op
  <2>5. Branding(t, r)'
    BY <1>0, <1>3, <2>1, <2>2, <2>3, <2>4 DEF Branding, Right, op, row
  <2> QED
    BY <1>10, <2>1, <2>5
<1>15. CASE GetsStops(r) \/ GetsSlug(r)
  <2>1. /\ UNCHANGED tours /\ Pc(r)' = After(op, Pc(r)) /\ Pc(r) \in {"itinerary", "slug"}
        /\ Same(row, req[r].row, BrandColumns)
    BY <1>15 DEF GetsStops, GetsSlug, After, Same, Copied, op, row
  <2>2. Pc(r)' # "write"
    BY <2>1 DEF After
  <2>3. Loaded(r)' /\ ~Branded(r)' => Loaded(r) /\ ~Branded(r)
    BY <1>0, <2>1 DEF After, Loaded, Branded, Uses, PromotionKinds, op
  <2>4. Branded(r)' => Branded(r)
    BY <1>0, <2>1 DEF After, Branded, op
  <2>5. Loaded(r)' /\ ~Branded(r)' => Same(row, tours'[t], BrandColumns)
    BY <1>2, <2>1, <2>3 DEF Branding, Same
  <2>6. Branded(r)' => row.brand = op.brand /\ row.provider = Right(op.brand)
    BY <1>2, <2>1, <2>4 DEF Branding, Same, BrandColumns, op
  <2>7. Branding(t, r)'
    BY <1>0, <1>3, <2>2, <2>5, <2>6 DEF Branding, Right, op, row
  <2> QED
    BY <1>10, <2>1, <2>7
<1>16. CASE Deletes(r) \/ Reloads(r)
  <2>1. /\ UNCHANGED tours /\ row = req[r].row
        /\ \/ Pc(r) = "delete" /\ Pc(r)' = "reload"
           \/ Pc(r) = "reload" /\ Pc(r)' = "write" /\ req'[r].seen = tours[t]
    BY <1>16 DEF Deletes, Reloads, row
  <2>2. (Loaded(r)' <=> Loaded(r)) /\ (Branded(r)' <=> Branded(r))
    BY <1>0, <2>1 DEF Loaded, Branded, op
  <2>3. Loaded(r)' /\ ~Branded(r)' => Same(row, tours'[t], BrandColumns)
    BY <1>2, <2>1, <2>2 DEF Branding
  <2>4. Branded(r)' => row.brand = op.brand /\ row.provider = Right(op.brand)
    BY <1>2, <2>1, <2>2 DEF Branding, op
  <2>5. Pc(r)' = "write" => Same(req'[r].seen, tours'[t], BrandColumns)
    BY <2>1 DEF Same
  <2>6. Branding(t, r)'
    BY <1>0, <1>3, <2>3, <2>4, <2>5 DEF Branding, Right, op, row
  <2> QED
    BY <1>10, <2>1, <2>6
\* What the request writes is the brand it gave the row, or the one that was there.
<1>17. ASSUME Same(tours'[t], req[r].row, BrandColumns), Branded(r), Given(op.brand)
       PROVE  Shows(t)' /\ tours'[t].brand = op.brand
  <2>1. tours'[t].brand = op.brand /\ tours'[t].provider = Right(op.brand)
    BY <1>2, <1>17 DEF Branding, Same, BrandColumns, op
  <2>2. PICK b \in Brands \cup {NoBrand} : b = op.brand
    BY <1>6, <1>17
  <2>3. b \in Brands => On(b)' = {}
    BY <1>2, <1>4, <2>2 DEF Apart, op
  <2>4. tours'[t].brand = b /\ tours'[t].provider = Right(b)'
    BY <1>5, <2>1, <2>2
  <2>5. Shows(t)'
    BY <2>3, <2>4, ShowsAtOnce
  <2> QED
    BY <2>1, <2>5
<1>18. CASE Writes(r)
  <2>1. Pc(r) = "write" /\ Pc(r)' \in {"unlink", "end"}
    BY <1>18 DEF Writes
  <2>2. Branding(t, r)'
    BY <2>1 DEF Branding, Loaded, Branded
  <2>3. Same(tours'[t], req[r].row, BrandColumns)
    <3> DEFINE saved == SaveDiff(req[r].row, req[r].seen, tours[t])
    <3>1. Same(tours'[t], saved, Copied)
      BY <1>18 DEF Writes
    <3>2. BrandColumns \subseteq Columns
      BY DEF Columns, NewTour, BrandColumns
    <3>3. Same(req[r].seen, tours[t], BrandColumns)
      BY <1>2, <2>1 DEF Branding
    <3>4. Same(saved, req[r].row, BrandColumns)
      BY <1>0, <3>2, <3>3 DEF SaveDiff, Same
    <3> HIDE DEF saved
    <3> QED
      BY <3>1, <3>4 DEF Same, Copied
  <2>4. CASE Branded(r)
    <3>1. Given(op.brand)
      BY <1>7, <2>4 DEF Branded, op
    <3>2. Shows(t)' /\ tours'[t].brand = op.brand
      BY <1>17, <2>3, <2>4, <3>1
    <3>3. Apart(t, r)'
      BY <1>0, <1>2, <1>4, <3>2 DEF Apart, op
    <3> QED
      BY <2>2, <3>2, <3>3
  <2>5. CASE ~Branded(r)
    <3>1. Loaded(r)
      BY <1>0, <2>1 DEF Loaded, Uses, PromotionKinds, op
    <3>2. Same(req[r].row, tours[t], BrandColumns) /\ tours[t].exists
      BY <1>2, <1>8, <2>5, <3>1 DEF Branding
    <3>3. tours'[t].brand = tours[t].brand /\ tours'[t].provider = tours[t].provider
      BY <2>3, <3>2 DEF Same, BrandColumns
    <3>4. Apart(t, r)'
      BY <1>0, <1>2, <1>4, <3>3 DEF Apart, op
    <3> QED
      BY <1>9, <2>2, <3>2, <3>3, <3>4
  <2> QED
    BY <2>4, <2>5
<1>19. CASE Inserts(r)
  <2>1. Pc(r) = "insert" /\ Pc(r)' = "end" /\ op.kind = "create" /\ Branded(r)
    BY <1>0, <1>19 DEF Inserts, Uses, PromotionKinds, Branded, op
  <2>2. Same(tours'[t], req[r].row, BrandColumns)
    BY <1>19 DEF Inserts, Same
  <2> QED
    BY <1>7, <1>17, <2>1, <2>2
<1>20. CASE SoftDeletes(r)
  <2>1. /\ Pc(r)' = "end" /\ tours'[t].brand = tours[t].brand
        /\ tours'[t].provider = tours[t].provider /\ tours'[t].exists = tours[t].exists
    BY <1>20 DEF SoftDeletes, Same, Copied, BrandColumns
  <2> QED
    BY <1>9, <2>1
<1> QED
  BY <1>3, <1>12, <1>13, <1>14, <1>15, <1>16, <1>18, <1>19, <1>20 DEF TourEffect

\* A request on another tour runs.
LEMMA ProviderRunsThere ==
  ASSUME Basics, NEW t \in Tours, KeptProvider(t), Clean(t), NEW r \in Reqs,
         Statement(r), ForTour(r), req[r].op.at # t
  PROVE  /\ (\A q \in On(t)' : Apart(t, q)' /\ Branding(t, q)')
         /\ (tours'[t].exists => Shows(t)')
<1> DEFINE at == req[r].op.at
<1>0. /\ at \in Tours /\ raced' = raced /\ torn \subseteq torn'
      /\ \A q \in Reqs \ {r} : req'[q] = req[q] /\ Pc(q)' = Pc(q)
      /\ \A x : x # at => On(x)' = On(x) /\ r \notin On(x) /\ On(x) \subseteq Reqs
  BY OneRuns, StopsChange DEF Statement, On, InFlight
<1>1. brands' = brands /\ tours'[t] = tours[t]
  BY DEF Statement, TourEffect, Loads, GetsBrand, GetsStops, GetsSlug, Deletes, Reloads, Writes,
         Inserts, SoftDeletes, Ends, OnlyTour
<1>2. \A b \in Brands : On(b)' = On(b) /\ \A s \in On(b) : Pc(s)' = Pc(s)
  BY <1>0, OpsAssumption
<1>3. \A b : Right(b)' = Right(b)
  BY <1>1 DEF Right
<1>4. tours[t].exists => Shows(t)
  BY DEF KeptProvider
<1>5. Shows(t) => Shows(t)'
  BY <1>0, <1>1, <1>2, ShowsStays DEF Raced
<1>6. ASSUME NEW q \in On(t)' PROVE Apart(t, q)' /\ Branding(t, q)'
  <2>1. q \in On(t) /\ req'[q] = req[q] /\ Pc(q)' = Pc(q)
    BY <1>0
  <2>2. Apart(t, q) /\ Branding(t, q)
    BY <2>1 DEF KeptProvider
  <2>3. Apart(t, q)'
    BY <1>1, <1>2, <2>1, <2>2 DEF Apart
  <2>4. Branding(t, q)'
    BY <1>1, <1>3, <2>1, <2>2 DEF Branding, Loaded, Branded, Right
  <2> QED
    BY <2>3, <2>4
<1> QED
  BY <1>1, <1>4, <1>5, <1>6

\* A brand that a tour has was there before the request that runs.
LEMMA KnownStays ==
  ASSUME Basics, NEW r \in Reqs, NEW b \in Brands, req[r].op.at = b, brands[b].exists, Statement(r)
  PROVE  ~InsertsBrand(r)
<1> SUFFICES ASSUME InsertsBrand(r) PROVE FALSE
  OBVIOUS
<1>1. r \in InFlight /\ req[r] # Idle /\ req[r].op \in Ops /\ Uses(req[r].op, "insertBrand")
  BY DEF Statement, Stands, InsertsBrand
<1>2. Creates(r, b)
  BY <1>1 DEF Creates, Uses, PromotionKinds
<1>3. b \notin DOMAIN Row0.brands
  BY <1>1, <1>2, BodiesAssumption DEF Creates
<1>4. PICK q \in Reqs : Creates(q, b) /\ q \notin InFlight
  BY <1>3 DEF Basics, Created
<1>5. q = r
  BY <1>2, <1>4 DEF Basics, Created
<1> QED
  BY <1>1, <1>4, <1>5

\* A request on a brand runs.
LEMMA ProviderRunsBrand ==
  ASSUME Basics, NEW t \in Tours, KeptProvider(t), Clean(t), NEW r \in Reqs,
         \A b \in Brands : KeptBrand(b), Statement(r), ~ForTour(r)
  PROVE  /\ (\A q \in On(t)' : Apart(t, q)' /\ Branding(t, q)')
         /\ (tours'[t].exists => Shows(t)')
<1>1. PICK x \in Brands : x = req[r].op.at
  BY DEF Statement
<1>2. BrandEffect(r) /\ raced' = raced /\ r \in On(x) /\ t # x /\ NoBrand \notin Brands
  BY <1>1, OneRuns, OpsAssumption, BodiesAssumption DEF Statement, On
<1>3. /\ \A q \in Reqs \ {r} : req'[q] = req[q] /\ Pc(q)' = Pc(q)
      /\ On(x)' = (IF Pc(r)' = "end" THEN On(x) \ {r} ELSE On(x))
      /\ \A y : y # x => On(y)' = On(y) /\ r \notin On(y)
      /\ \A y : On(y) \subseteq Reqs
  BY <1>1, OneRuns DEF On, InFlight
<1>4. torn \subseteq torn'
  BY StopsChange
<1>5. \A b \in Brands \ {x} : brands'[b] = brands[b]
  BY <1>1, <1>2 DEF BrandEffect, InsertsBrand, LoadsBrand, ReloadsBrand, WritesBrand, Syncs,
     Unstamps, SoftDeletesBrand, Ends, OnlyBrand
<1>6. \/ tours' = tours
      \/ Stamps(x, BuildProvider(req[r].row)) \/ Stamps(x, SiteProvider)
  BY <1>1, <1>2 DEF BrandEffect, InsertsBrand, LoadsBrand, ReloadsBrand, WritesBrand, Syncs,
     Unstamps, SoftDeletesBrand, Ends
<1>7. /\ tours'[t].exists = tours[t].exists /\ tours'[t].brand = tours[t].brand
      /\ (tours[t].brand # x => tours'[t].provider = tours[t].provider)
  BY <1>6 DEF Stamps, Same, Copied, BrandColumns
<1>8. \A b : b # x /\ b \in Brands \cup {NoBrand} => Right(b)' = Right(b)
  BY <1>2, <1>5 DEF Right
<1>9. ASSUME NEW q \in On(t)' PROVE Apart(t, q)' /\ Branding(t, q)'
  <2>1. q \in On(t) /\ req'[q] = req[q] /\ Pc(q)' = Pc(q) /\ q \in Reqs
    BY <1>2, <1>3
  <2>2. Apart(t, q) /\ Branding(t, q)
    BY <2>1 DEF KeptProvider
  <2>3. x # req[q].op.brand /\ x # tours[t].brand
    BY <1>2, <2>2 DEF Apart
  <2>4. Apart(t, q)'
    BY <1>3, <1>7, <2>1, <2>2, <2>3 DEF Apart
  <2>5. Same(tours'[t], tours[t], BrandColumns)
    BY <1>7, <2>3 DEF Same, BrandColumns
  <2>6. (Loaded(q)' <=> Loaded(q)) /\ (Branded(q)' <=> Branded(q))
    BY <2>1 DEF Loaded, Branded
  <2>7. Loaded(q)' /\ ~Branded(q)' => Same(req'[q].row, tours'[t], BrandColumns)
    BY <2>1, <2>2, <2>5, <2>6 DEF Branding, Same
  <2>8. Pc(q)' = "write" => Same(req'[q].seen, tours'[t], BrandColumns)
    BY <2>1, <2>2, <2>5 DEF Branding, Same
  <2>9. ASSUME Branded(q)
        PROVE  req'[q].row.brand = req'[q].op.brand /\ req'[q].row.provider = Right(req[q].op.brand)'
    <3>1. req[q].op \in Ops /\ Given(req[q].op.brand)
      <4>1. Stands(q)
        BY <2>1, Standing DEF On, InFlight, Basics
      <4> QED
        BY <2>9, <4>1, BodiesAssumption DEF Stands, Branded
    <3>2. PICK b \in Brands \cup {NoBrand} : b = req[q].op.brand
      BY <3>1, BodiesAssumption
    <3>3. Right(b)' = Right(b)
      BY <1>8, <2>3, <3>2
    <3>4. req'[q].op.brand = b /\ req'[q].row.brand = b /\ req'[q].row.provider = Right(b)'
      BY <2>1, <2>2, <2>9, <3>2, <3>3 DEF Branding
    <3> QED
      BY <3>4 DEF Right
  <2> QED
    BY <2>4, <2>6, <2>7, <2>8, <2>9 DEF Branding
<1>10. ASSUME tours'[t].exists PROVE Shows(t)'
  <2>1. Shows(t)
    BY <1>7, <1>10 DEF KeptProvider
  <2>2. tours'[t].brand = NoBrand => tours'[t].provider = SiteProvider
    BY <1>2, <1>7, <2>1 DEF Shows
  <2>3. ASSUME NEW b \in Brands, tours'[t].brand = b, b # x PROVE ShowsBrand(t, b)'
    <3>1. ShowsBrand(t, b)
      BY <1>7, <2>1, <2>3 DEF Shows
    <3>2. /\ tours'[t].provider = tours[t].provider /\ Right(b)' = Right(b) /\ On(b)' = On(b)
          /\ \A s \in On(b) : Pc(s)' = Pc(s)
      BY <1>3, <1>7, <1>8, <2>3
    <3> QED
      BY <1>2, <1>4, <3>1, <3>2 DEF ShowsBrand, Raced
  <2>4. ASSUME tours'[t].brand = x PROVE ShowsBrand(t, x)'
    <3> SUFFICES ASSUME ~Raced(x), x \notin torn'
                 PROVE  /\ ((\A s \in On(x)' : Pc(s)' \notin {"sync", "softDeleteBrand"})
                               => tours'[t].provider = Right(x)')
                        /\ ((\E s \in On(x)' : Pc(s)' = "softDeleteBrand")
                               => tours'[t].provider = SiteProvider)
      BY <1>2 DEF ShowsBrand, Raced
    <3>1. On(x) = {r} /\ SavingInStep(x, r)
      BY <1>2 DEF KeptBrand, Alone
    <3>2. On(x)' = IF Pc(r)' = "end" THEN {} ELSE {r}
      BY <1>3, <3>1
    <3>3. /\ (Pc(r) \notin {"sync", "softDeleteBrand"} => tours[t].provider = Right(x))
          /\ (Pc(r) = "softDeleteBrand" => tours[t].provider = SiteProvider)
      BY <1>4, <1>7, <2>1, <2>4, <3>1 DEF Shows, ShowsBrand
    <3>4. brands[x].exists
      BY <1>2, <1>7, <2>4 DEF Basics, KnownBrand
    <3>5. ~InsertsBrand(r)
      BY <1>1, <3>4, KnownStays
    <3>6. CASE Ends(r)
      <4>1. Pc(r) \notin {"sync", "softDeleteBrand"} /\ Pc(r)' = "end" /\ UNCHANGED <<tours, brands>>
        BY <1>1, <3>6 DEF Ends
      <4> QED
        BY <3>2, <3>3, <4>1 DEF Right
    <3>7. CASE LoadsBrand(r) \/ ReloadsBrand(r)
      <4>1. /\ Pc(r) \notin {"sync", "softDeleteBrand"} /\ UNCHANGED <<tours, brands>>
            /\ Pc(r)' # "softDeleteBrand"
        BY <3>7 DEF LoadsBrand, ReloadsBrand
      <4> QED
        BY <3>2, <3>3, <4>1 DEF Right
    <3>8. CASE WritesBrand(r)
      BY <3>2, <3>8 DEF WritesBrand
    <3>9. CASE Syncs(r)
      <4>1. /\ Pc(r)' # "softDeleteBrand" /\ brands' = brands
            /\ tours'[t].provider = BuildProvider(req[r].row)
        BY <1>1, <1>7, <2>4, <3>9 DEF Syncs, Stamps
      <4>2. req[r].row = brands[x] /\ ~brands[x].deleted
        BY <3>1, <3>9 DEF Syncs, SavingInStep, Saving
      <4>3. Right(x)' = BuildProvider(brands[x])
        BY <1>2, <4>1, <4>2 DEF Right, BuildProvider
      <4> QED
        BY <3>2, <4>1, <4>2, <4>3
    <3>10. CASE Unstamps(r)
      <4>1. Pc(r)' = "softDeleteBrand" /\ tours'[t].provider = SiteProvider
        BY <1>1, <1>7, <2>4, <3>10 DEF Unstamps, Stamps
      <4> QED
        BY <3>2, <4>1
    <3>11. CASE SoftDeletesBrand(r)
      <4>1. Pc(r) = "softDeleteBrand" /\ Pc(r)' = "end" /\ tours' = tours
        BY <3>11 DEF SoftDeletesBrand
      <4>2. brands'[x].deleted
        <5>1. DOMAIN brands = Brands /\ DOMAIN brands[x] = DOMAIN NewBrand
          BY DEF Basics, BrandRows
        <5> QED
          BY <1>1, <3>11, <5>1 DEF SoftDeletesBrand, NewBrand
      <4>3. Right(x)' = SiteProvider
        BY <1>2, <4>2 DEF Right
      <4> QED
        BY <3>2, <3>3, <4>1, <4>3
    <3> QED
      BY <1>2, <3>5, <3>6, <3>7, <3>8, <3>9, <3>10, <3>11 DEF BrandEffect
  <2> QED
    BY <2>2, <2>3, <2>4 DEF Shows
<1> QED
  BY <1>9, <1>10

LEMMA ProviderRuns ==
  ASSUME Basics, NEW t \in Tours, KeptDerived(t), KeptProvider(t), NEW r \in Reqs,
         \A b \in Brands : KeptBrand(b), Statement(r)
  PROVE  KeptProvider(t)'
<1> SUFFICES ASSUME Clean(t)'
             PROVE  /\ (\A q \in On(t)' : Apart(t, q)' /\ Branding(t, q)')
                    /\ (tours'[t].exists => Shows(t)')
  BY DEF KeptProvider
<1>1. Clean(t)
  <2>1. \A q \in Reqs : req'[q].op = req[q].op
    BY OneRuns
  <2>2. raced' = raced /\ \A y \in raced : y[1] \in Reqs
    BY DEF Statement, Basics, RacedIs
  <2> QED
    BY <2>1, <2>2 DEF Clean
<1> QED
  BY <1>1, ProviderRunsHere, ProviderRunsThere, ProviderRunsBrand DEF Statement

LEMMA ProviderStarts ==
  ASSUME Basics, NEW t \in Tours, KeptDerived(t), KeptProvider(t), NEW r \in Reqs,
         NEW op \in Ops, Starts(r, op)
  PROVE  KeptProvider(t)'
<1> SUFFICES ASSUME Clean(t)'
             PROVE  /\ (\A q \in On(t)' : Apart(t, q)' /\ Branding(t, q)')
                    /\ (tours[t].exists => Shows(t)')
  BY OneStarts DEF KeptProvider
<1>1. /\ r \notin InFlight /\ req'[r].op = op /\ req[r] = Idle
      /\ Pc(r)' \in {"itinerary", "insertBrand", "loadBrand", "load"}
      /\ (Pc(r)' = "itinerary" => op.kind = "create")
      /\ \A q \in Reqs \ {r} : req'[q] = req[q] /\ Pc(q)' = Pc(q)
      /\ \A x : On(x)' = IF op.at = x THEN On(x) \cup {r} ELSE On(x)
      /\ \A x : On(x) \subseteq Reqs \ {r}
      /\ UNCHANGED <<tours, brands, torn>> /\ raced \subseteq raced'
  BY OneStarts DEF On, InFlight, Starts
<1>2. Clean(t)
  <2>1. ASSUME NEW y \in raced PROVE req[y[1]].op.at # t
    <3>1. y[1] \in Reqs \ {r} /\ y \in raced'
      BY <1>1 DEF Basics, RacedIs
    <3> QED
      BY <1>1, <3>1 DEF Clean
  <2> QED
    BY <2>1 DEF Clean
<1>3. \A q \in InFlight, x \in TouchedBy(op) :
        x \in TouchedBy(req[q].op) => <<q, x>> \in raced' /\ <<r, x>> \in raced'
  BY DEF Starts
<1>4. \A x \in Tours \cup Brands : \A q \in On(x) :
        q \in InFlight /\ x \in TouchedBy(req[q].op) /\ req[q].op.at = x
  BY BodiesAssumption DEF On, TouchedBy
<1>5. \A x \in Tours \cup Brands :
        x \in {op.at, op.brand} \/ (op.at = t /\ x = tours[t].brand) => x \in TouchedBy(op)
  BY BodiesAssumption DEF TouchedBy
<1>6. \A q \in Reqs : \A x : <<q, x>> \in raced' => req'[q].op.at # t
  BY DEF Clean
<1>7. (\A q \in On(t) : Apart(t, q) /\ Branding(t, q)) /\ (tours[t].exists => Shows(t))
  BY <1>2 DEF KeptProvider
<1>8. \A b : Right(b)' = Right(b)
  BY <1>1 DEF Right
\* Who edits a tour and who edits its brand, or the one it is given, have met.
<1>9. ASSUME NEW q \in On(t)' PROVE Apart(t, q)'
  <2> SUFFICES ASSUME NEW b \in Brands, NEW s \in On(b)',
                      b = req'[q].op.brand \/ b = tours[t].brand
               PROVE  FALSE
    BY <1>1 DEF Apart
  <2>1. q \in Reqs /\ req'[q].op.at = t /\ b # t
    BY OpsAssumption DEF On, InFlight
  <2>2. CASE q = r
    <3>1. s \in On(b) /\ b \in TouchedBy(op) /\ op.at = t
      BY <1>1, <1>5, <2>1, <2>2
    <3>2. <<r, b>> \in raced'
      BY <1>3, <1>4, <3>1
    <3> QED
      BY <1>6, <2>1, <2>2, <3>2
  <2>3. CASE q # r
    <3>1. q \in On(t) /\ req'[q] = req[q] /\ Apart(t, q)
      BY <1>1, <1>7, <2>1, <2>3
    <3>2. On(b) = {}
      BY <3>1 DEF Apart
    <3>3. op.at = b
      BY <1>1, <3>2
    <3>4. b \in TouchedBy(op) /\ b \in TouchedBy(req[q].op) /\ q \in InFlight
      BY <1>4, <1>5, <2>1, <3>1, <3>3, BodiesAssumption DEF TouchedBy
    <3>5. <<q, b>> \in raced'
      BY <1>3, <3>4
    <3> QED
      BY <1>6, <2>1, <3>5
  <2> QED
    BY <2>2, <2>3
<1>10. ASSUME NEW q \in On(t)' PROVE Branding(t, q)'
  <2>1. CASE q = r
    BY <1>1, <2>1 DEF Branding, Loaded, Branded
  <2>2. CASE q # r
    <3>1. q \in On(t) /\ req'[q] = req[q] /\ Pc(q)' = Pc(q) /\ Branding(t, q)
      BY <1>1, <1>7, <2>2
    <3> QED
      BY <1>1, <1>8, <3>1 DEF Branding, Loaded, Branded, Right
  <2> QED
    BY <2>1, <2>2
<1>11. ASSUME tours[t].exists PROVE Shows(t)'
  <2>1. Shows(t)
    BY <1>7, <1>11
  <2>2. ASSUME NEW b \in Brands, tours[t].brand = b PROVE ShowsBrand(t, b)'
    <3> SUFFICES ASSUME ~Raced(b)', b \notin torn
                 PROVE  /\ ((\A s \in On(b)' : Pc(s)' \notin {"sync", "softDeleteBrand"})
                               => tours[t].provider = Right(b))
                        /\ ((\E s \in On(b)' : Pc(s)' = "softDeleteBrand")
                               => tours[t].provider = SiteProvider)
      BY <1>1, <1>8 DEF ShowsBrand
    <3>1. ~Raced(b)
      BY <1>1 DEF Raced
    <3>2. /\ ((\A s \in On(b) : Pc(s) \notin {"sync", "softDeleteBrand"})
                 => tours[t].provider = Right(b))
          /\ ((\E s \in On(b) : Pc(s) = "softDeleteBrand") => tours[t].provider = SiteProvider)
      BY <2>1, <2>2, <3>1 DEF Shows, ShowsBrand
    <3>3. On(b)' \subseteq On(b) \cup {r} /\ On(b) \subseteq On(b)'
      BY <1>1
    <3>4. \A s \in On(b) : s # r /\ Pc(s)' = Pc(s)
      BY <1>1
    <3>5. Pc(r)' \notin {"sync", "softDeleteBrand"}
      BY <1>1
    <3> QED
      BY <3>2, <3>3, <3>4, <3>5
  <2> QED
    BY <1>1, <2>1, <2>2 DEF Shows
<1> QED
  BY <1>9, <1>10, <1>11

KeptCatalog == /\ \A t \in Tours : KeptDerived(t) /\ KeptProvider(t)
               /\ \A b \in Brands : KeptBrand(b)

LEMMA CatalogInit == Init => KeptCatalog
<1> SUFFICES ASSUME Init PROVE KeptCatalog
  OBVIOUS
<1>1. \A t \in Tours : KeptDerived(t)
  BY DerivedHolds
<1>2. \A b \in Brands : KeptBrand(b)
  BY BrandHolds
<1>3. ASSUME NEW t \in Tours PROVE KeptProvider(t)
  <2>1. \A x : On(x) = {}
    BY DEF Init, On, InFlight, Idle
  <2>2. ASSUME tours[t].exists PROVE Shows(t)
    <3>1. t \in DOMAIN Row0.tours /\ tours[t] = Row0.tours[t]
      BY <2>2, NewRows DEF Init
    <3>2. /\ tours[t].provider = IF tours[t].brand = NoBrand THEN SiteProvider
                                 ELSE BuildProvider(Row0.brands[tours[t].brand])
          /\ tours[t].brand # NoBrand => tours[t].brand \in Brands \cap DOMAIN Row0.brands
      BY <3>1, FirstRowsAssumption
    <3>3. \A b \in Brands \cap DOMAIN Row0.brands : brands[b] = Row0.brands[b] /\ ~brands[b].deleted
      BY FirstRowsAssumption DEF Init
    <3>4. NoBrand \notin Brands
      BY BodiesAssumption
    <3> QED
      BY <2>1, <3>2, <3>3, <3>4 DEF Shows, ShowsBrand, Right
  <2> QED
    BY <2>1, <2>2 DEF KeptProvider
<1> QED
  BY <1>1, <1>2, <1>3 DEF KeptCatalog

LEMMA CatalogStep ==
  ASSUME Basics, KeptCatalog, [Next]_vars
  PROVE  KeptCatalog'
<1>1. (\A t \in Tours : KeptDerived(t))' /\ (\A b \in Brands : KeptBrand(b))'
  BY DerivedHolds, BrandHolds DEF KeptCatalog
<1>2. ASSUME NEW t \in Tours PROVE KeptProvider(t)'
  <2>1. CASE UNCHANGED <<tours, stops, brands, req, raced, torn>>
    <3>1. /\ \A x : On(x)' = On(x) /\ (Raced(x)' <=> Raced(x)) /\ Right(x)' = Right(x)
          /\ \A q \in Reqs : Pc(q)' = Pc(q) /\ (Loaded(q)' <=> Loaded(q)) /\ (Branded(q)' <=> Branded(q))
          /\ (Clean(t)' <=> Clean(t))
      BY <2>1 DEF On, InFlight, Raced, Right, Pc, Loaded, Branded, Clean
    <3>2. \A q \in Reqs : Apart(t, q)' <=> Apart(t, q)
      BY <2>1, <3>1 DEF Apart
    <3>3. \A q \in Reqs : Branding(t, q)' <=> Branding(t, q)
      BY <2>1, <3>1 DEF Branding, Right
    <3>4. Shows(t) => Shows(t)'
      BY <2>1, <3>1, ShowsStays DEF On, InFlight
    <3> QED
      BY <2>1, <3>1, <3>2, <3>3, <3>4 DEF KeptCatalog, KeptProvider, On, InFlight
  <2> QED
    BY <2>1, BasicsStep, ProviderRuns, ProviderStarts DEF KeptCatalog
<1> QED
  BY <1>1, <1>2 DEF KeptCatalog

LEMMA CatalogShows ==
  ASSUME Basics, KeptCatalog
  PROVE  ProviderIsBrand
<1> SUFFICES ASSUME NEW t \in Tours, tours[t].exists, AtRest(t), Clean(t),
                    tours[t].brand # NoBrand =>
                       /\ AtRest(tours[t].brand) /\ ~Raced(tours[t].brand)
                       /\ tours[t].brand \notin torn
             PROVE  tours[t].provider = Right(tours[t].brand)
  BY DEF ProviderIsBrand, Right, Clean
<1>1. Shows(t)
  BY DEF KeptCatalog, KeptProvider
<1>2. CASE tours[t].brand = NoBrand
  BY <1>1, <1>2 DEF Shows, Right
<1>3. CASE tours[t].brand # NoBrand
  <2> DEFINE b == tours[t].brand
  <2>1. b \in Brands
    BY <1>3 DEF Basics, KnownBrand
  <2>2. On(b) = {}
    <3>1. \A r \in On(b) : b \in TouchedBy(req[r].op) /\ r \in InFlight
      BY <2>1, BodiesAssumption DEF On, TouchedBy
    <3> QED
      BY <1>3, <3>1 DEF AtRest
  <2> QED
    BY <1>1, <1>3, <2>1, <2>2 DEF Shows, ShowsBrand
<1> QED
  BY <1>2, <1>3

\* The provider shown on a tour is its brand as it is now, or the site once the
\* brand is deleted, when the edits of the tour and of the brand followed one
\* another.
THEOREM ProviderIsTheBrand == Spec => []ProviderIsBrand
<1>1. Init => Basics /\ KeptCatalog
  BY BasicsInit, CatalogInit
<1>2. Basics /\ KeptCatalog /\ [Next]_vars => (Basics /\ KeptCatalog)'
  BY BasicsStep, CatalogStep
<1>3. Basics /\ KeptCatalog => ProviderIsBrand
  BY CatalogShows
<1> QED
  BY <1>1, <1>2, <1>3, PTL DEF Spec

-----------------------------------------------------------------------------
(* The images of a tour whose edits follow one another.                    *)

PictureColumns == {"images", "cover", "provider"}

\* A row of a tour shows the images and covers of its own requests, or a logo.
Pictured(t, row) ==
    /\ row.images \in Seq(Files) /\ FilesOf(row.images) \subseteq ImagesOf(t)
    /\ row.cover \in ImagesOf(t) \cup CoversOf(t) \cup Logos
    /\ row.provider.logo \in Logos

\* A request has the row as it was loaded.
HasOld(r) == \/ Pc(r) \in {"brand", "itinerary", "delete", "reload", "write", "unlink"}
                /\ req[r].op.kind # "create"
             \/ Pc(r) \in {"reloadBrand", "writeBrand", "sync", "unlinkLogo"}

HandPictured(r) ==
    r \in InFlight =>
        IF ForTour(r)
        THEN /\ Pictured(req[r].op.at, req[r].row)
             /\ HasOld(r) => Pictured(req[r].op.at, req[r].old)
        ELSE /\ req[r].row.logo \in Logos
             /\ HasOld(r) => req[r].old.logo \in Logos

AllPictured == /\ \A t \in Tours : Pictured(t, tours[t])
               /\ \A b \in Brands : brands[b].logo \in Logos
               /\ \A r \in Reqs : HandPictured(r)

\* The images a request has in hand are on disk, and it has saved, or is about
\* to save, all that its tour then shows.
InGallery(t, r) ==
    /\ FilesOf(req[r].row.images) \subseteq files
    /\ Given(req[r].op.images) => FilesOf(req[r].op.images) \subseteq files
    /\ Pc(r) = "write" => req[r].seen.images = tours[t].images
    /\ Pc(r) = "unlink" => tours[t].images = req[r].row.images

KeptGallery(t) ==
    ~Raced(t) => /\ Alone(t) /\ FilesOf(tours[t].images) \subseteq files
                 /\ \A r \in On(t) : InGallery(t, r)

-----------------------------------------------------------------------------
(* What a statement does to pictures and to files.                         *)

Takes(r) == /\ Pc(r) = "load" /\ UNCHANGED <<tours, brands, files>>
            /\ req'[r].old = tours[req[r].op.at]
            /\ req'[r].row = Edited(r, tours[req[r].op.at])

Carries(r) == /\ Pc(r) \in {"brand", "itinerary", "slug", "delete", "reload"}
              /\ UNCHANGED <<tours, brands, files>> /\ req'[r].old = req[r].old
              /\ Same(req'[r].row, req[r].row, {"images", "cover"})
              /\ \/ req'[r].row.provider = req[r].row.provider
                 \/ req'[r].row.provider.logo \in {""} \cup {brands[b].logo : b \in Brands}
              /\ Pc(r) = "reload" => req'[r].seen = tours[req[r].op.at]

Saves(r) == /\ Pc(r) = "write" /\ UNCHANGED <<brands, files>> /\ OnlyTour(req[r].op.at)
            /\ tours'[req[r].op.at] = SaveDiff(req[r].row, req[r].seen, tours[req[r].op.at])
            /\ req'[r].old = req[r].old /\ req'[r].row = req[r].row

Puts(r) == /\ Pc(r) = "insert" /\ Pc(r)' = "end" /\ UNCHANGED <<brands, files>>
           /\ OnlyTour(req[r].op.at)
           /\ LET row == Edited(r, req[r].row)
                  new == tours'[req[r].op.at]
              IN  /\ Same(new, row, {"images", "provider"})
                  /\ new.cover = IF Given(req[r].op.cover) THEN row.cover
                                 ELSE First(row.images, row.provider.logo)

Buries(r) == /\ Pc(r) = "softDelete" /\ Pc(r)' = "end" /\ UNCHANGED <<brands, files>>
             /\ OnlyTour(req[r].op.at)
             /\ Same(tours'[req[r].op.at], tours[req[r].op.at], PictureColumns)

Drops(r) == /\ Pc(r) = "unlink" /\ Pc(r)' = "end" /\ UNCHANGED <<tours, brands>>
            /\ files' = files \ Dropped(req[r].op, req[r].old, req[r].row)

GivesUp(r) == Pc(r)' = "end" /\ UNCHANGED <<tours, brands, files>>

Founds(s) == /\ Pc(s)' = "end" /\ UNCHANGED <<tours, files>> /\ OnlyBrand(req[s].op.at)
             /\ brands'[req[s].op.at].logo =
                   IF Given(req[s].op.logo) THEN req[s].op.logo ELSE ""

TakesBrand(s) == /\ Pc(s) = "loadBrand" /\ UNCHANGED <<tours, brands, files>>
                 /\ req'[s].old = brands[req[s].op.at]
                 /\ req'[s].row.logo = IF Given(req[s].op.logo) THEN req[s].op.logo
                                       ELSE brands[req[s].op.at].logo

CarriesBrand(s) == /\ Pc(s) = "reloadBrand" /\ UNCHANGED <<tours, brands, files>>
                   /\ req'[s].old = req[s].old /\ req'[s].row = req[s].row

SavesBrand(s) == /\ Pc(s) = "writeBrand" /\ UNCHANGED <<tours, files>> /\ OnlyBrand(req[s].op.at)
                 /\ brands'[req[s].op.at].logo \in {req[s].row.logo, brands[req[s].op.at].logo}
                 /\ req'[s].old = req[s].old /\ req'[s].row = req[s].row

StampsTours(s) ==
    /\ Pc(s) \in {"sync", "unstamp"} /\ UNCHANGED <<brands, files>>
    /\ req'[s].old = req[s].old /\ req'[s].row = req[s].row
    /\ \A t \in Tours :
          /\ Same(tours'[t], tours[t], {"images", "cover"})
          /\ \/ tours'[t].provider = tours[t].provider
             \/ tours'[t].provider.logo \in {"", req[s].row.logo}

BuriesBrand(s) == /\ Pc(s)' = "end" /\ UNCHANGED <<tours, files>>
                  /\ \A b \in Brands : brands'[b].logo = brands[b].logo

DropsLogo(s) == /\ Pc(s) = "unlinkLogo" /\ Pc(s)' = "end" /\ UNCHANGED <<tours, brands>>
                /\ files' = files \ Replaced(req[s].old.logo, req[s].row.logo)

TourPictures(r) ==
    Takes(r) \/ Carries(r) \/ Saves(r) \/ Puts(r) \/ Buries(r) \/ Drops(r) \/ GivesUp(r)
BrandPictures(s) ==
    \/ Founds(s) \/ TakesBrand(s) \/ CarriesBrand(s) \/ SavesBrand(s)
    \/ StampsTours(s) \/ BuriesBrand(s) \/ DropsLogo(s) \/ GivesUp(s)

\* A request goes on with what it has in hand.
LEMMA GoHas ==
  ASSUME IInv, NEW r \in Reqs, NEW new, DOMAIN new = Fields, Go(r, new)
  PROVE  req'[r].old = new.old /\ req'[r].row = new.row /\ req'[r].seen = new.seen
  BY DEF IInv, RequestsAre, Go, Fields, Idle

LEMMA GoAsIs ==
  ASSUME IInv, NEW r \in Reqs, Go(r, req[r])
  PROVE  req'[r].old = req[r].old /\ req'[r].row = req[r].row /\ req'[r].seen = req[r].seen
  BY GoHas DEF IInv, RequestsAre

LEMMA GoWithRow ==
  ASSUME IInv, NEW r \in Reqs, NEW row, Go(r, [req[r] EXCEPT !.row = row])
  PROVE  req'[r].old = req[r].old /\ req'[r].row = row
<1> DEFINE new == [req[r] EXCEPT !.row = row]
<1>1. DOMAIN req[r] = Fields
  BY DEF IInv, RequestsAre
<1>2. DOMAIN new = Fields /\ new.old = req[r].old /\ new.row = row
  BY <1>1 DEF Fields, Idle
<1> HIDE DEF new
<1>3. Go(r, new)
  BY DEF new
<1> QED
  BY <1>2, <1>3, GoHas

LEMMA LoadTakes ==
  ASSUME IInv, Control, NEW r \in Reqs, LoadTour(r)
  PROVE  Takes(r) \/ GivesUp(r)
<1> DEFINE at == req[r].op.at
           row == Edited(r, tours[at])
           new == [req[r] EXCEPT !.old = tours[at], !.row = row]
<1>1. req[r].todo # <<>> /\ Head(req[r].todo) = "load"
  BY DEF LoadTour, At
<1>2. Pc(r) = "load" /\ DOMAIN req[r] = Fields
  BY <1>1, AtTour DEF Stands
<1>3. CASE Stop(r, "refused")
  BY <1>1, <1>3, StopSets DEF LoadTour, GivesUp
<1>4. CASE Go(r, new)
  <2>1. DOMAIN new = Fields /\ new.old = tours[at] /\ new.row = row
    <3> HIDE DEF row
    <3> QED
      BY <1>2 DEF Fields, Idle
  <2>2. req'[r].old = tours[at] /\ req'[r].row = row
    <3> HIDE DEF new, row
    <3> QED
      BY <1>4, <2>1, GoHas
  <2> QED
    BY <1>2, <2>2 DEF LoadTour, Takes
<1> QED
  BY <1>3, <1>4 DEF LoadTour

LEMMA BrandCarries ==
  ASSUME IInv, Control, NEW r \in Reqs, ResolveBrand(r)
  PROVE  Carries(r) \/ GivesUp(r)
<1> DEFINE b == req[r].op.brand
           shown == BuildProvider(IF b = NoBrand THEN NoBrand ELSE brands[b])
           row == [req[r].row EXCEPT !.brand = b, !.provider = shown]
<1>1. req[r].todo # <<>> /\ Head(req[r].todo) = "brand"
  BY DEF ResolveBrand, At
<1>2. Stands(r) /\ Pc(r) = "brand" /\ DOMAIN req[r] = Fields /\ DOMAIN req[r].row = Columns
  BY <1>1, AtTour DEF Stands
<1>3. b \in Brands \cup {NoBrand}
  BY <1>2, BodiesAssumption DEF Stands, Uses, PromotionKinds
<1>4. CASE Stop(r, "refused")
  BY <1>1, <1>4, StopSets DEF ResolveBrand, GivesUp
<1>5. CASE ~Stop(r, "refused")
  <2>1. Go(r, [req[r] EXCEPT !.row.brand = b, !.row.provider = shown])
    BY <1>5 DEF ResolveBrand
  <2>2. [req[r] EXCEPT !.row.brand = b, !.row.provider = shown] = [req[r] EXCEPT !.row = row]
    BY <1>2 DEF Fields, Idle
  <2>3. req'[r].row = row /\ req'[r].old = req[r].old
    <3> HIDE DEF row
    <3> QED
      BY <2>1, <2>2, GoWithRow
  <2>4. row.provider = shown /\ Same(row, req[r].row, {"images", "cover"})
    BY <1>2 DEF Columns, NewTour, Same
  <2>5. shown.logo \in {""} \cup {brands[x].logo : x \in Brands}
    BY <1>3 DEF BuildProvider, SiteProvider
  <2> HIDE DEF row, shown
  <2> QED
    BY <1>2, <2>3, <2>4, <2>5 DEF ResolveBrand, Carries
<1> QED
  BY <1>4, <1>5

LEMMA ItineraryCarries ==
  ASSUME IInv, Control, NEW r \in Reqs, ResolveItinerary(r)
  PROVE  Carries(r) \/ GivesUp(r)
<1> DEFINE row == WithItinerary(req[r].row, req[r].op.stops)
<1>1. req[r].todo # <<>> /\ Head(req[r].todo) = "itinerary"
  BY DEF ResolveItinerary, At
<1>2. Pc(r) = "itinerary" /\ DOMAIN req[r] = Fields /\ DOMAIN req[r].row = Columns
  BY <1>1, AtTour DEF Stands
<1>3. CASE Stop(r, "refused")
  BY <1>1, <1>3, StopSets DEF ResolveItinerary, GivesUp
<1>4. CASE ~Stop(r, "refused")
  <2>1. Go(r, [req[r] EXCEPT !.row = row])
    BY <1>2, <1>4 DEF ResolveItinerary, Fields, Idle
  <2>2. req'[r].row = row /\ req'[r].old = req[r].old
    <3> HIDE DEF row
    <3> QED
      BY <2>1, GoWithRow
  <2>3. Same(row, req[r].row, PictureColumns)
    BY <1>2 DEF WithItinerary, Columns, NewTour, Same, PictureColumns
  <2> HIDE DEF row
  <2> QED
    BY <1>2, <2>2, <2>3 DEF ResolveItinerary, Carries, Same, PictureColumns
<1> QED
  BY <1>3, <1>4

LEMMA SlugCarries ==
  ASSUME IInv, Control, NEW r \in Reqs, UniqueSlug(r)
  PROVE  Carries(r)
<1> DEFINE row == [req[r].row EXCEPT !.slug = Slug(req[r].row)]
<1>1. req[r].todo # <<>> /\ Head(req[r].todo) = "slug"
  BY DEF UniqueSlug, At
<1>2. Pc(r) = "slug" /\ DOMAIN req[r] = Fields /\ DOMAIN req[r].row = Columns
  BY <1>1, AtTour DEF Stands
<1>3. Go(r, [req[r] EXCEPT !.row = row])
  BY <1>2 DEF UniqueSlug, Fields, Idle
<1>4. req'[r].row = row /\ req'[r].old = req[r].old
  <2> HIDE DEF row
  <2> QED
    BY <1>3, GoWithRow
<1>5. Same(row, req[r].row, PictureColumns)
  BY <1>2 DEF Columns, NewTour, Same, PictureColumns
<1> HIDE DEF row
<1> QED
  BY <1>2, <1>4, <1>5 DEF UniqueSlug, Carries, Same, PictureColumns

LEMMA DeleteCarries ==
  ASSUME IInv, Control, NEW r \in Reqs, DeleteStops(r)
  PROVE  Carries(r)
<1>1. req[r].todo # <<>> /\ Head(req[r].todo) = "delete"
  BY DEF DeleteStops, At
<1>2. Pc(r) = "delete"
  BY <1>1, AtTour DEF Stands
<1>3. req'[r].old = req[r].old /\ req'[r].row = req[r].row
  BY GoAsIs DEF DeleteStops
<1> QED
  BY <1>2, <1>3 DEF DeleteStops, Carries, Same

LEMMA ReloadCarries ==
  ASSUME IInv, Control, NEW r \in Reqs, ReloadTour(r)
  PROVE  Carries(r)
<1> DEFINE seen == tours[req[r].op.at]
           seenStops == IF Given(req[r].op.stops) THEN stops[req[r].op.at] ELSE {}
           new == [req[r] EXCEPT !.seen = seen, !.seenStops = seenStops]
<1>1. req[r].todo # <<>> /\ Head(req[r].todo) = "reload"
  BY DEF ReloadTour, At
<1>2. Pc(r) = "reload" /\ DOMAIN req[r] = Fields
  BY <1>1, AtTour DEF Stands
<1>3. DOMAIN new = Fields /\ new.old = req[r].old /\ new.row = req[r].row /\ new.seen = seen
  <2> HIDE DEF seen, seenStops
  <2> QED
    BY <1>2 DEF Fields, Idle
<1>4. req'[r].old = req[r].old /\ req'[r].row = req[r].row /\ req'[r].seen = seen
  <2>1. Go(r, new)
    BY DEF ReloadTour
  <2> HIDE DEF new, seen
  <2> QED
    BY <1>3, <2>1, GoHas
<1> QED
  BY <1>2, <1>4 DEF ReloadTour, Carries, Same

LEMMA WriteSaves ==
  ASSUME IInv, Control, NEW r \in Reqs, WriteTour(r)
  PROVE  Saves(r) \/ GivesUp(r)
<1> DEFINE at == req[r].op.at
           saved == SaveDiff(req[r].row, req[r].seen, tours[at])
<1>1. req[r].todo # <<>> /\ Head(req[r].todo) = "write"
  BY DEF WriteTour, At
<1>2. Pc(r) = "write" /\ at \in Tours
  BY <1>1, AtTour DEF Stands
<1>3. CASE Stop(r, "failed") /\ UNCHANGED tours
  BY <1>1, <1>3, StopSets DEF WriteTour, GivesUp
<1>4. CASE tours' = [tours EXCEPT ![at] = saved] /\ Go(r, req[r])
  <2>1. tours'[at] = saved /\ OnlyTour(at)
    <3> HIDE DEF saved
    <3> QED
      BY <1>2, <1>4 DEF IInv, RowsAre, OnlyTour
  <2>2. req'[r].old = req[r].old /\ req'[r].row = req[r].row
    BY <1>4, GoAsIs
  <2> QED
    BY <1>2, <2>1, <2>2 DEF WriteTour, Saves
<1> QED
  BY <1>3, <1>4 DEF WriteTour

LEMMA InsertPuts ==
  ASSUME IInv, Control, NEW r \in Reqs, InsertTour(r)
  PROVE  Puts(r) \/ GivesUp(r)
<1> DEFINE at == req[r].op.at
           row == Edited(r, req[r].row)
           cover == IF Given(req[r].op.cover) THEN row.cover
                    ELSE First(row.images, row.provider.logo)
           inserted == [row EXCEPT !.exists = TRUE, !.cover = cover]
<1>1. req[r].todo # <<>> /\ Head(req[r].todo) = "insert"
  BY DEF InsertTour, At
<1>2. Pc(r) = "insert" /\ at \in Tours /\ DOMAIN req[r].row = Columns
  BY <1>1, AtTour DEF Stands
<1>3. CASE Stop(r, "failed") /\ UNCHANGED <<tours, stops>>
  BY <1>1, <1>3, StopSets DEF InsertTour, GivesUp
<1>4. CASE ~(Stop(r, "failed") /\ UNCHANGED <<tours, stops>>)
  <2>1. tours' = [tours EXCEPT ![at] = inserted] /\ Go(r, req[r])
    BY <1>4 DEF InsertTour
  <2>2. Pc(r)' = After(req[r].op, Pc(r))
    BY <1>1, <2>1, GoesOnAsIs
  <2>3. tours'[at] = inserted /\ OnlyTour(at)
    <3> HIDE DEF inserted
    <3> QED
      BY <1>2, <2>1 DEF IInv, RowsAre, OnlyTour
  <2>4. DOMAIN row = Columns
    BY <1>2 DEF Edited
  <2>5. Same(inserted, row, {"images", "provider"}) /\ inserted.cover = cover
    <3> HIDE DEF row, cover
    <3> QED
      BY <2>4 DEF Columns, NewTour, Same
  <2> HIDE DEF inserted
  <2> QED
    BY <1>2, <2>2, <2>3, <2>5 DEF InsertTour, Puts, After
<1> QED
  BY <1>3, <1>4

LEMMA SoftDeleteBuries ==
  ASSUME IInv, Control, NEW r \in Reqs, SoftDeleteTour(r)
  PROVE  Buries(r)
<1> DEFINE at == req[r].op.at
<1>1. req[r].todo # <<>> /\ Head(req[r].todo) = "softDelete"
  BY DEF SoftDeleteTour, At
<1>2. Pc(r) = "softDelete" /\ at \in Tours /\ DOMAIN tours[at] = Columns
  BY <1>1, AtTour DEF Stands
<1>3. Pc(r)' = After(req[r].op, Pc(r))
  BY <1>1, GoesOnAsIs DEF SoftDeleteTour
<1>4. tours'[at] = [tours[at] EXCEPT !.deleted = TRUE] /\ OnlyTour(at)
  BY <1>2 DEF SoftDeleteTour, IInv, RowsAre, OnlyTour
<1>5. Same([tours[at] EXCEPT !.deleted = TRUE], tours[at], PictureColumns)
  BY <1>2 DEF Columns, NewTour, Same, PictureColumns
<1> QED
  BY <1>2, <1>3, <1>4, <1>5 DEF SoftDeleteTour, Buries, After

LEMMA UnlinkDrops ==
  ASSUME IInv, Control, NEW r \in Reqs
  PROVE  (UnlinkImages(r) => Drops(r)) /\ (UnlinkLogo(r) => DropsLogo(r))
<1>1. ASSUME UnlinkImages(r) PROVE Drops(r)
  <2>1. req[r].todo # <<>> /\ Head(req[r].todo) = "unlink" /\ Go(r, req[r])
    BY <1>1 DEF UnlinkImages, At
  <2>2. Pc(r) = "unlink" /\ Pc(r)' = After(req[r].op, Pc(r))
    BY <2>1, Standing, GoesOnAsIs DEF Stands
  <2> QED
    BY <1>1, <2>2 DEF UnlinkImages, DeleteByUrls, Drops, After
<1>2. ASSUME UnlinkLogo(r) PROVE DropsLogo(r)
  <2>1. req[r].todo # <<>> /\ Head(req[r].todo) = "unlinkLogo" /\ Go(r, req[r])
    BY <1>2 DEF UnlinkLogo, At
  <2>2. Pc(r) = "unlinkLogo" /\ Pc(r)' = After(req[r].op, Pc(r))
    BY <2>1, Standing, GoesOnAsIs DEF Stands
  <2> QED
    BY <1>2, <2>2 DEF UnlinkLogo, DeleteByUrls, DropsLogo, After
<1> QED
  BY <1>1, <1>2

LEMMA InsertBrandFounds ==
  ASSUME IInv, Control, DOMAIN brands = Brands, NEW r \in Reqs, InsertBrand(r)
  PROVE  Founds(r)
<1> DEFINE b == req[r].op.at
           row == [EditedBrand(req[r].op, NewBrand) EXCEPT !.exists = TRUE]
<1>1. InsertsBrand(r)
  BY InsertBrandDoes
<1>2. req[r].todo # <<>> /\ Head(req[r].todo) = "insertBrand"
  BY DEF InsertBrand, At
<1>3. b \in Brands
  BY <1>2, AtBrand DEF BrandSteps
<1>4. brands'[b] = row
  <2>1. brands' = [brands EXCEPT ![b] = row]
    BY DEF InsertBrand
  <2> HIDE DEF row
  <2> QED
    BY <1>3, <2>1
<1>5. row.logo = IF Given(req[r].op.logo) THEN req[r].op.logo ELSE ""
  BY DEF EditedBrand, NewBrand
<1> HIDE DEF row
<1> QED
  BY <1>1, <1>4, <1>5 DEF InsertsBrand, InsertBrand, Founds

LEMMA LoadBrandTakes ==
  ASSUME IInv, Control, NEW r \in Reqs, LoadBrand(r),
         \A b \in Brands : DOMAIN brands[b] = DOMAIN NewBrand
  PROVE  TakesBrand(r) \/ GivesUp(r)
<1> DEFINE b == req[r].op.at
           row == EditedBrand(req[r].op, brands[b])
           new == [req[r] EXCEPT !.old = brands[b], !.row = row]
<1>1. req[r].todo # <<>> /\ Head(req[r].todo) = "loadBrand"
  BY DEF LoadBrand, At
<1>2. Pc(r) = "loadBrand" /\ b \in Brands /\ DOMAIN req[r] = Fields
  BY <1>1, AtBrand DEF Stands, BrandSteps
<1>3. CASE Stop(r, "refused")
  BY <1>1, <1>3, StopSets DEF LoadBrand, GivesUp
<1>4. CASE Go(r, new)
  <2>1. DOMAIN new = Fields /\ new.old = brands[b] /\ new.row = row
    <3> HIDE DEF row
    <3> QED
      BY <1>2 DEF Fields, Idle
  <2>2. req'[r].old = brands[b] /\ req'[r].row = row
    <3> HIDE DEF new, row
    <3> QED
      BY <1>4, <2>1, GoHas
  <2>3. row.logo = IF Given(req[r].op.logo) THEN req[r].op.logo ELSE brands[b].logo
    BY <1>2 DEF EditedBrand, NewBrand
  <2> HIDE DEF row, new
  <2> QED
    BY <1>2, <2>2, <2>3 DEF LoadBrand, TakesBrand
<1> QED
  BY <1>3, <1>4 DEF LoadBrand

LEMMA ReloadBrandCarries ==
  ASSUME IInv, Control, NEW r \in Reqs, ReloadBrand(r)
  PROVE  CarriesBrand(r)
<1> DEFINE seen == brands[req[r].op.at]
           new == [req[r] EXCEPT !.seen = seen]
<1>1. req[r].todo # <<>> /\ Head(req[r].todo) = "reloadBrand"
  BY DEF ReloadBrand, At
<1>2. Pc(r) = "reloadBrand" /\ DOMAIN req[r] = Fields
  BY <1>1, AtBrand DEF Stands, BrandSteps
<1>3. DOMAIN new = Fields /\ new.old = req[r].old /\ new.row = req[r].row
  <2> HIDE DEF seen
  <2> QED
    BY <1>2 DEF Fields, Idle
<1>4. req'[r].old = req[r].old /\ req'[r].row = req[r].row
  <2>1. Go(r, new)
    BY DEF ReloadBrand
  <2> HIDE DEF new
  <2> QED
    BY <1>3, <2>1, GoHas
<1> QED
  BY <1>2, <1>4 DEF ReloadBrand, CarriesBrand

LEMMA WriteBrandSaves ==
  ASSUME IInv, Control, BrandRows, NEW r \in Reqs, WriteBrand(r)
  PROVE  SavesBrand(r)
<1> DEFINE b == req[r].op.at
<1>1. WritesBrand(r)
  BY WriteBrandDoes DEF BrandRows
<1>2. req[r].todo # <<>> /\ Head(req[r].todo) = "writeBrand"
  BY DEF WriteBrand, At
<1>3. b \in Brands /\ "logo" \in DOMAIN brands[b]
  <2>1. b \in Brands
    BY <1>2, AtBrand DEF BrandSteps
  <2> QED
    BY <2>1 DEF BrandRows, NewBrand
<1>4. SaveDiff(req[r].row, req[r].seen, brands[b]).logo \in {req[r].row.logo, brands[b].logo}
  BY <1>3 DEF SaveDiff
<1>5. req'[r].old = req[r].old
  BY GoAsIs DEF WriteBrand
<1> QED
  BY <1>1, <1>4, <1>5 DEF WritesBrand, WriteBrand, SavesBrand

LEMMA StampStamps ==
  ASSUME IInv, Control, NEW r \in Reqs, SyncTourProviders(r) \/ UnstampTours(r)
  PROVE  StampsTours(r)
<1> DEFINE b == req[r].op.at
<1>1. req[r].todo # <<>> /\ Head(req[r].todo) \in {"sync", "unstamp"} /\ Go(r, req[r])
  BY DEF SyncTourProviders, UnstampTours, At
<1>2. Pc(r) \in {"sync", "unstamp"}
  BY <1>1, AtBrand DEF Stands, BrandSteps
<1>3. PICK provider \in {SiteProvider, BuildProvider(req[r].row)} : Stamp(b, provider)
  BY DEF SyncTourProviders, UnstampTours
<1>4. provider.logo \in {"", req[r].row.logo}
  <2>1. SiteProvider.logo = ""
    BY DEF SiteProvider
  <2>2. BuildProvider(req[r].row).logo \in {"", req[r].row.logo}
    BY <2>1 DEF BuildProvider
  <2> QED
    BY <2>1, <2>2
<1>5. ASSUME NEW t \in Tours
      PROVE  /\ Same(tours'[t], tours[t], {"images", "cover"})
             /\ tours'[t].provider = tours[t].provider \/ tours'[t].provider = provider
  <2>1. tours'[t] = IF tours[t].brand = b THEN [tours[t] EXCEPT !.provider = provider] ELSE tours[t]
    BY <1>3 DEF Stamp
  <2>2. DOMAIN tours[t] = Columns /\ {"images", "cover", "provider"} \subseteq Columns
    BY DEF IInv, RowsAre, Columns, NewTour
  <2> HIDE DEF b
  <2> QED
    BY <2>1, <2>2 DEF Same
<1>6. req'[r].old = req[r].old /\ req'[r].row = req[r].row /\ UNCHANGED <<brands, files>>
  BY <1>1, GoAsIs DEF SyncTourProviders, UnstampTours
<1> QED
  BY <1>2, <1>4, <1>5, <1>6 DEF StampsTours

LEMMA SoftDeleteBrandBuries ==
  ASSUME IInv, Control, BrandRows, NEW r \in Reqs, SoftDeleteBrand(r)
  PROVE  BuriesBrand(r)
<1>1. SoftDeletesBrand(r)
  BY SoftDeleteBrandDoes DEF BrandRows
<1>2. \A b \in Brands : brands'[b].logo = brands[b].logo
  BY <1>1 DEF SoftDeletesBrand, BrandRows, NewBrand
<1> QED
  BY <1>1, <1>2 DEF SoftDeletesBrand, SoftDeleteBrand, BuriesBrand

LEMMA Pictures ==
  ASSUME IInv, Control, BrandRows, NEW r \in Reqs, TourStep(r) \/ BrandStep(r) \/ Fail(r)
  PROVE  IF ForTour(r) THEN TourPictures(r) ELSE BrandPictures(r)
<1>1. req[r].todo # <<>>
  <2>1. Moves(r)
    BY LoadMoves, ResolveMoves, PlainMoves, WriteMoves, InsertMoves, SoftDeleteMoves, BrandMoves
    DEF TourStep
  <2> QED
    BY <2>1 DEF Moves, Proceeds
<1>2. ASSUME TourStep(r) PROVE ForTour(r) /\ TourPictures(r)
  <2>1. Head(req[r].todo) \in {"load", "brand", "itinerary", "slug", "delete", "reload", "write",
                               "unlink", "insert", "softDelete"}
    BY <1>2 DEF TourStep, LoadTour, ResolveBrand, ResolveItinerary, DeleteStops, ReloadTour,
                WriteTour, UnlinkImages, UniqueSlug, InsertTour, SoftDeleteTour, At
  <2>2. ForTour(r)
    BY <1>1, <2>1, AtTour
  <2>3. TourPictures(r)
    BY <1>2, LoadTakes, BrandCarries, ItineraryCarries, SlugCarries, DeleteCarries,
       ReloadCarries, WriteSaves, InsertPuts, SoftDeleteBuries, UnlinkDrops
       DEF TourStep, TourPictures
  <2> QED
    BY <2>2, <2>3
<1>3. ASSUME BrandStep(r) PROVE ~ForTour(r) /\ BrandPictures(r)
  <2>1. Head(req[r].todo) \in BrandSteps
    BY <1>3 DEF BrandStep, InsertBrand, LoadBrand, ReloadBrand, WriteBrand, SyncTourProviders,
                UnlinkLogo, UnstampTours, SoftDeleteBrand, At, BrandSteps
  <2>2. ~ForTour(r)
    BY <1>1, <2>1, AtBrand
  <2>3. BrandPictures(r)
    BY <1>3, InsertBrandFounds, LoadBrandTakes, ReloadBrandCarries, WriteBrandSaves, StampStamps,
       SoftDeleteBrandBuries, UnlinkDrops DEF BrandStep, BrandPictures, BrandRows
  <2> QED
    BY <2>2, <2>3
<1>4. ASSUME Fail(r) PROVE GivesUp(r)
  BY <1>1, <1>4, StopSets DEF Fail, GivesUp
<1> QED
  BY <1>2, <1>3, <1>4 DEF TourPictures, BrandPictures

-----------------------------------------------------------------------------
(* Rows show the pictures of their own requests.                           *)

LEMMA FirstImage ==
  ASSUME NEW images \in Seq(Files), images # <<>>
  PROVE  images[1] \in FilesOf(images)
  BY EmptySeq DEF FilesOf

LEMMA OwnFields ==
  ASSUME NEW op \in Ops
  PROVE  /\ Given(op.images) => /\ op.images \in Seq(Files)
                                /\ FilesOf(op.images) \subseteq ImagesOf(op.at)
         /\ Given(op.cover) => op.cover \in CoversOf(op.at)
         /\ Given(op.logo) => op.logo \in Logos
<1>1. Given(op.images) => FilesOf(op.images) \subseteq ImagesOf(op.at)
  BY DEF ImagesOf
<1>2. Given(op.cover) => op.cover \in CoversOf(op.at)
  BY DEF CoversOf
<1>3. Given(op.logo) => op.logo \in Logos
  BY DEF Logos
<1> QED
  BY <1>1, <1>2, <1>3, BodiesAssumption

LEMMA EditedImages ==
  ASSUME NEW r \in Reqs, NEW row, DOMAIN row = Columns
  PROVE  LET op == req[r].op
             new == Edited(r, row)
         IN  /\ DOMAIN new = Columns /\ new.provider = row.provider
             /\ \/ new.images = row.images
                \/ Given(op.images) /\ new.images = op.images
             /\ \/ new.cover = row.cover
                \/ Given(op.cover) /\ new.cover = op.cover
                \/ Given(op.images) /\ op.images # <<>> /\ new.cover = op.images[1]
<1> DEFINE op == req[r].op
           images == IF Given(op.images) THEN op.images ELSE row.images
           cover == IF Given(op.cover) THEN op.cover
                    ELSE IF Given(op.images) THEN First(op.images, row.cover) ELSE row.cover
           published == IF Given(op.published) THEN op.published ELSE row.published
           other == [row EXCEPT !.images = images, !.cover = cover, !.published = published]
<1>1. \/ \E promos : Edited(r, row) = [row EXCEPT !.promos = promos]
      \/ Edited(r, row) = other
  BY DEF Edited
<1>2. CASE \E promos : Edited(r, row) = [row EXCEPT !.promos = promos]
  BY <1>2 DEF Columns, NewTour
<1>3. CASE Edited(r, row) = other
  <2>1. DOMAIN other = Columns /\ other.provider = row.provider
        /\ other.images = images /\ other.cover = cover
    <3> HIDE DEF images, cover, published
    <3> QED
      BY DEF Columns, NewTour
  <2> QED
    BY <1>3, <2>1 DEF First
<1> QED
  BY <1>1, <1>2, <1>3

LEMMA EditedPictured ==
  ASSUME NEW r \in Reqs, req[r].op \in Ops, NEW row, DOMAIN row = Columns,
         Pictured(req[r].op.at, row)
  PROVE  Pictured(req[r].op.at, Edited(r, row))
<1> DEFINE op == req[r].op
           new == Edited(r, row)
<1>1. /\ Given(op.images) => /\ op.images \in Seq(Files)
                             /\ FilesOf(op.images) \subseteq ImagesOf(op.at)
      /\ Given(op.cover) => op.cover \in CoversOf(op.at)
  BY OwnFields
<1>2. /\ new.provider = row.provider
      /\ \/ new.images = row.images
         \/ Given(op.images) /\ new.images = op.images
      /\ \/ new.cover = row.cover
         \/ Given(op.cover) /\ new.cover = op.cover
         \/ Given(op.images) /\ op.images # <<>> /\ new.cover = op.images[1]
  BY EditedImages
<1>3. Given(op.images) /\ op.images # <<>> => op.images[1] \in ImagesOf(op.at)
  BY <1>1, FirstImage
<1> QED
  BY <1>1, <1>2, <1>3 DEF Pictured

LEMMA SavedPictured ==
  ASSUME NEW t, NEW entity, NEW seen, NEW row, DOMAIN row = Columns,
         Pictured(t, entity), Pictured(t, row)
  PROVE  Pictured(t, SaveDiff(entity, seen, row))
<1> DEFINE new == SaveDiff(entity, seen, row)
<1>1. PictureColumns \subseteq DOMAIN row
  BY DEF PictureColumns, Columns, NewTour
<1>2. \A c \in PictureColumns : new[c] = entity[c] \/ new[c] = row[c]
  BY <1>1 DEF SaveDiff
<1>3. /\ new.images = entity.images \/ new.images = row.images
      /\ new.cover = entity.cover \/ new.cover = row.cover
      /\ new.provider = entity.provider \/ new.provider = row.provider
  BY <1>2 DEF PictureColumns
<1> QED
  BY <1>3 DEF Pictured

LEMMA SamePictured ==
  ASSUME NEW t, NEW new, NEW row, Same(new, row, {"images", "cover"}), Pictured(t, row),
         new.provider.logo \in Logos
  PROVE  Pictured(t, new)
  BY DEF Same, Pictured

LEMMA PutPictured ==
  ASSUME Basics, AllPictured, NEW r \in Reqs, Statement(r), ForTour(r), Puts(r)
  PROVE  Pictured(req[r].op.at, tours'[req[r].op.at])
<1> DEFINE op == req[r].op
           row == Edited(r, req[r].row)
           new == tours'[op.at]
<1>1. r \in InFlight /\ op \in Ops
  BY OneRuns
<1>2. DOMAIN req[r].row = Columns /\ Pictured(op.at, req[r].row)
  BY <1>1 DEF Basics, IInv, RequestsAre, Begun, ForTour, AllPictured, HandPictured
<1>3. Pictured(op.at, row)
  BY <1>1, <1>2, EditedPictured
<1>4. /\ Same(new, row, {"images", "provider"})
      /\ new.cover = IF Given(op.cover) THEN row.cover ELSE First(row.images, row.provider.logo)
  BY DEF Puts
<1>5. new.cover \in ImagesOf(op.at) \cup CoversOf(op.at) \cup Logos
  <2>1. row.images \in Seq(Files) /\ (row.images # <<>> => row.images[1] \in ImagesOf(op.at))
    BY <1>3, FirstImage DEF Pictured
  <2> QED
    BY <1>3, <1>4, <2>1 DEF First, Pictured
<1>6. new.images = row.images /\ new.provider = row.provider
  BY <1>4 DEF Same
<1> QED
  BY <1>3, <1>5, <1>6 DEF Pictured

\* One statement of the request of a tour.
LEMMA TourKeepsPictures ==
  ASSUME Basics, AllPictured, NEW r \in Reqs, Statement(r), ForTour(r), TourPictures(r)
  PROVE  /\ \A t \in Tours : Pictured(t, tours'[t])
         /\ \A b \in Brands : brands'[b].logo \in Logos
         /\ Pc(r)' # "end" => /\ Pictured(req[r].op.at, req'[r].row)
                              /\ HasOld(r)' => Pictured(req[r].op.at, req'[r].old)
<1> DEFINE op == req[r].op
           at == op.at
<1>1. /\ r \in InFlight /\ op \in Ops /\ Uses(op, Pc(r)) /\ req'[r].op = op /\ at \in Tours
      /\ Pc(r)' = "end" \/ Pc(r)' = After(op, Pc(r))
  BY OneRuns, Advances DEF Basics, Statement
<1>2. /\ Pictured(at, req[r].row) /\ (HasOld(r) => Pictured(at, req[r].old))
      /\ DOMAIN tours[at] = Columns /\ DOMAIN req[r].row = Columns
      /\ \A t \in Tours : Pictured(t, tours[t])
      /\ \A b \in Brands : brands[b].logo \in Logos
  BY <1>1 DEF Basics, IInv, RowsAre, RequestsAre, Begun, ForTour, AllPictured, HandPictured
<1> HIDE DEF op, at
<1>3. CASE Takes(r)
  <2>1. Pictured(at, Edited(r, tours[at]))
    BY <1>1, <1>2, EditedPictured DEF at, op
  <2> QED
    BY <1>1, <1>2, <1>3, <2>1 DEF Takes, at, op
<1>4. CASE Carries(r)
  <2>1. req'[r].row.provider.logo \in Logos
    BY <1>2, <1>4 DEF Carries, Pictured, Logos
  <2>2. Pictured(at, req'[r].row)
    BY <1>2, <1>4, <2>1, SamePictured DEF Carries
  <2>3. HasOld(r)' => HasOld(r)
    <3>1. Pc(r) \in {"brand", "itinerary", "slug", "delete", "reload"}
      BY <1>4 DEF Carries
    <3>2. Pc(r) = "slug" => op.kind = "create"
      BY <1>1 DEF Uses, PromotionKinds
    <3>3. Pc(r)' \notin {"reloadBrand", "writeBrand", "sync", "unlinkLogo"}
      BY <1>1, <3>1 DEF After
    <3> QED
      BY <1>1, <3>1, <3>2, <3>3 DEF HasOld, op
  <2> QED
    BY <1>1, <1>2, <1>4, <2>2, <2>3 DEF Carries, at, op
<1>5. CASE Saves(r)
  <2>1. Pictured(at, tours'[at])
    <3>1. tours'[at] = SaveDiff(req[r].row, req[r].seen, tours[at])
      BY <1>5 DEF Saves, at, op
    <3>2. Pictured(at, req[r].row) /\ Pictured(at, tours[at]) /\ DOMAIN tours[at] = Columns
      BY <1>1, <1>2
    <3> QED
      BY <3>1, <3>2, SavedPictured
  <2>2. \A t \in Tours : Pictured(t, tours'[t])
    BY <1>2, <1>5, <2>1 DEF Saves, OnlyTour, at, op
  <2>3. HasOld(r)
    <3>1. Pc(r) = "write" /\ op.kind # "create"
      BY <1>1, <1>5 DEF Saves, Uses, PromotionKinds
    <3> QED
      BY <3>1 DEF HasOld, op
  <2> QED
    BY <1>2, <1>5, <2>2, <2>3 DEF Saves, at, op
<1>6. CASE Puts(r)
  <2>1. Pictured(at, tours'[at])
    BY <1>6, PutPictured DEF at, op
  <2> QED
    BY <1>2, <1>6, <2>1 DEF Puts, OnlyTour, at, op
<1>7. CASE Buries(r)
  <2>1. Pictured(at, tours'[at])
    BY <1>1, <1>2, <1>7 DEF Buries, Same, PictureColumns, Pictured, at, op
  <2> QED
    BY <1>2, <1>7, <2>1 DEF Buries, OnlyTour, at, op
<1>8. CASE Drops(r) \/ GivesUp(r)
  BY <1>2, <1>8 DEF Drops, GivesUp
<1> QED
  BY <1>3, <1>4, <1>5, <1>6, <1>7, <1>8 DEF TourPictures, at, op

\* One statement of the request of a brand.
LEMMA BrandKeepsPictures ==
  ASSUME Basics, AllPictured, NEW r \in Reqs, Statement(r), ~ForTour(r), BrandPictures(r)
  PROVE  /\ \A t \in Tours : Pictured(t, tours'[t])
         /\ \A b \in Brands : brands'[b].logo \in Logos
         /\ Pc(r)' # "end" => /\ req'[r].row.logo \in Logos
                              /\ HasOld(r)' => req'[r].old.logo \in Logos
<1> DEFINE op == req[r].op
           at == op.at
<1>1. /\ r \in InFlight /\ op \in Ops /\ Uses(op, Pc(r)) /\ req'[r].op = op /\ at \in Brands
      /\ Pc(r)' = "end" \/ Pc(r)' = After(op, Pc(r))
  BY OneRuns, Advances DEF Basics, Statement
<1>2. /\ req[r].row.logo \in Logos /\ (HasOld(r) => req[r].old.logo \in Logos)
      /\ \A t \in Tours : Pictured(t, tours[t])
      /\ \A b \in Brands : brands[b].logo \in Logos
      /\ (Given(op.logo) => op.logo \in Logos) /\ "" \in Logos
  BY <1>1, OwnFields DEF AllPictured, HandPictured, Logos
<1> HIDE DEF op, at
<1>3. CASE Founds(r)
  BY <1>1, <1>2, <1>3 DEF Founds, OnlyBrand, at, op
<1>4. CASE TakesBrand(r)
  BY <1>1, <1>2, <1>4 DEF TakesBrand, at, op
<1>5. CASE CarriesBrand(r)
  BY <1>2, <1>5 DEF CarriesBrand, HasOld
<1>6. CASE SavesBrand(r)
  BY <1>1, <1>2, <1>6 DEF SavesBrand, HasOld, OnlyBrand, at, op
<1>7. CASE StampsTours(r)
  <2>1. ASSUME NEW t \in Tours PROVE Pictured(t, tours'[t])
    <3>1. tours'[t].provider.logo \in Logos
      BY <1>2, <1>7 DEF StampsTours, Pictured
    <3>2. Same(tours'[t], tours[t], {"images", "cover"})
      BY <1>7 DEF StampsTours
    <3> QED
      BY <1>2, <3>1, <3>2, SamePictured
  <2>2. HasOld(r)' => HasOld(r)
    <3>1. Pc(r) \in {"sync", "unstamp"}
      BY <1>7 DEF StampsTours
    <3>2. Pc(r) = "unstamp" => Pc(r)' \in {"end", "softDeleteBrand"}
      BY <1>1 DEF After
    <3> QED
      BY <3>1, <3>2 DEF HasOld
  <2> QED
    BY <1>2, <1>7, <2>1, <2>2 DEF StampsTours
<1>8. CASE BuriesBrand(r)
  BY <1>2, <1>8 DEF BuriesBrand
<1>9. CASE DropsLogo(r) \/ GivesUp(r)
  BY <1>2, <1>9 DEF DropsLogo, GivesUp
<1> QED
  BY <1>3, <1>4, <1>5, <1>6, <1>7, <1>8, <1>9 DEF BrandPictures

LEMMA PicturedRuns ==
  ASSUME Basics, AllPictured, NEW r \in Reqs, Statement(r),
         IF ForTour(r) THEN TourPictures(r) ELSE BrandPictures(r)
  PROVE  AllPictured'
<1>1. /\ req'[r].op = req[r].op /\ (r \in InFlight' <=> Pc(r)' # "end") /\ req[r].op \in Ops
      /\ \A q \in Reqs \ {r} : /\ req'[q] = req[q] /\ Pc(q)' = Pc(q)
                               /\ (q \in InFlight' <=> q \in InFlight)
  BY OneRuns
<1>2. ForTour(r)' <=> ForTour(r)
  <2>1. req'[r] # Idle /\ req[r] # Idle
    BY <1>1, OpsAssumption DEF Idle
  <2> QED
    BY <1>1, <2>1 DEF ForTour
<1>3. HandPictured(r)'
  BY <1>1, <1>2, TourKeepsPictures, BrandKeepsPictures DEF HandPictured
<1>4. ASSUME NEW q \in Reqs \ {r} PROVE HandPictured(q)'
  <2>1. /\ (ForTour(q)' <=> ForTour(q)) /\ (HasOld(q)' <=> HasOld(q))
        /\ req'[q] = req[q] /\ (q \in InFlight' <=> q \in InFlight) /\ HandPictured(q)
    BY <1>1 DEF ForTour, HasOld, AllPictured
  <2> QED
    BY <2>1 DEF HandPictured
<1>5. (\A t \in Tours : Pictured(t, tours'[t])) /\ \A b \in Brands : brands'[b].logo \in Logos
  BY TourKeepsPictures, BrandKeepsPictures
<1> QED
  BY <1>3, <1>4, <1>5 DEF AllPictured

LEMMA NewPictured ==
  ASSUME NEW t
  PROVE  Pictured(t, NewTour) /\ FilesOf(NewTour.images) = {} /\ NewBrand.logo \in Logos
<1>1. /\ NewTour.images = <<>> /\ NewTour.cover = "" /\ NewTour.provider.logo = ""
      /\ NewBrand.logo = "" /\ "" \in Logos
  BY DEF NewTour, NewBrand, SiteProvider, Logos
<1>2. <<>> \in Seq(Files) /\ FilesOf(<<>>) = {}
  BY DEF FilesOf
<1> QED
  BY <1>1, <1>2 DEF Pictured

\* What a new request has in hand.
LEMMA Enters ==
  ASSUME IInv, NEW r \in Reqs, Start(r)
  PROVE  UNCHANGED files /\ (req'[r].op.kind \in BrandKinds => req'[r].row = NewBrand)
<1>1. PICK op \in Ops, p \in Reqs :
        req' = [req EXCEPT ![r] = [Idle EXCEPT !.op = op, !.promo = p, !.todo = Route(op),
                        !.row = IF op.at \in Tours THEN NewTour ELSE NewBrand]]
  BY DEF Start
<1>2. req'[r].op = op /\ req'[r].row = IF op.at \in Tours THEN NewTour ELSE NewBrand
  BY <1>1 DEF IInv, RequestsAre, Idle
<1>3. op.kind \in BrandKinds => op.at \notin Tours
  BY OpsAssumption
<1> QED
  BY <1>2, <1>3 DEF Start

LEMMA PicturedStarts ==
  ASSUME Basics, AllPictured, NEW r \in Reqs, Start(r), NEW op \in Ops, Starts(r, op)
  PROVE  AllPictured'
<1>1. /\ req'[r].op = op /\ UNCHANGED <<tours, brands>>
      /\ Pc(r)' \in {"itinerary", "insertBrand", "loadBrand", "load"}
      /\ (Pc(r)' = "itinerary" => op.kind = "create")
      /\ \A q \in Reqs \ {r} : /\ req'[q] = req[q] /\ Pc(q)' = Pc(q)
                               /\ (q \in InFlight' <=> q \in InFlight)
  BY OneStarts
<1>2. /\ op.kind \notin BrandKinds => req'[r].row = NewTour
      /\ op.kind \in BrandKinds => req'[r].row = NewBrand
      /\ req'[r] # Idle
  BY <1>1, Enters DEF Starts, Basics
<1>3. HandPictured(r)'
  <2>1. ~HasOld(r)'
    BY <1>1 DEF HasOld
  <2>2. ForTour(r)' <=> op.kind \notin BrandKinds
    BY <1>1, <1>2 DEF ForTour
  <2> QED
    BY <1>1, <1>2, <2>1, <2>2, NewPictured DEF HandPictured
<1>4. ASSUME NEW q \in Reqs \ {r} PROVE HandPictured(q)'
  <2>1. /\ (ForTour(q)' <=> ForTour(q)) /\ (HasOld(q)' <=> HasOld(q))
        /\ req'[q] = req[q] /\ (q \in InFlight' <=> q \in InFlight) /\ HandPictured(q)
    BY <1>1 DEF ForTour, HasOld, AllPictured
  <2> QED
    BY <2>1 DEF HandPictured
<1> QED
  BY <1>1, <1>3, <1>4 DEF AllPictured

LEMMA PicturedInit == Init => AllPictured
<1> SUFFICES ASSUME Init PROVE AllPictured
  OBVIOUS
<1>1. \A r \in Reqs : r \notin InFlight
  BY DEF Init, InFlight, Idle
<1>2. ASSUME NEW b \in Brands PROVE brands[b].logo \in Logos
  BY NewPictured DEF Init, Logos
<1>3. ASSUME NEW t \in Tours PROVE Pictured(t, tours[t])
  <2>1. CASE t \notin DOMAIN Row0.tours
    <3>1. tours[t] = NewTour
      BY <2>1 DEF Init
    <3> QED
      BY <3>1, NewPictured
  <2>2. CASE t \in DOMAIN Row0.tours
    <3> DEFINE row == Row0.tours[t]
    <3>1. tours[t] = row
      BY <2>2 DEF Init
    <3>2. FilesOf(row.images) \subseteq ImagesOf(t) /\ row.cover \in CoversOf(t)
      BY <2>2 DEF ImagesOf, CoversOf
    <3>3. row.provider.logo \in Logos
      <4>1. /\ row.provider = IF row.brand = NoBrand THEN SiteProvider
                              ELSE BuildProvider(Row0.brands[row.brand])
            /\ row.brand # NoBrand => row.brand \in DOMAIN Row0.brands
        BY <2>2, FirstRowsAssumption
      <4>2. SiteProvider.logo = "" /\ "" \in Logos
        BY DEF SiteProvider, Logos
      <4>3. row.brand # NoBrand => BuildProvider(Row0.brands[row.brand]).logo \in Logos
        BY <4>1, <4>2 DEF BuildProvider, Logos
      <4> QED
        BY <4>1, <4>2, <4>3
    <3> QED
      BY <2>2, <3>1, <3>2, <3>3, FirstRowsAssumption DEF Pictured
  <2> QED
    BY <2>1, <2>2
<1> QED
  BY <1>1, <1>2, <1>3 DEF AllPictured, HandPictured

-----------------------------------------------------------------------------
(* The files of a gallery stay.                                            *)

\* What a request for another thing does to the images of a tour.
LEMMA GalleryElsewhere ==
  ASSUME OwnImages, Basics, AllPictured, NEW t \in Tours, NEW r \in Reqs, Statement(r),
         IF ForTour(r) THEN TourPictures(r) ELSE BrandPictures(r), req[r].op.at # t
  PROVE  /\ tours'[t].images = tours[t].images
         /\ \A S : S \subseteq files /\ S \subseteq ImagesOf(t) => S \subseteq files'
<1> DEFINE at == req[r].op.at
<1>1. /\ r \in InFlight /\ HandPictured(r)
      /\ IF ForTour(r) THEN at \in Tours \ {t} ELSE at \in Brands
  BY OneRuns DEF AllPictured, Statement
<1>2. tours'[t].images = tours[t].images
  <2>1. CASE ForTour(r)
    BY <1>1, <2>1 DEF TourPictures, Takes, Carries, Saves, Puts, Buries, Drops, GivesUp, OnlyTour
  <2>2. CASE ~ForTour(r)
    <3>1. UNCHANGED tours \/ StampsTours(r)
      BY <2>2 DEF BrandPictures, Founds, TakesBrand, CarriesBrand, SavesBrand, BuriesBrand,
                  DropsLogo, GivesUp
    <3> QED
      BY <3>1 DEF StampsTours, Same
  <2> QED
    BY <2>1, <2>2
<1>3. UNCHANGED files \/ \E gone : files' = files \ gone /\ gone \cap ImagesOf(t) = {}
  <2>1. CASE ForTour(r)
    <3>1. UNCHANGED files \/ Drops(r)
      BY <2>1 DEF TourPictures, Takes, Carries, Saves, Puts, Buries, GivesUp
    <3>2. ASSUME Drops(r)
          PROVE  Dropped(req[r].op, req[r].old, req[r].row) \cap ImagesOf(t) = {}
      <4>1. HasOld(r)
        <5>1. Uses(req[r].op, Pc(r)) /\ Pc(r) = "unlink"
          BY <3>2, OneRuns DEF Drops
        <5> QED
          BY <5>1 DEF Uses, HasOld, PromotionKinds
      <4>2. Pictured(at, req[r].old)
        BY <1>1, <2>1, <4>1 DEF HandPictured
      <4>3. Dropped(req[r].op, req[r].old, req[r].row)
               \subseteq FilesOf(req[r].old.images) \cup {req[r].old.cover}
        BY DEF Dropped, Diff, Replaced
      <4>4. Dropped(req[r].op, req[r].old, req[r].row)
               \subseteq ImagesOf(at) \cup CoversOf(at) \cup Logos
        BY <4>2, <4>3 DEF Pictured
      <4>5. (ImagesOf(at) \cup CoversOf(at) \cup Logos) \cap ImagesOf(t) = {}
        BY <1>1, <2>1 DEF OwnImages
      <4> QED
        BY <4>4, <4>5
    <3> QED
      BY <3>1, <3>2 DEF Drops
  <2>2. CASE ~ForTour(r)
    <3>1. UNCHANGED files \/ DropsLogo(r)
      BY <2>2 DEF BrandPictures, Founds, TakesBrand, CarriesBrand, SavesBrand, StampsTours,
                  BuriesBrand, GivesUp
    <3>2. ASSUME DropsLogo(r)
          PROVE  Replaced(req[r].old.logo, req[r].row.logo) \cap ImagesOf(t) = {}
      <4>1. req[r].old.logo \in Logos
        BY <1>1, <2>2, <3>2 DEF DropsLogo, HasOld, HandPictured
      <4>2. Logos \cap ImagesOf(t) = {}
        BY DEF OwnImages
      <4> QED
        BY <4>1, <4>2 DEF Replaced
    <3> QED
      BY <3>1, <3>2 DEF DropsLogo
  <2> QED
    BY <2>1, <2>2
<1> QED
  BY <1>2, <1>3

LEMMA GalleryRuns ==
  ASSUME OwnImages, Basics, AllPictured, NEW t \in Tours, KeptGallery(t), NEW r \in Reqs,
         Statement(r), IF ForTour(r) THEN TourPictures(r) ELSE BrandPictures(r)
  PROVE  KeptGallery(t)'
<1> DEFINE at == req[r].op.at
           op == req[r].op
<1> SUFFICES ASSUME ~Raced(t)
             PROVE  /\ Alone(t)' /\ FilesOf(tours'[t].images) \subseteq files'
                    /\ \A q \in On(t)' : InGallery(t, q)'
  BY DEF KeptGallery, Raced, Statement
<1>1. /\ r \in InFlight /\ req'[r].op = op /\ op \in Ops /\ Uses(op, Pc(r))
      /\ \A q \in Reqs \ {r} : req'[q] = req[q] /\ Pc(q)' = Pc(q)
      /\ On(t)' = IF at = t /\ Pc(r)' = "end" THEN On(t) \ {r} ELSE On(t)
      /\ On(t) \subseteq InFlight /\ On(t) \subseteq Reqs
  BY OneRuns DEF On, InFlight
<1>2. /\ Alone(t) /\ FilesOf(tours[t].images) \subseteq files
      /\ \A q \in On(t) : InGallery(t, q)
  BY DEF KeptGallery
<1>3. ASSUME NEW q \in On(t)
      PROVE  /\ FilesOf(req[q].row.images) \subseteq ImagesOf(t)
             /\ Given(req[q].op.images) => FilesOf(req[q].op.images) \subseteq ImagesOf(t)
  <2>1. /\ q \in Reqs /\ q \in InFlight /\ req[q].op.at = t /\ req[q].todo # <<>>
        /\ IInv /\ Control /\ HandPictured(q)
    BY <1>1 DEF On, InFlight, Basics, AllPictured
  <2>2. req[q].op \in Ops /\ req[q] # Idle
    BY <2>1, Standing DEF Stands
  <2>3. ForTour(q)
    BY <2>1, <2>2, OpsAssumption DEF ForTour
  <2> QED
    BY <2>1, <2>2, <2>3, OwnFields DEF HandPictured, Pictured
<1>4. CASE at # t
  <2>1. /\ tours'[t].images = tours[t].images
        /\ \A S : S \subseteq files /\ S \subseteq ImagesOf(t) => S \subseteq files'
    BY <1>4, GalleryElsewhere
  <2>2. On(t)' = On(t) /\ r \notin On(t) /\ Alone(t)'
    BY <1>1, <1>2, <1>4 DEF On, Alone
  <2>3. FilesOf(tours'[t].images) \subseteq files'
    BY <1>2, <2>1 DEF AllPictured, Pictured
  <2>4. ASSUME NEW q \in On(t) PROVE InGallery(t, q)'
    <3>1. InGallery(t, q) /\ req'[q] = req[q] /\ Pc(q)' = Pc(q)
      BY <1>1, <1>2, <2>2
    <3> QED
      BY <1>3, <2>1, <3>1 DEF InGallery
  <2> QED
    BY <2>2, <2>3, <2>4
<1>5. CASE at = t
  <2>1. On(t) = {r} /\ On(t)' = (IF Pc(r)' = "end" THEN {} ELSE {r}) /\ Alone(t)'
    BY <1>1, <1>2, <1>5 DEF On, Alone
  <2>2. ForTour(r) /\ TourPictures(r)
    <3>1. ForTour(r)
      BY <1>5, OpsAssumption DEF Statement
    <3> QED
      BY <3>1
  <2>3. /\ FilesOf(tours[t].images) \subseteq files
        /\ FilesOf(req[r].row.images) \subseteq files
        /\ Given(op.images) => FilesOf(op.images) \subseteq files
        /\ Pc(r) = "write" => req[r].seen.images = tours[t].images
        /\ Pc(r) = "unlink" => tours[t].images = req[r].row.images
    BY <1>2, <2>1 DEF InGallery
  <2>4. DOMAIN tours[t] = Columns /\ DOMAIN req[r].row = Columns
    BY <2>2 DEF Basics, IInv, RowsAre, RequestsAre, Begun, ForTour
  <2>5. Pc(r)' = "end" \/ Pc(r)' = After(op, Pc(r))
    BY Advances DEF Basics, Statement
  <2>6. SUFFICES /\ FilesOf(tours'[t].images) \subseteq files'
                 /\ Pc(r)' # "end" =>
                      /\ FilesOf(req'[r].row.images) \subseteq files'
                      /\ Given(op.images) => FilesOf(op.images) \subseteq files'
                      /\ Pc(r)' = "write" => req'[r].seen.images = tours'[t].images
                      /\ Pc(r)' = "unlink" => tours'[t].images = req'[r].row.images
    BY <1>1, <2>1 DEF InGallery
  <2>7. \A row : DOMAIN row = Columns =>
                    \/ Edited(r, row).images = row.images
                    \/ Given(op.images) /\ Edited(r, row).images = op.images
    BY EditedImages
  <2> HIDE DEF at, op
  <2>8. CASE Takes(r)
    <3>1. req'[r].row = Edited(r, tours[t]) /\ UNCHANGED <<tours, files>>
      BY <1>5, <2>8 DEF Takes, at
    <3>2. Pc(r)' \notin {"write", "unlink"}
      BY <2>5, <2>8 DEF Takes, After, AfterLoad
    <3> QED
      BY <2>3, <2>4, <2>7, <3>1, <3>2
  <2>9. CASE Carries(r)
    <3>1. req'[r].row.images = req[r].row.images /\ UNCHANGED <<tours, files>>
      BY <2>9 DEF Carries, Same
    <3>2. Pc(r)' # "unlink" /\ (Pc(r)' = "write" => Pc(r) = "reload")
      BY <2>5, <2>9 DEF Carries, After
    <3>3. Pc(r)' = "write" => req'[r].seen = tours[t]
      BY <1>5, <2>9, <3>2 DEF Carries, at
    <3> QED
      BY <2>3, <3>1, <3>2, <3>3
  <2>10. CASE Saves(r)
    <3>1. /\ tours'[t] = SaveDiff(req[r].row, req[r].seen, tours[t])
          /\ req'[r].row = req[r].row /\ UNCHANGED files /\ Pc(r) = "write"
      BY <1>5, <2>10 DEF Saves, at
    <3>2. "images" \in DOMAIN tours[t]
      BY <2>4 DEF Columns, NewTour
    <3>3. tours'[t].images = req[r].row.images
      BY <2>3, <3>1, <3>2 DEF SaveDiff
    <3>4. Pc(r)' # "write"
      BY <2>5, <3>1 DEF After
    <3> QED
      BY <2>3, <3>1, <3>3, <3>4
  <2>11. CASE Puts(r)
    <3>1. /\ tours'[t].images = Edited(r, req[r].row).images /\ UNCHANGED files
          /\ Pc(r)' = "end"
      BY <1>5, <2>11 DEF Puts, Same, at
    <3> QED
      BY <2>3, <2>4, <2>7, <3>1
  <2>12. CASE Buries(r)
    BY <1>5, <2>3, <2>12 DEF Buries, Same, PictureColumns, at
  <2>13. CASE Drops(r)
    <3>1. FilesOf(req[r].row.images) \cap Dropped(req[r].op, req[r].old, req[r].row) = {}
      BY DEF Dropped, Diff, Replaced
    <3>2. /\ tours'[t].images = req[r].row.images /\ Pc(r)' = "end"
          /\ files' = files \ Dropped(req[r].op, req[r].old, req[r].row)
      BY <2>3, <2>13 DEF Drops
    <3> QED
      BY <2>3, <3>1, <3>2
  <2>14. CASE GivesUp(r)
    BY <2>3, <2>14 DEF GivesUp
  <2> QED
    BY <2>2, <2>8, <2>9, <2>10, <2>11, <2>12, <2>13, <2>14 DEF TourPictures
<1> QED
  BY <1>4, <1>5

LEMMA GalleryStarts ==
  ASSUME Basics, NEW t \in Tours, KeptGallery(t), NEW r \in Reqs, Start(r), NamesUploaded,
         NEW op \in Ops, Starts(r, op)
  PROVE  KeptGallery(t)'
<1> SUFFICES ASSUME ~Raced(t)'
             PROVE  /\ Alone(t)' /\ FilesOf(tours'[t].images) \subseteq files'
                    /\ \A q \in On(t)' : InGallery(t, q)'
  BY DEF KeptGallery
<1>1. /\ r \notin InFlight /\ req'[r].op = op /\ UNCHANGED tours
      /\ Pc(r)' \in {"itinerary", "insertBrand", "loadBrand", "load"}
      /\ \A q \in Reqs \ {r} : req'[q] = req[q] /\ Pc(q)' = Pc(q)
      /\ On(t)' = IF op.at = t THEN On(t) \cup {r} ELSE On(t)
      /\ On(t) \subseteq Reqs \ {r}
  BY OneStarts DEF On, InFlight
<1>2. ~Raced(t)
  BY DEF Raced, Starts
<1>3. /\ Alone(t) /\ FilesOf(tours[t].images) \subseteq files
      /\ \A q \in On(t) : InGallery(t, q)
  BY <1>2 DEF KeptGallery
<1>4. op.at = t => On(t) = {}
  <2> SUFFICES ASSUME op.at = t, NEW q \in On(t) PROVE FALSE
    OBVIOUS
  <2>1. t \in TouchedBy(op) /\ t \in TouchedBy(req[q].op) /\ q \in InFlight
    BY BodiesAssumption DEF TouchedBy, On
  <2>2. <<q, t>> \in raced'
    BY <2>1 DEF Starts
  <2> QED
    BY <2>2 DEF Raced
<1>5. UNCHANGED files
  BY Enters DEF Basics
<1>6. ASSUME NEW q \in On(t) PROVE InGallery(t, q)'
  <2>1. InGallery(t, q) /\ req'[q] = req[q] /\ Pc(q)' = Pc(q)
    BY <1>1, <1>3
  <2> QED
    BY <1>1, <1>5, <2>1 DEF InGallery
<1>7. ASSUME op.at = t PROVE InGallery(t, r)'
  <2>1. req'[r].row = NewTour
    BY <1>7, OpsAssumption DEF Starts
  <2>2. Given(op.images) => FilesOf(op.images) \subseteq files
    BY <1>1 DEF NamesUploaded, Starts
  <2> QED
    BY <1>1, <1>5, <2>1, <2>2, NewPictured DEF InGallery
<1>8. Alone(t)'
  BY <1>1, <1>3, <1>4 DEF Alone
<1> QED
  BY <1>1, <1>3, <1>5, <1>6, <1>7, <1>8

GalleryInv == Basics /\ AllPictured /\ \A t \in Tours : KeptGallery(t)

LEMMA GalleryInit == Init => GalleryInv
<1> SUFFICES ASSUME Init, NEW t \in Tours PROVE KeptGallery(t)
  BY BasicsInit, PicturedInit DEF GalleryInv
<1>1. On(t) = {}
  BY DEF Init, On, InFlight, Idle
<1>2. FilesOf(tours[t].images) \subseteq files
  <2>1. tours[t].images \in Seq(Files)
    BY PicturedInit DEF AllPictured, Pictured
  <2>2. files = Files
    BY DEF Init
  <2> QED
    BY <2>1, <2>2 DEF FilesOf
<1> QED
  BY <1>1, <1>2 DEF KeptGallery, Alone

LEMMA GalleryStep ==
  ASSUME OwnImages, GalleryInv, [Next]_vars, [NamesUploaded]_vars
  PROVE  GalleryInv'
<1>1. IInv /\ Control /\ BrandRows /\ Basics'
  BY BasicsStep DEF GalleryInv, Basics
<1>2. CASE UNCHANGED vars
  <2>1. UNCHANGED <<tours, stops, brands, files, req, raced, torn>>
    BY <1>2 DEF vars
  <2>2. \A r \in Reqs : HandPictured(r)' <=> HandPictured(r)
    BY <2>1 DEF HandPictured, InFlight, ForTour, HasOld, Pc, Pictured
  <2>3. \A t \in Tours : KeptGallery(t)' <=> KeptGallery(t)
    BY <2>1 DEF KeptGallery, Raced, Alone, On, InFlight, InGallery, Pc
  <2> QED
    BY <1>1, <2>1, <2>2, <2>3 DEF GalleryInv, AllPictured
<1>3. ASSUME NEW r \in Reqs, TourStep(r) \/ BrandStep(r) \/ Fail(r) PROVE GalleryInv'
  <2>1. Statement(r) /\ IF ForTour(r) THEN TourPictures(r) ELSE BrandPictures(r)
    BY <1>1, <1>3, Statements, Pictures
  <2> QED
    BY <1>1, <2>1, PicturedRuns, GalleryRuns DEF GalleryInv
<1>4. ASSUME NEW r \in Reqs, Start(r) PROVE GalleryInv'
  <2>1. PICK op \in Ops : Starts(r, op)
    BY <1>1, <1>4, StartsHere
  <2>2. NamesUploaded
    <3>1. req' # req
      BY <2>1 DEF Starts
    <3> QED
      BY <3>1 DEF vars
  <2> QED
    BY <1>1, <1>4, <2>1, <2>2, PicturedStarts, GalleryStarts DEF GalleryInv
<1> QED
  BY <1>2, <1>3, <1>4 DEF Next

\* Every image of the gallery of a tour whose edits followed one another is on
\* disk: a replaced image is unlinked after the save that no longer names it.
\* Callers name images of their own (OwnImages) that are there when they ask.
THEOREM GalleriesAreOnDisk ==
  ASSUME OwnImages
  PROVE  Spec /\ [][NamesUploaded]_vars => []GalleryOnDisk
<1>1. Init => GalleryInv
  BY GalleryInit
<1>2. GalleryInv /\ [Next]_vars /\ [NamesUploaded]_vars => GalleryInv'
  BY GalleryStep
<1>3. GalleryInv => GalleryOnDisk
  BY DEF GalleryInv, KeptGallery, GalleryOnDisk
<1> QED
  BY <1>1, <1>2, <1>3, PTL DEF Spec
=============================================================================
