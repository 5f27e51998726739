---------------------------- MODULE TourCatalog ----------------------------
(***************************************************************************)
(* Tours, their stops and promotions, the brands that provide them and the *)
(* image files they show: TourManagementService, the admin controllers of  *)
(* tours and brands and UploadCleanupService.  A request is the list of    *)
(* the statements it still has to run, `todo`; no transaction spans them.  *)
(* A repository.save(entity) is two statements: "reload" reads the row     *)
(* again and "write" updates the columns in which the entity differs from  *)
(* what was reloaded, so that a stale entity overwrites what others wrote. *)
(***************************************************************************)
EXTENDS Naturals, Sequences, FiniteSets

CONSTANTS Tours, Brands, Cities, Files, Reqs,
          VenueCity,       \* the city of each venue of the catalogue
          Ops,             \* the requests that may be made
          MaxPromotions,   \* 20 in the code
          Row0,            \* the rows there are at first: tours, stops and brands
          Keep,            \* a field that the request leaves out
          NoBrand, NoVenue

VARIABLES tours,           \* the rows of tours
          stops,           \* stops[t]: the rows of tour_stops of t
          brands,          \* the rows of brands
          files,           \* the files of the upload directory
          req,             \* the requests
          raced,           \* history: <<r, x>>, r overlapped with another request on x
          torn             \* history: tours and brands a request failed half-way at

vars == <<tours, stops, brands, files, req, raced, torn>>

ASSUME PromotionsAssumption == MaxPromotions \in Nat
----------------------------------------------------------------------------
NoSlug == <<>>
Provider == [name: STRING, verified: BOOLEAN, logo: Files \cup {""}]
SiteProvider == [name |-> "Hom Nay Di Dau", verified |-> TRUE, logo |-> ""]

NewBrand == [exists |-> FALSE, deleted |-> FALSE, name |-> "", logo |-> "", verified |-> FALSE]
NewTour == [exists |-> FALSE, deleted |-> FALSE, slug |-> NoSlug, city |-> "", venues |-> {},
            scope |-> "intra_city", images |-> <<>>, cover |-> "", brand |-> NoBrand,
            provider |-> SiteProvider, promos |-> {}, published |-> TRUE]

BrandKinds == {"createBrand", "editBrand", "verifyBrand", "removeBrand"}
PromotionKinds == {"addPromotion", "updatePromotion", "removePromotion"}

\* Requests are for tours or for brands, and the first rows have no promotions.
ASSUME OpsAssumption ==
    /\ Keep \notin Ops
    /\ Tours \cap Brands = {}
    /\ \A op \in Ops :
          /\ op.kind \in BrandKinds \cup PromotionKinds \cup {"create", "update", "publish", "remove"}
          /\ op.at \in IF op.kind \in BrandKinds THEN Brands ELSE Tours
    /\ \A t \in DOMAIN Row0.tours : /\ DOMAIN Row0.tours[t] = DOMAIN NewTour
                                    /\ Row0.tours[t].promos = {}

BuildProvider(b) == IF b = NoBrand THEN SiteProvider
                    ELSE [name |-> b.name, verified |-> b.verified, logo |-> b.logo]

LiveTour(t) == tours[t].exists /\ ~tours[t].deleted
LiveBrand(b) == brands[b].exists /\ ~brands[b].deleted

\* What the public sees: a tour by its slug, and the lists of published tours.
BySlug(t) == LiveTour(t)
Listed == {t \in Tours : LiveTour(t) /\ tours[t].published}

\* resolveItinerary: the checks, and the columns derived from the stops.
ValidItinerary(it) ==
    \A i \in DOMAIN it :
        /\ it[i].city \in Cities
        /\ it[i].venue # NoVenue => /\ it[i].venue \in DOMAIN VenueCity
                                    /\ VenueCity[it[i].venue] = it[i].city

StopRows(r, it) == {[by |-> r, order |-> i - 1, city |-> it[i].city, venue |-> it[i].venue] :
                        i \in DOMAIN it}

ScopeOf(rows) == IF Cardinality({s.city : s \in rows}) > 1
                 THEN "inter_province" ELSE "intra_city"


Derived(rows) == [city |-> (CHOOSE s \in rows : s.order = 0).city,
                  venues |-> {s.venue : s \in rows} \ {NoVenue},
                  scope |-> ScopeOf(rows)]

WithoutScope(row, it) ==
    LET d == Derived(StopRows(0, it)) IN [row EXCEPT !.city = d.city, !.venues = d.venues]

WithItinerary(row, it) ==
    LET d == Derived(StopRows(0, it))
    IN  [row EXCEPT !.city = d.city, !.venues = d.venues, !.scope = d.scope]

\* The columns of a row are those of its stops, of which each position has one.
Matches(row, rows) ==
    LET d == Derived(rows)
    IN  /\ row.city = d.city /\ row.venues = d.venues /\ row.scope = d.scope
        /\ \A a, b \in rows : a.order = b.order => a = b

First(images, else) == IF images = <<>> THEN else ELSE images[1]
Given(field) == field # Keep
FilesOf(images) == {images[i] : i \in DOMAIN images}

\* Only a create and an update name stops, at least one, or a brand; a create
\* always has both.  Images are a list.  A new brand is none of the first.
ASSUME BodiesAssumption ==
    /\ {Keep, NoBrand} \cap (Tours \cup Brands) = {} /\ Keep # NoBrand
    /\ \A op \in Ops :
          /\ Given(op.stops) => /\ op.kind \in {"create", "update"}
                                /\ 1 \in DOMAIN op.stops /\ DOMAIN op.stops \subseteq Nat
          /\ Given(op.brand) => op.brand \in Brands \cup {NoBrand}
          /\ Given(op.images) => op.images \in Seq(Files)
          /\ op.kind = "create" => Given(op.stops) /\ Given(op.brand)
          /\ op.kind = "createBrand" => op.at \notin DOMAIN Row0.brands

\* The first tours have stops and the columns of these, the provider that their
\* brand is and a list of images.
ASSUME FirstRowsAssumption ==
    /\ \A t \in DOMAIN Row0.tours :
          LET row == Row0.tours[t]
          IN  /\ row.exists => Row0.stops # {} /\ Matches(row, Row0.stops)
              /\ row.provider = IF row.brand = NoBrand THEN SiteProvider
                                ELSE BuildProvider(Row0.brands[row.brand])
              /\ row.brand # NoBrand => row.brand \in Brands \cap DOMAIN Row0.brands
              /\ row.images \in Seq(Files)
    /\ \A b \in DOMAIN Row0.brands : /\ DOMAIN Row0.brands[b] = DOMAIN NewBrand
                                     /\ Row0.brands[b].exists /\ ~Row0.brands[b].deleted

\* UploadCleanupService: the files to unlink, and the unlinking, which skips the
\* urls that are not files of the upload directory and never fails.
Diff(old, new) == FilesOf(old) \ FilesOf(new)
Replaced(old, new) == {old} \ {new}
DeleteByUrls(urls) == files' = files \ urls
----------------------------------------------------------------------------
(* The statements of each request, in the order of the code.               *)

If(condition, steps) == IF condition THEN steps ELSE <<>>

CreateTour == <<"itinerary", "brand", "slug", "insert">>
UpdateDeletingFirst(op) == <<"load", "delete", "itinerary", "reload", "write">>

UpdateTour(op) == <<"load">> \o If(Given(op.brand), <<"brand">>)
                             \o If(Given(op.stops), <<"itinerary", "delete">>)
                             \o <<"reload", "write">>
                             \o If(Given(op.images) \/ Given(op.cover), <<"unlink">>)
SetPublished == <<"load", "reload", "write">>
UpsertPromotion == <<"load", "reload", "write">>
RemoveTour == <<"load", "softDelete">>
UpdateBrand(op) == <<"loadBrand", "reloadBrand", "writeBrand", "sync">>
                       \o If(Given(op.logo), <<"unlinkLogo">>)
VerifyWithoutSync == <<"loadBrand", "reloadBrand", "writeBrand">>

VerifyBrand == <<"loadBrand", "reloadBrand", "writeBrand", "sync">>
RemoveBrand == <<"loadBrand", "unstamp", "softDeleteBrand">>

Route(op) ==
    CASE op.kind = "create" -> CreateTour
      [] op.kind = "update" -> UpdateTour(op)
      [] op.kind = "publish" -> SetPublished
      [] op.kind \in PromotionKinds -> UpsertPromotion
      [] op.kind = "remove" -> RemoveTour
      [] op.kind = "createBrand" -> <<"insertBrand">>
      [] op.kind = "editBrand" -> UpdateBrand(op)
      [] op.kind = "verifyBrand" -> VerifyBrand
      [] op.kind = "removeBrand" -> RemoveBrand

\* A request body: what the caller leaves out is Keep.
Body(kind, at) == [kind |-> kind, at |-> at, brand |-> Keep, stops |-> Keep, images |-> Keep,
                   cover |-> Keep, published |-> Keep, name |-> Keep, logo |-> Keep,
                   verified |-> Keep]

Idle == [op |-> Keep, promo |-> Keep, todo |-> <<>>, end |-> "none",
         row |-> Keep, seen |-> Keep, old |-> Keep, seenStops |-> {}]

At(r, step) == req[r].todo # <<>> /\ Head(req[r].todo) = step
InFlight == {r \in Reqs : req[r].todo # <<>>}

\* What a request works on; the row of a tour holds a copy of its brand.
TouchedBy(op) == ({op.at, op.brand}
                  \cup (IF op.at \in Tours THEN {tours[op.at].brand} ELSE {}))
                 \ {Keep, NoBrand}
Raced(x) == \E y \in raced : y[2] = x
AtRest(x) == \A r \in InFlight : x \notin TouchedBy(req[r].op)

Go(r, new) == req' = [req EXCEPT ![r] = [new EXCEPT !.todo = Tail(@),
                        !.end = IF Len(req[r].todo) = 1 THEN "ok" ELSE "none"]]
Stop(r, how) == req' = [req EXCEPT ![r].todo = <<>>, ![r].end = how]

Init ==
    /\ tours = [t \in Tours |-> IF t \in DOMAIN Row0.tours THEN Row0.tours[t] ELSE NewTour]
    /\ stops = [t \in Tours |-> IF t \in DOMAIN Row0.tours THEN Row0.stops ELSE {}]
    /\ brands = [b \in Brands |-> IF b \in DOMAIN Row0.brands THEN Row0.brands[b] ELSE NewBrand]
    /\ files = Files
    /\ req = [r \in Reqs |-> Idle]
    /\ raced = {}
    /\ torn = {}

\* The id of a new row is its own; that of a promotion is one a client was given.
Start(r) ==
    /\ req[r] = Idle
    /\ \E op \in Ops, p \in Reqs :
        /\ op.kind \in {"create", "createBrand"} =>
              \A q \in Reqs : req[q] # Idle => req[q].op.kind # op.kind \/ req[q].op.at # op.at
        /\ IF op.kind \in {"updatePromotion", "removePromotion"}
           THEN req[p].end = "ok" /\ req[p].op.kind = "addPromotion" /\ req[p].op.at = op.at
           ELSE p = r
        /\ req' = [req EXCEPT ![r] = [Idle EXCEPT !.op = op, !.promo = p, !.todo = Route(op),
                        !.row = IF op.at \in Tours THEN NewTour ELSE NewBrand]]
        /\ raced' = raced \cup UNION {{z, <<r, z[2]>>} :
              z \in {y \in InFlight \X TouchedBy(op) : y[2] \in TouchedBy(req[y[1]].op)}}
    /\ UNCHANGED <<tours, stops, brands, files, torn>>
----------------------------------------------------------------------------
(* Tours                                                                   *)

\* What a request assigns to the tour it loaded, brand and stops apart.

Edited(r, row) ==
    LET op == req[r].op
        promo == [id |-> req[r].promo, by |-> r]
        others == {p \in row.promos : p.id # promo.id}
    IN  CASE op.kind = "addPromotion" -> [row EXCEPT !.promos = @ \cup {promo}]
          [] op.kind = "updatePromotion" -> [row EXCEPT !.promos = others \cup {promo}]
          [] op.kind = "removePromotion" -> [row EXCEPT !.promos = others]
          [] OTHER -> [row EXCEPT
                !.images = IF Given(op.images) THEN op.images ELSE @,
                !.cover = IF Given(op.cover) THEN op.cover
                          ELSE IF Given(op.images) THEN First(op.images, @) ELSE @,
                !.published = IF Given(op.published) THEN op.published ELSE @]

RefusedTooLate(r, row) ==
    req[r].op.kind = "addPromotion" /\ Cardinality(row.promos) > MaxPromotions

Refused(r, row) ==
    LET kind == req[r].op.kind
    IN  \/ kind = "addPromotion" /\ Cardinality(row.promos) >= MaxPromotions
        \/ kind = "updatePromotion" /\ \A p \in row.promos : p.id # req[r].promo

LoadTour(r) ==
    /\ At(r, "load")
    /\ LET row == tours[req[r].op.at]
       IN  IF LiveTour(req[r].op.at) /\ ~Refused(r, row)
           THEN Go(r, [req[r] EXCEPT !.old = row, !.row = Edited(r, row)])
           ELSE Stop(r, "refused")
    /\ UNCHANGED <<tours, stops, brands, files, raced, torn>>

ResolveBrand(r) ==
    /\ At(r, "brand")
    /\ LET b == req[r].op.brand
           brand == IF b = NoBrand THEN NoBrand ELSE brands[b]
       IN  IF b # NoBrand /\ ~LiveBrand(b)
           THEN Stop(r, "refused")
           ELSE Go(r, [req[r] EXCEPT !.row.brand = b, !.row.provider = BuildProvider(brand)])
    /\ UNCHANGED <<tours, stops, brands, files, raced, torn>>

ResolveItinerary(r) ==
    /\ At(r, "itinerary")
    /\ IF ValidItinerary(req[r].op.stops)
       THEN Go(r, [req[r] EXCEPT !.row = WithItinerary(@, req[r].op.stops)])
       ELSE Stop(r, "refused")
    /\ UNCHANGED <<tours, stops, brands, files, raced, torn>>

DeleteStops(r) ==
    /\ At(r, "delete")
    /\ stops' = [stops EXCEPT ![req[r].op.at] = {}]
    /\ Go(r, req[r])
    /\ UNCHANGED <<tours, brands, files, raced, torn>>

ReloadTour(r) ==
    /\ At(r, "reload")
    /\ LET op == req[r].op
       IN  Go(r, [req[r] EXCEPT !.seen = tours[op.at],
                    !.seenStops = IF Given(op.stops) THEN stops[op.at] ELSE {}])
    /\ UNCHANGED <<tours, stops, brands, files, raced, torn>>

\* UPDATE of the columns in which the entity differs from what was reloaded.
SaveDiff(entity, seen, row) ==
    [c \in DOMAIN row |-> IF entity[c] # seen[c] THEN entity[c] ELSE row[c]]

\* A stop that the reload found and the entity lacks would lose its tour_id,
\* which is NOT NULL: the transaction of the save fails.
WriteTour(r) ==
    /\ At(r, "write")
    /\ LET op == req[r].op
       IN  IF req[r].seenStops # {}
           THEN /\ Stop(r, "failed")
                /\ torn' = torn \cup {op.at}
                /\ UNCHANGED <<tours, stops>>
           ELSE /\ tours' = [tours EXCEPT ![op.at] = SaveDiff(req[r].row, req[r].seen, @)]
                /\ stops' = [stops EXCEPT ![op.at] = @ \cup
                                IF Given(op.stops) THEN StopRows(r, op.stops) ELSE {}]
                /\ Go(r, req[r])
                /\ UNCHANGED torn
    /\ UNCHANGED <<brands, files, raced>>

\* The files of the row as it was loaded that the saved row no longer names.
DroppedBlindly(op, old, new) ==
    (IF Given(op.images) THEN Diff(old.images, new.images) ELSE {})
    \cup (IF Given(op.cover) THEN Replaced(old.cover, new.cover) ELSE {})

Dropped(op, old, new) ==
    (IF Given(op.images) THEN Diff(old.images, new.images) ELSE {})
    \cup
    (IF Given(op.cover) /\ old.cover \notin FilesOf(new.images)
     THEN Replaced(old.cover, new.cover) ELSE {})

UnlinkImages(r) ==
    /\ At(r, "unlink")
    /\ DeleteByUrls(Dropped(req[r].op, req[r].old, req[r].row))
    /\ Go(r, req[r])
    /\ UNCHANGED <<tours, stops, brands, raced, torn>>

\* exists() skips deleted tours, the unique index does not.
Slug(row) == LET taken == {tours[t].slug : t \in {u \in Tours : LiveTour(u)}}
                 free == {n \in 1..(Cardinality(Tours) + 1) : <<row.city, n>> \notin taken}
             IN  <<row.city, CHOOSE n \in free : \A m \in free : n <= m>>

UniqueSlug(r) ==
    /\ At(r, "slug")
    /\ Go(r, [req[r] EXCEPT !.row.slug = Slug(req[r].row)])
    /\ UNCHANGED <<tours, stops, brands, files, raced, torn>>

InsertTour(r) ==
    /\ At(r, "insert")
    /\ LET op == req[r].op
           row == Edited(r, req[r].row)
       IN  IF \E t \in Tours : tours[t].exists /\ tours[t].slug = row.slug
           THEN Stop(r, "failed") /\ UNCHANGED <<tours, stops>>
           ELSE /\ tours' = [tours EXCEPT ![op.at] = [row EXCEPT !.exists = TRUE,
                       !.cover = IF Given(op.cover) THEN @
                                 ELSE First(row.images, row.provider.logo)]]
                /\ stops' = [stops EXCEPT ![op.at] = StopRows(r, op.stops)]
                /\ Go(r, req[r])
    /\ UNCHANGED <<brands, files, raced, torn>>

SoftDeleteTour(r) ==
    /\ At(r, "softDelete")
    /\ tours' = [tours EXCEPT ![req[r].op.at].deleted = TRUE]
    /\ Go(r, req[r])
    /\ UNCHANGED <<stops, brands, files, raced, torn>>
----------------------------------------------------------------------------
(* Brands, whose name, logo and mark are copied to their tours             *)

EditedBrand(op, row) ==
    [row EXCEPT !.name = IF Given(op.name) THEN op.name ELSE @,
                !.logo = IF Given(op.logo) THEN op.logo ELSE @,
                !.verified = IF Given(op.verified) THEN op.verified ELSE @]

InsertBrand(r) ==
    /\ At(r, "insertBrand")
    /\ brands' = [brands EXCEPT ![req[r].op.at] =
                    [EditedBrand(req[r].op, NewBrand) EXCEPT !.exists = TRUE]]
    /\ Go(r, req[r])
    /\ UNCHANGED <<tours, stops, files, raced, torn>>

LoadBrand(r) ==
    /\ At(r, "loadBrand")
    /\ LET op == req[r].op
       IN  IF LiveBrand(op.at)
           THEN Go(r, [req[r] EXCEPT !.old = brands[op.at],
                                     !.row = EditedBrand(op, brands[op.at])])
           ELSE Stop(r, "refused")
    /\ UNCHANGED <<tours, stops, brands, files, raced, torn>>

ReloadBrand(r) ==
    /\ At(r, "reloadBrand")
    /\ Go(r, [req[r] EXCEPT !.seen = brands[req[r].op.at]])
    /\ UNCHANGED <<tours, stops, brands, files, raced, torn>>

WriteBrand(r) ==
    /\ At(r, "writeBrand")
    /\ brands' = [brands EXCEPT ![req[r].op.at] = SaveDiff(req[r].row, req[r].seen, @)]
    /\ Go(r, req[r])
    /\ UNCHANGED <<tours, stops, files, raced, torn>>

Stamp(b, provider) ==
    tours' = [t \in Tours |-> IF tours[t].brand = b
                              THEN [tours[t] EXCEPT !.provider = provider] ELSE tours[t]]

SyncTourProviders(r) ==
    /\ At(r, "sync")
    /\ Stamp(req[r].op.at, BuildProvider(req[r].row))
    /\ Go(r, req[r])
    /\ UNCHANGED <<stops, brands, files, raced, torn>>

UnlinkLogo(r) ==
    /\ At(r, "unlinkLogo")
    /\ DeleteByUrls(Replaced(req[r].old.logo, req[r].row.logo))
    /\ Go(r, req[r])
    /\ UNCHANGED <<tours, stops, brands, raced, torn>>

UnstampTours(r) ==
    /\ At(r, "unstamp")
    /\ Stamp(req[r].op.at, SiteProvider)
    /\ Go(r, req[r])
    /\ UNCHANGED <<stops, brands, files, raced, torn>>

SoftDeleteBrand(r) ==
    /\ At(r, "softDeleteBrand")
    /\ brands' = [brands EXCEPT ![req[r].op.at].deleted = TRUE]
    /\ Go(r, req[r])
    /\ UNCHANGED <<tours, stops, files, raced, torn>>
----------------------------------------------------------------------------
\* The statement of any step may fail: what the request wrote before stays.
Fail(r) ==
    /\ r \in InFlight
    /\ Head(req[r].todo) \notin {"unlink", "unlinkLogo"}
    /\ LET op == req[r].op
           halfWay == \/ Given(op.stops) /\ op.kind = "update"
                         /\ Head(req[r].todo) \in {"reload", "write"}
                      \/ Head(req[r].todo) \in {"sync", "softDeleteBrand"}
       IN  torn' = torn \cup IF halfWay THEN {op.at} ELSE {}
    /\ Stop(r, "failed")
    /\ UNCHANGED <<tours, stops, brands, files, raced>>

TourStep(r) ==
    \/ LoadTour(r) \/ ResolveBrand(r) \/ ResolveItinerary(r) \/ DeleteStops(r)
    \/ ReloadTour(r) \/ WriteTour(r) \/ UnlinkImages(r)
    \/ UniqueSlug(r) \/ InsertTour(r) \/ SoftDeleteTour(r)

BrandStep(r) ==
    \/ InsertBrand(r) \/ LoadBrand(r) \/ ReloadBrand(r) \/ WriteBrand(r)
    \/ SyncTourProviders(r) \/ UnlinkLogo(r) \/ UnstampTours(r) \/ SoftDeleteBrand(r)

Next == \E r \in Reqs : Start(r) \/ TourStep(r) \/ BrandStep(r) \/ Fail(r)

Spec == Init /\ [][Next]_vars
----------------------------------------------------------------------------
(* Properties                                                              *)

\* Rows, copies and requests are of their types.
TypeOK ==
    /\ tours \in [Tours -> [exists: BOOLEAN, deleted: BOOLEAN, slug: {NoSlug} \cup (Cities \X Nat),
          city: Cities \cup {""}, venues: SUBSET DOMAIN VenueCity,
          scope: {"intra_city", "inter_province"}, images: Seq(Files), cover: Files \cup {""},
          brand: Brands \cup {NoBrand}, provider: Provider,
          promos: SUBSET [id: Reqs, by: Reqs], published: BOOLEAN]]
    /\ \A t \in Tours : \A s \in stops[t] : s.order \in Nat
    /\ \A b \in Brands : DOMAIN brands[b] = DOMAIN NewBrand
    /\ files \subseteq Files
    /\ torn \subseteq Tours \cup Brands
    /\ raced \subseteq Reqs \X (Tours \cup Brands)
    /\ \A r \in Reqs : req[r].end # "none" => req[r].todo = <<>>

\* The stops of a tour are deleted before the save that inserts the new ones:
\* once the requests on it have ended a tour has stops again, however many of
\* them overlapped, unless one failed between the two.
ItinerariesSurvive ==
    \A t \in Tours : tours[t].exists /\ AtRest(t) /\ t \notin torn => stops[t] # {}

\* The city, the venues and the scope of a tour are those of its stops, one at
\* each position, when the edits of the tour followed one another.
DerivedFromStops ==
    \A t \in Tours :
        tours[t].exists /\ AtRest(t) /\ ~Raced(t) /\ t \notin torn => Matches(tours[t], stops[t])

\* The provider shown on a tour is its brand as it is now, the site once the
\* brand is deleted, when the edits of tour and brand followed one another.
ProviderIsBrand ==
    \A t \in Tours :
        LET b == tours[t].brand
            unspoilt == /\ AtRest(t) /\ \A y \in raced : req[y[1]].op.at # t
                        /\ b # NoBrand => AtRest(b) /\ ~Raced(b) /\ b \notin torn
        IN  tours[t].exists /\ unspoilt =>
                tours[t].provider = IF b = NoBrand THEN SiteProvider
                                    ELSE IF brands[b].deleted THEN SiteProvider
                                    ELSE BuildProvider(brands[b])

WithinLimit(promos) == /\ Cardinality(promos) <= MaxPromotions
                       /\ \A p, q \in promos : p.id = q.id => p = q

\* No tour has more promotions than the limit, nor two of one id, however many
\* requests add at once: each writes the whole list it counted.
PromotionsBounded == \A t \in Tours : WithinLimit(tours[t].promos)

\* Every image of the gallery of a tour that can be opened is on disk, when the
\* edits of the tour followed one another.
GalleryOnDisk ==
    \A t \in Tours : BySlug(t) /\ ~Raced(t) => FilesOf(tours[t].images) \subseteq files

\* What the callers keep to and no statement checks: the upload gives each image
\* a name of its own, so that one tour's are not another's, nor a cover of
\* another or the logo of a brand ...
ImagesOf(t) == UNION ({FilesOf(op.images) : op \in {o \in Ops : o.at = t /\ Given(o.images)}}
                      \cup {FilesOf(Row0.tours[u].images) : u \in DOMAIN Row0.tours \cap {t}})
CoversOf(t) == {op.cover : op \in {o \in Ops : o.at = t /\ Given(o.cover)}}
               \cup {Row0.tours[u].cover : u \in DOMAIN Row0.tours \cap {t}}
Logos == {""} \cup {op.logo : op \in {o \in Ops : Given(o.logo)}}
              \cup {Row0.brands[b].logo : b \in DOMAIN Row0.brands}

OwnImages ==
    \A t \in Tours : ImagesOf(t) \cap (Logos \cup UNION {ImagesOf(u) \cup CoversOf(u) :
                                                           u \in Tours \ {t}}) = {}

\* ... and a request names images that are there, not ones an edit has dropped.
NamesUploaded ==
    \A r \in Reqs : req[r] = Idle /\ req'[r] # Idle /\ Given(req'[r].op.images)
                       => FilesOf(req'[r].op.images) \subseteq files
----------------------------------------------------------------------------
(* What the repository says of the program and the code does not keep      *)

\* "a tour can never be left with zero stops" (the DTO of the update).
NeverZeroStops == \A t \in Tours : tours[t].exists /\ AtRest(t) => stops[t] # {}

\* "Empty when the business hasn't uploaded any photos": a cover is an image
\* that can be shown.
CoverOnDisk == \A t \in Tours : BySlug(t) /\ tours[t].cover # "" => tours[t].cover \in files
====
