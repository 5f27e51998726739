CONSTANTS
    Tours = {t1, t2}
    Brands = {b1, b2}
    t1 = t1
    t2 = t2
    b1 = b1
    b2 = b2
    Cities = {"hanoi", "hue"}
    Files = {"f1", "f2", "logo", "logo2"}
    Reqs = {r1, r2, r3}
    VenueCity <- MCVenueCity
    Ops <- MCOps
    Row0 <- MCRow0
    MaxPromotions = 2
    Keep = Keep
    NoBrand = NoBrand
    NoVenue = NoVenue
SPECIFICATION Spec
SYMMETRY Symmetric
CHECK_DEADLOCK FALSE
INVARIANTS ItinerariesSurvive DerivedFromStops ProviderIsBrand PromotionsBounded GalleryOnDisk
