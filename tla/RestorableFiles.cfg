CONSTANTS
  Users = {u1, u2}
  Venues = {v1}
  Sessions = {s1, s2, s3}
  Stars = {100, 500}
  ExternalRating = 433
  ExternalCount = 2
  Deletable = {u2}
  None = None
  w1 = w1
  Workers = {w1, w2}
  Places <- MCPlaces
  Data <- MCData
  Curated <- MCCurated
  Bars <- MCBars
  MinRating = 400
  MinReviews = 90
  ReviewLimit = 2
  Count = 2
  MaxUploads = 2
  Touched = {"tower"}
  SeedFiles <- MCSeedFiles
  Venue0 <- MCVenue0
  Changes <- MCChanges
  NewVenues <- MCNewVenues
  Editors = {e1}
  MaxKm = 15
  Seeds = 1
  JourneyVenues = {x1, x2}
  JourneySessions = {s1, s2}
  MaxVisits = 2
  Months = 3
SPECIFICATION MCSpec
CHECK_DEADLOCK FALSE
INVARIANT RestorableFiles
