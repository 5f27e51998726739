CONSTANTS
  w1 = w1
  w2 = w2
  r1 = r1
  r2 = r2
  None = None
  Workers <- MCWorkers
  Requests <- MCRequests
  Cities <- MCCities
  Venues <- MCVenues
  Data <- MCData
  Pages <- MCPages
  Listings <- MCListings
  Liked = {}
  Limit = 2
  Ttl = 0
  SMaxAge = 0
  Swr = 1
  Edits = 2
  Listed <- MCListed
  CityOf <- MCCityOf
  WardOf <- MCWardOf
  RegionOf <- MCRegionOf
  Wards <- MCWards
  Capital = "c1"
  Intents <- MCIntents
  CurrentCities <- MCCurrentCities
  Searches <- MCRequests
  Bogus = "bogus"
  DefaultCount = 2
  MaxCount = 2
  PageSize = 2
  PoolCap = 3
  Window = 2
  TooFew = 1
  RowTtl = 0
  Hideable = {"v1"}
  Offsets = {2}
  NoCount = NoCount
SPECIFICATION MCSpec
SYMMETRY Symmetry
CHECK_DEADLOCK FALSE
INVARIANTS StaleBounded EditorSeesEdit SectionFull PagesShowAll ListComplete HiddenNotShown RowIsOneSearch
