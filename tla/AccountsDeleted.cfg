CONSTANTS
  Ids = {"a", "u1", "u2"}
  Profiles <- MCProfiles
  AdminEmails = {"boss"}
  Contacts = {"c1", "c2"}
  Starts <- MCStarts
  Requests = {r1, r2}
  MaxRequests = 3
  None = None
SPECIFICATION Spec
INVARIANT DeletedForGood
SYMMETRY Symmetry
CHECK_DEADLOCK FALSE
