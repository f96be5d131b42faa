SPECIFICATION ListingSpec
CONSTANTS
  Colls <- MCColls
  Segments = {1, 2}
  Stems <- MCStems
  Kinds <- MCKinds
  Servers = {1, 2}
  Expire = 1
  MaxTime = 3
  MaxHeld = 3
  MaxCached = 2
INVARIANTS ListingWellFormed TypeReported Fresh OfferedResolve
CHECK_DEADLOCK FALSE
