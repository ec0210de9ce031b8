SPECIFICATION FairSpec
CONSTANTS
  alice = alice
  eve = eve
  Users <- MCUsers
  Members <- OneMember
  Ids <- MCIds
  Limits <- MCLimits
  DefaultLimit = 1
  MaxLimit = 2
  Second = 2
  MaxTime = 2
INVARIANTS
  TypeOK
  SkipsOnlyAtCuts
PROPERTIES
  Descending
  PagingEnds
CHECK_DEADLOCK FALSE
