SPECIFICATION Spec
CONSTANTS
  c1 = c1
  c2 = c2
  c3 = c3
  alice = alice
  bob = bob
  nobody = nobody
  lower = lower
  upper = upper
  None = None
  Calls <- ThreeCalls
  Users <- Couple
  Strangers <- OneStranger
  Spellings <- TwoSpellings
  Canonical = lower
  PageLimit = 1
  MaxTime = 1
SYMMETRY Symmetry
INVARIANTS
  TypeOK
  WholeChats
  ServedChats
PROPERTIES
  NoLateDuplicate
  ForbiddenOnlyOffPage
CHECK_DEADLOCK FALSE
