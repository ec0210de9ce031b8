SPECIFICATION Spec
CONSTANTS
  c1 = c1
  c2 = c2
  c3 = c3
  alice = alice
  bob = bob
  nobody = nobody
  lower = lower
  upper = upper
  None = None
  Calls <- ThreeCalls
  Users <- Couple
  Strangers <- OneStranger
  Spellings <- OneSpelling
  Canonical = lower
  PageLimit = 1
  MaxTime = 0
SYMMETRY Symmetry
PROPERTY MembersAreServed
CHECK_DEADLOCK FALSE
