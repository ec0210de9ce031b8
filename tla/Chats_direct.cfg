SPECIFICATION Spec
CONSTANTS
  c1 = c1
  c2 = c2
  c3 = c3
  alice = alice
  bob = bob
  nobody = nobody
  lower = lower
  upper = upper
  None = None
  Calls <- TwoCalls
  Users <- Couple
  Strangers <- OneStranger
  Spellings <- OneSpelling
  Canonical = lower
  PageLimit = 1
  MaxTime = 0
SYMMETRY Symmetry
INVARIANT OneDirectChat
CHECK_DEADLOCK FALSE
