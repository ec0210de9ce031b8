SPECIFICATION Spec
CONSTANTS
  c1 = c1
  c2 = c2
  c3 = c3
  c4 = c4
  e1 = e1
  n1 = n1
  None = None
  Calls <- FourCalls
  Emails <- OneEmail
  Usernames <- OneName
  RefreshTTL = 1
  AccessTTL = 1
  MaxTime = 2
SYMMETRY CallSymmetry
INVARIANTS
  TypeOK
  OneLivePerLogin
  RotationLinks
  LogoutRevokes
  AccessEnds
PROPERTY RevokedForGood
CHECK_DEADLOCK FALSE
