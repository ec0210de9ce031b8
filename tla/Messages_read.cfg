SPECIFICATION Spec
CONSTANTS
  c1 = c1
  c2 = c2
  c3 = c3
  c4 = c4
  alice = alice
  bob = bob
  eve = eve
  pair = pair
  k = k
  NoKey = NoKey
  None = None
  Failed = Failed
  Calls <- FourCalls
  Users <- Couple
  Chats <- OneChat
  Members <- PairMembers
  Keys <- NoKeys
  MaxTime = 1
SYMMETRY CallSymmetry
INVARIANTS
  TypeOK
  ReadPosition
  LastMessageAtExists
PROPERTY StaysRead
CHECK_DEADLOCK FALSE
