SPECIFICATION FairSpec
CONSTANTS
  c1 = c1
  c2 = c2
  a1 = a1
  a2 = a2
  alice = alice
  bob = bob
  pair = pair
  k = k
  NoKey = NoKey
  None = None
  Failed = Failed
  Rest = Rest
  Calls <- TwoCalls
  Users <- Couple
  Chats <- OneChat
  Members <- PairMembers
  Keys <- OneKey
  Clients <- TwoClients
  UserOf <- UserOfTwo
  MaxCrashes = 1
INVARIANTS
  TypeOK
  OnlySilentSendsAreMissed
  NoPhantom
  ToldOncePerAnswer
PROPERTY CatchesUp
CHECK_DEADLOCK FALSE
