SPECIFICATION Spec
CONSTANTS
  a1 = a1
  b1 = b1
  alice = alice
  bob = bob
  pair = pair
  solo = solo
  NoEvent = NoEvent
  Users <- MCUsers
  Clients <- TwoClients
  UserOf <- UserOfTwo
  Chats <- MCChats
  Members <- MCMembers
  SendCap = 1
  BroadcastCap = 2
  MaxEvents = 2
INVARIANTS
  TypeOK
  RegistryMatches
  MembersOnly
  SenderOrder
  NoGap
  NothingMissed
PROPERTY ImplementsFanout
\* A panic of the hub ends the process; a bounded model runs out of events.
CHECK_DEADLOCK FALSE
