SPECIFICATION FairSpec
CONSTANTS
  a1 = a1
  b1 = b1
  alice = alice
  bob = bob
  pair = pair
  solo = solo
  NoEvent = NoEvent
  Users <- MCUsers
  Clients <- OneClient
  UserOf <- UserOfOne
  Chats <- OneChat
  Members <- OneMembers
  SendCap = 1
  BroadcastCap = 1
  MaxEvents = 3
PROPERTIES
  ClosedCleansUp
  Delivered
CHECK_DEADLOCK FALSE
