SPECIFICATION Spec
CONSTANTS
  a1 = a1
  b1 = b1
  alice = alice
  bob = bob
  pair = pair
  solo = solo
  NoEvent = NoEvent
  Users <- MCUsers
  Clients <- TwoClients
  UserOf <- UserOfTwo
  Chats <- OneChat
  Members <- OneMembers
  SendCap = 2
  BroadcastCap = 1
  MaxEvents = 1
INVARIANT HubSurvives
CHECK_DEADLOCK FALSE
