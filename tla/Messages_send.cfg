SPECIFICATION FairSpec
CONSTANTS
  c1 = c1
  c2 = c2
  c3 = c3
  c4 = c4
  alice = alice
  bob = bob
  eve = eve
  pair = pair
  k = k
  NoKey = NoKey
  None = None
  Failed = Failed
  Calls <- ThreeCalls
  Users <- Trio
  Chats <- OneChat
  Members <- PairMembers
  Keys <- OneKey
  MaxTime = 0
INVARIANTS
  IdempotentKey
  AnswerIsDurable
PROPERTIES
  ImplementsLog
  EveryCallEnds
CHECK_DEADLOCK FALSE
