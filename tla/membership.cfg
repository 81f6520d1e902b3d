SPECIFICATION Spec
CONSTANTS
  alice = alice
  bob = bob
  carol = carol
  User = {alice, bob, carol}
  Chat = {c1}
  Worker = {1, 2, 3}
  UserOf <- MCUserOf
  Pair <- MCPair
  Faults = TRUE
  NoChat = NoChat
  NoUser = NoUser
INVARIANTS TypeOK BlockedHasBlock
PROPERTIES DirectChatClosed OwnerlessIsFinal BlockStopsRequests AnsweredIsFinal
