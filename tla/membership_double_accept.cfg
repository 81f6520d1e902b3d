SPECIFICATION Spec
CONSTANTS
  alice = alice
  bob = bob
  carol = carol
  User = {alice, bob}
  Chat = {c1, c2}
  Worker = {1, 2, 3}
  UserOf <- MCUserOf
  Pair <- MCPair
  Faults = FALSE
  NoChat = NoChat
  NoUser = NoUser
PROPERTY AcceptsPending
