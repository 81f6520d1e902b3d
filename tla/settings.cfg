SPECIFICATION Spec
CONSTANTS
  alice = alice
  bob = bob
  c1 = c1
  c2 = c2
  m1 = m1
  m2 = m2
  f1 = f1
  f2 = f2
  i1 = i1
  i2 = i2
  i3 = i3
  User = {alice, bob}
  Chat = {c1, c2}
  Worker = {1, 2, 3}
  UserOf <- MCUserOf
  MaxPlace = 2
  Faults = TRUE
  Nothing = Nothing
  Message = {m1, m2}
  ChatOf <- MCChatOf
  MembersOf <- MCMembersOf
  Folder = {f1, f2}
  Id = {i1, i2, i3}
INVARIANTS PlacesDistinct PinConverges ForeignPinsRefused AnsweredIdHolds
CONSTRAINT MCOnePart
