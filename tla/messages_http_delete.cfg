SPECIFICATION FairSpec
CONSTANTS
  alice = alice
  bob = bob
  User = {alice, bob}
  Message = {m1}
  Text = {t1, t2}
  Worker = {1, 2}
  UserOf <- MCUserOf
  Via <- MCVia
  Window = 1
  MaxTime = 2
  Leaver = {bob}
  Faults = FALSE
  NoMessage = NoMessage
  NoText = NoText
  NoUser = NoUser
PROPERTY DeleteAnnounced
