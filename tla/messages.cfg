SPECIFICATION FairSpec
CONSTANTS
  alice = alice
  bob = bob
  User = {alice, bob}
  Message = {m1}
  Text = {t1, t2}
  Worker = {1, 2, 3}
  UserOf <- MCUserOf
  Via <- MCVia
  Window = 0
  MaxTime = 2
  Leaver = {alice}
  Faults = TRUE
  NoMessage = NoMessage
  NoText = NoText
  NoUser = NoUser
INVARIANTS TypeOK ToldIsStored FeedConverges
PROPERTIES DeletedIsFinal FrozenAfterWindow DeleteAnnouncedOrStrayed
