SPECIFICATION Spec
CONSTANTS
  alice = alice
  bob = bob
  u1 = u1
  u2 = u2
  t1 = t1
  t2 = t2
  t3 = t3
  t4 = t4
  w1 = w1
  w2 = w2
  User = {u1, u2}
  Name = {alice, bob}
  NameOf <- MCSameName
  Worker = {w1, w2}
  Token = {t1, t2, t3}
  AccessTTL = 1
  RefreshTTL = 1
  MaxTime = 3
  Faults = TRUE
  NoUser = NoUser
  NoToken = NoToken
INVARIANTS TypeOK OneAccountPerName Rotation LogoutRevokes
PROPERTY LoginContinues
CHECK_DEADLOCK FALSE
