SPECIFICATION Spec
CONSTANTS
  alice = alice
  bob = bob
  a1 = a1
  a2 = a2
  b1 = b1
  User = {alice, bob}
  Conn = {a1, a2, b1}
  UserOf <- MCUserOf
  Speaker = {b1}
  MaxToggles = 2
  Faults = TRUE
  NoConn = NoConn
INVARIANTS TypeOK NoLostConn PresenceConverges
PROPERTY GhostBounded
CHECK_DEADLOCK FALSE
VIEW MCView
CONSTRAINT MCBounds
