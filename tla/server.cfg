SPECIFICATION FairSpec
CONSTANTS
  p1 = p1
  p2 = p2
  r1 = r1
  r2 = r2
  Process = {p1, p2}
  N = 3
  Rerunnable = {1, 2}
  Faults = TRUE
  Upload = {r1, r2}
  MayFail = TRUE
  NoProcess = NoProcess
INVARIANTS TypeOK ServesMigrated RerunExplained MediaIsWhole
PROPERTIES ImplementsInOrder ShutdownEnds
