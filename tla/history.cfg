SPECIFICATION HistorySpec
CONSTANTS
  Message = {m1, m2, m3, m4, m5}
  Limit = 2
  MaxTime = 4
  MaxFailed = 1
  NoMessage = NoMessage
INVARIANTS NoRepeat NoGaps
CHECK_DEADLOCK FALSE
SYMMETRY MCSymmetry
