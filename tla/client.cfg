SPECIFICATION FairSpec
CONSTANTS
  Cap = 2
  MaxEvents = 7
INVARIANT TypeOK
PROPERTIES ImplementsOutbox CloseEndsClient AcceptedArrives
CHECK_DEADLOCK FALSE
