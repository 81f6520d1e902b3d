SPECIFICATION LimiterSpec
CONSTANTS
  here = here
  there = there
  Address = {here, there}
  Request = {1, 2, 3, 4, 5, 6}
  From <- MCFrom
  Burst = 2
  MaxElapsed = 1
  NoBucket = NoBucket
INVARIANT BucketPerRacer
CHECK_DEADLOCK FALSE
