\* Three URLs, two slots, every combination of upstream answers; with fairness.
CONSTANTS
  a = a  b = b  c = c
  URLs <- ThreeURLs
  SubLists <- Lists
  Limit = 2
SPECIFICATION FairSpec
INVARIANTS TypeOK AtMostLimitInFlight NothingRunsAfterReturn
PROPERTIES ResultsPublishedOnce ImplementsSequentialLoop CallReturns
