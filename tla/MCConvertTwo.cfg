\* Two requests at a time: the shared log and counters.
CONSTANTS
  r1 = r1  r2 = r2
  Requests <- TwoRequests
  Kinds <- ConfigOnly
  Worlds <- Mixed
SPECIFICATION Spec
SYMMETRY Symmetry
INVARIANTS TypeOK AnsweredErrorsAreLogged MetricsAgree
