\* One request of each kind, every choice of up to three broken stages.
CONSTANTS
  r1 = r1  r2 = r2
  Requests <- OneRequest
  Kinds <- AllKinds
  Worlds <- UpToThree
SPECIFICATION FairSpec
INVARIANTS AnswerIsDetermined RecordsExplainErrors
PROPERTIES RequestsAreAnswered
