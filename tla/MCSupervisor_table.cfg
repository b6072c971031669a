\* Two handlers start, stop and delete one id at will.
CONSTANTS
  Handlers = {h1, h2}
  Nil = Nil
  MaxForks = 2
  Members = FALSE
SPECIFICATION FairSpec
INVARIANTS NoOrphan DeleteAfterExit
PROPERTIES DeleteReturns
