\* Sizes up to 8 with every one-off change and fork, every path up to size 3.
CONSTANTS
  Proofs <- MCProofs
  MaxSafeSize = 63
  MaxLog = 8
  MaxForged = 3
  NotInteger = NotInteger
SPECIFICATION Spec
CHECK_DEADLOCK FALSE
INVARIANTS
  TypeOK
  AcceptsOnlyThePrefix
  AcceptsExactlyTheGenuine
  AnswersAlike
