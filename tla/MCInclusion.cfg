\* Logs of up to 9 entries with every one-off change, every path for up to 3.
CONSTANTS
  Proofs <- MCProofs
  MaxSafeSize = 63
  MaxLog = 9
  MaxForged = 3
  NotInteger = NotInteger
SPECIFICATION Spec
CHECK_DEADLOCK FALSE
INVARIANTS
  TypeOK
  AcceptsOnlyTheLeaf
  AcceptsExactlyTheGenuine
  AnswersAlike
