\* The complete profile's verifier over the repository's own vector situations.
CONSTANTS
  Issuer = Issuer
  Forger = Forger
  Executor = Executor
  OtherExecutor = OtherExecutor
  NoKey = NoKey
  NoKeySet = NoKeySet
  Reviews <- MCReviews
  Counted <- Ledger
SPECIFICATION Spec
CHECK_DEADLOCK FALSE
INVARIANTS
  TypeOK
  WholeWindow
  ExecutedWasCounted
PROPERTY AnswersAsPromised
