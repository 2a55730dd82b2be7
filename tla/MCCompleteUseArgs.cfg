\* The same situations: is the USE the executor names held to the entry's args_hash?
CONSTANTS
  Issuer = Issuer
  Forger = Forger
  Executor = Executor
  OtherExecutor = OtherExecutor
  NoKey = NoKey
  NoKeySet = NoKeySet
  Reviews <- MCReviews
  Counted <- Ledger
SPECIFICATION Spec
CHECK_DEADLOCK FALSE
INVARIANT UseArgsReconciled
