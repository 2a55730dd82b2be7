\* An allowed and a refused request, two periods of two instants, one instant of
\* commit delay and of settling.
CONSTANTS
  Issuer = Issuer
  Executor = Executor
  NoKey = NoKey
  NoKeySet = NoKeySet
  NoReview = NoReview
  Requests <- MCRequests
  Period = 2
  Settle = 1
  Delay = 1
  Horizon = 5
  MaxLog = 2
  MaxOmitted = 1
SPECIFICATION Spec
CHECK_DEADLOCK FALSE
INVARIANTS
  TypeOK
  PassHidesNothing
  OmissionSeen
  HonestNeverRefuted
