\* Four workers over three grants of which two share a count, with crashes.
CONSTANTS
  Issuer = Issuer
  Approver = Approver
  Approvers = {Approver}
  NoReview = NoReview
  NoKey = NoKey
  NoKeySet = NoKeySet
  NoLimit = NoLimit
  NoBound = NoBound
  Absent = Absent
  NotText = NotText
  Requests <- MCRequests
  Horizon = 1
SPECIFICATION Spec
CHECK_DEADLOCK FALSE
INVARIANTS
  TypeOK
  HonestNeverRefuted
  PassOmitsOnlyPairs
  LimitKept
PROPERTY EveryRequestSettles
