\* The chain profile's verifier over the repository's own vector situations.
CONSTANTS
  Issuer = Issuer
  Forger = Forger
  Approver = Approver
  Agent = Agent
  NoKey = NoKey
  NoKeySet = NoKeySet
  NoLimit = NoLimit
  NoBound = NoBound
  Absent = Absent
  NotText = NotText
  Calls <- MCCalls
SPECIFICATION Spec
CHECK_DEADLOCK FALSE
INVARIANTS
  TypeOK
  LimitsKept
  TracesToApprover
  ComparedExactly
PROPERTY AnswersAsPromised
