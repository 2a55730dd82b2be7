\* Two records, three statements, five half seconds, a tolerance of one second.
CONSTANTS
  NoKey = NoKey
  NoKeySet = NoKeySet
  NoValue = NoValue
  Null = Null
  Loose = Loose
  NoCall = NoCall
  Issuer = Issuer
  Authority = Authority
  Stranger = Stranger
  Other = Other
  NoHead = NoHead
  Ids = {"action"}
  MaxSafeSize = 63
  Horizon = 3
  Tolerance = 1
  MaxStatements = 3
  MaxGap = 1
  Styles <- MCStyles
SPECIFICATION Spec
CHECK_DEADLOCK FALSE
INVARIANTS
  TypeOK
  HonestNeverAccused
  PassHidesNoLateness
  PassVouchesOneLog
PROPERTY AnswersAsPromised
