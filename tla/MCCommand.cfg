CONSTANTS
  NoOption = NoOption
  NoFile = NoFile
  NoExit = NoExit
  CommandLines <- MCCommandLines

SPECIFICATION Spec

INVARIANTS
  TypeOK
  VouchedAsSigned
  VectorsTestTheirRule
  SameExit

CHECK_DEADLOCK FALSE
