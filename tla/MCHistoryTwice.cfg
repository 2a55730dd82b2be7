\* One tree signed at two times.
CONSTANTS
  Bundles <- TwiceSigned
  MaxSafeSize = 63
  NoValue = NoValue
  Null = Null
  Loose = Loose
  Trusted = Trusted
  Stranger = Stranger
SPECIFICATION Spec
CHECK_DEADLOCK FALSE
INVARIANTS
  ContradictionNamed
