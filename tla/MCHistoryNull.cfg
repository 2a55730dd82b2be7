\* One record whose record_timestamp is null.
CONSTANTS
  Bundles <- NullBundles
  MaxSafeSize = 63
  NoValue = NoValue
  Null = Null
  Loose = Loose
  Trusted = Trusted
  Stranger = Stranger
SPECIFICATION Spec
CHECK_DEADLOCK FALSE
INVARIANTS
  SameVerdict
