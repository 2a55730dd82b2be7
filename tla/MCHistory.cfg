\* Four logs of up to four entries, up to three heads, two links, two inclusions.
CONSTANTS
  Bundles <- MCBundles
  MaxSafeSize = 63
  NoValue = NoValue
  Null = Null
  Loose = Loose
  Trusted = Trusted
  Stranger = Stranger
SPECIFICATION Spec
CHECK_DEADLOCK FALSE
INVARIANTS
  TypeOK
  SameVerdict
  HeadsAreSigned
  OneHistory
  HonestNotAccused
