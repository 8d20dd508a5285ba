SPECIFICATION Spec
CONSTANTS
  Algorithm = {"sha3", "shake"}
  Rate <- MCRate
  Delim <- MCDelim
  LastBit = {3}
  Bits = {1, 2, 3}
  Input <- MCInput
  Key <- MCKey
  MaxBytes = 8
  NoDigest = NoDigest
INVARIANTS
  TypeOK
  KeysDiffer
PROPERTIES
  ImplementsSponge
CHECK_DEADLOCK FALSE
