SPECIFICATION Spec
CONSTANTS
  Algorithm = {"siphash_32", "siphash_64", "xxhash_32", "xxhash_64", "murmur3_32", "murmur3_128", "spooky2_128"}
  Size <- MCSize
  HalfBytes = 1
  P2 = 3
  Radix = 8
  SizeMod = 64
  Input <- MCInput
  Key <- MCKey
  Seed <- MCSeed
  MaxBytes = 5
  MaxResults = 1
  Garbage = Garbage
  NoDigest = NoDigest
INVARIANTS
  TypeOK
  CountersAgree
  SplitsDoNotMatter
  DigestIsOfMessage
  KeysDifferButForZeroes
  WideSeedsDiffer
PROPERTIES
  ResultsDiffer
CHECK_DEADLOCK FALSE
