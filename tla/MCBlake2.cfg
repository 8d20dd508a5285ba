SPECIFICATION Spec
CONSTANTS
  block_size = 4
  Word = 8
  Input <- MCInput
  Key <- MCKey
  MaxBytes = 5
  MaxResults = 2
  NoDigest = NoDigest
INVARIANTS
  TypeOK
  BytesCounted
  SplitsDoNotMatter
  KeysDiffer
PROPERTIES
  FirstIsRFC7693
CHECK_DEADLOCK FALSE
