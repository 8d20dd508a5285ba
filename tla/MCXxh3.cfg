SPECIFICATION Spec
CONSTANTS
  Stripe = 2
  Word = 1
  default_secret_len = 10
  min_secret_len = 7
  Short = 7
  Mixed = 2
  SizeMod = 32
  Construction <- MCConstruction
  Lengths = {0, 1, 3, 8, 17}
  MaxBytes = 24
  MaxResults = 2
  NoDigest = NoDigest
  Half = 8
INVARIANTS
  TypeOK
  Streamed
PROPERTIES
  DigestInBlock
  ResultsDiffer
CHECK_DEADLOCK FALSE
