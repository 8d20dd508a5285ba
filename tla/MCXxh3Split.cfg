SPECIFICATION Spec
CONSTANTS
  Stripe = 2
  Word = 1
  default_secret_len = 10
  min_secret_len = 7
  Short = 7
  Mixed = 2
  SizeMod = 1024
  Construction <- MCConstruction
  Lengths = {0, 1, 3, 8, 17}
  MaxBytes = 24
  MaxResults = 1
  NoDigest = NoDigest
  Half = 2
PROPERTIES
  DigestIsOneShot
CHECK_DEADLOCK FALSE
