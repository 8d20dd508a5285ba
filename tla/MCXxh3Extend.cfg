SPECIFICATION Spec
CONSTANTS
  Stripe = 2
  Word = 1
  default_secret_len = 10
  min_secret_len = 7
  Short = 7
  Mixed = 2
  SizeMod = 1024
  Construction <- MCConstruction
  Lengths = {8}
  MaxBytes = 1
  MaxResults = 6
  NoDigest = NoDigest
  Half = 2
PROPERTIES
  StripesInSecret
CHECK_DEADLOCK FALSE
