SPECIFICATION Spec
CONSTANTS
  ByteBits = 2
  Multiplier <- MCMultiplier
  IntegralSizes = {1, 2, 8}
  Algorithm = {"fnv1a_32", "fnv1a_64"}
  Size <- MCSize
  basis <- MCBasis
  prime <- MCPrime
  XorByte <- MCXor
  Object = {o1, o2}
  Seed = {0, 1, 65535}
  Key <- MCKey
  Input <- MCInput
  MaxBytes = 5
INVARIANTS
  TypeOK
  AsOneUpdate
  ResultsDiffer
  PartsDiffer
  ContractionsAreUniform
PROPERTIES
  StatesStayApart
CHECK_DEADLOCK FALSE
