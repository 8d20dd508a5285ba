SPECIFICATION AppendSpec
CONSTANTS
  Radix = 2
  SizeWidth = 2
  Flavor = {"big"}
  Hosts <- MCHosts
  Program <- MCMixed
  Types <- MCTypes
  MaxLength = 2
INVARIANTS
  DifferentObjectsDiffer
CHECK_DEADLOCK FALSE
