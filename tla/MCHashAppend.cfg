SPECIFICATION AppendSpec
CONSTANTS
  Radix = 2
  SizeWidth = 2
  Flavor = {"default", "little", "big"}
  Hosts <- MCHosts
  Program <- MCProgram
  Types <- MCTypes
  MaxLength = 2
INVARIANTS
  AppendTypeOK
  EqualObjectsAgree
  ReadableObjectsDiffer
PROPERTIES
  AppendExtends
CHECK_DEADLOCK FALSE
