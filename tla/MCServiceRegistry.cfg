SPECIFICATION Spec
CONSTANTS
  n1 = n1
  n2 = n2
  e1 = e1
  e2 = e2
  bad = bad
  BadName = bad
  Names <- MCNames
  Insts <- MCInsts
  Endpoints <- MCEndpoints
  Fds <- MCFds
  HandleMod = 3
SYMMETRY Symmetry
INVARIANTS
  TypeOK
  FdIndexExact
  HandleNeverInvalid
PROPERTIES
  OthersUntouched
CHECK_DEADLOCK FALSE
