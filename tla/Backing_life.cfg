\* Three structs for two numbers to give out; a file more than the names.
CONSTANTS
  b1 = b1
  b2 = b2
  b3 = b3
  n1 = n1
  n2 = n2
  f1 = f1
  f2 = f2
  f3 = f3
  None = None
  Std = Std
  Backings <- ThreeBackings
  Names <- TwoNames
  Files <- ThreeFiles
  MaxFd = 2
SPECIFICATION Spec
SYMMETRY Interchangeable
INVARIANTS
  TypeOK
  BackingsKeepTheirFile
  NothingLeaks
  CreatedStoresAreWhole
  IInv
