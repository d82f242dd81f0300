SPECIFICATION Spec
CONSTANTS
  i1 = i1
  i2 = i2
  i3 = i3
  i4 = i4
  i5 = i5
  Inode = {i1, i2, i3, i4, i5}
  Nil = Nil
  Torn = Torn
  MaxIndex = 2
  MaxTerm = 2
  MaxSaves = 2
  MaxFaults = 1
  MaxCrashes = 2
SYMMETRY Inodes
INVARIANTS
  TypeOK
  SavedSurvives
  StartsAfterCrash
PROPERTY ImplementsRegister
CHECK_DEADLOCK FALSE
