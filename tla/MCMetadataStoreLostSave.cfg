SPECIFICATION Spec
CONSTANT
  MaxSaves = 2
INVARIANT
  UnsavedIsFlagged
