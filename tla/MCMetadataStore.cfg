SPECIFICATION Spec
CONSTANT
  MaxSaves = 3
INVARIANTS
  FlagCoversUnsaved
  RecordWholeUnlessCut
  ProtectedWhileRunning
PROPERTIES
  KeepsRecord
  SaveReachesFram
