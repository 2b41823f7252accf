SPECIFICATION Spec
INVARIANTS
  RunningImagesVerified
  RunningIsMeasured
  RunsAsProgrammed
  NoFlipFlopOnceRecorded
PROPERTY
  BootEnds
