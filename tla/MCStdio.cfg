SPECIFICATION FairSpec
CONSTANTS
  Capacity = 2
  MaxLines = 2
  MaxEvents = 3
INVARIANTS
  TypeOK
  DrainedOnExit
PROPERTIES
  HonestStdout
  FramesAccounted
  SidecarExits
