SPECIFICATION FairSpec
CONSTANTS
  Builds = {b1, b2}
  Ports = {p1, p2}
  Jobs <- MCJobs
  Names <- MCNames
  BaseName = "base"
  MaxStarts = 3
INVARIANTS
  TypeOK
  QuietDisk
PROPERTIES
  LeavesNoQemu
  BootFilesMatch
  BuildsEnd
CHECK_DEADLOCK FALSE
