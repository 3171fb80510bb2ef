SPECIFICATION Spec
CONSTANTS
  Builds = {b1, b2}
  Ports = {p1, p2}
  Jobs <- MCJobs
  Names <- MCNames
  BaseName = "base"
  MaxStarts = 2
INVARIANTS
  BuildsDoNotCollide
CHECK_DEADLOCK FALSE
