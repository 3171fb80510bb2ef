SPECIFICATION Spec
CONSTANTS
  LinkUpAt = 5
  Interval = 2
  ReportEvery = 2
  MaxNow = 10
INVARIANTS
  TypeOK
  TotalIsIdle
  LaterLinesFit
