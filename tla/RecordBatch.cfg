SPECIFICATION Spec
CONSTANTS
  r1 = r1
  r2 = r2
  n1 = n1
  n2 = n2
  n3 = n3
  a = a
  b = b
  Request = {q1, q2}
  Row <- RowSet
  Data <- DataSet
  Plans <- PlanSet
  Start <- StartSet
  Absent = Absent
  Keep = Keep
  Clean = Clean
  NoRequest = NoRequest
  NoPlan = NoPlan
SYMMETRY RequestSymmetry
INVARIANT TypeOK
PROPERTIES
  ReportIsTrue
  HistoryTellsReplacedValue
  DuplicatesNeedOverlap
CHECK_DEADLOCK FALSE
