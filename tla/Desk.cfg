SPECIFICATION Spec
CONSTANTS
  Off = Off
  None = None
  NoRow = NoRow
  Unset = Unset
  u1 = u1
  u2 = u2
  g1 = g1
  g2 = g2
  Request = {r1, r2}
  PageUser = {"ann", "bob"}
  Reader = {"ann"}
  Admin = {}
  Below <- OnlySelf
  Rights <- SomeRights
  Landing <- TwoGroups
  Member <- GroupsOf
  MaxChanges = 1
  MaxErrors = 1
  Group = {g1, g2}
  User = {u1, u2}
  Active = {u1, u2}
  Selection <- Selections
  Resolver = {w1}
  MaxPatches = 2
  MaxConversions = 3
  FieldName = {n1, n2}
  MaxHits = 1
  MaxFields = 2
  Object = {o1, o2}
  Profile = {p1, p2}
  App = {app}
  sales = sales
  MaxIds = 2
  Null = Null
  a = a
  b = b
  c = c
  s1 = s1
  s2 = s2
  s3 = s3
  s4 = s4
  s5 = s5
  x1 = x1
  x2 = x2
  x3 = x3
  Row = {s1, s2, s3, s4, s5}
  Parent = {a, b, c}
  Attr <- ReportRows
  FormulaValue <- Formulas
  Blank = {c}
  StoredValue <- Stale
  Threshold = 2
  FALLBACK_PARENT_CAP = 3
  Requests <- ReportRequests
  Label <- Labels
  StartTables <- Tables
  REPORT_MAX_DETAIL_ROWS = 3
  REPORT_MAX_CHILDREN_PER_PARENT = 1
  COMPUTED_FILTER_FETCH_CAP = 4
  COMPUTED_AGG_REFETCH_CAP = 3
  PREVIEW_LIMIT = 2
  MaxWrites = 1
  Sheet = {a, b, c}
  About <- ExportObjects
  SheetRow = {x1, x2, x3}
  SqlFilter = {"f1", "f2"}
  SheetAttr <- ExportRows
  ReportKind <- ExportReports
  MAX_ROWS_PER_OBJECT = 4
  STREAM_BATCH_SIZE = 2
  NameField = {f1, f2}
  NameWorker = {w1, w2}
  MaxFieldChanges = 2
SYMMETRY RequestSymmetry
INVARIANTS
  
  GroupsAndLeadsHold
  FieldsHold
  ObjectsHold
  LeftOutIsTold
  CellsAgree
  TotalIsNotShort
  FilterMatchesShownValue
  ExportsHold
CHECK_DEADLOCK FALSE
