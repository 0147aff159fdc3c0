SPECIFICATION Spec
CONSTANTS
  Off = Off
  None = None
  Null = Null
  Text = Text
  FirstYear = 2023
  LastYear = 2027
  Owner = {"o1", "o2"}
  ViewName = {"today", "last_month", "mine"}
  FirstDay <- LeapDay
  Request = {r1, r2}
  MaxPins = 3
  MaxDays = 1
  Root = Root
  f1 = f1
  f2 = f2
  f3 = f3
  Folder = {f1, f2, f3}
  Report = {d1}
  FolderOwner = {"ann", "bob"}
  Reader = "ann"
  Forest <- Trees
  MaxMoves = 2
  Formula = {"f", "h"}
  ListColumn = {"id", "owner_id", "is_deleted", "a", "b", "h"}
  ListRow <- SomeRows
  User = {"u1", "u2", "adm"}
  Admin = {"adm"}
  Shared <- SharedRows
  FilterList <- FilterLists
  Logic <- Logics
  Search <- Searches
  Depth = 12
  GroupKey = {1, 2}
  Levels = 2
  GroupColumn = {1, 2}
  Table <- Orders
  MaxColumns = 2
  Object = {"leads", "accounts", "users"}
  base = "leads"
  Relation <- Relations
  ForeignKey <- Keys
  Lookup <- Lookups
  Alike <- Plurals
  Guess <- Guesses
  Path <- Paths
  Worker = {w1}
  MaxChanges = 1
  Column = {"a", "b"}
  Field = {"f", "g", "h", "k"}
  FieldMeaning <- Meanings
  FieldValue <- FieldValues
  Rollup = 7
  Elsewhere = {"b"}
  ROUNDS = 2
INVARIANTS
  SidebarHolds
  ListsHold
  ComputedHolds
CHECK_DEADLOCK FALSE
