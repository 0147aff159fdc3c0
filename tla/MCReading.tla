------------------------------- MODULE MCReading -------------------------------
(***************************************************************************)
(* What is read of records, and from where, each part by itself: list      *)
(* views, pinned views, the periods of filters, folders of reports,        *)
(* pivots, the joins of a query and computed fields.  They share no state; *)
(* a behaviour is one of one of them.                                      *)
(***************************************************************************)
EXTENDS Integers, SequencesExt, TLC

CONSTANTS
  Off, None, Null, Text,
  FirstYear, LastYear, Owner, ViewName, FirstDay, Request, MaxPins, MaxDays,
  Root, f1, f2, f3, Folder, Report, FolderOwner, Reader, Forest, MaxMoves,
  Formula, ListColumn, ListRow, User, Admin, Shared, FilterList, Logic, Search, Depth,
  GroupKey, Levels, GroupColumn, Table, MaxColumns,
  Object, base, Relation, ForeignKey, Lookup, Alike, Guess, Path, Worker, MaxChanges,
  Column, Field, FieldMeaning, FieldValue, Rollup, Elsewhere, ROUNDS

VARIABLES
  service,           \* ways to read: what behaves
  today, begin, viewRows, pinning, pinsBegun, pinsShown, pinsOverlapped,
  folders, shares, reports, listing, folderChanges,
  view, viewShown,
  pivotRecords, agg, pivotAt, open, totals, subtotals, pivotTotal, pivotPc,
  lookups, joinParents, children, request, joinAnswer, joinChanges,
  meaning, order, wanted, formulaTotal, batch, asked, rows, formulaRecords, formulaAt

pinsVars == <<today, begin, viewRows, pinning, pinsBegun, pinsShown, pinsOverlapped>>
folderVars == <<folders, shares, reports, listing, folderChanges>>
listVars == <<view, viewShown>>
pivotVars == <<pivotRecords, agg, pivotAt, open, totals, subtotals, pivotTotal, pivotPc>>
joinVars == <<lookups, joinParents, children, request, joinAnswer, joinChanges>>
formulaVars == <<meaning, order, wanted, formulaTotal, batch, asked, rows, formulaRecords,
    formulaAt>>
vars == <<service, pinsVars, folderVars, listVars, pivotVars, joinVars, formulaVars>>

\* Small instances of the constants that are functions, sequences or sets of records.

\* February 29, 2024, by its ordinal.
LeapDay == {738945}

\* f1 has no folder around it, f3 is in f2, and both are bob's; f2 may be in f3: a circle.
Trees ==
  {f \in [{f1, f2, f3} -> {[owner |-> o, parent |-> p, deleted |-> FALSE] :
                          o \in {"ann", "bob"}, p \in {f1, f2, f3, Root}}] :
     f[f1].parent = Root /\ f[f2].parent # f2 /\ f[f3].parent = f2 /\ {f[f1].owner, f[f3].owner} = {"bob"}}

\* Six rows, one deleted, of two owners; b is null or y of some; h is a
\* column here and a formula of another object, f only a formula.
Listed(i, o, d, x, y, z) ==
  "id" :> i @@ "owner_id" :> o @@ "is_deleted" :> d @@ "a" :> x @@ "b" :> y @@ "h" :> z
SomeRows ==
  {Listed("r1", "u1", "no", "x", "x", "x"), Listed("r2", "u2", "no", "x", None, "y"),
   Listed("r3", "u2", "no", None, "y", "x"), Listed("r4", "u1", "yes", "x", "x", "x"),
   Listed("r5", "u1", "no", "y", "x", None), Listed("r6", "u2", "no", "y", "y", "y")}
SharedRows == "u1" :> {"r3"} @@ "u2" :> {} @@ "adm" :> {}

Test(f, op, v) == [field |-> f, op |-> op, value |-> v]
FilterLists ==
  {<<>>, <<Test("a", "in", {"x"}), Test("b", "in", {"x"})>>,
   <<Test("a", "!=", {"x"}), Test("b", "is_null", {}), Test("a", "in", {"x"})>>,
   <<Test("owner_id", "in", {"u2"}), Test("a", "in", {"x"})>>,
   <<Test("h", "in", {"x"}), Test("b", "in", {"x"})>>,
   <<Test("a", "in", {"x"}), Test("f", "in", {"x"})>>}
Searches == {<<>>, <<<<Test("a", "in", {"x"}), Test("b", "in", {"x"}), Test("h", "in", {"x"})>>>>, <<<<>>>>}

\* Every short sequence of tokens, well formed or not, and others that mix the operators.
Logics ==
  UNION {[1..n -> {"1", "AND", "NOT", "(", ")"}] : n \in 1..3} \cup
  {<<"1", "OR", "2", "AND", "3">>, <<"NOT", "1", "AND", "2">>, <<"NOT", "1", "OR", "2">>,
   <<"(", "1", "OR", "2", ")", "AND", "3">>, <<"1", "AND", "NOT", "(", "2", "OR", "3", ")">>,
   <<"NOT", "(", "1", "AND", "2", ")">>, <<"1", "AND", "2", "OR", "3">>, <<"1", "AND", "2", ")">>,
   <<"1", "OR", "2", "3">>, <<"NOT", "NOT", "1">>, <<"1", "OR", "(", "2", "AND">>}

\* Pivot: every order of some of four cells, one of them NULL.
Cell(r, k, v) == [row |-> r, col |-> k, value |-> v]
Orders ==
  UNION {SetToSeqs(S) :
    S \in SUBSET {Cell(<<1, 1>>, 1, 2), Cell(<<1, 2>>, 1, 3), Cell(<<2, 1>>, 1, 5), Cell(<<1, 1>>, 2, Null)}}

\* QueryJoins: two ways to an account, two relationships called owner, and the guesses that
\* are made where no lookup says more.
Relations == {"account", "accounts", "owner", "referrer"}
Keys == {"acc_id", "ref_id", "boss_id", "owner_id", "account_id", "accounts_id"}
Way(o, k, r, p) == [object |-> o, key |-> k, rel |-> r, parent |-> p]
Lookups ==
  {Way("leads", "acc_id", "account", "accounts"), Way("leads", "ref_id", "referrer", "accounts"),
   Way("accounts", "boss_id", "owner", "users"), Way("leads", "owner_id", "owner", "users")}
Guesses ==
  "owner" :> [table |-> "users", key |-> "owner_id"] @@
  "account" :> [table |-> "accounts", key |-> "account_id"] @@
  "accounts" :> [table |-> "accounts", key |-> "accounts_id"] @@
  "referrer" :> [table |-> "leads", key |-> "ref_id"]
Plurals == {<<"account", "accounts">>}
Paths == {<<"account", "owner">>, <<"referrer", "owner">>, <<"owner">>, <<"accounts">>}

\* ComputedFields: chains of sums and roll-ups, in any order of their rows.
Means(f, uses) == [form |-> f, uses |-> uses]
Four(f, g, h, k) == "f" :> f @@ "g" :> g @@ "h" :> h @@ "k" :> k
Meanings ==
  {Four(Means("sum", {"h"}), Means("sum", {"f", "k"}), Means("sum", {"a"}), Means("rollup", {})),
   Four(Means("sum", {"g", "a"}), Means("sum", {"h", "b"}), Means("sum", {"a"}), Means("rollup", {})),
   Four(Means("sum", {"g", "k"}), Means("sum", {"k", "b"}), Means("orzero", {"g"}), Means("rollup", {})),
   Four(Means("sum", {"g", "a"}), Means("orzero", {"h"}), Means("sum", {"a"}), Means("rollup", {})),
   Four(Means("mixed", {"a", "b"}), Means("sum", {"f"}), Means("sum", {"h", "a"}), Means("sum", {"b"}))}
Both(x, y) == "a" :> x @@ "b" :> y
FieldValues == {<<Both(1, 2), Both(3, Null)>>, <<>>, <<Both(Null, 5)>>}

Pins == INSTANCE PinnedViews WITH Name <- ViewName, Start <- FirstDay, rows <- viewRows,
  request <- pinning, begun <- pinsBegun, shown <- pinsShown, overlapped <- pinsOverlapped
Folders == INSTANCE ReportFolders WITH Owner <- FolderOwner, Start <- Forest,
  MaxChanges <- MaxMoves, changes <- folderChanges
List == INSTANCE ListViews WITH Computed <- Formula, Column <- ListColumn, Null <- None, Rows <- ListRow, Reader <- User,
  NoView <- None, shown <- viewShown
Grid == INSTANCE Pivot WITH Key <- GroupKey, Column <- GroupColumn, Tables <- Table,
  records <- pivotRecords, at <- pivotAt, total <- pivotTotal, pc <- pivotPc
Joins == INSTANCE QueryJoins WITH Rel <- Relation, Key <- ForeignKey, parents <- joinParents,
  answer <- joinAnswer, changes <- joinChanges
Computed == INSTANCE ComputedFields WITH Computed <- Field, Meaning <- FieldMeaning, Values <- FieldValue,
  total <- formulaTotal, records <- formulaRecords, at <- formulaAt

ASSUME ReadingAssumption ==
  /\ Pins!PinsAssumption
  /\ Folders!FolderAssumption
  /\ List!ListViewsAssumption
  /\ Grid!PivotAssumption
  /\ Joins!JoinsAssumption
  /\ Computed!FieldsAssumption

----------------------------------------------------------------------------
\* Of the parts one is chosen at first; the others are not there.

NoPinned == begin = Off /\ viewRows = Off /\ pinning = Off /\ pinsBegun = Off /\ pinsShown = Off /\
    pinsOverlapped = Off
NoPins == today = Off /\ NoPinned
NoFolders == folders = Off /\ shares = Off /\ reports = Off /\ listing = Off /\ folderChanges = Off
NoList == view = Off /\ viewShown = Off

NoGrid == pivotRecords = Off /\ agg = Off /\ pivotAt = Off /\ open = Off /\ totals = Off /\
    subtotals = Off /\ pivotTotal = Off /\ pivotPc = Off
NoJoins == lookups = Off /\ joinParents = Off /\ children = Off /\ request = Off /\ joinAnswer = Off /\
    joinChanges = Off
NoComputed == meaning = Off /\ order = Off /\ wanted = Off /\ formulaTotal = Off /\ batch = Off /\
    asked = Off /\ rows = Off /\ formulaRecords = Off /\ formulaAt = Off

\* Days alone, for the periods.
FirstOfDays == today = Pins!Day(FirstYear + 1, 1, 1) /\ NoPinned

Init ==
  /\ service \in {"pins", "calendar", "folder", "list", "pivot", "join", "formula"}
  /\ CASE service = "pins" -> Pins!Init [] service = "calendar" -> FirstOfDays [] OTHER -> NoPins
  /\ IF service = "folder" THEN Folders!Init ELSE NoFolders
  /\ IF service = "list" THEN List!Init ELSE NoList
  /\ IF service = "pivot" THEN Grid!Init ELSE NoGrid
  /\ IF service = "join" THEN Joins!Init ELSE NoJoins
  /\ IF service = "formula" THEN Computed!Init ELSE NoComputed

Next ==
  \/ /\ service = "pins" /\ Pins!Next
     /\ UNCHANGED <<service, folderVars, listVars, pivotVars, joinVars, formulaVars>>
  \/ /\ service = "calendar" /\ Pins!NextDay
     /\ UNCHANGED <<service, begin, viewRows, pinning, pinsBegun, pinsShown, pinsOverlapped,
                    folderVars, listVars, pivotVars, joinVars, formulaVars>>
  \/ /\ service = "folder" /\ Folders!Next
     /\ UNCHANGED <<service, pinsVars, listVars, pivotVars, joinVars, formulaVars>>
  \/ /\ service = "list" /\ List!Next
     /\ UNCHANGED <<service, pinsVars, folderVars, pivotVars, joinVars, formulaVars>>
  \/ /\ service = "pivot" /\ Grid!Next
     /\ UNCHANGED <<service, pinsVars, folderVars, listVars, joinVars, formulaVars>>
  \/ /\ service = "join" /\ Joins!Next
     /\ UNCHANGED <<service, pinsVars, folderVars, listVars, pivotVars, formulaVars>>
  \/ /\ service = "formula" /\ Computed!Next
     /\ UNCHANGED <<service, pinsVars, folderVars, listVars, pivotVars, joinVars>>

Spec == Init /\ [][Next]_vars

----------------------------------------------------------------------------
\* Properties

\* Whatever is asked of a list view, nobody is shown a row out of reach (ListViews); an owner
\* whose last pins did not overlap has one pinned view at most, and only a view that was pinned
\* on a past day shows the rows of that day (PinnedViews); on every day the last, this and the next
\* period adjoin, and the lists of created rows agree with them (PinnedViews); no folder is listed
\* twice, whatever is moved meanwhile, an undisturbed listing holds every folder in reach and its
\* reports, and the reader's tree has each own folder that is in no circle (ReportFolders).
SidebarHolds ==
  CASE service = "list"     -> List!TypeOK /\ List!NobodySeesMore
    [] service = "pins"     -> Pins!TypeOK /\ Pins!OnePinnedView /\ Pins!StaleOnlyWherePinned
    [] service = "calendar" -> Pins!PeriodsAdjoin /\ Pins!ListsAgreeWithPeriods
    [] service = "folder"   -> Folders!TypeOK /\ Folders!ListingsAreWhole /\ Folders!OwnFoldersAppear
    [] OTHER                -> TRUE

\* A list view whose filters and logic were checked together fails if it filters on a formula, and
\* otherwise shows the rows for which its logic is true, of those in reach (ListViews).
ListsHold == service = "list" => List!ViewsShowTheirMeaning

\* A query that is not refused takes a dotted field from the table its lookups lead to, also where
\* two paths use one name (QueryJoins); a chain of formulas and roll-ups has the value it has when
\* everything below is worked out first, in whatever order (ComputedFields); the subtotals of a
\* pivot make up their groups and the grand total, in any order of the cells (Pivot).
ComputedHolds ==
  CASE service = "join"    -> Joins!TypeOK /\ Joins!FieldsFollowLookups
    [] service = "formula" -> Computed!TypeOK /\ Computed!ChainsResolve
    [] service = "pivot"   -> Grid!TypeOK /\ Grid!SubtotalsMakeUpGroups
    [] OTHER               -> TRUE
=============================================================================
