-------------------------------- MODULE MCDesk --------------------------------
(***************************************************************************)
(* What a user works with, each part by itself: the page of a record,      *)
(* groups, the conversion of a lead, reports and exports; and what an      *)
(* administrator changes: fields and objects, and the names of computed    *)
(* fields that every process keeps.  They share no state; a behaviour is   *)
(* one of one of them.                                                     *)
(***************************************************************************)
EXTENDS Integers, Sequences, FiniteSets, TLC

CONSTANTS
  Off, None, NoRow, Unset, u1, u2, g1, g2, Request,
  PageUser, Reader, Admin, Below, Rights, Landing, Member, MaxChanges, MaxErrors,
  Group, User, Active, Selection, Resolver, MaxPatches, MaxConversions,
  FieldName, MaxHits, MaxFields, Object, Profile, App, sales, MaxIds,
  Null, a, b, c, s1, s2, s3, s4, s5, x1, x2, x3,
  Row, Parent, Attr, FormulaValue, Blank, StoredValue, Threshold, FALLBACK_PARENT_CAP,
  Requests, Label, StartTables, REPORT_MAX_DETAIL_ROWS, REPORT_MAX_CHILDREN_PER_PARENT,
  COMPUTED_FILTER_FETCH_CAP, COMPUTED_AGG_REFETCH_CAP, PREVIEW_LIMIT, MaxWrites,
  Sheet, About, SheetRow, SqlFilter, SheetAttr, ReportKind, MAX_ROWS_PER_OBJECT, STREAM_BATCH_SIZE,
  NameField, NameWorker, MaxFieldChanges

VARIABLES
  service,           \* parts: what behaves
  record, rights, level, share, pagePage, changes,
  members, lock, patch, resolution, last, groupBegun,
  lead, stored, leadRequest, leadBegun, answered, excused,
  columns, fields, layout, search, fieldRequest, table, fieldPage, finder, fieldMade, renamed,
  torn, fieldCrossed, fieldOverlapped,
  objects, tables, profiles, grants, tabs, objectRequest, objectMade, objectCrossed, missed,
  late,
  reportTable, writes, req, reportPc, ids, reportParents, fetched, details, scope, truncated, groups,
  cells, found, reportTotal, groupTotal,
  present, selected, todo, valid, skipped, exportCurrent, sheets, audit, trail, report, shown,
  exportPc, file, exportAnswer, begun,
  kind, names, exists, told, nameCurrent, nameChanges

pageVars == <<record, rights, level, share, pagePage, changes>>
groupVars == <<members, lock, patch, resolution, last, groupBegun>>
leadVars == <<lead, stored, leadRequest, leadBegun, answered, excused>>
fieldVars == <<columns, fields, layout, search, fieldRequest, table, fieldPage, finder,
    fieldMade, renamed, torn, fieldCrossed, fieldOverlapped>>
objectVars == <<objects, tables, profiles, grants, tabs, objectRequest, objectMade,
    objectCrossed, missed, late>>
reportVars == <<reportTable, writes, req, reportPc, ids, reportParents, fetched, details, scope,
    truncated, groups, cells, found, reportTotal, groupTotal>>
exportVars == <<present, selected, todo, valid, skipped, exportCurrent, sheets, audit, trail,
    report, shown, exportPc, file, exportAnswer, begun>>
nameVars == <<kind, names, exists, told, nameCurrent, nameChanges>>

vars == <<service, pageVars, groupVars, leadVars, fieldVars, objectVars, reportVars, exportVars,
    nameVars>>

\* PreviewPage: bob is in one group more than ann; nobody has subordinates.
OnlySelf == [u \in {"ann", "bob"} |-> {u}]
SomeRights == {{"read", "edit", "delete"}, NoRow, {}}
TwoGroups == <<"g1", "g2">>
GroupsOf == "ann" :> {"g1"} @@ "bob" :> {"g1", "g2"}

\* Groups: two selections, each of a user and a group.
Selections == {{<<"user", u1>>, <<"group", g2>>}, {<<"user", u2>>, <<"group", g1>>}}

\* Reports: rows with a parent, and one without.
ReportRow(p, n) == [parent |-> p, amount |-> n, meets |-> TRUE, mine |-> TRUE, fits |-> TRUE,
              deleted |-> FALSE]

\* Three parents, and a row without one; s4 is another user's, s3 misses the criteria.
ReportRows ==
  [r \in {s1, s2, s3, s4, s5} |-> CASE r = s1 -> ReportRow(a, 1)
                   [] r = s2 -> ReportRow(a, 3)
                   [] r = s3 -> [ReportRow(b, 1) EXCEPT !.meets = FALSE]
                   [] r = s4 -> [ReportRow(c, 1) EXCEPT !.mine = FALSE, !.fits = FALSE]
                   [] r = s5 -> [ReportRow(Null, Null) EXCEPT !.deleted = TRUE]]

Labels == [k \in Parent \cup {Null} |-> IF k \in {a, b} THEN a ELSE k]

Formulas == [p \in Parent |-> IF p = a THEN 3 ELSE IF p = b THEN 1 ELSE Null]
Stale        == [p \in Parent |-> IF p = c THEN 3 ELSE Null]

Tables == {{s1, s2, s3, s4, s5}, {s1, s3, s4, s5}, {s1, s2, s3, s5}}

f0 == [on |-> "parent", kind |-> "rollup", type |-> "SUM", op |-> "gt", exact |-> TRUE,
       stored |-> TRUE, crit |-> FALSE, shown |-> TRUE]

Filters ==
  {f0, [f0 EXCEPT !.op = "lt"], [f0 EXCEPT !.op = "null"], [f0 EXCEPT !.crit = TRUE],
   [f0 EXCEPT !.exact = FALSE],
   [f0 EXCEPT !.type = "MIN", !.op = "lt", !.exact = FALSE, !.stored = FALSE],
   [f0 EXCEPT !.type = "COUNT", !.op = "null"],
   [f0 EXCEPT !.kind = "formula"],
   [f0 EXCEPT !.kind = "formula", !.op = "null"],
   [f0 EXCEPT !.kind = "formula", !.exact = FALSE, !.stored = FALSE],
   [f0 EXCEPT !.kind = "formula", !.exact = FALSE, !.stored = FALSE, !.shown = FALSE],
   [f0 EXCEPT !.on = "own", !.kind = "formula", !.stored = FALSE],
   [f0 EXCEPT !.on = "own", !.kind = "formula", !.exact = FALSE, !.stored = FALSE, !.op = "lt"]}

q0 == [kind |-> "saved", limit |-> Null, dlimit |-> Null, doffset |-> 0, full |-> FALSE,
       skipSummary |-> FALSE, skipDetails |-> FALSE, skipCount |-> FALSE, group |-> "none",
       filter |-> Null, fits |-> FALSE, limited |-> FALSE, direct |-> TRUE]

Grouping == {"none", "key", "label", "date"}

Saved ==
  {[q0 EXCEPT !.limit = l, !.dlimit = d, !.full = f, !.group = g, !.filter = x] :
     l \in {Null, 2}, d \in {Null, 2}, f \in BOOLEAN, g \in Grouping, x \in {Null, f0}}
  \cup
  {[q0 EXCEPT !.limit = m[1], !.dlimit = m[2], !.full = f, !.group = g, !.filter = x] :
     m \in {<<Null, Null>>, <<Null, 2>>, <<2, Null>>}, f \in BOOLEAN, g \in Grouping, x \in Filters}

Previews ==
  {[q0 EXCEPT !.kind = "preview", !.dlimit = d, !.group = g, !.filter = x] :
     d \in {Null, 2}, g \in Grouping, x \in {Null} \cup Filters}

OtherRequests ==
  {[q0 EXCEPT !.dlimit = 2, !.doffset = 1, !.group = "key", !.full = TRUE],
   [q0 EXCEPT !.skipSummary = TRUE, !.group = "key", !.full = TRUE],
   [q0 EXCEPT !.skipDetails = TRUE, !.group = "key"],
   [q0 EXCEPT !.fits = TRUE, !.filter = f0, !.group = "label"],
   [q0 EXCEPT !.limited = TRUE, !.group = "key"],
   [q0 EXCEPT !.limited = TRUE, !.direct = FALSE, !.group = "key"],
   [q0 EXCEPT !.kind = "preview", !.limited = TRUE, !.group = "key"],
   [q0 EXCEPT !.kind = "preview", !.direct = FALSE, !.group = "key"],
   [q0 EXCEPT !.kind = "preview", !.skipCount = TRUE, !.group = "key"]}

ReportRequests == Saved \cup Previews \cup OtherRequests

\* Exports: an object of one's own, one with computed fields and columns that are not
\* permitted, and one of the setup, in the public schema.
Plain == [known |-> TRUE, place |-> "own", setup |-> FALSE, mayRead |-> TRUE, permitted |-> "real",
          computed |-> FALSE, rows |-> 3, visible |-> 2]
ExportObjects ==
  a :> Plain @@ b :> [Plain EXCEPT !.computed = TRUE, !.permitted = "other"] @@
  c :> [Plain EXCEPT !.setup = TRUE, !.place = "public", !.rows = 1, !.visible = 1]
ExportRows ==
  x1 :> [mine |-> TRUE, passes |-> {"f1", "f2"}, left |-> TRUE] @@
  x2 :> [mine |-> TRUE, passes |-> {"f2"}, left |-> FALSE] @@
  x3 :> [mine |-> FALSE, passes |-> {"f1"}, left |-> FALSE]

\* Each report with the logic that all, some or none of its filters hold.
Joined(F) == {{F}, (SUBSET F) \ {{}}, {{}}}

ExportReports ==
  UNION {[grouped : {g}, computed : BOOLEAN, details : BOOLEAN, filters : {F}, logic : Joined(F),
          left : {"none", IF g THEN "foreign" ELSE "carried", "foreign"}, dotted : BOOLEAN] :
           g \in BOOLEAN, F \in SUBSET SqlFilter}

\* Requests differ in their names alone.
RequestSymmetry == Permutations(Request)

Page == INSTANCE PreviewPage WITH User <- PageUser, page <- pagePage
Groups == INSTANCE Groups WITH Patcher <- Request, begun <- groupBegun
Leads == INSTANCE LeadConversion WITH request <- leadRequest, begun <- leadBegun
Fields == INSTANCE Fields WITH Name <- FieldName, request <- fieldRequest, page <- fieldPage,
  made <- fieldMade, crossed <- fieldCrossed, overlapped <- fieldOverlapped
Objects == INSTANCE Objects WITH request <- objectRequest, made <- objectMade,
  crossed <- objectCrossed

Answer == INSTANCE Reports WITH table <- reportTable, pc <- reportPc, parents <- reportParents,
  total <- reportTotal
Export == INSTANCE Exports WITH Object <- Sheet, Row <- SheetRow, Filter <- SqlFilter, Attr <- SheetAttr,
  Reports <- ReportKind, NoReport <- None,
  current <- exportCurrent, pc <- exportPc, answer <- exportAnswer
Names == INSTANCE ComputedNames WITH Field <- NameField, Worker <- NameWorker, Unread <- None,
  MaxChanges <- MaxFieldChanges, current <- nameCurrent, changes <- nameChanges

ASSUME DeskAssumption ==
  /\ Page!PreviewAssumption
  /\ Groups!GroupsAssumption
  /\ Leads!LeadConversionAssumption
  /\ Fields!FieldsAssumption
  /\ Objects!ObjectsAssumption
  /\ Answer!RollupAssumption
  /\ Answer!ReportAssumption
  /\ Export!ExportAssumption
  /\ Names!NamesAssumption

----------------------------------------------------------------------------
\* Of the parts one is chosen at first; the others are not there.

NoPage == record = Off /\ rights = Off /\ level = Off /\ share = Off /\ pagePage = Off /\ changes = Off
NoGroups == members = Off /\ lock = Off /\ patch = Off /\ resolution = Off /\ last = Off /\
    groupBegun = Off
NoLeads == lead = Off /\ stored = Off /\ leadRequest = Off /\ leadBegun = Off /\ answered = Off /\
    excused = Off
NoFields == columns = Off /\ fields = Off /\ layout = Off /\ search = Off /\ fieldRequest = Off /\
    table = Off /\ fieldPage = Off /\ finder = Off /\ fieldMade = Off /\ renamed = Off /\ torn = Off /\
    fieldCrossed = Off /\ fieldOverlapped = Off
NoObjects == objects = Off /\ tables = Off /\ profiles = Off /\ grants = Off /\ tabs = Off /\
    objectRequest = Off /\ objectMade = Off /\ objectCrossed = Off /\ missed = Off /\ late = Off
NoAnswer == reportTable = Off /\ writes = Off /\ req = Off /\ reportPc = Off /\ ids = Off /\
    reportParents = Off /\ fetched = Off /\ details = Off /\ scope = Off /\ truncated = Off /\
    groups = Off /\ cells = Off /\ found = Off /\ reportTotal = Off /\ groupTotal = Off
NoExport == present = Off /\ selected = Off /\ todo = Off /\ valid = Off /\ skipped = Off /\
    exportCurrent = Off /\ sheets = Off /\ audit = Off /\ trail = Off /\ report = Off /\ shown = Off /\
    exportPc = Off /\ file = Off /\ exportAnswer = Off /\ begun = Off
NoNames == kind = Off /\ names = Off /\ exists = Off /\ told = Off /\ nameCurrent = Off /\
    nameChanges = Off

Init ==
  /\ service \in {"page", "group", "lead", "field", "object", "report", "export", "name"}
  /\ IF service = "page" THEN Page!Init ELSE NoPage
  /\ IF service = "group" THEN Groups!Init ELSE NoGroups
  /\ IF service = "lead" THEN Leads!Init ELSE NoLeads
  /\ IF service = "field" THEN Fields!Init ELSE NoFields
  /\ IF service = "object" THEN Objects!Init ELSE NoObjects
  /\ IF service = "report" THEN Answer!Init ELSE NoAnswer
  /\ IF service = "export" THEN Export!Init ELSE NoExport
  /\ IF service = "name" THEN Names!Init ELSE NoNames

Next ==
  \/ /\ service = "page" /\ Page!Next
     /\ UNCHANGED <<service, groupVars, leadVars, fieldVars, objectVars, reportVars, exportVars,
                    nameVars>>
  \/ /\ service = "group" /\ Groups!Next
     /\ UNCHANGED <<service, pageVars, leadVars, fieldVars, objectVars, reportVars, exportVars,
                    nameVars>>
  \/ /\ service = "lead" /\ Leads!Next
     /\ UNCHANGED <<service, pageVars, groupVars, fieldVars, objectVars, reportVars, exportVars,
                    nameVars>>
  \/ /\ service = "field" /\ Fields!Next
     /\ UNCHANGED <<service, pageVars, groupVars, leadVars, objectVars, reportVars, exportVars,
                    nameVars>>
  \/ /\ service = "object" /\ Objects!Next
     /\ UNCHANGED <<service, pageVars, groupVars, leadVars, fieldVars, reportVars, exportVars,
                    nameVars>>
  \/ /\ service = "report" /\ Answer!Next
     /\ UNCHANGED <<service, pageVars, groupVars, leadVars, fieldVars, objectVars, exportVars,
                    nameVars>>
  \/ /\ service = "export" /\ Export!Next
     /\ UNCHANGED <<service, pageVars, groupVars, leadVars, fieldVars, objectVars, reportVars,
                    nameVars>>
  \/ /\ service = "name" /\ Names!Next
     /\ UNCHANGED <<service, pageVars, groupVars, leadVars, fieldVars, objectVars, reportVars,
                    exportVars>>

Spec == Init /\ [][Next]_vars

----------------------------------------------------------------------------
\* Properties

\* A page offers somebody who neither owns the record nor is assigned to it no deletion, and an edit
\* only with a share for writing, unless shares could not be read or changed while it was built;
\* and it names each of its parts that is missing, but for the values that are computed (PreviewPage).
PageHolds == service = "page" => Page!TypeOK /\ Page!OffersFollowShares /\ Page!PageTellsWhatIsMissing

\* A patch that no other disturbed leaves the lists it names as chosen, and those told are the
\* active members of a group and of all within it, also where groups contain one another (Groups);
\* a converted lead names rows that belong together, and success is told once, overlaps and a
\* failed last step aside (LeadConversion).
GroupsAndLeadsHold ==
  CASE service = "group" -> Groups!TypeOK /\ Groups!PatchesStandWhole /\ Groups!ToldAreMembers
    [] service = "lead"  -> Leads!TypeOK /\ Leads!ConvertedLeadIsWhole /\ Leads!ConvertedOnce
    [] OTHER             -> TRUE

\* The table has a column for every stored field and no other, and layouts name fields that exist,
\* but for changes that stopped half-way and names that two requests worked on (Fields); a process
\* that has cached nothing stale tests each field the way its kind asks for (ComputedNames).
FieldsHold ==
  CASE service = "field" -> Fields!TypeOK /\ Fields!ColumnsMatchFields /\ Fields!LayoutsNameFields
    [] service = "name"  -> Names!TypeOK /\ Names!CurrentProcessesFilterRight
    [] OTHER             -> TRUE

\* An object has its table and every profile's permissions, and no table or tab is without its
\* object, whatever fails, but for names and profiles that were made at a time (Objects).
ObjectsHold == service = "object" => Objects!TypeOK /\ Objects!ObjectsAreWhole /\ Objects!GrantsAreComplete

\* Unless the client pages, every row that passed the filters is in the answer or the answer says
\* that it is cut, whatever is written between its statements (Reports).
LeftOutIsTold == service = "report" => Answer!TypeOK /\ Answer!LeftOutIsTold

\* The cells of formulas and roll-ups are computed over the rows that the group counts, while
\* nobody writes, nothing is cut and no filter is left to Python (Reports).
CellsAgree == service = "report" => Answer!CellsAgree

\* While nobody writes, the total is not less than the rows shown, and a preview that filters in
\* Python counts every row that matches, or says that it is cut (Reports).
TotalIsNotShort == service = "report" => Answer!TotalIsNotShort

\* While nobody writes, the details have rows whose shown value passes the filter on a computed
\* field, where its way into SQL is exact (Reports, Rollups).
FilterMatchesShownValue == service = "report" => Answer!FilterMatchesShownValue

\* The audit trail accounts for each selected object of a workbook, as failed if its sheet is cut
\* short; the rows of an exported report pass its filters, as a logic without NOT joins them, also on
\* the way that reads the whole table; and no file is left behind by a client that began to read it
\* (Exports).
ExportsHold ==
  service = "export" =>
    Export!TypeOK /\ Export!WorkbookIsAccounted /\ Export!ExportHonoursFilters /\ Export!BegunFilesGo
=============================================================================
