------------------------------ MODULE Reports ------------------------------
(***************************************************************************)
(* A report (the GET of a saved one and the preview of a new one,          *)
(* api/BL/blcontroller.py): a dozen statements, each its own transaction,  *)
(* whose answers are put together in Python.  Other users insert and       *)
(* delete rows between any two of them.                                    *)
(*                                                                         *)
(* A saved report and a preview run the same steps with other limits.      *)
(* A group has a key, the value of a foreign key or of a plain field by    *)
(* which the first page of "parents" is chosen, and a label, the related   *)
(* name or the month of a date, by which the summary is grouped: many      *)
(* keys may have one label.  Cells are the sets of rows that a number in   *)
(* the answer is computed over.                                            *)
(*                                                                         *)
(* Formula and roll-up fields of a report (api/BL/computed_fields.py,      *)
(* api/formulas/evaluate_rollup.py): what a computed field is worth, and   *)
(* the records that a filter on one selects.  The records of the report    *)
(* are the children over which the roll-ups of their parents are summed.   *)
(*                                                                         *)
(* A filter on a computed field is turned into a condition that SQL can    *)
(* test, where the field allows it, by one of four ways that need not      *)
(* agree; what is left of it is tested in Python on the records read.      *)
(***************************************************************************)
EXTENDS Integers, FiniteSets, FiniteSetsExt

CONSTANTS
  Row, Parent,
  Null,          \* SQL's NULL, Python's None
  Attr,          \* of each row: parent, amount, and whether it meets the roll-up's criteria
  FormulaValue,  \* the formula of a parent
  Blank,         \* the rows and parents whose columns in the formula are all NULL
  StoredValue,   \* what the column of a computed field of a parent holds, stale or not
  Threshold,     \* what filters compare with
  FALLBACK_PARENT_CAP,
  Requests,
  Label,              \* of a key, when the report is not grouped by the key itself
  StartTables,        \* tables to begin with
  REPORT_MAX_DETAIL_ROWS, REPORT_MAX_CHILDREN_PER_PARENT, COMPUTED_FILTER_FETCH_CAP,
  COMPUTED_AGG_REFETCH_CAP, PREVIEW_LIMIT,
  MaxWrites           \* bound: writes of other users during the report

Number == Int \cup {Null}

\* A filter on a computed field: of the row itself or of its parent.  "exact": the expression
\* (of the field, or of the child field a roll-up aggregates) can be written as SQL;
\* "stored": the field has a column; "crit": the roll-up has criteria; "shown": the report
\* has the field among its columns.
Filter == [on : {"own", "parent"}, kind : {"formula", "rollup"}, type : {"SUM", "COUNT", "MIN"},
           op : {"gt", "lt", "null"}, exact : BOOLEAN, stored : BOOLEAN, crit : BOOLEAN,
           shown : BOOLEAN]

\* Roll-ups are of a parent, and a formula of the row has no column.
WellFormed(f) == f.on = "own" => f.kind = "formula" /\ ~f.stored

RollupAssumption ==
  /\ IsFiniteSet(Row) /\ IsFiniteSet(Parent)
  /\ Null \notin Parent \cup Int
  /\ Attr \in [Row -> [parent : Parent \cup {Null}, amount : Number, meets : BOOLEAN,
                       mine : BOOLEAN, fits : BOOLEAN, deleted : BOOLEAN]]
  /\ FormulaValue \in [Parent -> Number]
  /\ StoredValue \in [Parent -> Number]
  /\ Blank \subseteq Row \cup Parent
  /\ Threshold \in Int
  /\ FALLBACK_PARENT_CAP \in Nat

Limit == Nat \cup {Null}

\* dlimit, doffset: the client pages through the details (without the one, the other is not
\* looked at, and the report is its first page); group: "date" groups by a part of a
\* date; fits: there is a filter on a plain field, beside the computed one;
\* limited: the user may read only some rows; direct: the filters are simple enough to count.
AnyRequest == [kind : {"saved", "preview"}, limit : Limit, dlimit : Limit, doffset : Nat,
               full : BOOLEAN, skipSummary : BOOLEAN, skipDetails : BOOLEAN, skipCount : BOOLEAN,
               group : {"none", "key", "label", "date"}, filter : Filter \cup {Null},
               fits : BOOLEAN, limited : BOOLEAN, direct : BOOLEAN]

ReportAssumption ==
  /\ Requests \subseteq AnyRequest
  /\ \A q \in Requests : q.filter # Null => WellFormed(q.filter)
  /\ \A q \in Requests : q.dlimit = Null => q.doffset = 0
  /\ Null \notin Nat /\ Null \notin Filter
  /\ (\A S \in SUBSET Row : S # Null) /\ (\A S \in SUBSET Parent : S # Null)
  /\ Label \in [Parent \cup {Null} -> Parent \cup {Null}] /\ Label[Null] = Null
  /\ StartTables \subseteq SUBSET Row
  /\ {REPORT_MAX_DETAIL_ROWS, REPORT_MAX_CHILDREN_PER_PARENT, COMPUTED_FILTER_FETCH_CAP,
      COMPUTED_AGG_REFETCH_CAP, PREVIEW_LIMIT} \subseteq Nat \ {0}
  \* In the code 20 and 5000.
  /\ 1 < PREVIEW_LIMIT /\ PREVIEW_LIMIT <= REPORT_MAX_DETAIL_ROWS
  /\ MaxWrites \in Nat

VARIABLES
  table,      \* the rows present
  writes,     \* how many of them other users wrote or deleted during the report
  req, pc,
  ids,        \* what the computed filter became in SQL: rows or parents, or Null
  parents,    \* parent_values
  fetched,    \* rows the detail statement returned, before Python's filters
  details,
  scope,      \* the rows the details had to choose from (a history variable)
  truncated,
  groups,     \* the summary: the rows counted for each label
  cells,      \* the rows its formula and roll-up cells are computed over
  found,      \* rows left by Python's filters before they were trimmed, or Null
  total, groupTotal

vars == <<table, writes, req, pc, ids, parents, fetched, details, scope, truncated, groups, cells,
          found, total, groupTotal>>

----------------------------------------------------------------------------
\* Values

\* A comparison with NULL holds neither in SQL nor in Python.
Holds(op, v) ==
  CASE op = "null" -> v = Null
    [] op = "gt"   -> v # Null /\ v > Threshold
    [] op = "lt"   -> v # Null /\ v < Threshold

Children(p, S) == {r \in S : Attr[r].parent = p}

SqlAggregate(type, S) ==
  LET known == {r \in S : Attr[r].amount # Null} IN
  CASE type = "COUNT"                 -> Cardinality(S)
    [] type # "COUNT" /\ known = {}   -> Null
    [] type = "SUM" /\ known # {}     -> MapThenSumSet(LAMBDA r : Attr[r].amount, known)
    [] type = "MIN" /\ known # {}     -> Min({Attr[r].amount : r \in known})

\* The rows a roll-up aggregates.
Counted(f, p, S) == {r \in Children(p, S) : f.crit => Attr[r].meets}

\* The roll-up of one parent, and of many: nothing to aggregate gives 0, not NULL.
EvaluateRollup(f, p, S) ==
  LET v == SqlAggregate(f.type, Counted(f, p, S)) IN IF v = Null THEN 0 ELSE v

EvaluateRollupBatch(f, ps, S) ==
  [p \in ps |-> LET v == SqlAggregate(f.type, Counted(f, p, S)) IN IF v = Null THEN 0 ELSE v]

\* What the report shows of the field on a row, when it is one of the report's columns.
ShownValue(f, r, S) ==
  LET p == Attr[r].parent IN
  CASE f.on = "own"                                       -> Attr[r].amount
    [] f.on = "parent" /\ p = Null                        -> Null
    [] f.on = "parent" /\ p # Null /\ f.kind = "rollup"   -> EvaluateRollupBatch(f, {p}, S)[p]
    [] f.on = "parent" /\ p # Null /\ f.kind = "formula"  -> FormulaValue[p]

----------------------------------------------------------------------------
\* A filter as a condition of SQL: the parents (or rows) it selects, or Null

\* One GROUP BY over the children.  It selects no parent without children, and the
\* criteria of the roll-up are not part of it.
MatchingByAggregation(f, S) ==
  IF f.kind # "rollup" \/ (f.type # "COUNT" /\ ~f.exact) THEN Null
  ELSE {p \in Parent : Children(p, S) # {} /\ Holds(f.op, SqlAggregate(f.type, Children(p, S)))}

\* A formula is taken for NULL when all its columns are.
Inline(f, S, value) == {s \in S : IF f.op = "null" THEN s \in Blank ELSE Holds(f.op, value[s])}

MatchingByFormula(f) ==
  IF f.kind # "formula" \/ ~f.exact THEN Null ELSE Inline(f, Parent, FormulaValue)

MatchingByColumn(f) ==
  IF ~f.stored THEN Null ELSE {p \in Parent : Holds(f.op, StoredValue[p])}

\* Every parent in Python, if they are few.
MatchingInPython(f, S, otherwise) ==
  IF Cardinality(Parent) > FALLBACK_PARENT_CAP THEN otherwise
  ELSE LET value == EvaluateRollupBatch(f, Parent, S) IN {p \in Parent : Holds(f.op, value[p])}

\* Mutant: the column is believed where there is one.
StoredFirst(f, S) ==
  LET stored == MatchingByColumn(f)
      direct == IF f.kind = "rollup" THEN MatchingByAggregation(f, S) ELSE MatchingByFormula(f)
  IN  IF stored # Null THEN stored ELSE direct

ConvertDotted(f, S) ==
  LET direct == IF f.kind = "rollup" THEN MatchingByAggregation(f, S) ELSE MatchingByFormula(f)
      stored == IF direct = Null THEN MatchingByColumn(f) ELSE direct
  IN  IF f.kind = "rollup" /\ stored \in {Null, {}} THEN MatchingInPython(f, S, stored) ELSE stored

\* A formula of the report's own table, written out in SQL.
ConvertBare(f, S) ==
  IF ~f.exact THEN Null ELSE Inline(f, S, [r \in S |-> Attr[r].amount])

ConvertRollupFilter(f, S) == IF f.on = "own" THEN ConvertBare(f, S) ELSE ConvertDotted(f, S)

Selects(f, chosen, r) == IF f.on = "own" THEN r \in chosen ELSE Attr[r].parent \in chosen

----------------------------------------------------------------------------
\* What is left of a filter, tested on the rows already read

\* The value a row carries, or one computed for it alone: a formula of the parent is not.
EnsureValue(f, r, S) ==
  LET p == Attr[r].parent IN
  CASE f.shown \/ f.on = "own"                                        -> ShownValue(f, r, S)
    [] ~(f.shown \/ f.on = "own") /\ f.kind = "rollup" /\ p # Null    -> EvaluateRollup(f, p, S)
    [] ~(f.shown \/ f.on = "own") /\ (f.kind = "formula" \/ p = Null) -> Null

\* The parents SQL selects, when the filter can be pushed down after all.
Membership(f, S) ==
  CASE f.on = "own" -> Null
    [] f.on = "parent" /\ f.kind = "rollup" /\ f.op # "null" ->
         (IF MatchingByAggregation(f, S) # Null THEN MatchingByAggregation(f, S)
          ELSE MatchingByColumn(f))
    [] f.on = "parent" /\ ~(f.kind = "rollup" /\ f.op # "null") -> MatchingByColumn(f)

ApplyComputedFilters(f, D, S) ==
  LET chosen == Membership(f, S) IN
  CASE f.on = "parent" /\ (\A r \in D : Attr[r].parent = Null) -> {}
    [] chosen # Null -> {r \in D : Attr[r].parent \in chosen}
    [] OTHER -> {r \in D : Holds(f.op, EnsureValue(f, r, S))}

----------------------------------------------------------------------------
\* The rows of a report

Key == Parent \cup {Null}

saved   == req.kind = "saved"
grouped == req.group # "none"
paging  == req.dlimit # Null
pending == req.filter # Null /\ ids = Null
quiet   == writes = 0
\* The parents are probed, unless a preview groups by a part of a date.
probed  == grouped /\ (saved \/ req.group # "date")

KeyOf(r)   == Attr[r].parent
LabelOf(r) == IF req.group = "key" THEN KeyOf(r) ELSE Label[KeyOf(r)]

\* Any n of the rows, and not the first o: no statement of a report has an ORDER BY.
Page(S, n, o) ==
  LET left == IF Cardinality(S) > o THEN Cardinality(S) - o ELSE 0 IN
  {T \in SUBSET S : Cardinality(T) = IF n # Null /\ n < left THEN n ELSE left}

\* The first rows of each parent.
CapPerParent(D) ==
  {T \in SUBSET D : \A k \in Key :
     LET mine == {r \in D : KeyOf(r) = k}
     IN  Cardinality(T \cap mine) = IF Cardinality(mine) > REPORT_MAX_CHILDREN_PER_PARENT
                                    THEN REPORT_MAX_CHILDREN_PER_PARENT ELSE Cardinality(mine)}

\* A preview hides deleted rows and, from users who are not administrators, those of others.
PreviewHides(r) == Attr[r].deleted \/ (req.limited /\ ~Attr[r].mine)

\* The filters of the report's statements.  The computed filter is taken out of the tree it
\* stood in, and what it became is added to the rest, whatever joined them.
Where(S) ==
  {r \in S : /\ req.fits => Attr[r].fits
             /\ ids # Null => Selects(req.filter, ids, r)
             /\ ~saved => ~PreviewHides(r)}

\* What get_permissions reads of them for this user.
Readable(S) == {r \in Where(S) : req.limited => Attr[r].mine}

InParents(S) == {r \in S : KeyOf(r) \in parents}

Filtered(D) == IF pending THEN ApplyComputedFilters(req.filter, D, table) ELSE D

----------------------------------------------------------------------------

TypeOK ==
  /\ table \subseteq Row
  /\ writes \in 0..MaxWrites
  /\ req \in Requests
  /\ pc \in {"convert", "probe", "details", "filter", "summary", "cells", "count", "groups",
             "answer", "done"}
  /\ ids \in {Null} \cup (SUBSET Row) \cup (SUBSET Parent)
  /\ parents \subseteq Parent
  /\ fetched \in Nat
  /\ details \subseteq Row /\ scope \subseteq Row
  /\ truncated \in BOOLEAN
  /\ DOMAIN groups \subseteq Key
  /\ {groups, cells} \subseteq [DOMAIN groups -> SUBSET Row]
  /\ {found, total, groupTotal} \subseteq Limit

NoGroups == [g \in {} |-> {}]

Init ==
  /\ table \in StartTables
  /\ writes = 0
  /\ req \in Requests
  /\ pc = "convert"
  /\ ids = Null
  /\ parents = {}
  /\ fetched = 0 /\ details = {} /\ scope = {} /\ truncated = FALSE
  /\ groups = NoGroups /\ cells = NoGroups
  /\ found = Null /\ total = Null /\ groupTotal = Null

----------------------------------------------------------------------------
\* The steps of a report

Goto(from, to) == pc = from /\ pc' = to

ConvertFilters ==
  /\ Goto("convert", "probe")
  /\ ids' = IF req.filter = Null THEN Null ELSE ConvertRollupFilter(req.filter, table)
  /\ UNCHANGED <<table, writes, req, parents, fetched, details, scope, truncated, groups, cells,
                 found, total, groupTotal>>

\* Mutant: the NULL among the keys stays.
ProbeAllParents ==
  /\ Goto("probe", "details")
  /\ IF probed
     THEN \E page \in Page({KeyOf(r) : r \in Readable(table)},
                           IF saved THEN req.limit ELSE PREVIEW_LIMIT, 0) : parents' = page
     ELSE UNCHANGED parents
  /\ UNCHANGED <<table, writes, req, ids, fetched, details, scope, truncated, groups, cells,
                 found, total, groupTotal>>

\* The parents of this page.  Rows without one have no part in it.
ProbeParents ==
  /\ Goto("probe", "details")
  /\ IF probed
     THEN \E page \in Page({KeyOf(r) : r \in Readable(table)},
                           IF saved THEN req.limit ELSE PREVIEW_LIMIT, 0) :
            parents' = page \ {Null}
     ELSE UNCHANGED parents
  /\ UNCHANGED <<table, writes, req, ids, fetched, details, scope, truncated, groups, cells,
                 found, total, groupTotal>>

\* The details of a page of parents, unless the client pages through all of them, or Python
\* has yet to filter what a preview reads.
ByParent == probed /\ ~paging /\ (saved \/ ~pending)

NoDetails == (saved /\ req.skipDetails) \/ (ByParent /\ parents = {})

SavedLimit   == IF grouped THEN REPORT_MAX_DETAIL_ROWS ELSE req.limit
PreviewLimit == IF probed /\ pending THEN REPORT_MAX_DETAIL_ROWS ELSE PREVIEW_LIMIT
DetailLimit  == IF paging THEN req.dlimit ELSE IF saved THEN SavedLimit ELSE PreviewLimit

FetchLimit ==
  IF ~saved /\ pending /\ DetailLimit < COMPUTED_FILTER_FETCH_CAP
  THEN COMPUTED_FILTER_FETCH_CAP ELSE DetailLimit

Reached(n, limit) == limit # Null /\ n >= limit

\* Mutant: the cap of each parent is not told.
FetchSilently ==
  /\ Goto("details", "filter")
  /\ IF NoDetails
     THEN details' = {} /\ scope' = {} /\ UNCHANGED <<fetched, truncated>>
     ELSE LET source == IF ByParent THEN InParents(Readable(table)) ELSE Readable(table) IN
          \E page \in Page(source, FetchLimit, req.doffset) :
          \E D \in IF probed /\ ~paging THEN CapPerParent(page) ELSE {page} :
            /\ details' = D
            /\ scope' = source
            /\ fetched' = Cardinality(page)
            /\ truncated' = (Reached(Cardinality(D), DetailLimit) /\ (saved \/ ~paging))
  /\ UNCHANGED <<table, writes, req, ids, parents, groups, cells, found, total, groupTotal>>

FetchDetails ==
  /\ Goto("details", "filter")
  /\ IF NoDetails
     THEN details' = {} /\ scope' = {} /\ UNCHANGED <<fetched, truncated>>
     ELSE LET source == IF ByParent THEN InParents(Readable(table)) ELSE Readable(table) IN
          \E page \in Page(source, FetchLimit, req.doffset) :
          \E D \in IF probed /\ ~paging THEN CapPerParent(page) ELSE {page} :
            /\ details' = D
            /\ scope' = source
            /\ fetched' = Cardinality(page)
            /\ truncated' = (D # page \/ (Reached(Cardinality(D), DetailLimit) /\ (saved \/ ~paging)))
  /\ UNCHANGED <<table, writes, req, ids, parents, groups, cells, found, total, groupTotal>>

\* Mutant: the rows found are counted after they are trimmed.
TrimThenCount ==
  \E D \in Page(Filtered(details), DetailLimit, 0) :
    /\ details' = D
    /\ found' = Cardinality(D)
    /\ truncated' = (truncated \/ D # Filtered(details))

TrimPreview ==
  \E D \in Page(Filtered(details), DetailLimit, 0) :
    /\ details' = D
    /\ found' = Cardinality(Filtered(details))
    /\ truncated' = (truncated \/ D # Filtered(details))

\* The computed values and the filters that SQL could not test; a preview trims what is left.
FilterDetails ==
  /\ Goto("filter", "summary")
  /\ scope' = Filtered(scope)
  /\ IF ~saved /\ pending
     THEN TrimPreview
     ELSE details' = Filtered(details) /\ UNCHANGED <<found, truncated>>
  /\ UNCHANGED <<table, writes, req, ids, parents, fetched, groups, cells, total, groupTotal>>

LaterPage == paging /\ req.doffset > 0

\* The rows of the summary: of the same parents as the details, unless all are asked for.
SavedSource   == IF parents # {} /\ ~req.full THEN InParents(Readable(table)) ELSE Readable(table)
PreviewSource == IF parents # {} THEN InParents(Readable(table)) ELSE Readable(table)
Summarized    == IF saved THEN SavedSource ELSE PreviewSource

SummaryLimit ==
  CASE ~saved -> PREVIEW_LIMIT
    [] saved /\ ~req.full /\ req.limit # Null /\ Cardinality(parents) > req.limit -> Cardinality(parents)
    [] saved /\ (req.full \/ req.limit = Null \/ Cardinality(parents) <= req.limit) -> req.limit

Summarize ==
  /\ Goto("summary", "cells")
  /\ IF grouped /\ ~LaterPage /\ ~req.skipSummary
     THEN \E page \in Page({LabelOf(r) : r \in Summarized}, SummaryLimit, 0) :
            /\ groups' = [g \in page |-> {r \in Summarized : LabelOf(r) = g}]
            /\ cells' = [g \in page |-> {}]
     ELSE UNCHANGED <<groups, cells>>
  /\ UNCHANGED <<table, writes, req, ids, parents, fetched, details, scope, truncated,
                 found, total, groupTotal>>

\* Mutant: by the key where the summary is by the label.
BucketByKey(D) == [g \in DOMAIN groups |-> {r \in D : KeyOf(r) = g}]

Bucket(D) == [g \in DOMAIN groups |-> {r \in D : LabelOf(r) = g}]

\* The rows that the cells of formulas and roll-ups are computed over: read again, unless
\* the details are those of the parents of the summary.
Refetch ==
  LET shown == DOMAIN groups \ {Null} IN
  IF req.full /\ req.group # "date" /\ shown # {}
  THEN {r \in Readable(table) : LabelOf(r) \in shown}
  ELSE IF parents # {} THEN InParents(Readable(table)) ELSE Readable(table)

SavedCells ==
  IF ~paging /\ parents # {} /\ details # {}
  THEN cells' = Bucket(details) /\ UNCHANGED truncated
  ELSE \E page \in Page(Refetch, COMPUTED_AGG_REFETCH_CAP, 0) :
         /\ cells' = Bucket(Filtered(page))
         /\ truncated' = (truncated \/ Cardinality(page) >= COMPUTED_AGG_REFETCH_CAP)

\* A preview always reads them again, and leaves Python's filters out.
PreviewCells ==
  \E page \in Page(PreviewSource, REPORT_MAX_DETAIL_ROWS, 0) :
    cells' = Bucket(page) /\ UNCHANGED truncated

FillCells ==
  /\ Goto("cells", "count")
  /\ IF DOMAIN groups = {} THEN UNCHANGED <<cells, truncated>>
     ELSE IF saved THEN SavedCells ELSE PreviewCells
  /\ UNCHANGED <<table, writes, req, ids, parents, fetched, details, scope, groups,
                 found, total, groupTotal>>

NoCount == LaterPage \/ (~saved /\ req.skipCount)

\* COUNT over the table itself, or what get_permissions lets the user count.
Counts == Cardinality(IF req.direct THEN Where(table) ELSE Readable(table))

SavedTotal ==
  /\ total' = IF pending THEN Null ELSE Counts
  /\ UNCHANGED truncated

PreviewTotal ==
  /\ total' = IF pending THEN found ELSE Counts
  /\ truncated' = (truncated \/ (pending /\ fetched >= FetchLimit))

CountRows ==
  /\ Goto("count", "groups")
  /\ IF NoCount THEN UNCHANGED <<total, truncated>>
     ELSE IF saved THEN SavedTotal ELSE PreviewTotal
  /\ UNCHANGED <<table, writes, req, ids, parents, fetched, details, scope, groups, cells,
                 found, groupTotal>>

\* COUNT(DISTINCT key): not of rows without one.
DirectGroupCount ==
  IF req.direct THEN Cardinality({KeyOf(r) : r \in Where(table)} \ {Null}) ELSE Null

\* A full summary is counted by its length, of the details where there is no summary, and
\* gives a total where there is none.
SavedGroupTotal ==
  /\ groupTotal' = IF req.full THEN Cardinality(IF req.skipSummary THEN details ELSE DOMAIN groups)
                   ELSE IF pending THEN Null ELSE DirectGroupCount
  /\ total' = IF req.full /\ total = Null /\ DOMAIN groups # {}
              THEN Cardinality(UNION {groups[g] : g \in DOMAIN groups}) ELSE total

PreviewGroupTotal ==
  LET keys == {KeyOf(r) : r \in details} \ {Null} IN
  /\ groupTotal' = IF DirectGroupCount = Null /\ keys # {} THEN Cardinality(keys)
                   ELSE DirectGroupCount
  /\ UNCHANGED total

CountGroups ==
  /\ Goto("groups", "answer")
  /\ IF ~grouped \/ NoCount THEN UNCHANGED <<total, groupTotal>>
     ELSE IF saved THEN SavedGroupTotal ELSE PreviewGroupTotal
  /\ UNCHANGED <<table, writes, req, ids, parents, fetched, details, scope, truncated, groups,
                 cells, found>>

\* The last cap of a preview, on both lists.
Answer ==
  /\ Goto("answer", "done")
  /\ IF saved THEN UNCHANGED <<details, groups, cells, truncated>>
     ELSE LET cap == IF paging THEN req.dlimit ELSE PREVIEW_LIMIT IN
          \E D \in Page(details, cap, 0), L \in Page(DOMAIN groups, cap, 0) :
            /\ details' = D
            /\ groups' = [g \in L |-> groups[g]]
            /\ cells' = [g \in L |-> cells[g]]
            /\ truncated' = (truncated \/ D # details \/ L # DOMAIN groups)
  /\ UNCHANGED <<table, writes, req, ids, parents, fetched, scope, found, total, groupTotal>>

\* Another user inserts a row or deletes one.
Write ==
  /\ pc # "done" /\ writes < MaxWrites
  /\ writes' = writes + 1
  /\ \E r \in Row : table' = IF r \in table THEN table \ {r} ELSE table \cup {r}
  /\ UNCHANGED <<req, pc, ids, parents, fetched, details, scope, truncated, groups, cells,
                 found, total, groupTotal>>

Done == pc = "done" /\ UNCHANGED vars

Step == \/ ConvertFilters \/ ProbeParents \/ FetchDetails \/ FilterDetails \/ Summarize
        \/ FillCells \/ CountRows \/ CountGroups \/ Answer

Next == Step \/ Write \/ Done

Spec == Init /\ [][Next]_vars

----------------------------------------------------------------------------
\* Properties

\* Some parent has more rows than the details keep of it.
ManyOfOneParent ==
  /\ probed /\ ~paging
  /\ \E k \in Key : Cardinality({r \in Readable(table) : KeyOf(r) = k}) > REPORT_MAX_CHILDREN_PER_PARENT

\* "truncated" tells of every row left out: a row that the details had to choose from and
\* that passed the filters is in the answer, or the answer says that it is cut.  (A client
\* that pages through the details knows its page.)  Four caps and two trims in a row cut the
\* rows, and each sets the flag by a rule of its own.
LeftOutIsTold ==
  (pc \in {"summary", "cells", "count", "groups", "answer", "done"} /\ ~paging /\ ~truncated)
    => scope \subseteq details

\* The cells of formulas and roll-ups agree with the row count beside them: they are computed
\* over the rows the group counts.  The two are read by different statements, scoped by
\* different rules, so this holds only while nobody writes, nothing was cut and no filter is
\* left to Python; a full summary must be read for a client that pages (else the cells see
\* the details of one page of parents), and one by dates over all parents.  A preview for
\* such a client does not say that the cells were cut.
CellsAgree ==
  (/\ pc \in {"count", "groups", "answer", "done"} /\ quiet /\ ~pending /\ ~truncated
   /\ (saved /\ req.full) => (paging /\ (req.group = "date" => req.limit = Null))
   /\ (~saved /\ paging) => Cardinality(Readable(table)) <= REPORT_MAX_DETAIL_ROWS)
    => \A g \in DOMAIN groups \ {Null} : cells[g] = groups[g]

\* The total is never less than the rows shown, and a preview that filters in Python counts
\* every row that matches, trimmed or not, unless it read as many as it may or some parent
\* has more rows than are kept: then it says that it is cut.  A full summary that is limited
\* counts the rows of its own groups alone, and its count stands in for a total that SQL
\* cannot give: that total may be short.
TotalIsNotShort ==
  (pc = "done" /\ quiet /\ total # Null /\ ~(saved /\ pending /\ req.limit # Null)) =>
    /\ total >= Cardinality(details)
    /\ (~saved /\ pending) =>
         \/ total = Cardinality(Filtered(Readable(table)))
         \/ truncated /\ (fetched >= FetchLimit \/ ManyOfOneParent)

\* A filter on a computed field agrees with the value the report shows in that column: while
\* nobody writes, a row of the details has a value that passes.  The filter is turned into
\* SQL by other code than the value is computed by: they agree if the roll-up has no
\* criteria (the SQL leaves them out) and the field can be written in SQL (a column that
\* is stored may be stale); "is null" on a formula is tested on its columns, and on a sum it
\* holds in SQL where the report shows 0.
FilterMatchesShownValue ==
  LET f == req.filter IN
  (pc \notin {"convert", "probe", "details", "filter"} /\ quiet /\ f # Null) =>
    ((~f.crit /\ (f.exact \/ ~f.stored) /\ (f.op = "null" => f.kind = "rollup" /\ f.type = "COUNT")) =>
       \A r \in details : Holds(f.op, ShownValue(f, r, table)))
=============================================================================
