------------------------------ MODULE Exports ------------------------------
(***************************************************************************)
(* Exports to a workbook (data_export/views.py): of selected objects, one  *)
(* sheet each, and of a report.  The workbook is a temporary file that is  *)
(* unlinked when the client has read it.                                   *)
(*                                                                         *)
(* An object is validated first and exported later; an object that fails   *)
(* half-way keeps the sheet it has, and only the audit trail, written      *)
(* after the file, tells of it.                                            *)
(***************************************************************************)
EXTENDS Integers, FiniteSets

CONSTANTS
  Object,
  About,             \* of each object, see ObjectRecord
  Row,               \* the rows of the report's table
  Filter,            \* the filters that SQL evaluates
  Attr,              \* of each row: may the user read it, does it pass the filters, see RowRecord
  Reports,           \* see ReportRecord
  NoReport,
  MAX_ROWS_PER_OBJECT, STREAM_BATCH_SIZE

\* place: the schema with its table; permitted: whether the field permissions name fields
\* of the table, others, or none; computed: it has formulas or roll-ups the user may read;
\* visible: rows that get_permissions lets the user read, of all the rows there are.
ObjectRecord == [known : BOOLEAN, place : {"own", "public", "none"}, setup : BOOLEAN,
                 mayRead : BOOLEAN, permitted : {"real", "other", "none"}, computed : BOOLEAN,
                 rows : Nat, visible : Nat]

\* passes: the filters of SQL it passes; left: whether it passes those left to Python.
RowRecord == [mine : BOOLEAN, passes : SUBSET Filter, left : BOOLEAN]

\* logic: the sets of its filters that satisfy filter_logic; left: whether filters could not be turned
\* into SQL, and whether the rows read carry the value they test, as those of a summary do not;
\* dotted: all its fields are of related objects.
ReportRecord == [grouped : BOOLEAN, computed : BOOLEAN, details : BOOLEAN, filters : SUBSET Filter,
                 logic : SUBSET SUBSET Filter, left : {"none", "carried", "foreign"}, dotted : BOOLEAN]

ExportAssumption ==
  /\ About \in [Object -> ObjectRecord]
  /\ \A o \in Object : About[o].visible <= About[o].rows
  /\ Attr \in [Row -> RowRecord]
  /\ Reports \subseteq ReportRecord /\ NoReport \notin ReportRecord
  /\ \A q \in Reports : q.grouped => q.left # "carried"
  /\ {MAX_ROWS_PER_OBJECT, STREAM_BATCH_SIZE} \subseteq Nat \ {0}

VARIABLES
  present,    \* the objects whose table is still there
  selected, todo, valid, skipped,
  current,    \* the object being exported, as a set of at most one
  sheets,     \* rows and columns of each sheet of the workbook
  audit,      \* audit_batch
  trail,      \* the audit trail
  report,     \* the report exported, and the rows it shows
  shown,
  pc,
  file, answer,
  begun       \* the client has read a chunk (a history variable)

vars == <<present, selected, todo, valid, skipped, current, sheets, audit, trail, report, shown,
          pc, file, answer, begun>>

Columns == {"all", "permitted", "computed", "id"}

Entry == [object : Object, what : {"exported", "failed"}, rows : Nat]

TypeOK ==
  /\ {present, selected, todo, valid, skipped, current} \subseteq SUBSET Object
  /\ Cardinality(current) <= 1
  /\ DOMAIN sheets \subseteq Object
  /\ \A o \in DOMAIN sheets : sheets[o].rows \in Nat /\ sheets[o].cols \in Columns
  /\ audit \subseteq Entry /\ trail \subseteq Entry
  /\ report \in Reports \cup {NoReport} /\ shown \subseteq Row
  /\ pc \in {"start", "validate", "export", "save", "flush", "send", "done"}
  /\ file \in {"none", "held", "gone"}
  /\ answer \in {"none", "file", "refused", "failed"}
  /\ begun \in BOOLEAN

Init ==
  /\ present = {o \in Object : About[o].place # "none"}
  /\ selected = {} /\ todo = {} /\ valid = {} /\ skipped = {} /\ current = {}
  /\ sheets = [o \in {} |-> {}] /\ audit = {} /\ trail = {}
  /\ report = NoReport /\ shown = {}
  /\ pc = "start" /\ file = "none" /\ answer = "none" /\ begun = FALSE

Least(m, n) == IF m < n THEN m ELSE n

----------------------------------------------------------------------------
\* Selected objects

Select(S) ==
  /\ pc = "start" /\ pc' = "validate"
  /\ selected' = S /\ todo' = S
  /\ UNCHANGED <<present, valid, skipped, current, sheets, audit, trail, report, shown, file,
                 answer, begun>>

\* Setup objects need no permission.
Valid(o) ==
  /\ About[o].known /\ o \in present
  /\ About[o].setup \/ About[o].mayRead

Validate(o) ==
  /\ pc = "validate" /\ o \in todo
  /\ todo' = todo \ {o}
  /\ IF Valid(o) THEN valid' = valid \cup {o} /\ UNCHANGED skipped
                 ELSE skipped' = skipped \cup {o} /\ UNCHANGED valid
  /\ UNCHANGED <<present, selected, current, sheets, audit, trail, report, shown, pc, file, answer,
                 begun>>

\* Nothing selected, or nothing of it valid, is refused.
EndValidation ==
  /\ pc = "validate" /\ todo = {}
  /\ IF valid = {} THEN pc' = "done" /\ answer' = "refused" /\ UNCHANGED todo
                   ELSE pc' = "export" /\ todo' = valid /\ UNCHANGED answer
  /\ UNCHANGED <<present, selected, valid, skipped, current, sheets, audit, trail, report, shown,
                 file, begun>>

\* Field permissions that name no column of the table let all columns through.
ExportFields(o) ==
  CASE About[o].setup                                      -> "all"
    [] ~About[o].setup /\ About[o].permitted = "none"      -> "all"
    [] ~About[o].setup /\ About[o].permitted # "none" /\ About[o].computed -> "computed"
    [] ~About[o].setup /\ About[o].permitted = "real" /\ ~About[o].computed  -> "permitted"
    [] ~About[o].setup /\ About[o].permitted = "other" /\ ~About[o].computed -> "all"

\* Objects with computed fields are read through get_permissions, the others by a SELECT of
\* the whole table.
Streams(o) == About[o].setup \/ ~About[o].computed

Available(o) == Least(IF Streams(o) THEN About[o].rows ELSE About[o].visible, MAX_ROWS_PER_OBJECT)

AddSheet(o, n) == sheets' = [x \in DOMAIN sheets \cup {o} |->
                               IF x = o THEN [rows |-> n, cols |-> ExportFields(o)] ELSE sheets[x]]

\* Columns and labels are read, the sheet is made; without streaming it is filled at once.
OpenSheet(o) ==
  /\ pc = "export" /\ current = {} /\ o \in todo /\ o \in present
  /\ current' = {o}
  /\ AddSheet(o, IF Streams(o) THEN 0 ELSE Available(o))
  /\ UNCHANGED <<present, selected, todo, valid, skipped, audit, trail, report, shown, pc, file,
                 answer, begun>>

\* The cursor reads the rows there were when it was declared, a batch at a time.
WriteBatch(o) ==
  /\ pc = "export" /\ current = {o} /\ sheets[o].rows < Available(o)
  /\ AddSheet(o, Least(sheets[o].rows + STREAM_BATCH_SIZE, Available(o)))
  /\ UNCHANGED <<present, selected, todo, valid, skipped, current, audit, trail, report, shown, pc,
                 file, answer, begun>>

CloseSheet(o) ==
  /\ pc = "export" /\ current = {o} /\ sheets[o].rows = Available(o)
  /\ current' = {} /\ todo' = todo \ {o}
  /\ audit' = audit \cup {[object |-> o, what |-> "exported", rows |-> sheets[o].rows]}
  /\ UNCHANGED <<present, selected, valid, skipped, sheets, trail, report, shown, pc, file, answer,
                 begun>>

\* Mutant: the loop goes on to the next object, and that is all.
PassOver(o) ==
  /\ pc = "export" /\ o \in todo /\ current \in {{}, {o}}
  /\ current' = {} /\ todo' = todo \ {o}
  /\ UNCHANGED <<present, selected, valid, skipped, sheets, audit, trail, report, shown, pc, file,
                 answer, begun>>

\* An exception: the table is gone, or the connection breaks between two batches.  The
\* sheet stays as it is.
FailObject(o) ==
  /\ pc = "export" /\ o \in todo /\ current \in {{}, {o}}
  /\ current' = {} /\ todo' = todo \ {o}
  /\ audit' = audit \cup {[object |-> o, what |-> "failed", rows |-> 0]}
  /\ UNCHANGED <<present, selected, valid, skipped, sheets, trail, report, shown, pc, file, answer,
                 begun>>

EndExport ==
  /\ pc = "export" /\ todo = {} /\ pc' = "save"
  /\ UNCHANGED <<present, selected, todo, valid, skipped, current, sheets, audit, trail, report,
                 shown, file, answer, begun>>

\* The entries are written one by one, and one that fails is passed over.
FlushAudit ==
  /\ pc = "flush" /\ pc' = "send"
  /\ \E written \in SUBSET audit : trail' = trail \cup written
  /\ UNCHANGED <<present, selected, todo, valid, skipped, current, sheets, audit, report, shown,
                 file, answer, begun>>

----------------------------------------------------------------------------
\* A report

\* A grouped report is exported as its summary.  A plain list without filters is streamed
\* like an object, and its filters, if any, are never left out for it.
Unfiltered(q) == /\ ~q.grouped /\ ~q.computed /\ q.details /\ ~q.dotted
                 /\ q.filters = {} /\ q.left = "none"

\* Mutant: any plain list is streamed.
AnyList(q) == ~q.grouped /\ ~q.computed /\ q.details /\ ~q.dotted

FastPath(q) == Unfiltered(q)

\* What get_permissions reads: filter_logic is handed to none of its calls, and all filters must hold.
ReportRows(q) == {r \in Row : Attr[r].mine /\ q.filters \subseteq Attr[r].passes}

\* A filter left to Python is tested on the rows read; those that do not carry its value pass or
\* not by what a missing value, or the sum of a group, gives.
ExportReport(q) ==
  /\ pc = "start" /\ pc' = "save"
  /\ report' = q
  /\ \E kept \in SUBSET Row :
       /\ q.left = "none" => kept = Row
       /\ q.left = "carried" => kept = {r \in Row : Attr[r].left}
       /\ shown' = IF FastPath(q) THEN Row ELSE ReportRows(q) \cap kept
  /\ UNCHANGED <<present, selected, todo, valid, skipped, current, sheets, audit, trail, file,
                 answer, begun>>

\* A report that is not found, or an exception in a query or a filter.
FailReport ==
  /\ pc = "start" /\ pc' = "done" /\ answer' = "failed"
  /\ UNCHANGED <<present, selected, todo, valid, skipped, current, sheets, audit, trail, report,
                 shown, file, begun>>

----------------------------------------------------------------------------
\* The file

\* A temporary file of its own name; if it cannot be written it is left behind.
Save ==
  /\ pc = "save" /\ file' = "held"
  /\ \/ pc' = "flush" /\ UNCHANGED answer
     \/ pc' = "done" /\ answer' = "failed"
  /\ UNCHANGED <<present, selected, todo, valid, skipped, current, sheets, audit, trail, report,
                 shown, begun>>

Send ==
  /\ pc = "send" /\ answer = "none" /\ answer' = "file"
  /\ UNCHANGED <<present, selected, todo, valid, skipped, current, sheets, audit, trail, report,
                 shown, pc, file, begun>>

Read ==
  /\ pc = "send" /\ answer = "file" /\ ~begun /\ begun' = TRUE
  /\ UNCHANGED <<present, selected, todo, valid, skipped, current, sheets, audit, trail, report,
                 shown, pc, file, answer>>

\* The last chunk is read, or the client leaves: the generator is closed, and unlinks the
\* file if it ever ran.
Close ==
  /\ pc = "send" /\ answer = "file" /\ pc' = "done"
  /\ file' = IF begun THEN "gone" ELSE file
  /\ UNCHANGED <<present, selected, todo, valid, skipped, current, sheets, audit, trail, report,
                 shown, answer, begun>>

\* An administrator deletes an object.
DropTable(o) ==
  /\ pc \in {"validate", "export"} /\ o \in present \ current
  /\ present' = present \ {o}
  /\ UNCHANGED <<selected, todo, valid, skipped, current, sheets, audit, trail, report, shown, pc,
                 file, answer, begun>>

Next ==
  \/ \E S \in SUBSET Object : Select(S)
  \/ \E o \in Object : \/ Validate(o) \/ OpenSheet(o) \/ WriteBatch(o) \/ CloseSheet(o)
                       \/ FailObject(o) \/ DropTable(o)
  \/ \E q \in Reports : ExportReport(q)
  \/ FailReport \/ EndValidation \/ EndExport \/ FlushAudit \/ Save \/ Send \/ Read \/ Close

----------------------------------------------------------------------------
\* Properties

\* A workbook that is handed out accounts for every selected object: it is among the skipped
\* ones, or the audit batch has one entry for it; "exported" with the very number of rows its
\* sheet holds, and "failed" whenever its sheet is cut short, since the workbook itself does
\* not tell a sheet that was cut from one that is complete.
WorkbookIsAccounted ==
  pc \in {"flush", "send"} /\ report = NoReport =>
    /\ selected = skipped \cup {e.object : e \in audit}
    /\ \A o \in selected \ skipped : Cardinality({e \in audit : e.object = o}) = 1
    /\ \A o \in DOMAIN sheets : sheets[o].rows # Available(o) =>
         [object |-> o, what |-> "failed", rows |-> 0] \in audit
    /\ \A e \in audit : e.what = "exported" => sheets[e.object].rows = e.rows

\* An exported row passes the filters of its report as the report's logic joins them, if that holds
\* where all of them do, as it does unless it has a NOT; and it passes the filters left to Python
\* that are tested on their own value.  This is so too where the report is exported by another query
\* than its own: "Filters force the slow path" (data_export/views.py:1603).
ExportHonoursFilters ==
  report # NoReport => \A r \in shown :
    /\ report.filters \in report.logic => Attr[r].passes \cap report.filters \in report.logic
    /\ report.left = "carried" => Attr[r].left

\* No temporary file is left behind by a client that began to read it.
BegunFilesGo == (pc = "done" /\ begun) => file = "gone"
=============================================================================
