---------------------------- MODULE RecordBatch ----------------------------
(***************************************************************************)
(* How a request stores a batch of records of one table and what it        *)
(* reports of it (api/ORM/sqlFunctions/createSQLFunction.py and            *)
(* updateSQLFunction.py): edits with one savepoint per record and a field  *)
(* history, imports with one fast INSERT and a slow path, single creates,  *)
(* and the uniqueness of leads, which is checked by a query and not by a   *)
(* constraint.                                                             *)
(*                                                                         *)
(* A record has two fields that matter: a lead is a duplicate of another   *)
(* if both agree (the name, and the email or the phone).                   *)
(***************************************************************************)
EXTENDS Naturals, Sequences, FiniteSets

CONSTANTS
  Request, Row,
  Data,       \* values of a field
  Plans,      \* what a request may ask
  Start,      \* tables to begin with
  Absent, Keep, Clean, NoRequest, NoPlan

Field == {"name", "contact"}
Value == [Field -> Data]
Doc   == [Field -> Data \cup {Keep}]   \* Keep: the request does not give the field

\* Python's validation refuses an "invalid" record, the database a "refused" one.
Item  == [row : Row, doc : Doc, fate : {"good", "invalid", "refused"}]
Plan  == [kind : {"edit", "import", "create"}, items : Seq(Item)]
Entry == [row : Row, field : Field, old : Data, new : Data]

ASSUME BatchAssumption ==
  /\ Plans \subseteq Plan
  /\ \A p \in Plans : p.kind # "edit" =>   \* new records have all their fields and fresh ids
       /\ \A i \in DOMAIN p.items : p.items[i].doc \in Value
       /\ \A i, j \in DOMAIN p.items : p.items[i].row = p.items[j].row => i = j
  /\ Start \subseteq [Row -> Value \cup {Absent}]
  /\ Keep \notin Data
  /\ Absent \notin Value /\ Clean \notin Value /\ Absent # Clean
  /\ NoRequest \notin Request /\ NoPlan \notin Plan

VARIABLES
  isObject,   \* leads, or else a setup table: no row locks, no uniqueness
  table,      \* committed rows
  history,    \* field_history_log
  lock,
  pc, plan, pos,
  work,       \* what the open transaction has made of each row, Clean if nothing
  before,     \* the rows as read when the batch began, current_rows_cache
  pending,    \* history entries to be written at the end
  todo,       \* records an import has found fit to insert
  done, failed, \* the report, by place in the batch
  aborted,    \* a statement has failed outside any savepoint
  overlapped  \* (used by no action) another request was under way meanwhile

own  == <<work, before, pending, todo, done, failed, aborted>>
vars == <<isObject, table, history, lock, pc, plan, pos, own, overlapped>>

-----------------------------------------------------------------------------
Items(q)   == plan[q].items
It(q)      == Items(q)[pos[q]]
HasMore(q) == pos[q] <= Len(Items(q))
Goto(q, l) == pc' = [pc EXCEPT ![q] = l]
Advance(q) == pos' = [pos EXCEPT ![q] = @ + 1]

\* What request q's statements see: committed rows and its own changes.
View(q, r) == IF work[q][r] = Clean THEN table[r] ELSE work[q][r]

\* Faulty: a field the request does not give is not kept.
Overwrite(v, d) == d

Merge(v, d) == [f \in Field |-> IF d[f] = Keep THEN v[f] ELSE d[f]]

\* validate_lead_name_contact_uniqueness: another row as request q sees it.
Duplicate(q, r, v) == isObject /\ \E s \in Row \ {r} : View(q, s) = v

\* record_field_changes.
Changes(r, old, doc) ==
  {[row |-> r, field |-> f, old |-> old[f], new |-> doc[f]] :
     f \in {g \in Field : doc[g] # Keep /\ doc[g] # old[g]}}

Active == {q \in Request : pc[q] \notin {"idle", "done", "failed"}}

AllClean == [r \in Row |-> Clean]

\* The transaction is over, with or without its changes.
End(q, l) ==
  /\ Goto(q, l)
  /\ lock' = [r \in Row |-> IF lock[r] = q THEN NoRequest ELSE lock[r]]
  /\ UNCHANGED <<isObject, plan, pos, own, overlapped>>

Fail(q) == End(q, "failed") /\ UNCHANGED <<table, history>>

Init ==
  /\ isObject \in BOOLEAN
  /\ table \in Start
  /\ history = {}
  /\ lock = [r \in Row |-> NoRequest]
  /\ pc = [q \in Request |-> "idle"]
  /\ plan = [q \in Request |-> NoPlan]
  /\ pos = [q \in Request |-> 1]
  /\ work = [q \in Request |-> AllClean]
  /\ before = [q \in Request |-> [r \in Row |-> Absent]]
  /\ pending = [q \in Request |-> {}]
  /\ todo = [q \in Request |-> {}]
  /\ done = [q \in Request |-> {}]
  /\ failed = [q \in Request |-> {}]
  /\ aborted = [q \in Request |-> FALSE]
  /\ overlapped = [q \in Request |-> FALSE]

RowsOf(p) == {p.items[i].row : i \in DOMAIN p.items}

\* The request arrives. The ids of new records are fresh, and known to nobody
\* before they are committed.
Submit(q) ==
  /\ pc[q] = "idle"
  /\ \E p \in Plans :
       /\ \A o \in Request : plan[o] # NoPlan =>
            \/ p.kind = "edit" /\ (plan[o].kind = "edit" \/ o \notin Active)
            \/ RowsOf(p) \cap RowsOf(plan[o]) = {}
       /\ p.kind # "edit" => \A r \in RowsOf(p) : table[r] = Absent
       /\ plan' = [plan EXCEPT ![q] = p]
       /\ Goto(q, CASE p.kind = "edit"   -> IF isObject THEN "lock" ELSE "fetch"
                    [] p.kind = "import" -> "sort"
                    [] p.kind = "create" -> "create")
  /\ overlapped' = [o \in Request |-> \/ overlapped[o]
                                      \/ o \in Active
                                      \/ o = q /\ Active # {}]
  /\ UNCHANGED <<isObject, table, history, lock, pos, own>>

-----------------------------------------------------------------------------
\* updateRawSQL.

\* Faulty: SELECT without FOR UPDATE.
LockTargetUnheld(q) ==
  /\ pc[q] = "lock" /\ HasMore(q)
  /\ IF table[It(q).row] = Absent
       THEN Fail(q)
       ELSE /\ lock[It(q).row] \in {NoRequest, q}
            /\ Advance(q)
            /\ UNCHANGED <<isObject, table, history, lock, pc, plan, own, overlapped>>

\* The locking loop of patch_permission, around the edit of an object's records.
LockTarget(q) ==
  /\ pc[q] = "lock" /\ HasMore(q)
  /\ IF table[It(q).row] = Absent
       THEN Fail(q)
       ELSE /\ lock[It(q).row] \in {NoRequest, q}
            /\ lock' = [lock EXCEPT ![It(q).row] = q]
            /\ Advance(q)
            /\ UNCHANGED <<isObject, table, history, pc, plan, own, overlapped>>

\* bulk_fetch_current_rows.
Fetch(q) ==
  /\ pc[q] = "fetch" \/ (pc[q] = "lock" /\ ~HasMore(q))
  /\ before' = [before EXCEPT ![q] =
       [r \in Row |-> IF \E i \in DOMAIN Items(q) : Items(q)[i].row = r THEN table[r] ELSE Absent]]
  /\ pos' = [pos EXCEPT ![q] = 1]
  /\ Goto(q, "edit")
  /\ UNCHANGED <<isObject, table, history, lock, plan, work, pending, todo, done, failed, aborted, overlapped>>

\* The record as read when the batch began, or else as it is now.
Known(q, r) == IF before[q][r] # Absent THEN before[q][r] ELSE View(q, r)

\* Validation looks at the record as the batch found it, with the new fields.
Rejected(q) ==
  \/ It(q).fate = "invalid"
  \/ LET v == Known(q, It(q).row) IN v # Absent /\ Duplicate(q, It(q).row, Merge(v, It(q).doc))

\* The report has the record, and its savepoint is released.
Succeed(q) ==
  /\ done' = [done EXCEPT ![q] = @ \cup {pos[q]}]
  /\ Advance(q)
  /\ UNCHANGED failed

\* ROLLBACK TO SAVEPOINT: this record only.
Reject(q) ==
  /\ failed' = [failed EXCEPT ![q] = @ \cup {pos[q]}]
  /\ Advance(q)
  /\ UNCHANGED done

RejectEdit(q) ==
  /\ pc[q] = "edit" /\ HasMore(q) /\ Rejected(q)
  /\ before' = IF It(q).fate = "invalid" THEN before
               ELSE [before EXCEPT ![q][It(q).row] = Known(q, It(q).row)]
  /\ Reject(q)
  /\ UNCHANGED <<isObject, table, history, lock, pc, plan, work, pending, todo, aborted, overlapped>>

\* The UPDATE of an accepted record, in its savepoint. The history entry is noted
\* first and stays noted whatever becomes of the UPDATE. A row that is not there
\* is not missed.
ApplyEdit(q) ==
  LET r == It(q).row
      v == Known(q, r)
  IN /\ pc[q] = "edit" /\ HasMore(q) /\ ~Rejected(q)
     /\ before' = [before EXCEPT ![q][r] = v]
     /\ pending' = [pending EXCEPT ![q] = @ \cup (IF v = Absent THEN {} ELSE Changes(r, v, It(q).doc))]
     /\ \/ /\ View(q, r) = Absent
           /\ Succeed(q)
           /\ UNCHANGED <<work, lock>>
        \/ /\ View(q, r) # Absent /\ lock[r] \in {NoRequest, q}
           /\ It(q).fate = "good"
           /\ work' = [work EXCEPT ![q][r] = Merge(View(q, r), It(q).doc)]
           /\ lock' = [lock EXCEPT ![r] = q]
           /\ Succeed(q)
        \/ /\ View(q, r) # Absent /\ lock[r] \in {NoRequest, q}
           /\ It(q).fate = "refused"
           /\ Reject(q)
           /\ UNCHANGED <<work, lock>>
        \/ \* deadlock detected, or statement timeout, while waiting for the row
           /\ lock[r] \notin {NoRequest, q}
           /\ Reject(q)
           /\ UNCHANGED <<work, lock>>
     /\ UNCHANGED <<isObject, table, history, pc, plan, todo, aborted, overlapped>>

\* A lock wait of the locking loop that ends in an error ends the request.
WaitFails(q) ==
  /\ pc[q] = "lock" /\ HasMore(q)
  /\ lock[It(q).row] \notin {NoRequest, q}
  /\ Fail(q)

\* A log is written after the batch, and its failure is swallowed: but in
\* PostgreSQL the transaction can then only be rolled back.
WriteLog(q) ==
  /\ \/ UNCHANGED aborted
     \/ aborted' = [aborted EXCEPT ![q] = TRUE]
  /\ Goto(q, "commit")
  /\ UNCHANGED <<isObject, table, history, lock, plan, pos, work, before, pending, todo, done, failed, overlapped>>

\* flush_field_history.
FlushHistory(q) ==
  /\ pc[q] = "edit" /\ ~HasMore(q)
  /\ IF pending[q] = {}
       THEN /\ Goto(q, "commit")
            /\ UNCHANGED <<isObject, table, history, lock, plan, pos, own, overlapped>>
       ELSE WriteLog(q)

-----------------------------------------------------------------------------
\* post_data_sql and bulk_insert_with_report.

\* Faulty: two records of one batch are not compared.
UnfitAlone(q) ==
  {i \in DOMAIN Items(q) :
     Items(q)[i].fate = "invalid" \/ Duplicate(q, Items(q)[i].row, Items(q)[i].doc)}

\* Records an import rejects before it inserts any: invalid ones, and leads equal
\* to a committed one or to an earlier valid one of the batch.
Unfit(q) ==
  {i \in DOMAIN Items(q) :
     \/ Items(q)[i].fate = "invalid"
     \/ Duplicate(q, Items(q)[i].row, Items(q)[i].doc)
     \/ isObject /\ \E j \in 1..(i - 1) :
          Items(q)[j].fate # "invalid" /\ Items(q)[j].doc = Items(q)[i].doc}

SortImport(q) ==
  /\ pc[q] = "sort"
  /\ failed' = [failed EXCEPT ![q] = Unfit(q)]
  /\ todo' = [todo EXCEPT ![q] = DOMAIN Items(q) \ Unfit(q)]
  /\ Goto(q, "fast")
  /\ UNCHANGED <<isObject, table, history, lock, plan, pos, work, before, pending, done, aborted, overlapped>>

\* The rows the records of places I stand for, inserted into request q's view.
Inserted(q, I) ==
  [r \in Row |-> IF \E i \in I : Items(q)[i].row = r
                   THEN (CHOOSE i \in I : Items(q)[i].row = r)
                   ELSE 0]

WithRows(q, I) ==
  [r \in Row |-> IF Inserted(q, I)[r] = 0 THEN work[q][r] ELSE Items(q)[Inserted(q, I)[r]].doc]

\* Faulty: the savepoint of the fast path is not rolled back.
FastInsertKept(q) ==
  /\ pc[q] = "fast"
  /\ work' = [work EXCEPT ![q] = WithRows(q, {i \in todo[q] : Items(q)[i].fate = "good"})]
  /\ \/ /\ todo[q] # {} /\ \A i \in todo[q] : Items(q)[i].fate = "good"
        /\ done' = [done EXCEPT ![q] = todo[q]]
        /\ Goto(q, "log")
     \/ UNCHANGED done /\ Goto(q, "slow")
  /\ UNCHANGED <<isObject, table, history, lock, plan, pos, before, pending, todo, failed, aborted, overlapped>>

\* One INSERT for all, if the database takes them all; any failure, the client
\* library's included, leads to the slow path.
FastInsert(q) ==
  /\ pc[q] = "fast"
  /\ \/ /\ todo[q] # {} /\ \A i \in todo[q] : Items(q)[i].fate = "good"
        /\ work' = [work EXCEPT ![q] = WithRows(q, todo[q])]
        /\ done' = [done EXCEPT ![q] = todo[q]]
        /\ Goto(q, "log")
     \/ /\ Goto(q, "slow")
        /\ UNCHANGED <<work, done>>
  /\ UNCHANGED <<isObject, table, history, lock, plan, pos, before, pending, todo, failed, aborted, overlapped>>

\* One record and one savepoint at a time; only those found fit before.
SlowInsert(q) ==
  /\ pc[q] = "slow" /\ HasMore(q)
  /\ \/ /\ pos[q] \notin todo[q]
        /\ Advance(q)
        /\ UNCHANGED <<work, done, failed>>
     \/ /\ pos[q] \in todo[q]
        /\ It(q).fate = "refused" \/ Duplicate(q, It(q).row, It(q).doc)
        /\ Reject(q)
        /\ UNCHANGED work
     \/ /\ pos[q] \in todo[q]
        /\ It(q).fate = "good" /\ ~Duplicate(q, It(q).row, It(q).doc)
        /\ work' = [work EXCEPT ![q][It(q).row] = It(q).doc]
        /\ Succeed(q)
  /\ UNCHANGED <<isObject, table, history, lock, pc, plan, before, pending, todo, aborted, overlapped>>

\* log_audit.
LogImport(q) ==
  /\ pc[q] = "log" \/ (pc[q] = "slow" /\ ~HasMore(q))
  /\ WriteLog(q)

\* Records with children, or a single one: the first that validation refuses ends
\* the request with an error, but its transaction commits what came before. One
\* that the database refuses raises, and nothing is kept.
CreateNext(q) ==
  /\ pc[q] = "create" /\ HasMore(q)
  /\ \/ /\ It(q).fate = "invalid" \/ Duplicate(q, It(q).row, It(q).doc)
        /\ Reject(q)
        /\ Goto(q, "refuse")
        /\ UNCHANGED <<isObject, table, history, lock, plan, work, before, pending, todo, aborted, overlapped>>
     \/ /\ It(q).fate = "refused" /\ ~Duplicate(q, It(q).row, It(q).doc)
        /\ Fail(q)
     \/ /\ It(q).fate = "good" /\ ~Duplicate(q, It(q).row, It(q).doc)
        /\ work' = [work EXCEPT ![q][It(q).row] = It(q).doc]
        /\ Succeed(q)
        /\ UNCHANGED <<isObject, table, history, lock, pc, plan, before, pending, todo, aborted, overlapped>>

-----------------------------------------------------------------------------
\* What the transaction leaves behind when it ends without an exception.
Commit(q) ==
  IF aborted[q]
    THEN UNCHANGED <<table, history>>
    ELSE /\ table' = [r \in Row |-> View(q, r)]
         /\ history' = history \cup pending[q]

\* The report is answered. The edit of an object runs in an inner atomic block: to
\* leave it in an aborted transaction raises.
AnswerReport(q) ==
  /\ pc[q] = "commit" \/ (pc[q] = "create" /\ ~HasMore(q))
  /\ IF aborted[q] /\ plan[q].kind = "edit" /\ isObject
       THEN Fail(q)
       ELSE Commit(q) /\ End(q, "done")

AnswerError(q) ==
  /\ pc[q] = "refuse"
  /\ Commit(q)
  /\ End(q, "failed")

Crash(q) == q \in Active /\ Fail(q)

Next ==
  \E q \in Request :
    \/ Submit(q) \/ Crash(q)
    \/ LockTarget(q) \/ WaitFails(q) \/ Fetch(q) \/ RejectEdit(q) \/ ApplyEdit(q) \/ FlushHistory(q)
    \/ SortImport(q) \/ FastInsert(q) \/ SlowInsert(q) \/ LogImport(q)
    \/ CreateNext(q) \/ AnswerReport(q) \/ AnswerError(q)

Spec == Init /\ [][Next]_vars

-----------------------------------------------------------------------------
\* Every variable has its type; what is open in a transaction is a whole row.
TypeOK ==
  /\ isObject \in BOOLEAN
  /\ table \in [Row -> Value \cup {Absent}]
  /\ history \subseteq Entry
  /\ lock \in [Row -> Request \cup {NoRequest}]
  /\ pc \in [Request -> {"idle", "lock", "fetch", "edit", "sort", "fast", "slow", "log", "create",
                         "refuse", "commit", "done", "failed"}]
  /\ plan \in [Request -> Plan \cup {NoPlan}]
  /\ pos \in [Request -> Nat \ {0}]
  /\ work \in [Request -> [Row -> Value \cup {Clean}]]
  /\ before \in [Request -> [Row -> Value \cup {Absent}]]
  /\ pending \in [Request -> SUBSET Entry]
  /\ todo \in [Request -> SUBSET Nat]
  /\ done \in [Request -> SUBSET Nat]
  /\ failed \in [Request -> SUBSET Nat]
  /\ aborted \in [Request -> BOOLEAN]
  /\ overlapped \in [Request -> BOOLEAN]

Reports(q) == pc[q] # "done" /\ pc'[q] = "done"

\* The value the report says request q has given to field f of row r, if any.
Told(q, r, f) ==
  {i \in done[q] : Items(q)[i].row = r /\ Items(q)[i].doc[f] # Keep}

\* What the report of request q says of its records is so: what it calls stored is
\* in the table (the last of several edits of a field), and no other row or field
\* has changed, whichever savepoints were rolled back. A setup table does not
\* notice that a row to edit does not exist.
Stored(q) ==
  \A r \in Row : \A f \in Field :
    LET told == Told(q, r, f)
        has(t) == t[r] # Absent
    IN IF told = {}
         THEN table'[r] = table[r] \/ (has(table') /\ has(table) /\ table'[r][f] = table[r][f])
         ELSE \/ has(table') /\ \E i \in told : (\A j \in told : j <= i) /\ table'[r][f] = Items(q)[i].doc[f]
              \/ ~isObject /\ ~has(table)

\* A report accounts for every record of the batch once, and it is true, unless
\* a log could not be written (bulk_insert_with_report, updateRawSQL).
ReportIsTrue ==
  [][\A q \in Request : Reports(q) =>
       /\ done[q] \cap failed[q] = {} /\ done[q] \cup failed[q] = DOMAIN Items(q)
       /\ aborted[q] \/ Stored(q)]_vars

\* "Don't block the main result if audit logging fails": a report is true also
\* when the audit log or the history could not be written.
LogFailureKeepsResult ==
  [][\A q \in Request : Reports(q) /\ aborted[q] => Stored(q)]_vars

\* The history of an object's records has every change of a reported edit, with
\* the value that the edit replaced: no other request has changed the row between
\* the reading of the old value and the commit. (Records listed once.)
HistoryTellsReplacedValue ==
  [][\A q \in Request : Reports(q) /\ isObject /\ plan[q].kind = "edit" =>
       \A i \in done[q] :
         LET r == Items(q)[i].row IN
         (\A j \in DOMAIN Items(q) : Items(q)[j].row = r => j = i)
           => Changes(r, table[r], Items(q)[i].doc) \subseteq history']_vars

OnceEach(q) == \A i, j \in DOMAIN Items(q) : Items(q)[i].row = Items(q)[j].row => i = j

\* A request that no other overlapped leaves leads unique if it found them so,
\* however its batch was sorted, inserted, retried or edited record by record.
DuplicatesNeedOverlap ==
  [][\A q \in Request : Reports(q) /\ isObject /\ ~overlapped[q] /\ OnceEach(q) =>
       \A r, s \in Row : r # s /\ table'[r] = table'[s] /\ table'[r] # Absent =>
         table[r] = table[s] /\ table[r] # Absent]_vars
=============================================================================
