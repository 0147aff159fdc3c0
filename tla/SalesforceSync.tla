--------------------------- MODULE SalesforceSync ---------------------------
(***************************************************************************)
(* An object kept in step with Salesforce.  A task pulls it from time to   *)
(* time into a table of its own and copies that to the application's       *)
(* (sf_integration/tasks.py, salesforce_client.py); a listener pushes what *)
(* the table's trigger notifies it of (sync_salesforce.py).  Notifications *)
(* are lost while the listener is down; a push is a request to Salesforce  *)
(* and then an UPDATE of the row; nothing orders a push and a pull.        *)
(***************************************************************************)
EXTENDS Integers, Sequences, FiniteSets, Functions

CONSTANTS
  LocalId, SfId, Null,
  Value,
  External,      \* the values whose external id is set: that column is unique
  Parent, ParentSfId,  \* rows of the table that a foreign key points at; their ids there
  MaxNotes,      \* notifications waiting
  MaxEdits       \* edits, by users of either side

SyncAssumption ==
  /\ Null \notin LocalId \cup SfId \cup Value \cup Parent \cup ParentSfId
  /\ External \subseteq Value /\ MaxNotes \in Nat \ {0} /\ MaxEdits \in Nat

VARIABLES
  table,         \* sf_integration_<object>: Id, parent and value of each row
  parents,       \* the Salesforce ids of the parents; of none without a foreign key
  app,           \* the application's records, by external_id
  sf, issued,    \* Salesforce's records; the ids it ever gave (history)
  notes,         \* the queue of LISTEN
  listener,      \* what the listener is about
  pull,          \* the step the task is at, what it read, and of the rows then the
                 \* external ids, and whether they have stayed so (history)
  due, push,     \* is_sync_due, salesforce_push
  edits

vars == <<table, parents, app, sf, issued, notes, listener, pull, due, push, edits>>

Row == [Id : SfId \cup {Null}, parent : Parent \cup {Null}, value : Value]

Remote == [parent : ParentSfId \cup {Null}, value : Value]

Change == [operation : {"INSERT", "UPDATE", "DELETE"}, id : LocalId, row : Row]

Down == [step |-> "down"]
Wait == [step |-> "wait"]
Rest == [step |-> "idle", sf |-> <<>>, seen |-> <<>>, held |-> {}, quiet |-> TRUE]

TypeOK ==
  /\ DOMAIN table \subseteq LocalId /\ \A i \in DOMAIN table : table[i] \in Row
  /\ DOMAIN parents \in {{}, Parent} /\ \A p \in DOMAIN parents : parents[p] \in ParentSfId \cup {Null}
  /\ DOMAIN app \subseteq SfId /\ \A s \in DOMAIN app : app[s] \in Value
  /\ DOMAIN sf \subseteq issued /\ \A s \in DOMAIN sf : sf[s] \in Remote
  /\ issued \subseteq SfId
  /\ notes \in Seq(Change) /\ Len(notes) <= MaxNotes
  /\ listener \in {Down, Wait} \cup [step : {"answered"}, id : LocalId, Id : SfId]
  /\ pull.step \in {"idle", "create", "update", "delete", "copy", "push"}
  /\ DOMAIN pull.seen \subseteq LocalId /\ DOMAIN pull.sf \subseteq SfId
  /\ due \in BOOLEAN /\ push \in BOOLEAN /\ edits \in 0..MaxEdits

Init ==
  /\ parents \in {<<>>, [p \in Parent |-> Null]}
  /\ table = <<>> /\ app = <<>> /\ sf = <<>> /\ issued = {} /\ notes = <<>>
  /\ listener = Wait /\ pull = Rest /\ due = TRUE /\ push = FALSE /\ edits = 0

Put(f, x, y) == [z \in DOMAIN f \cup {x} |-> IF z = x THEN y ELSE f[z]]

\* The database's constraint: no two rows have one external id.
Unique(rows) ==
  \A i, j \in DOMAIN rows : rows[i].value = rows[j].value /\ rows[i].value \in External => i = j

Touched == pull' = [pull EXCEPT !.quiet = FALSE]

----------------------------------------------------------------------------
\* Users of the table, whose trigger notifies, and of Salesforce

\* NOTIFY reaches who listens.
Notify(op, i, row) ==
  IF listener = Down THEN UNCHANGED notes
  ELSE /\ Len(notes) < MaxNotes
       /\ notes' = Append(notes, [operation |-> op, id |-> i, row |-> row])

\* Has the table a foreign key?
Linked == DOMAIN parents # {}

EditTable(op, i, row) ==
  /\ edits < MaxEdits /\ edits' = edits + 1
  /\ row.parent = Null \/ Linked
  /\ CASE op = "INSERT" -> /\ i \notin DOMAIN table /\ row.Id = Null /\ table' = Put(table, i, row)
       [] op = "UPDATE" -> /\ i \in DOMAIN table /\ row.Id = table[i].Id
                           /\ row # table[i] /\ table' = Put(table, i, row)
       [] op = "DELETE" -> /\ i \in DOMAIN table /\ row = table[i]
                           /\ table' = Restrict(table, DOMAIN table \ {i})
  /\ Unique(table')
  /\ Notify(op, i, row)
  /\ Touched
  /\ UNCHANGED <<parents, app, sf, issued, listener, due, push>>

EditSalesforce(s, r) ==
  /\ edits < MaxEdits /\ edits' = edits + 1
  /\ s \in DOMAIN sf \/ s \notin issued
  /\ r.parent = Null \/ Linked
  /\ sf' = Put(sf, s, r) /\ issued' = issued \cup {s}
  /\ UNCHANGED <<table, parents, app, notes, listener, pull, due, push>>

DeleteInSalesforce(s) ==
  /\ edits < MaxEdits /\ edits' = edits + 1
  /\ s \in DOMAIN sf /\ sf' = Restrict(sf, DOMAIN sf \ {s})
  /\ UNCHANGED <<table, parents, app, issued, notes, listener, pull, due, push>>

----------------------------------------------------------------------------
\* sync_to_salesforce

ParentId(row) == IF row.parent \in DOMAIN parents THEN parents[row.parent] ELSE Null

\* Of a table with a foreign key, a row waits for its parent to get an id, and one without parent
\* waits for ever; and what waits is not asked again.
Resolved(row) == Linked => ParentId(row) # Null

\* A notification is taken off the queue and then lost if the parent has no id, if an update
\* or deletion has none itself, or if a request fails.
Drop ==
  /\ listener = Wait /\ notes # <<>> /\ notes' = Tail(notes)
  /\ UNCHANGED <<table, parents, app, sf, issued, listener, pull, due, push, edits>>

\* Salesforce makes the record; its answer is on the way.
PushInsert(s) ==
  /\ listener = Wait /\ notes # <<>> /\ s \in SfId \ issued
  /\ LET n == Head(notes) IN
       /\ n.operation = "INSERT" /\ Resolved(n.row)
       /\ sf' = Put(sf, s, [parent |-> ParentId(n.row), value |-> n.row.value])
       /\ listener' = [step |-> "answered", id |-> n.id, Id |-> s]
  /\ issued' = issued \cup {s} /\ notes' = Tail(notes)
  /\ UNCHANGED <<table, parents, app, pull, due, push, edits>>

\* The row gets its id, if it is still there.
StoreId ==
  /\ listener.step = "answered" /\ listener' = Wait
  /\ table' = [i \in DOMAIN table |-> IF i = listener.id THEN [table[i] EXCEPT !.Id = listener.Id]
                                      ELSE table[i]]
  /\ Touched
  /\ UNCHANGED <<parents, app, sf, issued, notes, due, push, edits>>

PushChange ==
  /\ listener = Wait /\ notes # <<>> /\ notes' = Tail(notes)
  /\ LET n == Head(notes)
         s == n.row.Id
     IN  /\ n.operation # "INSERT" /\ s # Null /\ Resolved(n.row)
         /\ s \in DOMAIN sf
         /\ sf' = IF n.operation = "UPDATE"
                  THEN [sf EXCEPT ![s] = [parent |-> ParentId(n.row), value |-> n.row.value]]
                  ELSE Restrict(sf, DOMAIN sf \ {s})
  /\ UNCHANGED <<table, parents, app, issued, listener, pull, due, push, edits>>

\* The parent is pushed or pulled in its turn.
SyncParent(p, s) ==
  /\ p \in DOMAIN parents /\ parents[p] = Null /\ parents' = [parents EXCEPT ![p] = s]
  /\ UNCHANGED <<table, app, sf, issued, notes, listener, pull, due, push, edits>>

\* The listener's process ends, and what waits for it is gone; nothing is read again when it
\* comes back.
Crash ==
  /\ listener # Down /\ listener' = Down /\ notes' = <<>>
  /\ UNCHANGED <<table, parents, app, sf, issued, pull, due, push, edits>>

Restart ==
  /\ listener = Down /\ listener' = Wait
  /\ UNCHANGED <<table, parents, app, sf, issued, notes, pull, due, push, edits>>

----------------------------------------------------------------------------
\* process_salesforce_sync

pulling == <<parents, sf, issued, notes, listener, edits>>

\* The schema is compared, the records of Salesforce are fetched, and the rows are read.
Fetch ==
  /\ pull = Rest /\ due
  /\ pull' = [step |-> "create", sf |-> sf, seen |-> [i \in DOMAIN table |-> table[i].Id],
               held |-> {h \in {<<table[i].value, table[i].Id>> : i \in DOMAIN table} : h[1] \in External},
               quiet |-> TRUE]
  /\ UNCHANGED <<table, app, due, push, pulling>>

Known == Range(pull.seen)

\* Written to the foreign key, a parent's Salesforce id is refused.
Writable(S) == \A s \in S : pull.sf[s].parent = Null

RowOf(s) == [Id |-> s, parent |-> Null, value |-> pull.sf[s].value]

\* The records that no row read has as Id become new rows; one whose external id is taken is
\* passed over (ignore_conflicts).
BulkCreate ==
  /\ pull.step = "create" /\ Writable(DOMAIN pull.sf \ Known)
  /\ \E made \in SUBSET (DOMAIN pull.sf \ Known) : \E new \in [made -> LocalId \ DOMAIN table] :
       /\ IsInjective(new)
       /\ table' = [i \in DOMAIN table \cup Range(new) |->
                      IF i \in DOMAIN table THEN table[i] ELSE RowOf(AntiFunction(new)[i])]
       /\ Unique(table')
       /\ \A s \in DOMAIN pull.sf \ (Known \cup made) :
            pull.sf[s].value \in External /\ \E i \in DOMAIN table' : table'[i].value = pull.sf[s].value
  /\ pull' = [pull EXCEPT !.step = "update"]
  /\ UNCHANGED <<app, due, push, pulling>>

\* The rows read are written, of several with one Id the last that was read.
BulkUpdate ==
  /\ pull.step = "update" /\ Writable(DOMAIN pull.sf \cap Known)
  /\ \E last \in [DOMAIN pull.sf \cap Known -> DOMAIN pull.seen] :
       /\ \A s \in DOMAIN last : pull.seen[last[s]] = s
       /\ table' = [i \in DOMAIN table |-> IF i \in Range(last) THEN RowOf(pull.seen[i]) ELSE table[i]]
  /\ Unique(table')
  /\ pull' = [pull EXCEPT !.step = "delete"]
  /\ UNCHANGED <<app, due, push, pulling>>

\* Mutant: rows that have no Id yet are left.
Unsent(i) == table[i].Id # Null /\ table[i].Id \notin DOMAIN pull.sf

\* The rows whose Id is not among those fetched, or is NULL.
Gone(i) == table[i].Id \notin DOMAIN pull.sf

DeleteOthers ==
  /\ pull.step = "delete"
  /\ table' = Restrict(table, {i \in DOMAIN table : ~Gone(i)})
  /\ pull' = [pull EXCEPT !.step = "copy"]
  /\ UNCHANGED <<app, due, push, pulling>>

\* Every row is copied to the application's record with its Id; nothing is deleted there.
CopyToApp ==
  /\ pull.step = "copy" /\ pull' = [pull EXCEPT !.step = "push"]
  /\ \E from \in {f \in [{table[i].Id : i \in DOMAIN table} \ {Null} -> LocalId] :
                    \A s \in DOMAIN f : f[s] \in DOMAIN table /\ table[f[s]].Id = s} :
       app' = [s \in DOMAIN app \cup DOMAIN from |->
                 IF s \in DOMAIN from THEN table[from[s]].value ELSE app[s]]
  /\ UNCHANGED <<table, due, push, pulling>>

\* push_data_to_salesforce asks the catalog with an unquoted name and always raises; only
\* without it does the object count as synced.
EndSync ==
  /\ pull.step = "push" /\ pull' = Rest
  /\ due' = push
  /\ UNCHANGED <<table, app, push, pulling>>

\* A request or a statement fails: the steps before it stay.
FailSync ==
  /\ pull.step \in {"create", "update", "delete", "copy"} /\ pull' = Rest
  /\ UNCHANGED <<table, app, due, push, pulling>>

\* syncing_frequency minutes have passed.
BecomeDue ==
  /\ ~due /\ due' = TRUE
  /\ UNCHANGED <<table, app, push, pull, pulling>>

SetPush ==
  /\ pull = Rest /\ push' = ~push
  /\ UNCHANGED <<table, app, due, pull, pulling>>

Next ==
  \/ \E op \in {"INSERT", "UPDATE", "DELETE"}, i \in LocalId, row \in Row : EditTable(op, i, row)
  \/ \E s \in SfId : \/ \E r \in Remote : EditSalesforce(s, r)
                     \/ DeleteInSalesforce(s) \/ PushInsert(s)
  \/ \E p \in Parent, s \in ParentSfId : SyncParent(p, s)
  \/ Drop \/ StoreId \/ PushChange \/ Crash \/ Restart
  \/ Fetch \/ BulkCreate \/ BulkUpdate \/ DeleteOthers \/ CopyToApp \/ EndSync \/ FailSync
  \/ BecomeDue \/ SetPush

----------------------------------------------------------------------------
\* Properties

\* What the pull passes over without a word: a record without a row, whose external id another
\* row had when the pull began, or another record of Salesforce has.  So is one that was posted
\* and whose id was not stored; the row that had the external id is deleted for having no Id, so
\* that only the next pull takes the record.
PassedOver(s) ==
  /\ s \notin Known /\ pull.sf[s].value \in External
  /\ \E h \in pull.held \cup {<<pull.sf[z].value, z>> : z \in DOMAIN pull.sf} :
       h[1] = pull.sf[s].value /\ h[2] # s

\* A pull during which neither users nor the listener touched the table leaves every record
\* it fetched in a row, or passed it over, and no row of anything else, also after pushes and
\* after pulls that failed half-way.  Only where an earlier push and a pull left two rows of one
\* record may one of them be out of date.
PullMirrors ==
  pull.step \in {"copy", "push"} /\ pull.quiet =>
    /\ \A s \in DOMAIN pull.sf : (\E i \in DOMAIN table : table[i] = RowOf(s)) \/ PassedOver(s)
    /\ \A i \in DOMAIN table : \/ table[i].Id \in DOMAIN pull.sf /\ table[i] = RowOf(table[i].Id)
                               \/ \E j \in DOMAIN table \ {i} : table[j].Id = table[i].Id
=============================================================================
