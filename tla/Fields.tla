-------------------------------- MODULE Fields --------------------------------
(***************************************************************************)
(* The fields of one object of a tenant, as its administrators create,     *)
(* delete and change them (api/ORM/setup/ObjectManager): columns of the    *)
(* object's table, rows of fields (whose permissions go with them), and    *)
(* the page layout and search layout that name fields.                     *)
(* Statements run at READ COMMITTED; an ALTER TABLE and an UPDATE lock     *)
(* until the end of the transaction.                                       *)
(***************************************************************************)
EXTENDS Integers, FiniteSets

CONSTANTS Request, Name, None,
  MaxHits,       \* names a search layout has room for
  MaxFields      \* rows of fields ever made

FieldsAssumption ==
  /\ None \notin Request /\ Name # {}
  /\ MaxHits \in Nat /\ MaxFields \in Nat

VARIABLES
  columns, fields,  \* fields: id -> name and kind
  layout, search,            \* the names that the page and search layouts hold
  request,
  table, page, finder,       \* who holds the table, the page layout, the search layout
  made,
  \* History: names left behind by a rename; names of a change that stopped half-way, and
  \* what such names were changed to; names of requests that worked on one name or one row
  \* at a time; names in transactions that overlapped.
  renamed, torn, crossed, overlapped

vars == <<columns, fields, layout, search, request, table, page, finder,
          made, renamed, torn, crossed, overlapped>>

store == <<columns, fields, layout, search>>
locks == <<table, page, finder>>
history == <<renamed, torn, crossed, overlapped>>

Ids == 1..MaxFields
FieldRow == [name : Name, kind : {"stored", "computed"}]
FieldChange == [step : {"idle", "register", "page", "search", "commit", "drop", "patch"},
                op : {"create", "delete", "change"}, name : Name, to : Name, id : 0..MaxFields,
                kind : {"stored", "computed"}, placed : BOOLEAN,
                sections : SUBSET Name, hits : SUBSET Name]

TypeOK ==
  /\ columns \subseteq Name /\ layout \subseteq Name /\ search \subseteq Name
  /\ DOMAIN fields \subseteq Ids /\ \A i \in DOMAIN fields : fields[i] \in FieldRow
  /\ made \in 0..MaxFields
  /\ request \in [Request -> FieldChange]
  /\ {table, page, finder} \subseteq Request \cup {None}
  /\ renamed \cup torn \cup crossed \cup overlapped \subseteq Name

NamesOf(kinds) == {fields[i].name : i \in {j \in DOMAIN fields : fields[j].kind \in kinds}}
named == NamesOf({"stored", "computed"})

Idle == [step |-> "idle", op |-> "create", name |-> CHOOSE n \in Name : TRUE,
         to |-> CHOOSE n \in Name : TRUE, id |-> 0, kind |-> "stored", placed |-> FALSE,
         sections |-> {}, hits |-> {}]

Init ==
  /\ columns = {} /\ fields = <<>>
  /\ layout = {} /\ search = {}
  /\ request = [r \in Request |-> Idle]
  /\ table = None /\ page = None /\ finder = None /\ made = 0
  /\ renamed = {} /\ torn = {} /\ crossed = {} /\ overlapped = {}

at(r, step) == request[r].step = step
open == {r \in Request : ~at(r, "idle")}
Free(lock, r) == lock \in {None, r}
Namely(r) == {request[r].name, request[r].to}

\* What the histories keep when a request starts to work on the names N and the rows I.
Starts(N, I) ==
  /\ crossed' = crossed \cup UNION {Namely(q) \cup N : q \in {p \in open : Namely(p) \cap N # {} \/ request[p].id \in I}}
  /\ overlapped' = IF open = {} THEN overlapped ELSE overlapped \cup N \cup UNION {Namely(q) : q \in open}

Unlock(r) ==
  /\ table' = IF table = r THEN None ELSE table
  /\ page' = IF page = r THEN None ELSE page
  /\ finder' = IF finder = r THEN None ELSE finder

Done(r) == request' = [request EXCEPT ![r] = Idle]

----------------------------------------------------------------------------
\* create_field, one transaction

\* add_field_to_table, the first statement; a formula or a roll-up has no column.
AddColumn(r, n, kind, placed) ==
  /\ at(r, "idle")
  /\ kind = "stored" => table = None /\ n \notin columns
  /\ table' = IF kind = "stored" THEN r ELSE table
  /\ request' = [request EXCEPT ![r] = [Idle EXCEPT !.step = "register", !.name = n, !.to = n,
                    !.kind = kind, !.placed = placed]]
  /\ Starts({n}, {})
  /\ UNCHANGED <<store, page, finder, made, renamed, torn>>

\* The row, unless the name is taken; an uncommitted row of the name is waited for.
Register(r) ==
  /\ at(r, "register") /\ made < MaxFields
  /\ request[r].name \notin named
  /\ ~\E q \in open \ {r} : /\ request[q].op = "create" /\ request[q].name = request[r].name
                            /\ ~at(q, "register")
  /\ made' = made + 1
  /\ request' = [request EXCEPT ![r].step = "page", ![r].id = made + 1, ![r].sections = layout]
  /\ UNCHANGED <<store, locks, history>>

----------------------------------------------------------------------------
\* delete_field, one transaction

BeginDelete(r, i) ==
  /\ at(r, "idle") /\ i \in DOMAIN fields
  /\ LET n == fields[i].name IN
       /\ request' = [request EXCEPT ![r] = [Idle EXCEPT !.step = "page", !.op = "delete", !.name = n,
                         !.to = n, !.id = i, !.placed = n \in layout, !.sections = layout]]
       /\ Starts({n}, {i})
  /\ UNCHANGED <<store, locks, made, renamed, torn>>

\* The layouts are read, changed in the program, and written back whole.
Placed(r, S) == IF request[r].op = "create" THEN S \cup {request[r].name} ELSE S \ {request[r].name}

\* A deletion writes the page layout only when it named the field; the search layout is read next.
WritePage(r) ==
  /\ at(r, "page")
  /\ request[r].placed => Free(page, r)
  /\ page' = IF request[r].placed THEN r ELSE page
  /\ request' = [request EXCEPT ![r].step = "search", ![r].hits = search,
                    ![r].sections = IF request[r].placed THEN Placed(r, @) ELSE @]
  /\ UNCHANGED <<store, table, finder, made, history>>

\* Mutant: a deletion rewrites the search layout as it was.
HitsKept(r) == IF Cardinality(request[r].hits) < MaxHits /\ request[r].op = "create"
               THEN Placed(r, request[r].hits) ELSE request[r].hits

Hits(r) == IF Cardinality(request[r].hits) < MaxHits \/ request[r].op = "delete"
           THEN Placed(r, request[r].hits) ELSE request[r].hits

WriteSearch(r) ==
  /\ at(r, "search") /\ Free(finder, r)
  /\ finder' = r
  /\ request' = [request EXCEPT ![r].hits = Hits(r),
                    ![r].step = IF request[r].op = "create" THEN "commit" ELSE "drop"]
  /\ UNCHANGED <<store, table, page, made, history>>

Layouts(r) ==
  /\ layout' = IF request[r].placed THEN request[r].sections ELSE layout
  /\ search' = request[r].hits

Commit(r) ==
  /\ at(r, "commit")
  /\ LET q == request[r] IN
       /\ columns' = IF q.kind = "stored" THEN columns \cup {q.name} ELSE columns
       /\ fields' = [i \in DOMAIN fields \cup {q.id} |->
                       IF i = q.id THEN [name |-> q.name, kind |-> q.kind] ELSE fields[i]]
       /\ renamed' = renamed \ {q.name}
  /\ Layouts(r) /\ Done(r) /\ Unlock(r)
  /\ UNCHANGED <<made, torn, crossed, overlapped>>

\* listviews.visible_columns is JSONB, which arrives as text: isinstance(columns, list) never
\* holds, and the list views stay as they are.
\* The row by its id, then the column by its name.
Drop(r) ==
  /\ at(r, "drop") /\ Free(table, r)
  /\ LET q == request[r] IN
       /\ fields' = [i \in DOMAIN fields \ {q.id} |-> fields[i]]
       /\ columns' = columns \ {q.name}
  /\ Layouts(r) /\ Done(r) /\ Unlock(r)
  /\ UNCHANGED <<made, history>>

----------------------------------------------------------------------------
\* Changing a field: update_field_in_table, then patch_permission of its row

\* The column is renamed in a transaction of its own; a computed field has none to rename.
Rename(r, i, m) ==
  /\ at(r, "idle") /\ i \in DOMAIN fields /\ table = None
  /\ LET n == fields[i].name IN
       /\ n # m /\ n \in columns /\ m \notin columns
       /\ columns' = (columns \ {n}) \cup {m}
       /\ request' = [request EXCEPT ![r] = [Idle EXCEPT !.step = "patch", !.op = "change",
                         !.name = n, !.to = m, !.id = i]]
       /\ renamed' = renamed \cup {n}
       /\ torn' = torn \cup {k \in {m} : n \in crossed \cup torn}
       /\ Starts({n, m}, {i})
  /\ UNCHANGED <<fields, layout, search, locks, made>>

\* The row takes the new name, which no other row may have.
Patch(r) ==
  /\ at(r, "patch") /\ request[r].id \in DOMAIN fields /\ request[r].to \notin named
  /\ fields' = [fields EXCEPT ![request[r].id].name = request[r].to]
  /\ renamed' = renamed \ {request[r].to}
  /\ Done(r)
  /\ UNCHANGED <<columns, layout, search, locks, made, torn, crossed, overlapped>>

\* Refused, not found, or taken: the column keeps its new name.
FailPatch(r) ==
  /\ at(r, "patch")
  /\ torn' = torn \cup Namely(r)
  /\ Done(r)
  /\ UNCHANGED <<store, locks, made, renamed, crossed, overlapped>>

----------------------------------------------------------------------------

\* Mutant: the column is added in a transaction of its own, as a rename's is.
ColumnKept(r) ==
  columns' = IF request[r].op = "create" /\ request[r].kind = "stored"
             THEN columns \cup {request[r].name} ELSE columns

RolledBack(r) == columns' = columns

\* A statement is refused, or the database breaks a deadlock.
Fail(r) ==
  /\ r \in open /\ ~at(r, "patch")
  /\ RolledBack(r) /\ Done(r) /\ Unlock(r)
  /\ UNCHANGED <<fields, layout, search, made, history>>

Next ==
  \/ \E r \in Request :
       \/ \E n \in Name, kind \in {"stored", "computed"}, placed \in BOOLEAN :
            AddColumn(r, n, kind, placed)
       \/ \E i \in Ids : BeginDelete(r, i) \/ \E m \in Name : Rename(r, i, m)
       \/ Register(r) \/ WritePage(r) \/ WriteSearch(r) \/ Commit(r) \/ Drop(r)
       \/ Patch(r) \/ FailPatch(r) \/ Fail(r)

Spec == Init /\ [][Next]_vars

----------------------------------------------------------------------------

renaming == UNION {Namely(r) : r \in {q \in Request : at(q, "patch")}}

\* The table has exactly the columns of the stored fields, whatever fails, but for the names
\* of requests that worked on one name or row at a time, and of renames that stopped half-way
\* or began from such a name.
ColumnsMatchFields ==
  \A n \in Name \ (crossed \cup torn \cup renaming) : n \in columns <=> n \in NamesOf({"stored"})

\* Page and search layouts name fields only, but for fields that were renamed and
\* transactions on the object that overlapped.
LayoutsNameFields == (layout \cup search) \ named \subseteq renamed \cup overlapped
=============================================================================
