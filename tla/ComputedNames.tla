---------------------------- MODULE ComputedNames ----------------------------
(***************************************************************************)
(* Which fields a filter may test in SQL: computed_fields.py keeps, in     *)
(* each process, the names of the computed fields and the columns it has   *)
(* looked up.  Nothing calls invalidate_computed_field_caches, so an entry *)
(* lives as long as the process, also one made by a query that failed.     *)
(***************************************************************************)
EXTENDS Integers, FiniteSets

CONSTANTS
  Field,
  Worker,            \* processes
  Unread,            \* nothing is cached
  MaxChanges         \* bound: fields added, removed or made anew

NamesAssumption ==
  Field # {} /\ Unread \notin BOOLEAN /\ (\A S \in SUBSET Field : S # Unread) /\ MaxChanges \in Nat

VARIABLES
  kind,              \* of each field: it is missing, has a column, or is computed
  names,             \* per process: the cached names of the computed fields
  exists,            \* per process: for each field, whether it was found to have a column
  told,              \* the last filter of each process: the field, and what became of it
  current,           \* processes that have cached nothing before the last change, nor after a
                     \* failed query (history)
  changes

vars == <<kind, names, exists, told, current, changes>>

Kind == {"missing", "column", "computed"}
Nothing == [f \in Field |-> Unread]

TypeOK ==
  /\ kind \in [Field -> Kind]
  /\ names \in [Worker -> (SUBSET Field) \cup {Unread}]
  /\ exists \in [Worker -> [Field -> BOOLEAN \cup {Unread}]]
  /\ told \in [Worker -> [field : Field, how : {"nothing", "sql", "values", "error"}]]
  /\ current \subseteq Worker /\ changes \in 0..MaxChanges

NothingRead(f) == [field |-> f, how |-> "nothing"]

Init ==
  /\ kind \in [Field -> Kind] /\ names = [w \in Worker |-> Unread] /\ exists = [w \in Worker |-> Nothing]
  /\ told = [w \in Worker |-> NothingRead(CHOOSE f \in Field : TRUE)] /\ current = Worker /\ changes = 0

Computed == {f \in Field : kind[f] = "computed"}

\* A field is added, removed, or removed and added with another type.
ChangeField(f, k) ==
  /\ changes < MaxChanges /\ changes' = changes + 1 /\ k # kind[f]
  /\ kind' = [kind EXCEPT ![f] = k]
  /\ current' = {w \in current : names[w] = Unread /\ exists[w] = Nothing}
  /\ told' = [w \in Worker |-> NothingRead(f)] /\ UNCHANGED <<names, exists>>

Restart(w) ==
  /\ names' = [names EXCEPT ![w] = Unread] /\ exists' = [exists EXCEPT ![w] = Nothing]
  /\ current' = current \cup {w} /\ told' = [told EXCEPT ![w] = NothingRead(told[w].field)]
  /\ UNCHANGED <<kind, changes>>

\* _get_all_computed_field_names: read once; a query that fails caches that there are none.
ReadNames(w, fails) ==
  /\ names[w] = Unread
  /\ names' = [names EXCEPT ![w] = IF fails THEN {} ELSE Computed]
  /\ current' = IF fails THEN current \ {w} ELSE current
  /\ UNCHANGED <<kind, exists, told, changes>>

\* Mutant: only the fields that the request shows are looked at.
IsShown(w, f, shown) == shown /\ f \in Computed

\* separate_computed_filters: a computed field is one of those the request shows, read just
\* now, or one that is cached.
_is_computed(w, f, shown) == (shown /\ f \in Computed) \/ f \in names[w]

\* _column_exists
Found(w, f) == IF exists[w][f] = Unread THEN kind[f] = "column" ELSE exists[w][f]

\* A filter on a field: SQL tests a column, which must be there; the values of a computed
\* field are worked out, unless it seems to have a column.
Filter(w, f, shown, fails) ==
  LET computed == _is_computed(w, f, shown)
      column   == Found(w, f)
      sql      == IF kind[f] = "column" THEN "sql" ELSE "error"
  IN  /\ names[w] # Unread
      /\ IF computed /\ exists[w][f] = Unread
         THEN /\ exists' = [exists EXCEPT ![w][f] = column /\ ~fails]
              /\ current' = IF fails THEN current \ {w} ELSE current
         ELSE UNCHANGED <<exists, current>>
      /\ told' = [told EXCEPT ![w] = [field |-> f, how |-> IF computed /\ ~(column /\ ~fails) THEN "values" ELSE sql]]
      /\ UNCHANGED <<kind, names, changes>>

Next ==
  \/ \E f \in Field, k \in Kind : ChangeField(f, k)
  \/ \E w \in Worker : \/ Restart(w)
                       \/ \E fails \in BOOLEAN : ReadNames(w, fails)
                       \/ \E f \in Field, shown, fails \in BOOLEAN : Filter(w, f, shown, fails)

----------------------------------------------------------------------------
\* Properties

Right(w) ==
  LET f == told[w].field IN
    CASE told[w].how = "nothing" -> TRUE
      [] told[w].how = "sql"     -> kind[f] = "column"
      [] told[w].how = "values"  -> kind[f] = "computed"
      [] told[w].how = "error"   -> kind[f] = "missing"

\* A process that has cached nothing since before a change of the fields, nor after a failed
\* query, tests every field the way its kind asks for; so the only wrong answers are stale ones.
CurrentProcessesFilterRight == \A w \in current : Right(w)
=============================================================================
