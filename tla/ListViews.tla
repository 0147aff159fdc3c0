------------------------------ MODULE ListViews ------------------------------
(***************************************************************************)
(* A saved list view (api/BL/blcontroller.py, api/BL/Listviews): its       *)
(* filters and their logic are created and patched, and the rows that it   *)
(* shows to a reader are looked up.                                        *)
(*                                                                         *)
(* The logic of the filters, "1 AND (2 OR NOT 3)", comes first: how it is  *)
(* read (filter_logic_parser.py), what is accepted                         *)
(* (filter_logic_validator.py), and what its tree becomes on the way to    *)
(* the database: the reader's access is added (access_level_filter.py),    *)
(* computed fields are taken out (separate_computed_filters), the rest is  *)
(* evaluated by PostgreSQL (query_builder_helpers.py).  A tree is          *)
(* <<"is", condition>>, <<"not", tree>> or <<"and" | "or" | "list", trees>>;*)
(* of the trees that are joined neither order nor repetition tells, so     *)
(* that they are a set.                                                    *)
(***************************************************************************)
EXTENDS Integers, Sequences, FiniteSets, SequencesExt, TLC

CONSTANTS
  Computed,          \* names of the formulas and roll-ups of all objects
  Column,            \* columns of the object; one may have the name of another's formula
  Null,
  Rows,              \* the rows of the object: functions of fields
  Reader, Admin,     \* readers, those of them whose profile is 'admin'
  Shared,            \* the ids of the rows shared with a reader
  FilterList, Logic, \* filters and logics that requests carry
  Search,            \* of a search term: the conditions of the columns it fits; <<>> is no search
  Depth,             \* no tree is deeper
  NoView

Number == "1" :> 1 @@ "2" :> 2 @@ "3" :> 3
Token == {"AND", "OR", "NOT", "(", ")"} \cup DOMAIN Number

----------------------------------------------------------------------------
\* build_expression_tree

\* What was read, and the place after it.
Fail == [ok |-> FALSE, tree |-> <<>>, next |-> 0]
Parsed(tree, i) == [ok |-> TRUE, tree |-> tree, next |-> i]

At(ts, i) == IF i <= Len(ts) THEN ts[i] ELSE "end"

\* read: what each rule of the grammar reads from each place on.

\* A number stands for the filter at its place.
ParseAtom(ts, i, filters, read) ==
  CASE At(ts, i) = "(" ->
         LET p == read["expr", i + 1] IN IF p.ok /\ At(ts, p.next) = ")" THEN Parsed(p.tree, p.next + 1) ELSE Fail
    [] At(ts, i) \in DOMAIN Number ->
         IF Number[ts[i]] <= Len(filters) THEN Parsed(<<"is", filters[Number[ts[i]]]>>, i + 1) ELSE Fail
    [] OTHER -> Fail

Negated(p) == IF p.ok THEN Parsed(<<"not", p.tree>>, p.next) ELSE Fail

\* Mutant: NOT takes all that AND joins after it.
NotOverTerm(ts, i, filters, read) ==
  IF At(ts, i) = "NOT" THEN Negated(read["term", i + 1]) ELSE ParseAtom(ts, i, filters, read)

ParseFactor(ts, i, filters, read) ==
  IF At(ts, i) = "NOT" THEN Negated(read["factor", i + 1]) ELSE ParseAtom(ts, i, filters, read)

\* The operands that op joins.
ParseMore(ts, i, op, operand, read) ==
  LET p    == read[operand, i]
      rest == read[op, p.next + 1]
  IN  CASE ~p.ok -> Fail
        [] p.ok /\ At(ts, p.next) # op -> Parsed(<<p.tree>>, p.next)
        [] p.ok /\ At(ts, p.next) = op -> IF rest.ok THEN Parsed(<<p.tree>> \o rest.tree, rest.next) ELSE Fail

Joined(op, p) ==
  IF ~p.ok THEN Fail ELSE Parsed(IF Len(p.tree) = 1 THEN p.tree[1] ELSE <<op, Range(p.tree)>>, p.next)

\* An expression joins terms by OR, a term factors by AND.  What is left over after the
\* expression is ignored here.
parse_filter_logic(ts, filters) ==
  LET read[rule \in {"expr", "OR", "term", "AND", "factor"}, i \in 1..(Len(ts) + 1)] ==
        CASE rule = "expr"   -> Joined("or", read["OR", i])
          [] rule = "OR"     -> ParseMore(ts, i, "OR", "term", read)
          [] rule = "term"   -> Joined("and", read["AND", i])
          [] rule = "AND"    -> ParseMore(ts, i, "AND", "factor", read)
          [] rule = "factor" -> ParseFactor(ts, i, filters, read)
  IN  read["expr", 1]

----------------------------------------------------------------------------
\* FilterLogicValidator

Opens(ts) == Cardinality({i \in DOMAIN ts : ts[i] = "("}) - Cardinality({i \in DOMAIN ts : ts[i] = ")"})

_validate_tokens(ts) ==
  /\ ts # <<>> /\ {ts[1], ts[Len(ts)]} \cap {"AND", "OR"} = {}
  /\ \A i \in 1..(Len(ts) - 1) : {ts[i], ts[i + 1]} \subseteq {"AND", "OR"} => FALSE

_check_parentheses_balance(ts) ==
  Opens(ts) = 0 /\ \A i \in DOMAIN ts : Opens(SubSeq(ts, 1, i)) >= 0

_validate_filter_ids(ts, n) == \A i \in DOMAIN ts : ts[i] \in DOMAIN Number => Number[ts[i]] <= n

\* The same grammar, and nothing may be left over.
_validate_expression_structure(ts, filters) ==
  LET p == parse_filter_logic(ts, filters) IN p.ok /\ p.next = Len(ts) + 1

validate_filter_logic(ts, filters) ==
  /\ _validate_tokens(ts) /\ _check_parentheses_balance(ts) /\ _validate_filter_ids(ts, Len(filters))
  /\ _validate_expression_structure(ts, filters)

----------------------------------------------------------------------------
\* The database's three truth values

And3(S) == IF "F" \in S THEN "F" ELSE IF "N" \in S THEN "N" ELSE "T"
Or3(S) == IF "T" \in S THEN "T" ELSE IF "N" \in S THEN "N" ELSE "F"
Not3(t) == CASE t = "T" -> "F" [] t = "F" -> "T" [] t = "N" -> "N"
Bool3(b) == IF b THEN "T" ELSE "F"

\* A condition compares the row's value; only the checks for NULL say something of NULL.
parse_condition(c, row) ==
  CASE c.op = "is_null" -> Bool3(row[c.field] = Null)
    [] c.op # "is_null" /\ row[c.field] = Null -> "N"
    [] c.op = "in" /\ row[c.field] # Null -> Bool3(row[c.field] \in c.value)
    [] c.op = "!=" /\ row[c.field] # Null -> Bool3(row[c.field] \notin c.value)

\* The trees within a tree.
Parts(tree) ==
  IF tree = <<>> \/ tree[1] = "is" THEN {} ELSE IF tree[1] = "not" THEN {tree[2]} ELSE tree[2]
Subtrees(tree) ==
  LET level[n \in 0..Depth] == IF n = 0 THEN {tree} ELSE UNION {Parts(t) : t \in level[n - 1]}
  IN  UNION {level[n] : n \in 0..Depth}

\* value[n]: of the trees that are not deeper than n.  Without parts there is no criterion, for
\* "or" as for "and".
build_nested_criteria(tree, row) ==
  LET trees == Subtrees(tree)
      value[n \in 0..Depth] ==
        [t \in trees |->
           LET below(p) == IF n = 0 THEN "N" ELSE value[n - 1][p]
           IN  CASE t[1] = "is"  -> parse_condition(t[2], row)
                 [] t[1] = "not" -> Not3(below(t[2]))
                 [] t[1] = "or"  -> IF t[2] = {} THEN "T" ELSE Or3({below(p) : p \in t[2]})
                 [] t[1] \in {"and", "list"} -> And3({below(p) : p \in t[2]})]
  IN  value[Depth][tree]

----------------------------------------------------------------------------
\* What is added and taken away before

\* Mutant: the condition is added to any parts.
AppendToParts(tree, c) ==
  CASE tree = <<>> -> <<"is", c>>
    [] tree # <<>> /\ tree[1] \in {"and", "or", "list"} -> <<tree[1], tree[2] \cup {<<"is", c>>}>>
    [] tree # <<>> /\ tree[1] \notin {"and", "or", "list"} -> <<"and", {tree, <<"is", c>>}>>

append_and_filter(tree, c) ==
  CASE tree = <<>> -> <<"is", c>>
    [] tree # <<>> /\ tree[1] \in {"and", "list"} -> <<"and", tree[2] \cup {<<"is", c>>}>>
    [] tree # <<>> /\ tree[1] \notin {"and", "list"} -> <<"and", {tree, <<"is", c>>}>>

IsOwner(tree) == tree[1] = "is" /\ tree[2].field = "owner_id"

\* Conditions on the owner at the root, or right under it, are dropped.
_strip_owner_id_filters(tree) ==
  IF tree[1] \in {"and", "or"}
  THEN LET kept == {t \in tree[2] : ~IsOwner(t)} IN IF kept = {} THEN <<>> ELSE <<tree[1], kept>>
  ELSE IF IsOwner(tree) THEN <<>> ELSE tree

\* access: the reader's own rows, those shared with the reader.
add_private_owner_filter(tree, access) ==
  LET cleaned == _strip_owner_id_filters(tree)
  IN  <<"and", {<<"or", access>>} \cup IF cleaned = <<>> THEN {} ELSE {cleaned}>>

IsComputed(tree) == tree[1] = "is" /\ tree[2].field \in Computed

\* The tree without conditions on computed fields, <<>> when nothing is left; "not" is not looked
\* into.
Physical(tree) ==
  LET trees == Subtrees(tree)
      kept[n \in 0..Depth] ==
        [t \in trees |->
           IF n > 0 /\ t[1] \in {"and", "or", "list"}
           THEN LET parts == {kept[n - 1][p] : p \in t[2]} \ {<<>>}
                    alone == {p \in parts : t[1] # "list" /\ parts = {p}}
                IN  IF parts = {} THEN <<>> ELSE IF alone # {} THEN CHOOSE p \in alone : TRUE ELSE <<t[1], parts>>
           ELSE IF IsComputed(t) THEN <<>> ELSE t]
  IN  kept[Depth][tree]

\* The conditions taken out: each must hold for itself (apply_computed_filters).
ComputedIn(tree) ==
  LET trees == Subtrees(tree)
      taken[n \in 0..Depth] ==
        [t \in trees |->
           IF n > 0 /\ t[1] \in {"and", "or", "list"} THEN UNION {taken[n - 1][p] : p \in t[2]}
           ELSE IF IsComputed(t) THEN {t[2]} ELSE {}]
  IN  taken[Depth][tree]

\* _matches: Python's comparison, where None differs from every value; a column that is not among
\* those seen is not in the record.
_matches(c, row, seen) ==
  LET value == IF c.field \in seen THEN row[c.field] ELSE Null
  IN  CASE c.op = "is_null" -> value = Null
        [] c.op = "in"      -> value \in c.value
        [] c.op = "!="      -> value \notin c.value

----------------------------------------------------------------------------
\* Reference: what a logic means, split at its last operator that binds least

Meaning(ts, filters, row) ==
  LET mean[i \in 1..Len(ts), j \in 1..Len(ts)] ==
        LET top(op)   == {k \in i..j : ts[k] = op /\ Opens(SubSeq(ts, i, k)) = 0}
            split(op) == LET k == Max(top(op)) IN {mean[i, k - 1], mean[k + 1, j]}
        IN  CASE top("OR") # {} -> Or3(split("OR"))
              [] top("OR") = {} /\ top("AND") # {} -> And3(split("AND"))
              [] OTHER ->
                   CASE ts[i] = "NOT" -> Not3(mean[i + 1, j])
                     [] ts[i] = "("   -> mean[i + 1, j - 1]
                     [] OTHER         -> parse_condition(filters[Number[ts[i]]], row)
  IN  mean[1, Len(ts)]

----------------------------------------------------------------------------
\* The view

ListViewsAssumption ==
  /\ Admin \subseteq Reader /\ Shared \in [Reader -> SUBSET {r["id"] : r \in Rows}]
  /\ Logic \subseteq Seq(Token)
  /\ Depth \in Nat /\ Depth >= 4 /\ \A ts \in Logic : Len(ts) + 4 <= Depth
  /\ Computed \cap {"id", "owner_id", "is_deleted"} = {}
  /\ \A s \in Search : s # <<>> => \A i \in DOMAIN s[1] : s[1][i].field \in Column

VARIABLES
  view,              \* the stored view
  shown              \* what the last reader was shown

vars == <<view, shown>>

Nothing == [reader |-> NoView, search |-> <<>>, seen |-> {}, failed |-> FALSE, rows |-> {}]

\* "whole": filters and logic were checked against each other.
View == [filters : FilterList, logic : Logic \cup {<<>>}, whole : BOOLEAN]

TypeOK ==
  /\ view \in View \cup {NoView}
  /\ shown.rows \subseteq Rows /\ shown.reader \in Reader \cup {NoView}

Init == view = NoView /\ shown = Nothing

\* The requests that pass: no logic, or one that fits the filters.
Accepted(filters, logic) == logic = <<>> \/ validate_filter_logic(logic, filters)

\* POST of a list view.
Create(filters, logic) ==
  /\ view = NoView /\ Accepted(filters, logic)
  /\ view' = [filters |-> filters, logic |-> logic, whole |-> TRUE]
  /\ UNCHANGED shown

\* PATCH of filters and logic, of filters alone: the logic stays, and of logic alone: it is
\* checked against no filters, so that only an empty one is accepted.
Patch(filters, logic) ==
  /\ view # NoView /\ Accepted(filters, logic)
  /\ view' = [filters |-> filters, logic |-> logic, whole |-> TRUE] /\ shown' = Nothing

PatchFilters(filters) ==
  /\ view # NoView
  /\ view' = [view EXCEPT !.filters = filters, !.whole = view.logic = <<>>] /\ shown' = Nothing

ClearLogic ==
  /\ view # NoView
  /\ view' = [view EXCEPT !.logic = <<>>, !.whole = TRUE] /\ shown' = Nothing

Is(field, S) == [field |-> field, op |-> "in", value |-> S]

\* The view's own tree: a list unless there is logic.
ViewTree ==
  IF view.filters = <<>> THEN Parsed(<<>>, 1)
  ELSE IF view.logic # <<>> THEN parse_filter_logic(view.logic, view.filters)
  ELSE Parsed(<<"list", {<<"is", c>> : c \in Range(view.filters)}>>, 1)

WithSearch(tree, search) ==
  LET found == <<"or", {<<"is", c>> : c \in Range(search[1])}>>
  IN  CASE search = <<>>                -> tree
        [] search # <<>> /\ tree = <<>> -> found
        [] search # <<>> /\ tree # <<>> -> <<"and", {tree, found}>>

Access(reader) ==
  {<<"is", Is("owner_id", {reader})>>}
    \cup IF Shared[reader] = {} THEN {} ELSE {<<"is", Is("id", Shared[reader])>>}

\* process_filters asks for the type of each filter's column; a formula has none and raises.
Untyped == \E i \in DOMAIN view.filters : view.filters[i].field \notin Column

\* GetListviews: a view whose logic cannot be read, or that has a filter without a column, is an
\* error.  seen: the columns with a formula's name that the reader asks to see.
Show(reader, search, seen) ==
  LET parsed  == ViewTree
      present == append_and_filter(WithSearch(parsed.tree, search), Is("is_deleted", {"no"}))
      allowed == IF reader \in Admin THEN present ELSE add_private_owner_filter(present, Access(reader))
      where   == Physical(allowed)
      failed  == Untyped \/ ~parsed.ok
  IN  /\ view # NoView
      /\ search # <<>> => \A c \in Range(search[1]) : c.field \in Computed => c.field \in seen
      /\ shown' = [reader |-> reader, search |-> search, seen |-> seen, failed |-> failed,
                   rows |-> IF failed THEN {} ELSE
                     {r \in Rows : /\ where = <<>> \/ build_nested_criteria(where, r) = "T"
                                   /\ \A c \in ComputedIn(allowed) : _matches(c, r, seen)}]
      /\ UNCHANGED view

Next ==
  \/ \E filters \in FilterList, logic \in Logic \cup {<<>>} : Create(filters, logic) \/ Patch(filters, logic)
  \/ \E filters \in FilterList : PatchFilters(filters)
  \/ ClearLogic
  \/ \E reader \in Reader, search \in Search, seen \in SUBSET (Computed \cap Column) :
       Show(reader, search, seen)

----------------------------------------------------------------------------
\* Properties

MaySee(reader, r) ==
  r["is_deleted"] = "no" /\ (reader \in Admin \/ r["owner_id"] = reader \/ r["id"] \in Shared[reader])

\* Whatever the logic, also one that no longer fits its filters, and whatever is searched:
\* nobody is shown a deleted row, and a reader who is no administrator only rows that are
\* the reader's own or shared with the reader.
NobodySeesMore == shown.reader # NoView => \A r \in shown.rows : MaySee(shown.reader, r)

\* The filters say nothing of owners, and a column with the name of a formula, which Python tests,
\* is seen and neither an alternative nor denied: elsewhere the view shows less or more than it says.
Plain ==
  \A i \in DOMAIN view.filters :
    /\ view.filters[i].field # "owner_id"
    /\ view.filters[i].field \in Computed =>
         /\ view.filters[i].field \in shown.seen /\ view.filters[i].op # "!="
         /\ \A j \in DOMAIN view.logic : view.logic[j] \notin {"OR", "NOT"}

Means(r) ==
  IF view.logic # <<>> /\ view.filters # <<>> THEN Meaning(view.logic, view.filters, r)
  ELSE And3({parse_condition(view.filters[i], r) : i \in DOMAIN view.filters})

\* A view whose filters and logic were checked together fails if it filters on a formula, and
\* otherwise shows what its logic means: of the rows that the reader may see, those for which it
\* is true.
ViewsShowTheirMeaning ==
  view # NoView /\ view.whole /\ shown.reader # NoView /\ shown.search = <<>> =>
    /\ shown.failed <=> \E i \in DOMAIN view.filters : view.filters[i].field \notin Column
    /\ ~shown.failed /\ Plain => shown.rows = {r \in Rows : MaySee(shown.reader, r) /\ Means(r) = "T"}
=============================================================================
