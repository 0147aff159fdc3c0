---------------------------- MODULE ComputedFields ----------------------------
(***************************************************************************)
(* What the formula and roll-up fields of fetched records are worth        *)
(* (process_computed_fields_for_report, apply_computed_fields_to_records,  *)
(* process_formula).  The columns that the requested formulas rest on are  *)
(* fetched with the others.  Formulas may use one another: they are tried  *)
(* in the order in which the table of fields is read, round after round,   *)
(* and a formula that fails is tried again.                                *)
(***************************************************************************)
EXTENDS Integers, FiniteSets, Sequences, SequencesExt

CONSTANTS
  Column,            \* columns of the object
  Computed,          \* formula and roll-up fields of the object
  Elsewhere,         \* columns with the name of a computed field of some other object
  Meaning,           \* definitions: of each computed field, its form and what it uses
  Values,            \* the columns of the records of a case
  Rollup,            \* the value that a roll-up field has for every record
  Null, Text,        \* a missing value; any text
  ROUNDS             \* 5 in the code

\* Forms of formulas: an expression a + b; a function of a value, BLANKVALUE(a, 0); a function
\* inside an expression, SUM(a, b) + 1; and a roll-up, whose value is read.
Form == {"sum", "orzero", "mixed", "rollup"}

FieldsAssumption ==
  /\ Column \cap Computed = {} /\ Elsewhere \subseteq Column /\ Null # Text /\ ROUNDS \in Nat
  /\ \A m \in Meaning : m \in [Computed -> [form : Form, uses : SUBSET (Column \cup Computed)]]
  /\ \A v \in Values : v \in Seq([Column -> Nat \cup {Null}])

VARIABLES
  meaning, order,    \* the definitions, and the order in which they are read
  wanted,            \* the requested computed fields, in the order of the request
  total,             \* the field whose total over the records is asked for
  batch,             \* whether the roll-ups of all records could be read at once
  asked,             \* whether the columns of Elsewhere are requested too
  rows, records,     \* the rows of the table; the records being filled: functions on the fields known
  at

vars == <<meaning, order, wanted, total, batch, asked, rows, records, at>>
input == <<meaning, order, wanted, total, batch, asked, rows>>

Number == Nat
Value == Number \cup {Null, Text}

TypeOK ==
  /\ at \in {"begun", "read", "prefilled", "resolved", "filled", "done", "failed"}
  /\ \A i \in DOMAIN records :
       /\ DOMAIN records[i] \subseteq Column \cup Computed
       /\ \A f \in DOMAIN records[i] : records[i][f] \in Value

Init ==
  /\ meaning \in Meaning /\ order \in SetToSeqs(Computed)
  /\ wanted \in UNION {SetToSeqs(S) : S \in SUBSET Computed} /\ Len(wanted) \in 1..2
  /\ total \in Computed /\ batch \in BOOLEAN /\ asked \in BOOLEAN
  /\ rows \in Values /\ records = rows /\ at = "begun"

----------------------------------------------------------------------------
\* process_computed_fields_for_report

Requested == ToSet(wanted) \cup {total}

\* Mutant: what the requested formulas name themselves.
OwnDeps == (UNION {meaning[f].uses : f \in Requested}) \cap Column

\* _extract_deps: what the requested formulas name, and the formulas among it, and so on; a
\* column is left out that has the name of a computed field of any object.
extra_deps ==
  LET named[n \in 0..Cardinality(Computed)] ==
        IF n = 0 THEN Requested ELSE named[n - 1] \cup UNION {meaning[f].uses : f \in named[n - 1] \cap Computed}
  IN  (named[Cardinality(Computed)] \cap Column) \ Elsewhere

Fetch ==
  /\ at = "begun" /\ at' = "read"
  /\ records' = [i \in DOMAIN rows |-> [c \in extra_deps \cup (IF asked THEN Elsewhere ELSE {}) |-> rows[i][c]]]
  /\ UNCHANGED input

----------------------------------------------------------------------------
\* process_formula

Put(rec, f, v) == [x \in DOMAIN rec \cup {f} |-> IF x = f THEN v ELSE rec[x]]
Known(rec, f) == IF f \in DOMAIN rec THEN rec[f] # Null ELSE FALSE
Add(rec, S) == FoldLeft(LAMBDA n, f : n + rec[f], 0, SetToSeq(S))

\* safe_evaluate: a name that the record lacks, None, and text among numbers fail; texts are
\* put together.
Sum(rec, uses) ==
  CASE \E f \in uses : ~Known(rec, f)       -> Null
    [] \A f \in uses : rec[f] = Text        -> IF uses = {} THEN 0 ELSE Text
    [] \E f \in uses : rec[f] = Text        -> Null
    [] OTHER                                -> Add(rec, uses)

\* get_value: what is no field of the record is taken as a text.  A function inside an
\* expression is replaced by its value as text, and the text is what the formula is worth.
\* Null stands for a formula that fails.
process_formula(rec, m) ==
  CASE m.form = "sum"    -> Sum(rec, m.uses)
    [] m.form = "mixed"  -> IF Sum(rec, m.uses) \in {Null, Text} THEN Null ELSE Text
    [] m.form = "orzero" -> LET f == CHOOSE g \in m.uses : TRUE
                            IN  IF f \notin DOMAIN rec THEN Text ELSE IF rec[f] = Null THEN 0 ELSE rec[f]
    [] m.form = "rollup" -> Rollup

----------------------------------------------------------------------------
\* apply_computed_fields_to_records

Rollups == {f \in Computed : meaning[f].form = "rollup"}

\* The roll-ups of all records, if that query does not fail.
Prefill ==
  /\ at = "read" /\ at' = "prefilled"
  /\ records' = [i \in DOMAIN records |->
       IF batch THEN FoldLeft(LAMBDA rec, f : Put(rec, f, Rollup), records[i], SetToSeq(Rollups)) ELSE records[i]]
  /\ UNCHANGED input

Round(rec) ==
  FoldLeft(LAMBDA r, f : LET v == process_formula(r, meaning[f])
                         IN  IF Known(r, f) \/ v = Null THEN r ELSE Put(r, f, v), rec, order)

\* Mutant: one round in the order in which the fields are read.
OneRound ==
  /\ at = "prefilled" /\ at' = "resolved"
  /\ records' = [i \in DOMAIN records |-> Round(records[i])] /\ UNCHANGED input

\* _resolve_formula_deps: rounds until nothing changes.
ResolveDeps ==
  /\ at = "prefilled" /\ at' = "resolved"
  /\ records' = [i \in DOMAIN records |->
       LET after[n \in 0..ROUNDS] == IF n = 0 THEN records[i] ELSE Round(after[n - 1]) IN after[ROUNDS]]
  /\ UNCHANGED input

\* The requested fields: formulas are worked out anew, and what fails is None.
FillPlain ==
  /\ at = "resolved" /\ at' = "filled"
  /\ records' = [i \in DOMAIN records |->
       FoldLeft(LAMBDA r, f : IF f \in Rollups /\ Known(r, f) THEN r ELSE Put(r, f, process_formula(r, meaning[f])),
                records[i], wanted)]
  /\ UNCHANGED input

\* What each record gives to a total: 0 where the formula fails.
Raw == [i \in DOMAIN records |-> LET v == process_formula(records[i], meaning[total]) IN IF v = Null THEN 0 ELSE v]
SumOf(numbers) == FoldLeft(LAMBDA n, v : n + v, 0, numbers)
Total == SumOf(Raw)

\* A text among the values fails the whole request.
FillTotal ==
  /\ at = "filled" /\ at' = IF Text \in Range(Raw) THEN "failed" ELSE "done"
  /\ UNCHANGED <<input, records>>

Next == Fetch \/ Prefill \/ ResolveDeps \/ FillPlain \/ FillTotal

----------------------------------------------------------------------------
\* Properties

\* The value of a field, worked out after everything that it uses: worth[n] knows the fields
\* that rest on n levels of others.
Worth(i) ==
  LET worth[n \in 0..Cardinality(Computed)] ==
        IF n = 0 THEN rows[i]
        ELSE LET old == worth[n - 1]
                 new == {f \in Computed \ DOMAIN old : meaning[f].uses \subseteq DOMAIN old}
             IN  [f \in DOMAIN old \cup new |-> IF f \in DOMAIN old THEN old[f] ELSE process_formula(old, meaning[f])]
  IN  worth[Cardinality(Computed)]

\* The fields that a field rests on, itself included.
RestsOn(f) ==
  LET on[n \in 0..Cardinality(Computed)] ==
        IF n = 0 THEN {f} ELSE on[n - 1] \cup UNION {meaning[g].uses \cap Computed : g \in on[n - 1]}
  IN  on[Cardinality(Computed)]

\* Not more fields below one another than the rounds and the last pass can fill.
InReach(f) == Cardinality(RestsOn(f)) <= ROUNDS + 1 /\ \A i \in DOMAIN records : f \in DOMAIN Worth(i)
Plain(f) ==
  /\ InReach(f)
  /\ \A g \in RestsOn(f) : meaning[g].form \in {"sum", "rollup"} /\ (asked \/ meaning[g].uses \cap Elsewhere = {})

\* In whatever order the fields are read and requested, and however the roll-ups are read, a
\* field made of expressions and roll-ups is shown with the value it has when everything it
\* rests on is worked out first, and the total over the records is that of these values; only a
\* column named like a computed field of another object must have been requested itself.
ChainsResolve ==
  at = "done" =>
    /\ \A i \in DOMAIN records : \A f \in ToSet(wanted) : Plain(f) => records[i][f] = Worth(i)[f]
    /\ Plain(total) =>
         Total = SumOf([i \in DOMAIN records |-> IF Worth(i)[total] = Null THEN 0 ELSE Worth(i)[total]])
=============================================================================
