------------------------------- MODULE Pivot -------------------------------
(***************************************************************************)
(* The workbook of a grouped report (export_pivot_to_excel in              *)
(* data_export/views.py): one row per combination of row groups, one       *)
(* column per combination of column groups, subtotals that are flushed     *)
(* when a group ends, and a grand total.  The groups come in the order in  *)
(* which SQL returned them, and no ORDER BY keeps those of one outer group *)
(* together.                                                               *)
(***************************************************************************)
EXTENDS Integers, Sequences, FiniteSets, SequencesExt

CONSTANTS
  Null,
  Key,            \* values of a group
  Levels,         \* how many row groups
  Column,         \* combinations of column groups
  Tables,         \* results of the GROUP BY, as sequences of cells
  MaxColumns      \* what is left of EXCEL_MAX_COLS for combinations of columns

Cell == [row : [1..Levels -> Key], col : Column, value : Int \cup {Null}]

PivotAssumption ==
  /\ Levels \in Nat \ {0} /\ MaxColumns \in Nat \ {0} /\ Null \notin Int
  /\ \A t \in Tables : \A i \in DOMAIN t : t[i] \in Cell

VARIABLES records, agg, at, open, totals, subtotals, total, pc

vars == <<records, agg, at, open, totals, subtotals, total, pc>>

Aggregates == {"sum", "min", "max", "count"}

----------------------------------------------------------------------------

\* The distinct keys of the records, in the order they are first met.
Combos(key(_)) ==
  LET first(i) == \A j \in 1..(i - 1) : key(records[j]) # key(records[i])
      at_ == SelectSeq([i \in 1..Len(records) |-> i], first)
  IN  [k \in 1..Len(at_) |-> key(records[at_[k]])]

RowCombos == Combos(LAMBDA c : c.row)

\* The first columns, as many as a sheet has room for.
ColCombos == LET all == Combos(LAMBDA c : c.col) IN
             SubSeq(all, 1, IF Len(all) > MaxColumns THEN MaxColumns ELSE Len(all))

Shown == Range(ColCombos)

Prefix(row, lvl) == SubSeq(row, 1, lvl)

\* The value of a cell: of the first record with that row and column.
CellValue(row, col) ==
  LET mine == SelectSeq(records, LAMBDA c : c.row = row /\ c.col = col)
  IN  IF mine = <<>> THEN Null ELSE mine[1].value

Sum(s) == FoldSeq(LAMBDA x, y : x + y, 0, s)
Best(s, Better(_, _)) == CHOOSE x \in Range(s) : \A y \in Range(s) : x = y \/ Better(x, y)

\* Counts are counted, not added: of a group's rows, not of the records behind them.
Aggregate(s) ==
  CASE s = <<>>                    -> Null
    [] s # <<>> /\ agg = "sum"     -> Sum(s)
    [] s # <<>> /\ agg = "min"     -> Best(s, LAMBDA x, y : x < y)
    [] s # <<>> /\ agg = "max"     -> Best(s, LAMBDA x, y : x > y)
    [] s # <<>> /\ agg = "count"   -> Len(s)

Groups == {Prefix(c.row, lvl) : c \in Range(records), lvl \in 1..(Levels - 1)}
Slots    == Groups \X Shown

TypeOK ==
  /\ records \in Tables \cup {<<>>}
  /\ agg \in Aggregates
  /\ at \in 1..(Len(RowCombos) + 1)
  /\ open \in [Slots -> Seq(Int)]
  /\ totals \in [Shown -> Seq(Int)]
  /\ \A i \in DOMAIN subtotals : subtotals[i].of \in Groups /\ subtotals[i].col \in Shown
  /\ total \in [Shown -> Int \cup {Null}]
  /\ pc \in {"start", "rows", "done"}

Init ==
  /\ records = <<>> /\ agg = "sum" /\ at = 1
  /\ open = [k \in {} |-> <<>>] /\ totals = [c \in {} |-> <<>>] /\ subtotals = <<>>
  /\ total = [c \in {} |-> Null]
  /\ pc = "start"

Begin(t, a) ==
  /\ pc = "start" /\ pc' = "rows"
  /\ records' = t /\ agg' = a
  /\ open' = [k \in Slots' |-> <<>>]
  /\ totals' = [c \in Shown' |-> <<>>]
  /\ total' = [c \in Shown' |-> Null]
  /\ UNCHANGED <<at, subtotals>>

\* The prefixes that end with row i: the next row has another.
Ends(i, lvl) ==
  \/ i = Len(RowCombos)
  \/ Prefix(RowCombos[i + 1], lvl) # Prefix(RowCombos[i], lvl)

\* The values a row adds to a bucket.
Added(row, col) == IF CellValue(row, col) = Null THEN <<>> ELSE <<CellValue(row, col)>>

\* The subtotals flushed after row i, inner groups first.
Flushed(i, buckets) ==
  LET lvls == SelectSeq([k \in 1..(Levels - 1) |-> Levels - k], LAMBDA lvl : Ends(i, lvl))
      line(lvl) == [j \in 1..Len(ColCombos) |->
                      [of |-> Prefix(RowCombos[i], lvl), col |-> ColCombos[j],
                       value |-> Aggregate(buckets[Prefix(RowCombos[i], lvl), ColCombos[j]])]]
  IN  FlattenSeq([k \in 1..Len(lvls) |-> line(lvls[k])])

\* Mutant: a flushed bucket is read and not emptied.
Kept(i, k) == FALSE

\* Whether the bucket k is emptied after row i.
Popped(i, k) == Ends(i, Len(k[1])) /\ k[1] = Prefix(RowCombos[i], Len(k[1]))

WriteRow ==
  /\ pc = "rows" /\ at <= Len(RowCombos)
  /\ LET row == RowCombos[at]
         filled == [k \in DOMAIN open |-> IF k[1] = Prefix(row, Len(k[1]))
                                          THEN open[k] \o Added(row, k[2]) ELSE open[k]]
     IN  /\ subtotals' = subtotals \o Flushed(at, filled)
         /\ open' = [k \in DOMAIN open |-> IF Popped(at, k) THEN <<>> ELSE filled[k]]
         /\ totals' = [c \in Shown |-> totals[c] \o Added(row, c)]
  /\ at' = at + 1
  /\ UNCHANGED <<records, agg, total, pc>>

WriteTotal ==
  /\ pc = "rows" /\ at > Len(RowCombos) /\ pc' = "done"
  /\ total' = [c \in Shown |-> Aggregate(totals[c])]
  /\ UNCHANGED <<records, agg, at, open, totals, subtotals>>

Next == (\E t \in Tables, a \in Aggregates : Begin(t, a)) \/ WriteRow \/ WriteTotal

----------------------------------------------------------------------------
\* Properties

Values(of, col) ==
  LET rows == SelectSeq(RowCombos, LAMBDA r : Prefix(r, Len(of)) = of)
  IN  FlattenSeq([k \in 1..Len(rows) |-> Added(rows[k], col)])

\* The subtotals of a group, over all the places where the sheet has one, make up the group,
\* and those of the outermost groups make up the grand total, in whatever order the groups
\* came: a group whose rows are not together has several subtotals, and no value is in two
\* of them or in none.
SubtotalsMakeUpGroups ==
  pc = "done" /\ agg \in {"sum", "count"} =>
    \A c \in Shown :
      LET known(s) == SelectSeq(s, LAMBDA x : x # Null)
          subs(of) == SelectSeq(subtotals, LAMBDA x : x.of = of /\ x.col = c /\ x.value # Null)
          made(of) == Sum([k \in 1..Len(subs(of)) |-> subs(of)[k].value])
          outer    == SetToSeq({p \in Groups : Len(p) = 1})
      IN  /\ \A p \in Groups : made(p) = IF agg = "sum" THEN Sum(Values(p, c)) ELSE Len(Values(p, c))
          /\ Levels > 1 => Sum(known(<<total[c]>>)) = Sum([k \in 1..Len(outer) |-> made(outer[k])])
=============================================================================
