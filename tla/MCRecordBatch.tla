--------------------------- MODULE MCRecordBatch ---------------------------
(* RecordBatch with two stored leads, three ids for new ones and short batches. *)
EXTENDS RecordBatch, TLC

CONSTANTS r1, r2, n1, n2, n3, a, b

RowSet  == {r1, r2, n1, n2, n3}
DataSet == {a, b}

Lead(x, y) == ("name" :> x) @@ ("contact" :> y)
Rec(r, x, y, fate) == [row |-> r, doc |-> Lead(x, y), fate |-> fate]

StartSet == {[r \in RowSet |-> CASE r = r1 -> Lead(a, a) [] r = r2 -> Lead(b, b) [] OTHER -> Absent]}

Edits == {
  <<Rec(r1, Keep, b, "good"), Rec(r2, Keep, a, "good")>>,
  <<Rec(r2, b, Keep, "good"), Rec(r1, Keep, a, "good")>>,
  <<Rec(r2, a, Keep, "refused"), Rec(r1, b, Keep, "good")>>,
  <<Rec(r1, b, Keep, "good"), Rec(r1, Keep, b, "invalid")>>,
  <<Rec(n3, a, b, "good")>>}

Imports == {
  <<Rec(n1, a, b, "good"), Rec(n2, a, b, "good")>>,
  <<Rec(n1, a, b, "good"), Rec(n2, b, a, "refused")>>,
  <<Rec(n1, b, a, "invalid"), Rec(n2, b, a, "good"), Rec(n3, a, a, "good")>>}

Creates == {
  <<Rec(n3, a, b, "good")>>,
  <<Rec(n1, b, a, "good"), Rec(n2, b, b, "good")>>,
  <<Rec(n1, b, a, "good"), Rec(n2, a, b, "refused")>>}

PlanSet == {[kind |-> "edit", items |-> s] : s \in Edits}
      \cup {[kind |-> "import", items |-> s] : s \in Imports}
      \cup {[kind |-> "create", items |-> s] : s \in Creates}

RequestSymmetry == Permutations(Request)
=============================================================================
