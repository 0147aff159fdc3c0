------------------------- MODULE RecordBatchProofs -------------------------
(* Theorems about RecordBatch, for any batches of any requests.            *)
EXTENDS RecordBatch, TLAPS

\* A request that has not begun its work has nothing to show.
Untried(q) ==
  work[q] = AllClean /\ done[q] = {} /\ failed[q] = {} /\ pending[q] = {} /\ ~aborted[q]

\* What a request is at fits what it was asked.
Staged(q) ==
  /\ pc[q] = "idle" => plan[q] = NoPlan /\ pos[q] = 1 /\ Untried(q)
  /\ pc[q] # "idle" => plan[q] \in Plans
  /\ pc[q] \in {"lock", "fetch", "edit"} => plan[q].kind = "edit"
  /\ pc[q] \in {"sort", "fast", "slow", "log"} => plan[q].kind = "import"
  /\ pc[q] \in {"create", "refuse"} => plan[q].kind = "create"
  /\ pc[q] = "commit" => plan[q].kind # "create"
  /\ pc[q] = "lock" => isObject
  /\ pc[q] = "fetch" => ~isObject
  /\ pc[q] \in {"lock", "fetch", "sort"} => Untried(q)
  /\ pc[q] = "sort" => pos[q] = 1

\* The report has each record that has been tried, once.
Accounted(q) ==
  /\ done[q] \cap failed[q] = {}
  /\ pc[q] \in {"edit", "create", "slow"} => pos[q] <= Len(Items(q)) + 1
  /\ pc[q] = "edit" => done[q] \cup failed[q] = 1..(pos[q] - 1)
  /\ pc[q] = "create" => done[q] = 1..(pos[q] - 1) /\ failed[q] = {}
  /\ pc[q] = "fast" =>
       pos[q] = 1 /\ work[q] = AllClean /\ done[q] = {} /\ failed[q] = DOMAIN Items(q) \ todo[q]
  /\ pc[q] \in {"fast", "slow"} => todo[q] \subseteq DOMAIN Items(q)
  /\ pc[q] = "slow" => done[q] \cup failed[q] = {i \in DOMAIN Items(q) : i \in todo[q] => i < pos[q]}
  /\ pc[q] \in {"log", "commit"} => done[q] \cup failed[q] = DOMAIN Items(q)
  /\ q \in Active => done[q] \subseteq DOMAIN Items(q)

Mine(q, r) == lock[r] = q /\ table[r] # Absent

\* An edit of an object's records holds their rows, knows what is in them, and has
\* noted what it has replaced.
Held(q) ==
  /\ pc[q] = "lock" => \A i \in DOMAIN Items(q) : i < pos[q] => Mine(q, Items(q)[i].row)
  /\ pc[q] \in {"edit", "commit"} /\ plan[q].kind = "edit" /\ isObject =>
       /\ \A i \in DOMAIN Items(q) : Mine(q, Items(q)[i].row) /\ before[q][Items(q)[i].row] = table[Items(q)[i].row]
       /\ \A i \in done[q] : Changes(Items(q)[i].row, table[Items(q)[i].row], Items(q)[i].doc) \subseteq pending[q]

\* A row is changed for a record that the report has, and an edit holds it; a row
\* that is there is changed for every such record.
Worked(q) ==
  q \in Active =>
    /\ \A r \in Row : work[q][r] # Clean =>
         /\ \E i \in done[q] : Items(q)[i].row = r
         /\ plan[q].kind = "edit" => Mine(q, r)
    /\ \A i \in done[q] : table[Items(q)[i].row] # Absent => work[q][Items(q)[i].row] # Clean

\* Stored, as far as the transaction has come.
SoFar(q) ==
  q \in Active => \A r \in Row : \A f \in Field :
    IF Told(q, r, f) = {}
    THEN View(q, r) = table[r] \/ (View(q, r) # Absent /\ table[r] # Absent /\ View(q, r)[f] = table[r][f])
    ELSE \/ /\ View(q, r) # Absent
            /\ \E i \in Told(q, r, f) : (\A j \in Told(q, r, f) : j <= i) /\ View(q, r)[f] = Items(q)[i].doc[f]
         \/ ~isObject /\ table[r] = Absent

\* Two rows that request q sees alike were alike before, if it is alone.
NoNewTwins(q) ==
  q \in Active /\ isObject /\ ~overlapped[q] /\ OnceEach(q) =>
    /\ \A r, s \in Row : r # s /\ View(q, r) = View(q, s) /\ View(q, r) # Absent => table[r] = table[s] /\ table[r] # Absent
    /\ pc[q] = "fast" =>
         /\ \A i \in todo[q] : ~Duplicate(q, Items(q)[i].row, Items(q)[i].doc)
         /\ \A i, j \in todo[q] : Items(q)[i].doc = Items(q)[j].doc => i = j

RequestInv(q) == Staged(q) /\ Accounted(q) /\ Held(q) /\ Worked(q) /\ SoFar(q) /\ NoNewTwins(q)

\* Requests that are under way at a time know it, and new records are nobody else's.
Apart ==
  \A q, o \in Active : q # o => overlapped[q] /\ (plan[q].kind # "edit" => RowsOf(plan[q]) \cap RowsOf(plan[o]) = {})

IInv == TypeOK /\ Apart /\ \A q \in Request : RequestInv(q)

-----------------------------------------------------------------------------
\* Lemmas about the operators the actions are built from.

\* What was asked is a batch of records.
LEMMA ItemTypes ==
  ASSUME TypeOK, NEW q \in Request, plan[q] \in Plans
  PROVE  /\ plan[q].kind \in {"edit", "import", "create"}
         /\ Len(Items(q)) \in Nat
         /\ DOMAIN Items(q) = 1..Len(Items(q))
         /\ \A i \in DOMAIN Items(q) :
              /\ Items(q)[i].row \in Row
              /\ Items(q)[i].doc \in Doc
              /\ Items(q)[i].fate \in {"good", "invalid", "refused"}
         /\ plan[q].kind # "edit" =>
              /\ \A i \in DOMAIN Items(q) : Items(q)[i].doc \in Value
              /\ \A i, j \in DOMAIN Items(q) : Items(q)[i].row = Items(q)[j].row => i = j
<1>1. plan[q] \in Plan
  BY BatchAssumption
<1>2. Items(q) \in Seq(Item)
  BY <1>1 DEF Plan, Items
<1>3. \A i \in DOMAIN Items(q) : Items(q)[i] \in Item
  BY <1>2
<1>4. QED
  BY <1>1, <1>2, <1>3, BatchAssumption DEF Plan, Item, Items

\* What a request sees of a row is a value, or nothing.
LEMMA ViewTypes ==
  ASSUME TypeOK, NEW q \in Request, NEW r \in Row
  PROVE  View(q, r) \in Value \cup {Absent}
BY DEF TypeOK, View

LEMMA MergeTypes ==
  ASSUME NEW v \in Value, NEW d \in Doc
  PROVE  Merge(v, d) \in Value
BY DEF Merge, Value, Doc

LEMMA ChangesTypes ==
  ASSUME NEW r \in Row, NEW v \in Value, NEW d \in Doc
  PROVE  Changes(r, v, d) \subseteq Entry
<1> SUFFICES ASSUME NEW f \in Field, d[f] # Keep
             PROVE  [row |-> r, field |-> f, old |-> v[f], new |-> d[f]] \in Entry
  BY DEF Changes
<1> QED
  BY DEF Entry, Value, Doc

-----------------------------------------------------------------------------
\* Types.

LEMMA TypeInit ==
  ASSUME Init
  PROVE  TypeOK
BY BatchAssumption DEF Init, TypeOK, AllClean

\* The transaction's end leaves every variable its type.
LEMMA TypeEnd ==
  ASSUME TypeOK, NEW q \in Request, NEW l \in {"done", "failed"}, End(q, l),
         table' \in [Row -> Value \cup {Absent}], history' \subseteq Entry
  PROVE  TypeOK'
<1>1. lock' \in [Row -> Request \cup {NoRequest}]
  BY DEF End, TypeOK
<1>2. pc' = [pc EXCEPT ![q] = l]
  BY DEF End, Goto
<1>3. QED
  BY <1>1, <1>2 DEF End, TypeOK, own

LEMMA TypeFail ==
  ASSUME TypeOK, NEW q \in Request, Fail(q)
  PROVE  TypeOK'
BY TypeEnd DEF Fail, TypeOK

LEMMA TypeCommit ==
  ASSUME TypeOK, NEW q \in Request, NEW l \in {"done", "failed"}, Commit(q), End(q, l)
  PROVE  TypeOK'
<1>1. table' \in [Row -> Value \cup {Absent}]
  BY ViewTypes DEF Commit, TypeOK
<1>2. history' \subseteq Entry
  BY DEF Commit, TypeOK
<1>3. QED
  BY <1>1, <1>2, TypeEnd

\* The record a request has come to.
LEMMA CurrentType ==
  ASSUME TypeOK, NEW q \in Request, plan[q] \in Plans, HasMore(q)
  PROVE  /\ pos[q] \in DOMAIN Items(q)
         /\ It(q) = Items(q)[pos[q]]
         /\ It(q).row \in Row
         /\ It(q).doc \in Doc
         /\ It(q).fate \in {"good", "invalid", "refused"}
         /\ plan[q].kind # "edit" => It(q).doc \in Value
<1>1. pos[q] \in Nat \ {0}
  BY DEF TypeOK
<1>2. pos[q] \in DOMAIN Items(q)
  BY <1>1, ItemTypes DEF HasMore
<1>3. QED
  BY <1>2, ItemTypes DEF It

\* A request under way knows what it was asked.
LEMMA AskedFor ==
  ASSUME IInv, NEW q \in Request, pc[q] # "idle"
  PROVE  TypeOK /\ plan[q] \in Plans
BY DEF IInv, RequestInv, Staged

LEMMA TypeSubmit ==
  ASSUME TypeOK, NEW q \in Request, Submit(q)
  PROVE  TypeOK'
<1>1. PICK p \in Plans :
        /\ plan' = [plan EXCEPT ![q] = p]
        /\ Goto(q, CASE p.kind = "edit"   -> IF isObject THEN "lock" ELSE "fetch"
                     [] p.kind = "import" -> "sort"
                     [] p.kind = "create" -> "create")
  BY DEF Submit
<1>2. p \in Plan
  BY BatchAssumption
<1>3. PICK l \in {"lock", "fetch", "sort", "create"} : pc' = [pc EXCEPT ![q] = l]
  BY <1>1, <1>2 DEF Goto, Plan
<1>4. plan' \in [Request -> Plan \cup {NoPlan}]
  BY <1>1, <1>2 DEF TypeOK
<1>5. overlapped' \in [Request -> BOOLEAN]
  BY DEF Submit, Active
<1>6. UNCHANGED <<isObject, table, history, lock, pos, own>>
  BY DEF Submit
<1>7. QED
  BY <1>3, <1>4, <1>5, <1>6 DEF TypeOK, own

LEMMA TypeLockTarget ==
  ASSUME IInv, NEW q \in Request, LockTarget(q)
  PROVE  TypeOK'
<1>1. TypeOK /\ plan[q] \in Plans
  BY AskedFor DEF LockTarget
<1>2. CASE Fail(q)
  BY <1>1, <1>2, TypeFail
<1>3. CASE ~Fail(q)
  <2>1. It(q).row \in Row
    BY <1>1, CurrentType DEF LockTarget
  <2>2. lock' = [lock EXCEPT ![It(q).row] = q] /\ pos' = [pos EXCEPT ![q] = @ + 1]
    BY <1>3 DEF LockTarget, Advance
  <2>3. UNCHANGED <<isObject, table, history, pc, plan, own, overlapped>>
    BY <1>3 DEF LockTarget
  <2>4. QED
    BY <1>1, <2>1, <2>2, <2>3 DEF TypeOK, own
<1>4. QED
  BY <1>2, <1>3

\* However the record a request has come to is reported, the report keeps its type.
LEMMA ReportTypes ==
  ASSUME TypeOK, NEW q \in Request, Succeed(q) \/ Reject(q) \/ (Advance(q) /\ UNCHANGED <<done, failed>>)
  PROVE  /\ done' \in [Request -> SUBSET Nat]
         /\ failed' \in [Request -> SUBSET Nat]
         /\ pos' \in [Request -> Nat \ {0}]
<1>1. pos[q] \in Nat \ {0} /\ pos[q] + 1 \in Nat \ {0} /\ done[q] \in SUBSET Nat /\ failed[q] \in SUBSET Nat
  BY DEF TypeOK
<1>2. pos' = [pos EXCEPT ![q] = @ + 1]
  BY DEF Succeed, Reject, Advance
<1>3. pos' \in [Request -> Nat \ {0}]
  BY <1>1, <1>2 DEF TypeOK
<1>4. CASE Succeed(q)
  BY <1>1, <1>3, <1>4 DEF Succeed, TypeOK
<1>5. CASE Reject(q)
  BY <1>1, <1>3, <1>5 DEF Reject, TypeOK
<1>6. CASE UNCHANGED <<done, failed>>
  BY <1>3, <1>6 DEF TypeOK
<1>7. QED
  BY <1>4, <1>5, <1>6

LEMMA TypeFetch ==
  ASSUME IInv, NEW q \in Request, Fetch(q)
  PROVE  TypeOK'
BY DEF IInv, TypeOK, Fetch, Goto

\* What an edit takes for the record's value is a value, or nothing.
LEMMA KnownTypes ==
  ASSUME TypeOK, NEW q \in Request, NEW r \in Row
  PROVE  Known(q, r) \in Value \cup {Absent}
BY ViewTypes DEF TypeOK, Known

LEMMA TypeRejectEdit ==
  ASSUME IInv, NEW q \in Request, RejectEdit(q)
  PROVE  TypeOK'
<1>1. TypeOK /\ plan[q] \in Plans
  BY AskedFor DEF RejectEdit
<1>2. It(q).row \in Row /\ Known(q, It(q).row) \in Value \cup {Absent} /\ pos[q] \in Nat \ {0}
  BY <1>1, CurrentType, KnownTypes DEF RejectEdit, TypeOK
<1>3. before' \in [Request -> [Row -> Value \cup {Absent}]]
  BY <1>1, <1>2 DEF RejectEdit, TypeOK
<1>4. failed' \in [Request -> SUBSET Nat] /\ pos' \in [Request -> Nat \ {0}]
  BY <1>1, ReportTypes DEF RejectEdit
<1>5. UNCHANGED <<isObject, table, history, lock, pc, plan, work, pending, todo, done, aborted, overlapped>>
  BY DEF RejectEdit, Reject
<1>6. QED
  BY <1>1, <1>3, <1>4, <1>5 DEF TypeOK

LEMMA WorkTypes ==
  ASSUME TypeOK, NEW q \in Request, NEW r \in Row, NEW v \in Value,
         work' = work \/ work' = [work EXCEPT ![q][r] = v]
  PROVE  work' \in [Request -> [Row -> Value \cup {Clean}]]
<1>1. work \in [Request -> [Row -> Value \cup {Clean}]]
  BY DEF TypeOK
<1>2. CASE work' = [work EXCEPT ![q][r] = v]
  BY <1>1, <1>2
<1>3. QED
  BY <1>1, <1>2

LEMMA TypeApplyEdit ==
  ASSUME IInv, NEW q \in Request, ApplyEdit(q)
  PROVE  TypeOK'
<1> DEFINE r == It(q).row
<1>1. TypeOK /\ plan[q] \in Plans
  BY AskedFor DEF ApplyEdit
<1>2. r \in Row /\ It(q).doc \in Doc /\ pos[q] \in Nat \ {0}
  BY <1>1, CurrentType DEF ApplyEdit, TypeOK
<1>3. Known(q, r) \in Value \cup {Absent} /\ View(q, r) \in Value \cup {Absent}
  BY <1>1, <1>2, KnownTypes, ViewTypes
<1>4. before' \in [Request -> [Row -> Value \cup {Absent}]]
  BY <1>1, <1>2, <1>3 DEF ApplyEdit, TypeOK
<1>5. pending' \in [Request -> SUBSET Entry]
  <2>1. (IF Known(q, r) = Absent THEN {} ELSE Changes(r, Known(q, r), It(q).doc)) \subseteq Entry
    BY <1>2, <1>3, ChangesTypes
  <2>2. pending' = [pending EXCEPT ![q] =
          @ \cup (IF Known(q, r) = Absent THEN {} ELSE Changes(r, Known(q, r), It(q).doc))]
    BY DEF ApplyEdit
  <2>3. QED
    BY <1>1, <2>1, <2>2 DEF TypeOK
<1>6. /\ done' \in [Request -> SUBSET Nat] /\ failed' \in [Request -> SUBSET Nat]
      /\ pos' \in [Request -> Nat \ {0}]
  BY <1>1, ReportTypes DEF ApplyEdit
<1>7. work' \in [Request -> [Row -> Value \cup {Clean}]] /\ lock' \in [Row -> Request \cup {NoRequest}]
  <2>1. CASE UNCHANGED <<work, lock>>
    BY <1>1, <2>1 DEF TypeOK
  <2>2. CASE /\ View(q, r) # Absent
             /\ work' = [work EXCEPT ![q][r] = Merge(View(q, r), It(q).doc)]
             /\ lock' = [lock EXCEPT ![r] = q]
    <3>1. Merge(View(q, r), It(q).doc) \in Value
      BY <1>2, <1>3, <2>2, MergeTypes
    <3>2. QED
      BY <1>1, <1>2, <2>2, <3>1 DEF TypeOK
  <2>3. QED
    BY <2>1, <2>2 DEF ApplyEdit
<1>8. UNCHANGED <<isObject, table, history, pc, plan, todo, aborted, overlapped>>
  BY DEF ApplyEdit
<1>9. QED
  BY <1>1, <1>4, <1>5, <1>6, <1>7, <1>8 DEF TypeOK

LEMMA TypeWriteLog ==
  ASSUME TypeOK, NEW q \in Request, WriteLog(q)
  PROVE  TypeOK'
BY DEF TypeOK, WriteLog, Goto

LEMMA TypeFlushHistory ==
  ASSUME TypeOK, NEW q \in Request, FlushHistory(q)
  PROVE  TypeOK'
<1>1. CASE WriteLog(q)
  BY <1>1, TypeWriteLog
<1>2. CASE ~WriteLog(q)
  BY <1>2 DEF TypeOK, FlushHistory, Goto, own
<1>3. QED
  BY <1>1, <1>2

LEMMA TypeSortImport ==
  ASSUME IInv, NEW q \in Request, SortImport(q)
  PROVE  TypeOK'
<1>1. TypeOK /\ plan[q] \in Plans
  BY AskedFor DEF SortImport
<1>2. Unfit(q) \subseteq DOMAIN Items(q) /\ DOMAIN Items(q) \subseteq Nat
  BY <1>1, ItemTypes DEF Unfit
<1>3. QED
  BY <1>1, <1>2 DEF TypeOK, SortImport, Goto

\* Records inserted into a view are in it, and nothing else is changed.
LEMMA WithRowsIs ==
  ASSUME TypeOK, NEW q \in Request, plan[q] \in Plans, plan[q].kind # "edit",
         NEW I \in SUBSET DOMAIN Items(q)
  PROVE  /\ WithRows(q, I) \in [Row -> Value \cup {Clean}]
         /\ \A i \in I : WithRows(q, I)[Items(q)[i].row] = Items(q)[i].doc
         /\ \A r \in Row : (\A i \in I : Items(q)[i].row # r) => WithRows(q, I)[r] = work[q][r]
<1>1. DOMAIN Items(q) \subseteq Nat \ {0}
  BY ItemTypes
<1>2. \A r \in Row : (\A i \in I : Items(q)[i].row # r) => WithRows(q, I)[r] = work[q][r]
  BY DEF WithRows, Inserted
<1>3. ASSUME NEW i \in I
      PROVE  WithRows(q, I)[Items(q)[i].row] = Items(q)[i].doc
  <2>1. Items(q)[i].row \in Row
    BY ItemTypes
  <2>2. \A j \in I : Items(q)[j].row = Items(q)[i].row => j = i
    BY ItemTypes
  <2>3. Inserted(q, I)[Items(q)[i].row] = i
    BY <2>1, <2>2 DEF Inserted
  <2>4. QED
    BY <1>1, <2>1, <2>3 DEF WithRows
<1>4. ASSUME NEW r \in Row
      PROVE  WithRows(q, I)[r] \in Value \cup {Clean}
  <2>1. CASE \E i \in I : Items(q)[i].row = r
    BY <1>3, <2>1, ItemTypes
  <2>2. CASE \A i \in I : Items(q)[i].row # r
    BY <1>2, <2>2 DEF TypeOK
  <2>3. QED
    BY <2>1, <2>2
<1>5. WithRows(q, I) = [r \in Row |-> WithRows(q, I)[r]]
  BY DEF WithRows
<1>6. QED
  BY <1>2, <1>3, <1>4, <1>5

LEMMA TypeFastInsert ==
  ASSUME IInv, NEW q \in Request, FastInsert(q)
  PROVE  TypeOK'
<1>1. TypeOK /\ plan[q] \in Plans
  BY AskedFor DEF FastInsert
<1>2. plan[q].kind = "import" /\ todo[q] \in SUBSET DOMAIN Items(q)
  BY DEF IInv, RequestInv, Staged, Accounted, FastInsert
<1>3. WithRows(q, todo[q]) \in [Row -> Value \cup {Clean}]
  BY <1>1, <1>2, WithRowsIs
<1>4. work' \in [Request -> [Row -> Value \cup {Clean}]]
  <2>1. work' = work \/ work' = [work EXCEPT ![q] = WithRows(q, todo[q])]
    BY DEF FastInsert
  <2>2. QED
    BY <1>1, <1>3, <2>1 DEF TypeOK
<1>5. done' \in [Request -> SUBSET Nat]
  <2>1. done' = done \/ done' = [done EXCEPT ![q] = todo[q]]
    BY DEF FastInsert
  <2>2. QED
    BY <1>1, <2>1 DEF TypeOK
<1>6. pc' = [pc EXCEPT ![q] = "log"] \/ pc' = [pc EXCEPT ![q] = "slow"]
  BY DEF FastInsert, Goto
<1>7. UNCHANGED <<isObject, table, history, lock, plan, pos, before, pending, todo, failed, aborted, overlapped>>
  BY DEF FastInsert
<1>8. QED
  BY <1>1, <1>4, <1>5, <1>6, <1>7 DEF TypeOK

LEMMA TypeSlowInsert ==
  ASSUME IInv, NEW q \in Request, SlowInsert(q)
  PROVE  TypeOK'
<1>1. TypeOK /\ plan[q] \in Plans /\ plan[q].kind = "import"
  BY AskedFor DEF SlowInsert, IInv, RequestInv, Staged
<1>2. It(q).row \in Row /\ It(q).doc \in Value /\ pos[q] \in Nat \ {0}
  BY <1>1, CurrentType DEF SlowInsert, TypeOK
<1>3. /\ done' \in [Request -> SUBSET Nat] /\ failed' \in [Request -> SUBSET Nat]
      /\ pos' \in [Request -> Nat \ {0}]
  BY <1>1, ReportTypes DEF SlowInsert
<1>4. work' \in [Request -> [Row -> Value \cup {Clean}]]
  <2>1. work' = work \/ work' = [work EXCEPT ![q][It(q).row] = It(q).doc]
    BY DEF SlowInsert
  <2>2. QED
    BY <1>1, <1>2, <2>1, WorkTypes
<1>5. UNCHANGED <<isObject, table, history, lock, pc, plan, before, pending, todo, aborted, overlapped>>
  BY DEF SlowInsert
<1>6. QED
  BY <1>1, <1>3, <1>4, <1>5 DEF TypeOK

LEMMA TypeCreateNext ==
  ASSUME IInv, NEW q \in Request, CreateNext(q)
  PROVE  TypeOK'
<1>1. TypeOK /\ plan[q] \in Plans /\ plan[q].kind = "create"
  BY AskedFor DEF CreateNext, IInv, RequestInv, Staged
<1>2. It(q).row \in Row /\ It(q).doc \in Value /\ pos[q] \in Nat \ {0}
  BY <1>1, CurrentType DEF CreateNext, TypeOK
<1>3. CASE Fail(q)
  BY <1>1, <1>3, TypeFail
<1>4. CASE ~Fail(q)
  <2>1. /\ done' \in [Request -> SUBSET Nat] /\ failed' \in [Request -> SUBSET Nat]
        /\ pos' \in [Request -> Nat \ {0}]
    BY <1>1, <1>4, ReportTypes DEF CreateNext
  <2>2. work' \in [Request -> [Row -> Value \cup {Clean}]]
    <3>1. work' = work \/ work' = [work EXCEPT ![q][It(q).row] = It(q).doc]
      BY <1>4 DEF CreateNext
    <3>2. QED
      BY <1>1, <1>2, <3>1, WorkTypes
  <2>3. pc' = pc \/ pc' = [pc EXCEPT ![q] = "refuse"]
    BY <1>4 DEF CreateNext, Goto
  <2>4. UNCHANGED <<isObject, table, history, lock, plan, before, pending, todo, aborted, overlapped>>
    BY <1>4 DEF CreateNext
  <2>5. QED
    BY <1>1, <2>1, <2>2, <2>3, <2>4 DEF TypeOK
<1>5. QED
  BY <1>3, <1>4

LEMMA TypeNext ==
  ASSUME IInv, [Next]_vars
  PROVE  TypeOK'
<1> TypeOK
  BY DEF IInv
<1>1. CASE UNCHANGED vars
  BY <1>1 DEF TypeOK, vars, own
<1>2. ASSUME NEW q \in Request, Submit(q)
      PROVE  TypeOK'
  BY <1>2, TypeSubmit
<1>3. ASSUME NEW q \in Request, Crash(q) \/ WaitFails(q)
      PROVE  TypeOK'
  BY <1>3, TypeFail DEF Crash, WaitFails
<1>4. ASSUME NEW q \in Request, LockTarget(q) \/ Fetch(q) \/ RejectEdit(q) \/ ApplyEdit(q) \/ FlushHistory(q)
      PROVE  TypeOK'
  BY <1>4, TypeLockTarget, TypeFetch, TypeRejectEdit, TypeApplyEdit, TypeFlushHistory
<1>5. ASSUME NEW q \in Request, SortImport(q) \/ FastInsert(q) \/ SlowInsert(q) \/ LogImport(q)
      PROVE  TypeOK'
  BY <1>5, TypeSortImport, TypeFastInsert, TypeSlowInsert, TypeWriteLog DEF LogImport
<1>6. ASSUME NEW q \in Request, CreateNext(q)
      PROVE  TypeOK'
  BY <1>6, TypeCreateNext
<1>7. ASSUME NEW q \in Request, AnswerReport(q) \/ AnswerError(q)
      PROVE  TypeOK'
  BY <1>7, TypeFail, TypeCommit DEF AnswerReport, AnswerError
<1>8. QED
  BY <1>1, <1>2, <1>3, <1>4, <1>5, <1>6, <1>7 DEF Next

-----------------------------------------------------------------------------
\* What a step of one request leaves of the others.

\* A step of request q touches nothing of another, and writes only rows it worked on.
OwnStep(q) ==
  /\ q \in Active
  /\ UNCHANGED <<isObject, plan, overlapped>>
  /\ \A o \in Request \ {q} :
       /\ pc'[o] = pc[o] /\ pos'[o] = pos[o] /\ work'[o] = work[o] /\ before'[o] = before[o]
       /\ pending'[o] = pending[o] /\ todo'[o] = todo[o] /\ done'[o] = done[o]
       /\ failed'[o] = failed[o] /\ aborted'[o] = aborted[o]
       /\ \A r \in Row : lock[r] = o => lock'[r] = o
  /\ \A r \in Row : table'[r] # table[r] => work[q][r] # Clean /\ table'[r] # Absent

\* What one request has changed no other has, nor reported: at most it waits for
\* the row's lock.
LEMMA Untouched ==
  ASSUME IInv, NEW q \in Active, NEW o \in Active, q # o, NEW r \in Row, work[q][r] # Clean
  PROVE  /\ work[o][r] = Clean
         /\ \A i \in DOMAIN Items(o) : Items(o)[i].row = r => lock[r] = q /\ i \notin done[o]
<1>0. q \in Request /\ o \in Request
  BY DEF Active
<1>1. \A p \in {q, o} : RequestInv(p) /\ done[p] \subseteq DOMAIN Items(p)
  BY <1>0 DEF IInv, RequestInv, Accounted
<1>2. \A p \in {q, o} : work[p][r] # Clean =>
        r \in RowsOf(plan[p]) /\ (plan[p].kind = "edit" => lock[r] = p)
  BY <1>1 DEF RequestInv, Worked, RowsOf, Items, Mine
<1>3. r \in RowsOf(plan[o]) => plan[q].kind = "edit" /\ plan[o].kind = "edit"
  BY <1>2 DEF IInv, Apart
<1>4. work[o][r] = Clean
  BY <1>2, <1>3
<1>5. ASSUME NEW i \in DOMAIN Items(o), Items(o)[i].row = r
      PROVE  lock[r] = q /\ i \notin done[o]
  <2>1. r \in RowsOf(plan[o])
    BY <1>5 DEF RowsOf, Items
  <2>2. lock[r] = q /\ table[r] # Absent
    BY <1>1, <1>3, <2>1 DEF RequestInv, Worked, Mine
  <2>3. i \in done[o] => work[o][r] # Clean
    BY <1>1, <1>5, <2>2 DEF RequestInv, Worked
  <2>4. QED
    BY <1>4, <2>2, <2>3
<1>6. QED
  BY <1>4, <1>5

LEMMA OthersKeepTheirs ==
  ASSUME IInv, NEW q \in Request, OwnStep(q), NEW o \in Request \ {q}
  PROVE  RequestInv(o)'
<1>1. RequestInv(o) /\ q \in Active
  BY DEF IInv, OwnStep
<1>2. /\ isObject' = isObject /\ plan' = plan /\ overlapped' = overlapped
      /\ pc'[o] = pc[o] /\ pos'[o] = pos[o] /\ work'[o] = work[o] /\ before'[o] = before[o]
      /\ pending'[o] = pending[o] /\ todo'[o] = todo[o] /\ done'[o] = done[o]
      /\ failed'[o] = failed[o] /\ aborted'[o] = aborted[o]
      /\ \A r \in Row : lock[r] = o => lock'[r] = o
      /\ \A r \in Row : table'[r] # table[r] => work[q][r] # Clean /\ table'[r] # Absent
  BY DEF OwnStep
<1>3. Items(o)' = Items(o) /\ (o \in Active)' = (o \in Active) /\ (o \in Active <=> pc[o] \notin {"idle", "done", "failed"})
  BY <1>2 DEF Items, Active
<1>4. o \in Active => \A r \in Row : table'[r] # table[r] =>
        /\ work[o][r] = Clean
        /\ \A i \in DOMAIN Items(o) : Items(o)[i].row = r => lock[r] = q /\ i \notin done[o]
  BY <1>1, <1>2, Untouched
<1>5. o \in Active => plan[o] \in Plans /\ TypeOK /\ done[o] \subseteq DOMAIN Items(o)
  BY <1>1, <1>3, AskedFor DEF RequestInv, Accounted
<1>6. Staged(o)'
  BY <1>1, <1>2 DEF RequestInv, Staged, Untried, AllClean
<1>7. Accounted(o)'
  BY <1>1, <1>2, <1>3 DEF RequestInv, Accounted, AllClean
<1>8. o \in Active => \A r \in Row : Mine(o, r) => Mine(o, r)'
  BY <1>2 DEF Mine
<1>9. Held(o)'
  <2>1. CASE o \in Active
    <3>1. \A i \in DOMAIN Items(o) : Items(o)[i].row \in Row
      BY <1>5, <2>1, ItemTypes
    <3>2. \A i \in DOMAIN Items(o) : Mine(o, Items(o)[i].row) =>
            Mine(o, Items(o)[i].row)' /\ table'[Items(o)[i].row] = table[Items(o)[i].row]
      BY <1>2, <1>3, <1>4, <1>8, <2>1, <3>1 DEF Mine
    <3>3. pc[o] = "lock" => \A i \in DOMAIN Items(o) : i < pos[o] => Mine(o, Items(o)[i].row)'
      BY <1>1, <3>2 DEF RequestInv, Held
    <3>4. ASSUME pc[o] \in {"edit", "commit"}, plan[o].kind = "edit", isObject, NEW i \in DOMAIN Items(o)
          PROVE  /\ Mine(o, Items(o)[i].row)' /\ table'[Items(o)[i].row] = table[Items(o)[i].row]
                 /\ before[o][Items(o)[i].row] = table[Items(o)[i].row]
                 /\ i \in done[o] => Changes(Items(o)[i].row, table[Items(o)[i].row], Items(o)[i].doc) \subseteq pending[o]
      BY <1>1, <3>2, <3>4 DEF RequestInv, Held
    <3>5. QED
      BY <1>2, <1>3, <1>5, <2>1, <3>3, <3>4 DEF Held, Changes, Mine
  <2>2. CASE o \notin Active
    BY <1>2, <1>3, <2>2 DEF Held
  <2>3. QED
    BY <2>1, <2>2
<1>10. Worked(o)'
  <2>1. CASE o \in Active
    <3>1. \A i \in done[o] : Items(o)[i].row \in Row
      BY <1>5, <2>1, ItemTypes
    <3>2. \A i \in done[o] : table'[Items(o)[i].row] = table[Items(o)[i].row]
      BY <1>4, <1>5, <2>1, <3>1
    <3>3. QED
      BY <1>1, <1>2, <1>3, <1>8, <2>1, <3>1, <3>2 DEF RequestInv, Worked
  <2>2. CASE o \notin Active
    BY <1>3, <2>2 DEF Worked
  <2>3. QED
    BY <2>1, <2>2
<1>11. SoFar(o)'
  <2>1. CASE o \in Active
    <3> SUFFICES ASSUME NEW r \in Row, NEW f \in Field
                 PROVE  (IF Told(o, r, f) = {}
                         THEN View(o, r) = table[r] \/ (View(o, r) # Absent /\ table[r] # Absent /\ View(o, r)[f] = table[r][f])
                         ELSE \/ /\ View(o, r) # Absent
                                 /\ \E i \in Told(o, r, f) : (\A j \in Told(o, r, f) : j <= i) /\ View(o, r)[f] = Items(o)[i].doc[f]
                              \/ ~isObject /\ table[r] = Absent)'
      BY DEF SoFar
    <3>1. Told(o, r, f)' = Told(o, r, f)
      BY <1>2, <1>3 DEF Told
    <3>2. CASE table'[r] = table[r]
      <4>1. View(o, r)' = View(o, r)
        BY <1>2, <3>2 DEF View
      <4>2. QED
        BY <1>1, <1>2, <1>3, <2>1, <3>1, <3>2, <4>1 DEF RequestInv, SoFar
    <3>3. CASE table'[r] # table[r]
      <4>1. View(o, r)' = table'[r]
        BY <1>2, <1>4, <2>1, <3>3 DEF View
      <4>2. Told(o, r, f) = {}
        BY <1>4, <1>5, <2>1, <3>3 DEF Told
      <4>3. QED
        BY <3>1, <4>1, <4>2
    <3>4. QED
      BY <3>2, <3>3
  <2>2. CASE o \notin Active
    BY <1>3, <2>2 DEF SoFar
  <2>3. QED
    BY <2>1, <2>2
<1>12. NoNewTwins(o)'
  BY <1>1, <1>2, <1>3 DEF NoNewTwins, IInv, Apart
<1>13. QED
  BY <1>6, <1>7, <1>9, <1>10, <1>11, <1>12 DEF RequestInv

\* A step that touches nothing of the others keeps the invariant if it keeps it for
\* the request itself.
LEMMA OwnStepKeeps ==
  ASSUME IInv, TypeOK', NEW q \in Request, OwnStep(q), RequestInv(q)'
  PROVE  IInv'
<1>1. \A o \in Request : RequestInv(o)'
  BY OthersKeepTheirs
<1>2. Active' \subseteq Active
  BY DEF OwnStep, Active
<1>3. Apart'
  BY <1>2 DEF OwnStep, IInv, Apart
<1>4. QED
  BY <1>1, <1>3 DEF IInv

-----------------------------------------------------------------------------
\* The end of a transaction.

LEMMA EndKeeps ==
  ASSUME IInv, TypeOK', NEW q \in Active, NEW l \in {"done", "failed"}, End(q, l),
         \A r \in Row : table'[r] # table[r] => work[q][r] # Clean /\ table'[r] # Absent
  PROVE  IInv'
<1>1. TypeOK /\ q \in Request /\ pc[q] # "idle" /\ RequestInv(q) /\ plan[q] \in Plans
  BY AskedFor DEF Active, IInv
<1>2. pc' = [pc EXCEPT ![q] = l] /\ UNCHANGED <<isObject, plan, pos, own, overlapped>>
  BY DEF End, Goto
<1>3. pc'[q] = l /\ q \notin Active'
  BY <1>1, <1>2 DEF TypeOK, Active
<1>4. OwnStep(q)
  <2>1. \A o \in Request \ {q} : \A r \in Row : lock[r] = o => lock'[r] = o
    BY DEF End
  <2>2. QED
    BY <1>1, <1>2, <2>1 DEF OwnStep, TypeOK, own
<1>5. RequestInv(q)'
  <2>1. Staged(q)'
    BY <1>1, <1>2, <1>3 DEF Staged
  <2>2. Accounted(q)'
    BY <1>1, <1>2, <1>3 DEF Accounted, RequestInv, own
  <2>3. Held(q)' /\ Worked(q)' /\ SoFar(q)' /\ NoNewTwins(q)'
    BY <1>3 DEF Held, Worked, SoFar, NoNewTwins
  <2>4. QED
    BY <2>1, <2>2, <2>3 DEF RequestInv
<1>6. QED
  BY <1>1, <1>4, <1>5, OwnStepKeeps

LEMMA FailKeeps ==
  ASSUME IInv, NEW q \in Active, Fail(q)
  PROVE  IInv'
<1>1. TypeOK'
  BY TypeFail DEF IInv, Active
<1>2. QED
  BY <1>1, EndKeeps DEF Fail

LEMMA CommitKeeps ==
  ASSUME IInv, NEW q \in Active, NEW l \in {"done", "failed"}, Commit(q), End(q, l)
  PROVE  IInv'
<1>1. TypeOK /\ q \in Request
  BY DEF IInv, Active
<1>2. TypeOK'
  BY <1>1, TypeCommit
<1>3. \A r \in Row : table'[r] # table[r] => work[q][r] # Clean /\ table'[r] # Absent
  BY <1>1, BatchAssumption DEF Commit, View, TypeOK
<1>4. QED
  BY <1>2, <1>3, EndKeeps

-----------------------------------------------------------------------------
\* Every action keeps the invariant.

LEMMA SubmitKeeps ==
  ASSUME IInv, NEW q \in Request, Submit(q)
  PROVE  IInv'
<1>1. TypeOK /\ TypeOK'
  BY TypeSubmit DEF IInv
<1>2. PICK p \in Plans :
        /\ \A o \in Request : plan[o] # NoPlan =>
             \/ p.kind = "edit" /\ (plan[o].kind = "edit" \/ o \notin Active)
             \/ RowsOf(p) \cap RowsOf(plan[o]) = {}
        /\ plan' = [plan EXCEPT ![q] = p]
        /\ Goto(q, CASE p.kind = "edit"   -> IF isObject THEN "lock" ELSE "fetch"
                     [] p.kind = "import" -> "sort"
                     [] p.kind = "create" -> "create")
  BY DEF Submit
<1>3. p \in Plan /\ p \in Plans
  BY BatchAssumption
<1>4. PICK l : /\ pc' = [pc EXCEPT ![q] = l]
               /\ l \in {"lock", "fetch", "sort", "create"}
               /\ l \in {"lock", "fetch"} => p.kind = "edit"
               /\ l = "sort" => p.kind = "import"
               /\ l = "create" => p.kind = "create"
               /\ l = "lock" => isObject
               /\ l = "fetch" => ~isObject
  BY <1>2, <1>3, <1>1 DEF Goto, Plan, TypeOK
<1>5. pc[q] = "idle" /\ q \notin Active /\ UNCHANGED <<isObject, table, history, lock, pos, own>>
  BY DEF Submit, Active
<1>6. pc'[q] = l /\ plan'[q] = p /\ Active' = Active \cup {q}
  BY <1>1, <1>2, <1>4 DEF TypeOK, Active
<1>7. \A o \in Request : overlapped'[o] = (overlapped[o] \/ o \in Active \/ (o = q /\ Active # {}))
  BY DEF Submit
<1>8. Apart'
  <2> SUFFICES ASSUME NEW a \in Active', NEW o \in Active', a # o
               PROVE  overlapped'[a] /\ (plan'[a].kind # "edit" => RowsOf(plan'[a]) \cap RowsOf(plan'[o]) = {})
    BY DEF Apart
  <2>1. overlapped'[a]
    BY <1>6, <1>7 DEF Active
  <2>2. \A b \in Active : plan[b] # NoPlan
    BY BatchAssumption DEF Active, IInv, RequestInv, Staged
  <2>3. CASE a = q
    BY <1>1, <1>2, <1>6, <2>1, <2>2, <2>3 DEF Active, TypeOK
  <2>4. CASE o = q
    <3>1. a \in Active /\ plan'[a] = plan[a] /\ plan'[o] = p /\ a \in Request
      BY <1>1, <1>2, <1>6, <2>4 DEF Active, TypeOK
    <3>2. plan[a].kind # "edit" => RowsOf(p) \cap RowsOf(plan[a]) = {}
      BY <1>2, <2>2, <3>1
    <3>3. QED
      BY <2>1, <3>1, <3>2
  <2>5. CASE a # q /\ o # q
    <3>1. a \in Active /\ o \in Active /\ plan'[a] = plan[a] /\ plan'[o] = plan[o]
      BY <1>1, <1>2, <1>6, <2>5 DEF Active, TypeOK
    <3>2. QED
      BY <2>1, <3>1 DEF IInv, Apart
  <2>6. QED
    BY <2>3, <2>4, <2>5
<1>9. RequestInv(q)'
  <2>1. Untried(q) /\ pos[q] = 1
    BY <1>5 DEF IInv, RequestInv, Staged
  <2>2. Untried(q)' /\ pos'[q] = 1 /\ isObject' = isObject /\ table' = table
    BY <1>5, <2>1 DEF Untried, own
  <2>3. Items(q)' = p.items /\ p.items \in Seq(Item) /\ Len(p.items) \in Nat
    BY <1>3, <1>6 DEF Items, Plan
  <2>4. Staged(q)'
    BY <1>3, <1>4, <1>6, <2>2 DEF Staged
  <2>5. Accounted(q)'
    BY <1>4, <1>6, <2>2, <2>3 DEF Accounted, Untried
  <2>6. Held(q)'
    BY <1>4, <1>6, <2>2, <2>3 DEF Held
  <2>7. \A r \in Row : work'[q][r] = Clean /\ View(q, r)' = table'[r]
    BY <2>2 DEF Untried, AllClean, View
  <2>8. Worked(q)'
    BY <2>2, <2>7 DEF Worked, Untried
  <2>9. SoFar(q)'
    BY <2>2, <2>7 DEF SoFar, Told, Untried
  <2>10. NoNewTwins(q)'
    BY <1>4, <1>6, <2>7 DEF NoNewTwins
  <2>11. QED
    BY <2>4, <2>5, <2>6, <2>8, <2>9, <2>10 DEF RequestInv
<1>10. ASSUME NEW o \in Request \ {q}
       PROVE  RequestInv(o)'
  <2>1. /\ isObject' = isObject /\ table' = table /\ lock' = lock /\ pos' = pos /\ own' = own
        /\ pc'[o] = pc[o] /\ plan'[o] = plan[o]
        /\ o \in Active => overlapped'[o]
    BY <1>1, <1>2, <1>4, <1>5, <1>7 DEF TypeOK
  <2>2. /\ work' = work /\ before' = before /\ pending' = pending /\ todo' = todo
        /\ done' = done /\ failed' = failed /\ aborted' = aborted
    BY <2>1 DEF own
  <2>3. (o \in Active)' = (o \in Active) /\ Items(o)' = Items(o)
    BY <2>1 DEF Active, Items
  <2>4. RequestInv(o)
    BY DEF IInv
  <2>5. Staged(o)' /\ Accounted(o)'
    BY <2>1, <2>2, <2>3, <2>4 DEF RequestInv, Staged, Accounted, Untried, AllClean
  <2>6. Held(o)' /\ Worked(o)'
    BY <2>1, <2>2, <2>3, <2>4 DEF RequestInv, Held, Worked, Mine, Changes
  <2>7. SoFar(o)'
    BY <2>1, <2>2, <2>3, <2>4 DEF RequestInv, SoFar, Told, View
  <2>8. NoNewTwins(o)'
    BY <2>1, <2>3 DEF NoNewTwins
  <2>9. QED
    BY <2>5, <2>6, <2>7, <2>8 DEF RequestInv
<1>11. QED
  BY <1>1, <1>8, <1>9, <1>10 DEF IInv

\* What the request shows is the same if its changes and its report are.
LEMMA ShownSame ==
  ASSUME IInv, NEW q \in Active, UNCHANGED <<isObject, table, plan, overlapped>>,
         work'[q] = work[q], done'[q] = done[q], pc'[q] # "fast",
         \A r \in Row : lock[r] = q => lock'[r] = q
  PROVE  Worked(q)' /\ SoFar(q)' /\ NoNewTwins(q)'
<1>1. RequestInv(q) /\ Items(q)' = Items(q)
  BY DEF IInv, Active, Items
<1>2. \A r \in Row : View(q, r)' = View(q, r)
  BY DEF View
<1>3. Worked(q)'
  BY <1>1 DEF RequestInv, Worked, Mine
<1>4. SoFar(q)'
  BY <1>1, <1>2 DEF RequestInv, SoFar, Told
<1>5. NoNewTwins(q)'
  BY <1>1, <1>2 DEF RequestInv, NoNewTwins, OnceEach
<1>6. QED
  BY <1>3, <1>4, <1>5

\* What it shows once a record is stored.
LEMMA ShownStored ==
  ASSUME IInv, NEW q \in Active, UNCHANGED <<isObject, table, plan, overlapped>>, HasMore(q),
         NEW row \in Row, row = It(q).row, NEW v \in Value,
         work' = [work EXCEPT ![q][row] = v], done'[q] = done[q] \cup {pos[q]}, pc'[q] # "fast",
         \A j \in done[q] : Items(q)[j].row = row => j < pos[q],
         \A f \in Field : IF It(q).doc[f] # Keep THEN v[f] = It(q).doc[f]
                          ELSE View(q, row) # Absent /\ v[f] = View(q, row)[f],
         isObject /\ OnceEach(q) => ~Duplicate(q, row, v),
         \A r \in Row : lock[r] = q => lock'[r] = q,
         plan[q].kind = "edit" => Mine(q, row)'
  PROVE  Worked(q)' /\ SoFar(q)' /\ NoNewTwins(q)'
<1>0. PICK m : m = pos[q]
  OBVIOUS
<1>1. RequestInv(q) /\ TypeOK /\ plan[q] \in Plans /\ Items(q)' = Items(q) /\ q \in Request
  BY AskedFor DEF IInv, Active, Items
<1>2. m \in DOMAIN Items(q) /\ It(q) = Items(q)[m] /\ row = Items(q)[m].row /\ m \in Nat /\ done'[q] = done[q] \cup {m}
  BY <1>0, <1>1, CurrentType DEF TypeOK
<1>3. done[q] \subseteq DOMAIN Items(q) /\ DOMAIN Items(q) \subseteq Nat
  BY <1>1, ItemTypes DEF RequestInv, Accounted
<1>4. work'[q][row] = v /\ \A r \in Row \ {row} : work'[q][r] = work[q][r]
  BY <1>1, <1>2 DEF TypeOK
<1>5. v # Clean /\ v # Absent
  BY BatchAssumption
<1>6. View(q, row)' = v /\ \A r \in Row \ {row} : View(q, r)' = View(q, r)
  BY <1>4, <1>5 DEF View
<1>7. Worked(q)'
  <2>1. \A r \in Row : Mine(q, r) => Mine(q, r)'
    BY DEF Mine
  <2>2. ASSUME NEW r \in Row, work'[q][r] # Clean
        PROVE  (\E i \in done'[q] : Items(q)[i].row = r) /\ (plan[q].kind = "edit" => Mine(q, r)')
    <3>1. CASE r = row
      BY <1>2, <3>1
    <3>2. CASE r # row
      BY <1>1, <1>4, <2>1, <2>2, <3>2 DEF RequestInv, Worked
    <3>3. QED
      BY <3>1, <3>2
  <2>3. ASSUME NEW i \in done'[q], table[Items(q)[i].row] # Absent
        PROVE  work'[q][Items(q)[i].row] # Clean
    <3>1. Items(q)[i].row \in Row
      BY <1>1, <1>2, <1>3, ItemTypes
    <3>2. CASE Items(q)[i].row = row
      BY <1>4, <1>5, <3>2
    <3>3. CASE Items(q)[i].row # row
      <4>1. i \in done[q]
        BY <1>2, <3>3
      <4>2. work[q][Items(q)[i].row] # Clean
        BY <1>1, <2>3, <4>1 DEF RequestInv, Worked
      <4>3. QED
        BY <1>4, <3>1, <3>3, <4>2
    <3>4. QED
      BY <3>2, <3>3
  <2>4. QED
    BY <1>1, <2>2, <2>3 DEF Worked
<1>8. SoFar(q)'
  <2> SUFFICES ASSUME NEW r \in Row, NEW f \in Field
               PROVE  (IF Told(q, r, f) = {}
                       THEN View(q, r) = table[r] \/ (View(q, r) # Absent /\ table[r] # Absent /\ View(q, r)[f] = table[r][f])
                       ELSE \/ /\ View(q, r) # Absent
                               /\ \E i \in Told(q, r, f) : (\A j \in Told(q, r, f) : j <= i) /\ View(q, r)[f] = Items(q)[i].doc[f]
                            \/ ~isObject /\ table[r] = Absent)'
    BY DEF SoFar
  <2>1. IF Told(q, r, f) = {}
        THEN View(q, r) = table[r] \/ (View(q, r) # Absent /\ table[r] # Absent /\ View(q, r)[f] = table[r][f])
        ELSE \/ /\ View(q, r) # Absent
                /\ \E i \in Told(q, r, f) : (\A j \in Told(q, r, f) : j <= i) /\ View(q, r)[f] = Items(q)[i].doc[f]
             \/ ~isObject /\ table[r] = Absent
    BY <1>1 DEF RequestInv, SoFar
  <2>2. CASE r # row
    <3>1. Told(q, r, f)' = Told(q, r, f)
      BY <1>1, <1>2, <2>2 DEF Told
    <3>2. QED
      BY <1>1, <1>6, <2>1, <2>2, <3>1
  <2>3. CASE r = row /\ It(q).doc[f] # Keep
    <3>1. Told(q, r, f)' = Told(q, r, f) \cup {m}
      BY <1>1, <1>2, <2>3 DEF Told
    <3>2. \A j \in Told(q, r, f) : j < m /\ j \in Nat
      BY <1>0, <1>3, <2>3 DEF Told
    <3>3. \A j \in Told(q, r, f)' : j <= m
      BY <1>2, <3>1, <3>2
    <3>4. View(q, r)' # Absent /\ View(q, r)'[f] = Items(q)[m].doc[f]
      BY <1>2, <1>5, <1>6, <2>3
    <3>5. QED
      BY <1>1, <3>1, <3>3, <3>4
  <2>4. CASE r = row /\ It(q).doc[f] = Keep
    <3>1. Told(q, r, f)' = Told(q, r, f)
      BY <1>1, <1>2, <2>4 DEF Told
    <3>2. View(q, r) # Absent /\ View(q, r)' # Absent /\ View(q, r)'[f] = View(q, r)[f]
      BY <1>5, <1>6, <2>4
    <3>3. QED
      BY <1>1, <2>1, <3>1, <3>2
  <2>5. QED
    BY <2>2, <2>3, <2>4
<1>9. NoNewTwins(q)'
  <2> SUFFICES ASSUME isObject, ~overlapped[q], OnceEach(q)
               PROVE  \A r, s \in Row : r # s /\ View(q, r)' = View(q, s)' /\ View(q, r)' # Absent =>
                        table[r] = table[s] /\ table[r] # Absent
    BY <1>1 DEF NoNewTwins, OnceEach
  <2>1. \A s \in Row \ {row} : View(q, s) # v
    BY DEF Duplicate
  <2>2. \A r, s \in Row : r # s /\ View(q, r) = View(q, s) /\ View(q, r) # Absent =>
          table[r] = table[s] /\ table[r] # Absent
    BY <1>1 DEF RequestInv, NoNewTwins
  <2>3. QED
    BY <1>6, <2>1, <2>2
<1>10. QED
  BY <1>7, <1>8, <1>9

LEMMA LockTargetKeeps ==
  ASSUME IInv, NEW q \in Request, LockTarget(q)
  PROVE  IInv'
<1>1. TypeOK /\ plan[q] \in Plans /\ q \in Active /\ pc[q] = "lock" /\ RequestInv(q)
  BY AskedFor DEF LockTarget, Active, IInv
<1>2. CASE Fail(q)
  BY <1>1, <1>2, FailKeeps
<1>3. CASE ~Fail(q)
  <2> DEFINE row == It(q).row
  <2>1. /\ table[row] # Absent /\ lock[row] \in {NoRequest, q}
        /\ lock' = [lock EXCEPT ![row] = q] /\ pos' = [pos EXCEPT ![q] = @ + 1]
        /\ UNCHANGED <<isObject, table, history, pc, plan, own, overlapped>>
    BY <1>3 DEF LockTarget, Advance
  <2>2. row \in Row /\ pos[q] \in DOMAIN Items(q) /\ row = Items(q)[pos[q]].row
    BY <1>1, CurrentType DEF LockTarget
  <2>3. lock'[row] = q /\ (\A r \in Row : r # row => lock'[r] = lock[r]) /\ pos'[q] = pos[q] + 1
    BY <1>1, <2>1, <2>2 DEF TypeOK
  <2>4. OwnStep(q)
    <3>1. \A o \in Request \ {q} : pos'[o] = pos[o] /\ \A r \in Row : lock[r] = o => lock'[r] = o
      BY <1>1, <2>1, <2>2, <2>3, BatchAssumption DEF TypeOK
    <3>2. QED
      BY <1>1, <2>1, <3>1 DEF OwnStep, own
  <2>5. Worked(q)' /\ SoFar(q)' /\ NoNewTwins(q)'
    BY <1>1, <2>1, <2>3, ShownSame DEF own
  <2>6. Staged(q)' /\ Accounted(q)'
    BY <1>1, <2>1 DEF RequestInv, Staged, Accounted, Untried, Items, Active, own
  <2>7. Held(q)'
    <3>1. ASSUME NEW i \in DOMAIN Items(q), i < pos[q] + 1
          PROVE  Mine(q, Items(q)[i].row)'
      <4>0. Items(q)' = Items(q)
        BY <2>1 DEF Items
      <4>1. i \in Nat /\ pos[q] \in Nat /\ Items(q)[i].row \in Row
        BY <1>1, ItemTypes DEF TypeOK
      <4>2. CASE i = pos[q]
        BY <2>1, <2>2, <2>3, <4>0, <4>2 DEF Mine
      <4>3. CASE i < pos[q]
        <5>1. Mine(q, Items(q)[i].row)
          BY <1>1, <4>3 DEF RequestInv, Held
        <5>2. QED
          BY <2>1, <2>3, <4>0, <4>1, <5>1 DEF Mine
      <4>4. QED
        BY <3>1, <4>1, <4>2, <4>3
    <3>2. QED
      BY <1>1, <2>1, <2>3, <3>1 DEF Held, Items
  <2>8. QED
    BY <2>4, <2>5, <2>6, <2>7, OwnStepKeeps, TypeLockTarget DEF RequestInv
<1>4. QED
  BY <1>2, <1>3

LEMMA FetchKeeps ==
  ASSUME IInv, NEW q \in Request, Fetch(q)
  PROVE  IInv'
<1>1. TypeOK /\ plan[q] \in Plans /\ q \in Active /\ pc[q] \in {"lock", "fetch"} /\ RequestInv(q)
  BY AskedFor DEF Fetch, Active, IInv
<1>2. /\ before' = [before EXCEPT ![q] =
           [r \in Row |-> IF \E i \in DOMAIN Items(q) : Items(q)[i].row = r THEN table[r] ELSE Absent]]
      /\ pos' = [pos EXCEPT ![q] = 1] /\ pc' = [pc EXCEPT ![q] = "edit"]
      /\ UNCHANGED <<isObject, table, history, lock, plan, work, pending, todo, done, failed, aborted, overlapped>>
  BY DEF Fetch, Goto
<1>3. pos'[q] = 1 /\ pc'[q] = "edit" /\ Items(q)' = Items(q)
      /\ \A i \in DOMAIN Items(q) : before'[q][Items(q)[i].row] = table[Items(q)[i].row]
  BY <1>1, <1>2, ItemTypes DEF TypeOK, Items
<1>4. OwnStep(q)
  BY <1>1, <1>2 DEF OwnStep, TypeOK
<1>5. Untried(q) /\ plan[q].kind = "edit" /\ (isObject => pc[q] = "lock")
  BY <1>1 DEF RequestInv, Staged
<1>6. Worked(q)' /\ SoFar(q)' /\ NoNewTwins(q)'
  BY <1>1, <1>2, <1>3, ShownSame
<1>7. Staged(q)'
  BY <1>1, <1>2, <1>3, <1>5 DEF Staged
<1>8. Accounted(q)'
  <2>1. Len(Items(q)) \in Nat
    BY <1>1, ItemTypes
  <2>2. done'[q] = {} /\ failed'[q] = {} /\ 1..(1 - 1) = {}
    BY <1>2, <1>5 DEF Untried
  <2>3. QED
    BY <1>2, <1>3, <2>1, <2>2 DEF Accounted
<1>9. Held(q)'
  <2>1. isObject => \A i \in DOMAIN Items(q) : Mine(q, Items(q)[i].row)
    <3>1. isObject => \A i \in DOMAIN Items(q) : i < pos[q]
      <4>1. isObject => ~HasMore(q)
        BY <1>5 DEF Fetch
      <4>2. Len(Items(q)) \in Nat /\ DOMAIN Items(q) = 1..Len(Items(q)) /\ pos[q] \in Nat
        BY <1>1, ItemTypes DEF TypeOK
      <4>3. QED
        BY <4>1, <4>2 DEF HasMore
    <3>2. QED
      BY <1>1, <1>5, <3>1 DEF RequestInv, Held
  <2>2. done'[q] = {}
    BY <1>2, <1>5 DEF Untried
  <2>3. QED
    BY <1>2, <1>3, <2>1, <2>2 DEF Held, Mine
<1>10. QED
  BY <1>4, <1>6, <1>7, <1>8, <1>9, OwnStepKeeps, TypeFetch DEF RequestInv

\* The report after one more record, whichever way it went.
LEMMA OneMoreTried ==
  ASSUME IInv, NEW q \in Active, HasMore(q), pc[q] \in {"edit", "create", "slow"}, Succeed(q) \/ Reject(q)
  PROVE  /\ pos'[q] = pos[q] + 1 /\ pos[q] \in Nat \ {0} /\ Len(Items(q)) \in Nat
         /\ pos[q] <= Len(Items(q)) /\ pos[q] \in DOMAIN Items(q) /\ DOMAIN Items(q) = 1..Len(Items(q))
         /\ Succeed(q) => done'[q] = done[q] \cup {pos[q]} /\ failed'[q] = failed[q]
         /\ Reject(q) => failed'[q] = failed[q] \cup {pos[q]} /\ done'[q] = done[q]
         /\ done'[q] \cup failed'[q] = done[q] \cup failed[q] \cup {pos[q]}
         /\ done[q] \subseteq DOMAIN Items(q) /\ done'[q] \subseteq DOMAIN Items(q)
         /\ pc[q] # "slow" \/ pos[q] \in todo[q] =>
              pos[q] \notin done[q] \cup failed[q] /\ done'[q] \cap failed'[q] = {}
<1>1. TypeOK /\ plan[q] \in Plans /\ q \in Request /\ Accounted(q)
  BY AskedFor DEF Active, IInv, RequestInv
<1>2. /\ pos[q] \in Nat \ {0} /\ Len(Items(q)) \in Nat /\ DOMAIN Items(q) = 1..Len(Items(q))
      /\ pos[q] <= Len(Items(q)) /\ pos[q] \in DOMAIN Items(q)
  BY <1>1, ItemTypes, CurrentType DEF TypeOK, HasMore
<1>3. pos'[q] = pos[q] + 1
  BY <1>1 DEF Succeed, Reject, Advance, TypeOK
<1>4. /\ Succeed(q) => done'[q] = done[q] \cup {pos[q]} /\ failed'[q] = failed[q]
      /\ Reject(q) => failed'[q] = failed[q] \cup {pos[q]} /\ done'[q] = done[q]
  BY <1>1 DEF Succeed, Reject, TypeOK
<1>5. done[q] \subseteq DOMAIN Items(q) /\ done[q] \cap failed[q] = {}
  BY <1>1 DEF Accounted
<1>6. pc[q] # "slow" \/ pos[q] \in todo[q] => pos[q] \notin done[q] \cup failed[q]
  BY <1>1, <1>2 DEF Accounted
<1>7. QED
  BY <1>2, <1>3, <1>4, <1>5, <1>6

LEMMA EditAccounted ==
  ASSUME IInv, NEW q \in Active, HasMore(q), pc[q] = "edit", Succeed(q) \/ Reject(q), UNCHANGED <<pc, plan, todo>>
  PROVE  Accounted(q)'
<1>1. Accounted(q) /\ Items(q)' = Items(q)
  BY DEF Active, IInv, RequestInv, Items
<1>2. /\ pos'[q] = pos[q] + 1 /\ pos[q] \in Nat \ {0} /\ Len(Items(q)) \in Nat /\ pos[q] <= Len(Items(q))
      /\ done'[q] \cup failed'[q] = done[q] \cup failed[q] \cup {pos[q]}
      /\ done'[q] \subseteq DOMAIN Items(q) /\ done'[q] \cap failed'[q] = {}
  BY OneMoreTried
<1>3. done'[q] \cup failed'[q] = 1..(pos'[q] - 1)
  BY <1>1, <1>2 DEF Accounted
<1>4. pos'[q] <= Len(Items(q)) + 1
  BY <1>2
<1>5. QED
  BY <1>1, <1>2, <1>3, <1>4 DEF Accounted

\* An edit of an object's record knows what is in it.
LEMMA KnowsRow ==
  ASSUME IInv, NEW q \in Active, HasMore(q), pc[q] = "edit", isObject, NEW row \in Row, row = It(q).row
  PROVE  /\ Mine(q, row) /\ before[q][row] = table[row] /\ Known(q, row) = table[row]
         /\ View(q, row) # Absent
<1>1. TypeOK /\ plan[q] \in Plans /\ q \in Request /\ Staged(q) /\ Held(q)
  BY AskedFor DEF Active, IInv, RequestInv
<1>2. pos[q] \in DOMAIN Items(q) /\ row = Items(q)[pos[q]].row /\ plan[q].kind = "edit"
  BY <1>1, CurrentType DEF Staged
<1>3. Mine(q, row) /\ before[q][row] = table[row]
  BY <1>1, <1>2 DEF Held
<1>4. View(q, row) # Absent
  BY <1>1, <1>3, BatchAssumption DEF View, Mine, TypeOK
<1>5. QED
  BY <1>3, <1>4 DEF Known, Mine

\* What an edit holds, once one more record has been tried.
LEMMA EditHeld ==
  ASSUME IInv, NEW q \in Active, HasMore(q), pc[q] = "edit", UNCHANGED <<pc, plan, isObject, table>>,
         NEW row \in Row, row = It(q).row,
         before' = before \/ before' = [before EXCEPT ![q][row] = Known(q, row)],
         pending[q] \subseteq pending'[q],
         \/ done'[q] = done[q]
         \/ /\ done'[q] = done[q] \cup {pos[q]}
            /\ Known(q, row) # Absent => Changes(row, Known(q, row), It(q).doc) \subseteq pending'[q],
         \A r \in Row : lock[r] = q => lock'[r] = q
  PROVE  Held(q)'
<1>1. TypeOK /\ plan[q] \in Plans /\ q \in Request /\ Held(q) /\ Items(q)' = Items(q)
  BY AskedFor DEF Active, IInv, RequestInv, Items
<1>2. pos[q] \in DOMAIN Items(q) /\ It(q) = Items(q)[pos[q]]
      /\ \A i \in DOMAIN Items(q) : Items(q)[i].row \in Row
  BY <1>1, CurrentType, ItemTypes
<1>3. ASSUME plan[q].kind = "edit", isObject
      PROVE  /\ \A i \in DOMAIN Items(q) : Mine(q, Items(q)[i].row)' /\ before'[q][Items(q)[i].row] = table[Items(q)[i].row]
             /\ \A i \in done'[q] : Changes(Items(q)[i].row, table[Items(q)[i].row], Items(q)[i].doc) \subseteq pending'[q]
  <2>1. Known(q, row) = table[row] /\ table[row] # Absent /\ before[q][row] = table[row]
    BY <1>3, KnowsRow DEF Mine
  <2>2. before'[q] = before[q]
    <3>1. before \in [Request -> [Row -> Value \cup {Absent}]]
      BY <1>1 DEF TypeOK
    <3>2. QED
      BY <1>1, <2>1, <3>1
  <2>3. \A i \in DOMAIN Items(q) : Mine(q, Items(q)[i].row)' /\ before'[q][Items(q)[i].row] = table[Items(q)[i].row]
    BY <1>1, <1>2, <1>3, <2>2 DEF Held, Mine
  <2>4. ASSUME NEW i \in done'[q]
        PROVE  Changes(Items(q)[i].row, table[Items(q)[i].row], Items(q)[i].doc) \subseteq pending'[q]
    <3>1. CASE i \in done[q]
      BY <1>1, <1>3, <3>1 DEF Held
    <3>2. CASE i \notin done[q]
      <4>1. i = pos[q] /\ Changes(row, Known(q, row), It(q).doc) \subseteq pending'[q]
        BY <2>1, <2>4, <3>2
      <4>2. QED
        BY <1>2, <2>1, <4>1
    <3>3. QED
      BY <3>1, <3>2
  <2>5. QED
    BY <2>3, <2>4
<1>4. QED
  BY <1>1, <1>3 DEF Held, Changes, Mine

LEMMA RejectEditKeeps ==
  ASSUME IInv, NEW q \in Request, RejectEdit(q)
  PROVE  IInv'
<1>1. TypeOK /\ plan[q] \in Plans /\ q \in Active /\ pc[q] = "edit" /\ HasMore(q) /\ RequestInv(q)
  BY AskedFor DEF RejectEdit, Active, IInv
<1>2. PICK row \in Row : row = It(q).row
  BY <1>1, CurrentType
<1>3. /\ Reject(q) /\ UNCHANGED <<isObject, table, history, lock, pc, plan, work, pending, todo, aborted, overlapped>>
      /\ before' = before \/ before' = [before EXCEPT ![q][row] = Known(q, row)]
  BY <1>2 DEF RejectEdit
<1>4. done'[q] = done[q] /\ done' = done
  BY <1>3 DEF Reject
<1>5. OwnStep(q)
  <2>1. \A o \in Request \ {q} : pos'[o] = pos[o] /\ failed'[o] = failed[o]
    BY <1>1, <1>3 DEF Reject, Advance, TypeOK
  <2>2. \A o \in Request \ {q} : before'[o] = before[o]
    BY <1>1, <1>3 DEF TypeOK
  <2>3. QED
    BY <1>1, <1>3, <1>4, <2>1, <2>2 DEF OwnStep
<1>6. Worked(q)' /\ SoFar(q)' /\ NoNewTwins(q)'
  BY <1>1, <1>3, <1>4, ShownSame
<1>7. Staged(q)'
  BY <1>1, <1>3 DEF RequestInv, Staged
<1>8. Accounted(q)'
  BY <1>1, <1>3, EditAccounted
<1>9. Held(q)'
  BY <1>1, <1>2, <1>3, <1>4, EditHeld
<1>10. QED
  BY <1>5, <1>6, <1>7, <1>8, <1>9, OwnStepKeeps, TypeRejectEdit DEF RequestInv

\* An edited record is no duplicate of another that the request sees.
LEMMA EditMakesNoTwin ==
  ASSUME IInv, NEW q \in Active, HasMore(q), pc[q] = "edit", ~Rejected(q), isObject, OnceEach(q),
         NEW row \in Row, row = It(q).row
  PROVE  ~Duplicate(q, row, Merge(View(q, row), It(q).doc))
<1>1. TypeOK /\ plan[q] \in Plans /\ q \in Request /\ RequestInv(q)
  BY AskedFor DEF Active, IInv
<1>2. /\ pos[q] \in DOMAIN Items(q) /\ row = Items(q)[pos[q]].row /\ pos[q] \in Nat
      /\ done[q] \subseteq DOMAIN Items(q)
  BY <1>1, CurrentType DEF TypeOK, RequestInv, Accounted
<1>3. pos[q] \notin done[q]
  BY <1>1, <1>2 DEF RequestInv, Accounted
<1>4. \A i \in done[q] : Items(q)[i].row # row
  BY <1>2, <1>3 DEF OnceEach
<1>5. View(q, row) = table[row]
  BY <1>1, <1>4 DEF RequestInv, Worked, View
<1>6. Known(q, row) = table[row] /\ table[row] # Absent
  BY KnowsRow DEF Mine
<1>7. QED
  BY <1>5, <1>6 DEF Rejected

LEMMA ApplyEditKeeps ==
  ASSUME IInv, NEW q \in Request, ApplyEdit(q)
  PROVE  IInv'
<1>1. TypeOK /\ plan[q] \in Plans /\ q \in Active /\ pc[q] = "edit" /\ HasMore(q) /\ ~Rejected(q) /\ RequestInv(q)
  BY AskedFor DEF ApplyEdit, Active, IInv
<1>2. PICK row \in Row : row = It(q).row
  BY <1>1, CurrentType
<1>3. /\ before' = [before EXCEPT ![q][row] = Known(q, row)]
      /\ pending' = [pending EXCEPT ![q] =
           @ \cup (IF Known(q, row) = Absent THEN {} ELSE Changes(row, Known(q, row), It(q).doc))]
      /\ \/ /\ View(q, row) = Absent /\ Succeed(q) /\ UNCHANGED <<work, lock>>
         \/ /\ View(q, row) # Absent /\ lock[row] \in {NoRequest, q} /\ Succeed(q)
            /\ work' = [work EXCEPT ![q][row] = Merge(View(q, row), It(q).doc)]
            /\ lock' = [lock EXCEPT ![row] = q]
         \/ Reject(q) /\ UNCHANGED <<work, lock>>
      /\ UNCHANGED <<isObject, table, history, pc, plan, todo, aborted, overlapped>>
  BY <1>2 DEF ApplyEdit
<1>4. It(q).doc \in Doc /\ View(q, row) \in Value \cup {Absent}
  BY <1>1, CurrentType, ViewTypes
<1>5. /\ \A r \in Row : lock[r] = q => lock'[r] = q
      /\ \A o \in Request \ {q} : \A r \in Row : lock[r] = o => lock'[r] = o
  BY <1>1, <1>3, BatchAssumption DEF TypeOK
<1>6. OwnStep(q)
  <2>1. \A o \in Request \ {q} : pos'[o] = pos[o] /\ done'[o] = done[o] /\ failed'[o] = failed[o]
    BY <1>1, <1>3 DEF Succeed, Reject, Advance, TypeOK
  <2>2. \A o \in Request \ {q} : before'[o] = before[o] /\ pending'[o] = pending[o] /\ work'[o] = work[o]
    BY <1>1, <1>3 DEF TypeOK
  <2>3. QED
    BY <1>1, <1>3, <1>5, <2>1, <2>2 DEF OwnStep
<1>7. Staged(q)'
  BY <1>1, <1>3 DEF RequestInv, Staged
<1>8. Accounted(q)'
  BY <1>1, <1>3, EditAccounted
<1>9. Held(q)'
  <2>1. /\ pending[q] \subseteq pending'[q]
        /\ Known(q, row) # Absent => Changes(row, Known(q, row), It(q).doc) \subseteq pending'[q]
    BY <1>1, <1>3 DEF TypeOK
  <2>2. done'[q] = done[q] \/ done'[q] = done[q] \cup {pos[q]}
    BY <1>1, <1>3, OneMoreTried
  <2>3. QED
    BY <1>1, <1>2, <1>3, <1>5, <2>1, <2>2, EditHeld
<1>10. Worked(q)' /\ SoFar(q)' /\ NoNewTwins(q)'
  <2>1. CASE Reject(q) /\ UNCHANGED <<work, lock>>
    <3>1. done'[q] = done[q]
      BY <2>1 DEF Reject
    <3>2. QED
      BY <1>1, <1>3, <1>5, <2>1, <3>1, ShownSame
  <2>2. CASE /\ View(q, row) # Absent /\ lock[row] \in {NoRequest, q} /\ Succeed(q)
             /\ work' = [work EXCEPT ![q][row] = Merge(View(q, row), It(q).doc)]
             /\ lock' = [lock EXCEPT ![row] = q]
    <3>1. PICK v \in Value : v = Merge(View(q, row), It(q).doc)
      BY <1>4, <2>2, MergeTypes
    <3>2. done'[q] = done[q] \cup {pos[q]} /\ done[q] \subseteq 1..(pos[q] - 1) /\ pos[q] \in Nat
      BY <1>1, <2>2, OneMoreTried DEF RequestInv, Accounted
    <3>3. \A j \in done[q] : Items(q)[j].row = row => j < pos[q]
      BY <3>2
    <3>4. \A f \in Field : IF It(q).doc[f] # Keep THEN v[f] = It(q).doc[f] ELSE View(q, row) # Absent /\ v[f] = View(q, row)[f]
      BY <2>2, <3>1 DEF Merge
    <3>5. isObject /\ OnceEach(q) => ~Duplicate(q, row, v)
      BY <1>1, <1>2, <3>1, EditMakesNoTwin
    <3>6. Mine(q, row)'
      <4>1. table[row] # Absent
        BY <1>1, <1>4, <2>2 DEF View, RequestInv, Worked, Staged, Mine
      <4>2. QED
        BY <1>1, <1>3, <2>2, <4>1 DEF Mine, TypeOK
    <3>7. pc'[q] # "fast"
      BY <1>1, <1>3
    <3>8. work' = [work EXCEPT ![q][row] = v] /\ UNCHANGED <<isObject, table, plan, overlapped>>
      BY <1>3, <2>2, <3>1
    <3>9. (\A r \in Row : lock[r] = q => lock'[r] = q) /\ q \in Active /\ HasMore(q) /\ row = It(q).row
      BY <1>1, <1>2, <1>5
    <3>10. done'[q] = done[q] \cup {pos[q]}
      BY <3>2
    <3>11. QED
      BY <3>3, <3>4, <3>5, <3>6, <3>7, <3>8, <3>9, <3>10, ShownStored
  <2>3. CASE View(q, row) = Absent /\ Succeed(q) /\ UNCHANGED <<work, lock>>
    <3>1. ~isObject /\ table[row] = Absent
      BY <1>1, <1>2, <2>3, KnowsRow, BatchAssumption DEF View, TypeOK
    <3>2. PICK m \in DOMAIN Items(q) : m = pos[q] /\ It(q) = Items(q)[m]
      BY <1>1, CurrentType
    <3>3. done'[q] = done[q] \cup {m} /\ Items(q)' = Items(q)
      BY <1>1, <1>3, <2>3, <3>2, OneMoreTried DEF Items
    <3>4. \A r \in Row : View(q, r)' = View(q, r)
      BY <1>3, <2>3 DEF View
    <3>5. Worked(q)'
      BY <1>1, <1>2, <1>3, <2>3, <3>1, <3>2, <3>3 DEF RequestInv, Worked, Mine
    <3>6. SoFar(q)'
      <4> SUFFICES ASSUME NEW r \in Row, NEW f \in Field
                   PROVE  (IF Told(q, r, f) = {}
                           THEN View(q, r) = table[r] \/ (View(q, r) # Absent /\ table[r] # Absent /\ View(q, r)[f] = table[r][f])
                           ELSE \/ /\ View(q, r) # Absent
                                   /\ \E i \in Told(q, r, f) : (\A j \in Told(q, r, f) : j <= i) /\ View(q, r)[f] = Items(q)[i].doc[f]
                                \/ ~isObject /\ table[r] = Absent)'
        BY DEF SoFar
      <4>1. CASE r = row
        BY <1>3, <2>3, <3>1, <3>4, <4>1
      <4>2. CASE r # row
        <5>1. Told(q, r, f)' = Told(q, r, f)
          BY <1>2, <3>2, <3>3, <4>2 DEF Told
        <5>2. QED
          BY <1>1, <1>3, <3>3, <3>4, <5>1 DEF RequestInv, SoFar
      <4>3. QED
        BY <4>1, <4>2
    <3>7. NoNewTwins(q)'
      BY <1>3, <3>1 DEF NoNewTwins
    <3>8. QED
      BY <3>5, <3>6, <3>7
  <2>4. QED
    BY <1>3, <2>1, <2>2, <2>3
<1>11. QED
  BY <1>6, <1>7, <1>8, <1>9, <1>10, OwnStepKeeps, TypeApplyEdit DEF RequestInv

\* All records have been tried, and only the answer is left.
LEMMA ToCommitKeeps ==
  ASSUME IInv, TypeOK', NEW q \in Active, pc[q] \in {"edit", "slow", "log"},
         done[q] \cup failed[q] = DOMAIN Items(q),
         pc' = [pc EXCEPT ![q] = "commit"],
         UNCHANGED <<isObject, table, history, lock, plan, pos, work, before, pending, todo, done, failed, overlapped>>,
         \A o \in Request \ {q} : aborted'[o] = aborted[o]
  PROVE  IInv'
<1>1. TypeOK /\ q \in Request /\ RequestInv(q) /\ Items(q)' = Items(q) /\ plan[q] \in Plans
  BY AskedFor DEF Active, IInv, Items
<1>2. pc'[q] = "commit"
  BY <1>1 DEF TypeOK
<1>3. OwnStep(q)
  BY <1>1 DEF OwnStep, TypeOK
<1>4. Staged(q)'
  BY <1>1, <1>2 DEF RequestInv, Staged
<1>5. Accounted(q)'
  BY <1>1, <1>2 DEF RequestInv, Accounted
<1>6. Held(q)'
  BY <1>1, <1>2 DEF RequestInv, Staged, Held, Mine, Changes
<1>7. Worked(q)' /\ SoFar(q)' /\ NoNewTwins(q)'
  BY <1>2, ShownSame
<1>8. QED
  BY <1>1, <1>3, <1>4, <1>5, <1>6, <1>7, OwnStepKeeps DEF RequestInv

LEMMA FlushHistoryKeeps ==
  ASSUME IInv, NEW q \in Request, FlushHistory(q)
  PROVE  IInv'
<1>1. TypeOK /\ plan[q] \in Plans /\ q \in Active /\ pc[q] = "edit" /\ ~HasMore(q) /\ RequestInv(q)
  BY AskedFor DEF FlushHistory, Active, IInv
<1>2. done[q] \cup failed[q] = DOMAIN Items(q)
  <2>1. Len(Items(q)) \in Nat /\ DOMAIN Items(q) = 1..Len(Items(q)) /\ pos[q] \in Nat \ {0}
    BY <1>1, ItemTypes DEF TypeOK
  <2>2. pos[q] = Len(Items(q)) + 1
    BY <1>1, <2>1 DEF RequestInv, Accounted, HasMore
  <2>3. QED
    BY <1>1, <2>1, <2>2 DEF RequestInv, Accounted
<1>3. /\ pc' = [pc EXCEPT ![q] = "commit"]
      /\ UNCHANGED <<isObject, table, history, lock, plan, pos, work, before, pending, todo, done, failed, overlapped>>
      /\ \A o \in Request \ {q} : aborted'[o] = aborted[o]
  <2>1. CASE pending[q] = {}
    BY <2>1 DEF FlushHistory, Goto, own
  <2>2. CASE pending[q] # {}
    BY <1>1, <2>2 DEF FlushHistory, WriteLog, Goto, TypeOK
  <2>3. QED
    BY <2>1, <2>2
<1>4. QED
  BY <1>1, <1>2, <1>3, ToCommitKeeps, TypeFlushHistory

LEMMA LogImportKeeps ==
  ASSUME IInv, NEW q \in Request, LogImport(q)
  PROVE  IInv'
<1>1. /\ TypeOK /\ plan[q] \in Plans /\ q \in Active /\ RequestInv(q)
      /\ pc[q] = "log" \/ (pc[q] = "slow" /\ ~HasMore(q))
  BY AskedFor DEF LogImport, Active, IInv
<1>2. done[q] \cup failed[q] = DOMAIN Items(q)
  <2>1. Len(Items(q)) \in Nat /\ DOMAIN Items(q) = 1..Len(Items(q)) /\ pos[q] \in Nat
    BY <1>1, ItemTypes DEF TypeOK
  <2>2. pc[q] = "slow" => \A i \in DOMAIN Items(q) : i < pos[q]
    BY <1>1, <2>1 DEF HasMore
  <2>3. QED
    BY <1>1, <2>2 DEF RequestInv, Accounted
<1>3. /\ pc' = [pc EXCEPT ![q] = "commit"]
      /\ UNCHANGED <<isObject, table, history, lock, plan, pos, work, before, pending, todo, done, failed, overlapped>>
      /\ \A o \in Request \ {q} : aborted'[o] = aborted[o]
  BY <1>1 DEF LogImport, WriteLog, Goto, TypeOK
<1>4. TypeOK'
  BY <1>1, TypeWriteLog DEF LogImport
<1>5. QED
  BY <1>1, <1>2, <1>3, <1>4, ToCommitKeeps

\* Sorting leaves records that are equal to none, in the table or in the batch.
LEMMA FitForInsert ==
  ASSUME TypeOK, NEW q \in Request, plan[q] \in Plans, isObject, NEW T, T = DOMAIN Items(q) \ Unfit(q)
  PROVE  /\ \A i \in T : ~Duplicate(q, Items(q)[i].row, Items(q)[i].doc)
         /\ \A i, j \in T : Items(q)[i].doc = Items(q)[j].doc => i = j
<1>1. DOMAIN Items(q) = 1..Len(Items(q)) /\ Len(Items(q)) \in Nat
  BY ItemTypes
<1>2. \A i \in T : ~Duplicate(q, Items(q)[i].row, Items(q)[i].doc) /\ Items(q)[i].fate # "invalid"
  BY DEF Unfit
<1>3. ASSUME NEW i \in T, NEW j \in T, Items(q)[i].doc = Items(q)[j].doc, j < i
      PROVE  FALSE
  <2>1. j \in 1..(i - 1) /\ i \in DOMAIN Items(q)
    BY <1>1, <1>3
  <2>2. i \in Unfit(q)
    BY <1>2, <1>3, <2>1 DEF Unfit
  <2>3. QED
    BY <2>2
<1>4. ASSUME NEW i \in T, NEW j \in T, Items(q)[i].doc = Items(q)[j].doc
      PROVE  i = j
  <2>1. i \in Nat /\ j \in Nat
    BY <1>1
  <2>2. ~(j < i) /\ ~(i < j)
    BY <1>3, <1>4
  <2>3. QED
    BY <2>1, <2>2
<1>5. QED
  BY <1>2, <1>4

LEMMA SortImportKeeps ==
  ASSUME IInv, NEW q \in Request, SortImport(q)
  PROVE  IInv'
<1>1. TypeOK /\ plan[q] \in Plans /\ q \in Active /\ pc[q] = "sort" /\ RequestInv(q)
  BY AskedFor DEF SortImport, Active, IInv
<1>2. /\ failed' = [failed EXCEPT ![q] = Unfit(q)]
      /\ todo' = [todo EXCEPT ![q] = DOMAIN Items(q) \ Unfit(q)]
      /\ pc' = [pc EXCEPT ![q] = "fast"]
      /\ UNCHANGED <<isObject, table, history, lock, plan, pos, work, before, pending, done, aborted, overlapped>>
  BY DEF SortImport, Goto
<1>3. /\ pc'[q] = "fast" /\ failed'[q] = Unfit(q) /\ todo'[q] = DOMAIN Items(q) \ Unfit(q)
      /\ Items(q)' = Items(q) /\ Unfit(q) \subseteq DOMAIN Items(q)
  BY <1>1, <1>2 DEF TypeOK, Items, Unfit
<1>4. Untried(q) /\ pos[q] = 1 /\ plan[q].kind = "import"
  BY <1>1 DEF RequestInv, Staged
<1>5. OwnStep(q)
  BY <1>1, <1>2 DEF OwnStep, TypeOK
<1>6. Staged(q)'
  BY <1>1, <1>2, <1>3, <1>4 DEF Staged
<1>7. Accounted(q)'
  BY <1>2, <1>3, <1>4 DEF Accounted, Untried, AllClean
<1>8. Held(q)' /\ Worked(q)' /\ SoFar(q)'
  <2>1. \A r \in Row : work'[q][r] = Clean /\ View(q, r)' = table'[r]
    BY <1>2, <1>4 DEF Untried, AllClean, View
  <2>2. done'[q] = {}
    BY <1>2, <1>4 DEF Untried
  <2>3. QED
    BY <1>3, <2>1, <2>2 DEF Held, Worked, SoFar, Told
<1>9. NoNewTwins(q)'
  <2>1. \A r \in Row : View(q, r)' = View(q, r)
    BY <1>2 DEF View
  <2>2. isObject => /\ \A i \in todo'[q] : ~Duplicate(q, Items(q)[i].row, Items(q)[i].doc)
                    /\ \A i, j \in todo'[q] : Items(q)[i].doc = Items(q)[j].doc => i = j
    BY <1>1, <1>3, FitForInsert
  <2>3. \A i \in DOMAIN Items(q) : Duplicate(q, Items(q)[i].row, Items(q)[i].doc)' <=> Duplicate(q, Items(q)[i].row, Items(q)[i].doc)
    BY <1>2, <1>3, <2>1 DEF Duplicate
  <2>4. q \in Active /\ isObject /\ ~overlapped[q] /\ OnceEach(q) =>
          \A r, s \in Row : r # s /\ View(q, r) = View(q, s) /\ View(q, r) # Absent => table[r] = table[s] /\ table[r] # Absent
    BY <1>1 DEF RequestInv, NoNewTwins
  <2>5. todo'[q] \subseteq DOMAIN Items(q)
    BY <1>3
  <2>6. QED
    BY <1>1, <1>2, <1>3, <2>1, <2>2, <2>3, <2>4, <2>5 DEF NoNewTwins, OnceEach
<1>10. QED
  BY <1>5, <1>6, <1>7, <1>8, <1>9, OwnStepKeeps, TypeSortImport DEF RequestInv

\* What a request shows once the fast path has inserted all its fit records.
LEMMA ShownInserted ==
  ASSUME IInv, NEW q \in Active, pc[q] = "fast", UNCHANGED <<isObject, table, plan, lock, overlapped>>,
         work' = [work EXCEPT ![q] = WithRows(q, todo[q])], done'[q] = todo[q], pc'[q] # "fast"
  PROVE  Worked(q)' /\ SoFar(q)' /\ NoNewTwins(q)'
<1>1. /\ TypeOK /\ plan[q] \in Plans /\ q \in Request /\ RequestInv(q) /\ Items(q)' = Items(q)
      /\ plan[q].kind = "import" /\ work[q] = AllClean /\ todo[q] \in SUBSET DOMAIN Items(q)
  BY AskedFor DEF Active, IInv, RequestInv, Staged, Accounted, Items
<1>2. /\ work'[q] = WithRows(q, todo[q])
      /\ \A i \in todo[q] : work'[q][Items(q)[i].row] = Items(q)[i].doc
      /\ \A r \in Row : (\A i \in todo[q] : Items(q)[i].row # r) => work'[q][r] = Clean
  <2>1. work'[q] = WithRows(q, todo[q])
    BY <1>1 DEF TypeOK
  <2>2. /\ \A i \in todo[q] : WithRows(q, todo[q])[Items(q)[i].row] = Items(q)[i].doc
        /\ \A r \in Row : (\A i \in todo[q] : Items(q)[i].row # r) => WithRows(q, todo[q])[r] = work[q][r]
    BY <1>1, WithRowsIs
  <2>3. \A r \in Row : work[q][r] = Clean
    BY <1>1 DEF AllClean
  <2>4. QED
    BY <2>1, <2>2, <2>3
<1>3. /\ \A i \in todo[q] : Items(q)[i].row \in Row /\ Items(q)[i].doc \in Value
      /\ \A i, j \in todo[q] : Items(q)[i].row = Items(q)[j].row => i = j
      /\ \A i \in todo[q] : i \in Nat
  BY <1>1, ItemTypes
<1>4. /\ \A i \in todo[q] : View(q, Items(q)[i].row)' = Items(q)[i].doc
      /\ \A r \in Row : (\A i \in todo[q] : Items(q)[i].row # r) => View(q, r)' = table[r]
      /\ \A r \in Row : View(q, r) = table[r]
  <2>1. \A r \in Row : View(q, r)' = IF work'[q][r] = Clean THEN table[r] ELSE work'[q][r]
    BY DEF View
  <2>2. QED
    BY <1>1, <1>2, <1>3, <2>1, BatchAssumption DEF View, AllClean
<1>5. Worked(q)'
  BY <1>1, <1>2, <1>3, BatchAssumption DEF Worked
<1>6. SoFar(q)'
  <2> SUFFICES ASSUME NEW r \in Row, NEW f \in Field
               PROVE  (IF Told(q, r, f) = {}
                       THEN View(q, r) = table[r] \/ (View(q, r) # Absent /\ table[r] # Absent /\ View(q, r)[f] = table[r][f])
                       ELSE \/ /\ View(q, r) # Absent
                               /\ \E i \in Told(q, r, f) : (\A j \in Told(q, r, f) : j <= i) /\ View(q, r)[f] = Items(q)[i].doc[f]
                            \/ ~isObject /\ table[r] = Absent)'
    BY DEF SoFar
  <2>1. CASE \A i \in todo[q] : Items(q)[i].row # r
    <3>1. Told(q, r, f)' = {}
      BY <1>1, <2>1 DEF Told
    <3>2. QED
      BY <1>4, <2>1, <3>1
  <2>2. ASSUME NEW i \in todo[q], Items(q)[i].row = r
        PROVE  /\ Told(q, r, f)' = {i} /\ i <= i
               /\ View(q, r)' # Absent /\ View(q, r)'[f] = Items(q)[i].doc[f]
    <3>1. Items(q)[i].doc[f] # Keep
      BY <1>3, BatchAssumption DEF Value
    <3>2. Told(q, r, f)' = {i}
      BY <1>1, <1>3, <2>2, <3>1 DEF Told
    <3>3. QED
      BY <1>1, <1>3, <1>4, <2>2, <3>2, BatchAssumption
  <2>3. CASE \E i \in todo[q] : Items(q)[i].row = r
    <3>1. PICK i \in todo[q] : Items(q)[i].row = r
      BY <2>3
    <3>2. QED
      BY <1>1, <2>2, <3>1
  <2>4. QED
    BY <2>1, <2>3
<1>7. NoNewTwins(q)'
  <2> SUFFICES ASSUME isObject, ~overlapped[q], OnceEach(q), NEW r \in Row, NEW s \in Row, r # s,
                      View(q, r)' = View(q, s)', View(q, r)' # Absent
               PROVE  table[r] = table[s] /\ table[r] # Absent
    BY <1>1 DEF NoNewTwins, OnceEach
  <2>1. /\ \A i \in todo[q] : ~Duplicate(q, Items(q)[i].row, Items(q)[i].doc)
        /\ \A i, j \in todo[q] : Items(q)[i].doc = Items(q)[j].doc => i = j
    BY <1>1 DEF RequestInv, NoNewTwins
  <2>2. \A i \in todo[q] : \A t \in Row : t # Items(q)[i].row => table[t] # Items(q)[i].doc
    BY <1>4, <2>1 DEF Duplicate
  <2>3. CASE (\E i \in todo[q] : Items(q)[i].row = r) /\ (\E j \in todo[q] : Items(q)[j].row = s)
    BY <1>1, <1>3, <1>4, <2>1, <2>3
  <2>4. CASE (\E i \in todo[q] : Items(q)[i].row = r) /\ (\A j \in todo[q] : Items(q)[j].row # s)
    BY <1>1, <1>3, <1>4, <2>2, <2>4
  <2>5. CASE (\A i \in todo[q] : Items(q)[i].row # r) /\ (\E j \in todo[q] : Items(q)[j].row = s)
    BY <1>1, <1>3, <1>4, <2>2, <2>5
  <2>6. CASE (\A i \in todo[q] : Items(q)[i].row # r) /\ (\A j \in todo[q] : Items(q)[j].row # s)
    BY <1>1, <1>3, <1>4, <2>6
  <2>7. QED
    BY <2>3, <2>4, <2>5, <2>6
<1>8. QED
  BY <1>5, <1>6, <1>7

LEMMA FastInsertKeeps ==
  ASSUME IInv, NEW q \in Request, FastInsert(q)
  PROVE  IInv'
<1>1. TypeOK /\ plan[q] \in Plans /\ q \in Active /\ pc[q] = "fast" /\ RequestInv(q)
  BY AskedFor DEF FastInsert, Active, IInv
<1>2. UNCHANGED <<isObject, table, history, lock, plan, pos, before, pending, todo, failed, aborted, overlapped>>
  BY DEF FastInsert
<1>3. /\ plan[q].kind = "import" /\ pos[q] = 1 /\ done[q] = {} /\ failed[q] = DOMAIN Items(q) \ todo[q]
      /\ todo[q] \subseteq DOMAIN Items(q) /\ Items(q)' = Items(q)
      /\ Len(Items(q)) \in Nat /\ DOMAIN Items(q) = 1..Len(Items(q))
  BY <1>1, <1>2, ItemTypes DEF RequestInv, Staged, Accounted, Items
<1>4. CASE /\ work' = [work EXCEPT ![q] = WithRows(q, todo[q])]
           /\ done' = [done EXCEPT ![q] = todo[q]]
           /\ pc' = [pc EXCEPT ![q] = "log"]
  <2>1. pc'[q] = "log" /\ done'[q] = todo[q]
    BY <1>1, <1>4 DEF TypeOK, Active
  <2>2. OwnStep(q)
    BY <1>1, <1>2, <1>4 DEF OwnStep, TypeOK
  <2>3. Staged(q)' /\ Held(q)'
    BY <1>1, <1>2, <1>3, <2>1 DEF RequestInv, Staged, Held
  <2>4. Accounted(q)'
    BY <1>2, <1>3, <2>1 DEF Accounted
  <2>5. Worked(q)' /\ SoFar(q)' /\ NoNewTwins(q)'
    BY <1>1, <1>2, <1>4, <2>1, ShownInserted
  <2>6. QED
    BY <2>2, <2>3, <2>4, <2>5, OwnStepKeeps, TypeFastInsert DEF RequestInv
<1>5. CASE pc' = [pc EXCEPT ![q] = "slow"] /\ UNCHANGED <<work, done>>
  <2>1. pc'[q] = "slow"
    BY <1>1, <1>5 DEF TypeOK, Active
  <2>2. OwnStep(q)
    BY <1>1, <1>2, <1>5 DEF OwnStep, TypeOK
  <2>3. Staged(q)' /\ Held(q)'
    BY <1>1, <1>2, <1>3, <2>1 DEF RequestInv, Staged, Held
  <2>4. Accounted(q)'
    BY <1>2, <1>3, <1>5, <2>1 DEF Accounted
  <2>5. Worked(q)' /\ SoFar(q)' /\ NoNewTwins(q)'
    BY <1>1, <1>2, <1>5, <2>1, ShownSame
  <2>6. QED
    BY <2>2, <2>3, <2>4, <2>5, OwnStepKeeps, TypeFastInsert DEF RequestInv
<1>6. QED
  BY <1>4, <1>5 DEF FastInsert, Goto

\* A new record is stored: it is in the report and in the request's view.
LEMMA ShownNew ==
  ASSUME IInv, NEW q \in Active, HasMore(q), plan[q].kind # "edit", pc[q] \in {"slow", "create"},
         pc[q] = "slow" => pos[q] \in todo[q],
         ~Duplicate(q, It(q).row, It(q).doc), Succeed(q), pc'[q] # "fast",
         work' = [work EXCEPT ![q][It(q).row] = It(q).doc],
         UNCHANGED <<isObject, table, lock, plan, overlapped>>
  PROVE  Worked(q)' /\ SoFar(q)' /\ NoNewTwins(q)'
<1>1. TypeOK /\ plan[q] \in Plans /\ q \in Request
  BY AskedFor DEF Active, IInv
<1>2. PICK row \in Row, v \in Value : row = It(q).row /\ v = It(q).doc
  BY <1>1, CurrentType
<1>3. done'[q] = done[q] \cup {pos[q]} /\ done[q] \subseteq DOMAIN Items(q) /\ pos[q] \notin done[q]
  BY OneMoreTried
<1>4. \A j \in done[q] : Items(q)[j].row # row
  <2>1. pos[q] \in DOMAIN Items(q) /\ row = Items(q)[pos[q]].row
    BY <1>1, <1>2, CurrentType
  <2>2. QED
    BY <1>1, <1>3, <2>1, ItemTypes
<1>5. \A f \in Field : IF It(q).doc[f] # Keep THEN v[f] = It(q).doc[f]
                       ELSE View(q, row) # Absent /\ v[f] = View(q, row)[f]
  BY <1>2, BatchAssumption DEF Value
<1>6. /\ work' = [work EXCEPT ![q][row] = v] /\ (isObject /\ OnceEach(q) => ~Duplicate(q, row, v))
      /\ \A r \in Row : lock[r] = q => lock'[r] = q
      /\ \A j \in done[q] : Items(q)[j].row = row => j < pos[q]
      /\ done'[q] = done[q] \cup {pos[q]}
      /\ plan[q].kind = "edit" => Mine(q, row)'
  BY <1>2, <1>3, <1>4
<1>7. QED
  BY <1>2, <1>5, <1>6, ShownStored

LEMMA SlowInsertKeeps ==
  ASSUME IInv, NEW q \in Request, SlowInsert(q)
  PROVE  IInv'
<1>1. /\ TypeOK /\ plan[q] \in Plans /\ q \in Active /\ pc[q] = "slow" /\ HasMore(q) /\ RequestInv(q)
      /\ plan[q].kind = "import"
  BY AskedFor DEF SlowInsert, Active, IInv, RequestInv, Staged
<1>2. UNCHANGED <<isObject, table, history, lock, pc, plan, before, pending, todo, aborted, overlapped>>
  BY DEF SlowInsert
<1>3. Items(q)' = Items(q) /\ todo[q] \subseteq DOMAIN Items(q)
  BY <1>1, <1>2 DEF Items, RequestInv, Accounted
<1>4. /\ pos[q] \in Nat \ {0} /\ Len(Items(q)) \in Nat /\ pos[q] <= Len(Items(q))
      /\ pos[q] \in DOMAIN Items(q) /\ DOMAIN Items(q) = 1..Len(Items(q))
      /\ pos'[q] = pos[q] + 1 /\ \A o \in Request \ {q} : pos'[o] = pos[o] /\ done'[o] = done[o] /\ failed'[o] = failed[o]
  <2>1. /\ pos[q] \in Nat \ {0} /\ Len(Items(q)) \in Nat /\ pos[q] <= Len(Items(q))
        /\ pos[q] \in DOMAIN Items(q) /\ DOMAIN Items(q) = 1..Len(Items(q))
    BY <1>1, ItemTypes, CurrentType DEF TypeOK, HasMore
  <2>2. Succeed(q) \/ Reject(q) \/ (Advance(q) /\ UNCHANGED <<done, failed>>)
    BY DEF SlowInsert
  <2>3. QED
    BY <1>1, <2>1, <2>2 DEF Succeed, Reject, Advance, TypeOK, Active
<1>5. OwnStep(q)
  <2>1. \A o \in Request \ {q} : work'[o] = work[o]
    BY <1>1 DEF SlowInsert, TypeOK
  <2>2. QED
    BY <1>1, <1>2, <1>4, <2>1 DEF OwnStep
<1>6. Staged(q)' /\ Held(q)'
  BY <1>1, <1>2 DEF RequestInv, Staged, Held
<1>7. Accounted(q)'
  <2>1. /\ done[q] \cap failed[q] = {} /\ done[q] \subseteq DOMAIN Items(q)
        /\ done[q] \cup failed[q] = {i \in DOMAIN Items(q) : i \in todo[q] => i < pos[q]}
    BY <1>1 DEF RequestInv, Accounted
  <2>2. /\ done'[q] \cap failed'[q] = {} /\ done'[q] \subseteq DOMAIN Items(q)
        /\ done'[q] \cup failed'[q] = IF pos[q] \in todo[q] THEN done[q] \cup failed[q] \cup {pos[q]} ELSE done[q] \cup failed[q]
    <3>1. CASE pos[q] \in todo[q]
      <4>1. Succeed(q) \/ Reject(q)
        BY <3>1 DEF SlowInsert
      <4>2. QED
        BY <1>1, <3>1, <4>1, OneMoreTried
    <3>2. CASE pos[q] \notin todo[q]
      BY <2>1, <3>2 DEF SlowInsert
    <3>3. QED
      BY <3>1, <3>2
  <2>3. done'[q] \cup failed'[q] = {i \in DOMAIN Items(q) : i \in todo[q] => i < pos'[q]}
    BY <1>4, <2>1, <2>2
  <2>4. QED
    BY <1>1, <1>2, <1>3, <1>4, <2>2, <2>3 DEF Accounted
<1>8. Worked(q)' /\ SoFar(q)' /\ NoNewTwins(q)'
  <2>1. CASE work' = work /\ done'[q] = done[q]
    BY <1>1, <1>2, <2>1, ShownSame
  <2>2. CASE /\ pos[q] \in todo[q] /\ ~Duplicate(q, It(q).row, It(q).doc) /\ Succeed(q)
             /\ work' = [work EXCEPT ![q][It(q).row] = It(q).doc]
    BY <1>1, <1>2, <2>2, ShownNew
  <2>3. QED
    BY <2>1, <2>2 DEF SlowInsert, Reject
<1>9. QED
  BY <1>5, <1>6, <1>7, <1>8, OwnStepKeeps, TypeSlowInsert DEF RequestInv

LEMMA CreateNextKeeps ==
  ASSUME IInv, NEW q \in Request, CreateNext(q)
  PROVE  IInv'
<1>1. /\ TypeOK /\ plan[q] \in Plans /\ q \in Active /\ pc[q] = "create" /\ HasMore(q) /\ RequestInv(q)
      /\ plan[q].kind = "create"
  BY AskedFor DEF CreateNext, Active, IInv, RequestInv, Staged
<1>2. CASE Fail(q)
  BY <1>1, <1>2, FailKeeps
<1>3. CASE ~Fail(q)
  <2>1. /\ UNCHANGED <<isObject, table, history, lock, plan, before, pending, todo, aborted, overlapped>>
        /\ Succeed(q) \/ Reject(q)
        /\ \/ Reject(q) /\ pc' = [pc EXCEPT ![q] = "refuse"] /\ work' = work
           \/ /\ Succeed(q) /\ pc' = pc /\ ~Duplicate(q, It(q).row, It(q).doc)
              /\ work' = [work EXCEPT ![q][It(q).row] = It(q).doc]
    BY <1>3 DEF CreateNext, Goto
  <2>2. /\ pos'[q] = pos[q] + 1 /\ pos[q] \in Nat \ {0} /\ Len(Items(q)) \in Nat /\ pos[q] <= Len(Items(q))
        /\ Succeed(q) => done'[q] = done[q] \cup {pos[q]} /\ failed'[q] = failed[q]
        /\ Reject(q) => done'[q] = done[q]
        /\ done'[q] \subseteq DOMAIN Items(q) /\ done'[q] \cap failed'[q] = {}
    BY <1>1, <2>1, OneMoreTried
  <2>3. Items(q)' = Items(q) /\ pc'[q] \in {"create", "refuse"} /\ (pc'[q] = "create" => Succeed(q))
    BY <1>1, <2>1 DEF Items, TypeOK, Active
  <2>4. OwnStep(q)
    <3>1. \A o \in Request \ {q} : pos'[o] = pos[o] /\ done'[o] = done[o] /\ failed'[o] = failed[o]
      BY <1>1, <2>1 DEF Succeed, Reject, Advance, TypeOK
    <3>2. \A o \in Request \ {q} : work'[o] = work[o] /\ pc'[o] = pc[o]
      BY <1>1, <2>1 DEF TypeOK
    <3>3. QED
      BY <1>1, <2>1, <3>1, <3>2 DEF OwnStep
  <2>5. Staged(q)' /\ Held(q)'
    BY <1>1, <2>1, <2>3 DEF Staged, Held
  <2>6. Accounted(q)'
    <3>1. pc'[q] = "create" => done'[q] = 1..(pos'[q] - 1) /\ failed'[q] = {} /\ pos'[q] <= Len(Items(q)) + 1
      <4>1. done[q] = 1..(pos[q] - 1) /\ failed[q] = {}
        BY <1>1 DEF RequestInv, Accounted
      <4>2. 1..(pos[q] - 1) \cup {pos[q]} = 1..((pos[q] + 1) - 1)
        BY <2>2
      <4>3. ASSUME pc'[q] = "create"
            PROVE  done'[q] = 1..(pos'[q] - 1) /\ failed'[q] = {}
        <5>1. done'[q] = done[q] \cup {pos[q]} /\ failed'[q] = failed[q]
          BY <2>2, <2>3, <4>3
        <5>2. pos'[q] - 1 = (pos[q] + 1) - 1
          BY <2>2
        <5>3. QED
          BY <4>1, <4>2, <5>1, <5>2
      <4>4. pos'[q] <= Len(Items(q)) + 1
        BY <2>2
      <4>5. QED
        BY <4>3, <4>4
    <3>2. QED
      BY <2>2, <2>3, <3>1 DEF Accounted
  <2>7. Worked(q)' /\ SoFar(q)' /\ NoNewTwins(q)'
    <3>1. CASE Reject(q) /\ work' = work
      BY <1>1, <2>1, <2>2, <2>3, <3>1, ShownSame
    <3>2. CASE /\ Succeed(q) /\ ~Duplicate(q, It(q).row, It(q).doc)
               /\ work' = [work EXCEPT ![q][It(q).row] = It(q).doc]
      BY <1>1, <2>1, <2>3, <3>2, ShownNew
    <3>3. QED
      BY <2>1, <3>1, <3>2
  <2>8. QED
    BY <2>4, <2>5, <2>6, <2>7, OwnStepKeeps, TypeCreateNext DEF RequestInv
<1>4. QED
  BY <1>2, <1>3

LEMMA AnswerKeeps ==
  ASSUME IInv, NEW q \in Request, AnswerReport(q) \/ AnswerError(q)
  PROVE  IInv'
<1>1. q \in Active
  BY DEF AnswerReport, AnswerError, Active
<1>2. Fail(q) \/ (Commit(q) /\ End(q, "done")) \/ (Commit(q) /\ End(q, "failed"))
  BY DEF AnswerReport, AnswerError
<1>3. QED
  BY <1>1, <1>2, FailKeeps, CommitKeeps

LEMMA InitInv ==
  ASSUME Init
  PROVE  IInv
<1>1. TypeOK
  BY TypeInit
<1>2. Active = {}
  BY DEF Init, Active
<1>3. \A q \in Request : RequestInv(q)
  BY DEF Init, RequestInv, Staged, Untried, Accounted, Held, Worked, SoFar, NoNewTwins, Active
<1>4. QED
  BY <1>1, <1>2, <1>3 DEF IInv, Apart

LEMMA NextInv ==
  ASSUME IInv, [Next]_vars
  PROVE  IInv'
<1>1. CASE UNCHANGED vars
  <2>1. TypeOK'
    BY <1>1, TypeNext
  <2>2. Active' = Active
    BY <1>1 DEF vars, Active
  <2>3. Apart'
    BY <1>1, <2>2 DEF IInv, Apart, vars
  <2>4. ASSUME NEW q \in Request
        PROVE  RequestInv(q)'
    <3>1. RequestInv(q) /\ Items(q)' = Items(q) /\ (\A r \in Row : View(q, r)' = View(q, r) /\ (Mine(q, r)' <=> Mine(q, r)))
      BY <1>1 DEF IInv, vars, own, Items, View, Mine
    <3>2. Staged(q)' /\ Accounted(q)'
      BY <1>1, <2>2, <3>1 DEF RequestInv, Staged, Accounted, Untried, AllClean, vars, own
    <3>3. Held(q)' /\ Worked(q)'
      BY <1>1, <2>2, <3>1 DEF RequestInv, Held, Worked, Mine, Changes, vars, own
    <3>4. SoFar(q)'
      BY <1>1, <2>2, <3>1 DEF RequestInv, SoFar, Told, vars, own
    <3>5. NoNewTwins(q)'
      BY <1>1, <2>2, <3>1 DEF RequestInv, NoNewTwins, OnceEach, Duplicate, View, vars, own
    <3>6. QED
      BY <3>2, <3>3, <3>4, <3>5 DEF RequestInv
  <2>5. QED
    BY <2>1, <2>3, <2>4 DEF IInv
<1>2. ASSUME NEW q \in Request, Submit(q)
      PROVE  IInv'
  BY <1>2, SubmitKeeps
<1>3. ASSUME NEW q \in Request, Crash(q) \/ WaitFails(q)
      PROVE  IInv'
  BY <1>3, FailKeeps DEF Crash, WaitFails, Active
<1>4. ASSUME NEW q \in Request, LockTarget(q) \/ Fetch(q) \/ RejectEdit(q) \/ ApplyEdit(q) \/ FlushHistory(q)
      PROVE  IInv'
  BY <1>4, LockTargetKeeps, FetchKeeps, RejectEditKeeps, ApplyEditKeeps, FlushHistoryKeeps
<1>5. ASSUME NEW q \in Request, SortImport(q) \/ FastInsert(q) \/ SlowInsert(q) \/ LogImport(q)
      PROVE  IInv'
  BY <1>5, SortImportKeeps, FastInsertKeeps, SlowInsertKeeps, LogImportKeeps
<1>6. ASSUME NEW q \in Request, CreateNext(q)
      PROVE  IInv'
  BY <1>6, CreateNextKeeps
<1>7. ASSUME NEW q \in Request, AnswerReport(q) \/ AnswerError(q)
      PROVE  IInv'
  BY <1>7, AnswerKeeps
<1>8. QED
  BY <1>1, <1>2, <1>3, <1>4, <1>5, <1>6, <1>7 DEF Next

\* The invariant of the requests holds throughout, for any batches of any requests.
THEOREM Invariance == Spec => []IInv
<1>1. Init => IInv
  BY InitInv
<1>2. IInv /\ [Next]_vars => IInv'
  BY NextInv
<1>3. QED
  BY <1>1, <1>2, PTL DEF Spec

\* Every variable has its type throughout (the variables of RecordBatch).
THEOREM TypeCorrect == Spec => []TypeOK
<1>1. IInv => TypeOK
  BY DEF IInv
<1>2. QED
  BY <1>1, Invariance, PTL

\* A report is answered by one step only, at the end of a batch that has been tried
\* to its last record.
LEMMA ReportComes ==
  ASSUME IInv, [Next]_vars, NEW q \in Request, Reports(q)
  PROVE  /\ q \in Active /\ Commit(q) /\ done[q] \cup failed[q] = DOMAIN Items(q)
         /\ pc[q] # "fast"
         /\ plan[q].kind = "edit" => pc[q] = "commit" /\ ~(aborted[q] /\ isObject)
<1>1. TypeOK
  BY DEF IInv
<1>2. pc[q] # "done" /\ pc'[q] = "done"
  BY DEF Reports
<1>3. AnswerReport(q) /\ ~Fail(q)
  <2>1. ASSUME NEW o \in Request, NEW l \in {"idle", "lock", "fetch", "edit", "sort", "fast", "slow", "log",
                                             "create", "refuse", "commit", "failed"},
               pc' = [pc EXCEPT ![o] = l]
        PROVE  FALSE
    BY <1>1, <1>2, <2>1 DEF TypeOK
  <2>2. ASSUME pc' = pc
        PROVE  FALSE
    BY <1>2, <2>2
  <2>3. ASSUME NEW o \in Request, Fail(o) \/ Crash(o) \/ WaitFails(o) \/ AnswerError(o)
        PROVE  FALSE
    BY <2>1, <2>3 DEF Fail, Crash, WaitFails, AnswerError, End, Goto
  <2>4. ASSUME NEW o \in Request, LockTarget(o) \/ Fetch(o) \/ RejectEdit(o) \/ ApplyEdit(o) \/ FlushHistory(o)
        PROVE  FALSE
    BY <2>1, <2>2, <2>3, <2>4 DEF LockTarget, Fetch, RejectEdit, ApplyEdit, FlushHistory, WriteLog, Goto
  <2>5. ASSUME NEW o \in Request, SortImport(o) \/ FastInsert(o) \/ SlowInsert(o) \/ LogImport(o) \/ CreateNext(o)
        PROVE  FALSE
    BY <2>1, <2>2, <2>3, <2>5 DEF SortImport, FastInsert, SlowInsert, LogImport, CreateNext, WriteLog, Goto
  <2>6. ASSUME NEW o \in Request, Submit(o)
        PROVE  FALSE
    <3>1. PICK p \in Plans :
            Goto(o, CASE p.kind = "edit"   -> IF isObject THEN "lock" ELSE "fetch"
                      [] p.kind = "import" -> "sort"
                      [] p.kind = "create" -> "create")
      BY <2>6 DEF Submit
    <3>2. p \in Plan
      BY BatchAssumption
    <3>3. PICK l \in {"lock", "fetch", "sort", "create"} : pc' = [pc EXCEPT ![o] = l]
      BY <3>1, <3>2 DEF Goto, Plan
    <3>4. QED
      BY <2>1, <3>3
  <2>7. ASSUME NEW o \in Request, o # q, AnswerReport(o)
        PROVE  FALSE
    <3>1. PICK l : pc' = [pc EXCEPT ![o] = l]
      BY <2>7 DEF AnswerReport, Fail, End, Goto
    <3>2. QED
      BY <1>1, <1>2, <2>7, <3>1 DEF TypeOK
  <2>8. QED
    BY <2>2, <2>3, <2>4, <2>5, <2>6, <2>7 DEF Next, vars
<1>4. Commit(q) /\ q \in Active /\ pc[q] # "fast"
  BY <1>3 DEF AnswerReport, Active
<1>5. RequestInv(q) /\ plan[q] \in Plans
  BY <1>4, AskedFor DEF Active, IInv
<1>6. done[q] \cup failed[q] = DOMAIN Items(q)
  <2>1. CASE pc[q] = "commit"
    BY <1>5, <2>1 DEF RequestInv, Accounted
  <2>2. CASE pc[q] = "create" /\ ~HasMore(q)
    <3>1. Len(Items(q)) \in Nat /\ DOMAIN Items(q) = 1..Len(Items(q)) /\ pos[q] \in Nat \ {0}
      BY <1>1, <1>5, ItemTypes DEF TypeOK
    <3>2. pos[q] = Len(Items(q)) + 1
      BY <1>5, <2>2, <3>1 DEF RequestInv, Accounted, HasMore
    <3>3. QED
      BY <1>5, <2>2, <3>1, <3>2 DEF RequestInv, Accounted
  <2>3. QED
    BY <1>3, <2>1, <2>2 DEF AnswerReport
<1>7. plan[q].kind = "edit" => pc[q] = "commit" /\ ~(aborted[q] /\ isObject)
  BY <1>3, <1>5 DEF AnswerReport, RequestInv, Staged
<1>8. QED
  BY <1>4, <1>6, <1>7

\* A report accounts for every record of the batch once, and the table is what it
\* says: what bulk_insert_with_report and updateRawSQL promise, whichever
\* savepoints were rolled back and whatever the other requests were doing.
THEOREM ReportsAreTrue == Spec => ReportIsTrue
<1>1. IInv /\ [Next]_vars =>
        [\A q \in Request : Reports(q) =>
           /\ done[q] \cap failed[q] = {} /\ done[q] \cup failed[q] = DOMAIN Items(q)
           /\ aborted[q] \/ Stored(q)]_vars
  <2> SUFFICES ASSUME IInv, [Next]_vars, NEW q \in Request, Reports(q)
               PROVE  /\ done[q] \cap failed[q] = {} /\ done[q] \cup failed[q] = DOMAIN Items(q)
                      /\ aborted[q] \/ Stored(q)
    OBVIOUS
  <2>1. q \in Active /\ Commit(q) /\ done[q] \cup failed[q] = DOMAIN Items(q)
    BY ReportComes
  <2>2. Accounted(q) /\ SoFar(q)
    BY DEF IInv, RequestInv
  <2>3. ~aborted[q] => \A r \in Row : table'[r] = View(q, r)
    BY <2>1 DEF Commit
  <2>4. ~aborted[q] => Stored(q)
    BY <2>1, <2>2, <2>3 DEF SoFar, Stored
  <2>5. QED
    BY <2>1, <2>2, <2>4 DEF Accounted
<1>2. QED
  BY <1>1, Invariance, PTL DEF Spec, ReportIsTrue

\* The field history has every change of a reported edit with the value that it
\* replaced: the locking loop of patch_permission keeps the rows as they were read
\* by bulk_fetch_current_rows.
THEOREM HistoryIsTrue == Spec => HistoryTellsReplacedValue
<1>1. IInv /\ [Next]_vars =>
        [\A q \in Request : Reports(q) /\ isObject /\ plan[q].kind = "edit" =>
           \A i \in done[q] :
             LET r == Items(q)[i].row IN
             (\A j \in DOMAIN Items(q) : Items(q)[j].row = r => j = i)
               => Changes(r, table[r], Items(q)[i].doc) \subseteq history']_vars
  <2> SUFFICES ASSUME IInv, [Next]_vars, NEW q \in Request, Reports(q), isObject, plan[q].kind = "edit",
                      NEW i \in done[q]
               PROVE  Changes(Items(q)[i].row, table[Items(q)[i].row], Items(q)[i].doc) \subseteq history'
    OBVIOUS
  <2>1. Commit(q) /\ pc[q] = "commit" /\ ~aborted[q]
    BY ReportComes
  <2>2. Changes(Items(q)[i].row, table[Items(q)[i].row], Items(q)[i].doc) \subseteq pending[q]
    BY <2>1 DEF IInv, RequestInv, Held
  <2>3. QED
    BY <2>1, <2>2 DEF Commit
<1>2. QED
  BY <1>1, Invariance, PTL DEF Spec, HistoryTellsReplacedValue

\* A request that nobody overlapped leaves leads unique if it found them so: the
\* query of validate_lead_name_contact_uniqueness is enough as long as requests do
\* not meet, on the fast path, the slow path and record by record.
THEOREM TwinsNeedOverlap == Spec => DuplicatesNeedOverlap
<1>1. IInv /\ [Next]_vars =>
        [\A q \in Request : Reports(q) /\ isObject /\ ~overlapped[q] /\ OnceEach(q) =>
           \A r, s \in Row : r # s /\ table'[r] = table'[s] /\ table'[r] # Absent =>
             table[r] = table[s] /\ table[r] # Absent]_vars
  <2> SUFFICES ASSUME IInv, [Next]_vars, NEW q \in Request, Reports(q), isObject, ~overlapped[q], OnceEach(q),
                      NEW r \in Row, NEW s \in Row, r # s, table'[r] = table'[s], table'[r] # Absent
               PROVE  table[r] = table[s] /\ table[r] # Absent
    OBVIOUS
  <2>1. q \in Active /\ Commit(q)
    BY ReportComes
  <2>2. View(q, r) = View(q, s) /\ View(q, r) # Absent => table[r] = table[s] /\ table[r] # Absent
    BY <2>1 DEF IInv, RequestInv, NoNewTwins
  <2>3. QED
    BY <2>1, <2>2 DEF Commit
<1>2. QED
  BY <1>1, Invariance, PTL DEF Spec, DuplicatesNeedOverlap
=============================================================================
