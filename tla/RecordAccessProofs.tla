------------------------- MODULE RecordAccessProofs -------------------------
(* Theorems about RecordAccess, for any users, rows, requests and policy     *)
(* edits: types, the discipline of row locks, and what they guarantee.       *)
EXTENDS RecordAccess, SequenceTheorems, TLAPS

\* Replacing one target of a batch leaves a batch.
LEMMA RetargetType ==
  ASSUME NEW s \in Seq(Target), NEW i \in Nat \ {0}, i <= Len(s), NEW t \in Target
  PROVE  [s EXCEPT ![i] = t] \in Seq(Target)
<1>1. i \in 1..Len(s)
  BY LenProperties, SMT
<1> QED
  BY <1>1, ExceptSeq

\* The current target of a batch that has one more is a target.
LEMMA CurType ==
  ASSUME TypeOK, NEW q \in Request, HasMore(q)
  PROVE  Cur(q) \in Target
<1>1. batch[q] \in Seq(Target) /\ pos[q] \in Nat \ {0} /\ pos[q] <= Len(batch[q])
  BY DEF TypeOK, HasMore
<1>2. pos[q] \in 1..Len(batch[q])
  BY <1>1, LenProperties, SMT
<1> QED
  BY <1>1, <1>2, ElementOfSeq DEF Cur

\* What a change makes of a row is a row.
LEMMA EffectType ==
  ASSUME NEW j \in Job, NEW w \in Row
  PROVE  Effect(j, w) \in Row
<1>1. j.user \in User /\ j.to \in User
  BY DEF Job
<1> QED
  BY <1>1 DEF Effect, Row

\* Ending a request, with rows that are rows, keeps the types.
LEMMA EndType ==
  ASSUME TypeOK, NEW q \in Request, NEW l \in {"done", "failed"}, End(q, l),
         row' \in [Record -> Row]
  PROVE  TypeOK'
<1>1. NoSnap \in Snap
  BY DEF NoSnap, Snap, Level
<1>2. <<>> \in Seq(Target)
  BY EmptySeq
<1> QED
  BY <1>1, <1>2 DEF TypeOK, End, Goto, policy

-----------------------------------------------------------------------------
\* Every action keeps the types.
LEMMA TypeInit == Init => TypeOK
<1> SUFFICES ASSUME Init PROVE TypeOK
  OBVIOUS
<1>1. NoSnap \in Snap
  BY DEF NoSnap, Snap, Level
<1>2. <<>> \in Seq(Target)
  BY EmptySeq
<1>3. PICK st \in Start : isObject = st.isObject /\ canDo = st.canDo /\ level = st.level
                         /\ manager = st.manager /\ row = st.row
  BY DEF Init
<1>4. /\ isObject \in BOOLEAN /\ canDo \in Allowance /\ level \in Level
      /\ manager \in Line /\ row \in [Record -> Row]
  BY <1>3, PopulationAssumption
<1> QED
  BY <1>1, <1>2, <1>4, PopulationAssumption DEF Init, TypeOK

\* A new request keeps the types.
LEMMA TypeSubmit ==
  ASSUME TypeOK, NEW q \in Request, Submit(q)
  PROVE  TypeOK'
<1>1. PICK j \in Jobs : job' = [job EXCEPT ![q] = j] /\ batch' = [batch EXCEPT ![q] = j.targets]
  BY DEF Submit
<1>2. j \in Job /\ j.targets \in Seq(Target)
  BY PopulationAssumption DEF Job
<1> QED
  BY <1>1, <1>2 DEF TypeOK, Submit, Goto, policy

\* A request that fails keeps the types.
LEMMA TypeFail ==
  ASSUME TypeOK, NEW q \in Request, Fail(q)
  PROVE  TypeOK'
<1>1. row' \in [Record -> Row]
  BY DEF TypeOK, Fail
<1> QED
  BY <1>1, EndType DEF Fail

\* The policy is read by requests that have a job.
LEMMA TypeRead ==
  ASSUME TypeOK, NEW q \in Request, ReadPolicy(q) \/ ReadShares(q) \/ ReadScope(q)
  PROVE  TypeOK'
<1>1. \A s \in Snap, g \in SUBSET Record, i \in SUBSET User, l \in Level, n \in Nat, b \in BOOLEAN :
        /\ [s EXCEPT !.at = n, !.level = l, !.perm = b] \in Snap
        /\ [s EXCEPT !.granted = g] \in Snap
        /\ [s EXCEPT !.ids = i, !.barred = g] \in Snap
  BY DEF Snap
<1>2. snap[q] \in Snap /\ level \in Level /\ changes \in Nat
  BY PopulationAssumption DEF TypeOK
<1>3. CASE ReadPolicy(q)
  <2>1. CASE Fail(q)
    BY <2>1, TypeFail
  <2>2. CASE /\ snap' = [snap EXCEPT ![q].at = changes, ![q].level = level,
                                     ![q].perm = ObjectBit(job[q].op) \in canDo[job[q].user]]
             /\ Goto(q, "shares")
             /\ UNCHANGED <<policy, row, lock, job, batch, pos, checked, dirty>>
    <3> DEFINE perm == ObjectBit(job[q].op) \in canDo[job[q].user]
    <3>1. snap' = [snap EXCEPT ![q] = [snap[q] EXCEPT !.at = changes, !.level = level, !.perm = perm]]
      BY <2>2 DEF TypeOK
    <3>2. snap' \in [Request -> Snap]
      <4>1. perm \in BOOLEAN
        OBVIOUS
      <4> HIDE DEF perm
      <4>2. [snap[q] EXCEPT !.at = changes, !.level = level, !.perm = perm] \in Snap
        BY <1>1, <1>2, <4>1
      <4> QED
        BY <3>1, <4>2 DEF TypeOK
    <3>3. Goto(q, "shares") /\ UNCHANGED <<policy, row, lock, job, batch, pos, checked, dirty>>
      BY <2>2
    <3> QED
      BY <3>2, <3>3 DEF TypeOK, Goto, policy
  <2>3. CASE Goto(q, "apply") /\ UNCHANGED <<policy, row, lock, job, batch, pos, snap, checked, dirty>>
    BY <2>3 DEF TypeOK, Goto, policy
  <2> QED
    BY <1>3, <2>1, <2>2, <2>3 DEF ReadPolicy
<1>4. CASE ReadShares(q)
  <2> DEFINE granted == SharedWith(job[q].user, ShareBit(job[q].op))
  <2>1. CASE Fail(q)
    BY <2>1, TypeFail
  <2>2. CASE /\ snap' = [snap EXCEPT ![q].granted = granted]
             /\ Goto(q, "scope")
             /\ UNCHANGED <<policy, row, lock, job, batch, pos, checked, dirty>>
    <3>1. granted \in SUBSET Record
      BY DEF SharedWith
    <3>2. snap' = [snap EXCEPT ![q] = [snap[q] EXCEPT !.granted = granted]]
      BY <2>2 DEF TypeOK
    <3>3. snap' \in [Request -> Snap]
      BY <1>1, <1>2, <3>1, <3>2 DEF TypeOK
    <3> QED
      BY <2>2, <3>3 DEF TypeOK, Goto, policy
  <2> QED
    BY <1>4, <2>1, <2>2 DEF ReadShares
<1>5. CASE ReadScope(q)
  <2> DEFINE ids    == IF snap[q].perm THEN Subordinates(job[q].user) ELSE {}
             barred == SharedWith(job[q].user, "read") \ snap[q].granted
  <2>1. ids \in SUBSET User /\ barred \in SUBSET Record
    BY DEF Subordinates, SharedWith
  <2>2. snap' = [snap EXCEPT ![q] = [snap[q] EXCEPT !.ids = ids, !.barred = barred]]
    BY <1>5 DEF TypeOK, ReadScope
  <2>3. snap' \in [Request -> Snap]
    BY <1>1, <1>2, <2>1, <2>2 DEF TypeOK
  <2> QED
    BY <1>5, <2>3 DEF TypeOK, ReadScope, Goto, policy
<1> QED
  BY <1>3, <1>4, <1>5

\* Steps of the two loops.
LEMMA RetargetKeepsBatch ==
  ASSUME TypeOK, NEW q \in Request, HasMore(q), NEW by \in {"id", "row"}, NEW r \in Record,
         Retarget(q, by, r)
  PROVE  batch' \in [Request -> Seq(Target)]
<1> DEFINE t == [by |-> by, key |-> r]
<1>1. t \in Target
  BY DEF Target
<1>2. [batch[q] EXCEPT ![pos[q]] = t] \in Seq(Target)
  BY <1>1, RetargetType DEF TypeOK, HasMore
<1>3. batch' = [batch EXCEPT ![q] = [batch[q] EXCEPT ![pos[q]] = t]]
  BY DEF Retarget, TypeOK
<1> QED
  BY <1>2, <1>3 DEF TypeOK

\* A target given by id, as a child or found by the delete loop names a row.
LEMMA CurKey ==
  ASSUME TypeOK, NEW q \in Request, HasMore(q), Cur(q).by # "name"
  PROVE  Cur(q).key \in Record
BY CurType DEF Target

\* Changing one more row, or none.
LEMMA DirtyType ==
  ASSUME TypeOK, NEW q \in Request, NEW r \in Record,
         dirty' = [dirty EXCEPT ![q] = @ \cup {r}] \/ dirty' = dirty
  PROVE  dirty' \in [Request -> SUBSET Record]
<1>1. dirty \in [Request -> SUBSET Record]
  BY DEF TypeOK
<1> QED
  BY <1>1

\* The steps of the locking loop keep the types.
LEMMA TypeCheck ==
  ASSUME TypeOK, NEW q \in Request,
         SkipChild(q) \/ ResolveName(q) \/ LockAndCheck(q) \/ FinishChecks(q)
  PROVE  TypeOK'
<1>1. CASE Fail(q)
  BY <1>1, TypeFail
<1>2. CASE Advance(q) /\ UNCHANGED <<policy, row, lock, pc, job, batch, snap, checked, dirty>>
  BY <1>2 DEF TypeOK, Advance, policy
<1>3. CASE ResolveName(q)
  <2>1. CASE Cur(q).by = "name" /\ HasMore(q) /\ (\E r \in Named(q, Cur(q).key) : Retarget(q, "id", r))
             /\ UNCHANGED <<policy, row, lock, pc, job, pos, snap, checked, dirty>>
    <3>1. PICK r \in Record : Retarget(q, "id", r)
      BY <2>1 DEF Named
    <3>2. batch' \in [Request -> Seq(Target)]
      BY <2>1, <3>1, RetargetKeepsBatch
    <3> QED
      BY <2>1, <3>2 DEF TypeOK, policy
  <2> QED
    BY <1>1, <1>2, <1>3, <2>1 DEF ResolveName
<1>4. CASE LockAndCheck(q)
  <2> DEFINE r == Cur(q).key
  <2>1. r \in Record
    BY <1>4, CurKey DEF LockAndCheck
  <2>2. CASE /\ lock' = [lock EXCEPT ![r] = q] /\ checked' = [checked EXCEPT ![q] = @ \cup {r}]
             /\ Advance(q) /\ UNCHANGED <<policy, row, pc, job, batch, snap, dirty>>
    BY <2>1, <2>2 DEF TypeOK, Advance, policy
  <2> QED
    BY <1>1, <1>4, <2>2 DEF LockAndCheck
<1>5. CASE FinishChecks(q)
  <2>1. CASE Goto(q, "apply") /\ Rewind(q) /\ UNCHANGED <<policy, row, lock, job, batch, snap, checked, dirty>>
    BY <2>1 DEF TypeOK, Goto, Rewind, policy
  <2> QED
    BY <1>1, <1>5, <2>1 DEF FinishChecks
<1> QED
  BY <1>2, <1>3, <1>4, <1>5 DEF SkipChild

\* The steps that write rows keep the types.
LEMMA TypeApply ==
  ASSUME TypeOK, NEW q \in Request,
         ApplyHeld(q) \/ ProbeForDelete(q) \/ ApplyUnlocked(q) \/ ApplyNamed(q)
  PROVE  TypeOK'
<1>1. CASE Fail(q)
  BY <1>1, TypeFail
<1>2. CASE ApplyHeld(q) /\ ~Fail(q)
  <2>1. Cur(q).key \in Record
    BY <1>2, CurKey DEF ApplyHeld
  <2>2. dirty' = [dirty EXCEPT ![q] = @ \cup {Cur(q).key}] \/ dirty' = dirty
    BY <1>2 DEF ApplyHeld
  <2>3. dirty' \in [Request -> SUBSET Record]
    BY <2>1, <2>2, DirtyType
  <2>4. Advance(q)
    BY <1>2 DEF ApplyHeld
  <2>5. UNCHANGED <<policy, row, lock, pc, job, batch, snap, checked>>
    BY <1>2 DEF ApplyHeld
  <2> QED
    BY <2>3, <2>4, <2>5 DEF TypeOK, Advance, policy
<1>3. CASE ProbeForDelete(q) /\ ~Fail(q)
  <2>1. Cur(q).key \in Record
    BY <1>3, CurKey DEF ProbeForDelete
  <2>2. Retarget(q, "row", Cur(q).key) /\ HasMore(q)
        /\ UNCHANGED <<policy, row, lock, pc, job, pos, snap, checked, dirty>>
    BY <1>3 DEF ProbeForDelete
  <2>3. batch' \in [Request -> Seq(Target)]
    BY <2>1, <2>2, RetargetKeepsBatch
  <2> QED
    BY <2>2, <2>3 DEF TypeOK, policy
<1>4. CASE ApplyUnlocked(q)
  <2>1. HasMore(q) /\ Cur(q).by # "name"
    BY <1>4 DEF ApplyUnlocked, NeedsLock
  <2>2. Cur(q).key \in Record
    BY <2>1, CurKey
  <2>3. \/ lock' = [lock EXCEPT ![Cur(q).key] = q] /\ dirty' = [dirty EXCEPT ![q] = @ \cup {Cur(q).key}]
        \/ lock' = lock /\ dirty' = dirty
    BY <1>4 DEF ApplyUnlocked
  <2>4. dirty' \in [Request -> SUBSET Record] /\ lock' \in [Record -> Request \cup {NoRequest}]
    <3>1. lock \in [Record -> Request \cup {NoRequest}]
      BY DEF TypeOK
    <3> QED
      BY <2>2, <2>3, <3>1, DirtyType
  <2>5. Advance(q)
    BY <1>4 DEF ApplyUnlocked
  <2>6. UNCHANGED <<policy, row, pc, job, batch, snap, checked>>
    BY <1>4 DEF ApplyUnlocked
  <2> QED
    BY <2>4, <2>5, <2>6 DEF TypeOK, Advance, policy
<1>5. CASE ApplyNamed(q)
  <2>1. HasMore(q) /\ UNCHANGED <<policy, row, pc, job, snap, checked>>
    BY <1>5 DEF ApplyNamed
  <2>2. /\ batch' \in [Request -> Seq(Target)]
        /\ pos' \in [Request -> Nat \ {0}]
        /\ lock' \in [Record -> Request \cup {NoRequest}]
        /\ dirty' \in [Request -> SUBSET Record]
    <3>1. CASE (\E r \in Named(q, Cur(q).key) : Retarget(q, "id", r)) /\ UNCHANGED <<pos, lock, dirty>>
      <4>1. PICK r \in Record : Retarget(q, "id", r)
        BY <3>1 DEF Named
      <4> QED
        BY <2>1, <3>1, <4>1, RetargetKeepsBatch DEF TypeOK
    <3>2. CASE /\ \E r \in Record : lock' = [lock EXCEPT ![r] = q] /\ dirty' = [dirty EXCEPT ![q] = @ \cup {r}]
               /\ Advance(q) /\ UNCHANGED batch
      BY <3>2 DEF TypeOK, Advance
    <3>3. CASE Advance(q) /\ UNCHANGED <<batch, lock, dirty>>
      BY <3>3 DEF TypeOK, Advance
    <3> QED
      BY <1>5, <3>1, <3>2, <3>3 DEF ApplyNamed
  <2> QED
    BY <2>1, <2>2 DEF TypeOK, policy
<1> QED
  BY <1>1, <1>2, <1>3, <1>4, <1>5

\* A request that is being served has the job it was submitted with.
Working  == {"policy", "shares", "scope", "check", "apply"}
JobTaken == \A q \in Request : pc[q] \in Working => job[q] \in Job

\* The end of a transaction keeps the types.
LEMMA TypeEnd ==
  ASSUME TypeOK, JobTaken, NEW q \in Request, Commit(q) \/ WaitFails(q) \/ Crash(q)
  PROVE  TypeOK'
<1>1. CASE Fail(q)
  BY <1>1, TypeFail
<1>2. CASE Commit(q)
  <2>1. job[q] \in Job
    BY <1>2 DEF Commit, JobTaken, Working
  <2>2. \A r \in Record : Effect(job[q], row[r]) \in Row
    BY <2>1, EffectType DEF TypeOK
  <2>3. row' \in [Record -> Row]
    BY <1>2, <2>2 DEF Commit, TypeOK
  <2> QED
    BY <1>2, <2>3, EndType DEF Commit
<1>3. CASE Advance(q) /\ UNCHANGED <<policy, row, lock, pc, job, batch, snap, checked, dirty>>
  BY <1>3 DEF TypeOK, Advance, policy
<1> QED
  BY <1>1, <1>2, <1>3 DEF WaitFails, Crash

\* Administration and the creation of records keep the types.
LEMMA TypeOthers ==
  ASSUME TypeOK, EditPolicy \/ \E u \in Creators, r \in Record : Create(u, r)
  PROVE  TypeOK'
<1>1. CASE EditPolicy
  <2>1. changes' \in 0..MaxPolicyChanges
    BY <1>1, PopulationAssumption DEF EditPolicy, TypeOK
  <2>2. /\ share' \in [User -> [Record -> SUBSET {"read", "write", "delete"}]]
        /\ canDo' \in Allowance /\ level' \in Level /\ manager' \in Line
    <3>1. CASE (\E g \in Grants : share' = [share EXCEPT ![g.to][g.of] = g.mask]) /\ UNCHANGED <<canDo, level, manager>>
      <4>1. PICK g \in Grants : share' = [share EXCEPT ![g.to][g.of] = g.mask]
        BY <3>1
      <4>2. g.to \in User /\ g.of \in Record /\ g.mask \in SUBSET {"read", "write", "delete"}
        BY PopulationAssumption
      <4> QED
        BY <3>1, <4>1, <4>2 DEF TypeOK
    <3> QED
      BY <1>1, <3>1, PopulationAssumption DEF EditPolicy, TypeOK
  <2> QED
    BY <1>1, <2>1, <2>2 DEF EditPolicy, TypeOK
<1>2. CASE \E u \in Creators, r \in Record : Create(u, r)
  <2>1. PICK u \in Creators, r \in Record : Create(u, r)
    BY <1>2
  <2>2. [state |-> "live", owner |-> u] \in Row
    BY PopulationAssumption DEF Row
  <2> QED
    BY <2>1, <2>2 DEF Create, TypeOK, policy
<1> QED
  BY <1>1, <1>2

-----------------------------------------------------------------------------
\* The inductive invariant. A row is locked by the request that checked or changed
\* it, and locks are held only in a transaction.
LockInv ==
  /\ \A q \in Request : \A r \in checked[q] \cup dirty[q] : lock[r] = q
  /\ \A q \in Request, r \in Record : lock[r] = q => pc[q] \in {"check", "apply"}

\* What a request has read agrees with the policy, as long as nobody has edited it.
Fresh(q) ==
  LET u == job[q].user  op == job[q].op  s == snap[q] IN
  /\ pc[q] \in {"shares", "scope", "check"} \/ checked[q] # {} => isObject
  /\ isObject /\ pc[q] \in {"shares", "scope", "check", "apply"} => s.at <= changes
  /\ isObject /\ s.at = changes =>
       /\ pc[q] \in {"shares", "scope", "check", "apply"} =>
            s.perm = (ObjectBit(op) \in canDo[u]) /\ s.level = level
       /\ pc[q] \in {"scope", "check", "apply"} => s.granted = SharedWith(u, ShareBit(op))
       /\ pc[q] \in {"check", "apply"} =>
            /\ s.barred = SharedWith(u, "read") \ s.granted
            /\ s.ids = IF s.perm THEN Subordinates(u) ELSE {}
FreshInv == \A q \in Request : Fresh(q)

IInv == TypeOK /\ JobTaken /\ LockInv /\ FreshInv /\ CheckedRowsStayAuthorized

\* What steps do to locks: nothing, one more row taken and changed, or taken and
\* checked, or the request goes from one stage to the next.
Moves == UNCHANGED <<policy, row, lock, pc, job, snap, checked, dirty>>
Dirties(q, r) ==
  /\ pc[q] = "apply" /\ lock[r] \in {NoRequest, q}
  /\ lock' = [lock EXCEPT ![r] = q]
  /\ dirty' = [dirty EXCEPT ![q] = @ \cup {r}]
  /\ UNCHANGED <<policy, row, pc, job, snap, checked>>
Takes(q, r) ==
  /\ pc[q] = "check" /\ lock[r] \in {NoRequest, q} /\ Exists(r) /\ Permitted(q, r)
  /\ lock' = [lock EXCEPT ![r] = q]
  /\ checked' = [checked EXCEPT ![q] = @ \cup {r}]
  /\ UNCHANGED <<policy, row, pc, job, snap, dirty>>
Proceeds(q, l) ==
  /\ pc[q] \in {"idle", "policy", "shares", "scope", "check"} /\ l \in Working
  /\ pc[q] = "check" => l = "apply" /\ snap' = snap
  /\ pc[q] # "idle" => job' = job
  /\ pc' = [pc EXCEPT ![q] = l]
  /\ UNCHANGED <<policy, row, lock, checked, dirty>>

\* A step that writes fails, moves on or makes one row dirty.
LEMMA ApplyKinds ==
  ASSUME TypeOK, NEW q \in Request,
         ApplyHeld(q) \/ ProbeForDelete(q) \/ ApplyUnlocked(q) \/ ApplyNamed(q)
  PROVE  Fail(q) \/ Moves \/ \E r \in Record : Dirties(q, r)
<1>1. CASE ApplyHeld(q) /\ ~Fail(q)
  <2> DEFINE r == Cur(q).key
  <2>1. r \in Record
    BY <1>1, CurKey DEF ApplyHeld
  <2>2. pc[q] = "apply" /\ lock[r] = q
    BY <1>1 DEF ApplyHeld
  <2>3. lock = [lock EXCEPT ![r] = q]
    BY <2>1, <2>2 DEF TypeOK
  <2>4. UNCHANGED <<policy, row, lock, pc, job, batch, snap, checked>>
    BY <1>1 DEF ApplyHeld
  <2>5. dirty' = [dirty EXCEPT ![q] = @ \cup {r}] \/ dirty' = dirty
    BY <1>1 DEF ApplyHeld
  <2> QED
    BY <2>1, <2>2, <2>3, <2>4, <2>5 DEF Moves, Dirties
<1>2. CASE ProbeForDelete(q) /\ ~Fail(q)
  BY <1>2 DEF ProbeForDelete, Moves
<1>3. CASE ApplyUnlocked(q)
  <2> DEFINE r == Cur(q).key
  <2>1. HasMore(q) /\ Cur(q).by # "name" /\ pc[q] = "apply" /\ lock[r] = NoRequest
    BY <1>3 DEF ApplyUnlocked, NeedsLock
  <2>2. r \in Record
    BY <2>1, CurKey
  <2>3. UNCHANGED <<policy, row, pc, job, batch, snap, checked>>
    BY <1>3 DEF ApplyUnlocked
  <2>4. \/ lock' = [lock EXCEPT ![r] = q] /\ dirty' = [dirty EXCEPT ![q] = @ \cup {r}]
        \/ lock' = lock /\ dirty' = dirty
    BY <1>3 DEF ApplyUnlocked
  <2> QED
    BY <2>1, <2>2, <2>3, <2>4 DEF Moves, Dirties
<1>4. CASE ApplyNamed(q)
  <2>1. pc[q] = "apply" /\ UNCHANGED <<policy, row, pc, job, snap, checked>>
    BY <1>4 DEF ApplyNamed
  <2>2. \/ lock' = lock /\ dirty' = dirty
        \/ \E r \in Record : /\ lock[r] = NoRequest /\ lock' = [lock EXCEPT ![r] = q]
                             /\ dirty' = [dirty EXCEPT ![q] = @ \cup {r}]
    BY <1>4 DEF ApplyNamed
  <2> QED
    BY <2>1, <2>2 DEF Moves, Dirties
<1> QED
  BY <1>1, <1>2, <1>3, <1>4

\* A step of the locking loop fails, moves on, goes over to writing or takes a row.
LEMMA CheckKinds ==
  ASSUME TypeOK, NEW q \in Request,
         SkipChild(q) \/ ResolveName(q) \/ LockAndCheck(q) \/ FinishChecks(q)
  PROVE  Fail(q) \/ Moves \/ Proceeds(q, "apply") \/ \E r \in Record : Takes(q, r)
<1>1. CASE SkipChild(q)
  BY <1>1 DEF SkipChild, Moves
<1>2. CASE ResolveName(q)
  BY <1>2 DEF ResolveName, Moves
<1>3. CASE LockAndCheck(q)
  <2>1. Cur(q).key \in Record
    BY <1>3, CurKey DEF LockAndCheck
  <2> QED
    BY <1>3, <2>1 DEF LockAndCheck, Takes
<1>4. CASE FinishChecks(q)
  BY <1>4 DEF FinishChecks, Goto, Proceeds, Working
<1> QED
  BY <1>1, <1>2, <1>3, <1>4

\* A step that reads the policy fails or goes on.
LEMMA ReadKinds ==
  ASSUME TypeOK, NEW q \in Request,
         Submit(q) \/ ReadPolicy(q) \/ ReadShares(q) \/ ReadScope(q)
  PROVE  Fail(q) \/ \E l \in Working : Proceeds(q, l)
<1>1. CASE Submit(q)
  BY <1>1 DEF Submit, Goto, Proceeds, Working
<1>2. CASE ReadPolicy(q)
  BY <1>2 DEF ReadPolicy, Goto, Proceeds, Working
<1>3. CASE ReadShares(q)
  BY <1>3 DEF ReadShares, Goto, Proceeds, Working
<1>4. CASE ReadScope(q)
  BY <1>4 DEF ReadScope, Goto, Proceeds, Working
<1> QED
  BY <1>1, <1>2, <1>3, <1>4

\* Row locks: each kind of step keeps the discipline.
LEMMA LockKept ==
  ASSUME TypeOK, LockInv, NEW q \in Request,
         \/ Moves
         \/ \E l \in Working : Proceeds(q, l)
         \/ \E l \in {"done", "failed"} : End(q, l)
         \/ \E r \in Record : Dirties(q, r) \/ Takes(q, r)
  PROVE  LockInv'
<1> USE PopulationAssumption
<1>1. CASE Moves
  BY <1>1 DEF Moves, LockInv
<1>2. ASSUME NEW l \in Working, Proceeds(q, l) PROVE LockInv'
  BY <1>2 DEF Proceeds, LockInv, TypeOK, Working
<1>3. ASSUME NEW l \in {"done", "failed"}, End(q, l) PROVE LockInv'
  BY <1>3 DEF End, Goto, LockInv, TypeOK
<1>4. ASSUME NEW r \in Record, Dirties(q, r) PROVE LockInv'
  BY <1>4 DEF Dirties, LockInv, TypeOK
<1>5. ASSUME NEW r \in Record, Takes(q, r) PROVE LockInv'
  BY <1>5 DEF Takes, LockInv, TypeOK
<1> QED
  BY <1>1, <1>2, <1>3, <1>4, <1>5

\* A request that has not reached its transaction has checked nothing.
LEMMA NothingChecked ==
  ASSUME TypeOK, LockInv, NEW q \in Request, pc[q] \notin {"check", "apply"}
  PROVE  checked[q] = {}
BY DEF LockInv, TypeOK

\* A request at work keeps its job.
LEMMA JobKept ==
  ASSUME TypeOK, JobTaken, NEW q \in Request,
         \/ Moves
         \/ Submit(q)
         \/ \E l \in Working : Proceeds(q, l) /\ pc[q] # "idle"
         \/ \E l \in {"done", "failed"} : End(q, l)
         \/ \E r \in Record : Dirties(q, r) \/ Takes(q, r)
  PROVE  JobTaken'
<1>1. CASE Submit(q)
  <2>1. PICK j \in Jobs : job' = [job EXCEPT ![q] = j]
    BY <1>1 DEF Submit
  <2> QED
    BY <1>1, <2>1, PopulationAssumption DEF Submit, Goto, JobTaken, TypeOK, Working
<1>2. ASSUME NEW l \in Working, Proceeds(q, l), pc[q] # "idle" PROVE JobTaken'
  BY <1>2 DEF Proceeds, JobTaken, TypeOK, Working
<1>3. ASSUME NEW l \in {"done", "failed"}, End(q, l) PROVE JobTaken'
  BY <1>3 DEF End, Goto, JobTaken, TypeOK, Working
<1> QED
  BY <1>1, <1>2, <1>3 DEF Moves, Dirties, Takes, JobTaken

\* The sharing rules are functions of the policy alone.
LEMMA PolicyOnly ==
  ASSUME UNCHANGED policy
  PROVE  /\ \A u, bit : SharedWith(u, bit)' = SharedWith(u, bit)
         /\ \A u : Subordinates(u)' = Subordinates(u)
<1>1. share' = share /\ manager' = manager
  BY DEF policy
<1> QED
  BY <1>1 DEF SharedWith, Subordinates

\* What a request has read is untouched by the steps of others, and out of date
\* once the policy is edited.
Same(p) == pc'[p] = pc[p] /\ job'[p] = job[p] /\ snap'[p] = snap[p] /\ checked'[p] = checked[p]

\* What a request has read stays fresh while neither it nor the policy changes.
LEMMA FreshSame ==
  ASSUME UNCHANGED policy, NEW p \in Request, Same(p), Fresh(p)
  PROVE  Fresh(p)'
<1>1. /\ \A u, bit : SharedWith(u, bit)' = SharedWith(u, bit)
      /\ \A u : Subordinates(u)' = Subordinates(u)
  BY PolicyOnly
<1>2. isObject' = isObject /\ canDo' = canDo /\ level' = level /\ changes' = changes
  BY DEF policy
<1> QED
  BY <1>1, <1>2 DEF Same, Fresh

\* A change of the policy outdates every snapshot, so that nothing is claimed of it.
LEMMA FreshEdit ==
  ASSUME TypeOK, EditPolicy, NEW p \in Request, Fresh(p), LockInv
  PROVE  Fresh(p)'
<1>1. changes \in Nat /\ changes' = changes + 1 /\ snap[p].at \in Nat
  BY PopulationAssumption DEF EditPolicy, TypeOK, Snap
<1>2. UNCHANGED <<isObject, pc, job, snap, checked>>
  BY DEF EditPolicy
<1>3. checked[p] # {} => pc[p] \in {"check", "apply"}
  BY NothingChecked
<1> QED
  BY <1>1, <1>2, <1>3 DEF Fresh

\* What a request has just read is fresh, if all it read before is.
LEMMA FreshRead ==
  ASSUME TypeOK, LockInv, FreshInv, NEW q \in Request,
         (ReadPolicy(q) \/ ReadShares(q) \/ ReadScope(q)) /\ ~Fail(q)
  PROVE  Fresh(q)'
<1>1. checked[q] = {} /\ UNCHANGED <<policy, job, checked>>
  BY NothingChecked DEF ReadPolicy, ReadShares, ReadScope
<1>2. /\ \A u, bit : SharedWith(u, bit)' = SharedWith(u, bit)
      /\ \A u : Subordinates(u)' = Subordinates(u)
  BY <1>1, PolicyOnly
<1>3. isObject' = isObject /\ canDo' = canDo /\ level' = level /\ changes' = changes
  BY <1>1 DEF policy
<1>4. Fresh(q) /\ snap[q] \in Snap /\ changes \in Nat
  BY PopulationAssumption DEF FreshInv, TypeOK
<1>5. CASE ReadPolicy(q)
  <2>1. CASE Goto(q, "apply") /\ ~isObject
    BY <1>1, <1>3, <2>1 DEF Fresh, Goto, TypeOK
  <2>2. CASE isObject /\ Goto(q, "shares")
    <3>1. snap' = [snap EXCEPT ![q].at = changes, ![q].level = level,
                              ![q].perm = ObjectBit(job[q].op) \in canDo[job[q].user]]
      BY <1>5, <2>2 DEF ReadPolicy, Goto, TypeOK
    <3>2. /\ snap'[q].at = changes /\ snap'[q].level = level
          /\ snap'[q].perm = (ObjectBit(job[q].op) \in canDo[job[q].user])
      BY <1>4, <3>1 DEF TypeOK, Snap
    <3>3. pc'[q] = "shares"
      BY <2>2 DEF Goto, TypeOK
    <3> QED
      BY <1>1, <1>3, <1>4, <2>2, <3>2, <3>3 DEF Fresh
  <2> QED
    BY <1>5, <2>1, <2>2 DEF ReadPolicy
<1>6. CASE ReadShares(q)
  <2> DEFINE granted == SharedWith(job[q].user, ShareBit(job[q].op))
  <2>1. pc[q] = "shares" /\ pc'[q] = "scope" /\ snap' = [snap EXCEPT ![q].granted = granted]
    BY <1>6 DEF ReadShares, Goto, TypeOK
  <2>2. /\ snap'[q].at = snap[q].at /\ snap'[q].level = snap[q].level
        /\ snap'[q].perm = snap[q].perm /\ snap'[q].granted = granted
    BY <1>4, <2>1 DEF TypeOK, Snap
  <2> QED
    BY <1>1, <1>2, <1>3, <1>4, <2>1, <2>2 DEF Fresh
<1>7. CASE ReadScope(q)
  <2> DEFINE ids    == IF snap[q].perm THEN Subordinates(job[q].user) ELSE {}
             barred == SharedWith(job[q].user, "read") \ snap[q].granted
  <2>1. pc[q] = "scope" /\ pc'[q] = "check" /\ snap' = [snap EXCEPT ![q].ids = ids, ![q].barred = barred]
    BY <1>7 DEF ReadScope, Goto, TypeOK
  <2>2. /\ snap'[q].at = snap[q].at /\ snap'[q].level = snap[q].level
        /\ snap'[q].perm = snap[q].perm /\ snap'[q].granted = snap[q].granted
        /\ snap'[q].ids = ids /\ snap'[q].barred = barred
    BY <1>4, <2>1 DEF TypeOK, Snap
  <2> QED
    BY <1>1, <1>2, <1>3, <1>4, <2>1, <2>2 DEF Fresh
<1> QED
  BY <1>5, <1>6, <1>7

\* ... and every step of one request keeps what all of them have read.
LEMMA FreshKept ==
  ASSUME TypeOK, LockInv, FreshInv, NEW q \in Request,
         \/ Moves
         \/ Submit(q)
         \/ (ReadPolicy(q) \/ ReadShares(q) \/ ReadScope(q)) /\ ~Fail(q)
         \/ pc[q] = "check" /\ Proceeds(q, "apply")
         \/ \E l \in {"done", "failed"} : End(q, l)
         \/ \E r \in Record : Dirties(q, r) \/ Takes(q, r)
  PROVE  FreshInv'
<1> SUFFICES ASSUME NEW p \in Request PROVE Fresh(p)'
  BY DEF FreshInv
<1>1. Fresh(p)
  BY DEF FreshInv
<1>2. UNCHANGED policy
  BY DEF Moves, Submit, ReadPolicy, ReadShares, ReadScope, Fail, Proceeds, End, Dirties, Takes
<1>3. CASE p # q
  <2>1. Same(p)
    BY <1>3 DEF Same, Moves, Submit, Goto, ReadPolicy, ReadShares, ReadScope, Proceeds, End,
                Dirties, Takes, TypeOK
  <2> QED
    BY <1>1, <1>2, <2>1, FreshSame
<1>4. CASE p = q
  <2>1. CASE Moves
    BY <1>1, <1>2, <2>1, FreshSame DEF Moves, Same
  <2>2. CASE Submit(q)
    <3>1. checked[q] = {} /\ pc'[q] = "policy" /\ checked' = checked
      BY <2>2, NothingChecked DEF Submit, Goto, TypeOK
    <3> QED
      BY <1>4, <3>1 DEF Fresh
  <2>3. CASE (ReadPolicy(q) \/ ReadShares(q) \/ ReadScope(q)) /\ ~Fail(q)
    BY <1>4, <2>3, FreshRead
  <2>4. CASE pc[q] = "check" /\ Proceeds(q, "apply")
    <3>1. pc'[q] = "apply" /\ job' = job /\ snap' = snap /\ checked' = checked
      BY <2>4 DEF Proceeds, TypeOK
    <3>2. /\ \A u, bit : SharedWith(u, bit)' = SharedWith(u, bit)
          /\ \A u : Subordinates(u)' = Subordinates(u)
      BY <1>2, PolicyOnly
    <3>3. isObject' = isObject /\ canDo' = canDo /\ level' = level /\ changes' = changes
      BY <1>2 DEF policy
    <3> QED
      BY <1>1, <1>4, <2>4, <3>1, <3>2, <3>3 DEF Fresh
  <2>5. ASSUME NEW l \in {"done", "failed"}, End(q, l) PROVE Fresh(p)'
    <3>1. pc'[q] = l /\ checked'[q] = {}
      BY <2>5 DEF End, Goto, TypeOK
    <3> QED
      BY <1>4, <3>1 DEF Fresh
  <2>6. ASSUME NEW r \in Record, Dirties(q, r) PROVE Fresh(p)'
    BY <1>1, <1>2, <2>6, FreshSame DEF Dirties, Same
  <2>7. ASSUME NEW r \in Record, Takes(q, r) PROVE Fresh(p)'
    <3>1. pc[q] = "check" /\ UNCHANGED <<pc, job, snap>>
      BY <2>7 DEF Takes
    <3>2. /\ \A u, bit : SharedWith(u, bit)' = SharedWith(u, bit)
          /\ \A u : Subordinates(u)' = Subordinates(u)
      BY <1>2, PolicyOnly
    <3>3. isObject' = isObject /\ canDo' = canDo /\ level' = level /\ changes' = changes
      BY <1>2 DEF policy
    <3> QED
      BY <1>1, <1>4, <3>1, <3>2, <3>3 DEF Fresh
  <2> QED
    BY <2>1, <2>2, <2>3, <2>4, <2>5, <2>6, <2>7
<1> QED
  BY <1>3, <1>4

\* A row keeps its authorisation while nobody changes it or the request's reading.
LEMMA AuthSame ==
  ASSUME NEW p \in Request, NEW r \in Record, row'[r] = row[r], snap'[p] = snap[p],
         Exists(r) /\ Permitted(p, r)
  PROVE  (Exists(r) /\ Permitted(p, r))'
BY DEF Exists, Permitted

\* No step takes the authorisation from a checked row.
LEMMA AuthKept ==
  ASSUME TypeOK, TypeOK', LockInv, CheckedRowsStayAuthorized, NEW q \in Request,
         \/ Moves
         \/ Submit(q)
         \/ (ReadPolicy(q) \/ ReadShares(q) \/ ReadScope(q)) /\ ~Fail(q)
         \/ pc[q] = "check" /\ Proceeds(q, "apply")
         \/ Fail(q) \/ Commit(q)
         \/ \E r \in Record : Dirties(q, r) \/ Takes(q, r)
  PROVE  CheckedRowsStayAuthorized'
<1> SUFFICES ASSUME NEW p \in Request, NEW r \in Record, r \in checked'[p]
             PROVE  (Exists(r) /\ Permitted(p, r))'
  BY DEF CheckedRowsStayAuthorized, TypeOK
<1> USE PopulationAssumption
<1>1. r \in checked[p] => Exists(r) /\ Permitted(p, r) /\ lock[r] = p /\ pc[p] \in {"check", "apply"}
  BY DEF CheckedRowsStayAuthorized, LockInv
<1>2. CASE Commit(q)
  <2>1. p # q /\ checked'[p] = checked[p] /\ snap'[p] = snap[p]
    BY <1>2 DEF Commit, End, TypeOK
  <2>2. r \notin dirty[q]
    BY <1>1, <2>1 DEF LockInv, TypeOK
  <2>3. row'[r] = row[r]
    BY <1>2, <2>2 DEF Commit
  <2> QED
    BY <1>1, <2>1, <2>3, AuthSame
<1>3. CASE Fail(q)
  <2>1. End(q, "failed") /\ row' = row
    BY <1>3 DEF Fail
  <2>2. checked' = [checked EXCEPT ![q] = {}] /\ snap' = [snap EXCEPT ![q] = NoSnap]
    BY <2>1 DEF End
  <2>3. p # q /\ checked'[p] = checked[p] /\ snap'[p] = snap[p]
    BY <2>2 DEF TypeOK
  <2> QED
    BY <1>1, <2>1, <2>3, AuthSame
<1>4. CASE Submit(q) \/ ((ReadPolicy(q) \/ ReadShares(q) \/ ReadScope(q)) /\ ~Fail(q))
  <2>1. pc[q] \notin {"check", "apply"} /\ row' = row /\ checked' = checked
    BY <1>4 DEF Submit, ReadPolicy, ReadShares, ReadScope
  <2>2. p # q
    BY <1>1, <2>1
  <2>3. snap'[p] = snap[p]
    BY <1>4, <2>2 DEF Submit, ReadPolicy, ReadShares, ReadScope, TypeOK
  <2> QED
    BY <1>1, <2>1, <2>3, AuthSame
<1>5. CASE Moves \/ (pc[q] = "check" /\ Proceeds(q, "apply")) \/ \E s \in Record : Dirties(q, s)
  <2>1. row' = row /\ snap' = snap /\ checked' = checked
    BY <1>5 DEF Moves, Proceeds, Dirties
  <2> QED
    BY <1>1, <2>1, AuthSame
<1>6. ASSUME NEW s \in Record, Takes(q, s) PROVE (Exists(r) /\ Permitted(p, r))'
  <2>1. row' = row /\ snap' = snap /\ Exists(s) /\ Permitted(q, s)
    BY <1>6 DEF Takes
  <2>2. r \in checked[p] \/ (p = q /\ r = s)
    BY <1>6 DEF Takes, TypeOK
  <2> QED
    BY <1>1, <2>1, <2>2, AuthSame
<1> QED
  BY <1>2, <1>3, <1>4, <1>5, <1>6

-----------------------------------------------------------------------------
\* The inductive invariant holds at the beginning.
LEMMA InvInit == Init => IInv
<1> SUFFICES ASSUME Init PROVE IInv
  OBVIOUS
<1>1. TypeOK
  BY TypeInit
<1>2. \A q \in Request : pc[q] = "idle" /\ checked[q] = {} /\ dirty[q] = {}
  BY DEF Init
<1>3. \A r \in Record : lock[r] \notin Request
  BY PopulationAssumption DEF Init
<1> QED
  BY <1>1, <1>2, <1>3 DEF IInv, JobTaken, Working, LockInv, FreshInv, Fresh, CheckedRowsStayAuthorized

\* Every step of a request keeps the inductive invariant.
LEMMA InvStep ==
  ASSUME IInv, NEW q \in Request, Submit(q) \/ Step(q) \/ StatementTimeout(q) \/ Crash(q)
  PROVE  IInv'
<1> USE DEF IInv
<1>1. TypeOK'
  BY TypeSubmit, TypeRead, TypeCheck, TypeApply, TypeEnd DEF Step, StatementTimeout, DeadlockVictim
<1>2. \/ Moves
      \/ Submit(q)
      \/ (ReadPolicy(q) \/ ReadShares(q) \/ ReadScope(q)) /\ ~Fail(q)
      \/ pc[q] = "check" /\ Proceeds(q, "apply")
      \/ Fail(q) \/ Commit(q)
      \/ \E r \in Record : Dirties(q, r) \/ Takes(q, r)
  <2>1. CASE SkipChild(q) \/ ResolveName(q) \/ LockAndCheck(q) \/ FinishChecks(q)
    <3>1. pc[q] = "check"
      BY <2>1 DEF SkipChild, ResolveName, LockAndCheck, FinishChecks
    <3> QED
      BY <2>1, <3>1, CheckKinds
  <2>2. CASE ApplyHeld(q) \/ ProbeForDelete(q) \/ ApplyUnlocked(q) \/ ApplyNamed(q)
    BY <2>2, ApplyKinds
  <2>3. CASE WaitFails(q) \/ Crash(q)
    BY <2>3 DEF WaitFails, Crash, Moves
  <2> QED
    BY <2>1, <2>2, <2>3 DEF Step, StatementTimeout, DeadlockVictim
<1>3. Fail(q) \/ Commit(q) => \E l \in {"done", "failed"} : End(q, l)
  BY DEF Fail, Commit
<1>4. Submit(q) \/ ((ReadPolicy(q) \/ ReadShares(q) \/ ReadScope(q)) /\ ~Fail(q))
        => \E l \in Working : Proceeds(q, l)
  <2>1. Submit(q) => Proceeds(q, "policy")
    BY DEF Submit, Goto, Proceeds, Working
  <2> QED
    BY <2>1, ReadKinds DEF Working
<1>5. LockInv'
  BY <1>2, <1>3, <1>4, LockKept DEF Working
<1>6. JobTaken'
  <2>1. (ReadPolicy(q) \/ ReadShares(q) \/ ReadScope(q)) => pc[q] # "idle"
    BY DEF ReadPolicy, ReadShares, ReadScope
  <2> QED
    BY <1>2, <1>3, <1>4, <2>1, JobKept DEF Working
<1>7. FreshInv'
  BY <1>2, <1>3, FreshKept
<1>8. CheckedRowsStayAuthorized'
  BY <1>1, <1>2, AuthKept
<1> QED
  BY <1>1, <1>5, <1>6, <1>7, <1>8

\* Administration and the creation of records keep the inductive invariant.
LEMMA InvOthers ==
  ASSUME IInv, EditPolicy \/ \E u \in Creators, r \in Record : Create(u, r)
  PROVE  IInv'
<1> USE PopulationAssumption DEF IInv
<1>1. TypeOK'
  BY TypeOthers
<1>2. CASE EditPolicy
  <2>1. UNCHANGED <<isObject, row, lock, pc, job, batch, pos, snap, checked, dirty>>
    BY <1>2 DEF EditPolicy
  <2>2. FreshInv'
    BY <1>2, FreshEdit DEF FreshInv
  <2>3. LockInv' /\ JobTaken'
    BY <2>1 DEF LockInv, JobTaken
  <2>4. CheckedRowsStayAuthorized'
    BY <2>1, AuthSame DEF CheckedRowsStayAuthorized, TypeOK
  <2> QED
    BY <1>1, <2>2, <2>3, <2>4
<1>3. ASSUME NEW u \in Creators, NEW r \in Record, Create(u, r) PROVE IInv'
  <2>1. UNCHANGED <<policy, lock, pc, job, batch, pos, snap, checked, dirty>> /\ lock[r] = NoRequest
    BY <1>3 DEF Create
  <2>2. LockInv' /\ JobTaken'
    BY <2>1 DEF LockInv, JobTaken
  <2>3. FreshInv'
    BY <2>1, FreshSame DEF FreshInv, Same
  <2>4. ASSUME NEW p \in Request, NEW s \in checked[p] PROVE (Exists(s) /\ Permitted(p, s))'
    <3>1. s \in Record /\ lock[s] = p /\ Exists(s) /\ Permitted(p, s)
      BY <2>4 DEF TypeOK, LockInv, CheckedRowsStayAuthorized
    <3>2. row'[s] = row[s]
      BY <1>3, <2>1, <3>1 DEF Create, TypeOK
    <3> QED
      BY <2>1, <3>1, <3>2, AuthSame
  <2>5. CheckedRowsStayAuthorized'
    BY <2>1, <2>4 DEF CheckedRowsStayAuthorized
  <2> QED
    BY <1>1, <2>2, <2>3, <2>5
<1> QED
  BY <1>2, <1>3

\* A step that changes nothing keeps the inductive invariant.
LEMMA InvStutter == IInv /\ UNCHANGED vars => IInv'
<1> SUFFICES ASSUME IInv, UNCHANGED vars PROVE IInv'
  OBVIOUS
<1> USE DEF IInv
<1>1. UNCHANGED <<policy, row, lock, pc, job, batch, pos, snap, checked, dirty>>
  BY DEF vars
<1>2. TypeOK'
  BY <1>1 DEF TypeOK, policy
<1>3. LockInv' /\ JobTaken'
  BY <1>1 DEF LockInv, JobTaken
<1>4. FreshInv'
  BY <1>1, FreshSame DEF FreshInv, Same
<1>5. CheckedRowsStayAuthorized'
  BY <1>1, AuthSame DEF CheckedRowsStayAuthorized, TypeOK
<1> QED
  BY <1>2, <1>3, <1>4, <1>5

\* The invariant holds throughout every behaviour.
THEOREM Invariance == Spec => []IInv
<1>1. Init => IInv
  BY InvInit
<1>2. IInv /\ [Next]_vars => IInv'
  BY InvStep, InvOthers, InvStutter DEF Next
<1> QED
  BY <1>1, <1>2, PTL DEF Spec

\* The variables keep their types: in particular a request's place in its batch
\* and what it has read are never carried over from an earlier request.
THEOREM TypeCorrect == Spec => []TypeOK
BY Invariance, PTL DEF IInv

\* What patch_permission and delete_permission lock rows for: a row that passed
\* the ownership check keeps passing it until the transaction ends, whoever else
\* transfers, deletes or restores rows.
THEOREM NoChangeUnderCheck == Spec => []CheckedRowsStayAuthorized
BY Invariance, PTL DEF IInv

\* Two open transactions never change the same row, nor does one change what the
\* other has authorised.
THEOREM RowsHaveOneWriter == Spec => []OneWriterPerRow
<1>1. IInv => OneWriterPerRow
  <2> SUFFICES ASSUME IInv, NEW p \in Request, NEW q \in Request, p # q
               PROVE  dirty[p] \cap (dirty[q] \cup checked[q]) = {}
    BY DEF OneWriterPerRow
  <2> QED
    BY DEF IInv, LockInv
<1> QED
  BY <1>1, Invariance, PTL

\* A row passes the check only if the sharing rules in force allow the operation,
\* unless the policy was edited after the request began to read it.
THEOREM ChecksFollowPolicy == Spec => []DecisionsFollowPolicy
<1>1. IInv => DecisionsFollowPolicy
  <2> SUFFICES ASSUME IInv, NEW q \in Request, NEW r \in checked[q], snap[q].at = changes
               PROVE  MayAct(job[q].user, job[q].op, r)
    BY DEF DecisionsFollowPolicy
  <2> DEFINE u  == job[q].user
             op == job[q].op
  <2>1. /\ pc[q] \in {"check", "apply"} /\ Permitted(q, r) /\ Fresh(q) /\ r \in Record
        /\ snap[q] \in Snap
    BY DEF IInv, TypeOK, LockInv, CheckedRowsStayAuthorized, FreshInv
  <2>2. isObject
    BY <2>1 DEF Fresh
  <2>3. /\ snap[q].perm = (ObjectBit(op) \in canDo[u]) /\ snap[q].level = level
        /\ snap[q].granted = SharedWith(u, ShareBit(op))
        /\ snap[q].barred = SharedWith(u, "read") \ snap[q].granted
        /\ snap[q].ids = IF snap[q].perm THEN Subordinates(u) ELSE {}
    BY <2>1, <2>2 DEF Fresh
  <2>4. CASE row[r].owner \in snap[q].ids
    BY <2>3, <2>4 DEF MayAct
  <2>5. CASE r \in snap[q].granted
    BY <2>3, <2>5 DEF MayAct, SharedWith
  <2>6. CASE row[r].owner \notin snap[q].ids /\ r \notin snap[q].granted
    <3>1. r \notin snap[q].barred /\ snap[q].level = "Public Read Write" /\ snap[q].perm
      BY <2>1, <2>6 DEF Permitted, Snap
    <3>2. "read" \notin share[u][r]
      BY <2>1, <2>3, <2>6, <3>1 DEF SharedWith
    <3> QED
      BY <2>3, <3>1, <3>2 DEF MayAct
  <2> QED
    BY <2>4, <2>5, <2>6
<1> QED
  BY <1>1, Invariance, PTL
=============================================================================
