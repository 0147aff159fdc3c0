---------------------------- MODULE RecordAccess ----------------------------
(***************************************************************************)
(* Edits and deletions of the records of one table of one tenant           *)
(* (api/permissions/permissions.py, api/ORM/sqlFunctions/updateSQLFunction *)
(* and deleteSQLFunction, api/BL/recycle_bin).                             *)
(*                                                                         *)
(* Each request reads the policy (object permission, organisation-wide     *)
(* level, shares, reporting line) in autocommit, then opens a transaction, *)
(* locks its target rows one after the other in the order of the request,  *)
(* checks each against what it read, applies its changes and commits.      *)
(* PostgreSQL runs at READ COMMITTED: a request sees committed rows, and   *)
(* SELECT ... FOR UPDATE, UPDATE and DELETE wait for the row lock.         *)
(***************************************************************************)
EXTENDS Naturals, Sequences, FiniteSets

CONSTANTS
  User,             \* user ids of the tenant
  Admin,            \* users whose profile has an administrator role
  Record,           \* row ids, those already inserted and those to come
  Name, NameOf,     \* the value each row has in its name column
  Request,          \* HTTP requests, each served by a worker of its own
  Jobs,             \* what a request may ask: user, operation, targets
  Start,            \* policies and rows the table may start from
  Grants,           \* shares administrators may make: to whom, of what, for what
  Lines, Profiles,  \* reporting lines and permissions they may switch to
  Creators,         \* who creates records meanwhile
  MaxPolicyChanges, \* bound on administrators' policy edits in a behaviour
  NoRequest, NoManager, NoJob

PatchOps  == {"patch", "transfer", "restore"}
DeleteOps == {"delete", "destroy", "purge"}
Op        == PatchOps \cup DeleteOps
Level     == {"Private", "Public Read Only", "Public Read Write"}

\* A target is given by id or by name, or is a row of child_tables, which no
\* check looks at; "row" is an id the delete loop's own SELECT has just found.
Target == [by : {"id", "child", "row"}, key : Record] \cup [by : {"name"}, key : Name]

Line == [User -> User \cup {NoManager}]
Allowance == [User -> SUBSET {"edit", "delete"}]
Row  == [state : {"absent", "live", "bin", "gone"}, owner : User]
\* to: the new owner, for a transfer.
Job  == [user : User, op : Op, to : User, targets : Seq(Target)]
\* What a request has read of the policy before its transaction, and (history,
\* used by no action) how many edits the policy had seen when it began to read.
Snap == [at : Nat, perm : BOOLEAN, level : Level, granted : SUBSET Record,
         barred : SUBSET Record, ids : SUBSET User]

ASSUME PopulationAssumption ==
  /\ Admin \subseteq User
  /\ NameOf \in [Record -> Name]
  /\ Jobs \subseteq Job
  /\ Start \subseteq [isObject : BOOLEAN, canDo : Allowance, level : Level, manager : Line,
                      row : [Record -> Row]]
  /\ Lines \subseteq Line
  /\ Profiles \subseteq Allowance
  /\ Grants \subseteq [to : User, of : Record, mask : SUBSET {"read", "write", "delete"}]
  /\ Creators \subseteq User
  /\ MaxPolicyChanges \in Nat
  /\ NoRequest \notin Request
  /\ NoManager \notin User
  /\ NoJob \notin Job

VARIABLES
  isObject,  \* whether the table is registered as a non-setup object
  canDo,     \* object_permissions: what each user's profile may do
  level,     \* sharing_records.access_level of the object
  share,     \* shared_records: access mask of each user on each row
  manager,   \* users.manager_id
  changes,   \* policy edits so far
  row,       \* committed rows
  lock,      \* the request whose transaction holds each row's lock
  pc, job,
  batch, pos, \* the request's targets, and the one it is at
  snap,
  checked,   \* rows the request has locked and authorised
  dirty      \* rows the open transaction has changed

policy  == <<isObject, canDo, level, share, manager, changes>>
vars    == <<policy, row, lock, pc, job, batch, pos, snap, checked, dirty>>

-----------------------------------------------------------------------------
\* get_all_subordinate_ids: the user and everyone below, through cycles too.
Subordinates(u) ==
  {v \in User : \A S \in SUBSET User :
     (u \in S /\ \A w \in User : manager[w] \in S => w \in S) => v \in S}

Exists(r) == row[r].state \in {"live", "bin"}

\* What each operation asks of the profile, and of a share's access mask.
ObjectBit(op) == IF op \in PatchOps THEN "edit" ELSE "delete"
ShareBit(op)  == IF op \in PatchOps THEN "write" ELSE "delete"

SharedWith(u, bit) == {r \in Record : bit \in share[u][r]}

\* The check each locked row must pass: a row shared without the needed bit is
\* closed to all but its owner and the owner's superiors, and unless the level
\* and the profile open the whole object, so is a row not shared at all.
Permitted(q, r) ==
  LET own == row[r].owner \in snap[q].ids IN
  /\ r \in snap[q].barred => own
  /\ (snap[q].level # "Public Read Write" \/ ~snap[q].perm)
       => (own \/ r \in snap[q].granted)

\* What a request's change makes of a row.
Effect(j, w) ==
  CASE w.state = "absent"  -> [state |-> "live", owner |-> j.user]
    [] j.op = "patch"      -> w
    [] j.op = "transfer"   -> [w EXCEPT !.owner = j.to]
    [] j.op = "restore"    -> [w EXCEPT !.state = "live"]
    [] j.op = "destroy"    -> [w EXCEPT !.state = "gone"]
    [] OTHER               -> [w EXCEPT !.state = "bin"]

Goto(q, l) == pc' = [pc EXCEPT ![q] = l]

\* The rows with a given name that request q's SELECT returns.
Named(q, n) ==
  {r \in Record : NameOf[r] = n /\ (Exists(r) \/ (r \in dirty[q] /\ row[r].state = "absent"))}

Cur(q)      == batch[q][pos[q]]
HasMore(q)  == pos[q] <= Len(batch[q])
Retarget(q, by, r) == batch' = [batch EXCEPT ![q][pos[q]] = [by |-> by, key |-> r]]
Advance(q)  == pos' = [pos EXCEPT ![q] = @ + 1]
Rewind(q)   == pos' = [pos EXCEPT ![q] = 1]

NoSnap == [at |-> 0, perm |-> FALSE, level |-> "Private", granted |-> {}, barred |-> {}, ids |-> {}]

\* Faulty: the request's place in its batch is not reset with the batch.
EndWithPosition(q, l) ==
  /\ Goto(q, l)
  /\ lock' = [r \in Record |-> IF lock[r] = q THEN NoRequest ELSE lock[r]]
  /\ job' = [job EXCEPT ![q] = NoJob]
  /\ batch' = [batch EXCEPT ![q] = <<>>]
  /\ pos' = [pos EXCEPT ![q] = 0]
  /\ snap' = [snap EXCEPT ![q] = NoSnap]
  /\ checked' = [checked EXCEPT ![q] = {}]
  /\ dirty' = [dirty EXCEPT ![q] = {}]
  /\ UNCHANGED policy

\* The request answers: its transaction is over, its locks and variables are gone.
End(q, l) ==
  /\ Goto(q, l)
  /\ lock' = [r \in Record |-> IF lock[r] = q THEN NoRequest ELSE lock[r]]
  /\ job' = [job EXCEPT ![q] = NoJob]
  /\ batch' = [batch EXCEPT ![q] = <<>>]
  /\ pos' = [pos EXCEPT ![q] = 1]
  /\ snap' = [snap EXCEPT ![q] = NoSnap]
  /\ checked' = [checked EXCEPT ![q] = {}]
  /\ dirty' = [dirty EXCEPT ![q] = {}]
  /\ UNCHANGED policy

\* Faulty: the handler swallows the error and answers inside the open transaction.
FailWithoutRollback(q) == Goto(q, "failed") /\ UNCHANGED <<policy, row, lock, job, batch, pos, snap, checked, dirty>>

\* An error leaves the handler; an open atomic block drops its changes.
Fail(q) == End(q, "failed") /\ UNCHANGED row

-----------------------------------------------------------------------------
Init ==
  /\ \E st \in Start :
       /\ isObject = st.isObject /\ canDo = st.canDo /\ level = st.level
       /\ manager = st.manager /\ row = st.row
  /\ share = [u \in User |-> [r \in Record |-> {}]]
  /\ changes = 0
  /\ lock = [r \in Record |-> NoRequest]
  /\ pc = [q \in Request |-> "idle"]
  /\ job = [q \in Request |-> NoJob]
  /\ batch = [q \in Request |-> <<>>]
  /\ pos = [q \in Request |-> 1]
  /\ snap = [q \in Request |-> NoSnap]
  /\ checked = [q \in Request |-> {}]
  /\ dirty = [q \in Request |-> {}]

\* What the recycle bin's SELECT, in autocommit, makes a purge of: one row that is
\* soft-deleted, or all of them.
InBin(targets) ==
  LET bin  == {r \in Record : row[r].state = "bin"}
      keys == {targets[i].key : i \in DOMAIN targets}
  IN keys = bin \/ (keys \subseteq bin /\ Len(targets) = 1)

\* The request reaches its handler. Only an edit names records or has children.
Submit(q) ==
  /\ pc[q] = "idle"
  /\ \E j \in Jobs :
       /\ j.op # "patch" => \A i \in DOMAIN j.targets : j.targets[i].by = "id"
       /\ j.op = "purge" => InBin(j.targets)
       /\ job' = [job EXCEPT ![q] = j]
       /\ batch' = [batch EXCEPT ![q] = j.targets]
  /\ Goto(q, "policy")
  /\ UNCHANGED <<policy, row, lock, pos, snap, checked, dirty>>

\* Object registration, object permission and organisation-wide level. A table
\* outside the registry is a setup table: administrators only, no row checks.
ReadPolicy(q) ==
  /\ pc[q] = "policy"
  /\ \/ /\ isObject
        /\ snap' = [snap EXCEPT ![q].at = changes, ![q].level = level,
                                ![q].perm = ObjectBit(job[q].op) \in canDo[job[q].user]]
        /\ Goto(q, "shares")
        /\ UNCHANGED <<policy, row, lock, job, batch, pos, checked, dirty>>
     \/ /\ ~isObject /\ job[q].user \in Admin
        /\ Goto(q, "apply")
        /\ UNCHANGED <<policy, row, lock, job, batch, pos, snap, checked, dirty>>
     \/ /\ ~isObject /\ job[q].user \notin Admin
        /\ Fail(q)

\* Rows shared with the bit the operation needs; nothing at all ends the request.
ReadShares(q) ==
  LET granted == SharedWith(job[q].user, ShareBit(job[q].op)) IN
  /\ pc[q] = "shares"
  /\ IF snap[q].perm \/ granted # {}
       THEN /\ snap' = [snap EXCEPT ![q].granted = granted]
            /\ Goto(q, "scope")
            /\ UNCHANGED <<policy, row, lock, job, batch, pos, checked, dirty>>
       ELSE Fail(q)

\* Faulty: rows shared for reading only are not told apart.
ReadScopeWithoutBarred(q) ==
  /\ pc[q] = "scope"
  /\ snap' = [snap EXCEPT ![q].ids = IF snap[q].perm THEN Subordinates(job[q].user) ELSE {}]
  /\ Goto(q, "check")
  /\ UNCHANGED <<policy, row, lock, job, batch, pos, checked, dirty>>

\* The reporting line, then the rows shared for reading but not for this.
ReadScope(q) ==
  /\ pc[q] = "scope"
  /\ snap' = [snap EXCEPT
       ![q].ids = IF snap[q].perm THEN Subordinates(job[q].user) ELSE {},
       ![q].barred = SharedWith(job[q].user, "read") \ snap[q].granted]
  /\ Goto(q, "check")
  /\ UNCHANGED <<policy, row, lock, job, batch, pos, checked, dirty>>

\* child_tables were taken out of the data to check.
SkipChild(q) ==
  /\ pc[q] = "check" /\ HasMore(q) /\ Cur(q).by = "child"
  /\ Advance(q)
  /\ UNCHANGED <<policy, row, lock, pc, job, batch, snap, checked, dirty>>

\* resolve_id_from_name: an unknown name is passed over, an ambiguous one ends it.
ResolveName(q) ==
  /\ pc[q] = "check" /\ HasMore(q) /\ Cur(q).by = "name"
  /\ LET found == Named(q, Cur(q).key) IN
     \/ /\ found = {}
        /\ Advance(q)
        /\ UNCHANGED <<policy, row, lock, pc, job, batch, snap, checked, dirty>>
     \/ /\ Cardinality(found) = 1
        /\ \E r \in found : Retarget(q, "id", r)
        /\ UNCHANGED <<policy, row, lock, pc, job, pos, snap, checked, dirty>>
     \/ /\ Cardinality(found) > 1
        /\ Fail(q)

\* Faulty: SELECT ... FOR UPDATE outside a transaction, its lock gone at once.
LockAndCheckWithoutHold(q) ==
  LET r == Cur(q).key IN
  /\ pc[q] = "check" /\ HasMore(q) /\ Cur(q).by = "id"
  /\ lock[r] \in {NoRequest, q}
  /\ IF Exists(r) /\ Permitted(q, r)
       THEN /\ checked' = [checked EXCEPT ![q] = @ \cup {r}]
            /\ Advance(q)
            /\ UNCHANGED <<policy, row, lock, pc, job, batch, snap, dirty>>
       ELSE Fail(q)

\* _lock_record_for_update and the checks on the row it returns.
LockAndCheck(q) ==
  LET r == Cur(q).key IN
  /\ pc[q] = "check" /\ HasMore(q) /\ Cur(q).by = "id"
  /\ lock[r] \in {NoRequest, q}
  /\ IF Exists(r) /\ Permitted(q, r)
       THEN /\ lock' = [lock EXCEPT ![r] = q]
            /\ checked' = [checked EXCEPT ![q] = @ \cup {r}]
            /\ Advance(q)
            /\ UNCHANGED <<policy, row, pc, job, batch, snap, dirty>>
       ELSE Fail(q)

\* All targets seen. A deletion runs its workflows here, inside the transaction,
\* and only logs their failure; but a failed SQL statement leaves the transaction
\* unusable, and the deletion that follows is refused.
FinishChecks(q) ==
  /\ pc[q] = "check" /\ ~HasMore(q)
  /\ \/ /\ Goto(q, "apply")
        /\ Rewind(q)
        /\ UNCHANGED <<policy, row, lock, job, batch, snap, checked, dirty>>
     \/ /\ job[q].op \in DeleteOps
        /\ Fail(q)

\* A target whose lock is already held. Validation may reject an edit, which
\* the savepoint of that record undoes; the rest of the batch goes on.
ApplyHeld(q) ==
  LET r == Cur(q).key IN
  /\ pc[q] = "apply" /\ HasMore(q) /\ Cur(q).by # "name" /\ lock[r] = q
  /\ IF job[q].op = "destroy" /\ r \in dirty[q]
       THEN Fail(q)
       ELSE /\ \/ dirty' = [dirty EXCEPT ![q] = @ \cup {r}]
               \/ job[q].op \in PatchOps /\ UNCHANGED dirty
            /\ Advance(q)
            /\ UNCHANGED <<policy, row, lock, pc, job, batch, snap, checked>>

\* The delete loop's own SELECT, on a setup table whose rows nobody locked.
ProbeForDelete(q) ==
  LET r == Cur(q).key IN
  /\ pc[q] = "apply" /\ HasMore(q) /\ Cur(q).by = "id"
  /\ job[q].op \in DeleteOps /\ lock[r] # q
  /\ IF Exists(r)
       THEN /\ Retarget(q, "row", r)
            /\ UNCHANGED <<policy, row, lock, pc, job, pos, snap, checked, dirty>>
       ELSE Fail(q)

\* The statement that changes row r needs a lock the request does not hold.
NeedsLock(q) ==
  /\ pc[q] = "apply" /\ HasMore(q)
  /\ Cur(q).by \in (IF job[q].op \in DeleteOps THEN {"row"} ELSE {"id", "child"})
  /\ lock[Cur(q).key] # q

\* UPDATE or DELETE takes the lock itself; a row that is gone matches nothing.
ApplyUnlocked(q) ==
  LET r == Cur(q).key IN
  /\ NeedsLock(q) /\ lock[r] = NoRequest
  /\ \/ /\ Exists(r)
        /\ lock' = [lock EXCEPT ![r] = q]
        /\ dirty' = [dirty EXCEPT ![q] = @ \cup {r}]
     \/ /\ ~Exists(r) \/ job[q].op \in PatchOps
        /\ UNCHANGED <<lock, dirty>>
  /\ Advance(q)
  /\ UNCHANGED <<policy, row, pc, job, batch, snap, checked>>

\* updateRawSQL looks a name up again: one row is updated, none is created,
\* more than one is reported as failed.
ApplyNamed(q) ==
  /\ pc[q] = "apply" /\ HasMore(q) /\ Cur(q).by = "name"
  /\ LET found == Named(q, Cur(q).key) IN
     \/ /\ Cardinality(found) = 1
        /\ \E r \in found : Retarget(q, "id", r)
        /\ UNCHANGED <<pos, lock, dirty>>
     \/ /\ found = {}
        /\ \E r \in Record :
             /\ row[r].state = "absent" /\ NameOf[r] = Cur(q).key /\ lock[r] = NoRequest
             /\ lock' = [lock EXCEPT ![r] = q]
             /\ dirty' = [dirty EXCEPT ![q] = @ \cup {r}]
        /\ Advance(q)
        /\ UNCHANGED batch
     \/ /\ Cardinality(found) # 1
        /\ Advance(q)
        /\ UNCHANGED <<batch, lock, dirty>>
  /\ UNCHANGED <<policy, row, pc, job, snap, checked>>

\* The transaction commits; an edit's workflows run after it, with no lock held.
Commit(q) ==
  /\ pc[q] = "apply" /\ ~HasMore(q)
  /\ row' = [r \in Record |-> IF r \in dirty[q] THEN Effect(job[q], row[r]) ELSE row[r]]
  /\ End(q, "done")

-----------------------------------------------------------------------------
\* Lock waits.

\* The row whose lock request q waits for is held by another transaction.
Waiting(q) ==
  /\ \/ pc[q] = "check" /\ HasMore(q) /\ Cur(q).by = "id"
     \/ NeedsLock(q)
  /\ lock[Cur(q).key] \notin {q, NoRequest}

Deadlocked(q) ==
  \E S \in SUBSET Request :
    /\ q \in S
    /\ \A p \in S : Waiting(p) /\ lock[batch[p][pos[p]].key] \in S
    /\ \A p \in S : \E s \in S : lock[batch[s][pos[s]].key] = p

\* The waiting statement raises. Under a record's savepoint only that record
\* fails; anywhere else the exception leaves the atomic block.
WaitFails(q) ==
  /\ Waiting(q)
  /\ IF pc[q] = "apply" /\ job[q].op \in PatchOps
       THEN Advance(q) /\ UNCHANGED <<policy, row, lock, pc, job, batch, snap, checked, dirty>>
       ELSE Fail(q)

\* PostgreSQL's deadlock detector picks a transaction of the cycle.
DeadlockVictim(q) == Deadlocked(q) /\ WaitFails(q)

\* statement_timeout cancels a statement that has waited too long.
StatementTimeout(q) == WaitFails(q)

\* The worker is killed in its transaction, which PostgreSQL rolls back.
Crash(q) == pc[q] \in {"check", "apply"} /\ Fail(q)

-----------------------------------------------------------------------------
\* Other requests of the tenant: post_permission, and administration of shares,
\* the reporting line, the level and the profile's object permissions.

Create(u, r) ==
  /\ row[r].state = "absent" /\ lock[r] = NoRequest
  /\ row' = [row EXCEPT ![r] = [state |-> "live", owner |-> u]]
  /\ UNCHANGED <<policy, lock, pc, job, batch, pos, snap, checked, dirty>>

EditPolicy ==
  /\ changes < MaxPolicyChanges
  /\ changes' = changes + 1
  /\ \/ /\ \E g \in Grants : share' = [share EXCEPT ![g.to][g.of] = g.mask]
        /\ UNCHANGED <<canDo, level, manager>>
     \/ /\ manager' \in Lines
        /\ UNCHANGED <<canDo, level, share>>
     \/ /\ level' \in Level
        /\ UNCHANGED <<canDo, share, manager>>
     \/ /\ canDo' \in Profiles
        /\ UNCHANGED <<level, share, manager>>
  /\ UNCHANGED <<isObject, row, lock, pc, job, batch, pos, snap, checked, dirty>>

Step(q) ==
  \/ ReadPolicy(q) \/ ReadShares(q) \/ ReadScope(q)
  \/ SkipChild(q) \/ ResolveName(q) \/ LockAndCheck(q) \/ FinishChecks(q)
  \/ ApplyHeld(q) \/ ProbeForDelete(q) \/ ApplyUnlocked(q) \/ ApplyNamed(q)
  \/ Commit(q) \/ DeadlockVictim(q)

Next ==
  \/ \E q \in Request : Submit(q) \/ Step(q) \/ StatementTimeout(q) \/ Crash(q)
  \/ \E u \in Creators, r \in Record : Create(u, r)
  \/ EditPolicy

Spec == Init /\ [][Next]_vars /\ \A q \in Request : WF_vars(Step(q))

-----------------------------------------------------------------------------
\* The sharing rules as they stand: what user u may do to row r with op. A
\* superior acts through the object permission; a share stands on its own, but
\* one without the needed bit closes the row even where the object is public.
MayAct(u, op, r) ==
  LET perm     == ObjectBit(op) \in canDo[u]
      superior == perm /\ row[r].owner \in Subordinates(u)
      shared   == ShareBit(op) \in share[u][r]
  IN \/ superior
     \/ shared
     \/ perm /\ level = "Public Read Write" /\ "read" \notin share[u][r]

TypeOK ==
  /\ isObject \in BOOLEAN
  /\ canDo \in Allowance
  /\ level \in Level
  /\ share \in [User -> [Record -> SUBSET {"read", "write", "delete"}]]
  /\ manager \in Line
  /\ changes \in 0..MaxPolicyChanges
  /\ row \in [Record -> Row]
  /\ lock \in [Record -> Request \cup {NoRequest}]
  /\ pc \in [Request -> {"idle", "policy", "shares", "scope", "check", "apply", "done", "failed"}]
  /\ job \in [Request -> Job \cup {NoJob}]
  /\ batch \in [Request -> Seq(Target)]
  /\ pos \in [Request -> Nat \ {0}]
  /\ snap \in [Request -> Snap]
  /\ checked \in [Request -> SUBSET Record]
  /\ dirty \in [Request -> SUBSET Record]

\* A row a request has authorised stays authorised until its transaction ends:
\* no concurrent transfer, deletion or restore can slip between the ownership
\* check and the write (the purpose of _lock_record_for_update).
CheckedRowsStayAuthorized ==
  \A q \in Request : \A r \in checked[q] : Exists(r) /\ Permitted(q, r)

\* No transaction changes a row that another open transaction has changed or
\* has authorised, whatever the order in which requests list their rows.
OneWriterPerRow ==
  \A p, q \in Request : p # q => dirty[p] \cap (dirty[q] \cup checked[q]) = {}

\* Though permission, level, shares and reporting line are read one by one
\* before the transaction, a row passes the check only if the sharing rules
\* allow it, unless the policy was edited since the request began to read it.
DecisionsFollowPolicy ==
  \A q \in Request : \A r \in checked[q] :
    snap[q].at = changes => MayAct(job[q].user, job[q].op, r)

\* The recycle bin's "permanently deleted" records are not in the table any more.
PurgeRemovesRows ==
  [][\A q \in Request :
       pc[q] = "apply" /\ pc'[q] = "done" /\ job[q].op = "purge"
         => \A r \in dirty[q] : row'[r].state = "gone"]_vars

\* Requests that lock the same rows in different orders do not hang: every
\* request that reaches its handler ends.
EveryRequestEnds ==
  \A q \in Request : (pc[q] # "idle") ~> (pc[q] \in {"done", "failed"})
=============================================================================
