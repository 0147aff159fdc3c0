------------------------ MODULE TenantSessionProofs ------------------------
(* Theorems about TenantSession, for any users, tenants and workers.       *)
EXTENDS TenantSession, TLAPS

\* The history of a request includes the present.
Watched(w) == job[w].pc \in RequestStep =>
  /\ Exists(job[w].user) => seen[w].row
  /\ IsActive(job[w].user) => seen[w].active
  /\ orgActive[OrgOf[job[w].user]] => seen[w].org

\* What a request has been granted so far, it was granted for a reason.
Granted(w) ==
  /\ job[w].pc \in {"org", "profile", "serve"} => seen[w].row /\ job[w].entry.active
  /\ job[w].pc \in {"profile", "serve"} => seen[w].org
  /\ job[w].pc = "serve" => job[w].entry.profile \in OwnProfiles(job[w].user)
  /\ job[w].pc \in Resolving /\ ~job[w].hit /\ job[w].entry.active => seen[w].active

\* The served properties speak of the last step; Granted of all before it.
IInv ==
  /\ TypeOK
  /\ SignInUserHasTenantRow
  /\ \A w \in Worker : Watched(w) /\ Granted(w)

\* The invariant has the properties the runs check.
LEMMA InvServed == IInv => ServedWereEntitled /\ FrozenServedOnlyFromCache
<1> SUFFICES ASSUME IInv, NEW w \in Worker, NEW u \in User, Serving(w, u)
             PROVE  /\ seen[w].row /\ seen[w].org
                    /\ job[w].entry.profile \in OwnProfiles(u)
                    /\ ~seen[w].active => job[w].hit
  BY DEF ServedWereEntitled, FrozenServedOnlyFromCache
<1>1. job[w].pc = "serve" /\ job[w].user = u /\ Granted(w)
  BY DEF Serving, At, IInv
<1> QED
  BY <1>1 DEF Granted, Resolving

\* Nobody has an account, and nobody asks.
LEMMA InvInit == Init => IInv
<1> SUFFICES ASSUME Init PROVE IInv
  OBVIOUS
<1>1. \A w \in Worker : job[w] = Idle
  BY DEF Init
<1>2. TypeOK
  BY <1>1 DEF Init, TypeOK, Idle, Resolving, Witness
<1>3. SignInUserHasTenantRow
  BY DEF Init, SignInUserHasTenantRow, Exists
<1>4. \A w \in Worker : Watched(w) /\ Granted(w)
  BY <1>1 DEF Idle, Watched, Granted, RequestStep, Resolving
<1> QED
  BY <1>2, <1>3, <1>4 DEF IInv

\* A job's step tells which kind of job it is.
LEMMA JobKind ==
  ASSUME TypeOK, NEW w \in Worker
  PROVE  /\ job[w].pc \in RequestStep => job[w] \in RequestJob
         /\ job[w].pc \in AdminStep => job[w] \in AdminJob
         /\ job[w].pc = "idle" => job[w] = Idle
<1>1. job[w] \in {Idle} \cup RequestJob \cup AdminJob
  BY DEF TypeOK
<1>2. CASE job[w] = Idle
  BY <1>2 DEF Idle, RequestStep, AdminStep
<1>3. CASE job[w] \in RequestJob
  BY <1>3 DEF RequestJob, RequestStep, AdminStep
<1>4. CASE job[w] \in AdminJob
  BY <1>4 DEF AdminJob, CreateJob, UpdateJob, DeleteJob, RequestStep, AdminStep
<1> QED
  BY <1>1, <1>2, <1>3, <1>4

\* The history is one of truth values, and keeps what it has seen.
LEMMA History ==
  ASSUME Watch
  PROVE  /\ seen' \in [Worker -> Witness]
         /\ \A w \in Worker : Watched(w)'
         /\ \A w \in Worker : job'[w].pc \in RequestStep =>
              /\ seen[w].row => seen'[w].row
              /\ seen[w].active => seen'[w].active
              /\ seen[w].org => seen'[w].org
<1>1. seen' \in [Worker -> Witness]
  BY DEF Watch, Witness
<1>2. ASSUME NEW w \in Worker PROVE Watched(w)'
  BY DEF Watch, Watched, Exists, IsActive
<1>3. ASSUME NEW w \in Worker, job'[w].pc \in RequestStep
      PROVE  /\ seen[w].row => seen'[w].row
             /\ seen[w].active => seen'[w].active
             /\ seen[w].org => seen'[w].org
  BY <1>3 DEF Watch
<1> QED
  BY <1>1, <1>2, <1>3

\* A request that does not move keeps what it was granted.
LEMMA Bystander ==
  ASSUME Watch, NEW w \in Worker, job'[w] = job[w], Granted(w)
  PROVE  Granted(w)'
<1>1. job[w].pc \in {"org", "profile", "serve"} \cup Resolving => job'[w].pc \in RequestStep
  BY DEF RequestStep, Resolving
<1>2. OwnProfiles(job[w].user)' = OwnProfiles(job[w].user)
  BY DEF OwnProfiles
<1> QED
  BY <1>1, <1>2, History DEF Granted, OwnProfiles, Resolving, RequestStep

\* One worker turns to something else, and the accounts stay or change soundly.
LEMMA Turn ==
  ASSUME IInv, Watch, NEW w \in Worker,
         NEW q \in {Idle} \cup RequestJob \cup AdminJob, job' = [job EXCEPT ![w] = q],
         q.pc \in Resolving => q.entry \in Row,
         Granted(w)',
         pub' \in [User -> Row \cup {NoRow}], ten' \in [User -> TenantRow \cup {NoRow}],
         cache' \in [User -> Row \cup {NoRow}], orgActive' = orgActive,
         SignInUserHasTenantRow'
  PROVE  IInv'
<1>1. job \in [Worker -> {Idle} \cup RequestJob \cup AdminJob]
  BY DEF IInv, TypeOK
<1>2. job' \in [Worker -> {Idle} \cup RequestJob \cup AdminJob]
  BY <1>1
<1>3. job'[w] = q /\ \A x \in Worker \ {w} : job'[x] = job[x]
  BY <1>1
<1>4. \A x \in Worker : job'[x].pc \in Resolving => job'[x].entry \in Row
  BY <1>3 DEF IInv, TypeOK
<1>5. TypeOK'
  BY <1>2, <1>4, History DEF IInv, TypeOK
<1>6. ASSUME NEW x \in Worker PROVE Watched(x)' /\ Granted(x)'
  BY <1>3, History, Bystander DEF IInv
<1> QED
  BY <1>5, <1>6 DEF IInv

\* Workers whose job is not a request have been granted nothing.
LEMMA NotServing ==
  ASSUME NEW w \in Worker, job'[w].pc \notin RequestStep
  PROVE  Granted(w)' /\ job'[w].pc \notin Resolving
  BY DEF Granted, RequestStep, Resolving

\* Ending a job, whatever it has done to the accounts.
LEMMA EndJob ==
  ASSUME IInv, Watch, NEW w \in Worker, End(w),
         pub' \in [User -> Row \cup {NoRow}], ten' \in [User -> TenantRow \cup {NoRow}],
         UNCHANGED <<orgActive, cache>>, SignInUserHasTenantRow'
  PROVE  IInv'
<1>1. job' = [job EXCEPT ![w] = Idle] /\ job'[w] = Idle
  BY DEF End, IInv, TypeOK
<1>2. Granted(w)' /\ Idle.pc \notin Resolving
  BY <1>1 DEF Idle, Granted, Resolving
<1>3. cache' \in [User -> Row \cup {NoRow}]
  BY DEF IInv, TypeOK
<1> QED
  BY <1>1, <1>2, <1>3, Turn

\* A request takes its next step and touches no account.
LEMMA NextRequestStep ==
  ASSUME IInv, Watch, NEW w \in Worker, NEW q \in RequestJob, job' = [job EXCEPT ![w] = q],
         q.pc \in Resolving => q.entry \in Row, Granted(w)',
         UNCHANGED <<pub, ten, orgActive>>, cache' \in [User -> Row \cup {NoRow}]
  PROVE  IInv'
<1>1. SignInUserHasTenantRow'
  BY DEF IInv, SignInUserHasTenantRow, Exists
<1>2. pub' \in [User -> Row \cup {NoRow}] /\ ten' \in [User -> TenantRow \cup {NoRow}]
  BY DEF IInv, TypeOK
<1> QED
  BY <1>1, <1>2, Turn

\* A request goes to its next step with what it knows.
LEMMA Advance ==
  ASSUME IInv, Watch, NEW w \in Worker, job[w] \in RequestJob,
         NEW step \in RequestStep, Goto(w, step),
         UNCHANGED <<pub, ten, orgActive>>, cache' \in [User -> Row \cup {NoRow}],
         step \in Resolving => job[w].entry \in Row,
         step \in {"org", "profile", "serve"} => seen'[w].row /\ job[w].entry.active,
         step \in {"profile", "serve"} => seen'[w].org,
         step = "serve" => job[w].entry.profile \in OwnProfiles(job[w].user),
         step \in Resolving /\ ~job[w].hit /\ job[w].entry.active => seen'[w].active
  PROVE  IInv'
<1> DEFINE q == [job[w] EXCEPT !.pc = step]
<1>1. job' = [job EXCEPT ![w] = q] /\ job'[w] = q
  BY DEF IInv, TypeOK, Goto
<1>2. q \in RequestJob /\ q.pc = step /\ q.entry = job[w].entry /\ q.hit = job[w].hit /\ q.user = job[w].user
  BY DEF RequestJob
<1>3. Granted(w)'
  BY <1>1, <1>2 DEF Granted, OwnProfiles
<1> HIDE DEF q
<1> QED
  BY <1>1, <1>2, <1>3, NextRequestStep

\* Every step of a request.
LEMMA RequestStepInv ==
  ASSUME IInv, Watch, NEW w \in Worker, RequestAction(w)
  PROVE  IInv'
<1>1. TypeOK /\ Watched(w) /\ Granted(w) /\ SignInUserHasTenantRow
  BY DEF IInv
<1>2. job[w].pc \in RequestStep
  BY DEF RequestAction, LookUp, LoadUser, StoreEntry, ResolveUser, ResolveOrg,
         ResolveProfile, Respond, At, RequestStep
<1>3. job[w] \in RequestJob /\ job[w].user \in User
  BY <1>1, <1>2, JobKind DEF RequestJob
<1>4. pub[job[w].user] \in Row \cup {NoRow} /\ cache[job[w].user] \in Row \cup {NoRow}
  BY <1>1, <1>3 DEF TypeOK
<1>5. job[w].pc \in Resolving => job[w].entry \in Row
  BY <1>1 DEF TypeOK
<1>6. UNCHANGED <<pub, ten, orgActive>>
  BY DEF RequestAction, LookUp, LoadUser, StoreEntry, ResolveUser, ResolveOrg,
         ResolveProfile, Respond
<1>7. ASSUME End(w), UNCHANGED cache PROVE IInv'
  <2>1. SignInUserHasTenantRow' /\ pub' \in [User -> Row \cup {NoRow}] /\ ten' \in [User -> TenantRow \cup {NoRow}]
    BY <1>1, <1>6 DEF SignInUserHasTenantRow, Exists, TypeOK
  <2> QED
    BY <1>6, <1>7, <2>1, EndJob
<1>8. job'[w].pc \in RequestStep => /\ seen[w].row => seen'[w].row
                                    /\ seen[w].active => seen'[w].active
                                    /\ seen[w].org => seen'[w].org
  BY History
<1>9. ASSUME NEW step \in RequestStep, Goto(w, step) PROVE job'[w].pc = step
  BY <1>1, <1>3, <1>9 DEF TypeOK, Goto, RequestJob
<1>10. UNCHANGED cache => cache' \in [User -> Row \cup {NoRow}]
  BY <1>1 DEF TypeOK
<1>11. CASE LookUp(w)
  <2>1. UNCHANGED cache
    BY <1>11 DEF LookUp
  <2>2. CASE cache[job[w].user] # NoRow /\ job' = [job EXCEPT ![w].entry = cache[job[w].user], ![w].hit = TRUE, ![w].pc = "user"]
    <3> DEFINE q == [job[w] EXCEPT !.entry = cache[job[w].user], !.hit = TRUE, !.pc = "user"]
    <3>1. job' = [job EXCEPT ![w] = q] /\ job'[w] = q
      BY <1>1, <2>2 DEF TypeOK
    <3>2. q \in RequestJob /\ q.pc = "user" /\ q.entry \in Row /\ q.hit
      BY <1>3, <1>4, <2>2 DEF RequestJob, RequestStep
    <3>3. Granted(w)'
      BY <3>1, <3>2 DEF Granted
    <3> HIDE DEF q
    <3> QED
      BY <1>6, <1>10, <2>1, <3>1, <3>2, <3>3, NextRequestStep
  <2>3. CASE Goto(w, "load")
    <3>1. "load" \in RequestStep /\ "load" \notin Resolving
      BY DEF RequestStep, Resolving
    <3> QED
      BY <1>3, <1>6, <1>10, <2>1, <2>3, <3>1, Advance
  <2> QED
    BY <1>11, <2>2, <2>3 DEF LookUp
<1>12. CASE LoadUser(w)
  <2>1. UNCHANGED cache /\ job[w].pc = "load"
    BY <1>12 DEF LoadUser, At
  <2>2. CASE Exists(job[w].user)
    <3> DEFINE q == [job[w] EXCEPT !.entry = pub[job[w].user], !.pc = "store"]
    <3>1. job' = [job EXCEPT ![w] = q] /\ job'[w] = q
      BY <1>1, <1>12, <2>2 DEF TypeOK, LoadUser
    <3>2. q \in RequestJob /\ q.pc = "store" /\ q.entry = pub[job[w].user] /\ q.entry \in Row
      BY <1>3, <1>4, <2>2 DEF RequestJob, RequestStep, Exists
    <3>3. q.entry.active => seen[w].active
      BY <1>1, <1>2, <2>2, <3>2 DEF Watched, IsActive
    <3>4. Granted(w)'
      BY <1>8, <3>1, <3>2, <3>3 DEF Granted, RequestStep
    <3> HIDE DEF q
    <3> QED
      BY <1>6, <1>10, <2>1, <3>1, <3>2, <3>4, NextRequestStep
  <2>3. CASE ~Exists(job[w].user)
    BY <1>7, <1>12, <2>1, <2>3 DEF LoadUser
  <2> QED
    BY <2>2, <2>3
<1>13. CASE StoreEntry(w)
  <2>1. job[w].pc = "store" /\ Goto(w, "user") /\ job[w].entry \in Row
    BY <1>5, <1>13 DEF StoreEntry, At, Resolving
  <2>2. cache' \in [User -> Row \cup {NoRow}]
    BY <1>1, <1>3, <1>13, <2>1 DEF StoreEntry, TypeOK
  <2>3. "user" \in RequestStep
    BY DEF RequestStep
  <2>4. ~job[w].hit /\ job[w].entry.active => seen'[w].active
    BY <1>1, <1>8, <1>9, <2>1, <2>3 DEF Granted, Resolving
  <2> QED
    BY <1>3, <1>6, <2>1, <2>2, <2>3, <2>4, Advance
<1>14. CASE ResolveUser(w)
  <2>1. UNCHANGED cache /\ job[w].pc = "user" /\ job[w].entry \in Row
    BY <1>5, <1>14 DEF ResolveUser, At, Resolving
  <2>2. CASE job[w].entry.active /\ Exists(job[w].user)
    <3>1. Goto(w, "org") /\ "org" \in RequestStep
      BY <1>14, <2>2 DEF ResolveUser, RequestStep
    <3>2. seen'[w].row /\ (~job[w].hit /\ job[w].entry.active => seen'[w].active)
      BY <1>1, <1>2, <1>8, <1>9, <2>1, <2>2, <3>1 DEF Granted, Watched, Resolving
    <3> QED
      BY <1>3, <1>6, <1>10, <2>1, <2>2, <3>1, <3>2, Advance
  <2>3. CASE ~(job[w].entry.active /\ Exists(job[w].user))
    BY <1>7, <1>14, <2>1, <2>3 DEF ResolveUser
  <2> QED
    BY <2>2, <2>3
<1>15. CASE ResolveOrg(w)
  <2>1. UNCHANGED cache /\ job[w].pc = "org" /\ job[w].entry \in Row
    BY <1>5, <1>15 DEF ResolveOrg, At, Resolving
  <2>2. CASE orgActive[OrgOf[job[w].user]]
    <3>1. Goto(w, "profile") /\ "profile" \in RequestStep
      BY <1>15, <2>2 DEF ResolveOrg, RequestStep
    <3>2. /\ seen'[w].row /\ job[w].entry.active /\ seen'[w].org
          /\ ~job[w].hit /\ job[w].entry.active => seen'[w].active
      BY <1>1, <1>2, <1>8, <1>9, <2>1, <2>2, <3>1 DEF Granted, Watched, Resolving
    <3> QED
      BY <1>3, <1>6, <1>10, <2>1, <3>1, <3>2, Advance
  <2>3. CASE ~orgActive[OrgOf[job[w].user]]
    BY <1>7, <1>15, <2>1, <2>3 DEF ResolveOrg
  <2> QED
    BY <2>2, <2>3
<1>16. CASE ResolveProfile(w)
  <2>1. UNCHANGED cache /\ job[w].pc = "profile" /\ job[w].entry \in Row
    BY <1>5, <1>16 DEF ResolveProfile, At, Resolving
  <2>2. CASE job[w].entry.profile \in OwnProfiles(job[w].user)
    <3>1. Goto(w, "serve") /\ "serve" \in RequestStep
      BY <1>16, <2>2 DEF ResolveProfile, RequestStep
    <3>2. /\ seen'[w].row /\ job[w].entry.active /\ seen'[w].org
          /\ ~job[w].hit /\ job[w].entry.active => seen'[w].active
      BY <1>1, <1>8, <1>9, <2>1, <3>1 DEF Granted, Resolving
    <3> QED
      BY <1>3, <1>6, <1>10, <2>1, <2>2, <3>1, <3>2, Advance
  <2>3. CASE job[w].entry.profile \notin OwnProfiles(job[w].user)
    BY <1>7, <1>16, <2>1, <2>3 DEF ResolveProfile
  <2> QED
    BY <2>2, <2>3
<1>17. CASE Respond(w)
  BY <1>7, <1>17 DEF Respond
<1> QED
  BY <1>11, <1>12, <1>13, <1>14, <1>15, <1>16, <1>17 DEF RequestAction

\* Taking up a job that is no request.
LEMMA TakeUp ==
  ASSUME IInv, Watch, NEW w \in Worker, NEW q \in AdminJob, job' = [job EXCEPT ![w] = q],
         pub' \in [User -> Row \cup {NoRow}], ten' \in [User -> TenantRow \cup {NoRow}],
         UNCHANGED <<orgActive, cache>>, SignInUserHasTenantRow'
  PROVE  IInv'
<1>1. job'[w] = q
  BY DEF IInv, TypeOK
<1>2. q.pc \in AdminStep
  BY DEF AdminJob, CreateJob, UpdateJob, DeleteJob, AdminStep
<1>3. Granted(w)' /\ q.pc \notin Resolving
  BY <1>1, <1>2 DEF Granted, Resolving, AdminStep
<1>4. cache' \in [User -> Row \cup {NoRow}]
  BY DEF IInv, TypeOK
<1> QED
  BY <1>1, <1>3, <1>4, Turn

\* An update leaves a row a row.
LEMMA PatchedType ==
  ASSUME NEW d \in Change
  PROVE  /\ \A r \in Row : Patched(r, d) \in Row
         /\ \A r \in TenantRow : Patched(r, d) \in TenantRow
<1>1. /\ d.active # Same => d.active \in BOOLEAN
      /\ d.profile # Same => d.profile \in Profile
  BY TenantSessionAssumption
<1> QED
  BY <1>1 DEF Patched, Row, TenantRow

\* Accounts that do not change.
LEMMA SameAccounts ==
  ASSUME IInv, UNCHANGED <<pub, ten>>
  PROVE  /\ pub' \in [User -> Row \cup {NoRow}] /\ ten' \in [User -> TenantRow \cup {NoRow}]
         /\ SignInUserHasTenantRow'
BY DEF IInv, TypeOK, SignInUserHasTenantRow, Exists

\* A job begins.
LEMMA BeginInv ==
  ASSUME IInv, Watch, NEW w \in Worker, Begin(w)
  PROVE  IInv'
<1>1. PICK u \in User : \/ BeginRequest(w, u)
                        \/ \E d \in Account : BeginCreate(w, u, d)
                        \/ \E d \in Change : BeginUpdate(w, u, d)
                        \/ DeleteTenantRow(w, u)
  BY DEF Begin
<1>2. TypeOK /\ SignInUserHasTenantRow
  BY DEF IInv
<1>3. CASE BeginRequest(w, u)
  <2> DEFINE q == [pc |-> "lookup", user |-> u, entry |-> NoRow, hit |-> FALSE]
  <2>1. q \in RequestJob /\ q.pc \notin Resolving
    BY DEF RequestJob, RequestStep, Resolving
  <2>2. job' = [job EXCEPT ![w] = q] /\ job'[w] = q /\ UNCHANGED <<pub, ten, orgActive, cache>>
    BY <1>2, <1>3 DEF BeginRequest, TypeOK
  <2>3. Granted(w)'
    BY <2>2 DEF Granted, Resolving
  <2>4. cache' \in [User -> Row \cup {NoRow}]
    BY <1>2, <2>2 DEF TypeOK
  <2> HIDE DEF q
  <2> QED
    BY <2>1, <2>2, <2>3, <2>4, NextRequestStep
<1>4. ASSUME NEW d \in Account, BeginCreate(w, u, d) PROVE IInv'
  <2> DEFINE q == [pc |-> "insert", user |-> u, data |-> d]
  <2>1. q \in AdminJob
    BY DEF AdminJob, CreateJob
  <2>2. job' = [job EXCEPT ![w] = q] /\ UNCHANGED <<pub, ten, orgActive, cache>>
    BY <1>4 DEF BeginCreate
  <2> HIDE DEF q
  <2> QED
    BY <2>1, <2>2, SameAccounts, TakeUp
<1>5. ASSUME NEW d \in Change, BeginUpdate(w, u, d) PROVE IInv'
  <2> DEFINE q == [pc |-> "patch", user |-> u, data |-> d]
  <2>1. q \in AdminJob
    BY DEF AdminJob, UpdateJob
  <2>2. job' = [job EXCEPT ![w] = q] /\ UNCHANGED <<pub, ten, orgActive, cache>>
    BY <1>5 DEF BeginUpdate
  <2> HIDE DEF q
  <2> QED
    BY <2>1, <2>2, SameAccounts, TakeUp
<1>6. CASE DeleteTenantRow(w, u)
  <2> DEFINE q == [pc |-> "public_delete", user |-> u]
  <2>1. q \in AdminJob
    BY DEF AdminJob, DeleteJob
  <2>2. /\ job' = [job EXCEPT ![w] = q] /\ UNCHANGED <<pub, orgActive, cache>>
        /\ ten[u] \in TenantRow /\ ten' = [ten EXCEPT ![u].deleted = TRUE]
    BY <1>2, <1>6 DEF DeleteTenantRow, TypeOK
  <2>3. [ten[u] EXCEPT !.deleted = TRUE] \in TenantRow
    BY <2>2 DEF TenantRow
  <2>4. ten' \in [User -> TenantRow \cup {NoRow}] /\ pub' \in [User -> Row \cup {NoRow}]
    BY <1>2, <2>2, <2>3 DEF TypeOK
  <2>5. \A v \in User : ten[v] # NoRow => ten'[v] # NoRow
    BY <1>2, <2>2, <2>3, TenantSessionAssumption DEF TypeOK
  <2>6. SignInUserHasTenantRow'
    BY <1>2, <2>2, <2>5 DEF SignInUserHasTenantRow, Exists
  <2> HIDE DEF q
  <2> QED
    BY <2>1, <2>2, <2>4, <2>6, TakeUp
<1> QED
  BY <1>1, <1>3, <1>4, <1>5, <1>6

\* Every step of a tenant's administrator.
LEMMA AdminStepInv ==
  ASSUME IInv, Watch, NEW w \in Worker, AdminAction(w)
  PROVE  IInv'
<1>1. TypeOK /\ SignInUserHasTenantRow /\ UNCHANGED <<orgActive, cache>>
  BY DEF IInv, AdminAction, InsertTenantRow, MissPublicRow, PatchTenantRow,
         PatchPublicRow, DeletePublicRow, Abort
<1>2. job[w].pc \in AdminStep
  BY DEF AdminAction, InsertTenantRow, MissPublicRow, PatchTenantRow, PatchPublicRow,
         DeletePublicRow, Abort, At, AdminStep
<1>3. job[w] \in AdminJob /\ job[w].user \in User
  BY <1>1, <1>2, JobKind DEF AdminJob, CreateJob, UpdateJob, DeleteJob
<1>4. pub \in [User -> Row \cup {NoRow}] /\ ten \in [User -> TenantRow \cup {NoRow}]
  BY <1>1 DEF TypeOK
<1>5. CASE InsertTenantRow(w)
  <2> DEFINE q == [job[w] EXCEPT !.pc = "public_insert"]
             r == [active |-> job[w].data.active, profile |-> job[w].data.profile, deleted |-> FALSE]
  <2>1. job[w] \in CreateJob
    BY <1>3, <1>5 DEF InsertTenantRow, At, AdminJob, CreateJob, UpdateJob, DeleteJob
  <2>2. q \in AdminJob /\ r \in TenantRow
    BY <2>1, TenantSessionAssumption DEF AdminJob, CreateJob, Row, TenantRow
  <2>3. job' = [job EXCEPT ![w] = q] /\ ten' = [ten EXCEPT ![job[w].user] = r] /\ pub' = pub
    BY <1>1, <1>5 DEF InsertTenantRow, Goto, TypeOK
  <2> HIDE DEF q, r
  <2>4. ten' \in [User -> TenantRow \cup {NoRow}]
    BY <1>4, <2>2, <2>3
  <2>5. \A v \in User : ten[v] # NoRow => ten'[v] # NoRow
    BY <1>3, <1>4, <2>2, <2>3, TenantSessionAssumption
  <2>6. SignInUserHasTenantRow'
    BY <1>1, <2>3, <2>5 DEF SignInUserHasTenantRow, Exists
  <2> QED
    BY <1>1, <1>4, <2>2, <2>3, <2>4, <2>6, TakeUp
<1>6. CASE MissPublicRow(w)
  BY <1>1, <1>6, SameAccounts, EndJob DEF MissPublicRow
<1>7. CASE PatchTenantRow(w)
  <2> DEFINE q == [job[w] EXCEPT !.pc = "public_patch"]
  <2>1. job[w] \in UpdateJob
    BY <1>3, <1>7 DEF PatchTenantRow, At, AdminJob, CreateJob, UpdateJob, DeleteJob
  <2>2. q \in AdminJob /\ job[w].data \in Change
    BY <2>1 DEF AdminJob, UpdateJob
  <2>3. job' = [job EXCEPT ![w] = q] /\ pub' = pub
    BY <1>1, <1>7 DEF PatchTenantRow, Goto, TypeOK
  <2> HIDE DEF q
  <2>4. CASE ten[job[w].user] # NoRow /\ ten' = [ten EXCEPT ![job[w].user] = Patched(@, job[w].data)]
    <3>1. Patched(ten[job[w].user], job[w].data) \in TenantRow
      BY <1>3, <1>4, <2>2, <2>4, PatchedType
    <3>2. ten' \in [User -> TenantRow \cup {NoRow}]
      BY <1>4, <2>4, <3>1
    <3>3. \A v \in User : ten[v] # NoRow => ten'[v] # NoRow
      BY <1>3, <1>4, <2>4, <3>1, TenantSessionAssumption
    <3>4. SignInUserHasTenantRow'
      BY <1>1, <2>3, <3>3 DEF SignInUserHasTenantRow, Exists
    <3> QED
      BY <1>1, <1>4, <2>2, <2>3, <3>2, <3>4, TakeUp
  <2>5. CASE UNCHANGED ten
    BY <1>1, <2>2, <2>3, <2>5, SameAccounts, TakeUp
  <2> QED
    BY <1>7, <2>4, <2>5 DEF PatchTenantRow
<1>8. CASE PatchPublicRow(w)
  <2>1. job[w] \in UpdateJob
    BY <1>3, <1>8 DEF PatchPublicRow, At, AdminJob, CreateJob, UpdateJob, DeleteJob
  <2>2. /\ job[w].data \in Change /\ pub[job[w].user] \in Row /\ End(w) /\ ten' = ten
        /\ pub' = [pub EXCEPT ![job[w].user] = Patched(@, job[w].data)]
    BY <1>3, <1>4, <1>8, <2>1 DEF PatchPublicRow, UpdateJob, Exists
  <2>3. Patched(pub[job[w].user], job[w].data) \in Row
    BY <2>2, PatchedType
  <2>4. pub' \in [User -> Row \cup {NoRow}]
    BY <1>4, <2>2, <2>3
  <2>5. \A v \in User : pub'[v] # NoRow => pub[v] # NoRow
    BY <1>3, <1>4, <1>8, <2>2 DEF PatchPublicRow, Exists
  <2>6. SignInUserHasTenantRow'
    BY <1>1, <2>2, <2>5 DEF SignInUserHasTenantRow, Exists
  <2> QED
    BY <1>1, <1>4, <2>2, <2>4, <2>6, EndJob
<1>9. CASE DeletePublicRow(w)
  <2>1. End(w) /\ ten' = ten /\ pub' = [pub EXCEPT ![job[w].user] = NoRow]
    BY <1>9 DEF DeletePublicRow
  <2>2. pub' \in [User -> Row \cup {NoRow}] /\ \A v \in User : pub'[v] # NoRow => pub[v] # NoRow
    BY <1>3, <1>4, <2>1
  <2>3. SignInUserHasTenantRow'
    BY <1>1, <2>1, <2>2 DEF SignInUserHasTenantRow, Exists
  <2> QED
    BY <1>1, <1>4, <2>1, <2>2, <2>3, EndJob
<1>10. CASE Abort(w)
  BY <1>1, <1>10, SameAccounts, EndJob DEF Abort
<1> QED
  BY <1>5, <1>6, <1>7, <1>8, <1>9, <1>10 DEF AdminAction

\* The workers stand still.
LEMMA Meanwhile ==
  ASSUME IInv, Watch, UNCHANGED job,
         pub' \in [User -> Row \cup {NoRow}], ten' \in [User -> TenantRow \cup {NoRow}],
         orgActive' \in [Org -> BOOLEAN], cache' \in [User -> Row \cup {NoRow}],
         SignInUserHasTenantRow'
  PROVE  IInv'
<1>1. TypeOK'
  BY History DEF IInv, TypeOK
<1>2. ASSUME NEW w \in Worker PROVE Watched(w)' /\ Granted(w)'
  BY History, Bystander DEF IInv
<1> QED
  BY <1>1, <1>2 DEF IInv

\* The operator of the platform writes both rows, or only the public one.
LEMMA ServiceInv ==
  ASSUME IInv, Watch, Service
  PROVE  IInv'
<1>1. TypeOK /\ SignInUserHasTenantRow
  BY DEF IInv
<1>2. /\ pub \in [User -> Row \cup {NoRow}] /\ ten \in [User -> TenantRow \cup {NoRow}]
      /\ orgActive \in [Org -> BOOLEAN] /\ cache \in [User -> Row \cup {NoRow}]
  BY <1>1 DEF TypeOK
<1>3. ASSUME NEW u \in User, NEW p \in Profile, ServiceCreate(u, p) PROVE IInv'
  <2>1. [active |-> TRUE, profile |-> p] \in Row /\ [active |-> TRUE, profile |-> p, deleted |-> FALSE] \in TenantRow
    BY DEF Row, TenantRow
  <2>2. /\ pub' = [pub EXCEPT ![u] = [active |-> TRUE, profile |-> p]]
        /\ ten' = [ten EXCEPT ![u] = [active |-> TRUE, profile |-> p, deleted |-> FALSE]]
        /\ UNCHANGED <<orgActive, cache, job>>
    BY <1>3 DEF ServiceCreate
  <2>3. pub' \in [User -> Row \cup {NoRow}] /\ ten' \in [User -> TenantRow \cup {NoRow}]
    BY <1>2, <2>1, <2>2
  <2>4. \A v \in User : (pub'[v] # NoRow => pub[v] # NoRow \/ v = u) /\ (ten[v] # NoRow \/ v = u => ten'[v] # NoRow)
    BY <1>2, <2>1, <2>2, TenantSessionAssumption
  <2>5. SignInUserHasTenantRow'
    BY <1>1, <2>4 DEF SignInUserHasTenantRow, Exists
  <2> QED
    BY <1>2, <2>2, <2>3, <2>5, Meanwhile
<1>4. ASSUME NEW u \in User, NEW p \in Profile, ServiceUpdate(u, p) PROVE IInv'
  <2>1. pub[u] \in Row /\ (ten[u] # NoRow => ten[u] \in TenantRow)
    BY <1>2, <1>4 DEF ServiceUpdate, Exists
  <2>2. [pub[u] EXCEPT !.profile = p] \in Row /\ (ten[u] # NoRow => [ten[u] EXCEPT !.profile = p] \in TenantRow)
    BY <2>1 DEF Row, TenantRow
  <2>3. /\ pub' = [pub EXCEPT ![u].profile = p]
        /\ ten' = IF ten[u] = NoRow THEN ten ELSE [ten EXCEPT ![u].profile = p]
        /\ UNCHANGED <<orgActive, cache, job>>
    BY <1>4 DEF ServiceUpdate
  <2>4. pub' \in [User -> Row \cup {NoRow}] /\ ten' \in [User -> TenantRow \cup {NoRow}]
    BY <1>2, <2>2, <2>3
  <2>5. \A v \in User : (pub'[v] # NoRow => pub[v] # NoRow) /\ (ten[v] # NoRow => ten'[v] # NoRow)
    BY <1>2, <2>1, <2>2, <2>3, TenantSessionAssumption
  <2>6. SignInUserHasTenantRow'
    BY <1>1, <2>5 DEF SignInUserHasTenantRow, Exists
  <2> QED
    BY <1>2, <2>3, <2>4, <2>6, Meanwhile
<1>5. ASSUME NEW u \in User, NEW f \in BOOLEAN, ServiceFreeze(u, f) PROVE IInv'
  <2>1. pub[u] \in Row
    BY <1>2, <1>5 DEF ServiceFreeze, Exists
  <2>2. [pub[u] EXCEPT !.active = ~f] \in Row
    BY <2>1 DEF Row
  <2>3. pub' = [pub EXCEPT ![u].active = ~f] /\ UNCHANGED <<ten, orgActive, cache, job>>
    BY <1>5 DEF ServiceFreeze
  <2>4. pub' \in [User -> Row \cup {NoRow}] /\ ten' \in [User -> TenantRow \cup {NoRow}]
    BY <1>2, <2>2, <2>3
  <2>5. \A v \in User : pub'[v] # NoRow => pub[v] # NoRow
    BY <1>2, <2>1, <2>3, TenantSessionAssumption
  <2>6. SignInUserHasTenantRow'
    BY <1>1, <2>3, <2>5 DEF SignInUserHasTenantRow, Exists
  <2> QED
    BY <1>2, <2>3, <2>4, <2>6, Meanwhile
<1>6. ASSUME NEW u \in User, ServiceDelete(u) PROVE IInv'
  <2>1. /\ pub' = [pub EXCEPT ![u] = NoRow] /\ ten' = [ten EXCEPT ![u] = NoRow]
        /\ UNCHANGED <<orgActive, cache, job>>
    BY <1>6 DEF ServiceDelete
  <2>2. pub' \in [User -> Row \cup {NoRow}] /\ ten' \in [User -> TenantRow \cup {NoRow}]
    BY <1>2, <2>1
  <2>3. \A v \in User : pub'[v] # NoRow => pub[v] # NoRow /\ ten'[v] = ten[v]
    BY <1>2, <2>1
  <2>4. SignInUserHasTenantRow'
    BY <1>1, <2>3 DEF SignInUserHasTenantRow, Exists
  <2> QED
    BY <1>2, <2>1, <2>2, <2>4, Meanwhile
<1>7. ASSUME NEW o \in Org, FreezeOrganization(o) \/ UnfreezeOrganization(o) PROVE IInv'
  <2>1. orgActive' \in [Org -> BOOLEAN] /\ UNCHANGED <<pub, ten, cache, job>>
    BY <1>2, <1>7 DEF FreezeOrganization, UnfreezeOrganization
  <2> QED
    BY <1>2, <2>1, SameAccounts, Meanwhile
<1> QED
  BY <1>3, <1>4, <1>5, <1>6, <1>7 DEF Service

\* An entry of the cache comes to its end.
LEMMA ExpireInv ==
  ASSUME IInv, NEW u \in User, Expire(u)
  PROVE  IInv'
<1>1. Watch /\ UNCHANGED <<pub, ten, orgActive, job>> /\ cache' = [cache EXCEPT ![u] = NoRow]
  BY DEF Expire, DropEntry
<1>2. cache' \in [User -> Row \cup {NoRow}] /\ orgActive' \in [Org -> BOOLEAN]
  BY <1>1 DEF IInv, TypeOK
<1> QED
  BY <1>1, <1>2, SameAccounts, Meanwhile

\* Every step.
LEMMA InvNext == IInv /\ [Next]_vars => IInv'
<1> SUFFICES ASSUME IInv, [Next]_vars PROVE IInv'
  OBVIOUS
<1>1. ASSUME NEW w \in Worker, Begin(w), Watch PROVE IInv'
  BY <1>1, BeginInv
<1>2. ASSUME NEW w \in Worker, Work(w) PROVE IInv'
  BY <1>2, RequestStepInv, AdminStepInv DEF Work
<1>3. ASSUME Service, Watch PROVE IInv'
  BY <1>3, ServiceInv
<1>4. ASSUME NEW u \in User, Expire(u) PROVE IInv'
  BY <1>4, ExpireInv
<1>5. CASE UNCHANGED vars
  BY <1>5 DEF vars, IInv, TypeOK, SignInUserHasTenantRow, Exists, Watched, Granted,
     IsActive, OwnProfiles
<1> QED
  BY <1>1, <1>2, <1>3, <1>4, <1>5 DEF Next

\* The inductive invariant holds in every behaviour.
THEOREM Invariance == Spec => []IInv
BY InvInit, InvNext, PTL DEF Spec

\* Every variable keeps its type.
THEOREM TypeCorrect == Spec => []TypeOK
<1>1. IInv => TypeOK
  BY DEF IInv
<1> QED
  BY <1>1, Invariance, PTL

\* For any number of users, tenants and workers: a handler runs only for a user
\* who was there, in an organization that was active, with one of its profiles.
THEOREM Entitled == Spec => []ServedWereEntitled
BY InvServed, Invariance, PTL

\* Only an entry of the cache lets a frozen user be served.
THEOREM FrozenOnlyFromCache == Spec => []FrozenServedOnlyFromCache
BY InvServed, Invariance, PTL

\* However the writing of accounts breaks off, who can sign in is in the tenant.
THEOREM TenantRowOfSignInUser == Spec => []SignInUserHasTenantRow
<1>1. IInv => SignInUserHasTenantRow
  BY DEF IInv
<1> QED
  BY <1>1, Invariance, PTL
=============================================================================
