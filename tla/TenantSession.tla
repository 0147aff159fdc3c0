--------------------------- MODULE TenantSession ----------------------------
(***************************************************************************)
(* Who is served, and in which tenant: the head of every API request       *)
(* (api/APIs/dispatcher.py, public/auth/session.py,                        *)
(* api/security/schema_authority.py) while user accounts change.  An       *)
(* account is two rows, one in public.users, which sessions read, and one  *)
(* in the tenant's own users table.  A tenant's administrator writes them  *)
(* one after the other (api/BL/Users/CreateUsers.py), the operator of the  *)
(* platform both in one transaction (adminuser/services/user.py).  What a  *)
(* session knows of its user is kept in Redis under users_org.             *)
(*                                                                         *)
(* The signed token of a request names its user and is never revoked, so   *)
(* any user may make a request at any time.  External: the control panel,  *)
(* which may refuse; PostgreSQL, which may fail a statement and enforces   *)
(* the foreign key from the tenant's users to its profiles.                *)
(***************************************************************************)
CONSTANTS
  User, Org, Worker,
  OrgOf,        \* the organization of each user
  Profile,
  ProfilesOf,   \* the profiles in each organization's schema
  Account,      \* the rows an administrator may ask to create
  Change,       \* the updates an administrator may ask for
  NoRow, Same

Row       == [active : BOOLEAN, profile : Profile]
TenantRow == [active : BOOLEAN, profile : Profile, deleted : BOOLEAN]

ASSUME TenantSessionAssumption ==
  /\ OrgOf \in [User -> Org]
  /\ ProfilesOf \in [Org -> SUBSET Profile]
  /\ Account \subseteq Row
  /\ Change \subseteq [active : BOOLEAN \cup {Same}, profile : Profile \cup {Same}]
  /\ Same \notin BOOLEAN \cup Profile
  /\ NoRow \notin Row \cup TenantRow

VARIABLES
  pub,         \* public.users
  ten,         \* users in the schema of the user's organization
  orgActive,   \* public.organizations.is_active
  cache,       \* Redis, users_org
  job,         \* what each worker is doing
  seen         \* history: what has held at some time during the job's request

vars == <<pub, ten, orgActive, cache, job, seen>>

RequestStep == {"lookup", "load", "store", "user", "org", "profile", "serve"}
Resolving   == {"store", "user", "org", "profile", "serve"}
AdminStep   == {"insert", "public_insert", "patch", "public_patch", "public_delete"}

Idle       == [pc |-> "idle"]
RequestJob == [pc : RequestStep, user : User, entry : Row \cup {NoRow}, hit : BOOLEAN]
CreateJob  == [pc : {"insert", "public_insert"}, user : User, data : Account]
UpdateJob  == [pc : {"patch", "public_patch"}, user : User, data : Change]
DeleteJob  == [pc : {"public_delete"}, user : User]
AdminJob   == CreateJob \cup UpdateJob \cup DeleteJob
Witness    == [row : BOOLEAN, active : BOOLEAN, org : BOOLEAN]

-----------------------------------------------------------------------------
Exists(u)   == pub[u] # NoRow
IsActive(u) == Exists(u) /\ pub[u].active
OwnProfiles(u) == ProfilesOf[OrgOf[u]]

At(w, step)    == job[w].pc = step
Goto(w, step)  == job' = [job EXCEPT ![w].pc = step]
End(w)         == job' = [job EXCEPT ![w] = Idle]

Patched(r, d) ==
  [r EXCEPT !.active  = IF d.active = Same THEN @ ELSE d.active,
            !.profile = IF d.profile = Same THEN @ ELSE d.profile]

Init ==
  /\ pub = [u \in User |-> NoRow]
  /\ ten = [u \in User |-> NoRow]
  /\ orgActive = [o \in Org |-> TRUE]
  /\ cache = [u \in User |-> NoRow]
  /\ job = [w \in Worker |-> Idle]
  /\ seen = [w \in Worker |-> [row |-> FALSE, active |-> FALSE, org |-> FALSE]]

-----------------------------------------------------------------------------
(* A request, from its token to its handler.                               *)

BeginRequest(w, u) ==
  /\ job[w] = Idle
  /\ job' = [job EXCEPT ![w] = [pc |-> "lookup", user |-> u, entry |-> NoRow, hit |-> FALSE]]
  /\ UNCHANGED <<pub, ten, orgActive, cache>>

\* A failure of Redis counts as a miss.
LookUp(w) ==
  /\ At(w, "lookup")
  /\ \/ /\ cache[job[w].user] # NoRow
        /\ job' = [job EXCEPT ![w].entry = cache[job[w].user], ![w].hit = TRUE, ![w].pc = "user"]
     \/ Goto(w, "load")
  /\ UNCHANGED <<pub, ten, orgActive, cache>>

\* Faulty: the absence of a row goes unnoticed.
LoadUserUnchecked(w) ==
  /\ At(w, "load")
  /\ job' = [job EXCEPT ![w].entry = pub[job[w].user], ![w].pc = "store"]
  /\ UNCHANGED <<pub, ten, orgActive, cache>>

\* Faulty: u.is_active left out of the query, so that the default TRUE stands.
LoadUserBare(w) ==
  /\ At(w, "load")
  /\ IF Exists(job[w].user)
       THEN job' = [job EXCEPT ![w].entry = [pub[job[w].user] EXCEPT !.active = TRUE], ![w].pc = "store"]
       ELSE End(w)
  /\ UNCHANGED <<pub, ten, orgActive, cache>>

\* No row: three results where the caller unpacks six, and the request ends.
LoadUser(w) ==
  /\ At(w, "load")
  /\ IF Exists(job[w].user)
       THEN job' = [job EXCEPT ![w].entry = pub[job[w].user], ![w].pc = "store"]
       ELSE End(w)
  /\ UNCHANGED <<pub, ten, orgActive, cache>>

StoreEntry(w) ==
  /\ At(w, "store")
  /\ Goto(w, "user")
  /\ cache' = [cache EXCEPT ![job[w].user] = job[w].entry]
  /\ UNCHANGED <<pub, ten, orgActive>>

\* Faulty: the session's is_active is not looked at.
ResolveAnyUser(w) ==
  /\ At(w, "user")
  /\ IF Exists(job[w].user) THEN Goto(w, "org") ELSE End(w)
  /\ UNCHANGED <<pub, ten, orgActive, cache>>

\* is_active as the session knows it, and the user's row as it is.
ResolveUser(w) ==
  /\ At(w, "user")
  /\ IF job[w].entry.active /\ Exists(job[w].user) THEN Goto(w, "org") ELSE End(w)
  /\ UNCHANGED <<pub, ten, orgActive, cache>>

\* Faulty: the organization's is_active is not asked for.
ResolveAnyOrg(w) ==
  /\ At(w, "org")
  /\ Goto(w, "profile")
  /\ UNCHANGED <<pub, ten, orgActive, cache>>

ResolveOrg(w) ==
  /\ At(w, "org")
  /\ IF orgActive[OrgOf[job[w].user]] THEN Goto(w, "profile") ELSE End(w)
  /\ UNCHANGED <<pub, ten, orgActive, cache>>

ResolveProfile(w) ==
  /\ At(w, "profile")
  /\ IF job[w].entry.profile \in OwnProfiles(job[w].user) THEN Goto(w, "serve") ELSE End(w)
  /\ UNCHANGED <<pub, ten, orgActive, cache>>

Respond(w) ==
  /\ At(w, "serve")
  /\ End(w)
  /\ UNCHANGED <<pub, ten, orgActive, cache>>

RequestAction(w) ==
  \/ LookUp(w) \/ LoadUser(w) \/ StoreEntry(w)
  \/ ResolveUser(w) \/ ResolveOrg(w) \/ ResolveProfile(w) \/ Respond(w)

-----------------------------------------------------------------------------
(* The administrator of a tenant: control panel, tenant row, public row.   *)

\* The control panel has registered the user.
BeginCreate(w, u, d) ==
  /\ job[w] = Idle
  /\ job' = [job EXCEPT ![w] = [pc |-> "insert", user |-> u, data |-> d]]
  /\ UNCHANGED <<pub, ten, orgActive, cache>>

InsertTenantRow(w) ==
  /\ At(w, "insert")
  /\ LET u == job[w].user  d == job[w].data IN
       /\ ten[u] = NoRow
       /\ d.profile \in OwnProfiles(u)
       /\ ten' = [ten EXCEPT ![u] = [active |-> d.active, profile |-> d.profile, deleted |-> FALSE]]
  /\ Goto(w, "public_insert")
  /\ UNCHANGED <<pub, orgActive, cache>>

\* self.get_validated_schema is no attribute: an exception instead of a row.
MissPublicRow(w) ==
  /\ At(w, "public_insert")
  /\ End(w)
  /\ UNCHANGED <<pub, ten, orgActive, cache>>

\* The control panel has stored the update.
BeginUpdate(w, u, d) ==
  /\ job[w] = Idle
  /\ job' = [job EXCEPT ![w] = [pc |-> "patch", user |-> u, data |-> d]]
  /\ UNCHANGED <<pub, ten, orgActive, cache>>

\* A record that cannot be updated is named in the report and raises nothing.
PatchTenantRow(w) ==
  /\ At(w, "patch")
  /\ LET u == job[w].user  d == job[w].data IN
       \/ /\ ten[u] # NoRow
          /\ d.profile \in OwnProfiles(u) \cup {Same}
          /\ ten' = [ten EXCEPT ![u] = Patched(@, d)]
       \/ UNCHANGED ten
  /\ Goto(w, "public_patch")
  /\ UNCHANGED <<pub, orgActive, cache>>

PatchPublicRow(w) ==
  /\ At(w, "public_patch")
  /\ Exists(job[w].user)
  /\ pub' = [pub EXCEPT ![job[w].user] = Patched(@, job[w].data)]
  /\ End(w)
  /\ UNCHANGED <<ten, orgActive, cache>>

\* Faulty: the tenant's row is removed.
DeleteTenantRowForGood(w, u) ==
  /\ job[w] = Idle
  /\ ten[u] # NoRow
  /\ ten' = [ten EXCEPT ![u] = NoRow]
  /\ job' = [job EXCEPT ![w] = [pc |-> "public_delete", user |-> u]]
  /\ UNCHANGED <<pub, orgActive, cache>>

\* The tenant's table has is_deleted: its row stays.
DeleteTenantRow(w, u) ==
  /\ job[w] = Idle
  /\ ten[u] # NoRow
  /\ ten' = [ten EXCEPT ![u].deleted = TRUE]
  /\ job' = [job EXCEPT ![w] = [pc |-> "public_delete", user |-> u]]
  /\ UNCHANGED <<pub, orgActive, cache>>

\* public.users has no is_deleted: its row goes.
DeletePublicRow(w) ==
  /\ At(w, "public_delete")
  /\ pub' = [pub EXCEPT ![job[w].user] = NoRow]
  /\ End(w)
  /\ UNCHANGED <<ten, orgActive, cache>>

\* Any step may fail: what was done before it stays.
Abort(w) ==
  /\ job[w].pc \in AdminStep
  /\ End(w)
  /\ UNCHANGED <<pub, ten, orgActive, cache>>

AdminAction(w) ==
  \/ InsertTenantRow(w) \/ MissPublicRow(w)
  \/ PatchTenantRow(w) \/ PatchPublicRow(w)
  \/ DeletePublicRow(w) \/ Abort(w)

-----------------------------------------------------------------------------
(* The operator of the platform: one transaction, or one statement.        *)

ServiceCreate(u, p) ==
  /\ ~Exists(u) /\ ten[u] = NoRow
  /\ p \in OwnProfiles(u)
  /\ pub' = [pub EXCEPT ![u] = [active |-> TRUE, profile |-> p]]
  /\ ten' = [ten EXCEPT ![u] = [active |-> TRUE, profile |-> p, deleted |-> FALSE]]
  /\ UNCHANGED <<orgActive, cache, job>>

ServiceUpdate(u, p) ==
  /\ Exists(u)
  /\ ten[u] # NoRow => p \in OwnProfiles(u)
  /\ pub' = [pub EXCEPT ![u].profile = p]
  /\ ten' = IF ten[u] = NoRow THEN ten ELSE [ten EXCEPT ![u].profile = p]
  /\ UNCHANGED <<orgActive, cache, job>>

\* The tenant's row is not told.
ServiceFreeze(u, frozen) ==
  /\ Exists(u)
  /\ pub' = [pub EXCEPT ![u].active = ~frozen]
  /\ UNCHANGED <<ten, orgActive, cache, job>>

ServiceDelete(u) ==
  /\ Exists(u)
  /\ pub' = [pub EXCEPT ![u] = NoRow]
  /\ ten' = [ten EXCEPT ![u] = NoRow]
  /\ UNCHANGED <<orgActive, cache, job>>

FreezeOrganization(o) ==
  /\ orgActive' = [orgActive EXCEPT ![o] = FALSE]
  /\ UNCHANGED <<pub, ten, cache, job>>

UnfreezeOrganization(o) ==
  /\ orgActive' = [orgActive EXCEPT ![o] = TRUE]
  /\ UNCHANGED <<pub, ten, cache, job>>

\* The lifetime of the entry is over, or its user has uploaded a logo.
DropEntry(u) ==
  /\ cache[u] # NoRow
  /\ cache' = [cache EXCEPT ![u] = NoRow]
  /\ UNCHANGED <<pub, ten, orgActive, job>>

-----------------------------------------------------------------------------
\* History: what holds after this step is held true of the requests under way.
Watch ==
  seen' = [w \in Worker |->
    IF job'[w].pc \notin RequestStep THEN [row |-> FALSE, active |-> FALSE, org |-> FALSE]
    ELSE [row    |-> seen[w].row \/ pub'[job'[w].user] # NoRow,
          active |-> seen[w].active \/ (pub'[job'[w].user] # NoRow /\ pub'[job'[w].user].active),
          org    |-> seen[w].org \/ orgActive'[OrgOf[job'[w].user]]]]

Begin(w) ==
  \E u \in User :
    \/ BeginRequest(w, u)
    \/ \E d \in Account : BeginCreate(w, u, d)
    \/ \E d \in Change : BeginUpdate(w, u, d)
    \/ DeleteTenantRow(w, u)

Service ==
  \/ \E u \in User :
       \/ \E p \in Profile : ServiceCreate(u, p) \/ ServiceUpdate(u, p)
       \/ \E f \in BOOLEAN : ServiceFreeze(u, f)
       \/ ServiceDelete(u)
  \/ \E o \in Org : FreezeOrganization(o) \/ UnfreezeOrganization(o)

Work(w)   == (RequestAction(w) \/ AdminAction(w)) /\ Watch
Expire(u) == DropEntry(u) /\ Watch

Next ==
  \/ \E w \in Worker : (Begin(w) /\ Watch) \/ Work(w)
  \/ Service /\ Watch
  \/ \E u \in User : Expire(u)

\* Workers go on with what they have begun, and entries come to their end
\* after 6000 s; nobody has to begin anything.
Spec == Init /\ [][Next]_vars
        /\ \A w \in Worker : WF_vars(Work(w))
        /\ \A u \in User : WF_vars(Expire(u))

-----------------------------------------------------------------------------
\* Every variable keeps its type, and a session that is being resolved is one
\* of a row that has been read (session.py).
TypeOK ==
  /\ pub \in [User -> Row \cup {NoRow}]
  /\ ten \in [User -> TenantRow \cup {NoRow}]
  /\ orgActive \in [Org -> BOOLEAN]
  /\ cache \in [User -> Row \cup {NoRow}]
  /\ job \in [Worker -> {Idle} \cup RequestJob \cup AdminJob]
  /\ \A w \in Worker : job[w].pc \in Resolving => job[w].entry \in Row
  /\ seen \in [Worker -> Witness]

Serving(w, u) == At(w, "serve") /\ job[w].user = u

\* Whatever the cache says, a handler runs only if during its request the
\* user's row was in public.users, the organization was active, and the
\* profile it runs with is one of the tenant's own (resolve_tenant).
ServedWereEntitled ==
  \A w \in Worker, u \in User :
    Serving(w, u) => /\ seen[w].row /\ seen[w].org
                     /\ job[w].entry.profile \in OwnProfiles(u)

\* A user who was inactive all through the request is served only on an entry
\* of the cache (get_connection_and_user_details, _init_request_context).
FrozenServedOnlyFromCache ==
  \A w \in Worker, u \in User : Serving(w, u) /\ ~seen[w].active => job[w].hit

\* Wherever writing an account breaks off, who can sign in has a row in the
\* tenant, for the tenant's administrator to see (CreateUsers.py, user.py).
SignInUserHasTenantRow == \A u \in User : Exists(u) => ten[u] # NoRow

\* A user who stays frozen or deleted is in the end served no more, though
\* nobody drops the entry when the user is frozen (session.py:143).
FrozenEventuallyRefused ==
  \A u \in User : <>[]~IsActive(u) => <>[](\A w \in Worker : ~Serving(w, u))
=============================================================================
