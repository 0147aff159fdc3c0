---------------------------- MODULE Provisioning ----------------------------
(***************************************************************************)
(* Signing up a tenant (public/auth/signup.py,                             *)
(* public/utils/organisation.py) and deleting one                          *)
(* (adminuser/services/organizations.py).  A signup inserts its user,      *)
(* builds a schema and fills it, statement by statement, each committed on *)
(* its own; after an error it deletes what goes by its user id and by its  *)
(* schema name, in whatever tables the search path then leads to.  The ids *)
(* of the user and the organization are made for the request unless its    *)
(* body names them; it may name those of another tenant.                   *)
(*                                                                         *)
(* External: PostgreSQL's constraints.  The column organization_id of      *)
(* public.users is taken to have no foreign key in force: every signup     *)
(* fills it before the organization exists.                                *)
(***************************************************************************)
EXTENDS Naturals, FiniteSets

CONSTANTS
  Signup,            \* signup requests; also the ids made for their user and organization
  Established,       \* a tenant there from the beginning
  SchemaName, OrgName, Email,
  Ask,               \* what a signup may ask for; an id is Nobody if the body has none
  Home,              \* what Established once asked for
  Nobody, NoOrg, NoSchema, NoUser

Tenant == Signup \cup {Established}
Thread == {"objects", "app", "fields"}   \* of insert_metadata
Part   == {"people", "defaults", "reports"} \cup Thread
User   == [email : Email, org : Tenant]
Org    == [name : OrgName, schema : SchemaName]
Schema == [parts : SUBSET Part, profile : Tenant \cup {Nobody}, members : SUBSET Tenant]

ProvisioningAssumption ==
  /\ Established \notin Signup /\ Nobody \notin Tenant
  /\ Ask \subseteq [email : Email, name : OrgName, schema : SchemaName,
                    user_id : Tenant \cup {Nobody}, organization_id : Tenant \cup {Nobody},
                    id : Tenant \cup {Nobody}]
  /\ Home \in [email : Email, name : OrgName, schema : SchemaName]
  /\ NoOrg \notin Org /\ NoSchema \notin Schema /\ NoUser \notin User

VARIABLES
  user,     \* public.users by id: the first users of tenants
  org,      \* public.organizations by id
  schema,   \* the schemas of the database
  pc, ask,
  threads,  \* of insert_metadata, those still running
  path,     \* the search path a failed signup has been left with
  removed   \* tenants an administrator has deleted

vars == <<user, org, schema, pc, ask, threads, path, removed>>

-----------------------------------------------------------------------------
SchemaOf(q) == ask[q].schema

\* The ids in force: user_id and organization_id of signup_with_proof, and
\* payload["id"], which an "id" of the body overrides; Established has its own.
UserId(q) == IF ask[q].user_id = Nobody THEN q ELSE ask[q].user_id
OrgId(i)  == IF i = Established \/ ask[i].organization_id = Nobody THEN i ELSE ask[i].organization_id
RowId(i)  == CASE i = Established       -> i
               [] i # Established /\ ask[i].id = Nobody -> UserId(i)
               [] OTHER                -> ask[i].id

There(s)    == schema[s] # NoSchema
Has(s, p)   == There(s) /\ p \in schema[s].parts
Add(s, p)   == schema' = [schema EXCEPT ![s] = [schema[s] EXCEPT !.parts = @ \cup {p}]]

At(q, l)    == pc[q] = l
Goto(q, l)  == pc' = [pc EXCEPT ![q] = l]

Building == {"schema", "tables", "org", "profile", "member", "defaults", "metadata", "reports"}

Init ==
  /\ user = [i \in Tenant |-> IF i = Established THEN [email |-> Home.email, org |-> i] ELSE NoUser]
  /\ org = [i \in Tenant |-> IF i = Established THEN [name |-> Home.name, schema |-> Home.schema] ELSE NoOrg]
  /\ schema = [s \in SchemaName |->
       IF s = Home.schema THEN [parts |-> Part, profile |-> Established, members |-> {Established}] ELSE NoSchema]
  /\ pc = [q \in Signup |-> "idle"]
  /\ ask \in [Signup -> Ask]
  /\ threads = [q \in Signup |-> {}]
  /\ path = [q \in Signup |-> "public"]
  /\ removed = {}

\* The user first; an email or an id in use is answered with 409 and nothing else is done.
InsertUser(q) ==
  /\ At(q, "idle")
  /\ IF \E i \in Tenant : user[i] # NoUser /\ (i = UserId(q) \/ user[i].email = ask[q].email)
     THEN Goto(q, "refused") /\ UNCHANGED user
     ELSE Goto(q, "schema") /\ user' = [user EXCEPT ![UserId(q)] = [email |-> ask[q].email, org |-> OrgId(q)]]
  /\ UNCHANGED <<org, schema, ask, threads, path, removed>>

\* CREATE SCHEMA IF NOT EXISTS.
CreateSchema(q) ==
  /\ At(q, "schema")
  /\ schema' = [schema EXCEPT ![SchemaOf(q)] =
                  IF @ = NoSchema THEN [parts |-> {}, profile |-> Nobody, members |-> {}] ELSE @]
  /\ Goto(q, "tables")
  /\ UNCHANGED <<user, org, ask, threads, path, removed>>

\* CREATE TABLE IF NOT EXISTS profile and users.
CreateTables(q) ==
  /\ At(q, "tables") /\ There(SchemaOf(q))
  /\ Add(SchemaOf(q), "people")
  /\ Goto(q, "org")
  /\ UNCHANGED <<user, org, ask, threads, path, removed>>

\* The name and the schema of an organization are unique.
OrgTaken(q) == \E i \in Tenant \ {OrgId(q)} :
  org[i] # NoOrg /\ (org[i].name = ask[q].name \/ org[i].schema = SchemaOf(q))

\* ON CONFLICT (id) DO UPDATE: an organization with this id is rewritten.
InsertOrg(q) ==
  /\ At(q, "org") /\ ~OrgTaken(q)
  /\ org' = [org EXCEPT ![OrgId(q)] = [name |-> ask[q].name, schema |-> SchemaOf(q)]]
  /\ Goto(q, "profile")
  /\ UNCHANGED <<user, schema, ask, threads, path, removed>>

\* The name of a profile is unique, its creator a row of public.users.
InsertProfile(q) ==
  LET s == SchemaOf(q) IN
  /\ At(q, "profile") /\ Has(s, "people") /\ schema[s].profile = Nobody /\ user[RowId(q)] # NoUser
  /\ schema' = [schema EXCEPT ![s] = [schema[s] EXCEPT !.profile = q]]
  /\ Goto(q, "member")
  /\ UNCHANGED <<user, org, ask, threads, path, removed>>

\* The user of the profile is moved to the organization and becomes the first
\* user of the schema; its id is the key there.
Enrol(q) ==
  LET s == SchemaOf(q) IN
  /\ At(q, "member") /\ Has(s, "people") /\ schema[s].profile = q
  /\ \A i \in schema[s].members : RowId(i) # RowId(q)
  /\ user' = IF user[RowId(q)] = NoUser THEN user ELSE [user EXCEPT ![RowId(q)] = [user[RowId(q)] EXCEPT !.org = OrgId(q)]]
  /\ schema' = [schema EXCEPT ![s] = [schema[s] EXCEPT !.members = @ \cup {q}]]
  /\ Goto(q, "defaults")
  /\ UNCHANGED <<org, ask, threads, path, removed>>

\* Faulty: the user's organization need not be there.
InsertMemberUnbound(q) == Enrol(q)

\* The organization is one of public.organizations.
InsertMember(q) == org[OrgId(q)] # NoOrg /\ Enrol(q)

\* default_tables.sql and tables.sql create what must not be there yet.
CreateDefaults(q) ==
  /\ At(q, "defaults") /\ There(SchemaOf(q)) /\ ~Has(SchemaOf(q), "defaults")
  /\ Add(SchemaOf(q), "defaults")
  /\ Goto(q, "metadata")
  /\ threads' = [threads EXCEPT ![q] = Thread]
  /\ UNCHANGED <<user, org, ask, path, removed>>

\* insert_metadata: three threads; what one of them raises reaches nobody.
EndThread(q, t) ==
  /\ At(q, "metadata") /\ t \in threads[q]
  /\ threads' = [threads EXCEPT ![q] = @ \ {t}]
  /\ \/ Has(SchemaOf(q), "defaults") /\ Add(SchemaOf(q), t)
     \/ UNCHANGED schema
  /\ UNCHANGED <<user, org, pc, ask, path, removed>>

Join(q) ==
  /\ At(q, "metadata") /\ threads[q] = {}
  /\ Goto(q, "reports")
  /\ UNCHANGED <<user, org, schema, ask, threads, path, removed>>

\* Faulty: an error in insert_mock_data reaches nobody, like one of a thread.
ReportsOrNot(q) ==
  /\ At(q, "reports")
  /\ \/ Has(SchemaOf(q), "defaults") /\ Add(SchemaOf(q), "reports")
     \/ UNCHANGED schema
  /\ Goto(q, "created")
  /\ UNCHANGED <<user, org, ask, threads, path, removed>>

\* insert_mock_data, then the answer 201.
InsertReports(q) ==
  /\ At(q, "reports") /\ Has(SchemaOf(q), "defaults")
  /\ Add(SchemaOf(q), "reports")
  /\ Goto(q, "created")
  /\ UNCHANGED <<user, org, ask, threads, path, removed>>

\* Where the names of tables are looked up after a failure in step l: SET
\* search_path holds for the session, first in both, then in the schema alone.
PathAfter(l) == CASE l = "schema" -> "public"
                  [] l \in {"tables", "org", "profile", "member"} -> "both"
                  [] OTHER -> "schema"

\* A statement is refused; create_new_tenant turns whatever it was into an
\* Exception and signup_with_proof starts to clean up.
Fail(q) ==
  /\ pc[q] \in Building \ {"metadata"}
  /\ path' = [path EXCEPT ![q] = PathAfter(pc[q])]
  /\ Goto(q, "dropUser")
  /\ UNCHANGED <<user, org, schema, ask, threads, removed>>

-----------------------------------------------------------------------------
\* Rows of schemas that go with a row of public.users, of public.organizations.
WithoutCreator(u) == [s \in SchemaName |->
  IF There(s) /\ schema[s].profile # Nobody /\ RowId(schema[s].profile) = u
  THEN [schema[s] EXCEPT !.profile = Nobody] ELSE schema[s]]
WithoutMembers(gone) == [s \in SchemaName |->
  IF There(s) THEN [schema[s] EXCEPT !.members = {i \in @ : OrgId(i) \notin gone}] ELSE NoSchema]

\* Faulty: the rest of the cleanup is not gone into.
DropUserOnly(q) ==
  /\ At(q, "dropUser")
  /\ user' = [user EXCEPT ![UserId(q)] = NoUser] /\ schema' = WithoutCreator(UserId(q))
  /\ Goto(q, "failed")
  /\ UNCHANGED <<org, ask, threads, path, removed>>

\* DELETE FROM users: of the schema if it has that table, else of public.
DropUser(q) ==
  LET s == SchemaOf(q)
      own == path[q] # "public" /\ Has(s, "people") IN
  /\ At(q, "dropUser")
  /\ \/ own /\ schema' = [schema EXCEPT ![s] = [schema[s] EXCEPT !.members = {i \in @ : RowId(i) # UserId(q)}]]
        /\ UNCHANGED user
     \/ ~own /\ path[q] # "schema" /\ user' = [user EXCEPT ![UserId(q)] = NoUser]
        /\ schema' = WithoutCreator(UserId(q))
  /\ Goto(q, "dropOrg")
  /\ UNCHANGED <<org, ask, threads, path, removed>>

\* DELETE FROM organizations WHERE database_schema = the name asked for.
DropOrg(q) ==
  LET gone == {i \in Tenant : org[i] # NoOrg /\ org[i].schema = SchemaOf(q)} IN
  /\ At(q, "dropOrg") /\ path[q] # "schema"   \* no schema has a table organizations
  /\ org' = [i \in Tenant |-> IF i \in gone THEN NoOrg ELSE org[i]]
  /\ schema' = WithoutMembers(gone)
  /\ Goto(q, "dropSchema")
  /\ UNCHANGED <<user, ask, threads, path, removed>>

DropSchema(q) ==
  /\ At(q, "dropSchema")
  /\ schema' = [schema EXCEPT ![SchemaOf(q)] = NoSchema]
  /\ Goto(q, "failed")
  /\ UNCHANGED <<user, org, ask, threads, path, removed>>

\* A statement of the cleanup fails, for a row that refers to the user or for a
\* table the path does not lead to: the rest is passed over.
GiveUp(q) ==
  /\ pc[q] \in {"dropUser", "dropOrg", "dropSchema"}
  /\ Goto(q, "dirty")
  /\ UNCHANGED <<user, org, schema, ask, threads, path, removed>>

\* The worker dies; nothing cleans up after it.
Crash(q) ==
  /\ pc[q] \in Building \cup {"dropUser", "dropOrg", "dropSchema"}
  /\ Goto(q, "crashed")
  /\ UNCHANGED <<user, org, schema, ask, threads, path, removed>>

\* delete_organization: one transaction.
DeleteOrganization(i) ==
  /\ org[i] # NoOrg
  /\ org' = [org EXCEPT ![i] = NoOrg]
  /\ schema' = [WithoutMembers({i}) EXCEPT ![org[i].schema] = NoSchema]
  /\ removed' = removed \cup {i}
  /\ UNCHANGED <<user, pc, ask, threads, path>>

Step(q) ==
  \/ InsertUser(q) \/ CreateSchema(q) \/ CreateTables(q) \/ InsertOrg(q) \/ InsertProfile(q)
  \/ InsertMember(q) \/ CreateDefaults(q) \/ Join(q) \/ InsertReports(q)
  \/ \E t \in Thread : EndThread(q, t)
  \/ Fail(q) \/ DropUser(q) \/ DropOrg(q) \/ DropSchema(q) \/ GiveUp(q) \/ Crash(q)

Next ==
  \/ \E q \in Signup : Step(q)
  \/ \E i \in Tenant : DeleteOrganization(i)

Spec == Init /\ [][Next]_vars

-----------------------------------------------------------------------------
Label == {"idle", "refused", "dropUser", "dropOrg", "dropSchema", "failed", "dirty", "crashed", "created"} \cup Building

\* Every variable has its type; threads run only while metadata is inserted.
TypeOK ==
  /\ user \in [Tenant -> User \cup {NoUser}]
  /\ org \in [Tenant -> Org \cup {NoOrg}]
  /\ schema \in [SchemaName -> Schema \cup {NoSchema}]
  /\ pc \in [Signup -> Label] /\ ask \in [Signup -> Ask]
  /\ threads \in [Signup -> SUBSET Thread]
  /\ \A q \in Signup : threads[q] # {} => pc[q] \in {"metadata", "crashed"}
  /\ path \in [Signup -> {"public", "both", "schema"}] /\ removed \subseteq Tenant

\* Signups that have got to the database; those that have asked for q's schema,
\* and those that have named an id of q's.
Begun     == {p \in Signup : pc[p] \notin {"idle", "refused"}}
Rivals(q) == {p \in Begun \ {q} : SchemaOf(p) = SchemaOf(q)}
Namers(q) == {p \in Begun \ {q} : OrgId(p) = OrgId(q) \/ UserId(q) \in {UserId(p), RowId(p)}}

\* A signup answered 201 has its user, its organization, its schema with the
\* first user in it and the tables, unless another signup for this schema or
\* with one of these ids or the administrator has been there.  (What the
\* threads insert is not promised.)
CreatedTenantsStand ==
  \A q \in Signup : pc[q] = "created" /\ Rivals(q) \cup Namers(q) = {} /\ OrgId(q) \notin removed =>
    /\ user[UserId(q)] = [email |-> ask[q].email, org |-> OrgId(q)]
    /\ org[OrgId(q)] = [name |-> ask[q].name, schema |-> SchemaOf(q)]
    /\ There(SchemaOf(q))
    /\ {"people", "defaults", "reports"} \subseteq schema[SchemaOf(q)].parts
    /\ schema[SchemaOf(q)].members = {q}

\* An organization that a signup for another schema has named.
Claimed(o, s) == \E p \in Begun : OrgId(p) = o /\ SchemaOf(p) # s

\* However signups, failures and deletions interleave, a schema has the users of
\* one organization only, and it is bound to this schema; an organization some
\* signup for another schema has named may have been rewritten under its users.
SchemasServeOneTenant ==
  \A s \in SchemaName : There(s) => \A i, j \in schema[s].members :
    /\ org[OrgId(i)] # NoOrg
    /\ \/ OrgId(i) = OrgId(j) /\ org[OrgId(i)].schema = s
       \/ Claimed(OrgId(i), s) \/ Claimed(OrgId(j), s)

\* A signup that could clean up leaves no organization behind, unless it or
\* another has named that id, and nothing in its schema but what a rival has
\* made; its user is left in public.users, where the email stays taken, only if
\* the tables of the schema had been created.
CleanupIsComplete ==
  \A q \in Signup : pc[q] = "failed" =>
    /\ org[OrgId(q)] # NoOrg => OrgId(q) # q \/ Namers(q) # {}
    /\ There(SchemaOf(q)) => q \notin schema[SchemaOf(q)].members /\ schema[SchemaOf(q)].profile # q /\ Rivals(q) # {}
    /\ user[UserId(q)] # NoUser => path[q] = "both" \/ Namers(q) # {}

\* signup.py:151 calls it a cleanup "if a partial tenant/schema was created":
\* a tenant that is complete keeps its organization and its schema until an
\* administrator deletes it.
CompleteTenantsAreKept ==
  Established \notin removed => org[Established] # NoOrg /\ There(Home.schema)
=============================================================================
