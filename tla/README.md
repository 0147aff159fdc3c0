# Verification of the bussus Django backend

`src/` is a multi-tenant CRM backend: Django views over PostgreSQL, one schema
per tenant, most of the SQL written by hand. This directory holds TLA+ modules
of its core, configurations that check them with TLC on small instances, and
theorems about them proved with TLAPS. Every definition that stands for code has
an entry in `PROJECT.json` (`map`) with the lines it stands for.

## 1. Inventory

The system runs as several gunicorn/daphne workers and a celery beat over one
PostgreSQL at READ COMMITTED, with Redis as a cache. There is no process-wide
lock; whatever coordinates requests is a row lock, a unique constraint or
nothing. Requests are in autocommit unless a handler opens
`transaction.atomic()`.

| Component | State it keeps | Operations | Interacts with | What is hard | What makes it correct |
|---|---|---|---|---|---|
| Record access (`api/permissions`, `api/BL/recycle_bin.py`, `deleteSQLFunction.py`) | rows with owner and `is_deleted`; object permissions, sharing levels, shares, reporting line | edit, transfer, delete, destroy, restore, purge | batches below; workflows after an edit and inside a deletion | the policy is read piece by piece before the transaction; rows are locked in request order; names are resolved twice | a row that passed its check stays authorised to the commit; one writer per row; decisions follow the sharing rules; every request ends |
| Batches (`createSQLFunction.py`, `updateSQLFunction.py`) | rows; `field_history_log`; audit log | edit with history, import, create with children | record access, workflows | savepoints and fallbacks inside one transaction; uniqueness of leads by query; swallowed errors in a transaction they have aborted | the report is true; the history has what was replaced; leads stay unique as far as the code can tell |
| Workflows (`api/workflows`, `api/ORM/setup/workflows`) | `workflow`, `workflow_node`, `workflow_edge` | save, delete, execute | records (create, update), mail, notifications | the graph is read node by node while it may be replaced; branches meet and turn back | no action twice, no mixture of savings, nothing left out, an end |
| One-time codes (`public/auth/otp_verification.py`, `utils.py`, `reset_password.py`) | `otp_verification_sessions`, a cooldown in the cache, signed proofs | start, verify, resend, cancel, consume, reset | mail, signup | overlapping calls, locks in autocommit, expiry, crash between consume and password | limits hold; a proof stands for the last code; a reset uses its session up |
| Provisioning (`public/auth/signup.py`, `public/utils/organisation.py`, `adminuser/services/organizations.py`) | `public.users`, `public.organizations`, schemas with their tables | signup with cleanup, delete | one-time codes, tenant isolation | a dozen statements each committed alone, three threads, a session-wide `search_path`, ids that the body may give, a cleanup by name | a tenant that was answered 201 stands; one organization per schema; cleanup leaves nothing it could remove |
| Sessions and tenants (`public/auth/session.py`, `CacheService`, `api/security/schema_authority.py`, `api/APIs/dispatcher.py`) | Redis entries `users_org`, the tenant pinned on the request | look up, fill, expire, resolve | accounts, every handler | the session may be an old one; user, organization and profile are read one after the other | who is served was entitled to it; a frozen user stops being served after a bounded time |
| Accounts (`api/BL/Users/CreateUsers.py`, `adminuser/services`) | `public.users`, `users` of each tenant, `organizations.is_active` | create, update, freeze, delete, by the tenant's administrator or the platform's operator | control panel, sessions | two rows and a service written one after the other | who can sign in is in the tenant |
| Schema of a connection (`tenant_context.py`, `tenant_schema_middleware.py`) | `search_path` | set, restore, reset | every handler | order of middleware and dispatcher; `SET` against `SET LOCAL` | a statement of a request runs in its tenant's schema |
| Login (`public/auth/login.py`) | tokens, login history | login, refresh, logout | sessions | nothing revokes a token | the history has the logins |
| Reading (list views, filters, reports, record pages; `api/BL/blcontroller.py`, `api/BL/Listviews`, `api/BL/Reports`, `utils/filter_logic_*`) | saved views, pins, report folders | list, run, preview, pin, move, share | all other handlers | a report is a dozen statements in autocommit with four caps; logic, search and access are put together as a tree; parts of a page fail by themselves, some of them unsaid | nobody sees a row out of reach; a view shows what its logic says; what is left out is told; numbers beside each other agree |
| Formulas, roll-ups, computed fields (`api/BL/computed_fields.py`, `api/formulas`) | caches of field names per process | evaluate, filter | reports, exports | a filter has four ways into SQL while the value is computed in Python; formulas rest on one another; caches are never emptied | the rows shown are those whose shown value passes; every chain is resolved |
| Object manager (`api/ORM/setup`) | objects, fields, tables, profiles' permissions, layouts, apps | create, rename, delete | every record table | DDL and metadata in one transaction or in several; layouts are read and written whole | table and metadata agree; every profile has its permissions |
| User groups (`api/BL/task.py`, `utils/usergroup_utils.py`) | a row per group, child tables of members | patch, expand | workflows, telephony | overlapping patches compare and replace; groups contain one another | an undisturbed patch stands whole; those told are the members |
| Email and campaigns (`api/emailsend`) | credentials, template ids, records of mails, `campaign` | send one by one or in bulk, sweep | workflows, Gmail, Outlook, SendGrid | the provider is found out by DNS and may be one nobody handles; a mail goes before it is recorded; credentials expire midway; two calls share a template | a stored campaign's number is that of mails sent, each of them posted as a record; a sweep ends |
| Facebook leads (`facebook/leadwebhook.py`) | raw events, leads | webhook | batches | redelivery, a lead that cannot be fetched | event and lead are stored together |
| WhatsApp (`whatsapp`, `api/BL/whatsapp`) | message rows with a status | send, receive, report | websockets | reports before the row, in any order, at two workers | a client is told what is stored |
| Telephony (`api/telephony`) | call rows, accounts and numbers, a pointer per process | provider's events, routing, setup | websockets, user groups | events late, twice and out of order; the pointer is read, then written; setup without a transaction | rows of a call agree; round robin; one account and number per use |
| Salesforce (`sf_integration`, `sync_salesforce.py`) | a table per object, ids, `is_sync_due` | push by a listener, pull by a task | application tables | crash between POST and storing the id; pull beside edits; external ids are unique in the table | a pull leaves what Salesforce has, but for what it passes over |
| Notifications, websockets (`api/notifications`, `api/consumer.py`) | notification rows, groups of the channel layer | store, tell, mark | workflows | totals are asked for after the message and may come late, or fail | no notification is overlooked for good without an error |
| Data export (`data_export/views.py`) | audit trail, temporary files | export objects, reports, pivots | reading | objects fail one by one; subtotals are flushed at a change of key | the audit trail accounts for every object; subtotals add up |
| Import files, PDF, page builder, health, scripts and SQL data | none or generated | | | | |

## 2. Modules

| Module | Stands for | Made of |
|---|---|---|
| `RecordAccess` | patch, transfer, restore, delete, destroy, purge | one action per stage of a handler: `Submit`, `ReadPolicy`, `ReadShares`, `ReadScope`, the locking loop (`SkipChild`, `ResolveName`, `LockAndCheck`, `FinishChecks`), the writes (`ApplyHeld`, `ProbeForDelete`, `ApplyUnlocked`, `ApplyNamed`), `Commit`, and `Fail`, `DeadlockVictim`, `StatementTimeout`, `Crash`; the environment is `EditPolicy` and `Create` |
| `RecordBatch` | storing a batch | edits (`LockTarget`, `Fetch`, `RejectEdit`, `ApplyEdit`, `FlushHistory`), imports (`SortImport`, `FastInsert`, `SlowInsert`, `LogImport`), creates (`CreateNext`), `AnswerReport`, `AnswerError`, `WaitFails`, `Crash` |
| `Workflow` | `execute_workflows`, `traverse_node` | `Save`, `Remove`, `Trigger`, `ListWorkflows`, `PickWorkflow`, `Visit`, `FetchEdges`, `Follow`, `Return`, `NextRecord` |
| `OtpSession` | what a session promises, one operation at a time | abstract specification |
| `Otp` | the handlers with their locks, clock, mail and crashes | implements `OtpSession` (`KeepsPromise`) |
| `Provisioning` | signup, cleanup, deletion of a tenant | one action per statement that commits |
| `TenantSession` | the head of every request, and the accounts it depends on | `BeginRequest`, `LookUp`, `LoadUser`, `StoreEntry`, `ResolveUser`, `ResolveOrg`, `ResolveProfile`, `Respond`; the administrator's `BeginCreate` ... `DeletePublicRow`, `Abort`; the operator's `Service...`, `FreezeOrganization`, `UnfreezeOrganization`; `DropEntry` |
| `Reports` | running a saved report or a preview; filters on computed fields | the ways from a filter to SQL as operators; one action per statement: `ProbeParents`, `FetchDetails`, `FilterDetails`, `Summarize`, `Refetch`, `FillCells`, `CountRows`, `CountGroups`, `Answer`; `Write` is another user |
| `ComputedFields`, `ComputedNames`, `QueryJoins` | the order in which formulas are resolved; the caches of names; joins along lookups | rounds over the fields; what each process has read of them (`names`, `exists`); `ensure_joins` |
| `Exports`, `Pivot` | workbooks | one action per stage of an object's sheet; `ExportReport`, by its own queries or the fast path, and `FailReport`; one per cell of a pivot |
| `ReportFolders` | the sidebar of reports | `ReadMine`, `ReadShared`, `ReadLevel`, `ReadReports` beside moves, shares and deletions |
| `ListViews` | the logic of a list: parser, validator, access, SQL; saved views | operators over trees; a view is saved, patched and shown |
| `PinnedViews` | pins and dynamic views; relative dates | `Unpin`, `Pin`, `Show`; the calendar day by day |
| `PreviewPage` | the page of a record | `CheckAccess`, `ReadLayout`, `FetchPart`, `ReadPermissions`, `AdjustOffers`, `Build` with the computed values; `Change` is everybody else |
| `Groups`, `LeadConversion` | patches and expansion of groups; converting a lead | one action per statement that others can come between |
| `Fields`, `Objects` | fields of an object; objects, profiles, apps | one action per statement, locks of the table and of the layouts' rows |
| `Telephony`, `CallRouting`, `TelephonySetup` | call rows and screens; round robin; accounts and numbers | the provider's events in any order; `asking` a pointer and moving it; requests that check and store |
| `SalesforceSync` | listener and pull of one object | `PushInsert`, `StoreId`, `PushChange`, `Crash`, `Restart`; `Fetch`, `BulkCreate`, `BulkUpdate`, `DeleteOthers`, `CopyToApp` |
| `Mailing`, `MailTasks` | sending to a set of records; the periodic tasks | `Ask` for each kind of provider, `SignIn`, `SendOne`, `RecordOne`, `StoreCampaign`, the three steps of a SendGrid template; `RemindPage` |
| `Notifications`, `LeadCapture`, `WhatsApp` | notifications at several tabs; Facebook's deliveries; messages and their reports | one action per message or statement |
| `MCReading` | `ListViews`, `PinnedViews`, `ReportFolders`, `Pivot`, `QueryJoins`, `ComputedFields` by `INSTANCE`, with small values | see *Composites* |
| `MCDesk` | `PreviewPage`, `Groups`, `LeadConversion`, `Fields`, `ComputedNames`, `Objects`, `Reports`, `Exports`, likewise | see *Composites* |
| `MCServices` | `Telephony`, `CallRouting`, `TelephonySetup`, `SalesforceSync`, `Mailing`, `MailTasks`, `Notifications`, `LeadCapture`, `WhatsApp`, `Provisioning`, likewise | see *Composites* |
| `MCRecordAccess`, `MCRecordBatch`, `MCWorkflow`, `MCProvisioning`, `MCTenantSession` | the small instances | values of the constants |
| `RecordAccessProofs`, `RecordBatchProofs`, `OtpProofs`, `TenantSessionProofs`, `WorkflowProofs`, `ReadingProofs`, `ServicesProofs`, `DeskProofs` | theorems | the last three about the composites `MCReading`, `MCServices` and `MCDesk` |

Conventions. A worker is a `Request`, `Client` or `Signup` with a `pc`; an
action is what happens between two moments at which others can interfere (a
statement in autocommit, a lock wait, a commit). Changes of an open transaction
are kept apart (`dirty`, `work`) and reach the table when it commits. Operators
introduced by *Faulty* or *Mutant* are mutated forms of the definition that follows them;
no action uses them: they show that the properties depend on the code.

### Record access
`policy` is what administrators set; `snap` is what a request has read of it, in the
order of the code; `checked` are the rows it has locked and authorised, `dirty` those it
has changed. A table outside the registry (`isObject` false) is a setup table:
administrators only, and no row is locked before it is written. `Permitted` is the
per-record check of `patch_permission` and `delete_permission`, `MayAct` the sharing
rules it stands for. `ReadPolicy` and `ReadScope` each merge statements that follow one
another in autocommit; no property depends on it, since an edit of the policy during a
request exempts its decision. The counterexample `record_access_purge`: emptying the
recycle bin does not remove rows.

### Batches
A record has two fields, so that a batch can give one and leave the other
(`Keep`), and its `fate` says whether validation (`invalid`) or the database
(`refused`) would reject it: lookups, formats, picklists and constraints are
reduced to that verdict, the uniqueness of leads is modelled in full. `before`
is `current_rows_cache`, `pending` the history entries gathered in the loop.
`aborted` records that a statement has failed outside every savepoint:
`record_batch_logs` shows what follows from swallowing that.

### Workflows
A *version* is what one saving has stored: `update_workflow` replaces nodes and
edges and gives new ids, so that a node is known by version and place.
Recursion of `traverse_node` is the `stack`: a frame per node with the targets
it has still to follow; edges of a node are read once, each target when its
turn comes. Actions do their work, raise (`Abandoned`) or are deferred
(`Deferred`), in which case `execute_workflows` returns and the loop over
records goes on. Conditions are sets of snapshots that meet them; the record an
action runs on is the one handed in and never re-read, as in the code.

### One-time codes
`row` is the session's row, `mail` the codes sent, `proofs` the signed proofs given out
(they never go away but expire with `ProofAge`). `verify_otp` and `resend_otp` lock the
row and hold it to their commit, `ensure_verified_and_consume` locks in autocommit and
therefore holds nothing, so that one proof may serve two resets: `otp_once` shows two
changes of the password by one proof (`OneTimeUse`). `ResetUsesSessionUp` says what
remains true: whoever begins after a use is refused. The time a request compares with is
the one it took before it waited.

### Provisioning
`schema[s].parts` are the groups of tables and data made so far, `profile` whose profile
the schema has, `members` the users in it. `path` is the search path that the failed
step left, which decides what the cleanup's unqualified names mean. Three threads insert
metadata; an error in one reaches nobody (`EndThread`). `UserId`, `OrgId` and `RowId`
are the ids in force: made for the request unless the body gives `user_id`,
`organization_id` or `id`. `InsertOrg` then rewrites the organization with that id,
whoever's it is, and `Enrol` moves the user with the row's id into the schema. So the
properties name the requests that may do so: `Namers` of a signup's ids, and those by
which an organization is `Claimed` for another schema. `provisioning_kept` shows the
cleanup of a signup deleting a tenant that has nothing to do with it. Assumed: no
foreign key in force from `public.users.organization_id`, as every signup fills it
before the organization exists.

### Sessions, tenants and accounts
`pub` and `ten` are the two rows of an account, `cache` the Redis entry
`users_org`, of which what a request is judged by is kept: `is_active` and the
profile. A user's organization does not change (no handler writes it), so that
the organization and schema a session asserts are always those of the user; the
checks of `resolve_tenant` against them cannot fail and are left out, those
which can fail are `ResolveUser`, `ResolveOrg` and `ResolveProfile`. Each is a
statement in autocommit, so everything may change between them. `seen` is a
history variable: what has held at some moment of the request. The administrator
of a tenant calls the control panel, then writes the tenant's row, then the
public one; `Abort` ends that sequence anywhere. `create_user` always fails at
its third step (`MissPublicRow`): `self.get_validated_schema` is no attribute.
The operator of the platform writes both rows in one transaction, except that
freezing leaves the tenant's row as it is.

What the model shows beyond its properties: the two rows need not agree (two
updates interleave, or the tenant's is refused and only named in the report),
and `adminuser/views.py` never reaches its branch that freezes an organization,
which stands under the condition that the path has no second part and asks that
this part be `freeze`; the service it would call is modelled.

### Composites
The modules from `Reports` on, and `Provisioning`, share no state with one another: in
the program they meet only in tables that are other modules' environment (somebody
edits, deletes, shares). `MCReading`, `MCServices` and `MCDesk` put several of them
side by side: `service` says which one behaves, the variables of the others are
`Off`. A property of a composite is the conjunction of what its modules promise,
each of which is defined and explained in its own module, next to *Mutant*
operators for each conjunct. One mutant per property is listed in
`PROJECT.json`. Section 4 has theorems about each composite.

### Reports and computed fields
`pc` walks through the statements of `get_business_logic`; a saved report and a
preview go the same way with other limits (`REPORT_MAX_DETAIL_ROWS`, `PREVIEW_LIMIT` ...).
`details`, `scope`, `found` and `cells` are sets of rows, so that "the number of"
and "the sum over" are compared by what they range over. A group has a `key`, by
which the first page of parents is chosen, and a `label`, by which the summary
groups. The first part of the module says what a formula or roll-up is worth
(`Null` for none) and by which of four ways a filter on it
reaches SQL: the inlined formula, the stored column, an aggregation, or not at
all. `ComputedFields` does the rounds of `process_computed_fields_for_report`;
of the functions of formulas it has only how they treat None, numbers and texts.
`ComputedNames` has what each process believes about fields, `QueryJoins` the
lookups and the guesses where there is none. Writers come between any two
statements.

### Exports
`present`, `todo`, `skipped` and `sheets` follow the loop over the selected objects,
`audit` the entries gathered and `trail` those stored; `file` is the temporary file,
gone when the response is closed. `Pivot` takes the cells in an order that SQL is free
to choose and flushes subtotals where the key changes. A report has a set of filters and
the sets of them that satisfy its `logic`; the export reads the logic and uses it
nowhere, all filters must hold. Filters left to Python are tested on the rows read:
where these carry the value (`carried`) by it, elsewhere (`foreign`, as in a summary)
with a result the model leaves open.

### Lists, pins, periods, pages
Logic is a sequence of tokens; what the parser accepts becomes a tree, to which access
and search are added and from which computed fields are taken out. The parts that a tree
joins are a set: in SQL neither their order nor repetition tells. What the code does
along a tree is a function of how deep one looks, up to `Depth`, which is more than any
logic, with what is added to it, can nest. `ListViews!ViewsShowTheirMeaning` compares
with the meaning of the well-formed logic (`Meaning`, which no action uses). A filter
without a column, that is on a formula or roll-up, makes the view raise (`Untyped`), and
the property says that just these fail. What is left to Python are columns that have the
name of another object's formula: the property speaks of them where the reader asks to
see them and the logic does not put them under OR or NOT (`Plain`). `PinnedViews` has
the statements of a pin, and views stored with the periods of their day; it reckons in
ordinals of the calendar, including leap years. `PreviewPage` has the parts whose
failure the message names, those without which the page cannot be built, and the
roll-ups and formulas (`Computed`), whose failure is only printed: a page may lack
these, and no others, without a word (`Untold`).

### Groups, leads, fields, objects
`Groups` keeps each child table as a set of links and the lock of the group's
row, which only a patch that names the group takes. `LeadConversion` stores
account, contact and opportunity one by one. `Fields` has the locks of the table
(DDL) and of the two layouts' rows, and history variables for what a change that
stopped half-way, a rename or two overlapping requests leave behind: two requests
cross if they have a name or a row in common, and a rename from a name that is
crossed or torn tears the new one, as its row may be another's. `Objects` likewise
for objects, profiles and apps.

### Telephony, Salesforce, mail, messages
A call's rows are a sequence (`rows`), the provider delivers events of a call whenever
it likes. A worker's pointer is read with the members and moved later. `SalesforceSync`
keeps the synchronised table, the application's, Salesforce's own records and the queue
of LISTEN; the listener's step between POST and UPDATE can crash. `External` are the
values whose external id is set: the pull skips a record whose id another row has
(`ignore_conflicts`), and deletes rows without an `Id` afterwards. `PassedOver` says for
which records that may be so, among them one that was posted and whose id was not
stored. `Mailing` has the credentials (`good`, `revoked`), the hash under which a
content is found (`stamp`), which contents may share as subject and body are joined
without a separator (`Hash`), and what SendGrid hosts. An unknown provider sends nothing
and stores its campaign with 0; a call by Outlook never stores one, as `data` is the
helper's answer by then. A record that `post_permission` answers with an error counts as
posted (`refused`). `Notifications` has an inbox per tab, and the tabs that were sent an
error instead of a total (`erred`); `WhatsApp` rows per message with the status last
stored, without reports for a message whose row is never inserted.

## 3. Runs

| Run | Question | Bounds | Result |
|---|---|---|---|
| `record_access` | do checks stay true, do decisions follow the policy, do requests end? | 2 users, 2 rows of one name, 2 requests out of 6 jobs, 3 starting policies, 1 policy edit; about 167,000 states | holds |
| `record_access_purge` | "permanently deleted" | one row in the bin | violated |
| `record_batch` | report, history, duplicates | 2 requests, 11 batches of up to 3 records, 2 values per field; about 24,000 states | holds |
| `record_batch_logs` | "Don't block the main result" | the same | violated |
| `workflow` | execution of graphs under change | 1 request, 2 workflows, 3 graphs of 4 places, 3 savings, 2 records, depth 2; about 320,000 states | holds |
| `otp` | limits, proofs, resets, refinement | 1 session, 2 clients, 2 attempts, 2 sends, clock to 4; about 1,690,000 states | holds |
| `otp_once` | "consume (one-time use)" | the same | violated |
| `provisioning_kept` | cleanup of a *partial* tenant | 2 signups, 4 things to ask for, 2 schemas, 1 tenant already there | violated |
| `tenant_session` | who is served | 1 user, 1 organization, 2 workers, a profile of the tenant and a foreign one, 3 updates, 2 creates; about 468,000 states | holds |
| `reading` | what do list views, pins, periods and folders show; does a pivot, a joined or computed field mean what was asked? | list views of 6 rows, 6 filter lists, 3 searches, a formula and a column with the name of one, every logic of up to 3 of 5 tokens and 11 longer ones, 3 readers; 3 pins of 2 owners in 2 days; every day of three years; 3 folders that may form a circle, 2 changes; pivots of up to 4 cells in every order; 4 join paths, 1 change; 5 systems of 4 formulas, 2 rounds; about 814,000 states | holds |
| `services` | what do late, repeated, reordered events and half-done calls leave; which tenants stand, and what does a cleanup leave? | 2 calls, 2 agents, 2 rows; 3 agents, 3 picks; 3 setup requests for 2 accounts; 3 local and 2 remote ids, a value with an external id, 2 edits, with a foreign key or without; 2 mail calls to 2 records, 3 contents of which two have one hash, 4 kinds of provider; 5 users in pages of 2; 2 notifications, 2 tabs, 2 messages on the way; 2 leads, 2 copies; 1 message, 2 workers; 2 signups, 3 things to ask for, one of them with the ids of the tenant already there, 2 schemas; about 1,919,000 states | holds |
| `desk` | do overlapping users and administrators leave whole pages, groups, fields, objects; is what a report or export shows complete, or said to be cut? | 1 error and change of a page; 2 groups, 2 users, 2 patches; 3 conversions; 2 names, 2 fields, 2 processes that cache them; 2 objects, profiles, ids; reports: 5 rows in three tables, 3 parents, every cap between 1 and 4, some 470 requests with 13 kinds of filter, 1 write; exports of 3 objects and of every kind of report with 2 filters and their logic; about 1,528,000 states | holds |

The type invariants of the modules of the composites are conjuncts of their
properties. Those of `RecordAccess`, `Otp`, `Workflow` and `TenantSession` are proved (section 4) and not run.

Why the bounds are enough to meet the hard cases: each hazard listed in
`PROJECT.json` is between two actors or two steps of one, and every module has
two actors, or an actor and an environment that can act at each step. Two rows
locked in opposite orders give the deadlock; two records of one batch the
duplicate within it; three savings of two workflows let one be replaced twice
during a run, or deleted and its place taken. A depth of 2 is exceeded by the
graph with a way back, so that `RecursionError` is reached; the code's 200 is
not needed for that. One edit of the policy suffices to outdate a snapshot at
any point. Two attempts and sends let a limit be reached and passed by a race.
The clock passes the lifetime of a code and of a proof, and the cooldown.

In the composites: each cap of a report is smaller than what there is, and the
five rows have a group of two, one of another user, one that misses the
criteria and one that is deleted and has no parent; a table without that row, or
without one of the group, lets every filter meet a sum of nothing. Three agents and three
picks go once around the group and past a change of it; 5 users in pages of 2
make a last page that is not full and users that sign up behind the sweep.
Two local ids are enough for a push to meet a pull in the same table, the third
for a row that Salesforce never had. Three pins in two days let a pin overlap
another and grow old. Three years, in a calendar of five for the periods that reach
out of them, hold a leap year and its turns. One of the three folders, at a root of another
owner, is shared or not; the other two stand one in the other, and a move makes the circle.
Two fields with one name in turn show a rename, and a deletion, beside a
creation. All sequences of three tokens are more than what the validator
accepts, so that what it rejects is checked as well.

`CHECK_DEADLOCK FALSE` is set but for `tenant_session`: the instances have
finitely many requests, edits or events, after which nothing needs to
happen. In `TenantSession` requests come again and again, and deadlock is
checked. One user is enough there: nothing a request reads belongs to another
user but the organization's flag, which the operator may turn at any time.

Symmetry is used between requests or signups, in runs whose properties are
invariants only.

### Fairness
`RecordAccess`: a worker goes on with its request (weak fairness of its steps);
a statement that waits gets the lock or is ended by PostgreSQL's deadlock
detector; nothing else is promised (a statement timeout or a crash may happen,
never must). `Workflow`: a worker goes on (`WF` of `Execute`). `TenantSession`:
a worker goes on with what it has begun, and an entry of the cache comes to the
end of its 6000 s; nobody has to begin anything. `MailTasks`: the celery
task goes on with the page it is at (`WF` of `RemindPage`), while nothing is
said of users who sign up, verify or do not. None assumes that an
administrator acts. `RecordBatch`, `Otp` and the other modules of the composites have no fairness: they are checked for safety.

## 4. Theorems

All are for every value of the constants that meets the assumptions, which say only what
the constants range over (`PopulationAssumption`, `BatchAssumption`, `LimitsAssumption`,
`TenantSessionAssumption`, `WorkflowAssumption`, and `ReadingAssumption`,
`ServicesAssumption` and `DeskAssumption`, which are those of their modules); TLC
evaluates them in the runs. `BatchAssumption` adds that new records come whole and with
ids of their own: the code generates them. `ReportAssumption` adds the one fact about
limits that the code's constants have: a preview shows fewer rows (20) than a report may
read (5000). `PinsAssumption` and `FolderAssumption` say that owners, names of views and
folders are finitely many, and that the calendar has a year before and after the days
considered. `ListViewsAssumption` says that `Depth` is more than any logic has tokens,
that no formula has the name of a standard column, which `create_field.py` refuses, and
that what a search asks of has a column. `ExportAssumption` adds that a grouped export's
rows carry no value that a filter left to Python tests; `MailingAssumption` that every
content has a hash.

* **RecordAccess**: `TypeCorrect`, `NoChangeUnderCheck`, `RowsHaveOneWriter`,
  `ChecksFollowPolicy`. `CheckedRowsStayAuthorized` is not inductive: it needs
  that a row in `checked` or `dirty` is locked by its request and that only
  requests past the reading stages hold anything (`LockInv`), and that what was
  read of the policy is what the policy still says unless it was edited since
  (`FreshInv`). The steps are sorted into few kinds (`ApplyKinds`, `CheckKinds`,
  `ReadKinds`: nothing, a row taken and checked, a row taken and written, a
  stage passed, an end), and each part of the invariant is kept by each kind.
* **RecordBatch**: `TypeCorrect`, `ReportsAreTrue`, `HistoryIsTrue`,
  `TwinsNeedOverlap`, for batches of any length. What the report of a request
  says is compared with the table only when it is answered, so the invariant says
  it of every moment before: which records have been tried (`Accounted`), what the
  open transaction shows where it has stored something, and that it shows the
  table elsewhere (`SoFar`). This survives the commits of others because a row
  changed by one is locked by it or was made by it (`Worked`), and of two requests
  that meet, one that makes records shares no row with the other (`Apart`): hence
  `Untouched`, what one has changed no other has, nor reported. An edit of an
  object's records holds all of them with the values it read first (`Held`), which
  gives the history. `NoNewTwins` is the uniqueness of leads in the view of a
  request that is alone. A step of a request keeps the invariant for the others
  if it is an `OwnStep`, so each action is proved for its own request only.
* **Otp**: `TypeCorrect`, `LimitsAlwaysHold`, `ProofsAreSound`,
  `ResetsUseSessionsUp`, `ImplementsSession`. The invariant adds that a
  transaction that has read a row and not decided holds its lock and what it
  read is still there (`HoldsWhatItRead`). Each write is then one operation of
  `OtpSession` (`Writes`), which gives the refinement step by step. That a reset
  uses its session up needs an invariant of its own (`ResetInv`): how often a
  session is used up is at least how often passwords were changed by it, whoever
  is granted a session but has not changed the password yet counted in. Those
  are counted as the cardinality of a set of clients, which a step changes by one
  client (`FiniteSetTheorems`).
* **Workflow**: `TypeCorrect`, `NoActionIsDoneTwice`, `RunsKeepToOneDesign`,
  `UndisturbedRunsComplete`.
  What has been visited and acted on says nothing of what comes next, so the
  invariant adds the rest of the path: each target left in a frame is at the end
  of an edge that the record may take from a visited node (`AlongEdges`), what is
  visited next is of the saving of what was visited (`OneSaving`), and an action
  is done when its node is added to the visited ones (`ActedOnce`). Savings only
  append versions, so what a run has read stays true of its version
  (`SaveKeeps`). Nothing is left out because each edge that is due from a visited
  node leads to a visited node, to a target in one of the frames, or to the node
  visited next.
* **TenantSession**: `TypeCorrect`, `Entitled`, `FrozenOnlyFromCache`,
  `TenantRowOfSignInUser`. What a handler may rely on is granted stage by stage,
  and the rows it was read from may be gone by then. The invariant says that
  the history includes what holds now (`Watched`) and that a request past a
  stage has seen what the stage asks for (`Granted`).
* **Services** (`MCServices`, any calls, agents, tabs, tasks, records, ids):
  `CallsTheorem`, `PullTheorem`, `MailTheorem`, `MessagesTheorem`. Of a call, type and
  agreement of its rows suffice. Round robin needs `Turns`: at most one request of a
  worker has read the pointer and not moved it, and the picks remembered are those of
  the turns before the one it read. Setup needs `Sequential`, what a request that no
  other overlaps has found out is still so. A pull needs `PullRead` (what was read of
  Salesforce and of the table while nobody touched it) and `Mirrored` (which rows are
  right after each of its statements, insertions first; a record without a row must have
  met its external id in a row held then, or in another record). Mail needs `Progress`
  (how far a call's mails, responses and records have come, by provider), `Names`,
  `Apart` (two calls never write the version of one template) and `StampsHost`.
  Notifications need `Reminded`: a tab that has not been told of a row has a message
  waiting on which it asks for the total, or was sent an error. A WhatsApp worker that
  is about to tell has stored what it tells.
* **Provisioning** (also `MCServices`; any signups, schemas, names): `TenantsAlways`,
  `OneTenantPerSchema`, `CreatedTenantsAreWhole`, `CleanupsAreComplete`. A body may name
  any id that exists. The invariant: no two organizations have the same schema; a signup
  that is past its organization finds it, if it is there, bound to the schema asked for,
  or some request that names it has begun for another schema (`BoundTo`); an id that was
  made for a signup and that nobody names is bound to that signup's schema; and a member
  of a schema has an organization that is there and `BoundTo` it. The last part is what
  the cascades of the deletes keep. `CreatedTenantsAreWhole` and `CleanupsAreComplete`
  rest on `Reached`, which says for each `pc` what a signup without a rival for its
  schema and without `Namers` of its ids has built by then, and what a cleanup has
  removed by then; another signup's step touches neither (`ReachedByOthers`,
  `ReachedByDelete`), since it works under other ids, or in another schema; and nobody
  is given the user id of the tenant that was there before (`HomeApart`).
* **Reading** (`MCReading`; any owners, names, folders, years, filters): `SidebarTheorem`.
  Its operators are recursive functions, about which tlapm knows nothing
  but their equation, and not even that until a function is shown to satisfy it. So the
  module begins with induction in the form the provers can use: a set of numbers
  that has 0 and each next number has all (`ByInduction`, from the least element
  that a well-founded order gives); a set that is made larger step by step
  exists, stops growing after as many steps as it may have elements, and stays within
  every set that is closed (`StepsExist`, `StepsStop`, `StepsWithin`).
  * Folders: the tree, what is in reach, and the folders above a folder are the least
    closed sets (`TreeIs`, `ReachableIs`, `AncestorsAre`). A request that nothing
    disturbed has found, level by level, what is above the level it reads next
    (`FoundSoFar`); no folder is listed twice in any case, as a level takes only what is not
    listed (`ListingOK`). An own folder that is missing from the tree has folders
    above it without end, hence a circle (`CircleAbove`).
  * Pins: a request that no other of its owner overlaps is the only one, and the owner
    has no pinned view between its `Unpin` and its last statement (`PinnedAlone`), which pins one
    (`OnePinned`), since ids, owners and names tell views apart and a new view has a new
    id (`ViewsOK`).
  * Periods: each day is in exactly one month and each month in one year, years and
    months adjoin and grow (`YearsAdjoin`, `MonthsAdjoin`, `EveryDay`, `NextMonths`), hence
    weeks, months, quarters, years adjoin around every day of any years
    (`PeriodsHold`), and each list of created rows is its period up to the day
    (`ListsHeld`). Of this TLC sees three years.
  * List views: the proof asks nothing of the parser, whose tree may be any. The
    condition on deletion is at the root of what is evaluated or joined there by
    "and" (`Demands`), and next to it is a choice between the reader's own rows and
    the shared ones (`Offers`): so it is when they are added (`Appended`), when conditions on the
    owner are dropped (`Stripped`), when computed fields are taken out and a tree with one part becomes
    that part (`DemandKept`, `OfferKept`, `GuardKept`), and a row for which such a tree
    is true meets both (`GuardMet`). What the functions along a tree return follows, as for
    folders, from sequences of levels that satisfy their equations (`SubtreesAre`,
    `WorthIs`, `PhysicalIs`).
* **Desk** (`MCDesk`, any users, groups, names, objects, rows, limits, requests):
  * `ObjectsTheorem`: `IdsApart`, `NamesCrossed`, `MissedNoted`, `GrantsNoted`: a
    name, a table or a pair of profile and object that is not as it should be is
    one that the histories name already, or that an open transaction will note
    when it commits.
  * `FieldsTheorem`: two rows share a name, or a row and a column part, only where
    two requests crossed (`NamesApart`, `ColumnsMatch`); a rename that has committed
    and not patched its row has its old name in hand (`Renaming`); a layout that
    was read and not written back names what may stand in it (`LayoutCopies`,
    `LayoutsStand`). For the caches: a process of which no field has changed since it
    first read believes what is so (`CachesAreTrue`).
  * `GroupsAndLeadsTheorem`: a patch that is not disturbed holds the lock of its row,
    has compared each table with what is in it, and no other patch writes there
    (`LocksHeld`, `Compared`); an expansion that is steady has told, or has still to
    follow, the members of every group found (`ToldInv`). Of a lead, rows are made in
    turn and each names those before (`MadeInTurn`, `LeadWhole`).
  * `PageTheorem`: what is offered follows the shares from the moment they were read,
    unless they changed (`PageFine`); a part that was to be fetched by a stage is there
    or in the message after it.
  * `ExportsTheorem`: `WorkInv`: the objects are those still to do, the one at hand and
    those accounted for, each once. Of a report, the rows shown pass all its filters, or
    there were none, and a logic that holds for all holds for what they pass.
  * `LeftOutTheorem`, `FilterTheorem`, `CellsTheorem`, `TotalTheorem`: `ReportInv` is
    what holds while others write (`ReportPhases`, `WholePage`, `StillRead`), from
    which the first two follow; `RowsInv` says, while nobody writes, which rows each
    statement must have read (`ParentsAre`, `DetailsAre`, `AllRead`, `AllFound`,
    `GroupsAreRows`, `LabelsAre`), for each way through the statements; `TotalInv`
    carries it to the two counts. That a filter converted to SQL, in each of its
    ways, picks the rows whose shown value passes is a lemma about the operators
    (`FilterFacts`, `Agrees`), with minima, sums and counts over any rows.

The proofs of this second part corrected properties which TLC had not refuted. A full
summary that is limited, and filtered in Python, counts its own groups only, so
that its count is short as a total (`TotalIsNotShort` excludes it; and a preview may
be cut by the cap per parent alone, `ManyOfOneParent`); "is null" on a sum holds in
SQL where the report shows 0 (`FilterMatchesShownValue` excludes it). The
instance had no such table or filter; it now has both. For `Fields` they showed
that requests cross at a common row, not only at a common name, and that a
rename passes on what is wrong with the old name. `CallRouting` lists its users in
the order of their ids, which the round robin rests on.

Only model-checked: `EveryRequestEnds`, `EveryRequestIsAnswered`,
`FrozenEventuallyRefused` and `SweepEnds`, which are liveness, and `ListsHold` and
`ComputedHolds`. Of `ListViews`, `ListsHold` is `ViewsShowTheirMeaning` alone. These compare algorithms with reference definitions of
another shape: a parser of logics with the meaning of a logic split at its weakest
operator, rounds over formulas with chains worked out from below, subtotals flushed
cell by cell with sums over groups, joins with paths of lookups. Each needs an
induction over trees or rounds of its own that has not been attempted; that of the joins holds for
lookups whose guesses do not mislead, as in the instance, and not for any.

## 5. Findings

Four promises of comments are not kept by the code (`findings` in `PROJECT.json`, each
with its run): the recycle bin is not emptied; a swallowed log failure loses the batch
it reports; the cleanup of a signup deletes the tenant whose schema name it asked for;
one proof may change the password twice.

Reading and modelling showed more that no run singles out. Some of it stands in
the models as what the code does, and the properties say what remains true
beside it:

* An edit by name resolves the name again at the write (`permissions.py:1193`); the ORM
  path hands decoded node data to `json.loads` and passes every workflow over
  (`workflow_executor.py:218`).
* An exception in one record's workflows ends the loop over the others
  (`permissions.py:1262`), and a failed statement in those of a deletion aborts
  its transaction (`:1338`); a history entry is pending though its savepoint was
  rolled back (`updateSQLFunction.py:612`); a record listed twice in a batch is
  judged by its first row (`:545`).
* `signup.py:44` says "Server-generated IDs (never trust client IDs)"; the next two
  lines take both ids from the body if it has them, and `:101` spreads the body over the
  generated one. With `ON CONFLICT (id) DO UPDATE` (`organisation.py:269`) a signup that
  names an organization renames it and binds it to its own schema, while that
  organization's users stay in theirs.
* A worker that dies in a signup leaves a half-made tenant (`signup.py:100`);
  errors of the metadata threads are lost (`organisation.py:146`), and the retry
  after a deadlock catches psycopg2's class where Django raises its own (`:250`).
  `create_user` calls a method that does not exist (`CreateUsers.py:507`).
* A field under NOT is not among those for which joins are made
  (`flatten_conditions`, `query_builder_helpers.py:415`); caches of computed
  fields and lookups are never emptied (`computed_fields.py:703`,
  `relationships.py:96`); the list "last month" compares moments with the midnight
  that begins the month's last day (`GetListview.py:467`).
* A list view that filters on a formula or roll-up raises, as such a field has no type
  (`api/BL/utils.py:86`); a column that has the name of another object's formula is
  filtered in Python, where a record that does not show it has no value.
* An export of a report reads `filter_logic` (`data_export/views.py:1232`) and hands it
  to no query, so that all filters are joined by AND; with a NOT, rows are exported that
  fail the logic, though `:1606` asks that the conditions "MUST be honoured", and with
  an OR rows are missing. A report without filters is exported from the whole table
  (`:1609`), without asking for permissions.
* What fails of the roll-ups and formulas of a record page is only printed
  (`blcontroller.py:1742`, `:1776`): the message does not name it.
* The comment on the full summary promises a complete list of groups without a cap
  (`blcontroller.py:1113`), but the URL's limit was set on it before (`:608`), so that
  `group_count` and the totals are of the limited one.
* The pinned view is looked up without asking whose it is, or whether it is
  deleted (`GetListview.py:164`); shares of folders are read without asking
  whether they are deleted (`get_reports.py:21`).
* A patch of a group that does not name it does not lock it, and its child tables
  are passed over (`usergroup_utils.py:154`); the result of marking a converted
  lead is ignored (`blcontroller.py:2769`); a telephony account that was stored
  before one of its numbers was refused stays in the way of the next attempt
  (`:3408`); the record of a call that comes with a log's id ends in a name that is
  not bound, `object_id` (`telephony/views.py:795`).
* Renaming a field commits before its row is patched (`blcontroller.py:4549`);
  `delete_field.py:11` speaks of list views, which are not touched; a profile and
  an object made at a time miss their grants (`newprofile.py:30`).
* For a sender at Yahoo, iCloud, Zoho or AOL, or if the DNS query fails,
  `send_test_email` sends nothing and stores the campaign (`emailsend/views.py:152`);
  after mails by Outlook, `:84` has bound `data` anew and `:147` raises; the error
  answer of a record's post is not looked at (`:144`).
* A record that was posted to Salesforce and whose id was not stored is passed over by
  the next pull, as its own row has its external id (`salesforce_client.py:481`), and
  that row is deleted for having no Id (`:491`): until the pull after that no row has
  it.
* The task for due campaigns calls `send_test_email` with a third positional
  argument, which it does not take (`emailsend/tasks.py:84`); the Salesforce task
  raises in its own push, where the schema's name is not quoted
  (`sf_integration/tasks.py:40`), and so never notes the time (`:33`); a lead that
  Facebook delivers again is inserted again, though its raw event is not
  (`leadwebhook.py:222`).

## 6. Not modelled, and the plan

Not modelled, with the reason:

* The schema of a connection (`search_path`): each handler sets it before its
  queries. That every statement of 250 files follows a SET is a question for a
  program analysis, not for a state machine; `Provisioning` has the one path
  whose effect outlives the request.
* Logins, throttles and tokens add rows or counters that nothing modelled reads.
  Sessions and accounts are in `TenantSession` as far as they decide who is
  served.
* The ORM twins of the raw SQL paths (`api/BL/ORMBL`, dynamic models): chosen by
  a flag; `Workflow` has both where they differ.
* Dashboards' widgets and the global search: queries without state, over the
  same builder as lists and reports.
* Inbox synchronisation, chat rooms, picklists, record types, validation rules,
  page builder, PDF, health, seed data and scripts: plain rows or pure output.
* Within modelled parts: lookups, number formats and picklists (part of a
  record's `fate`), most functions of formulas, contents of mails and messages,
  the effect of a workflow's action on other records.

What could follow, in this order:

1. `ViewsShowTheirMeaning` of `ListViews` for any logic: that the tree which the parser
   returns is true where the logic, split at its weakest operator, is.
2. An abstract specification of a report (the rows a reader may see, with a flag)
   that `Reports` implements, in place of four properties beside each other.
3. The composition of `Workflow` with the deletion of `RecordAccess`, whose
   transaction the workflows of a deletion share.
4. Dashboards and the global search on top of the filter logic of `ListViews`.
