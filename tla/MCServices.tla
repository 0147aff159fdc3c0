------------------------------ MODULE MCServices ------------------------------
(***************************************************************************)
(* The services around the records, each by itself: calls, the routing of  *)
(* calls, the setup of telephony, Salesforce, mail, the tasks of mail,     *)
(* notifications, leads from Facebook, WhatsApp, and the signup and         *)
(* deletion of tenants.                                                    *)
(* They share no state; a behaviour is one of one of them.                 *)
(***************************************************************************)
EXTENDS Integers, Sequences, FiniteSets, TLC

CONSTANTS
  Off, None, Nobody, NoTarget, Call, CallAgent, Target, Agent, Worker, Request,
  Payload, Template, Delivery, a1, a2, t1, t2, l1, l2, MaxRows, Account, Object, Group,
  MaxRequests, MaxAlone, LocalId, SfId, Value, External, Parent, ParentSfId, MaxNotes, MaxEdits, MailCall,
  Record, Unaddressed, Content, Hash, Sid, MaxCreds, Campaign, Ready, MaxUsers, BATCH_SIZE, Note, Tab,
  Notifier, Page, MaxInbox, Lead, Message, MaxCopies,
  schema1, schema2, org1, org2, org3, email1, email2, email3,
  Signup, Established, SchemaName, OrgName, Email, Wanted, Home,
  NoOrg, NoSchema, NoUser

VARIABLES
  service,           \* services: what behaves
  callsRows, online, callsScreen, rung,
  members, pointer, asking, picks,
  configs, numbers, request, begun, overlapped,
  table, parents, app, sf, issued, notes, listener, pull, salesforceDue, push, edits,
  call, good, revoked, stamp, hosted,
  tasksStatus, tasksDue, batch, unverified, sweep,
  notifyStatus, notifier, inbox, joined, counted, erred, owed,
  configured, raw, copies,
  chatRows, sending, chatStatus, worker, chatScreen, taken, early,
  user, org, schema, pc, ask, threads, path, removed

callsVars == <<callsRows, online, callsScreen, rung>>
routingVars == <<members, pointer, asking, picks>>
setupVars == <<configs, numbers, request, begun, overlapped>>
salesforceVars == <<table, parents, app, sf, issued, notes, listener, pull, salesforceDue,
    push, edits>>
mailVars == <<call, good, revoked, stamp, hosted>>
tasksVars == <<tasksStatus, tasksDue, batch, unverified, sweep>>
notifyVars == <<notifyStatus, notifier, inbox, joined, counted, erred, owed>>
leadsVars == <<configured, raw, copies>>
chatVars == <<chatRows, sending, chatStatus, worker, chatScreen, taken, early>>
tenantVars == <<user, org, schema, pc, ask, threads, path, removed>>
vars == <<service, callsVars, routingVars, setupVars, salesforceVars, mailVars, tasksVars, notifyVars,
    leadsVars, chatVars, tenantVars>>

\* Small instances of the constants that are functions, sequences or sets of records.

TargetOf == (a1 :> t1) @@ (a2 :> t2)

\* Accounts for one object and one for either, with groups that clash or are missing.
SetupPayloads ==
  {[account |-> "a", object |-> "leads", groups |-> <<"g1">>],
   [account |-> "b", object |-> "leads", groups |-> <<"g2", "g1", "g1">>],
   [account |-> "b", object |-> "accounts", groups |-> <<"g1", None>>]}

TwoTemplates == <<"t1", "t2">>

\* The hashes of three contents, of which two are one text with subject and body joined.
HashOf == <<1, 2, 2>>

Deliveries == {<<l1>>, <<l2>>, <<l1, l2>>}

\* Two signups, that may ask for the email, name and schema of another, for the schema of the
\* established tenant, or name its organization and its user.
Want(e, n, s) == [email |-> e, name |-> n, schema |-> s, user_id |-> Nobody, organization_id |-> Nobody, id |-> Nobody]
HomeAsk == [email |-> email1, name |-> org1, schema |-> schema1]
TenantAsks ==
  {Want(email2, org2, schema2), Want(email3, org2, schema1),
   [Want(email3, org3, schema2) EXCEPT !.organization_id = Established, !.id = Established]}

Calls == INSTANCE Telephony WITH Agent <- CallAgent, rows <- callsRows, screen <- callsScreen
Routing == INSTANCE CallRouting
Setup == INSTANCE TelephonySetup
Salesforce == INSTANCE SalesforceSync WITH Null <- None, due <- salesforceDue
Mail == INSTANCE Mailing WITH Call <- MailCall
Tasks == INSTANCE MailTasks WITH status <- tasksStatus, due <- tasksDue
Notify == INSTANCE Notifications WITH status <- notifyStatus
Leads == INSTANCE LeadCapture
Chat == INSTANCE WhatsApp WITH rows <- chatRows, status <- chatStatus, screen <- chatScreen
Tenants == INSTANCE Provisioning WITH Ask <- Wanted

ASSUME ServicesAssumption ==
  /\ Calls!TelephonyAssumption
  /\ Routing!RoutingAssumption
  /\ Setup!SetupAssumption
  /\ Salesforce!SyncAssumption
  /\ Mail!MailingAssumption
  /\ Tasks!TasksAssumption
  /\ Notify!NotificationsAssumption
  /\ Leads!LeadCaptureAssumption
  /\ Chat!WhatsAppAssumption
  /\ Tenants!ProvisioningAssumption

----------------------------------------------------------------------------
\* Of the services one is chosen at first; the others are not there.

NoCalls == callsRows = Off /\ online = Off /\ callsScreen = Off /\ rung = Off
NoRouting == members = Off /\ pointer = Off /\ asking = Off /\ picks = Off
NoSetup == configs = Off /\ numbers = Off /\ request = Off /\ begun = Off /\ overlapped = Off
NoSalesforce == table = Off /\ parents = Off /\ app = Off /\ sf = Off /\ issued = Off /\ notes = Off /\
    listener = Off /\ pull = Off /\ salesforceDue = Off /\ push = Off /\ edits = Off
NoMail == call = Off /\ good = Off /\ revoked = Off /\ stamp = Off /\ hosted = Off
NoTasks == tasksStatus = Off /\ tasksDue = Off /\ batch = Off /\ unverified = Off /\ sweep = Off
NoNotify == notifyStatus = Off /\ notifier = Off /\ inbox = Off /\ joined = Off /\ counted = Off /\
    erred = Off /\ owed = Off
NoLeads == configured = Off /\ raw = Off /\ copies = Off
NoChat == chatRows = Off /\ sending = Off /\ chatStatus = Off /\ worker = Off /\ chatScreen = Off /\
    taken = Off /\ early = Off
NoTenants == user = Off /\ org = Off /\ schema = Off /\ pc = Off /\ ask = Off /\ threads = Off /\
    path = Off /\ removed = Off

Init ==
  /\ service \in {"calls", "routing", "setup", "salesforce", "mail", "tasks", "notify", "leads", "chat",
                  "tenants"}
  /\ IF service = "calls" THEN Calls!Init ELSE NoCalls
  /\ IF service = "routing" THEN Routing!Init ELSE NoRouting
  /\ IF service = "setup" THEN Setup!Init ELSE NoSetup
  /\ IF service = "salesforce" THEN Salesforce!Init ELSE NoSalesforce
  /\ IF service = "mail" THEN Mail!Init ELSE NoMail
  /\ IF service = "tasks" THEN Tasks!Init ELSE NoTasks
  /\ IF service = "notify" THEN Notify!Init ELSE NoNotify
  /\ IF service = "leads" THEN Leads!Init ELSE NoLeads
  /\ IF service = "chat" THEN Chat!Init ELSE NoChat
  /\ IF service = "tenants" THEN Tenants!Init ELSE NoTenants

Next ==
  \/ /\ service = "calls" /\ Calls!Next
     /\ UNCHANGED <<service, routingVars, setupVars, salesforceVars, mailVars, tasksVars,
                    notifyVars, leadsVars, chatVars, tenantVars>>
  \/ /\ service = "routing" /\ Routing!Next
     /\ UNCHANGED <<service, callsVars, setupVars, salesforceVars, mailVars, tasksVars,
                    notifyVars, leadsVars, chatVars, tenantVars>>
  \/ /\ service = "setup" /\ Setup!Next
     /\ UNCHANGED <<service, callsVars, routingVars, salesforceVars, mailVars, tasksVars,
                    notifyVars, leadsVars, chatVars, tenantVars>>
  \/ /\ service = "salesforce" /\ Salesforce!Next
     /\ UNCHANGED <<service, callsVars, routingVars, setupVars, mailVars, tasksVars,
                    notifyVars, leadsVars, chatVars, tenantVars>>
  \/ /\ service = "mail" /\ Mail!Next
     /\ UNCHANGED <<service, callsVars, routingVars, setupVars, salesforceVars, tasksVars,
                    notifyVars, leadsVars, chatVars, tenantVars>>
  \/ /\ service = "tasks" /\ Tasks!Next
     /\ UNCHANGED <<service, callsVars, routingVars, setupVars, salesforceVars, mailVars,
                    notifyVars, leadsVars, chatVars, tenantVars>>
  \/ /\ service = "notify" /\ Notify!Next
     /\ UNCHANGED <<service, callsVars, routingVars, setupVars, salesforceVars, mailVars,
                    tasksVars, leadsVars, chatVars, tenantVars>>
  \/ /\ service = "leads" /\ Leads!Next
     /\ UNCHANGED <<service, callsVars, routingVars, setupVars, salesforceVars, mailVars,
                    tasksVars, notifyVars, chatVars, tenantVars>>
  \/ /\ service = "chat" /\ Chat!Next
     /\ UNCHANGED <<service, callsVars, routingVars, setupVars, salesforceVars, mailVars,
                    tasksVars, notifyVars, leadsVars, tenantVars>>
  \/ /\ service = "tenants" /\ Tenants!Next
     /\ UNCHANGED <<service, callsVars, routingVars, setupVars, salesforceVars, mailVars, tasksVars,
                    notifyVars, leadsVars, chatVars>>

\* A worker goes on with a task it has begun (see MailTasks).
Spec ==
  /\ Init /\ [][Next]_vars
  /\ WF_tasksVars(service = "tasks" /\ Tasks!RemindPage /\ UNCHANGED <<service, callsVars, routingVars, setupVars,
                     salesforceVars, mailVars, notifyVars, leadsVars, chatVars, tenantVars>>)

----------------------------------------------------------------------------
\* Properties

\* However often and in whatever order the events of a call come, its rows do not disagree about
\* the agent, and an agent who sees a call come in sees a row that has one (Telephony); as many
\* picks in a row as the group has users go to different users, among the requests of a process
\* that do not overlap (CallRouting); while requests do not overlap, an account is connected once
\* and a group has one number per object, failures midway included (TelephonySetup).
CallsHold ==
  CASE service = "calls"   -> Calls!TypeOK /\ Calls!CallRowsAgree
    [] service = "routing" -> Routing!TypeOK /\ Routing!RoundRobin
    [] service = "setup"   -> Setup!TypeOK /\ Setup!GroupsAreConfiguredOnce
    [] OTHER               -> TRUE

\* A pull during which nobody else touched the table leaves each record it fetched in a row, unless
\* it passed the record over because its external id was another row's or record's, and no row of
\* anything else, after whatever pushes, failures and edits (SalesforceSync).
PullHolds == service = "salesforce" => Salesforce!TypeOK /\ Salesforce!PullMirrors

\* The number that a stored campaign says were sent is that of all records asked for, each mailed,
\* or none if the provider is unknown, and the record of each was posted; and a SendGrid id that is
\* found by a hash hosts a content with that hash, however calls interleave and fail (Mailing).
MailHolds == service = "mail" => Mail!TypeOK /\ Mail!CampaignIsAccounted /\ Mail!StampedIsHosted

\* The sweep over users to be reminded ends, though users sign up and verify meanwhile, for each
\* page moves on, also past users who are as unverified as before (MailTasks).
SweepEnds == service = "tasks" => Tasks!SweepEnds

\* A tab that has handled its messages was last told a total that counts every unread notification
\* it was sent word of, or was sent an error since (Notifications); the raw event of a Facebook
\* lead is stored if and only if the lead is, however deliveries fail and come again (LeadCapture);
\* a client is told no status that its message's rows never had, reports that overtook the row
\* aside (WhatsApp).
MessagesHold ==
  CASE service = "notify" -> Notify!TypeOK /\ Notify!NoneOverlooked
    [] service = "leads"  -> Leads!TypeOK /\ Leads!LeadsMatchEvents
    [] service = "chat"   -> Chat!TypeOK /\ Chat!ToldIsStored
    [] service = "tasks"  -> Tasks!TypeOK
    [] OTHER              -> TRUE

\* A signup answered 201 has its user, its organization, its schema with the first user in it and
\* the tables, unless another signup for this schema or an administrator has been there
\* (Provisioning).
CreatedTenantsStand == service = "tenants" => Tenants!CreatedTenantsStand

\* However signups, failures and deletions interleave, a schema has the users of one tenant only,
\* and that tenant's organization is bound to it (Provisioning).
SchemasServeOneTenant == service = "tenants" => Tenants!TypeOK /\ Tenants!SchemasServeOneTenant

\* A signup that could clean up leaves no organization, nothing in its schema but what a rival
\* has made, and its user only if the tables of the schema had been created (Provisioning).
CleanupIsComplete == service = "tenants" => Tenants!CleanupIsComplete
=============================================================================
