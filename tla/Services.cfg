SPECIFICATION Spec
CONSTANTS
  Off = Off
  None = None
  Nobody = Nobody
  NoTarget = NoTarget
  a1 = a1
  a2 = a2
  t1 = t1
  t2 = t2
  l1 = l1
  l2 = l2
  Call = {c1, c2}
  CallAgent = {a1, a2}
  Target <- TargetOf
  Agent = {1, 2, 3}
  Worker = {w1, w2}
  Request = {r1, r2}
  Payload <- SetupPayloads
  Template <- TwoTemplates
  Delivery <- Deliveries
  MaxRows = 2
  Account = {"a", "b"}
  Object = {"leads", "accounts"}
  Group = {"g1", "g2"}
  MaxRequests = 3
  MaxAlone = 1
  LocalId = {i1, i2, i3}
  SfId = {s1, s2}
  Value = {1, 2}
  External = {2}
  Parent = {p}
  ParentSfId = {sp}
  MaxNotes = 1
  MaxEdits = 2
  MailCall = {m1, m2}
  Record = {k1, k2}
  Unaddressed = {k2}
  Content = {1, 2, 3}
  Hash <- HashOf
  Sid = {d1, d2}
  MaxCreds = 1
  Campaign = {e1, e2, e3}
  Ready = {e1, e2}
  MaxUsers = 5
  BATCH_SIZE = 2
  Note = {1, 2}
  Tab = {b1, b2}
  Notifier = {n1}
  Page = 1
  MaxInbox = 2
  Lead = {l1, l2}
  Message = {w}
  MaxCopies = 2
  schema1 = schema1
  schema2 = schema2
  org1 = org1
  org2 = org2
  org3 = org3
  email1 = email1
  email2 = email2
  email3 = email3
  Signup = {q1, q2}
  Established = t0
  SchemaName = {schema1, schema2}
  OrgName = {org1, org2, org3}
  Email = {email1, email2, email3}
  Wanted <- TenantAsks
  Home <- HomeAsk
  NoOrg = NoOrg
  NoSchema = NoSchema
  NoUser = NoUser
INVARIANTS
  CallsHold
  PullHolds
  MailHolds
  MessagesHold
  CreatedTenantsStand
  SchemasServeOneTenant
  CleanupIsComplete
PROPERTY
  SweepEnds
CHECK_DEADLOCK FALSE
