SPECIFICATION Spec
CONSTANTS
  u1 = u1
  u2 = u2
  a = a
  b = b
  n = n
  q1 = q1
  q2 = q2
  User = {u1, u2}
  Admin = {u1}
  Record = {a, b}
  Name = {n}
  NameOf <- MCNameOf
  Request = {q1, q2}
  Jobs <- MCPurgeJobs
  Start <- MCStart
  Grants <- MCGrants
  Creators = {u2}
  Lines <- MCLines
  Profiles <- MCProfiles
  MaxPolicyChanges = 1
  NoRequest = NoRequest
  NoManager = NoManager
  NoJob = NoJob
PROPERTY
  PurgeRemovesRows
CHECK_DEADLOCK FALSE
