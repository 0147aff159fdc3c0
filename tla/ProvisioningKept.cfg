SPECIFICATION Spec
CONSTANTS
  s1 = s1
  s2 = s2
  n1 = n1
  n2 = n2
  n3 = n3
  e1 = e1
  e2 = e2
  e3 = e3
  Signup = {q1, q2}
  Established = t0
  SchemaName = {s1, s2}
  OrgName = {n1, n2, n3}
  Email = {e1, e2, e3}
  Ask <- Asks
  Home <- HomeAsk
  Nobody = Nobody
  NoOrg = NoOrg
  NoSchema = NoSchema
  NoUser = NoUser
SYMMETRY SignupSymmetry
INVARIANT CompleteTenantsAreKept
CHECK_DEADLOCK FALSE
