SPECIFICATION Spec
CONSTANTS
  u1 = u1
  o1 = o1
  own = own
  other = other
  User = {u1}
  Org = {o1}
  Worker = {w1, w2}
  OrgOf <- OneOrg
  Profile = {own, other}
  ProfilesOf <- OneProfile
  Account <- SomeAccounts
  Change <- SomeChanges
  NoRow = NoRow
  Same = Same
INVARIANTS
  ServedWereEntitled
  FrozenServedOnlyFromCache
  SignInUserHasTenantRow
PROPERTY
  FrozenEventuallyRefused
