-------------------------- MODULE MCTenantSession ---------------------------
EXTENDS TenantSession

CONSTANTS u1, o1, own, other

OneOrg      == [u \in User |-> o1]
OneProfile  == [o \in Org |-> {own}]

SomeAccounts == {[active |-> TRUE, profile |-> p] : p \in Profile}

\* Freezing, and a change of profile, to one of the tenant's or not.
SomeChanges ==
  {[active |-> FALSE, profile |-> Same],
   [active |-> Same, profile |-> own], [active |-> Same, profile |-> other]}
=============================================================================
