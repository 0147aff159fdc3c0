-------------------------- MODULE MCProvisioning --------------------------
(* Provisioning with two signups, that may ask for the schema or the  *)
(* name of another or of the established tenant, or use one email.          *)
EXTENDS Provisioning, TLC

CONSTANTS s1, s2, n1, n2, n3, e1, e2, e3

Want(e, n, s) == [email |-> e, name |-> n, schema |-> s, user_id |-> Nobody, organization_id |-> Nobody, id |-> Nobody]

HomeAsk == [email |-> e1, name |-> n1, schema |-> s1]
Asks    == {Want(e2, n2, s2), Want(e3, n3, s2), Want(e3, n2, s1), Want(e2, n1, s2)}

SignupSymmetry == Permutations(Signup)
===========================================================================
