---------------------------- MODULE LeadCapture ----------------------------
(***************************************************************************)
(* Leads that Facebook delivers (facebook/leadwebhook.py).  Deliveries     *)
(* come in any order, and again when they were not answered well; each is  *)
(* one transaction.                                                        *)
(***************************************************************************)
EXTENDS Integers, Sequences, FiniteSets

CONSTANTS
  Lead,          \* leads, as Facebook names them
  Delivery,      \* the sequences of leads that Facebook delivers together
  MaxCopies

LeadCaptureAssumption ==
  MaxCopies \in Nat /\ \A d \in Delivery : d \in Seq(Lead)

VARIABLES
  configured,    \* leads whose form has a lead capture
  raw, copies    \* facebook_lead; how often each lead is in the tenant's table

vars == <<configured, raw, copies>>

TypeOK == configured \subseteq Lead /\ raw \subseteq Lead /\ copies \in [Lead -> 0..MaxCopies]

Init == configured = {} /\ raw = {} /\ copies = [l \in Lead |-> 0]

----------------------------------------------------------------------------
\* Somebody adds a lead capture for the lead's form, or takes it away.
Configure(l) ==
  /\ configured' = IF l \in configured THEN configured \ {l} ELSE configured \cup {l}
  /\ UNCHANGED <<raw, copies>>

Count(d, l) == Cardinality({i \in DOMAIN d : d[i] = l})

\* Mutant: a lead that cannot be fetched is passed over.
PassOver(d, good) == good

\* The leads are put in one by one; what cannot be fetched raises and rolls all back.
Fetched(d, good) == IF \A i \in DOMAIN d : d[i] \in good THEN good ELSE {}

\* The raw event of a lead is stored once, the lead itself with every delivery; good are the
\* leads Facebook answers for, and without a configuration it is not asked.
PostLeads(d, good) ==
  LET put == {d[i] : i \in DOMAIN d} \cap Fetched(d, good)
      done == IF put = {} THEN {} ELSE {d[i] : i \in DOMAIN d}
  IN  /\ good \subseteq configured
      /\ raw' = raw \cup done
      /\ copies' = [l \in Lead |-> IF l \in put THEN copies[l] + Count(d, l) ELSE copies[l]]
      /\ \A l \in Lead : copies'[l] <= MaxCopies
      /\ UNCHANGED configured

Next ==
  \/ \E l \in Lead : Configure(l)
  \/ \E d \in Delivery, good \in SUBSET Lead : PostLeads(d, good)

----------------------------------------------------------------------------
\* Properties

\* The raw event of a lead is stored if and only if the lead itself is, whichever lead of
\* whichever delivery could not be fetched, and however often deliveries come.
LeadsMatchEvents == \A l \in Lead : l \in raw <=> copies[l] > 0
=============================================================================
