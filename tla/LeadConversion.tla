---------------------------- MODULE LeadConversion ----------------------------
(***************************************************************************)
(* Converting a lead (post_business_logic, 'leads/convert'): an account, a *)
(* contact and, if asked for, an opportunity are stored, each in a         *)
(* transaction of its own, and at last the lead is marked and pointed at   *)
(* them.  Nothing undoes the first steps when a later one fails.           *)
(***************************************************************************)
EXTENDS Integers, FiniteSets

CONSTANTS
  Request,           \* requests that convert the one lead
  MaxConversions,    \* bound: conversions begun
  None

LeadConversionAssumption == MaxConversions \in Nat

Kind == {"account", "contact", "opportunity"}

VARIABLES
  lead,              \* the lead's row: whether it exists, is marked, and what it names
  stored,            \* the rows made: kind, id, and the rows that they name
  request,           \* what each request does
  begun, answered,   \* conversions begun; those answered with success
  excused            \* whether two overlapped, or a last step failed (history)

vars == <<lead, stored, request, begun, answered, excused>>

\* Ids are numbers of the conversions that made the rows.
Id == 1..MaxConversions
NoNames == [k \in Kind |-> None]

Idle == [at |-> "idle", id |-> None, opportunity |-> FALSE, made |-> NoNames, alone |-> TRUE]

TypeOK ==
  /\ lead \in [there : BOOLEAN, converted : BOOLEAN, names : [Kind -> Id \cup {None}]]
  /\ stored \subseteq [kind : Kind, id : Id, account : Id \cup {None}, contact : Id \cup {None}]
  /\ \A r \in Request :
       /\ request[r].at \in {"idle", "read", "account", "contact", "opportunity", "lead"}
       /\ request[r].made \in [Kind -> Id \cup {None}]
  /\ {begun, answered} \subseteq 0..MaxConversions

Init ==
  /\ lead = [there |-> TRUE, converted |-> FALSE, names |-> NoNames] /\ stored = {}
  /\ request = [r \in Request |-> Idle] /\ begun = 0 /\ answered = 0 /\ excused = FALSE

Working == {r \in Request : request[r].at # "idle"}
Goes(r, at) == request' = [request EXCEPT ![r].at = at]
Stops(r) == request' = [request EXCEPT ![r] = Idle]

Begin(r, opportunity) ==
  /\ request[r].at = "idle" /\ begun < MaxConversions /\ begun' = begun + 1
  /\ request' = [q \in Request |->
       CASE q = r -> [Idle EXCEPT !.at = "read", !.id = begun + 1, !.opportunity = opportunity, !.alone = Working = {}]
         [] q # r /\ q \in Working -> [request[q] EXCEPT !.alone = FALSE]
         [] OTHER -> request[q]]
  /\ UNCHANGED <<lead, stored, answered, excused>>

\* Marked, or pointing at anything, a lead is converted already.
AlreadyConverted == lead.converted \/ \E k \in Kind : lead.names[k] # None

ReadLead(r) ==
  /\ request[r].at = "read"
  /\ IF ~lead.there \/ AlreadyConverted THEN Stops(r) ELSE Goes(r, "account")
  /\ UNCHANGED <<lead, stored, begun, answered, excused>>

\* post_permission stores the row, or the request ends.
Store(r, kind, account, next) ==
  LET id == request[r].id IN
    /\ request[r].at = kind
    /\ \/ Stops(r) /\ UNCHANGED stored
       \/ /\ stored' = stored \cup {[kind |-> kind, id |-> id, account |-> account,
                                     contact |-> IF kind = "opportunity" THEN request[r].made["contact"] ELSE None]}
          /\ request' = [request EXCEPT ![r].made[kind] = id, ![r].at = next]
    /\ UNCHANGED <<lead, begun, answered, excused>>

CreateAccount(r) == Store(r, "account", None, "contact")

\* Mutant: the contact goes to the newest account.
ContactOfNewest(r) ==
  \E a \in {v.id : v \in {w \in stored : w.kind = "account"}} :
    /\ \A v \in stored : v.kind = "account" => v.id <= a
    /\ Store(r, "contact", a, IF request[r].opportunity THEN "opportunity" ELSE "lead")

CreateContact(r) ==
  Store(r, "contact", request[r].made["account"], IF request[r].opportunity THEN "opportunity" ELSE "lead")

CreateOpportunity(r) == Store(r, "opportunity", request[r].made["account"], "lead")

\* patch_permission: the lead is written whatever it holds now; that it was not written is
\* either an exception, or an answer that nobody looks at.
PatchLead(r) ==
  /\ request[r].at = "lead"
  /\ \/ /\ lead.there
        /\ lead' = [lead EXCEPT !.converted = TRUE, !.names = request[r].made]
        /\ answered' = answered + 1 /\ excused' = (excused \/ ~request[r].alone)
     \/ UNCHANGED lead /\ answered' \in {answered, answered + 1} /\ excused' = TRUE
  /\ Stops(r) /\ UNCHANGED <<stored, begun>>

Crash(r) ==
  /\ request[r].at # "idle" /\ Stops(r) /\ UNCHANGED <<lead, stored, begun, answered, excused>>

DeleteLead ==
  /\ lead.there /\ lead' = [lead EXCEPT !.there = FALSE]
  /\ UNCHANGED <<stored, request, begun, answered, excused>>

Next ==
  \/ DeleteLead
  \/ \E r \in Request :
       \/ \E opportunity \in BOOLEAN : Begin(r, opportunity)
       \/ ReadLead(r) \/ CreateAccount(r) \/ CreateContact(r) \/ CreateOpportunity(r) \/ PatchLead(r) \/ Crash(r)

----------------------------------------------------------------------------
\* Properties

Of(kind, id) == {v \in stored : v.kind = kind /\ v.id = id}

\* A converted lead names rows that are stored and belong together: the contact and the
\* opportunity are those of the account, also after two conversions at once.
ConvertedLeadIsWhole ==
  lead.converted =>
    /\ Of("account", lead.names["account"]) # {}
    /\ \E v \in Of("contact", lead.names["contact"]) : v.account = lead.names["account"]
    /\ lead.names["opportunity"] # None =>
         \E v \in Of("opportunity", lead.names["opportunity"]) :
           v.account = lead.names["account"] /\ v.contact = lead.names["contact"]

\* Success is told once, and of a lead that is converted, unless conversions overlapped or the
\* last step of one failed.
ConvertedOnce == ~excused => answered <= 1 /\ (answered = 1 => lead.converted)
=============================================================================
