---------------------------- MODULE TelephonySetup ----------------------------
(***************************************************************************)
(* Setting telephony up (post_business_logic, 'telephony/config'): an      *)
(* account of the provider is connected to an object, and each of its      *)
(* landing numbers to a group.  What is in use is read first; the rows are *)
(* stored one by one, without a transaction around them.                   *)
(***************************************************************************)
EXTENDS Integers, Sequences, FiniteSets, SequencesExt

CONSTANTS
  Account, Object, Group, \* accounts of the provider, objects, user groups
  Payload,           \* what requests send: an account, an object, the groups of its numbers
  Request,
  MaxRequests, MaxAlone, \* bounds: requests begun, numbers added by themselves
  None

SetupAssumption ==
  /\ Payload \subseteq [account : Account, object : Object, groups : Seq(Group \cup {None})]
  /\ MaxRequests \in Nat /\ MaxAlone \in Nat

VARIABLES
  configs,           \* rows of telephony_config: account and object by id
  numbers,           \* rows of landing_numbers: config, group, whether added alone (history)
  request,           \* what each request does
  begun,
  overlapped         \* whether two requests overlapped (history)

vars == <<configs, numbers, request, begun, overlapped>>

Id == 1..MaxRequests
Idle == [at |-> "idle", id |-> None, sent |-> None, seen |-> {}, used |-> {}, next |-> 1]

TypeOK ==
  /\ configs \subseteq [id : Id, account : Account, object : Object]
  /\ numbers \subseteq [config : Id, place : Nat, group : Group, alone : BOOLEAN]
  /\ begun \in 0..MaxRequests /\ overlapped \in BOOLEAN
  /\ request \in [Request -> [at : {"idle", "account", "used", "config", "numbers"}, id : Id \cup {None},
                             sent : Payload \cup {None}, seen : SUBSET configs, used : SUBSET Group,
                             next : Nat \ {0}]]

Init ==
  /\ configs = {} /\ numbers = {} /\ request = [r \in Request |-> Idle] /\ begun = 0 /\ overlapped = FALSE

Stops(r) == request' = [request EXCEPT ![r] = Idle]
Store == <<configs, numbers>>

Begin(r, sent) ==
  /\ request[r].at = "idle" /\ begun < MaxRequests /\ begun' = begun + 1
  /\ request' = [request EXCEPT ![r] = [Idle EXCEPT !.at = "account", !.id = begun + 1, !.sent = sent]]
  /\ overlapped' = (overlapped \/ \E q \in Request : request[q].at # "idle")
  /\ UNCHANGED Store

\* An account that has a row is refused; else the rows of the object are read.
CheckAccount(r) ==
  /\ request[r].at = "account"
  /\ IF \E c \in configs : c.account = request[r].sent.account THEN Stops(r)
     ELSE request' = [request EXCEPT ![r].at = "used",
                                     ![r].seen = {c \in configs : c.object = request[r].sent.object}]
  /\ UNCHANGED <<Store, begun, overlapped>>

\* Mutant: the groups of one row of the object.
ReadUsedOfOne(r) ==
  /\ request[r].at = "used"
  /\ request' = [request EXCEPT ![r].at = "config",
       ![r].used = IF request[r].seen = {} THEN {}
                   ELSE LET c == CHOOSE d \in request[r].seen : TRUE IN {n.group : n \in {m \in numbers : m.config = c.id}}]
  /\ UNCHANGED <<Store, begun, overlapped>>

\* The groups of all rows of the object.
ReadUsed(r) ==
  /\ request[r].at = "used"
  /\ request' = [request EXCEPT ![r].at = "config",
       ![r].used = {n.group : n \in {m \in numbers : \E c \in request[r].seen : m.config = c.id}}]
  /\ UNCHANGED <<Store, begun, overlapped>>

InsertConfig(r) ==
  /\ request[r].at = "config"
  /\ \/ Stops(r) /\ UNCHANGED configs
     \/ /\ configs' = configs \cup {[id |-> request[r].id, account |-> request[r].sent.account, object |-> request[r].sent.object]}
        /\ request' = [request EXCEPT ![r].at = "numbers"]
  /\ UNCHANGED <<numbers, begun, overlapped>>

\* A number without a group, with a group named before or in use.
Refused(q) ==
  LET g == q.sent.groups[q.next]
  IN  IF g = None \/ g \in q.used THEN TRUE ELSE \E i \in 1..(q.next - 1) : q.sent.groups[i] = g

\* A refusal or an error ends the request, and what it stored before stays; a number that
\* post_data_sql answers it could not store is passed over, for nobody looks at the answer.
InsertNumber(r) ==
  LET q    == request[r]
      over == IF q.next > Len(q.sent.groups) THEN TRUE ELSE Refused(q)
  IN  /\ q.at = "numbers"
      /\ \/ Stops(r) /\ UNCHANGED numbers
         \/ /\ ~over
            /\ \/ UNCHANGED numbers
               \/ numbers' = numbers \cup {[config |-> q.id, place |-> q.next, group |-> q.sent.groups[q.next], alone |-> FALSE]}
            /\ request' = [request EXCEPT ![r].next = @ + 1]
      /\ UNCHANGED <<configs, begun, overlapped>>

\* A number added by itself is stored unchecked.
AddNumber(c, g) ==
  /\ Cardinality({n \in numbers : n.alone}) < MaxAlone
  /\ numbers' = numbers \cup {[config |-> c.id, place |-> 0, group |-> g, alone |-> TRUE]}
  /\ UNCHANGED <<configs, request, begun, overlapped>>

Next ==
  \/ \E r \in Request : \/ CheckAccount(r) \/ ReadUsed(r) \/ InsertConfig(r) \/ InsertNumber(r)
                        \/ \E sent \in Payload : Begin(r, sent)
  \/ \E c \in configs, g \in Group : AddNumber(c, g)

----------------------------------------------------------------------------
\* Properties

ObjectOf(n) == (CHOOSE c \in configs : c.id = n.config).object

\* As long as requests do not overlap, failures and refusals midway included: an account is
\* connected once, and a group has one number per object, those added alone aside.
GroupsAreConfiguredOnce ==
  ~overlapped =>
    /\ \A c, d \in configs : c.account = d.account => c = d
    /\ \A m, n \in {k \in numbers : ~k.alone} : m.group = n.group /\ ObjectOf(m) = ObjectOf(n) => m = n
=============================================================================
