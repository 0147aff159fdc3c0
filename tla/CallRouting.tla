---------------------------- MODULE CallRouting ----------------------------
(***************************************************************************)
(* Which agent of a group to ring, by round robin (telephony_route in      *)
(* api/telephony/views.py).  The pointer of a group lives in the memory of *)
(* each worker, is read and moved in two steps by requests that run        *)
(* beside each other, and outlives changes of the group.                   *)
(***************************************************************************)
EXTENDS Integers, Sequences, FiniteSets, Functions

CONSTANTS
  Agent,         \* users, by their ids
  Worker,        \* processes of the web server
  Request,
  None

RoutingAssumption ==
  /\ Agent \subseteq Nat /\ IsFiniteSet(Agent)
  /\ None \notin Worker

VARIABLES
  members,       \* the users of the group, in the order of their ids
  pointer,       \* round_robin_pointers, of each worker
  asking,        \* of each request: its worker, the users it read, the pointer it read, plus 1
  picks          \* of each worker, who was picked lately (history)

vars == <<members, pointer, asking, picks>>

\* SELECT ... ORDER BY u.id.
Listings == {s \in UNION {[1..n -> Agent] : n \in 0..Cardinality(Agent)} :
               \A i, j \in DOMAIN s : i < j => s[i] < s[j]}

Idle == [worker |-> None, users |-> <<>>, at |-> 0]

TypeOK ==
  /\ members \in Listings
  /\ pointer \in [Worker -> Nat]
  /\ asking \in [Request -> [worker : Worker \cup {None}, users : Listings, at : Nat]]
  /\ picks \in [Worker -> Seq(Agent)]

Init ==
  /\ members = <<>> /\ pointer = [w \in Worker |-> 0]
  /\ asking = [r \in Request |-> Idle] /\ picks = [w \in Worker |-> <<>>]

----------------------------------------------------------------------------
SetMembers(S) ==
  /\ members' = S
  /\ picks' = [w \in Worker |-> <<>>]
  /\ UNCHANGED <<pointer, asking>>

\* The users of the group are read; a group without users is answered by a 404.
FetchUsers(r, w) ==
  /\ asking[r] = Idle /\ members # <<>>
  /\ asking' = [asking EXCEPT ![r] = [worker |-> w, users |-> members, at |-> 0]]
  /\ UNCHANGED <<members, pointer, picks>>

\* Another request of the worker has read the pointer and not yet moved it, or read the
\* group before it changed.
Disturbed(r) ==
  \/ asking[r].users # members
  \/ \E q \in Request \ {r} : asking[q].worker = asking[r].worker /\ asking[q].at > 0

Lately(s, n) == IF Len(s) > n THEN SubSeq(s, Len(s) - n + 1, Len(s)) ELSE s

\* The pointer is read, and the user it points at is picked.
Pick(r) ==
  /\ asking[r] # Idle /\ asking[r].at = 0
  /\ LET w == asking[r].worker
         n == Len(asking[r].users)
         k == (pointer[w] % n) + 1
     IN  /\ asking' = [asking EXCEPT ![r].at = pointer[w] + 1]
         /\ picks' = [picks EXCEPT ![w] =
                        IF Disturbed(r) THEN <<>> ELSE Lately(Append(@, asking[r].users[k]), n)]
  /\ UNCHANGED <<members, pointer>>

\* Mutant: the pointer is moved past the last user before it starts anew.
NextPlain(at, n) == at % (n + 1)

NextPointer(at, n) == at % n

Advance(r) ==
  /\ asking[r].at > 0
  /\ LET w == asking[r].worker
         quiet == \A q \in Request \ {r} : asking[q].worker # w \/ asking[q].at = 0
     IN  /\ pointer' = [pointer EXCEPT ![w] = NextPointer(asking[r].at, Len(asking[r].users))]
         /\ picks' = IF quiet /\ asking[r].users = members THEN picks
                     ELSE [picks EXCEPT ![w] = <<>>]
  /\ asking' = [asking EXCEPT ![r] = Idle]
  /\ UNCHANGED members

Next ==
  \/ \E S \in Listings : SetMembers(S)
  \/ \E r \in Request, w \in Worker : FetchUsers(r, w)
  \/ \E r \in Request : Pick(r) \/ Advance(r)

----------------------------------------------------------------------------
\* Properties

\* Among requests of one worker that do not overlap, and while the group does not change, as
\* many picks in a row as the group has users go to different users.
RoundRobin == \A w \in Worker : IsInjective(picks[w])
=============================================================================
