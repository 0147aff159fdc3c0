----------------------------- MODULE Telephony -----------------------------
(***************************************************************************)
(* Calls (api/telephony/views.py) and the agents' websockets               *)
(* (TelephonyConsumer in api/consumer.py).  The telephone exchange posts   *)
(* an event when a call comes in, rings an agent and ends.  Events are     *)
(* delivered late, twice, out of order or never; a handler commits after   *)
(* each statement and tells the agent last.  Events that only pass a word  *)
(* on to the agent (answered, hung up) are delivered in the same way.      *)
(***************************************************************************)
EXTENDS Integers, Sequences, FiniteSets, Functions

CONSTANTS
  Call,          \* calls, as the exchange names them
  Agent, Nobody, \* users; an extension that is no user's
  Target,        \* of each agent: the object of his profile's landing number
  NoTarget,      \*   unless it has none, or several
  MaxRows

TelephonyAssumption ==
  /\ Nobody \notin Agent
  /\ DOMAIN Target = Agent
  /\ MaxRows \in Nat

VARIABLES
  rows,          \* the table call, in the order of insertion
  online,        \* agents whose websocket is in their group
  screen,        \* the last message that reached each agent's websocket
  rung           \* of each call, the agent whom the last event rang (history)

vars == <<rows, online, screen, rung>>

Row == [call : Call, agent : Agent \cup {Nobody}, object : Range(Target) \cup {Nobody},
        ended : BOOLEAN]

\* What an agent's client was last told: a row for "incoming" and, as the client chose it,
\* for "popup"; 0 for none.
Shown == [what : {"nothing", "incoming", "popup", "call_accepted", "hangup"}, row : 0..MaxRows]

Blank == [what |-> "nothing", row |-> 0]

TypeOK ==
  /\ rows \in Seq(Row) /\ Len(rows) <= MaxRows
  /\ online \subseteq Agent /\ screen \in [Agent -> Shown]
  /\ rung \in [Call -> Agent \cup {Nobody}]

Init ==
  /\ rows = <<>> /\ online = {} /\ screen = [a \in Agent |-> Blank] /\ rung = [c \in Call |-> Nobody]

----------------------------------------------------------------------------
\* Websockets

\* The first message authenticates; then the consumer joins the group of its user.
Join(a) ==
  /\ a \notin online /\ online' = online \cup {a}
  /\ UNCHANGED <<rows, screen, rung>>

Disconnect(a) ==
  /\ a \in online /\ online' = online \ {a}
  /\ screen' = [screen EXCEPT ![a] = Blank]
  /\ UNCHANGED <<rows, rung>>

\* A group that nobody has joined drops what is sent to it.
GroupSend(a, what, i) ==
  screen' = IF a \in online THEN [screen EXCEPT ![a] = [what |-> what, row |-> i]] ELSE screen

----------------------------------------------------------------------------
\* Events

\* The call waits for an agent: every such event makes a row.
CallWaits(c) ==
  /\ Len(rows) < MaxRows
  /\ rows' = Append(rows, [call |-> c, agent |-> Nobody, object |-> Nobody, ended |-> FALSE])
  /\ UNCHANGED <<online, screen, rung>>

\* The extension has a user, and the user's profile one landing number, with one target.
HasTarget(a) == Target[a] # NoTarget

\* Mutant: the row that was added last.
LastMatching(c) == {i \in DOMAIN rows : rows[i].call = c /\ \A j \in DOMAIN rows : rows[j].call = c => j <= i}

\* UPDATE call ... WHERE calluuid = c.
Rows(c) == {i \in DOMAIN rows : rows[i].call = c}

UpdateRows(c, change(_)) ==
  rows' = [i \in DOMAIN rows |-> IF i \in Rows(c) THEN change(rows[i]) ELSE rows[i]]

\* An agent is rung: all rows of the call become his, and he is told the first; with no row
\* the exception is swallowed.  Without a target nothing is done.
CallRings(c, a) ==
  /\ HasTarget(a)
  /\ UpdateRows(c, LAMBDA r : [r EXCEPT !.agent = a, !.object = Target[a]])
  /\ rung' = [rung EXCEPT ![c] = a]
  /\ \/ \E i \in Rows(c) :
          GroupSend(a, "incoming", i)
     \/ Rows(c) = {} /\ UNCHANGED screen
  /\ UNCHANGED online

\* The detail record of a call that names no log, of an agent with a target.
CallEnds(c, a) ==
  /\ HasTarget(a)
  /\ UpdateRows(c, LAMBDA r : [r EXCEPT !.object = Target[a], !.ended = TRUE])
  /\ UNCHANGED <<online, screen, rung>>

\* One that names a log: the row is updated and committed; then an unbound name raises, and
\* the answer is an error.
LoggedCallEnds(i) ==
  /\ i \in DOMAIN rows
  /\ rows' = [rows EXCEPT ![i].ended = TRUE]
  /\ UNCHANGED <<online, screen, rung>>

\* The agent's own call, logged by the client beforehand, pops up with the log it names.
MakeCall(a, i) ==
  /\ GroupSend(a, "popup", i)
  /\ UNCHANGED <<rows, online, rung>>

\* telephony_connecting, on_connected and telephony_hangup.
PassOn(a, what) ==
  /\ GroupSend(a, what, 0)
  /\ UNCHANGED <<rows, online, rung>>

Next ==
  \/ \E a \in Agent : Join(a) \/ Disconnect(a)
  \/ \E c \in Call : CallWaits(c)
  \/ \E c \in Call, a \in Agent : CallRings(c, a) \/ CallEnds(c, a)
  \/ \E i \in 1..MaxRows : LoggedCallEnds(i)
  \/ \E a \in Agent, i \in 0..Len(rows) : MakeCall(a, i)
  \/ \E a \in Agent, what \in {"call_accepted", "hangup"} : PassOn(a, what)

----------------------------------------------------------------------------
\* Properties

\* However often and in whatever order the events of a call arrive, its rows do not disagree
\* about the agent: each that has one names the one who was rung last, and an older row has
\* one if a younger has.  And an agent who sees a call come in sees a row that has an agent.
CallRowsAgree ==
  /\ \A i \in DOMAIN rows : rows[i].agent \in {Nobody, rung[rows[i].call]}
  /\ \A i, j \in DOMAIN rows : i < j /\ rows[i].call = rows[j].call /\ rows[j].agent # Nobody
       => rows[i].agent = rows[j].agent
  /\ \A a \in Agent : screen[a].what = "incoming" =>
       screen[a].row \in DOMAIN rows /\ rows[screen[a].row].agent # Nobody
=============================================================================
