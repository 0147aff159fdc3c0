------------------------------ MODULE WhatsApp ------------------------------
(***************************************************************************)
(* Messages sent by WhatsApp (api/BL/whatsapp/utils.py), and messages and  *)
(* reports that WhatsApp delivers (whatsapp/views.py), in any order and    *)
(* again when they were not answered; WhatsappConsumer passes them on to   *)
(* the chat's client.  Every statement commits.                            *)
(***************************************************************************)
EXTENDS Integers, FiniteSets

CONSTANTS
  Message,       \* messages, sent and received
  Worker,
  MaxCopies

WhatsAppAssumption == MaxCopies \in Nat \ {0}

VARIABLES
  rows,          \* how often each message is in whatsapp_message
  sending,       \* messages WhatsApp has accepted and that are not stored
  status,        \* of the rows of each message
  worker,        \* the report each worker is about
  screen,        \* the last status the chat's client was told
  taken, early   \* statuses the rows ever had; messages with a report before a row (history)

vars == <<rows, sending, status, worker, screen, taken, early>>

Status == {"sent", "received", "delivered", "read", "failed"}
Event == {"delivered", "read", "failed"}
Free == [step |-> "free"]

TypeOK ==
  /\ rows \in [Message -> 0..MaxCopies] /\ sending \subseteq Message
  /\ status \in [Message -> Status \cup {"none"}]
  /\ worker \in [Worker -> {Free} \cup [step : {"update", "tell"}, message : Message, event : Event]]
  /\ screen \in [Message -> Status \cup {"none"}]
  /\ taken \in [Message -> SUBSET Status] /\ early \subseteq Message

Init ==
  /\ rows = [m \in Message |-> 0] /\ sending = {} /\ status = [m \in Message |-> "none"]
  /\ worker = [w \in Worker |-> Free] /\ screen = [m \in Message |-> "none"]
  /\ taken = [m \in Message |-> {}] /\ early = {}

----------------------------------------------------------------------------
\* WhatsApp accepts a message; it may report on it from now on.
Send(m) ==
  /\ rows[m] = 0 /\ m \notin sending /\ status[m] = "none"
  /\ sending' = sending \cup {m}
  /\ UNCHANGED <<rows, status, worker, screen, taken, early>>

\* The message is stored as sent; or its worker dies, and it never is.
StoreSent(m) ==
  /\ m \in sending /\ sending' = sending \ {m}
  /\ \/ /\ rows' = [rows EXCEPT ![m] = 1] /\ status' = [status EXCEPT ![m] = "sent"]
        /\ taken' = [taken EXCEPT ![m] = @ \cup {"sent"}]
     \/ UNCHANGED <<rows, status, taken>>
  /\ UNCHANGED <<worker, screen, early>>

\* A message comes in, or comes in again: each time it is a row, of which the client is told.
Receive(m) ==
  /\ m \notin sending /\ status[m] \in {"none", "received"} /\ rows[m] < MaxCopies
  /\ rows' = [rows EXCEPT ![m] = @ + 1] /\ status' = [status EXCEPT ![m] = "received"]
  /\ taken' = [taken EXCEPT ![m] = @ \cup {"received"}]
  /\ screen' = [screen EXCEPT ![m] = "received"]
  /\ UNCHANGED <<sending, worker, early>>

\* A status of a message that was sent.
TakeEvent(w, m, s) ==
  /\ worker[w] = Free /\ status[m] # "received" /\ (m \in sending \/ rows[m] > 0)
  /\ worker' = [worker EXCEPT ![w] = [step |-> "update", message |-> m, event |-> s]]
  /\ UNCHANGED <<rows, sending, status, screen, taken, early>>

\* UPDATE whatsapp_message ... WHERE message_id = m: without a row it updates none.
UpdateStatus(w) ==
  /\ worker[w].step = "update"
  /\ LET m == worker[w].message IN
       /\ status' = IF rows[m] > 0 THEN [status EXCEPT ![m] = worker[w].event] ELSE status
       /\ taken' = IF rows[m] > 0 THEN [taken EXCEPT ![m] = @ \cup {worker[w].event}] ELSE taken
       /\ early' = IF rows[m] > 0 THEN early ELSE early \cup {m}
  /\ worker' = [worker EXCEPT ![w].step = "tell"]
  /\ UNCHANGED <<rows, sending, screen>>

\* Mutant: the error is caught around the statement alone.
TellAnyway(w) == worker' = [worker EXCEPT ![w].step = "tell"]

\* An error is caught around statement and message.
Caught(w) == worker' = [worker EXCEPT ![w] = Free]

FailUpdate(w) ==
  /\ worker[w].step = "update" /\ Caught(w)
  /\ UNCHANGED <<rows, sending, status, screen, taken, early>>

\* The client in the group of the phone number, if there is one, is told.
TellStatus(w) ==
  /\ worker[w].step = "tell" /\ worker' = [worker EXCEPT ![w] = Free]
  /\ \/ screen' = [screen EXCEPT ![worker[w].message] = worker[w].event]
     \/ UNCHANGED screen
  /\ UNCHANGED <<rows, sending, status, taken, early>>

Next ==
  \/ \E m \in Message : Send(m) \/ StoreSent(m) \/ Receive(m)
  \/ \E w \in Worker, m \in Message, s \in Event : TakeEvent(w, m, s)
  \/ \E w \in Worker : UpdateStatus(w) \/ FailUpdate(w) \/ TellStatus(w)

----------------------------------------------------------------------------
\* Properties

\* A client is told no status that the message's rows never had, unless a report on the
\* message overtook the INSERT of its row.
ToldIsStored == \A m \in Message : screen[m] \in taken[m] \cup {"none"} \/ m \in early
=============================================================================
