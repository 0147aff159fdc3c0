--------------------------- MODULE Notifications ---------------------------
(***************************************************************************)
(* The notifications of one user (api/notifications/notify.py) and the     *)
(* websockets his tabs hold open (Notification in api/consumer.py).  A     *)
(* notifier stores a row and then sends two messages to the user's group;  *)
(* a tab's own requests go to the whole group as well.  Each consumer      *)
(* takes its messages one by one and asks the database anew for what it    *)
(* shows.                                                                  *)
(***************************************************************************)
EXTENDS Integers, Sequences, FiniteSets

CONSTANTS
  Note, Tab, Notifier,
  Page,          \* rows in the list of notifications (LIMIT 10)
  MaxInbox

NotificationsAssumption ==
  Page \in Nat \ {0} /\ MaxInbox \in Nat /\ Note \subseteq Nat \ {0}

VARIABLES
  status,        \* of each notification: not stored, stored in an open transaction, pending, read
  notifier,      \* what each caller of trigger_notication is about
  inbox,         \* the messages on the way to each tab
  joined,        \* the tabs in the user's group
  counted,       \* the notifications in the last total each tab was told
  erred,         \* the tabs that have been sent an error since
  owed           \* those it has been sent word of, stored for good by then (history)

vars == <<status, notifier, inbox, joined, counted, erred, owed>>

Wire == [what : {"get_unread", "get_notification", "read_update", "read_notify"}, note : Note \cup {0}]

TypeOK ==
  /\ status \in [Note -> {"none", "open", "pending", "read"}]
  /\ notifier \in [Notifier -> [step : {"idle", "tell", "again", "commit"}, note : Note \cup {0}, open : BOOLEAN]]
  /\ inbox \in [Tab -> Seq(Wire)] /\ \A t \in Tab : Len(inbox[t]) <= MaxInbox
  /\ joined \subseteq Tab
  /\ counted \in [Tab -> SUBSET Note] /\ owed \in [Tab -> SUBSET Note]
  /\ erred \subseteq Tab

Init ==
  /\ status = [n \in Note |-> "none"]
  /\ notifier = [p \in Notifier |-> [step |-> "idle", note |-> 0, open |-> FALSE]]
  /\ inbox = [t \in Tab |-> <<>>] /\ joined = {}
  /\ counted = [t \in Tab |-> {}] /\ owed = [t \in Tab |-> {}]
  /\ erred = {}

Pending == {n \in Note : status[n] = "pending"}

GroupSend(what, n) ==
  /\ \A t \in joined : Len(inbox[t]) < MaxInbox
  /\ inbox' = [t \in Tab |-> IF t \in joined THEN Append(inbox[t], [what |-> what, note |-> n])
                             ELSE inbox[t]]

----------------------------------------------------------------------------
\* trigger_notication

\* The row is stored for good, or, for a workflow of a deletion, in the transaction of the
\* deletion; an error is swallowed and the user's tabs are told to look all the same.
Store(p, n, open) ==
  /\ notifier[p].step = "idle" /\ status[n] = "none"
  /\ \A m \in Note : m < n => status[m] # "none"
  /\ \/ /\ status' = [status EXCEPT ![n] = IF open THEN "open" ELSE "pending"]
        /\ notifier' = [notifier EXCEPT ![p] = [step |-> "tell", note |-> n, open |-> open]]
     \/ /\ notifier' = [notifier EXCEPT ![p] = [step |-> "tell", note |-> 0, open |-> FALSE]]
        /\ UNCHANGED status
  /\ UNCHANGED <<inbox, joined, counted, erred, owed>>

Tell(p) ==
  LET n == notifier[p].note IN
  /\ notifier[p].step = "tell" /\ GroupSend("get_unread", 0)
  /\ owed' = [t \in Tab |-> IF t \in joined /\ n # 0 /\ ~notifier[p].open THEN owed[t] \cup {n} ELSE owed[t]]
  /\ notifier' = [notifier EXCEPT ![p].step = IF n # 0 THEN "again" ELSE "idle"]
  /\ UNCHANGED <<status, joined, counted, erred>>

TellWhich(p) ==
  /\ notifier[p].step = "again" /\ GroupSend("get_notification", notifier[p].note)
  /\ notifier' = [notifier EXCEPT ![p].step = IF notifier[p].open THEN "commit" ELSE "idle"]
  /\ UNCHANGED <<status, joined, counted, erred, owed>>

EndTransaction(p) ==
  /\ notifier[p].step = "commit"
  /\ \E s \in {"pending", "read"} :   \* a rolled back row counts no more than a read one
       status' = [status EXCEPT ![notifier[p].note] = s]
  /\ notifier' = [notifier EXCEPT ![p].step = "idle"]
  /\ UNCHANGED <<inbox, joined, counted, erred, owed>>

\* The worker dies, or the channel layer refuses: who was not told is not.
GiveUp(p) ==
  /\ notifier[p].step \in {"tell", "again"}
  /\ notifier' = [notifier EXCEPT ![p].step = IF notifier[p].open THEN "commit" ELSE "idle"]
  /\ UNCHANGED <<status, inbox, joined, counted, erred, owed>>

----------------------------------------------------------------------------
\* The consumer

\* The first message authenticates the tab; its consumer joins the group.
Join(t) ==
  /\ t \notin joined /\ joined' = joined \cup {t}
  /\ UNCHANGED <<status, notifier, inbox, counted, erred, owed>>

\* The tab is closed, or an exception of get_notification or read_notification, which nobody
\* catches, ends its consumer.
Disconnect(t) ==
  /\ t \in joined /\ joined' = joined \ {t} /\ erred' = erred \ {t}
  /\ inbox' = [inbox EXCEPT ![t] = <<>>]
  /\ counted' = [counted EXCEPT ![t] = {}] /\ owed' = [owed EXCEPT ![t] = {}]
  /\ UNCHANGED <<status, notifier>>

\* What a tab asks is sent to the group.
ClientAsks(t, what, n) ==
  /\ t \in joined /\ GroupSend(what, n)
  /\ UNCHANGED <<status, notifier, joined, counted, erred, owed>>

\* Mutant: the total is taken from the page of the latest notifications.
TotalOfPage ==
  {n \in Pending : Cardinality({m \in Note : m > n /\ status[m] \in {"pending", "read"}}) < Page}

\* SELECT COUNT(*) ... status = 'pending'.
Total == Pending

\* get_unread and get_notification: the totals are asked for and sent.
TellTotals(t) ==
  /\ Head(inbox[t]).what \in {"get_unread", "get_notification"}
  /\ counted' = [counted EXCEPT ![t] = Total] /\ erred' = erred \ {t}
  /\ inbox' = [inbox EXCEPT ![t] = Tail(@)]
  /\ UNCHANGED status

\* A query of get_unread fails: the tab is sent the error instead, and what it was told is forgotten.
SendError(t) ==
  /\ Head(inbox[t]).what = "get_unread"
  /\ erred' = erred \cup {t} /\ counted' = [counted EXCEPT ![t] = {}]
  /\ inbox' = [inbox EXCEPT ![t] = Tail(@)]
  /\ UNCHANGED status

\* read_update: all that is stored by now counts as read; an error is swallowed.
MarkAll(t) ==
  /\ Head(inbox[t]).what = "read_update"
  /\ \/ status' = [n \in Note |-> IF n \in Pending THEN "read" ELSE status[n]]
     \/ UNCHANGED status
  /\ inbox' = [inbox EXCEPT ![t] = Tail(@)]
  /\ UNCHANGED <<counted, erred>>

\* read_notify: the row is updated, and then comes get_unread.
MarkOne(t) ==
  /\ Head(inbox[t]).what = "read_notify"
  /\ status' = [n \in Note |-> IF n = Head(inbox[t]).note /\ n \in Pending THEN "read" ELSE status[n]]
  /\ inbox' = [inbox EXCEPT ![t] = <<[what |-> "get_unread", note |-> 0]>> \o Tail(@)]
  /\ UNCHANGED <<counted, erred>>

Handle(t) ==
  /\ inbox[t] # <<>>
  /\ TellTotals(t) \/ SendError(t) \/ MarkAll(t) \/ MarkOne(t)
  /\ UNCHANGED <<notifier, joined, owed>>

Next ==
  \/ \E p \in Notifier :
       \/ \E n \in Note, open \in BOOLEAN : Store(p, n, open)
       \/ Tell(p) \/ TellWhich(p) \/ EndTransaction(p) \/ GiveUp(p)
  \/ \E t \in Tab :
       \/ Join(t) \/ Disconnect(t) \/ Handle(t)
       \/ \E what \in {"get_unread", "read_update"} : ClientAsks(t, what, 0)
       \/ \E n \in Note : ClientAsks(t, "read_notify", n)

----------------------------------------------------------------------------
\* Properties

\* A tab that has handled all its messages was last told a total that counts every
\* notification it was sent word of and that is still unread, whatever other tabs marked and
\* other notifiers stored meanwhile, or has been sent an error since.  A notification of a
\* transaction that was still open when the tabs were told is not among them.
NoneOverlooked ==
  \A t \in joined \ erred : inbox[t] = <<>> => owed[t] \cap Pending \subseteq counted[t]
=============================================================================
