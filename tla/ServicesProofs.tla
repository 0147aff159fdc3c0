---------------------------- MODULE ServicesProofs ----------------------------
(* Theorems about the services of MCServices, for any values of their       *)
(* constants.                                                              *)
EXTENDS MCServices, FiniteSetTheorems, TLAPS

\* A step is one of the service that behaves, which stays the same.
LEMMA OneService ==
  ASSUME [Next]_vars
  PROVE  /\ service' = service
         /\ service = "calls" => [Calls!Next]_callsVars
         /\ service = "routing" => [Routing!Next]_routingVars
         /\ service = "setup" => [Setup!Next]_setupVars
         /\ service = "salesforce" => [Salesforce!Next]_salesforceVars
         /\ service = "mail" => [Mail!Next]_mailVars
         /\ service = "tasks" => [Tasks!Next]_tasksVars
         /\ service = "notify" => [Notify!Next]_notifyVars
         /\ service = "leads" => [Leads!Next]_leadsVars
         /\ service = "chat" => [Chat!Next]_chatVars
         /\ service = "tenants" => [Tenants!Next]_tenantVars
BY DEF Next, vars

LEMMA OneServiceAtFirst ==
  ASSUME Init
  PROVE  /\ service = "calls" => Calls!Init
         /\ service = "routing" => Routing!Init
         /\ service = "setup" => Setup!Init
         /\ service = "salesforce" => Salesforce!Init
         /\ service = "mail" => Mail!Init
         /\ service = "tasks" => Tasks!Init
         /\ service = "notify" => Notify!Init
         /\ service = "leads" => Leads!Init
         /\ service = "chat" => Chat!Init
         /\ service = "tenants" => Tenants!Init
BY DEF Init

-----------------------------------------------------------------------------
\* Leads from Facebook

LeadsInv == Leads!TypeOK /\ Leads!LeadsMatchEvents

LEMMA CountPositive ==
  ASSUME NEW d \in Seq(Lead), NEW l
  PROVE  Leads!Count(d, l) \in Nat /\ (Leads!Count(d, l) > 0 <=> \E i \in DOMAIN d : d[i] = l)
<1> DEFINE S == {i \in DOMAIN d : d[i] = l}
<1>1. IsFiniteSet(S)
  <2>1. DOMAIN d = 1..Len(d) /\ Len(d) \in Nat
    OBVIOUS
  <2>2. IsFiniteSet(1..Len(d))
    BY <2>1, FS_Interval
  <2> QED
    BY <2>1, <2>2, FS_Subset
<1>2. Cardinality(S) \in Nat /\ (Cardinality(S) = 0 <=> S = {})
  BY <1>1, FS_CardinalityType, FS_EmptySet
<1>3. Leads!Count(d, l) = Cardinality(S) /\ (S = {} <=> ~\E i \in DOMAIN d : d[i] = l)
  BY DEF Leads!Count, Leads!Cardinality, Cardinality
<1> HIDE DEF S
<1> QED
  BY <1>2, <1>3

LEMMA LeadsKept == ASSUME LeadsInv, [Leads!Next]_leadsVars PROVE LeadsInv'
<1>1. CASE UNCHANGED leadsVars
  BY <1>1 DEF LeadsInv, leadsVars, Leads!TypeOK, Leads!LeadsMatchEvents
<1>2. ASSUME NEW l \in Lead, Leads!Configure(l) PROVE LeadsInv'
  BY <1>2 DEF LeadsInv, Leads!TypeOK, Leads!LeadsMatchEvents, Leads!Configure
<1>3. ASSUME NEW d \in Delivery, NEW reached \in SUBSET Lead, Leads!PostLeads(d, reached) PROVE LeadsInv'
  <2> DEFINE all == {d[i] : i \in DOMAIN d}
             put == all \cap Leads!Fetched(d, reached)
  <2>1. d \in Seq(Lead) /\ MaxCopies \in Nat
    BY ServicesAssumption DEF Leads!LeadCaptureAssumption
  <2>2. put = {} \/ put = all
    BY DEF Leads!Fetched
  <2>3. all \subseteq Lead
    BY <2>1
  <2>4. /\ raw' = raw \cup put
        /\ copies' = [l \in Lead |-> IF l \in put THEN copies[l] + Leads!Count(d, l) ELSE copies[l]]
        /\ \A l \in Lead : copies'[l] <= MaxCopies
        /\ UNCHANGED configured
    BY <1>3, <2>2 DEF Leads!PostLeads
  <2>5. ASSUME NEW l \in Lead PROVE copies'[l] \in 0..MaxCopies /\ (l \in raw' <=> copies'[l] > 0)
    <3>1. copies[l] \in 0..MaxCopies /\ (l \in raw <=> copies[l] > 0)
      BY DEF LeadsInv, Leads!TypeOK, Leads!LeadsMatchEvents
    <3>2. Leads!Count(d, l) \in Nat /\ (Leads!Count(d, l) > 0 <=> l \in all)
      BY <2>1, CountPositive
    <3>3. copies'[l] = IF l \in put THEN copies[l] + Leads!Count(d, l) ELSE copies[l]
      BY <2>4
    <3> HIDE DEF all, put
    <3> QED
      BY <2>1, <2>2, <2>4, <3>1, <3>2, <3>3
  <2>6. LeadsInv!1'
    BY <2>2, <2>3, <2>4, <2>5 DEF LeadsInv, Leads!TypeOK
  <2> QED
    BY <2>5, <2>6 DEF LeadsInv, Leads!LeadsMatchEvents
<1> QED
  BY <1>1, <1>2, <1>3 DEF Leads!Next

LEMMA LeadsAtFirst == Leads!Init => LeadsInv
BY ServicesAssumption DEF Leads!Init, LeadsInv, Leads!TypeOK, Leads!LeadsMatchEvents, Leads!LeadCaptureAssumption

-----------------------------------------------------------------------------
\* Messages by WhatsApp

\* What a worker is about to tell has been stored, or overtook the row.
ChatInv ==
  /\ Chat!TypeOK
  /\ Chat!ToldIsStored
  /\ \A w \in Worker : worker[w] # Chat!Free /\ worker[w].step = "tell" =>
       worker[w].event \in taken[worker[w].message] \/ worker[w].message \in early

LEMMA ChatAtFirst == Chat!Init => ChatInv
BY ServicesAssumption
   DEF Chat!Init, ChatInv, Chat!TypeOK, Chat!ToldIsStored, Chat!WhatsAppAssumption, Chat!Free, Chat!Status

\* The statement that stores a report, with the message that tells of it.
LEMMA UpdateStatusKept == ASSUME ChatInv, NEW w \in Worker, Chat!UpdateStatus(w) PROVE ChatInv'
<1> DEFINE m == worker[w].message
           s == worker[w].event
<1>1. /\ worker[w] \in [step : {"update", "tell"}, message : Message, event : Chat!Event]
      /\ worker[w].step = "update"
  BY DEF ChatInv, Chat!TypeOK, Chat!UpdateStatus, Chat!Free
<1>2. m \in Message /\ s \in Chat!Status
  BY <1>1 DEF Chat!Event, Chat!Status
<1>3. /\ UNCHANGED <<chatRows, sending, chatScreen>>
      /\ chatStatus' = IF chatRows[m] > 0 THEN [chatStatus EXCEPT ![m] = s] ELSE chatStatus
      /\ taken' = IF chatRows[m] > 0 THEN [taken EXCEPT ![m] = @ \cup {s}] ELSE taken
      /\ early' = IF chatRows[m] > 0 THEN early ELSE early \cup {m}
      /\ worker' = [worker EXCEPT ![w].step = "tell"]
  BY DEF Chat!UpdateStatus
<1>4. worker'[w] = [step |-> "tell", message |-> m, event |-> s] /\ \A v \in Worker : v # w => worker'[v] = worker[v]
  BY <1>1, <1>3 DEF ChatInv, Chat!TypeOK
<1>5. \A n \in Message : taken[n] \subseteq taken'[n] /\ (n \in early => n \in early')
  BY <1>2, <1>3 DEF ChatInv, Chat!TypeOK
<1>6. s \in taken'[m] \/ m \in early'
  BY <1>2, <1>3 DEF ChatInv, Chat!TypeOK
<1>7. Chat!TypeOK'
  <2>1. worker' \in [Worker -> {Chat!Free} \cup [step : {"update", "tell"}, message : Message, event : Chat!Event]]
    BY <1>1, <1>3, <1>4 DEF ChatInv, Chat!TypeOK
  <2> QED
    BY <1>2, <1>3, <2>1 DEF ChatInv, Chat!TypeOK, Chat!Free, Chat!Event
<1>8. Chat!ToldIsStored'
  BY <1>3, <1>5 DEF ChatInv, Chat!TypeOK, Chat!ToldIsStored
<1>9. ASSUME NEW v \in Worker, worker'[v] # Chat!Free, worker'[v].step = "tell"
      PROVE  worker'[v].event \in taken'[worker'[v].message] \/ worker'[v].message \in early'
  <2>1. CASE v = w
    BY <1>4, <1>6, <2>1
  <2>2. CASE v # w
    <3>1. worker[v].message \in Message
      BY <1>4, <1>9, <2>2 DEF ChatInv, Chat!TypeOK
    <3> QED
      BY <1>4, <1>5, <1>9, <2>2, <3>1 DEF ChatInv
  <2> QED
    BY <2>1, <2>2
<1> QED
  BY <1>7, <1>8, <1>9 DEF ChatInv, Chat!Free

\* Messages and reports as they come.
LEMMA ReportsKept ==
  ASSUME ChatInv, NEW w \in Worker, NEW m \in Message, NEW s \in Chat!Event,
         Chat!TakeEvent(w, m, s) \/ Chat!FailUpdate(w) \/ Chat!TellStatus(w)
  PROVE  ChatInv'
<1>1. CASE Chat!TakeEvent(w, m, s)
  <2>1. Chat!TypeOK'
    BY <1>1 DEF Chat!TakeEvent, ChatInv, Chat!TypeOK, Chat!Free
  <2> QED
    BY <1>1, <2>1 DEF Chat!TakeEvent, ChatInv, Chat!TypeOK, Chat!ToldIsStored, Chat!Free
<1>2. CASE Chat!FailUpdate(w)
  BY <1>2 DEF Chat!FailUpdate, Chat!Caught, ChatInv, Chat!TypeOK, Chat!ToldIsStored, Chat!Free
<1>3. CASE Chat!TellStatus(w)
  <2>1. worker[w].message \in Message /\ worker[w].event \in Chat!Status /\ worker[w] # Chat!Free /\ worker[w].step = "tell"
    BY <1>3 DEF Chat!TellStatus, ChatInv, Chat!TypeOK, Chat!Free, Chat!Event, Chat!Status
  <2>2. Chat!TypeOK'
    BY <1>3, <2>1 DEF Chat!TellStatus, ChatInv, Chat!TypeOK
  <2>3. Chat!ToldIsStored'
    BY <1>3, <2>1 DEF Chat!TellStatus, ChatInv, Chat!TypeOK, Chat!ToldIsStored
  <2> QED
    BY <1>3, <2>2, <2>3 DEF Chat!TellStatus, ChatInv, Chat!TypeOK, Chat!Free
<1> QED
  BY <1>1, <1>2, <1>3

LEMMA MessagesKept ==
  ASSUME ChatInv, NEW m \in Message, Chat!Send(m) \/ Chat!StoreSent(m) \/ Chat!Receive(m)
  PROVE  ChatInv'
<1>1. MaxCopies \in Nat \ {0}
  BY ServicesAssumption DEF Chat!WhatsAppAssumption
<1>2. CASE Chat!Send(m)
  BY <1>2 DEF Chat!Send, ChatInv, Chat!TypeOK, Chat!ToldIsStored, Chat!Free
<1>3. ASSUME /\ UNCHANGED worker
             /\ \A n \in Message : taken[n] \subseteq taken'[n]
             /\ early' = early
             /\ Chat!TypeOK' /\ Chat!ToldIsStored'
      PROVE  ChatInv'
  BY <1>3 DEF ChatInv, Chat!TypeOK, Chat!Free
<1>4. CASE Chat!StoreSent(m)
  <2>1. Chat!TypeOK'
    BY <1>1, <1>4 DEF Chat!StoreSent, ChatInv, Chat!TypeOK, Chat!Status
  <2>2. Chat!ToldIsStored' /\ \A n \in Message : taken[n] \subseteq taken'[n]
    BY <1>4 DEF Chat!StoreSent, ChatInv, Chat!TypeOK, Chat!ToldIsStored
  <2> QED
    BY <1>3, <1>4, <2>1, <2>2 DEF Chat!StoreSent
<1>5. CASE Chat!Receive(m)
  <2>1. Chat!TypeOK'
    BY <1>1, <1>5 DEF Chat!Receive, ChatInv, Chat!TypeOK, Chat!Status
  <2>2. Chat!ToldIsStored' /\ \A n \in Message : taken[n] \subseteq taken'[n]
    BY <1>5 DEF Chat!Receive, ChatInv, Chat!TypeOK, Chat!ToldIsStored
  <2> QED
    BY <1>3, <1>5, <2>1, <2>2 DEF Chat!Receive
<1> QED
  BY <1>2, <1>4, <1>5

LEMMA ChatKept == ASSUME ChatInv, [Chat!Next]_chatVars PROVE ChatInv'
<1>1. CASE UNCHANGED chatVars
  BY <1>1 DEF ChatInv, chatVars, Chat!TypeOK, Chat!ToldIsStored
<1>2. CASE \E m \in Message : Chat!Send(m) \/ Chat!StoreSent(m) \/ Chat!Receive(m)
  BY <1>2, MessagesKept
<1>3. CASE \E w \in Worker, m \in Message, s \in Chat!Event : Chat!TakeEvent(w, m, s)
  BY <1>3, ReportsKept
<1>4. ASSUME NEW w \in Worker, Chat!UpdateStatus(w) \/ Chat!FailUpdate(w) \/ Chat!TellStatus(w) PROVE ChatInv'
  <2>1. CASE Chat!UpdateStatus(w)
    BY <2>1, UpdateStatusKept
  <2>2. CASE Chat!FailUpdate(w) \/ Chat!TellStatus(w)
    <3>1. worker[w].message \in Message /\ worker[w].event \in Chat!Event
      BY <2>2 DEF ChatInv, Chat!TypeOK, Chat!Free, Chat!FailUpdate, Chat!TellStatus
    <3> QED
      BY <2>2, <3>1, ReportsKept
  <2> QED
    BY <1>4, <2>1, <2>2
<1> QED
  BY <1>1, <1>2, <1>3, <1>4 DEF Chat!Next

-----------------------------------------------------------------------------
\* Notifications

\* What each notifier knows of the row it has stored: a row of an open
\* transaction is of one notifier alone, and nobody has been sent word of it.
RowsKnown ==
  /\ \A p \in Notifier : notifier[p].step # "idle" =>
       /\ notifier[p].open => notifier[p].note \in Note /\ notifyStatus[notifier[p].note] = "open"
       /\ notifier[p].step \in {"again", "commit"} => notifier[p].note \in Note
       /\ notifier[p].step = "commit" => notifier[p].open
       /\ ~notifier[p].open /\ notifier[p].note # 0 => notifyStatus[notifier[p].note] \in {"pending", "read"}
  /\ \A p, q \in Notifier :
       /\ notifier[p].step # "idle" /\ notifier[p].open /\ notifier[q].step # "idle" /\ notifier[q].open
       /\ notifier[p].note = notifier[q].note
       => p = q
  /\ \A t \in Tab : \A n \in owed[t] : notifyStatus[n] \in {"pending", "read"}

\* A tab that has not been told of a row has a message waiting on which it asks for the total, or
\* has been sent an error.
Asks(s) == \E i \in DOMAIN s : s[i].what # "read_update"

Reminded == \A t \in joined \ erred : Asks(inbox[t]) \/ owed[t] \cap Notify!Pending \subseteq counted[t]

Strangers == \A t \in Tab \ joined : owed[t] = {}

NotifyInv ==
  /\ Notify!TypeOK
  /\ RowsKnown
  /\ Reminded
  /\ Strangers

LEMMA NotifyAtFirst == Notify!Init => NotifyInv
BY ServicesAssumption
   DEF Notify!Init, NotifyInv, Notify!TypeOK, RowsKnown, Reminded, Strangers, Notify!NotificationsAssumption

\* A message more, or one less that does not ask.
LEMMA AsksMore ==
  ASSUME NEW s \in Seq(Notify!Wire), NEW m \in Notify!Wire
  PROVE  /\ Append(s, m) \in Seq(Notify!Wire) /\ Len(Append(s, m)) = Len(s) + 1
         /\ Asks(s) => Asks(Append(s, m))
         /\ m.what # "read_update" => Asks(Append(s, m))
<1>1. /\ Len(s) \in Nat /\ DOMAIN s = 1..Len(s) /\ DOMAIN Append(s, m) = 1..(Len(s) + 1)
      /\ Append(s, m)[Len(s) + 1] = m /\ \A i \in DOMAIN s : Append(s, m)[i] = s[i]
      /\ Append(s, m) \in Seq(Notify!Wire) /\ Len(Append(s, m)) = Len(s) + 1
  OBVIOUS
<1>2. \A i \in DOMAIN s : i \in DOMAIN Append(s, m)
  BY <1>1
<1>3. Len(s) + 1 \in DOMAIN Append(s, m)
  BY <1>1
<1> HIDE DEF Notify!Wire
<1> QED
  BY <1>1, <1>2, <1>3 DEF Asks

LEMMA AsksLess ==
  ASSUME NEW s \in Seq(Notify!Wire), s # <<>>
  PROVE  /\ Tail(s) \in Seq(Notify!Wire) /\ Len(Tail(s)) = Len(s) - 1 /\ Len(s) \in Nat
         /\ Asks(s) /\ Head(s).what = "read_update" => Asks(Tail(s))
         /\ Head(s) \in Notify!Wire
<1>1. /\ Len(s) \in Nat /\ Len(s) > 0 /\ DOMAIN s = 1..Len(s) /\ DOMAIN Tail(s) = 1..(Len(s) - 1)
      /\ Head(s) = s[1] /\ \A i \in 1..(Len(s) - 1) : Tail(s)[i] = s[i + 1]
      /\ Tail(s) \in Seq(Notify!Wire) /\ Len(Tail(s)) = Len(s) - 1
  OBVIOUS
<1>2. ASSUME NEW i \in DOMAIN s, i # 1 PROVE i - 1 \in DOMAIN Tail(s) /\ Tail(s)[i - 1] = s[i]
  BY <1>1, <1>2
<1>3. Head(s) \in Notify!Wire
  BY <1>1
<1> QED
  BY <1>1, <1>2, <1>3 DEF Asks

\* Messages to all tabs of the user.
LEMMA SentToGroup ==
  ASSUME Notify!TypeOK, NEW what \in {"get_unread", "get_notification", "read_update", "read_notify"},
         NEW n \in Note \cup {0}, Notify!GroupSend(what, n)
  PROVE  /\ inbox' \in [Tab -> Seq(Notify!Wire)] /\ (\A t \in Tab : Len(inbox'[t]) <= MaxInbox)
         /\ \A t \in joined : Asks(inbox[t]) \/ what # "read_update" => Asks(inbox'[t])
<1> DEFINE m == [what |-> what, note |-> n]
<1>1. m \in Notify!Wire /\ m.what = what
  BY DEF Notify!Wire
<1>2. /\ \A t \in joined : Len(inbox[t]) < MaxInbox
      /\ \A t \in Tab : inbox'[t] = IF t \in joined THEN Append(inbox[t], m) ELSE inbox[t]
  BY DEF Notify!GroupSend
<1>3. \A t \in Tab : inbox[t] \in Seq(Notify!Wire) /\ Len(inbox[t]) <= MaxInbox /\ Len(inbox[t]) \in Nat
  BY DEF Notify!TypeOK
<1>4. joined \subseteq Tab /\ MaxInbox \in Nat
  BY ServicesAssumption DEF Notify!TypeOK, Notify!NotificationsAssumption
<1> HIDE DEF m
<1>5. inbox' = [t \in Tab |-> inbox'[t]]
  BY DEF Notify!GroupSend
<1>6. ASSUME NEW t \in joined
      PROVE  /\ inbox'[t] \in Seq(Notify!Wire) /\ Len(inbox'[t]) <= MaxInbox
             /\ Asks(inbox[t]) \/ what # "read_update" => Asks(inbox'[t])
  <2>1. inbox'[t] = Append(inbox[t], m) /\ Len(inbox[t]) < MaxInbox /\ inbox[t] \in Seq(Notify!Wire)
        /\ Len(inbox[t]) \in Nat
    BY <1>2, <1>3, <1>4
  <2>2. /\ inbox'[t] \in Seq(Notify!Wire) /\ Len(inbox'[t]) = Len(inbox[t]) + 1
        /\ Asks(inbox[t]) \/ what # "read_update" => Asks(inbox'[t])
    BY <1>1, <2>1, AsksMore
  <2> QED
    BY <1>4, <2>1, <2>2
<1>7. \A t \in Tab : inbox'[t] \in Seq(Notify!Wire) /\ Len(inbox'[t]) <= MaxInbox
  BY <1>2, <1>3, <1>6
<1> QED
  BY <1>4, <1>5, <1>6, <1>7

\* A row is stored, or is not.
LEMMA StoreKept ==
  ASSUME NotifyInv, NEW p \in Notifier, NEW n \in Note, NEW open \in BOOLEAN, Notify!Store(p, n, open) PROVE NotifyInv'
<1>1. /\ notifier[p].step = "idle" /\ notifyStatus[n] = "none" /\ UNCHANGED <<inbox, joined, counted, erred, owed>>
      /\ notifier \in [Notifier -> [step : {"idle", "tell", "again", "commit"}, note : Note \cup {0}, open : BOOLEAN]]
      /\ notifyStatus \in [Note -> {"none", "open", "pending", "read"}]
  BY DEF Notify!Store, NotifyInv, Notify!TypeOK
<1>2. PICK x \in [step : {"idle", "tell", "again", "commit"}, note : Note \cup {0}, open : BOOLEAN] :
        /\ notifier' = [notifier EXCEPT ![p] = x] /\ x.step = "tell"
        /\ \/ /\ x.note = n /\ x.open = open
              /\ notifyStatus' = [notifyStatus EXCEPT ![n] = IF open THEN "open" ELSE "pending"]
           \/ x.note = 0 /\ x.open = FALSE /\ UNCHANGED notifyStatus
  <2> DEFINE stored == [step |-> "tell", note |-> n, open |-> open]
             failed == [step |-> "tell", note |-> 0, open |-> FALSE]
  <2>1. /\ stored \in [step : {"idle", "tell", "again", "commit"}, note : Note \cup {0}, open : BOOLEAN]
        /\ stored.step = "tell" /\ stored.note = n /\ stored.open = open
    OBVIOUS
  <2>2. /\ failed \in [step : {"idle", "tell", "again", "commit"}, note : Note \cup {0}, open : BOOLEAN]
        /\ failed.step = "tell" /\ failed.note = 0 /\ failed.open = FALSE
    OBVIOUS
  <2>3. \/ /\ notifier' = [notifier EXCEPT ![p] = stored]
           /\ notifyStatus' = [notifyStatus EXCEPT ![n] = IF open THEN "open" ELSE "pending"]
        \/ notifier' = [notifier EXCEPT ![p] = failed] /\ UNCHANGED notifyStatus
    BY DEF Notify!Store
  <2> HIDE DEF stored, failed
  <2> QED
    BY <2>1, <2>2, <2>3
<1>3. \A q \in Notifier : notifier'[q] = IF q = p THEN x ELSE notifier[q]
  BY <1>1, <1>2
<1>4. \A m \in Note : m # n => notifyStatus'[m] = notifyStatus[m]
  BY <1>1, <1>2
<1>5. Notify!TypeOK'
  <2>1. notifyStatus' \in [Note -> {"none", "open", "pending", "read"}]
    BY <1>1, <1>2
  <2>2. notifier' \in [Notifier -> [step : {"idle", "tell", "again", "commit"}, note : Note \cup {0}, open : BOOLEAN]]
    BY <1>1, <1>2
  <2> QED
    BY <1>1, <2>1, <2>2 DEF NotifyInv, Notify!TypeOK
<1>6. RowsKnown'
  <2>1. 0 \notin Note
    BY ServicesAssumption DEF Notify!NotificationsAssumption
  <2>2. ASSUME NEW q \in Notifier, notifier'[q].step # "idle"
        PROVE  /\ notifier'[q].open => notifier'[q].note \in Note /\ notifyStatus'[notifier'[q].note] = "open"
               /\ notifier'[q].step \in {"again", "commit"} => notifier'[q].note \in Note
               /\ notifier'[q].step = "commit" => notifier'[q].open
               /\ ~notifier'[q].open /\ notifier'[q].note # 0 => notifyStatus'[notifier'[q].note] \in {"pending", "read"}
    <3>1. CASE q = p
      BY <1>1, <1>2, <1>3, <3>1
    <3>2. CASE q # p
      <4>1. notifier'[q] = notifier[q] /\ notifier[q].note \in Note \cup {0} /\ notifier[q].open \in BOOLEAN
        BY <1>1, <1>3, <3>2
      <4>2. notifier[q].note # n
        BY <1>1, <2>1, <2>2, <4>1 DEF NotifyInv, RowsKnown
      <4> QED
        BY <1>4, <2>2, <4>1, <4>2 DEF NotifyInv, RowsKnown
    <3> QED
      BY <3>1, <3>2
  <2>3. ASSUME NEW q \in Notifier, q # p, notifier[q].step # "idle", notifier[q].open PROVE notifier[q].note # n
    BY <1>1, <2>3 DEF NotifyInv, RowsKnown
  <2>4. ASSUME NEW q \in Notifier, NEW r \in Notifier, notifier'[q].step # "idle", notifier'[q].open,
               notifier'[r].step # "idle", notifier'[r].open, notifier'[q].note = notifier'[r].note
        PROVE  q = r
    BY <1>2, <1>3, <2>3, <2>4 DEF NotifyInv, RowsKnown
  <2>5. \A t \in Tab : \A m \in owed'[t] : notifyStatus'[m] \in {"pending", "read"}
    BY <1>1, <1>4 DEF NotifyInv, RowsKnown, Notify!TypeOK
  <2> QED
    BY <2>2, <2>4, <2>5 DEF RowsKnown
<1>7. Reminded'
  <2>1. ASSUME NEW t \in Tab PROVE owed'[t] \cap Notify!Pending' = owed[t] \cap Notify!Pending
    BY <1>1, <1>4 DEF NotifyInv, RowsKnown, Notify!Pending, Notify!TypeOK
  <2> QED
    BY <1>1, <2>1 DEF NotifyInv, Reminded, Notify!TypeOK
<1> QED
  BY <1>1, <1>5, <1>6, <1>7 DEF NotifyInv, Strangers

\* The tabs are told to look, and then at which row.
LEMMA TellKept == ASSUME NotifyInv, NEW p \in Notifier, Notify!Tell(p) PROVE NotifyInv'
<1> DEFINE n == notifier[p].note
<1>1. /\ notifier[p].step = "tell" /\ Notify!GroupSend("get_unread", 0) /\ UNCHANGED <<notifyStatus, joined, counted, erred>>
      /\ owed' = [t \in Tab |-> IF t \in joined /\ n # 0 /\ ~notifier[p].open THEN owed[t] \cup {n} ELSE owed[t]]
      /\ notifier' = [notifier EXCEPT ![p].step = IF n # 0 THEN "again" ELSE "idle"]
  BY DEF Notify!Tell
<1>2. /\ notifier \in [Notifier -> [step : {"idle", "tell", "again", "commit"}, note : Note \cup {0}, open : BOOLEAN]]
      /\ joined \subseteq Tab /\ inbox' = [t \in Tab |-> inbox'[t]]
  BY <1>1 DEF NotifyInv, Notify!TypeOK, Notify!GroupSend
<1>3. /\ inbox' \in [Tab -> Seq(Notify!Wire)] /\ (\A t \in Tab : Len(inbox'[t]) <= MaxInbox)
      /\ \A t \in joined : Asks(inbox'[t])
  BY <1>1, SentToGroup DEF NotifyInv
<1>4. \A q \in Notifier : /\ notifier'[q].note = notifier[q].note /\ notifier'[q].open = notifier[q].open
                          /\ notifier'[q].step = IF q = p THEN (IF n # 0 THEN "again" ELSE "idle") ELSE notifier[q].step
  BY <1>1, <1>2
<1>5. ~notifier[p].open /\ n # 0 => n \in Note /\ notifyStatus[n] \in {"pending", "read"}
  BY <1>1, <1>2 DEF NotifyInv, RowsKnown
<1>6. Notify!TypeOK'
  <2>1. notifier' \in [Notifier -> [step : {"idle", "tell", "again", "commit"}, note : Note \cup {0}, open : BOOLEAN]]
    BY <1>1, <1>2
  <2>2. owed' \in [Tab -> SUBSET Note]
    BY <1>1, <1>5 DEF NotifyInv, Notify!TypeOK
  <2> QED
    BY <1>1, <1>3, <2>1, <2>2 DEF NotifyInv, Notify!TypeOK
<1>7. RowsKnown'
  <2>1. n \in Note \cup {0}
    BY <1>2
  <2>2. ASSUME NEW q \in Notifier, notifier'[q].step # "idle"
        PROVE  notifier[q].step # "idle" /\ (q = p => n \in Note)
    BY <1>1, <1>4, <2>1, <2>2
  <2>3. \A t \in Tab : \A m \in owed'[t] : notifyStatus'[m] \in {"pending", "read"}
    BY <1>1, <1>5 DEF NotifyInv, RowsKnown
  <2>4. ASSUME NEW q \in Notifier, notifier'[q].step # "idle"
        PROVE  /\ notifier'[q].open => notifier'[q].note \in Note /\ notifyStatus'[notifier'[q].note] = "open"
               /\ notifier'[q].step \in {"again", "commit"} => notifier'[q].note \in Note
               /\ notifier'[q].step = "commit" => notifier'[q].open
               /\ ~notifier'[q].open /\ notifier'[q].note # 0 => notifyStatus'[notifier'[q].note] \in {"pending", "read"}
    BY <1>1, <1>4, <2>2, <2>4 DEF NotifyInv, RowsKnown
  <2>5. ASSUME NEW q \in Notifier, NEW r \in Notifier, notifier'[q].step # "idle", notifier'[q].open,
               notifier'[r].step # "idle", notifier'[r].open, notifier'[q].note = notifier'[r].note
        PROVE  q = r
    BY <1>4, <2>2, <2>5 DEF NotifyInv, RowsKnown
  <2> QED
    BY <2>3, <2>4, <2>5 DEF RowsKnown
<1>8. Reminded'
  BY <1>1, <1>3 DEF Reminded
<1> QED
  BY <1>1, <1>6, <1>7, <1>8 DEF NotifyInv, Strangers

\* A step of a notifier that leaves the rows and what was owed as they are.
LEMMA NotifierMoves ==
  ASSUME NotifyInv, NEW p \in Notifier, NEW step \in {"idle", "commit"},
         notifier' = [notifier EXCEPT ![p].step = step], UNCHANGED <<notifyStatus, joined, counted, erred, owed>>,
         notifier[p].step # "idle", step = "commit" => notifier[p].open,
         inbox' \in [Tab -> Seq(Notify!Wire)] /\ (\A t \in Tab : Len(inbox'[t]) <= MaxInbox),
         \A t \in joined : Asks(inbox[t]) => Asks(inbox'[t])
  PROVE  NotifyInv'
<1>1. notifier \in [Notifier -> [step : {"idle", "tell", "again", "commit"}, note : Note \cup {0}, open : BOOLEAN]]
  BY DEF NotifyInv, Notify!TypeOK
<1>2. \A q \in Notifier : /\ notifier'[q].note = notifier[q].note /\ notifier'[q].open = notifier[q].open
                          /\ notifier'[q].step = IF q = p THEN step ELSE notifier[q].step
  BY <1>1
<1>3. Notify!TypeOK'
  <2>1. notifier' \in [Notifier -> [step : {"idle", "tell", "again", "commit"}, note : Note \cup {0}, open : BOOLEAN]]
    BY <1>1
  <2> QED
    BY <2>1 DEF NotifyInv, Notify!TypeOK
<1>4. RowsKnown'
  <2>1. ASSUME NEW q \in Notifier, notifier'[q].step # "idle"
        PROVE  /\ notifier'[q].open => notifier'[q].note \in Note /\ notifyStatus'[notifier'[q].note] = "open"
               /\ notifier'[q].step \in {"again", "commit"} => notifier'[q].note \in Note
               /\ notifier'[q].step = "commit" => notifier'[q].open
               /\ ~notifier'[q].open /\ notifier'[q].note # 0 => notifyStatus'[notifier'[q].note] \in {"pending", "read"}
    BY <1>2, <2>1 DEF NotifyInv, RowsKnown
  <2>2. ASSUME NEW q \in Notifier, NEW r \in Notifier, notifier'[q].step # "idle", notifier'[q].open,
               notifier'[r].step # "idle", notifier'[r].open, notifier'[q].note = notifier'[r].note
        PROVE  q = r
    BY <1>2, <2>2 DEF NotifyInv, RowsKnown
  <2> QED
    BY <2>1, <2>2 DEF NotifyInv, RowsKnown
<1>5. Reminded'
  BY DEF NotifyInv, Reminded, Notify!Pending
<1> QED
  BY <1>3, <1>4, <1>5 DEF NotifyInv, Strangers

LEMMA TellWhichKept == ASSUME NotifyInv, NEW p \in Notifier, Notify!TellWhich(p) PROVE NotifyInv'
<1>1. /\ notifier[p].step = "again" /\ notifier[p].note \in Note \cup {0}
      /\ joined \subseteq Tab
  BY DEF NotifyInv, Notify!TypeOK, Notify!TellWhich, Notify!GroupSend
<1>2. /\ inbox' \in [Tab -> Seq(Notify!Wire)] /\ (\A t \in Tab : Len(inbox'[t]) <= MaxInbox)
      /\ \A t \in joined : Asks(inbox'[t])
  BY <1>1, SentToGroup DEF NotifyInv, Notify!TellWhich
<1> QED
  BY <1>1, <1>2, NotifierMoves DEF Notify!TellWhich

LEMMA GiveUpKept == ASSUME NotifyInv, NEW p \in Notifier, Notify!GiveUp(p) PROVE NotifyInv'
<1>1. /\ inbox \in [Tab -> Seq(Notify!Wire)] /\ (\A t \in Tab : Len(inbox[t]) <= MaxInbox)
      /\ UNCHANGED inbox
  BY DEF NotifyInv, Notify!TypeOK, Notify!GiveUp
<1> QED
  BY <1>1, NotifierMoves DEF Notify!GiveUp

\* The transaction ends: the row counts from now on, or never.
LEMMA EndTransactionKept == ASSUME NotifyInv, NEW p \in Notifier, Notify!EndTransaction(p) PROVE NotifyInv'
<1> DEFINE n == notifier[p].note
<1>1. /\ notifier[p].step = "commit" /\ UNCHANGED <<inbox, joined, counted, erred, owed>>
      /\ notifier' = [notifier EXCEPT ![p].step = "idle"]
      /\ notifier[p].open /\ n \in Note /\ notifyStatus[n] = "open"
  BY DEF Notify!EndTransaction, NotifyInv, RowsKnown
<1>2. PICK s \in {"pending", "read"} : notifyStatus' = [notifyStatus EXCEPT ![n] = s]
  BY DEF Notify!EndTransaction
<1>3. /\ notifier \in [Notifier -> [step : {"idle", "tell", "again", "commit"}, note : Note \cup {0}, open : BOOLEAN]]
      /\ notifyStatus \in [Note -> {"none", "open", "pending", "read"}]
  BY DEF NotifyInv, Notify!TypeOK
<1>4. \A q \in Notifier : /\ notifier'[q].note = notifier[q].note /\ notifier'[q].open = notifier[q].open
                          /\ notifier'[q].step = IF q = p THEN "idle" ELSE notifier[q].step
  BY <1>1, <1>3
<1>5. \A m \in Note : m # n => notifyStatus'[m] = notifyStatus[m]
  BY <1>2, <1>3
<1>6. Notify!TypeOK'
  <2>1. notifier' \in [Notifier -> [step : {"idle", "tell", "again", "commit"}, note : Note \cup {0}, open : BOOLEAN]]
    BY <1>1, <1>3
  <2>2. notifyStatus' \in [Note -> {"none", "open", "pending", "read"}]
    BY <1>2, <1>3
  <2> QED
    BY <1>1, <2>1, <2>2 DEF NotifyInv, Notify!TypeOK
<1>7. RowsKnown'
  <2>1. ASSUME NEW q \in Notifier, notifier'[q].step # "idle"
        PROVE  /\ notifier'[q].open => notifier'[q].note \in Note /\ notifyStatus'[notifier'[q].note] = "open"
               /\ notifier'[q].step \in {"again", "commit"} => notifier'[q].note \in Note
               /\ notifier'[q].step = "commit" => notifier'[q].open
               /\ ~notifier'[q].open /\ notifier'[q].note # 0 => notifyStatus'[notifier'[q].note] \in {"pending", "read"}
    <3>1. q # p /\ notifier[q].step # "idle"
      BY <1>4, <2>1
    <3>2. notifier[q].note \in Note \cup {0}
      BY <1>3
    <3>3. notifier[q].open => notifier[q].note # n
      BY <1>1, <3>1 DEF NotifyInv, RowsKnown
    <3>4. ~notifier[q].open /\ notifier[q].note # 0 =>
            notifier[q].note \in Note /\ notifyStatus[notifier[q].note] \in {"pending", "read"}
      BY <1>1, <3>1, <3>2 DEF NotifyInv, RowsKnown
    <3> QED
      BY <1>1, <1>4, <1>5, <3>1, <3>2, <3>3, <3>4 DEF NotifyInv, RowsKnown
  <2>2. ASSUME NEW q \in Notifier, NEW r \in Notifier, notifier'[q].step # "idle", notifier'[q].open,
               notifier'[r].step # "idle", notifier'[r].open, notifier'[q].note = notifier'[r].note
        PROVE  q = r
    BY <1>4, <2>2 DEF NotifyInv, RowsKnown
  <2>3. \A t \in Tab : \A m \in owed'[t] : notifyStatus'[m] \in {"pending", "read"}
    BY <1>1, <1>5 DEF NotifyInv, RowsKnown, Notify!TypeOK
  <2> QED
    BY <2>1, <2>2, <2>3 DEF RowsKnown
<1>8. Reminded'
  <2>1. ASSUME NEW t \in Tab PROVE owed'[t] \cap Notify!Pending' = owed[t] \cap Notify!Pending
    <3>1. n \notin owed[t]
      BY <1>1 DEF NotifyInv, RowsKnown
    <3> QED
      BY <1>1, <1>5, <3>1 DEF NotifyInv, Notify!Pending, Notify!TypeOK
  <2> QED
    BY <1>1, <2>1 DEF NotifyInv, Reminded, Notify!TypeOK
<1> QED
  BY <1>1, <1>6, <1>7, <1>8 DEF NotifyInv, Strangers

\* Tabs come and go, and ask.
LEMMA TabsKept ==
  ASSUME NotifyInv, NEW t \in Tab,
         \/ Notify!Join(t) \/ Notify!Disconnect(t)
         \/ \E what \in {"get_unread", "read_update"} : Notify!ClientAsks(t, what, 0)
         \/ \E n \in Note : Notify!ClientAsks(t, "read_notify", n)
  PROVE  NotifyInv'
<1>1. CASE Notify!Join(t)
  <2>1. Notify!TypeOK' /\ RowsKnown'
    BY <1>1 DEF Notify!Join, NotifyInv, Notify!TypeOK, RowsKnown
  <2>2. Reminded' /\ Strangers'
    BY <1>1 DEF Notify!Join, NotifyInv, Reminded, Strangers, Notify!Pending, Notify!TypeOK
  <2> QED
    BY <2>1, <2>2 DEF NotifyInv
<1>2. CASE Notify!Disconnect(t)
  <2>1. /\ erred' = erred \ {t}
        /\ \A u \in Tab : owed'[u] = IF u = t THEN {} ELSE owed[u]
        /\ \A u \in Tab : counted'[u] = IF u = t THEN {} ELSE counted[u]
        /\ joined' = joined \ {t} /\ UNCHANGED <<notifyStatus, notifier>>
    BY <1>2 DEF Notify!Disconnect, NotifyInv, Notify!TypeOK
  <2>2. \A u \in joined' : inbox'[u] = inbox[u]
    BY <1>2 DEF Notify!Disconnect, NotifyInv, Notify!TypeOK
  <2>3. inbox' \in [Tab -> Seq(Notify!Wire)] /\ (\A u \in Tab : Len(inbox'[u]) <= MaxInbox)
    <3>1. <<>> \in Seq(Notify!Wire) /\ Len(<<>>) = 0 /\ MaxInbox \in Nat
      BY ServicesAssumption DEF Notify!NotificationsAssumption
    <3>2. inbox \in [Tab -> Seq(Notify!Wire)] /\ inbox' = [inbox EXCEPT ![t] = <<>>]
      BY <1>2 DEF Notify!Disconnect, NotifyInv, Notify!TypeOK
    <3>3. inbox' \in [Tab -> Seq(Notify!Wire)] /\ \A u \in Tab : inbox'[u] = <<>> \/ inbox'[u] = inbox[u]
      BY <3>1, <3>2
    <3> QED
      BY <3>1, <3>3 DEF NotifyInv, Notify!TypeOK
  <2>4. Notify!TypeOK'
    <3>1. owed' \in [Tab -> SUBSET Note] /\ counted' \in [Tab -> SUBSET Note]
      BY <1>2 DEF Notify!Disconnect, NotifyInv, Notify!TypeOK
    <3> QED
      BY <2>1, <2>3, <3>1 DEF NotifyInv, Notify!TypeOK
  <2>5. RowsKnown'
    BY <2>1 DEF NotifyInv, RowsKnown
  <2>6. Reminded' /\ Strangers'
    BY <2>1, <2>2 DEF NotifyInv, Reminded, Strangers, Notify!Pending, Notify!TypeOK
  <2> QED
    BY <2>4, <2>5, <2>6 DEF NotifyInv
<1>3. ASSUME NEW what \in {"get_unread", "read_update", "read_notify"}, NEW n \in Note \cup {0}, Notify!ClientAsks(t, what, n)
      PROVE  NotifyInv'
  <2>1. /\ inbox' \in [Tab -> Seq(Notify!Wire)] /\ (\A u \in Tab : Len(inbox'[u]) <= MaxInbox)
        /\ \A u \in joined : Asks(inbox[u]) => Asks(inbox'[u])
    BY <1>3, SentToGroup DEF NotifyInv, Notify!ClientAsks
  <2>2. UNCHANGED <<notifyStatus, notifier, joined, counted, erred, owed>>
    BY <1>3 DEF Notify!ClientAsks
  <2>3. Notify!TypeOK' /\ RowsKnown' /\ Strangers'
    BY <2>1, <2>2 DEF NotifyInv, Notify!TypeOK, RowsKnown, Strangers
  <2>4. Reminded'
    BY <2>1, <2>2 DEF NotifyInv, Reminded, Notify!Pending
  <2> QED
    BY <2>3, <2>4 DEF NotifyInv
<1> QED
  BY <1>1, <1>2, <1>3

\* A tab takes its next message.
LEMMA HandleKept == ASSUME NotifyInv, NEW t \in Tab, Notify!Handle(t) PROVE NotifyInv'
<1> DEFINE s == inbox[t]
<1>1. /\ s \in Seq(Notify!Wire) /\ s # <<>> /\ UNCHANGED <<notifier, joined, owed>>
      /\ Len(s) <= MaxInbox
  BY DEF NotifyInv, Notify!TypeOK, Notify!Handle
<1>2. /\ Tail(s) \in Seq(Notify!Wire) /\ Len(Tail(s)) = Len(s) - 1 /\ Len(s) \in Nat /\ MaxInbox \in Nat
      /\ Asks(s) /\ Head(s).what = "read_update" => Asks(Tail(s))
      /\ Head(s) \in Notify!Wire /\ Len(Tail(s)) <= MaxInbox
  BY <1>1, AsksLess, ServicesAssumption DEF Notify!NotificationsAssumption
<1>3. ASSUME NEW s1 \in Seq(Notify!Wire), Len(s1) <= MaxInbox, inbox' = [inbox EXCEPT ![t] = s1]
      PROVE  /\ inbox' \in [Tab -> Seq(Notify!Wire)] /\ (\A u \in Tab : Len(inbox'[u]) <= MaxInbox)
             /\ \A u \in Tab : u # t => inbox'[u] = inbox[u]
             /\ inbox'[t] = s1
  BY <1>1, <1>3 DEF NotifyInv, Notify!TypeOK
<1>4. CASE Notify!TellTotals(t)
  <2>1. /\ \A u \in Tab : counted'[u] = IF u = t THEN Notify!Pending ELSE counted[u]
        /\ erred' = erred \ {t} /\ UNCHANGED notifyStatus /\ Notify!Pending' = Notify!Pending
        /\ inbox' = [inbox EXCEPT ![t] = Tail(s)]
        /\ counted' \in [Tab -> SUBSET Note]
    BY <1>4 DEF Notify!TellTotals, NotifyInv, Notify!TypeOK, Notify!Total, Notify!Pending
  <2>2. /\ inbox' \in [Tab -> Seq(Notify!Wire)] /\ (\A u \in Tab : Len(inbox'[u]) <= MaxInbox)
        /\ \A u \in Tab : u # t => inbox'[u] = inbox[u]
    BY <1>1, <1>2, <1>3, <2>1
  <2>3. Notify!TypeOK' /\ RowsKnown' /\ Strangers'
    BY <1>1, <2>1, <2>2 DEF NotifyInv, Notify!TypeOK, RowsKnown, Strangers
  <2>4. Reminded'
    BY <1>1, <2>1, <2>2 DEF NotifyInv, Reminded, Notify!TypeOK
  <2> QED
    BY <2>3, <2>4 DEF NotifyInv
<1>5. ASSUME /\ \A n \in Note : notifyStatus'[n] = notifyStatus[n] \/ (notifyStatus[n] = "pending" /\ notifyStatus'[n] = "read")
             /\ notifyStatus' \in [Note -> {"none", "open", "pending", "read"}]
             /\ UNCHANGED <<counted, erred>>
             /\ inbox' \in [Tab -> Seq(Notify!Wire)] /\ (\A u \in Tab : Len(inbox'[u]) <= MaxInbox)
             /\ \A u \in Tab : u # t => inbox'[u] = inbox[u]
             /\ Asks(inbox'[t]) \/ owed[t] \cap Notify!Pending' \subseteq counted[t] \/ t \notin joined \/ t \in erred
      PROVE  NotifyInv'
  <2>1. Notify!TypeOK' /\ Strangers'
    BY <1>1, <1>5 DEF NotifyInv, Notify!TypeOK, Strangers
  <2>2. RowsKnown'
    <3>1. \A n \in Note : notifyStatus[n] = "open" => notifyStatus'[n] = "open"
      BY <1>5
    <3>2. \A n \in Note : notifyStatus[n] \in {"pending", "read"} => notifyStatus'[n] \in {"pending", "read"}
      BY <1>5
    <3>3. \A q \in Notifier : notifier[q].note \in Note \cup {0}
      BY DEF NotifyInv, Notify!TypeOK
    <3> QED
      BY <1>1, <3>1, <3>2, <3>3 DEF NotifyInv, RowsKnown, Notify!TypeOK
  <2>3. Reminded'
    <3>1. Notify!Pending' \subseteq Notify!Pending
      BY <1>5 DEF Notify!Pending
    <3> QED
      BY <1>1, <1>5, <3>1 DEF NotifyInv, Reminded, Notify!TypeOK
  <2> QED
    BY <2>1, <2>2, <2>3 DEF NotifyInv
<1>6. CASE Notify!MarkAll(t)
  <2>1. /\ \/ notifyStatus' = [n \in Note |-> IF n \in Notify!Pending THEN "read" ELSE notifyStatus[n]]
           \/ notifyStatus' = notifyStatus
        /\ inbox' = [inbox EXCEPT ![t] = Tail(s)] /\ UNCHANGED <<counted, erred>> /\ Head(s).what = "read_update"
    BY <1>6 DEF Notify!MarkAll
  <2>2. /\ inbox' \in [Tab -> Seq(Notify!Wire)] /\ (\A u \in Tab : Len(inbox'[u]) <= MaxInbox)
        /\ \A u \in Tab : u # t => inbox'[u] = inbox[u]
        /\ inbox'[t] = Tail(s)
    BY <1>1, <1>2, <1>3, <2>1
  <2>3. /\ \A n \in Note : notifyStatus'[n] = notifyStatus[n] \/ (notifyStatus[n] = "pending" /\ notifyStatus'[n] = "read")
        /\ notifyStatus' \in [Note -> {"none", "open", "pending", "read"}]
        /\ Notify!Pending' \subseteq Notify!Pending
    BY <2>1 DEF NotifyInv, Notify!TypeOK, Notify!Pending
  <2>4. Asks(inbox'[t]) \/ owed[t] \cap Notify!Pending' \subseteq counted[t] \/ t \notin joined \/ t \in erred
    BY <1>2, <2>1, <2>2, <2>3 DEF NotifyInv, Reminded
  <2> QED
    BY <1>5, <2>1, <2>2, <2>3, <2>4
<1>8. CASE Notify!SendError(t)
  <2>1. /\ counted' = [counted EXCEPT ![t] = {}] /\ erred' = erred \cup {t} /\ UNCHANGED notifyStatus
        /\ inbox' = [inbox EXCEPT ![t] = Tail(s)]
    BY <1>8 DEF Notify!SendError
  <2>2. /\ inbox' \in [Tab -> Seq(Notify!Wire)] /\ (\A u \in Tab : Len(inbox'[u]) <= MaxInbox)
        /\ \A u \in Tab : u # t => inbox'[u] = inbox[u]
    BY <1>1, <1>2, <1>3, <2>1
  <2>3. counted' \in [Tab -> SUBSET Note] /\ \A u \in Tab : counted'[u] = IF u = t THEN {} ELSE counted[u]
    BY <2>1 DEF NotifyInv, Notify!TypeOK
  <2>4. Notify!TypeOK' /\ RowsKnown' /\ Strangers'
    BY <1>1, <2>1, <2>2, <2>3 DEF NotifyInv, Notify!TypeOK, RowsKnown, Strangers
  <2>5. Reminded'
    BY <1>1, <2>1, <2>2, <2>3 DEF NotifyInv, Reminded, Notify!Pending, Notify!TypeOK
  <2> QED
    BY <2>4, <2>5 DEF NotifyInv
<1>7. CASE Notify!MarkOne(t)
  <2> DEFINE m == [what |-> "get_unread", note |-> 0]
             s1 == <<m>> \o Tail(s)
  <2>1. /\ notifyStatus' = [n \in Note |-> IF n = Head(s).note /\ n \in Notify!Pending THEN "read" ELSE notifyStatus[n]]
        /\ inbox' = [inbox EXCEPT ![t] = s1] /\ UNCHANGED <<counted, erred>>
    BY <1>7 DEF Notify!MarkOne
  <2>2. m \in Notify!Wire /\ m.what # "read_update"
    BY DEF Notify!Wire
  <2> HIDE DEF m
  <2>3. s1 \in Seq(Notify!Wire) /\ Len(s1) = Len(s) /\ 1 \in DOMAIN s1 /\ s1[1] = m
    BY <1>2, <2>2
  <2>4. Asks(s1)
    BY <2>2, <2>3 DEF Asks
  <2> HIDE DEF s1
  <2>5. /\ inbox' \in [Tab -> Seq(Notify!Wire)] /\ (\A u \in Tab : Len(inbox'[u]) <= MaxInbox)
        /\ \A u \in Tab : u # t => inbox'[u] = inbox[u]
        /\ inbox'[t] = s1
    BY <1>1, <1>3, <2>1, <2>3
  <2>6. /\ \A n \in Note : notifyStatus'[n] = notifyStatus[n] \/ (notifyStatus[n] = "pending" /\ notifyStatus'[n] = "read")
        /\ notifyStatus' \in [Note -> {"none", "open", "pending", "read"}]
    BY <2>1 DEF NotifyInv, Notify!TypeOK, Notify!Pending
  <2> QED
    BY <1>5, <2>1, <2>2, <2>4, <2>5, <2>6
<1> QED
  BY <1>4, <1>6, <1>7, <1>8 DEF Notify!Handle

LEMMA NotifyKept == ASSUME NotifyInv, [Notify!Next]_notifyVars PROVE NotifyInv'
<1>1. CASE UNCHANGED notifyVars
  BY <1>1 DEF NotifyInv, notifyVars, Notify!TypeOK, RowsKnown, Reminded, Strangers, Notify!Pending
<1>2. ASSUME NEW p \in Notifier,
             \/ \E n \in Note, open \in BOOLEAN : Notify!Store(p, n, open)
             \/ Notify!Tell(p) \/ Notify!TellWhich(p) \/ Notify!EndTransaction(p) \/ Notify!GiveUp(p)
      PROVE  NotifyInv'
  BY <1>2, StoreKept, TellKept, TellWhichKept, EndTransactionKept, GiveUpKept
<1>3. ASSUME NEW t \in Tab,
             \/ Notify!Join(t) \/ Notify!Disconnect(t) \/ Notify!Handle(t)
             \/ \E what \in {"get_unread", "read_update"} : Notify!ClientAsks(t, what, 0)
             \/ \E n \in Note : Notify!ClientAsks(t, "read_notify", n)
      PROVE  NotifyInv'
  BY <1>3, TabsKept, HandleKept
<1> QED
  BY <1>1, <1>2, <1>3 DEF Notify!Next

-----------------------------------------------------------------------------
\* The tasks of mail, and the messages of the services

LEMMA TasksAtFirst == Tasks!Init => Tasks!TypeOK
BY ServicesAssumption DEF Tasks!Init, Tasks!TypeOK, Tasks!TasksAssumption

LEMMA TasksKept == ASSUME Tasks!TypeOK, [Tasks!Next]_tasksVars PROVE Tasks!TypeOK'
<1>1. CASE UNCHANGED tasksVars
  BY <1>1 DEF tasksVars, Tasks!TypeOK
<1>2. ASSUME NEW c \in Campaign, Tasks!BecomeDue(c) \/ Tasks!SkipCampaign(c) \/ Tasks!SendCampaign(c) PROVE Tasks!TypeOK'
  BY <1>2 DEF Tasks!BecomeDue, Tasks!SkipCampaign, Tasks!SendCampaign, Tasks!TypeOK
<1>3. CASE Tasks!StartCampaigns \/ Tasks!EndCampaigns
  BY <1>3 DEF Tasks!StartCampaigns, Tasks!EndCampaigns, Tasks!TypeOK
<1>4. CASE Tasks!StartSweep \/ Tasks!RemindPage \/ \E n \in 0..MaxUsers : Tasks!UsersChange(n)
  BY <1>4, ServicesAssumption
     DEF Tasks!StartSweep, Tasks!RemindPage, Tasks!NextPage, Tasks!UsersChange, Tasks!TypeOK, Tasks!TasksAssumption
<1> QED
  BY <1>1, <1>2, <1>3, <1>4 DEF Tasks!Next

MessagesInv ==
  /\ service = "notify" => NotifyInv
  /\ service = "leads" => LeadsInv
  /\ service = "chat" => ChatInv
  /\ service = "tasks" => Tasks!TypeOK

\* A tab that has handled its messages was last told a total that counts every unread notification
\* it was sent word of, or was sent an error since; the raw event of a Facebook lead is stored if and only if the lead is; a
\* client is told no status of a message that its rows never had, reports that overtook the row aside.
THEOREM MessagesTheorem == Spec => []MessagesHold
<1>1. Init => MessagesInv
  BY OneServiceAtFirst, NotifyAtFirst, LeadsAtFirst, ChatAtFirst, TasksAtFirst DEF MessagesInv
<1>2. MessagesInv /\ [Next]_vars => MessagesInv'
  BY OneService, NotifyKept, LeadsKept, ChatKept, TasksKept DEF MessagesInv
<1>3. MessagesInv => MessagesHold
  <2>1. NotifyInv => Notify!NoneOverlooked
    BY DEF NotifyInv, Reminded, Notify!NoneOverlooked, Asks
  <2> QED
    BY <2>1 DEF MessagesInv, MessagesHold, NotifyInv, LeadsInv, ChatInv
<1> QED
  BY <1>1, <1>2, <1>3, PTL DEF Spec

-----------------------------------------------------------------------------
\* Mail

\* Of a call: how far its mails, its responses and its records have come.
Addressed(k) == IF k.how = "other" THEN {} ELSE k.asked

Accounted(k) ==
  /\ k.number = Mail!Cardinality(k.mailed) /\ k.mailed = Addressed(k)
  /\ k.recorded \cup k.refused = k.mailed /\ k.how # "outlook"

Progress(k) ==
  /\ k.step = "send" => /\ k.how \in {"gmail", "outlook"} /\ k.mailed = k.responses /\ k.responses \subseteq k.asked
                         /\ k.recorded = {} /\ k.refused = {}
  /\ k.step \in {"lookup", "create", "version", "save", "post"} =>
       /\ k.how = "bulk" /\ k.content \in Content
       /\ k.mailed = {} /\ k.responses = {} /\ k.recorded = {} /\ k.refused = {}
  /\ k.step = "record" =>
       k.responses = Addressed(k) /\ k.mailed = Addressed(k) /\ k.recorded \cup k.refused \subseteq Addressed(k)
  /\ k.step # "idle" => k.number = -1
  /\ k.number # -1 => Accounted(k)

\* Of a call: what the template it has made or found hosts.
Names(k) ==
  /\ k.step = "version" => k.sid \in DOMAIN hosted /\ hosted[k.sid] = None
  /\ k.step = "save" => k.sid \in DOMAIN hosted /\ hosted[k.sid] = k.content
  /\ k.step = "post" =>
       k.sid \in DOMAIN hosted /\ hosted[k.sid] \in Content /\ Hash[hosted[k.sid]] = Hash[k.content]

\* Two calls never write the version of one template.
Apart ==
  \A c, d \in MailCall : call[c].step = "version" /\ call[d].step = "version" /\ call[c].sid = call[d].sid => c = d

StampsHost ==
  \A t \in Mail!Rows : stamp[t].hash # None =>
    /\ stamp[t].sid \in DOMAIN hosted
    /\ hosted[stamp[t].sid] \in Content /\ Hash[hosted[stamp[t].sid]] = stamp[t].hash

MailInv ==
  /\ Mail!TypeOK
  /\ \A c \in MailCall : Progress(call[c]) /\ Names(call[c])
  /\ Apart /\ StampsHost

LEMMA MailCounts ==
  /\ Mail!Cardinality(Record) \in Nat
  /\ \A S \in SUBSET Record : Mail!Cardinality(S) \in 0..Mail!Cardinality(Record)
<1>1. IsFiniteSet(Record)
  BY ServicesAssumption DEF Mail!MailingAssumption, Mail!IsFiniteSet, IsFiniteSet
<1>2. Cardinality(Record) \in Nat
  BY <1>1, FS_CardinalityType
<1>3. \A S \in SUBSET Record : Cardinality(S) \in 0..Cardinality(Record)
  BY <1>1, <1>2, FS_Subset, FS_CardinalityType
<1>4. \A S : Mail!Cardinality(S) = Cardinality(S)
  BY DEF Mail!Cardinality, Cardinality
<1> QED
  BY <1>2, <1>3, <1>4

\* What the answers of the definitions are.
LEMMA MailIdle ==
  /\ Mail!Idle \in Mail!Asked
  /\ Mail!Idle.step = "idle" /\ Mail!Idle.mailed = {} /\ Mail!Idle.responses = {} /\ Mail!Idle.recorded = {}
  /\ Mail!Idle.refused = {} /\ Mail!Idle.number = -1
<1>1. -1 \in -1..Mail!Cardinality(Record)
  BY MailCounts
<1>2. Mail!Idle = [step |-> "idle", how |-> "bulk", content |-> None, asked |-> {},
                   mailed |-> {}, responses |-> {}, recorded |-> {}, refused |-> {}, sid |-> None, number |-> -1]
  BY DEF Mail!Idle
<1> QED
  BY <1>1, <1>2 DEF Mail!Asked, Mail!Provider

LEMMA MailAtFirst == Mail!Init => MailInv
<1> SUFFICES ASSUME Mail!Init PROVE MailInv
  OBVIOUS
<1>1. \A c \in MailCall : call[c] = Mail!Idle
  BY DEF Mail!Init
<1>2. Mail!TypeOK
  <2>1. call \in [MailCall -> Mail!Asked]
    BY MailIdle DEF Mail!Init
  <2>2. good \in Nat /\ revoked \in Nat /\ good + revoked <= MaxCreds
    BY ServicesAssumption DEF Mail!Init, Mail!MailingAssumption
  <2>3. stamp \in [Mail!Rows -> [hash : Mail!Hashes \cup {None}, sid : Sid \cup {None}]]
    BY DEF Mail!Init
  <2>4. hosted = <<>> /\ DOMAIN hosted = {}
    BY DEF Mail!Init
  <2> QED
    BY <2>1, <2>2, <2>3, <2>4 DEF Mail!TypeOK
<1>3. \A c \in MailCall : Progress(call[c]) /\ Names(call[c])
  BY <1>1, MailIdle DEF Progress, Names
<1>4. Apart /\ StampsHost
  BY <1>1, MailIdle DEF Apart, StampsHost, Mail!Init
<1> QED
  BY <1>2, <1>3, <1>4 DEF MailInv

\* A step of one call that leaves the templates as they are.
LEMMA MailMoves ==
  ASSUME MailInv, NEW c \in MailCall, call' \in [MailCall -> Mail!Asked],
         \A d \in MailCall : d # c => call'[d] = call[d],
         Progress(call'[c]), Names(call'[c]), call'[c].step # "version",
         UNCHANGED <<good, revoked, stamp, hosted>>
  PROVE  MailInv'
<1>1. Mail!TypeOK'
  BY DEF MailInv, Mail!TypeOK
<1>2. \A d \in MailCall : Progress(call'[d]) /\ Names(call'[d])
  BY DEF MailInv
<1>3. Apart'
  BY DEF MailInv, Apart
<1>4. StampsHost'
  BY DEF MailInv, StampsHost
<1>5. \A d \in MailCall : Progress(call[d])' /\ Names(call[d])'
  BY <1>2 DEF Progress, Names, Accounted, Addressed
<1> QED
  BY <1>1, <1>3, <1>4, <1>5 DEF MailInv

\* What is known of a call.
LEMMA CallKnown ==
  ASSUME MailInv, NEW c \in MailCall
  PROVE  /\ call \in [MailCall -> Mail!Asked]
         /\ call[c].step \in {"idle", "send", "lookup", "create", "version", "save", "post", "record"}
         /\ call[c].content \in Content \cup {None} /\ call[c].asked \subseteq Record /\ call[c].mailed \subseteq Record
         /\ call[c].responses \subseteq Record /\ call[c].recorded \subseteq Record /\ call[c].refused \subseteq Record
         /\ call[c].how \in Mail!Provider
         /\ call[c].sid \in Sid \cup {None} /\ call[c].number \in -1..Mail!Cardinality(Record)
         /\ Progress(call[c]) /\ Names(call[c])
<1>1. call \in [MailCall -> Mail!Asked] /\ call[c] \in Mail!Asked
  BY DEF MailInv, Mail!TypeOK
<1> QED
  BY <1>1 DEF MailInv, Mail!Asked

\* A call asks, or ends.
LEMMA AskKept ==
  ASSUME MailInv, NEW c \in MailCall, NEW how \in Mail!Provider, NEW content \in Content \cup {None},
         NEW S \in SUBSET Record, Mail!Ask(c, how, content, S)
  PROVE  MailInv'
<1> DEFINE step == Mail!FirstStep(how)
           x == [Mail!Idle EXCEPT !.step = step, !.how = how, !.content = content, !.asked = S]
<1>1. /\ call' = [call EXCEPT ![c] = x] /\ UNCHANGED <<good, revoked, stamp, hosted>>
      /\ content = None <=> how # "bulk"
  BY DEF Mail!Ask, Mail!kept
<1>2. /\ how \in {"gmail", "outlook"} => step = "send"
      /\ how = "bulk" => step = "lookup"
      /\ how = "other" => step = "record"
      /\ step \in {"send", "lookup", "record"}
  BY DEF Mail!FirstStep, Mail!Provider
<1> HIDE DEF step
<1>3. /\ x \in Mail!Asked /\ x.step = step /\ x.mailed = {} /\ x.responses = {} /\ x.recorded = {} /\ x.number = -1
      /\ x.refused = {} /\ x.asked = S /\ x.how = how /\ x.content = content
  BY <1>2, MailIdle DEF Mail!Asked
<1> HIDE DEF x
<1>4. Progress(x)
  BY <1>1, <1>2, <1>3 DEF Progress, Addressed, Mail!Provider
<1>5. Names(x) /\ Names(x)'
  BY <1>2, <1>3 DEF Names
<1>6. call' \in [MailCall -> Mail!Asked] /\ call'[c] = x /\ \A d \in MailCall : d # c => call'[d] = call[d]
  BY <1>1, <1>3, CallKnown
<1>7. Progress(call'[c]) /\ Names(call'[c]) /\ call'[c].step # "version"
  BY <1>2, <1>3, <1>4, <1>5, <1>6
<1> QED
  BY <1>1, <1>6, <1>7, MailMoves

LEMMA EndKept ==
  ASSUME MailInv, NEW c \in MailCall, Mail!End(c), UNCHANGED <<good, revoked, stamp, hosted>>
  PROVE  MailInv'
<1>1. call' = [call EXCEPT ![c] = Mail!Idle]
  BY DEF Mail!End
<1>2. /\ call' \in [MailCall -> Mail!Asked] /\ \A d \in MailCall : d # c => call'[d] = call[d]
      /\ call'[c].step = "idle" /\ call'[c].number = -1
  BY <1>1, MailIdle, CallKnown
<1>3. Progress(call'[c]) /\ Names(call'[c]) /\ call'[c].step # "version"
  BY <1>2 DEF Progress, Names
<1> QED
  BY <1>2, <1>3, MailMoves

\* One call's mails by itself.
LEMMA SendOneKept == ASSUME MailInv, NEW c \in MailCall, NEW r \in Record, Mail!SendOne(c, r) PROVE MailInv'
<1> DEFINE k == call[c]
           step == IF k.asked \ (k.mailed \cup {r}) = {} THEN "record" ELSE "send"
<1>1. k.step = "send" /\ r \in k.asked /\ UNCHANGED <<good, revoked, stamp, hosted>>
  BY DEF Mail!SendOne, Mail!at, Mail!kept
<1>2. k \in Mail!Asked /\ k.mailed = k.responses /\ k.responses \subseteq k.asked /\ k.recorded = {} /\ k.number = -1
      /\ k.refused = {} /\ k.how \in {"gmail", "outlook"} /\ k.asked \subseteq Record /\ k.sid \in Sid \cup {None} /\ -1 \in -1..Mail!Cardinality(Record)
  BY <1>1, CallKnown DEF Progress
<1>3. /\ call' \in [MailCall -> Mail!Asked] /\ \A d \in MailCall : d # c => call'[d] = call[d]
      /\ call'[c].step = step /\ call'[c].mailed = k.mailed \cup {r} /\ call'[c].responses = k.mailed \cup {r} /\ call'[c].recorded = k.recorded
        /\ call'[c].refused = k.refused /\ call'[c].how = k.how
      /\ call'[c].sid = k.sid /\ call'[c].number = k.number /\ call'[c].asked = k.asked /\ call'[c].content = k.content
  <2>1. call' = [call EXCEPT ![c].mailed = k.mailed \cup {r}, ![c].responses = k.responses \cup {r}, ![c].step = step]
    BY DEF Mail!SendOne
  <2>2. k.mailed \cup {r} \in SUBSET Record /\ k.responses \cup {r} = k.mailed \cup {r} /\ step \in {"send", "record"}
    BY <1>2
  <2> HIDE DEF step
  <2> QED
    BY <1>2, <2>1, <2>2, CallKnown DEF Mail!Asked
<1>4. step = "record" => k.mailed \cup {r} = k.asked
  BY <1>1, <1>2
<1>5. k.mailed \cup {r} \in SUBSET Record /\ k.mailed \cup {r} \subseteq k.asked
  BY <1>1, <1>2
<1>6. step \in {"send", "record"}
  OBVIOUS
<1> HIDE DEF step
<1>7. Progress(call'[c]) /\ Names(call'[c]) /\ call'[c].step # "version"
  BY <1>1, <1>2, <1>3, <1>4, <1>5, <1>6 DEF Progress, Names, Accounted, Addressed
<1> QED
  BY <1>1, <1>2, <1>3, <1>4, <1>5, <1>6, <1>7, MailMoves

LEMMA LookupKept == ASSUME MailInv, NEW c \in MailCall, Mail!Lookup(c) PROVE MailInv'
<1> DEFINE k == call[c]
<1>1. k.step = "lookup" /\ UNCHANGED <<good, revoked, stamp, hosted>>
  BY DEF Mail!Lookup, Mail!at, Mail!kept
<1>2. k \in Mail!Asked /\ k.mailed = {} /\ k.responses = {} /\ k.recorded = {} /\ k.refused = {} /\ k.number = -1
      /\ k.how = "bulk" /\ k.content \in Content
      /\ k.sid \in Sid \cup {None} /\ k.content \in Content /\ -1 \in -1..Mail!Cardinality(Record)
      /\ {} \in SUBSET Record
  BY <1>1, CallKnown DEF Progress
<1>3. ASSUME NEW t \in Mail!Rows, stamp[t].hash = Hash[k.content], call' = [call EXCEPT ![c].step = "post", ![c].sid = stamp[t].sid]
      PROVE  MailInv'
  <2>1. /\ stamp[t].sid \in DOMAIN hosted
        /\ hosted[stamp[t].sid] \in Content /\ Hash[hosted[stamp[t].sid]] = Hash[k.content]
    BY <1>2, <1>3, ServicesAssumption DEF MailInv, StampsHost, Mail!MailingAssumption
  <2>2. stamp[t].sid \in Sid \cup {None}
    BY DEF MailInv, Mail!TypeOK
  <2>3. /\ call' \in [MailCall -> Mail!Asked] /\ \A d \in MailCall : d # c => call'[d] = call[d]
        /\ call'[c].step = "post" /\ call'[c].mailed = {} /\ call'[c].responses = {} /\ call'[c].recorded = {}
        /\ call'[c].refused = k.refused /\ call'[c].how = k.how
        /\ call'[c].sid = stamp[t].sid /\ call'[c].number = k.number /\ call'[c].asked = k.asked /\ call'[c].content = k.content
    BY <1>2, <1>3, <2>2, CallKnown DEF Mail!Asked
  <2>4. Progress(call'[c]) /\ Names(call'[c]) /\ call'[c].step # "version"
    BY <1>1, <1>2, <2>1, <2>2, <2>3 DEF Progress, Names, Accounted, Addressed
  <2> QED
    BY <1>1, <1>2, <2>1, <2>2, <2>3, <2>4, MailMoves
<1>4. CASE call' = [call EXCEPT ![c].step = "create"]
  <2>1. /\ call' \in [MailCall -> Mail!Asked] /\ \A d \in MailCall : d # c => call'[d] = call[d]
        /\ call'[c].step = "create" /\ call'[c].mailed = {} /\ call'[c].responses = {} /\ call'[c].recorded = {}
        /\ call'[c].refused = k.refused /\ call'[c].how = k.how
        /\ call'[c].sid = k.sid /\ call'[c].number = k.number /\ call'[c].asked = k.asked /\ call'[c].content = k.content
    BY <1>2, <1>4, CallKnown DEF Mail!Asked
  <2>2. Progress(call'[c]) /\ Names(call'[c]) /\ call'[c].step # "version"
    BY <1>1, <1>2, <2>1 DEF Progress, Names, Accounted, Addressed
  <2> QED
    BY <1>1, <1>2, <2>1, <2>2, MailMoves
<1> QED
  BY <1>3, <1>4 DEF Mail!Lookup, Mail!Stamped

\* All mails in one request.
LEMMA BulkKept == ASSUME MailInv, NEW c \in MailCall, Mail!PostBulk(c) \/ Mail!FailBulk(c) PROVE MailInv'
<1> DEFINE k == call[c]
<1>1. k.step \in {"create", "version", "post"} /\ UNCHANGED <<good, revoked, stamp, hosted>>
  BY DEF Mail!PostBulk, Mail!FailBulk, Mail!at, Mail!kept
<1>2. k \in Mail!Asked /\ k.mailed = {} /\ k.responses = {} /\ k.recorded = {} /\ k.refused = {} /\ k.number = -1
      /\ k.how = "bulk" /\ k.content \in Content
      /\ k.sid \in Sid \cup {None} /\ k.asked \in SUBSET Record /\ -1 \in -1..Mail!Cardinality(Record)
      /\ {} \in SUBSET Record
  BY <1>1, CallKnown DEF Progress
<1>3. CASE Mail!PostBulk(c)
  <2>1. call' = [call EXCEPT ![c].mailed = @ \cup k.asked, ![c].responses = k.asked, ![c].step = "record"]
    BY <1>3 DEF Mail!PostBulk
  <2>2. /\ call' \in [MailCall -> Mail!Asked] /\ \A d \in MailCall : d # c => call'[d] = call[d]
        /\ call'[c].step = "record" /\ call'[c].mailed = k.asked /\ call'[c].responses = k.asked /\ call'[c].recorded = k.recorded
        /\ call'[c].refused = k.refused /\ call'[c].how = k.how
        /\ call'[c].sid = k.sid /\ call'[c].number = k.number /\ call'[c].asked = k.asked /\ call'[c].content = k.content
    BY <1>2, <2>1, CallKnown DEF Mail!Asked
  <2>3. Progress(call'[c]) /\ Names(call'[c]) /\ call'[c].step # "version"
    BY <1>1, <1>2, <2>2 DEF Progress, Names, Accounted, Addressed
  <2> QED
    BY <1>1, <1>2, <2>2, <2>3, MailMoves
<1>4. CASE Mail!End(c)
  BY <1>1, <1>4, EndKept
<1> QED
  BY <1>3, <1>4 DEF Mail!FailBulk

\* The records of the mails, and the campaign.
LEMMA RecordsKept ==
  ASSUME MailInv, NEW c \in MailCall,
         \/ \E r \in Record : Mail!RecordOne(c, r)
         \/ Mail!StoreCampaign(c)
  PROVE  MailInv'
<1> DEFINE k == call[c]
<1>1. k.step = "record" /\ UNCHANGED <<good, revoked, stamp, hosted>>
  BY DEF Mail!RecordOne, Mail!StoreCampaign, Mail!at, Mail!kept
<1>2. /\ k \in Mail!Asked /\ k.responses = Addressed(k) /\ k.mailed = Addressed(k)
      /\ k.recorded \cup k.refused \subseteq Addressed(k) /\ k.number = -1 /\ Addressed(k) \in SUBSET Record
      /\ k.sid \in Sid \cup {None} /\ k.asked \in SUBSET Record /\ -1 \in -1..Mail!Cardinality(Record)
      /\ k.recorded \in SUBSET Record /\ k.refused \in SUBSET Record
  BY <1>1, CallKnown DEF Progress, Addressed
<1>3. ASSUME NEW r \in Record, Mail!RecordOne(c, r) PROVE MailInv'
  <2>1. r \in Addressed(k) /\ k.step = "record"
    BY <1>2, <1>3 DEF Mail!RecordOne, Mail!at, Mail!Unposted
  <2>2. PICK R \in SUBSET Record, F \in SUBSET Record :
          R \cup F \subseteq Addressed(k) /\ call' = [call EXCEPT ![c].recorded = R, ![c].refused = F]
    <3>1. CASE call' = [call EXCEPT ![c].recorded = @ \cup {r}]
      <4>1. call' = [call EXCEPT ![c].recorded = k.recorded \cup {r}, ![c].refused = k.refused]
        BY <1>2, <3>1, CallKnown DEF Mail!Asked
      <4> QED
        BY <1>2, <2>1, <4>1
    <3>2. CASE call' = [call EXCEPT ![c].refused = @ \cup {r}]
      <4>1. call' = [call EXCEPT ![c].recorded = k.recorded, ![c].refused = k.refused \cup {r}]
        BY <1>2, <3>2, CallKnown DEF Mail!Asked
      <4> QED
        BY <1>2, <2>1, <4>1
    <3> QED
      BY <1>3, <3>1, <3>2 DEF Mail!RecordOne
  <2>3. /\ call' \in [MailCall -> Mail!Asked] /\ \A d \in MailCall : d # c => call'[d] = call[d]
        /\ call'[c].step = "record" /\ call'[c].mailed = k.mailed /\ call'[c].responses = k.responses
        /\ call'[c].recorded = R /\ call'[c].refused = F /\ call'[c].how = k.how
        /\ call'[c].sid = k.sid /\ call'[c].number = k.number /\ call'[c].asked = k.asked /\ call'[c].content = k.content
    BY <1>2, <2>1, <2>2, CallKnown DEF Mail!Asked
  <2>4. Progress(call'[c]) /\ Names(call'[c]) /\ call'[c].step # "version"
    BY <1>1, <1>2, <2>2, <2>3 DEF Progress, Addressed, Names, Accounted
  <2> QED
    BY <1>1, <2>3, <2>4, MailMoves
<1>4. CASE Mail!StoreCampaign(c)
  <2>1. k.recorded \cup k.refused = Addressed(k)
    BY <1>2, <1>4 DEF Mail!StoreCampaign, Mail!Unposted
  <2>2. CASE Mail!End(c)
    BY <1>1, <2>2, EndKept
  <2>3. CASE k.how # "outlook" /\ call' = [call EXCEPT ![c].step = "idle", ![c].number = Mail!Cardinality(k.responses)]
    <3> DEFINE n == Mail!Cardinality(k.responses)
    <3>1. n \in -1..Mail!Cardinality(Record) /\ n = Mail!Cardinality(k.mailed)
      BY <1>2, MailCounts
    <3>2. call' = [call EXCEPT ![c].step = "idle", ![c].number = n]
      BY <2>3
    <3> HIDE DEF n
    <3>3. /\ call' \in [MailCall -> Mail!Asked] /\ \A d \in MailCall : d # c => call'[d] = call[d]
          /\ call'[c].step = "idle" /\ call'[c].mailed = k.mailed /\ call'[c].responses = k.responses /\ call'[c].recorded = k.recorded
        /\ call'[c].refused = k.refused /\ call'[c].how = k.how
          /\ call'[c].sid = k.sid /\ call'[c].number = n /\ call'[c].asked = k.asked /\ call'[c].content = k.content
      BY <1>2, <3>2, CallKnown DEF Mail!Asked
    <3>4. Progress(call'[c]) /\ Names(call'[c]) /\ call'[c].step # "version"
      BY <1>1, <1>2, <2>1, <2>3, <3>1, <3>3 DEF Progress, Names, Accounted, Addressed
    <3> QED
      BY <1>1, <1>2, <2>1, <3>1, <3>3, <3>4, MailMoves
  <2> QED
    BY <1>4, <2>2, <2>3 DEF Mail!StoreCampaign
<1> QED
  BY <1>3, <1>4

\* A template is made: nobody else names it.
LEMMA CreateTemplateKept == ASSUME MailInv, NEW c \in MailCall, NEW s \in Sid, Mail!CreateTemplate(c, s) PROVE MailInv'
<1> DEFINE k == call[c]
<1>1. /\ k.step = "create" /\ s \notin DOMAIN hosted /\ UNCHANGED <<good, revoked, stamp>>
      /\ hosted' = [z \in DOMAIN hosted \cup {s} |-> IF z = s THEN None ELSE hosted[z]]
      /\ call' = [call EXCEPT ![c].step = "version", ![c].sid = s]
  BY DEF Mail!CreateTemplate, Mail!at
<1>2. /\ DOMAIN hosted' = DOMAIN hosted \cup {s} /\ hosted'[s] = None
      /\ \A z \in DOMAIN hosted : z \in DOMAIN hosted' /\ hosted'[z] = hosted[z]
  BY <1>1
<1>3. k \in Mail!Asked /\ Progress(k)
  BY CallKnown
<1>4. /\ call' \in [MailCall -> Mail!Asked] /\ \A d \in MailCall : d # c => call'[d] = call[d]
      /\ call'[c].step = "version" /\ call'[c].mailed = k.mailed /\ call'[c].responses = k.responses
      /\ call'[c].recorded = k.recorded /\ call'[c].refused = k.refused /\ call'[c].how = k.how /\ call'[c].sid = s /\ call'[c].number = k.number
  BY <1>1, <1>3, CallKnown DEF Mail!Asked
<1>5. Mail!TypeOK'
  BY <1>1, <1>2, <1>4 DEF MailInv, Mail!TypeOK
<1>6. ASSUME NEW d \in MailCall PROVE Progress(call[d])' /\ Names(call[d])'
  <2>1. Progress(call[d]) /\ Names(call[d])
    BY CallKnown
  <2>2. CASE d = c
    <3>1. Progress(call'[c]) /\ Names(call[c])'
      BY <1>1, <1>2, <1>3, <1>4 DEF Progress, Names
    <3>2. Progress(call'[c]) => Progress(call[c])'
      BY DEF Progress, Accounted, Addressed
    <3> QED
      BY <2>2, <3>1, <3>2
  <2>3. CASE d # c
    <3>1. call'[d] = call[d]
      BY <1>4, <2>3
    <3> QED
      BY <1>2, <2>1, <3>1 DEF Progress, Names, Accounted, Addressed
  <2> QED
    BY <2>2, <2>3
<1>7. Apart'
  BY <1>1, <1>4 DEF MailInv, Apart, Names
<1>8. StampsHost'
  BY <1>1, <1>2 DEF MailInv, StampsHost
<1> QED
  BY <1>5, <1>6, <1>7, <1>8 DEF MailInv

\* The version is written: of a template that hosted nothing yet, so no stamp and no other call
\* relies on what it hosts.
LEMMA CreateVersionKept == ASSUME MailInv, NEW c \in MailCall, Mail!CreateVersion(c) PROVE MailInv'
<1> DEFINE k == call[c]
           s == call[c].sid
<1>1. /\ k.step = "version" /\ UNCHANGED <<good, revoked, stamp>>
      /\ hosted' = [hosted EXCEPT ![s] = k.content]
      /\ call' = [call EXCEPT ![c].step = "save"]
  BY DEF Mail!CreateVersion, Mail!at
<1>2. /\ k \in Mail!Asked /\ Progress(k) /\ s \in DOMAIN hosted /\ hosted[s] = None
      /\ k.content \in Content /\ None \notin Content
  BY <1>1, CallKnown, ServicesAssumption DEF Names, Progress, Mail!MailingAssumption
<1>3. /\ DOMAIN hosted' = DOMAIN hosted /\ hosted'[s] = k.content
      /\ \A z \in DOMAIN hosted : z # s => hosted'[z] = hosted[z]
  BY <1>1, <1>2
<1>4. /\ call' \in [MailCall -> Mail!Asked] /\ \A d \in MailCall : d # c => call'[d] = call[d]
      /\ call'[c].step = "save" /\ call'[c].mailed = k.mailed /\ call'[c].responses = k.responses
      /\ call'[c].recorded = k.recorded /\ call'[c].refused = k.refused /\ call'[c].how = k.how /\ call'[c].sid = s /\ call'[c].number = k.number
      /\ call'[c].content = k.content
  BY <1>1, <1>2, CallKnown DEF Mail!Asked
<1>5. Mail!TypeOK'
  BY <1>1, <1>2, <1>3, <1>4 DEF MailInv, Mail!TypeOK
<1>6. ASSUME NEW d \in MailCall PROVE Progress(call[d])' /\ Names(call[d])'
  <2>1. Progress(call[d]) /\ Names(call[d])
    BY CallKnown
  <2>2. CASE d = c
    <3>1. Progress(call'[c]) /\ Names(call[c])'
      BY <1>1, <1>2, <1>3, <1>4 DEF Progress, Names
    <3>2. Progress(call'[c]) => Progress(call[c])'
      BY DEF Progress, Accounted, Addressed
    <3> QED
      BY <2>2, <3>1, <3>2
  <2>3. CASE d # c
    <3>1. call'[d] = call[d]
      BY <1>4, <2>3
    <3>2. call[d].step \in {"version", "save", "post"} => call[d].sid # s
      BY <1>1, <1>2, <2>1, <2>3 DEF MailInv, Apart, Names, Progress
    <3> QED
      BY <1>3, <2>1, <3>1, <3>2 DEF Progress, Names, Accounted, Addressed
  <2> QED
    BY <2>2, <2>3
<1>7. Apart'
  BY <1>1, <1>4 DEF MailInv, Apart
<1>8. StampsHost'
  <2>1. \A t \in Mail!Rows : stamp[t].hash # None => stamp[t].sid # s
    BY <1>2 DEF MailInv, StampsHost
  <2> QED
    BY <1>1, <1>3, <2>1 DEF MailInv, StampsHost
<1> QED
  BY <1>5, <1>6, <1>7, <1>8 DEF MailInv

\* The id is stamped.
LEMMA SaveIdKept == ASSUME MailInv, NEW c \in MailCall, Mail!SaveId(c) PROVE MailInv'
<1> DEFINE k == call[c]
           mark == [hash |-> Hash[k.content], sid |-> k.sid]
<1>1. /\ k.step = "save" /\ UNCHANGED <<good, revoked, hosted>>
      /\ stamp' = [t \in Mail!Rows |-> IF t \in Mail!Free(k.content) /\ \A u \in Mail!Free(k.content) : t <= u
                                       THEN mark ELSE stamp[t]]
      /\ call' = [call EXCEPT ![c].step = "post"]
  BY DEF Mail!SaveId, Mail!at
<1>2. /\ k \in Mail!Asked /\ Progress(k) /\ k.sid \in DOMAIN hosted /\ hosted[k.sid] = k.content
      /\ k.content \in Content /\ k.sid \in Sid \cup {None}
  BY <1>1, CallKnown DEF Names, Progress
<1>3. mark.hash = Hash[k.content] /\ mark.sid = k.sid /\ mark \in [hash : Mail!Hashes \cup {None}, sid : Sid \cup {None}]
  BY <1>2 DEF Mail!Hashes
<1> HIDE DEF mark
<1>4. /\ call' \in [MailCall -> Mail!Asked] /\ \A d \in MailCall : d # c => call'[d] = call[d]
      /\ call'[c].step = "post" /\ call'[c].mailed = k.mailed /\ call'[c].responses = k.responses
      /\ call'[c].recorded = k.recorded /\ call'[c].refused = k.refused /\ call'[c].how = k.how /\ call'[c].sid = k.sid /\ call'[c].number = k.number
      /\ call'[c].content = k.content
  BY <1>1, <1>2, CallKnown DEF Mail!Asked
<1>5. \A t \in Mail!Rows : stamp'[t] = mark \/ stamp'[t] = stamp[t]
  BY <1>1
<1>6. Mail!TypeOK'
  <2>1. stamp \in [Mail!Rows -> [hash : Mail!Hashes \cup {None}, sid : Sid \cup {None}]]
    BY DEF MailInv, Mail!TypeOK
  <2>2. stamp' \in [Mail!Rows -> [hash : Mail!Hashes \cup {None}, sid : Sid \cup {None}]]
    BY <1>1, <1>3, <2>1
  <2> QED
    BY <1>1, <1>4, <2>2 DEF MailInv, Mail!TypeOK
<1>7. ASSUME NEW d \in MailCall PROVE Progress(call[d])' /\ Names(call[d])'
  <2>1. Progress(call[d]) /\ Names(call[d])
    BY CallKnown
  <2>2. CASE d = c
    <3>1. Progress(call'[c]) /\ Names(call[c])'
      BY <1>1, <1>2, <1>4 DEF Progress, Names
    <3>2. Progress(call'[c]) => Progress(call[c])'
      BY DEF Progress, Accounted, Addressed
    <3> QED
      BY <2>2, <3>1, <3>2
  <2>3. CASE d # c
    <3>1. call'[d] = call[d]
      BY <1>4, <2>3
    <3> QED
      BY <1>1, <2>1, <3>1 DEF Progress, Names, Accounted, Addressed
  <2> QED
    BY <2>2, <2>3
<1>8. Apart'
  BY <1>1, <1>4 DEF MailInv, Apart
<1>9. StampsHost'
  BY <1>1, <1>2, <1>3, <1>5 DEF MailInv, StampsHost
<1> QED
  BY <1>6, <1>7, <1>8, <1>9 DEF MailInv

LEMMA MailKept == ASSUME MailInv, [Mail!Next]_mailVars PROVE MailInv'
<1>1. CASE UNCHANGED mailVars
  BY <1>1 DEF mailVars, MailInv, Mail!TypeOK, Apart, StampsHost, Progress, Names, Accounted, Addressed
<1>2. ASSUME NEW c \in MailCall, Mail!Refuse(c) \/ Mail!SignIn(c) \/ Mail!FailOne(c) \/ Mail!FailRecord(c) PROVE MailInv'
  <2>1. Mail!End(c) /\ UNCHANGED <<good, revoked, stamp, hosted>>
    BY <1>2 DEF Mail!Refuse, Mail!SignIn, Mail!AskToSignIn, Mail!FailOne, Mail!FailRecord, Mail!kept
  <2> QED
    BY <2>1, EndKept
<1>3. ASSUME NEW c \in MailCall,
             \/ \E how \in Mail!Provider, content \in Content \cup {None}, S \in SUBSET Record :
                  Mail!Ask(c, how, content, S)
             \/ \E r \in Record : Mail!SendOne(c, r) \/ Mail!RecordOne(c, r)
             \/ Mail!Lookup(c) \/ Mail!PostBulk(c) \/ Mail!FailBulk(c) \/ Mail!StoreCampaign(c)
      PROVE  MailInv'
  BY <1>3, AskKept, SendOneKept, LookupKept, BulkKept, RecordsKept
<1>4. ASSUME NEW c \in MailCall,
             \/ Mail!CreateVersion(c) \/ Mail!SaveId(c)
             \/ \E s \in Sid : Mail!CreateTemplate(c, s)
      PROVE  MailInv'
  BY <1>4, CreateTemplateKept, CreateVersionKept, SaveIdKept
<1>5. CASE Mail!SaveToken \/ Mail!Revoke
  <2>1. UNCHANGED <<call, stamp, hosted>>
    BY <1>5, ServicesAssumption DEF Mail!SaveToken, Mail!Revoke, MailInv, Mail!TypeOK, Mail!MailingAssumption
  <2>2. Mail!TypeOK'
    BY <1>5, <2>1, ServicesAssumption DEF Mail!SaveToken, Mail!Revoke, MailInv, Mail!TypeOK, Mail!MailingAssumption
  <2> QED
    BY <2>1, <2>2 DEF MailInv, Apart, StampsHost, Progress, Names, Accounted, Addressed
<1> QED
  BY <1>1, <1>2, <1>3, <1>4, <1>5 DEF Mail!Next

\* The number that a stored campaign says were sent is that of all records asked for, each mailed,
\* or none if the provider is unknown, and the record of each was posted; and a SendGrid id that is
\* found by a hash hosts a content with that hash, however calls interleave and fail.
THEOREM MailTheorem == Spec => []MailHolds
<1> DEFINE Inv == service = "mail" => MailInv
<1>1. Init => Inv
  BY OneServiceAtFirst, MailAtFirst
<1>2. Inv /\ [Next]_vars => Inv'
  BY OneService, MailKept
<1>3. Inv => MailHolds
  BY DEF MailInv, MailHolds, Progress, Accounted, Mail!CampaignIsAccounted, Mail!StampedIsHosted, StampsHost, Names, Addressed
<1> QED
  BY <1>1, <1>2, <1>3, PTL DEF Spec

-----------------------------------------------------------------------------
\* Salesforce

\* What a task has read.
PullRead ==
  /\ pull = [step |-> pull.step, sf |-> pull.sf, seen |-> pull.seen, held |-> pull.held, quiet |-> pull.quiet]
  /\ \A s \in DOMAIN pull.sf : pull.sf[s] \in Salesforce!Remote
  /\ \A i \in DOMAIN pull.seen : pull.seen[i] \in SfId \cup {None}

\* The rows are those read, and hold the external ids they held.
RowsAsSeen ==
  /\ DOMAIN pull.seen = DOMAIN table /\ \A i \in DOMAIN table : pull.seen[i] = table[i].Id
  /\ \A i \in DOMAIN table : table[i].value \in External => <<table[i].value, table[i].Id>> \in pull.held

\* The rows read are there with their Ids, and one for each record that none of them has as Id,
\* unless it was passed over.
NewAreMade ==
  /\ DOMAIN pull.seen \subseteq DOMAIN table /\ \A i \in DOMAIN pull.seen : pull.seen[i] = table[i].Id
  /\ \A i \in DOMAIN table \ DOMAIN pull.seen :
       \E s \in DOMAIN pull.sf \ Salesforce!Known : table[i] = Salesforce!RowOf(s)
  /\ \A s \in DOMAIN pull.sf \ Salesforce!Known :
       (\E i \in DOMAIN table \ DOMAIN pull.seen : table[i] = Salesforce!RowOf(s)) \/ Salesforce!PassedOver(s)

\* Each record has a row that says the same or was passed over, and a row of a record says it or
\* has a twin.
KnownAreWritten ==
  /\ \A s \in DOMAIN pull.sf : (\E i \in DOMAIN table : table[i] = Salesforce!RowOf(s)) \/ Salesforce!PassedOver(s)
  /\ \A i \in DOMAIN table : table[i].Id \in DOMAIN pull.sf =>
       \/ table[i] = Salesforce!RowOf(table[i].Id)
       \/ \E j \in DOMAIN table \ {i} : table[j].Id = table[i].Id

Mirrored ==
  pull.quiet =>
    /\ pull.step = "create" => RowsAsSeen
    /\ pull.step = "update" => NewAreMade
    /\ pull.step = "delete" => KnownAreWritten
    /\ pull.step \in {"copy", "push"} =>
         KnownAreWritten /\ \A i \in DOMAIN table : table[i].Id \in DOMAIN pull.sf

SyncInv == Salesforce!TypeOK /\ PullRead /\ Mirrored

LEMMA SyncAtFirst == Salesforce!Init => SyncInv
<1> SUFFICES ASSUME Salesforce!Init PROVE SyncInv
  OBVIOUS
<1>1. /\ pull = Salesforce!Rest /\ pull.step = "idle" /\ pull.sf = <<>> /\ pull.seen = <<>> /\ pull.quiet = TRUE
      /\ DOMAIN pull.sf = {} /\ DOMAIN pull.seen = {}
  BY DEF Salesforce!Init, Salesforce!Rest
<1>2. PullRead
  BY <1>1 DEF PullRead, Salesforce!Rest
<1>3. Mirrored
  BY <1>1 DEF Mirrored
<1>4. notes \in Seq(Salesforce!Change) /\ Len(notes) = 0
  BY DEF Salesforce!Init
<1>5. DOMAIN table = {} /\ DOMAIN app = {} /\ DOMAIN sf = {}
  BY DEF Salesforce!Init
<1>6. Salesforce!TypeOK
  <2>1. MaxNotes \in Nat /\ MaxEdits \in Nat
    BY ServicesAssumption DEF Salesforce!SyncAssumption
  <2>2. /\ parents \in {<<>>, [p \in Parent |-> None]} /\ issued = {} /\ listener = Salesforce!Wait
        /\ salesforceDue = TRUE /\ push = FALSE /\ edits = 0
    BY DEF Salesforce!Init
  <2>3. DOMAIN parents \in {{}, Parent} /\ \A p \in DOMAIN parents : parents[p] \in ParentSfId \cup {None}
    BY <2>2
  <2>4. /\ DOMAIN table \subseteq LocalId /\ \A i \in DOMAIN table : table[i] \in Salesforce!Row
        /\ DOMAIN app \subseteq SfId /\ \A s \in DOMAIN app : app[s] \in Value
        /\ DOMAIN sf \subseteq issued /\ \A s \in DOMAIN sf : sf[s] \in Salesforce!Remote
    BY <1>5
  <2>5. /\ pull.step \in {"idle", "create", "update", "delete", "copy", "push"}
        /\ DOMAIN pull.seen \subseteq LocalId /\ DOMAIN pull.sf \subseteq SfId
    BY <1>1
  <2>6. Len(notes) <= MaxNotes /\ edits \in 0..MaxEdits
    BY <1>4, <2>1, <2>2
  <2> QED
    BY <1>4, <2>2, <2>3, <2>4, <2>5, <2>6 DEF Salesforce!TypeOK
<1> QED
  BY <1>2, <1>3, <1>6 DEF SyncInv

\* A step that leaves the table and the task as they are, or touches the table.
LEMMA OthersKept ==
  ASSUME PullRead, Mirrored, UNCHANGED <<table, pull>> \/ Salesforce!Touched
  PROVE  PullRead' /\ Mirrored' /\ (Salesforce!TypeOK => pull'.step \in {"idle", "create", "update", "delete", "copy", "push"} /\
           DOMAIN pull'.seen \subseteq LocalId /\ DOMAIN pull'.sf \subseteq SfId)
<1>1. CASE UNCHANGED <<table, pull>>
  BY <1>1 DEF PullRead, Mirrored, RowsAsSeen, NewAreMade, KnownAreWritten, Salesforce!RowOf, Salesforce!Known,
              Salesforce!Range, Salesforce!PassedOver, Salesforce!TypeOK
<1>2. CASE Salesforce!Touched
  <2>1. pull' = [pull EXCEPT !.quiet = FALSE]
    BY <1>2 DEF Salesforce!Touched
  <2>2. /\ pull'.step = pull.step /\ pull'.sf = pull.sf /\ pull'.seen = pull.seen /\ pull'.quiet = FALSE
        /\ pull' = [step |-> pull'.step, sf |-> pull'.sf, seen |-> pull'.seen, held |-> pull'.held, quiet |-> pull'.quiet]
    BY <2>1 DEF PullRead
  <2> QED
    BY <2>2 DEF PullRead, Mirrored, Salesforce!TypeOK
<1> QED
  BY <1>1, <1>2

\* Some values less.
LEMMA RestrictKnown ==
  ASSUME NEW f, NEW S
  PROVE  DOMAIN Salesforce!Restrict(f, S) = S /\ \A z \in S : Salesforce!Restrict(f, S)[z] = f[z]
BY DEF Salesforce!Restrict

LEMMA NotesLess ==
  ASSUME Salesforce!TypeOK, notes # <<>>, notes' = Tail(notes)
  PROVE  /\ notes' \in Seq(Salesforce!Change) /\ Len(notes') <= MaxNotes
         /\ Head(notes) \in Salesforce!Change
<1>1. notes \in Seq(Salesforce!Change) /\ Len(notes) <= MaxNotes /\ Len(notes) \in Nat /\ MaxNotes \in Nat
  BY ServicesAssumption DEF Salesforce!TypeOK, Salesforce!SyncAssumption
<1>2. Tail(notes) \in Seq(Salesforce!Change) /\ Len(Tail(notes)) = Len(notes) - 1 /\ Head(notes) \in Salesforce!Change
  BY <1>1
<1> QED
  BY <1>1, <1>2

\* Users of the table.
LEMMA EditTableKept ==
  ASSUME SyncInv, NEW op \in {"INSERT", "UPDATE", "DELETE"}, NEW i \in LocalId, NEW row \in Salesforce!Row,
         Salesforce!EditTable(op, i, row)
  PROVE  SyncInv'
<1>1. /\ edits \in 0..MaxEdits /\ edits < MaxEdits /\ edits' = edits + 1 /\ Salesforce!Touched
      /\ UNCHANGED <<parents, app, sf, issued, listener, salesforceDue, push>>
      /\ Salesforce!Notify(op, i, row)
      /\ \/ table' = Salesforce!Put(table, i, row)
         \/ table' = Salesforce!Restrict(table, DOMAIN table \ {i})
  BY DEF Salesforce!EditTable, SyncInv, Salesforce!TypeOK
<1>2. DOMAIN table' \subseteq LocalId /\ \A j \in DOMAIN table' : table'[j] \in Salesforce!Row
  <2>1. DOMAIN table \subseteq LocalId /\ \A j \in DOMAIN table : table[j] \in Salesforce!Row
    BY DEF SyncInv, Salesforce!TypeOK
  <2>2. /\ DOMAIN table' \subseteq DOMAIN table \cup {i}
        /\ \A j \in DOMAIN table' : table'[j] = row \/ (j \in DOMAIN table /\ table'[j] = table[j])
    BY <1>1 DEF Salesforce!Put, Salesforce!Restrict
  <2> QED
    BY <2>1, <2>2
<1>3. notes' \in Seq(Salesforce!Change) /\ Len(notes') <= MaxNotes
  <2> DEFINE n == [operation |-> op, id |-> i, row |-> row]
  <2>1. n \in Salesforce!Change
    BY DEF Salesforce!Change
  <2>2. notes' = notes \/ (Len(notes) < MaxNotes /\ notes' = Append(notes, n))
    BY <1>1 DEF Salesforce!Notify
  <2> HIDE DEF n
  <2>3. notes \in Seq(Salesforce!Change) /\ Len(notes) <= MaxNotes /\ MaxNotes \in Nat
    BY ServicesAssumption DEF SyncInv, Salesforce!TypeOK, Salesforce!SyncAssumption
  <2> QED
    BY <2>1, <2>2, <2>3
<1>4. edits' \in 0..MaxEdits
  BY <1>1, ServicesAssumption DEF Salesforce!SyncAssumption
<1>5. /\ PullRead' /\ Mirrored' /\ pull'.step \in {"idle", "create", "update", "delete", "copy", "push"}
      /\ DOMAIN pull'.seen \subseteq LocalId /\ DOMAIN pull'.sf \subseteq SfId
  BY <1>1, OthersKept DEF SyncInv
<1> QED
  BY <1>1, <1>2, <1>3, <1>4, <1>5 DEF SyncInv, Salesforce!TypeOK

\* Users of Salesforce, and the parents.
LEMMA EditSalesforceKept ==
  ASSUME SyncInv, NEW s \in SfId,
         \/ \E r \in Salesforce!Remote : Salesforce!EditSalesforce(s, r)
         \/ Salesforce!DeleteInSalesforce(s)
  PROVE  SyncInv'
<1>1. /\ edits \in 0..MaxEdits /\ edits < MaxEdits /\ edits' = edits + 1
      /\ UNCHANGED <<table, parents, app, notes, listener, pull, salesforceDue, push>>
      /\ \/ \E r \in Salesforce!Remote : sf' = Salesforce!Put(sf, s, r) /\ issued' = issued \cup {s}
         \/ sf' = Salesforce!Restrict(sf, DOMAIN sf \ {s}) /\ issued' = issued
  BY DEF Salesforce!EditSalesforce, Salesforce!DeleteInSalesforce, SyncInv, Salesforce!TypeOK
<1>2. DOMAIN sf' \subseteq issued' /\ issued' \subseteq SfId /\ \A z \in DOMAIN sf' : sf'[z] \in Salesforce!Remote
  <2>1. DOMAIN sf \subseteq issued /\ issued \subseteq SfId /\ \A z \in DOMAIN sf : sf[z] \in Salesforce!Remote
    BY DEF SyncInv, Salesforce!TypeOK
  <2>2. ASSUME NEW r \in Salesforce!Remote, sf' = Salesforce!Put(sf, s, r), issued' = issued \cup {s}
        PROVE  /\ DOMAIN sf' \subseteq issued' /\ issued' \subseteq SfId
               /\ \A z \in DOMAIN sf' : sf'[z] \in Salesforce!Remote
    BY <2>1, <2>2 DEF Salesforce!Put
  <2>3. ASSUME sf' = Salesforce!Restrict(sf, DOMAIN sf \ {s}), issued' = issued
        PROVE  /\ DOMAIN sf' \subseteq issued' /\ issued' \subseteq SfId
               /\ \A z \in DOMAIN sf' : sf'[z] \in Salesforce!Remote
    BY <2>1, <2>3 DEF Salesforce!Restrict
  <2> QED
    BY <1>1, <2>2, <2>3
<1>3. edits' \in 0..MaxEdits
  BY <1>1, ServicesAssumption DEF Salesforce!SyncAssumption
<1>4. PullRead' /\ Mirrored'
  BY <1>1, OthersKept DEF SyncInv
<1> QED
  BY <1>1, <1>2, <1>3, <1>4 DEF SyncInv, Salesforce!TypeOK

LEMMA SyncParentKept ==
  ASSUME SyncInv, NEW p \in Parent, NEW s \in ParentSfId, Salesforce!SyncParent(p, s) PROVE SyncInv'
<1>1. /\ UNCHANGED <<table, app, sf, issued, notes, listener, pull, salesforceDue, push, edits>>
      /\ DOMAIN parents' = DOMAIN parents /\ \A q \in DOMAIN parents' : parents'[q] \in ParentSfId \cup {None}
  BY DEF Salesforce!SyncParent, SyncInv, Salesforce!TypeOK
<1>2. PullRead' /\ Mirrored'
  BY <1>1, OthersKept DEF SyncInv
<1> QED
  BY <1>1, <1>2 DEF SyncInv, Salesforce!TypeOK

\* The listener.
LEMMA ListenerKept ==
  ASSUME SyncInv,
         \/ Salesforce!Drop \/ Salesforce!Crash \/ Salesforce!Restart
         \/ \E s \in SfId : Salesforce!PushInsert(s)
         \/ Salesforce!PushChange
  PROVE  SyncInv'
<1>1. UNCHANGED <<table, parents, app, pull, salesforceDue, push, edits>>
  BY DEF Salesforce!Drop, Salesforce!Crash, Salesforce!Restart, Salesforce!PushInsert, Salesforce!PushChange
<1>2. PullRead' /\ Mirrored'
  BY <1>1, OthersKept DEF SyncInv
<1>3. ASSUME notes' \in Seq(Salesforce!Change), Len(notes') <= MaxNotes,
             listener' \in {Salesforce!Down, Salesforce!Wait} \cup [step : {"answered"}, id : LocalId, Id : SfId],
             DOMAIN sf' \subseteq issued', issued' \subseteq SfId, \A z \in DOMAIN sf' : sf'[z] \in Salesforce!Remote
      PROVE  SyncInv'
  BY <1>1, <1>2, <1>3 DEF SyncInv, Salesforce!TypeOK
<1>4. /\ notes \in Seq(Salesforce!Change) /\ Len(notes) <= MaxNotes /\ MaxNotes \in Nat
      /\ listener \in {Salesforce!Down, Salesforce!Wait} \cup [step : {"answered"}, id : LocalId, Id : SfId]
      /\ DOMAIN sf \subseteq issued /\ issued \subseteq SfId /\ \A z \in DOMAIN sf : sf[z] \in Salesforce!Remote
      /\ \A p \in DOMAIN parents : parents[p] \in ParentSfId \cup {None}
  BY ServicesAssumption DEF SyncInv, Salesforce!TypeOK, Salesforce!SyncAssumption
<1>5. CASE Salesforce!Drop
  BY <1>3, <1>4, <1>5, NotesLess DEF Salesforce!Drop, SyncInv
<1>6. CASE Salesforce!Crash \/ Salesforce!Restart
  <2>1. <<>> \in Seq(Salesforce!Change) /\ Len(<<>>) = 0
    OBVIOUS
  <2>2. /\ UNCHANGED <<sf, issued>> /\ (notes' = <<>> \/ notes' = notes)
        /\ listener' \in {Salesforce!Down, Salesforce!Wait}
    BY <1>6 DEF Salesforce!Crash, Salesforce!Restart
  <2>3. notes' \in Seq(Salesforce!Change) /\ Len(notes') <= MaxNotes
    <3>1. CASE notes' = <<>>
      <4>1. notes' \in Seq(Salesforce!Change) /\ Len(notes') = 0
        BY <3>1
      <4> QED
        BY <1>4, <4>1
    <3>2. CASE notes' = notes
      BY <1>4, <3>2
    <3> QED
      BY <2>2, <3>1, <3>2
  <2> QED
    BY <1>3, <1>4, <2>2, <2>3
<1>7. ASSUME NEW s \in SfId, Salesforce!PushInsert(s) PROVE SyncInv'
  <2> DEFINE n == Head(notes)
             r == [parent |-> Salesforce!ParentId(n.row), value |-> n.row.value]
             answer == [step |-> "answered", id |-> n.id, Id |-> s]
  <2>1. /\ notes # <<>> /\ notes' = Tail(notes) /\ issued' = issued \cup {s} /\ Salesforce!Resolved(n.row)
        /\ sf' = Salesforce!Put(sf, s, r) /\ listener' = answer
    BY <1>7 DEF Salesforce!PushInsert
  <2>2. n \in Salesforce!Change /\ notes' \in Seq(Salesforce!Change) /\ Len(notes') <= MaxNotes
    BY <2>1, NotesLess DEF SyncInv
  <2>3. n.id \in LocalId /\ n.row \in Salesforce!Row
    BY <2>2 DEF Salesforce!Change
  <2>4. Salesforce!ParentId(n.row) \in ParentSfId \cup {None} /\ n.row.value \in Value
    BY <1>4, <2>3 DEF Salesforce!ParentId, Salesforce!Row
  <2>5. r \in Salesforce!Remote /\ answer \in [step : {"answered"}, id : LocalId, Id : SfId]
    BY <2>3, <2>4 DEF Salesforce!Remote
  <2> HIDE DEF n, r, answer
  <2>6. DOMAIN sf' \subseteq issued' /\ issued' \subseteq SfId /\ \A z \in DOMAIN sf' : sf'[z] \in Salesforce!Remote
    BY <1>4, <2>1, <2>5 DEF Salesforce!Put
  <2> QED
    BY <1>3, <2>1, <2>2, <2>5, <2>6
<1>8. CASE Salesforce!PushChange
  <2> DEFINE n == Head(notes)
             s == n.row.Id
             r == [parent |-> Salesforce!ParentId(n.row), value |-> n.row.value]
  <2>1. /\ notes # <<>> /\ notes' = Tail(notes) /\ UNCHANGED <<issued, listener>> /\ Salesforce!Resolved(n.row)
        /\ s \in DOMAIN sf
        /\ \/ sf' = [sf EXCEPT ![s] = r]
           \/ sf' = Salesforce!Restrict(sf, DOMAIN sf \ {s})
    BY <1>8 DEF Salesforce!PushChange
  <2>2. n \in Salesforce!Change /\ notes' \in Seq(Salesforce!Change) /\ Len(notes') <= MaxNotes
    BY <2>1, NotesLess DEF SyncInv
  <2>3. n.row \in Salesforce!Row
    BY <2>2 DEF Salesforce!Change
  <2>4. Salesforce!ParentId(n.row) \in ParentSfId \cup {None} /\ n.row.value \in Value
    BY <1>4, <2>3 DEF Salesforce!ParentId, Salesforce!Row
  <2>5. r \in Salesforce!Remote
    BY <2>4 DEF Salesforce!Remote
  <2> HIDE DEF n, s, r
  <2>6. DOMAIN sf' \subseteq issued /\ \A z \in DOMAIN sf' : sf'[z] \in Salesforce!Remote
    BY <1>4, <2>1, <2>5, RestrictKnown
  <2> QED
    BY <1>3, <1>4, <2>1, <2>2, <2>6
<1> QED
  BY <1>5, <1>6, <1>7, <1>8

LEMMA StoreIdKept == ASSUME SyncInv, Salesforce!StoreId PROVE SyncInv'
<1>1. /\ listener.step = "answered" /\ listener' = Salesforce!Wait /\ Salesforce!Touched
      /\ table' = [i \in DOMAIN table |-> IF i = listener.id THEN [table[i] EXCEPT !.Id = listener.Id] ELSE table[i]]
      /\ UNCHANGED <<parents, app, sf, issued, notes, salesforceDue, push, edits>>
  BY DEF Salesforce!StoreId
<1>2. listener.Id \in SfId
  BY <1>1 DEF SyncInv, Salesforce!TypeOK, Salesforce!Down, Salesforce!Wait
<1>3. DOMAIN table' = DOMAIN table /\ \A i \in DOMAIN table' : table'[i] \in Salesforce!Row
  <2>1. \A i \in DOMAIN table : table[i] \in Salesforce!Row
    BY DEF SyncInv, Salesforce!TypeOK
  <2>2. \A i \in DOMAIN table : [table[i] EXCEPT !.Id = listener.Id] \in Salesforce!Row
    BY <1>2, <2>1 DEF Salesforce!Row
  <2> QED
    BY <1>1, <2>1, <2>2
<1>4. /\ PullRead' /\ Mirrored' /\ pull'.step \in {"idle", "create", "update", "delete", "copy", "push"}
      /\ DOMAIN pull'.seen \subseteq LocalId /\ DOMAIN pull'.sf \subseteq SfId
  BY <1>1, OthersKept DEF SyncInv
<1> QED
  BY <1>1, <1>3, <1>4 DEF SyncInv, Salesforce!TypeOK

\* What the steps of a pull know.
LEMMA PullKnown ==
  ASSUME SyncInv
  PROVE  /\ DOMAIN table \subseteq LocalId /\ \A i \in DOMAIN table : table[i] \in Salesforce!Row
         /\ DOMAIN pull.sf \subseteq SfId /\ \A s \in DOMAIN pull.sf : Salesforce!RowOf(s) \in Salesforce!Row
         /\ \A s \in DOMAIN pull.sf : Salesforce!RowOf(s).Id = s
         /\ None \notin SfId
<1>1. ASSUME NEW s \in DOMAIN pull.sf PROVE Salesforce!RowOf(s) \in Salesforce!Row /\ Salesforce!RowOf(s).Id = s
  <2>1. pull.sf[s].value \in Value /\ s \in SfId
    BY DEF SyncInv, PullRead, Salesforce!Remote, Salesforce!TypeOK
  <2> QED
    BY <2>1 DEF Salesforce!RowOf, Salesforce!Row
<1> QED
  BY <1>1, ServicesAssumption DEF SyncInv, Salesforce!TypeOK, Salesforce!SyncAssumption

\* What was read does not change while the task moves on.
LEMMA ReadStays ==
  ASSUME SyncInv, NEW step, pull' = [pull EXCEPT !.step = step]
  PROVE  /\ pull'.sf = pull.sf /\ pull'.seen = pull.seen /\ pull'.held = pull.held /\ pull'.quiet = pull.quiet
         /\ Salesforce!Known' = Salesforce!Known
         /\ \A s : Salesforce!RowOf(s)' = Salesforce!RowOf(s)
         /\ \A s : Salesforce!PassedOver(s)' <=> Salesforce!PassedOver(s)
<1>1. pull'.sf = pull.sf /\ pull'.seen = pull.seen /\ pull'.held = pull.held /\ pull'.quiet = pull.quiet
  BY DEF SyncInv, PullRead
<1>2. Salesforce!Known' = Salesforce!Known /\ \A s : Salesforce!RowOf(s)' = Salesforce!RowOf(s)
  BY <1>1 DEF Salesforce!Known, Salesforce!Range, Salesforce!RowOf
<1>3. \A s : Salesforce!PassedOver(s)' <=> Salesforce!PassedOver(s)
  BY <1>1, <1>2 DEF Salesforce!PassedOver
<1> QED
  BY <1>1, <1>2, <1>3

\* The task moves on with what it has read.
LEMMA TaskMoves ==
  ASSUME SyncInv, NEW step \in {"update", "delete", "copy", "push"}, pull' = [pull EXCEPT !.step = step],
         UNCHANGED <<parents, sf, issued, notes, listener, edits, salesforceDue, push>>,
         DOMAIN table' \subseteq LocalId, \A i \in DOMAIN table' : table'[i] \in Salesforce!Row,
         DOMAIN app' \subseteq SfId, \A s \in DOMAIN app' : app'[s] \in Value,
         pull.quiet /\ step = "update" => NewAreMade',
         pull.quiet /\ step = "delete" => KnownAreWritten',
         pull.quiet /\ step \in {"copy", "push"} =>
           KnownAreWritten' /\ \A i \in DOMAIN table' : table'[i].Id \in DOMAIN pull'.sf
  PROVE  SyncInv'
<1>1. /\ pull'.step = step /\ pull'.sf = pull.sf /\ pull'.seen = pull.seen /\ pull'.quiet = pull.quiet
      /\ pull' = [step |-> pull'.step, sf |-> pull'.sf, seen |-> pull'.seen, held |-> pull'.held, quiet |-> pull'.quiet]
  BY DEF SyncInv, PullRead
<1>2. PullRead'
  BY <1>1 DEF SyncInv, PullRead
<1>3. Mirrored'
  BY <1>1 DEF Mirrored
<1>4. Salesforce!TypeOK'
  BY <1>1 DEF SyncInv, Salesforce!TypeOK
<1> QED
  BY <1>2, <1>3, <1>4 DEF SyncInv

\* A new row for each record that no row read has as Id, unless its external id is taken.
LEMMA BulkCreateKept == ASSUME SyncInv, Salesforce!BulkCreate PROVE SyncInv'
<1> DEFINE Fresh == DOMAIN pull.sf \ Salesforce!Known
<1>0. PICK made \in SUBSET Fresh : \E new \in [made -> LocalId \ DOMAIN table] :
        /\ Salesforce!IsInjective(new)
        /\ table' = [i \in DOMAIN table \cup Salesforce!Range(new) |->
                       IF i \in DOMAIN table THEN table[i] ELSE Salesforce!RowOf(Salesforce!AntiFunction(new)[i])]
        /\ \A s \in DOMAIN pull.sf \ (Salesforce!Known \cup made) :
             pull.sf[s].value \in External /\ \E i \in DOMAIN table' : table'[i].value = pull.sf[s].value
  BY DEF Salesforce!BulkCreate
<1>1. PICK new \in [made -> LocalId \ DOMAIN table] :
        /\ Salesforce!IsInjective(new)
        /\ table' = [i \in DOMAIN table \cup Salesforce!Range(new) |->
                       IF i \in DOMAIN table THEN table[i] ELSE Salesforce!RowOf(Salesforce!AntiFunction(new)[i])]
        /\ \A s \in DOMAIN pull.sf \ (Salesforce!Known \cup made) :
             pull.sf[s].value \in External /\ \E i \in DOMAIN table' : table'[i].value = pull.sf[s].value
  BY <1>0
<1>2. /\ pull.step = "create" /\ pull' = [pull EXCEPT !.step = "update"]
      /\ UNCHANGED <<parents, sf, issued, notes, listener, edits, app, salesforceDue, push>>
  BY DEF Salesforce!BulkCreate, Salesforce!pulling
<1>3. /\ pull'.sf = pull.sf /\ pull'.seen = pull.seen /\ Salesforce!Known' = Salesforce!Known
      /\ \A s : Salesforce!RowOf(s)' = Salesforce!RowOf(s)
      /\ \A s : Salesforce!PassedOver(s)' <=> Salesforce!PassedOver(s)
  BY <1>2, ReadStays
<1>4. ASSUME NEW i \in Salesforce!Range(new)
      PROVE  Salesforce!AntiFunction(new)[i] \in made /\ new[Salesforce!AntiFunction(new)[i]] = i
  <2>1. Salesforce!AntiFunction(new)[i] = CHOOSE s \in made : i \in Salesforce!Range(new) => new[s] = i
    BY DEF Salesforce!AntiFunction, Salesforce!Inverse
  <2>2. \E s \in made : i \in Salesforce!Range(new) => new[s] = i
    BY DEF Salesforce!Range
  <2> QED
    BY <1>4, <2>1, <2>2
<1>5. ASSUME NEW s \in made
      PROVE  new[s] \in Salesforce!Range(new) /\ new[s] \notin DOMAIN table /\ Salesforce!AntiFunction(new)[new[s]] = s
  <2>1. new[s] \in Salesforce!Range(new) /\ new[s] \notin DOMAIN table
    BY DEF Salesforce!Range
  <2> QED
    BY <1>1, <1>4, <2>1 DEF Salesforce!IsInjective
<1>6. \A i \in Salesforce!Range(new) : i \in LocalId /\ i \notin DOMAIN table
  BY DEF Salesforce!Range
<1> HIDE DEF Fresh
<1>7. /\ DOMAIN table' = DOMAIN table \cup Salesforce!Range(new)
      /\ \A i \in DOMAIN table : table'[i] = table[i]
      /\ \A i \in Salesforce!Range(new) : table'[i] = Salesforce!RowOf(Salesforce!AntiFunction(new)[i])
  BY <1>1, <1>6
<1>8. Fresh \subseteq DOMAIN pull.sf /\ made \subseteq Fresh
  BY DEF Fresh
<1>9. DOMAIN table' \subseteq LocalId /\ \A i \in DOMAIN table' : table'[i] \in Salesforce!Row
  BY <1>4, <1>6, <1>7, <1>8, PullKnown
<1>10. ASSUME pull.quiet PROVE NewAreMade'
  <2>1. DOMAIN pull.seen = DOMAIN table /\ \A i \in DOMAIN table : pull.seen[i] = table[i].Id
    BY <1>2, <1>10 DEF SyncInv, Mirrored, RowsAsSeen
  <2>2. DOMAIN pull'.seen \subseteq DOMAIN table' /\ \A i \in DOMAIN pull'.seen : pull'.seen[i] = table'[i].Id
    BY <1>3, <1>7, <2>1
  <2>3. \A i \in DOMAIN table' \ DOMAIN pull'.seen : \E s \in Fresh : table'[i] = Salesforce!RowOf(s)
    BY <1>3, <1>4, <1>7, <1>8, <2>1
  <2>4. ASSUME NEW s \in Fresh
        PROVE  (\E i \in DOMAIN table' \ DOMAIN pull'.seen : table'[i] = Salesforce!RowOf(s)) \/ Salesforce!PassedOver(s)
    <3>1. CASE s \in made
      BY <1>3, <1>5, <1>7, <2>1, <3>1
    <3>2. CASE s \notin made
      <4>1. s \in DOMAIN pull.sf /\ s \notin Salesforce!Known
        BY DEF Fresh
      <4>2. PICK i \in DOMAIN table' : pull.sf[s].value \in External /\ table'[i].value = pull.sf[s].value
        BY <1>1, <3>2, <4>1
      <4> DEFINE Other == pull.held \cup {<<pull.sf[z].value, z>> : z \in DOMAIN pull.sf}
      <4>3. \E h \in Other : h[1] = pull.sf[s].value /\ h[2] # s
        <5>1. CASE i \in DOMAIN table
          <6>1. /\ table[i].value = pull.sf[s].value /\ pull.seen[i] = table[i].Id /\ i \in DOMAIN pull.seen
                /\ <<table[i].value, table[i].Id>> \in pull.held
            BY <1>2, <1>7, <1>10, <2>1, <4>2, <5>1 DEF SyncInv, Mirrored, RowsAsSeen
          <6>2. table[i].Id # s
            BY <4>1, <6>1 DEF Salesforce!Known, Salesforce!Range
          <6>3. <<table[i].value, table[i].Id>>[1] = pull.sf[s].value /\ <<table[i].value, table[i].Id>>[2] # s
            BY <6>1, <6>2
          <6> QED
            BY <6>1, <6>3
        <5>2. CASE i \in Salesforce!Range(new)
          <6> DEFINE z == Salesforce!AntiFunction(new)[i]
          <6>1. z \in made /\ table'[i] = Salesforce!RowOf(z)
            BY <1>4, <1>7, <5>2
          <6>2. pull.sf[z].value = pull.sf[s].value /\ z # s /\ z \in DOMAIN pull.sf
            BY <1>8, <3>2, <4>2, <6>1 DEF Salesforce!RowOf
          <6> HIDE DEF z
          <6>3. <<pull.sf[z].value, z>> \in Other
            BY <6>2
          <6>4. <<pull.sf[z].value, z>>[1] = pull.sf[s].value /\ <<pull.sf[z].value, z>>[2] # s
            BY <6>2
          <6> QED
            BY <6>3, <6>4
        <5> QED
          BY <1>7, <4>2, <5>1, <5>2
      <4> QED
        BY <4>1, <4>2, <4>3 DEF Salesforce!PassedOver
    <3> QED
      BY <3>1, <3>2
  <2>5. Fresh = DOMAIN pull'.sf \ Salesforce!Known'
    BY <1>3 DEF Fresh
  <2> QED
    BY <1>3, <2>2, <2>3, <2>4, <2>5 DEF NewAreMade
<1>11. DOMAIN app' \subseteq SfId /\ \A s \in DOMAIN app' : app'[s] \in Value
  BY <1>2 DEF SyncInv, Salesforce!TypeOK
<1> QED
  BY <1>2, <1>9, <1>10, <1>11, TaskMoves

\* The rows read are written; their Ids stay.
LEMMA BulkUpdateKept == ASSUME SyncInv, Salesforce!BulkUpdate PROVE SyncInv'
<1> DEFINE Old == DOMAIN pull.sf \cap Salesforce!Known
<1>1. PICK last \in [Old -> DOMAIN pull.seen] :
        /\ \A s \in Old : pull.seen[last[s]] = s
        /\ table' = [i \in DOMAIN table |-> IF i \in Salesforce!Range(last) THEN Salesforce!RowOf(pull.seen[i]) ELSE table[i]]
  BY DEF Salesforce!BulkUpdate
<1>2. /\ pull.step = "update" /\ pull' = [pull EXCEPT !.step = "delete"]
      /\ UNCHANGED <<parents, sf, issued, notes, listener, edits, app, salesforceDue, push>>
  BY DEF Salesforce!BulkUpdate, Salesforce!pulling
<1>3. /\ pull'.sf = pull.sf /\ pull'.seen = pull.seen /\ \A s : Salesforce!RowOf(s)' = Salesforce!RowOf(s)
      /\ \A s : Salesforce!PassedOver(s)' <=> Salesforce!PassedOver(s)
  BY <1>2, ReadStays
<1>4. \A i \in Salesforce!Range(last) : i \in DOMAIN pull.seen /\ pull.seen[i] \in Old /\ last[pull.seen[i]] = i
  BY <1>1 DEF Salesforce!Range
<1>5. \A s \in Old : last[s] \in Salesforce!Range(last) /\ last[s] \in DOMAIN pull.seen
  BY <1>1 DEF Salesforce!Range
<1>6. Old \subseteq DOMAIN pull.sf /\ \A s \in DOMAIN pull.sf : s \in Old \/ s \in DOMAIN pull.sf \ Salesforce!Known
  OBVIOUS
<1>7. /\ DOMAIN table' = DOMAIN table
      /\ \A i \in DOMAIN table : i \in Salesforce!Range(last) => table'[i] = Salesforce!RowOf(pull.seen[i])
      /\ \A i \in DOMAIN table : i \notin Salesforce!Range(last) => table'[i] = table[i]
  BY <1>1
<1>8. DOMAIN table' \subseteq LocalId /\ \A i \in DOMAIN table' : table'[i] \in Salesforce!Row
  BY <1>4, <1>6, <1>7, PullKnown
<1>9. ASSUME pull.quiet PROVE KnownAreWritten'
  <2>1. /\ DOMAIN pull.seen \subseteq DOMAIN table /\ \A i \in DOMAIN pull.seen : pull.seen[i] = table[i].Id
        /\ \A i \in DOMAIN table \ DOMAIN pull.seen :
             \E s \in DOMAIN pull.sf \ Salesforce!Known : table[i] = Salesforce!RowOf(s)
        /\ \A s \in DOMAIN pull.sf \ Salesforce!Known :
             \/ \E i \in DOMAIN table \ DOMAIN pull.seen : table[i] = Salesforce!RowOf(s)
             \/ Salesforce!PassedOver(s)
    BY <1>2, <1>9 DEF SyncInv, Mirrored, NewAreMade
  <2>2. ASSUME NEW s \in DOMAIN pull.sf PROVE (\E i \in DOMAIN table' : table'[i] = Salesforce!RowOf(s)) \/ Salesforce!PassedOver(s)
    <3>1. CASE s \in Old
      BY <1>1, <1>5, <1>7, <2>1, <3>1
    <3>2. CASE s \in DOMAIN pull.sf \ Salesforce!Known
      BY <1>4, <1>7, <2>1, <3>2
    <3> QED
      BY <1>6, <3>1, <3>2
  <2>3. ASSUME NEW i \in DOMAIN table PROVE table'[i].Id = table[i].Id
    <3>1. CASE i \in Salesforce!Range(last)
      BY <1>4, <1>6, <1>7, <2>1, <3>1, PullKnown
    <3>2. CASE i \notin Salesforce!Range(last)
      BY <1>7, <3>2
    <3> QED
      BY <3>1, <3>2
  <2>4. ASSUME NEW i \in DOMAIN table, table'[i].Id \in DOMAIN pull.sf
        PROVE  table'[i] = Salesforce!RowOf(table'[i].Id) \/ \E j \in DOMAIN table \ {i} : table'[j].Id = table'[i].Id
    <3>1. CASE i \in Salesforce!Range(last)
      <4>1. table'[i] = Salesforce!RowOf(pull.seen[i]) /\ pull.seen[i] = table'[i].Id
        BY <1>4, <1>7, <2>1, <2>3, <3>1
      <4> QED
        BY <4>1
    <3>2. CASE i \notin DOMAIN pull.seen
      <4>1. PICK s \in DOMAIN pull.sf : table[i] = Salesforce!RowOf(s)
        BY <2>1, <3>2
      <4>2. table'[i] = Salesforce!RowOf(s) /\ table'[i].Id = s
        BY <1>4, <1>7, <3>2, <4>1, PullKnown
      <4> QED
        BY <4>2
    <3>3. CASE i \in DOMAIN pull.seen /\ i \notin Salesforce!Range(last)
      <4>1. table'[i].Id = pull.seen[i]
        BY <2>1, <2>3, <3>3
      <4>2. table'[i].Id \in Old
        BY <2>4, <3>3, <4>1 DEF Salesforce!Known, Salesforce!Range
      <4> DEFINE j == last[table'[i].Id]
      <4>3. j \in DOMAIN table /\ j # i /\ pull.seen[j] = table'[i].Id
        BY <1>1, <1>5, <2>1, <3>3, <4>2
      <4>4. table'[j].Id = table'[i].Id
        BY <1>5, <2>1, <2>3, <4>2, <4>3
      <4> QED
        BY <4>3, <4>4
    <3> QED
      BY <3>1, <3>2, <3>3
  <2> QED
    BY <1>3, <1>7, <2>2, <2>4 DEF KnownAreWritten
<1>10. DOMAIN app' \subseteq SfId /\ \A s \in DOMAIN app' : app'[s] \in Value
  BY <1>2 DEF SyncInv, Salesforce!TypeOK
<1> QED
  BY <1>2, <1>8, <1>9, <1>10, TaskMoves

LEMMA DeleteOthersKept == ASSUME SyncInv, Salesforce!DeleteOthers PROVE SyncInv'
<1> DEFINE S == {i \in DOMAIN table : ~Salesforce!Gone(i)}
<1>1. /\ pull.step = "delete" /\ pull' = [pull EXCEPT !.step = "copy"] /\ table' = Salesforce!Restrict(table, S)
      /\ UNCHANGED <<parents, sf, issued, notes, listener, edits, app, salesforceDue, push>>
  BY DEF Salesforce!DeleteOthers, Salesforce!pulling
<1>2. /\ pull'.sf = pull.sf /\ \A s : Salesforce!RowOf(s)' = Salesforce!RowOf(s)
      /\ \A s : Salesforce!PassedOver(s)' <=> Salesforce!PassedOver(s)
  BY <1>1, ReadStays
<1>3. \A i : i \in S <=> i \in DOMAIN table /\ table[i].Id \in DOMAIN pull.sf
  BY DEF Salesforce!Gone
<1> HIDE DEF S
<1>4. DOMAIN table' = S /\ \A i \in S : table'[i] = table[i]
  BY <1>1, RestrictKnown
<1>5. DOMAIN table' \subseteq LocalId /\ \A i \in DOMAIN table' : table'[i] \in Salesforce!Row
  BY <1>3, <1>4, PullKnown
<1>6. ASSUME pull.quiet PROVE KnownAreWritten'
  <2>1. KnownAreWritten
    BY <1>1, <1>6 DEF SyncInv, Mirrored
  <2>2. ASSUME NEW s \in DOMAIN pull.sf PROVE (\E i \in DOMAIN table' : table'[i] = Salesforce!RowOf(s)) \/ Salesforce!PassedOver(s)
    <3>1. ASSUME NEW i \in DOMAIN table, table[i] = Salesforce!RowOf(s)
          PROVE  \E j \in DOMAIN table' : table'[j] = Salesforce!RowOf(s)
      <4>1. table[i].Id = s
        BY <3>1, PullKnown
      <4> QED
        BY <1>3, <1>4, <3>1, <4>1
    <3> QED
      BY <2>1, <3>1 DEF KnownAreWritten
  <2>3. ASSUME NEW i \in S
        PROVE  table'[i] = Salesforce!RowOf(table'[i].Id) \/ \E j \in S \ {i} : table'[j].Id = table'[i].Id
    <3>1. i \in DOMAIN table /\ table[i].Id \in DOMAIN pull.sf
      BY <1>3
    <3>2. table[i] = Salesforce!RowOf(table[i].Id) \/ \E j \in DOMAIN table \ {i} : table[j].Id = table[i].Id
      BY <2>1, <3>1 DEF KnownAreWritten
    <3> QED
      BY <1>3, <1>4, <3>1, <3>2
  <2> QED
    BY <1>2, <1>4, <2>2, <2>3 DEF KnownAreWritten
<1>7. \A i \in DOMAIN table' : table'[i].Id \in DOMAIN pull'.sf
  BY <1>2, <1>3, <1>4
<1>8. DOMAIN app' \subseteq SfId /\ \A s \in DOMAIN app' : app'[s] \in Value
  BY <1>1 DEF SyncInv, Salesforce!TypeOK
<1> QED
  BY <1>1, <1>5, <1>6, <1>7, <1>8, TaskMoves

LEMMA CopyToAppKept == ASSUME SyncInv, Salesforce!CopyToApp PROVE SyncInv'
<1> DEFINE Ids == {table[i].Id : i \in DOMAIN table} \ {None}
<1>1. /\ pull.step = "copy" /\ pull' = [pull EXCEPT !.step = "push"]
      /\ UNCHANGED <<parents, sf, issued, notes, listener, edits, table, salesforceDue, push>>
  BY DEF Salesforce!CopyToApp, Salesforce!pulling
<1>2. PICK from \in [Ids -> LocalId] :
        /\ \A s \in Ids : from[s] \in DOMAIN table /\ table[from[s]].Id = s
        /\ app' = [s \in DOMAIN app \cup Ids |-> IF s \in Ids THEN table[from[s]].value ELSE app[s]]
  BY DEF Salesforce!CopyToApp
<1>3. Ids \subseteq SfId /\ \A i \in DOMAIN table : table[i].value \in Value
  BY PullKnown DEF Salesforce!Row
<1> HIDE DEF Ids
<1>4. DOMAIN app' \subseteq SfId /\ \A s \in DOMAIN app' : app'[s] \in Value
  BY <1>2, <1>3 DEF SyncInv, Salesforce!TypeOK
<1>5. /\ pull'.sf = pull.sf /\ \A s : Salesforce!RowOf(s)' = Salesforce!RowOf(s)
      /\ \A s : Salesforce!PassedOver(s)' <=> Salesforce!PassedOver(s)
  BY <1>1, ReadStays
<1>6. pull.quiet => KnownAreWritten' /\ \A i \in DOMAIN table' : table'[i].Id \in DOMAIN pull'.sf
  BY <1>1, <1>5 DEF SyncInv, Mirrored, KnownAreWritten
<1>7. DOMAIN table' \subseteq LocalId /\ \A i \in DOMAIN table' : table'[i] \in Salesforce!Row
  BY <1>1, PullKnown
<1> QED
  BY <1>1, <1>4, <1>6, <1>7, TaskMoves

\* The records are fetched and the rows read; the task ends; it becomes due.
LEMMA PullEndsKept ==
  ASSUME SyncInv,
         \/ Salesforce!Fetch \/ Salesforce!EndSync \/ Salesforce!FailSync
         \/ Salesforce!BecomeDue \/ Salesforce!SetPush
  PROVE  SyncInv'
<1>1. /\ UNCHANGED <<table, app, parents, sf, issued, notes, listener, edits>>
      /\ salesforceDue' \in BOOLEAN /\ push' \in BOOLEAN
  BY DEF Salesforce!Fetch, Salesforce!EndSync, Salesforce!FailSync, Salesforce!BecomeDue, Salesforce!SetPush,
         Salesforce!pulling, SyncInv, Salesforce!TypeOK
<1>2. CASE pull' = Salesforce!Rest
  <2>1. /\ pull' = [step |-> pull'.step, sf |-> pull'.sf, seen |-> pull'.seen, held |-> pull'.held, quiet |-> pull'.quiet]
        /\ pull'.step = "idle" /\ DOMAIN pull'.sf = {} /\ DOMAIN pull'.seen = {}
    BY <1>2 DEF Salesforce!Rest
  <2>2. PullRead' /\ Mirrored'
    BY <2>1 DEF PullRead, Mirrored
  <2>3. Salesforce!TypeOK'
    BY <1>1, <2>1 DEF SyncInv, Salesforce!TypeOK
  <2> QED
    BY <2>2, <2>3 DEF SyncInv
<1>3. CASE UNCHANGED pull
  <2>1. PullRead' /\ Mirrored'
    BY <1>1, <1>3, OthersKept DEF SyncInv
  <2> QED
    BY <1>1, <1>3, <2>1 DEF SyncInv, Salesforce!TypeOK
<1>4. CASE Salesforce!Fetch
  <2> DEFINE seen == [i \in DOMAIN table |-> table[i].Id]
         held == {h \in {<<table[i].value, table[i].Id>> : i \in DOMAIN table} : h[1] \in External}
  <2>1. pull' = [step |-> "create", sf |-> sf, seen |-> seen, held |-> held, quiet |-> TRUE]
    BY <1>4 DEF Salesforce!Fetch
  <2>2. DOMAIN seen = DOMAIN table /\ \A i \in DOMAIN table : seen[i] = table[i].Id
    OBVIOUS
  <2>3. \A i \in DOMAIN table : table[i].Id \in SfId \cup {None}
    BY PullKnown DEF Salesforce!Row
  <2>8. \A i \in DOMAIN table : table[i].value \in External => <<table[i].value, table[i].Id>> \in held
    <3> SUFFICES ASSUME NEW i \in DOMAIN table, table[i].value \in External
                 PROVE  <<table[i].value, table[i].Id>> \in held
      OBVIOUS
    <3>1. <<table[i].value, table[i].Id>>[1] = table[i].value
      OBVIOUS
    <3> QED
      BY <3>1
  <2> HIDE DEF seen, held
  <2>4. /\ pull' = [step |-> pull'.step, sf |-> pull'.sf, seen |-> pull'.seen, held |-> pull'.held, quiet |-> pull'.quiet]
        /\ pull'.step = "create" /\ pull'.sf = sf /\ pull'.seen = seen /\ pull'.held = held
    BY <2>1
  <2>5. PullRead'
    BY <2>2, <2>3, <2>4 DEF PullRead, SyncInv, Salesforce!TypeOK
  <2>6. Mirrored'
    BY <1>1, <2>2, <2>4, <2>8 DEF Mirrored, RowsAsSeen
  <2>7. Salesforce!TypeOK'
    BY <1>1, <2>2, <2>4 DEF SyncInv, Salesforce!TypeOK
  <2> QED
    BY <2>5, <2>6, <2>7 DEF SyncInv
<1> QED
  BY <1>2, <1>3, <1>4 DEF Salesforce!EndSync, Salesforce!FailSync, Salesforce!BecomeDue, Salesforce!SetPush

LEMMA SyncKept == ASSUME SyncInv, [Salesforce!Next]_salesforceVars PROVE SyncInv'
<1>1. CASE UNCHANGED salesforceVars
  <2>1. PullRead' /\ Mirrored'
    BY <1>1, OthersKept DEF SyncInv, salesforceVars
  <2> QED
    BY <1>1, <2>1 DEF SyncInv, Salesforce!TypeOK, salesforceVars
<1>2. ASSUME NEW op \in {"INSERT", "UPDATE", "DELETE"}, NEW i \in LocalId, NEW row \in Salesforce!Row,
             Salesforce!EditTable(op, i, row)
      PROVE  SyncInv'
  BY <1>2, EditTableKept
<1>3. ASSUME NEW s \in SfId,
             \/ \E r \in Salesforce!Remote : Salesforce!EditSalesforce(s, r)
             \/ Salesforce!DeleteInSalesforce(s) \/ Salesforce!PushInsert(s)
      PROVE  SyncInv'
  BY <1>3, EditSalesforceKept, ListenerKept
<1>4. ASSUME NEW p \in Parent, NEW s \in ParentSfId, Salesforce!SyncParent(p, s) PROVE SyncInv'
  BY <1>4, SyncParentKept
<1>5. CASE Salesforce!Drop \/ Salesforce!StoreId \/ Salesforce!PushChange \/ Salesforce!Crash \/ Salesforce!Restart
  BY <1>5, ListenerKept, StoreIdKept
<1>6. CASE \/ Salesforce!Fetch \/ Salesforce!BulkCreate \/ Salesforce!BulkUpdate \/ Salesforce!DeleteOthers
           \/ Salesforce!CopyToApp \/ Salesforce!EndSync \/ Salesforce!FailSync
           \/ Salesforce!BecomeDue \/ Salesforce!SetPush
  BY <1>6, BulkCreateKept, BulkUpdateKept, DeleteOthersKept, CopyToAppKept, PullEndsKept
<1> QED
  BY <1>1, <1>2, <1>3, <1>4, <1>5, <1>6 DEF Salesforce!Next

\* A pull during which nobody else touched the table leaves each record it fetched in a row, unless
\* it passed the record over because its external id was another row's or record's, and no row of
\* anything else, after whatever pushes, failures and edits; only where two rows had one Id may one
\* of them be out of date.
THEOREM PullTheorem == Spec => []PullHolds
<1> DEFINE Inv == service = "salesforce" => SyncInv
<1>1. Init => Inv
  BY OneServiceAtFirst, SyncAtFirst
<1>2. Inv /\ [Next]_vars => Inv'
  BY OneService, SyncKept
<1>3. Inv => PullHolds
  BY DEF SyncInv, Mirrored, KnownAreWritten, PullHolds, Salesforce!PullMirrors
<1> QED
  BY <1>1, <1>2, <1>3, PTL DEF Spec

-----------------------------------------------------------------------------
\* The routing of calls

LEMMA Remainder ==
  ASSUME NEW x \in Nat, NEW n \in Nat \ {0}
  PROVE  x % n \in Nat /\ x % n \in 0..(n - 1) /\ (x % n) % n = x % n
OBVIOUS

\* The next remainder is one more, or 0.
LEMMA NextRemainder ==
  ASSUME NEW x \in Nat, NEW n \in Nat \ {0}
  PROVE  (x + 1) % n = IF (x % n) + 1 = n THEN 0 ELSE (x % n) + 1
<1>1. PICK q \in Nat, r \in Nat : r < n /\ x = n * q + r /\ r = x % n
  <2>1. x \div n \in Nat /\ x % n \in Nat /\ x % n < n /\ x = n * (x \div n) + (x % n)
    OBVIOUS
  <2> QED
    BY <2>1
<1>2. ASSUME NEW k \in Nat, NEW s \in Nat, s < n PROVE (n * k + s) % n = s
  BY <1>2
<1>3. CASE r + 1 = n
  <2>1. x + 1 = n * (q + 1) + 0 /\ q + 1 \in Nat
    <3> DEFINE m == n * q
    <3>5. x = m + r /\ m \in Int
      BY <1>1
    <3> HIDE DEF m
    <3>4. x + 1 = m + n
      BY <1>1, <1>3, <3>5
    <3>1. x + 1 = n * q + n
      BY <3>4 DEF m
    <3>2. n * (q + 1) = n * q + n
      OBVIOUS
    <3> QED
      BY <3>1, <3>2
  <2>2. (n * (q + 1) + 0) % n = 0
    BY <1>2, <2>1
  <2>3. (x + 1) % n = 0
    BY <2>1, <2>2
  <2> QED
    BY <1>1, <1>3, <2>3
<1>4. CASE r + 1 # n
  <2>1. x + 1 = n * q + (r + 1) /\ r + 1 \in Nat /\ r + 1 < n
    BY <1>1, <1>4
  <2>2. (n * q + (r + 1)) % n = r + 1
    BY <1>2, <2>1
  <2>3. (x + 1) % n = r + 1
    BY <2>1, <2>2
  <2> QED
    BY <1>1, <1>4, <2>3
<1> QED
  BY <1>3, <1>4

\* The users of a group are different ones.
LEMMA ListingKnown ==
  ASSUME NEW s \in Routing!Listings
  PROVE  /\ s \in Seq(Agent) /\ Len(s) \in Nat /\ DOMAIN s = 1..Len(s)
         /\ \A i, j \in DOMAIN s : s[i] = s[j] => i = j
<1>1. PICK n \in 0..Routing!Cardinality(Agent) : s \in [1..n -> Agent] /\ \A i, j \in DOMAIN s : i < j => s[i] < s[j]
  BY DEF Routing!Listings
<1>2. n \in Nat /\ Agent \subseteq Nat
  BY ServicesAssumption DEF Routing!RoutingAssumption
<1>3. s \in Seq(Agent) /\ Len(s) = n /\ DOMAIN s = 1..n
  BY <1>1, <1>2
<1>4. ASSUME NEW i \in DOMAIN s, NEW j \in DOMAIN s, s[i] = s[j] PROVE i = j
  <2>1. i \in 1..n /\ j \in 1..n
    BY <1>3
  <2>2. s[i] \in Agent /\ i \in Nat /\ j \in Nat
    BY <1>1, <2>1
  <2>3. s[i] \in Nat
    BY <1>2, <2>2
  <2>4. ~(i < j) /\ ~(j < i)
    BY <1>1, <1>4, <2>3
  <2> QED
    BY <2>2, <2>4
<1> QED
  BY <1>2, <1>3, <1>4

\* The index of the user picked j turns before the one at p, of n users; positions count from 0.
Slot(p, n, j) == IF p - 1 - j >= 0 THEN p - j ELSE p - j + n

\* The picks are those of the turns before p, the last one last.
Follows(s, p) ==
  /\ Len(s) <= Len(members)
  /\ \A i \in DOMAIN s : s[i] = members[Slot(p, Len(members), Len(s) - i)]

Waits(r, w) == asking[r].worker = w /\ asking[r].at > 0

\* While there are picks to remember: at most one request of the worker has read the pointer and
\* not moved it, it read the group as it is, and the picks are those of the turns before.
Turns ==
  \A w \in Worker : picks[w] # <<>> =>
    /\ members # <<>>
    /\ \A r \in Request : Waits(r, w) =>
         asking[r].users = members /\ Follows(picks[w], asking[r].at % Len(members))
    /\ \A q, r \in Request : Waits(q, w) /\ Waits(r, w) => q = r
    /\ (\A r \in Request : ~Waits(r, w)) => Follows(picks[w], pointer[w] % Len(members))

Askers == \A r \in Request : asking[r] = Routing!Idle \/ (asking[r].worker \in Worker /\ asking[r].users # <<>>)

RoutingInv == Routing!TypeOK /\ Askers /\ Turns

\* A turn more.
LEMMA FollowsOn ==
  ASSUME NEW n \in Nat \ {0}, NEW p \in 0..(n - 1), NEW j \in Nat, j + 1 < n
  PROVE  Slot(p, n, j) = Slot(IF p + 1 = n THEN 0 ELSE p + 1, n, j + 1)
BY DEF Slot

LEMMA Different ==
  ASSUME NEW n \in Nat \ {0}, NEW p \in 0..(n - 1), NEW i \in 0..(n - 1), NEW j \in 0..(n - 1)
  PROVE  Slot(p, n, i) \in 1..n /\ (Slot(p, n, i) = Slot(p, n, j) => i = j)
BY DEF Slot

LEMMA RoutingAtFirst == Routing!Init => RoutingInv
<1> SUFFICES ASSUME Routing!Init PROVE RoutingInv
  OBVIOUS
<1>1. <<>> \in Routing!Listings
  <2>1. <<>> \in [1..0 -> Agent] /\ DOMAIN <<>> = {}
    OBVIOUS
  <2>2. IsFiniteSet(Agent)
    BY ServicesAssumption DEF Routing!RoutingAssumption, Routing!IsFiniteSet, IsFiniteSet
  <2>3. Routing!Cardinality(Agent) \in Nat
    BY <2>2, FS_CardinalityType DEF Routing!Cardinality, Cardinality
  <2> QED
    BY <2>1, <2>3 DEF Routing!Listings
<1>2. Routing!TypeOK
  BY <1>1 DEF Routing!Init, Routing!TypeOK, Routing!Idle
<1>3. Askers /\ Turns
  BY DEF Routing!Init, Askers, Turns
<1> QED
  BY <1>2, <1>3 DEF RoutingInv

\* The user at p is picked: the picks are those of the turns before the next.
LEMMA PickFollows ==
  ASSUME members \in Routing!Listings, members # <<>>, NEW s \in Seq(Agent), NEW p \in 0..(Len(members) - 1),
         Follows(s, p)
  PROVE  /\ Routing!Lately(Append(s, members[p + 1]), Len(members)) \in Seq(Agent)
         /\ Follows(Routing!Lately(Append(s, members[p + 1]), Len(members)),
                    IF p + 1 = Len(members) THEN 0 ELSE p + 1)
<1> DEFINE n == Len(members)
           u == members[p + 1]
           t == Append(s, u)
           next == IF p + 1 = n THEN 0 ELSE p + 1
<1>1. n \in Nat \ {0} /\ u \in Agent /\ members \in Seq(Agent)
  <2>1. members \in Seq(Agent) /\ n \in Nat /\ n # 0
    BY ListingKnown
  <2>2. p + 1 \in 1..Len(members)
    BY <2>1
  <2> QED
    BY <2>1, <2>2
<1>2. /\ Len(s) \in Nat /\ DOMAIN s = 1..Len(s) /\ Len(s) <= n
      /\ t \in Seq(Agent) /\ Len(t) = Len(s) + 1 /\ DOMAIN t = 1..(Len(s) + 1)
      /\ t[Len(s) + 1] = u /\ \A i \in 1..Len(s) : t[i] = s[i]
  BY <1>1 DEF Follows
<1>3. p \in 0..(n - 1) /\ next \in 0..(n - 1)
  BY <1>1
<1> HIDE DEF n, u, t, next
<1>4. ASSUME NEW j \in Nat, j + 1 < n PROVE Slot(p, n, j) = Slot(next, n, j + 1)
  BY <1>1, <1>3, <1>4, FollowsOn DEF next
<1>5. Slot(next, n, 0) = p + 1
  BY <1>1, <1>3 DEF Slot, next
<1>6. ASSUME NEW i \in 1..(Len(s) + 1), Len(s) + 1 - i < n
      PROVE  t[i] = members[Slot(next, n, Len(s) + 1 - i)]
  <2>1. CASE i = Len(s) + 1
    BY <1>2, <1>5, <2>1 DEF u
  <2>2. CASE i # Len(s) + 1
    <3>1. i \in 1..Len(s) /\ Len(s) - i \in Nat /\ (Len(s) - i) + 1 = Len(s) + 1 - i
      BY <1>2, <2>2
    <3>2. s[i] = members[Slot(p, n, Len(s) - i)]
      BY <1>2, <3>1 DEF Follows, n
    <3>3. Slot(p, n, Len(s) - i) = Slot(next, n, (Len(s) - i) + 1)
      BY <1>4, <1>6, <3>1
    <3> QED
      BY <1>2, <3>1, <3>2, <3>3
  <2> QED
    BY <2>1, <2>2
<1>7. CASE Len(t) <= n
  <2>1. Routing!Lately(t, n) = t
    BY <1>1, <1>2, <1>7 DEF Routing!Lately
  <2>2. Follows(t, next)
    BY <1>1, <1>2, <1>6, <1>7 DEF Follows, n
  <2> QED
    BY <1>2, <2>1, <2>2 DEF n, t, u, next
<1>8. CASE Len(t) > n
  <2>1. Len(t) = n + 1 /\ Len(s) = n
    <3>1. Len(t) = Len(s) + 1 /\ Len(s) <= n /\ Len(s) \in Nat
      BY <1>2
    <3>2. n \in Nat
      BY <1>1
    <3> QED
      BY <1>8, <3>1, <3>2
  <2> DEFINE late == SubSeq(t, 2, n + 1)
  <2>2. Routing!Lately(t, n) = late
    BY <1>1, <1>2, <2>1 DEF Routing!Lately
  <2>3. late \in Seq(Agent) /\ Len(late) = n /\ DOMAIN late = 1..n /\ \A i \in 1..n : late[i] = t[i + 1]
    BY <1>1, <1>2, <2>1
  <2> HIDE DEF late
  <2>4. ASSUME NEW i \in 1..n PROVE late[i] = members[Slot(next, n, n - i)]
    <3>1. i + 1 \in 1..(Len(s) + 1) /\ Len(s) + 1 - (i + 1) = n - i /\ n - i < n
      BY <1>1, <2>1
    <3>2. t[i + 1] = members[Slot(next, n, n - i)]
      BY <1>6, <3>1
    <3> QED
      BY <2>3, <3>2
  <2>5. Follows(late, next)
    <3>1. \A i \in DOMAIN late : late[i] = members[Slot(next, n, Len(late) - i)]
      BY <2>3, <2>4
    <3>2. Len(late) <= n
      BY <1>1, <2>3
    <3> QED
      BY <3>1, <3>2 DEF Follows, n
  <2> QED
    BY <2>2, <2>3, <2>5 DEF n, t, u, next
<1> QED
  BY <1>1, <1>2, <1>7, <1>8

\* A request reads the group.
LEMMA FetchUsersKept ==
  ASSUME RoutingInv, NEW r \in Request, NEW w \in Worker, Routing!FetchUsers(r, w) PROVE RoutingInv'
<1> DEFINE x == [worker |-> w, users |-> members, at |-> 0]
<1>1. /\ asking[r] = Routing!Idle /\ members # <<>> /\ asking' = [asking EXCEPT ![r] = x]
      /\ UNCHANGED <<members, pointer, picks>>
  BY DEF Routing!FetchUsers
<1>2. x \in [worker : Worker \cup {None}, users : Routing!Listings, at : Nat] /\ x.worker = w /\ x.users = members /\ x.at = 0
  BY DEF RoutingInv, Routing!TypeOK
<1> HIDE DEF x
<1>3. asking' \in [Request -> [worker : Worker \cup {None}, users : Routing!Listings, at : Nat]]
      /\ \A q \in Request : asking'[q] = IF q = r THEN x ELSE asking[q]
  BY <1>1, <1>2 DEF RoutingInv, Routing!TypeOK
<1>4. Routing!TypeOK'
  BY <1>1, <1>3 DEF RoutingInv, Routing!TypeOK
<1>5. Askers'
  BY <1>1, <1>2, <1>3 DEF RoutingInv, Askers
<1>6. ASSUME NEW q \in Request, NEW v PROVE /\ Waits(q, v)' <=> Waits(q, v)
                                            /\ Waits(q, v) => asking'[q] = asking[q]
  <2>1. asking[r].at = 0
    BY <1>1 DEF Routing!Idle
  <2> QED
    BY <1>2, <1>3, <2>1 DEF Waits
<1>7. Turns'
  BY <1>1, <1>6 DEF RoutingInv, Turns, Follows
<1> QED
  BY <1>4, <1>5, <1>7 DEF RoutingInv

\* The pointer is read, and a user picked.
LEMMA PickKept == ASSUME RoutingInv, NEW r \in Request, Routing!Pick(r) PROVE RoutingInv'
<1> DEFINE w == asking[r].worker
           n == Len(asking[r].users)
           k == (pointer[w] % n) + 1
           s == IF Routing!Disturbed(r) THEN <<>> ELSE Routing!Lately(Append(picks[w], asking[r].users[k]), n)
<1>1. /\ asking[r] # Routing!Idle /\ asking[r].at = 0 /\ UNCHANGED <<members, pointer>>
      /\ asking' = [asking EXCEPT ![r].at = pointer[w] + 1]
      /\ picks' = [picks EXCEPT ![w] = s]
  BY DEF Routing!Pick
<1>2. /\ asking \in [Request -> [worker : Worker \cup {None}, users : Routing!Listings, at : Nat]]
      /\ pointer \in [Worker -> Nat] /\ picks \in [Worker -> Seq(Agent)] /\ members \in Routing!Listings
  BY DEF RoutingInv, Routing!TypeOK
<1>3. w \in Worker /\ asking[r].users # <<>> /\ pointer[w] \in Nat /\ pointer[w] + 1 > 0 /\ pointer[w] + 1 \in Nat
  BY <1>1, <1>2 DEF RoutingInv, Askers
<1>4. /\ asking' \in [Request -> [worker : Worker \cup {None}, users : Routing!Listings, at : Nat]]
      /\ \A q \in Request : /\ asking'[q].worker = asking[q].worker /\ asking'[q].users = asking[q].users
                            /\ asking'[q].at = IF q = r THEN pointer[w] + 1 ELSE asking[q].at
      /\ \A q \in Request : q # r => asking'[q] = asking[q]
  BY <1>1, <1>2, <1>3
<1>5. /\ ~Routing!Disturbed(r) => /\ asking[r].users = members /\ members # <<>>
                                  /\ \A q \in Request : ~Waits(q, w)
  BY <1>1, <1>3 DEF Routing!Disturbed, Waits
<1>6. /\ s \in Seq(Agent)
      /\ ~Routing!Disturbed(r) => Follows(s, (pointer[w] + 1) % Len(members))
  <2>1. CASE Routing!Disturbed(r)
    BY <2>1
  <2>2. CASE ~Routing!Disturbed(r)
    <3> DEFINE p == pointer[w] % Len(members)
    <3>1. Len(members) \in Nat \ {0}
      BY <1>2, <1>5, <2>2, ListingKnown
    <3>2. p \in 0..(Len(members) - 1) /\ (pointer[w] + 1) % Len(members) = IF p + 1 = Len(members) THEN 0 ELSE p + 1
      BY <1>3, <3>1, Remainder, NextRemainder
    <3>3. Follows(picks[w], p)
      <4>1. CASE picks[w] = <<>>
        BY <3>1, <4>1 DEF Follows
      <4>2. CASE picks[w] # <<>>
        BY <1>3, <1>5, <2>2, <4>2 DEF RoutingInv, Turns
      <4> QED
        BY <4>1, <4>2
    <3>4. s = Routing!Lately(Append(picks[w], members[p + 1]), Len(members))
      BY <1>5, <2>2
    <3>5. picks[w] \in Seq(Agent) /\ members # <<>>
      BY <1>2, <1>3, <1>5, <2>2
    <3> HIDE DEF s, p
    <3> QED
      BY <1>2, <3>2, <3>3, <3>4, <3>5, PickFollows
  <2> QED
    BY <2>1, <2>2
<1>7. Routing!Disturbed(r) => s = <<>>
  OBVIOUS
<1> HIDE DEF s
<1>8. \A v \in Worker : picks'[v] = IF v = w THEN s ELSE picks[v]
  BY <1>1, <1>2
<1>9. Routing!TypeOK'
  BY <1>1, <1>2, <1>3, <1>4, <1>6 DEF Routing!TypeOK
<1>10. Askers'
  <2>1. ASSUME NEW q \in Request
        PROVE  asking'[q] = Routing!Idle \/ (asking'[q].worker \in Worker /\ asking'[q].users # <<>>)
    <3>1. CASE q = r
      BY <1>3, <1>4, <3>1
    <3>2. CASE q # r
      BY <1>4, <3>2 DEF RoutingInv, Askers
    <3> QED
      BY <3>1, <3>2
  <2> QED
    BY <2>1 DEF Askers, Routing!Idle
<1>11. ASSUME NEW v \in Worker, picks'[v] # <<>>
       PROVE  /\ members # <<>>
              /\ \A q \in Request : Waits(q, v)' =>
                   asking'[q].users = members /\ Follows(picks'[v], asking'[q].at % Len(members))
              /\ \A q, x \in Request : Waits(q, v)' /\ Waits(x, v)' => q = x
              /\ (\A q \in Request : ~Waits(q, v)') => Follows(picks'[v], pointer[v] % Len(members))
  <2>1. CASE v = w
    <3>1. ~Routing!Disturbed(r)
      BY <1>7, <1>8, <1>11, <2>1
    <3>2. \A q \in Request : Waits(q, w)' <=> q = r
      BY <1>3, <1>4, <1>5, <3>1 DEF Waits
    <3> QED
      BY <1>4, <1>5, <1>6, <1>8, <2>1, <3>1, <3>2
  <2>2. CASE v # w
    <3>1. \A q \in Request : (Waits(q, v)' <=> Waits(q, v)) /\ (Waits(q, v) => q # r)
      BY <1>3, <1>4, <2>2 DEF Waits
    <3>2. picks'[v] = picks[v]
      BY <1>8, <2>2
    <3> QED
      BY <1>4, <1>11, <3>1, <3>2 DEF RoutingInv, Turns
  <2> QED
    BY <2>1, <2>2
<1>12. Turns'
  BY <1>1, <1>11 DEF Turns, Follows
<1> QED
  BY <1>9, <1>10, <1>12 DEF RoutingInv

\* The pointer is moved.
LEMMA AdvanceKept == ASSUME RoutingInv, NEW r \in Request, Routing!Advance(r) PROVE RoutingInv'
<1> DEFINE w == asking[r].worker
           n == Len(asking[r].users)
           quiet == \A q \in Request \ {r} : asking[q].worker # w \/ asking[q].at = 0
<1>1. /\ asking[r].at > 0 /\ asking' = [asking EXCEPT ![r] = Routing!Idle] /\ UNCHANGED members
      /\ pointer' = [pointer EXCEPT ![w] = asking[r].at % n]
      /\ picks' = IF quiet /\ asking[r].users = members THEN picks ELSE [picks EXCEPT ![w] = <<>>]
  BY DEF Routing!Advance, Routing!NextPointer
<1>2. /\ asking \in [Request -> [worker : Worker \cup {None}, users : Routing!Listings, at : Nat]]
      /\ pointer \in [Worker -> Nat] /\ picks \in [Worker -> Seq(Agent)] /\ members \in Routing!Listings
  BY DEF RoutingInv, Routing!TypeOK
<1>3. w \in Worker /\ asking[r].users # <<>> /\ asking[r].users \in Routing!Listings /\ asking[r].at \in Nat
  BY <1>1, <1>2 DEF RoutingInv, Askers, Routing!Idle
<1>4. n \in Nat \ {0} /\ asking[r].at % n \in Nat /\ (asking[r].at % n) % n = asking[r].at % n
  <2>1. n \in Nat \ {0}
    BY <1>3, ListingKnown
  <2> DEFINE x == asking[r].at
  <2>2. x \in Nat
    BY <1>3
  <2> HIDE DEF n, x
  <2>3. x % n \in Nat /\ (x % n) % n = x % n
    BY <2>1, <2>2, Remainder
  <2> QED
    BY <2>1, <2>3 DEF x
<1>5. <<>> \in Routing!Listings
  <2>1. <<>> \in [1..0 -> Agent] /\ DOMAIN <<>> = {}
    OBVIOUS
  <2>2. Routing!Cardinality(Agent) \in Nat
    BY ServicesAssumption, FS_CardinalityType
       DEF Routing!RoutingAssumption, Routing!IsFiniteSet, IsFiniteSet, Routing!Cardinality, Cardinality
  <2> QED
    BY <2>1, <2>2 DEF Routing!Listings
<1>6. /\ Routing!Idle \in [worker : Worker \cup {None}, users : Routing!Listings, at : Nat]
      /\ Routing!Idle.at = 0
  BY <1>5 DEF Routing!Idle
<1>7. /\ asking' \in [Request -> [worker : Worker \cup {None}, users : Routing!Listings, at : Nat]]
      /\ \A q \in Request : asking'[q] = IF q = r THEN Routing!Idle ELSE asking[q]
  BY <1>1, <1>2, <1>6
<1>8. picks' \in [Worker -> Seq(Agent)] /\ pointer' \in [Worker -> Nat]
  <2> DEFINE y == asking[r].at % n
  <2>1. y \in Nat /\ pointer' = [pointer EXCEPT ![w] = y]
    BY <1>1, <1>4
  <2>2. <<>> \in Seq(Agent)
    OBVIOUS
  <2>3. picks' = picks \/ picks' = [picks EXCEPT ![w] = <<>>]
    BY <1>1
  <2> HIDE DEF y
  <2> QED
    BY <1>2, <2>1, <2>2, <2>3
<1>9. Routing!TypeOK'
  BY <1>1, <1>2, <1>7, <1>8 DEF Routing!TypeOK
<1>10. Askers'
  BY <1>7 DEF RoutingInv, Askers, Routing!Idle
<1>11. ASSUME NEW v \in Worker, picks'[v] # <<>>
       PROVE  /\ members # <<>>
              /\ \A q \in Request : Waits(q, v)' =>
                   asking'[q].users = members /\ Follows(picks'[v], asking'[q].at % Len(members))
              /\ \A q, x \in Request : Waits(q, v)' /\ Waits(x, v)' => q = x
              /\ (\A q \in Request : ~Waits(q, v)') => Follows(picks'[v], pointer'[v] % Len(members))
  <2>1. picks'[v] = picks[v] /\ (v = w => quiet /\ asking[r].users = members)
    BY <1>1, <1>2, <1>11
  <2>2. \A q \in Request : Waits(q, v)' => q # r /\ Waits(q, v) /\ asking'[q] = asking[q]
    BY <1>6, <1>7 DEF Waits
  <2>3. CASE v = w
    <3>1. \A q \in Request : ~Waits(q, v)'
      BY <2>1, <2>2, <2>3 DEF Waits
    <3>2. Waits(r, v)
      BY <1>1, <2>3 DEF Waits
    <3>3. members # <<>> /\ Follows(picks[v], asking[r].at % Len(members))
      BY <1>11, <2>1, <3>2 DEF RoutingInv, Turns
    <3>4. pointer'[v] = asking[r].at % n /\ n = Len(members)
      BY <1>1, <1>2, <1>3, <2>1, <2>3
    <3> QED
      BY <1>4, <2>1, <3>1, <3>3, <3>4
  <2>4. CASE v # w
    <3>1. \A q \in Request : Waits(q, v) => Waits(q, v)'
      BY <1>7, <2>4 DEF Waits
    <3>2. pointer'[v] = pointer[v]
      BY <1>1, <1>2, <2>4
    <3> QED
      BY <1>11, <2>1, <2>2, <3>1, <3>2 DEF RoutingInv, Turns
  <2> QED
    BY <2>3, <2>4
<1>12. Turns'
  BY <1>1, <1>11 DEF Turns, Follows
<1> QED
  BY <1>9, <1>10, <1>12 DEF RoutingInv

LEMMA RoutingKept == ASSUME RoutingInv, [Routing!Next]_routingVars PROVE RoutingInv'
<1>1. CASE UNCHANGED routingVars
  BY <1>1 DEF routingVars, RoutingInv, Routing!TypeOK, Askers, Turns, Follows, Waits
<1>2. ASSUME NEW S \in Routing!Listings, Routing!SetMembers(S) PROVE RoutingInv'
  <2>1. /\ members' = S /\ picks' = [w \in Worker |-> <<>>] /\ UNCHANGED <<pointer, asking>>
    BY <1>2 DEF Routing!SetMembers
  <2>2. picks' \in [Worker -> Seq(Agent)] /\ \A w \in Worker : picks'[w] = <<>>
    BY <2>1
  <2>3. Routing!TypeOK' /\ Askers'
    BY <2>1, <2>2 DEF RoutingInv, Routing!TypeOK, Askers
  <2>4. Turns'
    BY <2>2 DEF Turns
  <2> QED
    BY <2>3, <2>4 DEF RoutingInv
<1> QED
  BY <1>1, <1>2, FetchUsersKept, PickKept, AdvanceKept DEF Routing!Next

\* As many picks in a row as the group has users go to different users.
LEMMA RoundRobinHolds == RoutingInv => Routing!RoundRobin
<1> SUFFICES ASSUME RoutingInv, NEW w \in Worker, NEW i \in DOMAIN picks[w], NEW j \in DOMAIN picks[w],
                    picks[w][i] = picks[w][j]
             PROVE  i = j
  BY DEF Routing!RoundRobin, Routing!IsInjective
<1> DEFINE s == picks[w]
           n == Len(members)
<1>1. s \in Seq(Agent) /\ DOMAIN s = 1..Len(s) /\ Len(s) \in Nat /\ s # <<>>
  BY DEF RoutingInv, Routing!TypeOK
<1>2. members # <<>> /\ n \in Nat \ {0} /\ members \in Routing!Listings
  BY <1>1, ListingKnown DEF RoutingInv, Turns, Routing!TypeOK
<1>3. PICK x \in Nat : Follows(s, x % n)
  BY <1>1 DEF RoutingInv, Turns, Routing!TypeOK
<1> DEFINE p == x % n
<1>4. p \in 0..(n - 1)
  BY <1>2, Remainder
<1> HIDE DEF n, p
<1>5. Follows(s, p) /\ n = Len(members)
  BY <1>3 DEF n, p
<1>6. Len(s) <= n /\ \A h \in DOMAIN s : s[h] = members[Slot(p, n, Len(s) - h)]
  BY <1>5 DEF Follows
<1>7. /\ Len(s) - i \in 0..(n - 1) /\ Len(s) - j \in 0..(n - 1)
      /\ s[i] = members[Slot(p, n, Len(s) - i)] /\ s[j] = members[Slot(p, n, Len(s) - j)]
  BY <1>1, <1>2, <1>6
<1>8. Slot(p, n, Len(s) - i) \in 1..n /\ Slot(p, n, Len(s) - j) \in 1..n
  BY <1>2, <1>4, <1>7, Different
<1>9. Slot(p, n, Len(s) - i) = Slot(p, n, Len(s) - j)
  <2>1. DOMAIN members = 1..n /\ \A a, b \in DOMAIN members : members[a] = members[b] => a = b
    BY <1>2, <1>5, ListingKnown
  <2>2. members[Slot(p, n, Len(s) - i)] = members[Slot(p, n, Len(s) - j)]
    BY <1>7
  <2> QED
    BY <1>8, <2>1, <2>2
<1>10. Len(s) - i = Len(s) - j
  BY <1>2, <1>4, <1>7, <1>9, Different
<1> QED
  BY <1>1, <1>10

-----------------------------------------------------------------------------
\* The setup of telephony

\* A number is one of an account that is connected to the object.
Serves(n, o) == \E c \in configs : c.id = n.config /\ c.object = o

Alone == \A q, r \in Request : request[q].at # "idle" /\ request[r].at # "idle" => q = r

Connected ==
  /\ \A c \in configs : c.id \in 1..begun
  /\ \A c, d \in configs : c.id = d.id \/ c.account = d.account => c = d
  /\ \A n \in numbers : \E c \in configs : c.id = n.config

OnceEach ==
  \A m, n \in numbers : \A o : ~m.alone /\ ~n.alone /\ m.group = n.group /\ Serves(m, o) /\ Serves(n, o) => m = n

\* What a request has found out, as long as no other stores anything: its account has no row, the
\* groups it may not use, and the numbers it stored itself.
Checked(k) ==
  /\ k.at \in {"account", "used", "config"} => \A c \in configs : c.id # k.id
  /\ k.at \in {"used", "config"} => \A c \in configs : c.account # k.sent.account
  /\ k.at = "used" => k.seen = {c \in configs : c.object = k.sent.object}
  /\ k.at = "config" => \A n \in numbers : ~n.alone /\ Serves(n, k.sent.object) => n.group \in k.used
  /\ k.at = "numbers" =>
       /\ \E c \in configs : c.id = k.id /\ c.object = k.sent.object
       /\ \A n \in numbers : ~n.alone /\ Serves(n, k.sent.object) =>
            \/ n.config # k.id /\ n.group \in k.used
            \/ n.config = k.id /\ n.place \in 1..(k.next - 1) /\ n.group = k.sent.groups[n.place]

Begun == \A r \in Request : request[r].at # "idle" => request[r].id \in 1..begun /\ request[r].sent \in Payload

Sequential == Alone /\ Connected /\ OnceEach /\ \A r \in Request : Checked(request[r])

SetupInv == Setup!TypeOK /\ Begun /\ (~overlapped => Sequential)

Asking == [at : {"idle", "account", "used", "config", "numbers"}, id : Setup!Id \cup {None},
           sent : Payload \cup {None}, seen : SUBSET configs, used : SUBSET Group, next : Nat \ {0}]

LEMMA SetupIdle == Setup!Idle \in Asking /\ Setup!Idle.at = "idle"
BY DEF Setup!Idle, Asking

LEMMA SetupAtFirst == Setup!Init => SetupInv
<1> SUFFICES ASSUME Setup!Init PROVE SetupInv
  OBVIOUS
<1>1. \A r \in Request : request[r] = Setup!Idle
  BY DEF Setup!Init
<1>2. request \in [Request -> Asking]
  BY SetupIdle DEF Setup!Init
<1>3. Setup!TypeOK
  <2>1. configs = {} /\ numbers = {} /\ overlapped = FALSE /\ begun = 0 /\ 0 \in 0..MaxRequests
    BY ServicesAssumption DEF Setup!Init, Setup!SetupAssumption
  <2> QED
    BY <1>2, <2>1 DEF Setup!TypeOK, Asking
<1>4. Begun /\ Sequential
  BY <1>1, SetupIdle DEF Setup!Init, Begun, Sequential, Alone, Connected, OnceEach, Checked
<1> QED
  BY <1>3, <1>4 DEF SetupInv

\* What is known of a request that goes on.
LEMMA RequestKnown ==
  ASSUME SetupInv, NEW r \in Request
  PROVE  /\ request \in [Request -> Asking] /\ request[r] \in Asking
         /\ request[r].seen \subseteq configs /\ request[r].used \subseteq Group /\ request[r].next \in Nat \ {0}
         /\ request[r].at # "idle" =>
              /\ request[r].id \in 1..begun /\ request[r].id \in Setup!Id /\ request[r].sent \in Payload
              /\ request[r].sent.account \in Account /\ request[r].sent.object \in Object
              /\ request[r].sent.groups \in Seq(Group \cup {None})
<1>1. request \in [Request -> Asking]
  BY DEF SetupInv, Setup!TypeOK, Asking
<1>2. request[r] \in Asking
  BY <1>1
<1>3. request[r].at # "idle" => request[r].id \in 1..begun /\ request[r].sent \in Payload
  BY DEF SetupInv, Begun
<1>4. begun \in 0..MaxRequests /\ MaxRequests \in Nat
  BY ServicesAssumption DEF SetupInv, Setup!TypeOK, Setup!SetupAssumption
<1>5. request[r].at # "idle" => request[r].id \in Setup!Id
  BY <1>3, <1>4 DEF Setup!Id
<1>6. Payload \subseteq [account : Account, object : Object, groups : Seq(Group \cup {None})]
  BY ServicesAssumption DEF Setup!SetupAssumption
<1> QED
  BY <1>1, <1>2, <1>3, <1>5, <1>6 DEF Asking

\* A request moves while the rows stay.
LEMMA RequestMoves ==
  ASSUME SetupInv, NEW r \in Request, request' \in [Request -> Asking],
         \A q \in Request : q # r => request'[q] = request[q],
         UNCHANGED <<configs, numbers, begun, overlapped>>,
         request'[r].at # "idle" =>
           /\ request[r].at # "idle" /\ request'[r].id = request[r].id /\ request'[r].sent = request[r].sent
           /\ ~overlapped => Checked(request'[r])
  PROVE  SetupInv'
<1>1. Setup!TypeOK'
  BY DEF SetupInv, Setup!TypeOK, Asking, Setup!Id
<1>2. Begun'
  BY DEF SetupInv, Begun
<1>3. ASSUME ~overlapped PROVE Sequential'
  <2>1. Alone'
    BY <1>3 DEF SetupInv, Sequential, Alone
  <2>2. Connected' /\ OnceEach'
    BY <1>3 DEF SetupInv, Sequential, Connected, OnceEach, Serves
  <2>3. ASSUME NEW q \in Request PROVE Checked(request'[q])
    <3>1. CASE q # r
      BY <1>3, <3>1 DEF SetupInv, Sequential
    <3>2. CASE q = r /\ request'[r].at = "idle"
      BY <3>2 DEF Checked
    <3>3. CASE q = r /\ request'[r].at # "idle"
      BY <1>3, <3>3
    <3> QED
      BY <3>1, <3>2, <3>3
  <2>4. ASSUME NEW q \in Request PROVE Checked(request[q])'
    BY <2>3 DEF Checked, Serves
  <2> QED
    BY <2>1, <2>2, <2>4 DEF Sequential
<1> QED
  BY <1>1, <1>2, <1>3 DEF SetupInv

LEMMA StopsKept ==
  ASSUME SetupInv, NEW r \in Request, Setup!Stops(r), UNCHANGED <<configs, numbers, begun, overlapped>>
  PROVE  SetupInv'
<1>1. request' = [request EXCEPT ![r] = Setup!Idle]
  BY DEF Setup!Stops
<1>2. request' \in [Request -> Asking] /\ request'[r].at = "idle" /\ \A q \in Request : q # r => request'[q] = request[q]
  BY <1>1, SetupIdle, RequestKnown
<1> QED
  BY <1>2, RequestMoves

\* The account's row is looked for, and the rows of the object are read.
LEMMA CheckAccountKept == ASSUME SetupInv, NEW r \in Request, Setup!CheckAccount(r) PROVE SetupInv'
<1> DEFINE k == request[r]
           S == {c \in configs : c.object = k.sent.object}
<1>1. k.at = "account" /\ UNCHANGED <<configs, numbers, begun, overlapped>>
  BY DEF Setup!CheckAccount, Setup!Store
<1>2. CASE Setup!Stops(r)
  BY <1>1, <1>2, StopsKept
<1>3. CASE /\ \A c \in configs : c.account # k.sent.account
           /\ request' = [request EXCEPT ![r].at = "used", ![r].seen = S]
  <2>1. S \subseteq configs
    OBVIOUS
  <2> HIDE DEF S
  <2>2. /\ request' \in [Request -> Asking] /\ request'[r].at = "used" /\ request'[r].seen = S
        /\ request'[r].id = k.id /\ request'[r].sent = k.sent
        /\ \A q \in Request : q # r => request'[q] = request[q]
    BY <1>3, <2>1, RequestKnown DEF Asking
  <2>3. ~overlapped => Checked(k)
    BY DEF SetupInv, Sequential
  <2>4. ~overlapped => Checked(request'[r])
    BY <1>1, <1>3, <2>2, <2>3 DEF Checked, S
  <2> QED
    BY <1>1, <2>2, <2>4, RequestMoves
<1> QED
  BY <1>2, <1>3 DEF Setup!CheckAccount

\* The groups that the object's numbers name are read.
LEMMA ReadUsedKept == ASSUME SetupInv, NEW r \in Request, Setup!ReadUsed(r) PROVE SetupInv'
<1> DEFINE k == request[r]
           S == {n.group : n \in {m \in numbers : \E c \in k.seen : m.config = c.id}}
<1>1. /\ k.at = "used" /\ UNCHANGED <<configs, numbers, begun, overlapped>>
      /\ request' = [request EXCEPT ![r].at = "config", ![r].used = S]
  BY DEF Setup!ReadUsed, Setup!Store
<1>2. S \subseteq Group
  BY DEF SetupInv, Setup!TypeOK
<1>3. \A n \in numbers : (\E c \in k.seen : n.config = c.id) => n.group \in S
  OBVIOUS
<1> HIDE DEF S
<1>4. /\ request' \in [Request -> Asking] /\ request'[r].at = "config" /\ request'[r].used = S
      /\ request'[r].id = k.id /\ request'[r].sent = k.sent
      /\ \A q \in Request : q # r => request'[q] = request[q]
  BY <1>1, <1>2, RequestKnown DEF Asking
<1>5. ~overlapped => Checked(k)
  BY DEF SetupInv, Sequential
<1>6. ~overlapped => Checked(request'[r])
  <2> SUFFICES ASSUME ~overlapped PROVE Checked(request'[r])
    OBVIOUS
  <2>1. /\ \A c \in configs : c.id # k.id /\ c.account # k.sent.account
        /\ k.seen = {c \in configs : c.object = k.sent.object}
    BY <1>1, <1>5 DEF Checked
  <2>2. \A n \in numbers : Serves(n, k.sent.object) => n.group \in S
    BY <1>3, <2>1 DEF Serves
  <2> QED
    BY <1>4, <2>1, <2>2 DEF Checked
<1> QED
  BY <1>1, <1>4, <1>6, RequestMoves

\* The account's row is stored.
LEMMA InsertConfigKept == ASSUME SetupInv, NEW r \in Request, Setup!InsertConfig(r) PROVE SetupInv'
<1> DEFINE k == request[r]
           new == [id |-> k.id, account |-> k.sent.account, object |-> k.sent.object]
<1>1. k.at = "config" /\ UNCHANGED <<numbers, begun, overlapped>>
  BY DEF Setup!InsertConfig
<1>2. CASE Setup!Stops(r) /\ UNCHANGED configs
  BY <1>1, <1>2, StopsKept
<1>3. CASE configs' = configs \cup {new} /\ request' = [request EXCEPT ![r].at = "numbers"]
  <2>1. /\ new \in [id : Setup!Id, account : Account, object : Object]
        /\ new.id = k.id /\ new.account = k.sent.account /\ new.object = k.sent.object
    BY <1>1, RequestKnown
  <2>2. k.id \in 1..begun /\ k.sent \in Payload /\ k \in Asking
    BY <1>1, RequestKnown
  <2> HIDE DEF new
  <2>3. /\ request'[r].at = "numbers" /\ request'[r].id = k.id /\ request'[r].sent = k.sent
        /\ request'[r].used = k.used
        /\ request' \in [Request -> Asking]
        /\ \A q \in Request : q # r => request'[q] = request[q]
    BY <1>3, <2>2, RequestKnown DEF Asking
  <2>4. Setup!TypeOK'
    <3>1. configs \subseteq [id : Setup!Id, account : Account, object : Object] /\ configs \subseteq configs'
      BY <1>3 DEF SetupInv, Setup!TypeOK
    <3>2. SUBSET configs \subseteq SUBSET configs'
      BY <3>1
    <3>3. request' \in [Request -> [at : {"idle", "account", "used", "config", "numbers"}, id : Setup!Id \cup {None},
                                    sent : Payload \cup {None}, seen : SUBSET configs', used : SUBSET Group,
                                    next : Nat \ {0}]]
      BY <2>3, <3>2 DEF Asking
    <3>4. configs' \subseteq [id : Setup!Id, account : Account, object : Object]
      BY <1>3, <2>1, <3>1
    <3> QED
      BY <1>1, <3>3, <3>4 DEF SetupInv, Setup!TypeOK, Setup!Id
  <2>5. Begun'
    BY <1>1, <2>2, <2>3 DEF SetupInv, Begun
  <2>6. ASSUME ~overlapped PROVE Sequential'
    <3>1. Alone /\ Connected /\ OnceEach /\ Checked(k)
      BY <2>6 DEF SetupInv, Sequential
    <3>2. \A c \in configs : c.id # k.id /\ c.account # k.sent.account
      BY <1>1, <3>1 DEF Checked
    <3>3. ASSUME NEW n \in numbers, NEW o PROVE Serves(n, o)' <=> Serves(n, o)
      <4>1. PICK c \in configs : c.id = n.config
        BY <3>1 DEF Connected
      <4>2. new.id # n.config
        BY <2>1, <3>2, <4>1
      <4> QED
        BY <1>3, <4>2 DEF Serves
    <3>4. Alone'
      BY <1>1, <2>3, <3>1 DEF Alone
    <3>5. Connected'
      <4>1. \A c \in configs' : c.id \in 1..begun
        BY <1>3, <2>1, <2>2, <3>1 DEF Connected
      <4>2. \A c, d \in configs' : c.id = d.id \/ c.account = d.account => c = d
        BY <1>3, <2>1, <3>1, <3>2 DEF Connected
      <4>3. \A n \in numbers : \E c \in configs' : c.id = n.config
        BY <1>3, <3>1 DEF Connected
      <4> QED
        BY <1>1, <4>1, <4>2, <4>3 DEF Connected
    <3>6. OnceEach'
      BY <1>1, <3>1, <3>3 DEF OnceEach
    <3>7. Checked(request[r])'
      <4>1. \E c \in configs' : c.id = k.id /\ c.object = k.sent.object
        BY <1>3, <2>1
      <4>2. ASSUME NEW n \in numbers, ~n.alone, Serves(n, k.sent.object)'
            PROVE  n.config # k.id /\ n.group \in k.used
        <5>1. PICK c \in configs : c.id = n.config
          BY <3>1 DEF Connected
        <5>2. Serves(n, k.sent.object)
          BY <3>3, <4>2, <2>3 DEF Serves
        <5> QED
          BY <1>1, <3>1, <3>2, <4>2, <5>1, <5>2 DEF Checked
      <4> QED
        BY <1>1, <2>3, <4>1, <4>2 DEF Checked, Serves
    <3>8. ASSUME NEW q \in Request PROVE Checked(request[q])'
      <4>1. CASE q = r
        BY <3>7, <4>1
      <4>2. CASE q # r
        <5>1. request'[q].at = "idle"
          BY <1>1, <2>3, <3>1, <4>2, RequestKnown DEF Alone
        <5> QED
          BY <5>1 DEF Checked
      <4> QED
        BY <4>1, <4>2
    <3> QED
      BY <3>4, <3>5, <3>6, <3>8 DEF Sequential
  <2> QED
    BY <1>1, <2>4, <2>5, <2>6 DEF SetupInv
<1> QED
  BY <1>2, <1>3 DEF Setup!InsertConfig

\* A number is stored, or passed over.
LEMMA InsertNumberKept == ASSUME SetupInv, NEW r \in Request, Setup!InsertNumber(r) PROVE SetupInv'
<1> DEFINE k == request[r]
           g == k.sent.groups[k.next]
           new == [config |-> k.id, place |-> k.next, group |-> g, alone |-> FALSE]
<1>1. k.at = "numbers" /\ UNCHANGED <<configs, begun, overlapped>>
  BY DEF Setup!InsertNumber
<1>2. CASE Setup!Stops(r) /\ UNCHANGED numbers
  BY <1>1, <1>2, StopsKept
<1>3. CASE /\ ~(k.next > Len(k.sent.groups)) /\ ~Setup!Refused(k)
           /\ numbers' = numbers \/ numbers' = numbers \cup {new}
           /\ request' = [request EXCEPT ![r].next = @ + 1]
  <2>1. /\ k.id \in 1..begun /\ k.sent \in Payload /\ k \in Asking /\ k.next \in Nat \ {0} /\ k.id \in Setup!Id
        /\ k.sent.groups \in Seq(Group \cup {None})
    BY <1>1, RequestKnown
  <2>2. g \in Group /\ g \notin k.used /\ \A i \in 1..(k.next - 1) : k.sent.groups[i] # g
    <3>1. g # None /\ g \notin k.used /\ \A i \in 1..(k.next - 1) : k.sent.groups[i] # g
      BY <1>3 DEF Setup!Refused
    <3>2. k.next \in 1..Len(k.sent.groups)
      BY <1>3, <2>1
    <3>3. g \in Group \cup {None}
      BY <2>1, <3>2
    <3> QED
      BY <3>1, <3>3
  <2> HIDE DEF g
  <2>3. /\ new \in [config : Setup!Id, place : Nat, group : Group, alone : BOOLEAN]
        /\ new.config = k.id /\ new.place = k.next /\ new.group = g /\ new.alone = FALSE
    BY <2>1, <2>2
  <2> HIDE DEF new
  <2>4. /\ request'[r].at = "numbers" /\ request'[r].id = k.id /\ request'[r].sent = k.sent
        /\ request'[r].used = k.used /\ request'[r].next = k.next + 1
        /\ request' \in [Request -> Asking]
        /\ \A q \in Request : q # r => request'[q] = request[q]
    BY <1>1, <1>3, <2>1, RequestKnown DEF Asking
  <2>5. Setup!TypeOK'
    <3>1. numbers' \subseteq [config : Setup!Id, place : Nat, group : Group, alone : BOOLEAN]
      BY <1>3, <2>3 DEF SetupInv, Setup!TypeOK
    <3> QED
      BY <1>1, <2>4, <3>1 DEF SetupInv, Setup!TypeOK, Asking, Setup!Id
  <2>6. Begun'
    BY <1>1, <2>1, <2>4 DEF SetupInv, Begun
  <2>7. ASSUME ~overlapped PROVE Sequential'
    <3>1. Alone /\ Connected /\ OnceEach /\ Checked(k)
      BY <2>7 DEF SetupInv, Sequential
    <3>2. \A n, o : Serves(n, o)' <=> Serves(n, o)
      BY <1>1 DEF Serves
    <3>3. PICK c \in configs : c.id = k.id /\ c.object = k.sent.object
      BY <1>1, <3>1 DEF Checked
    <3>4. \A d \in configs : d.id = k.id => d = c
      BY <3>1, <3>3 DEF Connected
    <3>5. \A n \in numbers : ~n.alone /\ Serves(n, k.sent.object) =>
            \/ n.config # k.id /\ n.group \in k.used
            \/ n.config = k.id /\ n.place \in 1..(k.next - 1) /\ n.group = k.sent.groups[n.place]
      BY <1>1, <3>1 DEF Checked
    <3>6. Serves(new, k.sent.object) /\ \A o : Serves(new, o) => o = k.sent.object
      BY <2>3, <3>3, <3>4 DEF Serves
    <3>7. ASSUME NEW n \in numbers, ~n.alone, Serves(n, k.sent.object) PROVE n.group # g
      BY <2>2, <3>5, <3>7
    <3>8. Alone'
      BY <1>1, <2>4, <3>1 DEF Alone
    <3>9. Connected'
      <4>1. \A n \in numbers' : \E d \in configs : d.id = n.config
        BY <1>3, <2>3, <3>1, <3>3 DEF Connected
      <4> QED
        BY <1>1, <3>1, <4>1 DEF Connected
    <3>10. OnceEach'
      <4>1. ASSUME NEW m \in numbers', NEW n \in numbers', NEW o, ~m.alone, ~n.alone, m.group = n.group,
                   Serves(m, o), Serves(n, o)
            PROVE  m = n
        <5>1. CASE m \in numbers /\ n \in numbers
          BY <3>1, <4>1, <5>1 DEF OnceEach
        <5>2. CASE m \in numbers /\ n = new
          BY <2>3, <3>6, <3>7, <4>1, <5>2
        <5>3. CASE m = new /\ n \in numbers
          BY <2>3, <3>6, <3>7, <4>1, <5>3
        <5> QED
          BY <1>3, <5>1, <5>2, <5>3
      <4> QED
        BY <3>2, <4>1 DEF OnceEach
    <3>11. Checked(request[r])'
      <4>1. ASSUME NEW n \in numbers', ~n.alone, Serves(n, k.sent.object)
            PROVE  \/ n.config # k.id /\ n.group \in k.used
                   \/ n.config = k.id /\ n.place \in 1..((k.next + 1) - 1) /\ n.group = k.sent.groups[n.place]
        <5>1. CASE n \in numbers
          BY <2>1, <3>5, <4>1, <5>1
        <5>2. CASE n = new
          BY <2>1, <2>3, <5>2 DEF g
        <5> QED
          BY <1>3, <5>1, <5>2
      <4> QED
        BY <1>1, <2>4, <3>2, <3>3, <4>1 DEF Checked
    <3>12. ASSUME NEW q \in Request PROVE Checked(request[q])'
      <4>1. CASE q = r
        BY <3>11, <4>1
      <4>2. CASE q # r
        <5>1. request'[q].at = "idle"
          BY <1>1, <2>4, <3>1, <4>2, RequestKnown DEF Alone
        <5> QED
          BY <5>1 DEF Checked
      <4> QED
        BY <4>1, <4>2
    <3> QED
      BY <3>8, <3>9, <3>10, <3>12 DEF Sequential
  <2> QED
    BY <1>1, <2>5, <2>6, <2>7 DEF SetupInv
<1> QED
  BY <1>2, <1>3 DEF Setup!InsertNumber

\* A number is added by itself.
LEMMA AddNumberKept ==
  ASSUME SetupInv, NEW c \in configs, NEW g \in Group, Setup!AddNumber(c, g) PROVE SetupInv'
<1> DEFINE new == [config |-> c.id, place |-> 0, group |-> g, alone |-> TRUE]
<1>1. numbers' = numbers \cup {new} /\ UNCHANGED <<configs, request, begun, overlapped>>
  BY DEF Setup!AddNumber
<1>2. /\ new \in [config : Setup!Id, place : Nat, group : Group, alone : BOOLEAN]
      /\ new.config = c.id /\ new.alone = TRUE
  BY DEF SetupInv, Setup!TypeOK
<1> HIDE DEF new
<1>3. Setup!TypeOK' /\ Begun'
  BY <1>1, <1>2 DEF SetupInv, Setup!TypeOK, Begun, Setup!Id
<1>4. ASSUME ~overlapped PROVE Sequential'
  <2>1. Alone /\ Connected /\ OnceEach
    BY <1>4 DEF SetupInv, Sequential
  <2>2. Alone' /\ Connected' /\ OnceEach'
    BY <1>1, <1>2, <2>1 DEF Alone, Connected, OnceEach, Serves
  <2>3. ASSUME NEW q \in Request PROVE Checked(request[q])'
    <3>1. Checked(request[q])
      BY <1>4 DEF SetupInv, Sequential
    <3> QED
      BY <1>1, <1>2, <3>1 DEF Checked, Serves
  <2> QED
    BY <2>2, <2>3 DEF Sequential
<1> QED
  BY <1>1, <1>3, <1>4 DEF SetupInv

\* A request begins.
LEMMA BeginKept ==
  ASSUME SetupInv, NEW r \in Request, NEW sent \in Payload, Setup!Begin(r, sent) PROVE SetupInv'
<1> DEFINE x == [Setup!Idle EXCEPT !.at = "account", !.id = begun + 1, !.sent = sent]
<1>1. /\ request[r].at = "idle" /\ begun < MaxRequests /\ begun' = begun + 1
      /\ request' = [request EXCEPT ![r] = x] /\ UNCHANGED <<configs, numbers>>
      /\ overlapped' = (overlapped \/ \E q \in Request : request[q].at # "idle")
  BY DEF Setup!Begin, Setup!Store
<1>2. begun \in Nat /\ MaxRequests \in Nat /\ begun + 1 \in Setup!Id /\ begun' \in 0..MaxRequests
  BY <1>1, ServicesAssumption DEF SetupInv, Setup!TypeOK, Setup!SetupAssumption, Setup!Id
<1>3. x \in Asking /\ x.at = "account" /\ x.id = begun + 1 /\ x.sent = sent
  <2>1. "account" \in {"idle", "account", "used", "config", "numbers"}
    OBVIOUS
  <2> QED
    BY <1>2, <2>1, SetupIdle DEF Asking
<1> HIDE DEF x
<1>4. /\ request' \in [Request -> Asking] /\ request'[r] = x
      /\ \A q \in Request : q # r => request'[q] = request[q]
  BY <1>1, <1>3, RequestKnown
<1>5. Setup!TypeOK'
  <2>1. overlapped' \in BOOLEAN
    BY <1>1 DEF SetupInv, Setup!TypeOK
  <2> QED
    BY <1>1, <1>2, <1>4, <2>1 DEF SetupInv, Setup!TypeOK, Asking, Setup!Id
<1>6. Begun'
  <2>1. ASSUME NEW q \in Request, request'[q].at # "idle"
        PROVE  request'[q].id \in 1..(begun + 1) /\ request'[q].sent \in Payload
    <3>1. CASE q = r
      BY <1>2, <1>3, <1>4, <3>1
    <3>2. CASE q # r
      BY <1>2, <1>4, <2>1, <3>2, RequestKnown
    <3> QED
      BY <3>1, <3>2
  <2> QED
    BY <1>1, <2>1 DEF Begun
<1>7. ASSUME ~overlapped' PROVE Sequential'
  <2>1. ~overlapped /\ \A q \in Request : request[q].at = "idle"
    BY <1>1, <1>7
  <2>2. Connected /\ OnceEach
    BY <2>1 DEF SetupInv, Sequential
  <2>3. \A q \in Request : q # r => request'[q].at = "idle"
    BY <1>4, <2>1
  <2>4. Alone'
    BY <2>3 DEF Alone
  <2>5. Connected'
    <3>1. \A c \in configs : c.id \in 1..(begun + 1)
      BY <1>2, <2>2 DEF Connected
    <3> QED
      BY <1>1, <2>2, <3>1 DEF Connected
  <2>6. OnceEach'
    BY <1>1, <2>2 DEF OnceEach, Serves
  <2>7. ASSUME NEW q \in Request PROVE Checked(request[q])'
    <3>1. CASE q = r
      <4>1. \A c \in configs : c.id # begun + 1
        BY <1>2, <2>2 DEF Connected
      <4> QED
        BY <1>1, <1>3, <1>4, <3>1, <4>1 DEF Checked
    <3>2. CASE q # r
      BY <2>3, <3>2 DEF Checked
    <3> QED
      BY <3>1, <3>2
  <2> QED
    BY <2>4, <2>5, <2>6, <2>7 DEF Sequential
<1> QED
  BY <1>5, <1>6, <1>7 DEF SetupInv

LEMMA SetupKept == ASSUME SetupInv, [Setup!Next]_setupVars PROVE SetupInv'
<1>1. CASE UNCHANGED setupVars
  BY <1>1 DEF setupVars, SetupInv, Setup!TypeOK, Setup!Id, Begun, Sequential, Alone, Connected, OnceEach, Checked, Serves
<1>2. ASSUME NEW r \in Request,
             \/ Setup!CheckAccount(r) \/ Setup!ReadUsed(r) \/ Setup!InsertConfig(r) \/ Setup!InsertNumber(r)
             \/ \E sent \in Payload : Setup!Begin(r, sent)
      PROVE  SetupInv'
  BY <1>2, CheckAccountKept, ReadUsedKept, InsertConfigKept, InsertNumberKept, BeginKept
<1> QED
  BY <1>1, <1>2, AddNumberKept DEF Setup!Next

LEMMA ConfiguredOnce == SetupInv => Setup!GroupsAreConfiguredOnce
<1> SUFFICES ASSUME SetupInv, ~overlapped
             PROVE  /\ \A c, d \in configs : c.account = d.account => c = d
                    /\ \A m, n \in {k \in numbers : ~k.alone} :
                         m.group = n.group /\ Setup!ObjectOf(m) = Setup!ObjectOf(n) => m = n
  BY DEF Setup!GroupsAreConfiguredOnce
<1>1. Connected /\ OnceEach
  BY DEF SetupInv, Sequential
<1>2. ASSUME NEW n \in numbers PROVE Serves(n, Setup!ObjectOf(n))
  BY <1>1 DEF Connected, Serves, Setup!ObjectOf
<1> QED
  BY <1>1, <1>2 DEF Connected, OnceEach


-----------------------------------------------------------------------------
\* Calls

CallsInv == Calls!TypeOK /\ Calls!CallRowsAgree

LEMMA CallsAtFirst == Calls!Init => CallsInv
<1> SUFFICES ASSUME Calls!Init PROVE CallsInv
  OBVIOUS
<1>1. callsRows = <<>> /\ online = {} /\ callsScreen = [a \in CallAgent |-> Calls!Blank]
      /\ rung = [c \in Call |-> Nobody]
  BY DEF Calls!Init
<1>2. callsRows \in Seq(Calls!Row) /\ Len(callsRows) = 0 /\ DOMAIN callsRows = {} /\ MaxRows \in Nat
  BY <1>1, ServicesAssumption DEF Calls!TelephonyAssumption
<1>3. Calls!Blank \in Calls!Shown /\ Calls!Blank.what = "nothing"
  BY <1>2 DEF Calls!Blank, Calls!Shown
<1>4. callsScreen \in [CallAgent -> Calls!Shown] /\ \A a \in CallAgent : callsScreen[a].what = "nothing"
  BY <1>1, <1>3
<1> QED
  BY <1>1, <1>2, <1>4 DEF CallsInv, Calls!TypeOK, Calls!CallRowsAgree

\* What is known of the rows of calls and of what agents see.
LEMMA CallRowsKnown ==
  ASSUME CallsInv
  PROVE  /\ callsRows \in Seq(Calls!Row) /\ Len(callsRows) \in Nat /\ Len(callsRows) <= MaxRows /\ MaxRows \in Nat
         /\ DOMAIN callsRows = 1..Len(callsRows)
         /\ \A i \in DOMAIN callsRows : callsRows[i] \in Calls!Row
         /\ online \subseteq CallAgent /\ callsScreen \in [CallAgent -> Calls!Shown]
         /\ rung \in [Call -> CallAgent \cup {Nobody}] /\ Nobody \notin CallAgent
BY ServicesAssumption DEF CallsInv, Calls!TypeOK, Calls!TelephonyAssumption

\* Rows that are changed in place, each into a row of the same call, stay rows.
LEMMA RowsInPlace ==
  ASSUME CallsInv, DOMAIN callsRows' = DOMAIN callsRows, callsRows' = [i \in DOMAIN callsRows |-> callsRows'[i]],
         \A i \in DOMAIN callsRows : callsRows'[i] \in Calls!Row
  PROVE  callsRows' \in Seq(Calls!Row) /\ Len(callsRows') = Len(callsRows)
<1>1. Len(callsRows) \in Nat /\ DOMAIN callsRows = 1..Len(callsRows)
  BY CallRowsKnown
<1>2. callsRows' \in [1..Len(callsRows) -> Calls!Row]
  BY <1>1
<1> QED
  BY <1>1, <1>2

\* What is sent to the group of an agent is seen by that agent, or dropped.
LEMMA SendSeen ==
  ASSUME CallsInv, NEW a \in CallAgent, NEW i \in 0..MaxRows,
         NEW what \in {"incoming", "popup", "call_accepted", "hangup"}, Calls!GroupSend(a, what, i)
  PROVE  /\ callsScreen' \in [CallAgent -> Calls!Shown]
         /\ \A b \in CallAgent : callsScreen'[b] = callsScreen[b]
                                 \/ (b = a /\ callsScreen'[b].what = what /\ callsScreen'[b].row = i)
<1> DEFINE m == [what |-> what, row |-> i]
<1>1. m \in Calls!Shown /\ m.what = what /\ m.row = i
  BY DEF Calls!Shown
<1>2. callsScreen' = [callsScreen EXCEPT ![a] = m] \/ callsScreen' = callsScreen
  BY DEF Calls!GroupSend
<1> HIDE DEF m
<1> QED
  BY <1>1, <1>2, CallRowsKnown

LEMMA JoinKept ==
  ASSUME CallsInv, NEW a \in CallAgent, Calls!Join(a) \/ Calls!Disconnect(a) PROVE CallsInv'
<1>1. UNCHANGED <<callsRows, rung>> /\ online' \subseteq CallAgent
  BY CallRowsKnown DEF Calls!Join, Calls!Disconnect
<1>2. /\ callsScreen' \in [CallAgent -> Calls!Shown]
      /\ \A b \in CallAgent : callsScreen'[b] = callsScreen[b] \/ callsScreen'[b].what = "nothing"
  <2>1. Calls!Blank \in Calls!Shown /\ Calls!Blank.what = "nothing"
    BY CallRowsKnown DEF Calls!Blank, Calls!Shown
  <2>2. callsScreen' = callsScreen \/ callsScreen' = [callsScreen EXCEPT ![a] = Calls!Blank]
    BY DEF Calls!Join, Calls!Disconnect
  <2> QED
    BY <2>1, <2>2, CallRowsKnown
<1>3. Calls!TypeOK'
  BY <1>1, <1>2, CallRowsKnown DEF Calls!TypeOK
<1>4. Calls!CallRowsAgree'
  <2>1. \A b \in CallAgent : callsScreen'[b].what = "incoming" => callsScreen'[b] = callsScreen[b]
    BY <1>2
  <2> QED
    BY <1>1, <2>1 DEF CallsInv, Calls!CallRowsAgree
<1> QED
  BY <1>3, <1>4 DEF CallsInv

LEMMA CallWaitsKept == ASSUME CallsInv, NEW c \in Call, Calls!CallWaits(c) PROVE CallsInv'
<1> DEFINE x == [call |-> c, agent |-> Nobody, object |-> Nobody, ended |-> FALSE]
           n == Len(callsRows)
<1>1. n < MaxRows /\ callsRows' = Append(callsRows, x) /\ UNCHANGED <<online, callsScreen, rung>>
  BY DEF Calls!CallWaits
<1>2. x \in Calls!Row /\ x.call = c /\ x.agent = Nobody
  BY DEF Calls!Row
<1> HIDE DEF x
<1>3. /\ callsRows' \in Seq(Calls!Row) /\ Len(callsRows') = n + 1 /\ DOMAIN callsRows' = 1..(n + 1)
      /\ callsRows'[n + 1] = x /\ \A i \in 1..n : callsRows'[i] = callsRows[i]
  BY <1>1, <1>2, CallRowsKnown
<1>4. n \in Nat /\ DOMAIN callsRows = 1..n
  BY CallRowsKnown
<1> HIDE DEF n
<1>5. Calls!TypeOK'
  <2>1. Len(callsRows') <= MaxRows
    BY <1>1, <1>3, <1>4, CallRowsKnown
  <2> QED
    BY <1>1, <1>3, <2>1, CallRowsKnown DEF Calls!TypeOK
<1>6. \A i \in 1..(n + 1) : i \in 1..n \/ i = n + 1
  BY <1>4
<1>7. ASSUME NEW i \in 1..(n + 1)
      PROVE  callsRows'[i].agent \in {Nobody, rung'[callsRows'[i].call]}
  BY <1>1, <1>2, <1>3, <1>4, <1>6 DEF CallsInv, Calls!CallRowsAgree
<1>8. ASSUME NEW i \in 1..(n + 1), NEW j \in 1..(n + 1), i < j, callsRows'[i].call = callsRows'[j].call,
             callsRows'[j].agent # Nobody
      PROVE  callsRows'[i].agent = callsRows'[j].agent
  <2>1. j \in 1..n
    BY <1>2, <1>3, <1>6, <1>8
  <2>2. i \in 1..n
    BY <1>4, <1>8, <2>1
  <2> QED
    BY <1>3, <1>4, <1>8, <2>1, <2>2 DEF CallsInv, Calls!CallRowsAgree
<1>9. ASSUME NEW a \in CallAgent, callsScreen'[a].what = "incoming"
      PROVE  callsScreen'[a].row \in 1..(n + 1) /\ callsRows'[callsScreen'[a].row].agent # Nobody
  <2>1. callsScreen[a].row \in 1..n /\ callsRows[callsScreen[a].row].agent # Nobody
    BY <1>1, <1>4, <1>9 DEF CallsInv, Calls!CallRowsAgree
  <2>2. callsScreen[a].row \in 1..(n + 1)
    BY <1>4, <2>1
  <2> QED
    BY <1>1, <1>3, <2>1, <2>2
<1>10. Calls!CallRowsAgree'
  BY <1>3, <1>7, <1>8, <1>9 DEF Calls!CallRowsAgree
<1> QED
  BY <1>5, <1>10 DEF CallsInv

LEMMA CallRingsKept == ASSUME CallsInv, NEW c \in Call, NEW a \in CallAgent, Calls!CallRings(c, a) PROVE CallsInv'
<1> DEFINE R == Calls!Rows(c)
           new(r) == [r EXCEPT !.agent = a, !.object = Target[a]]
<1>1. /\ rung' = [rung EXCEPT ![c] = a] /\ UNCHANGED online
      /\ (\E i \in R : Calls!GroupSend(a, "incoming", i)) \/ (R = {} /\ UNCHANGED callsScreen)
  BY DEF Calls!CallRings
<1>2. callsRows' = [i \in DOMAIN callsRows |-> IF i \in R THEN new(callsRows[i]) ELSE callsRows[i]]
  BY DEF Calls!CallRings, Calls!UpdateRows
<1>3. R \subseteq DOMAIN callsRows /\ \A i \in DOMAIN callsRows : i \in R <=> callsRows[i].call = c
  BY DEF Calls!Rows
<1>4. Target[a] \in Calls!Range(Target)
  BY ServicesAssumption DEF Calls!TelephonyAssumption, Calls!Range
<1>5. \A r \in Calls!Row : new(r) \in Calls!Row /\ new(r).agent = a /\ new(r).call = r.call
  BY <1>4 DEF Calls!Row
<1> HIDE DEF R, new
<1>6. DOMAIN callsRows' = DOMAIN callsRows
      /\ \A i \in DOMAIN callsRows :
           /\ callsRows'[i] \in Calls!Row /\ callsRows'[i].call = callsRows[i].call
           /\ callsRows[i].call = c => callsRows'[i].agent = a
           /\ callsRows[i].call # c => callsRows'[i].agent = callsRows[i].agent
  <2>1. ASSUME NEW i \in DOMAIN callsRows
        PROVE  /\ callsRows'[i] \in Calls!Row /\ callsRows'[i].call = callsRows[i].call
               /\ callsRows[i].call = c => callsRows'[i].agent = a
               /\ callsRows[i].call # c => callsRows'[i].agent = callsRows[i].agent
    <3>1. callsRows[i] \in Calls!Row
      BY CallRowsKnown
    <3>2. callsRows'[i] = IF i \in R THEN new(callsRows[i]) ELSE callsRows[i]
      BY <1>2
    <3> QED
      BY <1>3, <1>5, <3>1, <3>2
  <2> QED
    BY <1>2, <2>1
<1>7. callsRows' \in Seq(Calls!Row) /\ Len(callsRows') = Len(callsRows)
  BY <1>2, <1>6, RowsInPlace
<1>8. rung' \in [Call -> CallAgent \cup {Nobody}] /\ rung'[c] = a /\ \A d \in Call : d # c => rung'[d] = rung[d]
  BY <1>1, CallRowsKnown
<1>9. /\ callsScreen' \in [CallAgent -> Calls!Shown]
      /\ \A b \in CallAgent : callsScreen'[b] = callsScreen[b] \/ callsScreen'[b].row \in R
  <2>1. CASE R = {} /\ UNCHANGED callsScreen
    BY <2>1, CallRowsKnown
  <2>2. CASE \E i \in R : Calls!GroupSend(a, "incoming", i)
    <3>1. PICK i \in R : Calls!GroupSend(a, "incoming", i)
      BY <2>2
    <3>2. i \in 0..MaxRows
      BY <1>3, CallRowsKnown
    <3> QED
      BY <3>1, <3>2, SendSeen
  <2> QED
    BY <1>1, <2>1, <2>2
<1>10. Calls!TypeOK'
  BY <1>1, <1>7, <1>8, <1>9, CallRowsKnown DEF Calls!TypeOK
<1>11. \A i \in DOMAIN callsRows : callsRows[i].call \in Call
  BY CallRowsKnown DEF Calls!Row
<1>12. ASSUME NEW i \in DOMAIN callsRows
       PROVE  callsRows'[i].agent \in {Nobody, rung'[callsRows'[i].call]}
  <2>1. callsRows[i].agent \in {Nobody, rung[callsRows[i].call]}
    BY DEF CallsInv, Calls!CallRowsAgree
  <2> QED
    BY <1>6, <1>8, <1>11, <2>1
<1>13. ASSUME NEW i \in DOMAIN callsRows, NEW j \in DOMAIN callsRows, i < j, callsRows'[i].call = callsRows'[j].call,
              callsRows'[j].agent # Nobody
       PROVE  callsRows'[i].agent = callsRows'[j].agent
  <2>1. callsRows[i].call = callsRows[j].call
    BY <1>6, <1>13
  <2>2. CASE callsRows[i].call = c
    BY <1>6, <2>1, <2>2
  <2>3. CASE callsRows[i].call # c
    <3>1. callsRows'[i].agent = callsRows[i].agent /\ callsRows'[j].agent = callsRows[j].agent
      BY <1>6, <2>1, <2>3
    <3>2. callsRows[i].agent = callsRows[j].agent
      BY <1>13, <2>1, <3>1 DEF CallsInv, Calls!CallRowsAgree
    <3> QED
      BY <3>1, <3>2
  <2> QED
    BY <2>2, <2>3
<1>14. ASSUME NEW b \in CallAgent, callsScreen'[b].what = "incoming"
       PROVE  callsScreen'[b].row \in DOMAIN callsRows /\ callsRows'[callsScreen'[b].row].agent # Nobody
  <2>1. CASE callsScreen'[b].row \in R
    BY <1>3, <1>6, <2>1, CallRowsKnown
  <2>2. CASE callsScreen'[b] = callsScreen[b]
    <3>1. callsScreen[b].row \in DOMAIN callsRows /\ callsRows[callsScreen[b].row].agent # Nobody
      BY <1>14, <2>2 DEF CallsInv, Calls!CallRowsAgree
    <3> QED
      BY <1>6, <2>2, <3>1, CallRowsKnown
  <2> QED
    BY <1>9, <2>1, <2>2
<1>15. Calls!CallRowsAgree'
  BY <1>6, <1>12, <1>13, <1>14 DEF Calls!CallRowsAgree
<1> QED
  BY <1>10, <1>15 DEF CallsInv

\* A call that ends keeps the agents of its rows.
LEMMA EndsKept ==
  ASSUME CallsInv, (\E c \in Call, a \in CallAgent : Calls!CallEnds(c, a)) \/ (\E i \in 1..MaxRows : Calls!LoggedCallEnds(i))
  PROVE  CallsInv'
<1>1. UNCHANGED <<online, callsScreen, rung>>
  BY DEF Calls!CallEnds, Calls!LoggedCallEnds
<1>2. /\ callsRows' = [i \in DOMAIN callsRows |-> callsRows'[i]] /\ DOMAIN callsRows' = DOMAIN callsRows
      /\ \A i \in DOMAIN callsRows :
           /\ callsRows'[i] \in Calls!Row /\ callsRows'[i].call = callsRows[i].call
           /\ callsRows'[i].agent = callsRows[i].agent
  <2>1. CASE \E c \in Call, a \in CallAgent : Calls!CallEnds(c, a)
    <3>1. PICK c \in Call, a \in CallAgent : Calls!CallEnds(c, a)
      BY <2>1
    <3> DEFINE new(r) == [r EXCEPT !.object = Target[a], !.ended = TRUE]
    <3>2. callsRows' = [i \in DOMAIN callsRows |-> IF i \in Calls!Rows(c) THEN new(callsRows[i]) ELSE callsRows[i]]
      BY <3>1 DEF Calls!CallEnds, Calls!UpdateRows
    <3>3. Target[a] \in Calls!Range(Target)
      BY ServicesAssumption DEF Calls!TelephonyAssumption, Calls!Range
    <3>4. \A r \in Calls!Row : new(r) \in Calls!Row /\ new(r).agent = r.agent /\ new(r).call = r.call
      BY <3>3 DEF Calls!Row
    <3> HIDE DEF new
    <3> QED
      BY <3>2, <3>4, CallRowsKnown
  <2>2. CASE \E k \in 1..MaxRows : Calls!LoggedCallEnds(k)
    <3>1. PICK k \in DOMAIN callsRows : callsRows' = [callsRows EXCEPT ![k].ended = TRUE]
      BY <2>2 DEF Calls!LoggedCallEnds
    <3> DEFINE x == [callsRows[k] EXCEPT !.ended = TRUE]
    <3>2. x \in Calls!Row /\ x.agent = callsRows[k].agent /\ x.call = callsRows[k].call
      BY CallRowsKnown DEF Calls!Row
    <3>3. callsRows' = [callsRows EXCEPT ![k] = x]
      BY <3>1
    <3> HIDE DEF x
    <3> QED
      BY <3>2, <3>3, CallRowsKnown
  <2> QED
    BY <2>1, <2>2
<1>3. callsRows' \in Seq(Calls!Row) /\ Len(callsRows') = Len(callsRows)
  BY <1>2, RowsInPlace
<1>4. Calls!TypeOK'
  BY <1>1, <1>3, CallRowsKnown DEF Calls!TypeOK
<1>5. Calls!CallRowsAgree'
  <2>1. \A i \in DOMAIN callsRows : callsRows'[i].agent \in {Nobody, rung'[callsRows'[i].call]}
    BY <1>1, <1>2 DEF CallsInv, Calls!CallRowsAgree
  <2>2. \A i, j \in DOMAIN callsRows : i < j /\ callsRows'[i].call = callsRows'[j].call /\ callsRows'[j].agent # Nobody
                                        => callsRows'[i].agent = callsRows'[j].agent
    BY <1>2 DEF CallsInv, Calls!CallRowsAgree
  <2>3. \A b \in CallAgent : callsScreen'[b].what = "incoming" =>
          callsScreen'[b].row \in DOMAIN callsRows /\ callsRows'[callsScreen'[b].row].agent # Nobody
    BY <1>1, <1>2 DEF CallsInv, Calls!CallRowsAgree
  <2> QED
    BY <1>2, <2>1, <2>2, <2>3 DEF Calls!CallRowsAgree
<1> QED
  BY <1>4, <1>5 DEF CallsInv

\* What else an agent is told does not say that a call comes in.
LEMMA ToldKept ==
  ASSUME CallsInv,
         \/ \E a \in CallAgent, i \in 0..Len(callsRows) : Calls!MakeCall(a, i)
         \/ \E a \in CallAgent, what \in {"call_accepted", "hangup"} : Calls!PassOn(a, what)
  PROVE  CallsInv'
<1>1. UNCHANGED <<callsRows, online, rung>>
  BY DEF Calls!MakeCall, Calls!PassOn
<1>2. PICK a \in CallAgent, what \in {"popup", "call_accepted", "hangup"}, i \in 0..MaxRows :
         Calls!GroupSend(a, what, i)
  <2>1. 0 \in 0..MaxRows /\ \A i \in 0..Len(callsRows) : i \in 0..MaxRows
    BY CallRowsKnown
  <2> QED
    BY <2>1 DEF Calls!MakeCall, Calls!PassOn
<1>3. /\ callsScreen' \in [CallAgent -> Calls!Shown]
      /\ \A b \in CallAgent : callsScreen'[b] = callsScreen[b] \/ callsScreen'[b].what = what
  BY <1>2, SendSeen
<1>4. Calls!TypeOK'
  BY <1>1, <1>3, CallRowsKnown DEF Calls!TypeOK
<1>5. Calls!CallRowsAgree'
  <2>1. \A b \in CallAgent : callsScreen'[b].what = "incoming" => callsScreen'[b] = callsScreen[b]
    BY <1>3
  <2> QED
    BY <1>1, <2>1 DEF CallsInv, Calls!CallRowsAgree
<1> QED
  BY <1>4, <1>5 DEF CallsInv

LEMMA CallsKept == ASSUME CallsInv, [Calls!Next]_callsVars PROVE CallsInv'
<1>1. CASE UNCHANGED callsVars
  BY <1>1 DEF CallsInv, callsVars, Calls!TypeOK, Calls!CallRowsAgree
<1>2. CASE \E a \in CallAgent : Calls!Join(a) \/ Calls!Disconnect(a)
  BY <1>2, JoinKept
<1>3. CASE \E c \in Call : Calls!CallWaits(c)
  BY <1>3, CallWaitsKept
<1>4. CASE \E c \in Call, a \in CallAgent : Calls!CallRings(c, a)
  BY <1>4, CallRingsKept
<1>5. CASE (\E c \in Call, a \in CallAgent : Calls!CallEnds(c, a)) \/ (\E i \in 1..MaxRows : Calls!LoggedCallEnds(i))
  BY <1>5, EndsKept
<1>6. CASE \/ \E a \in CallAgent, i \in 0..Len(callsRows) : Calls!MakeCall(a, i)
           \/ \E a \in CallAgent, what \in {"call_accepted", "hangup"} : Calls!PassOn(a, what)
  BY <1>6, ToldKept
<1> QED
  BY <1>1, <1>2, <1>3, <1>4, <1>5, <1>6 DEF Calls!Next

\* Calls, their routing and their setup, whichever of them behaves.
CallsAllInv ==
  /\ service = "calls" => CallsInv
  /\ service = "routing" => RoutingInv
  /\ service = "setup" => SetupInv

\* However the events of a call come, its rows agree about the agent and an agent is shown a row
\* that has one; picks of a process go round the users of the group; and as long as requests to
\* set telephony up do not overlap, an account and a group are connected once.
THEOREM CallsTheorem == Spec => []CallsHold
<1>1. Init => CallsAllInv
  BY OneServiceAtFirst, CallsAtFirst, RoutingAtFirst, SetupAtFirst DEF CallsAllInv
<1>2. CallsAllInv /\ [Next]_vars => CallsAllInv'
  BY OneService, CallsKept, RoutingKept, SetupKept DEF CallsAllInv
<1>3. CallsAllInv => CallsHold
  BY RoundRobinHolds, ConfiguredOnce DEF CallsAllInv, CallsHold, CallsInv, RoutingInv, SetupInv
<1> QED
  BY <1>1, <1>2, <1>3, PTL DEF Spec

-----------------------------------------------------------------------------
\* Tenants

LEMMA TenantsAssumption ==
  /\ Established \notin Signup /\ Nobody \notin Tenants!Tenant
  /\ Wanted \subseteq [email : Email, name : OrgName, schema : SchemaName,
                       user_id : Tenants!Tenant \cup {Nobody}, organization_id : Tenants!Tenant \cup {Nobody},
                       id : Tenants!Tenant \cup {Nobody}]
  /\ Home \in [email : Email, name : OrgName, schema : SchemaName]
  /\ NoOrg \notin Tenants!Org /\ NoSchema \notin Tenants!Schema /\ NoUser \notin Tenants!User
BY ServicesAssumption DEF Tenants!ProvisioningAssumption

\* What a signup asks for.
LEMMA AskTyped ==
  ASSUME Tenants!TypeOK, NEW q \in Signup
  PROVE  /\ ask[q].email \in Email /\ ask[q].name \in OrgName /\ ask[q].schema \in SchemaName
         /\ ask[q].user_id \in Tenants!Tenant \cup {Nobody} /\ ask[q].organization_id \in Tenants!Tenant \cup {Nobody}
         /\ ask[q].id \in Tenants!Tenant \cup {Nobody}
<1>1. ask[q] \in Wanted
  BY DEF Tenants!TypeOK
<1> QED
  BY <1>1, TenantsAssumption

\* Ids, made or named, are those of tenants.
LEMMA IdsTyped ==
  ASSUME Tenants!TypeOK, NEW i \in Tenants!Tenant
  PROVE  /\ i # Established => Tenants!UserId(i) \in Tenants!Tenant
         /\ Tenants!OrgId(i) \in Tenants!Tenant /\ Tenants!RowId(i) \in Tenants!Tenant
<1>1. CASE i = Established
  BY <1>1 DEF Tenants!OrgId, Tenants!RowId
<1>2. CASE i # Established
  <2>1. i \in Signup
    BY <1>2 DEF Tenants!Tenant
  <2> QED
    BY <1>2, <2>1, AskTyped DEF Tenants!UserId, Tenants!OrgId, Tenants!RowId
<1> QED
  BY <1>1, <1>2

\* The record of a schema after a part, a profile or members have been set.
LEMMA SchemaChanges ==
  ASSUME NEW v \in Tenants!Schema
  PROVE  /\ \A p \in Tenants!Part : [v EXCEPT !.parts = @ \cup {p}] \in Tenants!Schema
         /\ \A i \in Tenants!Tenant \cup {Nobody} : [v EXCEPT !.profile = i] \in Tenants!Schema
         /\ \A m \in SUBSET Tenants!Tenant : [v EXCEPT !.members = m] \in Tenants!Schema
         /\ v.members \in SUBSET Tenants!Tenant
  BY DEF Tenants!Schema

\* One schema changed.
LEMMA OneChanged ==
  ASSUME Tenants!TypeOK, NEW s \in SchemaName, NEW v \in Tenants!Schema \cup {NoSchema}
  PROVE  [schema EXCEPT ![s] = v] \in [SchemaName -> Tenants!Schema \cup {NoSchema}]
  BY DEF Tenants!TypeOK

\* Deleting rows of public tables leaves schemas schemas.
LEMMA WithoutTyped ==
  ASSUME Tenants!TypeOK
  PROVE  /\ \A u : Tenants!WithoutCreator(u) \in [SchemaName -> Tenants!Schema \cup {NoSchema}]
         /\ \A gone : Tenants!WithoutMembers(gone) \in [SchemaName -> Tenants!Schema \cup {NoSchema}]
<1>1. ASSUME NEW u PROVE Tenants!WithoutCreator(u) \in [SchemaName -> Tenants!Schema \cup {NoSchema}]
  <2> SUFFICES ASSUME NEW s \in SchemaName, Tenants!There(s)
               PROVE  [schema[s] EXCEPT !.profile = Nobody] \in Tenants!Schema
    BY DEF Tenants!WithoutCreator, Tenants!TypeOK
  <2>1. schema[s] \in Tenants!Schema
    BY DEF Tenants!TypeOK, Tenants!There
  <2> QED
    BY <2>1, SchemaChanges
<1>2. ASSUME NEW gone PROVE Tenants!WithoutMembers(gone) \in [SchemaName -> Tenants!Schema \cup {NoSchema}]
  <2> SUFFICES ASSUME NEW s \in SchemaName, Tenants!There(s)
               PROVE  [schema[s] EXCEPT !.members = {i \in schema[s].members : Tenants!OrgId(i) \notin gone}] \in Tenants!Schema
    BY DEF Tenants!WithoutMembers, Tenants!TypeOK
  <2>1. schema[s] \in Tenants!Schema
    BY DEF Tenants!TypeOK, Tenants!There
  <2>2. {i \in schema[s].members : Tenants!OrgId(i) \notin gone} \in SUBSET Tenants!Tenant
    BY <2>1 DEF Tenants!Schema
  <2> QED
    BY <2>1, <2>2, SchemaChanges
<1> QED
  BY <1>1, <1>2

\* Signups before the first user is in.
LEMMA BuildType ==
  ASSUME Tenants!TypeOK, NEW q \in Signup,
         Tenants!InsertUser(q) \/ Tenants!CreateSchema(q) \/ Tenants!CreateTables(q) \/ Tenants!InsertOrg(q) \/ Tenants!InsertProfile(q)
  PROVE  Tenants!TypeOK'
<1> DEFINE s == Tenants!SchemaOf(q)
<1>1. ask[q].email \in Email /\ ask[q].name \in OrgName /\ q \in Tenants!Tenant /\ s \in SchemaName
      /\ Tenants!UserId(q) \in Tenants!Tenant /\ Tenants!OrgId(q) \in Tenants!Tenant
  BY AskTyped, IdsTyped, TenantsAssumption DEF Tenants!SchemaOf, Tenants!Tenant
<1>2. Tenants!There(s) => schema[s] \in Tenants!Schema
  BY <1>1 DEF Tenants!TypeOK, Tenants!There
<1>3. CASE Tenants!InsertUser(q)
  <2>1. pc' \in [Signup -> Tenants!Label] /\ \A p \in Signup : pc'[p] # pc[p] => pc[p] = "idle"
    BY <1>3 DEF Tenants!InsertUser, Tenants!TypeOK, Tenants!Goto, Tenants!At, Tenants!Label, Tenants!Building
  <2>2. user' \in [Tenants!Tenant -> Tenants!User \cup {NoUser}]
    BY <1>1, <1>3 DEF Tenants!InsertUser, Tenants!TypeOK, Tenants!User
  <2> QED
    BY <1>3, <2>1, <2>2 DEF Tenants!InsertUser, Tenants!TypeOK
<1>4. CASE Tenants!CreateSchema(q)
  <2>1. [parts |-> {}, profile |-> Nobody, members |-> {}] \in Tenants!Schema
    BY DEF Tenants!Schema
  <2>2. schema' \in [SchemaName -> Tenants!Schema \cup {NoSchema}]
    BY <1>1, <1>4, <2>1 DEF Tenants!CreateSchema, Tenants!TypeOK
  <2> QED
    BY <1>4, <2>2 DEF Tenants!CreateSchema, Tenants!TypeOK, Tenants!Goto, Tenants!At, Tenants!Label, Tenants!Building
<1>5. CASE Tenants!CreateTables(q)
  <2> DEFINE w == [schema[s] EXCEPT !.parts = schema[s].parts \cup {"people"}]
  <2>1. schema' = [schema EXCEPT ![s] = w]
    BY <1>5 DEF Tenants!CreateTables, Tenants!Add
  <2>2. w \in Tenants!Schema
    BY <1>2, <1>5, SchemaChanges DEF Tenants!CreateTables, Tenants!Has, Tenants!Part
  <2> HIDE DEF w
  <2>3. schema' \in [SchemaName -> Tenants!Schema \cup {NoSchema}]
    BY <1>1, <2>1, <2>2, OneChanged
  <2> QED
    BY <1>5, <2>3 DEF Tenants!CreateTables, Tenants!TypeOK, Tenants!Goto, Tenants!At, Tenants!Label, Tenants!Building
<1>6. CASE Tenants!InsertOrg(q)
  <2>1. org' \in [Tenants!Tenant -> Tenants!Org \cup {NoOrg}]
    BY <1>1, <1>6 DEF Tenants!InsertOrg, Tenants!TypeOK, Tenants!Org
  <2> QED
    BY <1>6, <2>1 DEF Tenants!InsertOrg, Tenants!TypeOK, Tenants!Goto, Tenants!At, Tenants!Label, Tenants!Building
<1>7. CASE Tenants!InsertProfile(q)
  <2>1. [schema[s] EXCEPT !.profile = q] \in Tenants!Schema
    BY <1>1, <1>2, <1>7, SchemaChanges DEF Tenants!InsertProfile, Tenants!Has
  <2>2. schema' \in [SchemaName -> Tenants!Schema \cup {NoSchema}]
    BY <1>1, <1>7, <2>1 DEF Tenants!InsertProfile, Tenants!TypeOK
  <2> QED
    BY <1>7, <2>2 DEF Tenants!InsertProfile, Tenants!TypeOK, Tenants!Goto, Tenants!At, Tenants!Label, Tenants!Building
<1> QED
  BY <1>3, <1>4, <1>5, <1>6, <1>7

\* Signups from the first user on.
LEMMA FillType ==
  ASSUME Tenants!TypeOK, NEW q \in Signup,
         Tenants!InsertMember(q) \/ Tenants!CreateDefaults(q) \/ (\E t \in Tenants!Thread : Tenants!EndThread(q, t)) \/ Tenants!Join(q) \/ Tenants!InsertReports(q)
  PROVE  Tenants!TypeOK'
<1> DEFINE s == Tenants!SchemaOf(q)
<1>1. q \in Tenants!Tenant /\ s \in SchemaName
  BY AskTyped DEF Tenants!SchemaOf, Tenants!Tenant
<1>2. Tenants!There(s) => schema[s] \in Tenants!Schema
  BY <1>1 DEF Tenants!TypeOK, Tenants!There
<1>3. CASE Tenants!InsertMember(q)
  <2>1. schema[s] \in Tenants!Schema /\ schema[s].members \cup {q} \in SUBSET Tenants!Tenant
    BY <1>1, <1>2, <1>3 DEF Tenants!InsertMember, Tenants!Enrol, Tenants!Has, Tenants!Schema
  <2> DEFINE w == [schema[s] EXCEPT !.members = schema[s].members \cup {q}]
  <2>2. schema' = [schema EXCEPT ![s] = w]
    BY <1>3 DEF Tenants!InsertMember, Tenants!Enrol
  <2>3. w \in Tenants!Schema
    BY <2>1, SchemaChanges
  <2> HIDE DEF w
  <2>4. schema' \in [SchemaName -> Tenants!Schema \cup {NoSchema}]
    BY <1>1, <2>2, <2>3, OneChanged
  <2>5. user' \in [Tenants!Tenant -> Tenants!User \cup {NoUser}]
    <3>1. Tenants!OrgId(q) \in Tenants!Tenant /\ Tenants!RowId(q) \in Tenants!Tenant
      BY <1>1, IdsTyped
    <3>2. user[Tenants!RowId(q)] # NoUser => [user[Tenants!RowId(q)] EXCEPT !.org = Tenants!OrgId(q)] \in Tenants!User
      BY <3>1 DEF Tenants!TypeOK, Tenants!User
    <3> QED
      BY <1>3, <3>1, <3>2 DEF Tenants!InsertMember, Tenants!Enrol, Tenants!TypeOK
  <2> QED
    BY <1>3, <2>4, <2>5 DEF Tenants!InsertMember, Tenants!Enrol, Tenants!TypeOK, Tenants!Goto, Tenants!At, Tenants!Label, Tenants!Building
<1>4. CASE Tenants!CreateDefaults(q)
  <2> DEFINE w == [schema[s] EXCEPT !.parts = schema[s].parts \cup {"defaults"}]
  <2>1. schema' = [schema EXCEPT ![s] = w]
    BY <1>4 DEF Tenants!CreateDefaults, Tenants!Add
  <2>2. w \in Tenants!Schema
    BY <1>2, <1>4, SchemaChanges DEF Tenants!CreateDefaults, Tenants!Has, Tenants!Part
  <2> HIDE DEF w
  <2>3. schema' \in [SchemaName -> Tenants!Schema \cup {NoSchema}]
    BY <1>1, <2>1, <2>2, OneChanged
  <2> QED
    BY <1>4, <2>3 DEF Tenants!CreateDefaults, Tenants!TypeOK, Tenants!Goto, Tenants!At, Tenants!Label, Tenants!Building
<1>5. ASSUME NEW t \in Tenants!Thread, Tenants!EndThread(q, t) PROVE Tenants!TypeOK'
  <2> DEFINE w == [schema[s] EXCEPT !.parts = schema[s].parts \cup {t}]
  <2>1. schema' = schema \/ (Tenants!Has(s, "defaults") /\ schema' = [schema EXCEPT ![s] = w])
    BY <1>5 DEF Tenants!EndThread, Tenants!Add
  <2>2. Tenants!Has(s, "defaults") => w \in Tenants!Schema
    BY <1>2, SchemaChanges DEF Tenants!Has, Tenants!Part
  <2> HIDE DEF w
  <2>3. schema' \in [SchemaName -> Tenants!Schema \cup {NoSchema}]
    BY <1>1, <2>1, <2>2, OneChanged DEF Tenants!TypeOK
  <2> QED
    BY <1>5, <2>3 DEF Tenants!EndThread, Tenants!TypeOK, Tenants!At
<1>6. CASE Tenants!Join(q)
  BY <1>6 DEF Tenants!Join, Tenants!TypeOK, Tenants!Goto, Tenants!At, Tenants!Label, Tenants!Building
<1>7. CASE Tenants!InsertReports(q)
  <2> DEFINE w == [schema[s] EXCEPT !.parts = schema[s].parts \cup {"reports"}]
  <2>1. schema' = [schema EXCEPT ![s] = w]
    BY <1>7 DEF Tenants!InsertReports, Tenants!Add
  <2>2. w \in Tenants!Schema
    BY <1>2, <1>7, SchemaChanges DEF Tenants!InsertReports, Tenants!Has, Tenants!Part
  <2> HIDE DEF w
  <2>3. schema' \in [SchemaName -> Tenants!Schema \cup {NoSchema}]
    BY <1>1, <2>1, <2>2, OneChanged
  <2> QED
    BY <1>7, <2>3 DEF Tenants!InsertReports, Tenants!TypeOK, Tenants!Goto, Tenants!At, Tenants!Label, Tenants!Building
<1> QED
  BY <1>3, <1>4, <1>5, <1>6, <1>7

\* Failures, the cleanup after them, crashes and deletions.
LEMMA CleanupType ==
  ASSUME Tenants!TypeOK, NEW q \in Signup,
         Tenants!Fail(q) \/ Tenants!DropUser(q) \/ Tenants!DropOrg(q) \/ Tenants!DropSchema(q) \/ Tenants!GiveUp(q) \/ Tenants!Crash(q)
  PROVE  Tenants!TypeOK'
<1> DEFINE s == Tenants!SchemaOf(q)
<1>1. q \in Tenants!Tenant /\ s \in SchemaName
  BY AskTyped DEF Tenants!SchemaOf, Tenants!Tenant
<1>2. CASE Tenants!Fail(q)
  <2>1. path' \in [Signup -> {"public", "both", "schema"}]
    BY <1>2 DEF Tenants!Fail, Tenants!PathAfter, Tenants!TypeOK
  <2> QED
    BY <1>2, <2>1 DEF Tenants!Fail, Tenants!TypeOK, Tenants!Goto, Tenants!Label, Tenants!Building
<1>3. CASE Tenants!DropUser(q)
  <2> DEFINE others == {i \in schema[s].members : Tenants!RowId(i) # Tenants!UserId(q)}
  <2> DEFINE w == [schema[s] EXCEPT !.members = others]
  <2>1. user' \in [Tenants!Tenant -> Tenants!User \cup {NoUser}]
    BY <1>3 DEF Tenants!DropUser, Tenants!TypeOK
  <2>2. schema' = Tenants!WithoutCreator(Tenants!UserId(q)) \/ (Tenants!Has(s, "people") /\ schema' = [schema EXCEPT ![s] = w])
    BY <1>3 DEF Tenants!DropUser
  <2>3. Tenants!Has(s, "people") => schema[s] \in Tenants!Schema /\ others \in SUBSET Tenants!Tenant
    BY <1>1 DEF Tenants!TypeOK, Tenants!Has, Tenants!There, Tenants!Schema
  <2>4. Tenants!Has(s, "people") => w \in Tenants!Schema
    BY <2>3, SchemaChanges
  <2> HIDE DEF w
  <2>5. schema' \in [SchemaName -> Tenants!Schema \cup {NoSchema}]
    BY <1>1, <2>2, <2>4, OneChanged, WithoutTyped
  <2> QED
    BY <1>3, <2>1, <2>5 DEF Tenants!DropUser, Tenants!TypeOK, Tenants!Goto, Tenants!At, Tenants!Label, Tenants!Building
<1>4. CASE Tenants!DropOrg(q)
  <2>1. org' \in [Tenants!Tenant -> Tenants!Org \cup {NoOrg}]
    BY <1>4 DEF Tenants!DropOrg, Tenants!TypeOK
  <2>2. schema' \in [SchemaName -> Tenants!Schema \cup {NoSchema}]
    BY <1>4, WithoutTyped DEF Tenants!DropOrg
  <2> QED
    BY <1>4, <2>1, <2>2 DEF Tenants!DropOrg, Tenants!TypeOK, Tenants!Goto, Tenants!At, Tenants!Label, Tenants!Building
<1>5. CASE Tenants!DropSchema(q)
  BY <1>1, <1>5 DEF Tenants!DropSchema, Tenants!TypeOK, Tenants!Goto, Tenants!At, Tenants!Label, Tenants!Building
<1>6. CASE Tenants!GiveUp(q)
  BY <1>6 DEF Tenants!GiveUp, Tenants!TypeOK, Tenants!Goto, Tenants!Label, Tenants!Building
<1>7. CASE Tenants!Crash(q)
  BY <1>7 DEF Tenants!Crash, Tenants!TypeOK, Tenants!Goto, Tenants!Label, Tenants!Building
<1> QED
  BY <1>2, <1>3, <1>4, <1>5, <1>6, <1>7

\* The administrator's deletion.
LEMMA DeleteType == ASSUME Tenants!TypeOK, NEW i \in Tenants!Tenant, Tenants!DeleteOrganization(i) PROVE Tenants!TypeOK'
<1>1. org[i] \in Tenants!Org /\ org[i].schema \in SchemaName
  BY DEF Tenants!DeleteOrganization, Tenants!TypeOK, Tenants!Org
<1>2. Tenants!WithoutMembers({i}) \in [SchemaName -> Tenants!Schema \cup {NoSchema}]
  BY WithoutTyped
<1>3. schema' \in [SchemaName -> Tenants!Schema \cup {NoSchema}]
  BY <1>1, <1>2 DEF Tenants!DeleteOrganization
<1> QED
  BY <1>3 DEF Tenants!DeleteOrganization, Tenants!TypeOK

\* Every step keeps the types.
LEMMA TypeNext == Tenants!TypeOK /\ [Tenants!Next]_tenantVars => Tenants!TypeOK'
<1> SUFFICES ASSUME Tenants!TypeOK, [Tenants!Next]_tenantVars PROVE Tenants!TypeOK'
  OBVIOUS
<1>1. CASE UNCHANGED tenantVars
  BY <1>1 DEF Tenants!TypeOK, tenantVars
<1>2. ASSUME NEW q \in Signup, Tenants!Step(q) PROVE Tenants!TypeOK'
  BY <1>2, BuildType, FillType, CleanupType DEF Tenants!Step
<1>3. ASSUME NEW i \in Tenants!Tenant, Tenants!DeleteOrganization(i) PROVE Tenants!TypeOK'
  BY <1>3, DeleteType
<1> QED
  BY <1>1, <1>2, <1>3 DEF Tenants!Next

-----------------------------------------------------------------------------
\* What a step of one signup changes.

\* Where signups are, and what the search path of a failed one is.
LEMMA PcStep ==
  ASSUME Tenants!TypeOK, NEW p \in Signup, Tenants!Step(p), NEW q \in Signup
  PROVE  /\ q # p => pc'[q] = pc[q] /\ path'[q] = path[q]
         /\ pc[q] \notin {"idle", "refused"} => pc'[q] \notin {"idle", "refused"}
         /\ pc'[p] \notin {"idle", "refused"} \/ (Tenants!InsertUser(p) /\ UNCHANGED user)
         /\ pc[p] \in {"idle", "refused"} => Tenants!InsertUser(p)
<1>1. CASE Tenants!InsertUser(p)
  BY <1>1 DEF Tenants!InsertUser, Tenants!Goto, Tenants!At, Tenants!TypeOK
<1>2. CASE Tenants!CreateSchema(p) \/ Tenants!CreateTables(p) \/ Tenants!InsertOrg(p) \/ Tenants!InsertProfile(p)
           \/ Tenants!InsertMember(p) \/ Tenants!CreateDefaults(p)
  BY <1>2 DEF Tenants!CreateSchema, Tenants!CreateTables, Tenants!InsertOrg, Tenants!InsertProfile,
              Tenants!InsertMember, Tenants!Enrol, Tenants!CreateDefaults, Tenants!Goto, Tenants!At, Tenants!TypeOK
<1>3. CASE Tenants!Join(p) \/ Tenants!InsertReports(p) \/ \E t \in Tenants!Thread : Tenants!EndThread(p, t)
  BY <1>3 DEF Tenants!Join, Tenants!InsertReports, Tenants!EndThread, Tenants!Goto, Tenants!At, Tenants!TypeOK
<1>4. CASE Tenants!Fail(p) \/ Tenants!GiveUp(p) \/ Tenants!Crash(p)
  BY <1>4 DEF Tenants!Fail, Tenants!GiveUp, Tenants!Crash, Tenants!Goto, Tenants!Building, Tenants!TypeOK
<1>5. CASE Tenants!DropUser(p) \/ Tenants!DropOrg(p) \/ Tenants!DropSchema(p)
  BY <1>5 DEF Tenants!DropUser, Tenants!DropOrg, Tenants!DropSchema, Tenants!Goto, Tenants!At, Tenants!TypeOK
<1> QED
  BY <1>1, <1>2, <1>3, <1>4, <1>5 DEF Tenants!Step

\* A user is inserted by its signup, moved to an organization, or deleted.
LEMMA UserStep ==
  ASSUME Tenants!TypeOK, NEW p \in Signup, Tenants!Step(p), NEW i \in Tenants!Tenant
  PROVE  \/ user'[i] = user[i]
         \/ Tenants!InsertUser(p) /\ i = Tenants!UserId(p) /\ user[i] = NoUser
         \/ Tenants!InsertMember(p) /\ i = Tenants!RowId(p) /\ user[i] # NoUser
            /\ user'[i] = [user[i] EXCEPT !.org = Tenants!OrgId(p)]
         \/ Tenants!DropUser(p) /\ i = Tenants!UserId(p)
<1>1. CASE Tenants!InsertUser(p)
  BY <1>1 DEF Tenants!InsertUser, Tenants!TypeOK
<1>2. CASE Tenants!InsertMember(p)
  BY <1>2 DEF Tenants!InsertMember, Tenants!Enrol, Tenants!TypeOK
<1>3. CASE Tenants!DropUser(p)
  BY <1>3 DEF Tenants!DropUser, Tenants!TypeOK
<1>4. CASE UNCHANGED user
  BY <1>4
<1> QED
  BY <1>1, <1>2, <1>3, <1>4
  DEF Tenants!Step, Tenants!CreateSchema, Tenants!CreateTables, Tenants!InsertOrg, Tenants!InsertProfile, Tenants!CreateDefaults,
      Tenants!Join, Tenants!InsertReports, Tenants!EndThread, Tenants!Fail, Tenants!DropOrg, Tenants!DropSchema, Tenants!GiveUp, Tenants!Crash

\* An organization is inserted or rewritten under the id in force, or deleted by its schema.
LEMMA OrgStep ==
  ASSUME Tenants!TypeOK, NEW p \in Signup, Tenants!Step(p), NEW i \in Tenants!Tenant
  PROVE  \/ org'[i] = org[i]
         \/ Tenants!InsertOrg(p) /\ i = Tenants!OrgId(p) /\ org'[i] = [name |-> ask[p].name, schema |-> Tenants!SchemaOf(p)]
         \/ Tenants!DropOrg(p) /\ org[i] # NoOrg /\ org[i].schema = Tenants!SchemaOf(p) /\ org'[i] = NoOrg
<1>1. CASE Tenants!InsertOrg(p)
  BY <1>1 DEF Tenants!InsertOrg, Tenants!TypeOK
<1>2. CASE Tenants!DropOrg(p)
  BY <1>2 DEF Tenants!DropOrg, Tenants!TypeOK
<1>3. CASE UNCHANGED org
  BY <1>3
<1> QED
  BY <1>1, <1>2, <1>3
  DEF Tenants!Step, Tenants!InsertUser, Tenants!CreateSchema, Tenants!CreateTables, Tenants!InsertProfile, Tenants!InsertMember, Tenants!Enrol,
      Tenants!CreateDefaults, Tenants!Join, Tenants!InsertReports, Tenants!EndThread, Tenants!Fail, Tenants!DropUser, Tenants!DropSchema,
      Tenants!GiveUp, Tenants!Crash

\* A part is added to a schema.
LEMMA AddKeeps ==
  ASSUME Tenants!TypeOK, NEW s \in SchemaName, Tenants!There(s), NEW x \in Tenants!Part, Tenants!Add(s, x)
  PROVE  /\ schema'[s] # NoSchema /\ schema'[s].members = schema[s].members
         /\ schema'[s].parts = schema[s].parts \cup {x} /\ schema'[s].profile = schema[s].profile
<1>1. schema[s] \in Tenants!Schema
  BY DEF Tenants!TypeOK, Tenants!There
<1>2. [schema[s] EXCEPT !.parts = schema[s].parts \cup {x}] \in Tenants!Schema
  BY <1>1, SchemaChanges
<1>3. schema'[s] = [schema[s] EXCEPT !.parts = schema[s].parts \cup {x}]
  BY DEF Tenants!Add, Tenants!TypeOK
<1> QED
  BY <1>1, <1>2, <1>3, TenantsAssumption DEF Tenants!Schema

\* A schema that stays loses no part; its profile is inserted by its creator and goes with it; a
\* first user comes by its signup and goes with its row or with its organization.
StaysASchema(p, s) ==
  /\ schema[s].parts \subseteq schema'[s].parts
  /\ \/ schema'[s].profile = schema[s].profile
     \/ Tenants!InsertProfile(p) /\ schema[s].profile = Nobody /\ schema'[s].profile = p
     \/ Tenants!DropUser(p) /\ Tenants!RowId(schema[s].profile) = Tenants!UserId(p) /\ schema'[s].profile = Nobody
  /\ \/ schema'[s].members \subseteq schema[s].members
     \/ Tenants!InsertMember(p) /\ Tenants!SchemaOf(p) = s /\ schema'[s].members = schema[s].members \cup {p}
  /\ \A i \in schema[s].members \ schema'[s].members :
       \/ Tenants!DropUser(p) /\ Tenants!SchemaOf(p) = s
       \/ Tenants!DropOrg(p) /\ org[Tenants!OrgId(i)] # NoOrg /\ org[Tenants!OrgId(i)].schema = Tenants!SchemaOf(p)
  /\ Tenants!DropOrg(p) => \A i \in schema'[s].members :
       org[Tenants!OrgId(i)] # NoOrg => org[Tenants!OrgId(i)].schema # Tenants!SchemaOf(p)

LEMMA SchemaStep ==
  ASSUME Tenants!TypeOK, NEW p \in Signup, Tenants!Step(p), NEW s \in SchemaName
  PROVE  /\ Tenants!There(s) /\ schema'[s] = NoSchema => Tenants!DropSchema(p) /\ Tenants!SchemaOf(p) = s
         /\ ~Tenants!There(s) /\ schema'[s] # NoSchema =>
              Tenants!CreateSchema(p) /\ Tenants!SchemaOf(p) = s /\ schema'[s].members = {} /\ schema'[s].profile = Nobody
         /\ Tenants!There(s) /\ schema'[s] # NoSchema => StaysASchema(p, s)
<1> DEFINE r == Tenants!SchemaOf(p)
<1>1. r \in SchemaName /\ p \in Tenants!Tenant
  BY AskTyped DEF Tenants!SchemaOf, Tenants!Tenant
<1>2. Tenants!There(s) => schema[s] \in Tenants!Schema
  BY DEF Tenants!TypeOK, Tenants!There
<1>3. CASE Tenants!CreateSchema(p)
  <2>1. ~Tenants!DropOrg(p)
    BY <1>3 DEF Tenants!CreateSchema, Tenants!DropOrg, Tenants!At
  <2> QED
    BY <1>1, <1>3, <2>1 DEF Tenants!CreateSchema, Tenants!There, Tenants!TypeOK, StaysASchema
<1>4. CASE Tenants!InsertProfile(p)
  <2>1. ~Tenants!DropOrg(p)
    BY <1>4 DEF Tenants!InsertProfile, Tenants!DropOrg, Tenants!At
  <2>2. s # r => schema'[s] = schema[s]
    BY <1>1, <1>4 DEF Tenants!InsertProfile, Tenants!TypeOK
  <2>3. CASE s = r
    <3>1. Tenants!There(s) /\ schema'[s] = [schema[s] EXCEPT !.profile = p] /\ schema[s].profile = Nobody
      BY <1>1, <1>4, <2>3 DEF Tenants!InsertProfile, Tenants!Has, Tenants!TypeOK
    <3>2. schema'[s] \in Tenants!Schema
      BY <1>1, <1>2, <3>1, SchemaChanges
    <3> QED
      BY <1>2, <1>4, <2>1, <3>1, <3>2, TenantsAssumption DEF StaysASchema, Tenants!There, Tenants!Schema
  <2> QED
    BY <2>1, <2>2, <2>3 DEF Tenants!There, StaysASchema
<1>5. CASE Tenants!InsertMember(p)
  <2>1. ~Tenants!DropOrg(p)
    BY <1>5 DEF Tenants!InsertMember, Tenants!Enrol, Tenants!DropOrg, Tenants!At
  <2>2. s # r => schema'[s] = schema[s]
    BY <1>1, <1>5 DEF Tenants!InsertMember, Tenants!Enrol, Tenants!TypeOK
  <2>3. CASE s = r
    <3>1. Tenants!There(s) /\ schema'[s] = [schema[s] EXCEPT !.members = schema[s].members \cup {p}]
      BY <1>1, <1>5, <2>3 DEF Tenants!InsertMember, Tenants!Enrol, Tenants!Has, Tenants!TypeOK
    <3>2. schema[s].members \cup {p} \in SUBSET Tenants!Tenant
      BY <1>1, <1>2, <3>1 DEF Tenants!Schema
    <3>3. schema'[s] \in Tenants!Schema
      BY <1>2, <3>1, <3>2, SchemaChanges
    <3> QED
      BY <1>2, <1>5, <2>1, <2>3, <3>1, <3>3, TenantsAssumption DEF StaysASchema, Tenants!There, Tenants!Schema
  <2> QED
    BY <2>1, <2>2, <2>3 DEF Tenants!There, StaysASchema
<1>6. CASE Tenants!CreateTables(p) \/ Tenants!CreateDefaults(p) \/ Tenants!InsertReports(p) \/ \E t \in Tenants!Thread : Tenants!EndThread(p, t)
  <2>1. schema' = schema \/ \E x \in Tenants!Part : Tenants!There(r) /\ Tenants!Add(r, x)
    BY <1>6 DEF Tenants!CreateTables, Tenants!CreateDefaults, Tenants!InsertReports, Tenants!EndThread, Tenants!Has, Tenants!Part
  <2>2. ~Tenants!DropOrg(p)
    BY <1>6 DEF Tenants!CreateTables, Tenants!CreateDefaults, Tenants!InsertReports, Tenants!EndThread, Tenants!DropOrg, Tenants!At
  <2>3. CASE schema'[s] = schema[s]
    BY <2>2, <2>3 DEF Tenants!There, StaysASchema
  <2>4. ASSUME NEW x \in Tenants!Part, Tenants!There(s), Tenants!Add(s, x) PROVE schema'[s] # NoSchema /\ StaysASchema(p, s)
    BY <2>2, <2>4, AddKeeps DEF StaysASchema
  <2>5. s # r /\ (\E x \in Tenants!Part : Tenants!Add(r, x)) => schema'[s] = schema[s]
    BY <1>1 DEF Tenants!Add, Tenants!TypeOK
  <2> QED
    BY <2>1, <2>3, <2>4, <2>5
<1>7. CASE Tenants!DropUser(p)
  <2> DEFINE others == {i \in schema[r].members : Tenants!RowId(i) # Tenants!UserId(p)}
  <2>1. ~Tenants!DropOrg(p)
    BY <1>7 DEF Tenants!DropUser, Tenants!DropOrg, Tenants!At
  <2>2. CASE schema' = Tenants!WithoutCreator(Tenants!UserId(p))
    <3>1. schema'[s] = schema[s] \/ (Tenants!There(s) /\ Tenants!RowId(schema[s].profile) = Tenants!UserId(p)
                                     /\ schema'[s] = [schema[s] EXCEPT !.profile = Nobody])
      BY <2>2 DEF Tenants!WithoutCreator
    <3>2. Tenants!There(s) => [schema[s] EXCEPT !.profile = Nobody] \in Tenants!Schema
      BY <1>2, SchemaChanges
    <3> QED
      BY <1>2, <1>7, <2>1, <3>1, <3>2, TenantsAssumption DEF StaysASchema, Tenants!There, Tenants!Schema
  <2>3. CASE Tenants!Has(r, "people") /\ schema' = [schema EXCEPT ![r] = [schema[r] EXCEPT !.members = others]]
    <3>1. s # r => schema'[s] = schema[s]
      BY <1>1, <2>3 DEF Tenants!TypeOK
    <3>2. CASE s = r
      <4>1. Tenants!There(s) /\ schema'[s] = [schema[s] EXCEPT !.members = others]
        BY <1>1, <2>3, <3>2 DEF Tenants!Has, Tenants!TypeOK
      <4>2. others \in SUBSET Tenants!Tenant /\ others \subseteq schema[s].members
        BY <1>2, <3>2, <4>1 DEF Tenants!Schema
      <4> HIDE DEF others
      <4>3. schema'[s] \in Tenants!Schema
        BY <1>2, <4>1, <4>2, SchemaChanges
      <4> QED
        BY <1>2, <1>7, <2>1, <3>2, <4>1, <4>2, <4>3, TenantsAssumption DEF StaysASchema, Tenants!There, Tenants!Schema
    <3> QED
      BY <2>1, <3>1, <3>2 DEF Tenants!There, StaysASchema
  <2> QED
    BY <1>7, <2>2, <2>3 DEF Tenants!DropUser
<1>8. CASE Tenants!DropOrg(p)
  <2> DEFINE gone == {i \in Tenants!Tenant : org[i] # NoOrg /\ org[i].schema = r}
  <2> DEFINE left == {i \in schema[s].members : Tenants!OrgId(i) \notin gone}
  <2>1. schema' = Tenants!WithoutMembers(gone)
    BY <1>8 DEF Tenants!DropOrg
  <2>2. ~Tenants!There(s) => schema'[s] = NoSchema
    BY <2>1 DEF Tenants!WithoutMembers
  <2>3. ASSUME Tenants!There(s) PROVE schema'[s] # NoSchema /\ StaysASchema(p, s)
    <3>1. schema'[s] = [schema[s] EXCEPT !.members = left]
      BY <2>1, <2>3 DEF Tenants!WithoutMembers
    <3>2. left \in SUBSET Tenants!Tenant /\ \A i \in schema[s].members : i \in Tenants!Tenant
      BY <1>2, <2>3 DEF Tenants!Schema
    <3>3. schema'[s] \in Tenants!Schema
      BY <1>2, <2>3, <3>1, <3>2, SchemaChanges
    <3>4. schema'[s].members = left /\ schema'[s].parts = schema[s].parts /\ schema'[s].profile = schema[s].profile
      BY <1>2, <2>3, <3>1, <3>3 DEF Tenants!Schema
    <3>5. \A i \in schema[s].members : i \notin left => org[Tenants!OrgId(i)] # NoOrg /\ org[Tenants!OrgId(i)].schema = r
      OBVIOUS
    <3>6. \A i \in left : org[Tenants!OrgId(i)] # NoOrg => org[Tenants!OrgId(i)].schema # r
      BY <3>2, IdsTyped
    <3> QED
      BY <1>8, <3>3, <3>4, <3>5, <3>6, TenantsAssumption DEF StaysASchema
  <2> QED
    BY <2>2, <2>3 DEF Tenants!There
<1>9. CASE Tenants!DropSchema(p)
  <2>1. ~Tenants!DropOrg(p)
    BY <1>9 DEF Tenants!DropSchema, Tenants!DropOrg, Tenants!At
  <2> QED
    BY <1>1, <1>9, <2>1 DEF Tenants!DropSchema, Tenants!There, Tenants!TypeOK, StaysASchema
<1>10. CASE UNCHANGED schema
  <2>1. ~Tenants!DropOrg(p) \/ Tenants!DropOrg(p)
    OBVIOUS
  <2>2. CASE ~Tenants!DropOrg(p)
    BY <1>10, <2>2 DEF Tenants!There, StaysASchema
  <2> QED
    BY <1>8, <2>1, <2>2
<1> QED
  BY <1>3, <1>4, <1>5, <1>6, <1>7, <1>8, <1>9, <1>10
  DEF Tenants!Step, Tenants!InsertUser, Tenants!InsertOrg, Tenants!Join, Tenants!Fail, Tenants!GiveUp, Tenants!Crash

\* Nobody's wishes change, and what has been deleted stays on the list.
LEMMA WishesStay ==
  ASSUME [Tenants!Next]_tenantVars
  PROVE  UNCHANGED ask /\ removed \subseteq removed'
BY DEF Tenants!Next, Tenants!Step, tenantVars, Tenants!InsertUser, Tenants!CreateSchema, Tenants!CreateTables, Tenants!InsertOrg, Tenants!InsertProfile,
       Tenants!InsertMember, Tenants!Enrol, Tenants!CreateDefaults, Tenants!Join, Tenants!InsertReports, Tenants!EndThread, Tenants!Fail,
       Tenants!DropUser, Tenants!DropOrg, Tenants!DropSchema, Tenants!GiveUp, Tenants!Crash, Tenants!DeleteOrganization

\* So are the ids in force, and who has begun, is a rival or has named an id remains so.
LEMMA NamesStay ==
  ASSUME Tenants!TypeOK, [Tenants!Next]_tenantVars
  PROVE  /\ \A i : Tenants!SchemaOf(i)' = Tenants!SchemaOf(i) /\ Tenants!OrgId(i)' = Tenants!OrgId(i)
                   /\ Tenants!UserId(i)' = Tenants!UserId(i) /\ Tenants!RowId(i)' = Tenants!RowId(i)
         /\ Tenants!Begun \subseteq Tenants!Begun'
         /\ \A q : Tenants!Rivals(q) \subseteq Tenants!Rivals(q)' /\ Tenants!Namers(q) \subseteq Tenants!Namers(q)'
         /\ \A o, s : Tenants!Claimed(o, s) => Tenants!Claimed(o, s)'
<1>1. UNCHANGED ask
  BY WishesStay
<1>2. /\ \A i : Tenants!SchemaOf(i)' = Tenants!SchemaOf(i) /\ Tenants!OrgId(i)' = Tenants!OrgId(i)
      /\ \A i : Tenants!UserId(i)' = Tenants!UserId(i)
  BY <1>1 DEF Tenants!SchemaOf, Tenants!OrgId, Tenants!UserId
<1>3. \A i : Tenants!RowId(i)' = Tenants!RowId(i)
  BY <1>1, <1>2 DEF Tenants!RowId
<1>4. Tenants!Begun \subseteq Tenants!Begun'
  <2> SUFFICES ASSUME NEW q \in Signup, pc[q] \notin {"idle", "refused"} PROVE pc'[q] \notin {"idle", "refused"}
    BY DEF Tenants!Begun
  <2>1. CASE \E p \in Signup : Tenants!Step(p)
    BY <2>1, PcStep
  <2>2. CASE \E i \in Tenants!Tenant : Tenants!DeleteOrganization(i)
    BY <2>2 DEF Tenants!DeleteOrganization
  <2>3. CASE UNCHANGED tenantVars
    BY <2>3 DEF tenantVars
  <2> QED
    BY <2>1, <2>2, <2>3 DEF Tenants!Next
<1>5. \A q : Tenants!Rivals(q) \subseteq Tenants!Rivals(q)' /\ Tenants!Namers(q) \subseteq Tenants!Namers(q)'
  BY <1>2, <1>3, <1>4 DEF Tenants!Rivals, Tenants!Namers
<1>6. \A o, s : Tenants!Claimed(o, s) => Tenants!Claimed(o, s)'
  BY <1>2, <1>4 DEF Tenants!Claimed
<1> QED
  BY <1>2, <1>3, <1>4, <1>5, <1>6

-----------------------------------------------------------------------------
\* The stages of a signup that has its organization.
Late == {"profile", "member", "defaults", "metadata", "reports", "created"}

\* The unique constraint of public.organizations.
OrgsDistinct == \A i, j \in Tenants!Tenant :
  org[i] # NoOrg /\ org[j] # NoOrg /\ org[i].schema = org[j].schema => i = j

\* An organization is bound to a schema, unless it has been named for another.
BoundTo(o, s) == org[o].schema = s \/ Tenants!Claimed(o, s)

\* The organization of a signup that has come to insert it.
OrgsAsAsked == \A q \in Signup :
  pc[q] \in Late /\ org[Tenants!OrgId(q)] # NoOrg => BoundTo(Tenants!OrgId(q), Tenants!SchemaOf(q))

\* An id that was made for a signup and nobody has named is that of its organization.
OwnOrgs == \A q \in Signup :
  Tenants!OrgId(q) = q /\ Tenants!Namers(q) = {} /\ org[q] # NoOrg => org[q].schema = Tenants!SchemaOf(q)

\* The first users of a schema belong to the organization bound to it.
MembersBound == \A s \in SchemaName : Tenants!There(s) => \A i \in schema[s].members :
  org[Tenants!OrgId(i)] # NoOrg /\ BoundTo(Tenants!OrgId(i), s)

\* SchemasServeOneTenant alone says nothing of who may enter next.
IInv == Tenants!TypeOK /\ OrgsDistinct /\ OrgsAsAsked /\ OwnOrgs /\ MembersBound

\* A schema serves one tenant because its organization is one.
LEMMA OneTenant == IInv => Tenants!SchemasServeOneTenant
<1> SUFFICES ASSUME IInv, NEW s \in SchemaName, Tenants!There(s),
                    NEW i \in schema[s].members, NEW j \in schema[s].members
             PROVE  /\ org[Tenants!OrgId(i)] # NoOrg
                    /\ \/ Tenants!OrgId(i) = Tenants!OrgId(j) /\ org[Tenants!OrgId(i)].schema = s
                       \/ Tenants!Claimed(Tenants!OrgId(i), s) \/ Tenants!Claimed(Tenants!OrgId(j), s)
  BY DEF Tenants!SchemasServeOneTenant
<1>1. i \in Tenants!Tenant /\ j \in Tenants!Tenant
  BY DEF IInv, Tenants!TypeOK, Tenants!There, Tenants!Schema
<1>2. Tenants!OrgId(i) \in Tenants!Tenant /\ Tenants!OrgId(j) \in Tenants!Tenant
  BY <1>1, IdsTyped DEF IInv
<1> QED
  BY <1>2 DEF IInv, MembersBound, BoundTo, OrgsDistinct

\* The beginning.
LEMMA InvInit == Tenants!Init => IInv
<1> SUFFICES ASSUME Tenants!Init PROVE IInv
  OBVIOUS
<1>1. Established \in Tenants!Tenant /\ Signup \subseteq Tenants!Tenant /\ Established \notin Signup
  BY TenantsAssumption DEF Tenants!Tenant
<1>2. [name |-> Home.name, schema |-> Home.schema] \in Tenants!Org /\ Home.email \in Email /\ Home.schema \in SchemaName
  BY TenantsAssumption DEF Tenants!Org
<1>3. [parts |-> Tenants!Part, profile |-> Established, members |-> {Established}] \in Tenants!Schema
  BY <1>1 DEF Tenants!Schema
<1>4. user \in [Tenants!Tenant -> Tenants!User \cup {NoUser}] /\ org \in [Tenants!Tenant -> Tenants!Org \cup {NoOrg}]
  BY <1>2 DEF Tenants!Init, Tenants!User
<1>5. schema \in [SchemaName -> Tenants!Schema \cup {NoSchema}]
  BY <1>3 DEF Tenants!Init
<1>6. Tenants!TypeOK
  BY <1>4, <1>5 DEF Tenants!Init, Tenants!TypeOK, Tenants!Label
<1>7. \A i \in Tenants!Tenant : org[i] # NoOrg => i = Established /\ org[i].schema = Home.schema
  BY DEF Tenants!Init
<1>8. OrgsDistinct /\ OwnOrgs
  BY <1>1, <1>7 DEF OrgsDistinct, OwnOrgs
<1>9. OrgsAsAsked
  BY DEF OrgsAsAsked, Late, Tenants!Init
<1>10. MembersBound
  <2> SUFFICES ASSUME NEW s \in SchemaName, Tenants!There(s), NEW i \in schema[s].members
               PROVE  org[Tenants!OrgId(i)] # NoOrg /\ org[Tenants!OrgId(i)].schema = s
    BY DEF MembersBound, BoundTo
  <2>1. s = Home.schema /\ Tenants!OrgId(i) = Established
    BY DEF Tenants!Init, Tenants!There, Tenants!OrgId
  <2>2. org[Established] = [name |-> Home.name, schema |-> Home.schema]
    BY <1>1 DEF Tenants!Init
  <2> QED
    BY <1>2, <2>1, <2>2, TenantsAssumption
<1> QED
  BY <1>6, <1>8, <1>9, <1>10 DEF IInv

\* What a signup does to organizations and users keeps them bound to schemas.
LEMMA InvSignup == ASSUME IInv, Tenants!TypeOK', NEW p \in Signup, Tenants!Step(p) PROVE IInv'
<1> DEFINE r == Tenants!SchemaOf(p)
<1>1. p \in Tenants!Tenant /\ Tenants!Next /\ Tenants!TypeOK
  BY DEF IInv, Tenants!Tenant, Tenants!Next
<1>2. /\ \A i : Tenants!SchemaOf(i)' = Tenants!SchemaOf(i) /\ Tenants!OrgId(i)' = Tenants!OrgId(i)
      /\ \A q : Tenants!Namers(q) \subseteq Tenants!Namers(q)'
      /\ \A o, s : Tenants!Claimed(o, s) => Tenants!Claimed(o, s)'
  BY <1>1, NamesStay
<1>3. \A i \in Tenants!Tenant :
         \/ org'[i] = org[i]
         \/ Tenants!InsertOrg(p) /\ i = Tenants!OrgId(p) /\ org'[i] = [name |-> ask[p].name, schema |-> r]
         \/ Tenants!DropOrg(p) /\ org[i] # NoOrg /\ org[i].schema = r /\ org'[i] = NoOrg
  BY <1>1, OrgStep
<1>4. Tenants!InsertOrg(p) => p \in Tenants!Begun' /\ \A i \in Tenants!Tenant : i # Tenants!OrgId(p) /\ org[i] # NoOrg => org[i].schema # r
  <2>1. Tenants!InsertOrg(p) => pc'[p] \notin {"idle", "refused"}
    BY <1>1 DEF Tenants!InsertOrg, Tenants!Goto, Tenants!TypeOK
  <2> QED
    BY <2>1 DEF Tenants!Begun, Tenants!InsertOrg, Tenants!OrgTaken
<1>5. \A i \in Signup : Tenants!OrgId(i) \in Tenants!Tenant /\ i \in Tenants!Tenant
  BY <1>1, IdsTyped DEF Tenants!Tenant
<1>6. ASSUME NEW o \in Tenants!Tenant, NEW s, BoundTo(o, s), org'[o] # NoOrg PROVE BoundTo(o, s)'
  <2>1. CASE org'[o] = org[o]
    BY <1>2, <1>6, <2>1 DEF BoundTo
  <2>2. CASE Tenants!InsertOrg(p) /\ o = Tenants!OrgId(p) /\ org'[o] = [name |-> ask[p].name, schema |-> r]
    <3>1. r # s => Tenants!Claimed(o, s)'
      BY <1>2, <1>4, <2>2 DEF Tenants!Claimed
    <3> QED
      BY <2>2, <3>1 DEF BoundTo
  <2> QED
    BY <1>3, <1>6, <2>1, <2>2
<1>7. OrgsDistinct'
  BY <1>3, <1>4 DEF IInv, OrgsDistinct
<1>8. OrgsAsAsked'
  <2> SUFFICES ASSUME NEW q \in Signup, pc'[q] \in Late, org'[Tenants!OrgId(q)] # NoOrg
               PROVE  BoundTo(Tenants!OrgId(q), Tenants!SchemaOf(q))'
    BY <1>2 DEF OrgsAsAsked
  <2>1. CASE pc[q] \in Late /\ org[Tenants!OrgId(q)] # NoOrg
    BY <1>2, <1>5, <1>6, <2>1 DEF IInv, OrgsAsAsked, BoundTo
  <2>2. CASE org[Tenants!OrgId(q)] = NoOrg
    <3>1. Tenants!InsertOrg(p) /\ Tenants!OrgId(q) = Tenants!OrgId(p) /\ org'[Tenants!OrgId(q)] = [name |-> ask[p].name, schema |-> r]
      BY <1>3, <1>5, <2>2
    <3>2. r # Tenants!SchemaOf(q) => Tenants!Claimed(Tenants!OrgId(q), Tenants!SchemaOf(q))'
      BY <1>2, <1>4, <3>1 DEF Tenants!Claimed
    <3> QED
      BY <1>2, <3>1, <3>2 DEF BoundTo
  <2>3. CASE pc[q] \notin Late
    <3>1. q = p
      BY <1>1, <2>3, PcStep
    <3>2. Tenants!InsertOrg(p)
      BY <1>1, <2>3, <3>1 DEF Late, Tenants!Step, Tenants!InsertUser, Tenants!CreateSchema, Tenants!CreateTables, Tenants!InsertProfile, Tenants!InsertMember,
         Tenants!Enrol, Tenants!CreateDefaults, Tenants!Join, Tenants!InsertReports, Tenants!EndThread, Tenants!Fail, Tenants!DropUser, Tenants!DropOrg,
         Tenants!DropSchema, Tenants!GiveUp, Tenants!Crash, Tenants!Goto, Tenants!At, Tenants!TypeOK
    <3>3. org'[Tenants!OrgId(p)] = [name |-> ask[p].name, schema |-> r]
      BY <1>1, <1>5, <3>2 DEF Tenants!InsertOrg, Tenants!TypeOK
    <3> QED
      BY <1>2, <3>1, <3>3 DEF BoundTo
  <2> QED
    BY <2>1, <2>2, <2>3
<1>9. OwnOrgs'
  <2> SUFFICES ASSUME NEW q \in Signup, Tenants!OrgId(q) = q, Tenants!Namers(q)' = {}, org'[q] # NoOrg
               PROVE  org'[q].schema = Tenants!SchemaOf(q)
    BY <1>2 DEF OwnOrgs
  <2>1. CASE org'[q] = org[q]
    BY <1>2, <2>1 DEF IInv, OwnOrgs
  <2>2. CASE Tenants!InsertOrg(p) /\ q = Tenants!OrgId(p) /\ org'[q] = [name |-> ask[p].name, schema |-> r]
    <3>1. p # q => p \in Tenants!Namers(q)'
      BY <1>2, <1>4, <2>2 DEF Tenants!Namers
    <3> QED
      BY <2>2, <3>1
  <2> QED
    BY <1>3, <1>5, <2>1, <2>2
<1>10. MembersBound'
  <2> SUFFICES ASSUME NEW s \in SchemaName, schema'[s] # NoSchema, NEW i \in schema'[s].members
               PROVE  org'[Tenants!OrgId(i)] # NoOrg /\ BoundTo(Tenants!OrgId(i), s)'
    BY <1>2 DEF MembersBound, Tenants!There, BoundTo
  <2>1. Tenants!There(s) /\ StaysASchema(p, s)
    BY <1>1, SchemaStep
  <2>2. i \in Tenants!Tenant /\ Tenants!OrgId(i) \in Tenants!Tenant
    <3>1. i \in Tenants!Tenant
      BY DEF Tenants!TypeOK, Tenants!Schema
    <3> QED
      BY <1>1, <3>1, IdsTyped
  <2>3. CASE i \in schema[s].members
    <3>1. org[Tenants!OrgId(i)] # NoOrg /\ BoundTo(Tenants!OrgId(i), s)
      BY <2>1, <2>3 DEF IInv, MembersBound
    <3>2. org'[Tenants!OrgId(i)] # NoOrg
      <4>1. [name |-> ask[p].name, schema |-> r] # NoOrg
        BY <1>1, AskTyped, TenantsAssumption DEF Tenants!Org, Tenants!SchemaOf
      <4> QED
        BY <1>3, <2>1, <2>2, <3>1, <4>1 DEF StaysASchema
    <3> QED
      BY <1>2, <1>6, <2>2, <3>1, <3>2 DEF BoundTo
  <2>4. CASE i \notin schema[s].members
    <3>1. Tenants!InsertMember(p) /\ r = s /\ i = p
      BY <2>1, <2>4 DEF StaysASchema
    <3>2. pc[p] \in Late /\ org[Tenants!OrgId(p)] # NoOrg /\ UNCHANGED org
      BY <3>1 DEF Tenants!InsertMember, Tenants!Enrol, Tenants!At, Late
    <3>3. BoundTo(Tenants!OrgId(p), s)
      BY <3>1, <3>2 DEF IInv, OrgsAsAsked
    <3> QED
      BY <1>2, <1>6, <2>2, <3>1, <3>2, <3>3 DEF BoundTo
  <2> QED
    BY <2>3, <2>4
<1> QED
  BY <1>7, <1>8, <1>9, <1>10 DEF IInv

\* A schema after the deletion of an organization.
LEMMA DeleteStep ==
  ASSUME Tenants!TypeOK, NEW o \in Tenants!Tenant, Tenants!DeleteOrganization(o), NEW s \in SchemaName
  PROVE  /\ schema'[s] # NoSchema => /\ Tenants!There(s) /\ schema'[s].parts = schema[s].parts
                                     /\ schema'[s].profile = schema[s].profile
                                     /\ schema'[s].members = {i \in schema[s].members : Tenants!OrgId(i) # o}
         /\ Tenants!There(s) /\ schema'[s] = NoSchema => org[o].schema = s
<1> DEFINE left == {i \in schema[s].members : Tenants!OrgId(i) # o}
<1>1. \/ schema'[s] = NoSchema /\ (org[o].schema = s \/ ~Tenants!There(s))
      \/ Tenants!There(s) /\ schema'[s] = [schema[s] EXCEPT !.members = left]
  BY DEF Tenants!DeleteOrganization, Tenants!WithoutMembers, Tenants!There
<1>2. ASSUME Tenants!There(s), schema'[s] = [schema[s] EXCEPT !.members = left]
      PROVE  /\ schema'[s] # NoSchema /\ schema'[s].parts = schema[s].parts
             /\ schema'[s].profile = schema[s].profile /\ schema'[s].members = left
  <2>1. schema[s] \in Tenants!Schema
    BY <1>2 DEF Tenants!There, Tenants!TypeOK
  <2>2. left \in SUBSET Tenants!Tenant
    BY <2>1 DEF Tenants!Schema
  <2>3. schema'[s] \in Tenants!Schema
    BY <1>2, <2>1, <2>2, SchemaChanges
  <2> QED
    BY <1>2, <2>1, <2>3, TenantsAssumption DEF Tenants!Schema
<1> QED
  BY <1>1, <1>2

\* So does the administrator's deletion.
LEMMA InvDelete == ASSUME IInv, Tenants!TypeOK', NEW o \in Tenants!Tenant, Tenants!DeleteOrganization(o) PROVE IInv'
<1>1. Tenants!TypeOK /\ Tenants!Next
  BY DEF IInv, Tenants!Next
<1>2. /\ \A i : Tenants!SchemaOf(i)' = Tenants!SchemaOf(i) /\ Tenants!OrgId(i)' = Tenants!OrgId(i)
      /\ \A q : Tenants!Namers(q) \subseteq Tenants!Namers(q)'
      /\ \A i, s : Tenants!Claimed(i, s) => Tenants!Claimed(i, s)'
  BY <1>1, NamesStay
<1>3. UNCHANGED pc /\ \A i \in Tenants!Tenant : org'[i] = IF i = o THEN NoOrg ELSE org[i]
  BY <1>1 DEF Tenants!DeleteOrganization, Tenants!TypeOK
<1>4. \A i \in Signup : Tenants!OrgId(i) \in Tenants!Tenant /\ i \in Tenants!Tenant
  BY <1>1, IdsTyped DEF Tenants!Tenant
<1>5. OrgsDistinct'
  BY <1>3 DEF IInv, OrgsDistinct
<1>6. OrgsAsAsked'
  <2> SUFFICES ASSUME NEW q \in Signup, pc'[q] \in Late, org'[Tenants!OrgId(q)] # NoOrg
               PROVE  BoundTo(Tenants!OrgId(q), Tenants!SchemaOf(q))'
    BY <1>2 DEF OrgsAsAsked
  <2>1. org'[Tenants!OrgId(q)] = org[Tenants!OrgId(q)]
    BY <1>3, <1>4
  <2>2. BoundTo(Tenants!OrgId(q), Tenants!SchemaOf(q))
    BY <1>3, <2>1 DEF IInv, OrgsAsAsked
  <2> QED
    BY <1>2, <2>1, <2>2 DEF BoundTo
<1>7. OwnOrgs'
  <2> SUFFICES ASSUME NEW q \in Signup, Tenants!OrgId(q) = q, Tenants!Namers(q)' = {}, org'[q] # NoOrg
               PROVE  org'[q].schema = Tenants!SchemaOf(q)
    BY <1>2 DEF OwnOrgs
  <2> QED
    BY <1>2, <1>3, <1>4 DEF IInv, OwnOrgs
<1>8. MembersBound'
  <2> SUFFICES ASSUME NEW s \in SchemaName, schema'[s] # NoSchema, NEW i \in schema'[s].members
               PROVE  org'[Tenants!OrgId(i)] # NoOrg /\ BoundTo(Tenants!OrgId(i), s)'
    BY <1>2 DEF MembersBound, Tenants!There, BoundTo
  <2>1. Tenants!There(s) /\ i \in schema[s].members /\ Tenants!OrgId(i) # o
    BY <1>1, DeleteStep
  <2>2. i \in Tenants!Tenant
    BY <2>1 DEF Tenants!TypeOK, Tenants!Schema
  <2>3. Tenants!OrgId(i) \in Tenants!Tenant
    BY <1>1, <2>2, IdsTyped
  <2>4. org[Tenants!OrgId(i)] # NoOrg /\ BoundTo(Tenants!OrgId(i), s) /\ org'[Tenants!OrgId(i)] = org[Tenants!OrgId(i)]
    BY <1>3, <2>1, <2>3 DEF IInv, MembersBound
  <2> QED
    BY <1>2, <2>4 DEF BoundTo
<1> QED
  BY <1>5, <1>6, <1>7, <1>8 DEF IInv

\* Every step keeps the invariant.
LEMMA InvNext == IInv /\ [Tenants!Next]_tenantVars => IInv'
<1> SUFFICES ASSUME IInv, [Tenants!Next]_tenantVars PROVE IInv'
  OBVIOUS
<1>1. Tenants!TypeOK'
  BY TypeNext DEF IInv
<1>2. CASE UNCHANGED tenantVars
  <2>1. /\ \A i : Tenants!SchemaOf(i)' = Tenants!SchemaOf(i) /\ Tenants!OrgId(i)' = Tenants!OrgId(i)
        /\ \A q : Tenants!Namers(q) \subseteq Tenants!Namers(q)'
        /\ \A i, s : Tenants!Claimed(i, s) => Tenants!Claimed(i, s)'
    BY NamesStay DEF IInv
  <2>2. UNCHANGED <<org, schema, pc>>
    BY <1>2 DEF tenantVars
  <2>3. OrgsDistinct' /\ OrgsAsAsked'
    BY <2>1, <2>2 DEF IInv, OrgsDistinct, OrgsAsAsked, BoundTo
  <2>4. OwnOrgs' /\ MembersBound'
    BY <2>1, <2>2 DEF IInv, OwnOrgs, MembersBound, BoundTo, Tenants!There
  <2> QED
    BY <1>1, <2>3, <2>4 DEF IInv
<1>3. CASE Tenants!Next
  BY <1>1, <1>3, InvSignup, InvDelete DEF Tenants!Next
<1> QED
  BY <1>2, <1>3

-----------------------------------------------------------------------------
\* Nobody is given the established tenant's user id, so its profile and its first user are
\* apart from those of signups, and a signup's first user is in the schema it has asked for.
HomeApart ==
  /\ user[Established] # NoUser /\ \A p \in Tenants!Begun : Tenants!UserId(p) # Established
  /\ \A s \in SchemaName : Tenants!There(s) =>
       /\ Established \in schema[s].members => schema[s].members = {Established} /\ schema[s].profile = Established
       /\ \A i \in schema[s].members : i # Established => i \in Tenants!Begun /\ Tenants!SchemaOf(i) = s

\* Nobody else has asked for the schema or named an id, and no administrator has deleted the tenant.
AloneThere(q) == Tenants!Rivals(q) \cup Tenants!Namers(q) = {} /\ Tenants!OrgId(q) \notin removed

\* The user is there from the first statement to the answer.
UserStays(q) ==
  pc[q] \in Tenants!Building \cup {"created"} /\ Tenants!Namers(q) = {} =>
    user[Tenants!UserId(q)] = [email |-> ask[q].email, org |-> Tenants!OrgId(q)]

\* What a tenant needs to stand once it has been created, stage by stage.
Standing(q) ==
  /\ pc[q] \in Late => org[Tenants!OrgId(q)] = [name |-> ask[q].name, schema |-> Tenants!SchemaOf(q)]
  /\ pc[q] \in Late \ {"profile"} => Tenants!Has(Tenants!SchemaOf(q), "people")
  /\ pc[q] \in Late \ {"profile", "member"} => Tenants!There(Tenants!SchemaOf(q)) /\ q \in schema[Tenants!SchemaOf(q)].members
  /\ pc[q] \in {"metadata", "reports", "created"} => Tenants!Has(Tenants!SchemaOf(q), "defaults")
  /\ pc[q] = "created" => Tenants!Has(Tenants!SchemaOf(q), "reports")

\* What the cleanup has done so far.
Cleaned(q) ==
  /\ pc[q] = "dropOrg" /\ user[Tenants!UserId(q)] # NoUser => path[q] # "public" \/ Tenants!Namers(q) # {}
  /\ pc[q] \in {"dropSchema", "failed"} =>
       /\ org[Tenants!OrgId(q)] # NoOrg => Tenants!OrgId(q) # q \/ Tenants!Namers(q) # {}
       /\ user[Tenants!UserId(q)] # NoUser => path[q] = "both" \/ Tenants!Namers(q) # {}
  /\ pc[q] = "failed" /\ Tenants!There(Tenants!SchemaOf(q)) =>
       /\ q \notin schema[Tenants!SchemaOf(q)].members /\ schema[Tenants!SchemaOf(q)].profile # q
       /\ Tenants!Rivals(q) # {}

StageOf(q) == UserStays(q) /\ (AloneThere(q) => Standing(q)) /\ Cleaned(q)

\* The second invariant: IInv with what signups have reached.
Reached == IInv /\ HomeApart /\ \A q \in Signup : StageOf(q)

\* A tenant that stands and is answered 201 is whole: nobody else can be its user.
LEMMA StandingIsWhole == Reached => Tenants!CreatedTenantsStand
<1> SUFFICES ASSUME Reached, NEW q \in Signup, pc[q] = "created", AloneThere(q)
             PROVE  /\ user[Tenants!UserId(q)] = [email |-> ask[q].email, org |-> Tenants!OrgId(q)]
                    /\ org[Tenants!OrgId(q)] = [name |-> ask[q].name, schema |-> Tenants!SchemaOf(q)]
                    /\ Tenants!There(Tenants!SchemaOf(q))
                    /\ {"people", "defaults", "reports"} \subseteq schema[Tenants!SchemaOf(q)].parts
                    /\ schema[Tenants!SchemaOf(q)].members = {q}
  BY DEF Tenants!CreatedTenantsStand, AloneThere
<1> DEFINE s == Tenants!SchemaOf(q)
<1>1. Standing(q) /\ UserStays(q) /\ q # Established
  BY TenantsAssumption DEF Reached, StageOf
<1>2. s \in SchemaName
  BY AskTyped DEF Reached, IInv, Tenants!SchemaOf
<1>3. Tenants!There(s) /\ q \in schema[s].members
  BY <1>1 DEF Standing, Late
<1>4. ASSUME NEW i \in schema[s].members PROVE i = q
  <2>1. Established \notin schema[s].members
    BY <1>1, <1>2, <1>3 DEF Reached, HomeApart
  <2>2. i \in Tenants!Begun /\ Tenants!SchemaOf(i) = s
    BY <1>2, <1>3, <1>4, <2>1 DEF Reached, HomeApart
  <2> QED
    BY <2>2 DEF AloneThere, Tenants!Rivals
<1>5. {"people", "defaults", "reports"} \subseteq schema[s].parts
  BY <1>1 DEF Standing, Late, Tenants!Has
<1>6. user[Tenants!UserId(q)] = [email |-> ask[q].email, org |-> Tenants!OrgId(q)]
  BY <1>1 DEF UserStays, AloneThere
<1> QED
  BY <1>1, <1>3, <1>4, <1>5, <1>6 DEF Standing, Late

\* What a cleanup has done amounts to what is promised of it.
LEMMA CleanedIsComplete == Reached => Tenants!CleanupIsComplete
BY DEF Reached, StageOf, Cleaned, Tenants!CleanupIsComplete

\* At first nobody has begun.
LEMMA ReachedInit == Tenants!Init => Reached
<1> SUFFICES ASSUME Tenants!Init PROVE Reached
  OBVIOUS
<1>1. \A q \in Signup : pc[q] = "idle"
  BY DEF Tenants!Init
<1>2. \A q \in Signup : StageOf(q)
  BY <1>1 DEF StageOf, UserStays, Standing, Cleaned, Late, Tenants!Building
<1>3. user[Established] # NoUser
  <2>1. [email |-> Home.email, org |-> Established] \in Tenants!User
    BY TenantsAssumption DEF Tenants!User, Tenants!Tenant
  <2>2. user[Established] = [email |-> Home.email, org |-> Established]
    BY DEF Tenants!Init, Tenants!Tenant
  <2> QED
    BY <2>1, <2>2, TenantsAssumption
<1>4. HomeApart
  BY <1>1, <1>3 DEF HomeApart, Tenants!Begun, Tenants!There, Tenants!Init
<1> QED
  BY <1>2, <1>4, InvInit DEF Reached

-----------------------------------------------------------------------------
\* The established tenant's user and schema stay apart from what signups do.
LEMMA HomeStays == ASSUME Reached, IInv', NEW p \in Signup, Tenants!Step(p) PROVE HomeApart'
<1>1. Tenants!TypeOK /\ Tenants!Next /\ p # Established /\ Nobody # Established /\ Established \in Tenants!Tenant
  BY TenantsAssumption DEF Reached, IInv, Tenants!Next, Tenants!Tenant
<1>2. /\ \A i : Tenants!SchemaOf(i)' = Tenants!SchemaOf(i) /\ Tenants!UserId(i)' = Tenants!UserId(i)
      /\ Tenants!Begun \subseteq Tenants!Begun'
  BY <1>1, NamesStay
<1>3. Tenants!DropUser(p) \/ Tenants!InsertMember(p) => p \in Tenants!Begun
  BY DEF Tenants!DropUser, Tenants!InsertMember, Tenants!Enrol, Tenants!At, Tenants!Begun
<1>4. Tenants!DropUser(p) => Tenants!UserId(p) # Established
  BY <1>3 DEF Reached, HomeApart
<1>5. user'[Established] # NoUser
  <2>1. user[Established] \in Tenants!User
    BY <1>1 DEF Reached, HomeApart, Tenants!TypeOK
  <2>2. [user[Established] EXCEPT !.org = Tenants!OrgId(p)] \in Tenants!User
    BY <1>1, <2>1, IdsTyped DEF Tenants!User, Tenants!Tenant
  <2> QED
    BY <1>1, <1>4, <2>1, <2>2, UserStep, TenantsAssumption
<1>6. ASSUME NEW q \in Tenants!Begun' PROVE Tenants!UserId(q) # Established
  <2>1. CASE q \in Tenants!Begun
    BY <2>1 DEF Reached, HomeApart
  <2>2. CASE q \notin Tenants!Begun
    <3>1. q = p /\ Tenants!InsertUser(p)
      BY <1>1, <1>6, <2>2, PcStep DEF Tenants!Begun
    <3>2. pc'[p] # "refused"
      BY <1>6, <3>1 DEF Tenants!Begun
    <3>3. user[Tenants!UserId(p)] = NoUser \/ Tenants!UserId(p) \notin Tenants!Tenant
      BY <1>1, <3>1, <3>2 DEF Tenants!InsertUser, Tenants!Goto, Tenants!TypeOK
    <3> QED
      BY <1>1, <3>1, <3>3 DEF Reached, HomeApart
  <2> QED
    BY <2>1, <2>2
<1>7. ASSUME NEW s \in SchemaName, schema'[s] # NoSchema
      PROVE  /\ Established \in schema'[s].members => schema'[s].members = {Established} /\ schema'[s].profile = Established
             /\ \A i \in schema'[s].members : i # Established => i \in Tenants!Begun' /\ Tenants!SchemaOf(i) = s
  <2>1. CASE ~Tenants!There(s)
    BY <1>1, <1>7, <2>1, SchemaStep
  <2>2. CASE Tenants!There(s)
    <3>1. StaysASchema(p, s)
      BY <1>1, <1>7, <2>2, SchemaStep
    <3>2. /\ Established \in schema[s].members => schema[s].members = {Established} /\ schema[s].profile = Established
          /\ \A i \in schema[s].members : i # Established => i \in Tenants!Begun /\ Tenants!SchemaOf(i) = s
      BY <2>2 DEF Reached, HomeApart
    <3>3. Established \in schema'[s].members => schema'[s].members = {Established} /\ schema'[s].profile = Established
      <4> SUFFICES ASSUME Established \in schema'[s].members
                   PROVE  schema'[s].members = {Established} /\ schema'[s].profile = Established
        OBVIOUS
      <4>1. Established \in schema[s].members
        BY <1>1, <3>1 DEF StaysASchema
      <4>2. Tenants!InsertMember(p) /\ Tenants!SchemaOf(p) = s => schema[s].profile = p
        BY DEF Tenants!InsertMember, Tenants!Enrol
      <4>3. schema'[s].members = {Established}
        BY <1>1, <3>1, <3>2, <4>1, <4>2 DEF StaysASchema
      <4>4. Tenants!RowId(Established) = Established
        BY DEF Tenants!RowId
      <4> QED
        BY <1>1, <1>4, <3>1, <3>2, <4>1, <4>3, <4>4 DEF StaysASchema
    <3> QED
      BY <1>2, <1>3, <3>1, <3>2, <3>3 DEF StaysASchema
  <2> QED
    BY <2>1, <2>2
<1> QED
  BY <1>2, <1>5, <1>6, <1>7 DEF HomeApart, Tenants!There

\* What others do to a signup.
LEMMA ReachedByOthers ==
  ASSUME Reached, NEW p \in Signup, Tenants!Step(p), NEW q \in Signup, q # p
  PROVE  StageOf(q)'
<1> DEFINE s == Tenants!SchemaOf(q)
<1>1. Tenants!TypeOK /\ Tenants!Next /\ s \in SchemaName /\ q \in Tenants!Tenant /\ Nobody # q
  BY AskTyped, TenantsAssumption DEF Reached, IInv, Tenants!SchemaOf, Tenants!Tenant, Tenants!Next
<1>2. /\ \A i : Tenants!SchemaOf(i)' = Tenants!SchemaOf(i) /\ Tenants!OrgId(i)' = Tenants!OrgId(i)
                /\ Tenants!UserId(i)' = Tenants!UserId(i) /\ Tenants!RowId(i)' = Tenants!RowId(i)
      /\ Tenants!Begun \subseteq Tenants!Begun' /\ Tenants!Rivals(q) \subseteq Tenants!Rivals(q)'
      /\ Tenants!Namers(q) \subseteq Tenants!Namers(q)' /\ UNCHANGED ask /\ removed \subseteq removed'
  BY <1>1, NamesStay, WishesStay
<1>3. pc'[q] = pc[q] /\ path'[q] = path[q] /\ StageOf(q)
  BY <1>1, PcStep DEF Reached
<1>4. Tenants!UserId(q) \in Tenants!Tenant /\ Tenants!OrgId(q) \in Tenants!Tenant
  BY <1>1, IdsTyped, TenantsAssumption
<1>5. p \in Tenants!Begun' \/ (UNCHANGED <<user, org, schema>>)
  <2>1. pc'[p] \notin {"idle", "refused"} \/ (Tenants!InsertUser(p) /\ UNCHANGED user)
    BY <1>1, PcStep
  <2> QED
    BY <2>1 DEF Tenants!Begun, Tenants!InsertUser
<1>6. p \in Tenants!Begun' => /\ Tenants!OrgId(p) = Tenants!OrgId(q) => Tenants!Namers(q)' # {}
                              /\ Tenants!UserId(q) \in {Tenants!UserId(p), Tenants!RowId(p)} => Tenants!Namers(q)' # {}
                              /\ Tenants!SchemaOf(p) = s => Tenants!Rivals(q)' # {}
  <2> SUFFICES ASSUME p \in Tenants!Begun'
               PROVE  /\ Tenants!OrgId(p) = Tenants!OrgId(q) => p \in Tenants!Namers(q)'
                      /\ Tenants!UserId(q) \in {Tenants!UserId(p), Tenants!RowId(p)} => p \in Tenants!Namers(q)'
                      /\ Tenants!SchemaOf(p) = s => p \in Tenants!Rivals(q)'
    OBVIOUS
  <2> QED
    BY <1>2 DEF Tenants!Namers, Tenants!Rivals
<1>7. UserStays(q)'
  <2> SUFFICES ASSUME pc[q] \in Tenants!Building \cup {"created"}, Tenants!Namers(q)' = {}
               PROVE  user'[Tenants!UserId(q)] = [email |-> ask[q].email, org |-> Tenants!OrgId(q)]
    BY <1>2, <1>3 DEF UserStays
  <2>1. user[Tenants!UserId(q)] = [email |-> ask[q].email, org |-> Tenants!OrgId(q)]
    BY <1>2, <1>3 DEF StageOf, UserStays
  <2>2. user[Tenants!UserId(q)] # NoUser
    BY <1>1, <1>4, <2>1, AskTyped, TenantsAssumption DEF Tenants!User
  <2> QED
    BY <1>1, <1>4, <1>5, <1>6, <2>1, <2>2, UserStep
<1>8. ASSUME AloneThere(q)' PROVE Standing(q)'
  <2>1. Standing(q) /\ Tenants!Rivals(q)' = {} /\ Tenants!Namers(q)' = {}
    BY <1>2, <1>3, <1>8 DEF AloneThere, StageOf
  <2>2. CASE UNCHANGED <<user, org, schema>>
    BY <1>2, <1>3, <2>1, <2>2 DEF Standing, Tenants!There, Tenants!Has
  <2>3. CASE p \in Tenants!Begun'
    <3>1. Tenants!OrgId(p) # Tenants!OrgId(q) /\ Tenants!SchemaOf(p) # s
      BY <1>6, <2>1, <2>3
    <3>2. CASE pc[q] \notin Late
      BY <1>3, <3>2 DEF Standing, Late
    <3>3. CASE pc[q] \in Late
      <4>1. org[Tenants!OrgId(q)].schema = s
        BY <2>1, <3>3 DEF Standing
      <4>2. org'[Tenants!OrgId(q)] = org[Tenants!OrgId(q)]
        BY <1>1, <1>4, <3>1, <4>1, OrgStep
      <4>3. Tenants!There(s) => schema'[s] # NoSchema /\ StaysASchema(p, s)
        BY <1>1, <3>1, SchemaStep
      <4>4. Tenants!There(s) => /\ schema'[s] # NoSchema /\ schema[s].parts \subseteq schema'[s].parts
                                /\ q \in schema[s].members => q \in schema'[s].members
        BY <3>1, <4>1, <4>3 DEF StaysASchema
      <4> QED
        BY <1>2, <1>3, <2>1, <4>2, <4>4 DEF Standing, Tenants!There, Tenants!Has
    <3> QED
      BY <3>2, <3>3
  <2> QED
    BY <1>5, <2>2, <2>3
<1>9. Cleaned(q)'
  <2>1. Cleaned(q)
    BY <1>3 DEF StageOf
  <2>2. user'[Tenants!UserId(q)] # NoUser /\ user[Tenants!UserId(q)] = NoUser => Tenants!Namers(q)' # {}
    BY <1>1, <1>4, <1>5, <1>6, UserStep
  <2>3. org'[Tenants!OrgId(q)] # NoOrg /\ org[Tenants!OrgId(q)] = NoOrg => Tenants!Namers(q)' # {}
    BY <1>1, <1>4, <1>5, <1>6, OrgStep
  <2>4. ASSUME pc[q] = "failed", schema'[s] # NoSchema
        PROVE  q \notin schema'[s].members /\ schema'[s].profile # q /\ Tenants!Rivals(q)' # {}
    <3>1. CASE ~Tenants!There(s)
      <4>1. Tenants!SchemaOf(p) = s /\ schema'[s].members = {} /\ schema'[s].profile = Nobody
        BY <1>1, <2>4, <3>1, SchemaStep
      <4>2. p \in Tenants!Begun'
        BY <1>5, <2>4, <3>1 DEF Tenants!There
      <4> QED
        BY <1>1, <1>6, <4>1, <4>2
    <3>2. CASE Tenants!There(s)
      <4>1. StaysASchema(p, s)
        BY <1>1, <2>4, <3>2, SchemaStep
      <4>2. q \notin schema[s].members /\ schema[s].profile # q /\ Tenants!Rivals(q) # {}
        BY <2>1, <2>4, <3>2 DEF Cleaned
      <4> QED
        BY <1>1, <1>2, <4>1, <4>2 DEF StaysASchema
    <3> QED
      BY <3>1, <3>2
  <2>5. (pc[q] = "dropOrg" /\ user[Tenants!UserId(q)] # NoUser => path[q] # "public" \/ Tenants!Namers(q)' # {})
        /\ (pc[q] \in {"dropSchema", "failed"} =>
              /\ org[Tenants!OrgId(q)] # NoOrg => Tenants!OrgId(q) # q \/ Tenants!Namers(q)' # {}
              /\ user[Tenants!UserId(q)] # NoUser => path[q] = "both" \/ Tenants!Namers(q)' # {})
    BY <1>2, <2>1 DEF Cleaned
  <2> QED
    BY <1>2, <1>3, <2>2, <2>3, <2>4, <2>5 DEF Cleaned, Tenants!There
<1> QED
  BY <1>7, <1>8, <1>9 DEF StageOf

\* What a signup's own step does to it.
LEMMA ReachedByOwn == ASSUME Reached, NEW q \in Signup, Tenants!Step(q) PROVE StageOf(q)'
<1> DEFINE s == Tenants!SchemaOf(q)
<1>1. Tenants!TypeOK /\ Tenants!Next /\ s \in SchemaName /\ q \in Tenants!Tenant
  BY AskTyped DEF Reached, IInv, Tenants!SchemaOf, Tenants!Tenant, Tenants!Next
<1>2. /\ Tenants!SchemaOf(q)' = s /\ Tenants!OrgId(q)' = Tenants!OrgId(q)
                /\ Tenants!UserId(q)' = Tenants!UserId(q) /\ Tenants!RowId(q)' = Tenants!RowId(q)
      /\ Tenants!Rivals(q) \subseteq Tenants!Rivals(q)'
      /\ Tenants!Namers(q) \subseteq Tenants!Namers(q)' /\ UNCHANGED ask /\ removed \subseteq removed'
  BY <1>1, NamesStay, WishesStay
<1>3. UserStays(q) /\ (AloneThere(q)' => Standing(q)) /\ Cleaned(q)
  BY <1>2 DEF Reached, StageOf, AloneThere
<1>4. ASSUME NEW l, Tenants!Goto(q, l) PROVE pc'[q] = l
  BY <1>1, <1>4 DEF Tenants!Goto, Tenants!TypeOK
<1>5. Tenants!There(s) /\ schema'[s] # NoSchema => StaysASchema(q, s)
  BY <1>1, SchemaStep
<1>6. Tenants!UserId(q) \in Tenants!Tenant /\ Tenants!OrgId(q) \in Tenants!Tenant
  BY <1>1, IdsTyped, TenantsAssumption
<1>7. CASE Tenants!InsertUser(q) \/ Tenants!CreateSchema(q) \/ Tenants!CreateTables(q) \/ Tenants!Fail(q) \/ Tenants!GiveUp(q) \/ Tenants!Crash(q)
  <2>1. pc'[q] \in {"refused", "schema", "tables", "org", "dropUser", "dirty", "crashed"}
    BY <1>4, <1>7 DEF Tenants!InsertUser, Tenants!CreateSchema, Tenants!CreateTables, Tenants!Fail, Tenants!GiveUp, Tenants!Crash
  <2>2. Standing(q)' /\ Cleaned(q)'
    BY <2>1 DEF Standing, Cleaned, Late
  <2>3. CASE Tenants!InsertUser(q)
    <3>1. pc'[q] = "refused" \/ user'[Tenants!UserId(q)] = [email |-> ask[q].email, org |-> Tenants!OrgId(q)]
      BY <1>1, <1>4, <1>6, <2>3 DEF Tenants!InsertUser, Tenants!TypeOK
    <3> QED
      BY <1>2, <2>2, <3>1 DEF StageOf, UserStays, Tenants!Building
  <2>4. CASE Tenants!CreateSchema(q) \/ Tenants!CreateTables(q)
    <3>1. UNCHANGED user /\ pc[q] \in Tenants!Building
      BY <2>4 DEF Tenants!CreateSchema, Tenants!CreateTables, Tenants!At, Tenants!Building
    <3> QED
      BY <1>2, <1>3, <2>2, <3>1 DEF StageOf, UserStays
  <2>5. CASE Tenants!Fail(q) \/ Tenants!GiveUp(q) \/ Tenants!Crash(q)
    <3>1. pc'[q] \notin Tenants!Building \cup {"created"}
      BY <1>4, <2>5 DEF Tenants!Fail, Tenants!GiveUp, Tenants!Crash, Tenants!Building
    <3> QED
      BY <2>2, <3>1 DEF StageOf, UserStays
  <2> QED
    BY <1>7, <2>3, <2>4, <2>5
<1>8. CASE Tenants!InsertOrg(q)
  <2>1. pc[q] = "org" /\ pc'[q] = "profile" /\ UNCHANGED user
        /\ org'[Tenants!OrgId(q)] = [name |-> ask[q].name, schema |-> s]
    BY <1>1, <1>4, <1>6, <1>8 DEF Tenants!InsertOrg, Tenants!At, Tenants!TypeOK
  <2> QED
    BY <1>2, <1>3, <2>1 DEF StageOf, UserStays, Standing, Cleaned, Late, Tenants!Building
<1>9. CASE Tenants!InsertProfile(q)
  <2>1. pc[q] = "profile" /\ pc'[q] = "member" /\ UNCHANGED <<user, org>> /\ Tenants!Has(s, "people")
    BY <1>4, <1>9 DEF Tenants!InsertProfile, Tenants!At
  <2>2. schema'[s] # NoSchema
    BY <1>1, <1>9, <2>1, SchemaStep DEF Tenants!Has, Tenants!InsertProfile, Tenants!DropSchema, Tenants!At
  <2>3. Tenants!Has(s, "people")'
    BY <1>2, <1>5, <2>1, <2>2 DEF StaysASchema, Tenants!Has, Tenants!There
  <2> QED
    BY <1>2, <1>3, <2>1, <2>3 DEF StageOf, UserStays, Standing, Cleaned, Late, Tenants!Building
<1>10. CASE Tenants!InsertMember(q)
  <2>1. pc[q] = "member" /\ pc'[q] = "defaults" /\ UNCHANGED org /\ Tenants!Has(s, "people")
    BY <1>4, <1>10 DEF Tenants!InsertMember, Tenants!Enrol, Tenants!At
  <2>2. schema'[s] # NoSchema /\ ~Tenants!DropUser(q) /\ ~Tenants!DropOrg(q)
    BY <1>1, <2>1, SchemaStep DEF Tenants!Has, Tenants!DropSchema, Tenants!DropUser, Tenants!DropOrg, Tenants!At
  <2>3. q \in schema'[s].members
    <3>1. schema[s] \in Tenants!Schema
      BY <1>1, <2>1 DEF Tenants!Has, Tenants!There, Tenants!TypeOK
    <3>2. schema'[s] = [schema[s] EXCEPT !.members = schema[s].members \cup {q}]
      BY <1>1, <1>10 DEF Tenants!InsertMember, Tenants!Enrol, Tenants!TypeOK
    <3>3. schema[s].members \cup {q} \in SUBSET Tenants!Tenant
      BY <1>1, <3>1 DEF Tenants!Schema
    <3>4. schema'[s] \in Tenants!Schema
      BY <3>1, <3>2, <3>3, SchemaChanges
    <3> QED
      BY <3>1, <3>2, <3>4 DEF Tenants!Schema
  <2>4. Tenants!Has(s, "people")' /\ Tenants!There(s)'
    BY <1>2, <1>5, <2>1, <2>2 DEF StaysASchema, Tenants!Has, Tenants!There
  <2>5. UserStays(q)'
    <3> SUFFICES ASSUME Tenants!Namers(q)' = {}
                 PROVE  user'[Tenants!UserId(q)] = [email |-> ask[q].email, org |-> Tenants!OrgId(q)]
      BY <1>2 DEF UserStays
    <3>1. user[Tenants!UserId(q)] = [email |-> ask[q].email, org |-> Tenants!OrgId(q)]
      BY <1>2, <1>3, <2>1 DEF UserStays, Tenants!Building
    <3>2. user[Tenants!UserId(q)] # NoUser /\ ~Tenants!InsertUser(q)
      BY <1>1, <1>6, <2>1, <3>1, AskTyped, TenantsAssumption DEF Tenants!User, Tenants!InsertUser, Tenants!At
    <3> QED
      BY <1>1, <1>6, <2>2, <3>1, <3>2, UserStep
  <2> QED
    BY <1>2, <1>3, <2>1, <2>3, <2>4, <2>5 DEF StageOf, Standing, Cleaned, Late
<1>11. CASE Tenants!CreateDefaults(q) \/ Tenants!InsertReports(q)
  <2>1. UNCHANGED <<user, org>> /\ Tenants!There(s) /\ \E x \in Tenants!Part : Tenants!Add(s, x) /\
          (\/ x = "defaults" /\ pc[q] = "defaults" /\ pc'[q] = "metadata"
           \/ x = "reports" /\ pc[q] = "reports" /\ pc'[q] = "created")
    BY <1>4, <1>11 DEF Tenants!CreateDefaults, Tenants!InsertReports, Tenants!At, Tenants!Has, Tenants!Part
  <2>2. PICK x \in Tenants!Part : Tenants!Add(s, x) /\
          (\/ x = "defaults" /\ pc[q] = "defaults" /\ pc'[q] = "metadata"
           \/ x = "reports" /\ pc[q] = "reports" /\ pc'[q] = "created")
    BY <2>1
  <2>3. schema'[s] # NoSchema /\ schema'[s].members = schema[s].members /\ schema'[s].parts = schema[s].parts \cup {x}
    BY <1>1, <2>1, <2>2, AddKeeps
  <2>4. UserStays(q)' /\ Cleaned(q)'
    BY <1>2, <1>3, <2>1, <2>2 DEF UserStays, Cleaned, Tenants!Building
  <2>5. AloneThere(q)' => Standing(q)'
    BY <1>2, <1>3, <2>1, <2>2, <2>3 DEF Standing, Late, Tenants!Has, Tenants!There
  <2> QED
    BY <2>4, <2>5 DEF StageOf
<1>12. ASSUME NEW t \in Tenants!Thread, Tenants!EndThread(q, t) PROVE StageOf(q)'
  <2>1. UNCHANGED <<user, org, pc, path>> /\ pc[q] = "metadata"
    BY <1>12 DEF Tenants!EndThread, Tenants!At
  <2>2. Tenants!There(s) => schema'[s] # NoSchema /\ schema'[s].members = schema[s].members /\ schema[s].parts \subseteq schema'[s].parts
    <3>1. CASE UNCHANGED schema
      BY <3>1 DEF Tenants!There
    <3>2. CASE Tenants!Has(s, "defaults") /\ Tenants!Add(s, t)
      BY <1>1, <3>2, AddKeeps DEF Tenants!Has, Tenants!Part
    <3> QED
      BY <1>12, <3>1, <3>2 DEF Tenants!EndThread
  <2>3. AloneThere(q)' => Standing(q)'
    BY <1>2, <1>3, <2>1, <2>2 DEF Standing, Late, Tenants!Has, Tenants!There
  <2> QED
    BY <1>2, <1>3, <2>1, <2>3 DEF StageOf, UserStays, Cleaned
<1>13. CASE Tenants!Join(q)
  <2>1. UNCHANGED <<user, org, schema>> /\ pc[q] = "metadata" /\ pc'[q] = "reports"
    BY <1>4, <1>13 DEF Tenants!Join, Tenants!At
  <2>2. AloneThere(q)' => Standing(q)'
    BY <1>2, <1>3, <2>1 DEF Standing, Late, Tenants!Has, Tenants!There
  <2> QED
    BY <1>2, <1>3, <2>1, <2>2 DEF StageOf, UserStays, Cleaned, Tenants!Building
<1>14. CASE Tenants!DropUser(q)
  <2>1. pc'[q] = "dropOrg" /\ UNCHANGED path /\ (path[q] # "public" \/ user'[Tenants!UserId(q)] = NoUser)
    BY <1>1, <1>4, <1>6, <1>14 DEF Tenants!DropUser, Tenants!TypeOK
  <2> QED
    BY <1>2, <2>1 DEF StageOf, UserStays, Standing, Cleaned, Late, Tenants!Building
<1>15. CASE Tenants!DropOrg(q)
  <2>1. pc[q] = "dropOrg" /\ pc'[q] = "dropSchema" /\ UNCHANGED <<user, path>> /\ path[q] # "schema"
    BY <1>4, <1>15 DEF Tenants!DropOrg, Tenants!At
  <2>2. org'[Tenants!OrgId(q)] # NoOrg => Tenants!OrgId(q) # q \/ Tenants!Namers(q)' # {}
    <3> SUFFICES ASSUME Tenants!OrgId(q) = q, Tenants!Namers(q) = {} PROVE org'[q] = NoOrg
      BY <1>2
    <3>1. org[q] # NoOrg => org[q].schema = s
      BY DEF Reached, IInv, OwnOrgs
    <3> QED
      BY <1>1, <1>15, <3>1 DEF Tenants!DropOrg
  <2>3. path[q] \in {"public", "both", "schema"}
    BY <1>1 DEF Tenants!TypeOK
  <2>4. user[Tenants!UserId(q)] # NoUser => path[q] = "both" \/ Tenants!Namers(q)' # {}
    BY <1>2, <1>3, <2>1, <2>3 DEF Cleaned
  <2>5. pc'[q] \notin Tenants!Building \cup {"created"} \cup Late
    BY <2>1 DEF Tenants!Building, Late
  <2> QED
    BY <1>2, <2>1, <2>2, <2>4, <2>5 DEF StageOf, UserStays, Standing, Cleaned, Late
<1>16. CASE Tenants!DropSchema(q)
  <2>1. pc[q] = "dropSchema" /\ pc'[q] = "failed" /\ UNCHANGED <<user, path, org>> /\ schema'[s] = NoSchema
    BY <1>1, <1>4, <1>16 DEF Tenants!DropSchema, Tenants!At, Tenants!TypeOK
  <2>2. Cleaned(q)'
    BY <1>2, <1>3, <2>1 DEF Cleaned, Tenants!There
  <2>3. pc'[q] \notin Tenants!Building \cup {"created"} \cup Late
    BY <2>1 DEF Tenants!Building, Late
  <2> QED
    BY <2>2, <2>3 DEF StageOf, UserStays, Standing, Late
<1> QED
  BY <1>7, <1>8, <1>9, <1>10, <1>11, <1>12, <1>13, <1>14, <1>15, <1>16 DEF Tenants!Step

\* What an administrator's deletion does to a signup.
LEMMA ReachedByDelete ==
  ASSUME Reached, NEW o \in Tenants!Tenant, Tenants!DeleteOrganization(o), NEW q \in Signup
  PROVE  StageOf(q)'
<1> DEFINE s == Tenants!SchemaOf(q)
<1>1. Tenants!TypeOK /\ Tenants!Next /\ s \in SchemaName /\ q \in Tenants!Tenant
  BY AskTyped DEF Reached, IInv, Tenants!SchemaOf, Tenants!Tenant, Tenants!Next
<1>2. /\ Tenants!SchemaOf(q)' = s /\ Tenants!OrgId(q)' = Tenants!OrgId(q) /\ Tenants!UserId(q)' = Tenants!UserId(q)
      /\ Tenants!Rivals(q) \subseteq Tenants!Rivals(q)' /\ Tenants!Namers(q) \subseteq Tenants!Namers(q)'
      /\ UNCHANGED <<ask, user, pc, path>> /\ removed \subseteq removed'
  BY <1>1, NamesStay, WishesStay DEF Tenants!DeleteOrganization
<1>3. Tenants!OrgId(q) \in Tenants!Tenant
  BY <1>1, IdsTyped
<1>4. /\ schema'[s] # NoSchema => /\ Tenants!There(s) /\ schema'[s].parts = schema[s].parts
                                  /\ schema'[s].profile = schema[s].profile
                                  /\ schema'[s].members = {i \in schema[s].members : Tenants!OrgId(i) # o}
      /\ Tenants!There(s) /\ schema'[s] = NoSchema => org[o].schema = s
  BY <1>1, DeleteStep
<1>5. org'[Tenants!OrgId(q)] = IF Tenants!OrgId(q) = o THEN NoOrg ELSE org[Tenants!OrgId(q)]
  BY <1>1, <1>3 DEF Tenants!DeleteOrganization, Tenants!TypeOK
<1>6. StageOf(q)
  BY DEF Reached
<1>7. ASSUME AloneThere(q)' PROVE Standing(q)'
  <2>1. Standing(q) /\ o # Tenants!OrgId(q)
    BY <1>2, <1>6, <1>7 DEF AloneThere, StageOf, Tenants!DeleteOrganization
  <2>2. CASE pc[q] \notin Late
    BY <1>2, <2>2 DEF Standing, Late
  <2>3. CASE pc[q] \in Late
    <3>1. org[Tenants!OrgId(q)] = [name |-> ask[q].name, schema |-> s] /\ org[Tenants!OrgId(q)] # NoOrg
      BY <1>1, <2>1, <2>3, AskTyped, TenantsAssumption DEF Standing, Tenants!Org
    <3>2. org[o].schema # s
      BY <1>3, <2>1, <3>1 DEF Tenants!DeleteOrganization, Reached, IInv, OrgsDistinct
    <3>3. Tenants!There(s) => /\ schema'[s] # NoSchema /\ schema'[s].parts = schema[s].parts
                              /\ q \in schema[s].members => q \in schema'[s].members
      BY <1>4, <2>1, <3>2
    <3> QED
      BY <1>2, <1>5, <2>1, <3>3 DEF Standing, Tenants!There, Tenants!Has
  <2> QED
    BY <2>2, <2>3
<1>8. Cleaned(q)'
  <2>1. Cleaned(q)
    BY <1>6 DEF StageOf
  <2>2. schema'[s] # NoSchema => Tenants!There(s) /\ schema'[s].profile = schema[s].profile /\ schema'[s].members \subseteq schema[s].members
    BY <1>4
  <2> QED
    BY <1>2, <1>5, <2>1, <2>2 DEF Cleaned, Tenants!There
<1> QED
  BY <1>2, <1>6, <1>7, <1>8 DEF StageOf, UserStays

\* It leaves the established tenant's user alone.
LEMMA HomeStaysByDelete ==
  ASSUME Reached, NEW o \in Tenants!Tenant, Tenants!DeleteOrganization(o)
  PROVE  HomeApart'
<1>1. Tenants!TypeOK /\ Tenants!Next
  BY DEF Reached, IInv, Tenants!Next
<1>2. /\ \A i : Tenants!SchemaOf(i)' = Tenants!SchemaOf(i) /\ Tenants!UserId(i)' = Tenants!UserId(i)
      /\ Tenants!Begun' = Tenants!Begun /\ UNCHANGED user
  BY <1>1, NamesStay DEF Tenants!DeleteOrganization, Tenants!Begun
<1>3. \A s \in SchemaName : schema'[s] # NoSchema =>
        Tenants!There(s) /\ schema'[s].profile = schema[s].profile /\ schema'[s].members \subseteq schema[s].members
  BY <1>1, DeleteStep
<1> QED
  BY <1>2, <1>3 DEF Reached, HomeApart, Tenants!There

\* Every step keeps what signups have reached.
LEMMA ReachedNext == Reached /\ [Tenants!Next]_tenantVars => Reached'
<1> SUFFICES ASSUME Reached, [Tenants!Next]_tenantVars PROVE Reached'
  OBVIOUS
<1>1. IInv'
  BY InvNext DEF Reached
<1>2. CASE UNCHANGED tenantVars
  <2>1. /\ \A i : Tenants!SchemaOf(i)' = Tenants!SchemaOf(i) /\ Tenants!OrgId(i)' = Tenants!OrgId(i)
                  /\ Tenants!UserId(i)' = Tenants!UserId(i)
        /\ \A q : Tenants!Rivals(q) \subseteq Tenants!Rivals(q)' /\ Tenants!Namers(q) \subseteq Tenants!Namers(q)'
    BY NamesStay DEF Reached, IInv
  <2>2. UNCHANGED <<user, org, schema, pc, ask, path, removed>>
    BY <1>2 DEF tenantVars
  <2>3. HomeApart'
    BY <2>1, <2>2 DEF Reached, HomeApart, Tenants!Begun, Tenants!There
  <2>4. ASSUME NEW q \in Signup PROVE StageOf(q)'
    <3>1. UserStays(q)' /\ Cleaned(q)'
      BY <2>1, <2>2 DEF Reached, StageOf, UserStays, Cleaned, Tenants!There
    <3>2. AloneThere(q)' => Standing(q)'
      BY <2>1, <2>2 DEF Reached, StageOf, AloneThere, Standing, Tenants!There, Tenants!Has
    <3> QED
      BY <3>1, <3>2 DEF StageOf
  <2> QED
    BY <1>1, <2>3, <2>4 DEF Reached
<1>3. ASSUME NEW p \in Signup, Tenants!Step(p) PROVE Reached'
  <2>1. ASSUME NEW q \in Signup PROVE StageOf(q)'
    BY <1>3, ReachedByOwn, ReachedByOthers
  <2> QED
    BY <1>1, <1>3, <2>1, HomeStays DEF Reached
<1>4. ASSUME NEW o \in Tenants!Tenant, Tenants!DeleteOrganization(o) PROVE Reached'
  BY <1>1, <1>4, ReachedByDelete, HomeStaysByDelete DEF Reached
<1> QED
  BY <1>2, <1>3, <1>4 DEF Tenants!Next

TenantsInv == service = "tenants" => Reached

\* What signups and deletions have reached, statement by statement, stays reached in every behaviour.
THEOREM TenantsAlways == Spec => []TenantsInv
<1>1. Init => TenantsInv
  BY OneServiceAtFirst, ReachedInit DEF TenantsInv
<1>2. TenantsInv /\ [Next]_vars => TenantsInv'
  BY OneService, ReachedNext DEF TenantsInv
<1> QED
  BY <1>1, <1>2, PTL DEF Spec

\* However many signups, failed cleanups and deletions meet at one schema, the users in it belong
\* to one organization, bound to it, unless a signup for another schema has named theirs.
THEOREM OneTenantPerSchema == Spec => []SchemasServeOneTenant
<1>1. TenantsInv => SchemasServeOneTenant
  BY OneTenant DEF TenantsInv, SchemasServeOneTenant, Reached, IInv
<1> QED
  BY <1>1, TenantsAlways, PTL

\* A signup answered 201 has its user, organization, schema, tables and member, unless another
\* asked for its schema or named one of its ids or an administrator has deleted it.
THEOREM CreatedTenantsAreWhole == Spec => []CreatedTenantsStand
<1>1. TenantsInv => CreatedTenantsStand
  BY StandingIsWhole DEF TenantsInv, CreatedTenantsStand
<1> QED
  BY <1>1, TenantsAlways, PTL

\* A cleanup that came to its end leaves no organization of its own, nothing of the signup in the
\* schema, and the user only if the schema had its own table of users, unless another signup has
\* named an id of it.
THEOREM CleanupsAreComplete == Spec => []CleanupIsComplete
<1>1. TenantsInv => CleanupIsComplete
  BY CleanedIsComplete DEF TenantsInv, CleanupIsComplete
<1> QED
  BY <1>1, TenantsAlways, PTL
=============================================================================
