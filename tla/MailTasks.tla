----------------------------- MODULE MailTasks -----------------------------
(***************************************************************************)
(* The tasks of api/emailsend/tasks.py: one sends the campaigns that are   *)
(* due, the other reminds the users whose address is not verified, a page  *)
(* at a time, while users sign up and verify.  A task may be started again *)
(* whenever it has ended.                                                  *)
(***************************************************************************)
EXTENDS Integers, FiniteSets

CONSTANTS
  Campaign, Ready,     \* campaigns of type email; those with template, members and user
  MaxUsers, BATCH_SIZE

TasksAssumption ==
  /\ Ready \subseteq Campaign
  /\ MaxUsers \in Nat /\ BATCH_SIZE \in Nat \ {0}

VARIABLES
  status, due,         \* of each campaign; whether its send_time has passed
  batch,               \* the campaigns that the running task has still to process
  unverified,          \* users the sweep's query finds
  sweep                \* its OFFSET; -1 when it does not run

vars == <<status, due, batch, unverified, sweep>>

NoTask == {"no task"}

TypeOK ==
  /\ status \in [Campaign -> {"draft", "completed"}] /\ due \subseteq Campaign
  /\ batch = NoTask \/ batch \subseteq Campaign
  /\ unverified \in 0..MaxUsers /\ sweep \in -1..(MaxUsers + BATCH_SIZE)

Init ==
  /\ status = [c \in Campaign |-> "draft"] /\ due = {} /\ batch = NoTask
  /\ unverified = MaxUsers /\ sweep = -1

----------------------------------------------------------------------------
\* process_due_email_campaigns

BecomeDue(c) ==
  /\ c \notin due /\ due' = due \cup {c}
  /\ UNCHANGED <<status, batch, unverified, sweep>>

StartCampaigns ==
  /\ batch = NoTask
  /\ batch' = {c \in due : status[c] = "draft"}
  /\ UNCHANGED <<status, due, unverified, sweep>>

\* Without template, members or user a campaign is passed over.
SkipCampaign(c) ==
  /\ batch # NoTask /\ c \in batch \ Ready
  /\ batch' = batch \ {c}
  /\ UNCHANGED <<status, due, unverified, sweep>>

\* send_test_email takes two positional arguments and is given three: the task ends.
SendCampaign(c) ==
  /\ batch # NoTask /\ c \in batch \cap Ready
  /\ batch' = NoTask
  /\ UNCHANGED <<status, due, unverified, sweep>>

EndCampaigns ==
  /\ batch = {} /\ batch' = NoTask
  /\ UNCHANGED <<status, due, unverified, sweep>>

----------------------------------------------------------------------------
\* send_notify_email_verification

StartSweep ==
  /\ sweep = -1 /\ sweep' = 0
  /\ UNCHANGED <<status, due, batch, unverified>>

\* Mutant: the next page begins where the last did, as if reminded users dropped out.
SamePage == sweep

NextPage == sweep + BATCH_SIZE

\* The users the query returns at this offset are reminded; a page that is empty is the last.
RemindPage ==
  /\ sweep # -1
  /\ sweep' = IF sweep < unverified THEN NextPage ELSE -1
  /\ UNCHANGED <<status, due, batch, unverified>>

UsersChange(n) ==
  /\ n \in 0..MaxUsers /\ n \in {unverified - 1, unverified + 1}
  /\ unverified' = n
  /\ UNCHANGED <<status, due, batch, sweep>>

----------------------------------------------------------------------------
Next ==
  \/ \E c \in Campaign : BecomeDue(c) \/ SkipCampaign(c) \/ SendCampaign(c)
  \/ StartCampaigns \/ EndCampaigns
  \/ StartSweep \/ RemindPage
  \/ \E n \in 0..MaxUsers : UsersChange(n)

\* A worker goes on with a sweep that it has begun.
Spec == Init /\ [][Next]_vars /\ WF_vars(RemindPage)

----------------------------------------------------------------------------
\* Properties

\* The sweep comes to an end, though users sign up and verify while it pages through them:
\* each page moves on, also past users that are as unverified as before.
SweepEnds == sweep # -1 ~> sweep = -1
=============================================================================
