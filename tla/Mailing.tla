------------------------------ MODULE Mailing ------------------------------
(***************************************************************************)
(* Mail to the people behind a set of records (api/emailsend): what        *)
(* send_test_email sends, records and counts; the credentials it sends     *)
(* with; and the templates it keeps at SendGrid.  A request to a mail      *)
(* service may fail, and may fail after the mail has gone.                 *)
(***************************************************************************)
EXTENDS Integers, Sequences, FiniteSets

CONSTANTS
  Call,          \* calls of send_test_email, by one user
  Record, Unaddressed,  \* records; those without a mail address
  Content, None, \* a subject and a body
  Hash,          \* of each content: that of subject and body joined, which others may share
  Template,      \* rows of email_templates, in the order of their ids
  Sid,           \* SendGrid's names for templates
  MaxCreds

MailingAssumption ==
  /\ IsFiniteSet(Record)
  /\ Unaddressed \subseteq Record /\ None \notin Content \cup Sid
  /\ DOMAIN Hash = Content /\ \A c \in Content : Hash[c] # None
  /\ Template \in Seq(STRING)
  /\ MaxCreds \in Nat

VARIABLES
  call,          \* what each call is about
  good, revoked, \* rows of email_provider_setup with the user's credentials
  stamp,         \* of each row of email_templates: the hash, the SendGrid id
  hosted         \* of each SendGrid id made: the content of its version

vars == <<call, good, revoked, stamp, hosted>>

Rows == DOMAIN Template

Hashes == {Hash[c] : c \in Content}

\* get_email_provider_from_mx: "bulk" is SendGrid, for "webmail"; "other" is Yahoo, iCloud, Zoho, AOL
\* or the text of an error.
Provider == {"gmail", "outlook", "bulk", "other"}

\* mailed is what the mail service took; of the responses some are on record, of others the record
\* was refused.
Asked == [step : {"idle", "send", "lookup", "create", "version", "save", "post", "record"},
          how : Provider, content : Content \cup {None}, asked : SUBSET Record,
          mailed : SUBSET Record, responses : SUBSET Record,
          recorded : SUBSET Record, refused : SUBSET Record,
          sid : Sid \cup {None}, number : -1..Cardinality(Record)]

TypeOK ==
  /\ call \in [Call -> Asked]
  /\ good \in Nat /\ revoked \in Nat /\ good + revoked <= MaxCreds
  /\ stamp \in [Rows -> [hash : Hashes \cup {None}, sid : Sid \cup {None}]]
  /\ DOMAIN hosted \subseteq Sid /\ \A s \in DOMAIN hosted : hosted[s] \in Content \cup {None}

Idle == [step |-> "idle", how |-> "bulk", content |-> None, asked |-> {},
         mailed |-> {}, responses |-> {}, recorded |-> {}, refused |-> {}, sid |-> None, number |-> -1]

Init ==
  /\ call = [c \in Call |-> Idle] /\ good = 0 /\ revoked = 0
  /\ stamp = [t \in Rows |-> [hash |-> None, sid |-> None]] /\ hosted = <<>>

----------------------------------------------------------------------------
\* send_test_email

at(c, step) == call[c].step = step

\* A call that ends without a campaign, by an answer or an exception, is forgotten, though the
\* mails it sent stay sent and the records it posted stay.
End(c) == call' = [call EXCEPT ![c] = Idle]

kept == <<good, revoked, stamp, hosted>>

FirstStep(how) == CASE how \in {"gmail", "outlook"} -> "send"
                    [] how = "bulk" -> "lookup"
                    [] how = "other" -> "record"

\* The provider is looked up from the sender's domain; an unauthenticated domain is refused.  For
\* a provider that it does not know the call mails nothing and goes on.  What is mailed matters
\* to SendGrid's templates only.
Ask(c, how, content, S) ==
  /\ at(c, "idle") /\ S # {} /\ (content = None <=> how # "bulk")
  /\ call' = [call EXCEPT ![c] = [Idle EXCEPT !.step = FirstStep(how), !.how = how,
                                  !.content = content, !.asked = S]]
  /\ UNCHANGED kept

\* A record without an address raises.
Refuse(c) ==
  /\ at(c, "send") /\ (call[c].asked \ call[c].mailed) \cap Unaddressed # {}
  /\ End(c) /\ UNCHANGED kept

\* Mutant: the user is sent to sign in, and the rest of the call goes on.
SkipToRecord(c) == call' = [call EXCEPT ![c].step = "record"]

\* Without credentials the answer is the address to sign in at.
AskToSignIn(c) == End(c)

SignIn(c) ==
  /\ at(c, "send") /\ good + revoked = 0
  /\ AskToSignIn(c) /\ UNCHANGED kept

\* One mail to one record's address, with whichever row of credentials is found first.
SendOne(c, r) ==
  /\ at(c, "send") /\ r \in call[c].asked \ (call[c].mailed \cup Unaddressed)
  /\ good > 0
  /\ LET rest == call[c].asked \ (call[c].mailed \cup {r}) IN
       call' = [call EXCEPT ![c].mailed = @ \cup {r}, ![c].responses = @ \cup {r},
                            ![c].step = IF rest = {} THEN "record" ELSE "send"]
  /\ UNCHANGED kept

\* The request fails, or its answer is lost after the mail has gone; with a revoked row it always
\* fails.
FailOne(c) ==
  /\ at(c, "send") /\ call[c].asked \ (call[c].mailed \cup Unaddressed) # {}
  /\ good + revoked > 0
  /\ End(c) /\ UNCHANGED kept

\* Mutant: any row that has an id.
AnyStamped(content) == {t \in Rows : stamp[t].hash # None}

Stamped(content) == {t \in Rows : stamp[t].hash = Hash[content]}

\* create_sendgrid_dynamic_template: an id of the same hash is used again.
Lookup(c) ==
  /\ at(c, "lookup")
  /\ IF Stamped(call[c].content) # {}
     THEN \E t \in Stamped(call[c].content) :
            call' = [call EXCEPT ![c].step = "post", ![c].sid = stamp[t].sid]
     ELSE call' = [call EXCEPT ![c].step = "create"]
  /\ UNCHANGED kept

CreateTemplate(c, s) ==
  /\ at(c, "create") /\ s \notin DOMAIN hosted
  /\ hosted' = [z \in DOMAIN hosted \cup {s} |-> IF z = s THEN None ELSE hosted[z]]
  /\ call' = [call EXCEPT ![c].step = "version", ![c].sid = s]
  /\ UNCHANGED <<good, revoked, stamp>>

CreateVersion(c) ==
  /\ at(c, "version")
  /\ hosted' = [hosted EXCEPT ![call[c].sid] = call[c].content]
  /\ call' = [call EXCEPT ![c].step = "save"]
  /\ UNCHANGED <<good, revoked, stamp>>

\* Rows that have no hash, or this content's.
Free(content) == {t \in Rows : stamp[t].hash \in {None, Hash[content]}}

\* The first of them is stamped, if there is one; what else it says does not matter.
SaveId(c) ==
  /\ at(c, "save")
  /\ LET S == Free(call[c].content) IN
       stamp' = [t \in Rows |-> IF t \in S /\ \A u \in S : t <= u
                                THEN [hash |-> Hash[call[c].content], sid |-> call[c].sid] ELSE stamp[t]]
  /\ call' = [call EXCEPT ![c].step = "post"]
  /\ UNCHANGED <<good, revoked, hosted>>

\* All mails in one request.
PostBulk(c) ==
  /\ at(c, "post") /\ call[c].asked \cap Unaddressed = {}
  /\ call' = [call EXCEPT ![c].mailed = @ \cup call[c].asked, ![c].responses = call[c].asked,
                          ![c].step = "record"]
  /\ UNCHANGED kept

FailBulk(c) ==
  /\ call[c].step \in {"create", "version", "post"}
  /\ End(c) /\ UNCHANGED kept

Unposted(c) == call[c].responses \ (call[c].recorded \cup call[c].refused)

\* One record of 'email' for each mail; that the answer is an error is not looked at.
RecordOne(c, r) ==
  /\ at(c, "record") /\ r \in Unposted(c)
  /\ \/ call' = [call EXCEPT ![c].recorded = @ \cup {r}]
     \/ call' = [call EXCEPT ![c].refused = @ \cup {r}]
  /\ UNCHANGED kept

\* An exception ends the call.
FailRecord(c) ==
  /\ at(c, "record") /\ Unposted(c) # {}
  /\ End(c) /\ UNCHANGED kept

\* The campaign is stored, if it has a name; an error is swallowed.  After mails by Outlook 'data'
\* is no longer the request's but the text Outlook's helper answered, and asking it for the name
\* raises.
StoreCampaign(c) ==
  /\ at(c, "record") /\ Unposted(c) = {}
  /\ \/ /\ call[c].how # "outlook"
        /\ call' = [call EXCEPT ![c].step = "idle", ![c].number = Cardinality(call[c].responses)]
     \/ End(c)
  /\ UNCHANGED kept

----------------------------------------------------------------------------
\* Credentials

\* save_token: every consent is a row more.
SaveToken ==
  /\ good + revoked < MaxCreds /\ good' = good + 1
  /\ UNCHANGED <<call, revoked, stamp, hosted>>

\* The mail service takes a consent back.
Revoke ==
  /\ good > 0 /\ good' = good - 1 /\ revoked' = revoked + 1
  /\ UNCHANGED <<call, stamp, hosted>>

Next ==
  \/ \E c \in Call :
       \/ \E how \in Provider, content \in Content \cup {None}, S \in SUBSET Record : Ask(c, how, content, S)
       \/ Refuse(c) \/ SignIn(c)
       \/ \E r \in Record : SendOne(c, r) \/ RecordOne(c, r)
       \/ FailOne(c) \/ Lookup(c) \/ CreateVersion(c) \/ SaveId(c) \/ PostBulk(c) \/ FailBulk(c)
       \/ \E s \in Sid : CreateTemplate(c, s)
       \/ FailRecord(c) \/ StoreCampaign(c)
  \/ SaveToken \/ Revoke

----------------------------------------------------------------------------
\* Properties

\* A stored campaign's number_sent is the number of mails that went in that call, and these went
\* to all records that were asked for, or, where the provider is none of those known, to none; of
\* each the record was posted, though perhaps refused: a call that was cut short by an exception
\* or by a request to sign in stores no campaign, nor does one by Outlook.
CampaignIsAccounted ==
  \A c \in Call : call[c].number # -1 =>
    /\ call[c].number = Cardinality(call[c].mailed)
    /\ call[c].mailed = IF call[c].how = "other" THEN {} ELSE call[c].asked
    /\ call[c].recorded \cup call[c].refused = call[c].mailed /\ call[c].how # "outlook"

\* A SendGrid id that is found by a hash is that of a template whose version has a content with
\* this hash, however the requests of several calls interleave and fail; so a call mails its own
\* content, or another that is the same with subject and body joined.
StampedIsHosted ==
  /\ \A t \in Rows : stamp[t].hash # None =>
       hosted[stamp[t].sid] \in Content /\ Hash[hosted[stamp[t].sid]] = stamp[t].hash
  /\ \A c \in Call :
       /\ call[c].step = "save" => hosted[call[c].sid] = call[c].content
       /\ call[c].step = "post" =>
            hosted[call[c].sid] \in Content /\ Hash[hosted[call[c].sid]] = Hash[call[c].content]
=============================================================================
