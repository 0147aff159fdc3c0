-------------------------------- MODULE Otp --------------------------------
(***************************************************************************)
(* One-time codes sent by email and the password reset they authorise      *)
(* (public/auth/otp_verification.py, utils.py, reset_password.py).         *)
(*                                                                         *)
(* A verification session is a row. Calls of several clients on the same   *)
(* session overlap: each reads the clock, then locks the row with SELECT   *)
(* ... FOR UPDATE and writes it before it commits. Only the consumption of *)
(* a verified session locks in autocommit, where the lock ends with the    *)
(* SELECT. Code number k is the k-th one generated for the session; rate   *)
(* limits by address are not modelled.                                     *)
(***************************************************************************)
EXTENDS Integers, FiniteSets

CONSTANTS
  Session, Client,
  Resets,       \* sessions whose purpose is reset_password
  MaxAttempts,  \* OTP_MAX_ATTEMPTS
  MaxSends,     \* OTP_MAX_SENDS
  Ttl,          \* OTP_TTL_SECONDS
  Cooldown,     \* OTP_RESEND_COOLDOWN
  ProofAge,     \* max_age_seconds of validate_proof
  MaxClock,     \* bound on the clock of a behaviour
  NoClient, NoSession

ASSUME LimitsAssumption ==
  /\ Resets \subseteq Session
  /\ MaxAttempts \in Nat \ {0} /\ MaxSends \in Nat \ {0}
  /\ Ttl \in Nat /\ Cooldown \in Nat /\ ProofAge \in Nat /\ MaxClock \in Nat
  /\ NoClient \notin Client /\ NoSession \notin Session

Status == {"none", "pending", "verified", "expired", "cancelled"}
Row    == [status : Status, code : Nat, attempts : Nat, sends : Nat, expires : Nat]
Proof  == [session : Session, code : Nat, at : Nat]
Call   == [session : Session \cup {NoSession}, code : Nat, now : Nat, seen : Row]

VARIABLES
  clock,
  row,       \* otp_verification_sessions
  lock,      \* which client's transaction has locked each row
  cooldown,  \* cache: when the resend key of each session lapses
  mail,      \* codes that reached the mailbox
  proofs,    \* signed proofs answered to verify calls
  redeemed,  \* how often a session's consumption was granted
  passwords, \* how often a session's owner had the password replaced
  pc, call   \* where each client's call is, and its local variables

vars == <<clock, row, lock, cooldown, mail, proofs, redeemed, passwords, pc, call>>

NoRow  == [status |-> "none", code |-> 0, attempts |-> 0, sends |-> 0, expires |-> 0]
NoCall == [session |-> NoSession, code |-> 0, now |-> 0, seen |-> NoRow]

Init ==
  /\ clock = 0
  /\ row = [s \in Session |-> NoRow]
  /\ lock = [s \in Session |-> NoClient]
  /\ cooldown = [s \in Session |-> 0]
  /\ mail = [s \in Session |-> {}]
  /\ proofs = {}
  /\ redeemed = [s \in Session |-> 0]
  /\ passwords = [s \in Session |-> 0]
  /\ pc = [c \in Client |-> "idle"]
  /\ call = [c \in Client |-> NoCall]

Goto(c, l) == pc' = [pc EXCEPT ![c] = l]

Enter(c, l, s, code) ==
  /\ pc[c] = "idle"
  /\ Goto(c, l)
  /\ call' = [call EXCEPT ![c] = [NoCall EXCEPT !.session = s, !.code = code, !.now = clock]]

Answer(c) == Goto(c, "idle") /\ call' = [call EXCEPT ![c] = NoCall]

\* SELECT ... FOR UPDATE: the transaction keeps the lock.
LockAndRead(c, l) ==
  LET s == call[c].session IN
  /\ lock[s] = NoClient
  /\ lock' = [lock EXCEPT ![s] = c]
  /\ call' = [call EXCEPT ![c].seen = row[s]]
  /\ Goto(c, l)

Release(c) == lock' = [s \in Session |-> IF lock[s] = c THEN NoClient ELSE lock[s]]

-----------------------------------------------------------------------------
\* Faulty: the lifetime is subtracted.
StartInThePast(c) ==
  /\ \E s \in Session :
       /\ row[s].status = "none"
       /\ row' = [row EXCEPT ![s] = [status |-> "pending", code |-> 1, attempts |-> 0,
                                     sends |-> 1, expires |-> clock - Ttl]]
       /\ Enter(c, "cool", s, 1)
  /\ UNCHANGED <<clock, lock, cooldown, mail, proofs, redeemed, passwords>>

\* start_otp: a new session with its first code, the cooldown key, the email.
Start(c) ==
  /\ \E s \in Session :
       /\ row[s].status = "none"
       /\ row' = [row EXCEPT ![s] = [status |-> "pending", code |-> 1, attempts |-> 0,
                                     sends |-> 1, expires |-> clock + Ttl]]
       /\ Enter(c, "cool", s, 1)
  /\ UNCHANGED <<clock, lock, cooldown, mail, proofs, redeemed, passwords>>

\* The cache is written after the commit of start_otp and of resend_otp ...
Cool(c) ==
  /\ pc[c] = "cool"
  /\ cooldown' = [cooldown EXCEPT ![call[c].session] = clock + Cooldown]
  /\ Goto(c, "mail")
  /\ UNCHANGED <<clock, row, lock, mail, proofs, redeemed, passwords, call>>

\* ... and then the code is emailed; a failure is not reported.
Mail(c) ==
  /\ pc[c] = "mail"
  /\ \/ mail' = [mail EXCEPT ![call[c].session] = @ \cup {call[c].code}]
     \/ UNCHANGED mail
  /\ Answer(c)
  /\ UNCHANGED <<clock, row, lock, cooldown, proofs, redeemed, passwords>>

\* verify_otp, with a code received by email or a wrong one (0).
Verify(c) ==
  /\ \E s \in Session : \E k \in mail[s] \cup {0} : Enter(c, "verify", s, k)
  /\ UNCHANGED <<clock, row, lock, cooldown, mail, proofs, redeemed, passwords>>

\* Faulty: SELECT without FOR UPDATE.
ReadForVerifyUnlocked(c) ==
  /\ pc[c] = "verify"
  /\ lock[call[c].session] = NoClient
  /\ call' = [call EXCEPT ![c].seen = row[call[c].session]]
  /\ Goto(c, "judge")
  /\ UNCHANGED <<clock, row, lock, cooldown, mail, proofs, redeemed, passwords>>

ReadForVerify(c) ==
  /\ pc[c] = "verify"
  /\ LockAndRead(c, "judge")
  /\ UNCHANGED <<clock, row, cooldown, mail, proofs, redeemed, passwords>>

\* Faulty: only the code is looked at.
JudgeCodeOnly(c) ==
  LET s  == call[c].session
      ok == call[c].seen.status # "none" /\ call[c].seen.code = call[c].code
  IN /\ pc[c] = "judge"
     /\ row' = IF ok THEN [row EXCEPT ![s].status = "verified", ![s].attempts = @ + 1] ELSE row
     /\ IF ok THEN Goto(c, "sign") /\ UNCHANGED call ELSE Answer(c)
     /\ Release(c)
     /\ UNCHANGED <<clock, cooldown, mail, proofs, redeemed, passwords>>

\* The rest of the transaction: the first test that fails decides.
Judge(c) ==
  LET s     == call[c].session
      seen  == call[c].seen
      late  == call[c].now > seen.expires
      tired == seen.attempts >= MaxAttempts
      ok    == seen.status = "pending" /\ ~late /\ ~tired /\ call[c].code = seen.code
  IN /\ pc[c] = "judge"
     /\ row' = CASE seen.status # "pending" -> row
                 [] seen.status = "pending" /\ late -> [row EXCEPT ![s].status = "expired"]
                 [] seen.status = "pending" /\ ~late /\ tired -> [row EXCEPT ![s].status = "cancelled"]
                 [] ok -> [row EXCEPT ![s].attempts = @ + 1, ![s].status = "verified"]
                 [] OTHER -> [row EXCEPT ![s].attempts = @ + 1]
     /\ IF ok THEN Goto(c, "sign") /\ UNCHANGED call ELSE Answer(c)
     /\ Release(c)
     /\ UNCHANGED <<clock, cooldown, mail, proofs, redeemed, passwords>>

\* After the commit, the proof is signed and answered.
Sign(c) ==
  /\ pc[c] = "sign"
  /\ proofs' = proofs \cup {[session |-> call[c].session, code |-> call[c].code, at |-> clock]}
  /\ Answer(c)
  /\ UNCHANGED <<clock, row, lock, cooldown, mail, redeemed, passwords>>

\* resend_otp: refused while the cooldown key is in the cache.
Resend(c) ==
  /\ \E s \in Session : cooldown[s] <= clock /\ Enter(c, "resend", s, 0)
  /\ UNCHANGED <<clock, row, lock, cooldown, mail, proofs, redeemed, passwords>>

ReadForResend(c) ==
  /\ pc[c] = "resend"
  /\ LockAndRead(c, "renew")
  /\ UNCHANGED <<clock, row, cooldown, mail, proofs, redeemed, passwords>>

\* A new code replaces the old one; the expiry and the attempts stay.
Renew(c) ==
  LET s        == call[c].session
      seen     == call[c].seen
      eligible == seen.status = "pending" /\ call[c].now <= seen.expires /\ seen.sends < MaxSends
      k        == row[s].sends + 1
  IN /\ pc[c] = "renew"
     /\ row' = IF eligible THEN [row EXCEPT ![s].code = k, ![s].sends = k] ELSE row
     /\ IF eligible
          THEN Goto(c, "cool") /\ call' = [call EXCEPT ![c].code = k]
          ELSE Answer(c)
     /\ Release(c)
     /\ UNCHANGED <<clock, cooldown, mail, proofs, redeemed, passwords>>

\* cancel_otp: one UPDATE ... WHERE status = PENDING, which waits for the lock.
Cancel(c, s) ==
  /\ pc[c] = "idle"
  /\ row[s].status = "pending" /\ lock[s] = NoClient
  /\ row' = [row EXCEPT ![s].status = "cancelled"]
  /\ UNCHANGED <<clock, lock, cooldown, mail, proofs, redeemed, passwords, pc, call>>

-----------------------------------------------------------------------------
\* set_password_with_proof: a proof of a reset, not too old, ...
Redeem(c) ==
  /\ \E p \in proofs :
       /\ p.session \in Resets /\ clock <= p.at + ProofAge
       /\ Enter(c, "redeem", p.session, p.code)
  /\ UNCHANGED <<clock, row, lock, cooldown, mail, proofs, redeemed, passwords>>

\* ... whose session is verified and has not expired. The SELECT waits for the row
\* lock and, in autocommit, gives it up at once.
EnsureVerified(c) ==
  LET s == call[c].session IN
  /\ pc[c] = "redeem" /\ lock[s] = NoClient
  /\ IF row[s].status = "verified" /\ call[c].now <= row[s].expires
       THEN Goto(c, "consume") /\ UNCHANGED call
       ELSE Answer(c)
  /\ UNCHANGED <<clock, row, lock, cooldown, mail, proofs, redeemed, passwords>>

\* Faulty: the session is not marked as used.
GrantOnly(c) ==
  LET s == call[c].session IN
  /\ pc[c] = "consume" /\ lock[s] = NoClient
  /\ redeemed' = [redeemed EXCEPT ![s] = @ + 1]
  /\ Goto(c, "password")
  /\ UNCHANGED <<clock, row, lock, cooldown, mail, proofs, passwords, call>>

\* The UPDATE that uses the session up names only its id.
Consume(c) ==
  LET s == call[c].session IN
  /\ pc[c] = "consume" /\ lock[s] = NoClient
  /\ row' = [row EXCEPT ![s].status = "cancelled"]
  /\ redeemed' = [redeemed EXCEPT ![s] = @ + 1]
  /\ Goto(c, "password")
  /\ UNCHANGED <<clock, lock, cooldown, mail, proofs, passwords, call>>

\* The password is replaced, if the email has a user.
SetPassword(c) ==
  /\ pc[c] = "password"
  /\ \/ passwords' = [passwords EXCEPT ![call[c].session] = @ + 1]
     \/ UNCHANGED passwords
  /\ Answer(c)
  /\ UNCHANGED <<clock, row, lock, cooldown, mail, proofs, redeemed>>

-----------------------------------------------------------------------------
\* The worker of a call dies: its transaction is rolled back, nothing else is.
Crash(c) ==
  /\ pc[c] # "idle"
  /\ Answer(c)
  /\ Release(c)
  /\ UNCHANGED <<clock, row, cooldown, mail, proofs, redeemed, passwords>>

Tick ==
  /\ clock < MaxClock
  /\ clock' = clock + 1
  /\ UNCHANGED <<row, lock, cooldown, mail, proofs, redeemed, passwords, pc, call>>

Step(c) ==
  \/ Start(c) \/ Cool(c) \/ Mail(c)
  \/ Verify(c) \/ ReadForVerify(c) \/ Judge(c) \/ Sign(c)
  \/ Resend(c) \/ ReadForResend(c) \/ Renew(c)
  \/ Redeem(c) \/ EnsureVerified(c) \/ Consume(c) \/ SetPassword(c)
  \/ Crash(c)

Next ==
  \/ \E c \in Client : Step(c) \/ \E s \in Session : Cancel(c, s)
  \/ Tick

Spec == Init /\ [][Next]_vars

-----------------------------------------------------------------------------
TypeOK ==
  /\ clock \in Nat
  /\ row \in [Session -> Row]
  /\ lock \in [Session -> Client \cup {NoClient}]
  /\ cooldown \in [Session -> Nat]
  /\ mail \in [Session -> SUBSET Nat]
  /\ proofs \subseteq Proof
  /\ redeemed \in [Session -> Nat]
  /\ passwords \in [Session -> Nat]
  /\ pc \in [Client -> {"idle", "cool", "mail", "verify", "judge", "sign", "resend", "renew",
                        "redeem", "consume", "password"}]
  /\ call \in [Client -> Call]

\* However verifications and resends of a session overlap, no more codes are
\* tried and no more are sent than the settings allow.
LimitsHold ==
  \A s \in Session : row[s].attempts <= MaxAttempts /\ row[s].sends <= MaxSends

\* A proof, and the verified session behind it, stand for the last code that was
\* generated: no resend slips in between the comparison and the verified mark.
ProofsStandForLastCode ==
  \A p \in proofs : p.code = row[p.session].code /\ row[p.session].status \in {"verified", "cancelled"}

\* A session that has authorised a password is used up for whoever asks from then
\* on, and it had been verified: every change of password goes back to a proof of
\* that session. Calls that overlap its first use may still use it: see OneTimeUse.
ResetUsesSessionUp ==
  \A s \in Session :
    /\ passwords[s] <= redeemed[s]
    /\ redeemed[s] > 0 => row[s].status = "cancelled" /\ \E p \in proofs : p.session = s

\* What ensure_verified_and_consume says of itself, "consume it once" (utils.py:22)
\* and "one-time use" (:36): a session authorises one change of the password. Its
\* SELECT ... FOR UPDATE runs in autocommit, so two calls with the same proof may
\* both read "verified" before either of them marks the session as used.
OneTimeUse == \A s \in Session : passwords[s] <= 1

\* The overlapping calls add up to what OtpSession promises: each takes effect at
\* one moment, on the session as it then is, and nothing reopens a closed session.
Promise == INSTANCE OtpSession WITH
  session <- [s \in Session |-> [status |-> row[s].status, code |-> row[s].code,
                                 attempts |-> row[s].attempts, sends |-> row[s].sends]]
KeepsPromise == Promise!Spec
=============================================================================
