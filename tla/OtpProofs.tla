----------------------------- MODULE OtpProofs -----------------------------
(* Theorems about Otp, for any sessions, clients, limits and lifetimes.    *)
EXTENDS Otp, FiniteSetTheorems, TLAPS

\* A transaction that has read a row still holds its lock, and what it read is
\* still there; a row it did not find may have been inserted meanwhile.
HoldsWhatItRead(c) ==
  LET s == call[c].session IN
  /\ pc[c] # "idle" => s \in Session
  /\ pc[c] \in {"judge", "renew"} =>
       lock[s] = c /\ (call[c].seen = row[s] \/ call[c].seen.status = "none")
  /\ pc[c] = "sign" => call[c].code = row[s].code /\ row[s].status \in {"verified", "cancelled"}
  /\ pc[c] = "consume" => row[s].status \in {"verified", "cancelled"}

IInv == TypeOK /\ LimitsHold /\ ProofsStandForLastCode /\ \A c \in Client : HoldsWhatItRead(c)

\* What a step makes of a row: one of the operations of OtpSession.
Tried(v, w)   == v.status = "pending" /\ v.attempts < MaxAttempts /\
                 \E st \in {"pending", "verified"} : w = [v EXCEPT !.attempts = @ + 1, !.status = st]
Renewed(v, w) == v.status = "pending" /\ v.sends < MaxSends /\
                 w = [v EXCEPT !.code = v.sends + 1, !.sends = v.sends + 1]
Closed(v, w)  == v.status = "pending" /\ \E st \in {"expired", "cancelled"} : w = [v EXCEPT !.status = st]
Used(v, w)    == v.status \in {"verified", "cancelled"} /\ w = [v EXCEPT !.status = "cancelled"]
Started(v, w) == v.status = "none" /\ w = [status |-> "pending", code |-> 1, attempts |-> 0,
                                           sends |-> 1, expires |-> clock + Ttl]

Writes(c, s, w) ==
  /\ row' = [row EXCEPT ![s] = w]
  /\ \/ Started(row[s], w)
     \/ lock[s] \in {c, NoClient} /\ (Tried(row[s], w) \/ Renewed(row[s], w) \/ Closed(row[s], w))
     \/ lock[s] = NoClient /\ Used(row[s], w)

\* The rows after the operation are rows, within the limits.
LEMMA WrittenRow ==
  ASSUME TypeOK, LimitsHold, NEW c, NEW s \in Session, NEW w, Writes(c, s, w)
  PROVE  w \in Row /\ w.attempts <= MaxAttempts /\ w.sends <= MaxSends
<1> DEFINE v == row[s]
<1>1. v \in Row /\ v.attempts <= MaxAttempts /\ v.sends <= MaxSends /\ clock + Ttl \in Nat
  BY LimitsAssumption DEF TypeOK, LimitsHold
<1>2. CASE Started(v, w)
  BY <1>1, <1>2, LimitsAssumption DEF Started, Row, Status
<1>3. CASE Tried(v, w)
  <2>1. v.attempts \in Nat /\ v.attempts + 1 \in Nat /\ v.attempts + 1 <= MaxAttempts
    BY <1>1, <1>3, LimitsAssumption DEF Tried, Row
  <2> DEFINE n == v.attempts + 1
  <2>2. PICK st \in {"pending", "verified"} : w = [v EXCEPT !.attempts = n, !.status = st]
    BY <1>3 DEF Tried
  <2> HIDE DEF n
  <2> QED
    BY <1>1, <2>1, <2>2 DEF Row, Status, n
<1>4. CASE Renewed(v, w)
  <2> DEFINE n == v.sends + 1
  <2>1. n \in Nat /\ n <= MaxSends
    BY <1>1, <1>4, LimitsAssumption DEF Renewed, Row
  <2>2. w = [v EXCEPT !.code = n, !.sends = n]
    BY <1>4 DEF Renewed
  <2> HIDE DEF n
  <2> QED
    BY <1>1, <2>1, <2>2 DEF Row, Status
<1>5. CASE Closed(v, w)
  BY <1>1, <1>5, LimitsAssumption DEF Closed, Row, Status
<1>6. CASE Used(v, w)
  BY <1>1, <1>6, LimitsAssumption DEF Used, Row, Status
<1> QED
  BY <1>2, <1>3, <1>4, <1>5, <1>6 DEF Writes

\* The decision of verify_otp leaves the row alone or writes it as allowed.
LEMMA JudgeWrites ==
  ASSUME IInv, NEW c \in Client, Judge(c)
  PROVE  LET s == call[c].session IN row' = row \/ \E w : Writes(c, s, w)
<1> DEFINE s    == call[c].session
           seen == call[c].seen
<1>1. s \in Session /\ row[s] \in Row /\ lock[s] = c
  BY DEF IInv, TypeOK, HoldsWhatItRead, Judge
<1>2. CASE seen.status # "pending"
  BY <1>2 DEF Judge
<1>3. CASE seen.status = "pending"
  <2>1. seen = row[s]
    BY <1>3 DEF IInv, HoldsWhatItRead, Judge
  <2> DEFINE late  == call[c].now > seen.expires
             tired == seen.attempts >= MaxAttempts
  <2>2. CASE late
    <3>1. row' = [row EXCEPT ![s].status = "expired"]
      BY <1>3, <2>2 DEF Judge
    <3>2. row' = [row EXCEPT ![s] = [row[s] EXCEPT !.status = "expired"]]
      BY <1>1, <3>1 DEF IInv, TypeOK
    <3> QED
      BY <1>1, <1>3, <2>1, <3>2 DEF Writes, Closed
  <2>3. CASE ~late /\ tired
    <3>1. row' = [row EXCEPT ![s].status = "cancelled"]
      BY <1>3, <2>3 DEF Judge
    <3>2. row' = [row EXCEPT ![s] = [row[s] EXCEPT !.status = "cancelled"]]
      BY <1>1, <3>1 DEF IInv, TypeOK
    <3> QED
      BY <1>1, <1>3, <2>1, <3>2 DEF Writes, Closed
  <2>4. CASE ~late /\ ~tired
    <3>1. row[s].attempts < MaxAttempts
      BY <1>1, <2>1, <2>4, LimitsAssumption DEF Row
    <3>2. \/ row' = [row EXCEPT ![s].attempts = @ + 1, ![s].status = "verified"]
          \/ row' = [row EXCEPT ![s].attempts = @ + 1]
      BY <1>3, <2>4 DEF Judge
    <3>3. \/ row' = [row EXCEPT ![s] = [row[s] EXCEPT !.attempts = @ + 1, !.status = "verified"]]
          \/ row' = [row EXCEPT ![s] = [row[s] EXCEPT !.attempts = @ + 1]]
      BY <1>1, <3>2 DEF IInv, TypeOK
    <3>4. row[s].status = "pending" => [row[s] EXCEPT !.attempts = @ + 1]
                                     = [row[s] EXCEPT !.attempts = @ + 1, !.status = "pending"]
      BY <1>1 DEF Row
    <3> QED
      BY <1>1, <1>3, <2>1, <3>1, <3>3, <3>4 DEF Writes, Tried
  <2> QED
    BY <2>2, <2>3, <2>4
<1> QED
  BY <1>2, <1>3

\* The decision of resend_otp leaves the row alone or writes it as allowed.
LEMMA RenewWrites ==
  ASSUME IInv, NEW c \in Client, Renew(c)
  PROVE  LET s == call[c].session IN row' = row \/ \E w : Writes(c, s, w)
<1> DEFINE s    == call[c].session
           seen == call[c].seen
           k    == row[s].sends + 1
           ok   == seen.status = "pending" /\ call[c].now <= seen.expires /\ seen.sends < MaxSends
<1>1. s \in Session /\ row[s] \in Row /\ lock[s] = c
  BY DEF IInv, TypeOK, HoldsWhatItRead, Renew
<1>2. CASE ~ok
  BY <1>2 DEF Renew
<1>3. CASE ok
  <2>1. seen = row[s]
    BY <1>3 DEF IInv, HoldsWhatItRead, Renew
  <2>2. row' = [row EXCEPT ![s].code = k, ![s].sends = k]
    BY <1>3 DEF Renew
  <2> HIDE DEF k
  <2>3. row' = [row EXCEPT ![s] = [row[s] EXCEPT !.code = k, !.sends = k]]
    BY <1>1, <2>2 DEF IInv, TypeOK
  <2> QED
    BY <1>1, <1>3, <2>1, <2>3 DEF Writes, Renewed, k
<1> QED
  BY <1>2, <1>3

\* Every step of a client leaves the rows alone or does one operation to one row.
LEMMA RowStep ==
  ASSUME IInv, NEW c \in Client, Step(c) \/ \E s \in Session : Cancel(c, s)
  PROVE  row' = row \/ \E s \in Session : \E w : Writes(c, s, w)
<1>1. CASE Start(c)
  BY <1>1 DEF Start, Writes, Started
<1>2. CASE Judge(c)
  BY <1>2, JudgeWrites DEF IInv, HoldsWhatItRead, Judge
<1>3. CASE Renew(c)
  BY <1>3, RenewWrites DEF IInv, HoldsWhatItRead, Renew
<1>4. CASE Consume(c)
  <2> DEFINE s == call[c].session
  <2>1. s \in Session /\ lock[s] = NoClient /\ row[s].status \in {"verified", "cancelled"}
    BY <1>4 DEF IInv, HoldsWhatItRead, Consume
  <2>2. row' = [row EXCEPT ![s] = [row[s] EXCEPT !.status = "cancelled"]]
    BY <1>4, <2>1 DEF Consume, IInv, TypeOK
  <2> QED
    BY <2>1, <2>2 DEF Writes, Used
<1>5. ASSUME NEW s \in Session, Cancel(c, s)
      PROVE  row' = row \/ \E w : Writes(c, s, w)
  <2>1. row' = [row EXCEPT ![s] = [row[s] EXCEPT !.status = "cancelled"]]
    BY <1>5 DEF Cancel, IInv, TypeOK
  <2> QED
    BY <1>5, <2>1 DEF Writes, Closed, Cancel
<1> QED
  BY <1>1, <1>2, <1>3, <1>4, <1>5 DEF Step, Cool, Mail, Verify, ReadForVerify, Sign, Resend,
     ReadForResend, Redeem, EnsureVerified, SetPassword, Crash

\* A verified session stays verified or is used up, with its code.
LEMMA VerifiedStays ==
  ASSUME TypeOK, NEW c, NEW s \in Session, row[s].status \in {"verified", "cancelled"},
         row' = row \/ \E x \in Session : \E w : Writes(c, x, w)
  PROVE  row'[s].code = row[s].code /\ row'[s].status \in {"verified", "cancelled"}
<1>1. ASSUME NEW x \in Session, NEW w, Writes(c, x, w) PROVE row'[s].code = row[s].code
        /\ row'[s].status \in {"verified", "cancelled"}
  <2>1. CASE x # s
    BY <1>1, <2>1 DEF Writes, TypeOK
  <2>2. CASE x = s
    <3>1. Used(row[s], w) /\ row'[s] = w
      BY <1>1, <2>2 DEF Writes, Started, Tried, Renewed, Closed, TypeOK
    <3> QED
      BY <3>1 DEF Used, TypeOK, Row
  <2> QED
    BY <2>1, <2>2
<1> QED
  BY <1>1

\* A step of one client does not disturb what the transactions of others rely on.
LEMMA OthersUndisturbed ==
  ASSUME TypeOK, NEW c \in Client, NEW p \in Client, p # c, HoldsWhatItRead(p),
         pc'[p] = pc[p], call'[p] = call[p], \A s \in Session : lock[s] = p => lock'[s] = p,
         row' = row \/ \E s \in Session : \E w : Writes(c, s, w)
  PROVE  HoldsWhatItRead(p)'
<1> DEFINE s == call[p].session
<1>1. CASE pc[p] = "idle"
  BY <1>1 DEF HoldsWhatItRead
<1>2. CASE pc[p] \in {"judge", "renew"}
  <2>1. s \in Session /\ lock[s] = p /\ (call[p].seen = row[s] \/ call[p].seen.status = "none")
    BY <1>2 DEF HoldsWhatItRead
  <2>2. row'[s] = row[s] \/ row[s].status = "none"
    BY <2>1, LimitsAssumption DEF Writes, Started, TypeOK
  <2> QED
    BY <1>2, <2>1, <2>2 DEF HoldsWhatItRead
<1>3. CASE pc[p] \notin {"idle", "judge", "renew"}
  <2>1. s \in Session
    BY <1>3 DEF HoldsWhatItRead
  <2>2. pc[p] \in {"sign", "consume"} => row[s].status \in {"verified", "cancelled"}
    BY DEF HoldsWhatItRead
  <2>3. row[s].status \in {"verified", "cancelled"}
          => row'[s].code = row[s].code /\ row'[s].status \in {"verified", "cancelled"}
    BY <2>1, VerifiedStays
  <2> QED
    BY <1>3, <2>1, <2>2, <2>3 DEF HoldsWhatItRead
<1> QED
  BY <1>1, <1>2, <1>3

-----------------------------------------------------------------------------
\* A write as allowed keeps the types of the rows and their limits.
LEMMA RowsKept ==
  ASSUME TypeOK, LimitsHold, NEW c, row' = row \/ \E s \in Session : \E w : Writes(c, s, w)
  PROVE  row' \in [Session -> Row] /\ LimitsHold'
<1>1. CASE row' = row
  BY <1>1 DEF TypeOK, LimitsHold
<1>2. ASSUME NEW s \in Session, NEW w, Writes(c, s, w) PROVE row' \in [Session -> Row] /\ LimitsHold'
  <2>1. row' = [row EXCEPT ![s] = w] /\ w \in Row /\ w.attempts <= MaxAttempts /\ w.sends <= MaxSends
    BY <1>2, WrittenRow DEF Writes
  <2> QED
    BY <2>1 DEF TypeOK, LimitsHold
<1> QED
  BY <1>1, <1>2

\* The blank row and the blank call are a row and a call.
LEMMA NoCallType == NoRow \in Row /\ NoCall \in Call
BY DEF NoRow, NoCall, Row, Status, Call

\* A request enters with its session and code noted.
LEMMA EnterType ==
  ASSUME TypeOK, NEW c \in Client, NEW s \in Session, NEW k \in Nat,
         NEW l \in {"cool", "verify", "resend", "redeem"}, Enter(c, l, s, k)
  PROVE  /\ pc' = [pc EXCEPT ![c] = l]
         /\ call' \in [Client -> Call]
         /\ call'[c].session = s /\ call'[c].code = k
<1>1. [NoCall EXCEPT !.session = s, !.code = k, !.now = clock] \in Call
  BY NoCallType DEF Call, TypeOK
<1> QED
  BY <1>1, NoCallType DEF Enter, Goto, TypeOK, Call

\* A client that is answered is idle and has no call.
LEMMA AnswerType ==
  ASSUME TypeOK, NEW c \in Client, Answer(c)
  PROVE  call' \in [Client -> Call] /\ pc'[c] = "idle" /\ pc' = [pc EXCEPT ![c] = "idle"]
BY NoCallType DEF Answer, Goto, TypeOK

\* SELECT ... FOR UPDATE notes the row as it is.
LEMMA LockAndReadType ==
  ASSUME TypeOK, NEW c \in Client, NEW l \in {"judge", "renew"}, call[c].session \in Session,
         LockAndRead(c, l)
  PROVE  /\ lock' \in [Session -> Client \cup {NoClient}]
         /\ call' \in [Client -> Call]
         /\ call'[c].session = call[c].session /\ call'[c].seen = row[call[c].session]
         /\ pc' = [pc EXCEPT ![c] = l]
<1> DEFINE s == call[c].session
<1>1. [call[c] EXCEPT !.seen = row[s]] \in Call
  BY DEF TypeOK, Call
<1>2. call' = [call EXCEPT ![c] = [call[c] EXCEPT !.seen = row[s]]]
  BY DEF LockAndRead, TypeOK
<1>3. call[c] \in Call
  BY DEF TypeOK
<1> QED
  BY <1>1, <1>2, <1>3 DEF LockAndRead, Goto, TypeOK, Call

\* Every step of a client keeps the types.
LEMMA TypeStep ==
  ASSUME IInv, NEW c \in Client, Step(c) \/ \E s \in Session : Cancel(c, s)
  PROVE  TypeOK'
<1>1. row' \in [Session -> Row]
  BY RowStep, RowsKept DEF IInv
<1> USE DEF IInv
<1>2. call[c] \in Call /\ call[c].code \in Nat /\ (pc[c] # "idle" => call[c].session \in Session)
  BY DEF TypeOK, HoldsWhatItRead, Call
<1>3. Release(c) => lock' \in [Session -> Client \cup {NoClient}]
  BY DEF Release, TypeOK
<1>4. CASE Start(c)
  <2>1. PICK s \in Session : Enter(c, "cool", s, 1)
    BY <1>4 DEF Start
  <2>2. pc' = [pc EXCEPT ![c] = "cool"] /\ call' \in [Client -> Call]
    BY <2>1, EnterType
  <2>3. UNCHANGED <<clock, lock, cooldown, mail, proofs, redeemed, passwords>>
    BY <1>4 DEF Start
  <2> QED
    BY <1>1, <2>2, <2>3 DEF TypeOK
<1>5. CASE Cool(c)
  <2>1. clock + Cooldown \in Nat
    BY LimitsAssumption DEF TypeOK
  <2> DEFINE d == clock + Cooldown
  <2>2. cooldown' = [cooldown EXCEPT ![call[c].session] = d]
    BY <1>5 DEF Cool
  <2> HIDE DEF d
  <2>3. cooldown' \in [Session -> Nat]
    BY <2>1, <2>2 DEF TypeOK, d
  <2> QED
    BY <1>5, <2>3 DEF Cool, Goto, TypeOK
<1>6. CASE Mail(c)
  <2> DEFINE s == call[c].session
             k == call[c].code
  <2>1. s \in Session /\ k \in Nat /\ mail[s] \in SUBSET Nat
    BY <1>2, <1>6 DEF Mail, TypeOK
  <2>2. mail' = [mail EXCEPT ![s] = mail[s] \cup {k}] \/ mail' = mail
    BY <1>6 DEF Mail
  <2> HIDE DEF s, k
  <2>3. mail' \in [Session -> SUBSET Nat]
    BY <2>1, <2>2 DEF TypeOK
  <2>4. Answer(c) /\ UNCHANGED <<clock, row, lock, cooldown, proofs, redeemed, passwords>>
    BY <1>6 DEF Mail
  <2> QED
    BY <2>3, <2>4, AnswerType DEF TypeOK
<1>7. CASE Verify(c)
  <2>1. PICK s \in Session, k \in Nat : Enter(c, "verify", s, k)
    BY <1>7 DEF Verify, TypeOK
  <2> QED
    BY <1>7, <2>1, EnterType DEF TypeOK, Verify
<1>8. CASE ReadForVerify(c)
  BY <1>2, <1>8, LockAndReadType DEF ReadForVerify, TypeOK
<1>9. CASE Judge(c)
  <2>1. (Goto(c, "sign") /\ UNCHANGED call) \/ Answer(c)
    BY <1>9 DEF Judge
  <2>2. call' \in [Client -> Call] /\ pc' \in [Client -> {"idle", "cool", "mail", "verify", "judge",
          "sign", "resend", "renew", "redeem", "consume", "password"}]
    BY <2>1, AnswerType DEF Goto, TypeOK
  <2>3. Release(c) /\ UNCHANGED <<clock, cooldown, mail, proofs, redeemed, passwords>>
    BY <1>9 DEF Judge
  <2> QED
    BY <1>1, <1>3, <2>2, <2>3 DEF TypeOK
<1>10. CASE Sign(c)
  <2>1. [session |-> call[c].session, code |-> call[c].code, at |-> clock] \in Proof
    BY <1>2, <1>10 DEF Sign, Proof, TypeOK
  <2> QED
    BY <1>10, <2>1, AnswerType DEF Sign, TypeOK
<1>11. CASE Resend(c)
  <2>1. PICK s \in Session : Enter(c, "resend", s, 0)
    BY <1>11 DEF Resend
  <2> QED
    BY <1>11, <2>1, EnterType DEF TypeOK, Resend
<1>12. CASE ReadForResend(c)
  BY <1>2, <1>12, LockAndReadType DEF ReadForResend, TypeOK
<1>13. CASE Renew(c)
  <2> DEFINE k == row[call[c].session].sends + 1
  <2>1. k \in Nat
    BY <1>2, <1>13 DEF Renew, TypeOK, Row
  <2>2. (Goto(c, "cool") /\ call' = [call EXCEPT ![c].code = k]) \/ Answer(c)
    BY <1>13 DEF Renew
  <2> HIDE DEF k
  <2>3. [call[c] EXCEPT !.code = k] \in Call
    BY <1>2, <2>1 DEF Call
  <2>4. call' = [call EXCEPT ![c].code = k] => call' = [call EXCEPT ![c] = [call[c] EXCEPT !.code = k]]
    BY DEF TypeOK
  <2>5. call' \in [Client -> Call] /\ pc' \in [Client -> {"idle", "cool", "mail", "verify", "judge",
          "sign", "resend", "renew", "redeem", "consume", "password"}]
    BY <2>2, <2>3, <2>4, AnswerType DEF Goto, TypeOK
  <2>6. Release(c) /\ UNCHANGED <<clock, cooldown, mail, proofs, redeemed, passwords>>
    BY <1>13 DEF Renew
  <2> QED
    BY <1>1, <1>3, <2>5, <2>6 DEF TypeOK
<1>14. CASE Redeem(c)
  <2>1. PICK p \in proofs : Enter(c, "redeem", p.session, p.code)
    BY <1>14 DEF Redeem
  <2>2. p.session \in Session /\ p.code \in Nat
    BY DEF TypeOK, Proof
  <2>3. pc' = [pc EXCEPT ![c] = "redeem"] /\ call' \in [Client -> Call]
    BY <2>1, <2>2, EnterType
  <2>4. UNCHANGED <<clock, row, lock, cooldown, mail, proofs, redeemed, passwords>>
    BY <1>14 DEF Redeem
  <2> QED
    BY <1>14, <2>3, <2>4 DEF TypeOK
<1>15. CASE EnsureVerified(c)
  BY <1>15, AnswerType DEF EnsureVerified, Goto, TypeOK
<1>16. CASE Consume(c)
  BY <1>1, <1>16 DEF Consume, Goto, TypeOK
<1>17. CASE SetPassword(c)
  BY <1>17, AnswerType DEF SetPassword, TypeOK
<1>18. CASE Crash(c)
  BY <1>3, <1>18, AnswerType DEF Crash, TypeOK
<1>19. CASE \E s \in Session : Cancel(c, s)
  BY <1>1, <1>19 DEF Cancel, TypeOK
<1> QED
  BY <1>4, <1>5, <1>6, <1>7, <1>8, <1>9, <1>10, <1>11, <1>12, <1>13, <1>14, <1>15, <1>16, <1>17,
     <1>18, <1>19 DEF Step

\* An idle call relies on nothing.
LEMMA IdleHolds ==
  ASSUME NEW c \in Client, pc'[c] = "idle"
  PROVE  HoldsWhatItRead(c)'
BY DEF HoldsWhatItRead

\* A client's own step leaves it with what its next step relies on.
LEMMA OwnStep ==
  ASSUME IInv, NEW c \in Client, Step(c) \/ \E s \in Session : Cancel(c, s)
  PROVE  HoldsWhatItRead(c)'
<1> USE DEF IInv
<1>1. pc \in [Client -> {"idle", "cool", "mail", "verify", "judge", "sign", "resend", "renew",
                        "redeem", "consume", "password"}] /\ call \in [Client -> Call]
  BY DEF TypeOK
<1>2. pc[c] # "idle" => call[c].session \in Session
  BY DEF HoldsWhatItRead
<1>3. CASE Start(c)
  <2>1. PICK s \in Session : Enter(c, "cool", s, 1)
    BY <1>3 DEF Start
  <2>2. pc' = [pc EXCEPT ![c] = "cool"] /\ call'[c].session = s
    BY <2>1, EnterType
  <2> QED
    BY <1>1, <2>2 DEF HoldsWhatItRead
<1>4. CASE Cool(c)
  BY <1>1, <1>2, <1>4 DEF Cool, Goto, HoldsWhatItRead
<1>5. CASE Mail(c) \/ Sign(c) \/ SetPassword(c) \/ Crash(c)
  <2>1. Answer(c)
    BY <1>5 DEF Mail, Sign, SetPassword, Crash
  <2> QED
    BY <2>1, AnswerType, IdleHolds
<1>6. CASE Verify(c)
  <2>1. PICK s \in Session, k \in Nat : Enter(c, "verify", s, k)
    BY <1>6 DEF Verify, TypeOK
  <2>2. pc' = [pc EXCEPT ![c] = "verify"] /\ call'[c].session = s
    BY <2>1, EnterType
  <2> QED
    BY <1>1, <2>2 DEF HoldsWhatItRead
<1>7. CASE ReadForVerify(c)
  <2> DEFINE s == call[c].session
  <2>1. s \in Session /\ LockAndRead(c, "judge") /\ row' = row
    BY <1>2, <1>7 DEF ReadForVerify
  <2>2. pc' = [pc EXCEPT ![c] = "judge"] /\ call'[c].session = s /\ call'[c].seen = row[s]
    BY <2>1, LockAndReadType
  <2>3. lock'[s] = c
    BY <2>1 DEF LockAndRead, TypeOK
  <2> QED
    BY <1>1, <2>1, <2>2, <2>3 DEF HoldsWhatItRead
<1>8. CASE ReadForResend(c)
  <2> DEFINE s == call[c].session
  <2>1. s \in Session /\ LockAndRead(c, "renew") /\ row' = row
    BY <1>2, <1>8 DEF ReadForResend
  <2>2. pc' = [pc EXCEPT ![c] = "renew"] /\ call'[c].session = s /\ call'[c].seen = row[s]
    BY <2>1, LockAndReadType
  <2>3. lock'[s] = c
    BY <2>1 DEF LockAndRead, TypeOK
  <2> QED
    BY <1>1, <2>1, <2>2, <2>3 DEF HoldsWhatItRead
<1>9. CASE Judge(c)
  <2>1. CASE Answer(c)
    BY <2>1, AnswerType, IdleHolds
  <2>2. CASE ~Answer(c)
    <3> DEFINE s == call[c].session
    <3>1. Goto(c, "sign") /\ call' = call /\ row[s] = call[c].seen /\ s \in Session
          /\ call[c].code = row[s].code
          /\ row' = [row EXCEPT ![s].attempts = @ + 1, ![s].status = "verified"]
      BY <1>2, <1>9, <2>2 DEF Judge, HoldsWhatItRead
    <3>2. row'[s].code = row[s].code /\ row'[s].status = "verified"
      BY <3>1 DEF TypeOK, Row
    <3> QED
      BY <1>1, <3>1, <3>2 DEF Goto, HoldsWhatItRead
  <2> QED
    BY <2>1, <2>2
<1>10. CASE Resend(c)
  <2>1. PICK s \in Session : Enter(c, "resend", s, 0)
    BY <1>10 DEF Resend
  <2>2. pc' = [pc EXCEPT ![c] = "resend"] /\ call'[c].session = s
    BY <2>1, EnterType
  <2> QED
    BY <1>1, <2>2 DEF HoldsWhatItRead
<1>11. CASE Renew(c)
  <2>1. CASE Answer(c)
    BY <2>1, AnswerType, IdleHolds
  <2>2. CASE ~Answer(c)
    <3> DEFINE k == row[call[c].session].sends + 1
    <3>1. Goto(c, "cool") /\ call' = [call EXCEPT ![c].code = k] /\ call[c].session \in Session
      BY <1>2, <1>11, <2>2 DEF Renew
    <3> HIDE DEF k
    <3>2. call'[c].session = call[c].session
      BY <1>1, <3>1 DEF Call
    <3> QED
      BY <1>1, <3>1, <3>2 DEF Goto, HoldsWhatItRead
  <2> QED
    BY <2>1, <2>2
<1>12. CASE Redeem(c)
  <2>1. PICK p \in proofs : Enter(c, "redeem", p.session, p.code)
    BY <1>12 DEF Redeem
  <2>2. p.session \in Session /\ p.code \in Nat
    BY DEF TypeOK, Proof
  <2>3. pc' = [pc EXCEPT ![c] = "redeem"] /\ call'[c].session \in Session
    BY <2>1, <2>2, EnterType
  <2> QED
    BY <1>1, <2>3 DEF HoldsWhatItRead
<1>13. CASE EnsureVerified(c)
  <2>1. CASE Answer(c)
    BY <2>1, AnswerType, IdleHolds
  <2>2. CASE ~Answer(c)
    BY <1>1, <1>2, <1>13, <2>2 DEF EnsureVerified, Goto, HoldsWhatItRead
  <2> QED
    BY <2>1, <2>2
<1>14. CASE Consume(c)
  BY <1>1, <1>2, <1>14 DEF Consume, Goto, HoldsWhatItRead
<1>15. CASE \E s \in Session : Cancel(c, s)
  BY <1>15, IdleHolds DEF Cancel
<1> QED
  BY <1>3, <1>4, <1>5, <1>6, <1>7, <1>8, <1>9, <1>10, <1>11, <1>12, <1>13, <1>14, <1>15 DEF Step

\* A step of one client changes neither the calls of the others nor their locks.
LEMMA OthersLeftAlone ==
  ASSUME IInv, NEW c \in Client, Step(c) \/ \E s \in Session : Cancel(c, s), NEW p \in Client, p # c
  PROVE  pc'[p] = pc[p] /\ call'[p] = call[p] /\ \A s \in Session : lock[s] = p => lock'[s] = p
<1> USE DEF IInv
<1>1. pc'[p] = pc[p] /\ call'[p] = call[p]
  BY DEF Step, TypeOK, Goto, Enter, Answer, LockAndRead, Start, Cool, Mail, Verify, ReadForVerify,
     Judge, Sign, Resend, ReadForResend, Renew, Redeem, EnsureVerified, Consume, SetPassword, Crash,
     Cancel
<1>2. \A s \in Session : lock[s] = p => lock'[s] = p
  BY LimitsAssumption DEF Step, TypeOK, LockAndRead, Release, Start, Cool, Mail, Verify,
     ReadForVerify, Judge, Sign, Resend, ReadForResend, Renew, Redeem, EnsureVerified, Consume,
     SetPassword, Crash, Cancel
<1> QED
  BY <1>1, <1>2

\* The proofs go on standing for the last code of a verified session.
LEMMA ProofsKept ==
  ASSUME IInv, NEW c \in Client, Step(c) \/ \E s \in Session : Cancel(c, s)
  PROVE  ProofsStandForLastCode'
<1> USE DEF IInv
<1>1. ASSUME NEW p \in proofs
      PROVE  p.code = row'[p.session].code /\ row'[p.session].status \in {"verified", "cancelled"}
  <2>1. p.session \in Session /\ p.code = row[p.session].code
        /\ row[p.session].status \in {"verified", "cancelled"}
    BY DEF TypeOK, Proof, ProofsStandForLastCode
  <2> QED
    BY <2>1, RowStep, VerifiedStays
<1>2. CASE Sign(c)
  <2> DEFINE s == call[c].session
  <2>1. call[c].code = row[s].code /\ row[s].status \in {"verified", "cancelled"} /\ row' = row
        /\ proofs' = proofs \cup {[session |-> s, code |-> call[c].code, at |-> clock]}
    BY <1>2 DEF Sign, HoldsWhatItRead
  <2> QED
    BY <1>1, <2>1 DEF ProofsStandForLastCode
<1>3. CASE proofs' = proofs
  BY <1>1, <1>3 DEF ProofsStandForLastCode
<1> QED
  BY <1>2, <1>3 DEF Step, Start, Cool, Mail, Verify, ReadForVerify, Judge, Resend, ReadForResend,
     Renew, Redeem, EnsureVerified, Consume, SetPassword, Crash, Cancel

-----------------------------------------------------------------------------
\* The inductive invariant holds at the beginning.
LEMMA InvInit == Init => IInv
<1> SUFFICES ASSUME Init PROVE IInv
  OBVIOUS
<1>1. TypeOK
  BY NoCallType DEF Init, TypeOK
<1>2. LimitsHold /\ ProofsStandForLastCode
  BY LimitsAssumption DEF Init, LimitsHold, ProofsStandForLastCode, NoRow
<1>3. \A c \in Client : HoldsWhatItRead(c)
  BY DEF Init, HoldsWhatItRead
<1> QED
  BY <1>1, <1>2, <1>3 DEF IInv

\* Every step keeps the inductive invariant.
LEMMA InvNext == IInv /\ [Next]_vars => IInv'
<1> SUFFICES ASSUME IInv, [Next]_vars PROVE IInv'
  OBVIOUS
<1>1. ASSUME NEW c \in Client, Step(c) \/ \E s \in Session : Cancel(c, s)
      PROVE  IInv'
  <2>1. TypeOK' /\ LimitsHold' /\ ProofsStandForLastCode' /\ HoldsWhatItRead(c)'
    BY <1>1, TypeStep, RowStep, RowsKept, ProofsKept, OwnStep DEF IInv
  <2>2. ASSUME NEW p \in Client, p # c PROVE HoldsWhatItRead(p)'
    BY <1>1, <2>2, OthersLeftAlone, OthersUndisturbed, RowStep DEF IInv
  <2> QED
    BY <2>1, <2>2 DEF IInv
<1>2. CASE Tick
  BY <1>2 DEF Tick, IInv, TypeOK, LimitsHold, ProofsStandForLastCode, HoldsWhatItRead
<1>3. CASE UNCHANGED vars
  BY <1>3 DEF vars, IInv, TypeOK, LimitsHold, ProofsStandForLastCode, HoldsWhatItRead
<1> QED
  BY <1>1, <1>2, <1>3 DEF Next

\* The strengthened invariant holds throughout.
THEOREM Invariance == Spec => []IInv
BY InvInit, InvNext, PTL DEF Spec

\* Every variable keeps its type.
THEOREM TypeCorrect == Spec => []TypeOK
<1>1. IInv => TypeOK
  BY DEF IInv
<1> QED
  BY <1>1, Invariance, PTL

\* For any number of clients and sessions, verify_otp and resend_otp together try
\* and send no more codes than OTP_MAX_ATTEMPTS and OTP_MAX_SENDS.
THEOREM LimitsAlwaysHold == Spec => []LimitsHold
<1>1. IInv => LimitsHold
  BY DEF IInv
<1> QED
  BY <1>1, Invariance, PTL

\* Every signed proof is of a session that was verified with its last code.
THEOREM ProofsAreSound == Spec => []ProofsStandForLastCode
<1>1. IInv => ProofsStandForLastCode
  BY DEF IInv
<1> QED
  BY <1>1, Invariance, PTL

-----------------------------------------------------------------------------
\* The rows without their expiry: the refinement mapping.
Abstract == [s \in Session |-> [status |-> row[s].status, code |-> row[s].code,
                                attempts |-> row[s].attempts, sends |-> row[s].sends]]

\* What one step does to a row is an operation of OtpSession on the session. The
\* second use of a verified session finds it used up, and changes nothing.
LEMMA WriteIsOperation ==
  ASSUME TypeOK, NEW c, NEW s \in Session, NEW w, Writes(c, s, w)
  PROVE  Promise!Next \/ Abstract' = Abstract
<1> DEFINE v == row[s]
           a(x) == [status |-> x.status, code |-> x.code, attempts |-> x.attempts, sends |-> x.sends]
<1>1. row' = [row EXCEPT ![s] = w] /\ v \in Row
  BY DEF Writes, TypeOK
<1>2. Abstract' = [Abstract EXCEPT ![s] = a(w)] /\ Abstract[s] = a(v)
  BY <1>1 DEF Abstract, TypeOK
<1>3. CASE Started(v, w)
  <2>1. Promise!Start(s)
    BY <1>2, <1>3 DEF Started, Promise!Start, Abstract
  <2> QED
    BY <2>1 DEF Promise!Next
<1>4. CASE Tried(v, w)
  <2>1. PICK st \in {"pending", "verified"} : w = [v EXCEPT !.attempts = @ + 1, !.status = st]
    BY <1>4 DEF Tried
  <2> DEFINE n == v.attempts + 1
  <2>2. a(w) = [Abstract[s] EXCEPT !.attempts = @ + 1, !.status = st]
    <3>1. w = [v EXCEPT !.attempts = n, !.status = st] /\ Abstract[s].attempts + 1 = n
      BY <1>2, <2>1
    <3> HIDE DEF n
    <3>2. w.status = st /\ w.attempts = n /\ w.code = v.code /\ w.sends = v.sends
      BY <1>1, <3>1 DEF Row
    <3>3. a(w) = [status |-> st, code |-> v.code, attempts |-> n, sends |-> v.sends]
      BY <3>2
    <3>4. [a(v) EXCEPT !.attempts = n, !.status = st]
            = [status |-> st, code |-> v.code, attempts |-> n, sends |-> v.sends]
      <4>1. PICK r : r = [a(v) EXCEPT !.attempts = n]
        OBVIOUS
      <4>2. r = [status |-> v.status, code |-> v.code, attempts |-> n, sends |-> v.sends]
        BY <4>1
      <4>3. [r EXCEPT !.status = st]
              = [status |-> st, code |-> v.code, attempts |-> n, sends |-> v.sends]
        BY <4>2
      <4> QED
        BY <4>1, <4>3, Zenon
    <3> QED
      BY <1>2, <3>1, <3>3, <3>4
  <2>3. Abstract' = [Abstract EXCEPT ![s].attempts = @ + 1, ![s].status = st]
    BY <1>2, <2>2 DEF Abstract
  <2>4. Promise!Try(s)
    BY <1>2, <1>4, <2>3 DEF Tried, Promise!Try, Abstract
  <2> QED
    BY <2>4 DEF Promise!Next
<1>5. CASE Renewed(v, w)
  <2>1. Promise!Renew(s)
    BY <1>1, <1>2, <1>5 DEF Renewed, Promise!Renew, Abstract, Row
  <2> QED
    BY <2>1 DEF Promise!Next
<1>6. CASE Closed(v, w)
  <2>1. PICK st \in {"expired", "cancelled"} : w = [v EXCEPT !.status = st]
    BY <1>6 DEF Closed
  <2>2. a(w) = [Abstract[s] EXCEPT !.status = st]
    BY <1>1, <1>2, <2>1 DEF Row
  <2>3. Abstract' = [Abstract EXCEPT ![s].status = st]
    BY <1>2, <2>2 DEF Abstract
  <2>4. Promise!Close(s)
    BY <1>2, <1>6, <2>3 DEF Closed, Promise!Close, Abstract
  <2> QED
    BY <2>4 DEF Promise!Next
<1>7. CASE Used(v, w) /\ v.status = "verified"
  <2>1. Promise!Use(s)
    BY <1>1, <1>2, <1>7 DEF Used, Promise!Use, Abstract, Row
  <2> QED
    BY <2>1 DEF Promise!Next
<1>8. CASE Used(v, w) /\ v.status = "cancelled"
  <2>1. w = v
    BY <1>1, <1>8 DEF Used, Row
  <2>2. row' = row
    BY <1>1, <2>1 DEF TypeOK
  <2> QED
    BY <2>2 DEF Abstract
<1> QED
  BY <1>3, <1>4, <1>5, <1>6, <1>7, <1>8 DEF Writes, Used

\* Whatever the overlap of verifications, resends, cancellations and resets, the
\* sessions go through the operations of OtpSession, one at a time.
THEOREM ImplementsSession == Spec => KeepsPromise
<1>1. Init => Promise!Init
  BY DEF Init, NoRow, Promise!Init
<1>2. IInv /\ [Next]_vars => [Promise!Next]_Abstract
  <2> SUFFICES ASSUME IInv, [Next]_vars PROVE Promise!Next \/ Abstract' = Abstract
    OBVIOUS
  <2>1. ASSUME NEW c \in Client, Step(c) \/ \E s \in Session : Cancel(c, s)
        PROVE  Promise!Next \/ Abstract' = Abstract
    <3>1. CASE row' = row
      BY <3>1 DEF Abstract
    <3>2. CASE \E s \in Session : \E w : Writes(c, s, w)
      BY <3>2, WriteIsOperation DEF IInv
    <3> QED
      BY <2>1, <3>1, <3>2, RowStep
  <2>2. CASE Tick \/ UNCHANGED vars
    BY <2>2 DEF Tick, vars, Abstract
  <2> QED
    BY <2>1, <2>2 DEF Next
<1> QED
  BY <1>1, <1>2, Invariance, PTL DEF Spec, KeepsPromise, Promise!Spec, Abstract

-----------------------------------------------------------------------------
\* The calls of a session that have been granted a password and not set it yet.
Granted(s) == {c \in Client : pc[c] = "password" /\ call[c].session = s}

\* Every grant allows for one password: those set and those still to be set.
GrantsSuffice == \A s \in Session :
  IsFiniteSet(Granted(s)) /\ Cardinality(Granted(s)) + passwords[s] <= redeemed[s]

\* A reset is begun with a proof of the session, and keeps to that session.
ResetsHaveProof == \A c \in Client :
  pc[c] \in {"redeem", "consume", "password"} => \E p \in proofs : p.session = call[c].session

\* Who has been granted a password has used the session up.
GrantsUseUp == \A s \in Session :
  redeemed[s] > 0 => row[s].status = "cancelled" /\ \E p \in proofs : p.session = s

\* IInv says of the rows alone what the resets rest on.
ResetInv == IInv /\ GrantsSuffice /\ ResetsHaveProof /\ GrantsUseUp

\* The passwords set are no more than the grants.
LEMMA ResetInvSuffices == ResetInv => ResetUsesSessionUp
<1> SUFFICES ASSUME ResetInv, NEW s \in Session PROVE passwords[s] <= redeemed[s]
  BY DEF ResetUsesSessionUp, ResetInv, GrantsUseUp
<1>1. Cardinality(Granted(s)) \in Nat
  BY FS_CardinalityType DEF ResetInv, GrantsSuffice
<1> QED
  BY <1>1 DEF ResetInv, GrantsSuffice, IInv, TypeOK

\* Only a consumption grants a password, and only setting it uses the grant.
LEMMA GrantStep ==
  ASSUME IInv, NEW c \in Client, Step(c) \/ \E s \in Session : Cancel(c, s)
  PROVE  \/ Consume(c)
         \/ SetPassword(c)
         \/ UNCHANGED <<redeemed, passwords>> /\ pc'[c] # "password"
<1> USE DEF IInv
<1>1. CASE Start(c) \/ Verify(c) \/ Resend(c) \/ Redeem(c)
  BY <1>1 DEF Start, Verify, Resend, Redeem, Enter, Goto, TypeOK
<1>2. CASE Cool(c) \/ Mail(c) \/ Sign(c) \/ Crash(c)
  BY <1>2 DEF Cool, Mail, Sign, Crash, Answer, Goto, TypeOK
<1>3. CASE ReadForVerify(c) \/ ReadForResend(c)
  BY <1>3 DEF ReadForVerify, ReadForResend, LockAndRead, Goto, TypeOK
<1>4. CASE Judge(c) \/ Renew(c) \/ EnsureVerified(c)
  BY <1>4 DEF Judge, Renew, EnsureVerified, Answer, Goto, TypeOK
<1>5. CASE \E s \in Session : Cancel(c, s)
  BY <1>5 DEF Cancel
<1> QED
  BY <1>1, <1>2, <1>3, <1>4, <1>5 DEF Step

\* The grants still suffice after a client's step.
LEMMA GrantsSufficeNext ==
  ASSUME ResetInv, NEW c \in Client, Step(c) \/ \E s \in Session : Cancel(c, s), TypeOK'
  PROVE  GrantsSuffice'
<1> SUFFICES ASSUME NEW s \in Session
             PROVE  IsFiniteSet(Granted(s)') /\ Cardinality(Granted(s)') + passwords'[s] <= redeemed'[s]
  BY DEF GrantsSuffice
<1> USE DEF ResetInv
<1>1. \A p \in Client : p # c => pc'[p] = pc[p] /\ call'[p] = call[p]
  BY OthersLeftAlone
<1>2. IsFiniteSet(Granted(s)) /\ Cardinality(Granted(s)) + passwords[s] <= redeemed[s]
      /\ Cardinality(Granted(s)) \in Nat /\ passwords[s] \in Nat /\ redeemed[s] \in Nat
  BY FS_CardinalityType DEF GrantsSuffice, IInv, TypeOK
<1>3. ASSUME Granted(s)' \subseteq Granted(s), passwords'[s] = passwords[s], redeemed'[s] = redeemed[s]
      PROVE  IsFiniteSet(Granted(s)') /\ Cardinality(Granted(s)') + passwords'[s] <= redeemed'[s]
  <2>1. IsFiniteSet(Granted(s)') /\ Cardinality(Granted(s)') <= Cardinality(Granted(s))
    BY <1>2, <1>3, FS_Subset
  <2>2. Cardinality(Granted(s)') \in Nat
    BY <2>1, FS_CardinalityType
  <2> QED
    BY <1>2, <1>3, <2>1, <2>2
<1>4. CASE UNCHANGED <<redeemed, passwords>> /\ pc'[c] # "password"
  <2>1. Granted(s)' \subseteq Granted(s)
    BY <1>1, <1>4 DEF Granted
  <2> QED
    BY <1>3, <1>4, <2>1
<1>5. CASE Consume(c)
  <2>1. pc[c] = "consume" /\ UNCHANGED call /\ passwords' = passwords
        /\ redeemed' = [redeemed EXCEPT ![call[c].session] = @ + 1]
    BY <1>5 DEF Consume
  <2>2. CASE call[c].session # s
    <3>1. Granted(s)' \subseteq Granted(s) /\ redeemed'[s] = redeemed[s]
      BY <1>1, <2>1, <2>2 DEF Granted, IInv, TypeOK
    <3> QED
      BY <1>3, <2>1, <3>1
  <2>3. CASE call[c].session = s
    <3>1. pc'[c] = "password"
      BY <1>5 DEF Consume, Goto, IInv, TypeOK
    <3>2. Granted(s)' = Granted(s) \cup {c} /\ c \notin Granted(s)
      BY <1>1, <2>1, <2>3, <3>1 DEF Granted
    <3>3. IsFiniteSet(Granted(s)') /\ Cardinality(Granted(s)') = Cardinality(Granted(s)) + 1
      BY <1>2, <3>2, FS_AddElement
    <3>4. redeemed'[s] = redeemed[s] + 1
      BY <2>1, <2>3 DEF IInv, TypeOK
    <3> QED
      BY <1>2, <2>1, <3>3, <3>4
  <2> QED
    BY <2>2, <2>3
<1>6. CASE SetPassword(c)
  <2>1. pc[c] = "password" /\ redeemed' = redeemed /\ pc'[c] = "idle"
        /\ (passwords' = passwords \/ passwords' = [passwords EXCEPT ![call[c].session] = @ + 1])
    BY <1>6, AnswerType DEF SetPassword, IInv
  <2>2. Granted(s)' = Granted(s) \ {c}
    BY <1>1, <2>1 DEF Granted
  <2>3. CASE passwords'[s] = passwords[s]
    BY <1>3, <2>1, <2>2, <2>3
  <2>4. CASE passwords'[s] # passwords[s]
    <3>1. call[c].session = s /\ passwords'[s] = passwords[s] + 1
      BY <2>1, <2>4 DEF IInv, TypeOK
    <3>2. c \in Granted(s)
      BY <2>1, <3>1 DEF Granted
    <3>3. IsFiniteSet(Granted(s)') /\ Cardinality(Granted(s)') = Cardinality(Granted(s)) - 1
      BY <1>2, <2>2, <3>2, FS_RemoveElement
    <3> QED
      BY <1>2, <2>1, <3>1, <3>3
  <2> QED
    BY <2>3, <2>4
<1> QED
  BY <1>4, <1>5, <1>6, GrantStep

\* The proof a reset rests on is still there after a client's step.
LEMMA ResetsHaveProofNext ==
  ASSUME ResetInv, NEW c \in Client, Step(c) \/ \E s \in Session : Cancel(c, s), TypeOK'
  PROVE  ResetsHaveProof' /\ proofs \subseteq proofs'
<1> USE DEF ResetInv
<1>1. proofs \subseteq proofs'
  BY DEF Step, Start, Cool, Mail, Verify, ReadForVerify, Judge, Sign, Resend, ReadForResend, Renew,
     Redeem, EnsureVerified, Consume, SetPassword, Crash, Cancel
<1>2. \A p \in Client : p # c => pc'[p] = pc[p] /\ call'[p] = call[p]
  BY OthersLeftAlone
<1>3. pc'[c] \in {"redeem", "consume", "password"} => \E p \in proofs : p.session = call'[c].session
  <2>1. CASE Redeem(c)
    <3>1. PICK p \in proofs : Enter(c, "redeem", p.session, p.code)
      BY <2>1 DEF Redeem
    <3>2. p.session \in Session /\ p.code \in Nat
      BY DEF IInv, TypeOK, Proof
    <3>3. call'[c].session = p.session
      BY <3>1, <3>2, EnterType DEF IInv
    <3> QED
      BY <3>3
  <2>2. CASE EnsureVerified(c) \/ Consume(c)
    <3>1. pc[c] \in {"redeem", "consume"} /\ (UNCHANGED call \/ pc'[c] = "idle")
      BY <2>2, AnswerType DEF EnsureVerified, Consume, IInv
    <3> QED
      BY <3>1 DEF ResetsHaveProof
  <2>3. CASE ~Redeem(c) /\ ~EnsureVerified(c) /\ ~Consume(c)
    <3>1. CASE Start(c) \/ Verify(c) \/ Resend(c)
      BY <3>1 DEF Start, Verify, Resend, Enter, Goto, IInv, TypeOK
    <3>2. CASE Cool(c) \/ Mail(c) \/ Sign(c) \/ Crash(c) \/ SetPassword(c)
      BY <3>2 DEF Cool, Mail, Sign, Crash, SetPassword, Answer, Goto, IInv, TypeOK
    <3>3. CASE ReadForVerify(c) \/ ReadForResend(c)
      BY <3>3 DEF ReadForVerify, ReadForResend, LockAndRead, Goto, IInv, TypeOK
    <3>4. CASE Judge(c) \/ Renew(c)
      BY <3>4 DEF Judge, Renew, Answer, Goto, IInv, TypeOK
    <3>5. CASE \E s \in Session : Cancel(c, s)
      BY <3>5 DEF Cancel
    <3> QED
      BY <2>3, <3>1, <3>2, <3>3, <3>4, <3>5 DEF Step
  <2> QED
    BY <2>1, <2>2, <2>3
<1>4. ResetsHaveProof'
  <2> SUFFICES ASSUME NEW q \in Client, pc'[q] \in {"redeem", "consume", "password"}
               PROVE  \E p \in proofs : p.session = call'[q].session
    BY <1>1 DEF ResetsHaveProof
  <2>1. CASE q = c
    BY <1>3, <2>1
  <2>2. CASE q # c
    BY <1>2, <2>2 DEF ResetsHaveProof
  <2> QED
    BY <2>1, <2>2
<1> QED
  BY <1>1, <1>4

\* Nothing reopens a session that has been used up.
LEMMA UsedUpStays ==
  ASSUME TypeOK, NEW c, NEW s \in Session, row[s].status = "cancelled",
         row' = row \/ \E x \in Session : \E w : Writes(c, x, w)
  PROVE  row'[s].status = "cancelled"
<1>1. ASSUME NEW x \in Session, NEW w, Writes(c, x, w) PROVE row'[s].status = "cancelled"
  <2>1. CASE x # s
    BY <1>1, <2>1 DEF Writes, TypeOK
  <2>2. CASE x = s
    <3>1. Used(row[s], w) /\ row'[s] = w
      BY <1>1, <2>2 DEF Writes, Started, Tried, Renewed, Closed, TypeOK
    <3> QED
      BY <3>1 DEF Used, TypeOK, Row
  <2> QED
    BY <2>1, <2>2
<1> QED
  BY <1>1

\* A grant goes with the use of its session.
LEMMA GrantsUseUpNext ==
  ASSUME ResetInv, NEW c \in Client, Step(c) \/ \E s \in Session : Cancel(c, s), TypeOK'
  PROVE  GrantsUseUp'
<1> SUFFICES ASSUME NEW s \in Session, redeemed'[s] > 0
             PROVE  row'[s].status = "cancelled" /\ \E p \in proofs' : p.session = s
  BY DEF GrantsUseUp
<1> USE DEF ResetInv
<1>1. proofs \subseteq proofs'
  BY ResetsHaveProofNext
<1>2. CASE redeemed'[s] = redeemed[s]
  BY <1>1, <1>2, RowStep, UsedUpStays DEF GrantsUseUp, IInv
<1>3. CASE redeemed'[s] # redeemed[s]
  <2>1. Consume(c)
    BY <1>3, GrantStep DEF SetPassword
  <2>2. call[c].session = s /\ pc[c] = "consume"
    BY <1>3, <2>1 DEF Consume, IInv, TypeOK
  <2>3. row' = [row EXCEPT ![s].status = "cancelled"]
    BY <2>1, <2>2 DEF Consume
  <2>4. row'[s].status = "cancelled"
    BY <2>3 DEF IInv, TypeOK, Row
  <2> QED
    BY <1>1, <2>2, <2>4 DEF ResetsHaveProof
<1> QED
  BY <1>2, <1>3

\* At first nothing has been granted.
LEMMA ResetInvInit == Init => ResetInv
<1> SUFFICES ASSUME Init PROVE ResetInv
  OBVIOUS
<1>1. \A s \in Session : Granted(s) = {}
  BY DEF Init, Granted
<1>2. GrantsSuffice
  BY <1>1, FS_EmptySet DEF GrantsSuffice, Init
<1>3. ResetsHaveProof /\ GrantsUseUp
  BY DEF Init, ResetsHaveProof, GrantsUseUp
<1> QED
  BY <1>2, <1>3, InvInit DEF ResetInv

\* Every step keeps the invariant of the resets.
LEMMA ResetInvNext == ResetInv /\ [Next]_vars => ResetInv'
<1> SUFFICES ASSUME ResetInv, [Next]_vars PROVE ResetInv'
  OBVIOUS
<1>1. IInv' /\ TypeOK'
  BY InvNext DEF ResetInv, IInv
<1>2. ASSUME NEW c \in Client, Step(c) \/ \E s \in Session : Cancel(c, s)
      PROVE  ResetInv'
  BY <1>1, <1>2, GrantsSufficeNext, ResetsHaveProofNext, GrantsUseUpNext DEF ResetInv
<1>3. CASE Tick \/ UNCHANGED vars
  <2>1. UNCHANGED <<row, proofs, redeemed, passwords, pc, call>>
    BY <1>3 DEF Tick, vars
  <2>2. \A s \in Session : Granted(s)' = Granted(s)
    BY <2>1 DEF Granted
  <2> QED
    BY <1>1, <2>1, <2>2 DEF ResetInv, GrantsSuffice, ResetsHaveProof, GrantsUseUp
<1> QED
  BY <1>2, <1>3 DEF Next

\* For any number of clients that hold proofs of one session at once: no more
\* passwords are set than consumptions granted, each with a proof, and a session
\* that has granted one stays used up.
THEOREM ResetsUseSessionsUp == Spec => []ResetUsesSessionUp
<1>1. Spec => []ResetInv
  BY ResetInvInit, ResetInvNext, PTL DEF Spec
<1> QED
  BY <1>1, ResetInvSuffices, PTL
=============================================================================
