----------------------------- MODULE OtpSession -----------------------------
(* What a verification session promises: its operations happen one at a time,*)
(* within the limits on attempts and on codes sent, and a session that was   *)
(* closed or used up stays so.                                               *)
EXTENDS Naturals

CONSTANTS Session, MaxAttempts, MaxSends

VARIABLE session

Init == session = [s \in Session |-> [status |-> "none", code |-> 0, attempts |-> 0, sends |-> 0]]

Start(s) ==
  /\ session[s].status = "none"
  /\ session' = [session EXCEPT ![s] = [status |-> "pending", code |-> 1, attempts |-> 0, sends |-> 1]]

Try(s) ==
  /\ session[s].status = "pending" /\ session[s].attempts < MaxAttempts
  /\ \E st \in {"pending", "verified"} :
       session' = [session EXCEPT ![s].attempts = @ + 1, ![s].status = st]

Renew(s) ==
  /\ session[s].status = "pending" /\ session[s].sends < MaxSends
  /\ session' = [session EXCEPT ![s].code = session[s].sends + 1, ![s].sends = @ + 1]

Close(s) ==
  /\ session[s].status = "pending"
  /\ \E st \in {"expired", "cancelled"} : session' = [session EXCEPT ![s].status = st]

Use(s) ==
  /\ session[s].status = "verified"
  /\ session' = [session EXCEPT ![s].status = "cancelled"]

Next == \E s \in Session : Start(s) \/ Try(s) \/ Renew(s) \/ Close(s) \/ Use(s)

Spec == Init /\ [][Next]_session
=============================================================================
