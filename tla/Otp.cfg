SPECIFICATION Spec
CONSTANTS
  Session = {s1}
  Client = {c1, c2}
  Resets = {s1}
  MaxAttempts = 2
  MaxSends = 2
  Ttl = 2
  Cooldown = 1
  ProofAge = 1
  MaxClock = 4
  NoClient = NoClient
  NoSession = NoSession
INVARIANTS
  LimitsHold
  ProofsStandForLastCode
  ResetUsesSessionUp
PROPERTY
  KeepsPromise
CHECK_DEADLOCK FALSE
