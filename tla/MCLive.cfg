SPECIFICATION LiveSpec
CHECK_DEADLOCK FALSE
CONSTANTS
  None = None
  \* Account
  Users = {u1, u2}
  Tokens = {s1}
  Calls = {c1}
  Entries = {"withdraw", "restore", "oauth"}
  Sweep = Sweep
  MaxFailures = 1
  \* Inbox
  Notes = {n1, n2}
  Visits = {v1, v2}
  MaxVisits = 2
  MaxCuts = 1
INVARIANTS
  LiveTypeOK
PROPERTIES
  ImplementsWithdrawal
  LapsedIsFinalised
  BadgeCatchesUp
