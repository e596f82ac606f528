SPECIFICATION OwnSpec
SYMMETRY Sym
CONSTANTS
  None = None
  \* Account
  Users = {u1}
  Tokens = {s1}
  Calls = {c1, c2}
  Entries = {"withdraw", "restore", "rename", "subscribe", "link",
             "login", "oauth", "issue", "reset"}
  Sweep = Sweep
  MaxFailures = 1
  \* Records
  Words = {y1}
  Ranges = {k1}
  MaxPage = 2
  MaxPending = 2
INVARIANTS
  OwnTypeOK
  PageIsOfThisSearch
PROPERTIES
  GraceLosesNothing
  ClosedForEver
  SweepHonoursGrace
