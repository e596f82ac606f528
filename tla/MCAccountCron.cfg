SPECIFICATION FairSpec
CONSTANTS
  Users = {u1}
  Tokens = {s1}
  Calls = {c1}
  Entries = {"withdraw", "restore", "rename", "subscribe", "link",
             "login", "oauth", "issue", "reset"}
  Sweep = Sweep
  MaxFailures = 0
  None = None
PROPERTY RestoredIsKept
