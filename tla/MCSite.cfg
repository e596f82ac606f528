SPECIFICATION SiteSpec
CHECK_DEADLOCK FALSE
SYMMETRY Symmetry
CONSTANTS
  a1 = a1
  a2 = a2
  b1 = b1
  b2 = b2
  None = None
  \* Reading
  Requests = {q1}
  Replies = {b1, b2}
  Members = {m1}
  Guest = guest
  MaxWrites = 3
  \* Push
  Accounts = {a1, a2}
  Jobs = {b1, b2}
  Sends = {s1}
  MaxEndpoints = 2
  MaxLosses = 1
  \* AdminDesk
  Asked = {q1}
  Answered = {}
  Filters = {"all"}
  Clicks = {b1, b2}
  \* Settings
  Editors = {t1}
  Renames = {b1, b2}
  Cooldowns = {1, 2}
  Limits = {x}
  MaxTime = 2
  \* Browsing
  Visitors = {a1, a2}
  Calls = {b1, b2}
  \* AdminForms
  Emails = {a1, a2}
  Submissions = {b1, b2}
INVARIANTS
  SiteTypeOK
  HiddenIsNotServed
  NamedByChoice
  TakenBackIsGone
  SilentAfterLogout
  ListCoversAnswers
  RecordsAreOwn
  ResultIsOfThisForm
PROPERTIES
  CooldownKept
  EditsSurvive
