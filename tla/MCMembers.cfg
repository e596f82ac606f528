SPECIFICATION MembersSpec
CHECK_DEADLOCK FALSE
SYMMETRY Symmetry
CONSTANTS
  ana = ana
  bob = bob
  e1 = e1
  b1 = b1
  b2 = b2
  d1 = d1
  p1 = p1
  l1 = l1
  l2 = l2
  l3 = l3
  l4 = l4
  w1 = w1
  w2 = w2
  None = None
  \* SignIn
  People = {ana, bob}
  Emails = {e1}
  Socials = {s1}
  Owner <- MCOwner
  EmailOf <- MCEmailOf
  Calls = {b1, b2}
  MaxLinks = 1
  MaxFlows = 2
  MaxFailures = 1
  \* Retention
  Posts = {q1}
  Answers = {p1}
  RetentionDays = 1
  MaxTime = 6
  MaxRemovals = 3
  \* Saving
  Answered = {p1}
  Sheets = {d1, d2}
  SheetOf <- MCSheetOf
  Gestures = {b1, b2}
  \* Composing
  Sendings = {b1, b2, x3}
  MaxEditions = 2
  \* ReplyTone
  Drafts = {x1}
  Lines = {l1, l2, l3, l4}
  Trimmed <- MCTrimmed
  Blank = blank
  MaxLines = 4
INVARIANTS
  MembersTypeOK
  OnlyOwnersEnter
  ConsentBeforeAccount
  SuggestionsGoWithText
  GoneInTime
  AnsweredIsShown
  PostedOnce
  VerdictHasGround
