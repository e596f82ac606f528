SPECIFICATION AnswersSpec
CHECK_DEADLOCK FALSE
SYMMETRY Symmetry
CONSTANTS
  None = None
  \* Answering
  Members = {m1}
  Guests = {g1}
  Calls = {c1, c2}
  QueueReplyCap = 1
  GuestReplyLimit = 1
  MaxRequests = 2
  MaxReplies = 3
  MaxEvents = 1
  \* AnswerScreen
  Candidates = {r1, r2}
  Acts = {c1, c2}
  MaxTexts = 2
  MaxCalls = 2
  MaxTroubles = 1
INVARIANTS
  AnswersTypeOK
  OncePerViewer
  GuestBudget
  HeldIsListed
PROPERTIES
  ExcludedForever
  CapIgnoredOnlyWhenAllFull
  DraftIsStored
