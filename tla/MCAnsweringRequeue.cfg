SPECIFICATION Spec
CONSTANTS
  Members = {m1}
  Guests = {g1}
  Calls = {c1, c2}
  QueueReplyCap = 1
  GuestReplyLimit = 1
  MaxRequests = 2
  MaxReplies = 3
  MaxEvents = 1
  None = None
SYMMETRY Sym
PROPERTIES ExcludedIsNotOffered
