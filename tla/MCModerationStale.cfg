SPECIFICATION Spec
CONSTANTS
  Targets = {t1}
  Users = {u1, u2, u3}
  Calls = {c1, c2}
  Reviews = {v1}
  Threshold = 2
  MaxRestores = 1
  None = None
SYMMETRY Sym
PROPERTIES OldReportsDoNotCountAgain
