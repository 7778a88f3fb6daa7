SPECIFICATION Spec
CONSTANTS
  k1 = k1
  k2 = k2
  v = v
  none = none
  w = w
  t = t
  c1 = c1
  c2 = c2
  Keys = {k1, k2}
  Values = {v, w, none}
  EmptyValue = none
  TtlValues = {}
  Clients = {c1, c2}
  MaxRecs = 3
  MaxRev = 1
SYMMETRY Symmetry
INVARIANTS TypeOK ReadsAreCurrent CompactionKeepsLive GarbageAccounting
 
CHECK_DEADLOCK FALSE
