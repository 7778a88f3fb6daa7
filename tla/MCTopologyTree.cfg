SPECIFICATION Spec
CONSTANTS
  n1 = n1  n2 = n2  s1 = s1  s2 = s2
  Nodes = {n1, n2}
  Streams = {s1, s2}
  MaxSlots = 3
  Settings <- AllSettings
INVARIANTS TreeSums CountsMatch NeverNegative MaxIdCovers
\* All streams may have ended.
CHECK_DEADLOCK FALSE
