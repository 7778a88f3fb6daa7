SPECIFICATION Spec
CONSTANTS
  s1 = s1  s2 = s2
  Servers = {s1, s2}
  Owner = s1
  Vids = {1, 2}
  DataShards = 2
  ParityShards = 1
  Needle <- Needles
  DirEndsWithSlash = TRUE
  Settings <- OneOrTwo
  
PROPERTY LoadsAll
\* Behaviours end when the bound on the steps is reached.
CHECK_DEADLOCK FALSE
