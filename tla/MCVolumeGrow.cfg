SPECIFICATION Spec
CONSTANTS
  d1 = d1  d2 = d2  r1 = r1  r2 = r2  r3 = r3  n1 = n1  n2 = n2  n3 = n3  n4 = n4
  a1 = a1  a2 = a2  anywhere = anywhere
  DataCenters = {d1, d2}
  Racks = {r1, r2, r3}
  Nodes = {n1, n2, n3, n4}
  DcOf <- Tree
  RackOf <- Servers
  AnyDc = anywhere
  Assigns = {a1, a2}
  MaxVid = 4
  Settings <- AllSettings
INVARIANTS Placed  
PROPERTIES FreshId AssignEnds
\* The assigns end, and a growth stops at the bound on volume ids.
CHECK_DEADLOCK FALSE
