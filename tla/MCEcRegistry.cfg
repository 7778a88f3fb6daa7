SPECIFICATION Spec
CONSTANTS
  Nodes = {n1, n2}
  Vids = {1}
  ShardIds <- TwoShards
  Reports <- OneReports
  MaxMessages = 5
INVARIANTS OncePerNode OnlyReported
PROPERTY KeepsOthers
\* Behaviours end when the bound on the messages is reached.
CHECK_DEADLOCK FALSE
