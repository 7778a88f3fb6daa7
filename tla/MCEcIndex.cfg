SPECIFICATION Spec
CONSTANTS
  Ids <- ThreeIds
  Base = 10
  MaxEntries = 3
  MaxDeletes = 3
  Deleters = {1, 2}
  Settings <- OneOrTwo
INVARIANTS FindsBelow 
\* Once the .dat and .idx files are back there is nothing left to do.
CHECK_DEADLOCK FALSE
