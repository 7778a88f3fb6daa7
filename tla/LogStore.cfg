SPECIFICATION LogSpec
CONSTANTS
  Entries = {a, b}
  MaxIndex = 5
INVARIANTS NoHoles
PROPERTY ImplementsLog
