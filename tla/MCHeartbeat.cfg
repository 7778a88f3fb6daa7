SPECIFICATION Spec
CONSTANTS
  m1 = m1
  m2 = m2
  NoMaster = NoMaster
  Masters = {m1, m2}
  Vids = {1, 2}
  MaxQueue = 2
  Settings <- AllSettings
INVARIANTS ClientMissesNothing ClientExact
PROPERTIES LeaderLearns ClientLearns
