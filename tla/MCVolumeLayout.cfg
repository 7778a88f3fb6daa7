SPECIFICATION Spec
CONSTANTS
  v1 = v1  v2 = v2  n1 = n1  n2 = n2  ok = ok  ro = ro  big = big
  Vids = {v1, v2}
  Nodes = {n1, n2}
  Infos = {ok, ro, big}
  ReadonlyInfos = {ro}
  OversizeInfos = {big}
  ShortInfo = ok
  CopyCount = 2
  Shards = {v1, v2}
  Shard <- OwnShard
  Others = {"grow", "vacuum", "pick", "pickDc"}
  Settings <- OneOrMore
SYMMETRY Symmetry
INVARIANTS WritableSound NoPanic LocationsDistinct LocationsMatchReports EntryStays NeverStuck
\* A vacuum that commits holds its entry for ever.
CHECK_DEADLOCK FALSE
