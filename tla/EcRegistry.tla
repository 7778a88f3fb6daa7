------------------------------ MODULE EcRegistry ------------------------------
(***************************************************************************)
(* Where the master believes the shards of erasure coded volumes to be:    *)
(* the shards of each data node, and the locations of each volume, kept    *)
(* from the heartbeats of the volume servers.                              *)
(*                                                                         *)
(* ShardBits is a set of shard ids in memory that its clones share, and    *)
(* shard_id_count() counts it by taking its elements out: what has been    *)
(* counted is empty afterwards, for everyone who holds a clone.  A report  *)
(* of a volume is a record of its id and that set.                         *)
(***************************************************************************)
EXTENDS Lists

CONSTANTS Nodes, Vids, ShardIds,
          Reports,      \* what a node may report: functions from Vids to sets of ids
          MaxMessages   \* bound on the messages handled

ASSUME RegistryAssumption ==
  /\ IsFiniteSet(Vids)
  /\ Reports \subseteq [Vids -> SUBSET ShardIds] /\ MaxMessages \in Nat

VARIABLES known,      \* node -> volumes in ec_shards of its data node
          bits,       \* node -> volume -> shard_bits there
          shardCount, \* node -> ec_shard_count
          listed,     \* volumes in ec_shards of the topology
          locations,  \* volume -> shard -> nodes
          news, olds, \* per stream: volumes it still has to register and to unregister
          seen,       \* per stream: the volume was not listed when it looked
          stuck,      \* streams that wait for a lock they hold
          messages,
          reported    \* history: shards a node has ever reported

node == <<known, bits, shardCount>>
history == <<messages, reported>>
vars == <<node, listed, locations, news, olds, seen, stuck, history>>

None == [v \in Vids |-> {}]
Info(v, b) == [vid |-> v, bits |-> b]
Counted(v) == Info(v, {})
Idle(n) == n \notin stuck /\ news[n] = <<>> /\ olds[n] = <<>>

Init ==
  /\ known = [n \in Nodes |-> {}] /\ bits = [n \in Nodes |-> None]
  /\ shardCount = [n \in Nodes |-> 0]
  /\ listed = {} /\ locations = [v \in Vids |-> [i \in ShardIds |-> <<>>]]
  /\ news = [n \in Nodes |-> <<>>] /\ olds = [n \in Nodes |-> <<>>]
  /\ seen = [n \in Nodes |-> FALSE] /\ stuck = {} /\ messages = 0
  /\ reported = [n \in Nodes |-> None]

Message(n, r) ==
  /\ Idle(n) /\ messages < MaxMessages /\ messages' = messages + 1
  /\ reported' = [reported EXCEPT ![n] = [v \in Vids |-> @[v] \cup r[v]]]

-----------------------------------------------------------------------------
(* Heartbeats *)

\* add_or_update_ec_shards: the old set is counted, and so empty, when the new one is
\* added to it; the difference of the counts wraps (a build without overflow checks).
AddOrUpdate(n, v, i) ==
  /\ known' = [known EXCEPT ![n] = @ \cup {v}]
  /\ bits' = [bits EXCEPT ![n][v] = {}]
  /\ shardCount' = [shardCount EXCEPT ![n] = @ + 1 - Cardinality(bits[n][v])]

\* incremental_sync_data_node_ec_shards with a new shard
NewShard(n, v, i) ==
  /\ Message(n, [None EXCEPT ![v] = {i}]) /\ AddOrUpdate(n, v, i)
  /\ news' = [news EXCEPT ![n] = <<Info(v, IF v \in known[n] THEN {i} ELSE {})>>]
  /\ UNCHANGED <<listed, locations, olds, seen, stuck>>

\* delete_ec_shard: for a volume of the node the set is empty after it has been counted,
\* and the volume is removed while its entry is locked.
DeleteEcShard(n, v) ==
  IF v \in known[n] THEN stuck' = stuck \cup {n} /\ bits' = [bits EXCEPT ![n][v] = {}]
  ELSE UNCHANGED <<stuck, bits>>

\* ... with a deleted shard
DeletedShard(n, v, i) ==
  /\ Message(n, None) /\ DeleteEcShard(n, v)
  /\ olds' = [olds EXCEPT ![n] = <<Info(v, {i})>>]
  /\ UNCHANGED <<known, shardCount, listed, locations, news, seen>>

\* update_ec_shards: volumes that are new, and that are gone.  The volumes of the
\* node are pushed once for the difference and once because the node has them.
NewOf(n, r) ==
  LET had == {v \in known[n] : r[v] # {}} IN
  SetToSeq({Counted(v) : v \in {w \in had : r[w] \ bits[n][w] # {}}})
    \o SetToSeq({Counted(v) : v \in had})
OldOf(n, r) == SetToSeq({Counted(v) : v \in {w \in known[n] : bits[n][w] \ r[w] # {} \/ r[w] = {}}})

\* ... and, if there are any, the node has what was reported.
UpdateEcShards(n, r) ==
  LET reporting == {v \in Vids : r[v] # {}}
      added == MapThenSumSet(LAMBDA v : Cardinality(r[v]), reporting \cap known[n])
      gone == MapThenSumSet(LAMBDA v : Cardinality(bits[n][v]), known[n] \ reporting) IN
  IF NewOf(n, r) = <<>> /\ OldOf(n, r) = <<>> THEN UNCHANGED node
  ELSE /\ known' = [known EXCEPT ![n] = reporting]
       /\ bits' = [bits EXCEPT ![n] = [v \in Vids |-> IF v \in known[n] THEN {} ELSE r[v]]]
       /\ shardCount' = [shardCount EXCEPT ![n] = @ + added - gone]

\* sync_data_node_ec_shards: a full report.
FullReport(n, r) ==
  /\ Message(n, r) /\ UpdateEcShards(n, r)
  /\ news' = [news EXCEPT ![n] = NewOf(n, r)]
  /\ olds' = [olds EXCEPT ![n] = OldOf(n, r)]
  /\ UNCHANGED <<listed, locations, seen, stuck>>

\* The stream ends and the server connects again: it gets a new data node, and the
\* locations of its shards stay (unregister_data_node).
Reconnect(n) ==
  /\ Message(n, None)
  /\ known' = [known EXCEPT ![n] = {}] /\ bits' = [bits EXCEPT ![n] = None]
  /\ shardCount' = [shardCount EXCEPT ![n] = 0]
  /\ UNCHANGED <<listed, locations, news, olds, seen, stuck>>

-----------------------------------------------------------------------------
(* Locations *)

\* Variant: the node is not looked for first.
AddAlways(list, n) == Append(list, n)
\* EcShardLocations::add_ec_shard
Add(list, n) == IF \E k \in DOMAIN list : list[k] = n THEN list ELSE Append(list, n)

\* Variant: shard ids start at 1.
ShardIdsFrom1(info) == {i \in ShardIds : (i - 1) \in info.bits}
\* ShardBits::shard_ids
ShardIdsOf(info) == info.bits

With(v, n, info) == [i \in ShardIds |-> IF i \in ShardIdsOf(info) THEN Add(locations[v][i], n)
                                        ELSE locations[v][i]]

Pop(todo, n) == [todo EXCEPT ![n] = Tail(@)]

\* register_ec_shards: the locations of the volume are locked and extended; if there are
\* none they are made, and put into the map afterwards.
RegisterListed(n) ==
  LET info == Head(news[n]) IN
  /\ n \notin stuck /\ news[n] # <<>> /\ ~seen[n] /\ info.vid \in listed
  /\ locations' = [locations EXCEPT ![info.vid] = With(info.vid, n, info)]
  /\ news' = Pop(news, n)
  /\ UNCHANGED <<node, listed, olds, seen, stuck, history>>

Listed(v) == listed \cup {v}

SeesNone(n) ==
  /\ n \notin stuck /\ news[n] # <<>> /\ ~seen[n] /\ Head(news[n]).vid \notin listed
  /\ seen' = [seen EXCEPT ![n] = TRUE]
  /\ UNCHANGED <<node, listed, locations, news, olds, stuck, history>>

RegisterNew(n) ==
  LET info == Head(news[n]) IN
  /\ n \notin stuck /\ seen[n]
  /\ locations' = [locations EXCEPT ![info.vid] =
                     [i \in ShardIds |-> IF i \in ShardIdsOf(info) THEN <<n>> ELSE <<>>]]
  /\ listed' = Listed(info.vid)
  /\ seen' = [seen EXCEPT ![n] = FALSE] /\ news' = Pop(news, n)
  /\ UNCHANGED <<node, olds, stuck, history>>

\* Variant: the first entry, whoever's it is.
WithoutFirst(list, n) == IF list = <<>> THEN list ELSE Tail(list)
\* EcShardLocations::delete_ec_shard: the first entry of the node.
Without(list, n) ==
  IF \E k \in DOMAIN list : list[k] = n
  THEN RemoveAt(list, CHOOSE k \in DOMAIN list : list[k] = n /\ \A j \in 1..(k - 1) : list[j] # n)
  ELSE list

\* unregister_ec_shards, after the new ones
Unregister(n) ==
  LET info == Head(olds[n]) IN
  /\ n \notin stuck /\ news[n] = <<>> /\ olds[n] # <<>>
  /\ locations' = [locations EXCEPT ![info.vid] =
       [i \in ShardIds |-> IF i \in ShardIdsOf(info) /\ info.vid \in listed
                           THEN Without(locations[info.vid][i], n) ELSE locations[info.vid][i]]]
  /\ olds' = Pop(olds, n)
  /\ UNCHANGED <<node, listed, news, seen, stuck, history>>

\* lookup_ec_volume: the nodes of every shard, if the volume is found
Lookup(v, i) == IF v \in listed THEN locations[v][i] ELSE <<>>

Next ==
  \E n \in Nodes :
    \/ \E v \in Vids, i \in ShardIds : NewShard(n, v, i) \/ DeletedShard(n, v, i)
    \/ \E r \in Reports : FullReport(n, r)
    \/ Reconnect(n) \/ RegisterListed(n) \/ SeesNone(n) \/ RegisterNew(n) \/ Unregister(n)

Spec == Init /\ [][Next]_vars

-----------------------------------------------------------------------------
(* Properties *)

\* A node is listed at most once for a shard, whatever it reports, how often it
\* reconnects and what other nodes report meanwhile (add_ec_shard, delete_ec_shard): a
\* shard is not counted as having more copies than there are.
OncePerNode ==
  \A v \in Vids, i \in ShardIds : IsInjective(Lookup(v, i))

\* Only nodes that have reported a shard are listed for it.
OnlyReported ==
  \A v \in Vids, i \in ShardIds : \A k \in DOMAIN Lookup(v, i) : i \in reported[Lookup(v, i)[k]][v]

Has(v, i, n) == Contains(locations[v][i], n)
Overtaken == \E m \in Nodes : seen[m] /\ Head(news[m]).vid \in listed

\* What one node has registered is not lost by the report of another
\* (register_ec_shards, unregister_ec_shards): every step changes the entries of the node
\* it handles only, unless a stream that saw no locations of a volume comes to insert its
\* own after another has done so.
KeepsOthers ==
  [][\A n \in Nodes : ~Overtaken /\ <<news[n], olds[n]>> = <<news[n], olds[n]>>'
       => \A v \in Vids, i \in ShardIds : Has(v, i, n) => Has(v, i, n)']_vars
=============================================================================
