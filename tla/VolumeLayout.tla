---------------------------- MODULE VolumeLayout ----------------------------
(***************************************************************************)
(* The master's layout of one (collection, replication, ttl): which nodes  *)
(* hold each volume (`locations`) and which volumes accept writes          *)
(* (`writable_volumes`), with the tasks that change it side by side: one   *)
(* heartbeat stream per volume server, volume growth, the vacuum loop and  *)
(* assign requests.                                                        *)
(*                                                                         *)
(* A step of a task ends where the code gives up a lock or waits for one.  *)
(* `locations` is a DashMap: a reference to an entry locks the shard of    *)
(* its key, shared or exclusive, until it is dropped, also across .await.  *)
(* `writable_volumes` is an async RwLock that is taken anew for each test  *)
(* and each change of the list.                                            *)
(***************************************************************************)
EXTENDS LayoutTasks

-----------------------------------------------------------------------------
(* Locks *)

\* Tasks that hold a shared reference into shard s: register_volume from its get()
\* on, unregister_volume inside ensure_correct_writable, the vacuum loop while it
\* works on a volume of the shard.
SharedBy(s) ==
  {t \in Tasks :
     /\ \/ job[t].op \in {"register", "grow"} /\ pc[t] \notin {"add", "enter", "get"}
        \/ job[t].op = "unregister" /\ pc[t] \in {"contains", "push", "find", "remove"}
        \/ job[t].op = "vacuum"
     /\ Shard[job[t].vid] = s}

\* Variant: register_volume keeps the reference of entry() when it calls get().
ExclusiveByEntry(s) ==
  {t \in Tasks : /\ \/ pc[t] \in {"find", "remove"} /\ job[t].op = "unavailable"
                    \/ pc[t] = "get"
                 /\ Shard[job[t].vid] = s}

\* set_volume_unavailable keeps its exclusive reference while it updates the list.
ExclusiveBy(s) ==
  {t \in Tasks : /\ pc[t] \in {"find", "remove"} /\ job[t].op = "unavailable"
                 /\ Shard[job[t].vid] = s}

CanRead(v) == ExclusiveBy(Shard[v]) = {}
CanWrite(v) == ExclusiveBy(Shard[v]) = {} /\ SharedBy(Shard[v]) = {}

\* The loop of pick_for_write for a data center keeps a read guard of the list.
CanChangeList == \A t \in Tasks : pc[t] # "scan"

-----------------------------------------------------------------------------
(* The start *)

Init ==
  /\ setting \in Settings
  /\ writable = <<>> /\ readonly = {} /\ oversize = {}
  /\ locations = [v \in {} |-> <<>>]
  /\ volumes = [n \in Nodes |-> NoVolumes]
  /\ online = {} /\ linked = {} /\ died = {}
  /\ pc = [t \in Tasks |-> "idle"]
  /\ job = [t \in Tasks |-> NoCall]
  /\ at = [t \in Tasks |-> 0] /\ then = [t \in Tasks |-> "return"]
  /\ pending = [t \in Tasks |-> {}]

-----------------------------------------------------------------------------
(* Heartbeat streams *)

\* update_topology: the first message of a stream.  get_or_create_data_node returns
\* the node of the tree if there is one.
Connect(n) ==
  /\ n \in Nodes \ online /\ pc[n] = "idle"
  /\ online' = online \cup {n} /\ linked' = linked \cup {n}
  /\ volumes' = IF n \in linked THEN volumes ELSE [volumes EXCEPT ![n] = NoVolumes]
  /\ UNCHANGED <<setting, layoutVars, died, taskVars>>

\* Variant: deleted volumes are not unregistered.
FullHeartbeatNewOnly(n, actual) ==
  LET new == DOMAIN actual \ DOMAIN volumes[n] IN
  /\ n \in online /\ Start(n)
  /\ actual # volumes[n]
  /\ volumes' = [volumes EXCEPT ![n] = actual]
  /\ Proceed(n, {Call("register", n, v, actual[v]) : v \in new})
  /\ UNCHANGED <<layoutVars, online, linked, died>>

\* sync_data_node_registration: update_volumes replaces what is known of the node;
\* volumes it did not have are registered, volumes it lost are unregistered, and the
\* others are only updated.
FullHeartbeat(n, actual) ==
  LET new == DOMAIN actual \ DOMAIN volumes[n]
      deleted == DOMAIN volumes[n] \ DOMAIN actual IN
  /\ n \in online /\ Start(n)
  /\ actual # volumes[n]
  /\ volumes' = [volumes EXCEPT ![n] = actual]
  /\ Proceed(n, {Call("register", n, v, actual[v]) : v \in new}
                \cup {Call("unregister", n, v, volumes[n][v]) : v \in deleted})
  /\ UNCHANGED <<layoutVars, online, linked, died>>

\* incremental_sync_data_node_registration, one volume per message.
NewVolumeDelta(n, v) ==
  /\ n \in online /\ Start(n)
  /\ volumes' = [volumes EXCEPT ![n] = Put(@, v, ShortInfo)]
  /\ Proceed(n, {Call("register", n, v, ShortInfo)})
  /\ UNCHANGED <<layoutVars, online, linked, died>>

DeletedVolumeDelta(n, v) ==
  /\ n \in online /\ Start(n)
  /\ volumes' = [volumes EXCEPT ![n] = Without(@, v)]
  /\ Proceed(n, {Call("unregister", n, v, ShortInfo)})
  /\ UNCHANGED <<layoutVars, online, linked, died>>

\* The stream ends: unregister_data_node makes the volumes of the node unavailable
\* and unlinks it.
StreamEnds(n) ==
  /\ n \in online /\ Start(n)
  /\ online' = online \ {n}
  /\ Proceed(n, {Call("unavailable", n, v, ShortInfo) : v \in DOMAIN volumes[n]}
                \cup {Call("unlink", n, "none", ShortInfo)})
  /\ UNCHANGED <<layoutVars, volumes, linked, died>>

\* rack.unlink_child_node
Unlink(n) ==
  /\ pc[n] = "unlink"
  /\ linked' = linked \ {n}
  /\ Return(n)
  /\ UNCHANGED <<layoutVars, volumes, online, died>>

-----------------------------------------------------------------------------
(* The steps of register_volume, unregister_volume and set_volume_unavailable *)

\* grow(): the node answered allocate_volume, which refuses an id it knows; then
\* add_or_update_volume.
GrowAdd(t) ==
  LET n == job[t].node IN
  /\ pc[t] = "add" /\ job[t].vid \notin DOMAIN volumes[n]
  /\ volumes' = [volumes EXCEPT ![n] = Put(@, job[t].vid, ShortInfo)]
  /\ Goto(t, "enter")
  /\ UNCHANGED <<layoutVars, online, linked, died>>

\* allocate_volume failed: grow() returns and leaves the other nodes out.
GrowFails(t) ==
  /\ pc[t] = "add"
  /\ Proceed(t, {})
  /\ UNCHANGED <<layoutVars, nodeVars>>

\* Variant: set_node does not look for the node.
PushNode(locs, n) == Append(locs, n)

\* locations.entry(v.id).or_default() and set_node, then the reference is dropped.
SetNode(locs, n) == IF n \in Range(locs) THEN locs ELSE Append(locs, n)

Enter(t) ==
  LET v == job[t].vid
      locs == IF v \in DOMAIN locations THEN locations[v] ELSE <<>> IN
  /\ pc[t] = "enter" /\ CanWrite(v)
  /\ locations' = Put(locations, v, SetNode(locs, job[t].node))
  /\ Goto(t, "get")
  /\ UNCHANGED <<writable, readonly, oversize, nodeVars>>

\* locations.get(&v.id).unwrap(): the entry may have been dropped in between.
Get(t) ==
  /\ pc[t] = "get" /\ CanRead(job[t].vid)
  /\ IF job[t].vid \in DOMAIN locations
     THEN GotoAt(t, "check", 1) /\ UNCHANGED nodeVars
     ELSE Panic(t)
  /\ UNCHANGED layoutVars

\* One turn of the loop over the locations: each node is asked for the volume.
Check(t) ==
  LET v == job[t].vid
      locs == locations[v] IN
  /\ pc[t] = "check"
  /\ \/ /\ at[t] \notin DOMAIN locs
        /\ Goto(t, "size") /\ UNCHANGED readonly
     \/ /\ at[t] \in DOMAIN locs /\ v \in DOMAIN volumes[locs[at[t]]]
        /\ volumes[locs[at[t]]][v] \notin ReadonlyInfos
        /\ readonly' = readonly \ {v}
        /\ GotoAt(t, "check", at[t] + 1)
     \/ /\ at[t] \in DOMAIN locs /\ v \in DOMAIN volumes[locs[at[t]]]
        /\ volumes[locs[at[t]]][v] \in ReadonlyInfos
        /\ GotoThen(t, "find", "markReadonly") /\ UNCHANGED readonly
     \/ /\ at[t] \in DOMAIN locs /\ v \notin DOMAIN volumes[locs[at[t]]]
        /\ GotoThen(t, "find", "clearReadonly") /\ UNCHANGED readonly
  /\ UNCHANGED <<writable, oversize, locations, nodeVars>>

\* What register_volume does to readonly_volumes after it took the volume off the list.
MarkReadonly(t) ==
  /\ pc[t] \in {"markReadonly", "clearReadonly"}
  /\ readonly' = IF pc[t] = "markReadonly" THEN readonly \cup {job[t].vid}
                                           ELSE readonly \ {job[t].vid}
  /\ Return(t)
  /\ UNCHANGED <<writable, oversize, locations, nodeVars>>

\* remember_oversized_volume, from this node's report alone.
RememberOversized(t) ==
  /\ pc[t] = "size"
  /\ oversize' = IF job[t].info \in OversizeInfos THEN oversize \cup {job[t].vid}
                                                  ELSE oversize \ {job[t].vid}
  /\ Goto(t, "ensure")
  /\ UNCHANGED <<writable, readonly, locations, nodeVars>>

\* After the list is in order: unregister_volume goes on to drop empty entries.
AfterEnsure(t) == IF job[t].op = "unregister" THEN "retain" ELSE "return"

\* Variant: one copy less than the placement asks for.
AlmostEnoughCopies(v) == Len(locations[v]) + 1 >= CopyCount

EnoughCopies(v) == Len(locations[v]) >= CopyCount

\* ensure_correct_writable up to the change of the list.
EnsureCorrectWritable(t) ==
  LET v == job[t].vid
      accepts == job[t].info \notin OversizeInfos \cup ReadonlyInfos IN
  /\ pc[t] = "ensure" /\ CanRead(v)
  /\ \/ v \notin DOMAIN locations /\ Resume(t, AfterEnsure(t))
     \/ /\ v \in DOMAIN locations
        /\ EnoughCopies(v) /\ accepts /\ v \notin oversize
        /\ GotoThen(t, "contains", AfterEnsure(t))
     \/ /\ v \in DOMAIN locations
        /\ EnoughCopies(v) /\ accepts /\ v \in oversize
        /\ Resume(t, AfterEnsure(t))
     \/ /\ v \in DOMAIN locations
        /\ ~(EnoughCopies(v) /\ accepts)
        /\ GotoThen(t, "find", AfterEnsure(t))
  /\ UNCHANGED <<layoutVars, nodeVars>>

\* set_volume_writable: the test and the push each take the lock of the list.
TestListed(t) ==
  /\ pc[t] = "contains"
  /\ IF job[t].vid \in Range(writable) THEN Resume(t, then[t]) ELSE Goto(t, "push")
  /\ UNCHANGED <<layoutVars, nodeVars>>

Push(t) ==
  /\ pc[t] = "push" /\ CanChangeList
  /\ writable' = Append(writable, job[t].vid)
  /\ Resume(t, then[t])
  /\ UNCHANGED <<readonly, oversize, locations, nodeVars>>

\* remove_from_writable: the index is looked up under one lock of the list (the
\* last match wins) and used under another.
Find(t) ==
  LET here == {i \in DOMAIN writable : writable[i] = job[t].vid} IN
  /\ pc[t] = "find"
  /\ IF here = {} THEN Resume(t, then[t]) ELSE GotoAt(t, "remove", Max(here))
  /\ UNCHANGED <<layoutVars, nodeVars>>

RemoveFromList(t) ==
  /\ pc[t] = "remove" /\ CanChangeList
  /\ IF at[t] \in DOMAIN writable
     THEN writable' = RemoveAt(writable, at[t]) /\ Resume(t, then[t]) /\ UNCHANGED nodeVars
     ELSE Panic(t) /\ UNCHANGED writable
  /\ UNCHANGED <<readonly, oversize, locations>>

\* unregister_volume: take the node out of the entry; nothing more if it was not there.
Detach(t) ==
  LET v == job[t].vid IN
  /\ pc[t] = "detach" /\ CanWrite(v)
  /\ IF v \in DOMAIN locations /\ job[t].node \in Range(locations[v])
     THEN /\ locations' = [locations EXCEPT ![v] = RemoveFirst(@, job[t].node)]
          /\ Goto(t, "ensure")
     ELSE UNCHANGED locations /\ Return(t)
  /\ UNCHANGED <<writable, readonly, oversize, nodeVars>>

\* Variant: entries without all their copies are dropped.
RetainFull(t) ==
  LET short(s) == {v \in DOMAIN locations : Shard[v] = s /\ Len(locations[v]) < CopyCount} IN
  /\ pc[t] = "retain"
  /\ \/ /\ \A s \in Shards : short(s) = {}
        /\ Return(t) /\ UNCHANGED locations
     \/ \E s \in Shards :
          /\ short(s) # {} /\ SharedBy(s) = {} /\ ExclusiveBy(s) = {}
          /\ locations' = Restrict(locations, DOMAIN locations \ short(s))
          /\ Goto(t, "retain")
  /\ UNCHANGED <<writable, readonly, oversize, nodeVars>>

\* locations.retain: shard by shard, here the shards that hold an empty entry.
Retain(t) ==
  LET empty(s) == {v \in DOMAIN locations : Shard[v] = s /\ locations[v] = <<>>} IN
  /\ pc[t] = "retain"
  /\ \/ /\ \A s \in Shards : empty(s) = {}
        /\ Return(t) /\ UNCHANGED locations
     \/ \E s \in Shards :
          /\ empty(s) # {} /\ SharedBy(s) = {} /\ ExclusiveBy(s) = {}
          /\ locations' = Restrict(locations, DOMAIN locations \ empty(s))
          /\ Goto(t, "retain")
  /\ UNCHANGED <<writable, readonly, oversize, nodeVars>>

\* Variant: the volume stays on the list.
EvictKeepsListed(t) ==
  LET v == job[t].vid IN
  /\ pc[t] = "evict" /\ CanWrite(v)
  /\ locations' = IF v \in DOMAIN locations
                  THEN [locations EXCEPT ![v] = RemoveAll(@, job[t].node)] ELSE locations
  /\ Return(t)
  /\ UNCHANGED <<writable, readonly, oversize, nodeVars>>

\* set_volume_unavailable: the exclusive reference is kept while the list changes.
Evict(t) ==
  LET v == job[t].vid IN
  /\ pc[t] = "evict" /\ CanWrite(v)
  /\ IF v \in DOMAIN locations
     THEN /\ locations' = [locations EXCEPT ![v] = RemoveAll(@, job[t].node)]
          /\ IF Len(locations'[v]) < CopyCount THEN Goto(t, "find") ELSE Return(t)
     ELSE UNCHANGED locations /\ Return(t)
  /\ UNCHANGED <<writable, readonly, oversize, nodeVars>>

-----------------------------------------------------------------------------
(* Volume growth, the vacuum loop and assign requests *)

\* grow_by_type for an assign that found no writable volume.  next_volume_id hands
\* out an id again as long as raft has not applied the last one.
Grow(v, ns) ==
  /\ Start("grow")
  /\ writable = <<>>
  /\ ns \subseteq linked /\ Cardinality(ns) = CopyCount
  /\ Proceed("grow", {Call("grow", n, v, ShortInfo) : n \in ns})
  /\ UNCHANGED <<layoutVars, nodeVars>>

\* Topology::vacuum: one turn of the loop over `locations`, which keeps a shared
\* reference to the entry, for a volume that batch_vacuum_volume_check selected.
Vacuum(v) ==
  LET t == "vacuum" IN
  /\ Start(t)
  /\ v \in DOMAIN locations /\ CanRead(v) /\ v \notin readonly
  /\ Begin(t, "take", Call("vacuum", "none", v, ShortInfo), {})
  /\ UNCHANGED <<layoutVars, nodeVars>>

\* batch_vacuum_volume_compact begins with remove_from_writable.
VacuumCompact(t) ==
  /\ pc[t] = "take"
  /\ GotoThen(t, "find", "compact")
  /\ UNCHANGED <<layoutVars, nodeVars>>

\* The compact and commit calls.  A failure of the last compact, or of any commit,
\* ends the turn.
VacuumFails(t) ==
  /\ pc[t] = "compact" /\ locations[job[t].vid] # <<>>
  /\ Return(t)
  /\ UNCHANGED <<layoutVars, nodeVars>>

\* All succeeded: set_volume_available for each node of the entry.  It asks for an
\* exclusive reference to the entry that Topology::vacuum still holds, so the task
\* waits for itself and takes no further step.
VacuumCommitted(t) ==
  /\ pc[t] = "compact"
  /\ IF locations[job[t].vid] = <<>> THEN Return(t) ELSE Goto(t, "available")
  /\ UNCHANGED <<layoutVars, nodeVars>>

\* pick_for_write with no data center: four acquisitions, one after the other.
Pick ==
  LET t == "pick" IN
  /\ Start(t)
  /\ writable # <<>>
  /\ Begin(t, "pickLen", Call("pick", "none", "none", ShortInfo), {})
  /\ UNCHANGED <<layoutVars, nodeVars>>

PickLen(t) ==
  /\ pc[t] = "pickLen"
  /\ GotoAt(t, "pickVid", Len(writable))
  /\ UNCHANGED <<layoutVars, nodeVars>>

\* gen_range(0..len), which panics on an empty range, and the index into the list.
PickVid(t) ==
  /\ pc[t] = "pickVid"
  /\ \/ \E i \in DOMAIN writable \cap (1 .. at[t]) :
          /\ Begin(t, "pickNode", Call("pick", "none", writable[i], ShortInfo), {})
          /\ UNCHANGED nodeVars
     \/ at[t] = 0 /\ Panic(t)
     \/ at[t] > Len(writable) /\ Panic(t)
  /\ UNCHANGED layoutVars

\* The entry of the volume, and `nodes[0]` of it in Topology::pick_for_write.
PickNode(t) ==
  LET v == job[t].vid IN
  /\ pc[t] = "pickNode" /\ CanRead(v)
  /\ IF v \in DOMAIN locations /\ locations[v] = <<>>
     THEN Panic(t)
     ELSE Return(t) /\ UNCHANGED nodeVars
  /\ UNCHANGED layoutVars

\* pick_for_write for a data center: the guard of the list lives as long as the loop.
PickDc ==
  LET t == "pickDc" IN
  /\ Start(t)
  /\ writable # <<>>
  /\ Begin(t, "scan", Call("pickDc", "none", "none", ShortInfo), {})
  /\ UNCHANGED <<layoutVars, nodeVars>>

PickScan(t) ==
  /\ pc[t] = "scan"
  /\ \/ at[t] = Len(writable) /\ Return(t)
     \/ /\ at[t] < Len(writable) /\ CanRead(writable[at[t] + 1])
        /\ GotoAt(t, "scan", at[t] + 1)
  /\ UNCHANGED <<layoutVars, nodeVars>>

-----------------------------------------------------------------------------

\* Any step of a task inside a call.
Step(t) ==
  \/ GrowAdd(t) \/ GrowFails(t) \/ Enter(t) \/ Get(t) \/ Check(t) \/ MarkReadonly(t)
  \/ RememberOversized(t) \/ EnsureCorrectWritable(t) \/ TestListed(t) \/ Push(t)
  \/ Find(t) \/ RemoveFromList(t) \/ Detach(t) \/ Retain(t) \/ Evict(t) \/ Unlink(t)
  \/ VacuumCompact(t) \/ VacuumFails(t) \/ VacuumCommitted(t)
  \/ PickLen(t) \/ PickVid(t) \/ PickNode(t) \/ PickScan(t)

\* What the heartbeat of a node can report.
Reports == UNION {[vs -> setting.infos] : vs \in SUBSET setting.vids}

Calls ==
  \/ \E n \in Nodes :
       \/ Connect(n) \/ StreamEnds(n)
       \/ \E actual \in Reports : FullHeartbeat(n, actual)
       \/ \E v \in setting.vids : NewVolumeDelta(n, v) \/ DeletedVolumeDelta(n, v)
  \/ \E v \in setting.vids : Vacuum(v) \/ \E ns \in SUBSET Nodes : Grow(v, ns)
  \/ Pick \/ PickDc

Next == Calls \/ \E t \in Tasks : Step(t)

Spec == Init /\ [][Next]_vars

-----------------------------------------------------------------------------
(* Properties *)

\* As long as tasks do not overlap: between calls writable_volumes has no duplicate,
\* lists only volumes with a full set of replicas, and no oversized one.
WritableSound ==
  setting.active = 1 /\ Busy = {} =>
    /\ IsInjective(writable)
    /\ \A v \in Range(writable) :
         v \in DOMAIN locations /\ Len(locations[v]) >= CopyCount /\ v \notin oversize

\* As long as tasks do not overlap, none panics: neither the unwrap of
\* register_volume, nor Vec::remove, nor the indexing of an assign.
NoPanic == setting.active = 1 => died = {}

\* However the tasks overlap, no replica is listed twice for a volume, or a volume
\* would reach copy_count with fewer servers than its placement asks for.
LocationsDistinct == \A v \in DOMAIN locations : IsInjective(locations[v])

\* However heartbeat streams, assigns and the vacuum loop overlap, growth coming on its
\* own: once a stream has worked off its message, the layout lists its node for exactly
\* the volumes that it reported last or that were grown on it (register_volume,
\* unregister_volume), and for none when the stream has ended (set_volume_unavailable).
LocationsMatchReports ==
  GrowsAlone => \A n \in Nodes :
    pc[n] = "idle" /\ n \notin died /\ (\A t \in Tasks : job[t].op # "grow") =>
    {v \in DOMAIN locations : n \in Range(locations[v])} =
      IF n \in online THEN DOMAIN volumes[n] ELSE {}

\* Under the same overlaps register_volume finds the entry that it made (the unwrap of
\* locations.get): unregistering drops only empty entries.
EntryStays == GrowsAlone => \A t \in Tasks : pc[t] = "get" => job[t].vid \in DOMAIN locations

\* However heartbeat streams and assigns without a data center overlap: if some task
\* is inside the layout, some task inside can take a step.
NeverStuck ==
  setting.others \subseteq {"pick"} /\ Active # {} => \E t \in Active : ENABLED Step(t)

=============================================================================
