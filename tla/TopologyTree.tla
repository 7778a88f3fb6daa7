---------------------------- MODULE TopologyTree ----------------------------
(***************************************************************************)
(* The master's tree: topology, data centers, racks, data nodes.  Every    *)
(* node of the tree carries counters that are meant to be the sums of the  *)
(* counters below it; heartbeat streams change them side by side.          *)
(*                                                                         *)
(* A node is an object on the heap: two objects may have the same id, and  *)
(* what a stream changes depends on the objects it holds.  What a stream   *)
(* still has to do is a sequence of calls, `todo`; a step executes the     *)
(* first of them up to the next point where another task can be seen.      *)
(* The layout, which the same handlers change, is the subject of           *)
(* VolumeLayout; the ec_shard_count is kept like the other counters.       *)
(***************************************************************************)
EXTENDS Integers, FiniteSets, FiniteSetsExt, SequencesExt

CONSTANTS Nodes,        \* addresses of volume servers
          Streams,      \* heartbeat streams, each opened once
          MaxSlots,     \* max_volume_count of a volume server
          Settings      \* what may go on in a behaviour:
                        \* .nodeOf    the volume server that opens each stream
                        \* .vids      volume ids, positive numbers
                        \* .readOnly  what a full heartbeat may say of read_only
                        \* .beats     bound: heartbeats of a stream after the first
                        \* .overlap   may a server open a stream before its last has ended
                        \* .together  bound: streams inside a handler at the same time

ASSUME TreeAssumption ==
  /\ MaxSlots \in Nat \ {0}
  /\ \A x \in Settings :
       /\ x.nodeOf \in [Streams -> Nodes] /\ x.vids \subseteq Nat \ {0}
       /\ x.readOnly \subseteq BOOLEAN /\ x.overlap \in BOOLEAN
       /\ x.beats \in Nat /\ x.together \in Nat

VARIABLES setting, \* the setting of this behaviour
          heap,    \* the objects; a reference is an index, 0 is None
          volumes, \* DataNode::volumes of each object: volume id -> read_only
          pc,      \* new, open or ended, for each stream
          at,      \* the object a stream's handler has got to
          dn,      \* data_node_opt of each stream, 0 for None
          todo,    \* what the handler of each stream still has to do
          beats    \* heartbeats that may still come on each stream

vars == <<setting, heap, volumes, pc, at, dn, todo, beats>>

Counters == {"volume", "active", "max"}
Default == "default"               \* get_or_default("")
Raw == ""                          \* what volume servers send as data_center and rack
None == 0
Root == 1

\* NodeImpl::new
NodeImpl(id, max) ==
  [id |-> id, volume |-> 0, active |-> 0, max |-> max, maxId |-> 0,
   parent |-> None, children |-> [x \in {} |-> None]]

NoVolumes == [v \in {} |-> FALSE]
Put(f, k, x) == [j \in DOMAIN f \cup {k} |-> IF j = k THEN x ELSE f[j]]
Without(f, k) == [j \in DOMAIN f \ {k} |-> f[j]]
IsDataNode(o) == heap[o].id \in Nodes
Busy(s) == todo[s] # <<>>
Room == Cardinality({s \in Streams : Busy(s)}) < setting.together

-----------------------------------------------------------------------------
(* Calls *)

\* node.adjust_*_count(d): the node first, then its ancestors.
Adjust(f, o, d) == [op |-> "adjust", f |-> f, o |-> o, d |-> d]
\* ... on the way up, with the guards of the parent locks taken so far.
Climb(f, o, d, held) == [op |-> "climb", f |-> f, o |-> o, d |-> d, held |-> held]
\* node.adjust_*_count(sign * child.*_count())
AdjustBy(f, o, c, sign) == [op |-> "adjustBy", f |-> f, o |-> o, c |-> c, d |-> sign]
\* node.adjust_max_volume_id(v), before and after its test.
RaiseId(o, v) == [op |-> "raiseId", o |-> o, d |-> v]
StoreId(o, v) == [op |-> "storeId", o |-> o, d |-> v]
RaiseIdTo(o, c) == [op |-> "raiseIdTo", o |-> o, c |-> c]
SetParent(c, p) == [op |-> "setParent", o |-> c, p |-> p]
Insert(p, c) == [op |-> "insert", o |-> p, c |-> c]
Link(p, c) == [op |-> "link", o |-> p, c |-> c]
LinkHere(c) == [op |-> "linkHere", c |-> c]
Unlink(p, id) == [op |-> "unlink", o |-> p, id |-> id]
UnlinkSelf(o) == [op |-> "unlinkSelf", o |-> o]
\* get_or_create_*(id) below the object the handler has got to.
Get(id, max, adopt) == [op |-> "get", id |-> id, max |-> max, adopt |-> adopt]
AddVolume(o, v, ro) == [op |-> "addVolume", o |-> o, v |-> v, ro |-> ro]
PutVolume(o, v, ro) == [op |-> "putVolume", o |-> o, v |-> v, ro |-> ro]
\* Removal of v.  Whether it was read_only is looked up in the removed information
\* by update_volumes, in the short form sent with the message (never so) otherwise.
DropVolume(o, v, stored) == [op |-> "dropVolume", o |-> o, v |-> v, stored |-> stored]

\* Calls that cannot change anything are left out: nobody but stream s has object
\* c, so a counter of c that is 0 stays 0.
Effective(s, c, calls) ==
  IF \E t \in Streams \ {s} : dn[t] = c THEN calls
  ELSE SelectSeq(calls, LAMBDA x : x.op = "adjustBy" => heap[c][x.f] # 0)

\* link_child_node: what follows once the id is not among the children.
LinkCalls(p, c) ==
  << AdjustBy("max", p, c, 1), RaiseIdTo(p, c), AdjustBy("volume", p, c, 1),
     AdjustBy("active", p, c, 1), SetParent(c, p), Insert(p, c) >>

\* unlink_child_node: what follows once the child has been removed.
UnlinkCalls(p, c) ==
  << SetParent(c, None), AdjustBy("max", p, c, -1), AdjustBy("volume", p, c, -1),
     AdjustBy("active", p, c, -1) >>

\* update_topology
UpdateTopology(s) ==
  << Get(Default, 0, TRUE), Get(Default, 0, TRUE), Get(setting.nodeOf[s], MaxSlots, TRUE) >>

\* register_data_node: only a node without a parent is linked again.
RegisterDataNode(o) ==
  IF heap[o].parent # None THEN <<>>
  ELSE << Get(Raw, 0, FALSE), Get(Raw, 0, FALSE), LinkHere(o) >>

\* unregister_data_node
UnregisterDataNode(o) ==
  << AdjustBy("volume", o, o, -1), AdjustBy("active", o, o, -1),
     AdjustBy("max", o, o, -1), UnlinkSelf(o) >>

\* update_volumes: additions and updates first, then the volumes not reported.
UpdateVolumes(o, report, order) ==
  LET gone == SetToSeq(DOMAIN volumes[o] \ DOMAIN report)
  IN [i \in 1..Len(order) |-> AddVolume(o, order[i], report[order[i]])]
       \o [i \in 1..Len(gone) |-> DropVolume(o, gone[i], TRUE)]

\* Variant: a removed volume is not counted down.
AfterDropUncounted(o, ro) == << Adjust("active", o, -1) >>

\* The counters that follow the removal of a volume.
AfterDrop(o, ro) ==
  << Adjust("volume", o, -1) >> \o (IF ro THEN <<>> ELSE << Adjust("active", o, -1) >>)

\* Variant: a volume that the node does not have is counted down, too.
DropCallsUnchecked(o, v, stored) == AfterDrop(o, FALSE)

\* The removal of a volume counts if the node had it.
DropCalls(o, v, stored) ==
  IF v \in DOMAIN volumes[o] THEN AfterDrop(o, stored /\ volumes[o][v]) ELSE <<>>

\* Variant: the largest volume id is not raised.
NewVolumeNoId(o, v, ro) == << Adjust("volume", o, 1), PutVolume(o, v, ro) >>

\* add_or_update_volume of a volume that the node does not have.
NewVolume(o, v, ro) ==
  << Adjust("volume", o, 1) >> \o (IF ro THEN <<>> ELSE << Adjust("active", o, 1) >>)
    \o << RaiseId(o, v), PutVolume(o, v, ro) >>

-----------------------------------------------------------------------------
(* Steps *)

Init ==
  /\ setting \in Settings
  /\ heap = << NodeImpl("topo", 0) >>
  /\ volumes = << NoVolumes >>
  /\ pc = [s \in Streams |-> "new"]
  /\ at = [s \in Streams |-> None]
  /\ dn = [s \in Streams |-> None]
  /\ todo = [s \in Streams |-> <<>>]
  /\ beats = [s \in Streams |-> setting.beats]

\* The first message on a stream.
Open(s) ==
  /\ pc[s] = "new" /\ Room
  /\ \/ setting.overlap
     \/ \A t \in Streams \ {s} :
          setting.nodeOf[t] = setting.nodeOf[s] => pc[t] # "open" /\ ~Busy(t)
  /\ pc' = [pc EXCEPT ![s] = "open"]
  /\ at' = [at EXCEPT ![s] = Root]
  /\ todo' = [todo EXCEPT ![s] = UpdateTopology(s)]
  /\ UNCHANGED <<setting, heap, volumes, dn, beats>>

Ready(s) == pc[s] = "open" /\ dn[s] # None /\ ~Busy(s)

\* update_volume_layout for a full heartbeat: relink the node if it has been
\* unlinked, then take over its volumes.
FullHeartbeat(s, report) ==
  /\ Ready(s) /\ Room /\ beats[s] > 0
  /\ beats' = [beats EXCEPT ![s] = @ - 1]
  /\ \E order \in SetToSeqs(DOMAIN report) :
       todo' = [todo EXCEPT ![s] = RegisterDataNode(dn[s]) \o UpdateVolumes(dn[s], report, order)]
  /\ at' = [at EXCEPT ![s] = Root]
  /\ UNCHANGED <<setting, heap, volumes, pc, dn>>

\* ... for an incremental one: deletions first; the short form of a volume's
\* information says nothing of read_only.
Delta(s, v, isNew) ==
  /\ Ready(s) /\ Room /\ beats[s] > 0
  /\ beats' = [beats EXCEPT ![s] = @ - 1]
  /\ todo' = [todo EXCEPT ![s] =
                << IF isNew THEN AddVolume(dn[s], v, FALSE) ELSE DropVolume(dn[s], v, FALSE) >>]
  /\ UNCHANGED <<setting, heap, volumes, pc, at, dn>>

\* The stream ends: remove_data_node.
StreamEnds(s) ==
  /\ pc[s] = "open" /\ ~Busy(s) /\ dn[s] # None /\ Room
  /\ pc' = [pc EXCEPT ![s] = "ended"]
  /\ todo' = [todo EXCEPT ![s] = UnregisterDataNode(dn[s])]
  /\ UNCHANGED <<setting, heap, volumes, at, dn, beats>>

\* Stream s has executed its first call and does `calls` before the others.
Then(s, calls) == todo' = [todo EXCEPT ![s] = calls \o Tail(@)]
Local == UNCHANGED <<setting, pc, beats>>

\* Variant: a count is lost on its way to the parent.
FetchAddOnce(s, f, o, d) ==
  heap' = [heap EXCEPT ![o][f] = @ + d] /\ Then(s, <<>>)

\* fetch_add on one object.  Adding 0 is left out.
FetchAdd(s, f, o, d) ==
  IF d = 0 THEN Then(s, <<>>) /\ UNCHANGED heap
  ELSE /\ heap' = [heap EXCEPT ![o][f] = @ + d]
       /\ Then(s, IF o = Root THEN <<>> ELSE << Climb(f, o, d, {o}) >>)

DoAdjust(s) ==
  LET c == Head(todo[s]) IN
  /\ \/ c.op = "adjust" /\ FetchAdd(s, c.f, c.o, c.d)
     \/ c.op = "adjustBy" /\ FetchAdd(s, c.f, c.o, c.d * heap[c.c][c.f])
  /\ UNCHANGED <<volumes, at, dn>> /\ Local

\* parent.read() and the parent's fetch_add.  The read guards of all objects on the
\* way are held until the top is reached.
DoClimb(s) ==
  LET c == Head(todo[s])
      p == heap[c.o].parent IN
  /\ c.op = "climb"
  /\ IF p = None THEN Then(s, <<>>) /\ UNCHANGED heap
     ELSE /\ heap' = [heap EXCEPT ![p][c.f] = @ + c.d]
          /\ Then(s, IF p = Root THEN <<>> ELSE << Climb(c.f, p, c.d, c.held \cup {p}) >>)
  /\ UNCHANGED <<volumes, at, dn>> /\ Local

\* adjust_max_volume_id: the test and the store are two accesses.
DoMaxId(s) ==
  LET c == Head(todo[s]) IN
  /\ \/ /\ c.op = "raiseId"
        /\ Then(s, IF heap[c.o].maxId < c.d THEN << StoreId(c.o, c.d) >> ELSE <<>>)
        /\ UNCHANGED heap
     \/ /\ c.op = "storeId"
        /\ heap' = [heap EXCEPT ![c.o].maxId = c.d]
        /\ Then(s, IF heap[c.o].parent = None THEN <<>>
                   ELSE << RaiseId(heap[c.o].parent, c.d) >>)
     \/ /\ c.op = "raiseIdTo"
        /\ Then(s, IF heap[c.o].maxId < heap[c.c].maxId
                   THEN << StoreId(c.o, heap[c.c].maxId) >> ELSE <<>>)
        /\ UNCHANGED heap
  /\ UNCHANGED <<volumes, at, dn>> /\ Local

\* Objects whose parent lock a stream other than s holds for reading.
Guarded(s) ==
  UNION {Head(todo[t]).held : t \in {u \in Streams \ {s} :
                                       Busy(u) /\ Head(todo[u]).op = "climb"}}

\* set_parent needs the parent lock of its object for itself.
DoSetParent(s) ==
  LET c == Head(todo[s]) IN
  /\ c.op = "setParent" /\ c.o \notin Guarded(s)
  /\ heap' = [heap EXCEPT ![c.o].parent = c.p]
  /\ Then(s, <<>>)
  /\ UNCHANGED <<volumes, at, dn>> /\ Local

\* link_child_node and unlink_child_node
DoLink(s) ==
  LET c == Head(todo[s]) IN
  /\ \/ /\ c.op = "link"
        /\ Then(s, IF heap[c.c].id \in DOMAIN heap[c.o].children THEN <<>>
                   ELSE Effective(s, c.c, LinkCalls(c.o, c.c)))
        /\ UNCHANGED heap
     \/ /\ c.op = "linkHere"
        /\ Then(s, << Link(at[s], c.c), SetParent(c.c, at[s]) >>)
        /\ UNCHANGED heap
     \/ /\ c.op = "insert"
        /\ heap' = [heap EXCEPT ![c.o].children = Put(@, heap[c.c].id, c.c)]
        /\ Then(s, <<>>)
     \/ /\ c.op = "unlinkSelf"
        /\ Then(s, IF heap[c.o].parent = None THEN <<>>
                   ELSE << Unlink(heap[c.o].parent, heap[c.o].id) >>)
        /\ UNCHANGED heap
     \/ /\ c.op = "unlink"
        /\ IF c.id \in DOMAIN heap[c.o].children
           THEN /\ heap' = [heap EXCEPT ![c.o].children = Without(@, c.id)]
                /\ LET o == heap[c.o].children[c.id]
                   IN Then(s, Effective(s, o, UnlinkCalls(c.o, o)))
           ELSE Then(s, <<>>) /\ UNCHANGED heap
  /\ UNCHANGED <<volumes, at, dn>> /\ Local

\* get_or_create_data_center, get_or_create_rack, get_or_create_data_node: the
\* child with that id, or a new object that is then linked.
DoGet(s) ==
  LET c == Head(todo[s])
      p == at[s]
      found == c.id \in DOMAIN heap[p].children
      o == IF found THEN heap[p].children[c.id] ELSE Len(heap) + 1
      adopted == IF c.adopt THEN << SetParent(o, p) >> ELSE <<>> IN
  /\ c.op = "get"
  /\ at' = [at EXCEPT ![s] = o]
  /\ dn' = IF c.id \in Nodes THEN [dn EXCEPT ![s] = o] ELSE dn
  /\ IF found THEN Then(s, adopted) /\ UNCHANGED <<heap, volumes>>
     ELSE /\ heap' = Append(heap, NodeImpl(c.id, c.max))
          /\ volumes' = Append(volumes, NoVolumes)
          /\ Then(s, << Link(p, o) >> \o adopted)
  /\ Local

\* add_or_update_volume, and the removals of update_volumes and delta_update_volumes
DoVolume(s) ==
  LET c == Head(todo[s]) IN
  /\ \/ /\ c.op = "addVolume" /\ c.v \in DOMAIN volumes[c.o]
        /\ volumes' = [volumes EXCEPT ![c.o] = Put(@, c.v, c.ro)]
        /\ Then(s, <<>>)
     \/ /\ c.op = "addVolume" /\ c.v \notin DOMAIN volumes[c.o]
        /\ Then(s, NewVolume(c.o, c.v, c.ro))
        /\ UNCHANGED volumes
     \/ /\ c.op = "putVolume"
        /\ volumes' = [volumes EXCEPT ![c.o] = Put(@, c.v, c.ro)]
        /\ Then(s, <<>>)
     \/ /\ c.op = "dropVolume"
        /\ volumes' = [volumes EXCEPT ![c.o] = Without(@, c.v)]
        /\ Then(s, DropCalls(c.o, c.v, c.stored))
  /\ UNCHANGED <<heap, at, dn>> /\ Local

Step(s) ==
  /\ Busy(s)
  /\ \/ DoAdjust(s) \/ DoClimb(s) \/ DoMaxId(s) \/ DoSetParent(s) \/ DoLink(s)
     \/ DoGet(s) \/ DoVolume(s)

Reports == UNION {[vs -> setting.readOnly] : vs \in SUBSET setting.vids}

Next ==
  \E s \in Streams :
    \/ Open(s)
    \/ \E report \in Reports : FullHeartbeat(s, report)
    \/ \E v \in setting.vids, isNew \in BOOLEAN : Delta(s, v, isNew)
    \/ StreamEnds(s)
    \/ Step(s)

Spec == Init /\ [][Next]_vars

-----------------------------------------------------------------------------
(* Properties *)

AllQuiet == \A s \in Streams : ~Busy(s)
Below(o) == {c \in 1..Len(heap) : heap[c].parent = o}

\* Whenever no handler is at work, every counter of the topology, of a data center
\* and of a rack is the sum of that counter over the objects whose parent it is,
\* however the handlers of different servers interleaved their fetch_adds
\* (node.rs: adjust_*, link_child_node, unlink_child_node).
TreeSums ==
  AllQuiet =>
    \A o \in 1..Len(heap), f \in Counters :
      ~IsDataNode(o) => heap[o][f] = MapThenSumSet(LAMBDA c : heap[c][f], Below(o))

\* Whenever the handler of a connected server is not at work, its data node counts
\* as many volumes as it lists (data_node.rs: add_or_update_volume, update_volumes,
\* delta_update_volumes, as test_update_volume asserts), as long as a server ends its
\* stream before it opens the next.
CountsMatch ==
  ~setting.overlap => \A s \in Streams :
    Ready(s) => heap[dn[s]].volume = Cardinality(DOMAIN volumes[dn[s]])

\* No total of volumes or slots of the tree is ever seen below zero, not even while
\* a change is on its way up: free_space() never exceeds the slots there are, as long
\* as a server ends its stream before it opens the next.
NeverNegative ==
  ~setting.overlap => \A o \in 1..Len(heap) : heap[o].volume >= 0 /\ heap[o].max >= 0

\* As long as one handler is at work at a time and a server ends its stream before it
\* opens the next: whenever no handler is at work, the topology's max_volume_id, from
\* which the next volume id is taken, is not below the id of a volume that a server has
\* or had (node.rs: adjust_max_volume_id, which data_node.rs calls for a new volume).
MaxIdCovers ==
  ~setting.overlap /\ setting.together = 1 /\ AllQuiet =>
    \A o \in 1..Len(heap) : \A v \in DOMAIN volumes[o] : v <= heap[Root].maxId
=============================================================================
