----------------------------- MODULE VolumeGrow -----------------------------
(***************************************************************************)
(* Volume growth: an assign that finds no writable volume chooses data     *)
(* nodes for new volumes as the replication asks for, takes the next       *)
(* volume id, has the servers allocate the volume and registers it.        *)
(*                                                                         *)
(* Several assigns may be under way.  A step of one of them ends where it  *)
(* has read what it acts on later: after each choice of nodes, after the   *)
(* volume id, after each answer of a server.  free_space() of an inner     *)
(* node of the tree is the sum over its data nodes (TopologyTree), and     *)
(* there are no erasure coded shards.                                      *)
(***************************************************************************)
EXTENDS Integers, FiniteSets, FiniteSetsExt, SequencesExt

CONSTANTS DataCenters, Racks, Nodes,
          DcOf, RackOf,   \* the data center of a rack, the rack of a node
          AnyDc,          \* no data center asked for
          Assigns,        \* assign requests, each made once
          MaxVid,         \* bound on volume ids
          Settings        \* what may go on in a behaviour:
                          \* .slots       values of the servers' max_volume_counts
                          \* .placements  replica placements: records of three counts
                          \* .wanted      data centers a request may ask for, or AnyDc
                          \* .vids        bound on volume ids
                          \* .lost        may a server allocate a volume and the reply be lost
                          \* .together    are assigns side by side, or one after the other

ASSUME GrowAssumption ==
  /\ DcOf \in [Racks -> DataCenters] /\ RackOf \in [Nodes -> Racks]
  /\ MaxVid \in Nat /\ AnyDc \notin DataCenters
  /\ \A x \in Settings :
       /\ x.slots \subseteq [Nodes -> Nat] /\ x.vids \in 0..MaxVid
       /\ x.placements \subseteq [dc : 0..2, rack : 0..2, node : 0..2]
       /\ x.wanted \subseteq DataCenters \cup {AnyDc}
       /\ x.lost \in BOOLEAN /\ x.together \in BOOLEAN

VARIABLES setting,  \* the setting of this behaviour
          slots,    \* max_volume_count of each server
          rp,       \* replica placement of the layout
          located,  \* volume id -> nodes, as the master knows them
          served,   \* volume ids each server has
          maxId,    \* max_volume_id of the topology
          raft,     \* values on their way through set_max_volume_id
          pc, left, \* where each assign is, and the volumes it still has to grow
          plan,     \* nodes chosen so far by each assign
          rest,     \* racks and data centers that have to provide a node
          want, vid,
          gaveUp    \* history: a search failed although the nodes were there

vars == <<setting, slots, rp, located, served, maxId, raft, pc, left, plan, rest, want, vid, gaveUp>>

Vids == 1..MaxVid
RacksOf(d) == {r \in Racks : DcOf[r] = d}
NodesOf(r) == {n \in Nodes : RackOf[n] = r}
Free(n) == slots[n] - Cardinality({v \in Vids : n \in located[v]})
FreeOf(ns) == MapThenSumSet(Free, ns)
RackFree(r) == FreeOf(NodesOf(r))
DcFree(d) == FreeOf({n \in Nodes : DcOf[RackOf[n]] = d})
FreeNodes(r) == {n \in NodesOf(r) : Free(n) >= 1}

CopyCount == rp.dc + rp.rack + rp.node + 1

\* find_volume_count
FindVolumeCount(copies) == CASE copies = 1 -> 7 [] copies = 2 -> 6 [] copies = 3 -> 3 [] OTHER -> 1

-----------------------------------------------------------------------------
(* The choice of nodes *)

\* Filters of find_empty_slots for the main data center, rack and node.
MainDc(d, w) ==
  /\ w = AnyDc \/ d = w
  /\ Cardinality(RacksOf(d)) >= rp.rack + 1
  /\ DcFree(d) >= rp.rack + rp.node + 1
  /\ Cardinality({r \in RacksOf(d) : Cardinality(FreeNodes(r)) > rp.node}) >= rp.rack + 1

\* Variant: any rack with a free node will do.
MainRackAny(r) == RackFree(r) >= 1

MainRack(r) ==
  /\ RackFree(r) >= rp.node + 1
  /\ Cardinality(NodesOf(r)) >= rp.node + 1
  /\ Cardinality(FreeNodes(r)) >= rp.node + 1

MainNode(n) == Free(n) >= 1

\* Variant: a node that is just full has space.
HasSpaceFull(k) == k >= 0
\* The test of randomly_pick_nodes for the other nodes.
HasSpace(k) == k > 0

\* Variant: the main node is among the others.
PickNodesAgain(mains, others, k) == {<<m, o>> \in mains \X kSubset(k, others) : TRUE}

\* randomly_pick_nodes: one of the nodes that pass the filter, and k of the other
\* children that have free space; none if there are not as many.
PickNodes(mains, others, k) ==
  {<<m, o>> \in mains \X kSubset(k, others) : m \notin o}

-----------------------------------------------------------------------------
(* Assigns *)

Init ==
  /\ setting \in Settings
  /\ slots \in setting.slots /\ rp \in setting.placements
  /\ located = [v \in Vids |-> {}]
  /\ served = [n \in Nodes |-> {}]
  /\ maxId = 0 /\ raft = {}
  /\ pc = [a \in Assigns |-> "new"]
  /\ left = [a \in Assigns |-> 0]
  /\ plan = [a \in Assigns |-> <<>>]
  /\ rest = [a \in Assigns |-> <<>>]
  /\ want = [a \in Assigns |-> AnyDc]
  /\ vid = [a \in Assigns |-> 0]
  /\ gaveUp = FALSE

Writable == {v \in Vids : Cardinality(located[v]) >= CopyCount}
\* active_volume_count: the writable volumes of the data center asked for
WritableIn(w) == {v \in Writable : w = AnyDc \/ \E n \in located[v] : DcOf[RackOf[n]] = w}

tree == <<setting, slots, rp, located, served, maxId, raft>>

\* Assign a is at p, with what it has chosen.
Goto(a, p, nodes, others) ==
  /\ pc' = [pc EXCEPT ![a] = p]
  /\ plan' = [plan EXCEPT ![a] = nodes]
  /\ rest' = [rest EXCEPT ![a] = others]

\* Assign a returns an error, panics, or returns a file id.
End(a, p) == Goto(a, p, <<>>, <<>>)

\* assign_handler: grow if no volume is writable.
Begin(a) ==
  /\ pc[a] = "new"
  /\ left' = [left EXCEPT ![a] = FindVolumeCount(CopyCount)]
  /\ \E w \in setting.wanted :
       /\ want' = [want EXCEPT ![a] = w]
       /\ \/ WritableIn(w) # {} /\ End(a, "assigned")
          \/ WritableIn(w) = {} /\ FreeOf(Nodes) <= 0 /\ End(a, "error")
          \/ WritableIn(w) = {} /\ FreeOf(Nodes) > 0 /\ Goto(a, "dc", <<>>, <<>>)
  /\ UNCHANGED <<tree, vid, gaveUp>>

\* Where nodes for the placement can be found: the main data center, its main rack
\* and the rest each have a node of their own.
Possible(w) ==
  \E r \in Racks : LET d == DcOf[r] IN
    /\ w = AnyDc \/ d = w
    /\ Cardinality(FreeNodes(r)) >= rp.node + 1
    /\ Cardinality({q \in RacksOf(d) \ {r} : FreeNodes(q) # {}}) >= rp.rack
    /\ Cardinality({e \in DataCenters \ {d} : \E q \in RacksOf(e) : FreeNodes(q) # {}}) >= rp.dc

\* Variant: the search is repeated until it succeeds.
FailsAndRetries(a) == Goto(a, "dc", <<>>, <<>>) /\ UNCHANGED gaveUp

\* Where the search of a ends, it fails; history is whether it had to.
Fails(a) ==
  /\ End(a, "error")
  /\ gaveUp' = (gaveUp \/ Possible(want[a]))

\* find_empty_slots, one randomly_pick_nodes at a time.
PickDc(a) ==
  LET picks == PickNodes({d \in DataCenters : MainDc(d, want[a])},
                         {d \in DataCenters : HasSpace(DcFree(d))}, rp.dc) IN
  /\ pc[a] = "dc"
  /\ \/ picks = {} /\ Fails(a)
     \/ \E p \in picks : Goto(a, "rack", <<p[1]>>, SetToSeq(p[2])) /\ UNCHANGED gaveUp
  /\ UNCHANGED <<tree, left, want, vid>>

PickRack(a) ==
  LET in == RacksOf(plan[a][1])
      picks == PickNodes({r \in in : MainRack(r)},
                         {r \in in : HasSpace(RackFree(r))}, rp.rack) IN
  /\ pc[a] = "rack"
  /\ \/ picks = {} /\ Fails(a)
     \/ \E p \in picks : /\ Goto(a, "node", <<p[1]>>, SetToSeq(p[2]) \o rest[a])
                         /\ UNCHANGED gaveUp
  /\ UNCHANGED <<tree, left, want, vid>>

PickNode(a) ==
  LET in == NodesOf(plan[a][1])
      picks == PickNodes({n \in in : MainNode(n)},
                         {n \in in : HasSpace(Free(n))}, rp.node) IN
  /\ pc[a] = "node"
  /\ \/ picks = {} /\ Fails(a)
     \/ \E p \in picks : /\ Goto(a, "rest", <<p[1]>> \o SetToSeq(p[2]), rest[a])
                         /\ UNCHANGED gaveUp
  /\ UNCHANGED <<tree, left, want, vid>>

Under(x) == IF x \in Racks THEN NodesOf(x) ELSE UNION {NodesOf(r) : r \in RacksOf(x)}

\* reserve_one_volume of another rack or data center: a random number below its free
\* space leads to one of its nodes with free space.  An empty range panics.
Reserve(a) ==
  LET x == Head(rest[a]) IN
  /\ pc[a] = "rest" /\ rest[a] # <<>>
  /\ \/ FreeOf(Under(x)) <= 0 /\ End(a, "panic")
     \/ /\ FreeOf(Under(x)) > 0
        /\ \E n \in {m \in Under(x) : Free(m) > 0} : Goto(a, "rest", Append(plan[a], n), Tail(rest[a]))
  /\ UNCHANGED <<tree, left, want, vid, gaveUp>>

NextId == maxId + 1

\* Variant: the largest id is left as it is.
RaisedIdNot(v) == maxId
\* adjust_max_volume_id of the topology
RaisedId(v) == IF maxId < v THEN v ELSE maxId

\* next_volume_id: raft is told in a task of its own.
NextVolumeId(a) ==
  /\ pc[a] = "rest" /\ rest[a] = <<>> /\ NextId <= setting.vids
  /\ vid' = [vid EXCEPT ![a] = NextId]
  /\ raft' = raft \cup {NextId}
  /\ Goto(a, "allocate", plan[a], <<>>)
  /\ UNCHANGED <<setting, slots, rp, located, served, maxId, left, want, gaveUp>>

\* set_max_volume_id has been applied: adjust_max_volume_id.
RaftApplies ==
  \E v \in raft :
    /\ raft' = raft \ {v}
    /\ maxId' = RaisedId(v)
    /\ UNCHANGED <<setting, slots, rp, located, served, pc, left, plan, rest, want, vid, gaveUp>>

\* What the volume server answers: a volume id it has, or no free location, is an error.
Accepts(n, v) == v \notin served[n] /\ Cardinality(served[n]) < slots[n]

\* grow: allocate_volume on the next node of the plan.
Allocate(a) ==
  LET n == Head(plan[a]) IN
  /\ pc[a] = "allocate"
  /\ \/ /\ Accepts(n, vid[a])
        /\ served' = [served EXCEPT ![n] = @ \cup {vid[a]}]
        /\ Goto(a, "register", plan[a], <<>>)
     \/ ~Accepts(n, vid[a]) /\ End(a, "error") /\ UNCHANGED served
  /\ UNCHANGED <<setting, slots, rp, located, maxId, raft, left, want, vid, gaveUp>>

\* The call fails: the server is gone, or its answer is.
AllocateFails(a) ==
  LET n == Head(plan[a]) IN
  /\ pc[a] = "allocate"
  /\ \/ UNCHANGED served
     \/ setting.lost /\ Accepts(n, vid[a]) /\ served' = [served EXCEPT ![n] = @ \cup {vid[a]}]
  /\ End(a, "error")
  /\ UNCHANGED <<setting, slots, rp, located, maxId, raft, left, want, vid, gaveUp>>

\* The volume is registered: add_or_update_volume and register_volume_layout.
RegisterVolume(a) ==
  /\ pc[a] = "register"
  /\ located' = [located EXCEPT ![vid[a]] = @ \cup {Head(plan[a])}]
  /\ maxId' = RaisedId(vid[a])
  /\ IF Len(plan[a]) > 1 THEN Goto(a, "allocate", Tail(plan[a]), <<>>) /\ UNCHANGED left
     ELSE /\ left' = [left EXCEPT ![a] = @ - 1]
          /\ IF left[a] = 1 THEN Goto(a, "pick", <<>>, <<>>) ELSE Goto(a, "dc", <<>>, <<>>)
  /\ UNCHANGED <<setting, slots, rp, served, raft, want, vid, gaveUp>>

\* pick_for_write after growth.
Pick(a) ==
  /\ pc[a] = "pick"
  /\ End(a, IF WritableIn(want[a]) = {} THEN "error" ELSE "assigned")
  /\ UNCHANGED <<tree, left, want, vid, gaveUp>>

Step(a) ==
  \/ PickDc(a) \/ PickRack(a) \/ PickNode(a) \/ Reserve(a) \/ NextVolumeId(a)
  \/ Allocate(a) \/ AllocateFails(a) \/ RegisterVolume(a) \/ Pick(a)

Ended == {"error", "panic", "assigned"}
Alone == \A a \in Assigns : pc[a] \in Ended \cup {"new"}

Next == \/ \E a \in Assigns : ((setting.together \/ Alone) /\ Begin(a)) \/ Step(a)
        \/ RaftApplies

\* The runtime schedules every assign that is ready; servers answer or the call fails.
Spec == Init /\ [][Next]_vars /\ \A a \in Assigns : WF_vars(Step(a))

-----------------------------------------------------------------------------
(* Properties *)

\* What the replication asks of the nodes of a volume (replica_placement.rs).
PlacedOn(ns) ==
  \E r \in Racks : LET d == DcOf[r]
                       here == {n \in ns : RackOf[n] = r}
                       near == {n \in ns \ here : DcOf[RackOf[n]] = d}
                       far == ns \ (here \cup near) IN
    /\ Cardinality(here) = rp.node + 1
    /\ Cardinality(near) = rp.rack /\ Cardinality({RackOf[n] : n \in near}) = rp.rack
    /\ Cardinality(far) = rp.dc /\ Cardinality({DcOf[RackOf[n]] : n \in far}) = rp.dc

\* When one assign runs at a time, a volume that becomes writable has exactly the
\* copies that its replication asks for, spread over servers, racks and data centers
\* as it asks (find_empty_slots).
Placed == ~setting.together => \A v \in Writable : PlacedOn(located[v])

\* When one assign runs at a time, a search for nodes for a replication without
\* copies on other racks, or without copies on the same rack, fails only if there is
\* no way to place the volume (the filters of find_empty_slots look ahead far enough).
FindsPlain == ~setting.together /\ (rp.rack = 0 \/ rp.node = 0) => ~gaveUp

\* When one assign runs at a time, choosing a node of another rack or data center
\* never draws from an empty range (find_empty_slots, gen_range).
NoPanic == ~setting.together => \A a \in Assigns : pc[a] # "panic"

\* When one assign runs at a time, the id of a new volume is not the id of a volume
\* that a server has, also after a growth that failed half-way (next_volume_id), as
\* long as no reply is lost.
FreshId ==
  [][\A a \in Assigns :
       ~setting.together /\ NextVolumeId(a) => \A n \in Nodes : vid'[a] \notin served[n]]_vars

\* Every assign that has begun a search comes to an end, whatever the others take away
\* from it, and with lost replies.
AssignEnds == \A a \in Assigns : setting.together /\ pc[a] = "dc" ~> pc[a] \in Ended
=============================================================================
