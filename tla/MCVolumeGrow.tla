---------------------------- MODULE MCVolumeGrow ----------------------------
(* Small instances of VolumeGrow. *)
EXTENDS VolumeGrow, TLC

CONSTANTS d1, d2, r1, r2, r3, n1, n2, n3, n4, a1, a2, anywhere

\* One data center with two racks, one of them with two servers, and another one.
Tree == (r1 :> d1) @@ (r2 :> d1) @@ (r3 :> d2)
Servers == (n1 :> r1) @@ (n2 :> r1) @@ (n3 :> r2) @@ (n4 :> r3)

\* All placements with up to one copy of each kind, and all trees with up to two slots
\* for one server and up to one for the others.
OneByOne ==
  [slots |-> {f \in [Nodes -> 0..2] : f[n2] < 2 /\ f[n3] < 2 /\ f[n4] < 2},
   placements |-> [dc : 0..1, rack : 0..1, node : 0..1],
   wanted |-> {d1, anywhere}, vids |-> 2, lost |-> FALSE, together |-> FALSE]

\* A growth that gets through: three volumes with three copies each.
Through ==
  [slots |-> [Nodes -> {3}], placements |-> {[dc |-> 1, rack |-> 1, node |-> 0]},
   wanted |-> {d1}, vids |-> 3, lost |-> FALSE, together |-> FALSE]

\* Two assigns that compete for the slots of two racks with a server each.
SideBySide ==
  [slots |-> {f \in [Nodes -> 0..2] : f[n1] > 0 /\ f[n2] = 0 /\ f[n3] > 0 /\ f[n4] = 0},
   placements |-> {[dc |-> 0, rack |-> 1, node |-> 0]},
   wanted |-> {anywhere}, vids |-> 4, lost |-> TRUE, together |-> TRUE]

AllSettings == {OneByOne, Through, SideBySide}
=============================================================================
