--------------------------- MODULE MCVolumeLayout ---------------------------
(* Small instances of VolumeLayout. *)
EXTENDS VolumeLayout, TLC

CONSTANTS v1, v2, n1, n2, ok, ro, big

OwnShard == [v \in Vids |-> v]

\* One task at a time, with all tasks, two volumes and volumes that grow too large.
OneByOne == [vids |-> {v1, v2}, infos |-> {ok, big}, others |-> Others, active |-> 1]

\* Two heartbeat streams and an assign side by side, with volumes that become read-only.
SideBySide == [vids |-> {v1}, infos |-> {ok, ro}, others |-> {"pick"}, active |-> 3]

OneOrMore == {OneByOne, SideBySide}

Symmetry == Permutations(Nodes)
=============================================================================
