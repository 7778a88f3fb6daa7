------------------------------ MODULE MCEcStore ------------------------------
(* A small instance of EcStore. *)
EXTENDS EcStore

CONSTANTS s1, s2

\* A needle in two shards, and one in a single shard.
Needles == [v \in 1..2 |-> IF v = 1 THEN <<0, 1>> ELSE <<1>>]

\* One server with two volumes, and two servers with shards of one.
OneOrTwo == {[servers |-> {s1}, vids |-> {1, 2}, steps |-> 6],
             [servers |-> {s1, s2}, vids |-> {1}, steps |-> 7]}
=============================================================================
