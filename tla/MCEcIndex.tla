------------------------------ MODULE MCEcIndex ------------------------------
(* A small instance of EcIndex. *)
EXTENDS EcIndex

ThreeIds == 1..3

\* One delete after the other; deletes side by side, with rebuilds.
OneOrTwo == {[deleters |-> {1}, rebuilds |-> FALSE], [deleters |-> {1, 2}, rebuilds |-> TRUE]}
=============================================================================
