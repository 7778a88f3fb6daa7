---------------------------- MODULE MCEcRegistry ----------------------------
(* Small instances of EcRegistry. *)
EXTENDS EcRegistry

TwoShards == 0..1
\* Reports of one volume.
OneReports == [{1} -> SUBSET TwoShards]
=============================================================================
