----------------------------- MODULE MCEcStripe -----------------------------
(* A small instance of EcStripe. *)
EXTENDS EcStripe

\* Up to a bit more than two large rows of two shards with blocks of eight bytes.
UpToTwoRows == 1..35
=============================================================================
