------------------------------ MODULE MCVolume ------------------------------
(* Small instances of Volume for TLC. *)
EXTENDS Volume, TLC

CONSTANTS k1, k2, v, w, none, t, c1, c2

Symmetry == {p @@ q @@ r : p \in Permutations({k1, k2}), q \in Permutations({v, w}),
                         r \in Permutations({c1, c2})}

=============================================================================
