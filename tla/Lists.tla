-------------------------------- MODULE Lists --------------------------------
(***************************************************************************)
(* Lists that the code keeps in a Vec, as sequences.  No operator is       *)
(* recursive, so that all can be reasoned about.                           *)
(***************************************************************************)
EXTENDS Integers, Sequences, FiniteSets, FiniteSetsExt

Contains(s, e) == \E i \in 1..Len(s) : s[i] = e

\* Vec::remove
RemoveAt(s, i) == [j \in 1..(Len(s) - 1) |-> IF j < i THEN s[j] ELSE s[j + 1]]

\* Vec::remove at the first position of e, if there is one.
RemoveFirst(s, e) == IF Contains(s, e) THEN RemoveAt(s, Min({i \in 1..Len(s) : s[i] = e})) ELSE s

\* Vec::retain: the elements at the positions in `keep`, in their order.
RetainAt(s, keep) ==
  LET order == CHOOSE f \in UNION {[1..m -> keep] : m \in 0..Len(s)} :
                 Range(f) = keep /\ \A i, j \in DOMAIN f : i < j => f[i] < f[j]
  IN [k \in DOMAIN order |-> s[order[k]]]
RemoveAll(s, e) == RetainAt(s, {i \in 1..Len(s) : s[i] # e})

\* The elements of S, as a loop over a map may meet them.
SetToSeq(S) == CHOOSE f \in [1..Cardinality(S) -> S] : IsInjective(f)
=============================================================================
