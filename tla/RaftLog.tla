-------------------------------- MODULE RaftLog --------------------------------
(***************************************************************************)
(* What a Raft log promises its user: a sequence of entries without holes, *)
(* the first of which has the index first, that grows at its end, is cut   *)
(* at its end and forgets entries at its front.                            *)
(***************************************************************************)
EXTENDS Integers, Sequences

CONSTANT Entries

VARIABLES first, entries

Init == first = 0 /\ entries = <<>>

Grow == \E e \in Entries : entries' = Append(entries, e) /\ UNCHANGED first

Cut == \E n \in 0..Len(entries) : entries' = SubSeq(entries, 1, n) /\ UNCHANGED first

Forget ==
  /\ first' - first \in Nat
  /\ entries' = SubSeq(entries, first' - first + 1, Len(entries))

Next == Grow \/ Cut \/ Forget

Spec == Init /\ [][Next]_<<first, entries>>
=============================================================================
