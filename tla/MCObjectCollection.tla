------------------------- MODULE MCObjectCollection -------------------------
(***************************************************************************)
(* The instances of ObjectCollection that TLC checks: two objects, so that *)
(* one can leave and re-enter the root; two deltas of the same content, so *)
(* that one can be reachable while the other retires, and a third one that *)
(* moves the root past both; two managers.                                 *)
(***************************************************************************)
EXTENDS ObjectCollection, TLC

CONSTANTS o1, o2, d1, d2, d3, s1, s2

MCObject   == {o1, o2}
MCDelta    == {d1, d2, d3}
MCSource   == {s1, s2}
MCOriginal == [d \in MCDelta |-> IF d = d3 THEN s2 ELSE s1]

\* The objects differ in nothing, nor do the two deltas of one original.
Symmetric == Permutations({o1, o2}) \union Permutations({d1, d2})

=============================================================================
