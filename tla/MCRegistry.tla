----------------------------- MODULE MCRegistry -----------------------------
(***************************************************************************)
(* Instances of Registry for TLC: the source lengths of the generations    *)
(* and the symmetry of the interchangeable constants.                      *)
(***************************************************************************)
EXTENDS Registry, TLC

\* Two generations of different length.
MCSrcLen == [g \in Gens |-> IF g = CHOOSE x \in Gens : TRUE THEN 1 ELSE 2]

\* Requests, ids and addresses are interchangeable.
MCSymmetry == Permutations(Requests) \cup Permutations(Ids) \cup Permutations(Addr)
=============================================================================
