--------------------------- MODULE MCAtomicWrite ----------------------------
(***************************************************************************)
(* Instances of AtomicWrite for TLC.                                       *)
(***************************************************************************)
EXTENDS AtomicWrite, TLC

CONSTANT Long   \* the invocation whose index takes two writes

MCChunks == [w \in Writers |-> IF w = Long THEN 2 ELSE 1]

\* Inodes are interchangeable.
MCSymmetry == Permutations(Inodes)
=============================================================================
