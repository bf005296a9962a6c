------------------------- MODULE MCSystemCheckpoint -------------------------
(* Small instance of SystemCheckpoint for TLC. *)
EXTENDS SystemCheckpoint, TLC

\* Digests are interchangeable.
ArtifactSymmetry == Permutations(Artifacts)
=============================================================================
