--------------------------- MODULE MCMappedMemory ---------------------------
(* Instances of MappedMemory for TLC. *)
EXTENDS MappedMemory, TLC

\* The batches are interchangeable.
BatchSymmetry == Permutations(Batches)

\* All of the allocation, or all but its first byte.
WholeOrTail == {Bytes, Bytes \ {0}}
=============================================================================
