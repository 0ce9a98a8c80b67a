--------------------------- MODULE MCChunkedUpload ---------------------------
(* Small instances of ChunkedUpload for TLC. *)
EXTENDS ChunkedUpload, TLC

SlotSymmetry == Permutations(Slots)
Symmetry     == Permutations(Slots) \cup Permutations(Clients)
=============================================================================
