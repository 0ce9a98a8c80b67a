----------------------------- MODULE MCMediaStore -----------------------------
(* Small instances of MediaStore for TLC. *)
EXTENDS MediaStore, TLC

Symmetry == Permutations(Files) \cup Permutations(Endpoints) \cup Permutations(Workers)
=============================================================================
