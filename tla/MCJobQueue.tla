----------------------------- MODULE MCJobQueue -----------------------------
(* Small instances of JobQueue for TLC. *)
EXTENDS JobQueue, TLC

CONSTANTS jan, stt, p1, null

MCRegSets    == {{jan, stt}, {jan}}
MCOneRegSet  == {{jan, stt}}
MCKeys       == {[job |-> stt, payload |-> p1], [job |-> stt, payload |-> null]}
MCTextKeys   == {[job |-> stt, payload |-> p1]}
Symmetry     == Permutations(RunIds) \cup Permutations(Workers)
=============================================================================
