------------------------------ MODULE MCLiveHub ------------------------------
(* Small instances of LiveHub for TLC. *)
EXTENDS LiveHub, TLC

CONSTANTS c1, c2, c3, d1, d2, alice, bob

MCOneUser    == {[c \in Conns |-> alice]}
MCTwoUsers   == {[c \in Conns |-> IF c = c3 THEN bob ELSE alice]}
MCEither     == {[c \in Conns |-> alice], [c \in Conns |-> IF c = c1 THEN alice ELSE bob]}
MCAnyDevice  == [c \in Conns |-> Devices]
MCReconnects == c1 :> {d1} @@ c2 :> {d2} @@ c3 :> {d1}
=============================================================================
