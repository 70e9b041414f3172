---------------------------- MODULE MCKeyRotation ----------------------------
(* Instances of KeyRotation for TLC: one agent, all connections are its own. *)
EXTENDS KeyRotation

CONSTANTS h1, c1, c2, r1, r2

OneHost == [c \in Conns |-> h1]
=============================================================================
