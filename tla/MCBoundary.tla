------------------------------ MODULE MCBoundary ------------------------------
(***************************************************************************)
(* Small instances of Boundary: two requests of one attempt, which with    *)
(* the planner protocol belong to one chain.                               *)
(***************************************************************************)
EXTENDS Boundary, TLC

CONSTANTS at1

SameAttempt == [r \in Requests |-> at1]
OneChain == [r \in Requests |-> 1]

RequestSymmetry == Permutations(Requests)
=============================================================================
