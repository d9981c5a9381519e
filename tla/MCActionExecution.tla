-------------------------- MODULE MCActionExecution --------------------------
(* Four prints: two that differ in the payload of the search, a third with  *)
(* two steps, and one with a single step.                                   *)
EXTENDS ActionExecution, TLC
CONSTANTS a, a2, b, c
MCPrints == {a, a2, b, c}
MCMulti == {a, a2, b}
MCBare == [p \in MCPrints |-> IF p = a2 THEN a ELSE p]
Symmetry == Permutations(Slots)
=============================================================================
