-------------------------------- MODULE MCDpi --------------------------------
(* TLC instances of Dpi. *)
EXTENDS Dpi, TLC
CONSTANTS q1, q2, q3
MCPorts == {q1, q2, q3}
Symmetry == Permutations(MCPorts)
=============================================================================
