-------------------------- MODULE MCTunnelService --------------------------
(* TLC instances of TunnelService. *)
EXTENDS TunnelService, TLC
CONSTANTS p1, p2, wifi, cell
MCPorts == {p1, p2}
MCNetworks == {wifi, cell}
Symmetry == Permutations(MCPorts) \union Permutations(MCNetworks)
============================================================================
