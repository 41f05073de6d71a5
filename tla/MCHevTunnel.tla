----------------------------- MODULE MCHevTunnel -----------------------------
(* TLC instances of HevTunnel, and the mutants of its definitions. *)
EXTENDS HevTunnel
=============================================================================
