------------------------------- MODULE MCStore -------------------------------
(* TLC instances of Store; the bounds are in the configurations. *)
EXTENDS Store
=============================================================================
