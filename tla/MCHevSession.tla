---------------------------- MODULE MCHevSession ----------------------------
(* TLC instance of HevSession. *)
EXTENDS HevSession
=============================================================================
