---------------------------- MODULE MCProbeRace ----------------------------
(* TLC instance of ProbeRace: four candidates, two permits, stop after two. *)
EXTENDS ProbeRace
============================================================================
