------------------------------ MODULE MCByeDpi ------------------------------
(* ByeDpi on a small pool, with groups like those of the app's strategies. *)
EXTENDS ByeDpi, TLC
DetectAuto == 1 :> {} @@ 2 :> {"torst", "tls_err"} @@ 3 :> {"torst", "tls_err"}
Sym == Permutations(Slots)
=============================================================================
