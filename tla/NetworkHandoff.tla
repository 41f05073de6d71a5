--------------------------- MODULE NetworkHandoff ---------------------------
(***************************************************************************)
(* core/NetworkHandoff.kt: the revision gate between the callbacks of      *)
(* ConnectivityManager and the reconnects they cause.  All four operations *)
(* are @Synchronized, so each is one step.                                 *)
(***************************************************************************)
EXTENDS Integers

CONSTANT NoNet          \* null: no physical network

VARIABLES current,      \* the snapshot the gate knows
          revision      \* number of times it changed

\* watchNetwork(): the network the tunnel is built on, no ticket is issued.
Seed(snapshot) == current' = snapshot /\ revision' = revision + 1

\* A snapshot equal to the current one is no change (update returns null).
IsChange(snapshot) == snapshot # current

\* The ticket of the change is the new revision.
Update(snapshot) ==
  /\ IsChange(snapshot)
  /\ current' = snapshot
  /\ revision' = revision + 1

Valid(ticket) == revision = ticket /\ current # NoNet

Reset == current' = NoNet /\ revision' = revision + 1
=============================================================================
