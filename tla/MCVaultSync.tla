----------------------------- MODULE MCVaultSync -----------------------------
(* Instances of VaultSync for TLC. *)
EXTENDS VaultSync, TLC

CONSTANTS d1, d2, p1, p2

\* one skeepercli process at a time on each device
OneProcessPerDevice == p1 :> d1 @@ p2 :> d2

\* two processes on the only device
TwoProcessesOneDevice == p1 :> d1 @@ p2 :> d1
==============================================================================
