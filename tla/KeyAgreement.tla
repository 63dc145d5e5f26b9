----------------------------- MODULE KeyAgreement -----------------------------
(***************************************************************************)
(* What the vault crypto of an account promises: the devices agree on one  *)
(* master key, chosen once and never changed, and an entry whose key the   *)
(* server has acknowledged is sealed under that one.                       *)
(***************************************************************************)
CONSTANTS
  Ids,        \* entries
  Key,        \* master keys
  NoKey

VARIABLES
  chosen,     \* the key of the account, NoKey before the first is stored
  acknowledged  \* acknowledged[u]: the key acknowledged for entry u

vars == <<chosen, acknowledged>>

Init ==
  /\ chosen = NoKey
  /\ acknowledged = [u \in Ids |-> NoKey]

Choose ==
  /\ chosen = NoKey
  /\ chosen' \in Key
  /\ UNCHANGED acknowledged

Acknowledge(u) ==
  /\ chosen # NoKey
  /\ acknowledged' = [acknowledged EXCEPT ![u] = chosen]
  /\ UNCHANGED chosen

Next ==
  \/ Choose
  \/ \E u \in Ids : Acknowledge(u)

Spec == Init /\ [][Next]_vars
==============================================================================
