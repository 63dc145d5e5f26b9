--------------------------- MODULE SnapshotReplica ---------------------------
(***************************************************************************)
(* What the vault promises to the devices of one account, with no network, *)
(* no RPC and no dirty flag in sight: a store of versioned rows that only  *)
(* moves to higher versions, and on every device a view of it.  A row of a *)
(* view is either a local change the store has not confirmed (Unsynced) or *)
(* comes, together with all the others, from one snapshot of the store.    *)
(*                                                                         *)
(* VaultSync implements this specification when every pull is a full pull. *)
(***************************************************************************)
EXTENDS Naturals

CONSTANTS
  Devices,        \* the machines of the account
  Procs,          \* the client processes, each on one device
  Home,           \* Home[p]: the device of process p
  Ids,            \* entry UUIDs
  NoRow,          \* no row with that UUID
  Unsynced        \* the device holds a change of its own for that UUID

Row == [version : Nat \ {0}, stamp : Nat \ {0}, deleted : BOOLEAN]
Table == [Ids -> Row \cup {NoRow}]
NoSnapshot == [u \in Ids |-> NoRow]

VARIABLES
  store,          \* the rows of the server
  view,           \* view[d]: the rows of device d
  snapshot        \* snapshot[p]: what p has read of the store and not yet installed

vars == <<store, view, snapshot>>

Init ==
  /\ store = [u \in Ids |-> NoRow]
  /\ view = [d \in Devices |-> [u \in Ids |-> NoRow]]
  /\ snapshot = [p \in Procs |-> NoSnapshot]

(* A user changes entry u on device d. *)
Change(d, u) ==
  /\ view' = [view EXCEPT ![d][u] = Unsynced]
  /\ UNCHANGED <<store, snapshot>>

(* Some rows of the store are replaced, each by a row of higher version. *)
Commit ==
  /\ store' \in Table
  /\ \A u \in Ids :
       store'[u] # store[u] =>
         /\ store'[u] # NoRow
         /\ store[u] # NoRow => store[u].version < store'[u].version
  /\ UNCHANGED <<view, snapshot>>

(* Process p reads the whole store at one instant. *)
Read(p) ==
  /\ snapshot' = [snapshot EXCEPT ![p] = store]
  /\ UNCHANGED <<store, view>>

(* Process p installs what it read, all rows at once. *)
Install(p) ==
  /\ view' = [view EXCEPT ![Home[p]] =
                [u \in Ids |-> IF snapshot[p][u] = NoRow
                                 THEN view[Home[p]][u] ELSE snapshot[p][u]]]
  /\ snapshot' = [snapshot EXCEPT ![p] = NoSnapshot]
  /\ UNCHANGED store

Discard(p) ==
  /\ snapshot' = [snapshot EXCEPT ![p] = NoSnapshot]
  /\ UNCHANGED <<store, view>>

Next ==
  \/ Commit
  \/ \E d \in Devices, u \in Ids : Change(d, u)
  \/ \E p \in Procs : Read(p) \/ Install(p) \/ Discard(p)

Spec == Init /\ [][Next]_vars
==============================================================================
