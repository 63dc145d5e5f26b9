------------------------------- MODULE SyncRows -------------------------------
(* What the requests of SyncServer carry: rows of `entries`, and cursors. *)
EXTENDS Naturals

CONSTANTS
  Handlers,   \* requests in progress at a time, in all skeeper processes
  Ids,        \* entry UUIDs
  Row,        \* rows: records with a `version` and a `stamp`, the updated_at
  NoRow, NoId, NoHandler,
  Batches,    \* the uploads devices send
  Cursors     \* the last_sync_at they send with them

Table == [Ids -> Row \cup {NoRow}]
NoRows == [u \in Ids |-> NoRow]
Stored(t) == {u \in Ids : t[u] # NoRow}

ASSUME RowAssumption == NoRow \notin Row /\ \A r \in Row : r.version \in Nat /\ r.stamp \in Nat
ASSUME NoneAssumption == NoId \notin Ids /\ NoHandler \notin Handlers
ASSUME RequestAssumption == Batches \subseteq Table /\ Cursors \subseteq Nat
==============================================================================
