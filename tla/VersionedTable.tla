---------------------------- MODULE VersionedTable ----------------------------
(***************************************************************************)
(* What the `Sync` handler of the skeeper promises the devices of one      *)
(* account: an upload of several rows takes effect at one instant, or not  *)
(* at all.  At that instant the table takes the rows that are new or of a  *)
(* higher version than its own, and these are the rows it reports.  A pull *)
(* is a snapshot of the table.                                             *)
(*                                                                         *)
(* This is the server that VaultSync takes for granted; SyncServer         *)
(* implements it with row locks.                                           *)
(***************************************************************************)
EXTENDS Naturals

CONSTANTS
  Handlers,       \* requests in progress
  Ids,            \* entry UUIDs
  Row,            \* rows, records with a `version` and a `stamp`
  NoRow,
  Batches,        \* the uploads devices send
  Cursors         \* the last_sync_at they send with them

Table == [Ids -> Row \cup {NoRow}]
NoRows == [u \in Ids |-> NoRow]
Stored(t) == {u \in Ids : t[u] # NoRow}

VARIABLES
  table,          \* the rows of the account
  request         \* request[h]: how far the request of h is

Request == [state : {"none", "asked", "applied", "answered"}, batch : Table, since : Nat,
            taken : SUBSET Ids, rows : Table]

None == [state |-> "none", batch |-> NoRows, since |-> 0, taken |-> {}, rows |-> NoRows]

vars == <<table, request>>

Init ==
  /\ table = NoRows
  /\ request = [h \in Handlers |-> None]

Ask(h) ==
  /\ request[h] = None
  /\ \E batch \in Batches, since \in Cursors :
       request' = [request EXCEPT ![h] =
                     [None EXCEPT !.state = "asked", !.batch = batch, !.since = since]]
  /\ UNCHANGED table

Newer(batch) ==
  {u \in Stored(batch) : table[u] = NoRow \/ table[u].version < batch[u].version}

Apply(h) ==
  LET batch == request[h].batch IN
  /\ request[h].state = "asked"
  /\ table' = [u \in Ids |-> IF u \in Newer(batch) THEN batch[u] ELSE table[u]]
  /\ request' = [request EXCEPT ![h].state = "applied", ![h].taken = Newer(batch)]

Pull(h) ==
  /\ request[h].state = "applied"
  /\ request' = [request EXCEPT
       ![h].state = "answered",
       ![h].rows = [u \in Ids |-> IF table[u] # NoRow /\ table[u].stamp > request[h].since
                                    THEN table[u] ELSE NoRow]]
  /\ UNCHANGED table

(* The request ends: with its answer, or with an error at any point. *)
End(h) ==
  /\ request[h].state # "none"
  /\ request' = [request EXCEPT ![h] = None]
  /\ UNCHANGED table

Next == \E h \in Handlers : Ask(h) \/ Apply(h) \/ Pull(h) \/ End(h)

Spec == Init /\ [][Next]_vars
==============================================================================
