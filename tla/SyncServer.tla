------------------------------ MODULE SyncServer ------------------------------
(***************************************************************************)
(* The `Sync` handler of the skeeper for one account, down to the rows its *)
(* upsert locks.                                                           *)
(*                                                                         *)
(* UpsertEntries is one INSERT ... ON CONFLICT DO UPDATE of many rows,     *)
(* committed on its own.  Postgres visits the rows one by one, in the      *)
(* order in which the client has sent them, and for each of them waits for *)
(* the transaction that has locked or is inserting it, locks it - even if  *)
(* the version guard then leaves it alone - and decides on the newest      *)
(* committed row.  What it writes becomes visible, and the locks free,     *)
(* when the statement commits.                                             *)
(***************************************************************************)
EXTENDS SyncRows

VARIABLES
  table,      \* the committed rows of table `entries`
  lock,       \* lock[u]: the request whose statement has locked u
  call        \* call[h]: the request h and how far its handler is

vars == <<table, lock, call>>

(* `todo` are the rows the upsert has still to visit, `at` the one it visits,
   `taken` those it has written; `rows` is what the select has returned. *)
Call ==
  [pc : {"idle", "received", "upserting", "upserted", "selected", "failed"},
   batch : Table, since : Nat, todo : SUBSET Ids, at : Ids \cup {NoId}, taken : SUBSET Ids,
   rows : Table]

Idle == [pc |-> "idle", batch |-> NoRows, since |-> 0, todo |-> {}, at |-> NoId, taken |-> {},
         rows |-> NoRows]

TypeOK ==
  /\ table \in Table
  /\ lock \in [Ids -> Handlers \cup {NoHandler}]
  /\ call \in [Handlers -> Call]

Init ==
  /\ table = NoRows
  /\ lock = [u \in Ids |-> NoHandler]
  /\ call = [h \in Handlers |-> Idle]

------------------------------------------------------------------------------
(* The request as NewSyncRequestFromProto has parsed it; one that does not
   parse is refused as a whole before anything is read or written. *)
Receive(h, batch, since) ==
  /\ call[h].pc = "idle"
  /\ call' = [call EXCEPT ![h] = [Idle EXCEPT !.pc = "received", !.batch = batch, !.since = since]]
  /\ UNCHANGED <<table, lock>>

(* Nothing is upserted when the request has no updates. *)
BeginUpsert(h) ==
  /\ call[h].pc = "received"
  /\ call' = [call EXCEPT ![h].pc = IF Stored(call[h].batch) = {} THEN "upserted" ELSE "upserting",
                          ![h].todo = Stored(call[h].batch)]
  /\ UNCHANGED <<table, lock>>

VisitRow(h, u) ==
  /\ call[h].pc = "upserting"
  /\ call[h].at = NoId
  /\ u \in call[h].todo
  /\ call' = [call EXCEPT ![h].at = u, ![h].todo = @ \ {u}]
  /\ UNCHANGED <<table, lock>>

(* Mutant of IsNewer: no version guard. *)
IsNewerAlways(row, u) == TRUE

(* WHERE entries.version < EXCLUDED.version, or no row to conflict with. *)
IsNewer(row, u) == table[u] = NoRow \/ table[u].version < row.version

(* Mutant of TakeRow: the row is looked at, and not locked. *)
TakeRowUnlocked(h) ==
  LET u == call[h].at IN
  /\ call[h].pc = "upserting"
  /\ u # NoId
  /\ call' = [call EXCEPT ![h].at = NoId,
                          ![h].taken = IF IsNewer(call[h].batch[u], u) THEN @ \cup {u} ELSE @]
  /\ UNCHANGED <<table, lock>>

TakeRow(h) ==
  LET u == call[h].at IN
  /\ call[h].pc = "upserting"
  /\ u # NoId
  /\ lock[u] = NoHandler
  /\ lock' = [lock EXCEPT ![u] = h]
  /\ call' = [call EXCEPT ![h].at = NoId,
                          ![h].taken = IF IsNewer(call[h].batch[u], u) THEN @ \cup {u} ELSE @]
  /\ UNCHANGED table

(* Mutant of Released: the locks of rows that were not written stay. *)
ReleasedTaken(h) == [u \in Ids |-> IF u \in call[h].taken THEN NoHandler ELSE lock[u]]

(* Locks are held until the statement ends. *)
Released(h) == [u \in Ids |-> IF lock[u] = h THEN NoHandler ELSE lock[u]]

(* Mutant of Reported: the rows of the request instead of RETURNING uuid. *)
ReportedAll(h) == Stored(call[h].batch)

(* RETURNING uuid: the rows that were inserted or updated. *)
Reported(h) == call[h].taken

Commit(h) ==
  /\ call[h].pc = "upserting"
  /\ call[h].todo = {} /\ call[h].at = NoId
  /\ table' = [u \in Ids |-> IF u \in call[h].taken THEN call[h].batch[u] ELSE table[u]]
  /\ lock' = Released(h)
  /\ call' = [call EXCEPT ![h].pc = "upserted", ![h].taken = Reported(h)]

(* The statement fails, its context is cancelled, or Postgres ends it to break
   a deadlock: none of its rows is written. *)
Rollback(h) ==
  /\ call[h].pc = "upserting"
  /\ lock' = Released(h)
  /\ call' = [call EXCEPT ![h] = [Idle EXCEPT !.pc = "failed"]]
  /\ UNCHANGED table

(* GetUpdatedAfter: a statement of its own, on what is committed by then. *)
Select(h) ==
  /\ call[h].pc = "upserted"
  /\ call' = [call EXCEPT
       ![h].pc = "selected",
       ![h].rows = [u \in Ids |-> IF table[u] # NoRow /\ table[u].stamp > call[h].since
                                    THEN table[u] ELSE NoRow]]
  /\ UNCHANGED <<table, lock>>

(* An error or a panic between the statements; what is committed stays. *)
Fail(h) ==
  /\ call[h].pc \in {"received", "upserted"}
  /\ call' = [call EXCEPT ![h] = [Idle EXCEPT !.pc = "failed"]]
  /\ UNCHANGED <<table, lock>>

Return(h) ==
  /\ call[h].pc \in {"selected", "failed"}
  /\ call' = [call EXCEPT ![h] = Idle]
  /\ UNCHANGED <<table, lock>>

Next ==
  \E h \in Handlers :
    \/ \E batch \in Batches, since \in Cursors : Receive(h, batch, since)
    \/ \E u \in Ids : VisitRow(h, u)
    \/ BeginUpsert(h) \/ TakeRow(h) \/ Commit(h) \/ Rollback(h)
    \/ Select(h) \/ Fail(h) \/ Return(h)

Spec == Init /\ [][Next]_vars

------------------------------------------------------------------------------
(* Waiting. *)

WaitsFor(h, g) ==
  /\ call[h].pc = "upserting"
  /\ call[h].at # NoId
  /\ lock[call[h].at] = g

(* h waits in, or behind, a circle of requests that wait for each other. *)
Deadlocked(h) ==
  \E circle \in SUBSET Handlers :
    /\ h \in circle
    /\ \A f \in circle : \E g \in circle : WaitsFor(f, g)

BreakDeadlock(h) == Deadlocked(h) /\ Rollback(h)

(* Postgres runs its statements, grants a row lock to its waiters in turn and
   breaks deadlocks. *)
DatabaseFairness ==
  \A h \in Handlers :
    /\ WF_vars(\E u \in Ids : VisitRow(h, u))
    /\ SF_vars(TakeRow(h))
    /\ WF_vars(Commit(h))
    /\ WF_vars(BreakDeadlock(h))

------------------------------------------------------------------------------
(***************************************************************************)
(* Inductive invariant: a statement holds the locks of the rows it has     *)
(* visited and of no others, so a row it has decided on is still the same  *)
(* when it commits.                                                        *)
(***************************************************************************)
Visited(h) == (Stored(call[h].batch) \ call[h].todo) \ {call[h].at}

HoldsLocks(h) ==
  IF call[h].pc = "upserting"
    THEN /\ call[h].todo \subseteq Stored(call[h].batch)
         /\ call[h].at # NoId => call[h].at \in Stored(call[h].batch) \ call[h].todo
         /\ \A u \in Ids : lock[u] = h <=> u \in Visited(h)
         /\ call[h].taken = {u \in Visited(h) : IsNewer(call[h].batch[u], u)}
    ELSE \A u \in Ids : lock[u] # h

NotSelected(h) == call[h].pc # "selected" => call[h].rows = NoRows

NotUpserted(h) ==
  call[h].pc \in {"idle", "received", "failed"} =>
    call[h].taken = {} /\ call[h].todo = {} /\ call[h].at = NoId

UpsertInv ==
  /\ TypeOK
  /\ \A h \in Handlers : HoldsLocks(h) /\ NotSelected(h) /\ NotUpserted(h)

(***************************************************************************)
(* The rows an answer calls applied are in the table, each as it was sent  *)
(* or in a later version: the device marks them clean and sends them no    *)
(* more.  Other requests upsert between the two statements, and after.     *)
(***************************************************************************)
AnswersTaken ==
  \A h \in Handlers : call[h].pc \in {"upserted", "selected"} =>
    \A u \in call[h].taken :
      /\ table[u] # NoRow
      /\ table[u] = call[h].batch[u] \/ table[u].version > call[h].batch[u].version

(* Seen from outside, a request whose upsert runs has been asked, and no more. *)
Stage(pc) ==
  CASE pc \in {"received", "upserting"} -> "asked"
    [] pc = "upserted" -> "applied"
    [] pc = "selected" -> "answered"
    [] OTHER -> "none"

Seen(h) ==
  [state |-> Stage(call[h].pc), batch |-> call[h].batch, since |-> call[h].since,
   taken |-> IF call[h].pc = "upserting" THEN {} ELSE call[h].taken,
   rows  |-> call[h].rows]

Uploads == INSTANCE VersionedTable WITH request <- [h \in Handlers |-> Seen(h)]

(* Row locks taken one by one, in any order and by any number of requests, make
   uploads that take effect at one instant: the step ServerUpsert of VaultSync. *)
TableSpec == Uploads!Spec
==============================================================================
