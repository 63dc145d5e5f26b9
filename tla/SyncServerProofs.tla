--------------------------- MODULE SyncServerProofs ---------------------------
(***************************************************************************)
(* Proofs about SyncServer, for any number of requests and of rows.        *)
(*                                                                         *)
(* UpsertInv is inductive: a statement holds the locks of just the rows it *)
(* has visited, so what it has decided about them is still true when it    *)
(* commits.  From it follow that the rows an answer reports are in the     *)
(* table, and that the statements, row by row and interleaved, implement   *)
(* uploads that take effect at one instant.                                *)
(***************************************************************************)
EXTENDS SyncServer, TLAPS

USE NoneAssumption

(* The table with no row in it is a table. *)
LEMMA NoRowsType == NoRows \in Table
  BY DEF NoRows, Table

LEMMA IdleType == Idle \in Call
  BY NoRowsType DEF Idle, Call

(* An action writes the call of its request only. *)
LEMMA CallUpdate ==
  ASSUME NEW h \in Handlers, NEW c \in Call, call \in [Handlers -> Call]
  PROVE  [call EXCEPT ![h] = c] \in [Handlers -> Call]
  OBVIOUS

LEMMA InitType == Init => TypeOK
  BY NoRowsType, IdleType DEF Init, TypeOK

LEMMA ReceiveType ==
  ASSUME TypeOK, NEW h \in Handlers, NEW batch \in Batches, NEW since \in Cursors, Receive(h, batch, since)
  PROVE  TypeOK'
<1>1. batch \in Table /\ since \in Nat
  BY RequestAssumption
<1>2. [Idle EXCEPT !.pc = "received", !.batch = batch, !.since = since] \in Call
  BY <1>1, IdleType DEF Call
<1>3. QED
  BY <1>2, CallUpdate DEF Receive, TypeOK

LEMMA BeginType == ASSUME TypeOK, NEW h \in Handlers, BeginUpsert(h) PROVE TypeOK'
<1>1. call[h] \in Call
  BY DEF TypeOK
<1>2. Stored(call[h].batch) \in SUBSET Ids
  BY DEF Stored
<1>3. QED
  BY <1>1, <1>2 DEF BeginUpsert, TypeOK, Call

LEMMA VisitType == ASSUME TypeOK, NEW h \in Handlers, NEW u \in Ids, VisitRow(h, u) PROVE TypeOK'
<1>1. call[h] \in Call
  BY DEF TypeOK
<1>2. QED
  BY <1>1 DEF VisitRow, TypeOK, Call

LEMMA TakeType == ASSUME TypeOK, NEW h \in Handlers, TakeRow(h) PROVE TypeOK'
<1>1. call[h] \in Call /\ call[h].at \in Ids
  BY DEF TypeOK, Call, TakeRow
<1>2. lock' \in [Ids -> Handlers \cup {NoHandler}]
  BY <1>1 DEF TakeRow, TypeOK
<1>3. (IF IsNewer(call[h].batch[call[h].at], call[h].at) THEN call[h].taken \cup {call[h].at}
                                                          ELSE call[h].taken) \in SUBSET Ids
  BY <1>1 DEF Call
<1>4. call' \in [Handlers -> Call]
  BY <1>1, <1>3 DEF TakeRow, TypeOK, Call
<1>5. QED
  BY <1>2, <1>4 DEF TakeRow, TypeOK

LEMMA ReleasedType == ASSUME TypeOK, NEW h \in Handlers PROVE Released(h) \in [Ids -> Handlers \cup {NoHandler}]
  BY DEF Released, TypeOK

LEMMA CommitType == ASSUME TypeOK, NEW h \in Handlers, Commit(h) PROVE TypeOK'
<1>1. call[h] \in Call /\ table \in Table
  BY DEF TypeOK
<1>2. table' \in Table
  BY <1>1 DEF Commit, Table, Call
<1>3. lock' \in [Ids -> Handlers \cup {NoHandler}]
  BY ReleasedType DEF Commit
<1>4. call' \in [Handlers -> Call]
  BY <1>1 DEF Commit, Reported, TypeOK, Call
<1>5. QED
  BY <1>2, <1>3, <1>4 DEF TypeOK

(* A failed request keeps nothing but its outcome. *)
LEMMA FailedType == [Idle EXCEPT !.pc = "failed"] \in Call
  BY IdleType DEF Call

LEMMA RollbackType == ASSUME TypeOK, NEW h \in Handlers, Rollback(h) PROVE TypeOK'
  BY FailedType, CallUpdate, ReleasedType DEF Rollback, TypeOK

(* What GetUpdatedAfter returns. *)
Pulled(h) ==
  [u \in Ids |-> IF table[u] # NoRow /\ table[u].stamp > call[h].since THEN table[u] ELSE NoRow]

LEMMA SelectType == ASSUME TypeOK, NEW h \in Handlers, Select(h) PROVE TypeOK'
<1>1. call[h] \in Call /\ table \in Table
  BY DEF TypeOK
<1>2. Pulled(h) \in Table
  BY <1>1 DEF Pulled, Table
<1>3. call' = [call EXCEPT ![h].pc = "selected", ![h].rows = Pulled(h)]
  BY DEF Select, Pulled
<1>4. call' \in [Handlers -> Call]
  BY <1>1, <1>2, <1>3 DEF TypeOK, Call
<1>5. QED
  BY <1>4 DEF Select, TypeOK

LEMMA FailType == ASSUME TypeOK, NEW h \in Handlers, Fail(h) PROVE TypeOK'
  BY FailedType, CallUpdate DEF Fail, TypeOK

LEMMA ReturnType == ASSUME TypeOK, NEW h \in Handlers, Return(h) PROVE TypeOK'
  BY IdleType, CallUpdate DEF Return, TypeOK

LEMMA TypeStep == TypeOK /\ [Next]_vars => TypeOK'
<1> SUFFICES ASSUME TypeOK, [Next]_vars PROVE TypeOK'
  OBVIOUS
<1>1. CASE UNCHANGED vars
  BY <1>1 DEF vars, TypeOK
<1>2. ASSUME NEW h \in Handlers,
             \/ \E batch \in Batches, since \in Cursors : Receive(h, batch, since)
             \/ \E u \in Ids : VisitRow(h, u)
             \/ BeginUpsert(h) \/ TakeRow(h) \/ Commit(h) \/ Rollback(h)
             \/ Select(h) \/ Fail(h) \/ Return(h)
      PROVE  TypeOK'
  BY <1>2, ReceiveType, BeginType, VisitType, TakeType, CommitType, RollbackType, SelectType,
     FailType, ReturnType
<1>3. QED
  BY <1>1, <1>2 DEF Next

------------------------------------------------------------------------------
(* Locks. *)

(* What holds of a request: the part of UpsertInv about it. *)
CallInv(h) == HoldsLocks(h) /\ NotSelected(h) /\ NotUpserted(h)

(* A step keeps what holds of a request it does not take part in, if it leaves
   the request's locks and the rows under them alone. *)
LEMMA OtherRequest ==
  ASSUME TypeOK, NEW g \in Handlers, CallInv(g), call'[g] = call[g],
         \A u \in Ids : lock'[u] = g <=> lock[u] = g,
         \A u \in Ids : lock[u] = g => table'[u] = table[u]
  PROVE  CallInv(g)'
<1>1. NotSelected(g)' /\ NotUpserted(g)'
  BY DEF CallInv, NotSelected, NotUpserted
<1>2. CASE call[g].pc # "upserting"
  BY <1>1, <1>2 DEF CallInv, HoldsLocks
<1>3. CASE call[g].pc = "upserting"
  <2>1. Visited(g)' = Visited(g) /\ Visited(g) \subseteq Ids
    BY DEF Visited, Stored
  <2>2. \A u \in Visited(g) : IsNewer(call[g].batch[u], u)' <=> IsNewer(call[g].batch[u], u)
    BY <1>3, <2>1 DEF CallInv, HoldsLocks, IsNewer
  <2>3. call[g].taken = {u \in Visited(g) : IsNewer(call[g].batch[u], u)}
    BY <1>3 DEF CallInv, HoldsLocks
  <2>4. call'[g].taken = {u \in Visited(g) : IsNewer(call[g].batch[u], u)'}
    BY <2>2, <2>3
  <2>5. HoldsLocks(g)'
    BY <1>3, <2>1, <2>4 DEF CallInv, HoldsLocks, IsNewer
  <2>6. QED
    BY <1>1, <2>5 DEF CallInv
<1>4. QED
  BY <1>2, <1>3

LEMMA ReceiveInv ==
  ASSUME TypeOK, NEW h \in Handlers, CallInv(h), NEW batch \in Batches, NEW since \in Cursors,
         Receive(h, batch, since)
  PROVE  CallInv(h)'
  BY DEF Receive, TypeOK, CallInv, HoldsLocks, NotSelected, NotUpserted, Idle

LEMMA BeginInv == ASSUME TypeOK, NEW h \in Handlers, CallInv(h), BeginUpsert(h) PROVE CallInv(h)'
<1>1. /\ call'[h].batch = call[h].batch /\ call'[h].todo = Stored(call[h].batch)
      /\ call'[h].at = call[h].at /\ call'[h].taken = call[h].taken
      /\ call'[h].rows = call[h].rows
      /\ call'[h].pc \in {"upserted", "upserting"}
      /\ call[h].pc = "received" /\ lock' = lock /\ table' = table
  BY DEF BeginUpsert, TypeOK, Call
<1>2. call[h].taken = {} /\ call[h].at = NoId /\ (\A u \in Ids : lock[u] # h) /\ call[h].rows = NoRows
  BY <1>1 DEF CallInv, HoldsLocks, NotSelected, NotUpserted
<1>3. Visited(h)' = {}
  BY <1>1, <1>2 DEF Visited, Stored
<1>4. HoldsLocks(h)'
  BY <1>1, <1>2, <1>3 DEF HoldsLocks, Stored
<1>5. QED
  BY <1>1, <1>2, <1>4 DEF CallInv, NotSelected, NotUpserted

LEMMA VisitInv ==
  ASSUME TypeOK, NEW h \in Handlers, CallInv(h), NEW u \in Ids, VisitRow(h, u)
  PROVE  CallInv(h)'
<1>1. /\ call'[h].batch = call[h].batch /\ call'[h].todo = call[h].todo \ {u}
      /\ call'[h].at = u /\ call'[h].taken = call[h].taken /\ call'[h].rows = call[h].rows
      /\ call'[h].pc = "upserting" /\ call[h].pc = "upserting" /\ call[h].at = NoId
      /\ u \in call[h].todo /\ lock' = lock /\ table' = table
  BY DEF VisitRow, TypeOK, Call
<1>2. call[h].todo \subseteq Stored(call[h].batch)
  BY <1>1 DEF CallInv, HoldsLocks
<1>3. Visited(h)' = Visited(h)
  BY <1>1, <1>2 DEF Visited, Stored
<1>4. HoldsLocks(h)'
  BY <1>1, <1>2, <1>3 DEF CallInv, HoldsLocks, Stored, IsNewer
<1>5. QED
  BY <1>1, <1>4 DEF CallInv, NotSelected, NotUpserted

LEMMA TakeInv == ASSUME TypeOK, NEW h \in Handlers, CallInv(h), TakeRow(h) PROVE CallInv(h)'
<1> DEFINE u == call[h].at
<1>1. /\ call'[h].batch = call[h].batch /\ call'[h].todo = call[h].todo
      /\ call'[h].at = NoId /\ call'[h].rows = call[h].rows
      /\ call'[h].pc = "upserting" /\ call[h].pc = "upserting"
      /\ u \in Ids /\ u # NoId /\ table' = table
      /\ \A v \in Ids : lock'[v] = IF v = u THEN h ELSE lock[v]
  BY DEF TakeRow, TypeOK, Call
<1>2. call'[h].taken = IF IsNewer(call[h].batch[u], u) THEN call[h].taken \cup {u} ELSE call[h].taken
  BY DEF TakeRow, TypeOK, Call
<1> HIDE DEF u
<1>3. /\ call[h].todo \subseteq Stored(call[h].batch)
      /\ u \in Stored(call[h].batch) \ call[h].todo
      /\ \A v \in Ids : lock[v] = h <=> v \in Visited(h)
      /\ call[h].taken = {v \in Visited(h) : IsNewer(call[h].batch[v], v)}
  BY <1>1 DEF CallInv, HoldsLocks, u
<1>4. Visited(h)' = Visited(h) \cup {u} /\ Visited(h) \subseteq Ids
  BY <1>1, <1>3 DEF Visited, Stored, u
<1>5. \A v \in Ids : lock'[v] = h <=> v \in Visited(h)'
  BY <1>1, <1>3, <1>4
<1>6. call'[h].taken = {v \in Visited(h)' : IsNewer(call[h].batch[v], v)}
  BY <1>2, <1>3, <1>4
<1>7. \A v : IsNewer(call[h].batch[v], v)' <=> IsNewer(call[h].batch[v], v)
  BY <1>1 DEF IsNewer
<1>8. call'[h].taken = {v \in Visited(h)' : IsNewer(call[h].batch[v], v)'}
  BY <1>6, <1>7
<1>9. HoldsLocks(h)'
  BY <1>1, <1>3, <1>5, <1>8 DEF HoldsLocks, Stored, IsNewer
<1>10. QED
  BY <1>1, <1>9 DEF CallInv, NotSelected, NotUpserted

(* The end of a statement leaves the request without locks. *)
LEMMA ReleasedNone ==
  ASSUME TypeOK, NEW h \in Handlers, lock' = Released(h)
  PROVE  /\ \A u \in Ids : lock'[u] # h
         /\ \A g \in Handlers \ {h} : \A u \in Ids : lock'[u] = g <=> lock[u] = g
  BY DEF Released, TypeOK

LEMMA EndInv ==
  ASSUME TypeOK, NEW h \in Handlers, CallInv(h), Commit(h) \/ Rollback(h)
  PROVE  CallInv(h)'
<1>1. \A u \in Ids : lock'[u] # h
  BY ReleasedNone DEF Commit, Rollback
<1>2. \/ call'[h].pc = "upserted" /\ call'[h].rows = call[h].rows /\ call[h].pc = "upserting"
      \/ call'[h] = [Idle EXCEPT !.pc = "failed"]
  BY DEF Commit, Rollback, TypeOK, Call
<1>3. QED
  BY <1>1, <1>2 DEF CallInv, HoldsLocks, NotSelected, NotUpserted, Idle

LEMMA SelectInv == ASSUME TypeOK, NEW h \in Handlers, CallInv(h), Select(h) PROVE CallInv(h)'
<1>1. call'[h].pc = "selected" /\ call[h].pc = "upserted" /\ lock' = lock
  BY DEF Select, TypeOK, Call
<1>2. QED
  BY <1>1 DEF CallInv, HoldsLocks, NotSelected, NotUpserted

LEMMA FailInv ==
  ASSUME TypeOK, NEW h \in Handlers, CallInv(h), Fail(h) \/ Return(h)
  PROVE  CallInv(h)'
<1>1. /\ call'[h] \in {Idle, [Idle EXCEPT !.pc = "failed"]}
      /\ call[h].pc # "upserting" /\ lock' = lock
  BY DEF Fail, Return, TypeOK, Call
<1>2. QED
  BY <1>1 DEF CallInv, HoldsLocks, NotSelected, NotUpserted, Idle

(* What an action of h does to the other requests. *)
LEMMA OthersUntouched ==
  ASSUME TypeOK, NEW h \in Handlers, CallInv(h), NEW g \in Handlers, g # h,
         \/ \E batch \in Batches, since \in Cursors : Receive(h, batch, since)
         \/ \E u \in Ids : VisitRow(h, u)
         \/ BeginUpsert(h) \/ TakeRow(h) \/ Commit(h) \/ Rollback(h)
         \/ Select(h) \/ Fail(h) \/ Return(h)
  PROVE  /\ call'[g] = call[g]
         /\ \A u \in Ids : lock'[u] = g <=> lock[u] = g
         /\ \A u \in Ids : lock[u] = g => table'[u] = table[u]
<1>1. call'[g] = call[g]
  BY DEF TypeOK, Receive, VisitRow, BeginUpsert, TakeRow, Commit, Rollback, Select, Fail, Return
<1>2. \A u \in Ids : lock'[u] = g <=> lock[u] = g
  <2>1. CASE Commit(h) \/ Rollback(h)
    BY <2>1, ReleasedNone DEF Commit, Rollback
  <2>2. CASE TakeRow(h)
    <3>1. call[h].at \in Ids /\ lock[call[h].at] = NoHandler
      BY <2>2 DEF TakeRow, TypeOK, Call
    <3>2. \A u \in Ids : lock'[u] = IF u = call[h].at THEN h ELSE lock[u]
      BY <2>2, <3>1 DEF TakeRow, TypeOK
    <3>3. QED
      BY <3>1, <3>2
  <2>3. CASE lock' = lock
    BY <2>3
  <2>4. QED
    BY <2>1, <2>2, <2>3 DEF Receive, VisitRow, BeginUpsert, Select, Fail, Return
<1>3. \A u \in Ids : lock[u] = g => table'[u] = table[u]
  <2>1. CASE Commit(h)
    <3>1. \A u \in call[h].taken : lock[u] = h
      <4>1. call[h].taken = {u \in Visited(h) : IsNewer(call[h].batch[u], u)}
            /\ \A u \in Ids : lock[u] = h <=> u \in Visited(h)
        BY <2>1 DEF Commit, CallInv, HoldsLocks
      <4>2. Visited(h) \subseteq Ids
        BY DEF Visited, Stored
      <4>3. QED
        BY <4>1, <4>2
    <3>2. QED
      BY <2>1, <3>1 DEF Commit, TypeOK, Table
  <2>2. CASE table' = table
    BY <2>2
  <2>3. QED
    BY <2>1, <2>2 DEF Receive, VisitRow, BeginUpsert, TakeRow, Rollback, Select, Fail, Return
<1>4. QED
  BY <1>1, <1>2, <1>3

LEMMA InvStep == UpsertInv /\ [Next]_vars => UpsertInv'
<1> SUFFICES ASSUME UpsertInv, [Next]_vars PROVE UpsertInv'
  OBVIOUS
<1>1. TypeOK /\ TypeOK' /\ \A h \in Handlers : CallInv(h)
  BY TypeStep DEF UpsertInv, CallInv
<1>2. ASSUME NEW h \in Handlers,
             \/ \E batch \in Batches, since \in Cursors : Receive(h, batch, since)
             \/ \E u \in Ids : VisitRow(h, u)
             \/ BeginUpsert(h) \/ TakeRow(h) \/ Commit(h) \/ Rollback(h)
             \/ Select(h) \/ Fail(h) \/ Return(h)
      PROVE  \A g \in Handlers : CallInv(g)'
  <2>1. CallInv(h)'
    BY <1>1, <1>2, ReceiveInv, BeginInv, VisitInv, TakeInv, EndInv, SelectInv, FailInv
  <2>2. ASSUME NEW g \in Handlers, g # h PROVE CallInv(g)'
    BY <1>1, <1>2, <2>2, OthersUntouched, OtherRequest
  <2>3. QED
    BY <2>1, <2>2
<1>3. ASSUME UNCHANGED vars PROVE \A g \in Handlers : CallInv(g)'
  BY <1>1, <1>3, OtherRequest DEF vars
<1>4. \A g \in Handlers : CallInv(g)'
  BY <1>2, <1>3 DEF Next
<1>5. QED
  BY <1>1, <1>4 DEF UpsertInv, CallInv

LEMMA InitInv == Init => UpsertInv
<1> SUFFICES ASSUME Init PROVE UpsertInv
  OBVIOUS
<1>1. \A h \in Handlers : call[h] = Idle /\ \A u \in Ids : lock[u] # h
  BY DEF Init
<1>2. QED
  BY <1>1, InitType DEF UpsertInv, HoldsLocks, NotSelected, NotUpserted, Idle

(***************************************************************************)
(* A statement holds the locks of the rows it has visited and of no others *)
(* until it ends, and what it has decided to write is what is newer than   *)
(* the table all that time.                                                *)
(***************************************************************************)
THEOREM UpsertInvariant == Spec => []UpsertInv
  BY InitInv, InvStep, PTL DEF Spec

------------------------------------------------------------------------------
(* Answers. *)

(* AnswersTaken, of one request; and the rows were in the request. *)
AnswerTaken(h) ==
  call[h].pc \in {"upserted", "selected"} =>
    \A u \in call[h].taken :
      /\ call[h].batch[u] \in Row
      /\ table[u] # NoRow
      /\ table[u] = call[h].batch[u] \/ table[u].version > call[h].batch[u].version

(* What a statement has decided to write are rows, newer than the table's. *)
LEMMA TakenNewer ==
  ASSUME UpsertInv, NEW h \in Handlers, call[h].pc = "upserting", NEW u \in call[h].taken
  PROVE  /\ u \in Ids /\ call[h].batch[u] \in Row
         /\ IsNewer(call[h].batch[u], u)
<1>1. call[h].taken = {v \in Visited(h) : IsNewer(call[h].batch[v], v)}
  BY DEF UpsertInv, HoldsLocks
<1>2. u \in Stored(call[h].batch)
  BY <1>1 DEF Visited
<1>3. call[h].batch \in Table
  BY DEF UpsertInv, TypeOK, Call
<1>4. QED
  BY <1>1, <1>2, <1>3 DEF Stored, Table

(* No step takes a row of the table back. *)
LEMMA TableGrows ==
  ASSUME UpsertInv, [Next]_vars, NEW u \in Ids, table[u] # NoRow
  PROVE  /\ table'[u] # NoRow
         /\ table'[u] = table[u] \/ table'[u].version > table[u].version
<1>1. ASSUME NEW h \in Handlers, Commit(h), u \in call[h].taken PROVE table'[u] = call[h].batch[u]
  BY <1>1 DEF Commit
<1>2. ASSUME NEW h \in Handlers, Commit(h), u \notin call[h].taken PROVE table'[u] = table[u]
  BY <1>2 DEF Commit
<1>3. ASSUME NEW h \in Handlers, Commit(h), u \in call[h].taken
      PROVE  call[h].batch[u] \in Row /\ table[u].version < call[h].batch[u].version
  BY <1>3, TakenNewer DEF Commit, IsNewer
<1>4. ASSUME NEW h \in Handlers, Commit(h)
      PROVE  /\ table'[u] # NoRow
             /\ table'[u] = table[u] \/ table'[u].version > table[u].version
  <2>1. table[u] \in Row
    BY DEF UpsertInv, TypeOK, Table
  <2>2. CASE u \in call[h].taken
    BY <1>1, <1>3, <1>4, <2>1, <2>2, RowAssumption
  <2>3. CASE u \notin call[h].taken
    BY <1>2, <1>4, <2>3
  <2>4. QED
    BY <2>2, <2>3
<1>5. CASE table' = table
  BY <1>5
<1>6. QED
  BY <1>4, <1>5 DEF Next, vars, Receive, VisitRow, BeginUpsert, TakeRow, Rollback, Select, Fail, Return

(* A request that goes on reporting the same rows reports rows still taken. *)
LEMMA AnswerKept ==
  ASSUME UpsertInv, [Next]_vars, NEW h \in Handlers, AnswerTaken(h),
         call[h].pc \in {"upserted", "selected"},
         call'[h].taken = call[h].taken, call'[h].batch = call[h].batch
  PROVE  AnswerTaken(h)'
<1> SUFFICES ASSUME NEW u \in call[h].taken
             PROVE  /\ table'[u] # NoRow
                    /\ \/ table'[u] = call[h].batch[u]
                       \/ table'[u].version > call[h].batch[u].version
  BY DEF AnswerTaken
<1>1. u \in Ids
  BY DEF UpsertInv, TypeOK, Call
<1>2. /\ call[h].batch[u] \in Row /\ table[u] # NoRow
      /\ table[u] = call[h].batch[u] \/ table[u].version > call[h].batch[u].version
  BY DEF AnswerTaken
<1>3. table'[u] # NoRow /\ (table'[u] = table[u] \/ table'[u].version > table[u].version)
  BY <1>1, <1>2, TableGrows
<1>4. table[u] \in Row /\ table'[u] \in Row
  BY <1>1, <1>2, <1>3, TypeStep DEF UpsertInv, TypeOK, Table
<1>5. QED
  BY <1>2, <1>3, <1>4, RowAssumption

LEMMA AnswerStep ==
  ASSUME UpsertInv, [Next]_vars, \A h \in Handlers : AnswerTaken(h)
  PROVE  \A h \in Handlers : AnswerTaken(h)'
<1>1. ASSUME NEW h \in Handlers,
             \/ \E batch \in Batches, since \in Cursors : Receive(h, batch, since)
             \/ \E u \in Ids : VisitRow(h, u)
             \/ BeginUpsert(h) \/ TakeRow(h) \/ Commit(h) \/ Rollback(h)
             \/ Select(h) \/ Fail(h) \/ Return(h)
      PROVE  \A g \in Handlers : AnswerTaken(g)'
  <2>1. ASSUME NEW g \in Handlers, call'[g] = call[g] PROVE AnswerTaken(g)'
    <3>1. CASE call[g].pc \in {"upserted", "selected"}
      BY <2>1, <3>1, AnswerKept
    <3>2. CASE call[g].pc \notin {"upserted", "selected"}
      BY <2>1, <3>2 DEF AnswerTaken
    <3>3. QED
      BY <3>1, <3>2
  <2>2. ASSUME NEW g \in Handlers, g # h PROVE call'[g] = call[g]
    BY <1>1, <2>2, OthersUntouched DEF UpsertInv, CallInv
  <2>3. AnswerTaken(h)'
    <3>1. CASE Commit(h)
      <4>1. call'[h].taken = call[h].taken /\ call'[h].batch = call[h].batch /\ call[h].pc = "upserting"
        BY <3>1 DEF Commit, Reported, UpsertInv, TypeOK, Call
      <4>2. \A u \in call[h].taken : u \in Ids /\ call[h].batch[u] \in Row
        BY <4>1, TakenNewer
      <4>3. \A u \in call[h].taken : table'[u] = call[h].batch[u] /\ table'[u] # NoRow
        BY <3>1, <4>2, RowAssumption DEF Commit
      <4>4. QED
        BY <4>1, <4>2, <4>3 DEF AnswerTaken
    <3>2. CASE BeginUpsert(h)
      <4>1. call[h].taken = {} /\ call'[h].taken = call[h].taken
        BY <3>2 DEF BeginUpsert, UpsertInv, NotUpserted, TypeOK, Call
      <4>2. QED
        BY <4>1 DEF AnswerTaken
    <3>3. CASE Select(h)
      <4>1. /\ call[h].pc = "upserted" /\ call'[h].taken = call[h].taken
            /\ call'[h].batch = call[h].batch
        BY <3>3 DEF Select, UpsertInv, TypeOK, Call
      <4>2. QED
        BY <4>1, AnswerKept
    <3>4. CASE call'[h].pc \notin {"upserted", "selected"}
      BY <3>4 DEF AnswerTaken
    <3>5. ASSUME \/ \E batch \in Batches, since \in Cursors : Receive(h, batch, since)
                 \/ \E u \in Ids : VisitRow(h, u)
                 \/ TakeRow(h) \/ Rollback(h) \/ Fail(h) \/ Return(h)
          PROVE  call'[h].pc \notin {"upserted", "selected"}
      <4>1. call \in [Handlers -> Call]
        BY DEF UpsertInv, TypeOK
      <4>2. CASE (\E u \in Ids : VisitRow(h, u)) \/ TakeRow(h)
        BY <4>1, <4>2 DEF VisitRow, TakeRow, Call
      <4>3. ASSUME NEW batch, NEW since, Receive(h, batch, since)
            PROVE  call'[h].pc = "received"
        BY <4>1, <4>3 DEF Receive, Idle
      <4>4. CASE Rollback(h) \/ Fail(h)
        BY <4>1, <4>4 DEF Rollback, Fail, Idle
      <4>5. CASE Return(h)
        BY <4>1, <4>5 DEF Return, Idle
      <4>6. QED
        BY <3>5, <4>2, <4>3, <4>4, <4>5
    <3>6. QED
      BY <1>1, <3>1, <3>2, <3>3, <3>4, <3>5
  <2>4. QED
    BY <2>1, <2>2, <2>3
<1>2. ASSUME UNCHANGED vars PROVE \A h \in Handlers : AnswerTaken(h)'
  BY <1>2 DEF vars, AnswerTaken
<1>3. QED
  BY <1>1, <1>2 DEF Next

(***************************************************************************)
(* Every row an answer calls applied is in the table, as it was sent or in *)
(* a later version, while the answer is on its way.                        *)
(***************************************************************************)
THEOREM ReportedRowsAreTaken == Spec => []AnswersTaken
<1>1. Init => \A h \in Handlers : AnswerTaken(h)
  BY DEF Init, AnswerTaken, Idle
<1> DEFINE AllTaken == \A h \in Handlers : AnswerTaken(h)
<1>2. AllTaken => AnswersTaken
  BY DEF AnswersTaken, AnswerTaken
<1>3. UpsertInv /\ AllTaken /\ [Next]_vars => AllTaken'
  BY AnswerStep
<1> HIDE DEF AllTaken
<1>4. Init => AllTaken
  BY <1>1 DEF AllTaken
<1>5. QED
  BY <1>2, <1>3, <1>4, UpsertInvariant, PTL DEF Spec

------------------------------------------------------------------------------
(* Uploads at one instant. *)

(* A request that is idle or has failed keeps nothing of what it was. *)
Quiet(h) == call[h].pc \in {"idle", "failed"} => call[h] = [Idle EXCEPT !.pc = call[h].pc]

LEMMA QuietInit == Init => \A h \in Handlers : Quiet(h)
  BY DEF Init, Quiet, Idle

(* Visiting and taking a row change no more than the upsert's own fields. *)
LEMMA VisitKeeps ==
  ASSUME call \in [Handlers -> Call], NEW h \in Handlers, NEW u \in Ids, VisitRow(h, u)
  PROVE  /\ call[h].pc = "upserting" /\ call'[h].pc = "upserting"
         /\ call'[h].batch = call[h].batch /\ call'[h].since = call[h].since
         /\ call'[h].rows = call[h].rows
<1>1. call' = [call EXCEPT ![h] = [[call[h] EXCEPT !.at = u] EXCEPT !.todo = call[h].todo \ {u}]]
  BY DEF VisitRow, Call
<1>2. QED
  BY <1>1 DEF VisitRow, Call

LEMMA TakeKeeps ==
  ASSUME call \in [Handlers -> Call], NEW h \in Handlers, TakeRow(h)
  PROVE  /\ call[h].pc = "upserting" /\ call'[h].pc = "upserting"
         /\ call'[h].batch = call[h].batch /\ call'[h].since = call[h].since
         /\ call'[h].rows = call[h].rows
<1> DEFINE u == call[h].at
           now == IF IsNewer(call[h].batch[u], u) THEN call[h].taken \cup {u} ELSE call[h].taken
<1>1. call[h].pc = "upserting" /\ call' = [call EXCEPT ![h].at = NoId, ![h].taken = now]
  BY DEF TakeRow
<1> HIDE DEF now
<1>2. QED
  BY <1>1 DEF Call

LEMMA QuietStep ==
  ASSUME TypeOK, [Next]_vars, \A h \in Handlers : Quiet(h)
  PROVE  \A h \in Handlers : Quiet(h)'
<1>0. call \in [Handlers -> Call]
  BY DEF TypeOK
<1>1. ASSUME NEW h \in Handlers, NEW g \in Handlers,
             \/ \E batch \in Batches, since \in Cursors : Receive(h, batch, since)
             \/ \E u \in Ids : VisitRow(h, u)
             \/ BeginUpsert(h) \/ TakeRow(h) \/ Commit(h) \/ Rollback(h)
             \/ Select(h) \/ Fail(h) \/ Return(h)
      PROVE  Quiet(g)'
  <2>1. ASSUME call'[g] = call[g] PROVE Quiet(g)'
    BY <2>1 DEF Quiet
  <2>2. ASSUME g = h, NEW batch \in Batches, NEW since \in Cursors, Receive(h, batch, since)
        PROVE  call'[h].pc = "received"
    BY <1>0, <2>2 DEF Receive, Idle
  <2>3. ASSUME BeginUpsert(h) PROVE call'[h].pc \in {"upserted", "upserting"}
    BY <1>0, <2>3 DEF BeginUpsert, Call
  <2>4. ASSUME (\E u \in Ids : VisitRow(h, u)) \/ TakeRow(h) PROVE call'[h].pc = "upserting"
    BY <1>0, <2>4, VisitKeeps, TakeKeeps
  <2>5. ASSUME Commit(h) \/ Select(h) PROVE call'[h].pc \in {"upserted", "selected"}
    BY <1>0, <2>5 DEF Commit, Select, Call
  <2>6. ASSUME Rollback(h) \/ Fail(h) PROVE call'[h] = [Idle EXCEPT !.pc = "failed"]
    BY <1>0, <2>6 DEF Rollback, Fail
  <2>7. ASSUME Return(h) PROVE call'[h] = Idle
    BY <1>0, <2>7 DEF Return
  <2>8. ASSUME g # h PROVE call'[g] = call[g]
    BY <1>0, <1>1, <2>8
       DEF Receive, VisitRow, BeginUpsert, TakeRow, Commit, Rollback, Select, Fail, Return
  <2>9. ASSUME g = h, call'[h].pc \notin {"idle", "failed"} PROVE Quiet(g)'
    BY <2>9 DEF Quiet
  <2>10. ASSUME g = h, call'[h] \in {Idle, [Idle EXCEPT !.pc = "failed"]} PROVE Quiet(g)'
    BY <2>10 DEF Quiet, Idle
  <2>11. QED
    <3>1. CASE g # h
      BY <2>1, <2>8, <3>1
    <3>2. CASE g = h
      <4>1. \/ call'[h].pc \in {"received", "upserting", "upserted", "selected"}
            \/ call'[h] \in {Idle, [Idle EXCEPT !.pc = "failed"]}
        BY <1>1, <2>2, <2>3, <2>4, <2>5, <2>6, <2>7, <3>2
      <4>2. QED
        BY <2>9, <2>10, <3>2, <4>1
    <3>3. QED
      BY <3>1, <3>2
<1>2. ASSUME UNCHANGED vars PROVE \A h \in Handlers : Quiet(h)'
  BY <1>2 DEF vars, Quiet
<1>3. QED
  BY <1>1, <1>2 DEF Next

LEMMA Stages ==
  /\ Stage("received") = "asked" /\ Stage("upserting") = "asked"
  /\ Stage("upserted") = "applied" /\ Stage("selected") = "answered"
  /\ Stage("idle") = "none" /\ Stage("failed") = "none"
  BY DEF Stage

(* The request the abstraction sees while h is in none. *)
LEMMA SeenQuiet ==
  ASSUME NEW h \in Handlers, call[h] \in {Idle, [Idle EXCEPT !.pc = "failed"]}
  PROVE  Seen(h) = Uploads!None
  BY DEF Seen, Stage, Idle, Uploads!None, NoRows, Uploads!NoRows

LEMMA TableInit == Init => Uploads!Init
<1> SUFFICES ASSUME Init PROVE Uploads!Init
  OBVIOUS
<1>1. \A h \in Handlers : Seen(h) = Uploads!None
  BY SeenQuiet DEF Init
<1>2. QED
  BY <1>1 DEF Init, Uploads!Init, NoRows, Uploads!NoRows

(* The abstraction sees a step of h change the request of h alone. *)
LEMMA SeenStep ==
  ASSUME NEW h \in Handlers, NEW c, call \in [Handlers -> Call],
         \A g \in Handlers \ {h} : call'[g] = call[g], Seen(h)' = c
  PROVE  [g \in Handlers |-> Seen(g)]' = [[g \in Handlers |-> Seen(g)] EXCEPT ![h] = c]
<1>1. \A g \in Handlers \ {h} : Seen(g)' = Seen(g)
  BY DEF Seen, Stage
<1>2. QED
  BY <1>1

LEMMA AskMap ==
  ASSUME TypeOK, NEW h \in Handlers, Quiet(h), NEW batch \in Batches, NEW since \in Cursors,
         Receive(h, batch, since)
  PROVE  Uploads!Ask(h)
<1>1. call \in [Handlers -> Call] /\ table' = table
  BY DEF TypeOK, Receive
<1>2. Seen(h) = Uploads!None
  BY SeenQuiet DEF Receive, Quiet, Idle
<1>3. call'[h] = [Idle EXCEPT !.pc = "received", !.batch = batch, !.since = since]
  BY <1>1 DEF Receive
<1> DEFINE r1 == [state |-> "asked", batch |-> NoRows, since |-> 0, taken |-> {}, rows |-> NoRows]
           r2 == [state |-> "asked", batch |-> batch, since |-> 0, taken |-> {}, rows |-> NoRows]
<1>4. Seen(h)' = [Uploads!None EXCEPT !.state = "asked", !.batch = batch, !.since = since]
  <2>1. /\ call'[h].pc = "received" /\ call'[h].batch = batch /\ call'[h].since = since
        /\ call'[h].taken = {} /\ call'[h].rows = NoRows
    BY <1>3 DEF Idle
  <2>2. Seen(h)' = [state |-> "asked", batch |-> batch, since |-> since, taken |-> {},
                    rows |-> NoRows]
    BY <2>1, Stages DEF Seen
  <2>3. [Uploads!None EXCEPT !.state = "asked"] = r1
    BY DEF Uploads!None, NoRows, Uploads!NoRows
  <2>4. [r1 EXCEPT !.batch = batch] = r2
    OBVIOUS
  <2>5. [r2 EXCEPT !.since = since] =
          [state |-> "asked", batch |-> batch, since |-> since, taken |-> {}, rows |-> NoRows]
    OBVIOUS
  <2> HIDE DEF r1, r2
  <2>6. [Uploads!None EXCEPT !.state = "asked", !.batch = batch, !.since = since]
          = [[[Uploads!None EXCEPT !.state = "asked"] EXCEPT !.batch = batch] EXCEPT !.since = since]
    OBVIOUS
  <2>7. QED
    BY <2>2, <2>3, <2>4, <2>5, <2>6
<1>5. [g \in Handlers |-> Seen(g)]' =
        [[g \in Handlers |-> Seen(g)] EXCEPT ![h] =
           [Uploads!None EXCEPT !.state = "asked", !.batch = batch, !.since = since]]
  BY <1>1, <1>4, SeenStep DEF Receive
<1>6. QED
  BY <1>1, <1>2, <1>5 DEF Uploads!Ask

(* Ending: the request is gone, and the table as it was. *)
LEMMA EndMap ==
  ASSUME TypeOK, NEW h \in Handlers, Rollback(h) \/ Fail(h) \/ (Return(h) /\ call[h].pc = "selected")
  PROVE  Uploads!End(h)
<1>1. call \in [Handlers -> Call] /\ table' = table
  BY DEF TypeOK, Rollback, Fail, Return
<1>2. call'[h] \in {Idle, [Idle EXCEPT !.pc = "failed"]}
  BY <1>1 DEF Rollback, Fail, Return
<1>3. Seen(h)' = Uploads!None
  BY <1>2 DEF Seen, Stage, Idle, Uploads!None, NoRows, Uploads!NoRows
<1>4. [g \in Handlers |-> Seen(g)]' = [[g \in Handlers |-> Seen(g)] EXCEPT ![h] = Uploads!None]
  BY <1>1, <1>3, SeenStep DEF Rollback, Fail, Return
<1>5. Seen(h).state # "none"
  BY DEF Rollback, Fail, Return, Seen, Stage
<1>6. QED
  BY <1>1, <1>4, <1>5 DEF Uploads!End

(* Applying: the commit, or the step over an upsert of nothing. *)
LEMMA ApplyMap ==
  ASSUME UpsertInv, NEW h \in Handlers,
         Commit(h) \/ (BeginUpsert(h) /\ Stored(call[h].batch) = {})
  PROVE  Uploads!Apply(h)
<1>1. call \in [Handlers -> Call] /\ call[h] \in Call /\ table \in Table
  BY DEF UpsertInv, TypeOK
<1>2. Seen(h).state = "asked" /\ Seen(h).batch = call[h].batch /\ Seen(h).since = call[h].since
      /\ Seen(h).taken = {} /\ Seen(h).rows = NoRows
  BY DEF Commit, BeginUpsert, Seen, Stage, UpsertInv, NotUpserted, NotSelected
<1>3. Uploads!Newer(call[h].batch) = {u \in Stored(call[h].batch) : IsNewer(call[h].batch[u], u)}
  BY DEF Uploads!Newer, Uploads!Stored, Stored, IsNewer
<1>4. call'[h].taken = Uploads!Newer(call[h].batch)
  <2>1. CASE Commit(h)
    <3>1. Visited(h) = Stored(call[h].batch)
      BY <2>1 DEF Commit, Visited, Stored
    <3>2. call[h].taken = {u \in Visited(h) : IsNewer(call[h].batch[u], u)}
      BY <2>1 DEF Commit, UpsertInv, HoldsLocks
    <3>3. call'[h].taken = call[h].taken
      BY <1>1, <2>1 DEF Commit, Reported, Call
    <3>4. QED
      BY <1>3, <3>1, <3>2, <3>3
  <2>2. CASE BeginUpsert(h) /\ Stored(call[h].batch) = {}
    <3>1. call'[h].taken = call[h].taken /\ call[h].taken = {}
      BY <1>1, <2>2 DEF BeginUpsert, Call, UpsertInv, NotUpserted
    <3>2. QED
      BY <1>3, <2>2, <3>1
  <2>3. QED
    BY <2>1, <2>2
<1>5. /\ call'[h].pc = "upserted" /\ call'[h].batch = call[h].batch
      /\ call'[h].since = call[h].since /\ call'[h].rows = call[h].rows
  BY <1>1 DEF Commit, BeginUpsert, Call
<1>6. Seen(h)' = [Seen(h) EXCEPT !.state = "applied", !.taken = Uploads!Newer(call[h].batch)]
  <2>1. Seen(h)' = [state |-> "applied", batch |-> call[h].batch, since |-> call[h].since,
                    taken |-> Uploads!Newer(call[h].batch), rows |-> call[h].rows]
    BY <1>4, <1>5, Stages DEF Seen
  <2> DEFINE r == [state |-> "applied", batch |-> call[h].batch, since |-> call[h].since,
                  taken |-> IF call[h].pc = "upserting" THEN {} ELSE call[h].taken,
                  rows |-> call[h].rows]
  <2>2. [Seen(h) EXCEPT !.state = "applied"] = r
    BY DEF Seen
  <2>3. [r EXCEPT !.taken = Uploads!Newer(call[h].batch)] = Seen(h)'
    BY <2>1, <1>2, <1>5
  <2> HIDE DEF r
  <2>4. [Seen(h) EXCEPT !.state = "applied", !.taken = Uploads!Newer(call[h].batch)]
          = [[Seen(h) EXCEPT !.state = "applied"] EXCEPT !.taken = Uploads!Newer(call[h].batch)]
    OBVIOUS
  <2>5. QED
    BY <2>2, <2>3, <2>4
<1>7. [g \in Handlers |-> Seen(g)]' = [[g \in Handlers |-> Seen(g)] EXCEPT ![h] =
         [Seen(h) EXCEPT !.state = "applied", !.taken = Uploads!Newer(call[h].batch)]]
  BY <1>1, <1>6, SeenStep DEF Commit, BeginUpsert
<1>8. table' = [u \in Ids |-> IF u \in Uploads!Newer(call[h].batch) THEN call[h].batch[u] ELSE table[u]]
  <2>1. CASE Commit(h)
    <3>1. call'[h].taken = call[h].taken
      BY <1>1, <2>1 DEF Commit, Reported, Call
    <3>2. QED
      BY <1>4, <2>1, <3>1 DEF Commit
  <2>2. CASE BeginUpsert(h) /\ Stored(call[h].batch) = {}
    BY <1>1, <1>3, <2>2 DEF BeginUpsert, Table
  <2>3. QED
    BY <2>1, <2>2
<1>9. QED
  BY <1>2, <1>7, <1>8 DEF Uploads!Apply

LEMMA PullMap == ASSUME UpsertInv, NEW h \in Handlers, Select(h) PROVE Uploads!Pull(h)
<1>1. call \in [Handlers -> Call] /\ call[h] \in Call /\ table' = table
  BY DEF UpsertInv, TypeOK, Select
<1>2. /\ call'[h].pc = "selected" /\ call'[h].batch = call[h].batch
      /\ call'[h].since = call[h].since /\ call'[h].taken = call[h].taken
      /\ call'[h].rows = Pulled(h) /\ call[h].pc = "upserted"
  BY <1>1 DEF Select, Call, Pulled
<1>3. Seen(h)' = [Seen(h) EXCEPT !.state = "answered", !.rows = Pulled(h)]
  <2>1. Seen(h)' = [state |-> "answered", batch |-> call[h].batch, since |-> call[h].since,
                    taken |-> call[h].taken, rows |-> Pulled(h)]
    BY <1>2, Stages DEF Seen
  <2> DEFINE r == [state |-> "answered", batch |-> call[h].batch, since |-> call[h].since,
                  taken |-> IF call[h].pc = "upserting" THEN {} ELSE call[h].taken,
                  rows |-> call[h].rows]
  <2>2. [Seen(h) EXCEPT !.state = "answered"] = r
    BY DEF Seen
  <2>3. [r EXCEPT !.rows = Pulled(h)] = Seen(h)'
    BY <2>1, <1>2
  <2> HIDE DEF r
  <2>4. [Seen(h) EXCEPT !.state = "answered", !.rows = Pulled(h)]
          = [[Seen(h) EXCEPT !.state = "answered"] EXCEPT !.rows = Pulled(h)]
    OBVIOUS
  <2>5. QED
    BY <2>2, <2>3, <2>4
<1>4. Seen(h).state = "applied" /\ Seen(h).since = call[h].since
  BY <1>2 DEF Seen, Stage
<1>5. [g \in Handlers |-> Seen(g)]' = [[g \in Handlers |-> Seen(g)] EXCEPT ![h] =
         [Seen(h) EXCEPT !.state = "answered", !.rows = Pulled(h)]]
  BY <1>1, <1>3, SeenStep DEF Select
<1>6. QED
  BY <1>1, <1>4, <1>5 DEF Uploads!Pull, Pulled

(* Row by row the upsert goes on unseen, and a failed call is long gone. *)
LEMMA UnseenMap ==
  ASSUME TypeOK, NEW h \in Handlers, Quiet(h),
         \/ \E u \in Ids : VisitRow(h, u)
         \/ TakeRow(h)
         \/ BeginUpsert(h) /\ Stored(call[h].batch) # {} /\ call[h].taken = {}
         \/ Return(h) /\ call[h].pc = "failed"
  PROVE  UNCHANGED Uploads!vars
<1>1. call \in [Handlers -> Call] /\ call[h] \in Call /\ table' = table
  BY DEF TypeOK, VisitRow, TakeRow, BeginUpsert, Return
<1>2. Seen(h)' = Seen(h)
  <2>1. CASE (\E u \in Ids : VisitRow(h, u)) \/ TakeRow(h)
    <3>1. /\ call'[h].pc = "upserting" /\ call[h].pc = "upserting"
          /\ call'[h].batch = call[h].batch /\ call'[h].since = call[h].since
          /\ call'[h].rows = call[h].rows
      BY <1>1, <2>1, VisitKeeps, TakeKeeps
    <3>2. QED
      BY <3>1 DEF Seen, Stage
  <2>2. CASE BeginUpsert(h) /\ Stored(call[h].batch) # {} /\ call[h].taken = {}
    <3>1. /\ call'[h].pc = "upserting" /\ call[h].pc = "received"
          /\ call'[h].batch = call[h].batch /\ call'[h].since = call[h].since
          /\ call'[h].rows = call[h].rows
      BY <1>1, <2>2 DEF BeginUpsert, Call
    <3>2. QED
      BY <2>2, <3>1 DEF Seen, Stage
  <2>3. CASE Return(h) /\ call[h].pc = "failed"
    <3>1. call[h] = [Idle EXCEPT !.pc = "failed"] /\ call'[h] = Idle
      BY <1>1, <2>3 DEF Return, Quiet
    <3>2. QED
      BY <3>1 DEF Seen, Stage, Idle
  <2>4. QED
    BY <2>1, <2>2, <2>3
<1>3. \A g \in Handlers : Seen(g)' = Seen(g)
  <2>1. ASSUME NEW g \in Handlers, g # h PROVE call'[g] = call[g]
    BY <1>1, <2>1 DEF VisitRow, TakeRow, BeginUpsert, Return
  <2>2. QED
    BY <1>2, <2>1 DEF Seen, Stage
<1>4. QED
  BY <1>1, <1>3 DEF Uploads!vars

LEMMA TableStep ==
  ASSUME UpsertInv, \A h \in Handlers : Quiet(h), [Next]_vars
  PROVE  [Uploads!Next]_(Uploads!vars)
<1>1. CASE UNCHANGED vars
  BY <1>1 DEF vars, Uploads!vars, Seen, Stage
<1>2. ASSUME NEW h \in Handlers,
             \/ \E batch \in Batches, since \in Cursors : Receive(h, batch, since)
             \/ \E u \in Ids : VisitRow(h, u)
             \/ BeginUpsert(h) \/ TakeRow(h) \/ Commit(h) \/ Rollback(h)
             \/ Select(h) \/ Fail(h) \/ Return(h)
      PROVE  [Uploads!Next]_(Uploads!vars)
  <2>1. TypeOK
    BY DEF UpsertInv
  <2>2. BeginUpsert(h) => call[h].taken = {}
    BY DEF BeginUpsert, UpsertInv, NotUpserted
  <2>3. Return(h) => call[h].pc \in {"selected", "failed"}
    BY DEF Return
  <2>4. \/ Uploads!Ask(h) \/ Uploads!Apply(h) \/ Uploads!Pull(h) \/ Uploads!End(h)
        \/ UNCHANGED Uploads!vars
    BY <1>2, <2>1, <2>2, <2>3, AskMap, EndMap, ApplyMap, PullMap, UnseenMap
  <2>5. QED
    BY <2>4 DEF Uploads!Next
<1>3. QED
  BY <1>1, <1>2 DEF Next

(***************************************************************************)
(* Uploads of many rows, locked one by one, in any order and by any number *)
(* of requests, of which any may be ended half way, are uploads that take  *)
(* effect at one instant or not at all: SyncServer implements              *)
(* VersionedTable.                                                         *)
(***************************************************************************)
THEOREM UploadsAreAtomic == Spec => TableSpec
<1> DEFINE AllQuiet == \A h \in Handlers : Quiet(h)
<1>1. UpsertInv /\ AllQuiet /\ [Next]_vars => AllQuiet'
  BY QuietStep DEF UpsertInv
<1>2. UpsertInv /\ AllQuiet /\ [Next]_vars => [Uploads!Next]_(Uploads!vars)
  BY TableStep
<1>3. Init => AllQuiet
  BY QuietInit
<1> HIDE DEF AllQuiet
<1>4. QED
  BY <1>1, <1>2, <1>3, TableInit, UpsertInvariant, PTL DEF Spec, TableSpec, Uploads!Spec
==============================================================================
