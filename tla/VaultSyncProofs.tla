--------------------------- MODULE VaultSyncProofs ---------------------------
(***************************************************************************)
(* Theorems about VaultSync, for every set of devices, processes and       *)
(* entries, and whatever the bounds on edits and late requests.            *)
(***************************************************************************)
EXTENDS VaultSync, TLAPS

------------------------------------------------------------------------------
(* Types. *)

(* The empty table and the idle command are of their types. *)
LEMMA IdleType == NoRows \in Table /\ Idle \in Command
  BY DEF NoRows, Table, Idle, Command

(* What GetDirtyEntries returns is a table: the rows with the flag set. *)
LEMMA DirtyEntriesType ==
  ASSUME TypeOK, NEW d \in Devices
  PROVE  /\ GetDirtyEntries(d) \in Table
         /\ Stored(GetDirtyEntries(d)) = dirty[d]
  BY DEF TypeOK, Table, GetDirtyEntries, Stored

LEMMA TypeInit == Init => TypeOK
  BY IdleType DEF Init, TypeOK, NoRows, Table, Stored

(* saveEntry keeps the types if the row is one. *)
LEMMA SaveDirtyType ==
  ASSUME TypeOK, NEW d \in Devices, NEW u \in Ids, NEW row \in Row,
         SaveDirty(d, u, row)
  PROVE  /\ local' \in [Devices -> Table]
         /\ dirty' \in [Devices -> SUBSET Ids]
         /\ \A e \in Devices : dirty'[e] \subseteq Stored(local'[e])
         /\ edits' \in Nat
<1> USE DEF TypeOK, SaveDirty
<1>1. local' \in [Devices -> Table]
  BY DEF Table
<1>2. dirty' \in [Devices -> SUBSET Ids]
  OBVIOUS
<1>3. ASSUME NEW e \in Devices, NEW v \in dirty'[e]
      PROVE  v \in Stored(local'[e])
  <2>1. CASE e = d /\ v = u
    <3>1. local'[d][u] = row
      BY DEF Table
    <3> QED BY <3>1, <2>1, NoRowAssumption DEF Stored
  <2>2. CASE ~(e = d /\ v = u)
    <3>1. v \in dirty[e] /\ local'[e][v] = local[e][v]
      BY <1>3, <2>2 DEF Table
    <3> QED BY <3>1 DEF Stored
  <2> QED BY <2>1, <2>2
<1>4. \A e \in Devices : dirty'[e] \subseteq Stored(local'[e])
  BY <1>3
<1>5. edits' \in Nat
  OBVIOUS
<1> QED BY <1>1, <1>2, <1>4, <1>5

(* An upload leaves the server a table. *)
LEMMA UpsertType ==
  ASSUME TypeOK, NEW batch \in Table, UpsertEntries(batch)
  PROVE  server' \in Table
  BY DEF TypeOK, Table, UpsertEntries, Accepted, Stored

LEMMA TypeStep == TypeOK /\ [Next]_vars => TypeOK'
<1> SUFFICES ASSUME TypeOK, [Next]_vars PROVE TypeOK'
  OBVIOUS
<1> USE HomeAssumption
<1>1. ASSUME NEW p \in Procs, NEW u \in Ids, Add(p, u) PROVE TypeOK'
  <2> DEFINE row == [version |-> Bump(0), stamp |-> edits + 1, deleted |-> FALSE]
  <2>1. row \in Row /\ SaveDirty(Home[p], u, row)
    BY <1>1 DEF Add, Row, TypeOK, Bump
  <2> HIDE DEF row
  <2> QED BY <1>1, <2>1, SaveDirtyType DEF Add, TypeOK
<1>2. ASSUME NEW p \in Procs, NEW u \in Ids, ReadEntry(p, u) PROVE TypeOK'
  <2>1. [NoRows EXCEPT ![u] = local[Home[p]][u]] \in Table
    BY IdleType DEF TypeOK, Table
  <2>2. cmd' \in [Procs -> Command]
    BY <1>2, <2>1, IdleType DEF ReadEntry, TypeOK, Command
  <2> QED BY <1>2, <2>2 DEF ReadEntry, TypeOK
<1>3. ASSUME NEW p \in Procs, NEW u \in Ids, NEW b \in BOOLEAN, SaveEdit(p, u, b)
      PROVE  TypeOK'
  <2> DEFINE row == [version |-> Bump(cmd[p].held[u].version), stamp |-> edits + 1, deleted |-> b]
  <2>1. cmd[p].held[u] \in Row
    BY <1>3 DEF SaveEdit, TypeOK, Command, Table
  <2>2. row \in Row /\ SaveDirty(Home[p], u, row)
    BY <1>3, <2>1 DEF SaveEdit, Row, TypeOK, Bump
  <2>3. cmd' \in [Procs -> Command]
    BY <1>3, IdleType DEF SaveEdit, TypeOK
  <2> HIDE DEF row
  <2> QED BY <1>3, <2>2, <2>3, SaveDirtyType DEF SaveEdit, TypeOK
<1>4. ASSUME NEW p \in Procs, CollectDirty(p) PROVE TypeOK'
  <2>1. cmd' \in [Procs -> Command]
    BY <1>4, IdleType, DirtyEntriesType DEF CollectDirty, TypeOK, Command
  <2> QED BY <1>4, <2>1 DEF CollectDirty, TypeOK
<1>5. ASSUME NEW p \in Procs, SendSync(p) PROVE TypeOK'
  <2>1. PICK t \in 0..edits :
          cmd' = [cmd EXCEPT ![p].pc = "requested", ![p].since = GetLastUpdate(t)]
    BY <1>5 DEF SendSync
  <2>2. GetLastUpdate(t) \in Nat
    BY BoundsAssumption DEF GetLastUpdate, TypeOK
  <2>3. cmd' \in [Procs -> Command]
    BY <2>1, <2>2 DEF TypeOK, Command
  <2> QED BY <1>5, <2>3 DEF SendSync, TypeOK
<1>6. ASSUME NEW p \in Procs, ServerUpsert(p) PROVE TypeOK'
  <2>1. cmd[p].held \in Table
    BY DEF TypeOK, Command
  <2>2. server' \in Table
    BY <1>6, <2>1, UpsertType DEF ServerUpsert
  <2>3. Accepted(cmd[p].held) \subseteq Ids
    BY DEF Accepted, Stored
  <2>4. cmd' \in [Procs -> Command]
    BY <1>6, <2>3 DEF ServerUpsert, TypeOK, Command
  <2> QED BY <1>6, <2>2, <2>4 DEF ServerUpsert, TypeOK
<1>7. ASSUME NEW p \in Procs, ServerSelect(p) PROVE TypeOK'
  <2>1. GetUpdatedAfter(cmd[p].since) \in Table
    BY DEF TypeOK, Table, GetUpdatedAfter
  <2>2. cmd' \in [Procs -> Command]
    BY <1>7, <2>1 DEF ServerSelect, TypeOK, Command
  <2> QED BY <1>7, <2>2 DEF ServerSelect, TypeOK
<1>8. ASSUME NEW p \in Procs, Persist(p) PROVE TypeOK'
  <2> DEFINE d == Home[p]
  <2>1. cmd[p].updates \in Table /\ d \in Devices
    BY DEF TypeOK, Command
  <2>2. local' \in [Devices -> Table]
    BY <1>8, <2>1 DEF Persist, TypeOK, Table
  <2>3. dirty' \in [Devices -> SUBSET Ids]
    BY <1>8 DEF Persist, TypeOK
  <2>4. ASSUME NEW e \in Devices PROVE dirty'[e] \subseteq Stored(local'[e])
    BY <1>8, <2>1 DEF Persist, TypeOK, Stored, Overwritten
  <2>5. cmd' \in [Procs -> Command]
    BY <1>8, IdleType DEF Persist, TypeOK
  <2> QED BY <1>8, <2>2, <2>3, <2>4, <2>5 DEF Persist, TypeOK
<1>9. ASSUME NEW p \in Procs, Fail(p) \/ Abandon(p) PROVE TypeOK'
  <2>1. cmd[p].held \in Table
    BY DEF TypeOK, Command
  <2> QED BY <1>9, <2>1, IdleType DEF Fail, Abandon, TypeOK
<1>10. ASSUME NEW batch \in late, LateUpsert(batch) PROVE TypeOK'
  <2>1. batch \in Table
    BY DEF TypeOK
  <2> QED BY <1>10, <2>1, UpsertType DEF LateUpsert, TypeOK
<1>11. CASE UNCHANGED vars
  BY <1>11 DEF vars, TypeOK, Stored
<1> QED BY <1>1, <1>2, <1>3, <1>4, <1>5, <1>6, <1>7, <1>8, <1>9, <1>10, <1>11
        DEF Next, Update, Delete

(* Every reachable state has the types of the tables and of the commands; the
   dirty flags are on rows the device has. *)
THEOREM TypeInvariant == Spec => []TypeOK
BY TypeInit, TypeStep, PTL DEF Spec

------------------------------------------------------------------------------
(* Full pulls: synced rows. *)

(* An upsert leaves a stored row or replaces it by one of higher version. *)
LEMMA UpsertGrows ==
  ASSUME TypeOK, NEW batch \in Table, UpsertEntries(batch), NEW u \in Ids
  PROVE  \/ server'[u] = server[u]
         \/ /\ server'[u] \in Row
            /\ server[u] # NoRow => server[u].version < server'[u].version
  BY NoRowAssumption DEF TypeOK, Table, UpsertEntries, Accepted, Stored

(* What the server has taken it has taken for good. *)
LEMMA TakenStays ==
  ASSUME TypeOK, NEW batch \in Table, UpsertEntries(batch),
         NEW u \in Ids, NEW r \in Row, TakenBy(server[u], r)
  PROVE  TakenBy(server'[u], r)
<1>1. server[u] \in Row
  BY DEF TypeOK, Table, TakenBy
<1>2. \/ server'[u] = server[u]
      \/ server'[u] \in Row /\ server[u].version < server'[u].version
  BY UpsertGrows, <1>1, NoRowAssumption
<1> QED BY <1>1, <1>2, NoRowAssumption DEF TakenBy, Row

(* A clean row is a row the server has taken. *)
LEMMA CleanRowTaken ==
  ASSUME TypeOK, CleanRowsTaken, NEW d \in Devices, NEW u \in Clean(d)
  PROVE  u \in Ids /\ local[d][u] \in Row /\ TakenBy(server[u], local[d][u])
<1>1. u \in Ids /\ local[d][u] # NoRow
  BY DEF Clean, Stored
<1>2. local[d][u] \in Row
  BY <1>1 DEF TypeOK, Table
<1> QED BY <1>1, <1>2 DEF CleanRowsTaken

(* Every synced copy is a row the server has taken. *)
LEMMA SyncedTaken ==
  ASSUME FullPullInv, NEW u \in Ids, NEW r \in SyncedCopies(u)
  PROVE  r \in Row /\ TakenBy(server[u], r)
<1> USE DEF FullPullInv
<1>1. r # NoRow
  BY DEF SyncedCopies
<1>2. CASE r = server[u]
  BY <1>1, <1>2 DEF TypeOK, Table, TakenBy
<1>3. ASSUME NEW d \in Devices, u \notin dirty[d], r = local[d][u]
      PROVE  r \in Row /\ TakenBy(server[u], r)
  BY <1>1, <1>3 DEF TypeOK, Table, CleanRowsTaken, Clean, Stored
<1>4. ASSUME NEW p \in Procs, r = cmd[p].updates[u]
      PROVE  r \in Row /\ TakenBy(server[u], r)
  <2>1. cmd[p].updates \in Table /\ AnswerCovers(p)
    BY DEF TypeOK, Command
  <2> QED BY <1>1, <1>4, <2>1 DEF Table, AnswerCovers, Stored
<1> QED BY <1>2, <1>3, <1>4 DEF SyncedCopies

(* A step that adds no synced copy keeps VersionNamesContent. *)
LEMMA NamesKept ==
  ASSUME FullPullInv, \A u \in Ids : SyncedCopies(u)' \subseteq SyncedCopies(u)
  PROVE  VersionNamesContent'
  BY DEF FullPullInv, VersionNamesContent

(* An upsert adds one synced copy, newer than all others. *)
LEMMA NamesKeptByUpsert ==
  ASSUME FullPullInv, NEW batch \in Table, UpsertEntries(batch),
         UNCHANGED <<local, dirty>>,
         \A p \in Procs : cmd'[p].updates = cmd[p].updates
  PROVE  VersionNamesContent'
<1> SUFFICES ASSUME NEW u \in Ids,
                    NEW r1 \in SyncedCopies(u)', NEW r2 \in SyncedCopies(u)',
                    r1.version = r2.version
             PROVE  r1 = r2
  BY DEF VersionNamesContent
<1>1. SyncedCopies(u)' \subseteq SyncedCopies(u) \cup {server'[u]}
  BY DEF SyncedCopies
<1>2. ASSUME NEW r \in SyncedCopies(u), server'[u].version = r.version
      PROVE  r = server'[u]
  <2>1. r \in Row /\ TakenBy(server[u], r)
    BY SyncedTaken
  <2>2. server[u] \in Row
    BY <2>1 DEF TakenBy, FullPullInv, TypeOK, Table
  <2>3. \/ server'[u] = server[u]
        \/ server'[u] \in Row /\ server[u].version < server'[u].version
    BY UpsertGrows, <2>2, NoRowAssumption DEF FullPullInv
  <2> QED BY <1>2, <2>1, <2>2, <2>3 DEF TakenBy, Row
<1>3. r1 \in SyncedCopies(u) /\ r2 \in SyncedCopies(u) => r1 = r2
  BY DEF FullPullInv, VersionNamesContent
<1> QED BY <1>1, <1>2, <1>3

(* Steps of a command that leave the tables alone and bring no rows to p: the
   answer of p, if it had one, is dropped. *)
LEMMA QuietStep ==
  ASSUME FullPullInv, TypeOK', NEW p \in Procs,
         UNCHANGED <<server, local, dirty>>,
         \A q \in Procs \ {p} : cmd'[q] = cmd[q],
         cmd'[p].pc # "answered", cmd'[p].since = 0,
         cmd'[p].applied = {}, cmd'[p].updates = NoRows
  PROVE  FullPullInv'
<1> USE DEF FullPullInv
<1>1. CleanRowsTaken'
  BY DEF CleanRowsTaken, Clean, Stored, TakenBy
<1>2. \A u \in Ids : SyncedCopies(u)' \subseteq SyncedCopies(u)
  BY DEF SyncedCopies, NoRows
<1>3. ASSUME NEW q \in Procs PROVE AnswerCovers(q)'
  <2>1. CASE q = p
    BY <2>1 DEF AnswerCovers, Stored, NoRows
  <2>2. CASE q # p
    BY <2>2 DEF AnswerCovers, Stored, TakenBy
  <2> QED BY <2>1, <2>2
<1> QED BY <1>1, <1>2, <1>3, NamesKept

(* A row saved as dirty is no synced copy. *)
LEMMA SaveDirtyStep ==
  ASSUME FullPullInv, NEW d \in Devices, NEW u \in Ids, NEW row,
         SaveDirty(d, u, row), UNCHANGED server,
         \A p \in Procs : cmd'[p] = cmd[p] \/ cmd'[p] = Idle,
         TypeOK'
  PROVE  FullPullInv'
<1> USE DEF FullPullInv
<1>1. \A e \in Devices : \A v \in Ids :
        v \notin dirty'[e] => v \notin dirty[e] /\ local'[e][v] = local[e][v]
  BY DEF SaveDirty, TypeOK, Table
<1>2. CleanRowsTaken'
  BY <1>1 DEF CleanRowsTaken, Clean, Stored
<1>3. \A v \in Ids : SyncedCopies(v)' \subseteq SyncedCopies(v)
  <2> SUFFICES ASSUME NEW v \in Ids, NEW r \in SyncedCopies(v)'
               PROVE  r \in SyncedCopies(v)
    OBVIOUS
  <2>1. r # NoRow
    BY DEF SyncedCopies
  <2>2. ASSUME NEW q \in Procs, r = cmd'[q].updates[v]
        PROVE  r \in SyncedCopies(v)
    BY <2>1, <2>2 DEF SyncedCopies, Idle, NoRows
  <2> QED BY <1>1, <2>1, <2>2 DEF SyncedCopies
<1>4. ASSUME NEW q \in Procs PROVE AnswerCovers(q)'
  BY DEF AnswerCovers, Stored, TakenBy, Idle, NoRows
<1> QED BY <1>2, <1>3, <1>4, NamesKept

(* The server's upsert, on behalf of p or of a request p has abandoned. *)
LEMMA UpsertStep ==
  ASSUME FullPullInv, TypeOK', NEW batch \in Table, UpsertEntries(batch),
         UNCHANGED <<local, dirty>>,
         \A q \in Procs :
           \/ cmd'[q] = cmd[q]
           \/ /\ cmd[q].pc = "requested"
              /\ cmd'[q] = [cmd[q] EXCEPT !.pc = "upserted", !.applied = Accepted(batch)]
  PROVE  FullPullInv'
<1> USE DEF FullPullInv
<1>1. Stored(server) \subseteq Stored(server')
  BY UpsertGrows, NoRowAssumption DEF Stored
<1>2. CleanRowsTaken'
  <2> SUFFICES ASSUME NEW d \in Devices, NEW u \in Clean(d)
               PROVE  TakenBy(server'[u], local[d][u])
    BY DEF CleanRowsTaken, Clean, Stored
  <2> QED BY CleanRowTaken, TakenStays
<1>3. ASSUME NEW q \in Procs
      PROVE  /\ cmd'[q].updates = cmd[q].updates
             /\ cmd'[q].since = cmd[q].since
             /\ cmd'[q].pc = "answered" => cmd'[q] = cmd[q]
             /\ cmd'[q].pc = cmd[q].pc \/ cmd[q].pc = "requested"
             /\ cmd'[q].applied \in {cmd[q].applied, Accepted(batch)}
  <2>1. cmd[q] \in Command
    BY DEF TypeOK
  <2>2. CASE cmd'[q] = cmd[q]
    BY <2>2
  <2>3. CASE /\ cmd[q].pc = "requested"
             /\ cmd'[q] = [cmd[q] EXCEPT !.pc = "upserted", !.applied = Accepted(batch)]
    <3>1. /\ cmd'[q].pc = "upserted" /\ cmd'[q].applied = Accepted(batch)
          /\ cmd'[q].updates = cmd[q].updates /\ cmd'[q].since = cmd[q].since
      BY <2>1, <2>3 DEF Command
    <3> QED BY <2>3, <3>1
  <2> QED BY <2>2, <2>3
<1>4. VersionNamesContent'
  BY <1>3, NamesKeptByUpsert
<1>5. Accepted(batch) \subseteq Stored(server')
  BY DEF UpsertEntries, Accepted, Stored
<1>6. ASSUME NEW q \in Procs PROVE AnswerCovers(q)'
  <2>1. cmd[q].updates \in Table /\ AnswerCovers(q)
    BY DEF TypeOK, Command
  <2>2. ASSUME NEW u \in Stored(cmd[q].updates)
        PROVE  TakenBy(server'[u], cmd[q].updates[u])
    <3>1. u \in Ids /\ cmd[q].updates[u] \in Row /\ TakenBy(server[u], cmd[q].updates[u])
      BY <2>1 DEF Stored, Table, AnswerCovers
    <3> QED BY <3>1, TakenStays
  <2>3. cmd'[q].applied \subseteq Stored(server')
    BY <1>1, <1>3, <1>5, <2>1 DEF AnswerCovers
  <2>4. cmd'[q].pc # "answered" => cmd'[q].updates = NoRows
    BY <1>3, <2>1 DEF AnswerCovers
  <2> QED BY <1>3, <2>1, <2>2, <2>3, <2>4 DEF AnswerCovers
<1> QED BY <1>2, <1>4, <1>6

(* The server's select: with the cursor at 0 the answer is all of its rows. *)
LEMMA SelectStep ==
  ASSUME FullPullInv, TypeOK', NEW p \in Procs, ServerSelect(p)
  PROVE  FullPullInv'
<1> USE DEF FullPullInv
<1>1. GetUpdatedAfter(cmd[p].since) = server
  BY DEF GetUpdatedAfter, AnswerCovers, TypeOK, Table, Row
<1>2. /\ UNCHANGED <<server, local, dirty>>
      /\ cmd'[p] = [cmd[p] EXCEPT !.pc = "answered", !.updates = server]
      /\ \A q \in Procs \ {p} : cmd'[q] = cmd[q]
  BY <1>1 DEF ServerSelect, TypeOK, Command
<1>0. /\ cmd'[p].pc = "answered" /\ cmd'[p].updates = server
      /\ cmd'[p].since = cmd[p].since /\ cmd'[p].applied = cmd[p].applied
  <2>1. cmd[p] \in Command
    BY DEF TypeOK
  <2> QED BY <1>2, <2>1 DEF Command
<1>3. CleanRowsTaken'
  BY <1>2 DEF CleanRowsTaken, Clean, Stored, TakenBy
<1>4. \A u \in Ids : SyncedCopies(u)' \subseteq SyncedCopies(u)
  <2>1. \A q \in Procs : cmd'[q].updates \in {cmd[q].updates, server}
    BY <1>0, <1>2
  <2> QED BY <1>2, <2>1 DEF SyncedCopies
<1>5. ASSUME NEW q \in Procs PROVE AnswerCovers(q)'
  <2>1. CASE q = p
    BY <1>0, <1>2, <2>1 DEF AnswerCovers, Stored, TakenBy
  <2>2. CASE q # p
    BY <1>2, <2>2 DEF AnswerCovers, Stored, TakenBy
  <2> QED BY <2>1, <2>2
<1> QED BY <1>3, <1>4, <1>5, NamesKept

(* Persist: what it marks clean it has just replaced by the server's row. *)
LEMMA PersistStep ==
  ASSUME FullPullInv, TypeOK', NEW p \in Procs, Persist(p)
  PROVE  FullPullInv'
<1> USE DEF FullPullInv
<1> DEFINE d == Home[p]
<1>1. d \in Devices /\ cmd[p].updates \in Table /\ AnswerCovers(p)
  BY HomeAssumption DEF TypeOK, Command
<1>2. MarkedClean(p) \subseteq Overwritten(p) /\ Overwritten(p) \subseteq Ids
  BY <1>1 DEF Persist, MarkedClean, Overwritten, AnswerCovers, Stored
<1>3. /\ UNCHANGED server
      /\ \A e \in Devices \ {d} : local'[e] = local[e] /\ dirty'[e] = dirty[e]
      /\ \A u \in Ids : local'[d][u] = IF u \in Overwritten(p) THEN cmd[p].updates[u] ELSE local[d][u]
      /\ dirty'[d] = dirty[d] \ Overwritten(p)
      /\ cmd'[p] = Idle /\ \A q \in Procs \ {p} : cmd'[q] = cmd[q]
  BY <1>1, <1>2 DEF Persist, TypeOK
<1>4. CleanRowsTaken'
  <2> SUFFICES ASSUME NEW e \in Devices, NEW u \in Ids, u \notin dirty'[e], local'[e][u] # NoRow
               PROVE  TakenBy(server[u], local'[e][u])
    BY <1>3 DEF CleanRowsTaken, Clean, Stored
  <2>1. CASE e # d
    BY <1>3, <2>1 DEF CleanRowsTaken, Clean, Stored
  <2>2. CASE e = d /\ u \in Overwritten(p)
    BY <1>1, <1>3, <2>2 DEF Overwritten, AnswerCovers
  <2>3. CASE e = d /\ u \notin Overwritten(p)
    BY <1>3, <2>3 DEF CleanRowsTaken, Clean, Stored
  <2> QED BY <2>1, <2>2, <2>3
<1>5. \A u \in Ids : SyncedCopies(u)' \subseteq SyncedCopies(u)
  <2> SUFFICES ASSUME NEW u \in Ids, NEW r \in SyncedCopies(u)'
               PROVE  r \in SyncedCopies(u)
    OBVIOUS
  <2>1. r # NoRow
    BY DEF SyncedCopies
  <2>2. ASSUME NEW e \in Devices, u \notin dirty'[e], r = local'[e][u]
        PROVE  r \in SyncedCopies(u)
    BY <1>1, <1>3, <2>1, <2>2 DEF SyncedCopies
  <2>3. ASSUME NEW q \in Procs, r = cmd'[q].updates[u]
        PROVE  r \in SyncedCopies(u)
    BY <1>3, <2>1, <2>3 DEF SyncedCopies, Idle, NoRows
  <2> QED BY <1>3, <2>1, <2>2, <2>3 DEF SyncedCopies
<1>6. ASSUME NEW q \in Procs PROVE AnswerCovers(q)'
  <2>1. CASE q = p
    BY <1>3, <2>1 DEF AnswerCovers, Stored, Idle, NoRows
  <2>2. CASE q # p
    BY <1>3, <2>2 DEF AnswerCovers, Stored, TakenBy
  <2> QED BY <2>1, <2>2
<1> QED BY <1>4, <1>5, <1>6, NamesKept

LEMMA FullPullInit == Init => FullPullInv
  BY TypeInit DEF Init, FullPullInv, CleanRowsTaken, Clean, VersionNamesContent,
                  SyncedCopies, AnswerCovers, Idle, NoRows, Stored

LEMMA FullPullStep ==
  ASSUME DateTextReadable = FALSE
  PROVE  FullPullInv /\ [Next]_vars => FullPullInv'
<1> SUFFICES ASSUME FullPullInv, [Next]_vars PROVE FullPullInv'
  OBVIOUS
<1>0. TypeOK /\ TypeOK'
  BY TypeStep DEF FullPullInv
<1>1. ASSUME NEW p \in Procs, NEW u \in Ids, Add(p, u) PROVE FullPullInv'
  BY <1>0, <1>1, HomeAssumption, SaveDirtyStep DEF Add
<1>2. ASSUME NEW p \in Procs, NEW u \in Ids, ReadEntry(p, u) PROVE FullPullInv'
  <2>1. cmd'[p] = [Idle EXCEPT !.pc = "editing",
                               !.held = [NoRows EXCEPT ![u] = local[Home[p]][u]]]
    BY <1>0, <1>2 DEF ReadEntry, TypeOK
  <2>2. \A q \in Procs \ {p} : cmd'[q] = cmd[q]
    BY <1>0, <1>2 DEF ReadEntry, TypeOK
  <2>3. /\ cmd'[p].pc # "answered" /\ cmd'[p].since = 0
        /\ cmd'[p].applied = {} /\ cmd'[p].updates = NoRows
    BY <2>1 DEF Idle
  <2> QED BY <1>0, <1>2, <2>2, <2>3, QuietStep DEF ReadEntry
<1>3. ASSUME NEW p \in Procs, NEW u \in Ids, NEW b \in BOOLEAN, SaveEdit(p, u, b)
      PROVE  FullPullInv'
  <2>1. \A q \in Procs : cmd'[q] = cmd[q] \/ cmd'[q] = Idle
    BY <1>0, <1>3 DEF SaveEdit, TypeOK
  <2> QED BY <1>0, <1>3, <2>1, HomeAssumption, SaveDirtyStep DEF SaveEdit
<1>4. ASSUME NEW p \in Procs, CollectDirty(p) PROVE FullPullInv'
  <2>1. cmd'[p] = [Idle EXCEPT !.pc = "collected", !.held = GetDirtyEntries(Home[p])]
    BY <1>0, <1>4 DEF CollectDirty, TypeOK
  <2>2. \A q \in Procs \ {p} : cmd'[q] = cmd[q]
    BY <1>0, <1>4 DEF CollectDirty, TypeOK
  <2>3. /\ cmd'[p].pc # "answered" /\ cmd'[p].since = 0
        /\ cmd'[p].applied = {} /\ cmd'[p].updates = NoRows
    BY <2>1 DEF Idle
  <2> QED BY <1>0, <1>4, <2>2, <2>3, QuietStep DEF CollectDirty
<1>5. ASSUME NEW p \in Procs, SendSync(p) PROVE FullPullInv'
  <2>1. cmd' = [cmd EXCEPT ![p].pc = "requested", ![p].since = 0]
    BY <1>5 DEF SendSync, GetLastUpdate
  <2>2. \A q \in Procs : /\ cmd'[q].since = 0
                         /\ cmd'[q].applied = cmd[q].applied
                         /\ cmd'[q].updates = cmd[q].updates
                         /\ cmd'[q].pc = "answered" => cmd[q].pc = "answered"
                         /\ cmd[q].pc = "answered" => cmd'[q].pc = "answered"
    BY <1>0, <1>5, <2>1 DEF SendSync, TypeOK, Command, FullPullInv, AnswerCovers
  <2>3. UNCHANGED <<server, local, dirty>>
    BY <1>5 DEF SendSync
  <2>4. CleanRowsTaken'
    BY <2>3 DEF FullPullInv, CleanRowsTaken, Clean, Stored, TakenBy
  <2>5. \A u \in Ids : SyncedCopies(u)' \subseteq SyncedCopies(u)
    BY <2>2, <2>3 DEF SyncedCopies
  <2>6. ASSUME NEW q \in Procs PROVE AnswerCovers(q)'
    BY <2>2, <2>3 DEF FullPullInv, AnswerCovers, Stored, TakenBy
  <2> QED BY <1>0, <2>4, <2>5, <2>6, NamesKept DEF FullPullInv
<1>6. ASSUME NEW p \in Procs, ServerUpsert(p) PROVE FullPullInv'
  <2>1. cmd[p].held \in Table
    BY <1>0 DEF TypeOK, Command
  <2>2. \A q \in Procs \ {p} : cmd'[q] = cmd[q]
    BY <1>0, <1>6 DEF ServerUpsert, TypeOK
  <2>3. cmd'[p] = [cmd[p] EXCEPT !.pc = "upserted", !.applied = Accepted(cmd[p].held)]
    BY <1>0, <1>6 DEF ServerUpsert, TypeOK
  <2> QED BY <1>0, <1>6, <2>1, <2>2, <2>3, UpsertStep DEF ServerUpsert
<1>7. ASSUME NEW p \in Procs, ServerSelect(p) PROVE FullPullInv'
  BY <1>0, <1>7, SelectStep
<1>8. ASSUME NEW p \in Procs, Persist(p) PROVE FullPullInv'
  BY <1>0, <1>8, PersistStep
<1>9. ASSUME NEW p \in Procs, Fail(p) \/ Abandon(p) PROVE FullPullInv'
  <2>1. cmd'[p] = Idle /\ \A q \in Procs \ {p} : cmd'[q] = cmd[q]
    BY <1>0, <1>9 DEF Fail, Abandon, TypeOK
  <2>2. UNCHANGED <<server, local, dirty>>
    BY <1>9 DEF Fail, Abandon
  <2> QED BY <1>0, <2>1, <2>2, QuietStep DEF Idle
<1>10. ASSUME NEW batch \in late, LateUpsert(batch) PROVE FullPullInv'
  BY <1>0, <1>10, UpsertStep DEF LateUpsert, TypeOK
<1>11. CASE UNCHANGED vars
  BY <1>0, <1>11 DEF vars, FullPullInv, CleanRowsTaken, Clean, Stored, TakenBy,
                     VersionNamesContent, SyncedCopies, AnswerCovers
<1> QED BY <1>1, <1>2, <1>3, <1>4, <1>5, <1>6, <1>7, <1>8, <1>9, <1>10, <1>11
        DEF Next, Update, Delete

------------------------------------------------------------------------------
(* Full pulls: the abstract vault. *)

(* The initial state is the abstract one. *)
LEMMA ReplicaInit == Init => Replica!Init
  BY DEF Init, Replica!Init, NoRows, Replica!NoSnapshot, Idle

(* A row saved as dirty is a Change of the abstract vault, whatever becomes of
   an answer. *)
LEMMA SaveDirtyIsChange ==
  ASSUME TypeOK, NEW d \in Devices, NEW u \in Ids, NEW row,
         SaveDirty(d, u, row), UNCHANGED server,
         \A p \in Procs : cmd'[p].updates = cmd[p].updates
  PROVE  Replica!Change(d, u)
  BY DEF TypeOK, Table, SaveDirty, Replica!Change

(* An upsert is a Commit of the abstract vault. *)
LEMMA UpsertIsCommit ==
  ASSUME TypeOK, TypeOK', NEW batch \in Table, UpsertEntries(batch),
         UNCHANGED <<local, dirty>>,
         \A p \in Procs : cmd'[p].updates = cmd[p].updates
  PROVE  Replica!Commit
<1>1. server' \in Replica!Table
  BY DEF TypeOK, Table, Row, Replica!Table, Replica!Row
<1>2. ASSUME NEW u \in Ids, server'[u] # server[u]
      PROVE  /\ server'[u] # NoRow
             /\ server[u] # NoRow => server[u].version < server'[u].version
  BY <1>2, UpsertGrows, NoRowAssumption
<1> QED BY <1>1, <1>2 DEF Replica!Commit

(* A step that drops the answer of p, if it has one, is a Discard. *)
LEMMA DropIsDiscard ==
  ASSUME TypeOK, NEW p \in Procs, UNCHANGED <<server, local, dirty>>,
         cmd'[p].updates = NoRows,
         \A q \in Procs \ {p} : cmd'[q] = cmd[q]
  PROVE  Replica!Discard(p)
  BY DEF TypeOK, Replica!Discard, Replica!NoSnapshot, NoRows

(* Persist installs one snapshot: what it marks clean it has just replaced. *)
LEMMA PersistIsInstall ==
  ASSUME FullPullInv, NEW p \in Procs, Persist(p)
  PROVE  Replica!Install(p)
<1> DEFINE d == Home[p]
           View(e) == [u \in Ids |-> IF u \in dirty[e] THEN Unsynced ELSE local[e][u]]
<1>1. d \in Devices /\ TypeOK /\ AnswerCovers(p) /\ cmd[p].pc = "answered"
  BY HomeAssumption DEF FullPullInv, Persist
<1>2. MarkedClean(p) \subseteq Overwritten(p)
  BY <1>1 DEF MarkedClean, Overwritten, AnswerCovers, Stored
<1>3. /\ UNCHANGED server
      /\ \A e \in Devices \ {d} : local'[e] = local[e] /\ dirty'[e] = dirty[e]
      /\ \A u \in Ids : local'[d][u] = IF cmd[p].updates[u] # NoRow
                                          THEN cmd[p].updates[u] ELSE local[d][u]
      /\ \A u \in Ids : u \in dirty'[d] <=> u \in dirty[d] /\ cmd[p].updates[u] = NoRow
      /\ cmd'[p] = Idle /\ \A q \in Procs \ {p} : cmd'[q] = cmd[q]
  BY <1>1, <1>2 DEF Persist, TypeOK, Overwritten, Stored
<1> DEFINE Installed ==
             [u \in Ids |-> IF cmd[p].updates[u] = NoRow THEN View(d)[u] ELSE cmd[p].updates[u]]
<1>4. View(d)' = Installed
  BY <1>3
<1>5. \A e \in Devices \ {d} : View(e)' = View(e)
  BY <1>3
<1>6. [e \in Devices |-> View(e)]' = [[e \in Devices |-> View(e)] EXCEPT ![d] = Installed]
  <2> HIDE DEF Installed, View
  <2>1. \A e \in Devices : View(e)' = IF e = d THEN Installed ELSE View(e)
    BY <1>4, <1>5
  <2> HIDE DEF d
  <2> QED BY <2>1
<1>7. [q \in Procs |-> cmd[q].updates]' =
        [[q \in Procs |-> cmd[q].updates] EXCEPT ![p] = NoRows]
  <2>1. \A q \in Procs : cmd'[q].updates = IF q = p THEN NoRows ELSE cmd[q].updates
    BY <1>3 DEF Idle
  <2> QED BY <2>1
<1> QED BY <1>1, <1>3, <1>6, <1>7 DEF Replica!Install, Replica!NoSnapshot, NoRows

(* Every step of the code is a step of the abstract vault or leaves it alone. *)
LEMMA ReplicaStep ==
  ASSUME DateTextReadable = FALSE
  PROVE  FullPullInv /\ [Next]_vars => [Replica!Next]_(Replica!vars)
<1> SUFFICES ASSUME FullPullInv, [Next]_vars
             PROVE  Replica!Next \/ UNCHANGED Replica!vars
  OBVIOUS
<1>0. /\ TypeOK /\ TypeOK'
      /\ \A q \in Procs : cmd[q] \in Command /\ (cmd[q].pc # "answered" => cmd[q].updates = NoRows)
  BY TypeStep DEF FullPullInv, AnswerCovers, TypeOK
<1>1. ASSUME NEW p \in Procs, NEW u \in Ids, Add(p, u)
      PROVE  Replica!Change(Home[p], u)
  BY <1>0, <1>1, HomeAssumption, SaveDirtyIsChange DEF Add
<1>2. ASSUME NEW p \in Procs, NEW u \in Ids, ReadEntry(p, u)
      PROVE  Replica!Discard(p)
  <2>1. \A q \in Procs \ {p} : cmd'[q] = cmd[q]
    BY <1>0, <1>2 DEF ReadEntry, TypeOK
  <2>2. cmd'[p].updates = NoRows
    BY <1>0, <1>2 DEF ReadEntry, TypeOK, Idle
  <2> QED BY <1>0, <1>2, <2>1, <2>2, DropIsDiscard DEF ReadEntry
<1>3. ASSUME NEW p \in Procs, NEW u \in Ids, NEW b \in BOOLEAN, SaveEdit(p, u, b)
      PROVE  Replica!Change(Home[p], u)
  <2>1. \A q \in Procs : cmd'[q].updates = cmd[q].updates
    BY <1>0, <1>3 DEF SaveEdit, TypeOK, Idle
  <2> QED BY <1>0, <1>3, <2>1, HomeAssumption, SaveDirtyIsChange DEF SaveEdit
<1>4. ASSUME NEW p \in Procs, CollectDirty(p) PROVE Replica!Discard(p)
  <2>1. \A q \in Procs \ {p} : cmd'[q] = cmd[q]
    BY <1>0, <1>4 DEF CollectDirty, TypeOK
  <2>2. cmd'[p].updates = NoRows
    BY <1>0, <1>4 DEF CollectDirty, TypeOK, Idle
  <2> QED BY <1>0, <1>4, <2>1, <2>2, DropIsDiscard DEF CollectDirty
<1>5. ASSUME NEW p \in Procs, SendSync(p) PROVE UNCHANGED Replica!vars
  <2>1. \A q \in Procs : cmd'[q].updates = cmd[q].updates
    BY <1>0, <1>5 DEF SendSync, TypeOK, Command
  <2> QED BY <1>5, <2>1 DEF SendSync, Replica!vars
<1>6. ASSUME NEW p \in Procs, ServerUpsert(p) PROVE Replica!Commit
  <2>1. cmd[p].held \in Table
    BY <1>0 DEF Command
  <2>2. \A q \in Procs : cmd'[q].updates = cmd[q].updates
    BY <1>0, <1>6 DEF ServerUpsert, TypeOK, Command
  <2> QED BY <1>0, <1>6, <2>1, <2>2, UpsertIsCommit DEF ServerUpsert
<1>7. ASSUME NEW p \in Procs, ServerSelect(p) PROVE Replica!Read(p)
  <2>1. GetUpdatedAfter(cmd[p].since) = server
    BY <1>0 DEF GetUpdatedAfter, FullPullInv, AnswerCovers, TypeOK, Table, Row
  <2>2. \A q \in Procs : cmd'[q].updates = IF q = p THEN server ELSE cmd[q].updates
    BY <1>0, <1>7, <2>1 DEF ServerSelect, TypeOK, Command
  <2> QED BY <1>7, <2>2 DEF ServerSelect, Replica!Read
<1>8. ASSUME NEW p \in Procs, Persist(p) PROVE Replica!Install(p)
  BY <1>8, PersistIsInstall
<1>9. ASSUME NEW p \in Procs, Fail(p) \/ Abandon(p) PROVE Replica!Discard(p)
  <2>1. cmd'[p] = Idle /\ \A q \in Procs \ {p} : cmd'[q] = cmd[q]
    BY <1>0, <1>9 DEF Fail, Abandon, TypeOK
  <2> QED BY <1>0, <1>9, <2>1, DropIsDiscard DEF Fail, Abandon, Idle
<1>10. ASSUME NEW batch \in late, LateUpsert(batch) PROVE Replica!Commit
  BY <1>0, <1>10, UpsertIsCommit DEF LateUpsert, TypeOK
<1>11. CASE UNCHANGED vars
  BY <1>11 DEF vars, Replica!vars
<1> QED BY <1>1, <1>2, <1>3, <1>4, <1>5, <1>6, <1>7, <1>8, <1>9, <1>10, <1>11, HomeAssumption
        DEF Next, Update, Delete, Replica!Next

(* With full pulls, and however many commands run on a device, the vault is the
   abstract one: what a device holds as synced is installed from consistent
   snapshots of a store whose rows only move to higher versions. *)
THEOREM ImplementsReplica ==
  ASSUME DateTextReadable = FALSE
  PROVE  Spec => ReplicaSpec
BY ReplicaInit, ReplicaStep, FullPullInit, FullPullStep, PTL
   DEF Spec, ReplicaSpec, Replica!Spec

------------------------------------------------------------------------------
(* One command at a time: unsynced changes. *)

(* A command saves row u, on its device, over the row it has read there. *)
LEMMA SerialSave ==
  ASSUME SerialInv, TypeOK', OneProcess, NEW p \in Procs, NEW u \in Ids, NEW row,
         SaveDirty(Home[p], u, row), UNCHANGED server,
         cmd'[p] = Idle, \A q \in Procs \ {p} : cmd'[q] = cmd[q]
  PROVE  SerialInv'
<1>1. ASSUME NEW q \in Procs, q # p
      PROVE  local'[Home[q]] = local[Home[q]] /\ dirty'[Home[q]] = dirty[Home[q]]
  BY <1>1, HomeAssumption DEF SaveDirty, SerialInv, TypeOK, OneProcess
<1>2. \A q \in Procs \ {p} : GetDirtyEntries(Home[q])' = GetDirtyEntries(Home[q])
  BY <1>1 DEF GetDirtyEntries
<1> QED BY <1>1, <1>2 DEF SerialInv, Idle, Stored

(* The server's upsert of any table. *)
LEMMA SerialUpsert ==
  ASSUME SerialInv, TypeOK', NEW batch \in Table, UpsertEntries(batch),
         UNCHANGED <<local, dirty>>,
         \A q \in Procs :
           \/ cmd'[q] = cmd[q]
           \/ /\ cmd[q].pc = "requested" /\ cmd[q].held = batch
              /\ cmd'[q].pc = "upserted" /\ cmd'[q].held = batch
  PROVE  SerialInv'
<1>1. ASSUME NEW u \in Ids, NEW v \in Nat, server[u] # NoRow, v <= server[u].version
      PROVE  server'[u] # NoRow /\ v <= server'[u].version
  <2>1. server[u] \in Row
    BY <1>1 DEF SerialInv, TypeOK, Table
  <2> QED BY <1>1, <2>1, UpsertGrows, NoRowAssumption DEF SerialInv, Row
<1>2. \A u \in Stored(batch) : server'[u] # NoRow /\ batch[u].version <= server'[u].version
  BY NoRowAssumption DEF UpsertEntries, Accepted, Stored, SerialInv, TypeOK, Table, Row
<1>3. ASSUME NEW q \in Procs, NEW u \in Stored(cmd[q].held)
      PROVE  u \in Ids /\ cmd[q].held[u].version \in Nat
  BY <1>3 DEF SerialInv, TypeOK, Command, Table, Stored, Row
<1>4. \A q \in Procs : GetDirtyEntries(Home[q])' = GetDirtyEntries(Home[q])
  BY DEF GetDirtyEntries
<1>5. ASSUME NEW q \in Procs
      PROVE  /\ cmd'[q].pc = "editing" =>
                   \A u \in Stored(cmd'[q].held) : cmd'[q].held[u] = local'[Home[q]][u]
             /\ cmd'[q].pc \in {"collected", "requested", "upserted", "answered"} =>
                   cmd'[q].held = GetDirtyEntries(Home[q])'
             /\ cmd'[q].pc \in {"upserted", "answered"} =>
                   \A u \in Stored(cmd'[q].held) :
                     server'[u] # NoRow /\ cmd'[q].held[u].version <= server'[u].version
  <2>1. CASE cmd'[q] = cmd[q]
    BY <1>1, <1>3, <1>4, <2>1 DEF SerialInv
  <2>2. CASE /\ cmd[q].pc = "requested" /\ cmd[q].held = batch
             /\ cmd'[q].pc = "upserted" /\ cmd'[q].held = batch
    BY <1>2, <1>4, <2>2 DEF SerialInv
  <2> QED BY <2>1, <2>2
<1> QED BY <1>5 DEF SerialInv, Stored

(* A step of p that leaves the tables alone. *)
LEMMA SerialLocalStep ==
  ASSUME SerialInv, TypeOK', NEW p \in Procs,
         UNCHANGED <<server, local, dirty>>,
         \A q \in Procs \ {p} : cmd'[q] = cmd[q],
         cmd'[p].pc = "editing" =>
           \A u \in Stored(cmd'[p].held) : cmd'[p].held[u] = local[Home[p]][u],
         cmd'[p].pc \in {"collected", "requested", "upserted", "answered"} =>
           cmd'[p].held = GetDirtyEntries(Home[p]),
         cmd'[p].pc \in {"upserted", "answered"} =>
           /\ cmd[p].pc \in {"upserted", "answered"}
           /\ cmd'[p].held = cmd[p].held
  PROVE  SerialInv'
<1>1. \A q \in Procs : GetDirtyEntries(Home[q])' = GetDirtyEntries(Home[q])
  BY DEF GetDirtyEntries
<1>2. ASSUME NEW q \in Procs
      PROVE  /\ cmd'[q].pc = "editing" =>
                   \A u \in Stored(cmd'[q].held) : cmd'[q].held[u] = local'[Home[q]][u]
             /\ cmd'[q].pc \in {"collected", "requested", "upserted", "answered"} =>
                   cmd'[q].held = GetDirtyEntries(Home[q])'
             /\ cmd'[q].pc \in {"upserted", "answered"} =>
                   \A u \in Stored(cmd'[q].held) :
                     server'[u] # NoRow /\ cmd'[q].held[u].version <= server'[u].version
  BY <1>1 DEF SerialInv
<1> QED BY <1>2 DEF SerialInv, Stored

LEMMA SerialStep == SerialInv /\ OneProcess /\ [Next]_vars => SerialInv'
<1> SUFFICES ASSUME SerialInv, OneProcess, [Next]_vars PROVE SerialInv'
  OBVIOUS
<1>0. TypeOK /\ TypeOK'
  BY TypeStep DEF SerialInv
<1>1. ASSUME NEW p \in Procs, NEW u \in Ids, Add(p, u) PROVE SerialInv'
  <2>1. ASSUME NEW q \in Procs
        PROVE  /\ cmd'[q] = cmd[q]
               /\ \A v \in dirty[Home[q]] : v # u
    BY <1>0, <1>1, HomeAssumption DEF Add, TypeOK, Stored
  <2>2. ASSUME NEW q \in Procs, q # p
        PROVE  local'[Home[q]] = local[Home[q]] /\ dirty'[Home[q]] = dirty[Home[q]]
    BY <1>1, <2>2, HomeAssumption DEF Add, SaveDirty, SerialInv, TypeOK, OneProcess
  <2>3. \A q \in Procs \ {p} : GetDirtyEntries(Home[q])' = GetDirtyEntries(Home[q])
    BY <2>2 DEF GetDirtyEntries
  <2>4. cmd'[p].pc = "idle" /\ UNCHANGED server
    BY <1>1 DEF Add
  <2> QED BY <1>0, <2>1, <2>2, <2>3, <2>4 DEF SerialInv, Stored
<1>2. ASSUME NEW p \in Procs, NEW u \in Ids, ReadEntry(p, u) PROVE SerialInv'
  <2>1. /\ cmd'[p].pc = "editing"
        /\ cmd'[p].held = [NoRows EXCEPT ![u] = local[Home[p]][u]]
        /\ \A q \in Procs \ {p} : cmd'[q] = cmd[q]
    BY <1>0, <1>2 DEF ReadEntry, TypeOK, Idle
  <2>2. \A v \in Stored(cmd'[p].held) : cmd'[p].held[v] = local[Home[p]][v]
    BY <2>1 DEF Stored, NoRows
  <2>3. UNCHANGED <<server, local, dirty>>
    BY <1>2 DEF ReadEntry
  <2> QED BY <1>0, <2>1, <2>2, <2>3, SerialLocalStep
<1>3. ASSUME NEW p \in Procs, NEW u \in Ids, NEW b \in BOOLEAN, SaveEdit(p, u, b)
      PROVE  SerialInv'
  <2>1. cmd'[p] = Idle /\ \A q \in Procs \ {p} : cmd'[q] = cmd[q]
    BY <1>0, <1>3 DEF SaveEdit, TypeOK
  <2> QED BY <1>0, <1>3, <2>1, SerialSave DEF SaveEdit
<1>4. ASSUME NEW p \in Procs, CollectDirty(p) PROVE SerialInv'
  <2>1. /\ cmd'[p].pc = "collected"
        /\ cmd'[p].held = GetDirtyEntries(Home[p])
        /\ \A q \in Procs \ {p} : cmd'[q] = cmd[q]
    BY <1>0, <1>4 DEF CollectDirty, TypeOK, Idle
  <2> QED BY <1>0, <1>4, <2>1, SerialLocalStep DEF CollectDirty
<1>5. ASSUME NEW p \in Procs, SendSync(p) PROVE SerialInv'
  <2>1. /\ cmd'[p].pc = "requested" /\ cmd[p].pc = "collected"
        /\ cmd'[p].held = cmd[p].held
        /\ \A q \in Procs \ {p} : cmd'[q] = cmd[q]
    BY <1>0, <1>5 DEF SendSync, TypeOK, Command
  <2>2. cmd[p].held = GetDirtyEntries(Home[p])
    BY <2>1 DEF SerialInv
  <2> QED BY <1>0, <1>5, <2>1, <2>2, SerialLocalStep DEF SendSync
<1>6. ASSUME NEW p \in Procs, ServerUpsert(p) PROVE SerialInv'
  <2>1. cmd[p].held \in Table
    BY <1>0 DEF TypeOK, Command
  <2>2. /\ cmd[p].pc = "requested" /\ cmd'[p].pc = "upserted"
        /\ cmd'[p].held = cmd[p].held
        /\ \A q \in Procs \ {p} : cmd'[q] = cmd[q]
    BY <1>0, <1>6 DEF ServerUpsert, TypeOK, Command
  <2> QED BY <1>0, <1>6, <2>1, <2>2, SerialUpsert DEF ServerUpsert
<1>7. ASSUME NEW p \in Procs, ServerSelect(p) PROVE SerialInv'
  <2>1. /\ cmd[p].pc = "upserted" /\ cmd'[p].pc = "answered"
        /\ cmd'[p].held = cmd[p].held
        /\ \A q \in Procs \ {p} : cmd'[q] = cmd[q]
    BY <1>0, <1>7 DEF ServerSelect, TypeOK, Command
  <2>2. cmd[p].held = GetDirtyEntries(Home[p])
    BY <2>1 DEF SerialInv
  <2> QED BY <1>0, <1>7, <2>1, <2>2, SerialLocalStep DEF ServerSelect
<1>8. ASSUME NEW p \in Procs, Persist(p) PROVE SerialInv'
  <2>1. cmd'[p] = Idle /\ UNCHANGED server /\ \A q \in Procs \ {p} : cmd'[q] = cmd[q]
    BY <1>0, <1>8 DEF Persist, TypeOK
  <2>2. ASSUME NEW q \in Procs, q # p
        PROVE  local'[Home[q]] = local[Home[q]] /\ dirty'[Home[q]] = dirty[Home[q]]
    BY <1>0, <1>8, <2>2, HomeAssumption DEF Persist, TypeOK, OneProcess
  <2>3. \A q \in Procs \ {p} : GetDirtyEntries(Home[q])' = GetDirtyEntries(Home[q])
    BY <2>2 DEF GetDirtyEntries
  <2> QED BY <1>0, <2>1, <2>2, <2>3 DEF SerialInv, Idle, Stored
<1>9. ASSUME NEW p \in Procs, Fail(p) \/ Abandon(p) PROVE SerialInv'
  <2>1. cmd'[p] = Idle /\ \A q \in Procs \ {p} : cmd'[q] = cmd[q]
    BY <1>0, <1>9 DEF Fail, Abandon, TypeOK
  <2>2. UNCHANGED <<server, local, dirty>>
    BY <1>9 DEF Fail, Abandon
  <2> QED BY <1>0, <2>1, <2>2, SerialLocalStep DEF Idle
<1>10. ASSUME NEW batch \in late, LateUpsert(batch) PROVE SerialInv'
  BY <1>0, <1>10, SerialUpsert DEF LateUpsert, TypeOK
<1>11. CASE UNCHANGED vars
  BY <1>0, <1>11 DEF vars, SerialInv, Stored, GetDirtyEntries
<1> QED BY <1>1, <1>2, <1>3, <1>4, <1>5, <1>6, <1>7, <1>8, <1>9, <1>10, <1>11
        DEF Next, Update, Delete

LEMMA SerialInit == Init => SerialInv
  BY TypeInit DEF Init, SerialInv, Idle

(* A step that touches a device's rows is an edit of the row it has read there,
   or a Persist of rows the server was sent exactly as they still are. *)
LEMMA KeptStep == SerialInv /\ OneProcess /\ [Next]_vars => [KeepsUnsynced]_vars
<1> SUFFICES ASSUME SerialInv, OneProcess, Next PROVE KeepsUnsynced
  OBVIOUS
<1> SUFFICES ASSUME NEW d \in Devices, NEW u \in dirty[d]
             PROVE  \/ u \in dirty'[d] /\ local'[d][u] = local[d][u]
                    \/ u \in dirty'[d] /\ local'[d][u].version = local[d][u].version + 1
                    \/ server[u] # NoRow /\ server[u].version >= local[d][u].version
  BY DEF KeepsUnsynced
<1> DEFINE Kept == u \in dirty'[d] /\ local'[d][u] = local[d][u]
<1>0. TypeOK /\ u \in Ids /\ local[d][u] # NoRow /\ local[d] \in Table
  BY DEF SerialInv, TypeOK, Stored
<1>1. ASSUME NEW p \in Procs, NEW v \in Ids, Add(p, v) PROVE Kept
  BY <1>0, <1>1, HomeAssumption DEF Add, SaveDirty, TypeOK, Table
<1>2. ASSUME NEW p \in Procs, NEW v \in Ids, NEW b \in BOOLEAN, SaveEdit(p, v, b)
      PROVE  Kept \/ (u \in dirty'[d] /\ local'[d][u].version = local[d][u].version + 1)
  <2>1. CASE d = Home[p] /\ u = v
    <3>1. cmd[p].held[u] = local[d][u]
      BY <1>0, <1>2, <2>1 DEF SerialInv, SaveEdit, Stored
    <3>2. u \in dirty'[d] /\ local'[d][u].version = Bump(cmd[p].held[u].version)
      BY <1>0, <1>2, <2>1 DEF SaveEdit, SaveDirty, TypeOK, Table
    <3> QED BY <3>1, <3>2 DEF Bump
  <2>2. CASE ~(d = Home[p] /\ u = v)
    BY <1>0, <1>2, <2>2 DEF SaveEdit, SaveDirty, TypeOK, Table
  <2> QED BY <2>1, <2>2
<1>3. ASSUME NEW p \in Procs, Persist(p)
      PROVE  Kept \/ (server[u] # NoRow /\ server[u].version >= local[d][u].version)
  <2>1. CASE d = Home[p]
    <3>1. cmd[p].held = GetDirtyEntries(d)
      BY <1>3, <2>1 DEF Persist, SerialInv
    <3>2. cmd[p].held[u] = local[d][u] /\ u \in Stored(cmd[p].held)
      BY <1>0, <3>1 DEF GetDirtyEntries, Stored
    <3>3. server[u] # NoRow /\ local[d][u].version <= server[u].version
      BY <1>3, <3>2 DEF Persist, SerialInv
    <3>4. local[d][u] \in Row /\ server[u] \in Row
      BY <1>0, <3>3 DEF TypeOK, Table
    <3> QED BY <3>3, <3>4 DEF Row
  <2>2. CASE d # Home[p]
    BY <1>0, <1>3, <2>2 DEF Persist, TypeOK
  <2> QED BY <2>1, <2>2
<1>4. CASE UNCHANGED <<local, dirty>>
  BY <1>4
<1> QED BY <1>1, <1>2, <1>3, <1>4
        DEF Next, Update, Delete, ReadEntry, CollectDirty, SendSync, ServerUpsert,
            ServerSelect, Fail, Abandon, LateUpsert

(* With one command at a time on each device, a change stays unsynced and
   unaltered until it is edited again or the server has caught up with it:
   whatever fails, is retried or arrives late, and with either kind of pull. *)
THEOREM UnsyncedChangesKept ==
  ASSUME OneProcess
  PROVE  Spec => UnsyncedChangeKept
BY SerialInit, SerialStep, KeptStep, PTL DEF Spec, UnsyncedChangeKept

------------------------------------------------------------------------------
(* One command at a time: synced rows, with either kind of pull. *)

LEMMA CopiesAreRows ==
  ASSUME TakenInv, NEW u \in Ids, NEW r \in TakenCopies(u)
  PROVE  r \in Row /\ server[u] \in Row /\ TakenBy(server[u], r)
<1>0. TypeOK /\ TakenBy(server[u], r)
  BY DEF TakenInv, SerialInv
<1>1. server[u] \in Row
  BY <1>0 DEF TakenBy, TypeOK, Table
<1>2. CASE r \in SyncedCopies(u)
  <2>1. r # NoRow
    BY <1>2 DEF SyncedCopies
  <2>2. \A d \in Devices : local[d] \in Table
    BY <1>0 DEF TypeOK
  <2>3. \A p \in Procs : cmd[p].updates \in Table
    BY <1>0 DEF TypeOK, Command
  <2> QED BY <1>0, <1>1, <1>2, <2>1, <2>2, <2>3 DEF SyncedCopies, Table
<1>3. ASSUME NEW p \in Procs, u \in MarkedClean(p), r = cmd[p].held[u] PROVE r \in Row
  <2>1. cmd[p].held \in Table /\ cmd[p].held[u] # NoRow
    BY <1>0, <1>3 DEF TypeOK, Command, MarkedClean, Stored
  <2> QED BY <1>3, <2>1 DEF Table
<1> QED BY <1>0, <1>1, <1>2, <1>3 DEF TakenCopies

(* What TakenInv says of the copies of u. *)
Named(u) ==
  \A r \in TakenCopies(u) :
    /\ TakenBy(server[u], r)
    /\ \A s \in TakenCopies(u) : r.version = s.version => r = s

(* The server's row stays or gives way to one of higher version, and no copy is
   added but that row. *)
LEMMA CopiesKept ==
  ASSUME TakenInv, NEW u \in Ids,
         \/ server'[u] = server[u]
         \/ /\ server'[u] \in Row
            /\ server[u] # NoRow => server[u].version < server'[u].version,
         TakenCopies(u)' \subseteq TakenCopies(u) \cup ({server'[u]} \ {NoRow})
  PROVE  Named(u)'
<1>1. ASSUME NEW r \in TakenCopies(u)
      PROVE  /\ TakenBy(server'[u], r)
             /\ r.version = server'[u].version => r = server'[u]
  <2>1. r \in Row /\ server[u] \in Row /\ TakenBy(server[u], r)
    BY CopiesAreRows
  <2> QED BY <2>1, NoRowAssumption DEF TakenBy, Row
<1>2. \A r, s \in TakenCopies(u) : r.version = s.version => r = s
  BY DEF TakenInv
<1>3. ASSUME NEW r \in TakenCopies(u)'
      PROVE  /\ TakenBy(server'[u], r)
             /\ \A s \in TakenCopies(u)' : r.version = s.version => r = s
  <2>1. CASE r \in TakenCopies(u)
    BY <1>1, <1>2, <2>1
  <2>2. CASE r = server'[u] /\ r # NoRow
    BY <1>1, <2>2 DEF TakenBy
  <2> QED BY <1>3, <2>1, <2>2
<1> QED BY <1>3 DEF Named

(* A copy of u after a step is of one of the four kinds. *)
LEMMA CopyKinds ==
  ASSUME NEW u \in Ids, NEW C,
         server'[u] \in C,
         \A d \in Devices : u \notin dirty'[d] /\ local'[d][u] # NoRow => local'[d][u] \in C,
         \A p \in Procs : cmd'[p].updates[u] # NoRow => cmd'[p].updates[u] \in C,
         \A p \in Procs : u \in MarkedClean(p)' => cmd'[p].held[u] \in C
  PROVE  TakenCopies(u)' \subseteq C
BY DEF TakenCopies, SyncedCopies

(* The answers of the commands, and the rows they will mark clean, are among the
   copies already. *)
LEMMA CopiesOf ==
  ASSUME NEW u \in Ids
  PROVE  /\ server[u] # NoRow => server[u] \in TakenCopies(u)
         /\ \A d \in Devices :
              u \notin dirty[d] /\ local[d][u] # NoRow => local[d][u] \in TakenCopies(u)
         /\ \A p \in Procs :
              /\ cmd[p].updates[u] # NoRow => cmd[p].updates[u] \in TakenCopies(u)
              /\ u \in MarkedClean(p) => cmd[p].held[u] \in TakenCopies(u)
BY DEF TakenCopies, SyncedCopies

(* A step that leaves the server alone: a command either keeps what it holds of an
   answer or has none. *)
LEMMA TakenQuiet ==
  ASSUME TakenInv, SerialInv', server' = server,
         \A p \in Procs :
           \/ cmd'[p] = cmd[p]
           \/ /\ cmd'[p].pc \notin {"upserted", "answered"}
              /\ cmd'[p].applied = {} /\ cmd'[p].updates = NoRows,
         \A u \in Ids, d \in Devices :
           u \notin dirty'[d] /\ local'[d][u] # NoRow => local'[d][u] \in TakenCopies(u)
  PROVE  TakenInv'
<1>1. ASSUME NEW u \in Ids PROVE Named(u)'
  <2> DEFINE C == TakenCopies(u) \cup {server[u]}
  <2>1. ASSUME NEW p \in Procs
        PROVE  /\ cmd'[p].updates[u] # NoRow => cmd'[p].updates[u] \in TakenCopies(u)
               /\ u \in MarkedClean(p)' => cmd'[p].held[u] \in TakenCopies(u)
    <3>1. CASE cmd'[p] = cmd[p]
      BY <3>1, CopiesOf DEF MarkedClean, Stored
    <3>2. CASE cmd'[p].applied = {} /\ cmd'[p].updates = NoRows
      BY <3>2 DEF MarkedClean, NoRows
    <3> QED BY <3>1, <3>2
  <2>2. TakenCopies(u)' \subseteq C
    <3>1. server'[u] \in C
      OBVIOUS
    <3>2. \A d \in Devices : u \notin dirty'[d] /\ local'[d][u] # NoRow => local'[d][u] \in C
      OBVIOUS
    <3>3. \A p \in Procs : /\ cmd'[p].updates[u] # NoRow => cmd'[p].updates[u] \in C
                           /\ u \in MarkedClean(p)' => cmd'[p].held[u] \in C
      BY <2>1
    <3> HIDE DEF C
    <3> QED BY <3>1, <3>2, <3>3, CopyKinds
  <2>3. NoRow \notin TakenCopies(u)'
    BY <2>1 DEF TakenCopies, SyncedCopies, MarkedClean, Stored
  <2>4. TakenCopies(u)' \subseteq TakenCopies(u) \cup ({server'[u]} \ {NoRow})
    BY <2>2, <2>3
  <2> QED BY <2>4, CopiesKept
<1>2. \A p \in Procs : /\ cmd'[p].pc \notin {"upserted", "answered"} => cmd'[p].applied = {}
                       /\ cmd'[p].pc # "answered" => cmd'[p].updates = NoRows
  BY DEF TakenInv
<1> QED BY <1>1, <1>2 DEF TakenInv, Named

(* The server's upsert: the rows it applies are its rows now. *)
LEMMA TakenUpsert ==
  ASSUME TakenInv, SerialInv', NEW batch \in Table, UpsertEntries(batch),
         UNCHANGED <<local, dirty>>,
         \A q \in Procs :
           \/ cmd'[q] = cmd[q]
           \/ /\ cmd[q].pc = "requested" /\ cmd[q].held = batch
              /\ cmd'[q].pc = "upserted" /\ cmd'[q].held = batch
              /\ cmd'[q].applied = Accepted(batch) /\ cmd'[q].updates = cmd[q].updates
  PROVE  TakenInv'
<1>0. TypeOK
  BY DEF TakenInv, SerialInv
<1>1. ASSUME NEW u \in Ids PROVE Named(u)'
  <2> DEFINE C == TakenCopies(u) \cup {server'[u]}
  <2>1. ASSUME NEW q \in Procs
        PROVE  /\ cmd'[q].updates[u] # NoRow => cmd'[q].updates[u] \in C
               /\ u \in MarkedClean(q)' => cmd'[q].held[u] \in C /\ cmd'[q].held[u] # NoRow
    <3>1. CASE cmd'[q] = cmd[q]
      BY <3>1, CopiesOf DEF MarkedClean, Stored
    <3>2. CASE /\ cmd'[q].held = batch /\ cmd'[q].updates = cmd[q].updates
               /\ cmd'[q].applied = Accepted(batch)
      <4>1. u \in MarkedClean(q)' => u \in Accepted(batch) /\ batch[u] # NoRow
        BY <3>2 DEF MarkedClean, Stored
      <4>2. u \in Accepted(batch) => server'[u] = batch[u]
        BY DEF UpsertEntries
      <4> QED BY <3>2, <4>1, <4>2, CopiesOf
    <3> QED BY <3>1, <3>2
  <2>2. TakenCopies(u)' \subseteq C
    BY <2>1, CopyKinds, CopiesOf
  <2>3. NoRow \notin TakenCopies(u)'
    BY <2>1 DEF TakenCopies, SyncedCopies
  <2>4. TakenCopies(u)' \subseteq TakenCopies(u) \cup ({server'[u]} \ {NoRow})
    BY <2>2, <2>3
  <2> QED BY <1>0, <2>4, CopiesKept, UpsertGrows
<1>2. \A q \in Procs : /\ cmd'[q].pc \notin {"upserted", "answered"} => cmd'[q].applied = {}
                       /\ cmd'[q].pc # "answered" => cmd'[q].updates = NoRows
  BY DEF TakenInv
<1> QED BY <1>1, <1>2 DEF TakenInv, Named

(* The server's select brings p rows of the server. *)
LEMMA TakenSelect ==
  ASSUME TakenInv, SerialInv', NEW p \in Procs, ServerSelect(p)
  PROVE  TakenInv'
<1>0. TypeOK
  BY DEF TakenInv, SerialInv
<1>1. /\ UNCHANGED <<server, local, dirty>>
      /\ cmd[p].pc = "upserted" /\ cmd'[p].pc = "answered"
      /\ cmd'[p].held = cmd[p].held /\ cmd'[p].applied = cmd[p].applied
      /\ cmd'[p].updates = GetUpdatedAfter(cmd[p].since)
      /\ \A q \in Procs \ {p} : cmd'[q] = cmd[q]
  BY <1>0 DEF ServerSelect, TypeOK, Command
<1>2. ASSUME NEW u \in Ids PROVE Named(u)'
  <2>1. ASSUME NEW q \in Procs
        PROVE  /\ cmd'[q].updates[u] # NoRow => cmd'[q].updates[u] \in TakenCopies(u)
               /\ u \in MarkedClean(q)' => cmd'[q].held[u] \in TakenCopies(u)
    <3>1. u \in MarkedClean(q)' => u \in MarkedClean(q) /\ cmd'[q].held = cmd[q].held
      BY <1>1 DEF MarkedClean, Stored
    <3>2. CASE q = p
      <4>1. cmd'[q].updates[u] # NoRow => cmd'[q].updates[u] = server[u]
        BY <1>1, <3>2 DEF GetUpdatedAfter
      <4> QED BY <3>1, <4>1, CopiesOf
    <3>3. CASE q # p
      BY <1>1, <3>1, <3>3, CopiesOf
    <3> QED BY <3>2, <3>3
  <2>2. \A d \in Devices : u \notin dirty'[d] /\ local'[d][u] # NoRow => local'[d][u] \in TakenCopies(u)
    BY <1>1, CopiesOf
  <2>3. TakenCopies(u)' \subseteq TakenCopies(u) \cup {server'[u]}
    <3> DEFINE C == TakenCopies(u) \cup {server'[u]}
    <3>1. /\ server'[u] \in C
          /\ \A d \in Devices : u \notin dirty'[d] /\ local'[d][u] # NoRow => local'[d][u] \in C
          /\ \A q \in Procs : /\ cmd'[q].updates[u] # NoRow => cmd'[q].updates[u] \in C
                              /\ u \in MarkedClean(q)' => cmd'[q].held[u] \in C
      BY <2>1, <2>2
    <3> HIDE DEF C
    <3>2. TakenCopies(u)' \subseteq C
      BY <3>1, CopyKinds
    <3> QED BY <3>2 DEF C
  <2>4. NoRow \notin TakenCopies(u)'
    BY DEF TakenCopies, SyncedCopies, MarkedClean, Stored
  <2> QED BY <1>1, <2>3, <2>4, CopiesKept
<1>3. \A q \in Procs : /\ cmd'[q].pc \notin {"upserted", "answered"} => cmd'[q].applied = {}
                       /\ cmd'[q].pc # "answered" => cmd'[q].updates = NoRows
  BY <1>1 DEF TakenInv
<1> QED BY <1>2, <1>3 DEF TakenInv, Named

LEMMA TakenInit == Init => TakenInv
<1> SUFFICES ASSUME Init PROVE TakenInv
  OBVIOUS
<1>1. \A u \in Ids : server[u] = NoRow /\ \A d \in Devices : local[d][u] = NoRow
  BY DEF Init, NoRows
<1>2. \A p \in Procs : /\ cmd[p].applied = {} /\ cmd[p].updates = NoRows
                       /\ \A u \in Ids : cmd[p].updates[u] = NoRow
  BY DEF Init, Idle, NoRows
<1>3. \A u \in Ids : TakenCopies(u) = {}
  BY <1>1, <1>2 DEF TakenCopies, SyncedCopies, MarkedClean
<1> QED BY <1>2, <1>3, SerialInit DEF TakenInv

LEMMA TakenStep == TakenInv /\ OneProcess /\ [Next]_vars => TakenInv'
<1> SUFFICES ASSUME TakenInv, OneProcess, [Next]_vars PROVE TakenInv'
  OBVIOUS
<1>0. /\ SerialInv /\ SerialInv' /\ TypeOK
      /\ \A p \in Procs : Home[p] \in Devices /\ cmd[p] \in Command
  BY SerialStep, HomeAssumption DEF TakenInv, SerialInv, TypeOK
<1>1. \A u \in Ids, d \in Devices :
        u \notin dirty[d] /\ local[d][u] # NoRow => local[d][u] \in TakenCopies(u)
  BY CopiesOf
<1>2. ASSUME NEW p \in Procs, NEW u \in Ids, NEW row, SaveDirty(Home[p], u, row),
             server' = server, \A q \in Procs : cmd'[q] = cmd[q] \/ cmd'[q] = Idle
      PROVE  TakenInv'
  <2>1. \A d \in Devices, v \in Ids : v \notin dirty'[d] => v \notin dirty[d] /\ local'[d][v] = local[d][v]
    BY <1>0, <1>2 DEF SaveDirty, TypeOK, Table
  <2>2. \A v \in Ids, d \in Devices :
          v \notin dirty'[d] /\ local'[d][v] # NoRow => local'[d][v] \in TakenCopies(v)
    BY <1>1, <2>1
  <2>3. \A q \in Procs : \/ cmd'[q] = cmd[q]
                         \/ /\ cmd'[q].pc \notin {"upserted", "answered"}
                            /\ cmd'[q].applied = {} /\ cmd'[q].updates = NoRows
    BY <1>2 DEF Idle
  <2> QED BY <1>0, <1>2, <2>2, <2>3, TakenQuiet
<1>3. ASSUME UNCHANGED <<server, local, dirty>>,
             \A q \in Procs :
               \/ cmd'[q] = cmd[q]
               \/ /\ cmd'[q].pc \notin {"upserted", "answered"}
                  /\ cmd'[q].applied = {} /\ cmd'[q].updates = NoRows
      PROVE  TakenInv'
  <2>1. \A v \in Ids, d \in Devices :
          v \notin dirty'[d] /\ local'[d][v] # NoRow => local'[d][v] \in TakenCopies(v)
    BY <1>1, <1>3
  <2> QED BY <1>0, <1>3, <2>1, TakenQuiet
<1>4. ASSUME NEW p \in Procs, NEW u \in Ids, Add(p, u) PROVE TakenInv'
  BY <1>2, <1>4 DEF Add
<1>5. ASSUME NEW p \in Procs, NEW u \in Ids, NEW b \in BOOLEAN, SaveEdit(p, u, b)
      PROVE  TakenInv'
  <2>1. \A q \in Procs : cmd'[q] = cmd[q] \/ cmd'[q] = Idle
    BY <1>0, <1>5 DEF SaveEdit, TypeOK
  <2> QED BY <1>2, <1>5, <2>1 DEF SaveEdit
<1>6. ASSUME NEW p \in Procs, NEW u \in Ids, ReadEntry(p, u) PROVE TakenInv'
  <2>1. /\ cmd'[p].pc = "editing" /\ cmd'[p].applied = {} /\ cmd'[p].updates = NoRows
        /\ \A q \in Procs \ {p} : cmd'[q] = cmd[q]
    BY <1>0, <1>6 DEF ReadEntry, TypeOK, Idle
  <2> QED BY <1>3, <1>6, <2>1 DEF ReadEntry
<1>7. ASSUME NEW p \in Procs, CollectDirty(p) PROVE TakenInv'
  <2>1. /\ cmd'[p].pc = "collected" /\ cmd'[p].applied = {} /\ cmd'[p].updates = NoRows
        /\ \A q \in Procs \ {p} : cmd'[q] = cmd[q]
    BY <1>0, <1>7 DEF CollectDirty, TypeOK, Idle
  <2> QED BY <1>3, <1>7, <2>1 DEF CollectDirty
<1>8. ASSUME NEW p \in Procs, SendSync(p) PROVE TakenInv'
  <2>1. /\ cmd'[p].pc = "requested" /\ cmd[p].pc = "collected"
        /\ cmd'[p].applied = cmd[p].applied /\ cmd'[p].updates = cmd[p].updates
        /\ \A q \in Procs \ {p} : cmd'[q] = cmd[q]
    BY <1>0, <1>8 DEF SendSync, TypeOK, Command
  <2>2. cmd[p].applied = {} /\ cmd[p].updates = NoRows
    BY <2>1 DEF TakenInv
  <2> QED BY <1>3, <1>8, <2>1, <2>2 DEF SendSync
<1>9. ASSUME NEW p \in Procs, ServerUpsert(p) PROVE TakenInv'
  <2>1. cmd[p].held \in Table
    BY <1>0 DEF Command
  <2>2. /\ cmd[p].pc = "requested" /\ cmd'[p].pc = "upserted"
        /\ cmd'[p].held = cmd[p].held /\ cmd'[p].updates = cmd[p].updates
        /\ cmd'[p].applied = Accepted(cmd[p].held)
        /\ \A q \in Procs \ {p} : cmd'[q] = cmd[q]
    BY <1>0, <1>9 DEF ServerUpsert, TypeOK, Command
  <2> QED BY <1>0, <1>9, <2>1, <2>2, TakenUpsert DEF ServerUpsert
<1>10. ASSUME NEW p \in Procs, ServerSelect(p) PROVE TakenInv'
  BY <1>0, <1>10, TakenSelect
<1>11. ASSUME NEW p \in Procs, Persist(p) PROVE TakenInv'
  <2> DEFINE d == Home[p]
  <2>1. /\ cmd[p].pc = "answered" /\ server' = server
        /\ cmd'[p] = Idle /\ \A q \in Procs \ {p} : cmd'[q] = cmd[q]
        /\ \A e \in Devices \ {d} : local'[e] = local[e] /\ dirty'[e] = dirty[e]
        /\ \A u \in Ids : local'[d][u] = IF u \in Overwritten(p) THEN cmd[p].updates[u] ELSE local[d][u]
        /\ dirty'[d] = (dirty[d] \ Overwritten(p)) \ MarkedClean(p)
    BY <1>0, <1>11 DEF Persist, TypeOK
  <2>2. \A q \in Procs : \/ cmd'[q] = cmd[q]
                         \/ /\ cmd'[q].pc \notin {"upserted", "answered"}
                            /\ cmd'[q].applied = {} /\ cmd'[q].updates = NoRows
    BY <2>1 DEF Idle
  <2>3. ASSUME NEW u \in Ids, NEW e \in Devices, u \notin dirty'[e], local'[e][u] # NoRow
        PROVE  local'[e][u] \in TakenCopies(u)
    <3>1. CASE e # d
      BY <1>1, <2>1, <2>3, <3>1
    <3>2. CASE e = d /\ u \in Overwritten(p)
      BY <2>1, <2>3, <3>2, CopiesOf
    <3>3. CASE e = d /\ u \notin Overwritten(p) /\ u \notin dirty[d]
      BY <1>1, <2>1, <2>3, <3>3
    <3>4. CASE e = d /\ u \notin Overwritten(p) /\ u \in MarkedClean(p)
      <4>1. cmd[p].held[u] = local[d][u]
        <5>1. cmd[p].held = GetDirtyEntries(d) /\ cmd[p].held[u] # NoRow
          BY <1>0, <2>1, <3>4 DEF SerialInv, MarkedClean, Stored
        <5> QED BY <5>1 DEF GetDirtyEntries
      <4> QED BY <2>1, <3>4, <4>1, CopiesOf
    <3> QED BY <2>1, <2>3, <3>1, <3>2, <3>3, <3>4
  <2> QED BY <1>0, <2>1, <2>2, <2>3, TakenQuiet
<1>12. ASSUME NEW p \in Procs, Fail(p) \/ Abandon(p) PROVE TakenInv'
  <2>1. cmd'[p] = Idle /\ \A q \in Procs \ {p} : cmd'[q] = cmd[q]
    BY <1>0, <1>12 DEF Fail, Abandon, TypeOK
  <2>2. UNCHANGED <<server, local, dirty>>
    BY <1>12 DEF Fail, Abandon
  <2> QED BY <1>3, <2>1, <2>2 DEF Idle
<1>13. ASSUME NEW batch \in late, LateUpsert(batch) PROVE TakenInv'
  BY <1>0, <1>13, TakenUpsert DEF LateUpsert, TypeOK
<1>14. CASE UNCHANGED vars
  BY <1>3, <1>14 DEF vars
<1> QED BY <1>4, <1>5, <1>6, <1>7, <1>8, <1>9, <1>10, <1>11, <1>12, <1>13, <1>14
        DEF Next, Update, Delete

LEMMA TakenImplies == TakenInv => CleanRowsTaken /\ VersionNamesContent
<1> SUFFICES ASSUME TakenInv PROVE CleanRowsTaken /\ VersionNamesContent
  OBVIOUS
<1>1. \A u \in Ids : SyncedCopies(u) \subseteq TakenCopies(u)
  BY DEF TakenCopies
<1>2. VersionNamesContent
  BY <1>1 DEF TakenInv, VersionNamesContent
<1>3. CleanRowsTaken
  BY CopiesOf DEF TakenInv, CleanRowsTaken, Clean, Stored
<1> QED BY <1>2, <1>3

(* No row is marked clean before the server has taken it: with full pulls however
   many commands run on a device, since an answer brings every row that is marked;
   with one command at a time also when an answer leaves rows out, since what is
   marked is then what was uploaded. *)
THEOREM CleanRowsAlwaysTaken ==
  ASSUME DateTextReadable = FALSE \/ OneProcess
  PROVE  Spec => []CleanRowsTaken
<1>1. CASE DateTextReadable = FALSE
  <2>1. FullPullInv => CleanRowsTaken
    BY DEF FullPullInv
  <2>2. FullPullInv /\ [Next]_vars => FullPullInv'
    BY <1>1, FullPullStep
  <2> QED BY <2>1, <2>2, FullPullInit, PTL DEF Spec
<1>2. CASE OneProcess
  <2>1. TakenInv /\ [Next]_vars => TakenInv'
    BY <1>2, TakenStep
  <2> QED BY <2>1, TakenInit, TakenImplies, PTL DEF Spec
<1> QED BY <1>1, <1>2

(* The version of a synced row names its content everywhere, under the same two
   conditions. *)
THEOREM VersionsNameContent ==
  ASSUME DateTextReadable = FALSE \/ OneProcess
  PROVE  Spec => []VersionNamesContent
<1>1. CASE DateTextReadable = FALSE
  <2>1. FullPullInv => VersionNamesContent
    BY DEF FullPullInv
  <2>2. FullPullInv /\ [Next]_vars => FullPullInv'
    BY <1>1, FullPullStep
  <2> QED BY <2>1, <2>2, FullPullInit, PTL DEF Spec
<1>2. CASE OneProcess
  <2>1. TakenInv /\ [Next]_vars => TakenInv'
    BY <1>2, TakenStep
  <2> QED BY <2>1, TakenInit, TakenImplies, PTL DEF Spec
<1> QED BY <1>1, <1>2

------------------------------------------------------------------------------
(* One command at a time: versions on a device. *)

(* What an answer brings is the server's row of then, and the server has caught up
   with the device's rows: the clean ones it has taken, the dirty ones it has just
   been sent. *)
LEMMA SelectNotOlder ==
  ASSUME TakenInv, NEW p \in Procs, ServerSelect(p)
  PROVE  AnswerNotOlder(p)'
<1> DEFINE d == Home[p]
<1>1. d \in Devices /\ TypeOK /\ SerialInv /\ cmd[p] \in Command /\ local[d] \in Table
  BY HomeAssumption DEF TakenInv, SerialInv, TypeOK
<1>2. cmd'[p].updates = GetUpdatedAfter(cmd[p].since) /\ UNCHANGED local
  BY <1>1 DEF ServerSelect, TypeOK, Command
<1>3. \A u \in Ids : cmd'[p].updates[u] # NoRow => cmd'[p].updates[u] = server[u]
  BY <1>2 DEF GetUpdatedAfter
<1>4. ASSUME NEW u \in Stored(local[d])
      PROVE  u \in Ids /\ local[d][u].version <= server[u].version
  <2>1. u \in Ids /\ local[d][u] \in Row /\ local[d][u] # NoRow
    BY <1>1 DEF Stored, Table
  <2>2. CASE u \in dirty[d]
    <3>1. cmd[p].held = GetDirtyEntries(d) /\ cmd[p].pc = "upserted"
      BY <1>1 DEF ServerSelect, SerialInv
    <3>2. cmd[p].held[u] = local[d][u] /\ u \in Stored(cmd[p].held)
      BY <2>1, <2>2, <3>1 DEF GetDirtyEntries, Stored
    <3> QED BY <1>1, <2>1, <3>1, <3>2 DEF SerialInv
  <2>3. CASE u \notin dirty[d]
    <3>1. local[d][u] \in TakenCopies(u)
      BY <1>1, <2>1, <2>3, CopiesOf
    <3>2. server[u] \in Row /\ TakenBy(server[u], local[d][u])
      BY <2>1, <3>1, CopiesAreRows
    <3> QED BY <2>1, <3>2 DEF TakenBy, Row
  <2> QED BY <2>2, <2>3
<1> QED BY <1>2, <1>3, <1>4 DEF AnswerNotOlder, Stored

(* The other steps leave the answer of q and the rows of its device alone, or
   leave q without an answer. *)
LEMMA NotOlderKept ==
  ASSUME NEW q \in Procs, AnswerNotOlder(q),
         \/ cmd'[q].pc # "answered"
         \/ cmd'[q] = cmd[q] /\ local'[Home[q]] = local[Home[q]]
  PROVE  AnswerNotOlder(q)'
  BY DEF AnswerNotOlder, Stored

LEMMA NoFallStep ==
  ASSUME OneProcess
  PROVE  NoFallInv /\ [Next]_vars => NoFallInv'
<1> SUFFICES ASSUME NoFallInv, [Next]_vars PROVE NoFallInv'
  OBVIOUS
<1>0. TakenInv /\ TakenInv' /\ SerialInv /\ TypeOK
  BY TakenStep DEF NoFallInv, TakenInv, SerialInv
<1> SUFFICES ASSUME NEW q \in Procs PROVE AnswerNotOlder(q)'
  BY <1>0 DEF NoFallInv
<1>1. AnswerNotOlder(q)
  BY DEF NoFallInv
<1>2. ASSUME NEW p \in Procs, NEW u \in Ids, Add(p, u) PROVE AnswerNotOlder(q)'
  BY <1>0, <1>1, <1>2, HomeAssumption, NotOlderKept
     DEF Add, SaveDirty, TypeOK, OneProcess
<1>3. ASSUME NEW p \in Procs, NEW u \in Ids, NEW b \in BOOLEAN, SaveEdit(p, u, b)
      PROVE  AnswerNotOlder(q)'
  BY <1>0, <1>1, <1>3, HomeAssumption, NotOlderKept
     DEF SaveEdit, SaveDirty, TypeOK, OneProcess, Idle
<1>4. ASSUME NEW p \in Procs, NEW u \in Ids, ReadEntry(p, u) PROVE AnswerNotOlder(q)'
  BY <1>0, <1>1, <1>4, NotOlderKept DEF ReadEntry, TypeOK, Idle
<1>5. ASSUME NEW p \in Procs, CollectDirty(p) \/ Fail(p) \/ Abandon(p)
      PROVE  AnswerNotOlder(q)'
  <2>1. UNCHANGED local
    BY <1>5 DEF CollectDirty, Fail, Abandon
  <2>2. q # p => cmd'[q] = cmd[q]
    BY <1>0, <1>5 DEF CollectDirty, Fail, Abandon, TypeOK
  <2>3. cmd'[p].pc # "answered"
    <3>1. CASE CollectDirty(p)
      BY <1>0, <3>1 DEF CollectDirty, TypeOK, Idle
    <3>2. CASE Fail(p) \/ Abandon(p)
      BY <1>0, <3>2 DEF Fail, Abandon, TypeOK, Idle
    <3> QED BY <1>5, <3>1, <3>2
  <2> QED BY <1>1, <2>1, <2>2, <2>3, NotOlderKept
<1>6. ASSUME NEW p \in Procs, SendSync(p) \/ ServerUpsert(p) PROVE AnswerNotOlder(q)'
  BY <1>0, <1>1, <1>6, NotOlderKept DEF SendSync, ServerUpsert, TypeOK, Command
<1>7. ASSUME NEW p \in Procs, ServerSelect(p) PROVE AnswerNotOlder(q)'
  <2>1. CASE q = p
    BY <1>0, <1>7, <2>1, SelectNotOlder
  <2>2. CASE q # p
    BY <1>0, <1>1, <1>7, <2>2, NotOlderKept DEF ServerSelect, TypeOK
  <2> QED BY <2>1, <2>2
<1>8. ASSUME NEW p \in Procs, Persist(p) PROVE AnswerNotOlder(q)'
  BY <1>0, <1>1, <1>8, HomeAssumption, NotOlderKept DEF Persist, TypeOK, OneProcess, Idle
<1>9. ASSUME NEW batch \in late, LateUpsert(batch) PROVE AnswerNotOlder(q)'
  BY <1>1, <1>9, NotOlderKept DEF LateUpsert
<1>10. CASE UNCHANGED vars
  BY <1>1, <1>10, NotOlderKept DEF vars
<1> QED BY <1>2, <1>3, <1>4, <1>5, <1>6, <1>7, <1>8, <1>9, <1>10 DEF Next, Update, Delete

LEMMA NoFallNextStep == NoFallInv /\ OneProcess /\ [Next]_vars => [NoLocalFall]_vars
<1> SUFFICES ASSUME NoFallInv, OneProcess, Next, NEW d \in Devices, NEW u \in Stored(local[d])
             PROVE  local'[d][u] # NoRow /\ local'[d][u].version >= local[d][u].version
  BY DEF NoLocalFall
<1>0. /\ TypeOK /\ SerialInv /\ u \in Ids
      /\ local[d][u] \in Row /\ local[d] \in Table
  BY DEF NoFallInv, TakenInv, SerialInv, TypeOK, Stored, Table
<1> DEFINE Same == local'[d][u] = local[d][u]
<1>1. Same => local'[d][u] # NoRow /\ local'[d][u].version >= local[d][u].version
  BY <1>0, NoRowAssumption DEF Row
<1>2. ASSUME NEW p \in Procs, NEW v \in Ids, Add(p, v) PROVE Same
  BY <1>0, <1>2, HomeAssumption DEF Add, SaveDirty, TypeOK, Table, Stored
<1>3. ASSUME NEW p \in Procs, NEW v \in Ids, NEW b \in BOOLEAN, SaveEdit(p, v, b)
      PROVE  Same \/ (local'[d][u] # NoRow /\ local'[d][u].version >= local[d][u].version)
  <2>1. CASE d = Home[p] /\ u = v
    <3>1. cmd[p].held[u] = local[d][u]
      BY <1>0, <1>3, <2>1 DEF SerialInv, SaveEdit, Stored
    <3>2. local'[d][u] = [version |-> local[d][u].version + 1, stamp |-> edits + 1, deleted |-> b]
      BY <1>0, <1>3, <2>1, <3>1 DEF SaveEdit, SaveDirty, Bump, TypeOK, Table
    <3>3. local'[d][u] \in Row
      BY <1>0, <3>2 DEF Row, TypeOK
    <3> QED BY <1>0, <3>2, <3>3, NoRowAssumption DEF Row
  <2>2. CASE ~(d = Home[p] /\ u = v)
    BY <1>0, <1>3, <2>2 DEF SaveEdit, SaveDirty, TypeOK, Table
  <2> QED BY <2>1, <2>2
<1>4. ASSUME NEW p \in Procs, Persist(p)
      PROVE  Same \/ (local'[d][u] # NoRow /\ local'[d][u].version >= local[d][u].version)
  <2>1. CASE d = Home[p] /\ cmd[p].updates[u] # NoRow
    <3>1. local[d][u].version <= cmd[p].updates[u].version
      BY <1>4, <2>1 DEF NoFallInv, AnswerNotOlder, Persist
    <3>2. cmd[p].updates \in Table
      BY <1>0 DEF TypeOK, Command
    <3>3. local'[d][u] = cmd[p].updates[u]
      BY <1>0, <1>4, <2>1 DEF Persist, Overwritten, Stored, TypeOK
    <3>4. cmd[p].updates[u] \in Row
      BY <1>0, <2>1, <3>2 DEF Table
    <3> QED BY <1>0, <2>1, <3>1, <3>3, <3>4 DEF Row
  <2>2. CASE d # Home[p] \/ cmd[p].updates[u] = NoRow
    BY <1>0, <1>4, <2>2 DEF Persist, Overwritten, Stored, TypeOK
  <2> QED BY <2>1, <2>2
<1>5. CASE UNCHANGED local
  BY <1>1, <1>5
<1> QED BY <1>1, <1>2, <1>3, <1>4, <1>5
        DEF Next, Update, Delete, ReadEntry, CollectDirty, SendSync, ServerUpsert,
            ServerSelect, Fail, Abandon, LateUpsert

(* With one command at a time on each device, no step takes an entry on a device
   back to a lower version, whether pulls are full or incremental. *)
THEOREM NoLocalVersionFalls ==
  ASSUME OneProcess
  PROVE  Spec => LocalVersionsNeverFall
<1>1. Init => NoFallInv
  BY TakenInit DEF NoFallInv, AnswerNotOlder, Init, Idle
<1> QED BY <1>1, NoFallStep, NoFallNextStep, PTL DEF Spec, LocalVersionsNeverFall

------------------------------------------------------------------------------
(* One command at a time: what a sync leaves behind, and who can undo it. *)

(* The server has a row for every row of a device whose sync has been answered. *)
LEMMA AnsweredRowsStored ==
  ASSUME TakenInv, NEW p \in Procs, cmd[p].pc = "answered",
         NEW u \in Stored(local[Home[p]])
  PROVE  u \in Ids /\ server[u] # NoRow
<1>1. Home[p] \in Devices /\ u \in Ids /\ local[Home[p]][u] # NoRow /\ SerialInv
  BY HomeAssumption DEF TakenInv, Stored
<1>2. CASE u \in dirty[Home[p]]
  <2>1. cmd[p].held = GetDirtyEntries(Home[p])
    BY <1>1 DEF SerialInv
  <2>2. u \in Stored(cmd[p].held)
    BY <1>1, <1>2, <2>1 DEF GetDirtyEntries, Stored
  <2> QED BY <1>1, <2>2 DEF SerialInv
<1>3. CASE u \notin dirty[Home[p]]
  <2>1. local[Home[p]][u] \in TakenCopies(u)
    BY <1>1, <1>3, CopiesOf
  <2> QED BY <1>1, <2>1 DEF TakenInv, TakenBy
<1> QED BY <1>2, <1>3

(* With one command at a time on each device, a sync that brings all of the
   server's rows of that moment leaves the device equal to it and with nothing
   unsynced. *)
THEOREM SyncMakesEqual ==
  ASSUME OneProcess
  PROVE  Spec => PullMakesEqual
<1> DEFINE Equal == \A p \in Procs : Persist(p) /\ cmd[p].updates = server =>
                      local'[Home[p]] = server /\ dirty'[Home[p]] = {}
<1>1. ASSUME TakenInv, NEW p \in Procs, Persist(p), cmd[p].updates = server
      PROVE  local'[Home[p]] = server /\ dirty'[Home[p]] = {}
  <2> DEFINE d == Home[p]
  <2>1. TypeOK /\ d \in Devices
    BY <1>1, HomeAssumption DEF TakenInv, SerialInv
  <2>2. /\ local'[d] = [u \in Ids |-> IF u \in Stored(server) THEN server[u] ELSE local[d][u]]
        /\ dirty'[d] = (dirty[d] \ Stored(server)) \ MarkedClean(p)
        /\ cmd[p].pc = "answered"
    BY <1>1, <2>1 DEF Persist, Overwritten, TypeOK
  <2>3. Stored(local[d]) \subseteq Stored(server)
    BY <1>1, <2>2, AnsweredRowsStored DEF Stored
  <2>4. dirty'[d] = {}
    BY <2>1, <2>2, <2>3 DEF TypeOK
  <2>5. \A u \in Ids : local'[d][u] = server[u]
    BY <2>2, <2>3 DEF Stored
  <2>6. local'[d] = server
    BY <2>1, <2>2, <2>5 DEF TypeOK, Table
  <2> QED BY <2>4, <2>6
<1>2. TakenInv => [Equal]_vars
  BY <1>1
<1>3. TakenInv /\ [Next]_vars => TakenInv'
  BY TakenStep
<1> QED BY <1>2, <1>3, TakenInit, PTL DEF Spec, PullMakesEqual

LEMMA LateStep ==
  ASSUME SyncedInv, OneProcess, [Next]_vars
  PROVE  LateNotNewer'
<1>0. /\ NoFallInv /\ NoFallInv' /\ SerialInv /\ TypeOK /\ TypeOK'
      /\ [NoLocalFall]_vars
  BY NoFallStep, NoFallNextStep DEF SyncedInv, NoFallInv, TakenInv, SerialInv
<1>1. ASSUME NEW d \in Devices, NEW u \in Ids, NEW n \in Nat,
             local[d][u] # NoRow, n <= local[d][u].version
      PROVE  local'[d][u] # NoRow /\ n <= local'[d][u].version
  <2>1. local'[d][u] # NoRow /\ local'[d][u].version >= local[d][u].version
    <3>1. local[d][u] \in Row
      BY <1>0, <1>1 DEF TypeOK, Table
    <3> QED BY <1>0, <1>1, <3>1 DEF NoLocalFall, Stored, vars, Row
  <2>2. local[d][u] \in Row /\ local'[d][u] \in Row
    BY <1>0, <1>1, <2>1 DEF TypeOK, Table
  <2> QED BY <1>1, <2>1, <2>2 DEF Row
<1>2. ASSUME NEW batch \in late
      PROVE  \E d \in Devices : \A u \in Stored(batch) :
               local'[d][u] # NoRow /\ batch[u].version <= local'[d][u].version
  <2>1. PICK d \in Devices : \A u \in Stored(batch) :
               local[d][u] # NoRow /\ batch[u].version <= local[d][u].version
    BY <1>2 DEF SyncedInv, LateNotNewer
  <2>2. \A u \in Stored(batch) : u \in Ids /\ batch[u].version \in Nat
    BY <1>0 DEF TypeOK, Table, Row, Stored
  <2> QED BY <1>1, <2>1, <2>2
<1>3. CASE late' \subseteq late
  BY <1>2, <1>3 DEF LateNotNewer
<1>4. ASSUME NEW p \in Procs, Abandon(p) PROVE LateNotNewer'
  <2>1. Home[p] \in Devices /\ cmd[p].held = GetDirtyEntries(Home[p]) /\ UNCHANGED local
    BY <1>0, <1>4, HomeAssumption DEF Abandon, SerialInv
  <2>2. ASSUME NEW u \in Stored(cmd[p].held)
        PROVE  /\ local'[Home[p]][u] # NoRow
               /\ cmd[p].held[u].version <= local'[Home[p]][u].version
    <3>1. u \in Ids /\ cmd[p].held[u] = local[Home[p]][u] /\ cmd[p].held[u] # NoRow
      BY <2>1 DEF GetDirtyEntries, Stored
    <3>2. local[Home[p]][u] \in Row
      BY <1>0, <2>1, <3>1 DEF TypeOK, Table
    <3> QED BY <2>1, <3>1, <3>2 DEF Row
  <2>3. late' = late \cup {cmd[p].held}
    BY <1>4 DEF Abandon
  <2> QED BY <1>2, <2>1, <2>2, <2>3 DEF LateNotNewer
<1>5. (\E p \in Procs : Abandon(p)) \/ late' \subseteq late
  BY DEF Next, vars, Add, ReadEntry, Update, Delete, SaveEdit, CollectDirty, SendSync,
         ServerUpsert, ServerSelect, Persist, Fail, LateUpsert
<1> QED BY <1>3, <1>4, <1>5

(* Only an edit makes a device differ again. *)
LEMMA SyncedStep ==
  ASSUME SyncedInv, OneProcess, Next, AllSynced, edits' = edits
  PROVE  AllSynced'
<1>0. /\ TypeOK /\ SerialInv /\ TakenInv
      /\ \A p \in Procs : Home[p] \in Devices /\ cmd[p] \in Command
  BY HomeAssumption DEF SyncedInv, NoFallInv, TakenInv, SerialInv, TypeOK
<1>1. CASE UNCHANGED <<server, local, dirty>>
  BY <1>1 DEF AllSynced
<1>2. ASSUME NEW batch \in Table, UpsertEntries(batch), UNCHANGED <<local, dirty>>,
             \A u \in Stored(batch) : server[u] # NoRow /\ ~ server[u].version < batch[u].version
      PROVE  AllSynced'
  <2>1. Accepted(batch) = {}
    BY <1>2 DEF Accepted
  <2>2. server' = server
    BY <1>0, <1>2, <2>1 DEF UpsertEntries, TypeOK, Table
  <2> QED BY <1>1, <1>2, <2>2
<1>3. ASSUME NEW p \in Procs, ServerUpsert(p) PROVE AllSynced'
  <2>1. cmd[p].held \in Table /\ Stored(cmd[p].held) = {}
    <3>1. cmd[p].held = GetDirtyEntries(Home[p]) /\ dirty[Home[p]] = {}
      BY <1>0, <1>3 DEF ServerUpsert, SerialInv, AllSynced
    <3> QED BY <1>0, <3>1, DirtyEntriesType
  <2> QED BY <1>2, <1>3, <2>1 DEF ServerUpsert
<1>4. ASSUME NEW batch \in late, LateUpsert(batch) PROVE AllSynced'
  <2>1. PICK d \in Devices : \A u \in Stored(batch) :
               local[d][u] # NoRow /\ batch[u].version <= local[d][u].version
    BY DEF SyncedInv, LateNotNewer
  <2>2. local[d] = server
    BY DEF AllSynced
  <2>3. batch \in Table
    BY <1>0 DEF TypeOK
  <2>4. ASSUME NEW u \in Stored(batch)
        PROVE  server[u] # NoRow /\ ~ server[u].version < batch[u].version
    <3>1. u \in Ids /\ batch[u] \in Row /\ server[u] # NoRow
      BY <2>1, <2>2, <2>3 DEF Stored, Table
    <3>2. server[u] \in Row
      BY <1>0, <3>1 DEF TypeOK, Table
    <3> QED BY <2>1, <2>2, <3>1, <3>2 DEF Row
  <2> QED BY <1>2, <1>4, <2>3, <2>4 DEF LateUpsert
<1>5. ASSUME NEW p \in Procs, Persist(p) PROVE AllSynced'
  <2> DEFINE d == Home[p]
  <2>1. /\ d \in Devices /\ cmd[p].pc = "answered" /\ server' = server
        /\ local[d] = server /\ dirty[d] = {}
    BY <1>0, <1>5 DEF Persist, AllSynced
  <2>2. ASSUME NEW u \in Overwritten(p) PROVE cmd[p].updates[u] = server[u]
    <3>1. u \in Ids /\ cmd[p].updates[u] # NoRow
      BY <1>5 DEF Overwritten, Stored
    <3>2. cmd[p].updates[u] \in TakenCopies(u)
      BY <3>1, CopiesOf
    <3>3. /\ cmd[p].updates[u] \in Row /\ server[u] \in Row
          /\ TakenBy(server[u], cmd[p].updates[u])
      BY <1>0, <3>1, <3>2, CopiesAreRows
    <3>4. server[u].version <= cmd[p].updates[u].version
      BY <2>1, <3>1, <3>3, NoRowAssumption DEF SyncedInv, NoFallInv, AnswerNotOlder, Stored
    <3> QED BY <3>3, <3>4 DEF TakenBy, Row
  <2>3. local' = local
    <3>1. /\ local' = [local EXCEPT ![d] =
               [u \in Ids |-> IF u \in Overwritten(p) THEN cmd[p].updates[u] ELSE local[d][u]]]
      BY <1>5 DEF Persist
    <3>2. [u \in Ids |-> IF u \in Overwritten(p) THEN cmd[p].updates[u] ELSE local[d][u]] = local[d]
      BY <1>0, <2>1, <2>2 DEF TypeOK, Table
    <3> QED BY <1>0, <3>1, <3>2 DEF TypeOK
  <2>4. dirty' = dirty
    BY <1>0, <1>5, <2>1 DEF Persist, TypeOK
  <2> QED BY <1>1, <2>1, <2>3, <2>4
<1>6. ASSUME NEW p \in Procs, NEW u \in Ids
      PROVE  ~ (Add(p, u) \/ Update(p, u) \/ Delete(p, u))
  <2>1. edits' # edits + 1
    BY <1>0 DEF TypeOK
  <2> QED BY <2>1 DEF Add, Update, Delete, SaveEdit, SaveDirty
<1> QED BY <1>1, <1>3, <1>4, <1>5, <1>6
        DEF Next, ReadEntry, CollectDirty, SendSync, ServerSelect, Fail, Abandon

(* With one command at a time on each device, devices that all hold the server's
   rows go on doing so until somebody edits, whether pulls are full or not: no
   answer and no late upload brings back what has been replaced. *)
THEOREM SyncedStaysSynced ==
  ASSUME OneProcess
  PROVE  Spec => SyncedStays
<1>1. Init => SyncedInv
  <2>1. Init => NoFallInv
    BY TakenInit DEF NoFallInv, AnswerNotOlder, Init, Idle
  <2> QED BY <2>1 DEF SyncedInv, LateNotNewer, Init
<1>2. SyncedInv /\ [Next]_vars => SyncedInv'
  BY NoFallStep, LateStep DEF SyncedInv
<1>3. SyncedInv /\ [Next]_vars => [AllSynced /\ edits' = edits => AllSynced']_vars
  BY SyncedStep
<1> QED BY <1>1, <1>2, <1>3, PTL DEF Spec, SyncedStays
==============================================================================
