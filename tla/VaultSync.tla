------------------------------ MODULE VaultSync ------------------------------
(***************************************************************************)
(* The synchronisation of one account's vault: the `entries` table of the  *)
(* skeeper server (Postgres), the `entries` table of every device (SQLite) *)
(* and the skeepercli processes that run commands on the devices.          *)
(*                                                                         *)
(* Every statement or transaction on a database is one step; a command is  *)
(* the sequence of its steps, so commands interleave wherever the code     *)
(* lets them: between SyncUseCase.Sync's two local reads, the server's     *)
(* upsert, its select, and PersistSyncResult, and between the GetEntry and *)
(* the SaveEntry of an update or a delete.                                 *)
(*                                                                         *)
(* A row keeps what synchronisation looks at.  `stamp` numbers the edit    *)
(* that made the row; it stands for the ciphertext (each edit seals with   *)
(* fresh keys, so two edits never make equal rows) and for updated_at      *)
(* (time.Now() of the edit, clocks agreeing with each other).              *)
(***************************************************************************)
EXTENDS Integers, FiniteSets

CONSTANTS
  Devices,          \* machines logged in to the account
  Procs,            \* skeepercli processes: one that ends starts again idle
  Home,             \* Home[p]: the device of process p
  Ids,              \* entry UUIDs
  NoRow,            \* no row with that UUID
  Unsynced,         \* marks an unsynced row in the abstract vault
  DateTextReadable, \* can SQLite's unixepoch() read the stored updated_at?
  Second,           \* stamps per second, the resolution of unixepoch()
  MaxEdits,         \* bound: edits in a behaviour
  MaxLate           \* bound: abandoned requests the server may still run

ASSUME HomeAssumption == Home \in [Procs -> Devices]
ASSUME BoundsAssumption ==
  MaxEdits \in Nat /\ MaxLate \in Nat /\ Second \in Nat \ {0}
ASSUME ModeAssumption == DateTextReadable \in BOOLEAN

Row == [version : Nat \ {0}, stamp : Nat \ {0}, deleted : BOOLEAN]
Table == [Ids -> Row \cup {NoRow}]

ASSUME NoRowAssumption == NoRow \notin Row

NoRows == [u \in Ids |-> NoRow]
Stored(table) == {u \in Ids : table[u] # NoRow}

VARIABLES
  server,   \* rows of the account on the server
  local,    \* local[d]: rows of the account in the SQLite file of d
  dirty,    \* dirty[d]: the UUIDs whose row on d has is_dirty = 1
  cmd,      \* cmd[p]: the command p is running and what it has in memory
  late,     \* uploads of abandoned requests the server may still run
  edits     \* number of edits so far

vars == <<server, local, dirty, cmd, late, edits>>

(***************************************************************************)
(* pc is the last step the command has made: "editing" after GetEntry,     *)
(* "collected" after GetDirtyEntries, "requested" with the Sync RPC sent,  *)
(* "upserted" and "answered" inside and after the server's handler.        *)
(* `held` is what the command read from SQLite: the entry being edited, or *)
(* the dirty entries of a sync.                                            *)
(***************************************************************************)
Command ==
  [pc : {"idle", "editing", "collected", "requested", "upserted", "answered"},
   held : Table, since : Nat, applied : SUBSET Ids, updates : Table]

Idle == [pc |-> "idle", held |-> NoRows, since |-> 0,
         applied |-> {}, updates |-> NoRows]

TypeOK ==
  /\ server \in Table
  /\ local \in [Devices -> Table]
  /\ dirty \in [Devices -> SUBSET Ids]
  /\ \A d \in Devices : dirty[d] \subseteq Stored(local[d])
  /\ cmd \in [Procs -> Command]
  /\ late \subseteq Table
  /\ edits \in Nat

Init ==
  /\ server = NoRows
  /\ local = [d \in Devices |-> NoRows]
  /\ dirty = [d \in Devices |-> {}]
  /\ cmd = [p \in Procs |-> Idle]
  /\ late = {}
  /\ edits = 0

------------------------------------------------------------------------------
(* Local edits. *)

(* Repository.saveEntry with isDirty = true: the row replaces whatever the
   file holds for that UUID. *)
SaveDirty(d, u, row) ==
  /\ local' = [local EXCEPT ![d][u] = row]
  /\ dirty' = [dirty EXCEPT ![d] = @ \cup {u}]
  /\ edits' = edits + 1

(* Mutant of Bump: the version is left as it is. *)
BumpForgotten(version) == version

(* sealWithNewDEK, encryptMetaOnly and DeleteEntry: Version++. *)
Bump(version) == version + 1

(* insertEncryptedEntry: a fresh UUID, version 0 bumped to 1. *)
Add(p, u) ==
  /\ cmd[p].pc = "idle"
  /\ edits < MaxEdits
  /\ \A d \in Devices : local[d][u] = NoRow
  /\ SaveDirty(Home[p], u, [version |-> Bump(0), stamp |-> edits + 1, deleted |-> FALSE])
  /\ UNCHANGED <<server, cmd, late>>

(* unlockEntry and DeleteEntry read the row first and then call the server
   for the vault crypto. *)
ReadEntry(p, u) ==
  /\ cmd[p].pc = "idle"
  /\ edits < MaxEdits
  /\ local[Home[p]][u] # NoRow
  /\ ~ local[Home[p]][u].deleted
  /\ cmd' = [cmd EXCEPT ![p] =
               [Idle EXCEPT !.pc = "editing",
                            !.held = [NoRows EXCEPT ![u] = local[Home[p]][u]]]]
  /\ UNCHANGED <<server, local, dirty, late, edits>>

(* The row that was read, version bumped, goes back whatever the file holds
   by now: an update keeps it live, a delete turns it into a tombstone. *)
SaveEdit(p, u, isDeleted) ==
  /\ cmd[p].pc = "editing"
  /\ cmd[p].held[u] # NoRow
  /\ edits < MaxEdits
  /\ SaveDirty(Home[p], u,
       [version |-> Bump(cmd[p].held[u].version), stamp |-> edits + 1, deleted |-> isDeleted])
  /\ cmd' = [cmd EXCEPT ![p] = Idle]
  /\ UNCHANGED <<server, late>>

Update(p, u) == SaveEdit(p, u, FALSE)
Delete(p, u) == SaveEdit(p, u, TRUE)

------------------------------------------------------------------------------
(* SyncUseCase.Sync and the server's handler. *)

GetDirtyEntries(d) == [u \in Ids |-> IF u \in dirty[d] THEN local[d][u] ELSE NoRow]

CollectDirty(p) ==
  /\ cmd[p].pc = "idle"
  /\ cmd' = [cmd EXCEPT ![p] =
               [Idle EXCEPT !.pc = "collected", !.held = GetDirtyEntries(Home[p])]]
  /\ UNCHANGED <<server, local, dirty, late, edits>>

(* t is MAX(updated_at) over the rows of device d, dirty ones included. *)
IsNewestStamp(d, t) ==
  /\ \A u \in Stored(local[d]) : local[d][u].stamp <= t
  /\ t = 0 \/ \E u \in Stored(local[d]) : local[d][u].stamp = t

(* unixepoch() has whole seconds, and is NULL - COALESCEd to 0 - for a text
   it cannot read. *)
GetLastUpdate(t) == IF DateTextReadable THEN (t \div Second) * Second ELSE 0

SendSync(p) ==
  /\ cmd[p].pc = "collected"
  /\ \E t \in 0..edits :
       /\ IsNewestStamp(Home[p], t)
       /\ cmd' = [cmd EXCEPT ![p].pc = "requested", ![p].since = GetLastUpdate(t)]
  /\ UNCHANGED <<server, local, dirty, late, edits>>

(* Mutants of Accepted: the version guard is lax, missing, or off by one. *)
AcceptedEqual(batch) ==
  {u \in Stored(batch) : server[u] = NoRow \/ server[u].version <= batch[u].version}
AcceptedAll(batch) == Stored(batch)
AcceptedSkipping(batch) ==
  {u \in Stored(batch) : server[u] = NoRow \/ server[u].version + 1 < batch[u].version}

(* The rows of an upload that the server takes: new UUIDs, and rows whose
   version is above the stored one. *)
Accepted(batch) ==
  {u \in Stored(batch) : server[u] = NoRow \/ server[u].version < batch[u].version}

UpsertEntries(batch) ==
  server' = [u \in Ids |-> IF u \in Accepted(batch) THEN batch[u] ELSE server[u]]

GetUpdatedAfter(t) ==
  [u \in Ids |-> IF server[u] # NoRow /\ server[u].stamp > t THEN server[u] ELSE NoRow]

ServerUpsert(p) ==
  /\ cmd[p].pc = "requested"
  /\ UpsertEntries(cmd[p].held)
  /\ cmd' = [cmd EXCEPT ![p].pc = "upserted", ![p].applied = Accepted(cmd[p].held)]
  /\ UNCHANGED <<local, dirty, late, edits>>

ServerSelect(p) ==
  /\ cmd[p].pc = "upserted"
  /\ cmd' = [cmd EXCEPT ![p].pc = "answered", ![p].updates = GetUpdatedAfter(cmd[p].since)]
  /\ UNCHANGED <<server, local, dirty, late, edits>>

(* The uploaded rows the server has applied. *)
MarkedClean(p) == Stored(cmd[p].held) \cap cmd[p].applied

(* Mutant of Overwritten: a dirty row is not replaced. *)
OverwrittenUnlessDirty(p) == Stored(cmd[p].updates) \ dirty[Home[p]]

(* The rows the server has sent. *)
Overwritten(p) == Stored(cmd[p].updates)

(* PersistSyncResult, one transaction: every update is saved with
   is_dirty = 0, then every uploaded row the server applied is marked clean,
   whatever it holds by now. *)
Persist(p) ==
  LET d == Home[p] IN
  /\ cmd[p].pc = "answered"
  /\ local' = [local EXCEPT ![d] =
                 [u \in Ids |-> IF u \in Overwritten(p) THEN cmd[p].updates[u] ELSE local[d][u]]]
  /\ dirty' = [dirty EXCEPT ![d] = (@ \ Overwritten(p)) \ MarkedClean(p)]
  /\ cmd' = [cmd EXCEPT ![p] = Idle]
  /\ UNCHANGED <<server, late, edits>>

------------------------------------------------------------------------------
(* Failures. *)

(* The command returns an error or its process dies; nothing it had not
   written to a database survives. *)
Fail(p) ==
  /\ cmd[p].pc # "idle"
  /\ cmd' = [cmd EXCEPT ![p] = Idle]
  /\ UNCHANGED <<server, local, dirty, late, edits>>

(* The client gives up on a Sync RPC the server has not handled yet. *)
Abandon(p) ==
  /\ cmd[p].pc = "requested"
  /\ Cardinality(late) < MaxLate
  /\ late' = late \cup {cmd[p].held}
  /\ cmd' = [cmd EXCEPT ![p] = Idle]
  /\ UNCHANGED <<server, local, dirty, edits>>

LateUpsert(batch) ==
  /\ UpsertEntries(batch)
  /\ late' = late \ {batch}
  /\ UNCHANGED <<local, dirty, cmd, edits>>

------------------------------------------------------------------------------
Next ==
  \/ \E p \in Procs, u \in Ids :
       Add(p, u) \/ ReadEntry(p, u) \/ Update(p, u) \/ Delete(p, u)
  \/ \E p \in Procs :
       \/ CollectDirty(p) \/ SendSync(p) \/ ServerUpsert(p) \/ ServerSelect(p)
       \/ Persist(p) \/ Fail(p) \/ Abandon(p)
  \/ \E batch \in late : LateUpsert(batch)

Spec == Init /\ [][Next]_vars

(***************************************************************************)
(* Users sync every device again and again, an edit that was started ends  *)
(* (the command is one function call, with no prompt inside), and a step   *)
(* of a sync that is possible infinitely often happens: the connection     *)
(* does not fail at the same step for ever.                                *)
(***************************************************************************)
EndEdit(p) ==
  \/ \E u \in Ids : Update(p, u) \/ Delete(p, u)
  \/ cmd[p].pc = "editing" /\ Fail(p)

Fairness ==
  \A p \in Procs :
    /\ WF_vars(EndEdit(p))
    /\ SF_vars(CollectDirty(p))
    /\ SF_vars(SendSync(p))
    /\ SF_vars(ServerUpsert(p))
    /\ SF_vars(ServerSelect(p))
    /\ SF_vars(Persist(p))

FairSpec == Spec /\ Fairness

------------------------------------------------------------------------------
(* Properties. *)

Clean(d) == Stored(local[d]) \ dirty[d]

(* r is a row the store s has taken: s holds it, or has moved past it. *)
TakenBy(s, r) == s # NoRow /\ (r = s \/ r.version < s.version)

(* A row a device holds as synced has been taken by the server: marking rows
   clean in PersistSyncResult never runs ahead of the server. *)
CleanRowsTaken ==
  \A d \in Devices : \A u \in Clean(d) : TakenBy(server[u], local[d][u])

(* The copies of entry u that count as synced: the server's, the clean ones of
   the devices and those on their way to a device. *)
SyncedCopies(u) ==
  ({server[u]} \cup {local[d][u] : d \in {e \in Devices : u \notin dirty[e]}}
              \cup {cmd[p].updates[u] : p \in Procs}) \ {NoRow}

(* Two synced copies of an entry with one version are one row: of two devices
   that reach the same version independently only one keeps its edit, so
   `version` identifies the content everywhere but in unsynced changes. *)
VersionNamesContent ==
  \A u \in Ids : \A r1, r2 \in SyncedCopies(u) : r1.version = r2.version => r1 = r2

(* A change that is not synced yet stays as it is until the user edits it again
   or the server holds that version or a higher one of the entry (models.go:29:
   "True when local changes are not yet confirmed by sync"). *)
KeepsUnsynced ==
  \A d \in Devices : \A u \in dirty[d] :
    \/ u \in dirty'[d] /\ local'[d][u] = local[d][u]
    \/ u \in dirty'[d] /\ local'[d][u].version = local[d][u].version + 1
    \/ server[u] # NoRow /\ server[u].version >= local[d][u].version

UnsyncedChangeKept == [][KeepsUnsynced]_vars

(* No step takes an entry on a device back to a lower version: neither an
   edit saved over what a sync has brought, nor a late answer to a sync. *)
NoLocalFall ==
  \A d \in Devices : \A u \in Stored(local[d]) :
    local'[d][u] # NoRow /\ local'[d][u].version >= local[d][u].version

LocalVersionsNeverFall == [][NoLocalFall]_vars

(* Every device holds exactly the rows of the server, and nothing unsynced. *)
AllSynced == \A d \in Devices : local[d] = server /\ dirty[d] = {}

(* PROJECT.md:13, "so other devices can converge": when the users stop editing
   and go on syncing, all devices come to hold the server's rows for good. *)
Converges == <>[]AllSynced

(* The two halves of it that a single step can break.  A sync during which nobody
   else has changed the server ends with the device holding exactly the server's
   rows and nothing unsynced: no uploaded row is left behind as dirty, none that
   the server has refused stays. *)
PullMakesEqual ==
  [][\A p \in Procs :
       Persist(p) /\ cmd[p].updates = server =>
         local'[Home[p]] = server /\ dirty'[Home[p]] = {}]_vars

(* And once all are equal they stay so until somebody edits, whatever syncs are
   still on their way and whatever uploads arrive late. *)
SyncedStays == [][AllSynced /\ edits' = edits => AllSynced']_vars

(***************************************************************************)
(* Inductive invariants.                                                   *)
(*                                                                         *)
(* With full pulls an answer holds every row the server had, so it names   *)
(* every row the server applied, and what it names the server has taken.   *)
(***************************************************************************)
AnswerCovers(p) ==
  /\ cmd[p].since = 0
  /\ cmd[p].applied \subseteq Stored(server)
  /\ cmd[p].pc = "answered" => cmd[p].applied \subseteq Stored(cmd[p].updates)
  /\ cmd[p].pc # "answered" => cmd[p].updates = NoRows
  /\ \A u \in Stored(cmd[p].updates) : TakenBy(server[u], cmd[p].updates[u])

FullPullInv ==
  /\ TypeOK
  /\ CleanRowsTaken
  /\ VersionNamesContent
  /\ \A p \in Procs : AnswerCovers(p)

(* With one process per device a command's copies of the local rows are never
   stale, and past the upsert the server has caught up with all it was sent. *)
OneProcess == \A p, q \in Procs : Home[p] = Home[q] => p = q

SerialInv ==
  /\ TypeOK
  /\ \A p \in Procs :
       /\ cmd[p].pc = "editing" =>
            \A u \in Stored(cmd[p].held) : cmd[p].held[u] = local[Home[p]][u]
       /\ cmd[p].pc \in {"collected", "requested", "upserted", "answered"} =>
            cmd[p].held = GetDirtyEntries(Home[p])
       /\ cmd[p].pc \in {"upserted", "answered"} =>
            \A u \in Stored(cmd[p].held) :
              server[u] # NoRow /\ cmd[p].held[u].version <= server[u].version

(* Whatever an answer holds, all that counts as synced or is about to - the rows
   that Persist will mark clean are those the server was sent - the server has
   taken, at most one row per version. *)
TakenCopies(u) ==
  SyncedCopies(u) \cup {cmd[p].held[u] : p \in {q \in Procs : u \in MarkedClean(q)}}

TakenInv ==
  /\ SerialInv
  /\ \A p \in Procs : /\ cmd[p].pc \notin {"upserted", "answered"} => cmd[p].applied = {}
                      /\ cmd[p].pc # "answered" => cmd[p].updates = NoRows
  /\ \A u \in Ids : \A r \in TakenCopies(u) :
       /\ TakenBy(server[u], r)
       /\ \A s \in TakenCopies(u) : r.version = s.version => r = s

(* An answer brings no row that is older than the device's own. *)
AnswerNotOlder(p) ==
  cmd[p].pc = "answered" =>
    \A u \in Stored(local[Home[p]]) :
      cmd[p].updates[u] # NoRow => local[Home[p]][u].version <= cmd[p].updates[u].version

NoFallInv == TakenInv /\ \A p \in Procs : AnswerNotOlder(p)

(* An upload that may still arrive was read on some device, whose rows have only
   moved to higher versions since. *)
LateNotNewer ==
  \A batch \in late : \E d \in Devices : \A u \in Stored(batch) :
    local[d][u] # NoRow /\ batch[u].version <= local[d][u].version

SyncedInv == NoFallInv /\ LateNotNewer

(* The rows of a device as the abstract vault sees them. *)
Replica ==
  INSTANCE SnapshotReplica WITH
    store <- server,
    view <- [d \in Devices |-> [u \in Ids |->
               IF u \in dirty[d] THEN Unsynced ELSE local[d][u]]],
    snapshot <- [p \in Procs |-> cmd[p].updates]

(* Behind the dirty flags every device holds rows of consistent snapshots of
   a store whose rows only move to higher versions. *)
ReplicaSpec == Replica!Spec
==============================================================================
