----------------------------- MODULE VaultCrypto -----------------------------
(***************************************************************************)
(* How the devices of one account come to seal their entries under one     *)
(* master key: the `vault_crypto` row of the skeeper server, the           *)
(* `crypto_meta` row of every device, and the commands that fetch, create, *)
(* check and publish them on the way to an entry.                          *)
(*                                                                         *)
(* A master key is the pair of the salt and the password it is derived     *)
(* from.  A verifier identifies its key, so it is modelled by the key.     *)
(* Every statement on a database is one step.                              *)
(***************************************************************************)
EXTENDS Integers, FiniteSets

CONSTANTS
  Devices,      \* machines logged in to the account
  Procs,        \* skeepercli processes
  Home,         \* Home[p]: the device of process p
  Passwords,    \* master passwords the users type
  Ids,          \* entry UUIDs
  NoKey,        \* no key: no row, a NULL verifier, or no entry
  NoMeta,       \* no crypto_meta row
  MaxSalts,     \* bound: salts generated in a behaviour
  MaxLate       \* bound: abandoned requests the server may still run

ASSUME HomeAssumption == Home \in [Procs -> Devices]
ASSUME BoundsAssumption == MaxSalts \in Nat /\ MaxLate \in Nat

Key == [salt : Nat, pass : Passwords]
Meta == [salt : Nat, verifier : Key \cup {NoKey}]

ASSUME NoKeyAssumption == NoKey \notin Key
ASSUME NoMetaAssumption == NoMeta \notin Meta

VARIABLES
  vault,      \* the account's vault_crypto row, as the key it verifies
  meta,       \* meta[d]: the account's crypto_meta row on d
  sealed,     \* sealed[u]: the key that wraps the DEK of entry u
  acknowledged, \* entries whose command got PutVaultCrypto's success before it ended
  cmd,        \* cmd[p]: the command p is running and what it has in memory
  late,       \* PutVaultCrypto requests given up by their clients
  salts       \* number of salts generated so far

vars == <<vault, meta, sealed, acknowledged, cmd, late, salts>>

(* pc is the last step the command has made; `adding` tells insertEncryptedEntry
   from the commands on an existing entry. *)
Command ==
  [pc : {"idle", "fetched", "pulled", "generated", "loaded", "saved",
         "publishing", "inserting", "reselecting", "stored"},
   adding : BOOLEAN, pass : Passwords, remote : Key \cup {NoKey},
   salt : Nat, verifier : Key \cup {NoKey}, ids : {{}} \cup {{u} : u \in Ids}]

Idle == [pc |-> "idle", adding |-> FALSE, pass |-> CHOOSE m \in Passwords : TRUE,
         remote |-> NoKey, salt |-> 0, verifier |-> NoKey, ids |-> {}]

ASSUME PasswordsAssumption == Passwords # {}

TypeOK ==
  /\ vault \in Key \cup {NoKey}
  /\ meta \in [Devices -> Meta \cup {NoMeta}]
  /\ sealed \in [Ids -> Key \cup {NoKey}]
  /\ acknowledged \subseteq Ids
  /\ cmd \in [Procs -> Command]
  /\ late \subseteq Key
  /\ salts \in Nat
  /\ \A p \in Procs : cmd[p].pc \in {"loaded", "saved"} => meta[Home[p]] # NoMeta

Init ==
  /\ vault = NoKey
  /\ meta = [d \in Devices |-> NoMeta]
  /\ sealed = [u \in Ids |-> NoKey]
  /\ acknowledged = {}
  /\ cmd = [p \in Procs |-> Idle]
  /\ late = {}
  /\ salts = 0

(* The key derived from the salt the command has loaded and its password. *)
MasterKey(p) == [salt |-> cmd[p].salt, pass |-> cmd[p].pass]

(* deriveAndCheckMasterKey: a stored verifier must match. *)
PassesCheck(p) == cmd[p].verifier \in {NoKey, MasterKey(p)}

------------------------------------------------------------------------------
(* materializeVaultCrypto: fetch the server's row, copy it, load the local one. *)

(* GetVaultCrypto: the server's row as it is now, or NotFound. *)
Fetch(p, adding, m) ==
  /\ cmd[p].pc = "idle"
  /\ cmd' = [cmd EXCEPT ![p] =
               [Idle EXCEPT !.pc = "fetched", !.adding = adding, !.pass = m, !.remote = vault]]
  /\ UNCHANGED <<vault, meta, sealed, acknowledged, late, salts>>

(* Mutant of Adopted: a row the device has already is not replaced. *)
AdoptedIfNone(p) ==
  IF meta[Home[p]] = NoMeta THEN [salt |-> cmd[p].remote.salt, verifier |-> cmd[p].remote]
                            ELSE meta[Home[p]]

(* ReplaceLocalVaultCrypto: salt and verifier of the server. *)
Adopted(p) == [salt |-> cmd[p].remote.salt, verifier |-> cmd[p].remote]

Adopt(p) ==
  /\ cmd[p].pc = "fetched"
  /\ meta' = IF cmd[p].remote = NoKey THEN meta ELSE [meta EXCEPT ![Home[p]] = Adopted(p)]
  /\ cmd' = [cmd EXCEPT ![p].pc = "pulled"]
  /\ UNCHANGED <<vault, sealed, acknowledged, late, salts>>

(* EnsureLocalVaultCrypto: the row is there. *)
Load(p) ==
  /\ cmd[p].pc = "pulled"
  /\ meta[Home[p]] # NoMeta
  /\ cmd' = [cmd EXCEPT ![p].pc = "loaded", ![p].salt = meta[Home[p]].salt,
                        ![p].verifier = meta[Home[p]].verifier]
  /\ UNCHANGED <<vault, meta, sealed, acknowledged, late, salts>>

(* EnsureLocalVaultCrypto: no row, a new salt. *)
Generate(p) ==
  /\ cmd[p].pc = "pulled"
  /\ meta[Home[p]] = NoMeta
  /\ salts < MaxSalts
  /\ salts' = salts + 1
  /\ cmd' = [cmd EXCEPT ![p].pc = "generated", ![p].salt = salts + 1]
  /\ UNCHANGED <<vault, meta, sealed, acknowledged, late>>

(* Mutant of InsertMeta: an upsert, which replaces a row made meanwhile. *)
UpsertMeta(p) ==
  /\ cmd[p].pc = "generated"
  /\ meta' = [meta EXCEPT ![Home[p]] = [salt |-> cmd[p].salt, verifier |-> NoKey]]
  /\ cmd' = [cmd EXCEPT ![p].pc = "loaded"]
  /\ UNCHANGED <<vault, sealed, acknowledged, late, salts>>

(* ... inserted with a NULL verifier.  Another process of the device may have
   inserted one first: the plain INSERT then fails, and with it the command. *)
InsertMeta(p) ==
  /\ cmd[p].pc = "generated"
  /\ IF meta[Home[p]] = NoMeta
       THEN /\ meta' = [meta EXCEPT ![Home[p]] = [salt |-> cmd[p].salt, verifier |-> NoKey]]
            /\ cmd' = [cmd EXCEPT ![p].pc = "loaded"]
       ELSE /\ cmd' = [cmd EXCEPT ![p] = Idle]
            /\ UNCHANGED meta
  /\ UNCHANGED <<vault, sealed, acknowledged, late, salts>>

------------------------------------------------------------------------------
(* The rest of a command. *)

(* insertEncryptedEntry: the entry is saved under the derived key before the
   key is recorded or published. *)
SaveNew(p, u) ==
  /\ cmd[p].pc = "loaded"
  /\ cmd[p].adding
  /\ PassesCheck(p)
  /\ sealed[u] = NoKey
  /\ sealed' = [sealed EXCEPT ![u] = MasterKey(p)]
  /\ cmd' = [cmd EXCEPT ![p].ids = {u},
                        ![p].pc = IF cmd[p].verifier = NoKey THEN "saved" ELSE "publishing"]
  /\ UNCHANGED <<vault, meta, acknowledged, late, salts>>

(* Mutant of SetVerifier: the password is stored in place of the verifier. *)
SetVerifierRaw(p) ==
  /\ cmd[p].pc = "saved"
  /\ meta' = [meta EXCEPT ![Home[p]].verifier = cmd[p].pass]
  /\ cmd' = [cmd EXCEPT ![p].pc = "publishing"]
  /\ UNCHANGED <<vault, sealed, acknowledged, late, salts>>

(* finalizeVaultVerifier: SetLocalMasterVerifier, if none was stored; the
   UPDATE looks at user_id only. *)
SetVerifier(p) ==
  /\ cmd[p].pc = "saved"
  /\ meta' = [meta EXCEPT ![Home[p]].verifier = MasterKey(p)]
  /\ cmd' = [cmd EXCEPT ![p].pc = "publishing"]
  /\ UNCHANGED <<vault, sealed, acknowledged, late, salts>>

(* unlockEntry and the Update* commands: the entry's DEK is unwrapped with the
   derived key, and the new one wrapped with it. *)
Reseal(p, u) ==
  /\ cmd[p].pc = "loaded"
  /\ ~ cmd[p].adding
  /\ PassesCheck(p)
  /\ sealed[u] = MasterKey(p)
  /\ sealed' = [sealed EXCEPT ![u] = MasterKey(p)]
  /\ cmd' = [cmd EXCEPT ![p] = Idle]
  /\ UNCHANGED <<vault, meta, acknowledged, late, salts>>

(* The command ends with an error, its process dies, or - get and delete - it
   ends with nothing left to do to keys. *)
End(p) ==
  /\ cmd[p].pc # "idle"
  /\ cmd' = [cmd EXCEPT ![p] = Idle]
  /\ UNCHANGED <<vault, meta, sealed, acknowledged, late, salts>>

------------------------------------------------------------------------------
(* PutVaultCrypto of the server, three statements. *)

(* The row is looked up: there is none, it is the same, or it is another. *)
PutSelect(p) ==
  /\ cmd[p].pc = "publishing"
  /\ cmd' = [cmd EXCEPT ![p] =
               CASE vault = NoKey -> [@ EXCEPT !.pc = "inserting"]
                 [] vault = MasterKey(p) -> [@ EXCEPT !.pc = "stored"]
                 [] OTHER -> Idle]
  /\ UNCHANGED <<vault, meta, sealed, acknowledged, late, salts>>

(* Mutant of PutInsert: ON CONFLICT DO NOTHING is taken for success. *)
PutInsertUnseen(p) ==
  /\ cmd[p].pc = "inserting"
  /\ vault' = IF vault = NoKey THEN MasterKey(p) ELSE vault
  /\ cmd' = [cmd EXCEPT ![p].pc = "stored"]
  /\ UNCHANGED <<meta, sealed, acknowledged, late, salts>>

(* Mutant of PutInsert: the row of another device is replaced. *)
PutReplace(p) ==
  /\ cmd[p].pc = "inserting"
  /\ vault' = MasterKey(p)
  /\ cmd' = [cmd EXCEPT ![p].pc = "stored"]
  /\ UNCHANGED <<meta, sealed, acknowledged, late, salts>>

(* INSERT ... ON CONFLICT DO NOTHING RETURNING. *)
PutInsert(p) ==
  /\ cmd[p].pc = "inserting"
  /\ IF vault = NoKey
       THEN /\ vault' = MasterKey(p)
            /\ cmd' = [cmd EXCEPT ![p].pc = "stored"]
       ELSE /\ cmd' = [cmd EXCEPT ![p].pc = "reselecting"]
            /\ UNCHANGED vault
  /\ UNCHANGED <<meta, sealed, acknowledged, late, salts>>

(* The row another request has inserted is compared with this one's. *)
PutReselect(p) ==
  /\ cmd[p].pc = "reselecting"
  /\ cmd' = [cmd EXCEPT ![p] = IF vault = MasterKey(p) THEN [@ EXCEPT !.pc = "stored"] ELSE Idle]
  /\ UNCHANGED <<vault, meta, sealed, acknowledged, late, salts>>

(* The answer reaches the client and the command returns nil. *)
Acknowledge(p) ==
  /\ cmd[p].pc = "stored"
  /\ acknowledged' = acknowledged \cup cmd[p].ids
  /\ cmd' = [cmd EXCEPT ![p] = Idle]
  /\ UNCHANGED <<vault, meta, sealed, late, salts>>

(* publishVaultCrypto gets no session: logged out meanwhile, the context
   cancelled, or SQLite or the decryption of the session has failed.  Nothing
   is sent, and the command returns nil all the same. *)
SkipPublish(p) ==
  /\ cmd[p].pc = "publishing"
  /\ cmd' = [cmd EXCEPT ![p] = Idle]
  /\ UNCHANGED <<vault, meta, sealed, acknowledged, late, salts>>

(* The client gives up on a request the server has not handled yet. *)
Abandon(p) ==
  /\ cmd[p].pc = "publishing"
  /\ Cardinality(late) < MaxLate
  /\ late' = late \cup {MasterKey(p)}
  /\ cmd' = [cmd EXCEPT ![p] = Idle]
  /\ UNCHANGED <<vault, meta, sealed, acknowledged, salts>>

LatePut(k) ==
  /\ vault' = IF vault = NoKey THEN k ELSE vault
  /\ late' = late \ {k}
  /\ UNCHANGED <<meta, sealed, acknowledged, cmd, salts>>

------------------------------------------------------------------------------
Next ==
  \/ \E p \in Procs :
       \/ \E adding \in BOOLEAN, m \in Passwords : Fetch(p, adding, m)
       \/ Adopt(p) \/ Load(p) \/ Generate(p) \/ InsertMeta(p) \/ SetVerifier(p)
       \/ \E u \in Ids : SaveNew(p, u) \/ Reseal(p, u)
       \/ PutSelect(p) \/ PutInsert(p) \/ PutReselect(p) \/ Acknowledge(p)
       \/ SkipPublish(p) \/ Abandon(p) \/ End(p)
  \/ \E k \in late : LatePut(k)

Spec == Init /\ [][Next]_vars

------------------------------------------------------------------------------
(* Properties. *)

(* postgres.go:159: of the first PutVaultCrypto requests of an account at most
   one key is stored, and only those that carry it are told so.  An entry whose
   command got that answer is sealed under the published key, then and ever
   after, so every device that adopts the row can open it: however the
   statements of the requests interleave, and whatever is lost or late. *)
AcknowledgedUnderVaultKey ==
  \A u \in acknowledged : vault # NoKey /\ sealed[u] = vault

(* A command that was given the published row seals a new entry under that key
   and no other, whatever the device had stored before. *)
KnownVaultSeals ==
  \A p \in Procs : \A u \in cmd[p].ids :
    cmd[p].remote # NoKey => sealed[u] = vault

(* skeeper.proto:34, "so all devices derive the same master key and only one
   master password can wrap new data": every entry is sealed under the
   published key. *)
SealedUnderVaultKey ==
  vault # NoKey => \A u \in Ids : sealed[u] \in {NoKey, vault}

(* sqlite.go:201: processes of the account's only device race for its first
   salt.  Before and after publication, all entries are sealed under one key,
   and no other is published, as long as the user types one password. *)
OneKey ==
  \A j, k \in ({vault} \cup {sealed[u] : u \in Ids}) \ {NoKey} : j = k

(* Once an entry is sealed no command seals it under another key. *)
SealNeverChanges ==
  [][\A u \in Ids : sealed[u] # NoKey => sealed'[u] = sealed[u]]_vars

(***************************************************************************)
(* Inductive invariants.                                                   *)
(*                                                                         *)
(* From SaveNew on a command's key is the key of the entry it has saved,   *)
(* and a successful PutVaultCrypto has found or made it the published one. *)
(***************************************************************************)
KeyKept(p) ==
  /\ \A u \in cmd[p].ids : sealed[u] = MasterKey(p)
  /\ cmd[p].pc \in {"idle", "fetched", "pulled", "generated", "loaded"} => cmd[p].ids = {}
  /\ cmd[p].pc = "stored" => vault = MasterKey(p)

AgreementInv ==
  /\ TypeOK
  /\ AcknowledgedUnderVaultKey
  /\ \A p \in Procs : KeyKept(p)

PublishedRow == [salt |-> vault.salt, verifier |-> vault]

(* A command that was given the published row, on a device it has for itself,
   loads that row and goes on with its key. *)
OneProcess == \A p, q \in Procs : Home[p] = Home[q] => p = q

HoldsPublished(p) ==
  cmd[p].remote # NoKey =>
    /\ vault = cmd[p].remote
    /\ cmd[p].pc \notin {"idle", "generated"}
    /\ cmd[p].pc = "pulled" => meta[Home[p]] = PublishedRow
    /\ cmd[p].pc = "loaded" => cmd[p].verifier = vault
    /\ cmd[p].pc \notin {"fetched", "pulled", "loaded"} => MasterKey(p) = vault

KnownInv == AgreementInv /\ \A p \in Procs : HoldsPublished(p)

(* On a device that is alone with the account, and whose user has one password,
   the first salt stays: all that is made of a salt is made of that one. *)
OnlyDevice(d) == \A p \in Procs : Home[p] = d

Local(k, d) == meta[d] # NoMeta /\ k.salt = meta[d].salt

AloneInv(d) ==
  /\ TypeOK
  /\ vault # NoKey => Local(vault, d)
  /\ \A k \in late : Local(k, d)
  /\ \A u \in Ids : sealed[u] # NoKey => Local(sealed[u], d)
  /\ \A p \in Procs :
       /\ cmd[p].remote # NoKey => Local(cmd[p].remote, d)
       /\ cmd[p].pc \notin {"idle", "fetched", "pulled", "generated"} => Local(MasterKey(p), d)

(* The crypto rows and the order of PutVaultCrypto's statements amount to the
   agreement on one key. *)
Agreement ==
  INSTANCE KeyAgreement WITH
    chosen <- vault,
    acknowledged <- [u \in Ids |-> IF u \in acknowledged THEN sealed[u] ELSE NoKey]

AgreementSpec == Agreement!Spec
==============================================================================
