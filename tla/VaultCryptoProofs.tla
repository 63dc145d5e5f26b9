-------------------------- MODULE VaultCryptoProofs --------------------------
(***************************************************************************)
(* Theorems about VaultCrypto, for every set of devices, processes,        *)
(* passwords and entries.                                                  *)
(***************************************************************************)
EXTENDS VaultCrypto, TLAPS

------------------------------------------------------------------------------
(* Types. *)

LEMMA IdleType == Idle \in Command
  BY PasswordsAssumption DEF Idle, Command

LEMMA TypeInit == Init => TypeOK
<1> SUFFICES ASSUME Init PROVE TypeOK
  OBVIOUS
<1>1. \A p \in Procs : cmd[p] \in Command /\ cmd[p].pc = "idle"
  BY IdleType DEF Init, Idle
<1> QED BY <1>1 DEF Init, TypeOK

LEMMA MasterKeyType ==
  ASSUME TypeOK, NEW p \in Procs
  PROVE  MasterKey(p) \in Key
  BY DEF TypeOK, Command, MasterKey, Key

(* A stored or pulled key makes a row of crypto_meta. *)
LEMMA AdoptedType ==
  ASSUME TypeOK, NEW p \in Procs, cmd[p].remote # NoKey
  PROVE  Adopted(p) \in Meta
<1>1. cmd[p].remote \in Key
  BY DEF TypeOK, Command
<1> QED BY <1>1 DEF Adopted, Key, Meta


(* The state but for the row every process has once it has loaded one. *)
LEMMA TypeFrame ==
  ASSUME TypeOK,
         vault' \in Key \cup {NoKey}, sealed' \in [Ids -> Key \cup {NoKey}],
         acknowledged' \subseteq Ids, late' \subseteq Key, salts' \in Nat,
         meta' \in [Devices -> Meta \cup {NoMeta}],
         cmd' \in [Procs -> Command],
         \A d \in Devices : meta[d] # NoMeta => meta'[d] # NoMeta,
         \A p \in Procs : cmd'[p].pc \in {"loaded", "saved"} =>
            cmd[p].pc \in {"loaded", "saved"} \/ meta'[Home[p]] # NoMeta
  PROVE  TypeOK'
BY HomeAssumption DEF TypeOK

(* One process moves: its command has the fields of a command. *)
LEMMA CommandStep ==
  ASSUME TypeOK, NEW p \in Procs, NEW c \in Command, cmd' = [cmd EXCEPT ![p] = c]
  PROVE  /\ cmd' \in [Procs -> Command]
         /\ cmd'[p] = c
         /\ \A q \in Procs : q # p => cmd'[q] = cmd[q]
BY DEF TypeOK

LEMMA TypeStep == TypeOK /\ [Next]_vars => TypeOK'
<1> SUFFICES ASSUME TypeOK, [Next]_vars PROVE TypeOK'
  OBVIOUS
<1>0. /\ cmd \in [Procs -> Command]
      /\ \A p \in Procs : /\ cmd[p] \in Command
                          /\ Home[p] \in Devices
                          /\ meta[Home[p]] \in Meta \cup {NoMeta}
                          /\ Idle \in Command
                          /\ Idle.pc = "idle"
                          /\ MasterKey(p) \in Key
  BY IdleType, MasterKeyType, HomeAssumption DEF TypeOK, Idle
<1>1. ASSUME NEW p \in Procs, NEW adding \in BOOLEAN, NEW m \in Passwords, Fetch(p, adding, m)
      PROVE  TypeOK'
  <2> DEFINE c == [Idle EXCEPT !.pc = "fetched", !.adding = adding, !.pass = m, !.remote = vault]
  <2>1. c \in Command /\ c.pc = "fetched"
    BY <1>0 DEF TypeOK, Command
  <2>2. cmd' = [cmd EXCEPT ![p] = c]
    BY <1>1 DEF Fetch
  <2> HIDE DEF c
  <2> QED BY <1>1, <2>1, <2>2, CommandStep, TypeFrame DEF Fetch, TypeOK
<1>2. ASSUME NEW p \in Procs, Adopt(p) PROVE TypeOK'
  <2> DEFINE c == [cmd[p] EXCEPT !.pc = "pulled"]
  <2>1. c \in Command /\ c.pc = "pulled"
    BY <1>0 DEF Command
  <2>2. cmd' = [cmd EXCEPT ![p] = c]
    BY <1>2 DEF Adopt
  <2>3. /\ meta' \in [Devices -> Meta \cup {NoMeta}]
        /\ \A d \in Devices : meta[d] # NoMeta => meta'[d] # NoMeta
    BY <1>0, <1>2, AdoptedType, NoMetaAssumption DEF Adopt, TypeOK
  <2> HIDE DEF c
  <2> QED BY <1>2, <2>1, <2>2, <2>3, CommandStep, TypeFrame DEF Adopt, TypeOK
<1>3. ASSUME NEW p \in Procs, Load(p) PROVE TypeOK'
  <2> DEFINE c == [cmd[p] EXCEPT !.pc = "loaded", !.salt = meta[Home[p]].salt,
                                 !.verifier = meta[Home[p]].verifier]
  <2>1. meta[Home[p]] \in Meta
    BY <1>0, <1>3 DEF Load
  <2>2. meta[Home[p]].salt \in Nat /\ meta[Home[p]].verifier \in Key \cup {NoKey}
    BY <2>1 DEF Meta
  <2>3. c \in Command
    BY <1>0, <2>2 DEF Command
  <2>4. cmd' = [cmd EXCEPT ![p] = c]
    BY <1>3 DEF Load
  <2> HIDE DEF c
  <2> QED BY <1>3, <2>3, <2>4, CommandStep, TypeFrame DEF Load, TypeOK
<1>4. ASSUME NEW p \in Procs, Generate(p) PROVE TypeOK'
  <2> DEFINE c == [cmd[p] EXCEPT !.pc = "generated", !.salt = salts + 1]
  <2>0. salts + 1 \in Nat
    BY DEF TypeOK
  <2>1. c \in Command /\ c.pc = "generated"
    BY <1>0, <2>0 DEF Command
  <2>2. cmd' = [cmd EXCEPT ![p] = c]
    BY <1>4 DEF Generate
  <2> HIDE DEF c
  <2> QED BY <1>4, <2>1, <2>2, CommandStep, TypeFrame DEF Generate, TypeOK
<1>5. ASSUME NEW p \in Procs, InsertMeta(p) PROVE TypeOK'
  <2>1. [salt |-> cmd[p].salt, verifier |-> NoKey] \in Meta
    BY <1>0 DEF Command, Meta
  <2>2. PICK c \in Command : cmd' = [cmd EXCEPT ![p] = c]
    BY <1>0, <1>5 DEF InsertMeta, Command
  <2>3. /\ meta' \in [Devices -> Meta \cup {NoMeta}]
        /\ \A d \in Devices : meta[d] # NoMeta => meta'[d] # NoMeta
        /\ meta'[Home[p]] # NoMeta
    BY <1>0, <1>5, <2>1, NoMetaAssumption DEF InsertMeta, TypeOK
  <2> QED BY <1>5, <2>2, <2>3, CommandStep, TypeFrame DEF InsertMeta, TypeOK
<1>6. ASSUME NEW p \in Procs, SetVerifier(p) PROVE TypeOK'
  <2> DEFINE c == [cmd[p] EXCEPT !.pc = "publishing"]
             row == [meta[Home[p]] EXCEPT !.verifier = MasterKey(p)]
  <2>1. c \in Command /\ c.pc = "publishing" /\ cmd' = [cmd EXCEPT ![p] = c]
    BY <1>0, <1>6 DEF SetVerifier, Command
  <2>2. meta[Home[p]] \in Meta
    BY <1>0, <1>6 DEF SetVerifier, TypeOK
  <2>3. row \in Meta /\ meta' = [meta EXCEPT ![Home[p]] = row]
    BY <1>0, <1>6, <2>2 DEF Meta, SetVerifier
  <2> HIDE DEF c, row
  <2>4. /\ meta' \in [Devices -> Meta \cup {NoMeta}]
        /\ \A d \in Devices : meta[d] # NoMeta => meta'[d] # NoMeta
    BY <1>0, <2>3, NoMetaAssumption DEF TypeOK
  <2> QED BY <1>6, <2>1, <2>4, CommandStep, TypeFrame DEF SetVerifier, TypeOK
<1>7. ASSUME NEW p \in Procs, NEW u \in Ids, SaveNew(p, u) PROVE TypeOK'
  <2> DEFINE c == [cmd[p] EXCEPT !.ids = {u},
                    !.pc = IF cmd[p].verifier = NoKey THEN "saved" ELSE "publishing"]
  <2>1. c \in Command /\ cmd' = [cmd EXCEPT ![p] = c]
    BY <1>0, <1>7 DEF SaveNew, Command
  <2> HIDE DEF c
  <2> QED BY <1>0, <1>7, <2>1, CommandStep, TypeFrame DEF SaveNew, TypeOK
<1>8. ASSUME NEW p \in Procs, NEW u \in Ids, Reseal(p, u) PROVE TypeOK'
  BY <1>0, <1>8, CommandStep, TypeFrame DEF Reseal, TypeOK
<1>9. ASSUME NEW p \in Procs, PutSelect(p) \/ PutReselect(p) PROVE TypeOK'
  <2>1. PICK c \in Command : c.pc \notin {"loaded", "saved"} /\ cmd' = [cmd EXCEPT ![p] = c]
    <3> DEFINE c1 == [cmd[p] EXCEPT !.pc = "inserting"]
               c2 == [cmd[p] EXCEPT !.pc = "stored"]
    <3>1. c1 \in Command /\ c2 \in Command /\ c1.pc = "inserting" /\ c2.pc = "stored"
      BY <1>0 DEF Command
    <3>2. cmd' \in {[cmd EXCEPT ![p] = c1], [cmd EXCEPT ![p] = c2], [cmd EXCEPT ![p] = Idle]}
      BY <1>9 DEF PutSelect, PutReselect
    <3> HIDE DEF c1, c2
    <3> QED BY <1>0, <3>1, <3>2
  <2> QED BY <1>9, <2>1, CommandStep, TypeFrame DEF PutSelect, PutReselect, TypeOK
<1>10. ASSUME NEW p \in Procs, PutInsert(p) PROVE TypeOK'
  <2>1. PICK c \in Command : c.pc \notin {"loaded", "saved"} /\ cmd' = [cmd EXCEPT ![p] = c]
    <3> DEFINE c1 == [cmd[p] EXCEPT !.pc = "stored"]
               c2 == [cmd[p] EXCEPT !.pc = "reselecting"]
    <3>1. c1 \in Command /\ c2 \in Command /\ c1.pc = "stored" /\ c2.pc = "reselecting"
      BY <1>0 DEF Command
    <3>2. cmd' \in {[cmd EXCEPT ![p] = c1], [cmd EXCEPT ![p] = c2]}
      BY <1>10 DEF PutInsert
    <3> HIDE DEF c1, c2
    <3> QED BY <3>1, <3>2
  <2> QED BY <1>0, <1>10, <2>1, CommandStep, TypeFrame DEF PutInsert, TypeOK
<1>11. ASSUME NEW p \in Procs, Acknowledge(p) \/ SkipPublish(p) PROVE TypeOK'
  <2>1. cmd[p].ids \subseteq Ids
    BY <1>0 DEF Command
  <2> QED BY <1>0, <1>11, <2>1, CommandStep, TypeFrame DEF Acknowledge, SkipPublish, TypeOK
<1>12. ASSUME NEW p \in Procs, Abandon(p) \/ End(p) PROVE TypeOK'
  BY <1>0, <1>12, CommandStep, TypeFrame DEF Abandon, End, TypeOK
<1>13. ASSUME NEW k \in late, LatePut(k) PROVE TypeOK'
  BY <1>13 DEF LatePut, TypeOK
<1>14. CASE UNCHANGED vars
  BY <1>14 DEF vars, TypeOK
<1> QED BY <1>1, <1>2, <1>3, <1>4, <1>5, <1>6, <1>7, <1>8, <1>9, <1>10, <1>11, <1>12,
           <1>13, <1>14 DEF Next

(* TypeOK: the rows, the commands and the requests on their way keep their
   types, and a process that has loaded a crypto row finds one to update. *)
THEOREM TypeInvariant == Spec => []TypeOK
<1> QED BY TypeInit, TypeStep, PTL DEF Spec

------------------------------------------------------------------------------
(* Agreement. *)

(* The published row is written once. *)
LEMMA VaultStep ==
  ASSUME TypeOK, [Next]_vars
  PROVE  vault # NoKey => vault' = vault
BY DEF Next, vars, Fetch, Adopt, Load, Generate, InsertMeta, SetVerifier, SaveNew, Reseal,
       PutSelect, PutInsert, PutReselect, Acknowledge, SkipPublish, Abandon, End, LatePut

(* ... with a key. *)
LEMMA VaultChosen ==
  ASSUME TypeOK, [Next]_vars, vault' # vault
  PROVE  vault = NoKey /\ vault' \in Key
<1>1. vault = NoKey
  BY VaultStep
<1>2. vault' \in Key \cup {NoKey}
  BY TypeStep DEF TypeOK
<1> QED BY <1>1, <1>2

(* The seal of an entry stays. *)
LEMMA SealStep ==
  ASSUME TypeOK, [Next]_vars, NEW u \in Ids, sealed[u] # NoKey
  PROVE  sealed'[u] = sealed[u]
<1>1. ASSUME NEW p \in Procs, NEW w \in Ids, SaveNew(p, w) PROVE sealed'[u] = sealed[u]
  BY <1>1 DEF SaveNew, TypeOK
<1>2. ASSUME NEW p \in Procs, NEW w \in Ids, Reseal(p, w) PROVE sealed'[u] = sealed[u]
  BY <1>2 DEF Reseal, TypeOK
<1> QED BY <1>1, <1>2
        DEF Next, vars, Fetch, Adopt, Load, Generate, InsertMeta, SetVerifier,
            PutSelect, PutInsert, PutReselect, Acknowledge, SkipPublish, Abandon, End, LatePut

(* SealNeverChanges: an update of an entry never wraps its DEK with another
   key than the one that opened it. *)
THEOREM SealsNeverChange == Spec => SealNeverChanges
<1>1. TypeOK /\ [Next]_vars => [\A u \in Ids : sealed[u] # NoKey => sealed'[u] = sealed[u]]_vars
  BY SealStep
<1> QED BY <1>1, TypeInvariant, PTL DEF Spec, SealNeverChanges

(* What a step does to KeyKept of a process that the step leaves alone. *)
LEMMA KeyKeptFrame ==
  ASSUME AgreementInv, [Next]_vars, NEW p \in Procs, cmd'[p] = cmd[p]
  PROVE  KeyKept(p)'
<1>1. TypeOK /\ cmd[p] \in Command
  BY DEF AgreementInv, TypeOK
<1>2. MasterKey(p)' = MasterKey(p) /\ MasterKey(p) \in Key
  BY <1>1, MasterKeyType DEF MasterKey
<1>3. KeyKept(p)
  BY DEF AgreementInv
<1>4. ASSUME NEW u \in cmd'[p].ids PROVE sealed'[u] = MasterKey(p)'
  BY <1>1, <1>2, <1>3, <1>4, SealStep, NoKeyAssumption DEF KeyKept, Command
<1>5. cmd[p].pc = "stored" => vault' = MasterKey(p)
  BY <1>1, <1>2, <1>3, VaultStep, NoKeyAssumption DEF KeyKept
<1> QED BY <1>2, <1>3, <1>4, <1>5 DEF KeyKept

(* A process that moves on with the key it had, and keeps its entries. *)
LEMMA KeyKeptMove ==
  ASSUME AgreementInv, [Next]_vars, NEW p \in Procs,
         MasterKey(p)' = MasterKey(p), cmd'[p].ids = cmd[p].ids,
         cmd'[p].pc \in {"fetched", "pulled", "generated", "loaded"} => cmd[p].ids = {},
         cmd'[p].pc # "idle",
         cmd'[p].pc = "stored" => vault' = MasterKey(p)
  PROVE  KeyKept(p)'
<1>1. TypeOK /\ cmd[p] \in Command /\ KeyKept(p) /\ MasterKey(p) \in Key
  BY MasterKeyType DEF AgreementInv, TypeOK
<1>2. ASSUME NEW u \in cmd'[p].ids PROVE sealed'[u] = MasterKey(p)'
  BY <1>1, <1>2, SealStep, NoKeyAssumption DEF KeyKept, Command
<1> QED BY <1>1, <1>2 DEF KeyKept

(* A process with no entries and no stored key holds on to nothing. *)
LEMMA KeyKeptNone ==
  ASSUME NEW p \in Procs, cmd'[p].ids = {}, cmd'[p].pc # "stored"
  PROVE  KeyKept(p)'
BY DEF KeyKept

LEMMA KeyKeptStep ==
  ASSUME AgreementInv, [Next]_vars, NEW q \in Procs
  PROVE  KeyKept(q)'
<1>0. /\ TypeOK
      /\ cmd \in [Procs -> Command]
      /\ \A p \in Procs : /\ KeyKept(p)
                          /\ cmd[p] \in Command
                          /\ Idle.pc = "idle"
                          /\ Idle.ids = {}
                          /\ MasterKey(p) \in Key
  BY MasterKeyType DEF AgreementInv, TypeOK, Idle
<1>1. ASSUME NEW p \in Procs, NEW adding \in BOOLEAN, NEW m \in Passwords, Fetch(p, adding, m)
      PROVE  KeyKept(q)'
  <2> DEFINE c == [Idle EXCEPT !.pc = "fetched", !.adding = adding, !.pass = m, !.remote = vault]
  <2>1. c.ids = {} /\ c.pc = "fetched"
    BY DEF Idle
  <2>2. cmd' = [cmd EXCEPT ![p] = c]
    BY <1>1 DEF Fetch
  <2> HIDE DEF c
  <2>3. CASE q = p
    BY <1>0, <2>1, <2>2, <2>3, KeyKeptNone
  <2> QED BY <1>0, <2>2, <2>3, KeyKeptFrame
<1>2. ASSUME NEW p \in Procs, Adopt(p) PROVE KeyKept(q)'
  <2>1. cmd' = [cmd EXCEPT ![p].pc = "pulled"] /\ cmd[p].pc = "fetched"
    BY <1>2 DEF Adopt
  <2>2. CASE q = p
    BY <1>0, <2>1, <2>2, KeyKeptNone DEF KeyKept, Command
  <2> QED BY <1>0, <2>1, <2>2, KeyKeptFrame
<1>3. ASSUME NEW p \in Procs, Load(p) \/ Generate(p) \/ InsertMeta(p) PROVE KeyKept(q)'
  <2>1. cmd[p].ids = {}
    BY <1>0, <1>3 DEF Load, Generate, InsertMeta, KeyKept
  <2>2. /\ cmd'[p].ids = {} /\ cmd'[p].pc # "stored"
        /\ \A r \in Procs : r # p => cmd'[r] = cmd[r]
    <3>1. CASE Load(p)
      BY <1>0, <2>1, <3>1 DEF Load, Command
    <3>2. CASE Generate(p)
      BY <1>0, <2>1, <3>2 DEF Generate, Command
    <3>3. CASE InsertMeta(p)
      BY <1>0, <2>1, <3>3 DEF InsertMeta, Command
    <3> QED BY <1>3, <3>1, <3>2, <3>3
  <2>3. CASE q = p
    BY <2>2, <2>3, KeyKeptNone
  <2> QED BY <2>2, <2>3, KeyKeptFrame
<1>4. ASSUME NEW p \in Procs, SetVerifier(p) PROVE KeyKept(q)'
  <2>1. cmd' = [cmd EXCEPT ![p].pc = "publishing"]
    BY <1>4 DEF SetVerifier
  <2>2. CASE q = p
    <3>1. /\ MasterKey(p)' = MasterKey(p)
          /\ cmd'[p].ids = cmd[p].ids /\ cmd'[p].pc = "publishing"
      BY <1>0, <2>1 DEF MasterKey, Command
    <3> QED BY <2>2, <3>1, KeyKeptMove
  <2> QED BY <1>0, <2>1, <2>2, KeyKeptFrame
<1>5. ASSUME NEW p \in Procs, NEW u \in Ids, SaveNew(p, u) PROVE KeyKept(q)'
  <2> DEFINE c == [cmd[p] EXCEPT !.ids = {u},
                    !.pc = IF cmd[p].verifier = NoKey THEN "saved" ELSE "publishing"]
  <2>1. /\ c.ids = {u} /\ c.pc \in {"saved", "publishing"}
        /\ c.salt = cmd[p].salt /\ c.pass = cmd[p].pass
    BY <1>0 DEF Command
  <2>2. cmd' = [cmd EXCEPT ![p] = c]
    BY <1>5 DEF SaveNew
  <2> HIDE DEF c
  <2>3. CASE q = p
    <3>1. MasterKey(p)' = MasterKey(p) /\ cmd'[p] = c
      BY <1>0, <2>1, <2>2 DEF MasterKey
    <3>2. sealed'[u] = MasterKey(p)
      BY <1>0, <1>5 DEF SaveNew, TypeOK
    <3>3. cmd'[p].ids = {u} /\ cmd'[p].pc \in {"saved", "publishing"}
      BY <2>1, <3>1
    <3> QED BY <2>3, <3>1, <3>2, <3>3 DEF KeyKept
  <2> QED BY <1>0, <2>2, <2>3, KeyKeptFrame
<1>6. ASSUME NEW p \in Procs, cmd' = [cmd EXCEPT ![p] = Idle] PROVE KeyKept(q)'
  <2>1. CASE q = p
    BY <1>0, <1>6, <2>1, KeyKeptNone
  <2> QED BY <1>0, <1>6, <2>1, KeyKeptFrame
<1>7. ASSUME NEW p \in Procs, NEW l \in {"inserting", "reselecting", "stored"},
             cmd' = [cmd EXCEPT ![p].pc = l], l = "stored" => vault' = MasterKey(p)
      PROVE  KeyKept(q)'
  <2>1. CASE q = p
    <3>1. MasterKey(p)' = MasterKey(p) /\ cmd'[p].ids = cmd[p].ids /\ cmd'[p].pc = l
      BY <1>0, <1>7 DEF MasterKey, Command
    <3> QED BY <1>7, <2>1, <3>1, KeyKeptMove
  <2> QED BY <1>0, <1>7, <2>1, KeyKeptFrame
<1>8. ASSUME NEW p \in Procs, PutSelect(p) PROVE KeyKept(q)'
  <2>1. CASE vault = NoKey
    <3>1. vault # MasterKey(p)
      BY <1>0, <2>1, NoKeyAssumption
    <3> QED BY <1>7, <1>8, <2>1, <3>1 DEF PutSelect
  <2>2. CASE vault # NoKey /\ vault = MasterKey(p)
    BY <1>7, <1>8, <2>2 DEF PutSelect
  <2>3. CASE vault # NoKey /\ vault # MasterKey(p)
    BY <1>6, <1>8, <2>3 DEF PutSelect
  <2> QED BY <2>1, <2>2, <2>3
<1>9. ASSUME NEW p \in Procs, PutInsert(p) PROVE KeyKept(q)'
  BY <1>7, <1>9 DEF PutInsert
<1>10. ASSUME NEW p \in Procs, PutReselect(p) PROVE KeyKept(q)'
  <2>1. CASE vault = MasterKey(p)
    BY <1>7, <1>10, <2>1 DEF PutReselect
  <2>2. CASE vault # MasterKey(p)
    BY <1>6, <1>10, <2>2 DEF PutReselect
  <2> QED BY <2>1, <2>2
<1>11. CASE UNCHANGED cmd
  BY <1>11, KeyKeptFrame
<1>12. ASSUME NEW p \in Procs, NEW u \in Ids, Reseal(p, u) PROVE KeyKept(q)'
  BY <1>6, <1>12 DEF Reseal
<1>13. ASSUME NEW p \in Procs, Acknowledge(p) \/ SkipPublish(p) \/ Abandon(p) \/ End(p) PROVE KeyKept(q)'
  BY <1>6, <1>13 DEF Acknowledge, SkipPublish, Abandon, End
<1>14. ASSUME NEW k \in late, LatePut(k) PROVE KeyKept(q)'
  BY <1>11, <1>14 DEF LatePut
<1>15. CASE UNCHANGED vars
  BY <1>11, <1>15 DEF vars
<1> QED BY <1>1, <1>2, <1>3, <1>4, <1>5, <1>8, <1>9, <1>10, <1>12, <1>13, <1>14, <1>15 DEF Next

(* Only Acknowledge acknowledges, and it has the published key. *)
LEMMA AcknowledgedStep ==
  ASSUME AgreementInv, [Next]_vars
  PROVE  AcknowledgedUnderVaultKey'
<1>0. TypeOK /\ AcknowledgedUnderVaultKey
  BY DEF AgreementInv
<1>1. ASSUME NEW u \in acknowledged PROVE vault' # NoKey /\ sealed'[u] = vault'
  BY <1>0, <1>1, VaultStep, SealStep DEF AcknowledgedUnderVaultKey, TypeOK
<1>2. CASE acknowledged' = acknowledged
  BY <1>1, <1>2 DEF AcknowledgedUnderVaultKey
<1>3. ASSUME NEW p \in Procs, Acknowledge(p) PROVE AcknowledgedUnderVaultKey'
  <2>1. KeyKept(p) /\ cmd[p] \in Command /\ MasterKey(p) \in Key
    BY <1>0, MasterKeyType DEF AgreementInv, TypeOK
  <2>2. \A u \in cmd[p].ids : vault # NoKey /\ sealed[u] = vault
    BY <1>3, <2>1, NoKeyAssumption DEF Acknowledge, KeyKept
  <2> QED BY <1>1, <1>3, <2>2 DEF Acknowledge, AcknowledgedUnderVaultKey
<1>4. acknowledged' = acknowledged \/ \E p \in Procs : Acknowledge(p)
  BY DEF Next, vars, Fetch, Adopt, Load, Generate, InsertMeta, SetVerifier, SaveNew, Reseal,
         PutSelect, PutInsert, PutReselect, SkipPublish, Abandon, End, LatePut
<1> QED BY <1>2, <1>3, <1>4

LEMMA AgreementInit == Init => AgreementInv
<1> SUFFICES ASSUME Init PROVE AgreementInv
  OBVIOUS
<1>1. \A p \in Procs : cmd[p].ids = {} /\ cmd[p].pc = "idle"
  BY DEF Init, Idle
<1> QED BY <1>1, TypeInit DEF Init, AgreementInv, AcknowledgedUnderVaultKey, KeyKept

LEMMA AgreementStep == AgreementInv /\ [Next]_vars => AgreementInv'
<1>1. AgreementInv /\ [Next]_vars => TypeOK'
  BY TypeStep DEF AgreementInv
<1> QED BY <1>1, AcknowledgedStep, KeyKeptStep DEF AgreementInv

THEOREM AgreementInvariant == Spec => []AgreementInv
BY AgreementInit, AgreementStep, PTL DEF Spec

(* AcknowledgedUnderVaultKey: an entry the server has acknowledged is under the
   published key, whatever the devices, the statements of PutVaultCrypto and
   the lost requests do. *)
THEOREM AcknowledgedAlwaysUnderVaultKey ==
  Spec => []AcknowledgedUnderVaultKey
<1>1. AgreementInv => AcknowledgedUnderVaultKey
  BY DEF AgreementInv
<1> QED BY <1>1, AgreementInvariant, PTL

(* The statements of PutVaultCrypto choose one key, and Acknowledge passes it on. *)
LEMMA ImplementsAgreementStep ==
  ASSUME AgreementInv, AgreementInv', [Next]_vars
  PROVE  [Agreement!Next]_Agreement!vars
<1> DEFINE done == [u \in Ids |-> IF u \in acknowledged THEN sealed[u] ELSE NoKey]
<1>0. TypeOK /\ TypeOK' /\ AcknowledgedUnderVaultKey
  BY DEF AgreementInv
<1>1. CASE vault' # vault
  <2>1. acknowledged' = acknowledged /\ sealed' = sealed
    BY <1>1
    DEF Next, vars, Fetch, Adopt, Load, Generate, InsertMeta, SetVerifier, SaveNew, Reseal,
        PutSelect, PutInsert, PutReselect, Acknowledge, SkipPublish, Abandon, End, LatePut
  <2>2. Agreement!Choose
    BY <1>0, <1>1, <2>1, VaultChosen DEF Agreement!Choose
  <2> QED BY <2>2 DEF Agreement!Next
<1>2. CASE vault' = vault /\ acknowledged' = acknowledged
  <2>1. \A u \in acknowledged : sealed'[u] = sealed[u]
    BY <1>0, SealStep, NoKeyAssumption DEF AcknowledgedUnderVaultKey, TypeOK
  <2>2. done' = done
    BY <1>2, <2>1
  <2> QED BY <1>2, <2>2 DEF Agreement!vars
<1>3. ASSUME NEW p \in Procs, Acknowledge(p) PROVE [Agreement!Next]_Agreement!vars
  <2>1. /\ KeyKept(p) /\ MasterKey(p) \in Key /\ cmd[p] \in Command
        /\ vault = MasterKey(p) /\ vault' = vault /\ sealed' = sealed
        /\ acknowledged' = acknowledged \cup cmd[p].ids
    BY <1>0, <1>3, MasterKeyType DEF AgreementInv, TypeOK, KeyKept, Acknowledge
  <2>2. CASE cmd[p].ids \subseteq acknowledged
    BY <1>2, <2>1, <2>2
  <2>3. CASE \E u \in Ids : cmd[p].ids = {u}
    <3>1. PICK u \in Ids : cmd[p].ids = {u}
      BY <2>3
    <3>2. vault # NoKey /\ sealed[u] = vault
      BY <2>1, <3>1, NoKeyAssumption DEF KeyKept
    <3>3. done' = [done EXCEPT ![u] = vault]
      BY <2>1, <3>1, <3>2
    <3>4. Agreement!Acknowledge(u)
      BY <2>1, <3>2, <3>3 DEF Agreement!Acknowledge
    <3> QED BY <3>4 DEF Agreement!Next
  <2>4. cmd[p].ids = {} \/ \E u \in Ids : cmd[p].ids = {u}
    BY <2>1 DEF Command
  <2> QED BY <2>2, <2>3, <2>4
<1>4. vault' # vault \/ (vault' = vault /\ acknowledged' = acknowledged) \/ \E p \in Procs : Acknowledge(p)
  BY DEF Next, vars, Fetch, Adopt, Load, Generate, InsertMeta, SetVerifier, SaveNew, Reseal,
         PutSelect, PutInsert, PutReselect, SkipPublish, Abandon, End, LatePut
<1> QED BY <1>1, <1>2, <1>3, <1>4

(* AgreementSpec: the crypto rows, the commands and the server's handler
   implement the agreement of the devices on one key. *)
THEOREM ImplementsAgreement ==
  Spec => AgreementSpec
<1>1. Init => Agreement!Init
  BY DEF Init, Agreement!Init
<1>2. AgreementInv /\ AgreementInv' /\ [Next]_vars => [Agreement!Next]_Agreement!vars
  BY ImplementsAgreementStep
<1> QED BY <1>1, <1>2, AgreementInvariant, PTL DEF Spec, AgreementSpec, Agreement!Spec

------------------------------------------------------------------------------
(* A device that knows the published vault. *)

LEMMA KnownInit == Init => KnownInv
<1> SUFFICES ASSUME Init PROVE KnownInv
  OBVIOUS
<1>1. \A p \in Procs : cmd[p].remote = NoKey
  BY DEF Init, Idle
<1> QED BY <1>1, AgreementInit DEF KnownInv, HoldsPublished

(* No process changes the row of another's device. *)
LEMMA MetaOfOthers ==
  ASSUME TypeOK, OneProcess, [Next]_vars, NEW q \in Procs, cmd'[q] = cmd[q], cmd[q].pc = "pulled"
  PROVE  meta'[Home[q]] = meta[Home[q]]
<1>0. /\ cmd \in [Procs -> Command] /\ Idle.pc = "idle"
      /\ \A p \in Procs : cmd[p] \in Command /\ Home[p] \in Devices
  BY HomeAssumption DEF TypeOK, Idle
<1>1. ASSUME NEW p \in Procs, Adopt(p) PROVE meta'[Home[q]] = meta[Home[q]]
  <2>1. p # q
    BY <1>0, <1>1 DEF Adopt
  <2> QED BY <1>0, <1>1, <2>1 DEF Adopt, OneProcess, TypeOK
<1>2. ASSUME NEW p \in Procs, InsertMeta(p) PROVE meta'[Home[q]] = meta[Home[q]]
  <2>1. p # q
    BY <1>0, <1>2 DEF InsertMeta
  <2> QED BY <1>0, <1>2, <2>1 DEF InsertMeta, OneProcess, TypeOK
<1>3. ASSUME NEW p \in Procs, SetVerifier(p) PROVE meta'[Home[q]] = meta[Home[q]]
  <2>1. p # q
    BY <1>0, <1>3 DEF SetVerifier
  <2> QED BY <1>0, <1>3, <2>1 DEF SetVerifier, OneProcess, TypeOK
<1>4. meta' = meta \/ \E p \in Procs : Adopt(p) \/ InsertMeta(p) \/ SetVerifier(p)
  BY DEF Next, vars, Fetch, Load, Generate, SaveNew, Reseal,
         PutSelect, PutInsert, PutReselect, Acknowledge, SkipPublish, Abandon, End, LatePut
<1> QED BY <1>1, <1>2, <1>3, <1>4

LEMMA HoldsPublishedStep ==
  ASSUME KnownInv, OneProcess, [Next]_vars, NEW q \in Procs
  PROVE  HoldsPublished(q)'
<1>0. /\ TypeOK
      /\ cmd \in [Procs -> Command] /\ Idle.pc = "idle" /\ Idle.remote = NoKey
      /\ \A p \in Procs : /\ HoldsPublished(p) /\ cmd[p] \in Command /\ Home[p] \in Devices
                          /\ cmd[p].remote # NoKey => vault # NoKey /\ vault' = vault
  <2>1. TypeOK /\ \A p \in Procs : HoldsPublished(p)
    BY DEF KnownInv, AgreementInv
  <2> QED BY <2>1, VaultStep, HomeAssumption DEF TypeOK, Idle, HoldsPublished
<1>1. ASSUME cmd'[q] = cmd[q] PROVE HoldsPublished(q)'
  <2> SUFFICES ASSUME cmd[q].remote # NoKey PROVE HoldsPublished(q)'
    BY <1>1 DEF HoldsPublished
  <2>1. vault' = vault /\ MasterKey(q)' = MasterKey(q) /\ PublishedRow' = PublishedRow
    BY <1>0, <1>1 DEF MasterKey, PublishedRow
  <2>2. cmd[q].pc = "pulled" => meta'[Home[q]] = meta[Home[q]]
    BY <1>0, <1>1, MetaOfOthers
  <2> QED BY <1>0, <1>1, <2>1, <2>2 DEF HoldsPublished
<1>2. ASSUME cmd'[q].remote = NoKey PROVE HoldsPublished(q)'
  BY <1>2 DEF HoldsPublished
<1>3. ASSUME NEW p \in Procs, cmd' = [cmd EXCEPT ![p] = Idle] PROVE HoldsPublished(q)'
  <2>1. CASE q = p
    BY <1>0, <1>2, <1>3, <2>1
  <2> QED BY <1>0, <1>1, <1>3, <2>1
<1>4. ASSUME NEW p \in Procs, NEW l \in {"publishing", "inserting", "reselecting", "stored"},
             cmd[p].pc \notin {"fetched", "pulled", "loaded"}, cmd' = [cmd EXCEPT ![p].pc = l]
      PROVE  HoldsPublished(q)'
  <2>1. CASE q = p /\ cmd[p].remote # NoKey
    <3>1. /\ cmd'[p].pc = l /\ cmd'[p].remote = cmd[p].remote
          /\ MasterKey(p)' = MasterKey(p) /\ vault' = vault
      BY <1>0, <1>4, <2>1 DEF Command, MasterKey
    <3> QED BY <1>0, <1>4, <2>1, <3>1 DEF HoldsPublished
  <2>2. CASE q = p /\ cmd[p].remote = NoKey
    BY <1>0, <1>2, <1>4, <2>2 DEF Command
  <2> QED BY <1>0, <1>1, <1>4, <2>1, <2>2
<1>5. ASSUME NEW p \in Procs, NEW adding \in BOOLEAN, NEW m \in Passwords, Fetch(p, adding, m)
      PROVE  HoldsPublished(q)'
  <2> DEFINE c == [Idle EXCEPT !.pc = "fetched", !.adding = adding, !.pass = m, !.remote = vault]
  <2>1. c.pc = "fetched" /\ c.remote = vault
    BY DEF Idle
  <2>2. cmd' = [cmd EXCEPT ![p] = c] /\ vault' = vault
    BY <1>5 DEF Fetch
  <2> HIDE DEF c
  <2>3. CASE q = p
    BY <1>0, <2>1, <2>2, <2>3 DEF HoldsPublished
  <2> QED BY <1>0, <1>1, <2>2, <2>3
<1>6. ASSUME NEW p \in Procs, Adopt(p) PROVE HoldsPublished(q)'
  <2>1. cmd' = [cmd EXCEPT ![p].pc = "pulled"] /\ vault' = vault
    BY <1>6 DEF Adopt
  <2>2. CASE q = p /\ cmd[p].remote # NoKey
    <3>1. cmd'[p].pc = "pulled" /\ cmd'[p].remote = cmd[p].remote
      BY <1>0, <2>1 DEF Command
    <3>2. cmd[p].remote = vault
      BY <1>0, <2>2 DEF HoldsPublished
    <3>3. meta' = [meta EXCEPT ![Home[p]] = PublishedRow]
      BY <1>6, <2>2, <3>2 DEF Adopt, Adopted, PublishedRow
    <3>4. meta'[Home[p]] = PublishedRow'
      BY <1>0, <2>1, <3>3 DEF PublishedRow, TypeOK
    <3> QED BY <2>1, <2>2, <3>1, <3>2, <3>4 DEF HoldsPublished
  <2>3. CASE q = p /\ cmd[p].remote = NoKey
    BY <1>0, <1>2, <2>1, <2>3 DEF Command
  <2> QED BY <1>0, <1>1, <2>1, <2>2, <2>3
<1>7. ASSUME NEW p \in Procs, Load(p) PROVE HoldsPublished(q)'
  <2> DEFINE c == [cmd[p] EXCEPT !.pc = "loaded", !.salt = meta[Home[p]].salt,
                                 !.verifier = meta[Home[p]].verifier]
  <2>1. c.pc = "loaded" /\ c.remote = cmd[p].remote /\ c.verifier = meta[Home[p]].verifier
    BY <1>0 DEF Command
  <2>2. cmd' = [cmd EXCEPT ![p] = c] /\ cmd[p].pc = "pulled" /\ vault' = vault
    BY <1>7 DEF Load
  <2> HIDE DEF c
  <2>3. CASE q = p /\ cmd[p].remote # NoKey
    <3>1. meta[Home[p]].verifier = vault /\ vault = cmd[p].remote
      BY <1>0, <2>2, <2>3 DEF HoldsPublished, PublishedRow
    <3> QED BY <1>0, <2>1, <2>2, <2>3, <3>1 DEF HoldsPublished
  <2>4. CASE q = p /\ cmd[p].remote = NoKey
    BY <1>0, <1>2, <2>1, <2>2, <2>4
  <2> QED BY <1>0, <1>1, <2>2, <2>3, <2>4
<1>8. ASSUME NEW p \in Procs, Generate(p) \/ InsertMeta(p) PROVE HoldsPublished(q)'
  <2>1. cmd[p].remote = NoKey
    <3>1. CASE Generate(p)
      BY <1>0, <3>1, NoMetaAssumption DEF Generate, HoldsPublished, PublishedRow, TypeOK, Meta, Key
    <3>2. CASE InsertMeta(p)
      BY <1>0, <3>2 DEF InsertMeta, HoldsPublished
    <3> QED BY <1>8, <3>1, <3>2
  <2>2. cmd'[p].remote = NoKey /\ \A r \in Procs \ {p} : cmd'[r] = cmd[r]
    <3>1. CASE Generate(p)
      BY <1>0, <2>1, <3>1 DEF Generate, Command
    <3>2. CASE InsertMeta(p)
      BY <1>0, <2>1, <3>2 DEF InsertMeta, Command
    <3> QED BY <1>8, <3>1, <3>2
  <2> QED BY <1>1, <1>2, <2>2
<1>9. ASSUME NEW p \in Procs, SetVerifier(p) PROVE HoldsPublished(q)'
  BY <1>4, <1>9 DEF SetVerifier
<1>10. ASSUME NEW p \in Procs, NEW u \in Ids, SaveNew(p, u) PROVE HoldsPublished(q)'
  <2> DEFINE c == [cmd[p] EXCEPT !.ids = {u},
                    !.pc = IF cmd[p].verifier = NoKey THEN "saved" ELSE "publishing"]
  <2>1. /\ c.remote = cmd[p].remote /\ c.salt = cmd[p].salt /\ c.pass = cmd[p].pass
        /\ c.pc \in {"saved", "publishing"}
    BY <1>0 DEF Command
  <2>2. cmd' = [cmd EXCEPT ![p] = c] /\ vault' = vault
    BY <1>10 DEF SaveNew
  <2> HIDE DEF c
  <2>3. CASE q = p /\ cmd[p].remote # NoKey
    <3>1. cmd[p].verifier = vault /\ vault = cmd[p].remote
      BY <1>0, <1>10, <2>3 DEF SaveNew, HoldsPublished
    <3>2. MasterKey(p) = vault
      BY <1>10, <2>3, <3>1 DEF SaveNew, PassesCheck
    <3>3. MasterKey(p)' = MasterKey(p)
      BY <1>0, <2>1, <2>2 DEF MasterKey
    <3> QED BY <1>0, <2>1, <2>2, <2>3, <3>1, <3>2, <3>3 DEF HoldsPublished
  <2>4. CASE q = p /\ cmd[p].remote = NoKey
    BY <1>0, <1>2, <2>1, <2>2, <2>4
  <2> QED BY <1>0, <1>1, <2>2, <2>3, <2>4
<1>11. ASSUME NEW p \in Procs, PutSelect(p) \/ PutReselect(p) PROVE HoldsPublished(q)'
  <2>1. PICK l \in {"inserting", "stored"} :
          cmd' \in {[cmd EXCEPT ![p].pc = l], [cmd EXCEPT ![p] = Idle]}
    BY <1>11 DEF PutSelect, PutReselect
  <2>2. cmd[p].pc \in {"publishing", "reselecting"}
    BY <1>11 DEF PutSelect, PutReselect
  <2> QED BY <1>3, <1>4, <2>1, <2>2
<1>12. ASSUME NEW p \in Procs, PutInsert(p) PROVE HoldsPublished(q)'
  BY <1>4, <1>12 DEF PutInsert
<1>13. ASSUME NEW p \in Procs, NEW u \in Ids, Reseal(p, u) PROVE HoldsPublished(q)'
  BY <1>3, <1>13 DEF Reseal
<1>14. ASSUME NEW p \in Procs, Acknowledge(p) \/ SkipPublish(p) \/ Abandon(p) \/ End(p)
       PROVE  HoldsPublished(q)'
  BY <1>3, <1>14 DEF Acknowledge, SkipPublish, Abandon, End
<1>15. ASSUME NEW k \in late, LatePut(k) PROVE HoldsPublished(q)'
  BY <1>1, <1>15 DEF LatePut
<1>16. CASE UNCHANGED vars
  BY <1>1, <1>16 DEF vars
<1> QED BY <1>5, <1>6, <1>7, <1>8, <1>9, <1>10, <1>11, <1>12, <1>13, <1>14, <1>15, <1>16 DEF Next

LEMMA KnownStep == KnownInv /\ OneProcess /\ [Next]_vars => KnownInv'
BY AgreementStep, HoldsPublishedStep DEF KnownInv

(* KnownVaultSeals: with one process per device, a command that was given the
   published row seals a new entry under the published key, whatever the device
   had stored before and whatever the other devices do. *)
THEOREM KnownVaultAlwaysSeals ==
  ASSUME OneProcess
  PROVE  Spec => []KnownVaultSeals
<1>1. KnownInv => KnownVaultSeals
  BY DEF KnownInv, AgreementInv, KeyKept, HoldsPublished, KnownVaultSeals
<1>2. KnownInv /\ [Next]_vars => KnownInv'
  BY KnownStep
<1> QED BY <1>1, <1>2, KnownInit, PTL DEF Spec

------------------------------------------------------------------------------
(* A device that is alone. *)

LEMMA AloneInit == ASSUME NEW d \in Devices PROVE Init => AloneInv(d)
<1> SUFFICES ASSUME Init PROVE AloneInv(d)
  OBVIOUS
<1>1. \A p \in Procs : cmd[p].pc = "idle" /\ cmd[p].remote = NoKey
  BY DEF Init, Idle
<1> QED BY <1>1, TypeInit DEF Init, AloneInv

(* The salt of the device stays: nothing is adopted but what it has published. *)
LEMMA SaltStays ==
  ASSUME NEW d \in Devices, OnlyDevice(d), AloneInv(d), [Next]_vars, meta[d] # NoMeta
  PROVE  meta'[d] # NoMeta /\ meta'[d].salt = meta[d].salt
<1>0. /\ TypeOK /\ TypeOK' /\ meta[d] \in Meta
      /\ \A p \in Procs : Home[p] = d
  BY TypeStep DEF AloneInv, TypeOK, OnlyDevice
<1>1. ASSUME NEW p \in Procs, Adopt(p), cmd[p].remote # NoKey
      PROVE  meta'[d] # NoMeta /\ meta'[d].salt = meta[d].salt
  <2>1. Adopted(p) \in Meta /\ Adopted(p).salt = meta[d].salt
    BY <1>0, <1>1, AdoptedType DEF AloneInv, Local, Adopted
  <2>2. meta'[d] = Adopted(p)
    BY <1>0, <1>1 DEF Adopt, TypeOK
  <2> QED BY <2>1, <2>2, NoMetaAssumption
<1>2. ASSUME NEW p \in Procs, SetVerifier(p)
      PROVE  meta'[d] # NoMeta /\ meta'[d].salt = meta[d].salt
  <2>1. MasterKey(p) \in Key
    BY <1>0, MasterKeyType
  <2>2. PICK row : row = [meta[d] EXCEPT !.verifier = MasterKey(p)]
    OBVIOUS
  <2>3. row \in Meta /\ row.salt = meta[d].salt
    BY <1>0, <2>1, <2>2 DEF Meta
  <2>4. meta'[d] = row
    BY <1>0, <1>2, <2>2 DEF SetVerifier, TypeOK
  <2> QED BY <2>3, <2>4, NoMetaAssumption
<1>3. ASSUME meta'[d] = meta[d] PROVE meta'[d] # NoMeta /\ meta'[d].salt = meta[d].salt
  BY <1>3
<1>4. \/ meta' = meta
      \/ \E p \in Procs : (Adopt(p) /\ cmd[p].remote # NoKey) \/ SetVerifier(p)
  BY <1>0 DEF Next, vars, Fetch, Adopt, Load, Generate, InsertMeta, SaveNew, Reseal, PutSelect,
              PutInsert, PutReselect, Acknowledge, SkipPublish, Abandon, End, LatePut
<1> QED BY <1>1, <1>2, <1>3, <1>4

LEMMA LocalStays ==
  ASSUME NEW d \in Devices, OnlyDevice(d), AloneInv(d), [Next]_vars, NEW k, Local(k, d)
  PROVE  Local(k, d)'
BY SaltStays DEF Local

LEMMA AloneStep ==
  ASSUME NEW d \in Devices, OnlyDevice(d), AloneInv(d), [Next]_vars
  PROVE  AloneInv(d)'
<1> DEFINE Early == {"idle", "fetched", "pulled", "generated"}
           Held(p) == /\ cmd[p].remote # NoKey => Local(cmd[p].remote, d)
                      /\ cmd[p].pc \notin Early => Local(MasterKey(p), d)
<1>0. /\ TypeOK /\ TypeOK' /\ cmd \in [Procs -> Command]
      /\ \A p \in Procs : Home[p] = d /\ cmd[p] \in Command /\ Held(p)
      /\ \A k : Local(k, d) => Local(k, d)'
  BY TypeStep, LocalStays DEF AloneInv, TypeOK, OnlyDevice
<1>1. vault' # NoKey => Local(vault, d)'
  <2>1. CASE vault' = vault
    BY <1>0, <2>1 DEF AloneInv, Local
  <2>2. CASE \E p \in Procs : cmd[p].pc = "inserting" /\ vault' = MasterKey(p)
    <3>1. PICK k : k = vault' /\ Local(k, d)
      BY <1>0, <2>2
    <3> QED BY <1>0, <3>1 DEF Local
  <2>3. CASE vault' \in late
    <3>1. PICK k : k = vault' /\ Local(k, d)
      BY <2>3 DEF AloneInv
    <3> QED BY <1>0, <3>1 DEF Local
  <2>4. \/ vault' = vault \/ vault' \in late
        \/ \E p \in Procs : cmd[p].pc = "inserting" /\ vault' = MasterKey(p)
    BY DEF Next, vars, Fetch, Adopt, Load, Generate, InsertMeta, SetVerifier, SaveNew, Reseal,
           PutSelect, PutInsert, PutReselect, Acknowledge, SkipPublish, Abandon, End, LatePut
  <2> QED BY <2>1, <2>2, <2>3, <2>4
<1>2. \A k \in late' : Local(k, d)'
  <2>1. \A k \in late' : k \in late \/ \E p \in Procs : cmd[p].pc = "publishing" /\ k = MasterKey(p)
    BY DEF Next, vars, Fetch, Adopt, Load, Generate, InsertMeta, SetVerifier, SaveNew, Reseal,
           PutSelect, PutInsert, PutReselect, Acknowledge, SkipPublish, Abandon, End, LatePut
  <2>2. \A k \in late' : Local(k, d)
    BY <1>0, <2>1 DEF AloneInv
  <2> QED BY <1>0, <2>2
<1>3. ASSUME NEW u \in Ids, sealed'[u] # NoKey PROVE Local(sealed[u], d)'
  <2>1. sealed'[u] = sealed[u] \/ \E p \in Procs : cmd[p].pc = "loaded" /\ sealed'[u] = MasterKey(p)
    <3>1. ASSUME NEW p \in Procs, NEW v \in Ids, SaveNew(p, v) \/ Reseal(p, v)
          PROVE  sealed'[u] = sealed[u] \/ (cmd[p].pc = "loaded" /\ sealed'[u] = MasterKey(p))
      BY <1>0, <3>1 DEF SaveNew, Reseal, TypeOK
    <3> QED BY <3>1 DEF Next, vars, Fetch, Adopt, Load, Generate, InsertMeta, SetVerifier,
              PutSelect, PutInsert, PutReselect, Acknowledge, SkipPublish, Abandon, End, LatePut
  <2>2. PICK k : k = sealed'[u] /\ Local(k, d)
    BY <1>0, <1>3, <2>1 DEF AloneInv
  <2> QED BY <1>0, <2>2 DEF Local
<1>4. ASSUME NEW q \in Procs PROVE Held(q)'
  <2>1. ASSUME cmd'[q].remote = cmd[q].remote,
               \/ cmd'[q].pc \in Early
               \/ cmd'[q].salt = cmd[q].salt /\ cmd[q].pc \notin Early
        PROVE  Held(q)'
    <3>1. cmd'[q].remote # NoKey => Local(cmd[q].remote, d)'
      <4>1. PICK k : k = cmd[q].remote
        OBVIOUS
      <4> QED BY <1>0, <2>1, <4>1 DEF Local
    <3>2. cmd'[q].pc \notin Early => Local(MasterKey(q), d)'
      <4>1. PICK k : k = MasterKey(q)
        OBVIOUS
      <4> QED BY <1>0, <2>1, <4>1 DEF Local, MasterKey
    <3> QED BY <2>1, <3>1, <3>2 DEF Local
  <2>2. Idle.pc = "idle" /\ Idle.remote = NoKey
    BY DEF Idle
  <2>3. ASSUME NEW p \in Procs, cmd' = [cmd EXCEPT ![p] = Idle] PROVE Held(q)'
    <3>1. CASE q = p
      BY <1>0, <2>2, <2>3, <3>1
    <3>2. CASE q # p
      BY <1>0, <2>1, <2>3, <3>2
    <3> QED BY <3>1, <3>2
  <2>4. ASSUME NEW p \in Procs, NEW l, cmd' = [cmd EXCEPT ![p].pc = l], l \in Early \/ cmd[p].pc \notin Early
        PROVE  Held(q)'
    <3>1. CASE q = p
      <4>1. cmd'[p].remote = cmd[p].remote /\ cmd'[p].pc = l /\ cmd'[p].salt = cmd[p].salt
        BY <1>0, <2>4 DEF Command
      <4> QED BY <2>1, <2>4, <3>1, <4>1
    <3>2. CASE q # p
      BY <1>0, <2>1, <2>4, <3>2
    <3> QED BY <3>1, <3>2
  <2>5. ASSUME NEW p \in Procs, NEW adding \in BOOLEAN, NEW m \in Passwords, Fetch(p, adding, m)
        PROVE  Held(q)'
    <3>0. PICK c : c = [Idle EXCEPT !.pc = "fetched", !.adding = adding, !.pass = m, !.remote = vault]
      OBVIOUS
    <3>1. c.pc = "fetched" /\ c.remote = vault
      BY <3>0 DEF Idle
    <3>2. cmd' = [cmd EXCEPT ![p] = c] /\ vault' = vault
      BY <2>5, <3>0 DEF Fetch
    <3>3. CASE q = p
      BY <1>0, <1>1, <3>1, <3>2, <3>3 DEF Local
    <3>4. CASE q # p
      BY <1>0, <2>1, <3>2, <3>4
    <3> QED BY <3>3, <3>4
  <2>6. ASSUME NEW p \in Procs, Load(p) PROVE Held(q)'
    <3>0. PICK c : c = [cmd[p] EXCEPT !.pc = "loaded", !.salt = meta[d].salt, !.verifier = meta[d].verifier]
      OBVIOUS
    <3>1. c.pc = "loaded" /\ c.remote = cmd[p].remote /\ c.salt = meta[d].salt
      BY <1>0, <3>0 DEF Command
    <3>2. cmd' = [cmd EXCEPT ![p] = c] /\ meta' = meta /\ meta[d] # NoMeta
      BY <1>0, <2>6, <3>0 DEF Load
    <3>3. CASE q = p
      BY <1>0, <3>1, <3>2, <3>3 DEF Local, MasterKey
    <3>4. CASE q # p
      BY <1>0, <2>1, <3>2, <3>4
    <3> QED BY <3>3, <3>4
  <2>7. ASSUME NEW p \in Procs, Generate(p) PROVE Held(q)'
    <3>1. CASE q = p
      <4>1. cmd'[p].remote = cmd[p].remote /\ cmd'[p].pc = "generated"
        BY <1>0, <2>7 DEF Generate, Command
      <4> QED BY <2>1, <3>1, <4>1
    <3>2. CASE q # p
      BY <1>0, <2>1, <2>7, <3>2 DEF Generate
    <3> QED BY <3>1, <3>2
  <2>8. ASSUME NEW p \in Procs, InsertMeta(p) PROVE Held(q)'
    <3>1. CASE meta[d] # NoMeta
      BY <1>0, <2>3, <2>8, <3>1 DEF InsertMeta
    <3>2. CASE meta[d] = NoMeta /\ q = p
      <4>1. /\ cmd'[p].remote = cmd[p].remote /\ cmd'[p].salt = cmd[p].salt
            /\ meta' = [meta EXCEPT ![d] = [salt |-> cmd[p].salt, verifier |-> NoKey]]
        BY <1>0, <2>8, <3>2 DEF InsertMeta, Command
      <4>2. [salt |-> cmd[p].salt, verifier |-> NoKey] \in Meta
        BY <1>0 DEF Command, Meta
      <4>3. meta'[d] # NoMeta /\ meta'[d].salt = cmd[p].salt
        BY <1>0, <4>1, <4>2, NoMetaAssumption DEF TypeOK
      <4>4. cmd[p].remote = NoKey
        BY <1>0, <3>2 DEF Local
      <4> QED BY <3>2, <4>1, <4>3, <4>4 DEF Local, MasterKey
    <3>3. CASE q # p
      <4>1. cmd'[q] = cmd[q]
        BY <1>0, <2>8, <3>3 DEF InsertMeta
      <4> QED BY <2>1, <4>1
    <3> QED BY <3>1, <3>2, <3>3
  <2>9. ASSUME NEW p \in Procs, NEW u \in Ids, SaveNew(p, u) PROVE Held(q)'
    <3>1. CASE q = p
      <4>1. cmd'[p].remote = cmd[p].remote /\ cmd'[p].salt = cmd[p].salt /\ cmd[p].pc = "loaded"
        BY <1>0, <2>9 DEF SaveNew, Command
      <4> QED BY <2>1, <3>1, <4>1
    <3>2. CASE q # p
      BY <1>0, <2>1, <2>9, <3>2 DEF SaveNew
    <3> QED BY <3>1, <3>2
  <2>10. ASSUME NEW p \in Procs, Adopt(p) \/ SetVerifier(p) \/ PutInsert(p) PROVE Held(q)'
    BY <2>4, <2>10 DEF Adopt, SetVerifier, PutInsert
  <2>11. ASSUME NEW p \in Procs, PutSelect(p) \/ PutReselect(p) PROVE Held(q)'
    <3>1. PICK l \in {"inserting", "stored"} :
            cmd' \in {[cmd EXCEPT ![p].pc = l], [cmd EXCEPT ![p] = Idle]}
      BY <2>11 DEF PutSelect, PutReselect
    <3>2. cmd[p].pc \in {"publishing", "reselecting"}
      BY <2>11 DEF PutSelect, PutReselect
    <3> QED BY <2>3, <2>4, <3>1, <3>2
  <2>12. ASSUME NEW p \in Procs, NEW u \in Ids, Reseal(p, u) PROVE Held(q)'
    BY <2>3, <2>12 DEF Reseal
  <2>13. ASSUME NEW p \in Procs, Acknowledge(p) \/ SkipPublish(p) \/ Abandon(p) \/ End(p) PROVE Held(q)'
    BY <2>3, <2>13 DEF Acknowledge, SkipPublish, Abandon, End
  <2>14. CASE cmd' = cmd
    BY <2>1, <2>14
  <2>15. (\E k \in late : LatePut(k)) \/ UNCHANGED vars => cmd' = cmd
    BY DEF LatePut, vars
  <2> QED BY <2>5, <2>6, <2>7, <2>8, <2>9, <2>10, <2>11, <2>12, <2>13, <2>14, <2>15 DEF Next
<1> QED BY <1>0, <1>1, <1>2, <1>3, <1>4 DEF AloneInv

(* OneKey: when the account has one device and its user one master password, any
   number of processes may race for the first salt, die, or find the session
   gone; all entries are sealed under one key, and once a key is published it is
   that one. *)
THEOREM AloneSealsUnderOneKey ==
  ASSUME NEW d \in Devices, OnlyDevice(d), \A m, n \in Passwords : m = n
  PROVE  Spec => []OneKey
<1>1. ASSUME AloneInv(d) PROVE OneKey
  <2>1. \A j, k \in Key : Local(j, d) /\ Local(k, d) => j = k
    BY DEF Key, Local
  <2>2. /\ vault # NoKey => vault \in Key /\ Local(vault, d)
        /\ \A u \in Ids : sealed[u] # NoKey => sealed[u] \in Key /\ Local(sealed[u], d)
    BY <1>1 DEF AloneInv, TypeOK
  <2> QED BY <2>1, <2>2 DEF OneKey
<1>2. AloneInv(d) /\ [Next]_vars => AloneInv(d)'
  BY AloneStep
<1>3. Init => AloneInv(d)
  BY AloneInit
<1>4. AloneInv(d) => OneKey
  BY <1>1
<1> QED BY <1>2, <1>3, <1>4, PTL DEF Spec
==============================================================================
