------------------------- MODULE RefreshTokensProofs -------------------------
(***************************************************************************)
(* Theorems about RefreshTokens, for every number of users, tokens,        *)
(* handlers and auther processes.                                          *)
(***************************************************************************)
EXTENDS RefreshTokens, TLAPS

------------------------------------------------------------------------------
(* Types. *)

LEMMA IdleType == Idle \in Transaction /\ Idle.pc = "idle" /\ Idle.kind = "login"
                  /\ Idle.new = NoToken /\ Idle.doomed = {} /\ Idle.gone = {}
BY DEF Idle, Transaction

LEMMA TypeInit == Init => TypeOK
BY IdleType, NoneAssumption DEF Init, TypeOK

(* One handler moves, and no lock it does not hold changes. *)
LEMMA TypeFrame ==
  ASSUME TypeOK, NEW h \in Handlers, NEW c \in Transaction, tx' = [tx EXCEPT ![h] = c],
         registered' \subseteq Users,
         owner' \in [Tokens -> Users \cup {NoUser}],
         rows' \in [Tokens -> {"none", "fresh", "used"}],
         expired' \subseteq Tokens, issued' \subseteq Tokens,
         exchanged' \subseteq Tokens \X Tokens,
         lock' \in [Tokens -> Handlers \cup {NoHandler}],
         \A t \in Tokens : lock'[t] \in {lock[t], h, NoHandler},
         c.pc \in {"idle", "selecting"} => \A t \in Tokens : lock'[t] # h
  PROVE  /\ TypeOK'
         /\ tx'[h] = c
         /\ \A g \in Handlers : g # h => tx'[g] = tx[g]
BY NoneAssumption DEF TypeOK

(* The locks of an idle or selecting handler. *)
LEMMA NoLocks ==
  ASSUME TypeOK, NEW h \in Handlers, tx[h].pc \in {"idle", "selecting"}
  PROVE  \A t \in Tokens : lock[t] # h
BY NoneAssumption DEF TypeOK

(* What each step does to the handler that makes it. *)
LEMMA LoginEffect ==
  ASSUME TypeOK, NEW h \in Handlers, NEW u \in Users, NEW n \in Tokens, LoginUser(h, u, n)
  PROVE  /\ TypeOK'
         /\ \A g \in Handlers : g # h => tx'[g] = tx[g]
         /\ tx'[h].pc = "deleting" /\ tx'[h].kind = "login" /\ tx'[h].user = u
         /\ tx'[h].new = n /\ tx'[h].doomed = {} /\ tx'[h].gone = {}
<1> DEFINE c == [Idle EXCEPT !.pc = "deleting", !.user = u, !.new = n]
<1>1. /\ c \in Transaction
      /\ c.pc = "deleting" /\ c.kind = "login" /\ c.user = u
      /\ c.new = n /\ c.doomed = {} /\ c.gone = {}
  BY DEF Idle, Transaction
<1>2. tx' = [tx EXCEPT ![h] = c]
  BY DEF LoginUser
<1>3. owner' \in [Tokens -> Users \cup {NoUser}]
  BY DEF LoginUser, Mint, TypeOK
<1> HIDE DEF c
<1>4. /\ TypeOK' /\ tx'[h] = c
      /\ \A g \in Handlers : g # h => tx'[g] = tx[g]
  BY <1>1, <1>2, <1>3, TypeFrame DEF LoginUser, TypeOK
<1> QED BY <1>1, <1>4

LEMMA RotateEffect ==
  ASSUME TypeOK, NEW h \in Handlers, NEW t \in Tokens, RotateToken(h, t)
  PROVE  /\ TypeOK'
         /\ \A g \in Handlers : g # h => tx'[g] = tx[g]
         /\ tx'[h].pc = "selecting" /\ tx'[h].kind = "rotate" /\ tx'[h].token = t
         /\ tx'[h].new = NoToken /\ tx'[h].doomed = {} /\ tx'[h].gone = {}
<1> DEFINE c == [Idle EXCEPT !.pc = "selecting", !.kind = "rotate", !.token = t]
<1>1. /\ c \in Transaction
      /\ c.pc = "selecting" /\ c.kind = "rotate" /\ c.token = t
      /\ c.new = NoToken /\ c.doomed = {} /\ c.gone = {}
  BY DEF Idle, Transaction
<1>2. tx' = [tx EXCEPT ![h] = c] /\ tx[h].pc = "idle"
  BY DEF RotateToken
<1> HIDE DEF c
<1>3. \A s \in Tokens : lock[s] # h
  BY <1>2, NoLocks
<1>4. /\ TypeOK' /\ tx'[h] = c
      /\ \A g \in Handlers : g # h => tx'[g] = tx[g]
  BY <1>1, <1>2, <1>3, TypeFrame DEF RotateToken, TypeOK
<1> QED BY <1>1, <1>4

(* Select, when the row is there. *)
LEMMA SelectEffect ==
  ASSUME TypeOK, NEW h \in Handlers, Select(h), tx[h].token \in Tokens,
         rows[tx[h].token] # "none"
  PROVE  /\ TypeOK'
         /\ \A g \in Handlers : g # h => tx'[g] = tx[g]
         /\ \/ tx'[h].pc = "locked" /\ tx'[h].kind = "rotate"
            \/ tx'[h].pc = "deleting" /\ tx'[h].kind = "revoke"
         /\ tx'[h].token = tx[h].token /\ tx'[h].user = owner[tx[h].token]
         /\ tx'[h].new = tx[h].new /\ tx'[h].doomed = tx[h].doomed /\ tx'[h].gone = tx[h].gone
<1> DEFINE t == tx[h].token
           over == rows[t] = "used" \/ t \in expired
           c == [tx[h] EXCEPT !.user = owner[t], !.kind = IF over THEN "revoke" ELSE "rotate",
                              !.pc = IF over THEN "deleting" ELSE "locked"]
<1>1. tx[h] \in Transaction /\ owner[t] \in Users \cup {NoUser}
  BY DEF TypeOK
<1>2. /\ c \in Transaction
      /\ \/ c.pc = "locked" /\ c.kind = "rotate"
         \/ c.pc = "deleting" /\ c.kind = "revoke"
      /\ c.token = tx[h].token /\ c.user = owner[t]
      /\ c.new = tx[h].new /\ c.doomed = tx[h].doomed /\ c.gone = tx[h].gone
  <2> HIDE DEF over
  <2> QED BY <1>1 DEF Transaction
<1>3. tx' = [tx EXCEPT ![h] = c] /\ lock' = [lock EXCEPT ![t] = h]
  BY DEF Select, Found
<1> HIDE DEF c
<1>4. /\ TypeOK' /\ tx'[h] = c
      /\ \A g \in Handlers : g # h => tx'[g] = tx[g]
  BY <1>2, <1>3, TypeFrame DEF Select, TypeOK
<1> QED BY <1>2, <1>4

(* The request is over: refused, or rolled back. *)
LEMMA EndEffect ==
  ASSUME TypeOK, NEW h \in Handlers,
         \/ Rollback(h)
         \/ Select(h) /\ rows[tx[h].token] = "none"
  PROVE  /\ TypeOK'
         /\ tx'[h] = Idle
         /\ \A g \in Handlers : g # h => tx'[g] = tx[g]
         /\ \A t \in Tokens : lock[t] # h => lock'[t] = lock[t]
<1>1. tx' = [tx EXCEPT ![h] = Idle] /\ UNCHANGED <<registered, owner, rows, expired, issued, exchanged>>
  BY DEF Rollback, Select
<1>2. CASE Rollback(h)
  <2>1. /\ lock' \in [Tokens -> Handlers \cup {NoHandler}]
        /\ \A t \in Tokens : lock'[t] = IF lock[t] = h THEN NoHandler ELSE lock[t]
    BY <1>2 DEF Rollback, Released, TypeOK
  <2> QED BY <1>1, <2>1, IdleType, TypeFrame, NoneAssumption DEF TypeOK
<1>3. CASE Select(h) /\ rows[tx[h].token] = "none"
  <2>1. lock' = lock /\ \A t \in Tokens : lock[t] # h
    BY <1>3, NoLocks DEF Select
  <2> QED BY <1>1, <2>1, IdleType, TypeFrame DEF TypeOK
<1> QED BY <1>2, <1>3

LEMMA InsertEffect ==
  ASSUME TypeOK, NEW h \in Handlers, NEW n \in Tokens, Insert(h, n), tx[h].user \in Users
  PROVE  /\ TypeOK'
         /\ \A g \in Handlers : g # h => tx'[g] = tx[g]
         /\ tx'[h].pc = "deleting" /\ tx'[h].new = n
         /\ tx'[h].kind = tx[h].kind /\ tx'[h].token = tx[h].token /\ tx'[h].user = tx[h].user
         /\ tx'[h].doomed = tx[h].doomed /\ tx'[h].gone = tx[h].gone
<1> DEFINE c == [tx[h] EXCEPT !.pc = "deleting", !.new = n]
<1>1. tx[h] \in Transaction
  BY DEF TypeOK
<1>2. /\ c \in Transaction /\ c.pc = "deleting" /\ c.new = n
      /\ c.kind = tx[h].kind /\ c.token = tx[h].token /\ c.user = tx[h].user
      /\ c.doomed = tx[h].doomed /\ c.gone = tx[h].gone
  BY <1>1 DEF Transaction
<1>3. tx' = [tx EXCEPT ![h] = c] /\ owner' \in [Tokens -> Users \cup {NoUser}]
  BY DEF Insert, Mint, TypeOK
<1> HIDE DEF c
<1>4. /\ TypeOK' /\ tx'[h] = c
      /\ \A g \in Handlers : g # h => tx'[g] = tx[g]
  BY <1>2, <1>3, TypeFrame DEF Insert, TypeOK
<1> QED BY <1>2, <1>4

LEMMA StartDeleteEffect ==
  ASSUME TypeOK, NEW h \in Handlers, StartDelete(h)
  PROVE  /\ TypeOK'
         /\ \A g \in Handlers : g # h => tx'[g] = tx[g]
         /\ tx'[h].pc = "visiting" /\ tx'[h].doomed = Doomed(h) /\ tx'[h].gone = tx[h].gone
         /\ tx'[h].kind = tx[h].kind /\ tx'[h].token = tx[h].token /\ tx'[h].user = tx[h].user
         /\ tx'[h].new = tx[h].new
<1> DEFINE c == [tx[h] EXCEPT !.pc = "visiting", !.doomed = Doomed(h)]
<1>1. tx[h] \in Transaction /\ Doomed(h) \subseteq Tokens
  BY DEF TypeOK, Doomed, Live
<1>2. /\ c \in Transaction
      /\ c.pc = "visiting" /\ c.doomed = Doomed(h) /\ c.gone = tx[h].gone
      /\ c.kind = tx[h].kind /\ c.token = tx[h].token /\ c.user = tx[h].user
      /\ c.new = tx[h].new
  BY <1>1 DEF Transaction
<1>3. tx' = [tx EXCEPT ![h] = c]
  BY DEF StartDelete
<1> HIDE DEF c
<1>4. /\ TypeOK' /\ tx'[h] = c
      /\ \A g \in Handlers : g # h => tx'[g] = tx[g]
  BY <1>2, <1>3, TypeFrame DEF StartDelete, TypeOK
<1> QED BY <1>2, <1>4

LEMMA DeleteRowEffect ==
  ASSUME TypeOK, NEW h \in Handlers, NEW t \in Tokens, DeleteRow(h, t)
  PROVE  /\ TypeOK'
         /\ \A g \in Handlers : g # h => tx'[g] = tx[g]
         /\ tx'[h].pc = "visiting" /\ tx'[h].doomed = tx[h].doomed \ {t}
         /\ \/ rows[t] = "none" /\ tx'[h].gone = tx[h].gone /\ lock' = lock
            \/ /\ rows[t] # "none" /\ tx'[h].gone = tx[h].gone \cup {t}
               /\ lock' = [lock EXCEPT ![t] = h]
         /\ tx'[h].kind = tx[h].kind /\ tx'[h].token = tx[h].token /\ tx'[h].user = tx[h].user
         /\ tx'[h].new = tx[h].new
<1>1. tx[h] \in Transaction /\ tx[h].pc = "visiting"
  BY DEF TypeOK, DeleteRow
<1>2. CASE rows[t] = "none"
  <2> DEFINE c == [tx[h] EXCEPT !.doomed = tx[h].doomed \ {t}]
  <2>1. /\ c \in Transaction
        /\ c.pc = "visiting" /\ c.doomed = tx[h].doomed \ {t} /\ c.gone = tx[h].gone
        /\ c.kind = tx[h].kind /\ c.token = tx[h].token /\ c.user = tx[h].user
        /\ c.new = tx[h].new
    BY <1>1 DEF Transaction
  <2>2. tx' = [tx EXCEPT ![h] = c] /\ lock' = lock
    BY <1>2 DEF DeleteRow
  <2> HIDE DEF c
  <2>3. /\ TypeOK' /\ tx'[h] = c
        /\ \A g \in Handlers : g # h => tx'[g] = tx[g]
    BY <2>1, <2>2, TypeFrame DEF DeleteRow, TypeOK
  <2> QED BY <1>2, <2>1, <2>2, <2>3
<1>3. CASE rows[t] # "none"
  <2> DEFINE c == [tx[h] EXCEPT !.doomed = tx[h].doomed \ {t}, !.gone = tx[h].gone \cup {t}]
  <2>1. /\ c \in Transaction
        /\ c.pc = "visiting" /\ c.doomed = tx[h].doomed \ {t} /\ c.gone = tx[h].gone \cup {t}
        /\ c.kind = tx[h].kind /\ c.token = tx[h].token /\ c.user = tx[h].user
        /\ c.new = tx[h].new
    BY <1>1 DEF Transaction
  <2>2. tx' = [tx EXCEPT ![h] = c] /\ lock' = [lock EXCEPT ![t] = h]
    BY <1>3 DEF DeleteRow
  <2> HIDE DEF c
  <2>3. /\ TypeOK' /\ tx'[h] = c
        /\ \A g \in Handlers : g # h => tx'[g] = tx[g]
    BY <2>1, <2>2, TypeFrame DEF DeleteRow, TypeOK
  <2> QED BY <1>3, <2>1, <2>2, <2>3
<1> QED BY <1>2, <1>3

(* A rotation that commits has deleted the row of the token it was given. *)
LEMMA CommitEffect ==
  ASSUME TypeOK, NEW h \in Handlers, Holds(h), HoldsNew(h), Commit(h)
  PROVE  /\ TypeOK'
         /\ tx'[h] = Idle
         /\ \A g \in Handlers : g # h => tx'[g] = tx[g]
         /\ \A t \in Tokens : lock[t] # h => lock'[t] = lock[t]
         /\ rows' = [t \in Tokens |-> IF t \in tx[h].gone THEN "none"
                                        ELSE IF t = tx[h].new THEN "fresh" ELSE rows[t]]
         /\ tx[h].kind = "rotate" => /\ tx[h].token \in tx[h].gone
                                     /\ tx[h].new \in Tokens
         /\ tx[h].kind = "revoke" => tx[h].new = NoToken
         /\ tx[h].kind # "revoke" => tx[h].new \in Tokens
<1>1. tx[h] \in Transaction /\ tx[h].pc = "visiting" /\ tx[h].doomed = {}
  BY DEF TypeOK, Commit
<1>2. /\ tx[h].kind = "rotate" => tx[h].token \in tx[h].gone
      /\ tx[h].kind = "revoke" => tx[h].new = NoToken
      /\ tx[h].kind # "revoke" => tx[h].new \in Tokens
  BY <1>1 DEF Holds, HoldsNew, Transaction
<1>3. rows' = [t \in Tokens |-> IF t \in tx[h].gone THEN "none"
                                   ELSE IF t = tx[h].new THEN "fresh" ELSE rows[t]]
  BY <1>2 DEF Commit
<1>4. rows' \in [Tokens -> {"none", "fresh", "used"}]
  BY <1>3 DEF TypeOK
<1>5. issued' \subseteq Tokens /\ exchanged' \subseteq Tokens \X Tokens
  BY <1>1, <1>2 DEF Commit, TypeOK, Transaction
<1>6. /\ lock' \in [Tokens -> Handlers \cup {NoHandler}]
      /\ \A t \in Tokens : lock'[t] = IF lock[t] = h THEN NoHandler ELSE lock[t]
  BY DEF Commit, Released, TypeOK
<1>7. tx' = [tx EXCEPT ![h] = Idle] /\ UNCHANGED <<registered, owner, expired>>
  BY DEF Commit
<1>8. /\ TypeOK' /\ tx'[h] = Idle
      /\ \A g \in Handlers : g # h => tx'[g] = tx[g]
  BY <1>4, <1>5, <1>6, <1>7, IdleType, TypeFrame, NoneAssumption DEF TypeOK
<1> QED BY <1>2, <1>3, <1>6, <1>8

(* TypeOK: with the rows and requests it says that only a running transaction
   has locks. *)
LEMMA TypeStep == StoreInv /\ [Next]_vars => TypeOK'
<1> SUFFICES ASSUME StoreInv, [Next]_vars PROVE TypeOK'
  OBVIOUS
<1>0. /\ TypeOK
      /\ \A h \in Handlers : Holds(h) /\ HoldsNew(h) /\ tx[h] \in Transaction
  BY DEF StoreInv, TypeOK
<1>1. ASSUME NEW u \in Users, CreateUser(u) PROVE TypeOK'
  BY <1>0, <1>1 DEF CreateUser, TypeOK
<1>2. ASSUME NEW t \in Tokens, Expire(t) PROVE TypeOK'
  BY <1>0, <1>2 DEF Expire, TypeOK
<1>3. ASSUME NEW h \in Handlers, NEW u \in Users, NEW n \in Tokens, LoginUser(h, u, n)
      PROVE  TypeOK'
  BY <1>0, <1>3, LoginEffect
<1>4. ASSUME NEW h \in Handlers, NEW t \in Tokens, RotateToken(h, t) PROVE TypeOK'
  BY <1>0, <1>4, RotateEffect
<1>5. ASSUME NEW h \in Handlers, NEW n \in Tokens, Insert(h, n) PROVE TypeOK'
  <2>1. tx[h].user \in Users
    BY <1>0, <1>5 DEF Insert, Holds
  <2> QED BY <1>0, <1>5, <2>1, InsertEffect
<1>6. ASSUME NEW h \in Handlers, NEW t \in Tokens, DeleteRow(h, t) PROVE TypeOK'
  BY <1>0, <1>6, DeleteRowEffect
<1>7. ASSUME NEW h \in Handlers, Select(h) PROVE TypeOK'
  <2>1. tx[h].token \in issued /\ issued \subseteq Tokens
    BY <1>0, <1>7 DEF Select, Holds, TypeOK
  <2> QED BY <1>0, <1>7, <2>1, SelectEffect, EndEffect
<1>8. ASSUME NEW h \in Handlers, StartDelete(h) PROVE TypeOK'
  BY <1>0, <1>8, StartDeleteEffect
<1>9. ASSUME NEW h \in Handlers, Commit(h) PROVE TypeOK'
  BY <1>0, <1>9, CommitEffect
<1>10. ASSUME NEW h \in Handlers, Rollback(h) PROVE TypeOK'
  BY <1>0, <1>10, EndEffect
<1>11. CASE UNCHANGED vars
  BY <1>0, <1>11 DEF vars, TypeOK
<1> QED BY <1>1, <1>2, <1>3, <1>4, <1>5, <1>6, <1>7, <1>8, <1>9, <1>10, <1>11 DEF Next

------------------------------------------------------------------------------
(* The invariant of the transactions. *)

(* The other handlers keep what they hold, as long as nobody touches the locks
   they have, the rows under those locks, and the tokens they have minted. *)
LEMMA HoldsFrame ==
  ASSUME StoreInv, NEW h \in Handlers, NEW g \in Handlers, g # h, tx'[g] = tx[g],
         \A k \in Handlers : k # h => tx'[k] = tx[k],
         \A t \in Tokens : lock[t] = g => lock'[t] = g /\ (rows[t] # "none" => rows'[t] # "none"),
         \A t \in Tokens : owner[t] # NoUser => owner'[t] = owner[t],
         issued \subseteq issued',
         tx[g].new # NoToken => tx[g].new \notin issued' /\ tx'[h].new # tx[g].new
  PROVE  Holds(g)' /\ HoldsNew(g)'
<1>0. /\ TypeOK /\ Holds(g) /\ HoldsNew(g) /\ tx[g] \in Transaction
      /\ \A t \in issued : owner[t] \in Users
      /\ issued \subseteq Tokens
  BY DEF StoreInv, TypeOK
<1>1. \A t \in issued : owner'[t] = owner[t] /\ t \in issued'
  BY <1>0, NoneAssumption
<1>2. Holds(g)'
  <2>1. ASSUME tx[g].pc \in {"locked", "deleting", "visiting"}, tx[g].kind = "rotate"
        PROVE  /\ lock'[tx[g].token] = g
               /\ rows'[tx[g].token] # "none"
               /\ tx[g].user = owner'[tx[g].token]
    BY <1>0, <1>1, <2>1 DEF Holds
  <2>2. \A t \in tx[g].doomed \cup tx[g].gone : owner'[t] = tx[g].user /\ t \in issued'
    BY <1>0, <1>1 DEF Holds
  <2>3. \A t \in tx[g].gone : lock'[t] = g /\ rows'[t] # "none"
    BY <1>0 DEF Holds, Transaction
  <2>4. tx[g].pc # "idle" /\ tx[g].kind = "rotate" => tx[g].token \in issued'
    BY <1>0 DEF Holds
  <2> QED BY <1>0, <2>1, <2>2, <2>3, <2>4 DEF Holds
<1>3. HoldsNew(g)'
  <2>1. ASSUME tx[g].new # NoToken
        PROVE  /\ owner'[tx[g].new] = tx[g].user
               /\ tx[g].new \notin issued'
               /\ \A k \in Handlers : tx'[k].new = tx[g].new => k = g
    <3>1. tx[g].new \in Tokens /\ owner[tx[g].new] \in Users
      BY <1>0, <2>1 DEF Holds, HoldsNew, Transaction
    <3> QED BY <1>0, <2>1, <3>1, NoneAssumption DEF HoldsNew
  <2> QED BY <1>0, <2>1 DEF HoldsNew
<1> QED BY <1>2, <1>3

(* Every step up to the COMMIT: the tables as others see them stay. *)
LEMMA QuietStep ==
  ASSUME StoreInv, NEW h \in Handlers, TypeOK', Holds(h)', HoldsNew(h)',
         UNCHANGED <<rows, issued, exchanged>>,
         \A g \in Handlers : g # h => tx'[g] = tx[g],
         \A t \in Tokens : lock[t] \notin {h, NoHandler} => lock'[t] = lock[t],
         \A t \in Tokens : owner[t] # NoUser => owner'[t] = owner[t],
         \A g \in Handlers : g # h /\ tx[g].new # NoToken => tx'[h].new # tx[g].new
  PROVE  StoreInv'
<1>0. /\ TypeOK /\ CommittedRowsUnused /\ ExchangedOnce
      /\ \A t \in Tokens : rows[t] # "none" => t \in issued
      /\ \A t \in issued : owner[t] \in Users
      /\ \A x \in exchanged : x[1] \in issued /\ rows[x[1]] = "none"
      /\ issued \subseteq Tokens
      /\ \A g \in Handlers : HoldsNew(g)
  BY DEF StoreInv, TypeOK
<1>1. ASSUME NEW g \in Handlers, g # h PROVE Holds(g)' /\ HoldsNew(g)'
  BY <1>0, <1>1, HoldsFrame, NoneAssumption DEF HoldsNew
<1>2. CommittedRowsUnused' /\ ExchangedOnce'
  BY <1>0 DEF CommittedRowsUnused, ExchangedOnce
<1>3. \A t \in issued' : owner'[t] \in Users
  BY <1>0, NoneAssumption
<1> QED BY <1>0, <1>1, <1>2, <1>3 DEF StoreInv

(* A handler that is idle, or has only been given a token, holds nothing. *)
LEMMA HoldsNothing ==
  ASSUME NEW h \in Handlers,
         tx'[h].pc = "idle" \/ (tx'[h].pc = "selecting" /\ tx'[h].kind = "rotate"),
         tx'[h].pc # "idle" => tx'[h].token \in issued',
         tx'[h].new = NoToken, tx'[h].doomed = {}, tx'[h].gone = {}
  PROVE  Holds(h)' /\ HoldsNew(h)'
BY DEF Holds, HoldsNew

(* COMMIT: what it deletes it has locked, and what it inserts nobody has. *)
LEMMA CommitStep ==
  ASSUME StoreInv, NEW h \in Handlers, Commit(h)
  PROVE  StoreInv'
<1>0. /\ TypeOK /\ CommittedRowsUnused /\ ExchangedOnce
      /\ \A t \in Tokens : rows[t] # "none" => t \in issued
      /\ \A t \in issued : owner[t] \in Users
      /\ \A x \in exchanged : x[1] \in issued /\ rows[x[1]] = "none"
      /\ issued \subseteq Tokens /\ exchanged \subseteq Tokens \X Tokens
      /\ \A g \in Handlers : Holds(g) /\ HoldsNew(g) /\ tx[g] \in Transaction
  BY DEF StoreInv, TypeOK
<1>1. /\ TypeOK' /\ tx'[h] = Idle
      /\ \A g \in Handlers : g # h => tx'[g] = tx[g]
      /\ \A t \in Tokens : lock[t] # h => lock'[t] = lock[t]
      /\ rows' = [t \in Tokens |-> IF t \in tx[h].gone THEN "none"
                                     ELSE IF t = tx[h].new THEN "fresh" ELSE rows[t]]
      /\ tx[h].kind = "rotate" => tx[h].token \in tx[h].gone /\ tx[h].new \in Tokens
      /\ tx[h].kind = "revoke" => tx[h].new = NoToken
      /\ tx[h].kind # "revoke" => tx[h].new \in Tokens
  BY <1>0, CommitEffect
<1>2. /\ owner' = owner /\ tx[h].pc = "visiting"
      /\ issued' = issued \cup ({tx[h].new} \ {NoToken})
      /\ exchanged' = exchanged \cup (IF tx[h].kind = "rotate"
                                        THEN {<<tx[h].token, tx[h].new>>} ELSE {})
  BY DEF Commit
<1>3. \A t \in tx[h].gone : t \in Tokens /\ t \in issued /\ lock[t] = h /\ rows[t] # "none"
  BY <1>0 DEF Holds, Transaction
<1>4. tx[h].new # NoToken =>
        /\ tx[h].new \notin issued /\ owner[tx[h].new] \in Users
        /\ \A g \in Handlers : tx[g].new = tx[h].new => g = h
  BY <1>0, <1>2 DEF Holds, HoldsNew
<1>5. ASSUME NEW g \in Handlers, g # h PROVE Holds(g)' /\ HoldsNew(g)'
  <2>1. \A t \in Tokens : lock[t] = g => lock'[t] = g /\ (rows[t] # "none" => rows'[t] # "none")
    BY <1>1, <1>3, <1>5
  <2>2. ASSUME tx[g].new # NoToken
        PROVE  tx[g].new \notin issued' /\ tx'[h].new # tx[g].new
    <3>1. tx[g].new \notin issued
      BY <1>0, <2>2 DEF HoldsNew
    <3>2. tx[g].new # tx[h].new
      BY <1>0, <1>5, <2>2 DEF HoldsNew
    <3> QED BY <1>1, <1>2, <2>2, <3>1, <3>2, IdleType
  <2> QED BY <1>1, <1>2, <1>5, <2>1, <2>2, HoldsFrame
<1>6. Holds(h)' /\ HoldsNew(h)'
  BY <1>1, IdleType, HoldsNothing
<1>7. CommittedRowsUnused'
  BY <1>0, <1>1 DEF CommittedRowsUnused
<1>8. \A t \in Tokens : rows'[t] # "none" => t \in issued'
  BY <1>0, <1>1, <1>2, NoneAssumption
<1>9. \A t \in issued' : owner'[t] \in Users
  BY <1>0, <1>2, <1>4
<1>10. \A x \in exchanged' : x[1] \in issued' /\ rows'[x[1]] = "none"
  <2>1. ASSUME NEW x \in exchanged PROVE x[1] \in issued' /\ rows'[x[1]] = "none"
    <3>1. x[1] \in Tokens /\ x[1] \in issued /\ rows[x[1]] = "none"
      BY <1>0
    <3>2. x[1] # tx[h].new
      BY <1>4, <3>1, NoneAssumption
    <3> QED BY <1>1, <1>2, <3>1, <3>2
  <2>2. tx[h].kind = "rotate" => tx[h].token \in issued' /\ rows'[tx[h].token] = "none"
    BY <1>1, <1>2, <1>3
  <2> QED BY <1>2, <2>1, <2>2
<1>11. ExchangedOnce'
  <2>1. ASSUME NEW x \in exchanged, tx[h].kind = "rotate" PROVE x[1] # tx[h].token
    BY <1>0, <1>1, <1>3, <2>1
  <2> QED BY <1>0, <1>2, <2>1 DEF ExchangedOnce
<1> QED BY <1>1, <1>5, <1>6, <1>7, <1>8, <1>9, <1>10, <1>11 DEF StoreInv

LEMMA StoreInvInit == Init => StoreInv
<1> SUFFICES ASSUME Init PROVE StoreInv
  OBVIOUS
<1>1. \A h \in Handlers : tx[h] = Idle
  BY DEF Init
<1> QED BY <1>1, TypeInit, IdleType
        DEF Init, StoreInv, CommittedRowsUnused, ExchangedOnce, Holds, HoldsNew

LEMMA StoreInvStep == StoreInv /\ [Next]_vars => StoreInv'
<1> SUFFICES ASSUME StoreInv, [Next]_vars PROVE StoreInv'
  OBVIOUS
<1>0. /\ TypeOK /\ TypeOK'
      /\ \A h \in Handlers : Holds(h) /\ HoldsNew(h) /\ tx[h] \in Transaction
      /\ \A t \in issued : owner[t] \in Users
      /\ \A t \in Tokens : rows[t] # "none" => t \in issued
      /\ issued \subseteq Tokens /\ CommittedRowsUnused
  BY TypeStep DEF StoreInv, TypeOK
(* A token just minted belongs to no other handler. *)
<1>00. ASSUME NEW u, NEW n \in Tokens, Mint(u, n)
       PROVE  /\ n \notin issued /\ n # NoToken /\ owner'[n] = u
              /\ \A g \in Handlers : tx[g].new # n
              /\ \A t \in Tokens : owner[t] # NoUser => owner'[t] = owner[t]
  <2>1. \A g \in Handlers : tx[g].new # NoToken => owner[tx[g].new] \in Users
    BY <1>0 DEF Holds, HoldsNew, Transaction
  <2> QED BY <1>0, <1>00, <2>1, NoneAssumption DEF Mint, TypeOK
<1>1. ASSUME NEW u \in Users, CreateUser(u) PROVE StoreInv'
  <2>1. UNCHANGED <<owner, rows, expired, lock, tx, issued, exchanged>>
    BY <1>1 DEF CreateUser
  <2> QED BY <1>0, <2>1 DEF StoreInv, CommittedRowsUnused, ExchangedOnce, Holds, HoldsNew
<1>2. ASSUME NEW t \in Tokens, Expire(t) PROVE StoreInv'
  <2>1. UNCHANGED <<owner, rows, lock, tx, issued, exchanged>>
    BY <1>2 DEF Expire
  <2> QED BY <1>0, <2>1 DEF StoreInv, CommittedRowsUnused, ExchangedOnce, Holds, HoldsNew
<1>3. ASSUME NEW h \in Handlers, NEW u \in Users, NEW n \in Tokens, LoginUser(h, u, n)
      PROVE  StoreInv'
  <2>1. /\ \A g \in Handlers : g # h => tx'[g] = tx[g]
        /\ tx'[h].pc = "deleting" /\ tx'[h].kind = "login" /\ tx'[h].user = u
        /\ tx'[h].new = n /\ tx'[h].doomed = {} /\ tx'[h].gone = {}
    BY <1>0, <1>3, LoginEffect
  <2>2. Mint(u, n) /\ UNCHANGED <<rows, lock, issued, exchanged>>
    BY <1>3 DEF LoginUser
  <2>3. Holds(h)' /\ HoldsNew(h)'
    <3>1. Holds(h)'
      BY <2>1 DEF Holds
    <3>2. HoldsNew(h)'
      BY <1>00, <2>1, <2>2 DEF HoldsNew
    <3> QED BY <3>1, <3>2
  <2> QED BY <1>0, <1>00, <2>1, <2>2, <2>3, QuietStep
<1>4. ASSUME NEW h \in Handlers, NEW t \in Tokens, RotateToken(h, t) PROVE StoreInv'
  <2>1. /\ \A g \in Handlers : g # h => tx'[g] = tx[g]
        /\ tx'[h].pc = "selecting" /\ tx'[h].kind = "rotate" /\ tx'[h].token = t
        /\ tx'[h].new = NoToken /\ tx'[h].doomed = {} /\ tx'[h].gone = {}
    BY <1>0, <1>4, RotateEffect
  <2>2. t \in issued /\ UNCHANGED <<owner, rows, lock, issued, exchanged>>
    BY <1>4 DEF RotateToken
  <2>3. Holds(h)' /\ HoldsNew(h)'
    BY <2>1, <2>2, HoldsNothing
  <2> QED BY <1>0, <2>1, <2>2, <2>3, QuietStep
<1>5. ASSUME NEW h \in Handlers, NEW n \in Tokens, Insert(h, n) PROVE StoreInv'
  <2>1. /\ tx[h].pc = "locked" /\ tx[h].kind = "rotate" /\ tx[h].user \in Users
        /\ tx[h].token \in issued
        /\ lock[tx[h].token] = h /\ rows[tx[h].token] # "none"
        /\ tx[h].user = owner[tx[h].token]
    BY <1>0, <1>5 DEF Insert, Holds
  <2>2. /\ \A g \in Handlers : g # h => tx'[g] = tx[g]
        /\ tx'[h].pc = "deleting" /\ tx'[h].new = n
        /\ tx'[h].kind = tx[h].kind /\ tx'[h].token = tx[h].token /\ tx'[h].user = tx[h].user
        /\ tx'[h].doomed = tx[h].doomed /\ tx'[h].gone = tx[h].gone
    BY <1>0, <1>5, <2>1, InsertEffect
  <2>3. Mint(tx[h].user, n) /\ UNCHANGED <<rows, lock, issued, exchanged>>
    BY <1>5 DEF Insert
  <2>4. \A t \in issued : owner'[t] = owner[t]
    BY <1>0, <1>00, <2>3, NoneAssumption
  <2>5. Holds(h)'
    BY <1>0, <2>1, <2>2, <2>3, <2>4 DEF Holds
  <2>6. HoldsNew(h)'
    BY <1>00, <2>1, <2>2, <2>3 DEF HoldsNew
  <2> QED BY <1>0, <1>00, <2>2, <2>3, <2>5, <2>6, QuietStep
<1>6. ASSUME NEW h \in Handlers, NEW t \in Tokens, DeleteRow(h, t) PROVE StoreInv'
  <2>1. /\ \A g \in Handlers : g # h => tx'[g] = tx[g]
        /\ tx'[h].pc = "visiting" /\ tx'[h].doomed = tx[h].doomed \ {t}
        /\ \/ rows[t] = "none" /\ tx'[h].gone = tx[h].gone /\ lock' = lock
           \/ /\ rows[t] # "none" /\ tx'[h].gone = tx[h].gone \cup {t}
              /\ lock' = [lock EXCEPT ![t] = h]
        /\ tx'[h].kind = tx[h].kind /\ tx'[h].token = tx[h].token /\ tx'[h].user = tx[h].user
        /\ tx'[h].new = tx[h].new
    BY <1>0, <1>6, DeleteRowEffect
  <2>2. /\ UNCHANGED <<owner, rows, issued, exchanged>>
        /\ tx[h].pc = "visiting" /\ t \in tx[h].doomed /\ lock[t] \in {h, NoHandler}
    BY <1>6 DEF DeleteRow
  <2>3. \A s \in Tokens : lock[s] \notin {h, NoHandler} => lock'[s] = lock[s]
    BY <1>0, <2>1, <2>2 DEF TypeOK
  <2>4. \A s \in Tokens : lock[s] = h => lock'[s] = h
    BY <1>0, <2>1 DEF TypeOK
  <2>5. Holds(h)'
    <3>1. \A s \in tx'[h].gone : lock'[s] = h /\ rows'[s] # "none"
      BY <1>0, <2>1, <2>2, <2>4 DEF Holds, Transaction, TypeOK
    <3>2. /\ tx'[h].doomed \cup tx'[h].gone \subseteq tx[h].doomed \cup tx[h].gone
          /\ tx[h].kind = "rotate" => t = tx[h].token /\ rows[t] # "none"
      BY <1>0, <2>1, <2>2 DEF Holds
    <3>3. tx[h].kind = "rotate" => tx'[h].token \in tx'[h].doomed \cup tx'[h].gone
      BY <2>1, <3>2
    <3>4. tx[h].kind = "rotate" => /\ tx[h].token \in issued /\ tx[h].token \in Tokens
                                   /\ lock[tx[h].token] = h /\ rows[tx[h].token] # "none"
                                   /\ tx[h].user = owner[tx[h].token]
      BY <1>0, <2>2 DEF Holds
    <3>5. tx[h].user \in Users
      BY <1>0, <2>2 DEF Holds
    <3>6. \A s \in tx'[h].doomed \cup tx'[h].gone : owner'[s] = tx'[h].user /\ s \in issued'
      BY <1>0, <2>1, <2>2, <3>2 DEF Holds
    <3>7. tx'[h].kind = "rotate" => tx'[h].doomed \cup tx'[h].gone \subseteq {tx'[h].token}
      <4>1. tx[h].kind = "rotate" => tx[h].doomed \cup tx[h].gone \subseteq {tx[h].token}
        BY <1>0 DEF Holds
      <4> QED BY <2>1, <3>2, <4>1
    <3> QED BY <2>1, <2>2, <2>4, <3>1, <3>3, <3>4, <3>5, <3>6, <3>7 DEF Holds
  <2>6. HoldsNew(h)'
    BY <1>0, <2>1, <2>2 DEF HoldsNew
  <2>7. \A g \in Handlers : g # h /\ tx[g].new # NoToken => tx'[h].new # tx[g].new
    BY <1>0, <2>1 DEF HoldsNew
  <2> QED BY <1>0, <2>1, <2>2, <2>3, <2>5, <2>6, <2>7, QuietStep
<1>7. ASSUME NEW h \in Handlers, Select(h) PROVE StoreInv'
  <2>1. /\ tx[h].pc = "selecting" /\ tx[h].token \in issued /\ tx[h].token \in Tokens
        /\ tx[h].new = NoToken /\ tx[h].doomed = {} /\ tx[h].gone = {}
        /\ UNCHANGED <<owner, rows, issued, exchanged>>
    BY <1>0, <1>7 DEF Select, Holds, HoldsNew
  <2>2. CASE rows[tx[h].token] = "none"
    <3>1. /\ tx'[h] = Idle
          /\ \A g \in Handlers : g # h => tx'[g] = tx[g]
          /\ \A t \in Tokens : lock[t] # h => lock'[t] = lock[t]
      BY <1>0, <1>7, <2>2, EndEffect
    <3>2. Holds(h)' /\ HoldsNew(h)'
      BY <3>1, IdleType, HoldsNothing
    <3> QED BY <1>0, <2>1, <3>1, <3>2, IdleType, QuietStep
  <2>3. CASE rows[tx[h].token] # "none"
    <3>1. /\ \A g \in Handlers : g # h => tx'[g] = tx[g]
          /\ \/ tx'[h].pc = "locked" /\ tx'[h].kind = "rotate"
             \/ tx'[h].pc = "deleting" /\ tx'[h].kind = "revoke"
          /\ tx'[h].token = tx[h].token /\ tx'[h].user = owner[tx[h].token]
          /\ tx'[h].new = NoToken /\ tx'[h].doomed = {} /\ tx'[h].gone = {}
      BY <1>0, <1>7, <2>1, <2>3, SelectEffect
    <3>2. lock' = [lock EXCEPT ![tx[h].token] = h] /\ lock[tx[h].token] = NoHandler
      BY <1>7, <2>3 DEF Select
    <3>3. /\ \A t \in Tokens : lock[t] \notin {h, NoHandler} => lock'[t] = lock[t]
          /\ lock'[tx[h].token] = h
      BY <1>0, <2>1, <3>2 DEF TypeOK
    <3>4. Holds(h)' /\ HoldsNew(h)'
      BY <1>0, <2>1, <2>3, <3>1, <3>3 DEF Holds, HoldsNew
    <3> QED BY <1>0, <2>1, <3>1, <3>3, <3>4, QuietStep
  <2> QED BY <2>2, <2>3
<1>8. ASSUME NEW h \in Handlers, StartDelete(h) PROVE StoreInv'
  <2>1. /\ \A g \in Handlers : g # h => tx'[g] = tx[g]
        /\ tx'[h].pc = "visiting" /\ tx'[h].doomed = Doomed(h) /\ tx'[h].gone = tx[h].gone
        /\ tx'[h].kind = tx[h].kind /\ tx'[h].token = tx[h].token /\ tx'[h].user = tx[h].user
        /\ tx'[h].new = tx[h].new
    BY <1>0, <1>8, StartDeleteEffect
  <2>2. tx[h].pc = "deleting" /\ UNCHANGED <<owner, rows, lock, issued, exchanged>>
    BY <1>8 DEF StartDelete
  <2>3. Holds(h)'
    <3>1. tx[h].gone = {} /\ tx[h].user \in Users
      BY <1>0, <2>2 DEF Holds
    <3>2. \A t \in Doomed(h) : t \in issued /\ owner[t] = tx[h].user
      BY <1>0 DEF Doomed, Live
    <3>3. tx[h].kind = "rotate" =>
            /\ tx[h].token \in issued /\ lock[tx[h].token] = h /\ rows[tx[h].token] # "none"
            /\ tx[h].user = owner[tx[h].token]
            /\ Doomed(h) = {tx[h].token}
      BY <1>0, <2>2 DEF Holds, Doomed, Live, CommittedRowsUnused
    <3> QED BY <2>1, <2>2, <3>1, <3>2, <3>3 DEF Holds
  <2>4. HoldsNew(h)'
    BY <1>0, <2>1, <2>2 DEF HoldsNew
  <2>5. \A g \in Handlers : g # h /\ tx[g].new # NoToken => tx'[h].new # tx[g].new
    BY <1>0, <2>1 DEF HoldsNew
  <2> QED BY <1>0, <2>1, <2>2, <2>3, <2>4, <2>5, QuietStep
<1>9. ASSUME NEW h \in Handlers, Commit(h) PROVE StoreInv'
  BY <1>9, CommitStep
<1>10. ASSUME NEW h \in Handlers, Rollback(h) PROVE StoreInv'
  <2>1. /\ tx'[h] = Idle
        /\ \A g \in Handlers : g # h => tx'[g] = tx[g]
        /\ \A t \in Tokens : lock[t] # h => lock'[t] = lock[t]
        /\ UNCHANGED <<owner, rows, issued, exchanged>>
    BY <1>0, <1>10, EndEffect DEF Rollback
  <2>2. Holds(h)' /\ HoldsNew(h)'
    BY <2>1, IdleType, HoldsNothing
  <2> QED BY <1>0, <2>1, <2>2, IdleType, QuietStep
<1>11. CASE UNCHANGED vars
  BY <1>0, <1>11 DEF vars, StoreInv, CommittedRowsUnused, ExchangedOnce, Holds, HoldsNew
<1> QED BY <1>1, <1>2, <1>3, <1>4, <1>5, <1>6, <1>7, <1>8, <1>9, <1>10, <1>11 DEF Next

THEOREM StoreInvariant == Spec => []StoreInv
BY StoreInvInit, StoreInvStep, PTL DEF Spec

(* TypeOK: tables, locks and requests keep their types, and only a running
   transaction has a lock. *)
THEOREM TypeInvariant == Spec => []TypeOK
<1>1. StoreInv => TypeOK
  BY DEF StoreInv
<1> QED BY <1>1, StoreInvariant, PTL

(* ExchangedOnce: a refresh token buys one pair of tokens, however many
   requests present it at once and in whatever process they run. *)
THEOREM TokensExchangedOnce == Spec => []ExchangedOnce
<1>1. StoreInv => ExchangedOnce
  BY DEF StoreInv
<1> QED BY <1>1, StoreInvariant, PTL

(* CommittedRowsUnused: the prune of RotateRefreshToken leaves no used row, so
   no statement ever sees one. *)
THEOREM NoUsedRowCommitted == Spec => []CommittedRowsUnused
<1>1. StoreInv => CommittedRowsUnused
  BY DEF StoreInv
<1> QED BY <1>1, StoreInvariant, PTL

------------------------------------------------------------------------------
(* What the transactions amount to. *)

(* Between two COMMITs nothing of the store changes. *)
LEMMA OnlyCommits ==
  ASSUME StoreInv, [Next]_vars, ~ \E h \in Handlers : Commit(h)
  PROVE  /\ UNCHANGED <<rows, issued, exchanged>>
         /\ \A t \in issued : owner'[t] = owner[t]
<1>1. \A t \in issued : t \in Tokens /\ owner[t] # NoUser
  BY NoneAssumption DEF StoreInv, TypeOK
<1>2. ASSUME NEW u, NEW n, Mint(u, n) PROVE \A t \in issued : owner'[t] = owner[t]
  BY <1>1, <1>2 DEF Mint, StoreInv, TypeOK
<1>3. UNCHANGED <<rows, issued, exchanged>>
  BY DEF Next, vars, CreateUser, Expire, LoginUser, RotateToken, Insert, DeleteRow, Select,
         StartDelete, Rollback
<1>4. owner' = owner \/ \E u, n : Mint(u, n)
  BY DEF Next, vars, CreateUser, Expire, LoginUser, RotateToken, Insert, DeleteRow, Select,
         StartDelete, Rollback
<1> QED BY <1>2, <1>3, <1>4

(* A COMMIT, as a step on the tokens of one user. *)
LEMMA CommitAsStoreStep ==
  ASSUME StoreInv, NEW h \in Handlers, Commit(h)
  PROVE  /\ owner' = owner
         /\ tx[h].user \in Users
         /\ \A t \in tx[h].gone : t \in issued /\ rows[t] # "none" /\ owner[t] = tx[h].user
         /\ rows' = [t \in Tokens |-> IF t \in tx[h].gone THEN "none"
                                        ELSE IF t = tx[h].new THEN "fresh" ELSE rows[t]]
         /\ tx[h].kind = "revoke" => issued' = issued /\ exchanged' = exchanged /\ tx[h].new \notin Tokens
         /\ tx[h].kind # "revoke" => /\ tx[h].new \in Tokens \ issued
                                     /\ issued' = issued \cup {tx[h].new}
                                     /\ owner[tx[h].new] = tx[h].user
         /\ tx[h].kind = "login" => exchanged' = exchanged
         /\ tx[h].kind = "rotate" => /\ tx[h].gone = {tx[h].token}
                                     /\ exchanged' = exchanged \cup {<<tx[h].token, tx[h].new>>}
         /\ tx[h].kind \in {"login", "rotate", "revoke"}
<1>0. TypeOK /\ Holds(h) /\ HoldsNew(h) /\ tx[h] \in Transaction
  BY DEF StoreInv, TypeOK
<1>1. /\ rows' = [t \in Tokens |-> IF t \in tx[h].gone THEN "none"
                                     ELSE IF t = tx[h].new THEN "fresh" ELSE rows[t]]
      /\ tx[h].kind = "rotate" => tx[h].token \in tx[h].gone /\ tx[h].new \in Tokens
      /\ tx[h].kind = "revoke" => tx[h].new = NoToken
      /\ tx[h].kind # "revoke" => tx[h].new \in Tokens
  BY <1>0, CommitEffect
<1>2. /\ owner' = owner /\ tx[h].pc = "visiting"
      /\ issued' = issued \cup ({tx[h].new} \ {NoToken})
      /\ exchanged' = exchanged \cup (IF tx[h].kind = "rotate"
                                        THEN {<<tx[h].token, tx[h].new>>} ELSE {})
  BY DEF Commit
<1>3. /\ tx[h].user \in Users
      /\ \A t \in tx[h].gone : t \in issued /\ rows[t] # "none" /\ owner[t] = tx[h].user
      /\ tx[h].kind = "rotate" => tx[h].gone \subseteq {tx[h].token}
  BY <1>0, <1>2 DEF Holds
<1>4. tx[h].kind # "revoke" => tx[h].new \notin issued /\ owner[tx[h].new] = tx[h].user
  BY <1>0, <1>1, NoneAssumption DEF HoldsNew
<1>5. tx[h].kind \in {"login", "rotate", "revoke"}
  BY <1>0 DEF Transaction
<1>6. tx[h].kind = "rotate" => tx[h].gone = {tx[h].token}
  BY <1>1, <1>3
<1> QED BY <1>1, <1>2, <1>3, <1>4, <1>5, <1>6, NoneAssumption

(* DeadStaysDead: a token that was issued and has no row gets none again. *)
THEOREM DeadTokensStayDead == Spec => DeadStaysDead
<1>1. ASSUME StoreInv, [Next]_vars, NEW t \in issued, rows[t] = "none" PROVE rows'[t] = "none"
  <2>1. t \in Tokens
    BY <1>1 DEF StoreInv, TypeOK
  <2>2. CASE \E h \in Handlers : Commit(h)
    <3>1. PICK h \in Handlers : Commit(h)
      BY <2>2
    <3>2. t # tx[h].new
      BY <1>1, <2>1, <3>1, CommitAsStoreStep
    <3> QED BY <1>1, <2>1, <3>1, <3>2, CommitAsStoreStep
  <2> QED BY <1>1, <2>2, OnlyCommits
<1>2. StoreInv /\ [Next]_vars => [\A t \in issued : rows[t] = "none" => rows'[t] = "none"]_vars
  BY <1>1
<1> QED BY <1>2, StoreInvariant, PTL DEF Spec, DeadStaysDead

(* A request of the abstract store, for some user and some tokens. *)
LEMMA RevokeIsNext ==
  ASSUME NEW u \in Users, Store!Revoke(u) PROVE Store!Next
BY DEF Store!Next

LEMMA LoginIsNext ==
  ASSUME NEW u \in Users, NEW n \in Tokens, Store!Login(u, n) PROVE Store!Next
BY DEF Store!Next

LEMMA ExchangeIsNext ==
  ASSUME NEW t \in Tokens, NEW n \in Tokens, Store!Exchange(t, n) PROVE Store!Next
BY DEF Store!Next

LEMMA ImplementsStoreStep ==
  ASSUME StoreInv, [Next]_vars
  PROVE  [Store!Next]_Store!vars
<1> DEFINE own == [t \in issued |-> owner[t]]
           live == {t \in Tokens : rows[t] # "none"}
<1>1. CASE ~ \E h \in Handlers : Commit(h)
  <2>1. UNCHANGED <<rows, issued, exchanged>> /\ \A t \in issued : owner'[t] = owner[t]
    BY <1>1, OnlyCommits
  <2>2. own' = own /\ live' = live
    BY <2>1
  <2> QED BY <2>1, <2>2 DEF Store!vars
<1>2. ASSUME NEW h \in Handlers, Commit(h) PROVE Store!Next
  <2> DEFINE gone == tx[h].gone
  <2>0. PICK u \in Users, n \in Tokens \cup {NoToken}, t \in Tokens \cup {NoToken} :
          u = tx[h].user /\ n = tx[h].new /\ t = tx[h].token
    <3>1. tx[h] \in Transaction
      BY DEF StoreInv, TypeOK
    <3> QED BY <1>2, <3>1, CommitAsStoreStep DEF Transaction
  <2>1. /\ owner' = owner /\ u \in Users
        /\ \A s \in gone : s \in issued /\ rows[s] # "none" /\ owner[s] = u
        /\ rows' = [s \in Tokens |-> IF s \in gone THEN "none"
                                       ELSE IF s = n THEN "fresh" ELSE rows[s]]
        /\ issued \subseteq Tokens
    BY <1>2, <2>0, CommitAsStoreStep DEF StoreInv, TypeOK
  <2>2. gone \subseteq live \cap Store!TokensOf(u)
    BY <2>1 DEF Store!TokensOf, Store!Issued
  <2>3. CASE tx[h].kind = "revoke"
    <3>1. issued' = issued /\ exchanged' = exchanged /\ n \notin Tokens
      BY <1>2, <2>0, <2>3, CommitAsStoreStep
    <3>2. own' = own /\ live' = live \ gone
      BY <2>1, <3>1
    <3>3. Store!Revoke(u)
      BY <2>2, <3>1, <3>2 DEF Store!Revoke
    <3> QED BY <2>1, <3>3, RevokeIsNext
  <2>4. CASE tx[h].kind # "revoke"
    <3>1. n \in Tokens \ issued /\ issued' = issued \cup {n} /\ owner[n] = u
      BY <1>2, <2>0, <2>4, CommitAsStoreStep
    <3>2. own' = [s \in issued \cup {n} |-> IF s = n THEN u ELSE own[s]]
      BY <2>1, <3>1
    <3>3. Store!IsIssued(u, n)
      <4>1. Store!Issued = issued
        BY DEF Store!Issued
      <4> QED BY <3>1, <3>2, <4>1 DEF Store!IsIssued
    <3>4. live' = (live \ gone) \cup {n}
      BY <2>1, <3>1
    <3>5. CASE tx[h].kind = "login"
      <4>1. exchanged' = exchanged
        BY <1>2, <3>5, CommitAsStoreStep
      <4>2. Store!Login(u, n)
        <5> HIDE DEF gone
        <5>1. \E revoked \in SUBSET (live \cap Store!TokensOf(u)) :
                live' = (live \ revoked) \cup {n}
          BY <2>2, <3>4
        <5> QED BY <3>3, <4>1, <5>1 DEF Store!Login
      <4> QED BY <2>1, <3>1, <4>2, LoginIsNext
    <3>6. CASE tx[h].kind = "rotate"
      <4>1. gone = {t} /\ exchanged' = exchanged \cup {<<t, n>>}
        BY <1>2, <2>0, <3>6, CommitAsStoreStep
      <4>2. t \in live /\ own[t] = u
        BY <2>1, <4>1
      <4>3. Store!Exchange(t, n)
        <5>1. Store!IsIssued(own[t], n)
          BY <3>3, <4>2
        <5>2. live' = (live \ {t}) \cup {n}
          BY <3>4, <4>1
        <5> QED BY <4>1, <4>2, <5>1, <5>2 DEF Store!Exchange
      <4>4. t \in Tokens /\ n \in Tokens
        BY <3>1, <4>2
      <4> QED BY <4>3, <4>4, ExchangeIsNext
    <3> QED BY <1>2, <2>4, <3>5, <3>6, CommitAsStoreStep
  <2> QED BY <2>3, <2>4
<1> QED BY <1>1, <1>2

(* StoreSpec: statement by statement and lock by lock, the transactions are a
   store whose logins, exchanges and revocations take one step each. *)
THEOREM ImplementsStore == Spec => StoreSpec
<1>1. Init => Store!Init
  BY DEF Init, Store!Init
<1>2. StoreInv /\ [Next]_vars => [Store!Next]_Store!vars
  BY ImplementsStoreStep
<1> QED BY <1>1, <1>2, StoreInvariant, PTL DEF Spec, StoreSpec, Store!Spec

------------------------------------------------------------------------------
(* Who waits for whom. *)

(* RotationsNeverDeadlock: the only row a rotation deletes is the one it has
   selected FOR UPDATE, so it waits for that SELECT or not at all. *)
THEOREM RotationsDoNotDeadlock == Spec => []RotationsNeverDeadlock
<1>1. ASSUME StoreInv, NEW h \in Handlers, NEW g \in Handlers, NEW t \in Tokens,
             WaitsFor(h, g), tx[h].kind = "rotate"
      PROVE  lock[t] # h
  <2>1. TypeOK /\ Holds(h)
    BY <1>1 DEF StoreInv
  <2>2. CASE tx[h].pc = "selecting"
    BY <2>1, <2>2, NoLocks
  <2>3. CASE tx[h].pc # "selecting"
    <3>1. /\ tx[h].pc = "visiting" /\ tx[h].doomed # {}
          /\ \A s \in tx[h].doomed : lock[s] # h
      BY <1>1, <2>3 DEF WaitsFor
    <3>2. lock[tx[h].token] = h /\ tx[h].doomed \subseteq {tx[h].token}
      BY <1>1, <2>1, <3>1 DEF Holds
    <3> QED BY <3>1, <3>2
  <2> QED BY <2>2, <2>3
<1>2. StoreInv => RotationsNeverDeadlock
  BY <1>1 DEF RotationsNeverDeadlock
<1> QED BY <1>2, StoreInvariant, PTL

(* The user of a token stays, and issued tokens stay issued. *)
LEMMA OwnersStay ==
  ASSUME StoreInv, [Next]_vars, NEW t \in issued
  PROVE  t \in issued' /\ owner'[t] = owner[t] /\ owner[t] \in Users
<1>1. owner[t] \in Users
  BY DEF StoreInv
<1>2. CASE \E h \in Handlers : Commit(h)
  BY <1>1, <1>2, CommitAsStoreStep DEF Commit
<1>3. CASE ~ \E h \in Handlers : Commit(h)
  BY <1>1, <1>3, OnlyCommits
<1> QED BY <1>2, <1>3

(* The locks of all handlers but h stay as they are or go. *)
LEMMA LocksFrame ==
  ASSUME LocksInv, [Next]_vars, TypeOK', NEW h \in Handlers,
         \A g \in Handlers : g # h => tx'[g] = tx[g],
         \A t \in Tokens : lock'[t] \in {lock[t], h, NoHandler},
         \A t \in Tokens : lock'[t] = h => t \in issued /\ owner[t] = tx'[h].user
  PROVE  LocksOwnRows'
<1> SUFFICES ASSUME NEW t \in Tokens, lock'[t] # NoHandler
             PROVE  t \in issued' /\ owner'[t] = tx'[lock'[t]].user
  BY DEF LocksOwnRows
<1>1. t \in issued /\ owner[t] = tx'[lock'[t]].user
  <2>1. CASE lock'[t] = h
    BY <2>1
  <2>2. CASE lock'[t] # h
    <3>1. lock[t] = lock'[t] /\ lock[t] \in Handlers
      BY <2>2 DEF LocksInv, StoreInv, TypeOK
    <3> QED BY <2>2, <3>1 DEF LocksInv, LocksOwnRows
  <2> QED BY <2>1, <2>2
<1> QED BY <1>1, OwnersStay DEF LocksInv

LEMMA LocksStep == LocksInv /\ [Next]_vars => LocksInv'
<1> SUFFICES ASSUME LocksInv, [Next]_vars PROVE LocksOwnRows'
  BY StoreInvStep DEF LocksInv
<1>0. /\ StoreInv /\ TypeOK /\ TypeOK'
      /\ \A h \in Handlers : Holds(h) /\ HoldsNew(h) /\ tx[h] \in Transaction
      /\ \A h \in Handlers, t \in Tokens : lock[t] = h => t \in issued /\ owner[t] = tx[h].user
  BY TypeStep, NoneAssumption DEF LocksInv, LocksOwnRows, StoreInv, TypeOK
<1>1. ASSUME NEW u \in Users, CreateUser(u) PROVE LocksOwnRows'
  BY <1>1 DEF CreateUser, LocksInv, LocksOwnRows
<1>2. ASSUME NEW t \in Tokens, Expire(t) PROVE LocksOwnRows'
  BY <1>2 DEF Expire, LocksInv, LocksOwnRows
<1>3. ASSUME NEW h \in Handlers, tx[h].pc = "idle", lock' = lock,
             \A g \in Handlers : g # h => tx'[g] = tx[g]
      PROVE  LocksOwnRows'
  <2>1. \A t \in Tokens : lock'[t] # h
    BY <1>0, <1>3, NoLocks
  <2> QED BY <1>0, <1>3, <2>1, LocksFrame
<1>4. ASSUME NEW h \in Handlers, tx'[h].user = tx[h].user, lock' = lock,
             \A g \in Handlers : g # h => tx'[g] = tx[g]
      PROVE  LocksOwnRows'
  BY <1>0, <1>4, LocksFrame
<1>5. ASSUME NEW h \in Handlers, NEW u \in Users, NEW n \in Tokens, LoginUser(h, u, n)
      PROVE  LocksOwnRows'
  BY <1>0, <1>3, <1>5, LoginEffect DEF LoginUser
<1>6. ASSUME NEW h \in Handlers, NEW t \in Tokens, RotateToken(h, t) PROVE LocksOwnRows'
  BY <1>0, <1>3, <1>6, RotateEffect DEF RotateToken
<1>7. ASSUME NEW h \in Handlers, NEW n \in Tokens, Insert(h, n) PROVE LocksOwnRows'
  <2>1. tx[h].user \in Users /\ lock' = lock
    BY <1>0, <1>7 DEF Insert, Holds
  <2> QED BY <1>0, <1>4, <1>7, <2>1, InsertEffect
<1>8. ASSUME NEW h \in Handlers, StartDelete(h) PROVE LocksOwnRows'
  BY <1>0, <1>4, <1>8, StartDeleteEffect DEF StartDelete
<1>9. ASSUME NEW h \in Handlers, NEW t \in Tokens, DeleteRow(h, t) PROVE LocksOwnRows'
  <2>1. /\ \A g \in Handlers : g # h => tx'[g] = tx[g]
        /\ tx'[h].user = tx[h].user
        /\ lock' = lock \/ lock' = [lock EXCEPT ![t] = h]
    BY <1>0, <1>9, DeleteRowEffect
  <2>2. t \in issued /\ owner[t] = tx[h].user
    BY <1>0, <1>9 DEF DeleteRow, Holds
  <2>3. \A s \in Tokens : lock'[s] \in {lock[s], h, NoHandler} /\ (lock'[s] = h => s = t \/ lock[s] = h)
    BY <1>0, <2>1 DEF TypeOK
  <2>4. \A s \in Tokens : lock'[s] = h => s \in issued /\ owner[s] = tx'[h].user
    BY <1>0, <2>1, <2>2, <2>3
  <2> QED BY <1>0, <2>1, <2>3, <2>4, LocksFrame
<1>10. ASSUME NEW h \in Handlers, Select(h), rows[tx[h].token] # "none" PROVE LocksOwnRows'
  <2>1. /\ tx[h].pc = "selecting" /\ tx[h].token \in issued /\ tx[h].token \in Tokens
        /\ lock' = [lock EXCEPT ![tx[h].token] = h]
    BY <1>0, <1>10 DEF Select, Holds, TypeOK
  <2>2. /\ \A g \in Handlers : g # h => tx'[g] = tx[g]
        /\ tx'[h].user = owner[tx[h].token]
    BY <1>0, <1>10, <2>1, SelectEffect
  <2>3. \A s \in Tokens : lock'[s] \in {lock[s], h} /\ (lock'[s] = h => s = tx[h].token)
    BY <1>0, <2>1, NoLocks DEF TypeOK
  <2> QED BY <1>0, <2>1, <2>2, <2>3, LocksFrame
<1>11. ASSUME NEW h \in Handlers, tx'[h] = Idle,
              \A g \in Handlers : g # h => tx'[g] = tx[g],
              lock' = lock \/ lock' = Released(h)
       PROVE  LocksOwnRows'
  <2>1. \A t \in Tokens : lock'[t] # h
    BY <1>0, <1>11, IdleType, NoneAssumption DEF TypeOK
  <2>2. \A t \in Tokens : lock'[t] \in {lock[t], NoHandler}
    BY <1>11 DEF Released
  <2> QED BY <1>0, <1>11, <2>1, <2>2, LocksFrame
<1>12. ASSUME NEW h \in Handlers, Select(h), rows[tx[h].token] = "none" PROVE LocksOwnRows'
  BY <1>0, <1>11, <1>12, EndEffect DEF Select
<1>13. ASSUME NEW h \in Handlers, Rollback(h) PROVE LocksOwnRows'
  BY <1>0, <1>11, <1>13, EndEffect DEF Rollback
<1>14. ASSUME NEW h \in Handlers, Commit(h) PROVE LocksOwnRows'
  BY <1>0, <1>11, <1>14, CommitEffect DEF Commit
<1>15. CASE UNCHANGED vars
  BY <1>15 DEF vars, LocksInv, LocksOwnRows
<1> QED BY <1>1, <1>2, <1>5, <1>6, <1>7, <1>8, <1>9, <1>10, <1>12, <1>13, <1>14, <1>15 DEF Next

(* WaitsWithinUser: all the rows a transaction locks belong to one user, and those
   it waits for as well. *)
THEOREM UsersDoNotWaitForOthers == Spec => []WaitsWithinUser
<1>1. ASSUME LocksInv, NEW h \in Handlers, NEW g \in Handlers, WaitsFor(h, g)
      PROVE  OwnerFor(h) = tx[g].user
  <2>1. /\ Holds(h) /\ issued \subseteq Tokens /\ tx[h] \in Transaction
        /\ \A t \in Tokens : lock[t] = g => owner[t] = tx[g].user
    BY <1>1, NoneAssumption DEF LocksInv, LocksOwnRows, StoreInv, TypeOK
  <2>2. CASE tx[h].pc = "selecting"
    BY <1>1, <2>1, <2>2 DEF WaitsFor, Holds, OwnerFor
  <2>3. CASE tx[h].pc # "selecting"
    <3>1. PICK t \in tx[h].doomed : lock[t] = g
      BY <1>1, <2>3 DEF WaitsFor
    <3> QED BY <2>1, <2>3, <3>1 DEF Holds, OwnerFor
  <2> QED BY <2>2, <2>3
<1>2. LocksInv => WaitsWithinUser
  BY <1>1 DEF WaitsWithinUser
<1>3. Init => LocksInv
  BY StoreInvInit DEF LocksInv, LocksOwnRows, Init
<1> QED BY <1>2, <1>3, LocksStep, PTL DEF Spec

(* DeadlocksContained: Postgres ends a transaction to break a deadlock only among
   the logins and revocations of one user. *)
THEOREM DeadlocksStayContained == Spec => []DeadlocksContained
BY RotationsDoNotDeadlock, UsersDoNotWaitForOthers, PTL DEF DeadlocksContained

(* A running DELETE is moved on by its own handler only: it visits a row, or the
   transaction ends. *)
LEMMA VisitingStep ==
  ASSUME StoreInv, [Next]_vars, NEW h \in Handlers, tx[h].pc = "visiting"
  PROVE  \/ tx'[h] = tx[h]
         \/ \E t \in Tokens : DeleteRow(h, t)
         \/ Commit(h)
         \/ Rollback(h)
<1>1. TypeOK /\ \A g \in Handlers : Holds(g) /\ HoldsNew(g)
  BY DEF StoreInv
<1>2. ASSUME NEW u \in Users, CreateUser(u) PROVE tx'[h] = tx[h]
  BY <1>2 DEF CreateUser
<1>3. ASSUME NEW t \in Tokens, Expire(t) PROVE tx'[h] = tx[h]
  BY <1>3 DEF Expire
<1>4. ASSUME NEW g \in Handlers, NEW u \in Users, NEW n \in Tokens, LoginUser(g, u, n)
      PROVE  tx'[h] = tx[h]
  BY <1>1, <1>4, LoginEffect DEF LoginUser
<1>5. ASSUME NEW g \in Handlers, NEW t \in Tokens, RotateToken(g, t) PROVE tx'[h] = tx[h]
  BY <1>1, <1>5, RotateEffect DEF RotateToken
<1>6. ASSUME NEW g \in Handlers, NEW n \in Tokens, Insert(g, n) PROVE tx'[h] = tx[h]
  <2>1. g # h /\ tx[g].user \in Users
    BY <1>1, <1>6 DEF Insert, Holds
  <2> QED BY <1>1, <1>6, <2>1, InsertEffect
<1>7. ASSUME NEW g \in Handlers, g # h, NEW t \in Tokens, DeleteRow(g, t) PROVE tx'[h] = tx[h]
  BY <1>1, <1>7, DeleteRowEffect
<1>8. ASSUME NEW g \in Handlers, Select(g) PROVE tx'[h] = tx[h]
  <2>1. g # h /\ tx[g].token \in Tokens
    BY <1>1, <1>8 DEF Select, Holds, TypeOK
  <2> QED BY <1>1, <1>8, <2>1, SelectEffect, EndEffect
<1>9. ASSUME NEW g \in Handlers, StartDelete(g) PROVE tx'[h] = tx[h]
  BY <1>1, <1>9, StartDeleteEffect DEF StartDelete
<1>10. ASSUME NEW g \in Handlers, g # h, Commit(g) PROVE tx'[h] = tx[h]
  BY <1>1, <1>10, CommitEffect
<1>11. ASSUME NEW g \in Handlers, g # h, Rollback(g) PROVE tx'[h] = tx[h]
  BY <1>1, <1>11, EndEffect
<1>12. CASE UNCHANGED vars
  BY <1>12 DEF vars
<1> QED BY <1>2, <1>3, <1>4, <1>5, <1>6, <1>7, <1>8, <1>9, <1>10, <1>11, <1>12 DEF Next

(* ListedTokensDie: what the DELETE of a transaction saw when it began is dead when
   the transaction has committed, whoever else works on those rows. *)
THEOREM LoginsEndListedSessions == Spec => ListedTokensDie
<1> DEFINE Listed(h) == tx[h].doomed \cup tx[h].gone
<1>1. ASSUME StoreInv, [Next]_vars, NEW h \in Handlers, tx[h].pc = "visiting", ~ Rollback(h),
             NEW t \in Listed(h)
      PROVE  rows'[t] = "none" \/ t \in tx'[h].doomed \cup tx'[h].gone
  <2>0. /\ TypeOK /\ tx[h] \in Transaction /\ t \in Tokens
        /\ \A g \in Handlers : Holds(g) /\ HoldsNew(g)
    BY <1>1 DEF StoreInv, TypeOK, Transaction
  <2>1. CASE tx'[h] = tx[h]
    BY <1>1, <2>1
  <2>2. ASSUME NEW s \in Tokens, DeleteRow(h, s)
        PROVE  rows'[t] = "none" \/ t \in tx'[h].doomed \cup tx'[h].gone
    <3>1. UNCHANGED rows
      BY <2>2 DEF DeleteRow
    <3> QED BY <1>1, <2>0, <2>2, <3>1, DeleteRowEffect
  <2>3. CASE Commit(h)
    <3>1. tx[h].doomed = {}
      BY <2>3 DEF Commit
    <3> QED BY <1>1, <2>0, <2>3, <3>1, CommitEffect
  <2>4. \/ tx'[h] = tx[h]
        \/ \E s \in Tokens : DeleteRow(h, s)
        \/ Commit(h)
    BY <1>1, VisitingStep
  <2> QED BY <2>1, <2>2, <2>3, <2>4
<1>2. StoreInv /\ [Next]_vars =>
        [\A h \in Handlers : tx[h].pc = "visiting" /\ ~ Rollback(h) =>
           \A t \in tx[h].doomed \cup tx[h].gone :
             rows'[t] = "none" \/ t \in tx'[h].doomed \cup tx'[h].gone]_vars
  BY <1>1
<1> QED BY <1>2, StoreInvariant, PTL DEF Spec, ListedTokensDie
==============================================================================
