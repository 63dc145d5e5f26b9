---------------------------- MODULE RefreshTokens ----------------------------
(***************************************************************************)
(* The auther service: its `users` and `refresh_tokens` tables and the     *)
(* transactions its request handlers run on them, statement by statement.  *)
(*                                                                         *)
(* Postgres runs them at READ COMMITTED.  A statement sees the rows that   *)
(* are committed when it starts.  A DELETE or a SELECT FOR UPDATE takes    *)
(* the lock of a row before it acts on it, waiting for the transaction     *)
(* that holds it, and skips a row that is gone by then.  Writes become     *)
(* visible, and locks free, when the transaction ends.                     *)
(*                                                                         *)
(* A row's id, token_hash and the token the client holds are one value.    *)
(***************************************************************************)
EXTENDS Naturals

CONSTANTS
  Users,
  Tokens,     \* refresh tokens that may be minted; their number is a bound
  Handlers,   \* requests in progress at a time, in all auther processes
  Server,     \* Server[h]: the auther process that runs h
  NoUser, NoToken, NoHandler

ASSUME NoneAssumption == NoUser \notin Users /\ NoToken \notin Tokens /\ NoHandler \notin Handlers

VARIABLES
  registered, \* rows of `users`
  owner,      \* owner[t]: the user_id of a minted token
  rows,       \* rows[t]: its committed row - none, or used_at NULL or set
  expired,    \* tokens whose expires_at has passed
  lock,       \* lock[t]: the handler that has locked the row of t
  tx,         \* tx[h]: the request and the transaction of h
  issued,     \* tokens sent to a client
  exchanged   \* pairs of a token and the one a client got for it

vars == <<registered, owner, rows, expired, lock, tx, issued, exchanged>>

(* `doomed` are the rows a running DELETE has still to visit, `gone` those the
   transaction has deleted. *)
Transaction ==
  [pc : {"idle", "selecting", "locked", "deleting", "visiting"},
   kind : {"login", "rotate", "revoke"},
   user : Users \cup {NoUser}, token : Tokens \cup {NoToken}, new : Tokens \cup {NoToken},
   doomed : SUBSET Tokens, gone : SUBSET Tokens]

Idle == [pc |-> "idle", kind |-> "login", user |-> NoUser, token |-> NoToken, new |-> NoToken,
         doomed |-> {}, gone |-> {}]

TypeOK ==
  /\ registered \subseteq Users
  /\ owner \in [Tokens -> Users \cup {NoUser}]
  /\ rows \in [Tokens -> {"none", "fresh", "used"}]
  /\ expired \subseteq Tokens
  /\ lock \in [Tokens -> Handlers \cup {NoHandler}]
  /\ tx \in [Handlers -> Transaction]
  /\ issued \subseteq Tokens
  /\ exchanged \subseteq Tokens \X Tokens
  /\ \A t \in Tokens : lock[t] # NoHandler => tx[lock[t]].pc \notin {"idle", "selecting"}

Init ==
  /\ registered = {}
  /\ owner = [t \in Tokens |-> NoUser]
  /\ rows = [t \in Tokens |-> "none"]
  /\ expired = {}
  /\ lock = [t \in Tokens |-> NoHandler]
  /\ tx = [h \in Handlers |-> Idle]
  /\ issued = {}
  /\ exchanged = {}

------------------------------------------------------------------------------
Live(u) == {t \in Tokens : owner[t] = u /\ rows[t] # "none"}

(* Mutant of Mint: a token that was minted before. *)
MintAgain(u, n) ==
  owner' = [owner EXCEPT ![n] = u]

(* NewTokenPair for user u. *)
Mint(u, n) ==
  /\ owner[n] = NoUser
  /\ owner' = [owner EXCEPT ![n] = u]

Expire(t) ==
  /\ rows[t] # "none"
  /\ expired' = expired \cup {t}
  /\ UNCHANGED <<registered, owner, rows, lock, tx, issued, exchanged>>

(* CreateUser: one INSERT; a second one with that email changes nothing. *)
CreateUser(u) ==
  /\ registered' = registered \cup {u}
  /\ UNCHANGED <<owner, rows, expired, lock, tx, issued, exchanged>>

(* LoginUser with the right password: the pair is minted, then the
   transaction of ReplaceUserRefreshTokens begins. *)
LoginUser(h, u, n) ==
  /\ tx[h].pc = "idle"
  /\ u \in registered
  /\ Mint(u, n)
  /\ tx' = [tx EXCEPT ![h] = [Idle EXCEPT !.pc = "deleting", !.user = u, !.new = n]]
  /\ UNCHANGED <<registered, rows, expired, lock, issued, exchanged>>

(* RotateToken: while one handler of a process rotates t, the singleflight
   group makes the others of that process wait for its result. *)
RotateToken(h, t) ==
  /\ tx[h].pc = "idle"
  /\ t \in issued
  /\ \A g \in Handlers : Server[g] = Server[h] => tx[g].token # t
  /\ tx' = [tx EXCEPT ![h] = [Idle EXCEPT !.pc = "selecting", !.kind = "rotate", !.token = t]]
  /\ UNCHANGED <<registered, owner, rows, expired, lock, issued, exchanged>>

(* The row is there: it is locked, and taken for exchange or - used or
   expired - for revocation. *)
Found(h, t) ==
  tx' = [tx EXCEPT ![h].user = owner[t],
                   ![h].kind = IF rows[t] = "used" \/ t \in expired THEN "revoke" ELSE "rotate",
                   ![h].pc = IF rows[t] = "used" \/ t \in expired THEN "deleting" ELSE "locked"]

(* Mutant of Select: a plain SELECT, without FOR UPDATE. *)
SelectUnlocked(h) ==
  LET t == tx[h].token IN
  /\ tx[h].pc = "selecting"
  /\ rows[t] # "none"
  /\ Found(h, t)
  /\ UNCHANGED <<registered, owner, rows, expired, lock, issued, exchanged>>

(* SELECT ... FOR UPDATE; without a row the token is refused. *)
Select(h) ==
  LET t == tx[h].token IN
  /\ tx[h].pc = "selecting"
  /\ IF rows[t] = "none"
       THEN /\ tx' = [tx EXCEPT ![h] = Idle]
            /\ UNCHANGED lock
       ELSE /\ lock[t] = NoHandler
            /\ lock' = [lock EXCEPT ![t] = h]
            /\ Found(h, t)
  /\ UNCHANGED <<registered, owner, rows, expired, issued, exchanged>>

(* used_at is set, the new pair minted and its row inserted. *)
Insert(h, n) ==
  /\ tx[h].pc = "locked"
  /\ Mint(tx[h].user, n)
  /\ tx' = [tx EXCEPT ![h].pc = "deleting", ![h].new = n]
  /\ UNCHANGED <<registered, rows, expired, lock, issued, exchanged>>

(* Mutants of Doomed: the prune of a rotation is forgotten, or has no condition
   on used_at. *)
DoomedUnpruned(h) ==
  IF tx[h].kind = "rotate" THEN {} ELSE Live(tx[h].user)
DoomedAlways(h) == Live(tx[h].user)

(* The rows a DELETE sees when it starts: a login and a revocation delete all
   rows of the user, a rotation those that are used - its own among them. *)
Doomed(h) ==
  {t \in Live(tx[h].user) :
     tx[h].kind = "rotate" => rows[t] = "used" \/ t = tx[h].token}

StartDelete(h) ==
  /\ tx[h].pc = "deleting"
  /\ tx' = [tx EXCEPT ![h].pc = "visiting", ![h].doomed = Doomed(h)]
  /\ UNCHANGED <<registered, owner, rows, expired, lock, issued, exchanged>>

(* Mutant of DeleteRow: a row somebody else has locked is passed over. *)
DeleteRowSkipping(h, t) ==
  /\ tx[h].pc = "visiting"
  /\ t \in tx[h].doomed
  /\ IF rows[t] = "none" \/ lock[t] \notin {h, NoHandler}
       THEN /\ tx' = [tx EXCEPT ![h].doomed = @ \ {t}]
            /\ UNCHANGED lock
       ELSE /\ lock' = [lock EXCEPT ![t] = h]
            /\ tx' = [tx EXCEPT ![h].doomed = @ \ {t}, ![h].gone = @ \cup {t}]
  /\ UNCHANGED <<registered, owner, rows, expired, issued, exchanged>>

(* A DELETE takes each row's lock, waiting for it, before it deletes the row. *)
DeleteRow(h, t) ==
  /\ tx[h].pc = "visiting"
  /\ t \in tx[h].doomed
  /\ lock[t] \in {h, NoHandler}
  /\ IF rows[t] = "none"
       THEN /\ tx' = [tx EXCEPT ![h].doomed = @ \ {t}]
            /\ UNCHANGED lock
       ELSE /\ lock' = [lock EXCEPT ![t] = h]
            /\ tx' = [tx EXCEPT ![h].doomed = @ \ {t}, ![h].gone = @ \cup {t}]
  /\ UNCHANGED <<registered, owner, rows, expired, issued, exchanged>>

(* Mutant of Released: locks on rows that are not deleted stay. *)
ReleasedDeleted(h) == [t \in Tokens |-> IF t \in tx[h].gone THEN NoHandler ELSE lock[t]]

(* Locks are held until the transaction ends. *)
Released(h) == [t \in Tokens |-> IF lock[t] = h THEN NoHandler ELSE lock[t]]

(* COMMIT; the last statement of a login, its INSERT, comes right before. *)
Commit(h) ==
  /\ tx[h].pc = "visiting"
  /\ tx[h].doomed = {}
  /\ rows' = [t \in Tokens |->
                IF t \in tx[h].gone THEN "none"
                ELSE IF t = tx[h].new THEN "fresh"
                ELSE IF t = tx[h].token /\ tx[h].kind = "rotate" THEN "used"
                ELSE rows[t]]
  /\ issued' = issued \cup ({tx[h].new} \ {NoToken})
  /\ exchanged' = exchanged \cup (IF tx[h].kind = "rotate" THEN {<<tx[h].token, tx[h].new>>} ELSE {})
  /\ lock' = Released(h)
  /\ tx' = [tx EXCEPT ![h] = Idle]
  /\ UNCHANGED <<registered, owner, expired>>

(* ROLLBACK: a statement or the minting fails, the client cancels, the process
   dies, or Postgres ends the transaction to break a deadlock. *)
Rollback(h) ==
  /\ tx[h].pc # "idle"
  /\ lock' = Released(h)
  /\ tx' = [tx EXCEPT ![h] = Idle]
  /\ UNCHANGED <<registered, owner, rows, expired, issued, exchanged>>

------------------------------------------------------------------------------
Next ==
  \/ \E u \in Users : CreateUser(u)
  \/ \E t \in Tokens : Expire(t)
  \/ \E h \in Handlers :
       \/ \E u \in Users, n \in Tokens : LoginUser(h, u, n)
       \/ \E t \in Tokens : RotateToken(h, t) \/ Insert(h, t) \/ DeleteRow(h, t)
       \/ Select(h) \/ StartDelete(h) \/ Commit(h) \/ Rollback(h)

Spec == Init /\ [][Next]_vars

(* h can go no further before g ends. *)
WaitsFor(h, g) ==
  \/ /\ tx[h].pc = "selecting"
     /\ lock[tx[h].token] = g
  \/ /\ tx[h].pc = "visiting"
     /\ tx[h].doomed # {}
     /\ \A t \in tx[h].doomed : lock[t] \notin {h, NoHandler}
     /\ \E t \in tx[h].doomed : lock[t] = g

(* Postgres ends a transaction that waits in a cycle. *)
BreakDeadlock(h) ==
  /\ \E g \in Handlers : WaitsFor(h, g) /\ WaitsFor(g, h)
  /\ Rollback(h)

(* A handler that can run runs, Postgres grants a row lock to its waiters in
   turn, and a mint that fails rolls back. *)
Fairness ==
  \A h \in Handlers :
    /\ SF_vars(Select(h))
    /\ WF_vars(StartDelete(h))
    /\ SF_vars(\E t \in Tokens : DeleteRow(h, t))
    /\ WF_vars(Commit(h))
    /\ WF_vars(tx[h].pc = "locked" /\ (Rollback(h) \/ \E n \in Tokens : Insert(h, n)))
    /\ WF_vars(BreakDeadlock(h))

FairSpec == Spec /\ Fairness

------------------------------------------------------------------------------
(* Properties. *)

(* A refresh token is exchanged at most once, by whatever handlers it is
   presented to at the same time (RotateRefreshToken: "consumes"). *)
ExchangedOnce == \A x, y \in exchanged : x[1] = y[1] => x = y

(* A token that was issued and is not valid any more never becomes valid again:
   no transaction brings back a row another one has deleted, nor inserts the
   row of a token it has not minted. *)
DeadStaysDead ==
  [][\A t \in issued : rows[t] = "none" => rows'[t] = "none"]_vars

(* No committed row has used_at set, so the reuse branch of RotateRefreshToken
   is taken for expired tokens only. *)
CommittedRowsUnused == \A t \in Tokens : rows[t] # "used"

(* A login or revocation that commits has ended every session that was there when
   its DELETE began, also those other transactions held at the time: from then on
   such a token is on its list until it is gone.  Tokens committed meanwhile are
   not on the list, and survive. *)
ListedTokensDie ==
  [][\A h \in Handlers :
       tx[h].pc = "visiting" /\ ~ Rollback(h) =>
         \A t \in tx[h].doomed \cup tx[h].gone :
           rows'[t] = "none" \/ t \in tx'[h].doomed \cup tx'[h].gone]_vars

(* postgres_integration_test.go:139, "Replaying the original refresh after it
   was marked used revokes the whole family (reuse detection)". *)
ReuseRevokes ==
  [][\A h \in Handlers :
       Select(h) /\ (\E n \in issued : <<tx[h].token, n>> \in exchanged) =>
         tx'[h].kind = "revoke"]_vars

(* Every request ends: no handler waits for ever for the row locks of others. *)
RequestsEnd == \A h \in Handlers : tx[h].pc # "idle" ~> tx[h].pc = "idle"

(* The user whose rows h is after. *)
OwnerFor(h) == IF tx[h].pc = "selecting" THEN owner[tx[h].token] ELSE tx[h].user

(* Requests wait only for requests of the same user: the traffic of one account
   never holds up another's, and no cycle of waits joins two accounts. *)
WaitsWithinUser ==
  \A h, g \in Handlers : WaitsFor(h, g) => OwnerFor(h) = tx[g].user

(* A rotation that waits has no row lock, so nobody waits for it: no cycle of waits,
   of whatever length, contains a rotation, and Postgres never ends one to break a
   deadlock (postgres.go:80, "in one transaction": its UPDATE, INSERT and pruning
   DELETE go through once it has its token's row). *)
RotationsNeverDeadlock ==
  \A h, g \in Handlers :
    WaitsFor(h, g) /\ tx[h].kind = "rotate" => \A t \in Tokens : lock[t] # h

(* So deadlocks join only logins and revocations, and those of one user. *)
DeadlocksContained == WaitsWithinUser /\ RotationsNeverDeadlock

(***************************************************************************)
(* Inductive invariant.                                                    *)
(*                                                                         *)
(* A transaction has a lock on every row it has read for exchange or       *)
(* deleted, so those rows are still there when it commits; and the token   *)
(* it has minted is its own until then.                                    *)
(***************************************************************************)
Holds(h) ==
  /\ tx[h].pc # "visiting" => tx[h].doomed = {} /\ tx[h].gone = {}
  /\ tx[h].pc # "idle" /\ tx[h].kind = "rotate" => tx[h].token \in issued
  /\ tx[h].pc \in {"locked", "deleting", "visiting"} /\ tx[h].kind = "rotate" =>
       /\ lock[tx[h].token] = h
       /\ rows[tx[h].token] # "none"
       /\ tx[h].user = owner[tx[h].token]
  /\ tx[h].pc = "selecting" => tx[h].kind = "rotate"
  /\ tx[h].pc = "locked" => tx[h].kind = "rotate"
  /\ tx[h].pc \in {"locked", "deleting", "visiting"} => tx[h].user \in Users
  /\ tx[h].pc = "visiting" /\ tx[h].kind = "rotate" => tx[h].token \in tx[h].doomed \cup tx[h].gone
  /\ \A t \in tx[h].doomed \cup tx[h].gone : owner[t] = tx[h].user /\ t \in issued
  /\ tx[h].kind = "rotate" => tx[h].doomed \cup tx[h].gone \subseteq {tx[h].token}
  /\ \A t \in tx[h].gone : lock[t] = h /\ rows[t] # "none"

HoldsNew(h) ==
  /\ tx[h].pc \in {"deleting", "visiting"} =>
       (tx[h].new = NoToken <=> tx[h].kind = "revoke")
  /\ tx[h].pc \in {"idle", "selecting", "locked"} => tx[h].new = NoToken
  /\ tx[h].new # NoToken =>
       /\ owner[tx[h].new] = tx[h].user
       /\ tx[h].new \notin issued
       /\ \A g \in Handlers : tx[g].new = tx[h].new => g = h

StoreInv ==
  /\ TypeOK
  /\ CommittedRowsUnused
  /\ ExchangedOnce
  /\ \A h \in Handlers : Holds(h) /\ HoldsNew(h)
  /\ \A t \in Tokens : rows[t] # "none" => t \in issued
  /\ \A t \in issued : owner[t] \in Users
  /\ \A x \in exchanged : x[1] \in issued /\ rows[x[1]] = "none"

(* A row is locked by a transaction of the user it belongs to. *)
LocksOwnRows ==
  \A t \in Tokens : lock[t] # NoHandler => t \in issued /\ owner[t] = tx[lock[t]].user

LocksInv == StoreInv /\ LocksOwnRows

(* The transactions implement the token store whose requests take one step. *)
Store ==
  INSTANCE TokenStore WITH
    owner <- [t \in issued |-> owner[t]],
    live <- {t \in Tokens : rows[t] # "none"}

StoreSpec == Store!Spec
==============================================================================
