------------------------------ MODULE TokenStore ------------------------------
(***************************************************************************)
(* What the auther promises about refresh tokens, one step per request: a  *)
(* login issues a token, an exchange trades a live token for a new one,    *)
(* and a token that has died never lives again.  How many of the user's    *)
(* other tokens a login revokes is left open.                              *)
(***************************************************************************)
CONSTANTS
  Tokens,     \* refresh tokens
  Users

VARIABLES
  owner,      \* owner[t]: the user of an issued token
  live,       \* the tokens an exchange accepts
  exchanged   \* pairs of a token and the one it was traded for

vars == <<owner, live, exchanged>>

Issued == DOMAIN owner
TokensOf(u) == {t \in Issued : owner[t] = u}

Init ==
  /\ owner = [t \in {} |-> t]
  /\ live = {}
  /\ exchanged = {}

IsIssued(u, n) ==
  /\ n \in Tokens \ Issued
  /\ owner' = [t \in Issued \cup {n} |-> IF t = n THEN u ELSE owner[t]]

Login(u, n) ==
  /\ IsIssued(u, n)
  /\ \E revoked \in SUBSET (live \cap TokensOf(u)) : live' = (live \ revoked) \cup {n}
  /\ UNCHANGED exchanged

Exchange(t, n) ==
  /\ t \in live
  /\ IsIssued(owner[t], n)
  /\ live' = (live \ {t}) \cup {n}
  /\ exchanged' = exchanged \cup {<<t, n>>}

(* An expired token is presented: the user's tokens are revoked. *)
Revoke(u) ==
  /\ \E revoked \in SUBSET (live \cap TokensOf(u)) : live' = live \ revoked
  /\ UNCHANGED <<owner, exchanged>>

Next ==
  \/ \E u \in Users : Revoke(u) \/ \E n \in Tokens : Login(u, n)
  \/ \E t, n \in Tokens : Exchange(t, n)

Spec == Init /\ [][Next]_vars
==============================================================================
