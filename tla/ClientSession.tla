---------------------------- MODULE ClientSession ----------------------------
(***************************************************************************)
(* The session of skeepercli: the one row of the device's `session` table, *)
(* read and written by every command that runs on the device, and the      *)
(* calls made with its tokens.  The auther is the TokenStore its           *)
(* transactions implement; of the vaults the model keeps whose data they   *)
(* hold.                                                                   *)
(*                                                                         *)
(* A command is one process.  It takes the user id from the session when   *)
(* it begins (some commands do so twice in a row: one step here), and the  *)
(* interceptor takes the token from the session again at every call;       *)
(* between the two the session may change.                                 *)
(*                                                                         *)
(* An access token and the refresh token it came with are one value.       *)
(***************************************************************************)
EXTENDS Naturals, FiniteSets

CONSTANTS
  Devices,
  Procs,      \* skeepercli processes that run at a time
  Home,       \* Home[p]: the device on which p runs
  Users,
  Tokens,     \* tokens that may be minted; their number is a bound
  NoSession, NoUser, NoToken,
  PromptSaves, \* is an answer saved long before its access token expires?
  MaxLost     \* bound on the calls that are abandoned

ASSUME NoneAssumption ==
  /\ NoUser \notin Users /\ NoToken \notin Tokens
  /\ NoSession \notin [token : Tokens, user : Users]
ASSUME HomeAssumption == Home \in [Procs -> Devices]
ASSUME PromptSavesAssumption == PromptSaves \in BOOLEAN
ASSUME BoundAssumption == MaxLost \in Nat

VARIABLES
  owner, live, exchanged,   \* the auther: see TokenStore
  nearExpiry, \* tokens with at most a minute of their access time left
  expired,    \* tokens whose refresh time has passed as well
  session,    \* session[d]: the row of table `session`, or NoSession
  tables,     \* tables[d][u]: whose data is in d's rows with user_id u
  vaults,     \* vaults[u]: whose data the skeeper keeps for account u
  proc,       \* proc[p]: the command p runs
  orphans,    \* calls that nobody waits for any more
  lost        \* how many calls were abandoned

auther == <<owner, live, exchanged>>
clocks == <<nearExpiry, expired>>
data   == <<tables, vaults>>
losses == <<orphans, lost>>
vars   == <<auther, clocks, session, data, proc, losses>>

Auther == INSTANCE TokenStore

Session == [token : Tokens, user : Users]

(* `user` is the id read when the command began, `token` the one in use, `new`
   the one in the auther's answer, `load` whose data the call carries. *)
Command ==
  [pc : {"idle", "loggingIn", "refreshing", "answered", "authorising", "sending", "received",
         "sealing"},
   call : {"login", "sync", "getCrypto", "putCrypto"},
   user : Users \cup {NoUser}, token : Tokens \cup {NoToken}, new : Tokens \cup {NoToken},
   load : SUBSET Users]

Idle == [pc |-> "idle", call |-> "login", user |-> NoUser, token |-> NoToken, new |-> NoToken,
         load |-> {}]

TypeOK ==
  /\ owner \in [Auther!Issued -> Users] /\ Auther!Issued \subseteq Tokens
  /\ live \subseteq Auther!Issued
  /\ exchanged \subseteq Auther!Issued \X Auther!Issued
  /\ nearExpiry \subseteq Auther!Issued /\ expired \subseteq nearExpiry
  /\ session \in [Devices -> Session \cup {NoSession}]
  /\ \A d \in Devices : session[d] # NoSession => session[d].token \in Auther!Issued
  /\ tables \in [Devices -> [Users -> SUBSET Users]]
  /\ vaults \in [Users -> SUBSET Users]
  /\ proc \in [Procs -> Command]
  /\ orphans \subseteq Command
  /\ lost \in 0..MaxLost

Init ==
  /\ Auther!Init
  /\ nearExpiry = {} /\ expired = {}
  /\ session = [d \in Devices |-> NoSession]
  /\ tables = [d \in Devices |-> [u \in Users |-> {}]]
  /\ vaults = [u \in Users |-> {}]
  /\ proc = [p \in Procs |-> Idle]
  /\ orphans = {} /\ lost = 0

------------------------------------------------------------------------------
(* Time. *)

NearExpiry(t) ==
  /\ t \in Auther!Issued
  /\ PromptSaves => \A p \in Procs : proc[p].new # t
  /\ nearExpiry' = nearExpiry \cup {t}
  /\ UNCHANGED <<auther, expired, session, data, proc, losses>>

Expire(t) ==
  /\ t \in nearExpiry
  /\ expired' = expired \cup {t}
  /\ UNCHANGED <<auther, nearExpiry, session, data, proc, losses>>

------------------------------------------------------------------------------
(* Commands up to their calls. *)

StartLogin(p, u) ==
  /\ proc[p].pc = "idle"
  /\ proc' = [proc EXCEPT ![p] = [Idle EXCEPT !.pc = "loggingIn", !.user = u]]
  /\ UNCHANGED <<auther, clocks, session, data, losses>>

Logout(p) ==
  /\ proc[p].pc = "idle"
  /\ session' = [session EXCEPT ![Home[p]] = NoSession]
  /\ UNCHANGED <<auther, clocks, data, proc, losses>>

(* A sync reads the dirty rows of the session's user; the other commands fetch
   that user's vault crypto first. *)
Begin(p, call) ==
  LET s == session[Home[p]] IN
  /\ proc[p].pc = "idle"
  /\ s # NoSession
  /\ proc' = [proc EXCEPT ![p] =
       [Idle EXCEPT !.pc = "authorising", !.call = call, !.user = s.user,
                    !.load = IF call = "sync" THEN tables[Home[p]][s.user] ELSE {}]]
  /\ UNCHANGED <<auther, clocks, session, data, losses>>

(* GetValidToken up to the exchange: it reads the session again. *)
Authorise(p) ==
  LET s == session[Home[p]] IN
  /\ proc[p].pc = "authorising"
  /\ proc' = [proc EXCEPT ![p] =
       IF s = NoSession THEN Idle
       ELSE IF s.token \notin nearExpiry THEN [@ EXCEPT !.pc = "sending", !.token = s.token]
       ELSE IF s.token \in expired THEN Idle
       ELSE [@ EXCEPT !.pc = "refreshing", !.token = s.token]]
  /\ UNCHANGED <<auther, clocks, session, data, losses>>

------------------------------------------------------------------------------
(* The servers' side of a call c, n being the token in the answer. *)

ServeLogin(c, n) ==
  /\ c.pc = "loggingIn"
  /\ Auther!Login(c.user, n)
  /\ UNCHANGED vaults

ServeExchange(c, n) ==
  /\ c.pc = "refreshing"
  /\ c.token \notin expired
  /\ Auther!Exchange(c.token, n)
  /\ UNCHANGED vaults

(* An expired token is refused, and revokes the others of its user. *)
RefuseExchange(c) ==
  /\ c.pc = "refreshing"
  /\ \/ /\ c.token \notin live
        /\ UNCHANGED auther
     \/ /\ c.token \in live \cap expired
        /\ Auther!Revoke(owner[c.token])
  /\ UNCHANGED vaults

(* The account is the one of the token. *)
Account(c) == owner[c.token]

ServeVault(c) ==
  /\ c.pc = "sending"
  /\ vaults' = [vaults EXCEPT ![Account(c)] = @ \cup c.load]
  /\ UNCHANGED auther

------------------------------------------------------------------------------
(* The same side by side with the process that waits for the answer. *)

AnswerLogin(p, n) ==
  /\ ServeLogin(proc[p], n)
  /\ proc' = [proc EXCEPT ![p].pc = "answered", ![p].new = n]
  /\ UNCHANGED <<clocks, session, tables, losses>>

(* singleflight: calls that present the token to one auther process at the
   same time all get the answer of the one that runs. *)
AnswerExchange(p, n) ==
  /\ ServeExchange(proc[p], n)
  /\ \E sharing \in SUBSET {q \in Procs : proc[q].pc = "refreshing"
                                         /\ proc[q].token = proc[p].token} :
       /\ p \in sharing
       /\ proc' = [q \in Procs |->
            IF q \in sharing THEN [proc[q] EXCEPT !.pc = "answered", !.new = n] ELSE proc[q]]
  /\ UNCHANGED <<clocks, session, tables, losses>>

Refuse(p) ==
  /\ RefuseExchange(proc[p])
  /\ proc' = [proc EXCEPT ![p] = Idle]
  /\ UNCHANGED <<clocks, session, tables, losses>>

AnswerVault(p) ==
  /\ ServeVault(proc[p])
  /\ proc' = [proc EXCEPT ![p].pc = "received", ![p].load = vaults'[Account(proc[p])]]
  /\ UNCHANGED <<clocks, session, tables, losses>>

(* Mutants of Saved: a refreshed session is saved without its user; it is not
   saved at all. *)
SavedWithoutUser(p) ==
  [token |-> proc[p].new,
   user |-> IF proc[p].call = "login" THEN owner[proc[p].new] ELSE NoUser]
SavedLoginsOnly(p) ==
  IF proc[p].call = "login"
    THEN [token |-> proc[p].new, user |-> owner[proc[p].new]]
    ELSE session[Home[p]]

(* The row that SaveSession writes; the user id is in the access token. *)
Saved(p) == [token |-> proc[p].new, user |-> owner[proc[p].new]]

(* SaveSession, whatever the session has become meanwhile. *)
SaveSession(p) ==
  /\ proc[p].pc = "answered"
  /\ session' = [session EXCEPT ![Home[p]] = Saved(p)]
  /\ proc' = [proc EXCEPT ![p] =
       IF proc[p].call = "login" THEN Idle
       ELSE [@ EXCEPT !.pc = "sending", !.token = proc[p].new, !.new = NoToken]]
  /\ UNCHANGED <<auther, clocks, data, losses>>

(* The answer of the skeeper is kept under the user id read at the beginning
   (PersistSyncResult, ReplaceLocalVaultCrypto). *)
Persist(p) ==
  LET u == proc[p].user IN
  /\ proc[p].pc = "received"
  /\ tables' = IF proc[p].call = "putCrypto" THEN tables
               ELSE [tables EXCEPT ![Home[p]][u] = @ \cup proc[p].load]
  /\ proc' = [proc EXCEPT ![p] =
       IF proc[p].call = "getCrypto"
         THEN [Idle EXCEPT !.pc = "sealing", !.call = "putCrypto", !.user = u]
         ELSE Idle]
  /\ UNCHANGED <<auther, clocks, session, vaults, losses>>

(* The entry is saved under that user id too.  A command that adds one then
   publishes the vault crypto, unless it gets no session any more. *)
SaveEntry(p, adds) ==
  LET u == proc[p].user IN
  /\ proc[p].pc = "sealing"
  /\ tables' = [tables EXCEPT ![Home[p]][u] = @ \cup {u}]
  /\ proc' = [proc EXCEPT ![p] =
       IF adds /\ session[Home[p]] # NoSession
         THEN [@ EXCEPT !.pc = "authorising", !.load = tables[Home[p]][u] \cup {u}]
         ELSE Idle]
  /\ UNCHANGED <<auther, clocks, session, vaults, losses>>

------------------------------------------------------------------------------
(* Failure. *)

(* The command ends at once - it is interrupted, dies, or a call or statement
   fails; a call on its way may still reach its server. *)
Abandon(p) ==
  /\ proc[p].pc # "idle"
  /\ lost < MaxLost
  /\ lost' = lost + 1
  /\ orphans' = IF proc[p].pc \in {"loggingIn", "refreshing", "sending"}
                  THEN orphans \cup {proc[p]} ELSE orphans
  /\ proc' = [proc EXCEPT ![p] = Idle]
  /\ UNCHANGED <<auther, clocks, session, data>>

ServeOrphan(c) ==
  /\ \/ \E n \in Tokens : ServeLogin(c, n) \/ ServeExchange(c, n)
     \/ RefuseExchange(c)
     \/ ServeVault(c)
  /\ orphans' = orphans \ {c}
  /\ UNCHANGED <<clocks, session, tables, proc, lost>>

------------------------------------------------------------------------------
Next ==
  \/ \E t \in Tokens : NearExpiry(t) \/ Expire(t)
  \/ \E p \in Procs :
       \/ \E u \in Users : StartLogin(p, u)
       \/ \E call \in {"sync", "getCrypto"} : Begin(p, call)
       \/ \E n \in Tokens : AnswerLogin(p, n) \/ AnswerExchange(p, n)
       \/ Logout(p) \/ Authorise(p) \/ Refuse(p) \/ SaveSession(p)
       \/ AnswerVault(p) \/ Persist(p) \/ Abandon(p)
       \/ \E adds \in BOOLEAN : SaveEntry(p, adds)
  \/ \E c \in orphans : ServeOrphan(c)

Spec == Init /\ [][Next]_vars

------------------------------------------------------------------------------
(* Properties. *)

(* Data of one user never reaches the rows or the account of another: the user
   id a command read when it began and the token its calls carry name the same
   user (VaultRemote works "for the logged-in user", secret.go:57). *)
AccountsSeparate ==
  /\ \A d \in Devices, u \in Users : tables[d][u] \subseteq {u}
  /\ \A u \in Users : vaults[u] \subseteq {u}

(* auth.go:125, "Logout clears the local session": only a login makes a session
   again or changes its user.  No refresh that is under way when a process logs
   out, or another user in, may bring the old session back; auth.go:116 saves
   the refreshed one without a look at what the row holds by then. *)
OnlyLoginsLogIn ==
  [][\A d \in Devices :
       session'[d] # NoSession =>
         \/ session[d] # NoSession /\ session'[d].user = session[d].user
         \/ \E p \in Procs : Home[p] = d /\ proc[p].pc = "answered" /\ proc[p].call = "login"]_vars

(* Logins of u: its tokens that no exchange has made. *)
Logins(u) == {t \in Auther!TokensOf(u) : \A x \in exchanged : x[2] # t}

(* Refreshing never logs a device out, however many of its processes refresh
   the one token at the same time: unless an answer was lost, the token has
   expired, or its user has logged in again, the session that GetValidToken
   leaves behind is one the auther accepts.  It takes PromptSaves: a process
   held up that long would put back a token others have exchanged since. *)
RefreshKeepsSession ==
  \A d \in Devices :
    LET s == session[d] IN
    /\ s # NoSession
    /\ lost = 0
    /\ Cardinality(Logins(s.user)) = 1
    /\ Auther!TokensOf(s.user) \cap expired = {}
    /\ \A p \in Procs : Home[p] = d => proc[p].pc # "answered"
    => s.token \in live

------------------------------------------------------------------------------
(* The inductive invariants. *)

\* No two of the processes run on one device.
OneProcess == \A p, q \in Procs : Home[p] = Home[q] => p = q

\* A command has what its next step uses.
Equipped(c) ==
  /\ c.pc # "idle" => c.user \in Users
  /\ c.pc \in {"refreshing", "sending", "received"} => c.token \in Auther!Issued
  /\ c.pc = "answered" => c.new \in Auther!Issued

TypeInv ==
  /\ TypeOK
  /\ \A p \in Procs : Equipped(proc[p])
  /\ \A c \in orphans : Equipped(c)

\* What a command carries, and the tokens it uses, are of the user it began with.
OwnUser(c) ==
  /\ c.load \subseteq {c.user}
  /\ c.pc \notin {"idle", "loggingIn", "answered"} => c.call # "login"
  /\ c.pc \in {"refreshing", "sending", "received"} => owner[c.token] = c.user
  /\ c.pc = "answered" => owner[c.new] = c.user

\* The session is still the one p began with.
SameSession(p) ==
  LET s == session[Home[p]] IN
  proc[p].pc # "idle" /\ proc[p].call # "login" => s # NoSession /\ s.user = proc[p].user

AccountsInv ==
  /\ TypeInv
  /\ AccountsSeparate
  /\ \A d \in Devices : session[d] # NoSession => owner[session[d].token] = session[d].user
  /\ \A p \in Procs : OwnUser(proc[p]) /\ SameSession(p)
  /\ \A c \in orphans : OwnUser(c)

\* p has a token of u that it is exchanging or has yet to save.
Carries(p, u) ==
  \/ proc[p].pc = "refreshing" /\ owner[proc[p].token] = u
  \/ proc[p].pc = "answered" /\ owner[proc[p].new] = u

\* The device d has a token of u, in its session or in one of its processes.
Holds(d, u) ==
  \/ session[d] # NoSession /\ session[d].user = u
  \/ \E p \in Procs : Home[p] = d /\ Carries(p, u)

\* Nothing has happened that may end a session of u: see RefreshKeepsSession.
Undisturbed(u) ==
  /\ lost = 0
  /\ \A s, t \in Logins(u) : s = t
  /\ Auther!TokensOf(u) \cap expired = {}

\* One device has the tokens of u; an answer it has yet to save is live, and so is
\* its session's token unless such an answer is on its way.
Kept(u) ==
  /\ \A d, e \in Devices : Holds(d, u) /\ Holds(e, u) => d = e
  /\ \A p \in Procs : proc[p].pc = "answered" /\ owner[proc[p].new] = u => proc[p].new \in live
  /\ \A d \in Devices :
       session[d] # NoSession /\ session[d].user = u =>
         \/ session[d].token \in live
         \/ \E p \in Procs : Home[p] = d /\ proc[p].pc = "answered"

RefreshInv ==
  /\ TypeInv
  /\ IsFiniteSet(Auther!Issued)
  /\ lost = 0 => orphans = {}
  /\ \A d \in Devices : session[d] # NoSession => owner[session[d].token] = session[d].user
  /\ \A u \in Users : Logins(u) = {} => Auther!TokensOf(u) = {}
  /\ \A p \in Procs : /\ proc[p].pc = "refreshing" => proc[p].token \in nearExpiry
                      /\ proc[p].pc = "answered" => proc[p].new \notin nearExpiry
  /\ \A u \in Users : Undisturbed(u) => Kept(u)
==============================================================================
