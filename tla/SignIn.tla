-------------------------------- MODULE SignIn --------------------------------
(***************************************************************************)
(* Registering, logging in and calling the skeeper from one device: the    *)
(* accounts of the auther, the key file that guards the stored session,    *)
(* and the clocks of the three machines.  Requests and answers get lost,   *)
(* processes die, and time passes anywhere in between.                     *)
(*                                                                         *)
(* What the auther keeps of refresh tokens is in RefreshTokens, and what   *)
(* logouts and several users on one device do is in ClientSession.         *)
(***************************************************************************)
EXTENDS Accounts, AccessTokens, SessionKeyFile

CONSTANT NoSession

ASSUME SessionAssumption == NoSession \notin TokenPair \cup [pair : TokenPair, key : Procs]

VARIABLES
  session,    \* the session row: a token pair and the key it is encrypted under
  cmd         \* cmd[p]: the command p runs

vars == <<users, now, skew, file, opening, key, session, cmd>>

(* `email` and `password` were typed, `pair` is the token pair in hand, `since`
   the instant GetValidToken read the session. *)
Command ==
  [step : {"none", "registered", "answered", "denied", "refreshing", "refreshed", "calling",
           "served", "refused", "failed"},
   email : Spellings \cup {Invalid}, password : Passwords \cup {Invalid},
   pair : TokenPair \cup {NoSession}, since : Nat]

NoCommand == [step |-> "none", email |-> Invalid, password |-> Invalid, pair |-> NoSession, since |-> 0]

TypeOK ==
  /\ users \subseteq User
  /\ now \in 0..MaxTime /\ skew \in Skews
  /\ KeyTypeOK
  /\ session \in [pair : TokenPair, key : Procs] \cup {NoSession}
  /\ cmd \in [Procs -> Command]

Init ==
  /\ UsersInit /\ ClocksInit /\ KeyInit
  /\ session = NoSession
  /\ cmd = [p \in Procs |-> NoCommand]

OpenKeyFile(p) ==
  /\ ReadFile(p) \/ ReadError(p) \/ TruncateFile(p) \/ WriteKey(p)
  /\ UNCHANGED <<users, now, skew, session, cmd>>

Pass == Tick /\ UNCHANGED <<users, keyVars, session, cmd>>

------------------------------------------------------------------------------
(* The auther. *)

(* Register: the account is created, and the answer may be lost. *)
CreateUser(p, s, w) ==
  /\ opening[p] = "open" /\ cmd[p].step = "none"
  /\ IF Registers(s, w)
       THEN /\ InsertUser(s, w)
            /\ \E step \in {"registered", "failed"} :
                 cmd' = [cmd EXCEPT ![p] =
                           [NoCommand EXCEPT !.step = step, !.email = s, !.password = w]]
       ELSE users' = users /\ cmd' = [cmd EXCEPT ![p].step = "failed"]
  /\ UNCHANGED <<now, skew, keyVars, session>>

(* Login, with what was typed or with what was just registered. *)
LoginUser(p, s, w) ==
  /\ opening[p] = "open"
  /\ \/ cmd[p].step = "none"
     \/ cmd[p].step = "registered" /\ cmd[p].email = s /\ cmd[p].password = w
  /\ cmd' = [cmd EXCEPT ![p] =
       IF LogsIn(s, w)
         THEN [NoCommand EXCEPT !.step = "answered", !.email = s, !.password = w, !.pair = NewTokenPair]
         ELSE [NoCommand EXCEPT !.step = "denied", !.email = s, !.password = w]]
  /\ UNCHANGED <<users, now, skew, keyVars, session>>

ExchangeToken(p) ==
  /\ cmd[p].step = "refreshing"
  /\ cmd' = [cmd EXCEPT ![p] = IF Exchanges(@.pair)
                                 THEN [@ EXCEPT !.step = "refreshed", !.pair = NewTokenPair]
                                 ELSE [NoCommand EXCEPT !.step = "failed"]]
  /\ UNCHANGED <<users, now, skew, keyVars, session>>

------------------------------------------------------------------------------
(* The device. *)

(* After a login the command ends; after a refresh the call goes on. *)
SaveSession(p) ==
  /\ cmd[p].step \in {"answered", "refreshed"}
  /\ session' = [pair |-> cmd[p].pair, key |-> key[p]]
  /\ cmd' = [cmd EXCEPT ![p] = IF @.step = "answered" THEN NoCommand
                                                      ELSE [@ EXCEPT !.step = "calling"]]
  /\ UNCHANGED <<users, now, skew, keyVars>>

(* The session is missing, does not decrypt, or its refresh token has expired. *)
Unusable(p) ==
  \/ session = NoSession
  \/ session.key # key[p]
  \/ NearExpiry(session.pair) /\ RefreshExpired(session.pair)

GetValidToken(p) ==
  /\ opening[p] = "open" /\ cmd[p].step = "none"
  /\ cmd' = [cmd EXCEPT ![p] =
       IF Unusable(p) THEN [NoCommand EXCEPT !.step = "failed"]
       ELSE [NoCommand EXCEPT !.step = IF NearExpiry(session.pair) THEN "refreshing" ELSE "calling",
                              !.pair = session.pair, !.since = now]]
  /\ UNCHANGED <<users, now, skew, keyVars, session>>

(* authorize, in the skeeper. *)
Authorize(p) ==
  /\ cmd[p].step = "calling"
  /\ cmd' = [cmd EXCEPT ![p].step = IF ValidateToken(cmd[p].pair) THEN "served" ELSE "refused"]
  /\ UNCHANGED <<users, now, skew, keyVars, session>>

(* The command has ended, an answer is lost, or the process dies. *)
End(p) ==
  /\ Close(p)
  /\ cmd' = [cmd EXCEPT ![p] = NoCommand]
  /\ UNCHANGED <<users, now, skew, session>>

Next ==
  \/ Pass
  \/ \E p \in Procs :
       \/ OpenKeyFile(p)
       \/ \E s \in Spellings, w \in Passwords : CreateUser(p, s, w) \/ LoginUser(p, s, w)
       \/ ExchangeToken(p) \/ SaveSession(p) \/ GetValidToken(p) \/ Authorize(p) \/ End(p)

Spec == Init /\ [][Next]_vars

------------------------------------------------------------------------------
(***************************************************************************)
(* Two spellings of one address never make two accounts, whoever registers *)
(* at the same time.                                                       *)
(***************************************************************************)
OneAccountPerMailbox ==
  \A a, b \in users : Mailbox(a.email) = Mailbox(b.email) => a = b

(***************************************************************************)
(* Tokens go to those who know the password the account was registered     *)
(* with, and not to those who know its first 72 bytes.                     *)
(***************************************************************************)
OnlyItsPassword ==
  \A p \in Procs : cmd[p].step = "answered" =>
    \E user \in users : /\ Mailbox(user.email) = Normal[cmd[p].email]
                        /\ user.password = cmd[p].password

(***************************************************************************)
(* Whoever has an account can log in to it under any spelling of the       *)
(* address: also when the answer to the registration was lost, and when    *)
(* the password would no longer be accepted for a registration.            *)
(***************************************************************************)
Denied(p) == cmd[p].step # "denied" /\ cmd'[p].step = "denied"

RegisteredCanLogIn ==
  [][\A p \in Procs : Denied(p) =>
       \A user \in users : Mailbox(user.email) = Normal[cmd'[p].email]
                           => user.password # cmd'[p].password]_vars

(***************************************************************************)
(* The session on disk opens under the key on disk - a session that does   *)
(* not is lost.  A process that cannot read the key file, for whatever     *)
(* reason but that there is none, must not make a new key.  (Of two first  *)
(* runs at a time the code does not keep it: FirstRunAlone.)               *)
(***************************************************************************)
SessionReadable == session # NoSession => session.key = file

(***************************************************************************)
(* GetValidToken returns tokens the skeeper accepts.  The minute it leaves *)
(* pays for the time the call is under way, for the clock of the skeeper   *)
(* being ahead of the device's, and for the fraction of a second the claim *)
(* was rounded down.  Nothing pays for a skeeper whose clock is behind the *)
(* auther's: it refuses a fresh token as issued in the future.             *)
(***************************************************************************)
Refused(p) == cmd[p].step = "calling" /\ cmd'[p].step = "refused"

InTime(p) ==
  LET arrival == (now - cmd[p].since) + skew["skeeper"] + Second IN
  /\ arrival <= skew["device"] + Margin
  /\ arrival <= skew["auther"] + Lifetime
  /\ skew["auther"] <= skew["skeeper"]

TokenAccepted == [][\A p \in Procs : Refused(p) => ~InTime(p)]_vars

------------------------------------------------------------------------------
(***************************************************************************)
(* Inductive invariant.                                                    *)
(***************************************************************************)
(* A process that has opened the key file goes on with the key in it; one
   that creates it is alone, and nothing has been encrypted yet. *)
KeyFileInv ==
  /\ \A p \in Procs :
       /\ opening[p] = "open" => file \in Procs /\ key[p] = file
       /\ opening[p] = "missing" => file = NoFile
       /\ opening[p] = "writing" => file = Empty /\ key[p] \in Procs
       /\ opening[p] \in {"missing", "writing"} => \A q \in Procs \ {p} : opening[q] = "closed"
  /\ session # NoSession => session.key = file /\ file \in Procs

(* A command has a key to encrypt with, and a token pair once it has got one. *)
ReadyToRun ==
  \A p \in Procs :
    /\ cmd[p].step # "none" => opening[p] = "open"
    /\ opening[p] \in {"writing", "open"} => key[p] \in Procs
    /\ cmd[p].step \in {"answered", "refreshing", "refreshed", "calling"} =>
         cmd[p].pair # NoSession

Minted(pair) == pair.exp + Second > pair.expires /\ pair.iat <= Clock("auther")

(* A call goes out with a token that was far from its expiry when the session
   was read, or that was minted since. *)
TokensInv ==
  /\ session # NoSession => Minted(session.pair)
  /\ \A p \in Procs :
       /\ cmd[p].pair # NoSession => Minted(cmd[p].pair)
       /\ cmd[p].since <= now
       /\ cmd[p].step = "refreshed" =>
            cmd[p].pair.expires >= cmd[p].since + skew["auther"] + Lifetime
       /\ cmd[p].step = "calling" =>
            \/ cmd[p].pair.expires > cmd[p].since + skew["device"] + Margin
            \/ cmd[p].pair.expires >= cmd[p].since + skew["auther"] + Lifetime

SignInInv ==
  /\ TypeOK
  /\ Proper(users)
  /\ OnlyItsPassword
  /\ ReadyToRun
  /\ FirstRunAlone => KeyFileInv
  /\ TokensInv
==============================================================================
