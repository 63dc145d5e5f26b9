----------------------------- MODULE SignInProofs -----------------------------
(***************************************************************************)
(* Theorems about SignIn, for every set of processes, addresses and        *)
(* passwords and for clocks that are any distance apart.                   *)
(*                                                                         *)
(* Accounts, key file and tokens are three arguments that meet in one      *)
(* invariant, SignInInv: each of them has a lemma of its own.              *)
(***************************************************************************)
EXTENDS SignIn, TLAPS

(* Token pairs have the fields of the abstract pair, and a clock's value. *)
LEMMA MintedPair ==
  ASSUME TypeOK
  PROVE  /\ NewTokenPair \in TokenPair
         /\ Minted(NewTokenPair)
         /\ NewTokenPair.expires = now + skew["auther"] + Lifetime
<1>1. now \in Nat /\ skew["auther"] \in Nat /\ Lifetime \in Nat /\ RefreshLifetime \in Nat
      /\ Second \in Nat \ {0}
  BY TimeAssumption DEF TypeOK, Machines
<1>2. ASSUME NEW t \in Nat PROVE NumericDate(t) \in Nat /\ NumericDate(t) <= t /\ NumericDate(t) + Second > t
  <2>1. t % Second \in 0..(Second - 1)
    BY <1>1
  <2>2. t % Second <= t
    BY <1>1
  <2>3. QED
    BY <1>1, <2>1, <2>2 DEF NumericDate
<1>3. Clock("auther") \in Nat /\ Clock("auther") = now + skew["auther"]
  BY <1>1 DEF Clock
<1>4. QED
  BY <1>1, <1>2, <1>3 DEF NewTokenPair, TokenPair, Minted

LEMMA TypeInit == Init => TypeOK
  BY LegacyAssumption, TimeAssumption, KeyAssumption, SessionAssumption
     DEF Init, UsersInit, ClocksInit, KeyInit, TypeOK, KeyTypeOK, NoCommand, Command, Proper

(***************************************************************************)
(* What the actions make of the command they are about.                    *)
(***************************************************************************)
Changed(p, c) == c \in Command /\ cmd' = [cmd EXCEPT ![p] = c]

LEMMA NewCommand ==
  ASSUME NEW step \in {"none", "registered", "answered", "denied", "refreshing", "refreshed",
                       "calling", "served", "refused", "failed"},
         NEW s \in Spellings \cup {Invalid}, NEW w \in Passwords \cup {Invalid},
         NEW pair \in TokenPair \cup {NoSession}, NEW t \in Nat
  PROVE  /\ [NoCommand EXCEPT !.step = step] \in Command
         /\ [NoCommand EXCEPT !.step = step, !.email = s, !.password = w] \in Command
         /\ [NoCommand EXCEPT !.step = step, !.email = s, !.password = w, !.pair = pair] \in Command
         /\ [NoCommand EXCEPT !.step = step, !.pair = pair, !.since = t] \in Command
  BY DEF NoCommand, Command

LEMMA CreateEffect ==
  ASSUME TypeOK, NEW p \in Procs, NEW s \in Spellings, NEW w \in Passwords, CreateUser(p, s, w)
  PROVE  \E c \in Command :
           /\ Changed(p, c) /\ c.step \in {"registered", "failed"}
           /\ c.pair \in {NoSession, cmd[p].pair} /\ c.since \in {0, cmd[p].since}
<1>1. cmd \in [Procs -> Command]
  BY DEF TypeOK
<1>2. CASE Registers(s, w)
  <2>1. PICK step \in {"registered", "failed"} :
          cmd' = [cmd EXCEPT ![p] = [NoCommand EXCEPT !.step = step, !.email = s, !.password = w]]
    BY <1>2 DEF CreateUser
  <2> DEFINE c == [NoCommand EXCEPT !.step = step, !.email = s, !.password = w]
  <2>2. c \in Command
    BY NewCommand
  <2>3. c.step = step /\ c.pair = NoSession /\ c.since = 0
    BY DEF NoCommand
  <2>4. QED
    BY <2>1, <2>2, <2>3 DEF Changed
<1>3. CASE ~Registers(s, w)
  <2> DEFINE c == [cmd[p] EXCEPT !.step = "failed"]
  <2>1. cmd' = [cmd EXCEPT ![p] = c]
    BY <1>3 DEF CreateUser
  <2>2. c \in Command /\ c.step = "failed" /\ c.pair = cmd[p].pair /\ c.since = cmd[p].since
    BY <1>1 DEF Command
  <2>3. QED
    BY <2>1, <2>2 DEF Changed
<1>4. QED
  BY <1>2, <1>3

LEMMA LoginEffect ==
  ASSUME TypeOK, NEW p \in Procs, NEW s \in Spellings, NEW w \in Passwords, LoginUser(p, s, w)
  PROVE  \E c \in Command :
           /\ Changed(p, c) /\ c.email = s /\ c.password = w /\ c.since = 0
           /\ \/ c.step = "answered" /\ LogsIn(s, w) /\ c.pair = NewTokenPair
              \/ c.step = "denied" /\ ~LogsIn(s, w) /\ c.pair = NoSession
<1>1. CASE LogsIn(s, w)
  <2> DEFINE c == [NoCommand EXCEPT !.step = "answered", !.email = s, !.password = w,
                                    !.pair = NewTokenPair]
  <2>1. cmd' = [cmd EXCEPT ![p] = c]
    BY <1>1 DEF LoginUser
  <2>2. c \in Command
    BY MintedPair, NewCommand
  <2>3. /\ c.step = "answered" /\ c.email = s /\ c.password = w /\ c.since = 0
        /\ c.pair = NewTokenPair
    BY DEF NoCommand
  <2>4. QED
    BY <1>1, <2>1, <2>2, <2>3 DEF Changed
<1>2. CASE ~LogsIn(s, w)
  <2> DEFINE c == [NoCommand EXCEPT !.step = "denied", !.email = s, !.password = w]
  <2>1. cmd' = [cmd EXCEPT ![p] = c]
    BY <1>2 DEF LoginUser
  <2>2. c \in Command
    BY NewCommand
  <2>3. /\ c.step = "denied" /\ c.email = s /\ c.password = w /\ c.since = 0
        /\ c.pair = NoSession
    BY DEF NoCommand
  <2>4. QED
    BY <1>2, <2>1, <2>2, <2>3 DEF Changed
<1>3. QED
  BY <1>1, <1>2

LEMMA ExchangeEffect ==
  ASSUME TypeOK, NEW p \in Procs, ExchangeToken(p)
  PROVE  \E c \in Command :
           /\ Changed(p, c)
           /\ \/ c.step = "refreshed" /\ c.pair = NewTokenPair /\ c.since = cmd[p].since
              \/ c.step = "failed" /\ c.pair = NoSession /\ c.since = 0
<1>1. cmd[p] \in Command
  BY DEF TypeOK
<1>2. CASE Exchanges(cmd[p].pair)
  <2> DEFINE c == [cmd[p] EXCEPT !.step = "refreshed", !.pair = NewTokenPair]
  <2>1. cmd' = [cmd EXCEPT ![p] = c]
    BY <1>2 DEF ExchangeToken
  <2>2. /\ c \in Command /\ c.step = "refreshed" /\ c.pair = NewTokenPair
        /\ c.since = cmd[p].since
    BY <1>1, MintedPair DEF Command
  <2>3. QED
    BY <2>1, <2>2 DEF Changed
<1>3. CASE ~Exchanges(cmd[p].pair)
  <2> DEFINE c == [NoCommand EXCEPT !.step = "failed"]
  <2>1. cmd' = [cmd EXCEPT ![p] = c]
    BY <1>3 DEF ExchangeToken
  <2>2. c \in Command
    BY NewCommand, SpellingAssumption DEF NoCommand
  <2>3. c.step = "failed" /\ c.pair = NoSession /\ c.since = 0
    BY DEF NoCommand
  <2>4. QED
    BY <2>1, <2>2, <2>3 DEF Changed
<1>4. QED
  BY <1>2, <1>3

LEMMA SaveEffect ==
  ASSUME TypeOK, NEW p \in Procs, SaveSession(p)
  PROVE  \E c \in Command :
           /\ Changed(p, c)
           /\ \/ c = NoCommand
              \/ /\ cmd[p].step = "refreshed" /\ c.step = "calling"
                 /\ c.pair = cmd[p].pair /\ c.since = cmd[p].since
<1>1. cmd[p] \in Command
  BY DEF TypeOK
<1>2. CASE cmd[p].step = "answered"
  <2>1. cmd' = [cmd EXCEPT ![p] = NoCommand]
    BY <1>2 DEF SaveSession
  <2>2. NoCommand \in Command
    BY DEF NoCommand, Command
  <2>3. QED
    BY <2>1, <2>2 DEF Changed
<1>3. CASE cmd[p].step = "refreshed"
  <2> DEFINE c == [cmd[p] EXCEPT !.step = "calling"]
  <2>1. cmd' = [cmd EXCEPT ![p] = c]
    BY <1>3 DEF SaveSession
  <2>2. /\ c \in Command /\ c.step = "calling" /\ c.pair = cmd[p].pair
        /\ c.since = cmd[p].since
    BY <1>1 DEF Command
  <2>3. QED
    BY <1>3, <2>1, <2>2 DEF Changed
<1>4. QED
  BY <1>2, <1>3 DEF SaveSession

LEMMA GetEffect ==
  ASSUME TypeOK, NEW p \in Procs, GetValidToken(p)
  PROVE  \E c \in Command :
           /\ Changed(p, c)
           /\ \/ c.step = "failed" /\ c.pair = NoSession /\ c.since = 0
              \/ /\ session # NoSession /\ c.pair = session.pair /\ c.since = now
                 /\ IF NearExpiry(session.pair) THEN c.step = "refreshing" ELSE c.step = "calling"
<1>1. CASE Unusable(p)
  <2> DEFINE c == [NoCommand EXCEPT !.step = "failed"]
  <2>1. cmd' = [cmd EXCEPT ![p] = c]
    BY <1>1 DEF GetValidToken
  <2>2. c \in Command
    BY NewCommand DEF NoCommand
  <2>3. c.step = "failed" /\ c.pair = NoSession /\ c.since = 0
    BY DEF NoCommand
  <2>4. QED
    BY <2>1, <2>2, <2>3 DEF Changed
<1>2. CASE ~Unusable(p)
  <2> DEFINE step == IF NearExpiry(session.pair) THEN "refreshing" ELSE "calling"
             c == [NoCommand EXCEPT !.step = step, !.pair = session.pair, !.since = now]
  <2>1. cmd' = [cmd EXCEPT ![p] = c]
    BY <1>2 DEF GetValidToken
  <2>2. session # NoSession
    BY <1>2 DEF Unusable
  <2>3. session.pair \in TokenPair /\ now \in Nat
    BY <2>2, TimeAssumption DEF TypeOK
  <2>4. step \in {"refreshing", "calling"} /\ (NearExpiry(session.pair) <=> step = "refreshing")
    OBVIOUS
  <2> HIDE DEF step
  <2>5. c \in Command
    BY <2>3, <2>4, NewCommand
  <2>6. c.step = step /\ c.pair = session.pair /\ c.since = now
    BY DEF NoCommand
  <2> HIDE DEF c
  <2>7. QED
    BY <2>1, <2>2, <2>4, <2>5, <2>6 DEF Changed
<1>3. QED
  BY <1>1, <1>2

LEMMA AuthorizeEffect ==
  ASSUME TypeOK, NEW p \in Procs, Authorize(p)
  PROVE  \E c \in Command :
           /\ Changed(p, c) /\ c.pair = cmd[p].pair /\ c.since = cmd[p].since
           /\ IF ValidateToken(cmd[p].pair) THEN c.step = "served" ELSE c.step = "refused"
<1> DEFINE step == IF ValidateToken(cmd[p].pair) THEN "served" ELSE "refused"
           c == [cmd[p] EXCEPT !.step = step]
<1>1. cmd' = [cmd EXCEPT ![p] = c]
  BY DEF Authorize
<1>2. /\ step \in {"served", "refused"}
      /\ IF ValidateToken(cmd[p].pair) THEN step = "served" ELSE step = "refused"
  OBVIOUS
<1> HIDE DEF step
<1>3. c \in Command /\ c.step = step /\ c.pair = cmd[p].pair /\ c.since = cmd[p].since
  BY <1>2 DEF TypeOK, Command
<1> HIDE DEF c
<1>4. QED
  BY <1>1, <1>2, <1>3 DEF Changed

LEMMA ChangedType ==
  ASSUME TypeOK, NEW p \in Procs, NEW c \in Command, Changed(p, c)
  PROVE  /\ cmd' \in [Procs -> Command] /\ cmd'[p] = c
         /\ \A q \in Procs \ {p} : cmd'[q] = cmd[q]
  BY DEF TypeOK, Changed

LEMMA ReadyInit == Init => ReadyToRun
  BY DEF Init, KeyInit, ReadyToRun, NoCommand

LEMMA TypeStep ==
  ASSUME TypeOK, ReadyToRun, [Next]_vars
  PROVE  TypeOK' /\ ReadyToRun'
<1>1. CASE UNCHANGED vars
  BY <1>1 DEF vars, TypeOK, KeyTypeOK, ReadyToRun
<1>2. CASE Pass
  BY <1>2, TimeAssumption DEF Pass, Tick, keyVars, TypeOK, KeyTypeOK, ReadyToRun
<1>3. ASSUME NEW p \in Procs, OpenKeyFile(p) PROVE TypeOK' /\ ReadyToRun'
  <2>1. CASE ReadFile(p)
    <3>1. KeyTypeOK'
      BY <2>1 DEF ReadFile, TypeOK, KeyTypeOK
    <3>2. ReadyToRun'
      BY <1>3, <2>1 DEF OpenKeyFile, ReadFile, TypeOK, KeyTypeOK, ReadyToRun
    <3>3. QED
      BY <1>3, <3>1, <3>2 DEF OpenKeyFile, TypeOK
  <2>2. CASE ReadError(p)
    <3>1. KeyTypeOK'
      BY <2>2 DEF ReadError, AfterReadError, TypeOK, KeyTypeOK
    <3>2. ReadyToRun'
      BY <1>3, <2>2 DEF OpenKeyFile, ReadError, AfterReadError, TypeOK, KeyTypeOK, ReadyToRun
    <3>3. QED
      BY <1>3, <3>1, <3>2 DEF OpenKeyFile, TypeOK
  <2>3. CASE TruncateFile(p)
    <3>1. KeyTypeOK'
      BY <2>3 DEF TruncateFile, TypeOK, KeyTypeOK
    <3>2. ReadyToRun'
      BY <1>3, <2>3 DEF OpenKeyFile, TruncateFile, TypeOK, KeyTypeOK, ReadyToRun
    <3>3. QED
      BY <1>3, <3>1, <3>2 DEF OpenKeyFile, TypeOK
  <2>4. CASE WriteKey(p)
    <3>1. KeyTypeOK'
      BY <2>4 DEF WriteKey, TypeOK, KeyTypeOK, ReadyToRun
    <3>2. ReadyToRun'
      BY <1>3, <2>4 DEF OpenKeyFile, WriteKey, TypeOK, KeyTypeOK, ReadyToRun
    <3>3. QED
      BY <1>3, <3>1, <3>2 DEF OpenKeyFile, TypeOK
  <2>5. QED
    BY <1>3, <2>1, <2>2, <2>3, <2>4 DEF OpenKeyFile
<1>4. ASSUME NEW p \in Procs, NEW s \in Spellings, NEW w \in Passwords, CreateUser(p, s, w)
      PROVE  TypeOK' /\ ReadyToRun'
  <2>1. users' \subseteq User
    BY <1>4, SpellingAssumption
       DEF CreateUser, Registers, Validate, InsertUser, Normalised, TypeOK, User
  <2>2. PICK c \in Command : Changed(p, c) /\ c.step \in {"registered", "failed"}
    BY <1>4, CreateEffect
  <2>3. cmd' \in [Procs -> Command]
    BY <2>2, ChangedType
  <2>4. TypeOK'
    BY <1>4, <2>1, <2>3 DEF CreateUser, TypeOK, KeyTypeOK, keyVars
  <2>5. ReadyToRun'
    BY <1>4, <2>2, ChangedType DEF CreateUser, ReadyToRun, keyVars
  <2>6. QED
    BY <2>4, <2>5
<1>5. ASSUME NEW p \in Procs, NEW s \in Spellings, NEW w \in Passwords, LoginUser(p, s, w)
      PROVE  TypeOK' /\ ReadyToRun'
  <2>1. PICK c \in Command :
          Changed(p, c) /\ ((c.step = "answered" /\ c.pair = NewTokenPair) \/ c.step = "denied")
    BY <1>5, LoginEffect
  <2>2. TypeOK'
    BY <1>5, <2>1, ChangedType DEF LoginUser, TypeOK, KeyTypeOK, keyVars
  <2>3. NewTokenPair # NoSession
    BY MintedPair, SessionAssumption
  <2>4. ReadyToRun'
    BY <1>5, <2>1, <2>3, ChangedType DEF LoginUser, ReadyToRun, keyVars
  <2>5. QED
    BY <2>2, <2>4
<1>6. ASSUME NEW p \in Procs, ExchangeToken(p) PROVE TypeOK' /\ ReadyToRun'
  <2>1. PICK c \in Command :
          Changed(p, c) /\ ((c.step = "refreshed" /\ c.pair = NewTokenPair) \/ c.step = "failed")
    BY <1>6, ExchangeEffect
  <2>2. TypeOK'
    BY <1>6, <2>1, ChangedType DEF ExchangeToken, TypeOK, KeyTypeOK, keyVars
  <2>3. NewTokenPair # NoSession
    BY MintedPair, SessionAssumption
  <2>4. ReadyToRun'
    BY <1>6, <2>1, <2>3, ChangedType DEF ExchangeToken, ReadyToRun, keyVars
  <2>5. QED
    BY <2>2, <2>4
<1>7. ASSUME NEW p \in Procs, SaveSession(p) PROVE TypeOK' /\ ReadyToRun'
  <2>1. PICK c \in Command :
          /\ Changed(p, c)
          /\ c.step = "none" \/ (cmd[p].step = "refreshed" /\ c.step = "calling" /\ c.pair = cmd[p].pair)
    BY <1>7, SaveEffect DEF NoCommand
  <2>2. cmd[p].pair \in TokenPair /\ key[p] \in Procs
    BY <1>7 DEF SaveSession, TypeOK, Command, ReadyToRun
  <2>3. session' \in [pair : TokenPair, key : Procs]
    BY <1>7, <2>2 DEF SaveSession
  <2>4. TypeOK'
    BY <1>7, <2>1, <2>3, ChangedType DEF SaveSession, TypeOK, KeyTypeOK, keyVars
  <2>5. ReadyToRun'
    BY <1>7, <2>1, ChangedType DEF SaveSession, ReadyToRun, keyVars
  <2>6. QED
    BY <2>4, <2>5
<1>8. ASSUME NEW p \in Procs, GetValidToken(p) PROVE TypeOK' /\ ReadyToRun'
  <2>1. PICK c \in Command :
          Changed(p, c) /\ (c.step = "failed" \/ (session # NoSession /\ c.pair = session.pair))
    BY <1>8, GetEffect
  <2>2. TypeOK'
    BY <1>8, <2>1, ChangedType DEF GetValidToken, TypeOK, KeyTypeOK, keyVars
  <2>3. session # NoSession => session.pair # NoSession
    BY SessionAssumption DEF TypeOK
  <2>4. ReadyToRun'
    BY <1>8, <2>1, <2>3, ChangedType DEF GetValidToken, ReadyToRun, keyVars
  <2>5. QED
    BY <2>2, <2>4
<1>9. ASSUME NEW p \in Procs, Authorize(p) PROVE TypeOK' /\ ReadyToRun'
  <2>1. PICK c \in Command : Changed(p, c) /\ c.step \in {"served", "refused"}
    BY <1>9, AuthorizeEffect
  <2>2. TypeOK'
    BY <1>9, <2>1, ChangedType DEF Authorize, TypeOK, KeyTypeOK, keyVars
  <2>3. ReadyToRun'
    BY <1>9, <2>1, ChangedType DEF Authorize, ReadyToRun, keyVars
  <2>4. QED
    BY <2>2, <2>3
<1>10. ASSUME NEW p \in Procs, End(p) PROVE TypeOK' /\ ReadyToRun'
  <2>1. NoCommand \in Command /\ NoCommand.step = "none" /\ Changed(p, NoCommand)
    BY <1>10 DEF End, NoCommand, Command, Changed
  <2>2. TypeOK'
    BY <1>10, <2>1, ChangedType DEF End, Close, TypeOK, KeyTypeOK
  <2>3. ReadyToRun'
    BY <1>10, <2>1, ChangedType DEF End, Close, TypeOK, KeyTypeOK, ReadyToRun
  <2>4. QED
    BY <2>2, <2>3
<1>11. QED
  BY <1>1, <1>2, <1>3, <1>4, <1>5, <1>6, <1>7, <1>8, <1>9, <1>10 DEF Next

------------------------------------------------------------------------------
(* The key file. *)

LEMMA KeyFileInit == Init => KeyFileInv
  BY DEF Init, KeyInit, KeyFileInv

LEMMA KeyFileStep ==
  ASSUME TypeOK, ReadyToRun, KeyFileInv, FirstRunAlone, [Next]_vars
  PROVE  KeyFileInv'
<1> USE DEF KeyFileInv
<1>1. ASSUME UNCHANGED <<keyVars, session>> PROVE KeyFileInv'
  BY <1>1 DEF keyVars
<1>2. ASSUME NEW p \in Procs, OpenKeyFile(p) PROVE KeyFileInv'
  <2>1. CASE ReadFile(p)
    BY <1>2, <2>1, KeyAssumption DEF OpenKeyFile, ReadFile, MayStart, TypeOK, KeyTypeOK
  <2>2. CASE ReadError(p)
    BY <1>2, <2>2, KeyAssumption
       DEF OpenKeyFile, ReadError, AfterReadError, MayStart, TypeOK, KeyTypeOK
  <2>3. CASE TruncateFile(p)
    BY <1>2, <2>3, KeyAssumption DEF OpenKeyFile, TruncateFile, TypeOK, KeyTypeOK
  <2>4. CASE WriteKey(p)
    BY <1>2, <2>4, KeyAssumption DEF OpenKeyFile, WriteKey, TypeOK, KeyTypeOK
  <2>5. QED
    BY <1>2, <2>1, <2>2, <2>3, <2>4 DEF OpenKeyFile
<1>3. ASSUME NEW p \in Procs, SaveSession(p) PROVE KeyFileInv'
  <2>1. opening[p] = "open"
    BY <1>3 DEF SaveSession, ReadyToRun
  <2>2. session' = [pair |-> cmd[p].pair, key |-> key[p]] /\ UNCHANGED keyVars
    BY <1>3 DEF SaveSession
  <2>3. QED
    BY <2>1, <2>2 DEF keyVars
<1>4. ASSUME NEW p \in Procs, End(p) PROVE KeyFileInv'
  BY <1>4 DEF End, Close, TypeOK, KeyTypeOK
<1>5. QED
  BY <1>1, <1>2, <1>3, <1>4
     DEF Next, vars, Pass, CreateUser, LoginUser, ExchangeToken, GetValidToken, Authorize

------------------------------------------------------------------------------
(* Accounts. *)

(* A registration keeps addresses apart and normalised, and passwords whole. *)
LEMMA ProperStep == ASSUME TypeOK, Proper(users), [Next]_vars PROVE Proper(users')
<1>1. ASSUME UNCHANGED users PROVE Proper(users')
  BY <1>1
<1>2. ASSUME NEW p \in Procs, NEW s \in Spellings, NEW w \in Passwords, CreateUser(p, s, w),
             Registers(s, w)
      PROVE  Proper(users')
  <2> DEFINE new == [email |-> Normal[s], password |-> w]
  <2>1. users' = users \cup {new}
    BY <1>2 DEF CreateUser, InsertUser, Normalised
  <2>2. new \in User /\ new.email \in Addresses
    BY <1>2, SpellingAssumption DEF Registers, Validate, Normalised, User, Addresses
  <2>3. new.password.runes > 0 /\ new.password.bytes <= MaxPasswordBytes
    BY <1>2, PasswordAssumption DEF Registers, Validate, MinPasswordLength
  <2>4. \A user \in users : user.email # new.email
    BY <1>2 DEF Registers, SelectUserByEmail, Normalised
  <2> HIDE DEF new
  <2>5. QED
    BY <2>1, <2>2, <2>3, <2>4 DEF Proper
<1>3. QED
  BY <1>1, <1>2
     DEF Next, vars, Pass, OpenKeyFile, CreateUser, LoginUser, ExchangeToken, SaveSession,
         GetValidToken, Authorize, End

(* The password of a login that is answered is the whole password. *)
LEMMA LoginPassword ==
  ASSUME TypeOK, Proper(users), NEW s \in Spellings, NEW w \in Passwords, LogsIn(s, w)
  PROVE  \E user \in users : Mailbox(user.email) = Normal[s] /\ user.password = w
<1>1. PICK user \in users : user.email = Normal[s] /\ user.password.prefix = w.prefix
  BY DEF LogsIn, SelectUserByEmail, SameHash, Normalised
<1>2. user.password \in Passwords /\ user.password.bytes <= MaxPasswordBytes
      /\ Mailbox(user.email) = user.email
  BY DEF Proper, User, Mailbox
<1>3. w.bytes <= MaxPasswordBytes
  BY DEF LogsIn, ValidateForLogin
<1>4. user.password = w
  BY <1>1, <1>2, <1>3, PasswordAssumption
<1>5. QED
  BY <1>1, <1>2, <1>4

Known(c) ==
  c.step = "answered" =>
    \E user \in users : Mailbox(user.email) = Normal[c.email] /\ user.password = c.password

LEMMA OnlyItsPasswordStep ==
  ASSUME TypeOK, Proper(users), OnlyItsPassword, [Next]_vars
  PROVE  OnlyItsPassword'
<1>1. users \subseteq users'
  BY DEF Next, vars, Pass, OpenKeyFile, CreateUser, InsertUser, LoginUser, ExchangeToken,
         SaveSession, GetValidToken, Authorize, End
<1>2. ASSUME UNCHANGED cmd PROVE OnlyItsPassword'
  BY <1>1, <1>2 DEF OnlyItsPassword
<1>3. ASSUME NEW p \in Procs, NEW c \in Command, Changed(p, c), Known(c)
      PROVE  OnlyItsPassword'
  <2>1. cmd'[p] = c /\ \A q \in Procs \ {p} : cmd'[q] = cmd[q]
    BY <1>3, ChangedType
  <2>2. QED
    BY <1>1, <1>3, <2>1 DEF OnlyItsPassword, Known
<1>4. ASSUME NEW p \in Procs, NEW s \in Spellings, NEW w \in Passwords, LoginUser(p, s, w)
      PROVE  OnlyItsPassword'
  BY <1>3, <1>4, LoginEffect, LoginPassword DEF Known
<1>5. ASSUME NEW p \in Procs, NEW s \in Spellings, NEW w \in Passwords, CreateUser(p, s, w)
      PROVE  OnlyItsPassword'
  BY <1>3, <1>5, CreateEffect DEF Known
<1>6. ASSUME NEW p \in Procs, ExchangeToken(p) PROVE OnlyItsPassword'
  BY <1>3, <1>6, ExchangeEffect DEF Known
<1>7. ASSUME NEW p \in Procs, SaveSession(p) PROVE OnlyItsPassword'
  BY <1>3, <1>7, SaveEffect DEF Known, NoCommand
<1>8. ASSUME NEW p \in Procs, GetValidToken(p) PROVE OnlyItsPassword'
  BY <1>3, <1>8, GetEffect DEF Known
<1>9. ASSUME NEW p \in Procs, Authorize(p) PROVE OnlyItsPassword'
  BY <1>3, <1>9, AuthorizeEffect DEF Known
<1>10. ASSUME NEW p \in Procs, End(p) PROVE OnlyItsPassword'
  <2>1. NoCommand \in Command /\ Changed(p, NoCommand) /\ Known(NoCommand)
    BY <1>10 DEF End, NoCommand, Command, Changed, Known
  <2>2. QED
    BY <1>3, <2>1
<1>11. QED
  BY <1>2, <1>4, <1>5, <1>6, <1>7, <1>8, <1>9, <1>10 DEF Next, vars, Pass, OpenKeyFile

------------------------------------------------------------------------------
(* Tokens. *)

CallInTime(c) ==
  /\ c.pair # NoSession => Minted(c.pair)
  /\ c.since <= now
  /\ c.step = "refreshed" => c.pair.expires >= c.since + skew["auther"] + Lifetime
  /\ c.step = "calling" =>
       \/ c.pair.expires > c.since + skew["device"] + Margin
       \/ c.pair.expires >= c.since + skew["auther"] + Lifetime

LEMMA TokensInit == Init => TokensInv
<1> SUFFICES ASSUME Init PROVE TokensInv
  OBVIOUS
<1>1. TypeOK
  BY TypeInit
<1>2. now = 0 /\ session = NoSession
  BY DEF Init, ClocksInit
<1>3. \A p \in Procs : cmd[p].step = "none" /\ cmd[p].pair = NoSession /\ cmd[p].since = 0
  BY DEF Init, NoCommand
<1>4. QED
  BY <1>2, <1>3 DEF TokensInv

LEMMA TokensStep ==
  ASSUME TypeOK, ReadyToRun, TokensInv, [Next]_vars
  PROVE  TokensInv'
<1>1. ASSUME NEW p \in Procs PROVE CallInTime(cmd[p])
  BY DEF TokensInv, CallInTime
<1>2. ASSUME UNCHANGED <<now, skew, session, cmd>> PROVE TokensInv'
  BY <1>2 DEF TokensInv, Minted, Clock
<1>3. CASE Pass
  <2>1. now' = now + 1 /\ UNCHANGED <<skew, session, cmd>> /\ now \in Nat /\ skew["auther"] \in Nat
    BY <1>3, TimeAssumption DEF Pass, Tick, TypeOK, Machines
  <2>2. ASSUME NEW pair \in TokenPair, Minted(pair) 
        PROVE  pair.exp + Second > pair.expires /\ pair.iat <= now' + skew'["auther"]
    <3>1. pair.iat \in Nat /\ pair.iat <= now + skew["auther"] /\ pair.exp + Second > pair.expires
      BY <2>2 DEF Minted, Clock, TokenPair
    <3>2. QED
      BY <2>1, <3>1
  <2>3. session' # NoSession => Minted(session.pair) /\ session.pair \in TokenPair
    BY <2>1 DEF TokensInv, TypeOK
  <2>4. ASSUME NEW p \in Procs, cmd'[p].pair # NoSession
        PROVE  Minted(cmd[p].pair) /\ cmd[p].pair \in TokenPair
    BY <1>1, <2>1, <2>4 DEF CallInTime, TypeOK, Command
  <2>5. ASSUME NEW p \in Procs PROVE cmd[p].since <= now'
    <3>1. cmd[p].since \in Nat
      BY DEF TypeOK, Command
    <3>2. QED
      BY <1>1, <2>1, <3>1 DEF CallInTime
  <2>6. QED
    BY <1>1, <2>1, <2>2, <2>3, <2>4, <2>5 DEF TokensInv, CallInTime, Minted, Clock
<1>4. ASSUME NEW p \in Procs, NEW c \in Command, Changed(p, c), CallInTime(c),
             UNCHANGED <<now, skew>>, session' = session \/ (session'.pair = cmd[p].pair /\ cmd[p].pair # NoSession)
      PROVE  TokensInv'
  <2>1. cmd'[p] = c /\ \A q \in Procs \ {p} : cmd'[q] = cmd[q]
    BY <1>4, ChangedType
  <2>2. session' # NoSession => Minted(session'.pair)
    BY <1>1, <1>4 DEF TokensInv, CallInTime
  <2>3. QED
    BY <1>1, <1>4, <2>1, <2>2 DEF TokensInv, CallInTime, Minted, Clock
<1>5. now \in Nat /\ 0 <= now
  BY TimeAssumption DEF TypeOK
<1>6. ASSUME NEW p \in Procs, NEW s \in Spellings, NEW w \in Passwords, CreateUser(p, s, w)
      PROVE  TokensInv'
  <2>1. PICK c \in Command :
          /\ Changed(p, c) /\ c.step \in {"registered", "failed"}
          /\ c.pair \in {NoSession, cmd[p].pair} /\ c.since \in {0, cmd[p].since}
    BY <1>6, CreateEffect
  <2>2. CallInTime(c)
    BY <1>1, <1>5, <2>1 DEF CallInTime
  <2>3. QED
    BY <1>4, <1>6, <2>1, <2>2 DEF CreateUser
<1>7. ASSUME NEW p \in Procs, NEW s \in Spellings, NEW w \in Passwords, LoginUser(p, s, w)
      PROVE  TokensInv'
  <2>1. PICK c \in Command :
          /\ Changed(p, c) /\ c.since = 0 /\ c.step \in {"answered", "denied"}
          /\ c.pair \in {NewTokenPair, NoSession}
    BY <1>7, LoginEffect
  <2>2. CallInTime(c)
    BY <1>5, <2>1, MintedPair DEF CallInTime
  <2>3. QED
    BY <1>4, <1>7, <2>1, <2>2 DEF LoginUser
<1>8. ASSUME NEW p \in Procs, ExchangeToken(p) PROVE TokensInv'
  <2>1. PICK c \in Command :
          /\ Changed(p, c)
          /\ \/ c.step = "refreshed" /\ c.pair = NewTokenPair /\ c.since = cmd[p].since
             \/ c.step = "failed" /\ c.pair = NoSession /\ c.since = 0
    BY <1>8, ExchangeEffect
  <2>2. c.step = "refreshed" => c.pair.expires >= c.since + skew["auther"] + Lifetime
    <3>1. cmd[p].since \in Nat /\ cmd[p].since <= now
      BY <1>1 DEF CallInTime, TypeOK, Command
    <3>2. skew["auther"] \in Nat /\ Lifetime \in Nat
      BY TimeAssumption DEF TypeOK, Machines
    <3>3. QED
      BY <1>5, <2>1, <3>1, <3>2, MintedPair
  <2>3. CallInTime(c)
    BY <1>1, <1>5, <2>1, <2>2, MintedPair DEF CallInTime
  <2>4. QED
    BY <1>4, <1>8, <2>1, <2>3 DEF ExchangeToken
<1>9. ASSUME NEW p \in Procs, SaveSession(p) PROVE TokensInv'
  <2>1. PICK c \in Command :
          /\ Changed(p, c)
          /\ \/ c = NoCommand
             \/ /\ cmd[p].step = "refreshed" /\ c.step = "calling"
                /\ c.pair = cmd[p].pair /\ c.since = cmd[p].since
    BY <1>9, SaveEffect
  <2>2. CallInTime(c)
    BY <1>1, <1>5, <2>1 DEF CallInTime, NoCommand
  <2>3. session'.pair = cmd[p].pair /\ cmd[p].pair # NoSession
    BY <1>9 DEF SaveSession, ReadyToRun
  <2>4. QED
    BY <1>4, <1>9, <2>1, <2>2, <2>3 DEF SaveSession
<1>10. ASSUME NEW p \in Procs, GetValidToken(p) PROVE TokensInv'
  <2>1. PICK c \in Command :
          /\ Changed(p, c)
          /\ \/ c.step = "failed" /\ c.pair = NoSession /\ c.since = 0
             \/ /\ session # NoSession /\ c.pair = session.pair /\ c.since = now
                /\ IF NearExpiry(session.pair) THEN c.step = "refreshing" ELSE c.step = "calling"
    BY <1>10, GetEffect
  <2>2. ASSUME session # NoSession, ~NearExpiry(session.pair)
        PROVE  session.pair.expires > now + skew["device"] + Margin
    <3>1. session.pair.expires \in Nat /\ skew["device"] \in Nat /\ Margin \in Nat
      BY <2>2, TimeAssumption DEF TypeOK, TokenPair, Machines
    <3>2. QED
      BY <1>5, <2>2, <3>1 DEF NearExpiry, Clock
  <2>3. CallInTime(c)
    BY <1>5, <2>1, <2>2 DEF CallInTime, TokensInv
  <2>4. QED
    BY <1>4, <1>10, <2>1, <2>3 DEF GetValidToken
<1>11. ASSUME NEW p \in Procs, Authorize(p) PROVE TokensInv'
  <2>1. PICK c \in Command :
          /\ Changed(p, c) /\ c.pair = cmd[p].pair /\ c.since = cmd[p].since
          /\ c.step \in {"served", "refused"}
    BY <1>11, AuthorizeEffect
  <2>2. CallInTime(c)
    BY <1>1, <2>1 DEF CallInTime
  <2>3. QED
    BY <1>4, <1>11, <2>1, <2>2 DEF Authorize
<1>12. ASSUME NEW p \in Procs, End(p) PROVE TokensInv'
  <2>1. NoCommand \in Command /\ Changed(p, NoCommand) /\ CallInTime(NoCommand)
    BY <1>5, <1>12 DEF End, NoCommand, Command, Changed, CallInTime
  <2>2. QED
    BY <1>4, <1>12, <2>1 DEF End
<1>13. QED
  BY <1>2, <1>3, <1>6, <1>7, <1>8, <1>9, <1>10, <1>11, <1>12 DEF Next, vars, OpenKeyFile

------------------------------------------------------------------------------
(***************************************************************************)
(* The invariant: types, proper accounts, known passwords, the key file    *)
(* (where no process starts beside the one that creates it), and tokens.   *)
(***************************************************************************)
THEOREM SignInInvariant == Spec => []SignInInv
<1>1. Init => SignInInv
  <2> SUFFICES ASSUME Init PROVE SignInInv
    OBVIOUS
  <2>1. Proper(users)
    BY LegacyAssumption DEF Init, UsersInit, Proper
  <2>2. OnlyItsPassword
    BY DEF Init, OnlyItsPassword, NoCommand
  <2>3. QED
    BY <2>1, <2>2, TypeInit, ReadyInit, KeyFileInit, TokensInit DEF SignInInv
<1>2. SignInInv /\ [Next]_vars => SignInInv'
  <2> SUFFICES ASSUME SignInInv, [Next]_vars PROVE SignInInv'
    OBVIOUS
  <2>1. TypeOK' /\ ReadyToRun' /\ Proper(users') /\ OnlyItsPassword' /\ TokensInv'
    BY TypeStep, ProperStep, OnlyItsPasswordStep, TokensStep DEF SignInInv
  <2>2. FirstRunAlone => KeyFileInv'
    BY KeyFileStep DEF SignInInv
  <2>3. QED
    BY <2>1, <2>2 DEF SignInInv, Proper
<1>3. QED
  BY <1>1, <1>2, PTL DEF Spec

(***************************************************************************)
(* Two spellings of an address are one account.                            *)
(***************************************************************************)
THEOREM MailboxesHaveOneAccount == Spec => []OneAccountPerMailbox
<1>1. SignInInv => OneAccountPerMailbox
  BY DEF SignInInv, Proper, OneAccountPerMailbox, Mailbox
<1>2. QED
  BY <1>1, SignInInvariant, PTL

(***************************************************************************)
(* Whoever is handed tokens has typed the password of the account, all of  *)
(* it.                                                                     *)
(***************************************************************************)
THEOREM TokensNeedThePassword == Spec => []OnlyItsPassword
<1>1. SignInInv => OnlyItsPassword
  BY DEF SignInInv
<1>2. QED
  BY <1>1, SignInInvariant, PTL

(***************************************************************************)
(* The stored session opens under the key in the file, wherever processes  *)
(* die, as long as none starts beside the one that creates the file.       *)
(***************************************************************************)
THEOREM StoredSessionOpens == ASSUME FirstRunAlone PROVE Spec => []SessionReadable
<1>1. SignInInv => SessionReadable
  BY DEF SignInInv, KeyFileInv, SessionReadable
<1>2. QED
  BY <1>1, SignInInvariant, PTL

(***************************************************************************)
(* A login with the address and the password of an account is not denied.  *)
(***************************************************************************)
THEOREM AccountsStayReachable == Spec => RegisteredCanLogIn
<1> DEFINE OnlyWrong ==
      \A p \in Procs : Denied(p) =>
        \A user \in users : Mailbox(user.email) = Normal[cmd'[p].email]
                            => user.password # cmd'[p].password
<1>1. SignInInv /\ [Next]_vars => OnlyWrong
  <2> SUFFICES ASSUME SignInInv, [Next]_vars, NEW q \in Procs, Denied(q), NEW user \in users,
                      Mailbox(user.email) = Normal[cmd'[q].email],
                      user.password = cmd'[q].password
               PROVE  FALSE
    OBVIOUS
  <2>1. TypeOK /\ Proper(users)
    BY DEF SignInInv
  <2>2. PICK p \in Procs, s \in Spellings, w \in Passwords : LoginUser(p, s, w)
    <3>1. ASSUME NEW p \in Procs, NEW c \in Command, Changed(p, c), c.step # "denied"
          PROVE  FALSE
      BY <2>1, <3>1, ChangedType DEF Denied
    <3>2. ASSUME UNCHANGED cmd PROVE FALSE
      BY <3>2 DEF Denied
    <3>3. ASSUME NEW p \in Procs, \E s \in Spellings, w \in Passwords : CreateUser(p, s, w)
          PROVE  FALSE
      BY <2>1, <3>1, <3>3, CreateEffect
    <3>4. ASSUME NEW p \in Procs, ExchangeToken(p) PROVE FALSE
      BY <2>1, <3>1, <3>4, ExchangeEffect
    <3>5. ASSUME NEW p \in Procs, SaveSession(p) PROVE FALSE
      BY <2>1, <3>1, <3>5, SaveEffect DEF NoCommand
    <3>6. ASSUME NEW p \in Procs, GetValidToken(p) PROVE FALSE
      BY <2>1, <3>1, <3>6, GetEffect
    <3>7. ASSUME NEW p \in Procs, Authorize(p) PROVE FALSE
      BY <2>1, <3>1, <3>7, AuthorizeEffect
    <3>8. ASSUME NEW p \in Procs, End(p) PROVE FALSE
      <4>1. NoCommand \in Command /\ NoCommand.step # "denied" /\ Changed(p, NoCommand)
        BY <3>8 DEF End, NoCommand, Command, Changed
      <4>2. QED
        BY <3>1, <4>1
    <3>9. QED
      BY <3>2, <3>3, <3>4, <3>5, <3>6, <3>7, <3>8 DEF Next, vars, Pass, OpenKeyFile
  <2>3. PICK c \in Command :
          /\ Changed(p, c) /\ c.email = s /\ c.password = w
          /\ c.step = "answered" \/ ~LogsIn(s, w)
    BY <2>1, <2>2, LoginEffect
  <2>4. q = p /\ cmd'[q] = c
    BY <2>1, <2>3, ChangedType DEF Denied
  <2>5. ~LogsIn(s, w)
    BY <2>3, <2>4 DEF Denied
  <2>6. user.email = Normal[s] /\ user.password = w /\ w.runes > 0 /\ w.bytes <= MaxPasswordBytes
    BY <2>1, <2>3, <2>4 DEF Proper, Mailbox
  <2>7. Normal[s] # Invalid
    BY <2>1, <2>6 DEF Proper, Addresses
  <2>8. QED
    BY <2>5, <2>6, <2>7
       DEF LogsIn, ValidateForLogin, Normalised, SelectUserByEmail, SameHash
<1>2. Spec => [][OnlyWrong]_vars
  <2> HIDE DEF OnlyWrong
  <2>1. QED
    BY <1>1, SignInInvariant, PTL DEF Spec
<1>3. QED
  BY <1>2 DEF RegisteredCanLogIn

(***************************************************************************)
(* A token GetValidToken has returned is refused only when the call takes  *)
(* longer, or the clocks are further apart, than the minute pays for.      *)
(***************************************************************************)
THEOREM TokensAreAccepted == Spec => TokenAccepted
<1> DEFINE OnlyLate == \A p \in Procs : Refused(p) => ~InTime(p)
<1>1. SignInInv /\ [Next]_vars => OnlyLate
  <2> SUFFICES ASSUME SignInInv, [Next]_vars, NEW q \in Procs, Refused(q), InTime(q) PROVE FALSE
    OBVIOUS
  <2>1. TypeOK /\ TokensInv /\ ReadyToRun
    BY DEF SignInInv
  <2> DEFINE pair == cmd[q].pair
             since == cmd[q].since
  <2>2. pair \in TokenPair /\ Minted(pair) /\ since \in Nat /\ since <= now
    BY <2>1 DEF Refused, ReadyToRun, TokensInv, TypeOK, Command
  <2>3. \/ pair.expires > since + skew["device"] + Margin
        \/ pair.expires >= since + skew["auther"] + Lifetime
    BY <2>1 DEF Refused, TokensInv
  <2>4. ~ValidateToken(pair)
    <3>1. ASSUME NEW p \in Procs, NEW c \in Command, Changed(p, c), c.step # "refused"
          PROVE  FALSE
      BY <2>1, <3>1, ChangedType DEF Refused
    <3>2. ASSUME UNCHANGED cmd PROVE FALSE
      BY <3>2 DEF Refused
    <3>3. ASSUME NEW p \in Procs, NEW s \in Spellings, NEW w \in Passwords,
                 CreateUser(p, s, w) \/ LoginUser(p, s, w)
          PROVE  FALSE
      BY <2>1, <3>1, <3>3, CreateEffect, LoginEffect
    <3>4. ASSUME NEW p \in Procs, ExchangeToken(p) PROVE FALSE
      BY <2>1, <3>1, <3>4, ExchangeEffect
    <3>5. ASSUME NEW p \in Procs, SaveSession(p) PROVE FALSE
      BY <2>1, <3>1, <3>5, SaveEffect DEF NoCommand
    <3>6. ASSUME NEW p \in Procs, GetValidToken(p) PROVE FALSE
      BY <2>1, <3>1, <3>6, GetEffect
    <3>7. ASSUME NEW p \in Procs, End(p) PROVE FALSE
      <4>1. NoCommand \in Command /\ NoCommand.step # "refused" /\ Changed(p, NoCommand)
        BY <3>7 DEF End, NoCommand, Command, Changed
      <4>2. QED
        BY <3>1, <4>1
    <3>8. PICK p \in Procs : Authorize(p)
      BY <3>2, <3>3, <3>4, <3>5, <3>6, <3>7 DEF Next, vars, Pass, OpenKeyFile
    <3>9. PICK c \in Command :
            Changed(p, c) /\ IF ValidateToken(cmd[p].pair) THEN c.step = "served" ELSE c.step = "refused"
      BY <2>1, <3>8, AuthorizeEffect
    <3>10. p = q /\ c.step = "refused"
      BY <2>1, <3>9, ChangedType DEF Refused
    <3>11. QED
      BY <3>9, <3>10
  <2> HIDE DEF pair, since
  <2>5. /\ now \in Nat /\ Margin \in Nat /\ Lifetime \in Nat /\ Second \in Nat
        /\ skew["device"] \in Nat /\ skew["auther"] \in Nat /\ skew["skeeper"] \in Nat
    BY <2>1, TimeAssumption DEF TypeOK, Machines
  <2>6. pair.iat \in Nat /\ pair.exp \in Nat /\ pair.expires \in Nat
    BY <2>2 DEF TokenPair
  <2>7. /\ (now - since) + skew["skeeper"] + Second <= skew["device"] + Margin
        /\ (now - since) + skew["skeeper"] + Second <= skew["auther"] + Lifetime
        /\ skew["auther"] <= skew["skeeper"]
    BY DEF InTime, since
  <2>8. now + skew["skeeper"] < pair.exp
    BY <2>2, <2>3, <2>5, <2>6, <2>7 DEF Minted
  <2>9. pair.iat <= now + skew["skeeper"]
    BY <2>2, <2>5, <2>6, <2>7 DEF Minted, Clock
  <2>10. QED
    BY <2>4, <2>8, <2>9 DEF ValidateToken, Clock
<1>2. Spec => [][OnlyLate]_vars
  <2> HIDE DEF OnlyLate
  <2>1. QED
    BY <1>1, SignInInvariant, PTL DEF Spec
<1>3. QED
  BY <1>2 DEF TokenAccepted
==============================================================================
