------------------------- MODULE ClientSessionProofs -------------------------
(***************************************************************************)
(* Theorems about ClientSession: its types, and that refreshing keeps a    *)
(* device logged in, for any number of processes on a device; and that the *)
(* data of two accounts stays apart as long as a device runs one command   *)
(* at a time.                                                              *)
(***************************************************************************)
EXTENDS ClientSession, FiniteSetTheorems, TLAPS

------------------------------------------------------------------------------
(* Tokens that have been issued stay issued, to the same user. *)
Grows ==
  /\ Auther!Issued \subseteq Auther!Issued'
  /\ \A t \in Auther!Issued : owner'[t] = owner[t]

AutherTyped ==
  /\ owner \in [Auther!Issued -> Users] /\ Auther!Issued \subseteq Tokens
  /\ live \subseteq Auther!Issued
  /\ exchanged \subseteq Auther!Issued \X Auther!Issued

LEMMA IssuedToUser ==
  ASSUME AutherTyped, NEW u \in Users, NEW n, Auther!IsIssued(u, n)
  PROVE  /\ Grows /\ n \in Tokens
         /\ Auther!Issued' = Auther!Issued \cup {n}
         /\ owner' \in [Auther!Issued' -> Users]
         /\ owner'[n] = u
<1>1. /\ n \in Tokens \ Auther!Issued
      /\ owner' = [t \in Auther!Issued \cup {n} |-> IF t = n THEN u ELSE owner[t]]
  BY DEF Auther!IsIssued
<1>2. Auther!Issued' = Auther!Issued \cup {n}
  BY <1>1 DEF Auther!Issued
<1> HIDE DEF Auther!Issued
<1> QED BY <1>1, <1>2 DEF Grows, AutherTyped

\* What serving a call does to the tokens.
LEMMA Served ==
  ASSUME AutherTyped, NEW c \in Command, Equipped(c), NEW n \in Tokens,
         ServeLogin(c, n) \/ ServeExchange(c, n)
  PROVE  /\ AutherTyped' /\ Grows
         /\ ServeLogin(c, n) => n \in Auther!Issued' /\ owner'[n] = c.user
         /\ ServeExchange(c, n) => n \in Auther!Issued' /\ owner'[n] = owner[c.token]
<1>1. CASE ServeLogin(c, n)
  <2>1. c.user \in Users /\ Auther!Login(c.user, n) /\ c.pc = "loggingIn"
    BY <1>1 DEF ServeLogin, Equipped
  <2>2. Auther!IsIssued(c.user, n) /\ exchanged' = exchanged
    BY <2>1 DEF Auther!Login
  <2>3. live' \subseteq live \cup {n}
    BY <2>1 DEF Auther!Login
  <2>4. /\ Grows /\ n \in Tokens /\ Auther!Issued' = Auther!Issued \cup {n}
        /\ owner' \in [Auther!Issued' -> Users] /\ owner'[n] = c.user
    BY <2>1, <2>2, IssuedToUser
  <2>5. ~ ServeExchange(c, n)
    BY <2>1 DEF ServeExchange
  <2> QED BY <2>2, <2>3, <2>4, <2>5 DEF AutherTyped
<1>2. CASE ServeExchange(c, n)
  <2>1. Auther!Exchange(c.token, n) /\ c.pc = "refreshing"
    BY <1>2 DEF ServeExchange
  <2>2. c.token \in live /\ c.token \in Auther!Issued /\ owner[c.token] \in Users
    BY <2>1 DEF Auther!Exchange, AutherTyped
  <2>3. /\ Auther!IsIssued(owner[c.token], n)
        /\ live' = (live \ {c.token}) \cup {n}
        /\ exchanged' = exchanged \cup {<<c.token, n>>}
    BY <2>1 DEF Auther!Exchange
  <2>4. /\ Grows /\ n \in Tokens /\ Auther!Issued' = Auther!Issued \cup {n}
        /\ owner' \in [Auther!Issued' -> Users] /\ owner'[n] = owner[c.token]
    BY <2>2, <2>3, IssuedToUser
  <2>5. ~ ServeLogin(c, n)
    BY <2>1 DEF ServeLogin
  <2> QED BY <2>2, <2>3, <2>4, <2>5 DEF AutherTyped
<1> QED BY <1>1, <1>2

\* A refusal gives no token.
LEMMA Refused ==
  ASSUME AutherTyped, NEW c, RefuseExchange(c) \/ ServeVault(c)
  PROVE  AutherTyped' /\ Grows
<1>1. owner' = owner /\ exchanged' = exchanged /\ live' \subseteq live
  BY DEF RefuseExchange, ServeVault, Auther!Revoke, auther
<1>2. Auther!Issued' = Auther!Issued
  BY <1>1 DEF Auther!Issued
<1> QED BY <1>1, <1>2 DEF AutherTyped, Grows

\* A step that leaves the auther alone.
LEMMA AutherUnchanged ==
  ASSUME AutherTyped, UNCHANGED auther
  PROVE  AutherTyped' /\ Grows
BY DEF AutherTyped, Grows, auther, Auther!Issued

------------------------------------------------------------------------------
(* Types. *)

LEMMA EquippedStays ==
  ASSUME Grows, NEW c, Equipped(c)
  PROVE  Equipped(c)'
BY DEF Equipped, Grows

\* What TypeInv says of the commands, after p has moved on to c.
LEMMA Advance ==
  ASSUME TypeInv, Grows, NEW p \in Procs, NEW c \in Command, Equipped(c)',
         proc' = [proc EXCEPT ![p] = c]
  PROVE  proc' \in [Procs -> Command] /\ \A q \in Procs : Equipped(proc[q])'
<1>1. proc \in [Procs -> Command] /\ \A q \in Procs : Equipped(proc[q])
  BY DEF TypeInv, TypeOK
<1>2. ASSUME NEW q \in Procs PROVE Equipped(proc[q])'
  <2>1. CASE q = p
    <3>1. proc'[q] = c
      BY <1>1, <2>1
    <3> QED BY <3>1 DEF Equipped
  <2>2. CASE q # p
    <3>1. proc'[q] = proc[q]
      BY <1>1, <2>2
    <3> QED BY <1>1, <3>1 DEF Equipped, Grows
  <2> QED BY <2>1, <2>2
<1> QED BY <1>1, <1>2

LEMMA TypeInit == Init => TypeInv
<1> SUFFICES ASSUME Init PROVE TypeInv
  OBVIOUS
<1>1. Idle \in Command /\ Idle.pc = "idle"
  BY DEF Idle, Command
<1>2. owner \in [{} -> Users] /\ Auther!Issued = {} /\ live = {} /\ exchanged = {}
  BY DEF Init, Auther!Init, Auther!Issued
<1> QED BY <1>1, <1>2, BoundAssumption DEF Init, TypeInv, TypeOK, Equipped

LEMMA TypeStep == TypeInv /\ [Next]_vars => TypeInv'
<1> SUFFICES ASSUME TypeInv, [Next]_vars PROVE TypeInv'
  OBVIOUS
<1>0. /\ TypeOK /\ AutherTyped
      /\ proc \in [Procs -> Command]
      /\ \A p \in Procs : /\ Equipped(proc[p]) /\ proc[p] \in Command
                          /\ Home[p] \in Devices
      /\ \A c \in orphans : Equipped(c) /\ c \in Command
  BY HomeAssumption DEF TypeInv, TypeOK, AutherTyped
<1>1. ASSUME Grows, orphans' = orphans
      PROVE  orphans' \subseteq Command /\ \A c \in orphans' : Equipped(c)'
  BY <1>0, <1>1, EquippedStays DEF TypeOK
<1>2. ASSUME Grows, proc' = proc
      PROVE  proc' \in [Procs -> Command] /\ \A p \in Procs : Equipped(proc[p])'
  BY <1>0, <1>2 DEF Equipped, Grows
<1>3. ASSUME Grows, clocks' = clocks
      PROVE  nearExpiry' \subseteq Auther!Issued' /\ expired' \subseteq nearExpiry'
  BY <1>3 DEF TypeInv, TypeOK, clocks, Grows
<1>4. ASSUME Grows, session' = session
      PROVE  /\ session' \in [Devices -> Session \cup {NoSession}]
             /\ \A d \in Devices : session'[d] # NoSession => session'[d].token \in Auther!Issued'
  BY <1>0, <1>4 DEF TypeOK, Grows
<1>5. ASSUME AutherTyped', Grows, clocks' = clocks, session' = session,
             tables' \in [Devices -> [Users -> SUBSET Users]],
             vaults' \in [Users -> SUBSET Users],
             proc' \in [Procs -> Command], \A p \in Procs : Equipped(proc[p])',
             losses' = losses
      PROVE  TypeInv'
  <2>1. orphans' = orphans /\ lost' = lost
    BY <1>5 DEF losses
  <2>2. orphans' \subseteq Command /\ \A c \in orphans' : Equipped(c)'
    BY <1>1, <1>5, <2>1
  <2> QED BY <1>0, <1>3, <1>4, <1>5, <2>1, <2>2 DEF TypeInv, TypeOK, AutherTyped
<1>6. ASSUME UNCHANGED <<auther, clocks, session, data, losses>>,
             NEW p \in Procs, NEW c \in Command, proc' = [proc EXCEPT ![p] = c],
             Equipped(c)
      PROVE  TypeInv'
  <2>1. AutherTyped' /\ Grows
    BY <1>0, <1>6, AutherUnchanged
  <2>2. Equipped(c)'
    BY <1>6, <2>1, EquippedStays
  <2>3. proc' \in [Procs -> Command] /\ \A q \in Procs : Equipped(proc[q])'
    BY <1>6, <2>1, <2>2, Advance
  <2>4. tables' = tables /\ vaults' = vaults
    BY <1>6 DEF data
  <2> QED BY <1>0, <1>5, <1>6, <2>1, <2>3, <2>4 DEF TypeOK
<1>7. Idle \in Command /\ Idle.pc = "idle" /\ Equipped(Idle)
  BY DEF Idle, Command, Equipped
<1>8. ASSUME NEW t \in Tokens, NearExpiry(t) \/ Expire(t) PROVE TypeInv'
  <2>1. AutherTyped' /\ Grows /\ session' = session /\ data' = data /\ proc' = proc /\ losses' = losses
    BY <1>0, <1>8, AutherUnchanged DEF NearExpiry, Expire
  <2>2. nearExpiry' \subseteq Auther!Issued' /\ expired' \subseteq nearExpiry'
    BY <1>0, <1>8, <2>1 DEF NearExpiry, Expire, TypeOK, Grows
  <2>3. orphans' = orphans /\ lost' = lost /\ tables' = tables /\ vaults' = vaults
    BY <2>1 DEF losses, data
  <2> QED BY <1>0, <1>1, <1>2, <1>4, <2>1, <2>2, <2>3 DEF TypeInv, TypeOK, AutherTyped
<1>9. ASSUME NEW p \in Procs, NEW u \in Users, StartLogin(p, u) PROVE TypeInv'
  <2> DEFINE c == [Idle EXCEPT !.pc = "loggingIn", !.user = u]
  <2>1. c \in Command /\ Equipped(c)
    BY DEF Idle, Command, Equipped
  <2>2. proc' = [proc EXCEPT ![p] = c] /\ UNCHANGED <<auther, clocks, session, data, losses>>
    BY <1>9 DEF StartLogin
  <2> HIDE DEF c
  <2> QED BY <1>6, <2>1, <2>2
<1>10. ASSUME NEW p \in Procs, Logout(p) PROVE TypeInv'
  <2>1. AutherTyped' /\ Grows /\ clocks' = clocks /\ data' = data /\ proc' = proc /\ losses' = losses
    BY <1>0, <1>10, AutherUnchanged DEF Logout
  <2>2. /\ session' \in [Devices -> Session \cup {NoSession}]
        /\ \A d \in Devices : session'[d] # NoSession => session'[d].token \in Auther!Issued'
    BY <1>0, <1>10, <2>1 DEF Logout, TypeOK, Grows
  <2>3. orphans' = orphans /\ lost' = lost /\ tables' = tables /\ vaults' = vaults
    BY <2>1 DEF losses, data
  <2> QED BY <1>0, <1>1, <1>2, <1>3, <2>1, <2>2, <2>3 DEF TypeInv, TypeOK, AutherTyped
<1>11. ASSUME NEW p \in Procs, NEW call \in {"sync", "getCrypto"}, Begin(p, call) PROVE TypeInv'
  <2> DEFINE s == session[Home[p]]
             load == IF call = "sync" THEN tables[Home[p]][s.user] ELSE {}
             c == [Idle EXCEPT !.pc = "authorising", !.call = call, !.user = s.user, !.load = load]
  <2>1. s \in Session
    BY <1>0, <1>11 DEF Begin, TypeOK
  <2>2. s.user \in Users /\ load \subseteq Users
    BY <1>0, <2>1 DEF Session, TypeOK
  <2>3. proc' = [proc EXCEPT ![p] = c] /\ UNCHANGED <<auther, clocks, session, data, losses>>
    BY <1>11 DEF Begin
  <2>4. c \in Command /\ c.pc = "authorising" /\ c.user = s.user
    BY <2>2 DEF Idle, Command
  <2> HIDE DEF c
  <2> QED BY <1>6, <2>2, <2>3, <2>4 DEF Equipped
<1>12. ASSUME NEW p \in Procs, Authorise(p) PROVE TypeInv'
  <2> DEFINE s == session[Home[p]]
  <2>1. PICK c \in {Idle, [proc[p] EXCEPT !.pc = "sending", !.token = s.token],
                     [proc[p] EXCEPT !.pc = "refreshing", !.token = s.token]} :
          /\ proc' = [proc EXCEPT ![p] = c]
          /\ UNCHANGED <<auther, clocks, session, data, losses>>
          /\ c # Idle => s # NoSession
    BY <1>0, <1>12 DEF Authorise
  <2>2. CASE c = Idle
    BY <1>6, <1>7, <2>1, <2>2
  <2>3. CASE c # Idle
    <3>1. s.token \in Auther!Issued /\ s.token \in Tokens /\ proc[p].user \in Users
      BY <1>0, <1>12, <2>1, <2>3 DEF TypeOK, Authorise, Equipped
    <3>2. c \in Command /\ c.token = s.token /\ c.user = proc[p].user /\ c.pc # "answered"
      BY <1>0, <2>1, <2>3, <3>1 DEF Command
    <3> QED BY <1>6, <2>1, <3>1, <3>2 DEF Equipped
  <2> QED BY <2>2, <2>3
<1>13. ASSUME NEW p \in Procs, NEW n \in Tokens, AnswerLogin(p, n) PROVE TypeInv'
  <2>0. PICK c : c = [proc[p] EXCEPT !.pc = "answered", !.new = n]
    OBVIOUS
  <2>1. /\ ServeLogin(proc[p], n) /\ proc' = [proc EXCEPT ![p] = c]
        /\ vaults' = vaults /\ UNCHANGED <<clocks, session, tables, losses>>
    BY <1>0, <1>13, <2>0 DEF AnswerLogin, ServeLogin
  <2>2. AutherTyped' /\ Grows /\ n \in Auther!Issued'
    BY <1>0, <2>1, Served
  <2>3. /\ c \in Command /\ c.pc = "answered" /\ c.new = n /\ c.user = proc[p].user
        /\ proc[p].user \in Users
    BY <1>0, <2>0, <2>1 DEF Command, Equipped, ServeLogin
  <2>4. Equipped(c)'
    BY <2>2, <2>3 DEF Equipped
  <2>5. proc' \in [Procs -> Command] /\ \A q \in Procs : Equipped(proc[q])'
    BY <2>1, <2>2, <2>3, <2>4, Advance
  <2> QED BY <1>0, <1>5, <2>1, <2>2, <2>5 DEF TypeOK
<1>14. ASSUME NEW p \in Procs, NEW n \in Tokens, AnswerExchange(p, n) PROVE TypeInv'
  <2>1. /\ ServeExchange(proc[p], n)
        /\ vaults' = vaults /\ UNCHANGED <<clocks, session, tables, losses>>
    BY <1>14 DEF AnswerExchange, ServeExchange
  <2>2. AutherTyped' /\ Grows /\ n \in Auther!Issued'
    BY <1>0, <2>1, Served
  <2>3. PICK sharing \in SUBSET {q \in Procs : proc[q].pc = "refreshing"} :
          proc' = [q \in Procs |->
            IF q \in sharing THEN [proc[q] EXCEPT !.pc = "answered", !.new = n] ELSE proc[q]]
    BY <1>14 DEF AnswerExchange
  <2>4. ASSUME NEW q \in Procs PROVE proc'[q] \in Command /\ Equipped(proc[q])'
    <3>1. CASE q \in sharing
      <4>1. /\ proc'[q] \in Command /\ proc'[q].pc = "answered" /\ proc'[q].new = n
            /\ proc'[q].user \in Users
        BY <1>0, <2>3, <3>1 DEF Command, Equipped
      <4> QED BY <2>2, <4>1 DEF Equipped
    <3>2. CASE q \notin sharing
      BY <1>0, <2>2, <2>3, <3>2 DEF Equipped, Grows
    <3> QED BY <3>1, <3>2
  <2>5. proc' \in [Procs -> Command]
    BY <2>3, <2>4
  <2> QED BY <1>0, <1>5, <2>1, <2>2, <2>4, <2>5 DEF TypeOK
<1>15. ASSUME NEW p \in Procs, Refuse(p) PROVE TypeInv'
  <2>1. /\ RefuseExchange(proc[p]) /\ proc' = [proc EXCEPT ![p] = Idle]
        /\ vaults' = vaults /\ UNCHANGED <<clocks, session, tables, losses>>
    BY <1>15 DEF Refuse, RefuseExchange
  <2>2. AutherTyped' /\ Grows
    BY <1>0, <2>1, Refused
  <2>3. proc' \in [Procs -> Command] /\ \A q \in Procs : Equipped(proc[q])'
    BY <1>7, <2>1, <2>2, Advance, EquippedStays
  <2> QED BY <1>0, <1>5, <2>1, <2>2, <2>3 DEF TypeOK
<1>16. ASSUME NEW p \in Procs, SaveSession(p) PROVE TypeInv'
  <2>0. PICK c : c = [proc[p] EXCEPT !.pc = "sending", !.token = proc[p].new, !.new = NoToken]
    OBVIOUS
  <2>1. /\ proc[p].pc = "answered" /\ UNCHANGED <<auther, clocks, data, losses>>
        /\ session' = [session EXCEPT ![Home[p]] = Saved(p)]
        /\ \/ proc' = [proc EXCEPT ![p] = Idle]
           \/ proc' = [proc EXCEPT ![p] = c]
    BY <1>0, <1>16, <2>0 DEF SaveSession
  <2>2. proc[p].new \in Auther!Issued /\ proc[p].new \in Tokens /\ owner[proc[p].new] \in Users
        /\ proc[p].user \in Users
    BY <1>0, <2>1 DEF Equipped, AutherTyped
  <2>3. AutherTyped' /\ Grows
    BY <1>0, <2>1, AutherUnchanged
  <2>4. Saved(p) \in Session /\ Saved(p).token = proc[p].new
    BY <2>2 DEF Saved, Session
  <2>5. /\ session' \in [Devices -> Session \cup {NoSession}]
        /\ \A d \in Devices : session'[d] # NoSession => session'[d].token \in Auther!Issued'
    BY <1>0, <2>1, <2>2, <2>3, <2>4 DEF TypeOK, Grows
  <2>6. /\ c \in Command /\ c.pc = "sending" /\ c.token = proc[p].new /\ c.user = proc[p].user
    BY <1>0, <2>0, <2>2 DEF Command
  <2>7. Equipped(c)' /\ Equipped(Idle)'
    <3>1. Equipped(c)'
      BY <2>2, <2>3, <2>6 DEF Equipped, Grows
    <3> QED BY <1>7, <2>3, <3>1, EquippedStays
  <2>8. proc' \in [Procs -> Command] /\ \A q \in Procs : Equipped(proc[q])'
    BY <1>7, <2>1, <2>3, <2>6, <2>7, Advance
  <2>9. orphans' = orphans /\ lost' = lost /\ tables' = tables /\ vaults' = vaults
    BY <2>1 DEF losses, data
  <2>10. orphans' \subseteq Command /\ \A x \in orphans' : Equipped(x)'
    BY <1>1, <2>3, <2>9
  <2>11. nearExpiry' \subseteq Auther!Issued' /\ expired' \subseteq nearExpiry'
    BY <1>3, <2>1, <2>3
  <2> QED BY <1>0, <2>3, <2>5, <2>8, <2>9, <2>10, <2>11 DEF TypeInv, TypeOK, AutherTyped
<1>17. ASSUME NEW p \in Procs, AnswerVault(p) PROVE TypeInv'
  <2>0. PICK c : c = [proc[p] EXCEPT !.pc = "received", !.load = vaults'[Account(proc[p])]]
    OBVIOUS
  <2>1. /\ proc[p].pc = "sending" /\ proc' = [proc EXCEPT ![p] = c]
        /\ vaults' = [vaults EXCEPT ![Account(proc[p])] = @ \cup proc[p].load]
        /\ UNCHANGED <<auther, clocks, session, tables, losses>>
    <3>1. ServeVault(proc[p]) /\ UNCHANGED <<clocks, session, tables, losses>>
      BY <1>17 DEF AnswerVault
    <3>2. proc' = [proc EXCEPT ![p] = c]
      BY <1>0, <1>17, <2>0 DEF AnswerVault
    <3> QED BY <3>1, <3>2 DEF ServeVault
  <2>2. proc[p].token \in Auther!Issued /\ Account(proc[p]) \in Users /\ proc[p].user \in Users
        /\ proc[p].load \subseteq Users
    BY <1>0, <2>1 DEF Equipped, AutherTyped, Account, Command
  <2>3. vaults' \in [Users -> SUBSET Users] /\ vaults'[Account(proc[p])] \subseteq Users
    BY <1>0, <2>1, <2>2 DEF TypeOK
  <2>4. AutherTyped' /\ Grows
    BY <1>0, <2>1, AutherUnchanged
  <2>5. c \in Command /\ c.pc = "received" /\ c.token = proc[p].token /\ c.user = proc[p].user
    BY <1>0, <2>0, <2>3 DEF Command
  <2>6. Equipped(c)'
    BY <2>2, <2>4, <2>5 DEF Equipped, Grows
  <2>7. proc' \in [Procs -> Command] /\ \A q \in Procs : Equipped(proc[q])'
    BY <2>1, <2>4, <2>5, <2>6, Advance
  <2> QED BY <1>0, <1>5, <2>1, <2>3, <2>4, <2>7 DEF TypeOK
<1>18. ASSUME NEW p \in Procs, Persist(p) \/ \E adds \in BOOLEAN : SaveEntry(p, adds) PROVE TypeInv'
  <2> DEFINE u == proc[p].user
             sealing == [Idle EXCEPT !.pc = "sealing", !.call = "putCrypto", !.user = u]
             publishing == [proc[p] EXCEPT !.pc = "authorising", !.load = tables[Home[p]][u] \cup {u}]
  <2>1. /\ UNCHANGED <<auther, clocks, session, vaults, losses>>
        /\ proc[p].pc \in {"received", "sealing"}
        /\ \/ tables' = tables
           \/ tables' = [tables EXCEPT ![Home[p]][u] = @ \cup proc[p].load]
           \/ tables' = [tables EXCEPT ![Home[p]][u] = @ \cup {u}]
    BY <1>18 DEF Persist, SaveEntry
  <2>2. u \in Users /\ proc[p].load \subseteq Users
    BY <1>0, <2>1 DEF Equipped, Command
  <2>3. tables' \in [Devices -> [Users -> SUBSET Users]] /\ tables[Home[p]][u] \subseteq Users
    <3>1. tables \in [Devices -> [Users -> SUBSET Users]]
      BY <1>0 DEF TypeOK
    <3>2. PICK added \in SUBSET Users :
            tables' = tables \/ tables' = [tables EXCEPT ![Home[p]][u] = @ \cup added]
      BY <2>1, <2>2
    <3>3. tables[Home[p]] \in [Users -> SUBSET Users] /\ tables[Home[p]][u] \cup added \in SUBSET Users
      BY <1>0, <2>2, <3>1
    <3>4. PICK row : row = [tables[Home[p]] EXCEPT ![u] = @ \cup added]
      OBVIOUS
    <3>5. row \in [Users -> SUBSET Users]
      BY <3>3, <3>4
    <3>6. tables' = tables \/ tables' = [tables EXCEPT ![Home[p]] = row]
      BY <3>2, <3>4
    <3>7. \A rows : tables \in [Devices -> rows] /\ row \in rows => tables' \in [Devices -> rows]
      BY <3>6
    <3> QED BY <3>1, <3>3, <3>5, <3>7
  <2>4. AutherTyped' /\ Grows
    BY <1>0, <2>1, AutherUnchanged
  <2>5. PICK c \in {Idle, sealing, publishing} : proc' = [proc EXCEPT ![p] = c]
    BY <1>0, <1>18 DEF Persist, SaveEntry
  <2>6. c \in Command /\ Equipped(c)
    <3>1. sealing \in Command /\ sealing.pc = "sealing" /\ sealing.user = u
      BY <2>2 DEF Idle, Command
    <3>2. publishing \in Command /\ publishing.pc = "authorising" /\ publishing.user = u
      BY <1>0, <2>2, <2>3 DEF Command
    <3> QED BY <1>7, <2>2, <3>1, <3>2 DEF Equipped
  <2>7. proc' \in [Procs -> Command] /\ \A q \in Procs : Equipped(proc[q])'
    BY <2>4, <2>5, <2>6, Advance, EquippedStays
  <2> QED BY <1>0, <1>5, <2>1, <2>3, <2>4, <2>7 DEF TypeOK
<1>19. ASSUME NEW p \in Procs, Abandon(p) PROVE TypeInv'
  <2>1. /\ proc' = [proc EXCEPT ![p] = Idle] /\ lost' = lost + 1 /\ lost < MaxLost
        /\ orphans' \subseteq orphans \cup {proc[p]}
        /\ UNCHANGED <<auther, clocks, session, data>>
    BY <1>19 DEF Abandon
  <2>2. AutherTyped' /\ Grows /\ tables' = tables /\ vaults' = vaults
    BY <1>0, <2>1, AutherUnchanged DEF data
  <2>3. orphans' \subseteq Command /\ \A c \in orphans' : Equipped(c)'
    <3>1. \A c \in orphans \cup {proc[p]} : c \in Command /\ Equipped(c)
      BY <1>0
    <3> QED BY <2>1, <2>2, <3>1, EquippedStays
  <2>4. proc' \in [Procs -> Command] /\ \A q \in Procs : Equipped(proc[q])'
    BY <1>7, <2>1, <2>2, Advance, EquippedStays
  <2>5. lost' \in 0..MaxLost
    BY <1>0, <2>1, BoundAssumption DEF TypeOK
  <2> QED BY <1>0, <1>3, <1>4, <2>1, <2>2, <2>3, <2>4, <2>5 DEF TypeInv, TypeOK, AutherTyped
<1>20. ASSUME NEW c \in orphans, ServeOrphan(c) PROVE TypeInv'
  <2>1. /\ orphans' \subseteq orphans
        /\ UNCHANGED <<clocks, session, tables, proc, lost>>
    BY <1>20 DEF ServeOrphan
  <2>2. AutherTyped' /\ Grows
    BY <1>0, <1>20, Served, Refused DEF ServeOrphan
  <2>3. vaults' \in [Users -> SUBSET Users]
    <3>1. CASE ServeVault(c)
      BY <1>0, <3>1 DEF ServeVault, Account, Equipped, AutherTyped, TypeOK, Command
    <3>2. CASE vaults' = vaults
      BY <1>0, <3>2 DEF TypeOK
    <3> QED BY <1>20, <3>1, <3>2 DEF ServeOrphan, ServeLogin, ServeExchange, RefuseExchange
  <2>4. orphans' \subseteq Command /\ \A x \in orphans' : Equipped(x)'
    BY <1>0, <2>1, <2>2, EquippedStays
  <2>5. proc' \in [Procs -> Command] /\ \A q \in Procs : Equipped(proc[q])'
    BY <1>2, <2>1, <2>2
  <2> QED BY <1>0, <1>3, <1>4, <2>1, <2>2, <2>3, <2>4, <2>5 DEF TypeInv, TypeOK, AutherTyped
<1>21. CASE UNCHANGED vars
  <2>1. AutherTyped' /\ Grows /\ clocks' = clocks /\ session' = session /\ data' = data
        /\ proc' = proc /\ losses' = losses
    BY <1>0, <1>21, AutherUnchanged DEF vars
  <2> QED BY <1>0, <1>2, <1>5, <2>1 DEF TypeOK, data
<1> QED
  BY <1>8, <1>9, <1>10, <1>11, <1>12, <1>13, <1>14, <1>15, <1>16, <1>17, <1>18, <1>19, <1>20, <1>21
  DEF Next

\* Every reachable state is well typed, however many processes run: in particular a
\* stored session always holds a token the auther has issued (SaveSession,
\* session.go).
THEOREM TypeCorrect == Spec => []TypeOK
<1>1. TypeInv => TypeOK
  BY DEF TypeInv
<1> QED BY <1>1, TypeInit, TypeStep, PTL DEF Spec

------------------------------------------------------------------------------
(* Accounts. *)

LEMMA AccountsInit == Init => AccountsInv
<1> SUFFICES ASSUME Init PROVE AccountsInv
  OBVIOUS
<1>1. Idle.pc = "idle" /\ Idle.load = {}
  BY DEF Idle
<1>2. AccountsSeparate
  BY DEF Init, AccountsSeparate
<1>3. \A p \in Procs : OwnUser(proc[p]) /\ SameSession(p)
  BY <1>1 DEF Init, OwnUser, SameSession
<1> QED BY <1>2, <1>3, TypeInit, HomeAssumption DEF Init, AccountsInv

LEMMA OwnUserStays ==
  ASSUME Grows, NEW c, Equipped(c), OwnUser(c)
  PROVE  OwnUser(c)'
BY DEF Equipped, OwnUser, Grows

\* p moves on to c, and the session on its device stays as it is.
LEMMA OwnMove ==
  ASSUME AccountsInv, Grows, session' = session,
         NEW p \in Procs, NEW c, OwnUser(c)', proc' = [proc EXCEPT ![p] = c],
         \/ c.pc = "idle" \/ c.call = "login"
         \/ /\ session[Home[p]] # NoSession
            /\ session[Home[p]].user = c.user
  PROVE  \A q \in Procs : OwnUser(proc[q])' /\ SameSession(q)'
<1> SUFFICES ASSUME NEW q \in Procs PROVE OwnUser(proc[q])' /\ SameSession(q)'
  OBVIOUS
<1>1. /\ proc \in [Procs -> Command] /\ Equipped(proc[q]) /\ OwnUser(proc[q]) /\ SameSession(q)
  BY DEF AccountsInv, TypeInv, TypeOK
<1>2. CASE q = p
  <2>1. proc'[q] = c
    BY <1>1, <1>2
  <2> QED BY <1>2, <2>1 DEF OwnUser, SameSession
<1>3. CASE q # p
  <2>1. proc'[q] = proc[q]
    BY <1>1, <1>3
  <2>2. OwnUser(proc[q])'
    BY <1>1, <2>1 DEF Equipped, OwnUser, Grows
  <2>3. SameSession(q)'
    BY <1>1, <2>1 DEF SameSession
  <2> QED BY <2>2, <2>3
<1> QED BY <1>2, <1>3

LEMMA SavedIsSession ==
  ASSUME AccountsInv, NEW p \in Procs, proc[p].pc = "answered"
  PROVE  Saved(p) \in Session
BY DEF AccountsInv, TypeInv, TypeOK, Equipped, Saved, Session

\* A call works on the account of the user it was made for.
LEMMA VaultStaysOwn ==
  ASSUME TypeOK, AccountsSeparate, NEW c \in Command, Equipped(c), OwnUser(c), c.pc = "sending",
         vaults' = [vaults EXCEPT ![Account(c)] = @ \cup c.load], tables' = tables
  PROVE  AccountsSeparate' /\ Account(c) = c.user /\ vaults'[c.user] \subseteq {c.user}
<1>1. c.user \in Users /\ Account(c) = c.user /\ c.load \subseteq {c.user}
  BY DEF Equipped, OwnUser, Account
<1>2. \A u \in Users : vaults'[u] \subseteq {u}
  BY <1>1 DEF TypeOK, AccountsSeparate
<1> QED BY <1>1, <1>2 DEF AccountsSeparate

LEMMA AccountsStep == OneProcess /\ AccountsInv /\ [Next]_vars => AccountsInv'
<1> SUFFICES ASSUME OneProcess, AccountsInv, [Next]_vars PROVE AccountsInv'
  OBVIOUS
<1> DEFINE Owned == \A d \in Devices : session[d] # NoSession => owner[session[d].token] = session[d].user
           Moved == \A p \in Procs : OwnUser(proc[p])' /\ SameSession(p)'
<1>0. /\ TypeOK /\ AutherTyped /\ TypeInv' /\ AccountsSeparate /\ Owned
      /\ proc \in [Procs -> Command]
      /\ \A p \in Procs : /\ Equipped(proc[p]) /\ proc[p] \in Command /\ Home[p] \in Devices
                          /\ OwnUser(proc[p]) /\ SameSession(p)
      /\ \A c \in orphans : Equipped(c) /\ c \in Command /\ OwnUser(c)
  BY TypeStep, HomeAssumption DEF AccountsInv, TypeInv, TypeOK, AutherTyped
<1>1. ASSUME Grows, session' = session PROVE Owned'
  BY <1>0, <1>1 DEF TypeOK, Grows
<1>2. ASSUME Grows, orphans' \subseteq orphans PROVE \A c \in orphans' : OwnUser(c)'
  BY <1>0, <1>2, OwnUserStays
<1>3. ASSUME Grows, session' = session, proc' = proc PROVE Moved
  BY <1>0, <1>3 DEF Equipped, OwnUser, SameSession, Grows
<1>4. ASSUME data' = data PROVE AccountsSeparate'
  BY <1>0, <1>4 DEF AccountsSeparate, data
<1>5. Idle.pc = "idle" /\ OwnUser(Idle) /\ OwnUser(Idle)'
  BY DEF Idle, OwnUser
<1>6. ASSUME UNCHANGED <<auther, session, data, losses>>,
             NEW p \in Procs, NEW c, proc' = [proc EXCEPT ![p] = c], OwnUser(c),
             \/ c.pc = "idle" \/ c.call = "login"
             \/ session[Home[p]] # NoSession /\ session[Home[p]].user = c.user
      PROVE  AccountsInv'
  <2>1. Grows /\ orphans' = orphans /\ session' = session /\ data' = data
    BY <1>0, <1>6, AutherUnchanged DEF losses
  <2>2. OwnUser(c)'
    BY <1>6 DEF OwnUser, auther
  <2>3. Moved
    BY <1>6, <2>1, <2>2, OwnMove
  <2> QED BY <1>0, <1>1, <1>2, <1>4, <2>1, <2>3 DEF AccountsInv
<1>8. ASSUME NEW t \in Tokens, NearExpiry(t) \/ Expire(t) PROVE AccountsInv'
  <2>1. Grows /\ session' = session /\ data' = data /\ proc' = proc /\ orphans' = orphans
    BY <1>0, <1>8, AutherUnchanged DEF NearExpiry, Expire, losses
  <2> QED BY <1>0, <1>1, <1>2, <1>3, <1>4, <2>1 DEF AccountsInv
<1>9. ASSUME NEW p \in Procs, NEW u \in Users, StartLogin(p, u) PROVE AccountsInv'
  <2>0. PICK c : c = [Idle EXCEPT !.pc = "loggingIn", !.user = u]
    OBVIOUS
  <2>1. c.pc = "loggingIn" /\ c.call = "login" /\ OwnUser(c)
    BY <2>0 DEF Idle, OwnUser
  <2>2. proc' = [proc EXCEPT ![p] = c] /\ UNCHANGED <<auther, session, data, losses>>
    BY <1>9, <2>0 DEF StartLogin
  <2> QED BY <1>6, <2>1, <2>2
<1>10. ASSUME NEW p \in Procs, Logout(p) PROVE AccountsInv'
  <2>1. Grows /\ data' = data /\ proc' = proc /\ orphans' = orphans
    BY <1>0, <1>10, AutherUnchanged DEF Logout, losses
  <2>2. proc[p].pc = "idle" /\ session' = [session EXCEPT ![Home[p]] = NoSession]
    BY <1>10 DEF Logout
  <2>3. Owned'
    BY <1>0, <2>1, <2>2 DEF TypeOK, Grows
  <2>4. ASSUME NEW q \in Procs PROVE OwnUser(proc[q])' /\ SameSession(q)'
    <3>1. OwnUser(proc[q])'
      BY <1>0, <2>1 DEF Equipped, OwnUser, Grows
    <3>2. q = p \/ session'[Home[q]] = session[Home[q]]
      BY <1>0, <2>2 DEF TypeOK, OneProcess
    <3> QED BY <1>0, <2>1, <2>2, <3>1, <3>2 DEF SameSession
  <2> QED BY <1>0, <1>2, <1>4, <2>1, <2>3, <2>4 DEF AccountsInv
<1>11. ASSUME NEW p \in Procs, NEW call \in {"sync", "getCrypto"}, Begin(p, call) PROVE AccountsInv'
  <2> DEFINE s == session[Home[p]]
             load == IF call = "sync" THEN tables[Home[p]][s.user] ELSE {}
  <2>0. PICK c : c = [Idle EXCEPT !.pc = "authorising", !.call = call, !.user = s.user, !.load = load]
    OBVIOUS
  <2>1. s \in Session /\ s # NoSession /\ s.user \in Users
    BY <1>0, <1>11 DEF Begin, TypeOK, Session
  <2>2. load \subseteq {s.user}
    BY <1>0, <2>1 DEF AccountsSeparate
  <2>3. c.pc = "authorising" /\ c.call = call /\ c.user = s.user /\ c.load = load
    BY <2>0 DEF Idle
  <2>4. proc' = [proc EXCEPT ![p] = c] /\ UNCHANGED <<auther, session, data, losses>>
    BY <1>11, <2>0 DEF Begin
  <2>5. OwnUser(c)
    BY <2>2, <2>3 DEF OwnUser
  <2> QED BY <1>6, <2>1, <2>3, <2>4, <2>5
<1>12. ASSUME NEW p \in Procs, Authorise(p) PROVE AccountsInv'
  <2> DEFINE s == session[Home[p]]
  <2>1. PICK c \in {Idle, [proc[p] EXCEPT !.pc = "sending", !.token = s.token],
                     [proc[p] EXCEPT !.pc = "refreshing", !.token = s.token]} :
          /\ proc' = [proc EXCEPT ![p] = c]
          /\ UNCHANGED <<auther, session, data, losses>>
    BY <1>0, <1>12 DEF Authorise
  <2>2. CASE c = Idle
    BY <1>5, <1>6, <2>1, <2>2
  <2>3. CASE c # Idle
    <3>1. proc[p].pc = "authorising"
      BY <1>12 DEF Authorise
    <3>2. /\ c.pc \in {"sending", "refreshing"} /\ c.token = s.token
          /\ c.user = proc[p].user /\ c.load = proc[p].load /\ c.call = proc[p].call
      BY <1>0, <2>1, <2>3 DEF Command
    <3>3. s # NoSession /\ s.user = proc[p].user /\ proc[p].call # "login"
      BY <1>0, <3>1 DEF OwnUser, SameSession
    <3>4. OwnUser(c)
      BY <1>0, <3>1, <3>2, <3>3 DEF OwnUser
    <3> QED BY <1>6, <2>1, <3>2, <3>3, <3>4
  <2> QED BY <2>2, <2>3
<1>13. ASSUME NEW p \in Procs, NEW n \in Tokens, AnswerLogin(p, n) PROVE AccountsInv'
  <2>0. PICK c : c = [proc[p] EXCEPT !.pc = "answered", !.new = n]
    OBVIOUS
  <2>1. /\ ServeLogin(proc[p], n) /\ proc' = [proc EXCEPT ![p] = c] /\ proc[p].pc = "loggingIn"
        /\ data' = data /\ session' = session /\ orphans' = orphans
    BY <1>0, <1>13, <2>0 DEF AnswerLogin, ServeLogin, data, losses
  <2>2. Grows /\ owner'[n] = proc[p].user
    BY <1>0, <2>1, Served
  <2>3. /\ c.pc = "answered" /\ c.new = n /\ c.user = proc[p].user
        /\ c.call = proc[p].call /\ c.load = proc[p].load
    BY <1>0, <2>0 DEF Command
  <2>4. OwnUser(c)'
    BY <1>0, <2>2, <2>3 DEF OwnUser
  <2>5. Moved
    BY <1>0, <2>1, <2>2, <2>3, <2>4, OwnMove DEF SameSession
  <2> QED BY <1>0, <1>1, <1>2, <1>4, <2>1, <2>2, <2>5 DEF AccountsInv
<1>14. ASSUME NEW p \in Procs, NEW n \in Tokens, AnswerExchange(p, n) PROVE AccountsInv'
  <2>1. /\ ServeExchange(proc[p], n) /\ proc[p].pc = "refreshing"
        /\ data' = data /\ session' = session /\ orphans' = orphans
    BY <1>14 DEF AnswerExchange, ServeExchange, data, losses
  <2>2. Grows /\ owner'[n] = owner[proc[p].token]
    BY <1>0, <2>1, Served
  <2>3. PICK sharing \in SUBSET {q \in Procs : proc[q].pc = "refreshing" /\ proc[q].token = proc[p].token} :
          proc' = [q \in Procs |->
            IF q \in sharing THEN [proc[q] EXCEPT !.pc = "answered", !.new = n] ELSE proc[q]]
    BY <1>14 DEF AnswerExchange
  <2>4. ASSUME NEW q \in Procs PROVE OwnUser(proc[q])' /\ SameSession(q)'
    <3>1. CASE q \in sharing
      <4>1. /\ proc'[q].pc = "answered" /\ proc'[q].new = n /\ proc'[q].user = proc[q].user
            /\ proc'[q].call = proc[q].call /\ proc'[q].load = proc[q].load
        BY <1>0, <2>3, <3>1 DEF Command
      <4>2. owner'[n] = proc[q].user
        BY <1>0, <2>2, <2>3, <3>1 DEF OwnUser
      <4>3. OwnUser(proc[q])'
        BY <1>0, <4>1, <4>2 DEF OwnUser
      <4>4. SameSession(q)'
        BY <1>0, <2>1, <2>3, <3>1, <4>1 DEF SameSession
      <4> QED BY <4>3, <4>4
    <3>2. CASE q \notin sharing
      <4>1. proc'[q] = proc[q]
        BY <2>3, <3>2
      <4> QED BY <1>0, <2>1, <2>2, <4>1 DEF Equipped, OwnUser, SameSession, Grows
    <3> QED BY <3>1, <3>2
  <2> QED BY <1>0, <1>1, <1>2, <1>4, <2>1, <2>2, <2>4 DEF AccountsInv
<1>15. ASSUME NEW p \in Procs, Refuse(p) PROVE AccountsInv'
  <2>1. /\ RefuseExchange(proc[p]) /\ proc' = [proc EXCEPT ![p] = Idle]
        /\ data' = data /\ session' = session /\ orphans' = orphans
    BY <1>15 DEF Refuse, RefuseExchange, data, losses
  <2>2. Grows
    BY <1>0, <2>1, Refused
  <2>3. Moved
    BY <1>5, <2>1, <2>2, OwnMove
  <2> QED BY <1>0, <1>1, <1>2, <1>4, <2>1, <2>2, <2>3 DEF AccountsInv
<1>16. ASSUME NEW p \in Procs, SaveSession(p) PROVE AccountsInv'
  <2>0. PICK c : c = IF proc[p].call = "login" THEN Idle
                     ELSE [proc[p] EXCEPT !.pc = "sending", !.token = proc[p].new, !.new = NoToken]
    OBVIOUS
  <2>1. /\ proc[p].pc = "answered" /\ data' = data /\ orphans' = orphans
        /\ session' = [session EXCEPT ![Home[p]] = Saved(p)]
        /\ proc' = [proc EXCEPT ![p] = c]
    BY <1>0, <1>16, <2>0 DEF SaveSession, losses
  <2>2. Grows /\ owner' = owner
    BY <1>0, <1>16, AutherUnchanged DEF SaveSession, auther
  <2>3. Saved(p).token = proc[p].new /\ Saved(p).user = proc[p].user /\ Saved(p) # NoSession
        /\ owner[proc[p].new] = proc[p].user
    BY <1>0, <2>1, SavedIsSession, NoneAssumption DEF OwnUser, Saved, Session
  <2>4. Owned'
    BY <1>0, <2>1, <2>2, <2>3 DEF TypeOK
  <2>5. ASSUME NEW q \in Procs PROVE OwnUser(proc[q])' /\ SameSession(q)'
    <3>1. CASE q = p /\ proc[p].call = "login"
      <4>1. proc'[q] = Idle
        BY <1>0, <2>0, <2>1, <3>1
      <4> QED BY <1>5, <4>1 DEF OwnUser, SameSession
    <3>2. CASE q = p /\ proc[p].call # "login"
      <4>1. /\ proc'[q] = c /\ c.pc = "sending" /\ c.token = proc[p].new
            /\ c.user = proc[p].user /\ c.call = proc[p].call /\ c.load = proc[p].load
        BY <1>0, <2>0, <2>1, <3>2 DEF Command
      <4>2. session'[Home[q]] = Saved(p)
        BY <1>0, <2>1, <3>2 DEF TypeOK
      <4>3. OwnUser(proc[q])'
        BY <1>0, <2>2, <2>3, <3>2, <4>1 DEF OwnUser
      <4>4. SameSession(q)'
        BY <2>3, <4>1, <4>2 DEF SameSession
      <4> QED BY <4>3, <4>4
    <3>3. CASE q # p
      <4>1. proc'[q] = proc[q] /\ session'[Home[q]] = session[Home[q]]
        BY <1>0, <2>1, <3>3 DEF TypeOK, OneProcess
      <4> QED BY <1>0, <2>2, <4>1 DEF OwnUser, SameSession
    <3> QED BY <3>1, <3>2, <3>3
  <2> QED BY <1>0, <1>2, <1>4, <2>1, <2>2, <2>4, <2>5 DEF AccountsInv
<1>17. ASSUME NEW p \in Procs, AnswerVault(p) PROVE AccountsInv'
  <2>0. PICK c : c = [proc[p] EXCEPT !.pc = "received", !.load = vaults'[Account(proc[p])]]
    OBVIOUS
  <2>1. /\ proc[p].pc = "sending" /\ proc' = [proc EXCEPT ![p] = c]
        /\ vaults' = [vaults EXCEPT ![Account(proc[p])] = @ \cup proc[p].load]
        /\ tables' = tables /\ session' = session /\ orphans' = orphans
    <3>1. ServeVault(proc[p]) /\ UNCHANGED <<clocks, session, tables, losses>>
      BY <1>17 DEF AnswerVault
    <3>2. proc' = [proc EXCEPT ![p] = c]
      BY <1>0, <1>17, <2>0 DEF AnswerVault
    <3> QED BY <3>1, <3>2 DEF ServeVault, losses
  <2>2. Grows
    BY <1>0, <1>17, AutherUnchanged DEF AnswerVault, ServeVault
  <2>3. AccountsSeparate' /\ vaults'[proc[p].user] \subseteq {proc[p].user}
        /\ Account(proc[p]) = proc[p].user
    BY <1>0, <2>1, VaultStaysOwn
  <2>4. /\ c.pc = "received" /\ c.load = vaults'[proc[p].user] /\ c.user = proc[p].user
        /\ c.call = proc[p].call /\ c.token = proc[p].token
    BY <1>0, <2>0, <2>3 DEF Command
  <2>5. OwnUser(c)'
    BY <1>0, <2>1, <2>2, <2>3, <2>4 DEF OwnUser, Equipped, Grows
  <2>6. Moved
    BY <1>0, <2>1, <2>2, <2>4, <2>5, OwnMove DEF SameSession
  <2> QED BY <1>0, <1>1, <1>2, <2>1, <2>2, <2>3, <2>6 DEF AccountsInv
<1>18. ASSUME NEW p \in Procs, Persist(p) \/ \E adds \in BOOLEAN : SaveEntry(p, adds)
       PROVE  AccountsInv'
  <2> DEFINE u == proc[p].user
             sealing == [Idle EXCEPT !.pc = "sealing", !.call = "putCrypto", !.user = u]
             publishing == [proc[p] EXCEPT !.pc = "authorising", !.load = tables[Home[p]][u] \cup {u}]
  <2>1. /\ vaults' = vaults /\ session' = session /\ orphans' = orphans
        /\ proc[p].pc \in {"received", "sealing"}
        /\ \/ tables' = tables
           \/ tables' = [tables EXCEPT ![Home[p]][u] = @ \cup proc[p].load]
           \/ tables' = [tables EXCEPT ![Home[p]][u] = @ \cup {u}]
    BY <1>18 DEF Persist, SaveEntry, losses
  <2>2. Grows
    BY <1>0, <1>18, AutherUnchanged DEF Persist, SaveEntry
  <2>3. u \in Users /\ proc[p].load \subseteq {u} /\ proc[p].call # "login"
        /\ session[Home[p]] # NoSession /\ session[Home[p]].user = u
        /\ tables[Home[p]][u] \subseteq {u}
    BY <1>0, <2>1 DEF Equipped, OwnUser, SameSession, AccountsSeparate
  <2>4. AccountsSeparate'
    <3>1. PICK added \in SUBSET {u} :
            tables' = tables \/ tables' = [tables EXCEPT ![Home[p]][u] = @ \cup added]
      BY <2>1, <2>3
    <3>2. \A d \in Devices, v \in Users :
            \/ tables'[d][v] = tables[d][v]
            \/ v = u /\ tables'[d][v] = tables[d][v] \cup added
      <4>1. PICK row : row = [tables[Home[p]] EXCEPT ![u] = @ \cup added]
        OBVIOUS
      <4>2. tables' = tables \/ tables' = [tables EXCEPT ![Home[p]] = row]
        BY <3>1, <4>1
      <4>3. \A d \in Devices : tables' = tables \/ tables'[d] = IF d = Home[p] THEN row ELSE tables[d]
        BY <1>0, <4>2 DEF TypeOK
      <4>4. \A v \in Users : row[v] = IF v = u THEN tables[Home[p]][u] \cup added ELSE tables[Home[p]][v]
        BY <1>0, <4>1 DEF TypeOK
      <4> QED BY <4>3, <4>4
    <3> QED BY <1>0, <2>1, <3>2 DEF AccountsSeparate
  <2>5. PICK c \in {Idle, sealing, publishing} : proc' = [proc EXCEPT ![p] = c]
    BY <1>0, <1>18 DEF Persist, SaveEntry
  <2>6. /\ OwnUser(c)'
        /\ \/ c.pc = "idle"
           \/ session[Home[p]] # NoSession /\ session[Home[p]].user = c.user
    <3>1. /\ sealing.pc = "sealing" /\ sealing.user = u /\ sealing.load = {}
          /\ sealing.call = "putCrypto"
      BY DEF Idle
    <3>2. /\ publishing.pc = "authorising" /\ publishing.user = u /\ publishing.load \subseteq {u}
          /\ publishing.call # "login"
      BY <1>0, <2>3 DEF Command
    <3> QED BY <1>5, <2>3, <2>5, <3>1, <3>2 DEF OwnUser
  <2>7. Moved
    BY <2>1, <2>2, <2>5, <2>6, OwnMove
  <2> QED BY <1>0, <1>1, <1>2, <2>1, <2>2, <2>4, <2>7 DEF AccountsInv
<1>19. ASSUME NEW p \in Procs, Abandon(p) PROVE AccountsInv'
  <2>1. /\ proc' = [proc EXCEPT ![p] = Idle]
        /\ orphans' \subseteq orphans \cup {proc[p]}
        /\ session' = session /\ data' = data
    BY <1>19 DEF Abandon
  <2>2. Grows
    BY <1>0, <1>19, AutherUnchanged DEF Abandon
  <2>3. \A c \in orphans' : OwnUser(c)'
    <3>1. \A c \in orphans \cup {proc[p]} : Equipped(c) /\ OwnUser(c)
      BY <1>0
    <3> QED BY <2>1, <2>2, <3>1, OwnUserStays
  <2>4. Moved
    BY <1>5, <2>1, <2>2, OwnMove
  <2> QED BY <1>0, <1>1, <1>4, <2>1, <2>2, <2>3, <2>4 DEF AccountsInv
<1>20. ASSUME NEW c \in orphans, ServeOrphan(c) PROVE AccountsInv'
  <2>1. orphans' \subseteq orphans /\ session' = session /\ tables' = tables /\ proc' = proc
    BY <1>20 DEF ServeOrphan
  <2>2. Grows
    BY <1>0, <1>20, Served, Refused DEF ServeOrphan
  <2>3. AccountsSeparate'
    <3>1. CASE ServeVault(c)
      <4>1. /\ c.pc = "sending"
            /\ vaults' = [vaults EXCEPT ![Account(c)] = @ \cup c.load]
        BY <3>1 DEF ServeVault
      <4> QED BY <1>0, <2>1, <4>1, VaultStaysOwn
    <3>2. CASE vaults' = vaults
      BY <1>0, <2>1, <3>2 DEF AccountsSeparate
    <3> QED BY <1>20, <3>1, <3>2 DEF ServeOrphan, ServeLogin, ServeExchange, RefuseExchange
  <2> QED BY <1>0, <1>1, <1>2, <1>3, <2>1, <2>2, <2>3 DEF AccountsInv
<1>21. CASE UNCHANGED vars
  <2>1. Grows /\ session' = session /\ data' = data /\ proc' = proc /\ orphans' = orphans
    BY <1>0, <1>21, AutherUnchanged DEF vars, losses
  <2> QED BY <1>0, <1>1, <1>2, <1>3, <1>4, <2>1 DEF AccountsInv
<1> QED
  BY <1>8, <1>9, <1>10, <1>11, <1>12, <1>13, <1>14, <1>15, <1>16, <1>17, <1>18, <1>19, <1>20, <1>21
  DEF Next

\* Data of one user never reaches the rows or the account of another when a device
\* runs one command at a time: the user id a command reads first and the session
\* its interceptor reads at each call are the same user's, also when the call
\* refreshes the session on its way or outlives its command.
THEOREM AccountsStaySeparate ==
  ASSUME OneProcess
  PROVE  Spec => []AccountsSeparate
<1>1. AccountsInv => AccountsSeparate
  BY DEF AccountsInv
<1>2. AccountsInv /\ [Next]_vars => AccountsInv'
  BY AccountsStep
<1> QED BY <1>1, <1>2, AccountsInit, PTL DEF Spec

------------------------------------------------------------------------------
(* Refreshing keeps the session. *)

\* What a request does to the tokens, their logins and their number; n is the
\* token it issues, if any.
LEMMA LoginsGrow ==
  ASSUME RefreshInv, NEW n,
         \/ owner' = owner /\ exchanged' = exchanged
         \/ \E u \in Users : Auther!Login(u, n)
         \/ \E t \in live : Auther!Exchange(t, n)
  PROVE  /\ Grows /\ IsFiniteSet(Auther!Issued')
         /\ \A u \in Users : Logins(u) \subseteq Logins(u)'
         /\ \A u \in Users : Auther!TokensOf(u) \subseteq Auther!TokensOf(u)'
         /\ \A u \in Users : Logins(u)' = {} => Auther!TokensOf(u)' = {}
<1>0. AutherTyped /\ IsFiniteSet(Auther!Issued)
      /\ \A u \in Users : Logins(u) = {} => Auther!TokensOf(u) = {}
  BY DEF RefreshInv, TypeInv, TypeOK, AutherTyped
<1>1. ASSUME Grows, \A x \in exchanged' : x \in exchanged \/ x[2] \notin Auther!Issued,
             NEW u \in Users
      PROVE  Logins(u) \subseteq Logins(u)' /\ Auther!TokensOf(u) \subseteq Auther!TokensOf(u)'
  <2>1. Auther!TokensOf(u) \subseteq Auther!TokensOf(u)'
    BY <1>1 DEF Grows, Auther!TokensOf
  <2>2. ASSUME NEW t \in Logins(u) PROVE t \in Logins(u)'
    <3>1. t \in Auther!TokensOf(u) /\ t \in Auther!Issued /\ \A x \in exchanged : x[2] # t
      BY <2>2 DEF Logins, Auther!TokensOf
    <3> QED BY <1>1, <2>1, <3>1 DEF Logins
  <2> QED BY <2>1, <2>2
<1>2. CASE owner' = owner /\ exchanged' = exchanged
  <2>1. Auther!Issued' = Auther!Issued
    BY <1>2 DEF Auther!Issued
  <2>2. Grows
    BY <1>2, <2>1 DEF Grows
  <2>3. \A u \in Users : Logins(u)' = Logins(u) /\ Auther!TokensOf(u)' = Auther!TokensOf(u)
    BY <1>2, <2>1 DEF Logins, Auther!TokensOf
  <2> QED BY <1>0, <2>1, <2>2, <2>3
<1>3. ASSUME NEW v \in Users, Auther!IsIssued(v, n),
             \A x \in exchanged' : x \in exchanged \/ x[2] \notin Auther!Issued,
             n \in Logins(v)' \/ Auther!TokensOf(v) # {}
      PROVE  /\ Grows /\ IsFiniteSet(Auther!Issued')
             /\ \A u \in Users : Logins(u) \subseteq Logins(u)'
             /\ \A u \in Users : Auther!TokensOf(u) \subseteq Auther!TokensOf(u)'
             /\ \A u \in Users : Logins(u)' = {} => Auther!TokensOf(u)' = {}
  <2>1. Grows /\ Auther!Issued' = Auther!Issued \cup {n} /\ owner'[n] = v
    BY <1>0, <1>3, IssuedToUser
  <2>2. IsFiniteSet(Auther!Issued')
    BY <1>0, <2>1, FS_AddElement
  <2>3. \A u \in Users : Logins(u) \subseteq Logins(u)' /\ Auther!TokensOf(u) \subseteq Auther!TokensOf(u)'
    BY <1>1, <1>3, <2>1
  <2>4. ASSUME NEW u \in Users, Logins(u)' = {} PROVE Auther!TokensOf(u)' = {}
    <3>1. Auther!TokensOf(u) = {}
      BY <1>0, <2>3, <2>4
    <3>2. u # v
      BY <1>3, <2>4, <3>1
    <3> QED BY <2>1, <3>1, <3>2 DEF Grows, Auther!TokensOf
  <2> QED BY <2>1, <2>2, <2>3, <2>4
<1>4. ASSUME NEW v \in Users, Auther!Login(v, n)
      PROVE  /\ Auther!IsIssued(v, n) /\ n \in Logins(v)'
             /\ \A x \in exchanged' : x \in exchanged
  <2>1. Auther!IsIssued(v, n) /\ exchanged' = exchanged /\ n \notin Auther!Issued
    BY <1>4 DEF Auther!Login, Auther!IsIssued
  <2>2. n \in Auther!TokensOf(v)'
    BY <1>0, <2>1, IssuedToUser DEF Auther!TokensOf
  <2>3. \A x \in exchanged : x[2] \in Auther!Issued
    BY <1>0 DEF AutherTyped
  <2> QED BY <2>1, <2>2, <2>3 DEF Logins
<1>5. ASSUME NEW t \in live, Auther!Exchange(t, n)
      PROVE  /\ owner[t] \in Users /\ Auther!IsIssued(owner[t], n)
             /\ Auther!TokensOf(owner[t]) # {}
             /\ \A x \in exchanged' : x \in exchanged \/ x[2] \notin Auther!Issued
  <2>1. t \in Auther!Issued /\ owner[t] \in Users
    BY <1>0 DEF AutherTyped
  <2>2. Auther!IsIssued(owner[t], n) /\ exchanged' = exchanged \cup {<<t, n>>} /\ n \notin Auther!Issued
    BY <1>5 DEF Auther!Exchange, Auther!IsIssued
  <2> QED BY <2>1, <2>2 DEF Auther!TokensOf
<1> QED BY <1>2, <1>3, <1>4, <1>5

\* A step does not undo what may end a session.
LEMMA UndisturbedBefore ==
  ASSUME RefreshInv, NEW u \in Users, Undisturbed(u)',
         Logins(u) \subseteq Logins(u)', Auther!TokensOf(u) \subseteq Auther!TokensOf(u)',
         expired \subseteq expired', lost' = 0 => lost = 0
  PROVE  Undisturbed(u) /\ Kept(u)
<1>1. /\ lost' = 0 /\ \A s, t \in Logins(u)' : s = t
      /\ Auther!TokensOf(u)' \cap expired' = {}
  BY DEF Undisturbed
<1>2. Undisturbed(u)
  BY <1>1 DEF Undisturbed
<1> QED BY <1>2 DEF RefreshInv

\* A device that holds a token of u holds one that was issued to u.
LEMMA HeldIsIssued ==
  ASSUME RefreshInv, NEW d \in Devices, NEW u \in Users, Holds(d, u)
  PROVE  Auther!TokensOf(u) # {}
<1>1. \A p \in Procs : Equipped(proc[p])
  BY DEF RefreshInv, TypeInv
<1>2. session[d] # NoSession => session[d].token \in Auther!Issued /\ owner[session[d].token] = session[d].user
  BY DEF RefreshInv, TypeInv, TypeOK
<1> QED BY <1>1, <1>2 DEF Holds, Carries, Equipped, Auther!TokensOf

\* A command moves on: it has no answer before or after, and goes to exchange at most
\* the token of its device's session.
LEMMA QuietMove ==
  ASSUME RefreshInv, TypeInv', NEW p \in Procs, NEW c,
         proc' = [proc EXCEPT ![p] = c], proc[p].pc # "answered", c.pc # "answered",
         c.pc = "refreshing" => /\ session[Home[p]] # NoSession
                                /\ c.token = session[Home[p]].token
                                /\ c.token \in nearExpiry,
         owner' = owner, exchanged' = exchanged,
         \A u \in Users : Undisturbed(u) => live \cap Auther!TokensOf(u) \subseteq live',
         UNCHANGED <<clocks, session, losses>>
  PROVE  RefreshInv'
<1>0. /\ proc \in [Procs -> Command] /\ Home[p] \in Devices
      /\ \A q \in Procs : Equipped(proc[q])
      /\ orphans' = orphans /\ lost' = lost /\ nearExpiry' = nearExpiry /\ expired' = expired
  BY HomeAssumption DEF RefreshInv, TypeInv, TypeOK, clocks, losses
<1>1. proc'[p] = c /\ \A q \in Procs : q # p => proc'[q] = proc[q]
  BY <1>0
<1>2. /\ IsFiniteSet(Auther!Issued')
      /\ \A u \in Users : Logins(u) \subseteq Logins(u)'
      /\ \A u \in Users : Auther!TokensOf(u) \subseteq Auther!TokensOf(u)'
      /\ \A u \in Users : Logins(u)' = {} => Auther!TokensOf(u)' = {}
  BY LoginsGrow
<1>3. ASSUME NEW u \in Users, Undisturbed(u)' PROVE Kept(u)'
  <2>1. Undisturbed(u) /\ Kept(u)
    BY <1>0, <1>2, <1>3, UndisturbedBefore
  <2>2. ASSUME NEW d \in Devices, Holds(d, u)' PROVE Holds(d, u)
    <3>1. CASE Home[p] = d /\ Carries(p, u)'
      <4>1. session[d] # NoSession /\ owner[session[d].token] = u
        BY <1>1, <3>1 DEF Carries
      <4> QED BY <4>1 DEF RefreshInv, Holds
    <3>2. CASE \E q \in Procs : Home[q] = d /\ q # p /\ Carries(q, u)'
      BY <1>1, <3>2 DEF Carries, Holds
    <3> QED BY <2>2, <3>1, <3>2 DEF Holds
  <2>3. ASSUME NEW q \in Procs, proc'[q].pc = "answered", owner'[proc'[q].new] = u
        PROVE  proc'[q].new \in live'
    <3>1. q # p /\ proc'[q] = proc[q]
      BY <1>1, <2>3
    <3>2. proc[q].new \in live /\ proc[q].new \in Auther!TokensOf(u)
      BY <1>0, <2>1, <2>3, <3>1 DEF Kept, Equipped, Auther!TokensOf
    <3> QED BY <2>1, <3>1, <3>2
  <2>4. ASSUME NEW d \in Devices, session[d] # NoSession, session[d].user = u
        PROVE  \/ session[d].token \in live'
               \/ \E q \in Procs : Home[q] = d /\ proc'[q].pc = "answered"
    <3>1. session[d].token \in Auther!TokensOf(u)
      BY <2>4 DEF RefreshInv, TypeInv, TypeOK, Auther!TokensOf
    <3>2. CASE session[d].token \in live
      BY <2>1, <3>1, <3>2
    <3>3. ASSUME NEW q \in Procs, Home[q] = d, proc[q].pc = "answered"
          PROVE  proc'[q].pc = "answered"
      BY <1>1, <3>3
    <3> QED BY <2>1, <2>4, <3>2, <3>3 DEF Kept
  <2> QED BY <2>1, <2>2, <2>3, <2>4 DEF Kept
<1> QED BY <1>0, <1>1, <1>2, <1>3 DEF RefreshInv

LEMMA RefreshInit == Init => RefreshInv
<1> SUFFICES ASSUME Init PROVE RefreshInv
  OBVIOUS
<1>1. TypeInv
  BY TypeInit
<1>2. Auther!Issued = {}
  BY DEF Init, Auther!Init, Auther!Issued
<1>3. IsFiniteSet(Auther!Issued) /\ \A u \in Users : Auther!TokensOf(u) = {}
  BY <1>2, FS_EmptySet DEF Auther!TokensOf
<1>4. \A d \in Devices : session[d] = NoSession
  BY DEF Init
<1>5. \A p \in Procs : proc[p].pc = "idle"
  BY DEF Init, Idle
<1>6. \A u \in Users : Kept(u)
  BY <1>4, <1>5 DEF Kept, Holds, Carries
<1> QED BY <1>1, <1>3, <1>4, <1>5, <1>6 DEF Init, RefreshInv

\* The first token of a login, or the one of a later login, is on its way to p.
LEMMA RefreshLogin ==
  ASSUME RefreshInv, TypeInv', NEW p \in Procs, NEW n \in Tokens, AnswerLogin(p, n)
  PROVE  RefreshInv'
<1>0. /\ AutherTyped /\ proc \in [Procs -> Command] /\ Home[p] \in Devices
      /\ \A q \in Procs : Equipped(proc[q])
      /\ nearExpiry \subseteq Auther!Issued
  BY HomeAssumption DEF RefreshInv, TypeInv, TypeOK, AutherTyped
<1>user. PICK v \in Users : v = proc[p].user /\ Auther!Login(v, n)
  BY <1>0 DEF AnswerLogin, ServeLogin, Equipped
<1>1. /\ proc[p].pc = "loggingIn" /\ v \in Users /\ Auther!Login(v, n)
      /\ proc' = [proc EXCEPT ![p].pc = "answered", ![p].new = n]
      /\ orphans' = orphans /\ lost' = lost /\ nearExpiry' = nearExpiry /\ expired' = expired
      /\ session' = session
  BY <1>0, <1>user DEF AnswerLogin, ServeLogin, losses, clocks
<1>2. /\ Grows /\ IsFiniteSet(Auther!Issued')
      /\ \A u \in Users : Logins(u) \subseteq Logins(u)'
      /\ \A u \in Users : Auther!TokensOf(u) \subseteq Auther!TokensOf(u)'
      /\ \A u \in Users : Logins(u)' = {} => Auther!TokensOf(u)' = {}
  BY <1>1, LoginsGrow
<1>3. /\ proc'[p].pc = "answered" /\ proc'[p].new = n
      /\ \A q \in Procs : q # p => proc'[q] = proc[q]
  BY <1>0, <1>1 DEF Command
<1>4. /\ n \notin Auther!Issued /\ owner'[n] = v /\ n \in live' /\ n \in Auther!Issued'
      /\ \A t \in live : owner[t] # v => t \in live'
  <2>1. n \notin Auther!Issued /\ Auther!IsIssued(v, n)
    BY <1>1 DEF Auther!Login, Auther!IsIssued
  <2>2. owner'[n] = v /\ n \in Auther!Issued'
    BY <1>0, <1>1, <2>1, IssuedToUser
  <2> QED BY <1>1, <2>1, <2>2 DEF Auther!Login, Auther!TokensOf
<1>5. ASSUME NEW q \in Procs, NEW u \in Users, q # p, Carries(q, u)'
      PROVE  Carries(q, u)
  BY <1>0, <1>2, <1>3, <1>5 DEF Carries, Equipped, Grows
<1>6. ASSUME NEW u \in Users, Undisturbed(u)' PROVE Kept(u)'
  <2>1. Undisturbed(u) /\ Kept(u)
    BY <1>1, <1>2, <1>6, UndisturbedBefore
  <2>2. CASE u = v
    <3>1. n \in Logins(v)' /\ n \notin Logins(v)
      BY <1>0, <1>1, <1>4 DEF Logins, Auther!TokensOf, Auther!Login, AutherTyped
    <3>2. Logins(v) = {}
      BY <1>2, <1>6, <2>2, <3>1 DEF Undisturbed
    <3>3. \A d \in Devices : ~ Holds(d, v)
      BY <1>1, <3>2, HeldIsIssued DEF RefreshInv
    <3>4. \A q \in Procs : Home[q] \in Devices /\ (q # p => ~ Carries(q, v))
      BY <3>3, HomeAssumption DEF Holds
    <3>5. \A q \in Procs : Carries(q, v)' => q = p
      BY <1>1, <1>5, <3>4
    <3>6. \A d \in Devices : Holds(d, v)' => d = Home[p]
      BY <1>1, <3>3, <3>5 DEF Holds
    <3>7. \A q \in Procs : proc'[q].pc = "answered" /\ owner'[proc'[q].new] = v => proc'[q].new \in live'
      BY <1>3, <1>4, <3>5 DEF Carries
    <3>8. \A d \in Devices : session'[d] = NoSession \/ session'[d].user # v
      BY <1>1, <3>3 DEF Holds
    <3> QED BY <2>2, <3>6, <3>7, <3>8 DEF Kept
  <2>3. CASE u # v
    <3>1. ~ Carries(p, u)'
      BY <1>3, <1>4, <2>3 DEF Carries
    <3>2. \A d \in Devices : Holds(d, u)' => Holds(d, u)
      BY <1>1, <1>5, <3>1 DEF Holds
    <3>3. ASSUME NEW q \in Procs, proc'[q].pc = "answered", owner'[proc'[q].new] = u
          PROVE  proc'[q].new \in live'
      <4>1. q # p /\ Carries(q, u)'
        BY <3>1, <3>3 DEF Carries
      <4>2. proc'[q] = proc[q] /\ proc[q].pc = "answered" /\ owner[proc[q].new] = u
        BY <1>3, <1>5, <3>3, <4>1 DEF Carries
      <4> QED BY <1>4, <2>1, <2>3, <4>2 DEF Kept
    <3>4. ASSUME NEW d \in Devices, session[d] # NoSession, session[d].user = u
          PROVE  \/ session[d].token \in live'
                 \/ \E q \in Procs : Home[q] = d /\ proc'[q].pc = "answered"
      <4>1. owner[session[d].token] = u
        BY <3>4 DEF RefreshInv
      <4>2. \A q \in Procs : proc[q].pc = "answered" => proc'[q].pc = "answered"
        BY <1>3
      <4> QED BY <1>4, <2>1, <2>3, <3>4, <4>1, <4>2 DEF Kept
    <3> QED BY <1>1, <2>1, <3>2, <3>3, <3>4 DEF Kept
  <2> QED BY <2>2, <2>3
<1>7. ASSUME NEW d \in Devices, session[d] # NoSession PROVE owner'[session[d].token] = session[d].user
  BY <1>2, <1>7 DEF RefreshInv, TypeInv, TypeOK, Grows
<1>8. ASSUME NEW q \in Procs
      PROVE  /\ proc'[q].pc = "refreshing" => proc'[q].token \in nearExpiry
             /\ proc'[q].pc = "answered" => proc'[q].new \notin nearExpiry
  BY <1>0, <1>3, <1>4 DEF RefreshInv
<1> QED BY <1>1, <1>2, <1>6, <1>7, <1>8 DEF RefreshInv

\* The token that is exchanged may be the session's of p's device - no other device
\* has it -, but is none that another answer brings.
LEMMA RefreshExchange ==
  ASSUME RefreshInv, TypeInv', NEW p \in Procs, NEW n \in Tokens, AnswerExchange(p, n)
  PROVE  RefreshInv'
<1> DEFINE t == proc[p].token
           v == owner[t]
<1>0. /\ AutherTyped /\ proc \in [Procs -> Command] /\ Home[p] \in Devices
      /\ \A q \in Procs : Equipped(proc[q])
      /\ nearExpiry \subseteq Auther!Issued
  BY HomeAssumption DEF RefreshInv, TypeInv, TypeOK, AutherTyped
<1>1. /\ proc[p].pc = "refreshing" /\ Auther!Exchange(t, n)
      /\ orphans' = orphans /\ lost' = lost /\ nearExpiry' = nearExpiry /\ expired' = expired
      /\ session' = session
  BY DEF AnswerExchange, ServeExchange, losses, clocks
<1>2. PICK sharing \in SUBSET {q \in Procs : proc[q].pc = "refreshing" /\ proc[q].token = t} :
        /\ p \in sharing
        /\ proc' = [q \in Procs |->
             IF q \in sharing THEN [proc[q] EXCEPT !.pc = "answered", !.new = n] ELSE proc[q]]
  BY DEF AnswerExchange
<1>3. /\ \A q \in sharing : proc'[q].pc = "answered" /\ proc'[q].new = n
      /\ \A q \in Procs \ sharing : proc'[q] = proc[q]
  BY <1>0, <1>2 DEF Command
<1>4. /\ t \in live /\ t \in Auther!Issued /\ v \in Users
      /\ n \notin Auther!Issued /\ owner'[n] = v
      /\ n \in live' /\ \A x \in live : x # t => x \in live'
  <2>1. t \in live /\ t \in Auther!Issued /\ v \in Users
    BY <1>0, <1>1 DEF Auther!Exchange, AutherTyped
  <2>2. n \notin Auther!Issued /\ Auther!IsIssued(v, n) /\ live' = (live \ {t}) \cup {n}
    BY <1>1 DEF Auther!Exchange, Auther!IsIssued
  <2>3. owner'[n] = v
    BY <1>0, <2>1, <2>2, IssuedToUser
  <2> QED BY <2>1, <2>2, <2>3
<1>5. /\ Grows /\ IsFiniteSet(Auther!Issued')
      /\ \A u \in Users : Logins(u) \subseteq Logins(u)'
      /\ \A u \in Users : Auther!TokensOf(u) \subseteq Auther!TokensOf(u)'
      /\ \A u \in Users : Logins(u)' = {} => Auther!TokensOf(u)' = {}
  BY <1>1, <1>4, LoginsGrow
<1>6. ASSUME NEW q \in Procs, NEW u \in Users, Carries(q, u)'
      PROVE  Carries(q, u)
  <2>1. CASE q \in sharing
    <3>1. u = v
      BY <1>3, <1>4, <1>6, <2>1 DEF Carries
    <3> QED BY <1>2, <2>1, <3>1 DEF Carries
  <2>2. CASE q \notin sharing
    BY <1>0, <1>3, <1>5, <1>6, <2>2 DEF Carries, Equipped, Grows
  <2> QED BY <2>1, <2>2
<1>7. ASSUME NEW q \in Procs
      PROVE  /\ proc'[q].pc = "refreshing" => proc'[q].token \in nearExpiry
             /\ proc'[q].pc = "answered" => proc'[q].new \notin nearExpiry
  BY <1>0, <1>3, <1>4 DEF RefreshInv
<1>8. ASSUME NEW d \in Devices, session[d] # NoSession PROVE owner'[session[d].token] = session[d].user
  BY <1>5, <1>8 DEF RefreshInv, TypeInv, TypeOK, Grows
<1>9. ASSUME NEW u \in Users, Undisturbed(u)' PROVE Kept(u)'
  <2>1. Undisturbed(u) /\ Kept(u)
    BY <1>1, <1>5, <1>9, UndisturbedBefore
  <2>2. \A d \in Devices : Holds(d, u)' => Holds(d, u)
    BY <1>1, <1>6 DEF Holds
  <2>3. ASSUME NEW q \in Procs, proc'[q].pc = "answered", owner'[proc'[q].new] = u
        PROVE  proc'[q].new \in live'
    <3>1. CASE q \in sharing
      BY <1>3, <1>4, <3>1
    <3>2. CASE q \notin sharing
      <4>1. proc'[q] = proc[q] /\ owner[proc[q].new] = u /\ proc[q].new \in live
        BY <1>0, <1>3, <1>5, <2>1, <2>3, <3>2 DEF Kept, Equipped, Grows
      <4>2. proc[q].new # t
        BY <1>1, <2>3, <4>1 DEF RefreshInv
      <4> QED BY <1>4, <4>1, <4>2
    <3> QED BY <3>1, <3>2
  <2>4. ASSUME NEW d \in Devices, session[d] # NoSession, session[d].user = u
        PROVE  \/ session[d].token \in live'
               \/ \E q \in Procs : Home[q] = d /\ proc'[q].pc = "answered"
    <3>1. CASE session[d].token = t
      <4>1. Holds(d, v) /\ Holds(Home[p], v) /\ u = v
        BY <1>1, <2>4, <3>1 DEF RefreshInv, Holds, Carries
      <4>2. Home[p] = d
        BY <1>0, <2>1, <4>1 DEF Kept
      <4> QED BY <1>2, <1>3, <4>2
    <3>2. CASE session[d].token \in live /\ session[d].token # t
      BY <1>4, <3>2
    <3>3. ASSUME NEW q \in Procs, Home[q] = d, proc[q].pc = "answered"
          PROVE  proc'[q].pc = "answered"
      BY <1>3, <3>3
    <3> QED BY <2>1, <2>4, <3>1, <3>2, <3>3 DEF Kept
  <2> QED BY <1>1, <2>1, <2>2, <2>3, <2>4 DEF Kept
<1> QED BY <1>1, <1>5, <1>7, <1>8, <1>9 DEF RefreshInv

\* The answer is live, and becomes the session of the device that waited for it.
LEMMA RefreshSave ==
  ASSUME RefreshInv, TypeInv', NEW p \in Procs, SaveSession(p)
  PROVE  RefreshInv'
<1>0. /\ AutherTyped /\ proc \in [Procs -> Command] /\ Home[p] \in Devices
      /\ \A q \in Procs : Equipped(proc[q])
      /\ session \in [Devices -> Session \cup {NoSession}]
  BY HomeAssumption DEF RefreshInv, TypeInv, TypeOK, AutherTyped
<1>1. PICK v \in Users : proc[p].pc = "answered" /\ owner[proc[p].new] = v
  BY <1>0 DEF SaveSession, Equipped, AutherTyped
<1>2. /\ auther' = auther /\ orphans' = orphans /\ lost' = lost
      /\ nearExpiry' = nearExpiry /\ expired' = expired
      /\ session' = [session EXCEPT ![Home[p]] = Saved(p)]
  BY DEF SaveSession, losses, clocks
<1>row. PICK s : s = Saved(p)
  OBVIOUS
<1>3. s.token = proc[p].new /\ s.user = v
  BY <1>1, <1>row DEF Saved
<1>4. session'[Home[p]] = s /\ \A d \in Devices : d # Home[p] => session'[d] = session[d]
  BY <1>0, <1>2, <1>row
<1>5. /\ proc'[p].pc \notin {"refreshing", "answered"}
      /\ \A q \in Procs : q # p => proc'[q] = proc[q]
  BY <1>0, <1>1 DEF SaveSession, Command, Idle
<1>6. /\ owner' = owner /\ exchanged' = exchanged /\ live' = live
      /\ Auther!Issued' = Auther!Issued
      /\ \A u \in Users : Logins(u)' = Logins(u) /\ Auther!TokensOf(u)' = Auther!TokensOf(u)
  BY <1>2 DEF auther, Logins, Auther!TokensOf, Auther!Issued
<1>7. ASSUME NEW u \in Users, Undisturbed(u)' PROVE Kept(u)'
  <2>1. Undisturbed(u) /\ Kept(u)
    BY <1>2, <1>6, <1>7, UndisturbedBefore
  <2>2. ASSUME NEW d \in Devices, Holds(d, u)' PROVE Holds(d, u)
    <3>1. CASE \E q \in Procs : Home[q] = d /\ Carries(q, u)'
      BY <1>5, <1>6, <3>1 DEF Carries, Holds
    <3>2. CASE d = Home[p] /\ u = v
      BY <1>1, <3>2 DEF Carries, Holds
    <3>3. CASE session'[d] # NoSession /\ session'[d].user = u
      BY <1>3, <1>4, <3>2, <3>3 DEF Holds
    <3> QED BY <2>2, <3>1, <3>3 DEF Holds
  <2>3. ASSUME NEW q \in Procs, proc'[q].pc = "answered", owner'[proc'[q].new] = u
        PROVE  proc'[q].new \in live'
    BY <1>5, <1>6, <2>1, <2>3 DEF Kept
  <2>4. ASSUME NEW d \in Devices, session'[d] # NoSession, session'[d].user = u
        PROVE  \/ session'[d].token \in live'
               \/ \E q \in Procs : Home[q] = d /\ proc'[q].pc = "answered"
    <3>1. CASE d = Home[p]
      BY <1>1, <1>3, <1>4, <1>6, <2>1, <2>4, <3>1 DEF Kept
    <3>2. CASE d # Home[p]
      BY <1>4, <1>5, <1>6, <2>1, <2>4, <3>2 DEF Kept
    <3> QED BY <3>1, <3>2
  <2> QED BY <2>1, <2>2, <2>3, <2>4 DEF Kept
<1>8. \A d \in Devices : session'[d] # NoSession => owner'[session'[d].token] = session'[d].user
  BY <1>1, <1>3, <1>4, <1>6 DEF RefreshInv
<1> QED BY <1>2, <1>5, <1>6, <1>7, <1>8 DEF RefreshInv

\* Time passes; an answer that waits to be saved stays far from expiry.
LEMMA RefreshTime ==
  ASSUME RefreshInv, TypeInv', PromptSaves, NEW t \in Tokens, NearExpiry(t) \/ Expire(t)
  PROVE  RefreshInv'
<1>1. /\ auther' = auther /\ session' = session /\ proc' = proc /\ orphans' = orphans /\ lost' = lost
      /\ nearExpiry \subseteq nearExpiry' /\ expired \subseteq expired'
      /\ nearExpiry' \subseteq nearExpiry \cup {t}
      /\ nearExpiry' = nearExpiry \/ \A p \in Procs : proc[p].new # t
  BY DEF NearExpiry, Expire, losses
<1>2. /\ owner' = owner /\ exchanged' = exchanged /\ live' = live
      /\ Auther!Issued' = Auther!Issued
      /\ \A u \in Users : Logins(u)' = Logins(u) /\ Auther!TokensOf(u)' = Auther!TokensOf(u)
  BY <1>1 DEF auther, Logins, Auther!TokensOf, Auther!Issued
<1>3. ASSUME NEW u \in Users, Undisturbed(u)' PROVE Kept(u)'
  <2>1. Kept(u)
    BY <1>1, <1>2, <1>3, UndisturbedBefore
  <2> QED BY <1>1, <1>2, <2>1 DEF Kept, Holds, Carries
<1> QED BY <1>1, <1>2, <1>3 DEF RefreshInv

\* Once a call is lost nothing is promised any more.
LEMMA RefreshLost ==
  ASSUME RefreshInv, TypeInv', lost' # 0, session' = session, nearExpiry' = nearExpiry,
         \A p \in Procs : proc'[p] = proc[p] \/ proc'[p] = Idle,
         NEW n,
         \/ owner' = owner /\ exchanged' = exchanged
         \/ \E u \in Users : Auther!Login(u, n)
         \/ \E t \in live : Auther!Exchange(t, n)
  PROVE  RefreshInv'
<1>1. /\ Grows /\ IsFiniteSet(Auther!Issued')
      /\ \A u \in Users : Logins(u)' = {} => Auther!TokensOf(u)' = {}
  BY LoginsGrow
<1>2. \A d \in Devices : session[d] # NoSession => owner'[session[d].token] = session[d].user
  BY <1>1 DEF RefreshInv, TypeInv, TypeOK, Grows
<1>3. \A p \in Procs : /\ proc'[p].pc = "refreshing" => proc'[p].token \in nearExpiry
                       /\ proc'[p].pc = "answered" => proc'[p].new \notin nearExpiry
  BY DEF RefreshInv, Idle
<1>4. \A u \in Users : ~ Undisturbed(u)'
  BY DEF Undisturbed
<1> QED BY <1>1, <1>2, <1>3, <1>4 DEF RefreshInv

LEMMA RefreshStep == RefreshInv /\ PromptSaves /\ [Next]_vars => RefreshInv'
<1> SUFFICES ASSUME RefreshInv, PromptSaves, [Next]_vars PROVE RefreshInv'
  OBVIOUS
<1>0. /\ TypeInv /\ TypeInv' /\ AutherTyped
      /\ proc \in [Procs -> Command]
      /\ \A p \in Procs : Equipped(proc[p]) /\ proc[p] \in Command
      /\ expired \subseteq nearExpiry
  BY TypeStep DEF RefreshInv, TypeInv, TypeOK, AutherTyped
<1>1. Idle.pc = "idle"
  BY DEF Idle
<1>2. ASSUME NEW p \in Procs, NEW c, proc' = [proc EXCEPT ![p] = c],
             proc[p].pc # "answered", c.pc \notin {"answered", "refreshing"},
             UNCHANGED <<auther, clocks, session, losses>>
      PROVE  RefreshInv'
  BY <1>0, <1>2, QuietMove DEF auther
<1>3. ASSUME NEW p \in Procs, NEW u \in Users, StartLogin(p, u) PROVE RefreshInv'
  <2>1. PICK c : c = [Idle EXCEPT !.pc = "loggingIn", !.user = u]
    OBVIOUS
  <2>2. proc' = [proc EXCEPT ![p] = c] /\ proc[p].pc = "idle" /\ c.pc = "loggingIn"
    BY <1>3, <2>1 DEF StartLogin, Idle
  <2> QED BY <1>2, <1>3, <2>2 DEF StartLogin
<1>4. ASSUME NEW p \in Procs, Logout(p) PROVE RefreshInv'
  <2>1. /\ proc' = proc /\ auther' = auther /\ orphans' = orphans /\ lost' = lost
        /\ nearExpiry' = nearExpiry /\ expired' = expired
        /\ session' = [session EXCEPT ![Home[p]] = NoSession]
    BY <1>4 DEF Logout, losses, clocks
  <2>2. \A d \in Devices : session'[d] = session[d] \/ session'[d] = NoSession
    BY <1>0, <2>1 DEF TypeInv, TypeOK
  <2>3. /\ owner' = owner /\ exchanged' = exchanged /\ live' = live
        /\ Auther!Issued' = Auther!Issued
        /\ \A u \in Users : Logins(u)' = Logins(u) /\ Auther!TokensOf(u)' = Auther!TokensOf(u)
    BY <2>1 DEF auther, Logins, Auther!TokensOf, Auther!Issued
  <2>4. ASSUME NEW u \in Users, Undisturbed(u)' PROVE Kept(u)'
    <3>1. Kept(u)
      BY <2>1, <2>3, <2>4, UndisturbedBefore
    <3> QED BY <2>1, <2>2, <2>3, <3>1 DEF Kept, Holds, Carries
  <2> QED BY <1>0, <2>1, <2>2, <2>3, <2>4 DEF RefreshInv
<1>5. ASSUME NEW p \in Procs, NEW call \in {"sync", "getCrypto"}, Begin(p, call) PROVE RefreshInv'
  <2> DEFINE s == session[Home[p]]
  <2>1. PICK c : c = [Idle EXCEPT !.pc = "authorising", !.call = call, !.user = s.user,
                        !.load = IF call = "sync" THEN tables[Home[p]][s.user] ELSE {}]
    OBVIOUS
  <2>2. proc' = [proc EXCEPT ![p] = c] /\ proc[p].pc = "idle" /\ c.pc = "authorising"
    BY <1>5, <2>1 DEF Begin, Idle
  <2> QED BY <1>2, <1>5, <2>2 DEF Begin
<1>6. ASSUME NEW p \in Procs, Authorise(p) PROVE RefreshInv'
  <2> DEFINE s == session[Home[p]]
  <2>1. proc[p].pc = "authorising" /\ UNCHANGED <<auther, clocks, session, data, losses>>
    BY <1>6 DEF Authorise
  <2>2. PICK c : /\ proc' = [proc EXCEPT ![p] = c]
                 /\ \/ c = Idle
                    \/ c = [proc[p] EXCEPT !.pc = "sending", !.token = s.token]
                    \/ /\ c = [proc[p] EXCEPT !.pc = "refreshing", !.token = s.token]
                       /\ s # NoSession /\ s.token \in nearExpiry
    BY <1>0, <1>6 DEF Authorise
  <2>3. CASE c.pc # "refreshing"
    <3>1. c.pc # "answered"
      BY <1>0, <1>1, <2>2 DEF Command
    <3> QED BY <1>2, <2>1, <2>2, <2>3, <3>1
  <2>4. CASE c.pc = "refreshing"
    <3>1. s # NoSession /\ c.token = s.token /\ c.token \in nearExpiry
      BY <1>0, <1>1, <2>2, <2>4 DEF Command
    <3> QED BY <1>0, <2>1, <2>2, <2>4, <3>1, QuietMove DEF auther
  <2> QED BY <2>3, <2>4
<1>7. ASSUME NEW p \in Procs, Refuse(p) PROVE RefreshInv'
  <2> DEFINE t == proc[p].token
  <2>1. /\ proc[p].pc = "refreshing" /\ proc' = [proc EXCEPT ![p] = Idle]
        /\ UNCHANGED <<clocks, session, losses>>
        /\ owner' = owner /\ exchanged' = exchanged
    BY <1>7 DEF Refuse, RefuseExchange, Auther!Revoke, auther
  <2>2. ASSUME NEW u \in Users, Undisturbed(u) PROVE live \cap Auther!TokensOf(u) \subseteq live'
    <3>1. CASE live' = live
      BY <3>1
    <3>2. CASE t \in live \cap expired /\ Auther!Revoke(owner[t])
      <4>1. u # owner[t]
        BY <1>0, <2>2, <3>2 DEF Undisturbed, Auther!TokensOf, AutherTyped
      <4> QED BY <3>2, <4>1 DEF Auther!Revoke, Auther!TokensOf
    <3> QED BY <1>7, <3>1, <3>2 DEF Refuse, RefuseExchange, auther
  <2> QED BY <1>0, <1>1, <2>1, <2>2, QuietMove
<1>8. ASSUME NEW p \in Procs, AnswerVault(p) PROVE RefreshInv'
  <2>1. PICK c : c = [proc[p] EXCEPT !.pc = "received", !.load = vaults'[Account(proc[p])]]
    OBVIOUS
  <2>2. /\ proc' = [proc EXCEPT ![p] = c] /\ proc[p].pc = "sending" /\ c.pc = "received"
        /\ UNCHANGED <<auther, clocks, session, losses>>
    <3>1. c.pc = "received"
      BY <1>0, <2>1 DEF Command
    <3>2. proc' = [proc EXCEPT ![p] = c]
      BY <1>0, <1>8, <2>1 DEF AnswerVault
    <3> QED BY <1>8, <3>1, <3>2 DEF AnswerVault, ServeVault
  <2> QED BY <1>2, <2>2
<1>9. ASSUME NEW p \in Procs, Persist(p) \/ \E adds \in BOOLEAN : SaveEntry(p, adds)
      PROVE  RefreshInv'
  <2>1. /\ proc[p].pc \in {"received", "sealing"}
        /\ UNCHANGED <<auther, clocks, session, losses>>
    BY <1>9 DEF Persist, SaveEntry
  <2>2. PICK c : /\ proc' = [proc EXCEPT ![p] = c]
                 /\ \/ c = Idle
                    \/ c = [Idle EXCEPT !.pc = "sealing", !.call = "putCrypto", !.user = proc[p].user]
                    \/ \E load : c = [proc[p] EXCEPT !.pc = "authorising", !.load = load]
    BY <1>0, <1>9 DEF Persist, SaveEntry
  <2>3. c.pc \in {"idle", "sealing", "authorising"}
    <3>1. ASSUME NEW load, c = [proc[p] EXCEPT !.pc = "authorising", !.load = load]
          PROVE  c.pc = "authorising"
      BY <1>0, <3>1 DEF Command
    <3>2. CASE c = [Idle EXCEPT !.pc = "sealing", !.call = "putCrypto", !.user = proc[p].user]
      BY <3>2 DEF Idle
    <3> QED BY <1>1, <2>2, <3>1, <3>2
  <2>4. c.pc \notin {"answered", "refreshing"}
    BY <2>3
  <2> QED BY <1>2, <2>1, <2>2, <2>4
<1>10. ASSUME NEW p \in Procs, Abandon(p) PROVE RefreshInv'
  <2>1. /\ auther' = auther /\ session' = session /\ nearExpiry' = nearExpiry
        /\ lost \in Nat /\ lost' = lost + 1
        /\ proc' = [proc EXCEPT ![p] = Idle]
    BY <1>0, <1>10, BoundAssumption DEF Abandon, TypeInv, TypeOK, clocks
  <2>2. lost' # 0 /\ \A q \in Procs : proc'[q] = proc[q] \/ proc'[q] = Idle
    BY <1>0, <2>1
  <2> QED BY <1>0, <2>1, <2>2, RefreshLost DEF auther
<1>11. ASSUME NEW c \in orphans, ServeOrphan(c) PROVE RefreshInv'
  <2>1. lost' # 0 /\ session' = session /\ nearExpiry' = nearExpiry /\ proc' = proc
    BY <1>11 DEF RefreshInv, ServeOrphan, clocks
  <2>2. CASE owner' = owner /\ exchanged' = exchanged
    BY <1>0, <2>1, <2>2, RefreshLost
  <2>3. ASSUME NEW n \in Tokens, ServeLogin(c, n) \/ ServeExchange(c, n) PROVE RefreshInv'
    <3>1. CASE ServeLogin(c, n)
      <4>1. c.user \in Users /\ Auther!Login(c.user, n)
        BY <1>0, <3>1 DEF ServeLogin, TypeInv, Equipped
      <4> QED BY <1>0, <2>1, <4>1, RefreshLost
    <3>2. CASE ServeExchange(c, n)
      <4>1. c.token \in live /\ Auther!Exchange(c.token, n)
        BY <3>2 DEF ServeExchange, Auther!Exchange
      <4> QED BY <1>0, <2>1, <4>1, RefreshLost
    <3> QED BY <2>3, <3>1, <3>2
  <2>4. (\E n \in Tokens : ServeLogin(c, n) \/ ServeExchange(c, n))
        \/ (owner' = owner /\ exchanged' = exchanged)
    BY <1>11 DEF ServeOrphan, RefuseExchange, ServeVault, Auther!Revoke, auther
  <2> QED BY <2>2, <2>3, <2>4
<1>12. CASE UNCHANGED vars
  <2>1. UNCHANGED <<auther, session, proc, losses, clocks>>
    BY <1>12 DEF vars
  <2>2. /\ owner' = owner /\ exchanged' = exchanged /\ live' = live
        /\ nearExpiry' = nearExpiry /\ expired' = expired /\ orphans' = orphans /\ lost' = lost
    BY <2>1 DEF auther, losses, clocks
  <2>3. /\ Auther!Issued' = Auther!Issued
        /\ \A u \in Users : Logins(u)' = Logins(u) /\ Auther!TokensOf(u)' = Auther!TokensOf(u)
    BY <2>2 DEF Logins, Auther!TokensOf, Auther!Issued
  <2>4. \A u \in Users : Undisturbed(u)' => Kept(u)'
    BY <2>1, <2>2, <2>3 DEF RefreshInv, Undisturbed, Kept, Holds, Carries
  <2> QED BY <1>0, <2>1, <2>2, <2>3, <2>4 DEF RefreshInv
<1> QED
  BY <1>0, <1>3, <1>4, <1>5, <1>6, <1>7, <1>8, <1>9, <1>10, <1>11, <1>12,
     RefreshTime, RefreshLogin, RefreshExchange, RefreshSave
  DEF Next

\* Refreshing never logs a device out, however many of its processes refresh at the
\* same time and whoever else uses the auther: what GetValidToken saves is the token
\* the auther accepts, as long as an answer is saved before its access token is near
\* its expiry, no call is lost, and the user neither logs in again nor lets the
\* refresh token expire.
THEOREM RefreshKeepsDevicesLoggedIn ==
  ASSUME PromptSaves
  PROVE  Spec => []RefreshKeepsSession
<1>1. RefreshInv => RefreshKeepsSession
  <2> SUFFICES ASSUME RefreshInv, NEW d \in Devices, session[d] # NoSession, lost = 0,
                      Cardinality(Logins(session[d].user)) = 1,
                      Auther!TokensOf(session[d].user) \cap expired = {},
                      \A p \in Procs : Home[p] = d => proc[p].pc # "answered"
               PROVE  session[d].token \in live
    BY DEF RefreshKeepsSession
  <2> DEFINE u == session[d].user
  <2>1. u \in Users
    BY DEF RefreshInv, TypeInv, TypeOK, Session
  <2>2. IsFiniteSet(Logins(u))
    <3>1. Logins(u) \subseteq Auther!Issued
      BY DEF Logins, Auther!TokensOf
    <3> QED BY <3>1, FS_Subset DEF RefreshInv
  <2>3. PICK t : Logins(u) = {t}
    BY <2>2, FS_Singleton
  <2>4. Undisturbed(u)
    BY <2>3 DEF Undisturbed
  <2> QED BY <2>1, <2>4 DEF RefreshInv, Kept
<1>2. RefreshInv /\ [Next]_vars => RefreshInv'
  BY RefreshStep
<1> QED BY <1>1, <1>2, RefreshInit, PTL DEF Spec
==============================================================================
