------------------------------- MODULE Accounts -------------------------------
(***************************************************************************)
(* The accounts of the auther: how an e-mail address and a password are    *)
(* checked and normalised at registration and at login, and the table of   *)
(* users they are written to and compared with.                            *)
(***************************************************************************)
EXTENDS Naturals

CONSTANTS
  Spellings,   \* e-mail fields as typed
  Normal,      \* Normal[s]: the address as it is stored, in lower case, or Invalid
  Invalid,     \* what mail.ParseAddress refuses
  Passwords,   \* records: `runes` and `bytes` count them, `prefix` is the first 72 bytes
  Legacy       \* users registered under an older password policy

MinPasswordLength == 8
MaxPasswordBytes == 72

ASSUME SpellingAssumption ==
  /\ Invalid \notin Spellings
  /\ Normal \in [Spellings -> Spellings \cup {Invalid}]

(* What may be stored.  It need not parse itself: mail.ParseAddress takes the
   quotes off a local part such as "a b", and a b@x.com is no address. *)
Addresses == {Normal[s] : s \in Spellings} \ {Invalid}

(* The mailbox of an e-mail field, be it in stored form or as typed. *)
Mailbox(e) == IF e \in Addresses THEN e ELSE Normal[e]

(* bcrypt hashes the first 72 bytes: all of what is no longer than that. *)
ASSUME PasswordAssumption ==
  /\ \A w \in Passwords : w.runes \in Nat /\ w.bytes \in Nat
  /\ \A v, w \in Passwords :
       /\ v.bytes <= MaxPasswordBytes /\ w.bytes <= MaxPasswordBytes
       /\ v.prefix = w.prefix
       => v = w

User == [email : Spellings, password : Passwords]

(* What any policy has asked for: a normalised address of its own, and a
   password bcrypt can hash. *)
Proper(us) ==
  /\ us \subseteq User
  /\ \A user \in us :
       /\ user.email \in Addresses
       /\ user.password.runes > 0 /\ user.password.bytes <= MaxPasswordBytes
  /\ \A a, b \in us : a.email = b.email => a = b

ASSUME LegacyAssumption == Proper(Legacy)

VARIABLE users      \* the rows of table `users`; the password stands for its hash

UsersInit == users = {} \/ users = Legacy

(* Mutant of Normalised: the address is stored and looked up as typed. *)
NormalisedNot(s) == IF Normal[s] = Invalid THEN Invalid ELSE s

Normalised(s) == Normal[s]

(* Mutant of Validate: an address that does not parse is let through. *)
ValidateAnyAddress(s, w) == w.runes >= MinPasswordLength /\ w.bytes <= MaxPasswordBytes

Validate(s, w) ==
  /\ w.runes >= MinPasswordLength
  /\ w.bytes <= MaxPasswordBytes
  /\ Normalised(s) # Invalid

(* Mutants of ValidateForLogin: the rules of registration; no upper limit. *)
ValidateForLoginStrict(s, w) == Validate(s, w)
ValidateForLoginLong(s, w) == w.runes > 0 /\ Normalised(s) # Invalid

ValidateForLogin(s, w) ==
  /\ w.runes > 0
  /\ w.bytes <= MaxPasswordBytes
  /\ Normalised(s) # Invalid

(* bcrypt hashes and compares the first 72 bytes. *)
SameHash(v, w) == v.prefix = w.prefix

SelectUserByEmail(s) == {user \in users : user.email = Normalised(s)}

(* The e-mail is UNIQUE: of two registrations of an address one is refused. *)
Registers(s, w) == Validate(s, w) /\ SelectUserByEmail(s) = {}

InsertUser(s, w) == users' = users \cup {[email |-> Normalised(s), password |-> w]}

(* Without a user the dummy hash is compared, and the login refused. *)
LogsIn(s, w) ==
  /\ ValidateForLogin(s, w)
  /\ \E user \in SelectUserByEmail(s) : SameHash(user.password, w)
==============================================================================
