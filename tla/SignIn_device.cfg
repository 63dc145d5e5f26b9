SPECIFICATION Spec
CONSTANTS
  lower = lower
  upper = upper
  quoted = quoted
  spaced = spaced
  Invalid = Invalid
  Spellings = {lower, upper, quoted, spaced}
  Normal <- Normalisation
  Passwords <- TypedPasswords
  Legacy <- ShortPasswordUser
  Procs = {p1, p2}
  NoFile = NoFile
  Empty = Empty
  NoKey = NoKey
  NoSession = NoSession
  FirstRunAlone = TRUE
  Second = 2
  Margin = 4
  Lifetime = 6
  RefreshLifetime = 8
  Skews <- ClockSkews
  MaxTime = 8
SYMMETRY Interchangeable
INVARIANTS
  SignInInv
  OneAccountPerMailbox
  OnlyItsPassword
  SessionReadable
PROPERTIES
  RegisteredCanLogIn
  TokenAccepted
