SPECIFICATION Spec
CONSTANTS
  d1 = d1
  d2 = d2
  p1 = p1
  p2 = p2
  NoKey = NoKey
  NoMeta = NoMeta
  Devices = {d1, d2}
  Procs = {p1, p2}
  Home <- OneProcessPerDevice
  Passwords = {m1}
  Ids = {u1, u2}
  MaxSalts = 2
  MaxLate = 0
INVARIANTS
  SealedUnderVaultKey
