SPECIFICATION Spec
CONSTANTS
  d1 = d1
  p1 = p1
  p2 = p2
  NoSession = NoSession
  NoUser = NoUser
  NoToken = NoToken
  Devices = {d1}
  Procs = {p1, p2}
  Home <- TwoProcessesOneDevice
  Users = {u1, u2}
  Tokens = {t1, t2}
  PromptSaves = FALSE
  MaxLost = 0
SYMMETRY Interchangeable
INVARIANT
  AccountsSeparate
