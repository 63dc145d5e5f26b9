SPECIFICATION Spec
CONSTANTS
  d1 = d1
  p1 = p1
  p2 = p2
  NoSession = NoSession
  NoUser = NoUser
  NoToken = NoToken
  Devices = {d1}
  Procs = {p1, p2}
  Home <- TwoProcessesOneDevice
  Users = {u1}
  Tokens = {t1, t2}
  PromptSaves = TRUE
  MaxLost = 0
SYMMETRY Interchangeable
PROPERTY
  OnlyLoginsLogIn
