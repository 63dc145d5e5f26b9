SPECIFICATION Spec
CONSTANTS
  h1 = h1
  h2 = h2
  s1 = s1
  s2 = s2
  NoUser = NoUser
  NoToken = NoToken
  NoHandler = NoHandler
  Users = {u1}
  Tokens = {t1, t2}
  Handlers = {h1}
  Server <- OneServer
PROPERTIES
  ReuseRevokes
