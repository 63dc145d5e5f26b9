SPECIFICATION FairSpec
CONSTANTS
  h1 = h1
  h2 = h2
  s1 = s1
  s2 = s2
  NoUser = NoUser
  NoToken = NoToken
  NoHandler = NoHandler
  Users = {u1, u2}
  Tokens = {t1, t2, t3}
  Handlers = {h1, h2}
  Server <- TwoServers
INVARIANTS
  TypeOK
  ExchangedOnce
  CommittedRowsUnused
  DeadlocksContained
PROPERTIES
  DeadStaysDead
  ListedTokensDie
  StoreSpec
  RequestsEnd
