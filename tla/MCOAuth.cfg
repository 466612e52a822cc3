SPECIFICATION Spec
CONSTANTS
  Users = {"u"}
  MaxClients = 2
  MaxPending = 1
  ReuseGrace = 0
  CodeTTL = 1
  RequestTTL = 1
  AccessTTL = 1
  RefreshTTL = 3
  MaxGrantLifetime = 3
  UsedRetention = 1
  RequestRetention = 1
  GrantRetention = 1
  ClientRetention = 1
  MaxTime = 5
  MaxIds = 2
  MaxPairs = 3
  None = None
CHECK_DEADLOCK FALSE
INVARIANTS
  TypeOK
  CutOff
  OneConnection
  EndsAfterLifetime
PROPERTIES
  NothingUsableLost
