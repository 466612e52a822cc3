SPECIFICATION FairSpec
CONSTANTS
  Owners = {"a"}
  Runtimes = {r1, r2, r3}
  MaxConcurrentLogins = 1
  MaxKeys = 2
  MaxFaults = 1
  None = None
  NoAuth = NoAuth
INVARIANTS
  TypeOK
  NoLostRuntime
PROPERTIES
  NewLoginKept
  EventuallyRunning
