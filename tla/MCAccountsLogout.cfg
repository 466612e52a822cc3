SPECIFICATION Spec
CONSTANTS
  Owners = {"a"}
  Runtimes = {r1, r2, r3}
  MaxConcurrentLogins = 1
  MaxKeys = 1
  MaxFaults = 1
  None = None
  NoAuth = NoAuth
INVARIANT
  LogoutCanBeFinished
