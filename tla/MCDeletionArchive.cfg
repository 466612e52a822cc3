SPECIFICATION Spec
CONSTANTS
  Peers = {1}
  Bots = {}
  Msgs = {1, 2}
  PeerOf <- MCPeerOf
  MaxVer = 2
  Editable = {1}
  Attached = {}
  Quiet = 1
  MediaWait = 2
  Retention = 1
  MaxAge = 2
  PassTime = 1
  MaxMessages = 1
  PageLimit = 2
  ListLimit = 2
  MaxAttempts = 1
  Backoff <- MCBackoff
  AlertIds = {1, 2, 3}
  MaxFaults = 1
  Refused = {}
INVARIANTS
  TypeOK
  MarksMatchTombs
  ReportedWasTold
  AckedButtonOpens
PROPERTIES
  PendingKept
  NoOlderRevision
  KeepsPromise
CHECK_DEADLOCK FALSE
