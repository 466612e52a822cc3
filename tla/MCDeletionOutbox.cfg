SPECIFICATION FairSpec
CONSTANTS
  Peers = {1, 2}
  Bots = {}
  Msgs = {2, 3}
  PeerOf <- MCPeerOf
  MaxVer = 1
  Editable = {}
  Attached = {2}
  Quiet = 1
  MediaWait = 2
  Retention = 1
  MaxAge = 2
  PassTime = 1
  MaxMessages = 1
  PageLimit = 2
  ListLimit = 2
  MaxAttempts = 2
  Backoff <- MCBackoff2
  AlertIds = {1, 2, 3}
  MaxFaults = 0
  Refused = {2}
INVARIANTS
  InFlightIsPending
PROPERTIES
  EventuallyReported
CHECK_DEADLOCK FALSE
