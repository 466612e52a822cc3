SPECIFICATION FairSpec
CONSTANTS
  Peers = {"c"}
  PeerOf <- MCPeerOf
  Msgs = {1}
  Service = {}
  Since = 1
  TextOf <- MCText
  Phrases = {"wheel"}
  Numeral <- MCNumeral
  Bodies <- MCBodies
  Scan = "scan"
  Conns = 2
  PageSize = 1
  MaxPages = 1
  MaxVer = 0
  MaxIds = 2
  MaxFaults = 0
  MaxChanges = 1
  Near <- MCNear
  NumberOf <- MCNumberOf
  WholeBike <- NoTerms
  BikeIdentity <- NoTerms
  SpecSheet <- NoTerms
  SaleSignal <- NoTerms
  Families <- NoFamilies
PROPERTY EventuallyHandled
CHECK_DEADLOCK FALSE
