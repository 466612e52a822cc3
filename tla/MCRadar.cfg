SPECIFICATION Spec
CONSTANTS
  Peers = {"c"}
  PeerOf <- MCPeerOf
  Msgs = {1, 2}
  Service = {2}
  Since = 1
  TextOf <- MCText
  Phrases = {"wheel", "2"}
  Numeral <- MCNumeral
  Bodies <- MCBodies
  Scan = "scan"
  Conns = 3
  PageSize = 1
  MaxPages = 2
  MaxVer = 1
  MaxIds = 2
  MaxFaults = 1
  MaxChanges = 2
  Near <- MCNear
  NumberOf <- MCNumberOf
  WholeBike <- NoTerms
  BikeIdentity <- NoTerms
  SpecSheet <- NoTerms
  SaleSignal <- NoTerms
  Families <- NoFamilies
INVARIANTS
  TypeOK
  NothingMissed
  AlertedOnce
  ButtonStopsItsRule
CHECK_DEADLOCK FALSE
