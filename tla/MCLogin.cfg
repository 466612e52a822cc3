SPECIFICATION FairSpec
CONSTANTS
  Sessions = {1, 2}
  Links = {1}
  Flows = {1, 2}
  Requests = {r1}
  MaxFaults = 1
INVARIANTS
  TypeOK
  OneLogin
PROPERTIES
  OwnTimeOnly
  EventuallyEnds
CHECK_DEADLOCK FALSE
