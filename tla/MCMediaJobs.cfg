SPECIFICATION FairSpec
CONSTANTS
  Jobs = {1, 2, 3}
  Accounts = {"a"}
  AccountOf <- OneAccount
  Workers = {"w1", "w2"}
  Reserve <- LastTwice
  Costs = {1, 2}
  DailyLimit = 2
  TotalLimit = 3
  MaxAttempts = 2
  MaxActive = 2
  Delays = {1}
  DayLength = 2
  Legacy = {1}
  Unknown = Unknown
  MaxFaults = 1
INVARIANTS
  TypeOK
  PaidOnce
  ClaimsExclusive
  AttemptsLeft
  BillsWithinBudget
  WaitersAreBlocked
PROPERTIES
  NoClaimDuringCooldown
  EventuallySettled
