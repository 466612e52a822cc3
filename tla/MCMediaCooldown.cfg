SPECIFICATION Spec
CONSTANTS
  Jobs = {1, 2}
  Accounts = {"a"}
  AccountOf <- OneAccount
  Workers = {"w1", "w2"}
  Reserve <- EqualReserves
  Costs = {0}
  DailyLimit = 2
  TotalLimit = 2
  MaxAttempts = 2
  MaxActive = 2
  Delays = {1, 2}
  DayLength = 2
  Legacy = {}
  Unknown = Unknown
  MaxFaults = 0
PROPERTY
  NoSubmissionDuringCooldown
