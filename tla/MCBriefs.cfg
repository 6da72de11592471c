SPECIFICATION MCSpec
CONSTANTS
  Day = 3
  DaysInWeek = 4
  LookBack = 5
  MaxAttempts = 1
  MaxNow = 8
  MaxTrouble = 2
  MaxMoved = 1
  Labels = {"revenue", "expense", "internal_transfer", "gas", "refund", "unknown"}
  Parties = {a, b}
  MaxTxs = 2
  MaxLegs = 2
  MaxLines = 1
  Prices = {1, 2, 4}
  Amounts = {0, 1}
  MinChange = 1
  small = small  big = big
  Groups = {small, big}
  AddressOf <- MCAddressOf
  Worth <- MCWorth
  PingMin = 1
  PingsPerDay = 1
  WeeklyList = 2
  ReaskDays = 2
  WeekDays = 3
  Large = {small}
  MaxDay = 3
  MaxUnknown = 2
  MaxArrivals = 2
  MaxCrashes = 1
INVARIANTS ToldOnce OneMorning   ReasonIsRight NumberedAsSent
 
CHECK_DEADLOCK FALSE
SYMMETRY Sides
