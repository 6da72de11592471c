SPECIFICATION Spec
CONSTANTS
  small = small  big = big
  Groups = {small, big}
  AddressOf <-MCAddressOf
  Worth <-MCWorth
  PingMin = 1
  PingsPerDay = 1
  WeeklyList = 2
  ReaskDays = 2
  DaysInWeek = 3
  Large = {small}
  MaxDay = 3
  MaxUnknown = 2
  MaxArrivals = 2
  MaxCrashes = 1
PROPERTIES ClosesByItself
CHECK_DEADLOCK FALSE
