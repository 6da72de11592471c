SPECIFICATION Spec
CONSTANTS
  Wallets = {w1}
  Askers = {owner}
  Admins = {}
  Ids = {1, 2}
  Stops = {"provider", "done"}
  Periods = {0}
  BlocksPerDay = 1
  RunsPerDay = 1
  MaxAttempts = 2
  ReuseTime = 1
  MaxBlock = 2
  MaxNow = 1
  MaxChanges = 1
  MaxFaults = 1
  MaxCrashes = 2
  MaxTrouble = 2
INVARIANTS FullResultsHold OneRunPerAsker
PROPERTIES  ChecksEnd
CHECK_DEADLOCK FALSE
