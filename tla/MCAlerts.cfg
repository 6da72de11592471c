SPECIFICATION Spec
CONSTANTS
  u = u  w = w
  Users = {u}
  Admins = {u}
  Wallets = {w}
  OwnerOf <-MCOwnerOf
  Alerts <-MCAlerts
  DayHours = 2
  Silence <-MCSilence
  Night = {0}
  Offset <-MCOffset
  MaxPending = 2
  MaxTrouble = 1
INVARIANTS DeliveredOnce
PROPERTIES WalletStory Settles StoppedIsTold
