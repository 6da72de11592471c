CONSTANTS
  Events <- MCEvents
  Txs <- MCTxs
  TxOf <- MCTxOf
  Addresses = {"shop"}
  AddrOf <- MCAddrOf
  DirOf <- MCDirOf
  Own <- MCOwn
  Labels <- MCLabels
  ModelLabels = {"revenue"}
  Answers = {"refund", "expense"}
  Against <- MCAgainst
  SwapVenues = {}
  Sessions = {s1}
  Worker = w
  MaxAttempts = 1
  MaxCorrections = 2
  MaxFailures = 1
SPECIFICATION Spec
 
PROPERTY EarlierLabelsNeedYes
