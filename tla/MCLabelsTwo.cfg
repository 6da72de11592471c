CONSTANTS
  Events <- MCEvents
  Txs <- MCTxs
  TxOf <- MCTxOf
  Addresses = {"shop"}
  AddrOf <- MCAddrOf
  DirOf <- MCDirOf
  Own <- MCOwn
  Labels <- MCLabels
  ModelLabels = {"revenue"}
  Answers = {"refund"}
  Against <- MCAgainst
  SwapVenues = {}
  Sessions = {s1, s2}
  Worker = w
  MaxAttempts = 1
  MaxCorrections = 2
  MaxFailures = 0
SPECIFICATION Spec
SYMMETRY SessionSymmetry
INVARIANTS OneActiveRow DecisionsStayTrue  
PROPERTY AppendOnlyBooks
