SPECIFICATION MCSpec
CONSTANTS
  Labels = {"revenue", "expense", "internal_transfer", "gas", "refund", "unknown"}
  MaxTxs = 3
  MaxAmount = 2
  MaxEarned = 1
  MaxTrouble = 1
  Limit = 2
  Pools = {"p", "q", "r"}
  Transfers = {1}
INVARIANTS NothingSlipsThrough  
CHECK_DEADLOCK FALSE
