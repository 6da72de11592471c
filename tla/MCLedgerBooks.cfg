SPECIFICATION Spec
CONSTANTS
  eth = eth  usdc = usdc  pay = pay  fee = fee  phantom = phantom
  credit = credit  debit = debit
  Moves <- MCMoves
  BlockOf <- MCBlockOf
  KindOf <- MCKindOf
  ReceiptOf <- MCReceiptOf
  LedgerAssets <- MCLedgerAssets
  AssetOf <- MCAssetOf
  Amount <- MCAmount
  ChainBalance <- MCBalance
  MaxBlock = 4
  FirstTip = 2
  TipLag = 1
  Overlap = 1
  Backfill = 2
  MaxFaults = 2
  MaxRepairs = 2
INVARIANTS CompleteBooksHoldIt
