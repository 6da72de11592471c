SPECIFICATION LiveSpec
CONSTANTS
  Transfers = {1, 2}
  Asset <- MCAsset
  Other <- MCOther
  Limit = 1
  MaxTrouble = 3
PROPERTIES
  PricesImprove
  OldPricesKept
  PricedOnChain
