------------------------------ MODULE MCPrices ------------------------------
(* A swap of ETH (1) for BNKR (2). *)
EXTENDS Prices
MCAsset == [t \in Transfers |-> IF t = 1 THEN "ETH" ELSE "BNKR"]
MCOther == [t \in Transfers |-> 1]
=============================================================================
