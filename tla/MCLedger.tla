------------------------------ MODULE MCLedger ------------------------------
(* One wallet, two assets: ETH with a payment, a fee, and a transfer its      *)
(* failed transaction was reported to have made; USDC with two transfers      *)
(* that cancel out if both are missed.                                        *)
EXTENDS Reconcile
CONSTANTS eth, usdc, pay, fee, phantom, credit, debit

MCMoves == {pay, fee, phantom, credit, debit}
MCBlockOf == (pay :> 1) @@ (fee :> 2) @@ (phantom :> 2) @@ (credit :> 2) @@ (debit :> 3)
MCKindOf == (pay :> "native") @@ (fee :> "fee") @@ (phantom :> "reverted")
            @@ (credit :> "token") @@ (debit :> "token")
MCReceiptOf == phantom :> fee
MCLedgerAssets == <<eth, usdc>>
MCAssetOf == [m \in MCMoves |-> IF m \in {credit, debit} THEN usdc ELSE eth]
MCAmount == (pay :> 5) @@ (fee :> -1) @@ (phantom :> -5) @@ (credit :> 2) @@ (debit :> -2)
MCBalance ==
  (eth :> (0 :> 1 @@ 1 :> 6 @@ 2 :> 5 @@ 3 :> 5 @@ 4 :> 5))
  @@ (usdc :> (0 :> 0 @@ 1 :> 0 @@ 2 :> 2 @@ 3 :> 0 @@ 4 :> 0))
=============================================================================
