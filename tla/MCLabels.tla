------------------------------ MODULE MCLabels ------------------------------
EXTENDS Labels, TLC

MCEvents == {1, 2}
MCTxs == {"t"}
MCTxOf == [e \in MCEvents |-> "t"]
MCAddrOf == [e \in MCEvents |-> "shop"]
MCDirOf == [e \in MCEvents |-> "in"]
MCOwn == {}
MCLabels == {"unknown", "swap", "internal_transfer", "revenue", "refund", "expense"}
MCAgainst == [d \in {"in", "out"} |-> IF d = "in" THEN {"expense"} ELSE {"revenue"}]

(* A second instance: a payment from the shop and a swap through a known exchange *)
(* in one transaction, and a move between the operator's own wallets in another. *)
WideEvents == {1, 2, 3}
WideTxs == {"t", "u"}
WideTxOf == [e \in WideEvents |-> IF e = 3 THEN "u" ELSE "t"]
WideAddrOf == [e \in WideEvents |-> IF e = 1 THEN "shop" ELSE "dex"]
WideDirOf == [e \in WideEvents |-> IF e = 1 THEN "in" ELSE "out"]

SessionSymmetry == Permutations(Sessions)
=============================================================================
