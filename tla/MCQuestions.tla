----------------------------- MODULE MCQuestions -----------------------------
(* Two tokens from one address, the second worth more. *)
EXTENDS Questions
CONSTANTS small, big
MCAddressOf == [q \in Groups |-> "out"]
MCWorth == [q \in Groups |-> IF q = small THEN 1 ELSE 2]
=============================================================================
