------------------------------ MODULE Outcomes ------------------------------
(***************************************************************************)
(* What a person who asks for something that finishes later is promised:    *)
(* the outcome of each request is told at most once, and a request that was  *)
(* given up is not told about afterwards.                                  *)
(***************************************************************************)
CONSTANT Requests
VARIABLE state

TypeOK == state \in [Requests -> {"none", "due", "told", "lost"}]

Init == state = [r \in Requests |-> "none"]

Become(r, from, to) == state[r] = from /\ state' = [state EXCEPT ![r] = to]

Accept(r) == Become(r, "none", "due")
Tell(r) == Become(r, "due", "told")
(* Some are never told: the process ended first, or the messenger failed. *)
GiveUp == \E R \in SUBSET {r \in Requests : state[r] = "due"} :
  state' = [r \in Requests |-> IF r \in R THEN "lost" ELSE state[r]]

Next == GiveUp \/ \E r \in Requests : Accept(r) \/ Tell(r)
Spec == Init /\ [][Next]_state
=============================================================================
