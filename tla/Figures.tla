------------------------------- MODULE Figures -------------------------------
(***************************************************************************)
(* The figures of the books: what one event, with the label now active on    *)
(* it, adds to each of them.  An amount is a set: empty where SQL has NULL.   *)
(***************************************************************************)
EXTENDS Integers, FiniteSets

CONSTANT Labels       \* the labels of the instance

Dirs == {"in", "out"}
None == ""

(* Which labels combine into which figure. *)
Category == [
  revenue |-> {"revenue", "x402_income", "staking_reward"},
  expenses |-> {"expense", "x402_spend"},
  gas |-> {"gas"},
  internal |-> {"internal_transfer", "treasury", "staked", "unstaked"},
  swaps |-> {"swap"},
  unknown |-> {"unknown"}]
Totals == {"revenue", "expenses", "gas"}

ASSUME LabelsAssumption ==
  /\ "unknown" \in Labels
  /\ Labels \subseteq (UNION {Category[f] : f \in DOMAIN Category}) \cup {"refund"}

(* An event as the figures read it; `failed` is a label no model call decided. *)
Booked == [dir: Dirs, label: Labels \cup {None}, failed: BOOLEAN, usd: SUBSET {1}]

(* A refund nets against the figure it undoes. *)
FigureOf(e) ==
  IF e.label = "refund" THEN IF e.dir = "out" THEN "revenue" ELSE "expenses"
  ELSE IF e.label = None THEN None
  ELSE CHOOSE f \in DOMAIN Category : e.label \in Category[f]

(* Money against the natural direction of a total counts down; the others     *)
(* count what has no price as nothing.                                      *)
Signed(e) ==
  LET up == IF FigureOf(e) = "revenue" THEN "in" ELSE "out"
  IN {IF e.dir = up THEN n ELSE -n : n \in e.usd}
Contribution(f, e) ==
  IF FigureOf(e) # f \/ (f = "unknown" /\ e.failed) THEN {}
  ELSE IF f \in Totals THEN Signed(e) ELSE IF e.usd = {} THEN {0} ELSE e.usd

(* Counted beside the figures, so that none of them is taken for complete. *)
Pending(e) == e.label = None \/ e.failed

(* Where an event is counted. *)
Places(e) ==
  {f \in DOMAIN Category : Contribution(f, e) # {}} \cup (IF Pending(e) THEN {"pending"} ELSE {})
=============================================================================
