------------------------------ MODULE Holdings -------------------------------
(***************************************************************************)
(* What the operator holds, read each morning, and the reason the message      *)
(* gives for a change.  Two mornings are enough: a message compares with the    *)
(* one before.                                                            *)
(***************************************************************************)
EXTENDS Integers, Sequences

CONSTANTS Prices,     \* prices of a unit of ETH or BNKR
          Amounts,    \* what a wallet holds or a contract stakes of an asset
          MinChange   \* a change below this is no news (five dollars, and 2%, in the code)

VARIABLE readings     \* the mornings' holdings
NoPrice == 0

Assets == {"ETH", "USDC", "BNKR"}
Held(h, a) == h[a].wallet + h[a].staked
Known(h, a) == h[a].price # NoPrice

(* BNKR is what the contracts Luca knows stake; a dollar is a dollar. *)
Reading ==
  {h \in [Assets -> [wallet: Amounts, staked: Amounts, price: Prices \cup {1, NoPrice}]] :
     h["ETH"].staked = 0 /\ h["USDC"].staked = 0 /\ h["USDC"].price = 1}
(* A price missing for something held: no total, rather than a wrong one. *)
Complete(h) == \A a \in Assets : Held(h, a) > 0 => Known(h, a)

Over(f) == f["ETH"] + f["USDC"] + f["BNKR"]
HoldingsValue(h) == Over([a \in Assets |-> Held(h, a) * h[a].price])

(* What prices did to today's amounts, and what moved at yesterday's prices.   *)
(* With no price for what is held now on either morning there is no change.    *)
Comparable(prev, now) ==
  \A a \in Assets : (Held(prev, a) > 0 => Known(prev, a)) /\ (Held(now, a) > 0 => Known(now, a) /\ Known(prev, a))
ByPrice(prev, now, a) ==
  IF Known(prev, a) /\ Known(now, a) THEN Held(now, a) * (now[a].price - prev[a].price) ELSE 0
(* A bug: what moved is valued at today's price. *)
MovedToday(prev, now, a) == (Held(now, a) - Held(prev, a)) * now[a].price
Moved(prev, now, a) ==
  (Held(now, a) - Held(prev, a)) * (IF Known(prev, a) THEN prev[a].price ELSE now[a].price)

Size(n) == IF n < 0 THEN -n ELSE n
Sign(n) == IF n < 0 THEN -1 ELSE IF n > 0 THEN 1 ELSE 0
HoldingsChange(prev, now) ==
  [delta |-> HoldingsValue(now) - HoldingsValue(prev),
   price |-> [a \in Assets |-> ByPrice(prev, now, a)],
   moved |-> Over([a \in Assets |-> Moved(prev, now, a)])]
Told(prev, now) ==
  /\ Comparable(prev, now) /\ HoldingsValue(prev) > 0
  /\ Size(HoldingsChange(prev, now).delta) >= MinChange

(* The reason: the price that did most, or what moved, whichever is more. *)
Reasons(change) ==
  IF Size(Over(change.price)) >= Size(change.moved)
  THEN {change.price[a] : a \in {b \in Assets : \A c \in Assets : Size(change.price[c]) <= Size(change.price[b])}}
  ELSE {change.moved}

-----------------------------------------------------------------------------
Init == readings = <<>>
Read(h) ==
  /\ Complete(h) /\ readings' = Append(readings, h)
Next == Len(readings) < 2 /\ \E h \in Reading : Read(h)
Spec == Init /\ [][Next]_readings

-----------------------------------------------------------------------------
TypeOK == readings \in Seq(Reading) /\ Len(readings) <= 2

(* "Exact split" (generate.ts:211): what prices did and what moved add up to the  *)
(* change, and the reason told went the way the holdings went.                *)
ReasonIsRight ==
  Len(readings) = 2 /\ Comparable(readings[1], readings[2]) =>
    LET change == HoldingsChange(readings[1], readings[2])
    IN /\ change.delta = Over(change.price) + change.moved
       /\ Told(readings[1], readings[2]) => \A r \in Reasons(change) : Sign(r) = Sign(change.delta)
=============================================================================
