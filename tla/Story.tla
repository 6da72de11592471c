-------------------------------- MODULE Story --------------------------------
(***************************************************************************)
(* The message about what moved: the legs of a few transactions grouped into  *)
(* lines, the questions asked below them, and what is left out.  A leg is of   *)
(* one event the message covers; amounts matter as far as a leg is worth less   *)
(* than a cent, less than ten, or more.                                      *)
(***************************************************************************)
EXTENDS Figures, Sequences

CONSTANTS Parties,    \* the other sides, by the name Luca gives them
          MaxTxs, MaxLegs,  \* bounds: transactions and legs in a message
          MaxLines    \* lines of the story (six in the code)

VARIABLES legs,       \* the legs, in the order of the books
          told        \* the message, in a set that is empty before it is sent

vars == <<legs, told>>
Nothing == {}

Leg == [tx: 1..MaxTxs, dir: Dirs, label: Labels \cup {None}, swap: BOOLEAN, gas: BOOLEAN,
        fees: BOOLEAN, usd: {"none", "cent", "dime", "more"}, who: Parties]
Line == [kind: STRING, who: Parties \cup {None}, legs: SUBSET (1..MaxLegs)]
Message == [lines: SUBSET Line, rest: Nat, gas: BOOLEAN, asked: SUBSET (Dirs \X Parties), weekly: BOOLEAN]

-----------------------------------------------------------------------------
(* What a leg is told as; labels with no wording are not placed yet. *)
Unplaced(dir) == IF dir = "in" THEN "unplaced_in" ELSE "unplaced_out"
KindOf(l) ==
  CASE l.label \in {"staked", "unstaked", "staking_reward"} -> l.label
    [] l.label \in {"revenue", "x402_income"} /\ l.fees -> "fees"
    [] l.label \in {"revenue", "x402_income"} /\ ~l.fees /\ l.dir = "in" -> "received"
    [] l.label \in {"expense", "x402_spend"} /\ l.dir = "out" -> "paid"
    [] l.label = "refund" -> IF l.dir = "out" THEN "refund_out" ELSE "refund_in"
    [] l.label = "internal_transfer" -> "moved"
    [] OTHER -> Unplaced(l.dir)

(* A few cents from a stranger. *)
Dust(i) ==
  /\ legs[i].dir = "in" /\ legs[i].usd \in {"cent", "dime"}
  /\ \A j \in DOMAIN legs \ {i} :
       legs[j].who = legs[i].who => legs[j].dir = "in" /\ legs[j].usd # "more"

Moves == {i \in DOMAIN legs : ~legs[i].gas}
Of(t) == {i \in Moves : legs[i].tx = t}
SwapTx(t) == \E i \in Of(t) : legs[i].swap \/ legs[i].label = "swap"

(* Between the operator's own wallets, told from the side that sent it. *)
(* A bug: told from whichever side. *)
SentInsideAny(t) == \E i \in Of(t) : legs[i].label = "internal_transfer"
SentInside(t) == \E i \in Of(t) : legs[i].label = "internal_transfer" /\ legs[i].dir = "out"

Told(i) ==
  LET l == legs[i]
  IN /\ ~l.gas /\ ~SwapTx(l.tx) /\ l.usd # "cent"
     /\ ~(Dust(i) /\ KindOf(l) = "unplaced_in")
     /\ ~(KindOf(l) = "moved" /\ l.dir = "in" /\ SentInside(l.tx))

(* Same kind and same other side add up, creator fees by their token; a swap is *)
(* a line of its own.  All legs are of one asset.                              *)
KeyOf(i) ==
  [kind |-> IF KindOf(legs[i]) = "moved" /\ legs[i].dir = "in" THEN "moved_in" ELSE KindOf(legs[i]),
   who |-> IF KindOf(legs[i]) = "fees" THEN None ELSE legs[i].who]
StoryItems ==
  LET told_ == {i \in DOMAIN legs : Told(i)}
  IN {[kind |-> k.kind, who |-> k.who, legs |-> {i \in told_ : KeyOf(i) = k}] : k \in {KeyOf(i) : i \in told_}}
     \cup {[kind |-> "swap", who |-> None, legs |-> Of(t)] : t \in {u \in 1..MaxTxs : Of(u) # {} /\ SwapTx(u)}}

(* A line starts where its first leg is, transaction by transaction. *)
FirstLeg(it) == CHOOSE i \in it.legs : \A j \in it.legs : i <= j
Before(a, b) ==
  LET ta == CHOOSE i \in Moves : legs[i].tx = legs[FirstLeg(a)].tx /\ \A j \in Of(legs[i].tx) : i <= j
      tb == CHOOSE i \in Moves : legs[i].tx = legs[FirstLeg(b)].tx /\ \A j \in Of(legs[i].tx) : i <= j
  IN ta < tb \/ (ta = tb /\ FirstLeg(a) < FirstLeg(b))
Shown(items) == {a \in items : Cardinality({b \in items : Before(b, a)}) < MaxLines}
Fees == \E i \in DOMAIN legs : legs[i].gas /\ legs[i].usd = "more"

-----------------------------------------------------------------------------
Init == legs = <<>> /\ told = Nothing

(* Another event of the period.  A swap is decided from the whole transaction, *)
(* a fee is an event of its own.                                           *)
Book(l) ==
  /\ l.gas => l.label = "gas" /\ l.dir = "out" /\ ~l.swap
  /\ l.label = "gas" => l.gas
  /\ l.fees => l.label \in {"revenue", "x402_income"}
  /\ legs = <<>> => l.tx = 1
  /\ legs' = Append(legs, l) /\ UNCHANGED told

(* What a question may be about: transfers still labeled unknown. *)
Askable == {<<legs[i].dir, legs[i].who>> : i \in {j \in Moves : legs[j].label = "unknown" /\ ~Dust(j)}}

(* What is asked below is not told above.  With nothing of either, no message. *)
Morning(asks) ==
  /\ legs # <<>>
  /\ LET items == {it \in StoryItems : ~\E a \in asks : it.kind = Unplaced(a[1]) /\ it.who = a[2]}
         rest == Cardinality(items) - Cardinality(Shown(items))
     IN told' = {[lines |-> Shown(items), rest |-> rest, asked |-> asks, weekly |-> FALSE,
                  gas |-> items # {} /\ rest = 0 /\ Fees]}
  /\ UNCHANGED legs

(* On Mondays: sums instead of lines, of the kinds the week's message names. *)
Named == {"received", "fees", "staking_reward", "refund_in", "paid", "refund_out", "staked", "unstaked", "swap", "moved"}
Weekly(asks) ==
  /\ legs # <<>>
  /\ told' = {[lines |-> {it \in StoryItems : it.kind \in Named}, rest |-> 0, asked |-> asks,
               weekly |-> TRUE, gas |-> StoryItems # {} /\ Fees]}
  /\ UNCHANGED legs

Next ==
  /\ told = Nothing
  /\ \/ Len(legs) < MaxLegs /\ \E l \in Leg : Book(l)
     \/ \E asks \in SUBSET Askable : Morning(asks) \/ Weekly(asks)
Spec == Init /\ [][Next]_vars

-----------------------------------------------------------------------------
TypeOK == legs \in Seq(Leg) /\ told \in SUBSET Message /\ Cardinality(told) <= 1

(* What moved a cent or more, unless it is dust nobody has to explain. *)
Placed(i) == SwapTx(legs[i].tx) \/ KindOf(legs[i]) # Unplaced(legs[i].dir)
WorthTelling(i) == ~legs[i].gas /\ legs[i].usd # "cent" /\ (Placed(i) \/ ~Dust(i))
OwnMove(i) ==
  /\ legs[i].label = "internal_transfer" /\ legs[i].dir = "in"
  /\ \E j \in Of(legs[i].tx) : legs[j].label = "internal_transfer" /\ legs[j].dir = "out"

(* Nothing of the night is told twice or kept back: a leg worth telling is in   *)
(* exactly one line, asked about below if it is not placed, or the receiving     *)
(* side of a move told from the side that sent it, unless the message says there *)
(* is more; and a week's sums hold once every leg they have a name for.         *)
TellsOnce(m, i) ==
  LET lines == Cardinality({it \in m.lines : i \in it.legs})
      asked == ~Placed(i) /\ <<legs[i].dir, legs[i].who>> \in m.asked
  IN \/ lines = 1 /\ ~(asked /\ ~m.weekly)
     \/ lines = 0 /\ (asked \/ OwnMove(i) \/ m.rest > 0)
     \/ lines = 0 /\ m.weekly /\ (~Placed(i) \/ KindOf(legs[i]) = "moved")
EveryLegToldOnce ==
  \A m \in told : \A i \in {j \in DOMAIN legs : WorthTelling(j)} : TellsOnce(m, i)
=============================================================================
