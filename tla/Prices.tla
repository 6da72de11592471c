-------------------------------- MODULE Prices --------------------------------
(***************************************************************************)
(* The dollar value of every booked transfer: looked up when it is booked,     *)
(* looked up again by each worker cycle while there is none, replaced by the   *)
(* price the operator's swap got or by one read on chain.  The process          *)
(* remembers what the chain said of a block, failures included.                *)
(***************************************************************************)
EXTENDS Integers, FiniteSets

CONSTANTS
  Transfers,   \* naturals, in the order of their blocks
  Asset,       \* the asset of each: "USDC", "ETH" or "BNKR"
  Other,       \* the other side of the swap a BNKR transfer belongs to, or the transfer itself
  Limit,       \* rows a step of the cycle takes
  MaxTrouble   \* bound: times the chain goes away or the worker dies

ASSUME PricesAssumption ==
  /\ Transfers \subseteq Nat /\ IsFiniteSet(Transfers) /\ Limit \in Nat \ {0} /\ MaxTrouble \in Nat
  /\ Asset \in [Transfers -> {"USDC", "ETH", "BNKR"}] /\ Other \in [Transfers -> Transfers]
  /\ \A t \in Transfers : Other[t] # t => Asset[t] = "BNKR" /\ Asset[Other[t]] # "BNKR"

VARIABLES
  price,       \* of each transfer: its value, where it came from, looked at in the last day
  kept,        \* price_revisions: the values that were replaced
  recent,      \* transfers under an hour old
  memo,        \* what this process remembers of a feed or pool at a block
  up,          \* the chain and CoinGecko can be read
  step, todo,  \* the step of the cycle, and the rows it still has
  writing,     \* the transfer whose price is being replaced, and by what
  trouble

vars == <<price, kept, recent, memo, up, step, todo, writing, trouble>>

NoValue == 0
Unbooked == [usd |-> NoValue, source |-> "unbooked", checked |-> FALSE]
OnChain == {"stable", "swap", "chainlink", "pool_twap", "pool_spot"}
Sources == OnChain \cup {"coingecko_spot", "coingecko_daily", "unavailable", "null"}
Block(t) == IF Other[t] # t THEN Other[t] ELSE t
Keys == {"feed", "pool"} \X Transfers
Booked(t) == price[t].source # "unbooked"
Nothing == [t |-> 0, usd |-> NoValue, source |-> "null"]
Idle == step = "sync" /\ todo = {} /\ writing = Nothing

(* What one unit is worth by each source; a swap's price is the other side's value. *)
Usd(t, source) ==
  CASE source \in {"null", "unavailable"} -> NoValue
    [] source = "swap" -> price[Other[t]].usd
    [] source \in {"coingecko_spot", "coingecko_daily"} -> 1
    [] OTHER -> IF Asset[t] = "BNKR" THEN 3 ELSE 2

-----------------------------------------------------------------------------
(* feedUsd, bnkrInWethAt: an answer about a block is remembered, and so is that     *)
(* there was none; only a source whose own check failed is not read at all.        *)
Answers(key) == IF key[1] = "feed" THEN {"chainlink"} ELSE {"pool_twap", "pool_spot"}
Read(key) ==
  IF memo[key] # "unread" THEN {[answer |-> memo[key], memo |-> memo]}
  ELSE IF up THEN {[answer |-> a, memo |-> [memo EXCEPT ![key] = a]] : a \in Answers(key)}
  ELSE {[answer |-> "null", memo |-> m] : m \in {memo, [memo EXCEPT ![key] = "null"]}}

(* enrichUsdValue: the chain at the transfer's block, else CoinGecko, else nothing; *)
(* BNKR has no daily price. *)
Gecko(t) ==
  LET best == IF t \in recent THEN "coingecko_spot"
              ELSE IF Asset[t] = "ETH" THEN "coingecko_daily" ELSE "unavailable"
  IN IF up \/ best = "unavailable" THEN {best}
     ELSE {best, "null"} \cup IF Asset[t] = "ETH" THEN {"coingecko_daily"} ELSE {}
Enrich(t) ==
  IF Asset[t] = "USDC" THEN {[source |-> "stable", memo |-> memo]}
  ELSE IF Asset[t] = "ETH"
  THEN UNION {{[source |-> s, memo |-> feed.memo] :
                s \in IF feed.answer # "null" THEN {feed.answer} ELSE Gecko(t)}
              : feed \in Read(<<"feed", Block(t)>>)}
  ELSE UNION {{[source |-> s,
                memo |-> [key \in Keys |-> IF key[1] = "feed" THEN feed.memo[key] ELSE pool.memo[key]]] :
                s \in IF "null" \notin {feed.answer, pool.answer} THEN {pool.answer} ELSE Gecko(t)}
              : feed \in Read(<<"feed", Block(t)>>), pool \in Read(<<"pool", Block(t)>>)}

-----------------------------------------------------------------------------
(* A transfer is booked with the price found then. *)
Ingest(t) ==
  /\ Idle /\ ~Booked(t)
  /\ \E p \in Enrich(t) :
       /\ price' = [price EXCEPT ![t] = [usd |-> Usd(t, p.source), source |-> p.source,
                                         checked |-> p.source # "null"]]
       /\ memo' = p.memo
  /\ UNCHANGED <<kept, recent, up, step, todo, writing, trouble>>

(* A step of the cycle takes the newest rows it is for, and goes through them;  *)
(* priceSwaps takes any, and leaves those whose other side has no price.         *)
Newest(rows) == {t \in rows : Cardinality({u \in rows : u > t}) < Limit}
Missing == {t \in Transfers : price[t].source = "null"}
Swapped == {t \in Transfers : Booked(t) /\ Other[t] # t /\ price[t].source # "swap"}
(* A bug: only a daily price is worth replacing. *)
UpgradableDaily ==
  {t \in Transfers : Booked(t) /\ price[t].source = "coingecko_daily" /\ ~price[t].checked}
(* A bug: every old enough price is looked up again. *)
UpgradableAny ==
  {t \in Transfers : Booked(t) /\ Asset[t] # "USDC" /\ ~price[t].checked}
Upgradable ==
  {t \in Transfers : Booked(t) /\ Asset[t] # "USDC" /\ price[t].source \notin OnChain /\ ~price[t].checked}
Done == todo = {} /\ writing = Nothing
AnySwaps(rows) ==
  {{t \in some : price[Other[t]].usd # NoValue} :
     some \in {S \in SUBSET rows : Cardinality(S) = IF Cardinality(rows) < Limit THEN Cardinality(rows) ELSE Limit}}
Begin(from, to, rows) ==
  /\ step = from /\ Done /\ step' = to /\ todo' \in rows
  /\ UNCHANGED <<price, kept, recent, memo, up, writing, trouble>>
Cycle ==
  \/ Begin("sync", "missing", {Newest(Missing)})
  \/ Begin("missing", "swaps", AnySwaps(Swapped))
  \/ Begin("swaps", "upgrade", {Newest(Upgradable)})
  \/ Begin("upgrade", "sync", {{}})

(* repriceMissing: a row is written only if there is a price, and none yet. *)
Reprice ==
  /\ step = "missing"
  /\ \E t \in todo : todo' = todo \ {t} /\ \E p \in Enrich(t) :
       /\ memo' = p.memo
       /\ price' = IF p.source = "null" \/ price[t].usd # NoValue THEN price
                   ELSE [price EXCEPT ![t] = [usd |-> Usd(t, p.source), source |-> p.source, checked |-> TRUE]]
  /\ UNCHANGED <<kept, recent, up, step, writing, trouble>>

(* keepOldPrice: the value there was is kept before another replaces it. *)
(* A bug: only a value from CoinGecko is worth keeping. *)
KeepIfGecko(t, usd) ==
  kept' = IF price[t].source \in {"coingecko_spot", "coingecko_daily"} /\ price[t].usd # usd
          THEN [kept EXCEPT ![t] = @ \cup {price[t].usd}] ELSE kept
KeepOldPrice(t, usd) ==
  kept' = IF price[t].usd \notin {NoValue, usd} THEN [kept EXCEPT ![t] = @ \cup {price[t].usd}] ELSE kept
Replace(t, source) ==
  /\ KeepOldPrice(t, Usd(t, source)) /\ todo' = todo \ {t}
  /\ writing' = [t |-> t, usd |-> Usd(t, source), source |-> source]
(* priceSwaps, upgradePrices: a row that cannot be read on chain waits a day. *)
PriceSwap ==
  /\ step = "swaps" /\ writing = Nothing
  /\ \E t \in todo : Replace(t, "swap")
  /\ UNCHANGED <<price, recent, memo, up, step, trouble>>
Upgrade ==
  /\ step = "upgrade" /\ writing = Nothing
  /\ \E t \in todo : \E p \in Enrich(t) :
       /\ memo' = p.memo
       /\ IF p.source \in OnChain THEN Replace(t, p.source) /\ UNCHANGED price
          ELSE /\ price' = [price EXCEPT ![t].checked = TRUE]
               /\ todo' = todo \ {t} /\ UNCHANGED <<kept, writing>>
  /\ UNCHANGED <<recent, up, step, trouble>>
Write ==
  /\ writing # Nothing /\ writing' = Nothing
  /\ price' = [price EXCEPT ![writing.t] = [usd |-> writing.usd, source |-> writing.source, checked |-> TRUE]]
  /\ UNCHANGED <<kept, recent, memo, up, step, todo, trouble>>

-----------------------------------------------------------------------------
(* Time: transfers get old, and a day passes, long enough for every row to have had  *)
(* its turn.  Trouble: reads fail for a while, or the worker dies with its memory. *)
Age ==
  /\ \E t \in recent : recent' = recent \ {t}
  /\ UNCHANGED <<price, kept, memo, up, step, todo, writing, trouble>>
Day ==
  /\ Idle /\ Upgradable = {} /\ \E t \in Transfers : price[t].checked
  /\ price' = [t \in Transfers |-> [price[t] EXCEPT !.checked = FALSE]]
  /\ UNCHANGED <<kept, recent, memo, up, step, todo, writing, trouble>>
Outage ==
  /\ up /\ trouble < MaxTrouble /\ up' = FALSE /\ trouble' = trouble + 1
  /\ UNCHANGED <<price, kept, recent, memo, step, todo, writing>>
Recover == ~up /\ up' = TRUE /\ UNCHANGED <<price, kept, recent, memo, step, todo, writing, trouble>>
Restart ==
  /\ trouble < MaxTrouble /\ trouble' = trouble + 1
  /\ memo' = [key \in Keys |-> "unread"] /\ step' = "sync" /\ todo' = {} /\ writing' = Nothing
  /\ UNCHANGED <<price, kept, recent, up>>

Init ==
  /\ price = [t \in Transfers |-> Unbooked] /\ kept = [t \in Transfers |-> {}] /\ recent = Transfers
  /\ memo = [key \in Keys |-> "unread"] /\ up = TRUE
  /\ step = "sync" /\ todo = {} /\ writing = Nothing /\ trouble = 0

Work == Cycle \/ Reprice \/ PriceSwap \/ Upgrade \/ Write
Next == (\E t \in Transfers : Ingest(t)) \/ Work \/ Age \/ Day \/ Outage \/ Recover \/ Restart
Spec == Init /\ [][Next]_vars
(* The worker goes on with its cycles, days pass, and an outage ends. *)
LiveSpec == Spec /\ WF_vars(Work) /\ WF_vars(Age) /\ SF_vars(Day) /\ WF_vars(Recover)

-----------------------------------------------------------------------------
Known == {"unread", "null"} \cup UNION {Answers(key) : key \in Keys}
TypeOK ==
  /\ price \in [Transfers -> [usd: 0..3, source: Sources \cup {"unbooked"}, checked: BOOLEAN]]
  /\ kept \in [Transfers -> SUBSET (1..3)] /\ recent \subseteq Transfers
  /\ memo \in [Keys -> Known] /\ up \in BOOLEAN /\ trouble \in 0..MaxTrouble
  /\ step \in {"sync", "missing", "swaps", "upgrade"} /\ todo \subseteq Transfers
  /\ writing \in [t: Transfers \cup {0}, usd: 0..3, source: Sources]

(* A price is only replaced by a better one (the order of price.ts:19-28), however  *)
(* reads fail and whenever the worker dies.                                   *)
Rank(source) ==
  CASE source \in {"unbooked", "null"} -> 0 [] source = "unavailable" -> 1
    [] source \in {"coingecko_spot", "coingecko_daily"} -> 2 [] source \in {"pool_spot", "pool_twap"} -> 3
    [] OTHER -> 4
PricesImprove == [][\A t \in Transfers : Rank(price[t].source) <= Rank(price'[t].source)]_vars

(* "A dollar value Luca already used is kept before a better price replaces it"      *)
(* (reprice.ts:59), also if the worker dies between the two. *)
OldPricesKept ==
  [][\A t \in Transfers : price[t].usd \notin {NoValue, price'[t].usd} => price[t].usd \in kept'[t]]_vars

(* Every transfer ends with a price read on chain, unless this process failed to      *)
(* read its block and remembers that (onchain.ts:121-129).                       *)
Remembered(t) == \E key \in Keys : key[2] = Block(t) /\ memo[key] = "null"
PricedOnChain ==
  \A t \in Transfers : Booked(t) ~> (price[t].source \in OnChain \/ Remembered(t))
=============================================================================
