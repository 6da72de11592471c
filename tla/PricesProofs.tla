---------------------------- MODULE PricesProofs ----------------------------
(***************************************************************************)
(* Proofs about Prices: its type invariant, that a price is only replaced by  *)
(* a better one, and that what was replaced is kept, for any transfers, swaps  *)
(* and limits, however often the sources fail and the worker dies.            *)
(***************************************************************************)
EXTENDS Prices, TLAPS

(* The rows a step still has are as they were selected: each pass reads rows   *)
(* once and writes them one after another.                                  *)
TodoFits ==
  /\ step = "sync" => todo = {}
  /\ step = "missing" => \A t \in todo : price[t].source = "null"
  /\ step = "upgrade" => \A t \in todo : price[t].source \notin OnChain

(* Between keepOldPrice and the UPDATE: what is to be replaced is worse, and in *)
(* the history already.                                                    *)
WritingFits ==
  writing # Nothing =>
    /\ writing.t \in Transfers \ todo /\ writing.source \in OnChain /\ step \in {"swaps", "upgrade"}
    /\ writing.source = "swap" \/ price[writing.t].source \notin OnChain
    /\ price[writing.t].usd \in {NoValue, writing.usd} \cup kept[writing.t]

UnbookedHasNoValue == \A t \in Transfers : ~Booked(t) => price[t].usd = NoValue

PricesInv == TypeOK /\ TodoFits /\ WritingFits /\ UnbookedHasNoValue

-----------------------------------------------------------------------------
(* What a transfer is worth, by any source, is one of four values.            *)
LEMMA UsdType ==
  ASSUME TypeOK, NEW t \in Transfers, NEW source
  PROVE  Usd(t, source) \in 0..3
<1>1. Other[t] \in Transfers
  BY PricesAssumption
<1>2. price[Other[t]].usd \in 0..3
  BY <1>1 DEF TypeOK
<1> QED BY <1>2 DEF Usd, NoValue

(* What is read of a block is a source or "null", and what is remembered is known. *)
LEMMA ReadType ==
  ASSUME TypeOK, NEW key \in Keys, NEW r \in Read(key)
  PROVE  r.memo \in [Keys -> Known] /\ r.answer \in Sources
<1>1. Answers(key) \subseteq Known /\ "null" \in Known
  BY DEF Known
<1>2. Known \ {"unread"} \subseteq Sources /\ "null" \in Sources
  BY DEF Known, Answers, Sources, OnChain
<1>3. "unread" \notin Answers(key)
  BY DEF Answers
<1>4. memo[key] \in Known /\ memo \in [Keys -> Known]
  BY DEF TypeOK
<1>5. CASE memo[key] # "unread"
  BY <1>2, <1>4, <1>5 DEF Read
<1>6. CASE memo[key] = "unread" /\ up
  <2>1. PICK a \in Answers(key) : r = [answer |-> a, memo |-> [memo EXCEPT ![key] = a]]
    BY <1>6 DEF Read
  <2> QED BY <2>1, <1>1, <1>2, <1>3, <1>4
<1>7. CASE memo[key] = "unread" /\ ~up
  BY <1>7, <1>1, <1>2, <1>4 DEF Read
<1> QED BY <1>5, <1>6, <1>7

(* A lookup gives a source of prices, and a memory.                         *)
LEMMA EnrichType ==
  ASSUME TypeOK, NEW t \in Transfers, NEW p \in Enrich(t)
  PROVE  p.source \in Sources /\ p.memo \in [Keys -> Known]
<1> DEFINE f == <<"feed", Block(t)>>
           q == <<"pool", Block(t)>>
<1>1. f \in Keys /\ q \in Keys
  BY PricesAssumption DEF Block, Keys
<1>2. Gecko(t) \subseteq Sources
  BY DEF Gecko, Sources
<1>3. CASE Asset[t] = "USDC"
  BY <1>3 DEF Enrich, TypeOK, Sources, OnChain
<1>4. CASE Asset[t] = "ETH"
  <2>1. PICK feed \in Read(f) :
          /\ p.memo = feed.memo
          /\ \/ p.source = feed.answer /\ feed.answer # "null"
             \/ p.source \in Gecko(t)
    BY <1>4 DEF Enrich
  <2> QED BY <2>1, <1>1, <1>2, ReadType
<1>5. CASE Asset[t] = "BNKR"
  <2> DEFINE both(feed, pool) ==
        {[source |-> s,
          memo |-> [key \in Keys |-> IF key[1] = "feed" THEN feed.memo[key] ELSE pool.memo[key]]] :
          s \in IF "null" \notin {feed.answer, pool.answer} THEN {pool.answer} ELSE Gecko(t)}
  <2>0. Enrich(t) = UNION {both(feed, pool) : feed \in Read(f), pool \in Read(q)}
    BY <1>5 DEF Enrich
  <2>1. PICK feed \in Read(f), pool \in Read(q) : p \in both(feed, pool)
    BY <2>0
  <2>2. feed.memo \in [Keys -> Known] /\ pool.memo \in [Keys -> Known] /\ pool.answer \in Sources
    BY <1>1, ReadType
  <2> QED BY <2>1, <2>2, <1>2
<1> QED BY <1>3, <1>4, <1>5, PricesAssumption
-----------------------------------------------------------------------------
(* The type invariant. *)
LEMMA Typing == ASSUME PricesInv, [Next]_vars PROVE TypeOK'
<1> USE DEF PricesInv, TypeOK
<1>1. ASSUME NEW t \in Transfers, Ingest(t) PROVE TypeOK'
  <2>1. PICK p \in Enrich(t) :
          /\ price' = [price EXCEPT ![t] = [usd |-> Usd(t, p.source), source |-> p.source,
                                            checked |-> p.source # "null"]]
          /\ memo' = p.memo
    BY <1>1 DEF Ingest
  <2>2. Usd(t, p.source) \in 0..3 /\ p.source \in Sources /\ p.memo \in [Keys -> Known]
    BY UsdType, EnrichType
  <2> QED BY <1>1, <2>1, <2>2 DEF Ingest
<1>2. CASE Cycle
  <2>1. todo' \subseteq Transfers
    BY <1>2 DEF Cycle, Begin, Newest, Missing, AnySwaps, Swapped, Upgradable
  <2> QED BY <1>2, <2>1 DEF Cycle, Begin
<1>3. CASE Reprice
  <2>0. PICK t \in todo : \E p \in Enrich(t) :
          /\ todo' = todo \ {t} /\ memo' = p.memo
          /\ price' = IF p.source = "null" \/ price[t].usd # NoValue THEN price
                      ELSE [price EXCEPT ![t] = [usd |-> Usd(t, p.source), source |-> p.source,
                                                 checked |-> TRUE]]
    BY <1>3 DEF Reprice
  <2>1. PICK p \in Enrich(t) :
          /\ todo' = todo \ {t} /\ memo' = p.memo
          /\ price' = IF p.source = "null" \/ price[t].usd # NoValue THEN price
                      ELSE [price EXCEPT ![t] = [usd |-> Usd(t, p.source), source |-> p.source,
                                                 checked |-> TRUE]]
    BY <2>0
  <2>2. Usd(t, p.source) \in 0..3 /\ p.source \in Sources /\ p.memo \in [Keys -> Known]
    BY UsdType, EnrichType
  <2> QED BY <1>3, <2>1, <2>2 DEF Reprice
<1>4. ASSUME NEW t \in todo, NEW source \in Sources, Replace(t, source)
      PROVE  /\ kept' \in [Transfers -> SUBSET (1..3)] /\ todo' \subseteq Transfers
             /\ writing' \in [t: Transfers \cup {0}, usd: 0..3, source: Sources]
  <2>1. Usd(t, source) \in 0..3 /\ price[t].usd \in 0..3
    BY UsdType
  <2> QED BY <1>4, <2>1 DEF Replace, KeepOldPrice, NoValue
<1>5. CASE PriceSwap
  BY <1>4, <1>5 DEF PriceSwap, Sources, OnChain
<1>6. CASE Upgrade
  <2>0. PICK t \in todo : \E p \in Enrich(t) :
          /\ memo' = p.memo
          /\ IF p.source \in OnChain THEN Replace(t, p.source) /\ UNCHANGED price
             ELSE /\ price' = [price EXCEPT ![t].checked = TRUE]
                  /\ todo' = todo \ {t} /\ UNCHANGED <<kept, writing>>
    BY <1>6 DEF Upgrade
  <2>1. PICK p \in Enrich(t) :
          /\ memo' = p.memo
          /\ IF p.source \in OnChain THEN Replace(t, p.source) /\ UNCHANGED price
             ELSE /\ price' = [price EXCEPT ![t].checked = TRUE]
                  /\ todo' = todo \ {t} /\ UNCHANGED <<kept, writing>>
    BY <2>0
  <2>2. p.source \in Sources /\ p.memo \in [Keys -> Known]
    BY EnrichType
  <2>3. CASE p.source \in OnChain
    BY <1>4, <1>6, <2>1, <2>2, <2>3 DEF Upgrade
  <2>4. CASE p.source \notin OnChain
    <3>1. [price[t] EXCEPT !.checked = TRUE] \in [usd: 0..3, source: Sources \cup {"unbooked"}, checked: BOOLEAN]
      BY ZenonT(30)
    <3>2. price' = [price EXCEPT ![t] = [price[t] EXCEPT !.checked = TRUE]]
      BY <2>1, <2>4
    <3>3. price' \in [Transfers -> [usd: 0..3, source: Sources \cup {"unbooked"}, checked: BOOLEAN]]
      BY <3>1, <3>2
    <3> QED BY <1>6, <2>1, <2>2, <2>4, <3>3 DEF Upgrade
  <2> QED BY <2>3, <2>4
<1>7. CASE Write
  <2>1. writing.t \in Transfers
    BY <1>7 DEF Write, WritingFits
  <2>2. writing.usd \in 0..3 /\ writing.source \in Sources
    OBVIOUS
  <2>3. writing' \in [t: Transfers \cup {0}, usd: 0..3, source: Sources]
    BY <1>7 DEF Write, Nothing, NoValue, Sources
  <2> QED BY <1>7, <2>1, <2>2, <2>3 DEF Write
<1>8. CASE Age
  BY <1>8 DEF Age
<1>9. CASE Day
  <2>1. ASSUME NEW t \in Transfers
        PROVE  [price[t] EXCEPT !.checked = FALSE] \in [usd: 0..3, source: Sources \cup {"unbooked"}, checked: BOOLEAN]
    BY ZenonT(30)
  <2> QED BY <1>9, <2>1 DEF Day
<1>10. CASE Outage \/ Recover
  <2>1. trouble' \in 0..MaxTrouble
    BY <1>10, PricesAssumption DEF Outage, Recover
  <2> QED BY <1>10, <2>1 DEF Outage, Recover
<1>11. CASE Restart
  <2>1. memo' \in [Keys -> Known]
    BY <1>11 DEF Restart, Known
  <2>2. writing' \in [t: Transfers \cup {0}, usd: 0..3, source: Sources]
    BY <1>11 DEF Restart, Nothing, NoValue, Sources
  <2>3. trouble' \in 0..MaxTrouble
    BY <1>11, PricesAssumption DEF Restart
  <2> QED BY <1>11, <2>1, <2>2, <2>3 DEF Restart
<1>12. CASE UNCHANGED vars
  BY <1>12 DEF vars
<1> QED BY <1>1, <1>2, <1>3, <1>5, <1>6, <1>7, <1>8, <1>9, <1>10, <1>11, <1>12 DEF Next, Work

-----------------------------------------------------------------------------
(* How a step changes the prices, and what is kept of them: they are the same   *)
(* ones, or new ones where there were none, or the ones being written.        *)
LEMMA PricesMove ==
  ASSUME PricesInv, [Next]_vars, NEW t \in Transfers
  PROVE  /\ \/ price'[t].usd = price[t].usd /\ price'[t].source = price[t].source
            \/ price[t].usd = NoValue /\ price[t].source \in {"unbooked", "null"} /\ Booked(t)'
            \/ writing.t = t /\ Write
         /\ kept[t] \subseteq kept'[t]
<1> USE DEF PricesInv, TypeOK
<1>1. ASSUME NEW u \in Transfers, Ingest(u)
      PROVE  /\ \A v \in Transfers \ {u} : price'[v] = price[v]
             /\ price[u].usd = NoValue /\ price[u].source = "unbooked" /\ Booked(u)' /\ kept' = kept
  <2>1. PICK p \in Enrich(u) :
          price' = [price EXCEPT ![u] = [usd |-> Usd(u, p.source), source |-> p.source,
                                         checked |-> p.source # "null"]]
    BY <1>1 DEF Ingest
  <2>2. p.source # "unbooked"
    BY EnrichType DEF Sources, OnChain
  <2> QED BY <1>1, <2>1, <2>2 DEF Ingest, Booked, UnbookedHasNoValue
<1>2. CASE Reprice
  <2>0. PICK u \in todo : \E p \in Enrich(u) :
          price' = IF p.source = "null" \/ price[u].usd # NoValue THEN price
                   ELSE [price EXCEPT ![u] = [usd |-> Usd(u, p.source), source |-> p.source,
                                              checked |-> TRUE]]
    BY <1>2 DEF Reprice
  <2>1. PICK p \in Enrich(u) :
          price' = IF p.source = "null" \/ price[u].usd # NoValue THEN price
                   ELSE [price EXCEPT ![u] = [usd |-> Usd(u, p.source), source |-> p.source,
                                              checked |-> TRUE]]
    BY <2>0
  <2>2. p.source # "unbooked"
    BY EnrichType DEF Sources, OnChain
  <2>3. price[u].source = "null"
    BY <1>2 DEF Reprice, TodoFits
  <2> QED BY <1>2, <2>1, <2>2, <2>3 DEF Reprice, Booked
<1>3. CASE Upgrade \/ PriceSwap
  <2>1. price'[t].usd = price[t].usd /\ price'[t].source = price[t].source
    BY <1>3 DEF Upgrade, PriceSwap
  <2>2. kept[t] \subseteq kept'[t]
    BY <1>3 DEF Upgrade, PriceSwap, Replace, KeepOldPrice
  <2> QED BY <2>1, <2>2
<1>4. CASE Write
  BY <1>4 DEF Write
<1>5. CASE Day
  BY <1>5 DEF Day
<1>6. CASE Cycle \/ Age \/ Outage \/ Recover \/ Restart \/ UNCHANGED vars
  BY <1>6 DEF Cycle, Begin, Age, Outage, Recover, Restart, vars
<1> QED BY <1>1, <1>2, <1>3, <1>4, <1>5, <1>6 DEF Next, Work

-----------------------------------------------------------------------------
(* Nothing in the history is lost, and no value is replaced before it is there. *)
LEMMA OldPriceKept ==
  ASSUME PricesInv, [Next]_vars, NEW t \in Transfers, price[t].usd \notin {NoValue, price'[t].usd}
  PROVE  price[t].usd \in kept'[t]
<1>1. writing.t = t /\ Write
  BY PricesMove
<1>2. price'[t].usd = writing.usd /\ kept' = kept
  BY <1>1 DEF Write, PricesInv, TypeOK
<1>3. price[t].usd \in kept[t]
  BY <1>1, <1>2 DEF Write, PricesInv, WritingFits
<1> QED BY <1>2, <1>3

(* The better sources come later in the order. *)
LEMMA PriceImproves ==
  ASSUME PricesInv, [Next]_vars, NEW t \in Transfers
  PROVE  Rank(price[t].source) <= Rank(price'[t].source)
<1>1. CASE price'[t].source = price[t].source
  BY <1>1 DEF Rank
<1>2. CASE price[t].source \in {"unbooked", "null"}
  BY <1>2 DEF Rank
<1>3. CASE writing.t = t /\ Write
  <2>1. price'[t].source = writing.source
    BY <1>3 DEF Write, PricesInv, TypeOK
  <2>2. writing.source \in OnChain /\ (writing.source = "swap" \/ price[t].source \notin OnChain)
    BY <1>3 DEF Write, PricesInv, WritingFits
  <2>3. price[t].source \in Sources \cup {"unbooked"}
    BY DEF PricesInv, TypeOK
  <2> QED BY <2>1, <2>2, <2>3 DEF Rank, Sources, OnChain
<1> QED BY <1>1, <1>2, <1>3, PricesMove

(* A booked transfer stays booked, so what was selected stays what it was. *)
LEMMA Invariance == ASSUME PricesInv, [Next]_vars PROVE PricesInv'
<1>1. TypeOK'
  BY Typing
<1>2. UnbookedHasNoValue'
  <2> SUFFICES ASSUME NEW t \in Transfers, ~Booked(t)' PROVE price'[t].usd = NoValue
    BY DEF UnbookedHasNoValue, Booked
  <2>1. CASE price'[t].usd = price[t].usd /\ price'[t].source = price[t].source
    BY <2>1 DEF PricesInv, UnbookedHasNoValue, Booked
  <2>2. CASE writing.t = t /\ Write
    BY <2>2 DEF Write, PricesInv, TypeOK, Booked, WritingFits, OnChain
  <2> QED BY <2>1, <2>2, PricesMove
<1> USE DEF PricesInv, TypeOK
<1>3. TodoFits'
  <2>1. ASSUME NEW u \in Transfers, Ingest(u) PROVE TodoFits'
    BY <2>1 DEF Ingest, Idle, TodoFits
  <2>2. CASE Cycle
    BY <2>2 DEF Cycle, Begin, Newest, Missing, Upgradable, TodoFits
  <2>3. CASE Reprice
    BY <2>3 DEF Reprice, TodoFits
  <2>4. CASE PriceSwap
    BY <2>4 DEF PriceSwap, Replace, TodoFits
  <2>5. CASE Upgrade
    <3>1. todo' \subseteq todo /\ step' = step /\ step = "upgrade"
      BY <2>5 DEF Upgrade, Replace
    <3>2. \A t \in Transfers : price'[t].source = price[t].source
      BY <2>5 DEF Upgrade
    <3> QED BY <3>1, <3>2 DEF TodoFits
  <2>6. CASE Write
    <3>1. \A t \in todo : price'[t] = price[t]
      BY <2>6 DEF Write, WritingFits
    <3> QED BY <2>6, <3>1 DEF Write, TodoFits
  <2>7. CASE Day
    BY <2>7 DEF Day, Idle, TodoFits
  <2>8. CASE Restart
    BY <2>8 DEF Restart, TodoFits
  <2>9. CASE Age \/ Outage \/ Recover \/ UNCHANGED vars
    BY <2>9 DEF Age, Outage, Recover, vars, TodoFits
  <2> QED BY <2>1, <2>2, <2>3, <2>4, <2>5, <2>6, <2>7, <2>8, <2>9 DEF Next, Work
<1>4. WritingFits'
  <2>1. ASSUME NEW u \in Transfers, Ingest(u) PROVE WritingFits'
    BY <2>1 DEF Ingest, Idle, WritingFits, Nothing
  <2>2. CASE Cycle
    BY <2>2 DEF Cycle, Begin, Done, WritingFits, Nothing
  <2>3. CASE Reprice
    BY <2>3 DEF Reprice, WritingFits, Nothing
  <2>4. ASSUME NEW t \in todo, NEW source \in OnChain, Replace(t, source), UNCHANGED <<price, step>>,
               step \in {"swaps", "upgrade"}, source = "swap" \/ price[t].source \notin OnChain
        PROVE  WritingFits'
    <3>1. writing' = [t |-> t, usd |-> Usd(t, source), source |-> source] /\ t \notin todo'
      BY <2>4 DEF Replace
    <3>2. price[t].usd \in {NoValue, Usd(t, source)} \cup kept'[t]
      BY <2>4 DEF Replace, KeepOldPrice
    <3> QED BY <2>4, <3>1, <3>2 DEF WritingFits
  <2>5. CASE PriceSwap
    BY <2>4, <2>5 DEF PriceSwap, OnChain
  <2>6. CASE Upgrade
    <3>1. PICK t \in todo : \E p \in Enrich(t) :
            IF p.source \in OnChain THEN Replace(t, p.source) /\ UNCHANGED price
            ELSE UNCHANGED <<kept, writing>>
      BY <2>6 DEF Upgrade
    <3>2. PICK p \in Enrich(t) :
            IF p.source \in OnChain THEN Replace(t, p.source) /\ UNCHANGED price
            ELSE UNCHANGED <<kept, writing>>
      BY <3>1
    <3>3. price[t].source \notin OnChain
      BY <2>6 DEF Upgrade, TodoFits
    <3>4. CASE p.source \in OnChain
      BY <2>4, <2>6, <3>2, <3>3, <3>4 DEF Upgrade
    <3>5. CASE p.source \notin OnChain
      BY <2>6, <3>2, <3>5 DEF Upgrade, WritingFits, Nothing
    <3> QED BY <3>4, <3>5
  <2>7. CASE Write \/ Restart
    BY <2>7 DEF Write, Restart, WritingFits, Nothing
  <2>8. CASE Day
    BY <2>8 DEF Day, Idle, WritingFits, Nothing
  <2>9. CASE Age \/ Outage \/ Recover \/ UNCHANGED vars
    BY <2>9 DEF Age, Outage, Recover, vars, WritingFits, Nothing
  <2> QED BY <2>1, <2>2, <2>3, <2>5, <2>6, <2>7, <2>8, <2>9 DEF Next, Work
<1> QED BY <1>1, <1>2, <1>3, <1>4

LEMMA Initially == Init => PricesInv
<1> SUFFICES ASSUME Init PROVE PricesInv
  OBVIOUS
<1>1. TypeOK
  <2>1. price \in [Transfers -> [usd: 0..3, source: Sources \cup {"unbooked"}, checked: BOOLEAN]]
    BY DEF Init, Unbooked, NoValue
  <2>2. writing \in [t: Transfers \cup {0}, usd: 0..3, source: Sources]
    BY DEF Init, Nothing, NoValue, Sources
  <2>3. trouble \in 0..MaxTrouble
    BY PricesAssumption DEF Init
  <2> QED BY <2>1, <2>2, <2>3 DEF Init, TypeOK, Known
<1> QED BY <1>1 DEF Init, PricesInv, TodoFits, WritingFits, UnbookedHasNoValue, Unbooked

(* The inductive invariant of the prices: what a pass has read is a booked transfer's,  *)
(* what it is writing is better than what it read, and no price is booked before its   *)
(* transfer (reprice.ts 28-156).                                                 *)
THEOREM PricesInvariant == Spec => []PricesInv
<1>1. PricesInv /\ [Next]_vars => PricesInv'
  BY Invariance
<1> QED BY Initially, <1>1, PTL DEF Spec

(* Every variable keeps its type.                                            *)
THEOREM PricesTypes == Spec => []TypeOK
<1>1. PricesInv => TypeOK
  BY DEF PricesInv
<1> QED BY <1>1, PricesInvariant, PTL

(* A price is only replaced by a better one: priceSwaps and upgradePrices, whatever  *)
(* they read before and wherever they are interrupted (reprice.ts 71-156).       *)
THEOREM PricesAlwaysImprove == Spec => PricesImprove
<1>1. PricesInv /\ [Next]_vars => [\A t \in Transfers : Rank(price[t].source) <= Rank(price'[t].source)]_vars
  BY PriceImproves
<1> QED BY <1>1, PricesInvariant, PTL DEF Spec, PricesImprove

(* The value a better price replaces is in the history first (keepOldPrice,        *)
(* reprice.ts 59-69), also across restarts.                                  *)
THEOREM OldPricesAlwaysKept == Spec => OldPricesKept
<1>1. PricesInv /\ [Next]_vars
      => [\A t \in Transfers : price[t].usd \notin {NoValue, price'[t].usd} => price[t].usd \in kept'[t]]_vars
  BY OldPriceKept
<1> QED BY <1>1, PricesInvariant, PTL DEF Spec, OldPricesKept
=============================================================================
