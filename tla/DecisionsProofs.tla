--------------------------- MODULE DecisionsProofs ---------------------------
(***************************************************************************)
(* Proofs about Fees: whatever tokens are followed, in any order and at any   *)
(* time, and however many transfers there are, nothing is booked as the fees   *)
(* of a pool that did not pay it.  About Trace: for any labels, a movement on    *)
(* the chain that is judged fine is in exactly one place of the books.  And     *)
(* about Staking: for any history of a contract, what is booked as its income    *)
(* is no more than it granted.                                             *)
(***************************************************************************)
EXTENDS MCDecisions, FiniteSetTheorems, NaturalsInduction, WellFoundedInduction, TLAPS

Paying(r, p, of) == r.paid = {p} \/ (Named(r) = {} /\ of = {p})

(* A kept claim is of the pool that paid, whoever is followed by now. *)
ChecksRight ==
  \A t \in DOMAIN checks :
    checks[t].verdict = "claim" => Paying(receipt[t], checks[t].pool, checks[t].of)

(* A label of a pool comes from a claim. *)
LabelsFromChecks ==
  \A t \in DOMAIN label : label[t] \in Pools =>
    t \in DOMAIN checks /\ checks[t].verdict = "claim" /\ checks[t].pool = label[t]

Placed ==
  /\ DOMAIN checks \subseteq Transfers /\ DOMAIN label \subseteq Transfers
  /\ receipt \in [Transfers -> {r \in Receipt : Possible(r)}]
  /\ DOMAIN checks # {} => sources # <<>>

FeesInv == TypeOK /\ Placed /\ ChecksRight /\ LabelsFromChecks

-----------------------------------------------------------------------------
(* The pools followed are finitely many. *)
LEMMA FollowedFinite ==
  ASSUME sources \in Seq(Pools)
  PROVE  Followed \subseteq Pools /\ IsFiniteSet(Followed)
<1>1. Followed \subseteq Pools
  BY DEF Followed
<1>2. sources \in Seq(Followed)
  BY DEF Followed
<1>3. \A p \in Followed : \E n \in 1..Len(sources) : sources[n] = p
  BY DEF Followed
<1> QED BY <1>1, <1>2, <1>3 DEF IsFiniteSet

(* A set of positions has a first one. *)
LEMMA FirstOf ==
  ASSUME NEW S \in SUBSET Nat, S # {}
  PROVE  \E n \in S : \A m \in S : n <= m
<1>1. PICK n \in S : \A m \in S : ~ (<<m, n>> \in OpToRel(<, Nat))
  BY NatLessThanWellFounded, WFMin
<1>2. \A m \in S : ~(m < n)
  BY <1>1 DEF OpToRel
<1> QED BY <1>2

(* decideAcrossSources says "claim" only of the pool that paid.                  *)
LEMMA DecisionRight ==
  ASSUME sources \in Seq(Pools), sources # <<>>, NEW r \in Receipt, Possible(r)
  PROVE  LET d == DecideAcrossSources(r)
         IN /\ d \in [verdict: {"claim", "unclear", "unrelated"}, pool: Pools, of: SUBSET Pools]
            /\ d.verdict = "claim" => Paying(r, d.pool, d.of)
<1> DEFINE first == sources[1]
           named == Named(r) \cap Followed
           verdict(v, p) == [verdict |-> v, pool |-> p, of |-> Followed]
<1>1. first \in Pools /\ first \in Followed /\ Followed \subseteq Pools
  BY FollowedFinite DEF Followed
<1>2. CASE Len(sources) = 1
  <2>1. Followed = {first}
    BY <1>2 DEF Followed
  <2>2. DecideAcrossSources(r) = verdict(DecideClaim(first, r), first)
    BY <1>2 DEF DecideAcrossSources
  <2>3. DecideClaim(first, r) \in {"claim", "unclear", "unrelated"}
    BY DEF DecideClaim
  <2>4. DecideClaim(first, r) = "claim" => Named(r) \subseteq {first}
    BY DEF DecideClaim
  <2>5. Named(r) = {first} => r.paid = {first}
    BY DEF Named, Possible
  <2>6. DecideClaim(first, r) = "claim" => Paying(r, first, Followed)
    BY <2>1, <2>4, <2>5 DEF Paying
  <2>7. verdict(DecideClaim(first, r), first) \in
          [verdict: {"claim", "unclear", "unrelated"}, pool: Pools, of: SUBSET Pools]
    BY <1>1, <2>3
  <2>8. /\ verdict(DecideClaim(first, r), first).verdict = DecideClaim(first, r)
        /\ verdict(DecideClaim(first, r), first).pool = first
        /\ verdict(DecideClaim(first, r), first).of = Followed
    OBVIOUS
  <2> HIDE DEF verdict, first
  <2> QED BY <2>2, <2>6, <2>7, <2>8
<1>3. CASE Len(sources) # 1 /\ \A p \in Followed : DecideClaim(p, r) = "unrelated"
  BY <1>1, <1>3 DEF DecideAcrossSources
<1>4. CASE Len(sources) # 1 /\ ~(\A p \in Followed : DecideClaim(p, r) = "unrelated")
  <2>1. CASE Untracked(r) # {}
    BY <1>1, <1>4, <2>1 DEF DecideAcrossSources
  <2>2. CASE Untracked(r) = {} /\ Cardinality(named) = 1
    <3>1. DecideAcrossSources(r) = verdict("claim", CHOOSE p \in named : TRUE)
      BY <1>4, <2>2 DEF DecideAcrossSources
    <3>2. IsFiniteSet(named)
      BY FollowedFinite, FS_Subset
    <3>3. PICK p : named = {p}
      BY <2>2, <3>2, FS_Singleton
    <3>4. (CHOOSE q \in named : TRUE) = p /\ p \in Pools
      BY <3>3 DEF Named
    <3>5. Named(r) = {p}
      BY <2>2, <3>3 DEF Untracked
    <3>6. r.paid = {p}
      BY <3>5 DEF Named, Possible
    <3>7. /\ verdict("claim", p) \in
                [verdict: {"claim", "unclear", "unrelated"}, pool: Pools, of: SUBSET Pools]
          /\ verdict("claim", p).pool = p
      BY <1>1, <3>4
    <3>8. DecideAcrossSources(r) = verdict("claim", p)
      BY <3>1, <3>4
    <3>9. Paying(r, verdict("claim", p).pool, verdict("claim", p).of)
      BY <3>6, <3>7 DEF Paying
    <3> HIDE DEF verdict
    <3> QED BY <3>7, <3>8, <3>9
  <2>3. CASE Untracked(r) = {} /\ Cardinality(named) # 1 /\ named # {}
    <3> DEFINE q == CHOOSE p \in named : \E i \in DOMAIN sources :
                      sources[i] = p /\ \A j \in 1..(i - 1) : sources[j] \notin named
    <3>1. DecideAcrossSources(r) = verdict("unclear", q)
      BY <1>4, <2>3 DEF DecideAcrossSources
    <3>2. \E p \in named : \E i \in DOMAIN sources :
            sources[i] = p /\ \A j \in 1..(i - 1) : sources[j] \notin named
      <4> DEFINE S == {n \in DOMAIN sources : sources[n] \in named}
      <4>1. S # {} /\ S \subseteq Nat
        BY <2>3 DEF Followed
      <4>2. PICK i \in S : \A m \in S : i <= m
        BY <4>1, FirstOf
      <4>3. \A j \in 1..(i - 1) : j \in DOMAIN sources /\ ~(i <= j)
        BY <4>1, <4>2
      <4> QED BY <4>2, <4>3
    <3>3. q \in Pools
      BY <3>2 DEF Named
    <3> QED BY <1>1, <3>1, <3>3
  <2>4. CASE Untracked(r) = {} /\ Cardinality(named) # 1 /\ named = {}
    BY <1>1, <1>4, <2>4 DEF DecideAcrossSources
  <2> QED BY <2>1, <2>2, <2>3, <2>4
<1> QED BY <1>2, <1>3, <1>4

-----------------------------------------------------------------------------
LEMMA Initially == Init => FeesInv
  BY FeesAssumption DEF Init, FeesInv, TypeOK, Placed, ChecksRight, LabelsFromChecks

LEMMA FollowKeeps ==
  ASSUME FeesInv, NEW p \in Pools, Follow(p) PROVE FeesInv'
<1>1. sources' \in Seq(Pools) /\ sources' # <<>>
  BY DEF Follow, FeesInv, TypeOK
<1> QED BY <1>1 DEF Follow, FeesInv, TypeOK, Placed, ChecksRight, LabelsFromChecks, Paying, Named

LEMMA CheckKeeps ==
  ASSUME FeesInv, NEW t \in Transfers, Check(t) PROVE FeesInv'
<1> DEFINE d == DecideAcrossSources(receipt[t])
<1>1. receipt[t] \in Receipt /\ Possible(receipt[t])
  BY DEF FeesInv, Placed
<1>2. sources \in Seq(Pools) /\ sources # <<>>
  BY DEF FeesInv, TypeOK, Check
<1>3. /\ d \in [verdict: {"claim", "unclear", "unrelated"}, pool: Pools, of: SUBSET Pools]
      /\ d.verdict = "claim" => Paying(receipt[t], d.pool, d.of)
  BY <1>1, <1>2, DecisionRight
<1>4. /\ DOMAIN checks' = DOMAIN checks \cup {t} /\ t \notin DOMAIN checks
      /\ checks'[t] = d
      /\ \A u \in DOMAIN checks : checks'[u] = checks[u]
  BY DEF Check
<1>5. relabel' = {t} /\ UNCHANGED <<sources, receipt, label, trouble>>
  BY DEF Check
<1> HIDE DEF d
<1>6. TypeOK'
  BY <1>3, <1>4, <1>5 DEF FeesInv, TypeOK
<1>7. Placed'
  BY <1>2, <1>4, <1>5 DEF FeesInv, Placed
<1>8. ChecksRight'
  BY <1>3, <1>4, <1>5 DEF FeesInv, ChecksRight, Paying, Named
<1>9. LabelsFromChecks'
  BY <1>4, <1>5 DEF FeesInv, LabelsFromChecks
<1> QED BY <1>6, <1>7, <1>8, <1>9 DEF FeesInv

(* What a verdict makes of a label: a pool only for a claim, and then its own. *)
LEMMA FeeLabelRight ==
  ASSUME NEW c \in [verdict: {"claim", "unclear", "unrelated"}, pool: Pools, of: SUBSET Pools]
  PROVE  /\ FeeLabel(c) \in Pools \cup {"usual", "unknown"}
         /\ FeeLabel(c) \in Pools => c.verdict = "claim" /\ c.pool = FeeLabel(c)
  BY FeesAssumption DEF FeeLabel

LEMMA RelabelKeeps ==
  ASSUME FeesInv, NEW t \in Transfers, Relabel(t) PROVE FeesInv'
<1>1. UNCHANGED <<sources, receipt, checks, trouble>> /\ relabel' = {}
  BY DEF Relabel
<1>2. t \in DOMAIN checks
  BY DEF Relabel, FeesInv, TypeOK
<1>3. checks[t] \in [verdict: {"claim", "unclear", "unrelated"}, pool: Pools, of: SUBSET Pools]
  BY <1>2 DEF FeesInv, TypeOK
<1>4. CASE label' = label
  BY <1>1, <1>4 DEF FeesInv, TypeOK, Placed, ChecksRight, LabelsFromChecks, Paying, Named
<1>5. CASE label' = [label EXCEPT ![t] = FeeLabel(checks[t])] /\ t \in DOMAIN label
  <2>1. /\ DOMAIN label' = DOMAIN label /\ label'[t] = FeeLabel(checks[t])
        /\ \A u \in DOMAIN label : u # t => label'[u] = label[u]
    BY <1>5
  <2>2. TypeOK'
    BY <1>1, <1>3, <2>1, FeeLabelRight DEF FeesInv, TypeOK
  <2>3. LabelsFromChecks'
    BY <1>1, <1>2, <1>3, <2>1, FeeLabelRight DEF FeesInv, LabelsFromChecks
  <2> QED BY <1>1, <2>1, <2>2, <2>3 DEF FeesInv, Placed, ChecksRight, Paying, Named
<1> QED BY <1>4, <1>5 DEF Relabel

LEMMA ClassifyKeeps ==
  ASSUME FeesInv, Classify PROVE FeesInv'
<1> DEFINE ready == {t \in Transfers \ DOMAIN label : sources = <<>> \/ t \in DOMAIN checks}
<1>1. UNCHANGED <<sources, receipt, checks, relabel, trouble>>
  BY DEF Classify
<1>2. /\ DOMAIN label' = DOMAIN label \cup ready
      /\ \A t \in DOMAIN label : label'[t] = label[t]
      /\ \A t \in ready : label'[t] = IF sources = <<>> THEN "usual" ELSE FeeLabel(checks[t])
  BY DEF Classify
<1>3. \A t \in ready : sources # <<>> =>
        t \in DOMAIN checks
        /\ checks[t] \in [verdict: {"claim", "unclear", "unrelated"}, pool: Pools, of: SUBSET Pools]
  BY DEF FeesInv, TypeOK
<1>4. ready \subseteq Transfers
  OBVIOUS
<1> HIDE DEF ready
<1>5. \A t \in ready :
        /\ label'[t] \in Pools \cup {"usual", "unknown"}
        /\ label'[t] \in Pools =>
             t \in DOMAIN checks /\ checks[t].verdict = "claim" /\ checks[t].pool = label'[t]
  BY <1>2, <1>3, FeeLabelRight, FeesAssumption
<1>6. TypeOK'
  BY <1>1, <1>2, <1>5 DEF FeesInv, TypeOK
<1>7. LabelsFromChecks'
  BY <1>1, <1>2, <1>5 DEF FeesInv, LabelsFromChecks
<1> QED BY <1>1, <1>2, <1>4, <1>6, <1>7 DEF FeesInv, Placed, ChecksRight, Paying, Named

LEMMA CorrectKeeps ==
  ASSUME FeesInv, NEW t \in Transfers, Correct(t) PROVE FeesInv'
<1>1. UNCHANGED <<sources, receipt, checks, relabel>> /\ trouble' \in 0..MaxTrouble
  BY FeesAssumption DEF Correct, FeesInv, TypeOK
<1>2. /\ DOMAIN label' = DOMAIN label \cup {t} /\ label'[t] = "own"
      /\ \A u \in DOMAIN label : u # t => label'[u] = label[u]
  BY DEF Correct
<1>3. TypeOK'
  BY <1>1, <1>2 DEF FeesInv, TypeOK
<1>4. LabelsFromChecks'
  BY <1>1, <1>2, FeesAssumption DEF FeesInv, LabelsFromChecks
<1> QED BY <1>1, <1>2, <1>3, <1>4 DEF FeesInv, Placed, ChecksRight, Paying, Named

LEMMA RestartKeeps ==
  ASSUME FeesInv, Restart PROVE FeesInv'
<1>1. trouble' \in 0..MaxTrouble
  BY FeesAssumption DEF Restart, FeesInv, TypeOK
<1> QED BY <1>1 DEF Restart, FeesInv, TypeOK, Placed, ChecksRight, LabelsFromChecks, Paying, Named

LEMMA Invariance == FeesInv /\ [Next]_vars => FeesInv'
<1> SUFFICES ASSUME FeesInv, [Next]_vars PROVE FeesInv'
  OBVIOUS
<1>1. CASE \E p \in Pools : Follow(p)
  BY <1>1, FollowKeeps
<1>2. CASE \E t \in Transfers : Check(t)
  BY <1>2, CheckKeeps
<1>3. CASE \E t \in Transfers : Relabel(t)
  BY <1>3, RelabelKeeps
<1>4. CASE \E t \in Transfers : Correct(t)
  BY <1>4, CorrectKeeps
<1>5. CASE Classify
  BY <1>5, ClassifyKeeps
<1>6. CASE Restart
  BY <1>6, RestartKeeps
<1>7. CASE UNCHANGED vars
  BY <1>7 DEF vars, FeesInv, TypeOK, Placed, ChecksRight, LabelsFromChecks, Paying, Named
<1> QED BY <1>1, <1>2, <1>3, <1>4, <1>5, <1>6, <1>7 DEF Next

(* The inductive invariant of the fee checks (claims.ts checkFeeClaims): every kept  *)
(* claim is of the pool that paid, and every label of a pool is from a kept claim.  *)
THEOREM FeesInvariant == Spec => []FeesInv
<1>1. Init => FeesInv
  BY Initially
<1>2. FeesInv /\ [Next]_vars => FeesInv'
  BY Invariance
<1> QED BY <1>1, <1>2, PTL DEF Spec

(* Nothing is ever booked as the fees of a pool that did not pay it (claims.ts:9-20),  *)
(* for any pools and transfers, in any order of following, checking, classifying,   *)
(* correcting and restarting.                                                *)
THEOREM FeesAlwaysOfTheirPool == Spec => []FeesAreOfTheirPool
<1>1. FeesInv => FeesAreOfTheirPool
  <2> SUFFICES ASSUME FeesInv, NEW t \in DOMAIN label, label[t] \in Pools
               PROVE  \/ receipt[t].paid = {label[t]}
                      \/ Named(receipt[t]) = {} /\ checks[t].of = {label[t]}
    BY DEF FeesAreOfTheirPool
  <2>1. t \in DOMAIN checks /\ checks[t].verdict = "claim" /\ checks[t].pool = label[t]
    BY DEF FeesInv, LabelsFromChecks
  <2> QED BY <2>1 DEF FeesInv, ChecksRight, Paying
<1> QED BY <1>1, FeesInvariant, PTL

-----------------------------------------------------------------------------
(* What is said of each movement is what LostAt says of its evidence. *)
TraceInv ==
  /\ evidence = Untraced \/ (evidence \in T!Evidence /\ T!Possible(evidence))
  /\ \A d \in DOMAIN lost : lost[d] = T!LostAt(evidence, d)

(* Trace counts with the Cardinality of FiniteSets. *)
LEMMA SameCount == \A S : T!Cardinality(S) = Cardinality(S)
  BY DEF T!Cardinality, Cardinality

(* A label is in one figure; the one of a failed call is among the unknown. *)
LEMMA OneFigure ==
  ASSUME NEW e \in T!Booked, e.label # None
  PROVE  /\ T!FigureOf(e) \in DOMAIN T!Category
         /\ e.label = "unknown" => T!FigureOf(e) = "unknown"
<1>1. CASE e.label = "refund"
  BY <1>1 DEF T!FigureOf, T!Category, T!Booked, T!Dirs
<1>2. CASE e.label # "refund"
  <2>1. e.label \in Labels
    BY DEF T!Booked, None, T!None
  <2>2. \E f \in DOMAIN T!Category : e.label \in T!Category[f]
    BY <1>2, <2>1, LabelsAssumption DEF Category, T!Category
  <2>3. T!FigureOf(e) = CHOOSE f \in DOMAIN T!Category : e.label \in T!Category[f]
    BY <1>2 DEF T!FigureOf, None, T!None
  <2>4. T!FigureOf(e) \in DOMAIN T!Category /\ e.label \in T!Category[T!FigureOf(e)]
    BY <2>2, <2>3, Zenon
  <2>5. ASSUME e.label = "unknown" PROVE T!FigureOf(e) = "unknown"
    BY <2>4, <2>5 DEF T!Category
  <2> QED BY <2>4, <2>5
<1> QED BY <1>1, <1>2

(* An event with a label is in its own figure, or nowhere yet: one of the totals     *)
(* without a price; a failed label is only among those pending.                *)
LEMMA OnePlace ==
  ASSUME NEW e \in T!Booked, e.label # None, e.failed => e.label = "unknown"
  PROVE  (Cardinality(T!Places(e)) = 1)
           = ~(T!FigureOf(e) \in T!Totals /\ T!Contribution(T!FigureOf(e), e) = {})
<1> DEFINE F == T!FigureOf(e)
<1>1. F \in DOMAIN T!Category /\ (e.failed => F = "unknown")
  BY OneFigure
<1>2. e.failed \in BOOLEAN /\ e.usd \in SUBSET {1}
  BY DEF T!Booked
<1>3. CASE e.failed
  <2>1. F = "unknown"
    BY <1>1, <1>3
  <2>2. \A f \in DOMAIN T!Category : T!Contribution(f, e) = {}
    BY <1>3, <2>1 DEF T!Contribution
  <2>3. T!Places(e) = {"pending"}
    BY <1>3, <2>2 DEF T!Places, T!Pending
  <2>4. F \notin T!Totals
    BY <2>1 DEF T!Totals
  <2> QED BY <2>3, <2>4, FS_Singleton
<1>4. CASE ~e.failed
  <2>1. T!Places(e) = {f \in {F} : T!Contribution(f, e) # {}}
    BY <1>1, <1>4 DEF T!Places, T!Pending, T!Contribution, None, T!None
  <2>2. T!Contribution(F, e) = {} => F \in T!Totals
    BY <1>2, <1>4 DEF T!Contribution
  <2>3. CASE T!Contribution(F, e) = {}
    <3>1. T!Places(e) = {}
      BY <2>1, <2>3
    <3> QED BY <2>2, <2>3, <3>1, FS_EmptySet
  <2>4. CASE T!Contribution(F, e) # {}
    <3>1. T!Places(e) = {F}
      BY <2>1, <2>4
    <3> QED BY <2>4, <3>1, FS_Singleton
  <2> QED BY <2>3, <2>4
<1> QED BY <1>2, <1>3, <1>4

(* What the chain reports is found nowhere lost just when it is booked, supported,  *)
(* labeled and in a figure.                                                *)
LEMMA NamedOrBooked ==
  ASSUME NEW e \in T!Evidence, T!Possible(e), NEW d \in e.chain
  PROVE  (T!LostAt(e, d) = None)
           = (/\ d \in e.events /\ e.supported /\ e.label # None
              /\ Cardinality(T!Places(T!Event(e, d))) = 1)
<1>1. T!OnChain(e, d) = "yes" /\ e.tracked /\ d \in T!Dirs
  BY DEF T!OnChain, T!Possible, T!Evidence
<1>2. (T!LostAt(e, d) = None)
        = (d \in e.events /\ e.supported /\ e.label # None /\ ~T!Unpaid(e, d))
  BY <1>1 DEF T!LostAt, None, T!None, T!Evidence
<1>3. ASSUME e.label # None
      PROVE  (Cardinality(T!Places(T!Event(e, d))) = 1) = ~T!Unpaid(e, d)
  <2>1. /\ T!Event(e, d) \in T!Booked /\ T!Event(e, d).label = e.label
        /\ T!Event(e, d).failed = e.failed
    BY <1>1 DEF T!Event, T!Booked, T!Evidence
  <2>2. e.failed => e.label = "unknown"
    BY DEF T!Possible
  <2> QED BY <1>3, <2>1, <2>2, OnePlace DEF T!Unpaid
<1> QED BY <1>2, <1>3

LEMMA TraceKept == TraceInv /\ [MCNext]_<<trace, staking, vars>> => TraceInv'
<1> SUFFICES ASSUME TraceInv, [MCNext]_<<trace, staking, vars>> PROVE TraceInv'
  OBVIOUS
<1>1. CASE T!Next
  BY <1>1 DEF T!Next, T!Judge, TraceInv
<1>2. CASE UNCHANGED trace
  BY <1>2 DEF trace, TraceInv
<1> QED BY <1>1, <1>2 DEF MCNext, trace

(* Every movement the chain reports is in the books as it should be, or named with    *)
(* the layer it stopped at (trace.ts followKey and describeTrace), for any labels.   *)
THEOREM NothingEverSlipsThrough == MCSpec => []NothingSlipsThrough
<1>1. MCInit => TraceInv
  BY DEF MCInit, T!Init, NoTrace, TraceInv
<1>2. TraceInv => NothingSlipsThrough
  <2> SUFFICES ASSUME TraceInv, NEW d \in evidence.chain, d \in DOMAIN lost
               PROVE  (lost[d] = None)
                        = (/\ d \in evidence.events /\ evidence.supported
                           /\ evidence.label # None
                           /\ Cardinality(T!Places(T!Event(evidence, d))) = 1)
    BY SameCount DEF NothingSlipsThrough, T!NothingSlipsThrough, T!Judged, None, T!None
  <2>1. evidence # Untraced
    BY DEF Untraced
  <2>2. evidence \in T!Evidence /\ T!Possible(evidence)
    BY <2>1 DEF TraceInv
  <2> QED BY <2>2, NamedOrBooked DEF TraceInv
<1> QED BY <1>1, <1>2, TraceKept, PTL DEF MCSpec

-----------------------------------------------------------------------------
(* Staking: what is booked as income was earned.                               *)

(* What the contract held and had granted before a transaction, or now. *)
Held(i) == IF i \in DOMAIN chain THEN chain[i].before + chain[i].owed ELSE staked + owed
Granted(i) == IF i \in DOMAIN chain THEN chain[i].earned ELSE earned
Moved(dir, i) == {l \in K!AllLegs : l.dir = dir /\ l.tx < i}

(* The contract keeps its books: it holds what went in and what it granted, less what  *)
(* came out.                                                                 *)
Balanced ==
  \A i \in 1 .. Len(chain) + 1 :
    Held(i) + K!Total(Moved("in", i)) = K!Total(Moved("out", i)) + Granted(i)

(* What a transaction's transfers are, and do to what is held and granted. *)
LegFits(i, l) ==
  LET t == chain[i] IN
  /\ l \in K!Leg /\ l.tx = i
  /\ l.of = "sent" =>
       l.dir = "out" /\ l.token = "stake" /\ t.before < t.after /\ Held(i + 1) >= Held(i) + l.amount
  /\ l.of = "back" =>
       /\ l.dir = "in" /\ l.token = "stake"
       /\ \/ t.before - t.after = l.amount /\ Held(i + 1) >= Held(i) - l.amount
          \/ t.before = t.after /\ t.owed = l.amount /\ Held(i + 1) >= t.after
  /\ l.of = "reward" => l.dir = "in" /\ Granted(i) + l.amount <= Granted(i + 1)
HistoryFits ==
  \A i \in DOMAIN chain :
    LET t == chain[i] IN
    /\ t.legs # {} /\ IsFiniteSet(t.legs) /\ \A l \in t.legs : LegFits(i, l)
    /\ \A k, l \in t.legs : k.of = l.of => k = l
    /\ \A k, l \in t.legs : ~(k.of = "sent" /\ l.of = "back")
    /\ Granted(i) <= Granted(i + 1) /\ Granted(i + 1) <= earned
    /\ (\A l \in t.legs : l.of # "back") => Held(i + 1) >= Held(i)
HistoryTypes ==
  /\ chain \in Seq([legs: SUBSET K!Leg, before: Nat, after: Nat, owed: Nat, earned: Nat])
  /\ staked \in Nat /\ owed \in Nat /\ earned \in Nat
  /\ contract = <<>> \/ contract.pays \in K!Tokens

(* Verdicts are reached on booked transfers, each once. *)
Says(l, v) == (l \in DOMAIN stakeChecks /\ stakeChecks[l] = v) \/ <<l, v>> \in writing
VerdictsFit ==
  /\ booked \subseteq K!AllLegs /\ DOMAIN stakeChecks \subseteq booked /\ stakeRelabel \subseteq DOMAIN stakeChecks
  /\ \A l \in DOMAIN stakeChecks : stakeChecks[l] \in K!Verdicts
  /\ writing \subseteq (booked \ DOMAIN stakeChecks) \X K!Verdicts
  /\ \A w, x \in writing : w[1] = x[1] => w = x
  /\ work \subseteq DOMAIN chain
  /\ ~synced => booked = {} /\ work = {}
  /\ \A l \in DOMAIN stakeLabel :
       stakeLabel[l] = "staking_reward" => l \in DOMAIN stakeChecks /\ stakeChecks[l] = "staking_reward"

ExplainedBefore(i) == \A m \in K!AllLegs : m.tx < i => K!Explained(m)
Principal(i) == K!PrincipalSeen(i)
Due(i) == K!Returning(chain[i], Principal(i))

(* What was decided of a transfer, of the capital seen before its transaction. *)
LegRight(l, v) ==
  LET t == chain[l.tx]
      due == Due(l.tx)
  IN /\ v = "unrelated" => l.of = "reward" /\ ~K!Capital(l)
     /\ v = "staked" => l.dir = "out"
     /\ v \in {"unstaked", "staking_reward"} => l.dir = "in" /\ t.after <= t.before
     /\ v = "unstaked" => due > 0 /\ l.amount = due
     /\ v = "staking_reward" =>
          \/ due = 0 /\ Principal(l.tx) = t.after
          \/ /\ due > 0 /\ ~(K!Capital(l) /\ l.amount = due)
             /\ \E k \in t.legs : k # l /\ k.dir = "in" /\ K!Capital(k) /\ k.amount = due
DecidedRight ==
  ~gap => \A l \in K!AllLegs, v \in K!Verdicts :
            Says(l, v) => ExplainedBefore(l.tx) /\ LegRight(l, v)
(* The capital Luca takes to be in the contract is there. *)
PrincipalHeld ==
  ~gap => \A i \in DOMAIN chain : ExplainedBefore(i) => Principal(i) <= Held(i)

IncomeInv ==
  HistoryTypes /\ HistoryFits /\ Balanced /\ VerdictsFit /\ DecidedRight /\ PrincipalHeld

(* Sums of amounts, counted unit by unit. *)
LEMMA UnitsFinite ==
  ASSUME NEW S, IsFiniteSet(S), \A l \in S : l.amount \in Nat
  PROVE  IsFiniteSet(K!Units(S)) /\ K!Total(S) \in Nat /\ K!Total(S) = Cardinality(K!Units(S))
<1> DEFINE parts == {{l} \X (1 .. l.amount) : l \in S}
<1>1. IsFiniteSet(parts)
  <2> DEFINE f == [l \in S |-> {l} \X (1 .. l.amount)]
  <2>1. f \in Surjection(S, parts)
    BY DEF Surjection
  <2> QED BY <2>1, FS_Surjection
<1>2. ASSUME NEW l \in S PROVE IsFiniteSet({l} \X (1 .. l.amount))
  <2>1. IsFiniteSet({l})
    BY FS_Singleton
  <2>2. IsFiniteSet(1 .. l.amount)
    BY FS_Interval
  <2> QED BY <2>1, <2>2, FS_Product
<1>3. IsFiniteSet(UNION parts)
  <2>1. \A p \in parts : IsFiniteSet(p)
    BY <1>2
  <2> QED BY <1>1, <2>1, FS_UNION
<1>4. K!Units(S) = UNION parts
  BY DEF K!Units
<1>5. K!Total(S) = Cardinality(K!Units(S))
  BY DEF K!Total, K!Cardinality, Cardinality
<1> QED BY <1>3, <1>4, <1>5, FS_CardinalityType

LEMMA TotalOfNone == K!Total({}) = 0
<1>1. K!Units({}) = {}
  BY DEF K!Units
<1>2. K!Total({}) = Cardinality(K!Units({}))
  BY DEF K!Total, K!Cardinality, Cardinality
<1> QED BY <1>1, <1>2, FS_EmptySet

LEMMA TotalOfOne ==
  ASSUME NEW l, l.amount \in Nat
  PROVE  K!Total({l}) = l.amount
<1>1. K!Units({l}) = {l} \X (1 .. l.amount)
  BY DEF K!Units
<1>2. IsFiniteSet({l}) /\ Cardinality({l}) = 1
  BY FS_Singleton
<1>3. IsFiniteSet(1 .. l.amount) /\ Cardinality(1 .. l.amount) = l.amount
  BY FS_Interval
<1>4. Cardinality({l} \X (1 .. l.amount)) = 1 * l.amount
  <2> DEFINE one == {l}
             units == 1 .. l.amount
  <2> HIDE DEF one, units
  <2>1. IsFiniteSet(one) /\ IsFiniteSet(units) /\ Cardinality(one) = 1 /\ Cardinality(units) = l.amount
    BY <1>2, <1>3 DEF one, units
  <2>2. Cardinality(one \X units) = Cardinality(one) * Cardinality(units)
    BY <2>1, FS_Product
  <2> QED BY <2>1, <2>2 DEF one, units
<1>5. K!Total({l}) = Cardinality(K!Units({l}))
  BY DEF K!Total, K!Cardinality, Cardinality
<1> QED BY <1>1, <1>4, <1>5

LEMMA TotalOfBoth ==
  ASSUME NEW S, NEW R, IsFiniteSet(S), IsFiniteSet(R), S \cap R = {},
         \A l \in S \cup R : l.amount \in Nat
  PROVE  K!Total(S \cup R) = K!Total(S) + K!Total(R)
<1>1. IsFiniteSet(S \cup R)
  BY FS_Union
<1>2. /\ IsFiniteSet(K!Units(S)) /\ K!Total(S) = Cardinality(K!Units(S)) /\ K!Total(S) \in Nat
      /\ IsFiniteSet(K!Units(R)) /\ K!Total(R) = Cardinality(K!Units(R)) /\ K!Total(R) \in Nat
      /\ K!Total(S \cup R) = Cardinality(K!Units(S \cup R))
  BY <1>1, UnitsFinite
<1>3. K!Units(S \cup R) = K!Units(S) \cup K!Units(R)
  BY DEF K!Units
<1>4. K!Units(S) \cap K!Units(R) = {}
  <2>1. \A u \in K!Units(S) : u[1] \in S
    BY DEF K!Units
  <2>2. \A u \in K!Units(R) : u[1] \in R
    BY DEF K!Units
  <2> QED BY <2>1, <2>2
<1>5. Cardinality(K!Units(S) \cup K!Units(R))
        = Cardinality(K!Units(S)) + Cardinality(K!Units(R)) - Cardinality(K!Units(S) \cap K!Units(R))
  BY <1>2, FS_Union
<1>6. Cardinality(K!Units(S) \cap K!Units(R)) = 0
  BY <1>4, FS_EmptySet
<1>7. Cardinality(K!Units(S \cup R)) = Cardinality(K!Units(S)) + Cardinality(K!Units(R)) - 0
  BY <1>3, <1>5, <1>6
<1> QED BY <1>2, <1>7

LEMMA TotalOfPart ==
  ASSUME NEW S, IsFiniteSet(S), \A l \in S : l.amount \in Nat, NEW R \in SUBSET S
  PROVE  IsFiniteSet(R) /\ K!Total(R) \in Nat /\ K!Total(S) \in Nat /\ K!Total(R) <= K!Total(S)
<1>1. IsFiniteSet(R)
  BY FS_Subset
<1>2. K!Units(R) \in SUBSET K!Units(S)
  BY DEF K!Units
<1> QED BY <1>1, <1>2, UnitsFinite, FS_Subset

(* The transfers of the history: finitely many, each of its transaction. *)
LEMMA LegsOfHistory ==
  ASSUME HistoryTypes, HistoryFits
  PROVE  /\ IsFiniteSet(K!AllLegs) /\ Len(chain) \in Nat /\ DOMAIN chain = 1 .. Len(chain)
         /\ \A l \in K!AllLegs : /\ l \in K!Leg /\ l.amount \in Nat \ {0} /\ l.tx \in DOMAIN chain
                                 /\ l \in chain[l.tx].legs
         /\ \A i \in DOMAIN chain : chain[i].legs \subseteq K!AllLegs
         /\ \A i \in DOMAIN chain : \A l \in chain[i].legs : l.tx = i
<1>1. Len(chain) \in Nat /\ DOMAIN chain = 1 .. Len(chain)
  BY DEF HistoryTypes
<1>2. IsFiniteSet(K!AllLegs)
  <2> DEFINE parts == {chain[i].legs : i \in DOMAIN chain}
             f == [i \in DOMAIN chain |-> chain[i].legs]
  <2>1. IsFiniteSet(DOMAIN chain)
    BY <1>1, FS_Interval
  <2>2. f \in Surjection(DOMAIN chain, parts)
    BY DEF Surjection
  <2>3. IsFiniteSet(parts)
    BY <2>1, <2>2, FS_Surjection
  <2>4. \A p \in parts : IsFiniteSet(p)
    BY DEF HistoryFits
  <2> QED BY <2>3, <2>4, FS_UNION DEF K!AllLegs
<1>3. \A i \in DOMAIN chain : \A l \in chain[i].legs : l.tx = i /\ l \in K!Leg
  BY DEF HistoryFits, LegFits
<1>4. ASSUME NEW l \in K!AllLegs
      PROVE  /\ l \in K!Leg /\ l.amount \in Nat \ {0} /\ l.tx \in DOMAIN chain
             /\ l \in chain[l.tx].legs
  <2>1. PICK i \in DOMAIN chain : l \in chain[i].legs
    BY DEF K!AllLegs
  <2>2. l.tx = i /\ l \in K!Leg
    BY <1>3, <2>1
  <2> QED BY <2>1, <2>2 DEF K!Leg
<1>5. \A i \in DOMAIN chain : chain[i].legs \subseteq K!AllLegs
  BY DEF K!AllLegs
<1> QED BY <1>1, <1>2, <1>3, <1>4, <1>5

LEMMA HistoryRecords ==
  ASSUME HistoryTypes
  PROVE  /\ \A i \in DOMAIN chain : /\ chain[i].before \in Nat /\ chain[i].after \in Nat
                                  /\ chain[i].owed \in Nat /\ chain[i].earned \in Nat
         /\ \A i : Held(i) \in Nat /\ Granted(i) \in Nat
<1>1. \A i \in DOMAIN chain :
        chain[i] \in [legs: SUBSET K!Leg, before: Nat, after: Nat, owed: Nat, earned: Nat]
  <2> DEFINE R == [legs: SUBSET K!Leg, before: Nat, after: Nat, owed: Nat, earned: Nat]
  <2>1. chain \in Seq(R)
    BY DEF HistoryTypes
  <2> HIDE DEF R
  <2>2. \A i \in DOMAIN chain : chain[i] \in R
    BY <2>1
  <2> QED BY <2>2 DEF R
<1>2. \A i \in DOMAIN chain : /\ chain[i].before \in Nat /\ chain[i].after \in Nat
                             /\ chain[i].owed \in Nat /\ chain[i].earned \in Nat
  BY <1>1
<1>3. ASSUME NEW i PROVE Held(i) \in Nat /\ Granted(i) \in Nat
  <2>1. CASE i \in DOMAIN chain
    <3>1. chain[i].before \in Nat /\ chain[i].owed \in Nat /\ chain[i].earned \in Nat
      BY <1>2, <2>1
    <3>2. Held(i) = chain[i].before + chain[i].owed /\ Granted(i) = chain[i].earned
      BY <2>1 DEF Held, Granted
    <3> QED BY <3>1, <3>2
  <2>2. CASE i \notin DOMAIN chain
    <3>1. staked \in Nat /\ owed \in Nat /\ earned \in Nat
      BY DEF HistoryTypes
    <3> QED BY <2>2, <3>1 DEF Held, Granted
  <2> QED BY <2>1, <2>2
<1> QED BY <1>2, <1>3

(* The transfers of amounts that may be nothing. *)
LEMMA TotalOfSome ==
  ASSUME NEW l, l.amount \in Nat
  PROVE  LET S == {k \in {l} : k.amount > 0}
         IN IsFiniteSet(S) /\ K!Total(S) = l.amount
<1> DEFINE S == {k \in {l} : k.amount > 0}
<1>1. CASE l.amount > 0
  <2>1. S = {l}
    BY <1>1
  <2> QED BY <2>1, TotalOfOne, FS_Singleton
<1>2. CASE l.amount = 0
  <2>1. S = {}
    BY <1>2
  <2> QED BY <1>2, <2>1, TotalOfNone, FS_EmptySet
<1> QED BY <1>1, <1>2

(* One more transaction leaves the earlier ones, and what was there before it, as they *)
(* are.                                                                      *)
LEMMA AppendsOne ==
  ASSUME HistoryTypes, HistoryFits, NEW t, chain' = Append(chain, t), NEW n, n = Len(chain) + 1,
         t.before = staked, t.owed = owed, t.earned = earned, \A l \in t.legs : l.tx = n
  PROVE  /\ Len(chain') = n /\ DOMAIN chain' = 1 .. n /\ n \in Nat
         /\ \A i \in DOMAIN chain : chain'[i] = chain[i]
         /\ chain'[n] = t
         /\ \A i \in 1 .. n : Held(i)' = Held(i) /\ Granted(i)' = Granted(i)
         /\ Held(n) = staked + owed /\ Granted(n) = earned
         /\ Held(n + 1)' = staked' + owed' /\ Granted(n + 1)' = earned'
         /\ K!AllLegs' = K!AllLegs \cup t.legs
         /\ \A dir : \A i \in 1 .. n : Moved(dir, i)' = Moved(dir, i)
         /\ \A dir : Moved(dir, n + 1)' = Moved(dir, n) \cup {l \in t.legs : l.dir = dir}
         /\ \A l \in K!AllLegs : l.tx < n
<1>1. Len(chain) \in Nat /\ DOMAIN chain = 1 .. Len(chain)
  BY DEF HistoryTypes
<1>2. /\ Len(chain') = n /\ DOMAIN chain' = 1 .. n /\ n \in Nat
      /\ \A i \in DOMAIN chain : chain'[i] = chain[i]
      /\ chain'[n] = t
  BY <1>1 DEF HistoryTypes
<1>3. \A i \in 1 .. n : Held(i)' = Held(i) /\ Granted(i)' = Granted(i)
  <2> SUFFICES ASSUME NEW i \in 1 .. n PROVE Held(i)' = Held(i) /\ Granted(i)' = Granted(i)
    OBVIOUS
  <2>1. CASE i = n
    BY <1>1, <1>2, <2>1 DEF Held, Granted
  <2>2. CASE i # n
    BY <1>1, <1>2, <2>2 DEF Held, Granted
  <2> QED BY <2>1, <2>2
<1>4. Held(n) = staked + owed /\ Granted(n) = earned
  BY <1>1 DEF Held, Granted
<1>5. Held(n + 1)' = staked' + owed' /\ Granted(n + 1)' = earned'
  BY <1>1, <1>2 DEF Held, Granted
<1>6. K!AllLegs' = K!AllLegs \cup t.legs
  <2>1. DOMAIN chain' = DOMAIN chain \cup {n}
    BY <1>1, <1>2
  <2> QED BY <1>2, <2>1 DEF K!AllLegs
<1>7. \A l \in K!AllLegs : l.tx < n /\ l.tx \in Nat
  BY <1>1, LegsOfHistory
<1>8. ASSUME NEW dir, NEW i \in 1 .. n PROVE Moved(dir, i)' = Moved(dir, i)
  BY <1>6, <1>7 DEF Moved
<1>9. ASSUME NEW dir PROVE Moved(dir, n + 1)' = Moved(dir, n) \cup {l \in t.legs : l.dir = dir}
  <2>1. \A l \in K!AllLegs : l.tx < n + 1 /\ l.tx < n
    BY <1>2, <1>7
  <2>2. \A l \in t.legs : l.tx < n + 1
    BY <1>2
  <2> QED BY <1>6, <2>1, <2>2 DEF Moved
<1> QED BY <1>2, <1>3, <1>4, <1>5, <1>6, <1>7, <1>8, <1>9

(* What a transaction does to what is held and granted. *)
Flows(sent, back, reward, after) ==
  /\ owed' \in Nat /\ earned' \in Nat /\ sent + back + reward > 0 /\ contract.pays \in K!Tokens
  /\ after + owed' + back + reward + earned = staked + owed + sent + earned'
  /\ sent > 0 => back = 0 /\ staked < after /\ after + owed' >= staked + owed + sent
  /\ back > 0 => \/ staked - after = back /\ after + owed' >= staked + owed - back
                 \/ staked = after /\ owed = back
  /\ back = 0 => after + owed' >= staked + owed
  /\ earned + reward <= earned'

(* A transaction with the contract is booked by it as it should be. *)
LEMMA TransactionKept ==
  ASSUME HistoryTypes, HistoryFits, Balanced,
         NEW sent \in Nat, NEW back \in Nat, NEW reward \in Nat, NEW after \in Nat,
         K!Transaction(sent, back, reward, after), Flows(sent, back, reward, after)
  PROVE  HistoryTypes' /\ HistoryFits' /\ Balanced'
<1>t. /\ staked \in Nat /\ owed \in Nat /\ earned \in Nat /\ owed' \in Nat /\ earned' \in Nat
      /\ contract.pays \in K!Tokens
  BY DEF Flows, HistoryTypes
<1>a. after + owed' + back + reward + earned = staked + owed + sent + earned'
  BY DEF Flows
<1>b. sent > 0 => back = 0 /\ staked < after /\ after + owed' >= staked + owed + sent
  BY DEF Flows
<1>c. back > 0 => \/ staked - after = back /\ after + owed' >= staked + owed - back
                  \/ staked = after /\ owed = back
  BY DEF Flows
<1>d. earned + reward <= earned' /\ earned <= earned'
  <2>1. earned + reward <= earned'
    BY DEF Flows
  <2> QED BY <1>t, <2>1
<1>e. back = 0 => after + owed' >= staked + owed
  BY DEF Flows
<1>f. after + owed' >= after
  <2>1. \A x, y \in Nat : x + y >= x
    OBVIOUS
  <2> QED BY <1>t, <2>1
<1>2. Len(chain) \in Nat /\ DOMAIN chain = 1 .. Len(chain)
  BY LegsOfHistory
<1>8. PICK n \in Nat : n = Len(chain) + 1
  BY <1>2
<1> DEFINE sl == [tx |-> n, dir |-> "out", token |-> "stake", amount |-> sent, of |-> "sent"]
           bl == [tx |-> n, dir |-> "in", token |-> "stake", amount |-> back, of |-> "back"]
           rl == [tx |-> n, dir |-> "in", token |-> contract.pays, amount |-> reward, of |-> "reward"]
           L == {k \in {sl, bl, rl} : k.amount > 0}
           t == [legs |-> L, before |-> staked, after |-> after, owed |-> owed, earned |-> earned]
<1>1. chain' = Append(chain, t) /\ staked' = after /\ contract' = contract
  BY <1>8 DEF K!Transaction
<1>3. /\ sl.tx = n /\ sl.dir = "out" /\ sl.token = "stake" /\ sl.amount = sent /\ sl.of = "sent"
      /\ bl.tx = n /\ bl.dir = "in" /\ bl.token = "stake" /\ bl.amount = back /\ bl.of = "back"
      /\ rl.tx = n /\ rl.dir = "in" /\ rl.token = contract.pays /\ rl.amount = reward /\ rl.of = "reward"
  OBVIOUS
<1>4. \A l \in L : l \in K!Leg /\ l.tx = n
  <2>1. sent > 0 => sl \in K!Leg
    BY DEF K!Leg, K!Tokens
  <2>2. back > 0 => bl \in K!Leg
    BY DEF K!Leg, K!Tokens
  <2>3. reward > 0 => rl \in K!Leg
    BY <1>t DEF K!Leg
  <2> HIDE DEF sl, bl, rl
  <2> QED BY <1>3, <2>1, <2>2, <2>3
<1> HIDE DEF sl, bl, rl
<1>5. /\ t.legs = L /\ t.before = staked /\ t.after = after /\ t.owed = owed /\ t.earned = earned
      /\ t \in [legs: SUBSET K!Leg, before: Nat, after: Nat, owed: Nat, earned: Nat]
  BY <1>4 DEF HistoryTypes
<1> HIDE DEF t
<1>6. HistoryTypes'
  <2>1. chain' \in Seq([legs: SUBSET K!Leg, before: Nat, after: Nat, owed: Nat, earned: Nat])
    BY <1>1, <1>5 DEF HistoryTypes
  <2> QED BY <1>1, <1>t, <2>1 DEF HistoryTypes, K!Leg, K!Tokens
<1>7. \A l \in t.legs : l.tx = n
  BY <1>4, <1>5
<1>9. /\ Len(chain') = n /\ DOMAIN chain' = 1 .. n /\ n \in Nat
      /\ \A i \in DOMAIN chain : chain'[i] = chain[i]
      /\ chain'[n] = t
      /\ \A i \in 1 .. n : Held(i)' = Held(i) /\ Granted(i)' = Granted(i)
      /\ Held(n) = staked + owed /\ Granted(n) = earned
      /\ Held(n + 1)' = staked' + owed' /\ Granted(n + 1)' = earned'
      /\ K!AllLegs' = K!AllLegs \cup t.legs
      /\ \A dir : \A i \in 1 .. n : Moved(dir, i)' = Moved(dir, i)
      /\ \A dir : Moved(dir, n + 1)' = Moved(dir, n) \cup {l \in t.legs : l.dir = dir}
      /\ \A l \in K!AllLegs : l.tx < n
  <2>1. chain' = Append(chain, t) /\ n = Len(chain) + 1 /\ t.before = staked /\ t.owed = owed /\ t.earned = earned
    BY <1>1, <1>5, <1>8
  <2> QED BY <1>7, <2>1, AppendsOne
<1>10. Len(chain) \in Nat /\ DOMAIN chain = 1 .. Len(chain) /\ n \in Nat /\ n = Len(chain) + 1
  BY <1>2, <1>8
<1>11. HistoryFits'
  <2> SUFFICES ASSUME NEW i \in 1 .. n
               PROVE  LET u == chain'[i] IN
                      /\ u.legs # {} /\ IsFiniteSet(u.legs) /\ \A l \in u.legs : LegFits(i, l)'
                      /\ \A k, l \in u.legs : k.of = l.of => k = l
                      /\ \A k, l \in u.legs : ~(k.of = "sent" /\ l.of = "back")
                      /\ Granted(i)' <= Granted(i + 1)' /\ Granted(i + 1)' <= earned'
                      /\ (\A l \in u.legs : l.of # "back") => Held(i + 1)' >= Held(i)'
    BY <1>9 DEF HistoryFits
  <2>1. CASE i # n
    <3>1. i \in DOMAIN chain /\ i + 1 \in 1 .. n
      BY <1>10, <2>1
    <3>2. /\ chain'[i] = chain[i] /\ Held(i)' = Held(i) /\ Held(i + 1)' = Held(i + 1)
          /\ Granted(i)' = Granted(i) /\ Granted(i + 1)' = Granted(i + 1)
      BY <1>9, <3>1
    <3>3. \A l : LegFits(i, l) => LegFits(i, l)'
      BY <3>2 DEF LegFits
    <3>4. Granted(i + 1) <= earned /\ Granted(i) <= Granted(i + 1)
      BY <3>1 DEF HistoryFits
    <3>5. Granted(i + 1) \in Nat
      BY HistoryRecords
    <3>6. Granted(i + 1) <= earned'
      <4>1. \A g \in Nat : g <= earned => g <= earned'
        BY <1>d, <1>t
      <4> QED BY <3>4, <3>5, <4>1
    <3>7. /\ chain[i].legs # {} /\ IsFiniteSet(chain[i].legs) /\ \A l \in chain[i].legs : LegFits(i, l)
          /\ \A k, l \in chain[i].legs : k.of = l.of => k = l
          /\ \A k, l \in chain[i].legs : ~(k.of = "sent" /\ l.of = "back")
          /\ (\A l \in chain[i].legs : l.of # "back") => Held(i + 1) >= Held(i)
      BY <3>1 DEF HistoryFits
    <3> QED BY <3>2, <3>3, <3>4, <3>6, <3>7
  <2>2. CASE i = n
    <3>1. /\ chain'[i] = t /\ Held(i)' = staked + owed /\ Held(i + 1)' = after + owed'
          /\ Granted(i)' = earned /\ Granted(i + 1)' = earned'
      <4>1. /\ chain'[n] = t /\ Held(n) = staked + owed /\ Granted(n) = earned
            /\ Held(n + 1)' = staked' + owed' /\ Granted(n + 1)' = earned'
        BY <1>9
      <4>2. n \in 1 .. n
        BY <1>10
      <4>3. Held(n)' = Held(n) /\ Granted(n)' = Granted(n)
        BY <1>9, <4>2
      <4> QED BY <1>1, <2>2, <4>1, <4>3
    <3>2. L # {}
      <4>1. sl \in L \/ bl \in L \/ rl \in L
        BY <1>3 DEF Flows
      <4> QED BY <4>1
    <3>3. IsFiniteSet(L)
      <4>1. IsFiniteSet({sl, bl, rl})
        <5>1. IsFiniteSet({sl}) /\ IsFiniteSet({bl}) /\ IsFiniteSet({rl})
          BY FS_Singleton
        <5>2. IsFiniteSet({sl} \cup {bl})
          BY <5>1, FS_Union
        <5>3. IsFiniteSet({sl} \cup {bl} \cup {rl})
          BY <5>1, <5>2, FS_Union
        <5>4. {sl, bl, rl} = {sl} \cup {bl} \cup {rl}
          OBVIOUS
        <5> QED BY <5>3, <5>4
      <4>2. L \in SUBSET {sl, bl, rl}
        OBVIOUS
      <4> QED BY <4>1, <4>2, FS_Subset
    <3>4. ASSUME NEW l \in L PROVE LegFits(i, l)'
      <4>1. CASE l = sl /\ sent > 0
        BY <1>b, <1>3, <1>4, <1>5, <2>2, <3>1, <3>4, <4>1 DEF LegFits
      <4>2. CASE l = bl /\ back > 0
        <5>1. CASE staked - after = back /\ after + owed' >= staked + owed - back
          BY <1>3, <1>4, <1>5, <2>2, <3>1, <3>4, <4>2, <5>1 DEF LegFits
        <5>2. CASE staked = after /\ owed = back
          BY <1>3, <1>4, <1>5, <1>f, <2>2, <3>1, <3>4, <4>2, <5>2 DEF LegFits
        <5> QED BY <1>c, <4>2, <5>1, <5>2
      <4>3. CASE l = rl /\ reward > 0
        BY <1>d, <1>3, <1>4, <1>5, <2>2, <3>1, <3>4, <4>3 DEF LegFits
      <4> QED BY <1>3, <3>4, <4>1, <4>2, <4>3
    <3>5. \A k, l \in L : k.of = l.of => k = l
      BY <1>3
    <3>6. \A k, l \in L : ~(k.of = "sent" /\ l.of = "back")
      BY <1>b, <1>3
    <3>7. (\A l \in L : l.of # "back") => after + owed' >= staked + owed
      BY <1>e, <1>3
    <3>8. Granted(i)' <= Granted(i + 1)' /\ Granted(i + 1)' <= earned'
      BY <1>d, <1>t, <3>1
    <3> QED BY <1>5, <3>1, <3>2, <3>3, <3>4, <3>5, <3>6, <3>7, <3>8
  <2> QED BY <2>1, <2>2
<1>12. Balanced'
  <2> SUFFICES ASSUME NEW i \in 1 .. n + 1
               PROVE  Held(i)' + K!Total(Moved("in", i)') = K!Total(Moved("out", i)') + Granted(i)'
    BY <1>9 DEF Balanced, K!Total, K!Cardinality, K!Units
  <2>1. CASE i # n + 1
    <3>1. i \in 1 .. Len(chain) + 1 /\ i \in 1 .. n
      BY <1>8, <1>9, <2>1
    <3> QED BY <1>9, <3>1 DEF Balanced
  <2>2. CASE i = n + 1
    <3> DEFINE sn == {l \in {sl} : l.amount > 0}
               bn == {l \in {bl} : l.amount > 0}
               rn == {l \in {rl} : l.amount > 0}
               In == Moved("in", n)
               Out == Moved("out", n)
    <3>1. /\ IsFiniteSet(sn) /\ K!Total(sn) = sent /\ IsFiniteSet(bn) /\ K!Total(bn) = back
          /\ IsFiniteSet(rn) /\ K!Total(rn) = reward
      BY <1>3, TotalOfSome
    <3>2. {l \in t.legs : l.dir = "in"} = bn \cup rn /\ {l \in t.legs : l.dir = "out"} = sn
      BY <1>3, <1>5
    <3>3. /\ \A l \in sn \cup bn \cup rn : l.amount \in Nat /\ l.tx = n
          /\ bn \cap rn = {}
      BY <1>3
    <3>4. /\ \A l \in In \cup Out : l.amount \in Nat /\ l.tx < n
          /\ IsFiniteSet(In) /\ IsFiniteSet(Out)
      <4>1. In \in SUBSET K!AllLegs /\ Out \in SUBSET K!AllLegs
        BY DEF Moved
      <4> QED BY <1>9, <4>1, LegsOfHistory, FS_Subset
    <3> HIDE DEF sn, bn, rn, In, Out
    <3>5. K!Total(bn \cup rn) = back + reward /\ IsFiniteSet(bn \cup rn)
      BY <3>1, <3>3, TotalOfBoth, FS_Union
    <3>6. In \cap (bn \cup rn) = {} /\ Out \cap sn = {}
      <4>1. \A l \in In \cup Out : l.tx # n
        BY <1>10, <3>4
      <4> QED BY <3>3, <4>1
    <3>7. K!Total(In \cup (bn \cup rn)) = K!Total(In) + K!Total(bn \cup rn)
      BY <3>3, <3>4, <3>5, <3>6, TotalOfBoth
    <3>8. K!Total(Out \cup sn) = K!Total(Out) + K!Total(sn)
      BY <3>1, <3>3, <3>4, <3>6, TotalOfBoth
    <3>9. K!Total(In) \in Nat /\ K!Total(Out) \in Nat
      BY <3>4, UnitsFinite
    <3>10. Moved("in", n + 1)' = In \cup (bn \cup rn) /\ Moved("out", n + 1)' = Out \cup sn
      BY <1>9, <3>2 DEF In, Out
    <3>11. staked + owed + K!Total(In) = K!Total(Out) + earned
      <4>1. n \in 1 .. Len(chain) + 1
        BY <1>8, <1>9
      <4> QED BY <1>9, <4>1 DEF Balanced, In, Out
    <3>12. Held(n + 1)' = after + owed' /\ Granted(n + 1)' = earned'
      BY <1>1, <1>9
    <3>13. /\ K!Total(Moved("in", n + 1)') = K!Total(In) + back + reward
           /\ K!Total(Moved("out", n + 1)') = K!Total(Out) + sent
      <4>1. K!Total(In \cup (bn \cup rn)) = K!Total(In) + back + reward
        BY <3>5, <3>7, <3>9
      <4>2. K!Total(Out \cup sn) = K!Total(Out) + sent
        BY <3>1, <3>8
      <4> QED BY <3>10, <4>1, <4>2, Zenon
    <3>14. after + owed' + (K!Total(In) + back + reward) = K!Total(Out) + sent + earned'
      <4> DEFINE a == K!Total(In)
                 b == K!Total(Out)
      <4> HIDE DEF a, b
      <4>1. a \in Nat /\ b \in Nat /\ staked + owed + a = b + earned
        BY <3>9, <3>11 DEF a, b
      <4>5. after + owed' + (a + back + reward) = b + sent + earned'
        BY <1>a, <1>t, <4>1
      <4> QED BY <4>5 DEF a, b
    <3> QED BY <2>2, <3>12, <3>13, <3>14
  <2> QED BY <2>1, <2>2
<1> QED BY <1>6, <1>11, <1>12

(* A request moves nothing, and what is added to the stake is granted. *)
LEMMA QuietKept ==
  ASSUME HistoryTypes, HistoryFits, Balanced, chain' = chain, contract' = contract,
         staked' \in Nat, owed' \in Nat, earned' \in Nat, earned <= earned',
         staked' + owed' + earned = staked + owed + earned'
  PROVE  HistoryTypes' /\ HistoryFits' /\ Balanced'
<1>1. staked \in Nat /\ owed \in Nat /\ earned \in Nat
  BY DEF HistoryTypes
<1>2. Len(chain) \in Nat /\ DOMAIN chain = 1 .. Len(chain)
  BY LegsOfHistory
<1>3. staked' + owed' >= staked + owed /\ staked' + owed' \in Nat
  <2>1. \A x, y, z, e, f, g \in Nat :
          e <= f /\ x + y + e = z + g + f => x + y >= z + g /\ x + y \in Nat
    OBVIOUS
  <2> QED BY <1>1, <2>1
<1>a. \A a \in Nat : \A b \in Nat :
        staked + owed + a = b + earned => staked' + owed' + a = b + earned'
  <2>1. \A u, v, e, f, c, d \in Nat : v + e = u + f /\ u + c = d + e => v + c = d + f
    OBVIOUS
  <2>2. staked + owed \in Nat
    BY <1>1
  <2> QED BY <1>1, <1>3, <2>1, <2>2
<1>4. HistoryTypes'
  BY DEF HistoryTypes, K!Leg, K!Tokens
<1>5. \A i : Held(i) \in Nat /\ Granted(i) \in Nat
  BY HistoryRecords
<1>6. \A i \in DOMAIN chain : Held(i)' = Held(i) /\ Granted(i)' = Granted(i)
  BY DEF Held, Granted
<1>7. ASSUME NEW i, i \notin DOMAIN chain
      PROVE  /\ Held(i)' = staked' + owed' /\ Granted(i)' = earned'
             /\ Held(i) = staked + owed /\ Granted(i) = earned
  BY <1>7 DEF Held, Granted
<1>8. ASSUME NEW i
      PROVE  /\ Held(i)' >= Held(i) /\ Granted(i)' >= Granted(i)
             /\ Held(i)' \in Nat /\ Granted(i)' \in Nat
  <2>1. CASE i \in DOMAIN chain
    BY <1>5, <1>6, <2>1
  <2>2. CASE i \notin DOMAIN chain
    <3>1. staked' + owed' \in Nat /\ earned' \in Nat
      BY <1>3
    <3> QED BY <1>1, <1>3, <1>7, <2>2, <3>1
  <2> QED BY <2>1, <2>2
<1>9. K!AllLegs' = K!AllLegs /\ \A dir, i : Moved(dir, i)' = Moved(dir, i)
  BY DEF K!AllLegs, Moved
<1>10. HistoryFits'
  <2> SUFFICES ASSUME NEW i \in DOMAIN chain
               PROVE  LET u == chain[i] IN
                      /\ u.legs # {} /\ IsFiniteSet(u.legs) /\ \A l \in u.legs : LegFits(i, l)'
                      /\ \A k, l \in u.legs : k.of = l.of => k = l
                      /\ \A k, l \in u.legs : ~(k.of = "sent" /\ l.of = "back")
                      /\ Granted(i)' <= Granted(i + 1)' /\ Granted(i + 1)' <= earned'
                      /\ (\A l \in u.legs : l.of # "back") => Held(i + 1)' >= Held(i)'
    BY DEF HistoryFits
  <2>1. /\ chain[i].legs # {} /\ IsFiniteSet(chain[i].legs)
        /\ \A l \in chain[i].legs : LegFits(i, l)
        /\ \A k, l \in chain[i].legs : k.of = l.of => k = l
        /\ \A k, l \in chain[i].legs : ~(k.of = "sent" /\ l.of = "back")
        /\ Granted(i) <= Granted(i + 1) /\ Granted(i + 1) <= earned
        /\ (\A l \in chain[i].legs : l.of # "back") => Held(i + 1) >= Held(i)
    BY DEF HistoryFits
  <2>2. /\ Held(i)' = Held(i) /\ Granted(i)' = Granted(i) /\ Held(i) \in Nat /\ Granted(i) \in Nat
        /\ Held(i + 1) \in Nat /\ Granted(i + 1) \in Nat
    BY <1>5, <1>6
  <2>3. /\ Held(i + 1)' >= Held(i + 1) /\ Granted(i + 1)' >= Granted(i + 1)
        /\ Held(i + 1)' \in Nat /\ Granted(i + 1)' \in Nat
    BY <1>8
  <2>4. ASSUME NEW l \in chain[i].legs PROVE LegFits(i, l)'
    <3>1. LegFits(i, l) /\ l \in K!Leg /\ l.amount \in Nat
      BY <2>1 DEF LegFits, K!Leg
    <3>2. chain[i].before \in Nat /\ chain[i].after \in Nat /\ chain[i].owed \in Nat
      BY HistoryRecords
    <3>3. (l \in K!Leg)' <=> l \in K!Leg
      BY DEF K!Leg, K!Tokens
    <3>4. l.of = "sent" => Held(i + 1)' >= Held(i)' + l.amount
      <4>1. l.of = "sent" => Held(i + 1) >= Held(i) + l.amount
        BY <3>1 DEF LegFits
      <4> QED BY <2>2, <2>3, <3>1, <4>1
    <3>5. Held(i + 1) >= Held(i) - l.amount => Held(i + 1)' >= Held(i)' - l.amount
      BY <2>2, <2>3, <3>1
    <3>6. Held(i + 1) >= chain[i].after => Held(i + 1)' >= chain[i].after
      BY <2>2, <2>3, <3>2
    <3>7. Granted(i) + l.amount <= Granted(i + 1) => Granted(i)' + l.amount <= Granted(i + 1)'
      BY <2>2, <2>3, <3>1
    <3> QED BY <3>1, <3>3, <3>4, <3>5, <3>6, <3>7 DEF LegFits
  <2>5. Granted(i)' <= Granted(i + 1)' /\ (Held(i + 1) >= Held(i) => Held(i + 1)' >= Held(i)')
    BY <2>1, <2>2, <2>3
  <2>6. Granted(i + 1)' <= earned'
    <3>1. CASE i + 1 \in DOMAIN chain
      BY <1>1, <1>6, <2>1, <2>2, <3>1
    <3>2. CASE i + 1 \notin DOMAIN chain
      BY <1>1, <1>7, <3>2
    <3> QED BY <3>1, <3>2
  <2> QED BY <2>1, <2>4, <2>5, <2>6
<1>11. Balanced'
  <2> SUFFICES ASSUME NEW i \in 1 .. Len(chain) + 1
               PROVE  Held(i)' + K!Total(Moved("in", i)) = K!Total(Moved("out", i)) + Granted(i)'
    BY <1>9 DEF Balanced, K!Total, K!Cardinality, K!Units
  <2>1. Held(i) + K!Total(Moved("in", i)) = K!Total(Moved("out", i)) + Granted(i)
    BY DEF Balanced
  <2>2. CASE i \in DOMAIN chain
    BY <1>6, <2>1, <2>2
  <2>3. CASE i \notin DOMAIN chain
    <3> DEFINE a == K!Total(Moved("in", i))
               b == K!Total(Moved("out", i))
    <3>1. a \in Nat /\ b \in Nat
      <4>1. \A dir : Moved(dir, i) \in SUBSET K!AllLegs
        BY DEF Moved
      <4>2. IsFiniteSet(K!AllLegs) /\ \A l \in K!AllLegs : l.amount \in Nat
        BY LegsOfHistory
      <4> QED BY <4>1, <4>2, TotalOfPart
    <3> HIDE DEF a, b
    <3>2. staked + owed + a = b + earned
      BY <1>7, <2>1, <2>3 DEF a, b
    <3>3. staked' + owed' + a = b + earned'
      BY <1>a, <3>1, <3>2
    <3> QED BY <1>7, <2>3, <3>3 DEF a, b
  <2> QED BY <2>2, <2>3
<1> QED BY <1>4, <1>10, <1>11

(* Whatever the wallet and the contract do, the history stays one the contract kept. *)
LEMMA GrowKept ==
  ASSUME HistoryTypes, HistoryFits, Balanced, contract # <<>>, K!Grow
  PROVE  HistoryTypes' /\ HistoryFits' /\ Balanced'
<1>1. staked \in Nat /\ owed \in Nat /\ earned \in Nat /\ contract.pays \in K!Tokens
  BY DEF HistoryTypes
<1>2. /\ \A n \in K!Amounts : n \in Nat /\ n > 0
      /\ \A n \in 1 .. MaxEarned : n \in Nat /\ n > 0
      /\ \A n \in 0 .. MaxEarned : n \in Nat
  BY StakingAssumption DEF K!Amounts
<1>3. ASSUME NEW n \in Nat, n > 0, NEW reward \in Nat, NEW added \in Nat, K!Deposit(n, reward, added)
      PROVE  HistoryTypes' /\ HistoryFits' /\ Balanced'
  <2> DEFINE after == staked + n + added
  <2>1. K!Transaction(n, 0, reward, after) /\ earned' = earned + reward + added /\ owed' = owed
    BY <1>3 DEF K!Deposit
  <2>2. Flows(n, 0, reward, after)
    BY <1>1, <1>3, <2>1 DEF Flows
  <2>3. after \in Nat
    BY <1>1
  <2> HIDE DEF after
  <2> QED BY <2>1, <2>2, <2>3, TransactionKept
<1>4. ASSUME NEW n \in Nat, n > 0, NEW reward \in Nat, K!Withdraw(n, reward)
      PROVE  HistoryTypes' /\ HistoryFits' /\ Balanced'
  <2> DEFINE after == staked - n
  <2>1. /\ K!Transaction(0, n, reward, after) /\ earned' = earned + reward /\ owed' = owed
        /\ n <= staked
    BY <1>4 DEF K!Withdraw
  <2>2. Flows(0, n, reward, after)
    BY <1>1, <1>4, <2>1 DEF Flows
  <2>3. after \in Nat
    BY <1>1, <2>1
  <2> HIDE DEF after
  <2> QED BY <2>1, <2>2, <2>3, TransactionKept
<1>5. ASSUME NEW reward \in Nat, reward > 0, K!Claim(reward)
      PROVE  HistoryTypes' /\ HistoryFits' /\ Balanced'
  <2>1. K!Transaction(0, 0, reward, staked) /\ earned' = earned + reward /\ owed' = owed
    BY <1>5 DEF K!Claim
  <2>2. Flows(0, 0, reward, staked)
    BY <1>1, <1>5, <2>1 DEF Flows
  <2> QED BY <1>1, <2>1, <2>2, TransactionKept
<1>6. ASSUME NEW reward \in Nat, K!Pay(reward)
      PROVE  HistoryTypes' /\ HistoryFits' /\ Balanced'
  <2>1. /\ K!Transaction(0, owed, reward, staked) /\ earned' = earned + reward /\ owed' = 0
        /\ owed > 0
    BY <1>6 DEF K!Pay
  <2>2. Flows(0, owed, reward, staked)
    BY <1>1, <2>1 DEF Flows
  <2> QED BY <1>1, <2>1, <2>2, TransactionKept
<1>7. ASSUME NEW n \in Nat, K!Request(n) PROVE HistoryTypes' /\ HistoryFits' /\ Balanced'
  <2>1. /\ n <= staked /\ staked' = staked - n /\ owed' = owed + n
        /\ chain' = chain /\ earned' = earned /\ contract' = contract
    BY <1>7 DEF K!Request
  <2>2. /\ staked' \in Nat /\ owed' \in Nat /\ earned' \in Nat /\ earned <= earned'
        /\ staked' + owed' + earned = staked + owed + earned'
    BY <1>1, <2>1
  <2> QED BY <2>1, <2>2, QuietKept
<1>8. ASSUME NEW n \in Nat, K!Compound(n) PROVE HistoryTypes' /\ HistoryFits' /\ Balanced'
  <2>1. /\ staked' = staked + n /\ earned' = earned + n
        /\ chain' = chain /\ owed' = owed /\ contract' = contract
    BY <1>8 DEF K!Compound
  <2>2. /\ staked' \in Nat /\ owed' \in Nat /\ earned' \in Nat /\ earned <= earned'
        /\ staked' + owed' + earned = staked + owed + earned'
    BY <1>1, <2>1
  <2> QED BY <2>1, <2>2, QuietKept
<1>9. CASE \E n \in K!Amounts : K!Deposit(n, 0, 0) \/ K!Request(n)
  BY <1>2, <1>3, <1>7, <1>9
<1>10. CASE \E n \in K!Amounts, reward \in 1 .. MaxEarned :
              K!Deposit(n, reward, 0) \/ K!Deposit(n, 0, reward)
  BY <1>2, <1>3, <1>10
<1>11. CASE \E n \in K!Amounts, reward \in 0 .. MaxEarned : K!Withdraw(n, reward)
  BY <1>2, <1>4, <1>11
<1>12. CASE \E reward \in 0 .. MaxEarned : K!Pay(reward)
  BY <1>2, <1>6, <1>12
<1>13. CASE \E reward \in 1 .. MaxEarned : K!Claim(reward) \/ K!Compound(reward)
  BY <1>2, <1>5, <1>8, <1>13
<1> QED BY <1>9, <1>10, <1>11, <1>12, <1>13 DEF K!Grow

(* What Luca takes to be in the contract is a number, of transfers it has checked. *)
Given(verdict, i) == {l \in DOMAIN stakeChecks : stakeChecks[l] = verdict /\ l.tx < i}

LEMMA PrincipalIsInt ==
  ASSUME HistoryTypes, HistoryFits, VerdictsFit, NEW i
  PROVE  /\ \A v : Given(v, i) \subseteq K!AllLegs /\ IsFiniteSet(Given(v, i))
                   /\ \A l \in Given(v, i) : l.amount \in Nat
         /\ Principal(i) = K!Total(Given("staked", i)) - K!Total(Given("unstaked", i))
         /\ \A v : K!Total(Given(v, i)) \in Nat
         /\ Principal(i) \in Int
<1>1. IsFiniteSet(K!AllLegs) /\ \A l \in K!AllLegs : l.amount \in Nat
  BY LegsOfHistory
<1>2. \A v : Given(v, i) \in SUBSET K!AllLegs
  BY DEF Given, VerdictsFit
<1>3. ASSUME NEW v PROVE IsFiniteSet(Given(v, i)) /\ K!Total(Given(v, i)) \in Nat
  <2> DEFINE G == Given(v, i)
  <2>1. G \in SUBSET K!AllLegs
    BY <1>2
  <2> HIDE DEF G
  <2>2. IsFiniteSet(G) /\ K!Total(G) \in Nat
    BY <1>1, <2>1, TotalOfPart
  <2> QED BY <2>2 DEF G
<1>4. Principal(i) = K!Total(Given("staked", i)) - K!Total(Given("unstaked", i))
  BY DEF Principal, K!PrincipalSeen, K!Kept, Given
<1>5. Principal(i) \in Int
  BY <1>3, <1>4
<1> QED BY <1>1, <1>2, <1>3, <1>4, <1>5

(* The transfers of one transaction. *)
LEMMA LegsOfOne ==
  ASSUME HistoryTypes, HistoryFits, NEW u \in DOMAIN chain, NEW l \in chain[u].legs
  PROVE  /\ l \in K!AllLegs /\ l.tx = u /\ l.amount \in Nat /\ l.amount > 0
         /\ l.dir \in {"in", "out"} /\ l.token \in {"stake", "reward"}
         /\ l.of \in {"sent", "back", "reward"}
         /\ l.of = "sent" <=> l.dir = "out"
         /\ l.of # "reward" => K!Capital(l)
<1>1. LegFits(u, l)
  BY DEF HistoryFits
<1>2. l \in K!Leg /\ l \in K!AllLegs
  BY <1>1 DEF LegFits, K!AllLegs
<1> QED BY <1>1, <1>2 DEF LegFits, K!Leg, K!Tokens, K!Capital

(* What is due of the capital is not more than what comes back. *)
LEMMA DueFits ==
  ASSUME HistoryTypes, HistoryFits, NEW u \in DOMAIN chain, NEW p \in Int, p <= Held(u)
  PROVE  /\ K!Returning(chain[u], p) \in Nat
         /\ \A b \in chain[u].legs : b.of = "back" => K!Returning(chain[u], p) <= b.amount
<1>1. /\ chain[u].before \in Nat /\ chain[u].after \in Nat /\ chain[u].owed \in Nat
      /\ Held(u) = chain[u].before + chain[u].owed
  BY HistoryRecords DEF Held
<1>2. K!Returning(chain[u], p) \in Nat
  BY <1>1 DEF K!Returning
<1>3. ASSUME NEW b \in chain[u].legs, b.of = "back"
      PROVE  K!Returning(chain[u], p) <= b.amount
  <2>1. LegFits(u, b) /\ b.amount \in Nat /\ b.amount > 0
    BY LegsOfOne DEF HistoryFits
  <2>2. CASE chain[u].before - chain[u].after = b.amount
    BY <1>1, <2>1, <2>2 DEF K!Returning
  <2>3. CASE chain[u].before = chain[u].after /\ chain[u].owed = b.amount
    BY <1>1, <2>1, <2>3 DEF K!Returning
  <2> QED BY <1>3, <2>1, <2>2, <2>3 DEF LegFits
<1> QED BY <1>2, <1>3

(* Transfers that all go one way. *)
LEMMA OneWay ==
  ASSUME NEW S, NEW l \in S, l.dir = "in", ~(Cardinality({k.dir : k \in S}) > 1),
         \A k \in S : k.dir \in {"in", "out"}
  PROVE  \A k \in S : k.dir = "in"
<1> SUFFICES ASSUME NEW k \in S, k.dir = "out" PROVE FALSE
  OBVIOUS
<1>1. {x.dir : x \in S} = {"in"} \cup {"out"}
  OBVIOUS
<1>2. /\ IsFiniteSet({"in"}) /\ Cardinality({"in"}) = 1
      /\ IsFiniteSet({"out"}) /\ Cardinality({"out"}) = 1
  BY FS_Singleton
<1>3. Cardinality({"in"} \cup {"out"}) = Cardinality({"in"}) + Cardinality({"out"}) - Cardinality({"in"} \cap {"out"})
  BY <1>2, FS_Union
<1>4. {"in"} \cap {"out"} = {} /\ Cardinality({}) = 0
  BY FS_EmptySet
<1>5. Cardinality({"in"} \cup {"out"}) = 2
  BY <1>2, <1>3, <1>4
<1> QED BY <1>1, <1>5

(* decideStakes, with no more capital seen than there is. *)
LEMMA RightDecision ==
  ASSUME HistoryTypes, HistoryFits, VerdictsFit, NEW u \in DOMAIN chain,
         Principal(u) <= Held(u), NEW legs \in SUBSET chain[u].legs, NEW l \in legs
  PROVE  /\ K!Verdict(chain[u], legs, Principal(u), l) \in K!Verdicts
         /\ LegRight(l, K!Verdict(chain[u], legs, Principal(u), l))
<1> DEFINE t == chain[u]
           p == Principal(u)
           due == K!Returning(t, p)
           mine == K!Mine(legs)
           back == K!Returned(mine, due)
           v == K!Verdict(t, legs, p, l)
<1>1. /\ \A k \in legs : /\ k \in t.legs /\ k.tx = u /\ k.amount \in Nat /\ k.amount > 0
                         /\ k.dir \in {"in", "out"} /\ k.of \in {"sent", "back", "reward"}
                         /\ k.of = "sent" <=> k.dir = "out"
                         /\ k.of # "reward" => K!Capital(k)
  BY LegsOfOne
<1>2. mine \subseteq legs /\ \A k \in legs : K!Capital(k) => k \in mine
  BY DEF K!Mine, K!Capital
<1>3. \A k \in t.legs : \A m \in t.legs : k.of = m.of => k = m
  BY DEF HistoryFits
<1>4. p \in Int /\ t.before \in Nat /\ t.after \in Nat
  BY PrincipalIsInt, HistoryRecords
<1>5. due \in Nat /\ \A b \in t.legs : b.of = "back" => due <= b.amount
  BY <1>4, DueFits
<1>6. l.tx = u /\ Due(u) = due
  BY <1>1 DEF Due
<1> HIDE DEF mine, due, p, t
<1>7. v = CASE l \notin mine -> "unrelated"
       [] l \in mine /\ K!Cardinality({k.dir : k \in mine}) > 1 -> "unclear"
       [] l \in mine /\ {k.dir : k \in mine} = {"out"} ->
            IF (\A k \in mine : K!Capital(k)) /\ t.after - t.before = K!Total(mine) THEN "staked" ELSE "unclear"
       [] OTHER ->
            IF t.before < t.after THEN "unclear"
            ELSE IF due = 0
              THEN IF t.after = p /\ t.after > 0 /\ \A k \in mine : K!Reward(k) THEN "staking_reward" ELSE "unclear"
            ELSE IF K!Total(mine) = due /\ \A k \in mine : K!Capital(k) THEN "unstaked"
            ELSE IF K!Cardinality(back) = 1 /\ \A k \in mine \ back : K!Reward(k)
                 THEN IF l \in back THEN "unstaked" ELSE "staking_reward"
                 ELSE "unclear"
  BY DEF K!Verdict, mine, due
<1> HIDE DEF v, back
<1>8. v \in K!Verdicts
  BY <1>7 DEF K!Verdicts
<1>9. v = "unrelated" => l \notin mine
  BY <1>7
<1>10. v = "staked" => l \in mine /\ {k.dir : k \in mine} = {"out"}
  BY <1>7
<1>11. v \in {"unstaked", "staking_reward"} =>
         /\ l \in mine /\ ~(K!Cardinality({k.dir : k \in mine}) > 1) /\ {k.dir : k \in mine} # {"out"}
         /\ ~(t.before < t.after)
         /\ \/ v = "staking_reward" /\ due = 0 /\ t.after = p
            \/ v = "unstaked" /\ due # 0 /\ K!Total(mine) = due
            \/ /\ due # 0 /\ K!Cardinality(back) = 1
               /\ v = "unstaked" <=> l \in back
  BY <1>7
<1>16. ASSUME v = "unstaked", l.dir = "in", t.after <= t.before, due > 0, l.amount = due
       PROVE  LegRight(l, v)
  BY <1>6, <1>16 DEF LegRight, p, t
<1>17. ASSUME v = "staking_reward", l.dir = "in", t.after <= t.before, due = 0, p = t.after
       PROVE  LegRight(l, v)
  BY <1>6, <1>17 DEF LegRight, p, t
<1>18. ASSUME v = "staking_reward", l.dir = "in", t.after <= t.before, due > 0,
              ~(K!Capital(l) /\ l.amount = due),
              NEW k \in t.legs, k # l, k.dir = "in", K!Capital(k), k.amount = due
       PROVE  LegRight(l, v)
  BY <1>6, <1>18 DEF LegRight, p, t
<1>12. v = "unrelated" => l.of = "reward" /\ ~K!Capital(l)
  BY <1>1, <1>2, <1>9
<1>13. v = "staked" => l.dir = "out"
  BY <1>10
<1>14. ASSUME v \in {"unstaked", "staking_reward"} PROVE LegRight(l, v)
  <2>1. l \in mine /\ t.after <= t.before
    BY <1>4, <1>11, <1>14
  <2>2. \A k \in mine : k.dir = "in"
    <3>1. l.dir = "in"
      <4> SUFFICES ASSUME l.dir # "in" PROVE FALSE
        OBVIOUS
      <4>1. l.dir = "out" /\ ~(\A k \in mine : k.dir = "out")
        BY <1>1, <1>11, <1>14, <2>1
      <4>2. PICK k \in mine : k.dir # "out"
        BY <4>1
      <4>3. k.dir = "in"
        BY <1>1, <1>2, <4>2
      <4>4. ~(Cardinality({x.dir : x \in mine}) > 1)
        BY <1>11, <1>14 DEF K!Cardinality, Cardinality
      <4>5. \A x \in mine : x.dir = "in"
        BY <1>1, <1>2, <4>3, <4>4, OneWay
      <4> QED BY <2>1, <4>1, <4>5
    <3>2. ~(Cardinality({x.dir : x \in mine}) > 1)
      BY <1>11, <1>14 DEF K!Cardinality, Cardinality
    <3> QED BY <1>1, <1>2, <2>1, <3>1, <3>2, OneWay
  <2>3. CASE v = "staking_reward" /\ due = 0 /\ t.after = p
    BY <1>17, <2>1, <2>2, <2>3
  <2>4. CASE v = "unstaked" /\ due # 0 /\ K!Total(mine) = due
    <3>1. ASSUME NEW k \in mine, k # l PROVE FALSE
      <4>1. k \in t.legs /\ l \in t.legs /\ k.of # l.of /\ k.of \in {"back", "reward"} /\ l.of \in {"back", "reward"}
        BY <1>1, <1>2, <1>3, <2>1, <2>2, <3>1
      <4>2. k.amount \in Nat /\ k.amount > 0 /\ l.amount \in Nat /\ l.amount > 0
        BY <1>1, <1>2, <2>1
      <4>3. due <= k.amount \/ due <= l.amount
        BY <1>5, <4>1
      <4>4. K!Total({k} \cup {l}) = k.amount + l.amount
        <5>1. IsFiniteSet({k}) /\ IsFiniteSet({l}) /\ {k} \cap {l} = {}
          BY <3>1, FS_Singleton
        <5>2. K!Total({k}) = k.amount /\ K!Total({l}) = l.amount
          BY <4>2, TotalOfOne
        <5> QED BY <4>2, <5>1, <5>2, TotalOfBoth
      <4>5. K!Total({k} \cup {l}) <= K!Total(mine)
        <5>1. IsFiniteSet(mine)
          <6>1. mine \in SUBSET t.legs /\ IsFiniteSet(t.legs)
            BY <1>1, <1>2 DEF HistoryFits, t
          <6> QED BY <6>1, FS_Subset
        <5>2. \A x \in mine : x.amount \in Nat
          BY <1>1, <1>2
        <5>3. {k} \cup {l} \in SUBSET mine
          BY <2>1
        <5> QED BY <5>1, <5>2, <5>3, TotalOfPart
      <4>6. k.amount + l.amount <= due
        BY <2>4, <4>4, <4>5, Zenon
      <4> QED BY <1>5, <4>2, <4>3, <4>6
    <3>2. mine = {l}
      BY <2>1, <3>1
    <3>3. l.amount = due
      BY <1>1, <2>4, <3>2, TotalOfOne
    <3>4. due > 0
      BY <1>5, <2>4
    <3> QED BY <1>16, <2>1, <2>2, <2>4, <3>3, <3>4
  <2>5. CASE due # 0 /\ K!Cardinality(back) = 1 /\ v = "unstaked" /\ l \in back
    <3>1. l.amount = due
      BY <2>5 DEF back, K!Returned
    <3>2. due > 0
      BY <1>5, <2>5
    <3> QED BY <1>16, <2>1, <2>2, <2>5, <3>1, <3>2
  <2>6. CASE due # 0 /\ K!Cardinality(back) = 1 /\ v = "staking_reward" /\ l \notin back
    <3>1. \E k : k \in back
      <4>1. Cardinality(back) = 1
        BY <2>6 DEF K!Cardinality, Cardinality
      <4>2. back # {}
        BY <4>1, FS_EmptySet
      <4> QED BY <4>2
    <3>2. PICK k : k \in back
      BY <3>1
    <3>3. k \in mine /\ K!Capital(k) /\ k.amount = due /\ k # l
      BY <2>6, <3>2 DEF back, K!Returned
    <3>4. ~(K!Capital(l) /\ l.amount = due)
      BY <2>1, <2>6 DEF back, K!Returned
    <3>5. k \in t.legs /\ k.dir = "in"
      BY <1>1, <1>2, <2>2, <3>3
    <3>6. due > 0
      BY <1>5, <2>6
    <3> QED BY <1>18, <2>1, <2>2, <2>6, <3>3, <3>4, <3>5, <3>6
  <2> QED BY <1>11, <1>14, <2>3, <2>4, <2>5, <2>6
<1>15. ASSUME v \notin {"unstaked", "staking_reward"} PROVE LegRight(l, v)
  BY <1>12, <1>13, <1>15 DEF LegRight
<1> QED BY <1>8, <1>14, <1>15 DEF v, p, t

(* Once a transaction is explained, the capital taken to be there is still there. *)
StepHeld ==
  ~gap => \A u \in DOMAIN chain :
            u + 1 \in DOMAIN chain /\ ExplainedBefore(u + 1) /\ Principal(u) <= Held(u)
              => Principal(u + 1) <= Held(u + 1)

LEMMA PrincipalFollows ==
  HistoryTypes /\ HistoryFits /\ VerdictsFit /\ DecidedRight => StepHeld
<1> SUFFICES ASSUME HistoryTypes, HistoryFits, VerdictsFit, DecidedRight, ~gap,
                    NEW u \in DOMAIN chain, u + 1 \in DOMAIN chain, ExplainedBefore(u + 1),
                    Principal(u) <= Held(u)
             PROVE  Principal(u + 1) <= Held(u + 1)
  BY DEF StepHeld
<1> DEFINE t == chain[u]
           p == Principal(u)
           h == Held(u)
           g == Held(u + 1)
           due == Due(u)
           At(v) == {l \in DOMAIN stakeChecks : stakeChecks[l] = v /\ l.tx = u}
           S == K!Total(At("staked"))
           U == K!Total(At("unstaked"))
<1>1. Len(chain) \in Nat /\ DOMAIN chain = 1 .. Len(chain) /\ u \in Nat
  BY LegsOfHistory
<1>2. \A l \in K!AllLegs : l.tx \in Nat /\ l \in chain[l.tx].legs /\ l.amount \in Nat
  BY <1>1, LegsOfHistory
<1>3. \A l \in t.legs : /\ l \in K!AllLegs /\ l.tx = u /\ l.amount \in Nat /\ l.amount > 0
                        /\ l.dir \in {"in", "out"} /\ l.of \in {"sent", "back", "reward"}
                        /\ l.of = "sent" <=> l.dir = "out"
                        /\ l.of # "reward" => K!Capital(l)
  BY LegsOfOne
<1>4. /\ \A k \in t.legs : \A l \in t.legs : k.of = l.of => k = l
      /\ \A k \in t.legs : \A l \in t.legs : ~(k.of = "sent" /\ l.of = "back")
      /\ (\A l \in t.legs : l.of # "back") => g >= h
      /\ \A l \in t.legs : LegFits(u, l)
      /\ IsFiniteSet(t.legs)
  BY DEF HistoryFits
<1>5. h \in Nat /\ g \in Nat /\ p \in Int /\ p <= h /\ t.before \in Nat /\ t.after \in Nat /\ t.owed \in Nat
  BY PrincipalIsInt, HistoryRecords
<1>6. due \in Nat /\ due = K!Returning(t, p)
  BY <1>5, DueFits DEF Due
<1>7. ASSUME NEW l \in t.legs
      PROVE  l \in DOMAIN stakeChecks /\ stakeChecks[l] \in K!Verdicts \ {"unclear"} /\ LegRight(l, stakeChecks[l])
  <2>1. l \in K!AllLegs /\ l.tx < u + 1
    BY <1>1, <1>3
  <2>2. l \in DOMAIN stakeChecks /\ stakeChecks[l] # "unclear"
    BY <2>1 DEF ExplainedBefore, K!Explained
  <2>3. stakeChecks[l] \in K!Verdicts /\ Says(l, stakeChecks[l])
    BY <2>2 DEF VerdictsFit, Says
  <2> QED BY <2>1, <2>2, <2>3 DEF DecidedRight
<1>8. ASSUME NEW v
      PROVE  /\ At(v) \subseteq t.legs /\ IsFiniteSet(At(v)) /\ K!Total(At(v)) \in Nat
             /\ K!Total(Given(v, u + 1)) = K!Total(Given(v, u)) + K!Total(At(v))
             /\ K!Total(Given(v, u)) \in Nat
  <2>1. At(v) \in SUBSET t.legs
    BY <1>2 DEF VerdictsFit
  <2> DEFINE now == At(v)
             past == Given(v, u)
  <2>2. Given(v, u + 1) = past \cup now /\ past \cap now = {}
    <3>1. \A l \in DOMAIN stakeChecks : l.tx \in Nat
      BY <1>2 DEF VerdictsFit
    <3>2. \A l \in DOMAIN stakeChecks : l.tx < u + 1 <=> l.tx < u \/ l.tx = u
      BY <1>1, <3>1
    <3>3. \A l \in DOMAIN stakeChecks : ~(l.tx < u /\ l.tx = u)
      BY <1>1, <3>1
    <3> QED BY <3>2, <3>3 DEF Given
  <2>3. /\ IsFiniteSet(past) /\ K!Total(past) \in Nat
        /\ \A l \in past : l.amount \in Nat
    BY PrincipalIsInt
  <2> HIDE DEF now, past
  <2>4. IsFiniteSet(now) /\ K!Total(now) \in Nat /\ \A l \in now : l.amount \in Nat
    <3>1. now \in SUBSET t.legs /\ \A l \in t.legs : l.amount \in Nat
      BY <1>3, <2>1 DEF now
    <3> HIDE DEF t
    <3> QED BY <1>4, <3>1, TotalOfPart
  <2>5. K!Total(past \cup now) = K!Total(past) + K!Total(now)
    BY <2>2, <2>3, <2>4, TotalOfBoth
  <2> QED BY <2>1, <2>2, <2>3, <2>4, <2>5 DEF now, past
<1>9. Principal(u + 1) = p + S - U /\ S \in Nat /\ U \in Nat
  <2>1. /\ p = K!Total(Given("staked", u)) - K!Total(Given("unstaked", u))
        /\ Principal(u + 1) = K!Total(Given("staked", u + 1)) - K!Total(Given("unstaked", u + 1))
    BY PrincipalIsInt
  <2> DEFINE a == K!Total(Given("staked", u))
             b == K!Total(Given("unstaked", u))
  <2>2. /\ a \in Nat /\ b \in Nat /\ S \in Nat /\ U \in Nat /\ p = a - b
        /\ Principal(u + 1) = (a + S) - (b + U)
    BY <1>8, <2>1
  <2> HIDE DEF a, b, S, U
  <2> QED BY <2>2
<1>10. ASSUME NEW l \in t.legs
       PROVE  LET c == stakeChecks[l] IN
              /\ c \in {"staked", "unstaked", "staking_reward", "unrelated"}
              /\ c = "staked" => l.dir = "out"
              /\ c = "unstaked" => l.amount = due
              /\ c = "staking_reward" =>
                   \/ due = 0
                   \/ /\ ~(K!Capital(l) /\ l.amount = due)
                      /\ \E k \in t.legs : k.dir = "in" /\ K!Capital(k) /\ k.amount = due
              /\ c = "unrelated" => ~K!Capital(l)
  <2> DEFINE c == stakeChecks[l]
  <2>1. LegRight(l, c) /\ c \in K!Verdicts \ {"unclear"}
    BY <1>7
  <2>2. l.tx = u
    BY <1>3
  <2> HIDE DEF c, due
  <2>3. /\ c = "staked" => l.dir = "out"
        /\ c = "unstaked" => l.amount = due
        /\ c = "staking_reward" =>
             \/ due = 0
             \/ /\ ~(K!Capital(l) /\ l.amount = due)
                /\ \E k \in t.legs : k.dir = "in" /\ K!Capital(k) /\ k.amount = due
        /\ c = "unrelated" => ~K!Capital(l)
    BY <2>1, <2>2 DEF LegRight, due
  <2> QED BY <2>1, <2>3 DEF K!Verdicts, c
<1> HIDE DEF p, h, g, due
<1>11. ASSUME NEW k \in t.legs, k.dir = "in", K!Capital(k), k.amount = due, due > 0 PROVE U >= due
  <2>1. stakeChecks[k] = "unstaked"
    BY <1>6, <1>10, <1>11
  <2>2. k \in At("unstaked")
    BY <1>3, <1>7, <2>1
  <2> DEFINE now == At("unstaked")
  <2>3. IsFiniteSet(now) /\ \A l \in now : l.amount \in Nat
    BY <1>3, <1>8
  <2>4. {k} \in SUBSET now
    BY <2>2
  <2>5. K!Total({k}) = due
    BY <1>3, <1>11, TotalOfOne
  <2> HIDE DEF now
  <2>6. K!Total({k}) <= K!Total(now) /\ K!Total({k}) \in Nat /\ K!Total(now) \in Nat
    BY <2>3, <2>4, TotalOfPart
  <2> QED BY <2>5, <2>6 DEF now
<1>12. ASSUME NEW b \in t.legs, b.of = "back", due > 0 PROVE U >= due
  <2>1. b.dir = "in" /\ K!Capital(b)
    BY <1>3, <1>12
  <2>2. CASE stakeChecks[b] = "unstaked"
    BY <1>10, <1>11, <1>12, <2>1, <2>2
  <2>3. CASE stakeChecks[b] = "staking_reward"
    <3>1. due # 0
      BY <1>6, <1>12
    <3>2. PICK k \in t.legs : k.dir = "in" /\ K!Capital(k) /\ k.amount = due
      BY <1>10, <2>3, <3>1
    <3> QED BY <1>11, <1>12, <3>2
  <2> QED BY <1>10, <2>1, <2>2, <2>3
<1>13. ASSUME \A l \in t.legs : l.of # "sent" PROVE S = 0
  <2>1. \A l \in t.legs : stakeChecks[l] # "staked"
    BY <1>3, <1>10, <1>13
  <2>2. At("staked") = {}
    BY <1>8, <2>1
  <2> QED BY <2>2, TotalOfNone
<1>14. CASE \E s \in t.legs : s.of = "sent"
  <2>1. PICK s \in t.legs : s.of = "sent"
    BY <1>14
  <2>2. g >= h + s.amount
    BY <1>4, <2>1 DEF LegFits, g, h
  <2>3. S <= s.amount
    <3> DEFINE now == At("staked")
    <3>1. now \in SUBSET {s}
      BY <1>3, <1>4, <1>8, <1>10, <2>1, ZenonT(30)
    <3> HIDE DEF now
    <3>2. IsFiniteSet({s}) /\ \A l \in {s} : l.amount \in Nat
      BY <1>3, FS_Singleton
    <3>3. K!Total(now) <= K!Total({s})
      BY <3>1, <3>2, TotalOfPart
    <3>4. K!Total({s}) = s.amount
      BY <1>3, TotalOfOne
    <3> QED BY <3>3, <3>4 DEF now
  <2> HIDE DEF S, U
  <2>4. s.amount \in Nat
    BY <1>3
  <2>5. p + S - U <= g
    BY <1>5, <1>9, <2>2, <2>3, <2>4
  <2> QED BY <1>9, <2>5 DEF g
<1>15. CASE \E b \in t.legs : b.of = "back"
  <2>1. PICK b \in t.legs : b.of = "back"
    BY <1>15
  <2>2. S = 0 /\ b.amount \in Nat /\ b.amount > 0
    BY <1>3, <1>4, <1>13, <2>1
  <2>3. due > 0 => U >= due
    BY <1>12, <2>1
  <2> HIDE DEF S, U
  <2>4. CASE t.before - t.after = b.amount /\ g >= h - b.amount
    <3>1. due = b.amount
      BY <1>5, <1>6, <2>2, <2>4 DEF K!Returning
    <3>2. p + S - U <= g
      BY <1>5, <1>9, <2>2, <2>3, <2>4, <3>1
    <3> QED BY <1>9, <3>2 DEF g
  <2>5. CASE t.before = t.after /\ g >= t.after
    <3>1. due = IF p > t.after THEN p - t.after ELSE 0
      BY <1>5, <1>6, <2>5 DEF K!Returning
    <3>2. p + S - U <= g
      BY <1>5, <1>9, <2>2, <2>3, <2>5, <3>1
    <3> QED BY <1>9, <3>2 DEF g
  <2>6. LegFits(u, b)
    BY <1>4, <2>1
  <2> QED BY <2>1, <2>4, <2>5, <2>6 DEF LegFits, g, h
<1>16. CASE \A l \in t.legs : l.of # "sent" /\ l.of # "back"
  <2>1. S = 0 /\ g >= h
    BY <1>4, <1>13, <1>16 DEF g, h
  <2> HIDE DEF S, U
  <2>2. p + S - U <= g
    BY <1>5, <1>9, <2>1
  <2> QED BY <1>9, <2>2 DEF g
<1> QED BY <1>14, <1>15, <1>16

(* What is read of the chain stays the same once Luca looks at it. *)
LEMMA SameTruth ==
  ASSUME HistoryTypes, HistoryFits, Balanced, UNCHANGED K!truth
  PROVE  /\ HistoryTypes' /\ HistoryFits' /\ Balanced'
         /\ chain' = chain /\ K!AllLegs' = K!AllLegs
         /\ \A i : Held(i)' = Held(i)
<1>1. /\ chain' = chain /\ staked' = staked /\ owed' = owed /\ earned' = earned
      /\ contract' = contract
  BY DEF K!truth
<1>2. /\ staked' \in Nat /\ owed' \in Nat /\ earned' \in Nat /\ earned <= earned'
      /\ staked' + owed' + earned = staked + owed + earned'
  BY <1>1 DEF HistoryTypes
<1>3. HistoryTypes' /\ HistoryFits' /\ Balanced'
  BY <1>1, <1>2, QuietKept
<1>4. K!AllLegs' = K!AllLegs /\ \A i : Held(i)' = Held(i)
  BY <1>1 DEF K!AllLegs, Held
<1> QED BY <1>1, <1>3, <1>4

(* Nor do the verdicts that are kept, or still to be kept. *)
LEMMA SameChecks ==
  ASSUME IncomeInv, UNCHANGED K!truth, stakeChecks' = stakeChecks
  PROVE  /\ \A i : Principal(i)' = Principal(i) /\ ExplainedBefore(i)' = ExplainedBefore(i)
         /\ \A l, v : LegRight(l, v)' = LegRight(l, v)
<1>1. chain' = chain /\ K!AllLegs' = K!AllLegs
  BY SameTruth DEF IncomeInv
<1>2. \A i : Principal(i)' = Principal(i)
  BY DEF Principal, K!PrincipalSeen, K!Kept, K!Total, K!Units, K!Cardinality
<1>3. \A i : ExplainedBefore(i)' = ExplainedBefore(i)
  BY <1>1 DEF ExplainedBefore, K!Explained
<1>4. \A i : Due(i)' = Due(i)
  BY <1>1, <1>2 DEF Due, K!Returning
<1>5. ASSUME NEW l, NEW v PROVE LegRight(l, v)' = LegRight(l, v)
  <2>1. /\ chain'[l.tx] = chain[l.tx] /\ Principal(l.tx)' = Principal(l.tx)
        /\ Due(l.tx)' = Due(l.tx)
    BY <1>1, <1>2, <1>4
  <2>2. \A k : K!Capital(k)' = K!Capital(k)
    BY DEF K!Capital
  <2> QED BY <2>1, <2>2 DEF LegRight
<1> QED BY <1>2, <1>3, <1>5

LEMMA VerdictsStand ==
  ASSUME IncomeInv, UNCHANGED K!truth, stakeChecks' = stakeChecks, gap' = gap,
         writing' \subseteq writing
  PROVE  DecidedRight' /\ PrincipalHeld'
<1>1. /\ chain' = chain /\ K!AllLegs' = K!AllLegs
      /\ \A i : Held(i)' = Held(i)
  BY SameTruth DEF IncomeInv
<1>2. /\ \A i : Principal(i)' = Principal(i) /\ ExplainedBefore(i)' = ExplainedBefore(i)
      /\ \A l, v : LegRight(l, v)' = LegRight(l, v)
  BY SameChecks
<1>3. \A l, v : Says(l, v)' => Says(l, v)
  BY DEF Says
<1>4. DecidedRight'
  BY <1>1, <1>2, <1>3 DEF IncomeInv, DecidedRight, K!Verdicts
<1>5. PrincipalHeld'
  BY <1>1, <1>2 DEF IncomeInv, PrincipalHeld
<1> QED BY <1>4, <1>5

(* A verdict is kept before anything later is looked at. *)
LEMMA KeepKept ==
  ASSUME IncomeInv, NEW w \in writing, K!Keep(w)
  PROVE  VerdictsFit' /\ DecidedRight' /\ PrincipalHeld'
<1> DEFINE m == w[1]
           x == w[2]
           u == w[1].tx
<1>1. /\ UNCHANGED K!truth /\ gap' = gap /\ booked' = booked /\ synced' = synced
      /\ work' = work /\ writing' = writing \ {w} /\ stakeRelabel' = {m} /\ stakeLabel' = stakeLabel
      /\ stakeChecks' = [l \in DOMAIN stakeChecks \cup {m} |-> IF l = m THEN x ELSE stakeChecks[l]]
  BY DEF K!Keep
<1>2. HistoryTypes /\ HistoryFits /\ Balanced /\ VerdictsFit /\ DecidedRight /\ PrincipalHeld
  BY DEF IncomeInv
<1>3. /\ HistoryTypes' /\ HistoryFits' /\ chain' = chain /\ K!AllLegs' = K!AllLegs
      /\ \A i : Held(i)' = Held(i)
  BY <1>1, <1>2, SameTruth
<1>4. w = <<m, x>> /\ m \in booked /\ m \notin DOMAIN stakeChecks /\ x \in K!Verdicts /\ m \in K!AllLegs
  BY <1>2 DEF VerdictsFit
<1>5. \A y \in writing : y = <<y[1], y[2]>> /\ (y[1] = m => y = w)
  BY <1>2 DEF VerdictsFit
<1> HIDE DEF m, x
<1>6. /\ DOMAIN stakeChecks' = DOMAIN stakeChecks \cup {m} /\ stakeChecks'[m] = x
      /\ \A l \in DOMAIN stakeChecks : stakeChecks'[l] = stakeChecks[l]
  BY <1>1, <1>4
<1>7. VerdictsFit'
  <2>1. DOMAIN stakeChecks' \subseteq booked /\ \A l \in DOMAIN stakeChecks' : stakeChecks'[l] \in K!Verdicts
    BY <1>2, <1>4, <1>6 DEF VerdictsFit
  <2>2. writing' \subseteq (booked \ DOMAIN stakeChecks') \X K!Verdicts
    <3> SUFFICES ASSUME NEW y \in writing, y # w
                 PROVE  y \in (booked \ DOMAIN stakeChecks') \X K!Verdicts
      BY <1>1
    <3>1. y \in (booked \ DOMAIN stakeChecks) \X K!Verdicts
      BY <1>2 DEF VerdictsFit
    <3>2. y[1] # m
      BY <1>5
    <3> QED BY <1>6, <3>1, <3>2
  <2>3. \A l \in DOMAIN stakeLabel :
          stakeLabel[l] = "staking_reward" => l \in DOMAIN stakeChecks' /\ stakeChecks'[l] = "staking_reward"
    BY <1>2, <1>6 DEF VerdictsFit
  <2>4. /\ booked \subseteq K!AllLegs /\ work \subseteq DOMAIN chain /\ (~synced => booked = {} /\ work = {})
        /\ \A y, z \in writing : y[1] = z[1] => y = z
    BY <1>2 DEF VerdictsFit
  <2>5. stakeRelabel' \subseteq DOMAIN stakeChecks'
    BY <1>1, <1>6
  <2> QED BY <1>1, <1>3, <2>1, <2>2, <2>3, <2>4, <2>5 DEF VerdictsFit, K!Verdicts
<1> SUFFICES ASSUME ~gap PROVE DecidedRight' /\ PrincipalHeld'
  BY <1>1, <1>7 DEF DecidedRight, PrincipalHeld
<1>8. \A l, v : Says(l, v)' <=> Says(l, v)
  <2> SUFFICES ASSUME NEW l, NEW v PROVE Says(l, v)' <=> Says(l, v)
    OBVIOUS
  <2>1. <<l, v>> = w <=> l = m /\ v = x
    BY <1>4
  <2>2. <<l, v>> \in writing => l \notin DOMAIN stakeChecks
    BY <1>2 DEF VerdictsFit
  <2>3. <<l, v>> \in writing' <=> <<l, v>> \in writing /\ <<l, v>> # w
    BY <1>1
  <2>4. (l \in DOMAIN stakeChecks' /\ stakeChecks'[l] = v)
          <=> (l \in DOMAIN stakeChecks /\ stakeChecks[l] = v) \/ <<l, v>> = w
    BY <1>4, <1>6, <2>1
  <2> QED BY <2>3, <2>4 DEF Says
<1>9. Len(chain) \in Nat /\ DOMAIN chain = 1 .. Len(chain) /\ \A l \in K!AllLegs : l.tx \in DOMAIN chain /\ l.tx \in Nat
  BY <1>2, LegsOfHistory
<1>10. u \in DOMAIN chain /\ u \in Nat /\ m.tx = u
  BY <1>4, <1>9 DEF m
<1> HIDE DEF u
<1>11. ASSUME NEW l \in K!AllLegs, NEW v \in K!Verdicts, Says(l, v) PROVE l.tx <= u
  <2> SUFFICES ASSUME u < l.tx PROVE FALSE
    BY <1>9, <1>10
  <2>1. ExplainedBefore(l.tx)
    BY <1>2, <1>11 DEF DecidedRight
  <2> QED BY <1>4, <1>10, <2>1 DEF ExplainedBefore, K!Explained
<1>12. ASSUME NEW i \in Nat, i <= u PROVE Principal(i)' = Principal(i)
  <2>1. ASSUME NEW v PROVE Given(v, i)' = Given(v, i)
    <3>1. ~(m.tx < i)
      BY <1>10, <1>12
    <3> QED BY <1>6, <3>1 DEF Given
  <2>2. \A v : K!Kept(v, i)' = K!Total(Given(v, i)') /\ K!Kept(v, i) = K!Total(Given(v, i))
    BY DEF K!Kept, Given, K!Total, K!Units, K!Cardinality
  <2> QED BY <2>1, <2>2 DEF Principal, K!PrincipalSeen
<1>13. \A i : ExplainedBefore(i) => ExplainedBefore(i)'
  BY <1>3, <1>6 DEF ExplainedBefore, K!Explained
<1>14. ASSUME NEW l, NEW v, l.tx \in Nat, l.tx <= u, LegRight(l, v) PROVE LegRight(l, v)'
  <2>1. Principal(l.tx)' = Principal(l.tx)
    BY <1>12, <1>14
  <2>2. Due(l.tx)' = Due(l.tx)
    BY <1>3, <2>1 DEF Due, K!Returning
  <2> QED BY <1>3, <1>14, <2>1, <2>2, Zenon DEF LegRight, K!Capital
<1>15. DecidedRight'
  <2> SUFFICES ASSUME NEW l \in K!AllLegs, NEW v \in K!Verdicts, Says(l, v)
               PROVE  ExplainedBefore(l.tx)' /\ LegRight(l, v)'
    BY <1>3, <1>8 DEF DecidedRight, K!Verdicts
  <2>1. ExplainedBefore(l.tx) /\ LegRight(l, v)
    BY <1>2 DEF DecidedRight
  <2>2. l.tx <= u /\ l.tx \in Nat
    BY <1>9, <1>11
  <2> QED BY <1>13, <1>14, <2>1, <2>2
<1>16. StepHeld'
  <2>1. (HistoryTypes /\ HistoryFits /\ VerdictsFit /\ DecidedRight => StepHeld)'
    BY PrincipalFollows, PTL
  <2> QED BY <1>3, <1>7, <1>15, <2>1
<1>17. PrincipalHeld'
  <2> SUFFICES ASSUME NEW i \in DOMAIN chain, ExplainedBefore(i)' PROVE Principal(i)' <= Held(i)'
    BY <1>3 DEF PrincipalHeld
  <2>1. i \in Nat
    BY <1>9
  <2>2. ASSUME NEW j \in DOMAIN chain, j <= u, ExplainedBefore(j)' PROVE Principal(j)' <= Held(j)'
    <3>1. ExplainedBefore(j)
      <4> SUFFICES ASSUME NEW l \in K!AllLegs, l.tx < j PROVE K!Explained(l)
        BY DEF ExplainedBefore
      <4>1. K!Explained(l)'
        BY <1>3, <2>2 DEF ExplainedBefore
      <4>2. l # m
        BY <1>9, <1>10, <2>2
      <4> QED BY <1>6, <4>1, <4>2 DEF K!Explained
    <3>2. Principal(j)' = Principal(j)
      BY <1>9, <1>12, <2>2
    <3> QED BY <1>2, <1>3, <3>1, <3>2 DEF PrincipalHeld
  <2>3. CASE i <= u
    BY <2>2, <2>3
  <2>4. CASE i > u + 1
    <3>1. u + 1 \in DOMAIN chain
      BY <1>9, <1>10, <2>4
    <3>2. PICK l \in chain[u + 1].legs : TRUE
      BY <1>2, <3>1 DEF HistoryFits
    <3>3. l \in K!AllLegs /\ l.tx = u + 1
      BY <1>2, <3>1, <3>2, LegsOfOne
    <3>4. K!Explained(l)' /\ l # m
      BY <1>3, <1>10, <2>1, <2>4, <3>3 DEF ExplainedBefore
    <3>5. l \in DOMAIN stakeChecks
      BY <1>6, <3>4 DEF K!Explained
    <3>6. stakeChecks[l] \in K!Verdicts /\ Says(l, stakeChecks[l])
      BY <1>2, <3>5 DEF VerdictsFit, Says
    <3>7. l.tx <= u
      BY <1>11, <3>3, <3>6
    <3> QED BY <1>10, <3>3, <3>7
  <2>5. CASE i = u + 1
    <3>1. ExplainedBefore(u)'
      <4>1. \A l \in K!AllLegs : l.tx < u => l.tx < u + 1
        BY <1>9, <1>10
      <4> QED BY <1>3, <2>5, <4>1 DEF ExplainedBefore
    <3>2. Principal(u)' <= Held(u)'
      BY <1>10, <2>2, <3>1
    <3>3. Principal(u + 1)' <= Held(u + 1)'
      BY <1>1, <1>3, <1>10, <1>16, <2>5, <3>2 DEF StepHeld
    <3> QED BY <2>5, <3>3
  <2> QED BY <1>10, <2>1, <2>3, <2>4, <2>5
<1> QED BY <1>15, <1>17

LEMMA HeldIsNat == HistoryTypes => \A j : Held(j) \in Nat
  BY HistoryRecords

LEMMA GrowIncome ==
  ASSUME IncomeInv, contract # <<>>, K!Grow
  PROVE  IncomeInv'
<1>1. HistoryTypes' /\ HistoryFits' /\ Balanced'
  BY GrowKept DEF IncomeInv
<1>2. /\ ~synced /\ synced' = synced /\ booked' = booked /\ stakeChecks' = stakeChecks
      /\ stakeLabel' = stakeLabel /\ work' = work /\ writing' = writing
      /\ stakeRelabel' = stakeRelabel /\ gap' = gap
  BY DEF K!Grow, K!cycle
<1>3. /\ booked = {} /\ work = {} /\ DOMAIN stakeChecks = {} /\ writing = {} /\ stakeRelabel = {}
      /\ \A l \in DOMAIN stakeLabel :
           stakeLabel[l] = "staking_reward" => l \in DOMAIN stakeChecks /\ stakeChecks[l] = "staking_reward"
  BY <1>2 DEF IncomeInv, VerdictsFit
<1>4. VerdictsFit'
  BY <1>2, <1>3 DEF VerdictsFit
<1>5. DecidedRight'
  BY <1>2, <1>3 DEF DecidedRight, Says
<1>6. ASSUME NEW i PROVE Principal(i)' <= Held(i)'
  <2>1. Held(i)' \in Nat
    <3>1. (HistoryTypes => \A j : Held(j) \in Nat)'
      BY HeldIsNat, PTL
    <3> QED BY <1>1, <3>1
  <2>2. K!Kept("staked", i)' = K!Total({}) /\ K!Kept("unstaked", i)' = K!Total({})
    BY <1>2, <1>3 DEF K!Kept, K!Total, K!Units, K!Cardinality
  <2>3. Principal(i)' = 0
    BY <2>2, TotalOfNone DEF Principal, K!PrincipalSeen
  <2> QED BY <2>1, <2>3
<1>7. PrincipalHeld'
  BY <1>6 DEF PrincipalHeld
<1> QED BY <1>1, <1>4, <1>5, <1>7 DEF IncomeInv

(* A transaction is decided with what was kept of the earlier ones. *)
LEMMA DecideIncome ==
  ASSUME IncomeInv, K!Decide
  PROVE  IncomeInv'
<1> DEFINE u == K!Now
           legs == {l \in K!Unchecked : l.tx = u}
<1>1. /\ UNCHANGED K!truth /\ stakeChecks' = stakeChecks /\ booked' = booked /\ synced' = synced
      /\ stakeLabel' = stakeLabel /\ stakeRelabel' = stakeRelabel /\ work' = work \ {u}
      /\ work # {} /\ writing = {}
      /\ writing' = {<<l, K!Verdict(chain[u], legs, Principal(u), l)>> : l \in legs}
      /\ gap' = (gap \/ \E l \in K!AllLegs : l.tx < u /\ ~K!Explained(l))
  BY DEF K!Decide, K!AtGroup, Principal
<1>2. HistoryTypes /\ HistoryFits /\ Balanced /\ VerdictsFit /\ DecidedRight /\ PrincipalHeld
  BY DEF IncomeInv
<1>3. /\ HistoryTypes' /\ HistoryFits' /\ Balanced' /\ chain' = chain /\ K!AllLegs' = K!AllLegs
      /\ \A i : Held(i)' = Held(i)
  BY <1>1, <1>2, SameTruth
<1>4. /\ Len(chain) \in Nat /\ DOMAIN chain = 1 .. Len(chain)
      /\ \A l \in K!AllLegs : l.tx \in DOMAIN chain /\ l \in chain[l.tx].legs
  BY <1>2, LegsOfHistory
<1>5. u \in work /\ u \in DOMAIN chain
  <2>1. work \in SUBSET Nat /\ work \subseteq DOMAIN chain
    BY <1>2, <1>4 DEF VerdictsFit
  <2>2. \E n \in work : \A y \in work : n <= y
    BY <1>1, <2>1, FirstOf
  <2>3. K!Now \in work
    BY <2>2 DEF K!Now, K!Min
  <2> QED BY <2>1, <2>3
<1> HIDE DEF u
<1>6. legs \in SUBSET chain[u].legs /\ legs \subseteq booked \ DOMAIN stakeChecks
  BY <1>2, <1>4 DEF VerdictsFit, K!Unchecked
<1> HIDE DEF legs
<1>7. ASSUME gap' = FALSE, NEW l \in legs
      PROVE  LET v == K!Verdict(chain[u], legs, Principal(u), l)
             IN v \in K!Verdicts /\ LegRight(l, v) /\ l.tx = u /\ ExplainedBefore(u)
  <2>1. ExplainedBefore(u) /\ ~gap
    BY <1>1, <1>7 DEF ExplainedBefore
  <2>2. Principal(u) <= Held(u)
    BY <1>2, <1>5, <2>1 DEF PrincipalHeld
  <2>3. l.tx = u
    BY <1>2, <1>5, <1>6, LegsOfOne
  <2> QED BY <1>2, <1>5, <1>6, <2>1, <2>2, <2>3, RightDecision
<1>8. \A l \in legs : K!Verdict(chain[u], legs, Principal(u), l) \in K!Verdicts
  BY DEF K!Verdict, K!Verdicts
<1>9. VerdictsFit'
  <2>1. writing' \subseteq (booked \ DOMAIN stakeChecks) \X K!Verdicts
    BY <1>1, <1>6, <1>8
  <2>2. \A w \in writing' : \A y \in writing' : w[1] = y[1] => w = y
    BY <1>1
  <2> QED BY <1>1, <1>2, <1>3, <2>1, <2>2 DEF VerdictsFit, K!Verdicts
<1>10. /\ \A i : ExplainedBefore(i)' = ExplainedBefore(i) /\ Principal(i)' = Principal(i)
       /\ \A l, v : LegRight(l, v)' = LegRight(l, v)
  BY <1>1, SameChecks
<1>11. DecidedRight'
  <2> SUFFICES ASSUME ~gap', NEW l \in K!AllLegs, NEW v \in K!Verdicts, Says(l, v)'
               PROVE  ExplainedBefore(l.tx) /\ LegRight(l, v)
    BY <1>3, <1>10 DEF DecidedRight, K!Verdicts
  <2>1. CASE l \in DOMAIN stakeChecks /\ stakeChecks[l] = v
    <3>1. Says(l, v) /\ ~gap
      BY <1>1, <2>1 DEF Says
    <3> QED BY <1>2, <3>1 DEF DecidedRight
  <2>2. CASE <<l, v>> \in writing'
    <3>1. l \in legs /\ v = K!Verdict(chain[u], legs, Principal(u), l)
      BY <1>1, <2>2
    <3>2. gap' = FALSE
      BY <1>1
    <3> QED BY <1>7, <3>1, <3>2
  <2> QED BY <1>1, <2>1, <2>2 DEF Says
<1>12. PrincipalHeld'
  <2>1. ~gap' => ~gap
    BY <1>1
  <2> QED BY <1>2, <1>3, <1>10, <2>1 DEF PrincipalHeld
<1> QED BY <1>3, <1>9, <1>11, <1>12 DEF IncomeInv

(* Everything else Luca does leaves the verdicts as they are. *)
LEMMA QuietIncome ==
  ASSUME IncomeInv, UNCHANGED K!truth, stakeChecks' = stakeChecks, gap' = gap,
         writing' \subseteq writing, VerdictsFit'
  PROVE  IncomeInv'
<1>1. HistoryTypes' /\ HistoryFits' /\ Balanced'
  BY SameTruth DEF IncomeInv
<1>2. DecidedRight' /\ PrincipalHeld'
  BY VerdictsStand
<1> QED BY <1>1, <1>2 DEF IncomeInv

LEMMA OtherIncome ==
  ASSUME IncomeInv,
         \/ \E missed \in SUBSET K!AllLegs : K!Sync(missed)
         \/ K!Begin \/ K!PassOver \/ K!Classify \/ K!Restart
         \/ \E answer \in {"staking", "not"} : K!Probe(answer)
         \/ \E l \in K!AllLegs : K!BookLate(l) \/ K!Relabel(l) \/ K!Correct(l)
         \/ UNCHANGED staking
  PROVE  IncomeInv'
<1>1. /\ HistoryTypes /\ HistoryFits /\ Balanced /\ VerdictsFit
      /\ \A l \in K!AllLegs : l.tx \in DOMAIN chain
  BY LegsOfHistory DEF IncomeInv
<1>2. ASSUME UNCHANGED K!truth PROVE chain' = chain /\ K!AllLegs' = K!AllLegs
  BY <1>1, <1>2, SameTruth
<1>3. ASSUME UNCHANGED K!truth, stakeChecks' = stakeChecks, gap' = gap, writing' \subseteq writing,
             VerdictsFit'
      PROVE  IncomeInv'
  BY <1>3, QuietIncome
<1>4. ASSUME NEW missed \in SUBSET K!AllLegs, K!Sync(missed) PROVE IncomeInv'
  <2>1. /\ UNCHANGED K!truth /\ stakeChecks' = stakeChecks /\ gap' = gap /\ writing' = writing
        /\ work' = work /\ stakeRelabel' = stakeRelabel /\ stakeLabel' = stakeLabel
        /\ ~synced /\ synced' = TRUE /\ booked' = K!AllLegs \ missed
    BY <1>4 DEF K!Sync, K!cycle
  <2>2. /\ booked = {} /\ DOMAIN stakeChecks = {} /\ writing = {} /\ work = {} /\ stakeRelabel = {}
    BY <1>1, <2>1 DEF VerdictsFit
  <2>3. VerdictsFit'
    BY <1>1, <1>2, <2>1, <2>2 DEF VerdictsFit, K!Verdicts
  <2> QED BY <1>3, <2>1, <2>3
<1>5. ASSUME NEW l \in K!AllLegs, K!BookLate(l) PROVE IncomeInv'
  <2>1. /\ UNCHANGED K!truth /\ stakeChecks' = stakeChecks /\ gap' = gap /\ writing' = writing
        /\ work' = work /\ stakeRelabel' = stakeRelabel /\ stakeLabel' = stakeLabel
        /\ synced /\ synced' = synced /\ booked' = booked \cup {l}
    BY <1>5 DEF K!BookLate, K!cycle
  <2>2. VerdictsFit'
    BY <1>1, <1>2, <2>1 DEF VerdictsFit, K!Verdicts
  <2> QED BY <1>3, <2>1, <2>2
<1>6. ASSUME K!Begin PROVE IncomeInv'
  <2>1. /\ UNCHANGED K!truth /\ stakeChecks' = stakeChecks /\ gap' = gap /\ writing' = writing
        /\ stakeRelabel' = stakeRelabel /\ stakeLabel' = stakeLabel
        /\ synced' = synced /\ booked' = booked /\ K!Candidates # {}
        /\ work' = {l.tx : l \in K!Candidates}
    BY <1>6 DEF K!Begin
  <2>2. K!Candidates \subseteq booked
    BY DEF K!Candidates, K!Unchecked
  <2>3. work' \subseteq DOMAIN chain /\ synced
    BY <1>1, <2>1, <2>2 DEF VerdictsFit
  <2>4. VerdictsFit'
    BY <1>1, <1>2, <2>1, <2>3 DEF VerdictsFit, K!Verdicts
  <2> QED BY <1>3, <2>1, <2>4
<1>7. ASSUME K!PassOver \/ K!Restart \/ \E answer \in {"staking", "not"} : K!Probe(answer)
      PROVE  IncomeInv'
  <2>1. /\ UNCHANGED K!truth /\ stakeChecks' = stakeChecks /\ gap' = gap /\ writing' \subseteq writing
        /\ stakeRelabel' \subseteq stakeRelabel /\ stakeLabel' = stakeLabel
        /\ synced' = synced /\ booked' = booked /\ work' \subseteq work
    BY <1>7 DEF K!PassOver, K!Restart, K!Probe
  <2>2. VerdictsFit'
    BY <1>1, <1>2, <2>1 DEF VerdictsFit, K!Verdicts
  <2> QED BY <1>3, <2>1, <2>2
<1>8. ASSUME K!Classify \/ \E l \in K!AllLegs : K!Relabel(l) \/ K!Correct(l) PROVE IncomeInv'
  <2>1. /\ UNCHANGED K!truth /\ stakeChecks' = stakeChecks /\ gap' = gap /\ writing' = writing
        /\ stakeRelabel' \subseteq stakeRelabel
        /\ synced' = synced /\ booked' = booked /\ work' = work
    BY <1>8 DEF K!Classify, K!Relabel, K!Correct, K!cycle
  <2>2. \A v : K!StakeLabel(v) = "staking_reward" => v = "staking_reward"
    BY DEF K!StakeLabel
  <2>3. ASSUME NEW l \in DOMAIN stakeLabel', stakeLabel'[l] = "staking_reward"
        PROVE  l \in DOMAIN stakeChecks /\ stakeChecks[l] = "staking_reward"
    <3>1. l \in DOMAIN stakeLabel /\ stakeLabel[l] = "staking_reward" => l \in DOMAIN stakeChecks /\ stakeChecks[l] = "staking_reward"
      BY <1>1 DEF VerdictsFit
    <3>2. CASE K!Classify
      <4>1. l \notin DOMAIN stakeLabel =>
              /\ known = "staking" /\ l \in DOMAIN stakeChecks
              /\ stakeLabel'[l] = K!StakeLabel(stakeChecks[l])
        BY <2>3, <3>2 DEF K!Classify
      <4>2. l \in DOMAIN stakeLabel => stakeLabel'[l] = stakeLabel[l]
        BY <2>3, <3>2 DEF K!Classify
      <4> QED BY <2>2, <2>3, <3>1, <4>1, <4>2
    <3>3. ASSUME NEW k \in K!AllLegs, K!Relabel(k)
          PROVE  l \in DOMAIN stakeChecks /\ stakeChecks[l] = "staking_reward"
      <4>1. DOMAIN stakeLabel' = DOMAIN stakeLabel /\ k \in stakeRelabel
        BY <3>3 DEF K!Relabel
      <4>2. l # k => stakeLabel'[l] = stakeLabel[l]
        BY <2>3, <3>3 DEF K!Relabel
      <4>3. l = k => stakeLabel'[l] = stakeLabel[l] \/ stakeLabel'[l] = K!StakeLabel(stakeChecks[l])
        BY <2>3, <3>3 DEF K!Relabel
      <4>4. k \in DOMAIN stakeChecks
        BY <1>1, <4>1 DEF VerdictsFit
      <4> QED BY <2>2, <2>3, <3>1, <4>1, <4>2, <4>3, <4>4
    <3>4. ASSUME NEW k \in K!AllLegs, K!Correct(k)
          PROVE  l \in DOMAIN stakeLabel /\ stakeLabel[l] = "staking_reward"
      BY <2>3, <3>4 DEF K!Correct
    <3> QED BY <1>8, <3>1, <3>2, <3>3, <3>4
  <2>4. VerdictsFit'
    BY <1>1, <1>2, <2>1, <2>3 DEF VerdictsFit, K!Verdicts
  <2> QED BY <1>3, <2>1, <2>4
<1>9. ASSUME UNCHANGED staking PROVE IncomeInv'
  <2>1. /\ UNCHANGED K!truth /\ stakeChecks' = stakeChecks /\ gap' = gap /\ writing' = writing
        /\ stakeRelabel' = stakeRelabel /\ stakeLabel' = stakeLabel
        /\ synced' = synced /\ booked' = booked /\ work' = work
    BY <1>9 DEF staking, K!truth
  <2>2. VerdictsFit'
    BY <1>1, <1>2, <2>1 DEF VerdictsFit, K!Verdicts
  <2> QED BY <1>3, <2>1, <2>2
<1> QED BY <1>4, <1>5, <1>6, <1>7, <1>8, <1>9

(* A set of positions of a finite history has a last one. *)
LEMMA LastOf ==
  ASSUME NEW n \in Nat, NEW S \in SUBSET (1 .. n), S # {}
  PROVE  \E u \in S : \A m \in S : m <= u
<1> DEFINE R == {n - m : m \in S}
<1>1. R \in SUBSET Nat /\ R # {}
  <2>1. \A m \in S : m \in 1 .. n
    OBVIOUS
  <2>2. \A m \in 1 .. n : n - m \in Nat
    OBVIOUS
  <2> QED BY <2>1, <2>2
<1>2. PICK r \in R : \A x \in R : r <= x
  <2> HIDE DEF R
  <2> QED BY <1>1, FirstOf
<1>3. PICK u \in S : r = n - u
  BY <1>2
<1>4. ASSUME NEW m \in S PROVE m <= u
  <2>1. n - m \in R /\ m \in 1 .. n /\ u \in 1 .. n
    OBVIOUS
  <2>2. n - u <= n - m
    BY <1>2, <1>3, <2>1
  <2> QED BY <2>1, <2>2
<1> QED BY <1>4

(* Before a transaction whose earlier ones are explained: what was called income is    *)
(* within what was granted, with room for the capital Luca does not know to be there.  *)
LEMMA IncomeBefore ==
  ASSUME IncomeInv, ~gap, NEW u \in DOMAIN chain, ExplainedBefore(u)
  PROVE  K!Total(Given("staking_reward", u)) + Held(u) <= Granted(u) + Principal(u)
<1> DEFINE income == Given("staking_reward", u)
           paid == Given("unstaked", u)
           put == Given("staked", u)
           in == Moved("in", u)
           out == Moved("out", u)
<1>1. HistoryTypes /\ HistoryFits /\ Balanced /\ VerdictsFit /\ DecidedRight
  BY DEF IncomeInv
<1>2. /\ IsFiniteSet(K!AllLegs) /\ Len(chain) \in Nat /\ DOMAIN chain = 1 .. Len(chain)
      /\ \A l \in K!AllLegs : l.amount \in Nat /\ l.tx \in DOMAIN chain /\ l \in chain[l.tx].legs
  BY <1>1, LegsOfHistory
<1>3. \A l \in K!AllLegs : /\ l.dir \in {"in", "out"} /\ (l.of = "sent" <=> l.dir = "out")
  BY <1>1, <1>2, LegsOfOne
<1>4. ASSUME NEW l \in DOMAIN stakeChecks
      PROVE  l \in K!AllLegs /\ stakeChecks[l] \in K!Verdicts /\ LegRight(l, stakeChecks[l])
  <2>1. l \in K!AllLegs /\ stakeChecks[l] \in K!Verdicts
    BY <1>1 DEF VerdictsFit
  <2>2. Says(l, stakeChecks[l])
    BY DEF Says
  <2> QED BY <1>1, <2>1, <2>2 DEF DecidedRight
<1>5. income \cup paid \in SUBSET in
  <2> SUFFICES ASSUME NEW l \in income \cup paid PROVE l \in in
    OBVIOUS
  <2>1. l \in DOMAIN stakeChecks /\ stakeChecks[l] \in {"unstaked", "staking_reward"} /\ l.tx < u
    BY DEF Given
  <2>2. l \in K!AllLegs /\ l.dir = "in"
    BY <1>4, <2>1 DEF LegRight
  <2> QED BY <2>1, <2>2 DEF Moved
<1>6. income \cap paid = {}
  BY DEF Given
<1>7. out \in SUBSET put
  <2> SUFFICES ASSUME NEW l \in out PROVE l \in put
    OBVIOUS
  <2>1. l \in K!AllLegs /\ l.dir = "out" /\ l.tx < u
    BY DEF Moved
  <2>2. l \in DOMAIN stakeChecks /\ stakeChecks[l] # "unclear"
    BY <2>1 DEF ExplainedBefore, K!Explained
  <2>3. l.of = "sent"
    BY <1>3, <2>1
  <2>4. stakeChecks[l] = "staked"
    <3>1. LegRight(l, stakeChecks[l]) /\ stakeChecks[l] \in K!Verdicts
      BY <1>4, <2>2
    <3>2. stakeChecks[l] \notin {"unstaked", "staking_reward"}
      BY <2>1, <3>1 DEF LegRight
    <3>3. stakeChecks[l] # "unrelated"
      BY <2>3, <3>1 DEF LegRight
    <3> QED BY <2>2, <3>1, <3>2, <3>3 DEF K!Verdicts
  <2> QED BY <2>1, <2>2, <2>4 DEF Given
<1>8. /\ \A v : IsFiniteSet(Given(v, u)) /\ K!Total(Given(v, u)) \in Nat /\ \A l \in Given(v, u) : l.amount \in Nat
      /\ Principal(u) = K!Total(put) - K!Total(paid)
  BY <1>1, PrincipalIsInt
<1>9. /\ IsFiniteSet(in) /\ K!Total(in) \in Nat /\ \A l \in in : l.amount \in Nat
      /\ IsFiniteSet(out) /\ K!Total(out) \in Nat
  <2>1. in \in SUBSET K!AllLegs /\ out \in SUBSET K!AllLegs
    BY DEF Moved
  <2> HIDE DEF in, out
  <2> QED BY <1>2, <2>1, TotalOfPart
<1>10. Held(u) + K!Total(in) = K!Total(out) + Granted(u)
  <2>1. u \in 1 .. Len(chain) + 1
    BY <1>2
  <2> QED BY <1>1, <2>1 DEF Balanced
<1>11. /\ IsFiniteSet(income) /\ IsFiniteSet(paid) /\ IsFiniteSet(put)
       /\ K!Total(income) \in Nat /\ K!Total(paid) \in Nat /\ K!Total(put) \in Nat
       /\ \A l \in income \cup paid : l.amount \in Nat
       /\ \A l \in put : l.amount \in Nat
  BY <1>8
<1> HIDE DEF income, paid, put, in, out
<1>12. K!Total(income \cup paid) = K!Total(income) + K!Total(paid)
  BY <1>6, <1>11, TotalOfBoth
<1>13. K!Total(income \cup paid) <= K!Total(in)
  BY <1>5, <1>9, TotalOfPart
<1>14. K!Total(out) <= K!Total(put)
  BY <1>7, <1>11, TotalOfPart
<1>15. Held(u) \in Nat /\ Granted(u) \in Nat
  BY <1>1, HistoryRecords
<1> DEFINE a == K!Total(income)
           b == K!Total(paid)
           c == K!Total(put)
           d == K!Total(in)
           e == K!Total(out)
           h == Held(u)
           g == Granted(u)
<1>16. /\ a \in Nat /\ b \in Nat /\ c \in Nat /\ d \in Nat /\ e \in Nat /\ h \in Nat /\ g \in Nat
       /\ a + b <= d /\ e <= c /\ h + d = e + g /\ Principal(u) = c - b
  BY <1>8, <1>9, <1>10, <1>11, <1>12, <1>13, <1>14, <1>15
<1> HIDE DEF a, b, c, d, e, h, g
<1>17. a + h <= g + (c - b)
  BY <1>16
<1> QED BY <1>16, <1>17 DEF a, h, g, income

(* What is booked as staking income is no more than the contract granted. *)
LEMMA EarnedIsEnough == IncomeInv => IncomeIsEarned
<1> SUFFICES ASSUME IncomeInv, ~gap
             PROVE  K!Total({l \in DOMAIN stakeLabel : stakeLabel[l] = "staking_reward"}) <= earned
  BY DEF IncomeIsEarned, K!IncomeIsEarned
<1> DEFINE labeled == {l \in DOMAIN stakeLabel : stakeLabel[l] = "staking_reward"}
           all == {l \in DOMAIN stakeChecks : stakeChecks[l] = "staking_reward"}
<1>1. HistoryTypes /\ HistoryFits /\ Balanced /\ VerdictsFit /\ DecidedRight /\ PrincipalHeld
  BY DEF IncomeInv
<1>2. /\ IsFiniteSet(K!AllLegs) /\ Len(chain) \in Nat /\ DOMAIN chain = 1 .. Len(chain)
      /\ \A l \in K!AllLegs : l.amount \in Nat /\ l.tx \in DOMAIN chain /\ l \in chain[l.tx].legs
  BY <1>1, LegsOfHistory
<1>3. all \in SUBSET K!AllLegs /\ labeled \in SUBSET all
  BY <1>1 DEF VerdictsFit
<1>4. /\ IsFiniteSet(all) /\ K!Total(all) \in Nat /\ \A l \in all : l.amount \in Nat
      /\ K!Total(labeled) \in Nat /\ K!Total(labeled) <= K!Total(all)
  <2> HIDE DEF all, labeled
  <2>1. IsFiniteSet(all) /\ \A l \in all : l.amount \in Nat
    BY <1>2, <1>3, FS_Subset
  <2> QED BY <1>2, <1>3, <2>1, TotalOfPart
<1>5. earned \in Nat
  BY <1>1 DEF HistoryTypes
<1>6. K!Total(all) <= earned
  <2>1. CASE all = {}
    BY <1>5, <2>1, TotalOfNone
  <2>2. CASE all # {}
    <3> DEFINE txs == {l.tx : l \in all}
    <3>1. txs \in SUBSET (1 .. Len(chain)) /\ txs # {}
      BY <1>2, <1>3, <2>2
    <3>2. PICK u \in txs : \A m \in txs : m <= u
      <4> HIDE DEF txs
      <4> QED BY <1>2, <3>1, LastOf
    <3>3. u \in DOMAIN chain /\ u \in Nat
      BY <1>2, <3>1, <3>2
    <3> DEFINE past == Given("staking_reward", u)
               now == {l \in all : l.tx = u}
               t == chain[u]
               p == Principal(u)
               due == Due(u)
    <3>4. all = past \cup now /\ past \cap now = {}
      <4>1. \A l \in all : l.tx \in Nat /\ l.tx <= u
        BY <1>2, <1>3, <3>2
      <4>2. \A l \in all : (l.tx < u \/ l.tx = u) /\ ~(l.tx < u /\ l.tx = u)
        BY <3>3, <4>1
      <4> QED BY <4>2 DEF Given
    <3>5. ASSUME NEW l \in now
          PROVE  /\ ExplainedBefore(u) /\ l \in t.legs /\ l.dir = "in" /\ t.after <= t.before
                 /\ \/ due = 0 /\ p = t.after
                    \/ /\ due > 0 /\ ~(K!Capital(l) /\ l.amount = due)
                       /\ \E k \in t.legs : k # l /\ k.dir = "in" /\ K!Capital(k) /\ k.amount = due
      <4>1. l \in K!AllLegs /\ l.tx = u /\ l \in t.legs /\ Says(l, "staking_reward")
        BY <1>2, <1>3 DEF Says
      <4>2. ExplainedBefore(u) /\ LegRight(l, "staking_reward")
        BY <1>1, <4>1 DEF DecidedRight, K!Verdicts
      <4> HIDE DEF due, p
      <4> QED BY <4>1, <4>2 DEF LegRight, due, p
    <3>6. ExplainedBefore(u)
      BY <3>2, <3>5
    <3>7. p <= Held(u)
      BY <1>1, <3>3, <3>6 DEF PrincipalHeld
    <3>8. K!Total(past) + Held(u) <= Granted(u) + p
      BY <3>3, <3>6, IncomeBefore
    <3>9. /\ \A l \in t.legs : /\ l.amount \in Nat /\ l.amount > 0
                               /\ l.of \in {"sent", "back", "reward"} /\ (l.of = "sent" <=> l.dir = "out")
                               /\ l.of # "reward" => K!Capital(l)
      BY <1>1, <3>3, LegsOfOne
    <3>10. /\ \A k \in t.legs : \A l \in t.legs : k.of = l.of => k = l
           /\ \A l \in t.legs : LegFits(u, l)
           /\ Granted(u) <= Granted(u + 1) /\ Granted(u + 1) <= earned
      BY <1>1, <3>3 DEF HistoryFits
    <3>11. /\ Held(u) \in Nat /\ Granted(u) \in Nat /\ Granted(u + 1) \in Nat /\ p \in Int
           /\ t.before \in Nat /\ t.after \in Nat /\ t.owed \in Nat /\ Held(u) = t.before + t.owed
      BY <1>1, <3>3, PrincipalIsInt, HistoryRecords DEF Held
    <3>12. due = K!Returning(t, p) /\ due \in Nat
      BY <1>1, <3>3, <3>7, <3>11, DueFits DEF Due
    <3>13. /\ IsFiniteSet(past) /\ K!Total(past) \in Nat /\ \A l \in past : l.amount \in Nat
      BY <1>1, PrincipalIsInt
    <3>14. IsFiniteSet(now) /\ K!Total(now) \in Nat /\ \A l \in now : l.amount \in Nat
      <4>1. now \in SUBSET all
        OBVIOUS
      <4> HIDE DEF all, now
      <4> QED BY <1>4, <4>1, TotalOfPart
    <3> HIDE DEF all, labeled, txs
    <3>15. K!Total(all) = K!Total(past) + K!Total(now)
      <4> HIDE DEF past, now
      <4> QED BY <3>4, <3>13, <3>14, TotalOfBoth
    <3>16. \A l \in now : l \in t.legs /\ l.of \in {"back", "reward"}
      BY <3>5, <3>9
    <3> HIDE DEF past, now, t, p, due
    <3>17. ASSUME NEW S, IsFiniteSet(S), now \subseteq S, \A l \in S : l.amount \in Nat
           PROVE  K!Total(now) <= K!Total(S)
      BY <3>17, TotalOfPart
    <3>18. ASSUME NEW r \in t.legs, r.of = "reward" PROVE Granted(u) + r.amount <= Granted(u + 1)
      BY <3>10, <3>18 DEF LegFits
    <3>19. CASE \A l \in now : l.of = "reward"
      <4>1. PICK r \in now : TRUE
        BY <3>2 DEF now, txs
      <4>2. now = {r}
        BY <3>10, <3>16, <3>19, <4>1
      <4>3. K!Total(now) = r.amount /\ r.amount \in Nat
        BY <3>14, <4>2, TotalOfOne
      <4>4. Granted(u) + r.amount <= Granted(u + 1)
        BY <3>16, <3>18, <3>19
      <4> QED BY <1>5, <3>7, <3>8, <3>10, <3>11, <3>13, <3>15, <4>3, <4>4
    <3>20. CASE \E b \in now : b.of = "back"
      <4>1. PICK b \in now : b.of = "back"
        BY <3>20
      <4>2. b \in t.legs /\ b.amount \in Nat /\ b.amount > 0 /\ K!Capital(b) /\ K!Total({b}) = b.amount
        BY <3>9, <3>16, <4>1, TotalOfOne
      <4>3. LegFits(u, b)
        BY <3>10, <4>2
      <4>4. ASSUME t.before - t.after = b.amount PROVE FALSE
        <5>1. due = b.amount
          BY <3>11, <3>12, <4>2, <4>4 DEF K!Returning
        <5> QED BY <3>5, <4>1, <4>2, <5>1
      <4>5. t.before = t.after /\ t.owed = b.amount
        BY <4>1, <4>3, <4>4 DEF LegFits, t
      <4>6. CASE due = 0 /\ p = t.after
        <5>1. Held(u) = p + b.amount
          BY <3>11, <4>5, <4>6
        <5>2. K!Total(past) + b.amount <= Granted(u)
          BY <3>8, <3>11, <3>13, <4>2, <5>1
        <5>3. CASE \E r \in t.legs : r.of = "reward"
          <6>1. PICK r \in t.legs : r.of = "reward"
            BY <5>3
          <6>2. now \subseteq {b} \cup {r}
            BY <3>10, <3>16, <4>1, <4>2, <6>1
          <6>3. r.amount \in Nat /\ K!Total({r}) = r.amount
            BY <3>9, TotalOfOne
          <6>4. IsFiniteSet({b}) /\ IsFiniteSet({r}) /\ {b} \cap {r} = {}
            BY <4>1, <6>1, FS_Singleton
          <6>5. K!Total({b} \cup {r}) = b.amount + r.amount /\ IsFiniteSet({b} \cup {r})
            <7>1. \A l \in {b} \cup {r} : l.amount \in Nat
              BY <4>2, <6>3
            <7>2. K!Total({b} \cup {r}) = K!Total({b}) + K!Total({r})
              BY <6>4, <7>1, TotalOfBoth
            <7> QED BY <4>2, <6>3, <6>4, <7>2, FS_Union
          <6>6. K!Total(now) <= b.amount + r.amount
            BY <3>17, <4>2, <6>2, <6>3, <6>5
          <6>7. Granted(u) + r.amount <= Granted(u + 1)
            BY <3>18, <6>1
          <6> QED BY <1>5, <3>10, <3>11, <3>13, <3>14, <3>15, <4>2, <5>2, <6>3, <6>6, <6>7
        <5>4. CASE \A r \in t.legs : r.of # "reward"
          <6>1. now \subseteq {b}
            BY <3>10, <3>16, <4>1, <4>2, <5>4
          <6>2. K!Total(now) <= b.amount
            BY <3>17, <4>2, <6>1, FS_Singleton
          <6> QED BY <1>5, <3>10, <3>11, <3>13, <3>14, <3>15, <4>2, <5>2, <6>2
        <5> QED BY <5>3, <5>4
      <4>7. CASE due > 0
        <5>1. PICK k \in t.legs : k # b /\ k.dir = "in" /\ K!Capital(k) /\ k.amount = due
          BY <3>5, <3>12, <4>1, <4>7
        <5>2. k.of = "reward"
          BY <3>9, <3>10, <4>1, <4>2, <5>1
        <5>3. k \notin now
          BY <3>5, <3>12, <4>7, <5>1
        <5>4. now = {b}
          BY <3>10, <3>16, <4>1, <4>2, <5>1, <5>2, <5>3
        <5>5. K!Total(now) = b.amount
          BY <4>2, <5>4
        <5>6. due = p - t.after
          BY <3>11, <3>12, <4>5, <4>7 DEF K!Returning
        <5>7. K!Total(past) + b.amount <= Granted(u) + due
          BY <3>8, <3>11, <3>13, <4>2, <4>5, <5>6
        <5>8. Granted(u) + due <= Granted(u + 1)
          BY <3>18, <5>1, <5>2
        <5> QED BY <1>5, <3>10, <3>11, <3>12, <3>13, <3>15, <4>2, <5>5, <5>7, <5>8
      <4> QED BY <3>5, <4>1, <4>6, <4>7
    <3> QED BY <3>16, <3>19, <3>20
  <2> QED BY <2>1, <2>2
<1> HIDE DEF all, labeled
<1>7. K!Total(labeled) <= earned
  BY <1>4, <1>5, <1>6
<1> QED BY <1>7 DEF labeled

(* Returned capital is never income: as long as every earlier transfer was explained,   *)
(* for any history, amounts and rewards (decideStakes 67-128, checks.ts:14).         *)
THEOREM IncomeAlwaysEarned == MCSpec => []IncomeIsEarned
<1>1. MCInit => IncomeInv
  <2> SUFFICES ASSUME MCInit PROVE IncomeInv
    OBVIOUS
  <2>1. /\ chain = <<>> /\ staked = 0 /\ owed = 0 /\ earned = 0 /\ booked = {} /\ work = {} /\ writing = {}
        /\ stakeRelabel = {} /\ DOMAIN stakeChecks = {} /\ DOMAIN stakeLabel = {}
        /\ contract = <<>> \/ contract.pays \in K!Tokens
    <3>1. CASE NoStaking
      <4>1. DOMAIN <<>> = {}
        OBVIOUS
      <4>2. /\ chain = <<>> /\ staked = 0 /\ owed = 0 /\ earned = 0 /\ booked = {} /\ work = {}
            /\ writing = {} /\ stakeRelabel = {} /\ stakeChecks = <<>> /\ stakeLabel = <<>> /\ contract = <<>>
        BY <3>1 DEF NoStaking
      <4> QED BY <4>1, <4>2
    <3>2. CASE K!Init
      <4>1. contract.pays \in K!Tokens
        BY <3>2 DEF K!Init
      <4> QED BY <3>2, <4>1 DEF K!Init
    <3> QED BY <3>1, <3>2 DEF MCInit
  <2>2. HistoryTypes
    BY <2>1 DEF HistoryTypes
  <2>3. HistoryFits /\ PrincipalHeld
    BY <2>1 DEF HistoryFits, PrincipalHeld
  <2>4. K!AllLegs = {}
    BY <2>1 DEF K!AllLegs
  <2>5. Balanced
    <3>1. Held(1) = 0 /\ Granted(1) = 0 /\ Moved("in", 1) = {} /\ Moved("out", 1) = {}
      BY <2>1, <2>4 DEF Held, Granted, Moved
    <3>2. Len(chain) + 1 = 1
      BY <2>1
    <3> QED BY <3>1, <3>2, TotalOfNone, SMTT(30) DEF Balanced
  <2>6. VerdictsFit /\ DecidedRight
    BY <2>1, <2>4 DEF VerdictsFit, DecidedRight
  <2> QED BY <2>2, <2>3, <2>5, <2>6 DEF IncomeInv
<1>2. IncomeInv /\ [MCNext]_<<trace, staking, vars>> => IncomeInv'
  <2> SUFFICES ASSUME IncomeInv, [MCNext]_<<trace, staking, vars>> PROVE IncomeInv'
    OBVIOUS
  <2>1. CASE UNCHANGED staking
    BY <2>1, OtherIncome
  <2>2. CASE contract # <<>> /\ K!Next
    <3>1. CASE K!Grow
      BY <2>2, <3>1, GrowIncome
    <3>2. CASE K!Decide
      BY <3>2, DecideIncome
    <3>3. ASSUME NEW w \in writing, K!Keep(w) PROVE IncomeInv'
      <4>1. VerdictsFit' /\ DecidedRight' /\ PrincipalHeld'
        BY <3>3, KeepKept
      <4>2. UNCHANGED K!truth
        BY <3>3 DEF K!Keep
      <4>3. HistoryTypes' /\ HistoryFits' /\ Balanced'
        BY <4>2, SameTruth DEF IncomeInv
      <4> QED BY <4>1, <4>3 DEF IncomeInv
    <3>4. CASE \/ \E missed \in SUBSET K!AllLegs : K!Sync(missed)
               \/ K!Begin \/ K!PassOver \/ K!Classify \/ K!Restart
               \/ \E answer \in {"staking", "not"} : K!Probe(answer)
               \/ \E l \in K!AllLegs : K!BookLate(l) \/ K!Relabel(l) \/ K!Correct(l)
      BY <3>4, OtherIncome
    <3> QED BY <2>2, <3>1, <3>2, <3>3, <3>4 DEF K!Next
  <2> QED BY <2>1, <2>2 DEF MCNext
<1> QED BY <1>1, <1>2, EarnedIsEnough, PTL DEF MCSpec
=============================================================================
