-------------------------------- MODULE Fees ---------------------------------
(***************************************************************************)
(* Creator fees recognised from receipts.  A transfer of the fee asset into the  *)
(* fee wallet is a claim of a followed token's fees only if the fee contract's   *)
(* part in the transaction says so; each transfer is checked once, with the      *)
(* tokens followed then.  What Bankr reports of a token (recordReading) is only    *)
(* shown, and decides nothing.                                              *)
(***************************************************************************)
EXTENDS Integers, FiniteSets, Sequences

CONSTANTS Pools, Transfers, MaxTrouble

VARIABLES
  sources,   \* the pools followed, in the order they were added
  receipt,   \* what the chain says of each transfer's transaction, and who paid it
  checks,    \* the verdict kept on each checked transfer, its pool, and the pools followed
  relabel,   \* the transfer just checked, not yet relabeled
  label,     \* each labeled transfer's active label
  trouble

vars == <<sources, receipt, checks, relabel, label, trouble>>

Unkeyed == "unkeyed"    \* an event of the fee contract that names no pool
ASSUME FeesAssumption ==
  /\ Pools \cap {Unkeyed, "usual", "unknown", "own"} = {} /\ MaxTrouble \in Nat

Receipt == [ok: BOOLEAN, from: BOOLEAN, events: SUBSET (Pools \cup {Unkeyed}), paid: SUBSET Pools]

(* The fee contract keys what it logs by the pools it pays, or logs no pool; a  *)
(* failed transaction moves nothing and logs nothing.                        *)
Possible(r) ==
  /\ r.ok \/ (r.events = {} /\ r.paid = {})
  /\ r.events \cap Pools \in {r.paid, {}}
  /\ r.from => r.paid # {} \/ ~r.ok
  /\ r.paid # {} => r.from \/ r.events # {}

Followed == {sources[i] : i \in DOMAIN sources}
Named(r) == r.events \cap Pools

-----------------------------------------------------------------------------
(* decideClaim: one pool by itself. *)
DecideClaim(p, r) ==
  IF ~r.ok \/ (~r.from /\ r.events = {}) THEN "unrelated"
  ELSE IF Named(r) \ {p} # {} THEN "unclear"
  ELSE IF r.from \/ p \in r.events THEN "claim" ELSE "unclear"

(* A bug: a pool Luca does not follow is not looked for. *)
UntrackedNone(r) == {}
Untracked(r) == Named(r) \ Followed

(* Several tokens may pay one wallet through one contract: then exactly one of   *)
(* their pools must be named, and no other.                                  *)
DecideAcrossSources(r) ==
  LET first == sources[1]
      named == Named(r) \cap Followed
      verdict(v, p) == [verdict |-> v, pool |-> p, of |-> Followed]
  IN IF Len(sources) = 1 THEN verdict(DecideClaim(first, r), first)
     ELSE IF \A p \in Followed : DecideClaim(p, r) = "unrelated" THEN verdict("unrelated", first)
     ELSE IF Untracked(r) # {} THEN verdict("unclear", first)
     ELSE IF Cardinality(named) = 1 THEN verdict("claim", CHOOSE p \in named : TRUE)
     ELSE IF named # {} THEN verdict("unclear", CHOOSE p \in named : \E i \in DOMAIN sources :
            sources[i] = p /\ \A j \in 1..(i - 1) : sources[j] \notin named)
     ELSE verdict("unclear", first)

(* A claim is revenue of its pool; "unrelated" is labeled like any transfer. *)
FeeLabel(c) ==
  CASE c.verdict = "claim" -> c.pool [] c.verdict = "unclear" -> "unknown" [] OTHER -> "usual"

-----------------------------------------------------------------------------
Init ==
  /\ sources = <<>> /\ receipt \in [Transfers -> {r \in Receipt : Possible(r)}]
  /\ checks = [t \in {} |-> ""] /\ relabel = {} /\ label = [t \in {} |-> ""] /\ trouble = 0

Follow(p) ==
  /\ p \notin Followed /\ relabel = {} /\ sources' = Append(sources, p)
  /\ UNCHANGED <<receipt, checks, relabel, label, trouble>>

(* checkFeeClaims: the verdict is kept, then applied to an automatic label.    *)
Check(t) ==
  /\ sources # <<>> /\ relabel = {} /\ t \notin DOMAIN checks
  /\ checks' = [u \in DOMAIN checks \cup {t} |-> IF u = t THEN DecideAcrossSources(receipt[t]) ELSE checks[u]]
  /\ relabel' = {t} /\ UNCHANGED <<sources, receipt, label, trouble>>
Relabel(t) ==
  /\ t \in relabel /\ relabel' = {}
  /\ label' = IF t \in DOMAIN label /\ label[t] # "own" /\ checks[t].verdict # "unrelated"
              THEN [label EXCEPT ![t] = FeeLabel(checks[t])] ELSE label
  /\ UNCHANGED <<sources, receipt, checks, trouble>>
Restart ==
  /\ relabel # {} /\ trouble < MaxTrouble /\ relabel' = {} /\ trouble' = trouble + 1
  /\ UNCHANGED <<sources, receipt, checks, label>>

(* The classifier's pass: with a source followed, a transfer waits for its check. *)
Classify ==
  LET ready == {t \in Transfers \ DOMAIN label : sources = <<>> \/ t \in DOMAIN checks}
  IN /\ relabel = {} /\ ready # {}
     /\ label' = [t \in DOMAIN label \cup ready |->
          IF t \in DOMAIN label THEN label[t]
          ELSE IF sources = <<>> THEN "usual" ELSE FeeLabel(checks[t])]
     /\ UNCHANGED <<sources, receipt, checks, relabel, trouble>>
Correct(t) ==
  /\ t \in DOMAIN label => label[t] # "own"
  /\ trouble < MaxTrouble /\ trouble' = trouble + 1
  /\ label' = [u \in DOMAIN label \cup {t} |-> IF u = t THEN "own" ELSE label[u]]
  /\ UNCHANGED <<sources, receipt, checks, relabel>>

Next ==
  \/ \E p \in Pools : Follow(p)
  \/ \E t \in Transfers : Check(t) \/ Relabel(t) \/ Correct(t)
  \/ Classify \/ Restart
Spec == Init /\ [][Next]_vars

-----------------------------------------------------------------------------
TypeOK ==
  /\ sources \in Seq(Pools) /\ relabel \subseteq DOMAIN checks /\ trouble \in 0..MaxTrouble
  /\ \A t \in DOMAIN checks : checks[t] \in [verdict: {"claim", "unclear", "unrelated"}, pool: Pools, of: SUBSET Pools]
  /\ \A t \in DOMAIN label : label[t] \in Pools \cup {"usual", "unknown", "own"}

(* "unknown is better than false revenue" (claims.ts:9-20): what is booked as the   *)
(* fees of a pool was paid by that pool and no other, whichever tokens are        *)
(* followed before and after; but for a payment of the contract that named no pool *)
(* while one token was followed.                                             *)
FeesAreOfTheirPool ==
  \A t \in DOMAIN label : label[t] \in Pools =>
    \/ receipt[t].paid = {label[t]}
    \/ Named(receipt[t]) = {} /\ checks[t].of = {label[t]}
=============================================================================
