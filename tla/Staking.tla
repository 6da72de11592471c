------------------------------- MODULE Staking -------------------------------
(***************************************************************************)
(* Staking recognised from the chain.  A wallet and one contract move tokens;  *)
(* for each transaction Luca asks the contract what the wallet had staked just  *)
(* before and just after it, decides what the transfers were, keeps the verdict  *)
(* and relabels.  What the contract reads at a block does not change later, so   *)
(* the chain is grown first and Luca looks at it afterwards.                   *)
(***************************************************************************)
EXTENDS Integers, FiniteSets, FiniteSetsExt, Sequences

CONSTANTS MaxTxs, MaxAmount, MaxEarned, MaxTrouble,
          Limit      \* transfers a cycle takes (fifty in the code)

VARIABLES
  chain,      \* transactions: the transfers, the staked amount before and after, and
              \* what was owed and had been granted before (for the property only)
  staked,     \* what the wallet has staked now
  owed,       \* withdrawals it requested and was not paid
  earned,     \* every reward the contract granted
  contract,   \* the reward token it pays in, and the one its reads name
  synced,     \* the sync has read the range
  booked,     \* transfers in the books
  known,      \* what Luca keeps of the contract: "", "staking" or "not"
  checks,     \* the verdict on each checked transfer
  label,      \* the active label of each labeled transfer
  work,       \* transactions left in this cycle
  writing,    \* verdicts decided and not yet kept
  relabel,    \* the transfer just kept, not yet relabeled
  gap,        \* a verdict was reached with an earlier transfer unread or unexplained
  trouble

truth == <<chain, staked, owed, earned, contract>>
cycle == <<work, writing, relabel>>
vars == <<truth, synced, booked, known, checks, label, cycle, gap, trouble>>

None == ""
Tokens == {"stake", "reward"}
Amounts == 1..MaxAmount
Leg == [tx: Nat, dir: {"in", "out"}, token: Tokens, amount: Nat \ {0}, of: {"sent", "back", "reward"}]
Verdicts == {"staked", "unstaked", "staking_reward", "unclear", "unrelated"}
Auto == {"usual", "unknown", "staked", "unstaked", "staking_reward"}

(* A sum of amounts, counted unit by unit. *)
Units(legs) == UNION {{l} \X (1..l.amount) : l \in legs}
Total(legs) == Cardinality(Units(legs))
AllLegs == UNION {chain[i].legs : i \in DOMAIN chain}
Idle == work = {} /\ writing = {} /\ relabel = {}

-----------------------------------------------------------------------------
(* The contract.  A withdrawal is direct, or requested and paid whole later;   *)
(* rewards are paid, or added to the stake.                                 *)
Transaction(sent, back, reward, after) ==
  LET leg(of, dir, token, n) ==
        [tx |-> Len(chain) + 1, dir |-> dir, token |-> token, amount |-> n, of |-> of]
      legs == {leg("sent", "out", "stake", sent), leg("back", "in", "stake", back),
               leg("reward", "in", contract.pays, reward)}
  IN /\ Len(chain) < MaxTxs
     /\ chain' = Append(chain, [legs |-> {l \in legs : l.amount > 0}, before |-> staked, after |-> after,
                                owed |-> owed, earned |-> earned])
     /\ staked' = after /\ UNCHANGED contract

Deposit(n, reward, added) ==
  /\ Transaction(n, 0, reward, staked + n + added)
  /\ earned' = earned + reward + added /\ UNCHANGED owed
Withdraw(n, reward) ==
  /\ n <= staked /\ Transaction(0, n, reward, staked - n)
  /\ earned' = earned + reward /\ UNCHANGED owed
Claim(reward) ==
  /\ Transaction(0, 0, reward, staked)
  /\ earned' = earned + reward /\ UNCHANGED owed
Request(n) ==
  /\ n <= staked /\ owed + n <= MaxAmount /\ staked' = staked - n /\ owed' = owed + n
  /\ UNCHANGED <<chain, earned, contract>>
Pay(reward) ==
  /\ owed > 0 /\ Transaction(0, owed, reward, staked)
  /\ owed' = 0 /\ earned' = earned + reward
Compound(n) ==
  /\ staked > 0 /\ staked' = staked + n /\ earned' = earned + n /\ UNCHANGED <<chain, owed, contract>>

-----------------------------------------------------------------------------
(* What a transaction's transfers were (decideStakes). *)
Mine(legs) == {l \in legs : l.token \in {"stake", contract.named}}
Capital(l) == l.token = "stake"
Reward(l) == l.token = contract.named

(* Stake coming back: the staked amount fell, or it is below what was seen    *)
(* going in, as a withdrawal requested earlier leaves it.                    *)
Returning(t, principal) ==
  IF t.before > t.after THEN t.before - t.after
  ELSE IF t.after = t.before /\ principal > t.after THEN principal - t.after ELSE 0

(* A bug: the smaller transfer is the capital, whatever is due. *)
ReturnedSmallest(legs, due) == {l \in legs : Capital(l) /\ \A k \in legs : Capital(k) => l.amount <= k.amount}
Returned(legs, due) == {l \in legs : Capital(l) /\ l.amount = due}
Verdict(t, legs, principal, l) ==
  LET mine == Mine(legs)
      due == Returning(t, principal)
  IN CASE l \notin mine -> "unrelated"
       [] l \in mine /\ Cardinality({k.dir : k \in mine}) > 1 -> "unclear"
       [] l \in mine /\ {k.dir : k \in mine} = {"out"} ->
            IF (\A k \in mine : Capital(k)) /\ t.after - t.before = Total(mine) THEN "staked" ELSE "unclear"
       [] OTHER ->
            IF t.before < t.after THEN "unclear"
            ELSE IF due = 0
              THEN IF t.after = principal /\ t.after > 0 /\ \A k \in mine : Reward(k) THEN "staking_reward" ELSE "unclear"
            ELSE IF Total(mine) = due /\ \A k \in mine : Capital(k) THEN "unstaked"
            ELSE LET back == Returned(mine, due)
                 IN IF Cardinality(back) = 1 /\ \A k \in mine \ back : Reward(k)
                    THEN IF l \in back THEN "unstaked" ELSE "staking_reward"
                    ELSE "unclear"

(* Capital seen going in less what came back, before a block. *)
Kept(verdict, block) == Total({l \in DOMAIN checks : checks[l] = verdict /\ l.tx < block})
PrincipalSeen(block) == Kept("staked", block) - Kept("unstaked", block)

(* "unrelated" is labeled like any other transfer. *)
StakeLabel(verdict) ==
  CASE verdict = "unclear" -> "unknown" [] verdict = "unrelated" -> "usual" [] OTHER -> verdict

-----------------------------------------------------------------------------
Init ==
  /\ chain = <<>> /\ staked = 0 /\ owed = 0 /\ earned = 0
  /\ contract \in [pays: Tokens, named: Tokens \cup {None}] /\ contract.named \in {contract.pays, None}
  /\ synced = FALSE /\ booked = {} /\ known = None
  /\ checks = [l \in {} |-> None] /\ label = [l \in {} |-> None]
  /\ work = {} /\ writing = {} /\ relabel = {} /\ gap = FALSE /\ trouble = 0

Grow ==
  /\ ~synced
  /\ \/ \E n \in Amounts : Deposit(n, 0, 0) \/ Request(n)
     \/ \E n \in Amounts, reward \in 1..MaxEarned : Deposit(n, reward, 0) \/ Deposit(n, 0, reward)
     \/ \E n \in Amounts, reward \in 0..MaxEarned : Withdraw(n, reward)
     \/ \E reward \in 0..MaxEarned : Pay(reward)
     \/ \E reward \in 1..MaxEarned : Claim(reward) \/ Compound(reward)
  /\ earned' <= MaxEarned
  /\ UNCHANGED <<synced, booked, known, checks, label, cycle, gap, trouble>>

(* The sync books the transfers of its range; what it cannot store now, or    *)
(* reads only later, is booked by another run.                              *)
Sync(missed) ==
  /\ ~synced /\ chain # <<>> /\ synced' = TRUE
  /\ missed \subseteq AllLegs /\ trouble + Cardinality(missed) <= MaxTrouble
  /\ booked' = AllLegs \ missed /\ trouble' = trouble + Cardinality(missed)
  /\ UNCHANGED <<truth, known, checks, label, cycle, gap>>
BookLate(l) ==
  /\ synced /\ Idle /\ l \in AllLegs \ booked /\ booked' = booked \cup {l}
  /\ UNCHANGED <<truth, synced, known, checks, label, cycle, gap, trouble>>

(* checkStakes: the oldest unchecked transfers, a transaction at a time.      *)
Unchecked == booked \ DOMAIN checks
Candidates ==
  IF known = "not" THEN {}
  ELSE {l \in Unchecked : Cardinality({k \in Unchecked : k.tx < l.tx}) < Limit}
Begin ==
  /\ Idle /\ Candidates # {} /\ work' = {l.tx : l \in Candidates}
  /\ UNCHANGED <<truth, synced, booked, known, checks, label, writing, relabel, gap, trouble>>

Now == Min(work)
AtGroup == work # {} /\ writing = {} /\ relabel = {}

(* The contract is asked what it is, once, and the answer is kept: that it is  *)
(* not a staking contract, too, when one of its reads is answered by an error.  *)
Probe(answer) ==
  /\ AtGroup /\ known = None /\ known' = answer
  /\ trouble' = IF answer = "not" THEN trouble + 1 ELSE trouble
  /\ trouble' <= MaxTrouble
  /\ work' = IF answer = "not" THEN {} ELSE work
  /\ UNCHANGED <<truth, synced, booked, checks, label, writing, relabel, gap>>

(* The chain does not answer: this transaction waits for the next cycle, the   *)
(* later ones do not.                                                     *)
PassOver ==
  /\ AtGroup /\ trouble < MaxTrouble
  /\ work' = work \ {Now} /\ trouble' = trouble + 1
  /\ UNCHANGED <<truth, synced, booked, known, checks, label, writing, relabel, gap>>

Explained(l) == l \in DOMAIN checks /\ checks[l] # "unclear"
Decide ==
  LET legs == {l \in Unchecked : l.tx = Now}
  IN /\ AtGroup /\ known = "staking"
     /\ writing' = {<<l, Verdict(chain[Now], legs, PrincipalSeen(Now), l)>> : l \in legs}
     /\ gap' = (gap \/ \E l \in AllLegs : l.tx < Now /\ ~Explained(l))
     /\ work' = work \ {Now}
     /\ UNCHANGED <<truth, synced, booked, known, checks, label, relabel, trouble>>

(* Each verdict is kept in one statement and applied in the next. *)
Keep(w) ==
  /\ w \in writing /\ relabel = {}
  /\ writing' = writing \ {w} /\ relabel' = {w[1]}
  /\ checks' = [l \in DOMAIN checks \cup {w[1]} |-> IF l = w[1] THEN w[2] ELSE checks[l]]
  /\ UNCHANGED <<truth, synced, booked, known, label, work, gap, trouble>>
Relabel(l) ==
  /\ l \in relabel /\ relabel' = {}
  /\ label' = IF l \in DOMAIN label /\ label[l] \in Auto /\ checks[l] # "unrelated"
              THEN [label EXCEPT ![l] = StakeLabel(checks[l])] ELSE label
  /\ UNCHANGED <<truth, synced, booked, known, checks, work, writing, gap, trouble>>
Restart ==
  /\ ~Idle /\ trouble < MaxTrouble /\ trouble' = trouble + 1
  /\ work' = {} /\ writing' = {} /\ relabel' = {}
  /\ UNCHANGED <<truth, synced, booked, known, checks, label, gap>>

(* The classifier's pass over the transfers without a label, after the checks: *)
(* with a known staking contract each waits for its verdict.                  *)
Classify ==
  LET ready == {l \in booked \ DOMAIN label : known = "staking" => l \in DOMAIN checks}
  IN /\ Idle /\ ready # {}
     /\ label' = [l \in DOMAIN label \cup ready |->
          IF l \in DOMAIN label THEN label[l]
          ELSE IF known = "staking" THEN StakeLabel(checks[l]) ELSE "usual"]
     /\ UNCHANGED <<truth, synced, booked, known, checks, cycle, gap, trouble>>
(* The operator's own word stands. *)
Correct(l) ==
  /\ l \in booked /\ trouble < MaxTrouble /\ trouble' = trouble + 1
  /\ label' = [k \in DOMAIN label \cup {l} |-> IF k = l THEN "own" ELSE label[k]]
  /\ UNCHANGED <<truth, synced, booked, known, checks, cycle, gap>>

Next ==
  \/ Grow
  \/ \E missed \in {m \in SUBSET AllLegs : Cardinality(m) <= MaxTrouble} : Sync(missed)
  \/ Begin \/ PassOver \/ Decide \/ Classify \/ Restart
  \/ \E answer \in {"staking", "not"} : Probe(answer)
  \/ \E w \in writing : Keep(w)
  \/ \E l \in AllLegs : BookLate(l) \/ Relabel(l) \/ Correct(l)
Spec == Init /\ [][Next]_vars

-----------------------------------------------------------------------------
TypeOK ==
  /\ chain \in Seq([legs: SUBSET Leg, before: Nat, after: Nat, owed: Nat, earned: Nat])
  /\ staked \in Nat /\ owed \in Nat /\ earned \in Nat /\ trouble \in 0..MaxTrouble
  /\ booked \subseteq AllLegs /\ DOMAIN checks \subseteq booked /\ DOMAIN label \subseteq booked
  /\ known \in {None, "staking", "not"} /\ synced \in BOOLEAN /\ work \subseteq DOMAIN chain
  /\ writing \subseteq Leg \X Verdicts /\ relabel \subseteq DOMAIN checks
  /\ gap \in BOOLEAN /\ \A l \in DOMAIN label : label[l] \in Auto \cup {"own"}

(* "Capital coming back: never income" (checks.ts:14), summed over the contract:  *)
(* as long as each verdict was reached with every earlier transfer read and        *)
(* explained, what is booked as staking income is no more than the rewards the     *)
(* contract granted, whatever was requested, compounded or paid together.        *)
IncomeIsEarned ==
  ~gap => Total({l \in DOMAIN label : label[l] = "staking_reward"}) <= earned
=============================================================================
