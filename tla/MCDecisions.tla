------------------------------ MODULE MCDecisions ------------------------------
(***************************************************************************)
(* What Luca decides from what the chain says of a transaction: a movement is   *)
(* traced, a staking contract's transfers or a fee contract's payments are       *)
(* checked; a behaviour does one of the three.                               *)
(***************************************************************************)
EXTENDS Fees, Figures

CONSTANTS MaxTxs, MaxAmount, MaxEarned, Limit

ASSUME StakingAssumption == MaxAmount \in Nat /\ MaxEarned \in Nat

VARIABLES
  evidence, lost,
  chain, staked, owed, earned, contract, synced, booked, known, stakeChecks, stakeLabel, work,
  writing, stakeRelabel, gap, stakeTrouble

T == INSTANCE Trace
K == INSTANCE Staking WITH
  checks <- stakeChecks, relabel <- stakeRelabel, label <- stakeLabel, trouble <- stakeTrouble

trace == <<evidence, lost>>
staking == <<chain, staked, owed, earned, contract, synced, booked, known, stakeChecks,
             stakeLabel, work, writing, stakeRelabel, gap, stakeTrouble>>

Untraced == [
  key |-> "log", checked |-> FALSE, receipt |-> "missing", tracked |-> FALSE, chain |-> {},
  feed |-> {}, raw |-> FALSE, events |-> {}, supported |-> FALSE, label |-> None,
  failed |-> FALSE, usd |-> {}]
NoTrace == evidence = Untraced /\ lost = [d \in {} |-> None]
NoFees ==
  /\ sources = <<>> /\ receipt = <<>> /\ checks = <<>> /\ relabel = {} /\ label = <<>>
  /\ trouble = 0
NoStaking ==
  /\ chain = <<>> /\ staked = 0 /\ owed = 0 /\ earned = 0 /\ contract = <<>> /\ synced = FALSE
  /\ booked = {} /\ known = "" /\ stakeChecks = <<>> /\ stakeLabel = <<>> /\ work = {}
  /\ writing = {} /\ stakeRelabel = {} /\ gap = FALSE /\ stakeTrouble = 0

MCInit ==
  \/ T!Init /\ NoFees /\ NoStaking
  \/ Init /\ NoTrace /\ NoStaking
  \/ K!Init /\ NoTrace /\ NoFees
MCNext ==
  \/ T!Next /\ UNCHANGED <<staking, vars>>
  \/ receipt # <<>> /\ Next /\ UNCHANGED <<trace, staking>>
  \/ contract # <<>> /\ K!Next /\ UNCHANGED <<trace, vars>>
MCSpec == MCInit /\ [][MCNext]_<<trace, staking, vars>>

(* Trace!NothingSlipsThrough: a movement judged fine is in the books as it should  *)
(* be, or is a known exception (trace.ts:269-303).                            *)
NothingSlipsThrough == T!NothingSlipsThrough
(* Staking!IncomeIsEarned: returned capital is never income                     *)
(* (checks.ts:14, decideStakes 67-128).                                      *)
IncomeIsEarned == K!IncomeIsEarned
=============================================================================
