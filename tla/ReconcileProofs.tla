--------------------------- MODULE ReconcileProofs ---------------------------
(***************************************************************************)
(* Proofs about Reconcile: its type invariant, and that a checkpoint always  *)
(* holds what the chain had at its block and only moves forward, whatever    *)
(* the sources miss, whatever fails and wherever the worker dies.            *)
(***************************************************************************)
EXTENDS Reconcile, WellFoundedInduction, SequenceTheorems, TLAPS

-----------------------------------------------------------------------------
(* Sums, least elements, sequences.                                           *)

(* The sum over nothing is zero. *)
LEMMA SumOfNothing == ASSUME NEW f PROVE SumFunctionOnSet(f, {}) = 0
<1> DEFINE g == [s \in SUBSET {} |-> 0]
           G(h) == [s \in SUBSET {} |->
                      IF s = {} THEN 0
                      ELSE f[CHOOSE x \in s : TRUE] + h[s \ {CHOOSE x \in s : TRUE}]]
           it == CHOOSE h : h = G(h)
<1>1. g = G(g)
  OBVIOUS
<1>2. it = G(it)
  BY <1>1
<1>3. it[{}] = 0
  BY <1>2
<1>4. SumFunctionOnSet(f, {}) = it[{}]
  BY DEF SumFunctionOnSet, FoldFunctionOnSet, MapThenFoldSet
<1> QED BY <1>3, <1>4

(* A set of blocks that is not empty has a first one. *)
LEMMA Least ==
  ASSUME NEW S \in SUBSET Nat, S # {}
  PROVE  \E b \in S : \A c \in S : b <= c
<1>1. PICK b \in S : \A c \in S : ~ (<<c, b>> \in OpToRel(<, Nat))
  BY NatLessThanWellFounded, WFMin
<1>2. \A c \in S : ~(c < b)
  BY <1>1 DEF OpToRel
<1> QED BY <1>2

(* Forgetting a run leaves runs. *)
LEMMA RemoveAtType ==
  ASSUME NEW s \in Seq(Run), NEW i \in DOMAIN s
  PROVE  RemoveAt(s, i) \in Seq(Run)
<1>1. i \in 1 .. Len(s)
  OBVIOUS
<1>2. SubSeq(s, 1, i - 1) \in Seq(Run) /\ SubSeq(s, i + 1, Len(s)) \in Seq(Run)
  BY <1>1, SubSeqProperties
<1> QED BY <1>2, ConcatProperties DEF RemoveAt

(* Changing how a run ended leaves runs. *)
LEMMA MarkType ==
  ASSUME NEW s \in Seq(Run), NEW i \in DOMAIN s, NEW st \in {"running", "degraded", "failed"}
  PROVE  [s EXCEPT ![i].status = st] \in Seq(Run)
<1> DEFINE t == [s EXCEPT ![i].status = st]
<1>1. \A j \in DOMAIN s : s[j] \in Run
  OBVIOUS
<1>2. [s[i] EXCEPT !.status = st] \in Run
  BY <1>1 DEF Run
<1>3. t = [s EXCEPT ![i] = [s[i] EXCEPT !.status = st]]
  OBVIOUS
<1> QED BY <1>2, <1>3

-----------------------------------------------------------------------------
(* Blocks.                                                                    *)

(* The window of a sync lies within the chain. *)
LEMMA WindowType ==
  ASSUME TypeOK, ~UpToDate PROVE LastBlock \in Blocks /\ FromBlock \in Blocks
<1>1. LastBlock \in Blocks
  BY BlocksAssumption DEF TypeOK, LastBlock, Blocks
<1>2. CASE cursor = Never
  BY <1>1, <1>2, BlocksAssumption DEF FromBlock, Blocks, Never
<1>3. CASE cursor # Never
  <2>1. cursor \in Nat /\ cursor < LastBlock
    BY <1>1, <1>3 DEF TypeOK, UpToDate, Blocks
  <2> QED BY <1>1, <1>3, <2>1, BlocksAssumption DEF FromBlock, Blocks, Never
<1> QED BY <1>1, <1>2, <1>3

(* History opens at a block of the chain no later than the cursor. *)
LEMMA OpeningType ==
  ASSUME TypeOK PROVE OpeningBlock \in Blocks /\ OpeningBlock <= cursor
<1> DEFINE S == {cursor} \cup {BlockOf[m] - 1 : m \in raw}
<1>1. S \in SUBSET Blocks
  BY BlocksAssumption, MovesAssumption DEF TypeOK, Blocks
<1>2. \E b \in S : \A c \in S : b <= c
  <2>1. S \in SUBSET Nat /\ S # {}
    BY <1>1, BlocksAssumption DEF Blocks
  <2> HIDE DEF S
  <2> QED BY <2>1, Least
<1>3. OpeningBlock \in S /\ \A c \in S : OpeningBlock <= c
  BY <1>2 DEF OpeningBlock
<1> QED BY <1>1, <1>3

(* The first of the drifts found is a block of the chain. *)
LEMMA FirstDriftType ==
  ASSUME TypeOK, chk.drifts # {} PROVE FirstDrift \in Blocks
<1>1. chk.drifts \in SUBSET Blocks
  BY DEF TypeOK, Check
<1>2. \E b \in chk.drifts : \A c \in chk.drifts : b <= c
  BY <1>1, Least, BlocksAssumption DEF Blocks
<1> QED BY <1>1, <1>2 DEF FirstDrift

(* Evidence of a later block changes nothing recorded up to an earlier one:    *)
(* not even a failed transaction's receipt, which lies in its transfer's block. *)
LEMMA LaterEvidence ==
  ASSUME NEW known \in SUBSET Moves, NEW m \in Moves, NEW a, NEW from, NEW to \in Int,
         to < BlockOf[m]
  PROVE  Counted(known \cup {m}, a, from, to) = Counted(known, a, from, to)
<1>1. \A r \in Moves : BlockOf[r] \in Int
  BY MovesAssumption, BlocksAssumption
<1>2. m \notin Counted(known \cup {m}, a, from, to)
  BY <1>1 DEF Counted
<1>3. ASSUME NEW r \in known, BlockOf[r] <= to, r \in Reverted
      PROVE  ReceiptOf[r] # m
  BY <1>1, <1>3, MovesAssumption
<1> QED BY <1>2, <1>3 DEF Counted

(* The asset under check is one of the ledger's. *)
LEMMA AssetType ==
  ASSUME chk.at \in 1 .. Len(LedgerAssets) PROVE Asset \in Assets
  BY DEF Asset, Assets

(* At its own block a true checkpoint adds up. *)
LEMMA CheckpointAddsUp ==
  ASSUME TypeOK, CheckpointsTrue, Opened, Asset \in Assets
  PROVE  Adds(cp[Asset].block)
<1> DEFINE b == cp[Asset].block
<1>1. b \in Blocks /\ cp[Asset].balance = ChainBalance[Asset][b]
      /\ cp[Asset].balance \in Int
  BY DEF TypeOK, Opened, CheckpointsTrue, Checkpoint
<1>2. \A m \in Moves : BlockOf[m] \in Int
  BY MovesAssumption, BlocksAssumption
<1>3. raw \subseteq Moves
  BY DEF TypeOK
<1>4. Counted(raw, Asset, b, b) = {}
  BY <1>1, <1>2, <1>3, BlocksAssumption DEF Counted, Blocks
<1>5. LedgerDelta(raw, Asset, b, b) = 0
  BY <1>4, SumOfNothing DEF LedgerDelta
<1> QED BY <1>1, <1>5 DEF Adds, Expected

-----------------------------------------------------------------------------
(* The type invariant.                                                        *)

(* A record of the check, with some of its fields replaced, is still one. *)
LEMMA CheckType ==
  /\ NoCheck \in Check
  /\ \A n \in Nat, d \in SUBSET Blocks : [NoCheck EXCEPT !.at = n, !.drifts = d] \in Check
  /\ \A c \in Check, lo \in Blocks, hi \in Blocks : [c EXCEPT !.lo = lo, !.hi = hi] \in Check
<1>1. 0 \in Blocks /\ 0 \in Nat
  BY BlocksAssumption DEF Blocks
<1>2. NoCheck \in Check
  BY <1>1 DEF NoCheck, Check
<1>3. ASSUME NEW n \in Nat, NEW d \in SUBSET Blocks
      PROVE  [NoCheck EXCEPT !.at = n, !.drifts = d] \in Check
  BY <1>1 DEF NoCheck, Check
<1>4. ASSUME NEW c \in Check, NEW lo \in Blocks, NEW hi \in Blocks
      PROVE  [c EXCEPT !.lo = lo, !.hi = hi] \in Check
  BY DEF Check
<1> QED BY <1>2, <1>3, <1>4

(* A job starts with nothing found. *)
LEMMA JobType ==
  /\ NoJob \in Job
  /\ \A k \in {"sync", "rescan", "repair"}, n \in Nat, from \in Blocks, to \in Blocks :
       /\ Reading(k, n, from, to) \in Job
       /\ Reading(k, n, from, to).kind = k /\ Reading(k, n, from, to).run = n
       /\ Reading(k, n, from, to).from = from /\ Reading(k, n, from, to).todo = {}
<1>1. 0 \in Blocks /\ 0 \in Nat
  BY BlocksAssumption DEF Blocks
<1>2. NoJob \in Job
  BY <1>1 DEF NoJob, Job
<1>3. ASSUME NEW k \in {"sync", "rescan", "repair"}, NEW n \in Nat,
             NEW from \in Blocks, NEW to \in Blocks
      PROVE  /\ Reading(k, n, from, to) \in Job
             /\ Reading(k, n, from, to).kind = k /\ Reading(k, n, from, to).run = n
             /\ Reading(k, n, from, to).from = from /\ Reading(k, n, from, to).todo = {}
  <2> DEFINE j == [kind |-> k, run |-> n, from |-> from, to |-> to, found |-> {}, todo |-> {},
                   failed |-> FALSE, degraded |-> FALSE]
  <2>1. Reading(k, n, from, to) = j
    <3>1. NoJob = [kind |-> "none", run |-> 0, from |-> 0, to |-> 0, found |-> {}, todo |-> {},
                   failed |-> FALSE, degraded |-> FALSE]
      BY DEF NoJob
    <3>2. Reading(k, n, from, to) =
            [[[[NoJob EXCEPT !.kind = k] EXCEPT !.run = n] EXCEPT !.from = from] EXCEPT !.to = to]
      BY Zenon DEF Reading
    <3> QED BY <3>1, <3>2
  <2>2. j \in Job
    BY <1>3 DEF Job
  <2> QED BY <2>1, <2>2
<1> QED BY <1>2, <1>3

(* Moving on to the next asset keeps the check a check. *)
LEMMA NextAssetType ==
  ASSUME TypeOK, chk.at \in 1 .. Len(LedgerAssets), NEW d \in SUBSET Blocks, NextAsset(d)
  PROVE  chk' \in Check /\ pc' \in {"finish", "asset"}
<1>1. (IF chk.at = Len(LedgerAssets) THEN 0 ELSE chk.at + 1) \in Nat
  OBVIOUS
<1> QED BY <1>1, CheckType DEF NextAsset

(* Saving a balance of the chain at one of its blocks keeps checkpoints checkpoints. *)
LEMMA SaveType ==
  ASSUME TypeOK, Asset \in Assets, NEW b \in Blocks, NEW x \in Int, Save(b, x)
  PROVE  cp' \in [Assets -> Checkpoint \cup {NoCheckpoint}]
  BY DEF TypeOK, Save, Checkpoint

(* The steps of a sync keep the shape of its state. *)
LEMMA SyncType ==
  ASSUME LedgerInv, NewBlock \/ SyncSteps \/ SyncFaults \/ CrashSync
  PROVE  /\ tip' \in FirstTip .. MaxBlock /\ raw' \subseteq Moves
         /\ books' \in [Moves -> {"absent", "in", "evidence"}]
         /\ cursor' \in Blocks /\ origin' \in Blocks
         /\ runs' \in Seq(Run) /\ job' \in Job
         /\ pc' \in {"idle", "read", "store", "close", "rescan", "asset", "bisect",
                     "repaired", "finish", "tell"}
         /\ faults' \in 0 .. MaxFaults
<1> USE DEF LedgerInv
<1> DEFINE Shape ==
      /\ tip' \in FirstTip .. MaxBlock /\ raw' \subseteq Moves
      /\ books' \in [Moves -> {"absent", "in", "evidence"}]
      /\ cursor' \in Blocks /\ origin' \in Blocks
      /\ runs' \in Seq(Run) /\ job' \in Job
      /\ pc' \in {"idle", "read", "store", "close", "rescan", "asset", "bisect",
                  "repaired", "finish", "tell"}
      /\ faults' \in 0 .. MaxFaults
<1>f. Fault => faults' \in 0 .. MaxFaults
  BY BlocksAssumption DEF Fault, TypeOK
<1>1. CASE NewBlock
  BY <1>1, BlocksAssumption DEF NewBlock, TypeOK
<1>2. CASE BeginSync
  <2>1. [from |-> FromBlock, to |-> LastBlock, status |-> "running"] \in Run
    BY <1>2, WindowType DEF BeginSync, Run
  <2>2. runs' \in Seq(Run) /\ Len(runs) + 1 \in Nat
    BY <1>2, <2>1, AppendProperties DEF BeginSync, TypeOK
  <2>3. job' \in Job
    BY <1>2, <2>2, WindowType, JobType DEF BeginSync
  <2> QED BY <1>2, <2>2, <2>3 DEF BeginSync, TypeOK
<1>3. CASE NothingNew \/ NothingDegraded
  BY <1>3 DEF NothingNew, NothingDegraded, TypeOK
<1>4. CASE ReadRange
  <2>1. job' \in Job
    <3>1. PICK found \in SUBSET Within(job.from, tip), degraded \in BOOLEAN :
            job' = [job EXCEPT !.found = found, !.todo = found, !.degraded = degraded]
      BY <1>4 DEF ReadRange
    <3>2. found \in SUBSET Moves
      BY DEF Within
    <3> QED BY <3>1, <3>2 DEF TypeOK, Job
  <2>2. faults' \in 0 .. MaxFaults
    BY <1>4, <1>f DEF ReadRange, TypeOK
  <2> QED BY <1>4, <2>1, <2>2 DEF ReadRange, TypeOK
<1>5. ASSUME NEW m \in Moves, Store(m) PROVE Shape
  <2>1. Booked(m) \in {"absent", "in", "evidence"}
    BY DEF Booked, TypeOK
  <2>2. job' \in Job
    BY <1>5 DEF Store, TypeOK, Job
  <2> QED BY <1>5, <2>1, <2>2 DEF Store, TypeOK
<1>6. ASSUME NEW m \in Moves, StoreFails(m) PROVE Shape
  <2>1. job' \in Job
    BY <1>6 DEF StoreFails, TypeOK, Job
  <2> QED BY <1>6, <1>f, <2>1 DEF StoreFails, TypeOK
<1>7. CASE AdvanceCursor
  BY <1>7 DEF AdvanceCursor, TypeOK, Job
<1>8. ASSUME NEW i \in DOMAIN runs PROVE Closed(i) \in Seq(Run)
  <2>1. [runs EXCEPT ![i].status = "degraded"] \in Seq(Run)
    BY MarkType DEF TypeOK
  <2> QED BY <2>1, RemoveAtType DEF Closed, TypeOK
<1>9. CASE CloseSync
  BY <1>8, <1>9, JobType DEF CloseSync, Placed, TypeOK
<1>10. CASE BeginRescan
  <2>1. PICK i \in Degraded : job' = Reading("rescan", i, runs[i].from, runs[i].to)
    BY <1>10 DEF BeginRescan
  <2>2. i \in Nat /\ runs[i] \in Run
    BY DEF Degraded, TypeOK
  <2>3. job' \in Job
    BY <2>1, <2>2, JobType DEF Run
  <2> QED BY <1>10, <2>3 DEF BeginRescan, TypeOK
<1>11. CASE CloseRescan
  <2>1. job.run \in DOMAIN runs
    BY <1>11 DEF CloseRescan, Stored, Placed
  <2> QED BY <1>11, <2>1, RemoveAtType, JobType DEF CloseRescan, TypeOK
<1>12. CASE SyncFails
  <2>1. job.run \in DOMAIN runs
    BY <1>12 DEF SyncFails, Stored, Placed
  <2>2. runs' \in Seq(Run)
    BY <1>12, <2>1, MarkType DEF SyncFails, TypeOK
  <2> QED BY <1>12, <1>f, <2>2, JobType DEF SyncFails, TypeOK
<1>13. CASE RescanFails
  BY <1>13, <1>f, JobType DEF RescanFails, TypeOK
<1>14. CASE CrashSync
  <2>1. raw' \subseteq Moves
    BY <1>14 DEF CrashSync, TypeOK, Job
  <2> QED BY <1>14, <1>f, <2>1, JobType DEF CrashSync, TypeOK
<1> QED
  BY <1>1, <1>2, <1>3, <1>4, <1>5, <1>6, <1>7, <1>9, <1>10, <1>11, <1>12, <1>13, <1>14
     DEF SyncSteps, SyncFaults

-----------------------------------------------------------------------------
(* Checkpoints.                                                               *)

Saving == OpenCheckpoint \/ AddsUp \/ Repaired \/ Drift

(* Whatever saves a checkpoint saves the chain's balance at a block of it, no   *)
(* earlier than the checkpoint it replaces and not past the cursor.            *)
LEMMA SavedIsTrue ==
  ASSUME LedgerInv, Saving
  PROVE  /\ Asset \in Assets
         /\ \E b \in Blocks : /\ Save(b, ChainBalance[Asset][b])
                             /\ cp[Asset].block <= b /\ b <= cursor
<1> USE DEF LedgerInv
<1>1. chk.at \in 1 .. Len(LedgerAssets) /\ Asset \in Assets
  BY AssetType DEF Saving, OpenCheckpoint, AddsUp, Behind, Repaired, Drift, Narrowed, Placed
<1>2. CASE OpenCheckpoint
  <2>1. cp[Asset].block = -1
    BY <1>2 DEF OpenCheckpoint, Opened, NoCheckpoint
  <2> QED BY <1>1, <1>2, <2>1, OpeningType DEF OpenCheckpoint, Blocks
<1>3. CASE AddsUp
  <2>1. cursor \in Blocks /\ cp[Asset].block \in Blocks
    BY <1>1, <1>3 DEF AddsUp, Behind, TypeOK, Opened, Checkpoint
  <2> QED BY <1>1, <1>3, <2>1 DEF AddsUp, Behind, Blocks
<1>4. CASE Repaired
  <2>1. Opened /\ cp[Asset].block <= chk.lo /\ chk.lo < chk.hi /\ chk.hi <= cursor
    BY <1>4 DEF Repaired, LoProven
  <2>2. cp[Asset].block \in Blocks /\ chk.lo \in Blocks /\ chk.hi \in Blocks /\ cursor \in Blocks
    BY <1>1, <2>1 DEF TypeOK, Opened, Checkpoint, Check
  <2>3. cp[Asset].block <= cursor /\ cursor <= cursor
    BY <2>1, <2>2 DEF Blocks
  <2> QED BY <1>1, <1>4, <2>2, <2>3 DEF Repaired
<1>5. CASE Drift
  <2>1. /\ Opened /\ cp[Asset].block <= chk.lo /\ Adds(chk.lo)
        /\ chk.lo < chk.hi /\ chk.hi <= cursor
    BY <1>5 DEF Drift, Narrowed, LoProven
  <2>2. chk.lo \in Blocks /\ chk.lo <= cursor
    <3>1. chk.lo \in Blocks /\ chk.hi \in Blocks /\ cursor \in Blocks
      BY DEF TypeOK, Check
    <3> QED BY <2>1, <3>1 DEF Blocks
  <2>3. Save(chk.lo, ChainBalance[Asset][chk.lo])
    BY <1>5, <2>1 DEF Drift, Proven, Adds
  <2> QED BY <1>1, <2>1, <2>2, <2>3
<1> QED BY <1>2, <1>3, <1>4, <1>5 DEF Saving

(* Every other step leaves the checkpoints alone. *)
LEMMA OthersKeepCheckpoints ==
  ASSUME [Next]_vars, ~Saving PROVE cp' = cp
<1>1. CASE Next
  BY <1>1 DEF Saving, Next, checkVars, CheckSteps, BeginCheck, AlreadyThere, DoesNotAddUp,
       Bisect, StartRepair, CloseRepair, LookBeyond, MarkComplete, MarkIncomplete, Tell,
       CheckFails, RepairFails, Crash
<1>2. CASE UNCHANGED vars
  BY <1>2 DEF vars, checkVars
<1> QED BY <1>1, <1>2

(* Checkpoints stay true, keep their shape and only move forward. *)
LEMMA CheckpointsStep ==
  ASSUME LedgerInv, [Next]_vars
  PROVE  /\ cp' \in [Assets -> Checkpoint \cup {NoCheckpoint}]
         /\ CheckpointsTrue'
         /\ \A a \in Assets : cp[a].block <= cp'[a].block
<1> USE DEF LedgerInv
<1>1. ASSUME NEW a \in Assets PROVE cp[a].block \in Int
  BY BlocksAssumption DEF TypeOK, Checkpoint, NoCheckpoint, Blocks
<1>2. CASE Saving
  <2>1. Asset \in Assets
    BY <1>2, SavedIsTrue
  <2>2. PICK b \in Blocks : Save(b, ChainBalance[Asset][b]) /\ cp[Asset].block <= b
    BY <1>2, SavedIsTrue
  <2>3. ChainBalance[Asset][b] \in Int
    BY <2>1, BalanceAssumption
  <2>4. cp' \in [Assets -> Checkpoint \cup {NoCheckpoint}]
    BY <2>1, <2>2, <2>3, SaveType
  <2>5. cp'[Asset] = [block |-> b, balance |-> ChainBalance[Asset][b]]
    BY <2>1, <2>2 DEF Save, TypeOK
  <2>6. \A a \in Assets : a # Asset => cp'[a] = cp[a]
    BY <2>2 DEF Save, TypeOK
  <2>7. CheckpointsTrue'
    BY <2>5, <2>6 DEF CheckpointsTrue
  <2> QED BY <1>1, <2>2, <2>4, <2>5, <2>6, <2>7
<1>3. CASE ~Saving
  <2>1. cp' = cp
    BY <1>3, OthersKeepCheckpoints
  <2> QED BY <1>1, <2>1 DEF TypeOK, CheckpointsTrue
<1> QED BY <1>2, <1>3

-----------------------------------------------------------------------------
(* The invariant is kept.                                                     *)

(* Every step keeps the shape of the state. *)
LEMMA TypeStep ==
  ASSUME LedgerInv, [Next]_vars PROVE TypeOK'
<1> USE DEF LedgerInv
<1> DEFINE Cps == cp' \in [Assets -> Checkpoint \cup {NoCheckpoint}]
<1>c. Cps
  BY CheckpointsStep
<1>f. Fault => faults' \in 0 .. MaxFaults
  BY BlocksAssumption DEF Fault, TypeOK
<1>n. NoCheck \in Check /\ NoJob \in Job
  BY CheckType, JobType
<1> HIDE DEF Cps
<1>1. CASE (NewBlock \/ SyncSteps \/ SyncFaults) /\ UNCHANGED checkVars
  BY <1>1, SyncType DEF checkVars, TypeOK
<1>2. CASE BeginCheck
  <2>1. chk' = [NoCheck EXCEPT !.at = 1]
    BY <1>2 DEF BeginCheck
  <2>2. chk' \in Check
    BY <1>n, <2>1 DEF Check
  <2> QED BY <1>2, <2>2 DEF BeginCheck, Keeping, TypeOK
<1>3. CASE OpenCheckpoint
  BY <1>3, <1>c DEF OpenCheckpoint, Keeping, TypeOK, Cps
<1>4. ASSUME NextAsset(chk.drifts) \/ NextAsset(chk.drifts \cup {chk.hi}),
             pc \in {"asset", "bisect", "repaired"}
      PROVE  chk' \in Check /\ pc' \in {"finish", "asset"}
  <2>1. chk.at \in 1 .. Len(LedgerAssets)
    BY <1>4 DEF Placed
  <2>2. chk.drifts \in SUBSET Blocks /\ chk.hi \in Blocks
    BY DEF TypeOK, Check
  <2> QED BY <1>4, <2>1, <2>2, NextAssetType
<1>5. CASE AlreadyThere
  BY <1>4, <1>5 DEF AlreadyThere, Keeping, TypeOK
<1>6. CASE AddsUp
  BY <1>4, <1>6, <1>c DEF AddsUp, Behind, Keeping, TypeOK, Cps
<1>7. CASE Repaired
  BY <1>4, <1>7, <1>c DEF Repaired, Keeping, TypeOK, Cps
<1>8. CASE Drift
  BY <1>4, <1>8, <1>c DEF Drift, Narrowed, Keeping, TypeOK, Cps
<1>9. CASE DoesNotAddUp
  <2>1. cp[Asset].block \in Blocks /\ cursor \in Blocks
    <3>1. Asset \in Assets
      BY <1>9, AssetType DEF DoesNotAddUp, Behind, Placed
    <3> QED BY <1>9, <3>1 DEF DoesNotAddUp, Behind, Opened, TypeOK, Checkpoint
  <2>2. chk' \in Check
    BY <1>9, <2>1, CheckType DEF DoesNotAddUp, TypeOK
  <2> QED BY <1>9, <2>2 DEF DoesNotAddUp, Keeping, TypeOK
<1>10. CASE Bisect
  <2>1. Middle \in Blocks
    <3>1. chk.lo \in Blocks /\ chk.hi \in Blocks
      BY DEF TypeOK, Check
    <3> QED BY <3>1, BlocksAssumption DEF Middle, Blocks
  <2>2. Half \in Check
    BY <2>1 DEF Half, TypeOK, Check
  <2> QED BY <1>10, <2>2 DEF Bisect, Keeping, TypeOK
<1>11. CASE StartRepair
  <2>1. chk.hi \in Blocks
    BY DEF TypeOK, Check
  <2>2. [from |-> chk.hi, to |-> chk.hi, status |-> "running"] \in Run
    BY <2>1 DEF Run
  <2>3. runs' \in Seq(Run)
    BY <1>11, <2>2, AppendProperties DEF StartRepair, TypeOK
  <2>4. job' \in Job
    <3>1. Len(runs) + 1 \in Nat
      BY DEF TypeOK
    <3>2. job' = Reading("repair", Len(runs) + 1, chk.hi, chk.hi)
      BY <1>11 DEF StartRepair
    <3> QED BY <2>1, <3>1, <3>2, JobType
  <2>5. chk' \in Check
    <3>1. chk' = [chk EXCEPT !.tries = @ + 1, !.before = raw]
      BY <1>11 DEF StartRepair
    <3>2. chk \in Check /\ raw \in SUBSET Moves
      BY DEF TypeOK
    <3>3. chk.tries + 1 \in Nat
      BY <3>2 DEF Check
    <3>4. [chk EXCEPT !.tries = chk.tries + 1] \in Check
      BY <3>2, <3>3 DEF Check
    <3>5. [[chk EXCEPT !.tries = chk.tries + 1] EXCEPT !.before = raw] \in Check
      BY <3>2, <3>4 DEF Check
    <3>6. chk' = [[chk EXCEPT !.tries = chk.tries + 1] EXCEPT !.before = raw]
      BY Zenon, <3>1
    <3> QED BY <3>5, <3>6
  <2> QED BY <1>11, <2>3, <2>4, <2>5 DEF StartRepair, TypeOK
<1>12. CASE CloseRepair
  <2>1. job.run \in DOMAIN runs
    BY <1>12 DEF CloseRepair, Stored, Placed
  <2>2. [runs EXCEPT ![job.run].status = "degraded"] \in Seq(Run)
    BY <2>1, MarkType DEF TypeOK
  <2>3. runs' \in Seq(Run)
    BY <1>12, <2>1, <2>2, RemoveAtType DEF CloseRepair, Closed, TypeOK
  <2> QED BY <1>12, <1>n, <2>3 DEF CloseRepair, checkVars, TypeOK
<1>13. CASE LookBeyond
  <2>1. chk' \in Check
    BY <1>13, CheckType DEF LookBeyond, TypeOK, Check
  <2> QED BY <1>13, <2>1 DEF LookBeyond, Keeping, TypeOK
<1>14. CASE MarkComplete
  <2>1. Never \in Blocks
    BY BlocksAssumption DEF Never, Blocks
  <2> QED BY <1>14, <1>n, <2>1 DEF MarkComplete, Keeping, TypeOK
<1>15. CASE MarkIncomplete
  BY <1>15, <1>n, FirstDriftType DEF MarkIncomplete, NoDrift, Keeping, TypeOK
<1>16. CASE Tell
  BY <1>16 DEF Tell, Keeping, TypeOK
<1>17. CASE CheckFails
  BY <1>17, <1>f, <1>n DEF CheckFails, TypeOK
<1>18. CASE RepairFails
  <2>1. job.run \in DOMAIN runs
    BY <1>18 DEF RepairFails, Stored, Placed
  <2>2. runs' \in Seq(Run)
    BY <1>18, <2>1, MarkType DEF RepairFails, TypeOK
  <2> QED BY <1>18, <1>f, <1>n, <2>2 DEF RepairFails, TypeOK
<1>19. CASE Crash
  BY <1>19, <1>n, SyncType DEF Crash, TypeOK
<1>20. CASE UNCHANGED vars
  BY <1>20 DEF vars, syncVars, checkVars, TypeOK
<1> QED
  BY <1>1, <1>2, <1>3, <1>5, <1>6, <1>7, <1>8, <1>9, <1>10, <1>11, <1>12, <1>13, <1>14,
     <1>15, <1>16, <1>17, <1>18, <1>19, <1>20 DEF Next, CheckSteps

(* Every step leaves the worker where its job says it is. *)
LEMMA PlacedStep ==
  ASSUME LedgerInv, [Next]_vars PROVE Placed'
<1> USE DEF LedgerInv
<1>n. NoJob.kind = "none" /\ NoJob.todo = {}
  BY DEF NoJob
<1>1. CASE NewBlock /\ UNCHANGED checkVars
  BY <1>1 DEF NewBlock, checkVars, Placed, Within
<1>2. CASE BeginSync /\ UNCHANGED checkVars
  <2>1. job' = Reading("sync", Len(runs) + 1, FromBlock, LastBlock)
        /\ runs' = Append(runs, [from |-> FromBlock, to |-> LastBlock, status |-> "running"])
        /\ pc' = "read"
    BY <1>2 DEF BeginSync
  <2>2. job'.kind = "sync" /\ job'.run = Len(runs) + 1 /\ job'.todo = {}
    BY <1>2, <2>1, WindowType, JobType DEF BeginSync, TypeOK
  <2>3. job'.run \in DOMAIN runs'
    BY <2>1, <2>2 DEF TypeOK
  <2> QED BY <2>1, <2>2, <2>3 DEF Placed
<1>3. CASE (NothingNew \/ NothingDegraded) /\ UNCHANGED checkVars
  BY <1>3 DEF NothingNew, NothingDegraded, checkVars, Placed, Within
<1>4. CASE ReadRange /\ UNCHANGED checkVars
  <2>1. PICK found \in SUBSET Within(job.from, tip), degraded \in BOOLEAN :
          job' = [job EXCEPT !.found = found, !.todo = found, !.degraded = degraded]
    BY <1>4 DEF ReadRange
  <2>2. /\ job'.kind = job.kind /\ job'.run = job.run /\ job'.from = job.from
        /\ job'.todo = found
    BY <2>1 DEF TypeOK, Job
  <2>3. found \subseteq Within(job.from, MaxBlock)
    BY BlocksAssumption, MovesAssumption DEF Within, TypeOK
  <2> QED BY <1>4, <2>2, <2>3 DEF ReadRange, checkVars, Placed, Within
<1>5. ASSUME NEW m \in Moves, Store(m) \/ StoreFails(m), UNCHANGED checkVars PROVE Placed'
  <2>1. /\ job'.kind = job.kind /\ job'.run = job.run /\ job'.from = job.from
        /\ job'.todo \subseteq job.todo /\ runs' = runs /\ pc' = pc /\ pc = "store"
    <3>1. CASE Store(m)
      BY <3>1 DEF Store, TypeOK, Job
    <3>2. CASE StoreFails(m)
      BY <3>2 DEF StoreFails, TypeOK, Job
    <3> QED BY <1>5, <3>1, <3>2
  <2> QED BY <1>5, <2>1 DEF checkVars, Placed, Within
<1>6. CASE AdvanceCursor /\ UNCHANGED checkVars
  BY <1>6 DEF AdvanceCursor, Stored, checkVars, Placed, Within
<1>7. CASE (CloseSync \/ CloseRescan \/ SyncFails \/ RescanFails) /\ UNCHANGED checkVars
  BY <1>7, <1>n DEF CloseSync, CloseRescan, SyncFails, RescanFails, Placed
<1>8. CASE BeginRescan /\ UNCHANGED checkVars
  <2>1. PICK i \in Degraded : job' = Reading("rescan", i, runs[i].from, runs[i].to)
    BY <1>8 DEF BeginRescan
  <2>2. i \in DOMAIN runs /\ i \in Nat /\ runs[i] \in Run
    BY DEF Degraded, TypeOK
  <2>3. job'.kind = "rescan" /\ job'.run = i /\ job'.todo = {}
    BY <2>1, <2>2, JobType DEF Run
  <2> QED BY <1>8, <2>2, <2>3 DEF BeginRescan, Placed
<1>9. LedgerAssets # <<>> /\ LedgerAssets \in Seq(Assets)
  BY AssetsAssumption
<1>10. CASE BeginCheck
  <2>1. chk'.at = 1
    BY <1>10 DEF BeginCheck, NoCheck
  <2> QED BY <1>9, <1>10, <2>1 DEF BeginCheck, Keeping, Placed, Within
<1>11. ASSUME NextAsset(chk.drifts) \/ NextAsset(chk.drifts \cup {chk.hi}), Keeping,
              pc \in {"asset", "bisect", "repaired"}
       PROVE  Placed'
  <2>1. chk.at \in 1 .. Len(LedgerAssets) /\ job.kind = "none"
    BY <1>11 DEF Placed, TypeOK, Job
  <2>2. CASE chk.at = Len(LedgerAssets)
    BY <1>11, <2>1, <2>2 DEF NextAsset, Keeping, Placed, Within
  <2>3. CASE chk.at # Len(LedgerAssets)
    <3>1. chk'.at = chk.at + 1
      BY <1>11, <2>3 DEF NextAsset, NoCheck
    <3>2. chk'.at \in 1 .. Len(LedgerAssets)
      BY <1>9, <2>1, <2>3, <3>1
    <3> QED BY <1>11, <2>1, <2>3, <3>2 DEF NextAsset, Keeping, Placed, Within
  <2> QED BY <2>2, <2>3
<1>12. CASE AlreadyThere \/ AddsUp \/ Repaired \/ Drift
  BY <1>11, <1>12 DEF AlreadyThere, AddsUp, Behind, Repaired, Drift, Narrowed
<1>13. CASE OpenCheckpoint
  BY <1>13 DEF OpenCheckpoint, Keeping, Placed, Within
<1>14. CASE DoesNotAddUp \/ Bisect \/ LookBeyond
  <2>1. chk'.at = chk.at
    BY <1>14 DEF DoesNotAddUp, Bisect, Half, LookBeyond, TypeOK, Check
  <2>2. pc \in {"asset", "bisect", "repaired"} /\ pc' \in {"asset", "bisect", "repaired"}
        /\ UNCHANGED <<job, runs>>
    BY <1>14 DEF DoesNotAddUp, Behind, Bisect, LookBeyond, Keeping
  <2>3. job.kind = "none"
    BY <2>2 DEF Placed, TypeOK, Job
  <2> QED BY <2>1, <2>2, <2>3 DEF Placed, Within
<1>15. CASE StartRepair
  <2>1. job' = Reading("repair", Len(runs) + 1, chk.hi, chk.hi)
        /\ runs' = Append(runs, [from |-> chk.hi, to |-> chk.hi, status |-> "running"])
        /\ pc' = "read" /\ pc = "bisect"
    BY <1>15 DEF StartRepair, Narrowed
  <2>2. chk.hi \in Blocks /\ Len(runs) + 1 \in Nat
    BY DEF TypeOK, Check
  <2>3. job'.kind = "repair" /\ job'.run = Len(runs) + 1 /\ job'.todo = {} /\ job'.from = chk.hi
    BY <2>1, <2>2, JobType
  <2>4. job'.run \in DOMAIN runs'
    BY <2>1, <2>3 DEF TypeOK
  <2>5. chk'.at = chk.at /\ chk'.hi = chk.hi
    BY <1>15 DEF StartRepair, TypeOK, Check
  <2> QED BY <2>1, <2>3, <2>4, <2>5 DEF Placed
<1>16. CASE CloseRepair
  BY <1>16, <1>n DEF CloseRepair, Stored, checkVars, Placed
<1>17. CASE MarkComplete \/ MarkIncomplete \/ Tell
  <2>1. pc \in {"finish", "tell"} /\ pc' \in {"idle", "tell"} /\ UNCHANGED <<job, runs>>
    BY <1>17 DEF MarkComplete, MarkIncomplete, Tell, Keeping
  <2>2. job.kind = "none"
    BY <2>1 DEF Placed, TypeOK, Job
  <2> QED BY <2>1, <2>2 DEF Placed, Within
<1>18. CASE CheckFails
  <2>1. job.kind = "none"
    BY <1>18 DEF CheckFails, Placed, TypeOK, Job
  <2> QED BY <1>18, <2>1 DEF CheckFails, Placed, Within
<1>19. CASE RepairFails \/ Crash
  BY <1>19, <1>n DEF RepairFails, Crash, CrashSync, Placed
<1>20. CASE UNCHANGED vars
  BY <1>20 DEF vars, syncVars, checkVars, Placed, Within
<1> QED
  BY <1>1, <1>2, <1>3, <1>4, <1>5, <1>6, <1>7, <1>8, <1>10, <1>12, <1>13, <1>14, <1>15,
     <1>16, <1>17, <1>18, <1>19, <1>20 DEF Next, CheckSteps, SyncSteps, SyncFaults

(* Opening, closing or giving up a sync or a re-read is no part of a check. *)
LEMMA SyncOutsideCheck ==
  ASSUME LedgerInv,
         \/ BeginSync \/ NothingNew \/ AdvanceCursor \/ CloseSync \/ BeginRescan
         \/ NothingDegraded \/ CloseRescan \/ SyncFails \/ RescanFails
  PROVE  pc' \notin {"asset", "bisect", "repaired", "finish"} /\ job'.kind # "repair"
<1> USE DEF LedgerInv
<1>1. pc' \notin {"asset", "bisect", "repaired", "finish"}
  BY DEF BeginSync, NothingNew, AdvanceCursor, CloseSync, BeginRescan,
       NothingDegraded, CloseRescan, SyncFails, RescanFails
<1>2. CASE BeginSync
  <2>1. job' = Reading("sync", Len(runs) + 1, FromBlock, LastBlock) /\ Len(runs) + 1 \in Nat
    BY <1>2 DEF BeginSync, TypeOK
  <2> QED BY <1>1, <1>2, <2>1, WindowType, JobType DEF BeginSync
<1>3. CASE BeginRescan
  <2>1. PICK i \in Degraded : job' = Reading("rescan", i, runs[i].from, runs[i].to)
    BY <1>3 DEF BeginRescan
  <2>2. job'.kind = "rescan"
    BY <2>1 DEF Reading, NoJob
  <2> QED BY <1>1, <2>2
<1>4. CASE NothingNew \/ NothingDegraded
  BY <1>1, <1>4 DEF NothingNew, NothingDegraded, Placed, TypeOK, Job
<1>5. CASE AdvanceCursor
  BY <1>1, <1>5 DEF AdvanceCursor, Stored
<1>6. CASE CloseSync \/ CloseRescan \/ SyncFails \/ RescanFails
  <2>1. NoJob.kind = "none"
    BY DEF NoJob
  <2> QED BY <1>1, <1>6, <2>1 DEF CloseSync, CloseRescan, SyncFails, RescanFails
<1> QED BY <1>2, <1>3, <1>4, <1>5, <1>6

(* What was proven up to lo stays proven while hi is repaired. *)
LEMMA LoProvenStep ==
  ASSUME LedgerInv, [Next]_vars PROVE LoProven'
<1> USE DEF LedgerInv
<1> DEFINE Proving == pc \in {"bisect", "repaired"} \/ job.kind = "repair"
<1>n. NoJob.kind = "none"
  BY DEF NoJob
<1>i. /\ chk.lo \in Int /\ chk.hi \in Int /\ cursor \in Int
      /\ \A b \in Blocks : b \in Int
      /\ \A m \in Moves : BlockOf[m] \in Int
  BY BlocksAssumption, MovesAssumption DEF TypeOK, Check, Blocks
<1>1. ASSUME UNCHANGED <<raw, cursor, cp, chk>>, Proving PROVE LoProven'
  BY <1>1 DEF LoProven, Opened, Adds, Expected, Asset
<1>2. ASSUME ~Proving' PROVE LoProven'
  BY <1>2 DEF LoProven
<1> HIDE DEF Proving
<1>3. CASE (NewBlock \/ ReadRange) /\ UNCHANGED checkVars
  <2>1. UNCHANGED <<raw, cursor, cp, chk>> /\ job'.kind = job.kind
    BY <1>3 DEF NewBlock, ReadRange, checkVars, TypeOK, Job
  <2>2. pc' \in {"bisect", "repaired"} => pc \in {"bisect", "repaired"}
    BY <1>3 DEF NewBlock, ReadRange
  <2> QED BY <1>1, <1>2, <2>1, <2>2 DEF Proving
<1>4. ASSUME NEW m \in Moves, Store(m) \/ StoreFails(m), UNCHANGED checkVars PROVE LoProven'
  <2>1. /\ raw' \in {raw, raw \cup {m}} /\ UNCHANGED <<cursor, cp, chk>>
        /\ job'.kind = job.kind /\ pc' = "store" /\ m \in job.todo
    BY <1>4 DEF Store, StoreFails, checkVars, TypeOK, Job
  <2>2. CASE job.kind = "repair"
    <3>1. chk.lo < BlockOf[m]
      BY <1>i, <2>1, <2>2 DEF Placed, Within, LoProven
    <3>2. Counted(raw', Asset, cp[Asset].block, chk.lo)
            = Counted(raw, Asset, cp[Asset].block, chk.lo)
      <4>1. raw \in SUBSET Moves
        BY DEF TypeOK
      <4>2. Counted(raw \cup {m}, Asset, cp[Asset].block, chk.lo)
              = Counted(raw, Asset, cp[Asset].block, chk.lo)
        BY <1>i, <3>1, <4>1, LaterEvidence
      <4> QED BY <2>1, <4>2
    <3>3. LedgerDelta(raw', Asset, cp[Asset].block, chk.lo)
            = LedgerDelta(raw, Asset, cp[Asset].block, chk.lo)
      BY <3>2 DEF LedgerDelta
    <3> QED BY <2>1, <2>2, <3>3 DEF LoProven, Opened, Adds, Expected, Asset
  <2>3. CASE job.kind # "repair"
    BY <1>2, <2>1, <2>3 DEF Proving
  <2> QED BY <2>2, <2>3
<1>5. CASE (BeginSync \/ NothingNew \/ AdvanceCursor \/ CloseSync \/ BeginRescan
            \/ NothingDegraded \/ CloseRescan \/ SyncFails \/ RescanFails)
           /\ UNCHANGED checkVars
  <2>1. pc' \notin {"bisect", "repaired"} /\ job'.kind # "repair"
    BY <1>5, SyncOutsideCheck
  <2> QED BY <1>2, <2>1 DEF Proving
<1>6. CASE BeginCheck \/ AlreadyThere \/ AddsUp \/ OpenCheckpoint \/ Repaired \/ Drift
           \/ MarkComplete \/ MarkIncomplete \/ Tell
  <2>1. pc \notin {"read", "store", "close"} /\ job' = job
        /\ pc' \notin {"bisect", "repaired"}
    BY <1>6 DEF BeginCheck, AlreadyThere, AddsUp, Behind, OpenCheckpoint, Repaired, Drift,
         Narrowed, MarkComplete, MarkIncomplete, Tell, NextAsset, Keeping
  <2>2. job'.kind # "repair"
    BY <2>1 DEF Placed, TypeOK, Job
  <2> QED BY <1>2, <2>1, <2>2 DEF Proving
<1>7. CASE DoesNotAddUp
  <2>1. Opened /\ cp[Asset].block < cursor
    BY <1>7 DEF DoesNotAddUp, Behind
  <2>2. Asset \in Assets
    BY <1>7, AssetType DEF DoesNotAddUp, Behind, Placed
  <2>3. cp[Asset].block \in Blocks
    BY <2>1, <2>2 DEF Opened, TypeOK, Checkpoint
  <2>4. Adds(cp[Asset].block)
    BY <2>1, <2>2, CheckpointAddsUp
  <2>5. /\ chk'.at = chk.at /\ chk'.lo = cp[Asset].block /\ chk'.hi = cursor
        /\ UNCHANGED <<raw, cursor, cp>>
    BY <1>7 DEF DoesNotAddUp, Keeping, TypeOK, Check
  <2> QED BY <1>i, <2>1, <2>3, <2>4, <2>5 DEF LoProven, Opened, Adds, Expected, Asset
<1>8. CASE Bisect
  <2>1. /\ Opened /\ cp[Asset].block <= chk.lo /\ chk.hi <= cursor /\ Adds(chk.lo)
        /\ chk.hi - chk.lo > 1 /\ UNCHANGED <<raw, cursor, cp>> /\ chk' = Half
    BY <1>8 DEF Bisect, LoProven, Keeping
  <2>2. chk.lo < Middle /\ Middle < chk.hi /\ Middle \in Int
    BY <1>i, <2>1 DEF Middle
  <2>3. cp[Asset].block \in Int
    <3>1. Asset \in Assets
      BY <1>8, AssetType DEF Bisect, Placed
    <3> QED BY <1>i, <2>1, <3>1 DEF Opened, TypeOK, Checkpoint
  <2>4. CASE Adds(Middle)
    <3>1. chk'.at = chk.at /\ chk'.lo = Middle /\ chk'.hi = chk.hi
      BY <2>1, <2>4 DEF Half, TypeOK, Check
    <3> QED BY <1>i, <2>1, <2>2, <2>3, <2>4, <3>1 DEF LoProven, Opened, Adds, Expected, Asset
  <2>5. CASE ~Adds(Middle)
    <3>1. chk'.at = chk.at /\ chk'.lo = chk.lo /\ chk'.hi = Middle
      BY <2>1, <2>5 DEF Half, TypeOK, Check
    <3> QED BY <1>i, <2>1, <2>2, <3>1 DEF LoProven, Opened, Adds, Expected, Asset
  <2> QED BY <2>4, <2>5
<1>9. CASE StartRepair
  <2>1. /\ Opened /\ cp[Asset].block <= chk.lo /\ chk.lo < chk.hi /\ chk.hi <= cursor
        /\ Adds(chk.lo) /\ UNCHANGED <<raw, cursor, cp>>
    BY <1>9 DEF StartRepair, Narrowed, LoProven
  <2>2. chk'.at = chk.at /\ chk'.lo = chk.lo /\ chk'.hi = chk.hi
    BY <1>9 DEF StartRepair, TypeOK, Check
  <2> QED BY <2>1, <2>2 DEF LoProven, Opened, Adds, Expected, Asset
<1>10. CASE CloseRepair
  <2>1. UNCHANGED <<raw, cursor, cp, chk>> /\ job.kind = "repair"
    BY <1>10 DEF CloseRepair, Stored, checkVars
  <2> QED BY <1>1, <2>1 DEF Proving
<1>11. CASE LookBeyond
  <2>1. /\ Opened /\ cp[Asset].block <= chk.lo /\ chk.lo < chk.hi /\ chk.hi <= cursor
        /\ Adds(chk.lo) /\ UNCHANGED <<raw, cursor, cp>> /\ ~Adds(cursor)
    BY <1>11 DEF LookBeyond, LoProven, Keeping
  <2>2. CASE Adds(chk.hi)
    <3>1. chk'.at = chk.at /\ chk'.lo = chk.hi /\ chk'.hi = cursor
      BY <1>11, <2>2 DEF LookBeyond, TypeOK, Check
    <3>2. chk.hi < cursor
      BY <1>i, <2>1, <2>2
    <3>3. cp[Asset].block \in Int
      <4>1. Asset \in Assets
        BY <1>11, AssetType DEF LookBeyond, Placed
      <4> QED BY <1>i, <2>1, <4>1 DEF Opened, TypeOK, Checkpoint
    <3> QED BY <1>i, <2>1, <2>2, <3>1, <3>2, <3>3 DEF LoProven, Opened, Adds, Expected, Asset
  <2>3. CASE ~Adds(chk.hi)
    <3>1. UNCHANGED <<raw, cursor, cp, chk>> /\ pc = "repaired"
      BY <1>11, <2>3 DEF LookBeyond, Keeping
    <3> QED BY <1>1, <3>1 DEF Proving
  <2> QED BY <2>2, <2>3
<1>12. CASE CheckFails
  <2>1. pc' = "idle" /\ job' = job /\ job.kind # "repair"
    BY <1>12 DEF CheckFails, Placed, TypeOK, Job
  <2> QED BY <1>2, <2>1 DEF Proving
<1>13. CASE RepairFails \/ Crash
  BY <1>2, <1>13, <1>n DEF RepairFails, Crash, CrashSync, Proving
<1>14. CASE UNCHANGED vars
  BY <1>1, <1>2, <1>14 DEF vars, syncVars, checkVars, Proving
<1> QED
  BY <1>3, <1>4, <1>5, <1>6, <1>7, <1>8, <1>9, <1>10, <1>11, <1>12, <1>13, <1>14
     DEF Next, CheckSteps, SyncSteps, SyncFaults

-----------------------------------------------------------------------------
(* Complete means proven.                                                     *)

(* No step takes a checkpoint past the cursor, or the cursor back.             *)
LEMMA WithinCursorStep ==
  ASSUME LedgerInv, WithinCursor, [Next]_vars PROVE WithinCursor'
<1> USE DEF LedgerInv
<1>i. /\ cursor \in Int /\ job.to \in Int
      /\ \A a \in Assets : cp[a].block \in Int
      /\ \A b \in Blocks : b \in Int
  BY BlocksAssumption DEF TypeOK, Blocks, Job, Checkpoint, NoCheckpoint
<1>1. CASE Saving
  <2>1. UNCHANGED <<cursor, job>>
    BY <1>1 DEF Saving, OpenCheckpoint, AddsUp, Repaired, Drift, Keeping
  <2>2. PICK b \in Blocks : Save(b, ChainBalance[Asset][b]) /\ b <= cursor
    BY <1>1, SavedIsTrue
  <2>3. \A a \in Assets : cp'[a].block = b \/ cp'[a] = cp[a]
    BY <2>2 DEF Save, TypeOK
  <2> QED BY <2>1, <2>2, <2>3 DEF WithinCursor
<1>2. ASSUME cp' = cp, cursor' = cursor, job'.kind # "sync" \/ (job'.kind = job.kind /\ job'.to = job.to)
      PROVE  WithinCursor'
  BY <1>2 DEF WithinCursor
<1>3. CASE BeginSync /\ UNCHANGED checkVars
  <2>1. /\ job' = Reading("sync", Len(runs) + 1, FromBlock, LastBlock)
        /\ cp' = cp /\ cursor' = cursor /\ ~UpToDate
    BY <1>3 DEF BeginSync, checkVars
  <2>2. job'.to = LastBlock
    BY <2>1 DEF Reading, NoJob
  <2>3. cursor <= LastBlock
    BY <1>i, <2>1, WindowType DEF UpToDate, Never, Blocks
  <2> QED BY <2>1, <2>2, <2>3 DEF WithinCursor
<1>4. CASE AdvanceCursor /\ UNCHANGED checkVars
  <2>1. cp' = cp /\ job' = job /\ cursor' \in {cursor, job.to} /\ job.kind = "sync"
    BY <1>4 DEF AdvanceCursor, Stored, checkVars
  <2> QED BY <1>i, <2>1 DEF WithinCursor
<1>5. CASE (NewBlock \/ NothingNew \/ NothingDegraded) /\ UNCHANGED checkVars
  BY <1>2, <1>5 DEF NewBlock, NothingNew, NothingDegraded, checkVars
<1>6. CASE (ReadRange \/ \E m \in Moves : Store(m) \/ StoreFails(m)) /\ UNCHANGED checkVars
  <2>1. cp' = cp /\ cursor' = cursor /\ job'.kind = job.kind /\ job'.to = job.to
    BY <1>6 DEF ReadRange, Store, StoreFails, checkVars, TypeOK, Job
  <2> QED BY <1>2, <2>1
<1>7. NoJob.kind # "sync"
  BY DEF NoJob
<1>8. CASE (CloseSync \/ CloseRescan \/ SyncFails \/ RescanFails) /\ UNCHANGED checkVars
  BY <1>2, <1>7, <1>8 DEF CloseSync, CloseRescan, SyncFails, RescanFails, checkVars
<1>9. CASE BeginRescan /\ UNCHANGED checkVars
  <2>1. PICK i \in Degraded : job' = Reading("rescan", i, runs[i].from, runs[i].to)
    BY <1>9 DEF BeginRescan
  <2>2. job'.kind = "rescan"
    BY <2>1 DEF Reading, NoJob
  <2> QED BY <1>2, <1>9, <2>2 DEF BeginRescan, checkVars
<1>10. CASE StartRepair
  <2>1. job'.kind = "repair"
    BY <1>10 DEF StartRepair, Reading, NoJob
  <2> QED BY <1>2, <1>10, <2>1 DEF StartRepair
<1>11. CASE BeginCheck \/ AlreadyThere \/ DoesNotAddUp \/ Bisect \/ LookBeyond
            \/ MarkComplete \/ MarkIncomplete \/ Tell \/ CheckFails
  BY <1>2, <1>11 DEF BeginCheck, AlreadyThere, DoesNotAddUp, Bisect, LookBeyond,
       MarkComplete, MarkIncomplete, Tell, CheckFails, Keeping
<1>12. CASE CloseRepair \/ RepairFails \/ Crash
  BY <1>2, <1>7, <1>12 DEF CloseRepair, RepairFails, Crash, CrashSync, checkVars
<1>13. CASE UNCHANGED vars
  BY <1>2, <1>13 DEF vars, syncVars, checkVars
<1> QED
  BY <1>1, <1>3, <1>4, <1>5, <1>6, <1>8, <1>9, <1>10, <1>11, <1>12, <1>13
     DEF Saving, Next, CheckSteps, SyncSteps, SyncFaults

(* Once an asset is at the cursor, the check moves on with one more proven. *)
LEMMA OneMoreProven ==
  ASSUME LedgerInv, ProvenSoFar, Checking, pc # "finish", chk.at \in 1 .. Len(LedgerAssets),
         NextAsset(chk.drifts), cursor' = cursor,
         \A a \in Assets : cp'[a] = cp[a] \/ cp'[a].block = cursor,
         cp'[Asset].block = cursor
  PROVE  ProvenSoFar'
<1> SUFFICES ASSUME chk'.drifts = {}, NEW i \in Looked' PROVE cp'[LedgerAssets[i]].block = cursor'
  BY DEF ProvenSoFar
<1>1. chk'.drifts = chk.drifts
  BY DEF NextAsset, NoCheck
<1>2. \A j \in 1 .. chk.at - 1 : cp[LedgerAssets[j]].block = cursor
  BY <1>1 DEF ProvenSoFar, Looked
<1>3. Len(LedgerAssets) \in Nat /\ \A j \in 1 .. Len(LedgerAssets) : LedgerAssets[j] \in Assets
  BY AssetsAssumption
<1>4. i \in 1 .. chk.at
  <2>1. CASE chk.at = Len(LedgerAssets)
    BY <2>1 DEF NextAsset, Looked
  <2>2. CASE chk.at # Len(LedgerAssets)
    <3>1. pc' = "asset" /\ chk'.at = chk.at + 1
      BY <2>2 DEF NextAsset, NoCheck
    <3> QED BY <3>1 DEF Looked
  <2> QED BY <2>1, <2>2
<1>5. CASE i = chk.at
  BY <1>5 DEF Asset
<1>6. CASE i # chk.at
  <2>1. i \in 1 .. chk.at - 1 /\ LedgerAssets[i] \in Assets
    BY <1>3, <1>4, <1>6
  <2> QED BY <1>2, <2>1
<1> QED BY <1>5, <1>6

(* A check that goes on keeps account of what it has proven. *)
LEMMA ProvenSoFarStep ==
  ASSUME LedgerInv, WithinCursor, ProvenSoFar, [Next]_vars PROVE ProvenSoFar'
<1> USE DEF LedgerInv
<1>i. /\ cursor \in Nat /\ Len(LedgerAssets) \in Nat
      /\ \A i \in 1 .. Len(LedgerAssets) : LedgerAssets[i] \in Assets
      /\ \A a \in Assets : cp[a].block \in Int
  BY BlocksAssumption, AssetsAssumption DEF TypeOK, Blocks, Checkpoint, NoCheckpoint
<1>1. ASSUME UNCHANGED <<cursor, cp>>, chk'.at = chk.at, chk'.drifts = chk.drifts, Checking,
             (pc' = "finish") = (pc = "finish")
      PROVE  ProvenSoFar'
  BY <1>1 DEF ProvenSoFar, Looked
<1>2. ASSUME ~Checking' PROVE ProvenSoFar'
  BY <1>2 DEF ProvenSoFar
<1>3. CASE (NewBlock \/ ReadRange \/ \E m \in Moves : Store(m) \/ StoreFails(m))
           /\ UNCHANGED checkVars
  <2>1. UNCHANGED <<cursor, cp, chk>> /\ job'.kind = job.kind
    BY <1>3 DEF NewBlock, ReadRange, Store, StoreFails, checkVars, TypeOK, Job
  <2>2. pc' = pc \/ (pc = "read" /\ pc' = "store")
    BY <1>3 DEF NewBlock, ReadRange, Store, StoreFails
  <2>3. Checking' = Checking
    BY <2>1, <2>2 DEF Checking
  <2> QED BY <1>1, <1>2, <2>1, <2>2, <2>3
<1>4. CASE (BeginSync \/ NothingNew \/ AdvanceCursor \/ CloseSync \/ BeginRescan
            \/ NothingDegraded \/ CloseRescan \/ SyncFails \/ RescanFails)
           /\ UNCHANGED checkVars
  <2>1. pc' \notin {"asset", "bisect", "repaired", "finish"} /\ job'.kind # "repair"
    BY <1>4, SyncOutsideCheck
  <2> QED BY <1>2, <2>1 DEF Checking
<1>5. CASE BeginCheck
  <2>1. chk'.at = 1 /\ pc' = "asset"
    BY <1>5 DEF BeginCheck, NoCheck
  <2> QED BY <2>1 DEF ProvenSoFar, Looked
<1>6. CASE OpenCheckpoint
  <2>1. /\ UNCHANGED <<cursor, chk, pc>> /\ Checking /\ pc = "asset"
        /\ chk.at \in 1 .. Len(LedgerAssets)
    BY <1>6 DEF OpenCheckpoint, Keeping, Checking, Placed
  <2>2. cp[Asset].block = -1 /\ \A a \in Assets : a # Asset => cp'[a] = cp[a]
    BY <1>6 DEF OpenCheckpoint, Opened, NoCheckpoint, Save, TypeOK
  <2>3. ASSUME chk.drifts = {}, NEW i \in 1 .. chk.at - 1
        PROVE  cp'[LedgerAssets[i]].block = cursor
    <3>1. cp[LedgerAssets[i]].block = cursor
      BY <2>1, <2>3 DEF ProvenSoFar, Looked
    <3>2. LedgerAssets[i] \in Assets /\ LedgerAssets[i] # Asset
      BY <1>i, <2>1, <2>2, <3>1
    <3> QED BY <2>2, <3>1, <3>2
  <2> QED BY <2>1, <2>3 DEF ProvenSoFar, Looked
<1>7. CASE AlreadyThere
  <2>1. /\ UNCHANGED <<cursor, cp>> /\ Checking /\ pc = "asset" /\ NextAsset(chk.drifts)
        /\ chk.at \in 1 .. Len(LedgerAssets) /\ cp[Asset].block >= cursor
    BY <1>7 DEF AlreadyThere, Keeping, Checking, Placed
  <2>2. cp[Asset].block = cursor
    BY <1>i, <2>1, AssetType DEF WithinCursor
  <2> QED BY <2>1, <2>2, OneMoreProven
<1>8. CASE AddsUp \/ Repaired
  <2>1. /\ cursor' = cursor /\ Checking /\ pc # "finish" /\ NextAsset(chk.drifts)
        /\ chk.at \in 1 .. Len(LedgerAssets) /\ Save(cursor, ChainBalance[Asset][cursor])
    BY <1>8 DEF AddsUp, Behind, Repaired, Keeping, Checking, Placed
  <2>2. /\ cp'[Asset].block = cursor
        /\ \A a \in Assets : cp'[a] = cp[a] \/ cp'[a].block = cursor
    BY <2>1, AssetType DEF Save, TypeOK
  <2> QED BY <2>1, <2>2, OneMoreProven
<1>9. CASE Drift
  <2>1. chk'.drifts = chk.drifts \cup {chk.hi}
    BY <1>9 DEF Drift, NextAsset, NoCheck
  <2> QED BY <2>1 DEF ProvenSoFar
<1>10. CASE DoesNotAddUp \/ Bisect \/ LookBeyond \/ StartRepair
  <2>1. chk'.at = chk.at /\ chk'.drifts = chk.drifts
    BY <1>10 DEF DoesNotAddUp, Bisect, Half, LookBeyond, StartRepair, TypeOK, Check
  <2>2. UNCHANGED <<cursor, cp>> /\ Checking /\ pc # "finish" /\ pc' # "finish"
    BY <1>10 DEF DoesNotAddUp, Behind, Bisect, LookBeyond, StartRepair, Narrowed, Keeping,
         Checking
  <2> QED BY <1>1, <2>1, <2>2
<1>11. CASE CloseRepair
  BY <1>1, <1>11 DEF CloseRepair, Stored, checkVars, Checking
<1>12. NoJob.kind = "none"
  BY DEF NoJob
<1>13. CASE RepairFails \/ Crash
  BY <1>2, <1>12, <1>13 DEF RepairFails, Crash, CrashSync, Checking
<1>14. CASE MarkComplete \/ MarkIncomplete \/ Tell \/ CheckFails
  <2>1. /\ pc \notin {"read", "store", "close"} /\ job' = job
        /\ pc' \in {"idle", "tell"}
    BY <1>14 DEF MarkComplete, MarkIncomplete, Tell, CheckFails, Keeping
  <2>2. job'.kind # "repair"
    BY <2>1 DEF Placed, TypeOK, Job
  <2> QED BY <1>2, <2>1, <2>2 DEF Checking
<1>15. CASE UNCHANGED vars
  BY <1>1, <1>2, <1>15 DEF vars, syncVars, checkVars, Checking
<1> QED
  BY <1>3, <1>4, <1>5, <1>6, <1>7, <1>8, <1>9, <1>10, <1>11, <1>13, <1>14, <1>15
     DEF Next, CheckSteps, SyncSteps, SyncFaults

-----------------------------------------------------------------------------
(* No token transfer is lost from sight.                                      *)

(* Forgetting one run keeps every other. *)
LEMMA RemoveAtKeeps ==
  ASSUME NEW s \in Seq(Run), NEW i \in DOMAIN s, NEW j \in DOMAIN s, j # i
  PROVE  \E k \in DOMAIN RemoveAt(s, i) : RemoveAt(s, i)[k] = s[j]
<1> DEFINE one == SubSeq(s, 1, i - 1)
           two == SubSeq(s, i + 1, Len(s))
<1>1. i \in 1 .. Len(s) /\ j \in 1 .. Len(s) /\ Len(s) \in Nat
  OBVIOUS
<1>2. /\ one \in Seq(Run) /\ Len(one) = i - 1
      /\ \A k \in 1 .. i - 1 : one[k] = s[k]
  BY <1>1, SubSeqProperties
<1>3. /\ two \in Seq(Run) /\ Len(two) = Len(s) - i
      /\ \A k \in 1 .. Len(s) - i : two[k] = s[i + k]
  <2>1. \A k \in i + 1 .. Len(s) : s[k] \in Run
    BY <1>1
  <2> QED BY <1>1, <2>1, SubSeqProperties
<1>4. RemoveAt(s, i) = one \o two
  BY DEF RemoveAt
<1> HIDE DEF one, two
<1>5. /\ one \o two \in Seq(Run) /\ Len(one \o two) = Len(one) + Len(two)
      /\ \A k \in 1 .. Len(one) + Len(two) :
           (one \o two)[k] = IF k <= Len(one) THEN one[k] ELSE two[k - Len(one)]
  BY <1>2, <1>3, ConcatProperties
<1>6. Len(one) + Len(two) = Len(s) - 1
  BY <1>1, <1>2, <1>3
<1>7. DOMAIN (one \o two) = 1 .. Len(s) - 1
  BY <1>5, <1>6
<1>8. \A k \in 1 .. Len(s) - 1 : (one \o two)[k] = IF k <= i - 1 THEN one[k] ELSE two[k - (i - 1)]
  BY <1>2, <1>5, <1>6
<1>9. CASE j < i
  <2>1. j \in 1 .. Len(s) - 1 /\ j \in 1 .. i - 1
    BY <1>1, <1>9
  <2>2. (one \o two)[j] = s[j]
    BY <1>2, <1>8, <2>1
  <2> QED BY <1>4, <1>7, <2>1, <2>2
<1>10. CASE i < j
  <2>1. j - 1 \in 1 .. Len(s) - 1 /\ ~(j - 1 <= i - 1) /\ j - i \in 1 .. Len(s) - i
        /\ (j - 1) - (i - 1) = j - i /\ i + (j - i) = j
    BY <1>1, <1>10
  <2>2. (one \o two)[j - 1] = two[j - i]
    BY <1>8, <2>1
  <2>3. two[j - i] = s[j]
    BY <1>3, <2>1
  <2> QED BY <1>4, <1>7, <2>1, <2>2, <2>3
<1> QED BY <1>1, <1>9, <1>10

(* What a run stands for, whatever becomes of its status. *)
SameRange(s, t) ==
  DOMAIN t = DOMAIN s /\ \A i \in DOMAIN s : t[i].from = s[i].from /\ t[i].to = s[i].to

(* Changing how a run ended leaves the blocks it stands for. *)
LEMMA MarkKeeps ==
  ASSUME NEW s \in Seq(Run), NEW i \in DOMAIN s, NEW st
  PROVE  SameRange(s, [s EXCEPT ![i].status = st])
<1>1. \A j \in DOMAIN s : s[j] \in Run
  OBVIOUS
<1> QED BY <1>1 DEF SameRange, Run

(* A step that neither reads, nor moves the cursor, nor touches a run. *)
LEMMA QuietKeepsRecord ==
  ASSUME RecordInv, UNCHANGED <<raw, cursor, origin, runs, job>>,
         pc' = pc \/ pc' \notin {"read", "store", "close"}, pc # "close" \/ pc' = pc
  PROVE  RecordInv'
<1> USE DEF RecordInv
<1>1. TokensOnRecord' /\ RowIsJob' /\ NoGap'
  BY DEF TokensOnRecord, OnRecord, RowIsJob, NoGap
<1>2. CleanIsStored'
  BY DEF CleanIsStored, Clean, InJob
<1>3. RecordedBefore'
  BY DEF RecordedBefore, OnOtherRecord, InJob
<1> QED BY <1>1, <1>2, <1>3

(* A job is given up, or its run kept: nothing that stood for blocks is gone. *)
LEMMA EndKeepsRecord ==
  ASSUME RecordInv, job' = NoJob, pc' \notin {"read", "store", "close"},
         UNCHANGED <<cursor, origin>>, raw \subseteq raw', SameRange(runs, runs')
  PROVE  RecordInv'
<1> USE DEF RecordInv
<1>1. TokensOnRecord'
  <2>1. \A m \in OfKind("token") : OnRecord(m) => OnRecord(m)'
    BY DEF OnRecord, SameRange
  <2> QED BY <2>1 DEF TokensOnRecord
<1>2. NoJob.kind = "none"
  BY DEF NoJob
<1> QED BY <1>1, <1>2 DEF RowIsJob, NoGap, CleanIsStored, RecordedBefore

(* A run is forgotten, and what it stood for is stored or stood for by another. *)
LEMMA ForgetKeepsRecord ==
  ASSUME LedgerInv, RecordInv, job' = NoJob, pc' \notin {"read", "store", "close"},
         UNCHANGED <<raw, cursor, origin>>,
         job.run \in DOMAIN runs, runs' = RemoveAt(runs, job.run),
         \A m \in OfKind("token") :
           cursor # Never /\ BlockOf[m] \in origin .. cursor => m \in raw \/ OnOtherRecord(m)
  PROVE  RecordInv'
<1> USE DEF RecordInv
<1>1. runs \in Seq(Run)
  BY DEF LedgerInv, TypeOK
<1>2. \A m \in OfKind("token") : OnOtherRecord(m) => OnRecord(m)'
  BY <1>1, RemoveAtKeeps DEF OnOtherRecord, OnRecord
<1>3. TokensOnRecord'
  BY <1>2 DEF TokensOnRecord
<1>4. NoJob.kind = "none"
  BY DEF NoJob
<1> QED BY <1>3, <1>4 DEF RowIsJob, NoGap, CleanIsStored, RecordedBefore

(* A new run is recorded before its range is read. *)
LEMMA OpenKeepsRecord ==
  ASSUME LedgerInv, RecordInv, NEW kind \in {"sync", "repair"},
         NEW from \in Blocks, NEW to \in Blocks,
         kind = "sync" /\ cursor # Never => from <= cursor + 1,
         job' = Reading(kind, Len(runs) + 1, from, to),
         runs' = Append(runs, [from |-> from, to |-> to, status |-> "running"]),
         pc' = "read", UNCHANGED <<raw, cursor, origin>>
  PROVE  RecordInv'
<1> USE DEF RecordInv
<1>1. runs \in Seq(Run) /\ Len(runs) \in Nat /\ DOMAIN runs = 1 .. Len(runs)
  BY DEF LedgerInv, TypeOK
<1>2. /\ DOMAIN runs' = 1 .. Len(runs) + 1
      /\ \A i \in DOMAIN runs : runs'[i] = runs[i]
      /\ runs'[Len(runs) + 1] = [from |-> from, to |-> to, status |-> "running"]
  BY <1>1
<1>3. job'.kind = kind /\ job'.run = Len(runs) + 1 /\ job'.from = from /\ job'.to = to
  BY DEF Reading, NoJob
<1>4. ASSUME NEW m \in OfKind("token"), OnRecord(m) PROVE OnRecord(m)' /\ OnOtherRecord(m)'
  <2>1. PICK i \in DOMAIN runs : runs[i].from <= BlockOf[m] /\ BlockOf[m] <= runs[i].to
    BY <1>4 DEF OnRecord
  <2>2. i \in DOMAIN runs' /\ i # Len(runs) + 1 /\ runs'[i] = runs[i]
    BY <1>1, <1>2
  <2> QED BY <1>3, <2>1, <2>2 DEF OnRecord, OnOtherRecord
<1>5. TokensOnRecord' /\ RecordedBefore'
  BY <1>4 DEF TokensOnRecord, RecordedBefore
<1>6. RowIsJob'
  BY <1>2, <1>3 DEF RowIsJob
<1>7. NoGap' /\ CleanIsStored'
  BY <1>3 DEF NoGap, CleanIsStored
<1> QED BY <1>5, <1>6, <1>7

(* The window of a sync begins no later than after the cursor. *)
LEMMA WindowMeets ==
  ASSUME TypeOK, cursor # Never PROVE FromBlock <= cursor + 1
BY BlocksAssumption DEF TypeOK, FromBlock, Blocks

(* Every step keeps the account of what was read. *)
LEMMA RecordStep ==
  ASSUME LedgerInv, RecordInv, [Next]_vars PROVE RecordInv'
<1> USE DEF RecordInv
<1>t. TypeOK /\ Placed
  BY DEF LedgerInv
<1>k. \A m \in OfKind("token") : m \in Moves /\ BlockOf[m] \in Int
  BY MovesAssumption, BlocksAssumption DEF OfKind
<1>r. runs \in Seq(Run)
  BY <1>t DEF TypeOK
<1>1. CASE NewBlock /\ UNCHANGED checkVars
  BY <1>1, QuietKeepsRecord DEF NewBlock
<1>2. CASE BeginSync /\ UNCHANGED checkVars
  <2>1. FromBlock \in Blocks /\ LastBlock \in Blocks
    BY <1>2, <1>t, WindowType DEF BeginSync
  <2>2. cursor # Never => FromBlock <= cursor + 1
    BY <1>t, WindowMeets
  <2> QED BY <1>2, <2>1, <2>2, OpenKeepsRecord DEF BeginSync
<1>3. CASE (NothingNew \/ NothingDegraded) /\ UNCHANGED checkVars
  BY <1>3, QuietKeepsRecord DEF NothingNew, NothingDegraded
<1>4. CASE ReadRange /\ UNCHANGED checkVars
  <2>1. PICK found \in SUBSET Within(job.from, tip), degraded \in BOOLEAN :
          /\ Found(found, degraded)
          /\ job' = [job EXCEPT !.found = found, !.todo = found, !.degraded = degraded]
    BY <1>4 DEF ReadRange
  <2>2. /\ job'.kind = job.kind /\ job'.run = job.run /\ job'.from = job.from
        /\ job'.to = job.to /\ job'.todo = found /\ job'.degraded = degraded
        /\ job'.failed = job.failed
    BY <1>t, <2>1 DEF TypeOK, Job
  <2>3. /\ UNCHANGED <<raw, cursor, origin, runs>> /\ pc = "read" /\ pc' = "store"
    BY <1>4 DEF ReadRange
  <2>4. TokensOnRecord' /\ RowIsJob' /\ NoGap'
    BY <2>2, <2>3 DEF TokensOnRecord, OnRecord, RowIsJob, NoGap
  <2>5. CleanIsStored'
    <3>1. ASSUME ~degraded, NEW m \in OfKind("token"), InJob(m)' PROVE m \in found
      <4>1. m \in TokenLogs
        BY <1>k, <2>2, <3>1 DEF InJob, TokenLogs, Within
      <4> QED BY <2>1, <3>1, <4>1 DEF Found
    <3> QED BY <2>2, <2>3, <3>1 DEF CleanIsStored, Clean
  <2>6. RecordedBefore'
    BY <2>2, <2>3 DEF RecordedBefore, OnOtherRecord
  <2> QED BY <2>4, <2>5, <2>6
<1>5. ASSUME NEW n \in Moves, Store(n) \/ StoreFails(n), UNCHANGED checkVars PROVE RecordInv'
  <2>1. /\ UNCHANGED <<cursor, origin, runs, pc>> /\ pc = "store" /\ raw \subseteq raw'
        /\ job'.kind = job.kind /\ job'.run = job.run /\ job'.from = job.from
        /\ job'.to = job.to /\ job'.degraded = job.degraded
    <3>1. CASE Store(n)
      BY <1>t, <3>1 DEF Store, TypeOK, Job
    <3>2. CASE StoreFails(n)
      BY <1>t, <3>2 DEF StoreFails, TypeOK, Job
    <3> QED BY <1>5, <3>1, <3>2
  <2>2. ~job'.failed => ~job.failed /\ raw' = raw \cup {n} /\ job'.todo = job.todo \ {n}
    <3>1. CASE Store(n)
      BY <1>t, <3>1 DEF Store, TypeOK, Job
    <3>2. CASE StoreFails(n)
      BY <1>t, <3>2 DEF StoreFails, TypeOK, Job
    <3> QED BY <1>5, <3>1, <3>2
  <2>3. TokensOnRecord' /\ RowIsJob' /\ NoGap'
    BY <2>1 DEF TokensOnRecord, OnRecord, RowIsJob, NoGap
  <2>4. CleanIsStored'
    BY <2>1, <2>2 DEF CleanIsStored, Clean, InJob
  <2>5. RecordedBefore'
    BY <2>1 DEF RecordedBefore, OnOtherRecord
  <2> QED BY <2>3, <2>4, <2>5
<1>6. CASE AdvanceCursor /\ UNCHANGED checkVars
  <2>1. /\ UNCHANGED <<raw, runs, job>> /\ pc = "store" /\ pc' = "close"
        /\ job.kind = "sync" /\ job.todo = {} /\ job.run \in DOMAIN runs
    BY <1>6, <1>t DEF AdvanceCursor, Stored, Placed
  <2>2. runs[job.run].from = job.from /\ runs[job.run].to = job.to
    BY <2>1 DEF RowIsJob
  <2>3. RowIsJob' /\ NoGap'
    BY <2>1 DEF RowIsJob, NoGap
  <2>4. CleanIsStored'
    BY <2>1 DEF CleanIsStored, Clean, InJob
  <2>5. CASE job.failed
    <3>1. cursor' = cursor /\ origin' = origin
      BY <1>6, <2>5 DEF AdvanceCursor, Advances
    <3>2. TokensOnRecord'
      BY <2>1, <3>1 DEF TokensOnRecord, OnRecord
    <3>3. RecordedBefore'
      BY <2>1, <3>1 DEF RecordedBefore, OnOtherRecord
    <3> QED BY <2>3, <2>4, <3>2, <3>3
  <2>6. CASE ~job.failed
    <3>1. cursor' = job.to /\ origin' = IF cursor = Never THEN job.from ELSE origin
      BY <1>6, <2>6 DEF AdvanceCursor, Advances
    <3>2. ASSUME NEW m \in OfKind("token"), BlockOf[m] \in origin' .. cursor'
          PROVE  m \in raw \/ OnOtherRecord(m) \/ InJob(m)
      <4>1. BlockOf[m] \in Int /\ job.from \in Int /\ job.to \in Int
            /\ cursor \in Int /\ origin \in Int
        BY <1>k, <1>t, BlocksAssumption DEF TypeOK, Job, Blocks
      <4>2. CASE cursor = Never
        BY <3>1, <3>2, <4>1, <4>2 DEF InJob
      <4>3. CASE cursor # Never /\ BlockOf[m] <= cursor
        <5>1. BlockOf[m] \in origin .. cursor
          BY <3>1, <3>2, <4>1, <4>3
        <5> QED BY <2>1, <4>3, <5>1 DEF RecordedBefore
      <4>4. CASE cursor # Never /\ cursor < BlockOf[m]
        <5>1. job.from <= cursor + 1
          BY <2>1, <4>4 DEF NoGap
        <5> QED BY <3>1, <3>2, <4>1, <4>4, <5>1 DEF InJob
      <4> QED BY <4>1, <4>2, <4>3, <4>4
    <3>3. \A m \in OfKind("token") : OnOtherRecord(m) \/ InJob(m) => OnRecord(m)'
      BY <2>1, <2>2 DEF OnOtherRecord, InJob, OnRecord
    <3>4. TokensOnRecord'
      BY <2>1, <3>2, <3>3 DEF TokensOnRecord
    <3>5. RecordedBefore'
      BY <2>1, <2>6, <3>2 DEF RecordedBefore, OnOtherRecord, InJob
    <3> QED BY <2>3, <2>4, <3>4, <3>5
  <2> QED BY <2>5, <2>6
<1>7. ASSUME job.run \in DOMAIN runs, runs' = Closed(job.run), job' = NoJob,
             UNCHANGED <<raw, cursor, origin>>, pc' \notin {"read", "store", "close"},
             job.kind \in {"sync", "repair"}, pc \in {"store", "close"}, job.todo = {}
      PROVE  RecordInv'
  <2>1. CASE job.degraded
    <3>1. SameRange(runs, runs')
      BY <1>7, <1>r, <2>1, MarkKeeps DEF Closed
    <3> QED BY <1>7, <3>1, EndKeepsRecord
  <2>2. CASE ~job.degraded
    <3>1. runs' = RemoveAt(runs, job.run)
      BY <1>7, <2>2 DEF Closed
    <3>2. ASSUME NEW m \in OfKind("token"), cursor # Never, BlockOf[m] \in origin .. cursor
          PROVE  m \in raw \/ OnOtherRecord(m)
      <4>1. ~job.failed /\ InJob(m) => m \in raw
        BY <1>7, <2>2 DEF CleanIsStored, Clean
      <4> QED BY <1>7, <3>2, <4>1 DEF RecordedBefore
    <3> QED BY <1>7, <3>1, <3>2, ForgetKeepsRecord
  <2> QED BY <2>1, <2>2
<1>8. CASE CloseSync /\ UNCHANGED checkVars
  <2>1. job.run \in DOMAIN runs /\ job.kind = "sync"
    BY <1>8, <1>t DEF CloseSync, Placed
  <2>2. job.todo = {}
    BY <1>8 DEF CloseSync, CleanIsStored
  <2> QED BY <1>8, <1>7, <2>1, <2>2 DEF CloseSync
<1>9. CASE CloseRepair
  <2>1. job.run \in DOMAIN runs
    BY <1>9, <1>t DEF CloseRepair, Stored, Placed
  <2> QED BY <1>9, <1>7, <2>1 DEF CloseRepair, Stored
<1>10. CASE BeginRescan /\ UNCHANGED checkVars
  <2>1. PICK i \in Degraded : job' = Reading("rescan", i, runs[i].from, runs[i].to)
    BY <1>10 DEF BeginRescan
  <2>2. /\ job'.kind = "rescan" /\ job'.run = i /\ job'.from = runs[i].from
        /\ job'.to = runs[i].to
    BY <2>1 DEF Reading, NoJob
  <2>3. UNCHANGED <<raw, cursor, origin, runs>> /\ pc' = "read"
    BY <1>10 DEF BeginRescan
  <2>4. TokensOnRecord' /\ RowIsJob'
    BY <2>2, <2>3 DEF TokensOnRecord, OnRecord, RowIsJob
  <2> QED BY <2>2, <2>3, <2>4 DEF NoGap, CleanIsStored, RecordedBefore
<1>11. CASE CloseRescan /\ UNCHANGED checkVars
  <2>1. /\ job' = NoJob /\ pc' = "idle" /\ UNCHANGED <<raw, cursor, origin>>
        /\ job.run \in DOMAIN runs /\ pc = "store" /\ job.todo = {}
    BY <1>11, <1>t DEF CloseRescan, Stored, Placed
  <2>2. CASE ~Clean
    <3>1. SameRange(runs, runs')
      BY <1>11, <2>2 DEF CloseRescan, SameRange
    <3> QED BY <2>1, <3>1, EndKeepsRecord
  <2>3. CASE Clean
    <3>1. runs' = RemoveAt(runs, job.run)
      BY <1>11, <2>3 DEF CloseRescan
    <3>2. ASSUME NEW m \in OfKind("token"), cursor # Never, BlockOf[m] \in origin .. cursor
          PROVE  m \in raw \/ OnOtherRecord(m)
      <4>1. InJob(m) => m \in raw
        BY <2>1, <2>3 DEF CleanIsStored
      <4>2. m \in raw \/ OnRecord(m)
        BY <3>2 DEF TokensOnRecord
      <4>3. runs[job.run].from = job.from /\ runs[job.run].to = job.to
        BY <2>1 DEF RowIsJob
      <4> QED BY <4>1, <4>2, <4>3 DEF OnRecord, OnOtherRecord, InJob
    <3> QED BY <2>1, <3>1, <3>2, ForgetKeepsRecord
  <2> QED BY <2>2, <2>3
<1>12. CASE (SyncFails /\ UNCHANGED checkVars) \/ RepairFails
  <2>1. /\ job' = NoJob /\ pc' = "idle" /\ UNCHANGED <<raw, cursor, origin>>
        /\ runs' = [runs EXCEPT ![job.run].status = "failed"]
        /\ pc \in {"read", "store", "close"}
    BY <1>12 DEF SyncFails, RepairFails, Stored
  <2>2. job.run \in DOMAIN runs
    BY <1>t, <2>1 DEF Placed
  <2>3. SameRange(runs, runs')
    BY <1>r, <2>1, <2>2, MarkKeeps
  <2> QED BY <2>1, <2>3, EndKeepsRecord
<1>13. CASE (RescanFails /\ UNCHANGED checkVars) \/ Crash
  <2>1. /\ job' = NoJob /\ pc' = "idle" /\ UNCHANGED <<cursor, origin, runs>>
        /\ raw \subseteq raw'
    BY <1>13 DEF RescanFails, Crash, CrashSync
  <2>2. SameRange(runs, runs')
    BY <2>1 DEF SameRange
  <2> QED BY <2>1, <2>2, EndKeepsRecord
<1>14. CASE StartRepair
  <2>1. chk.hi \in Blocks
    BY <1>t DEF TypeOK, Check
  <2> QED BY <1>14, <2>1, OpenKeepsRecord DEF StartRepair
<1>15. CASE BeginCheck \/ OpenCheckpoint \/ DoesNotAddUp \/ Bisect \/ LookBeyond
            \/ MarkComplete \/ MarkIncomplete \/ Tell
  <2>1. UNCHANGED <<raw, cursor, origin, runs, job>>
    BY <1>15 DEF BeginCheck, OpenCheckpoint, DoesNotAddUp, Bisect, LookBeyond,
         MarkComplete, MarkIncomplete, Tell, Keeping
  <2>2. /\ pc \notin {"read", "store", "close"}
        /\ pc' \notin {"read", "store", "close"}
    BY <1>15 DEF BeginCheck, OpenCheckpoint, DoesNotAddUp, Behind, Bisect, LookBeyond,
         MarkComplete, MarkIncomplete, Tell
  <2> QED BY <2>1, <2>2, QuietKeepsRecord
<1>16. CASE AlreadyThere \/ AddsUp \/ Repaired \/ Drift
  <2>1. UNCHANGED <<raw, cursor, origin, runs, job>>
    BY <1>16 DEF AlreadyThere, AddsUp, Repaired, Drift, Keeping
  <2>2. /\ pc \notin {"read", "store", "close"}
        /\ pc' \notin {"read", "store", "close"}
    BY <1>16 DEF AlreadyThere, AddsUp, Behind, Repaired, Drift, Narrowed, NextAsset
  <2> QED BY <2>1, <2>2, QuietKeepsRecord
<1>17. CASE CheckFails
  BY <1>17, QuietKeepsRecord DEF CheckFails
<1>18. CASE UNCHANGED vars
  BY <1>18, QuietKeepsRecord DEF vars, syncVars, checkVars
<1> QED
  BY <1>1, <1>2, <1>3, <1>4, <1>5, <1>6, <1>8, <1>9, <1>10, <1>11, <1>12, <1>13, <1>14,
     <1>15, <1>16, <1>17, <1>18 DEF Next, CheckSteps, SyncSteps, SyncFaults

-----------------------------------------------------------------------------
(* The theorems.                                                              *)

(* The initial state satisfies the invariant. *)
LEMMA InitInv == Init => LedgerInv
<1> SUFFICES ASSUME Init PROVE LedgerInv
  OBVIOUS
<1>1. 0 \in Blocks /\ FirstTip \in FirstTip .. MaxBlock /\ MaxFaults \in 0 .. MaxFaults
  BY BlocksAssumption DEF Blocks
<1>2. TypeOK
  <2>1. /\ tip \in FirstTip .. MaxBlock /\ raw \subseteq Moves
        /\ cursor \in Blocks /\ origin \in Blocks /\ since \in Blocks
        /\ faults \in 0 .. MaxFaults /\ alerts \subseteq Blocks
    BY <1>1 DEF Init, SyncInit, Never
  <2>2. books \in [Moves -> {"absent", "in", "evidence"}] /\ runs \in Seq(Run)
    BY DEF Init, SyncInit
  <2>3. job \in Job /\ chk \in Check
    BY CheckType, JobType DEF Init, SyncInit
  <2>4. cp \in [Assets -> Checkpoint \cup {NoCheckpoint}]
    BY DEF Init
  <2>5. pc = "idle" /\ ledger = "unknown"
    BY DEF Init, SyncInit
  <2> QED BY <2>1, <2>2, <2>3, <2>4, <2>5 DEF TypeOK
<1>3. NoJob.kind = "none" /\ NoJob.todo = {}
  BY DEF NoJob
<1>4. Placed /\ CheckpointsTrue /\ LoProven
  BY <1>3 DEF Init, SyncInit, Placed, CheckpointsTrue, LoProven
<1> QED BY <1>2, <1>4 DEF LedgerInv

(* The invariant holds of every behaviour: the state keeps its shape, the      *)
(* worker is where its job says, checkpoints are true and lo is proven.        *)
THEOREM LedgerInvariant == Spec => []LedgerInv
<1>1. LedgerInv /\ [Next]_vars => LedgerInv'
  BY TypeStep, PlacedStep, CheckpointsStep, LoProvenStep DEF LedgerInv
<1> QED BY InitInv, <1>1, PTL DEF Spec

(* Every state of the ledger is well formed. *)
THEOREM LedgerTypes == Spec => []TypeOK
<1>1. LedgerInv => TypeOK
  BY DEF LedgerInv
<1> QED BY LedgerInvariant, <1>1, PTL

(* For every wallet, chain and sequence of failures: the balance a checkpoint   *)
(* records is the chain's at its block (reconcile.ts, saveCheckpoint).          *)
THEOREM TrueCheckpoints == Spec => []CheckpointsTrue
<1>1. LedgerInv => CheckpointsTrue
  BY DEF LedgerInv
<1> QED BY LedgerInvariant, <1>1, PTL

(* No step, not even the one that keeps progress before a gap, moves a         *)
(* checkpoint back (reconcile.ts, reconcileAsset).                             *)
THEOREM ForwardCheckpoints == Spec => CheckpointsForward
<1>1. LedgerInv /\ [Next]_vars => [\A a \in Assets : cp[a].block <= cp'[a].block]_vars
  BY CheckpointsStep
<1> QED BY LedgerInvariant, <1>1, PTL DEF Spec, CheckpointsForward

(* The check's own account, on top of the invariant. *)
LEMMA ProvenInvariant == Spec => []ProvenSoFar
<1>1. Init => WithinCursor /\ ProvenSoFar
  <2> SUFFICES ASSUME Init PROVE WithinCursor /\ ProvenSoFar
    OBVIOUS
  <2>1. NoJob.kind = "none"
    BY DEF NoJob
  <2>2. \A a \in Assets : cp[a].block = -1
    BY DEF Init, NoCheckpoint
  <2> QED BY <2>1, <2>2 DEF Init, SyncInit, Never, WithinCursor, ProvenSoFar, Checking
<1>2. LedgerInv /\ (WithinCursor /\ ProvenSoFar) /\ [Next]_vars => (WithinCursor /\ ProvenSoFar)'
  BY WithinCursorStep, ProvenSoFarStep
<1> QED BY LedgerInvariant, <1>1, <1>2, PTL DEF Spec

(* Books become complete only when every asset's checkpoint is the chain's     *)
(* balance at the cursor: an asset that drifted, or that no step looked at,     *)
(* keeps them from it (reconcile.ts, reconcileWallet).                         *)
THEOREM CompleteAlwaysProven == Spec => CompleteIsProven
<1> DEFINE Proof == pc = "finish" /\ pc' = "idle" /\ faults' = faults /\ ledger' = "complete" =>
                      \A a \in Assets :
                        cp[a] = [block |-> cursor, balance |-> ChainBalance[a][cursor]]
<1>1. LedgerInv /\ ProvenSoFar /\ [Next]_vars => [Proof]_vars
  <2> SUFFICES ASSUME LedgerInv, ProvenSoFar, Next, pc = "finish", pc' = "idle",
                      faults' = faults, ledger' = "complete",
                      NEW a \in Assets
               PROVE  cp[a] = [block |-> cursor, balance |-> ChainBalance[a][cursor]]
    OBVIOUS
  <2> USE DEF LedgerInv
  <2>1. ~Fault
    BY DEF Fault, TypeOK
  <2>2. MarkComplete
    BY <2>1 DEF Next, NewBlock, SyncSteps, BeginSync, NothingNew, ReadRange, AdvanceCursor,
         CloseSync, BeginRescan, NothingDegraded, CloseRescan, Store, Stored, SyncFaults,
         SyncFails, RescanFails, StoreFails, BeginCheck, CheckSteps, OpenCheckpoint,
         AlreadyThere, AddsUp, Behind, DoesNotAddUp, Bisect, StartRepair, Narrowed,
         CloseRepair, Repaired, LookBeyond, Drift, MarkIncomplete, Tell, CheckFails,
         RepairFails, Crash, CrashSync
  <2>3. PICK i \in 1 .. Len(LedgerAssets) : LedgerAssets[i] = a
    BY DEF Assets
  <2>4. cp[a].block = cursor
    BY <2>2, <2>3 DEF MarkComplete, NoDrift, ProvenSoFar, Checking, Looked
  <2>5. cp[a] # NoCheckpoint
    BY <2>4, BlocksAssumption DEF NoCheckpoint, TypeOK, Blocks
  <2>6. cp[a] \in Checkpoint /\ cp[a].balance = ChainBalance[a][cursor]
    BY <2>4, <2>5 DEF TypeOK, CheckpointsTrue
  <2> QED BY <2>4, <2>6 DEF Checkpoint
<1> QED BY LedgerInvariant, ProvenInvariant, <1>1, PTL DEF Spec, CompleteIsProven

(* For every wallet, chain and sequence of misses, failures and crashes: a     *)
(* token transfer the cursor has passed is stored, or a run that covers its    *)
(* block is still on record to be read again (ingest.ts, syncWallet and        *)
(* rescanDegradedRange).                                                       *)
THEOREM TokensStayOnRecord == Spec => []TokensOnRecord
<1>1. Init => RecordInv
  <2> SUFFICES ASSUME Init PROVE RecordInv
    OBVIOUS
  <2>1. NoJob.kind = "none" /\ pc = "idle" /\ job = NoJob /\ cursor = Never
    BY DEF Init, SyncInit, NoJob
  <2> QED BY <2>1 DEF RecordInv, TokensOnRecord, RowIsJob, NoGap, CleanIsStored, RecordedBefore
<1>2. LedgerInv /\ RecordInv /\ [Next]_vars => RecordInv'
  BY RecordStep
<1>3. RecordInv => TokensOnRecord
  BY DEF RecordInv
<1> QED BY LedgerInvariant, <1>1, <1>2, <1>3, PTL DEF Spec
=============================================================================
