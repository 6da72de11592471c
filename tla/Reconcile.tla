------------------------------ MODULE Reconcile ------------------------------
(***************************************************************************)
(* The hourly balance check of one wallet, run by the worker between syncs:  *)
(* for each asset, the chain's balance at the cursor must be the balance at  *)
(* the last checkpoint plus what was recorded in between.  When it is not,   *)
(* the check bisects to a block where the two part, reads that block again   *)
(* and goes on; what stays unexplained makes the ledger incomplete, and its  *)
(* owner is told.                                                          *)
(***************************************************************************)
EXTENDS Sync, Functions

CONSTANTS
  LedgerAssets,  \* LEDGER_ASSETS, in order
  AssetOf,       \* the asset each movement moves
  Amount,        \* what it adds to the wallet's balance, as reported
  ChainBalance,  \* the chain's own answer, asset by asset and block by block
  MaxRepairs     \* MAX_REPAIRS_PER_ASSET

Assets == {LedgerAssets[i] : i \in 1 .. Len(LedgerAssets)}

ASSUME AssetsAssumption ==
  /\ LedgerAssets \in Seq(Assets) /\ LedgerAssets # <<>>
  /\ AssetOf \in [Moves -> Assets] /\ Amount \in [Moves -> Int]
  /\ MaxRepairs \in Nat
ASSUME BalanceAssumption == ChainBalance \in [Assets -> [Blocks -> Int]]

(* What the chain did: the real movements, and nothing else, change a balance. *)
ASSUME ChainAssumption ==
  \A a \in Assets, b \in Blocks :
    ChainBalance[a][b] = ChainBalance[a][0]
      + SumFunctionOnSet(Amount, {m \in Real : AssetOf[m] = a /\ BlockOf[m] <= b})

VARIABLES
  cp,      \* ledger_checkpoints, by asset
  ledger,  \* watch_jobs.ledger_status
  since,   \* watch_jobs.incomplete_since_block
  alerts,  \* the drift blocks the owner was told of
  chk      \* the check under way

checkVars == <<cp, ledger, since, alerts, chk>>
vars == <<syncVars, checkVars>>

Checkpoint == [block: Blocks, balance: Int]
NoCheckpoint == [block |-> -1, balance |-> 0]
Check == [at: Nat, lo: Blocks, hi: Blocks, tries: Nat, before: SUBSET Moves,
          drifts: SUBSET Blocks]
NoCheck == [at |-> 0, lo |-> 0, hi |-> 0, tries |-> 0, before |-> {}, drifts |-> {}]

-----------------------------------------------------------------------------
(* ledgerDelta: the recorded change in (from, to].  A transfer of a transaction *)
(* whose receipt says it failed did not happen.                                *)
Counted(known, a, from, to) ==
  {m \in known : /\ AssetOf[m] = a
                 /\ from < BlockOf[m] /\ BlockOf[m] <= to
                 /\ ~(m \in Reverted /\ ReceiptOf[m] \in known)}
LedgerDelta(known, a, from, to) == SumFunctionOnSet(Amount, Counted(known, a, from, to))

(* openingBlock: one before the first recorded activity. *)
OpeningBlock ==
  CHOOSE b \in {cursor} \cup {BlockOf[m] - 1 : m \in raw} :
    \A c \in {cursor} \cup {BlockOf[m] - 1 : m \in raw} : b <= c

Asset == LedgerAssets[chk.at]
(* A bug: a checkpoint of nothing is taken for no checkpoint. *)
OpenedUnlessEmpty == cp[Asset] # NoCheckpoint /\ cp[Asset].balance # 0
Opened == cp[Asset] # NoCheckpoint

(* expectedAt, from the evidence known; Adds when the chain agrees. *)
Expected(known, block) ==
  cp[Asset].balance + LedgerDelta(known, Asset, cp[Asset].block, block)
Adds(block) == Expected(raw, block) = ChainBalance[Asset][block]

Save(block, balance) ==
  cp' = [cp EXCEPT ![Asset] = [block |-> block, balance |-> balance]]
NextAsset(drifts) ==
  /\ chk' = [NoCheck EXCEPT !.at = IF chk.at = Len(LedgerAssets) THEN 0 ELSE chk.at + 1,
                            !.drifts = drifts]
  /\ pc' = IF chk.at = Len(LedgerAssets) THEN "finish" ELSE "asset"
Keeping == UNCHANGED <<tip, raw, books, cursor, origin, runs, job, faults>>

-----------------------------------------------------------------------------
(* reconcileWallet and reconcileAsset. *)
BeginCheck ==
  /\ pc = "idle" /\ cursor # Never
  /\ chk' = [NoCheck EXCEPT !.at = 1]
  /\ pc' = "asset"
  /\ Keeping /\ UNCHANGED <<cp, ledger, since, alerts>>

OpenCheckpoint ==
  /\ pc = "asset" /\ ~Opened
  /\ Save(OpeningBlock, ChainBalance[Asset][OpeningBlock])
  /\ Keeping /\ UNCHANGED <<pc, ledger, since, alerts, chk>>

AlreadyThere ==
  /\ pc = "asset" /\ Opened /\ cp[Asset].block >= cursor
  /\ NextAsset(chk.drifts)
  /\ Keeping /\ UNCHANGED <<cp, ledger, since, alerts>>

Behind == pc = "asset" /\ Opened /\ cp[Asset].block < cursor
AddsUp ==
  /\ Behind /\ Adds(cursor)
  /\ Save(cursor, ChainBalance[Asset][cursor])
  /\ NextAsset(chk.drifts)
  /\ Keeping /\ UNCHANGED <<ledger, since, alerts>>

DoesNotAddUp ==
  /\ Behind /\ ~Adds(cursor)
  /\ chk' = [chk EXCEPT !.lo = cp[Asset].block, !.hi = cursor]
  /\ pc' = "bisect"
  /\ Keeping /\ UNCHANGED <<cp, ledger, since, alerts>>

(* firstMismatch: the books match the chain at lo and not at hi. *)
Middle == (chk.lo + chk.hi) \div 2
Half == IF Adds(Middle) THEN [chk EXCEPT !.lo = Middle] ELSE [chk EXCEPT !.hi = Middle]
Bisect ==
  /\ pc = "bisect" /\ chk.hi - chk.lo > 1
  /\ chk' = Half
  /\ Keeping /\ UNCHANGED <<pc, cp, ledger, since, alerts>>

Narrowed == pc = "bisect" /\ chk.hi - chk.lo <= 1

(* repairBlock: the block is read again under a run of its own. *)
StartRepair ==
  /\ Narrowed /\ chk.tries < MaxRepairs
  /\ runs' = Append(runs, [from |-> chk.hi, to |-> chk.hi, status |-> "running"])
  /\ job' = Reading("repair", Len(runs) + 1, chk.hi, chk.hi)
  /\ chk' = [chk EXCEPT !.tries = @ + 1, !.before = raw]
  /\ pc' = "read"
  /\ UNCHANGED <<tip, raw, books, cursor, origin, faults, cp, ledger, since, alerts>>

(* What could not be stored is counted on the run, and changes nothing else. *)
CloseRepair ==
  /\ Stored("repair")
  /\ runs' = Closed(job.run)
  /\ job' = NoJob /\ pc' = "repaired"
  /\ UNCHANGED <<tip, raw, books, cursor, origin, faults>> /\ UNCHANGED checkVars

Repaired ==
  /\ pc = "repaired" /\ Adds(cursor)
  /\ Save(cursor, ChainBalance[Asset][cursor])
  /\ NextAsset(chk.drifts)
  /\ Keeping /\ UNCHANGED <<ledger, since, alerts>>

FoundNothing == Expected(raw, cursor) = Expected(chk.before, cursor)

(* Something was recovered: look beyond this block if it adds up now, or read *)
(* it once more.                                                              *)
LookBeyond ==
  /\ pc = "repaired" /\ ~Adds(cursor) /\ ~FoundNothing
  /\ chk' = IF Adds(chk.hi) THEN [chk EXCEPT !.lo = chk.hi, !.hi = cursor] ELSE chk
  /\ pc' = "bisect"
  /\ Keeping /\ UNCHANGED <<cp, ledger, since, alerts>>

(* The gap stays: what comes before it is proven, and kept. *)
(* A bug: the checkpoint is saved past the gap. *)
ProvenPastGap == chk.hi
Proven == chk.lo
Drift ==
  /\ \/ Narrowed /\ chk.tries >= MaxRepairs
     \/ pc = "repaired" /\ ~Adds(cursor) /\ FoundNothing
  /\ Save(Proven, Expected(raw, Proven))
  /\ NextAsset(chk.drifts \cup {chk.hi})
  /\ Keeping /\ UNCHANGED <<ledger, since, alerts>>

-----------------------------------------------------------------------------
(* The wallet's status, once every asset was looked at. *)
(* A bug: an asset that drifts is forgotten. *)
NoDriftEver == TRUE
NoDrift == chk.drifts = {}
MarkComplete ==
  /\ pc = "finish" /\ NoDrift
  /\ ledger' = "complete" /\ since' = Never
  /\ chk' = NoCheck /\ pc' = "idle"
  /\ Keeping /\ UNCHANGED <<cp, alerts>>

FirstDrift == CHOOSE b \in chk.drifts : \A c \in chk.drifts : b <= c
AlreadyTold == ledger = "incomplete" /\ since = FirstDrift
MarkIncomplete ==
  /\ pc = "finish" /\ ~NoDrift
  /\ ledger' = "incomplete" /\ since' = FirstDrift
  /\ pc' = IF AlreadyTold THEN "idle" ELSE "tell"
  /\ chk' = NoCheck
  /\ Keeping /\ UNCHANGED <<cp, alerts>>
Tell ==
  /\ pc = "tell"
  /\ alerts' = alerts \cup {since}
  /\ pc' = "idle"
  /\ Keeping /\ UNCHANGED <<cp, ledger, since, chk>>

-----------------------------------------------------------------------------
(* A provider or a statement that fails ends the check where it stands. *)
CheckFails ==
  /\ pc \in {"asset", "bisect", "repaired", "finish", "tell"} /\ Fault
  /\ chk' = NoCheck /\ pc' = "idle"
  /\ UNCHANGED <<tip, raw, books, cursor, origin, runs, job, cp, ledger, since, alerts>>

RepairFails ==
  /\ job.kind = "repair" /\ (pc = "read" \/ Stored("repair")) /\ Fault
  /\ runs' = [runs EXCEPT ![job.run].status = "failed"]
  /\ job' = NoJob /\ chk' = NoCheck /\ pc' = "idle"
  /\ UNCHANGED <<tip, raw, books, cursor, origin, cp, ledger, since, alerts>>

Crash == CrashSync /\ chk' = NoCheck /\ UNCHANGED <<cp, ledger, since, alerts>>

-----------------------------------------------------------------------------
Init ==
  /\ SyncInit
  /\ cp = [a \in Assets |-> NoCheckpoint]
  /\ ledger = "unknown" /\ since = Never
  /\ alerts = {}
  /\ chk = NoCheck

CheckSteps ==
  \/ OpenCheckpoint \/ AlreadyThere \/ AddsUp \/ DoesNotAddUp \/ Bisect
  \/ StartRepair \/ CloseRepair \/ Repaired \/ LookBeyond \/ Drift
  \/ MarkComplete \/ MarkIncomplete \/ Tell

Next ==
  \/ (NewBlock \/ SyncSteps \/ SyncFaults) /\ UNCHANGED checkVars
  \/ BeginCheck \/ CheckSteps
  \/ CheckFails \/ RepairFails \/ Crash

(* A worker that runs takes its next statement, and every cycle of it syncs   *)
(* the wallet and, once an hour, checks it.                                   *)
Steps == (ReadRange \/ AdvanceCursor \/ CloseSync \/ BeginRescan \/ NothingDegraded
          \/ CloseRescan \/ \E m \in Moves : Store(m)) /\ UNCHANGED checkVars
Fairness ==
  /\ WF_vars(NewBlock /\ UNCHANGED checkVars)
  /\ WF_vars(Steps) /\ WF_vars(CheckSteps)
  /\ SF_vars((BeginSync \/ NothingNew) /\ UNCHANGED checkVars) /\ SF_vars(BeginCheck)
Spec == Init /\ [][Next]_vars
LiveSpec == Spec /\ Fairness

-----------------------------------------------------------------------------
(* The state keeps its shape. *)
TypeOK ==
  /\ tip \in FirstTip .. MaxBlock /\ raw \subseteq Moves
  /\ books \in [Moves -> {"absent", "in", "evidence"}]
  /\ cursor \in Blocks /\ origin \in Blocks
  /\ runs \in Seq(Run) /\ job \in Job
  /\ pc \in {"idle", "read", "store", "close", "rescan", "asset", "bisect", "repaired",
             "finish", "tell"}
  /\ faults \in 0 .. MaxFaults
  /\ cp \in [Assets -> Checkpoint \cup {NoCheckpoint}]
  /\ ledger \in {"unknown", "complete", "incomplete"} /\ since \in Blocks
  /\ alerts \subseteq Blocks /\ chk \in Check

(* A checkpoint always holds the balance the chain had at its block, whichever *)
(* way it was saved: read, added up, or kept as proven before a gap that       *)
(* repairs were still filling (reconcile.ts, saveCheckpoint).                  *)
CheckpointsTrue ==
  \A a \in Assets : cp[a] # NoCheckpoint => cp[a].balance = ChainBalance[a][cp[a].block]

(* Between firstMismatch and the end of the repairs the books match the chain  *)
(* at lo, before hi, whatever a repair of hi adds (the invariant the theorems  *)
(* about checkpoints need).                                                    *)
LoProven ==
  pc \in {"bisect", "repaired"} \/ job.kind = "repair" =>
    /\ Opened /\ cp[Asset].block <= chk.lo
    /\ chk.lo < chk.hi /\ chk.hi <= cursor
    /\ Adds(chk.lo)

(* Where the worker stands agrees with what it is doing. *)
Placed ==
  /\ pc \in {"read", "store", "close"} => job.run \in DOMAIN runs
  /\ pc = "close" => job.kind = "sync"
  /\ job.kind # "none" => pc \in {"read", "store", "close"}
  /\ pc \in {"asset", "bisect", "repaired"} \/ job.kind = "repair" =>
       chk.at \in 1 .. Len(LedgerAssets)
  /\ job.kind = "repair" => job.from = chk.hi
  /\ job.todo \subseteq Within(job.from, MaxBlock)

LedgerInv == TypeOK /\ Placed /\ CheckpointsTrue /\ LoProven

(* Nothing is proven beyond what was read: no checkpoint is past the cursor,   *)
(* and a sync only takes the cursor forward.                                   *)
WithinCursor ==
  /\ \A a \in Assets : cp[a].block <= cursor
  /\ job.kind = "sync" => cursor <= job.to

(* The assets a check has been through so far either are proven up to the      *)
(* cursor or left a drift behind.                                              *)
Checking == pc \in {"asset", "bisect", "repaired", "finish"} \/ job.kind = "repair"
Looked == IF pc = "finish" THEN 1 .. Len(LedgerAssets) ELSE 1 .. chk.at - 1
ProvenSoFar ==
  Checking /\ chk.drifts = {} => \A i \in Looked : cp[LedgerAssets[i]].block = cursor

(* What was proven is never proven again: a checkpoint only moves forward.     *)
CheckpointsForward == [][\A a \in Assets : cp[a].block <= cp'[a].block]_vars

(* Token transfers are cross-checked against the logs, so one the cursor has   *)
(* passed is stored, or lies in a run that did not end well: still open,       *)
(* failed, or waiting to be read again (ingest.ts, syncWallet).                *)
OnRecord(m) ==
  \E i \in DOMAIN runs : runs[i].from <= BlockOf[m] /\ BlockOf[m] <= runs[i].to
TokensOnRecord ==
  \A m \in OfKind("token") :
    cursor # Never /\ BlockOf[m] \in origin .. cursor => m \in raw \/ OnRecord(m)

(* What a job does to that: a run that is forgotten leaves no token transfer    *)
(* behind.  Its row says what is being read, a sync starts no later than after *)
(* the cursor, a clean reading holds every token transfer of its range, and    *)
(* those the cursor passed before the run are on record without it.            *)
InJob(m) == job.from <= BlockOf[m] /\ BlockOf[m] <= job.to
OnOtherRecord(m) ==
  \E i \in DOMAIN runs \ {job.run} : runs[i].from <= BlockOf[m] /\ BlockOf[m] <= runs[i].to
RowIsJob ==
  pc \in {"read", "store", "close"} =>
    runs[job.run].from = job.from /\ runs[job.run].to = job.to
NoGap == job.kind = "sync" /\ pc # "close" /\ cursor # Never => job.from <= cursor + 1
CleanIsStored ==
  /\ pc \in {"store", "close"} /\ Clean =>
       \A m \in OfKind("token") : InJob(m) => m \in raw \/ m \in job.todo
  /\ pc = "close" => job.todo = {}
RecordedBefore ==
  job.kind \in {"sync", "repair"} =>
    \A m \in OfKind("token") :
      cursor # Never /\ BlockOf[m] \in origin .. cursor =>
        \/ m \in raw \/ OnOtherRecord(m)
        \/ pc = "close" /\ ~job.failed /\ InJob(m)
RecordInv == TokensOnRecord /\ RowIsJob /\ NoGap /\ CleanIsStored /\ RecordedBefore

(* Books are called complete only after every asset's checkpoint reached the   *)
(* cursor: no asset is left out, none was proven only in part (reconcileWallet). *)
CompleteIsProven ==
  [][pc = "finish" /\ pc' = "idle" /\ faults' = faults /\ ledger' = "complete" =>
       \A a \in Assets : cp[a] = [block |-> cursor, balance |-> ChainBalance[a][cursor]]]_vars

(* Once reads stop failing the balance check repairs whatever it missed, and   *)
(* the books are complete and stay so up to the cursor.                        *)
BooksAddUp ==
  <>[](/\ ledger = "complete" /\ cursor = LastBlock
       /\ \A a \in Assets : cp[a].block = cursor)

(* "Degraded ranges are re-read with Alchemy later" (ingest.ts, RangeResult):  *)
(* so between syncs a token transfer the cursor passed without storing it lies *)
(* in a run that is waiting to be read again.                                  *)
DegradedRangesReread ==
  pc = "idle" => \A m \in OfKind("token") :
    cursor # Never /\ BlockOf[m] \in origin .. cursor =>
      \/ m \in raw
      \/ \E i \in Degraded : runs[i].from <= BlockOf[m] /\ BlockOf[m] <= runs[i].to

(* The cursor passed this movement and nothing is left that would read its     *)
(* block again: every run ended well, and the next sync starts after it.        *)
Settled(m) ==
  pc = "idle" /\ runs = <<>> /\ origin <= BlockOf[m] /\ BlockOf[m] < cursor + 1 - Overlap

(* "complete: every wallet's books were proven against the chain at the last   *)
(* check" (status.ts, LedgerStatus): so while they are called complete, a      *)
(* settled movement the check counted is in the books.                         *)
CompleteBooksHoldIt ==
  ledger = "complete" =>
    \A m \in Real \cap raw :
      Settled(m) /\ BlockOf[m] <= cp[AssetOf[m]].block => books[m] = "in"
=============================================================================
