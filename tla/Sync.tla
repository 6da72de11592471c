-------------------------------- MODULE Sync --------------------------------
(***************************************************************************)
(* How the worker reads one wallet's movements from the chain: windows      *)
(* behind a cursor, several sources none of which is complete, ranges read  *)
(* badly and read again.                                                    *)
(*                                                                         *)
(* Only the worker reads and writes this state, one statement after         *)
(* another; what makes it hard is that any read may miss movements or fail,  *)
(* any statement may fail, and the process may die between two of them.     *)
(*                                                                         *)
(* Of sync_runs the model keeps the rows that may still stand for something  *)
(* unread: runs still "running", failed ones, and degraded ones not read     *)
(* again yet.                                                              *)
(***************************************************************************)
EXTENDS Integers, FiniteSets, SequencesExt

CONSTANTS
  Moves,       \* what sources report of the wallet
  BlockOf,     \* the block of each
  KindOf,      \* a supported token's transfer, an ETH transfer, a fee, or a
               \* transfer reported inside a transaction that failed
  ReceiptOf,   \* for a reverted transfer, the fee of its failed transaction
  MaxBlock,    \* bound: the chain stops here
  FirstTip,    \* the chain's head when the wallet is added
  TipLag, Overlap, Backfill,   \* TIP_LAG_BLOCKS, OVERLAP_BLOCKS, BLOCKS_30_DAYS
  MaxFaults    \* bound: incomplete reads, failed statements, crashes

Kinds == {"token", "native", "fee", "reverted"}
Real == {m \in Moves : KindOf[m] # "reverted"}
Reverted == Moves \ Real
OfKind(k) == {m \in Moves : KindOf[m] = k}

ASSUME BlocksAssumption ==
  /\ MaxBlock \in Nat \ {0} /\ FirstTip \in 1 .. MaxBlock
  /\ TipLag \in Nat /\ TipLag < FirstTip /\ Overlap \in Nat /\ Backfill \in Nat
  /\ MaxFaults \in Nat
ASSUME MovesAssumption ==
  /\ BlockOf \in [Moves -> 1 .. MaxBlock] /\ KindOf \in [Moves -> Kinds]
  /\ ReceiptOf \in [Reverted -> OfKind("fee")]
  /\ \A m \in Reverted : BlockOf[ReceiptOf[m]] = BlockOf[m]

VARIABLES
  tip,     \* the chain's head
  raw,     \* movements in raw_transfers and raw_receipts
  books,   \* what normalized_events says of each: absent, in the books, or evidence only
  cursor,  \* watch_jobs.last_block
  origin,  \* from_block of the run that first moved the cursor
  runs,    \* sync_runs, oldest first
  pc, job, \* where the worker is, and what it is reading
  faults   \* what is left of the bound

syncVars == <<tip, raw, books, cursor, origin, runs, pc, job, faults>>

Blocks == 0 .. MaxBlock
Never == 0
Run == [from: Blocks, to: Blocks, status: {"running", "degraded", "failed"}]
Job == [kind: {"none", "sync", "rescan", "repair"}, run: Nat, from: Blocks, to: Blocks,
        found: SUBSET Moves, todo: SUBSET Moves, failed: BOOLEAN, degraded: BOOLEAN]
NoJob == [kind |-> "none", run |-> 0, from |-> 0, to |-> 0, found |-> {}, todo |-> {},
          failed |-> FALSE, degraded |-> FALSE]
Reading(kind, run, from, to) ==
  [NoJob EXCEPT !.kind = kind, !.run = run, !.from = from, !.to = to]

Within(from, to) == {m \in Moves : from <= BlockOf[m] /\ BlockOf[m] <= to}
Fault == faults > 0 /\ faults' = faults - 1

-----------------------------------------------------------------------------
(* The chain grows. *)
NewBlock ==
  /\ tip < MaxBlock
  /\ tip' = tip + 1
  /\ UNCHANGED <<raw, books, cursor, origin, runs, pc, job, faults>>

(* scanWindow: stops short of the tip, and re-reads a stretch behind the cursor. *)
LastBlock == tip - TipLag
UpToDate == cursor # Never /\ cursor >= LastBlock
FromBlock == LET from == IF cursor = Never THEN LastBlock - Backfill ELSE cursor + 1 - Overlap
             IN  IF from > 0 THEN from ELSE 0

(* A run is recorded before anything is read. *)
BeginSync ==
  /\ pc = "idle" /\ ~UpToDate
  /\ runs' = Append(runs, [from |-> FromBlock, to |-> LastBlock, status |-> "running"])
  /\ job' = Reading("sync", Len(runs) + 1, FromBlock, LastBlock)
  /\ pc' = "read"
  /\ UNCHANGED <<tip, raw, books, cursor, origin, faults>>

NothingNew ==
  /\ pc = "idle" /\ UpToDate
  /\ pc' = "rescan"
  /\ UNCHANGED <<tip, raw, books, cursor, origin, runs, job, faults>>

-----------------------------------------------------------------------------
(* ingestRange.                                                               *)

(* What the sources return.  A range is degraded when the transfers came from   *)
(* the fallback, which reads on to the tip (fees are still read up to the end), *)
(* or the token logs or the fees could not be read.  Otherwise the logs add     *)
(* every token transfer the feed missed; an ETH transfer or a fee may still be  *)
(* missing, for a receipt or a block that is not there yet is passed over.  A   *)
(* complete read costs nothing of the bound.                                    *)
Feed(degraded) ==
  Within(job.from, job.to) \cup IF degraded THEN Within(job.from, tip) \ OfKind("fee") ELSE {}
TokenLogs == Within(job.from, job.to) \cap OfKind("token")
(* A bug: the token logs are not cross-checked. *)
FoundWithoutLogs(found, degraded) == found \subseteq Feed(degraded)
Found(found, degraded) ==
  /\ found \subseteq Feed(degraded)
  /\ ~degraded => TokenLogs \subseteq found
ReadRange ==
  /\ pc = "read"
  /\ \E found \in SUBSET Within(job.from, tip), degraded \in BOOLEAN :
       /\ Found(found, degraded)
       /\ IF ~degraded /\ Within(job.from, job.to) \cap Real \subseteq found
          THEN UNCHANGED faults ELSE Fault
       /\ job' = [job EXCEPT !.found = found, !.todo = found, !.degraded = degraded]
  /\ pc' = "store"
  /\ UNCHANGED <<tip, raw, books, cursor, origin, runs>>

(* A movement enters the books unless its transaction is known to have failed; *)
(* a later reading never changes its mind (COALESCE in insertEvent).           *)
Booked(m) ==
  IF books[m] # "absent" THEN books[m]
  ELSE IF m \in Reverted /\ ReceiptOf[m] \in job.found THEN "evidence" ELSE "in"

(* The evidence is stored first, then the transaction and the event. *)
Store(m) ==
  /\ pc = "store" /\ m \in job.todo
  /\ raw' = raw \cup {m}
  /\ books' = [books EXCEPT ![m] = Booked(m)]
  /\ job' = [job EXCEPT !.todo = @ \ {m}]
  /\ UNCHANGED <<tip, cursor, origin, runs, pc, faults>>

(* One movement that cannot be stored does not stop the others. *)
StoreFails(m) ==
  /\ pc = "store" /\ m \in job.todo /\ Fault
  /\ raw' \in {raw, raw \cup {m}}
  /\ job' = [job EXCEPT !.todo = @ \ {m}, !.failed = TRUE]
  /\ UNCHANGED <<tip, books, cursor, origin, runs, pc>>

Stored(kind) == pc = "store" /\ job.kind = kind /\ job.todo = {}

-----------------------------------------------------------------------------
(* syncWallet: the cursor moves if everything was stored, then the run closes. *)
Advances == ~job.failed
AdvanceCursor ==
  /\ Stored("sync")
  /\ cursor' = IF Advances THEN job.to ELSE cursor
  /\ origin' = IF Advances /\ cursor = Never THEN job.from ELSE origin
  /\ pc' = "close"
  /\ UNCHANGED <<tip, raw, books, runs, job, faults>>

Closed(i) == IF job.degraded THEN [runs EXCEPT ![i].status = "degraded"]
                             ELSE RemoveAt(runs, i)
CloseSync ==
  /\ pc = "close"
  /\ runs' = Closed(job.run)
  /\ job' = NoJob /\ pc' = "rescan"
  /\ UNCHANGED <<tip, raw, books, cursor, origin, faults>>

(* No source answered, or a statement after the range was stored failed: the   *)
(* balance snapshot, the cursor's update, or the closing of the run itself.    *)
(* The run is marked failed, whatever it had done.                             *)
SyncFails ==
  /\ job.kind = "sync" /\ (pc \in {"read", "close"} \/ Stored("sync")) /\ Fault
  /\ runs' = [runs EXCEPT ![job.run].status = "failed"]
  /\ job' = NoJob /\ pc' = "idle"
  /\ UNCHANGED <<tip, raw, books, cursor, origin>>

-----------------------------------------------------------------------------
(* rescanDegradedRange: the oldest degraded run is read again, and forgotten   *)
(* once a re-read is clean.                                                    *)
Degraded == {i \in DOMAIN runs : runs[i].status = "degraded"}
BeginRescan ==
  /\ pc = "rescan"
  /\ \E i \in Degraded :
       /\ \A j \in Degraded : i <= j
       /\ job' = Reading("rescan", i, runs[i].from, runs[i].to)
  /\ pc' = "read"
  /\ UNCHANGED <<tip, raw, books, cursor, origin, runs, faults>>

NothingDegraded ==
  /\ pc = "rescan" /\ Degraded = {}
  /\ pc' = "idle"
  /\ UNCHANGED <<tip, raw, books, cursor, origin, runs, job, faults>>

Clean == ~job.degraded /\ ~job.failed
CloseRescan ==
  /\ Stored("rescan")
  /\ runs' = IF Clean THEN RemoveAt(runs, job.run) ELSE runs
  /\ job' = NoJob /\ pc' = "idle"
  /\ UNCHANGED <<tip, raw, books, cursor, origin, faults>>

RescanFails ==
  /\ job.kind = "rescan" /\ (pc = "read" \/ Stored("rescan")) /\ Fault
  /\ job' = NoJob /\ pc' = "idle"
  /\ UNCHANGED <<tip, raw, books, cursor, origin, runs>>

(* The worker dies, perhaps between a movement's evidence and its event; what  *)
(* it had written stays, a run it had open stays open.                         *)
CrashSync ==
  /\ pc # "idle" /\ Fault
  /\ raw' \in {raw} \cup {raw \cup {m} : m \in IF pc = "store" THEN job.todo ELSE {}}
  /\ job' = NoJob /\ pc' = "idle"
  /\ UNCHANGED <<tip, books, cursor, origin, runs>>

-----------------------------------------------------------------------------
SyncInit ==
  /\ tip = FirstTip
  /\ raw = {} /\ books = [m \in Moves |-> "absent"]
  /\ cursor = Never /\ origin = Never
  /\ runs = <<>>
  /\ pc = "idle" /\ job = NoJob
  /\ faults = MaxFaults

SyncSteps ==
  \/ BeginSync \/ NothingNew \/ ReadRange \/ AdvanceCursor \/ CloseSync
  \/ BeginRescan \/ NothingDegraded \/ CloseRescan
  \/ \E m \in Moves : Store(m)
SyncFaults == SyncFails \/ RescanFails \/ \E m \in Moves : StoreFails(m)
=============================================================================
