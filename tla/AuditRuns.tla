------------------------------ MODULE AuditRuns ------------------------------
(***************************************************************************)
(* "Are my books complete?"  A check compares what the chain and the data    *)
(* providers know of an operator's wallets with what reached the books, in   *)
(* the background, while the books go on changing and the bot may restart.   *)
(* Its row in audit_runs is what survives.  A finished check is used again    *)
(* while the books it read are as they were.                               *)
(***************************************************************************)
EXTENDS Integers, FiniteSets

CONSTANTS
  Wallets,      \* wallets the operator may track
  Askers,       \* who may ask: the operator in chat, and admins
  Admins,
  Ids,          \* rows of audit_runs (a bound)
  Stops,        \* where a movement can be: a trace layer, "unknown", "done"
  Periods,      \* `days` an asker may name; 0 stands for NULL
  BlocksPerDay, \* BLOCKS_PER_DAY
  RunsPerDay,   \* OPERATOR_RUNS_PER_DAY
  MaxAttempts,  \* MAX_ATTEMPTS
  ReuseTime,    \* REUSE_HOURS, and the day the cap counts over
  MaxBlock, MaxNow, MaxChanges, MaxFaults, MaxCrashes, MaxTrouble  \* bounds

ASSUME AuditAssumption ==
  /\ Wallets # {} /\ Askers # {} /\ Admins \subseteq Askers /\ Ids \subseteq Nat \ {0}
  /\ Periods \subseteq Nat /\ Periods # {} /\ "provider" \in Stops
  /\ BlocksPerDay \in Nat /\ RunsPerDay \in Nat /\ MaxAttempts \in Nat /\ ReuseTime \in Nat
  /\ MaxBlock \in Nat \ {0} /\ MaxNow \in Nat /\ MaxChanges \in Nat
  /\ MaxFaults \in Nat /\ MaxCrashes \in Nat /\ MaxTrouble \in Nat

VARIABLES
  now,        \* the hour, in units the two limits are multiples of
  tip,        \* the safe block, AUDIT_SAFE_MARGIN_BLOCKS behind the chain's
  active,     \* the operator's active wallets
  synced,     \* watch_jobs.last_block of each wallet, 0 before its first sync
  books,      \* where the movement of each block is, and the version of its rows
  runs,       \* audit_runs
  latest,     \* the run each period's "ORDER BY finished_at DESC LIMIT 1" returns
  ask,        \* requestAudit of each asker
  job,        \* runAudit of each run, in the bot's memory
  phase,      \* the bot: "up", "down", or "recovering"
  torecover,  \* rows recoverAudits has marked and not handled yet
  told,       \* how often the outcome of each run was sent
  spent       \* changes of the books, faults and crashes so far (bounds)

world == <<now, tip, active, synced, books>>
bot == <<phase, torecover>>
vars == <<world, runs, latest, ask, job, bot, told, spent>>

Blocks == 1 .. MaxBlock
None == 0

(* GAP_OF_LAYER. *)
GapOfLayer ==
  [l \in Stops |->
     CASE l = "provider" -> "missing_from_provider" [] l = "raw" -> "provider_not_stored"
       [] l = "normalized" -> "stored_not_normalized" [] l = "identity" -> "unsupported"
       [] l = "chain" -> "not_on_chain" [] l = "classification" -> "unclassified"
       [] l = "price" -> "missing_price" [] OTHER -> l]
Kinds == {"not_synced"} \cup {GapOfLayer[l] : l \in Stops}

Signature == [known: BOOLEAN, of: SUBSET (Blocks \X Stops \X Nat)]
Unsigned == [known |-> FALSE, of |-> {}]
Part == [from: Nat, to: Nat, sig: Signature]
NoPart == [from |-> 0, to |-> 0, sig |-> Unsigned]
Result == [parts: [Wallets -> Part \cup {NoPart}], gaps: SUBSET (Wallets \X Blocks \X Kinds)]
NoResult == [parts |-> [w \in Wallets |-> NoPart], gaps |-> {}]
Row == [status: {"none", "running", "complete", "failed", "interrupted"}, by: Askers, days: Periods,
        base: Ids \cup {None}, attempts: Nat, started: Nat, finished: Nat, result: Result,
        delivered: BOOLEAN]

-----------------------------------------------------------------------------
(* rangeSignature: every stored row up to a block.  A movement no provider *)
(* delivered, or that was never stored, has no row.                        *)
Stored(w, b) == books[w][b].at \notin {"provider", "raw"}
RangeSignature(w, to) ==
  [known |-> TRUE,
   of |-> {<<b, books[w][b].at, books[w][b].id>> : b \in {c \in Blocks : c <= to /\ Stored(w, c)}}]

(* auditableRange, starting where an earlier result ends if there is one. *)
Larger(a, b) == IF a >= b THEN a ELSE b
FirstBlock(days, to) == IF days = 0 THEN 1 ELSE Larger(1, to - days * BlocksPerDay)
Base(r) == IF runs[r].base = None THEN NoResult ELSE runs[runs[r].base].result
Window(r, w, to) ==
  LET prev == Base(r).parts[w]
  IN IF prev = NoPart THEN FirstBlock(runs[r].days, to) ELSE prev.to + 1

(* auditRange and buildSummary: what one block of a wallet adds. *)
Found(w, b, reached) ==
  LET at == books[w][b].at
  IN IF at = "done" THEN {}
     ELSE {<<w, b, IF at \in {"provider", "raw"} /\ b > reached THEN "not_synced"
                   ELSE GapOfLayer[at]>>}

(* The bounds on what comes from outside, one by one and together. *)
Trouble == now + spent.changes + spent.faults + spent.crashes < MaxTrouble
MayChange == spent.changes < MaxChanges /\ Trouble
MayFail == spent.faults < MaxFaults /\ Trouble
MayCrash == spent.crashes < MaxCrashes /\ Trouble

-----------------------------------------------------------------------------
(* The world outside a check: time, the chain, the worker, the operator. *)
Tick ==
  /\ now < MaxNow /\ Trouble /\ now' = now + 1
  /\ UNCHANGED <<tip, active, synced, books, runs, latest, ask, job, bot, told, spent>>
NewSafeBlock ==
  /\ tip < MaxBlock /\ tip' = tip + 1
  /\ UNCHANGED <<now, active, synced, books, runs, latest, ask, job, bot, told, spent>>
(* A sync stores the next block: its movement reaches some layer. *)
Sync(w) ==
  /\ synced[w] < MaxBlock
  /\ synced' = [synced EXCEPT ![w] = @ + 1]
  /\ \E at \in Stops : books' = [books EXCEPT ![w][synced[w] + 1].at = at]
  /\ UNCHANGED <<now, tip, active, runs, latest, ask, job, bot, told, spent>>
(* A label, a price, a repair: a movement's rows change.  None is deleted. *)
BooksChange(w, b) ==
  /\ MayChange /\ b <= synced[w]
  /\ \E at \in Stops :
       /\ Stored(w, b) => at \notin {"provider", "raw"}
       /\ books' = [books EXCEPT ![w][b] = [at |-> at, id |-> spent.changes + 1]]
  /\ spent' = [spent EXCEPT !.changes = @ + 1]
  /\ UNCHANGED <<now, tip, active, synced, runs, latest, ask, job, bot, told>>
WalletsChange ==
  /\ MayChange
  /\ \E w \in Wallets : active' = IF w \in active THEN active \ {w} ELSE active \cup {w}
  /\ spent' = [spent EXCEPT !.changes = @ + 1]
  /\ UNCHANGED <<now, tip, synced, books, runs, latest, ask, job, bot, told>>

-----------------------------------------------------------------------------
(* requestAudit, one step per answer of the database or the chain. *)
Ask == [pc: {"idle", "look", "tip", "cap", "start"}, days: Periods, last: Ids \cup {None},
        base: Ids \cup {None}]
NoAsk == [pc |-> "idle", days |-> CHOOSE d \in Periods : TRUE, last |-> None, base |-> None]
Asking == UNCHANGED <<world, runs, latest, job, bot, told, spent>>

Running(r) == runs[r].status = "running"

(* A bug: the running check is not looked for. *)
RequestAnyway(p, days) ==
  /\ phase = "up" /\ ask[p].pc = "idle" /\ active # {}
  /\ ask' = [ask EXCEPT ![p] = [NoAsk EXCEPT !.pc = "look", !.days = days]]
  /\ Asking
Request(p, days) ==
  /\ phase = "up" /\ ask[p].pc = "idle" /\ active # {}
  /\ \A r \in Ids : ~Running(r)
  /\ ask' = [ask EXCEPT ![p] = [NoAsk EXCEPT !.pc = "look", !.days = days]]
  /\ Asking

(* The latest result of this period, and whether it still holds. *)
Holds(last) ==
  LET parts == runs[last].result.parts
  IN /\ now - runs[last].finished < ReuseTime
     /\ \A w \in Wallets : (w \in active) = (parts[w] # NoPart)
     /\ \A w \in active : parts[w].sig.known /\ parts[w].sig = RangeSignature(w, parts[w].to)
Look(p) ==
  /\ ask[p].pc = "look"
  /\ LET last == latest[ask[p].days] IN
       ask' = [ask EXCEPT ![p].last = last,
                          ![p].pc = IF last # None /\ Holds(last) THEN "tip" ELSE "cap"]
  /\ Asking

(* No new blocks: the result is given again.  New ones: only they are checked. *)
SaysUnchanged(p) ==
  /\ ask[p].pc = "tip"
  /\ \A w \in Wallets : LET q == runs[ask[p].last].result.parts[w] IN q = NoPart \/ tip <= q.to
  /\ ask' = [ask EXCEPT ![p] = NoAsk]
  /\ Asking
BuildOn(p) ==
  /\ ask[p].pc = "tip"
  /\ \/ \E w \in Wallets : LET q == runs[ask[p].last].result.parts[w] IN q # NoPart /\ tip > q.to
     \/ MayFail  \* the tip could not be read
  /\ ask' = [ask EXCEPT ![p].base = IF ask[p].days = 0 THEN ask[p].last ELSE None, ![p].pc = "cap"]
  /\ Asking

Capped(p) ==
  /\ ask[p].last # None /\ ask[p].base = None /\ p \notin Admins
  /\ Cardinality({r \in Ids : /\ runs[r].status # "none" /\ runs[r].base = None
                              /\ runs[r].started > now - ReuseTime}) >= RunsPerDay
GivesOldResult(p) ==
  /\ ask[p].pc = "cap" /\ Capped(p)
  /\ ask' = [ask EXCEPT ![p] = NoAsk]
  /\ Asking
MayStart(p) ==
  /\ ask[p].pc = "cap" /\ ~Capped(p)
  /\ ask' = [ask EXCEPT ![p].pc = "start"]
  /\ Asking

-----------------------------------------------------------------------------
(* runAudit. *)
Job == [pc: {"idle", "begin", "wallets", "trace", "tell", "mark"}, safe: Nat,
        todo: SUBSET Wallets, w: Wallets, reached: Nat, at: Nat, before: Signature, result: Result]
NoJob == [pc |-> "idle", safe |-> 0, todo |-> {}, w |-> CHOOSE w \in Wallets : TRUE,
          reached |-> 0, at |-> 0, before |-> Unsigned, result |-> NoResult]
NewJob == [NoJob EXCEPT !.pc = "begin"]
Telling == [NoJob EXCEPT !.pc = "tell"]   \* the rest is in the row by now
Working == UNCHANGED <<world, ask, bot, spent>>

Start(p, r) ==
  /\ ask[p].pc = "start" /\ runs[r].status = "none"
  /\ \A s \in Ids : s < r => runs[s].status # "none"
  /\ runs' = [runs EXCEPT ![r] = [@ EXCEPT !.status = "running", !.by = p, !.days = ask[p].days,
                                           !.base = ask[p].base, !.started = now]]
  /\ job' = [job EXCEPT ![r] = NewJob]
  /\ ask' = [ask EXCEPT ![p] = NoAsk]
  /\ UNCHANGED <<world, latest, bot, told, spent>>

Begin(r) ==
  /\ job[r].pc = "begin"
  /\ job' = [job EXCEPT ![r] = [@ EXCEPT !.pc = "wallets", !.safe = tip, !.todo = active,
                                         !.result = [NoResult EXCEPT !.gaps = Base(r).gaps]]]
  /\ UNCHANGED <<runs, latest, told>> /\ Working

Skip(r, w) ==
  /\ job[r].pc = "wallets" /\ w \in job[r].todo /\ synced[w] = 0
  /\ job' = [job EXCEPT ![r].todo = @ \ {w}]
  /\ UNCHANGED <<runs, latest, told>> /\ Working
OpenWallet(r, w) ==
  /\ job[r].pc = "wallets" /\ w \in job[r].todo /\ synced[w] > 0
  /\ job' = [job EXCEPT ![r] = [@ EXCEPT !.pc = "trace", !.w = w, !.reached = synced[w],
                                         !.at = Window(r, w, job[r].safe),
                                         !.before = RangeSignature(w, job[r].safe)]]
  /\ UNCHANGED <<runs, latest, told>> /\ Working
TraceNext(r) ==
  /\ job[r].pc = "trace" /\ job[r].at <= job[r].safe
  /\ job' = [job EXCEPT ![r].at = @ + 1,
                        ![r].result.gaps = @ \cup Found(job[r].w, job[r].at, job[r].reached)]
  /\ UNCHANGED <<runs, latest, told>> /\ Working

(* A bug: the signature of the books is read only after they were checked. *)
SignedAfter(r) == RangeSignature(job[r].w, job[r].safe)
Signed(r) ==
  IF job[r].before = RangeSignature(job[r].w, job[r].safe) THEN job[r].before ELSE Unsigned
CloseWallet(r) ==
  /\ job[r].pc = "trace" /\ job[r].at > job[r].safe
  /\ LET prev == Base(r).parts[job[r].w] IN
       job' = [job EXCEPT
         ![r].pc = "wallets", ![r].todo = @ \ {job[r].w},
         ![r].result.parts[job[r].w] =
            [from |-> IF prev = NoPart THEN FirstBlock(runs[r].days, job[r].safe) ELSE prev.from,
             to |-> job[r].safe, sig |-> Signed(r)]]
  /\ UNCHANGED <<runs, latest, told>> /\ Working

Complete(r) ==
  /\ job[r].pc = "wallets" /\ job[r].todo = {}
  /\ runs' = [runs EXCEPT ![r] = [@ EXCEPT !.status = "complete", !.finished = now,
                                           !.result = job[r].result]]
  /\ latest' = [latest EXCEPT ![runs[r].days] = r]
  /\ job' = [job EXCEPT ![r] = Telling]
  /\ UNCHANGED told /\ Working

(* A provider or the database fails; if the row cannot be updated either, it *)
(* stays "running" with nobody working on it.                             *)
Fault == MayFail /\ spent' = [spent EXCEPT !.faults = @ + 1]
Fail(r) ==
  /\ job[r].pc \in {"begin", "wallets", "trace"} /\ Fault
  /\ \/ /\ runs' = [runs EXCEPT ![r] = [@ EXCEPT !.status = "failed", !.finished = now]]
        /\ job' = [job EXCEPT ![r] = Telling]
     \/ UNCHANGED runs /\ job' = [job EXCEPT ![r] = NoJob]
  /\ UNCHANGED <<world, latest, ask, bot, told>>

(* deliver. *)
Tell(r) ==
  /\ job[r].pc = "tell"
  /\ told' = [told EXCEPT ![r] = @ + 1]
  /\ job' = [job EXCEPT ![r].pc = "mark"]
  /\ UNCHANGED <<runs, latest>> /\ Working
Mark(r) ==
  /\ job[r].pc = "mark"
  /\ runs' = [runs EXCEPT ![r].delivered = TRUE]
  /\ job' = [job EXCEPT ![r] = NoJob]
  /\ UNCHANGED <<latest, told>> /\ Working
DeliveryFails(r) ==
  /\ job[r].pc \in {"tell", "mark"} /\ Fault
  /\ job' = [job EXCEPT ![r] = NoJob]
  /\ UNCHANGED <<world, runs, latest, ask, bot, told>>

-----------------------------------------------------------------------------
(* The bot ends with everything it held in memory, and starts again: it takes *)
(* no message before recoverAudits is done.                               *)
Crash ==
  /\ phase # "down" /\ MayCrash
  /\ phase' = "down" /\ torecover' = {}
  /\ ask' = [p \in Askers |-> NoAsk] /\ job' = [r \in Ids |-> NoJob]
  /\ spent' = [spent EXCEPT !.crashes = @ + 1]
  /\ UNCHANGED <<world, runs, latest, told>>

(* A bug: recovery picks up whatever was not marked delivered. *)
PicksUpUndelivered(r) == runs[r].status # "none" /\ ~runs[r].delivered
(* A bug: recovery passes over what it has retried before. *)
PicksUpOnce(r) == Running(r) /\ runs[r].attempts = 1
PicksUp(r) == Running(r)
MarkInterrupted ==
  /\ phase = "down"
  /\ phase' = "recovering" /\ torecover' = {r \in Ids : PicksUp(r)}
  /\ runs' = [r \in Ids |->
                IF PicksUp(r) THEN [runs[r] EXCEPT !.status = "interrupted", !.finished = now]
                ELSE runs[r]]
  /\ UNCHANGED <<world, latest, ask, job, told, spent>>
Retry(r) ==
  /\ phase = "recovering" /\ r \in torecover /\ runs[r].attempts < MaxAttempts
  /\ torecover' = torecover \ {r}
  /\ runs' = [runs EXCEPT ![r] = [@ EXCEPT !.status = "running", !.attempts = runs[r].attempts + 1]]
  /\ job' = [job EXCEPT ![r] = NewJob]
  /\ UNCHANGED <<world, latest, ask, phase, told, spent>>
Report(r) ==
  /\ phase = "recovering" /\ r \in torecover /\ runs[r].attempts >= MaxAttempts
  /\ torecover' = torecover \ {r}
  /\ \/ /\ told' = [told EXCEPT ![r] = @ + 1]
        /\ runs' = [runs EXCEPT ![r].delivered = TRUE]
        /\ UNCHANGED spent
     \/ Fault /\ UNCHANGED <<told, runs>>
  /\ UNCHANGED <<world, latest, ask, job, phase>>
Launch ==
  /\ phase = "recovering" /\ torecover = {}
  /\ phase' = "up"
  /\ UNCHANGED <<world, runs, latest, ask, job, torecover, told, spent>>

-----------------------------------------------------------------------------
Init ==
  /\ now = 0 /\ tip = 1 /\ active = Wallets
  /\ synced = [w \in Wallets |-> 0]
  /\ books = [w \in Wallets |-> [b \in Blocks |-> [at |-> "provider", id |-> 0]]]
  /\ runs = [r \in Ids |->
       [status |-> "none", by |-> CHOOSE p \in Askers : TRUE, days |-> NoAsk.days, base |-> None,
        attempts |-> 1, started |-> 0, finished |-> 0, result |-> NoResult, delivered |-> FALSE]]
  /\ latest = [d \in Periods |-> None]
  /\ ask = [p \in Askers |-> NoAsk] /\ job = [r \in Ids |-> NoJob]
  /\ phase = "up" /\ torecover = {} /\ told = [r \in Ids |-> 0]
  /\ spent = [changes |-> 0, faults |-> 0, crashes |-> 0]

Outside ==
  \/ Tick \/ NewSafeBlock \/ WalletsChange \/ Crash
  \/ \E w \in Wallets : Sync(w) \/ \E b \in Blocks : BooksChange(w, b)
Requesting(p) ==
  \/ \E d \in Periods : Request(p, d)
  \/ Look(p) \/ SaysUnchanged(p) \/ BuildOn(p) \/ GivesOldResult(p) \/ MayStart(p)
  \/ \E r \in Ids : Start(p, r)
Checking(r) ==
  \/ Begin(r) \/ TraceNext(r) \/ CloseWallet(r) \/ Complete(r) \/ Tell(r) \/ Mark(r)
  \/ \E w \in Wallets : Skip(r, w) \/ OpenWallet(r, w)
Recovering == MarkInterrupted \/ Launch \/ \E r \in Ids : Retry(r) \/ Report(r)

Next ==
  \/ Outside \/ Recovering
  \/ \E p \in Askers : Requesting(p)
  \/ \E r \in Ids : Checking(r) \/ Fail(r) \/ DeliveryFails(r)

(* The bot is started again, and runs what it has in memory. *)
Fairness == WF_vars(Recovering) /\ \A r \in Ids : WF_vars(Checking(r))
Spec == Init /\ [][Next]_vars /\ Fairness
-----------------------------------------------------------------------------
TypeOK ==
  /\ now \in Nat /\ tip \in Nat /\ active \subseteq Wallets /\ synced \in [Wallets -> Nat]
  /\ books \in [Wallets -> [Blocks -> [at: Stops, id: Nat]]]
  /\ runs \in [Ids -> Row] /\ latest \in [Periods -> Ids \cup {None}]
  /\ ask \in [Askers -> Ask] /\ job \in [Ids -> Job]
  /\ phase \in {"up", "down", "recovering"} /\ torecover \subseteq Ids
  /\ told \in [Ids -> Nat] /\ spent \in [changes: Nat, faults: Nat, crashes: Nat]

(* The outcome of a check is sent at most once, whatever restarts come between *)
(* its steps: half of "told the outcome exactly once" (migration 021).        *)
ToldAtMostOnce == \A r \in Ids : told[r] <= 1

(* Requests, background runs and recovery together give each request one fate: *)
(* it is told once, or given up for good.                                   *)
Fate(r) ==
  IF told[r] > 0 THEN "told"
  ELSE IF runs[r].status = "none" THEN "none"
  ELSE IF Running(r) \/ job[r].pc = "tell" \/ r \in torecover THEN "due" ELSE "lost"
Promise == INSTANCE Outcomes WITH Requests <- Ids, state <- [r \in Ids |-> Fate(r)]
OutcomesKept == Promise!Spec

(* What a full check reported is still what the books lack, as long as the     *)
(* signature it was stored with matches: what requestAudit relies on when it   *)
(* gives a result again.                                                   *)
Lacking(w, from, to) == {b \in Blocks : from <= b /\ b <= to /\ books[w][b].at # "done"}
Reported(r, w) == {b \in Blocks : \E k \in Kinds : <<w, b, k>> \in runs[r].result.gaps}
StillTrue(r) ==
  \A w \in Wallets :
    LET part == runs[r].result.parts[w]
    IN part.sig.known /\ part.sig = RangeSignature(w, part.to)
         => Reported(r, w) = Lacking(w, part.from, part.to)
FullResultsHold == \A r \in Ids : runs[r].base = None => StillTrue(r)

(* The same of every result, those built on an earlier one included           *)
(* (audit-runs.ts:66, "null when the books changed while the check ran").     *)
SignedResultsHold == \A r \in Ids : StillTrue(r)

(* One asker never has two checks running: a second question finds the first, *)
(* before a restart and after it.                                          *)
OneRunPerAsker ==
  \A p \in Askers : Cardinality({r \in Ids : Running(r) /\ runs[r].by = p}) <= 1

(* Once the bot takes messages again, a check the restart interrupted was      *)
(* started again or has had its attempts (migration 021: "a restart mid-check *)
(* is known (status 'interrupted') and retried").                           *)
InterruptedRetried ==
  phase = "up" =>
    \A r \in Ids : runs[r].status = "interrupted" => runs[r].attempts >= MaxAttempts

(* A check that was started does not run forever, restarts included.  (A fault   *)
(* may keep its failure from being recorded: then the next restart finds it.)  *)
ChecksEnd == \A r \in Ids : Running(r) ~> (~Running(r) \/ spent.faults > 0)

(* Whoever asked is told how a finished check ended (audit-runs.ts:16).       *)
OutcomeTold ==
  \A r \in Ids : (runs[r].status \in {"complete", "failed"}) ~> (told[r] = 1)
=============================================================================
