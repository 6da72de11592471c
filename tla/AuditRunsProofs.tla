--------------------------- MODULE AuditRunsProofs ---------------------------
(***************************************************************************)
(* Proofs about AuditRuns: for any wallets, askers, periods and rows, however  *)
(* often the bot restarts and whatever fails, one asker has one check at a     *)
(* time, and each check that was accepted has one fate; and a signed result of   *)
(* a full check is what the books still lack.                                *)
(***************************************************************************)
EXTENDS AuditRuns, FiniteSetTheorems, TLAPS

(* A check reads blocks of the chain.                                        *)
Within ==
  /\ tip \in Blocks
  /\ \A r \in Ids : job[r].safe \in 0 .. MaxBlock /\ (job[r].pc = "trace" => job[r].at # 0)

(* What a restart leaves in memory: nothing; recovery hears no requests.       *)
Phases ==
  /\ phase # "up" => \A p \in Askers : ask[p].pc = "idle"
  /\ phase = "down" => \A r \in Ids : job[r].pc = "idle"
  /\ phase # "recovering" => torecover = {}

(* A row that is running, or marked interrupted and about to be handled, has    *)
(* not been told of; only a finished one is told, and at most once.            *)
RowFits(r) ==
  /\ runs[r].status = "none" => job[r].pc = "idle" /\ r \notin torecover /\ told[r] = 0
  /\ Running(r) => r \notin torecover /\ told[r] = 0
  /\ job[r].pc \in {"begin", "wallets", "trace"} => Running(r)
  /\ job[r].pc = "tell" => ~Running(r) /\ told[r] = 0
  /\ job[r].pc = "mark" => ~Running(r)
  /\ r \in torecover => runs[r].status = "interrupted" /\ job[r].pc = "idle" /\ told[r] = 0
  /\ told[r] \in {0, 1}
RowsFit == \A r \in Ids : RowFits(r)

(* A check that runs, or that recovery will start again, is its asker's only   *)
(* one, and nobody who has one is past the question whether one is running.    *)
Busy(r) == Running(r) \/ r \in torecover
OneEach ==
  /\ \A r, s \in Ids : Busy(r) /\ Busy(s) /\ runs[r].by = runs[s].by => r = s
  /\ \A p \in Askers : ask[p].pc # "idle" => \A r \in Ids : Busy(r) => runs[r].by # p

Inv == TypeOK /\ Within /\ Phases /\ RowsFit /\ OneEach

-----------------------------------------------------------------------------
(* Types of what the actions put together.                                   *)
LEMMA Defaults ==
  /\ NoPart \in Part /\ NoResult \in Result /\ Unsigned \in Signature
  /\ NoAsk \in Ask /\ NoJob \in Job /\ NewJob \in Job /\ Telling \in Job
<1>1. Unsigned \in Signature
  BY DEF Unsigned, Signature
<1>2. NoPart \in Part
  BY <1>1 DEF NoPart, Part
<1>3. NoResult \in Result
  BY <1>2 DEF NoResult, Result
<1>4. (CHOOSE d \in Periods : TRUE) \in Periods /\ (CHOOSE w \in Wallets : TRUE) \in Wallets
  BY AuditAssumption
<1>5. NoAsk \in Ask
  BY <1>4 DEF NoAsk, Ask
<1>6. NoJob \in Job
  BY <1>1, <1>3, <1>4 DEF NoJob, Job
<1>7. NewJob \in Job
  BY <1>6 DEF NewJob, Job
<1>8. Telling \in Job
  BY <1>6 DEF Telling, Job
<1> QED BY <1>1, <1>2, <1>3, <1>5, <1>6, <1>7, <1>8

LEMMA RangeSignatureType ==
  ASSUME TypeOK, NEW w \in Wallets, NEW to PROVE RangeSignature(w, to) \in Signature
<1>1. \A b \in Blocks : books[w][b].at \in Stops /\ books[w][b].id \in Nat /\ b \in Blocks
  BY DEF TypeOK
<1>2. \A b \in Blocks : <<b, books[w][b].at, books[w][b].id>> \in Blocks \X Stops \X Nat
  BY <1>1
<1> QED BY <1>2 DEF RangeSignature, Signature

LEMMA BaseType ==
  ASSUME TypeOK, NEW r \in Ids
  PROVE  /\ Base(r) \in Result
         /\ \A w \in Wallets : Base(r).parts[w] \in Part
         /\ Base(r).gaps \subseteq Wallets \X Blocks \X Kinds
<1>1. runs[r].base \in Ids \cup {None}
  BY DEF TypeOK, Row
<1>2. \A s \in Ids : runs[s].result \in Result
  BY DEF TypeOK, Row
<1>3. Base(r) \in Result
  BY <1>1, <1>2, Defaults DEF Base
<1> QED BY <1>3, Defaults DEF Result

LEMMA FirstBlockType ==
  ASSUME NEW days \in Nat, NEW to \in Nat PROVE FirstBlock(days, to) \in Nat \ {0}
<1>1. days * BlocksPerDay \in Nat
  BY AuditAssumption
<1> QED BY <1>1 DEF FirstBlock, Larger

LEMMA WindowType ==
  ASSUME TypeOK, NEW r \in Ids, NEW w \in Wallets, NEW to \in Nat
  PROVE  Window(r, w, to) \in Nat \ {0}
<1>1. Base(r).parts[w].to \in Nat
  BY BaseType DEF Part
<1>2. FirstBlock(runs[r].days, to) \in Nat \ {0}
  BY FirstBlockType, AuditAssumption DEF TypeOK, Row
<1> QED BY <1>1, <1>2 DEF Window

LEMMA FoundType ==
  ASSUME TypeOK, NEW w \in Wallets, NEW b \in Blocks, NEW reached
  PROVE  Found(w, b, reached) \subseteq Wallets \X Blocks \X Kinds
<1>1. books[w][b].at \in Stops
  BY DEF TypeOK
<1>2. GapOfLayer[books[w][b].at] \in Kinds /\ "not_synced" \in Kinds
  BY <1>1 DEF Kinds
<1> QED BY <1>2 DEF Found

-----------------------------------------------------------------------------
(* The world outside a check changes nothing of the checks.                   *)
LEMMA WorldKeeps ==
  ASSUME Inv, Tick \/ NewSafeBlock \/ WalletsChange \/ \E w \in Wallets : Sync(w) \/ \E b \in Blocks : BooksChange(w, b)
  PROVE  Inv'
<1>1. UNCHANGED <<runs, latest, ask, job, phase, torecover, told>>
  BY DEF Tick, NewSafeBlock, WalletsChange, Sync, BooksChange, bot
<1>2. now' \in Nat /\ tip' \in Nat /\ tip' \in Blocks /\ active' \subseteq Wallets
  <2>1. now \in Nat /\ tip \in Nat /\ tip \in 1 .. MaxBlock /\ active \subseteq Wallets /\ MaxBlock \in Nat
    BY AuditAssumption DEF Inv, TypeOK, Within, Blocks
  <2>2. now' \in Nat
    BY <2>1 DEF Tick, NewSafeBlock, WalletsChange, Sync, BooksChange
  <2>3. tip' \in 1 .. MaxBlock
    BY <2>1 DEF Tick, NewSafeBlock, WalletsChange, Sync, BooksChange
  <2>4. active' \subseteq Wallets
    <3>1. CASE WalletsChange
      BY <2>1, <3>1 DEF WalletsChange
    <3>2. CASE UNCHANGED active
      BY <2>1, <3>2
    <3> QED BY <3>1, <3>2 DEF Tick, NewSafeBlock, Sync, BooksChange
  <2> QED BY <2>1, <2>2, <2>3, <2>4 DEF Blocks
<1>3. synced' \in [Wallets -> Nat] /\ spent' \in [changes: Nat, faults: Nat, crashes: Nat]
  <2>1. synced \in [Wallets -> Nat] /\ spent \in [changes: Nat, faults: Nat, crashes: Nat]
    BY DEF Inv, TypeOK
  <2>2. ASSUME NEW w \in Wallets, Sync(w) PROVE synced' \in [Wallets -> Nat]
    BY <2>1, <2>2 DEF Sync
  <2>3. synced' \in [Wallets -> Nat]
    BY <2>1, <2>2 DEF Tick, NewSafeBlock, WalletsChange, BooksChange
  <2>4. spent' = spent \/ spent' = [spent EXCEPT !.changes = @ + 1]
    BY DEF Tick, NewSafeBlock, WalletsChange, Sync, BooksChange
  <2> QED BY <2>1, <2>3, <2>4
<1>4. books' \in [Wallets -> [Blocks -> [at: Stops, id: Nat]]]
  <2>1. CASE UNCHANGED books
    BY <2>1 DEF Inv, TypeOK
  <2>2. ASSUME NEW w \in Wallets, Sync(w) PROVE books' \in [Wallets -> [Blocks -> [at: Stops, id: Nat]]]
    <3>1. PICK at \in Stops : books' = [books EXCEPT ![w][synced[w] + 1].at = at]
      BY <2>2 DEF Sync
    <3>2. synced[w] \in Nat /\ MaxBlock \in Nat
      BY AuditAssumption DEF Inv, TypeOK
    <3>3. synced[w] + 1 \in Blocks
      BY <2>2, <3>2 DEF Sync, Blocks
    <3> HIDE DEF Blocks
    <3>4. books \in [Wallets -> [Blocks -> [at: Stops, id: Nat]]]
      BY DEF Inv, TypeOK
    <3>5. [books[w][synced[w] + 1] EXCEPT !.at = at] \in [at: Stops, id: Nat]
      <4> DEFINE here == books[w][synced[w] + 1]
      <4>1. here \in [at: Stops, id: Nat]
        BY <3>3, <3>4
      <4> HIDE DEF here
      <4>2. [here EXCEPT !.at = at] \in [at: Stops, id: Nat]
        BY <4>1
      <4> QED BY <4>2 DEF here
    <3>6. [books[w] EXCEPT ![synced[w] + 1].at = at] \in [Blocks -> [at: Stops, id: Nat]]
      BY <3>3, <3>4, <3>5
    <3> QED BY <3>1, <3>4, <3>6
  <2>3. ASSUME NEW w \in Wallets, NEW b \in Blocks, BooksChange(w, b)
        PROVE  books' \in [Wallets -> [Blocks -> [at: Stops, id: Nat]]]
    <3>1. PICK at \in Stops : books' = [books EXCEPT ![w][b] = [at |-> at, id |-> spent.changes + 1]]
      BY <2>3 DEF BooksChange
    <3>2. [at |-> at, id |-> spent.changes + 1] \in [at: Stops, id: Nat]
      BY DEF Inv, TypeOK
    <3> QED BY <3>1, <3>2 DEF Inv, TypeOK
  <2> QED BY <2>1, <2>2, <2>3 DEF Tick, NewSafeBlock, WalletsChange
<1>5. TypeOK'
  BY <1>1, <1>2, <1>3, <1>4 DEF Inv, TypeOK
<1>6. Within' /\ Phases' /\ RowsFit' /\ OneEach'
  BY <1>1, <1>2 DEF Inv, Within, Phases, RowsFit, RowFits, Running, OneEach, Busy
<1> QED BY <1>5, <1>6 DEF Inv

(* requestAudit up to the row: only the asker's own place in it changes.        *)
LEMMA AskingKeeps ==
  ASSUME Inv, NEW p \in Askers, NEW a \in Ask, Asking, ask' = [ask EXCEPT ![p] = a],
         phase = "up", ask[p].pc = "idle" => \A r \in Ids : Busy(r) => runs[r].by # p
  PROVE  Inv'
<1>1. UNCHANGED <<world, runs, latest, job, phase, torecover, told, spent>>
  BY DEF Asking, bot
<1>2. ask' \in [Askers -> Ask] /\ \A q \in Askers : q # p => ask'[q] = ask[q]
  BY DEF Inv, TypeOK
<1>3. TypeOK'
  BY <1>1, <1>2 DEF Inv, TypeOK, world
<1>4. Within' /\ Phases' /\ RowsFit'
  BY <1>1 DEF Inv, Within, Phases, RowsFit, RowFits, Running, world
<1>5. OneEach'
  BY <1>1, <1>2 DEF Inv, OneEach, Busy, Running
<1> QED BY <1>3, <1>4, <1>5 DEF Inv

LEMMA RequestingKeeps ==
  ASSUME Inv, NEW p \in Askers,
         \/ \E d \in Periods : Request(p, d)
         \/ Look(p) \/ SaysUnchanged(p) \/ BuildOn(p) \/ GivesOldResult(p) \/ MayStart(p)
  PROVE  Inv'
<1>1. Asking
  BY DEF Request, Look, SaysUnchanged, BuildOn, GivesOldResult, MayStart
<1>2. ask[p] \in Ask /\ ask \in [Askers -> Ask] /\ ask[p].days \in Periods
  BY DEF Inv, TypeOK, Ask
<1>3. latest[ask[p].days] \in Ids \cup {None}
  BY <1>2 DEF Inv, TypeOK
<1>4. ask[p].pc # "idle" => phase = "up"
  BY DEF Inv, Phases
<1>5. CASE \E d \in Periods : Request(p, d)
  <2>1. PICK d \in Periods : Request(p, d)
    BY <1>5
  <2>2. [NoAsk EXCEPT !.pc = "look", !.days = d] \in Ask
    BY Defaults DEF Ask
  <2>3. \A r \in Ids : ~Busy(r)
    BY <2>1 DEF Request, Busy, Inv, Phases
  <2> QED BY <1>1, <2>1, <2>2, <2>3, AskingKeeps DEF Request
<1>6. CASE SaysUnchanged(p) \/ GivesOldResult(p)
  BY <1>1, <1>4, <1>6, Defaults, AskingKeeps DEF SaysUnchanged, GivesOldResult
<1>7. CASE Look(p)
  <2> DEFINE last == latest[ask[p].days]
             a == [ask[p] EXCEPT !.last = last, !.pc = IF last # None /\ Holds(last) THEN "tip" ELSE "cap"]
  <2>1. a \in Ask
    BY <1>2, <1>3 DEF Ask
  <2>2. ask' = [ask EXCEPT ![p] = a]
    BY <1>2, <1>7 DEF Look
  <2> QED BY <1>1, <1>4, <1>7, <2>1, <2>2, AskingKeeps DEF Look
<1>8. CASE BuildOn(p)
  <2> DEFINE a == [ask[p] EXCEPT !.base = IF ask[p].days = 0 THEN ask[p].last ELSE None, !.pc = "cap"]
  <2>1. a \in Ask
    BY <1>2 DEF Ask
  <2>2. ask' = [ask EXCEPT ![p] = a]
    BY <1>2, <1>8 DEF BuildOn
  <2> QED BY <1>1, <1>4, <1>8, <2>1, <2>2, AskingKeeps DEF BuildOn
<1>9. CASE MayStart(p)
  <2> DEFINE a == [ask[p] EXCEPT !.pc = "start"]
  <2>1. a \in Ask
    BY <1>2 DEF Ask
  <2>2. ask' = [ask EXCEPT ![p] = a]
    BY <1>2, <1>9 DEF MayStart
  <2> QED BY <1>1, <1>4, <1>9, <2>1, <2>2, AskingKeeps DEF MayStart
<1> QED BY <1>5, <1>6, <1>7, <1>8, <1>9

(* The row is inserted: the asker had none that is busy.                       *)
LEMMA StartKeeps ==
  ASSUME Inv, NEW p \in Askers, NEW r \in Ids, Start(p, r) PROVE Inv'
<1> DEFINE row == [runs[r] EXCEPT !.status = "running", !.by = p, !.days = ask[p].days,
                                  !.base = ask[p].base, !.started = now]
<1>1. UNCHANGED <<world, latest, phase, torecover, told, spent>>
  BY DEF Start, bot
<1>2. ask[p] \in Ask /\ runs[r] \in Row /\ now \in Nat
  BY DEF Inv, TypeOK
<1>3. row \in Row /\ row.status = "running" /\ row.by = p
  BY <1>2 DEF Row, Ask
<1>4. runs' = [runs EXCEPT ![r] = row] /\ job' = [job EXCEPT ![r] = NewJob] /\ ask' = [ask EXCEPT ![p] = NoAsk]
  BY DEF Start
<1>5. ask[p].pc = "start" /\ runs[r].status = "none" /\ phase = "up"
  BY DEF Start, Inv, Phases
<1> HIDE DEF row
<1>6. runs' \in [Ids -> Row] /\ runs'[r] = row /\ \A s \in Ids : s # r => runs'[s] = runs[s]
  BY <1>3, <1>4 DEF Inv, TypeOK
<1>7. job' \in [Ids -> Job] /\ job'[r] = NewJob /\ \A s \in Ids : s # r => job'[s] = job[s]
  BY <1>4, Defaults DEF Inv, TypeOK
<1>8. ask' \in [Askers -> Ask] /\ ask'[p] = NoAsk /\ \A q \in Askers : q # p => ask'[q] = ask[q]
  BY <1>4, Defaults DEF Inv, TypeOK
<1>9. NewJob.pc = "begin" /\ NewJob.safe = 0 /\ NoAsk.pc = "idle"
  BY DEF NewJob, NoJob, NoAsk
<1>10. TypeOK'
  BY <1>1, <1>6, <1>7, <1>8 DEF Inv, TypeOK, world
<1>11. Within'
  BY <1>1, <1>7, <1>9, AuditAssumption DEF Inv, Within, world
<1>12. Phases'
  BY <1>1, <1>5 DEF Inv, Phases
<1>13. RowsFit'
  BY <1>1, <1>3, <1>5, <1>6, <1>7, <1>9 DEF Inv, RowsFit, RowFits, Running
<1>14. OneEach'
  BY <1>1, <1>3, <1>5, <1>6, <1>8, <1>9 DEF Inv, OneEach, Busy, Running
<1> QED BY <1>10, <1>11, <1>12, <1>13, <1>14 DEF Inv

-----------------------------------------------------------------------------
(* A step of a check in the bot's memory: its row is as it was.                 *)
LEMMA JobStepKeeps ==
  ASSUME Inv, NEW r \in Ids, NEW j \in Job, UNCHANGED <<runs, latest, told>>, Working,
         job[r].pc \in {"begin", "wallets", "trace"}, j.pc \in {"wallets", "trace"},
         job' = [job EXCEPT ![r] = j], j.safe \in 0 .. MaxBlock, j.pc = "trace" => j.at # 0
  PROVE  Inv'
<1>1. UNCHANGED <<world, ask, phase, torecover, spent, runs, latest, told>>
  BY DEF Working, bot
<1>2. job' \in [Ids -> Job] /\ job'[r] = j /\ \A s \in Ids : s # r => job'[s] = job[s]
  BY DEF Inv, TypeOK
<1>3. TypeOK'
  BY <1>1, <1>2 DEF Inv, TypeOK, world
<1>4. Within'
  BY <1>1, <1>2 DEF Inv, Within, world
<1>5. Phases'
  BY <1>1, <1>2 DEF Inv, Phases
<1>6. RowsFit'
  BY <1>1, <1>2 DEF Inv, RowsFit, RowFits, Running
<1>7. OneEach'
  BY <1>1 DEF Inv, OneEach, Busy, Running
<1> QED BY <1>3, <1>4, <1>5, <1>6, <1>7 DEF Inv

LEMMA CheckingKeeps ==
  ASSUME Inv, NEW r \in Ids,
         \/ Begin(r) \/ TraceNext(r) \/ CloseWallet(r)
         \/ \E w \in Wallets : Skip(r, w) \/ OpenWallet(r, w)
  PROVE  Inv'
<1>1. job[r] \in Job /\ job \in [Ids -> Job] /\ job[r].safe \in 0 .. MaxBlock /\ job[r].safe \in Nat
  BY AuditAssumption DEF Inv, TypeOK, Within
<1>2. job[r].pc = "trace" => job[r].at # 0
  BY DEF Inv, Within
<1>3. tip \in 0 .. MaxBlock /\ tip \in Nat /\ active \subseteq Wallets
  BY AuditAssumption DEF Inv, TypeOK, Within, Blocks
<1>4. TypeOK
  BY DEF Inv
<1>5. job[r].result \in Result /\ job[r].w \in Wallets /\ job[r].todo \subseteq Wallets /\ job[r].at \in Nat
  BY <1>1 DEF Job
<1>6. CASE Begin(r)
  <2> DEFINE j == [job[r] EXCEPT !.pc = "wallets", !.safe = tip, !.todo = active,
                                 !.result = [NoResult EXCEPT !.gaps = Base(r).gaps]]
  <2>1. [NoResult EXCEPT !.gaps = Base(r).gaps] \in Result
    BY <1>4, BaseType, Defaults DEF Result
  <2>2. j \in Job /\ j.pc = "wallets" /\ j.safe = tip
    BY <1>1, <1>3, <2>1 DEF Job
  <2>3. job' = [job EXCEPT ![r] = j]
    BY <1>6 DEF Begin
  <2> HIDE DEF j
  <2> QED BY <1>3, <1>6, <2>2, <2>3, JobStepKeeps DEF Begin
<1>7. CASE TraceNext(r)
  <2> DEFINE new == job[r].result.gaps \cup Found(job[r].w, job[r].at, job[r].reached)
             res == [job[r].result EXCEPT !.gaps = new]
             j == [job[r] EXCEPT !.at = job[r].at + 1, !.result = res]
  <2>1. job[r].at \in Blocks
    BY <1>1, <1>2, <1>5, <1>7, AuditAssumption DEF TraceNext, Blocks
  <2>2. new \subseteq Wallets \X Blocks \X Kinds
    BY <1>4, <1>5, <2>1, FoundType DEF Result
  <2> HIDE DEF new
  <2>3. res \in Result
    BY <1>5, <2>2 DEF Result
  <2> HIDE DEF res
  <2>4. j \in Job /\ j.pc = "trace" /\ j.safe = job[r].safe /\ j.at = job[r].at + 1
    <3> DEFINE old == job[r]
    <3>1. old \in Job /\ old.at \in Nat /\ old.pc = "trace"
      BY <1>1, <1>5, <1>7 DEF TraceNext
    <3> HIDE DEF old
    <3> DEFINE next == old.at + 1
    <3>2. next \in Nat
      BY <3>1
    <3> HIDE DEF next
    <3>3. [old EXCEPT !.at = next, !.result = res] \in Job
      BY <2>3, <3>1, <3>2 DEF Job
    <3>4. /\ [old EXCEPT !.at = next, !.result = res].pc = "trace"
          /\ [old EXCEPT !.at = next, !.result = res].safe = old.safe
          /\ [old EXCEPT !.at = next, !.result = res].at = next
      BY <3>1 DEF Job
    <3> QED BY <3>3, <3>4 DEF old, next
  <2>5. job' = [job EXCEPT ![r] = j]
    BY <1>1, <1>7 DEF TraceNext, new, res
  <2> HIDE DEF j
  <2>6. j.at # 0
    BY <1>5, <2>4
  <2> QED BY <1>1, <1>7, <2>4, <2>5, <2>6, JobStepKeeps DEF TraceNext
<1>8. CASE CloseWallet(r)
  <2> DEFINE prev == Base(r).parts[job[r].w]
             part == [from |-> IF prev = NoPart THEN FirstBlock(runs[r].days, job[r].safe) ELSE prev.from,
                      to |-> job[r].safe, sig |-> Signed(r)]
             res == [job[r].result EXCEPT !.parts[job[r].w] = part]
             j == [job[r] EXCEPT !.pc = "wallets", !.todo = @ \ {job[r].w}, !.result = res]
  <2>1. prev \in Part
    BY <1>4, <1>5, BaseType
  <2>2. runs[r].days \in Nat
    BY <1>4, AuditAssumption DEF TypeOK, Row
  <2>3. FirstBlock(runs[r].days, job[r].safe) \in Nat
    BY <1>1, <2>2, FirstBlockType
  <2>4. Signed(r) \in Signature
    BY <1>1, Defaults DEF Signed, Job
  <2>5. part \in Part
    BY <1>1, <2>1, <2>3, <2>4 DEF Part
  <2> HIDE DEF part
  <2>6. res \in Result
    BY <1>5, <2>5 DEF Result
  <2> HIDE DEF res
  <2>7. j \in Job /\ j.pc = "wallets" /\ j.safe = job[r].safe
    BY <1>1, <1>5, <2>6 DEF Job
  <2>8. job' = [job EXCEPT ![r] = j]
    BY <1>1, <1>8 DEF CloseWallet, part, res
  <2> HIDE DEF j
  <2> QED BY <1>1, <1>8, <2>7, <2>8, JobStepKeeps DEF CloseWallet
<1>9. ASSUME NEW w \in Wallets, Skip(r, w) PROVE Inv'
  <2> DEFINE j == [job[r] EXCEPT !.todo = @ \ {w}]
  <2>1. j \in Job /\ j.pc = "wallets" /\ j.safe = job[r].safe
    BY <1>1, <1>5, <1>9 DEF Job, Skip
  <2>2. job' = [job EXCEPT ![r] = j]
    BY <1>1, <1>9 DEF Skip
  <2> HIDE DEF j
  <2> QED BY <1>1, <1>9, <2>1, <2>2, JobStepKeeps DEF Skip
<1>10. ASSUME NEW w \in Wallets, OpenWallet(r, w) PROVE Inv'
  <2> DEFINE at == Window(r, w, job[r].safe)
             before == RangeSignature(w, job[r].safe)
             j == [job[r] EXCEPT !.pc = "trace", !.w = w, !.reached = synced[w], !.at = at, !.before = before]
  <2>1. at \in Nat \ {0} /\ before \in Signature /\ synced[w] \in Nat
    BY <1>1, <1>4, WindowType, RangeSignatureType DEF TypeOK
  <2>2. job' = [job EXCEPT ![r] = j]
    BY <1>10 DEF OpenWallet
  <2> HIDE DEF at, before
  <2>3. j \in Job /\ j.pc = "trace" /\ j.safe = job[r].safe /\ j.at = at
    <3> DEFINE old == job[r]
    <3>1. old \in Job
      BY <1>1
    <3> HIDE DEF old
    <3>2. [old EXCEPT !.pc = "trace", !.w = w, !.reached = synced[w], !.at = at, !.before = before] \in Job
      BY <2>1, <3>1 DEF Job
    <3>3. j = [old EXCEPT !.pc = "trace", !.w = w, !.reached = synced[w], !.at = at, !.before = before]
      BY DEF old
    <3>4. old.safe = job[r].safe
      BY DEF old
    <3> QED BY <3>1, <3>2, <3>3, <3>4 DEF Job
  <2> HIDE DEF j
  <2> QED BY <1>1, <1>10, <2>1, <2>2, <2>3, JobStepKeeps DEF OpenWallet
<1> QED BY <1>6, <1>7, <1>8, <1>9, <1>10

-----------------------------------------------------------------------------
(* A row and its job change together; every other row stays, and the row       *)
(* becomes busy only if it was.                                             *)
LEMMA RowStepKeeps ==
  ASSUME Inv, NEW r \in Ids, NEW row \in Row, NEW j \in Job, NEW n \in Nat,
         UNCHANGED <<world, ask, phase>>, latest' \in [Periods -> Ids \cup {None}],
         spent' \in [changes: Nat, faults: Nat, crashes: Nat],
         runs' = [runs EXCEPT ![r] = row], job' = [job EXCEPT ![r] = j], told' = [told EXCEPT ![r] = n],
         torecover' = torecover \/ (phase = "recovering" /\ torecover' = torecover \ {r}),
         j.safe \in 0 .. MaxBlock, j.pc # "trace", phase = "down" => j.pc = "idle",
         row.by = runs[r].by, row.status = "running" \/ r \in torecover' => Busy(r),
         RowFits(r)'
  PROVE  Inv'
<1>1. runs' \in [Ids -> Row] /\ runs'[r] = row /\ \A s \in Ids : s # r => runs'[s] = runs[s]
  BY DEF Inv, TypeOK
<1>2. job' \in [Ids -> Job] /\ job'[r] = j /\ \A s \in Ids : s # r => job'[s] = job[s]
  BY DEF Inv, TypeOK
<1>3. told' \in [Ids -> Nat] /\ told'[r] = n /\ \A s \in Ids : s # r => told'[s] = told[s]
  BY DEF Inv, TypeOK
<1>4. torecover' \subseteq Ids /\ \A s \in Ids : s # r => (s \in torecover' <=> s \in torecover)
  BY DEF Inv, TypeOK
<1>5. TypeOK'
  BY <1>1, <1>2, <1>3, <1>4 DEF Inv, TypeOK, world
<1>6. Within'
  BY <1>2 DEF Inv, Within, world
<1>7. Phases'
  BY <1>2 DEF Inv, Phases
<1>8. RowsFit'
  BY <1>1, <1>2, <1>3, <1>4 DEF Inv, RowsFit, RowFits, Running
<1>9. \A s \in Ids : runs'[s].by = runs[s].by /\ (Busy(s)' => Busy(s))
  BY <1>1, <1>4 DEF Busy, Running
<1>10. OneEach'
  BY <1>9 DEF Inv, OneEach
<1> QED BY <1>5, <1>6, <1>7, <1>8, <1>10 DEF Inv

LEMMA EndingKeeps ==
  ASSUME Inv, NEW r \in Ids,
         Complete(r) \/ Fail(r) \/ Tell(r) \/ Mark(r) \/ DeliveryFails(r)
  PROVE  Inv'
<1> DEFINE done == runs'[r]
           left == job'[r]
<1>1. /\ runs \in [Ids -> Row] /\ job \in [Ids -> Job] /\ told \in [Ids -> Nat] /\ now \in Nat
      /\ latest \in [Periods -> Ids \cup {None}] /\ spent \in [changes: Nat, faults: Nat, crashes: Nat]
      /\ runs[r].days \in Periods /\ job[r].safe \in 0 .. MaxBlock /\ RowFits(r)
  BY DEF Inv, TypeOK, Row, Within, RowsFit
<1>2. NoJob \in Job /\ NoJob.pc = "idle" /\ NoJob.safe \in 0 .. MaxBlock
  BY Defaults, AuditAssumption DEF NoJob
<1>3. phase = "down" => job[r].pc = "idle"
  BY DEF Inv, Phases
<1>4. spent' \in [changes: Nat, faults: Nat, crashes: Nat]
  BY <1>1 DEF Complete, Fail, Tell, Mark, DeliveryFails, Fault, Working
<1>5. UNCHANGED <<world, ask, phase, torecover>>
  BY DEF Complete, Fail, Tell, Mark, DeliveryFails, Working, bot
<1>6. latest' \in [Periods -> Ids \cup {None}]
  BY <1>1 DEF Complete, Fail, Tell, Mark, DeliveryFails
<1>7. CASE Complete(r)
  <2> DEFINE row == [runs[r] EXCEPT !.status = "complete", !.finished = now, !.result = job[r].result]
             j == Telling
  <2>1. row \in Row /\ row.status = "complete" /\ row.by = runs[r].by
    <3>1. job[r].result \in Result
      BY <1>1 DEF Job
    <3> QED BY <1>1, <3>1, ZenonT(30) DEF Row
  <2>2. j \in Job /\ j.pc = "tell" /\ j.safe \in 0 .. MaxBlock
    BY Defaults, AuditAssumption DEF Telling, NoJob
  <2>3. runs' = [runs EXCEPT ![r] = row] /\ job' = [job EXCEPT ![r] = j] /\ told' = [told EXCEPT ![r] = told[r]]
    BY <1>1, <1>7 DEF Complete
  <2>4. job[r].pc = "wallets" /\ told[r] \in Nat
    BY <1>1, <1>7 DEF Complete
  <2> HIDE DEF row, j
  <2>5. RowFits(r)'
    BY <1>1, <1>5, <2>1, <2>2, <2>3, <2>4 DEF RowFits, Running
  <2>6. r \in torecover' => Busy(r)
    BY <1>5 DEF Busy
  <2> QED BY <1>1, <1>3, <1>4, <1>5, <1>6, <2>1, <2>2, <2>3, <2>4, <2>5, <2>6, RowStepKeeps
<1>8. CASE Fail(r) /\ job' # [job EXCEPT ![r] = NoJob]
  <2> DEFINE row == [runs[r] EXCEPT !.status = "failed", !.finished = now]
             j == Telling
  <2>1. row \in Row /\ row.status = "failed" /\ row.by = runs[r].by
    BY <1>1, ZenonT(30) DEF Row
  <2>2. j \in Job /\ j.pc = "tell" /\ j.safe \in 0 .. MaxBlock
    BY Defaults, AuditAssumption DEF Telling, NoJob
  <2>3. runs' = [runs EXCEPT ![r] = row] /\ job' = [job EXCEPT ![r] = j] /\ told' = [told EXCEPT ![r] = told[r]]
    BY <1>1, <1>8 DEF Fail
  <2>4. job[r].pc \in {"begin", "wallets", "trace"} /\ told[r] \in Nat
    BY <1>1, <1>8 DEF Fail
  <2> HIDE DEF row, j
  <2>5. RowFits(r)'
    BY <1>1, <1>5, <2>1, <2>2, <2>3, <2>4 DEF RowFits, Running
  <2>6. r \in torecover' => Busy(r)
    BY <1>5 DEF Busy
  <2> QED BY <1>1, <1>3, <1>4, <1>5, <1>6, <2>1, <2>2, <2>3, <2>4, <2>5, <2>6, RowStepKeeps
<1>9. CASE DeliveryFails(r) \/ Tell(r) \/ Mark(r) \/ (Fail(r) /\ job' = [job EXCEPT ![r] = NoJob])
  <2> DEFINE row == IF Mark(r) THEN [runs[r] EXCEPT !.delivered = TRUE] ELSE runs[r]
             j == IF Tell(r) THEN [job[r] EXCEPT !.pc = "mark"] ELSE NoJob
             n == IF Tell(r) THEN told[r] + 1 ELSE told[r]
  <2>1. runs[r] \in Row
    BY <1>1
  <2>2. row \in Row /\ row.status = runs[r].status /\ row.by = runs[r].by
    BY <2>1 DEF Row
  <2>3. [job[r] EXCEPT !.pc = "mark"] \in Job
    BY <1>1 DEF Job
  <2>4. j \in Job /\ j.pc \in {"idle", "mark"} /\ j.safe \in 0 .. MaxBlock /\ n \in Nat
    BY <1>1, <1>2, <2>3 DEF Job
  <2>5. runs' = [runs EXCEPT ![r] = row]
    <3>1. Mark(r) => runs' = [runs EXCEPT ![r].delivered = TRUE]
      BY DEF Mark
    <3>2. ~Mark(r) => runs' = runs
      <4>2. Fail(r) /\ job' = [job EXCEPT ![r] = NoJob] => runs' = runs
        <5>1. [job EXCEPT ![r] = Telling][r].pc = "tell" /\ [job EXCEPT ![r] = NoJob][r] = NoJob
          BY <1>1 DEF Telling, NoJob
        <5> QED BY <1>2, <5>1 DEF Fail
      <4> QED BY <1>9, <4>2 DEF DeliveryFails, Tell
    <3> QED BY <1>1, <3>1, <3>2
  <2>6. job' = [job EXCEPT ![r] = j]
    BY <1>1, <1>9 DEF DeliveryFails, Tell, Mark, Fail
  <2>7. told' = [told EXCEPT ![r] = n]
    BY <1>1, <1>9 DEF DeliveryFails, Tell, Mark, Fail
  <2>8. job[r].pc # "idle" /\ (j.pc = "mark" => job[r].pc = "tell") /\ (n # told[r] => j.pc = "mark" /\ n = told[r] + 1)
    BY <1>2, <1>9 DEF DeliveryFails, Tell, Mark, Fail
  <2>9. job'[r] = j /\ told'[r] = n /\ runs'[r] = row
    BY <1>1, <2>5, <2>6, <2>7
  <2> HIDE DEF row, j, n
  <2>10. RowFits(r)'
    BY <1>1, <1>5, <2>2, <2>4, <2>8, <2>9 DEF RowFits, Running
  <2>11. row.status = "running" \/ r \in torecover' => Busy(r)
    BY <1>5, <2>2 DEF Busy, Running
  <2> QED BY <1>1, <1>3, <1>4, <1>5, <1>6, <2>2, <2>4, <2>5, <2>6, <2>7, <2>8, <2>10, <2>11, RowStepKeeps
<1> QED BY <1>7, <1>8, <1>9

-----------------------------------------------------------------------------
(* The bot ends, and recovers.                                                *)
LEMMA CrashKeeps == ASSUME Inv, Crash PROVE Inv'
<1>1. ask' = [p \in Askers |-> NoAsk] /\ job' = [r \in Ids |-> NoJob] /\ phase' = "down" /\ torecover' = {}
  BY DEF Crash
<1>2. UNCHANGED <<world, runs, latest, told>>
  BY DEF Crash
<1>3. NoAsk.pc = "idle" /\ NoJob.pc = "idle" /\ NoJob.safe \in 0 .. MaxBlock
  BY AuditAssumption DEF NoAsk, NoJob
<1>4. spent' \in [changes: Nat, faults: Nat, crashes: Nat]
  BY DEF Crash, Inv, TypeOK
<1>5. TypeOK'
  BY <1>1, <1>2, <1>4, Defaults DEF Inv, TypeOK, world
<1>6. Within' /\ Phases'
  BY <1>1, <1>2, <1>3 DEF Inv, Within, Phases, world
<1>7. RowsFit'
  BY <1>1, <1>2, <1>3 DEF Inv, RowsFit, RowFits, Running
<1>8. OneEach'
  BY <1>1, <1>2, <1>3 DEF Inv, OneEach, Busy, Running
<1> QED BY <1>5, <1>6, <1>7, <1>8 DEF Inv

LEMMA MarkInterruptedKeeps == ASSUME Inv, MarkInterrupted PROVE Inv'
<1>1. /\ phase = "down" /\ phase' = "recovering" /\ torecover' = {r \in Ids : Running(r)}
      /\ UNCHANGED <<world, latest, ask, job, told, spent>>
  BY DEF MarkInterrupted, PicksUp
<1>2. runs' = [r \in Ids |->
        IF Running(r) THEN [runs[r] EXCEPT !.status = "interrupted", !.finished = now] ELSE runs[r]]
  BY DEF MarkInterrupted, PicksUp
<1>3. \A r \in Ids : runs[r] \in Row /\ now \in Nat
  BY DEF Inv, TypeOK
<1>4. ASSUME NEW r \in Ids
      PROVE  /\ runs'[r] \in Row /\ runs'[r].by = runs[r].by
             /\ Running(r) => runs'[r].status = "interrupted"
             /\ ~Running(r) => runs'[r] = runs[r]
  <2>1. [runs[r] EXCEPT !.status = "interrupted", !.finished = now] \in Row
    BY <1>3 DEF Row
  <2>2. /\ [runs[r] EXCEPT !.status = "interrupted", !.finished = now].by = runs[r].by
        /\ [runs[r] EXCEPT !.status = "interrupted", !.finished = now].status = "interrupted"
    BY <1>3 DEF Row
  <2> QED BY <1>2, <1>3, <2>1, <2>2
<1>5. runs' \in [Ids -> Row]
  BY <1>2, <1>4
<1>6. TypeOK'
  BY <1>1, <1>5 DEF Inv, TypeOK, world
<1>7. Within' /\ Phases'
  BY <1>1 DEF Inv, Within, Phases, world
<1>8. \A r \in Ids : job[r].pc = "idle" /\ torecover = {} /\ RowFits(r)
  BY <1>1 DEF Inv, Phases, RowsFit
<1>9. RowsFit'
  <2> SUFFICES ASSUME NEW r \in Ids PROVE RowFits(r)'
    BY DEF RowsFit
  <2> QED BY <1>1, <1>4, <1>8 DEF RowFits, Running
<1>10. \A r \in Ids : Busy(r)' => Busy(r)
  BY <1>1, <1>4 DEF Busy, Running
<1>11. OneEach'
  BY <1>1, <1>4, <1>10 DEF Inv, OneEach
<1> QED BY <1>6, <1>7, <1>9, <1>11 DEF Inv

LEMMA RecoveringKeeps ==
  ASSUME Inv, NEW r \in Ids, Retry(r) \/ Report(r) PROVE Inv'
<1>1. /\ runs \in [Ids -> Row] /\ job \in [Ids -> Job] /\ told \in [Ids -> Nat]
      /\ latest \in [Periods -> Ids \cup {None}] /\ spent \in [changes: Nat, faults: Nat, crashes: Nat]
      /\ runs[r] \in Row /\ job[r] \in Job /\ told[r] \in Nat /\ job[r].safe \in 0 .. MaxBlock
  BY DEF Inv, TypeOK, Within
<1>2. /\ phase = "recovering" /\ r \in torecover /\ torecover' = torecover \ {r}
      /\ UNCHANGED <<world, ask, phase, latest>>
  BY DEF Retry, Report
<1>3. RowFits(r) /\ Busy(r)
  BY <1>2 DEF Inv, RowsFit, Busy
<1>4. job[r].pc = "idle" /\ told[r] = 0 /\ runs[r].status = "interrupted"
  BY <1>2, <1>3 DEF RowFits
<1>5. CASE Retry(r)
  <2> DEFINE row == [runs[r] EXCEPT !.status = "running", !.attempts = runs[r].attempts + 1]
  <2>1. row \in Row /\ row.status = "running" /\ row.by = runs[r].by
    <3>1. runs[r].attempts + 1 \in Nat
      BY <1>1 DEF Row
    <3> QED BY <1>1, <3>1 DEF Row
  <2>2. NewJob \in Job /\ NewJob.pc = "begin" /\ NewJob.safe \in 0 .. MaxBlock
    BY Defaults, AuditAssumption DEF NewJob, NoJob
  <2>3. /\ runs' = [runs EXCEPT ![r] = row] /\ job' = [job EXCEPT ![r] = NewJob]
        /\ told' = [told EXCEPT ![r] = told[r]] /\ spent' = spent
    <3>1. runs' = [runs EXCEPT ![r] = row]
      BY <1>5 DEF Retry
    <3>2. told' = told /\ [told EXCEPT ![r] = told[r]] = told
      BY <1>1, <1>5 DEF Retry
    <3> QED BY <1>5, <3>1, <3>2 DEF Retry
  <2> HIDE DEF row
  <2>4. RowFits(r)'
    BY <1>1, <1>2, <1>4, <2>1, <2>2, <2>3 DEF RowFits, Running
  <2> QED BY <1>1, <1>2, <1>3, <2>1, <2>2, <2>3, <2>4, RowStepKeeps
<1>6. CASE Report(r)
  <2>1. \/ told' = [told EXCEPT ![r] = 1] /\ runs' = [runs EXCEPT ![r].delivered = TRUE] /\ spent' = spent
        \/ told' = [told EXCEPT ![r] = 0] /\ runs' = runs /\ spent' = [spent EXCEPT !.faults = @ + 1]
    BY <1>1, <1>4, <1>6 DEF Report, Fault
  <2>2. job' = [job EXCEPT ![r] = job[r]]
    BY <1>1, <1>6 DEF Report
  <2>3. PICK rw \in Row, m \in {0, 1} :
          /\ runs' = [runs EXCEPT ![r] = rw] /\ told' = [told EXCEPT ![r] = m]
          /\ rw.status = "interrupted" /\ rw.by = runs[r].by
    <3>1. [runs[r] EXCEPT !.delivered = TRUE] \in Row
      BY <1>1 DEF Row
    <3>2. /\ [runs[r] EXCEPT !.delivered = TRUE].status = runs[r].status
          /\ [runs[r] EXCEPT !.delivered = TRUE].by = runs[r].by
      BY <1>1 DEF Row
    <3>3. runs = [runs EXCEPT ![r] = runs[r]]
      BY <1>1
    <3> QED BY <1>1, <1>4, <2>1, <3>1, <3>2, <3>3
  <2>4. RowFits(r)'
    BY <1>1, <1>2, <1>4, <2>2, <2>3 DEF RowFits, Running
  <2>5. spent' \in [changes: Nat, faults: Nat, crashes: Nat]
    BY <1>1, <2>1
  <2>6. job[r].pc # "trace" /\ m \in Nat
    BY <1>4
  <2> QED BY <1>1, <1>2, <1>3, <1>4, <2>2, <2>3, <2>4, <2>5, <2>6, RowStepKeeps
<1> QED BY <1>5, <1>6

LEMMA LaunchKeeps == ASSUME Inv, Launch PROVE Inv'
<1>1. UNCHANGED <<world, runs, latest, ask, job, torecover, told, spent>> /\ phase' = "up" /\ torecover = {}
  BY DEF Launch
<1>2. TypeOK'
  BY <1>1 DEF Inv, TypeOK, world
<1>3. Within' /\ Phases'
  BY <1>1 DEF Inv, Within, Phases, world
<1>4. RowsFit' /\ OneEach'
  BY <1>1 DEF Inv, RowsFit, RowFits, OneEach, Busy, Running
<1> QED BY <1>2, <1>3, <1>4 DEF Inv

LEMMA Initially == Init => Inv
<1> SUFFICES ASSUME Init PROVE Inv
  OBVIOUS
<1>1. NoAsk.pc = "idle" /\ NoJob.pc = "idle" /\ NoJob.safe \in 0 .. MaxBlock /\ NoAsk.days \in Periods
  BY Defaults, AuditAssumption DEF NoAsk, NoJob, Ask
<1>2. (CHOOSE p \in Askers : TRUE) \in Askers
  BY AuditAssumption
<1>3. [status |-> "none", by |-> CHOOSE p \in Askers : TRUE, days |-> NoAsk.days, base |-> None,
       attempts |-> 1, started |-> 0, finished |-> 0, result |-> NoResult, delivered |-> FALSE] \in Row
  BY <1>1, <1>2, Defaults DEF Row
<1>4. runs \in [Ids -> Row] /\ \A r \in Ids : runs[r].status = "none"
  BY <1>3 DEF Init
<1>5. books \in [Wallets -> [Blocks -> [at: Stops, id: Nat]]]
  BY AuditAssumption DEF Init
<1>6. TypeOK
  BY <1>4, <1>5, Defaults DEF Init, TypeOK
<1>7. Within /\ Phases
  BY <1>1, AuditAssumption DEF Init, Within, Phases, Blocks
<1>8. RowsFit
  BY <1>1, <1>4 DEF Init, RowsFit, RowFits, Running
<1>9. OneEach
  BY <1>1, <1>4 DEF Init, OneEach, Busy, Running
<1> QED BY <1>6, <1>7, <1>8, <1>9 DEF Inv

LEMMA Invariance == Inv /\ [Next]_vars => Inv'
<1> SUFFICES ASSUME Inv, [Next]_vars PROVE Inv'
  OBVIOUS
<1>1. CASE Outside
  BY <1>1, WorldKeeps, CrashKeeps DEF Outside
<1>2. CASE Recovering
  BY <1>2, MarkInterruptedKeeps, LaunchKeeps, RecoveringKeeps DEF Recovering
<1>3. ASSUME NEW p \in Askers, Requesting(p) PROVE Inv'
  BY <1>3, RequestingKeeps, StartKeeps DEF Requesting
<1>4. ASSUME NEW r \in Ids, Checking(r) \/ Fail(r) \/ DeliveryFails(r) PROVE Inv'
  BY <1>4, CheckingKeeps, EndingKeeps DEF Checking
<1>5. CASE UNCHANGED vars
  <2>1. UNCHANGED <<world, runs, latest, ask, job, phase, torecover, told, spent>>
    BY <1>5 DEF vars, bot
  <2>2. TypeOK'
    BY <2>1 DEF Inv, TypeOK, world
  <2> QED BY <2>1, <2>2 DEF Inv, Within, Phases, RowsFit, RowFits, OneEach, Busy, Running, world
<1> QED BY <1>1, <1>2, <1>3, <1>4, <1>5 DEF Next

(* The inductive invariant of the checks: types, what memory holds in each phase of  *)
(* the bot, what a row says of its job and of what was told, and one check an asker   *)
(* (audit-runs.ts, requestAudit to recoverAudits).                              *)
THEOREM AuditsInvariant == Spec => []Inv
  BY Initially, Invariance, PTL DEF Spec

(* The variables keep their types (the columns of audit_runs, and the parts of a      *)
(* summary; audit-runs.ts:59-74, 132-144).                                       *)
THEOREM AuditTypes == Spec => []TypeOK
<1>1. Inv => TypeOK
  BY DEF Inv
<1> QED BY <1>1, AuditsInvariant, PTL

(* One asker never has two checks running, however requests, restarts and failures   *)
(* fall (requestAudit 150-154, recoverAudits 361-383).                            *)
THEOREM AuditsOnePerAsker == Spec => []OneRunPerAsker
<1>1. Inv => OneRunPerAsker
  <2> SUFFICES ASSUME Inv, NEW p \in Askers
               PROVE  Cardinality({r \in Ids : Running(r) /\ runs[r].by = p}) <= 1
    BY DEF OneRunPerAsker
  <2> DEFINE mine == {r \in Ids : Running(r) /\ runs[r].by = p}
  <2>1. \A r, s \in mine : r = s
    BY DEF Inv, OneEach, Busy
  <2>2. CASE mine = {}
    BY <2>2, FS_EmptySet
  <2>3. CASE mine # {}
    <3>1. PICK r \in mine : TRUE
      BY <2>3
    <3>2. mine = {r}
      BY <2>1, <3>1
    <3> HIDE DEF mine
    <3>3. Cardinality(mine) = 1
      BY <3>2, FS_Singleton
    <3> QED BY <3>3 DEF mine
  <2> QED BY <2>2, <2>3
<1> QED BY <1>1, AuditsInvariant, PTL

(* A check's outcome is never sent twice (deliver 345-359, recoverAudits 376-380).     *)
THEOREM AuditsToldOnce == Spec => []ToldAtMostOnce
<1>1. Inv => ToldAtMostOnce
  BY DEF Inv, RowsFit, RowFits, ToldAtMostOnce
<1> QED BY <1>1, AuditsInvariant, PTL

-----------------------------------------------------------------------------
(* The promise of Outcomes: each step changes one request's fate as promised,   *)
(* or gives some up.                                                         *)
LEMMA FateStep ==
  ASSUME NEW r \in Ids, \A s \in Ids : s # r => Fate(s)' = Fate(s),
         \/ Fate(r)' = Fate(r)
         \/ Fate(r) = "none" /\ Fate(r)' = "due"
         \/ Fate(r) = "due" /\ Fate(r)' \in {"told", "lost"}
  PROVE  [Promise!Next]_([s \in Ids |-> Fate(s)])
<1> DEFINE state == [s \in Ids |-> Fate(s)]
<1>1. CASE Fate(r)' = Fate(r)
  BY <1>1
<1>2. CASE Fate(r) = "none" /\ Fate(r)' = "due"
  <2>1. state' = [state EXCEPT ![r] = "due"] /\ state[r] = "none"
    BY <1>2
  <2> QED BY <2>1 DEF Promise!Next, Promise!Accept, Promise!Become
<1>3. CASE Fate(r) = "due" /\ Fate(r)' = "told"
  <2>1. state' = [state EXCEPT ![r] = "told"] /\ state[r] = "due"
    BY <1>3
  <2> QED BY <2>1 DEF Promise!Next, Promise!Tell, Promise!Become
<1>4. CASE Fate(r) = "due" /\ Fate(r)' = "lost"
  <2>1. state' = [s \in Ids |-> IF s \in {r} THEN "lost" ELSE state[s]] /\ state[r] = "due"
    BY <1>4
  <2>2. {r} \in SUBSET {s \in Ids : state[s] = "due"}
    BY <2>1
  <2> QED BY <2>1, <2>2 DEF Promise!Next, Promise!GiveUp
<1> QED BY <1>1, <1>2, <1>3, <1>4

(* A step that touches one row and its job touches one fate.                   *)
LEMMA OthersKeepFate ==
  ASSUME Inv, NEW r \in Ids,
         \A s \in Ids \ {r} : runs'[s] = runs[s] /\ job'[s] = job[s] /\ told'[s] = told[s]
                              /\ (s \in torecover' <=> s \in torecover)
  PROVE  \A s \in Ids : s # r => Fate(s)' = Fate(s)
  BY DEF Fate, Running

LEMMA UnchangedFate ==
  ASSUME UNCHANGED <<runs, job, told, torecover>>
  PROVE  UNCHANGED [s \in Ids |-> Fate(s)]
  BY DEF Fate, Running

LEMMA StepKeepsPromise ==
  ASSUME Inv, [Next]_vars PROVE [Promise!Next]_([s \in Ids |-> Fate(s)])
<1>1. /\ runs \in [Ids -> Row] /\ job \in [Ids -> Job] /\ told \in [Ids -> Nat]
      /\ \A r \in Ids : RowFits(r)
  BY DEF Inv, TypeOK, RowsFit
<1>2. CASE UNCHANGED <<runs, job, told, torecover>>
  BY <1>2, UnchangedFate
<1>3. CASE Crash
  <2> DEFINE state == [s \in Ids |-> Fate(s)]
             R == {s \in Ids : Fate(s) = "due" /\ ~Running(s)}
  <2>1. UNCHANGED <<runs, told>> /\ torecover' = {} /\ \A s \in Ids : job'[s].pc = "idle"
    BY <1>3 DEF Crash, NoJob
  <2>2. \A s \in Ids : Fate(s)' = IF s \in R THEN "lost" ELSE Fate(s)
    BY <2>1 DEF Fate, Running
  <2>3. R \in SUBSET {s \in Ids : state[s] = "due"}
    OBVIOUS
  <2>4. state' = [s \in Ids |-> IF s \in R THEN "lost" ELSE state[s]]
    BY <2>2
  <2> QED BY <2>3, <2>4 DEF Promise!Next, Promise!GiveUp
<1>4. CASE MarkInterrupted
  <2>1. UNCHANGED <<job, told>> /\ torecover = {} /\ torecover' = {r \in Ids : Running(r)}
    BY <1>4 DEF MarkInterrupted, PicksUp, Inv, Phases
  <2>2. ASSUME NEW s \in Ids PROVE Fate(s)' = Fate(s)
    <3>1. CASE Running(s)
      <4>1. runs'[s].status = "interrupted" /\ runs[s] \in Row
        BY <1>1, <1>4, <3>1 DEF MarkInterrupted, PicksUp, Row
      <4> QED BY <1>1, <2>1, <3>1, <4>1 DEF Fate, Running, RowFits
    <3>2. CASE ~Running(s)
      <4>1. runs'[s] = runs[s]
        BY <1>4, <3>2 DEF MarkInterrupted, PicksUp
      <4> QED BY <2>1, <3>2, <4>1 DEF Fate, Running
    <3> QED BY <3>1, <3>2
  <2> QED BY <2>2
<1>5. ASSUME NEW r \in Ids, Retry(r) \/ Report(r) PROVE [Promise!Next]_([s \in Ids |-> Fate(s)])
  <2>1. \A s \in Ids : s # r => Fate(s)' = Fate(s)
    BY <1>1, <1>5, OthersKeepFate DEF Retry, Report
  <2>2. Fate(r) = "due" /\ told[r] = 0 /\ runs[r].status = "interrupted"
    BY <1>1, <1>5 DEF Retry, Report, Fate, RowFits
  <2>3. Retry(r) => Fate(r)' = "due"
    <3> SUFFICES ASSUME Retry(r) PROVE Fate(r)' = "due"
      OBVIOUS
    <3>1. runs'[r].status = "running" /\ told'[r] = 0
      BY <1>1, <2>2 DEF Retry, Row
    <3> QED BY <3>1 DEF Fate, Running
  <2>4. Report(r) => Fate(r)' \in {"told", "lost"}
    <3> SUFFICES ASSUME Report(r) PROVE Fate(r)' \in {"told", "lost"}
      OBVIOUS
    <3>1. runs'[r].status = "interrupted" /\ job'[r].pc = "idle" /\ r \notin torecover' /\ told'[r] \in {0, 1}
      BY <1>1, <2>2 DEF Report, Row, RowFits
    <3> QED BY <3>1 DEF Fate, Running
  <2> QED BY <1>5, <2>1, <2>2, <2>3, <2>4, FateStep
<1>6. ASSUME NEW p \in Askers, NEW r \in Ids, Start(p, r) PROVE [Promise!Next]_([s \in Ids |-> Fate(s)])
  <2>1. \A s \in Ids : s # r => Fate(s)' = Fate(s)
    BY <1>1, <1>6, OthersKeepFate DEF Start, bot
  <2>2. Fate(r) = "none" /\ told[r] = 0
    BY <1>1, <1>6 DEF Start, Fate, RowFits
  <2>3. runs'[r].status = "running" /\ told'[r] = 0
    BY <1>1, <1>6, <2>2 DEF Start, Row
  <2>4. Fate(r)' = "due"
    BY <2>3 DEF Fate, Running
  <2> QED BY <2>1, <2>2, <2>4, FateStep
<1>7. ASSUME NEW r \in Ids, Begin(r) \/ TraceNext(r) \/ CloseWallet(r) \/ \E w \in Wallets : Skip(r, w) \/ OpenWallet(r, w)
      PROVE [Promise!Next]_([s \in Ids |-> Fate(s)])
  <2>1. UNCHANGED <<runs, told, torecover>> /\ \A s \in Ids : s # r => job'[s] = job[s]
    BY <1>1, <1>7 DEF Begin, TraceNext, CloseWallet, Skip, OpenWallet, Working, bot
  <2>2. \A s \in Ids : s # r => Fate(s)' = Fate(s)
    BY <2>1, OthersKeepFate
  <2>3. Running(r) /\ told[r] = 0
    BY <1>1, <1>7 DEF Begin, TraceNext, CloseWallet, Skip, OpenWallet, RowFits
  <2>4. Fate(r)' = Fate(r)
    BY <2>1, <2>3 DEF Fate, Running
  <2> QED BY <2>2, <2>4, FateStep
<1>8. ASSUME NEW r \in Ids, Complete(r) \/ Fail(r) \/ Tell(r) \/ Mark(r) \/ DeliveryFails(r)
      PROVE [Promise!Next]_([s \in Ids |-> Fate(s)])
  <2>1. \A s \in Ids : s # r => Fate(s)' = Fate(s)
    BY <1>1, <1>8, OthersKeepFate DEF Complete, Fail, Tell, Mark, DeliveryFails, Working, bot
  <2>2. torecover' = torecover
    BY <1>8 DEF Complete, Fail, Tell, Mark, DeliveryFails, Working, bot
  <2>3. CASE Complete(r) \/ Fail(r)
    <3>1. Running(r) /\ told[r] = 0 /\ told'[r] = 0
      BY <1>1, <2>3 DEF Complete, Fail, RowFits
    <3>2. (job'[r].pc = "tell" /\ runs'[r].status # "none") \/ runs' = runs
      <4>1. runs[r] \in Row /\ job[r] \in Job
        BY <1>1
      <4>2. Complete(r) => job'[r].pc = "tell" /\ runs'[r].status = "complete"
        BY <1>1, <4>1 DEF Complete, Telling, NoJob, Row
      <4>3. Fail(r) => (job'[r].pc = "tell" /\ runs'[r].status = "failed") \/ runs' = runs
        <5>1. ASSUME runs' = [runs EXCEPT ![r] = [@ EXCEPT !.status = "failed", !.finished = now]]
              PROVE  runs'[r].status = "failed"
          BY <1>1, <4>1, <5>1 DEF Row
        <5>2. ASSUME job' = [job EXCEPT ![r] = Telling] PROVE job'[r].pc = "tell"
          BY <1>1, <5>2 DEF Telling, NoJob
        <5> QED BY <5>1, <5>2 DEF Fail
      <4> QED BY <2>3, <4>2, <4>3
    <3>3. Fate(r) = "due" /\ Fate(r)' = "due"
      BY <3>1, <3>2 DEF Fate, Running
    <3> QED BY <2>1, <3>3, FateStep
  <2>4. CASE Tell(r)
    <3>1. told[r] = 0 /\ told'[r] = 1 /\ job[r].pc = "tell" /\ runs[r].status # "none"
      BY <1>1, <2>4 DEF Tell, RowFits
    <3>2. Fate(r) = "due" /\ Fate(r)' = "told"
      BY <3>1 DEF Fate
    <3> QED BY <2>1, <3>2, FateStep
  <2>5. CASE Mark(r) \/ DeliveryFails(r)
    <3>1. job[r].pc \in {"tell", "mark"} /\ job'[r].pc = "idle" /\ told'[r] = told[r]
      BY <1>1, <2>5 DEF Mark, DeliveryFails, NoJob
    <3>2. runs'[r].status = runs[r].status /\ ~Running(r) /\ runs[r].status # "none" /\ r \notin torecover
      BY <1>1, <2>5, <3>1 DEF Mark, DeliveryFails, RowFits, Row
    <3>3. Fate(r)' = Fate(r) \/ (Fate(r) = "due" /\ Fate(r)' = "lost")
      BY <2>2, <3>1, <3>2 DEF Fate, Running
    <3> QED BY <2>1, <3>3, FateStep
  <2> QED BY <1>8, <2>3, <2>4, <2>5
<1>9. CASE Outside \/ Launch
  BY <1>2, <1>3, <1>9 DEF Outside, Launch, Tick, NewSafeBlock, WalletsChange, Sync, BooksChange, bot
<1>10. CASE Recovering
  BY <1>4, <1>5, <1>9, <1>10 DEF Recovering
<1>11. ASSUME NEW p \in Askers, Requesting(p) PROVE [Promise!Next]_([s \in Ids |-> Fate(s)])
  BY <1>2, <1>6, <1>11
  DEF Requesting, Request, Look, SaysUnchanged, BuildOn, GivesOldResult, MayStart, Asking, bot
<1>12. ASSUME NEW r \in Ids, Checking(r) \/ Fail(r) \/ DeliveryFails(r)
       PROVE [Promise!Next]_([s \in Ids |-> Fate(s)])
  BY <1>7, <1>8, <1>12 DEF Checking
<1>13. CASE UNCHANGED vars
  BY <1>2, <1>13 DEF vars, bot
<1> QED BY <1>9, <1>10, <1>11, <1>12, <1>13 DEF Next

(* Requests, background runs and recovery implement Outcomes: a request is told of at  *)
(* most once, and never after it was given up (requestAudit, runAudit, deliver,        *)
(* recoverAudits; migration 021, "told the outcome exactly once").                 *)
THEOREM AuditsKeepTheirPromise == Spec => OutcomesKept
<1> DEFINE fate == [r \in Ids |-> Fate(r)]
<1>1. Init => Promise!Init
  BY DEF Init, Promise!Init, Fate, Running, NoJob
<1>2. Inv /\ [Next]_vars => [Promise!Next]_fate
  BY StepKeepsPromise
<1> QED BY <1>1, <1>2, AuditsInvariant, PTL DEF Spec, OutcomesKept, Promise!Spec

-----------------------------------------------------------------------------
(* A signed result of a full check is what the books still lack: the signature  *)
(* is read before the blocks are, and what it was read of never comes back     *)
(* once it has changed.                                                      *)

(* What the signature and the trace see of one wallet's part of the books.      *)
Movement == [at: Stops, id: Nat]
Kept(part, b) == part[b].at \notin {"provider", "raw"}
SignatureOf(part, to) ==
  [known |-> TRUE, of |-> {<<b, part[b].at, part[b].id>> : b \in {c \in Blocks : c <= to /\ Kept(part, c)}}]
LackingIn(part, from, to) == {b \in Blocks : from <= b /\ b <= to /\ part[b].at # "done"}

(* A block not synced yet has no row; every version was made by a change counted. *)
BooksFit ==
  \A w \in Wallets, b \in Blocks :
    books[w][b].id <= spent.changes /\ (Kept(books[w], b) => b <= synced[w])

(* A signature was read of the books as they were at some time until now.       *)
ReadEarlier(sig, w) == \A e \in sig.of : e[1] <= synced[w] /\ e[3] <= spent.changes
ResultEarlier(res) == \A w \in Wallets : ReadEarlier(res.parts[w].sig, w)
SignedEarlier(r) ==
  /\ ResultEarlier(runs[r].result) /\ ResultEarlier(job[r].result)
  /\ ReadEarlier(job[r].before, job[r].w)

GapBlocks(res, w) == {b \in Blocks : \E k \in Kinds : <<w, b, k>> \in res.gaps}
TrueOf(res, all) ==
  \A w \in Wallets :
    LET part == res.parts[w]
    IN part.sig.known /\ part.sig = SignatureOf(all[w], part.to)
         => GapBlocks(res, w) = LackingIn(all[w], part.from, part.to)

(* A full check under way: finished wallets are true, those to come have        *)
(* nothing, and the one being traced is true up to where it is.               *)
From(r) == FirstBlock(runs[r].days, job[r].safe)
Untouched(r) ==
  \A w \in job[r].todo :
    /\ job[r].result.parts[w] = NoPart
    /\ (job[r].pc = "trace" /\ w = job[r].w) \/ GapBlocks(job[r].result, w) = {}
TracedSoFar(r) ==
  job[r].pc = "trace" =>
    /\ job[r].w \in job[r].todo /\ From(r) <= job[r].at /\ job[r].at <= job[r].safe + 1
    /\ job[r].before = SignatureOf(books[job[r].w], job[r].safe)
         => GapBlocks(job[r].result, job[r].w) = LackingIn(books[job[r].w], From(r), job[r].at - 1)
HalfTrue(r) ==
  job[r].safe >= 1 /\ TrueOf(job[r].result, books) /\ Untouched(r) /\ TracedSoFar(r)
RowTrue(r) ==
  /\ runs[r].status = "none" => runs[r].base = None
  /\ runs[r].base = None =>
       /\ TrueOf(runs[r].result, books)
       /\ job[r].pc \in {"wallets", "trace"} => HalfTrue(r)

ResultsInv == Inv /\ BooksFit /\ \A r \in Ids : SignedEarlier(r) /\ RowTrue(r)

-----------------------------------------------------------------------------
LEMMA Views ==
  /\ \A w, to : RangeSignature(w, to) = SignatureOf(books[w], to)
  /\ \A w, from, to : Lacking(w, from, to) = LackingIn(books[w], from, to)
  /\ \A w, b : Stored(w, b) = Kept(books[w], b)
  BY DEF RangeSignature, SignatureOf, Lacking, LackingIn, Stored, Kept

(* Nothing has been found, and nothing was signed, at the start.                *)
LEMMA NothingTrue ==
  /\ \A all : TrueOf(NoResult, all)
  /\ ResultEarlier(NoResult) /\ \A w \in Wallets : ReadEarlier(Unsigned, w)
  /\ \A w \in Wallets : GapBlocks(NoResult, w) = {} /\ NoResult.parts[w] = NoPart
<1>1. \A w \in Wallets : NoResult.parts[w] = NoPart /\ ~NoPart.sig.known /\ NoPart.sig = Unsigned
  BY DEF NoResult, NoPart, Unsigned
<1>2. Unsigned.of = {}
  BY DEF Unsigned
<1>3. \A all : TrueOf(NoResult, all)
  BY <1>1 DEF TrueOf
<1>4. ResultEarlier(NoResult) /\ \A w \in Wallets : ReadEarlier(Unsigned, w)
  BY <1>1, <1>2 DEF ResultEarlier, ReadEarlier
<1>5. \A w \in Wallets : GapBlocks(NoResult, w) = {}
  BY DEF GapBlocks, NoResult
<1> QED BY <1>1, <1>3, <1>4, <1>5

(* A signature read of the books now.                                         *)
LEMMA NewSignature ==
  ASSUME BooksFit, NEW w \in Wallets, NEW to
  PROVE  ReadEarlier(SignatureOf(books[w], to), w)
<1>1. \A e \in SignatureOf(books[w], to).of :
        \E b \in Blocks : e = <<b, books[w][b].at, books[w][b].id>> /\ Kept(books[w], b)
  BY DEF SignatureOf
<1> QED BY <1>1 DEF ReadEarlier, BooksFit

(* The signature looks at kept movements up to its block only.                  *)
LEMMA SameSignature ==
  ASSUME NEW p, NEW q, NEW to,
         \A c \in Blocks : c <= to => (Kept(q, c) <=> Kept(p, c)) /\ (Kept(p, c) => q[c] = p[c])
  PROVE  SignatureOf(q, to) = SignatureOf(p, to)
<1> DEFINE S == {c \in Blocks : c <= to /\ Kept(p, c)}
           T == {c \in Blocks : c <= to /\ Kept(q, c)}
<1>1. S = T
  <2>1. \A c \in Blocks : c <= to => (Kept(q, c) <=> Kept(p, c))
    OBVIOUS
  <2> QED BY <2>1, Zenon
<1>3. \A c \in S : q[c] = p[c]
  OBVIOUS
<1> HIDE DEF S, T
<1>2. {<<b, q[b].at, q[b].id>> : b \in T} = {<<b, p[b].at, p[b].id>> : b \in S}
  BY <1>1, <1>3
<1> QED BY <1>2 DEF SignatureOf, S, T

(* A row replaced; a signature that is not of it; a signature of the books; the same   *)
(* lacks up to a block.                                                       *)
Changed(q, p, b, new) == q = [p EXCEPT ![b] = new]
Foreign(sig, b, new) == \A e \in sig.of : ~(e[1] = b /\ e[3] = new.id)
Signs(sig, q, to) == sig = SignatureOf(q, to)
SameLack(q, p, to) ==
  \A from, upto \in Nat : upto <= to => LackingIn(q, from, upto) = LackingIn(p, from, upto)

(* A change of one movement: what was signed up to a block either is so still,   *)
(* and was so before, or never will be again.                                *)
LEMMA OneChange ==
  ASSUME NEW p \in [Blocks -> Movement], NEW b \in Blocks, NEW new \in Movement,
         NEW q, Changed(q, p, b, new),
         Kept(p, b) => Kept(q, b), NEW sig, NEW to \in Nat, Signs(sig, q, to),
         Foreign(sig, b, new)
  PROVE  Signs(sig, p, to) /\ SameLack(q, p, to)
<1> USE DEF Changed, Foreign, Signs, SameLack
<1>1. q[b] = new /\ \A c \in Blocks : c # b => q[c] = p[c]
  OBVIOUS
<1>2. \A c \in Blocks : c \in Nat
  BY DEF Blocks
<1>3. CASE ~(b <= to)
  <2>1. \A c \in Blocks : c <= to => q[c] = p[c]
    BY <1>1, <1>3
  <2>2. \A c \in Blocks : c <= to => (Kept(q, c) <=> Kept(p, c)) /\ (Kept(p, c) => q[c] = p[c])
    BY <2>1 DEF Kept
  <2>4. SignatureOf(q, to) = SignatureOf(p, to)
    BY <2>2, SameSignature
  <2>3. ASSUME NEW from \in Nat, NEW upto \in Nat, upto <= to
        PROVE  LackingIn(q, from, upto) = LackingIn(p, from, upto)
    <3>1. \A c \in Blocks : c <= upto => c <= to
      BY <1>2, <2>3
    <3> QED BY <2>1, <3>1 DEF LackingIn
  <2> QED BY <2>3, <2>4
<1>4. CASE b <= to
  <2>1. ~Kept(q, b)
    <3> SUFFICES ASSUME Kept(q, b) PROVE FALSE
      OBVIOUS
    <3>1. <<b, q[b].at, q[b].id>> \in SignatureOf(q, to).of
      BY <1>4 DEF SignatureOf
    <3> QED BY <1>1, <3>1
  <2>2. \A c \in Blocks : (Kept(q, c) <=> Kept(p, c)) /\ (Kept(p, c) => q[c] = p[c])
    BY <1>1, <2>1 DEF Kept
  <2>3. SignatureOf(q, to) = SignatureOf(p, to)
    BY <2>2, SameSignature
  <2>4. \A c \in Blocks : (q[c].at # "done") <=> (p[c].at # "done")
    BY <1>1, <2>1, <2>2 DEF Kept
  <2>5. \A from, upto \in Nat : LackingIn(q, from, upto) = LackingIn(p, from, upto)
    BY <2>4 DEF LackingIn
  <2> QED BY <2>3, <2>5
<1> QED BY <1>3, <1>4

LEMMA BackInTime ==
  ASSUME ResultsInv, (\E v \in Wallets : Sync(v) \/ \E b \in Blocks : BooksChange(v, b)),
         NEW w \in Wallets, NEW sig, ReadEarlier(sig, w), NEW to \in Nat,
         sig = SignatureOf(books'[w], to)
  PROVE  /\ sig = SignatureOf(books[w], to)
         /\ \A from, upto \in Nat : upto <= to => LackingIn(books'[w], from, upto) = LackingIn(books[w], from, upto)
<1>1. TypeOK /\ BooksFit /\ books \in [Wallets -> [Blocks -> Movement]]
  BY DEF ResultsInv, Inv, TypeOK, Movement
<1>2. ASSUME NEW v \in Wallets, Sync(v)
      PROVE  /\ sig = SignatureOf(books[w], to)
             /\ \A from, upto \in Nat : upto <= to => LackingIn(books'[w], from, upto) = LackingIn(books[w], from, upto)
  <2> DEFINE b == synced[v] + 1
  <2>1. PICK at \in Stops : books' = [books EXCEPT ![v][b].at = at]
    BY <1>2 DEF Sync
  <2>2. synced[v] \in Nat /\ MaxBlock \in Nat
    BY <1>1, AuditAssumption DEF TypeOK
  <2>3. b \in Blocks /\ ~(b <= synced[v])
    BY <1>2, <2>2 DEF Sync, Blocks
  <2> HIDE DEF b
  <2> DEFINE new == [books[v][b] EXCEPT !.at = at]
  <2>4. books[v][b] \in Movement
    BY <1>1, <2>3
  <2>5. new \in Movement
    BY <2>4 DEF Movement
  <2>6. v # w => books'[w] = books[w]
    BY <1>1, <2>1
  <2>7. books'[v] = [books[v] EXCEPT ![b] = new]
    BY <1>1, <2>1
  <2>8. ~Kept(books[v], b)
    BY <1>1, <2>3 DEF BooksFit
  <2>9. v = w => \A e \in sig.of : e[1] # b
    BY <2>3 DEF ReadEarlier
  <2> HIDE DEF new
  <2>10. CASE v = w
    <3>1. books[w] \in [Blocks -> Movement] /\ books'[w] = [books[w] EXCEPT ![b] = new]
      BY <1>1, <2>7, <2>10
    <3>2. Kept(books[w], b) => Kept(books'[w], b)
      BY <2>8, <2>10
    <3>3. Foreign(sig, b, new)
      BY <2>9, <2>10 DEF Foreign
    <3> DEFINE p == books[w]
               q == books'[w]
    <3>5. /\ p \in [Blocks -> Movement] /\ Changed(q, p, b, new)
          /\ Kept(p, b) => Kept(q, b)
          /\ Signs(sig, q, to)
      BY <3>1, <3>2 DEF Changed, Signs
    <3> HIDE DEF p, q
    <3>6. Signs(sig, p, to) /\ SameLack(q, p, to)
      BY <2>3, <2>5, <3>3, <3>5, OneChange
    <3> QED BY <3>6 DEF p, q, Signs, SameLack
  <2> QED BY <2>6, <2>10
<1>3. ASSUME NEW v \in Wallets, NEW b \in Blocks, BooksChange(v, b)
      PROVE  /\ sig = SignatureOf(books[w], to)
             /\ \A from, upto \in Nat : upto <= to => LackingIn(books'[w], from, upto) = LackingIn(books[w], from, upto)
  <2>1. PICK at \in Stops :
          /\ Stored(v, b) => at \notin {"provider", "raw"}
          /\ books' = [books EXCEPT ![v][b] = [at |-> at, id |-> spent.changes + 1]]
    BY <1>3 DEF BooksChange
  <2> DEFINE new == [at |-> at, id |-> spent.changes + 1]
  <2>2. spent.changes \in Nat
    BY <1>1 DEF TypeOK
  <2>3. new \in Movement /\ new.at = at /\ ~(new.id <= spent.changes)
    BY <2>2 DEF Movement
  <2>4. v = w => \A e \in sig.of : e[3] # new.id
    BY <2>3 DEF ReadEarlier
  <2>5. books'[v] = [books[v] EXCEPT ![b] = new] /\ (v # w => books'[w] = books[w])
    BY <1>1, <2>1
  <2>6. Kept(books[v], b) => Kept(books'[v], b)
    <3>1. books'[v][b] = new
      BY <1>1, <2>5
    <3> HIDE DEF new
    <3> QED BY <2>1, <2>3, <3>1, Views DEF Kept
  <2> HIDE DEF new
  <2>7. CASE v = w
    <3>1. books[w] \in [Blocks -> Movement] /\ books'[w] = [books[w] EXCEPT ![b] = new]
      BY <1>1, <2>5, <2>7
    <3>2. Kept(books[w], b) => Kept(books'[w], b)
      BY <2>6, <2>7
    <3>3. Foreign(sig, b, new)
      BY <2>4, <2>7 DEF Foreign
    <3>4. new \in Movement
      BY <2>3
    <3> DEFINE p == books[w]
               q == books'[w]
    <3>5. /\ p \in [Blocks -> Movement] /\ Changed(q, p, b, new)
          /\ Kept(p, b) => Kept(q, b)
          /\ Signs(sig, q, to)
      BY <3>1, <3>2 DEF Changed, Signs
    <3> HIDE DEF p, q
    <3>6. Signs(sig, p, to) /\ SameLack(q, p, to)
      BY <3>3, <3>4, <3>5, OneChange
    <3> QED BY <3>6 DEF p, q, Signs, SameLack
  <2> QED BY <2>5, <2>7
<1> QED BY <1>2, <1>3

(* So a true result stays true while the books change.                         *)
LEMMA TrueResultStays ==
  ASSUME ResultsInv, (\E v \in Wallets : Sync(v) \/ \E b \in Blocks : BooksChange(v, b)),
         NEW res \in Result, TrueOf(res, books), ResultEarlier(res)
  PROVE  TrueOf(res, books')
<1> SUFFICES ASSUME NEW w \in Wallets, res.parts[w].sig.known,
                    res.parts[w].sig = SignatureOf(books'[w], res.parts[w].to)
             PROVE  GapBlocks(res, w) = LackingIn(books'[w], res.parts[w].from, res.parts[w].to)
  BY DEF TrueOf
<1>1. res.parts[w] \in Part
  BY Defaults DEF Result
<1>2. res.parts[w].from \in Nat /\ res.parts[w].to \in Nat
  BY <1>1 DEF Part
<1>3. ReadEarlier(res.parts[w].sig, w)
  BY DEF ResultEarlier
<1>4. /\ res.parts[w].sig = SignatureOf(books[w], res.parts[w].to)
      /\ LackingIn(books'[w], res.parts[w].from, res.parts[w].to) = LackingIn(books[w], res.parts[w].from, res.parts[w].to)
  BY <1>2, <1>3, BackInTime
<1> QED BY <1>4 DEF TrueOf

-----------------------------------------------------------------------------
(* A step that leaves the books and the results alone, and the work on them, or    *)
(* that drops it.                                                            *)
SameBooks == UNCHANGED <<books, synced>> /\ spent.changes <= spent'.changes
LEMMA SameRow ==
  ASSUME ResultsInv, SameBooks, spent'.changes \in Nat, NEW r \in Ids,
         runs'[r].result = runs[r].result, runs'[r].base = runs[r].base, runs'[r].days = runs[r].days,
         runs'[r].status = "none" => runs[r].status = "none",
         \/ job'[r] = job[r]
         \/ job'[r].pc \notin {"wallets", "trace"} /\ job'[r].result = NoResult /\ job'[r].before = Unsigned
         \/ /\ job'[r].pc \notin {"wallets", "trace"} /\ job'[r].result = job[r].result
            /\ job'[r].before = job[r].before /\ job'[r].w = job[r].w
  PROVE  SignedEarlier(r)' /\ RowTrue(r)'
<1>1. SignedEarlier(r) /\ RowTrue(r) /\ spent.changes \in Nat
  BY DEF ResultsInv, Inv, TypeOK
<1>2. Unsigned.of = {} /\ \A w \in Wallets : NoResult.parts[w].sig = Unsigned
  BY DEF NoResult, NoPart, Unsigned
<1>3. ASSUME NEW w \in Wallets, NEW sig \in Signature, ReadEarlier(sig, w)
      PROVE  \A e \in sig.of : e[1] <= synced'[w] /\ e[3] <= spent'.changes
  <2>1. \A e \in sig.of : e[3] \in Nat
    BY DEF Signature
  <2> QED BY <1>1, <1>3, <2>1 DEF ReadEarlier, SameBooks
<1>4. /\ runs[r].result \in Result /\ job[r] \in Job
      /\ \A res \in Result : \A w \in Wallets : res.parts[w].sig \in Signature
  <2>1. \A res \in Result : \A w \in Wallets : res.parts[w] \in Part
    BY Defaults DEF Result
  <2> QED BY <2>1 DEF ResultsInv, Inv, TypeOK, Row, Part
<1>5. job[r].result \in Result /\ job[r].before \in Signature /\ job[r].w \in Wallets
  BY <1>4 DEF Job
<1>6. SignedEarlier(r)'
  <2>1. \A w \in Wallets : \A e \in runs'[r].result.parts[w].sig.of : e[1] <= synced'[w] /\ e[3] <= spent'.changes
    BY <1>1, <1>3, <1>4 DEF SignedEarlier, ResultEarlier
  <2>2. \A w \in Wallets : \A e \in job'[r].result.parts[w].sig.of : e[1] <= synced'[w] /\ e[3] <= spent'.changes
    BY <1>1, <1>2, <1>3, <1>4, <1>5 DEF SignedEarlier, ResultEarlier
  <2>3. \A e \in job'[r].before.of : e[1] <= synced'[job'[r].w] /\ e[3] <= spent'.changes
    BY <1>1, <1>2, <1>3, <1>5 DEF SignedEarlier
  <2> QED BY <2>1, <2>2, <2>3 DEF SignedEarlier, ResultEarlier, ReadEarlier
<1>7. RowTrue(r)'
  BY <1>1 DEF RowTrue, HalfTrue, Untouched, TracedSoFar, From, SameBooks
<1> QED BY <1>6, <1>7

LEMMA BooksFitStays ==
  ASSUME ResultsInv, SameBooks, spent'.changes \in Nat PROVE BooksFit'
<1>1. \A w \in Wallets, b \in Blocks : books[w][b].id \in Nat
  BY DEF ResultsInv, Inv, TypeOK
<1>2. spent.changes \in Nat
  BY DEF ResultsInv, Inv, TypeOK
<1> QED BY <1>1, <1>2 DEF ResultsInv, BooksFit, SameBooks

(* The world outside, but for the books.                                       *)
LEMMA ResultsAsideKeep ==
  ASSUME ResultsInv, Inv', SameBooks, UNCHANGED <<runs, job>>
  PROVE  ResultsInv'
<1>1. spent'.changes \in Nat
  BY DEF Inv, TypeOK
<1> QED BY <1>1, SameRow, BooksFitStays DEF ResultsInv

(* One row and its job.                                                       *)
LEMMA OneRowKeeps ==
  ASSUME ResultsInv, Inv', SameBooks, NEW r \in Ids, SignedEarlier(r)', RowTrue(r)',
         \A s \in Ids \ {r} : runs'[s] = runs[s] /\ job'[s] = job[s]
  PROVE  ResultsInv'
<1>1. spent'.changes \in Nat
  BY DEF Inv, TypeOK
<1>2. \A s \in Ids \ {r} : SignedEarlier(s)' /\ RowTrue(s)'
  BY <1>1, SameRow
<1> QED BY <1>1, <1>2, BooksFitStays DEF ResultsInv

(* The books change: by BackInTime nothing becomes false.                       *)
LEMMA BooksChangeKeeps ==
  ASSUME ResultsInv, Inv', (\E v \in Wallets : Sync(v) \/ \E b \in Blocks : BooksChange(v, b))
  PROVE  ResultsInv'
<1>1. UNCHANGED <<runs, job>>
  BY DEF Sync, BooksChange
<1>2. /\ spent.changes \in Nat /\ synced \in [Wallets -> Nat] /\ spent \in [changes: Nat, faults: Nat, crashes: Nat]
      /\ books \in [Wallets -> [Blocks -> Movement]] /\ MaxBlock \in Nat
  BY AuditAssumption DEF ResultsInv, Inv, TypeOK, Movement
<1>3. /\ \A w \in Wallets : synced[w] <= synced'[w] /\ synced'[w] \in Nat
      /\ spent.changes <= spent'.changes /\ spent'.changes \in Nat
  BY <1>2 DEF Sync, BooksChange
<1>4. BooksFit'
  <2> SUFFICES ASSUME NEW w \in Wallets, NEW b \in Blocks
               PROVE  books'[w][b].id <= spent'.changes /\ (Kept(books'[w], b) => b <= synced'[w])
    BY DEF BooksFit
  <2>1. books[w][b] \in Movement /\ b \in Nat
    BY <1>2 DEF Blocks
  <2>2. books[w][b].id <= spent.changes /\ (Kept(books[w], b) => b <= synced[w]) /\ books[w][b].id \in Nat
    BY <2>1 DEF ResultsInv, BooksFit, Movement
  <2>3. CASE books'[w][b] = books[w][b]
    BY <1>2, <1>3, <2>1, <2>2, <2>3 DEF Kept
  <2>4. ASSUME NEW v \in Wallets, Sync(v), books'[w][b] # books[w][b]
        PROVE  books'[w][b].id <= spent'.changes /\ b <= synced'[w]
    <3>1. PICK at \in Stops : books' = [books EXCEPT ![v][synced[v] + 1].at = at]
      BY <2>4 DEF Sync
    <3>2. synced[v] + 1 \in Blocks
      BY <1>2, <2>4 DEF Sync, Blocks
    <3>3. w = v /\ b = synced[v] + 1
      BY <1>2, <2>4, <3>1, <3>2
    <3>4. synced'[w] = synced[w] + 1
      BY <1>2, <2>4, <3>3 DEF Sync
    <3>5. books'[w][b] = [books[w][b] EXCEPT !.at = at]
      BY <1>2, <3>1, <3>3
    <3>6. books'[w][b].id = books[w][b].id
      BY <2>1, <3>5 DEF Movement
    <3> QED BY <1>2, <1>3, <2>1, <2>2, <3>3, <3>4, <3>6
  <2>5. ASSUME NEW v \in Wallets, NEW c \in Blocks, BooksChange(v, c), books'[w][b] # books[w][b]
        PROVE  books'[w][b].id <= spent'.changes /\ b <= synced'[w]
    <3>1. PICK at \in Stops : books' = [books EXCEPT ![v][c] = [at |-> at, id |-> spent.changes + 1]]
      BY <2>5 DEF BooksChange
    <3>2. w = v /\ b = c /\ books'[w][b].id = spent.changes + 1
      BY <1>2, <2>5, <3>1
    <3>3. spent'.changes = spent.changes + 1 /\ c <= synced[v] /\ synced' = synced
      BY <1>2, <2>5 DEF BooksChange
    <3> QED BY <1>2, <3>2, <3>3
  <2> QED BY <2>3, <2>4, <2>5
<1>5. ASSUME NEW w \in Wallets, NEW sig \in Signature, ReadEarlier(sig, w) PROVE ReadEarlier(sig, w)'
  <2>1. \A e \in sig.of : e[3] \in Nat /\ e[1] \in Nat
    BY DEF Signature, Blocks
  <2> QED BY <1>2, <1>3, <1>5, <2>1 DEF ReadEarlier
<1>6. ASSUME NEW r \in Ids PROVE SignedEarlier(r)' /\ RowTrue(r)'
  <2>1. SignedEarlier(r) /\ RowTrue(r) /\ runs[r] \in Row /\ job[r] \in Job
    BY DEF ResultsInv, Inv, TypeOK
  <2>2. /\ runs[r].result \in Result /\ job[r].result \in Result /\ job[r].before \in Signature
        /\ job[r].w \in Wallets /\ job[r].safe \in Nat /\ job[r].at \in Nat /\ runs[r].days \in Nat
    BY <2>1, AuditAssumption DEF Row, Job
  <2>3. \A res \in Result : \A w \in Wallets : res.parts[w].sig \in Signature
    <3>1. \A res \in Result : \A w \in Wallets : res.parts[w] \in Part
      BY Defaults DEF Result
    <3> QED BY <3>1 DEF Part
  <2>4. SignedEarlier(r)'
    BY <1>1, <1>5, <2>1, <2>2, <2>3 DEF SignedEarlier, ResultEarlier
  <2>5. TrueOf(runs[r].result, books) => TrueOf(runs[r].result, books')
    BY <2>1, <2>2, TrueResultStays DEF SignedEarlier
  <2>6. TrueOf(job[r].result, books) => TrueOf(job[r].result, books')
    BY <2>1, <2>2, TrueResultStays DEF SignedEarlier
  <2>7. ASSUME TracedSoFar(r), job[r].pc = "trace", job[r].before = SignatureOf(books'[job[r].w], job[r].safe)
        PROVE  GapBlocks(job[r].result, job[r].w) = LackingIn(books'[job[r].w], From(r), job[r].at - 1)
    <3>1. From(r) \in Nat \ {0} /\ job[r].at - 1 \in Nat /\ job[r].at - 1 <= job[r].safe
      <4>1. From(r) \in Nat \ {0}
        BY <2>2, FirstBlockType DEF From
      <4> QED BY <2>2, <2>7, <4>1 DEF TracedSoFar
    <3>2. /\ job[r].before = SignatureOf(books[job[r].w], job[r].safe)
          /\ LackingIn(books'[job[r].w], From(r), job[r].at - 1) = LackingIn(books[job[r].w], From(r), job[r].at - 1)
      BY <2>1, <2>2, <2>7, <3>1, BackInTime DEF SignedEarlier
    <3> QED BY <2>7, <3>2 DEF TracedSoFar
  <2>8. From(r)' = From(r)
    BY <1>1 DEF From
  <2>9. TracedSoFar(r) => TracedSoFar(r)'
    BY <1>1, <2>7, <2>8 DEF TracedSoFar
  <2>10. HalfTrue(r) => HalfTrue(r)'
    BY <1>1, <2>6, <2>9 DEF HalfTrue, Untouched
  <2>11. RowTrue(r)'
    BY <1>1, <2>1, <2>5, <2>10 DEF RowTrue
  <2> QED BY <2>4, <2>11
<1> QED BY <1>4, <1>6 DEF ResultsInv

-----------------------------------------------------------------------------
(* The steps of a check.                                                      *)
LEMMA JobFacts ==
  ASSUME ResultsInv, NEW r \in Ids
  PROVE  /\ SignedEarlier(r) /\ RowTrue(r) /\ runs \in [Ids -> Row] /\ job \in [Ids -> Job]
         /\ job[r].result \in Result /\ job[r].w \in Wallets /\ job[r].todo \subseteq Wallets
         /\ job[r].at \in Nat /\ job[r].safe \in Nat /\ runs[r].days \in Nat
         /\ \A w \in Wallets : job[r].result.parts[w] \in Part
         /\ From(r) \in Nat \ {0} /\ (job[r].safe >= 1 => From(r) <= job[r].safe)
<1>1. SignedEarlier(r) /\ RowTrue(r) /\ runs \in [Ids -> Row] /\ job \in [Ids -> Job]
  BY DEF ResultsInv, Inv, TypeOK
<1>2. job[r] \in Job /\ runs[r] \in Row
  BY <1>1
<1>3. /\ job[r].result \in Result /\ job[r].w \in Wallets /\ job[r].todo \subseteq Wallets
      /\ job[r].at \in Nat /\ job[r].safe \in Nat /\ runs[r].days \in Nat
  BY <1>2, AuditAssumption DEF Job, Row
<1>4. \A w \in Wallets : job[r].result.parts[w] \in Part
  BY <1>3, Defaults DEF Result
<1>5. runs[r].days * BlocksPerDay \in Nat
  BY <1>3, AuditAssumption
<1>6. From(r) \in Nat \ {0} /\ (job[r].safe >= 1 => From(r) <= job[r].safe)
  BY <1>3, <1>5 DEF From, FirstBlock, Larger
<1> QED BY <1>1, <1>3, <1>4, <1>6

LEMMA BeginTrue ==
  ASSUME ResultsInv, Inv', NEW r \in Ids, Begin(r) PROVE ResultsInv'
<1> DEFINE res == [NoResult EXCEPT !.gaps = Base(r).gaps]
<1>1. SameBooks /\ UNCHANGED runs /\ \A s \in Ids \ {r} : job'[s] = job[s]
  BY JobFacts DEF Begin, Working, world, SameBooks, ResultsInv, Inv, TypeOK
<1>2. /\ job'[r].pc = "wallets" /\ job'[r].safe = tip /\ job'[r].result = res /\ job'[r].todo = active
      /\ job'[r].before = job[r].before /\ job'[r].w = job[r].w
  BY JobFacts DEF Begin, Job
<1>3. tip >= 1 /\ active \subseteq Wallets
  BY AuditAssumption DEF ResultsInv, Inv, TypeOK, Within, Blocks
<1>4. res.parts = NoResult.parts
  BY DEF NoResult
<1>5. CASE runs[r].base = None
  <2>1. res = NoResult
    BY <1>5 DEF Base, NoResult
  <2>2. HalfTrue(r)'
    BY <1>1, <1>2, <1>3, <2>1, NothingTrue DEF HalfTrue, Untouched, TracedSoFar
  <2>3. RowTrue(r)'
    BY <1>1, <2>2, JobFacts DEF RowTrue, SameBooks
  <2>4. SignedEarlier(r)'
    BY <1>1, <1>2, <2>1, NothingTrue, JobFacts DEF SignedEarlier, ResultEarlier, ReadEarlier, SameBooks, Begin, Working, world
  <2> QED BY <1>1, <2>3, <2>4, OneRowKeeps
<1>6. CASE runs[r].base # None
  <2>1. RowTrue(r)'
    BY <1>1, <1>6, JobFacts DEF RowTrue
  <2>2. \A w \in Wallets : res.parts[w].sig.of = {}
    BY <1>4, NothingTrue DEF NoPart, Unsigned
  <2>3. SignedEarlier(r)'
    BY <1>1, <1>2, <2>2, JobFacts DEF SignedEarlier, ResultEarlier, ReadEarlier, SameBooks, Begin, Working, world
  <2> QED BY <1>1, <2>1, <2>3, OneRowKeeps
<1> QED BY <1>5, <1>6

LEMMA SkipTrue ==
  ASSUME ResultsInv, Inv', NEW r \in Ids, NEW w \in Wallets, Skip(r, w) PROVE ResultsInv'
<1>1. SameBooks /\ UNCHANGED <<runs, spent>> /\ \A s \in Ids \ {r} : job'[s] = job[s]
  BY JobFacts DEF Skip, Working, world, SameBooks, ResultsInv, Inv, TypeOK
<1>2. /\ job[r].pc = "wallets" /\ job'[r].pc = "wallets" /\ job'[r].safe = job[r].safe
      /\ job'[r].result = job[r].result /\ job'[r].todo \subseteq job[r].todo
      /\ job'[r].before = job[r].before /\ job'[r].w = job[r].w
  BY JobFacts DEF Skip, Job
<1>3. SignedEarlier(r)'
  BY <1>1, <1>2, JobFacts DEF SignedEarlier, ResultEarlier, ReadEarlier, SameBooks
<1>4. RowTrue(r)'
  BY <1>1, <1>2, JobFacts DEF RowTrue, HalfTrue, Untouched, TracedSoFar, SameBooks
<1> QED BY <1>1, <1>3, <1>4, OneRowKeeps

LEMMA OpenWalletTrue ==
  ASSUME ResultsInv, Inv', NEW r \in Ids, NEW w \in Wallets, OpenWallet(r, w) PROVE ResultsInv'
<1> DEFINE sig == SignatureOf(books[w], job[r].safe)
<1>1. SameBooks /\ UNCHANGED <<runs, spent>> /\ \A s \in Ids \ {r} : job'[s] = job[s]
  BY JobFacts DEF OpenWallet, Working, world, SameBooks, ResultsInv, Inv, TypeOK
<1>2. /\ job[r].pc = "wallets" /\ job'[r].pc = "trace" /\ job'[r].safe = job[r].safe
      /\ job'[r].result = job[r].result /\ job'[r].todo = job[r].todo
      /\ job'[r].before = sig /\ job'[r].w = w /\ w \in job[r].todo
      /\ job'[r].at = Window(r, w, job[r].safe)
  BY JobFacts, Views DEF OpenWallet, Job
<1>3. ReadEarlier(sig, w)
  BY NewSignature DEF ResultsInv
<1>4. SignedEarlier(r)'
  BY <1>1, <1>2, <1>3, JobFacts DEF SignedEarlier, ResultEarlier, ReadEarlier, SameBooks
<1>5. ASSUME runs[r].base = None PROVE HalfTrue(r)'
  <2>1. HalfTrue(r) /\ From(r) <= job[r].safe
    BY <1>2, <1>5, JobFacts DEF RowTrue, HalfTrue
  <2>2. Window(r, w, job[r].safe) = From(r)
    BY <1>5, NothingTrue DEF Window, Base, From
  <2>3. LackingIn(books[w], From(r), From(r) - 1) = {}
    BY JobFacts DEF LackingIn, Blocks
  <2>4. GapBlocks(job[r].result, w) = {}
    BY <1>2, <2>1 DEF HalfTrue, Untouched
  <2>5. From(r)' = From(r)
    BY <1>1, <1>2 DEF From
  <2>6. TracedSoFar(r)'
    BY <1>1, <1>2, <2>1, <2>2, <2>3, <2>4, <2>5, JobFacts DEF TracedSoFar, SameBooks
  <2>7. Untouched(r)'
    BY <1>2, <2>1 DEF HalfTrue, Untouched
  <2> QED BY <1>1, <1>2, <2>1, <2>6, <2>7 DEF HalfTrue, SameBooks
<1>6. RowTrue(r)'
  BY <1>1, <1>5, JobFacts DEF RowTrue, SameBooks
<1> QED BY <1>1, <1>4, <1>6, OneRowKeeps

(* Tracing one more block: the gaps found are those of the blocks up to it.          *)
LEMMA TraceNextTrue ==
  ASSUME ResultsInv, Inv', NEW r \in Ids, TraceNext(r) PROVE ResultsInv'
<1> DEFINE w == job[r].w
           at == job[r].at
           old == job[r].result
           res == job'[r].result
<1>1. SameBooks /\ UNCHANGED <<runs, spent>> /\ \A s \in Ids \ {r} : job'[s] = job[s]
  BY JobFacts DEF TraceNext, Working, world, SameBooks, ResultsInv, Inv, TypeOK
<1>2. /\ job[r].pc = "trace" /\ at <= job[r].safe
      /\ job' = [job EXCEPT ![r].at = at + 1, ![r].result.gaps = @ \cup Found(w, at, job[r].reached)]
  BY DEF TraceNext
<1>3. /\ job'[r].pc = "trace" /\ job'[r].safe = job[r].safe /\ job'[r].at = at + 1
      /\ job'[r].todo = job[r].todo /\ job'[r].before = job[r].before /\ job'[r].w = w
      /\ res.parts = old.parts /\ res.gaps = old.gaps \cup Found(w, at, job[r].reached)
  BY <1>2, JobFacts DEF Job, Result
<1>4. SignedEarlier(r)'
  BY <1>1, <1>3, JobFacts DEF SignedEarlier, ResultEarlier, ReadEarlier, SameBooks
<1>5. at \in Blocks /\ at \in Nat
  BY <1>2, JobFacts, AuditAssumption DEF ResultsInv, Inv, Within, Blocks
<1>6. books[w][at].at \in Stops
  BY <1>5, JobFacts DEF ResultsInv, Inv, TypeOK
<1>7. \A v \in Wallets : v # w => GapBlocks(res, v) = GapBlocks(old, v)
  BY <1>3 DEF GapBlocks, Found
<1>8. GapBlocks(res, w) = GapBlocks(old, w) \cup (IF books[w][at].at = "done" THEN {} ELSE {at})
  <2>1. CASE books[w][at].at = "done"
    BY <1>3, <2>1 DEF GapBlocks, Found
  <2>2. CASE books[w][at].at # "done"
    <3>1. PICK k : Found(w, at, job[r].reached) = {<<w, at, k>>} /\ k \in Kinds
      <4>1. GapOfLayer[books[w][at].at] \in Kinds /\ "not_synced" \in Kinds
        BY <1>6 DEF Kinds
      <4> QED BY <2>2, <4>1 DEF Found
    <3> HIDE DEF w, at, old, res
    <3>2. \A b \in Blocks : (\E l \in Kinds : <<w, b, l>> \in res.gaps)
                              <=> (\E l \in Kinds : <<w, b, l>> \in old.gaps) \/ b = at
      <4>1. \A b, l : <<w, b, l>> \in res.gaps <=> <<w, b, l>> \in old.gaps \/ (b = at /\ l = k)
        BY <1>3, <3>1
      <4> QED BY <3>1, <4>1
    <3>3. at \in Blocks
      BY <1>5
    <3> QED BY <2>2, <3>2, <3>3 DEF GapBlocks
  <2> QED BY <2>1, <2>2
<1> HIDE DEF w, at, old, res
<1>9. ASSUME runs[r].base = None PROVE HalfTrue(r)'
  <2>1. HalfTrue(r) /\ w \in job[r].todo /\ w \in Wallets
    BY <1>2, <1>9, JobFacts DEF RowTrue, HalfTrue, TracedSoFar, w
  <2>2. From(r)' = From(r) /\ From(r) \in Nat /\ From(r) <= at /\ job[r].safe \in Nat
    <3>1. From(r) <= at
      BY <1>2, <2>1 DEF HalfTrue, TracedSoFar, at
    <3>2. From(r)' = From(r)
      BY <1>1, <1>3 DEF From
    <3> QED BY <3>1, <3>2, JobFacts
  <2>3. LackingIn(books[w], From(r), at) =
          LackingIn(books[w], From(r), at - 1) \cup (IF books[w][at].at = "done" THEN {} ELSE {at})
    <3>1. \A b \in Blocks : b <= at <=> (b <= at - 1 \/ b = at)
      BY <1>5 DEF Blocks
    <3> QED BY <1>5, <2>2, <3>1 DEF LackingIn
  <2>4. job[r].before = SignatureOf(books[w], job[r].safe)
          => GapBlocks(old, w) = LackingIn(books[w], From(r), at - 1)
    BY <1>2, <2>1 DEF HalfTrue, TracedSoFar, w, at, old
  <2>5. (at + 1) - 1 = at /\ From(r) <= at + 1 /\ at + 1 <= job[r].safe + 1
    BY <1>2, <1>5, <2>2
  <2>6. TracedSoFar(r)'
    BY <1>1, <1>3, <1>8, <2>1, <2>2, <2>3, <2>4, <2>5 DEF TracedSoFar, SameBooks, res
  <2>7. /\ \A v \in job[r].todo : old.parts[v] = NoPart
        /\ \A v \in job[r].todo : v # w => GapBlocks(old, v) = {}
    BY <2>1 DEF HalfTrue, Untouched, w, old
  <2>8. Untouched(r)'
    BY <1>3, <1>7, <2>7, JobFacts DEF Untouched, res
  <2>9. TrueOf(res, books)
    <3> SUFFICES ASSUME NEW v \in Wallets, res.parts[v].sig.known,
                        res.parts[v].sig = SignatureOf(books[v], res.parts[v].to)
                 PROVE  GapBlocks(res, v) = LackingIn(books[v], res.parts[v].from, res.parts[v].to)
      BY DEF TrueOf
    <3>1. v # w
      BY <1>3, <2>1, <2>7 DEF NoPart, Unsigned
    <3>2. TrueOf(old, books)
      BY <2>1 DEF HalfTrue, old
    <3> QED BY <1>3, <1>7, <3>1, <3>2 DEF TrueOf
  <2> QED BY <1>1, <1>3, <2>1, <2>6, <2>8, <2>9 DEF HalfTrue, SameBooks, res
<1>10. RowTrue(r)'
  BY <1>1, <1>9, JobFacts DEF RowTrue, SameBooks
<1> QED BY <1>1, <1>4, <1>10, OneRowKeeps

(* A wallet is done: it is signed only if its signature is as before the trace.      *)
LEMMA CloseWalletTrue ==
  ASSUME ResultsInv, Inv', NEW r \in Ids, CloseWallet(r) PROVE ResultsInv'
<1> DEFINE w == job[r].w
           prev == Base(r).parts[w]
           part == [from |-> IF prev = NoPart THEN FirstBlock(runs[r].days, job[r].safe) ELSE prev.from,
                    to |-> job[r].safe, sig |-> Signed(r)]
           old == job[r].result
           res == job'[r].result
<1>1. SameBooks /\ UNCHANGED <<runs, spent>> /\ \A s \in Ids \ {r} : job'[s] = job[s]
  BY JobFacts DEF CloseWallet, Working, world, SameBooks, ResultsInv, Inv, TypeOK
<1>2. /\ job[r].pc = "trace" /\ job[r].at > job[r].safe
      /\ job' = [job EXCEPT ![r].pc = "wallets", ![r].todo = @ \ {w}, ![r].result.parts[w] = part]
  BY DEF CloseWallet
<1> HIDE DEF part
<1>3. /\ job'[r].pc = "wallets" /\ job'[r].safe = job[r].safe
      /\ job'[r].todo = job[r].todo \ {w} /\ job'[r].before = job[r].before /\ job'[r].w = w
      /\ res.gaps = old.gaps /\ res.parts = [old.parts EXCEPT ![w] = part]
  <2> DEFINE new == [old EXCEPT !.parts[w] = part]
             j == [job[r] EXCEPT !.pc = "wallets", !.todo = job[r].todo \ {w}, !.result = new]
  <2>1. job' = [job EXCEPT ![r] = j]
    BY <1>2, JobFacts DEF Job
  <2>2. new.gaps = old.gaps /\ new.parts = [old.parts EXCEPT ![w] = part]
    BY JobFacts DEF Result
  <2> HIDE DEF new
  <2>3. job'[r] = j /\ job[r] \in Job
    BY <2>1, JobFacts
  <2>4. /\ j.pc = "wallets" /\ j.safe = job[r].safe /\ j.todo = job[r].todo \ {w}
        /\ j.before = job[r].before /\ j.w = w /\ j.result = new
    BY <2>3 DEF Job
  <2> HIDE DEF j
  <2> QED BY <2>2, <2>3, <2>4
<1>4. w \in Wallets /\ res.parts[w] = part /\ \A v \in Wallets : v # w => res.parts[v] = old.parts[v]
  BY <1>3, JobFacts DEF Result
<1>5. part.to = job[r].safe /\ part.sig = Signed(r)
  BY DEF part
<1>6. \/ part.sig = Unsigned
      \/ part.sig = job[r].before /\ job[r].before = SignatureOf(books[w], job[r].safe)
  BY <1>5, Views DEF Signed
<1> HIDE DEF w, prev, old, res
<1>7. SignedEarlier(r)'
  <2>1. ReadEarlier(part.sig, w)
    BY <1>4, <1>6, NothingTrue, JobFacts DEF SignedEarlier, w
  <2>2. ResultEarlier(res)
    BY <1>4, <2>1, JobFacts DEF ResultEarlier, SignedEarlier, old
  <2>3. ResultEarlier(runs[r].result) /\ ReadEarlier(job[r].before, w)
    BY JobFacts DEF SignedEarlier, w
  <2> QED BY <1>1, <1>3, <2>2, <2>3 DEF SignedEarlier, ResultEarlier, ReadEarlier, SameBooks, res
<1>8. ASSUME runs[r].base = None PROVE HalfTrue(r)'
  <2>1. HalfTrue(r) /\ w \in job[r].todo
    BY <1>2, <1>8, JobFacts DEF RowTrue, HalfTrue, TracedSoFar, w
  <2>2. part.from = From(r)
    BY <1>4, <1>8, NothingTrue DEF part, prev, Base, From
  <2>3. job[r].at - 1 = job[r].safe
    BY <1>2, <2>1, JobFacts DEF HalfTrue, TracedSoFar
  <2>4. job[r].before = SignatureOf(books[w], job[r].safe)
          => GapBlocks(old, w) = LackingIn(books[w], From(r), job[r].safe)
    BY <1>2, <2>1, <2>3 DEF HalfTrue, TracedSoFar, w, old
  <2>5. \A v \in Wallets : GapBlocks(res, v) = GapBlocks(old, v)
    BY <1>3 DEF GapBlocks
  <2>6. TrueOf(res, books)
    <3> SUFFICES ASSUME NEW v \in Wallets, res.parts[v].sig.known,
                        res.parts[v].sig = SignatureOf(books[v], res.parts[v].to)
                 PROVE  GapBlocks(res, v) = LackingIn(books[v], res.parts[v].from, res.parts[v].to)
      BY DEF TrueOf
    <3>1. CASE v = w
      BY <1>4, <1>5, <1>6, <2>2, <2>4, <2>5, <3>1 DEF Unsigned
    <3>2. CASE v # w
      <4>1. TrueOf(old, books)
        BY <2>1 DEF HalfTrue, old
      <4> QED BY <1>4, <2>5, <3>2, <4>1 DEF TrueOf
    <3> QED BY <3>1, <3>2
  <2>7. \A v \in job[r].todo : old.parts[v] = NoPart /\ (v # w => GapBlocks(old, v) = {})
    BY <2>1 DEF HalfTrue, Untouched, w, old
  <2>8. Untouched(r)'
    BY <1>3, <1>4, <2>5, <2>7, JobFacts DEF Untouched, res
  <2>9. TracedSoFar(r)'
    BY <1>3 DEF TracedSoFar
  <2> QED BY <1>1, <1>3, <2>1, <2>6, <2>8, <2>9 DEF HalfTrue, SameBooks, res
<1>9. RowTrue(r)'
  BY <1>1, <1>8, JobFacts DEF RowTrue, SameBooks
<1> QED BY <1>1, <1>7, <1>9, OneRowKeeps

(* A result is stored: every wallet is done, so every signed part is true.           *)
LEMMA CompleteTrue ==
  ASSUME ResultsInv, Inv', NEW r \in Ids, Complete(r) PROVE ResultsInv'
<1>1. SameBooks /\ UNCHANGED spent /\ \A s \in Ids \ {r} : job'[s] = job[s] /\ runs'[s] = runs[s]
  BY JobFacts DEF Complete, Working, world, SameBooks, ResultsInv, Inv, TypeOK
<1>2. /\ job[r].pc = "wallets" /\ job'[r] = Telling
      /\ runs'[r].status = "complete" /\ runs'[r].base = runs[r].base /\ runs'[r].result = job[r].result
  BY JobFacts DEF Complete, Row
<1>3. Telling.pc = "tell" /\ Telling.result = NoResult /\ Telling.before = Unsigned
  BY DEF Telling, NoJob
<1>4. SignedEarlier(r)'
  <2>1. \A w \in Wallets : NoResult.parts[w].sig.of = {} /\ Unsigned.of = {}
    BY NothingTrue DEF NoPart, Unsigned
  <2> QED BY <1>1, <1>2, <1>3, <2>1, JobFacts DEF SignedEarlier, ResultEarlier, ReadEarlier, SameBooks
<1>5. RowTrue(r)'
  BY <1>1, <1>2, <1>3, JobFacts DEF RowTrue, HalfTrue, SameBooks
<1> QED BY <1>1, <1>4, <1>5, OneRowKeeps

(* A row is inserted: it has found nothing yet.                                *)
LEMMA StartTrue ==
  ASSUME ResultsInv, Inv', NEW p \in Askers, NEW r \in Ids, Start(p, r) PROVE ResultsInv'
<1>1. SameBooks /\ UNCHANGED spent /\ \A s \in Ids \ {r} : job'[s] = job[s] /\ runs'[s] = runs[s]
  BY JobFacts DEF Start, world, SameBooks, ResultsInv, Inv, TypeOK
<1>2. /\ runs[r].status = "none" /\ job'[r] = NewJob
      /\ runs'[r].status = "running" /\ runs'[r].result = runs[r].result
  BY JobFacts DEF Start, Row
<1>3. NewJob.pc = "begin" /\ NewJob.result = NoResult /\ NewJob.before = Unsigned
  BY DEF NewJob, NoJob
<1>4. SignedEarlier(r)'
  <2>1. \A w \in Wallets : NoResult.parts[w].sig.of = {} /\ Unsigned.of = {}
    BY NothingTrue DEF NoPart, Unsigned
  <2> QED BY <1>1, <1>2, <1>3, <2>1, JobFacts DEF SignedEarlier, ResultEarlier, ReadEarlier, SameBooks
<1>5. RowTrue(r)'
  BY <1>1, <1>2, <1>3, JobFacts DEF RowTrue, SameBooks
<1> QED BY <1>1, <1>4, <1>5, OneRowKeeps

(* Everything else leaves results as they are, and drops work or starts it anew.     *)
LEMMA RestKeeps ==
  ASSUME ResultsInv, Inv', SameBooks,
         \A r \in Ids :
           /\ runs'[r].result = runs[r].result /\ runs'[r].base = runs[r].base
           /\ runs'[r].days = runs[r].days
           /\ runs'[r].status = "none" => runs[r].status = "none"
           /\ \/ job'[r] = job[r]
              \/ job'[r].pc \notin {"wallets", "trace"} /\ job'[r].result = NoResult /\ job'[r].before = Unsigned
              \/ /\ job'[r].pc \notin {"wallets", "trace"} /\ job'[r].result = job[r].result
                 /\ job'[r].before = job[r].before /\ job'[r].w = job[r].w
  PROVE  ResultsInv'
<1>1. spent'.changes \in Nat
  BY DEF Inv, TypeOK
<1>2. \A r \in Ids : SignedEarlier(r)' /\ RowTrue(r)'
  BY <1>1, SameRow
<1> QED BY <1>1, <1>2, BooksFitStays DEF ResultsInv

LEMMA RestTrue ==
  ASSUME ResultsInv, Inv',
         \/ MarkInterrupted \/ Launch \/ Crash
         \/ \E r \in Ids : Fail(r) \/ Tell(r) \/ Mark(r) \/ DeliveryFails(r) \/ Retry(r) \/ Report(r)
  PROVE  ResultsInv'
<1>1. /\ runs \in [Ids -> Row] /\ job \in [Ids -> Job] /\ spent \in [changes: Nat, faults: Nat, crashes: Nat]
      /\ \A r \in Ids : runs[r] \in Row /\ job[r] \in Job
  BY DEF ResultsInv, Inv, TypeOK
<1>2. /\ NoJob.pc = "idle" /\ NoJob.result = NoResult /\ NoJob.before = Unsigned
      /\ NewJob.pc = "begin" /\ NewJob.result = NoResult /\ NewJob.before = Unsigned
      /\ Telling.pc = "tell" /\ Telling.result = NoResult /\ Telling.before = Unsigned
  BY DEF NoJob, NewJob, Telling
<1>3. SameBooks
  <2>1. UNCHANGED world
    BY DEF MarkInterrupted, Launch, Crash, Fail, Tell, Mark, DeliveryFails, Retry, Report, Working
  <2>2. spent' = spent \/ spent' = [spent EXCEPT !.faults = @ + 1] \/ spent' = [spent EXCEPT !.crashes = @ + 1]
    BY DEF MarkInterrupted, Launch, Crash, Fail, Tell, Mark, DeliveryFails, Retry, Report, Working, Fault
  <2> QED BY <1>1, <2>1, <2>2 DEF SameBooks, world
<1>4. CASE MarkInterrupted
  <2>1. job' = job /\ runs' = [r \in Ids |->
          IF PicksUp(r) THEN [runs[r] EXCEPT !.status = "interrupted", !.finished = now] ELSE runs[r]]
    BY <1>4 DEF MarkInterrupted
  <2>2. \A r \in Ids :
          /\ runs'[r].result = runs[r].result /\ runs'[r].base = runs[r].base
          /\ runs'[r].days = runs[r].days
          /\ runs'[r].status = "none" => runs[r].status = "none"
    BY <1>1, <2>1 DEF Row
  <2> QED BY <1>3, <2>1, <2>2, RestKeeps
<1>5. CASE Launch \/ Crash
  <2>1. runs' = runs /\ \A r \in Ids : job'[r] = job[r] \/ job'[r] = NoJob
    BY <1>5 DEF Launch, Crash
  <2> QED BY <1>2, <1>3, <2>1, RestKeeps
<1>6. ASSUME NEW r \in Ids, Fail(r) \/ Tell(r) \/ Mark(r) \/ DeliveryFails(r) \/ Retry(r) \/ Report(r)
      PROVE  ResultsInv'
  <2>1. \A s \in Ids \ {r} : runs'[s] = runs[s] /\ job'[s] = job[s]
    BY <1>1, <1>6 DEF Fail, Tell, Mark, DeliveryFails, Retry, Report
  <2>2. /\ runs'[r].result = runs[r].result /\ runs'[r].base = runs[r].base
        /\ runs'[r].days = runs[r].days
        /\ runs'[r].status = "none" => runs[r].status = "none"
    <3> DEFINE old == runs[r]
    <3>1. \/ runs'[r] = old \/ runs'[r] = [old EXCEPT !.delivered = TRUE]
          \/ runs'[r] = [old EXCEPT !.status = "failed", !.finished = now]
          \/ runs'[r] = [old EXCEPT !.status = "running", !.attempts = old.attempts + 1]
      BY <1>1, <1>6 DEF Fail, Tell, Mark, DeliveryFails, Retry, Report
    <3>2. old \in Row
      BY <1>1
    <3> HIDE DEF old
    <3>3. /\ runs'[r].result = old.result /\ runs'[r].base = old.base /\ runs'[r].days = old.days
          /\ runs'[r].status = "none" => old.status = "none"
      BY <3>1, <3>2 DEF Row
    <3> QED BY <3>3 DEF old
  <2>3. \/ job'[r] = job[r] \/ job'[r] \in {NoJob, NewJob, Telling}
        \/ job' = [job EXCEPT ![r].pc = "mark"]
    BY <1>1, <1>6 DEF Fail, Tell, Mark, DeliveryFails, Retry, Report
  <2>4. job' = [job EXCEPT ![r].pc = "mark"] =>
          /\ job'[r].pc = "mark" /\ job'[r].result = job[r].result
          /\ job'[r].before = job[r].before /\ job'[r].w = job[r].w
    BY <1>1 DEF Job
  <2> QED BY <1>2, <1>3, <2>1, <2>2, <2>3, <2>4, RestKeeps
<1> QED BY <1>4, <1>5, <1>6

LEMMA RequestingTrue ==
  ASSUME ResultsInv, Inv',
         \/ Tick \/ NewSafeBlock \/ WalletsChange \/ UNCHANGED vars
         \/ \E p \in Askers :
              \/ \E d \in Periods : Request(p, d)
              \/ Look(p) \/ SaysUnchanged(p) \/ BuildOn(p) \/ GivesOldResult(p) \/ MayStart(p)
  PROVE  ResultsInv'
<1>1. spent.changes \in Nat /\ spent \in [changes: Nat, faults: Nat, crashes: Nat]
  BY DEF ResultsInv, Inv, TypeOK
<1>2. UNCHANGED <<runs, job, books, synced>>
  BY DEF Tick, NewSafeBlock, WalletsChange, vars, world, Request, Look, SaysUnchanged, BuildOn,
         GivesOldResult, MayStart, Asking
<1>3. spent' = spent \/ spent' = [spent EXCEPT !.changes = @ + 1]
  BY DEF Tick, NewSafeBlock, WalletsChange, vars, Request, Look, SaysUnchanged, BuildOn,
         GivesOldResult, MayStart, Asking
<1> QED BY <1>1, <1>2, <1>3, ResultsAsideKeep DEF SameBooks

-----------------------------------------------------------------------------
LEMMA ResultsInitially == Init => ResultsInv
<1> SUFFICES ASSUME Init PROVE ResultsInv
  OBVIOUS
<1>1. Inv
  BY Initially
<1>2. \A w \in Wallets, b \in Blocks : books[w][b] = [at |-> "provider", id |-> 0]
  BY DEF Init
<1>3. BooksFit
  BY <1>2 DEF Init, BooksFit, Kept
<1>4. /\ \A r \in Ids : runs[r].base = None /\ runs[r].result = NoResult /\ job[r] = NoJob
      /\ NoJob.pc = "idle" /\ NoJob.result = NoResult /\ NoJob.before = Unsigned /\ NoJob.w \in Wallets
  BY Defaults DEF Init, NoJob, Job
<1>5. \A r \in Ids : SignedEarlier(r)
  BY <1>4, NothingTrue DEF SignedEarlier
<1>6. \A r \in Ids : RowTrue(r)
  BY <1>4, NothingTrue DEF RowTrue
<1> QED BY <1>1, <1>3, <1>5, <1>6 DEF ResultsInv

LEMMA ResultsInvariance == ResultsInv /\ [Next]_vars => ResultsInv'
<1> SUFFICES ASSUME ResultsInv, [Next]_vars PROVE ResultsInv'
  OBVIOUS
<1>1. Inv'
  BY Invariance DEF ResultsInv
<1>2. CASE Outside
  BY <1>1, <1>2, RequestingTrue, BooksChangeKeeps, RestTrue DEF Outside
<1>3. CASE Recovering
  BY <1>1, <1>3, RestTrue DEF Recovering
<1>4. ASSUME NEW p \in Askers, Requesting(p) PROVE ResultsInv'
  BY <1>1, <1>4, RequestingTrue, StartTrue DEF Requesting
<1>5. ASSUME NEW r \in Ids, Checking(r) \/ Fail(r) \/ DeliveryFails(r) PROVE ResultsInv'
  BY <1>1, <1>5, BeginTrue, SkipTrue, OpenWalletTrue, TraceNextTrue, CloseWalletTrue, CompleteTrue,
     RestTrue DEF Checking
<1> QED BY <1>1, <1>2, <1>3, <1>4, <1>5, RequestingTrue DEF Next

(* What a full check reported is what the books still lack while its signature matches,   *)
(* however the books changed while it ran and after it (runAudit's fingerprint before      *)
(* and after, 323-327, and requestAudit's, 169-176).                                   *)
THEOREM FullResultsAlwaysHold == Spec => []FullResultsHold
<1>1. ResultsInv => FullResultsHold
  <2> SUFFICES ASSUME ResultsInv, NEW r \in Ids, runs[r].base = None, NEW w \in Wallets,
                      runs[r].result.parts[w].sig.known,
                      runs[r].result.parts[w].sig = RangeSignature(w, runs[r].result.parts[w].to)
               PROVE  Reported(r, w) = Lacking(w, runs[r].result.parts[w].from, runs[r].result.parts[w].to)
    BY DEF FullResultsHold, StillTrue
  <2>1. TrueOf(runs[r].result, books)
    BY DEF ResultsInv, RowTrue
  <2>2. Reported(r, w) = GapBlocks(runs[r].result, w)
    BY DEF Reported, GapBlocks
  <2> QED BY <2>1, <2>2, Views DEF TrueOf
<1> QED BY <1>1, ResultsInitially, ResultsInvariance, PTL DEF Spec
=============================================================================
