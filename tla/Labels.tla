------------------------------- MODULE Labels -------------------------------
(***************************************************************************)
(* The books labels of one operator: the rows of "classifications", the   *)
(* learned "counterparty_rules", the "corrections" journal and the open    *)
(* questions of "label_proposals", as the worker's classifier and the      *)
(* operator's own sessions (chat, /label, answers) change them.            *)
(*                                                                         *)
(* The processes share nothing but the database.  Every query() is a       *)
(* transaction of its own, so everything read before a later statement may *)
(* be stale by then.  Three writers of labels (saveManyClassifications,    *)
(* relabelEvents, applyCorrection) run a multi-statement transaction that  *)
(* locks the event rows one by one (SELECT ... FOR UPDATE) and publishes   *)
(* its writes at COMMIT; Lock, Commit and Fail are that protocol.          *)
(*                                                                         *)
(* A history cls[e] is never shortened: superseding clears a row's "live". *)
(* A row's id is its place in the history of its event.                    *)
(***************************************************************************)
EXTENDS Naturals, Sequences

CONSTANTS
  Events,          \* supported transfers; natural numbers, ordered as their ids sort
  Txs, TxOf,       \* transactions, and the one each transfer is a movement of
  Addresses, AddrOf, DirOf,  \* counterparty and direction of each transfer
  Own,             \* network fees and moves between the operator's own wallets
  Labels,          \* label values the instance uses
  ModelLabels,     \* MODEL_LABELS: what the AI may choose
  Answers,         \* the labels the operator uses in the instance
  Against,         \* per direction, the labels that run against it
  SwapVenues,      \* exchange contracts known by address
  Sessions,        \* operator sessions that may run at the same time
  Worker,          \* the worker process
  MaxAttempts,     \* MAX_CLASSIFICATION_ATTEMPTS
  MaxCorrections,  \* bound: corrections started
  MaxFailures      \* bound: crashes and failed statements

Dirs == {"in", "out"}

ASSUME EventsAssumption == Events \subseteq Nat /\ Events # {}
ASSUME MapsAssumption ==
  /\ TxOf \in [Events -> Txs] /\ AddrOf \in [Events -> Addresses]
  /\ DirOf \in [Events -> Dirs] /\ Own \subseteq Events
ASSUME LabelsAssumption ==
  /\ {"unknown", "swap", "internal_transfer"} \subseteq Labels
  /\ "none" \notin Labels
  /\ ModelLabels \subseteq Labels /\ Answers \subseteq Labels
  /\ Against \in [Dirs -> SUBSET Labels]
ASSUME ProcsAssumption == Worker \notin Sessions
ASSUME BoundsAssumption ==
  MaxAttempts \in Nat /\ MaxCorrections \in Nat /\ MaxFailures \in Nat

VARIABLES
  arrived,      \* transfers in normalized_events
  txShape,      \* shape of each transaction, from the movements recorded so far
  cls,          \* classification history of each transfer
  rule,         \* counterparty_rules, by <<address, direction>>
  corrections,  \* the corrections journal
  proposals,    \* label_proposals
  pc,           \* where each process is
  want,         \* what each process's transaction is to write, by transfer
  staged,       \* what it has locked and decided so far, by transfer
  task,         \* a session's own variables
  seen,         \* the worker's own variables: transfers read as pending, and rules
  keep,         \* the worker's own variable: labels that only change shape
  budget        \* what is left of the bounds

vars == <<arrived, txShape, cls, rule, corrections, proposals, pc, want, staged,
          task, seen, keep, budget>>

Procs == Sessions \cup {Worker}
Parties == Addresses \X Dirs
PartyOf(e) == <<AddrOf[e], DirOf[e]>>
SourceTypes == {"auto", "user", "failure"}
Methods == {"deterministic", "counterparty", "model"}
TxShapes == {"single", "swap", "complex"}
Shapes == TxShapes \cup {"own", "none"}

Row == [label: Labels, source: SourceTypes, method: Methods, rule: BOOLEAN,
        shape: Shapes, attempts: Nat, live: BOOLEAN]
Rule == {r \in [label: Labels \cup {"none"}, active: BOOLEAN] : r.active => r.label # "none"}
Plans == {"learn", "switch_off", "swap_venue", "one_off", "none"}
Correction == [event: Events, label: Labels, replaced: Nat, new: Nat, plan: Plans]
Kinds == {"apply_rule", "send_back"}
Proposal == [kind: Kinds, party: Parties, label: Labels, source: Events,
             events: SUBSET Events,
             status: {"pending", "accepted", "declined", "expired", "superseded"}]
(* A write one of the three transactions is asked for; "exp" is expected_active_id *)
(* (0 is null) and counts only for "save".                                       *)
Request == [op: {"save", "relabel", "correct"}, exp: Nat,
            fail: {"no", "counted", "uncounted"}, row: Row]
(* The decision taken under the lock: rows superseded (or updated), row written. *)
Decision == [kind: {"skip", "touch", "write"}, ids: SUBSET Nat, row: Row]
Task == {t \in [event: Events, label: Labels, plan: Plans, old: Nat,
                 was: Labels \cup {"none"}, cover: SUBSET Events, prop: Nat] :
           t.plan = "switch_off" => t.was # "none"}
Keep == [event: Events, id: Nat, shape: Shapes]
PCs == {"idle", "legs", "txn", "shapes", "rule", "cover", "supersede", "ask",
        "claimed"}

MapsInto(f, S, T) == DOMAIN f \subseteq S /\ \A x \in DOMAIN f : f[x] \in T
Empty == [x \in {} |-> x]
NoTask == [event |-> CHOOSE e \in Events : TRUE, label |-> "unknown", plan |-> "none",
           old |-> 0, was |-> "none", cover |-> {}, prop |-> 0]
NoneSeen == [pend |-> Empty, rules |-> [p \in Parties |-> [label |-> "none", active |-> FALSE]]]
NewRow(label, source, method, byRule, shape) ==
  [label |-> label, source |-> source, method |-> method, rule |-> byRule,
   shape |-> shape, attempts |-> 0, live |-> TRUE]

LiveIds(rows) == {i \in DOMAIN rows : rows[i].live}
IsLive(rows, source) == \E i \in LiveIds(rows) : rows[i].source = source

(* The shape a label on this movement should carry. *)
ShapeOf(e) == IF e \in Own THEN "own" ELSE txShape[TxOf[e]]

-----------------------------------------------------------------------------
(* Ingestion.  The worker's cycle stores transfers before it classifies, so   *)
(* a movement arrives only while the classifier is not running.  Movements of *)
(* a transaction only accumulate: a swap never becomes a one-way payment.     *)
Arrive(e) ==
  /\ pc[Worker] = "idle" /\ e \notin arrived
  /\ arrived' = arrived \cup {e}
  /\ \E sh \in TxShapes :
       /\ IF e \in Own THEN sh = txShape[TxOf[e]]
                       ELSE txShape[TxOf[e]] # "single" => sh # "single"
       /\ txShape' = [txShape EXCEPT ![TxOf[e]] = sh]
  /\ UNCHANGED <<cls, rule, corrections, proposals, pc, want, staged, task,
                 seen, keep, budget>>

(* A movement of a token Luca does not track is kept too, without a label of   *)
(* its own; against the direction of a tracked one it makes the whole complex. *)
ArriveUntracked(t) ==
  /\ pc[Worker] = "idle" /\ \E e \in arrived \ Own : TxOf[e] = t
  /\ txShape[t] # "complex"
  /\ txShape' = [txShape EXCEPT ![t] = "complex"]
  /\ UNCHANGED <<arrived, cls, rule, corrections, proposals, pc, want, staged, task,
                 seen, keep, budget>>

-----------------------------------------------------------------------------
(* The label transaction shared by the three writers.                         *)

(* saveManyClassifications: never over the operator's label, never over a row *)
(* written after the event was read; a repeated failure updates its row.      *)
SaveDecision(rq, rows) ==
  LET live == LiveIds(rows)
      unchanged == live = (IF rq.exp = 0 THEN {} ELSE {rq.exp})
      prev == {i \in live : live = {i} /\ rows[i].source = "failure"}
      before == IF prev = {} THEN 0 ELSE rows[CHOOSE i \in prev : TRUE].attempts
      tries == before + (IF rq.fail = "counted" THEN 1 ELSE 0)
      row == IF rq.fail = "no" THEN rq.row ELSE [rq.row EXCEPT !.attempts = tries]
  IN  [kind |-> IF IsLive(rows, "user") \/ ~unchanged THEN "skip"
                ELSE IF rq.fail # "no" /\ prev # {} THEN "touch" ELSE "write",
       ids |-> live, row |-> row]

(* relabelEvents: only the operator's own label stops it. *)
(* A bug the properties must notice: without that check. *)
RelabelDecisionUnchecked(rq, rows) ==
  [kind |-> "write", ids |-> LiveIds(rows), row |-> rq.row]
RelabelDecision(rq, rows) ==
  [kind |-> IF rq.row.source # "user" /\ IsLive(rows, "user") THEN "skip" ELSE "write",
   ids |-> LiveIds(rows), row |-> rq.row]

(* applyCorrection: the operator's word always stands. *)
CorrectDecision(rq, rows) == [kind |-> "write", ids |-> LiveIds(rows), row |-> rq.row]

Decide(rq, rows) ==
  CASE rq.op = "save"    -> SaveDecision(rq, rows)
    [] rq.op = "relabel" -> RelabelDecision(rq, rows)
    [] rq.op = "correct" -> CorrectDecision(rq, rows)

(* A bug: the row is read without FOR UPDATE. *)
FreeAlways(e) == TRUE
Free(e) == \A q \in Procs : e \notin DOMAIN staged[q]
Waiting(p) == DOMAIN want[p] \ DOMAIN staged[p]
(* A bug: the events are not sorted first. *)
NextToLockAny(p) == Waiting(p)
NextToLock(p) == {e \in Waiting(p) : \A f \in Waiting(p) : e <= f}

(* SELECT ... FOR UPDATE on the next event in id order, and the decision. *)
Lock(p) ==
  /\ pc[p] = "txn"
  /\ \E e \in NextToLock(p) :
       /\ Free(e)
       /\ staged' = [staged EXCEPT ![p] =
            [f \in DOMAIN staged[p] \cup {e} |->
               IF f = e THEN Decide(want[p][e], cls[e]) ELSE staged[p][f]]]
  /\ UNCHANGED <<arrived, txShape, cls, rule, corrections, proposals, pc, want,
                 task, seen, keep, budget>>

Supersede(rows, ids) ==
  [i \in DOMAIN rows |-> IF i \in ids THEN [rows[i] EXCEPT !.live = FALSE] ELSE rows[i]]
Publish(rows, d) ==
  CASE d.kind = "write" -> Append(Supersede(rows, d.ids), d.row)
    [] d.kind = "touch" -> [i \in DOMAIN rows |->
         IF i \in d.ids THEN [rows[i] EXCEPT !.attempts = d.row.attempts] ELSE rows[i]]
    [] d.kind = "skip"  -> rows

(* COMMIT publishes every write and releases the locks. *)
Released(p) == [staged EXCEPT ![p] = Empty]
CommitLabels(p) ==
  /\ pc[p] = "txn" /\ Waiting(p) = {}
  /\ cls' = [e \in Events |-> IF e \in DOMAIN staged[p]
                              THEN Publish(cls[e], staged[p][e]) ELSE cls[e]]
  /\ staged' = Released(p)
  /\ want' = [want EXCEPT ![p] = Empty]

(* A process dies, or a statement of it fails: the open transaction rolls back *)
(* and nothing that was to follow happens.                                     *)
Fail(p) ==
  /\ pc[p] # "idle" /\ budget.failures > 0
  /\ budget' = [budget EXCEPT !.failures = @ - 1]
  /\ pc' = [pc EXCEPT ![p] = "idle"]
  /\ want' = [want EXCEPT ![p] = Empty]
  /\ staged' = Released(p)
  /\ task' = [s \in Sessions |-> IF s = p THEN NoTask ELSE task[s]]
  /\ seen' = IF p = Worker THEN NoneSeen ELSE seen
  /\ keep' = IF p = Worker THEN {} ELSE keep
  /\ UNCHANGED <<arrived, txShape, cls, rule, corrections, proposals>>

-----------------------------------------------------------------------------
(* The classifier (classifyPendingEvents).                                    *)

(* No live row, or a failure placeholder with attempts left. *)
Retryable(e) == /\ IsLive(cls[e], "failure")
                /\ \E i \in LiveIds(cls[e]) : cls[e][i].attempts < MaxAttempts
(* A bug: labeled transfers read as pending too. *)
PendingUnfiltered == arrived
Pending == {e \in arrived :
              /\ ~IsLive(cls[e], "auto") /\ ~IsLive(cls[e], "user")
              /\ LiveIds(cls[e]) = {} \/ Retryable(e)}
(* A bug: a row expected where there is none. *)
ActiveIdUnset(e) == IF LiveIds(cls[e]) = {} THEN 1 ELSE CHOOSE i \in LiveIds(cls[e]) : TRUE
ActiveId(e) == IF LiveIds(cls[e]) = {} THEN 0 ELSE CHOOSE i \in LiveIds(cls[e]) : TRUE
ActiveRow(e) == cls[e][ActiveId(e)]

(* The first reads: pending transfers with their active row, and the rules.    *)
(* A placeholder still backing off may be left out; the rest are all read.     *)
ReadPending ==
  /\ pc[Worker] = "idle" /\ Pending # {}
  /\ \E ready \in SUBSET Pending :
       /\ ready # {} /\ \A e \in Pending : LiveIds(cls[e]) = {} => e \in ready
       /\ seen' = [pend |-> [e \in ready |-> ActiveId(e)], rules |-> rule]
  /\ pc' = [pc EXCEPT ![Worker] = "legs"]
  /\ UNCHANGED <<arrived, txShape, cls, rule, corrections, proposals, want,
                 staged, task, keep, budget>>

(* Nothing pending: the pass returns at once. *)
IdlePass ==
  /\ pc[Worker] = "idle" /\ Pending = {}
  /\ UNCHANGED vars

(* What the transaction alone decides. *)
ShapeLabel(sh) == CASE sh = "own"     -> "internal_transfer"
                    [] sh = "swap"    -> "swap"
                    [] sh = "complex" -> "unknown"
KeepsLabel(row) == row.method = "counterparty" \/
                   (row.method = "model" /\ row.label \in ModelLabels)

(* Automated labels of the same transactions whose shape is no longer theirs. *)
Rechecked ==
  {e \in arrived \ DOMAIN seen.pend :
     /\ \E f \in DOMAIN seen.pend : TxOf[e] = TxOf[f]
     /\ IsLive(cls[e], "auto") /\ ActiveRow(e).shape # ShapeOf(e)}

(* What one transfer may come out as: by its transaction alone, by the label it *)
(* keeps, by a rule as read at the start of the pass, or by the AI, which       *)
(* answers, fails in a way that counts as an attempt, or in one that does not.  *)
Outcomes(e) ==
  LET sh == ShapeOf(e)
      r == seen.rules[PartyOf(e)]
      label(l, method, byRule) == [fail |-> "no", row |-> NewRow(l, "auto", method, byRule, sh)]
      failure(f) == [fail |-> f, row |-> NewRow("unknown", "failure", "model", FALSE, "none")]
  IN  IF sh # "single" THEN {label(ShapeLabel(sh), "deterministic", FALSE)}
      ELSE IF e \in Rechecked /\ KeepsLabel(ActiveRow(e))
      THEN {[fail |-> "no", row |-> [ActiveRow(e) EXCEPT !.shape = sh]]}
      ELSE IF r.active THEN {label(r.label, "counterparty", TRUE)}
      ELSE {label(l, "model", FALSE) : l \in ModelLabels}
           \cup {failure("counted"), failure("uncounted")}

(* Reads the transactions' movements, decides every item (the AI call lies     *)
(* between this read and the first lock) and opens the save transaction.       *)
ReadLegs ==
  LET work == DOMAIN seen.pend \cup Rechecked
      kept(e, o) == /\ e \in Rechecked /\ o.fail = "no"
                    /\ o.row.label = ActiveRow(e).label /\ o.row.method = ActiveRow(e).method
  IN  /\ pc[Worker] = "legs"
      /\ \E out \in [work -> UNION {Outcomes(e) : e \in work}] :
           /\ \A e \in work : out[e] \in Outcomes(e)
           /\ want' = [want EXCEPT ![Worker] =
                [e \in {x \in work : ~kept(x, out[x])} |->
                   [op |-> "save", fail |-> out[e].fail, row |-> out[e].row,
                    exp |-> IF e \in Rechecked THEN ActiveId(e) ELSE seen.pend[e]]]]
           /\ keep' = {[event |-> e, id |-> ActiveId(e), shape |-> ShapeOf(e)] :
                         e \in {x \in work : kept(x, out[x])}}
      /\ pc' = [pc EXCEPT ![Worker] = "txn"]
      /\ UNCHANGED <<arrived, txShape, cls, rule, corrections, proposals, staged,
                     task, seen, budget>>

SaveLabels ==
  /\ CommitLabels(Worker)
  /\ pc' = [pc EXCEPT ![Worker] = "shapes"]
  /\ UNCHANGED <<arrived, txShape, rule, corrections, proposals, task, seen,
                 keep, budget>>

(* setShapes: each kept label, if it is still the active one. *)
SetShapes ==
  /\ pc[Worker] = "shapes"
  /\ cls' = [e \in Events |-> [i \in DOMAIN cls[e] |->
               IF cls[e][i].live /\ \E k \in keep : k.event = e /\ k.id = i
               THEN [cls[e][i] EXCEPT !.shape =
                       (CHOOSE k \in keep : k.event = e /\ k.id = i).shape]
               ELSE cls[e][i]]]
  /\ pc' = [pc EXCEPT ![Worker] = "idle"]
  /\ keep' = {} /\ seen' = NoneSeen
  /\ UNCHANGED <<arrived, txShape, rule, corrections, proposals, want, staged,
                 task, budget>>

-----------------------------------------------------------------------------
(* A correction by the operator (applyCorrection).                            *)

IsSwapVenue(a) == \/ a \in SwapVenues
                  \/ \E e \in arrived : /\ AddrOf[e] = a
                       /\ \E i \in LiveIds(cls[e]) : cls[e][i].shape = "swap"

PlanFor(e, label) ==
  LET r == rule[PartyOf(e)]
  IN  IF r.active /\ r.label # label THEN "switch_off"
      ELSE IF label = "unknown" THEN "none"
      ELSE IF label \in Against[DirOf[e]] THEN "one_off"
      ELSE IF r.active THEN "learn"
      ELSE IF IsSwapVenue(AddrOf[e]) THEN "swap_venue"
      ELSE "learn"

(* The reads before the transaction: the event with its active row, the rule. *)
ReadForCorrection(s, e, label) ==
  /\ pc[s] = "idle" /\ e \in arrived /\ budget.corrections > 0
  /\ budget' = [budget EXCEPT !.corrections = @ - 1]
  /\ task' = [task EXCEPT ![s] =
       [event |-> e, label |-> label, plan |-> PlanFor(e, label), old |-> ActiveId(e),
        was |-> rule[PartyOf(e)].label, cover |-> {}, prop |-> 0]]
  /\ want' = [want EXCEPT ![s] = [x \in {e} |->
       [op |-> "correct", exp |-> 0, fail |-> "no",
        row |-> NewRow(label, "user", "counterparty", FALSE, "none")]]]
  /\ pc' = [pc EXCEPT ![s] = "txn"]
  /\ UNCHANGED <<arrived, txShape, cls, rule, corrections, proposals, staged,
                 seen, keep>>

(* The operator's row and the journal entry commit together. *)
SaveCorrection(s) ==
  LET t == task[s]
      next == CASE t.plan \in {"learn", "switch_off"} -> "rule"
                [] t.plan \in {"swap_venue", "one_off", "none"} -> "supersede"
  IN  /\ t.prop = 0
      /\ CommitLabels(s)
      /\ corrections' = Append(corrections,
           [event |-> t.event, label |-> t.label, replaced |-> t.old,
            new |-> Len(cls[t.event]) + 1, plan |-> t.plan])
      /\ pc' = [pc EXCEPT ![s] = next]
      /\ UNCHANGED <<arrived, txShape, rule, proposals, task, seen, keep, budget>>

(* After the commit: teach the rule (switching it back on) or switch it off. *)
ChangeRule(s) ==
  LET t == task[s]
      p == PartyOf(t.event)
  IN  /\ pc[s] = "rule"
      /\ rule' = [rule EXCEPT ![p] =
           IF t.plan = "learn" THEN [label |-> t.label, active |-> TRUE]
                               ELSE [@ EXCEPT !.active = FALSE]]
      /\ pc' = [pc EXCEPT ![s] = "cover"]
      /\ UNCHANGED <<arrived, txShape, cls, corrections, proposals, want, staged,
                     task, seen, keep, budget>>

(* Earlier automated labels the rule covers, or that it made. *)
EventsForRule(p, label, except) ==
  {e \in arrived \ {except} : PartyOf(e) = p /\ \E i \in LiveIds(cls[e]) :
     /\ cls[e][i].source = "auto" /\ cls[e][i].shape \in {"single", "none"}
     /\ cls[e][i].method # "deterministic" /\ cls[e][i].label # label}
EventsLabeledByRule(p, except) ==
  {e \in arrived \ {except} : PartyOf(e) = p /\ \E i \in LiveIds(cls[e]) :
     cls[e][i].source = "auto" /\ cls[e][i].method = "counterparty"}

ReadCovered(s) ==
  LET t == task[s]
      p == PartyOf(t.event)
  IN  /\ pc[s] = "cover"
      /\ task' = [task EXCEPT ![s].cover =
           IF t.plan = "learn" THEN EventsForRule(p, t.label, t.event)
                               ELSE EventsLabeledByRule(p, t.event)]
      /\ pc' = [pc EXCEPT ![s] = "supersede"]
      /\ UNCHANGED <<arrived, txShape, cls, rule, corrections, proposals, want,
                     staged, seen, keep, budget>>

(* supersedeProposals: an earlier question about this party no longer applies. *)
(* A bug: only when there is nothing to ask. *)
ReplacesIfNothingCovered(s, i) ==
  /\ proposals[i].status = "pending" /\ proposals[i].party = PartyOf(task[s].event)
  /\ task[s].cover = {}
Replaces(s, i) ==
  proposals[i].status = "pending" /\ proposals[i].party = PartyOf(task[s].event)
SupersedeProposals(s) ==
  LET covered == task[s].cover # {}
  IN  /\ pc[s] = "supersede"
      /\ proposals' = [i \in DOMAIN proposals |->
           IF Replaces(s, i) THEN [proposals[i] EXCEPT !.status = "superseded"]
                             ELSE proposals[i]]
      /\ pc' = [pc EXCEPT ![s] = IF covered THEN "ask" ELSE "idle"]
      /\ task' = IF covered THEN task ELSE [task EXCEPT ![s] = NoTask]
      /\ UNCHANGED <<arrived, txShape, cls, rule, corrections, want, staged, seen,
                     keep, budget>>

(* createProposal's insert: the question with the exact transfers. *)
AskProposal(s) ==
  LET t == task[s]
  IN  /\ pc[s] = "ask"
      /\ proposals' = Append(proposals,
           [kind |-> IF t.plan = "learn" THEN "apply_rule" ELSE "send_back",
            party |-> PartyOf(t.event),
            label |-> IF t.plan = "learn" THEN t.label ELSE t.was,
            source |-> t.event, events |-> t.cover, status |-> "pending"])
      /\ pc' = [pc EXCEPT ![s] = "idle"]
      /\ task' = [task EXCEPT ![s] = NoTask]
      /\ UNCHANGED <<arrived, txShape, cls, rule, corrections, want, staged, seen,
                     keep, budget>>

-----------------------------------------------------------------------------
(* An answer to an open question (answerProposal).                            *)

(* The claim: one conditional UPDATE moves it out of "pending". *)
(* A bug: the UPDATE does not ask for "pending". *)
ClaimableAlways(i) == i \in DOMAIN proposals
Claimable(i) == i \in DOMAIN proposals /\ proposals[i].status = "pending"
ClaimProposal(s, i, accept) ==
  /\ pc[s] = "idle" /\ Claimable(i)
  /\ proposals' = [proposals EXCEPT ![i].status = IF accept THEN "accepted" ELSE "declined"]
  /\ task' = IF accept THEN [task EXCEPT ![s] = [@ EXCEPT !.prop = i]] ELSE task
  /\ pc' = IF accept THEN [pc EXCEPT ![s] = "claimed"] ELSE pc
  /\ UNCHANGED <<arrived, txShape, cls, rule, corrections, want, staged, seen,
                 keep, budget>>

(* Re-reads which of its transfers still qualify and opens relabelEvents. *)
StillQualify(q) ==
  q.events \cap
    (IF q.kind = "send_back" THEN EventsLabeledByRule(q.party, q.source)
     ELSE IF rule[q.party].active THEN EventsForRule(q.party, q.label, q.source)
     ELSE {})
ApplyProposal(s) ==
  LET q == proposals[task[s].prop]
      row == IF q.kind = "apply_rule"
             THEN NewRow(q.label, "auto", "counterparty", TRUE, "single")
             ELSE NewRow("unknown", "auto", "counterparty", FALSE, "single")
  IN  /\ pc[s] = "claimed"
      /\ want' = [want EXCEPT ![s] = [e \in StillQualify(q) |->
           [op |-> "relabel", exp |-> 0, fail |-> "no", row |-> row]]]
      /\ pc' = [pc EXCEPT ![s] = "txn"]
      /\ UNCHANGED <<arrived, txShape, cls, rule, corrections, proposals, staged,
                     task, seen, keep, budget>>

SaveRelabels(s) ==
  /\ task[s].prop # 0
  /\ CommitLabels(s)
  /\ pc' = [pc EXCEPT ![s] = "idle"]
  /\ task' = [task EXCEPT ![s] = NoTask]
  /\ UNCHANGED <<arrived, txShape, rule, corrections, proposals, seen, keep,
                 budget>>

(* Seven days pass without an answer. *)
Expire(i) ==
  /\ proposals[i].status = "pending"
  /\ proposals' = [proposals EXCEPT ![i].status = "expired"]
  /\ UNCHANGED <<arrived, txShape, cls, rule, corrections, pc, want, staged, task,
                 seen, keep, budget>>

-----------------------------------------------------------------------------
Init ==
  /\ arrived = {}
  /\ txShape = [t \in Txs |-> "single"]
  /\ cls = [e \in Events |-> <<>>]
  /\ rule = [p \in Parties |-> [label |-> "none", active |-> FALSE]]
  /\ corrections = <<>> /\ proposals = <<>>
  /\ pc = [p \in Procs |-> "idle"]
  /\ want = [p \in Procs |-> Empty] /\ staged = [p \in Procs |-> Empty]
  /\ task = [s \in Sessions |-> NoTask]
  /\ seen = NoneSeen /\ keep = {}
  /\ budget = [corrections |-> MaxCorrections, failures |-> MaxFailures]

Classifier == ReadPending \/ ReadLegs \/ SaveLabels \/ SetShapes \/ IdlePass
Correcting(s) ==
  \/ \E e \in Events, l \in Answers : ReadForCorrection(s, e, l)
  \/ SaveCorrection(s) \/ ChangeRule(s) \/ ReadCovered(s)
  \/ SupersedeProposals(s) \/ AskProposal(s)
Answering(s) ==
  \/ \E i \in DOMAIN proposals, accept \in BOOLEAN : ClaimProposal(s, i, accept)
  \/ ApplyProposal(s) \/ SaveRelabels(s)

Next ==
  \/ \E e \in Events : Arrive(e)
  \/ \E t \in Txs : ArriveUntracked(t)
  \/ Classifier
  \/ \E s \in Sessions : Correcting(s) \/ Answering(s)
  \/ \E p \in Procs : Lock(p) \/ Fail(p)
  \/ \E i \in DOMAIN proposals : Expire(i)

Spec == Init /\ [][Next]_vars

(* The worker loops for ever and a transaction that is open goes on; nobody    *)
(* has to correct or answer anything.                                          *)
Fairness ==
  /\ WF_vars(ReadPending) /\ WF_vars(ReadLegs) /\ WF_vars(SaveLabels) /\ WF_vars(SetShapes)
  /\ \A p \in Procs : WF_vars(Lock(p))
  /\ \A s \in Sessions : WF_vars(SaveCorrection(s)) /\ WF_vars(SaveRelabels(s))
FairSpec == Spec /\ Fairness

-----------------------------------------------------------------------------
(* Every variable holds rows, rules, questions and requests of the right kind. *)
TypeOK ==
  /\ arrived \subseteq Events
  /\ txShape \in [Txs -> TxShapes]
  /\ cls \in [Events -> Seq(Row)]
  /\ rule \in [Parties -> Rule]
  /\ corrections \in Seq(Correction) /\ proposals \in Seq(Proposal)
  /\ pc \in [Procs -> PCs]
  /\ DOMAIN want = Procs /\ DOMAIN staged = Procs
  /\ \A p \in Procs : /\ MapsInto(want[p], Events, Request)
                      /\ MapsInto(staged[p], DOMAIN want[p], Decision)
  /\ task \in [Sessions -> Task]
  /\ MapsInto(seen.pend, Events, Nat) /\ seen.rules \in [Parties -> Rule]
  /\ keep \subseteq Keep
  /\ budget \in [corrections: Nat, failures: Nat]

(* Superseding and inserting under the event's lock leaves each transfer with  *)
(* exactly one active row once it has any, the newest: two writers never both  *)
(* insert, and none leaves a labeled transfer without a label.                 *)
OneActiveRow ==
  \A e \in Events : LiveIds(cls[e]) = IF cls[e] = <<>> THEN {} ELSE {Len(cls[e])}

(* What a transaction decides when it locks a transfer still holds when it     *)
(* commits: the rows it supersedes are the active ones, what it adds is        *)
(* active, and it adds nothing automatic over a label of the operator's, though *)
(* its requests were read long before.                                         *)
DecisionsStayTrue ==
  \A p \in Procs : \A e \in DOMAIN staged[p] :
    /\ staged[p][e].ids = LiveIds(cls[e])
    /\ staged[p][e].kind = "write" =>
         /\ staged[p][e].row.live
         /\ IsLive(cls[e], "user") => staged[p][e].row.source = "user"

(* Events are locked in id order, so the transaction that holds the highest    *)
(* event never waits for another: writers of the same events cannot deadlock.  *)
LocksGoUp == \A p \in Procs : \A e \in DOMAIN staged[p], f \in Waiting(p) : e < f

(* A proposal is applied by one session only, however often it is answered.    *)
ClaimedOnce ==
  \A s, t \in Sessions : task[s].prop # 0 /\ task[s].prop = task[t].prop => s = t

(* A live automated label that fits its transaction changes only because the   *)
(* operator corrected this transfer or said yes to a question that listed it.  *)
FitsItsShape(e) == /\ IsLive(cls[e], "auto")
                   /\ ActiveRow(e).shape = ShapeOf(e)
EarlierLabelsNeedYes ==
  [][\A e \in Events : FitsItsShape(e) /\ IsLive(cls'[e], "auto") =>
       \/ ActiveRow(e)'.label = ActiveRow(e).label
       \/ \E i \in DOMAIN proposals : proposals[i].status = "accepted" /\ e \in proposals[i].events
    ]_vars

(* A history as the log shows it. *)
View(rows) == [i \in DOMAIN rows |-> [label |-> rows[i].label, source |-> rows[i].source]]

(* The label histories are the books' append-only log, in which nothing        *)
(* automatic follows the operator's word.                                      *)
Log == INSTANCE LabelLog WITH log <- [e \in Events |-> View(cls[e])]
AppendOnlyBooks == Log!Spec

(* Every transfer that arrives gets a label, or a placeholder that says why not. *)
EveryTransferAnswered == \A e \in Events : e \in arrived ~> LiveIds(cls[e]) # {}

-----------------------------------------------------------------------------
(* What the documentation says of corrections, rules and questions.            *)

(* "superseded when a newer correction for the same address and direction      *)
(* replaces the question" (migrations/023): one open question for each.        *)
OneOpenQuestion ==
  \A i, j \in DOMAIN proposals :
    /\ proposals[i].status = "pending" /\ proposals[j].status = "pending"
    /\ proposals[i].party = proposals[j].party
    => i = j

(* "the correction records ... the replaced classification"                    *)
(* (docs/operating-rules.md): the row before the operator's own.               *)
RecordsWhatItReplaced ==
  \A k \in DOMAIN corrections : corrections[k].replaced = corrections[k].new - 1

(* A contradicted rule's "earlier labels should then be re-checked"            *)
(* (migrations/023): when nobody is at work, a label of a switched-off rule    *)
(* has been asked about.                                                       *)
SwitchedOffLabelsAsked ==
  (\A p \in Procs : pc[p] = "idle") =>
    \A e \in Events : \A i \in LiveIds(cls[e]) :
      cls[e][i].rule /\ ~rule[PartyOf(e)].active =>
        \E j \in DOMAIN proposals : proposals[j].kind = "send_back" /\ e \in proposals[j].events

(* "Work: every transfer without a label, plus automated labels whose          *)
(* transaction now looks different (a leg arrived later ...)" (engine.ts):     *)
(* an automated label that no longer fits its transaction is replaced, or the  *)
(* operator labels the transfer.                                               *)
Misfit(e) == IsLive(cls[e], "auto") /\ ~FitsItsShape(e)
LabelsFitTransactions == \A e \in Events : Misfit(e) ~> ~Misfit(e)
=============================================================================
