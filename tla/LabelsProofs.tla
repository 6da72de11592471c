---------------------------- MODULE LabelsProofs ----------------------------
(***************************************************************************)
(* Proofs about Labels: its type invariant, the lock discipline that keeps *)
(* one active row on each transfer, and that the histories implement the   *)
(* append-only log of LabelLog.                                            *)
(***************************************************************************)
EXTENDS Labels, SequenceTheorems, TLAPS

-----------------------------------------------------------------------------
(* Operators on histories.                                                    *)

(* The active rows of a history are places in it. *)
LEMMA LiveIdsType ==
  ASSUME NEW rows \in Seq(Row) PROVE LiveIds(rows) \subseteq 1 .. Len(rows)
  BY DEF LiveIds

(* A row built by NewRow is a row. *)
LEMMA NewRowType ==
  ASSUME NEW l \in Labels, NEW src \in SourceTypes, NEW m \in Methods,
         NEW b \in BOOLEAN, NEW sh \in Shapes
  PROVE  NewRow(l, src, m, b, sh) \in Row
  BY DEF NewRow, Row

(* Deciding under the lock yields a decision whose rows are the active ones. *)
LEMMA DecideType ==
  ASSUME NEW rq \in Request, NEW rows \in Seq(Row)
  PROVE  /\ Decide(rq, rows) \in Decision
         /\ Decide(rq, rows).ids = LiveIds(rows)
<1>1. LiveIds(rows) \in SUBSET Nat
  BY LiveIdsType
<1>2. CASE rq.op = "save"
  <2> DEFINE live == LiveIds(rows)
             prev == {i \in live : live = {i} /\ rows[i].source = "failure"}
             before == IF prev = {} THEN 0 ELSE rows[CHOOSE i \in prev : TRUE].attempts
             tries == before + (IF rq.fail = "counted" THEN 1 ELSE 0)
             row == IF rq.fail = "no" THEN rq.row ELSE [rq.row EXCEPT !.attempts = tries]
  <2>1. before \in Nat
    <3>1. CASE prev = {}
      BY <3>1
    <3>2. CASE prev # {}
      <4>1. (CHOOSE i \in prev : TRUE) \in prev
        BY <3>2
      <4>2. (CHOOSE i \in prev : TRUE) \in 1 .. Len(rows)
        BY <4>1, LiveIdsType
      <4>3. rows[CHOOSE i \in prev : TRUE] \in Row
        BY <4>2
      <4>4. rows[CHOOSE i \in prev : TRUE].attempts \in Nat
        BY <4>3 DEF Row
      <4> QED BY <3>2, <4>4
    <3> QED BY <3>1, <3>2
  <2>2. tries \in Nat
    BY <2>1
  <2>3. row \in Row
    BY <2>2 DEF Request, Row
  <2>4. Decide(rq, rows) = SaveDecision(rq, rows)
    BY <1>2 DEF Decide
  <2>5. /\ SaveDecision(rq, rows).ids = live
        /\ SaveDecision(rq, rows).row = row
        /\ SaveDecision(rq, rows).kind \in {"skip", "touch", "write"}
        /\ SaveDecision(rq, rows) = [kind |-> SaveDecision(rq, rows).kind, ids |-> live, row |-> row]
    BY DEF SaveDecision
  <2> QED BY <1>1, <2>3, <2>4, <2>5 DEF Decision
<1>3. CASE rq.op = "relabel"
  BY <1>1, <1>3 DEF Decide, RelabelDecision, Decision, Request
<1>4. CASE rq.op = "correct"
  BY <1>1, <1>4 DEF Decide, CorrectDecision, Decision, Request
<1> QED BY <1>2, <1>3, <1>4 DEF Request

(* Superseding keeps the length of a history and every row's place in it. *)
LEMMA SupersedeType ==
  ASSUME NEW rows \in Seq(Row), NEW ids
  PROVE  /\ Supersede(rows, ids) \in Seq(Row)
         /\ Len(Supersede(rows, ids)) = Len(rows)
         /\ \A i \in 1 .. Len(rows) :
              Supersede(rows, ids)[i] = IF i \in ids THEN [rows[i] EXCEPT !.live = FALSE]
                                                     ELSE rows[i]
<1> DEFINE new == [i \in 1 .. Len(rows) |->
                     IF i \in ids THEN [rows[i] EXCEPT !.live = FALSE] ELSE rows[i]]
<1>1. Supersede(rows, ids) = new
  BY DEF Supersede
<1>2. ASSUME NEW i \in 1 .. Len(rows) PROVE new[i] \in Row
  <2>1. rows[i] \in Row
    OBVIOUS
  <2>2. [rows[i] EXCEPT !.live = FALSE] \in Row
    BY <2>1 DEF Row
  <2> QED BY <2>1, <2>2
<1>3. new \in Seq(Row) /\ Len(new) = Len(rows)
  BY <1>2
<1> QED BY <1>1, <1>3

(* Publishing a decision leaves a history. *)
LEMMA PublishType ==
  ASSUME NEW rows \in Seq(Row), NEW d \in Decision
  PROVE  Publish(rows, d) \in Seq(Row)
<1>1. CASE d.kind = "write"
  BY <1>1, SupersedeType DEF Publish, Decision
<1>2. CASE d.kind = "touch"
  <2> DEFINE new == [i \in 1 .. Len(rows) |->
                 IF i \in d.ids THEN [rows[i] EXCEPT !.attempts = d.row.attempts] ELSE rows[i]]
  <2>1. Publish(rows, d) = new
    BY <1>2 DEF Publish
  <2>2. d.row.attempts \in Nat
    BY DEF Decision, Row
  <2>3. ASSUME NEW i \in 1 .. Len(rows) PROVE new[i] \in Row
    <3>1. rows[i] \in Row
      OBVIOUS
    <3>2. [rows[i] EXCEPT !.attempts = d.row.attempts] \in Row
      BY <2>2, <3>1 DEF Row
    <3> QED BY <3>1, <3>2
  <2> QED BY <2>1, <2>3
<1>3. CASE d.kind = "skip"
  BY <1>3 DEF Publish
<1> QED BY <1>1, <1>2, <1>3 DEF Decision

(* The active row of a transfer that has one, and its id. *)
LEMMA ActiveRowType ==
  ASSUME cls \in [Events -> Seq(Row)], NEW e \in Events
  PROVE  /\ ActiveId(e) \in Nat
         /\ LiveIds(cls[e]) # {} =>
              /\ ActiveId(e) \in LiveIds(cls[e])
              /\ ActiveRow(e) \in Row /\ ActiveRow(e).live
<1>1. LiveIds(cls[e]) \subseteq 1 .. Len(cls[e])
  BY LiveIdsType
<1>2. CASE LiveIds(cls[e]) = {}
  BY <1>2 DEF ActiveId
<1>3. CASE LiveIds(cls[e]) # {}
  <2>1. ActiveId(e) \in LiveIds(cls[e])
    BY <1>3 DEF ActiveId
  <2>2. ActiveId(e) \in 1 .. Len(cls[e])
    BY <1>1, <2>1
  <2>3. ActiveRow(e) \in Row
    BY <2>2 DEF ActiveRow
  <2>4. ActiveRow(e).live
    BY <2>1 DEF ActiveRow, LiveIds
  <2> QED BY <2>1, <2>2, <2>3, <2>4
<1> QED BY <1>2, <1>3

-----------------------------------------------------------------------------
(* Type correctness.  ApplyProposal reads the question its session claimed, so *)
(* the invariant also says that a claimed question exists; that it is accepted *)
(* is what makes the claim exclusive.  A process has writes to make only inside *)
(* its transaction, so it opens the next one with no lock held.                *)

SessionState(s) ==
  /\ task[s].prop # 0 => /\ task[s].prop \in DOMAIN proposals
                         /\ proposals[task[s].prop].status = "accepted"
  /\ pc[s] = "claimed" => task[s].prop # 0
  /\ pc[s] \in {"rule", "cover"} \/ task[s].cover # {} =>
       task[s].plan \in {"learn", "switch_off"}
  /\ pc[s] = "ask" => task[s].cover # {}

Locals ==
  /\ \A p \in Procs : pc[p] # "txn" => DOMAIN want[p] = {}
  /\ \A s \in Sessions : SessionState(s)

(* The empty local variables of a session and of the worker are well typed. *)
LEMMA NoTaskType ==
  /\ NoTask \in Task /\ NoTask.prop = 0 /\ NoTask.cover = {}
  /\ MapsInto(NoneSeen.pend, Events, Nat) /\ NoneSeen.rules \in [Parties -> Rule]
<1>1. (CHOOSE e \in Events : TRUE) \in Events
  BY EventsAssumption
<1>2. NoTask \in Task
  BY <1>1, LabelsAssumption DEF NoTask, Task, Plans
<1>3. MapsInto(NoneSeen.pend, Events, Nat) /\ NoneSeen.rules \in [Parties -> Rule]
  BY DEF NoneSeen, MapsInto, Rule, Empty
<1> QED BY <1>2, <1>3 DEF NoTask

(* The initial state. *)
LEMMA TypeInit == Init => TypeOK /\ Locals
<1> SUFFICES ASSUME Init PROVE TypeOK /\ Locals
  OBVIOUS
<1>1. rule \in [Parties -> Rule]
  BY DEF Init, Rule
<1>2. \A p \in Procs : MapsInto(want[p], Events, Request) /\ MapsInto(staged[p], DOMAIN want[p], Decision)
  BY DEF Init, MapsInto, Empty
<1>3. Locals
  <2>1. \A p \in Procs : DOMAIN want[p] = {}
    BY DEF Init, Empty
  <2>2. \A s \in Sessions : task[s].prop = 0 /\ task[s].cover = {} /\ pc[s] = "idle"
    BY NoTaskType DEF Init, Procs
  <2> QED BY <2>1, <2>2 DEF Locals, SessionState
<1>4. corrections \in Seq(Correction) /\ proposals \in Seq(Proposal)
  BY DEF Init
<1>5. cls \in [Events -> Seq(Row)]
  BY DEF Init
<1>6. budget \in [corrections: Nat, failures: Nat]
  BY BoundsAssumption DEF Init
<1> QED
  BY <1>1, <1>2, <1>3, <1>4, <1>5, <1>6, NoTaskType DEF Init, TypeOK, TxShapes, PCs

(* COMMIT publishes well-typed histories and leaves no lock behind. *)
LEMMA CommitType ==
  ASSUME TypeOK, NEW p \in Procs, CommitLabels(p)
  PROVE  /\ cls' \in [Events -> Seq(Row)]
         /\ DOMAIN want' = Procs /\ DOMAIN staged' = Procs
         /\ \A q \in Procs : /\ MapsInto(want'[q], Events, Request)
                             /\ MapsInto(staged'[q], DOMAIN want'[q], Decision)
<1>1. ASSUME NEW e \in Events, e \in DOMAIN staged[p]
      PROVE  Publish(cls[e], staged[p][e]) \in Seq(Row)
  <2>1. staged[p][e] \in Decision
    BY <1>1 DEF TypeOK, MapsInto
  <2>2. cls[e] \in Seq(Row)
    BY DEF TypeOK
  <2> QED BY <2>1, <2>2, PublishType
<1>2. cls' \in [Events -> Seq(Row)]
  BY <1>1 DEF CommitLabels, Released, TypeOK
<1>3. ASSUME NEW q \in Procs
      PROVE  MapsInto(want'[q], Events, Request) /\ MapsInto(staged'[q], DOMAIN want'[q], Decision)
  <2>1. CASE q = p
    BY <2>1 DEF CommitLabels, Released, TypeOK, MapsInto, Empty
  <2>2. CASE q # p
    BY <2>2 DEF CommitLabels, Released, TypeOK
  <2> QED BY <2>1, <2>2
<1> QED BY <1>2, <1>3 DEF CommitLabels, Released, TypeOK

(* A process that opens a transaction on well-typed requests. *)
LEMMA WantType ==
  ASSUME TypeOK, NEW p \in Procs, NEW f, MapsInto(f, Events, Request),
         DOMAIN want[p] = {}, want' = [want EXCEPT ![p] = f], staged' = staged
  PROVE  /\ DOMAIN want' = Procs /\ DOMAIN staged' = Procs
         /\ \A q \in Procs : /\ MapsInto(want'[q], Events, Request)
                             /\ MapsInto(staged'[q], DOMAIN want'[q], Decision)
BY DEF TypeOK, MapsInto

(* Arrival, locking and failure. *)
LEMMA TypeArrive ==
  ASSUME TypeOK, Locals, NEW e \in Events, Arrive(e) PROVE TypeOK' /\ Locals'
<1>1. txShape' \in [Txs -> TxShapes] /\ arrived' \subseteq Events
  BY MapsAssumption DEF TypeOK, Arrive
<1> QED BY <1>1 DEF TypeOK, Locals, SessionState, Arrive

LEMMA TypeArriveUntracked ==
  ASSUME TypeOK, Locals, NEW t \in Txs, ArriveUntracked(t) PROVE TypeOK' /\ Locals'
<1>1. txShape' \in [Txs -> TxShapes]
  BY DEF TypeOK, ArriveUntracked, TxShapes
<1> QED BY <1>1 DEF TypeOK, Locals, SessionState, ArriveUntracked

LEMMA TypeLock ==
  ASSUME TypeOK, Locals, NEW p \in Procs, Lock(p) PROVE TypeOK' /\ Locals'
<1>1. PICK e \in NextToLock(p) :
        staged' = [staged EXCEPT ![p] =
            [f \in DOMAIN staged[p] \cup {e} |->
               IF f = e THEN Decide(want[p][e], cls[e]) ELSE staged[p][f]]]
  BY DEF Lock
<1>2. e \in DOMAIN want[p] /\ e \in Events /\ want[p][e] \in Request /\ cls[e] \in Seq(Row)
  BY DEF NextToLock, Waiting, TypeOK, MapsInto
<1>3. Decide(want[p][e], cls[e]) \in Decision
  BY <1>2, DecideType
<1>4. \A q \in Procs : MapsInto(staged'[q], DOMAIN want[q], Decision)
  BY <1>1, <1>2, <1>3 DEF TypeOK, MapsInto
<1>5. DOMAIN staged' = Procs
  BY <1>1 DEF TypeOK
<1> QED BY <1>4, <1>5 DEF TypeOK, Locals, SessionState, Lock

LEMMA TypeFail ==
  ASSUME TypeOK, Locals, NEW p \in Procs, Fail(p) PROVE TypeOK' /\ Locals'
<1>1. budget' \in [corrections: Nat, failures: Nat]
  <2>1. budget \in [corrections: Nat, failures: Nat]
    BY DEF TypeOK
  <2>2. budget' = [budget EXCEPT !.failures = budget.failures - 1] /\ budget.failures > 0
    BY DEF Fail, Released
  <2> QED BY <2>1, <2>2
<1>2. pc' \in [Procs -> PCs]
  BY DEF TypeOK, Fail, Released, PCs
<1>3. \A q \in Procs : /\ MapsInto(want'[q], Events, Request)
                       /\ MapsInto(staged'[q], DOMAIN want'[q], Decision)
  BY DEF TypeOK, Fail, Released, MapsInto, Empty
<1>4. task' \in [Sessions -> Task]
  BY NoTaskType DEF TypeOK, Fail, Released
<1>5. MapsInto(seen'.pend, Events, Nat) /\ seen'.rules \in [Parties -> Rule]
  BY NoTaskType DEF TypeOK, Fail, Released
<1>6. keep' \subseteq Keep
  BY DEF TypeOK, Fail, Released
<1>7. Locals'
  <2>1. \A q \in Procs : pc'[q] # "txn" => DOMAIN want'[q] = {}
    BY DEF Locals, Fail, Released, TypeOK, Empty
  <2>2. ASSUME NEW s \in Sessions PROVE SessionState(s)'
    <3>1. CASE s = p
      BY <3>1, NoTaskType DEF Fail, Released, TypeOK, SessionState
    <3>2. CASE s # p
      BY <3>2 DEF Locals, Fail, Released, TypeOK, Procs, SessionState
    <3> QED BY <3>1, <3>2
  <2> QED BY <2>1, <2>2 DEF Locals, Fail, Released
<1>8. DOMAIN want' = Procs /\ DOMAIN staged' = Procs
  BY DEF TypeOK, Fail, Released
<1> QED BY <1>1, <1>2, <1>3, <1>4, <1>5, <1>6, <1>7, <1>8 DEF TypeOK, Fail, Released

(* The classifier. *)
LEMMA TypeReadPending ==
  ASSUME TypeOK, Locals, ReadPending PROVE TypeOK' /\ Locals'
<1>1. PICK ready \in SUBSET Pending :
        seen' = [pend |-> [e \in ready |-> ActiveId(e)], rules |-> rule]
  BY DEF ReadPending
<1>2. ready \subseteq Events
  BY DEF Pending, TypeOK
<1>3. \A e \in ready : ActiveId(e) \in Nat
  BY <1>2, ActiveRowType DEF TypeOK
<1>4. MapsInto(seen'.pend, Events, Nat) /\ seen'.rules \in [Parties -> Rule]
  BY <1>1, <1>2, <1>3 DEF MapsInto, TypeOK
<1>5. pc' \in [Procs -> PCs]
  BY DEF ReadPending, TypeOK, PCs
<1>6. Locals'
  <2>1. \A q \in Procs : pc'[q] # "txn" => DOMAIN want[q] = {}
    BY DEF Locals, ReadPending, TypeOK
  <2>2. \A s \in Sessions : pc'[s] = pc[s]
    BY ProcsAssumption DEF ReadPending, TypeOK, Procs
  <2> QED BY <2>1, <2>2 DEF Locals, SessionState, ReadPending
<1> QED BY <1>4, <1>5, <1>6 DEF TypeOK, ReadPending

(* Every outcome of a transfer is a label or a failure of the right kind. *)
OutcomeType == [fail: {"no", "counted", "uncounted"}, row: {r \in Row : r.live}]

LEMMA OutcomesType ==
  ASSUME TypeOK, NEW e \in Events PROVE Outcomes(e) \subseteq OutcomeType
<1> DEFINE sh == ShapeOf(e)
           r == seen.rules[PartyOf(e)]
<1>1. sh \in Shapes /\ (sh # "single" => sh \in {"own", "swap", "complex"})
  BY MapsAssumption DEF ShapeOf, TypeOK, Shapes, TxShapes
<1>2. r \in Rule
  BY MapsAssumption DEF TypeOK, PartyOf, Parties
<1>3. ASSUME NEW l \in Labels, NEW m \in Methods, NEW b \in BOOLEAN
      PROVE  [fail |-> "no", row |-> NewRow(l, "auto", m, b, sh)] \in OutcomeType
  <2>1. NewRow(l, "auto", m, b, sh) \in Row
    BY <1>1, <1>3, NewRowType DEF SourceTypes
  <2> QED BY <2>1 DEF OutcomeType, NewRow
<1>4. ASSUME NEW f \in {"counted", "uncounted"}
      PROVE  [fail |-> f, row |-> NewRow("unknown", "failure", "model", FALSE, "none")] \in OutcomeType
  <2>1. NewRow("unknown", "failure", "model", FALSE, "none") \in Row
    BY NewRowType, LabelsAssumption DEF SourceTypes, Methods, Shapes
  <2> QED BY <2>1 DEF OutcomeType, NewRow
<1>5. CASE sh # "single"
  <2>1. ShapeLabel(sh) \in Labels
    BY <1>1, <1>5, LabelsAssumption DEF ShapeLabel
  <2>2. Outcomes(e) = {[fail |-> "no", row |-> NewRow(ShapeLabel(sh), "auto", "deterministic", FALSE, sh)]}
    BY <1>5 DEF Outcomes
  <2> QED BY <2>1, <2>2, <1>3 DEF Methods
<1>6. CASE sh = "single" /\ e \in Rechecked /\ KeepsLabel(ActiveRow(e))
  <2>1. ActiveRow(e) \in Row /\ ActiveRow(e).live
    BY <1>6, ActiveRowType DEF Rechecked, IsLive, TypeOK
  <2>2. [ActiveRow(e) EXCEPT !.shape = sh] \in Row /\ [ActiveRow(e) EXCEPT !.shape = sh].live
    BY <1>1, <2>1 DEF Row
  <2>3. Outcomes(e) = {[fail |-> "no", row |-> [ActiveRow(e) EXCEPT !.shape = sh]]}
    BY <1>6 DEF Outcomes
  <2> DEFINE kept == [ActiveRow(e) EXCEPT !.shape = sh]
  <2> HIDE DEF kept
  <2>4. [fail |-> "no", row |-> kept] \in OutcomeType
    BY <2>2 DEF OutcomeType, kept
  <2>5. Outcomes(e) = {[fail |-> "no", row |-> kept]}
    BY <2>3 DEF kept
  <2> QED BY <2>4, <2>5
<1>7. CASE sh = "single" /\ ~(e \in Rechecked /\ KeepsLabel(ActiveRow(e))) /\ r.active
  <2>1. r.label \in Labels
    BY <1>2, <1>7 DEF Rule
  <2>2. Outcomes(e) = {[fail |-> "no", row |-> NewRow(r.label, "auto", "counterparty", TRUE, sh)]}
    BY <1>7 DEF Outcomes
  <2> QED BY <2>1, <2>2, <1>3 DEF Methods
<1>8. CASE sh = "single" /\ ~(e \in Rechecked /\ KeepsLabel(ActiveRow(e))) /\ ~r.active
  <2>1. Outcomes(e) = {[fail |-> "no", row |-> NewRow(l, "auto", "model", FALSE, sh)] : l \in ModelLabels}
          \cup {[fail |-> "counted", row |-> NewRow("unknown", "failure", "model", FALSE, "none")],
                [fail |-> "uncounted", row |-> NewRow("unknown", "failure", "model", FALSE, "none")]}
    BY <1>8 DEF Outcomes
  <2>2. \A l \in ModelLabels : l \in Labels
    BY LabelsAssumption
  <2> QED BY <2>1, <2>2, <1>3, <1>4 DEF Methods
<1> QED BY <1>5, <1>6, <1>7, <1>8

LEMMA TypeReadLegs ==
  ASSUME TypeOK, Locals, ReadLegs PROVE TypeOK' /\ Locals'
<1> DEFINE work == DOMAIN seen.pend \cup Rechecked
           kept(e, o) == /\ e \in Rechecked /\ o.fail = "no"
                         /\ o.row.label = ActiveRow(e).label /\ o.row.method = ActiveRow(e).method
<1>1. PICK out \in [work -> UNION {Outcomes(e) : e \in work}] :
        /\ \A e \in work : out[e] \in Outcomes(e)
        /\ want' = [want EXCEPT ![Worker] =
             [e \in {x \in work : ~kept(x, out[x])} |->
                [op |-> "save", fail |-> out[e].fail, row |-> out[e].row,
                 exp |-> IF e \in Rechecked THEN ActiveId(e) ELSE seen.pend[e]]]]
        /\ keep' = {[event |-> e, id |-> ActiveId(e), shape |-> ShapeOf(e)] :
                      e \in {x \in work : kept(x, out[x])}}
  BY DEF ReadLegs
<1>2. work \subseteq Events
  BY DEF TypeOK, MapsInto, Rechecked
<1>3. \A e \in work : ActiveId(e) \in Nat /\ ShapeOf(e) \in Shapes
  BY <1>2, ActiveRowType, MapsAssumption DEF TypeOK, ShapeOf, Shapes
<1>4. ASSUME NEW e \in work
      PROVE  [op |-> "save", fail |-> out[e].fail, row |-> out[e].row,
              exp |-> IF e \in Rechecked THEN ActiveId(e) ELSE seen.pend[e]] \in Request
  <2>1. out[e] \in OutcomeType
    BY <1>1, <1>2, OutcomesType
  <2>2. out[e].fail \in {"no", "counted", "uncounted"} /\ out[e].row \in Row
    BY <2>1 DEF OutcomeType
  <2>3. (IF e \in Rechecked THEN ActiveId(e) ELSE seen.pend[e]) \in Nat
    BY <1>3 DEF TypeOK, MapsInto
  <2> QED BY <2>2, <2>3 DEF Request
<1>5. MapsInto([e \in {x \in work : ~kept(x, out[x])} |->
                  [op |-> "save", fail |-> out[e].fail, row |-> out[e].row,
                   exp |-> IF e \in Rechecked THEN ActiveId(e) ELSE seen.pend[e]]], Events, Request)
  BY <1>2, <1>4 DEF MapsInto
<1>6. pc[Worker] = "legs" /\ Worker \in Procs /\ DOMAIN want[Worker] = {}
  BY DEF ReadLegs, Procs, Locals
<1>7. /\ DOMAIN want' = Procs /\ DOMAIN staged' = Procs
      /\ \A q \in Procs : /\ MapsInto(want'[q], Events, Request)
                          /\ MapsInto(staged'[q], DOMAIN want'[q], Decision)
  BY <1>1, <1>5, <1>6, WantType DEF ReadLegs
<1>8. keep' \subseteq Keep
  BY <1>1, <1>2, <1>3 DEF Keep
<1>9. pc' \in [Procs -> PCs]
  BY DEF ReadLegs, TypeOK, PCs
<1>10. Locals'
  <2>1. \A q \in Procs : pc'[q] # "txn" => DOMAIN want'[q] = {}
    BY <1>1 DEF Locals, ReadLegs, TypeOK
  <2>2. \A s \in Sessions : pc'[s] = pc[s]
    BY ProcsAssumption DEF ReadLegs, TypeOK, Procs
  <2> QED BY <2>1, <2>2 DEF Locals, SessionState, ReadLegs
<1> QED BY <1>7, <1>8, <1>9, <1>10 DEF TypeOK, ReadLegs

LEMMA TypeSaveLabels ==
  ASSUME TypeOK, Locals, SaveLabels PROVE TypeOK' /\ Locals'
<1>1. Worker \in Procs
  BY DEF Procs
<1>2. /\ cls' \in [Events -> Seq(Row)]
      /\ DOMAIN want' = Procs /\ DOMAIN staged' = Procs
      /\ \A q \in Procs : /\ MapsInto(want'[q], Events, Request)
                          /\ MapsInto(staged'[q], DOMAIN want'[q], Decision)
  BY <1>1, CommitType DEF SaveLabels
<1>3. pc' \in [Procs -> PCs]
  BY DEF SaveLabels, TypeOK, PCs
<1>4. Locals'
  <2>1. \A q \in Procs : pc'[q] # "txn" => DOMAIN want'[q] = {}
    BY <1>1 DEF Locals, SaveLabels, CommitLabels, Released, TypeOK, Empty
  <2>2. \A s \in Sessions : pc'[s] = pc[s]
    BY ProcsAssumption DEF SaveLabels, TypeOK, Procs
  <2> QED BY <2>1, <2>2 DEF Locals, SessionState, SaveLabels
<1> QED BY <1>2, <1>3, <1>4 DEF TypeOK, SaveLabels

(* setShapes changes nothing of a row but its shape. *)
LEMMA SetShapesRows ==
  ASSUME TypeOK, SetShapes, NEW e \in Events
  PROVE  /\ cls'[e] \in Seq(Row) /\ Len(cls'[e]) = Len(cls[e])
         /\ \A i \in 1 .. Len(cls[e]) : \E sh \in Shapes :
              cls'[e][i] = [cls[e][i] EXCEPT !.shape = sh]
<1> DEFINE new(i) == IF cls[e][i].live /\ \E k \in keep : k.event = e /\ k.id = i
                     THEN [cls[e][i] EXCEPT !.shape =
                             (CHOOSE k \in keep : k.event = e /\ k.id = i).shape]
                     ELSE cls[e][i]
<1>1. cls'[e] = [i \in 1 .. Len(cls[e]) |-> new(i)]
  BY DEF SetShapes, TypeOK
<1>2. ASSUME NEW i \in 1 .. Len(cls[e])
      PROVE  new(i) \in Row /\ \E sh \in Shapes : new(i) = [cls[e][i] EXCEPT !.shape = sh]
  <2>1. cls[e][i] \in Row
    BY DEF TypeOK
  <2>2. CASE cls[e][i].live /\ \E k \in keep : k.event = e /\ k.id = i
    <3> DEFINE sh == (CHOOSE k \in keep : k.event = e /\ k.id = i).shape
    <3>1. sh \in Shapes
      <4>1. (CHOOSE k \in keep : k.event = e /\ k.id = i) \in keep
        BY <2>2
      <4>2. (CHOOSE k \in keep : k.event = e /\ k.id = i) \in Keep
        BY <4>1 DEF TypeOK
      <4> QED BY <4>2 DEF Keep
    <3>2. new(i) = [cls[e][i] EXCEPT !.shape = sh]
      BY <2>2
    <3>3. [cls[e][i] EXCEPT !.shape = sh] \in Row
      BY <2>1, <3>1 DEF Row
    <3> QED BY <3>1, <3>2, <3>3
  <2>3. CASE ~(cls[e][i].live /\ \E k \in keep : k.event = e /\ k.id = i)
    <3>1. new(i) = cls[e][i]
      BY <2>3
    <3>2. cls[e][i] = [cls[e][i] EXCEPT !.shape = cls[e][i].shape] /\ cls[e][i].shape \in Shapes
      BY <2>1 DEF Row
    <3> QED BY <2>1, <3>1, <3>2
  <2> QED BY <2>2, <2>3
<1> HIDE DEF new
<1>3. cls'[e] \in Seq(Row) /\ Len(cls'[e]) = Len(cls[e])
  BY <1>1, <1>2 DEF TypeOK
<1> QED BY <1>1, <1>2, <1>3

LEMMA TypeSetShapes ==
  ASSUME TypeOK, Locals, SetShapes PROVE TypeOK' /\ Locals'
<1>1. cls' \in [Events -> Seq(Row)]
  <2>1. DOMAIN cls' = Events /\ cls' = [e \in Events |-> cls'[e]]
    BY DEF SetShapes
  <2> QED BY <2>1, SetShapesRows
<1>2. pc' \in [Procs -> PCs]
  BY DEF SetShapes, TypeOK, PCs
<1>3. MapsInto(seen'.pend, Events, Nat) /\ seen'.rules \in [Parties -> Rule]
  BY NoTaskType DEF SetShapes
<1>4. keep' \subseteq Keep
  BY DEF SetShapes
<1>5. Locals'
  <2>1. \A q \in Procs : pc'[q] # "txn" => DOMAIN want[q] = {}
    BY DEF Locals, SetShapes, TypeOK
  <2>2. \A s \in Sessions : pc'[s] = pc[s]
    BY ProcsAssumption DEF SetShapes, TypeOK, Procs
  <2> QED BY <2>1, <2>2 DEF Locals, SessionState, SetShapes
<1> QED BY <1>1, <1>2, <1>3, <1>4, <1>5 DEF TypeOK, SetShapes

(* Corrections. *)
LEMMA TypeReadForCorrection ==
  ASSUME TypeOK, Locals, NEW s \in Sessions, NEW e \in Events, NEW l \in Answers,
         ReadForCorrection(s, e, l)
  PROVE  TypeOK' /\ Locals'
<1> DEFINE t == [event |-> e, label |-> l, plan |-> PlanFor(e, l), old |-> ActiveId(e),
                 was |-> rule[PartyOf(e)].label, cover |-> {}, prop |-> 0]
           rq == [op |-> "correct", exp |-> 0, fail |-> "no",
                  row |-> NewRow(l, "user", "counterparty", FALSE, "none")]
<1>1. l \in Labels /\ s \in Procs
  BY LabelsAssumption DEF Procs
<1>2. rule[PartyOf(e)] \in Rule
  BY MapsAssumption DEF TypeOK, PartyOf, Parties
<1>3. PlanFor(e, l) \in Plans /\ (PlanFor(e, l) = "switch_off" => rule[PartyOf(e)].active)
  BY DEF PlanFor, Plans
<1>4. rule[PartyOf(e)].label \in Labels \cup {"none"}
      /\ (rule[PartyOf(e)].active => rule[PartyOf(e)].label # "none")
  BY <1>2 DEF Rule
<1>5. ActiveId(e) \in Nat
  BY ActiveRowType DEF TypeOK
<1>6. t \in Task
  BY <1>1, <1>3, <1>4, <1>5 DEF Task
<1>7. task' = [task EXCEPT ![s] = t]
  BY DEF ReadForCorrection
<1>8. task' \in [Sessions -> Task] /\ task'[s].prop = 0 /\ task'[s].cover = {}
  BY <1>6, <1>7 DEF TypeOK
<1>9. NewRow(l, "user", "counterparty", FALSE, "none") \in Row
  BY <1>1, NewRowType DEF SourceTypes, Methods, Shapes
<1>10. rq \in Request
  BY <1>9 DEF Request
<1>11. want' = [want EXCEPT ![s] = [x \in {e} |-> rq]] /\ MapsInto([x \in {e} |-> rq], Events, Request)
  BY <1>10 DEF ReadForCorrection, MapsInto
<1>12. DOMAIN want[s] = {}
  BY <1>1 DEF ReadForCorrection, Locals
<1>13. /\ DOMAIN want' = Procs /\ DOMAIN staged' = Procs
       /\ \A q \in Procs : /\ MapsInto(want'[q], Events, Request)
                           /\ MapsInto(staged'[q], DOMAIN want'[q], Decision)
  BY <1>1, <1>11, <1>12, WantType DEF ReadForCorrection
<1>14. pc' = [pc EXCEPT ![s] = "txn"] /\ pc' \in [Procs -> PCs]
  BY DEF ReadForCorrection, TypeOK, PCs
<1>15. budget' \in [corrections: Nat, failures: Nat]
  <2>1. budget \in [corrections: Nat, failures: Nat]
    BY DEF TypeOK
  <2>2. budget' = [budget EXCEPT !.corrections = budget.corrections - 1] /\ budget.corrections > 0
    BY DEF ReadForCorrection
  <2> QED BY <2>1, <2>2
<1>16. Locals'
  <2>1. \A q \in Procs : pc'[q] # "txn" => DOMAIN want'[q] = {}
    BY <1>1, <1>11, <1>14 DEF Locals, TypeOK
  <2>2. \A u \in Sessions : u # s => pc'[u] = pc[u] /\ task'[u] = task[u]
    BY <1>7, <1>14 DEF TypeOK, Procs
  <2>3. pc'[s] = "txn"
    BY <1>1, <1>14 DEF TypeOK
  <2> QED BY <2>1, <2>2, <2>3, <1>8 DEF Locals, SessionState, ReadForCorrection
<1> QED BY <1>8, <1>13, <1>14, <1>15, <1>16 DEF TypeOK, ReadForCorrection

LEMMA TypeSaveCorrection ==
  ASSUME TypeOK, Locals, NEW s \in Sessions, SaveCorrection(s) PROVE TypeOK' /\ Locals'
<1> DEFINE t == task[s]
           entry == [event |-> t.event, label |-> t.label, replaced |-> t.old,
                     new |-> Len(cls[t.event]) + 1, plan |-> t.plan]
<1>1. s \in Procs /\ t \in Task /\ t.prop = 0
  BY DEF Procs, TypeOK, SaveCorrection
<1>2. /\ cls' \in [Events -> Seq(Row)]
      /\ DOMAIN want' = Procs /\ DOMAIN staged' = Procs
      /\ \A q \in Procs : /\ MapsInto(want'[q], Events, Request)
                          /\ MapsInto(staged'[q], DOMAIN want'[q], Decision)
  BY <1>1, CommitType DEF SaveCorrection
<1>3. entry \in Correction
  <2>1. t.event \in Events /\ t.label \in Labels /\ t.old \in Nat /\ t.plan \in Plans
    BY <1>1 DEF Task
  <2>2. Len(cls[t.event]) \in Nat
    BY <2>1 DEF TypeOK
  <2> QED BY <2>1, <2>2 DEF Correction
<1>4. corrections' \in Seq(Correction)
  BY <1>3 DEF SaveCorrection, TypeOK
<1>5. /\ pc' \in [Procs -> PCs] /\ \A q \in Procs : q # s => pc'[q] = pc[q]
      /\ pc'[s] \in {"rule", "supersede"}
      /\ pc'[s] = "rule" => t.plan \in {"learn", "switch_off"}
  <2>1. t.plan \in Plans
    BY <1>1 DEF Task
  <2>2. CASE t.plan \in {"learn", "switch_off"}
    BY <1>1, <2>2 DEF SaveCorrection, TypeOK, PCs
  <2>3. CASE t.plan \in {"swap_venue", "one_off", "none"}
    BY <1>1, <2>3 DEF SaveCorrection, TypeOK, PCs
  <2> QED BY <2>1, <2>2, <2>3 DEF Plans
<1>6. Locals'
  <2>1. \A q \in Procs : pc'[q] # "txn" => DOMAIN want'[q] = {}
    BY <1>1, <1>5 DEF Locals, SaveCorrection, CommitLabels, Released, TypeOK, Empty
  <2>2. ASSUME NEW u \in Sessions PROVE SessionState(u)'
    <3>1. CASE u = s
      BY <1>5, <3>1 DEF Locals, SessionState, SaveCorrection
    <3>2. CASE u # s
      BY <1>5, <3>2 DEF Locals, SessionState, SaveCorrection, Procs
    <3> QED BY <3>1, <3>2
  <2> QED BY <2>1, <2>2 DEF Locals
<1> QED BY <1>2, <1>4, <1>5, <1>6 DEF TypeOK, SaveCorrection

(* One session moves on outside its transaction; no answer is taken back. *)
LEMMA LocalsMove ==
  ASSUME TypeOK, Locals, NEW s \in Sessions, NEW to \in PCs \ {"txn"},
         pc[s] # "txn", pc' = [pc EXCEPT ![s] = to], want' = want,
         \A u \in Sessions : u # s => task'[u] = task[u],
         \A i \in DOMAIN proposals : i \in DOMAIN proposals' /\
           (proposals[i].status = "accepted" => proposals'[i].status = "accepted"),
         SessionState(s)'
  PROVE  Locals' /\ pc' \in [Procs -> PCs]
<1>1. pc' \in [Procs -> PCs] /\ \A q \in Procs : q # s => pc'[q] = pc[q]
  BY DEF TypeOK
<1>2. s \in Procs /\ pc'[s] = to
  BY DEF TypeOK, Procs
<1>3. \A q \in Procs : pc'[q] # "txn" => DOMAIN want'[q] = {}
  BY <1>1, <1>2 DEF Locals
<1>4. ASSUME NEW u \in Sessions, u # s PROVE SessionState(u)'
  BY <1>1, <1>4 DEF Procs, Locals, SessionState
<1> QED BY <1>1, <1>3, <1>4 DEF Locals

LEMMA TypeChangeRule ==
  ASSUME TypeOK, Locals, NEW s \in Sessions, ChangeRule(s) PROVE TypeOK' /\ Locals'
<1> DEFINE t == task[s]
           p == PartyOf(t.event)
<1>1. t \in Task
  BY DEF TypeOK
<1>2. p \in Parties
  BY <1>1, MapsAssumption DEF Task, PartyOf, Parties
<1>3. [label |-> t.label, active |-> TRUE] \in Rule
  BY <1>1, LabelsAssumption DEF Task, Rule
<1>4. [rule[p] EXCEPT !.active = FALSE] \in Rule
  <2>1. rule[p] \in Rule
    BY <1>2 DEF TypeOK
  <2> QED BY <2>1 DEF Rule
<1>5. rule' \in [Parties -> Rule]
  BY <1>2, <1>3, <1>4 DEF TypeOK, ChangeRule
<1>6. pc'[s] = "cover" /\ SessionState(s) /\ SessionState(s)'
  BY DEF ChangeRule, TypeOK, Procs, Locals, SessionState
<1>7. Locals' /\ pc' \in [Procs -> PCs]
  BY <1>6, LocalsMove DEF ChangeRule, PCs
<1> QED BY <1>5, <1>7 DEF TypeOK, ChangeRule

LEMMA TypeReadCovered ==
  ASSUME TypeOK, Locals, NEW s \in Sessions, ReadCovered(s) PROVE TypeOK' /\ Locals'
<1> DEFINE t == task[s]
           p == PartyOf(t.event)
           cover == IF t.plan = "learn" THEN EventsForRule(p, t.label, t.event)
                                        ELSE EventsLabeledByRule(p, t.event)
<1>1. cover \subseteq Events
  BY DEF EventsForRule, EventsLabeledByRule, TypeOK
<1>2. task' = [task EXCEPT ![s].cover = cover]
  BY DEF ReadCovered
<1> HIDE DEF cover
<1>3. /\ task' \in [Sessions -> Task] /\ \A u \in Sessions : u # s => task'[u] = task[u]
      /\ task'[s].prop = t.prop /\ task'[s].plan = t.plan
  <2>1. task[s] \in Task
    BY DEF TypeOK
  <2>2. [t EXCEPT !.cover = cover] \in Task
    BY <1>1, <2>1 DEF Task
  <2>3. [t EXCEPT !.cover = cover].prop = t.prop /\ [t EXCEPT !.cover = cover].plan = t.plan
    BY <2>1 DEF Task
  <2>4. task' = [task EXCEPT ![s] = [t EXCEPT !.cover = cover]]
    BY <1>2 DEF TypeOK
  <2> QED BY <2>2, <2>3, <2>4 DEF TypeOK
<1>4. pc'[s] = "supersede" /\ pc[s] = "cover" /\ proposals' = proposals
  BY DEF ReadCovered, TypeOK, Procs
<1>5. SessionState(s)'
  BY <1>3, <1>4 DEF Locals, SessionState
<1>6. Locals' /\ pc' \in [Procs -> PCs]
  BY <1>3, <1>5, LocalsMove DEF ReadCovered, PCs
<1> QED BY <1>3, <1>6 DEF TypeOK, ReadCovered

LEMMA TypeSupersedeProposals ==
  ASSUME TypeOK, Locals, NEW s \in Sessions, SupersedeProposals(s) PROVE TypeOK' /\ Locals'
<1> DEFINE t == task[s]
           new(i) == IF Replaces(s, i)
                     THEN [proposals[i] EXCEPT !.status = "superseded"] ELSE proposals[i]
<1>1. proposals' = [i \in 1 .. Len(proposals) |-> new(i)]
  BY DEF SupersedeProposals, TypeOK
<1>2. ASSUME NEW i \in 1 .. Len(proposals)
      PROVE  new(i) \in Proposal /\ (proposals[i].status = "accepted" => new(i).status = "accepted")
  <2>1. proposals[i] \in Proposal
    BY DEF TypeOK
  <2>2. [proposals[i] EXCEPT !.status = "superseded"] \in Proposal
    BY <2>1 DEF Proposal
  <2> QED BY <2>1, <2>2 DEF Replaces
<1> HIDE DEF new
<1>3. proposals' \in Seq(Proposal) /\ DOMAIN proposals' = DOMAIN proposals
  BY <1>1, <1>2 DEF TypeOK
<1>4. \A i \in DOMAIN proposals : proposals[i].status = "accepted" => proposals'[i].status = "accepted"
  BY <1>1, <1>2 DEF TypeOK
<1>5. CASE t.cover = {}
  <2>1. task' = [task EXCEPT ![s] = NoTask] /\ pc' = [pc EXCEPT ![s] = "idle"]
    BY <1>5 DEF SupersedeProposals
  <2>2. task'[s] = NoTask /\ pc'[s] = "idle" /\ task' \in [Sessions -> Task]
    BY <2>1, NoTaskType DEF TypeOK, Procs
  <2>3. SessionState(s)'
    BY <2>2, NoTaskType DEF SessionState
  <2>4. pc[s] # "txn" /\ want' = want /\ \A u \in Sessions : u # s => task'[u] = task[u]
    BY <2>1 DEF SupersedeProposals, TypeOK
  <2>5. "idle" \in PCs \ {"txn"}
    BY DEF PCs
  <2>6. Locals' /\ pc' \in [Procs -> PCs]
    BY <1>3, <1>4, <2>1, <2>3, <2>4, <2>5, LocalsMove
  <2> QED BY <1>3, <2>2, <2>6 DEF TypeOK, SupersedeProposals
<1>6. CASE t.cover # {}
  <2>1. task' = task /\ pc' = [pc EXCEPT ![s] = "ask"]
    BY <1>6 DEF SupersedeProposals
  <2>2. pc'[s] = "ask" /\ pc[s] = "supersede"
    BY <2>1 DEF TypeOK, Procs, SupersedeProposals
  <2>3. SessionState(s)'
    BY <1>3, <1>4, <1>6, <2>1, <2>2 DEF SessionState, Locals
  <2>4. Locals' /\ pc' \in [Procs -> PCs]
    BY <1>3, <1>4, <2>1, <2>3, LocalsMove DEF SupersedeProposals, PCs
  <2> QED BY <1>3, <2>1, <2>4 DEF TypeOK, SupersedeProposals
<1> QED BY <1>5, <1>6

LEMMA TypeAskProposal ==
  ASSUME TypeOK, Locals, NEW s \in Sessions, AskProposal(s) PROVE TypeOK' /\ Locals'
<1> DEFINE t == task[s]
           q == [kind |-> IF t.plan = "learn" THEN "apply_rule" ELSE "send_back",
                 party |-> PartyOf(t.event),
                 label |-> IF t.plan = "learn" THEN t.label ELSE t.was,
                 source |-> t.event, events |-> t.cover, status |-> "pending"]
<1>1. t \in Task /\ t.plan \in {"learn", "switch_off"}
  BY DEF TypeOK, AskProposal, Locals, SessionState
<1>2. PartyOf(t.event) \in Parties
  BY <1>1, MapsAssumption DEF Task, PartyOf, Parties
<1>3. q \in Proposal
  BY <1>1, <1>2 DEF Task, Proposal, Kinds
<1>4. proposals' = Append(proposals, q) /\ proposals \in Seq(Proposal)
  BY DEF AskProposal, TypeOK
<1> HIDE DEF q
<1>5. /\ proposals' \in Seq(Proposal)
      /\ \A i \in DOMAIN proposals : i \in DOMAIN proposals' /\ proposals'[i] = proposals[i]
  BY <1>3, <1>4
<1>6. task' = [task EXCEPT ![s] = NoTask] /\ pc' = [pc EXCEPT ![s] = "idle"]
  BY DEF AskProposal
<1>7. task'[s] = NoTask /\ pc'[s] = "idle" /\ task' \in [Sessions -> Task]
  BY <1>6, NoTaskType DEF TypeOK, Procs
<1>8. SessionState(s)'
  BY <1>7, NoTaskType DEF SessionState
<1>9. pc[s] # "txn" /\ want' = want /\ \A u \in Sessions : u # s => task'[u] = task[u]
  BY <1>6 DEF AskProposal, TypeOK
<1>10. "idle" \in PCs \ {"txn"}
  BY DEF PCs
<1>11. Locals' /\ pc' \in [Procs -> PCs]
  BY <1>5, <1>6, <1>8, <1>9, <1>10, LocalsMove
<1> QED BY <1>5, <1>7, <1>11 DEF TypeOK, AskProposal

(* Answers. *)
LEMMA TypeClaimProposal ==
  ASSUME TypeOK, Locals, NEW s \in Sessions, NEW i \in DOMAIN proposals, NEW accept \in BOOLEAN,
         ClaimProposal(s, i, accept)
  PROVE  TypeOK' /\ Locals'
<1> DEFINE answer == IF accept THEN "accepted" ELSE "declined"
           q == [proposals[i] EXCEPT !.status = answer]
<1>1. i \in 1 .. Len(proposals) /\ proposals[i] \in Proposal /\ i \in Nat
  BY DEF TypeOK
<1>2. q \in Proposal /\ q.status = answer
  BY <1>1 DEF Proposal
<1>3. proposals' = [proposals EXCEPT ![i] = q]
  BY <1>1 DEF ClaimProposal, TypeOK
<1> HIDE DEF q
<1>4. /\ proposals' \in Seq(Proposal) /\ DOMAIN proposals' = DOMAIN proposals
      /\ proposals'[i] = q /\ \A j \in DOMAIN proposals : j # i => proposals'[j] = proposals[j]
  BY <1>1, <1>2, <1>3 DEF TypeOK
<1>5. \A j \in DOMAIN proposals : proposals[j].status = "accepted" => proposals'[j].status = "accepted"
  BY <1>4 DEF ClaimProposal, Claimable
<1>6. pc[s] = "idle" /\ want' = want /\ s \in Procs /\ SessionState(s)
  BY DEF ClaimProposal, Procs, Locals
<1>7. CASE accept
  <2>1. task' = [task EXCEPT ![s] = [task[s] EXCEPT !.prop = i]] /\ pc' = [pc EXCEPT ![s] = "claimed"]
    BY <1>7 DEF ClaimProposal, TypeOK
  <2>2. task[s] \in Task
    BY DEF TypeOK
  <2>3. [task[s] EXCEPT !.prop = i] \in Task
    BY <1>1, <2>2 DEF Task
  <2>4. /\ task' \in [Sessions -> Task] /\ \A u \in Sessions : u # s => task'[u] = task[u]
        /\ task'[s].prop = i /\ task'[s].cover = task[s].cover /\ task'[s].plan = task[s].plan
        /\ pc'[s] = "claimed"
    BY <1>6, <2>1, <2>2, <2>3 DEF TypeOK, Task
  <2>5. SessionState(s)'
    BY <1>1, <1>2, <1>4, <1>6, <1>7, <2>4 DEF SessionState
  <2>6. "claimed" \in PCs \ {"txn"}
    BY DEF PCs
  <2>7. Locals' /\ pc' \in [Procs -> PCs]
    BY <1>4, <1>5, <1>6, <2>1, <2>4, <2>5, <2>6, LocalsMove
  <2> QED BY <1>4, <2>4, <2>7 DEF TypeOK, ClaimProposal
<1>8. CASE ~accept
  <2>1. task' = task /\ pc' = pc
    BY <1>8 DEF ClaimProposal
  <2>2. Locals'
    BY <1>4, <1>5, <1>6, <2>1 DEF Locals, SessionState
  <2> QED BY <1>4, <2>1, <2>2 DEF TypeOK, ClaimProposal
<1> QED BY <1>7, <1>8

LEMMA TypeApplyProposal ==
  ASSUME TypeOK, Locals, NEW s \in Sessions, ApplyProposal(s) PROVE TypeOK' /\ Locals'
<1> DEFINE q == proposals[task[s].prop]
           row == IF q.kind = "apply_rule"
                  THEN NewRow(q.label, "auto", "counterparty", TRUE, "single")
                  ELSE NewRow("unknown", "auto", "counterparty", FALSE, "single")
           rq == [op |-> "relabel", exp |-> 0, fail |-> "no", row |-> row]
<1>1. s \in Procs /\ pc[s] = "claimed" /\ DOMAIN want[s] = {}
  BY DEF ApplyProposal, Procs, Locals
<1>2. q \in Proposal
  BY <1>1 DEF TypeOK, Locals, SessionState
<1>3. NewRow(q.label, "auto", "counterparty", TRUE, "single") \in Row
  BY <1>2, NewRowType DEF Proposal, SourceTypes, Methods, Shapes, TxShapes
<1>4. NewRow("unknown", "auto", "counterparty", FALSE, "single") \in Row
  BY NewRowType, LabelsAssumption DEF SourceTypes, Methods, Shapes, TxShapes
<1>5. rq \in Request
  BY <1>3, <1>4 DEF Request
<1>6. StillQualify(q) \subseteq Events
  BY <1>2 DEF StillQualify, Proposal
<1>7. want' = [want EXCEPT ![s] = [e \in StillQualify(q) |-> rq]]
  BY DEF ApplyProposal
<1> HIDE DEF rq
<1>8. MapsInto([e \in StillQualify(q) |-> rq], Events, Request)
  BY <1>5, <1>6 DEF MapsInto
<1>9. /\ DOMAIN want' = Procs /\ DOMAIN staged' = Procs
      /\ \A u \in Procs : /\ MapsInto(want'[u], Events, Request)
                          /\ MapsInto(staged'[u], DOMAIN want'[u], Decision)
  BY <1>1, <1>7, <1>8, WantType DEF ApplyProposal
<1>10. pc' = [pc EXCEPT ![s] = "txn"] /\ pc' \in [Procs -> PCs]
  BY DEF ApplyProposal, TypeOK, PCs
<1>11. Locals'
  <2>1. \A u \in Procs : pc'[u] # "txn" => DOMAIN want'[u] = {}
    BY <1>1, <1>7, <1>10 DEF Locals, TypeOK
  <2>2. \A u \in Sessions : pc'[u] = "txn" \/ pc'[u] = pc[u]
    BY <1>1, <1>10 DEF TypeOK, Procs
  <2> QED BY <2>1, <2>2 DEF Locals, SessionState, ApplyProposal
<1> QED BY <1>9, <1>10, <1>11 DEF TypeOK, ApplyProposal

LEMMA TypeSaveRelabels ==
  ASSUME TypeOK, Locals, NEW s \in Sessions, SaveRelabels(s) PROVE TypeOK' /\ Locals'
<1>1. s \in Procs
  BY DEF Procs
<1>2. /\ cls' \in [Events -> Seq(Row)]
      /\ DOMAIN want' = Procs /\ DOMAIN staged' = Procs
      /\ \A q \in Procs : /\ MapsInto(want'[q], Events, Request)
                          /\ MapsInto(staged'[q], DOMAIN want'[q], Decision)
  BY <1>1, CommitType DEF SaveRelabels
<1>3. task' = [task EXCEPT ![s] = NoTask] /\ task' \in [Sessions -> Task] /\ task'[s] = NoTask
  BY NoTaskType DEF SaveRelabels, TypeOK
<1>4. pc' = [pc EXCEPT ![s] = "idle"] /\ pc' \in [Procs -> PCs] /\ pc'[s] = "idle"
  BY <1>1 DEF SaveRelabels, TypeOK, PCs
<1>5. Locals'
  <2>1. \A q \in Procs : pc'[q] # "txn" => DOMAIN want'[q] = {}
    BY <1>1, <1>4 DEF Locals, SaveRelabels, CommitLabels, Released, TypeOK, Empty
  <2>2. ASSUME NEW u \in Sessions PROVE SessionState(u)'
    <3>1. CASE u = s
      BY <1>3, <1>4, <3>1, NoTaskType DEF SessionState
    <3>2. CASE u # s
      <4>1. task'[u] = task[u] /\ pc'[u] = pc[u]
        BY <1>3, <1>4, <3>2 DEF TypeOK, Procs
      <4> QED BY <4>1 DEF Locals, SessionState, SaveRelabels
    <3> QED BY <3>1, <3>2
  <2> QED BY <2>1, <2>2 DEF Locals
<1> QED BY <1>2, <1>3, <1>4, <1>5 DEF TypeOK, SaveRelabels

LEMMA TypeExpire ==
  ASSUME TypeOK, Locals, NEW i \in DOMAIN proposals, Expire(i) PROVE TypeOK' /\ Locals'
<1> DEFINE q == [proposals[i] EXCEPT !.status = "expired"]
<1>1. i \in 1 .. Len(proposals) /\ proposals[i] \in Proposal
  BY DEF TypeOK
<1>2. q \in Proposal
  BY <1>1 DEF Proposal
<1>3. proposals' = [proposals EXCEPT ![i] = q]
  BY <1>1 DEF Expire, TypeOK
<1> HIDE DEF q
<1>4. /\ proposals' \in Seq(Proposal) /\ DOMAIN proposals' = DOMAIN proposals
      /\ \A j \in DOMAIN proposals : j # i => proposals'[j] = proposals[j]
  BY <1>1, <1>2, <1>3 DEF TypeOK
<1>5. Locals'
  BY <1>4 DEF Locals, SessionState, Expire
<1> QED BY <1>4, <1>5 DEF TypeOK, Expire

(* Each step of the specification keeps types and local states, and so does a stutter. *)
LEMMA TypeNext == TypeOK /\ Locals /\ [Next]_vars => TypeOK' /\ Locals'
<1> SUFFICES ASSUME TypeOK, Locals, [Next]_vars PROVE TypeOK' /\ Locals'
  OBVIOUS
<1>1. ASSUME NEW e \in Events, Arrive(e) PROVE TypeOK' /\ Locals'
  BY <1>1, TypeArrive
<1>9. ASSUME NEW t \in Txs, ArriveUntracked(t) PROVE TypeOK' /\ Locals'
  BY <1>9, TypeArriveUntracked
<1>2. CASE Classifier
  <2>1. CASE ReadPending
    BY <2>1, TypeReadPending
  <2>2. CASE ReadLegs
    BY <2>2, TypeReadLegs
  <2>3. CASE SaveLabels
    BY <2>3, TypeSaveLabels
  <2>4. CASE SetShapes
    BY <2>4, TypeSetShapes
  <2>5. CASE IdlePass
    BY <2>5 DEF IdlePass, vars, TypeOK, Locals, SessionState
  <2> QED BY <1>2, <2>1, <2>2, <2>3, <2>4, <2>5 DEF Classifier
<1>3. ASSUME NEW s \in Sessions, Correcting(s) PROVE TypeOK' /\ Locals'
  BY <1>3, TypeReadForCorrection, TypeSaveCorrection, TypeChangeRule, TypeReadCovered,
     TypeSupersedeProposals, TypeAskProposal DEF Correcting
<1>4. ASSUME NEW s \in Sessions, Answering(s) PROVE TypeOK' /\ Locals'
  BY <1>4, TypeClaimProposal, TypeApplyProposal, TypeSaveRelabels DEF Answering
<1>5. ASSUME NEW p \in Procs, Lock(p) PROVE TypeOK' /\ Locals'
  BY <1>5, TypeLock
<1>6. ASSUME NEW p \in Procs, Fail(p) PROVE TypeOK' /\ Locals'
  BY <1>6, TypeFail
<1>7. ASSUME NEW i \in DOMAIN proposals, Expire(i) PROVE TypeOK' /\ Locals'
  BY <1>7, TypeExpire
<1>8. CASE UNCHANGED vars
  BY <1>8 DEF vars, TypeOK, Locals, SessionState
<1> QED BY <1>1, <1>2, <1>3, <1>4, <1>5, <1>6, <1>7, <1>8, <1>9 DEF Next

(* Every variable always holds rows, rules, questions and requests of the     *)
(* right kind, whatever the interleaving, the crashes and the failed writes.  *)
THEOREM TypeCorrect == Spec => []TypeOK
<1>1. Init => TypeOK /\ Locals
  BY TypeInit
<1>2. TypeOK /\ Locals /\ [Next]_vars => (TypeOK /\ Locals)'
  BY TypeNext
<1> QED BY <1>1, <1>2, PTL DEF Spec

-----------------------------------------------------------------------------
(* The lock discipline.  A transaction decides under the locks of the events  *)
(* it writes; that the locks exclude each other is what keeps its decisions    *)
(* true until it publishes them.                                              *)

Exclusive == \A p, q \in Procs : p # q => DOMAIN staged[p] \cap DOMAIN staged[q] = {}

(* What a transaction is asked to write is active, and a correction's row is  *)
(* the operator's.                                                            *)
RequestsLive ==
  \A p \in Procs : \A e \in DOMAIN want[p] :
    /\ want[p][e].row.live
    /\ want[p][e].op = "correct" => want[p][e].row.source = "user"

Locking == Exclusive /\ DecisionsStayTrue /\ RequestsLive /\ OneActiveRow

(* A history whose active row, if it has rows, is the newest. *)
NewestLive(rows) == LiveIds(rows) = IF rows = <<>> THEN {} ELSE {Len(rows)}

(* A decision that adds a row adds an active one, and nothing automatic over  *)
(* a label of the operator's.                                                 *)
LEMMA DecideRespects ==
  ASSUME NEW rq \in Request, NEW rows \in Seq(Row),
         rq.row.live, rq.op = "correct" => rq.row.source = "user"
  PROVE  Decide(rq, rows).kind = "write" =>
           /\ Decide(rq, rows).row.live
           /\ IsLive(rows, "user") => Decide(rq, rows).row.source = "user"
<1>1. CASE rq.op = "save"
  <2>1. Decide(rq, rows) = SaveDecision(rq, rows)
    BY <1>1 DEF Decide
  <2>2. SaveDecision(rq, rows).kind = "write" => ~IsLive(rows, "user")
    BY DEF SaveDecision
  <2>3. \A n : [rq.row EXCEPT !.attempts = n].live
    BY DEF Request, Row
  <2>4. SaveDecision(rq, rows).row.live
    BY <2>3 DEF SaveDecision
  <2> QED BY <2>1, <2>2, <2>4
<1>2. CASE rq.op = "relabel"
  BY <1>2 DEF Decide, RelabelDecision
<1>3. CASE rq.op = "correct"
  BY <1>3 DEF Decide, CorrectDecision
<1> QED BY <1>1, <1>2, <1>3 DEF Request

(* Publishing such a decision leaves the newest row the only active one, and  *)
(* at most adds one row: the labels and sources of the others stay.           *)
LEMMA PublishNewest ==
  ASSUME NEW rows \in Seq(Row), NEW d \in Decision, NewestLive(rows),
         d.ids = LiveIds(rows), d.kind = "write" => d.row.live
  PROVE  /\ NewestLive(Publish(rows, d))
         /\ \A i \in 1 .. Len(rows) : /\ Publish(rows, d)[i].label = rows[i].label
                                      /\ Publish(rows, d)[i].source = rows[i].source
                                      /\ Publish(rows, d)[i].shape = rows[i].shape
         /\ \/ d.kind # "write" /\ Len(Publish(rows, d)) = Len(rows)
            \/ /\ d.kind = "write" /\ Len(Publish(rows, d)) = Len(rows) + 1
               /\ Publish(rows, d)[Len(rows) + 1] = d.row
<1>1. CASE d.kind = "write"
  <2> DEFINE old == Supersede(rows, d.ids)
  <2>1. /\ old \in Seq(Row) /\ Len(old) = Len(rows)
        /\ \A i \in 1 .. Len(rows) :
             old[i] = IF i \in d.ids THEN [rows[i] EXCEPT !.live = FALSE] ELSE rows[i]
    BY SupersedeType
  <2>2. ASSUME NEW i \in 1 .. Len(rows)
        PROVE  /\ ~old[i].live /\ old[i].label = rows[i].label
               /\ old[i].source = rows[i].source /\ old[i].shape = rows[i].shape
    <3>1. rows[i] \in Row
      OBVIOUS
    <3>2. CASE i \in d.ids
      BY <2>1, <3>1, <3>2 DEF Row
    <3>3. CASE i \notin d.ids
      <4>1. ~rows[i].live
        BY <3>3, <3>1 DEF LiveIds, Row
      <4> QED BY <2>1, <3>3, <4>1
    <3> QED BY <3>2, <3>3
  <2>3. Publish(rows, d) = Append(old, d.row)
    BY <1>1 DEF Publish
  <2> HIDE DEF old
  <2>4. d.row \in Row /\ d.row.live
    BY <1>1 DEF Decision
  <2>5. /\ Len(Append(old, d.row)) = Len(rows) + 1
        /\ Append(old, d.row)[Len(rows) + 1] = d.row
        /\ \A i \in 1 .. Len(rows) : Append(old, d.row)[i] = old[i]
        /\ DOMAIN Append(old, d.row) = 1 .. Len(rows) + 1
        /\ Append(old, d.row) # <<>>
    BY <2>1, <2>4
  <2>6. LiveIds(Append(old, d.row)) = {Len(rows) + 1}
    BY <2>2, <2>4, <2>5 DEF LiveIds
  <2> QED BY <1>1, <2>2, <2>3, <2>5, <2>6 DEF NewestLive
<1>2. CASE d.kind = "touch"
  <2> DEFINE new == [i \in 1 .. Len(rows) |->
                 IF i \in d.ids THEN [rows[i] EXCEPT !.attempts = d.row.attempts] ELSE rows[i]]
  <2>1. Publish(rows, d) = new
    BY <1>2 DEF Publish
  <2>2. ASSUME NEW i \in 1 .. Len(rows)
        PROVE  /\ new[i].live = rows[i].live /\ new[i].label = rows[i].label
               /\ new[i].source = rows[i].source /\ new[i].shape = rows[i].shape
    <3>1. rows[i] \in Row
      OBVIOUS
    <3> QED BY <3>1 DEF Row
  <2>3. DOMAIN new = 1 .. Len(rows) /\ new \in Seq(Row) /\ Len(new) = Len(rows)
    <3>1. Publish(rows, d) \in Seq(Row)
      BY PublishType
    <3>2. DOMAIN new = 1 .. Len(rows)
      OBVIOUS
    <3> HIDE DEF new
    <3> QED BY <2>1, <3>1, <3>2
  <2> HIDE DEF new
  <2>4. LiveIds(new) = LiveIds(rows)
    BY <2>2, <2>3 DEF LiveIds
  <2>5. (new = <<>>) <=> (rows = <<>>)
    BY <2>3
  <2> QED BY <1>2, <2>1, <2>2, <2>3, <2>4, <2>5 DEF NewestLive
<1>3. CASE d.kind = "skip"
  BY <1>3 DEF Publish
<1> QED BY <1>1, <1>2, <1>3 DEF Decision

(* A step that touches neither histories nor locks, and asks only for active rows. *)
LEMMA LockingKept ==
  ASSUME Locking, cls' = cls, staged' = staged, RequestsLive' PROVE Locking'
BY DEF Locking, Exclusive, DecisionsStayTrue, OneActiveRow, LiveIds, IsLive

LEMMA LockingUnchanged ==
  ASSUME Locking, cls' = cls, staged' = staged, want' = want PROVE Locking'
<1>1. RequestsLive'
  BY DEF Locking, RequestsLive
<1> QED BY <1>1, LockingKept

(* Opening a transaction keeps the requests of the others. *)
LEMMA RequestsOpened ==
  ASSUME TypeOK, RequestsLive, NEW p \in Procs, NEW f, want' = [want EXCEPT ![p] = f],
         \A e \in DOMAIN f : f[e].row.live /\ (f[e].op = "correct" => f[e].row.source = "user")
  PROVE  RequestsLive'
<1>1. ASSUME NEW q \in Procs, NEW e \in DOMAIN want'[q]
      PROVE  want'[q][e].row.live /\ (want'[q][e].op = "correct" => want'[q][e].row.source = "user")
  <2>1. CASE q = p
    BY <1>1, <2>1 DEF TypeOK
  <2>2. CASE q # p
    BY <1>1, <2>2 DEF TypeOK, RequestsLive
  <2> QED BY <2>1, <2>2
<1> QED BY <1>1 DEF RequestsLive

LEMMA LockingInit == Init => Locking
<1> SUFFICES ASSUME Init PROVE Locking
  OBVIOUS
<1>1. \A p \in Procs : DOMAIN staged[p] = {} /\ DOMAIN want[p] = {}
  BY DEF Init, Empty
<1>2. OneActiveRow
  <2>1. \A e \in Events : cls[e] = <<>>
    BY DEF Init
  <2>2. LiveIds(<<>>) = {}
    <3>1. LiveIds(<<>>) \subseteq 1 .. Len(<<>>)
      <4>1. <<>> \in Seq(Row)
        BY EmptySeq
      <4> QED BY <4>1, LiveIdsType
    <3> QED BY <3>1, EmptySeq
  <2> QED BY <2>1, <2>2 DEF OneActiveRow
<1> QED BY <1>1, <1>2 DEF Locking, Exclusive, DecisionsStayTrue, RequestsLive

LEMMA LockingLock ==
  ASSUME TypeOK, Locking, NEW p \in Procs, Lock(p) PROVE Locking'
<1>1. PICK e \in NextToLock(p) : /\ Free(e)
        /\ staged' = [staged EXCEPT ![p] =
            [f \in DOMAIN staged[p] \cup {e} |->
               IF f = e THEN Decide(want[p][e], cls[e]) ELSE staged[p][f]]]
  BY DEF Lock
<1>2. e \in DOMAIN want[p] /\ e \in Events /\ want[p][e] \in Request /\ cls[e] \in Seq(Row)
  BY DEF NextToLock, Waiting, TypeOK, MapsInto
<1>3. /\ \A q \in Procs : q # p => staged'[q] = staged[q]
      /\ DOMAIN staged'[p] = DOMAIN staged[p] \cup {e}
      /\ staged'[p][e] = Decide(want[p][e], cls[e])
      /\ \A f \in DOMAIN staged[p] : f # e => staged'[p][f] = staged[p][f]
  BY <1>1 DEF TypeOK
<1>4. \A q \in Procs : e \notin DOMAIN staged[q]
  BY <1>1 DEF Free
<1>5. Exclusive'
  <2>1. ASSUME NEW q \in Procs, NEW r \in Procs, q # r
        PROVE  DOMAIN staged'[q] \cap DOMAIN staged'[r] = {}
    <3>1. DOMAIN staged[q] \cap DOMAIN staged[r] = {}
      BY <2>1 DEF Locking, Exclusive
    <3> QED BY <1>3, <1>4, <2>1, <3>1
  <2> QED BY <2>1 DEF Exclusive
<1>6. /\ Decide(want[p][e], cls[e]).ids = LiveIds(cls[e])
      /\ Decide(want[p][e], cls[e]).kind = "write" =>
           /\ Decide(want[p][e], cls[e]).row.live
           /\ IsLive(cls[e], "user") => Decide(want[p][e], cls[e]).row.source = "user"
  BY <1>2, DecideType, DecideRespects DEF Locking, RequestsLive
<1>7. cls' = cls /\ want' = want
  BY DEF Lock
<1>8. DecisionsStayTrue'
  <2>1. ASSUME NEW q \in Procs, NEW f \in DOMAIN staged'[q]
        PROVE  /\ staged'[q][f].ids = LiveIds(cls[f])
               /\ staged'[q][f].kind = "write" =>
                    /\ staged'[q][f].row.live
                    /\ IsLive(cls[f], "user") => staged'[q][f].row.source = "user"
    <3>1. CASE q = p /\ f = e
      BY <1>3, <1>6, <3>1
    <3>2. CASE ~(q = p /\ f = e)
      <4>1. f \in DOMAIN staged[q] /\ staged'[q][f] = staged[q][f]
        BY <1>3, <2>1, <3>2
      <4> QED BY <4>1 DEF Locking, DecisionsStayTrue
    <3> QED BY <3>1, <3>2
  <2> QED BY <1>7, <2>1 DEF DecisionsStayTrue
<1>9. RequestsLive' /\ OneActiveRow'
  BY <1>7 DEF Locking, RequestsLive, OneActiveRow
<1> QED BY <1>5, <1>8, <1>9 DEF Locking

LEMMA LockingFail ==
  ASSUME TypeOK, Locking, NEW p \in Procs, Fail(p) PROVE Locking'
<1>1. cls' = cls /\ staged' = [staged EXCEPT ![p] = Empty] /\ want' = [want EXCEPT ![p] = Empty]
  BY DEF Fail, Released
<1>2. /\ DOMAIN staged'[p] = {} /\ DOMAIN want'[p] = {}
      /\ \A q \in Procs : q # p => staged'[q] = staged[q] /\ want'[q] = want[q]
  BY <1>1 DEF TypeOK, Empty
<1>3. Exclusive' /\ RequestsLive'
  BY <1>2 DEF Locking, Exclusive, RequestsLive
<1>4. DecisionsStayTrue'
  BY <1>1, <1>2 DEF Locking, DecisionsStayTrue
<1>5. OneActiveRow'
  BY <1>1 DEF Locking, OneActiveRow
<1> QED BY <1>3, <1>4, <1>5 DEF Locking

(* COMMIT: nobody else holds the transfers it publishes. *)
LEMMA LockingCommit ==
  ASSUME TypeOK, Locking, NEW p \in Procs, CommitLabels(p) PROVE Locking'
<1>1. /\ staged' = [staged EXCEPT ![p] = Empty] /\ want' = [want EXCEPT ![p] = Empty]
      /\ \A e \in Events : cls'[e] = IF e \in DOMAIN staged[p]
                                     THEN Publish(cls[e], staged[p][e]) ELSE cls[e]
  BY DEF CommitLabels, Released
<1>2. /\ DOMAIN staged'[p] = {} /\ DOMAIN want'[p] = {}
      /\ \A q \in Procs : q # p => staged'[q] = staged[q] /\ want'[q] = want[q]
  BY <1>1 DEF TypeOK, Empty
<1>3. Exclusive' /\ RequestsLive'
  BY <1>2 DEF Locking, Exclusive, RequestsLive
<1>4. DecisionsStayTrue'
  <2>1. ASSUME NEW q \in Procs, NEW e \in DOMAIN staged'[q]
        PROVE  /\ staged'[q][e] = staged[q][e] /\ cls'[e] = cls[e]
               /\ e \in DOMAIN staged[q]
    <3>1. q # p /\ e \in DOMAIN staged[q] /\ staged'[q][e] = staged[q][e]
      BY <1>2, <2>1
    <3>2. e \notin DOMAIN staged[p] /\ e \in Events
      BY <3>1 DEF Locking, Exclusive, TypeOK, MapsInto
    <3> QED BY <1>1, <3>1, <3>2
  <2> QED BY <2>1 DEF Locking, DecisionsStayTrue
<1>5. OneActiveRow'
  <2>1. ASSUME NEW e \in Events PROVE NewestLive(cls'[e])
    <3>1. cls[e] \in Seq(Row) /\ NewestLive(cls[e])
      BY DEF TypeOK, Locking, OneActiveRow, NewestLive
    <3>2. CASE e \in DOMAIN staged[p]
      <4>1. staged[p][e] \in Decision
        BY <3>2 DEF TypeOK, MapsInto
      <4>2. /\ staged[p][e].ids = LiveIds(cls[e])
            /\ staged[p][e].kind = "write" => staged[p][e].row.live
        BY <3>2 DEF Locking, DecisionsStayTrue
      <4> QED BY <1>1, <3>1, <3>2, <4>1, <4>2, PublishNewest
    <3>3. CASE e \notin DOMAIN staged[p]
      BY <1>1, <3>1, <3>3
    <3> QED BY <3>2, <3>3
  <2> QED BY <2>1 DEF OneActiveRow, NewestLive
<1> QED BY <1>3, <1>4, <1>5 DEF Locking

(* setShapes needs no lock: which rows are active, and whose, is as before. *)
LEMMA SetShapesLive ==
  ASSUME TypeOK, SetShapes, NEW e \in Events
  PROVE  /\ LiveIds(cls'[e]) = LiveIds(cls[e])
         /\ IsLive(cls'[e], "user") <=> IsLive(cls[e], "user")
         /\ (cls'[e] = <<>>) <=> (cls[e] = <<>>)
         /\ \A i \in 1 .. Len(cls[e]) : /\ cls'[e][i].label = cls[e][i].label
                                        /\ cls'[e][i].source = cls[e][i].source
<1>1. /\ cls'[e] \in Seq(Row) /\ Len(cls'[e]) = Len(cls[e]) /\ cls[e] \in Seq(Row)
      /\ \A i \in 1 .. Len(cls[e]) : \E sh \in Shapes :
           cls'[e][i] = [cls[e][i] EXCEPT !.shape = sh]
  BY SetShapesRows DEF TypeOK
<1>2. \A i \in 1 .. Len(cls[e]) : cls[e][i] \in Row
  BY <1>1
<1>3. ASSUME NEW i \in 1 .. Len(cls[e])
      PROVE  /\ cls'[e][i].live = cls[e][i].live /\ cls'[e][i].label = cls[e][i].label
             /\ cls'[e][i].source = cls[e][i].source
  <2>1. PICK sh \in Shapes : cls'[e][i] = [cls[e][i] EXCEPT !.shape = sh]
    BY <1>1
  <2> QED BY <1>2, <2>1 DEF Row
<1>4. DOMAIN cls'[e] = 1 .. Len(cls[e]) /\ DOMAIN cls[e] = 1 .. Len(cls[e])
  BY <1>1
<1>5. LiveIds(cls'[e]) = LiveIds(cls[e])
  BY <1>3, <1>4 DEF LiveIds
<1>6. (cls'[e] = <<>>) <=> (cls[e] = <<>>)
  BY <1>1
<1>7. IsLive(cls'[e], "user") <=> IsLive(cls[e], "user")
  BY <1>1, <1>3, <1>5, LiveIdsType DEF IsLive
<1> QED BY <1>3, <1>5, <1>6, <1>7

LEMMA LockingSetShapes ==
  ASSUME TypeOK, Locking, SetShapes PROVE Locking'
<1>1. staged' = staged /\ want' = want
  BY DEF SetShapes
<1>2. Exclusive' /\ RequestsLive'
  BY <1>1 DEF Locking, Exclusive, RequestsLive
<1>3. DecisionsStayTrue'
  <2>1. \A p \in Procs : DOMAIN staged[p] \subseteq Events
    BY DEF TypeOK, MapsInto
  <2>2. \A e \in Events : /\ LiveIds(cls'[e]) = LiveIds(cls[e])
                          /\ IsLive(cls'[e], "user") <=> IsLive(cls[e], "user")
    BY SetShapesLive
  <2> QED BY <1>1, <2>1, <2>2 DEF Locking, DecisionsStayTrue
<1>4. OneActiveRow'
  <2>1. \A e \in Events : Len(cls'[e]) = Len(cls[e])
    BY SetShapesRows
  <2> QED BY <2>1, SetShapesLive DEF Locking, OneActiveRow
<1> QED BY <1>2, <1>3, <1>4 DEF Locking

LEMMA LockingNext == TypeOK /\ Locals /\ Locking /\ [Next]_vars => Locking'
<1> SUFFICES ASSUME TypeOK, Locals, Locking, [Next]_vars PROVE Locking'
  OBVIOUS
<1>1. ASSUME NEW e \in Events, Arrive(e) PROVE Locking'
  BY <1>1, LockingUnchanged DEF Arrive
<1>9. ASSUME NEW t \in Txs, ArriveUntracked(t) PROVE Locking'
  BY <1>9, LockingUnchanged DEF ArriveUntracked
<1>2. CASE Classifier
  <2>1. CASE ReadPending
    BY <2>1, LockingUnchanged DEF ReadPending
  <2>2. CASE ReadLegs
    <3> DEFINE work == DOMAIN seen.pend \cup Rechecked
               kept(e, o) == /\ e \in Rechecked /\ o.fail = "no"
                             /\ o.row.label = ActiveRow(e).label
                             /\ o.row.method = ActiveRow(e).method
               fresh(out) == [e \in {x \in work : ~kept(x, out[x])} |->
                                [op |-> "save", fail |-> out[e].fail, row |-> out[e].row,
                                 exp |-> IF e \in Rechecked THEN ActiveId(e) ELSE seen.pend[e]]]
    <3>1. PICK out \in [work -> UNION {Outcomes(e) : e \in work}] :
            /\ \A e \in work : out[e] \in Outcomes(e)
            /\ want' = [want EXCEPT ![Worker] = fresh(out)]
      BY <2>2 DEF ReadLegs
    <3>2. work \subseteq Events
      BY DEF TypeOK, MapsInto, Rechecked
    <3>3. \A e \in work : out[e].row.live
      BY <3>1, <3>2, OutcomesType DEF OutcomeType
    <3>4. \A e \in DOMAIN fresh(out) : fresh(out)[e].row.live /\ fresh(out)[e].op = "save"
      BY <3>3
    <3> HIDE DEF fresh
    <3>5. RequestsLive'
      BY <3>1, <3>4, RequestsOpened DEF Locking, Procs
    <3> QED BY <2>2, <3>5, LockingKept DEF ReadLegs
  <2>3. CASE SaveLabels
    BY <2>3, LockingCommit DEF SaveLabels, Procs
  <2>4. CASE SetShapes
    BY <2>4, LockingSetShapes
  <2>5. CASE IdlePass
    BY <2>5, LockingUnchanged DEF IdlePass, vars
  <2> QED BY <1>2, <2>1, <2>2, <2>3, <2>4, <2>5 DEF Classifier
<1>3. ASSUME NEW s \in Sessions, Correcting(s) PROVE Locking'
  <2>1. ASSUME NEW e \in Events, NEW l \in Answers, ReadForCorrection(s, e, l) PROVE Locking'
    <3> DEFINE f == [x \in {e} |-> [op |-> "correct", exp |-> 0, fail |-> "no",
                       row |-> NewRow(l, "user", "counterparty", FALSE, "none")]]
    <3>1. want' = [want EXCEPT ![s] = f]
      BY <2>1 DEF ReadForCorrection
    <3>2. \A x \in DOMAIN f : f[x].row.live /\ f[x].row.source = "user"
      BY DEF NewRow
    <3> HIDE DEF f
    <3>3. RequestsLive'
      BY <3>1, <3>2, RequestsOpened DEF Locking, Procs
    <3> QED BY <2>1, <3>3, LockingKept DEF ReadForCorrection
  <2>2. CASE SaveCorrection(s)
    BY <2>2, LockingCommit DEF SaveCorrection, Procs
  <2>3. CASE ChangeRule(s)
    BY <2>3, LockingUnchanged DEF ChangeRule
  <2>4. CASE ReadCovered(s)
    BY <2>4, LockingUnchanged DEF ReadCovered
  <2>5. CASE SupersedeProposals(s)
    BY <2>5, LockingUnchanged DEF SupersedeProposals
  <2>6. CASE AskProposal(s)
    BY <2>6, LockingUnchanged DEF AskProposal
  <2> QED BY <1>3, <2>1, <2>2, <2>3, <2>4, <2>5, <2>6 DEF Correcting
<1>4. ASSUME NEW s \in Sessions, Answering(s) PROVE Locking'
  <2>1. ASSUME NEW i \in DOMAIN proposals, NEW accept \in BOOLEAN, ClaimProposal(s, i, accept)
        PROVE  Locking'
    BY <2>1, LockingUnchanged DEF ClaimProposal
  <2>2. CASE ApplyProposal(s)
    <3> DEFINE q == proposals[task[s].prop]
               row == IF q.kind = "apply_rule"
                      THEN NewRow(q.label, "auto", "counterparty", TRUE, "single")
                      ELSE NewRow("unknown", "auto", "counterparty", FALSE, "single")
               f == [e \in StillQualify(q) |-> [op |-> "relabel", exp |-> 0, fail |-> "no", row |-> row]]
    <3>1. want' = [want EXCEPT ![s] = f]
      BY <2>2 DEF ApplyProposal
    <3>2. row.live
      BY DEF NewRow
    <3>3. \A x \in DOMAIN f : f[x].row.live /\ f[x].op = "relabel"
      BY <3>2
    <3> HIDE DEF f
    <3>4. RequestsLive'
      BY <3>1, <3>3, RequestsOpened DEF Locking, Procs
    <3> QED BY <2>2, <3>4, LockingKept DEF ApplyProposal
  <2>3. CASE SaveRelabels(s)
    BY <2>3, LockingCommit DEF SaveRelabels, Procs
  <2> QED BY <1>4, <2>1, <2>2, <2>3 DEF Answering
<1>5. ASSUME NEW p \in Procs, Lock(p) PROVE Locking'
  BY <1>5, LockingLock
<1>6. ASSUME NEW p \in Procs, Fail(p) PROVE Locking'
  BY <1>6, LockingFail
<1>7. ASSUME NEW i \in DOMAIN proposals, Expire(i) PROVE Locking'
  BY <1>7, LockingUnchanged DEF Expire
<1>8. CASE UNCHANGED vars
  BY <1>8, LockingUnchanged DEF vars
<1> QED BY <1>1, <1>2, <1>3, <1>4, <1>5, <1>6, <1>7, <1>8, <1>9 DEF Next

(* The invariant of the whole specification. *)
LabelsInv == TypeOK /\ Locals /\ Locking

LEMMA LabelsInvariant == Spec => []LabelsInv
<1>1. Init => LabelsInv
  BY TypeInit, LockingInit DEF LabelsInv
<1>2. LabelsInv /\ [Next]_vars => LabelsInv'
  BY TypeNext, LockingNext DEF LabelsInv
<1> QED BY <1>1, <1>2, PTL DEF Spec

(* A transfer that has labels has exactly one active row, the newest, however *)
(* the classifier, corrections and answers interleave and wherever they fail. *)
THEOREM OneActiveRowAlways == Spec => []OneActiveRow
<1>1. LabelsInv => OneActiveRow
  BY DEF LabelsInv, Locking
<1> QED BY <1>1, LabelsInvariant, PTL

(* What a label transaction decided under its locks is still true whenever it *)
(* commits, for any number of sessions and transfers.                         *)
THEOREM DecisionsAlwaysTrue == Spec => []DecisionsStayTrue
<1>1. LabelsInv => DecisionsStayTrue
  BY DEF LabelsInv, Locking
<1> QED BY <1>1, LabelsInvariant, PTL

-----------------------------------------------------------------------------
(* Refinement.  The histories, seen as labels and sources, implement the      *)
(* append-only log of LabelLog: every step of the protocol is one of its      *)
(* steps or leaves every log alone.                                           *)

LEMMA ViewType ==
  ASSUME NEW rows \in Seq(Row)
  PROVE  /\ View(rows) \in Seq(Log!Entry) /\ Len(View(rows)) = Len(rows)
         /\ \A i \in 1 .. Len(rows) :
              View(rows)[i] = [label |-> rows[i].label, source |-> rows[i].source]
<1>1. DOMAIN rows = 1 .. Len(rows) /\ \A i \in 1 .. Len(rows) : rows[i] \in Row
  OBVIOUS
<1>2. \A i \in 1 .. Len(rows) : [label |-> rows[i].label, source |-> rows[i].source] \in Log!Entry
  BY <1>1 DEF Row, Log!Entry
<1>3. View(rows) = [i \in 1 .. Len(rows) |-> [label |-> rows[i].label, source |-> rows[i].source]]
  BY <1>1 DEF View
<1> QED BY <1>2, <1>3

(* Histories whose rows keep label and source have the same view. *)
LEMMA ViewSame ==
  ASSUME NEW old \in Seq(Row), NEW new \in Seq(Row), Len(new) = Len(old),
         \A i \in 1 .. Len(old) : new[i].label = old[i].label /\ new[i].source = old[i].source
  PROVE  View(new) = View(old)
BY DEF View

(* The operator's word is the last entry exactly when it is the active row. *)
LEMMA ViewSpoken ==
  ASSUME NEW rows \in Seq(Row), NewestLive(rows), Log!SpokenFor(View(rows))
  PROVE  IsLive(rows, "user")
<1>1. View(rows) # <<>> /\ View(rows)[Len(View(rows))].source = "user"
  BY DEF Log!SpokenFor
<1>2. Len(rows) > 0 /\ Len(rows) \in Nat /\ rows # <<>>
  <2>1. View(rows) \in Seq(Log!Entry) /\ Len(View(rows)) = Len(rows)
    BY ViewType
  <2> QED BY <1>1, <2>1, EmptySeq
<1>3. Len(rows) \in LiveIds(rows)
  BY <1>2 DEF NewestLive
<1>4. rows[Len(rows)].source = "user"
  <2>1. Len(View(rows)) = Len(rows) /\ Len(rows) \in 1 .. Len(rows)
    BY <1>2, ViewType
  <2>2. View(rows)[Len(rows)] = [label |-> rows[Len(rows)].label, source |-> rows[Len(rows)].source]
    BY <2>1, ViewType
  <2> QED BY <1>1, <2>1, <2>2
<1> QED BY <1>3, <1>4 DEF IsLive

(* One published decision extends the view as the abstract log allows. *)
LEMMA PublishExtends ==
  ASSUME NEW rows \in Seq(Row), NEW d \in Decision, NewestLive(rows), d.ids = LiveIds(rows),
         d.kind = "write" => d.row.live /\ (IsLive(rows, "user") => d.row.source = "user")
  PROVE  Log!Extends(View(rows), View(Publish(rows, d)))
<1> DEFINE new == Publish(rows, d)
<1>1. new \in Seq(Row)
  BY PublishType
<1>2. /\ \A i \in 1 .. Len(rows) : new[i].label = rows[i].label /\ new[i].source = rows[i].source
      /\ \/ d.kind # "write" /\ Len(new) = Len(rows)
         \/ d.kind = "write" /\ Len(new) = Len(rows) + 1 /\ new[Len(rows) + 1] = d.row
  BY PublishNewest
<1> HIDE DEF new
<1>3. CASE d.kind # "write"
  <2>1. View(new) = View(rows)
    BY <1>1, <1>2, <1>3, ViewSame
  <2> QED BY <2>1 DEF Log!Extends, new
<1>4. CASE d.kind = "write"
  <2> DEFINE x == [label |-> d.row.label, source |-> d.row.source]
  <2>1. x \in Log!Entry
    BY DEF Decision, Row, Log!Entry
  <2>2. View(new) = Append(View(rows), x)
    <3>1. /\ View(rows) \in Seq(Log!Entry) /\ Len(View(rows)) = Len(rows)
          /\ View(new) \in Seq(Log!Entry) /\ Len(View(new)) = Len(rows) + 1
      BY <1>1, <1>2, <1>4, ViewType
    <3>2. View(new)[Len(rows) + 1] = x
      BY <1>1, <1>2, <1>4, ViewType
    <3>3. ASSUME NEW i \in 1 .. Len(rows) PROVE View(new)[i] = View(rows)[i]
      <4>1. View(rows)[i] = [label |-> rows[i].label, source |-> rows[i].source]
        BY ViewType
      <4>2. i \in 1 .. Len(new)
        BY <1>2, <1>4
      <4>3. View(new)[i] = [label |-> new[i].label, source |-> new[i].source]
        BY <1>1, <4>2, ViewType
      <4> QED BY <1>2, <4>1, <4>3
    <3>4. /\ Append(View(rows), x) \in Seq(Log!Entry) /\ Len(Append(View(rows), x)) = Len(rows) + 1
          /\ Append(View(rows), x)[Len(rows) + 1] = x
          /\ \A i \in 1 .. Len(rows) : Append(View(rows), x)[i] = View(rows)[i]
      BY <2>1, <3>1, AppendProperties
    <3>5. \A i \in 1 .. Len(rows) + 1 : View(new)[i] = Append(View(rows), x)[i]
      BY <3>2, <3>3, <3>4
    <3> QED BY <3>1, <3>4, <3>5, SeqEqual
  <2>3. Log!SpokenFor(View(rows)) => x.source = "user"
    BY <1>4, ViewSpoken
  <2> QED BY <2>1, <2>2, <2>3 DEF Log!Extends, new
<1> QED BY <1>3, <1>4

(* Only COMMIT and setShapes touch histories. *)
LEMMA HistoriesMove ==
  [Next]_vars => cls' = cls \/ SetShapes \/ \E p \in Procs : CommitLabels(p)
<1> SUFFICES ASSUME [Next]_vars PROVE cls' = cls \/ SetShapes \/ \E p \in Procs : CommitLabels(p)
  OBVIOUS
<1>1. ASSUME NEW e \in Events, Arrive(e) PROVE cls' = cls
  BY <1>1 DEF Arrive
<1>8. ASSUME NEW t \in Txs, ArriveUntracked(t) PROVE cls' = cls
  BY <1>8 DEF ArriveUntracked
<1>2. CASE Classifier
  BY <1>2 DEF Classifier, ReadPending, ReadLegs, SaveLabels, IdlePass, vars, Procs
<1>3. ASSUME NEW s \in Sessions, Correcting(s) PROVE cls' = cls \/ CommitLabels(s)
  BY <1>3 DEF Correcting, ReadForCorrection, SaveCorrection, ChangeRule, ReadCovered,
              SupersedeProposals, AskProposal
<1>4. ASSUME NEW s \in Sessions, Answering(s) PROVE cls' = cls \/ CommitLabels(s)
  BY <1>4 DEF Answering, ClaimProposal, ApplyProposal, SaveRelabels
<1>5. ASSUME NEW p \in Procs, Lock(p) \/ Fail(p) PROVE cls' = cls
  BY <1>5 DEF Lock, Fail, Released
<1>6. ASSUME NEW i \in DOMAIN proposals, Expire(i) PROVE cls' = cls
  BY <1>6 DEF Expire
<1>7. CASE UNCHANGED vars
  BY <1>7 DEF vars
<1> QED BY <1>1, <1>2, <1>3, <1>4, <1>5, <1>6, <1>7, <1>8 DEF Next, Procs

(* One step of the protocol on one transfer's log. *)
LEMMA LogExtends ==
  ASSUME TypeOK, Locking, [Next]_vars, NEW e \in Events
  PROVE  Log!Extends(View(cls[e]), View(cls'[e]))
<1>1. cls[e] \in Seq(Row) /\ NewestLive(cls[e])
  BY DEF TypeOK, Locking, OneActiveRow, NewestLive
<1>2. CASE cls' = cls
  BY <1>2 DEF Log!Extends
<1>3. CASE SetShapes
  <2>1. /\ cls'[e] \in Seq(Row) /\ Len(cls'[e]) = Len(cls[e])
        /\ \A i \in 1 .. Len(cls[e]) : /\ cls'[e][i].label = cls[e][i].label
                                       /\ cls'[e][i].source = cls[e][i].source
    BY <1>3, SetShapesRows, SetShapesLive
  <2>2. View(cls'[e]) = View(cls[e])
    BY <1>1, <2>1, ViewSame
  <2> QED BY <2>2 DEF Log!Extends
<1>4. ASSUME NEW p \in Procs, CommitLabels(p)
      PROVE  Log!Extends(View(cls[e]), View(cls'[e]))
  <2>1. cls'[e] = IF e \in DOMAIN staged[p] THEN Publish(cls[e], staged[p][e]) ELSE cls[e]
    BY <1>4 DEF CommitLabels, Released
  <2>2. CASE e \in DOMAIN staged[p]
    <3>1. staged[p][e] \in Decision
      BY <2>2 DEF TypeOK, MapsInto
    <3>2. /\ staged[p][e].ids = LiveIds(cls[e])
          /\ staged[p][e].kind = "write" =>
               /\ staged[p][e].row.live
               /\ IsLive(cls[e], "user") => staged[p][e].row.source = "user"
      BY <2>2 DEF Locking, DecisionsStayTrue
    <3> QED BY <1>1, <2>1, <2>2, <3>1, <3>2, PublishExtends
  <2>3. CASE e \notin DOMAIN staged[p]
    BY <2>1, <2>3 DEF Log!Extends
  <2> QED BY <2>2, <2>3
<1> QED BY <1>2, <1>3, <1>4, HistoriesMove

(* The books are append-only: the label histories implement LabelLog, so no   *)
(* label is rewritten or lost, and nothing automatic follows the operator's    *)
(* word, for any number of sessions, transfers, crashes and failed writes.    *)
THEOREM BooksAreAppendOnly == Spec => AppendOnlyBooks
<1> DEFINE log == [e \in Events |-> View(cls[e])]
<1>1. Init => Log!Init
  <2> SUFFICES ASSUME Init PROVE log = [e \in Events |-> <<>>]
    BY DEF Log!Init
  <2>1. View(<<>>) = <<>>
    <3>1. <<>> \in Seq(Row) /\ Len(<<>>) = 0
      BY EmptySeq
    <3>2. View(<<>>) \in Seq(Log!Entry) /\ Len(View(<<>>)) = 0
      BY <3>1, ViewType
    <3> QED BY <3>2, EmptySeq
  <2>2. \A e \in Events : cls[e] = <<>>
    BY DEF Init
  <2> QED BY <2>1, <2>2
<1>2. LabelsInv /\ [Next]_vars => [Log!Next]_log
  <2> SUFFICES ASSUME LabelsInv, [Next]_vars PROVE Log!Next
    OBVIOUS
  <2>1. \A e \in Events : Log!Extends(log[e], log'[e])
    BY LogExtends DEF LabelsInv
  <2>2. DOMAIN log' = Events
    OBVIOUS
  <2> QED BY <2>1, <2>2 DEF Log!Next, Log!Record
<1> QED BY <1>1, <1>2, LabelsInvariant, PTL DEF Spec, AppendOnlyBooks, Log!Spec

-----------------------------------------------------------------------------
(* Two more consequences of the local discipline.                             *)

(* A step changes the locks of one process at most: it locks its smallest     *)
(* waiting event, opens a transaction while it holds nothing, or drops all.   *)
LEMMA LocksMove ==
  ASSUME TypeOK, Locals, [Next]_vars, NEW p \in Procs
  PROVE  \/ want'[p] = want[p] /\ staged'[p] = staged[p]
         \/ Lock(p)
         \/ DOMAIN staged'[p] = {}
<1> DEFINE Moves(q) == \/ want'[q] = want[q] /\ staged'[q] = staged[q]
                       \/ Lock(q)
                       \/ DOMAIN staged'[q] = {}
<1>1. ASSUME want' = want, staged' = staged PROVE Moves(p)
  BY <1>1
<1>2. ASSUME NEW q \in Procs, CommitLabels(q) \/ Fail(q) PROVE Moves(p)
  <2>1. /\ want' = [want EXCEPT ![q] = Empty]
        /\ staged' = [staged EXCEPT ![q] = Empty]
    BY <1>2 DEF CommitLabels, Released, Fail
  <2> QED BY <2>1 DEF TypeOK, Empty
<1>3. ASSUME NEW q \in Procs, Lock(q) PROVE Moves(p)
  <2>1. CASE q = p
    BY <1>3, <2>1
  <2>2. CASE q # p
    BY <1>3, <2>2 DEF Lock, TypeOK
  <2> QED BY <2>1, <2>2
<1>4. ASSUME NEW q \in Procs, NEW f, DOMAIN want[q] = {}, staged' = staged,
             want' = [want EXCEPT ![q] = f]
      PROVE  Moves(p)
  <2>1. CASE q = p
    BY <1>4, <2>1 DEF TypeOK, MapsInto
  <2>2. CASE q # p
    BY <1>4, <2>2 DEF TypeOK
  <2> QED BY <2>1, <2>2
<1>5. ASSUME NEW e \in Events, Arrive(e) PROVE Moves(p)
  BY <1>1, <1>5 DEF Arrive
<1>11. ASSUME NEW t \in Txs, ArriveUntracked(t) PROVE Moves(p)
  BY <1>1, <1>11 DEF ArriveUntracked
<1>6. CASE Classifier
  <2>1. CASE ReadLegs
    <3>1. \E f : want' = [want EXCEPT ![Worker] = f]
      BY <2>1 DEF ReadLegs
    <3>2. staged' = staged /\ pc[Worker] = "legs" /\ Worker \in Procs
      BY <2>1 DEF ReadLegs, Procs
    <3>3. DOMAIN want[Worker] = {}
      BY <3>2 DEF Locals
    <3> QED BY <1>4, <3>1, <3>2, <3>3
  <2>2. CASE SaveLabels
    BY <1>2, <2>2 DEF SaveLabels, Procs
  <2>3. CASE ReadPending \/ SetShapes \/ IdlePass
    BY <1>1, <2>3 DEF ReadPending, SetShapes, IdlePass, vars
  <2> QED BY <1>6, <2>1, <2>2, <2>3 DEF Classifier
<1>7. ASSUME NEW s \in Sessions, Correcting(s) PROVE Moves(p)
  <2>1. ASSUME NEW e \in Events, NEW l \in Answers, ReadForCorrection(s, e, l) PROVE Moves(p)
    <3>1. \E f : want' = [want EXCEPT ![s] = f]
      BY <2>1 DEF ReadForCorrection
    <3>2. staged' = staged /\ pc[s] = "idle" /\ s \in Procs
      BY <2>1 DEF ReadForCorrection, Procs
    <3>3. DOMAIN want[s] = {}
      BY <3>2 DEF Locals
    <3> QED BY <1>4, <3>1, <3>2, <3>3
  <2>2. CASE SaveCorrection(s)
    BY <1>2, <2>2 DEF SaveCorrection, Procs
  <2>3. CASE ChangeRule(s) \/ ReadCovered(s) \/ SupersedeProposals(s) \/ AskProposal(s)
    BY <1>1, <2>3 DEF ChangeRule, ReadCovered, SupersedeProposals, AskProposal
  <2> QED BY <1>7, <2>1, <2>2, <2>3 DEF Correcting
<1>8. ASSUME NEW s \in Sessions, Answering(s) PROVE Moves(p)
  <2>1. CASE ApplyProposal(s)
    <3>1. \E f : want' = [want EXCEPT ![s] = f]
      BY <2>1 DEF ApplyProposal
    <3>2. staged' = staged /\ pc[s] = "claimed" /\ s \in Procs
      BY <2>1 DEF ApplyProposal, Procs
    <3>3. DOMAIN want[s] = {}
      BY <3>2 DEF Locals
    <3> QED BY <1>4, <3>1, <3>2, <3>3
  <2>2. CASE SaveRelabels(s)
    BY <1>2, <2>2 DEF SaveRelabels, Procs
  <2>3. ASSUME NEW i \in DOMAIN proposals, NEW accept \in BOOLEAN, ClaimProposal(s, i, accept)
        PROVE  Moves(p)
    BY <1>1, <2>3 DEF ClaimProposal
  <2> QED BY <1>8, <2>1, <2>2, <2>3 DEF Answering
<1>9. ASSUME NEW i \in DOMAIN proposals, Expire(i) PROVE Moves(p)
  BY <1>1, <1>9 DEF Expire
<1>10. CASE UNCHANGED vars
  BY <1>1, <1>10 DEF vars
<1> QED BY <1>2, <1>3, <1>5, <1>6, <1>7, <1>8, <1>9, <1>10, <1>11 DEF Next

(* Writers lock in id order: every event a transaction has locked comes       *)
(* before every event it still waits for, so no cycle of waiting can form.    *)
THEOREM LocksAlwaysGoUp == Spec => []LocksGoUp
<1>1. Init => LocksGoUp
  BY DEF Init, LocksGoUp, Empty
<1>2. TypeOK /\ Locals /\ LocksGoUp /\ [Next]_vars => LocksGoUp'
  <2> SUFFICES ASSUME TypeOK, Locals, LocksGoUp, [Next]_vars, NEW p \in Procs,
                      NEW e \in DOMAIN staged'[p], NEW f \in DOMAIN want'[p] \ DOMAIN staged'[p]
               PROVE  e < f
    BY DEF LocksGoUp, Waiting
  <2>1. CASE want'[p] = want[p] /\ staged'[p] = staged[p]
    BY <2>1 DEF LocksGoUp, Waiting
  <2>2. CASE Lock(p)
    <3>1. PICK n \in NextToLock(p) :
            staged' = [staged EXCEPT ![p] =
                [x \in DOMAIN staged[p] \cup {n} |->
                   IF x = n THEN Decide(want[p][n], cls[n]) ELSE staged[p][x]]]
      BY <2>2 DEF Lock
    <3>2. DOMAIN staged'[p] = DOMAIN staged[p] \cup {n} /\ want' = want
      BY <2>2, <3>1 DEF TypeOK, Lock
    <3>3. f \in Waiting(p) /\ f # n /\ n <= f
      BY <3>1, <3>2 DEF NextToLock, Waiting
    <3>4. n \in Nat /\ f \in Nat
      BY <3>1, <3>3, EventsAssumption DEF NextToLock, Waiting, TypeOK, MapsInto
    <3> QED BY <3>2, <3>3, <3>4 DEF LocksGoUp
  <2>3. CASE DOMAIN staged'[p] = {}
    BY <2>3
  <2> QED BY <2>1, <2>2, <2>3, LocksMove
<1>3. Spec => [](TypeOK /\ Locals)
  <2>1. LabelsInv => TypeOK /\ Locals
    BY DEF LabelsInv
  <2> QED BY <2>1, LabelsInvariant, PTL
<1> QED BY <1>1, <1>2, <1>3, PTL DEF Spec

(* A session that starts to apply a question claims it while it is pending. *)
LEMMA ClaimsMove ==
  ASSUME TypeOK, Locals, [Next]_vars, NEW s \in Sessions
  PROVE  \/ task'[s].prop = task[s].prop
         \/ task'[s].prop = 0
         \/ /\ task'[s].prop \in DOMAIN proposals
            /\ proposals[task'[s].prop].status = "pending"
            /\ \A t \in Sessions : t # s => task'[t] = task[t]
<1> DEFINE Moves == \/ task'[s].prop = task[s].prop
                    \/ task'[s].prop = 0
                    \/ /\ task'[s].prop \in DOMAIN proposals
                       /\ proposals[task'[s].prop].status = "pending"
                       /\ \A t \in Sessions : t # s => task'[t] = task[t]
<1>1. ASSUME task' = task PROVE Moves
  BY <1>1
<1>2. ASSUME NEW u \in Sessions, NEW t, task' = [task EXCEPT ![u] = t],
             t.prop = task[u].prop \/ t.prop = 0
      PROVE  Moves
  <2>1. CASE u = s
    BY <1>2, <2>1 DEF TypeOK
  <2>2. CASE u # s
    BY <1>2, <2>2 DEF TypeOK
  <2> QED BY <2>1, <2>2
<1>3. ASSUME NEW p \in Procs, Fail(p) PROVE Moves
  BY <1>3, NoTaskType DEF Fail, Released
<1>4. ASSUME NEW u \in Sessions, NEW e \in Events, NEW l \in Answers, ReadForCorrection(u, e, l)
      PROVE  Moves
  <2> DEFINE t == [event |-> e, label |-> l, plan |-> PlanFor(e, l), old |-> ActiveId(e),
                   was |-> rule[PartyOf(e)].label, cover |-> {}, prop |-> 0]
  <2>1. task' = [task EXCEPT ![u] = t]
    BY <1>4 DEF ReadForCorrection
  <2>2. t.prop = 0
    OBVIOUS
  <2> HIDE DEF t
  <2> QED BY <1>2, <2>1, <2>2
<1>5. ASSUME NEW u \in Sessions, ReadCovered(u) PROVE Moves
  <2>1. PICK c : task' = [task EXCEPT ![u].cover = c]
    BY <1>5 DEF ReadCovered
  <2>2. task[u] \in Task
    BY DEF TypeOK
  <2>3. [task[u] EXCEPT !.cover = c].prop = task[u].prop
    BY <2>2 DEF Task
  <2>4. task' = [task EXCEPT ![u] = [task[u] EXCEPT !.cover = c]]
    BY <2>1 DEF TypeOK
  <2> QED BY <1>2, <2>3, <2>4
<1>6. ASSUME NEW u \in Sessions, SupersedeProposals(u) \/ AskProposal(u) \/ SaveRelabels(u)
      PROVE  Moves
  <2>1. task' = task \/ task' = [task EXCEPT ![u] = NoTask]
    BY <1>6 DEF SupersedeProposals, AskProposal, SaveRelabels
  <2> QED BY <1>1, <1>2, <2>1, NoTaskType
<1>7. ASSUME NEW u \in Sessions, NEW i \in DOMAIN proposals, NEW accept \in BOOLEAN,
             ClaimProposal(u, i, accept)
      PROVE  Moves
  <2>1. proposals[i].status = "pending"
    BY <1>7 DEF ClaimProposal, Claimable
  <2>2. CASE ~accept
    BY <1>1, <1>7, <2>2 DEF ClaimProposal
  <2>3. CASE accept
    <3>1. task' = [task EXCEPT ![u] = [task[u] EXCEPT !.prop = i]] /\ task[u] \in Task
      BY <1>7, <2>3 DEF ClaimProposal, TypeOK
    <3>2. /\ \A t \in Sessions : t # u => task'[t] = task[t]
          /\ task'[u].prop = i
      BY <3>1 DEF TypeOK, Task
    <3> QED BY <2>1, <3>2
  <2> QED BY <2>2, <2>3
<1>8. ASSUME NEW u \in Sessions, SaveCorrection(u) \/ ChangeRule(u) \/ ApplyProposal(u)
      PROVE  Moves
  BY <1>1, <1>8 DEF SaveCorrection, ChangeRule, ApplyProposal
<1>9. ASSUME Classifier \/ UNCHANGED vars PROVE Moves
  BY <1>1, <1>9 DEF Classifier, ReadPending, ReadLegs, SaveLabels, SetShapes, IdlePass, vars
<1>10. ASSUME NEW e \in Events, Arrive(e) PROVE Moves
  BY <1>1, <1>10 DEF Arrive
<1>14. ASSUME NEW t \in Txs, ArriveUntracked(t) PROVE Moves
  BY <1>1, <1>14 DEF ArriveUntracked
<1>11. ASSUME NEW p \in Procs, Lock(p) PROVE Moves
  BY <1>1, <1>11 DEF Lock
<1>12. ASSUME NEW i \in DOMAIN proposals, Expire(i) PROVE Moves
  BY <1>1, <1>12 DEF Expire
<1>13. ASSUME NEW u \in Sessions, Correcting(u) \/ Answering(u) PROVE Moves
  BY <1>4, <1>5, <1>6, <1>7, <1>8, <1>13 DEF Correcting, Answering
<1> QED BY <1>3, <1>9, <1>10, <1>11, <1>12, <1>13, <1>14 DEF Next

(* However often a question is answered, one session alone applies it: the    *)
(* conditional UPDATE that claims it finds it pending once.                   *)
THEOREM ClaimedOnlyOnce == Spec => []ClaimedOnce
<1>1. Init => ClaimedOnce
  BY NoTaskType DEF Init, ClaimedOnce
<1>2. TypeOK /\ Locals /\ ClaimedOnce /\ [Next]_vars => ClaimedOnce'
  <2> SUFFICES ASSUME TypeOK, Locals, ClaimedOnce, [Next]_vars,
                      NEW s \in Sessions, NEW t \in Sessions,
                      task'[s].prop # 0, task'[s].prop = task'[t].prop, s # t
               PROVE  FALSE
    BY DEF ClaimedOnce
  <2>1. \A u \in Sessions : task[u].prop # 0 => proposals[task[u].prop].status = "accepted"
    BY DEF Locals, SessionState
  <2>2. CASE task'[s].prop = task[s].prop /\ task'[t].prop = task[t].prop
    BY <2>2 DEF ClaimedOnce
  <2>3. ASSUME NEW u \in Sessions, NEW v \in Sessions, u # v, task'[u].prop = task'[v].prop,
               task'[u].prop # 0, task'[u].prop # task[u].prop
        PROVE  FALSE
    <3>1. /\ proposals[task'[u].prop].status = "pending"
          /\ \A x \in Sessions : x # u => task'[x] = task[x]
      BY <2>3, ClaimsMove
    <3>2. task[v].prop = task'[u].prop
      BY <2>3, <3>1
    <3> QED BY <2>1, <2>3, <3>1, <3>2
  <2> QED BY <2>2, <2>3
<1>3. Spec => [](TypeOK /\ Locals)
  <2>1. LabelsInv => TypeOK /\ Locals
    BY DEF LabelsInv
  <2> QED BY <2>1, LabelsInvariant, PTL
<1> QED BY <1>1, <1>2, <1>3, PTL DEF Spec

-----------------------------------------------------------------------------
(* The operator's yes.  A label that fits its transaction can only be replaced *)
(* by a writer that was told to: the classifier asks for transfers it read      *)
(* without a label or with one that no longer fits, and what it read is still   *)
(* so when it commits, or it writes nothing.                                   *)

(* What the classifier read as pending had no automatic label. *)
PendHeld ==
  pc[Worker] = "legs" => \A e \in DOMAIN seen.pend :
    seen.pend[e] # 0 => /\ seen.pend[e] \in DOMAIN cls[e]
                        /\ cls[e][seen.pend[e]].source # "auto"

(* What it asks to replace is not automatic, or does not fit. *)
MayReplace(e, i) ==
  i # 0 => /\ i \in DOMAIN cls[e]
           /\ cls[e][i].source # "auto" \/ cls[e][i].shape # ShapeOf(e)
SavesHeld ==
  pc[Worker] = "txn" => \A e \in DOMAIN want[Worker] :
    want[Worker][e].op = "save" /\ MayReplace(e, want[Worker][e].exp)

(* A session asks for the operator's own row, or for a transfer its question lists. *)
Entitled(s, e) ==
  IF task[s].prop = 0 THEN want[s][e].op = "correct"
                      ELSE e \in proposals[task[s].prop].events
SessionsHeld == \A s \in Sessions : \A e \in DOMAIN want[s] : Entitled(s, e)

(* What was decided under the lock is what was asked for. *)
AsAsked(rq, d) ==
  d.kind = "write" => /\ rq.op = "save" => d.ids = (IF rq.exp = 0 THEN {} ELSE {rq.exp})
                      /\ rq.op = "correct" => d.row.source = "user"
StagedHeld == \A p \in Procs : \A e \in DOMAIN staged[p] : AsAsked(want[p][e], staged[p][e])

YesInv == PendHeld /\ SavesHeld /\ SessionsHeld /\ StagedHeld

(* A history keeps the sources of its rows, and their shapes too until the    *)
(* classifier sets the shapes.                                                *)
LEMMA HistoryKept ==
  ASSUME TypeOK, Locking, [Next]_vars, NEW e \in Events, NEW i \in DOMAIN cls[e]
  PROVE  /\ i \in DOMAIN cls'[e] /\ cls'[e][i].source = cls[e][i].source
         /\ pc[Worker] # "shapes" => cls'[e][i].shape = cls[e][i].shape
<1>1. cls[e] \in Seq(Row) /\ NewestLive(cls[e]) /\ i \in 1 .. Len(cls[e])
  BY DEF TypeOK, Locking, OneActiveRow, NewestLive
<1>2. CASE cls' = cls
  BY <1>2
<1>3. CASE SetShapes
  <2>1. /\ cls'[e] \in Seq(Row) /\ Len(cls'[e]) = Len(cls[e])
        /\ cls'[e][i].source = cls[e][i].source
    BY <1>1, <1>3, SetShapesRows, SetShapesLive
  <2> QED BY <1>1, <1>3, <2>1 DEF SetShapes
<1>4. ASSUME NEW p \in Procs, CommitLabels(p)
      PROVE  /\ i \in DOMAIN cls'[e] /\ cls'[e][i].source = cls[e][i].source
             /\ cls'[e][i].shape = cls[e][i].shape
  <2>1. cls'[e] = IF e \in DOMAIN staged[p] THEN Publish(cls[e], staged[p][e]) ELSE cls[e]
    BY <1>4 DEF CommitLabels, Released
  <2>2. CASE e \in DOMAIN staged[p]
    <3> DEFINE new == Publish(cls[e], staged[p][e])
    <3>1. staged[p][e] \in Decision
      BY <2>2 DEF TypeOK, MapsInto
    <3>2. /\ staged[p][e].ids = LiveIds(cls[e])
          /\ staged[p][e].kind = "write" => staged[p][e].row.live
      BY <2>2 DEF Locking, DecisionsStayTrue
    <3>3. new \in Seq(Row)
      BY <1>1, <3>1, PublishType
    <3>4. /\ new[i].source = cls[e][i].source /\ new[i].shape = cls[e][i].shape
          /\ Len(new) = Len(cls[e]) \/ Len(new) = Len(cls[e]) + 1
      BY <1>1, <3>1, <3>2, PublishNewest
    <3>5. cls'[e] = new
      BY <2>1, <2>2
    <3> HIDE DEF new
    <3> QED BY <1>1, <3>3, <3>4, <3>5
  <2>3. CASE e \notin DOMAIN staged[p]
    BY <2>1, <2>3
  <2> QED BY <2>2, <2>3
<1> QED BY <1>2, <1>3, <1>4, HistoriesMove

(* The classifier reads, or asks, or is past asking, or goes on as it was while *)
(* no transaction changes its shape.                                          *)
LEMMA WorkerMoves ==
  ASSUME TypeOK, [Next]_vars
  PROVE  \/ ReadPending
         \/ ReadLegs
         \/ pc'[Worker] \in {"idle", "shapes"}
         \/ /\ pc'[Worker] = pc[Worker] /\ want'[Worker] = want[Worker] /\ seen' = seen
            /\ txShape' = txShape
<1> DEFINE Same == /\ pc'[Worker] = pc[Worker] /\ want'[Worker] = want[Worker]
                   /\ seen' = seen /\ txShape' = txShape
           Over == pc'[Worker] \in {"idle", "shapes"}
<1>1. Worker \in Procs /\ \A s \in Sessions : s # Worker /\ s \in Procs
  BY ProcsAssumption DEF Procs
<1>2. ASSUME NEW e \in Events, Arrive(e) PROVE Over
  BY <1>2 DEF Arrive
<1>3. ASSUME NEW t \in Txs, ArriveUntracked(t) PROVE Over
  BY <1>3 DEF ArriveUntracked
<1>4. CASE SaveLabels \/ SetShapes
  BY <1>1, <1>4 DEF SaveLabels, SetShapes, TypeOK
<1>5. CASE IdlePass \/ UNCHANGED vars
  BY <1>5 DEF IdlePass, vars
<1>6. ASSUME NEW s \in Sessions, NEW e \in Events, NEW l \in Answers, ReadForCorrection(s, e, l)
      PROVE  Same
  <2>1. /\ pc' = [pc EXCEPT ![s] = "txn"] /\ \E f : want' = [want EXCEPT ![s] = f]
        /\ seen' = seen /\ txShape' = txShape
    BY <1>6 DEF ReadForCorrection
  <2> QED BY <1>1, <2>1 DEF TypeOK
<1>7. ASSUME NEW s \in Sessions, SaveCorrection(s) \/ SaveRelabels(s) PROVE Same
  BY <1>1, <1>7 DEF SaveCorrection, SaveRelabels, CommitLabels, TypeOK
<1>8. ASSUME NEW s \in Sessions,
             ChangeRule(s) \/ ReadCovered(s) \/ SupersedeProposals(s) \/ AskProposal(s)
      PROVE  Same
  BY <1>1, <1>8 DEF ChangeRule, ReadCovered, SupersedeProposals, AskProposal, TypeOK
<1>9. ASSUME NEW s \in Sessions, NEW i \in DOMAIN proposals, NEW accept \in BOOLEAN,
             ClaimProposal(s, i, accept)
      PROVE  Same
  BY <1>1, <1>9 DEF ClaimProposal, TypeOK
<1>10. ASSUME NEW s \in Sessions, ApplyProposal(s) PROVE Same
  <2>1. /\ pc' = [pc EXCEPT ![s] = "txn"] /\ \E f : want' = [want EXCEPT ![s] = f]
        /\ seen' = seen /\ txShape' = txShape
    BY <1>10 DEF ApplyProposal
  <2> QED BY <1>1, <2>1 DEF TypeOK
<1>11. ASSUME NEW p \in Procs, Lock(p) PROVE Same
  BY <1>11 DEF Lock
<1>12. ASSUME NEW p \in Procs, Fail(p) PROVE Same \/ Over
  <2>1. CASE p = Worker
    BY <1>1, <1>12, <2>1 DEF Fail, Released, TypeOK
  <2>2. CASE p # Worker
    BY <1>1, <1>12, <2>2 DEF Fail, Released, TypeOK
  <2> QED BY <2>1, <2>2
<1>13. ASSUME NEW i \in DOMAIN proposals, Expire(i) PROVE Same
  BY <1>13 DEF Expire
<1> QED
  BY <1>2, <1>3, <1>4, <1>5, <1>6, <1>7, <1>8, <1>9, <1>10, <1>11, <1>12, <1>13
     DEF Next, Classifier, Correcting, Answering

LEMMA PendKept ==
  ASSUME LabelsInv, PendHeld, [Next]_vars PROVE PendHeld'
<1> SUFFICES ASSUME pc'[Worker] = "legs", NEW e \in DOMAIN seen'.pend, seen'.pend[e] # 0
             PROVE  /\ seen'.pend[e] \in DOMAIN cls'[e]
                    /\ cls'[e][seen'.pend[e]].source # "auto"
  BY DEF PendHeld
<1>1. CASE ReadPending
  <2>1. PICK ready \in SUBSET Pending :
          seen' = [pend |-> [x \in ready |-> ActiveId(x)], rules |-> rule]
    BY <1>1 DEF ReadPending
  <2>2. e \in Pending /\ e \in Events /\ seen'.pend[e] = ActiveId(e) /\ cls' = cls
    BY <1>1, <2>1 DEF Pending, LabelsInv, TypeOK, ReadPending
  <2>3. LiveIds(cls[e]) # {} /\ ActiveId(e) \in LiveIds(cls[e])
    BY <2>2 DEF ActiveId
  <2>4. ~IsLive(cls[e], "auto")
    BY <2>2 DEF Pending
  <2> QED BY <2>2, <2>3, <2>4 DEF IsLive, LiveIds
<1>2. CASE pc[Worker] = "legs" /\ seen' = seen
  <2>1. e \in Events /\ seen.pend[e] \in DOMAIN cls[e] /\ cls[e][seen.pend[e]].source # "auto"
    BY <1>2 DEF PendHeld, LabelsInv, TypeOK, MapsInto
  <2> QED BY <1>2, <2>1, HistoryKept DEF LabelsInv
<1>3. ~ReadLegs
  BY DEF ReadLegs, LabelsInv, TypeOK, Procs
<1> QED BY <1>1, <1>2, <1>3, WorkerMoves DEF LabelsInv

LEMMA SavesKept ==
  ASSUME LabelsInv, PendHeld, SavesHeld, [Next]_vars PROVE SavesHeld'
<1> SUFFICES ASSUME pc'[Worker] = "txn", NEW e \in DOMAIN want'[Worker]
             PROVE  want'[Worker][e].op = "save" /\ MayReplace(e, want[Worker][e].exp)'
  BY DEF SavesHeld
<1>1. CASE ReadLegs
  <2> DEFINE work == DOMAIN seen.pend \cup Rechecked
             kept(x, o) == /\ x \in Rechecked /\ o.fail = "no"
                           /\ o.row.label = ActiveRow(x).label
                           /\ o.row.method = ActiveRow(x).method
             fresh(out) == [x \in {y \in work : ~kept(y, out[y])} |->
                              [op |-> "save", fail |-> out[x].fail, row |-> out[x].row,
                               exp |-> IF x \in Rechecked THEN ActiveId(x) ELSE seen.pend[x]]]
  <2>1. PICK out : want' = [want EXCEPT ![Worker] = fresh(out)]
    BY <1>1 DEF ReadLegs
  <2>2. want'[Worker] = fresh(out)
    BY <2>1 DEF LabelsInv, TypeOK, Procs
  <2>3. /\ e \in work /\ want'[Worker][e].op = "save"
        /\ want'[Worker][e].exp = IF e \in Rechecked THEN ActiveId(e) ELSE seen.pend[e]
    BY <2>2
  <2>4. cls' = cls /\ txShape' = txShape /\ pc[Worker] = "legs"
    BY <1>1 DEF ReadLegs
  <2> HIDE DEF fresh
  <2>5. CASE e \in Rechecked
    <3>1. /\ e \in Events /\ LiveIds(cls[e]) # {}
          /\ cls[e][ActiveId(e)].shape # ShapeOf(e)
      BY <2>5 DEF Rechecked, IsLive, ActiveRow, LabelsInv, TypeOK
    <3>2. ActiveId(e) \in DOMAIN cls[e]
      BY <3>1 DEF ActiveId, LiveIds
    <3> QED BY <2>3, <2>4, <2>5, <3>1, <3>2 DEF MayReplace, ShapeOf
  <2>6. CASE e \notin Rechecked
    <3>1. e \in DOMAIN seen.pend /\ want'[Worker][e].exp = seen.pend[e]
      BY <2>3, <2>6
    <3> QED BY <2>3, <2>4, <3>1 DEF MayReplace, PendHeld
  <2> QED BY <2>5, <2>6
<1>2. CASE pc[Worker] = "txn" /\ want'[Worker] = want[Worker] /\ txShape' = txShape
  <2> DEFINE i == want[Worker][e].exp
  <2>1. e \in Events /\ want[Worker][e].op = "save" /\ MayReplace(e, i)
    BY <1>2 DEF SavesHeld, LabelsInv, TypeOK, MapsInto, Procs
  <2>2. MayReplace(e, want[Worker][e].exp)'
    <3>1. want'[Worker][e].exp = i
      BY <1>2
    <3>2. ASSUME i # 0
          PROVE  i \in DOMAIN cls'[e] /\ (cls'[e][i].source # "auto" \/ cls'[e][i].shape # ShapeOf(e)')
      <4>1. i \in DOMAIN cls[e] /\ (cls[e][i].source # "auto" \/ cls[e][i].shape # ShapeOf(e))
        BY <2>1, <3>2 DEF MayReplace
      <4>2. /\ i \in DOMAIN cls'[e] /\ cls'[e][i].source = cls[e][i].source
            /\ cls'[e][i].shape = cls[e][i].shape
        BY <1>2, <2>1, <4>1, HistoryKept DEF LabelsInv
      <4>3. ShapeOf(e)' = ShapeOf(e)
        BY <1>2 DEF ShapeOf
      <4> QED BY <4>1, <4>2, <4>3
    <3> QED BY <3>1, <3>2 DEF MayReplace
  <2> QED BY <1>2, <2>1, <2>2
<1>3. ~ReadPending
  BY DEF ReadPending, LabelsInv, TypeOK, Procs
<1> QED BY <1>1, <1>2, <1>3, WorkerMoves DEF LabelsInv

LEMMA StagedKept ==
  ASSUME LabelsInv, StagedHeld, [Next]_vars PROVE StagedHeld'
<1> SUFFICES ASSUME NEW p \in Procs, NEW e \in DOMAIN staged'[p]
             PROVE  AsAsked(want'[p][e], staged'[p][e])
  BY DEF StagedHeld
<1>1. CASE want'[p] = want[p] /\ staged'[p] = staged[p]
  BY <1>1 DEF StagedHeld
<1>2. CASE Lock(p)
  <2>1. PICK n \in NextToLock(p) :
          staged' = [staged EXCEPT ![p] =
              [x \in DOMAIN staged[p] \cup {n} |->
                 IF x = n THEN Decide(want[p][n], cls[n]) ELSE staged[p][x]]]
    BY <1>2 DEF Lock
  <2>2. /\ want' = want
        /\ staged'[p][e] = IF e = n THEN Decide(want[p][n], cls[n]) ELSE staged[p][e]
        /\ e = n \/ e \in DOMAIN staged[p]
    BY <1>2, <2>1 DEF Lock, LabelsInv, TypeOK
  <2>3. n \in DOMAIN want[p] /\ n \in Events /\ want[p][n] \in Request
    BY DEF NextToLock, Waiting, LabelsInv, TypeOK, MapsInto
  <2>4. want[p][n].op = "correct" => want[p][n].row.source = "user"
    BY <2>3 DEF LabelsInv, Locking, RequestsLive
  <2>5. AsAsked(want[p][n], Decide(want[p][n], cls[n]))
    <3>1. CASE want[p][n].op = "save"
      BY <3>1 DEF AsAsked, Decide, SaveDecision
    <3>2. CASE want[p][n].op = "relabel"
      BY <3>2 DEF AsAsked
    <3>3. CASE want[p][n].op = "correct"
      BY <2>4, <3>3 DEF AsAsked, Decide, CorrectDecision
    <3> QED BY <2>3, <3>1, <3>2, <3>3 DEF Request
  <2> QED BY <2>2, <2>5 DEF StagedHeld
<1>3. CASE DOMAIN staged'[p] = {}
  BY <1>3
<1> QED BY <1>1, <1>2, <1>3, LocksMove DEF LabelsInv

(* A question keeps its place, its party and its transfers, and is not opened again. *)
LEMMA QuestionsKept ==
  ASSUME TypeOK, [Next]_vars, NEW i \in DOMAIN proposals
  PROVE  /\ i \in DOMAIN proposals' /\ proposals'[i].events = proposals[i].events
         /\ proposals'[i].party = proposals[i].party
         /\ proposals'[i].status = "pending" => proposals'[i] = proposals[i]
<1> DEFINE Kept == /\ i \in DOMAIN proposals' /\ proposals'[i].events = proposals[i].events
                   /\ proposals'[i].party = proposals[i].party
                   /\ proposals'[i].status = "pending" => proposals'[i] = proposals[i]
<1>1. proposals \in Seq(Proposal) /\ proposals[i] \in Proposal /\ i \in 1 .. Len(proposals)
  BY DEF TypeOK
<1>2. CASE proposals' = proposals
  BY <1>2
<1>3. ASSUME NEW to \in {"accepted", "declined", "expired"}, NEW j \in DOMAIN proposals,
             proposals' = [proposals EXCEPT ![j].status = to]
      PROVE  Kept
  <2>1. CASE i = j
    <3>1. proposals'[i] = [proposals[i] EXCEPT !.status = to] /\ i \in DOMAIN proposals'
      BY <1>1, <1>3, <2>1
    <3> QED BY <1>1, <1>3, <3>1 DEF Proposal
  <2>2. CASE i # j
    BY <1>1, <1>3, <2>2
  <2> QED BY <2>1, <2>2
<1>4. ASSUME NEW s \in Sessions, SupersedeProposals(s) PROVE Kept
  <2>1. /\ i \in DOMAIN proposals'
        /\ proposals'[i] = IF Replaces(s, i) THEN [proposals[i] EXCEPT !.status = "superseded"]
                                             ELSE proposals[i]
    BY <1>1, <1>4 DEF SupersedeProposals
  <2> QED BY <1>1, <2>1 DEF Proposal
<1>5. ASSUME NEW s \in Sessions, AskProposal(s) PROVE Kept
  <2>1. \E q : proposals' = Append(proposals, q)
    BY <1>5 DEF AskProposal
  <2> QED BY <1>1, <2>1
<1>6. ASSUME NEW s \in Sessions, NEW j \in DOMAIN proposals, NEW accept \in BOOLEAN,
             ClaimProposal(s, j, accept)
      PROVE  Kept
  BY <1>3, <1>6 DEF ClaimProposal
<1>7. ASSUME NEW j \in DOMAIN proposals, Expire(j) PROVE Kept
  BY <1>3, <1>7 DEF Expire
<1>8. ASSUME NEW s \in Sessions, Correcting(s) PROVE Kept
  BY <1>2, <1>4, <1>5, <1>8
     DEF Correcting, ReadForCorrection, SaveCorrection, ChangeRule, ReadCovered
<1>9. ASSUME NEW s \in Sessions, Answering(s) PROVE Kept
  BY <1>2, <1>6, <1>9 DEF Answering, ApplyProposal, SaveRelabels
<1>10. ASSUME NEW e \in Events, Arrive(e) PROVE Kept
  BY <1>2, <1>10 DEF Arrive
<1>11. ASSUME NEW t \in Txs, ArriveUntracked(t) PROVE Kept
  BY <1>2, <1>11 DEF ArriveUntracked
<1>12. ASSUME Classifier \/ UNCHANGED vars PROVE Kept
  BY <1>2, <1>12 DEF Classifier, ReadPending, ReadLegs, SaveLabels, SetShapes, IdlePass, vars
<1>13. ASSUME NEW p \in Procs, Lock(p) \/ Fail(p) PROVE Kept
  BY <1>2, <1>13 DEF Lock, Fail, Released
<1> QED BY <1>7, <1>8, <1>9, <1>10, <1>11, <1>12, <1>13 DEF Next

(* A session's requests are those it opened its transaction with. *)
LEMMA SessionMoves ==
  ASSUME TypeOK, Locals, [Next]_vars, NEW s \in Sessions
  PROVE  \/ DOMAIN want'[s] = {}
         \/ want'[s] = want[s] /\ task'[s].prop = task[s].prop
         \/ \E e \in Events, l \in Answers : ReadForCorrection(s, e, l)
         \/ ApplyProposal(s)
<1> DEFINE Moves == \/ DOMAIN want'[s] = {}
                    \/ want'[s] = want[s] /\ task'[s].prop = task[s].prop
                    \/ \E e \in Events, l \in Answers : ReadForCorrection(s, e, l)
                    \/ ApplyProposal(s)
<1>1. s \in Procs /\ Worker \in Procs /\ s # Worker
  BY ProcsAssumption DEF Procs
<1>2. CASE want' = want /\ task' = task
  BY <1>2
<1>3. ASSUME NEW p \in Procs, CommitLabels(p), task' = task \/ task' = [task EXCEPT ![p] = NoTask]
      PROVE  Moves
  <2>1. CASE p = s
    BY <1>1, <1>3, <2>1 DEF CommitLabels, TypeOK, Empty
  <2>2. CASE p # s
    BY <1>1, <1>3, <2>2 DEF CommitLabels, TypeOK
  <2> QED BY <2>1, <2>2
<1>4. ASSUME NEW p \in Procs, Fail(p) PROVE Moves
  <2>1. CASE p = s
    BY <1>1, <1>4, <2>1 DEF Fail, Released, TypeOK, Empty
  <2>2. CASE p # s
    BY <1>1, <1>4, <2>2 DEF Fail, Released, TypeOK
  <2> QED BY <2>1, <2>2
<1>5. ASSUME NEW u \in Sessions, want' = want, pc[u] # "txn",
             \A v \in Sessions : v # u => task'[v] = task[v]
      PROVE  Moves
  <2>1. CASE u = s
    BY <1>1, <1>5, <2>1 DEF Locals
  <2>2. CASE u # s
    BY <1>5, <2>2
  <2> QED BY <2>1, <2>2
<1>6. ASSUME NEW u \in Sessions, u # s, \E f : want' = [want EXCEPT ![u] = f],
             \A v \in Sessions : v # u => task'[v] = task[v]
      PROVE  Moves
  BY <1>1, <1>6 DEF TypeOK
<1>7. ASSUME NEW u \in Sessions, Correcting(u) PROVE Moves
  <2>1. ASSUME NEW e \in Events, NEW l \in Answers, ReadForCorrection(u, e, l) PROVE Moves
    <3>1. CASE u = s
      BY <2>1, <3>1
    <3>2. CASE u # s
      <4>1. \E f : want' = [want EXCEPT ![u] = f]
        BY <2>1 DEF ReadForCorrection
      <4>2. \A v \in Sessions : v # u => task'[v] = task[v]
        BY <2>1 DEF ReadForCorrection, TypeOK
      <4> QED BY <1>6, <3>2, <4>1, <4>2
    <3> QED BY <3>1, <3>2
  <2>2. CASE SaveCorrection(u)
    BY <1>3, <2>2 DEF SaveCorrection, Procs
  <2>3. CASE ChangeRule(u)
    BY <1>2, <2>3 DEF ChangeRule
  <2>4. CASE ReadCovered(u)
    BY <1>5, <2>4 DEF ReadCovered, TypeOK
  <2>5. CASE SupersedeProposals(u)
    BY <1>5, <2>5 DEF SupersedeProposals, TypeOK
  <2>6. CASE AskProposal(u)
    BY <1>5, <2>6 DEF AskProposal, TypeOK
  <2> QED BY <1>7, <2>1, <2>2, <2>3, <2>4, <2>5, <2>6 DEF Correcting
<1>8. ASSUME NEW u \in Sessions, Answering(u) PROVE Moves
  <2>1. ASSUME NEW i \in DOMAIN proposals, NEW accept \in BOOLEAN, ClaimProposal(u, i, accept)
        PROVE  Moves
    BY <1>5, <2>1 DEF ClaimProposal, TypeOK
  <2>2. CASE ApplyProposal(u)
    <3>1. CASE u = s
      BY <2>2, <3>1
    <3>2. CASE u # s
      <4>1. (\E f : want' = [want EXCEPT ![u] = f]) /\ task' = task
        BY <2>2 DEF ApplyProposal
      <4> QED BY <1>6, <3>2, <4>1
    <3> QED BY <3>1, <3>2
  <2>3. CASE SaveRelabels(u)
    BY <1>3, <2>3 DEF SaveRelabels, Procs
  <2> QED BY <1>8, <2>1, <2>2, <2>3 DEF Answering
<1>9. CASE Classifier
  <2>1. CASE ReadLegs
    <3>1. (\E f : want' = [want EXCEPT ![Worker] = f]) /\ task' = task
      BY <2>1 DEF ReadLegs
    <3> QED BY <1>1, <3>1 DEF TypeOK
  <2>2. CASE SaveLabels
    BY <1>1, <1>3, <2>2 DEF SaveLabels
  <2>3. CASE ReadPending \/ SetShapes \/ IdlePass
    BY <1>2, <2>3 DEF ReadPending, SetShapes, IdlePass, vars
  <2> QED BY <1>9, <2>1, <2>2, <2>3 DEF Classifier
<1>10. ASSUME NEW e \in Events, Arrive(e) PROVE Moves
  BY <1>2, <1>10 DEF Arrive
<1>11. ASSUME NEW t \in Txs, ArriveUntracked(t) PROVE Moves
  BY <1>2, <1>11 DEF ArriveUntracked
<1>12. ASSUME NEW p \in Procs, Lock(p) PROVE Moves
  BY <1>2, <1>12 DEF Lock
<1>13. ASSUME NEW i \in DOMAIN proposals, Expire(i) PROVE Moves
  BY <1>2, <1>13 DEF Expire
<1>14. CASE UNCHANGED vars
  BY <1>2, <1>14 DEF vars
<1> QED BY <1>4, <1>7, <1>8, <1>9, <1>10, <1>11, <1>12, <1>13, <1>14 DEF Next

LEMMA SessionsKept ==
  ASSUME LabelsInv, SessionsHeld, [Next]_vars PROVE SessionsHeld'
<1> SUFFICES ASSUME NEW s \in Sessions, NEW e \in DOMAIN want'[s] PROVE Entitled(s, e)'
  BY DEF SessionsHeld
<1>0. TypeOK /\ Locals /\ s \in Procs
  BY DEF LabelsInv, Procs
<1>1. CASE want'[s] = want[s] /\ task'[s].prop = task[s].prop
  <2>1. Entitled(s, e)
    BY <1>1 DEF SessionsHeld
  <2>2. task[s].prop # 0 => task[s].prop \in DOMAIN proposals
    BY <1>0 DEF Locals, SessionState
  <2> QED BY <1>0, <1>1, <2>1, <2>2, QuestionsKept DEF Entitled
<1>2. ASSUME NEW x \in Events, NEW l \in Answers, ReadForCorrection(s, x, l)
      PROVE  Entitled(s, e)'
  <2> DEFINE row == NewRow(l, "user", "counterparty", FALSE, "none")
  <2>1. /\ want'[s] = [y \in {x} |-> [op |-> "correct", exp |-> 0, fail |-> "no", row |-> row]]
        /\ task'[s].prop = 0
    BY <1>0, <1>2 DEF ReadForCorrection, TypeOK
  <2> HIDE DEF row
  <2>2. want'[s][e].op = "correct"
    BY <2>1
  <2> QED BY <2>1, <2>2 DEF Entitled
<1>3. CASE ApplyProposal(s)
  <2>1. /\ DOMAIN want'[s] = StillQualify(proposals[task[s].prop])
        /\ task' = task /\ proposals' = proposals
    BY <1>0, <1>3 DEF ApplyProposal, TypeOK
  <2>2. e \in proposals[task[s].prop].events
    BY <2>1 DEF StillQualify
  <2>3. task[s].prop # 0
    BY <1>0, <1>3 DEF ApplyProposal, Locals, SessionState
  <2> QED BY <2>1, <2>2, <2>3 DEF Entitled
<1> QED BY <1>0, <1>1, <1>2, <1>3, SessionMoves

(* One step: the label of a transfer that fitted its transaction is as before, *)
(* or the operator's, or what an accepted question said.                       *)
LEMMA FittingLabelKept ==
  ASSUME LabelsInv, YesInv, [Next]_vars, NEW e \in Events,
         FitsItsShape(e), IsLive(cls'[e], "auto")
  PROVE  \/ ActiveRow(e)'.label = ActiveRow(e).label
         \/ \E i \in DOMAIN proposals :
              proposals[i].status = "accepted" /\ e \in proposals[i].events
<1> DEFINE n == Len(cls[e])
<1>1. /\ TypeOK /\ Locals /\ Locking
      /\ cls[e] \in Seq(Row) /\ NewestLive(cls[e])
  BY DEF LabelsInv, TypeOK, Locking, OneActiveRow, NewestLive
<1>2. /\ n \in 1 .. Len(cls[e]) /\ LiveIds(cls[e]) = {n} /\ ActiveId(e) = n
      /\ cls[e][n].source = "auto" /\ cls[e][n].shape = ShapeOf(e)
  <2>1. cls[e] # <<>> /\ LiveIds(cls[e]) = {n}
    BY <1>1 DEF FitsItsShape, IsLive, NewestLive
  <2>2. ActiveId(e) = n
    BY <2>1 DEF ActiveId
  <2> QED BY <1>1, <2>1, <2>2 DEF FitsItsShape, IsLive, ActiveRow
<1>3. ASSUME LiveIds(cls'[e]) = {n}, cls'[e][n].label = cls[e][n].label
      PROVE  ActiveRow(e)'.label = ActiveRow(e).label
  <2>1. ActiveId(e)' = n
    BY <1>3 DEF ActiveId
  <2> QED BY <1>2, <1>3, <2>1 DEF ActiveRow
<1>4. CASE cls' = cls
  BY <1>2, <1>3, <1>4
<1>5. CASE SetShapes
  BY <1>1, <1>2, <1>3, <1>5, SetShapesLive
<1>6. ASSUME NEW p \in Procs, CommitLabels(p)
      PROVE  \/ ActiveRow(e)'.label = ActiveRow(e).label
             \/ \E i \in DOMAIN proposals :
                  proposals[i].status = "accepted" /\ e \in proposals[i].events
  <2> DEFINE d == staged[p][e]
             rq == want[p][e]
             new == Publish(cls[e], d)
  <2>1. cls'[e] = IF e \in DOMAIN staged[p] THEN new ELSE cls[e]
    BY <1>6 DEF CommitLabels, Released
  <2>2. CASE e \notin DOMAIN staged[p]
    BY <1>2, <1>3, <2>1, <2>2
  <2>3. CASE e \in DOMAIN staged[p]
    <3>1. /\ e \in DOMAIN want[p] /\ rq \in Request /\ d \in Decision /\ AsAsked(rq, d)
          /\ d.ids = LiveIds(cls[e]) /\ (d.kind = "write" => d.row.live)
      BY <1>1, <2>3 DEF TypeOK, MapsInto, Locking, DecisionsStayTrue, YesInv, StagedHeld
    <3>2. /\ new \in Seq(Row) /\ NewestLive(new) /\ new[n].label = cls[e][n].label
          /\ \/ d.kind # "write" /\ Len(new) = n
             \/ d.kind = "write" /\ Len(new) = n + 1 /\ new[n + 1] = d.row
      BY <1>1, <1>2, <3>1, PublishType, PublishNewest
    <3>3. cls'[e] = new
      BY <2>1, <2>3
    <3> HIDE DEF new
    <3>4. CASE d.kind # "write"
      <4>1. LiveIds(new) = {n}
        BY <1>2, <3>2, <3>4 DEF NewestLive
      <4> QED BY <1>3, <3>2, <3>3, <4>1
    <3>5. CASE d.kind = "write"
      <4>1. d.row.source = "auto"
        <5>1. LiveIds(new) = {n + 1} /\ new[n + 1] = d.row
          BY <1>2, <3>2, <3>5 DEF NewestLive
        <5> QED BY <3>3, <5>1 DEF IsLive
      <4>2. CASE p = Worker
        <5>1. rq.op = "save" /\ MayReplace(e, rq.exp)
          BY <1>6, <3>1, <4>2 DEF YesInv, SavesHeld, CommitLabels
        <5>2. rq.exp = n
          BY <1>2, <3>1, <3>5, <5>1 DEF AsAsked
        <5> QED BY <1>2, <5>1, <5>2 DEF MayReplace
      <4>3. CASE p \in Sessions
        <5>1. Entitled(p, e)
          BY <3>1, <4>3 DEF YesInv, SessionsHeld
        <5>2. task[p].prop # 0
          BY <3>1, <3>5, <4>1, <5>1 DEF Entitled, AsAsked
        <5>3. /\ task[p].prop \in DOMAIN proposals
              /\ proposals[task[p].prop].status = "accepted"
          BY <1>1, <4>3, <5>2 DEF Locals, SessionState
        <5> QED BY <5>1, <5>2, <5>3 DEF Entitled
      <4> QED BY <4>2, <4>3 DEF Procs
    <3> QED BY <3>4, <3>5
  <2> QED BY <2>2, <2>3
<1> QED BY <1>1, <1>4, <1>5, <1>6, HistoriesMove

(* An automated label that fits its transaction changes only because the      *)
(* operator labeled the transfer or said yes to a question that listed it, for *)
(* any number of sessions answering and correcting while the classifier is at  *)
(* work on what it read before.                                               *)
THEOREM EarlierLabelsNeedAYes == Spec => EarlierLabelsNeedYes
<1>1. Init => YesInv
  <2> SUFFICES ASSUME Init PROVE YesInv
    OBVIOUS
  <2>1. \A p \in Procs : pc[p] = "idle" /\ DOMAIN want[p] = {} /\ DOMAIN staged[p] = {}
    BY DEF Init, Empty
  <2> QED BY <2>1 DEF YesInv, PendHeld, SavesHeld, SessionsHeld, StagedHeld, Procs
<1>2. LabelsInv /\ YesInv /\ [Next]_vars => YesInv'
  BY PendKept, SavesKept, SessionsKept, StagedKept DEF YesInv
<1>3. LabelsInv /\ YesInv /\ [Next]_vars =>
        [\A e \in Events : FitsItsShape(e) /\ IsLive(cls'[e], "auto") =>
           \/ ActiveRow(e)'.label = ActiveRow(e).label
           \/ \E i \in DOMAIN proposals :
                proposals[i].status = "accepted" /\ e \in proposals[i].events]_vars
  BY FittingLabelKept
<1> QED BY <1>1, <1>2, <1>3, LabelsInvariant, PTL DEF Spec, EarlierLabelsNeedYes

-----------------------------------------------------------------------------
(* One question at a time.                                                    *)

(* A session about to ask has put aside what was open for the same party. *)
AskHeld ==
  \A s \in Sessions : pc[s] = "ask" => \A i \in DOMAIN proposals : ~Replaces(s, i)

(* Only superseding leads a session to ask, and asking is all it does then. *)
LEMMA AskMoves ==
  ASSUME TypeOK, [Next]_vars, NEW s \in Sessions, pc'[s] = "ask"
  PROVE  SupersedeProposals(s) \/ (pc[s] = "ask" /\ task'[s] = task[s])
<1> DEFINE Moves == SupersedeProposals(s) \/ (pc[s] = "ask" /\ task'[s] = task[s])
<1>1. s \in Procs /\ Worker \in Procs /\ s # Worker
  BY ProcsAssumption DEF Procs
<1>2. ASSUME NEW u \in Sessions, u # s, task' = task \/ (\E t : task' = [task EXCEPT ![u] = t]),
             pc' = pc \/ (\E to : pc' = [pc EXCEPT ![u] = to])
      PROVE  Moves
  BY <1>1, <1>2 DEF TypeOK
<1>3. ASSUME NEW p \in Procs, NEW to \in PCs \ {"ask"}, pc' = [pc EXCEPT ![p] = to],
             p = s \/ task'[s] = task[s]
      PROVE  Moves
  BY <1>1, <1>3 DEF TypeOK
<1>4. CASE pc' = pc /\ task' = task
  BY <1>4
<1>5. ASSUME NEW p \in Procs, Fail(p) PROVE Moves
  BY <1>3, <1>5 DEF Fail, Released, PCs
<1>6. ASSUME NEW u \in Sessions, Correcting(u) PROVE Moves
  <2>1. ASSUME NEW e \in Events, NEW l \in Answers, ReadForCorrection(u, e, l) PROVE Moves
    <3>1. pc' = [pc EXCEPT ![u] = "txn"] /\ (u = s \/ task'[s] = task[s])
      BY <2>1 DEF ReadForCorrection, TypeOK
    <3> QED BY <1>3, <3>1 DEF PCs, Procs
  <2>2. CASE SaveCorrection(u)
    <3>1. PICK to \in {"rule", "supersede"} : pc' = [pc EXCEPT ![u] = to]
      <4>1. task[u].plan \in Plans
        BY DEF TypeOK, Task
      <4> QED BY <2>2, <4>1 DEF SaveCorrection, Plans
    <3>2. task' = task
      BY <2>2 DEF SaveCorrection
    <3> QED BY <1>3, <3>1, <3>2 DEF PCs, Procs
  <2>3. CASE ChangeRule(u)
    BY <1>3, <2>3 DEF ChangeRule, PCs, Procs
  <2>4. CASE ReadCovered(u)
    <3>1. pc' = [pc EXCEPT ![u] = "supersede"] /\ (u = s \/ task'[s] = task[s])
      BY <2>4 DEF ReadCovered, TypeOK
    <3> QED BY <1>3, <3>1 DEF PCs, Procs
  <2>5. CASE SupersedeProposals(u)
    <3>1. CASE u = s
      BY <2>5, <3>1
    <3>2. CASE u # s
      BY <1>2, <2>5, <3>2 DEF SupersedeProposals
    <3> QED BY <3>1, <3>2
  <2>6. CASE AskProposal(u)
    <3>1. pc' = [pc EXCEPT ![u] = "idle"] /\ (u = s \/ task'[s] = task[s])
      BY <2>6 DEF AskProposal, TypeOK
    <3> QED BY <1>3, <3>1 DEF PCs, Procs
  <2> QED BY <1>6, <2>1, <2>2, <2>3, <2>4, <2>5, <2>6 DEF Correcting
<1>7. ASSUME NEW u \in Sessions, Answering(u) PROVE Moves
  <2>1. ASSUME NEW i \in DOMAIN proposals, NEW accept \in BOOLEAN, ClaimProposal(u, i, accept)
        PROVE  Moves
    <3>1. CASE ~accept
      BY <1>4, <2>1, <3>1 DEF ClaimProposal
    <3>2. CASE accept
      <4>1. pc' = [pc EXCEPT ![u] = "claimed"] /\ (u = s \/ task'[s] = task[s])
        BY <2>1, <3>2 DEF ClaimProposal, TypeOK
      <4> QED BY <1>3, <4>1 DEF PCs, Procs
    <3> QED BY <3>1, <3>2
  <2>2. CASE ApplyProposal(u)
    BY <1>3, <2>2 DEF ApplyProposal, PCs, Procs
  <2>3. CASE SaveRelabels(u)
    <3>1. pc' = [pc EXCEPT ![u] = "idle"] /\ (u = s \/ task'[s] = task[s])
      BY <2>3 DEF SaveRelabels, TypeOK
    <3> QED BY <1>3, <3>1 DEF PCs, Procs
  <2> QED BY <1>7, <2>1, <2>2, <2>3 DEF Answering
<1>8. CASE Classifier
  <2>1. task' = task /\ (pc' = pc \/ \E to \in PCs \ {"ask"} : pc' = [pc EXCEPT ![Worker] = to])
    BY <1>8 DEF Classifier, ReadPending, ReadLegs, SaveLabels, SetShapes, IdlePass, vars, PCs
  <2> QED BY <1>1, <1>3, <1>4, <2>1
<1>9. ASSUME NEW e \in Events, Arrive(e) PROVE Moves
  BY <1>4, <1>9 DEF Arrive
<1>10. ASSUME NEW t \in Txs, ArriveUntracked(t) PROVE Moves
  BY <1>4, <1>10 DEF ArriveUntracked
<1>11. ASSUME NEW p \in Procs, Lock(p) PROVE Moves
  BY <1>4, <1>11 DEF Lock
<1>12. ASSUME NEW i \in DOMAIN proposals, Expire(i) PROVE Moves
  BY <1>4, <1>12 DEF Expire
<1>13. CASE UNCHANGED vars
  BY <1>4, <1>13 DEF vars
<1> QED BY <1>5, <1>6, <1>7, <1>8, <1>9, <1>10, <1>11, <1>12, <1>13 DEF Next

(* Only asking adds a question. *)
LEMMA QuestionsAsked ==
  ASSUME TypeOK, [Next]_vars, NEW i \in DOMAIN proposals', i \notin DOMAIN proposals
  PROVE  \E s \in Sessions : AskProposal(s)
<1>1. proposals' # proposals
  OBVIOUS
<1>2. ASSUME NEW s \in Sessions, SupersedeProposals(s) PROVE FALSE
  BY <1>2 DEF SupersedeProposals
<1>3. ASSUME NEW s \in Sessions, NEW j \in DOMAIN proposals, NEW accept \in BOOLEAN,
             ClaimProposal(s, j, accept)
      PROVE  FALSE
  BY <1>3 DEF ClaimProposal, TypeOK
<1>4. ASSUME NEW j \in DOMAIN proposals, Expire(j) PROVE FALSE
  BY <1>4 DEF Expire, TypeOK
<1>5. ASSUME NEW s \in Sessions, Correcting(s) PROVE AskProposal(s)
  BY <1>1, <1>2, <1>5
     DEF Correcting, ReadForCorrection, SaveCorrection, ChangeRule, ReadCovered
<1>6. ASSUME NEW s \in Sessions, Answering(s) PROVE FALSE
  BY <1>1, <1>3, <1>6 DEF Answering, ApplyProposal, SaveRelabels
<1>7. ~\E e \in Events : Arrive(e)
  BY <1>1 DEF Arrive
<1>8. ~\E t \in Txs : ArriveUntracked(t)
  BY <1>1 DEF ArriveUntracked
<1>9. ~(Classifier \/ UNCHANGED vars)
  BY <1>1 DEF Classifier, ReadPending, ReadLegs, SaveLabels, SetShapes, IdlePass, vars
<1>10. ~\E p \in Procs : Lock(p) \/ Fail(p)
  BY <1>1 DEF Lock, Fail, Released
<1> QED BY <1>4, <1>5, <1>6, <1>7, <1>8, <1>9, <1>10 DEF Next

(* As long as the operator's messages are handled one at a time, there is one *)
(* open question for each address and direction, whatever is corrected,        *)
(* answered, expires or fails.  Two sessions at work on the same party could    *)
(* each put aside what is open and then both ask.                              *)
THEOREM OneOpenQuestionAtATime ==
  ASSUME \A s, t \in Sessions : s = t
  PROVE  Spec => []OneOpenQuestion
<1>1. Init => AskHeld /\ OneOpenQuestion
  BY DEF Init, AskHeld, OneOpenQuestion, Procs
<1>2. LabelsInv /\ AskHeld /\ [Next]_vars => AskHeld'
  <2> SUFFICES ASSUME LabelsInv, AskHeld, [Next]_vars, NEW s \in Sessions, pc'[s] = "ask",
                      NEW i \in DOMAIN proposals', Replaces(s, i)'
               PROVE  FALSE
    BY DEF AskHeld
  <2>1. proposals'[i].status = "pending" /\ proposals'[i].party = PartyOf(task'[s].event)
    BY DEF Replaces, PartyOf
  <2>2. CASE SupersedeProposals(s)
    <3>1. proposals \in Seq(Proposal) /\ task[s].cover # {} /\ task' = task
      BY <2>2, ProcsAssumption DEF SupersedeProposals, LabelsInv, TypeOK, Procs
    <3>2. /\ i \in DOMAIN proposals /\ proposals[i] \in Proposal
          /\ proposals'[i] = IF Replaces(s, i) THEN [proposals[i] EXCEPT !.status = "superseded"]
                                               ELSE proposals[i]
      BY <2>2, <3>1 DEF SupersedeProposals
    <3>3. ~Replaces(s, i)
      BY <2>1, <3>2 DEF Proposal
    <3> QED BY <2>1, <3>1, <3>2, <3>3 DEF Replaces
  <2>3. CASE pc[s] = "ask" /\ task'[s] = task[s]
    <3>1. CASE i \in DOMAIN proposals
      <4>1. proposals'[i] = proposals[i]
        BY <2>1, <3>1, QuestionsKept DEF LabelsInv
      <4> QED BY <2>1, <2>3, <3>1, <4>1 DEF AskHeld, Replaces
    <3>2. CASE i \notin DOMAIN proposals
      <4>1. PICK t \in Sessions : AskProposal(t)
        BY <3>2, QuestionsAsked DEF LabelsInv
      <4>2. t = s
        OBVIOUS
      <4> QED BY <4>1, <4>2 DEF AskProposal, LabelsInv, TypeOK, Procs
    <3> QED BY <3>1, <3>2
  <2> QED BY <2>2, <2>3, AskMoves DEF LabelsInv
<1>3. LabelsInv /\ AskHeld /\ OneOpenQuestion /\ [Next]_vars => OneOpenQuestion'
  <2> SUFFICES ASSUME LabelsInv, AskHeld, OneOpenQuestion, [Next]_vars
               PROVE  OneOpenQuestion'
    OBVIOUS
  <2> DEFINE Open(i) == i \in DOMAIN proposals' /\ proposals'[i].status = "pending"
  <2>1. ASSUME NEW i, Open(i), i \in DOMAIN proposals PROVE proposals'[i] = proposals[i]
    BY <2>1, QuestionsKept DEF LabelsInv
  <2>2. ASSUME NEW i, Open(i), i \notin DOMAIN proposals
        PROVE  /\ i = Len(proposals) + 1
               /\ \A j \in DOMAIN proposals : Open(j) => proposals'[j].party # proposals'[i].party
    <3>1. PICK s \in Sessions : AskProposal(s)
      BY <2>2, QuestionsAsked DEF LabelsInv
    <3> DEFINE q == [kind |-> IF task[s].plan = "learn" THEN "apply_rule" ELSE "send_back",
                     party |-> PartyOf(task[s].event),
                     label |-> IF task[s].plan = "learn" THEN task[s].label ELSE task[s].was,
                     source |-> task[s].event, events |-> task[s].cover, status |-> "pending"]
    <3>2. proposals' = Append(proposals, q) /\ proposals \in Seq(Proposal) /\ pc[s] = "ask"
      BY <3>1 DEF AskProposal, LabelsInv, TypeOK
    <3>3. q.party = PartyOf(task[s].event)
      OBVIOUS
    <3> HIDE DEF q
    <3>4. i = Len(proposals) + 1 /\ proposals'[i] = q
      BY <2>2, <3>2
    <3>5. ASSUME NEW j \in DOMAIN proposals, Open(j) PROVE proposals'[j].party # q.party
      BY <2>1, <3>2, <3>3, <3>5 DEF AskHeld, Replaces
    <3> QED BY <3>4, <3>5
  <2>3. ASSUME NEW i, NEW j, Open(i), Open(j), proposals'[i].party = proposals'[j].party
        PROVE  i = j
    <3>1. CASE i \in DOMAIN proposals /\ j \in DOMAIN proposals
      BY <2>1, <2>3, <3>1 DEF OneOpenQuestion
    <3>2. CASE i \notin DOMAIN proposals \/ j \notin DOMAIN proposals
      BY <2>2, <2>3, <3>2
    <3> QED BY <3>1, <3>2
  <2> HIDE DEF Open
  <2>4. \A i \in DOMAIN proposals' : proposals'[i].status = "pending" => Open(i)
    BY DEF Open
  <2> QED BY <2>3, <2>4 DEF OneOpenQuestion
<1> QED BY <1>1, <1>2, <1>3, LabelsInvariant, PTL DEF Spec
=============================================================================
