------------------------------ MODULE Questions ------------------------------
(***************************************************************************)
(* What Luca asks an operator about: transfers it could not place, grouped by *)
(* address, direction and token.  Three actors share question_groups: the     *)
(* worker's cycle (refreshing the groups, alerts that ask), the morning        *)
(* message, which runs on a timer of its own, and answers in chat.            *)
(***************************************************************************)
EXTENDS Integers, FiniteSets, Functions, Sequences

CONSTANTS
  Groups,          \* an address, direction and token
  AddressOf,       \* the address and direction alone
  Worth,           \* USD of one transfer of the group
  PingMin,         \* PING_MIN_USD
  PingsPerDay,     \* MAX_PINGS_PER_DAY
  WeeklyList,      \* the Monday reminder's limit
  ReaskDays,       \* REASK_AFTER_DAYS
  DaysInWeek,
  Large,           \* groups whose transfers are large enough for an alert
  MaxDay, MaxUnknown, MaxArrivals, MaxCrashes  \* bounds

ASSUME QuestionAssumption ==
  /\ Worth \in [Groups -> Nat] /\ Large \subseteq Groups
  /\ DOMAIN AddressOf = Groups
  /\ {PingMin, PingsPerDay, WeeklyList, ReaskDays, MaxDay, MaxUnknown, MaxArrivals, MaxCrashes}
       \subseteq Nat
  /\ DaysInWeek \in Nat \ {0}

VARIABLES
  day,
  unknown,   \* the group's transfers labeled unknown, in the books
  rows,      \* question_groups
  worker,    \* the step of the cycle, and what it has read
  alerting,  \* large unknown transfers no alert was written for
  brief,     \* deliverIfDue: its step, its list and the marks left to make
  chat,      \* labelQuestionGroup under way
  said,      \* when an open group was last asked, or skipped, since its last answer,
             \* and whether more transfers came than it counted
  spent      \* arrivals and crashes so far (bounds)

vars == <<day, unknown, rows, worker, alerting, brief, chat, said, spent>>

Never == -1
(* resolved_at is read of skipped groups only, and kept for those. *)
Row == [status: {"none", "open", "labeled", "skipped"}, count: Nat,
        sent: Nat \cup {Never}, asked: Nat \cup {Never}, item: Nat, resolved: Nat]
NoRow == [status |-> "none", count |-> 0, sent |-> Never, asked |-> Never, item |-> 0, resolved |-> 0]
NotSaid == [day |-> Never, more |-> FALSE]
Idle == [pc |-> "idle", stats |-> [g \in Groups |-> 0], marking |-> {}]
Waiting == [pc |-> "idle", list |-> <<>>, marked |-> 0, sent |-> 0]

Monday == day % DaysInWeek = 0
Total(g) == rows[g].count * Worth[g]

(* DOUBLED, of a row. *)
Doubled(row) == row.asked > 0 /\ row.count >= 2 * row.asked

-----------------------------------------------------------------------------
(* refreshQuestionGroups: the sums are read, then one transaction writes them. *)
ReadStats ==
  /\ worker.pc = "idle"
  /\ worker' = [worker EXCEPT !.pc = "write", !.stats = unknown]
  /\ UNCHANGED <<day, unknown, rows, alerting, brief, chat, said, spent>>

Counted(row, n) ==
  [row EXCEPT !.count = n, !.status = IF @ = "none" /\ n > 0 THEN "open" ELSE @]
(* A bug: closing is left to answers. *)
SettledByAnswer(row) ==
  IF row.status = "labeled" /\ row.count > 0
  THEN [row EXCEPT !.status = "open", !.sent = Never, !.asked = Never]
  ELSE IF row.status = "skipped" /\ row.count > 0 /\ (row.resolved <= day - ReaskDays \/ Doubled(row))
  THEN [row EXCEPT !.status = "open", !.sent = Never, !.resolved = 0]
  ELSE row
(* A bug: a skipped group is open again at the next refresh. *)
SettledSkips(row) ==
  IF row.status = "open" /\ row.count = 0
  THEN [row EXCEPT !.status = "labeled"]
  ELSE IF row.status \in {"labeled", "skipped"} /\ row.count > 0
  THEN [row EXCEPT !.status = "open", !.sent = Never, !.asked = Never]
  ELSE row
Settled(row) ==
  IF row.status = "open" /\ row.count = 0
  THEN [row EXCEPT !.status = "labeled"]
  ELSE IF row.status = "labeled" /\ row.count > 0
  THEN [row EXCEPT !.status = "open", !.sent = Never, !.asked = Never]
  ELSE IF row.status = "skipped" /\ row.count > 0 /\ (row.resolved <= day - ReaskDays \/ Doubled(row))
  THEN [row EXCEPT !.status = "open", !.sent = Never, !.resolved = 0]
  ELSE row
WriteGroups ==
  /\ worker.pc = "write"
  /\ rows' = [g \in Groups |-> Settled(Counted(rows[g], worker.stats[g]))]
  /\ worker' = [Idle EXCEPT !.pc = "alert"]
  /\ UNCHANGED <<day, unknown, alerting, brief, chat, said, spent>>

(* detectLargeMovements: an alert of a transfer not placed yet asks, and its  *)
(* address's groups count as asked.                                        *)
Tell(S) ==
  LET seen(g) == IF worker.pc = "write" THEN {unknown[g], worker.stats[g]} ELSE {unknown[g]}
      now(g) == [day |-> day, more |-> \E n \in seen(g) : n > rows[g].count]
  IN said' = [g \in Groups |->
       IF g \in S /\ unknown[g] > 0 /\ rows[g].status = "open" THEN now(g) ELSE said[g]]
AlertAsks(g) ==
  /\ worker.pc = "alert" /\ g \in alerting
  /\ alerting' = alerting \ {g}
  /\ IF unknown[g] > 0 THEN Tell({g}) /\ worker' = [worker EXCEPT !.pc = "mark", !.marking = {g}]
     ELSE UNCHANGED <<said, worker>>
  /\ UNCHANGED <<day, unknown, rows, brief, chat, spent>>
MarkAskedByAlert ==
  /\ worker.pc = "mark"
  /\ rows' = [g \in Groups |->
       IF (\E h \in worker.marking : AddressOf[g] = AddressOf[h]) /\ rows[g].status = "open" /\ rows[g].count > 0
       THEN [rows[g] EXCEPT !.sent = day, !.asked = rows[g].count, !.item = 0] ELSE rows[g]]
  /\ worker' = [Idle EXCEPT !.pc = "alert"]
  /\ UNCHANGED <<day, unknown, alerting, brief, chat, said, spent>>
EndCycle ==
  /\ worker.pc = "alert" /\ alerting = {}
  /\ worker' = Idle
  /\ UNCHANGED <<day, unknown, rows, alerting, brief, chat, said, spent>>

(* Between cycles' questions: a transfer is read and classified unknown. *)
Arrive(g) ==
  /\ worker.pc = "idle" /\ unknown[g] < MaxUnknown /\ spent.arrivals < MaxArrivals
  /\ unknown' = [unknown EXCEPT ![g] = @ + 1]
  /\ said' = [said EXCEPT ![g].more = @ \/ said[g].day # Never]
  /\ alerting' = IF g \in Large THEN alerting \cup {g} ELSE alerting
  /\ spent' = [spent EXCEPT !.arrivals = @ + 1]
  /\ UNCHANGED <<day, rows, worker, brief, chat>>

-----------------------------------------------------------------------------
(* getQuestionsToSend, within deliverIfDue: biggest first, within the limit.   *)
(* Whether yesterday's list falls in the last 24 hours is a matter of seconds. *)
Due(g) ==
  /\ rows[g].status = "open" /\ rows[g].count > 0 /\ Total(g) >= PingMin
  /\ Monday \/ rows[g].sent = Never \/ rows[g].sent <= day - ReaskDays \/ Doubled(rows[g])
RecentlyAsked(days) ==
  Cardinality({g \in Groups : rows[g].sent # Never /\ rows[g].sent >= day - days})
Lists(limit) ==
  {list \in UNION {[1 .. n -> {g \in Groups : Due(g)}] : n \in 1 .. limit} :
     /\ \A i, j \in DOMAIN list : i < j => list[i] # list[j] /\ Total(list[i]) >= Total(list[j])
     /\ \A h \in {g \in Groups : Due(g)} \ Range(list) :
          Len(list) = limit /\ \A i \in DOMAIN list : Total(list[i]) >= Total(h)}

PickQuestions ==
  /\ brief.pc = "idle" /\ brief.sent < day
  /\ \E days \in {0, 1} :
       LET limit == IF Monday THEN WeeklyList ELSE PingsPerDay - RecentlyAsked(days)
       IN \E list \in Lists(limit) :
            brief' = [brief EXCEPT !.pc = "send", !.list = list, !.marked = 0]
  /\ UNCHANGED <<day, unknown, rows, worker, alerting, chat, said, spent>>
SendBrief ==
  /\ brief.pc = "send"
  /\ Tell(Range(brief.list))
  /\ brief' = [brief EXCEPT !.pc = "sent"]
  /\ UNCHANGED <<day, unknown, rows, worker, alerting, chat, spent>>
SendFails ==
  /\ brief.pc = "send"
  /\ brief' = [Waiting EXCEPT !.sent = brief.sent]
  /\ UNCHANGED <<day, unknown, rows, worker, alerting, chat, said, spent>>
MarkBriefSent ==
  /\ brief.pc = "sent"
  /\ brief' = [brief EXCEPT !.pc = "mark", !.sent = day]
  /\ UNCHANGED <<day, unknown, rows, worker, alerting, chat, said, spent>>
(* A bug: what was asked is marked with the number of the one before it. *)
MarkPrevious ==
  /\ brief.pc = "mark" /\ brief.marked < Len(brief.list)
  /\ rows' = [rows EXCEPT ![brief.list[brief.marked + 1]] =
                [@ EXCEPT !.sent = day, !.asked = rows[brief.list[brief.marked + 1]].count,
                          !.item = brief.marked]]
  /\ brief' = [brief EXCEPT !.marked = @ + 1]
  /\ UNCHANGED <<day, unknown, worker, alerting, chat, said, spent>>
MarkQuestionSent ==
  /\ brief.pc = "mark" /\ brief.marked < Len(brief.list)
  /\ LET i == brief.marked + 1  g == brief.list[i] IN
       rows' = [rows EXCEPT ![g] = [@ EXCEPT !.sent = day, !.asked = rows[g].count,
                                              !.item = IF Len(brief.list) > 1 THEN i ELSE 0]]
  /\ brief' = [brief EXCEPT !.marked = @ + 1]
  /\ UNCHANGED <<day, unknown, worker, alerting, chat, said, spent>>
EndBrief ==
  /\ brief.pc = "mark" /\ brief.marked = Len(brief.list)
  /\ brief' = [Waiting EXCEPT !.sent = brief.sent]
  /\ UNCHANGED <<day, unknown, rows, worker, alerting, chat, said, spent>>

-----------------------------------------------------------------------------
(* labelQuestionGroup: the group's transfers, then the group. *)
Answer(g) ==
  /\ chat = "idle" /\ rows[g].status # "none"
  /\ IF unknown[g] > 0
     THEN chat' = g /\ unknown' = [unknown EXCEPT ![g] = 0]
          /\ said' = [said EXCEPT ![g] = NotSaid] /\ UNCHANGED rows
     ELSE rows' = [rows EXCEPT ![g] = [@ EXCEPT !.status = "labeled", !.resolved = 0]]
          /\ said' = [said EXCEPT ![g] = NotSaid] /\ UNCHANGED <<unknown, chat>>
  /\ UNCHANGED <<day, worker, alerting, brief, spent>>
CloseAnswered ==
  /\ chat # "idle"
  /\ rows' = [rows EXCEPT ![chat] = [@ EXCEPT !.status = "labeled", !.resolved = 0]]
  /\ chat' = "idle" /\ said' = [said EXCEPT ![chat] = NotSaid]
  /\ UNCHANGED <<day, unknown, worker, alerting, brief, spent>>
(* One transfer of the group is labeled on its own. *)
Correct(g) ==
  /\ unknown[g] > 0
  /\ unknown' = [unknown EXCEPT ![g] = @ - 1]
  /\ said' = IF unknown[g] = 1 THEN [said EXCEPT ![g] = NotSaid] ELSE said
  /\ UNCHANGED <<day, rows, worker, alerting, brief, chat, spent>>
SkipGroup(g) ==
  /\ rows[g].status # "none" /\ rows[g].sent # Never
  /\ rows' = [rows EXCEPT ![g] = [@ EXCEPT !.status = "skipped", !.resolved = day, !.asked = rows[g].count]]
  /\ Tell({g})
  /\ UNCHANGED <<day, unknown, worker, alerting, brief, chat, spent>>

-----------------------------------------------------------------------------
(* A bound: midnight does not fall within a cycle or a morning message. *)
NextDay ==
  /\ day < MaxDay /\ brief.pc = "idle" /\ worker.pc = "idle" /\ day' = day + 1
  /\ UNCHANGED <<unknown, rows, worker, alerting, brief, chat, said, spent>>
(* Between what was sent and its mark; elsewhere a crash undoes nothing. *)
Crash ==
  /\ spent.crashes < MaxCrashes /\ spent' = [spent EXCEPT !.crashes = @ + 1]
  /\ worker.pc = "mark" \/ brief.pc \in {"sent", "mark"}
  /\ worker' = Idle /\ brief' = [Waiting EXCEPT !.sent = brief.sent]
  /\ UNCHANGED <<day, unknown, rows, alerting, chat, said>>

Init ==
  /\ day = 1 /\ unknown = [g \in Groups |-> 0] /\ rows = [g \in Groups |-> NoRow]
  /\ worker = Idle /\ alerting = {} /\ brief = Waiting
  /\ chat = "idle" /\ said = [g \in Groups |-> NotSaid]
  /\ spent = [arrivals |-> 0, crashes |-> 0]

Cycle == ReadStats \/ WriteGroups \/ MarkAskedByAlert \/ EndCycle \/ \E g \in Groups : AlertAsks(g)
Morning == PickQuestions \/ SendBrief \/ SendFails \/ MarkBriefSent \/ MarkQuestionSent \/ EndBrief
Chat == CloseAnswered \/ \E g \in Groups : Answer(g) \/ Correct(g) \/ SkipGroup(g)
Next == Cycle \/ Morning \/ Chat \/ NextDay \/ Crash \/ \E g \in Groups : Arrive(g)

(* The worker's cycle goes round (poll). *)
Spec == Init /\ [][Next]_vars /\ WF_vars(Cycle)

-----------------------------------------------------------------------------
TypeOK ==
  /\ day \in Nat /\ unknown \in [Groups -> Nat] /\ rows \in [Groups -> Row]
  /\ worker \in [pc: {"idle", "write", "alert", "mark"}, stats: [Groups -> Nat], marking: SUBSET Groups]
  /\ brief \in [pc: {"idle", "send", "sent", "mark"}, list: Seq(Groups), marked: Nat, sent: Nat]
  /\ brief.marked <= Len(brief.list) /\ alerting \subseteq Groups
  /\ chat \in Groups \cup {"idle"}
  /\ said \in [Groups -> [day: Nat \cup {Never}, more: BOOLEAN]]
  /\ spent \in [arrivals: Nat, crashes: Nat]

(* A morning message, outside Mondays and unless the last one was cut short by a  *)
(* crash, asks again about a group asked about on an earlier day only for a reason: *)
(* never asked or skipped since it was last answered, long ago, or transfers     *)
(* came that were not asked about (questions.ts:15, "a skipped group comes     *)
(* back after REASK_AFTER_DAYS, or sooner if its total doubles").              *)
HasReason(g) ==
  said[g].day \in {Never, day} \/ said[g].day <= day - ReaskDays
  \/ said[g].more
AsksForAReason ==
  PickQuestions /\ ~Monday /\ spent.crashes = 0 => \A g \in Range(brief'.list) : HasReason(g)
AskedForAReason == [][AsksForAReason]_vars

(* The number an asked group carries is its place in the message, so that       *)
(* "1 was a swap" finds its transfer (scheduler.ts:142).                       *)
NumberedAsSent ==
  \A i \in 1 .. brief.marked :
    brief.pc = "mark" /\ rows[brief.list[i]].sent = day /\ Len(brief.list) > 1 =>
      rows[brief.list[i]].item \in {0, i}

(* A group with nothing left to ask closes by itself (questions.ts:16). *)
ClosesByItself ==
  \A g \in Groups :
    (rows[g].status = "open" /\ unknown[g] = 0) ~> (rows[g].status # "open" \/ unknown[g] > 0)
=============================================================================
