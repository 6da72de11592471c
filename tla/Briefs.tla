-------------------------------- MODULE Briefs --------------------------------
(***************************************************************************)
(* The morning message of one operator.  A timer looks every minute: once the   *)
(* day's slot is open and nothing of the day's type went out since, it builds a  *)
(* message of what moved since the last one, saves it, sends it and marks it.    *)
(* A message that failed is tried again from its saved row, a few times a day.   *)
(***************************************************************************)
EXTENDS Integers, FiniteSets, FiniteSetsExt

CONSTANTS
  Day,          \* moments in a day, the first of which the slot is closed in
  DaysInWeek,   \* the first day of each week is a Monday
  LookBack,     \* how far back a daily message may start
  MaxAttempts,  \* MAX_ATTEMPTS_PER_SLOT
  MaxNow, MaxTrouble, MaxMoved  \* bounds

ASSUME BriefsAssumption ==
  /\ {Day, DaysInWeek, MaxAttempts} \subseteq Nat \ {0}
  /\ {LookBack, MaxNow, MaxTrouble, MaxMoved} \subseteq Nat /\ LookBack >= Day

VARIABLES
  now,
  moved,     \* when the operator's transfers happened
  last,      \* the last morning sent or skipped, of either type, with its time
  done,      \* per type, when the last one was sent or skipped
  saved,     \* per type, when its row not sent yet was created
  tick,      \* the timer's step, and what it has read
  attempts,  \* failures in this process, and the date they are of
  told,      \* daily and weekly messages that reached the operator: [at, since, until, type]
  first,     \* when the first morning was dealt with
  holes,     \* transfers the next message starts too late for: see Close
  trouble

vars == <<now, moved, last, done, saved, tick, attempts, told, first, holes, trouble>>

Never == -1
Types == {"daily", "weekly"}
DateOf(t) == t \div Day
SlotOf(t) == DateOf(t) * Day + 1
TypeOf(t) == IF DateOf(t) % DaysInWeek = 0 THEN "weekly" ELSE "daily"
Period(type) == IF type = "weekly" THEN DaysInWeek * Day ELSE Day

Waiting == [pc |-> "idle", at |-> 0, since |-> 0]

-----------------------------------------------------------------------------
(* The window of a message: weekly ones start a week back, daily ones at the last *)
(* morning, unless that is too long ago.                                      *)
(* A bug: a daily message starts a day back. *)
SinceDay(t) == t - Period(TypeOf(t))
Since(t) ==
  IF TypeOf(t) = "daily" /\ last # Never /\ last > t - LookBack THEN last
  ELSE t - Period(TypeOf(t))

(* What the operator moved in the window; transfers are booked as they happen    *)
(* (what comes late is the ledger's subject).                                  *)
Legs(since, until) == {t \in moved : t > since /\ t <= until}

(* getBriefSlotStatus: sent or skipped since the slot opened. *)
(* A bug: what was sent as the slot opened does not count. *)
SentAfterSlot(type, t) == done[type] # Never /\ done[type] > SlotOf(t)
Sent(type, t) == done[type] # Never /\ done[type] >= SlotOf(t)
Pending(type, t) == saved[type] # Never /\ saved[type] >= SlotOf(t)

Attempts(t) == IF attempts.date = DateOf(t) THEN attempts.n ELSE 0

(* deliverIfDue, up to the saved row.  What moved since the last one, and before a  *)
(* message that does not look back that far, is told in none.  A daily message with *)
(* nothing moved and nothing to ask is quiet; a weekly one is always sent.        *)
TooOld ==
  IF last # Never /\ (TypeOf(now) = "daily" => last <= now - LookBack)
  THEN {t \in moved : t > last /\ t <= now - Period(TypeOf(now))} ELSE {}
Look ==
  /\ tick.pc = "idle" /\ now >= SlotOf(now)
  /\ Attempts(now) < MaxAttempts /\ ~Sent(TypeOf(now), now)
  /\ tick' = [pc |-> "build", at |-> now, since |-> Since(now)]
  /\ holes' = holes \cup TooOld
  /\ UNCHANGED <<now, moved, last, done, saved, attempts, told, first, trouble>>
Save(type) ==
  saved' = IF Pending(type, tick.at) THEN saved ELSE [saved EXCEPT ![type] = now]
Build ==
  /\ tick.pc = "build" /\ Save(TypeOf(tick.at))
  /\ \E asks \in BOOLEAN :
       tick' = [tick EXCEPT !.pc =
         IF TypeOf(tick.at) = "daily" /\ Legs(tick.since, tick.at) = {} /\ ~asks THEN "skip" ELSE "send"]
  /\ UNCHANGED <<now, moved, last, done, attempts, told, first, holes, trouble>>

(* markBriefSkipped, markBriefSent: the row is done, at the time of the mark, and  *)
(* the next message starts there.                                             *)
Close ==
  /\ last' = now /\ done' = [done EXCEPT ![TypeOf(tick.at)] = now]
  /\ saved' = [saved EXCEPT ![TypeOf(tick.at)] = Never]
  /\ holes' = holes \cup {t \in moved : t > tick.at /\ t <= now}
  /\ first' = IF first = Never THEN tick.at ELSE first
  /\ attempts' = [date |-> 0, n |-> 0] /\ tick' = Waiting
Skip ==
  /\ tick.pc = "skip" /\ Close
  /\ UNCHANGED <<now, moved, told, trouble>>
Send ==
  /\ tick.pc = "send" /\ tick' = [tick EXCEPT !.pc = "mark"]
  /\ told' = told \cup {[at |-> now, since |-> tick.since, until |-> tick.at, type |-> TypeOf(tick.at)]}
  /\ UNCHANGED <<now, moved, last, done, saved, attempts, first, holes, trouble>>
MarkBriefSent ==
  /\ tick.pc = "mark" /\ Close
  /\ UNCHANGED <<now, moved, told, trouble>>
(* Building, sending or marking fails: counted, and tried again at the next tick. *)
Fail ==
  /\ tick.pc # "idle" /\ trouble < MaxTrouble /\ trouble' = trouble + 1
  /\ attempts' = [date |-> DateOf(tick.at), n |-> Attempts(tick.at) + 1] /\ tick' = Waiting
  /\ UNCHANGED <<now, moved, last, done, saved, told, first, holes>>
Restart ==
  /\ tick.pc # "idle" /\ trouble < MaxTrouble /\ trouble' = trouble + 1
  /\ attempts' = [date |-> 0, n |-> 0] /\ tick' = Waiting
  /\ UNCHANGED <<now, moved, last, done, saved, told, first, holes>>

(* Time passes; something may move at any moment. *)
Pass ==
  /\ now < MaxNow /\ now' = now + 1
  /\ \E m \in BOOLEAN : moved' = IF m /\ Cardinality(moved) < MaxMoved THEN moved \cup {now + 1} ELSE moved
  /\ UNCHANGED <<last, done, saved, tick, attempts, told, first, holes, trouble>>

Init ==
  /\ now = 0 /\ moved = {} /\ last = Never /\ done = [k \in Types |-> Never]
  /\ saved = [k \in Types |-> Never] /\ tick = Waiting /\ attempts = [date |-> 0, n |-> 0]
  /\ told = {} /\ first = Never /\ holes = {} /\ trouble = 0

Next == Look \/ Build \/ Skip \/ Send \/ MarkBriefSent \/ Fail \/ Restart \/ Pass
Spec == Init /\ [][Next]_vars

-----------------------------------------------------------------------------
Times == Nat \cup {Never}
TypeOK ==
  /\ now \in Nat /\ moved \subseteq 0 .. now /\ last \in Times
  /\ done \in [Types -> Times] /\ saved \in [Types -> Times]
  /\ tick \in [pc: {"idle", "build", "skip", "send", "mark"}, at: 0 .. now, since: Int]
  /\ attempts \in [date: Nat, n: 0 .. MaxAttempts] /\ trouble \in Nat
  /\ told \subseteq [at: 0 .. now, since: Int, until: 0 .. now, type: Types]
  /\ IsFiniteSet(told) /\ first \in Times /\ holes \subseteq moved

(* A transfer is in one daily message, but for messages sent again because a    *)
(* fault fell between sending one and marking it (scheduler.ts:134-141).         *)
Telling(t) == {b \in told : b.type = "daily" /\ t > b.since /\ t <= b.until}
ToldOnce == \A t \in moved : Cardinality(Telling(t)) <= 1 + trouble

(* One message each morning, of one type, but for those repeated after a fault. *)
OneMorning ==
  \A d \in 0 .. DateOf(now) :
    Cardinality({b \in told : DateOf(b.at) = d /\ DateOf(b.until) = d}) <= 1 + trouble

(* Once mornings have begun, what moved before a daily message is told in it or in *)
(* an earlier message: a failed or skipped morning loses nothing.  What moved    *)
(* while a message was being sent is left out, as is what is older than the      *)
(* message may look back (holes).                                             *)
ToldBy(b, t) == \E e \in told : e.at <= b.at /\ t > e.since /\ t <= e.until
Owed(b) == {t \in moved : first # Never /\ t > first /\ t <= b.until}
NothingLost == \A b \in told : \A t \in Owed(b) \ holes : ToldBy(b, t)

(* "what happened since the last one" (generate.ts:14). *)
EverythingTold == \A b \in told : \A t \in Owed(b) : ToldBy(b, t)
=============================================================================
