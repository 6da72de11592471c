---------------------------- MODULE BriefsProofs ----------------------------
(***************************************************************************)
(* Proofs about Briefs: whatever the clock, the failures and the restarts, a   *)
(* transfer is told in one daily message, a day has one message, each but for    *)
(* as many repetitions as there was trouble, and what moved is told or in a      *)
(* known gap.  About Holdings: the reason told for a change points the way the    *)
(* holdings went.  About Story: every leg is told once, however many there are.  *)
(***************************************************************************)
EXTENDS MCBriefs, FiniteSetTheorems, SequenceTheorems, TLAPS

-----------------------------------------------------------------------------
(* Days.                                                                      *)

(* The date is the number of whole days that have passed. *)
LEMMA DateOfBounds ==
  ASSUME NEW t \in Nat
  PROVE  DateOf(t) \in Nat /\ DateOf(t) * Day <= t /\ t < DateOf(t) * Day + Day
<1>1. Day \in Nat /\ Day > 0
  BY BriefsAssumption
<1> QED BY <1>1 DEF DateOf

(* Later moments have no earlier date. *)
LEMMA DateOfMonotone ==
  ASSUME NEW t \in Nat, NEW u \in Nat, t <= u
  PROVE  DateOf(t) <= DateOf(u)
<1> DEFINE a == DateOf(t)
           b == DateOf(u)
<1>1. Day \in Nat /\ Day > 0
  BY BriefsAssumption
<1>2. /\ a \in Nat /\ a * Day <= t
      /\ b \in Nat /\ u < b * Day + Day
  BY DateOfBounds
<1> HIDE DEF a, b
<1>3. SUFFICES ASSUME b < a PROVE FALSE
  BY <1>2 DEF a, b
<1>4. b + 1 <= a
  BY <1>2, <1>3
<1>5. (b + 1) * Day <= a * Day
  BY <1>1, <1>2, <1>4
<1>6. (b + 1) * Day = b * Day + Day
  BY <1>1, <1>2
<1>7. a * Day \in Nat /\ b * Day \in Nat
  BY <1>1, <1>2
<1> QED BY <1>1, <1>2, <1>5, <1>6, <1>7

(* A slot is a moment after the first, and the same all day. *)
LEMMA SlotType ==
  ASSUME NEW t \in Nat PROVE SlotOf(t) \in Nat /\ SlotOf(t) > 0
<1>1. DateOf(t) * Day \in Nat
  BY DateOfBounds, BriefsAssumption
<1> QED BY <1>1 DEF SlotOf

(* A message's type, and how long its period is. *)
LEMMA PeriodType ==
  ASSUME NEW t
  PROVE  /\ TypeOf(t) \in Types
         /\ Period(TypeOf(t)) \in Nat
         /\ TypeOf(t) = "daily" => Period(TypeOf(t)) = Day
<1>1. Day \in Nat /\ DaysInWeek \in Nat /\ DaysInWeek * Day \in Nat
  BY BriefsAssumption
<1> QED BY <1>1 DEF TypeOf, Period, Types

-----------------------------------------------------------------------------
(* The state keeps its shape.                                                 *)

(* Where the timer stands: it works on a moment of today or before, of which    *)
(* the slot was open, with tries left; nothing it told lies beyond it.          *)
Active == tick.pc # "idle"
Standing ==
  /\ last <= now /\ \A k \in Types : done[k] <= now
  /\ Active =>
       /\ SlotOf(tick.at) <= tick.at /\ tick.since <= tick.at
       /\ Attempts(tick.at) < MaxAttempts
       /\ \A b \in told : b.until <= tick.at

BriefsInv == TypeOK /\ Standing

(* What a message that goes out is, and what its mark leaves. *)
Going == [at |-> now, since |-> tick.since, until |-> tick.at, type |-> TypeOf(tick.at)]

(* Every step keeps the shape of the state. *)
LEMMA TypeStep == ASSUME BriefsInv, [Next]_vars PROVE BriefsInv'
<1> USE DEF BriefsInv, Active
<1>t. /\ now \in Nat /\ tick.at \in 0 .. now /\ tick.since \in Int /\ trouble \in Nat
      /\ last \in Times /\ attempts.n \in 0 .. MaxAttempts /\ MaxAttempts \in Nat \ {0}
      /\ tick \in [pc: {"idle", "build", "skip", "send", "mark"}, at: 0 .. now, since: Int]
  BY BriefsAssumption DEF TypeOK
<1>w. Waiting \in [pc: {"idle", "build", "skip", "send", "mark"}, at: 0 .. now, since: Int]
      /\ Waiting.pc = "idle"
  BY <1>t DEF Waiting
<1>1. CASE Look
  <2>1. tick' = [pc |-> "build", at |-> now, since |-> Since(now)]
    BY <1>1 DEF Look
  <2>2. Since(now) \in Int /\ Since(now) <= now
    <3>1. last \in Int /\ Period(TypeOf(now)) \in Nat
      BY <1>t, PeriodType DEF Times, Never
    <3>2. last <= now
      BY DEF Standing
    <3> QED BY <1>t, <3>1, <3>2 DEF Since
  <2>3. tick' \in [pc: {"idle", "build", "skip", "send", "mark"}, at: 0 .. now, since: Int]
    BY <1>t, <2>1, <2>2
  <2>4. UNCHANGED <<now, moved, last, done, saved, attempts, told, first, trouble>>
        /\ holes' = holes \cup TooOld
    BY <1>1 DEF Look
  <2>5. holes' \subseteq moved
    BY <2>4 DEF TooOld, TypeOK
  <2>6. TypeOK'
    BY <2>3, <2>4, <2>5 DEF TypeOK
  <2>7. Standing'
    <3>1. tick'.at = now
      BY <2>1
    <3>2. Attempts(now) < MaxAttempts /\ SlotOf(now) <= now
      BY <1>1, <1>t, SlotType DEF Look
    <3>3. \A b \in told : b.until <= now
      BY <1>t DEF TypeOK
    <3>4. tick'.since <= tick'.at
      BY <2>1, <2>2
    <3> QED BY <2>4, <3>1, <3>2, <3>3, <3>4 DEF Standing, Attempts
  <2> QED BY <2>6, <2>7
<1>2. CASE Build
  <2>1. PICK pc2 \in {"skip", "send"} : tick' = [tick EXCEPT !.pc = pc2]
    BY <1>2 DEF Build
  <2>2. saved' \in [Types -> Times]
    <3>1. now \in Times /\ TypeOf(tick.at) \in Types
      BY <1>t, PeriodType DEF Times
    <3> QED BY <1>2, <3>1 DEF Build, Save, TypeOK
  <2>3. /\ tick' \in [pc: {"idle", "build", "skip", "send", "mark"}, at: 0 .. now, since: Int]
        /\ tick'.at = tick.at /\ tick'.since = tick.since
    BY <1>t, <2>1
  <2>4. UNCHANGED <<now, moved, last, done, attempts, told, first, holes, trouble>>
        /\ tick.pc = "build"
    BY <1>2 DEF Build
  <2>5. TypeOK'
    BY <2>2, <2>3, <2>4 DEF TypeOK
  <2> QED BY <2>3, <2>4, <2>5 DEF Standing, Attempts
<1>3. ASSUME Close, UNCHANGED <<now, moved, told, trouble>>, Active PROVE BriefsInv'
  <2>1. now \in Times /\ Never \in Times /\ tick.at \in Times /\ TypeOf(tick.at) \in Types
    BY <1>t, PeriodType DEF Times, Never
  <2>2. /\ last' = now /\ done' = [done EXCEPT ![TypeOf(tick.at)] = now] /\ tick' = Waiting
        /\ saved' = [saved EXCEPT ![TypeOf(tick.at)] = Never]
        /\ attempts' = [date |-> 0, n |-> 0]
        /\ first' = IF first = Never THEN tick.at ELSE first
        /\ holes' = holes \cup {t \in moved : t > tick.at /\ t <= now}
    BY <1>3 DEF Close
  <2>3. done' \in [Types -> Times] /\ saved' \in [Types -> Times] /\ first' \in Times
    BY <2>1, <2>2 DEF TypeOK
  <2>4. attempts' \in [date: Nat, n: 0 .. MaxAttempts] /\ holes' \subseteq moved
    <3>1. 0 \in Nat /\ 0 \in 0 .. MaxAttempts
      BY <1>t
    <3>2. holes' \subseteq moved
      BY <2>2 DEF TypeOK
    <3> QED BY <2>2, <3>1, <3>2
  <2>5. TypeOK'
    BY <1>3, <1>w, <2>1, <2>2, <2>3, <2>4 DEF TypeOK
  <2>6. \A k \in Types : done'[k] <= now
    BY <1>t, <2>1, <2>2 DEF TypeOK, Standing
  <2> QED BY <1>3, <1>t, <1>w, <2>2, <2>5, <2>6 DEF Standing
<1>4. CASE Skip
  BY <1>3, <1>4 DEF Skip
<1>5. CASE Send
  <2>1. /\ tick' = [tick EXCEPT !.pc = "mark"] /\ told' = told \cup {Going} /\ tick.pc = "send"
        /\ UNCHANGED <<now, moved, last, done, saved, attempts, first, holes, trouble>>
    BY <1>5 DEF Send, Going
  <2>2. Going \in [at: 0 .. now, since: Int, until: 0 .. now, type: Types]
    BY <1>t, PeriodType DEF Going
  <2>3. IsFiniteSet(told')
    BY <2>1, FS_AddElement DEF TypeOK
  <2>4. /\ tick' \in [pc: {"idle", "build", "skip", "send", "mark"}, at: 0 .. now, since: Int]
        /\ tick'.at = tick.at
    BY <1>t, <2>1
  <2>5. TypeOK'
    BY <2>1, <2>2, <2>3, <2>4 DEF TypeOK
  <2>6. \A b \in told' : b.until <= tick.at
    BY <1>t, <2>1 DEF Standing, Going
  <2> QED BY <2>1, <2>4, <2>5, <2>6 DEF Standing, Attempts
<1>6. CASE MarkBriefSent
  BY <1>3, <1>6 DEF MarkBriefSent
<1>7. ASSUME Active, tick' = Waiting, trouble' = trouble + 1,
             attempts' \in [date: Nat, n: 0 .. MaxAttempts],
             UNCHANGED <<now, moved, last, done, saved, told, first, holes>>
      PROVE  BriefsInv'
  <2>1. TypeOK'
    BY <1>7, <1>t, <1>w DEF TypeOK
  <2> QED BY <1>7, <1>w, <2>1 DEF Standing
<1>8. CASE Fail
  <2>1. Attempts(tick.at) \in Nat /\ Attempts(tick.at) < MaxAttempts
    BY <1>8, <1>t DEF Fail, Standing, Attempts
  <2>2. DateOf(tick.at) \in Nat
    BY <1>t, DateOfBounds
  <2>3. attempts' = [date |-> DateOf(tick.at), n |-> Attempts(tick.at) + 1]
    BY <1>8 DEF Fail
  <2>4. attempts' \in [date: Nat, n: 0 .. MaxAttempts]
    BY <1>t, <2>1, <2>2, <2>3
  <2> QED BY <1>7, <1>8, <2>4 DEF Fail
<1>9. CASE Restart
  <2>1. attempts' \in [date: Nat, n: 0 .. MaxAttempts]
    BY <1>9, <1>t DEF Restart
  <2> QED BY <1>7, <1>9, <2>1 DEF Restart
<1>10. CASE Pass
  <2>1. /\ now' = now + 1 /\ moved' \subseteq moved \cup {now + 1} /\ moved \subseteq moved'
        /\ UNCHANGED <<last, done, saved, tick, attempts, told, first, holes, trouble>>
    BY <1>10 DEF Pass
  <2>2. moved' \subseteq 0 .. now' /\ now' \in Nat /\ holes' \subseteq moved'
    BY <1>t, <2>1 DEF TypeOK
  <2>3. tick' \in [pc: {"idle", "build", "skip", "send", "mark"}, at: 0 .. now', since: Int]
    BY <1>t, <2>1
  <2>4. told' \subseteq [at: 0 .. now', since: Int, until: 0 .. now', type: Types]
    BY <1>t, <2>1 DEF TypeOK
  <2>5. TypeOK'
    BY <2>1, <2>2, <2>3, <2>4 DEF TypeOK
  <2>6. last <= now' /\ \A k \in Types : done[k] <= now'
    BY <1>t, <2>1 DEF Standing, TypeOK, Times, Never
  <2> QED BY <2>1, <2>5, <2>6 DEF Standing, Attempts
<1>11. CASE UNCHANGED vars
  BY <1>11 DEF vars, TypeOK, Standing, Attempts
<1> QED
  BY <1>1, <1>2, <1>4, <1>5, <1>6, <1>8, <1>9, <1>10, <1>11 DEF Next

-----------------------------------------------------------------------------
(* A transfer is in one daily message.                                        *)

(* What follows starts where the last morning ended; the daily messages that    *)
(* reach beyond it were repeated for trouble; and what lies before it was told   *)
(* no more often than that, and is told no more.                               *)
Daily == {b \in told : b.type = "daily"}
Fresh == {b \in Daily : b.until > last}
InFlight == IF tick.pc = "mark" THEN 1 ELSE 0
FromLast == Active /\ TypeOf(tick.at) = "daily" /\ last # Never => tick.since >= last
FewFresh == Cardinality(Fresh) <= trouble + InFlight
OldToldOnce == \A t \in 0 .. last : Cardinality(Telling(t)) <= 1 + trouble
FreshInv == FromLast /\ FewFresh /\ OldToldOnce

(* A part of what was told is finite, and no larger than the whole. *)
LEMMA PartOfTold ==
  ASSUME TypeOK, NEW X \in SUBSET told, NEW R \in SUBSET X
  PROVE  /\ IsFiniteSet(X) /\ IsFiniteSet(R)
         /\ Cardinality(X) \in Nat /\ Cardinality(R) \in Nat
         /\ Cardinality(R) <= Cardinality(X)
<1>1. IsFiniteSet(told)
  BY DEF TypeOK
<1>2. IsFiniteSet(X)
  BY <1>1, FS_Subset
<1>3. IsFiniteSet(R) /\ Cardinality(R) <= Cardinality(X)
  BY <1>2, FS_Subset
<1> QED BY <1>2, <1>3, FS_CardinalityType

(* One more member makes a set one larger, or no larger. *)
LEMMA OneMore ==
  ASSUME NEW X, IsFiniteSet(X), NEW x, NEW R \in SUBSET (X \cup {x})
  PROVE  /\ IsFiniteSet(R) /\ Cardinality(R) \in Nat /\ Cardinality(X) \in Nat
         /\ Cardinality(R) <= Cardinality(X) + 1
<1>1. Cardinality(X) \in Nat
  BY FS_CardinalityType
<1>2. /\ IsFiniteSet(X \cup {x})
      /\ Cardinality(X \cup {x}) = Cardinality(X) \/ Cardinality(X \cup {x}) = Cardinality(X) + 1
  BY FS_AddElement
<1>3. IsFiniteSet(R) /\ Cardinality(R) <= Cardinality(X \cup {x})
  BY <1>2, FS_Subset
<1>4. Cardinality(R) \in Nat
  BY <1>3, FS_CardinalityType
<1> QED BY <1>1, <1>2, <1>3, <1>4

(* What is no more than one sum is no more than a larger one. *)
LEMMA AtMostSum ==
  ASSUME NEW n \in Nat, NEW a \in Nat, NEW b \in Nat, NEW c \in Nat, NEW d \in Nat,
         n <= a + b, a + b <= c + d
  PROVE  n <= c + d
OBVIOUS

(* The account is kept while nothing is told and no morning ends. *)
LEMMA FreshKept ==
  ASSUME BriefsInv, FreshInv, UNCHANGED <<told, last>>, FromLast',
         trouble' \in Nat, trouble + InFlight <= trouble' + InFlight', trouble <= trouble'
  PROVE  FreshInv'
<1> USE DEF BriefsInv, FreshInv
<1>1. trouble \in Nat /\ InFlight \in Nat /\ InFlight' \in Nat
  BY DEF TypeOK, InFlight
<1>2. Cardinality(Fresh) \in Nat /\ Cardinality(Fresh) <= trouble + InFlight
  BY PartOfTold DEF Fresh, Daily, FewFresh
<1>3. Fresh' = Fresh
  BY DEF Fresh, Daily
<1>4. FewFresh'
  <2>1. Cardinality(Fresh) <= trouble' + InFlight'
    BY <1>1, <1>2, AtMostSum
  <2> QED BY <1>3, <2>1 DEF FewFresh
<1>5. OldToldOnce'
  <2>1. ASSUME NEW t \in 0 .. last
        PROVE  Cardinality(Telling(t)) <= 1 + trouble' /\ Telling(t)' = Telling(t)
    <3>1. Cardinality(Telling(t)) \in Nat
      BY PartOfTold DEF Telling
    <3>2. Cardinality(Telling(t)) <= 1 + trouble
      BY <2>1 DEF OldToldOnce
    <3> QED BY <1>1, <3>1, <3>2 DEF Telling
  <2> QED BY <2>1 DEF OldToldOnce
<1> QED BY <1>4, <1>5

(* Every step keeps that account. *)
LEMMA FreshStep == ASSUME BriefsInv, FreshInv, [Next]_vars PROVE FreshInv'
<1> USE DEF BriefsInv, FreshInv, Active
<1>t. /\ now \in Nat /\ tick.at \in 0 .. now /\ tick.since \in Int /\ trouble \in Nat
      /\ last \in Times /\ last <= now /\ Day \in Nat /\ LookBack \in Nat /\ LookBack >= Day
      /\ tick \in [pc: {"idle", "build", "skip", "send", "mark"}, at: 0 .. now, since: Int]
  BY BriefsAssumption DEF TypeOK, Standing
<1>w. Waiting.pc = "idle"
  BY DEF Waiting
<1>1. CASE Look
  <2>1. tick' = [pc |-> "build", at |-> now, since |-> Since(now)] /\ tick.pc = "idle"
        /\ UNCHANGED <<told, last, trouble>>
    BY <1>1 DEF Look
  <2>2. TypeOf(now) = "daily" /\ last # Never => Since(now) >= last
    BY <1>t, PeriodType DEF Since, Times, Never
  <2>3. FromLast'
    BY <2>1, <2>2 DEF FromLast
  <2>4. InFlight = 0 /\ InFlight' = 0
    BY <2>1 DEF InFlight
  <2> QED BY <1>t, <2>1, <2>3, <2>4, FreshKept
<1>2. CASE Build
  <2>1. PICK pc2 \in {"skip", "send"} : tick' = [tick EXCEPT !.pc = pc2]
    BY <1>2 DEF Build
  <2>2. tick'.pc = pc2 /\ tick'.at = tick.at /\ tick'.since = tick.since /\ tick.pc = "build"
        /\ UNCHANGED <<told, last, trouble>>
    BY <1>2, <1>t, <2>1 DEF Build
  <2>3. FromLast' /\ InFlight = 0 /\ InFlight' = 0
    BY <2>2 DEF FromLast, InFlight
  <2> QED BY <1>t, <2>2, <2>3, FreshKept
<1>3. ASSUME Close, UNCHANGED <<now, moved, told, trouble>>, Active PROVE FreshInv'
  <2>1. last' = now /\ tick' = Waiting
    BY <1>3 DEF Close
  <2>2. FromLast' /\ InFlight' = 0 /\ InFlight \in 0 .. 1
    BY <1>w, <2>1 DEF FromLast, InFlight
  <2>3. Fresh' = {}
    <3>1. \A b \in told : b.until <= now
      BY <1>t DEF TypeOK
    <3> QED BY <1>3, <2>1, <3>1, <1>t DEF Fresh, Daily, TypeOK
  <2>4. FewFresh'
    BY <1>3, <1>t, <2>2, <2>3, FS_EmptySet DEF FewFresh
  <2>5. ASSUME NEW t \in Nat PROVE Cardinality(Telling(t)) <= 1 + trouble
    <3>1. CASE t <= last
      BY <1>t, <3>1 DEF OldToldOnce, Times, Never
    <3>2. CASE last < t
      <4>1. Telling(t) \subseteq Fresh
        BY <1>t, <3>2 DEF Telling, Fresh, Daily, TypeOK, Times, Never
      <4>2. Cardinality(Telling(t)) \in Nat /\ Cardinality(Fresh) \in Nat
            /\ Cardinality(Telling(t)) <= Cardinality(Fresh)
        BY <4>1, PartOfTold DEF Fresh, Daily
      <4> QED BY <1>t, <2>2, <4>2 DEF FewFresh
    <3> QED BY <1>t, <3>1, <3>2 DEF Times, Never
  <2>6. OldToldOnce'
    BY <1>3, <2>5 DEF OldToldOnce, Telling
  <2> QED BY <2>2, <2>4, <2>6
<1>4. CASE Skip
  BY <1>3, <1>4 DEF Skip
<1>5. CASE Send
  <2>1. /\ tick' = [tick EXCEPT !.pc = "mark"] /\ told' = told \cup {Going} /\ tick.pc = "send"
        /\ UNCHANGED <<last, trouble>>
    BY <1>5 DEF Send, Going
  <2>2. tick'.pc = "mark" /\ tick'.at = tick.at /\ tick'.since = tick.since
    BY <1>t, <2>1
  <2>3. FromLast' /\ InFlight = 0 /\ InFlight' = 1
    BY <2>1, <2>2 DEF FromLast, InFlight
  <2>4. FewFresh'
    <3>1. Fresh' \subseteq Fresh \cup {Going}
      BY <2>1 DEF Fresh, Daily
    <3>2. IsFiniteSet(Fresh)
      BY PartOfTold DEF Fresh, Daily
    <3>3. Cardinality(Fresh') <= Cardinality(Fresh) + 1 /\ Cardinality(Fresh') \in Nat
          /\ Cardinality(Fresh) \in Nat
      BY <3>1, <3>2, OneMore
    <3> QED BY <1>t, <2>1, <2>3, <3>3 DEF FewFresh
  <2>5. ASSUME NEW t \in 0 .. last PROVE Telling(t)' = Telling(t)
    <3>1. last # Never
      BY <1>t, <2>5 DEF Never, Times
    <3>2. ~(Going.type = "daily" /\ t > Going.since)
      BY <1>t, <2>1, <2>5, <3>1 DEF FromLast, Going, Times, Never
    <3> QED BY <2>1, <3>2 DEF Telling
  <2>6. OldToldOnce'
    BY <2>1, <2>5 DEF OldToldOnce
  <2> QED BY <2>3, <2>4, <2>6
<1>6. CASE MarkBriefSent
  BY <1>3, <1>6 DEF MarkBriefSent
<1>7. CASE Fail \/ Restart
  <2>1. tick' = Waiting /\ trouble' = trouble + 1 /\ UNCHANGED <<told, last>>
    BY <1>7 DEF Fail, Restart
  <2>2. FromLast' /\ InFlight' = 0 /\ InFlight \in 0 .. 1
    BY <1>w, <2>1 DEF FromLast, InFlight
  <2> QED BY <1>t, <2>1, <2>2, FreshKept
<1>8. CASE Pass
  <2>1. UNCHANGED <<told, last, tick, trouble>>
    BY <1>8 DEF Pass
  <2>2. FromLast' /\ InFlight' = InFlight /\ InFlight \in Nat
    BY <2>1 DEF FromLast, InFlight
  <2> QED BY <1>t, <2>1, <2>2, FreshKept
<1>9. CASE UNCHANGED vars
  BY <1>9 DEF vars, FromLast, FewFresh, Fresh, Daily, InFlight, OldToldOnce, Telling
<1> QED
  BY <1>1, <1>2, <1>4, <1>5, <1>6, <1>7, <1>8, <1>9 DEF Next

(* What it says of every transfer. *)
LEMMA FreshIsOnce == ASSUME BriefsInv, FreshInv PROVE ToldOnce
<1> USE DEF BriefsInv, FreshInv
<1>1. SUFFICES ASSUME NEW t \in moved PROVE Cardinality(Telling(t)) <= 1 + trouble
  BY DEF ToldOnce
<1>2. t \in Nat /\ trouble \in Nat /\ last \in Times /\ InFlight \in 0 .. 1
  BY DEF TypeOK, InFlight
<1>3. CASE t <= last
  BY <1>2, <1>3 DEF OldToldOnce, Times, Never
<1>4. CASE last < t
  <2>1. Telling(t) \subseteq Fresh
    BY <1>2, <1>4 DEF Telling, Fresh, Daily, TypeOK, Times, Never
  <2>2. Cardinality(Telling(t)) \in Nat /\ Cardinality(Fresh) \in Nat
        /\ Cardinality(Telling(t)) <= Cardinality(Fresh)
    BY <2>1, PartOfTold DEF Fresh, Daily
  <2> QED BY <1>2, <2>2 DEF FewFresh
<1> QED BY <1>2, <1>3, <1>4 DEF Times, Never

-----------------------------------------------------------------------------
(* One message a morning.                                                     *)

(* While a morning's message is under way none of its type was sent since its    *)
(* slot opened; and until one was, those of today were repeated for trouble.     *)
Today(d) == {b \in told : DateOf(b.at) = d /\ DateOf(b.until) = d}
SentToday == Sent(TypeOf(now), now)
OfToday == DateOf(tick.at) = DateOf(now)
StillDue == Active /\ OfToday => ~SentToday
TodayDue ==
  ~SentToday /\ ~(tick.pc = "mark" /\ OfToday) => Cardinality(Today(DateOf(now))) <= trouble
MorningInv == StillDue /\ TodayDue /\ OneMorning

(* A day's messages are counted by a number. *)
LEMMA TodayType ==
  ASSUME TypeOK, NEW d PROVE IsFiniteSet(Today(d)) /\ Cardinality(Today(d)) \in Nat
BY PartOfTold DEF Today

(* Every step keeps it. *)
LEMMA MorningStep == ASSUME BriefsInv, MorningInv, [Next]_vars PROVE MorningInv'
<1> USE DEF BriefsInv, MorningInv, Active
<1>t. /\ now \in Nat /\ tick.at \in Nat /\ tick.at <= now /\ trouble \in Nat
      /\ tick \in [pc: {"idle", "build", "skip", "send", "mark"}, at: 0 .. now, since: Int]
  BY DEF TypeOK
<1>d. /\ DateOf(now) \in Nat /\ DateOf(tick.at) \in Nat /\ DateOf(tick.at) <= DateOf(now)
      /\ SlotOf(now) \in Nat /\ SlotOf(now) > 0
  BY <1>t, DateOfBounds, DateOfMonotone, SlotType
<1>o. \A d \in 0 .. DateOf(now) : Cardinality(Today(d)) \in Nat /\ Cardinality(Today(d)) <= 1 + trouble
  BY TodayType DEF OneMorning, Today
<1>w. Waiting.pc = "idle"
  BY DEF Waiting
<1>1. CASE Look \/ Build
  <2>1. /\ tick.pc # "mark" /\ tick'.pc # "mark" /\ UNCHANGED <<now, done, told, trouble>>
        /\ Active' /\ OfToday' => ~SentToday
    <3>1. CASE Look
      BY <3>1 DEF Look, SentToday
    <3>2. CASE Build
      <4>1. PICK pc2 \in {"skip", "send"} : tick' = [tick EXCEPT !.pc = pc2]
        BY <3>2 DEF Build
      <4> QED BY <1>t, <3>2, <4>1 DEF Build, StillDue, OfToday
    <3> QED BY <1>1, <3>1, <3>2
  <2>2. SentToday' = SentToday /\ \A d : Today(d)' = Today(d)
    BY <2>1 DEF SentToday, Sent, Today
  <2> QED BY <2>1, <2>2 DEF StillDue, TodayDue, OneMorning, Today
<1>2. ASSUME Close, UNCHANGED <<now, moved, told, trouble>>, Active PROVE MorningInv'
  <2>1. /\ tick' = Waiting /\ done' = [done EXCEPT ![TypeOf(tick.at)] = now]
        /\ tick'.pc = "idle" /\ UNCHANGED <<now, told, trouble>>
    BY <1>2, <1>w DEF Close
  <2>2. ASSUME ~SentToday' PROVE ~SentToday /\ ~OfToday
    <3>1. TypeOf(now) \in Types /\ TypeOf(tick.at) \in Types /\ done \in [Types -> Times]
      BY PeriodType DEF TypeOK
    <3>2. done'[TypeOf(now)] = Never \/ ~(done'[TypeOf(now)] >= SlotOf(now))
      <4>1. now' = now /\ TypeOf(now') = TypeOf(now) /\ SlotOf(now') = SlotOf(now)
        BY <2>1
      <4> QED BY <2>2, <4>1 DEF SentToday, Sent
    <3>3. CASE TypeOf(now) = TypeOf(tick.at)
      <4>1. done'[TypeOf(now)] = now
        BY <2>1, <3>1, <3>3
      <4>2. now < SlotOf(now)
        BY <1>t, <1>d, <3>2, <4>1 DEF Never
      <4>3. done[TypeOf(now)] <= now /\ done[TypeOf(now)] \in Times
        BY <3>1 DEF Standing
      <4>4. ~SentToday
        BY <1>t, <1>d, <4>2, <4>3 DEF SentToday, Sent, Times, Never
      <4>5. ~OfToday
        <5>1. SlotOf(tick.at) <= tick.at
          BY <1>2 DEF Standing
        <5>2. OfToday => SlotOf(tick.at) = SlotOf(now)
          BY DEF OfToday, SlotOf
        <5> QED BY <1>t, <1>d, <4>2, <5>1, <5>2
      <4> QED BY <4>4, <4>5
    <3>4. CASE TypeOf(now) # TypeOf(tick.at)
      <4>1. done'[TypeOf(now)] = done[TypeOf(now)]
        BY <2>1, <3>1, <3>4
      <4>2. ~SentToday
        BY <3>2, <4>1 DEF SentToday, Sent
      <4>3. ~OfToday
        BY <3>4 DEF OfToday, TypeOf
      <4> QED BY <4>2, <4>3
    <3> QED BY <3>3, <3>4
  <2>3. \A d : Today(d)' = Today(d)
    BY <2>1 DEF Today
  <2> QED BY <2>1, <2>2, <2>3 DEF StillDue, TodayDue, OneMorning, Today
<1>3. CASE Skip
  BY <1>2, <1>3 DEF Skip
<1>4. CASE Send
  <2>1. /\ tick' = [tick EXCEPT !.pc = "mark"] /\ told' = told \cup {Going} /\ tick.pc = "send"
        /\ UNCHANGED <<now, done, trouble>>
    BY <1>4 DEF Send, Going
  <2>2. tick'.pc = "mark" /\ tick'.at = tick.at /\ SentToday' = SentToday /\ OfToday' = OfToday
    BY <1>t, <2>1 DEF SentToday, Sent, OfToday
  <2>3. Going.at = now /\ Going.until = tick.at
    BY DEF Going
  <2>4. ASSUME NEW d, d # DateOf(now) \/ ~OfToday PROVE Today(d)' = Today(d)
    BY <2>1, <2>3, <2>4 DEF Today, OfToday
  <2>5. ASSUME OfToday PROVE Cardinality(Today(DateOf(now)))' <= 1 + trouble
    <3>1. Cardinality(Today(DateOf(now))) <= trouble
      BY <2>1, <2>5 DEF StillDue, TodayDue
    <3>2. Today(DateOf(now))' \subseteq Today(DateOf(now)) \cup {Going}
      BY <2>1 DEF Today
    <3>3. IsFiniteSet(Today(DateOf(now)))
      BY TodayType
    <3>4. /\ Cardinality(Today(DateOf(now))') <= Cardinality(Today(DateOf(now))) + 1
          /\ Cardinality(Today(DateOf(now))') \in Nat /\ Cardinality(Today(DateOf(now))) \in Nat
      BY <3>2, <3>3, OneMore
    <3> QED BY <1>t, <2>1, <3>1, <3>4
  <2>6. OneMorning'
    <3>1. ASSUME NEW d \in 0 .. DateOf(now) PROVE Cardinality(Today(d))' <= 1 + trouble
      BY <1>o, <2>1, <2>4, <2>5
    <3> QED BY <2>1, <3>1 DEF OneMorning, Today
  <2>7. StillDue'
    BY <2>1, <2>2 DEF StillDue
  <2>8. TodayDue'
    BY <2>1, <2>2, <2>4 DEF TodayDue
  <2> QED BY <2>6, <2>7, <2>8
<1>5. CASE MarkBriefSent
  BY <1>2, <1>5 DEF MarkBriefSent
<1>6. CASE Fail \/ Restart
  <2>1. tick'.pc = "idle" /\ trouble' = trouble + 1 /\ UNCHANGED <<now, done, told>>
    BY <1>6, <1>w DEF Fail, Restart
  <2>2. \A d : Today(d)' = Today(d)
    BY <2>1 DEF Today
  <2>3. \A d \in 0 .. DateOf(now) :
          Cardinality(Today(d)) <= trouble' /\ Cardinality(Today(d)) <= 1 + trouble'
    BY <1>t, <1>o, <2>1
  <2>4. StillDue' /\ TodayDue'
    BY <1>d, <2>1, <2>2, <2>3 DEF StillDue, TodayDue
  <2>5. OneMorning'
    BY <2>1, <2>2, <2>3 DEF OneMorning, Today
  <2> QED BY <2>4, <2>5
<1>7. CASE Pass
  <2>1. now' = now + 1 /\ UNCHANGED <<done, told, tick, trouble>>
    BY <1>7 DEF Pass
  <2>2. /\ DateOf(now') \in Nat /\ DateOf(now) <= DateOf(now')
        /\ \A b \in told : DateOf(b.at) \in Nat /\ DateOf(b.at) <= DateOf(now)
    <3>1. \A b \in told : b.at \in Nat /\ b.at <= now
      BY <1>t DEF TypeOK
    <3> QED BY <1>t, <2>1, <3>1, DateOfBounds, DateOfMonotone
  <2>3. \A d : Today(d)' = Today(d)
    BY <2>1 DEF Today
  <2>4. ASSUME NEW d \in Nat, DateOf(now) < d PROVE Cardinality(Today(d)) = 0
    <3>1. Today(d) = {}
      BY <1>d, <2>2, <2>4 DEF Today
    <3> QED BY <3>1, FS_EmptySet
  <2>5. ASSUME DateOf(now') = DateOf(now) PROVE SentToday' = SentToday /\ OfToday' = OfToday
    <3>1. TypeOf(now') = TypeOf(now) /\ SlotOf(now') = SlotOf(now)
      BY <2>5 DEF TypeOf, SlotOf
    <3> QED BY <2>1, <2>5, <3>1 DEF SentToday, Sent, OfToday
  <2>6. StillDue'
    <3>1. CASE DateOf(now') = DateOf(now)
      BY <2>1, <2>5, <3>1 DEF StillDue
    <3>2. CASE DateOf(now') # DateOf(now)
      <4>1. ~OfToday'
        BY <1>d, <2>1, <2>2, <3>2 DEF OfToday
      <4> QED BY <4>1 DEF StillDue
    <3> QED BY <3>1, <3>2
  <2>7. TodayDue'
    <3>1. CASE DateOf(now') = DateOf(now)
      BY <2>1, <2>3, <2>5, <3>1 DEF TodayDue
    <3>2. CASE DateOf(now') # DateOf(now)
      <4>1. Cardinality(Today(DateOf(now'))) = 0
        BY <1>d, <2>2, <2>4, <3>2
      <4>2. Cardinality(Today(DateOf(now)))' = 0
        BY <2>1, <4>1 DEF Today
      <4> QED BY <1>t, <2>1, <4>2 DEF TodayDue
    <3> QED BY <3>1, <3>2
  <2>8. OneMorning'
    <3>1. ASSUME NEW d \in 0 .. DateOf(now') PROVE Cardinality(Today(d)) <= 1 + trouble
      BY <1>t, <1>d, <1>o, <2>2, <2>4
    <3> QED BY <2>1, <3>1 DEF OneMorning, Today
  <2> QED BY <2>6, <2>7, <2>8
<1>8. CASE UNCHANGED vars
  BY <1>8 DEF vars, StillDue, TodayDue, OneMorning, SentToday, Sent, OfToday, Today
<1> QED
  BY <1>1, <1>3, <1>4, <1>5, <1>6, <1>7, <1>8 DEF Next

-----------------------------------------------------------------------------
(* Nothing is lost but in the known gaps.                                     *)

(* Up to the last morning everything was told or is in a gap; from there to      *)
(* where the message under way starts everything is in a gap; and what that      *)
(* message covers is nothing if it is skipped, and told once it is sent.         *)
SomeTell(t) == \E e \in told : t > e.since /\ t <= e.until
Begun == first = Never <=> last = Never
ToldSoFar ==
  last # Never => \A t \in moved \ holes : first < t /\ t <= last => SomeTell(t)
GapBefore ==
  Active /\ last # Never => \A t \in moved \ holes : ~(last < t /\ t <= tick.since)
Covered ==
  /\ tick.pc = "skip" => Legs(tick.since, tick.at) = {}
  /\ tick.pc = "mark" => \E e \in told : e.since = tick.since /\ e.until = tick.at
LostInv == Begun /\ ToldSoFar /\ GapBefore /\ Covered /\ NothingLost

(* Every step keeps it. *)
LEMMA LostStep == ASSUME BriefsInv, LostInv, [Next]_vars PROVE LostInv'
<1> USE DEF BriefsInv, LostInv, Active
<1>t. /\ now \in Nat /\ tick.at \in Nat /\ tick.at <= now /\ tick.since \in Int
      /\ tick \in [pc: {"idle", "build", "skip", "send", "mark"}, at: 0 .. now, since: Int]
      /\ last \in Times /\ first \in Times /\ last <= now
      /\ Day \in Nat /\ LookBack \in Nat
  BY BriefsAssumption DEF TypeOK, Standing
<1>m. \A t \in moved : t \in Nat /\ t <= now
  BY <1>t DEF TypeOK
<1>b. \A b \in told : b.at \in Nat /\ b.at <= now /\ b.until \in Nat /\ b.until <= now
                     /\ b.since \in Int
  BY <1>t DEF TypeOK
<1>w. Waiting.pc = "idle"
  BY DEF Waiting
<1>1. CASE Look
  <2>1. tick' = [pc |-> "build", at |-> now, since |-> Since(now)] /\ holes' = holes \cup TooOld
        /\ UNCHANGED <<moved, last, told, first>>
    BY <1>1 DEF Look
  <2>2. ASSUME last # Never, NEW t \in moved \ holes', last < t, t <= Since(now) PROVE FALSE
    <3>1. Period(TypeOf(now)) \in Nat /\ t \in Nat
      BY <1>m, PeriodType
    <3>2. CASE TypeOf(now) = "daily" /\ last > now - LookBack
      BY <1>t, <2>2, <3>1, <3>2 DEF Since, Times, Never
    <3>3. CASE ~(TypeOf(now) = "daily" /\ last > now - LookBack)
      <4>1. Since(now) = now - Period(TypeOf(now))
        BY <3>3 DEF Since
      <4>2. TypeOf(now) = "daily" => last <= now - LookBack
        BY <1>t, <3>3 DEF Times, Never
      <4>3. t \in TooOld
        BY <2>2, <4>1, <4>2 DEF TooOld
      <4> QED BY <2>1, <2>2, <4>3
    <3> QED BY <3>2, <3>3
  <2>3. GapBefore' /\ Covered'
    BY <2>1, <2>2 DEF GapBefore, Covered
  <2>4. Begun' /\ ToldSoFar'
    BY <2>1 DEF Begun, ToldSoFar, SomeTell
  <2>5. NothingLost'
    BY <2>1 DEF NothingLost, Owed, ToldBy
  <2> QED BY <2>3, <2>4, <2>5
<1>2. CASE Build
  <2>1. PICK asks \in BOOLEAN : tick' = [tick EXCEPT !.pc =
          IF TypeOf(tick.at) = "daily" /\ Legs(tick.since, tick.at) = {} /\ ~asks
          THEN "skip" ELSE "send"]
    BY <1>2 DEF Build
  <2>2. /\ tick'.at = tick.at /\ tick'.since = tick.since
        /\ tick'.pc = "skip" => Legs(tick.since, tick.at) = {}
        /\ tick'.pc \in {"skip", "send"} /\ tick.pc = "build"
        /\ UNCHANGED <<moved, last, told, first, holes>>
    BY <1>2, <1>t, <2>1 DEF Build
  <2>3. GapBefore' /\ Covered'
    BY <2>2 DEF GapBefore, Covered, Legs
  <2>4. Begun' /\ ToldSoFar'
    BY <2>2 DEF Begun, ToldSoFar, SomeTell
  <2>5. NothingLost'
    BY <2>2 DEF NothingLost, Owed, ToldBy
  <2> QED BY <2>3, <2>4, <2>5
<1>3. ASSUME Close, UNCHANGED <<now, moved, told, trouble>>, tick.pc \in {"skip", "mark"}
      PROVE  LostInv'
  <2>1. /\ last' = now /\ tick' = Waiting /\ tick'.pc = "idle"
        /\ holes' = holes \cup {t \in moved : t > tick.at /\ t <= now}
        /\ first' = IF first = Never THEN tick.at ELSE first
        /\ UNCHANGED <<moved, told>>
    BY <1>3, <1>w DEF Close
  <2>2. Begun' /\ first' # Never
    BY <1>t, <2>1 DEF Begun, Never
  <2>3. GapBefore' /\ Covered'
    BY <2>1 DEF GapBefore, Covered
  <2>4. ASSUME NEW t \in moved \ holes', first' < t PROVE SomeTell(t)
    <3>1. t \in Nat /\ t <= tick.at /\ t \notin holes
      BY <1>m, <1>t, <2>1, <2>4
    <3>2. first # Never /\ last # Never
      BY <1>t, <2>1, <2>4, <3>1 DEF Begun
    <3>3. CASE t <= last
      BY <2>1, <2>4, <3>1, <3>2, <3>3 DEF ToldSoFar
    <3>4. CASE last < t
      <4>1. tick.since < t
        BY <1>3, <1>t, <2>4, <3>1, <3>2, <3>4 DEF GapBefore
      <4>2. t \in Legs(tick.since, tick.at)
        BY <1>t, <2>4, <3>1, <4>1 DEF Legs
      <4>3. tick.pc = "mark"
        BY <1>3, <4>2 DEF Covered
      <4>4. PICK e \in told : e.since = tick.since /\ e.until = tick.at
        BY <4>3 DEF Covered
      <4> QED BY <3>1, <4>1, <4>4 DEF SomeTell
    <3> QED BY <1>t, <3>1, <3>3, <3>4 DEF Times, Never
  <2>5. ToldSoFar'
    BY <2>1, <2>4 DEF ToldSoFar, SomeTell
  <2>6. ASSUME NEW b \in told, NEW t \in Owed(b)' \ holes' PROVE ToldBy(b, t)
    <3>1. t \in moved /\ t > first' /\ t <= b.until /\ t \in Nat /\ t \notin holes
      BY <1>m, <2>1, <2>6 DEF Owed
    <3>2. first # Never
      <4>1. b.until <= tick.at
        BY <1>3 DEF Standing
      <4> QED BY <1>b, <1>t, <2>1, <3>1, <4>1
    <3>3. t \in Owed(b)
      BY <2>1, <3>1, <3>2 DEF Owed
    <3> QED BY <3>1, <3>3 DEF NothingLost
  <2>7. NothingLost'
    BY <2>1, <2>6 DEF NothingLost, ToldBy
  <2> QED BY <2>2, <2>3, <2>5, <2>7
<1>4. CASE Skip
  BY <1>3, <1>4 DEF Skip
<1>5. CASE Send
  <2>1. /\ tick' = [tick EXCEPT !.pc = "mark"] /\ told' = told \cup {Going} /\ tick.pc = "send"
        /\ UNCHANGED <<now, moved, last, first, holes>>
    BY <1>5 DEF Send, Going
  <2>2. tick'.pc = "mark" /\ tick'.at = tick.at /\ tick'.since = tick.since
    BY <1>t, <2>1
  <2>3. Going.at = now /\ Going.since = tick.since /\ Going.until = tick.at
    BY DEF Going
  <2>4. Begun' /\ GapBefore'
    BY <2>1, <2>2 DEF Begun, GapBefore
  <2>5. Covered'
    BY <2>1, <2>2, <2>3 DEF Covered
  <2>6. ToldSoFar'
    <3>1. ASSUME NEW t, SomeTell(t) PROVE SomeTell(t)'
      BY <2>1, <3>1 DEF SomeTell
    <3> QED BY <2>1, <3>1 DEF ToldSoFar
  <2>7. ASSUME NEW b \in told', NEW t \in moved \ holes, first # Never, t > first, t <= b.until
        PROVE  ToldBy(b, t)'
    <3>1. CASE b \in told
      <4>1. ToldBy(b, t)
        BY <2>7, <3>1 DEF NothingLost, Owed
      <4> QED BY <2>1, <4>1 DEF ToldBy
    <3>2. CASE b = Going
      <4>1. t \in Nat /\ t <= tick.at /\ last # Never
        BY <1>m, <2>3, <2>7, <3>2 DEF Begun
      <4>2. CASE t <= last
        <5>1. PICK e \in told : t > e.since /\ t <= e.until
          BY <2>7, <4>1, <4>2 DEF ToldSoFar, SomeTell
        <5>2. e.at <= b.at /\ e \in told'
          BY <1>b, <2>1, <2>3, <3>2
        <5> QED BY <5>1, <5>2 DEF ToldBy
      <4>3. CASE last < t
        <5>1. tick.since < t
          BY <1>t, <2>1, <2>7, <4>1, <4>3 DEF GapBefore
        <5>2. Going \in told' /\ Going.at <= b.at
          BY <1>t, <2>1, <2>3, <3>2
        <5> QED BY <2>3, <4>1, <5>1, <5>2 DEF ToldBy
      <4> QED BY <1>t, <4>1, <4>2, <4>3 DEF Times, Never
    <3> QED BY <2>1, <2>7, <3>1, <3>2
  <2>8. NothingLost'
    BY <2>1, <2>7 DEF NothingLost, Owed
  <2> QED BY <2>4, <2>5, <2>6, <2>8
<1>6. CASE MarkBriefSent
  BY <1>3, <1>6 DEF MarkBriefSent
<1>7. CASE Fail \/ Restart
  <2>1. tick'.pc = "idle" /\ UNCHANGED <<moved, last, told, first, holes>>
    BY <1>7, <1>w DEF Fail, Restart
  <2>2. Begun' /\ ToldSoFar' /\ GapBefore' /\ Covered'
    BY <2>1 DEF Begun, ToldSoFar, SomeTell, GapBefore, Covered
  <2>3. NothingLost'
    BY <2>1 DEF NothingLost, Owed, ToldBy
  <2> QED BY <2>2, <2>3
<1>8. CASE Pass
  <2>1. /\ moved' \subseteq moved \cup {now + 1}
        /\ UNCHANGED <<last, told, first, holes, tick>>
    BY <1>8 DEF Pass
  <2>2. Begun'
    BY <2>1 DEF Begun
  <2>3. ToldSoFar'
    <3>1. ASSUME NEW t \in moved', t <= last PROVE t \in moved
      BY <1>t, <2>1, <3>1 DEF Times, Never
    <3> QED BY <2>1, <3>1 DEF ToldSoFar, SomeTell
  <2>4. Covered'
    <3>1. ASSUME NEW t \in moved', t <= tick.at PROVE t \in moved
      BY <1>t, <2>1, <3>1
    <3> QED BY <2>1, <3>1 DEF Covered, Legs
  <2>5. GapBefore'
    <3>1. ASSUME Active PROVE tick.since <= now
      BY <1>t, <3>1 DEF Standing
    <3>2. ASSUME Active, NEW t \in moved', t <= tick.since PROVE t \in moved
      BY <1>t, <2>1, <3>1, <3>2
    <3> QED BY <2>1, <3>2 DEF GapBefore
  <2>6. NothingLost'
    <3>1. ASSUME NEW b \in told, NEW t \in moved', t <= b.until PROVE t \in moved
      BY <1>b, <1>t, <2>1, <3>1
    <3> QED BY <2>1, <3>1 DEF NothingLost, Owed, ToldBy
  <2> QED BY <2>2, <2>3, <2>4, <2>5, <2>6
<1>9. CASE UNCHANGED vars
  <2>1. UNCHANGED <<moved, last, told, first, holes, tick>>
    BY <1>9 DEF vars
  <2>2. Begun' /\ ToldSoFar' /\ GapBefore' /\ Covered'
    BY <2>1 DEF Begun, ToldSoFar, SomeTell, GapBefore, Covered, Legs
  <2>3. NothingLost'
    BY <2>1 DEF NothingLost, Owed, ToldBy
  <2> QED BY <2>2, <2>3
<1> QED
  BY <1>1, <1>2, <1>4, <1>5, <1>6, <1>7, <1>8, <1>9 DEF Next

-----------------------------------------------------------------------------
(* The theorems.                                                              *)

(* The initial state satisfies all of it. *)
LEMMA InitInv == Init => BriefsInv /\ FreshInv /\ MorningInv /\ LostInv
<1> SUFFICES ASSUME Init PROVE BriefsInv /\ FreshInv /\ MorningInv /\ LostInv
  OBVIOUS
<1> USE DEF Init
<1>1. MaxAttempts \in Nat /\ Waiting \in [pc: {"idle"}, at: {0}, since: {0}]
  BY BriefsAssumption DEF Waiting
<1>2. TypeOK
  <2>1. /\ now = 0 /\ moved = {} /\ last = Never /\ first = Never /\ holes = {} /\ trouble = 0
        /\ Never \in Times
    BY DEF Times, Never
  <2>2. done \in [Types -> Times] /\ saved \in [Types -> Times]
    BY <2>1
  <2>3. tick \in [pc: {"idle", "build", "skip", "send", "mark"}, at: 0 .. now, since: Int]
    BY <1>1
  <2>4. attempts \in [date: Nat, n: 0 .. MaxAttempts]
    BY <1>1
  <2>5. told = {} /\ IsFiniteSet(told)
    BY FS_EmptySet
  <2> QED BY <2>1, <2>2, <2>3, <2>4, <2>5 DEF TypeOK
<1>3. tick.pc = "idle"
  BY DEF Waiting
<1>4. Standing
  BY <1>3 DEF Standing, Active, Never
<1>5. Cardinality({}) = 0
  BY FS_EmptySet
<1>6. FreshInv
  <2>1. Fresh = {} /\ \A t : Telling(t) = {}
    BY DEF Fresh, Daily, Telling
  <2> QED BY <1>3, <1>5, <2>1 DEF FreshInv, FromLast, FewFresh, OldToldOnce, InFlight, Active, Never
<1>7. MorningInv
  <2>1. \A d : Today(d) = {}
    BY DEF Today
  <2> QED BY <1>3, <1>5, <2>1 DEF MorningInv, StillDue, TodayDue, OneMorning, Today, Active
<1>8. LostInv
  BY <1>3 DEF LostInv, Begun, ToldSoFar, GapBefore, Covered, NothingLost, Active, Never
<1> QED BY <1>2, <1>4, <1>6, <1>7, <1>8 DEF BriefsInv

(* Every state of the mornings is well formed. *)
THEOREM BriefsTypes == Spec => []BriefsInv
<1>1. BriefsInv /\ [Next]_vars => BriefsInv'
  BY TypeStep
<1>2. Init => BriefsInv
  BY InitInv
<1> QED BY <1>1, <1>2, PTL DEF Spec

(* However mornings fail, repeat, come late or are skipped, no transfer is in more *)
(* than one daily message, but for one more each time there was trouble           *)
(* (scheduler.ts, deliverIfDue; store.ts, lastMorning).                        *)
THEOREM NoTransferToldTwice == Spec => []ToldOnce
<1>1. BriefsInv /\ FreshInv /\ [Next]_vars => FreshInv'
  BY FreshStep
<1>2. BriefsInv /\ FreshInv => ToldOnce
  BY FreshIsOnce
<1>3. Init => FreshInv
  BY InitInv
<1> QED BY BriefsTypes, <1>1, <1>2, <1>3, PTL DEF Spec

(* No day has two morning messages, whatever their types, but for one more each    *)
(* time there was trouble (store.ts, getBriefSlotStatus).                      *)
THEOREM OneMorningADay == Spec => []OneMorning
<1>1. BriefsInv /\ MorningInv /\ [Next]_vars => MorningInv'
  BY MorningStep
<1>2. MorningInv => OneMorning
  BY DEF MorningInv
<1>3. Init => MorningInv
  BY InitInv
<1> QED BY BriefsTypes, <1>1, <1>2, <1>3, PTL DEF Spec

(* Once mornings have begun, a message leaves out nothing that moved before it,     *)
(* unless an earlier one told it or it is in one of the two gaps: moved while an    *)
(* earlier message was on its way, or older than messages look back               *)
(* (scheduler.ts, deliverIfDue).                                               *)
THEOREM OnlyGapsAreLost == Spec => []NothingLost
<1>1. BriefsInv /\ LostInv /\ [Next]_vars => LostInv'
  BY LostStep
<1>2. LostInv => NothingLost
  BY DEF LostInv
<1>3. Init => LostInv
  BY InitInv
<1> QED BY BriefsTypes, <1>1, <1>2, <1>3, PTL DEF Spec

-----------------------------------------------------------------------------
(* The holdings.                                                              *)

(* What a reading says of an asset: an amount, and a price unless it is unknown. *)
LEMMA ReadingTypes ==
  ASSUME NEW h \in H!Reading, NEW a \in H!Assets
  PROVE  H!Held(h, a) \in Nat /\ h[a].price \in Nat /\ h["USDC"].price = 1
<1>1. Prices \subseteq Nat /\ Amounts \subseteq Nat
  BY HoldingsAssumption
<1>2. /\ h \in [H!Assets -> [wallet: Amounts, staked: Amounts, price: Prices \cup {1, H!NoPrice}]]
      /\ h["USDC"].price = 1
  BY Zenon DEF H!Reading
<1>3. h[a] \in [wallet: Amounts, staked: Amounts, price: Prices \cup {1, 0}]
  BY <1>2 DEF H!NoPrice
<1>4. /\ h[a].wallet \in Amounts /\ h[a].staked \in Amounts
      /\ h[a].price \in Prices \cup {1, 0}
  BY <1>3, Zenon
<1>5. /\ \A x \in Amounts : x \in Nat
      /\ \A x \in Prices \cup {1, 0} : x \in Nat
  BY <1>1
<1>6. h[a].wallet \in Nat /\ h[a].staked \in Nat /\ h[a].price \in Nat
  BY <1>4, <1>5, Zenon
<1> QED BY <1>2, <1>6 DEF H!Held

(* For two numbers of units at two prices: the change in value is what prices did  *)
(* to the later number and what the movement was worth at the earlier price.      *)
LEMMA ExactSplit ==
  ASSUME NEW p \in Nat, NEW q \in Nat, NEW m \in Nat, NEW n \in Nat
  PROVE  n * q - m * p = n * (q - p) + (n - m) * p
<1>1. /\ n * (q - p) = n * q - n * p
      /\ (n - m) * p = n * p - m * p
  OBVIOUS
<1>2. n * q \in Int /\ n * p \in Int /\ m * p \in Int
  OBVIOUS
<1> QED BY <1>1, <1>2

(* Of each asset the change is the sum of the two parts, prices missing or not,     *)
(* when the mornings can be compared.                                         *)
LEMMA SplitOfAsset ==
  ASSUME NEW prev \in H!Reading, NEW now_ \in H!Reading, H!Comparable(prev, now_),
         NEW a \in H!Assets
  PROVE  /\ H!ByPrice(prev, now_, a) \in Int /\ H!Moved(prev, now_, a) \in Int
         /\ H!Held(prev, a) * prev[a].price \in Int /\ H!Held(now_, a) * now_[a].price \in Int
         /\ H!Held(now_, a) * now_[a].price - H!Held(prev, a) * prev[a].price
              = H!ByPrice(prev, now_, a) + H!Moved(prev, now_, a)
<1> DEFINE m == H!Held(prev, a)
           n == H!Held(now_, a)
           p == prev[a].price
           q == now_[a].price
<1>1. m \in Nat /\ n \in Nat /\ p \in Nat /\ q \in Nat
  BY ReadingTypes
<1>2. (m > 0 => p # 0) /\ (n > 0 => q # 0 /\ p # 0)
  BY DEF H!Comparable, H!Known, H!NoPrice
<1>3. /\ H!ByPrice(prev, now_, a) = IF p # 0 /\ q # 0 THEN n * (q - p) ELSE 0
      /\ H!Moved(prev, now_, a) = (n - m) * (IF p # 0 THEN p ELSE q)
  BY DEF H!ByPrice, H!Moved, H!Known, H!NoPrice
<1> HIDE DEF m, n, p, q
<1>4. /\ n * (q - p) \in Int /\ (n - m) * p \in Int /\ (n - m) * q \in Int
      /\ m * p \in Int /\ n * q \in Int
  BY <1>1
<1>5. CASE p # 0 /\ q # 0
  BY <1>1, <1>3, <1>4, <1>5, ExactSplit DEF m, n, p, q
<1>6. CASE p # 0 /\ q = 0
  <2>1. n = 0
    BY <1>1, <1>2, <1>6
  <2>2. (n - m) * p = - (m * p) /\ n * q = 0
    BY <1>1, <2>1
  <2> QED BY <1>3, <1>4, <1>6, <2>2 DEF m, n, p, q
<1>7. CASE p = 0
  <2>1. n = 0 /\ m = 0
    BY <1>1, <1>2, <1>7
  <2>2. (n - m) * q = 0 /\ n * q = 0 /\ m * p = 0
    BY <1>1, <2>1
  <2> QED BY <1>3, <1>4, <1>7, <2>2 DEF m, n, p, q
<1> QED BY <1>5, <1>6, <1>7

(* A dollar stays a dollar. *)
LEMMA DollarStays ==
  ASSUME NEW prev \in H!Reading, NEW now_ \in H!Reading
  PROVE  H!ByPrice(prev, now_, "USDC") = 0
<1>1. prev["USDC"].price = 1 /\ now_["USDC"].price = 1 /\ H!Held(now_, "USDC") \in Nat
  BY ReadingTypes DEF H!Assets
<1>2. H!Held(now_, "USDC") * (1 - 1) = 0
  BY <1>1
<1> QED BY <1>1, <1>2 DEF H!ByPrice

(* A sum with its larger part goes the way of that part; and of two prices that     *)
(* make up a part, the one that did most.                                      *)
LEMMA LargerPart ==
  ASSUME NEW x \in Int, NEW y \in Int, NEW mv \in Int, x + y + mv # 0
  PROVE  /\ H!Size(x + y) < H!Size(mv) => H!Sign(mv) = H!Sign(x + y + mv)
         /\ H!Size(x + y) >= H!Size(mv) =>
              /\ H!Size(y) <= H!Size(x) => H!Sign(x) = H!Sign(x + y + mv)
              /\ H!Size(x) <= H!Size(y) => H!Sign(y) = H!Sign(x + y + mv)
              /\ H!Size(x) <= 0 /\ H!Size(y) <= 0 => FALSE
BY DEF H!Size, H!Sign

(* Two mornings that compare: the change is split exactly, and the reason told has   *)
(* its sign.                                                                 *)
LEMMA ReasonOfTwo ==
  ASSUME NEW prev \in H!Reading, NEW now_ \in H!Reading, H!Comparable(prev, now_)
  PROVE  LET change == H!HoldingsChange(prev, now_)
         IN /\ change.delta = H!Over(change.price) + change.moved
            /\ H!Told(prev, now_) =>
                 \A r \in H!Reasons(change) : H!Sign(r) = H!Sign(change.delta)
<1> DEFINE change == H!HoldingsChange(prev, now_)
           pr == change.price
           mv == change.moved
           e == H!ByPrice(prev, now_, "ETH")
           b == H!ByPrice(prev, now_, "BNKR")
<1>1. \A a \in H!Assets :
        /\ H!ByPrice(prev, now_, a) \in Int /\ H!Moved(prev, now_, a) \in Int
        /\ H!Held(prev, a) * prev[a].price \in Int /\ H!Held(now_, a) * now_[a].price \in Int
        /\ H!Held(now_, a) * now_[a].price - H!Held(prev, a) * prev[a].price
              = H!ByPrice(prev, now_, a) + H!Moved(prev, now_, a)
  BY SplitOfAsset
<1>2. H!Assets = {"ETH", "USDC", "BNKR"}
  BY DEF H!Assets
<1>3. /\ change.delta = H!HoldingsValue(now_) - H!HoldingsValue(prev)
      /\ pr = [a \in H!Assets |-> H!ByPrice(prev, now_, a)]
      /\ mv = H!Over([a \in H!Assets |-> H!Moved(prev, now_, a)])
  BY DEF H!HoldingsChange
<1> HIDE DEF change, pr, mv
<1>4. /\ mv = H!Moved(prev, now_, "ETH") + H!Moved(prev, now_, "USDC") + H!Moved(prev, now_, "BNKR")
      /\ \A h \in H!Reading : H!HoldingsValue(h) =
           H!Held(h, "ETH") * h["ETH"].price + H!Held(h, "USDC") * h["USDC"].price
             + H!Held(h, "BNKR") * h["BNKR"].price
  BY <1>2, <1>3 DEF H!Over, H!HoldingsValue
<1>5. e \in Int /\ b \in Int /\ mv \in Int /\ H!ByPrice(prev, now_, "USDC") = 0
  BY <1>1, <1>2, <1>4, DollarStays
<1>6. pr["ETH"] = e /\ pr["USDC"] = 0 /\ pr["BNKR"] = b
  BY <1>2, <1>3, <1>5
<1> HIDE DEF e, b
<1>7. H!Over(pr) = e + b
  BY <1>5, <1>6 DEF H!Over
<1>8. change.delta = e + b + mv
  BY <1>1, <1>2, <1>3, <1>4, <1>5 DEF e, b
<1>9. ASSUME H!Told(prev, now_), NEW r \in H!Reasons(change)
      PROVE  H!Sign(r) = H!Sign(change.delta)
  <2>1. change.delta # 0
    <3>1. H!Size(change.delta) >= MinChange /\ MinChange \in Nat /\ MinChange > 0
      BY <1>9, HoldingsAssumption DEF H!Told, change
    <3> QED BY <3>1 DEF H!Size
  <2>2. CASE ~(H!Size(H!Over(pr)) >= H!Size(mv))
    <3>1. r = mv
      BY <1>9, <2>2 DEF H!Reasons, pr, mv
    <3>2. H!Size(e + b) < H!Size(mv)
      BY <1>5, <1>7, <2>2 DEF H!Size
    <3>3. H!Sign(mv) = H!Sign(e + b + mv)
      BY <1>5, <1>8, <2>1, <3>2, LargerPart
    <3> QED BY <1>8, <3>1, <3>3
  <2>3. CASE H!Size(H!Over(pr)) >= H!Size(mv)
    <3>1. PICK a \in H!Assets : r = pr[a] /\ \A c \in H!Assets : H!Size(pr[c]) <= H!Size(pr[a])
      BY <1>9, <2>3 DEF H!Reasons, pr, mv
    <3>2. H!Size(e) <= H!Size(pr[a]) /\ H!Size(b) <= H!Size(pr[a])
      BY <1>2, <1>6, <3>1
    <3>3. a # "USDC"
      <4>1. H!Size(0) = 0
        BY DEF H!Size
      <4> QED BY <1>5, <1>6, <1>7, <1>8, <2>1, <2>3, <3>2, <4>1, LargerPart
    <3>4. H!Size(e + b) >= H!Size(mv) /\ e + b + mv # 0
      BY <1>7, <1>8, <2>1, <2>3
    <3>5. CASE a = "ETH"
      <4>1. r = e /\ H!Size(b) <= H!Size(e)
        BY <1>6, <3>1, <3>2, <3>5
      <4> QED BY <1>5, <1>8, <3>4, <4>1, LargerPart
    <3>6. CASE a = "BNKR"
      <4>1. r = b /\ H!Size(e) <= H!Size(b)
        BY <1>6, <3>1, <3>2, <3>6
      <4> QED BY <1>5, <1>8, <3>4, <4>1, LargerPart
    <3> QED BY <1>2, <3>1, <3>3, <3>5, <3>6
  <2> QED BY <2>2, <2>3
<1> QED BY <1>5, <1>7, <1>8, <1>9 DEF change, pr, mv

(* Whatever is held, staked and paid for each asset on two mornings, prices missing  *)
(* or not: what prices did and what moved add up to the change told, and the one     *)
(* reason named for it went the same way (generate.ts, holdingsChange,            *)
(* holdingsLine).                                                             *)
THEOREM ReasonsAlwaysRight == MCSpec => []ReasonIsRight
<1> DEFINE mcvars == <<vars, legs, story, readings, asking, about>>
<1>1. MCInit => H!TypeOK
  BY DEF MCInit, H!Init, H!TypeOK
<1>2. H!TypeOK /\ [MCNext]_mcvars => H!TypeOK'
  <2> SUFFICES ASSUME H!TypeOK, [MCNext]_mcvars PROVE H!TypeOK'
    OBVIOUS
  <2>1. CASE readings' = readings
    BY <2>1 DEF H!TypeOK
  <2>2. CASE H!Next
    <3>1. PICK h \in H!Reading : readings' = Append(readings, h) /\ Len(readings) < 2
      BY <2>2 DEF H!Next, H!Read
    <3> QED BY <3>1 DEF H!TypeOK
  <2> QED BY <2>1, <2>2 DEF MCNext
<1>3. H!TypeOK => ReasonIsRight
  <2> SUFFICES ASSUME H!TypeOK, Len(readings) = 2, H!Comparable(readings[1], readings[2])
               PROVE  LET change == H!HoldingsChange(readings[1], readings[2])
                      IN /\ change.delta = H!Over(change.price) + change.moved
                         /\ H!Told(readings[1], readings[2]) =>
                              \A r \in H!Reasons(change) : H!Sign(r) = H!Sign(change.delta)
    BY DEF ReasonIsRight, H!ReasonIsRight
  <2>1. readings \in Seq(H!Reading)
    BY DEF H!TypeOK
  <2>2. readings[1] \in H!Reading /\ readings[2] \in H!Reading
    BY <2>1, ElementOfSeq
  <2> QED BY <2>2, ReasonOfTwo
<1> QED BY <1>1, <1>2, <1>3, PTL DEF MCSpec

-----------------------------------------------------------------------------
(* The story.                                                                 *)

LegsFit == legs \in Seq(S!Leg)

(* The line a leg told by its own kind is in. *)
ToldLegs == {i \in DOMAIN legs : S!Told(i)}
LineOf(i) ==
  [kind |-> S!KeyOf(i).kind, who |-> S!KeyOf(i).who, legs |-> {j \in ToldLegs : S!KeyOf(j) = S!KeyOf(i)}]
SwapLine(t) == [kind |-> "swap", who |-> S!None, legs |-> S!Of(t)]
LinesWith(items, i) == {it \in items : i \in it.legs}

(* Story counts with the Cardinality of FiniteSets. *)
LEMMA StoryCount == \A X : S!Cardinality(X) = Cardinality(X)
  BY DEF S!Cardinality, Cardinality

(* What a leg says. *)
LEMMA LegTypes ==
  ASSUME LegsFit, NEW i \in DOMAIN legs
  PROVE  /\ legs[i].tx \in 1 .. MaxTxs /\ legs[i].dir \in {"in", "out"}
         /\ legs[i].gas \in BOOLEAN /\ legs[i].fees \in BOOLEAN /\ legs[i].swap \in BOOLEAN
<1>1. i \in 1 .. Len(legs)
  BY DEF LegsFit
<1>2. legs[i] \in S!Leg
  BY <1>1, ElementOfSeq DEF LegsFit
<1> QED BY <1>2 DEF S!Leg, S!Dirs

(* The lines of a story are those of its told legs and of its swaps. *)
LEMMA StoryLines ==
  S!StoryItems = {LineOf(i) : i \in ToldLegs}
    \cup {SwapLine(t) : t \in {u \in 1 .. MaxTxs : S!Of(u) # {} /\ S!SwapTx(u)}}
<1>1. {[kind |-> k.kind, who |-> k.who, legs |-> {j \in ToldLegs : S!KeyOf(j) = k}] :
         k \in {S!KeyOf(i) : i \in ToldLegs}}
      = {LineOf(i) : i \in ToldLegs}
  BY DEF LineOf
<1> QED BY <1>1 DEF S!StoryItems, ToldLegs, SwapLine

(* There are finitely many of them. *)
LEMMA StoryIsFinite ==
  ASSUME LegsFit PROVE IsFiniteSet(S!StoryItems)
<1> DEFINE A == {LineOf(i) : i \in ToldLegs}
           T == {u \in 1 .. MaxTxs : S!Of(u) # {} /\ S!SwapTx(u)}
           B == {SwapLine(t) : t \in T}
           f == [i \in ToldLegs |-> LineOf(i)]
           g == [t \in T |-> SwapLine(t)]
<1>1. IsFiniteSet(ToldLegs)
  <2>1. Len(legs) \in Nat /\ ToldLegs \in SUBSET (1 .. Len(legs))
    BY DEF LegsFit, ToldLegs
  <2>2. IsFiniteSet(1 .. Len(legs))
    BY <2>1, FS_Interval
  <2> QED BY <2>1, <2>2, FS_Subset
<1>2. IsFiniteSet(T)
  <2>1. IsFiniteSet(1 .. MaxTxs) /\ T \in SUBSET (1 .. MaxTxs)
    BY StoryAssumption, FS_Interval
  <2> QED BY <2>1, FS_Subset
<1> HIDE DEF T
<1>3. f \in Surjection(ToldLegs, A) /\ g \in Surjection(T, B)
  BY DEF Surjection
<1> HIDE DEF f, g, A, B
<1>4. IsFiniteSet(A) /\ IsFiniteSet(B)
  BY <1>1, <1>2, <1>3, FS_Surjection
<1>5. IsFiniteSet(A \cup B)
  BY <1>4, FS_Union
<1> QED BY <1>5, StoryLines DEF A, B, T

(* A leg is in the line of its own kind alone, in its swap's alone, or in none. *)
LEMMA LinesOfLeg ==
  ASSUME LegsFit, NEW i \in DOMAIN legs, ~legs[i].gas
  PROVE  /\ S!SwapTx(legs[i].tx) => LinesWith(S!StoryItems, i) = {SwapLine(legs[i].tx)}
         /\ ~S!SwapTx(legs[i].tx) /\ S!Told(i) => LinesWith(S!StoryItems, i) = {LineOf(i)}
         /\ ~S!SwapTx(legs[i].tx) /\ ~S!Told(i) => LinesWith(S!StoryItems, i) = {}
<1>1. i \in S!Of(legs[i].tx) /\ legs[i].tx \in 1 .. MaxTxs
  BY LegTypes DEF S!Of, S!Moves
<1>2. \A t : i \in S!Of(t) => t = legs[i].tx
  BY DEF S!Of
<1>3. S!Told(i) => ~S!SwapTx(legs[i].tx)
  BY DEF S!Told
<1>4. \A j \in ToldLegs : i \in LineOf(j).legs => i \in ToldLegs /\ LineOf(j) = LineOf(i)
  BY DEF LineOf
<1>5. i \in ToldLegs <=> S!Told(i)
  BY DEF ToldLegs
<1>6. S!Told(i) => i \in LineOf(i).legs
  BY <1>5 DEF LineOf
<1>7. \A t : SwapLine(t).legs = S!Of(t)
  BY DEF SwapLine
<1> DEFINE T == {u \in 1 .. MaxTxs : S!Of(u) # {} /\ S!SwapTx(u)}
<1>8. \A it \in S!StoryItems : (\E j \in ToldLegs : it = LineOf(j)) \/ (\E t \in T : it = SwapLine(t))
  BY StoryLines
<1>9. CASE S!SwapTx(legs[i].tx)
  <2>1. legs[i].tx \in T
    BY <1>1, <1>9
  <2>2. SwapLine(legs[i].tx) \in S!StoryItems
    BY <2>1, StoryLines
  <2>3. ASSUME NEW it \in S!StoryItems, i \in it.legs PROVE it = SwapLine(legs[i].tx)
    BY <1>2, <1>3, <1>4, <1>5, <1>7, <1>8, <1>9, <2>3
  <2> QED BY <1>1, <1>3, <1>7, <1>9, <2>2, <2>3 DEF LinesWith
<1>10. CASE ~S!SwapTx(legs[i].tx)
  <2>1. \A t \in T : i \notin SwapLine(t).legs
    BY <1>2, <1>7, <1>10
  <2>2. \A it \in S!StoryItems : i \in it.legs => S!Told(i) /\ it = LineOf(i)
    BY <1>4, <1>5, <1>8, <2>1
  <2>3. S!Told(i) => LineOf(i) \in S!StoryItems
    BY <1>5, StoryLines
  <2> QED BY <1>6, <1>10, <2>2, <2>3 DEF LinesWith
<1> QED BY <1>9, <1>10

(* What a leg may be told as. *)
LEMMA Kinds ==
  ASSUME LegsFit, NEW i \in DOMAIN legs
  PROVE  /\ S!KindOf(legs[i]) = S!Unplaced(legs[i].dir) \/ S!KindOf(legs[i]) \in S!Named
         /\ S!KindOf(legs[i]) = "unplaced_in" => legs[i].dir = "in"
         /\ S!KindOf(legs[i]) = "unplaced_out" => legs[i].dir = "out"
         /\ S!KindOf(legs[i]) = "moved" => legs[i].label = "internal_transfer"
         /\ S!Unplaced(legs[i].dir) \notin S!Named
<1>1. legs[i].dir \in {"in", "out"} /\ legs[i].fees \in BOOLEAN
  BY LegTypes
<1> QED BY <1>1 DEF S!KindOf, S!Named, S!Unplaced

(* A leg worth telling that is in no line is an own move told from the other side. *)
LEMMA UntoldIsOwnMove ==
  ASSUME LegsFit, NEW i \in DOMAIN legs, S!WorthTelling(i), ~S!SwapTx(legs[i].tx), ~S!Told(i)
  PROVE  S!OwnMove(i)
<1>1. ~legs[i].gas /\ legs[i].usd # "cent" /\ (S!Placed(i) \/ ~S!Dust(i))
  BY DEF S!WorthTelling
<1>2. ~(S!Dust(i) /\ S!KindOf(legs[i]) = "unplaced_in")
  BY <1>1, Kinds DEF S!Placed, S!Unplaced
<1>3. S!KindOf(legs[i]) = "moved" /\ legs[i].dir = "in" /\ S!SentInside(legs[i].tx)
  BY <1>1, <1>2 DEF S!Told
<1> QED BY <1>3, Kinds DEF S!OwnMove, S!SentInside

(* The line of a leg's own kind: what it is called and of whom it is. *)
LEMMA KindOfLine ==
  ASSUME LegsFit, NEW i \in DOMAIN legs
  PROVE  /\ LineOf(i).kind = IF S!KindOf(legs[i]) = "moved" /\ legs[i].dir = "in"
                             THEN "moved_in" ELSE S!KindOf(legs[i])
         /\ S!KindOf(legs[i]) # "fees" => LineOf(i).who = legs[i].who
BY DEF LineOf, S!KeyOf

(* A line is asked about instead exactly when its leg is not placed and asked for. *)
LEMMA AskedLine ==
  ASSUME LegsFit, NEW i \in DOMAIN legs, ~S!SwapTx(legs[i].tx), NEW asks \in SUBSET S!Askable
  PROVE  (\E a \in asks : LineOf(i).kind = S!Unplaced(a[1]) /\ LineOf(i).who = a[2])
           <=> (~S!Placed(i) /\ <<legs[i].dir, legs[i].who>> \in asks)
<1>1. \A a \in asks : \E j \in DOMAIN legs : a = <<legs[j].dir, legs[j].who>>
  BY DEF S!Askable, S!Moves
<1>2. \A a \in asks : a[1] \in {"in", "out"} /\ a = <<a[1], a[2]>>
  BY <1>1, LegTypes
<1>3. ~S!Placed(i) <=> S!KindOf(legs[i]) = S!Unplaced(legs[i].dir)
  BY DEF S!Placed
<1>4. ASSUME NEW a \in asks, LineOf(i).kind = S!Unplaced(a[1]), LineOf(i).who = a[2]
      PROVE  ~S!Placed(i) /\ <<legs[i].dir, legs[i].who>> \in asks
  <2>1. LineOf(i).kind \in {"unplaced_in", "unplaced_out"}
    BY <1>4 DEF S!Unplaced
  <2>2. LineOf(i).kind = S!KindOf(legs[i]) /\ LineOf(i).who = legs[i].who
    BY <2>1, KindOfLine
  <2>3. a[1] = legs[i].dir
    BY <1>2, <1>4, <2>2, Kinds, LegTypes DEF S!Unplaced
  <2> QED BY <1>2, <1>3, <1>4, <2>2, <2>3
<1>5. ASSUME ~S!Placed(i), <<legs[i].dir, legs[i].who>> \in asks
      PROVE  \E a \in asks : LineOf(i).kind = S!Unplaced(a[1]) /\ LineOf(i).who = a[2]
  <2>1. S!KindOf(legs[i]) \in {"unplaced_in", "unplaced_out"}
    BY <1>3, <1>5 DEF S!Unplaced
  <2>2. LineOf(i).kind = S!Unplaced(legs[i].dir) /\ LineOf(i).who = legs[i].who
    BY <1>3, <1>5, <2>1, KindOfLine
  <2> WITNESS <<legs[i].dir, legs[i].who>> \in asks
  <2> QED BY <2>2
<1> QED BY <1>4, <1>5

(* Lines of a message among those of the story: none of a leg's, or the one it has.   *)
LEMMA CountOfLeg ==
  ASSUME NEW i, NEW items \in SUBSET S!StoryItems, NEW it, LinesWith(S!StoryItems, i) = {it}
  PROVE  /\ it \in items => S!Cardinality(LinesWith(items, i)) = 1
         /\ it \notin items => S!Cardinality(LinesWith(items, i)) = 0
<1>1. it \in items => LinesWith(items, i) = {it}
  BY DEF LinesWith
<1>2. it \notin items => LinesWith(items, i) = {}
  BY DEF LinesWith
<1> QED BY <1>1, <1>2, StoryCount, FS_Singleton, FS_EmptySet

(* A message that tells, of the story without what it asks, lines or says there are   *)
(* more, tells each leg once.                                                 *)
LEMMA MorningTellsOnce ==
  ASSUME LegsFit, NEW i \in DOMAIN legs, S!WorthTelling(i), NEW asks \in SUBSET S!Askable, NEW m,
         ~m.weekly, m.asked = asks, NEW items,
         items = {it \in S!StoryItems :
                    ~\E a \in asks : it.kind = S!Unplaced(a[1]) /\ it.who = a[2]},
         m.lines \in SUBSET items,
         m.rest = S!Cardinality(items) - S!Cardinality(m.lines)
  PROVE  S!TellsOnce(m, i)
<1> DEFINE n == S!Cardinality(LinesWith(m.lines, i))
           asked == ~S!Placed(i) /\ <<legs[i].dir, legs[i].who>> \in m.asked
<1>1. S!TellsOnce(m, i) <=>
        \/ n = 1 /\ ~asked
        \/ n = 0 /\ (asked \/ S!OwnMove(i) \/ m.rest > 0)
  BY DEF S!TellsOnce, LinesWith
<1> HIDE DEF n
<1>2. ~legs[i].gas
  BY DEF S!WorthTelling
<1>3. /\ IsFiniteSet(items) /\ Cardinality(items) \in Nat /\ Cardinality(m.lines) \in Nat
      /\ \A it : it \in items /\ it \notin m.lines => Cardinality(m.lines) < Cardinality(items)
  <2>1. IsFiniteSet(items)
    <3>1. items \in SUBSET S!StoryItems
      OBVIOUS
    <3> QED BY <3>1, StoryIsFinite, FS_Subset
  <2>2. /\ IsFiniteSet(m.lines) /\ Cardinality(m.lines) <= Cardinality(items)
        /\ Cardinality(items) = Cardinality(m.lines) => items = m.lines
    BY <2>1, FS_Subset
  <2>3. Cardinality(items) \in Nat /\ Cardinality(m.lines) \in Nat
    BY <2>1, <2>2, FS_CardinalityType
  <2>4. ASSUME NEW it, it \in items, it \notin m.lines PROVE items # m.lines
    BY <2>4
  <2>5. items # m.lines => Cardinality(m.lines) < Cardinality(items)
    BY <2>2, <2>3
  <2> QED BY <2>1, <2>3, <2>4, <2>5, Zenon
<1>4. \A it : it \in items /\ it \notin m.lines => m.rest > 0
  BY <1>3, StoryCount
<1>5. m.lines \in SUBSET S!StoryItems
  OBVIOUS
<1>6. CASE S!SwapTx(legs[i].tx)
  <2>1. LinesWith(S!StoryItems, i) = {SwapLine(legs[i].tx)}
    BY <1>2, <1>6, LinesOfLeg
  <2>2. SwapLine(legs[i].tx) \in items
    <3>1. SwapLine(legs[i].tx) \in S!StoryItems
      BY <2>1 DEF LinesWith
    <3> QED BY <3>1 DEF SwapLine, S!Unplaced
  <2>3. ~asked
    BY <1>6 DEF S!Placed
  <2> QED BY <1>1, <1>4, <1>5, <2>1, <2>2, <2>3, CountOfLeg DEF n
<1>7. CASE ~S!SwapTx(legs[i].tx) /\ S!Told(i)
  <2>1. LinesWith(S!StoryItems, i) = {LineOf(i)}
    BY <1>2, <1>7, LinesOfLeg
  <2>2. LineOf(i) \in items <=> ~asked
    <3>1. LineOf(i) \in S!StoryItems
      BY <2>1 DEF LinesWith
    <3> QED BY <1>7, <3>1, AskedLine
  <2> QED BY <1>1, <1>4, <1>5, <2>1, <2>2, CountOfLeg DEF n
<1>8. CASE ~S!SwapTx(legs[i].tx) /\ ~S!Told(i)
  <2>1. LinesWith(m.lines, i) = {}
    BY <1>2, <1>5, <1>8, LinesOfLeg DEF LinesWith
  <2>2. n = 0
    BY <2>1, StoryCount, FS_EmptySet DEF n
  <2> QED BY <1>1, <1>8, <2>2, UntoldIsOwnMove
<1> QED BY <1>6, <1>7, <1>8

(* So does a week's message, of the kinds it has a name for. *)
LEMMA WeeklyTellsOnce ==
  ASSUME LegsFit, NEW i \in DOMAIN legs, S!WorthTelling(i), NEW m, m.weekly,
         m.lines = {it \in S!StoryItems : it.kind \in S!Named}
  PROVE  S!TellsOnce(m, i)
<1> DEFINE n == S!Cardinality(LinesWith(m.lines, i))
<1>1. n = 1 \/ (n = 0 /\ (S!OwnMove(i) \/ ~S!Placed(i) \/ S!KindOf(legs[i]) = "moved"))
      => S!TellsOnce(m, i)
  BY DEF S!TellsOnce, LinesWith
<1> HIDE DEF n
<1>2. ~legs[i].gas
  BY DEF S!WorthTelling
<1>3. m.lines \in SUBSET S!StoryItems
  OBVIOUS
<1>4. CASE S!SwapTx(legs[i].tx)
  <2>1. LinesWith(S!StoryItems, i) = {SwapLine(legs[i].tx)}
    BY <1>2, <1>4, LinesOfLeg
  <2>2. SwapLine(legs[i].tx) \in m.lines
    <3>1. SwapLine(legs[i].tx) \in S!StoryItems
      BY <2>1 DEF LinesWith
    <3> QED BY <3>1 DEF SwapLine, S!Named
  <2> QED BY <1>1, <1>3, <2>1, <2>2, CountOfLeg DEF n
<1>5. CASE ~S!SwapTx(legs[i].tx) /\ S!Told(i)
  <2>1. LinesWith(S!StoryItems, i) = {LineOf(i)}
    BY <1>2, <1>5, LinesOfLeg
  <2>2. LineOf(i) \in m.lines <=> LineOf(i).kind \in S!Named
    BY <2>1 DEF LinesWith
  <2>3. LineOf(i).kind \notin S!Named => ~S!Placed(i) \/ S!KindOf(legs[i]) = "moved"
    BY <1>5, KindOfLine, Kinds DEF S!Placed
  <2> QED BY <1>1, <1>3, <2>1, <2>2, <2>3, CountOfLeg DEF n
<1>6. CASE ~S!SwapTx(legs[i].tx) /\ ~S!Told(i)
  <2>1. LinesWith(m.lines, i) = {}
    BY <1>2, <1>3, <1>6, LinesOfLeg DEF LinesWith
  <2>2. n = 0
    BY <2>1, StoryCount, FS_EmptySet DEF n
  <2> QED BY <1>1, <1>6, <2>2, UntoldIsOwnMove
<1> QED BY <1>4, <1>5, <1>6

StoryInv == LegsFit /\ EveryLegToldOnce

(* Nothing is told before the message, and the message tells every leg once. *)
LEMMA StoryKept ==
  ASSUME StoryInv, S!Next PROVE StoryInv'
<1>1. story = {}
  BY DEF S!Next, S!Nothing
<1>2. ASSUME NEW l \in S!Leg, S!Book(l) PROVE StoryInv'
  <2>1. legs' = Append(legs, l) /\ story' = {}
    BY <1>1, <1>2 DEF S!Book
  <2>2. LegsFit'
    BY <2>1 DEF StoryInv, LegsFit
  <2> QED BY <2>1, <2>2 DEF StoryInv, EveryLegToldOnce, S!EveryLegToldOnce
<1>3. ASSUME NEW m, legs' = legs, story' = {m},
             \A i \in DOMAIN legs : S!WorthTelling(i) => S!TellsOnce(m, i)
      PROVE  StoryInv'
  <2>1. \A i : S!WorthTelling(i)' = S!WorthTelling(i)
    BY <1>3 DEF S!WorthTelling, S!Placed, S!SwapTx, S!Dust, S!Of, S!Moves
  <2>2. \A i : S!TellsOnce(m, i)' = S!TellsOnce(m, i)
    BY <1>3 DEF S!TellsOnce, S!OwnMove, S!Placed, S!SwapTx, S!Of, S!Moves
  <2>3. EveryLegToldOnce'
    BY <1>3, <2>1, <2>2 DEF EveryLegToldOnce, S!EveryLegToldOnce
  <2> QED BY <1>3, <2>3 DEF StoryInv, LegsFit
<1>4. ASSUME NEW asks \in SUBSET S!Askable, S!Morning(asks) PROVE StoryInv'
  <2> DEFINE items == {it \in S!StoryItems :
                         ~\E a \in asks : it.kind = S!Unplaced(a[1]) /\ it.who = a[2]}
             rest == S!Cardinality(items) - S!Cardinality(S!Shown(items))
             m == [lines |-> S!Shown(items), rest |-> rest, asked |-> asks, weekly |-> FALSE,
                   gas |-> items # {} /\ rest = 0 /\ S!Fees]
  <2>1. legs' = legs /\ story' = {m}
    BY <1>4 DEF S!Morning
  <2>2. /\ m.weekly = FALSE /\ m.asked = asks /\ m.lines = S!Shown(items)
        /\ m.rest = S!Cardinality(items) - S!Cardinality(m.lines)
    OBVIOUS
  <2>3. m.lines \in SUBSET items
    BY <2>2 DEF S!Shown
  <2> HIDE DEF m
  <2>4. \A i \in DOMAIN legs : S!WorthTelling(i) => S!TellsOnce(m, i)
    BY <2>2, <2>3, MorningTellsOnce DEF StoryInv
  <2> QED BY <1>3, <2>1, <2>4
<1>5. ASSUME NEW asks \in SUBSET S!Askable, S!Weekly(asks) PROVE StoryInv'
  <2> DEFINE m == [lines |-> {it \in S!StoryItems : it.kind \in S!Named}, rest |-> 0, asked |-> asks,
                   weekly |-> TRUE, gas |-> S!StoryItems # {} /\ S!Fees]
  <2>1. legs' = legs /\ story' = {m}
    BY <1>5 DEF S!Weekly
  <2>2. m.weekly = TRUE /\ m.lines = {it \in S!StoryItems : it.kind \in S!Named}
    OBVIOUS
  <2> HIDE DEF m
  <2>3. \A i \in DOMAIN legs : S!WorthTelling(i) => S!TellsOnce(m, i)
    BY <2>2, WeeklyTellsOnce DEF StoryInv
  <2> QED BY <1>3, <2>1, <2>3
<1> QED BY <1>2, <1>4, <1>5 DEF S!Next

(* Whatever moved, in however many transactions, with any labels and other sides,     *)
(* and whatever is asked about below: a leg worth telling is in exactly one line of   *)
(* the message, or asked about, or told from the other side, or there is more         *)
(* (generate.ts, storyItems, buildMorning, weeklyText).                        *)
THEOREM EveryLegAlwaysToldOnce == MCSpec => []EveryLegToldOnce
<1> DEFINE mcvars == <<vars, legs, story, readings, asking, about>>
<1>1. MCInit => StoryInv
  BY DEF MCInit, S!Init, S!Nothing, StoryInv, LegsFit, EveryLegToldOnce, S!EveryLegToldOnce
<1>2. StoryInv /\ [MCNext]_mcvars => StoryInv'
  <2> SUFFICES ASSUME StoryInv, [MCNext]_mcvars PROVE StoryInv'
    OBVIOUS
  <2>1. CASE legs' = legs /\ story' = story
    <3>1. LegsFit'
      BY <2>1 DEF StoryInv, LegsFit
    <3>2. EveryLegToldOnce'
      BY <2>1 DEF StoryInv, EveryLegToldOnce, S!EveryLegToldOnce, S!WorthTelling, S!TellsOnce,
         S!OwnMove, S!Placed, S!SwapTx, S!Dust, S!Of, S!Moves
    <3> QED BY <3>1, <3>2 DEF StoryInv
  <2>2. CASE S!Next
    BY <2>2, StoryKept
  <2> QED BY <2>1, <2>2 DEF MCNext
<1>3. StoryInv => EveryLegToldOnce
  BY DEF StoryInv
<1> QED BY <1>1, <1>2, <1>3, PTL DEF MCSpec

-----------------------------------------------------------------------------
(* The questions.                                                             *)

(* A refresh counts the transfers again, keeps the number the group was asked under, *)
(* and opens or closes a group only as the code says.                           *)
LEMMA SettledRow ==
  ASSUME NEW r \in Q!Row, NEW n \in Nat, day \in Nat
  PROVE  LET s == Q!Settled(Q!Counted(r, n))
         IN /\ s \in Q!Row /\ s.count = n /\ s.item = r.item
            /\ \/ /\ s.status = r.status /\ s.sent = r.sent /\ s.asked = r.asked
                  /\ s.resolved = r.resolved /\ (r.status = "open" => n > 0)
               \/ r.status = "none" /\ s.status = "open" /\ n > 0
               \/ r.status = "open" /\ s.status = "labeled" /\ n = 0
               \/ r.status = "labeled" /\ s.status = "open" /\ n > 0
               \/ /\ r.status = "skipped" /\ s.status = "open" /\ n > 0
                  /\ s.sent = Q!Never /\ s.asked = r.asked
                  /\ r.resolved <= day - ReaskDays \/ (r.asked > 0 /\ n >= 2 * r.asked)
<1> DEFINE c == Q!Counted(r, n)
           s == Q!Settled(c)
<1>1. /\ c \in Q!Row /\ c.count = n /\ c.item = r.item /\ c.sent = r.sent /\ c.asked = r.asked
      /\ c.resolved = r.resolved /\ c.status = IF r.status = "none" /\ n > 0 THEN "open" ELSE r.status
  BY DEF Q!Counted, Q!Row
<1> HIDE DEF c
<1>2. CASE c.status = "open" /\ c.count = 0
  <2>1. s = [c EXCEPT !.status = "labeled"]
    BY <1>2 DEF Q!Settled
  <2> QED BY <1>1, <1>2, <2>1 DEF Q!Row, c
<1>3. CASE c.status = "labeled" /\ c.count > 0
  <2>1. s = [c EXCEPT !.status = "open", !.sent = Q!Never, !.asked = Q!Never]
    BY <1>3 DEF Q!Settled
  <2>2. s \in Q!Row /\ s.count = n /\ s.item = r.item /\ s.status = "open"
    BY <1>1, <2>1 DEF Q!Row, Q!Never
  <2> QED BY <1>1, <1>3, <2>2 DEF c
<1>4. CASE /\ c.status = "skipped" /\ c.count > 0
           /\ c.resolved <= day - ReaskDays \/ Q!Doubled(c)
  <2>1. s = [c EXCEPT !.status = "open", !.sent = Q!Never, !.resolved = 0]
    BY <1>4 DEF Q!Settled
  <2> DEFINE d == [c EXCEPT !.status = "open", !.sent = Q!Never]
  <2>2. d \in Q!Row
    BY <1>1 DEF Q!Row, Q!Never
  <2>3. s = [d EXCEPT !.resolved = 0]
    BY <1>1, <2>1 DEF Q!Row
  <2> HIDE DEF d
  <2>4. s \in Q!Row
    BY <2>2, <2>3 DEF Q!Row
  <2>5. s.count = c.count /\ s.item = c.item /\ s.status = "open" /\ s.sent = Q!Never /\ s.asked = c.asked
    BY <1>1, <2>1 DEF Q!Row
  <2> QED BY <1>1, <1>4, <2>4, <2>5 DEF c, Q!Doubled
<1>5. CASE /\ ~(c.status = "open" /\ c.count = 0) /\ ~(c.status = "labeled" /\ c.count > 0)
           /\ ~(/\ c.status = "skipped" /\ c.count > 0
                /\ c.resolved <= day - ReaskDays \/ Q!Doubled(c))
  <2>1. s = c
    BY <1>5 DEF Q!Settled
  <2> QED BY <1>1, <1>5, <2>1 DEF c, Q!Row
<1> QED BY <1>2, <1>3, <1>4, <1>5

(* What asking, labeling and skipping do to a row. *)
LEMMA AskedRow ==
  ASSUME NEW r \in Q!Row, NEW d \in Nat, NEW n \in Nat
  PROVE  LET s == [r EXCEPT !.sent = d, !.asked = r.count, !.item = n]
         IN /\ s \in Q!Row /\ s.status = r.status /\ s.count = r.count /\ s.sent = d
            /\ s.asked = r.count /\ s.item = n /\ s.resolved = r.resolved
<1> DEFINE s1 == [r EXCEPT !.sent = d]
           s2 == [s1 EXCEPT !.asked = r.count]
           s3 == [s2 EXCEPT !.item = n]
<1>1. /\ s1 \in Q!Row /\ s1.status = r.status /\ s1.count = r.count /\ s1.sent = d
      /\ s1.resolved = r.resolved
  BY DEF Q!Row
<1>2. [r EXCEPT !.sent = d, !.asked = r.count, !.item = n] = s3
  BY DEF Q!Row
<1> HIDE DEF s1
<1>3. /\ s2 \in Q!Row /\ s2.status = r.status /\ s2.count = r.count /\ s2.sent = d
      /\ s2.asked = r.count /\ s2.resolved = r.resolved
  BY <1>1 DEF Q!Row
<1> HIDE DEF s2
<1>4. /\ s3 \in Q!Row /\ s3.status = r.status /\ s3.count = r.count /\ s3.sent = d
      /\ s3.asked = r.count /\ s3.item = n /\ s3.resolved = r.resolved
  BY <1>3 DEF Q!Row
<1> HIDE DEF s3
<1> QED BY <1>2, <1>4

LEMMA LabeledRow ==
  ASSUME NEW r \in Q!Row
  PROVE  LET s == [r EXCEPT !.status = "labeled", !.resolved = 0]
         IN s \in Q!Row /\ s.status = "labeled" /\ s.item = r.item
<1> DEFINE s1 == [r EXCEPT !.status = "labeled"]
           s2 == [s1 EXCEPT !.resolved = 0]
<1>1. s1 \in Q!Row /\ s1.status = "labeled" /\ s1.item = r.item
  BY DEF Q!Row
<1>2. [r EXCEPT !.status = "labeled", !.resolved = 0] = s2
  BY DEF Q!Row
<1> HIDE DEF s1
<1>3. s2 \in Q!Row /\ s2.status = "labeled" /\ s2.item = r.item
  BY <1>1 DEF Q!Row
<1> HIDE DEF s2
<1> QED BY <1>2, <1>3

LEMMA SkippedRow ==
  ASSUME NEW r \in Q!Row, NEW d \in Nat
  PROVE  LET s == [r EXCEPT !.status = "skipped", !.resolved = d, !.asked = r.count]
         IN /\ s \in Q!Row /\ s.status = "skipped" /\ s.resolved = d /\ s.asked = r.count
            /\ s.count = r.count /\ s.item = r.item
<1> DEFINE s1 == [r EXCEPT !.status = "skipped"]
           s2 == [s1 EXCEPT !.resolved = d]
           s3 == [s2 EXCEPT !.asked = r.count]
<1>1. s1 \in Q!Row /\ s1.status = "skipped" /\ s1.item = r.item /\ s1.count = r.count
  BY DEF Q!Row
<1>2. [r EXCEPT !.status = "skipped", !.resolved = d, !.asked = r.count] = s3
  BY DEF Q!Row
<1> HIDE DEF s1
<1>3. /\ s2 \in Q!Row /\ s2.status = "skipped" /\ s2.item = r.item /\ s2.count = r.count
      /\ s2.resolved = d
  BY <1>1 DEF Q!Row
<1> HIDE DEF s2
<1>4. /\ s3 \in Q!Row /\ s3.status = "skipped" /\ s3.item = r.item /\ s3.count = r.count
      /\ s3.resolved = d /\ s3.asked = r.count
  BY <1>3 DEF Q!Row
<1> HIDE DEF s3
<1> QED BY <1>2, <1>4

(* The worker, once an alert has asked. *)
LEMMA MarkingWorker ==
  ASSUME Q!TypeOK, NEW g \in Groups
  PROVE  LET w == [worker EXCEPT !.pc = "mark", !.marking = {g}]
         IN /\ w \in [pc: {"idle", "write", "alert", "mark"}, stats: [Groups -> Nat], marking: SUBSET Groups]
            /\ w.pc = "mark" /\ w.marking = {g} /\ w.stats = worker.stats
<1> DEFINE W == [pc: {"idle", "write", "alert", "mark"}, stats: [Groups -> Nat], marking: SUBSET Groups]
           w1 == [worker EXCEPT !.pc = "mark"]
           w2 == [w1 EXCEPT !.marking = {g}]
<1>1. w1 \in W /\ w1.pc = "mark" /\ w1.stats = worker.stats
  BY DEF Q!TypeOK
<1>2. [worker EXCEPT !.pc = "mark", !.marking = {g}] = w2
  BY DEF Q!TypeOK
<1> HIDE DEF w1
<1>3. w2 \in W /\ w2.pc = "mark" /\ w2.stats = worker.stats /\ w2.marking = {g}
  BY <1>1
<1> HIDE DEF w2
<1> QED BY <1>2, <1>3

(* The lists a message may ask: groups, each once. *)
LEMMA ListsAreLists ==
  ASSUME NEW limit, NEW list \in Q!Lists(limit)
  PROVE  /\ list \in Seq(Groups)
         /\ \A i, j \in 1 .. Len(list) : list[i] = list[j] => i = j
         /\ \A i \in 1 .. Len(list) : Q!Due(list[i])
<1>1. PICK n \in 1 .. limit : list \in [1 .. n -> {g \in Groups : Q!Due(g)}]
  BY DEF Q!Lists
<1>2. \A i, j \in DOMAIN list : i < j => list[i] # list[j]
  BY DEF Q!Lists
<1>3. n \in Nat /\ DOMAIN list = 1 .. n
  BY <1>1
<1>4. list \in Seq(Groups) /\ Len(list) = n
  BY <1>1, <1>3
<1>5. \A i \in 1 .. n : Q!Due(list[i])
  BY <1>1
<1>6. \A i, j \in 1 .. n : list[i] = list[j] => i = j
  BY <1>2, <1>3
<1> QED BY <1>4, <1>5, <1>6

(* Telling changes only when an open group with something to ask was last asked. *)
LEMMA TellTypes ==
  ASSUME NEW X, Q!TypeOK, Q!Tell(X)
  PROVE  said' \in [Groups -> [day: Nat \cup {Q!Never}, more: BOOLEAN]]
<1> DEFINE seen(h) == IF worker.pc = "write" THEN {unknown[h], worker.stats[h]} ELSE {unknown[h]}
           now_(h) == [day |-> day, more |-> \E n \in seen(h) : n > rows[h].count]
<1>1. said' = [h \in Groups |->
        IF h \in X /\ unknown[h] > 0 /\ rows[h].status = "open" THEN now_(h) ELSE said[h]]
  BY DEF Q!Tell
<1>2. \A h : now_(h) \in [day: Nat \cup {Q!Never}, more: BOOLEAN]
  BY DEF Q!TypeOK
<1> HIDE DEF now_, seen
<1>3. said \in [Groups -> [day: Nat \cup {Q!Never}, more: BOOLEAN]]
  BY DEF Q!TypeOK
<1> QED BY <1>1, <1>2, <1>3

LEMMA TellGroups ==
  ASSUME NEW X, Q!TypeOK, Q!Tell(X), NEW g \in Groups
  PROVE  \/ said'[g] = said[g] /\ ~(g \in X /\ unknown[g] > 0 /\ rows[g].status = "open")
         \/ /\ g \in X /\ unknown[g] > 0 /\ rows[g].status = "open" /\ said'[g].day = day
            /\ ~said'[g].more => unknown[g] <= rows[g].count
            /\ ~said'[g].more /\ worker.pc = "write" => worker.stats[g] <= rows[g].count
<1> DEFINE seen(h) == IF worker.pc = "write" THEN {unknown[h], worker.stats[h]} ELSE {unknown[h]}
           now_(h) == [day |-> day, more |-> \E n \in seen(h) : n > rows[h].count]
<1>1. said' = [h \in Groups |->
        IF h \in X /\ unknown[h] > 0 /\ rows[h].status = "open" THEN now_(h) ELSE said[h]]
  BY DEF Q!Tell
<1>2. now_(g).day = day /\ (~now_(g).more => \A n \in seen(g) : ~(n > rows[g].count))
  OBVIOUS
<1>3. /\ unknown[g] \in seen(g) /\ (worker.pc = "write" => worker.stats[g] \in seen(g))
      /\ unknown[g] \in Nat /\ rows[g].count \in Nat /\ worker.stats[g] \in Nat
  BY DEF Q!TypeOK, Q!Row
<1> HIDE DEF now_, seen
<1>4. \/ g \in X /\ unknown[g] > 0 /\ rows[g].status = "open" /\ said'[g] = now_(g)
      \/ ~(g \in X /\ unknown[g] > 0 /\ rows[g].status = "open") /\ said'[g] = said[g]
  BY <1>1
<1>5. ~now_(g).more => unknown[g] <= rows[g].count
  BY <1>2, <1>3
<1>6. ~now_(g).more /\ worker.pc = "write" => worker.stats[g] <= rows[g].count
  BY <1>2, <1>3
<1> QED BY <1>2, <1>4, <1>5, <1>6

(* The state keeps its shape. *)
LEMMA AskingTypesKept ==
  ASSUME Q!TypeOK, Q!Next
  PROVE  Q!TypeOK'
<1> DEFINE Said == [day: Nat \cup {Q!Never}, more: BOOLEAN]
<1> USE DEF Q!TypeOK
<1>1. Q!NotSaid \in Said /\ Q!Idle \in [pc: {"idle", "write", "alert", "mark"}, stats: [Groups -> Nat], marking: SUBSET Groups]
  BY DEF Q!NotSaid, Q!Never, Q!Idle
<1> DEFINE Briefing == [pc: {"idle", "send", "sent", "mark"}, list: Seq(Groups), marked: Nat, sent: Nat]
<1>19. \A d \in Nat : /\ [Q!Waiting EXCEPT !.sent = d] \in Briefing
                     /\ [Q!Waiting EXCEPT !.sent = d].marked = 0
                     /\ [Q!Waiting EXCEPT !.sent = d].list = <<>>
  <2>1. <<>> \in Seq(Groups)
    OBVIOUS
  <2>2. Q!Waiting \in Briefing /\ Q!Waiting.marked = 0 /\ Q!Waiting.list = <<>>
    BY <2>1 DEF Q!Waiting
  <2> QED BY <2>2
<1>2. CASE Q!ReadStats
  BY <1>2 DEF Q!ReadStats
<1>3. CASE Q!WriteGroups
  <2>1. \A g \in Groups : rows'[g] \in Q!Row
    <3> SUFFICES ASSUME NEW g \in Groups PROVE rows'[g] \in Q!Row
      OBVIOUS
    <3>1. rows'[g] = Q!Settled(Q!Counted(rows[g], worker.stats[g]))
      BY <1>3 DEF Q!WriteGroups
    <3> QED BY <3>1, SettledRow
  <2>2. rows' \in [Groups -> Q!Row]
    BY <1>3, <2>1 DEF Q!WriteGroups
  <2>3. worker' = [Q!Idle EXCEPT !.pc = "alert"]
    BY <1>3 DEF Q!WriteGroups
  <2> QED BY <1>1, <1>3, <2>2, <2>3 DEF Q!WriteGroups
<1>4. ASSUME NEW g \in Groups, Q!AlertAsks(g) PROVE Q!TypeOK'
  <2>1. said' \in [Groups -> Said]
    BY <1>4, TellTypes DEF Q!AlertAsks
  <2>2. worker' \in [pc: {"idle", "write", "alert", "mark"}, stats: [Groups -> Nat], marking: SUBSET Groups]
    BY <1>4, MarkingWorker DEF Q!AlertAsks
  <2> QED BY <1>4, <2>1, <2>2 DEF Q!AlertAsks
<1>5. CASE Q!MarkAskedByAlert
  <2>1. ASSUME NEW g \in Groups
        PROVE  [rows[g] EXCEPT !.sent = day, !.asked = rows[g].count, !.item = 0] \in Q!Row
    BY AskedRow
  <2>2. rows' \in [Groups -> Q!Row]
    BY <1>5, <2>1 DEF Q!MarkAskedByAlert
  <2> QED BY <1>1, <1>5, <2>2 DEF Q!MarkAskedByAlert
<1>6. CASE Q!EndCycle
  BY <1>1, <1>6 DEF Q!EndCycle
<1>7. ASSUME NEW g \in Groups, Q!Arrive(g) PROVE Q!TypeOK'
  <2>1. said' \in [Groups -> Said]
    BY <1>7, ZenonT(30) DEF Q!Arrive
  <2>2. spent' \in [arrivals: Nat, crashes: Nat]
    <3>1. spent.arrivals + 1 \in Nat
      OBVIOUS
    <3> QED BY <1>7, <3>1 DEF Q!Arrive
  <2>3. unknown' \in [Groups -> Nat] /\ alerting' \subseteq Groups
    BY <1>7 DEF Q!Arrive
  <2>4. UNCHANGED <<day, rows, worker, brief, chat>>
    BY <1>7 DEF Q!Arrive
  <2> QED BY <2>1, <2>2, <2>3, <2>4
<1>8. CASE Q!PickQuestions
  <2>1. PICK limit : \E list \in Q!Lists(limit) :
          brief' = [brief EXCEPT !.pc = "send", !.list = list, !.marked = 0]
    BY <1>8 DEF Q!PickQuestions
  <2>2. PICK list \in Q!Lists(limit) :
          brief' = [brief EXCEPT !.pc = "send", !.list = list, !.marked = 0]
    BY <2>1
  <2>3. list \in Seq(Groups)
    BY ListsAreLists
  <2>4. /\ brief' \in [pc: {"idle", "send", "sent", "mark"}, list: Seq(Groups), marked: Nat, sent: Nat]
        /\ brief'.marked = 0 /\ brief'.list = list
    BY <2>2, <2>3
  <2> QED BY <1>8, <2>3, <2>4 DEF Q!PickQuestions
<1>9. CASE Q!SendBrief
  <2>1. said' \in [Groups -> Said]
    BY <1>9, TellTypes DEF Q!SendBrief
  <2> QED BY <1>9, <2>1 DEF Q!SendBrief
<1>10. CASE Q!SendFails \/ Q!EndBrief
  <2>1. brief' = [Q!Waiting EXCEPT !.sent = brief.sent] /\ brief.sent \in Nat
    BY <1>10 DEF Q!SendFails, Q!EndBrief
  <2>2. brief' \in Briefing /\ brief'.marked = 0 /\ brief'.list = <<>>
    BY <1>19, <2>1
  <2>3. UNCHANGED <<day, unknown, rows, worker, alerting, chat, said, spent>>
    BY <1>10 DEF Q!SendFails, Q!EndBrief
  <2>4. brief'.marked <= Len(brief'.list)
    BY <2>2
  <2> QED BY <2>2, <2>3, <2>4
<1>11. CASE Q!MarkBriefSent
  BY <1>11 DEF Q!MarkBriefSent
<1>12. CASE Q!MarkQuestionSent
  <2> DEFINE i == brief.marked + 1
             g == brief.list[i]
             n == IF Len(brief.list) > 1 THEN i ELSE 0
  <2>1. i \in 1 .. Len(brief.list) /\ g \in Groups /\ n \in Nat
    <3>1. i \in 1 .. Len(brief.list)
      BY <1>12 DEF Q!MarkQuestionSent
    <3> QED BY <3>1
  <2>2. rows' = [rows EXCEPT ![g] = [@ EXCEPT !.sent = day, !.asked = rows[g].count, !.item = n]]
    BY <1>12 DEF Q!MarkQuestionSent
  <2> HIDE DEF g, n
  <2>3. [rows[g] EXCEPT !.sent = day, !.asked = rows[g].count, !.item = n] \in Q!Row
    BY <2>1, AskedRow
  <2>4. rows' \in [Groups -> Q!Row]
    BY <2>2, <2>3
  <2>5. brief' = [brief EXCEPT !.marked = i]
    BY <1>12 DEF Q!MarkQuestionSent
  <2>6. i \in Nat /\ brief \in Briefing
    BY <2>1
  <2> HIDE DEF i
  <2>7. brief' \in Briefing /\ brief'.marked = i /\ brief'.list = brief.list
    BY <2>5, <2>6
  <2>8. UNCHANGED <<day, unknown, worker, alerting, chat, said, spent>>
    BY <1>12 DEF Q!MarkQuestionSent
  <2>9. brief'.marked <= Len(brief'.list)
    BY <2>1, <2>7
  <2> QED BY <2>4, <2>7, <2>8, <2>9
<1>13. ASSUME NEW g \in Groups, Q!Answer(g) PROVE Q!TypeOK'
  <2>1. [rows[g] EXCEPT !.status = "labeled", !.resolved = 0] \in Q!Row
    BY LabeledRow
  <2>2. /\ said' = [said EXCEPT ![g] = Q!NotSaid] /\ chat' \in {chat, g}
        /\ unknown' \in {unknown, [unknown EXCEPT ![g] = 0]}
        /\ rows' \in {rows, [rows EXCEPT ![g] = [rows[g] EXCEPT !.status = "labeled", !.resolved = 0]]}
        /\ UNCHANGED <<day, worker, alerting, brief, spent>>
    BY <1>13 DEF Q!Answer
  <2>3. rows' \in [Groups -> Q!Row]
    BY <2>1, <2>2
  <2>4. said' \in [Groups -> Said]
    BY <1>1, <2>2
  <2>5. unknown' \in [Groups -> Nat] /\ chat' \in Groups \cup {"idle"}
    <3>1. [unknown EXCEPT ![g] = 0] \in [Groups -> Nat]
      OBVIOUS
    <3> QED BY <2>2, <3>1
  <2> QED BY <2>2, <2>3, <2>4, <2>5
<1>14. CASE Q!CloseAnswered
  <2>1. chat \in Groups => [rows[chat] EXCEPT !.status = "labeled", !.resolved = 0] \in Q!Row
    BY LabeledRow
  <2>2. rows' \in [Groups -> Q!Row] /\ said' \in [Groups -> Said]
    BY <1>1, <1>14, <2>1 DEF Q!CloseAnswered
  <2> QED BY <1>14, <2>2 DEF Q!CloseAnswered
<1>15. ASSUME NEW g \in Groups, Q!Correct(g) PROVE Q!TypeOK'
  <2>1. said' \in [Groups -> Said]
    BY <1>1, <1>15 DEF Q!Correct
  <2> QED BY <1>15, <2>1 DEF Q!Correct
<1>16. ASSUME NEW g \in Groups, Q!SkipGroup(g) PROVE Q!TypeOK'
  <2>1. [rows[g] EXCEPT !.status = "skipped", !.resolved = day, !.asked = rows[g].count] \in Q!Row
    BY SkippedRow
  <2>2. rows' \in [Groups -> Q!Row]
    BY <1>16, <2>1 DEF Q!SkipGroup
  <2>3. said' \in [Groups -> Said]
    BY <1>16, TellTypes DEF Q!SkipGroup
  <2> QED BY <1>16, <2>2, <2>3 DEF Q!SkipGroup
<1>17. CASE Q!NextDay
  BY <1>17 DEF Q!NextDay
<1>18. CASE Q!Crash
  <2>1. worker' = Q!Idle /\ brief' = [Q!Waiting EXCEPT !.sent = brief.sent] /\ brief.sent \in Nat
    BY <1>18 DEF Q!Crash
  <2>2. brief' \in Briefing /\ brief'.marked = 0 /\ brief'.list = <<>>
    BY <1>19, <2>1
  <2>3. spent' \in [arrivals: Nat, crashes: Nat]
    <3>1. spent.crashes + 1 \in Nat
      OBVIOUS
    <3> QED BY <1>18, <3>1 DEF Q!Crash
  <2>4. UNCHANGED <<day, unknown, rows, alerting, chat, said>>
    BY <1>18 DEF Q!Crash
  <2>5. brief'.marked <= Len(brief'.list)
    BY <2>2
  <2> QED BY <1>1, <2>1, <2>2, <2>3, <2>4, <2>5
<1> QED BY <1>2, <1>3, <1>4, <1>5, <1>6, <1>7, <1>8, <1>9, <1>10, <1>11, <1>12, <1>13, <1>14,
           <1>15, <1>16, <1>17, <1>18 DEF Q!Next, Q!Cycle, Q!Morning, Q!Chat

(* A list has each group once, and what was marked of it carries its place. *)
NumberedInv ==
  /\ \A i, j \in 1 .. Len(brief.list) : brief.list[i] = brief.list[j] => i = j
  /\ brief.pc \in {"send", "sent"} => brief.marked = 0
  /\ brief.pc = "mark" =>
       \A i \in 1 .. brief.marked : Len(brief.list) > 1 => rows[brief.list[i]].item \in {0, i}

(* Whatever else happens to a row, its number stays or is taken away. *)
LEMMA ItemsKept ==
  ASSUME Q!TypeOK, Q!Next, ~Q!MarkQuestionSent, NEW g \in Groups
  PROVE  rows'[g].item \in {rows[g].item, 0}
<1> rows \in [Groups -> Q!Row] /\ day \in Nat
  BY DEF Q!TypeOK
<1>1. CASE rows' = rows
  BY <1>1
<1>2. CASE Q!WriteGroups
  <2>1. rows'[g] = Q!Settled(Q!Counted(rows[g], worker.stats[g])) /\ worker.stats[g] \in Nat
    BY <1>2 DEF Q!WriteGroups, Q!TypeOK
  <2> QED BY <2>1, SettledRow
<1>3. CASE Q!MarkAskedByAlert
  <2>1. rows'[g] \in {rows[g], [rows[g] EXCEPT !.sent = day, !.asked = rows[g].count, !.item = 0]}
    BY <1>3 DEF Q!MarkAskedByAlert
  <2>2. [rows[g] EXCEPT !.sent = day, !.asked = rows[g].count, !.item = 0].item = 0
    BY DEF Q!Row
  <2> QED BY <2>1, <2>2, Zenon
<1>4. ASSUME NEW h \in Groups, Q!Answer(h) PROVE rows'[g].item \in {rows[g].item, 0}
  <2>1. rows'[g] \in {rows[g], [rows[g] EXCEPT !.status = "labeled", !.resolved = 0]}
    BY <1>4 DEF Q!Answer
  <2> QED BY <2>1, LabeledRow
<1>5. CASE Q!CloseAnswered
  <2>1. rows'[g] \in {rows[g], [rows[g] EXCEPT !.status = "labeled", !.resolved = 0]}
    BY <1>5 DEF Q!CloseAnswered
  <2> QED BY <2>1, LabeledRow
<1>6. ASSUME NEW h \in Groups, Q!SkipGroup(h) PROVE rows'[g].item \in {rows[g].item, 0}
  <2>1. rows'[g] \in {rows[g],
                      [rows[g] EXCEPT !.status = "skipped", !.resolved = day, !.asked = rows[g].count]}
    BY <1>6 DEF Q!SkipGroup
  <2>2. [rows[g] EXCEPT !.status = "skipped", !.resolved = day, !.asked = rows[g].count].item = rows[g].item
    BY SkippedRow
  <2> QED BY <2>1, <2>2, Zenon
<1>7. rows' = rows \/ Q!WriteGroups \/ Q!MarkAskedByAlert \/ Q!CloseAnswered
        \/ \E h \in Groups : Q!Answer(h) \/ Q!SkipGroup(h)
  BY DEF Q!Next, Q!Cycle, Q!Morning, Q!Chat, Q!ReadStats, Q!EndCycle, Q!AlertAsks, Q!PickQuestions,
     Q!SendBrief, Q!SendFails, Q!MarkBriefSent, Q!EndBrief, Q!Correct, Q!NextDay, Q!Crash, Q!Arrive
<1> QED BY <1>1, <1>2, <1>3, <1>4, <1>5, <1>6, <1>7

LEMMA NumberedKept ==
  ASSUME Q!TypeOK, NumberedInv, Q!Next
  PROVE  NumberedInv'
<1>1. /\ brief \in [pc: {"idle", "send", "sent", "mark"}, list: Seq(Groups), marked: Nat, sent: Nat]
      /\ brief.marked <= Len(brief.list) /\ Len(brief.list) \in Nat
      /\ \A i \in 1 .. Len(brief.list) : brief.list[i] \in Groups
  BY DEF Q!TypeOK
<1>2. CASE Q!MarkQuestionSent
  <2> DEFINE i == brief.marked + 1
             h == brief.list[i]
             n == IF Len(brief.list) > 1 THEN i ELSE 0
  <2>1. i \in 1 .. Len(brief.list) /\ h \in Groups /\ n \in Nat
    BY <1>1, <1>2 DEF Q!MarkQuestionSent
  <2>2. /\ rows' = [rows EXCEPT ![h] = [rows[h] EXCEPT !.sent = day, !.asked = rows[h].count, !.item = n]]
        /\ brief' = [brief EXCEPT !.marked = i] /\ brief.pc = "mark"
    BY <1>2 DEF Q!MarkQuestionSent
  <2> HIDE DEF h, n
  <2>7. rows[h] \in Q!Row /\ day \in Nat
    BY <2>1 DEF Q!TypeOK
  <2>8. [rows[h] EXCEPT !.sent = day, !.asked = rows[h].count, !.item = n].item = n
    BY <2>7 DEF Q!Row
  <2>9. rows'[h].item = n /\ \A g \in Groups \ {h} : rows'[g] = rows[g]
    BY <2>1, <2>2, <2>8 DEF Q!TypeOK
  <2>4. brief'.pc = "mark" /\ brief'.list = brief.list /\ brief'.marked = i
    BY <1>1, <2>2
  <2>5. ASSUME NEW j \in 1 .. i, Len(brief.list) > 1 PROVE rows'[brief.list[j]].item \in {0, j}
    <3>1. CASE j = i
      BY <2>9, <2>5, <3>1 DEF h, n
    <3>2. CASE j # i
      <4>1. j \in 1 .. brief.marked /\ j \in 1 .. Len(brief.list) /\ brief.list[j] \in Groups
        BY <1>1, <2>1, <3>2
      <4>2. brief.list[j] # h
        BY <2>1, <3>2, <4>1 DEF NumberedInv, h
      <4> QED BY <2>2, <2>9, <2>5, <4>1, <4>2 DEF NumberedInv
    <3> QED BY <3>1, <3>2
  <2> QED BY <2>4, <2>5 DEF NumberedInv
<1>3. CASE Q!PickQuestions
  <2>1. PICK limit : \E list \in Q!Lists(limit) :
          brief' = [brief EXCEPT !.pc = "send", !.list = list, !.marked = 0]
    BY <1>3 DEF Q!PickQuestions
  <2>2. PICK list \in Q!Lists(limit) :
          brief' = [brief EXCEPT !.pc = "send", !.list = list, !.marked = 0]
    BY <2>1
  <2>3. brief'.pc = "send" /\ brief'.list = list /\ brief'.marked = 0
    BY <1>1, <2>2
  <2> QED BY <2>3, ListsAreLists DEF NumberedInv
<1>4. CASE Q!MarkBriefSent
  <2>1. brief'.pc = "mark" /\ brief'.list = brief.list /\ brief'.marked = 0
    BY <1>1, <1>4 DEF Q!MarkBriefSent, NumberedInv
  <2> QED BY <2>1 DEF NumberedInv
<1>5. CASE Q!SendBrief
  <2>1. brief'.pc = "sent" /\ brief'.list = brief.list /\ brief'.marked = 0
    BY <1>1, <1>5 DEF Q!SendBrief, NumberedInv
  <2> QED BY <2>1 DEF NumberedInv
<1>6. CASE Q!SendFails \/ Q!EndBrief \/ Q!Crash
  <2>1. brief' = [Q!Waiting EXCEPT !.sent = brief.sent]
    BY <1>6 DEF Q!SendFails, Q!EndBrief, Q!Crash
  <2>2. brief'.pc = "idle" /\ brief'.list = <<>>
    BY <2>1 DEF Q!Waiting
  <2> QED BY <2>2 DEF NumberedInv
<1>7. CASE brief' = brief /\ ~Q!MarkQuestionSent
  <2>1. ASSUME NEW i \in 1 .. brief.marked, rows[brief.list[i]].item \in {0, i}
        PROVE  rows'[brief.list[i]].item \in {0, i}
    <3>1. brief.list[i] \in Groups
      BY <1>1
    <3> QED BY <1>7, <2>1, <3>1, ItemsKept
  <2> QED BY <1>7, <2>1 DEF NumberedInv
<1>8. \/ Q!MarkQuestionSent \/ Q!PickQuestions \/ Q!MarkBriefSent \/ Q!SendBrief \/ Q!SendFails
      \/ Q!EndBrief \/ Q!Crash \/ brief' = brief
  BY DEF Q!Next, Q!Cycle, Q!Morning, Q!Chat, Q!ReadStats, Q!WriteGroups, Q!EndCycle, Q!AlertAsks,
     Q!MarkAskedByAlert, Q!Answer, Q!CloseAnswered, Q!SkipGroup, Q!Correct, Q!NextDay, Q!Arrive
<1> QED BY <1>2, <1>3, <1>4, <1>5, <1>6, <1>7, <1>8

(* Asked, and not marked so yet: by an alert, or in a message on its way. *)
Marking(g) ==
  \/ worker.pc = "mark" /\ g \in worker.marking
  \/ \E i \in 1 .. Len(brief.list) :
       brief.list[i] = g /\ brief.pc \in {"sent", "mark"} /\ i > brief.marked

(* What was asked of a group counts the transfers it has, or it is known that more    *)
(* came; a skipped one remembers when.                                        *)
SaidAs(g) ==
  /\ said[g].day <= day
  /\ unknown[g] = 0 => said[g].day = Q!Never
  /\ worker.pc = "write" => unknown[g] <= worker.stats[g]
  /\ rows[g].status = "open" => rows[g].count > 0
  /\ rows[g].status = "skipped" => rows[g].resolved <= day
  /\ said[g].day # Q!Never => rows[g].status \in {"open", "skipped"}
  /\ said[g].day # Q!Never /\ ~said[g].more =>
       unknown[g] <= rows[g].count /\ (worker.pc = "write" => worker.stats[g] <= rows[g].count)
  /\ said[g].day # Q!Never /\ rows[g].status = "skipped" =>
       said[g].day <= rows[g].resolved /\ (said[g].more \/ rows[g].asked >= rows[g].count)
(* An open group that was asked about is marked so, or is about to be. *)
AskedAs(g) ==
  said[g].day # Q!Never /\ rows[g].status = "open" =>
    \/ Marking(g) /\ said[g].day = day
    \/ /\ rows[g].sent # Q!Never => said[g].day <= rows[g].sent
       /\ rows[g].sent = Q!Never => said[g].day <= day - ReaskDays \/ said[g].more
       /\ said[g].more \/ rows[g].asked >= rows[g].count
ReasonInv == \A g \in Groups : SaidAs(g) /\ (spent.crashes = 0 => AskedAs(g))

(* The numbers a group carries. *)
LEMMA GroupTypes ==
  ASSUME Q!TypeOK, NEW g \in Groups
  PROVE  /\ unknown[g] \in Nat /\ rows[g] \in Q!Row /\ worker.stats[g] \in Nat /\ day \in Nat
         /\ rows[g].count \in Nat /\ rows[g].resolved \in Nat
         /\ rows[g].sent \in Nat \cup {-1} /\ rows[g].asked \in Nat \cup {-1}
         /\ rows[g].status \in {"none", "open", "labeled", "skipped"}
         /\ said[g].day \in Nat \cup {-1} /\ said[g].more \in BOOLEAN /\ Q!Never = -1 /\ ReaskDays \in Nat
<1>1. rows[g] \in Q!Row /\ said[g] \in [day: Nat \cup {-1}, more: BOOLEAN]
  BY DEF Q!TypeOK, Q!Never
<1>2. ReaskDays \in Nat
  BY AskingAssumption
<1> QED BY <1>1, <1>2 DEF Q!TypeOK, Q!Row, Q!Never

(* Steps that leave rows and messages as they are, or do not undo a mark to come. *)
LEMMA CycleReasons ==
  ASSUME Q!TypeOK, Q!TypeOK', NumberedInv, ReasonInv, NEW g \in Groups
  PROVE  /\ Q!ReadStats => SaidAs(g)' /\ (spent'.crashes = 0 => AskedAs(g)')
         /\ Q!WriteGroups => SaidAs(g)' /\ (spent'.crashes = 0 => AskedAs(g)')
         /\ Q!EndCycle => SaidAs(g)' /\ (spent'.crashes = 0 => AskedAs(g)')
<1> DEFINE Kept == SaidAs(g)' /\ (spent'.crashes = 0 => AskedAs(g)')
<1>1. /\ SaidAs(g) /\ (spent.crashes = 0 => AskedAs(g))
      /\ worker \in [pc: {"idle", "write", "alert", "mark"}, stats: [Groups -> Nat], marking: SUBSET Groups]
  BY DEF ReasonInv, Q!TypeOK
<1>2. ASSUME Q!ReadStats PROVE Kept
  <2>1. worker.pc = "idle" /\ worker'.pc = "write" /\ worker'.stats = unknown
    BY <1>1, <1>2 DEF Q!ReadStats
  <2>2. UNCHANGED <<day, unknown, rows, brief, said, spent>>
    BY <1>2 DEF Q!ReadStats
  <2>3. SaidAs(g)'
    BY <1>1, <2>1, <2>2, GroupTypes DEF SaidAs
  <2>4. Marking(g)' = Marking(g)
    BY <2>1, <2>2 DEF Marking
  <2> QED BY <1>1, <2>2, <2>3, <2>4 DEF AskedAs
<1>3. ASSUME Q!EndCycle PROVE Kept
  <2>1. worker.pc = "alert" /\ worker'.pc = "idle"
    BY <1>1, <1>3 DEF Q!EndCycle, Q!Idle
  <2>2. UNCHANGED <<day, unknown, rows, brief, said, spent>>
    BY <1>3 DEF Q!EndCycle
  <2>3. SaidAs(g)'
    BY <1>1, <2>1, <2>2, GroupTypes DEF SaidAs
  <2>4. Marking(g)' = Marking(g)
    BY <2>1, <2>2 DEF Marking
  <2> QED BY <1>1, <2>2, <2>3, <2>4 DEF AskedAs
<1>4. ASSUME Q!WriteGroups PROVE Kept
  <2> DEFINE n == worker.stats[g]
             r == rows[g]
             s == rows'[g]
  <2>1. worker.pc = "write" /\ worker'.pc = "alert" /\ s = Q!Settled(Q!Counted(r, n))
    BY <1>1, <1>4 DEF Q!WriteGroups, Q!Idle
  <2>2. UNCHANGED <<day, unknown, brief, said, spent>>
    BY <1>4 DEF Q!WriteGroups
  <2>3. r \in Q!Row /\ n \in Nat /\ day \in Nat
    BY GroupTypes
  <2>4. /\ s \in Q!Row /\ s.count = n
        /\ \/ /\ s.status = r.status /\ s.sent = r.sent /\ s.asked = r.asked
              /\ s.resolved = r.resolved /\ (r.status = "open" => n > 0)
           \/ r.status = "none" /\ s.status = "open" /\ n > 0
           \/ r.status = "open" /\ s.status = "labeled" /\ n = 0
           \/ r.status = "labeled" /\ s.status = "open" /\ n > 0
           \/ /\ r.status = "skipped" /\ s.status = "open" /\ n > 0
              /\ s.sent = Q!Never /\ s.asked = r.asked
              /\ r.resolved <= day - ReaskDays \/ (r.asked > 0 /\ n >= 2 * r.asked)
    <3> HIDE DEF n, r, s
    <3>1. Q!Settled(Q!Counted(r, n)) = s
      BY <2>1
    <3> QED BY <2>3, <3>1, SettledRow
  <2>5. Marking(g)' = Marking(g)
    BY <2>1, <2>2 DEF Marking
  <2>6. SaidAs(g)'
    BY <1>1, <2>1, <2>2, <2>4, GroupTypes DEF SaidAs
  <2>7. spent'.crashes = 0 => AskedAs(g)'
    BY <1>1, <2>1, <2>2, <2>4, <2>5, GroupTypes DEF SaidAs, AskedAs
  <2> QED BY <2>6, <2>7
<1> QED BY <1>2, <1>3, <1>4

LEMMA AlertReasons ==
  ASSUME Q!TypeOK, Q!TypeOK', ReasonInv, NEW g \in Groups, NEW h \in Groups
  PROVE  /\ Q!AlertAsks(h) => SaidAs(g)' /\ (spent'.crashes = 0 => AskedAs(g)')
         /\ Q!MarkAskedByAlert => SaidAs(g)' /\ (spent'.crashes = 0 => AskedAs(g)')
         /\ Q!Arrive(h) => SaidAs(g)' /\ (spent'.crashes = 0 => AskedAs(g)')
<1> DEFINE Kept == SaidAs(g)' /\ (spent'.crashes = 0 => AskedAs(g)')
<1>1. /\ SaidAs(g) /\ (spent.crashes = 0 => AskedAs(g))
      /\ worker \in [pc: {"idle", "write", "alert", "mark"}, stats: [Groups -> Nat], marking: SUBSET Groups]
  BY DEF ReasonInv, Q!TypeOK
<1>2. ASSUME Q!AlertAsks(h) PROVE Kept
  <2>1. worker.pc = "alert" /\ UNCHANGED <<day, unknown, rows, brief, spent>>
    BY <1>2 DEF Q!AlertAsks
  <2>2. CASE said' = said /\ worker' = worker
    BY <1>1, <2>1, <2>2 DEF SaidAs, AskedAs, Marking
  <2>3. CASE Q!Tell({h}) /\ worker' = [worker EXCEPT !.pc = "mark", !.marking = {h}]
    <3>1. worker'.pc = "mark" /\ worker'.marking = {h}
      BY <2>3, MarkingWorker
    <3>2. CASE said'[g] = said[g]
      <4>1. Marking(g) => Marking(g)'
        BY <2>1 DEF Marking
      <4> QED BY <1>1, <2>1, <3>1, <3>2, <4>1 DEF SaidAs, AskedAs
    <3>3. CASE /\ g = h /\ unknown[g] > 0 /\ rows[g].status = "open" /\ said'[g].day = day
               /\ ~said'[g].more => unknown[g] <= rows[g].count
      <4>1. Marking(g)'
        BY <3>1, <3>3 DEF Marking
      <4> QED BY <1>1, <2>1, <3>1, <3>3, <4>1, GroupTypes DEF SaidAs, AskedAs
    <3> QED BY <2>3, <3>2, <3>3, TellGroups
  <2> QED BY <1>2, <2>2, <2>3 DEF Q!AlertAsks
<1>3. ASSUME Q!MarkAskedByAlert PROVE Kept
  <2> DEFINE r == rows[g]
             s == [r EXCEPT !.sent = day, !.asked = r.count, !.item = 0]
             asked == \E k \in worker.marking : AddressOf[g] = AddressOf[k]
  <2>1. /\ worker.pc = "mark" /\ worker'.pc = "alert"
        /\ UNCHANGED <<day, unknown, brief, said, spent>>
        /\ rows'[g] = IF asked /\ r.status = "open" /\ r.count > 0 THEN s ELSE r
    BY <1>1, <1>3 DEF Q!MarkAskedByAlert, Q!Idle
  <2>2. s.status = r.status /\ s.count = r.count /\ s.sent = day /\ s.asked = r.count
        /\ s.resolved = r.resolved
    <3>1. r \in Q!Row /\ day \in Nat
      BY GroupTypes
    <3> HIDE DEF r
    <3> QED BY <3>1 DEF Q!Row
  <2>3. CASE rows'[g] = s /\ r.status = "open"
    <3> HIDE DEF s
    <3>1. SaidAs(g)'
      BY <1>1, <2>1, <2>2, <2>3, GroupTypes DEF SaidAs
    <3>2. AskedAs(g)'
      BY <1>1, <2>1, <2>2, <2>3, GroupTypes DEF SaidAs, AskedAs
    <3> QED BY <3>1, <3>2
  <2>4. CASE rows'[g] = r /\ ~(asked /\ r.status = "open" /\ r.count > 0)
    <3>1. SaidAs(g)'
      BY <1>1, <2>1, <2>4, GroupTypes DEF SaidAs
    <3>2. r.status = "open" => g \notin worker.marking
      BY <1>1, <2>4 DEF SaidAs
    <3>3. r.status = "open" /\ Marking(g) => Marking(g)'
      BY <2>1, <3>2 DEF Marking
    <3>4. spent'.crashes = 0 => AskedAs(g)'
      BY <1>1, <2>1, <2>4, <3>3 DEF AskedAs
    <3> QED BY <3>1, <3>4
  <2> QED BY <2>1, <2>3, <2>4
<1>4. ASSUME Q!Arrive(h) PROVE Kept
  <2>1. worker.pc = "idle" /\ UNCHANGED <<day, rows, worker, brief>> /\ spent'.crashes = spent.crashes
    BY <1>4 DEF Q!Arrive, Q!TypeOK
  <2>2. Marking(g)' = Marking(g)
    BY <2>1 DEF Marking
  <2>3. CASE g # h
    <3>1. unknown'[g] = unknown[g] /\ said'[g] = said[g]
      BY <1>4, <2>3 DEF Q!Arrive, Q!TypeOK
    <3> QED BY <1>1, <2>1, <2>2, <3>1 DEF SaidAs, AskedAs
  <2>4. CASE g = h
    <3>1. unknown'[g] > 0
      BY <1>4, <2>4 DEF Q!Arrive, Q!TypeOK
    <3>2. said' = [said EXCEPT ![g] = [said[g] EXCEPT !.more = said[g].more \/ said[g].day # Q!Never]]
      BY <1>4, <2>4 DEF Q!Arrive
    <3>3. said'[g] = [said[g] EXCEPT !.more = said[g].more \/ said[g].day # Q!Never]
      BY <3>2 DEF Q!TypeOK
    <3>4. said[g] \in [day: Nat \cup {Q!Never}, more: BOOLEAN]
      BY DEF Q!TypeOK
    <3>5. said'[g].day = said[g].day /\ (said[g].day # Q!Never => said'[g].more)
      BY <3>3, <3>4, Zenon
    <3>6. SaidAs(g)'
      BY <1>1, <2>1, <3>1, <3>5 DEF SaidAs
    <3>7. spent'.crashes = 0 => AskedAs(g)'
      BY <1>1, <2>1, <2>2, <3>5, GroupTypes DEF AskedAs
    <3> QED BY <3>6, <3>7
  <2> QED BY <2>3, <2>4
<1> QED BY <1>2, <1>3, <1>4

LEMMA MorningReasons ==
  ASSUME Q!TypeOK, Q!TypeOK', NumberedInv, ReasonInv, Q!Morning, NEW g \in Groups
  PROVE  SaidAs(g)' /\ (spent'.crashes = 0 => AskedAs(g)')
<1> DEFINE Kept == SaidAs(g)' /\ (spent'.crashes = 0 => AskedAs(g)')
<1>1. /\ SaidAs(g) /\ (spent.crashes = 0 => AskedAs(g))
      /\ brief \in [pc: {"idle", "send", "sent", "mark"}, list: Seq(Groups), marked: Nat, sent: Nat]
      /\ brief.marked <= Len(brief.list) /\ Len(brief.list) \in Nat
  BY DEF ReasonInv, Q!TypeOK
<1>2. UNCHANGED <<day, unknown, worker, spent>>
  BY DEF Q!Morning, Q!PickQuestions, Q!SendBrief, Q!SendFails, Q!MarkBriefSent, Q!MarkQuestionSent,
     Q!EndBrief
<1>3. ASSUME rows' = rows, said' = said, Marking(g) => Marking(g)' PROVE Kept
  BY <1>1, <1>2, <1>3 DEF SaidAs, AskedAs
<1>4. CASE Q!PickQuestions
  <2>1. brief.pc = "idle" /\ rows' = rows /\ said' = said
    BY <1>4 DEF Q!PickQuestions
  <2>2. Marking(g) => Marking(g)'
    BY <1>2, <2>1 DEF Marking
  <2> QED BY <1>3, <2>1, <2>2
<1>5. CASE Q!SendBrief
  <2>1. brief.pc = "send" /\ rows' = rows /\ Q!Tell(Q!Range(brief.list))
    BY <1>5 DEF Q!SendBrief
  <2>2. brief'.pc = "sent" /\ brief'.list = brief.list /\ brief'.marked = 0
    BY <1>1, <1>5 DEF Q!SendBrief, NumberedInv
  <2>3. CASE said'[g] = said[g]
    <3>1. Marking(g) => Marking(g)'
      BY <1>2, <2>1 DEF Marking
    <3> QED BY <1>1, <1>2, <2>1, <2>3, <3>1 DEF SaidAs, AskedAs
  <2>4. CASE /\ g \in Q!Range(brief.list) /\ unknown[g] > 0 /\ rows[g].status = "open"
             /\ said'[g].day = day
             /\ ~said'[g].more => unknown[g] <= rows[g].count
             /\ ~said'[g].more /\ worker.pc = "write" => worker.stats[g] <= rows[g].count
    <3>1. PICK i \in DOMAIN brief.list : brief.list[i] = g
      BY <2>4 DEF Q!Range
    <3>2. i \in 1 .. Len(brief.list) /\ i > 0
      BY <1>1, <3>1
    <3>3. Marking(g)'
      BY <2>2, <3>1, <3>2 DEF Marking
    <3> QED BY <1>1, <1>2, <2>1, <2>4, <3>3, GroupTypes DEF SaidAs, AskedAs
  <2> QED BY <2>1, <2>3, <2>4, TellGroups
<1>6. CASE Q!SendFails \/ Q!EndBrief
  <2>1. rows' = rows /\ said' = said
    BY <1>6 DEF Q!SendFails, Q!EndBrief
  <2>2. \/ brief.pc = "send"
        \/ brief.pc = "mark" /\ brief.marked = Len(brief.list)
    <3>1. CASE Q!SendFails
      BY <3>1 DEF Q!SendFails
    <3>2. CASE Q!EndBrief
      BY <3>2 DEF Q!EndBrief
    <3> QED BY <1>6, <3>1, <3>2
  <2>3. Marking(g) => Marking(g)'
    BY <1>1, <1>2, <2>2 DEF Marking
  <2> QED BY <1>3, <2>1, <2>3
<1>7. CASE Q!MarkBriefSent
  <2>1. rows' = rows /\ said' = said
    BY <1>7 DEF Q!MarkBriefSent
  <2>2. brief'.pc = "mark" /\ brief'.list = brief.list /\ brief'.marked = brief.marked
    BY <1>1, <1>7 DEF Q!MarkBriefSent
  <2>3. Marking(g) => Marking(g)'
    BY <1>2, <2>2 DEF Marking
  <2> QED BY <1>3, <2>1, <2>3
<1>8. CASE Q!MarkQuestionSent
  <2> DEFINE i == brief.marked + 1
             h == brief.list[i]
             n == IF Len(brief.list) > 1 THEN i ELSE 0
             r == rows[h]
             s == [r EXCEPT !.sent = day, !.asked = r.count, !.item = n]
  <2>1. i \in 1 .. Len(brief.list) /\ h \in Groups /\ n \in Nat
    <3>1. i \in 1 .. Len(brief.list)
      BY <1>1, <1>8 DEF Q!MarkQuestionSent
    <3> QED BY <1>1, <3>1
  <2>2. /\ rows' = [rows EXCEPT ![h] = s] /\ said' = said
        /\ brief' = [brief EXCEPT !.marked = i] /\ brief.pc = "mark"
    BY <1>8 DEF Q!MarkQuestionSent
  <2> HIDE DEF h, n
  <2>3. s.status = r.status /\ s.count = r.count /\ s.sent = day /\ s.asked = r.count
        /\ s.resolved = r.resolved
    <3>1. r \in Q!Row /\ day \in Nat
      BY <2>1, GroupTypes
    <3> HIDE DEF r
    <3> QED BY <2>1, <3>1 DEF Q!Row
  <2> HIDE DEF s
  <2>4. rows'[h] = s /\ \A k \in Groups \ {h} : rows'[k] = rows[k]
    BY <2>1, <2>2 DEF Q!TypeOK
  <2>5. CASE g = h
    <3>1. SaidAs(g)'
      BY <1>1, <1>2, <2>2, <2>3, <2>4, <2>5, GroupTypes DEF SaidAs
    <3>2. AskedAs(g)'
      BY <1>1, <1>2, <2>2, <2>3, <2>4, <2>5, GroupTypes DEF SaidAs, AskedAs
    <3> QED BY <3>1, <3>2
  <2>6. CASE g # h
    <3>1. rows'[g] = rows[g]
      BY <2>4, <2>6
    <3>2. brief'.pc = "mark" /\ brief'.list = brief.list /\ brief'.marked = i
      BY <1>1, <2>2
    <3>3. ASSUME NEW j \in 1 .. Len(brief.list), brief.list[j] = g, j > brief.marked
          PROVE  j > i
      BY <1>1, <2>6, <3>3 DEF h
    <3>4. Marking(g) => Marking(g)'
      BY <1>2, <3>2, <3>3 DEF Marking
    <3> QED BY <1>1, <1>2, <2>2, <3>1, <3>4 DEF SaidAs, AskedAs
  <2> QED BY <2>5, <2>6
<1> QED BY <1>4, <1>5, <1>6, <1>7, <1>8 DEF Q!Morning

LEMMA ChatReasons ==
  ASSUME Q!TypeOK, Q!TypeOK', ReasonInv, Q!Chat, NEW g \in Groups
  PROVE  SaidAs(g)' /\ (spent'.crashes = 0 => AskedAs(g)')
<1> DEFINE Kept == SaidAs(g)' /\ (spent'.crashes = 0 => AskedAs(g)')
<1>1. SaidAs(g) /\ (spent.crashes = 0 => AskedAs(g))
  BY DEF ReasonInv
<1>2. UNCHANGED <<day, worker, brief, spent>>
  BY DEF Q!Chat, Q!CloseAnswered, Q!Answer, Q!Correct, Q!SkipGroup
<1>3. Marking(g) = Marking(g)'
  BY <1>2 DEF Marking
<1>4. ASSUME unknown'[g] = unknown[g], rows'[g] = rows[g], said'[g] = said[g] PROVE Kept
  BY <1>1, <1>2, <1>3, <1>4 DEF SaidAs, AskedAs
<1>5. ASSUME said'[g] = Q!NotSaid, worker.pc = "write" => unknown'[g] <= worker.stats[g],
             rows'[g] = rows[g] \/ rows'[g].status = "labeled"
      PROVE  Kept
  <2>1. said'[g].day = Q!Never /\ Q!Never <= day
    BY <1>5, GroupTypes DEF Q!NotSaid
  <2>2. SaidAs(g)'
    BY <1>1, <1>2, <1>5, <2>1, GroupTypes DEF SaidAs
  <2>3. AskedAs(g)'
    BY <2>1 DEF AskedAs, Q!Never
  <2> QED BY <2>2, <2>3
<1>6. ASSUME NEW h \in Groups, Q!Answer(h) PROVE Kept
  <2> DEFINE s == [rows[h] EXCEPT !.status = "labeled", !.resolved = 0]
  <2>1. s.status = "labeled"
    BY GroupTypes, LabeledRow
  <2>2. \/ /\ unknown' = [unknown EXCEPT ![h] = 0] /\ said' = [said EXCEPT ![h] = Q!NotSaid] /\ rows' = rows
        \/ /\ unknown' = unknown /\ said' = [said EXCEPT ![h] = Q!NotSaid] /\ rows' = [rows EXCEPT ![h] = s]
    BY <1>6 DEF Q!Answer
  <2> HIDE DEF s
  <2>3. CASE g # h
    BY <1>4, <2>2, <2>3 DEF Q!TypeOK
  <2>4. CASE g = h
    <3>1. said'[g] = Q!NotSaid
      BY <2>2, <2>4 DEF Q!TypeOK
    <3>2. worker.pc = "write" => unknown'[g] <= worker.stats[g]
      <4>1. unknown'[g] \in {0, unknown[g]}
        BY <2>2, <2>4 DEF Q!TypeOK
      <4> QED BY <1>1, <4>1, GroupTypes DEF SaidAs
    <3>3. rows'[g] = rows[g] \/ rows'[g].status = "labeled"
      BY <2>1, <2>2, <2>4 DEF Q!TypeOK
    <3> QED BY <1>5, <3>1, <3>2, <3>3
  <2> QED BY <2>3, <2>4
<1>7. CASE Q!CloseAnswered
  <2> DEFINE s == [rows[chat] EXCEPT !.status = "labeled", !.resolved = 0]
  <2>1. chat \in Groups => s.status = "labeled"
    BY GroupTypes, LabeledRow
  <2>2. unknown' = unknown /\ said' = [said EXCEPT ![chat] = Q!NotSaid] /\ rows' = [rows EXCEPT ![chat] = s]
    BY <1>7 DEF Q!CloseAnswered
  <2> HIDE DEF s
  <2>3. CASE g # chat
    BY <1>4, <2>2, <2>3 DEF Q!TypeOK
  <2>4. CASE g = chat
    <3>1. said'[g] = Q!NotSaid /\ rows'[g].status = "labeled"
      BY <2>1, <2>2, <2>4 DEF Q!TypeOK
    <3>2. worker.pc = "write" => unknown'[g] <= worker.stats[g]
      BY <1>1, <2>2 DEF SaidAs
    <3> QED BY <1>5, <3>1, <3>2
  <2> QED BY <2>3, <2>4
<1>8. ASSUME NEW h \in Groups, Q!Correct(h) PROVE Kept
  <2>1. /\ unknown[h] > 0 /\ unknown' = [unknown EXCEPT ![h] = @ - 1] /\ rows' = rows
        /\ said' = IF unknown[h] = 1 THEN [said EXCEPT ![h] = Q!NotSaid] ELSE said
    BY <1>8 DEF Q!Correct
  <2>2. CASE g # h
    BY <1>4, <2>1, <2>2 DEF Q!TypeOK
  <2>3. CASE g = h
    <3>1. unknown'[g] = unknown[g] - 1 /\ unknown[g] \in Nat
      BY <2>1, <2>3 DEF Q!TypeOK
    <3>2. worker.pc = "write" => unknown'[g] <= worker.stats[g]
      BY <1>1, <3>1, GroupTypes DEF SaidAs
    <3>3. CASE unknown[h] = 1
      <4>1. said'[g] = Q!NotSaid
        BY <2>1, <2>3, <3>3 DEF Q!TypeOK
      <4> QED BY <1>5, <2>1, <3>2, <4>1
    <3>4. CASE unknown[h] # 1
      <4>1. said'[g] = said[g] /\ unknown'[g] # 0 /\ rows'[g] = rows[g]
        BY <2>1, <2>3, <3>1, <3>4
      <4>2. SaidAs(g)'
        BY <1>1, <1>2, <3>1, <3>2, <4>1, GroupTypes DEF SaidAs
      <4> QED BY <1>1, <1>2, <1>3, <4>1, <4>2 DEF AskedAs
    <3> QED BY <3>3, <3>4
  <2> QED BY <2>2, <2>3
<1>9. ASSUME NEW h \in Groups, Q!SkipGroup(h) PROVE Kept
  <2> DEFINE r == rows[h]
             s == [r EXCEPT !.status = "skipped", !.resolved = day, !.asked = r.count]
  <2>1. r.status # "none" /\ unknown' = unknown /\ rows' = [rows EXCEPT ![h] = s] /\ Q!Tell({h})
    BY <1>9 DEF Q!SkipGroup
  <2>2. s.status = "skipped" /\ s.resolved = day /\ s.asked = r.count /\ s.count = r.count
    <3>1. r \in Q!Row /\ day \in Nat
      BY GroupTypes
    <3> HIDE DEF r
    <3> QED BY <3>1, SkippedRow
  <2> HIDE DEF s
  <2>3. rows'[h] = s /\ \A k \in Groups \ {h} : rows'[k] = rows[k]
    BY <2>1 DEF Q!TypeOK
  <2>4. CASE g # h
    <3>1. said'[g] = said[g]
      BY <2>1, <2>4, TellGroups
    <3> QED BY <1>4, <2>1, <2>3, <2>4, <3>1
  <2>5. CASE g = h
    <3>1. CASE said'[g] = said[g]
      <4>1. SaidAs(g)'
        BY <1>1, <1>2, <2>1, <2>2, <2>3, <2>5, <3>1, GroupTypes DEF SaidAs
      <4> QED BY <2>2, <2>3, <2>5, <4>1 DEF AskedAs
    <3>2. CASE /\ unknown[g] > 0 /\ rows[g].status = "open" /\ said'[g].day = day
               /\ ~said'[g].more => unknown[g] <= rows[g].count
               /\ ~said'[g].more /\ worker.pc = "write" => worker.stats[g] <= rows[g].count
      <4>1. SaidAs(g)'
        BY <1>1, <1>2, <2>1, <2>2, <2>3, <2>5, <3>2, GroupTypes DEF SaidAs
      <4> QED BY <2>2, <2>3, <2>5, <4>1 DEF AskedAs
    <3> QED BY <2>1, <3>1, <3>2, TellGroups
  <2> QED BY <2>4, <2>5
<1> QED BY <1>6, <1>7, <1>8, <1>9 DEF Q!Chat

(* Midnight and a crash: nothing is half done at the one, and the other excuses a      *)
(* mark that was never made.                                                  *)
LEMMA OtherReasons ==
  ASSUME Q!TypeOK, Q!TypeOK', ReasonInv, NEW g \in Groups
  PROVE  /\ Q!NextDay => SaidAs(g)' /\ (spent'.crashes = 0 => AskedAs(g)')
         /\ Q!Crash => SaidAs(g)' /\ (spent'.crashes = 0 => AskedAs(g)')
<1> DEFINE Kept == SaidAs(g)' /\ (spent'.crashes = 0 => AskedAs(g)')
<1>1. SaidAs(g) /\ (spent.crashes = 0 => AskedAs(g))
  BY DEF ReasonInv
<1>2. ASSUME Q!NextDay PROVE Kept
  <2>1. /\ brief.pc = "idle" /\ worker.pc = "idle" /\ day' = day + 1
        /\ UNCHANGED <<unknown, rows, worker, brief, said, spent>>
    BY <1>2 DEF Q!NextDay
  <2>2. ~Marking(g)
    BY <2>1 DEF Marking
  <2>3. SaidAs(g)'
    BY <1>1, <2>1, GroupTypes DEF SaidAs
  <2>4. spent'.crashes = 0 => AskedAs(g)'
    BY <1>1, <2>1, <2>2, GroupTypes DEF AskedAs
  <2> QED BY <2>3, <2>4
<1>3. ASSUME Q!Crash PROVE Kept
  <2>1. worker'.pc = "idle" /\ UNCHANGED <<day, unknown, rows, said>>
    BY <1>3 DEF Q!Crash, Q!Idle
  <2>2. spent \in [arrivals: Nat, crashes: Nat] /\ spent' = [spent EXCEPT !.crashes = @ + 1]
    BY <1>3 DEF Q!Crash, Q!TypeOK
  <2>3. spent'.crashes # 0
    BY <2>2
  <2>4. SaidAs(g)'
    BY <1>1, <2>1 DEF SaidAs
  <2> QED BY <2>3, <2>4
<1> QED BY <1>2, <1>3

LEMMA ReasonKept ==
  ASSUME Q!TypeOK, Q!TypeOK', NumberedInv, ReasonInv, Q!Next
  PROVE  ReasonInv'
<1> SUFFICES ASSUME NEW g \in Groups PROVE SaidAs(g)' /\ (spent'.crashes = 0 => AskedAs(g)')
  BY DEF ReasonInv
<1>1. CASE Q!Cycle
  BY <1>1, CycleReasons, AlertReasons DEF Q!Cycle
<1>2. CASE Q!Morning
  BY <1>2, MorningReasons
<1>3. CASE Q!Chat
  BY <1>3, ChatReasons
<1>4. CASE Q!NextDay \/ Q!Crash
  BY <1>4, OtherReasons
<1>5. CASE \E h \in Groups : Q!Arrive(h)
  BY <1>5, AlertReasons
<1> QED BY <1>1, <1>2, <1>3, <1>4, <1>5 DEF Q!Next

(* What holds of the questions at every step. *)
AskingInv == Q!TypeOK /\ NumberedInv /\ ReasonInv

LEMMA AskingStarts == MCInit => AskingInv
<1> SUFFICES ASSUME Q!Init PROVE AskingInv
  BY DEF MCInit
<1>1. Q!TypeOK
  <2>1. rows \in [Groups -> Q!Row] /\ said \in [Groups -> [day: Nat \cup {Q!Never}, more: BOOLEAN]]
    BY DEF Q!Init, Q!NoRow, Q!Row, Q!Never, Q!NotSaid
  <2>2. brief \in [pc: {"idle", "send", "sent", "mark"}, list: Seq(Groups), marked: Nat, sent: Nat]
    <3>1. <<>> \in Seq(Groups)
      OBVIOUS
    <3> QED BY <3>1 DEF Q!Init, Q!Waiting
  <2>3. brief.marked <= Len(brief.list)
    BY DEF Q!Init, Q!Waiting
  <2>4. worker \in [pc: {"idle", "write", "alert", "mark"}, stats: [Groups -> Nat], marking: SUBSET Groups]
    BY DEF Q!Init, Q!Idle
  <2>5. spent \in [arrivals: Nat, crashes: Nat]
    BY DEF Q!Init
  <2> QED BY <2>1, <2>2, <2>3, <2>4, <2>5 DEF Q!TypeOK, Q!Init
<1>2. NumberedInv
  BY DEF NumberedInv, Q!Init, Q!Waiting
<1>3. ReasonInv
  BY DEF ReasonInv, SaidAs, AskedAs, Q!Init, Q!NotSaid, Q!NoRow, Q!Never, Q!Idle
<1> QED BY <1>1, <1>2, <1>3 DEF AskingInv

LEMMA AskingStays ==
  AskingInv /\ [MCNext]_<<vars, legs, story, readings, asking, about>> => AskingInv'
<1> SUFFICES ASSUME AskingInv, [MCNext]_<<vars, legs, story, readings, asking, about>> PROVE AskingInv'
  OBVIOUS
<1>1. CASE Q!Next
  BY <1>1, AskingTypesKept, NumberedKept, ReasonKept DEF AskingInv
<1>2. CASE UNCHANGED asking
  <2>1. UNCHANGED <<day, unknown, rows, worker, alerting, brief, chat, said, spent>>
    BY <1>2 DEF asking
  <2>2. Q!TypeOK' /\ NumberedInv'
    BY <2>1 DEF AskingInv, Q!TypeOK, NumberedInv
  <2>3. ReasonInv'
    BY <2>1 DEF AskingInv, ReasonInv, SaidAs, AskedAs, Marking
  <2> QED BY <2>2, <2>3 DEF AskingInv
<1> QED BY <1>1, <1>2 DEF MCNext

(* The number an asked group carries is its place in the message it was asked in,     *)
(* or none, whatever alerts, answers and refreshes do meanwhile (scheduler.ts, *)
(* deliverIfDue; questions.ts, markQuestionSent, markQuestionsAskedByAddress).   *)
THEOREM NumbersAlwaysAsSent == MCSpec => []NumberedAsSent
<1>1. AskingInv => NumberedAsSent
  BY DEF AskingInv, NumberedInv, NumberedAsSent, Q!NumberedAsSent
<1> QED BY <1>1, AskingStarts, AskingStays, PTL DEF MCSpec

(* A message asks again about a group only if it was never asked or skipped since it   *)
(* was last answered, or long ago, or more transfers came than were asked about,   *)
(* Mondays and crashes between a message and its mark apart (questions.ts,       *)
(* getQuestionsToSend, refreshQuestionGroups).                                *)
THEOREM AlwaysAskedForAReason == MCSpec => AskedForAReason
<1>1. AskingInv /\ [MCNext]_<<vars, legs, story, readings, asking, about>> => [Q!AsksForAReason]_Q!vars
  <2> SUFFICES ASSUME AskingInv, Q!PickQuestions, ~Q!Monday, spent.crashes = 0,
                      NEW g \in Q!Range(brief'.list)
               PROVE  Q!HasReason(g)
    BY DEF Q!AsksForAReason
  <2>1. PICK limit : \E list \in Q!Lists(limit) :
          brief' = [brief EXCEPT !.pc = "send", !.list = list, !.marked = 0]
    BY DEF Q!PickQuestions
  <2>2. PICK list \in Q!Lists(limit) :
          brief' = [brief EXCEPT !.pc = "send", !.list = list, !.marked = 0]
    BY <2>1
  <2>3. brief.pc = "idle" /\ brief'.list = list
    BY <2>2 DEF Q!PickQuestions, AskingInv, Q!TypeOK
  <2>4. list \in Seq(Groups) /\ \A i \in 1 .. Len(list) : Q!Due(list[i])
    BY ListsAreLists
  <2>5. g \in Groups /\ Q!Due(g)
    BY <2>3, <2>4 DEF Q!Range
  <2>6. Q!TypeOK /\ SaidAs(g) /\ AskedAs(g)
    BY <2>5 DEF AskingInv, ReasonInv
  <2>7. /\ rows[g].status = "open" /\ rows[g].count > 0
        /\ \/ rows[g].sent = Q!Never \/ rows[g].sent <= day - ReaskDays
           \/ rows[g].asked > 0 /\ rows[g].count >= 2 * rows[g].asked
    BY <2>5 DEF Q!Due, Q!Doubled
  <2>8. CASE said[g].day \in {Q!Never, day}
    BY <2>8 DEF Q!HasReason
  <2>9. CASE said[g].day \notin {Q!Never, day}
    <3>1. /\ rows[g].sent # Q!Never => said[g].day <= rows[g].sent
          /\ rows[g].sent = Q!Never => said[g].day <= day - ReaskDays \/ said[g].more
          /\ said[g].more \/ rows[g].asked >= rows[g].count
      BY <2>6, <2>7, <2>9 DEF AskedAs
    <3>2. said[g].day <= day - ReaskDays \/ said[g].more
      BY <2>5, <2>6, <2>7, <3>1, GroupTypes
    <3> QED BY <3>2 DEF Q!HasReason
  <2> QED BY <2>8, <2>9
<1> QED BY <1>1, AskingStarts, AskingStays, PTL DEF MCSpec, AskedForAReason, Q!AskedForAReason
=============================================================================
