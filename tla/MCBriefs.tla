------------------------------- MODULE MCBriefs -------------------------------
(***************************************************************************)
(* The morning message: when it goes out, what its story tells, what it says of    *)
(* the holdings and what it asks; a behaviour is about one of the four.          *)
(***************************************************************************)
EXTENDS Briefs, Sequences, TLC

CONSTANTS
  Labels, Parties, MaxTxs, MaxLegs, MaxLines,
  Prices, Amounts, MinChange,
  Groups, AddressOf, Worth, PingMin, PingsPerDay, WeeklyList, ReaskDays, WeekDays, Large,
  MaxDay, MaxUnknown, MaxArrivals, MaxCrashes,
  small, big

Sides == Permutations(Parties)  \* the other sides are alike

(* Two tokens from one address, the second worth more. *)
MCAddressOf == [q \in Groups |-> "out"]
MCWorth == [q \in Groups |-> IF q = small THEN 1 ELSE 2]

VARIABLES legs, story, readings,
          day, unknown, rows, worker, alerting, brief, chat, said, spent,
          about

S == INSTANCE Story WITH told <- story
H == INSTANCE Holdings
Q == INSTANCE Questions WITH DaysInWeek <- WeekDays

ASSUME StoryAssumption == MaxTxs \in Nat
ASSUME HoldingsAssumption ==
  Prices \subseteq Nat /\ Amounts \subseteq Nat /\ MinChange \in Nat \ {0}
ASSUME AskingAssumption == ReaskDays \in Nat

asking == <<day, unknown, rows, worker, alerting, brief, chat, said, spent>>

MCInit ==
  /\ Init /\ S!Init /\ H!Init /\ Q!Init /\ about \in {"time", "story", "holdings", "questions"}
MCNext ==
  \/ about = "time" /\ Next /\ UNCHANGED <<legs, story, readings, asking, about>>
  \/ about = "story" /\ S!Next /\ UNCHANGED <<vars, readings, asking, about>>
  \/ about = "holdings" /\ H!Next /\ UNCHANGED <<vars, legs, story, asking, about>>
  \/ about = "questions" /\ Q!Next /\ UNCHANGED <<vars, legs, story, readings, about>>
MCSpec == MCInit /\ [][MCNext]_<<vars, legs, story, readings, asking, about>>

(* Story!EveryLegToldOnce: nothing of a night is told twice or kept back         *)
(* (generate.ts:111-145, storyItems; 304-309, "not told twice").                  *)
EveryLegToldOnce == S!EveryLegToldOnce
(* Holdings!ReasonIsRight: the change told is the sum of its parts, and its reason  *)
(* points the same way (generate.ts:211-257, "Exact split").                   *)
ReasonIsRight == H!ReasonIsRight
(* Questions!NumberedAsSent: the number an asked group carries is its place in the  *)
(* message (scheduler.ts:142).                                               *)
NumberedAsSent == Q!NumberedAsSent
(* Questions!AskedForAReason: a morning asks again about a group only because        *)
(* something is new, or it is long ago (questions.ts:15, 158-195).              *)
AskedForAReason == Q!AskedForAReason
=============================================================================
