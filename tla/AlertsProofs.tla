----------------------------- MODULE AlertsProofs -----------------------------
(***************************************************************************)
(* Proofs about Alerts, for any users, admins, wallets and alerts: an alert is   *)
(* repeated only after a fault, once for each, and without a fault the owner of  *)
(* a new wallet never hears that it could not be read after hearing that it is.  *)
(***************************************************************************)
EXTENDS Alerts, FiniteSetTheorems, TLAPS

(* Each courier has its own kind of alert, and one at most in hand; the worker's   *)
(* has any only while the worker delivers.                                    *)
InHand ==
  /\ \A c \in Senders : \/ courier[c].sent = {}
                         \/ \E x \in Of(courier[c].todo) : courier[c].sent = {x}
  /\ worker.pc # "deliver" => courier["worker"] = Resting
  /\ \A x \in Of(courier["worker"].todo) : x.type # SentByBot
  /\ \A x \in Of(courier["bot"].todo) : x.type = SentByBot

(* An alert sent that nobody is about to mark may be sent again: one fault each. *)
Loose == out \ (courier["worker"].sent \cup courier["bot"].sent)
RepeatsPaid == IsFiniteSet(out) /\ Cardinality(Loose) + repeats <= trouble

Ready(w) == Message(w, "wallet_ready")
Failed(w) == Message(w, "wallet_read_failed")
(* In a list, the bad news is the older. *)
Ahead(rows, w) ==
  \A r \in rows : r.alert = Ready(w) /\ Failed(w) \in Of(rows) => Failed(w) \in r.after
(* Without a fault: the good news is of a wallet that is read for good, the bad     *)
(* news waits only while the good has not been heard, and goes out before it.     *)
WalletTold(w) ==
  /\ silent[Ready(w)] \in {0, Forever}
  /\ Ready(w) \in Waiting \cup out \/ silent[Ready(w)] # 0 => wallet[w].state = "ready"
  /\ Failed(w) \in Waiting => ~Heard(Ready(w))
  /\ Ahead(queue, w) /\ Ahead(courier["worker"].todo, w)
  /\ Ready(w) \in Of(courier["worker"].todo) /\ Failed(w) \in Waiting
       => Failed(w) \in Of(courier["worker"].todo)
Story ==
  trouble = 0 =>
    /\ blocked = {} /\ courier["worker"].sent \subseteq out
    /\ Of(courier["worker"].todo) \subseteq Waiting
    /\ \A w \in Wallets : WalletTold(w)

AlertsInv == TypeOK /\ InHand /\ RepeatsPaid /\ Story

-----------------------------------------------------------------------------
LEMMA OffFields ==
  /\ DOMAIN Off = {"pc", "user", "about", "left", "seen"}
  /\ Off.pc = "down" /\ Off.left = {} /\ Off.seen = {}
  BY DEF Off

(* The two messages about a wallet. *)
LEMMA News ==
  ASSUME NEW w \in Wallets
  PROVE  /\ {Ready(w), Failed(w)} \subseteq Alerts /\ Ready(w) # Failed(w)
         /\ Ready(w).type = "wallet_ready" /\ Failed(w).type = "wallet_read_failed"
         /\ Ready(w).to = Failed(w).to /\ Ready(w).about = w /\ Failed(w).about = w
  BY AlertsAssumption DEF Ready, Failed, Message

(* Taking alerts out of a list of rows leaves the others, in the same order. *)
LEMMA WithoutRows ==
  ASSUME NEW rows \in SUBSET Rows, NEW gone
  PROVE  /\ Without(rows, gone) \in SUBSET Rows
         /\ Of(Without(rows, gone)) = Of(rows) \ gone
         /\ \A w : Ahead(rows, w) => Ahead(Without(rows, gone), w)
<1>1. Without(rows, gone) \in SUBSET Rows
  BY DEF Without, Rows
<1>2. Of(Without(rows, gone)) = Of(rows) \ gone
  <2>1. ASSUME NEW r \in Without(rows, gone)
        PROVE  r.alert \in Of(rows) \ gone
    BY DEF Without, Of
  <2>2. ASSUME NEW r \in rows, r.alert \notin gone
        PROVE  r.alert \in Of(Without(rows, gone))
    <3>1. [alert |-> r.alert, after |-> r.after \ gone] \in Without(rows, gone)
      BY <2>2 DEF Without
    <3> QED BY <3>1 DEF Of
  <2> QED BY <2>1, <2>2 DEF Of
<1>3. ASSUME NEW w, Ahead(rows, w)
      PROVE  Ahead(Without(rows, gone), w)
  <2> SUFFICES ASSUME NEW r \in Without(rows, gone), r.alert = Ready(w),
                      Failed(w) \in Of(Without(rows, gone))
               PROVE  Failed(w) \in r.after
    BY DEF Ahead
  <2>1. PICK s \in rows : s.alert \notin gone /\ r = [alert |-> s.alert, after |-> s.after \ gone]
    BY DEF Without
  <2>2. Failed(w) \in Of(rows) \ gone
    BY <1>2
  <2>3. Failed(w) \in s.after
    BY <1>3, <2>1, <2>2 DEF Ahead
  <2> QED BY <2>1, <2>2, <2>3
<1> QED BY <1>1, <1>2, <1>3

LEMMA SilenceRange ==
  ASSUME TypeOK, NEW x \in Alerts
  PROVE  SilenceOf(x) \in 1 .. Forever /\ (x.type \in Once => SilenceOf(x) = Forever)
<1>1. Forever \in Nat /\ Forever > DayHours /\ DayHours > 0 /\ DayHours \in Nat
  BY AlertsAssumption DEF Forever
<1>2. CASE x.type \in Once
  BY <1>1, <1>2 DEF SilenceOf
<1>3. CASE x.type \notin Once
  <2>1. x.type \in Once \cup Rolling \cup Windowed
    BY AlertsAssumption
  <2>2. Silence[x.type] \in 1 .. DayHours
    BY <2>1, AlertsAssumption
  <2>3. hour \in Nat
    BY <1>1 DEF TypeOK
  <2>4. hour % Silence[x.type] \in 0 .. Silence[x.type] - 1
    BY <2>2, <2>3, <1>1
  <2> QED BY <1>1, <1>3, <2>2, <2>4 DEF SilenceOf
<1> QED BY <1>2, <1>3

(* A new alert is behind those that wait, and none is new while its key is silent. *)
LEMMA InsertRows ==
  ASSUME TypeOK, NEW S \in SUBSET Alerts, Insert(S)
  PROVE  /\ queue' \in SUBSET Rows /\ silent' \in [Alerts -> 0 .. Forever]
         /\ Waiting \subseteq Waiting' /\ Waiting' \subseteq Waiting \cup S
         /\ \A x \in Alerts : silent'[x] = silent[x] \/ (x \in S /\ x \in Waiting' /\ silent'[x] = SilenceOf(x))
         /\ \A w : Ahead(queue, w) /\ (Failed(w) \in S => Ready(w) \notin Waiting')
                     => Ahead(queue', w)
<1> DEFINE new == {x \in S : silent[x] = 0 /\ x \notin Waiting}
           row(x) == [alert |-> x, after |-> Waiting]
<1>1. /\ queue' = queue \cup {row(x) : x \in new}
      /\ silent' = [x \in Alerts |-> IF x \in new THEN SilenceOf(x) ELSE silent[x]]
  BY DEF Insert
<1>2. queue \in SUBSET Rows /\ Waiting \subseteq Alerts
  BY DEF TypeOK, Rows, Waiting, Of
<1>3. queue' \in SUBSET Rows
  <2>1. \A x \in new : row(x) \in Rows
    BY <1>2 DEF Rows
  <2> QED BY <1>1, <1>2, <2>1
<1>4. silent' \in [Alerts -> 0 .. Forever]
  <2>1. \A x \in Alerts : SilenceOf(x) \in 0 .. Forever
    BY SilenceRange, AlertsAssumption DEF Forever
  <2>2. silent \in [Alerts -> 0 .. Forever]
    BY DEF TypeOK
  <2> HIDE DEF new
  <2> QED BY <1>1, <2>1, <2>2
<1>5. Waiting' = Waiting \cup new
  <2>1. \A x \in new : row(x).alert = x
    OBVIOUS
  <2>2. Waiting' = Of(queue')
    BY DEF Waiting
  <2> HIDE DEF new, row
  <2> QED BY <1>1, <2>1, <2>2 DEF Waiting, Of
<1>6. \A x \in Alerts : silent'[x] = silent[x] \/ (x \in S /\ x \in Waiting' /\ silent'[x] = SilenceOf(x))
  BY <1>1, <1>5
<1>7. ASSUME NEW w, Ahead(queue, w), Failed(w) \in S => Ready(w) \notin Waiting'
      PROVE  Ahead(queue', w)
  <2> SUFFICES ASSUME NEW r \in queue', r.alert = Ready(w), Failed(w) \in Waiting'
               PROVE  Failed(w) \in r.after
    BY DEF Ahead, Waiting
  <2>1. Ready(w) \in Waiting'
    BY DEF Waiting, Of
  <2>2. Failed(w) \in Waiting
    BY <1>5, <1>7, <2>1
  <2>3. CASE r \in queue
    BY <1>7, <2>2, <2>3 DEF Ahead, Waiting
  <2>4. CASE r \in {row(x) : x \in new}
    BY <2>2, <2>4
  <2> QED BY <1>1, <2>3, <2>4
<1> QED BY <1>3, <1>4, <1>5, <1>6, <1>7

(* What is left of a list when alerts of it are done with. *)
LEMMA RestOf ==
  ASSUME TypeOK, NEW c \in Senders, NEW gone
  PROVE  /\ Rest(c, gone) \in [Senders -> [on: BOOLEAN, todo: SUBSET Rows, sent: SUBSET Alerts]]
         /\ Rest(c, gone)[c].sent = {}
         /\ Rest(c, gone)[c].todo = Without(courier[c].todo, gone)
         /\ \A d \in Senders \ {c} : Rest(c, gone)[d] = courier[d]
<1>1. courier[c].todo \in SUBSET Rows
  BY DEF TypeOK
<1>2. Without(courier[c].todo, gone) \in SUBSET Rows
  BY <1>1, WithoutRows
<1> QED BY <1>2 DEF Rest, Sending, TypeOK

LEMMA FirstOf ==
  ASSUME TypeOK, NEW c \in Senders
  PROVE  First(c) \subseteq Of(courier[c].todo) /\ Of(courier[c].todo) \subseteq Alerts
  BY DEF First, Of, TypeOK, Rows

-----------------------------------------------------------------------------
LEMMA TypesInitially == Init => TypeOK
<1> SUFFICES ASSUME Init PROVE TypeOK
  OBVIOUS
<1>1. DayHours \in Nat /\ DayHours > 0 /\ Forever \in Nat
  BY AlertsAssumption DEF Forever
<1>2. worker.pc = "next" /\ DOMAIN worker = DOMAIN Off /\ worker.left = {} /\ worker.seen = {}
  BY OffFields DEF Init
<1>3. courier \in [Senders -> [on: BOOLEAN, todo: SUBSET Rows, sent: SUBSET Alerts]]
  BY DEF Init, Resting
<1>4. wallet \in [Wallets -> [state: {"reading", "failed", "ready"}, told: BOOLEAN]]
  BY DEF Init
<1>5. silent \in [Alerts -> 0 .. Forever] /\ hour \in 0 .. DayHours - 1
  BY <1>1 DEF Init
<1>6. queue = {} /\ blocked = {} /\ beat = TRUE /\ told = FALSE /\ out = {} /\ repeats = 0 /\ trouble = 0
  BY DEF Init
<1> QED BY <1>2, <1>3, <1>4, <1>5, <1>6 DEF TypeOK

LEMMA TypesKept == TypeOK /\ [Next]_vars => TypeOK'
<1> SUFFICES ASSUME TypeOK, [Next]_vars PROVE TypeOK'
  OBVIOUS
<1> USE DEF world, ghosts
<1>1. CASE StartCycle
  BY <1>1, OffFields DEF StartCycle, TypeOK
<1>2. CASE EndDetect
  BY <1>2, OffFields DEF EndDetect, TypeOK
<1>3. CASE MarkNotified
  BY <1>3, OffFields, ZenonT(30) DEF MarkNotified, TypeOK
<1>4. CASE Deliver
  <2>1. Without(queue, Alerts \ ForWorker) \in SUBSET Rows
    BY WithoutRows DEF TypeOK
  <2>2. courier' \in [Senders -> [on: BOOLEAN, todo: SUBSET Rows, sent: SUBSET Alerts]]
    BY <1>4, <2>1 DEF Deliver, Sending, TypeOK
  <2> QED BY <1>4, <2>2, OffFields DEF Deliver, TypeOK
<1>5. CASE Served
  <2>1. courier' \in [Senders -> [on: BOOLEAN, todo: SUBSET Rows, sent: SUBSET Alerts]]
    BY <1>5 DEF Served, Resting, TypeOK
  <2> QED BY <1>5, <2>1, OffFields DEF Served, TypeOK
<1>6. ASSUME NEW u \in Users, Serve(u) PROVE TypeOK'
  BY <1>6, OffFields DEF Serve, TypeOK
<1>7. ASSUME NEW w \in Wallets, QueueReady(w) PROVE TypeOK'
  <2>1. {Message(w, "wallet_ready")} \in SUBSET Alerts
    BY News DEF Ready
  <2>2. queue' \in SUBSET Rows /\ silent' \in [Alerts -> 0 .. Forever]
    BY <1>7, <2>1, InsertRows DEF QueueReady
  <2> QED BY <1>7, <2>2, OffFields DEF QueueReady, ToTell, TypeOK
<1>8. ASSUME NEW w \in Wallets, QueueFailed(w) PROVE TypeOK'
  <2>1. {Message(w, "wallet_read_failed")} \in SUBSET Alerts
    BY News DEF Failed
  <2>2. queue' \in SUBSET Rows /\ silent' \in [Alerts -> 0 .. Forever]
    BY <1>8, <2>1, InsertRows DEF QueueFailed
  <2> QED BY <1>8, <2>2 DEF QueueFailed, TypeOK
<1>9. ASSUME NEW x \in Alerts, Detect(x) PROVE TypeOK'
  <2>1. {x} \in SUBSET Alerts
    OBVIOUS
  <2>2. queue' \in SUBSET Rows /\ silent' \in [Alerts -> 0 .. Forever]
    BY <1>9, <2>1, InsertRows DEF Detect
  <2> QED BY <1>9, <2>2 DEF Detect, TypeOK
<1>10. ASSUME NEW c \in Senders, NEW x \in Alerts, Send(c, x) PROVE TypeOK'
  <2>1. courier' \in [Senders -> [on: BOOLEAN, todo: SUBSET Rows, sent: SUBSET Alerts]]
    BY <1>10 DEF Send, TypeOK
  <2>2. told' \in BOOLEAN /\ repeats' \in Nat
    BY <1>10 DEF Send, TypeOK
  <2> QED BY <1>10, <2>1, <2>2 DEF Send, TypeOK
<1>11. ASSUME NEW c \in Senders, MarkAlertSent(c) PROVE TypeOK'
  <2>1. queue' \in SUBSET Rows
    BY <1>11, WithoutRows DEF MarkAlertSent, TypeOK
  <2> QED BY <1>11, <2>1, RestOf DEF MarkAlertSent, TypeOK
<1>12. ASSUME NEW c \in Senders, NEW x \in Alerts, Refused(c, x) PROVE TypeOK'
  <2>1. queue' \in SUBSET Rows
    BY <1>12, WithoutRows DEF Refused, TypeOK
  <2> QED BY <1>12, <2>1, RestOf DEF Refused, TypeOK
<1>13. ASSUME NEW c \in Senders, SendFails(c) PROVE TypeOK'
  BY <1>13, RestOf DEF SendFails, Trouble, TypeOK
<1>14. CASE Stop
  <2>1. courier' \in [Senders -> [on: BOOLEAN, todo: SUBSET Rows, sent: SUBSET Alerts]]
    BY <1>14 DEF Stop, Resting, TypeOK
  <2>2. worker' = Off /\ told' = FALSE /\ trouble' \in Nat
    BY <1>14 DEF Stop, Trouble, TypeOK
  <2>3. UNCHANGED <<hour, queue, silent, wallet, blocked, beat, out, repeats>>
    BY <1>14 DEF Stop
  <2>4. worker'.pc = "down" /\ worker'.left \cup worker'.seen \subseteq Users
    BY <2>2, OffFields
  <2> QED BY <2>1, <2>2, <2>3, <2>4 DEF TypeOK
<1>15. CASE Start
  BY <1>15, OffFields DEF Start, TypeOK
<1>16. CASE Poll
  <2> DEFINE S == {x \in Alerts : x.type = SentByBot /\ x.to \in Admins /\ ~beat}
  <2>1. S \in SUBSET Alerts /\ Insert(S)
    BY <1>16 DEF Poll
  <2> HIDE DEF S
  <2>2. queue' \in SUBSET Rows /\ silent' \in [Alerts -> 0 .. Forever]
    BY <2>1, InsertRows
  <2>3. Without(queue', Alerts \ ForBot) \in SUBSET Rows
    BY <2>2, WithoutRows
  <2>4. courier' \in [Senders -> [on: BOOLEAN, todo: SUBSET Rows, sent: SUBSET Alerts]]
    BY <1>16, <2>3 DEF Poll, Sending, TypeOK
  <2> QED BY <1>16, <2>2, <2>4 DEF Poll, TypeOK
<1>17. CASE Polled
  <2>1. courier' \in [Senders -> [on: BOOLEAN, todo: SUBSET Rows, sent: SUBSET Alerts]]
    BY <1>17 DEF Polled, Resting, TypeOK
  <2> QED BY <1>17, <2>1 DEF Polled, TypeOK
<1>18. CASE BeatAges
  BY <1>18 DEF BeatAges, TypeOK
<1>19. CASE Tick
  <2>1. hour' \in 0 .. DayHours - 1
    <3>1. hour \in Nat /\ DayHours \in Nat /\ DayHours > 0
      BY AlertsAssumption DEF TypeOK
    <3> QED BY <1>19, <3>1 DEF Tick
  <2>2. silent' \in [Alerts -> 0 .. Forever]
    <3>1. Forever \in Nat
      BY AlertsAssumption DEF Forever
    <3>2. \A x \in Alerts : Cooler(silent[x]) \in 0 .. Forever
      <4> SUFFICES ASSUME NEW x \in Alerts PROVE Cooler(silent[x]) \in 0 .. Forever
        OBVIOUS
      <4>1. silent[x] \in 0 .. Forever
        BY DEF TypeOK
      <4> QED BY <3>1, <4>1 DEF Cooler
    <3> QED BY <1>19, <3>2 DEF Tick
  <2> QED BY <1>19, <2>1, <2>2, OffFields DEF Tick, TypeOK
<1>20. ASSUME NEW w \in Wallets, ReadOf(w) PROVE TypeOK'
  BY <1>20 DEF ReadOf, TypeOK
<1>21. ASSUME NEW u \in Users, Block(u) PROVE TypeOK'
  BY <1>21 DEF Block, Trouble, TypeOK
<1>22. CASE UNCHANGED vars
  BY <1>22 DEF vars, TypeOK
<1> QED
  BY <1>1, <1>2, <1>3, <1>4, <1>5, <1>6, <1>7, <1>8, <1>9, <1>10, <1>11, <1>12, <1>13, <1>14,
     <1>15, <1>16, <1>17, <1>18, <1>19, <1>20, <1>21, <1>22
     DEF Next, Round, Couriers, World, Senders

-----------------------------------------------------------------------------
(* The worker's courier has work only while the worker delivers. *)
LEMMA AtWork ==
  ASSUME TypeOK, InHand, courier["worker"].todo # {} \/ courier["worker"].sent # {}
  PROVE  worker.pc = "deliver"
  BY DEF InHand, Resting

LEMMA HandsKept ==
  ASSUME TypeOK, InHand, [Next]_vars
  PROVE  InHand'
<1>1. ASSUME UNCHANGED courier, worker.pc # "deliver" \/ worker'.pc = worker.pc
      PROVE  InHand'
  BY <1>1 DEF InHand
<1>2. ASSUME NEW c \in Senders, NEW gone, courier' = Rest(c, gone), UNCHANGED worker,
             courier[c].todo # {}
      PROVE  InHand'
  <2>1. /\ courier'[c].sent = {} /\ \A d \in Senders \ {c} : courier'[d] = courier[d]
        /\ Of(courier'[c].todo) \subseteq Of(courier[c].todo)
    BY <1>2, RestOf, WithoutRows DEF TypeOK
  <2>2. c = "worker" => worker.pc = "deliver"
    BY <1>2, AtWork
  <2> QED BY <1>2, <2>1, <2>2 DEF InHand, Senders
<1>3. ASSUME NEW c \in Senders, NEW x \in Alerts, Send(c, x)
      PROVE  InHand'
  <2>1. x \in Of(courier[c].todo)
    BY <1>3, FirstOf DEF Send
  <2>2. courier[c].todo # {}
    BY <2>1 DEF Of
  <2>3. /\ courier'[c].sent = {x} /\ courier'[c].todo = courier[c].todo
        /\ \A d \in Senders \ {c} : courier'[d] = courier[d]
    BY <1>3 DEF Send, TypeOK
  <2>4. UNCHANGED worker /\ (c = "worker" => worker.pc = "deliver")
    BY <1>3, <2>2, AtWork DEF Send
  <2> QED BY <2>1, <2>3, <2>4 DEF InHand, Senders
<1>4. ASSUME NEW c \in Senders, MarkAlertSent(c)
      PROVE  InHand'
  <2>1. courier[c].todo # {}
    BY <1>4 DEF MarkAlertSent, InHand, Of
  <2> QED BY <1>2, <1>4, <2>1 DEF MarkAlertSent
<1>5. ASSUME NEW c \in Senders, NEW x \in Alerts, Refused(c, x)
      PROVE  InHand'
  <2>1. courier[c].todo # {}
    BY <1>5 DEF Refused, First, Of
  <2> QED BY <1>2, <1>5, <2>1 DEF Refused
<1>6. ASSUME NEW c \in Senders, SendFails(c)
      PROVE  InHand'
  <2>1. courier[c].todo # {}
    BY <1>6 DEF SendFails, First, Of, InHand
  <2> QED BY <1>2, <1>6, <2>1 DEF SendFails
<1>7. CASE Deliver
  <2> DEFINE rows == Without(queue, Alerts \ ForWorker)
  <2>1. Of(rows) \subseteq ForWorker
    <3>1. Of(queue) \subseteq Alerts /\ queue \in SUBSET Rows
      BY DEF Of, TypeOK, Rows
    <3> QED BY <3>1, WithoutRows
  <2>2. courier' = [courier EXCEPT !["worker"] = Sending(rows)] /\ worker'.pc = "deliver"
    BY <1>7, OffFields DEF Deliver, TypeOK
  <2>3. /\ courier'["worker"].sent = {} /\ courier'["worker"].todo = rows
        /\ courier'["bot"] = courier["bot"]
    BY <2>2 DEF Sending, TypeOK, Senders
  <2>4. \A x \in Of(rows) : x.type # SentByBot
    BY <2>1 DEF ForWorker
  <2> HIDE DEF rows
  <2> QED BY <2>2, <2>3, <2>4 DEF InHand, Senders
<1>8. CASE Served \/ Stop
  <2>1. courier' = [courier EXCEPT !["worker"] = Resting]
    BY <1>8 DEF Served, Stop
  <2>2. courier'["worker"] = Resting /\ courier'["bot"] = courier["bot"]
    BY <2>1 DEF TypeOK, Senders
  <2> QED BY <2>2 DEF InHand, Senders, Resting, Of
<1>9. CASE Poll
  <2> DEFINE rows == Without(queue', Alerts \ ForBot)
  <2>1. Of(rows) \subseteq ForBot
    <3>1. TypeOK'
      BY TypesKept
    <3>2. Of(queue') \subseteq Alerts /\ queue' \in SUBSET Rows
      BY <3>1 DEF Of, TypeOK, Rows
    <3> QED BY <3>2, WithoutRows
  <2>2. courier' = [courier EXCEPT !["bot"] = Sending(rows)] /\ UNCHANGED worker
    BY <1>9 DEF Poll
  <2>3. /\ courier'["bot"].sent = {} /\ courier'["bot"].todo = rows
        /\ courier'["worker"] = courier["worker"]
    BY <2>2 DEF Sending, TypeOK, Senders
  <2>4. \A x \in Of(rows) : x.type = SentByBot
    BY <2>1 DEF ForBot
  <2> HIDE DEF rows
  <2> QED BY <2>2, <2>3, <2>4 DEF InHand, Senders
<1>10. CASE Polled
  <2>1. /\ courier'["bot"] = Resting /\ courier'["worker"] = courier["worker"] /\ UNCHANGED worker
    BY <1>10 DEF Polled, TypeOK, Senders
  <2> QED BY <2>1 DEF InHand, Senders, Resting, Of
<1>11. CASE StartCycle \/ EndDetect \/ MarkNotified \/ \E u \in Users : Serve(u)
  BY <1>1, <1>11 DEF StartCycle, EndDetect, MarkNotified, Serve
<1>12. CASE \E w \in Wallets : QueueReady(w) \/ QueueFailed(w)
  BY <1>1, <1>12 DEF QueueReady, QueueFailed
<1>13. CASE \E x \in Alerts : Detect(x)
  BY <1>1, <1>13 DEF Detect
<1>14. CASE Start \/ BeatAges
  BY <1>1, <1>14 DEF Start, BeatAges
<1>15. CASE Tick
  <2>1. worker'.pc = worker.pc /\ UNCHANGED courier
    BY <1>15, OffFields DEF Tick, TypeOK
  <2> QED BY <1>1, <2>1
<1>16. CASE World \/ UNCHANGED vars
  BY <1>1, <1>16 DEF World, ReadOf, Block, vars
<1> QED
  BY <1>3, <1>4, <1>5, <1>6, <1>7, <1>8, <1>9, <1>10, <1>11, <1>12, <1>13, <1>14, <1>15, <1>16
     DEF Next, Round, Couriers, Senders

-----------------------------------------------------------------------------
LEMMA LooseFinite ==
  ASSUME RepeatsPaid
  PROVE  IsFiniteSet(Loose) /\ Cardinality(Loose) \in Nat
  BY FS_Subset, FS_CardinalityType DEF RepeatsPaid, Loose

LEMMA RepeatsKept ==
  ASSUME TypeOK, InHand, RepeatsPaid, [Next]_vars
  PROVE  RepeatsPaid'
<1> DEFINE n == Cardinality(Loose)
<1>1. n \in Nat /\ repeats \in Nat /\ trouble \in Nat /\ n + repeats <= trouble
  BY LooseFinite DEF RepeatsPaid, TypeOK
<1>2. ASSUME IsFiniteSet(out'), Loose' \subseteq Loose, UNCHANGED repeats, trouble' \in {trouble, trouble + 1}
      PROVE  RepeatsPaid'
  <2>1. Cardinality(Loose') \in Nat /\ Cardinality(Loose') <= n
    BY <1>2, LooseFinite, FS_Subset, FS_CardinalityType
  <2> QED BY <1>1, <1>2, <2>1 DEF RepeatsPaid
<1>3. ASSUME NEW x, IsFiniteSet(out'), Loose' \subseteq Loose \cup {x}, UNCHANGED repeats,
             trouble' = trouble + 1
      PROVE  RepeatsPaid'
  <2>1. /\ IsFiniteSet(Loose \cup {x}) /\ Cardinality(Loose \cup {x}) \in Nat
        /\ Cardinality(Loose \cup {x}) <= n + 1
    <3>1. IsFiniteSet(Loose)
      BY LooseFinite
    <3>2. /\ IsFiniteSet(Loose \cup {x})
          /\ Cardinality(Loose \cup {x}) = IF x \in Loose THEN n ELSE n + 1
      BY <3>1, FS_AddElement
    <3> QED BY <1>1, <3>2
  <2>2. Cardinality(Loose') \in Nat /\ Cardinality(Loose') <= Cardinality(Loose \cup {x})
    BY <1>3, <2>1, FS_Subset, FS_CardinalityType
  <2> QED BY <1>1, <1>3, <2>1, <2>2 DEF RepeatsPaid
<1>4. IsFiniteSet(out) /\ \A S : IsFiniteSet(out \ S)
  BY FS_Subset DEF RepeatsPaid
<1>5. ASSUME NEW c \in Senders, NEW x \in Alerts, Send(c, x)
      PROVE  RepeatsPaid'
  <2>1. /\ courier[c].sent = {} /\ courier'[c].sent = {x} /\ out' = out \cup {x}
        /\ \A d \in Senders \ {c} : courier'[d] = courier[d]
        /\ UNCHANGED trouble
    BY <1>5 DEF Send, TypeOK
  <2>2. \A d \in Senders \ {c} : x \notin courier[d].sent
    <3>1. x \in Of(courier[c].todo)
      BY <1>5, FirstOf DEF Send
    <3> QED BY <3>1 DEF InHand, Senders
  <2>3. Loose' = Loose \ {x} /\ (x \in out => x \in Loose)
    BY <2>1, <2>2 DEF Loose, Senders
  <2>4. IsFiniteSet(out')
    BY <1>4, <2>1, FS_AddElement
  <2>5. CASE x \in out
    <3>1. repeats' = repeats + 1
      BY <1>5, <2>5 DEF Send
    <3>2. Cardinality(Loose') = n - 1
      BY <2>3, <2>5, LooseFinite, FS_RemoveElement
    <3> QED BY <1>1, <2>1, <2>4, <3>1, <3>2 DEF RepeatsPaid
  <2>6. CASE x \notin out
    <3>1. UNCHANGED repeats
      BY <1>5, <2>6 DEF Send
    <3> QED BY <1>2, <2>1, <2>3, <2>4, <3>1
  <2> QED BY <2>5, <2>6
<1>6. ASSUME NEW c \in Senders, MarkAlertSent(c)
      PROVE  RepeatsPaid'
  <2>1. /\ courier'[c].sent = {} /\ \A d \in Senders \ {c} : courier'[d] = courier[d]
        /\ out' = out \ courier[c].sent /\ UNCHANGED <<repeats, trouble>>
    BY <1>6, RestOf DEF MarkAlertSent
  <2>2. Loose' \subseteq Loose
    BY <2>1 DEF Loose, Senders
  <2> QED BY <1>2, <1>4, <2>1, <2>2
<1>7. ASSUME NEW c \in Senders, NEW x \in Alerts, Refused(c, x)
      PROVE  RepeatsPaid'
  <2>1. PICK S : out' = out \ S /\ courier' = Rest(c, S)
    BY <1>7 DEF Refused
  <2>2. /\ courier[c].sent = {} /\ \A d \in Senders \ {c} : courier'[d] = courier[d]
        /\ UNCHANGED <<repeats, trouble>>
    BY <1>7, <2>1, RestOf DEF Refused
  <2>3. Loose' \subseteq Loose
    BY <2>1, <2>2 DEF Loose, Senders
  <2> QED BY <1>2, <1>4, <2>1, <2>2, <2>3
<1>8. ASSUME NEW c \in Senders, SendFails(c)
      PROVE  RepeatsPaid'
  <2>1. PICK x \in (IF courier[c].sent = {} THEN First(c) ELSE courier[c].sent) : courier' = Rest(c, {x})
    BY <1>8 DEF SendFails
  <2>2. courier[c].sent \subseteq {x}
    BY <2>1 DEF InHand
  <2>3. /\ \A d \in Senders \ {c} : courier'[d] = courier[d]
        /\ UNCHANGED <<out, repeats>> /\ trouble' = trouble + 1
    BY <1>8, <2>1, RestOf DEF SendFails, Trouble, ghosts
  <2>4. Loose' \subseteq Loose \cup {x}
    BY <2>2, <2>3 DEF Loose, Senders
  <2> QED BY <1>3, <1>4, <2>3, <2>4
<1>9. CASE Stop
  <2>1. /\ courier'["bot"] = courier["bot"] /\ UNCHANGED <<out, repeats>> /\ trouble' = trouble + 1
    BY <1>9 DEF Stop, Trouble, TypeOK, Senders
  <2>2. PICK x : courier["worker"].sent \subseteq {x}
    BY DEF InHand, Senders
  <2>3. Loose' \subseteq Loose \cup {x}
    BY <2>1, <2>2 DEF Loose
  <2> QED BY <1>3, <1>4, <2>1, <2>3
<1>10. ASSUME UNCHANGED <<out, repeats>>, trouble' \in {trouble, trouble + 1},
              \A c \in Senders : courier'[c] = courier[c] \/ courier[c].sent = {}
       PROVE  RepeatsPaid'
  <2>1. Loose' \subseteq Loose
    BY <1>10 DEF Loose, Senders
  <2> QED BY <1>2, <1>4, <1>10, <2>1
<1>11. CASE Deliver
  <2>1. courier["worker"].sent = {} /\ courier'["bot"] = courier["bot"]
    BY <1>11 DEF Deliver, InHand, Resting, TypeOK, Senders
  <2> QED BY <1>10, <1>11, <2>1 DEF Deliver, ghosts, Senders
<1>12. CASE Served
  <2>1. courier["worker"].sent = {} /\ courier'["bot"] = courier["bot"]
    BY <1>12 DEF Served, InHand, Of, TypeOK, Senders
  <2> QED BY <1>10, <1>12, <2>1 DEF Served, ghosts, Senders
<1>13. CASE Poll
  <2>1. courier["bot"].sent = {} /\ courier'["worker"] = courier["worker"]
    BY <1>13 DEF Poll, Resting, TypeOK, Senders
  <2> QED BY <1>10, <1>13, <2>1 DEF Poll, Senders
<1>14. CASE Polled
  <2>1. courier["bot"].sent = {} /\ courier'["worker"] = courier["worker"]
    BY <1>14 DEF Polled, Sending, TypeOK, Senders
  <2> QED BY <1>10, <1>14, <2>1 DEF Polled, ghosts, Senders
<1>15. CASE StartCycle \/ EndDetect \/ MarkNotified \/ \E u \in Users : Serve(u)
  BY <1>10, <1>15 DEF StartCycle, EndDetect, MarkNotified, Serve, ghosts
<1>16. CASE \E w \in Wallets : QueueReady(w) \/ QueueFailed(w)
  BY <1>10, <1>16 DEF QueueReady, QueueFailed
<1>17. CASE \E x \in Alerts : Detect(x)
  BY <1>10, <1>17 DEF Detect
<1>18. CASE Start \/ BeatAges \/ Tick
  BY <1>10, <1>18 DEF Start, BeatAges, Tick, ghosts
<1>19. CASE World \/ UNCHANGED vars
  BY <1>10, <1>19 DEF World, ReadOf, Block, Trouble, vars, ghosts
<1> QED
  BY <1>5, <1>6, <1>7, <1>8, <1>9, <1>11, <1>12, <1>13, <1>14, <1>15, <1>16, <1>17, <1>18, <1>19
     DEF Next, Round, Couriers, Senders

-----------------------------------------------------------------------------
(* Nothing that tells on a wallet changes. *)
LEMMA Undisturbed ==
  ASSUME TypeOK, Story, trouble = 0, UNCHANGED <<queue, out, blocked>>,
         \A w \in Wallets : /\ silent'[Ready(w)] = silent[Ready(w)]
                            /\ wallet[w].state = "ready" => wallet'[w].state = "ready",
         courier'["worker"] \in {courier["worker"], Resting}
  PROVE  Story'
<1>1. UNCHANGED Waiting /\ Of({}) = {}
  BY DEF Waiting, Of
<1>2. courier'["worker"].sent \subseteq courier["worker"].sent
  BY DEF Resting
<1>3. courier'["worker"].todo \in {courier["worker"].todo, {}}
  BY DEF Resting
<1>4. \A w \in Wallets : WalletTold(w)'
  <2> SUFFICES ASSUME NEW w \in Wallets PROVE WalletTold(w)'
    OBVIOUS
  <2>1. WalletTold(w)
    BY DEF Story
  <2> QED BY <1>1, <1>3, <2>1 DEF WalletTold, Heard, Ahead
<1> QED BY <1>1, <1>2, <1>3, <1>4 DEF Story

(* What is inserted: good news of a wallet that is read, bad news of one that is not. *)
LEMMA InsertTold ==
  ASSUME TypeOK, Story, trouble = 0, UNCHANGED <<out, blocked, wallet>>,
         UNCHANGED courier["worker"], NEW S \in SUBSET Alerts, Insert(S),
         \A w \in Wallets : /\ Ready(w) \in S => wallet[w].state = "ready"
                            /\ Failed(w) \in S => wallet[w].state # "ready"
  PROVE  Story'
<1>1. /\ Waiting \subseteq Waiting' /\ Waiting' \subseteq Waiting \cup S
      /\ \A x \in Alerts : silent'[x] = silent[x] \/ (x \in S /\ x \in Waiting' /\ silent'[x] = SilenceOf(x))
      /\ \A w : Ahead(queue, w) /\ (Failed(w) \in S => Ready(w) \notin Waiting')
                  => Ahead(queue', w)
  BY InsertRows
<1>2. Forever # 0
  BY AlertsAssumption DEF Forever
<1>3. \A w \in Wallets : WalletTold(w)'
  <2> SUFFICES ASSUME NEW w \in Wallets PROVE WalletTold(w)'
    OBVIOUS
  <2> DEFINE R == Ready(w)
             F == Failed(w)
  <2>1. /\ silent[R] \in {0, Forever}
        /\ R \in Waiting \cup out \/ silent[R] # 0 => wallet[w].state = "ready"
        /\ F \in Waiting => R \notin out /\ ~(silent[R] = Forever /\ R \notin Waiting)
        /\ Ahead(queue, w) /\ Ahead(courier["worker"].todo, w)
        /\ R \in Of(courier["worker"].todo) /\ F \in Waiting => F \in Of(courier["worker"].todo)
        /\ Of(courier["worker"].todo) \subseteq Waiting
    BY DEF Story, WalletTold, Heard
  <2>2. R \in Alerts /\ R # F
    BY News
  <2>3. SilenceOf(R) = Forever
    BY News, SilenceRange DEF Once
  <2>4. R \in S => wallet[w].state = "ready"
    OBVIOUS
  <2>5. F \in S => wallet[w].state # "ready"
    OBVIOUS
  <2> HIDE DEF R, F
  <2>6. silent'[R] = silent[R] \/ (R \in S /\ R \in Waiting' /\ silent'[R] = Forever)
    BY <1>1, <2>2, <2>3
  <2>7. R \in Waiting' \cup out' \/ silent'[R] # 0 => wallet'[w].state = "ready"
    BY <1>1, <2>1, <2>4, <2>6
  <2>8. F \in Waiting' => R \notin out' /\ ~(silent'[R] = Forever /\ R \notin Waiting')
    BY <1>1, <1>2, <2>1, <2>4, <2>5, <2>6
  <2>9. F \in S => R \notin Waiting'
    BY <1>1, <2>1, <2>4, <2>5
  <2>10. Ahead(queue', w)
    BY <1>1, <2>1, <2>9 DEF R, F
  <2>11. R \in Of(courier'["worker"].todo) /\ F \in Waiting' => F \in Of(courier'["worker"].todo)
    BY <1>1, <2>1, <2>5
  <2>12. silent'[R] \in {0, Forever} /\ Ahead(courier'["worker"].todo, w)
    BY <2>1, <2>6
  <2> QED BY <2>7, <2>8, <2>10, <2>11, <2>12 DEF WalletTold, Heard, R, F
<1>4. Of(courier'["worker"].todo) \subseteq Waiting'
  BY <1>1 DEF Story
<1> QED BY <1>3, <1>4 DEF Story

(* The worker's list is made of both messages about a wallet, if both wait. *)
LEMMA DeliverTold ==
  ASSUME TypeOK, Story, trouble = 0, Deliver
  PROVE  Story'
<1> DEFINE rows == Without(queue, Alerts \ ForWorker)
<1>1. /\ UNCHANGED <<queue, silent, wallet, blocked, out>>
      /\ courier'["worker"].todo = rows /\ courier'["worker"].sent = {}
  BY DEF Deliver, world, ghosts, Sending, TypeOK, Senders
<1>2. queue \in SUBSET Rows
  BY DEF TypeOK
<1>3. Of(rows) = Waiting \ (Alerts \ ForWorker) /\ \A w : Ahead(queue, w) => Ahead(rows, w)
  BY <1>2, WithoutRows DEF Waiting
<1>4. UNCHANGED Waiting
  BY <1>1 DEF Waiting
<1> HIDE DEF rows
<1>5. \A w \in Wallets : WalletTold(w)'
  <2> SUFFICES ASSUME NEW w \in Wallets PROVE WalletTold(w)'
    OBVIOUS
  <2>1. WalletTold(w)
    BY DEF Story
  <2>2. Ready(w) \in ForWorker => Failed(w) \in ForWorker
    BY News DEF ForWorker, AnyHour, AdminOnly, SentByBot
  <2>3. Ready(w) \in Of(rows) /\ Failed(w) \in Waiting => Failed(w) \in Of(rows)
    BY <1>3, <2>2, News
  <2> QED BY <1>1, <1>3, <1>4, <2>1, <2>3 DEF WalletTold, Heard
<1> QED BY <1>1, <1>3, <1>4, <1>5 DEF Story

(* The oldest of the worker's list is sent: not the good news while the bad waits. *)
LEMMA SendTold ==
  ASSUME TypeOK, InHand, Story, trouble = 0, NEW c \in Senders, NEW x \in Alerts, Send(c, x)
  PROVE  Story'
<1>1. /\ UNCHANGED <<queue, silent, wallet, blocked, trouble>> /\ out' = out \cup {x}
      /\ courier' = [courier EXCEPT ![c].sent = {x}] /\ x \in First(c)
  BY DEF Send, world
<1>2. /\ courier'["worker"].todo = courier["worker"].todo
      /\ courier'["worker"].sent \subseteq courier["worker"].sent \cup {x}
  BY <1>1 DEF TypeOK, Senders
<1>3. UNCHANGED Waiting
  BY <1>1 DEF Waiting
<1>4. x \in Of(courier[c].todo)
  BY <1>1, FirstOf
<1>5. \A w \in Wallets : WalletTold(w)'
  <2> SUFFICES ASSUME NEW w \in Wallets PROVE WalletTold(w)'
    OBVIOUS
  <2>1. WalletTold(w)
    BY DEF Story
  <2>2. ASSUME x = Ready(w)
        PROVE  Ready(w) \in Waiting /\ Failed(w) \notin Waiting
    <3>1. c = "worker"
      BY <1>4, <2>2, News DEF InHand, Senders, SentByBot
    <3>2. x \in Waiting
      BY <1>4, <3>1 DEF Story
    <3>3. PICK r \in courier["worker"].todo : r.after = {} /\ r.alert = x
      BY <1>1, <3>1 DEF First, Of
    <3>4. Failed(w) \notin Of(courier["worker"].todo)
      BY <2>1, <2>2, <3>3 DEF WalletTold, Ahead
    <3> QED BY <1>4, <2>1, <2>2, <3>1, <3>2, <3>4 DEF WalletTold
  <2> QED BY <1>1, <1>2, <1>3, <2>1, <2>2 DEF WalletTold, Heard
<1> QED BY <1>1, <1>2, <1>3, <1>5 DEF Story

LEMMA MarkTold ==
  ASSUME TypeOK, InHand, Story, trouble = 0, NEW c \in Senders, MarkAlertSent(c)
  PROVE  Story'
<1> DEFINE gone == courier[c].sent
           todo == courier["worker"].todo
<1>1. /\ UNCHANGED <<silent, wallet, blocked, trouble>> /\ out' = out \ gone
      /\ queue' = Without(queue, gone) /\ courier' = Rest(c, gone)
  BY DEF MarkAlertSent, world
<1>2. queue \in SUBSET Rows /\ todo \in SUBSET Rows
  BY DEF TypeOK, Senders
<1>3. Waiting' = Waiting \ gone /\ \A w : Ahead(queue, w) => Ahead(queue', w)
  BY <1>1, <1>2, WithoutRows DEF Waiting
<1>4. gone \subseteq Of(courier[c].todo)
  BY DEF InHand
<1>5. /\ Of(courier'["worker"].todo) = Of(todo) \ gone
      /\ \A w : Ahead(todo, w) => Ahead(courier'["worker"].todo, w)
  <2>1. CASE c = "worker"
    <3>1. courier'["worker"].todo = Without(todo, gone)
      BY <1>1, <2>1, RestOf
    <3> QED BY <1>2, <3>1, WithoutRows
  <2>2. CASE c = "bot"
    <3>1. courier'["worker"].todo = todo
      BY <1>1, <2>2, RestOf DEF Senders
    <3>2. Of(todo) \cap gone = {}
      BY <1>4, <2>2 DEF InHand
    <3> QED BY <3>1, <3>2
  <2> QED BY <2>1, <2>2 DEF Senders
<1>6. courier'["worker"].sent \subseteq out'
  <2>1. CASE c = "worker"
    BY <1>1, <2>1, RestOf
  <2>2. CASE c = "bot"
    <3>1. courier'["worker"].sent = courier["worker"].sent
      BY <1>1, <2>2, RestOf DEF Senders
    <3>2. courier["worker"].sent \cap gone = {}
      BY <1>4, <2>2 DEF InHand, Senders
    <3> QED BY <1>1, <3>1, <3>2 DEF Story
  <2> QED BY <2>1, <2>2 DEF Senders
<1>7. \A w \in Wallets : Ready(w) \in gone => Ready(w) \in out
  <2>1. CASE c = "worker"
    BY <2>1 DEF Story
  <2>2. CASE c = "bot"
    BY <1>4, <2>2, News DEF InHand, SentByBot
  <2> QED BY <2>1, <2>2 DEF Senders
<1> HIDE DEF gone, todo
<1>8. \A w \in Wallets : WalletTold(w)'
  <2> SUFFICES ASSUME NEW w \in Wallets PROVE WalletTold(w)'
    OBVIOUS
  <2>1. WalletTold(w)
    BY DEF Story
  <2> QED BY <1>1, <1>3, <1>5, <1>7, <2>1 DEF WalletTold, Heard, todo
<1>9. Of(courier'["worker"].todo) \subseteq Waiting'
  BY <1>3, <1>5 DEF Story, todo
<1> QED BY <1>1, <1>6, <1>8, <1>9 DEF Story

LEMMA StoryKept ==
  ASSUME TypeOK, InHand, Story, [Next]_vars
  PROVE  Story'
<1> SUFFICES ASSUME trouble' = 0 PROVE Story'
  BY DEF Story
<1>1. CASE trouble # 0
  <2>1. trouble' = trouble \/ trouble' = trouble + 1
    BY DEF Next, Round, Couriers, World, StartCycle, EndDetect, MarkNotified, Deliver, Served, Serve,
           QueueReady, QueueFailed, Detect, Send, MarkAlertSent, Refused, SendFails, Stop, Start, Poll,
           Polled, BeatAges, Tick, ReadOf, Block, Trouble, vars
  <2> QED BY <1>1, <2>1 DEF TypeOK
<1>2. CASE trouble = 0
  <2>1. ~Trouble
    BY <1>2 DEF Trouble
  <2>2. blocked = {} /\ \A w \in Wallets : silent[Ready(w)] \in {0, Forever}
    BY <1>2 DEF Story, WalletTold
  <2>3. CASE StartCycle \/ EndDetect \/ Start \/ BeatAges \/ \E u \in Users : Serve(u)
    <3>1. UNCHANGED <<queue, out, blocked, silent, wallet, courier>>
      BY <2>3 DEF StartCycle, EndDetect, Start, BeatAges, Serve, world, ghosts
    <3> QED BY <1>2, <3>1, Undisturbed
  <2>4. CASE MarkNotified
    <3>1. /\ UNCHANGED <<queue, out, blocked, silent, courier>>
          /\ \A w \in Wallets : wallet'[w].state = wallet[w].state
      BY <2>4 DEF MarkNotified, ghosts, TypeOK
    <3> QED BY <1>2, <3>1, Undisturbed
  <2>5. ASSUME NEW w \in Wallets, ReadOf(w) PROVE Story'
    <3>1. /\ UNCHANGED <<queue, out, blocked, silent, courier>>
          /\ \A v \in Wallets : wallet[v].state = "ready" => wallet'[v].state = "ready"
      BY <2>5 DEF ReadOf, ghosts, TypeOK
    <3> QED BY <1>2, <3>1, Undisturbed
  <2>6. CASE Tick
    <3>1. /\ UNCHANGED <<queue, out, blocked, wallet, courier>>
          /\ silent' = [x \in Alerts |-> Cooler(silent[x])]
      BY <2>6 DEF Tick, world
    <3>2. \A w \in Wallets : silent'[Ready(w)] = silent[Ready(w)]
      BY <2>2, <3>1, News DEF Cooler
    <3> QED BY <1>2, <3>1, <3>2, Undisturbed
  <2>7. CASE Served \/ Polled
    <3>1. /\ UNCHANGED <<queue, out, blocked, silent, wallet>>
          /\ courier'["worker"] \in {courier["worker"], Resting}
      BY <2>7 DEF Served, Polled, world, ghosts, TypeOK, Senders
    <3> QED BY <1>2, <3>1, Undisturbed
  <2>8. CASE UNCHANGED vars
    BY <1>2, <2>8, Undisturbed DEF vars
  <2>9. ASSUME NEW w \in Wallets, QueueReady(w) PROVE Story'
    <3> DEFINE S == {Ready(w)}
    <3>1. S \in SUBSET Alerts
      BY News
    <3>2. /\ UNCHANGED <<out, blocked, wallet>> /\ UNCHANGED courier["worker"]
          /\ Insert(S) /\ wallet[w].state = "ready"
      BY <2>9 DEF QueueReady, Ready, world
    <3>3. \A v \in Wallets : /\ Ready(v) \in S => wallet[v].state = "ready"
                             /\ Failed(v) \in S => wallet[v].state # "ready"
      BY <3>2, News
    <3> HIDE DEF S
    <3> QED BY <1>2, <3>1, <3>2, <3>3, InsertTold
  <2>10. ASSUME NEW w \in Wallets, QueueFailed(w) PROVE Story'
    <3> DEFINE S == {Failed(w)}
    <3>1. S \in SUBSET Alerts
      BY News
    <3>2. /\ UNCHANGED <<out, blocked, wallet>> /\ UNCHANGED courier["worker"]
          /\ Insert(S) /\ wallet[w].state = "failed"
      BY <2>10 DEF QueueFailed, Failed, world
    <3>3. \A v \in Wallets : /\ Ready(v) \in S => wallet[v].state = "ready"
                             /\ Failed(v) \in S => wallet[v].state # "ready"
      BY <3>2, News
    <3> HIDE DEF S
    <3> QED BY <1>2, <3>1, <3>2, <3>3, InsertTold
  <2>11. ASSUME NEW x \in Alerts, Detect(x) PROVE Story'
    <3>1. /\ UNCHANGED <<out, blocked, wallet>> /\ UNCHANGED courier["worker"]
          /\ Insert({x}) /\ x.type \in {"wallet_stale", "movement", "spend_spike"}
      BY <2>11 DEF Detect, Found
    <3>2. \A v \in Wallets : Ready(v) \notin {x} /\ Failed(v) \notin {x}
      BY <3>1, News
    <3> QED BY <1>2, <3>1, <3>2, InsertTold
  <2>12. CASE Poll
    <3> DEFINE S == {x \in Alerts : x.type = SentByBot /\ x.to \in Admins /\ ~beat}
    <3>1. S \in SUBSET Alerts /\ \A v \in Wallets : Ready(v) \notin S /\ Failed(v) \notin S
      BY News DEF SentByBot
    <3>2. /\ UNCHANGED <<out, blocked, wallet>> /\ courier'["worker"] = courier["worker"]
          /\ Insert(S)
      BY <2>12 DEF Poll, world, TypeOK, Senders
    <3> HIDE DEF S
    <3> QED BY <1>2, <3>1, <3>2, InsertTold
  <2>13. CASE Deliver
    BY <1>2, <2>13, DeliverTold
  <2>14. ASSUME NEW c \in Senders, NEW x \in Alerts, Send(c, x) \/ Refused(c, x) PROVE Story'
    BY <1>2, <2>2, <2>14, SendTold DEF Refused
  <2>15. ASSUME NEW c \in Senders, MarkAlertSent(c) PROVE Story'
    BY <1>2, <2>15, MarkTold
  <2>16. ~Stop /\ (\A c \in Senders : ~SendFails(c)) /\ \A u \in Users : ~Block(u)
    BY <2>1 DEF Stop, SendFails, Block
  <2> QED
    BY <2>3, <2>4, <2>5, <2>6, <2>7, <2>8, <2>9, <2>10, <2>11, <2>12, <2>13, <2>14, <2>15, <2>16
       DEF Next, Round, Couriers, World, Senders
<1> QED BY <1>1, <1>2

-----------------------------------------------------------------------------
LEMMA Initially == Init => AlertsInv
<1> SUFFICES ASSUME Init PROVE AlertsInv
  OBVIOUS
<1>1. courier = [c \in Senders |-> Resting] /\ queue = {} /\ out = {} /\ repeats = 0 /\ trouble = 0
  BY DEF Init
<1>2. Of({}) = {} /\ Waiting = {}
  BY <1>1 DEF Of, Waiting
<1>3. InHand
  BY <1>1, <1>2 DEF InHand, Resting, Senders
<1>4. RepeatsPaid
  <2>1. Loose = {}
    BY <1>1 DEF Loose
  <2> QED BY <1>1, <2>1, FS_EmptySet DEF RepeatsPaid
<1>5. Story
  <2>1. blocked = {} /\ \A x \in Alerts : silent[x] = 0
    BY DEF Init
  <2>2. Forever # 0
    BY AlertsAssumption DEF Forever
  <2>3. courier["worker"].todo = {} /\ courier["worker"].sent = {}
    BY <1>1 DEF Resting, Senders
  <2>4. ASSUME NEW w \in Wallets PROVE WalletTold(w)
    <3>1. silent[Ready(w)] = 0
      BY <2>1, News
    <3> QED BY <1>1, <1>2, <2>2, <2>3, <3>1 DEF WalletTold, Heard, Ahead
  <2> QED BY <1>2, <2>1, <2>3, <2>4 DEF Story
<1> QED BY <1>3, <1>4, <1>5, TypesInitially DEF AlertsInv

(* The inductive invariant of raising and delivering alerts: who has which alert in   *)
(* hand, what a fault costs, and what is told of a new wallet (deliver.ts, notify.ts). *)
THEOREM AlertsInvariant == Spec => []AlertsInv
<1>1. AlertsInv /\ [Next]_vars => AlertsInv'
  BY TypesKept, HandsKept, RepeatsKept, StoryKept DEF AlertsInv
<1> QED BY Initially, <1>1, PTL DEF Spec

(* The types of the rows, keys, couriers and counters of Alerts. *)
THEOREM AlertsTypes == Spec => []TypeOK
<1>1. AlertsInv => TypeOK
  BY DEF AlertsInv
<1> QED BY <1>1, AlertsInvariant, PTL

(* Alerts are sent again no more often than something failed between sending one and   *)
(* marking it (deliver.ts:86-90): for any users and alerts, in both processes.     *)
THEOREM AlertsDeliveredOnce == Spec => []DeliveredOnce
<1>1. AlertsInv => DeliveredOnce
  <2> SUFFICES ASSUME AlertsInv PROVE repeats <= trouble
    BY DEF DeliveredOnce
  <2>1. Cardinality(Loose) \in Nat /\ Cardinality(Loose) + repeats <= trouble
    BY LooseFinite DEF AlertsInv, RepeatsPaid
  <2> QED BY <2>1 DEF AlertsInv, TypeOK
<1> QED BY <1>1, AlertsInvariant, PTL

(* The worker's courier takes an alert in hand only by sending it. *)
LEMMA OnlySends ==
  ASSUME TypeOK, [Next]_vars, NEW x, Sends("worker", x)
  PROVE  x \in First("worker")
<1>1. courier["worker"].sent = {} /\ courier'["worker"].sent = {x}
  BY DEF Sends
<1>2. ~(courier'["worker"] = courier["worker"]) /\ ~(courier'["worker"] = Resting)
  BY <1>1 DEF Resting
<1>3. \A c \in Senders : \A gone : courier' # Rest(c, gone)
  BY <1>1, RestOf DEF Senders
<1>4. \A rows : courier' # [courier EXCEPT !["worker"] = Sending(rows)]
  BY <1>1 DEF Sending, TypeOK, Senders
<1>5. \A v : courier' # [courier EXCEPT !["bot"] = v]
  BY <1>2 DEF TypeOK, Senders
<1>6. courier' # [courier EXCEPT !["worker"] = Resting]
  BY <1>2 DEF TypeOK, Senders
<1>7. ASSUME NEW c \in Senders, NEW y \in Alerts, Send(c, y)
      PROVE  x \in First("worker")
  <2>1. c = "worker"
    BY <1>2, <1>7 DEF Send, TypeOK, Senders
  <2>2. courier'["worker"].sent = {y} /\ y \in First("worker")
    BY <1>7, <2>1 DEF Send, TypeOK, Senders
  <2> QED BY <1>1, <2>2
<1>8. courier' # courier
  BY <1>2
<1>9. ~Deliver /\ ~Poll /\ ~Polled
  BY <1>4, <1>5 DEF Deliver, Poll, Polled
<1>10. ~Served /\ ~Stop
  BY <1>6 DEF Served, Stop
<1>11. ASSUME NEW c \in Senders
       PROVE  ~MarkAlertSent(c) /\ ~SendFails(c) /\ \A y \in Alerts : ~Refused(c, y)
  <2>1. ~MarkAlertSent(c)
    BY <1>3 DEF MarkAlertSent
  <2>2. ~SendFails(c)
    BY <1>3 DEF SendFails
  <2>3. \A y \in Alerts : ~Refused(c, y)
    BY <1>3 DEF Refused
  <2> QED BY <2>1, <2>2, <2>3
<1> QED
  BY <1>7, <1>8, <1>9, <1>10, <1>11
     DEF Next, Round, Couriers, World, StartCycle, EndDetect, MarkNotified, Serve, QueueReady,
         QueueFailed, Detect, Start, BeatAges, Tick, ReadOf, Block, Senders, vars

(* Without a fault, the owner of a new wallet is never told that it could not be read    *)
(* after hearing that it is (notify.ts:5), though both messages may wait together, and   *)
(* the reading goes on while they are delivered.                               *)
THEOREM WalletStoryHolds == Spec => WalletStory
<1>1. AlertsInv /\ [Next]_vars
        => [\A w \in Wallets : trouble = 0 /\ Sends("worker", Message(w, "wallet_read_failed"))
              => ~Heard(Message(w, "wallet_ready"))]_vars
  <2> SUFFICES ASSUME AlertsInv, [Next]_vars, NEW w \in Wallets, trouble = 0,
                      Sends("worker", Failed(w))
               PROVE  ~Heard(Ready(w))
    BY DEF Failed, Ready
  <2>1. Failed(w) \in Of(courier["worker"].todo)
    BY OnlySends, FirstOf DEF AlertsInv, Senders
  <2>2. Failed(w) \in Waiting /\ WalletTold(w)
    BY <2>1 DEF AlertsInv, Story
  <2> QED BY <2>2 DEF WalletTold
<1> QED BY <1>1, AlertsInvariant, PTL DEF Spec, WalletStory
=============================================================================
