-------------------------------- MODULE Alerts --------------------------------
(***************************************************************************)
(* Alerts: rows the detectors insert and two processes deliver.  The worker    *)
(* goes round its users: detect, tell of wallets read, deliver.  The bot        *)
(* watches the worker's heartbeat, and delivers the one alert the worker        *)
(* cannot send: that it has stopped.  An operator is not written to at night.   *)
(***************************************************************************)
EXTENDS Integers, FiniteSets

CONSTANTS
  Users,     \* those the worker serves: owners of wallets being read
  Admins,
  Wallets, OwnerOf,
  Alerts,    \* [type, to, about]: what an alert row tells whom, of what
  DayHours,
  Silence,   \* of each type: how long its dedup key or cooldown lasts
  Night,     \* hours of an operator's clock
  Offset,    \* of each user's timezone, from UTC
  MaxPending, MaxTrouble  \* bounds

Once == {"movement", "wallet_ready", "wallet_read_failed"}  \* keyed by what they are about
Rolling == {"spend_spike"}                  \* a cooldown since the last one
Windowed == {"wallet_stale", "worker_stale"}  \* a key per window of UTC hours

ASSUME AlertsAssumption ==
  /\ DayHours \in Nat \ {0} /\ Night \subseteq 0 .. DayHours - 1
  /\ Silence \in [Once \cup Rolling \cup Windowed -> 1 .. DayHours]
  /\ Offset \in [Users \cup Admins -> Nat] /\ OwnerOf \in [Wallets -> Users]
  /\ \A x \in Alerts : x.type \in Once \cup Rolling \cup Windowed /\ x.to \in Users \cup Admins
  /\ \A w \in Wallets, t \in {"wallet_ready", "wallet_read_failed"} :
       [type |-> t, to |-> OwnerOf[w], about |-> w] \in Alerts
  /\ {MaxPending, MaxTrouble} \subseteq Nat

(* ANY_HOUR_ALERTS and ADMIN_ONLY_ALERTS; SENT_BY_BOT. *)
AnyHour == {"wallet_ready", "wallet_read_failed", "worker_stale", "wallet_stale"}
AdminOnly == {"worker_stale", "wallet_stale"}
SentByBot == "worker_stale"

VARIABLES
  hour,      \* UTC
  queue,     \* rows of alerts neither sent nor given up, each with the older ones it is after
  silent,    \* hours left in which inserting the alert again does nothing
  wallet,    \* what is known of the wallet's first read, and ready_notified_at
  blocked,   \* users who have blocked the bot
  beat,      \* is the worker's last check-in recent?
  worker,    \* its step, whose turn it is, who is left this cycle, and whose turn came this hour
  courier,   \* send(), in the worker and in the bot: rows still to send, the alert not marked yet
  out,       \* alerts sent and not marked yet
  repeats,   \* alerts sent again
  told,      \* an admin heard that the worker stopped, since it did
  trouble    \* crashes, failed sends and failed marks so far (bound)

vars == <<hour, queue, silent, wallet, blocked, beat, worker, courier, out, repeats, told, trouble>>
world == <<wallet, blocked>>
ghosts == <<out, repeats, told>>

Forever == DayHours + 1
Senders == {"worker", "bot"}
Resting == [on |-> FALSE, todo |-> {}, sent |-> {}]
Off == [pc |-> "down", user |-> CHOOSE u \in Users : TRUE, about |-> CHOOSE w \in Wallets : TRUE,
        left |-> {}, seen |-> {}]

(* isQuietHours, on the reader's clock. *)
Quiet(u, h) == (h + Offset[u]) % DayHours \in Night

Trouble == trouble < MaxTrouble /\ trouble' = trouble + 1

(* Rows, by age (ORDER BY created_at). *)
Rows == [alert: Alerts, after: SUBSET Alerts]
Of(rows) == {r.alert : r \in rows}
Waiting == Of(queue)
Without(rows, gone) ==
  {[alert |-> r.alert, after |-> r.after \ gone] : r \in {r \in rows : r.alert \notin gone}}

-----------------------------------------------------------------------------
(* ON CONFLICT (dedup_key) DO NOTHING, insertAlertWithCooldown.  A second row of *)
(* the same alert is not raised while one waits: a bound.                     *)
(* A bug: the bot reports a stopped worker once. *)
SilenceOfOnce(x) ==
  IF x.type \in Once \cup {SentByBot} THEN Forever ELSE Silence[x.type]
SilenceOf(x) ==
  IF x.type \in Once THEN Forever
  ELSE IF x.type \in Rolling THEN Silence[x.type]
  ELSE Silence[x.type] - (hour % Silence[x.type])
Insert(S) ==
  LET new == {x \in S : silent[x] = 0 /\ x \notin Waiting} IN
  /\ queue' = queue \cup {[alert |-> x, after |-> Waiting] : x \in new}
  /\ silent' = [x \in Alerts |-> IF x \in new THEN SilenceOf(x) ELSE silent[x]]

(* What the detectors find is the books' and the chain's to say (Detectors): here *)
(* any of them may find something at any turn.                               *)
Found(x) ==
  IF x.type = "wallet_stale" THEN x.to \in Admins /\ OwnerOf[x.about] = worker.user
  ELSE x.to = worker.user /\ x.type \in {"movement", "spend_spike"}
Detect(x) ==
  /\ worker.pc = "detect" /\ Cardinality(queue) < MaxPending /\ Found(x) /\ Insert({x})
  /\ UNCHANGED <<hour, wallet, blocked, beat, worker, courier, out, repeats, told, trouble>>
EndDetect ==
  /\ worker.pc = "detect" /\ worker' = [worker EXCEPT !.pc = "onboard"]
  /\ UNCHANGED <<hour, queue, silent, wallet, blocked, beat, courier, ghosts, trouble>>

(* notifyWalletReadiness: queued, then marked as told; of a failed read, once. *)
Message(w, type) == [type |-> type, to |-> OwnerOf[w], about |-> w]
ToTell(u) == {w \in Wallets : OwnerOf[w] = u /\ ~wallet[w].told}
QueueReady(w) ==
  /\ worker.pc = "onboard" /\ w \in ToTell(worker.user) /\ wallet[w].state = "ready"
  /\ Insert({Message(w, "wallet_ready")})
  /\ worker' = [worker EXCEPT !.pc = "notified", !.about = w]
  /\ UNCHANGED <<hour, world, beat, courier, out, repeats, told, trouble>>
MarkNotified ==
  /\ worker.pc = "notified" /\ wallet' = [wallet EXCEPT ![worker.about].told = TRUE]
  /\ worker' = [worker EXCEPT !.pc = "onboard"]
  /\ UNCHANGED <<hour, queue, silent, blocked, beat, courier, ghosts, trouble>>
(* A bug: a wallet whose owner was told it is ready can fail again. *)
QueueFailedTold(w) ==
  /\ worker.pc = "onboard" /\ OwnerOf[w] = worker.user /\ wallet[w].state # "reading"
  /\ Insert({Message(w, "wallet_read_failed")})
  /\ UNCHANGED <<hour, world, beat, worker, courier, out, repeats, told, trouble>>
QueueFailed(w) ==
  /\ worker.pc = "onboard" /\ w \in ToTell(worker.user) /\ wallet[w].state = "failed"
  /\ Insert({Message(w, "wallet_read_failed")})
  /\ UNCHANGED <<hour, world, beat, worker, courier, out, repeats, told, trouble>>

-----------------------------------------------------------------------------
(* getUndeliveredAlerts, deliverWorkerStaleAlerts. *)
ForWorker ==
  {x \in Alerts : /\ x.to = worker.user /\ x.type # SentByBot
                  /\ x.type \in AdminOnly => x.to \in Admins
                  /\ x.type \in AnyHour \/ ~Quiet(x.to, hour)}
ForBot == {x \in Alerts : x.type = SentByBot /\ x.to \in Admins}
Sending(rows) == [on |-> TRUE, todo |-> rows, sent |-> {}]

Deliver ==
  /\ worker.pc = "onboard" /\ \A w \in ToTell(worker.user) : wallet[w].state # "ready"
  /\ courier' = [courier EXCEPT !["worker"] = Sending(Without(queue, Alerts \ ForWorker))]
  /\ worker' = [worker EXCEPT !.pc = "deliver", !.seen = @ \cup {worker.user}]
  /\ UNCHANGED <<hour, queue, silent, world, beat, ghosts, trouble>>

(* send: one alert at a time, the oldest first, sent and then marked. *)
First(c) == Of({r \in courier[c].todo : r.after = {}})
Rest(c, gone) == [courier EXCEPT ![c] = Sending(Without(@.todo, gone))]
Send(c, x) ==
  /\ courier[c].sent = {} /\ x \in First(c) /\ x.to \notin blocked
  /\ out' = out \cup {x}
  /\ repeats' = IF x \in out THEN repeats + 1 ELSE repeats
  /\ told' = (told \/ (x.type = SentByBot /\ worker.pc = "down"))
  /\ courier' = [courier EXCEPT ![c].sent = {x}]
  /\ UNCHANGED <<hour, queue, silent, world, beat, worker, trouble>>
(* A bug: the alerts of a list are marked when all are sent. *)
MarkAll(c) ==
  /\ courier[c].sent # {}
  /\ courier' = Rest(c, courier[c].sent)
  /\ queue' = IF Cardinality(courier[c].todo) > 1 THEN queue ELSE Without(queue, out)
  /\ out' = IF Cardinality(courier[c].todo) > 1 THEN out ELSE {}
  /\ UNCHANGED <<hour, silent, world, beat, worker, repeats, told, trouble>>
MarkAlertSent(c) ==
  /\ courier[c].sent # {}
  /\ queue' = Without(queue, courier[c].sent) /\ out' = out \ courier[c].sent
  /\ courier' = Rest(c, courier[c].sent)
  /\ UNCHANGED <<hour, silent, world, beat, worker, repeats, told, trouble>>
(* 403: everything waiting for this user is given up, and the rest of the list. *)
(* A bug: only the alert that was refused, and it stays. *)
RefusedLeft(c, x) ==
  /\ courier[c].sent = {} /\ x \in First(c) /\ x.to \in blocked
  /\ courier' = Rest(c, {x})
  /\ UNCHANGED <<hour, queue, silent, world, beat, worker, ghosts, trouble>>
Refused(c, x) ==
  /\ courier[c].sent = {} /\ x \in First(c) /\ x.to \in blocked
  /\ LET theirs == {y \in Alerts : y.to = x.to} IN
       queue' = Without(queue, theirs) /\ out' = out \ theirs /\ courier' = Rest(c, theirs)
  /\ UNCHANGED <<hour, silent, world, beat, worker, repeats, told, trouble>>
(* Logged, and the next alert is tried: this one waits for the next cycle. *)
SendFails(c) ==
  /\ Trouble
  /\ \E x \in IF courier[c].sent = {} THEN First(c) ELSE courier[c].sent : courier' = Rest(c, {x})
  /\ UNCHANGED <<hour, queue, silent, world, beat, worker, ghosts>>

-----------------------------------------------------------------------------
(* runCycle: a check-in at the start and before each user; the order of the users *)
(* is the database's.                                                      *)
StartCycle ==
  /\ worker.pc = "next" /\ worker.left = {} /\ beat' = TRUE
  /\ worker' = [worker EXCEPT !.left = Users]
  /\ UNCHANGED <<hour, queue, silent, world, courier, ghosts, trouble>>
Serve(u) ==
  /\ worker.pc = "next" /\ u \in worker.left /\ beat' = TRUE
  /\ worker' = [Off EXCEPT !.pc = "detect", !.user = u, !.left = worker.left \ {u}, !.seen = worker.seen]
  /\ UNCHANGED <<hour, queue, silent, world, courier, ghosts, trouble>>
Served ==
  /\ worker.pc = "deliver" /\ courier["worker"].todo = {}
  /\ courier' = [courier EXCEPT !["worker"] = Resting]
  /\ worker' = [Off EXCEPT !.pc = "next", !.left = worker.left, !.seen = worker.seen]
  /\ UNCHANGED <<hour, queue, silent, world, beat, ghosts, trouble>>
Stop ==
  /\ worker.pc # "down" /\ Trouble
  /\ worker' = Off /\ courier' = [courier EXCEPT !["worker"] = Resting] /\ told' = FALSE
  /\ UNCHANGED <<hour, queue, silent, world, beat, out, repeats>>
Start ==
  /\ worker.pc = "down" /\ worker' = [worker EXCEPT !.pc = "next"]
  /\ UNCHANGED <<hour, queue, silent, world, beat, courier, ghosts, trouble>>

(* The bot's health poll: detectWorkerStale, then its delivery, if there is any. *)
Poll ==
  /\ courier["bot"] = Resting
  /\ Insert({x \in Alerts : x.type = SentByBot /\ x.to \in Admins /\ ~beat})
  /\ courier' = [courier EXCEPT !["bot"] = Sending(Without(queue', Alerts \ ForBot))]
  /\ courier'["bot"].todo # {}
  /\ UNCHANGED <<hour, world, beat, worker, out, repeats, told, trouble>>
Polled ==
  /\ courier["bot"] = Sending({}) /\ courier' = [courier EXCEPT !["bot"] = Resting]
  /\ UNCHANGED <<hour, queue, silent, world, beat, worker, ghosts, trouble>>

-----------------------------------------------------------------------------
(* Five minutes without a check-in: the worker is down, or a step is slow. *)
BeatAges ==
  /\ beat /\ beat' = FALSE
  /\ UNCHANGED <<hour, queue, silent, world, worker, courier, ghosts, trouble>>
Cooler(n) == IF n \in {0, Forever} THEN n ELSE n - 1
(* A bound: a cycle takes minutes, so every user has a turn each hour. *)
Tick ==
  /\ worker.seen = Users \/ worker.pc = "down"
  /\ hour' = (hour + 1) % DayHours /\ worker' = [worker EXCEPT !.seen = {}]
  /\ silent' = [x \in Alerts |-> Cooler(silent[x])]
  /\ UNCHANGED <<queue, world, beat, courier, out, repeats, told, trouble>>
(* The read of a new wallet fails, and finishes in the end (Sync). *)
ReadOf(w) ==
  /\ wallet[w].state # "ready" /\ \E s \in {"failed", "ready"} : wallet' = [wallet EXCEPT ![w].state = s]
  /\ UNCHANGED <<hour, queue, silent, blocked, beat, worker, courier, ghosts, trouble>>
Block(u) ==
  /\ blocked' = IF u \in blocked THEN blocked \ {u} ELSE blocked \cup {u}
  /\ Trouble
  /\ UNCHANGED <<hour, queue, silent, wallet, beat, worker, courier, ghosts>>

Init ==
  /\ hour = 0 /\ queue = {} /\ silent = [x \in Alerts |-> 0]
  /\ wallet = [w \in Wallets |-> [state |-> "reading", told |-> FALSE]]
  /\ blocked = {} /\ beat = TRUE /\ worker = [Off EXCEPT !.pc = "next"]
  /\ courier = [c \in Senders |-> Resting]
  /\ out = {} /\ repeats = 0 /\ told = FALSE /\ trouble = 0

Round ==
  \/ StartCycle \/ EndDetect \/ MarkNotified \/ Deliver \/ Served
  \/ \E u \in Users : Serve(u)
  \/ \E w \in Wallets : QueueReady(w)
Couriers(c) == MarkAlertSent(c) \/ \E x \in Alerts : Send(c, x) \/ Refused(c, x)
World ==
  \/ \E w \in Wallets : ReadOf(w)
  \/ \E u \in Users : Block(u)
Next ==
  \/ Round \/ Couriers("worker") \/ Couriers("bot") \/ Stop \/ Start \/ Poll \/ Polled
  \/ \E c \in Senders : SendFails(c)
  \/ \E w \in Wallets : QueueFailed(w)
  \/ \E x \in Alerts : Detect(x)
  \/ BeatAges \/ Tick \/ World

(* The worker's loop and the bot's poll go round; the clock does. *)
Fairness ==
  /\ WF_vars(Round) /\ WF_vars(Couriers("worker")) /\ WF_vars(Couriers("bot"))
  /\ WF_vars(Poll) /\ WF_vars(Polled) /\ WF_vars(Tick)
  /\ WF_vars(BeatAges /\ worker.pc = "down")
Spec == Init /\ [][Next]_vars /\ Fairness

-----------------------------------------------------------------------------
TypeOK ==
  /\ hour \in 0 .. DayHours - 1 /\ queue \subseteq Rows /\ silent \in [Alerts -> 0 .. Forever]
  /\ wallet \in [Wallets -> [state: {"reading", "failed", "ready"}, told: BOOLEAN]]
  /\ blocked \subseteq Users /\ beat \in BOOLEAN /\ told \in BOOLEAN
  /\ worker.pc \in {"next", "detect", "onboard", "notified", "deliver", "down"}
  /\ DOMAIN worker = DOMAIN Off /\ worker.left \cup worker.seen \subseteq Users
  /\ worker.pc \in {"detect", "onboard", "notified", "deliver"} => worker.user \in Users
  /\ worker.pc = "notified" => worker.about \in Wallets
  /\ courier \in [Senders -> [on: BOOLEAN, todo: SUBSET Rows, sent: SUBSET Alerts]]
  /\ out \subseteq Alerts /\ repeats \in Nat /\ trouble \in Nat

(* A restart between sending an alert and marking it sent, or a mark that fails,  *)
(* repeats that one alert and no other (deliver.ts:86-90).                     *)
DeliveredOnce == repeats <= trouble

Sends(c, x) == courier[c].sent = {} /\ courier'[c].sent = {x}

(* The owner of a new wallet does not hear that it could not be read after       *)
(* hearing that it is ready, unless a send failed (notify.ts:5).                 *)
Heard(x) == x \in out \/ (silent[x] = Forever /\ x \notin Waiting)
WalletStory ==
  [][\A w \in Wallets : trouble = 0 /\ Sends("worker", Message(w, "wallet_read_failed"))
       => ~Heard(Message(w, "wallet_ready"))]_vars

(* What is held for the morning does not wait for ever: it is delivered, or given *)
(* up, as long as the worker runs.                                           *)
Settles ==
  \A x \in Alerts : x.type \notin AnyHour =>
    (x \in Waiting /\ x.to \in Users) ~> (x \notin Waiting \/ worker.pc = "down")

(* A worker that stopped for good is reported to the admins, whatever was        *)
(* reported before (health/detectors.ts:45).                                  *)
StoppedIsTold == (worker.pc = "down") ~> (worker.pc # "down" \/ told \/ blocked # {})
=============================================================================
