--------------------------------- MODULE Chat ---------------------------------
(***************************************************************************)
(* One operator's chat with Luca.  A message is answered in one run: a list of *)
(* what needs context, an answer to one of Luca's yes/no questions, an answer  *)
(* by number to Luca's list, or else the language model with its tools.  A     *)
(* change waits as a question of Luca's own until the operator says yes.  The  *)
(* operator can also label a transfer by a command of its own, at any moment.  *)
(***************************************************************************)
EXTENDS Integers, FiniteSets

CONSTANTS
  N,          \* transfers 1 .. N with one address, in the order Luca lists them
  Guards,     \* what a reply of the model may not do: leak a tool call, claim a check, ...
  MaxSteps,   \* MAX_STEPS
  MaxAsked, MaxSaid, MaxTrouble  \* bounds: questions before a run or command, messages, failures

ASSUME ChatAssumption == N \in Nat \ {0} /\ {MaxSteps, MaxAsked, MaxSaid, MaxTrouble} \subseteq Nat

VARIABLES
  labeled,    \* transfers with a label
  open,       \* pending questions; one is asked again only when alone, so ids are their order
  asked,      \* questions asked so far
  saved,      \* Luca's latest message in the conversation, and whether it was delivered
  seen,       \* what the operator reads in the chat: the last question, and the last lists
  said,       \* messages of the operator so far
  run, trouble

vars == <<labeled, open, asked, saved, seen, said, run, trouble>>

Transfers == 1 .. N
Nobody == 0
Bare == {[kind |-> "bare", yes |-> y] : y \in BOOLEAN}
Pick == {[kind |-> "pick", n |-> n, yes |-> y] : n \in 1 .. 2, y \in BOOLEAN}
Line == {[kind |-> "line", n |-> n] : n \in Transfers}
Words == {[kind |-> "words", affirms |-> a, denies |-> d] : a, d \in BOOLEAN}
Messages == Bare \cup Pick \cup Line \cup Words \cup {[kind |-> "context"]}

(* A reply: its kind, the question it asks, the list in it (of transfers, or the   *)
(* questions it could be about), the transfers it says were labeled.              *)
Reply(kind, q, list, done) == [kind |-> kind, q |-> q, list |-> list, done |-> done]
Plain == Reply("plain", Nobody, {}, {})
Denial == Reply("denial", Nobody, {}, {})
Idle == [pc |-> "idle", msg |-> [kind |-> "context"], view |-> {}, todo |-> {}, drafts |-> {},
         made |-> {}, steps |-> 0, corrected |-> {}, answers |-> Nobody, reply |-> Plain,
         saw |-> [q |-> Nobody, which |-> {}, list |-> {}]]
Ids(questions) == {p.id : p \in questions}
IsOpen(q) == q \in Ids(open)
Question(q) == CHOOSE p \in open : p.id = q
WithoutKind(kind) == {p \in open : p.kind # kind}
Closed(id) == {p \in open : p.id # id}
Unlabeled(done) == Transfers \ done
(* What a list has at its n-th line, if it is that long; lists are in order. *)
At(list, n) == {i \in list : Cardinality({j \in list : j <= i}) = n}

-----------------------------------------------------------------------------
(* A message starts a run if none is going (UserRateLimiter).  It is saved      *)
(* first: one more message since every open question.                          *)
Receive ==
  /\ run.pc = "idle" /\ said < MaxSaid /\ asked < MaxAsked /\ said' = said + 1
  /\ open' = {[p EXCEPT !.newer = @ + 1] : p \in open}
  /\ \E m \in Messages : run' = [Idle EXCEPT !.pc = "route", !.msg = m, !.saw = seen]
  /\ UNCHANGED <<labeled, asked, saved, seen, trouble>>

Finish(reply) == run' = [run EXCEPT !.pc = "save", !.reply = reply]
Same == UNCHANGED <<labeled, open, asked, saved, seen, said, trouble>>
IsOneOf(kinds) == run.pc = "route" /\ run.msg.kind \in kinds

(* "What still needs context?": Luca's own list. *)
ListWhatNeedsContext ==
  /\ IsOneOf({"context"}) /\ Finish(Reply("list", Nobody, Unlabeled(labeled), {})) /\ Same

(* An answer to a question: the open questions are read, then one is claimed.   *)
(* With none open the model reads the message.                                 *)
ReadQuestions ==
  /\ IsOneOf({"bare", "pick"})
  /\ run' = [run EXCEPT !.pc = IF open = {} THEN "model" ELSE "which", !.view = Ids(open)]
  /\ Same

(* A bare yes or no answers the only open question, if nothing else was said     *)
(* since it was asked; a numbered one the question at that place.              *)
(* A bug: the only open question counts, however long ago it was asked. *)
CurrentIfOpen(q) == TRUE
Current(q) == IsOpen(q) => Question(q).newer <= 1
Target ==
  IF run.msg.kind = "pick" THEN At(run.view, run.msg.n)
  ELSE {q \in run.view : run.view = {q} /\ Current(q)}
AskWhich ==
  /\ run.pc = "which" /\ Target = {}
  /\ Finish(Reply("which", Nobody, run.view, {})) /\ Same

(* answerChanges, answerProposal: the question is claimed in one statement, and   *)
(* its changes are made after, one by one.                                    *)
Claim(q, yes) ==
  IF IsOpen(q)
  THEN /\ open' = Closed(q)
       /\ run' = [run EXCEPT !.pc = IF yes /\ Question(q).kind = "rule" THEN "relabel" ELSE "apply",
                             !.todo = IF yes THEN Question(q).items ELSE {}, !.answers = q]
  ELSE Finish(Denial) /\ UNCHANGED open
AnswerQuestion ==
  /\ run.pc = "which" /\ \E q \in Target : Claim(q, run.msg.yes)
  /\ UNCHANGED <<labeled, asked, saved, seen, said, trouble>>

(* A label drops Luca's earlier question about the address.  If it teaches a rule   *)
(* the other transfers are asked about.                                        *)
Ask(kind, items, questions, shown) ==
  /\ asked' = asked + 1
  /\ open' = questions \cup
       {[id |-> asked + 1, kind |-> kind, items |-> items, newer |-> 0, shown |-> shown]}
AskRule(teaches, done, shown) ==
  LET others == Unlabeled(done)
      rest == WithoutKind("rule")
  IN IF teaches /\ others # {} THEN Ask("rule", others, rest, shown) ELSE open' = rest /\ UNCHANGED asked

(* The changes of an answer, one by one: each made, or skipped when it fails.     *)
First == {i \in run.todo : \A j \in run.todo : i <= j}
Apply ==
  /\ run.pc = "apply"
  /\ \E i \in First, teaches \in BOOLEAN :
       /\ labeled' = labeled \cup {i} /\ AskRule(teaches, labeled', FALSE)
       /\ run' = [run EXCEPT !.todo = @ \ {i}, !.made = @ \cup {i}]
  /\ UNCHANGED <<saved, seen, said, trouble>>
SkipChange ==
  /\ run.pc = "apply" /\ trouble < MaxTrouble /\ trouble' = trouble + 1
  /\ \E i \in First : run' = [run EXCEPT !.todo = @ \ {i}]
  /\ UNCHANGED <<labeled, open, asked, saved, seen, said>>
(* An answered rule relabels what still qualifies, all at once. *)
Relabel ==
  /\ run.pc = "relabel" /\ labeled' = labeled \cup run.todo
  /\ run' = [run EXCEPT !.pc = "apply", !.todo = {}, !.made = run.todo \ labeled]
  /\ UNCHANGED <<open, asked, saved, seen, said, trouble>>

-----------------------------------------------------------------------------
(* createChanges: a new set of changes replaces one left unanswered.            *)
AskChanges(items) == Ask("changes", items, WithoutKind("changes"), FALSE)
(* A reply ends in Luca's own question about the changes drafted; what the text says  *)
(* was done may be dropped with the rest of the talk of changes (restatesChange). *)
Conclude(reply) ==
  IF run.drafts = {} THEN Finish(reply) /\ UNCHANGED <<open, asked>>
  ELSE /\ AskChanges(run.drafts)
       /\ \E kept \in {{}, reply.done} : Finish(Reply("question", asked + 1, {}, kept))
(* What was done, and the rule's question if it is still open. *)
Asking == LET rules == {p \in open : p.kind = "rule" /\ ~p.shown}
          IN IF rules = {} THEN Nobody ELSE (CHOOSE p \in rules : TRUE).id
Applied ==
  /\ run.pc = "apply" /\ run.todo = {}
  /\ Conclude(IF run.made = {} THEN Denial ELSE Reply("done", Asking, {}, run.made))
  /\ UNCHANGED <<labeled, saved, seen, said, trouble>>

(* "1 was an expense": the transfer at that line of Luca's latest message, if     *)
(* that is a list; else the model reads it.                                     *)
(* A bug: the line is counted in what needs context now. *)
LatestNow == IF saved.list # {} THEN Unlabeled(labeled) ELSE {}
LatestList == saved.list
AnswerByLine ==
  /\ IsOneOf({"line"})
  /\ IF LatestList = {} THEN run' = [run EXCEPT !.pc = "model"] /\ UNCHANGED <<open, asked>>
     ELSE IF At(LatestList, run.msg.n) = {} THEN Finish(Plain) /\ UNCHANGED <<open, asked>>
     ELSE /\ AskChanges(At(LatestList, run.msg.n))
          /\ Finish(Reply("question", asked + 1, {}, {}))
  /\ UNCHANGED <<labeled, saved, seen, said, trouble>>

(* The model: each step drafts a change, answers a question, or writes a reply.   *)
ToTheModel == IsOneOf({"words"}) /\ run' = [run EXCEPT !.pc = "model"] /\ Same
Stepping == run.pc = "model" /\ run.steps < MaxSteps
Step == [run EXCEPT !.steps = @ + 1]
Draft ==
  /\ Stepping
  /\ \E i \in Transfers : run' = [Step EXCEPT !.drafts = @ \cup {i}]
  /\ Same
LookUp == Stepping /\ run' = Step /\ Same

(* answer_proposal: only in the operator's own words, and not a bare yes or no.  *)
(* A bug: a yes with a no in it is a yes. *)
ExplicitIfAffirms(yes) == run.msg.kind = "words" /\ IF yes THEN run.msg.affirms ELSE run.msg.denies
Explicit(yes) ==
  run.msg.kind = "words" /\ IF yes THEN run.msg.affirms /\ ~run.msg.denies ELSE run.msg.denies
AnswerForOperator ==
  /\ Stepping
  /\ \E q \in 1 .. asked, yes \in BOOLEAN :
       /\ Explicit(yes) /\ IsOpen(q) /\ Claim(q, yes)
  /\ UNCHANGED <<labeled, asked, saved, seen, said, trouble>>

(* A reply that leaks a tool call or claims a check is sent back once, and then    *)
(* replaced by a fixed one.                                                    *)
BadReply ==
  /\ Stepping
  /\ \E g \in Guards :
       IF g \in run.corrected THEN Conclude(Plain)
       ELSE run' = [Step EXCEPT !.corrected = @ \cup {g}] /\ UNCHANGED <<open, asked>>
  /\ UNCHANGED <<labeled, saved, seen, said, trouble>>
(* A reply with changes drafted becomes Luca's question about them; one that       *)
(* claims a change none was asked for becomes the open question again, or a denial. *)
(* A bug: a claim is sent as written. *)
ClaimSent == Finish(Reply("claim", Nobody, {}, {})) /\ UNCHANGED <<open, asked>>
ClaimOfChange ==
  /\ UNCHANGED asked
  /\ \/ \E p \in open :
          /\ open = {p} /\ open' = {[p EXCEPT !.newer = 0, !.shown = FALSE]}
          /\ Finish(Reply("question", p.id, {}, {}))
     \/ /\ \A p \in open : open # {p}
        /\ Finish(IF open = {} THEN Denial ELSE Reply("which", Nobody, Ids(open), {}))
        /\ UNCHANGED open
Answer ==
  /\ Stepping /\ (Conclude(Plain) \/ (run.drafts = {} /\ ClaimOfChange))
  /\ UNCHANGED <<labeled, saved, seen, said, trouble>>
(* Out of steps, the model writes a last reply, and nothing looks at it. *)
WrapUp ==
  /\ run.pc = "model" /\ run.steps = MaxSteps
  /\ \E kind \in {"plain", "wrapup"} : Conclude(Reply(kind, Nobody, {}, {}))
  /\ UNCHANGED <<labeled, saved, seen, said, trouble>>

-----------------------------------------------------------------------------
(* finish: the reply is saved in the conversation, then sent. *)
SaveReply ==
  /\ run.pc = "save" /\ run' = [run EXCEPT !.pc = "send"]
  /\ saved' = [list |-> IF run.reply.kind = "list" THEN run.reply.list ELSE {}, delivered |-> FALSE]
  /\ UNCHANGED <<labeled, open, asked, seen, said, trouble>>
Shows(q) == {[p EXCEPT !.shown = @ \/ p.id = q] : p \in open}
Reads(r) ==
  seen' = [q |-> IF r.q # Nobody THEN r.q ELSE IF r.kind = "which" THEN Nobody ELSE seen.q,
           which |-> IF r.kind = "which" THEN r.list ELSE seen.which,
           list |-> IF r.kind = "list" THEN r.list ELSE seen.list]
SendReply ==
  /\ run.pc = "send" /\ run' = Idle /\ saved' = [saved EXCEPT !.delivered = TRUE]
  /\ open' = Shows(run.reply.q) /\ Reads(run.reply)
  /\ UNCHANGED <<labeled, asked, said, trouble>>

(* A run fails or the bot dies: what it has claimed stays claimed, and the        *)
(* operator reads no reply.                                                    *)
(* A bug: a failed run keeps its place, and the next message is refused. *)
RunFailsHeld ==
  /\ run.pc \notin {"idle", "held"} /\ trouble < MaxTrouble /\ trouble' = trouble + 1
  /\ run' = [run EXCEPT !.pc = "held"]
  /\ UNCHANGED <<labeled, open, asked, saved, seen, said>>
RunFails ==
  /\ run.pc # "idle" /\ trouble < MaxTrouble /\ trouble' = trouble + 1 /\ run' = Idle
  /\ UNCHANGED <<labeled, open, asked, saved, seen, said>>

(* The /label command, sent when no reply is awaited.  Its question is saved and   *)
(* shown, with no message of the operator's.                                    *)
Command ==
  /\ run.pc = "idle" /\ asked < MaxAsked
  /\ \E i \in Transfers \ labeled, teaches \in BOOLEAN :
       /\ labeled' = labeled \cup {i} /\ AskRule(teaches, labeled', TRUE)
       /\ saved' = IF teaches THEN [list |-> {}, delivered |-> TRUE] ELSE saved
  /\ seen' = [seen EXCEPT !.q = IF asked' > asked THEN asked' ELSE IF @ \in Ids(open') THEN @ ELSE Nobody]
  /\ UNCHANGED <<said, run, trouble>>
(* Changes wait a day, a rule's question a week: never after a newer one of its    *)
(* kind, and no rule's question before an earlier set of changes.               *)
Expire ==
  /\ \E p \in open :
       /\ \A earlier \in open : earlier.id < p.id => earlier.kind = "rule" /\ p.kind = "changes"
       /\ open' = Closed(p.id)
  /\ UNCHANGED <<labeled, asked, saved, seen, said, run, trouble>>

Init ==
  /\ labeled = {} /\ open = {} /\ asked = 0 /\ saved = [list |-> {}, delivered |-> TRUE]
  /\ seen = [q |-> Nobody, which |-> {}, list |-> {}] /\ said = 0 /\ run = Idle /\ trouble = 0

RunStep ==
  \/ ListWhatNeedsContext \/ ReadQuestions \/ AskWhich \/ AnswerQuestion \/ Apply \/ Relabel \/ Applied
  \/ AnswerByLine \/ ToTheModel \/ Draft \/ LookUp \/ AnswerForOperator \/ BadReply \/ Answer \/ WrapUp
  \/ SaveReply \/ SendReply
Next == Receive \/ RunStep \/ SkipChange \/ RunFails \/ Command \/ Expire
Spec == Init /\ [][Next]_vars
(* A run goes on while its process does. *)
LiveSpec == Spec /\ WF_vars(RunStep)

-----------------------------------------------------------------------------
OpenOK ==
  /\ open \subseteq [id: 1 .. asked, kind: {"rule", "changes"}, items: (SUBSET Transfers) \ {{}},
                   newer: Nat, shown: BOOLEAN]
  /\ \A p, other \in open : p.kind = other.kind \/ p.id = other.id => p = other
RunOK ==
  /\ DOMAIN run = DOMAIN Idle /\ (run.reply.kind = "list" => run.reply.list \subseteq Transfers)
  /\ run.msg \in Messages /\ run.steps \in 0 .. MaxSteps /\ run.corrected \subseteq Guards
  /\ {run.todo, run.drafts} \subseteq SUBSET Transfers /\ run.made \subseteq labeled
TypeOK ==
  /\ labeled \subseteq Transfers /\ asked \in Nat /\ OpenOK /\ RunOK
  /\ saved \in [list: SUBSET Transfers, delivered: BOOLEAN] /\ DOMAIN seen = DOMAIN Idle.saw

Decided(q) == run'.answers = q /\ run.answers # q

(* A plain yes or no answers the question the operator last read, whatever was    *)
(* asked, withdrawn, asked again or expired in between (proposals-chat.ts:8-9).     *)
(* A question whose message was lost is not covered.                           *)
BareAnswerIsMeant ==
  [][\A q \in 1 .. asked : run.msg.kind = "bare" /\ Decided(q) /\ Question(q).shown
       => run.saw.q \in {q, Nobody}]_vars

(* "yes to 2" answers the second question of the list Luca showed                 *)
(* (proposals-chat.ts:10). *)
NumberedAnswerIsMeant ==
  [][\A q \in 1 .. asked : run.msg.kind = "pick" /\ Decided(q) /\ At(run.saw.which, run.msg.n) # {}
       => q \in At(run.saw.which, run.msg.n)]_vars

(* A number means the line of the list the operator read, though transfers were    *)
(* labeled since (numbered.ts:4-8), unless Luca's latest message was not delivered. *)
NumberIsTheLine ==
  [][AnswerByLine /\ asked' > asked /\ saved.delivered
       => \E p \in open' : /\ p.id = asked' /\ p.items = At(run.saw.list, run.msg.n)
                           /\ p.items # {}]_vars

(* A run labels nothing unless the operator said yes in so many words, to a       *)
(* question of Luca's about that transfer (changes.ts:14-18). *)
SaidYes ==
  IF run.msg.kind \in {"bare", "pick"} THEN run.msg.yes
  ELSE run.msg.kind = "words" /\ run.msg.affirms /\ ~run.msg.denies
OnlyOnYes ==
  [][run'.made # run.made => SaidYes /\ run.answers # Nobody /\ run'.made \ run.made \subseteq run.todo]_vars

(* What Luca says it did the run did, and it denies nothing it did (checks.ts:212- *)
(* 216).  A reply that goes on to ask about other changes may leave out what was    *)
(* done; the reply written out of steps is not looked at.                         *)
ReplyIsTrue ==
  run.pc \in {"save", "send"} =>
    /\ run.reply.kind # "claim"
    /\ run.reply.done \subseteq run.made /\ (run.reply.done # run.made => run.reply.kind = "question")
    /\ run.reply.q # Nobody => run.reply.kind \in {"question", "done"}

(* Every run comes to an end: a correction is asked for once and steps are counted. *)
RunEnds == run.pc # "idle" ~> run.pc = "idle"
=============================================================================
