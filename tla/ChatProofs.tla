------------------------------ MODULE ChatProofs ------------------------------
(***************************************************************************)
(* Proofs about Chat: whatever the operator and the model write, and whatever  *)
(* fails, expires or is asked in between, nothing is done without a yes, a yes  *)
(* answers what was read, and a reply tells what the run did.                  *)
(***************************************************************************)
EXTENDS Chat, TLAPS

-----------------------------------------------------------------------------
(* The inductive invariant, but for TypeOK and ReplyIsTrue. *)

(* Nothing is done, and nothing is left to do, before an answer, and then only      *)
(* after a yes of the operator to a question of Luca's.                         *)
YesInv ==
  /\ run.pc \in {"idle", "route", "which", "model"} => run.todo = {} /\ run.made = {}
  /\ run.pc = "relabel" => run.made = {}
  /\ run.pc = "which" => run.msg.kind \in {"bare", "pick"}
  /\ run.todo # {} \/ run.made # {} => SaidYes /\ run.answers # Nobody

(* What the operator read last when p could be answered by a plain yes: p, nothing, *)
(* or a rule's question asked since, which is open for as long as p is.           *)
LastRead(p, read) ==
  \/ read \in {p.id, Nobody}
  \/ p.kind = "changes" /\ \E r \in open : r.id = read /\ r.kind = "rule" /\ p.id < r.id
BareInv ==
  /\ run.pc = "idle" => \A p \in open : p.newer = 0 /\ p.shown => LastRead(p, seen.q)
  /\ run.pc = "route" => \A p \in open : p.newer <= 1 /\ p.shown => LastRead(p, run.saw.q)
  /\ run.pc # "idle" => \A p \in open : p.newer = 0 => ~p.shown
  /\ run.pc = "which" => \A p \in open :
       run.view = {p.id} /\ p.newer <= 1 /\ p.shown => run.saw.q \in {p.id, Nobody}

(* Luca's latest list, once delivered, is the one the operator read last. *)
ListInv ==
  /\ run.pc # "idle" => run.saw = seen
  /\ saved.delivered => saved.list \in {{}, seen.list}
  /\ run.pc = "send" => saved.list = IF run.reply.kind = "list" THEN run.reply.list ELSE {}

-----------------------------------------------------------------------------
(* A run's fields. *)
RunFields == {"pc", "msg", "view", "todo", "drafts", "made", "steps", "corrected", "answers", "reply",
              "saw"}
(* The run at rest. *)
LEMMA IdleFields ==
  /\ DOMAIN Idle = RunFields
  /\ Idle.pc = "idle" /\ Idle.todo = {} /\ Idle.made = {} /\ Idle.answers = Nobody
BY DEF Idle, RunFields

(* A run that finishes keeps what it did and read. *)
Kept == /\ DOMAIN run' = DOMAIN run /\ run'.msg = run.msg /\ run'.saw = run.saw /\ run'.made = run.made
        /\ run'.drafts = run.drafts /\ run'.steps = run.steps /\ run'.corrected = run.corrected
Finished(reply) ==
  Kept /\ run'.pc = "save" /\ run'.reply = reply /\ run'.todo = run.todo /\ run'.answers = run.answers

(* Finishing gives the run its reply. *)
LEMMA FinishEnds == ASSUME TypeOK, NEW reply, Finish(reply) PROVE Finished(reply)
<1>f. DOMAIN run = RunFields
  BY IdleFields DEF TypeOK, RunOK
<1> USE DEF RunFields
<1> QED BY <1>f DEF Finish, Finished, Kept

(* A reply is sent as it is, or asks about the changes drafted. *)
LEMMA ConcludeEnds ==
  ASSUME TypeOK, NEW reply, Conclude(reply)
  PROVE  \/ Finished(reply) /\ UNCHANGED <<open, asked>>
         \/ /\ AskChanges(run.drafts) /\ run.drafts # {}
            /\ \E kept \in {{}, reply.done} :
                 Finished([kind |-> "question", q |-> asked + 1, list |-> {}, done |-> kept])
<1>1. CASE run.drafts = {}
  BY <1>1, FinishEnds DEF Conclude
<1>2. CASE run.drafts # {}
  <2>1. PICK kept \in {{}, reply.done} : Finish(Reply("question", asked + 1, {}, kept))
    BY <1>2 DEF Conclude
  <2>2. AskChanges(run.drafts)
    BY <1>2 DEF Conclude
  <2> QED BY <1>2, <2>1, <2>2, FinishEnds DEF Reply
<1> QED BY <1>1, <1>2

(* The two ends of claiming a question: it was open and is answered, or it was not. *)
LEMMA ClaimEnds ==
  ASSUME TypeOK, NEW q, NEW yes \in BOOLEAN, Claim(q, yes)
  PROVE  /\ DOMAIN run' = DOMAIN run /\ run'.msg = run.msg /\ run'.saw = run.saw /\ run'.made = run.made
         /\ run'.drafts = run.drafts /\ run'.steps = run.steps /\ run'.corrected = run.corrected
         /\ \/ /\ IsOpen(q) /\ q \in 1 .. asked /\ open' = Closed(q)
               /\ run'.pc \in {"relabel", "apply"} /\ run'.answers = q /\ run'.reply = run.reply
               /\ run'.todo \subseteq Transfers /\ (yes \/ run'.todo = {}) /\ (run'.pc = "relabel" => yes)
            \/ /\ open' = open /\ run'.pc = "save" /\ run'.reply = Denial
               /\ run'.todo = run.todo /\ run'.answers = run.answers
<1>f. DOMAIN run = RunFields
  BY IdleFields DEF TypeOK, RunOK
<1> USE DEF RunFields
<1>1. CASE IsOpen(q)
  <2>1. PICK p \in open : p.id = q
    BY <1>1 DEF IsOpen, Ids
  <2>2. Question(q) \in open
    BY <2>1 DEF Question
  <2>3. q \in 1 .. asked /\ Question(q).items \subseteq Transfers
    BY <2>1, <2>2 DEF TypeOK, OpenOK
  <2>4. open' = Closed(q)
    BY <1>1 DEF Claim
  <2>5. PICK pc2 \in {"relabel", "apply"} :
          /\ run' = [run EXCEPT !.pc = pc2, !.todo = IF yes THEN Question(q).items ELSE {}, !.answers = q]
          /\ pc2 = "relabel" => yes
    BY <1>1 DEF Claim
  <2> QED BY <1>1, <1>f, <2>3, <2>4, <2>5
<1>2. CASE ~IsOpen(q)
  BY <1>2, <1>f DEF Claim, Finish
<1> QED BY <1>1, <1>2

(* Nothing is done before a yes. *)
LEMMA YesStep == ASSUME TypeOK, YesInv, [Next]_vars PROVE YesInv'
<1>f. DOMAIN run = RunFields
  BY IdleFields DEF TypeOK, RunOK
<1> USE DEF RunFields
<1> USE DEF YesInv, SaidYes
<1>1. CASE Receive
  BY <1>1, <1>f, IdleFields DEF Receive
<1>2. CASE ListWhatNeedsContext \/ ReadQuestions \/ AskWhich \/ ToTheModel \/ Draft \/ LookUp
  BY <1>2, <1>f DEF ListWhatNeedsContext, ReadQuestions, AskWhich, ToTheModel, Draft, LookUp, Finish,
                      IsOneOf, Stepping, Step
<1>3. CASE AnswerQuestion
  <2>1. run.msg.yes \in BOOLEAN /\ run.msg.kind \in {"bare", "pick"}
    BY <1>3 DEF AnswerQuestion, TypeOK, RunOK, Messages, Bare, Pick, Line, Words
  <2>2. PICK q \in Target : Claim(q, run.msg.yes)
    BY <1>3 DEF AnswerQuestion
  <2> QED BY <1>3, <2>1, <2>2, ClaimEnds DEF AnswerQuestion, Nobody
<1>4. CASE AnswerForOperator
  <2>1. PICK q \in 1 .. asked, yes \in BOOLEAN : Explicit(yes) /\ Claim(q, yes)
    BY <1>4 DEF AnswerForOperator
  <2>2. yes => SaidYes
    BY <2>1 DEF Explicit
  <2>3. run.pc = "model"
    BY <1>4 DEF AnswerForOperator, Stepping
  <2> QED BY <2>1, <2>2, <2>3, ClaimEnds DEF Nobody
<1>5. CASE Apply
  BY <1>5, <1>f DEF Apply, First
<1>6. CASE SkipChange
  BY <1>6, <1>f DEF SkipChange, First
<1>7. CASE Relabel
  BY <1>7, <1>f DEF Relabel
<1>8. CASE Applied
  BY <1>8, <1>f DEF Applied, Conclude, Finish
<1>9. CASE AnswerByLine
  BY <1>9, <1>f DEF AnswerByLine, IsOneOf, Finish
<1>10. CASE BadReply
  BY <1>10, <1>f DEF BadReply, Conclude, Finish, Step, Stepping
<1>11. CASE Answer \/ WrapUp
  BY <1>11, <1>f, ZenonT(30) DEF Answer, WrapUp, Conclude, ClaimOfChange, Finish
<1>12. CASE SaveReply
  BY <1>12, <1>f DEF SaveReply
<1>13. CASE SendReply \/ RunFails
  BY <1>13, IdleFields DEF SendReply, RunFails
<1>14. CASE Command \/ Expire \/ UNCHANGED vars
  BY <1>14 DEF Command, Expire, vars
<1> QED BY <1>1, <1>2, <1>3, <1>4, <1>5, <1>6, <1>7, <1>8, <1>9, <1>10, <1>11, <1>12, <1>13,
           <1>14 DEF Next, RunStep

(* What a reply says is what the run did, from the moment it is written. *)
LEMMA ReplyStep == ASSUME TypeOK, YesInv, ReplyIsTrue, [Next]_vars PROVE ReplyIsTrue'
<1>f. DOMAIN run = RunFields
  BY IdleFields DEF TypeOK, RunOK
<1> USE DEF RunFields
<1> USE DEF ReplyIsTrue
<1>d. Denial.kind = "denial" /\ Denial.done = {} /\ Denial.q = Nobody
      /\ Plain.kind = "plain" /\ Plain.done = {} /\ Plain.q = Nobody
  BY DEF Denial, Plain, Reply
<1>1. CASE Receive \/ SendReply \/ RunFails
  BY <1>1, <1>f, IdleFields DEF Receive, SendReply, RunFails
<1>2. CASE ListWhatNeedsContext
  BY <1>2, <1>f DEF ListWhatNeedsContext, Finish, IsOneOf, Reply, YesInv
<1>3. CASE AskWhich
  BY <1>3, <1>f DEF AskWhich, Finish, Reply, YesInv
<1>4. CASE ReadQuestions \/ ToTheModel \/ Draft \/ LookUp
  BY <1>4, <1>f DEF ReadQuestions, ToTheModel, Draft, LookUp, IsOneOf, Stepping, Step
<1>5. CASE AnswerQuestion
  <2>1. run.msg.yes \in BOOLEAN /\ run.pc = "which"
    BY <1>5 DEF AnswerQuestion, TypeOK, RunOK, Messages, Bare, Pick, Line, Words, YesInv
  <2>2. PICK q \in Target : Claim(q, run.msg.yes)
    BY <1>5 DEF AnswerQuestion
  <2> QED BY <1>d, <2>1, <2>2, ClaimEnds DEF YesInv
<1>6. CASE AnswerForOperator
  <2>1. PICK q \in 1 .. asked, yes \in BOOLEAN : Claim(q, yes)
    BY <1>6 DEF AnswerForOperator
  <2>2. run.pc = "model"
    BY <1>6 DEF AnswerForOperator, Stepping
  <2> QED BY <1>d, <2>1, <2>2, ClaimEnds DEF YesInv
<1>7. CASE Apply \/ SkipChange \/ Relabel
  BY <1>7, <1>f DEF Apply, SkipChange, Relabel
<1>8. ASSUME NEW reply, Conclude(reply), reply.kind # "claim", reply.done \subseteq run.made,
             reply.done # run.made => reply.kind = "question",
             reply.q # Nobody => reply.kind \in {"question", "done"}
      PROVE  ReplyIsTrue'
  <2>1. CASE Finished(reply)
    BY <1>8, <2>1 DEF Finished, Kept
  <2>2. ASSUME NEW kept \in {{}, reply.done},
               Finished([kind |-> "question", q |-> asked + 1, list |-> {}, done |-> kept])
        PROVE  ReplyIsTrue'
    BY <1>8, <2>2 DEF Finished, Kept
  <2> QED BY <1>8, <2>1, <2>2, ConcludeEnds
<1>9. CASE Applied
  <2>1. CASE run.made = {}
    <3>1. Conclude(Denial)
      BY <1>9, <2>1 DEF Applied
    <3> QED BY <1>8, <1>d, <2>1, <3>1
  <2>2. CASE run.made # {}
    <3>1. Conclude(Reply("done", Asking, {}, run.made))
      BY <1>9, <2>2 DEF Applied
    <3> QED BY <1>8, <3>1 DEF Reply
  <2> QED BY <2>1, <2>2
<1>10. CASE AnswerByLine \/ Answer \/ BadReply \/ WrapUp
  <2>1. run.made = {}
    BY <1>10 DEF AnswerByLine, IsOneOf, Answer, BadReply, WrapUp, Stepping, YesInv
  <2>2. CASE AnswerByLine
    <3>1. \/ run'.pc = "model"
          \/ Finish(Plain) \/ Finish(Reply("question", asked + 1, {}, {}))
      BY <1>f, <2>2 DEF AnswerByLine
    <3> QED BY <1>d, <2>1, <3>1, FinishEnds DEF Finished, Kept, Reply
  <2>3. CASE BadReply
    <3>1. Conclude(Plain) \/ run'.pc = "model"
      BY <1>f, <2>3 DEF BadReply, Step, Stepping
    <3> QED BY <1>8, <1>d, <2>1, <3>1
  <2>4. CASE Answer
    <3>1. ASSUME ClaimOfChange PROVE ReplyIsTrue'
      <4>1. \/ \E p \in open : Finish(Reply("question", p.id, {}, {}))
            \/ Finish(Denial) \/ Finish(Reply("which", Nobody, Ids(open), {}))
        BY <3>1 DEF ClaimOfChange
      <4>2. ASSUME NEW reply, Finish(reply), reply.kind # "claim", reply.done = {},
                   reply.q # Nobody => reply.kind = "question"
            PROVE  ReplyIsTrue'
        BY <2>1, <4>2, FinishEnds DEF Finished, Kept
      <4> QED BY <1>d, <4>1, <4>2 DEF Reply
    <3> QED BY <1>8, <1>d, <2>1, <2>4, <3>1 DEF Answer
  <2>5. CASE WrapUp
    <3>1. PICK kind \in {"plain", "wrapup"} : Conclude(Reply(kind, Nobody, {}, {}))
      BY <2>5 DEF WrapUp
    <3> QED BY <1>8, <2>1, <3>1 DEF Reply
  <2> QED BY <1>10, <2>2, <2>3, <2>4, <2>5
<1>11. CASE SaveReply
  BY <1>11, <1>f DEF SaveReply
<1>12. CASE Command \/ Expire \/ UNCHANGED vars
  BY <1>12 DEF Command, Expire, vars
<1> QED BY <1>1, <1>2, <1>3, <1>4, <1>5, <1>6, <1>7, <1>8, <1>9, <1>10, <1>11, <1>12 DEF Next, RunStep

(* Within a run, from its message routed to its reply written, nothing that could be *)
(* shown is: what is asked is shown when the reply is sent.                     *)
Quiet == \A p \in open' : p \in open \/ ~p.shown
(* What is asked while a run goes on is not shown yet. *)
LEMMA AskQuiet ==
  ASSUME NEW kind, NEW items, NEW questions \in SUBSET open, Ask(kind, items, questions, FALSE)
  PROVE  Quiet
BY DEF Ask, Quiet

(* Nor is a rule's question. *)
LEMMA AskRuleQuiet == ASSUME NEW teaches, NEW done, AskRule(teaches, done, FALSE) PROVE Quiet
<1>1. WithoutKind("rule") \subseteq open
  BY DEF WithoutKind
<1> QED BY <1>1, AskQuiet DEF AskRule, Quiet

(* Nor one about changes. *)
LEMMA AskChangesQuiet == ASSUME NEW items, AskChanges(items) PROVE Quiet
<1>1. WithoutKind("changes") \subseteq open
  BY DEF WithoutKind
<1> QED BY <1>1, AskQuiet DEF AskChanges

(* The steps within a run. *)
LEMMA Within ==
  ASSUME TypeOK, RunStep \/ SkipChange, ~ReadQuestions, ~SaveReply, ~SendReply
  PROVE  /\ run.pc # "idle" /\ run'.pc \notin {"idle", "route", "which", "send"}
         /\ run'.saw = run.saw /\ UNCHANGED <<saved, seen>> /\ Quiet
<1>f. DOMAIN run = RunFields
  BY IdleFields DEF TypeOK, RunOK
<1> USE DEF RunFields
<1> DEFINE Goal == /\ run.pc # "idle" /\ run'.pc \notin {"idle", "route", "which", "send"}
                   /\ run'.saw = run.saw /\ UNCHANGED <<saved, seen>> /\ Quiet
<1>1. CASE ListWhatNeedsContext \/ AskWhich \/ ToTheModel \/ Draft \/ LookUp
  <2>1. open' = open /\ UNCHANGED <<saved, seen>>
    BY <1>1 DEF ListWhatNeedsContext, AskWhich, ToTheModel, Draft, LookUp, Same
  <2>2. run.pc # "idle" /\ run'.pc \in {"save", "model"} /\ run'.saw = run.saw
    BY <1>1, <1>f DEF ListWhatNeedsContext, AskWhich, ToTheModel, Draft, LookUp, IsOneOf, Stepping, Step, Finish
  <2> QED BY <2>1, <2>2 DEF Quiet
<1>2. CASE AnswerQuestion \/ AnswerForOperator
  <2>1. PICK q, yes : Claim(q, yes)
    BY <1>2 DEF AnswerQuestion, AnswerForOperator
  <2>2. run.pc # "idle" /\ UNCHANGED <<saved, seen>>
    BY <1>2 DEF AnswerQuestion, AnswerForOperator, Stepping
  <2>3. run'.saw = run.saw /\ run'.pc \in {"relabel", "apply", "save"}
    BY <1>f, <2>1 DEF Claim, Finish
  <2>4. open' \subseteq open
    BY <2>1 DEF Claim, Closed
  <2> QED BY <2>2, <2>3, <2>4 DEF Quiet
<1>3. CASE Apply
  <2>1. PICK teaches \in BOOLEAN : AskRule(teaches, labeled', FALSE)
    BY <1>3 DEF Apply
  <2>2. run.pc = "apply" /\ run'.pc = "apply" /\ run'.saw = run.saw /\ UNCHANGED <<saved, seen>>
    BY <1>3, <1>f DEF Apply
  <2> QED BY <2>1, <2>2, AskRuleQuiet
<1>4. CASE SkipChange \/ Relabel
  BY <1>4, <1>f DEF SkipChange, Relabel, Quiet
<1>5. ASSUME NEW reply, Conclude(reply) PROVE run'.saw = run.saw /\ run'.pc = "save" /\ Quiet
  <2>1. Quiet
    BY <1>5, ConcludeEnds, AskChangesQuiet DEF Quiet
  <2> QED BY <1>5, <2>1, ConcludeEnds DEF Finished, Kept
<1>6. CASE Applied \/ WrapUp
  <2>1. PICK reply : Conclude(reply)
    BY <1>6 DEF Applied, WrapUp
  <2>2. run.pc # "idle" /\ UNCHANGED <<saved, seen>>
    BY <1>6 DEF Applied, WrapUp
  <2> QED BY <1>5, <2>1, <2>2
<1>7. CASE BadReply
  <2>1. run.pc = "model" /\ UNCHANGED <<saved, seen>>
    BY <1>7 DEF BadReply, Stepping
  <2>2. \/ Conclude(Plain)
        \/ run'.pc = "model" /\ run'.saw = run.saw /\ open' = open
    BY <1>f, <1>7, <2>1 DEF BadReply, Step
  <2> QED BY <1>5, <2>1, <2>2 DEF Quiet
<1>8. CASE Answer
  <2>1. run.pc = "model" /\ UNCHANGED <<saved, seen>>
    BY <1>8 DEF Answer, Stepping
  <2>2. CASE Conclude(Plain)
    BY <1>5, <2>1, <2>2
  <2>3. CASE ClaimOfChange
    <3>1. PICK reply : Finish(reply)
      BY <2>3 DEF ClaimOfChange
    <3>2. Quiet
      <4>1. CASE open' = open
        BY <4>1 DEF Quiet
      <4>2. ASSUME NEW p \in open, open' = {[p EXCEPT !.newer = 0, !.shown = FALSE]} PROVE Quiet
        <5>1. DOMAIN p = {"id", "kind", "items", "newer", "shown"}
          BY DEF TypeOK, OpenOK
        <5> QED BY <4>2, <5>1 DEF Quiet
      <4> QED BY <2>3, <4>1, <4>2 DEF ClaimOfChange
    <3> QED BY <2>1, <3>1, <3>2, FinishEnds DEF Finished, Kept
  <2> QED BY <1>8, <2>2, <2>3 DEF Answer
<1>9. CASE AnswerByLine
  <2>1. run.pc = "route" /\ UNCHANGED <<saved, seen>>
    BY <1>9 DEF AnswerByLine, IsOneOf
  <2>2. run'.saw = run.saw /\ run'.pc \in {"model", "save"}
    BY <1>9, <1>f DEF AnswerByLine, Finish
  <2>3. Quiet
    <3>1. open' = open \/ AskChanges(At(LatestList, run.msg.n))
      BY <1>9 DEF AnswerByLine
    <3> QED BY <3>1, AskChangesQuiet DEF Quiet
  <2> QED BY <2>1, <2>2, <2>3
<1> QED
  <2>1. Goal
    BY <1>1, <1>2, <1>3, <1>4, <1>6, <1>7, <1>8, <1>9 DEF RunStep
  <2> QED BY <2>1

(* A list that was delivered is read. *)
LEMMA ListStep == ASSUME TypeOK, ListInv, [Next]_vars PROVE ListInv'
<1>f. /\ DOMAIN run = RunFields
      /\ DOMAIN seen = {"q", "which", "list"} /\ saved \in [list: SUBSET Transfers, delivered: BOOLEAN]
  BY IdleFields DEF TypeOK, RunOK, Idle
<1> USE DEF RunFields
<1> USE DEF ListInv
<1>1. CASE Receive
  BY <1>1, <1>f, IdleFields DEF Receive
<1>2. CASE SaveReply
  BY <1>2, <1>f DEF SaveReply
<1>3. CASE SendReply
  BY <1>3, <1>f, IdleFields DEF SendReply, Reads
<1>4. CASE RunFails
  BY <1>4, <1>f, IdleFields DEF RunFails
<1>5. CASE Command
  BY <1>5, <1>f DEF Command
<1>6. CASE Expire \/ UNCHANGED vars
  BY <1>6 DEF Expire, vars
<1>7. CASE ReadQuestions
  BY <1>7, <1>f DEF ReadQuestions, IsOneOf, Same
<1>8. CASE (RunStep \/ SkipChange) /\ ~ReadQuestions /\ ~SaveReply /\ ~SendReply
  BY <1>8, Within
<1> QED BY <1>1, <1>2, <1>3, <1>4, <1>5, <1>6, <1>7, <1>8 DEF Next, RunStep

(* Who answers by a plain yes answers what was read. *)
LEMMA BareStep == ASSUME TypeOK, BareInv, [Next]_vars PROVE BareInv'
<1>f. DOMAIN run = RunFields
  BY IdleFields DEF TypeOK, RunOK
<1> USE DEF RunFields
<1>o. /\ \A p \in open : /\ p.id \in 1 .. asked /\ p.newer \in Nat /\ p.shown \in BOOLEAN
                         /\ DOMAIN p = {"id", "kind", "items", "newer", "shown"}
                         /\ p.kind \in {"rule", "changes"}
      /\ \A p, r \in open : p.kind = r.kind \/ p.id = r.id => p = r
      /\ asked \in Nat
  BY DEF TypeOK, OpenOK
<1>1. CASE Receive
  <2>1. /\ run.pc = "idle" /\ run'.pc = "route" /\ run'.saw = seen
        /\ open' = {[p EXCEPT !.newer = @ + 1] : p \in open}
    BY <1>1, IdleFields DEF Receive
  <2>2. \A p \in open : LET o == [p EXCEPT !.newer = @ + 1]
                       IN o.id = p.id /\ o.kind = p.kind /\ o.shown = p.shown /\ o.newer = p.newer + 1
    BY <1>o
  <2>3. ASSUME NEW o \in open', o.newer <= 1, o.shown PROVE LastRead(o, run.saw.q)'
    <3>1. PICK p \in open : o = [p EXCEPT !.newer = @ + 1]
      BY <2>1
    <3>2. p.newer = 0 /\ p.shown
      BY <1>o, <2>2, <2>3, <3>1
    <3>3. LastRead(p, seen.q)
      BY <2>1, <3>2 DEF BareInv
    <3>4. CASE seen.q \in {p.id, Nobody}
      BY <2>1, <2>2, <3>1, <3>4 DEF LastRead
    <3>5. ASSUME p.kind = "changes", NEW r \in open, r.id = seen.q, r.kind = "rule", p.id < r.id
          PROVE  LastRead(o, run.saw.q)'
      <4>1. PICK r2 \in open' : r2.id = r.id /\ r2.kind = r.kind
        BY <2>1, <2>2
      <4> QED BY <2>1, <2>2, <3>1, <3>5, <4>1 DEF LastRead
    <3> QED BY <3>3, <3>4, <3>5 DEF LastRead
  <2>4. \A o \in open' : o.newer # 0
    BY <1>o, <2>1, <2>2
  <2> QED BY <2>1, <2>3, <2>4 DEF BareInv
<1>2. CASE ReadQuestions
  <2>1. /\ run.pc = "route" /\ run'.pc \in {"model", "which"} /\ run'.saw = run.saw
        /\ run'.view = {p.id : p \in open} /\ open' = open
    BY <1>2, <1>f DEF ReadQuestions, IsOneOf, Same, Ids
  <2>2. ASSUME NEW p \in open, run'.view = {p.id}, p.newer <= 1, p.shown
        PROVE  run.saw.q \in {p.id, Nobody}
    <3>1. LastRead(p, run.saw.q)
      BY <2>1, <2>2 DEF BareInv
    <3>2. \A r \in open : r.id = p.id
      BY <2>1, <2>2
    <3> QED BY <1>o, <3>1, <3>2 DEF LastRead
  <2> QED BY <2>1, <2>2 DEF BareInv
<1>3. CASE (RunStep \/ SkipChange) /\ ~ReadQuestions /\ ~SaveReply /\ ~SendReply
  BY <1>3, Within DEF BareInv, Quiet
<1>4. CASE SaveReply
  BY <1>4, <1>f DEF SaveReply, BareInv
<1>5. CASE SendReply
  <2>1. /\ run.pc = "send" /\ run'.pc = "idle"
        /\ open' = {[p EXCEPT !.shown = @ \/ p.id = run.reply.q] : p \in open}
    BY <1>5, IdleFields DEF SendReply, Shows
  <2>2. run.reply.q # Nobody => seen'.q = run.reply.q
    BY <1>5 DEF SendReply, Reads
  <2>3. ASSUME NEW o \in open', o.newer = 0, o.shown PROVE LastRead(o, seen.q)'
    <3>1. PICK p \in open : o = [p EXCEPT !.shown = @ \/ p.id = run.reply.q]
      BY <2>1
    <3>2. o.newer = p.newer /\ o.id = p.id /\ (o.shown => p.shown \/ p.id = run.reply.q)
      BY <1>o, <3>1
    <3>3. ~p.shown
      BY <2>1, <2>3, <3>2 DEF BareInv
    <3>4. o.id = run.reply.q
      BY <2>3, <3>2, <3>3
    <3>5. run.reply.q # Nobody
      BY <1>o, <3>1, <3>2, <3>4 DEF Nobody
    <3> QED BY <2>2, <3>4, <3>5 DEF LastRead
  <2> QED BY <2>1, <2>3 DEF BareInv
<1>6. CASE RunFails
  BY <1>6, IdleFields DEF RunFails, BareInv
<1>7. CASE Command
  <2>1. run.pc = "idle" /\ run' = run
    BY <1>7 DEF Command
  <2>2. PICK teaches \in BOOLEAN : AskRule(teaches, labeled', TRUE)
    BY <1>7 DEF Command
  <2>3. seen'.q = IF asked' > asked THEN asked' ELSE IF seen.q \in Ids(open') THEN seen.q ELSE Nobody
    BY <1>7, IdleFields DEF Command, TypeOK, Idle
  <2>4. WithoutKind("rule") = {p \in open : p.kind = "changes"}
    BY <1>o DEF WithoutKind
  <2>5. CASE asked' = asked + 1 /\ Ask("rule", Unlabeled(labeled'), WithoutKind("rule"), TRUE)
    <3> DEFINE new == [id |-> asked + 1, kind |-> "rule", items |-> Unlabeled(labeled'),
                       newer |-> 0, shown |-> TRUE]
    <3>1. open' = WithoutKind("rule") \cup {new} /\ new.id = asked + 1 /\ new.kind = "rule"
      BY <2>5 DEF Ask
    <3> HIDE DEF new
    <3>2. seen'.q = new.id
      BY <1>o, <2>3, <2>5, <3>1
    <3>3. ASSUME NEW p \in open' PROVE LastRead(p, seen.q)'
      <4>1. CASE p = new
        BY <3>2, <4>1 DEF LastRead
      <4>2. CASE p \in open /\ p.kind = "changes"
        BY <1>o, <3>1, <3>2, <4>2 DEF LastRead
      <4> QED BY <2>4, <3>1, <4>1, <4>2
    <3> QED BY <2>1, <3>3 DEF BareInv
  <2>6. CASE open' = WithoutKind("rule") /\ asked' = asked
    <3>1. ASSUME NEW p \in open', p.newer = 0, p.shown PROVE LastRead(p, seen.q)'
      <4>1. p \in open /\ LastRead(p, seen.q)
        BY <2>1, <2>4, <2>6, <3>1 DEF BareInv
      <4>2. CASE seen.q = p.id
        <5>1. seen.q \in Ids(open')
          BY <3>1, <4>2 DEF Ids
        <5> QED BY <1>o, <2>3, <2>6, <4>2, <5>1 DEF LastRead
      <4>3. CASE seen.q = Nobody
        BY <1>o, <2>3, <2>6, <4>3 DEF LastRead
      <4>4. ASSUME NEW r \in open, r.id = seen.q, r.kind = "rule" PROVE LastRead(p, seen.q)'
        <5>1. seen.q \notin Ids(open')
          BY <1>o, <2>4, <2>6, <4>4 DEF Ids
        <5> QED BY <1>o, <2>3, <2>6, <5>1 DEF LastRead
      <4> QED BY <4>1, <4>2, <4>3, <4>4 DEF LastRead
    <3> QED BY <2>1, <3>1 DEF BareInv
  <2> QED BY <2>2, <2>5, <2>6 DEF AskRule, Ask
<1>8. CASE Expire
  <2>1. PICK gone \in open : /\ \A earlier \in open :
                                 earlier.id < gone.id => earlier.kind = "rule" /\ gone.kind = "changes"
                            /\ open' = {p \in open : p.id # gone.id}
    BY <1>8 DEF Expire, Closed
  <2>2. UNCHANGED <<run, seen>>
    BY <1>8 DEF Expire
  <2>3. ASSUME NEW p \in open', NEW read, LastRead(p, read) PROVE LastRead(p, read)'
    BY <1>o, <2>1, <2>3 DEF LastRead
  <2> QED BY <2>1, <2>2, <2>3 DEF BareInv
<1>9. CASE UNCHANGED vars
  BY <1>9 DEF vars, BareInv, LastRead
<1> QED BY <1>1, <1>2, <1>3, <1>4, <1>5, <1>6, <1>7, <1>8, <1>9 DEF Next, RunStep

-----------------------------------------------------------------------------
(* The state keeps its shape. *)

(* What asking leaves open. *)
LEMMA AskTypes ==
  ASSUME TypeOK, NEW kind \in {"rule", "changes"}, NEW items \in (SUBSET Transfers) \ {{}},
         NEW shown \in BOOLEAN,
         Ask(kind, items, WithoutKind(kind), shown)
  PROVE  OpenOK' /\ asked' = asked + 1
<1> DEFINE new == [id |-> asked + 1, kind |-> kind, items |-> items, newer |-> 0, shown |-> shown]
<1>1. open' = WithoutKind(kind) \cup {new} /\ asked' = asked + 1 /\ asked \in Nat
  BY DEF Ask, TypeOK
<1>2. /\ new.id = asked + 1 /\ new.kind = kind
      /\ new \in [id: 1 .. asked', kind: {"rule", "changes"}, items: (SUBSET Transfers) \ {{}},
                 newer: Nat, shown: BOOLEAN]
  BY <1>1
<1> HIDE DEF new
<1>3. 1 .. asked \subseteq 1 .. asked'
  BY <1>1
<1>4. \A p \in WithoutKind(kind) : /\ p \in open /\ p.kind # kind /\ p.id \in 1 .. asked
         /\ p \in [id: 1 .. asked', kind: {"rule", "changes"}, items: (SUBSET Transfers) \ {{}},
                  newer: Nat, shown: BOOLEAN]
  BY <1>3 DEF WithoutKind, TypeOK, OpenOK
<1>5. \A p, other \in open : p.kind = other.kind \/ p.id = other.id => p = other
  BY DEF TypeOK, OpenOK
<1>6. \A p \in WithoutKind(kind) : p.kind # new.kind /\ p.id # new.id
  BY <1>1, <1>2, <1>4
<1> QED BY <1>1, <1>2, <1>4, <1>5, <1>6 DEF OpenOK

(* Closing a question leaves the others as they were. *)
LEMMA OpenShrinks == ASSUME TypeOK, open' \subseteq open, asked' = asked PROVE OpenOK'
BY DEF TypeOK, OpenOK

(* The same questions, asked or shown at another time. *)
LEMMA OpenRenewed ==
  ASSUME TypeOK, NEW again,
         \A p \in open : /\ again[p].id = p.id /\ again[p].kind = p.kind
                        /\ again[p] \in [id: 1 .. asked, kind: {"rule", "changes"},
                                        items: (SUBSET Transfers) \ {{}}, newer: Nat, shown: BOOLEAN],
         open' = {again[p] : p \in open}, asked' = asked
  PROVE  OpenOK'
BY DEF TypeOK, OpenOK

(* A rule's question is about the transfers left. *)
LEMMA AskRuleTypes ==
  ASSUME TypeOK, NEW teaches, NEW done, NEW shown \in BOOLEAN, AskRule(teaches, done, shown)
  PROVE  OpenOK' /\ asked' \in Nat /\ asked' \in asked .. asked + 1
<1>1. asked \in Nat
  BY DEF TypeOK
<1>2. CASE open' = WithoutKind("rule") /\ asked' = asked
  BY <1>1, <1>2, OpenShrinks DEF WithoutKind
<1>3. CASE Ask("rule", Unlabeled(done), WithoutKind("rule"), shown) /\ Unlabeled(done) # {}
  <2>1. Unlabeled(done) \in (SUBSET Transfers) \ {{}}
    BY <1>3 DEF Unlabeled
  <2> QED BY <1>1, <1>3, <2>1, AskTypes
<1> QED BY <1>2, <1>3 DEF AskRule

(* A question about changes is about some transfers. *)
LEMMA AskChangesTypes ==
  ASSUME TypeOK, NEW items \in (SUBSET Transfers) \ {{}}, AskChanges(items)
  PROVE  OpenOK' /\ asked' = asked + 1 /\ asked' \in Nat
<1>1. asked \in Nat
  BY DEF TypeOK
<1>2. Ask("changes", items, WithoutKind("changes"), FALSE)
  BY DEF AskChanges
<1>3. OpenOK' /\ asked' = asked + 1
  BY <1>2, AskTypes
<1> QED BY <1>1, <1>3

(* A run that ends in a reply. *)
LEMMA FinishTypes ==
  ASSUME TypeOK, NEW reply, Finished(reply), labeled' = labeled,
         reply.kind = "list" => reply.list \subseteq Transfers
  PROVE  RunOK'
BY DEF TypeOK, RunOK, Finished, Kept

(* A run that concludes, with or without a question. *)
LEMMA ConcludeTypes ==
  ASSUME TypeOK, NEW reply, Conclude(reply), reply.kind # "list", labeled' = labeled
  PROVE  RunOK' /\ OpenOK' /\ asked' \in Nat
<1>1. CASE Finished(reply) /\ UNCHANGED <<open, asked>>
  BY <1>1, FinishTypes, OpenShrinks DEF TypeOK
<1>2. ASSUME AskChanges(run.drafts), run.drafts # {}, NEW kept,
             Finished([kind |-> "question", q |-> asked + 1, list |-> {}, done |-> kept])
      PROVE  RunOK' /\ OpenOK' /\ asked' \in Nat
  <2>1. run.drafts \in (SUBSET Transfers) \ {{}}
    BY <1>2 DEF TypeOK, RunOK
  <2>2. RunOK'
    BY <1>2, FinishTypes
  <2> QED BY <1>2, <2>1, <2>2, AskChangesTypes
<1> QED BY <1>1, <1>2, ConcludeEnds

(* Every step keeps the shape of the state. *)
LEMMA TypeStep == ASSUME TypeOK, YesInv, [Next]_vars PROVE TypeOK'
<1>f. DOMAIN run = RunFields /\ DOMAIN Idle = RunFields
  BY IdleFields DEF TypeOK, RunOK
<1> USE DEF RunFields
<1>i. /\ Idle.reply.kind = "plain" /\ Idle.msg \in Messages /\ Idle.steps = 0 /\ Idle.corrected = {}
      /\ Idle.drafts = {} /\ MaxSteps \in Nat
  BY ChatAssumption DEF Idle, Plain, Reply, Messages
<1>t. /\ labeled \subseteq Transfers /\ asked \in Nat /\ OpenOK /\ RunOK
      /\ saved \in [list: SUBSET Transfers, delivered: BOOLEAN] /\ DOMAIN seen = DOMAIN Idle.saw
  BY DEF TypeOK
<1>s. ASSUME UNCHANGED <<labeled, saved, seen>>, asked' \in Nat, OpenOK', RunOK' PROVE TypeOK'
  BY <1>s, <1>t DEF TypeOK
<1>o. ASSUME UNCHANGED <<open, asked>> PROVE OpenOK' /\ asked' \in Nat
  BY <1>o, <1>t, OpenShrinks
<1>k. ASSUME run' = Idle PROVE RunOK'
  BY <1>k, <1>i, <1>f, IdleFields DEF RunOK
<1>1. CASE Receive
  <2>1. OpenOK' /\ asked' = asked
    <3> DEFINE again == [p \in open |-> [p EXCEPT !.newer = @ + 1]]
    <3>1. \A p \in open : /\ again[p].id = p.id /\ again[p].kind = p.kind
                          /\ again[p] \in [id: 1 .. asked, kind: {"rule", "changes"},
                                items: (SUBSET Transfers) \ {{}}, newer: Nat, shown: BOOLEAN]
      BY <1>t DEF OpenOK
    <3>2. open' = {again[p] : p \in open} /\ asked' = asked
      BY <1>1 DEF Receive
    <3> HIDE DEF again
    <3> QED BY <3>1, <3>2, OpenRenewed
  <2>2. PICK m \in Messages : run' = [Idle EXCEPT !.pc = "route", !.msg = m, !.saw = seen]
    BY <1>1 DEF Receive
  <2>3. RunOK'
    BY <1>f, <1>i, <2>2, IdleFields DEF RunOK
  <2> QED BY <1>1, <1>s, <1>t, <2>1, <2>3 DEF Receive
<1>2. CASE ListWhatNeedsContext
  <2>1. UNCHANGED <<labeled, open, asked, saved, seen>>
    BY <1>2 DEF ListWhatNeedsContext, Same
  <2>2. Finished([kind |-> "list", q |-> Nobody, list |-> Unlabeled(labeled), done |-> {}])
    BY <1>2, FinishEnds DEF ListWhatNeedsContext, Reply
  <2>3. Unlabeled(labeled) \subseteq Transfers
    BY DEF Unlabeled
  <2> QED BY <1>o, <1>s, <2>1, <2>2, <2>3, FinishTypes
<1>3. CASE AskWhich
  <2>1. UNCHANGED <<labeled, open, asked, saved, seen>>
    BY <1>3 DEF AskWhich, Same
  <2>2. Finished([kind |-> "which", q |-> Nobody, list |-> run.view, done |-> {}])
    BY <1>3, FinishEnds DEF AskWhich, Reply
  <2> QED BY <1>o, <1>s, <2>1, <2>2, FinishTypes
<1>r. /\ run.msg \in Messages /\ run.steps \in 0 .. MaxSteps /\ run.corrected \subseteq Guards
      /\ run.todo \subseteq Transfers /\ run.drafts \subseteq Transfers /\ run.made \subseteq labeled
      /\ run.reply.kind = "list" => run.reply.list \subseteq Transfers
  BY <1>t DEF RunOK
<1>4. CASE ReadQuestions \/ ToTheModel
  <2>1. UNCHANGED <<labeled, open, asked, saved, seen>>
    BY <1>4 DEF ReadQuestions, ToTheModel, Same
  <2>2. PICK pc2, view2 : run' = [run EXCEPT !.pc = pc2, !.view = view2]
    <3>1. CASE ReadQuestions
      BY <3>1 DEF ReadQuestions
    <3>2. CASE ToTheModel
      <4>1. run' = [run EXCEPT !.pc = "model"]
        BY <3>2 DEF ToTheModel
      <4>2. [run EXCEPT !.pc = "model"] = [run EXCEPT !.pc = "model", !.view = run.view]
        BY <1>f
      <4> QED BY <4>1, <4>2
    <3> QED BY <1>4, <3>1, <3>2
  <2>3. RunOK'
    BY <1>f, <1>r, <2>1, <2>2 DEF RunOK
  <2> QED BY <1>o, <1>s, <2>1, <2>3
<1>20. CASE SkipChange
  <2>1. UNCHANGED <<labeled, open, asked, saved, seen>>
    BY <1>20 DEF SkipChange
  <2>2. PICK i : run' = [run EXCEPT !.todo = @ \ {i}]
    BY <1>20 DEF SkipChange
  <2>3. RunOK'
    BY <1>f, <1>r, <2>1, <2>2 DEF RunOK
  <2> QED BY <1>o, <1>s, <2>1, <2>3
<1>5. CASE Draft \/ LookUp
  <2>1. UNCHANGED <<labeled, open, asked, saved, seen>> /\ run.steps < MaxSteps
    BY <1>5 DEF Draft, LookUp, Same, Stepping
  <2>2. run.steps + 1 \in 0 .. MaxSteps
    BY <1>i, <1>r, <2>1
  <2>3. CASE LookUp
    <3>1. run' = [run EXCEPT !.steps = @ + 1]
      BY <2>3 DEF LookUp, Step
    <3>2. RunOK'
      BY <1>f, <1>r, <2>1, <2>2, <3>1 DEF RunOK
    <3> QED BY <1>o, <1>s, <2>1, <3>2
  <2>4. CASE Draft
    <3>1. PICK i \in Transfers : run' = [[run EXCEPT !.steps = @ + 1] EXCEPT !.drafts = @ \cup {i}]
      BY <2>4 DEF Draft, Step
    <3>2. RunOK'
      BY <1>f, <1>r, <2>1, <2>2, <3>1 DEF RunOK
    <3> QED BY <1>o, <1>s, <2>1, <3>2
  <2> QED BY <1>5, <2>3, <2>4
<1>6. CASE AnswerQuestion \/ AnswerForOperator
  <2>1. PICK q, yes : yes \in BOOLEAN /\ Claim(q, yes)
    <3>1. CASE AnswerQuestion
      <4>1. run.msg.yes \in BOOLEAN
        BY <3>1 DEF AnswerQuestion, TypeOK, RunOK, Messages, Bare, Pick, Line, Words, YesInv
      <4> QED BY <3>1, <4>1 DEF AnswerQuestion
    <3> QED BY <1>6, <3>1 DEF AnswerForOperator
  <2>2. UNCHANGED <<labeled, asked, saved, seen>>
    BY <1>6 DEF AnswerQuestion, AnswerForOperator
  <2>3. open' \subseteq open
    BY <2>1 DEF Claim, Closed
  <2>4. RunOK'
    <3>1. Denial.kind = "denial"
      BY DEF Denial, Reply
    <3> QED BY <1>f, <1>t, <2>1, <2>2, <3>1, ClaimEnds DEF RunOK
  <2> QED BY <1>s, <1>t, <2>2, <2>3, <2>4, OpenShrinks
<1>7. CASE Apply
  <2>1. PICK i \in First, teaches \in BOOLEAN :
          /\ labeled' = labeled \cup {i} /\ AskRule(teaches, labeled', FALSE)
          /\ run' = [run EXCEPT !.todo = @ \ {i}, !.made = @ \cup {i}]
    BY <1>7 DEF Apply
  <2>2. i \in Transfers
    BY <1>t, <2>1 DEF First, RunOK
  <2>3. RunOK'
    BY <1>f, <1>t, <2>1 DEF RunOK
  <2>4. UNCHANGED <<saved, seen>>
    BY <1>7 DEF Apply
  <2>5. OpenOK' /\ asked' \in Nat
    BY <2>1, AskRuleTypes
  <2> QED BY <1>t, <2>1, <2>2, <2>3, <2>4, <2>5 DEF TypeOK
<1>8. CASE Relabel
  <2>1. /\ labeled' = labeled \cup run.todo /\ UNCHANGED <<open, asked, saved, seen>>
        /\ run' = [run EXCEPT !.pc = "apply", !.todo = {}, !.made = run.todo \ labeled]
    BY <1>8 DEF Relabel
  <2>2. labeled' \subseteq Transfers
    BY <1>t, <2>1 DEF RunOK
  <2>3. RunOK'
    BY <1>f, <1>t, <2>1 DEF RunOK
  <2> QED BY <1>o, <1>t, <2>1, <2>2, <2>3 DEF TypeOK
<1>9. CASE Applied
  <2>1. PICK reply : Conclude(reply) /\ reply.kind # "list"
    BY <1>9 DEF Applied, Denial, Reply
  <2>2. UNCHANGED <<labeled, saved, seen>>
    BY <1>9 DEF Applied
  <2> QED BY <1>s, <2>1, <2>2, ConcludeTypes
<1>10. CASE WrapUp
  <2>1. PICK kind \in {"plain", "wrapup"} : Conclude(Reply(kind, Nobody, {}, {}))
    BY <1>10 DEF WrapUp
  <2>2. UNCHANGED <<labeled, saved, seen>>
    BY <1>10 DEF WrapUp
  <2>3. Reply(kind, Nobody, {}, {}).kind # "list"
    BY DEF Reply
  <2> QED BY <1>s, <2>1, <2>2, <2>3, ConcludeTypes
<1>p. Plain.kind = "plain" /\ Denial.kind = "denial"
  BY DEF Plain, Denial, Reply
<1>11. CASE BadReply
  <2>1. UNCHANGED <<labeled, saved, seen>> /\ run.steps < MaxSteps
    BY <1>11 DEF BadReply, Stepping
  <2>2. CASE Conclude(Plain)
    BY <1>p, <1>s, <2>1, <2>2, ConcludeTypes
  <2>3. ASSUME NEW g \in Guards, run' = [Step EXCEPT !.corrected = @ \cup {g}], UNCHANGED <<open, asked>>
        PROVE  TypeOK'
    <3>1. run.steps + 1 \in 0 .. MaxSteps
      BY <1>i, <1>t, <2>1 DEF RunOK
    <3>2. RunOK'
      BY <1>f, <1>t, <2>1, <2>3, <3>1 DEF Step, RunOK
    <3> QED BY <1>o, <1>s, <2>1, <2>3, <3>2
  <2> QED BY <1>11, <2>2, <2>3 DEF BadReply
<1>12. CASE Answer
  <2>1. UNCHANGED <<labeled, saved, seen>>
    BY <1>12 DEF Answer
  <2>2. CASE Conclude(Plain)
    BY <1>p, <1>s, <2>1, <2>2, ConcludeTypes
  <2>3. CASE ClaimOfChange
    <3>1. PICK reply : Finish(reply) /\ reply.kind # "list"
      <4>1. \/ \E p \in open : Finish(Reply("question", p.id, {}, {}))
            \/ Finish(Denial) \/ Finish(Reply("which", Nobody, Ids(open), {}))
        BY <2>3 DEF ClaimOfChange
      <4>2. \A q, ids : Reply("question", q, {}, {}).kind # "list" /\ Reply("which", Nobody, ids, {}).kind # "list"
        BY DEF Reply
      <4> QED BY <1>p, <4>1, <4>2
    <3>2. asked' = asked
      BY <2>3 DEF ClaimOfChange
    <3>3. OpenOK'
      <4>1. ASSUME NEW p \in open, open = {p}, open' = {[p EXCEPT !.newer = 0, !.shown = FALSE]} PROVE OpenOK'
        <5> DEFINE again == [o \in open |-> [o EXCEPT !.newer = 0, !.shown = FALSE]]
        <5>1. \A o \in open : /\ again[o].id = o.id /\ again[o].kind = o.kind
                             /\ again[o] \in [id: 1 .. asked, kind: {"rule", "changes"},
                                   items: (SUBSET Transfers) \ {{}}, newer: Nat, shown: BOOLEAN]
          <6>1. ASSUME NEW o \in open
                PROVE  [o EXCEPT !.newer = 0, !.shown = FALSE] =
                         [id |-> o.id, kind |-> o.kind, items |-> o.items, newer |-> 0, shown |-> FALSE]
            <7>1. [o EXCEPT !.newer = 0] =
                    [id |-> o.id, kind |-> o.kind, items |-> o.items, newer |-> 0, shown |-> o.shown]
              BY <1>t DEF OpenOK
            <7>2. [o EXCEPT !.newer = 0, !.shown = FALSE] =
                    [[id |-> o.id, kind |-> o.kind, items |-> o.items, newer |-> 0, shown |-> o.shown]
                       EXCEPT !.shown = FALSE]
              BY <7>1, Zenon
            <7>3. ASSUME NEW r, NEW b \in BOOLEAN,
                         r = [id |-> o.id, kind |-> o.kind, items |-> o.items, newer |-> 0, shown |-> o.shown]
                  PROVE  [r EXCEPT !.shown = b] =
                           [id |-> o.id, kind |-> o.kind, items |-> o.items, newer |-> 0, shown |-> b]
              BY <7>3
            <7>4. FALSE \in BOOLEAN
              OBVIOUS
            <7> QED BY <7>2, <7>3, <7>4, Zenon
          <6>2. \A o \in open : o.id \in 1 .. asked /\ o.kind \in {"rule", "changes"}
                               /\ o.items \in (SUBSET Transfers) \ {{}}
            BY <1>t DEF OpenOK
          <6> QED BY <6>1, <6>2
        <5>2. open' = {again[o] : o \in open}
          BY <4>1
        <5> HIDE DEF again
        <5> QED BY <3>2, <5>1, <5>2, OpenRenewed
      <4>2. CASE open' = open
        BY <3>2, <4>2, OpenShrinks
      <4> QED BY <2>3, <4>1, <4>2 DEF ClaimOfChange
    <3> QED BY <1>s, <1>t, <2>1, <3>1, <3>2, <3>3, FinishEnds, FinishTypes
  <2> QED BY <1>12, <2>2, <2>3 DEF Answer
<1>13. CASE AnswerByLine
  <2>1. UNCHANGED <<labeled, saved, seen>>
    BY <1>13 DEF AnswerByLine
  <2>2. CASE run' = [run EXCEPT !.pc = "model"] /\ UNCHANGED <<open, asked>>
    <3>1. RunOK'
      BY <1>f, <1>t, <2>1, <2>2 DEF RunOK
    <3> QED BY <1>o, <1>s, <2>1, <2>2, <3>1
  <2>3. CASE Finish(Plain) /\ UNCHANGED <<open, asked>>
    BY <1>o, <1>p, <1>s, <2>1, <2>3, FinishEnds, FinishTypes
  <2>4. ASSUME At(LatestList, run.msg.n) # {}, AskChanges(At(LatestList, run.msg.n)),
               Finish(Reply("question", asked + 1, {}, {}))
        PROVE  TypeOK'
    <3>1. At(LatestList, run.msg.n) \in (SUBSET Transfers) \ {{}}
      BY <1>t, <2>4 DEF At, LatestList
    <3>2. RunOK'
      BY <2>1, <2>4, FinishEnds, FinishTypes DEF Reply
    <3> QED BY <1>s, <2>1, <2>4, <3>1, <3>2, AskChangesTypes
  <2> QED BY <1>13, <2>2, <2>3, <2>4 DEF AnswerByLine
<1>14. CASE SaveReply
  <2>1. UNCHANGED <<labeled, open, asked, seen>> /\ run' = [run EXCEPT !.pc = "send"]
        /\ saved' = [list |-> IF run.reply.kind = "list" THEN run.reply.list ELSE {}, delivered |-> FALSE]
    BY <1>14 DEF SaveReply
  <2>2. saved' \in [list: SUBSET Transfers, delivered: BOOLEAN]
    BY <1>t, <2>1 DEF RunOK
  <2>3. RunOK'
    BY <1>f, <1>t, <2>1 DEF RunOK
  <2> QED BY <1>o, <1>t, <2>1, <2>2, <2>3 DEF TypeOK
<1>15. CASE SendReply
  <2>1. OpenOK'
    <3> DEFINE again == [p \in open |-> [p EXCEPT !.shown = @ \/ p.id = run.reply.q]]
    <3>1. \A p \in open : /\ again[p].id = p.id /\ again[p].kind = p.kind
                          /\ again[p] \in [id: 1 .. asked, kind: {"rule", "changes"},
                                items: (SUBSET Transfers) \ {{}}, newer: Nat, shown: BOOLEAN]
      <4>1. ASSUME NEW p \in open, NEW b \in BOOLEAN
            PROVE  [p EXCEPT !.shown = b] =
                     [id |-> p.id, kind |-> p.kind, items |-> p.items, newer |-> p.newer, shown |-> b]
        BY <1>t DEF OpenOK
      <4>2. \A p \in open : /\ p.id \in 1 .. asked /\ p.kind \in {"rule", "changes"}
                           /\ p.items \in (SUBSET Transfers) \ {{}} /\ p.newer \in Nat /\ p.shown \in BOOLEAN
        BY <1>t DEF OpenOK
      <4>3. ASSUME NEW p \in open
            PROVE  \E b \in BOOLEAN : again[p] = [p EXCEPT !.shown = b]
        <5>1. (p.shown \/ p.id = run.reply.q) \in BOOLEAN
          OBVIOUS
        <5> QED BY <5>1
      <4>4. ASSUME NEW p \in open
            PROVE  /\ again[p].id = p.id /\ again[p].kind = p.kind
                   /\ again[p] \in [id: 1 .. asked, kind: {"rule", "changes"},
                         items: (SUBSET Transfers) \ {{}}, newer: Nat, shown: BOOLEAN]
        <5>1. PICK b \in BOOLEAN : again[p] = [p EXCEPT !.shown = b]
          BY <4>3
        <5> HIDE DEF again
        <5>2. again[p] = [id |-> p.id, kind |-> p.kind, items |-> p.items, newer |-> p.newer, shown |-> b]
          BY <4>1, <5>1
        <5> QED BY <4>2, <5>2
      <4> QED BY <4>4
    <3>2. open' = {again[p] : p \in open} /\ asked' = asked
      BY <1>15 DEF SendReply, Shows
    <3> HIDE DEF again
    <3> QED BY <3>1, <3>2, OpenRenewed
  <2>2. saved' \in [list: SUBSET Transfers, delivered: BOOLEAN]
    BY <1>15, <1>t DEF SendReply
  <2>3. DOMAIN seen' = DOMAIN Idle.saw
    BY <1>15 DEF SendReply, Reads, Idle
  <2>4. UNCHANGED <<labeled, asked>> /\ RunOK'
    BY <1>15, <1>k DEF SendReply
  <2> QED BY <1>t, <2>1, <2>2, <2>3, <2>4 DEF TypeOK
<1>16. CASE RunFails
  <2>1. UNCHANGED <<labeled, open, asked, saved, seen>> /\ run' = Idle
    BY <1>16 DEF RunFails
  <2> QED BY <1>k, <1>o, <1>s, <2>1
<1>17. CASE Command
  <2>1. PICK i \in Transfers, teaches \in BOOLEAN :
          /\ labeled' = labeled \cup {i} /\ AskRule(teaches, labeled', TRUE)
          /\ saved' = IF teaches THEN [list |-> {}, delivered |-> TRUE] ELSE saved
    BY <1>17 DEF Command
  <2>2. saved' \in [list: SUBSET Transfers, delivered: BOOLEAN]
    BY <1>t, <2>1
  <2>3. DOMAIN seen' = DOMAIN Idle.saw /\ run' = run
    BY <1>17, <1>t DEF Command
  <2>4. RunOK'
    BY <1>t, <2>1, <2>3 DEF RunOK
  <2>5. OpenOK' /\ asked' \in Nat
    BY <2>1, AskRuleTypes
  <2> QED BY <1>t, <2>1, <2>2, <2>3, <2>4, <2>5 DEF TypeOK
<1>18. CASE Expire
  <2>1. open' \subseteq open /\ UNCHANGED <<labeled, asked, saved, seen, run>>
    BY <1>18 DEF Expire, Closed
  <2>2. RunOK'
    BY <1>t, <2>1 DEF RunOK
  <2> QED BY <1>s, <1>t, <2>1, <2>2, OpenShrinks
<1>19. CASE UNCHANGED vars
  BY <1>19, <1>t DEF vars, TypeOK, OpenOK, RunOK
<1> QED BY <1>1, <1>2, <1>3, <1>4, <1>5, <1>6, <1>7, <1>8, <1>9, <1>10, <1>11, <1>12, <1>13, <1>14, <1>15,
           <1>16, <1>17, <1>18, <1>19, <1>20 DEF Next, RunStep

-----------------------------------------------------------------------------
(* What a step does to the question answered and to what was done. *)

(* Apart from claiming, applying and relabeling, a step keeps both or forgets them. *)
LEMMA OnlyTheseAct ==
  ASSUME TypeOK, [Next]_vars, ~AnswerQuestion, ~AnswerForOperator
  PROVE  /\ run'.answers \in {run.answers, Nobody}
         /\ run'.made = run.made \/ run' = Idle \/ Receive \/ Apply \/ Relabel
<1>f. DOMAIN run = RunFields
  BY IdleFields DEF TypeOK, RunOK
<1> USE DEF RunFields
<1> DEFINE Goal == /\ run'.answers \in {run.answers, Nobody}
                   /\ run'.made = run.made \/ run' = Idle \/ Receive \/ Apply \/ Relabel
<1>1. CASE Receive \/ SendReply \/ RunFails
  BY <1>1, IdleFields DEF Receive, SendReply, RunFails
<1>2. CASE Apply \/ Relabel \/ SkipChange \/ SaveReply
  BY <1>2, <1>f DEF Apply, Relabel, SkipChange, SaveReply
<1>3. CASE ReadQuestions \/ ToTheModel \/ Draft \/ LookUp
  BY <1>3, <1>f DEF ReadQuestions, ToTheModel, Draft, LookUp, Step
<1>4. ASSUME NEW reply, Finish(reply) \/ Conclude(reply) PROVE Goal
  BY <1>4, FinishEnds, ConcludeEnds DEF Finished, Kept
<1>5. CASE ListWhatNeedsContext \/ AskWhich \/ Applied \/ WrapUp
  <2>1. \E reply : Finish(reply) \/ Conclude(reply)
    BY <1>5 DEF ListWhatNeedsContext, AskWhich, Applied, WrapUp
  <2> QED BY <1>4, <2>1
<1>6. CASE Answer
  <2>1. \E reply : Finish(reply) \/ Conclude(reply)
    BY <1>6 DEF Answer, ClaimOfChange
  <2> QED BY <1>4, <2>1
<1>7. CASE BadReply
  <2>1. CASE Conclude(Plain)
    BY <1>4, <2>1
  <2>2. ASSUME NEW g \in Guards, run' = [Step EXCEPT !.corrected = @ \cup {g}] PROVE Goal
    BY <1>f, <2>2 DEF Step
  <2> QED BY <1>7, <2>1, <2>2 DEF BadReply
<1>8. CASE AnswerByLine
  <2>1. (\E reply : Finish(reply)) \/ run' = [run EXCEPT !.pc = "model"]
    BY <1>8 DEF AnswerByLine
  <2> QED BY <1>4, <1>f, <2>1
<1>9. CASE Command \/ Expire \/ UNCHANGED vars
  BY <1>9 DEF Command, Expire, vars
<1> QED
  <2>1. Goal
    BY <1>1, <1>2, <1>3, <1>5, <1>6, <1>7, <1>8, <1>9 DEF Next, RunStep
  <2> QED BY <2>1

-----------------------------------------------------------------------------
(* The theorems. *)
ChatInv == TypeOK /\ YesInv /\ ReplyIsTrue /\ ListInv /\ BareInv

(* The initial state satisfies all of it. *)
LEMMA InitInv == Init => ChatInv
<1> SUFFICES ASSUME Init PROVE ChatInv
  OBVIOUS
<1>1. /\ labeled = {} /\ open = {} /\ asked = 0 /\ run = Idle
      /\ saved = [list |-> {}, delivered |-> TRUE] /\ seen = [q |-> Nobody, which |-> {}, list |-> {}]
  BY DEF Init
<1>2. /\ Idle.pc = "idle" /\ Idle.reply.kind = "plain" /\ Idle.msg = [kind |-> "context"] /\ Idle.steps = 0
      /\ Idle.corrected = {} /\ Idle.todo = {} /\ Idle.drafts = {} /\ Idle.made = {} /\ MaxSteps \in Nat
      /\ DOMAIN Idle.saw = {"q", "which", "list"}
  BY ChatAssumption DEF Idle, Plain, Reply
<1>3. RunOK
  BY <1>1, <1>2 DEF RunOK, Messages
<1>4. TypeOK
  BY <1>1, <1>2, <1>3 DEF TypeOK, OpenOK
<1>5. YesInv /\ ReplyIsTrue /\ ListInv /\ BareInv
  BY <1>1, <1>2 DEF YesInv, ReplyIsTrue, ListInv, BareInv
<1> QED BY <1>4, <1>5 DEF ChatInv

(* Every state of the chat is well formed, what was done was said yes to, and what  *)
(* can be answered was read.                                                   *)
THEOREM ChatIsSound == Spec => []ChatInv
<1>1. ChatInv /\ [Next]_vars => ChatInv'
  BY TypeStep, YesStep, ReplyStep, ListStep, BareStep DEF ChatInv
<1> QED BY InitInv, <1>1, PTL DEF Spec

(* What Luca says it did the run did, whatever the model writes and whatever fails   *)
(* between the changes (checks.ts:212-216, changes.ts:182-190).                 *)
THEOREM RepliesAreTrue == Spec => []ReplyIsTrue
<1>1. ChatInv => ReplyIsTrue
  BY DEF ChatInv
<1> QED BY <1>1, ChatIsSound, PTL

(* No run labels a transfer before the operator said yes to a question about it      *)
(* (changes.ts:14-18).                                                        *)
THEOREM NothingWithoutAYes == Spec => OnlyOnYes
<1> DEFINE A == run'.made # run.made
                  => SaidYes /\ run.answers # Nobody /\ run'.made \ run.made \subseteq run.todo
<1>1. ChatInv /\ [Next]_vars => [A]_vars
  <2> SUFFICES ASSUME TypeOK, YesInv, [Next]_vars, run'.made # run.made
               PROVE  SaidYes /\ run.answers # Nobody /\ run'.made \ run.made \subseteq run.todo
    BY DEF ChatInv
  <2>f. DOMAIN run = RunFields
    BY IdleFields DEF TypeOK, RunOK
  <2> USE DEF RunFields
  <2>1. CASE AnswerQuestion \/ AnswerForOperator
    <3>1. PICK q, yes : Claim(q, yes)
      BY <2>1 DEF AnswerQuestion, AnswerForOperator
    <3>2. run'.made = run.made
      BY <2>f, <3>1 DEF Claim, Finish
    <3> QED BY <3>2
  <2>2. CASE run' = Idle \/ Receive
    <3>1. run'.made = {}
      BY <2>2, IdleFields DEF Receive
    <3> QED BY <3>1 DEF YesInv
  <2>3. CASE Apply
    BY <2>3, <2>f DEF Apply, First, YesInv
  <2>4. CASE Relabel
    BY <2>4, <2>f DEF Relabel, YesInv
  <2> QED BY <2>1, <2>2, <2>3, <2>4, OnlyTheseAct
<1> QED BY <1>1, ChatIsSound, PTL DEF Spec, OnlyOnYes

(* A plain yes or no answers the question read last, however questions come, go and    *)
(* are asked again (proposals-chat.ts:8-9, proposals.ts:150-159).                 *)
THEOREM APlainAnswerIsMeant == Spec => BareAnswerIsMeant
<1> DEFINE A == \A q \in 1 .. asked : run.msg.kind = "bare" /\ Decided(q) /\ Question(q).shown
                                     => run.saw.q \in {q, Nobody}
<1>1. ChatInv /\ [Next]_vars => [A]_vars
  <2> SUFFICES ASSUME TypeOK, BareInv, [Next]_vars,
                      NEW q \in 1 .. asked, run.msg.kind = "bare", Decided(q), Question(q).shown
               PROVE  run.saw.q \in {q, Nobody}
    BY DEF ChatInv
  <2>1. asked \in Nat /\ q # Nobody
    BY DEF TypeOK, Nobody
  <2>2. AnswerQuestion
    <3>1. AnswerQuestion \/ AnswerForOperator
      BY <2>1, OnlyTheseAct DEF Decided
    <3>2. ~AnswerForOperator
      BY DEF AnswerForOperator, Explicit
    <3> QED BY <3>1, <3>2
  <2>3. PICK t \in Target : Claim(t, run.msg.yes) /\ run.pc = "which"
    BY <2>2 DEF AnswerQuestion
  <2>4. t = q /\ IsOpen(q)
    <3>f. DOMAIN run = RunFields
      BY IdleFields DEF TypeOK, RunOK
    <3> USE DEF RunFields
    <3> QED BY <2>3, <3>f DEF Claim, Finish, Decided
  <2>5. run.view = {q} /\ Question(q).newer <= 1
    BY <2>3, <2>4 DEF Target, Current
  <2>6. Question(q) \in open /\ Question(q).id = q
    BY <2>4 DEF IsOpen, Ids, Question
  <2> QED BY <2>3, <2>5, <2>6 DEF BareInv
<1> QED BY <1>1, ChatIsSound, PTL DEF Spec, BareAnswerIsMeant

(* A number answers about the line of the list that was read, whatever was labeled     *)
(* since (numbered.ts:4-8, 52-90).                                             *)
THEOREM ANumberIsTheLine == Spec => NumberIsTheLine
<1> DEFINE A == AnswerByLine /\ asked' > asked /\ saved.delivered
                  => \E p \in open' : /\ p.id = asked' /\ p.items = At(run.saw.list, run.msg.n)
                                      /\ p.items # {}
<1>1. ChatInv /\ [Next]_vars => [A]_vars
  <2> SUFFICES ASSUME TypeOK, ListInv, AnswerByLine, asked' > asked, saved.delivered
               PROVE  \E p \in open' : /\ p.id = asked' /\ p.items = At(run.saw.list, run.msg.n)
                                      /\ p.items # {}
    BY DEF ChatInv
  <2>1. LatestList # {} /\ At(LatestList, run.msg.n) # {} /\ AskChanges(At(LatestList, run.msg.n))
    BY DEF AnswerByLine, TypeOK
  <2>2. LatestList = run.saw.list
    <3>1. run.pc = "route"
      BY DEF AnswerByLine, IsOneOf
    <3> QED BY <2>1, <3>1 DEF ListInv, LatestList
  <2> DEFINE new == [id |-> asked + 1, kind |-> "changes", items |-> At(LatestList, run.msg.n),
                     newer |-> 0, shown |-> FALSE]
  <2>3. new \in open' /\ asked' = asked + 1
    BY <2>1 DEF AskChanges, Ask
  <2> QED BY <2>1, <2>2, <2>3
<1> QED BY <1>1, ChatIsSound, PTL DEF Spec, NumberIsTheLine
=============================================================================
