----------------------------- MODULE AnswerTurn -----------------------------
(***************************************************************************)
(* One turn of the agent, src/deskpilot/core/agent.py, from the question   *)
(* to the stored answer, as a task that a worker runs: routing and         *)
(* planning (TurnRouting), answers from evidence (GroundedText), and the   *)
(* plans that are executed node by node by multi_agent/plan_executor.py    *)
(* and supervisor.py with a checkpoint after each.                         *)
(*                                                                         *)
(* The worker may crash at any step.  The task then runs again under the   *)
(* handler it is bound to: core.answer starts from the question,           *)
(* core.workflow from the checkpoints of the nodes.  Every call of a       *)
(* language model or a tool may return anything or fail.                   *)
(*                                                                         *)
(* What a node produces is a value: the sources' is drawn from Values, and *)
(* what is written from it appends another draw, so that a repeated call   *)
(* shows.  The nodes that read sources are one node here, as are the ones  *)
(* that write from them.                                                   *)
(***************************************************************************)
EXTENDS TurnRouting, GroundedText

CONSTANTS
  Settings,     \* what may be asked, replied and planned, and what may go wrong
  Values        \* what a call of a source or a model may return

Nodes == {"read", "compose", "commit"}
NoValue == << >>
Drawn == {<<v>> : v \in Values}
Content == {NoValue} \cup Drawn \cup (Values \X Values)
NodeStates == {"planned", "running", "success", "waiting", "failed"}
Outcomes == {"none", "done", "pending", "note", "failed", "stopped", "recovery"}
Stages == {"start", "route", "plan", "repair", "settle", "dispatch", "act", "bind", "open", "run", "call",
           "save", "retrieve", "generate", "revise", "support", "cite", "research",
           "request", "say", "remember", "done"}

Setting == [asks: SUBSET Ask, replies: SUBSET Decision, plans: SUBSET Plan,
            texts: SUBSET ({Empty} \cup Written), crashes: Nat, stops: BOOLEAN, exists: BOOLEAN]

ASSUME TurnAssumption ==
  /\ Settings \subseteq Setting
  /\ \A s \in Settings : s.asks # {}

VARIABLES
  setting,      \* what may still happen
  ask,          \* what the rules find in the question
  turn,         \* the run of the task that is under way
  task,         \* the task as it is stored: its handler and the checkpoints
  draft,        \* the answer from evidence
  record        \* what the turn has left: messages, requests, files

vars == <<setting, ask, turn, task, draft, record>>

NoTurn == [stage |-> "start", decision |-> Direct, plan |-> NoPlan, tries |-> 1, handler |-> "note",
           outcome |-> "none", node |-> "read", status |-> "planned", content |-> NoValue]
NoDraft == [n |-> 0, text |-> Empty, model |-> FALSE, sources |-> {}]
NewTask == [handler |-> "answer", domain |-> "note", saved |-> FALSE,
            node |-> [n \in Nodes |-> "planned"], out |-> [n \in Nodes |-> NoValue],
            attempts |-> [n \in Nodes |-> 0]]

Init ==
  /\ setting \in Settings
  /\ ask \in setting.asks
  /\ turn = NoTurn /\ task = NewTask /\ draft = NoDraft
  /\ record = [questions |-> 0, answers |-> {}, owed |-> {}, target |-> FALSE, mixed |-> FALSE,
               requests |-> {}, written |-> << >>]

At(stage) == turn.stage = stage
Goto(stage) == turn' = [turn EXCEPT !.stage = stage]
\* The turn has its outcome; what is left is to store it.
End(outcome) == turn' = [turn EXCEPT !.stage = "request", !.outcome = outcome]

---------------------------------------------------------------------------
(* From the question to the handler *)

\* The worker takes the task: _run_task_answer or _run_task_workflow.
Begin ==
  /\ At("start")
  /\ IF task.handler = "answer"
     THEN Goto("route") /\ record' = [record EXCEPT !.questions = @ + 1]
     ELSE /\ turn' = [turn EXCEPT !.stage = "open", !.handler = task.domain]
          /\ UNCHANGED record
  /\ UNCHANGED <<setting, ask, task, draft>>

Decide(d) ==
  turn' = [turn EXCEPT !.decision = d, !.stage = IF d.mode = "plan" THEN "plan" ELSE "dispatch"]

\* IntentRouter.route: the gate, a reply that cannot be read, or a decision.
Route ==
  /\ At("route")
  /\ \/ Gated(ask) /\ Decide(Direct)
     \/ Decide(Fallback(ask))
     \/ \E reply \in setting.replies : Decide(Corrected(ask, reply))
  /\ UNCHANGED <<setting, ask, task, draft, record>>

\* plan_task.
MakePlan ==
  /\ At("plan")
  /\ \E plan \in setting.plans : turn' = [turn EXCEPT !.plan = plan, !.tries = 1, !.stage = "repair"]
  /\ UNCHANGED <<setting, ask, task, draft, record>>

Wants(d, plan) ==
  CASE turn.tries = 1 -> WantsCatalog(ask, d, plan)
    [] turn.tries = 2 -> WantsContract(ask, d, plan)
    [] turn.tries = 3 -> WantsPipeline(ask, d, plan)
Takes(d, plan) ==
  CASE turn.tries = 1 -> TakesCatalog(d, plan)
    [] turn.tries = 2 -> TakesContract(d, plan)
    [] turn.tries = 3 -> TakesPipeline(d, plan)

\* PlanRepairService.repair: each strategy asks the planner once at most.
RepairPlan ==
  /\ At("repair")
  /\ LET next(plan) == turn' = [turn EXCEPT !.plan = plan, !.tries = @ + 1,
                                            !.stage = IF turn.tries = 3 THEN "settle" ELSE @]
     IN IF Wants(turn.decision, turn.plan)
        THEN \E plan \in setting.plans :
               next(IF Takes(turn.decision, plan) THEN plan ELSE turn.plan)
        ELSE next(turn.plan)
  /\ UNCHANGED <<setting, ask, task, draft, record>>

SettlePlan ==
  /\ At("settle")
  /\ turn' = [turn EXCEPT !.plan = Settled(ask, turn.decision, @), !.tries = 1, !.stage = "dispatch"]
  /\ UNCHANGED <<setting, ask, task, draft, record>>

\* A file that is there already is not written over, so nothing is searched.
TargetTaken(handler) == handler = "web_file" /\ setting.exists

\* What a handler starts with; an exception ends the turn without an answer.
NextStage(handler) ==
  CASE handler \in Workflows -> "bind"
    [] handler = "rag" -> "retrieve"
    [] handler = "raise" -> "done"
    [] OTHER -> "act"

Dispatch ==
  /\ At("dispatch")
  /\ LET handler == Handler(ask, turn.decision, turn.plan)
         next == [turn EXCEPT !.handler = handler, !.decision = Direct, !.plan = NoPlan]
     IN /\ turn' = IF handler = "note" \/ TargetTaken(handler)
                   THEN [next EXCEPT !.handler = "note", !.stage = "request", !.outcome = "note"]
                   ELSE [next EXCEPT !.stage = NextStage(handler),
                                     !.outcome = IF handler = "raise" THEN "failed" ELSE @]
        /\ record' = [record EXCEPT !.owed = Owed(turn.decision), !.target = HasTarget(ask, turn.plan),
                                    !.mixed = IsMixed(turn.plan)]
  /\ UNCHANGED <<setting, ask, task, draft>>

---------------------------------------------------------------------------
(* Answers without a plan *)

Simple(handler) == At("act") /\ turn.handler = handler
KeepRest == UNCHANGED <<setting, ask, task, draft, record>>

\* DirectAnswerHandler: the router's answer, a model's, or the fallback.
AnswerDirectly == Simple("direct") /\ End("done") /\ KeepRest

\* _answer_local_document.
ReadDocument == Simple("document") /\ (End("done") \/ End("failed")) /\ KeepRest

\* _answer_file_write: the text is made, the tool writes, asks or refuses.
WriteFile ==
  /\ Simple("file")
  /\ \/ End("note") \/ End("failed")
     \/ End("done")
     \/ \E v \in Drawn : turn' = [turn EXCEPT !.stage = "request", !.outcome = "pending", !.content = v]
  /\ KeepRest

\* _answer_generic_tool_intent, _answer_execution_from_intent and their result.
CallTool ==
  /\ Simple("tool")
  /\ \/ End("note") \/ End("failed") \/ End("done")
     \/ \E v \in Drawn : turn' = [turn EXCEPT !.stage = "request", !.outcome = "pending", !.content = v]
  /\ KeepRest

\* _answer_web_search_request lists what was found; a research writes a report.
SearchWeb ==
  /\ Simple("web")
  /\ End("done") \/ End("failed") \/ Goto("research")
  /\ KeepRest

Research ==
  /\ At("research")
  /\ \E found \in 0..1, n \in 0..MaxEvidence : \E pages \in PageCounts(found, n) :
       \E text \in setting.texts :
         \E shown \in IF text.empty THEN ResearchFallbacks(pages, n) ELSE {ResearchText(text, pages)} :
           draft' = [n |-> pages, text |-> shown, model |-> ~text.empty, sources |-> ReferenceList(pages)]
  /\ End("done")
  /\ UNCHANGED <<setting, ask, task, record>>

---------------------------------------------------------------------------
(* An answer from the documents *)

\* Named document missing, nothing found, entities not covered, or a subject
\* that the passages do not mention.
Retrieve ==
  /\ At("retrieve")
  /\ \/ End("note") /\ UNCHANGED draft
     \/ \E n \in 1..MaxEvidence :
          \/ draft' = [NoDraft EXCEPT !.n = n] /\ Goto("generate")
          \/ draft' = [NoDraft EXCEPT !.n = n, !.text = [Empty EXCEPT !.nums = {1}, !.empty = FALSE]]
             /\ Goto("cite")
  /\ UNCHANGED <<setting, ask, task, record>>

FallBack == \E text \in FallbackTexts(draft.n) : draft' = [draft EXCEPT !.text = text, !.model = FALSE]

Generate ==
  /\ At("generate")
  /\ \E text \in setting.texts :
       IF text.empty THEN FallBack /\ Goto("cite")
       ELSE /\ draft' = [draft EXCEPT !.text = text, !.model = TRUE]
            /\ Goto(IF Valid(text, draft.n) THEN "support" ELSE "revise")
  /\ UNCHANGED <<setting, ask, task, record>>

\* Mutant: the revised text is shown as it is.
Accepts_Revised(text, n) == ~text.empty
Accepts(text, n) == Valid(text, n)

\* One revision by the model, then the passages themselves.
Revise ==
  /\ At("revise")
  /\ \E text \in setting.texts :
       IF Accepts(text, draft.n)
       THEN draft' = [draft EXCEPT !.text = text] /\ Goto("support")
       ELSE FallBack /\ Goto("cite")
  /\ UNCHANGED <<setting, ask, task, record>>

\* _verify_citation_support, if it is switched on: only a verdict counts.
Support ==
  /\ At("support")
  /\ FallBack \/ UNCHANGED draft
  /\ Goto("cite")
  /\ UNCHANGED <<setting, ask, task, record>>

Cite ==
  /\ At("cite")
  /\ draft' = [draft EXCEPT !.sources = SourceList(draft.text, draft.n)]
  /\ End("done")
  /\ UNCHANGED <<setting, ask, task, record>>

---------------------------------------------------------------------------
(* A plan that is executed *)

NodesOf(domain) ==
  CASE domain = "documents" -> <<"read", "compose">>
    [] domain = "email" -> <<"read", "compose", "commit">>
    [] OTHER -> <<"read", "commit">>

\* Mutant: a node is tried once more than its retries allow.
Limit_OneMore(domain, node) == 3

\* max_retries + 1 of the nodes.
Limit(domain, node) ==
  IF domain = "documents" \/ (domain = "web_file" /\ node = "read") \/ (domain = "email" /\ node = "commit")
  THEN 1 ELSE 2

\* _workflow_descriptor: from now on the task resumes as a workflow.
Bind ==
  /\ At("bind")
  /\ task' = [task EXCEPT !.handler = "workflow", !.domain = turn.handler]
  /\ Goto("open")
  /\ UNCHANGED <<setting, ask, draft, record>>

\* A node that needs a human and was running when the worker died.
Unsafe(nodes) == {n \in {"commit"} : nodes[n] = "running"}

\* _execute: the plan is stored, or its checkpoints are taken up.
Open ==
  /\ At("open")
  /\ IF task.saved /\ Unsafe(task.node) # {} THEN End("recovery") ELSE Goto("run")
  /\ task' = [task EXCEPT !.saved = TRUE]
  /\ UNCHANGED <<setting, ask, draft, record>>

\* Mutant: a result that waits is prepared anew.
Reusable_Success == {"success"}

\* The saved results that are used again (_saved_results, run_step).
Reusable == {"success", "waiting"}

\* The next node of the plan, 0 when all have succeeded.
NextNode(domain) == SelectInSeq(NodesOf(domain), LAMBDA n : task.node[n] # "success")

\* The loop of the supervisor: the next node, unless the task is to stop.  A
\* commit that waits for its approval ends the run with what it has prepared.
RunNode ==
  /\ At("run")
  /\ LET next == NextNode(turn.handler)
         node == NodesOf(turn.handler)[next]
         waits == task.node[node] = "waiting" /\ "waiting" \in Reusable
         used == task.attempts[node] >= Limit(turn.handler, node)
     IN \/ next = 0 /\ End("done") /\ UNCHANGED task
        \/ setting.stops /\ End("stopped") /\ UNCHANGED task
        \/ /\ next # 0 /\ waits
           /\ turn' = [turn EXCEPT !.stage = "request", !.outcome = "pending", !.content = task.out[node]]
           /\ UNCHANGED task
        \/ next # 0 /\ ~waits /\ used /\ End("failed") /\ UNCHANGED task
        \/ /\ next # 0 /\ ~waits /\ ~used
           /\ task' = [task EXCEPT !.node[node] = "running", !.attempts[node] = @ + 1]
           /\ turn' = [turn EXCEPT !.node = node, !.stage = "call"]
  /\ UNCHANGED <<setting, ask, draft, record>>

\* What a node can produce from what the nodes before it have saved.
Produced(domain, node) ==
  IF node = "read" THEN Drawn
  ELSE IF node = "compose" \/ domain = "report" THEN {Append(task.out["read"], v) : v \in Values}
  ELSE {task.out[IF domain = "email" THEN "compose" ELSE "read"]}

Result(status, content) ==
  turn' = [turn EXCEPT !.stage = "save", !.status = status, !.content = content]

\* The handlers of the nodes.  A commit prepares a request; a file may be
\* written at once where the policy allows it.
CallNode ==
  /\ At("call")
  /\ \/ Result("failed", NoValue) /\ UNCHANGED record
     \/ \E content \in Produced(turn.handler, turn.node) :
          \/ turn.node # "commit" /\ Result("success", content) /\ UNCHANGED record
          \/ turn.node = "commit" /\ Result("waiting", content) /\ UNCHANGED record
          \/ /\ turn.node = "commit" /\ turn.handler # "email"
             /\ Result("success", content)
             /\ record' = [record EXCEPT !.written = Append(@, content)]
  /\ UNCHANGED <<setting, ask, task, draft>>

\* The report of a report plan is written from the passages by the model.
CallReport ==
  /\ At("call") /\ turn.handler = "report" /\ turn.node = "commit"
  /\ \E n \in 1..MaxEvidence, text \in setting.texts :
       /\ ~text.empty
       /\ \E shown \in ReportTexts(text, n) :
            draft' = [n |-> n, text |-> shown, model |-> TRUE, sources |-> ReferenceList(n)]
  /\ \E content \in Produced("report", "commit") : Result("waiting", content)
  /\ UNCHANGED <<setting, ask, task, record>>

\* update_node with the output: the checkpoint.
SaveNode ==
  /\ At("save")
  /\ task' = [task EXCEPT !.node[turn.node] = turn.status,
                          !.out[turn.node] = IF turn.status = "failed" THEN @ ELSE turn.content]
  /\ LET next == [turn EXCEPT !.node = "read", !.status = "planned"]
         again == task.attempts[turn.node] < Limit(turn.handler, turn.node) /\ turn.node # "commit"
     IN turn' = CASE turn.status = "waiting" -> [next EXCEPT !.stage = "request", !.outcome = "pending"]
                  [] turn.status = "failed" /\ again -> [next EXCEPT !.stage = "run"]
                  [] turn.status = "failed" /\ ~again -> [next EXCEPT !.stage = "request", !.outcome = "failed"]
                  [] OTHER -> [next EXCEPT !.stage = "run", !.content = NoValue]
  /\ UNCHANGED <<setting, ask, draft, record>>

---------------------------------------------------------------------------
(* The end of a turn *)

\* _finalize_answer: a request for approval first, then the message, then
\* the memory and the metadata of the message.
Request ==
  /\ At("request")
  /\ record' = IF turn.outcome = "pending"
               THEN [record EXCEPT !.requests = @ \cup {<<task.handler, turn.content>>}] ELSE record
  /\ Goto("say")
  /\ UNCHANGED <<setting, ask, task, draft>>

Say ==
  /\ At("say")
  /\ record' = [record EXCEPT !.answers = @ \cup {<<task.handler, turn.outcome>>}]
  /\ Goto("remember")
  /\ UNCHANGED <<setting, ask, task, draft>>

Remember == At("remember") /\ Goto("done") /\ KeepRest

\* The worker dies; the task is taken up again by another run.
Crash ==
  /\ turn.stage \notin {"start", "done"}
  /\ setting.crashes > 0
  /\ setting' = [setting EXCEPT !.crashes = @ - 1]
  /\ turn' = NoTurn /\ draft' = NoDraft
  /\ UNCHANGED <<ask, task, record>>

Next ==
  \/ Begin \/ Route \/ MakePlan \/ RepairPlan \/ SettlePlan \/ Dispatch
  \/ AnswerDirectly \/ ReadDocument \/ WriteFile \/ CallTool \/ SearchWeb \/ Research
  \/ Retrieve \/ Generate \/ Revise \/ Support \/ Cite
  \/ Bind \/ Open \/ RunNode \/ CallNode \/ CallReport \/ SaveNode
  \/ Request \/ Say \/ Remember \/ Crash

Spec == Init /\ [][Next]_vars

---------------------------------------------------------------------------
(* Properties *)

TurnState == [stage: Stages, decision: Decision, plan: Plan, tries: 1..4, handler: Handlers, outcome: Outcomes,
              node: Nodes, status: NodeStates, content: Content]
TaskState == [handler: {"answer", "workflow"}, domain: Handlers, saved: BOOLEAN, node: [Nodes -> NodeStates],
              out: [Nodes -> Content], attempts: [Nodes -> 0..2]]
DraftState == [n: Numbers, text: Text, model: BOOLEAN, sources: SUBSET Numbers]
RecordState == [questions: Nat, answers: SUBSET ({"answer", "workflow"} \X Outcomes), owed: SUBSET Tools,
                target: BOOLEAN, mixed: BOOLEAN, requests: SUBSET ({"answer", "workflow"} \X Content),
                written: Seq(Content)]

\* Every variable keeps its type; a node is tried twice at most.
TypeOK ==
  /\ setting \in Setting /\ ask \in Ask
  /\ turn \in TurnState /\ task \in TaskState
  /\ draft \in DraftState /\ record \in RecordState

Shown == turn.stage \in {"request", "say"} /\ turn.outcome \in {"done", "pending"} /\ ~draft.text.empty

\* The citations that the model or the program has set in an answer are of
\* passages that exist and are listed, and nothing else is listed than what
\* exists.  An answer from the documents cites something; if the model wrote
\* it, exactly the cited passages are listed, no factual line is without a
\* citation and none is of the memory: through generation, revision, fallback
\* and verification, whatever the model returns or whichever call fails.
\* Left out are the numbers that quoted passages bring along (draft.text.quoted):
\* web_research.py:499 and agent.py:4276 leave them in the answer, where nothing
\* tells them from citations.
AnswerIsGrounded ==
  Shown =>
    /\ draft.text.nums \subseteq draft.sources /\ draft.sources \subseteq 1..draft.n
    /\ turn.handler = "rag" => draft.text.nums # {}
    /\ turn.handler = "rag" /\ draft.model =>
         /\ draft.sources = draft.text.nums /\ draft.text.quoted = {}
         /\ ~draft.text.bare /\ ~draft.text.memory

\* A workflow commits once: however often its worker dies, all requests for
\* approval show the same content, made from the source that is saved, a
\* file is written once and not asked for again, and the user is told that
\* something waits only after the request is there.
CommitIsPreparedOnce ==
  LET asked == {r \in record.requests : r[1] = "workflow"}
  IN /\ Cardinality(asked) + Len(record.written) <= 1
     /\ \A r \in asked : <<r[2][1]>> = task.out["read"]
     /\ <<"workflow", "pending">> \in record.answers => asked # {}

\* Every commit that the decision owes the user is made by the handler, or
\* the answer says why not, or the task fails, or there is no file to write
\* to and the pages are shown instead.
OwedIsServed ==
  At("done") =>
    \/ record.owed \subseteq Served(turn.handler)
    \/ turn.handler \in {"note", "raise"}
    \/ record.owed = {"write"} /\ turn.handler = "web" /\ ~record.target

\* Repairs, compiling and the cascade of handlers lose no commit that is
\* owed, unless the plan both writes a file and mails: then the handlers
\* lose one, whatever schemas.py:23 promises (agent.py:713-759).
CommitIsAccounted == record.mixed \/ OwedIsServed
=============================================================================
