-------------------------- MODULE AnswerTurnProofs --------------------------
(***************************************************************************)
(* Proofs about a turn of the agent, for whatever may be asked, replied,   *)
(* planned and written: the answers from evidence are grounded, a commit   *)
(* is prepared once, and none is lost between the router and the handlers. *)
(***************************************************************************)
EXTENDS AnswerTurn, FiniteSetTheorems, SequenceTheorems, TLAPS

-----------------------------------------------------------------------------
(* Routing.                                                                *)

\* The decisions and the plans are built from the defaults.
LEMMA Defaults ==
  /\ Direct \in Decision /\ NoPlan \in Plan
  /\ \A t \in Tools \cup {NoTool} : Call(t) \in Decision
  /\ \A r \in SUBSET Tools : PlanFor(r) \in Decision
<1>1. Direct \in Decision /\ NoPlan \in Plan
  BY DEF Direct, Decision, NoPlan, Plan
<1>2. \A t \in Tools \cup {NoTool} : Call(t) \in Decision
  BY <1>1 DEF Call, Decision
<1>3. \A r \in SUBSET Tools : PlanFor(r) \in Decision
  BY <1>1 DEF PlanFor, Decision
<1> QED BY <1>1, <1>2, <1>3

\* The tools that the rules name are tools.
LEMMA ToolNames ==
  /\ {"search", "web", "write", "read", "time", "delete", "mails", "shell"} \subseteq Tools
  /\ {"search", "write"} \in SUBSET Tools
BY DEF Tools, Sources, Commits, Others

\* The route without a readable reply is a decision.
LEMMA FallbackType == ASSUME NEW a \in Ask PROVE Fallback(a) \in Decision
<1> DEFINE first == SelectInSeq(FallbackOrder, LAMBDA c : c \in a.says)
<1>1. first # 0 => FallbackOrder[first] \in Tools
  <2> DEFINE found == {i \in 1..Len(FallbackOrder) : FallbackOrder[i] \in a.says}
  <2>1. found \subseteq 1..7
    BY DEF FallbackOrder
  <2>2. ASSUME found # {}
        PROVE  Min(found) \in found
    <3>1. \E m \in found : \A n \in found : m <= n
      BY <2>1, <2>2
    <3> QED BY <3>1 DEF Min
  <2>3. first # 0 => first \in 1..7
    BY <2>1, <2>2 DEF SelectInSeq
  <2> QED BY <2>3, ToolNames DEF FallbackOrder
<1>2. [Call("write") EXCEPT !.mode = "clarify", !.missing = TRUE] \in Decision
  BY Defaults, ToolNames DEF Decision
<1> QED BY <1>1, <1>2, Defaults, ToolNames DEF Fallback

\* The corrections of a decision give a decision.
LEMMA CompletedType ==
  ASSUME NEW a \in Ask, NEW d \in Decision
  PROVE  Completed(a, d) \in Decision
<1>1. Contract(d) \subseteq Tools
  BY ToolNames DEF Contract, Decision
<1> DEFINE required == IF d.mode = "plan" THEN Contract(d) ELSE d.required
           loc == d.local \/ a.index
<1>2. required \in SUBSET Tools /\ loc \in BOOLEAN
  BY <1>1 DEF Decision, Ask
<1>3. Completed(a, d) = [d EXCEPT !.required = required, !.local = loc]
  BY DEF Completed, Decision
<1> HIDE DEF required, loc
<1> QED BY <1>2, <1>3 DEF Decision

\* Whatever the router replies, the rules make a decision of it.
LEMMA CorrectedType ==
  ASSUME NEW a \in Ask, NEW reply \in Decision
  PROVE  Corrected(a, reply) \in Decision
<1> DEFINE d == Completed(a, reply)
<1>1. d \in Decision
  BY CompletedType
<1> HIDE DEF d
<1>2. /\ d.required \subseteq Tools /\ d.catalog \in BOOLEAN
      /\ d.required \cup {"write"} \in SUBSET Tools
  BY <1>1, ToolNames DEF Decision
<1>3. [PlanFor(d.required) EXCEPT !.reflect = TRUE] \in Decision
  BY <1>2, Defaults DEF Decision
<1>4. [PlanFor({"search"}) EXCEPT !.catalog = TRUE, !.local = TRUE] \in Decision
  <2>1. PlanFor({"search"}) \in Decision
    BY Defaults, ToolNames
  <2> QED BY <2>1 DEF Decision
<1>5. FileFromIndex \in Decision
  <2>1. PlanFor({"search", "write"}) \in Decision
    BY Defaults, ToolNames
  <2> QED BY <2>1 DEF FileFromIndex, Decision
<1>6. [PlanFor(d.required \cup {"write"}) EXCEPT !.catalog = d.catalog, !.file = TRUE] \in Decision
  <2>1. PlanFor(d.required \cup {"write"}) \in Decision
    BY <1>2, Defaults
  <2> QED BY <1>2, <2>1 DEF Decision
<1>7. Validated(d) \in Decision /\ [d EXCEPT !.mode = "tool"] \in Decision
  BY <1>1 DEF Validated, Decision
<1>8. Call("search") \in Decision
  BY Defaults, ToolNames
<1>9. Corrected(a, reply) \in
        {[PlanFor(d.required) EXCEPT !.reflect = TRUE], [PlanFor({"search"}) EXCEPT !.catalog = TRUE,
             !.local = TRUE],
         Call("search"), Direct, FileFromIndex,
         [PlanFor(d.required \cup {"write"}) EXCEPT !.catalog = d.catalog, !.file = TRUE], Validated(d),
         [d EXCEPT !.mode = "tool"], d}
  BY DEF Corrected, d
<1> QED BY <1>1, <1>3, <1>4, <1>5, <1>6, <1>7, <1>8, <1>9, Defaults

\* What the repair leaves is a plan, which has the tools that the decision
\* requires, or the ones of them that a plan can have.
LEMMA SettledPlan ==
  ASSUME NEW a \in Ask, NEW d \in Decision, NEW plan \in Plan
  PROVE  /\ Settled(a, d, plan) \in Plan
         /\ \/ d.required \subseteq Settled(a, d, plan).tools
            \/ Settled(a, d, plan).tools = d.required \cap (Sources \cup Commits)
<1> DEFINE tools == d.required \cap (Sources \cup Commits)
           targets == IF plan.targets = 0 /\ "read" \in tools THEN a.files ELSE plan.targets
           valid == tools # {}
<1>1. tools \in SUBSET Tools /\ targets \in 0..2 /\ valid \in BOOLEAN
  BY DEF Decision, Plan, Ask
<1>2. Compiled(a, d, plan) = [plan EXCEPT !.tools = tools, !.valid = valid, !.targets = targets]
  BY DEF Compiled, Plan
<1> HIDE DEF tools, targets, valid
<1>3. Compiled(a, d, plan) \in Plan /\ Compiled(a, d, plan).tools = tools
  BY <1>1, <1>2 DEF Plan
<1> QED BY <1>3 DEF Settled, tools

\* The cascade ends with a handler.
LEMMA HandlerType ==
  ASSUME NEW a, NEW d \in Decision, NEW plan
  PROVE  Handler(a, d, plan) \in Handlers
<1>1. Planned(a, d, plan) \in {"documents", "note", "raise", "tool", "rag", "web", "web_file", "email", "report"}
  BY DEF Planned, Conflict
<1>2. Called(a, d) \in {"rag", "web", "document", "file", "tool"}
  BY DEF Called
<1>3. Handler(a, d, plan) \in {Planned(a, d, plan), Called(a, d), "note", "direct"}
  BY DEF Handler, Decision
<1> QED BY <1>1, <1>2, <1>3 DEF Handlers, Workflows

\* What a decision owes and what its handler gives.
Accounted(owed, handler, target, mixed) ==
  \/ mixed
  \/ owed \subseteq Served(handler)
  \/ handler \in {"note", "raise"}
  \/ owed = {"write"} /\ handler = "web" /\ ~target

\* The cascade loses no commit that is owed, unless the plan is mixed.
LEMMA CascadeAccounts ==
  ASSUME NEW a \in Ask, NEW d \in Decision, NEW plan \in Plan,
         d.mode = "plan" => d.required \subseteq plan.tools \/ plan.tools = d.required \cap (Sources \cup Commits)
  PROVE  Accounted(Owed(d), Handler(a, d, plan), HasTarget(a, plan), IsMixed(plan))
<1> DEFINE owed == d.required \cap Commits
<1> SUFFICES ASSUME d.mode = "plan", owed # {}, ~IsMixed(plan)
             PROVE  Accounted(owed, Planned(a, d, plan), HasTarget(a, plan), FALSE)
  BY DEF Owed, Accounted, Handler
<1>1. owed \subseteq plan.tools \cap Commits
  BY DEF Commits
<1>2. PICK c \in owed : TRUE
  OBVIOUS
<1>3. plan.tools # {"images"} /\ ~(plan.tools \subseteq {"search"}) /\ plan.tools # {"web"}
       /\ ~IsDocuments(plan)
  BY <1>1, <1>2 DEF Commits, IsDocuments
<1>4. ~IsImages(d, plan) /\ ~IsSimpleIndex(a, d, plan) /\ ~IsSimpleWeb(d, plan) /\ ~IsCollection(a, d, plan)
  BY <1>3 DEF IsImages, IsSimpleIndex, IsSimpleWeb, IsCollection
<1>5. CASE ~IsMail(plan)
  <2>1. owed = {"write"} /\ "write" \in plan.tools
    BY <1>1, <1>2, <1>5 DEF IsMail, Mails, Commits
  <2>2. CASE IsWebFile(plan)
    <3>1. \/ Planned(a, d, plan) \in {"note", "raise", "web_file"}
          \/ Planned(a, d, plan) = "web" /\ ~HasTarget(a, plan)
      BY <1>3, <1>4, <2>2 DEF Planned, Conflict
    <3> QED BY <2>1, <3>1 DEF Accounted, Served
  <2>3. CASE ~IsWebFile(plan)
    <3>1. Planned(a, d, plan) \in {"note", "report"}
      BY <1>3, <1>4, <1>5, <2>1, <2>3 DEF Planned
    <3> QED BY <2>1, <3>1 DEF Accounted, Served
  <2> QED BY <2>2, <2>3
<1>6. CASE IsMail(plan)
  <2>1. "write" \notin plan.tools /\ ~IsWebFile(plan)
    BY <1>6 DEF IsMixed, IsWebFile
  <2>2. owed \subseteq Mails
    BY <1>1, <2>1 DEF Commits, Mails
  <2>3. Planned(a, d, plan) \in {"note", "email"}
    BY <1>3, <1>4, <1>6, <2>1 DEF Planned
  <2> QED BY <2>2, <2>3 DEF Accounted, Served
<1> QED BY <1>5, <1>6

-----------------------------------------------------------------------------
(* The invariant.                                                          *)

RoutingStages == {"route", "plan", "repair", "settle", "dispatch"}
EvidenceStages == {"generate", "revise", "support", "cite"}
PlanStages == {"open", "run", "call", "save"}

\* A task is bound to its workflow by the turn that dispatches it.
BoundOK ==
  /\ task.handler = "workflow" => task.domain \in Workflows
  /\ turn.stage \in PlanStages => task.handler = "workflow" /\ turn.handler = task.domain
  /\ turn.stage = "repair" => turn.tries \in 1..3
  /\ turn.stage = "bind" => turn.handler \in Workflows
  /\ turn.stage \in RoutingStages \cup EvidenceStages \cup {"act", "bind", "retrieve", "research"}
       => task.handler = "answer"

\* The state of the draft, from the retrieval to the answer.  A text of the
\* model quotes nothing.
Checked(text, n) == text.nums \subseteq 1..n /\ text.nums # {} /\ ~text.bare /\ ~text.memory
OwnWords == draft.model => draft.text.quoted = {}
Grounded ==
  /\ draft.text.nums \subseteq draft.sources /\ draft.sources \subseteq 1..draft.n
  /\ turn.handler = "rag" => Checked(draft.text, draft.n) /\ OwnWords
  /\ turn.handler = "rag" /\ draft.model => draft.sources = draft.text.nums
DraftOK ==
  /\ turn.stage = "retrieve" => turn.handler = "rag"
  /\ turn.stage \in EvidenceStages => turn.handler = "rag" /\ draft.n \in 1..MaxEvidence
  /\ turn.stage \in {"support", "cite"} => Checked(draft.text, draft.n) /\ OwnWords
  /\ turn.stage = "research" => turn.handler = "web"
  /\ turn.stage \in {"start", "act", "retrieve", "research", "bind", "open", "run", "call"} \cup RoutingStages
       => draft.text.empty
  /\ turn.stage \in {"save", "request", "say"} => draft.text.empty \/ Grounded
  /\ turn.stage = "save" /\ turn.status # "waiting" => draft.text.empty

\* What the nodes before a node are, and what a node has made of them.
Before(domain, node) ==
  CASE node = "read" -> {}
    [] node = "compose" -> {"read"}
    [] OTHER -> IF domain = "email" THEN {"read", "compose"} ELSE {"read"}
FromSource(source, content) == content # << >> /\ <<content[1]>> = source
MadeFrom(source, node, content) ==
  CASE node = "read" -> content \in Drawn
    [] node = "compose" -> \E v, w \in Values : content = <<v, w>> /\ source = <<v>>
    [] OTHER -> content \in Content /\ FromSource(source, content)
Made(node, content) == MadeFrom(task.out["read"], node, content)

\* Checkpoints: a node runs after the nodes before it, and what is saved of it
\* is made from what is saved of them.
NodesOK ==
  /\ \A n \in Nodes : task.node[n] = "success" =>
       Made(n, task.out[n]) /\ (n # "read" => task.node["read"] = "success")
  /\ \A n \in Nodes : task.node[n] = "waiting" =>
       n = "commit" /\ Made(n, task.out[n]) /\ task.node["read"] = "success"
  /\ \A n \in Nodes : task.node[n] # "planned" => task.saved
  /\ turn.stage \in {"run", "call", "save"} => task.saved
  /\ turn.stage \in {"call", "save"} =>
       /\ task.node[turn.node] = "running"
       /\ \A n \in Before(task.domain, turn.node) : task.node[n] = "success"
  /\ turn.stage = "save" =>
       \/ turn.status = "failed"
       \/ turn.status = "success" /\ Made(turn.node, turn.content)
       \/ turn.status = "waiting" /\ turn.node = "commit" /\ Made(turn.node, turn.content)
  /\ turn.stage = "run" => task.node["commit"] # "running"
  /\ turn.stage \in {"call", "save"} /\ task.node["commit"] = "running" => turn.node = "commit"

\* What a workflow has asked for, or written, is what its commit has made.
Asked == {r \in record.requests : r[1] = "workflow"}
CommitOK ==
  /\ Asked # {} => /\ Asked = {<<"workflow", task.out["commit"]>>}
                   /\ task.node["commit"] = "waiting" /\ record.written = << >>
  /\ record.written # << >> =>
       /\ Len(record.written) = 1
       /\ task.node["commit"] \in {"running", "success"}
       /\ turn.stage = "call" => turn.node # "commit"
       /\ turn.stage = "save" /\ turn.node = "commit" => turn.status = "success"
  /\ turn.outcome = "pending" /\ turn.stage = "request" /\ task.handler = "workflow" =>
       task.node["commit"] = "waiting" /\ turn.content = task.out["commit"]
  /\ turn.outcome = "pending" /\ turn.stage = "say" /\ task.handler = "workflow" => Asked # {}
  /\ <<"workflow", "pending">> \in record.answers => Asked # {}

\* The commit that is owed is the handler's, from the dispatch on.
OwedOK ==
  /\ turn.stage = "dispatch" /\ turn.decision.mode = "plan" =>
       \/ turn.decision.required \subseteq turn.plan.tools
       \/ turn.plan.tools = turn.decision.required \cap (Sources \cup Commits)
  /\ turn.stage \notin {"start"} \cup RoutingStages =>
       Accounted(record.owed, turn.handler, record.target, record.mixed)
  /\ task.handler = "workflow" => Accounted(record.owed, task.domain, record.target, record.mixed)

Inv == TypeOK /\ BoundOK /\ DraftOK /\ NodesOK /\ CommitOK /\ OwedOK

-----------------------------------------------------------------------------
(* What the steps write.                                                   *)

TurnType == turn \in TurnState
TaskType == task \in TaskState
DraftType == draft \in DraftState
RecordType == record \in RecordState
AskType == setting \in Setting /\ ask \in Ask
\* The type invariant, part by part.
LEMMA TypeParts == TypeOK <=> TurnType /\ TaskType /\ DraftType /\ RecordType /\ AskType
BY DEF TypeOK, TurnType, TaskType, DraftType, RecordType, AskType

\* The fields of a turn.
LEMMA TurnParts ==
  ASSUME TurnType
  PROVE  /\ turn.stage \in Stages /\ turn.decision \in Decision /\ turn.plan \in Plan /\ turn.tries \in 1..4
         /\ turn.handler \in Handlers /\ turn.outcome \in Outcomes /\ turn.node \in Nodes
         /\ turn.status \in NodeStates /\ turn.content \in Content
BY DEF TurnType, TurnState

\* What a step leaves of a turn, if it moves on, or has its outcome.
LEMMA GotoMoves ==
  ASSUME TurnType, NEW s \in Stages, Goto(s)
  PROVE  /\ TurnType' /\ turn'.stage = s
         /\ turn'.handler = turn.handler /\ turn'.outcome = turn.outcome /\ turn'.node = turn.node
         /\ turn'.status = turn.status /\ turn'.content = turn.content
         /\ turn'.decision = turn.decision /\ turn'.plan = turn.plan
BY DEF TurnType, TurnState, Goto
\* A turn that has its outcome keeps its handler.
LEMMA EndMoves ==
  ASSUME TurnType, NEW o \in Outcomes, End(o)
  PROVE  /\ TurnType' /\ turn'.stage = "request" /\ turn'.outcome = o
         /\ turn'.handler = turn.handler /\ turn'.content = turn.content
<1>1. "request" \in Stages
  BY DEF Stages
<1> QED BY <1>1 DEF TurnType, TurnState, End
\* A turn that ends with something that waits for approval.
LEMMA PendingMoves ==
  ASSUME TurnType, NEW c \in Content,
         turn' = [turn EXCEPT !.stage = "request", !.outcome = "pending", !.content = c]
  PROVE  /\ TurnType' /\ turn'.stage = "request" /\ turn'.outcome = "pending"
         /\ turn'.handler = turn.handler /\ turn'.content = c
<1>1. "request" \in Stages /\ "pending" \in Outcomes
  BY DEF Stages, Outcomes
<1> QED BY <1>1 DEF TurnType, TurnState
\* What a call leaves of a turn.
LEMMA ResultMoves ==
  ASSUME TurnType, NEW st \in NodeStates, NEW c \in Content, Result(st, c)
  PROVE  /\ TurnType' /\ turn'.stage = "save" /\ turn'.status = st /\ turn'.content = c
         /\ turn'.handler = turn.handler /\ turn'.node = turn.node
<1>1. "save" \in Stages
  BY DEF Stages
<1> QED BY <1>1 DEF TurnType, TurnState, Result
\* A decision leads to a plan only if it asks for one.
LEMMA DecideMoves ==
  ASSUME TurnType, NEW d \in Decision, Decide(d)
  PROVE  /\ TurnType' /\ turn'.stage \in {"plan", "dispatch"} /\ turn'.decision = d
         /\ d.mode = "plan" => turn'.stage = "plan"
<1>1. {"plan", "dispatch"} \subseteq Stages
  BY DEF Stages
<1> QED BY <1>1 DEF TurnType, TurnState, Decide
\* A new plan keeps the decision.
LEMMA PlanMoves ==
  ASSUME TurnType, NEW plan \in Plan, NEW s \in Stages, NEW k \in 1..4,
         turn' = [turn EXCEPT !.plan = plan, !.tries = k, !.stage = s]
  PROVE  TurnType' /\ turn'.stage = s /\ turn'.plan = plan /\ turn'.tries = k /\ turn'.decision = turn.decision
BY DEF TurnType, TurnState

\* A value of the sources, and one that is written from it.
LEMMA Contents ==
  /\ NoValue \in Content /\ Drawn \subseteq Content /\ NoValue = << >>
  /\ \A v, w \in Values : /\ <<v, w>> \in Content /\ Append(<<v>>, w) = <<v, w>>
                          /\ <<v>> \in Drawn /\ <<v, w>>[1] = v /\ <<v>>[1] = v /\ <<v>> # << >> /\ <<v,
                               w>> # << >>
<1>1. NoValue \in Content /\ Drawn \subseteq Content /\ NoValue = << >>
  BY DEF Content, NoValue
<1>2. ASSUME NEW v \in Values, NEW w \in Values
      PROVE  /\ <<v, w>> \in Content /\ <<v>> \in Drawn
             /\ <<v, w>>[1] = v /\ <<v>>[1] = v /\ <<v>> # << >> /\ <<v, w>> # << >>
  <2>1. <<v, w>> \in Values \X Values
    OBVIOUS
  <2>2. Len(<<v>>) = 1 /\ Len(<<v, w>>) = 2 /\ Len(<< >>) = 0
    OBVIOUS
  <2> QED BY <2>1, <2>2 DEF Content, Drawn
<1>3. ASSUME NEW v \in Values, NEW w \in Values
      PROVE  Append(<<v>>, w) = <<v, w>>
  <2>1. <<v>> \in Seq(Values) /\ Len(<<v>>) = 1 /\ <<v>>[1] = v
    OBVIOUS
  <2>2. /\ Append(<<v>>, w) \in Seq(Values) /\ Len(Append(<<v>>, w)) = 2
        /\ Append(<<v>>, w)[1] = v /\ Append(<<v>>, w)[2] = w
    BY <2>1
  <2>3. <<v, w>> \in Seq(Values) /\ Len(<<v, w>>) = 2 /\ <<v, w>>[1] = v /\ <<v, w>>[2] = w
    OBVIOUS
  <2>4. \A i \in 1..2 : i = 1 \/ i = 2
    OBVIOUS
  <2> DEFINE s == Append(<<v>>, w)
             t == <<v, w>>
  <2>5. s \in Seq(Values) /\ t \in Seq(Values) /\ Len(s) = Len(t) /\ \A i \in 1..Len(s) : s[i] = t[i]
    BY <2>2, <2>3, <2>4
  <2> HIDE DEF s, t
  <2>6. s = t
    BY <2>5, SeqEqual
  <2> QED BY <2>6 DEF s, t
<1> QED BY <1>1, <1>2, <1>3

\* The states in which a turn, a task and a draft start.
LEMMA Starts ==
  /\ NoTurn \in TurnState /\ NoTurn.stage = "start"
  /\ NoDraft \in DraftState /\ NoDraft.text = Empty /\ Empty.empty /\ Empty \in Text
  /\ NewTask \in TaskState /\ NewTask.handler = "answer" /\ \A n \in Nodes : NewTask.node[n] = "planned"
<1>1. NoTurn \in TurnState /\ NoTurn.stage = "start"
  BY Defaults, Contents DEF NoTurn, TurnState, Stages, Handlers, Workflows, Outcomes, Nodes, NodeStates
<1>2. Empty \in Text /\ Empty.empty
  BY DEF Empty, Text
<1>3. NoDraft \in DraftState /\ NoDraft.text = Empty
  BY <1>2, NumberAssumption DEF NoDraft, DraftState, Numbers
<1>4. NewTask \in TaskState /\ NewTask.handler = "answer" /\ \A n \in Nodes : NewTask.node[n] = "planned"
  BY Contents DEF NewTask, TaskState, Handlers, NodeStates
<1> QED BY <1>1, <1>2, <1>3, <1>4

-----------------------------------------------------------------------------
(* Texts.                                                                  *)

\* Passages that are quoted with their numbers make a text.
LEMMA QuotingTypes ==
  ASSUME NEW text \in Text, NEW nums \in SUBSET Numbers, NEW t \in Quoting(text, nums)
  PROVE  /\ t \in Text /\ t.nums = nums /\ ~t.empty
         /\ t.bare = text.bare /\ t.memory = text.memory
<1>1. PICK q \in SUBSET Numbers : t = [text EXCEPT !.nums = nums, !.quoted = q, !.empty = FALSE]
  BY DEF Quoting
<1> QED BY <1>1 DEF Text

\* What is made of a text is a text, and cites what exists.
LEMMA TextTypes ==
  ASSUME NEW n \in 0..MaxEvidence, NEW text \in Text
  PROVE  /\ \A k \in Numbers : 1..k \subseteq Numbers
         /\ FallbackTexts(n) \subseteq Text
         /\ n > 0 => \A t \in FallbackTexts(n) : Checked(t, n)
         /\ ~text.empty => \A t \in ReportTexts(text, n) : t \in Text /\ t.nums \subseteq 1..n /\ ~t.empty
         /\ SourceList(text, n) \subseteq Numbers /\ SourceList(text, n) \subseteq 1..n
         /\ text.nums \subseteq 1..n => text.nums \subseteq SourceList(text, n)
         /\ text.nums \subseteq 1..n /\ text.nums # {} /\ text.quoted = {} => SourceList(text, n) = text.nums
<1>1. \A k \in Numbers : 1..k \subseteq Numbers
  BY NumberAssumption DEF Numbers
<1>2. 1..n \subseteq Numbers
  BY NumberAssumption DEF Numbers
<1>3. ASSUME NEW t \in FallbackTexts(n)
      PROVE  t \in Text /\ Checked(t, n)
  <2>1. PICK c \in SUBSET (1..n) : c # {} /\ t \in Quoting(Empty, c)
    BY <1>3 DEF FallbackTexts, Existing
  <2>2. c \in SUBSET Numbers /\ Empty \in Text
    BY <1>2, <2>1, Starts
  <2>3. t \in Text /\ t.nums = c /\ t.bare = Empty.bare /\ t.memory = Empty.memory
    BY <2>1, <2>2, QuotingTypes
  <2>4. ~Empty.bare /\ ~Empty.memory
    BY DEF Empty
  <2> QED BY <2>1, <2>3, <2>4 DEF Checked
<1>4. ASSUME ~text.empty, NEW t \in ReportTexts(text, n)
      PROVE  t \in Text /\ t.nums \subseteq 1..n /\ ~t.empty
  <2> DEFINE nums == text.nums \cap (1..n)
  <2>1. CASE nums = {}
    <3>1. t \in Quoting(text, 1..n) /\ 1..n \in SUBSET Numbers
      BY <1>2, <1>4, <2>1 DEF ReportTexts, Existing
    <3> QED BY <3>1, QuotingTypes
  <2>2. CASE nums # {}
    <3>1. t = [text EXCEPT !.nums = nums] /\ nums \in SUBSET Numbers
      BY <1>2, <1>4, <2>2 DEF ReportTexts, Existing
    <3> QED BY <1>4, <3>1 DEF Text
  <2> QED BY <2>1, <2>2
<1>5. /\ SourceList(text, n) \subseteq Numbers /\ SourceList(text, n) \subseteq 1..n
      /\ text.nums \subseteq 1..n => text.nums \subseteq SourceList(text, n)
      /\ text.nums \subseteq 1..n /\ text.nums # {} /\ text.quoted = {} => SourceList(text, n) = text.nums
  BY <1>2 DEF SourceList, CitedIn, Existing, Text
<1> QED BY <1>1, <1>3, <1>4, <1>5

\* A research numbers at most one page more than the evidence has.
LEMMA ResearchTypes ==
  ASSUME NEW found \in 0..1, NEW n \in 0..MaxEvidence, NEW pages \in PageCounts(found, n), NEW text \in Text
  PROVE  /\ pages \in Numbers /\ ReferenceList(pages) = 1..pages /\ ReferenceList(pages) \subseteq Numbers
         /\ \A t \in ResearchFallbacks(pages, n) \cup {ResearchText(text, pages)} :
              t \in Text /\ t.nums \subseteq 1..pages
<1>1. pages \in Numbers /\ 1..pages \subseteq Numbers
  <2>1. pages \in found..(found + n)
    BY DEF PageCounts
  <2>2. pages \in 0..(MaxEvidence + 1) /\ MaxEvidence + 1 <= MaxNumber
    BY <2>1, NumberAssumption
  <2> QED BY <2>2, NumberAssumption DEF Numbers
<1>2. ASSUME NEW t \in ResearchFallbacks(pages, n)
      PROVE  t \in Text /\ t.nums \subseteq 1..pages
  <2>1. Empty \in Text
    BY Starts
  <2>2. CASE n = 0
    <3>1. t = [Empty EXCEPT !.empty = FALSE]
      BY <1>2, <2>2 DEF ResearchFallbacks
    <3>2. t \in Text /\ t.nums = Empty.nums
      BY <2>1, <3>1 DEF Text
    <3> QED BY <3>2 DEF Empty
  <2>3. CASE n # 0
    <3>1. PICK c \in SUBSET (1..pages) : t \in Quoting(Empty, c)
      BY <1>2, <2>3 DEF ResearchFallbacks, Existing
    <3>2. c \in SUBSET Numbers
      BY <1>1, <3>1
    <3> QED BY <2>1, <3>1, <3>2, QuotingTypes
  <2> QED BY <2>2, <2>3
<1>3. ResearchText(text, pages) \in Text /\ ResearchText(text, pages).nums \subseteq 1..pages
  BY <1>1 DEF ResearchText, Existing, Text
<1> QED BY <1>1, <1>2, <1>3 DEF ReferenceList, Existing

\* The fields of a setting.
LEMMA SettingParts ==
  ASSUME AskType
  PROVE  /\ setting.replies \subseteq Decision /\ setting.plans \subseteq Plan /\ setting.texts \subseteq Text
         /\ \A t \in setting.texts : t.quoted = {}
         /\ setting.crashes \in Nat /\ ask \in Ask
<1>1. setting.texts \subseteq {Empty} \cup Written
  BY DEF AskType, Setting
<1>2. Empty \in Text /\ Empty.quoted = {}
  BY Starts DEF Empty
<1>3. setting.texts \subseteq Text /\ \A t \in setting.texts : t.quoted = {}
  BY <1>1, <1>2 DEF Written
<1> QED BY <1>3 DEF AskType, Setting

-----------------------------------------------------------------------------
(* Nodes.                                                                  *)

\* The order of the nodes of a plan.
LEMMA NodeOrder ==
  ASSUME NEW domain \in Workflows
  PROVE  /\ NodesOf(domain) \in Seq(Nodes) /\ Len(NodesOf(domain)) \in Nat
         /\ \A i \in 1..Len(NodesOf(domain)) :
              \A m \in Before(domain, NodesOf(domain)[i]) : \E j \in 1..(i - 1) : NodesOf(domain)[j] = m
<1>1. CASE domain = "documents"
  <2>1. NodesOf(domain) = <<"read", "compose">>
    BY <1>1 DEF NodesOf
  <2>2. \A i \in 1..2 : i = 1 \/ i = 2
    OBVIOUS
  <2>3. ASSUME NEW i \in 1..2, NEW m \in Before(domain, NodesOf(domain)[i])
        PROVE  \E j \in 1..(i - 1) : NodesOf(domain)[j] = m
    <3>1. i = 2 /\ m = "read"
      BY <2>1, <2>2, <2>3 DEF Before
    <3> QED BY <2>1, <3>1
  <2> QED BY <2>1, <2>3 DEF Nodes
<1>2. CASE domain = "email"
  <2>1. NodesOf(domain) = <<"read", "compose", "commit">>
    BY <1>2 DEF NodesOf
  <2>2. \A i \in 1..3 : i = 1 \/ i = 2 \/ i = 3
    OBVIOUS
  <2>3. ASSUME NEW i \in 1..3, NEW m \in Before(domain, NodesOf(domain)[i])
        PROVE  \E j \in 1..(i - 1) : NodesOf(domain)[j] = m
    <3>1. (i = 2 /\ m = "read") \/ (i = 3 /\ m \in {"read", "compose"})
      BY <1>2, <2>1, <2>2, <2>3 DEF Before
    <3>2. NodesOf(domain)[1] = "read" /\ NodesOf(domain)[2] = "compose"
      BY <2>1
    <3>3. ASSUME i = 3
          PROVE  1 \in 1..(i - 1) /\ 2 \in 1..(i - 1)
      BY <3>3
    <3> QED BY <3>1, <3>2, <3>3
  <2> QED BY <2>1, <2>3 DEF Nodes
<1>3. CASE domain \in {"web_file", "report"}
  <2>1. NodesOf(domain) = <<"read", "commit">>
    BY <1>3 DEF NodesOf
  <2> QED BY <1>3, <2>1 DEF Nodes, Before
<1> QED BY <1>1, <1>2, <1>3 DEF Workflows

\* The next node of a plan has not succeeded, and those before it have.
LEMMA NextNodeFacts ==
  ASSUME NEW domain \in Workflows, NextNode(domain) # 0
  PROVE  LET node == NodesOf(domain)[NextNode(domain)]
         IN /\ node \in Nodes /\ task.node[node] # "success"
            /\ \A m \in Before(domain, node) : task.node[m] = "success"
<1> DEFINE open == {i \in 1..Len(NodesOf(domain)) : task.node[NodesOf(domain)[i]] # "success"}
           next == NextNode(domain)
<1>1. open # {} /\ next = Min(open)
  BY DEF NextNode, SelectInSeq
<1>2. \E m \in open : \A n \in open : m <= n
  <2>1. open \subseteq 1..3
    <3>1. Len(NodesOf(domain)) \in 0..3
      BY DEF NodesOf
    <3> QED BY <3>1
  <2> QED BY <1>1, <2>1
<1>3. next \in open /\ \A n \in open : next <= n
  BY <1>1, <1>2 DEF Min
<1>4. NodesOf(domain)[next] \in Nodes
  BY <1>3, NodeOrder, ElementOfSeq
<1>5. ASSUME NEW m \in Before(domain, NodesOf(domain)[next])
      PROVE  task.node[m] = "success"
  <2>1. PICK j \in 1..(next - 1) : NodesOf(domain)[j] = m
    BY <1>3, NodeOrder
  <2>2. j \in 1..Len(NodesOf(domain)) /\ j < next
    BY <1>3, <2>1, NodeOrder
  <2>3. j \notin open
    BY <1>3, <2>2
  <2> QED BY <2>1, <2>2, <2>3
<1> QED BY <1>3, <1>4, <1>5

\* What a node can produce is made from the nodes before it.
LEMMA ProducedMade ==
  ASSUME TaskType, NodesOK, NEW domain \in Workflows, NEW node \in Nodes,
         \A m \in Before(domain, node) : task.node[m] = "success",
         NEW content \in Produced(domain, node)
  PROVE  Made(node, content)
<1>1. "read" \in Nodes /\ "compose" \in Nodes
  BY DEF Nodes
<1>2. node # "read" => task.out["read"] \in Drawn
  BY <1>1 DEF NodesOK, Made, MadeFrom, Before
<1>3. CASE node = "read"
  BY <1>3 DEF Produced, Made, MadeFrom
<1>4. CASE node # "read" /\ (node = "compose" \/ domain = "report")
  <2>1. PICK v \in Values, w \in Values : task.out["read"] = <<v>> /\ content = Append(<<v>>, w)
    BY <1>2, <1>4 DEF Produced, Drawn
  <2>2. content = <<v, w>>
    BY <2>1, Contents
  <2> QED BY <1>4, <2>1, <2>2, Contents DEF Made, MadeFrom, FromSource
<1>5. CASE node # "read" /\ node # "compose" /\ domain = "email"
  <2>1. content = task.out["compose"] /\ task.node["compose"] = "success"
    BY <1>5 DEF Produced, Before
  <2>2. PICK v \in Values, w \in Values : content = <<v, w>> /\ task.out["read"] = <<v>>
    BY <1>1, <2>1 DEF NodesOK, Made, MadeFrom
  <2> QED BY <1>5, <2>2, Contents DEF Made, MadeFrom, FromSource
<1>6. CASE node # "read" /\ node # "compose" /\ domain # "email" /\ domain # "report"
  <2>1. content = task.out["read"]
    BY <1>6 DEF Produced
  <2>2. PICK v \in Values : content = <<v>>
    BY <1>2, <1>6, <2>1 DEF Drawn
  <2> QED BY <1>6, <2>1, <2>2, Contents DEF Made, MadeFrom, FromSource
<1> QED BY <1>3, <1>4, <1>5, <1>6

\* What a node makes is a content.
LEMMA MadeType ==
  ASSUME NEW node \in Nodes, NEW content, Made(node, content)
  PROVE  content \in Content
BY Contents DEF Made, MadeFrom


-----------------------------------------------------------------------------
(* From the question to the answer without a plan.                         *)

Early == RoutingStages \cup EvidenceStages \cup {"act", "bind", "retrieve", "research"}

\* What is stored stays in order while a turn works for a task of its own.
LEMMA StoredKept ==
  ASSUME Inv, UNCHANGED <<task, record>>, task.handler = "answer", turn'.stage \notin PlanStages
  PROVE  NodesOK' /\ CommitOK'
<1>1. NodesOK'
  BY DEF Inv, NodesOK, Made, PlanStages
<1>2. CommitOK'
  BY DEF Inv, CommitOK, Asked, PlanStages
<1> QED BY <1>1, <1>2

\* A turn that has not bound its task leaves it so.
LEMMA BoundKept ==
  ASSUME Inv, UNCHANGED task, task.handler = "answer", turn'.stage \notin PlanStages \cup {"repair"},
         turn'.stage = "bind" => turn'.handler \in Workflows
  PROVE  BoundOK'
BY DEF Inv, BoundOK

\* What is owed stays accounted for with the handler.
LEMMA OwedKept ==
  ASSUME Inv, UNCHANGED <<task, record>>, turn.stage \notin {"start"} \cup RoutingStages,
         turn'.stage \notin RoutingStages, turn'.handler = turn.handler
  PROVE  OwedOK'
BY DEF Inv, OwedOK, RoutingStages, Accounted

\* The steps of the routing choose a decision and a plan.
LEMMA RoutingMoves ==
  ASSUME TypeOK, BoundOK, Route \/ MakePlan \/ RepairPlan \/ SettlePlan
  PROVE  /\ TurnType' /\ turn.stage \in RoutingStages /\ turn'.stage \in RoutingStages
         /\ turn'.stage = "repair" => turn'.tries \in 1..3
         /\ UNCHANGED <<setting, ask, task, draft, record>>
         /\ turn'.stage = "dispatch" /\ turn'.decision.mode = "plan" =>
              \/ turn'.decision.required \subseteq turn'.plan.tools
              \/ turn'.plan.tools = turn'.decision.required \cap (Sources \cup Commits)
<1> USE TypeParts
<1>1. CASE Route
  <2>1. PICK d \in Decision : Decide(d)
    <3>1. Direct \in Decision /\ Fallback(ask) \in Decision
      BY Defaults, FallbackType, SettingParts
    <3>2. \A reply \in setting.replies : Corrected(ask, reply) \in Decision
      BY CorrectedType, SettingParts
    <3> QED BY <1>1, <3>1, <3>2 DEF Route
  <2> QED BY <1>1, <2>1, DecideMoves DEF Route, At, RoutingStages
<1>2. CASE MakePlan
  <2>1. PICK plan \in Plan : turn' = [turn EXCEPT !.plan = plan, !.tries = 1, !.stage = "repair"]
    BY <1>2, SettingParts DEF MakePlan
  <2>2. "repair" \in Stages /\ 1 \in 1..4
    BY DEF Stages
  <2>3. TurnType' /\ turn'.stage = "repair" /\ turn'.tries = 1
    BY <2>1, <2>2, PlanMoves
  <2>4. turn.stage = "plan" /\ UNCHANGED <<setting, ask, task, draft, record>>
    BY <1>2 DEF MakePlan, At
  <2> QED BY <2>3, <2>4 DEF RoutingStages
<1>3. CASE RepairPlan
  <2>1. PICK plan \in Plan : turn' = [turn EXCEPT !.plan = plan, !.tries = turn.tries + 1,
                                      !.stage = IF turn.tries = 3 THEN "settle" ELSE turn.stage]
    BY <1>3, SettingParts, TurnParts DEF RepairPlan
  <2>2. /\ turn.stage = "repair"
        /\ UNCHANGED <<setting, ask, task, draft, record>>
    BY <1>3 DEF RepairPlan, At
  <2>3. turn.tries \in 1..3 /\ turn.tries + 1 \in 1..4
    BY <2>2 DEF BoundOK
  <2> DEFINE s == IF turn.tries = 3 THEN "settle" ELSE turn.stage
             k == turn.tries + 1
  <2>4. s \in Stages /\ s \in {"settle", "repair"} /\ (s = "repair" => k \in 1..3)
    BY <2>2, <2>3 DEF Stages
  <2>5. TurnType' /\ turn'.stage = s /\ turn'.tries = k
    <3>1. turn' = [turn EXCEPT !.plan = plan, !.tries = k, !.stage = s] /\ k \in 1..4
      BY <2>1, <2>3
    <3> HIDE DEF s, k
    <3> QED BY <2>4, <3>1, PlanMoves
  <2> HIDE DEF s, k
  <2> QED BY <2>2, <2>4, <2>5 DEF RoutingStages
<1>4. CASE SettlePlan
  <2> DEFINE plan == Settled(ask, turn.decision, turn.plan)
  <2>1. turn' = [turn EXCEPT !.plan = plan, !.tries = 1, !.stage = "dispatch"]
    BY <1>4 DEF SettlePlan
  <2>2. /\ plan \in Plan
        /\ turn.decision.required \subseteq plan.tools
           \/ plan.tools = turn.decision.required \cap (Sources \cup Commits)
    BY SettledPlan, SettingParts, TurnParts
  <2> HIDE DEF plan
  <2>3. "dispatch" \in Stages /\ 1 \in 1..4
    BY DEF Stages
  <2>4. TurnType' /\ turn'.stage = "dispatch" /\ turn'.plan = plan /\ turn'.decision = turn.decision
    BY <2>1, <2>2, <2>3, PlanMoves
  <2> QED BY <1>4, <2>2, <2>4 DEF SettlePlan, At, RoutingStages
<1> QED BY <1>1, <1>2, <1>3, <1>4

\* The routing leaves everything that is stored as it is.
LEMMA RoutingStep ==
  ASSUME Inv, Route \/ MakePlan \/ RepairPlan \/ SettlePlan
  PROVE  Inv'
<1>0. TypeOK /\ BoundOK
  BY DEF Inv
<1>1. /\ TurnType' /\ turn.stage \in RoutingStages /\ turn'.stage \in RoutingStages
      /\ turn'.stage = "repair" => turn'.tries \in 1..3
      /\ UNCHANGED <<setting, ask, task, draft, record>>
      /\ turn'.stage = "dispatch" /\ turn'.decision.mode = "plan" =>
           \/ turn'.decision.required \subseteq turn'.plan.tools
           \/ turn'.plan.tools = turn'.decision.required \cap (Sources \cup Commits)
  BY <1>0, RoutingMoves
<1>2. task.handler = "answer"
  BY <1>0, <1>1 DEF BoundOK, RoutingStages
<1>3. turn'.stage \notin PlanStages \cup EvidenceStages \cup {"act", "bind", "retrieve", "research", "request",
       "say"}
  BY <1>1 DEF RoutingStages, PlanStages, EvidenceStages
<1>4. TypeOK'
  BY <1>0, <1>1 DEF TypeOK, TurnType
<1>5. BoundOK'
  BY <1>0, <1>1, <1>2, <1>3 DEF BoundOK
<1>6. DraftOK'
  BY <1>1, <1>3 DEF Inv, DraftOK, Grounded, RoutingStages
<1>7. NodesOK' /\ CommitOK'
  BY <1>1, <1>2, <1>3, StoredKept
<1>8. OwedOK'
  BY <1>1, <1>2 DEF Inv, OwedOK
<1> QED BY <1>4, <1>5, <1>6, <1>7, <1>8 DEF Inv

\* The answers without a plan and without evidence.
LEMMA SimpleMoves ==
  ASSUME TurnType, AnswerDirectly \/ ReadDocument \/ WriteFile \/ CallTool \/ SearchWeb
  PROVE  /\ TurnType' /\ turn.stage = "act" /\ turn'.stage \in {"request", "research"}
         /\ turn'.handler = turn.handler /\ (turn'.stage = "research" => turn.handler = "web")
         /\ UNCHANGED <<setting, ask, task, draft, record>>
<1>1. turn.stage = "act" /\ UNCHANGED <<setting, ask, task, draft, record>>
  BY DEF AnswerDirectly, ReadDocument, WriteFile, CallTool, SearchWeb, Simple, KeepRest, At
<1>2. \/ \E o \in {"done", "failed", "note"} : End(o)
      \/ \E v \in Drawn : turn' = [turn EXCEPT !.stage = "request", !.outcome = "pending", !.content = v]
      \/ turn.handler = "web" /\ Goto("research")
  BY DEF AnswerDirectly, ReadDocument, WriteFile, CallTool, SearchWeb, Simple
<1>3. ASSUME NEW o \in {"done", "failed", "note"}, End(o)
      PROVE  TurnType' /\ turn'.stage = "request" /\ turn'.handler = turn.handler
  <2>1. o \in Outcomes
    BY DEF Outcomes
  <2> QED BY <1>3, <2>1, EndMoves
<1>4. ASSUME NEW v \in Drawn, turn' = [turn EXCEPT !.stage = "request", !.outcome = "pending", !.content = v]
      PROVE  TurnType' /\ turn'.stage = "request" /\ turn'.handler = turn.handler
  <2>1. v \in Content
    BY Contents
  <2> QED BY <1>4, <2>1, PendingMoves
<1>5. ASSUME turn.handler = "web", Goto("research")
      PROVE  TurnType' /\ turn'.stage = "research" /\ turn'.handler = turn.handler
  <2>1. "research" \in Stages
    BY DEF Stages
  <2> QED BY <1>5, <2>1, GotoMoves
<1> QED BY <1>1, <1>2, <1>3, <1>4, <1>5

\* An answer without a plan and without evidence disturbs nothing that is stored.
LEMMA SimpleStep ==
  ASSUME Inv, AnswerDirectly \/ ReadDocument \/ WriteFile \/ CallTool \/ SearchWeb
  PROVE  Inv'
<1>0. TypeOK /\ TurnType /\ BoundOK
  BY TypeParts DEF Inv
<1>1. /\ TurnType' /\ turn.stage = "act" /\ turn'.stage \in {"request", "research"}
      /\ turn'.handler = turn.handler /\ (turn'.stage = "research" => turn.handler = "web")
      /\ UNCHANGED <<setting, ask, task, draft, record>>
  BY <1>0, SimpleMoves
<1>2. task.handler = "answer" /\ draft.text.empty
  BY <1>1 DEF Inv, BoundOK, DraftOK
<1>3. turn'.stage \notin PlanStages \cup RoutingStages \cup EvidenceStages \cup {"bind", "repair", "retrieve"}
  BY <1>1 DEF RoutingStages, PlanStages, EvidenceStages
<1>4. TypeOK'
  BY <1>0, <1>1 DEF TypeOK, TurnType
<1>5. BoundOK'
  BY <1>1, <1>2, <1>3, BoundKept
<1>6. DraftOK'
  BY <1>1, <1>2, <1>3 DEF DraftOK, Grounded
<1>7. NodesOK' /\ CommitOK'
  BY <1>1, <1>2, <1>3, StoredKept
<1>8. turn.stage \notin {"start"} \cup RoutingStages
  BY <1>1 DEF RoutingStages
<1>9. OwedOK'
  BY <1>1, <1>3, <1>8, OwedKept
<1> QED BY <1>4, <1>5, <1>6, <1>7, <1>9 DEF Inv

-----------------------------------------------------------------------------
(* Answers from evidence.                                                  *)

\* What a step writes into a draft.
LEMMA DraftMoves ==
  ASSUME DraftType
  PROVE  /\ \A text \in Text, m \in BOOLEAN : draft' = [draft EXCEPT !.text = text, !.model = m] =>
              DraftType' /\ draft'.text = text /\ draft'.n = draft.n /\ draft'.model = m
         /\ \A text \in Text : draft' = [draft EXCEPT !.text = text] =>
              DraftType' /\ draft'.text = text /\ draft'.n = draft.n
         /\ \A s \in SUBSET Numbers : draft' = [draft EXCEPT !.sources = s] =>
              /\ DraftType' /\ draft'.sources = s /\ draft'.text = draft.text /\ draft'.n = draft.n
              /\ draft'.model = draft.model
BY DEF DraftType, DraftState

\* The fields of a draft.
LEMMA DraftParts ==
  ASSUME DraftType
  PROVE  draft.n \in Numbers /\ draft.text \in Text /\ draft.sources \in SUBSET Numbers
BY DEF DraftType, DraftState

\* A valid text is grounded.
LEMMA ValidIsChecked ==
  ASSUME NEW text, NEW n, Valid(text, n)
  PROVE  Checked(text, n)
BY DEF Valid, Checked, Existing

\* The fallback is grounded.
LEMMA FallBackMoves ==
  ASSUME DraftType, draft.n \in 1..MaxEvidence, FallBack
  PROVE  DraftType' /\ Checked(draft'.text, draft'.n) /\ draft'.n = draft.n /\ OwnWords'
<1>1. PICK text \in FallbackTexts(draft.n) : draft' = [draft EXCEPT !.text = text, !.model = FALSE]
  BY DEF FallBack
<1>2. draft.n \in 0..MaxEvidence /\ draft.n > 0
  BY NumberAssumption
<1>3. text \in Text /\ Checked(text, draft.n)
  BY <1>2, DraftParts, TextTypes
<1>4. DraftType' /\ draft'.text = text /\ draft'.n = draft.n /\ draft'.model = FALSE
  BY <1>1, <1>3, DraftMoves
<1> QED BY <1>3, <1>4 DEF OwnWords

\* A step that goes on, or that ends with a grounded answer.
ToEvidence(s) ==
  /\ s \in EvidenceStages \cup {"request"} /\ turn'.stage = s
  /\ TurnType' /\ DraftType' /\ turn'.handler = turn.handler /\ UNCHANGED <<setting, ask, task, record>>
  /\ s \in EvidenceStages => turn.handler = "rag" /\ draft'.n \in 1..MaxEvidence
  /\ s \in {"support", "cite"} => Checked(draft'.text, draft'.n) /\ OwnWords'
  /\ s = "request" => draft'.text.empty \/ Grounded'

\* The names of the stages.
LEMMA StageNames ==
  EvidenceStages \cup RoutingStages \cup PlanStages \cup {"start", "act", "bind", "retrieve", "research",
     "request", "say", "remember", "done"} \subseteq Stages
BY DEF EvidenceStages, RoutingStages, PlanStages, Stages

\* The passages of a document that are shown at once.
LEMMA RetrieveMoves ==
  ASSUME TypeOK, DraftOK, Retrieve
  PROVE  turn.stage = "retrieve" /\ \E s \in Stages : ToEvidence(s)
<1>1. turn.stage = "retrieve" /\ turn.handler = "rag" /\ draft.text.empty
  BY DEF Retrieve, At, DraftOK
<1>2. TurnType /\ DraftType /\ UNCHANGED <<setting, ask, task, record>>
  BY TypeParts DEF Retrieve
<1>3. ASSUME End("note"), UNCHANGED draft
      PROVE  ToEvidence("request")
  <2>1. "note" \in Outcomes
    BY DEF Outcomes
  <2>2. TurnType' /\ turn'.stage = "request" /\ turn'.handler = turn.handler
    BY <1>2, <1>3, <2>1, EndMoves
  <2> QED BY <1>1, <1>2, <1>3, <2>2 DEF ToEvidence, DraftType, EvidenceStages
<1>4. ASSUME NEW n \in 1..MaxEvidence, NEW text \in Text, draft' = [NoDraft EXCEPT !.n = n, !.text = text]
      PROVE  DraftType' /\ draft'.n = n /\ draft'.text = text /\ OwnWords'
  <2>1. n \in Numbers
    BY NumberAssumption DEF Numbers
  <2>2. DraftType' /\ draft'.n = n /\ draft'.text = text
    BY <1>4, <2>1, Starts DEF DraftType, DraftState
  <2>3. ~draft'.model
    BY <1>4 DEF NoDraft
  <2> QED BY <2>2, <2>3 DEF OwnWords
<1>5. ASSUME NEW n \in 1..MaxEvidence, draft' = [NoDraft EXCEPT !.n = n], Goto("generate")
      PROVE  ToEvidence("generate")
  <2>1. n \in Numbers
    BY NumberAssumption DEF Numbers
  <2>2. DraftType' /\ draft'.n = n
    BY <1>5, <2>1, Starts DEF DraftType, DraftState
  <2>3. "generate" \in Stages
    BY DEF Stages
  <2>4. TurnType' /\ turn'.stage = "generate" /\ turn'.handler = turn.handler
    BY <1>2, <1>5, <2>3, GotoMoves
  <2> QED BY <1>1, <1>2, <2>2, <2>4 DEF ToEvidence, EvidenceStages
<1>6. ASSUME NEW n \in 1..MaxEvidence, Goto("cite"),
             draft' = [NoDraft EXCEPT !.n = n, !.text = [Empty EXCEPT !.nums = {1}, !.empty = FALSE]]
      PROVE  ToEvidence("cite")
  <2>1. PICK text : text = [Empty EXCEPT !.nums = {1}, !.empty = FALSE]
    OBVIOUS
  <2>2. {1} \in SUBSET Numbers /\ {1} \subseteq 1..n
    BY NumberAssumption DEF Numbers
  <2>3. text = [nums |-> {1}, quoted |-> {}, bare |-> FALSE, memory |-> FALSE, empty |-> FALSE]
    BY <2>1 DEF Empty
  <2>4. text \in Text /\ text.nums = {1} /\ ~text.bare /\ ~text.memory
    BY <2>2, <2>3 DEF Text
  <2>5. draft' = [NoDraft EXCEPT !.n = n, !.text = text]
    BY <1>6, <2>1
  <2>6. DraftType' /\ draft'.n = n /\ draft'.text = text /\ OwnWords'
    BY <1>4, <2>4, <2>5
  <2>7. Checked(draft'.text, draft'.n)
    BY <2>2, <2>4, <2>6 DEF Checked
  <2>8. "cite" \in Stages
    BY DEF Stages
  <2>9. TurnType' /\ turn'.stage = "cite" /\ turn'.handler = turn.handler
    BY <1>2, <1>6, <2>8, GotoMoves
  <2> QED BY <1>1, <1>2, <2>6, <2>7, <2>9 DEF ToEvidence, EvidenceStages
<1>7. {"request", "generate", "cite"} \subseteq Stages
  BY DEF Stages
<1>8. \/ End("note") /\ UNCHANGED draft
      \/ \E n \in 1..MaxEvidence :
           \/ draft' = [NoDraft EXCEPT !.n = n] /\ Goto("generate")
           \/ draft' = [NoDraft EXCEPT !.n = n, !.text = [Empty EXCEPT !.nums = {1}, !.empty = FALSE]]
              /\ Goto("cite")
  BY DEF Retrieve
<1> QED BY <1>1, <1>3, <1>5, <1>6, <1>7, <1>8

\* A text of the model: checked, or replaced by the passages.
LEMMA ModelMoves ==
  ASSUME TypeOK, DraftOK, Generate \/ Revise \/ Support \/ Cite
  PROVE  turn.stage \in EvidenceStages /\ \E s \in Stages : ToEvidence(s)
<1>1. turn.stage \in {"generate", "revise", "support", "cite"} /\ UNCHANGED <<setting, ask, task, record>>
  BY DEF Generate, Revise, Support, Cite, At
<1>2. turn.stage \in EvidenceStages /\ turn.handler = "rag" /\ draft.n \in 1..MaxEvidence
  BY <1>1 DEF DraftOK, EvidenceStages
<1>3. /\ TurnType /\ DraftType /\ {"support", "revise", "cite"} \subseteq Stages
      /\ setting.texts \subseteq Text /\ \A t \in setting.texts : t.quoted = {}
  BY TypeParts, SettingParts DEF Stages
<1>4. ASSUME FallBack, Goto("cite")
      PROVE  ToEvidence("cite")
  <2>1. DraftType' /\ Checked(draft'.text, draft'.n) /\ draft'.n = draft.n /\ OwnWords'
    BY <1>2, <1>3, <1>4, FallBackMoves
  <2>2. TurnType' /\ turn'.stage = "cite" /\ turn'.handler = turn.handler
    BY <1>3, <1>4, GotoMoves
  <2> QED BY <1>1, <1>2, <2>1, <2>2 DEF ToEvidence, EvidenceStages
<1>5. ASSUME NEW s \in {"support", "revise"}, NEW text \in Text, Goto(s), text.quoted = {},
             DraftType', draft'.text = text, draft'.n = draft.n, s = "support" => Valid(text, draft.n)
      PROVE  ToEvidence(s)
  <2>1. TurnType' /\ turn'.stage = s /\ turn'.handler = turn.handler
    BY <1>3, <1>5, GotoMoves
  <2>2. (s = "support" => Checked(draft'.text, draft'.n)) /\ OwnWords'
    BY <1>5, ValidIsChecked DEF OwnWords
  <2> QED BY <1>1, <1>2, <1>5, <2>1, <2>2 DEF ToEvidence, EvidenceStages
<1>6. CASE Generate
  <2>1. PICK text \in Text :
          /\ text.quoted = {}
          /\ IF text.empty THEN FallBack /\ Goto("cite")
             ELSE /\ draft' = [draft EXCEPT !.text = text, !.model = TRUE]
                  /\ Goto(IF Valid(text, draft.n) THEN "support" ELSE "revise")
    BY <1>3, <1>6 DEF Generate
  <2>2. CASE text.empty
    BY <1>2, <1>3, <1>4, <2>1, <2>2
  <2>3. CASE ~text.empty
    <3>1. DraftType' /\ draft'.text = text /\ draft'.n = draft.n
      BY <1>3, <2>1, <2>3, DraftMoves
    <3>2. PICK s \in {"support", "revise"} : Goto(s) /\ (s = "support" => Valid(text, draft.n))
      BY <2>1, <2>3
    <3>3. ToEvidence(s)
      BY <1>5, <2>1, <3>1, <3>2
    <3> QED BY <1>2, <1>3, <3>3, StageNames
  <2> QED BY <1>2, <2>2, <2>3
<1>7. CASE Revise
  <2>1. PICK text \in Text :
          /\ text.quoted = {}
          /\ IF Accepts(text, draft.n)
             THEN draft' = [draft EXCEPT !.text = text] /\ Goto("support")
             ELSE FallBack /\ Goto("cite")
    BY <1>3, <1>7 DEF Revise
  <2>2. CASE Accepts(text, draft.n)
    <3>1. DraftType' /\ draft'.text = text /\ draft'.n = draft.n
      BY <1>3, <2>1, <2>2, DraftMoves
    <3>2. ToEvidence("support")
      BY <1>5, <2>1, <2>2, <3>1 DEF Accepts
    <3> QED BY <1>2, <1>3, <3>2
  <2>3. CASE ~Accepts(text, draft.n)
    BY <1>2, <1>3, <1>4, <2>1, <2>3
  <2> QED BY <1>2, <2>2, <2>3
<1>8. CASE Support
  <2>1. Checked(draft.text, draft.n) /\ OwnWords /\ Goto("cite") /\ (FallBack \/ UNCHANGED draft)
    BY <1>8 DEF Support, DraftOK, At
  <2>2. CASE FallBack
    BY <1>2, <1>3, <1>4, <2>1, <2>2
  <2>3. CASE UNCHANGED draft
    <3>1. TurnType' /\ turn'.stage = "cite" /\ turn'.handler = turn.handler
      BY <1>3, <2>1, GotoMoves
    <3>2. ToEvidence("cite")
      BY <1>1, <1>2, <1>3, <2>1, <2>3, <3>1 DEF ToEvidence, EvidenceStages, DraftType, OwnWords
    <3> QED BY <1>2, <1>3, <3>2
  <2> QED BY <2>1, <2>2, <2>3
<1>9. CASE Cite
  <2>1. /\ Checked(draft.text, draft.n) /\ OwnWords /\ End("done")
        /\ draft' = [draft EXCEPT !.sources = SourceList(draft.text, draft.n)]
    BY <1>9 DEF Cite, DraftOK, At
  <2>2. SourceList(draft.text, draft.n) \in SUBSET Numbers
    BY <1>2, <1>3, DraftParts, TextTypes, NumberAssumption
  <2>3. /\ draft.text.nums \subseteq SourceList(draft.text, draft.n)
        /\ SourceList(draft.text, draft.n) \subseteq 1..draft.n
        /\ draft.model => SourceList(draft.text, draft.n) = draft.text.nums
    BY <1>2, <1>3, <2>1, DraftParts, TextTypes, NumberAssumption DEF Checked, OwnWords
  <2>4. /\ DraftType' /\ draft'.text = draft.text /\ draft'.n = draft.n /\ draft'.model = draft.model
        /\ draft'.sources = SourceList(draft.text, draft.n)
    BY <1>3, <2>1, <2>2, DraftMoves
  <2>5. TurnType' /\ turn'.stage = "request" /\ turn'.handler = turn.handler
    <3>1. "done" \in Outcomes
      BY DEF Outcomes
    <3> QED BY <1>3, <2>1, <3>1, EndMoves
  <2>6. Grounded'
    BY <2>1, <2>3, <2>4, <2>5 DEF Grounded, Checked, OwnWords
  <2>7. ToEvidence("request")
    BY <1>1, <2>4, <2>5, <2>6 DEF ToEvidence, EvidenceStages
  <2> QED BY <1>2, <2>7, StageNames
<1> QED BY <1>6, <1>7, <1>8, <1>9

\* A research ends with a report that lists every page.
LEMMA ResearchMoves ==
  ASSUME TypeOK, DraftOK, Research
  PROVE  turn.stage = "research" /\ \E s \in Stages : ToEvidence(s)
<1>1. /\ turn.stage = "research" /\ turn.handler = "web" /\ End("done")
      /\ UNCHANGED <<setting, ask, task, record>>
  BY DEF Research, At, DraftOK
<1>2. PICK found \in 0..1, n \in 0..MaxEvidence : \E p \in PageCounts(found, n) : \E t \in setting.texts :
        \E u \in IF t.empty THEN ResearchFallbacks(p, n) ELSE {ResearchText(t, p)} :
          draft' = [n |-> p, text |-> u, model |-> ~t.empty, sources |-> ReferenceList(p)]
  BY DEF Research
<1>3. PICK pages \in PageCounts(found, n), text \in Text :
        \E u \in IF text.empty THEN ResearchFallbacks(pages, n) ELSE {ResearchText(text, pages)} :
          draft' = [n |-> pages, text |-> u, model |-> ~text.empty, sources |-> ReferenceList(pages)]
  BY <1>2, TypeParts, SettingParts
<1>4. PICK shown \in ResearchFallbacks(pages, n) \cup {ResearchText(text, pages)} :
        draft' = [n |-> pages, text |-> shown, model |-> ~text.empty, sources |-> ReferenceList(pages)]
  BY <1>3
<1>5. /\ pages \in Numbers /\ ReferenceList(pages) = 1..pages /\ ReferenceList(pages) \subseteq Numbers
      /\ shown \in Text /\ shown.nums \subseteq 1..pages
  BY <1>3, <1>4, ResearchTypes
<1>6. (~text.empty) \in BOOLEAN
  OBVIOUS
<1>7. DraftType' /\ draft'.text = shown /\ draft'.n = pages /\ draft'.sources = 1..pages
  BY <1>4, <1>5, <1>6 DEF DraftType, DraftState
<1>8. TurnType' /\ turn'.stage = "request" /\ turn'.handler = "web"
  <2>1. "done" \in Outcomes /\ TurnType
    BY TypeParts DEF Outcomes
  <2> QED BY <1>1, <2>1, EndMoves
<1>9. Grounded'
  BY <1>5, <1>7, <1>8 DEF Grounded
<1>10. ToEvidence("request")
  BY <1>1, <1>7, <1>8, <1>9 DEF ToEvidence, EvidenceStages
<1> QED BY <1>1, <1>10, StageNames

\* An answer from evidence is grounded when it is shown.
LEMMA EvidenceStep ==
  ASSUME Inv, Research \/ Retrieve \/ Generate \/ Revise \/ Support \/ Cite
  PROVE  Inv'
<1>0. TypeOK /\ BoundOK /\ DraftOK
  BY DEF Inv
<1>1. PICK s \in Stages : ToEvidence(s)
  BY <1>0, ResearchMoves, RetrieveMoves, ModelMoves
<1>2. turn.stage \in EvidenceStages \cup {"research", "retrieve"}
  BY <1>0, ResearchMoves, RetrieveMoves, ModelMoves
<1>3. /\ TurnType' /\ DraftType' /\ turn'.stage = s /\ turn'.handler = turn.handler
      /\ UNCHANGED <<setting, ask, task, record>> /\ s \in EvidenceStages \cup {"request"}
  BY <1>1 DEF ToEvidence
<1>4. task.handler = "answer"
  BY <1>0, <1>2 DEF BoundOK
<1>5. turn'.stage \notin PlanStages \cup RoutingStages \cup {"bind", "repair", "start", "act", "retrieve",
       "research", "say"}
  BY <1>3 DEF RoutingStages, PlanStages, EvidenceStages
<1>6. TypeOK'
  BY <1>0, <1>3 DEF TypeOK, TurnType, DraftType
<1>7. BoundOK'
  BY <1>3, <1>4, <1>5, BoundKept
<1>8. DraftOK'
  BY <1>1, <1>3, <1>5 DEF DraftOK, ToEvidence, EvidenceStages, PlanStages
<1>9. NodesOK' /\ CommitOK'
  BY <1>3, <1>4, <1>5, StoredKept
<1>10. turn.stage \notin {"start"} \cup RoutingStages
  BY <1>2 DEF RoutingStages, EvidenceStages
<1>11. OwedOK'
  BY <1>3, <1>5, <1>10, OwedKept
<1> QED BY <1>6, <1>7, <1>8, <1>9, <1>11 DEF Inv

-----------------------------------------------------------------------------
(* The task that is taken up, dispatched and bound.                        *)

\* The task is taken up where it is bound to.
LEMMA BeginStep ==
  ASSUME Inv, Begin
  PROVE  Inv'
<1>1. TypeOK /\ TurnType /\ RecordType /\ turn.stage = "start" /\ UNCHANGED <<setting, ask, task, draft>>
  BY TypeParts DEF Inv, Begin, At
<1>2. draft.text.empty
  BY <1>1 DEF Inv, DraftOK
<1>3. CASE task.handler = "answer"
  <2>1. Goto("route") /\ record' = [record EXCEPT !.questions = record.questions + 1]
    BY <1>3 DEF Begin
  <2>2. /\ RecordType' /\ record'.owed = record.owed /\ record'.target = record.target /\ record'.mixed = record.mixed
        /\ record'.requests = record.requests /\ record'.answers = record.answers
        /\ record'.written = record.written
    BY <1>1, <2>1 DEF RecordType, RecordState
  <2>3. TurnType' /\ turn'.stage = "route"
    BY <1>1, <2>1, GotoMoves, StageNames DEF RoutingStages
  <2>4. TypeOK'
    BY <1>1, <2>2, <2>3 DEF TypeOK, TurnType, RecordType
  <2>5. BoundOK'
    BY <1>1, <1>3, <2>3 DEF BoundOK, PlanStages
  <2>6. DraftOK'
    BY <1>1, <1>2, <2>3 DEF DraftOK, EvidenceStages
  <2>7. NodesOK'
    BY <1>1, <2>3 DEF Inv, NodesOK, Made
  <2>8. CommitOK'
    BY <1>1, <1>3, <2>2, <2>3 DEF Inv, CommitOK, Asked
  <2>9. OwedOK'
    BY <1>1, <1>3, <2>3 DEF OwedOK, RoutingStages
  <2> QED BY <2>4, <2>5, <2>6, <2>7, <2>8, <2>9 DEF Inv
<1>4. CASE task.handler # "answer"
  <2>1. task.handler = "workflow" /\ task.domain \in Handlers
    BY <1>1, <1>4 DEF TypeOK, TaskState
  <2>2. turn' = [turn EXCEPT !.stage = "open", !.handler = task.domain] /\ UNCHANGED record
    BY <1>4 DEF Begin
  <2>3. TurnType' /\ turn'.stage = "open" /\ turn'.handler = task.domain
    BY <1>1, <2>1, <2>2, StageNames DEF TurnType, TurnState, PlanStages
  <2>4. TypeOK'
    BY <1>1, <2>2, <2>3 DEF TypeOK, TurnType
  <2>5. BoundOK'
    BY <1>1, <2>1, <2>3 DEF Inv, BoundOK, RoutingStages, EvidenceStages
  <2>6. DraftOK'
    BY <1>1, <1>2, <2>3 DEF DraftOK, EvidenceStages
  <2>7. NodesOK'
    BY <1>1, <2>3 DEF Inv, NodesOK, Made
  <2>8. CommitOK'
    BY <1>1, <2>2, <2>3 DEF Inv, CommitOK, Asked
  <2>9. OwedOK'
    BY <1>1, <2>1, <2>2, <2>3 DEF Inv, OwedOK, Accounted
  <2> QED BY <2>4, <2>5, <2>6, <2>7, <2>8, <2>9 DEF Inv
<1> QED BY <1>3, <1>4

\* The handler that the cascade picks gives what is owed, or says why not.
LEMMA DispatchStep ==
  ASSUME Inv, Dispatch
  PROVE  Inv'
<1>1. TypeOK /\ TurnType /\ RecordType /\ AskType /\ turn.stage = "dispatch" /\ UNCHANGED <<setting, ask, task,
       draft>>
  BY TypeParts DEF Inv, Dispatch, At
<1>2. draft.text.empty /\ task.handler = "answer"
  BY <1>1 DEF Inv, DraftOK, BoundOK, RoutingStages
<1> DEFINE handler == Handler(ask, turn.decision, turn.plan)
           owed == Owed(turn.decision)
           target == HasTarget(ask, turn.plan)
           mixed == IsMixed(turn.plan)
           next == [turn EXCEPT !.handler = handler, !.decision = Direct, !.plan = NoPlan]
<1>3. handler \in Handlers /\ owed \in SUBSET Tools /\ target \in BOOLEAN /\ mixed \in BOOLEAN
  <2>1. owed \in SUBSET Tools
    BY DEF Owed, Commits, Tools
  <2>2. target \in BOOLEAN
    BY <1>1 DEF HasTarget, AskType, Ask
  <2>3. mixed \in BOOLEAN
    BY DEF IsMixed, IsMail
  <2> QED BY <1>1, <2>1, <2>2, <2>3, TurnParts, HandlerType
<1>4. Accounted(owed, handler, target, mixed)
  <2>1. turn.decision.mode = "plan" =>
          \/ turn.decision.required \subseteq turn.plan.tools
          \/ turn.plan.tools = turn.decision.required \cap (Sources \cup Commits)
    BY <1>1 DEF Inv, OwedOK
  <2>2. turn.decision \in Decision /\ turn.plan \in Plan /\ ask \in Ask
    BY <1>1, TurnParts, SettingParts
  <2>3. Accounted(Owed(turn.decision), Handler(ask, turn.decision, turn.plan), HasTarget(ask, turn.plan),
                  IsMixed(turn.plan))
    BY <2>1, <2>2, CascadeAccounts
  <2> QED BY <2>3
<1>5. /\ turn' = IF handler = "note" \/ TargetTaken(handler)
                 THEN [next EXCEPT !.handler = "note", !.stage = "request", !.outcome = "note"]
                 ELSE [next EXCEPT !.stage = NextStage(handler),
                                   !.outcome = IF handler = "raise" THEN "failed" ELSE turn.outcome]
      /\ record' = [record EXCEPT !.owed = owed, !.target = target, !.mixed = mixed]
  BY DEF Dispatch
<1> HIDE DEF handler, owed, target, mixed
<1>6. /\ RecordType' /\ record'.owed = owed /\ record'.target = target /\ record'.mixed = mixed
      /\ record'.requests = record.requests /\ record'.answers = record.answers
      /\ record'.written = record.written
  BY <1>1, <1>3, <1>5 DEF RecordType, RecordState
<1>7. next \in TurnState /\ next.handler = handler /\ next.outcome = turn.outcome
  BY <1>1, <1>3, Defaults DEF TurnType, TurnState
<1> HIDE DEF next
<1>8. \/ TurnType' /\ turn'.stage = "request" /\ turn'.handler = "note"
      \/ TurnType' /\ turn'.stage = NextStage(handler) /\ turn'.handler = handler
  <2>1. /\ NextStage(handler) \in Stages /\ "request" \in Stages /\ "note" \in Handlers
        /\ {"note", "failed"} \subseteq Outcomes
    BY DEF NextStage, Stages, Handlers, Outcomes
  <2> DEFINE o == IF handler = "raise" THEN "failed" ELSE turn.outcome
  <2>2. o \in Outcomes
    BY <1>1, <2>1, TurnParts
  <2> HIDE DEF o
  <2>3. CASE handler = "note" \/ TargetTaken(handler)
    <3>1. turn' = [next EXCEPT !.handler = "note", !.stage = "request", !.outcome = "note"]
      BY <1>5, <2>3
    <3> QED BY <1>7, <2>1, <3>1 DEF TurnType, TurnState
  <2>4. CASE ~(handler = "note" \/ TargetTaken(handler))
    <3>1. turn' = [next EXCEPT !.stage = NextStage(handler), !.outcome = o]
      BY <1>5, <2>4 DEF o
    <3> QED BY <1>7, <2>1, <2>2, <3>1 DEF TurnType, TurnState
  <2> QED BY <2>3, <2>4
<1>9. /\ turn'.stage \in {"request", "bind", "retrieve", "act", "done"}
      /\ turn'.stage = "bind" => turn'.handler \in Workflows
      /\ turn'.stage = "retrieve" => turn'.handler = "rag"
      /\ TurnType' /\ (turn'.handler = "note" \/ turn'.handler = handler)
  BY <1>8 DEF NextStage
<1>10. TypeOK'
  BY <1>1, <1>6, <1>9 DEF TypeOK, TurnType, RecordType
<1>11. BoundOK'
  BY <1>1, <1>2, <1>9 DEF BoundOK, PlanStages
<1>12. DraftOK'
  BY <1>1, <1>2, <1>9 DEF DraftOK, EvidenceStages
<1>13. NodesOK'
  BY <1>1, <1>9 DEF Inv, NodesOK, Made
<1>14. CommitOK'
  BY <1>1, <1>2, <1>6, <1>9 DEF Inv, CommitOK, Asked
<1>15. OwedOK'
  BY <1>1, <1>2, <1>4, <1>6, <1>9 DEF OwedOK, Accounted
<1> QED BY <1>10, <1>11, <1>12, <1>13, <1>14, <1>15 DEF Inv

\* The task is bound to the workflow that the dispatch has picked.
LEMMA BindStep ==
  ASSUME Inv, Bind
  PROVE  Inv'
<1>1. /\ TypeOK /\ TurnType /\ TaskType /\ turn.stage = "bind" /\ turn.handler \in Workflows
      /\ UNCHANGED <<setting, ask, draft, record>>
  BY TypeParts DEF Inv, Bind, At, BoundOK
<1>2. TurnType' /\ turn'.stage = "open" /\ turn'.handler = turn.handler
  BY <1>1, GotoMoves, StageNames DEF Bind, PlanStages
<1>3. /\ TaskType' /\ task'.handler = "workflow" /\ task'.domain = turn.handler
      /\ task'.saved = task.saved /\ task'.node = task.node /\ task'.out = task.out
  BY <1>1, TurnParts DEF Bind, TaskType, TaskState
<1>4. /\ draft.text.empty /\ task.handler = "answer"
      /\ Accounted(record.owed, turn.handler, record.target, record.mixed)
  BY <1>1 DEF Inv, DraftOK, BoundOK, OwedOK, RoutingStages
<1>5. TypeOK'
  BY <1>1, <1>2, <1>3 DEF TypeOK, TurnType, TaskType
<1>6. BoundOK'
  BY <1>1, <1>2, <1>3 DEF BoundOK, RoutingStages, EvidenceStages
<1>7. DraftOK'
  BY <1>1, <1>2, <1>4 DEF DraftOK, EvidenceStages
<1>8. NodesOK'
  BY <1>1, <1>2, <1>3 DEF Inv, NodesOK, Made
<1>9. CommitOK'
  BY <1>1, <1>2, <1>3 DEF Inv, CommitOK, Asked
<1>10. OwedOK'
  BY <1>1, <1>2, <1>3, <1>4 DEF OwedOK, Accounted
<1> QED BY <1>5, <1>6, <1>7, <1>8, <1>9, <1>10 DEF Inv

-----------------------------------------------------------------------------
(* A plan that is executed.                                                *)

\* What is stored stays in order while a workflow runs, if no node changes.
LEMMA WorkflowParts ==
  ASSUME Inv, turn.stage \in PlanStages
  PROVE  task.handler = "workflow" /\ turn.handler = task.domain /\ turn.handler \in Workflows
BY DEF Inv, BoundOK

\* Whatever a step of the plan does, the task stays bound and what is owed
\* stays accounted for.
LEMMA WorkflowKept ==
  ASSUME Inv, turn.stage \in PlanStages, turn'.stage \in PlanStages \cup {"request"},
         turn'.handler = turn.handler, task'.handler = task.handler, task'.domain = task.domain,
         record'.owed = record.owed, record'.target = record.target /\ record'.mixed = record.mixed
  PROVE  BoundOK' /\ OwedOK'
<1>1. task.handler = "workflow" /\ turn.handler = task.domain /\ turn.handler \in Workflows
  BY WorkflowParts
<1>2. turn'.stage \notin RoutingStages \cup EvidenceStages \cup {"act", "bind", "retrieve", "research",
       "repair", "start"}
  BY DEF PlanStages, RoutingStages, EvidenceStages
<1>3. BoundOK'
  BY <1>1, <1>2 DEF BoundOK
<1>4. OwedOK'
  BY <1>1, <1>2 DEF Inv, OwedOK, Accounted, RoutingStages
<1> QED BY <1>3, <1>4

\* A node that needs a human and was running when the worker died.
LEMMA OpenStep ==
  ASSUME Inv, Open
  PROVE  Inv'
<1>1. /\ TypeOK /\ TurnType /\ TaskType /\ turn.stage = "open" /\ turn.stage \in PlanStages
      /\ UNCHANGED <<setting, ask, draft, record>> /\ draft.text.empty
  BY TypeParts DEF Inv, Open, At, DraftOK, PlanStages
<1>2. /\ TaskType' /\ task'.saved = TRUE /\ task'.handler = task.handler /\ task'.domain = task.domain
      /\ task'.node = task.node /\ task'.out = task.out
  BY <1>1 DEF Open, TaskType, TaskState
<1>3. \/ End("recovery")
      \/ Goto("run") /\ (task.saved => task.node["commit"] # "running")
  BY DEF Open, Unsafe
<1>4. /\ TurnType' /\ turn'.stage \in {"request", "run"} /\ turn'.handler = turn.handler
      /\ turn'.stage = "request" => turn'.outcome = "recovery"
      /\ turn'.stage = "run" => task.node["commit"] # "running"
  <2>1. CASE End("recovery")
    <3>1. "recovery" \in Outcomes
      BY DEF Outcomes
    <3> QED BY <1>1, <2>1, <3>1, EndMoves
  <2>2. CASE Goto("run") /\ (task.saved => task.node["commit"] # "running")
    <3>1. task.node["commit"] # "planned" => task.saved
      BY DEF Inv, NodesOK, Nodes
    <3>2. TurnType' /\ turn'.stage = "run" /\ turn'.handler = turn.handler
      BY <1>1, <2>2, GotoMoves, StageNames DEF PlanStages
    <3> QED BY <2>2, <3>1, <3>2
  <2> QED BY <1>3, <2>1, <2>2
<1>5. TypeOK'
  BY <1>1, <1>2, <1>4 DEF TypeOK, TurnType, TaskType
<1>6. BoundOK' /\ OwedOK'
  BY <1>1, <1>2, <1>4, WorkflowKept DEF PlanStages
<1>7. DraftOK'
  BY <1>1, <1>4 DEF DraftOK, EvidenceStages
<1>8. NodesOK'
  BY <1>1, <1>2, <1>4 DEF Inv, NodesOK, Made
<1>9. CommitOK'
  BY <1>1, <1>2, <1>4 DEF Inv, CommitOK, Asked
<1> QED BY <1>5, <1>6, <1>7, <1>8, <1>9 DEF Inv

\* The next node is started once its predecessors have succeeded, and never
\* again when its result waits.
LEMMA RunStep ==
  ASSUME Inv, RunNode
  PROVE  Inv'
<1>1. /\ TypeOK /\ TurnType /\ TaskType /\ turn.stage = "run" /\ turn.stage \in PlanStages
      /\ UNCHANGED <<setting, ask, draft, record>> /\ draft.text.empty
  BY TypeParts DEF Inv, RunNode, At, DraftOK, PlanStages
<1>2. task.handler = "workflow" /\ turn.handler = task.domain /\ turn.handler \in Workflows
  BY <1>1, WorkflowParts
<1> DEFINE next == NextNode(turn.handler)
           node == NodesOf(turn.handler)[next]
<1>3. next # 0 => /\ node \in Nodes /\ task.node[node] # "success"
                  /\ \A m \in Before(turn.handler, node) : task.node[m] = "success"
  BY <1>2, NextNodeFacts
<1>4. \/ /\ UNCHANGED task
         /\ \E o \in {"done", "stopped", "failed"} : End(o)
      \/ /\ UNCHANGED task /\ next # 0 /\ task.node[node] = "waiting"
         /\ turn' = [turn EXCEPT !.stage = "request", !.outcome = "pending", !.content = task.out[node]]
      \/ /\ next # 0 /\ task.node[node] # "waiting" /\ task.attempts[node] < Limit(turn.handler, node)
         /\ task' = [task EXCEPT !.node[node] = "running", !.attempts[node] = task.attempts[node] + 1]
         /\ turn' = [turn EXCEPT !.node = node, !.stage = "call"]
  <2>1. next # 0 /\ node \in Nodes => task.attempts[node] \in 0..2 /\ Limit(turn.handler, node) \in 1..2
    BY <1>1 DEF TaskType, TaskState, Limit
  <2>2. next # 0 => (~(task.attempts[node] >= Limit(turn.handler,
       node)) => task.attempts[node] < Limit(turn.handler, node))
    BY <1>3, <2>1
  <2> HIDE DEF node, next
  <2> QED BY <2>2 DEF RunNode, Reusable, node, next
<1> HIDE DEF next, node
<1>5. ASSUME UNCHANGED task, NEW o \in {"done", "stopped", "failed"}, End(o)
      PROVE  Inv'
  <2>1. o \in Outcomes
    BY DEF Outcomes
  <2>2. TurnType' /\ turn'.stage = "request" /\ turn'.outcome = o /\ turn'.handler = turn.handler
    BY <1>1, <1>5, <2>1, EndMoves
  <2>3. TypeOK'
    BY <1>1, <1>5, <2>2 DEF TypeOK, TurnType
  <2>4. BoundOK' /\ OwedOK'
    BY <1>1, <1>5, <2>2, WorkflowKept
  <2>5. DraftOK'
    BY <1>1, <2>2 DEF DraftOK, EvidenceStages, RoutingStages
  <2>6. NodesOK'
    BY <1>1, <1>5, <2>2 DEF Inv, NodesOK, Made
  <2>7. CommitOK'
    BY <1>1, <1>5, <2>2 DEF Inv, CommitOK, Asked
  <2> QED BY <2>3, <2>4, <2>5, <2>6, <2>7 DEF Inv
<1>6. ASSUME UNCHANGED task, next # 0, task.node[node] = "waiting",
             turn' = [turn EXCEPT !.stage = "request", !.outcome = "pending", !.content = task.out[node]]
      PROVE  Inv'
  <2>1. node = "commit" /\ task.out[node] \in Content
    BY <1>1, <1>3, <1>6 DEF Inv, NodesOK, TaskType, TaskState
  <2>2. /\ TurnType' /\ turn'.stage = "request" /\ turn'.outcome = "pending" /\ turn'.handler = turn.handler
        /\ turn'.content = task.out["commit"]
    BY <1>1, <1>6, <2>1, PendingMoves
  <2>3. TypeOK'
    BY <1>1, <1>6, <2>2 DEF TypeOK, TurnType
  <2>4. BoundOK' /\ OwedOK'
    BY <1>1, <1>6, <2>2, WorkflowKept
  <2>5. DraftOK'
    BY <1>1, <2>2 DEF DraftOK, EvidenceStages, RoutingStages
  <2>6. NodesOK'
    BY <1>1, <1>6, <2>2 DEF Inv, NodesOK, Made
  <2>7. CommitOK'
    BY <1>1, <1>6, <2>1, <2>2 DEF Inv, CommitOK, Asked
  <2> QED BY <2>3, <2>4, <2>5, <2>6, <2>7 DEF Inv
<1>7. ASSUME next # 0, task.node[node] # "waiting", task.attempts[node] < Limit(turn.handler, node),
             task' = [task EXCEPT !.node[node] = "running", !.attempts[node] = task.attempts[node] + 1],
             turn' = [turn EXCEPT !.node = node, !.stage = "call"]
      PROVE  Inv'
  <2>1. node \in Nodes /\ task.node[node] # "success"
    BY <1>3, <1>7
  <2>2. TurnType' /\ turn'.stage = "call" /\ turn'.node = node /\ turn'.handler = turn.handler
    BY <1>1, <1>7, <2>1, StageNames DEF TurnType, TurnState, PlanStages
  <2>3. task.attempts[node] + 1 \in 0..2
    BY <1>1, <1>7, <2>1 DEF TaskType, TaskState, Limit
  <2>4. /\ TaskType' /\ task'.handler = task.handler /\ task'.domain = task.domain /\ task'.out = task.out
        /\ task'.saved = task.saved /\ task'.node = [task.node EXCEPT ![node] = "running"]
    BY <1>1, <1>7, <2>1, <2>3 DEF TaskType, TaskState, NodeStates
  <2>5. task'.node[node] = "running" /\ \A n \in Nodes : n # node => task'.node[n] = task.node[n]
    BY <1>1, <2>1, <2>4 DEF TaskType, TaskState
  <2>6. TypeOK'
    BY <1>1, <2>2, <2>4 DEF TypeOK, TurnType, TaskType
  <2>7. BoundOK' /\ OwedOK'
    BY <1>1, <2>2, <2>4, WorkflowKept DEF PlanStages
  <2>8. DraftOK'
    BY <1>1, <2>2 DEF DraftOK, EvidenceStages, RoutingStages
  <2>9. NodesOK'
    <3>1. \A n \in Nodes : task'.node[n] \in {"success", "waiting"} =>
            n # node /\ task'.node[n] = task.node[n] /\ node # "read"
      <4>1. \A n \in Nodes : task.node[n] \in {"success", "waiting"} =>
              (n = "read" /\ task.node[n] = "success") \/ task.node["read"] = "success"
        BY DEF Inv, NodesOK
      <4> QED BY <1>7, <2>1, <2>5, <4>1
    <3>2. task'.node["read"] = task.node["read"] \/ node = "read"
      BY <2>5 DEF Nodes
    <3>3. \A n \in Nodes : task'.node[n] = "success" =>
            Made(n, task.out[n])' /\ (n # "read" => task'.node["read"] = "success")
      BY <2>4, <3>1, <3>2 DEF Inv, NodesOK, Made
    <3>4. \A n \in Nodes : task'.node[n] = "waiting" =>
            n = "commit" /\ Made(n, task.out[n])' /\ task'.node["read"] = "success"
      BY <2>4, <3>1, <3>2 DEF Inv, NodesOK, Made
    <3>5. task'.saved
      BY <1>1, <2>4 DEF Inv, NodesOK
    <3>6. \A m \in Before(task.domain, node) : m \in Nodes /\ m # node /\ task'.node[m] = "success"
      BY <1>2, <1>3, <1>7, <2>1, <2>5 DEF Before, Nodes
    <3>7. task'.node["commit"] = "running" => node = "commit"
      BY <1>1, <2>5 DEF Inv, NodesOK, Nodes
    <3> QED BY <2>2, <2>4, <2>5, <3>3, <3>4, <3>5, <3>6, <3>7 DEF NodesOK, Before
  <2>10. CommitOK'
    <3>1. /\ Asked # {} => node # "commit"
          /\ record.written # << >> => node # "commit" /\ task.node["commit"] = "success"
      BY <1>1, <1>7, <2>1 DEF Inv, CommitOK, NodesOK
    <3>2. node # "commit" => task'.node["commit"] = task.node["commit"]
      BY <2>5 DEF Nodes
    <3> QED BY <1>1, <2>2, <2>4, <3>1, <3>2 DEF Inv, CommitOK, Asked
  <2> QED BY <2>6, <2>7, <2>8, <2>9, <2>10 DEF Inv
<1> QED BY <1>4, <1>5, <1>6, <1>7

\* What a call of a node returns, and what it may have done.
Returns(status, content) ==
  /\ turn.stage = "call" /\ UNCHANGED <<setting, ask, task>> /\ Result(status, content)
  /\ status = "failed" => content = NoValue
  /\ status # "failed" => content \in Produced(turn.handler, turn.node)
  /\ status = "waiting" => turn.node = "commit"
  /\ DraftType' /\ (draft'.text.empty \/ (status = "waiting" /\ Grounded'))
  /\ RecordType' /\ record'.owed = record.owed /\ record'.target = record.target /\ record'.mixed = record.mixed
  /\ record'.requests = record.requests /\ record'.answers = record.answers
  /\ \/ record'.written = record.written
     \/ turn.node = "commit" /\ status = "success" /\ record'.written = Append(record.written, content)

\* A node is called with what the nodes before it have saved.
LEMMA CallMoves ==
  ASSUME Inv, NEW status \in {"failed", "success", "waiting"}, NEW content, Returns(status, content)
  PROVE  Inv'
<1>0. /\ turn.stage = "call" /\ UNCHANGED <<setting, ask, task>> /\ Result(status, content)
      /\ status = "failed" => content = NoValue
      /\ status # "failed" => content \in Produced(turn.handler, turn.node)
      /\ status = "waiting" => turn.node = "commit"
      /\ DraftType' /\ (draft'.text.empty \/ (status = "waiting" /\ Grounded'))
      /\ RecordType' /\ record'.owed = record.owed /\ record'.target = record.target /\ record'.mixed = record.mixed
      /\ record'.requests = record.requests /\ record'.answers = record.answers
      /\ \/ record'.written = record.written
         \/ turn.node = "commit" /\ status = "success" /\ record'.written = Append(record.written, content)
  BY DEF Returns
<1>1. TypeOK /\ TurnType /\ TaskType /\ RecordType /\ turn.node \in Nodes
  BY TypeParts, TurnParts DEF Inv
<1>2. task.handler = "workflow" /\ turn.handler = task.domain /\ turn.handler \in Workflows
  BY <1>0, WorkflowParts DEF PlanStages
<1>3. status # "failed" => Made(turn.node, content)
  <2>1. \A m \in Before(turn.handler, turn.node) : task.node[m] = "success"
    BY <1>0, <1>2 DEF Inv, NodesOK
  <2> QED BY <1>0, <1>1, <1>2, <2>1, ProducedMade DEF Inv
<1>4. content \in Content /\ status \in NodeStates
  BY <1>0, <1>1, <1>3, MadeType, Contents DEF NodeStates
<1>5. /\ TurnType' /\ turn'.stage = "save" /\ turn'.status = status /\ turn'.content = content
      /\ turn'.handler = turn.handler /\ turn'.node = turn.node
  BY <1>0, <1>1, <1>4, ResultMoves
<1>6. TypeOK'
  BY <1>0, <1>1, <1>5 DEF TypeOK, TurnType, DraftType, RecordType
<1>7. BoundOK' /\ OwedOK'
  BY <1>0, <1>5, WorkflowKept DEF PlanStages
<1>8. DraftOK'
  BY <1>0, <1>5 DEF DraftOK, EvidenceStages, RoutingStages
<1>9. NodesOK'
  <2>1. Made(turn.node, content) => Made(turn.node, turn.content)'
    BY <1>0, <1>5 DEF Made
  <2> QED BY <1>0, <1>3, <1>5, <2>1 DEF Inv, NodesOK, Made
<1>10. CommitOK'
  <2>1. turn.node = "commit" => task.node["commit"] = "running" /\ record.written = << >> /\ Asked = {}
    BY <1>0, <1>1 DEF Inv, NodesOK, CommitOK
  <2>2. Append(<< >>, content) # << >> /\ Len(Append(<< >>, content)) = 1
    BY <1>4
  <2> QED BY <1>0, <1>1, <1>5, <2>1, <2>2 DEF Inv, CommitOK, Asked
<1> QED BY <1>6, <1>7, <1>8, <1>9, <1>10 DEF Inv

\* A node produces something from its predecessors, or fails.
LEMMA CallStep ==
  ASSUME Inv, CallNode
  PROVE  Inv'
<1>1. /\ TypeOK /\ DraftType /\ RecordType /\ turn.stage = "call" /\ UNCHANGED <<setting, ask, task, draft>>
      /\ draft.text.empty /\ TurnType /\ TaskType
  BY TypeParts DEF Inv, CallNode, At, DraftOK
<1>2. CASE Result("failed", NoValue) /\ UNCHANGED record
  <2>1. Returns("failed", NoValue)
    BY <1>1, <1>2 DEF Returns, DraftType, RecordType
  <2> QED BY <2>1, CallMoves
<1>3. ASSUME NEW content \in Produced(turn.handler, turn.node), UNCHANGED record,
             \/ Result("success", content)
             \/ turn.node = "commit" /\ Result("waiting", content)
      PROVE  Inv'
  <2>1. Returns("success", content) \/ Returns("waiting", content)
    BY <1>1, <1>3 DEF Returns, DraftType, RecordType
  <2> QED BY <2>1, CallMoves
<1>4. ASSUME NEW content \in Produced(turn.handler, turn.node), turn.node = "commit", Result("success",
       content),
             record' = [record EXCEPT !.written = Append(record.written, content)]
      PROVE  Inv'
  <2>1. content \in Content
    <3>1. /\ turn.handler \in Workflows /\ turn.node \in Nodes /\ NodesOK
          /\ \A m \in Before(turn.handler, turn.node) : task.node[m] = "success"
      BY <1>1, WorkflowParts, TurnParts DEF Inv, NodesOK, PlanStages
    <3>2. Made(turn.node, content)
      BY <1>1, <1>4, <3>1, ProducedMade
    <3> QED BY <3>1, <3>2, MadeType
  <2>2. record.written \in Seq(Content)
    BY <1>1 DEF RecordType, RecordState
  <2>3. Append(record.written, content) \in Seq(Content)
    BY <2>1, <2>2
  <2>4. /\ RecordType' /\ record'.owed = record.owed /\ record'.target = record.target /\ record'.mixed = record.mixed
        /\ record'.requests = record.requests /\ record'.answers = record.answers
        /\ record'.written = Append(record.written, content)
    BY <1>1, <1>4, <2>3 DEF RecordType, RecordState
  <2>5. Returns("success", content)
    BY <1>1, <1>4, <2>4 DEF Returns, DraftType
  <2> QED BY <2>5, CallMoves
<1>5. \/ Result("failed", NoValue) /\ UNCHANGED record
      \/ \E content \in Produced(turn.handler, turn.node) :
           \/ /\ UNCHANGED record
              /\ Result("success", content) \/ (turn.node = "commit" /\ Result("waiting", content))
           \/ /\ turn.node = "commit" /\ Result("success", content)
              /\ record' = [record EXCEPT !.written = Append(record.written, content)]
  BY DEF CallNode
<1> QED BY <1>2, <1>3, <1>4, <1>5

\* The report of a report plan cites the passages.
LEMMA ReportStep ==
  ASSUME Inv, CallReport
  PROVE  Inv'
<1>1. /\ TypeOK /\ RecordType /\ turn.stage = "call" /\ turn.handler = "report" /\ turn.node = "commit"
      /\ UNCHANGED <<setting, ask, task, record>> /\ TurnType
  BY TypeParts DEF Inv, CallReport, At
<1>2. PICK n \in 1..MaxEvidence, text \in Text : ~text.empty /\ \E u \in ReportTexts(text, n) :
        draft' = [n |-> n, text |-> u, model |-> TRUE, sources |-> ReferenceList(n)]
  BY <1>1, TypeParts, SettingParts DEF CallReport
<1>3. PICK content \in Produced("report", "commit") : Result("waiting", content)
  BY DEF CallReport
<1>4. PICK shown \in ReportTexts(text, n) :
        /\ draft' = [n |-> n, text |-> shown, model |-> TRUE, sources |-> ReferenceList(n)]
        /\ shown \in Text /\ shown.nums \subseteq 1..n
  <2>1. n \in 0..MaxEvidence
    BY NumberAssumption
  <2> QED BY <1>2, <2>1, TextTypes
<1>5. n \in Numbers /\ ReferenceList(n) = 1..n /\ 1..n \in SUBSET Numbers
  BY NumberAssumption DEF Numbers, ReferenceList, Existing
<1>6. DraftType' /\ draft'.n = n /\ draft'.text = shown /\ draft'.sources = 1..n
  BY <1>2, <1>4, <1>5 DEF DraftType, DraftState
<1>7. turn'.handler = turn.handler
  BY <1>1, <1>3, TurnParts DEF Result, TurnType, TurnState
<1>8. Grounded'
  BY <1>1, <1>4, <1>6, <1>7 DEF Grounded
<1>9. Returns("waiting", content)
  BY <1>1, <1>3, <1>6, <1>8 DEF Returns, RecordType
<1> QED BY <1>9, CallMoves

\* The checkpoint of a node keeps what the other checkpoints are made from.
LEMMA SaveStep ==
  ASSUME Inv, SaveNode
  PROVE  Inv'
<1>1. /\ TypeOK /\ TurnType /\ TaskType /\ turn.stage = "save" /\ turn.stage \in PlanStages
      /\ UNCHANGED <<setting, ask, draft, record>> /\ turn.node \in Nodes /\ turn.content \in Content
      /\ turn.status \in NodeStates
  BY TypeParts, TurnParts DEF Inv, SaveNode, At, PlanStages
<1>2. /\ task.node[turn.node] = "running"
      /\ \A n \in Before(task.domain, turn.node) : task.node[n] = "success"
      /\ \/ turn.status = "failed"
         \/ turn.status = "success" /\ Made(turn.node, turn.content)
         \/ turn.status = "waiting" /\ turn.node = "commit" /\ Made(turn.node, turn.content)
      /\ task.node["commit"] = "running" => turn.node = "commit"
  BY <1>1 DEF Inv, NodesOK
<1> DEFINE kept == IF turn.status = "failed" THEN task.out[turn.node] ELSE turn.content
<1>3. /\ TaskType' /\ task'.handler = task.handler /\ task'.domain = task.domain /\ task'.saved = task.saved
      /\ task'.node = [task.node EXCEPT ![turn.node] = turn.status]
      /\ task'.out = [task.out EXCEPT ![turn.node] = kept]
  <2>1. kept \in Content
    BY <1>1 DEF TaskType, TaskState
  <2>2. task' = [task EXCEPT !.node[turn.node] = turn.status, !.out[turn.node] = kept]
    BY DEF SaveNode
  <2> HIDE DEF kept
  <2> QED BY <1>1, <2>1, <2>2 DEF TaskType, TaskState
<1>4. /\ task'.node[turn.node] = turn.status /\ task'.out[turn.node] = kept
      /\ \A n \in Nodes : n # turn.node => task'.node[n] = task.node[n] /\ task'.out[n] = task.out[n]
  <2> HIDE DEF kept
  <2> QED BY <1>1, <1>3 DEF TaskType, TaskState
<1>5. turn.status # "failed" => kept = turn.content
  OBVIOUS
<1> HIDE DEF kept
<1>6. /\ TurnType' /\ turn'.handler = turn.handler
      /\ turn.status = "waiting" =>
           turn'.stage = "request" /\ turn'.outcome = "pending" /\ turn'.content = turn.content
      /\ turn.status = "success" => turn'.stage = "run"
      /\ turn.status = "failed" =>
           turn'.stage = "run" \/ (turn'.stage = "request" /\ turn'.outcome = "failed")
  <2> DEFINE next == [turn EXCEPT !.node = "read", !.status = "planned"]
             again == task.attempts[turn.node] < Limit(turn.handler, turn.node) /\ turn.node # "commit"
  <2>1. turn' = CASE turn.status = "waiting" -> [next EXCEPT !.stage = "request", !.outcome = "pending"]
                  [] turn.status = "failed" /\ again -> [next EXCEPT !.stage = "run"]
                  [] turn.status = "failed" /\ ~again -> [next EXCEPT !.stage = "request", !.outcome = "failed"]
                  [] OTHER -> [next EXCEPT !.stage = "run", !.content = NoValue]
    BY DEF SaveNode
  <2>2. next \in TurnState /\ next.handler = turn.handler /\ next.content = turn.content
    BY <1>1 DEF TurnType, TurnState, Nodes, NodeStates
  <2>3. {"request", "run"} \subseteq Stages /\ {"pending", "failed"} \subseteq Outcomes
    BY DEF Stages, Outcomes
  <2> HIDE DEF next, again
  <2>4. CASE turn.status = "waiting"
    <3>1. turn' = [next EXCEPT !.stage = "request", !.outcome = "pending"]
      BY <2>1, <2>4
    <3> QED BY <2>2, <2>3, <2>4, <3>1 DEF TurnType, TurnState
  <2>5. CASE turn.status = "failed" /\ again
    <3>1. turn' = [next EXCEPT !.stage = "run"]
      BY <2>1, <2>5
    <3> QED BY <2>2, <2>3, <2>5, <3>1 DEF TurnType, TurnState
  <2>6. CASE turn.status = "failed" /\ ~again
    <3>1. turn' = [next EXCEPT !.stage = "request", !.outcome = "failed"]
      BY <2>1, <2>6
    <3> QED BY <2>2, <2>3, <2>6, <3>1 DEF TurnType, TurnState
  <2>7. CASE turn.status = "success"
    <3>1. turn' = [next EXCEPT !.stage = "run", !.content = NoValue]
      BY <2>1, <2>7
    <3> QED BY <2>2, <2>3, <2>7, <3>1, Contents DEF TurnType, TurnState
  <2> QED BY <1>2, <2>4, <2>5, <2>6, <2>7
<1>7. TypeOK'
  BY <1>1, <1>3, <1>6 DEF TypeOK, TurnType, TaskType
<1>8. BoundOK' /\ OwedOK'
  <2>1. turn'.stage \in PlanStages \cup {"request"}
    BY <1>2, <1>6 DEF PlanStages
  <2> QED BY <1>1, <1>3, <1>6, <2>1, WorkflowKept
<1>9. DraftOK'
  BY <1>1, <1>2, <1>6 DEF Inv, DraftOK, Grounded, OwnWords, EvidenceStages, RoutingStages
\* The source is saved before anything is made from it.
<1>10. /\ \A n \in Nodes : task.node[n] \in {"success", "waiting"} => n # turn.node /\ turn.node # "read"
       /\ turn.node # "read" => task'.out["read"] = task.out["read"] /\ task'.node["read"] = task.node["read"]
       /\ turn.node # "read" => task.node["read"] = "success"
  <2>1. \A n \in Nodes : task.node[n] \in {"success", "waiting"} =>
          (n = "read" /\ task.node[n] = "success") \/ task.node["read"] = "success"
    BY DEF Inv, NodesOK
  <2>2. turn.node # "read" => "read" \in Before(task.domain, turn.node)
    BY DEF Before
  <2> QED BY <1>1, <1>2, <1>4, <2>1, <2>2 DEF Nodes
<1>11. NodesOK'
  <2>1. turn.status # "failed" => MadeFrom(task'.out["read"], turn.node, task'.out[turn.node])
    <3>1. CASE turn.node = "read"
      BY <1>2, <1>4, <1>5, <3>1 DEF Made, MadeFrom
    <3>2. CASE turn.node # "read"
      BY <1>2, <1>4, <1>5, <1>10, <3>2 DEF Made
    <3> QED BY <3>1, <3>2
  <2>2. \A n \in Nodes : n # turn.node /\ task'.node[n] \in {"success", "waiting"} =>
          Made(n, task.out[n])' /\ (n # "read" => task'.node["read"] = "success")
    BY <1>4, <1>10 DEF Inv, NodesOK, Made
  <2>3. \A n \in Nodes : n # turn.node /\ task'.node[n] = "waiting" =>
          n = "commit" /\ task'.node["read"] = "success"
    BY <1>4, <1>10 DEF Inv, NodesOK
  <2>4. turn.node # "read" => task'.node["read"] = "success"
    BY <1>10
  <2>5. task'.saved
    BY <1>1, <1>3 DEF Inv, NodesOK
  <2>6. turn'.stage \in {"run", "request"}
    BY <1>2, <1>6
  <2>7. task'.node["commit"] # "running"
    BY <1>2, <1>4 DEF Nodes
  <2> QED BY <1>2, <1>4, <2>1, <2>2, <2>3, <2>4, <2>5, <2>6, <2>7 DEF NodesOK, Made
<1>12. CommitOK'
  <2>1. /\ Asked # {} => turn.node # "commit"
        /\ record.written # << >> /\ turn.node = "commit" => turn.status = "success"
    BY <1>1, <1>2 DEF Inv, CommitOK
  <2>2. turn.node # "commit" => task'.node["commit"] = task.node["commit"]
       /\ task'.out["commit"] = task.out["commit"]
    BY <1>4 DEF Nodes
  <2>3. turn'.stage = "request" /\ turn'.outcome = "pending" =>
          task'.node["commit"] = "waiting" /\ turn'.content = task'.out["commit"]
    BY <1>2, <1>4, <1>5, <1>6
  <2>4. turn'.stage \in {"run", "request"}
    BY <1>2, <1>6
  <2> QED BY <1>1, <1>2, <1>4, <2>1, <2>2, <2>3, <2>4 DEF Inv, CommitOK, Asked
<1> QED BY <1>7, <1>8, <1>9, <1>11, <1>12 DEF Inv

-----------------------------------------------------------------------------
(* The end of a turn.                                                      *)

\* A workflow asks for what its commit has made, and for nothing else.
LEMMA RequestStep ==
  ASSUME Inv, Request
  PROVE  Inv'
<1>1. /\ TypeOK /\ TurnType /\ TaskType /\ RecordType /\ turn.stage = "request"
      /\ UNCHANGED <<setting, ask, task, draft>> /\ turn.content \in Content
      /\ task.handler \in {"answer", "workflow"}
  BY TypeParts, TurnParts DEF Inv, Request, At, TaskType, TaskState
<1>2. /\ TurnType' /\ turn'.stage = "say" /\ turn'.outcome = turn.outcome /\ turn'.handler = turn.handler
  BY <1>1, GotoMoves, StageNames DEF Request
<1> DEFINE added == IF turn.outcome = "pending" THEN {<<task.handler, turn.content>>} ELSE {}
<1>3. /\ RecordType' /\ record'.requests = record.requests \cup added
      /\ record'.owed = record.owed /\ record'.target = record.target /\ record'.mixed = record.mixed
      /\ record'.answers = record.answers /\ record'.written = record.written
  <2>1. <<task.handler, turn.content>> \in {"answer", "workflow"} \X Content
    BY <1>1
  <2>2. CASE turn.outcome = "pending"
    <3>1. record' = [record EXCEPT !.requests = record.requests \cup {<<task.handler, turn.content>>}]
      BY <2>2 DEF Request
    <3> QED BY <1>1, <2>1, <2>2, <3>1 DEF RecordType, RecordState
  <2>3. CASE turn.outcome # "pending"
    <3>1. record' = record
      BY <2>3 DEF Request
    <3> QED BY <1>1, <2>3, <3>1 DEF RecordType
  <2> QED BY <2>2, <2>3
<1>4. TypeOK'
  BY <1>1, <1>2, <1>3 DEF TypeOK, TurnType, RecordType
<1>5. BoundOK'
  BY <1>1, <1>2 DEF Inv, BoundOK, PlanStages, RoutingStages, EvidenceStages
<1>6. DraftOK'
  BY <1>1, <1>2 DEF Inv, DraftOK, Grounded, OwnWords, EvidenceStages, RoutingStages
<1>7. NodesOK'
  BY <1>1, <1>2 DEF Inv, NodesOK, Made
<1>8. CommitOK'
  <2>1. CASE task.handler = "workflow" /\ turn.outcome = "pending"
    <3>1. task.node["commit"] = "waiting" /\ turn.content = task.out["commit"] /\ record.written = << >>
      BY <1>1, <2>1 DEF Inv, CommitOK
    <3>2. Asked' = Asked \cup {<<"workflow", turn.content>>}
      <4>1. <<"workflow", turn.content>>[1] = "workflow"
        OBVIOUS
      <4> QED BY <1>3, <2>1, <4>1 DEF Asked
    <3>3. Asked' = {<<"workflow", task.out["commit"]>>}
      BY <3>1, <3>2 DEF Inv, CommitOK
    <3> QED BY <1>1, <1>2, <1>3, <3>1, <3>3 DEF CommitOK
  <2>2. CASE ~(task.handler = "workflow" /\ turn.outcome = "pending")
    <3>1. Asked' = Asked
      <4>1. task.handler = "answer" => <<task.handler, turn.content>>[1] # "workflow"
        OBVIOUS
      <4> QED BY <1>1, <1>3, <2>2, <4>1 DEF Asked
    <3> QED BY <1>1, <1>2, <1>3, <2>2, <3>1 DEF Inv, CommitOK
  <2> QED BY <2>1, <2>2
<1>9. OwedOK'
  BY <1>1, <1>2, <1>3 DEF Inv, OwedOK, RoutingStages, Accounted
<1> QED BY <1>4, <1>5, <1>6, <1>7, <1>8, <1>9 DEF Inv

\* The message says that something waits only after the request is there.
LEMMA SayStep ==
  ASSUME Inv, Say
  PROVE  Inv'
<1>1. /\ TypeOK /\ TurnType /\ RecordType /\ turn.stage = "say" /\ UNCHANGED <<setting, ask, task, draft>>
      /\ turn.outcome \in Outcomes /\ task.handler \in {"answer", "workflow"}
  BY TypeParts, TurnParts DEF Inv, Say, At, TaskType, TaskState
<1>2. TurnType' /\ turn'.stage = "remember" /\ turn'.handler = turn.handler
  BY <1>1, GotoMoves, StageNames DEF Say
<1>3. /\ RecordType' /\ record'.answers = record.answers \cup {<<task.handler, turn.outcome>>}
      /\ record'.requests = record.requests
      /\ record'.owed = record.owed /\ record'.target = record.target /\ record'.mixed = record.mixed
      /\ record'.written = record.written
  <2>1. <<task.handler, turn.outcome>> \in {"answer", "workflow"} \X Outcomes
    BY <1>1
  <2>2. record' = [record EXCEPT !.answers = record.answers \cup {<<task.handler, turn.outcome>>}]
    BY DEF Say
  <2> QED BY <1>1, <2>1, <2>2 DEF RecordType, RecordState
<1>4. TypeOK'
  BY <1>1, <1>2, <1>3 DEF TypeOK, TurnType, RecordType
<1>5. BoundOK'
  BY <1>1, <1>2 DEF Inv, BoundOK, PlanStages, RoutingStages, EvidenceStages
<1>6. DraftOK'
  BY <1>2 DEF DraftOK, EvidenceStages, RoutingStages
<1>7. NodesOK'
  BY <1>1, <1>2 DEF Inv, NodesOK, Made
<1>8. CommitOK'
  <2>1. Asked' = Asked
    BY <1>3 DEF Asked
  <2>2. <<"workflow", "pending">> \in record'.answers => Asked # {}
    BY <1>1, <1>3 DEF Inv, CommitOK
  <2> QED BY <1>1, <1>2, <1>3, <2>1, <2>2 DEF Inv, CommitOK
<1>9. OwedOK'
  BY <1>1, <1>2, <1>3 DEF Inv, OwedOK, RoutingStages, Accounted
<1> QED BY <1>4, <1>5, <1>6, <1>7, <1>8, <1>9 DEF Inv

\* The memory of the message changes nothing else.
LEMMA RememberStep ==
  ASSUME Inv, Remember
  PROVE  Inv'
<1>1. TypeOK /\ TurnType /\ turn.stage = "remember" /\ UNCHANGED <<setting, ask, task, draft, record>>
  BY TypeParts DEF Inv, Remember, At, KeepRest
<1>2. TurnType' /\ turn'.stage = "done" /\ turn'.handler = turn.handler
  BY <1>1, GotoMoves, StageNames DEF Remember
<1>3. TypeOK'
  BY <1>1, <1>2 DEF TypeOK, TurnType
<1>4. BoundOK'
  BY <1>1, <1>2 DEF Inv, BoundOK, PlanStages, RoutingStages, EvidenceStages
<1>5. DraftOK'
  BY <1>2 DEF DraftOK, EvidenceStages, RoutingStages
<1>6. NodesOK'
  BY <1>1, <1>2 DEF Inv, NodesOK, Made
<1>7. CommitOK'
  BY <1>1, <1>2 DEF Inv, CommitOK, Asked
<1>8. OwedOK'
  BY <1>1, <1>2 DEF Inv, OwedOK, RoutingStages, Accounted
<1> QED BY <1>3, <1>4, <1>5, <1>6, <1>7, <1>8 DEF Inv

\* A crash keeps what is stored, and nothing else.
LEMMA CrashStep ==
  ASSUME Inv, Crash
  PROVE  Inv'
<1>1. /\ TypeOK /\ AskType /\ setting.crashes > 0 /\ UNCHANGED <<ask, task, record>>
      /\ setting' = [setting EXCEPT !.crashes = setting.crashes - 1] /\ turn' = NoTurn /\ draft' = NoDraft
  BY TypeParts DEF Inv, Crash
<1>2. turn' \in TurnState /\ turn'.stage = "start" /\ draft' \in DraftState /\ draft'.text.empty
  BY <1>1, Starts
<1>3. setting' \in Setting
  <2>1. setting.crashes - 1 \in Nat
    BY <1>1, SettingParts
  <2> QED BY <1>1, <2>1 DEF AskType, Setting
<1>4. TypeOK'
  BY <1>1, <1>2, <1>3 DEF TypeOK
<1>5. BoundOK'
  BY <1>1, <1>2 DEF Inv, BoundOK, PlanStages, RoutingStages, EvidenceStages
<1>6. DraftOK'
  BY <1>2 DEF DraftOK, EvidenceStages, RoutingStages
<1>7. NodesOK'
  BY <1>1, <1>2 DEF Inv, NodesOK, Made
<1>8. CommitOK'
  BY <1>1, <1>2 DEF Inv, CommitOK, Asked
<1>9. OwedOK'
  BY <1>1, <1>2 DEF Inv, OwedOK, RoutingStages, Accounted
<1> QED BY <1>4, <1>5, <1>6, <1>7, <1>8, <1>9 DEF Inv

-----------------------------------------------------------------------------
(* Theorems.                                                               *)

\* The invariant holds at the start.
LEMMA InitInv == Init => Inv
<1> SUFFICES ASSUME Init PROVE Inv
  OBVIOUS
<1>1. /\ setting \in Setting /\ ask \in Ask /\ turn = NoTurn /\ task = NewTask /\ draft = NoDraft
      /\ record = [questions |-> 0, answers |-> {}, owed |-> {}, target |-> FALSE, mixed |-> FALSE,
                   requests |-> {}, written |-> << >>]
  BY TurnAssumption DEF Init, Setting
<1>2. record \in RecordState
  <2>1. << >> \in Seq(Content)
    OBVIOUS
  <2> QED BY <1>1, <2>1 DEF RecordState
<1>3. TypeOK
  BY <1>1, <1>2, Starts DEF TypeOK
<1>4. turn.stage = "start" /\ draft.text.empty /\ task.handler = "answer"
       /\ \A n \in Nodes : task.node[n] = "planned"
  BY <1>1, Starts
<1>5. BoundOK /\ DraftOK /\ NodesOK
  BY <1>4 DEF BoundOK, DraftOK, NodesOK, RoutingStages, EvidenceStages, PlanStages, Nodes
<1>6. CommitOK /\ OwedOK
  BY <1>1, <1>4 DEF CommitOK, OwedOK, Asked
<1> QED BY <1>3, <1>5, <1>6 DEF Inv

\* A stuttering step keeps the invariant.
LEMMA StutterInv == ASSUME Inv, UNCHANGED vars PROVE Inv'
<1>1. UNCHANGED <<setting, ask, turn, task, draft, record>>
  BY DEF vars
<1>2. TypeOK' /\ BoundOK' /\ DraftOK'
  BY <1>1 DEF Inv, TypeOK, BoundOK, DraftOK, Grounded, OwnWords
<1>3. NodesOK' /\ CommitOK' /\ OwedOK'
  BY <1>1 DEF Inv, NodesOK, Made, CommitOK, Asked, OwedOK
<1> QED BY <1>2, <1>3 DEF Inv

\* The invariant holds in every state of every run.
LEMMA Invariance == Spec => []Inv
<1>1. Inv /\ [Next]_vars => Inv'
  BY StutterInv, RoutingStep, SimpleStep, EvidenceStep, BeginStep, DispatchStep, BindStep, OpenStep, RunStep,
     CallStep, ReportStep, SaveStep, RequestStep, SayStep, RememberStep, CrashStep DEF Next
<1> QED BY <1>1, InitInv, PTL DEF Spec

\* Every variable keeps its type, and no node is tried more often than its
\* retries allow, whatever is asked and whenever the worker dies.
THEOREM TypeCorrect == Spec => []TypeOK
<1>1. Inv => TypeOK
  BY DEF Inv
<1> QED BY <1>1, Invariance, PTL

\* Whatever the models return, the citations that the model or the program
\* sets are of passages that exist and are listed, and an answer that the
\* model wrote from the documents lists exactly what it cites.
THEOREM AnswersAreGrounded == Spec => []AnswerIsGrounded
<1>1. Inv => AnswerIsGrounded
  BY DEF Inv, DraftOK, Grounded, Checked, OwnWords, AnswerIsGrounded, Shown
<1> QED BY <1>1, Invariance, PTL

\* However often the worker dies, a workflow asks for one content, made from
\* the saved source, or writes it once.
THEOREM CommitsArePreparedOnce == Spec => []CommitIsPreparedOnce
<1>1. ASSUME Inv
      PROVE  CommitIsPreparedOnce
  <2>1. Asked = {} \/ Asked = {<<"workflow", task.out["commit"]>>}
    BY <1>1 DEF Inv, CommitOK
  <2>2. record.written \in Seq(Content)
    BY <1>1 DEF Inv, TypeOK, RecordState
  <2>3. Cardinality({}) = 0 /\ Cardinality({<<"workflow", task.out["commit"]>>}) = 1
    BY FS_EmptySet, FS_Singleton
  <2>4. Cardinality(Asked) + Len(record.written) <= 1
    <3>1. CASE Asked = {}
      <4>1. Cardinality(Asked) = 0
        BY <2>3, <3>1
      <4>2. Len(record.written) <= 1
        BY <1>1, <2>2 DEF Inv, CommitOK
      <4> QED BY <2>2, <4>1, <4>2
    <3>2. CASE Asked # {}
      <4>1. Cardinality(Asked) = 1
        BY <2>1, <2>3, <3>2
      <4>2. Len(record.written) = 0
        BY <1>1, <3>2 DEF Inv, CommitOK
      <4> QED BY <4>1, <4>2
    <3> QED BY <3>1, <3>2
  <2>5. ASSUME NEW r \in Asked
        PROVE  <<r[2][1]>> = task.out["read"]
    <3>1. r = <<"workflow", task.out["commit"]>> /\ task.node["commit"] = "waiting"
      BY <1>1, <2>5 DEF Inv, CommitOK
    <3>2. Made("commit", task.out["commit"])
      BY <1>1, <3>1 DEF Inv, NodesOK, Nodes
    <3>3. <<task.out["commit"][1]>> = task.out["read"]
      BY <3>2 DEF Made, MadeFrom, FromSource
    <3>4. r[2] = task.out["commit"]
      BY <3>1
    <3> QED BY <3>3, <3>4
  <2>6. <<"workflow", "pending">> \in record.answers => Asked # {}
    BY <1>1 DEF Inv, CommitOK
  <2> QED BY <2>4, <2>5, <2>6 DEF CommitIsPreparedOnce, Asked
<1> QED BY <1>1, Invariance, PTL

\* For whatever the router and the planner reply, every commit that the
\* decision owes the user is made, or the answer says why not, or the task
\* fails: unless the plan both writes a file and mails.
THEOREM CommitsAreAccounted == Spec => []CommitIsAccounted
<1>1. Inv => CommitIsAccounted
  BY DEF Inv, OwedOK, Accounted, CommitIsAccounted, OwedIsServed, At, RoutingStages
<1> QED BY <1>1, Invariance, PTL
=============================================================================
