----------------------------- MODULE TurnRouting -----------------------------
(***************************************************************************)
(* How a question becomes one handler of the agent:                        *)
(* src/deskpilot/intent/router.py and validator.py, core/plan_repair.py,   *)
(* multi_agent/planner.py and the first half of core/agent.py.             *)
(*                                                                         *)
(* A language model proposes twice: the router's reply says what kind of   *)
(* turn this is (a decision), the planner's replies say which tools to use *)
(* (a plan).  Either may be anything; fixed rules correct the decision, a  *)
(* bounded repair replaces the plan, and a cascade picks the handler.  The *)
(* rules read a few facts from the words of the question (an ask).  Here   *)
(* they are functions of the replies; AnswerTurn lets the model choose.    *)
(***************************************************************************)
EXTENDS Integers, FiniteSets, Sequences, SequencesExt

Sources == {"search", "images", "web", "read"}
Commits == {"write", "send", "draft"}
Mails == {"send", "draft"}
Others == {"time", "delete", "mails", "shell"}
Tools == Sources \cup Commits \cup Others
NoTool == "none"
Hints == {"none", "weak", "one", "many"}

\* What the rules find in the question: whether it names the local index, a
\* file to write, a recipient; how many files of the workspace it names; the
\* commands it matches; and what the index has on it.
Ask == [index: BOOLEAN, path: BOOLEAN, slots: BOOLEAN, files: 0..2,
        says: SUBSET (Others \cup {"write", "read", "web", "nopath"}), hint: Hints, docs: BOOLEAN]

Decision == [mode: {"direct", "tool", "clarify", "plan"}, tool: Tools \cup {NoTool}, missing: BOOLEAN,
             file: BOOLEAN, catalog: BOOLEAN, files: BOOLEAN, local: BOOLEAN, web: BOOLEAN,
             fresh: BOOLEAN, reflect: BOOLEAN, required: SUBSET Tools]

\* The defaults of every field.
Direct == [mode |-> "direct", tool |-> NoTool, missing |-> FALSE, file |-> FALSE, catalog |-> FALSE,
           files |-> FALSE, local |-> FALSE, web |-> FALSE, fresh |-> FALSE, reflect |-> FALSE,
           required |-> {}]
Call(tool) == [Direct EXCEPT !.mode = "tool", !.tool = tool]
PlanFor(required) == [Direct EXCEPT !.mode = "plan", !.required = required]

\* A plan: the tools of its steps, the documents it names to read, the
\* documents of the index it selects, the files it writes, and whether what
\* a mail needs is there.
Plan == [valid: BOOLEAN, tools: SUBSET Tools, targets: 0..2, docs: 0..2, paths: 0..2, slots: BOOLEAN]
NoPlan == [valid |-> FALSE, tools |-> {}, targets |-> 0, docs |-> 0, paths |-> 0, slots |-> FALSE]

---------------------------------------------------------------------------
(* The decision *)

\* _jev_direct_gate: without a hint a second model may answer at once.
Gated(ask) == ask.hint = "none" /\ ~ask.slots

\* _fallback_route, for a reply that cannot be read: the first command that matches.
FallbackOrder == <<"time", "shell", "delete", "write", "read", "mails", "web">>
Fallback(ask) ==
  LET first == SelectInSeq(FallbackOrder, LAMBDA c : c \in ask.says)
  IN IF ask.hint \in {"one", "many"} /\ "time" \notin ask.says THEN Call("search")
     ELSE IF first # 0 THEN Call(FallbackOrder[first])
     ELSE IF "nopath" \in ask.says THEN [Call("write") EXCEPT !.mode = "clarify", !.missing = TRUE]
     ELSE Direct

\* _complete_plan_contract: what the flags of a planned task require.
Contract(d) ==
  d.required \cup (IF d.files THEN {"read"} ELSE {}) \cup (IF d.catalog THEN {"search"} ELSE {})
             \cup (IF d.web THEN {"web"} ELSE {}) \cup (IF d.file THEN {"write"} ELSE {})

Completed(ask, d) ==
  [d EXCEPT !.required = IF d.mode = "plan" THEN Contract(d) ELSE @, !.local = @ \/ ask.index]

\* SlotValidator.validate: a known tool that has its required slots.
Validated(d) == IF d.tool = NoTool \/ d.missing THEN [d EXCEPT !.mode = "clarify"] ELSE d

FileFromIndex == [PlanFor({"search", "write"}) EXCEPT !.catalog = TRUE, !.file = TRUE]

\* The corrections of route, in their order; each ends the matter.
Corrected(ask, reply) ==
  LET d == Completed(ask, reply)
      direct == d.mode = "direct"
      calls(tool) == d.mode = "tool" /\ d.tool = tool
  IN IF direct /\ d.reflect THEN [PlanFor(d.required) EXCEPT !.reflect = TRUE]
     ELSE IF direct /\ d.local THEN [PlanFor({"search"}) EXCEPT !.catalog = TRUE, !.local = TRUE]
     ELSE IF direct /\ ask.hint = "many" THEN Call("search")
     ELSE IF calls(NoTool) /\ ~(d.missing \/ d.file \/ d.local \/ d.web \/ d.fresh) THEN Direct
     ELSE IF calls("search") /\ ask.hint = "none" /\ ~d.local
          THEN IF d.file THEN FileFromIndex ELSE Direct
     ELSE IF calls("web") /\ ~(d.web \/ d.fresh) THEN Direct
     ELSE IF direct /\ d.file
          THEN [PlanFor(d.required \cup {"write"}) EXCEPT !.catalog = d.catalog, !.file = TRUE]
     ELSE IF calls("search") /\ d.file THEN FileFromIndex
     ELSE IF d.mode = "tool" THEN Validated(d)
     ELSE IF d.mode = "clarify" /\ d.tool = "mails" /\ ~d.missing THEN [d EXCEPT !.mode = "tool"]
     ELSE d

---------------------------------------------------------------------------
(* The plan *)

Unexpected(d, plan) == "write" \in plan.tools /\ ~d.file
Meets(d, plan) == d.required \subseteq plan.tools /\ plan.tools # {} /\ ~Unexpected(d, plan)
HasPipeline(plan) == plan.valid /\ "write" \in plan.tools /\ plan.tools \cap Sources # {}

\* The three reasons for which the planner is asked once more.
WantsCatalog(ask, d, plan) == "search" \in plan.tools /\ ~d.catalog /\ ask.docs
WantsContract(ask, d, plan) == ~Meets(d, plan)
WantsPipeline(ask, d, plan) == d.file /\ ~HasPipeline(plan)

\* Whether the new plan replaces the old one.
TakesCatalog(d, plan) == TRUE
TakesContract(d, plan) == plan.valid /\ Meets(d, plan)
TakesPipeline(d, plan) == plan.valid /\ HasPipeline(plan)

\* _compile_contract_plan: a step for every required tool, with what is known.
Compiled(ask, d, plan) ==
  LET tools == d.required \cap (Sources \cup Commits)
  IN [plan EXCEPT !.tools = tools, !.valid = tools # {},
                  !.targets = IF @ = 0 /\ "read" \in tools THEN ask.files ELSE @]

\* Mutant: what the last replanning has left is executed.
Settled_AsIs(ask, d, plan) == plan

Settled(ask, d, plan) ==
  IF d.required \subseteq plan.tools THEN plan ELSE Compiled(ask, d, plan)

---------------------------------------------------------------------------
(* The handler *)

\* Several documents to read and nothing to commit.
IsDocuments(plan) == plan.targets >= 2 /\ plan.tools \cap Commits = {}
IsImages(d, plan) == ~d.file /\ plan.tools = {"images"}
\* _planned_simple_index_query: one search of one document at most.
IsSimpleIndex(ask, d, plan) ==
  /\ d.catalog /\ ~d.file
  /\ plan.tools \subseteq {"search"} /\ plan.docs <= 1
  /\ plan.tools # {} \/ ask.hint = "one"
IsSimpleWeb(d, plan) == ~d.file /\ plan.tools = {"web"}
\* _planned_web_file_request.
IsWebFile(plan) == {"web", "write"} \subseteq plan.tools
\* _planned_output_path, _extract_file_write_request: where a file could be written to.
HasTarget(ask, plan) == plan.paths = 1 \/ ask.path
IsMail(plan) == plan.tools \cap Mails # {}
\* _answer_planned_task: one way to commit, and what a mail needs.
MailIsReady(ask, plan) == Cardinality(plan.tools \cap Mails) = 1 /\ (plan.slots \/ ask.slots)
\* _planned_index_report.
IsReport(plan) == "search" \in plan.tools
IsCollection(ask, d, plan) ==
  /\ ~d.file /\ plan.tools \cap Commits = {}
  /\ ask.hint \in {"one", "many"} /\ plan.tools \subseteq {"search"}

\* Two files to write to make a request that is nothing but an error.  It is
\* shown if the question names a file; if not, the request is taken for one
\* without a target, and its missing query raises.
Conflict(ask) == IF ask.path THEN "note" ELSE "raise"

\* What a plan leads to, in the order in which the agent tries it.
Planned(ask, d, plan) ==
  IF IsDocuments(plan) THEN "documents"
  ELSE IF d.reflect \/ ~plan.valid THEN "note"
  ELSE IF IsImages(d, plan) THEN "tool"
  ELSE IF IsSimpleIndex(ask, d, plan) THEN "rag"
  ELSE IF IsSimpleWeb(d, plan) THEN "web"
  ELSE IF IsWebFile(plan)
       THEN IF plan.paths = 2 THEN Conflict(ask) ELSE IF HasTarget(ask, plan) THEN "web_file" ELSE "web"
  ELSE IF IsMail(plan) THEN IF MailIsReady(ask, plan) THEN "email" ELSE "note"
  ELSE IF IsReport(plan) THEN IF d.file \/ "write" \in plan.tools THEN "report" ELSE "rag"
  ELSE IF d.file /\ d.catalog THEN "report"
  ELSE IF IsCollection(ask, d, plan) THEN "rag"
  ELSE "note"

\* _handle_intent_tool_call.
Called(ask, d) ==
  CASE d.tool = "search" -> "rag"
    [] d.tool = "web" -> "web"
    [] d.tool = "read" -> "document"
    [] d.tool = "write" -> "file"
    [] OTHER -> "tool"

\* _route_with_intent.
Handler(ask, d, plan) ==
  CASE d.mode = "plan" -> Planned(ask, d, plan)
    [] d.mode = "tool" -> Called(ask, d)
    [] d.mode = "clarify" -> "note"
    [] OTHER -> "direct"

Workflows == {"documents", "email", "web_file", "report"}
Handlers == Workflows \cup {"note", "raise", "tool", "rag", "web", "document", "file", "direct"}

\* The commits that the decision owes the user, and those that a handler makes.
Owed(d) == IF d.mode = "plan" THEN d.required \cap Commits ELSE {}
Served(handler) ==
  CASE handler = "email" -> Mails
    [] handler \in {"web_file", "report"} -> {"write"}
    [] OTHER -> {}
\* A plan that writes a file and mails as well: each handler makes one of the two.
IsMixed(plan) == "write" \in plan.tools /\ IsMail(plan)
=============================================================================
