---------------------------- MODULE MCAnswerTurn ----------------------------
EXTENDS AnswerTurn, TLC

None == [asks |-> {}, replies |-> {}, plans |-> {}, texts |-> {Empty}, crashes |-> 0, stops |-> FALSE,
         exists |-> FALSE]

MCAsk == [index |-> FALSE, path |-> FALSE, slots |-> FALSE, files |-> 0, says |-> {}, hint |-> "none",
          docs |-> TRUE]
MCPlan == [NoPlan EXCEPT !.valid = TRUE]
P(tools) == [MCPlan EXCEPT !.tools = tools]

\* Routing: many questions, decisions and plans, no failure.
Asks == {[MCAsk EXCEPT !.index = i, !.path = p, !.says = s, !.hint = h, !.files = 2] :
           i \in BOOLEAN, p \in BOOLEAN, s \in {{}, {"write"}, {"nopath"}}, h \in {"none", "one", "many"}}
Decisions ==
  {[Direct EXCEPT !.mode = m, !.file = f, !.catalog = c, !.reflect = r] :
     m \in {"direct", "plan"}, f \in BOOLEAN, c \in BOOLEAN, r \in BOOLEAN}
  \cup {[PlanFor(t) EXCEPT !.file = t = {"write"}, !.web = w] :
          t \in {{"write"}, {"send"}, {"draft"}}, w \in BOOLEAN}
  \cup {[Call(t) EXCEPT !.missing = m, !.file = f] :
          t \in {"search", "web", "read", "write", "time", NoTool}, m \in BOOLEAN, f \in BOOLEAN}
  \cup {[Call("mails") EXCEPT !.mode = "clarify"], [Call("web") EXCEPT !.web = TRUE]}
Plans ==
  {NoPlan, P({}), P({"images"}), P({"web"}), P({"search"}), P({"send"}), P({"search", "send"})}
  \cup {[P(t) EXCEPT !.paths = n] : t \in {{"write"}, {"web", "write"}, {"search", "write"}}, n \in 0..2}
  \cup {[P(t) EXCEPT !.targets = 2] : t \in {{"read"}, {"read", "write"}}}
  \cup {[P({"draft"}) EXCEPT !.slots = TRUE], [P({"search"}) EXCEPT !.docs = 2]}
Routing == [None EXCEPT !.asks = Asks, !.replies = Decisions, !.plans = Plans]

\* Evidence: one way to each answer from evidence, any text.
Evidence ==
  [None EXCEPT !.asks = {[MCAsk EXCEPT !.hint = "one"]}, !.texts = {Empty} \cup Written,
               !.replies = {Call("search"), [Call("web") EXCEPT !.web = TRUE],
                            [PlanFor({}) EXCEPT !.file = TRUE, !.catalog = TRUE]},
               !.plans = {P({"search", "write"})}]

\* Workflows: one way to each, deaths and stops.
Workflow ==
  [None EXCEPT !.asks = {[MCAsk EXCEPT !.path = TRUE, !.slots = TRUE, !.hint = "one", !.files = 2]},
               !.replies = {PlanFor({"read"}), PlanFor({"send"}), Call("write"), Call("time"),
                            [PlanFor({"write"}) EXCEPT !.file = TRUE]},
               !.plans = {P({"web", "write"}), P({"search", "write"}), P({"search", "send"}),
                          [P({"read"}) EXCEPT !.targets = 2]},
               !.texts = {[Empty EXCEPT !.empty = FALSE, !.nums = {1}]}, !.crashes = 2]
Stopped == [Workflow EXCEPT !.stops = TRUE, !.crashes = 1]
Existing2 == [Workflow EXCEPT !.exists = TRUE, !.crashes = 0]

\* A file and a mail from one decision.
Mixed ==
  [None EXCEPT !.asks = {[MCAsk EXCEPT !.path = p, !.slots = s] : p \in BOOLEAN, s \in BOOLEAN},
               !.replies = {[PlanFor({"send"}) EXCEPT !.file = TRUE], PlanFor({"send"})},
               !.plans = {[P(t \cup {"write", "send"}) EXCEPT !.paths = n] :
                            t \in {{}, {"web"}, {"search"}}, n \in 0..1}]
\* Two files from one decision.
TwoFiles ==
  [None EXCEPT !.asks = {[MCAsk EXCEPT !.path = p] : p \in BOOLEAN},
               !.replies = {[PlanFor({"write"}) EXCEPT !.file = TRUE]},
               !.plans = {[P({"web", "write"}) EXCEPT !.paths = 2]}]

MCValues == {"v1", "v2"}
MCSettings == {Routing, Evidence, Workflow, Stopped, Existing2, Mixed, TwoFiles}
=============================================================================
