--------------------------- MODULE MCTaskService ---------------------------
EXTENDS TaskService, TLC

CONSTANTS w1, w2, read, write

OneTask == {1}
TwoTasks == {1, 2}
OneSession == [t \in OneTask |-> NoSession]
NoSessions == [t \in TwoTasks |-> NoSession]
MCSymmetry == Permutations(Owner)

\* Two processes and one task, without requests of users.
Plain ==
  [workers |-> Owner, tasks |-> {1}, planned |-> {1}, nodes |-> {write},
   unserved |-> {}, outcomes |-> {"succeeded", "unknown"}, crashing |-> Owner,
   closing |-> {}, requests |-> {"cancel"}, deadline |-> FALSE, early |-> FALSE]

\* A plan with a side effect that is cancelled; a call without a plan whose
\* user acts while it is submitted; one process that is closed under a plan
\* that only reads, with time budgets that run out.
SafetySettings ==
  {Plain, [Plain EXCEPT !.planned = {}, !.early = TRUE]} \cup
  {[Plain EXCEPT !.workers = {w}, !.nodes = {read}, !.outcomes = {"succeeded", "failed"},
                 !.crashing = {}, !.closing = {w}, !.requests = {"pause", "cancel"},
                 !.deadline = TRUE] : w \in Owner}

\* Nobody but the submitter acts on two tasks, one of which no handler serves;
\* one planned task is cancelled while one of the workers may crash.
Quiet == [Plain EXCEPT !.nodes = {read}, !.outcomes = {"succeeded"}, !.crashing = {w2}]
LiveSettings ==
  {[Quiet EXCEPT !.tasks = {1, 2}, !.planned = {}, !.unserved = {2}, !.requests = {}],
   Quiet}
=============================================================================
