-------------------------- MODULE DesktopApproval --------------------------
(***************************************************************************)
(* Human approval of a side effect: the pending actions of                 *)
(* core/approval.py, the worker that asks for one, the threads that        *)
(* execute an approved action (core/agent.py, approve_pending_action) and  *)
(* the windows in which users refuse, renew, pause, cancel and resume.     *)
(* All of them share the ledger of TaskStore.                              *)
(*                                                                         *)
(* An approval belongs to a task and a node.  It is consumed in the        *)
(* transaction that leases the task to the execution and opens its         *)
(* attempt.  Everything else takes several transactions, and a thread may  *)
(* stall or die between any two of them.  Every thread is a process of its *)
(* own; threads of one process exclude each other by the operation lock of *)
(* the agent and have fewer interleavings.                                 *)
(*                                                                         *)
(* A tool is asked for with the same arguments whenever its node is asked  *)
(* for, so sessions and plan versions, which then never differ between a   *)
(* task and its approvals, are left out.                                   *)
(***************************************************************************)
EXTENDS TaskStore

CONSTANTS
  Action,       \* approval requests, numbered as they are created
  Runner,       \* worker threads: they execute a task up to the request
  Executor,     \* threads in approve_pending_action; the code draws a fresh
                \* owner name for each execution, here the token tells them apart
  Desk,         \* user interface threads
  Planned,      \* tasks that execute a plan with all of Node; any other task
                \* asks for its one action, the node "approved_action"
  PlanAttempts, \* the attempts a plan allows for a node
  ToolOutcome,  \* what the approved tool call may end with
  MayCrash,     \* threads whose process may die
  UserAction,   \* what users request: "pause", "cancel"
  MayDrift,     \* whether files named in a request change while it waits
  MayExpire,    \* whether a request outlives its ten minutes
  MayBeLate     \* whether the time budget may be spent when the call is due

ASSUME ApprovalAssumption ==
  /\ Action \subseteq Nat
  /\ Owner = Runner \cup Executor /\ Runner \cap Executor = {}
  /\ Operation = SideEffect
  /\ Planned \subseteq Task
  /\ PlanAttempts \in Nat
  /\ ToolOutcome \subseteq {"succeeded", "failed", "unknown"}
  /\ MayCrash \subseteq Runner \cup Executor \cup Desk
  /\ UserAction \subseteq {"pause", "cancel"}
  /\ MayDrift \in BOOLEAN /\ MayExpire \in BOOLEAN /\ MayBeLate \in BOOLEAN

VARIABLES
  approval,     \* the desktop_approvals rows
  runner,       \* the local state of every worker thread
  executor,     \* ... of every approval execution
  desk,         \* ... of every user interface thread
  applied,      \* how often the world saw the effect of a node
  stray,        \* history: the nodes for which a thread that had lost its
                \* lease wrote the journal row of a call
  torn          \* history: the tasks that a failed write left waiting, after
                \* the write before it had been made

approvalVars == <<approval, runner, executor, desk, applied, stray, torn>>
vars == <<storeVars, approvalVars>>

ApprovalRow == [state : {"absent", "pending", "consumed", "cancelled"},
                task : Task \cup {None}, node : Node \cup {None},
                fresh : BOOLEAN, same : BOOLEAN]
NoApproval == [state |-> "absent", task |-> None, node |-> None,
               fresh |-> FALSE, same |-> FALSE]

RunnerState == [stage : {"idle", "plan", "step", "work", "begin", "prepared",
                         "report", "bind", "store", "mark", "ask", "create", "save",
                         "finish", "dead"},
                task : Task \cup {None}, token : Nat, node : Node \cup {None},
                attempt : Nat, outcome : TaskStatus \cup {"none"}, leased : BOOLEAN]
IdleRunner == [stage |-> "idle", task |-> None, token |-> 0, node |-> None,
               attempt |-> 0, outcome |-> "none", leased |-> FALSE]

Result == {"none", "succeeded", "failed", "unknown", "cancelled", "paused", "late"}
ExecutorState == [stage : {"idle", "consume", "claim", "enter", "select", "dispatch",
                           "apply", "record", "attempt", "finish", "dead"},
                  action : Action \cup {None}, token : Nat, attempt : Nat,
                  saw : EffectState \cup {"absent"}, result : Result,
                  cancel : BOOLEAN, pause : BOOLEAN, beat : BOOLEAN]
IdleExecutor == [stage |-> "idle", action |-> None, token |-> 0, attempt |-> 0,
                 saw |-> "absent", result |-> "none", cancel |-> FALSE,
                 pause |-> FALSE, beat |-> FALSE]

DeskState == [stage : {"idle", "node", "task", "copy", "drop", "list", "sweep", "dead"},
              action : Action \cup {None}, task : Task \cup {None}, todo : SUBSET Action]
IdleDesk == [stage |-> "idle", action |-> None, task |-> None, todo |-> {}]

\* Every task has been submitted.
Init ==
  /\ task = [t \in Task |-> [NewRow EXCEPT !.status = "queued", !.bound = TRUE]]
  /\ node = [t \in Task |-> [n \in Node |-> "absent"]]
  /\ attempts = [t \in Task |-> [n \in Node |-> <<>>]]
  /\ effect = [t \in Task |-> [x \in Operation |-> "absent"]]
  /\ approval = [a \in Action |-> NoApproval]
  /\ runner = [r \in Runner |-> IdleRunner]
  /\ executor = [p \in Executor |-> IdleExecutor]
  /\ desk = [d \in Desk |-> IdleDesk]
  /\ applied = [t \in Task |-> [n \in Node |-> 0]]
  /\ stray = {}
  /\ torn = {}

Ledger == UNCHANGED storeVars

\* begin_effect writes the row of a call of n under no lease: a thread may have
\* lost its lease by now.
BeginsCall(t, n, held) == stray' = IF held THEN stray ELSE stray \cup {<<t, n>>}

-----------------------------------------------------------------------------
(* The rows of desktop_approvals.                                          *)

Pending(a) == approval[a].state = "pending"
PendingOf(t) == {a \in Action : Pending(a) /\ approval[a].task = t}

\* INSERT of the next request, with the files as they are now.
CreateApproval(a, t, n) ==
  /\ approval[a].state = "absent"
  /\ \A b \in Action : b < a => approval[b].state # "absent"
  /\ approval' = [approval EXCEPT ![a] =
       [state |-> "pending", task |-> t, node |-> n, fresh |-> TRUE, same |-> TRUE]]

\* Mutant: the UPDATE matches the task instead of the request.
Cancelled_WholeTask(a) ==
  [b \in Action |-> IF Pending(b) /\ approval[b].task = approval[a].task
                    THEN [approval[b] EXCEPT !.state = "cancelled"] ELSE approval[b]]

\* cancel: UPDATE ... WHERE state='pending'.
Cancelled(a) ==
  IF Pending(a) THEN [approval EXCEPT ![a].state = "cancelled"] ELSE approval

Consumed(a) == [approval EXCEPT ![a].state = "consumed"]

\* What the claiming transaction asks of the request.
MayConsume(a) == Pending(a) /\ approval[a].fresh

-----------------------------------------------------------------------------
(* A worker executes a task up to the request.                             *)

RunnerAt(r, s) == runner[r].stage = s
RunnerGoto(r, s) == runner' = [runner EXCEPT ![r].stage = s]
RunnerGotoWith(r, s, o) == runner' = [runner EXCEPT ![r].stage = s, ![r].outcome = o]
RunnerLeave(r) == runner' = [runner EXCEPT ![r] = IdleRunner]
RunnerHeld(r) == Held(runner[r].task, r, runner[r].token)
RunnerOthers == UNCHANGED <<approval, executor, desk, applied, torn>>
RunnerAlone == RunnerOthers /\ UNCHANGED stray

\* A write that presents the lease, or the LeaseConflict that ends the run.
RunnerFenced(r) == ~RunnerHeld(r) /\ RunnerLeave(r) /\ Ledger

RunnerClaim(r) ==
  /\ RunnerAt(r, "idle")
  /\ \E t \in Task :
       /\ ClaimHead(t, r)
       /\ runner' = [runner EXCEPT ![r].stage = "plan", ![r].task = t,
                                   ![r].token = task'[t].token]
  /\ RunnerAlone

\* The nodes that the executor of plans will not replay.
Unresolved(t) ==
  \E n \in Node : \/ node[t][n] \in {"unknown", "recovery_required"}
                  \/ node[t][n] \in {"running", "interrupted"} /\ n \in SideEffect

RunnerPlan(r) ==
  LET t == runner[r].task
      fresh == \A n \in Node : node[t][n] = "absent"
  IN /\ RunnerAt(r, "plan") /\ t \in Planned
     /\ \/ fresh /\ SavePlan(t, Node, r, runner[r].token) /\ RunnerGoto(r, "step")
        \/ fresh /\ RunnerFenced(r)
        \/ ~fresh /\ Unresolved(t) /\ Ledger /\ RunnerGotoWith(r, "finish", "recovery_required")
        \/ ~fresh /\ ~Unresolved(t) /\ Ledger /\ RunnerGoto(r, "step")
     /\ RunnerAlone

\* A stop request, which the control of the run may have been told of.
Stopping(t) == task[t].cancel \/ task[t].pause
StopOutcome(t) == IF task[t].cancel THEN "cancelled" ELSE "paused"

\* The run of a task without a plan prepares its one action.
RunnerPrepare(r) ==
  LET t == runner[r].task IN
  /\ RunnerAt(r, "plan") /\ t \notin Planned
  /\ \/ RunnerGoto(r, "bind")
     \/ Stopping(t) /\ RunnerGotoWith(r, "finish", StopOutcome(t))
  /\ Ledger /\ RunnerAlone

\* The next node.  One that waits already is asked for again, not prepared
\* again.  Before any other the control is polled and the attempts are counted.
RunnerStep(r) ==
  LET t == runner[r].task
      open == {n \in Node : node[t][n] \notin Success}
  IN /\ RunnerAt(r, "step")
     /\ \/ open = {} /\ Ledger /\ RunnerGotoWith(r, "finish", "succeeded")
        \/ Stopping(t) /\ Ledger /\ RunnerGotoWith(r, "finish", StopOutcome(t))
        \/ \E n \in open :
             \/ /\ node[t][n] = "waiting_human" /\ Ledger
                /\ runner' = [runner EXCEPT ![r].stage = "bind", ![r].node = n]
             \/ /\ node[t][n] # "waiting_human" /\ Len(attempts[t][n]) < PlanAttempts
                /\ StartAttempt(t, n, r, runner[r].token)
                /\ runner' = [runner EXCEPT
                     ![r].stage = IF n \in SideEffect THEN "begin" ELSE "work",
                     ![r].node = n, ![r].attempt = Len(attempts'[t][n])]
             \/ /\ node[t][n] # "waiting_human" /\ RunnerHeld(r)
                /\ ~StartAllowed(t, n) \/ Len(attempts[t][n]) >= PlanAttempts
                /\ Ledger
                /\ RunnerGotoWith(r, "finish", "failed")
        \/ open # {} /\ RunnerFenced(r)
     /\ RunnerAlone

\* A node without side effects.
RunnerWork(r) ==
  LET w == runner[r] IN
  /\ RunnerAt(r, "work")
  /\ \/ /\ ReportAttempt(w.task, w.node, w.attempt, "succeeded", r, w.token)
        /\ RunnerGoto(r, "step")
     \/ RunnerFenced(r)
  /\ RunnerAlone

\* The first call of the tool only prepares.  The journal treats it like any
\* other call, and refuses it over an earlier one whose outcome is open.  The
\* two statements of begin_effect, which SelectCall and DispatchCall take
\* apart, are one step for a call that changes nothing.
RunnerBegin(r) ==
  LET w == runner[r] IN
  /\ RunnerAt(r, "begin")
  /\ \/ /\ EffectAdmits(effect[w.task][w.node])
        /\ EffectInsert(w.task, w.node) \/ EffectRedispatch(w.task, w.node)
        /\ BeginsCall(w.task, w.node, RunnerHeld(r))
        /\ UNCHANGED <<task, node, attempts>> /\ RunnerGoto(r, "prepared")
     \/ /\ ~EffectAdmits(effect[w.task][w.node]) /\ Ledger /\ UNCHANGED stray
        /\ RunnerGotoWith(r, "report",
             IF effect[w.task][w.node] = "dispatched" THEN "recovery_required" ELSE "failed")
  /\ RunnerOthers
RunnerPrepared(r) ==
  LET w == runner[r] IN
  /\ RunnerAt(r, "prepared")
  /\ EffectFinish(w.task, w.node, "prepared") /\ UNCHANGED <<task, node, attempts>>
  /\ RunnerGotoWith(r, "report", "waiting_human")
  /\ RunnerAlone

\* The result is written; the control is polled before anybody is asked.
RunnerReport(r) ==
  LET w == runner[r] IN
  /\ RunnerAt(r, "report")
  /\ \/ /\ ReportAttempt(w.task, w.node, w.attempt, w.outcome, r, w.token)
        /\ \/ RunnerGoto(r, IF w.outcome = "waiting_human" THEN "bind" ELSE "finish")
           \/ Stopping(w.task) /\ RunnerGotoWith(r, "finish", StopOutcome(w.task))
     \/ RunnerFenced(r)
  /\ RunnerAlone

\* _bind_pending_task reads the task.  It will present the lease of the run if
\* the row has an owner by now, and no lease if it has none.  In a task without
\* a plan an action that waits already is found again, any other gets the
\* one-step plan.
RunnerBind(r) ==
  LET t == runner[r].task
      waits == {n \in SideEffect : node[t][n] \in {"pending", "waiting_human"}}
      next(s, n) == [runner EXCEPT ![r].stage = s, ![r].node = n,
                                   ![r].leased = task[t].owner # None]
  IN /\ RunnerAt(r, "bind")
     /\ \/ runner[r].node # None /\ runner' = next("ask", runner[r].node)
        \/ runner[r].node = None /\ \E n \in waits : runner' = next("ask", n)
        \/ runner[r].node = None /\ waits = {} /\ \E n \in SideEffect : runner' = next("store", n)
     /\ Ledger /\ RunnerAlone

\* What _bind_pending_task presents as its lease.
ShownOwner(r) == IF runner[r].leased THEN r ELSE None
ShownToken(r) == IF runner[r].leased THEN runner[r].token ELSE 0
RunnerRefused(r) ==
  ~Guard(runner[r].task, ShownOwner(r), ShownToken(r)) /\ RunnerLeave(r) /\ Ledger

RunnerStore(r) ==
  LET w == runner[r] IN
  /\ RunnerAt(r, "store")
  /\ \/ SavePlan(w.task, {w.node}, ShownOwner(r), ShownToken(r)) /\ RunnerGoto(r, "mark")
     \/ RunnerRefused(r)
  /\ RunnerAlone
RunnerMark(r) ==
  LET w == runner[r] IN
  /\ RunnerAt(r, "mark")
  /\ \/ /\ SetNode(w.task, w.node, "waiting_human", ShownOwner(r), ShownToken(r))
        /\ RunnerGoto(r, "ask")
     \/ RunnerRefused(r)
  /\ RunnerAlone

\* The task waits, which gives up the lease; no stop request is looked at.
RunnerAsk(r) ==
  LET w == runner[r] IN
  /\ RunnerAt(r, "ask")
  /\ \/ /\ UpdateTask(w.task, "waiting_human", ShownOwner(r), ShownToken(r))
        /\ RunnerGoto(r, "create")
     \/ RunnerRefused(r)
  /\ RunnerAlone

\* Then the request is written.  create raises over arguments that look like
\* credentials, a file that cannot be hashed or a database that stays busy; the
\* run ends, and its failure is not recorded: the task no longer runs.
RunnerCreate(r) ==
  LET t == runner[r].task IN
  /\ RunnerAt(r, "create")
  /\ \/ /\ \E a \in Action : CreateApproval(a, t, runner[r].node)
        /\ RunnerGoto(r, "save") /\ torn' = torn \ {t}
     \/ RunnerLeave(r) /\ torn' = torn \cup {t} /\ UNCHANGED approval
  /\ Ledger /\ UNCHANGED <<executor, desk, applied, stray>>

\* The answer of the run is kept unless the row has moved on.
RunnerSave(r) ==
  LET w == runner[r] IN
  /\ RunnerAt(r, "save")
  /\ \/ SaveReleasedOutput(w.task, r, w.token)
     \/ ~ReleasedBy(w.task, r, w.token) /\ Ledger
  /\ RunnerLeave(r)
  /\ RunnerAlone

RunnerFinish(r) ==
  LET w == runner[r] IN
  /\ RunnerAt(r, "finish")
  /\ \/ FinishWorkerTask(w.task, w.outcome, TRUE, r, w.token)
     \/ ~(RunnerHeld(r) /\ task[w.task].status = "running") /\ Ledger
  /\ RunnerLeave(r)
  /\ RunnerAlone

\* The heartbeat thread of a run that still works on its task.
RunnerBeat(r) ==
  /\ ~RunnerAt(r, "idle") /\ ~RunnerAt(r, "dead")
  /\ Heartbeat(runner[r].task, r, runner[r].token)
  /\ UNCHANGED approvalVars

-----------------------------------------------------------------------------
(* approve_pending_action.                                                 *)

ExecutorAt(p, s) == executor[p].stage = s
ExecutorGoto(p, s) == executor' = [executor EXCEPT ![p].stage = s]
ExecutorGotoWith(p, s, o) ==
  executor' = [executor EXCEPT ![p].stage = s, ![p].result = o]
ExecutorLeave(p) == executor' = [executor EXCEPT ![p] = IdleExecutor]
ExecutorOthers == UNCHANGED <<approval, runner, desk, applied, torn>>
ExecutorAlone == ExecutorOthers /\ UNCHANGED stray

TaskOf(p) == approval[executor[p].action].task
NodeOf(p) == approval[executor[p].action].node
ExecutorHeld(p) == Held(TaskOf(p), p, executor[p].token)

\* The user confirms a request that still waits; expired ones are found, too.
Preview(p) ==
  /\ ExecutorAt(p, "idle")
  /\ \E a \in Action :
       /\ Pending(a)
       /\ task[approval[a].task].status = "waiting_human"
       /\ executor' = [executor EXCEPT ![p].stage = "consume", ![p].action = a]
  /\ Ledger /\ ExecutorAlone

\* consume, before its transaction: the request waits, is not ten minutes old,
\* and the files it names are as they were.
Consume(p) ==
  LET a == executor[p].action IN
  /\ ExecutorAt(p, "consume")
  /\ IF Pending(a) /\ approval[a].fresh /\ approval[a].same
     THEN ExecutorGoto(p, "claim") ELSE ExecutorLeave(p)
  /\ Ledger /\ ExecutorAlone

\* claim_desktop_approval: the request is consumed in the transaction that
\* leases the task and opens the attempt.  It raises when a check fails or
\* the database stays busy; then the request may be tried again.
ClaimAction(p) ==
  LET a == executor[p].action
      t == approval[a].task
      n == approval[a].node
  IN /\ ExecutorAt(p, "claim")
     /\ \/ /\ MayConsume(a)
           /\ ClaimApproval(t, n, p)
           /\ approval' = Consumed(a)
           /\ executor' = [executor EXCEPT
                ![p].stage = "enter", ![p].token = task'[t].token,
                ![p].attempt = Len(attempts'[t][n]), ![p].beat = TRUE]
        \/ ExecutorLeave(p) /\ Ledger /\ UNCHANGED approval
     /\ UNCHANGED <<runner, desk, applied, stray, torn>>

\* The row is read once more before the tool is called.
EnterCall(p) ==
  LET row == task[TaskOf(p)]
      cancel == executor[p].cancel \/ row.cancel
      pause == executor[p].pause \/ row.pause
  IN /\ ExecutorAt(p, "enter")
     /\ \/ ~cancel /\ ~pause /\ ExecutorGoto(p, "select")
        \/ cancel /\ ExecutorGotoWith(p, "attempt", "cancelled")
        \/ ~cancel /\ pause /\ ExecutorGotoWith(p, "attempt", "paused")
        \/ ~cancel /\ ~pause /\ MayBeLate /\ ExecutorGotoWith(p, "attempt", "late")
     /\ Ledger /\ ExecutorAlone

\* begin_effect: its SELECT, then its write.
SelectCall(p) ==
  LET s == effect[TaskOf(p)][NodeOf(p)] IN
  /\ ExecutorAt(p, "select")
  /\ IF EffectAdmits(s)
     THEN executor' = [executor EXCEPT ![p].stage = "dispatch", ![p].saw = s]
     ELSE ExecutorGotoWith(p, "attempt",
            IF s \in {"dispatched", "compensating", "compensation_unknown"}
            THEN "unknown" ELSE "failed")
  /\ Ledger /\ ExecutorAlone

DispatchCall(p) ==
  LET t == TaskOf(p)
      n == NodeOf(p)
  IN /\ ExecutorAt(p, "dispatch")
     /\ \/ /\ IF executor[p].saw = "absent" THEN EffectInsert(t, n) ELSE EffectRedispatch(t, n)
           /\ BeginsCall(t, n, ExecutorHeld(p))
           /\ UNCHANGED <<task, node, attempts>> /\ ExecutorGoto(p, "apply")
        \/ /\ executor[p].saw = "absent" /\ effect[t][n] # "absent"
           /\ Ledger /\ UNCHANGED stray /\ ExecutorGotoWith(p, "attempt", "failed")
     /\ ExecutorOthers

\* The tool.  A control error inside it leaves the outcome open, too.
ApplyCall(p) ==
  LET t == TaskOf(p)
      n == NodeOf(p)
      happened == [applied EXCEPT ![t][n] = @ + 1]
  IN /\ ExecutorAt(p, "apply")
     /\ \E o \in ToolOutcome :
          /\ ExecutorGotoWith(p, "record", o)
          /\ \/ o # "failed" /\ applied' = happened
             \/ o # "succeeded" /\ UNCHANGED applied
     /\ Ledger /\ UNCHANGED <<approval, runner, desk, stray, torn>>

RecordCall(p) ==
  LET o == executor[p].result IN
  /\ ExecutorAt(p, "record")
  /\ EffectFinish(TaskOf(p), NodeOf(p), IF o = "succeeded" THEN "committed" ELSE o)
  /\ UNCHANGED <<task, node, attempts>>
  /\ ExecutorGoto(p, "attempt")
  /\ ExecutorAlone

\* A call that was not dispatched puts its node back into waiting.
NodeResult(o) == IF o \in {"cancelled", "paused", "late"} THEN "waiting_human" ELSE o
TaskResult(p) ==
  LET o == executor[p].result IN
  IF o = "succeeded"
  THEN IF \A n \in Node : node[TaskOf(p)][n] \in Success \cup {"absent"}
       THEN "succeeded" ELSE "paused"
  ELSE IF o = "unknown" THEN "recovery_required"
  ELSE IF o = "late" THEN "failed" ELSE o

FinishCall(p) ==
  FinishAttempt(TaskOf(p), NodeOf(p), executor[p].attempt,
                NodeResult(executor[p].result), p, executor[p].token)
FinishApproved(p) ==
  UpdateTask(TaskOf(p), TaskResult(p), p, executor[p].token)

\* Two transactions: first the attempt and its node, then the task.  The lease
\* is presented in both; without it the result of the call is dropped.
CloseAttempt(p) ==
  /\ ExecutorAt(p, "attempt")
  /\ \/ FinishCall(p) /\ ExecutorGoto(p, "finish")
     \/ ~ExecutorHeld(p) /\ ExecutorLeave(p) /\ Ledger
  /\ ExecutorAlone
CloseTask(p) ==
  /\ ExecutorAt(p, "finish")
  /\ \/ FinishApproved(p)
     \/ ~ExecutorHeld(p) /\ Ledger
  /\ ExecutorLeave(p)
  /\ ExecutorAlone

\* The heartbeat thread of the execution, every second.
ApprovalBeat(p) ==
  LET row == task[TaskOf(p)] IN
  /\ executor[p].beat
  /\ \/ /\ Heartbeat(TaskOf(p), p, executor[p].token)
        /\ executor' = [executor EXCEPT ![p].cancel = @ \/ row.cancel,
                                        ![p].pause = @ \/ row.pause]
     \/ /\ ~ExecutorHeld(p) /\ Ledger
        /\ executor' = [executor EXCEPT ![p].cancel = TRUE, ![p].beat = FALSE]
  /\ ExecutorAlone

-----------------------------------------------------------------------------
(* User interfaces: the confirmation in the chat and the task list.        *)

DeskAt(d, s) == desk[d].stage = s
DeskLeave(d) == desk' = [desk EXCEPT ![d] = IdleDesk]
DeskAlone == UNCHANGED <<approval, runner, executor, applied, stray, torn>>

\* cancel_pending_action: the request, then its node, then its task, each in a
\* transaction of its own that presents no lease.  The second and the third may
\* find the database busy for too long.
Reject(d) ==
  /\ DeskAt(d, "idle")
  /\ \E a \in Action :
       /\ Pending(a)
       /\ approval' = Cancelled(a)
       /\ desk' = [desk EXCEPT ![d].stage = "node", ![d].action = a]
  /\ Ledger /\ UNCHANGED <<runner, executor, applied, stray, torn>>
RejectNode(d) ==
  LET t == approval[desk[d].action].task
      n == approval[desk[d].action].node
  IN /\ DeskAt(d, "node")
     /\ \/ SetNode(t, n, "cancelled", None, 0) /\ desk' = [desk EXCEPT ![d].stage = "task"]
        \/ ~Guard(t, None, 0) /\ DeskLeave(d) /\ Ledger
     /\ DeskAlone
\* Either of them raises.
RejectFails(d) ==
  /\ DeskAt(d, "node") \/ DeskAt(d, "task")
  /\ torn' = torn \cup {approval[desk[d].action].task}
  /\ DeskLeave(d)
  /\ Ledger /\ UNCHANGED <<approval, runner, executor, applied, stray>>
RejectTask(d) ==
  LET t == approval[desk[d].action].task IN
  /\ DeskAt(d, "task")
  /\ \/ UpdateTask(t, "cancelled", None, 0)
     \/ ~Guard(t, None, 0) /\ Ledger
  /\ DeskLeave(d)
  /\ DeskAlone

\* previewTask renews the latest request of a task.  A copy is made before the
\* old request is dropped; without a copy it is dropped when its files changed.
\* When the copy cannot be made, the old request stays.
Renew(d) ==
  /\ DeskAt(d, "idle")
  /\ \E a \in Action :
       /\ Pending(a)
       /\ \A b \in PendingOf(approval[a].task) : b <= a
       /\ desk' = [desk EXCEPT ![d].stage = IF approval[a].same THEN "copy" ELSE "drop",
                               ![d].action = a]
  /\ Ledger /\ DeskAlone
CopyRequest(d) ==
  LET a == desk[d].action IN
  /\ DeskAt(d, "copy")
  /\ \/ /\ \E b \in Action : CreateApproval(b, approval[a].task, approval[a].node)
        /\ desk' = [desk EXCEPT ![d].stage = "drop"]
     \/ DeskLeave(d) /\ UNCHANGED approval
  /\ Ledger /\ UNCHANGED <<runner, executor, applied, stray, torn>>
DropRequest(d) ==
  /\ DeskAt(d, "drop")
  /\ approval' = Cancelled(desk[d].action)
  /\ DeskLeave(d)
  /\ Ledger /\ UNCHANGED <<runner, executor, applied, stray, torn>>

\* controlTask: a pause or a cancellation, from a list that may be out of date.
\* After a cancellation the requests of the task are cancelled one by one.
ControlTask(d) ==
  /\ DeskAt(d, "idle")
  /\ \E t \in Task, action \in UserAction :
       /\ RequestControl(t, action)
       /\ desk' = IF action = "cancel" THEN [desk EXCEPT ![d].stage = "list", ![d].task = t]
                  ELSE desk
  /\ DeskAlone
ListRequests(d) ==
  /\ DeskAt(d, "list")
  /\ desk' = [desk EXCEPT ![d].stage = "sweep", ![d].todo = PendingOf(desk[d].task)]
  /\ Ledger /\ DeskAlone
SweepRequest(d) ==
  /\ DeskAt(d, "sweep")
  /\ \/ \E a \in desk[d].todo :
          /\ approval' = Cancelled(a)
          /\ desk' = [desk EXCEPT ![d].todo = @ \ {a}]
     \/ desk[d].todo = {} /\ DeskLeave(d) /\ UNCHANGED approval
  /\ Ledger /\ UNCHANGED <<runner, executor, applied, stray, torn>>

ResumeTask(d) ==
  DeskAt(d, "idle") /\ (\E t \in Task : Resume(t)) /\ UNCHANGED approvalVars

\* The timer of the task list, in any window that is open.
RefreshTasks ==
  /\ \E d \in Desk : ~DeskAt(d, "dead")
  /\ ExpireLeases
  /\ UNCHANGED approvalVars

-----------------------------------------------------------------------------
(* The end of a process, and the passing of time.                          *)

RunnerCrash(r) ==
  /\ r \in MayCrash /\ ~RunnerAt(r, "dead")
  /\ runner' = [runner EXCEPT ![r] = [IdleRunner EXCEPT !.stage = "dead"]]
  /\ Ledger /\ RunnerAlone
ExecutorCrash(p) ==
  /\ p \in MayCrash /\ ~ExecutorAt(p, "dead")
  /\ executor' = [executor EXCEPT ![p] = [IdleExecutor EXCEPT !.stage = "dead"]]
  /\ Ledger /\ ExecutorAlone
DeskCrash(d) ==
  /\ d \in MayCrash /\ ~DeskAt(d, "dead")
  /\ desk' = [desk EXCEPT ![d] = [IdleDesk EXCEPT !.stage = "dead"]]
  /\ Ledger /\ DeskAlone

LeaseTime(t) == LeaseLapses(t) /\ UNCHANGED approvalVars
RequestExpires(a) ==
  /\ MayExpire /\ Pending(a) /\ approval[a].fresh
  /\ approval' = [approval EXCEPT ![a].fresh = FALSE]
  /\ Ledger /\ UNCHANGED <<runner, executor, desk, applied, stray, torn>>
FileDrifts(a) ==
  /\ MayDrift /\ Pending(a) /\ approval[a].same
  /\ approval' = [approval EXCEPT ![a].same = FALSE]
  /\ Ledger /\ UNCHANGED <<runner, executor, desk, applied, stray, torn>>

-----------------------------------------------------------------------------
RunnerMain(r) ==
  \/ RunnerClaim(r) \/ RunnerPlan(r) \/ RunnerPrepare(r) \/ RunnerStep(r)
  \/ RunnerWork(r) \/ RunnerBegin(r) \/ RunnerPrepared(r) \/ RunnerReport(r)
  \/ RunnerBind(r) \/ RunnerStore(r) \/ RunnerMark(r) \/ RunnerAsk(r)
  \/ RunnerCreate(r) \/ RunnerSave(r) \/ RunnerFinish(r)
ExecutorMain(p) ==
  \/ Consume(p) \/ ClaimAction(p) \/ EnterCall(p) \/ SelectCall(p)
  \/ DispatchCall(p) \/ ApplyCall(p) \/ RecordCall(p)
  \/ CloseAttempt(p) \/ CloseTask(p)
DeskMain(d) ==
  \/ RejectNode(d) \/ RejectTask(d) \/ RejectFails(d)
  \/ CopyRequest(d) \/ DropRequest(d) \/ ListRequests(d) \/ SweepRequest(d)
User(d) == Reject(d) \/ Renew(d) \/ ControlTask(d) \/ ResumeTask(d)

Next ==
  \/ \E r \in Runner : RunnerMain(r) \/ RunnerBeat(r) \/ RunnerCrash(r)
  \/ \E p \in Executor : Preview(p) \/ ExecutorMain(p) \/ ApprovalBeat(p) \/ ExecutorCrash(p)
  \/ \E d \in Desk : DeskMain(d) \/ User(d) \/ DeskCrash(d)
  \/ RefreshTasks
  \/ \E t \in Task : LeaseTime(t)
  \/ \E a \in Action : RequestExpires(a) \/ FileDrifts(a)

Spec == Init /\ [][Next]_vars

\* The threads of a living process keep going, timers keep firing, and a lease
\* that nobody renews lapses.  Users owe nothing.
Unrenewed(t) ==
  \/ task[t].owner \in Executor /\ ~executor[task[t].owner].beat
  \/ task[t].owner \in Runner /\ runner[task[t].owner].stage \in {"idle", "dead"}
Fairness ==
  /\ \A r \in Runner : WF_vars(RunnerMain(r))
  /\ \A p \in Executor : WF_vars(ExecutorMain(p)) /\ WF_vars(ApprovalBeat(p))
  /\ \A d \in Desk : WF_vars(DeskMain(d))
  /\ WF_vars(RefreshTasks)
  /\ \A t \in Task : WF_vars(Unrenewed(t) /\ LeaseTime(t))

FairSpec == Spec /\ Fairness

-----------------------------------------------------------------------------
\* The tables and the threads keep their types.
RowsTypeOK ==
  /\ StoreTypeOK
  /\ approval \in [Action -> ApprovalRow]
  /\ runner \in [Runner -> RunnerState]
  /\ executor \in [Executor -> ExecutorState]
  /\ desk \in [Desk -> DeskState]
  /\ applied \in [Task -> [Node -> Nat]]

\* Every variable keeps its type.
TypeOK == RowsTypeOK /\ stray \subseteq Task \X Node /\ torn \subseteq Task

\* An approved effect happens once, whatever is renewed, asked for again,
\* interrupted or resumed, unless a call of it was begun without the lease: the
\* journal row is read and written in two statements (tasks/effects.py:29, :38)
\* and a thread that stalled before the second writes it over all that happened.
ExecutedOnce == \A t \in Task, n \in Node : applied[t][n] <= 1 \/ <<t, n>> \in stray

\* A task that waits for a decision, and was not asked to stop, has a request to
\* decide on, or a thread is about to write it or to refuse the task, unless a
\* write failed after the task had begun to wait (core/agent.py:2138 behind
\* :2137) or after its request was gone (:2482).  Such a task waits in vain until
\* it is asked for again, which ends the exception.
WaitingIsDecidable ==
  \A t \in Task :
    (task[t].status = "waiting_human" /\ ~task[t].cancel /\ ~task[t].pause)
      => \/ PendingOf(t) # {} \/ t \in torn
         \/ \E r \in Runner : RunnerAt(r, "create") /\ runner[r].task = t
         \/ \E d \in Desk : /\ desk[d].stage \in {"node", "task"}
                            /\ approval[desk[d].action].task = t

\* The execution of an approved action ends, even when its process dies.
ExecutionEnds ==
  \A t \in Task : (task[t].owner \in Executor) ~> (task[t].owner \notin Executor)
=============================================================================
