--------------------------- MODULE ApprovalProofs ---------------------------
(***************************************************************************)
(* Proofs about the approval of side effects, for any number of tasks,     *)
(* requests, threads and windows: every variable keeps its type; a task    *)
(* that waits for a decision can be decided, as long as worker threads and *)
(* windows live and the files of a request stay as they are; threads and   *)
(* windows use the ledger as any client of it may, so that its leases hold *)
(* here, too; and an approved effect takes place once, unless a call of it *)
(* was begun without the lease.                                            *)
(***************************************************************************)
EXTENDS DesktopApproval, LedgerProofs

-----------------------------------------------------------------------------
(* What a transaction may do to a task that waits.                         *)

Waits(row) == row.status = "waiting_human" /\ ~row.cancel /\ ~row.pause

\* A row starts to wait by update_task only, keeps its cancellation, and has no
\* owner while it waits.
Calm(row, new) ==
  /\ Waits(new) => Waits(row)
  /\ row.cancel => new.cancel
  /\ new.status = "waiting_human" =>
       new.owner = None \/ (row.status = "waiting_human" /\ new.owner = row.owner)
WaitersFree == \A t \in Task : task[t].status = "waiting_human" => task[t].owner = None
StoreStep ==
  /\ StoreTypeOK'
  /\ \A t \in Task : Calm(task[t], task'[t])
  /\ WaitersFree => WaitersFree'

\* A transaction on one row.
LEMMA OneRowSteps ==
  ASSUME StoreTypeOK, NEW t \in Task, NEW q \in TaskRow, Calm(task[t], q),
         task' = [task EXCEPT ![t] = q],
         node' \in [Task -> [Node -> NodeStatus \cup {"absent"}]],
         attempts' \in [Task -> [Node -> Seq(Attempt)]],
         effect' \in [Task -> [Operation -> EffectState \cup {"absent"}]]
  PROVE  StoreStep
<1>1. task' \in [Task -> TaskRow] /\ task'[t] = q /\ \A u \in Task \ {t} : task'[u] = task[u]
  BY DEF StoreTypeOK
<1>2. StoreTypeOK'
  BY <1>1 DEF StoreTypeOK
<1>3. \A u \in Task : Calm(task[u], task'[u])
  BY <1>1 DEF Calm
<1>4. WaitersFree => WaitersFree'
  BY <1>3 DEF Calm, WaitersFree
<1> QED BY <1>2, <1>3, <1>4 DEF StoreStep

\* A transaction that writes no task row.
LEMMA NoRowSteps ==
  ASSUME StoreTypeOK, task' = task,
         node' \in [Task -> [Node -> NodeStatus \cup {"absent"}]],
         attempts' \in [Task -> [Node -> Seq(Attempt)]],
         effect' \in [Task -> [Operation -> EffectState \cup {"absent"}]]
  PROVE  StoreStep
BY DEF StoreStep, StoreTypeOK, Calm, WaitersFree

\* A step that writes no table.
LEMMA NothingSteps == ASSUME StoreTypeOK, UNCHANGED storeVars PROVE StoreStep
BY NoRowSteps DEF storeVars, StoreTypeOK

\* The fields of a row after the writes of a status.
LEMMA StatusFields ==
  ASSUME NEW row \in TaskRow, NEW s \in TaskStatus
  PROVE  /\ WithStatus(row, s).status = s /\ WithStatus(row, s).cancel = row.cancel
         /\ s \in Releasing => WithStatus(row, s).owner = None
         /\ ReleasedWith(row, s).status = s /\ ReleasedWith(row, s).cancel = row.cancel
         /\ ReleasedWith(row, s).owner = None
BY DEF WithStatus, ReleasedWith, Unowned, TaskRow

\* update_task: the row waits if and only if it is told to.
LEMMA UpdateSteps ==
  ASSUME StoreTypeOK, NEW t \in Task, NEW s \in TaskStatus, NEW o, NEW k, UpdateTask(t, s, o, k)
  PROVE  /\ s # "waiting_human" => StoreStep
         /\ StoreTypeOK' /\ (WaitersFree => WaitersFree')
         /\ task'[t].status = s /\ (task[t].cancel => task'[t].cancel)
         /\ \A u \in Task \ {t} : task'[u] = task[u]
<1> DEFINE q == WithStatus(task[t], s)
<1>1. task[t] \in TaskRow
  BY DEF StoreTypeOK
<1>2. q \in TaskRow /\ q.status = s /\ q.cancel = task[t].cancel /\ (s \in Releasing => q.owner = None)
  BY <1>1, StatusFields, WithStatusType
<1>3. task' = [task EXCEPT ![t] = q] /\ UNCHANGED <<node, attempts, effect>>
  BY DEF UpdateTask
<1> HIDE DEF q
<1>4. task' \in [Task -> TaskRow] /\ task'[t] = q /\ \A u \in Task \ {t} : task'[u] = task[u]
  BY <1>2, <1>3 DEF StoreTypeOK
<1>5. StoreTypeOK'
  BY <1>3, <1>4 DEF StoreTypeOK
<1>6. WaitersFree => WaitersFree'
  BY <1>2, <1>4 DEF WaitersFree, Releasing, Stopped
<1>7. s # "waiting_human" => StoreStep
  <2> SUFFICES ASSUME s # "waiting_human" PROVE StoreStep
    OBVIOUS
  <2>1. Calm(task[t], q)
    BY <1>2 DEF Calm, Waits
  <2> QED BY <1>2, <1>3, <2>1, OneRowSteps DEF StoreTypeOK
<1> QED BY <1>2, <1>4, <1>5, <1>6, <1>7

\* The last write of a worker.
LEMMA FinishSteps ==
  ASSUME StoreTypeOK, NEW t \in Task, NEW s \in TaskStatus \ {"waiting_human"}, NEW b \in BOOLEAN,
         NEW o, NEW k \in Nat, FinishWorkerTask(t, s, b, o, k)
  PROVE  StoreStep
<1> USE ConstantsAssumption
<1> DEFINE f == FinishStatus(task[t], s)
           p == ReleasedWith(task[t], f)
           q == WithOutput(p, b, k)
<1>1. task[t] \in TaskRow /\ task[t].owner # None
  BY DEF StoreTypeOK, FinishWorkerTask, Held
<1>2. f \in TaskStatus \ {"waiting_human"}
  BY DEF FinishStatus, TaskStatus, Terminal, Stopped
<1>3. task' = [task EXCEPT ![t] = q] /\ UNCHANGED <<node, attempts, effect>>
  BY DEF FinishWorkerTask
<1> HIDE DEF f
<1>4. p \in TaskRow /\ p.status = f /\ p.cancel = task[t].cancel
  BY <1>1, <1>2, StatusFields, ReleasedWithType
<1> HIDE DEF p
<1>5. q \in TaskRow /\ q.status = f /\ q.cancel = task[t].cancel
  BY <1>4 DEF WithOutput, TaskRow
<1> HIDE DEF q
<1>6. Calm(task[t], q)
  BY <1>2, <1>5 DEF Calm, Waits
<1> QED BY <1>3, <1>5, <1>6, OneRowSteps DEF StoreTypeOK

\* The output of a run that released its lease.
LEMMA OutputSteps ==
  ASSUME StoreTypeOK, NEW t \in Task, NEW o, NEW k \in Nat, SaveReleasedOutput(t, o, k)
  PROVE  StoreStep
<1> DEFINE q == [task[t] EXCEPT !.output = k]
<1>1. task[t] \in TaskRow /\ task' = [task EXCEPT ![t] = q] /\ UNCHANGED <<node, attempts, effect>>
  BY DEF StoreTypeOK, SaveReleasedOutput
<1>2. q \in TaskRow /\ Calm(task[t], q)
  BY <1>1 DEF TaskRow, Calm, Waits
<1> HIDE DEF q
<1> QED BY <1>1, <1>2, OneRowSteps DEF StoreTypeOK

\* A heartbeat, and the lapse of a lease.
LEMMA LeaseSteps ==
  ASSUME StoreTypeOK, NEW t \in Task, (\E o, k : Heartbeat(t, o, k)) \/ LeaseLapses(t)
  PROVE  StoreStep
<1>1. PICK l \in {"live", "lapsed"} :
        task' = [task EXCEPT ![t].lease = l] /\ UNCHANGED <<node, attempts, effect>>
  BY DEF Heartbeat, LeaseLapses
<1> DEFINE q == [task[t] EXCEPT !.lease = l]
<1>2. task[t] \in TaskRow /\ task' = [task EXCEPT ![t] = q]
  BY <1>1 DEF StoreTypeOK
<1>3. q \in TaskRow /\ Calm(task[t], q)
  BY <1>2 DEF TaskRow, Calm, Waits
<1> HIDE DEF q
<1> QED BY <1>1, <1>2, <1>3, OneRowSteps DEF StoreTypeOK

\* A pause or a cancellation.
LEMMA ControlSteps ==
  ASSUME StoreTypeOK, NEW t \in Task, NEW action, RequestControl(t, action)
  PROVE  StoreStep /\ (action = "cancel" => task'[t].cancel)
<1> DEFINE a == Asked(task[t], action)
           q == IF Idle(task[t]) THEN Settled(a) ELSE a
<1>1. task[t] \in TaskRow /\ task' = [task EXCEPT ![t] = q] /\ UNCHANGED <<node, attempts, effect>>
  BY DEF StoreTypeOK, RequestControl
<1>2. /\ a \in TaskRow /\ a.status = task[t].status /\ a.owner = task[t].owner
      /\ (task[t].cancel => a.cancel) /\ (action = "cancel" => a.cancel) /\ (task[t].pause => a.pause)
  <2>1. a \in TaskRow
    BY <1>1, AskedType
  <2>2. ASSUME NEW c \in BOOLEAN, NEW p \in BOOLEAN
        PROVE  /\ [task[t] EXCEPT !.cancel = c, !.pause = p].status = task[t].status
               /\ [task[t] EXCEPT !.cancel = c, !.pause = p].owner = task[t].owner
               /\ [task[t] EXCEPT !.cancel = c, !.pause = p].cancel = c
               /\ [task[t] EXCEPT !.cancel = c, !.pause = p].pause = p
    BY <1>1 DEF TaskRow
  <2>3. a = [task[t] EXCEPT !.cancel = task[t].cancel \/ action = "cancel",
                            !.pause = task[t].pause \/ action = "pause"]
    BY DEF Asked
  <2>4. task[t].cancel \in BOOLEAN /\ task[t].pause \in BOOLEAN
    BY <1>1 DEF TaskRow
  <2> QED BY <2>1, <2>2, <2>3, <2>4
<1> HIDE DEF a
<1>3. Settled(a) \in TaskRow /\ Settled(a).status \in {"cancelled", "paused"} /\ Settled(a).cancel = a.cancel
  <2>1. Settled(a) \in TaskRow
    BY <1>2, SettledType
  <2>2. ASSUME NEW s \in {"cancelled", "paused"}, NEW k \in Nat
        PROVE  /\ [a EXCEPT !.status = s, !.token = k].status = s
               /\ [a EXCEPT !.status = s, !.token = k].cancel = a.cancel
    BY <1>2 DEF TaskRow
  <2>3. a.token + 1 \in Nat
    BY <1>2 DEF TaskRow
  <2> QED BY <2>1, <2>2, <2>3 DEF Settled
<1>4. q \in TaskRow /\ Calm(task[t], q) /\ (action = "cancel" => q.cancel)
  BY <1>1, <1>2, <1>3 DEF Calm, Waits
<1> HIDE DEF q
<1>5. StoreStep
  BY <1>1, <1>4, OneRowSteps DEF StoreTypeOK
<1>6. task'[t] = q
  BY <1>1 DEF StoreTypeOK
<1> QED BY <1>4, <1>5, <1>6

\* An explicit resumption.
LEMMA ResumeSteps ==
  ASSUME StoreTypeOK, NEW t \in Task, Resume(t)
  PROVE  StoreStep
<1> DEFINE q == Requeued(task[t])
<1>1. task[t] \in TaskRow /\ task' = [task EXCEPT ![t] = q] /\ UNCHANGED <<node, attempts, effect>>
  BY DEF StoreTypeOK, Resume
<1>2. q \in TaskRow /\ q.status = "queued" /\ q.cancel = task[t].cancel
  BY <1>1, RequeuedType DEF Requeued, TaskRow
<1> HIDE DEF q
<1>3. Calm(task[t], q)
  BY <1>2 DEF Calm, Waits
<1> QED BY <1>1, <1>2, <1>3, OneRowSteps DEF StoreTypeOK

\* A task whose lease has lapsed is interrupted, an overdue one fails.
LEMMA ExpiredRows ==
  ASSUME StoreTypeOK, NEW overdue \in SUBSET Task, NEW t \in Task
  PROVE  /\ Calm(task[t], TasksAfterExpiry(overdue)[t])
         /\ TasksAfterExpiry(overdue)[t].cancel = task[t].cancel
<1> DEFINE q == TasksAfterExpiry(overdue)[t]
<1>1. task[t] \in TaskRow
  BY DEF StoreTypeOK
<1>2. \/ q = task[t]
      \/ q = [task[t] EXCEPT !.status = "failed"]
      \/ q = InterruptedRow(t)
  BY DEF TasksAfterExpiry
<1>3. CASE q = task[t]
  BY <1>3 DEF Calm, Waits
<1>4. CASE q = [task[t] EXCEPT !.status = "failed"]
  <2>1. q.status = "failed" /\ q.cancel = task[t].cancel
    BY <1>1, <1>4 DEF TaskRow
  <2> QED BY <2>1 DEF Calm, Waits
<1>5. CASE q = InterruptedRow(t)
  <2>1. q.status \in {"recovery_required", "interrupted"} /\ q.cancel = task[t].cancel
    BY <1>1, <1>5 DEF InterruptedRow, Unowned, TaskRow
  <2> QED BY <2>1 DEF Calm, Waits
<1> QED BY <1>2, <1>3, <1>4, <1>5

\* The timer of the task list.
LEMMA ExpireSteps ==
  ASSUME StoreTypeOK, ExpireLeases
  PROVE  StoreStep
<1>1. task' = TasksAfterExpiry({}) /\ StoreTypeOK'
  BY ExpiryType DEF ExpireLeases, StoreTypeOK
<1>2. \A t \in Task : Calm(task[t], task'[t])
  BY <1>1, ExpiredRows
<1> QED BY <1>1, <1>2 DEF StoreStep, WaitersFree, Calm

\* The claim of a worker.
LEMMA TakeCalm ==
  ASSUME StoreTypeOK, NEW t \in Task, NEW o \in Owner, Take(t, o)
  PROVE  StoreStep
<1> DEFINE rows == TasksAfterExpiry(Overdues)
<1>1. Overdues \in SUBSET Task
  BY DEF Overdues
<1>2. rows \in [Task -> TaskRow] /\ StoreTypeOK'
  BY <1>1, ExpiryType, TakeType
<1>3. \A u \in Task : Calm(task[u], rows[u]) /\ rows[u].cancel = task[u].cancel
  BY <1>1, ExpiredRows
<1>4. task' = [rows EXCEPT ![t] = TakenBy(rows[t], o)]
  BY DEF Take
<1> HIDE DEF rows
<1>5. TakenBy(rows[t], o).status = "running" /\ TakenBy(rows[t], o).cancel = rows[t].cancel
  BY <1>2 DEF TakenBy, TaskRow
<1>6. task'[t] = TakenBy(rows[t], o) /\ \A u \in Task \ {t} : task'[u] = rows[u]
  BY <1>2, <1>4
<1>7. \A u \in Task : Calm(task[u], task'[u])
  BY <1>3, <1>5, <1>6 DEF Calm, Waits
<1> QED BY <1>2, <1>7 DEF StoreStep, WaitersFree, Calm

\* The claim of an execution opens an attempt in the same transaction.
LEMMA ClaimSteps ==
  ASSUME StoreTypeOK, NEW t \in Task, NEW n, NEW o \in Owner, ClaimApproval(t, n, o)
  PROVE  StoreStep /\ task'[t].status = "running"
<1> USE ConstantsAssumption
<1> DEFINE q == TakenBy(task[t], o)
           a == NewAttempt("running", o, task[t].token + 1)
<1>1. task[t] \in TaskRow /\ n \in Node /\ task[t].token + 1 \in Nat
  BY DEF StoreTypeOK, ClaimApproval, TaskRow
<1>2. q \in TaskRow /\ q.status = "running" /\ q.cancel = task[t].cancel
  BY <1>1, TakenByType DEF TakenBy, TaskRow
<1>3. a \in Attempt /\ "running" \in NodeStatus
  BY <1>1 DEF NewAttempt, Attempt, NodeStatus, TaskStatus
<1>4. /\ task' = [task EXCEPT ![t] = q] /\ node' = [node EXCEPT ![t][n] = "running"]
      /\ attempts' = [attempts EXCEPT ![t][n] = Append(@, a)] /\ UNCHANGED effect
  BY DEF ClaimApproval
<1> HIDE DEF q, a
<1>5. attempts' \in [Task -> [Node -> Seq(Attempt)]]
  BY <1>1, <1>3, <1>4, AppendType DEF StoreTypeOK
<1>6. Calm(task[t], q)
  BY <1>2 DEF Calm, Waits
<1>7. task'[t] = q
  BY <1>4 DEF StoreTypeOK
<1> QED BY <1>2, <1>3, <1>4, <1>5, <1>6, <1>7, OneRowSteps DEF StoreTypeOK

\* The plan of a task, and the status of a node.
LEMMA NodeWriteCalm ==
  ASSUME StoreTypeOK, NEW t \in Task, NEW o, NEW k,
         \/ \E plan \in SUBSET Node : SavePlan(t, plan, o, k)
         \/ \E n \in Node, s \in NodeStatus : SetNode(t, n, s, o, k)
  PROVE  StoreStep
<1>1. CASE \E plan \in SUBSET Node : SavePlan(t, plan, o, k)
  <2> PICK plan \in SUBSET Node : SavePlan(t, plan, o, k)
    BY <1>1
  <2>1. node' \in [Task -> [Node -> NodeStatus \cup {"absent"}]]
    BY DEF SavePlan, StoreTypeOK, NodeStatus
  <2> QED BY <2>1, NoRowSteps DEF SavePlan, StoreTypeOK
<1>2. CASE \E n \in Node, s \in NodeStatus : SetNode(t, n, s, o, k)
  BY <1>2, NoRowSteps DEF SetNode, StoreTypeOK
<1> QED BY <1>1, <1>2

\* An attempt is opened.
LEMMA StartSteps ==
  ASSUME StoreTypeOK, NEW t \in Task, NEW n \in Node, NEW o, NEW k, StartAttempt(t, n, o, k)
  PROVE  StoreStep /\ attempts'[t][n] \in Seq(Attempt)
<1> DEFINE q == [task[t] EXCEPT !.status = "running"]
           a == NewAttempt("running", task[t].owner, task[t].token)
<1>1. task[t] \in TaskRow /\ "running" \in TaskStatus /\ "running" \in NodeStatus
  BY DEF StoreTypeOK, TaskStatus, NodeStatus
<1>2. q \in TaskRow /\ q.status = "running" /\ q.cancel = task[t].cancel
  BY <1>1, StatusType DEF TaskRow
<1>3. a \in Attempt
  BY <1>1 DEF NewAttempt, Attempt, TaskRow
<1>4. /\ task' = [task EXCEPT ![t] = q] /\ node' = [node EXCEPT ![t][n] = "running"]
      /\ attempts' = [attempts EXCEPT ![t][n] = Append(@, a)] /\ UNCHANGED effect
  BY DEF StartAttempt, StoreTypeOK
<1> HIDE DEF q, a
<1>5. attempts' \in [Task -> [Node -> Seq(Attempt)]]
  BY <1>3, <1>4, AppendType DEF StoreTypeOK
<1>6. Calm(task[t], q)
  BY <1>2 DEF Calm, Waits
<1> QED BY <1>1, <1>2, <1>4, <1>5, <1>6, OneRowSteps DEF StoreTypeOK

\* An attempt is closed.
LEMMA ReportSteps ==
  ASSUME StoreTypeOK, NEW t \in Task, NEW n \in Node, NEW i, NEW s \in NodeStatus, NEW o, NEW k,
         ReportAttempt(t, n, i, s, o, k) \/ FinishAttempt(t, n, i, s, o, k)
  PROVE  StoreStep
<1>1. i \in DOMAIN attempts[t][n] /\ attempts[t][n] \in Seq(Attempt)
  BY DEF ReportAttempt, FinishAttempt, StoreTypeOK
<1> DEFINE q == [attempts[t][n] EXCEPT ![i].status = s]
<1>2. q \in Seq(Attempt)
  BY <1>1, StatusExceptType
<1>3. attempts' = [attempts EXCEPT ![t][n] = q]
  BY DEF ReportAttempt, FinishAttempt, StoreTypeOK
<1>4. node' = [node EXCEPT ![t][n] = s] /\ UNCHANGED <<task, effect>>
  BY DEF ReportAttempt, FinishAttempt
<1> HIDE DEF q
<1>5. attempts' \in [Task -> [Node -> Seq(Attempt)]]
  BY <1>2, <1>3 DEF StoreTypeOK
<1> QED BY <1>4, <1>5, NoRowSteps DEF StoreTypeOK

\* The journal.
LEMMA EffectSteps ==
  ASSUME StoreTypeOK, NEW t \in Task, NEW x, UNCHANGED <<task, node, attempts>>,
         \/ EffectInsert(t, x) \/ EffectRedispatch(t, x)
         \/ \E s \in EffectState : EffectFinish(t, x, s)
  PROVE  StoreStep
<1>1. \E s \in EffectState : effect' = [effect EXCEPT ![t][x] = s]
  BY DEF EffectInsert, EffectRedispatch, EffectFinish, EffectState
<1>2. effect' \in [Task -> [Operation -> EffectState \cup {"absent"}]]
  <2> PICK s \in EffectState : effect' = [effect EXCEPT ![t][x] = s]
    BY <1>1
  <2>1. effect[t] \in [Operation -> EffectState \cup {"absent"}]
    BY DEF StoreTypeOK
  <2>2. [effect[t] EXCEPT ![x] = s] \in [Operation -> EffectState \cup {"absent"}]
    BY <2>1
  <2>3. effect' = [effect EXCEPT ![t] = [effect[t] EXCEPT ![x] = s]]
    OBVIOUS
  <2> QED BY <2>2, <2>3 DEF StoreTypeOK
<1> QED BY <1>2, NoRowSteps DEF StoreTypeOK

-----------------------------------------------------------------------------
(* The invariant.                                                          *)

\* A worker has a task while it works, and a node while it works on one; it
\* reports a result, and never ends a run as waiting.
RunnerRowOK(w) ==
  /\ w.stage \notin {"idle", "dead"} => w.task \in Task
  /\ w.stage \in {"work", "begin", "prepared", "report", "store", "mark", "ask", "create"} =>
       w.node \in Node
  /\ w.stage = "report" => w.outcome \in {"waiting_human", "recovery_required", "failed"}
  /\ w.stage = "finish" =>
       w.outcome \in {"recovery_required", "failed", "succeeded", "cancelled", "paused"}

\* An execution has a request, and from the claim on a side effect.
ExecutorRowOK(e, requests) ==
  /\ e.stage \notin {"idle", "dead"} \/ e.beat =>
       e.action \in Action /\ requests[e.action].state # "absent"
  /\ e.stage \notin {"idle", "dead", "consume", "claim"} => requests[e.action].node \in SideEffect
  /\ e.stage = "record" => e.result \in {"succeeded", "failed", "unknown"}
  /\ e.stage \in {"attempt", "finish"} => e.result # "none"

\* A window has a request while it refuses or renews it; what it sweeps belongs
\* to a task that is cancelled.
DeskRowOK(d, rows, requests) ==
  /\ d.stage \in {"node", "task", "copy", "drop"} =>
       d.action \in Action /\ requests[d.action].state # "absent"
  /\ d.stage \in {"list", "sweep"} => d.task \in Task /\ rows[d.task].cancel
  /\ d.stage = "sweep" =>
       \A a \in d.todo : requests[a].state # "absent" /\ requests[a].task = d.task

Known(a) == approval[a].state # "absent"
ApprovalOK == \A a \in Action : Known(a) => approval[a].task \in Task /\ approval[a].node \in Node
ThreadsOK ==
  /\ \A r \in Runner : RunnerRowOK(runner[r])
  /\ \A p \in Executor : ExecutorRowOK(executor[p], approval)
  /\ \A d \in Desk : DeskRowOK(desk[d], task, approval)

\* Workers and windows live, and files stay as they are.
Living == ~MayDrift /\ MayCrash \cap (Runner \cup Desk) = {}

\* A task that waits has a request that no renewal is about to drop, or a
\* worker is about to write one, or a window is about to refuse the task, or a
\* write for it failed.
Dropping(a) == \E d \in Desk : desk[d].stage = "drop" /\ desk[d].action = a
Lasts(a, t) == Pending(a) /\ approval[a].task = t /\ ~Dropping(a)
Creating(t) == \E r \in Runner : runner[r].stage = "create" /\ runner[r].task = t
Refusing(t) ==
  \E d \in Desk : desk[d].stage \in {"node", "task"} /\ approval[desk[d].action].task = t
Cared(t) == (\E a \in Action : Lasts(a, t)) \/ Creating(t) \/ Refusing(t) \/ t \in torn
SameOK == \A a \in Action : Known(a) => approval[a].same
CareOK == \A t \in Task : Waits(task[t]) => Cared(t)

Inv == RowsTypeOK /\ WaitersFree /\ ApprovalOK /\ ThreadsOK /\ (Living => SameOK /\ CareOK)

-----------------------------------------------------------------------------
(* What a step of one thread keeps of the others.                          *)

\* A transaction keeps what is said of the tables and of the windows.
LEMMA StoreKeeps ==
  ASSUME Inv, StoreStep
  PROVE  /\ StoreTypeOK' /\ WaitersFree'
         /\ \A d \in Desk : DeskRowOK(desk[d], task', approval)
         /\ \A t \in Task : Waits(task'[t]) => Waits(task[t])
         /\ \A t \in Task : task[t].cancel => task'[t].cancel
BY DEF Inv, StoreStep, Calm, ThreadsOK, DeskRowOK

\* A task that waits keeps what it waits for.
LEMMA CareStays ==
  ASSUME Inv, StoreStep, Living,
         \A t \in Task : Waits(task'[t]) /\ Cared(t) => Cared(t)'
  PROVE  CareOK'
BY StoreKeeps DEF Inv, CareOK

\* A transaction of nobody in particular.
LEMMA StoreFrame ==
  ASSUME Inv, StoreStep, UNCHANGED approvalVars
  PROVE  Inv'
<1>1. RowsTypeOK' /\ WaitersFree' /\ ApprovalOK'
  BY StoreKeeps DEF Inv, RowsTypeOK, ApprovalOK, Known, approvalVars
<1>2. ThreadsOK'
  BY StoreKeeps DEF Inv, ThreadsOK, approvalVars
<1>3. ASSUME Living PROVE SameOK' /\ CareOK'
  <2>1. SameOK'
    BY <1>3 DEF Inv, SameOK, Known, approvalVars
  <2>2. \A t \in Task : Cared(t) => Cared(t)'
    BY DEF Cared, Lasts, Dropping, Creating, Refusing, Pending, approvalVars
  <2> QED BY <1>3, <2>1, <2>2, CareStays
<1> QED BY <1>1, <1>2, <1>3 DEF Inv, Living

\* A worker moves on without a request that it was to write, unless that failed.
LEMMA RunnerAway ==
  ASSUME Inv, StoreStep, NEW r \in Runner, NEW q \in RunnerState, RunnerRowOK(q),
         runner' = [runner EXCEPT ![r] = q], UNCHANGED <<approval, executor, desk, applied>>,
         torn \subseteq torn',
         Living => runner[r].stage # "create" \/ runner[r].task \in torn'
  PROVE  Inv'
<1>1. /\ runner' \in [Runner -> RunnerState] /\ runner'[r] = q
      /\ \A x \in Runner \ {r} : runner'[x] = runner[x]
  BY DEF Inv, RowsTypeOK
<1>2. RowsTypeOK' /\ WaitersFree' /\ ApprovalOK'
  BY <1>1, StoreKeeps DEF Inv, RowsTypeOK, ApprovalOK, Known
<1>3. ThreadsOK'
  BY <1>1, StoreKeeps DEF Inv, ThreadsOK
<1>4. ASSUME Living PROVE SameOK' /\ CareOK'
  <2>1. SameOK'
    BY <1>4 DEF Inv, SameOK, Known
  <2>2. \A t \in Task : Creating(t) => Creating(t)' \/ t \in torn'
    BY <1>1, <1>4 DEF Creating
  <2>3. \A t \in Task : Cared(t) => Cared(t)'
    BY <2>2 DEF Cared, Lasts, Dropping, Refusing, Pending
  <2> QED BY <1>4, <2>1, <2>3, CareStays
<1> QED BY <1>2, <1>3, <1>4 DEF Inv, Living

\* A worker moves on, not by writing a request.
LEMMA RunnerFrame ==
  ASSUME Inv, StoreStep, NEW r \in Runner, NEW q \in RunnerState, RunnerRowOK(q),
         runner' = [runner EXCEPT ![r] = q], RunnerOthers,
         Living => runner[r].stage # "create"
  PROVE  Inv'
BY RunnerAway DEF RunnerOthers

\* An execution moves on, not by consuming its request.
LEMMA ExecutorFrame ==
  ASSUME Inv, StoreStep, NEW p \in Executor, NEW q \in ExecutorState, ExecutorRowOK(q, approval),
         executor' = [executor EXCEPT ![p] = q], UNCHANGED <<approval, runner, desk, torn>>,
         applied' \in [Task -> [Node -> Nat]]
  PROVE  Inv'
<1>1. /\ executor' \in [Executor -> ExecutorState] /\ executor'[p] = q
      /\ \A x \in Executor \ {p} : executor'[x] = executor[x]
  BY DEF Inv, RowsTypeOK
<1>2. RowsTypeOK' /\ WaitersFree' /\ ApprovalOK'
  BY <1>1, StoreKeeps DEF Inv, RowsTypeOK, ApprovalOK, Known
<1>3. ThreadsOK'
  BY <1>1, StoreKeeps DEF Inv, ThreadsOK
<1>4. ASSUME Living PROVE SameOK' /\ CareOK'
  <2>1. SameOK'
    BY <1>4 DEF Inv, SameOK, Known
  <2>2. \A t \in Task : Cared(t) => Cared(t)'
    BY DEF Cared, Lasts, Dropping, Creating, Refusing, Pending
  <2> QED BY <1>4, <2>1, <2>2, CareStays
<1> QED BY <1>2, <1>3, <1>4 DEF Inv, Living

\* A window moves on, but leaves no task it refused before the task has
\* stopped to wait, unless a write failed.
LEMMA DeskAway ==
  ASSUME Inv, StoreStep, NEW d \in Desk, NEW q \in DeskState, DeskRowOK(q, task', approval),
         desk' = [desk EXCEPT ![d] = q], UNCHANGED <<approval, runner, executor, applied>>,
         torn \subseteq torn',
         Living => /\ q.stage # "drop"
                   /\ desk[d].stage \in {"node", "task"} =>
                        \/ q.stage \in {"node", "task"} /\ q.action = desk[d].action
                        \/ ~Waits(task'[approval[desk[d].action].task])
                        \/ approval[desk[d].action].task \in torn'
  PROVE  Inv'
<1>1. /\ desk' \in [Desk -> DeskState] /\ desk'[d] = q
      /\ \A x \in Desk \ {d} : desk'[x] = desk[x]
  BY DEF Inv, RowsTypeOK
<1>2. RowsTypeOK' /\ WaitersFree' /\ ApprovalOK'
  BY <1>1, StoreKeeps DEF Inv, RowsTypeOK, ApprovalOK, Known
<1>3. ThreadsOK'
  BY <1>1, StoreKeeps DEF Inv, ThreadsOK
<1>4. ASSUME Living PROVE SameOK' /\ CareOK'
  <2>1. SameOK'
    BY <1>4 DEF Inv, SameOK, Known
  <2>2. \A a \in Action, t \in Task : Lasts(a, t) => Lasts(a, t)'
    BY <1>1, <1>4 DEF Lasts, Dropping, Pending
  <2>3. \A t \in Task : Creating(t) => Creating(t)'
    BY DEF Creating
  <2>4. \A t \in Task : Waits(task'[t]) /\ Refusing(t) => Refusing(t)' \/ t \in torn'
    BY <1>1, <1>4 DEF Refusing
  <2>5. \A t \in Task : Waits(task'[t]) /\ Cared(t) => Cared(t)'
    BY <2>2, <2>3, <2>4 DEF Cared
  <2> QED BY <1>4, <2>1, <2>5, CareStays
<1> QED BY <1>2, <1>3, <1>4 DEF Inv, Living

\* A window moves on, but leaves no task it refused before the task has
\* stopped to wait.
LEMMA DeskFrame ==
  ASSUME Inv, StoreStep, NEW d \in Desk, NEW q \in DeskState, DeskRowOK(q, task', approval),
         desk' = [desk EXCEPT ![d] = q], DeskAlone,
         Living => /\ q.stage # "drop"
                   /\ desk[d].stage \in {"node", "task"} =>
                        \/ q.stage \in {"node", "task"} /\ q.action = desk[d].action
                        \/ ~Waits(task'[approval[desk[d].action].task])
  PROVE  Inv'
<1>1. UNCHANGED <<approval, runner, executor, applied>> /\ torn \subseteq torn'
  BY DEF DeskAlone
<1> QED BY <1>1, DeskAway

-----------------------------------------------------------------------------
(* Workers.                                                                *)

RunnerStage == {"idle", "plan", "step", "work", "begin", "prepared", "report", "bind", "store",
                "mark", "ask", "create", "save", "finish", "dead"}
OnNode == {"work", "begin", "prepared", "report", "store", "mark", "ask", "create"}
EndsWith == {"recovery_required", "failed", "succeeded", "cancelled", "paused"}

\* What the actions make of the row of a worker.
To(w, s) == [w EXCEPT !.stage = s]
ToWith(w, s, o) == [w EXCEPT !.stage = s, !.outcome = o]
ToNode(w, s, n) == [w EXCEPT !.stage = s, !.node = n]
ToLeased(w, s, n, b) == [w EXCEPT !.stage = s, !.node = n, !.leased = b]
ToAttempt(w, s, n, i) == [w EXCEPT !.stage = s, !.node = n, !.attempt = i]
OnTask(w, q, s) == q \in RunnerState /\ q.stage = s /\ q.task = w.task

\* Each of these rows is well typed and keeps what it does not name.
LEMMA RunnerRows ==
  ASSUME NEW w \in RunnerState, NEW s \in RunnerStage
  PROVE  /\ OnTask(w, To(w, s), s) /\ To(w, s).node = w.node /\ To(w, s).outcome = w.outcome
         /\ \A o \in TaskStatus :
              /\ OnTask(w, ToWith(w, s, o), s) /\ ToWith(w, s, o).node = w.node
              /\ ToWith(w, s, o).outcome = o
         /\ \A n \in Node : OnTask(w, ToNode(w, s, n), s) /\ ToNode(w, s, n).node = n
         /\ \A n \in Node, b \in BOOLEAN :
              OnTask(w, ToLeased(w, s, n, b), s) /\ ToLeased(w, s, n, b).node = n
         /\ \A n \in Node, i \in Nat :
              OnTask(w, ToAttempt(w, s, n, i), s) /\ ToAttempt(w, s, n, i).node = n
<1>1. OnTask(w, To(w, s), s) /\ To(w, s).node = w.node /\ To(w, s).outcome = w.outcome
  BY DEF RunnerState, RunnerStage, OnTask, To
<1>2. ASSUME NEW o \in TaskStatus
      PROVE  /\ OnTask(w, ToWith(w, s, o), s) /\ ToWith(w, s, o).node = w.node
             /\ ToWith(w, s, o).outcome = o
  BY DEF RunnerState, RunnerStage, OnTask, ToWith
<1>3. ASSUME NEW n \in Node
      PROVE  OnTask(w, ToNode(w, s, n), s) /\ ToNode(w, s, n).node = n
  BY DEF RunnerState, RunnerStage, OnTask, ToNode
<1>4. ASSUME NEW n \in Node, NEW b \in BOOLEAN
      PROVE  OnTask(w, ToLeased(w, s, n, b), s) /\ ToLeased(w, s, n, b).node = n
  BY DEF RunnerState, RunnerStage, OnTask, ToLeased
<1>5. ASSUME NEW n \in Node, NEW i \in Nat
      PROVE  OnTask(w, ToAttempt(w, s, n, i), s) /\ ToAttempt(w, s, n, i).node = n
  BY DEF RunnerState, RunnerStage, OnTask, ToAttempt
<1> QED BY <1>1, <1>2, <1>3, <1>4, <1>5

\* What a worker knows.
LEMMA RunnerFacts ==
  ASSUME Inv, NEW r \in Runner
  PROVE  /\ StoreTypeOK /\ runner \in [Runner -> RunnerState] /\ runner[r] \in RunnerState
         /\ RunnerRowOK(runner[r]) /\ runner[r].token \in Nat /\ r \in Owner
BY ApprovalAssumption DEF Inv, RowsTypeOK, ThreadsOK, RunnerState

\* A worker goes on,
LEMMA GotoFrame ==
  ASSUME Inv, StoreStep, NEW r \in Runner, NEW s \in RunnerStage, RunnerGoto(r, s), RunnerOthers,
         runner[r].task \in Task, runner[r].stage # "create",
         s \in OnNode => runner[r].node \in Node,
         s = "report" => runner[r].outcome \in {"waiting_human", "recovery_required", "failed"},
         s = "finish" => runner[r].outcome \in EndsWith
  PROVE  Inv'
<1> DEFINE q == To(runner[r], s)
<1>1. q \in RunnerState /\ RunnerRowOK(q)
  BY RunnerFacts, RunnerRows DEF RunnerRowOK, OnNode, EndsWith, OnTask
<1>2. runner' = [runner EXCEPT ![r] = q]
  BY RunnerFacts DEF RunnerGoto, To
<1> HIDE DEF q
<1> QED BY <1>1, <1>2, RunnerFrame

\* or goes on with a result,
LEMMA GotoWithFrame ==
  ASSUME Inv, StoreStep, NEW r \in Runner, NEW s \in RunnerStage, NEW o \in TaskStatus,
         RunnerGotoWith(r, s, o), RunnerOthers,
         runner[r].task \in Task, runner[r].stage # "create",
         s \in OnNode => runner[r].node \in Node,
         s = "report" => o \in {"waiting_human", "recovery_required", "failed"},
         s = "finish" => o \in EndsWith
  PROVE  Inv'
<1> DEFINE q == ToWith(runner[r], s, o)
<1>1. q \in RunnerState /\ RunnerRowOK(q)
  BY RunnerFacts, RunnerRows DEF RunnerRowOK, OnNode, EndsWith, OnTask
<1>2. runner' = [runner EXCEPT ![r] = q]
  BY RunnerFacts DEF RunnerGotoWith, ToWith
<1> HIDE DEF q
<1> QED BY <1>1, <1>2, RunnerFrame

\* or takes up a node,
LEMMA TakeUpFrame ==
  ASSUME Inv, StoreStep, NEW r \in Runner, NEW q \in RunnerState, RunnerOthers,
         runner' = [runner EXCEPT ![r] = q],
         q.stage \notin {"report", "finish"}, q.task \in Task, q.node \in Node,
         runner[r].stage # "create"
  PROVE  Inv'
<1>1. RunnerRowOK(q)
  BY DEF RunnerRowOK
<1> QED BY <1>1, RunnerFrame

\* or leaves the task, or dies.
LEMMA LeaveFrame ==
  ASSUME Inv, StoreStep, NEW r \in Runner, RunnerOthers, Living => runner[r].stage # "create",
         RunnerLeave(r) \/ runner' = [runner EXCEPT ![r] = [IdleRunner EXCEPT !.stage = "dead"]]
  PROVE  Inv'
<1>1. IdleRunner \in RunnerState /\ RunnerRowOK(IdleRunner)
  BY DEF IdleRunner, RunnerState, RunnerRowOK
<1> DEFINE q == [IdleRunner EXCEPT !.stage = "dead"]
<1>2. q \in RunnerState /\ RunnerRowOK(q)
  BY DEF IdleRunner, RunnerState, RunnerRowOK
<1> HIDE DEF q
<1>3. CASE RunnerLeave(r)
  BY <1>1, <1>3, RunnerFrame DEF RunnerLeave
<1>4. CASE runner' = [runner EXCEPT ![r] = q]
  BY <1>2, <1>4, RunnerFrame
<1> QED BY <1>3, <1>4 DEF q

\* A stop request ends a run.
LEMMA StopNames == ASSUME NEW t PROVE StopOutcome(t) \in EndsWith /\ EndsWith \subseteq TaskStatus
BY DEF StopOutcome, EndsWith, TaskStatus, Terminal, Stopped

\* A thread that moves on without a transaction.
LEMMA LedgerSteps == ASSUME Inv, Ledger PROVE StoreStep
BY NothingSteps DEF Inv, RowsTypeOK, Ledger

\* Claiming a task.
LEMMA RunnerClaimKeeps == ASSUME Inv, NEW r \in Runner, RunnerClaim(r) PROVE Inv'
<1> PICK t \in Task : /\ ClaimHead(t, r)
                      /\ runner' = [runner EXCEPT ![r].stage = "plan", ![r].task = t,
                                                  ![r].token = task'[t].token]
  BY DEF RunnerClaim
<1>1. StoreStep
  BY RunnerFacts, TakeCalm DEF ClaimHead
<1>2. task'[t].token \in Nat
  BY <1>1 DEF StoreStep, StoreTypeOK, TaskRow
<1>3. PICK k \in Nat : k = task'[t].token
  BY <1>2
<1> DEFINE q == [runner[r] EXCEPT !.stage = "plan", !.task = t, !.token = k]
<1>4. q \in RunnerState /\ RunnerRowOK(q)
  BY RunnerFacts DEF RunnerState, RunnerRowOK
<1>5. runner' = [runner EXCEPT ![r] = q]
  BY <1>3, RunnerFacts
<1> HIDE DEF q
<1> QED BY <1>1, <1>4, <1>5, RunnerFrame DEF RunnerClaim, RunnerAt, RunnerAlone

\* The plan, stored or found.
LEMMA RunnerPlanKeeps == ASSUME Inv, NEW r \in Runner, RunnerPlan(r) PROVE Inv'
<1> DEFINE t == runner[r].task
<1>1. t \in Task /\ runner[r].stage = "plan" /\ RunnerOthers
  BY RunnerFacts DEF RunnerPlan, RunnerAt, RunnerRowOK, RunnerAlone
<1>2. StoreStep
  BY <1>1, RunnerFacts, NodeWriteCalm, LedgerSteps DEF RunnerPlan, RunnerFenced
<1>3. \/ RunnerGoto(r, "step") \/ RunnerLeave(r) \/ RunnerGotoWith(r, "finish", "recovery_required")
  BY DEF RunnerPlan, RunnerFenced
<1> QED BY <1>1, <1>2, <1>3, GotoFrame, GotoWithFrame, LeaveFrame, StopNames
        DEF RunnerStage, OnNode, EndsWith

\* A task without a plan.
LEMMA RunnerPrepareKeeps == ASSUME Inv, NEW r \in Runner, RunnerPrepare(r) PROVE Inv'
<1> DEFINE t == runner[r].task
<1>1. t \in Task /\ runner[r].stage = "plan" /\ RunnerOthers /\ StoreStep
  BY RunnerFacts, LedgerSteps DEF RunnerPrepare, RunnerAt, RunnerRowOK, RunnerAlone
<1>2. RunnerGoto(r, "bind") \/ RunnerGotoWith(r, "finish", StopOutcome(t))
  BY DEF RunnerPrepare
<1> QED BY <1>1, <1>2, GotoFrame, GotoWithFrame, StopNames DEF RunnerStage, OnNode

\* The next node.
LEMMA RunnerStepKeeps == ASSUME Inv, NEW r \in Runner, RunnerStep(r) PROVE Inv'
<1> DEFINE t == runner[r].task
<1>1. t \in Task /\ runner[r].stage = "step" /\ RunnerOthers
  BY RunnerFacts DEF RunnerStep, RunnerAt, RunnerRowOK, RunnerAlone
<1>2. CASE /\ Ledger
           /\ \/ RunnerGotoWith(r, "finish", "succeeded") \/ RunnerGotoWith(r, "finish", StopOutcome(t))
              \/ RunnerGotoWith(r, "finish", "failed") \/ RunnerLeave(r)
  BY <1>1, <1>2, LedgerSteps, GotoWithFrame, LeaveFrame, StopNames DEF RunnerStage, OnNode, EndsWith
<1>3. ASSUME NEW n \in Node, Ledger,
             runner' = [runner EXCEPT ![r].stage = "bind", ![r].node = n]
      PROVE  Inv'
  <2> DEFINE q == ToNode(runner[r], "bind", n)
  <2>0. runner[r] \in RunnerState /\ "bind" \in RunnerStage
    BY RunnerFacts DEF RunnerStage
  <2>1. q \in RunnerState /\ q.stage = "bind" /\ q.task = t /\ q.node = n
    BY <2>0, RunnerRows DEF OnTask
  <2>2. runner' = [runner EXCEPT ![r] = q]
    BY <1>3, RunnerFacts DEF ToNode
  <2> HIDE DEF q
  <2> QED BY <1>1, <1>3, <2>1, <2>2, LedgerSteps, TakeUpFrame
<1>4. ASSUME NEW n \in Node, NEW s \in {"begin", "work"}, StartAttempt(t, n, r, runner[r].token),
             runner' = [runner EXCEPT ![r].stage = s, ![r].node = n, ![r].attempt = Len(attempts'[t][n])]
      PROVE  Inv'
  <2>1. StoreStep /\ attempts'[t][n] \in Seq(Attempt)
    BY <1>1, <1>4, RunnerFacts, StartSteps
  <2>2. PICK i \in Nat : i = Len(attempts'[t][n])
    BY <2>1, LenProperties
  <2> DEFINE q == ToAttempt(runner[r], s, n, i)
  <2>0. runner[r] \in RunnerState /\ s \in RunnerStage
    BY RunnerFacts DEF RunnerStage
  <2>3. q \in RunnerState /\ q.stage = s /\ q.task = t /\ q.node = n
    BY <2>0, RunnerRows DEF OnTask
  <2>4. runner' = [runner EXCEPT ![r] = q]
    BY <1>4, <2>2, RunnerFacts DEF ToAttempt
  <2> HIDE DEF q
  <2> QED BY <1>1, <2>1, <2>3, <2>4, TakeUpFrame
<1> QED BY <1>2, <1>3, <1>4 DEF RunnerStep, RunnerFenced

\* A node without side effects.
LEMMA RunnerWorkKeeps == ASSUME Inv, NEW r \in Runner, RunnerWork(r) PROVE Inv'
<1> DEFINE w == runner[r]
<1>1. w.stage = "work" /\ w.task \in Task /\ w.node \in Node /\ RunnerOthers
  BY RunnerFacts DEF RunnerWork, RunnerAt, RunnerRowOK, RunnerAlone
<1>2. CASE ReportAttempt(w.task, w.node, w.attempt, "succeeded", r, w.token) /\ RunnerGoto(r, "step")
  <2>1. StoreStep
    BY <1>1, <1>2, RunnerFacts, ReportSteps DEF NodeStatus, TaskStatus, Terminal
  <2> QED BY <1>1, <1>2, <2>1, GotoFrame DEF RunnerStage, OnNode
<1>3. CASE RunnerFenced(r)
  BY <1>1, <1>3, LedgerSteps, LeaveFrame DEF RunnerFenced
<1> QED BY <1>2, <1>3 DEF RunnerWork

\* The call that prepares.
LEMMA RunnerBeginKeeps == ASSUME Inv, NEW r \in Runner, RunnerBegin(r) PROVE Inv'
<1> DEFINE w == runner[r]
           o == IF effect[w.task][w.node] = "dispatched" THEN "recovery_required" ELSE "failed"
<1>1. w.stage = "begin" /\ w.task \in Task /\ w.node \in Node /\ RunnerOthers
  BY RunnerFacts DEF RunnerBegin, RunnerAt, RunnerRowOK
<1>2. CASE /\ EffectInsert(w.task, w.node) \/ EffectRedispatch(w.task, w.node)
           /\ UNCHANGED <<task, node, attempts>> /\ RunnerGoto(r, "prepared")
  <2>1. StoreStep
    BY <1>1, <1>2, RunnerFacts, EffectSteps
  <2> QED BY <1>1, <1>2, <2>1, GotoFrame DEF RunnerStage, OnNode
<1>3. CASE Ledger /\ RunnerGotoWith(r, "report", o)
  <2>1. o \in {"recovery_required", "failed"} /\ o \in TaskStatus
    BY DEF TaskStatus, Terminal, Stopped
  <2> HIDE DEF o
  <2> QED BY <1>1, <1>3, <2>1, LedgerSteps, GotoWithFrame DEF RunnerStage, OnNode
<1> QED BY <1>2, <1>3 DEF RunnerBegin

\* The call has prepared; its node will wait.
LEMMA RunnerPreparedKeeps == ASSUME Inv, NEW r \in Runner, RunnerPrepared(r) PROVE Inv'
<1> DEFINE w == runner[r]
<1>1. /\ w.stage = "prepared" /\ w.task \in Task /\ w.node \in Node /\ RunnerOthers
      /\ RunnerGotoWith(r, "report", "waiting_human")
  BY RunnerFacts DEF RunnerPrepared, RunnerAt, RunnerRowOK, RunnerAlone
<1>2. StoreStep
  BY <1>1, RunnerFacts, EffectSteps DEF RunnerPrepared, EffectState
<1>3. "waiting_human" \in TaskStatus
  BY DEF TaskStatus, Stopped
<1> QED BY <1>1, <1>2, <1>3, GotoWithFrame DEF RunnerStage, OnNode

\* The result of a node.
LEMMA RunnerReportKeeps == ASSUME Inv, NEW r \in Runner, RunnerReport(r) PROVE Inv'
<1> DEFINE w == runner[r]
<1>1. /\ w.stage = "report" /\ w.task \in Task /\ w.node \in Node /\ RunnerOthers
      /\ w.outcome \in {"waiting_human", "recovery_required", "failed"}
  BY RunnerFacts DEF RunnerReport, RunnerAt, RunnerRowOK, RunnerAlone
<1>2. CASE /\ ReportAttempt(w.task, w.node, w.attempt, w.outcome, r, w.token)
           /\ \/ RunnerGoto(r, IF w.outcome = "waiting_human" THEN "bind" ELSE "finish")
              \/ RunnerGotoWith(r, "finish", StopOutcome(w.task))
  <2>1. w.outcome \in NodeStatus
    BY <1>1 DEF NodeStatus, TaskStatus, Terminal, Stopped
  <2>2. StoreStep
    BY <1>1, <1>2, <2>1, RunnerFacts, ReportSteps
  <2>3. CASE w.outcome = "waiting_human" /\ RunnerGoto(r, "bind")
    BY <1>1, <2>2, <2>3, GotoFrame DEF RunnerStage, OnNode
  <2>4. CASE w.outcome # "waiting_human" /\ RunnerGoto(r, "finish")
    BY <1>1, <2>2, <2>4, GotoFrame DEF RunnerStage, OnNode, EndsWith
  <2>5. CASE RunnerGotoWith(r, "finish", StopOutcome(w.task))
    BY <1>1, <2>2, <2>5, GotoWithFrame, StopNames DEF RunnerStage, OnNode
  <2> QED BY <1>2, <2>3, <2>4, <2>5
<1>3. CASE RunnerFenced(r)
  BY <1>1, <1>3, LedgerSteps, LeaveFrame DEF RunnerFenced
<1> QED BY <1>2, <1>3 DEF RunnerReport

\* What is asked for, and under which lease.
LEMMA RunnerBindKeeps == ASSUME Inv, NEW r \in Runner, RunnerBind(r) PROVE Inv'
<1> DEFINE t == runner[r].task
<1>1. /\ runner[r].stage = "bind" /\ t \in Task /\ RunnerOthers /\ StoreStep
      /\ runner[r] \in RunnerState /\ SideEffect \subseteq Node
  BY RunnerFacts, LedgerSteps, ConstantsAssumption DEF RunnerBind, RunnerAt, RunnerRowOK, RunnerAlone
<1>2. PICK s \in {"ask", "store"}, n \in Node, b \in BOOLEAN :
        runner' = [runner EXCEPT ![r].stage = s, ![r].node = n, ![r].leased = b]
  <2> DEFINE b == task[t].owner # None
             next(s, n) == [runner EXCEPT ![r].stage = s, ![r].node = n, ![r].leased = b]
  <2>1. b \in BOOLEAN
    OBVIOUS
  <2>2. runner[r].node # None => runner[r].node \in Node
    BY <1>1 DEF RunnerState
  <2>3. \E s \in {"ask", "store"}, n \in Node : runner' = next(s, n)
    BY <1>1, <2>2 DEF RunnerBind
  <2> QED BY <2>1, <2>3
<1> DEFINE q == ToLeased(runner[r], s, n, b)
<1>3. s \in RunnerStage
  BY DEF RunnerStage
<1>4. q \in RunnerState /\ q.stage = s /\ q.task = t /\ q.node = n
  BY <1>1, <1>3, RunnerRows DEF OnTask
<1>5. runner' = [runner EXCEPT ![r] = q]
  BY <1>2, RunnerFacts DEF ToLeased
<1> HIDE DEF q
<1> QED BY <1>1, <1>4, <1>5, TakeUpFrame

\* The one-step plan of an action.
LEMMA RunnerStoreKeeps == ASSUME Inv, NEW r \in Runner, RunnerStore(r) PROVE Inv'
<1> DEFINE w == runner[r]
<1>1. w.stage = "store" /\ w.task \in Task /\ w.node \in Node /\ RunnerOthers
  BY RunnerFacts DEF RunnerStore, RunnerAt, RunnerRowOK, RunnerAlone
<1>2. CASE SavePlan(w.task, {w.node}, ShownOwner(r), ShownToken(r)) /\ RunnerGoto(r, "mark")
  <2>1. {w.node} \in SUBSET Node
    BY <1>1
  <2>2. StoreStep
    BY <1>1, <1>2, <2>1, RunnerFacts, NodeWriteCalm
  <2> QED BY <1>1, <1>2, <2>2, GotoFrame DEF RunnerStage, OnNode
<1>3. CASE RunnerRefused(r)
  BY <1>1, <1>3, LedgerSteps, LeaveFrame DEF RunnerRefused
<1> QED BY <1>2, <1>3 DEF RunnerStore

\* Its node is marked as waiting.
LEMMA RunnerMarkKeeps == ASSUME Inv, NEW r \in Runner, RunnerMark(r) PROVE Inv'
<1> DEFINE w == runner[r]
<1>1. w.stage = "mark" /\ w.task \in Task /\ w.node \in Node /\ RunnerOthers
  BY RunnerFacts DEF RunnerMark, RunnerAt, RunnerRowOK, RunnerAlone
<1>2. CASE SetNode(w.task, w.node, "waiting_human", ShownOwner(r), ShownToken(r)) /\ RunnerGoto(r, "ask")
  <2>1. "waiting_human" \in NodeStatus
    BY DEF NodeStatus, TaskStatus, Stopped
  <2>2. StoreStep
    BY <1>1, <1>2, <2>1, RunnerFacts, NodeWriteCalm
  <2> QED BY <1>1, <1>2, <2>2, GotoFrame DEF RunnerStage, OnNode
<1>3. CASE RunnerRefused(r)
  BY <1>1, <1>3, LedgerSteps, LeaveFrame DEF RunnerRefused
<1> QED BY <1>2, <1>3 DEF RunnerMark

\* The answer of the run.
LEMMA RunnerSaveKeeps == ASSUME Inv, NEW r \in Runner, RunnerSave(r) PROVE Inv'
<1> DEFINE w == runner[r]
<1>1. w.stage = "save" /\ w.task \in Task /\ RunnerOthers /\ RunnerLeave(r)
  BY RunnerFacts DEF RunnerSave, RunnerAt, RunnerRowOK, RunnerAlone
<1>2. StoreStep
  BY <1>1, RunnerFacts, OutputSteps, LedgerSteps DEF RunnerSave
<1> QED BY <1>1, <1>2, LeaveFrame

\* The last write of a run.
LEMMA RunnerFinishKeeps == ASSUME Inv, NEW r \in Runner, RunnerFinish(r) PROVE Inv'
<1> DEFINE w == runner[r]
<1>1. w.stage = "finish" /\ w.task \in Task /\ RunnerOthers /\ RunnerLeave(r) /\ w.outcome \in EndsWith
  BY RunnerFacts DEF RunnerFinish, RunnerAt, RunnerRowOK, EndsWith, RunnerAlone
<1>2. w.outcome \in TaskStatus \ {"waiting_human"}
  BY <1>1 DEF EndsWith, TaskStatus, Terminal, Stopped
<1>3. StoreStep
  BY <1>1, <1>2, RunnerFacts, FinishSteps, LedgerSteps DEF RunnerFinish
<1> QED BY <1>1, <1>3, LeaveFrame

\* The heartbeat of a run.
LEMMA RunnerBeatKeeps == ASSUME Inv, NEW r \in Runner, RunnerBeat(r) PROVE Inv'
<1>1. runner[r].task \in Task
  BY RunnerFacts DEF RunnerBeat, RunnerAt, RunnerRowOK
<1> QED BY <1>1, RunnerFacts, LeaseSteps, StoreFrame DEF RunnerBeat

\* The death of the process.
LEMMA RunnerCrashKeeps == ASSUME Inv, NEW r \in Runner, RunnerCrash(r) PROVE Inv'
<1>1. ~Living
  BY DEF RunnerCrash, Living
<1> QED BY <1>1, LedgerSteps, LeaveFrame DEF RunnerCrash, RunnerAlone

\* The task waits; the worker is about to write the request.
LEMMA RunnerAskKeeps == ASSUME Inv, NEW r \in Runner, RunnerAsk(r) PROVE Inv'
<1> DEFINE w == runner[r]
           q == To(w, "create")
<1>1. w.stage = "ask" /\ w.task \in Task /\ w.node \in Node /\ RunnerOthers
  BY RunnerFacts DEF RunnerAsk, RunnerAt, RunnerRowOK, RunnerAlone
<1>2. CASE RunnerRefused(r)
  BY <1>1, <1>2, LedgerSteps, LeaveFrame DEF RunnerRefused
<1>3. CASE UpdateTask(w.task, "waiting_human", ShownOwner(r), ShownToken(r)) /\ RunnerGoto(r, "create")
  <2>0. "create" \in RunnerStage /\ "waiting_human" \in TaskStatus
    BY DEF RunnerStage, TaskStatus, Stopped
  <2>1. q \in RunnerState /\ q.stage = "create" /\ q.task = w.task /\ q.node = w.node
    BY <2>0, RunnerFacts, RunnerRows DEF OnTask
  <2>2. runner' = [runner EXCEPT ![r] = q]
    BY <1>3, RunnerFacts DEF RunnerGoto, To
  <2> HIDE DEF q
  <2>3. /\ runner' \in [Runner -> RunnerState] /\ runner'[r] = q
        /\ \A x \in Runner \ {r} : runner'[x] = runner[x]
    BY <2>1, <2>2, RunnerFacts
  <2>4. /\ StoreTypeOK' /\ (WaitersFree => WaitersFree') /\ (task[w.task].cancel => task'[w.task].cancel)
        /\ \A u \in Task \ {w.task} : task'[u] = task[u]
    BY <1>1, <1>3, <2>0, RunnerFacts, UpdateSteps
  <2>5. RowsTypeOK' /\ WaitersFree' /\ ApprovalOK'
    BY <2>3, <2>4, <1>1 DEF Inv, RowsTypeOK, ApprovalOK, Known, RunnerOthers
  <2>6. RunnerRowOK(q)
    BY <1>1, <2>1 DEF RunnerRowOK
  <2>7. ThreadsOK'
    <3>1. \A d \in Desk : DeskRowOK(desk[d], task', approval)
      BY <2>4 DEF Inv, ThreadsOK, DeskRowOK
    <3> QED BY <1>1, <2>3, <2>6, <3>1 DEF Inv, ThreadsOK, RunnerOthers
  <2>8. ASSUME Living PROVE SameOK' /\ CareOK'
    <3>1. SameOK'
      BY <1>1, <2>8 DEF Inv, SameOK, Known, RunnerOthers
    <3>2. \A t \in Task : Creating(t) \/ t = w.task => Creating(t)'
      BY <1>1, <2>1, <2>3 DEF Creating
    <3>3. \A t \in Task : Cared(t) => Cared(t)'
      BY <1>1, <3>2 DEF Cared, Lasts, Dropping, Refusing, Pending, RunnerOthers
    <3>4. ASSUME NEW t \in Task, Waits(task'[t]) PROVE Cared(t)'
      <4>1. CASE t = w.task
        BY <3>2, <4>1 DEF Cared
      <4>2. CASE t # w.task
        BY <2>4, <2>8, <3>3, <3>4, <4>2 DEF Inv, CareOK
      <4> QED BY <4>1, <4>2
    <3> QED BY <3>1, <3>4 DEF CareOK
  <2> QED BY <2>5, <2>7, <2>8 DEF Inv, Living
<1> QED BY <1>2, <1>3 DEF RunnerAsk

-----------------------------------------------------------------------------
(* The table of requests.                                                  *)

\* A request keeps its task and its node as long as it is known.
Stays(requests) ==
  \A b \in Action : Known(b) => /\ requests[b].state # "absent"
                                /\ requests[b].task = approval[b].task
                                /\ requests[b].node = approval[b].node

\* What is said of the other threads is then still so.
LEMMA KeptRows ==
  ASSUME Inv, StoreStep, Stays(approval')
  PROVE  /\ \A p \in Executor : ExecutorRowOK(executor[p], approval')
         /\ \A d \in Desk : DeskRowOK(desk[d], task', approval')
<1>1. ASSUME NEW p \in Executor PROVE ExecutorRowOK(executor[p], approval')
  <2>1. ExecutorRowOK(executor[p], approval)
    BY DEF Inv, ThreadsOK
  <2>2. executor[p].stage \in {"idle", "consume", "claim", "enter", "select", "dispatch",
                               "apply", "record", "attempt", "finish", "dead"}
    BY DEF Inv, RowsTypeOK, ExecutorState
  <2> QED BY <2>1, <2>2 DEF ExecutorRowOK, Stays, Known
<1>2. ASSUME NEW d \in Desk PROVE DeskRowOK(desk[d], task', approval')
  <2>1. DeskRowOK(desk[d], task', approval) /\ desk[d].todo \in SUBSET Action
    BY StoreKeeps DEF Inv, RowsTypeOK, DeskState
  <2> QED BY <2>1 DEF DeskRowOK, Stays, Known
<1> QED BY <1>1, <1>2

\* A request changes, but not what it is about.
LEMMA ChangeFacts ==
  ASSUME Inv, NEW a \in Action, NEW q \in ApprovalRow, Known(a), q.state # "absent",
         q.task = approval[a].task, q.node = approval[a].node,
         Living => q.same, approval' = [approval EXCEPT ![a] = q]
  PROVE  /\ approval' \in [Action -> ApprovalRow] /\ Stays(approval') /\ ApprovalOK'
         /\ approval'[a] = q /\ \A b \in Action \ {a} : approval'[b] = approval[b]
         /\ Living => SameOK'
<1>1. /\ approval' \in [Action -> ApprovalRow]
      /\ approval'[a] = q /\ \A b \in Action \ {a} : approval'[b] = approval[b]
  BY DEF Inv, RowsTypeOK
<1>2. Stays(approval') /\ ApprovalOK'
  BY <1>1 DEF Inv, Stays, ApprovalOK, Known
<1>3. Living => SameOK'
  BY <1>1 DEF Inv, SameOK, Known
<1> QED BY <1>1, <1>2, <1>3

\* A decision leaves a request what it is about.
LEMMA DecidedRow ==
  ASSUME NEW row \in ApprovalRow, NEW s \in {"consumed", "cancelled"}
  PROVE  /\ [row EXCEPT !.state = s] \in ApprovalRow /\ [row EXCEPT !.state = s].state = s
         /\ [row EXCEPT !.state = s].task = row.task /\ [row EXCEPT !.state = s].node = row.node
         /\ [row EXCEPT !.state = s].same = row.same
BY DEF ApprovalRow

\* A request is cancelled, or was decided on before.
LEMMA CancelFacts ==
  ASSUME Inv, NEW a \in Action, Known(a), approval' = Cancelled(a)
  PROVE  /\ approval' \in [Action -> ApprovalRow] /\ Stays(approval') /\ ApprovalOK'
         /\ \A b \in Action \ {a} : approval'[b] = approval[b]
         /\ Living => SameOK'
<1>1. CASE Pending(a)
  <2> DEFINE q == [approval[a] EXCEPT !.state = "cancelled"]
  <2>1. q \in ApprovalRow /\ q.state # "absent" /\ q.task = approval[a].task
        /\ q.node = approval[a].node /\ q.same = approval[a].same
    BY DEF Inv, RowsTypeOK, ApprovalRow
  <2>2. approval' = [approval EXCEPT ![a] = q]
    BY <1>1 DEF Cancelled, Inv, RowsTypeOK
  <2>3. Living => q.same
    BY <2>1 DEF Inv, SameOK
  <2> HIDE DEF q
  <2> QED BY <2>1, <2>2, <2>3, ChangeFacts
<1>2. CASE ~Pending(a)
  BY <1>2 DEF Cancelled, Inv, RowsTypeOK, Stays, Known, ApprovalOK, SameOK
<1> QED BY <1>1, <1>2

\* A request is written; nobody has dropped it.
LEMMA CreateFacts ==
  ASSUME Inv, NEW a \in Action, NEW t \in Task, NEW n \in Node, CreateApproval(a, t, n)
  PROVE  /\ approval' \in [Action -> ApprovalRow] /\ Stays(approval') /\ ApprovalOK'
         /\ \A b \in Action : Known(b) => b # a /\ approval'[b] = approval[b]
         /\ approval'[a].state = "pending" /\ approval'[a].task = t /\ ~Dropping(a)
         /\ Living => SameOK'
<1> DEFINE q == [state |-> "pending", task |-> t, node |-> n, fresh |-> TRUE, same |-> TRUE]
<1>1. /\ q \in ApprovalRow /\ q.state = "pending" /\ q.task = t /\ q.node = n /\ q.same
      /\ approval' = [approval EXCEPT ![a] = q] /\ ~Known(a)
  BY DEF CreateApproval, ApprovalRow, Known
<1> HIDE DEF q
<1>2. /\ approval' \in [Action -> ApprovalRow]
      /\ approval'[a] = q /\ \A b \in Action \ {a} : approval'[b] = approval[b]
  BY <1>1 DEF Inv, RowsTypeOK
<1>3. Stays(approval') /\ ApprovalOK' /\ \A b \in Action : Known(b) => b # a /\ approval'[b] = approval[b]
  BY <1>1, <1>2 DEF Inv, Stays, ApprovalOK, Known
<1>4. Living => SameOK'
  BY <1>1, <1>2 DEF Inv, SameOK, Known
<1>5. ~Dropping(a)
  BY <1>1 DEF Dropping, Inv, ThreadsOK, DeskRowOK, Known
<1> QED BY <1>1, <1>2, <1>3, <1>4, <1>5

\* The worker writes the request it announced.
LEMMA RequestWritten ==
  ASSUME Inv, NEW r \in Runner, RunnerCreate(r), RunnerGoto(r, "save"),
         NEW a \in Action, CreateApproval(a, runner[r].task, runner[r].node),
         torn' = torn \ {runner[r].task}
  PROVE  Inv'
<1> DEFINE w == runner[r]
           q == To(w, "save")
<1>1. /\ w.stage = "create" /\ w.task \in Task /\ w.node \in Node /\ StoreStep
      /\ RunnerGoto(r, "save") /\ UNCHANGED <<executor, desk, applied>> /\ task' = task
  BY RunnerFacts, LedgerSteps DEF RunnerCreate, RunnerAt, RunnerRowOK, Ledger, storeVars
<1>2. /\ approval' \in [Action -> ApprovalRow] /\ Stays(approval') /\ ApprovalOK'
      /\ \A b \in Action : Known(b) => b # a /\ approval'[b] = approval[b]
      /\ approval'[a].state = "pending" /\ approval'[a].task = w.task /\ ~Dropping(a)
      /\ Living => SameOK'
  BY <1>1, CreateFacts
<1>3. "save" \in RunnerStage
  BY DEF RunnerStage
<1>4. q \in RunnerState /\ q.stage = "save" /\ q.task = w.task /\ RunnerRowOK(q)
  BY <1>1, <1>3, RunnerFacts, RunnerRows DEF OnTask, RunnerRowOK
<1>5. runner' = [runner EXCEPT ![r] = q]
  BY <1>1, RunnerFacts DEF RunnerGoto, To
<1> HIDE DEF q
<1>6. /\ runner' \in [Runner -> RunnerState] /\ runner'[r] = q
      /\ \A x \in Runner \ {r} : runner'[x] = runner[x]
  BY <1>4, <1>5, RunnerFacts
<1>7. RowsTypeOK' /\ WaitersFree'
  BY <1>1, <1>2, <1>6, StoreKeeps DEF Inv, RowsTypeOK
<1>8. ThreadsOK'
  BY <1>1, <1>2, <1>4, <1>6, KeptRows DEF Inv, ThreadsOK
<1>9. ASSUME Living PROVE CareOK'
  <2>1. \A t \in Task : t = w.task => Lasts(a, t)'
    BY <1>1, <1>2 DEF Lasts, Pending, Dropping
  <2>2. \A t \in Task : (\E b \in Action : Lasts(b, t)) => \E b \in Action : Lasts(b, t)'
    BY <1>1, <1>2 DEF Lasts, Pending, Dropping, Known
  <2>3. \A t \in Task \ {w.task} : Creating(t) => Creating(t)'
    BY <1>6 DEF Creating
  <2>4. \A t \in Task : Refusing(t) => Refusing(t)'
    BY <1>1, <1>2 DEF Refusing, Inv, ThreadsOK, DeskRowOK, Known
  <2>5. \A t \in Task : Cared(t) => Cared(t)'
    <3> SUFFICES ASSUME NEW t \in Task, Cared(t) PROVE Cared(t)'
      OBVIOUS
    <3>1. CASE t = w.task
      BY <2>1, <3>1 DEF Cared
    <3>2. CASE t # w.task
      BY <2>2, <2>3, <2>4, <3>2 DEF Cared
    <3> QED BY <3>1, <3>2
  <2> QED BY <1>1, <1>9, <2>5, CareStays
<1> QED BY <1>2, <1>7, <1>8, <1>9 DEF Inv, Living

\* or leaves, when that failed.
LEMMA RunnerCreateKeeps == ASSUME Inv, NEW r \in Runner, RunnerCreate(r) PROVE Inv'
<1>1. CASE \E a \in Action : /\ CreateApproval(a, runner[r].task, runner[r].node)
                             /\ RunnerGoto(r, "save") /\ torn' = torn \ {runner[r].task}
  BY <1>1, RequestWritten
<1>2. CASE /\ RunnerLeave(r) /\ torn' = torn \cup {runner[r].task} /\ UNCHANGED approval
  <2>1. StoreStep /\ UNCHANGED <<approval, executor, desk, applied>>
    BY <1>2, LedgerSteps DEF RunnerCreate
  <2>2. IdleRunner \in RunnerState /\ RunnerRowOK(IdleRunner)
    BY DEF IdleRunner, RunnerState, RunnerRowOK
  <2> QED BY <1>2, <2>1, <2>2, RunnerAway DEF RunnerLeave
<1> QED BY <1>1, <1>2 DEF RunnerCreate

-----------------------------------------------------------------------------
(* Executions of an approved action.                                       *)

ExecutorStage == {"idle", "consume", "claim", "enter", "select", "dispatch",
                  "apply", "record", "attempt", "finish", "dead"}
Claimed == ExecutorStage \ {"idle", "dead", "consume", "claim"}

\* What the actions make of the row of an execution.
ETo(e, s) == [e EXCEPT !.stage = s]
EToWith(e, s, o) == [e EXCEPT !.stage = s, !.result = o]
ESaw(e, s) == [e EXCEPT !.stage = "dispatch", !.saw = s]
EChosen(e, a) == [e EXCEPT !.stage = "consume", !.action = a]
EClaimed(e, k, i) == [e EXCEPT !.stage = "enter", !.token = k, !.attempt = i, !.beat = TRUE]
ETold(e, c, u, b) == [e EXCEPT !.cancel = c, !.pause = u, !.beat = b]
OnAction(e, q, s) == q \in ExecutorState /\ q.stage = s /\ q.action = e.action

\* Each of these rows is well typed and keeps what it does not name.
LEMMA ExecutorRows ==
  ASSUME NEW e \in ExecutorState
  PROVE  /\ \A s \in ExecutorStage : OnAction(e, ETo(e, s), s) /\ ETo(e, s).result = e.result
         /\ \A s \in ExecutorStage, o \in Result :
              OnAction(e, EToWith(e, s, o), s) /\ EToWith(e, s, o).result = o
         /\ \A s \in EffectState \cup {"absent"} : OnAction(e, ESaw(e, s), "dispatch")
         /\ \A k \in Nat, i \in Nat : OnAction(e, EClaimed(e, k, i), "enter")
<1>1. \A s \in ExecutorStage : OnAction(e, ETo(e, s), s) /\ ETo(e, s).result = e.result
  BY DEF ExecutorState, ExecutorStage, OnAction, ETo
<1>2. \A s \in ExecutorStage, o \in Result :
        OnAction(e, EToWith(e, s, o), s) /\ EToWith(e, s, o).result = o
  BY DEF ExecutorState, ExecutorStage, OnAction, EToWith
<1>3. \A s \in EffectState \cup {"absent"} : OnAction(e, ESaw(e, s), "dispatch")
  BY DEF ExecutorState, OnAction, ESaw
<1>4. \A k \in Nat, i \in Nat : OnAction(e, EClaimed(e, k, i), "enter")
  BY DEF ExecutorState, OnAction, EClaimed
<1> QED BY <1>1, <1>2, <1>3, <1>4

\* What an execution knows.
LEMMA ExecutorFacts ==
  ASSUME Inv, NEW p \in Executor
  PROVE  /\ StoreTypeOK /\ executor \in [Executor -> ExecutorState] /\ executor[p] \in ExecutorState
         /\ ExecutorRowOK(executor[p], approval) /\ executor[p].token \in Nat /\ p \in Owner
         /\ applied \in [Task -> [Node -> Nat]]
         /\ executor[p].stage \notin {"idle", "dead"} \/ executor[p].beat =>
              /\ executor[p].action \in Action /\ Known(executor[p].action)
              /\ TaskOf(p) \in Task /\ NodeOf(p) \in Node
BY ApprovalAssumption
   DEF Inv, RowsTypeOK, ThreadsOK, ExecutorState, ExecutorRowOK, ApprovalOK, Known, TaskOf, NodeOf

\* An execution goes on,
LEMMA ExecutorGotoFrame ==
  ASSUME Inv, StoreStep, NEW p \in Executor, NEW s \in ExecutorStage,
         ExecutorGoto(p, s), ExecutorOthers, executor[p].stage \notin {"idle", "dead"},
         s \in Claimed => executor[p].stage \in Claimed,
         s # "record", s \in {"attempt", "finish"} => executor[p].result # "none"
  PROVE  Inv'
<1> DEFINE q == ETo(executor[p], s)
<1>1. q \in ExecutorState /\ q.stage = s /\ q.action = executor[p].action /\ q.result = executor[p].result
  BY ExecutorFacts, ExecutorRows DEF OnAction
<1>2. executor' = [executor EXCEPT ![p] = q]
  BY ExecutorFacts DEF ExecutorGoto, ETo
<1> HIDE DEF q
<1>3. ExecutorRowOK(q, approval)
  BY <1>1, ExecutorFacts DEF ExecutorRowOK, Claimed, ExecutorStage, Known
<1>4. applied' \in [Task -> [Node -> Nat]]
  BY ExecutorFacts DEF ExecutorOthers
<1> QED BY <1>1, <1>2, <1>3, <1>4, ExecutorFrame DEF ExecutorOthers

\* or goes on with a result,
LEMMA ExecutorGotoWithFrame ==
  ASSUME Inv, StoreStep, NEW p \in Executor, NEW s \in {"record", "attempt"}, NEW o \in Result,
         ExecutorGotoWith(p, s, o), UNCHANGED <<approval, runner, desk, torn>>,
         executor[p].stage \in Claimed, o # "none",
         s = "record" => o \in {"succeeded", "failed", "unknown"},
         applied' \in [Task -> [Node -> Nat]]
  PROVE  Inv'
<1> DEFINE q == EToWith(executor[p], s, o)
<1>1. s \in ExecutorStage
  BY DEF ExecutorStage
<1>2. q \in ExecutorState /\ q.stage = s /\ q.action = executor[p].action /\ q.result = o
  BY <1>1, ExecutorFacts, ExecutorRows DEF OnAction
<1>3. executor' = [executor EXCEPT ![p] = q]
  BY ExecutorFacts DEF ExecutorGotoWith, EToWith
<1> HIDE DEF q
<1>4. ExecutorRowOK(q, approval)
  BY <1>2, ExecutorFacts DEF ExecutorRowOK, Claimed, ExecutorStage, Known
<1> QED BY <1>2, <1>3, <1>4, ExecutorFrame

\* or leaves its request, or dies.
LEMMA ExecutorLeaveFrame ==
  ASSUME Inv, StoreStep, NEW p \in Executor, ExecutorOthers,
         \/ ExecutorLeave(p)
         \/ executor' = [executor EXCEPT ![p] = [IdleExecutor EXCEPT !.stage = "dead"]]
  PROVE  Inv'
<1>1. IdleExecutor \in ExecutorState /\ ExecutorRowOK(IdleExecutor, approval)
  BY DEF IdleExecutor, ExecutorState, ExecutorRowOK, Result, EffectState
<1> DEFINE q == [IdleExecutor EXCEPT !.stage = "dead"]
<1>2. q \in ExecutorState /\ ExecutorRowOK(q, approval)
  BY DEF IdleExecutor, ExecutorState, ExecutorRowOK, Result, EffectState
<1> HIDE DEF q
<1>3. applied' \in [Task -> [Node -> Nat]]
  BY ExecutorFacts DEF ExecutorOthers
<1>4. CASE ExecutorLeave(p)
  BY <1>1, <1>3, <1>4, ExecutorFrame DEF ExecutorLeave, ExecutorOthers
<1>5. CASE executor' = [executor EXCEPT ![p] = q]
  BY <1>2, <1>3, <1>5, ExecutorFrame DEF ExecutorOthers
<1> QED BY <1>4, <1>5 DEF q

\* The user confirms a request.
LEMMA PreviewKeeps == ASSUME Inv, NEW p \in Executor, Preview(p) PROVE Inv'
<1> PICK a \in Action :
      Pending(a) /\ executor' = [executor EXCEPT ![p].stage = "consume", ![p].action = a]
  BY DEF Preview
<1> DEFINE q == EChosen(executor[p], a)
<1>1. executor[p] \in ExecutorState /\ StoreStep /\ ExecutorOthers /\ executor[p].stage = "idle"
  BY ExecutorFacts, LedgerSteps DEF Preview, ExecutorAt, ExecutorAlone
<1>2. q \in ExecutorState /\ q.stage = "consume" /\ q.action = a
  BY <1>1 DEF EChosen, ExecutorState
<1>3. executor' = [executor EXCEPT ![p] = q]
  BY ExecutorFacts DEF EChosen
<1> HIDE DEF q
<1>4. ExecutorRowOK(q, approval)
  BY <1>2 DEF ExecutorRowOK, Pending
<1>5. applied' \in [Task -> [Node -> Nat]]
  BY <1>1, ExecutorFacts DEF ExecutorOthers
<1> QED BY <1>1, <1>2, <1>3, <1>4, <1>5, ExecutorFrame DEF ExecutorOthers

\* The checks before the claim.
LEMMA ConsumeKeeps == ASSUME Inv, NEW p \in Executor, Consume(p) PROVE Inv'
<1>1. ExecutorOthers /\ StoreStep /\ executor[p].stage = "consume"
  BY LedgerSteps DEF Consume, ExecutorAt, ExecutorAlone
<1>2. ExecutorGoto(p, "claim") \/ ExecutorLeave(p)
  BY DEF Consume
<1> QED BY <1>1, <1>2, ExecutorGotoFrame, ExecutorLeaveFrame DEF ExecutorStage, Claimed

\* The claim: the task no longer waits, so nobody misses the request.
LEMMA ClaimActionKeeps == ASSUME Inv, NEW p \in Executor, ClaimAction(p) PROVE Inv'
<1> DEFINE a == executor[p].action
           t == approval[a].task
           n == approval[a].node
<1>1. executor[p].stage = "claim" /\ UNCHANGED <<runner, desk, applied, torn>>
  BY DEF ClaimAction, ExecutorAt
<1>2. a \in Action /\ Known(a) /\ t \in Task /\ n \in Node /\ executor[p] \in ExecutorState
  BY <1>1, ExecutorFacts DEF TaskOf, NodeOf
<1>3. CASE ExecutorLeave(p) /\ Ledger /\ UNCHANGED approval
  BY <1>1, <1>3, LedgerSteps, ExecutorLeaveFrame DEF ExecutorOthers
<1>4. CASE /\ MayConsume(a) /\ ClaimApproval(t, n, p) /\ approval' = Consumed(a)
           /\ executor' = [executor EXCEPT
                ![p].stage = "enter", ![p].token = task'[t].token,
                ![p].attempt = Len(attempts'[t][n]), ![p].beat = TRUE]
  <2>1. StoreStep /\ task'[t].status = "running" /\ n \in SideEffect
    BY <1>2, <1>4, ExecutorFacts, ClaimSteps DEF ClaimApproval
  <2>2. task'[t].token \in Nat /\ attempts'[t][n] \in Seq(Attempt)
    BY <1>2, <2>1 DEF StoreStep, StoreTypeOK, TaskRow
  <2>3. PICK k \in Nat, i \in Nat : k = task'[t].token /\ i = Len(attempts'[t][n])
    BY <2>2, LenProperties
  <2> DEFINE q == EClaimed(executor[p], k, i)
             x == [approval[a] EXCEPT !.state = "consumed"]
  <2>4. q \in ExecutorState /\ q.stage = "enter" /\ q.action = a
    BY <1>2, ExecutorRows DEF OnAction
  <2>5. executor' = [executor EXCEPT ![p] = q]
    BY <1>4, <2>3, ExecutorFacts DEF EClaimed
  <2>6. x \in ApprovalRow /\ x.state # "absent" /\ x.task = t /\ x.node = n /\ x.same = approval[a].same
    <3>1. approval[a] \in ApprovalRow
      BY <1>2 DEF Inv, RowsTypeOK
    <3> QED BY <3>1, DecidedRow
  <2>7. approval' = [approval EXCEPT ![a] = x]
    BY <1>4 DEF Consumed, Inv, RowsTypeOK
  <2>8. Living => x.same
    BY <1>2, <2>6 DEF Inv, SameOK
  <2> HIDE DEF q, x
  <2>9. /\ approval' \in [Action -> ApprovalRow] /\ Stays(approval') /\ ApprovalOK'
        /\ approval'[a] = x /\ \A b \in Action \ {a} : approval'[b] = approval[b]
        /\ Living => SameOK'
    BY <1>2, <2>6, <2>7, <2>8, ChangeFacts
  <2>10. /\ executor' \in [Executor -> ExecutorState] /\ executor'[p] = q
         /\ \A y \in Executor \ {p} : executor'[y] = executor[y]
    BY <2>4, <2>5, ExecutorFacts
  <2>11. RowsTypeOK' /\ WaitersFree'
    BY <1>1, <2>1, <2>9, <2>10, StoreKeeps DEF Inv, RowsTypeOK
  <2>12. PICK z : z = approval'
    OBVIOUS
  <2>13. ExecutorRowOK(q, z)
    BY <1>2, <2>1, <2>4, <2>6, <2>9, <2>12 DEF ExecutorRowOK
  <2>14. ThreadsOK'
    BY <1>1, <2>1, <2>9, <2>10, <2>12, <2>13, KeptRows DEF Inv, ThreadsOK
  <2>15. ASSUME Living PROVE CareOK'
    <3>1. \A u \in Task, b \in Action : u # t /\ Lasts(b, u) => Lasts(b, u)'
      BY <1>1, <2>9 DEF Lasts, Pending, Dropping
    <3>2. \A u \in Task : Creating(u) => Creating(u)'
      BY <1>1 DEF Creating
    <3>3. \A u \in Task : Refusing(u) => Refusing(u)'
      BY <1>1, <2>9 DEF Refusing, Inv, ThreadsOK, DeskRowOK, Stays, Known
    <3>4. \A u \in Task : Waits(task'[u]) => u # t
      BY <2>1 DEF Waits
    <3>5. \A u \in Task : Waits(task'[u]) /\ Cared(u) => Cared(u)'
      BY <1>1, <3>1, <3>2, <3>3, <3>4 DEF Cared
    <3> QED BY <2>1, <2>15, <3>5, CareStays
  <2> QED BY <2>9, <2>11, <2>14, <2>15 DEF Inv, Living
<1> QED BY <1>3, <1>4 DEF ClaimAction

\* The row is read once more.
LEMMA EnterCallKeeps == ASSUME Inv, NEW p \in Executor, EnterCall(p) PROVE Inv'
<1>1. /\ ExecutorOthers /\ StoreStep /\ executor[p].stage = "enter"
      /\ applied' \in [Task -> [Node -> Nat]]
  BY LedgerSteps, ExecutorFacts DEF EnterCall, ExecutorAt, ExecutorOthers, ExecutorAlone
<1>2. ExecutorGoto(p, "select") \/ \E o \in {"cancelled", "paused", "late"} : ExecutorGotoWith(p, "attempt", o)
  BY DEF EnterCall
<1>3. CASE ExecutorGoto(p, "select")
  BY <1>1, <1>3, ExecutorGotoFrame DEF ExecutorStage, Claimed
<1>4. ASSUME NEW o \in {"cancelled", "paused", "late"}, ExecutorGotoWith(p, "attempt", o) PROVE Inv'
  BY <1>1, <1>4, ExecutorGotoWithFrame DEF ExecutorStage, Claimed, Result, ExecutorOthers
<1> QED BY <1>2, <1>3, <1>4

\* The journal is asked.
LEMMA SelectCallKeeps == ASSUME Inv, NEW p \in Executor, SelectCall(p) PROVE Inv'
<1> DEFINE s == effect[TaskOf(p)][NodeOf(p)]
<1>1. /\ ExecutorOthers /\ StoreStep /\ executor[p].stage = "select"
      /\ applied' \in [Task -> [Node -> Nat]]
  BY LedgerSteps, ExecutorFacts DEF SelectCall, ExecutorAt, ExecutorOthers, ExecutorAlone
<1>2. CASE executor' = [executor EXCEPT ![p].stage = "dispatch", ![p].saw = s]
  <2> DEFINE q == ESaw(executor[p], s)
  <2>1. NodeOf(p) \in Operation /\ TaskOf(p) \in Task
    BY <1>1, ExecutorFacts, ApprovalAssumption DEF ExecutorRowOK, NodeOf
  <2>2. s \in EffectState \cup {"absent"}
    BY <2>1, ExecutorFacts DEF StoreTypeOK
  <2>3. q \in ExecutorState /\ q.stage = "dispatch" /\ q.action = executor[p].action
    BY <2>2, ExecutorFacts, ExecutorRows DEF OnAction
  <2>4. executor' = [executor EXCEPT ![p] = q]
    BY <1>2, ExecutorFacts DEF ESaw
  <2> HIDE DEF q
  <2>5. ExecutorRowOK(q, approval)
    BY <1>1, <2>3, ExecutorFacts DEF ExecutorRowOK, Known
  <2> QED BY <1>1, <2>3, <2>4, <2>5, ExecutorFrame DEF ExecutorOthers
<1>3. ASSUME NEW o \in {"unknown", "failed"}, ExecutorGotoWith(p, "attempt", o) PROVE Inv'
  BY <1>1, <1>3, ExecutorGotoWithFrame DEF ExecutorStage, Claimed, Result, ExecutorOthers
<1> QED BY <1>2, <1>3 DEF SelectCall

\* The journal is written.
LEMMA DispatchCallKeeps == ASSUME Inv, NEW p \in Executor, DispatchCall(p) PROVE Inv'
<1> DEFINE t == TaskOf(p)
           n == NodeOf(p)
<1>1. /\ ExecutorOthers /\ executor[p].stage = "dispatch" /\ t \in Task
      /\ applied' \in [Task -> [Node -> Nat]]
  BY ExecutorFacts DEF DispatchCall, ExecutorAt, ExecutorOthers
<1>2. CASE /\ EffectInsert(t, n) \/ EffectRedispatch(t, n)
           /\ UNCHANGED <<task, node, attempts>> /\ ExecutorGoto(p, "apply")
  <2>1. StoreStep
    BY <1>1, <1>2, ExecutorFacts, EffectSteps
  <2> QED BY <1>1, <1>2, <2>1, ExecutorGotoFrame DEF ExecutorStage, Claimed
<1>3. CASE Ledger /\ ExecutorGotoWith(p, "attempt", "failed")
  BY <1>1, <1>3, LedgerSteps, ExecutorGotoWithFrame DEF ExecutorStage, Claimed, Result, ExecutorOthers
<1> QED BY <1>2, <1>3 DEF DispatchCall

\* The world changes.
LEMMA ApplyCallKeeps == ASSUME Inv, NEW p \in Executor, ApplyCall(p) PROVE Inv'
<1> DEFINE t == TaskOf(p)
           n == NodeOf(p)
<1>1. /\ UNCHANGED <<approval, runner, desk, torn>> /\ StoreStep /\ executor[p].stage = "apply"
      /\ t \in Task /\ n \in Node
  BY LedgerSteps, ExecutorFacts DEF ApplyCall, ExecutorAt
<1>2. PICK o \in ToolOutcome : /\ ExecutorGotoWith(p, "record", o)
                               /\ \/ applied' = [applied EXCEPT ![t][n] = @ + 1]
                                  \/ applied' = applied
  BY DEF ApplyCall
<1>3. applied' \in [Task -> [Node -> Nat]]
  <2>1. applied[t] \in [Node -> Nat] /\ applied[t][n] + 1 \in Nat
    BY <1>1, ExecutorFacts
  <2> QED BY <1>2, <2>1, ExecutorFacts
<1>4. o \in {"succeeded", "failed", "unknown"} /\ o \in Result
  BY ApprovalAssumption DEF Result
<1> QED BY <1>1, <1>2, <1>3, <1>4, ExecutorGotoWithFrame DEF ExecutorStage, Claimed

\* The outcome is recorded.
LEMMA RecordCallKeeps == ASSUME Inv, NEW p \in Executor, RecordCall(p) PROVE Inv'
<1> DEFINE o == executor[p].result
           s == IF o = "succeeded" THEN "committed" ELSE o
<1>1. /\ ExecutorOthers /\ executor[p].stage = "record" /\ TaskOf(p) \in Task
      /\ o \in {"succeeded", "failed", "unknown"}
  BY ExecutorFacts DEF RecordCall, ExecutorAt, ExecutorRowOK, ExecutorAlone
<1>2. s \in EffectState
  BY <1>1 DEF EffectState
<1>3. EffectFinish(TaskOf(p), NodeOf(p), s) /\ UNCHANGED <<task, node, attempts>>
  BY DEF RecordCall
<1> HIDE DEF s
<1>4. StoreStep
  BY <1>1, <1>2, <1>3, ExecutorFacts, EffectSteps
<1>5. ExecutorGoto(p, "attempt") /\ o # "none"
  BY <1>1 DEF RecordCall
<1> QED BY <1>1, <1>4, <1>5, ExecutorGotoFrame DEF ExecutorStage, Claimed

\* The attempt is closed,
LEMMA CloseAttemptKeeps == ASSUME Inv, NEW p \in Executor, CloseAttempt(p) PROVE Inv'
<1> DEFINE o == executor[p].result
<1>1. /\ ExecutorOthers /\ executor[p].stage = "attempt" /\ o \in Result \ {"none"}
      /\ TaskOf(p) \in Task /\ NodeOf(p) \in Node
  BY ExecutorFacts DEF CloseAttempt, ExecutorAt, ExecutorRowOK, ExecutorState, ExecutorAlone
<1>2. CASE FinishCall(p) /\ ExecutorGoto(p, "finish")
  <2>1. NodeResult(o) \in NodeStatus
    BY <1>1 DEF NodeResult, Result, NodeStatus, TaskStatus, Terminal, Stopped
  <2>2. StoreStep
    BY <1>1, <1>2, <2>1, ExecutorFacts, ReportSteps DEF FinishCall
  <2> QED BY <1>1, <1>2, <2>2, ExecutorGotoFrame DEF ExecutorStage, Claimed
<1>3. CASE ExecutorLeave(p) /\ Ledger
  BY <1>1, <1>3, LedgerSteps, ExecutorLeaveFrame
<1> QED BY <1>2, <1>3 DEF CloseAttempt

\* and the task, which does not wait again.
LEMMA CloseTaskKeeps == ASSUME Inv, NEW p \in Executor, CloseTask(p) PROVE Inv'
<1> DEFINE o == executor[p].result
<1>1. /\ ExecutorOthers /\ executor[p].stage = "finish" /\ o \in Result \ {"none"}
      /\ TaskOf(p) \in Task /\ ExecutorLeave(p)
  BY ExecutorFacts DEF CloseTask, ExecutorAt, ExecutorRowOK, ExecutorState, ExecutorAlone
<1>2. TaskResult(p) \in TaskStatus \ {"waiting_human"}
  BY <1>1 DEF TaskResult, Result, TaskStatus, Terminal, Stopped
<1>3. CASE FinishApproved(p)
  <2>1. StoreStep
    BY <1>1, <1>2, <1>3, ExecutorFacts, UpdateSteps DEF FinishApproved
  <2> QED BY <1>1, <2>1, ExecutorLeaveFrame
<1>4. CASE Ledger
  BY <1>1, <1>4, LedgerSteps, ExecutorLeaveFrame
<1> QED BY <1>3, <1>4 DEF CloseTask

\* The heartbeat of an execution.
LEMMA ApprovalBeatKeeps == ASSUME Inv, NEW p \in Executor, ApprovalBeat(p) PROVE Inv'
<1>1. ExecutorOthers /\ executor[p].beat /\ TaskOf(p) \in Task /\ executor[p] \in ExecutorState
  BY ExecutorFacts DEF ApprovalBeat, ExecutorAlone
<1>2. StoreStep
  BY <1>1, ExecutorFacts, LeaseSteps, LedgerSteps DEF ApprovalBeat
<1>3. PICK c \in BOOLEAN, u \in BOOLEAN, b \in BOOLEAN :
        executor' = [executor EXCEPT ![p].cancel = c, ![p].pause = u, ![p].beat = b]
  <2> DEFINE row == task[TaskOf(p)]
  <2>1. row.cancel \in BOOLEAN /\ row.pause \in BOOLEAN
    BY <1>1, ExecutorFacts DEF StoreTypeOK, TaskRow
  <2>2. executor[p].cancel \in BOOLEAN /\ executor[p].pause \in BOOLEAN
    BY <1>1 DEF ExecutorState
  <2>3. CASE executor' = [executor EXCEPT ![p].cancel = @ \/ row.cancel, ![p].pause = @ \/ row.pause]
    <3> DEFINE c == executor[p].cancel \/ row.cancel
               u == executor[p].pause \/ row.pause
    <3>1. c \in BOOLEAN /\ u \in BOOLEAN
      BY <2>1, <2>2
    <3>2. executor' = [executor EXCEPT ![p] = [executor[p] EXCEPT !.cancel = c, !.pause = u]]
      BY <2>3
    <3>3. executor' = [executor EXCEPT ![p].cancel = c, ![p].pause = u, ![p].beat = TRUE]
      <4> HIDE DEF c, u
      <4>1. [executor[p] EXCEPT !.cancel = c, !.pause = u]
              = [executor[p] EXCEPT !.cancel = c, !.pause = u, !.beat = TRUE]
        BY <1>1, <3>1 DEF ExecutorState
      <4> QED BY <3>2, <4>1
    <3> QED BY <3>1, <3>3
  <2>4. CASE executor' = [executor EXCEPT ![p].cancel = TRUE, ![p].beat = FALSE]
    <3>1. [executor[p] EXCEPT !.cancel = TRUE, !.beat = FALSE]
            = [executor[p] EXCEPT !.cancel = TRUE, !.pause = executor[p].pause, !.beat = FALSE]
      BY <1>1 DEF ExecutorState
    <3>2. executor' = [executor EXCEPT ![p].cancel = TRUE, ![p].pause = executor[p].pause, ![p].beat = FALSE]
      BY <2>4, <3>1
    <3> QED BY <2>2, <3>2
  <2> QED BY <2>3, <2>4 DEF ApprovalBeat
<1> DEFINE q == ETold(executor[p], c, u, b)
<1>4. /\ q \in ExecutorState /\ q.stage = executor[p].stage /\ q.action = executor[p].action
      /\ q.result = executor[p].result
  BY <1>1 DEF ETold, ExecutorState
<1>5. executor' = [executor EXCEPT ![p] = q]
  BY <1>3, ExecutorFacts DEF ETold
<1> HIDE DEF q
<1>6. ExecutorRowOK(q, approval) /\ applied' \in [Task -> [Node -> Nat]]
  BY <1>1, <1>4, ExecutorFacts DEF ExecutorRowOK, ExecutorOthers, Known
<1> QED BY <1>1, <1>2, <1>4, <1>5, <1>6, ExecutorFrame DEF ExecutorOthers

\* The death of the process.
LEMMA ExecutorCrashKeeps == ASSUME Inv, NEW p \in Executor, ExecutorCrash(p) PROVE Inv'
BY LedgerSteps, ExecutorLeaveFrame DEF ExecutorCrash, ExecutorAlone

-----------------------------------------------------------------------------
(* Windows.                                                                *)

DeskStage == {"idle", "node", "task", "copy", "drop", "list", "sweep", "dead"}

\* What the actions make of the row of a window.
DTo(d, s) == [d EXCEPT !.stage = s]
DOn(d, s, a) == [d EXCEPT !.stage = s, !.action = a]
DFor(d, t) == [d EXCEPT !.stage = "list", !.task = t]
DSweeps(d, todo) == [d EXCEPT !.stage = "sweep", !.todo = todo]

\* Each of these rows is well typed and keeps what it does not name.
LEMMA DeskRows ==
  ASSUME NEW d \in DeskState
  PROVE  /\ \A s \in DeskStage :
              DTo(d, s) \in DeskState /\ DTo(d, s).stage = s /\ DTo(d, s).action = d.action
         /\ \A s \in DeskStage, a \in Action :
              DOn(d, s, a) \in DeskState /\ DOn(d, s, a).stage = s /\ DOn(d, s, a).action = a
         /\ \A t \in Task : DFor(d, t) \in DeskState /\ DFor(d, t).stage = "list" /\ DFor(d, t).task = t
         /\ \A todo \in SUBSET Action :
              /\ DSweeps(d, todo) \in DeskState /\ DSweeps(d, todo).stage = "sweep"
              /\ DSweeps(d, todo).todo = todo /\ DSweeps(d, todo).task = d.task
<1>1. ASSUME NEW s \in DeskStage
      PROVE  DTo(d, s) \in DeskState /\ DTo(d, s).stage = s /\ DTo(d, s).action = d.action
  BY DEF DeskState, DeskStage, DTo
<1>2. ASSUME NEW s \in DeskStage, NEW a \in Action
      PROVE  DOn(d, s, a) \in DeskState /\ DOn(d, s, a).stage = s /\ DOn(d, s, a).action = a
  BY DEF DeskState, DeskStage, DOn
<1>3. ASSUME NEW t \in Task
      PROVE  DFor(d, t) \in DeskState /\ DFor(d, t).stage = "list" /\ DFor(d, t).task = t
  BY DEF DeskState, DFor
<1>4. ASSUME NEW todo \in SUBSET Action
      PROVE  /\ DSweeps(d, todo) \in DeskState /\ DSweeps(d, todo).stage = "sweep"
             /\ DSweeps(d, todo).todo = todo /\ DSweeps(d, todo).task = d.task
  BY DEF DeskState, DSweeps
<1> QED BY <1>1, <1>2, <1>3, <1>4

\* What a window knows.
LEMMA DeskFacts ==
  ASSUME Inv, NEW d \in Desk
  PROVE  /\ StoreTypeOK /\ desk \in [Desk -> DeskState] /\ desk[d] \in DeskState
         /\ DeskRowOK(desk[d], task, approval)
         /\ desk[d].stage \in {"node", "task", "copy", "drop"} =>
              /\ desk[d].action \in Action /\ Known(desk[d].action)
              /\ approval[desk[d].action].task \in Task /\ approval[desk[d].action].node \in Node
BY DEF Inv, RowsTypeOK, ThreadsOK, DeskRowOK, ApprovalOK, Known

\* An idle window is well typed and knows nothing.
LEMMA IdleDeskRow ==
  ASSUME NEW rows, NEW requests
  PROVE  /\ IdleDesk \in DeskState /\ DeskRowOK(IdleDesk, rows, requests) /\ IdleDesk.stage = "idle"
         /\ [IdleDesk EXCEPT !.stage = "dead"] \in DeskState
         /\ DeskRowOK([IdleDesk EXCEPT !.stage = "dead"], rows, requests)
         /\ [IdleDesk EXCEPT !.stage = "dead"].stage = "dead"
BY DEF IdleDesk, DeskState, DeskRowOK

\* A window moves on and changes a request, or writes a new one: what a waiting
\* task can be decided by is replaced if it goes.
LEMMA DeskRequestFrame ==
  ASSUME Inv, Ledger, NEW d \in Desk, NEW q \in DeskState, DeskRowOK(q, task, approval'),
         desk' = [desk EXCEPT ![d] = q], UNCHANGED <<runner, executor, applied, torn>>,
         approval' \in [Action -> ApprovalRow], Stays(approval'), ApprovalOK', Living => SameOK',
         desk[d].stage \notin {"node", "task"},
         Living => \A a \in Action, t \in Task : Waits(task[t]) /\ Lasts(a, t) => Cared(t)'
  PROVE  Inv'
<1>1. /\ desk' \in [Desk -> DeskState] /\ desk'[d] = q
      /\ \A x \in Desk \ {d} : desk'[x] = desk[x]
  BY DEF Inv, RowsTypeOK
<1>2. StoreStep /\ task' = task
  BY LedgerSteps DEF Ledger, storeVars
<1>3. RowsTypeOK' /\ WaitersFree'
  BY <1>1, <1>2, StoreKeeps DEF Inv, RowsTypeOK
<1>4. ThreadsOK'
  <2> PICK z : z = approval'
    OBVIOUS
  <2>1. DeskRowOK(q, task', z)
    BY <1>2
  <2> QED BY <1>1, <1>2, <2>1, KeptRows DEF Inv, ThreadsOK
<1>5. ASSUME Living PROVE CareOK'
  <2>1. \A t \in Task : Creating(t) => Creating(t)'
    BY DEF Creating
  <2>2. \A t \in Task : Refusing(t) => Refusing(t)'
    BY <1>1 DEF Refusing, Inv, ThreadsOK, DeskRowOK, Stays, Known
  <2>3. \A t \in Task : Waits(task'[t]) /\ Cared(t) => Cared(t)'
    BY <1>2, <1>5, <2>1, <2>2 DEF Cared
  <2> QED BY <1>2, <1>5, <2>3, CareStays
<1> QED BY <1>3, <1>4, <1>5 DEF Inv, Living

\* The request is refused; from now on the window cares for its task,
LEMMA RejectKeeps == ASSUME Inv, NEW d \in Desk, Reject(d) PROVE Inv'
<1>1. Ledger /\ UNCHANGED <<runner, executor, applied, torn>> /\ desk[d].stage = "idle"
  BY DEF Reject, DeskAt
<1> PICK a \in Action : /\ Pending(a) /\ approval' = Cancelled(a)
                        /\ desk' = [desk EXCEPT ![d].stage = "node", ![d].action = a]
  BY DEF Reject
<1> DEFINE q == DOn(desk[d], "node", a)
<1>2. q \in DeskState /\ q.stage = "node" /\ q.action = a
  <2>1. "node" \in DeskStage /\ desk[d] \in DeskState
    BY DeskFacts DEF DeskStage
  <2> QED BY <2>1, DeskRows
<1>3. desk' = [desk EXCEPT ![d] = q]
  BY DeskFacts DEF DOn
<1> HIDE DEF q
<1>4. /\ approval' \in [Action -> ApprovalRow] /\ Stays(approval') /\ ApprovalOK'
      /\ \A b \in Action \ {a} : approval'[b] = approval[b]
      /\ Living => SameOK'
  BY CancelFacts DEF Pending, Known
<1>5. Known(a) /\ approval'[a].state # "absent" /\ approval'[a].task = approval[a].task
  BY <1>4 DEF Stays, Pending, Known
<1>6. DeskRowOK(q, task, approval')
  BY <1>2, <1>5 DEF DeskRowOK
<1>7. desk'[d] = q /\ \A x \in Desk \ {d} : desk'[x] = desk[x]
  BY <1>3, DeskFacts
<1>8. ASSUME NEW b \in Action, NEW t \in Task, Lasts(b, t) PROVE Cared(t)'
  <2>1. CASE b = a
    <3>1. Refusing(t)'
      BY <1>2, <1>5, <1>7, <1>8, <2>1 DEF Refusing, Lasts
    <3> QED BY <3>1 DEF Cared
  <2>2. CASE b # a
    <3>1. Lasts(b, t)'
      BY <1>2, <1>4, <1>7, <1>8, <2>2 DEF Lasts, Pending, Dropping
    <3> QED BY <3>1 DEF Cared
  <2> QED BY <2>1, <2>2
<1> QED BY <1>1, <1>2, <1>3, <1>4, <1>6, <1>8, DeskRequestFrame

\* while its node is refused,
LEMMA RejectNodeKeeps == ASSUME Inv, NEW d \in Desk, RejectNode(d) PROVE Inv'
<1> DEFINE t == approval[desk[d].action].task
           n == approval[desk[d].action].node
<1>1. /\ DeskAlone /\ desk[d].stage = "node" /\ t \in Task /\ n \in Node
      /\ desk[d].action \in Action /\ Known(desk[d].action)
  BY DeskFacts DEF RejectNode, DeskAt
<1>2. CASE SetNode(t, n, "cancelled", None, 0) /\ desk' = [desk EXCEPT ![d].stage = "task"]
  <2>1. StoreStep
    BY <1>1, <1>2, DeskFacts, NodeWriteCalm DEF NodeStatus, TaskStatus, Terminal
  <2> DEFINE q == DTo(desk[d], "task")
  <2>2. q \in DeskState /\ q.stage = "task" /\ q.action = desk[d].action
    <3>1. "task" \in DeskStage /\ desk[d] \in DeskState
      BY DeskFacts DEF DeskStage
    <3> QED BY <3>1, DeskRows
  <2>3. desk' = [desk EXCEPT ![d] = q]
    BY <1>2, DeskFacts DEF DTo
  <2> HIDE DEF q
  <2>4. DeskRowOK(q, task', approval)
    BY <1>1, <2>2 DEF DeskRowOK, Known
  <2> QED BY <1>1, <2>1, <2>2, <2>3, <2>4, DeskFrame
<1>3. CASE ~Guard(t, None, 0) /\ DeskLeave(d) /\ Ledger
  <2>1. StoreStep /\ ~Waits(task'[t])
    BY <1>1, <1>3, LedgerSteps DEF Guard, Exists, Waits, Inv, WaitersFree, Ledger, storeVars
  <2> QED BY <1>1, <1>3, <2>1, IdleDeskRow, DeskFrame DEF DeskLeave
<1> QED BY <1>2, <1>3 DEF RejectNode

\* and until the task is.
LEMMA RejectTaskKeeps == ASSUME Inv, NEW d \in Desk, RejectTask(d) PROVE Inv'
<1> DEFINE t == approval[desk[d].action].task
<1>1. DeskAlone /\ desk[d].stage = "task" /\ t \in Task /\ DeskLeave(d)
  BY DeskFacts DEF RejectTask, DeskAt
<1>2. StoreStep /\ ~Waits(task'[t])
  <2>1. CASE UpdateTask(t, "cancelled", None, 0)
    <3>1. StoreTypeOK /\ "cancelled" \in TaskStatus
      BY DeskFacts DEF TaskStatus, Terminal
    <3>2. StoreStep /\ task'[t].status = "cancelled"
      BY <1>1, <2>1, <3>1, UpdateSteps
    <3> QED BY <3>2 DEF Waits
  <2>2. CASE ~Guard(t, None, 0) /\ Ledger
    BY <1>1, <2>2, LedgerSteps DEF Guard, Exists, Waits, Inv, WaitersFree, Ledger, storeVars
  <2> QED BY <2>1, <2>2 DEF RejectTask
<1> QED BY <1>1, <1>2, IdleDeskRow, DeskFrame DEF DeskLeave

\* A refusal that fails half-way leaves the task waiting.
LEMMA RejectFailsKeeps == ASSUME Inv, NEW d \in Desk, RejectFails(d) PROVE Inv'
<1>1. /\ UNCHANGED <<approval, runner, executor, applied>> /\ StoreStep
      /\ torn' = torn \cup {approval[desk[d].action].task} /\ DeskLeave(d)
  BY LedgerSteps DEF RejectFails
<1> QED BY <1>1, IdleDeskRow, DeskAway DEF DeskLeave

\* A renewal copies the request, since its files are as they were;
LEMMA RenewKeeps == ASSUME Inv, NEW d \in Desk, Renew(d) PROVE Inv'
<1>1. DeskAlone /\ StoreStep /\ desk[d].stage = "idle"
  BY LedgerSteps DEF Renew, DeskAt
<1> PICK a \in Action :
      /\ Pending(a)
      /\ desk' = [desk EXCEPT ![d].stage = IF approval[a].same THEN "copy" ELSE "drop", ![d].action = a]
  BY DEF Renew
<1> DEFINE s == IF approval[a].same THEN "copy" ELSE "drop"
           q == DOn(desk[d], s, a)
<1>2. s \in DeskStage /\ s \in {"copy", "drop"} /\ (Living => s = "copy")
  BY DEF DeskStage, Inv, SameOK, Known, Pending
<1>3. q \in DeskState /\ q.stage = s /\ q.action = a
  BY <1>2, DeskFacts, DeskRows
<1>4. desk' = [desk EXCEPT ![d] = q]
  BY DeskFacts DEF DOn
<1> HIDE DEF q, s
<1>5. DeskRowOK(q, task', approval)
  BY <1>2, <1>3 DEF DeskRowOK, Pending
<1> QED BY <1>1, <1>2, <1>3, <1>4, <1>5, DeskFrame

\* the copy is there before the request goes.
LEMMA CopyWritten ==
  ASSUME Inv, NEW d \in Desk, CopyRequest(d), NEW b \in Action,
         CreateApproval(b, approval[desk[d].action].task, approval[desk[d].action].node),
         desk' = [desk EXCEPT ![d].stage = "drop"]
  PROVE  Inv'
<1> DEFINE a == desk[d].action
           u == approval[a].task
<1>1. /\ Ledger /\ UNCHANGED <<runner, executor, applied, torn>> /\ desk[d].stage = "copy"
      /\ a \in Action /\ Known(a) /\ u \in Task /\ approval[a].node \in Node
  BY DeskFacts DEF CopyRequest, DeskAt
<1>2. /\ approval' \in [Action -> ApprovalRow] /\ Stays(approval') /\ ApprovalOK'
      /\ \A c \in Action : Known(c) => c # b /\ approval'[c] = approval[c]
      /\ approval'[b].state = "pending" /\ approval'[b].task = u /\ ~Dropping(b)
      /\ Living => SameOK'
  BY <1>1, CreateFacts
<1> DEFINE q == DTo(desk[d], "drop")
<1>3. q \in DeskState /\ q.stage = "drop" /\ q.action = a
  <2>1. "drop" \in DeskStage /\ desk[d] \in DeskState
    BY DeskFacts DEF DeskStage
  <2> QED BY <2>1, DeskRows
<1>4. desk' = [desk EXCEPT ![d] = q]
  BY DeskFacts DEF DTo
<1> HIDE DEF q
<1>5. DeskRowOK(q, task, approval')
  BY <1>1, <1>2, <1>3 DEF DeskRowOK, Known
<1>6. desk'[d] = q /\ \A x \in Desk \ {d} : desk'[x] = desk[x]
  BY <1>3, <1>4, DeskFacts
<1>7. ASSUME NEW c \in Action, NEW t \in Task, Lasts(c, t) PROVE Cared(t)'
  <2>1. CASE c = a
    <3>1. t = u
      BY <1>7, <2>1 DEF Lasts
    <3>2. a # b
      BY <1>1, <1>2
    <3>3. Lasts(b, t)'
      BY <1>2, <1>3, <1>6, <3>1, <3>2 DEF Lasts, Pending, Dropping
    <3> QED BY <3>3 DEF Cared
  <2>2. CASE c # a
    <3>1. Lasts(c, t)'
      BY <1>2, <1>3, <1>6, <1>7, <2>2 DEF Lasts, Pending, Dropping, Known
    <3> QED BY <3>1 DEF Cared
  <2> QED BY <2>1, <2>2
<1> QED BY <1>1, <1>2, <1>3, <1>4, <1>5, <1>7, DeskRequestFrame

\* and without a copy it stays.
LEMMA CopyRequestKeeps == ASSUME Inv, NEW d \in Desk, CopyRequest(d) PROVE Inv'
<1>1. CASE /\ \E b \in Action :
                CreateApproval(b, approval[desk[d].action].task, approval[desk[d].action].node)
           /\ desk' = [desk EXCEPT ![d].stage = "drop"]
  BY <1>1, CopyWritten
<1>2. CASE DeskLeave(d) /\ UNCHANGED approval
  <2>1. DeskAlone /\ StoreStep /\ desk[d].stage = "copy"
    BY <1>2, LedgerSteps DEF CopyRequest, DeskAt, DeskAlone
  <2> QED BY <1>2, <2>1, IdleDeskRow, DeskFrame DEF DeskLeave
<1> QED BY <1>1, <1>2 DEF CopyRequest

\* Nobody relied on a request that is dropped.
LEMMA DropRequestKeeps == ASSUME Inv, NEW d \in Desk, DropRequest(d) PROVE Inv'
<1> DEFINE a == desk[d].action
<1>1. /\ Ledger /\ UNCHANGED <<runner, executor, applied, torn>> /\ desk[d].stage = "drop"
      /\ a \in Action /\ Known(a) /\ desk' = [desk EXCEPT ![d] = IdleDesk]
  BY DeskFacts DEF DropRequest, DeskAt, DeskLeave
<1>2. /\ approval' \in [Action -> ApprovalRow] /\ Stays(approval') /\ ApprovalOK'
      /\ \A b \in Action \ {a} : approval'[b] = approval[b]
      /\ Living => SameOK'
  BY <1>1, CancelFacts DEF DropRequest
<1>3. DeskRowOK(IdleDesk, task, approval') /\ IdleDesk \in DeskState /\ IdleDesk.stage = "idle"
  BY IdleDeskRow
<1>4. desk'[d] = IdleDesk /\ \A x \in Desk \ {d} : desk'[x] = desk[x]
  BY <1>1, DeskFacts
<1>5. ASSUME NEW b \in Action, NEW t \in Task, Lasts(b, t) PROVE Cared(t)'
  <2>1. b # a
    BY <1>1, <1>5 DEF Lasts, Dropping
  <2>2. Lasts(b, t)'
    BY <1>2, <1>3, <1>4, <1>5, <2>1 DEF Lasts, Pending, Dropping
  <2> QED BY <2>2 DEF Cared
<1> QED BY <1>1, <1>2, <1>3, <1>5, DeskRequestFrame

\* A pause or a cancellation; of a cancelled task the requests go, too.
LEMMA ControlTaskKeeps == ASSUME Inv, NEW d \in Desk, ControlTask(d) PROVE Inv'
<1>1. DeskAlone /\ desk[d].stage = "idle"
  BY DEF ControlTask, DeskAt
<1> PICK t \in Task, action \in UserAction :
      /\ RequestControl(t, action)
      /\ desk' = IF action = "cancel" THEN [desk EXCEPT ![d].stage = "list", ![d].task = t] ELSE desk
  BY DEF ControlTask
<1>2. StoreStep /\ (action = "cancel" => task'[t].cancel)
  BY DeskFacts, ControlSteps
<1>3. CASE action = "cancel"
  <2> DEFINE q == DFor(desk[d], t)
  <2>1. desk[d] \in DeskState
    BY DeskFacts
  <2>2. q \in DeskState /\ q.stage = "list" /\ q.task = t
    BY <2>1, DeskRows
  <2>3. desk' = [desk EXCEPT ![d] = q]
    BY <1>3, DeskFacts DEF DFor
  <2> HIDE DEF q
  <2>4. DeskRowOK(q, task', approval)
    BY <1>2, <1>3, <2>2 DEF DeskRowOK
  <2> QED BY <1>1, <1>2, <2>2, <2>3, <2>4, DeskFrame
<1>4. CASE action # "cancel"
  BY <1>1, <1>2, <1>4, StoreFrame DEF DeskAlone, approvalVars
<1> QED BY <1>3, <1>4

\* The requests are listed,
LEMMA ListRequestsKeeps == ASSUME Inv, NEW d \in Desk, ListRequests(d) PROVE Inv'
<1> DEFINE t == desk[d].task
           todo == PendingOf(t)
           q == DSweeps(desk[d], todo)
<1>1. DeskAlone /\ StoreStep /\ desk[d].stage = "list" /\ t \in Task /\ task[t].cancel /\ task' = task
  BY DeskFacts, LedgerSteps DEF ListRequests, DeskAt, DeskRowOK, Ledger, storeVars
<1>2. todo \in SUBSET Action /\ \A a \in todo : approval[a].state # "absent" /\ approval[a].task = t
  BY DEF PendingOf, Pending
<1>3. desk' = [desk EXCEPT ![d] = q]
  BY DeskFacts DEF ListRequests, DSweeps
<1> HIDE DEF todo
<1>4. desk[d] \in DeskState
  BY DeskFacts
<1>5. q \in DeskState /\ q.stage = "sweep" /\ q.todo = todo /\ q.task = t
  BY <1>2, <1>4, DeskRows
<1> HIDE DEF q
<1>6. DeskRowOK(q, task', approval)
  BY <1>1, <1>2, <1>5 DEF DeskRowOK
<1> QED BY <1>1, <1>3, <1>5, <1>6, DeskFrame

\* and cancelled one by one; their task was cancelled and does not wait.
LEMMA SweepRequestKeeps == ASSUME Inv, NEW d \in Desk, SweepRequest(d) PROVE Inv'
<1> DEFINE t == desk[d].task
<1>1. /\ Ledger /\ UNCHANGED <<runner, executor, applied, stray, torn>> /\ desk[d].stage = "sweep"
      /\ t \in Task /\ task[t].cancel /\ desk[d] \in DeskState /\ desk[d].todo \in SUBSET Action
      /\ \A a \in desk[d].todo : Known(a) /\ approval[a].task = t
  BY DeskFacts DEF SweepRequest, DeskAt, DeskRowOK, DeskState, Known
<1>2. CASE DeskLeave(d) /\ UNCHANGED approval
  BY <1>1, <1>2, LedgerSteps, IdleDeskRow, DeskFrame DEF DeskLeave, DeskAlone
<1>3. ASSUME NEW a \in desk[d].todo, approval' = Cancelled(a),
             desk' = [desk EXCEPT ![d].todo = @ \ {a}]
      PROVE  Inv'
  <2> DEFINE todo == desk[d].todo \ {a}
             q == DSweeps(desk[d], todo)
  <2>1. todo \in SUBSET Action /\ todo \subseteq desk[d].todo
    BY <1>1
  <2>2. desk' = [desk EXCEPT ![d] = q]
    <3>1. desk' = [desk EXCEPT ![d] = [desk[d] EXCEPT !.todo = todo]]
      BY <1>3
    <3> HIDE DEF todo
    <3>2. [desk[d] EXCEPT !.todo = todo] = [desk[d] EXCEPT !.stage = "sweep", !.todo = todo]
      BY <1>1 DEF DeskState
    <3> QED BY <3>1, <3>2 DEF DSweeps
  <2> HIDE DEF todo
  <2>3. q \in DeskState /\ q.stage = "sweep" /\ q.todo = todo /\ q.task = t
    BY <1>1, <2>1, DeskRows
  <2> HIDE DEF q
  <2>4. /\ approval' \in [Action -> ApprovalRow] /\ Stays(approval') /\ ApprovalOK'
        /\ \A b \in Action \ {a} : approval'[b] = approval[b]
        /\ Living => SameOK'
    BY <1>1, <1>3, CancelFacts
  <2>5. DeskRowOK(q, task, approval')
    BY <1>1, <2>1, <2>3, <2>4 DEF DeskRowOK, Stays, Known
  <2>6. desk'[d] = q /\ \A x \in Desk \ {d} : desk'[x] = desk[x]
    BY <2>2, DeskFacts
  <2>7. ASSUME NEW b \in Action, NEW u \in Task, Waits(task[u]), Lasts(b, u) PROVE Cared(u)'
    <3>1. b # a
      BY <1>1, <1>3, <2>7 DEF Lasts, Waits
    <3>2. Lasts(b, u)'
      BY <2>3, <2>4, <2>6, <2>7, <3>1 DEF Lasts, Pending, Dropping
    <3> QED BY <3>2 DEF Cared
  <2> QED BY <1>1, <2>2, <2>3, <2>4, <2>5, <2>7, DeskRequestFrame
<1> QED BY <1>2, <1>3 DEF SweepRequest

\* A window is closed in the middle.
LEMMA DeskCrashKeeps == ASSUME Inv, NEW d \in Desk, DeskCrash(d) PROVE Inv'
<1>1. ~Living /\ StoreStep
  BY LedgerSteps DEF DeskCrash, Living
<1> DEFINE q == [IdleDesk EXCEPT !.stage = "dead"]
<1>2. q \in DeskState /\ DeskRowOK(q, task', approval)
  BY IdleDeskRow
<1>3. desk' = [desk EXCEPT ![d] = q] /\ DeskAlone
  BY DEF DeskCrash
<1> HIDE DEF q
<1> QED BY <1>1, <1>2, <1>3, DeskFrame

\* The transactions of nobody in particular.
LEMMA OthersKeep ==
  ASSUME Inv, \/ \E d \in Desk : ResumeTask(d)
              \/ RefreshTasks
              \/ \E t \in Task : LeaseTime(t)
  PROVE  Inv'
<1>1. StoreTypeOK
  BY DEF Inv, RowsTypeOK
<1>2. StoreStep /\ UNCHANGED approvalVars
  BY <1>1, ResumeSteps, ExpireSteps, LeaseSteps DEF ResumeTask, RefreshTasks, LeaseTime
<1> QED BY <1>2, StoreFrame

\* A request grows old, or its files change.
LEMMA AgeKeeps ==
  ASSUME Inv, NEW a \in Action, RequestExpires(a) \/ FileDrifts(a)
  PROVE  Inv'
<1>1. PICK f \in BOOLEAN, s \in BOOLEAN :
        /\ approval' = [approval EXCEPT ![a] = [approval[a] EXCEPT !.fresh = f, !.same = s]]
        /\ (Living => s = approval[a].same) /\ Pending(a)
        /\ Ledger /\ UNCHANGED <<runner, executor, desk, applied, torn>>
  <2>1. approval[a] \in ApprovalRow /\ approval \in [Action -> ApprovalRow]
    BY DEF Inv, RowsTypeOK
  <2>2. /\ [approval[a] EXCEPT !.fresh = FALSE]
             = [approval[a] EXCEPT !.fresh = FALSE, !.same = approval[a].same]
        /\ [approval[a] EXCEPT !.same = FALSE]
             = [approval[a] EXCEPT !.fresh = approval[a].fresh, !.same = FALSE]
        /\ approval[a].fresh \in BOOLEAN /\ approval[a].same \in BOOLEAN
    BY <2>1 DEF ApprovalRow
  <2>3. CASE RequestExpires(a)
    <3>1. approval' = [approval EXCEPT ![a] = [approval[a] EXCEPT !.fresh = FALSE]]
      BY <2>1, <2>3 DEF RequestExpires
    <3> QED BY <2>2, <2>3, <3>1 DEF RequestExpires
  <2>4. CASE FileDrifts(a)
    <3>1. approval' = [approval EXCEPT ![a] = [approval[a] EXCEPT !.same = FALSE]]
      BY <2>1, <2>4 DEF FileDrifts
    <3> QED BY <2>2, <2>4, <3>1 DEF FileDrifts, Living
  <2> QED BY <2>3, <2>4
<1> DEFINE q == [approval[a] EXCEPT !.fresh = f, !.same = s]
<1>2. /\ q \in ApprovalRow /\ q.state = approval[a].state /\ q.task = approval[a].task
      /\ q.node = approval[a].node /\ q.same = s
  <2>1. approval[a] \in ApprovalRow
    BY DEF Inv, RowsTypeOK
  <2> QED BY <2>1 DEF ApprovalRow
<1>3. approval' = [approval EXCEPT ![a] = q]
  BY <1>1
<1> HIDE DEF q
<1>4. Living => q.same
  BY <1>1, <1>2 DEF Inv, SameOK, Known, Pending
<1>5. /\ approval' \in [Action -> ApprovalRow] /\ Stays(approval') /\ ApprovalOK'
      /\ approval'[a] = q /\ \A b \in Action \ {a} : approval'[b] = approval[b]
      /\ Living => SameOK'
  BY <1>1, <1>2, <1>3, <1>4, ChangeFacts DEF Known, Pending
<1>6. StoreStep
  BY <1>1, LedgerSteps
<1>7. RowsTypeOK' /\ WaitersFree'
  BY <1>1, <1>5, <1>6, StoreKeeps DEF Inv, RowsTypeOK
<1>8. ThreadsOK'
  BY <1>1, <1>5, <1>6, KeptRows DEF Inv, ThreadsOK
<1>9. ASSUME Living PROVE CareOK'
  <2>1. \A t \in Task, b \in Action : Lasts(b, t) => Lasts(b, t)'
    BY <1>1, <1>2, <1>5 DEF Lasts, Pending, Dropping
  <2>2. \A t \in Task : Creating(t) => Creating(t)'
    BY <1>1 DEF Creating
  <2>3. \A t \in Task : Refusing(t) => Refusing(t)'
    BY <1>1, <1>5 DEF Refusing, Inv, ThreadsOK, DeskRowOK, Stays, Known
  <2>4. \A t \in Task : Cared(t) => Cared(t)'
    BY <1>1, <2>1, <2>2, <2>3 DEF Cared
  <2> QED BY <1>6, <1>9, <2>4, CareStays
<1> QED BY <1>5, <1>7, <1>8, <1>9 DEF Inv, Living

-----------------------------------------------------------------------------
(* The theorems.                                                           *)

\* The invariant holds at the start, when every task is queued,
LEMMA InvInit == Init => Inv
<1> SUFFICES ASSUME Init PROVE Inv
  OBVIOUS
<1> USE ConstantsAssumption, ApprovalAssumption
<1> DEFINE q == [NewRow EXCEPT !.status = "queued", !.bound = TRUE]
<1>1. /\ q \in TaskRow /\ q.status = "queued"
      /\ task = [t \in Task |-> q]
  BY DEF NewRow, TaskRow, TaskStatus, Stopped, NotReleased, Init
<1> HIDE DEF q
<1>2. StoreTypeOK /\ WaitersFree /\ CareOK
  <2>1. <<>> \in Seq(Attempt)
    OBVIOUS
  <2> QED BY <1>1, <2>1 DEF Init, StoreTypeOK, WaitersFree, CareOK, Waits
<1>3. NoApproval \in ApprovalRow /\ NoApproval.state = "absent"
  BY DEF NoApproval, ApprovalRow
<1>4. IdleRunner \in RunnerState /\ RunnerRowOK(IdleRunner)
  BY DEF IdleRunner, RunnerState, RunnerRowOK
<1>5. IdleExecutor \in ExecutorState /\ ExecutorRowOK(IdleExecutor, approval)
  BY DEF IdleExecutor, ExecutorState, ExecutorRowOK, Result, EffectState
<1>6. IdleDesk \in DeskState /\ DeskRowOK(IdleDesk, task, approval)
  BY IdleDeskRow
<1>7. RowsTypeOK
  BY <1>2, <1>3, <1>4, <1>5, <1>6 DEF Init, RowsTypeOK
<1>8. ApprovalOK /\ SameOK
  BY <1>3 DEF Init, ApprovalOK, SameOK, Known
<1>9. ThreadsOK
  BY <1>4, <1>5, <1>6 DEF Init, ThreadsOK
<1> QED BY <1>2, <1>7, <1>8, <1>9 DEF Inv

\* and every step keeps it.
LEMMA InvStep == Inv /\ [Next]_vars => Inv'
<1> SUFFICES ASSUME Inv, [Next]_vars PROVE Inv'
  OBVIOUS
<1>1. ASSUME NEW r \in Runner, RunnerMain(r) \/ RunnerBeat(r) \/ RunnerCrash(r) PROVE Inv'
  BY <1>1, RunnerClaimKeeps, RunnerPlanKeeps, RunnerPrepareKeeps, RunnerStepKeeps, RunnerWorkKeeps,
     RunnerBeginKeeps, RunnerPreparedKeeps, RunnerReportKeeps, RunnerBindKeeps, RunnerStoreKeeps,
     RunnerMarkKeeps, RunnerAskKeeps, RunnerCreateKeeps, RunnerSaveKeeps, RunnerFinishKeeps,
     RunnerBeatKeeps, RunnerCrashKeeps
  DEF RunnerMain
<1>2. ASSUME NEW p \in Executor,
             Preview(p) \/ ExecutorMain(p) \/ ApprovalBeat(p) \/ ExecutorCrash(p)
      PROVE  Inv'
  BY <1>2, PreviewKeeps, ConsumeKeeps, ClaimActionKeeps, EnterCallKeeps, SelectCallKeeps,
     DispatchCallKeeps, ApplyCallKeeps, RecordCallKeeps, CloseAttemptKeeps, CloseTaskKeeps,
     ApprovalBeatKeeps, ExecutorCrashKeeps
  DEF ExecutorMain
<1>3. ASSUME NEW d \in Desk, DeskMain(d) \/ User(d) \/ DeskCrash(d) PROVE Inv'
  BY <1>3, RejectKeeps, RejectNodeKeeps, RejectTaskKeeps, RejectFailsKeeps, RenewKeeps, CopyRequestKeeps,
     DropRequestKeeps, ControlTaskKeeps, ListRequestsKeeps, SweepRequestKeeps, OthersKeep,
     DeskCrashKeeps
  DEF DeskMain, User
<1>4. CASE RefreshTasks \/ \E t \in Task : LeaseTime(t)
  BY <1>4, OthersKeep
<1>5. CASE \E a \in Action : RequestExpires(a) \/ FileDrifts(a)
  BY <1>5, AgeKeeps
<1>6. CASE UNCHANGED vars
  <2>1. UNCHANGED storeVars /\ UNCHANGED approvalVars
    BY <1>6 DEF vars
  <2> QED BY <2>1, StoreFrame, LedgerSteps DEF Ledger
<1> QED BY <1>1, <1>2, <1>3, <1>4, <1>5, <1>6 DEF Next

\* Only the write of begin_effect may count a node as one of a thread that had
\* lost its lease.
LEMMA StraySteps ==
  ASSUME Next
  PROVE  UNCHANGED stray \/ (\E r \in Runner : RunnerBegin(r)) \/ \E p \in Executor : DispatchCall(p)
<1>1. ASSUME NEW r \in Runner, RunnerMain(r) \/ RunnerBeat(r) \/ RunnerCrash(r), ~RunnerBegin(r)
      PROVE  UNCHANGED stray
  BY <1>1 DEF RunnerMain, RunnerClaim, RunnerPlan, RunnerPrepare, RunnerStep, RunnerWork,
     RunnerPrepared, RunnerReport, RunnerBind, RunnerStore, RunnerMark, RunnerAsk, RunnerCreate,
     RunnerSave, RunnerFinish, RunnerBeat, RunnerCrash, RunnerAlone, approvalVars
<1>2. ASSUME NEW p \in Executor, Preview(p) \/ ExecutorMain(p) \/ ApprovalBeat(p) \/ ExecutorCrash(p),
             ~DispatchCall(p)
      PROVE  UNCHANGED stray
  BY <1>2 DEF Preview, ExecutorMain, Consume, ClaimAction, EnterCall, SelectCall, ApplyCall,
     RecordCall, CloseAttempt, CloseTask, ApprovalBeat, ExecutorCrash, ExecutorAlone
<1>3. ASSUME NEW d \in Desk, DeskMain(d) \/ User(d) \/ DeskCrash(d)
      PROVE  UNCHANGED stray
  BY <1>3 DEF DeskMain, User, Reject, RejectNode, RejectTask, RejectFails, Renew, CopyRequest, DropRequest,
     ControlTask, ListRequests, SweepRequest, ResumeTask, DeskCrash, DeskAlone, approvalVars
<1> QED BY <1>1, <1>2, <1>3 DEF Next, RefreshTasks, LeaseTime, RequestExpires, FileDrifts, approvalVars

\* Only a failed or a repeated request, or a failed refusal, changes the set of
\* tasks that wait in vain.
LEMMA TornSteps ==
  ASSUME Next
  PROVE  UNCHANGED torn \/ (\E r \in Runner : RunnerCreate(r)) \/ \E d \in Desk : RejectFails(d)
<1>1. ASSUME NEW r \in Runner, RunnerMain(r) \/ RunnerBeat(r) \/ RunnerCrash(r), ~RunnerCreate(r)
      PROVE  UNCHANGED torn
  BY <1>1 DEF RunnerMain, RunnerClaim, RunnerPlan, RunnerPrepare, RunnerStep, RunnerWork, RunnerBegin,
     RunnerPrepared, RunnerReport, RunnerBind, RunnerStore, RunnerMark, RunnerAsk,
     RunnerSave, RunnerFinish, RunnerBeat, RunnerCrash, RunnerAlone, RunnerOthers, approvalVars
<1>2. ASSUME NEW p \in Executor, Preview(p) \/ ExecutorMain(p) \/ ApprovalBeat(p) \/ ExecutorCrash(p)
      PROVE  UNCHANGED torn
  BY <1>2 DEF Preview, ExecutorMain, Consume, ClaimAction, EnterCall, SelectCall, DispatchCall,
     ApplyCall, RecordCall, CloseAttempt, CloseTask, ApprovalBeat, ExecutorCrash, ExecutorAlone,
     ExecutorOthers
<1>3. ASSUME NEW d \in Desk, DeskMain(d) \/ User(d) \/ DeskCrash(d), ~RejectFails(d)
      PROVE  UNCHANGED torn
  BY <1>3 DEF DeskMain, User, Reject, RejectNode, RejectTask, Renew, CopyRequest, DropRequest,
     ControlTask, ListRequests, SweepRequest, ResumeTask, DeskCrash, DeskAlone, approvalVars
<1> QED BY <1>1, <1>2, <1>3 DEF Next, RefreshTasks, LeaseTime, RequestExpires, FileDrifts, approvalVars

\* Every variable keeps its type, whoever asks, decides, renews or dies.
THEOREM TypeCorrect == Spec => []TypeOK
<1> DEFINE Traced == stray \subseteq Task \X Node
           Left == torn \subseteq Task
           Typed == Traced /\ Left
<1>1. Init => Typed
  BY DEF Init
<1>2. Inv /\ Typed /\ [Next]_vars => Typed'
  <2> SUFFICES ASSUME Inv, Typed, [Next]_vars PROVE Traced' /\ Left'
    OBVIOUS
  <2>1. ASSUME NEW r \in Runner, RunnerBegin(r) PROVE Traced'
    BY <2>1, RunnerFacts DEF RunnerBegin, RunnerAt, RunnerRowOK, BeginsCall
  <2>2. ASSUME NEW p \in Executor, DispatchCall(p) PROVE Traced'
    BY <2>2, ExecutorFacts DEF DispatchCall, ExecutorAt, BeginsCall
  <2>3. Traced'
    BY <2>1, <2>2, StraySteps DEF vars, approvalVars
  <2>4. ASSUME NEW r \in Runner, RunnerCreate(r) PROVE Left'
    <3>1. runner[r].task \in Task
      BY <2>4, RunnerFacts DEF RunnerCreate, RunnerAt, RunnerRowOK
    <3> QED BY <2>4, <3>1 DEF RunnerCreate
  <2>5. ASSUME NEW d \in Desk, RejectFails(d) PROVE Left'
    <3>1. approval[desk[d].action].task \in Task
      BY <2>5, DeskFacts DEF RejectFails, DeskAt
    <3> QED BY <2>5, <3>1 DEF RejectFails
  <2>6. Left'
    BY <2>4, <2>5, TornSteps DEF vars, approvalVars
  <2> QED BY <2>3, <2>6
<1>3. Inv /\ Typed => TypeOK
  BY DEF Inv, TypeOK
<1> QED BY InvInit, InvStep, <1>1, <1>2, <1>3, PTL DEF Spec

\* The request is written only after the task has begun to wait (RunnerAsk and
\* RunnerCreate), and a renewal drops the old request (core/approval.py).  As
\* long as no worker and no window dies and the files of a request stay as they
\* are, a task that waits can nevertheless be decided at every moment: it has a
\* request, or a thread is about to write it or to refuse the task.  The one way
\* out is a write that fails: approval.create behind the task that waits
\* (core/agent.py:2138), or a step of a refusal behind the request (:2484).
THEOREM WaitingTasksAreDecidable == Living => (Spec => []WaitingIsDecidable)
<1> SUFFICES ASSUME Living PROVE Spec => []WaitingIsDecidable
  OBVIOUS
<1>1. Inv => WaitingIsDecidable
  <2> SUFFICES ASSUME Inv, NEW t \in Task, Waits(task[t])
               PROVE  \/ PendingOf(t) # {} \/ t \in torn
                      \/ \E r \in Runner : RunnerAt(r, "create") /\ runner[r].task = t
                      \/ \E d \in Desk : /\ desk[d].stage \in {"node", "task"}
                                         /\ approval[desk[d].action].task = t
    BY DEF WaitingIsDecidable, Waits
  <2>1. Cared(t)
    BY DEF Inv, CareOK
  <2> QED BY <2>1 DEF Cared, Lasts, Creating, Refusing, PendingOf, RunnerAt
<1> QED BY InvInit, InvStep, <1>1, PTL DEF Spec

-----------------------------------------------------------------------------
(* What threads and windows do to the tables, any client of the ledger may *)
(* do.                                                                     *)

\* The leases and the attempts that threads remember were issued, and only side
\* effects are prepared.
RunnerBounds(w) ==
  /\ w.stage \notin {"idle", "dead"} => w.token \in 0..MaxToken
  /\ w.stage \in {"work", "begin", "prepared", "report"} => w.attempt \in 1..MaxAttempts
  /\ w.stage \in {"begin", "prepared"} => w.node \in SideEffect
ExecutorBounds(e) ==
  /\ e.beat => e.stage \in Claimed
  /\ e.stage \in Claimed => e.token \in 0..MaxToken /\ e.attempt \in 1..MaxAttempts
Bounds ==
  /\ \A r \in Runner : RunnerBounds(runner[r])
  /\ \A p \in Executor : ExecutorBounds(executor[p])
UsesLedger == [LedgerNext]_storeVars

\* The transactions that present a lease, or none.
LEMMA LeasedWrites ==
  ASSUME NEW t \in Task, NEW o \in Owner \cup {None}, NEW k \in 0..MaxToken,
         \/ \E s \in CallerStatus : UpdateTask(t, s, o, k)
         \/ \E s \in CallerStatus, b \in BOOLEAN : FinishWorkerTask(t, s, b, o, k)
         \/ SaveReleasedOutput(t, o, k) \/ Heartbeat(t, o, k)
         \/ \E plan \in SUBSET Node : SavePlan(t, plan, o, k)
  PROVE  UsesLedger
<1>1. TaskWrite(t, o, k, CallerStatus)
  BY DEF TaskWrite
<1> QED BY <1>1 DEF UsesLedger, LedgerNext, LedgerStep

\* Those on a node.
LEMMA NodeWrites ==
  ASSUME NEW t \in Task, NEW n \in Node, NEW o \in Owner \cup {None}, NEW k \in 0..MaxToken,
         \/ StartAttempt(t, n, o, k)
         \/ \E s \in ReportStatus, i \in 1..MaxAttempts :
              FinishAttempt(t, n, i, s, o, k) \/ ReportAttempt(t, n, i, s, o, k)
         \/ SetNode(t, n, "waiting_human", o, k) \/ SetNode(t, n, "cancelled", o, k)
  PROVE  UsesLedger
<1>1. NodeWrite(t, n, o, k, ReportStatus)
  BY DEF NodeWrite
<1> QED BY <1>1 DEF UsesLedger, LedgerNext, LedgerStep

\* Those on the journal.
LEMMA JournalWrites ==
  ASSUME NEW t \in Task, NEW x \in Operation, UNCHANGED <<task, node, attempts>>,
         \/ EffectInsert(t, x) \/ EffectRedispatch(t, x)
         \/ \E s \in {"prepared", "committed", "unknown", "failed"} : EffectFinish(t, x, s)
  PROVE  UsesLedger
<1>1. EffectWrite(t, x)
  BY DEF EffectWrite
<1> QED BY <1>1 DEF UsesLedger, LedgerNext, LedgerStep

\* Those that present no lease at all.
LEMMA FreeWrites ==
  ASSUME \/ ExpireLeases
         \/ \E t \in Task : \/ \E o \in Owner : ClaimHead(t, o)
                            \/ \E n \in Node, o \in Owner : ClaimApproval(t, n, o)
                            \/ \E action \in {"pause", "cancel"} : RequestControl(t, action)
                            \/ Resume(t) \/ LeaseLapses(t)
         \/ UNCHANGED storeVars
  PROVE  UsesLedger
<1>1. CASE ExpireLeases
  BY <1>1 DEF UsesLedger, LedgerNext, LedgerStep, Housekeeping
<1>2. CASE \E t \in Task, o \in Owner : ClaimHead(t, o)
  BY <1>2 DEF UsesLedger, LedgerNext, LedgerStep, Housekeeping, ClaimNext
<1>3. CASE \E t \in Task : \/ \E n \in Node, o \in Owner : ClaimApproval(t, n, o)
                           \/ \E action \in {"pause", "cancel"} : RequestControl(t, action)
                           \/ Resume(t)
  BY <1>3 DEF UsesLedger, LedgerNext, LedgerStep, Unguarded
<1>4. CASE \E t \in Task : LeaseLapses(t)
  BY <1>4 DEF UsesLedger, LedgerNext, LedgerStep, Passing
<1> QED BY <1>1, <1>2, <1>3, <1>4 DEF UsesLedger

\* A thread that claims is given a token within the bound.
LEMMA ClaimedToken ==
  ASSUME StoreTypeOK, NEW t \in Task, NEW o \in Owner,
         ClaimHead(t, o) \/ \E n \in Node : ClaimApproval(t, n, o)
  PROVE  task'[t].token \in 0..MaxToken
<1> USE ConstantsAssumption
<1>1. CASE ClaimHead(t, o)
  <2> DEFINE rows == TasksAfterExpiry(Overdues)
  <2>1. Overdues \in SUBSET Task
    BY DEF Overdues
  <2>2. rows \in [Task -> TaskRow]
    BY <2>1, ExpiryType
  <2>3. task' = [rows EXCEPT ![t] = TakenBy(rows[t], o)] /\ rows[t].token < MaxToken
    BY <1>1 DEF ClaimHead, Take
  <2> HIDE DEF rows
  <2>4. rows[t].token \in Nat /\ TakenBy(rows[t], o).token = rows[t].token + 1
    BY <2>2 DEF TakenBy, TaskRow
  <2> QED BY <2>2, <2>3, <2>4
<1>2. CASE \E n \in Node : ClaimApproval(t, n, o)
  <2>1. task[t] \in TaskRow /\ task[t].token < MaxToken /\ task' = [task EXCEPT ![t] = TakenBy(task[t], o)]
    BY <1>2 DEF StoreTypeOK, ClaimApproval
  <2>2. task[t].token \in Nat /\ TakenBy(task[t], o).token = task[t].token + 1
    BY <2>1 DEF TakenBy, TaskRow
  <2> QED BY <2>1, <2>2 DEF StoreTypeOK
<1> QED BY <1>1, <1>2

\* An attempt that is opened has a number within the bound.
LEMMA OpenedAttempt ==
  ASSUME StoreTypeOK, NEW t \in Task, NEW n \in Node,
         \/ \E o, k : StartAttempt(t, n, o, k)
         \/ \E o : ClaimApproval(t, n, o)
  PROVE  Len(attempts'[t][n]) \in 1..MaxAttempts
<1> USE ConstantsAssumption
<1>1. PICK a : /\ attempts' = [attempts EXCEPT ![t][n] = Append(attempts[t][n], a)]
               /\ Len(attempts[t][n]) < MaxAttempts
  BY DEF StartAttempt, ClaimApproval, StoreTypeOK
<1> DEFINE s == attempts[t][n]
<1>2. attempts'[t][n] = Append(s, a) /\ s \in Seq(Attempt)
  BY <1>1 DEF StoreTypeOK
<1> HIDE DEF s
<1>3. Len(Append(s, a)) = Len(s) + 1 /\ Len(s) \in Nat
  BY <1>2
<1> QED BY <1>1, <1>2, <1>3 DEF s

-----------------------------------------------------------------------------
(* Workers.                                                                *)

\* The row of a worker that goes on, and of one that leaves.
RunnerStays(r, s) ==
  /\ runner'[r].stage = s /\ runner'[r].task = runner[r].task /\ runner'[r].node = runner[r].node
  /\ runner'[r].token = runner[r].token /\ runner'[r].attempt = runner[r].attempt
RunnerGone(r) == runner'[r].stage \in {"idle", "dead"}

\* What the moves of a worker make of its row.
LEMMA RunnerMoves ==
  ASSUME Inv, NEW r \in Runner
  PROVE  /\ \A s : RunnerGoto(r, s) => RunnerStays(r, s)
         /\ \A s, o : RunnerGotoWith(r, s, o) => RunnerStays(r, s)
         /\ RunnerLeave(r) => RunnerGone(r)
<1>1. runner \in [Runner -> RunnerState] /\ runner[r] \in RunnerState
  BY RunnerFacts
<1>2. ASSUME NEW s, RunnerGoto(r, s) PROVE RunnerStays(r, s)
  BY <1>1, <1>2 DEF RunnerGoto, RunnerStays, RunnerState
<1>3. ASSUME NEW s, NEW o, RunnerGotoWith(r, s, o) PROVE RunnerStays(r, s)
  BY <1>1, <1>3 DEF RunnerGotoWith, RunnerStays, RunnerState
<1>4. ASSUME RunnerLeave(r) PROVE RunnerGone(r)
  BY <1>1, <1>4 DEF RunnerLeave, RunnerGone, IdleRunner
<1> QED BY <1>2, <1>3, <1>4

\* What the row of a worker must be after a step of it.
WithinAttempt == {"work", "begin", "prepared", "report"}

\* A worker that goes on shows what it showed.
LEMMA StaysBounded ==
  ASSUME Inv, Bounds, NEW r \in Runner, NEW s, RunnerStays(r, s) \/ RunnerGone(r),
         runner[r].stage \notin {"idle", "dead"},
         s \in WithinAttempt => runner[r].stage \in WithinAttempt,
         s \in {"begin", "prepared"} => runner[r].stage \in {"begin", "prepared"}
  PROVE  RunnerBounds(runner'[r])
BY DEF RunnerStays, RunnerGone, RunnerBounds, Bounds, WithinAttempt

\* What a worker presents to the ledger.
LEMMA RunnerShows ==
  ASSUME Inv, Bounds, NEW r \in Runner, runner[r].stage \notin {"idle", "dead"}
  PROVE  /\ runner[r].task \in Task /\ r \in Owner \cup {None} /\ runner[r].token \in 0..MaxToken
         /\ ShownOwner(r) \in Owner \cup {None} /\ ShownToken(r) \in 0..MaxToken
<1>1. runner[r].task \in Task /\ r \in Owner
  BY RunnerFacts DEF RunnerRowOK
<1>2. runner[r].token \in 0..MaxToken
  BY DEF Bounds, RunnerBounds
<1> QED BY <1>1, <1>2, ConstantsAssumption DEF ShownOwner, ShownToken

\* A step of a worker, and one that does not write the journal.
RunnerSound(r) ==
  /\ UsesLedger /\ RunnerBounds(runner'[r])
  /\ \A x \in Runner \ {r} : runner'[x] = runner[x]
RunnerQuiet(r) ==
  /\ RunnerSound(r) /\ effect' = effect
  /\ runner'[r].stage = "prepared" => runner'[r] = runner[r]

\* A worker takes a lease.
LEMMA RunnerClaimQuiet == ASSUME Inv, Bounds, NEW r \in Runner, RunnerClaim(r) PROVE RunnerQuiet(r)
<1> PICK t \in Task : /\ ClaimHead(t, r)
                      /\ runner' = [runner EXCEPT ![r].stage = "plan", ![r].task = t,
                                                  ![r].token = task'[t].token]
  BY DEF RunnerClaim
<1>1. UsesLedger /\ task'[t].token \in 0..MaxToken /\ effect' = effect
  BY RunnerFacts, FreeWrites, ClaimedToken DEF ClaimHead, Take
<1>2. /\ runner'[r].stage = "plan" /\ runner'[r].token = task'[t].token
      /\ \A x \in Runner \ {r} : runner'[x] = runner[x]
  BY RunnerFacts DEF RunnerState
<1> QED BY <1>1, <1>2 DEF RunnerQuiet, RunnerSound, RunnerBounds

\* It saves the plan under that lease, or finds one.
LEMMA RunnerPlanQuiet == ASSUME Inv, Bounds, NEW r \in Runner, RunnerPlan(r) PROVE RunnerQuiet(r)
<1>1. runner[r].stage = "plan"
  BY DEF RunnerPlan, RunnerAt
<1>2. UsesLedger /\ effect' = effect
  BY <1>1, RunnerShows, LeasedWrites, FreeWrites DEF RunnerPlan, RunnerFenced, Ledger, SavePlan, storeVars
<1>3. RunnerStays(r, "step") \/ RunnerStays(r, "finish") \/ RunnerGone(r)
  BY RunnerMoves DEF RunnerPlan, RunnerFenced
<1>4. RunnerBounds(runner'[r])
  BY <1>1, <1>3, StaysBounded DEF WithinAttempt
<1>5. \A x \in Runner \ {r} : runner'[x] = runner[x]
  BY RunnerFacts DEF RunnerPlan, RunnerFenced, RunnerGoto, RunnerGotoWith, RunnerLeave
<1> QED BY <1>2, <1>3, <1>4, <1>5 DEF RunnerQuiet, RunnerSound, RunnerStays, RunnerGone

\* A task without a plan has one action.
LEMMA RunnerPrepareQuiet == ASSUME Inv, Bounds, NEW r \in Runner, RunnerPrepare(r) PROVE RunnerQuiet(r)
<1>1. runner[r].stage = "plan" /\ UsesLedger /\ effect' = effect
  BY FreeWrites DEF RunnerPrepare, RunnerAt, Ledger, storeVars
<1>2. RunnerStays(r, "bind") \/ RunnerStays(r, "finish")
  BY RunnerMoves DEF RunnerPrepare
<1>3. RunnerBounds(runner'[r])
  BY <1>1, <1>2, StaysBounded DEF WithinAttempt
<1>4. \A x \in Runner \ {r} : runner'[x] = runner[x]
  BY RunnerFacts DEF RunnerPrepare, RunnerGoto, RunnerGotoWith
<1> QED BY <1>1, <1>2, <1>3, <1>4 DEF RunnerQuiet, RunnerSound, RunnerStays

\* The next node, whose attempt it opens.
LEMMA RunnerStepQuiet == ASSUME Inv, Bounds, NEW r \in Runner, RunnerStep(r) PROVE RunnerQuiet(r)
<1> DEFINE t == runner[r].task
<1>1. runner[r].stage = "step" /\ runner \in [Runner -> RunnerState] /\ StoreTypeOK
  BY RunnerFacts DEF RunnerStep, RunnerAt
<1>2. CASE Ledger /\ ((\E o : RunnerGotoWith(r, "finish", o)) \/ RunnerLeave(r))
  <2>1. UsesLedger /\ effect' = effect
    BY <1>2, FreeWrites DEF Ledger, storeVars
  <2>2. RunnerStays(r, "finish") \/ RunnerGone(r)
    BY <1>2, RunnerMoves
  <2>3. RunnerBounds(runner'[r])
    BY <1>1, <2>2, StaysBounded DEF WithinAttempt
  <2>4. \A x \in Runner \ {r} : runner'[x] = runner[x]
    BY <1>1, <1>2 DEF RunnerGotoWith, RunnerLeave
  <2> QED BY <2>1, <2>2, <2>3, <2>4 DEF RunnerQuiet, RunnerSound, RunnerStays, RunnerGone
<1>3. ASSUME NEW n \in Node, Ledger, runner' = [runner EXCEPT ![r].stage = "bind", ![r].node = n]
      PROVE  RunnerQuiet(r)
  <2>1. UsesLedger /\ effect' = effect
    BY <1>3, FreeWrites DEF Ledger, storeVars
  <2>2. /\ runner'[r].stage = "bind" /\ runner'[r].token = runner[r].token
        /\ \A x \in Runner \ {r} : runner'[x] = runner[x]
    BY <1>1, <1>3 DEF RunnerState
  <2> QED BY <1>1, <2>1, <2>2 DEF RunnerQuiet, RunnerSound, RunnerBounds, Bounds
<1>4. ASSUME NEW n \in Node, StartAttempt(t, n, r, runner[r].token),
             runner' = [runner EXCEPT ![r].stage = IF n \in SideEffect THEN "begin" ELSE "work",
                                      ![r].node = n, ![r].attempt = Len(attempts'[t][n])]
      PROVE  RunnerQuiet(r)
  <2>1. t \in Task /\ UsesLedger /\ effect' = effect
    BY <1>1, <1>4, RunnerShows, NodeWrites DEF StartAttempt
  <2>2. Len(attempts'[t][n]) \in 1..MaxAttempts
    BY <1>1, <1>4, <2>1, OpenedAttempt
  <2>3. /\ runner'[r].stage \in {"begin", "work"} /\ (runner'[r].stage = "begin" => n \in SideEffect)
        /\ runner'[r].node = n /\ runner'[r].attempt = Len(attempts'[t][n])
        /\ runner'[r].token = runner[r].token
        /\ \A x \in Runner \ {r} : runner'[x] = runner[x]
    BY <1>1, <1>4 DEF RunnerState
  <2> QED BY <1>1, <2>1, <2>2, <2>3 DEF RunnerQuiet, RunnerSound, RunnerBounds, Bounds
<1> QED BY <1>2, <1>3, <1>4 DEF RunnerStep, RunnerFenced

\* One transaction of a worker, after which it goes on or leaves.
LEMMA QuietMove ==
  ASSUME Inv, Bounds, NEW r \in Runner, runner[r].stage \notin {"idle", "dead"},
         UsesLedger, effect' = effect
  PROVE  /\ \A s \in {"step", "bind", "mark", "ask", "create", "save", "finish"} :
              /\ RunnerGoto(r, s) => RunnerQuiet(r)
              /\ \A o : RunnerGotoWith(r, s, o) => RunnerQuiet(r)
         /\ RunnerLeave(r) => RunnerQuiet(r)
         /\ runner[r].stage = "begin" =>
              \A o : RunnerGotoWith(r, "report", o) => RunnerQuiet(r)
<1>1. ASSUME NEW s, s \notin {"work", "begin", "prepared"}, s # "report" \/ runner[r].stage = "begin",
             RunnerStays(r, s) \/ RunnerGone(r), \A x \in Runner \ {r} : runner'[x] = runner[x]
      PROVE  RunnerQuiet(r)
  <2>1. RunnerBounds(runner'[r])
    BY <1>1, StaysBounded DEF WithinAttempt
  <2> QED BY <1>1, <2>1 DEF RunnerQuiet, RunnerSound, RunnerStays, RunnerGone
<1>2. ASSUME NEW s, RunnerGoto(r, s) PROVE \A x \in Runner \ {r} : runner'[x] = runner[x]
  BY <1>2, RunnerFacts DEF RunnerGoto
<1>3. ASSUME NEW s, NEW o, RunnerGotoWith(r, s, o)
      PROVE  \A x \in Runner \ {r} : runner'[x] = runner[x]
  BY <1>3, RunnerFacts DEF RunnerGotoWith
<1>4. RunnerLeave(r) => RunnerQuiet(r)
  <2> SUFFICES ASSUME RunnerLeave(r) PROVE RunnerQuiet(r)
    OBVIOUS
  <2>1. RunnerGone(r) /\ \A x \in Runner \ {r} : runner'[x] = runner[x]
    BY RunnerFacts, RunnerMoves DEF RunnerLeave
  <2> QED BY <1>1, <2>1
<1>5. ASSUME NEW s \in {"step", "bind", "mark", "ask", "create", "save", "finish"}, RunnerGoto(r, s)
      PROVE  RunnerQuiet(r)
  BY <1>1, <1>2, <1>5, RunnerMoves
<1>6. ASSUME NEW s, s \in {"step", "bind", "mark", "ask", "create", "save", "finish"} \/
                      (s = "report" /\ runner[r].stage = "begin"),
             NEW o, RunnerGotoWith(r, s, o)
      PROVE  RunnerQuiet(r)
  <2>1. RunnerStays(r, s)
    BY <1>6, RunnerMoves
  <2>2. \A x \in Runner \ {r} : runner'[x] = runner[x]
    BY <1>3, <1>6
  <2> QED BY <1>1, <1>6, <2>1, <2>2
<1> QED BY <1>4, <1>5, <1>6

\* A fence, or a refusal.
LEMMA FencedQuiet ==
  ASSUME Inv, Bounds, NEW r \in Runner, runner[r].stage \notin {"idle", "dead"},
         RunnerFenced(r) \/ RunnerRefused(r)
  PROVE  RunnerQuiet(r)
<1>1. UsesLedger /\ effect' = effect /\ RunnerLeave(r)
  BY FreeWrites DEF RunnerFenced, RunnerRefused, Ledger, storeVars
<1> QED BY <1>1, QuietMove

\* A node without side effects.
LEMMA RunnerWorkQuiet == ASSUME Inv, Bounds, NEW r \in Runner, RunnerWork(r) PROVE RunnerQuiet(r)
<1> DEFINE w == runner[r]
<1>1. w.stage = "work" /\ w.node \in Node /\ w.attempt \in 1..MaxAttempts
  BY RunnerFacts DEF RunnerWork, RunnerAt, RunnerRowOK, Bounds, RunnerBounds
<1>2. CASE ReportAttempt(w.task, w.node, w.attempt, "succeeded", r, w.token) /\ RunnerGoto(r, "step")
  <2>1. "succeeded" \in ReportStatus
    BY DEF ReportStatus, NodeStatus, TaskStatus, Terminal
  <2>2. UsesLedger /\ effect' = effect
    BY <1>1, <1>2, <2>1, RunnerShows, NodeWrites DEF ReportAttempt
  <2> QED BY <1>1, <1>2, <2>2, QuietMove
<1> QED BY <1>1, <1>2, FencedQuiet DEF RunnerWork

\* The result of an attempt.
LEMMA RunnerReportQuiet == ASSUME Inv, Bounds, NEW r \in Runner, RunnerReport(r) PROVE RunnerQuiet(r)
<1> DEFINE w == runner[r]
<1>1. /\ w.stage = "report" /\ w.node \in Node /\ w.attempt \in 1..MaxAttempts
      /\ w.outcome \in {"waiting_human", "recovery_required", "failed"}
  BY RunnerFacts DEF RunnerReport, RunnerAt, RunnerRowOK, Bounds, RunnerBounds
<1>2. CASE ReportAttempt(w.task, w.node, w.attempt, w.outcome, r, w.token)
  <2>1. w.outcome \in ReportStatus
    BY <1>1 DEF ReportStatus, NodeStatus, TaskStatus, Terminal, Stopped
  <2>2. UsesLedger /\ effect' = effect
    <3>1. \E s \in ReportStatus, i \in 1..MaxAttempts :
            ReportAttempt(w.task, w.node, i, s, r, w.token)
      BY <1>1, <1>2, <2>1
    <3>2. effect' = effect
      BY <1>2 DEF ReportAttempt
    <3> QED BY <1>1, <3>1, <3>2, RunnerShows, NodeWrites
  <2>3. CASE RunnerGoto(r, "bind")
    BY <1>1, <2>2, <2>3, QuietMove
  <2>4. CASE RunnerGoto(r, "finish") \/ \E o : RunnerGotoWith(r, "finish", o)
    BY <1>1, <2>2, <2>4, QuietMove
  <2>5. CASE RunnerFenced(r)
    BY <1>1, <2>5, FencedQuiet
  <2> QED BY <2>3, <2>4, <2>5 DEF RunnerReport
<1> QED BY <1>1, <1>2, FencedQuiet DEF RunnerReport

\* The task is read, which writes nothing,
LEMMA RunnerBindQuiet == ASSUME Inv, Bounds, NEW r \in Runner, RunnerBind(r) PROVE RunnerQuiet(r)
<1>1. /\ runner[r].stage = "bind" /\ runner \in [Runner -> RunnerState]
      /\ UsesLedger /\ effect' = effect
  BY RunnerFacts, FreeWrites DEF RunnerBind, RunnerAt, Ledger, storeVars
<1>2. PICK s \in {"ask", "store"}, n \in Node \cup {None}, b \in BOOLEAN :
        runner' = [runner EXCEPT ![r].stage = s, ![r].node = n, ![r].leased = b]
  BY RunnerFacts, ConstantsAssumption DEF RunnerBind, RunnerState
<1>3. /\ runner'[r].stage = s /\ runner'[r].token = runner[r].token
      /\ \A x \in Runner \ {r} : runner'[x] = runner[x]
  BY <1>1, <1>2 DEF RunnerState
<1> QED BY <1>1, <1>3 DEF RunnerQuiet, RunnerSound, RunnerBounds, Bounds

\* the plan of one action is stored,
LEMMA RunnerStoreQuiet == ASSUME Inv, Bounds, NEW r \in Runner, RunnerStore(r) PROVE RunnerQuiet(r)
<1> DEFINE w == runner[r]
<1>1. w.stage = "store" /\ w.node \in Node
  BY RunnerFacts DEF RunnerStore, RunnerAt, RunnerRowOK
<1>2. CASE SavePlan(w.task, {w.node}, ShownOwner(r), ShownToken(r)) /\ RunnerGoto(r, "mark")
  <2>1. UsesLedger /\ effect' = effect
    <3>1. {w.node} \in SUBSET Node
      BY <1>1
    <3> QED BY <1>1, <1>2, <3>1, RunnerShows, LeasedWrites DEF SavePlan
  <2> QED BY <1>1, <1>2, <2>1, QuietMove
<1> QED BY <1>1, <1>2, FencedQuiet DEF RunnerStore

\* the node waits,
LEMMA RunnerMarkQuiet == ASSUME Inv, Bounds, NEW r \in Runner, RunnerMark(r) PROVE RunnerQuiet(r)
<1> DEFINE w == runner[r]
<1>1. w.stage = "mark" /\ w.node \in Node
  BY RunnerFacts DEF RunnerMark, RunnerAt, RunnerRowOK
<1>2. CASE /\ SetNode(w.task, w.node, "waiting_human", ShownOwner(r), ShownToken(r))
           /\ RunnerGoto(r, "ask")
  <2>1. UsesLedger /\ effect' = effect
    BY <1>1, <1>2, RunnerShows, NodeWrites DEF SetNode
  <2> QED BY <1>1, <1>2, <2>1, QuietMove
<1> QED BY <1>1, <1>2, FencedQuiet DEF RunnerMark

\* the task waits,
LEMMA RunnerAskQuiet == ASSUME Inv, Bounds, NEW r \in Runner, RunnerAsk(r) PROVE RunnerQuiet(r)
<1> DEFINE w == runner[r]
<1>1. w.stage = "ask" /\ "waiting_human" \in CallerStatus
  BY DEF RunnerAsk, RunnerAt, CallerStatus, TaskStatus, Stopped
<1>2. CASE /\ UpdateTask(w.task, "waiting_human", ShownOwner(r), ShownToken(r))
           /\ RunnerGoto(r, "create")
  <2>1. UsesLedger /\ effect' = effect
    BY <1>1, <1>2, RunnerShows, LeasedWrites DEF UpdateTask
  <2> QED BY <1>1, <1>2, <2>1, QuietMove
<1> QED BY <1>1, <1>2, FencedQuiet DEF RunnerAsk

\* the request is written,
LEMMA RunnerCreateQuiet == ASSUME Inv, Bounds, NEW r \in Runner, RunnerCreate(r) PROVE RunnerQuiet(r)
<1>1. /\ runner[r].stage = "create" /\ UsesLedger /\ effect' = effect
      /\ RunnerGoto(r, "save") \/ RunnerLeave(r)
  BY FreeWrites DEF RunnerCreate, RunnerAt, Ledger, storeVars
<1> QED BY <1>1, QuietMove

\* and the answer is kept, if the row has not moved on.
LEMMA RunnerSaveQuiet == ASSUME Inv, Bounds, NEW r \in Runner, RunnerSave(r) PROVE RunnerQuiet(r)
<1>1. runner[r].stage = "save" /\ RunnerLeave(r)
  BY DEF RunnerSave, RunnerAt
<1>2. UsesLedger /\ effect' = effect
  BY <1>1, RunnerShows, LeasedWrites, FreeWrites DEF RunnerSave, SaveReleasedOutput, Ledger, storeVars
<1> QED BY <1>1, <1>2, QuietMove

\* The end of a run.
LEMMA RunnerFinishQuiet == ASSUME Inv, Bounds, NEW r \in Runner, RunnerFinish(r) PROVE RunnerQuiet(r)
<1> DEFINE w == runner[r]
<1>1. w.stage = "finish" /\ RunnerLeave(r) /\ w.outcome \in CallerStatus
  BY RunnerFacts DEF RunnerFinish, RunnerAt, RunnerRowOK, CallerStatus, TaskStatus, Terminal, Stopped
<1>2. CASE FinishWorkerTask(w.task, w.outcome, TRUE, r, w.token)
  <2>1. UsesLedger /\ effect' = effect
    BY <1>1, <1>2, RunnerShows, LeasedWrites DEF FinishWorkerTask
  <2> QED BY <1>1, <2>1, QuietMove
<1>3. CASE Ledger
  <2>1. UsesLedger /\ effect' = effect
    BY <1>3, FreeWrites DEF Ledger, storeVars
  <2> QED BY <1>1, <2>1, QuietMove
<1> QED BY <1>2, <1>3 DEF RunnerFinish

\* A heartbeat.
LEMMA RunnerBeatQuiet == ASSUME Inv, Bounds, NEW r \in Runner, RunnerBeat(r) PROVE RunnerQuiet(r)
<1>1. runner' = runner /\ runner[r].stage \notin {"idle", "dead"}
  BY DEF RunnerBeat, RunnerAt, approvalVars
<1>2. UsesLedger /\ effect' = effect
  BY <1>1, RunnerShows, LeasedWrites DEF RunnerBeat, Heartbeat
<1> QED BY <1>1, <1>2 DEF RunnerQuiet, RunnerSound, Bounds

\* A worker dies.
LEMMA RunnerCrashQuiet == ASSUME Inv, Bounds, NEW r \in Runner, RunnerCrash(r) PROVE RunnerQuiet(r)
<1>1. UsesLedger /\ effect' = effect
  BY FreeWrites DEF RunnerCrash, Ledger, storeVars
<1>2. runner'[r].stage = "dead" /\ \A x \in Runner \ {r} : runner'[x] = runner[x]
  BY RunnerFacts DEF RunnerCrash, IdleRunner
<1> QED BY <1>1, <1>2 DEF RunnerQuiet, RunnerSound, RunnerBounds

\* The preparation writes the journal twice: first only over a row that admits
\* a call.
LEMMA RunnerBeginSound ==
  ASSUME Inv, Bounds, NEW r \in Runner, RunnerBegin(r)
  PROVE  /\ RunnerSound(r)
         /\ \/ RunnerQuiet(r)
            \/ /\ EffectAdmits(effect[runner[r].task][runner[r].node])
               /\ effect' = [effect EXCEPT ![runner[r].task][runner[r].node] = "dispatched"]
               /\ BeginsCall(runner[r].task, runner[r].node, RunnerHeld(r))
               /\ RunnerStays(r, "prepared")
<1> DEFINE w == runner[r]
<1>1. w.stage = "begin" /\ w.node \in Operation /\ w.task \in Task
  BY RunnerShows, ApprovalAssumption DEF RunnerBegin, RunnerAt, Bounds, RunnerBounds
<1>2. CASE /\ EffectAdmits(effect[w.task][w.node])
           /\ EffectInsert(w.task, w.node) \/ EffectRedispatch(w.task, w.node)
           /\ BeginsCall(w.task, w.node, RunnerHeld(r))
           /\ UNCHANGED <<task, node, attempts>> /\ RunnerGoto(r, "prepared")
  <2>1. UsesLedger /\ effect' = [effect EXCEPT ![w.task][w.node] = "dispatched"]
    BY <1>1, <1>2, JournalWrites DEF EffectInsert, EffectRedispatch
  <2>2. RunnerStays(r, "prepared")
    BY <1>2, RunnerMoves
  <2>3. RunnerBounds(runner'[r])
    BY <1>1, <2>2, StaysBounded DEF WithinAttempt
  <2>4. \A x \in Runner \ {r} : runner'[x] = runner[x]
    BY <1>2, RunnerFacts DEF RunnerGoto
  <2> QED BY <1>2, <2>1, <2>2, <2>3, <2>4 DEF RunnerSound
<1>3. CASE Ledger /\ \E o : RunnerGotoWith(r, "report", o)
  <2>1. UsesLedger /\ effect' = effect
    BY <1>3, FreeWrites DEF Ledger, storeVars
  <2>2. RunnerQuiet(r)
    BY <1>1, <1>3, <2>1, QuietMove
  <2> QED BY <2>2 DEF RunnerQuiet
<1> QED BY <1>2, <1>3 DEF RunnerBegin

\* Then over the row that it wrote.
LEMMA RunnerPreparedSound ==
  ASSUME Inv, Bounds, NEW r \in Runner, RunnerPrepared(r)
  PROVE  /\ RunnerSound(r) /\ RunnerStays(r, "report") /\ runner[r].stage = "prepared"
         /\ effect' = [effect EXCEPT ![runner[r].task][runner[r].node] = "prepared"]
<1> DEFINE w == runner[r]
<1>1. w.stage = "prepared" /\ w.node \in Operation /\ w.task \in Task
  BY RunnerShows, ApprovalAssumption DEF RunnerPrepared, RunnerAt, Bounds, RunnerBounds
<1>2. UsesLedger /\ effect' = [effect EXCEPT ![w.task][w.node] = "prepared"]
  BY <1>1, JournalWrites DEF RunnerPrepared, EffectFinish
<1>3. RunnerStays(r, "report")
  BY RunnerMoves DEF RunnerPrepared
<1>4. RunnerBounds(runner'[r])
  BY <1>1, <1>3, StaysBounded DEF WithinAttempt
<1>5. \A x \in Runner \ {r} : runner'[x] = runner[x]
  BY RunnerFacts DEF RunnerPrepared, RunnerGotoWith
<1> QED BY <1>1, <1>2, <1>3, <1>4, <1>5 DEF RunnerSound

-----------------------------------------------------------------------------
(* Executions.                                                             *)

\* The row of an execution that goes on, and of one that ends.
ExecutorStays(p, s) ==
  /\ executor'[p].stage = s /\ executor'[p].action = executor[p].action
  /\ executor'[p].token = executor[p].token /\ executor'[p].attempt = executor[p].attempt
  /\ executor'[p].beat = executor[p].beat
ExecutorGone(p) == executor'[p].stage \in {"idle", "dead"} /\ ~executor'[p].beat

\* What the moves of an execution make of its row.
LEMMA ExecutorMoves ==
  ASSUME Inv, NEW p \in Executor
  PROVE  /\ \A s : ExecutorGoto(p, s) =>
              ExecutorStays(p, s) /\ executor'[p].result = executor[p].result
         /\ \A s, o : ExecutorGotoWith(p, s, o) => ExecutorStays(p, s) /\ executor'[p].result = o
         /\ ExecutorLeave(p) => ExecutorGone(p)
         /\ (\E s : ExecutorGoto(p, s) \/ \E o : ExecutorGotoWith(p, s, o)) \/ ExecutorLeave(p) =>
              \A x \in Executor \ {p} : executor'[x] = executor[x]
<1>1. executor \in [Executor -> ExecutorState] /\ executor[p] \in ExecutorState
  BY ExecutorFacts
<1>2. ASSUME NEW s, ExecutorGoto(p, s)
      PROVE  ExecutorStays(p, s) /\ executor'[p].result = executor[p].result
  BY <1>1, <1>2 DEF ExecutorGoto, ExecutorStays, ExecutorState
<1>3. ASSUME NEW s, NEW o, ExecutorGotoWith(p, s, o)
      PROVE  ExecutorStays(p, s) /\ executor'[p].result = o
  BY <1>1, <1>3 DEF ExecutorGotoWith, ExecutorStays, ExecutorState
<1>4. ASSUME ExecutorLeave(p) PROVE ExecutorGone(p)
  BY <1>1, <1>4 DEF ExecutorLeave, ExecutorGone, IdleExecutor
<1>5. ASSUME (\E s : ExecutorGoto(p, s) \/ \E o : ExecutorGotoWith(p, s, o)) \/ ExecutorLeave(p)
      PROVE  \A x \in Executor \ {p} : executor'[x] = executor[x]
  BY <1>1, <1>5 DEF ExecutorGoto, ExecutorGotoWith, ExecutorLeave
<1> QED BY <1>2, <1>3, <1>4, <1>5

\* A step of an execution: its request and its token are those of its claim.
InEffect == {"dispatch", "apply", "record"}
Fresh(p) == executor'[p].stage = "enter" /\ executor'[p].token = task'[TaskOf(p)].token
Went(p) == executor[p].stage \in Claimed /\ executor'[p].token = executor[p].token
ExecutorSound(p) ==
  /\ UsesLedger /\ ExecutorBounds(executor'[p]) /\ Stays(approval')
  /\ executor'[p].stage \in Claimed =>
       /\ executor'[p].action = executor[p].action
       /\ executor[p].stage \notin {"idle", "dead"}
       /\ Fresh(p) \/ Went(p)
  /\ \A x \in Executor \ {p} : executor'[x] = executor[x]
\* One that neither writes the journal nor calls the tool.
ExecutorQuiet(p) ==
  /\ ExecutorSound(p) /\ effect' = effect /\ applied' = applied
  /\ executor'[p].stage \in InEffect =>
       executor'[p].stage = executor[p].stage /\ executor'[p].result = executor[p].result

\* What an execution presents to the ledger.
LEMMA ExecutorShows ==
  ASSUME Inv, Bounds, NEW p \in Executor, executor[p].stage \in Claimed \/ executor[p].beat
  PROVE  /\ executor[p].stage \in Claimed /\ executor[p].stage \notin {"idle", "dead"}
         /\ TaskOf(p) \in Task /\ NodeOf(p) \in SideEffect /\ NodeOf(p) \in Node
         /\ NodeOf(p) \in Operation
         /\ p \in Owner \cup {None} /\ executor[p].token \in 0..MaxToken
         /\ executor[p].attempt \in 1..MaxAttempts
<1>1. executor[p].stage \in Claimed /\ executor[p].token \in 0..MaxToken /\ executor[p].attempt \in 1..MaxAttempts
  BY DEF Bounds, ExecutorBounds
<1>2. executor[p].stage \notin {"idle", "dead", "consume", "claim"}
  BY <1>1 DEF Claimed
<1> QED BY <1>1, <1>2, ExecutorFacts, ApprovalAssumption DEF ExecutorRowOK, NodeOf

\* Requests that nobody touches.
LEMMA SameRequests == ASSUME approval' = approval PROVE Stays(approval')
BY DEF Stays, Known

\* A step that stays within the claim, or ends it.
LEMMA StaysSound ==
  ASSUME Inv, Bounds, NEW p \in Executor, UsesLedger, Stays(approval'),
         NEW s, ExecutorStays(p, s), s \in Claimed => executor[p].stage \in Claimed,
         executor[p].stage \in Claimed => s \in Claimed,
         \A x \in Executor \ {p} : executor'[x] = executor[x]
  PROVE  ExecutorSound(p)
<1>1. ExecutorBounds(executor[p])
  BY DEF Bounds
<1>2. executor[p].stage \in Claimed => executor[p].stage \notin {"idle", "dead"}
  BY DEF Claimed
<1> QED BY <1>1, <1>2 DEF ExecutorStays, ExecutorSound, ExecutorBounds, Went

\* An execution that ends presents nothing any more.
LEMMA GoneQuiet ==
  ASSUME Inv, Bounds, NEW p \in Executor, UsesLedger, Stays(approval'), ExecutorGone(p),
         effect' = effect, applied' = applied,
         \A x \in Executor \ {p} : executor'[x] = executor[x]
  PROVE  ExecutorQuiet(p)
<1>1. executor'[p].stage \notin Claimed /\ executor'[p].stage \notin InEffect /\ ~executor'[p].beat
  BY DEF ExecutorGone, Claimed, InEffect
<1> QED BY <1>1 DEF ExecutorQuiet, ExecutorSound, ExecutorBounds

\* A thread that goes on or ends, outside the call.
LEMMA ExecutorQuietMove ==
  ASSUME Inv, Bounds, NEW p \in Executor, UsesLedger, effect' = effect, ExecutorOthers
  PROVE  /\ executor[p].stage \in Claimed =>
              \A s \in {"select", "attempt", "finish"} :
                /\ ExecutorGoto(p, s) => ExecutorQuiet(p)
                /\ \A o : ExecutorGotoWith(p, s, o) => ExecutorQuiet(p)
         /\ executor[p].stage = "consume" /\ ExecutorGoto(p, "claim") => ExecutorQuiet(p)
         /\ ExecutorLeave(p) => ExecutorQuiet(p)
<1>1. Stays(approval') /\ applied' = applied
  BY SameRequests DEF ExecutorOthers
<1>2. ASSUME NEW s,
             \/ s \in {"select", "attempt", "finish"} /\ executor[p].stage \in Claimed
             \/ s = "claim" /\ executor[p].stage = "consume",
             ExecutorStays(p, s), \A x \in Executor \ {p} : executor'[x] = executor[x]
      PROVE  ExecutorQuiet(p)
  <2>1. /\ s \in Claimed <=> executor[p].stage \in Claimed
        /\ s \notin InEffect
    BY <1>2 DEF Claimed, ExecutorStage, InEffect
  <2>2. ExecutorSound(p)
    BY <1>1, <1>2, <2>1, StaysSound
  <2> QED BY <1>1, <1>2, <2>1, <2>2 DEF ExecutorQuiet, ExecutorStays
<1>3. ASSUME executor[p].stage \in Claimed, NEW s \in {"select", "attempt", "finish"},
             ExecutorGoto(p, s)
      PROVE  ExecutorQuiet(p)
  BY <1>2, <1>3, ExecutorMoves
<1>4. ASSUME executor[p].stage \in Claimed, NEW s \in {"select", "attempt", "finish"},
             NEW o, ExecutorGotoWith(p, s, o)
      PROVE  ExecutorQuiet(p)
  <2>1. ExecutorStays(p, s) /\ \A x \in Executor \ {p} : executor'[x] = executor[x]
    BY <1>4, ExecutorMoves
  <2> QED BY <1>2, <1>4, <2>1
<1>5. ASSUME executor[p].stage = "consume", ExecutorGoto(p, "claim") PROVE ExecutorQuiet(p)
  BY <1>2, <1>5, ExecutorMoves
<1>6. ASSUME ExecutorLeave(p) PROVE ExecutorQuiet(p)
  BY <1>1, <1>6, GoneQuiet, ExecutorMoves
<1> QED BY <1>3, <1>4, <1>5, <1>6

\* The user confirms a request.
LEMMA PreviewQuiet == ASSUME Inv, Bounds, NEW p \in Executor, Preview(p) PROVE ExecutorQuiet(p)
<1>1. PICK a \in Action : executor' = [executor EXCEPT ![p].stage = "consume", ![p].action = a]
  BY DEF Preview
<1>2. ~executor[p].beat
  BY DEF Preview, ExecutorAt, Bounds, ExecutorBounds, Claimed
<1>3. /\ executor'[p].stage = "consume" /\ ~executor'[p].beat
      /\ \A x \in Executor \ {p} : executor'[x] = executor[x]
  BY <1>1, <1>2, ExecutorFacts DEF ExecutorState
<1>4. UsesLedger /\ effect' = effect /\ applied' = applied /\ Stays(approval')
  BY FreeWrites, SameRequests DEF Preview, Ledger, storeVars, ExecutorAlone, ExecutorOthers
<1> QED BY <1>3, <1>4 DEF ExecutorQuiet, ExecutorSound, ExecutorBounds, Claimed, InEffect

\* The checks before the claim.
LEMMA ConsumeQuiet == ASSUME Inv, Bounds, NEW p \in Executor, Consume(p) PROVE ExecutorQuiet(p)
<1>1. UsesLedger /\ effect' = effect /\ ExecutorOthers /\ executor[p].stage = "consume"
  BY FreeWrites DEF Consume, Ledger, storeVars, ExecutorAlone, ExecutorAt
<1>2. ExecutorGoto(p, "claim") \/ ExecutorLeave(p)
  BY DEF Consume
<1> QED BY <1>1, <1>2, ExecutorQuietMove

\* The claim: the lease and the attempt are new.
LEMMA ClaimActionQuiet == ASSUME Inv, Bounds, NEW p \in Executor, ClaimAction(p) PROVE ExecutorQuiet(p)
<1> DEFINE a == executor[p].action
           t == approval[a].task
           n == approval[a].node
<1>1. executor[p].stage = "claim" /\ UNCHANGED <<runner, desk, applied, torn>>
  BY DEF ClaimAction, ExecutorAt
<1>2. a \in Action /\ Known(a) /\ t \in Task /\ n \in Node /\ p \in Owner /\ StoreTypeOK
  BY <1>1, ExecutorFacts DEF TaskOf, NodeOf
<1>3. CASE ExecutorLeave(p) /\ Ledger /\ UNCHANGED approval
  <2>1. UsesLedger /\ effect' = effect /\ ExecutorOthers
    BY <1>1, <1>3, FreeWrites DEF Ledger, storeVars, ExecutorOthers
  <2> QED BY <1>3, <2>1, ExecutorQuietMove
<1>4. CASE /\ MayConsume(a) /\ ClaimApproval(t, n, p) /\ approval' = Consumed(a)
           /\ executor' = [executor EXCEPT
                ![p].stage = "enter", ![p].token = task'[t].token,
                ![p].attempt = Len(attempts'[t][n]), ![p].beat = TRUE]
  <2>1. UsesLedger /\ effect' = effect
    BY <1>2, <1>4, FreeWrites DEF ClaimApproval
  <2>2. task'[t].token \in 0..MaxToken /\ Len(attempts'[t][n]) \in 1..MaxAttempts
    BY <1>2, <1>4, ClaimedToken, OpenedAttempt
  <2> DEFINE x == [approval[a] EXCEPT !.state = "consumed"]
  <2>3. x \in ApprovalRow /\ x.state # "absent" /\ x.task = t /\ x.node = n /\ x.same = approval[a].same
    <3>1. approval[a] \in ApprovalRow
      BY <1>2 DEF Inv, RowsTypeOK
    <3> QED BY <3>1, DecidedRow
  <2>4. approval' = [approval EXCEPT ![a] = x]
    BY <1>4 DEF Consumed, Inv, RowsTypeOK
  <2>5. Living => x.same
    BY <1>2, <2>3 DEF Inv, SameOK
  <2> HIDE DEF x
  <2>6. Stays(approval')
    BY <1>2, <2>3, <2>4, <2>5, ChangeFacts
  <2>7. /\ executor'[p].stage = "enter" /\ executor'[p].action = a
        /\ executor'[p].token = task'[t].token /\ executor'[p].attempt = Len(attempts'[t][n])
        /\ \A y \in Executor \ {p} : executor'[y] = executor[y]
    BY <1>4, ExecutorFacts DEF ExecutorState
  <2>8. TaskOf(p) = t
    BY DEF TaskOf
  <2>9. ExecutorBounds(executor'[p])
    BY <2>2, <2>7 DEF ExecutorBounds, Claimed, ExecutorStage
  <2> QED BY <1>1, <2>1, <2>6, <2>7, <2>8, <2>9 DEF ExecutorQuiet, ExecutorSound, InEffect, Fresh
<1> QED BY <1>3, <1>4 DEF ClaimAction

\* The row is read once more.
LEMMA EnterCallQuiet == ASSUME Inv, Bounds, NEW p \in Executor, EnterCall(p) PROVE ExecutorQuiet(p)
<1>1. UsesLedger /\ effect' = effect /\ ExecutorOthers /\ executor[p].stage \in Claimed
  BY FreeWrites DEF EnterCall, Ledger, storeVars, ExecutorAlone, ExecutorAt, Claimed, ExecutorStage
<1>2. ExecutorGoto(p, "select") \/ \E o : ExecutorGotoWith(p, "attempt", o)
  BY DEF EnterCall
<1> QED BY <1>1, <1>2, ExecutorQuietMove

\* The attempt is closed under the lease of the execution,
LEMMA CloseAttemptQuiet ==
  ASSUME Inv, Bounds, NEW p \in Executor, CloseAttempt(p) PROVE ExecutorQuiet(p)
<1>1. /\ executor[p].stage = "attempt" /\ executor[p].stage \in Claimed /\ ExecutorOthers
      /\ executor[p].result \in Result \ {"none"}
  BY ExecutorFacts
  DEF CloseAttempt, ExecutorAlone, ExecutorAt, Claimed, ExecutorStage, ExecutorRowOK, ExecutorState
<1>2. CASE FinishCall(p) /\ ExecutorGoto(p, "finish")
  <2>1. NodeResult(executor[p].result) \in ReportStatus
    BY <1>1 DEF NodeResult, Result, ReportStatus, NodeStatus, TaskStatus, Terminal, Stopped
  <2>2. UsesLedger
    BY <1>1, <1>2, <2>1, ExecutorShows, NodeWrites DEF FinishCall
  <2>3. effect' = effect
    BY <1>2 DEF FinishCall, FinishAttempt
  <2> QED BY <1>1, <1>2, <2>2, <2>3, ExecutorQuietMove
<1>3. CASE ExecutorLeave(p) /\ Ledger
  <2>1. UsesLedger /\ effect' = effect
    BY <1>3, FreeWrites DEF Ledger, storeVars
  <2> QED BY <1>1, <1>3, <2>1, ExecutorQuietMove
<1> QED BY <1>2, <1>3 DEF CloseAttempt

\* and so is the task.
LEMMA CloseTaskQuiet == ASSUME Inv, Bounds, NEW p \in Executor, CloseTask(p) PROVE ExecutorQuiet(p)
<1>1. /\ executor[p].stage = "finish" /\ executor[p].stage \in Claimed /\ ExecutorOthers
      /\ executor[p].result \in Result \ {"none"} /\ ExecutorLeave(p)
  BY ExecutorFacts
  DEF CloseTask, ExecutorAlone, ExecutorAt, Claimed, ExecutorStage, ExecutorRowOK, ExecutorState
<1>2. CASE FinishApproved(p)
  <2>1. TaskResult(p) \in CallerStatus
    BY <1>1 DEF TaskResult, Result, CallerStatus, TaskStatus, Terminal, Stopped
  <2>2. UsesLedger
    BY <1>1, <1>2, <2>1, ExecutorShows, LeasedWrites DEF FinishApproved
  <2>3. effect' = effect
    BY <1>2 DEF FinishApproved, UpdateTask
  <2> QED BY <1>1, <2>2, <2>3, ExecutorQuietMove
<1>3. CASE Ledger
  <2>1. UsesLedger /\ effect' = effect
    BY <1>3, FreeWrites DEF Ledger, storeVars
  <2> QED BY <1>1, <2>1, ExecutorQuietMove
<1> QED BY <1>2, <1>3 DEF CloseTask

\* The heartbeat of an execution.
LEMMA ApprovalBeatQuiet ==
  ASSUME Inv, Bounds, NEW p \in Executor, ApprovalBeat(p) PROVE ExecutorQuiet(p)
<1>1. executor[p].beat /\ executor[p].stage \in Claimed /\ ExecutorBounds(executor[p]) /\ ExecutorOthers
  BY DEF ApprovalBeat, ExecutorAlone, Bounds, ExecutorBounds
<1>2. UsesLedger /\ effect' = effect
  <2>1. CASE Heartbeat(TaskOf(p), p, executor[p].token)
    BY <1>1, <2>1, ExecutorShows, LeasedWrites DEF Heartbeat
  <2>2. CASE Ledger
    BY <2>2, FreeWrites DEF Ledger, storeVars
  <2> QED BY <2>1, <2>2 DEF ApprovalBeat
<1>3. /\ executor'[p].stage = executor[p].stage /\ executor'[p].action = executor[p].action
      /\ executor'[p].token = executor[p].token /\ executor'[p].attempt = executor[p].attempt
      /\ executor'[p].result = executor[p].result
      /\ \A x \in Executor \ {p} : executor'[x] = executor[x]
  BY ExecutorFacts DEF ApprovalBeat, ExecutorState
<1>4. Stays(approval') /\ applied' = applied
  BY <1>1, SameRequests DEF ExecutorOthers
<1>5. ExecutorBounds(executor'[p])
  BY <1>1, <1>3 DEF ExecutorBounds
<1> QED BY <1>1, <1>2, <1>3, <1>4, <1>5, ExecutorShows DEF ExecutorQuiet, ExecutorSound, Went

\* An execution dies.
LEMMA ExecutorCrashQuiet ==
  ASSUME Inv, Bounds, NEW p \in Executor, ExecutorCrash(p) PROVE ExecutorQuiet(p)
<1>1. UsesLedger /\ effect' = effect /\ Stays(approval') /\ applied' = applied
  BY FreeWrites, SameRequests DEF ExecutorCrash, Ledger, storeVars, ExecutorAlone, ExecutorOthers
<1>2. ExecutorGone(p) /\ \A x \in Executor \ {p} : executor'[x] = executor[x]
  BY ExecutorFacts DEF ExecutorCrash, ExecutorGone, IdleExecutor
<1> QED BY <1>1, <1>2, GoneQuiet

\* The SELECT of begin_effect: the call goes on over a row that admits it.
LEMMA SelectCallSound ==
  ASSUME Inv, Bounds, NEW p \in Executor, SelectCall(p)
  PROVE  /\ ExecutorSound(p) /\ effect' = effect /\ applied' = applied
         /\ \/ ExecutorQuiet(p)
            \/ EffectAdmits(effect[TaskOf(p)][NodeOf(p)]) /\ ExecutorStays(p, "dispatch")
<1>1. /\ executor[p].stage = "select" /\ executor[p].stage \in Claimed /\ ExecutorOthers
      /\ UsesLedger /\ effect' = effect /\ applied' = applied /\ Stays(approval')
  BY FreeWrites, SameRequests
  DEF SelectCall, Ledger, storeVars, ExecutorAlone, ExecutorOthers, ExecutorAt, Claimed, ExecutorStage
<1>2. ASSUME EffectAdmits(effect[TaskOf(p)][NodeOf(p)]),
             NEW s, executor' = [executor EXCEPT ![p].stage = "dispatch", ![p].saw = s]
      PROVE  ExecutorSound(p) /\ ExecutorStays(p, "dispatch")
  <2>1. ExecutorStays(p, "dispatch") /\ \A x \in Executor \ {p} : executor'[x] = executor[x]
    BY <1>2, ExecutorFacts DEF ExecutorStays, ExecutorState
  <2>2. "dispatch" \in Claimed
    BY DEF Claimed, ExecutorStage
  <2> QED BY <1>1, <2>1, <2>2, StaysSound
<1>3. ASSUME NEW o, ExecutorGotoWith(p, "attempt", o)
      PROVE  ExecutorQuiet(p)
  BY <1>1, <1>3, ExecutorQuietMove
<1>4. \/ /\ EffectAdmits(effect[TaskOf(p)][NodeOf(p)])
         /\ \E s : executor' = [executor EXCEPT ![p].stage = "dispatch", ![p].saw = s]
      \/ \E o : ExecutorGotoWith(p, "attempt", o)
  BY DEF SelectCall
<1> QED BY <1>1, <1>2, <1>3, <1>4 DEF ExecutorQuiet

\* Its write, over whatever the row is by now.
LEMMA DispatchCallSound ==
  ASSUME Inv, Bounds, NEW p \in Executor, DispatchCall(p)
  PROVE  /\ ExecutorSound(p) /\ applied' = applied
         /\ \/ ExecutorQuiet(p)
            \/ /\ effect' = [effect EXCEPT ![TaskOf(p)][NodeOf(p)] = "dispatched"]
               /\ BeginsCall(TaskOf(p), NodeOf(p), ExecutorHeld(p))
               /\ executor[p].stage = "dispatch" /\ ExecutorStays(p, "apply")
<1>1. /\ executor[p].stage = "dispatch" /\ executor[p].stage \in Claimed /\ ExecutorOthers
      /\ applied' = applied /\ Stays(approval') /\ "apply" \in Claimed
  BY SameRequests DEF DispatchCall, ExecutorOthers, ExecutorAt, Claimed, ExecutorStage
<1>2. CASE /\ EffectInsert(TaskOf(p), NodeOf(p)) \/ EffectRedispatch(TaskOf(p), NodeOf(p))
           /\ BeginsCall(TaskOf(p), NodeOf(p), ExecutorHeld(p))
           /\ UNCHANGED <<task, node, attempts>> /\ ExecutorGoto(p, "apply")
  <2>1. UsesLedger
    BY <1>1, <1>2, ExecutorShows, JournalWrites
  <2>2. effect' = [effect EXCEPT ![TaskOf(p)][NodeOf(p)] = "dispatched"]
    BY <1>2 DEF EffectInsert, EffectRedispatch
  <2>3. ExecutorStays(p, "apply") /\ \A x \in Executor \ {p} : executor'[x] = executor[x]
    BY <1>2, ExecutorMoves
  <2>4. ExecutorSound(p)
    BY <1>1, <2>1, <2>3, StaysSound
  <2> QED BY <1>1, <1>2, <2>2, <2>3, <2>4
<1>3. ASSUME Ledger, NEW o, ExecutorGotoWith(p, "attempt", o)
      PROVE  ExecutorQuiet(p)
  <2>1. UsesLedger /\ effect' = effect
    BY <1>3, FreeWrites DEF Ledger, storeVars
  <2> QED BY <1>1, <1>3, <2>1, ExecutorQuietMove
<1>4. CASE Ledger /\ \E o : ExecutorGotoWith(p, "attempt", o)
  BY <1>1, <1>3, <1>4 DEF ExecutorQuiet
<1> QED BY <1>2, <1>4 DEF DispatchCall

\* The tool, which acts only when it does not report a failure.
LEMMA ApplyCallSound ==
  ASSUME Inv, Bounds, NEW p \in Executor, ApplyCall(p)
  PROVE  /\ ExecutorSound(p) /\ effect' = effect
         /\ executor[p].stage = "apply" /\ ExecutorStays(p, "record")
         /\ \/ applied' = applied
            \/ /\ applied' = [applied EXCEPT ![TaskOf(p)][NodeOf(p)] = @ + 1]
               /\ executor'[p].result \in {"succeeded", "unknown"}
<1>1. /\ executor[p].stage = "apply" /\ executor[p].stage \in Claimed /\ "record" \in Claimed
      /\ UsesLedger /\ effect' = effect /\ Stays(approval')
  BY FreeWrites, SameRequests DEF ApplyCall, ExecutorAt, Ledger, storeVars, Claimed, ExecutorStage
<1> PICK o \in ToolOutcome :
      /\ ExecutorGotoWith(p, "record", o)
      /\ \/ o # "failed" /\ applied' = [applied EXCEPT ![TaskOf(p)][NodeOf(p)] = @ + 1]
         \/ applied' = applied
  BY DEF ApplyCall
<1>2. /\ ExecutorStays(p, "record") /\ executor'[p].result = o
      /\ \A x \in Executor \ {p} : executor'[x] = executor[x]
  BY ExecutorMoves
<1>3. ExecutorSound(p)
  BY <1>1, <1>2, StaysSound
<1> QED BY <1>1, <1>2, <1>3, ApprovalAssumption

\* The result of the call.
LEMMA RecordCallSound ==
  ASSUME Inv, Bounds, NEW p \in Executor, RecordCall(p)
  PROVE  /\ ExecutorSound(p) /\ applied' = applied
         /\ executor[p].stage = "record" /\ ExecutorStays(p, "attempt")
         /\ \E s \in {"committed", "unknown", "failed"} :
              /\ effect' = [effect EXCEPT ![TaskOf(p)][NodeOf(p)] = s]
              /\ executor[p].result \in {"succeeded", "unknown"} => s \in {"committed", "unknown"}
<1>1. /\ executor[p].stage = "record" /\ executor[p].stage \in Claimed /\ "attempt" \in Claimed
      /\ applied' = applied /\ Stays(approval') /\ executor[p].result \in {"succeeded", "failed", "unknown"}
  BY SameRequests, ExecutorFacts
  DEF RecordCall, ExecutorAlone, ExecutorOthers, ExecutorAt, Claimed, ExecutorStage, ExecutorRowOK
<1>2. PICK s \in {"committed", "unknown", "failed"} :
        /\ EffectFinish(TaskOf(p), NodeOf(p), s)
        /\ executor[p].result \in {"succeeded", "unknown"} => s \in {"committed", "unknown"}
  BY <1>1 DEF RecordCall
<1>3. UsesLedger
  BY <1>1, <1>2, ExecutorShows, JournalWrites DEF RecordCall
<1>4. ExecutorStays(p, "attempt") /\ \A x \in Executor \ {p} : executor'[x] = executor[x]
  BY ExecutorMoves DEF RecordCall
<1>5. ExecutorSound(p)
  BY <1>1, <1>3, <1>4, StaysSound
<1>6. effect' = [effect EXCEPT ![TaskOf(p)][NodeOf(p)] = s]
  BY <1>2 DEF EffectFinish
<1> QED BY <1>1, <1>2, <1>4, <1>5, <1>6

-----------------------------------------------------------------------------
(* Windows, timers, the passing of time.                                   *)

\* A step of a worker leaves the executions alone, any other step both.
RunnerRest == executor' = executor /\ applied' = applied /\ Stays(approval')
ElseQuiet ==
  /\ UsesLedger /\ effect' = effect /\ applied' = applied
  /\ runner' = runner /\ executor' = executor /\ Stays(approval')

\* That of a worker may write a request.
LEMMA RunnerRests ==
  ASSUME Inv, NEW r \in Runner, RunnerMain(r) \/ RunnerBeat(r) \/ RunnerCrash(r)
  PROVE  RunnerRest
<1>1. CASE RunnerCreate(r)
  <2>1. runner[r].task \in Task /\ runner[r].node \in Node
    BY <1>1, RunnerFacts DEF RunnerCreate, RunnerAt, RunnerRowOK
  <2>2. Stays(approval')
    BY <1>1, <2>1, CreateFacts, SameRequests DEF RunnerCreate
  <2> QED BY <1>1, <2>2 DEF RunnerCreate, RunnerRest
<1>2. CASE ~RunnerCreate(r)
  <2>1. UNCHANGED <<approval, executor, applied>>
    BY <1>2 DEF RunnerMain, RunnerClaim, RunnerPlan, RunnerPrepare, RunnerStep, RunnerWork,
       RunnerBegin, RunnerPrepared, RunnerReport, RunnerBind, RunnerStore, RunnerMark, RunnerAsk,
       RunnerSave, RunnerFinish, RunnerBeat, RunnerCrash, RunnerAlone, RunnerOthers, approvalVars
  <2> QED BY <2>1, SameRequests DEF RunnerRest
<1> QED BY <1>1, <1>2

\* A step of an execution leaves the workers alone.
LEMMA ExecutorRests ==
  ASSUME NEW p \in Executor, Preview(p) \/ ExecutorMain(p) \/ ApprovalBeat(p) \/ ExecutorCrash(p)
  PROVE  runner' = runner
BY DEF Preview, ExecutorMain, Consume, ClaimAction, EnterCall, SelectCall, DispatchCall, ApplyCall,
   RecordCall, CloseAttempt, CloseTask, ApprovalBeat, ExecutorCrash, ExecutorAlone, ExecutorOthers

\* A window that writes a request,
LEMMA RequestQuiet ==
  ASSUME Inv, NEW d \in Desk, Reject(d) \/ CopyRequest(d) \/ DropRequest(d) \/ SweepRequest(d)
  PROVE  ElseQuiet
<1>1. UsesLedger /\ effect' = effect /\ UNCHANGED <<runner, executor, applied>>
  BY FreeWrites DEF Reject, CopyRequest, DropRequest, SweepRequest, Ledger, storeVars
<1>2. ASSUME NEW a \in Action, Known(a), approval' = Cancelled(a) PROVE Stays(approval')
  BY <1>2, CancelFacts
<1>3. CASE Reject(d)
  BY <1>1, <1>2, <1>3 DEF Reject, ElseQuiet, Pending, Known
<1>4. CASE CopyRequest(d)
  <2> DEFINE a == desk[d].action
  <2>1. approval[a].task \in Task /\ approval[a].node \in Node
    BY <1>4, DeskFacts DEF CopyRequest, DeskAt
  <2>2. Stays(approval')
    BY <1>4, <2>1, CreateFacts, SameRequests DEF CopyRequest
  <2> QED BY <1>1, <2>2 DEF ElseQuiet
<1>5. CASE DropRequest(d)
  <2>1. desk[d].action \in Action /\ Known(desk[d].action)
    BY <1>5, DeskFacts DEF DropRequest, DeskAt
  <2> QED BY <1>1, <1>2, <1>5, <2>1 DEF DropRequest, ElseQuiet
<1>6. CASE SweepRequest(d)
  <2>1. \A a \in desk[d].todo : a \in Action /\ Known(a)
    BY <1>6, DeskFacts DEF SweepRequest, DeskAt, DeskRowOK, DeskState, Known
  <2> QED BY <1>1, <1>2, <1>6, <2>1, SameRequests DEF SweepRequest, ElseQuiet
<1> QED BY <1>3, <1>4, <1>5, <1>6

\* one that writes a task,
LEMMA ControlQuiet ==
  ASSUME Inv, NEW d \in Desk,
         RejectNode(d) \/ RejectTask(d) \/ RejectFails(d) \/ ControlTask(d) \/ ResumeTask(d)
  PROVE  ElseQuiet
<1>1. UNCHANGED <<runner, executor, applied>> /\ Stays(approval')
  BY SameRequests DEF RejectNode, RejectTask, RejectFails, ControlTask, ResumeTask, DeskAlone, approvalVars
<1>2. None \in Owner \cup {None} /\ 0 \in 0..MaxToken
  BY ConstantsAssumption
<1>3. CASE Ledger
  BY <1>1, <1>3, FreeWrites DEF Ledger, storeVars, ElseQuiet
<1>4. CASE RejectNode(d) /\ ~Ledger
  <2> DEFINE t == approval[desk[d].action].task
             n == approval[desk[d].action].node
  <2>1. t \in Task /\ n \in Node /\ SetNode(t, n, "cancelled", None, 0)
    BY <1>4, DeskFacts DEF RejectNode, DeskAt
  <2> QED BY <1>1, <1>2, <2>1, NodeWrites DEF SetNode, ElseQuiet
<1>5. CASE RejectTask(d) /\ ~Ledger
  <2> DEFINE t == approval[desk[d].action].task
  <2>1. t \in Task /\ UpdateTask(t, "cancelled", None, 0)
    BY <1>5, DeskFacts DEF RejectTask, DeskAt
  <2>2. "cancelled" \in CallerStatus
    BY DEF CallerStatus, TaskStatus, Terminal
  <2> QED BY <1>1, <1>2, <2>1, <2>2, LeasedWrites DEF UpdateTask, ElseQuiet
<1>6. CASE ControlTask(d)
  <2>1. \E t \in Task, action \in {"pause", "cancel"} : RequestControl(t, action)
    BY <1>6, ApprovalAssumption DEF ControlTask
  <2> QED BY <1>1, <2>1, FreeWrites DEF RequestControl, ElseQuiet
<1>7. CASE ResumeTask(d)
  BY <1>1, <1>7, FreeWrites DEF ResumeTask, Resume, ElseQuiet
<1>8. CASE RejectFails(d)
  BY <1>3, <1>8 DEF RejectFails
<1> QED BY <1>3, <1>4, <1>5, <1>6, <1>7, <1>8

\* and any other step.
LEMMA OthersQuiet ==
  ASSUME Inv, \/ \E d \in Desk : DeskMain(d) \/ User(d) \/ DeskCrash(d)
              \/ RefreshTasks
              \/ \E t \in Task : LeaseTime(t)
              \/ \E a \in Action : RequestExpires(a) \/ FileDrifts(a)
              \/ UNCHANGED vars
  PROVE  ElseQuiet
<1>1. CASE \E d \in Desk : \/ Reject(d) \/ CopyRequest(d) \/ DropRequest(d) \/ SweepRequest(d)
                           \/ RejectNode(d) \/ RejectTask(d) \/ RejectFails(d)
                           \/ ControlTask(d) \/ ResumeTask(d)
  BY <1>1, RequestQuiet, ControlQuiet
<1>2. CASE \E d \in Desk : Renew(d) \/ ListRequests(d) \/ DeskCrash(d)
  BY <1>2, FreeWrites, SameRequests
  DEF Renew, ListRequests, DeskCrash, DeskAlone, Ledger, storeVars, ElseQuiet
<1>3. CASE RefreshTasks \/ \E t \in Task : LeaseTime(t)
  <2>1. ExpireLeases \/ \E t \in Task : LeaseLapses(t)
    BY <1>3 DEF RefreshTasks, LeaseTime
  <2>2. UsesLedger /\ effect' = effect
    BY <2>1, FreeWrites DEF ExpireLeases, LeaseLapses
  <2>3. UNCHANGED approvalVars
    BY <1>3 DEF RefreshTasks, LeaseTime
  <2> QED BY <2>2, <2>3, SameRequests DEF approvalVars, ElseQuiet
<1>4. ASSUME NEW a \in Action, RequestExpires(a) \/ FileDrifts(a) PROVE ElseQuiet
  <2>1. approval[a] \in ApprovalRow /\ approval \in [Action -> ApprovalRow]
    BY DEF Inv, RowsTypeOK
  <2>2. \A b \in Action : /\ approval'[b].state = approval[b].state
                          /\ approval'[b].task = approval[b].task
                          /\ approval'[b].node = approval[b].node
    BY <1>4, <2>1 DEF RequestExpires, FileDrifts, ApprovalRow
  <2>3. Stays(approval')
    BY <2>2 DEF Stays, Known
  <2> QED BY <1>4, <2>3, FreeWrites DEF RequestExpires, FileDrifts, Ledger, storeVars, ElseQuiet
<1>5. CASE UNCHANGED vars
  BY <1>5, FreeWrites, SameRequests DEF vars, approvalVars, storeVars, ElseQuiet
<1> QED BY <1>1, <1>2, <1>3, <1>4, <1>5 DEF DeskMain, User

-----------------------------------------------------------------------------
(* Every step.                                                             *)

\* The steps of a worker: all but two leave the journal alone.
LEMMA RunnerKinds ==
  ASSUME Inv, Bounds, NEW r \in Runner, RunnerMain(r) \/ RunnerBeat(r) \/ RunnerCrash(r)
  PROVE  /\ RunnerRest /\ RunnerSound(r)
         /\ RunnerQuiet(r) \/ RunnerBegin(r) \/ RunnerPrepared(r)
<1>1. RunnerRest
  BY RunnerRests
<1>2. CASE RunnerBegin(r) \/ RunnerPrepared(r)
  BY <1>1, <1>2, RunnerBeginSound, RunnerPreparedSound
<1>3. CASE ~RunnerBegin(r) /\ ~RunnerPrepared(r)
  <2>1. RunnerQuiet(r)
    BY <1>3, RunnerClaimQuiet, RunnerPlanQuiet, RunnerPrepareQuiet, RunnerStepQuiet, RunnerWorkQuiet,
       RunnerReportQuiet, RunnerBindQuiet, RunnerStoreQuiet, RunnerMarkQuiet, RunnerAskQuiet,
       RunnerCreateQuiet, RunnerSaveQuiet, RunnerFinishQuiet, RunnerBeatQuiet, RunnerCrashQuiet
    DEF RunnerMain
  <2> QED BY <1>1, <2>1 DEF RunnerQuiet
<1> QED BY <1>2, <1>3

\* The steps of an execution: four belong to the call.
LEMMA ExecutorKinds ==
  ASSUME Inv, Bounds, NEW p \in Executor,
         Preview(p) \/ ExecutorMain(p) \/ ApprovalBeat(p) \/ ExecutorCrash(p)
  PROVE  /\ runner' = runner /\ ExecutorSound(p)
         /\ \/ ExecutorQuiet(p)
            \/ SelectCall(p) \/ DispatchCall(p) \/ ApplyCall(p) \/ RecordCall(p)
<1>1. runner' = runner
  BY ExecutorRests
<1>2. CASE SelectCall(p) \/ DispatchCall(p) \/ ApplyCall(p) \/ RecordCall(p)
  BY <1>1, <1>2, SelectCallSound, DispatchCallSound, ApplyCallSound, RecordCallSound
<1>3. CASE ~SelectCall(p) /\ ~DispatchCall(p) /\ ~ApplyCall(p) /\ ~RecordCall(p)
  <2>1. ExecutorQuiet(p)
    BY <1>3, PreviewQuiet, ConsumeQuiet, ClaimActionQuiet, EnterCallQuiet, CloseAttemptQuiet,
       CloseTaskQuiet, ApprovalBeatQuiet, ExecutorCrashQuiet
    DEF ExecutorMain
  <2> QED BY <1>1, <2>1 DEF ExecutorQuiet
<1> QED BY <1>2, <1>3

\* The invariant of all that follows: threads present leases that were issued,
\* and every step is one of the ledger.
LeaseInv == Inv /\ Bounds /\ LeaseShape

\* It holds at the start, when no task has an owner,
LEMMA LeaseInvInit == Init => LeaseInv /\ AttemptFencing /\ RunningNodeHasAttempt
<1> SUFFICES ASSUME Init PROVE Bounds /\ LeaseShape /\ AttemptFencing /\ RunningNodeHasAttempt
  BY InvInit DEF LeaseInv
<1>1. Bounds
  BY DEF Init, Bounds, RunnerBounds, ExecutorBounds, IdleRunner, IdleExecutor, Claimed
<1> DEFINE q == [NewRow EXCEPT !.status = "queued", !.bound = TRUE]
<1>2. q.owner = None /\ q.lease = "none" /\ task = [t \in Task |-> q]
  BY DEF Init, NewRow
<1> HIDE DEF q
<1>3. LeaseShape
  BY <1>2 DEF LeaseShape, RowShape
<1>4. AttemptFencing /\ RunningNodeHasAttempt
  BY DEF Init, AttemptFencing, RunningNodeHasAttempt
<1> QED BY <1>1, <1>3, <1>4

\* and every step keeps it.
LEMMA LeaseInvStep == LeaseInv /\ [Next]_vars => LeaseInv' /\ UsesLedger
<1> SUFFICES ASSUME Inv, Bounds, LeaseShape, [Next]_vars PROVE UsesLedger /\ Bounds' /\ LeaseShape' /\ Inv'
  BY DEF LeaseInv
<1>1. ASSUME NEW r \in Runner, RunnerMain(r) \/ RunnerBeat(r) \/ RunnerCrash(r)
      PROVE  UsesLedger /\ Bounds'
  BY <1>1, RunnerKinds DEF RunnerRest, RunnerSound, Bounds
<1>2. ASSUME NEW p \in Executor, Preview(p) \/ ExecutorMain(p) \/ ApprovalBeat(p) \/ ExecutorCrash(p)
      PROVE  UsesLedger /\ Bounds'
  BY <1>2, ExecutorKinds DEF ExecutorSound, Bounds
<1>3. ElseQuiet => UsesLedger /\ Bounds'
  BY DEF ElseQuiet, Bounds
<1>4. UsesLedger /\ Bounds'
  BY <1>1, <1>2, <1>3, OthersQuiet DEF Next
<1>5. LeaseShape'
  BY <1>4, ShapeStep DEF Inv, RowsTypeOK, UsesLedger
<1> QED BY <1>4, <1>5, InvStep

\* What the steps of the ledger do, those of the approval do.
LEMMA LedgerFacts == LeaseInv => StoreTypeOK /\ LeaseShape
BY DEF LeaseInv, Inv, RowsTypeOK

\* Whoever asks, decides, executes, renews or dies writes the tables of tasks by
\* the transactions of the ledger only, under leases that it was given.
THEOREM ApprovalsUseTheLedger == Spec => [][LedgerNext]_storeVars
<1>1. LeaseInv /\ [Next]_vars => [LedgerNext]_storeVars
  BY LeaseInvStep DEF UsesLedger
<1> QED BY <1>1, LeaseInvInit, LeaseInvStep, PTL DEF Spec

\* A task has an owner exactly when it has a lease time, and an owned one is
\* running: a task that waits for a decision is owned by nobody.
THEOREM ApprovalLeasesAreShaped == Spec => []LeaseShape
BY LeaseInvInit, LeaseInvStep, PTL DEF Spec, LeaseInv

\* A node has one running attempt, and when it carries the token of the lease in
\* force it belongs to the holder: an execution cannot close what a worker opened.
THEOREM ApprovalAttemptsAreFenced == Spec => []AttemptFencing
<1>1. LeaseInv /\ AttemptFencing /\ [Next]_vars => AttemptFencing'
  <2> SUFFICES ASSUME LeaseInv, AttemptFencing, LeaseInv', UsesLedger PROVE AttemptFencing'
    BY LeaseInvStep
  <2> QED BY FencingStep, LedgerFacts DEF UsesLedger, LeaseInv, Inv, RowsTypeOK
<1> QED BY LeaseInvInit, LeaseInvStep, <1>1, PTL DEF Spec

\* A node shown as running has an attempt that an interruption will close, whether
\* a worker or the execution of an approved action opened it.
THEOREM ApprovalNodesHaveAttempts == Spec => []RunningNodeHasAttempt
<1>1. LeaseInv /\ RunningNodeHasAttempt /\ [Next]_vars => RunningNodeHasAttempt'
  BY LeaseInvStep, RunningStep, LedgerFacts DEF UsesLedger
<1> QED BY LeaseInvInit, LeaseInvStep, <1>1, PTL DEF Spec

\* The ledger under them is a lease service: an execution of an approved action
\* and a worker never hold the same task under the same generation.
THEOREM ApprovalsUseALeaseService == Spec => ImplementsLease
<1>1. Init => Holders!Init
  <2> SUFFICES ASSUME Init PROVE Holders!Init
    OBVIOUS
  <2> DEFINE q == [NewRow EXCEPT !.status = "queued", !.bound = TRUE]
  <2>1. q.owner = None /\ q.token = 0 /\ q.lease # "lapsed" /\ task = [t \in Task |-> q]
    BY DEF Init, NewRow
  <2> HIDE DEF q
  <2>2. \A t \in Task : (task[t].lease = "lapsed") = FALSE
    BY <2>1
  <2> QED BY <2>1, <2>2 DEF Holders!Init
<1>2. LeaseInv /\ [Next]_vars => [Holders!Next]_(Holders!vars)
  <2> SUFFICES ASSUME LeaseInv, UsesLedger PROVE Holders!Next
    BY LeaseInvStep
  <2> SUFFICES ASSUME NEW u \in Task PROVE Holders!Step(u)
    BY DEF Holders!Next
  <2>1. RowStep(task[u], task'[u])
    BY LedgerFacts, EveryRowSteps DEF RowSteps, UsesLedger
  <2>2. task[u] \in TaskRow /\ RowShape(task[u])
    BY LedgerFacts DEF StoreTypeOK, LeaseShape
  <2> QED BY <2>1, <2>2, ConstantsAssumption
          DEF RowShape, RowStep, Kept, Granted, Lapses, GivenUp, Revoked, Fenced,
              Holders!Step, Holders!Keep, Holders!Grant, Holders!Lapse,
              Holders!GiveUp, Holders!Revoke, Holders!Fence
<1> QED BY <1>1, <1>2, LeaseInvInit, LeaseInvStep, PTL DEF Spec, ImplementsLease, Holders!Spec

\* Nobody takes a lease in force from its holder: no window, no other thread.
THEOREM ApprovalLeasesAreKept == Spec => LiveLeaseIsKept
<1>1. LeaseInv /\ [Next]_vars
        => [\A t \in Task :
              (task[t].lease = "live" /\ task'[t].owner # task[t].owner)
                => task'[t].released = [owner |-> task[t].owner, token |-> task[t].token,
                                        status |-> task'[t].status]]_storeVars
  <2> SUFFICES ASSUME LeaseInv, UsesLedger, NEW t \in Task,
                      task[t].lease = "live", task'[t].owner # task[t].owner
               PROVE  GivenUp(task[t], task'[t])
    BY LeaseInvStep DEF GivenUp
  <2>1. RowStep(task[t], task'[t])
    BY LedgerFacts, EveryRowSteps DEF RowSteps, UsesLedger
  <2>2. task[t].owner # None
    BY LedgerFacts DEF LeaseShape, RowShape
  <2> QED BY <2>1, <2>2 DEF RowStep, Kept, Granted, Lapses, Revoked, Fenced
<1> QED BY <1>1, LeaseInvInit, LeaseInvStep, PTL DEF Spec, LiveLeaseIsKept

-----------------------------------------------------------------------------
(* The call of an approved action.                                         *)

\* A thread that has written the row of a call and not yet its outcome.
InCall(c, t, n) ==
  \/ /\ c \in Executor /\ executor[c].stage \in {"apply", "record"}
     /\ TaskOf(c) = t /\ NodeOf(c) = n
  \/ /\ c \in Runner /\ runner[c].stage = "prepared"
     /\ runner[c].task = t /\ runner[c].node = n
\* One whose tool may have acted.
Acted(c) ==
  /\ c \in Executor /\ executor[c].stage = "record"
  /\ executor[c].result \in {"succeeded", "unknown"}
\* One that has seen the row, and still holds the lease to call.
AtDispatch(p, t, n) ==
  /\ p \in Executor /\ executor[p].stage = "dispatch" /\ ExecutorHeld(p)
  /\ TaskOf(p) = t /\ NodeOf(p) = n

\* The row says "dispatched" while a call is under way; there is one caller at a
\* time; what has taken place is not admitted again; and a thread that holds the
\* lease has seen the row as it is.
OnceAt(t, n) ==
  /\ \A c \in Owner : InCall(c, t, n) => effect[t][n] = "dispatched"
  /\ \A c, d \in Owner : InCall(c, t, n) /\ InCall(d, t, n) => c = d
  /\ \/ applied[t][n] = 0
     \/ /\ applied[t][n] = 1 /\ effect[t][n] \in {"dispatched", "committed", "unknown"}
        /\ \A c \in Owner : InCall(c, t, n) => Acted(c)
  /\ \A p \in Executor : AtDispatch(p, t, n) => EffectAdmits(effect[t][n])
Once ==
  \A t \in Task, n \in Node :
    /\ n \notin SideEffect => applied[t][n] = 0
    /\ n \in SideEffect => <<t, n>> \in stray \/ OnceAt(t, n)

\* An execution has a token of its task.
TokensOK == \A p \in Executor : executor[p].stage \in Claimed => executor[p].token <= task[TaskOf(p)].token
OnceInv == LeaseInv /\ TokensOK /\ Once

\* A lease is not given back: who holds it after a step held it before, unless
\* its token is new.
LEMMA HeldBefore ==
  ASSUME LeaseInv, UsesLedger, NEW t \in Task, NEW o \in Owner, NEW k \in Nat,
         k <= task[t].token, Held(t, o, k)'
  PROVE  Held(t, o, k)
<1>1. RowStep(task[t], task'[t])
  BY LedgerFacts, EveryRowSteps DEF RowSteps, UsesLedger
<1>2. task[t] \in TaskRow /\ task[t].token \in Nat
  BY LedgerFacts DEF StoreTypeOK, TaskRow
<1> QED BY <1>1, <1>2, ConstantsAssumption
        DEF Held, RowStep, Kept, Granted, Lapses, GivenUp, Revoked, Fenced

\* Tokens only grow.
LEMMA TokensGrow ==
  ASSUME LeaseInv, UsesLedger, NEW t \in Task
  PROVE  task[t].token \in Nat /\ task'[t].token \in Nat /\ task[t].token <= task'[t].token
<1>1. RowStep(task[t], task'[t])
  BY LedgerFacts, EveryRowSteps DEF RowSteps, UsesLedger
<1>2. task[t].token \in Nat
  BY LedgerFacts DEF StoreTypeOK, TaskRow
<1>3. task'[t].token \in Nat
  <2>1. StoreTypeOK'
    BY LedgerFacts, TypeStep DEF UsesLedger
  <2> QED BY <2>1 DEF StoreTypeOK, TaskRow
<1> QED BY <1>1, <1>2, <1>3 DEF RowStep, Kept, Granted, Lapses, GivenUp, Revoked, Fenced

\* What an execution is about does not change while it goes on,
LEMMA SameCall ==
  ASSUME LeaseInv, NEW p \in Executor, executor[p].stage \notin {"idle", "dead"},
         executor'[p].action = executor[p].action, Stays(approval')
  PROVE  TaskOf(p)' = TaskOf(p) /\ NodeOf(p)' = NodeOf(p) /\ TaskOf(p) \in Task /\ NodeOf(p) \in Node
<1>1. executor[p].action \in Action /\ Known(executor[p].action) /\ TaskOf(p) \in Task /\ NodeOf(p) \in Node
  BY ExecutorFacts DEF LeaseInv
<1> QED BY <1>1 DEF Stays, TaskOf, NodeOf

\* and its lease, if it has one, it had before.
LEMMA SameDispatch ==
  ASSUME LeaseInv, TokensOK, UsesLedger, Stays(approval'), NEW p \in Executor,
         NEW t \in Task, NEW n \in Node, AtDispatch(p, t, n)',
         executor[p].stage \in Claimed, executor'[p].action = executor[p].action,
         executor'[p].token = executor[p].token
  PROVE  TaskOf(p) = t /\ NodeOf(p) = n /\ ExecutorHeld(p)
<1>1. executor[p].stage \notin {"idle", "dead"}
  BY DEF Claimed
<1>2. TaskOf(p) = t /\ NodeOf(p) = n
  BY <1>1, SameCall DEF AtDispatch
<1>3. executor[p].token \in Nat /\ executor[p].token <= task[t].token /\ p \in Owner
  BY <1>2, ExecutorFacts DEF TokensOK, LeaseInv
<1>4. Held(t, p, executor[p].token)'
  BY DEF AtDispatch, ExecutorHeld
<1> QED BY <1>2, <1>3, <1>4, HeldBefore DEF ExecutorHeld, Held

\* Nobody enters a call of n, and whoever acted has still acted.
CallsStay(t, n) == \A c \in Owner : InCall(c, t, n)' => InCall(c, t, n) /\ (Acted(c) => Acted(c)')
\* Nobody begins to see an old row.
SeesStay(t, n) ==
  \A p \in Executor : AtDispatch(p, t, n)' => AtDispatch(p, t, n) \/ EffectAdmits(effect'[t][n])

\* A step that leaves the row and the world alone.
LEMMA OnceFrame ==
  ASSUME NEW t \in Task, NEW n \in Node, OnceAt(t, n), CallsStay(t, n), SeesStay(t, n),
         effect'[t][n] = effect[t][n], applied'[t][n] = applied[t][n]
  PROVE  OnceAt(t, n)'
<1>1. \A c \in Owner : InCall(c, t, n)' => effect'[t][n] = "dispatched"
  BY DEF OnceAt, CallsStay
<1>2. \A c, d \in Owner : InCall(c, t, n)' /\ InCall(d, t, n)' => c = d
  BY DEF OnceAt, CallsStay
<1>3. \/ applied'[t][n] = 0
      \/ /\ applied'[t][n] = 1 /\ effect'[t][n] \in {"dispatched", "committed", "unknown"}
         /\ \A c \in Owner : InCall(c, t, n)' => Acted(c)'
  BY DEF OnceAt, CallsStay
<1>4. \A p \in Executor : AtDispatch(p, t, n)' => EffectAdmits(effect'[t][n])
  BY DEF OnceAt, SeesStay
<1> QED BY <1>1, <1>2, <1>3, <1>4 DEF OnceAt

\* The threads that take no step,
LEMMA OthersInCall ==
  ASSUME LeaseInv, Stays(approval'), NEW c \in Owner, NEW t, NEW n,
         c \in Executor => executor'[c] = executor[c],
         c \in Runner => runner'[c] = runner[c]
  PROVE  (InCall(c, t, n)' <=> InCall(c, t, n)) /\ (Acted(c)' <=> Acted(c))
<1>1. CASE c \in Executor
  <2>1. c \notin Runner
    BY <1>1, ApprovalAssumption
  <2>2. executor[c].stage \in {"apply", "record"} =>
          TaskOf(c)' = TaskOf(c) /\ NodeOf(c)' = NodeOf(c)
    BY <1>1, SameCall
  <2> QED BY <1>1, <2>1, <2>2 DEF InCall, Acted
<1>2. CASE c \in Runner
  <2>1. c \notin Executor
    BY <1>2, ApprovalAssumption
  <2> QED BY <1>2, <2>1 DEF InCall, Acted
<1> QED BY <1>1, <1>2, ApprovalAssumption

\* and a lease that one of them has, it had before:
LEMMA OthersDispatch ==
  ASSUME LeaseInv, TokensOK, UsesLedger, Stays(approval'), NEW p \in Executor,
         NEW t \in Task, NEW n \in Node, executor'[p] = executor[p], AtDispatch(p, t, n)'
  PROVE  AtDispatch(p, t, n)
<1>1. executor[p].stage = "dispatch" /\ executor[p].stage \in Claimed
  BY DEF AtDispatch, Claimed, ExecutorStage
<1> QED BY <1>1, SameDispatch DEF AtDispatch

\* hence a step of a worker changes its own call only,
LEMMA RunnerCalls ==
  ASSUME LeaseInv, TokensOK, NEW r \in Runner, RunnerRest, RunnerSound(r)
  PROVE  /\ \A t \in Task, n \in Node :
              /\ \A c \in Owner \ {r} : (InCall(c, t, n)' <=> InCall(c, t, n)) /\ (Acted(c)' <=> Acted(c))
              /\ \A p \in Executor : AtDispatch(p, t, n)' => AtDispatch(p, t, n)
         /\ TokensOK'
<1> USE DEF RunnerRest, RunnerSound
<1>1. ASSUME NEW t \in Task, NEW n \in Node, NEW c \in Owner \ {r}
      PROVE  (InCall(c, t, n)' <=> InCall(c, t, n)) /\ (Acted(c)' <=> Acted(c))
  BY OthersInCall
<1>2. ASSUME NEW t \in Task, NEW n \in Node, NEW p \in Executor, AtDispatch(p, t, n)'
      PROVE  AtDispatch(p, t, n)
  BY <1>2, OthersDispatch
<1>3. ASSUME NEW p \in Executor, executor'[p].stage \in Claimed
      PROVE  executor'[p].token <= task'[TaskOf(p)'].token
  <2>1. executor[p].stage \in Claimed /\ executor[p].stage \notin {"idle", "dead"}
    BY <1>3 DEF Claimed
  <2>2. TaskOf(p)' = TaskOf(p) /\ TaskOf(p) \in Task
    BY <2>1, SameCall
  <2>3. executor[p].token <= task[TaskOf(p)].token /\ executor[p].token \in Nat
    BY <2>1, ExecutorFacts DEF TokensOK, LeaseInv
  <2> QED BY <2>2, <2>3, TokensGrow
<1> QED BY <1>1, <1>2, <1>3 DEF TokensOK

\* and so does one of an execution,
LEMMA ExecutorCalls ==
  ASSUME LeaseInv, TokensOK, NEW p \in Executor, runner' = runner, ExecutorSound(p)
  PROVE  /\ \A t \in Task, n \in Node :
              /\ \A c \in Owner \ {p} : (InCall(c, t, n)' <=> InCall(c, t, n)) /\ (Acted(c)' <=> Acted(c))
              /\ \A q \in Executor \ {p} : AtDispatch(q, t, n)' => AtDispatch(q, t, n)
         /\ TokensOK'
<1> USE DEF ExecutorSound
<1>1. ASSUME NEW t \in Task, NEW n \in Node, NEW c \in Owner \ {p}
      PROVE  (InCall(c, t, n)' <=> InCall(c, t, n)) /\ (Acted(c)' <=> Acted(c))
  BY OthersInCall
<1>2. ASSUME NEW t \in Task, NEW n \in Node, NEW q \in Executor \ {p}, AtDispatch(q, t, n)'
      PROVE  AtDispatch(q, t, n)
  BY <1>2, OthersDispatch
<1>3. ASSUME NEW q \in Executor, executor'[q].stage \in Claimed
      PROVE  executor'[q].token <= task'[TaskOf(q)'].token
  <2>1. executor[q].stage \notin {"idle", "dead"} /\ executor'[q].action = executor[q].action
    BY <1>3 DEF Claimed
  <2>2. TaskOf(q)' = TaskOf(q) /\ TaskOf(q) \in Task
    BY <2>1, SameCall
  <2>3. CASE q = p /\ Fresh(p)
    BY <2>2, <2>3, TokensGrow DEF Fresh
  <2>4. CASE executor[q].stage \in Claimed /\ executor'[q].token = executor[q].token
    <3>1. executor[q].token <= task[TaskOf(q)].token /\ executor[q].token \in Nat
      BY <2>4, ExecutorFacts DEF TokensOK, LeaseInv
    <3> QED BY <2>2, <2>4, <3>1, TokensGrow
  <2> QED BY <1>3, <2>3, <2>4 DEF Went
<1> QED BY <1>1, <1>2, <1>3 DEF TokensOK

\* and one of anybody else none at all.
LEMMA ElseCalls ==
  ASSUME LeaseInv, TokensOK, ElseQuiet
  PROVE  /\ \A t \in Task, n \in Node : CallsStay(t, n) /\ SeesStay(t, n)
         /\ TokensOK'
<1> USE DEF ElseQuiet
<1>1. ASSUME NEW t \in Task, NEW n \in Node PROVE CallsStay(t, n)
  BY OthersInCall DEF CallsStay
<1>2. ASSUME NEW t \in Task, NEW n \in Node PROVE SeesStay(t, n)
  BY OthersDispatch DEF SeesStay
<1>3. ASSUME NEW p \in Executor, executor[p].stage \in Claimed
      PROVE  executor[p].token <= task'[TaskOf(p)'].token
  <2>1. executor[p].stage \notin {"idle", "dead"}
    BY <1>3 DEF Claimed
  <2>2. TaskOf(p)' = TaskOf(p) /\ TaskOf(p) \in Task
    BY <2>1, SameCall
  <2>3. executor[p].token <= task[TaskOf(p)].token /\ executor[p].token \in Nat
    BY <1>3, ExecutorFacts DEF TokensOK, LeaseInv
  <2> QED BY <2>2, <2>3, TokensGrow
<1> QED BY <1>1, <1>2, <1>3 DEF TokensOK

\* A write of the journal leaves the other rows alone.
LEMMA RowWritten ==
  ASSUME LeaseInv, NEW u \in Task, NEW m \in Operation, NEW s,
         effect' = [effect EXCEPT ![u][m] = s]
  PROVE  /\ effect'[u][m] = s
         /\ \A t \in Task, n \in Operation : <<t, n>> # <<u, m>> => effect'[t][n] = effect[t][n]
BY DEF LeaseInv, Inv, RowsTypeOK, StoreTypeOK

\* A worker that does not write the journal.
LEMMA RunnerQuietOnce ==
  ASSUME OnceInv, NEW r \in Runner, RunnerRest, RunnerQuiet(r),
         NEW t \in Task, NEW n \in SideEffect, OnceAt(t, n)
  PROVE  OnceAt(t, n)'
<1>1. n \in Node /\ r \notin Executor
  BY ConstantsAssumption, ApprovalAssumption
<1>2. InCall(r, t, n)' => InCall(r, t, n)
  BY <1>1 DEF InCall, RunnerQuiet
<1>3. CallsStay(t, n) /\ SeesStay(t, n)
  BY <1>1, <1>2, RunnerCalls DEF CallsStay, SeesStay, OnceInv, RunnerQuiet, Acted
<1> QED BY <1>1, <1>3, OnceFrame DEF RunnerQuiet, RunnerRest

\* A worker that prepares a call: nobody else is in one, and nobody who has the
\* lease sees an old row, because the worker has it.
LEMMA RunnerBeginOnce ==
  ASSUME OnceInv, NEW r \in Runner, RunnerRest, RunnerSound(r),
         EffectAdmits(effect[runner[r].task][runner[r].node]),
         effect' = [effect EXCEPT ![runner[r].task][runner[r].node] = "dispatched"],
         BeginsCall(runner[r].task, runner[r].node, RunnerHeld(r)),
         RunnerStays(r, "prepared"), runner[r].task \in Task, runner[r].node \in SideEffect,
         NEW t \in Task, NEW n \in SideEffect, OnceAt(t, n), <<t, n>> \notin stray'
  PROVE  OnceAt(t, n)'
<1> DEFINE u == runner[r].task
           m == runner[r].node
<1>1. n \in Node /\ r \notin Executor /\ m \in Operation /\ n \in Operation
  BY ConstantsAssumption, ApprovalAssumption
<1>2. /\ \A c \in Owner \ {r} : (InCall(c, t, n)' <=> InCall(c, t, n)) /\ (Acted(c)' <=> Acted(c))
      /\ \A p \in Executor : AtDispatch(p, t, n)' => AtDispatch(p, t, n)
  BY <1>1, RunnerCalls DEF OnceInv
<1>3. CASE <<t, n>> # <<u, m>>
  <2>1. ~InCall(r, t, n)'
    BY <1>1, <1>3 DEF InCall, RunnerStays
  <2>2. CallsStay(t, n) /\ SeesStay(t, n)
    BY <1>2, <2>1 DEF CallsStay, SeesStay
  <2>3. effect'[t][n] = effect[t][n]
    BY <1>1, <1>3, RowWritten DEF OnceInv
  <2> QED BY <1>1, <2>2, <2>3, OnceFrame DEF RunnerRest
<1>4. CASE t = u /\ n = m
  <2>1. RunnerHeld(r)
    BY <1>4 DEF BeginsCall
  <2>2. effect'[t][n] = "dispatched" /\ applied'[t][n] = applied[t][n]
    <3>1. LeaseInv /\ m \in Operation /\ u \in Task
      BY <1>1 DEF OnceInv
    <3>2. effect'[u][m] = "dispatched"
      BY <3>1 DEF LeaseInv, Inv, RowsTypeOK, StoreTypeOK
    <3> QED BY <1>4, <3>2 DEF RunnerRest
  <2>3. applied[t][n] = 0 /\ \A c \in Owner : ~InCall(c, t, n)
    BY <1>4 DEF OnceAt, EffectAdmits, EffectRefused
  <2>4. \A p \in Executor : ~AtDispatch(p, t, n)
    BY <1>1, <1>4, <2>1 DEF AtDispatch, ExecutorHeld, RunnerHeld, Held
  <2> QED BY <1>2, <2>2, <2>3, <2>4 DEF OnceAt
<1> QED BY <1>3, <1>4

\* Then the row is given back.
LEMMA RunnerPreparedOnce ==
  ASSUME OnceInv, NEW r \in Runner, RunnerRest, RunnerSound(r),
         effect' = [effect EXCEPT ![runner[r].task][runner[r].node] = "prepared"],
         RunnerStays(r, "report"), runner[r].stage = "prepared",
         runner[r].task \in Task, runner[r].node \in SideEffect,
         NEW t \in Task, NEW n \in SideEffect, OnceAt(t, n)
  PROVE  OnceAt(t, n)'
<1> DEFINE u == runner[r].task
           m == runner[r].node
<1>1. /\ n \in Node /\ r \notin Executor /\ m \in Operation /\ n \in Operation /\ r \in Owner
      /\ ~InCall(r, t, n)'
  BY ConstantsAssumption, ApprovalAssumption DEF InCall, RunnerStays
<1>2. /\ \A c \in Owner \ {r} : (InCall(c, t, n)' <=> InCall(c, t, n)) /\ (Acted(c)' <=> Acted(c))
      /\ \A p \in Executor : AtDispatch(p, t, n)' => AtDispatch(p, t, n)
  BY <1>1, RunnerCalls DEF OnceInv
<1>3. CASE <<t, n>> # <<u, m>>
  <2>1. CallsStay(t, n) /\ SeesStay(t, n)
    BY <1>1, <1>2 DEF CallsStay, SeesStay
  <2>2. effect'[t][n] = effect[t][n]
    BY <1>1, <1>3, RowWritten DEF OnceInv
  <2> QED BY <1>1, <2>1, <2>2, OnceFrame DEF RunnerRest
<1>4. CASE t = u /\ n = m
  <2>1. InCall(r, t, n) /\ ~Acted(r)
    BY <1>1, <1>4 DEF InCall, Acted
  <2>2. applied[t][n] = 0 /\ \A c \in Owner \ {r} : ~InCall(c, t, n)
    BY <1>1, <2>1 DEF OnceAt
  <2>3. effect'[t][n] = "prepared" /\ applied'[t][n] = applied[t][n]
    <3>1. LeaseInv /\ m \in Operation /\ u \in Task
      BY <1>1 DEF OnceInv
    <3>2. effect'[u][m] = "prepared"
      BY <3>1 DEF LeaseInv, Inv, RowsTypeOK, StoreTypeOK
    <3> QED BY <1>4, <3>2 DEF RunnerRest
  <2>4. EffectAdmits("prepared")
    BY DEF EffectAdmits, EffectRefused
  <2> QED BY <1>1, <1>2, <2>2, <2>3, <2>4 DEF OnceAt
<1> QED BY <1>3, <1>4

\* An execution that neither writes the journal nor calls the tool.
LEMMA ExecutorQuietOnce ==
  ASSUME OnceInv, NEW p \in Executor, runner' = runner, ExecutorQuiet(p),
         NEW t \in Task, NEW n \in SideEffect, OnceAt(t, n)
  PROVE  OnceAt(t, n)'
<1>1. n \in Node /\ p \notin Runner
  BY ConstantsAssumption, ApprovalAssumption
<1>2. /\ \A c \in Owner \ {p} : (InCall(c, t, n)' <=> InCall(c, t, n)) /\ (Acted(c)' <=> Acted(c))
      /\ \A q \in Executor \ {p} : AtDispatch(q, t, n)' => AtDispatch(q, t, n)
  BY <1>1, ExecutorCalls DEF OnceInv, ExecutorQuiet
<1>3. ASSUME executor'[p].stage \in InEffect
      PROVE  /\ executor'[p].stage = executor[p].stage /\ executor'[p].result = executor[p].result
             /\ executor'[p].action = executor[p].action /\ executor'[p].token = executor[p].token
             /\ executor[p].stage \in Claimed
             /\ TaskOf(p)' = TaskOf(p) /\ NodeOf(p)' = NodeOf(p)
  <2>1. /\ executor'[p].stage = executor[p].stage /\ executor'[p].result = executor[p].result
        /\ executor'[p].stage \in Claimed /\ executor'[p].stage # "enter"
    BY <1>3 DEF ExecutorQuiet, Claimed, ExecutorStage, InEffect
  <2>2. executor'[p].action = executor[p].action /\ executor'[p].token = executor[p].token
    BY <2>1 DEF ExecutorQuiet, ExecutorSound, Fresh, Went
  <2>3. executor[p].stage \notin {"idle", "dead"}
    BY <2>1 DEF Claimed
  <2>4. TaskOf(p)' = TaskOf(p) /\ NodeOf(p)' = NodeOf(p)
    BY <2>2, <2>3, SameCall DEF OnceInv, ExecutorQuiet, ExecutorSound
  <2> QED BY <2>1, <2>2, <2>4
<1>4. InCall(p, t, n)' => InCall(p, t, n) /\ (Acted(p) => Acted(p)')
  BY <1>1, <1>3 DEF InCall, Acted, InEffect
<1>5. AtDispatch(p, t, n)' => AtDispatch(p, t, n)
  <2> SUFFICES ASSUME AtDispatch(p, t, n)' PROVE AtDispatch(p, t, n)
    OBVIOUS
  <2>1. executor'[p].stage \in InEffect
    BY DEF AtDispatch, InEffect
  <2> QED BY <1>1, <1>3, <2>1, SameDispatch DEF OnceInv, ExecutorQuiet, ExecutorSound, AtDispatch
<1>6. CallsStay(t, n) /\ SeesStay(t, n)
  BY <1>2, <1>4, <1>5 DEF CallsStay, SeesStay
<1> QED BY <1>1, <1>6, OnceFrame DEF ExecutorQuiet

\* The row of an execution that goes on, read again.
LEMMA CallStays ==
  ASSUME OnceInv, NEW p \in Executor, NEW s, ExecutorStays(p, s), ExecutorSound(p),
         executor[p].stage \in Claimed
  PROVE  /\ TaskOf(p)' = TaskOf(p) /\ NodeOf(p)' = NodeOf(p)
         /\ TaskOf(p) \in Task /\ NodeOf(p) \in SideEffect /\ NodeOf(p) \in Operation /\ NodeOf(p) \in Node
         /\ p \notin Runner /\ p \in Owner
<1>1. executor[p].stage \notin {"idle", "dead"}
  BY DEF Claimed
<1>2. TaskOf(p)' = TaskOf(p) /\ NodeOf(p)' = NodeOf(p)
  BY <1>1, SameCall DEF OnceInv, ExecutorStays, ExecutorSound
<1> QED BY <1>2, ExecutorShows, ApprovalAssumption DEF OnceInv, LeaseInv

\* begin_effect's SELECT: the row admits the call.
LEMMA SelectOnce ==
  ASSUME OnceInv, NEW p \in Executor, runner' = runner, ExecutorSound(p),
         effect' = effect, applied' = applied, executor[p].stage \in Claimed,
         EffectAdmits(effect[TaskOf(p)][NodeOf(p)]), ExecutorStays(p, "dispatch"),
         NEW t \in Task, NEW n \in SideEffect, OnceAt(t, n)
  PROVE  OnceAt(t, n)'
<1>1. n \in Node /\ p \notin Runner /\ TaskOf(p)' = TaskOf(p) /\ NodeOf(p)' = NodeOf(p)
  BY ConstantsAssumption, CallStays
<1>2. /\ \A c \in Owner \ {p} : (InCall(c, t, n)' <=> InCall(c, t, n)) /\ (Acted(c)' <=> Acted(c))
      /\ \A q \in Executor \ {p} : AtDispatch(q, t, n)' => AtDispatch(q, t, n)
  BY <1>1, ExecutorCalls DEF OnceInv
<1>3. ~InCall(p, t, n)'
  BY <1>1 DEF InCall, ExecutorStays
<1>4. AtDispatch(p, t, n)' => EffectAdmits(effect'[t][n])
  BY <1>1 DEF AtDispatch
<1>5. CallsStay(t, n) /\ SeesStay(t, n)
  BY <1>2, <1>3, <1>4 DEF CallsStay, SeesStay
<1> QED BY <1>1, <1>5, OnceFrame

\* Its write under the lease: nobody else is in the call, and nothing has taken
\* place.
LEMMA DispatchOnce ==
  ASSUME OnceInv, NEW p \in Executor, runner' = runner, ExecutorSound(p), applied' = applied,
         effect' = [effect EXCEPT ![TaskOf(p)][NodeOf(p)] = "dispatched"],
         BeginsCall(TaskOf(p), NodeOf(p), ExecutorHeld(p)),
         executor[p].stage = "dispatch", ExecutorStays(p, "apply"),
         NEW t \in Task, NEW n \in SideEffect, OnceAt(t, n), <<t, n>> \notin stray'
  PROVE  OnceAt(t, n)'
<1> DEFINE u == TaskOf(p)
           m == NodeOf(p)
<1>0. executor[p].stage \in Claimed
  BY DEF Claimed, ExecutorStage
<1>1. /\ n \in Node /\ n \in Operation /\ p \notin Runner /\ p \in Owner /\ u \in Task /\ m \in Operation
      /\ TaskOf(p)' = u /\ NodeOf(p)' = m
  BY <1>0, ConstantsAssumption, ApprovalAssumption, CallStays
<1>2. /\ \A c \in Owner \ {p} : (InCall(c, t, n)' <=> InCall(c, t, n)) /\ (Acted(c)' <=> Acted(c))
      /\ \A q \in Executor \ {p} : AtDispatch(q, t, n)' => AtDispatch(q, t, n)
      /\ ~AtDispatch(p, t, n)'
  BY <1>1, ExecutorCalls DEF OnceInv, AtDispatch, ExecutorStays
<1>3. CASE <<t, n>> # <<u, m>>
  <2>1. ~InCall(p, t, n)'
    BY <1>1, <1>3 DEF InCall
  <2>2. CallsStay(t, n) /\ SeesStay(t, n)
    BY <1>2, <2>1 DEF CallsStay, SeesStay
  <2>3. effect'[t][n] = effect[t][n]
    BY <1>1, <1>3, RowWritten DEF OnceInv
  <2> QED BY <1>1, <2>2, <2>3, OnceFrame
<1>4. CASE t = u /\ n = m
  <2>1. AtDispatch(p, t, n)
    BY <1>4 DEF BeginsCall, AtDispatch
  <2>2. EffectAdmits(effect[t][n])
    BY <2>1 DEF OnceAt
  <2>3. applied[t][n] = 0 /\ \A c \in Owner : ~InCall(c, t, n)
    BY <2>2 DEF OnceAt, EffectAdmits, EffectRefused
  <2>4. \A q \in Executor \ {p} : ~AtDispatch(q, t, n)
    BY <2>1 DEF AtDispatch, ExecutorHeld, Held
  <2>5. effect'[t][n] = "dispatched" /\ applied'[t][n] = 0
    <3>1. LeaseInv
      BY DEF OnceInv
    <3>2. effect'[u][m] = "dispatched"
      BY <1>1, <3>1 DEF LeaseInv, Inv, RowsTypeOK, StoreTypeOK
    <3> QED BY <1>4, <2>3, <3>2
  <2> QED BY <1>2, <2>3, <2>4, <2>5 DEF OnceAt
<1> QED BY <1>3, <1>4

\* The tool acts for the only caller, and it has not acted before.
LEMMA ApplyOnce ==
  ASSUME OnceInv, NEW p \in Executor, runner' = runner, ExecutorSound(p), effect' = effect,
         executor[p].stage = "apply", ExecutorStays(p, "record"),
         \/ applied' = applied
         \/ /\ applied' = [applied EXCEPT ![TaskOf(p)][NodeOf(p)] = @ + 1]
            /\ executor'[p].result \in {"succeeded", "unknown"},
         NEW t \in Task, NEW n \in SideEffect, OnceAt(t, n)
  PROVE  OnceAt(t, n)'
<1> DEFINE u == TaskOf(p)
           m == NodeOf(p)
<1>0. executor[p].stage \in Claimed
  BY DEF Claimed, ExecutorStage
<1>1. /\ n \in Node /\ p \notin Runner /\ p \in Owner /\ u \in Task /\ m \in Node
      /\ TaskOf(p)' = u /\ NodeOf(p)' = m
  BY <1>0, ConstantsAssumption, CallStays
<1>2. /\ \A c \in Owner \ {p} : (InCall(c, t, n)' <=> InCall(c, t, n)) /\ (Acted(c)' <=> Acted(c))
      /\ \A q \in Executor \ {p} : AtDispatch(q, t, n)' => AtDispatch(q, t, n)
      /\ ~AtDispatch(p, t, n)'
  BY <1>1, ExecutorCalls DEF OnceInv, AtDispatch, ExecutorStays
<1>3. InCall(p, t, n)' <=> InCall(p, t, n)
  BY <1>1 DEF InCall, ExecutorStays
<1>4. ~Acted(p)
  BY DEF Acted
<1>5. CASE applied'[t][n] = applied[t][n]
  <2>1. CallsStay(t, n) /\ SeesStay(t, n)
    BY <1>2, <1>3, <1>4 DEF CallsStay, SeesStay
  <2> QED BY <1>1, <1>5, <2>1, OnceFrame
<1>6. CASE t = u /\ n = m /\ applied'[t][n] = applied[t][n] + 1 /\ Acted(p)'
  <2>1. InCall(p, t, n)
    BY <1>1, <1>6 DEF InCall
  <2>2. /\ applied[t][n] = 0 /\ effect[t][n] = "dispatched"
        /\ \A c \in Owner \ {p} : ~InCall(c, t, n)
    BY <1>1, <1>4, <2>1 DEF OnceAt
  <2>3. \A q \in Executor : ~AtDispatch(q, t, n)
    BY <2>2 DEF OnceAt, EffectAdmits, EffectRefused
  <2> QED BY <1>2, <1>6, <2>2, <2>3 DEF OnceAt
<1>7. \/ applied'[t][n] = applied[t][n]
      \/ t = u /\ n = m /\ applied'[t][n] = applied[t][n] + 1 /\ Acted(p)'
  <2>1. applied \in [Task -> [Node -> Nat]]
    BY DEF OnceInv, LeaseInv, Inv, RowsTypeOK
  <2>2. CASE applied' = [applied EXCEPT ![u][m] = @ + 1] /\ executor'[p].result \in {"succeeded", "unknown"}
    BY <1>1, <2>1, <2>2 DEF Acted, ExecutorStays
  <2> QED BY <2>2
<1> QED BY <1>5, <1>6, <1>7

\* The outcome is written by the only caller.
LEMMA RecordOnce ==
  ASSUME OnceInv, NEW p \in Executor, runner' = runner, ExecutorSound(p), applied' = applied,
         executor[p].stage = "record", ExecutorStays(p, "attempt"),
         NEW s \in {"committed", "unknown", "failed"},
         effect' = [effect EXCEPT ![TaskOf(p)][NodeOf(p)] = s],
         executor[p].result \in {"succeeded", "unknown"} => s \in {"committed", "unknown"},
         NEW t \in Task, NEW n \in SideEffect, OnceAt(t, n)
  PROVE  OnceAt(t, n)'
<1> DEFINE u == TaskOf(p)
           m == NodeOf(p)
<1>0. executor[p].stage \in Claimed
  BY DEF Claimed, ExecutorStage
<1>1. /\ n \in Node /\ n \in Operation /\ p \notin Runner /\ p \in Owner /\ u \in Task /\ m \in Operation
      /\ ~InCall(p, t, n)'
  BY <1>0, ConstantsAssumption, ApprovalAssumption, CallStays DEF InCall, ExecutorStays
<1>2. /\ \A c \in Owner \ {p} : (InCall(c, t, n)' <=> InCall(c, t, n)) /\ (Acted(c)' <=> Acted(c))
      /\ \A q \in Executor \ {p} : AtDispatch(q, t, n)' => AtDispatch(q, t, n)
      /\ ~AtDispatch(p, t, n)'
  BY <1>1, ExecutorCalls DEF OnceInv, AtDispatch, ExecutorStays
<1>3. CASE <<t, n>> # <<u, m>>
  <2>1. CallsStay(t, n) /\ SeesStay(t, n)
    BY <1>1, <1>2 DEF CallsStay, SeesStay
  <2>2. effect'[t][n] = effect[t][n]
    BY <1>1, <1>3, RowWritten DEF OnceInv
  <2> QED BY <1>1, <2>1, <2>2, OnceFrame
<1>4. CASE t = u /\ n = m
  <2>1. InCall(p, t, n)
    BY <1>4 DEF InCall
  <2>2. effect[t][n] = "dispatched" /\ \A c \in Owner \ {p} : ~InCall(c, t, n)
    BY <1>1, <2>1 DEF OnceAt
  <2>3. \A q \in Executor : ~AtDispatch(q, t, n)
    BY <2>2 DEF OnceAt, EffectAdmits, EffectRefused
  <2>4. applied[t][n] = 0 \/ (applied[t][n] = 1 /\ s \in {"committed", "unknown"})
    BY <1>1, <2>1 DEF OnceAt, Acted
  <2>5. effect'[t][n] = s
    <3>1. LeaseInv
      BY DEF OnceInv
    <3>2. effect'[u][m] = s
      BY <1>1, <3>1 DEF LeaseInv, Inv, RowsTypeOK, StoreTypeOK
    <3> QED BY <1>4, <3>2
  <2> QED BY <1>1, <1>2, <2>2, <2>3, <2>4, <2>5 DEF OnceAt
<1> QED BY <1>3, <1>4

\* A step without a lease is remembered.
LEMMA StrayGrows == ASSUME [Next]_vars PROVE stray \subseteq stray'
<1>1. CASE UNCHANGED vars
  BY <1>1 DEF vars, approvalVars
<1>2. CASE Next
  BY <1>2, StraySteps DEF RunnerBegin, DispatchCall, BeginsCall
<1> QED BY <1>1, <1>2

\* At the start nobody is in a call.
LEMMA OnceInit == Init => TokensOK /\ Once
<1> SUFFICES ASSUME Init PROVE TokensOK /\ Once
  OBVIOUS
<1>1. TokensOK
  BY DEF Init, TokensOK, IdleExecutor, Claimed
<1>2. ASSUME NEW t \in Task, NEW n \in Node
      PROVE  /\ applied[t][n] = 0
             /\ \A c : c \in Owner => ~InCall(c, t, n)
             /\ \A p \in Executor : ~AtDispatch(p, t, n)
  BY <1>2 DEF Init, InCall, AtDispatch, IdleExecutor, IdleRunner
<1>3. Once
  BY <1>2 DEF Once, OnceAt
<1> QED BY <1>1, <1>3

\* A step of a worker.
LEMMA RunnerOnce ==
  ASSUME OnceInv, NEW r \in Runner, RunnerMain(r) \/ RunnerBeat(r) \/ RunnerCrash(r),
         NEW t \in Task, NEW n \in SideEffect, OnceAt(t, n), <<t, n>> \notin stray'
  PROVE  OnceAt(t, n)'
<1>1. Inv /\ Bounds
  BY DEF OnceInv, LeaseInv
<1>2. RunnerRest /\ RunnerSound(r)
  BY <1>1, RunnerKinds
<1>3. CASE RunnerQuiet(r)
  BY <1>2, <1>3, RunnerQuietOnce
<1>4. CASE RunnerBegin(r) /\ ~RunnerQuiet(r)
  <2>1. /\ EffectAdmits(effect[runner[r].task][runner[r].node])
        /\ effect' = [effect EXCEPT ![runner[r].task][runner[r].node] = "dispatched"]
        /\ BeginsCall(runner[r].task, runner[r].node, RunnerHeld(r))
        /\ RunnerStays(r, "prepared")
    BY <1>1, <1>4, RunnerBeginSound
  <2>2. runner[r].task \in Task /\ runner[r].node \in SideEffect
    BY <1>1, <1>4, RunnerShows DEF RunnerBegin, RunnerAt, Bounds, RunnerBounds
  <2> QED BY <1>2, <2>1, <2>2, RunnerBeginOnce
<1>5. CASE RunnerPrepared(r)
  <2>1. /\ RunnerStays(r, "report") /\ runner[r].stage = "prepared"
        /\ effect' = [effect EXCEPT ![runner[r].task][runner[r].node] = "prepared"]
    BY <1>1, <1>5, RunnerPreparedSound
  <2>2. runner[r].task \in Task /\ runner[r].node \in SideEffect
    BY <1>1, <2>1, RunnerShows DEF Bounds, RunnerBounds
  <2> QED BY <1>2, <2>1, <2>2, RunnerPreparedOnce
<1> QED BY <1>1, <1>3, <1>4, <1>5, RunnerKinds

\* A step of an execution.
LEMMA ExecutorOnce ==
  ASSUME OnceInv, NEW p \in Executor,
         Preview(p) \/ ExecutorMain(p) \/ ApprovalBeat(p) \/ ExecutorCrash(p),
         NEW t \in Task, NEW n \in SideEffect, OnceAt(t, n), <<t, n>> \notin stray'
  PROVE  OnceAt(t, n)'
<1>1. Inv /\ Bounds
  BY DEF OnceInv, LeaseInv
<1>2. runner' = runner /\ ExecutorSound(p)
  BY <1>1, ExecutorKinds
<1>3. CASE ExecutorQuiet(p)
  BY <1>2, <1>3, ExecutorQuietOnce
<1>4. CASE SelectCall(p) /\ ~ExecutorQuiet(p)
  <2>1. /\ effect' = effect /\ applied' = applied
        /\ EffectAdmits(effect[TaskOf(p)][NodeOf(p)]) /\ ExecutorStays(p, "dispatch")
    BY <1>1, <1>4, SelectCallSound
  <2>2. executor[p].stage \in Claimed
    BY <1>4 DEF SelectCall, ExecutorAt, Claimed, ExecutorStage
  <2> QED BY <1>2, <2>1, <2>2, SelectOnce
<1>5. CASE DispatchCall(p) /\ ~ExecutorQuiet(p)
  <2>1. /\ applied' = applied
        /\ effect' = [effect EXCEPT ![TaskOf(p)][NodeOf(p)] = "dispatched"]
        /\ BeginsCall(TaskOf(p), NodeOf(p), ExecutorHeld(p))
        /\ executor[p].stage = "dispatch" /\ ExecutorStays(p, "apply")
    BY <1>1, <1>5, DispatchCallSound
  <2> QED BY <1>2, <2>1, DispatchOnce
<1>6. CASE ApplyCall(p)
  <2>1. /\ effect' = effect /\ executor[p].stage = "apply" /\ ExecutorStays(p, "record")
        /\ \/ applied' = applied
           \/ /\ applied' = [applied EXCEPT ![TaskOf(p)][NodeOf(p)] = @ + 1]
              /\ executor'[p].result \in {"succeeded", "unknown"}
    BY <1>1, <1>6, ApplyCallSound
  <2> QED BY <1>2, <2>1, ApplyOnce
<1>7. CASE RecordCall(p)
  <2>1. PICK s \in {"committed", "unknown", "failed"} :
          /\ effect' = [effect EXCEPT ![TaskOf(p)][NodeOf(p)] = s]
          /\ executor[p].result \in {"succeeded", "unknown"} => s \in {"committed", "unknown"}
    BY <1>1, <1>7, RecordCallSound
  <2>2. applied' = applied /\ executor[p].stage = "record" /\ ExecutorStays(p, "attempt")
    BY <1>1, <1>7, RecordCallSound
  <2> QED BY <1>2, <2>1, <2>2, RecordOnce
<1> QED BY <1>1, <1>3, <1>4, <1>5, <1>6, <1>7, ExecutorKinds

\* A step of anybody else changes nothing about a call.
LEMMA ElseOnce ==
  ASSUME OnceInv, ElseQuiet, NEW t \in Task, NEW n \in SideEffect, OnceAt(t, n)
  PROVE  OnceAt(t, n)'
BY ConstantsAssumption, ElseCalls, OnceFrame DEF OnceInv, ElseQuiet

\* The tool is called for side effects only.
LEMMA ReadOnlyStep ==
  ASSUME OnceInv, [Next]_vars, NEW t \in Task, NEW n \in Node \ SideEffect
  PROVE  applied'[t][n] = 0
<1>1. applied[t][n] = 0 /\ Inv /\ Bounds
  BY DEF OnceInv, Once, LeaseInv
<1>2. ASSUME NEW r \in Runner, RunnerMain(r) \/ RunnerBeat(r) \/ RunnerCrash(r) PROVE applied' = applied
  BY <1>1, <1>2, RunnerKinds DEF RunnerRest
<1>3. ASSUME NEW p \in Executor, Preview(p) \/ ExecutorMain(p) \/ ApprovalBeat(p) \/ ExecutorCrash(p)
      PROVE  applied'[t][n] = applied[t][n]
  <2>1. CASE ApplyCall(p)
    <3>1. executor[p].stage \in Claimed
      BY <2>1 DEF ApplyCall, ExecutorAt, Claimed, ExecutorStage
    <3>2. TaskOf(p) \in Task /\ NodeOf(p) \in SideEffect /\ applied \in [Task -> [Node -> Nat]]
      BY <1>1, <3>1, ExecutorShows DEF Inv, RowsTypeOK
    <3> QED BY <1>1, <2>1, <3>2, ApplyCallSound
  <2>2. CASE ~ApplyCall(p)
    BY <1>1, <1>3, <2>2, ExecutorKinds, SelectCallSound, DispatchCallSound, RecordCallSound
    DEF ExecutorQuiet
  <2> QED BY <2>1, <2>2
<1>4. ElseQuiet => applied' = applied
  BY DEF ElseQuiet
<1> QED BY <1>1, <1>2, <1>3, <1>4, OthersQuiet DEF Next

\* Every step keeps the invariant.
LEMMA OnceStep == OnceInv /\ [Next]_vars => OnceInv'
<1> SUFFICES ASSUME OnceInv, [Next]_vars PROVE LeaseInv' /\ TokensOK' /\ Once'
  BY DEF OnceInv
<1>1. LeaseInv' /\ Inv /\ Bounds /\ LeaseInv /\ TokensOK
  BY LeaseInvStep DEF OnceInv, LeaseInv
<1>2. TokensOK'
  <2>1. ASSUME NEW r \in Runner, RunnerMain(r) \/ RunnerBeat(r) \/ RunnerCrash(r) PROVE TokensOK'
    BY <1>1, <2>1, RunnerKinds, RunnerCalls
  <2>2. ASSUME NEW p \in Executor, Preview(p) \/ ExecutorMain(p) \/ ApprovalBeat(p) \/ ExecutorCrash(p)
        PROVE  TokensOK'
    BY <1>1, <2>2, ExecutorKinds, ExecutorCalls
  <2>3. ElseQuiet => TokensOK'
    BY <1>1, ElseCalls
  <2> QED BY <1>1, <2>1, <2>2, <2>3, OthersQuiet DEF Next
<1>3. ASSUME NEW t \in Task, NEW n \in SideEffect, <<t, n>> \notin stray' PROVE OnceAt(t, n)'
  <2>1. OnceAt(t, n)
    <3>1. n \in Node /\ <<t, n>> \notin stray
      BY <1>3, StrayGrows, ConstantsAssumption
    <3> QED BY <3>1 DEF OnceInv, Once
  <2>2. ASSUME NEW r \in Runner, RunnerMain(r) \/ RunnerBeat(r) \/ RunnerCrash(r) PROVE OnceAt(t, n)'
    BY <1>3, <2>1, <2>2, RunnerOnce
  <2>3. ASSUME NEW p \in Executor, Preview(p) \/ ExecutorMain(p) \/ ApprovalBeat(p) \/ ExecutorCrash(p)
        PROVE  OnceAt(t, n)'
    BY <1>3, <2>1, <2>3, ExecutorOnce
  <2>4. ElseQuiet => OnceAt(t, n)'
    BY <2>1, ElseOnce
  <2> QED BY <1>1, <2>2, <2>3, <2>4, OthersQuiet DEF Next
<1>4. Once'
  BY <1>3, ReadOnlyStep DEF Once
<1> QED BY <1>1, <1>2, <1>4

\* An approved effect takes place once, whatever is renewed, asked for again,
\* interrupted or resumed and whoever stalls or dies, unless begin_effect wrote
\* the row of a call of it for a thread that had lost its lease: the row is
\* read and written in two statements (tasks/effects.py).
THEOREM ApprovedEffectsHappenOnce == Spec => []ExecutedOnce
<1>1. Init => OnceInv
  BY LeaseInvInit, OnceInit DEF OnceInv
<1>2. OnceInv => ExecutedOnce
  <2> SUFFICES ASSUME OnceInv, NEW t \in Task, NEW n \in Node, <<t, n>> \notin stray
               PROVE  applied[t][n] <= 1
    BY DEF ExecutedOnce
  <2>1. CASE n \notin SideEffect
    BY <2>1 DEF OnceInv, Once
  <2>2. CASE n \in SideEffect
    BY <2>2 DEF OnceInv, Once, OnceAt
  <2> QED BY <2>1, <2>2
<1> QED BY <1>1, <1>2, OnceStep, PTL DEF Spec
=============================================================================
