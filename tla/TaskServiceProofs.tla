------------------------- MODULE TaskServiceProofs --------------------------
(***************************************************************************)
(* Proofs about the worker processes.  For any number of workers, tasks    *)
(* and nodes, and in every setting: what they do to the tables is what the *)
(* most general client of the ledger does, so that every theorem about     *)
(* that client holds of them; a cancelled task never ends succeeded; a     *)
(* task is queued only when no worker may be inside a side effect of its   *)
(* plan; and no effect happens twice.                                      *)
(***************************************************************************)
EXTENDS TaskService, LedgerProofs

-----------------------------------------------------------------------------
(* What a worker knows at every stage.                                     *)

InCall == {"call", "select", "dispatch", "apply", "record", "report"}
Engaged(w) == w.stage \notin {"idle", "expire", "claim", "dead"}
OpOf(w) == IF w.node = None THEN Direct ELSE w.node
EndsWith == {"succeeded", "failed", "recovery_required", "cancelled", "paused"}
CallEnds == {"succeeded", "failed", "unknown", "cancelled", "paused"}

\* A worker has a task from the claim on, a node while it is in a call of a
\* plan, an attempt of it, and an outcome that the next write accepts.
WorkerOK(w, s) ==
  /\ Engaged(w) => w.task \in Task /\ w.token \in 0..MaxToken
  /\ w.beat # "off" => Engaged(w)
  /\ w.node \in s.nodes \cup {None}
  /\ w.stage \in {"start", "report"} => w.node # None
  /\ w.stage \in {"describe", "deadline", "enter"} \/ ~Engaged(w) => w.node = None
  /\ w.stage \in InCall /\ w.node = None => w.task \notin s.planned
  /\ w.stage \in InCall /\ w.node # None => w.attempt \in 1..MaxAttempts
  /\ w.stage \in {"select", "dispatch", "record"} => OpOf(w) \in Operation
  /\ w.stage \in {"record", "report"} => w.outcome \in CallEnds
  /\ w.stage = "record" /\ w.outcome = "failed" => "failed" \in s.outcomes
  /\ w.stage \in {"settle", "finish", "abort"} => w.outcome \in EndsWith
WorkersOK == \A w \in Worker : WorkerOK(worker[w], setting)

TypeInv == TypeOK /\ WorkersOK

\* The fields of a setting.
LEMMA SettingFacts ==
  ASSUME setting \in Settings
  PROVE  /\ setting.tasks \subseteq Task /\ setting.nodes \subseteq Node
         /\ setting.outcomes \subseteq {"succeeded", "failed", "unknown"}
         /\ setting.requests \subseteq {"pause", "cancel"}
BY ServiceAssumption DEF Setting

\* The state of a worker after a step, by what the step writes.
To(w, s) == [w EXCEPT !.stage = s]
ToWith(w, s, o) == [w EXCEPT !.stage = s, !.outcome = o]
ToTask(w, t, k) == [w EXCEPT !.stage = "describe", !.task = t, !.token = k]
ToEnter(w) == [w EXCEPT !.stage = "enter", !.beat = "poll"]
ToNode(w, n) == [w EXCEPT !.stage = "start", !.node = n]
ToAttempt(w, i) == [w EXCEPT !.stage = "call", !.attempt = i]
ToSaw(w, x) == [w EXCEPT !.stage = "dispatch", !.saw = x]
Left(w) == [IdleWorker EXCEPT !.closing = w.closing]
Gone == [IdleWorker EXCEPT !.stage = "dead"]

\* q is w at stage s, on the same call.
Moved(w, q, s) ==
  /\ q \in WorkerState /\ q.stage = s /\ q.task = w.task /\ q.token = w.token /\ q.node = w.node
  /\ q.attempt = w.attempt /\ q.saw = w.saw /\ q.beat = w.beat

\* q is w, told something by its heartbeat or by close.
Told(w, q) ==
  /\ q \in WorkerState /\ q.stage = w.stage /\ q.task = w.task /\ q.token = w.token
  /\ q.node = w.node /\ q.attempt = w.attempt /\ q.saw = w.saw /\ q.outcome = w.outcome

\* They are states of a worker.
LEMMA MovedRows ==
  ASSUME NEW w \in WorkerState, NEW s \in Stage, NEW o \in Outcome
  PROVE  /\ Moved(w, To(w, s), s) /\ To(w, s).outcome = w.outcome
         /\ Moved(w, ToWith(w, s, o), s) /\ ToWith(w, s, o).outcome = o
BY DEF Moved, To, ToWith, WorkerState
\* A worker with a task, and one whose heartbeat has started.
LEMMA StartRows ==
  ASSUME NEW w \in WorkerState, NEW t \in Task, NEW k \in Nat
  PROVE  /\ ToTask(w, t, k) \in WorkerState /\ ToTask(w, t, k).stage = "describe"
         /\ ToTask(w, t, k).task = t /\ ToTask(w, t, k).token = k /\ ToTask(w, t, k).node = w.node
         /\ ToEnter(w) \in WorkerState /\ ToEnter(w).stage = "enter"
         /\ ToEnter(w).task = w.task /\ ToEnter(w).token = w.token /\ ToEnter(w).node = w.node
BY DEF ToTask, ToEnter, WorkerState, Stage
\* One that has picked a node, and one that has opened an attempt of it.
LEMMA NodeRows ==
  ASSUME NEW w \in WorkerState, NEW n \in Node, NEW i \in Nat
  PROVE  /\ ToNode(w, n) \in WorkerState /\ ToNode(w, n).stage = "start"
         /\ ToNode(w, n).task = w.task /\ ToNode(w, n).token = w.token /\ ToNode(w, n).node = n
         /\ ToAttempt(w, i) \in WorkerState /\ ToAttempt(w, i).stage = "call"
         /\ ToAttempt(w, i).task = w.task /\ ToAttempt(w, i).token = w.token
         /\ ToAttempt(w, i).node = w.node /\ ToAttempt(w, i).attempt = i
BY DEF ToNode, ToAttempt, WorkerState, Stage
\* One that has read the journal.
LEMMA SawRows ==
  ASSUME NEW w \in WorkerState, NEW x \in EffectState \cup {"absent"}
  PROVE  /\ ToSaw(w, x) \in WorkerState /\ ToSaw(w, x).stage = "dispatch"
         /\ ToSaw(w, x).task = w.task /\ ToSaw(w, x).token = w.token /\ ToSaw(w, x).node = w.node
         /\ ToSaw(w, x).attempt = w.attempt /\ ToSaw(w, x).saw = x
BY DEF ToSaw, WorkerState, Stage
\* One that has left its run, and one that is gone.
LEMMA IdleRows ==
  ASSUME NEW w \in WorkerState
  PROVE  /\ Left(w) \in WorkerState /\ Left(w).stage = "idle" /\ Left(w).node = None
         /\ Left(w).beat = "off"
         /\ IdleWorker \in WorkerState /\ IdleWorker.stage = "idle" /\ IdleWorker.node = None
         /\ IdleWorker.beat = "off"
         /\ Gone \in WorkerState /\ Gone.stage = "dead" /\ Gone.node = None /\ Gone.beat = "off"
<1>1. /\ IdleWorker \in WorkerState /\ IdleWorker.stage = "idle" /\ IdleWorker.node = None
      /\ IdleWorker.beat = "off"
  BY DEF IdleWorker, WorkerState, Stage, Outcome
<1>2. \A e \in BOOLEAN, s \in Stage :
        /\ [IdleWorker EXCEPT !.closing = e] \in WorkerState
        /\ [IdleWorker EXCEPT !.closing = e].stage = "idle"
        /\ [IdleWorker EXCEPT !.closing = e].node = None
        /\ [IdleWorker EXCEPT !.closing = e].beat = "off"
        /\ [IdleWorker EXCEPT !.stage = s] \in WorkerState
        /\ [IdleWorker EXCEPT !.stage = s].stage = s
        /\ [IdleWorker EXCEPT !.stage = s].node = None
        /\ [IdleWorker EXCEPT !.stage = s].beat = "off"
  BY <1>1 DEF WorkerState
<1>3. w.closing \in BOOLEAN /\ "dead" \in Stage
  BY DEF WorkerState, Stage
<1> QED BY <1>1, <1>2, <1>3 DEF Left, Gone
-----------------------------------------------------------------------------
(* What workers and users do to the tables, any client may do.             *)

\* The transactions that present the lease of a worker.
LEMMA LeasedWrites ==
  ASSUME NEW t \in Task, NEW o \in Owner, NEW k \in 0..MaxToken,
         \/ \E s \in EndsWith, b \in BOOLEAN : FinishWorkerTask(t, s, b, o, k)
         \/ SetDeadline(t, o, k) \/ Heartbeat(t, o, k) \/ SaveReleasedOutput(t, o, k)
         \/ \E plan \in SUBSET Node : SavePlan(t, plan, o, k)
  PROVE  LedgerNext
<1>1. EndsWith \subseteq CallerStatus
  BY DEF EndsWith, CallerStatus, TaskStatus, Terminal, Stopped
<1>2. TaskWrite(t, o, k, CallerStatus)
  BY <1>1 DEF TaskWrite
<1> QED BY <1>2 DEF LedgerNext, LedgerStep

\* Those that start and report an attempt.
LEMMA AttemptWrites ==
  ASSUME NEW t \in Task, NEW n \in Node, NEW o \in Owner, NEW k \in 0..MaxToken,
         \/ StartAttempt(t, n, o, k)
         \/ \E s \in CallEnds, i \in 1..MaxAttempts :
              ReportAttempt(t, n, i, NodeResult(s), o, k)
  PROVE  LedgerNext
<1>1. \A s \in CallEnds : NodeResult(s) \in ReportStatus
  BY DEF CallEnds, NodeResult, ReportStatus, NodeStatus, TaskStatus, Terminal, Stopped
<1>2. NodeWrite(t, n, o, k, ReportStatus)
  BY <1>1 DEF NodeWrite
<1> QED BY <1>2 DEF LedgerNext, LedgerStep

\* Those that present none.
LEMMA FreeWrites ==
  ASSUME NEW t \in Task,
         \/ CreateTask(t, "paused", {}) \/ BindJob(t) \/ UpdateTask(t, "queued", None, 0)
         \/ RequestPause(t) \/ Resume(t)
         \/ \E action \in {"pause", "cancel"} : RequestControl(t, action)
         \/ LeaseLapses(t) \/ DeadlinePasses(t)
  PROVE  LedgerNext
<1>1. CASE UpdateTask(t, "queued", None, 0)
  <2>1. "queued" \in CallerStatus /\ 0 \in 0..MaxToken
    BY ConstantsAssumption DEF CallerStatus, TaskStatus, Stopped
  <2>2. TaskWrite(t, None, 0, CallerStatus)
    BY <1>1, <2>1 DEF TaskWrite
  <2> QED BY <2>1, <2>2 DEF LedgerNext, LedgerStep
<1>2. CASE CreateTask(t, "paused", {}) \/ BindJob(t) \/ RequestPause(t) \/ Resume(t)
  BY <1>2 DEF LedgerNext, LedgerStep, Unguarded
<1>3. CASE \E action \in {"pause", "cancel"} : RequestControl(t, action)
  BY <1>3 DEF LedgerNext, LedgerStep, Unguarded
<1>4. CASE LeaseLapses(t) \/ DeadlinePasses(t)
  BY <1>4 DEF LedgerNext, LedgerStep, Passing
<1> QED BY <1>1, <1>2, <1>3, <1>4

\* Those of the queue.
LEMMA QueueWrites ==
  ASSUME ExpireLeases \/ \E o \in Owner : ClaimNothing \/ \E t \in Task : ClaimHead(t, o)
  PROVE  LedgerNext
BY DEF LedgerNext, LedgerStep, Housekeeping, ClaimNext

\* Those of the journal.
LEMMA JournalWrites ==
  ASSUME NEW t \in Task, NEW x \in Operation, UNCHANGED <<task, node, attempts>>,
         \/ EffectInsert(t, x) \/ EffectRedispatch(t, x)
         \/ \E o \in CallEnds : EffectFinish(t, x, JournalState(o))
  PROVE  LedgerNext
<1>1. \A o \in CallEnds : JournalState(o) \in {"prepared", "committed", "unknown", "failed"}
  BY DEF JournalState
<1>2. EffectWrite(t, x)
  BY <1>1 DEF EffectWrite
<1> QED BY <1>2 DEF LedgerNext, LedgerStep

-----------------------------------------------------------------------------
(* The invariant.                                                          *)

\* While a worker is in the call of a side effect it holds the task and the
\* node is running, or the lease lapsed and the node is uncertain.
HoldsNode(o, k, t, n) ==
  \/ task[t].owner = o /\ task[t].token = k /\ node[t][n] = "running"
  \/ node[t][n] = "unknown"
SideCall(w) == w.stage \in InCall /\ w.node \in SideEffect
SideCalls ==
  \A w \in Worker : SideCall(worker[w])
    => HoldsNode(w, worker[w].token, worker[w].task, worker[w].node)

\* So two workers are never in the call of the same side effect.
SameCall(v, w) == SideCall(v) /\ SideCall(w) /\ v.task = w.task /\ v.node = w.node
OneCaller == \A v, w \in Worker : SameCall(worker[v], worker[w]) => v = w

\* A running attempt belongs to a row, and shows in the status of its node.
RunningIsShown ==
  \A t \in Task, n \in Node : Running(t, n) => Exists(t) /\ node[t][n] = "running"

\* Until its submission is complete a task waits, unless users act early, and
\* no worker has it.
SubmissionOK ==
  /\ \A t \in Task : Exists(t) => t \in setting.tasks
  /\ ~setting.early =>
       \A t \in Task : submission[t] # "done" => task[t].status \in {"absent", "paused"}
  /\ \A w \in Worker : Engaged(worker[w]) =>
       Exists(worker[w].task) /\ (~setting.early => submission[worker[w].task] = "done")

\* A task with a worker in a side effect of its plan is not queued.
QueueOK ==
  ~setting.early =>
    \A w \in Worker : SideCall(worker[w]) => task[worker[w].task].status # "queued"

\* The journal says that a call is under way while one worker, and no other, is
\* in it; a worker that has seen a failed call still finds it failed.
Calling(w) == w.stage \in {"apply", "record"} /\ OpOf(w) \in Operation
SameOp(v, w) == v.task = w.task /\ OpOf(v) = OpOf(w)
JournalOK ==
  /\ \A w \in Worker : Calling(worker[w]) =>
       effect[worker[w].task][OpOf(worker[w])] = "dispatched"
  /\ \A w \in Worker : worker[w].stage = "dispatch" /\ worker[w].saw # "absent" =>
       worker[w].saw = "failed" /\ effect[worker[w].task][OpOf(worker[w])] = "failed"
  /\ \A v, w \in Worker :
       Calling(worker[v]) /\ Calling(worker[w]) /\ SameOp(worker[v], worker[w]) => v = w
  /\ \A t \in Task, x \in Operation :
       effect[t][x] \in {"absent", "dispatched", "committed", "failed", "unknown"}
  /\ \A t \in Task : effect[t][Direct] # "failed"

\* What was applied is neither open to another call nor reported as failed.
Done(w) == w.stage = "record" /\ w.outcome # "failed"
AppliedOK ==
  \A t \in Task, x \in Operation :
    \/ applied[t][x] = 0
    \/ /\ applied[t][x] = 1
       /\ effect[t][x] \in {"dispatched", "committed", "unknown"}
       /\ \A w \in Worker :
            Calling(worker[w]) /\ worker[w].task = t /\ OpOf(worker[w]) = x => Done(worker[w])

\* The call of a task without a plan succeeds or is left open: two workers that
\* have both seen it failed would both dispatch it again.
DirectCallsNeverFail == \A s \in Settings : "failed" \in s.outcomes => s.tasks \subseteq s.planned

LedgerInv == LeaseShape /\ AttemptFencing /\ RunningNodeHasAttempt /\ RunningIsShown
CallInv == SideCalls /\ OneCaller /\ SubmissionOK /\ QueueOK /\ CancelWins
JournalInv == JournalOK /\ AppliedOK
Inv == TypeInv /\ LedgerInv /\ CallInv /\ (DirectCallsNeverFail => JournalInv)

-----------------------------------------------------------------------------
(* What a transaction of a worker may do to the tables.                    *)

\* A row is not queued or taken off its submission, keeps a cancellation from
\* ending succeeded, and is not created or deleted.
CalmRow(r, q) ==
  /\ q.status = "queued" => r.status = "queued"
  /\ r.status \in {"absent", "paused"} => q.status = r.status
CancelRow(r, q) ==
  /\ q.status = "absent" => r.status = "absent"
  /\ (r.cancel => r.status # "succeeded") => (q.cancel => q.status # "succeeded")

\* The tables after a transaction of w on any rows, or of a user on those in T.
Calm(w, T) ==
  /\ [LedgerNext]_storeVars
  /\ \A t \in Task \ T : CalmRow(task[t], task'[t])
  /\ \A t \in Task : CancelRow(task[t], task'[t])
  /\ \A t \in Task, n \in SideEffect, o \in Worker \ {w}, k \in Nat :
       Exists(t) /\ HoldsNode(o, k, t, n) => HoldsNode(o, k, t, n)'
  /\ RunningIsShown'

\* A transaction that writes one row, which keeps its lease, its holder gives
\* up, or which has none.
LEMMA CalmWrite ==
  ASSUME Inv, NEW w, NEW T, [LedgerNext]_storeVars, NEW t \in Task, NEW q,
         task' = [task EXCEPT ![t] = q], UNCHANGED <<node, attempts>>,
         t \in T \/ CalmRow(task[t], q), CancelRow(task[t], q),
         \/ q.owner = task[t].owner /\ q.token = task[t].token
         \/ task[t].owner \in {w, None}
  PROVE  Calm(w, T)
<1> USE ConstantsAssumption
<1>1. /\ \A u \in Task \ {t} : task'[u] = task[u]
      /\ task'[t] = q
  BY DEF Inv, TypeInv, TypeOK, StoreTypeOK
<1>2. \A u \in Task \ T : CalmRow(task[u], task'[u])
  BY <1>1 DEF CalmRow
<1>3. \A u \in Task : CancelRow(task[u], task'[u])
  BY <1>1 DEF CancelRow
<1>4. ASSUME NEW u \in Task, NEW n \in SideEffect, NEW o \in Worker \ {w}, NEW k \in Nat,
             HoldsNode(o, k, u, n)
      PROVE  HoldsNode(o, k, u, n)'
  BY <1>1, <1>4 DEF HoldsNode, Worker
<1>5. RunningIsShown'
  BY <1>3 DEF Inv, LedgerInv, RunningIsShown, Running, Exists, CancelRow
<1> QED BY <1>2, <1>3, <1>4, <1>5 DEF Calm

\* A transaction that writes no row and no attempt, and makes no node that was
\* running or uncertain anything else.
LEMMA CalmNode ==
  ASSUME Inv, NEW w, NEW T, [LedgerNext]_storeVars, UNCHANGED <<task, attempts>>,
         \A t \in Task, n \in Node :
           node[t][n] \in {"running", "unknown"} => node'[t][n] = node[t][n]
  PROVE  Calm(w, T)
<1> USE ConstantsAssumption
<1>1. \A t \in Task, n \in SideEffect, o \in Worker \ {w}, k \in Nat :
        HoldsNode(o, k, t, n) => HoldsNode(o, k, t, n)'
  BY DEF HoldsNode
<1>2. RunningIsShown'
  BY DEF Inv, LedgerInv, RunningIsShown, Running, Exists
<1> QED BY <1>1, <1>2 DEF Calm, CalmRow, CancelRow

\* One that writes none of the three tables.
LEMMA CalmNothing ==
  ASSUME Inv, NEW w, NEW T, [LedgerNext]_storeVars, UNCHANGED <<task, node, attempts>>
  PROVE  Calm(w, T)
BY CalmNode

\* finish_worker_task: a row that carries a cancellation ends cancelled.
LEMMA FinishCalm ==
  ASSUME Inv, NEW w \in Worker, NEW t \in Task, NEW k \in 0..MaxToken, NEW s \in EndsWith,
         NEW b \in BOOLEAN, FinishWorkerTask(t, s, b, w, k)
  PROVE  Calm(w, {})
<1> DEFINE f == FinishStatus(task[t], s)
           p == ReleasedWith(task[t], f)
           q == WithOutput(p, b, k)
<1>1. task[t] \in TaskRow /\ task[t].owner = w /\ task[t].status = "running"
  BY DEF Inv, TypeInv, TypeOK, StoreTypeOK, FinishWorkerTask, Held
<1>2. f \in EndsWith /\ (task[t].cancel => f # "succeeded")
  BY DEF FinishStatus, EndsWith
<1>3. task' = [task EXCEPT ![t] = q] /\ UNCHANGED <<node, attempts, effect>>
  BY DEF FinishWorkerTask
<1>4. [LedgerNext]_storeVars
  BY LeasedWrites DEF Worker
<1> HIDE DEF f
<1>5. p \in TaskRow /\ p.status = f /\ p.cancel = task[t].cancel
  <2>1. f \in TaskStatus /\ task[t].owner # None
    BY <1>1, <1>2, ConstantsAssumption DEF EndsWith, TaskStatus, Terminal, Stopped, Worker
  <2> QED BY <1>1, <2>1, ReleasedWithType DEF ReleasedWith, Unowned, TaskRow
<1> HIDE DEF p
<1>6. q.status = f /\ q.cancel = task[t].cancel
  BY <1>5 DEF WithOutput, TaskRow
<1> HIDE DEF q
<1>7. CalmRow(task[t], q) /\ CancelRow(task[t], q)
  BY <1>1, <1>2, <1>6 DEF CalmRow, CancelRow, EndsWith
<1> QED BY <1>1, <1>3, <1>4, <1>7, CalmWrite

\* The writes under a lease that leave it as it is, and a pause.
LEMMA FieldCalm ==
  ASSUME Inv, NEW w, NEW T, NEW t \in Task, NEW o, NEW k \in 0..MaxToken,
         \/ o \in Owner /\ (SetDeadline(t, o, k) \/ Heartbeat(t, o, k) \/ SaveReleasedOutput(t, o, k))
         \/ RequestPause(t) \/ LeaseLapses(t) \/ DeadlinePasses(t)
  PROVE  Calm(w, T)
<1>1. [LedgerNext]_storeVars
  BY LeasedWrites, FreeWrites
<1>2. task[t] \in TaskRow /\ UNCHANGED <<node, attempts>>
  BY DEF Inv, TypeInv, TypeOK, StoreTypeOK, SetDeadline, Heartbeat, SaveReleasedOutput, RequestPause,
         SetRequests, LeaseLapses, DeadlinePasses
<1>3. \E q \in TaskRow :
        /\ task' = [task EXCEPT ![t] = q]
        /\ q.status = task[t].status /\ q.cancel = task[t].cancel
        /\ q.owner = task[t].owner /\ q.token = task[t].token
  <2> DEFINE r == task[t]
             d == [r EXCEPT !.deadline = "ahead", !.released = NotReleased]
             l == [r EXCEPT !.lease = "live"]
             u == [r EXCEPT !.output = k]
             c == [r EXCEPT !.cancel = r.cancel, !.pause = TRUE]
             e == [r EXCEPT !.lease = "lapsed"]
             z == [r EXCEPT !.deadline = "past"]
  <2>1. \/ task' = [task EXCEPT ![t] = d] \/ task' = [task EXCEPT ![t] = l]
        \/ task' = [task EXCEPT ![t] = u] \/ task' = [task EXCEPT ![t] = c]
        \/ task' = [task EXCEPT ![t] = e] \/ task' = [task EXCEPT ![t] = z]
    BY DEF SetDeadline, Heartbeat, SaveReleasedOutput, RequestPause, SetRequests, LeaseLapses,
           DeadlinePasses
  <2> DEFINE Like(q) == /\ q \in TaskRow /\ q.status = r.status /\ q.cancel = r.cancel
                        /\ q.owner = r.owner /\ q.token = r.token
  <2>2. Like(d)
    BY <1>2 DEF TaskRow
  <2>3. Like(l) /\ Like(e)
    BY <1>2 DEF TaskRow
  <2>4. Like(u) /\ Like(z)
    BY <1>2 DEF TaskRow
  <2>5. Like(c)
    BY <1>2 DEF TaskRow
  <2> HIDE DEF d, l, u, c, e, z
  <2> QED BY <2>1, <2>2, <2>3, <2>4, <2>5
<1>4. PICK q \in TaskRow :
        /\ task' = [task EXCEPT ![t] = q]
        /\ q.status = task[t].status /\ q.cancel = task[t].cancel
        /\ q.owner = task[t].owner /\ q.token = task[t].token
  BY <1>3
<1>5. CalmRow(task[t], q) /\ CancelRow(task[t], q)
  BY <1>4 DEF CalmRow, CancelRow
<1> QED BY <1>1, <1>2, <1>4, <1>5, CalmWrite

\* The plan of a task is added to, once.
LEMMA PlanCalm ==
  ASSUME Inv, NEW w \in Worker, NEW t \in Task, NEW plan \in SUBSET Node, NEW k \in 0..MaxToken,
         SavePlan(t, plan, w, k)
  PROVE  Calm(w, {})
<1>1. [LedgerNext]_storeVars
  BY LeasedWrites DEF Worker
<1>2. \A u \in Task, n \in Node :
        node[u][n] \in {"running", "unknown"} => node'[u][n] = node[u][n]
  BY DEF SavePlan, Inv, TypeInv, TypeOK, StoreTypeOK
<1> QED BY <1>1, <1>2, CalmNode DEF SavePlan

\* An attempt is opened by the holder of the lease; what is uncertain is not
\* started again.
LEMMA StartCalm ==
  ASSUME Inv, NEW w \in Worker, NEW t \in Task, NEW n \in Node, NEW k \in 0..MaxToken,
         StartAttempt(t, n, w, k)
  PROVE  Calm(w, {})
<1> USE ConstantsAssumption
<1> DEFINE q == [task[t] EXCEPT !.status = "running"]
<1>1. [LedgerNext]_storeVars
  BY AttemptWrites DEF Worker
<1>2. task[t] \in TaskRow /\ task[t].owner = w /\ task[t].status = "running"
  BY DEF Inv, TypeInv, TypeOK, StoreTypeOK, LedgerInv, LeaseShape, RowShape, StartAttempt, Guard, Held,
         Worker
<1>3. task' = [task EXCEPT ![t] = q] /\ q = task[t]
  BY <1>2 DEF StartAttempt, TaskRow
<1> HIDE DEF q
<1>4. UNCHANGED task
  BY <1>3 DEF Inv, TypeInv, TypeOK, StoreTypeOK
<1>5. /\ node'[t][n] = "running"
      /\ \A u \in Task, m \in Node : (u # t \/ m # n) =>
           node'[u][m] = node[u][m] /\ attempts'[u][m] = attempts[u][m]
  BY DEF StartAttempt, Inv, TypeInv, TypeOK, StoreTypeOK
<1>6. ASSUME NEW u \in Task, NEW m \in SideEffect, NEW o \in Worker \ {w}, NEW j \in Nat,
             HoldsNode(o, j, u, m)
      PROVE  HoldsNode(o, j, u, m)'
  <2>1. CASE u # t \/ m # n
    BY <1>4, <1>5, <1>6, <2>1 DEF HoldsNode
  <2>2. CASE u = t /\ m = n
    BY <1>2, <1>6, <2>2 DEF HoldsNode, StartAttempt, StartAllowed
  <2> QED BY <2>1, <2>2
<1>7. RunningIsShown'
  BY <1>2, <1>4, <1>5 DEF Inv, LedgerInv, RunningIsShown, Running, Exists
<1> QED BY <1>1, <1>4, <1>6, <1>7 DEF Calm, CalmRow, CancelRow

\* The one running attempt of a node is reported by the holder of the lease.
LEMMA ReportCalm ==
  ASSUME Inv, NEW w \in Worker, NEW t \in Task, NEW n \in Node, NEW i \in 1..MaxAttempts,
         NEW o \in CallEnds, NEW k \in 0..MaxToken, ReportAttempt(t, n, i, NodeResult(o), w, k)
  PROVE  Calm(w, {})
<1> USE ConstantsAssumption
<1> DEFINE s == NodeResult(o)
           q == [attempts[t][n] EXCEPT ![i].status = s]
<1>1. [LedgerNext]_storeVars
  BY AttemptWrites DEF Worker
<1>2. task[t].owner = w /\ s # "running" /\ UNCHANGED task
  BY DEF ReportAttempt, Guard, Held, Worker
<1>3. i \in DOMAIN attempts[t][n] /\ attempts[t][n][i].status = "running"
  BY DEF ReportAttempt
<1>4. /\ attempts' = [attempts EXCEPT ![t][n] = q]
      /\ node' = [node EXCEPT ![t][n] = s]
  BY DEF ReportAttempt
<1>5. /\ attempts'[t][n] = q
      /\ \A u \in Task, m \in Node : (u # t \/ m # n) =>
           node'[u][m] = node[u][m] /\ attempts'[u][m] = attempts[u][m]
  BY <1>4 DEF Inv, TypeInv, TypeOK, StoreTypeOK
<1>6. node[t][n] = "running"
  BY <1>3 DEF Inv, LedgerInv, RunningIsShown, Running
<1>7. ~Running(t, n)'
  <2>1. /\ attempts[t][n] \in Seq(Attempt) /\ DOMAIN q = DOMAIN attempts[t][n]
        /\ \A j \in DOMAIN q : attempts[t][n][j] \in Attempt
    BY ElementOfSeq, LenProperties DEF Inv, TypeInv, TypeOK, StoreTypeOK
  <2>2. \A j \in DOMAIN attempts[t][n] : attempts[t][n][j].status = "running" => j = Len(attempts[t][n])
    BY DEF Inv, LedgerInv, AttemptFencing
  <2>3. \A j \in DOMAIN q : q[j].status # "running"
    BY <1>2, <1>3, <2>1, <2>2 DEF Attempt
  <2> QED BY <1>5, <2>3 DEF Running
<1> HIDE DEF q, s
<1>8. ASSUME NEW u \in Task, NEW m \in SideEffect, NEW v \in Worker \ {w}, NEW j \in Nat,
             HoldsNode(v, j, u, m)
      PROVE  HoldsNode(v, j, u, m)'
  <2>1. CASE u # t \/ m # n
    BY <1>2, <1>5, <1>8, <2>1 DEF HoldsNode
  <2>2. CASE u = t /\ m = n
    BY <1>2, <1>6, <1>8, <2>2 DEF HoldsNode
  <2> QED BY <2>1, <2>2
<1>9. RunningIsShown'
  BY <1>2, <1>5, <1>7 DEF Inv, LedgerInv, RunningIsShown, Running, Exists
<1> QED BY <1>1, <1>2, <1>8, <1>9 DEF Calm, CalmRow, CancelRow

\* An expiry of leases interrupts owned rows and fails overdue ones.
LEMMA ExpiredRow ==
  ASSUME Inv, NEW overdue \in SUBSET Overdues, NEW u \in Task, NEW q, q = TasksAfterExpiry(overdue)[u]
  PROVE  /\ q \in TaskRow /\ CalmRow(task[u], q) /\ CancelRow(task[u], q)
         /\ ~Lapsed(u) => q.owner = task[u].owner /\ q.token = task[u].token
         /\ Lapsed(u) => q.status \in {"recovery_required", "interrupted"}
         /\ q.status = "queued" => q = task[u]
<1>1. task[u] \in TaskRow /\ RowShape(task[u])
  BY DEF Inv, TypeInv, TypeOK, StoreTypeOK, LedgerInv, LeaseShape
<1>2. q \in TaskRow
  BY ExpiryType DEF Inv, TypeInv, TypeOK, Overdues
<1>3. CASE Lapsed(u)
  <2>1. q.status \in {"recovery_required", "interrupted"} /\ task[u].status = "running"
    BY <1>1, <1>3 DEF TasksAfterExpiry, InterruptedRow, Unowned, TaskRow, Lapsed, RowShape
  <2> QED BY <1>2, <1>3, <2>1 DEF CalmRow, CancelRow
<1>4. CASE ~Lapsed(u) /\ u \in overdue
  <2>1. /\ q.status = "failed" /\ q.owner = task[u].owner /\ q.token = task[u].token
        /\ task[u].status \in {"queued", "retry_wait"}
    BY <1>1, <1>4 DEF TasksAfterExpiry, TaskRow, Overdues, Overdue
  <2> QED BY <1>2, <1>4, <2>1 DEF CalmRow, CancelRow
<1>5. CASE ~Lapsed(u) /\ u \notin overdue
  <2>1. q = task[u]
    BY <1>5 DEF TasksAfterExpiry
  <2> QED BY <1>2, <1>5, <2>1 DEF CalmRow, CancelRow
<1> QED BY <1>3, <1>4, <1>5

\* It leaves a side effect that was running, or uncertain, uncertain.
LEMMA ExpiredNode ==
  ASSUME Inv, NEW u \in Task, NEW n \in Node,
         node' = NodesAfterExpiry, attempts' = AttemptsAfterExpiry
  PROVE  /\ ~Lapsed(u) => node'[u][n] = node[u][n] /\ attempts'[u][n] = attempts[u][n]
         /\ Lapsed(u) /\ n \in SideEffect /\ node[u][n] \in {"running", "unknown"} =>
              node'[u][n] = "unknown"
         /\ Lapsed(u) => ~Running(u, n)'
<1>1. CASE ~Lapsed(u)
  BY <1>1 DEF NodesAfterExpiry, AttemptsAfterExpiry
<1>2. CASE Lapsed(u)
  <2>1. node'[u][n] = NodeAfterStop(n, node[u][n])
    BY <1>2 DEF NodesAfterExpiry, InterruptedNodes
  <2>2. n \in SideEffect /\ node[u][n] \in {"running", "unknown"} => node'[u][n] = "unknown"
    BY <2>1 DEF NodeAfterStop
  <2>3. CASE node[u][n] = "running"
    <3>1. attempts'[u][n] = CloseRunning(attempts[u][n], NodeAfterStop(n, "running"))
      BY <1>2, <2>3 DEF AttemptsAfterExpiry, InterruptedAttempts
    <3>2. NodeAfterStop(n, "running") \in {"unknown", "interrupted"}
      BY DEF NodeAfterStop
    <3>3. \A i \in DOMAIN attempts[u][n] : attempts[u][n][i] \in Attempt
      BY ElementOfSeq, LenProperties DEF Inv, TypeInv, TypeOK, StoreTypeOK
    <3> QED BY <1>2, <2>2, <3>1, <3>2, <3>3 DEF CloseRunning, Running, Attempt
  <2>4. CASE node[u][n] # "running"
    <3>1. attempts'[u][n] = attempts[u][n]
      BY <1>2, <2>4 DEF AttemptsAfterExpiry, InterruptedAttempts
    <3> QED BY <1>2, <2>2, <2>4, <3>1 DEF Inv, LedgerInv, RunningIsShown, Running
  <2> QED BY <2>3, <2>4
<1> QED BY <1>1, <1>2

\* An expiry, and what may follow it in the same transaction.
LEMMA ExpiryCalm ==
  ASSUME Inv, NEW w, NEW T, [LedgerNext]_storeVars,
         node' = NodesAfterExpiry, attempts' = AttemptsAfterExpiry,
         \A u \in Task :
           /\ CalmRow(task[u], task'[u]) /\ CancelRow(task[u], task'[u])
           /\ ~Lapsed(u) /\ task[u].owner # None =>
                task'[u].owner = task[u].owner /\ task'[u].token = task[u].token
  PROVE  Calm(w, T)
<1> USE ConstantsAssumption
<1>1. ASSUME NEW u \in Task, NEW n \in SideEffect, NEW o \in Worker \ {w}, NEW k \in Nat,
             HoldsNode(o, k, u, n)
      PROVE  HoldsNode(o, k, u, n)'
  <2>1. n \in Node
    OBVIOUS
  <2>2. CASE Lapsed(u)
    BY <1>1, <2>1, <2>2, ExpiredNode DEF HoldsNode
  <2>3. CASE ~Lapsed(u)
    <3>1. node'[u][n] = node[u][n]
      BY <2>1, <2>3, ExpiredNode
    <3>2. node[u][n] # "unknown" =>
            task'[u].owner = task[u].owner /\ task'[u].token = task[u].token
      BY <1>1, <2>3 DEF HoldsNode, Worker
    <3> QED BY <1>1, <3>1, <3>2 DEF HoldsNode
  <2> QED BY <2>2, <2>3
<1>2. ASSUME NEW u \in Task, NEW n \in Node, Running(u, n)'
      PROVE  Exists(u)' /\ node'[u][n] = "running"
  <2>1. ~Lapsed(u) /\ node'[u][n] = node[u][n] /\ attempts'[u][n] = attempts[u][n]
    BY <1>2, ExpiredNode
  <2>2. Running(u, n)
    BY <1>2, <2>1 DEF Running
  <2>3. Exists(u) /\ node[u][n] = "running"
    BY <2>2 DEF Inv, LedgerInv, RunningIsShown
  <2>4. Exists(u)'
    BY <2>3 DEF Exists, CancelRow
  <2> QED BY <2>1, <2>3, <2>4
<1>3. RunningIsShown'
  BY <1>2 DEF RunningIsShown
<1> QED BY <1>1, <1>3 DEF Calm

\* expire_leases, and a claim that finds nothing.
LEMMA ExpireCalm ==
  ASSUME Inv, NEW w \in Worker, NEW T, ExpireLeases \/ ClaimNothing
  PROVE  Calm(w, T)
<1>1. [LedgerNext]_storeVars
  BY QueueWrites DEF Worker
<1>2. PICK overdue \in SUBSET Overdues : task' = TasksAfterExpiry(overdue)
  BY DEF ExpireLeases, ClaimNothing
<1>3. node' = NodesAfterExpiry /\ attempts' = AttemptsAfterExpiry
  BY DEF ExpireLeases, ClaimNothing
<1> QED BY <1>1, <1>2, <1>3, ExpiredRow, ExpiryCalm

\* A claim takes a queued task under a token within the bound.
LEMMA ClaimCalm ==
  ASSUME Inv, NEW w \in Worker, NEW t \in Task, ClaimHead(t, w)
  PROVE  /\ Calm(w, {})
         /\ task[t].status \in {"queued", "retry_wait"} /\ task'[t].token \in 0..MaxToken
<1> USE ConstantsAssumption
<1> DEFINE rows == TasksAfterExpiry(Overdues)
           q == TakenBy(rows[t], w)
<1>1. [LedgerNext]_storeVars
  BY QueueWrites DEF Worker
<1>2. /\ rows \in [Task -> TaskRow] /\ rows[t].token < MaxToken
      /\ rows[t].status \in {"queued", "retry_wait"} /\ rows[t].owner = None
      /\ task' = [rows EXCEPT ![t] = q]
      /\ node' = NodesAfterExpiry /\ attempts' = AttemptsAfterExpiry
  BY ExpiryType DEF ClaimHead, Take, Ready, Claimable, Inv, TypeInv, TypeOK, Overdues
<1>3. /\ CancelRow(task[t], rows[t]) /\ rows[t].status # "absent"
      /\ ~Lapsed(t) /\ rows[t].status = task[t].status /\ task[t].owner = None
  <2>1. ~Lapsed(t)
    BY <1>2, ExpiredRow
  <2>2. rows[t] = task[t]
    BY <1>2, <2>1 DEF TasksAfterExpiry, Inv, TypeInv, TypeOK, StoreTypeOK, TaskRow
  <2> QED BY <1>2, <2>1, <2>2, ExpiredRow
<1>4. /\ q.status = "running" /\ q.token \in 0..MaxToken
  BY <1>2 DEF TakenBy, TaskRow
<1>5. task'[t] = q /\ \A u \in Task \ {t} : task'[u] = rows[u]
  BY <1>2
<1>6. ASSUME NEW u \in Task
      PROVE  /\ CalmRow(task[u], task'[u]) /\ CancelRow(task[u], task'[u])
             /\ ~Lapsed(u) /\ task[u].owner # None =>
                  task'[u].owner = task[u].owner /\ task'[u].token = task[u].token
  <2>1. CASE u = t
    BY <1>2, <1>3, <1>4, <1>5, <2>1 DEF CalmRow, CancelRow
  <2>2. CASE u # t
    BY <1>5, <2>2, ExpiredRow
  <2> QED BY <2>1, <2>2
<1> HIDE DEF rows, q
<1>7. Calm(w, {})
  BY <1>1, <1>2, <1>6, ExpiryCalm
<1> QED BY <1>2, <1>3, <1>4, <1>5, <1>7

-----------------------------------------------------------------------------
(* What a user may do to the tables.                                       *)

\* The transactions of a submission.
LEMMA SubmitCalm ==
  ASSUME Inv, NEW t \in Task,
         CreateTask(t, "paused", {}) \/ BindJob(t) \/ UpdateTask(t, "queued", None, 0)
  PROVE  Calm(None, {t})
<1> USE ConstantsAssumption
<1>1. [LedgerNext]_storeVars
  BY FreeWrites
<1>2. task[t] \in TaskRow
  BY DEF Inv, TypeInv, TypeOK, StoreTypeOK
<1>3. CASE BindJob(t)
  <2> DEFINE q == [task[t] EXCEPT !.bound = TRUE]
  <2>1. task' = [task EXCEPT ![t] = q] /\ UNCHANGED <<node, attempts>>
    BY <1>3 DEF BindJob
  <2>2. /\ CancelRow(task[t], q)
        /\ q.owner = task[t].owner /\ q.token = task[t].token
    BY <1>2 DEF TaskRow, CancelRow
  <2> HIDE DEF q
  <2> QED BY <1>1, <2>1, <2>2, CalmWrite
<1>4. CASE UpdateTask(t, "queued", None, 0)
  <2> DEFINE q == WithStatus(task[t], "queued")
  <2>1. task' = [task EXCEPT ![t] = q] /\ UNCHANGED <<node, attempts>> /\ task[t].owner = None
    BY <1>4 DEF UpdateTask, Guard, Held
  <2>2. CancelRow(task[t], q)
    BY <1>2, <2>1 DEF WithStatus, TaskRow, CancelRow
  <2> HIDE DEF q
  <2> QED BY <1>1, <2>1, <2>2, CalmWrite
<1>5. CASE CreateTask(t, "paused", {})
  <2>1. /\ ~Exists(t)
        /\ task'[t] = [task[t] EXCEPT !.status = "paused"]
        /\ \A u \in Task \ {t} : task'[u] = task[u] /\ node'[u] = node[u]
        /\ UNCHANGED attempts
    BY <1>5 DEF CreateTask, Inv, TypeInv, TypeOK, StoreTypeOK
  <2>2. \A u \in Task \ {t} : CalmRow(task[u], task'[u])
    BY <2>1 DEF CalmRow
  <2>3. \A u \in Task : CancelRow(task[u], task'[u])
    BY <1>2, <2>1 DEF CancelRow, Exists, TaskRow
  <2>4. \A u \in Task, n \in SideEffect, o \in Worker \ {None}, k \in Nat :
          Exists(u) /\ HoldsNode(o, k, u, n) => HoldsNode(o, k, u, n)'
    BY <2>1 DEF HoldsNode
  <2>5. RunningIsShown'
    BY <2>1 DEF Inv, LedgerInv, RunningIsShown, Running, Exists
  <2> QED BY <1>1, <2>2, <2>3, <2>4, <2>5 DEF Calm
<1> QED BY <1>3, <1>4, <1>5

\* A pause or a cancellation: a task without an owner settles at once.
LEMMA ControlCalm ==
  ASSUME Inv, NEW t \in Task, NEW action \in {"pause", "cancel"}, RequestControl(t, action)
  PROVE  Calm(None, {t}) /\ task'[t].status # "queued"
<1> DEFINE a == Asked(task[t], action)
           q == IF Idle(task[t]) THEN Settled(a) ELSE a
<1>1. [LedgerNext]_storeVars
  BY FreeWrites
<1>2. /\ task[t] \in TaskRow /\ task[t].status \notin {"absent", "succeeded"}
      /\ task' = [task EXCEPT ![t] = q] /\ UNCHANGED <<node, attempts>>
  BY DEF Inv, TypeInv, TypeOK, StoreTypeOK, RequestControl, Exists, Terminal
<1>3. a \in TaskRow /\ a.status = task[t].status /\ a.owner = task[t].owner /\ a.token = task[t].token
  <2>1. a \in TaskRow
    BY <1>2, AskedType
  <2>2. ASSUME NEW c \in BOOLEAN, NEW p \in BOOLEAN
        PROVE  /\ [task[t] EXCEPT !.cancel = c, !.pause = p].status = task[t].status
               /\ [task[t] EXCEPT !.cancel = c, !.pause = p].owner = task[t].owner
               /\ [task[t] EXCEPT !.cancel = c, !.pause = p].token = task[t].token
    BY <1>2 DEF TaskRow
  <2>3. a = [task[t] EXCEPT !.cancel = task[t].cancel \/ action = "cancel",
                            !.pause = task[t].pause \/ action = "pause"]
    BY DEF Asked
  <2> QED BY <2>1, <2>2, <2>3
<1> HIDE DEF a
<1>4. Settled(a).status \in {"cancelled", "paused"}
  BY <1>3 DEF Settled, TaskRow
<1>5. CancelRow(task[t], q) /\ q.status # "queued"
  <2>1. task[t].status = "queued" => Idle(task[t])
    BY DEF Idle, Inv, LedgerInv, LeaseShape, RowShape
  <2> QED BY <1>2, <1>3, <1>4, <2>1 DEF CancelRow
<1>6. \/ q.owner = task[t].owner /\ q.token = task[t].token
      \/ task[t].owner = None
  BY <1>3 DEF Idle
<1> HIDE DEF q
<1>7. task'[t] = q
  BY <1>2 DEF Inv, TypeInv, TypeOK, StoreTypeOK
<1> QED BY <1>1, <1>2, <1>5, <1>6, <1>7, CalmWrite

\* An explicit resumption of a task that nobody owns.
LEMMA ResumeCalm ==
  ASSUME Inv, NEW t \in Task, Resume(t)
  PROVE  Calm(None, {t}) /\ task[t].owner = None /\ Exists(t)
<1> DEFINE q == Requeued(task[t])
<1>1. [LedgerNext]_storeVars
  BY FreeWrites
<1>2. /\ task[t] \in TaskRow /\ task[t].owner = None /\ task[t].status # "absent"
      /\ task' = [task EXCEPT ![t] = q] /\ UNCHANGED <<node, attempts>>
  BY DEF Inv, TypeInv, TypeOK, StoreTypeOK, Resume, Resumable
<1>3. CancelRow(task[t], q)
  BY <1>2 DEF Requeued, TaskRow, CancelRow
<1> HIDE DEF q
<1> QED BY <1>1, <1>2, <1>3, CalmWrite DEF Exists

-----------------------------------------------------------------------------
(* What a step has to show of the worker that takes it.                    *)

\* The worker w, which took the step from state p to q, begins a call: it has
\* the task and the node, and no other worker is in a call of that node.
Joins(w, q) ==
  /\ task'[q.task].owner = w /\ task'[q.task].token = q.token
  /\ task'[q.task].status = "running" /\ node'[q.task][q.node] = "running"
  /\ \A u \in Worker \ {w} : ~SameCall(worker[u], q)

\* Otherwise it goes on with the call it was in, and its step, a transaction of
\* v, is no transaction of its own; likewise for the task it has.
CallKept(w, v, p, q) ==
  SideCall(q) => \/ v = None /\ SideCall(p)
                    /\ q.task = p.task /\ q.token = p.token /\ q.node = p.node
                 \/ Joins(w, q)
TaskKept(p, q) ==
  Engaged(q) => \/ Engaged(p) /\ q.task = p.task
                \/ q.task \in Task /\ task[q.task].status \notin {"absent", "paused"}

\* The same of the journal, which the step does not write.
JournalKept(p, q) ==
  /\ Calling(q) => Calling(p) /\ SameOp(p, q) /\ (Done(p) => Done(q))
  /\ q.stage = "dispatch" /\ q.saw # "absent" =>
       \/ p.stage = "dispatch" /\ SameOp(p, q) /\ q.saw = p.saw
       \/ q.saw = effect[q.task][OpOf(q)] /\ EffectAdmits(q.saw) /\ q.task \in Task
          /\ OpOf(q) \in Operation

\* The worker w, if there is one, goes from its state to q.
Goes(w, q) ==
  \/ w \in Worker /\ worker' = [worker EXCEPT ![w] = q]
  \/ w = None /\ UNCHANGED worker

\* What users do to the tasks in T respects their submission and their calls.
UsersKept(T) ==
  /\ submission' \in [Task -> {"none", "created", "bound", "done"}]
  /\ \A t \in Task \ T : submission'[t] = submission[t]
  /\ \A t \in T :
       /\ t \in setting.tasks
       /\ ~setting.early =>
            /\ submission[t] = "done" => submission'[t] = "done"
            /\ submission'[t] # "done" => task'[t].status \in {"absent", "paused"}
            /\ task'[t].status = "queued" =>
                 \A u \in Worker : SideCall(worker[u]) => worker[u].task # t

-----------------------------------------------------------------------------
(* The invariant is kept.                                                  *)

\* The tables keep theirs, by the theorems about the ledger.
LEMMA TablesKept ==
  ASSUME Inv, NEW v, NEW T, Calm(v, T)
  PROVE  StoreTypeOK' /\ LedgerInv' /\ CancelWins'
<1>1. [LedgerNext]_storeVars /\ RunningIsShown'
  BY DEF Calm
<1>2. StoreTypeOK'
  BY <1>1, TypeStep DEF Inv, TypeInv, TypeOK
<1>3. LeaseShape' /\ AttemptFencing' /\ RunningNodeHasAttempt'
  BY <1>1, <1>2, ShapeStep, FencingStep, RunningStep DEF Inv, TypeInv, TypeOK, LedgerInv
<1>4. CancelWins'
  BY DEF Calm, CancelRow, CancelWins, Inv, CallInv
<1> QED BY <1>1, <1>2, <1>3, <1>4 DEF LedgerInv

\* The other variables keep their types, and the worker what it knows.
LEMMA TypesKept ==
  ASSUME Inv, StoreTypeOK', NEW w, NEW q \in WorkerState, Goes(w, q),
         w \in Worker => WorkerOK(q, setting),
         UNCHANGED setting, lock' \in [owner : Worker \cup {None}, live : BOOLEAN],
         submission' \in [Task -> {"none", "created", "bound", "done"}],
         applied' \in [Task -> [Operation -> Nat]]
  PROVE  TypeInv'
<1>1. worker' \in [Worker -> WorkerState]
  BY DEF Goes, Inv, TypeInv, TypeOK
<1>2. \A u \in Worker : WorkerOK(worker'[u], setting)
  BY DEF Goes, Inv, TypeInv, TypeOK, WorkersOK
<1>3. WorkersOK'
  BY <1>2 DEF WorkersOK
<1>4. TypeOK'
  BY <1>1 DEF TypeOK, Inv, TypeInv
<1> QED BY <1>3, <1>4 DEF TypeInv

\* Calls keep their nodes and their tasks.
LEMMA CallsKept ==
  ASSUME Inv, NEW w \in Worker \cup {None}, NEW v \in {w, None}, NEW T, Calm(v, T),
         NEW q \in WorkerState, Goes(w, q),
         w \in Worker => WorkerOK(q, setting) /\ CallKept(w, v, worker[w], q),
         w \in Worker => TaskKept(worker[w], q),
         UNCHANGED setting, UsersKept(T)
  PROVE  SideCalls' /\ OneCaller' /\ SubmissionOK' /\ QueueOK'
<1> USE ConstantsAssumption DEF Worker
<1>1. /\ worker \in [Worker -> WorkerState]
      /\ \A u \in Worker : u # w => worker'[u] = worker[u]
      /\ w \in Worker => worker'[w] = q
      /\ \A u \in Worker : WorkerOK(worker[u], setting)
  BY DEF Goes, Inv, TypeInv, TypeOK, WorkersOK
<1>2. \A u \in Worker : SideCall(worker[u]) =>
        worker[u].task \in Task /\ worker[u].token \in Nat /\ worker[u].node \in SideEffect
          /\ Exists(worker[u].task)
  BY <1>1 DEF SideCall, InCall, Engaged, WorkerOK, Inv, CallInv, SubmissionOK
<1>3. ASSUME NEW u \in Worker, SideCall(worker'[u])
      PROVE  \/ /\ SideCall(worker[u]) /\ worker'[u].task = worker[u].task
                /\ worker'[u].token = worker[u].token /\ worker'[u].node = worker[u].node
                /\ v # u
             \/ u = w /\ Joins(w, q) /\ worker'[u] = q
  BY <1>1, <1>3 DEF CallKept
<1>4. SideCalls'
  <2> SUFFICES ASSUME NEW u \in Worker, SideCall(worker'[u])
               PROVE  \/ /\ task'[worker'[u].task].owner = u
                         /\ task'[worker'[u].task].token = worker'[u].token
                         /\ node'[worker'[u].task][worker'[u].node] = "running"
                      \/ node'[worker'[u].task][worker'[u].node] = "unknown"
    BY DEF SideCalls, HoldsNode
  <2>1. CASE u = w /\ Joins(w, q) /\ worker'[u] = q
    BY <2>1 DEF Joins
  <2>2. CASE /\ SideCall(worker[u]) /\ worker'[u].task = worker[u].task
             /\ worker'[u].token = worker[u].token /\ worker'[u].node = worker[u].node
             /\ v # u
    <3>1. HoldsNode(u, worker[u].token, worker[u].task, worker[u].node)
      BY <2>2 DEF Inv, CallInv, SideCalls
    <3>2. \A t \in Task, n \in SideEffect, k \in Nat :
            Exists(t) /\ HoldsNode(u, k, t, n) => HoldsNode(u, k, t, n)'
      BY <2>2 DEF Calm
    <3>3. \A t \in Task, n \in SideEffect, k \in Nat :
            Exists(t) /\ HoldsNode(u, k, t, n) =>
              \/ task'[t].owner = u /\ task'[t].token = k /\ node'[t][n] = "running"
              \/ node'[t][n] = "unknown"
      BY <3>2 DEF HoldsNode
    <3> QED BY <1>2, <2>2, <3>1, <3>3
  <2> QED BY <1>3, <2>1, <2>2
<1>5. OneCaller'
  <2> SUFFICES ASSUME NEW u \in Worker, NEW x \in Worker, SameCall(worker'[u], worker'[x])
               PROVE  u = x
    BY DEF OneCaller
  <2>1. /\ SideCall(worker'[u]) /\ SideCall(worker'[x])
        /\ worker'[u].task = worker'[x].task /\ worker'[u].node = worker'[x].node
    BY DEF SameCall
  <2>2. CASE u # x
    BY <1>1, <1>3, <2>1, <2>2 DEF SameCall, Joins, Inv, CallInv, OneCaller
  <2> QED BY <2>2
<1>6. SubmissionOK'
  <2>1. \A t \in Task : Exists(t)' => t \in setting.tasks
    BY DEF Calm, CalmRow, UsersKept, Exists, Inv, CallInv, SubmissionOK
  <2>2. ~setting.early =>
          \A t \in Task : submission'[t] # "done" => task'[t].status \in {"absent", "paused"}
    BY DEF Calm, CalmRow, UsersKept, Inv, CallInv, SubmissionOK
  <2>3. \A t \in Task : Exists(t) => Exists(t)'
    BY DEF Calm, CancelRow, Exists
  <2>4. ~setting.early => \A t \in Task : submission[t] = "done" => submission'[t] = "done"
    BY DEF UsersKept
  <2>5. ASSUME NEW u \in Worker, Engaged(worker'[u])
        PROVE  /\ worker'[u].task \in Task /\ Exists(worker'[u].task)
               /\ ~setting.early => submission[worker'[u].task] = "done"
    <3>1. CASE u # w
      BY <1>1, <2>5, <3>1 DEF Inv, CallInv, SubmissionOK, WorkerOK
    <3>2. CASE u = w
      <4>1. CASE Engaged(worker[u]) /\ q.task = worker[u].task
        BY <1>1, <3>2, <4>1 DEF Inv, CallInv, SubmissionOK, WorkerOK
      <4>2. CASE q.task \in Task /\ task[q.task].status \notin {"absent", "paused"}
        BY <1>1, <3>2, <4>2 DEF Inv, CallInv, SubmissionOK, Exists
      <4> QED BY <1>1, <2>5, <3>2, <4>1, <4>2 DEF TaskKept
    <3> QED BY <3>1, <3>2
  <2>6. \A u \in Worker : Engaged(worker'[u]) =>
          /\ task'[worker'[u].task].status # "absent"
          /\ ~setting.early => submission'[worker'[u].task] = "done"
    <3>1. \A t \in Task : Exists(t) => task'[t].status # "absent"
      BY <2>3 DEF Exists
    <3> QED BY <2>4, <2>5, <3>1
  <2> QED BY <2>1, <2>2, <2>6 DEF SubmissionOK, Exists
<1>7. QueueOK'
  <2> SUFFICES ASSUME ~setting.early, NEW u \in Worker, SideCall(worker'[u])
               PROVE  task'[worker'[u].task].status # "queued"
    BY DEF QueueOK
  <2>1. CASE u = w /\ Joins(w, q) /\ worker'[u] = q
    BY <2>1 DEF Joins
  <2>2. CASE SideCall(worker[u]) /\ worker'[u].task = worker[u].task
    <3>1. worker[u].task \in Task /\ task[worker[u].task].status # "queued"
      BY <1>2, <2>2 DEF Inv, CallInv, QueueOK
    <3>2. \A t \in Task \ T : task[t].status # "queued" => task'[t].status # "queued"
      BY DEF Calm, CalmRow
    <3>3. worker[u].task \in T => task'[worker[u].task].status # "queued"
      BY <2>2 DEF UsersKept
    <3> QED BY <2>2, <3>1, <3>2, <3>3
  <2> QED BY <1>3, <2>1, <2>2
<1> QED BY <1>4, <1>5, <1>6, <1>7

\* The journal keeps its invariant when it is not written.
LEMMA JournalStays ==
  ASSUME Inv, JournalInv, NEW w \in Worker \cup {None}, NEW q \in WorkerState, Goes(w, q),
         w \in Worker => JournalKept(worker[w], q), UNCHANGED <<effect, applied>>
  PROVE  JournalInv'
<1>1. /\ worker \in [Worker -> WorkerState] /\ None \notin Worker
      /\ \A u \in Worker : u # w => worker'[u] = worker[u]
      /\ w \in Worker => worker'[w] = q
  BY ConstantsAssumption DEF Goes, Inv, TypeInv, TypeOK, Worker
<1>2. ASSUME NEW u \in Worker, Calling(worker'[u])
      PROVE  /\ Calling(worker[u]) /\ SameOp(worker[u], worker'[u])
             /\ Done(worker[u]) => Done(worker'[u])
  BY <1>1, <1>2 DEF JournalKept, SameOp
<1>3. \A t \in Task, x \in Operation : EffectAdmits(effect[t][x]) =>
        effect[t][x] \in {"absent", "failed"}
  BY DEF JournalInv, JournalOK, EffectAdmits, EffectRefused
<1>4. ASSUME NEW u \in Worker, worker'[u].stage = "dispatch", worker'[u].saw # "absent"
      PROVE  worker'[u].saw = "failed" /\ effect[worker'[u].task][OpOf(worker'[u])] = "failed"
  <2>1. CASE /\ worker[u].stage = "dispatch" /\ SameOp(worker[u], worker'[u])
             /\ worker'[u].saw = worker[u].saw
    BY <1>4, <2>1 DEF JournalInv, JournalOK, SameOp
  <2>2. CASE /\ worker'[u].saw = effect[worker'[u].task][OpOf(worker'[u])]
             /\ EffectAdmits(worker'[u].saw) /\ worker'[u].task \in Task
             /\ OpOf(worker'[u]) \in Operation
    BY <1>3, <1>4, <2>2
  <2> QED BY <1>1, <1>4, <2>1, <2>2 DEF JournalKept, SameOp
<1>5. \A u \in Worker : Calling(worker'[u]) => effect[worker'[u].task][OpOf(worker'[u])] = "dispatched"
  BY <1>2 DEF JournalInv, JournalOK, SameOp
<1>6. \A u, x \in Worker :
        Calling(worker'[u]) /\ Calling(worker'[x]) /\ SameOp(worker'[u], worker'[x]) => u = x
  BY <1>2 DEF JournalInv, JournalOK, SameOp
<1>7. JournalOK'
  <2>1. \A t \in Task, x \in Operation :
          effect'[t][x] \in {"absent", "dispatched", "committed", "failed", "unknown"}
    BY DEF JournalInv, JournalOK
  <2>2. \A t \in Task : effect'[t][Direct] # "failed"
    BY DEF JournalInv, JournalOK
  <2>3. \A u \in Worker :
          /\ (Calling(worker[u]))' <=> Calling(worker'[u])
          /\ (OpOf(worker[u]))' = OpOf(worker'[u])
    BY DEF Calling, OpOf
  <2>4. \A u, x \in Worker : (SameOp(worker[u], worker[x]))' <=> SameOp(worker'[u], worker'[x])
    BY DEF SameOp, OpOf
  <2> QED BY <1>4, <1>5, <1>6, <2>1, <2>2, <2>3, <2>4 DEF JournalOK
<1>8. AppliedOK'
  <2> SUFFICES ASSUME NEW t \in Task, NEW x \in Operation, applied[t][x] # 0
               PROVE  /\ applied[t][x] = 1
                      /\ effect[t][x] \in {"dispatched", "committed", "unknown"}
                      /\ \A u \in Worker :
                           Calling(worker'[u]) /\ worker'[u].task = t /\ OpOf(worker'[u]) = x
                             => Done(worker'[u])
    BY DEF AppliedOK, Calling, OpOf, Done
  <2> QED BY <1>2 DEF JournalInv, AppliedOK, SameOp
<1> QED BY <1>7, <1>8 DEF JournalInv

\* Every step of the service keeps the invariant, and is on the tables a step of
\* the ledger's most general client.
InvStep == Inv' /\ [LedgerNext]_storeVars

\* What all parts of the invariant need of a step that does not write the journal.
LEMMA InvKept ==
  ASSUME Inv, NEW w \in Worker \cup {None}, NEW v \in {w, None}, NEW T, Calm(v, T),
         NEW q \in WorkerState, Goes(w, q),
         w \in Worker => WorkerOK(q, setting) /\ CallKept(w, v, worker[w], q),
         w \in Worker => TaskKept(worker[w], q) /\ JournalKept(worker[w], q),
         UsersKept(T), UNCHANGED <<effect, applied, setting>>,
         lock' \in [owner : Worker \cup {None}, live : BOOLEAN]
  PROVE  InvStep
<1>1. StoreTypeOK' /\ LedgerInv' /\ CancelWins'
  BY TablesKept
<1>2. TypeInv'
  BY <1>1, TypesKept DEF Inv, TypeInv, TypeOK, UsersKept
<1>3. SideCalls' /\ OneCaller' /\ SubmissionOK' /\ QueueOK'
  BY CallsKept
<1>4. DirectCallsNeverFail => JournalInv'
  BY JournalStays DEF Inv
<1> QED BY <1>1, <1>2, <1>3, <1>4 DEF Inv, CallInv, DirectCallsNeverFail, InvStep, Calm

-----------------------------------------------------------------------------
(* Steps of a worker.                                                      *)

\* What the invariant says of one worker.
LEMMA WorkerFacts ==
  ASSUME Inv, NEW w \in Worker
  PROVE  /\ worker \in [Worker -> WorkerState] /\ worker[w] \in WorkerState
         /\ WorkerOK(worker[w], setting) /\ setting \in Settings
         /\ lock \in [owner : Worker \cup {None}, live : BOOLEAN]
         /\ Engaged(worker[w]) => /\ worker[w].task \in Task /\ worker[w].token \in 0..MaxToken
                                  /\ Exists(worker[w].task)
BY DEF Inv, TypeInv, TypeOK, WorkersOK, CallInv, SubmissionOK, WorkerOK

\* A step that does not write the journal and leaves the submissions alone.
LEMMA WorkerStep ==
  ASSUME Inv, NEW w \in Worker, NEW v \in {w, None}, Calm(v, {}), NEW q \in WorkerState, Goes(w, q),
         WorkerOK(q, setting), CallKept(w, v, worker[w], q),
         TaskKept(worker[w], q), JournalKept(worker[w], q),
         UNCHANGED <<effect, submission, applied, setting>>,
         lock' \in [owner : Worker \cup {None}, live : BOOLEAN]
  PROVE  InvStep
<1>1. UsersKept({})
  BY DEF UsersKept, Inv, TypeInv, TypeOK
<1> QED BY <1>1, InvKept

\* One after which the worker is in no call.
LEMMA OutsideStep ==
  ASSUME Inv, NEW w \in Worker, NEW v \in {w, None}, Calm(v, {}), NEW q \in WorkerState, Goes(w, q),
         WorkerOK(q, setting), q.stage \notin InCall, TaskKept(worker[w], q),
         UNCHANGED <<effect, submission, applied, setting>>,
         lock' \in [owner : Worker \cup {None}, live : BOOLEAN]
  PROVE  InvStep
<1>1. ~SideCall(q) /\ ~Calling(q) /\ q.stage # "dispatch"
  BY DEF SideCall, Calling, InCall
<1>2. CallKept(w, v, worker[w], q) /\ JournalKept(worker[w], q)
  BY <1>1 DEF CallKept, JournalKept
<1> QED BY <1>2, WorkerStep

\* The end of a run, and of a process.
LEMMA EndStep ==
  ASSUME Inv, NEW w \in Worker, NEW v \in {w, None}, Calm(v, {}),
         Leave(w) \/ Goes(w, Gone),
         UNCHANGED <<effect, submission, applied, setting>>,
         lock' \in [owner : Worker \cup {None}, live : BOOLEAN]
  PROVE  InvStep
<1> DEFINE p == worker[w]
<1>1. p \in WorkerState
  BY WorkerFacts
<1>2. PICK q \in {Left(p), Gone} : Goes(w, q)
  BY DEF Leave, Goes, Left
<1>3. q \in WorkerState /\ q.stage \in {"idle", "dead"} /\ q.node = None /\ q.beat = "off"
  BY <1>1, <1>2, IdleRows
<1>4. WorkerOK(q, setting) /\ TaskKept(p, q) /\ q.stage \notin InCall
  BY <1>3 DEF WorkerOK, TaskKept, Engaged, InCall
<1> QED BY <1>2, <1>3, <1>4, OutsideStep

\* A move to a stage outside a call, with the outcome that the next write takes.
LEMMA StageStep ==
  ASSUME Inv, NEW w \in Worker, NEW v \in {w, None}, Calm(v, {}),
         NEW s \in {"expire", "claim", "deadline", "plan", "step", "start", "settle", "finish",
                    "fail", "abort"},
         \/ Goto(w, s) /\ (s \in {"settle", "finish", "abort"} => worker[w].outcome \in EndsWith)
         \/ \E o \in EndsWith : GotoWith(w, s, o),
         s \in {"expire", "claim"} <=> ~Engaged(worker[w]),
         s = "deadline" => worker[w].node = None, s = "start" => worker[w].node # None,
         UNCHANGED <<effect, submission, applied, setting>>,
         lock' \in [owner : Worker \cup {None}, live : BOOLEAN]
  PROVE  InvStep
<1> DEFINE p == worker[w]
<1>1. p \in WorkerState /\ WorkerOK(p, setting) /\ s \in Stage /\ EndsWith \subseteq Outcome
  BY WorkerFacts DEF Stage, EndsWith, Outcome
<1>2. PICK q \in WorkerState : /\ Goes(w, q) /\ Moved(p, q, s)
                               /\ s \in {"settle", "finish", "abort"} => q.outcome \in EndsWith
  <2>1. CASE Goto(w, s) /\ (s \in {"settle", "finish", "abort"} => worker[w].outcome \in EndsWith)
    <3>1. Goes(w, To(p, s))
      BY <2>1 DEF Goto, Goes, To
    <3>2. "none" \in Outcome
      BY DEF Outcome
    <3>3. Moved(p, To(p, s), s) /\ To(p, s).outcome = p.outcome
      BY <1>1, <3>2, MovedRows
    <3> QED BY <2>1, <3>1, <3>3 DEF Moved
  <2>2. CASE \E o \in EndsWith : GotoWith(w, s, o)
    <3>1. PICK o \in EndsWith : GotoWith(w, s, o)
      BY <2>2
    <3>2. Goes(w, ToWith(p, s, o))
      BY <3>1 DEF GotoWith, Goes, ToWith
    <3>3. Moved(p, ToWith(p, s, o), s) /\ ToWith(p, s, o).outcome = o
      BY <1>1, <3>1, MovedRows
    <3> QED BY <3>1, <3>2, <3>3 DEF Moved
  <2> QED BY <2>1, <2>2
<1>3. WorkerOK(q, setting)
  BY <1>1, <1>2 DEF WorkerOK, Moved, Engaged, InCall
<1>4. TaskKept(p, q) /\ q.stage \notin InCall
  BY <1>2 DEF TaskKept, Moved, Engaged, InCall
<1> QED BY <1>2, <1>3, <1>4, OutsideStep

\* The lock is taken, leases expire.
LEMMA AcquireLockKept == ASSUME Inv, NEW w \in Worker, AcquireLock(w) PROVE InvStep
<1>1. Calm(None, {}) /\ ~Engaged(worker[w])
  BY CalmNothing DEF AcquireLock, Ledger, storeVars, At, Engaged
<1>2. Goto(w, "expire") /\ UNCHANGED <<effect, submission, applied, setting>>
  BY DEF AcquireLock, Ledger, storeVars
<1>3. lock' \in [owner : Worker \cup {None}, live : BOOLEAN]
  BY DEF AcquireLock
<1> QED BY <1>1, <1>2, <1>3, StageStep

\* Lapsed leases are reclaimed before the queue is read.
LEMMA ReclaimLeasesKept == ASSUME Inv, NEW w \in Worker, ReclaimLeases(w) PROVE InvStep
<1>1. Calm(w, {}) /\ UNCHANGED effect
  <2>1. CASE ExpireLeases
    BY <2>1, ExpireCalm DEF ExpireLeases
  <2>2. CASE Ledger
    BY <2>2, CalmNothing DEF Ledger, storeVars
  <2> QED BY <2>1, <2>2 DEF ReclaimLeases
<1>2. /\ Goto(w, "claim") /\ UNCHANGED <<lock, submission, applied, setting>>
      /\ ~Engaged(worker[w])
  BY DEF ReclaimLeases, Outside, At, Engaged
<1> QED BY <1>1, <1>2, StageStep, WorkerFacts

\* A claim: the task was queued, so its submission is complete.
LEMMA ClaimTaskKept == ASSUME Inv, NEW w \in Worker, ClaimTask(w) PROVE InvStep
<1> DEFINE p == worker[w]
<1>1. UNCHANGED <<lock, submission, applied, setting>> /\ p.stage = "claim"
  BY DEF ClaimTask, Outside, At
<1>2. p \in WorkerState /\ WorkerOK(p, setting) /\ lock' \in [owner : Worker \cup {None}, live : BOOLEAN]
  BY <1>1, WorkerFacts
<1>3. CASE ClaimNothing /\ Leave(w)
  <2>1. UNCHANGED effect
    BY <1>3 DEF ClaimNothing
  <2> QED BY <1>1, <1>2, <1>3, <2>1, ExpireCalm, EndStep
<1>4. CASE \E t \in Task :
             /\ ClaimHead(t, w)
             /\ worker' = [worker EXCEPT ![w].stage = "describe", ![w].task = t,
                                         ![w].token = task'[t].token]
  <2>1. PICK t \in Task :
          /\ ClaimHead(t, w)
          /\ worker' = [worker EXCEPT ![w].stage = "describe", ![w].task = t,
                                      ![w].token = task'[t].token]
    BY <1>4
  <2>2. /\ Calm(w, {}) /\ UNCHANGED effect
        /\ task[t].status \in {"queued", "retry_wait"} /\ task'[t].token \in 0..MaxToken
    BY <2>1, ClaimCalm DEF ClaimHead, Take
  <2>3. PICK k \in 0..MaxToken : k = task'[t].token
    BY <2>2
  <2> DEFINE q == ToTask(p, t, k)
  <2>4. Goes(w, q)
    BY <2>1, <2>3 DEF Goes, ToTask
  <2>5. q \in WorkerState /\ q.stage = "describe" /\ q.task = t /\ q.token = k /\ q.node = p.node
    BY <1>2, <2>3, StartRows, ConstantsAssumption
  <2> HIDE DEF q
  <2>6. WorkerOK(q, setting) /\ q.stage \notin InCall /\ TaskKept(p, q)
    BY <1>1, <1>2, <2>2, <2>5 DEF WorkerOK, Engaged, InCall, TaskKept
  <2> QED BY <1>1, <1>2, <2>2, <2>4, <2>5, <2>6, OutsideStep
<1> QED BY <1>3, <1>4 DEF ClaimTask

\* From the claim to the handler.
LEMMA DescribeKept == ASSUME Inv, NEW w \in Worker, Describe(w) PROVE InvStep
<1> DEFINE t == worker[w].task
           k == worker[w].token
<1>1. /\ UNCHANGED <<lock, submission, applied, setting>> /\ worker[w].stage = "describe"
      /\ Engaged(worker[w])
  BY DEF Describe, Outside, At, Engaged
<1>2. /\ t \in Task /\ k \in 0..MaxToken /\ worker[w].node = None
      /\ lock' \in [owner : Worker \cup {None}, live : BOOLEAN]
  BY <1>1, WorkerFacts DEF WorkerOK
<1>3. CASE Goto(w, "deadline") /\ Ledger
  BY <1>1, <1>2, <1>3, CalmNothing, StageStep DEF Ledger, storeVars
<1>4. CASE FinishWorkerTask(t, "recovery_required", FALSE, w, k) /\ Leave(w)
  <2>1. Calm(w, {}) /\ UNCHANGED effect
    BY <1>2, <1>4, FinishCalm DEF EndsWith, FinishWorkerTask
  <2> QED BY <1>1, <1>2, <1>4, <2>1, EndStep
<1>5. CASE Ledger /\ Leave(w)
  BY <1>1, <1>2, <1>5, CalmNothing, EndStep DEF Ledger, storeVars
<1> QED BY <1>3, <1>4, <1>5 DEF Describe

\* The deadline is written under the lease, and the heartbeat starts.
LEMMA StartRunKept == ASSUME Inv, NEW w \in Worker, StartRun(w) PROVE InvStep
<1> DEFINE p == worker[w]
           q == ToEnter(p)
<1>1. /\ UNCHANGED <<lock, submission, applied, setting>> /\ p.stage = "deadline" /\ Engaged(p)
  BY DEF StartRun, Outside, At, Engaged
<1>2. /\ p \in WorkerState /\ WorkerOK(p, setting)
      /\ p.task \in Task /\ p.token \in 0..MaxToken /\ p.node = None
      /\ lock' \in [owner : Worker \cup {None}, live : BOOLEAN]
  BY <1>1, WorkerFacts DEF WorkerOK
<1>3. CASE /\ SetDeadline(p.task, w, p.token)
           /\ worker' = [worker EXCEPT ![w].stage = "enter", ![w].beat = "poll"]
  <2>1. Calm(None, {}) /\ UNCHANGED effect
    BY <1>2, <1>3, FieldCalm DEF Worker, SetDeadline
  <2>2. Goes(w, q)
    BY <1>3 DEF Goes, ToEnter
  <2>3. /\ q \in WorkerState /\ q.stage = "enter" /\ q.task = p.task /\ q.token = p.token
        /\ q.node = p.node
  <3>1. q \in WorkerState
    BY <1>2 DEF ToEnter, WorkerState, Stage
  <3> QED BY <1>2, <3>1 DEF ToEnter, WorkerState
  <2> HIDE DEF q
  <2>4. WorkerOK(q, setting) /\ q.stage \notin InCall /\ TaskKept(p, q)
    BY <1>1, <1>2, <2>3 DEF WorkerOK, Engaged, InCall, TaskKept
  <2> QED BY <1>1, <1>2, <2>1, <2>2, <2>3, <2>4, OutsideStep
<1>4. CASE Leave(w) /\ Ledger
  BY <1>1, <1>2, <1>4, CalmNothing, EndStep DEF Ledger, storeVars
<1> QED BY <1>3, <1>4 DEF StartRun

\* The plan is stored, or what is left of it is inspected.
LEMMA LoadPlanKept == ASSUME Inv, NEW w \in Worker, LoadPlan(w) PROVE InvStep
<1> DEFINE t == worker[w].task
           k == worker[w].token
<1>1. /\ UNCHANGED <<lock, submission, applied, setting>> /\ worker[w].stage = "plan"
      /\ Engaged(worker[w])
  BY DEF LoadPlan, Outside, At, Engaged
<1>2. /\ t \in Task /\ k \in 0..MaxToken /\ setting.nodes \subseteq Node
      /\ lock' \in [owner : Worker \cup {None}, live : BOOLEAN]
  BY <1>1, WorkerFacts, SettingFacts
<1>3. CASE SavePlan(t, setting.nodes, w, k) /\ Goto(w, "step")
  <2>1. Calm(w, {}) /\ UNCHANGED effect
    BY <1>2, <1>3, PlanCalm DEF SavePlan
  <2> QED BY <1>1, <1>2, <1>3, <2>1, StageStep
<1>4. CASE Ledger /\ Leave(w)
  BY <1>1, <1>2, <1>4, CalmNothing, EndStep DEF Ledger, storeVars
<1>5. CASE Ledger /\ GotoWith(w, "settle", "recovery_required")
  <2>1. "recovery_required" \in EndsWith
    BY DEF EndsWith
  <2> QED BY <1>1, <1>2, <1>5, <2>1, CalmNothing, StageStep DEF Ledger, storeVars
<1>6. CASE Ledger /\ Goto(w, "step")
  BY <1>1, <1>2, <1>6, CalmNothing, StageStep DEF Ledger, storeVars
<1> QED BY <1>3, <1>4, <1>5, <1>6 DEF LoadPlan

\* What a stop makes of the run.
LEMMA StopFacts ==
  ASSUME NEW w \in Worker
  PROVE  StopStatus(w) \in {"cancelled", "paused", "failed"}
BY DEF StopStatus

\* A worker that goes on to another stage while the tables stay as they are.
LEMMA LocalStep ==
  ASSUME Inv, NEW w \in Worker, Ledger, Outside, Engaged(worker[w]),
         NEW s \in {"plan", "step", "start", "settle", "finish", "fail", "abort"},
         \/ Goto(w, s) /\ (s \in {"settle", "finish", "abort"} => worker[w].outcome \in EndsWith)
         \/ \E o \in EndsWith : GotoWith(w, s, o),
         s = "start" => worker[w].node # None
  PROVE  InvStep
<1>1. Calm(None, {}) /\ UNCHANGED <<effect, lock, submission, applied, setting>>
  BY CalmNothing DEF Ledger, storeVars, Outside
<1> QED BY <1>1, StageStep, WorkerFacts

\* The supervisor stops, is done, or picks another node of the plan.
LEMMA PickNodeKept == ASSUME Inv, NEW w \in Worker, PickNode(w) PROVE InvStep
<1> DEFINE p == worker[w]
<1>1. Ledger /\ Outside /\ p.stage = "step" /\ Engaged(p)
  BY DEF PickNode, At, Engaged
<1>2. CASE GotoWith(w, "settle", StopStatus(w)) \/ GotoWith(w, "settle", "succeeded")
  <2>1. \E o \in EndsWith : GotoWith(w, "settle", o)
    BY <1>2, StopFacts DEF EndsWith
  <2> QED BY <1>1, <2>1, LocalStep
<1>3. CASE \E n \in setting.nodes :
             worker' = [worker EXCEPT ![w].stage = "start", ![w].node = n]
  <2>1. PICK n \in setting.nodes : worker' = [worker EXCEPT ![w].stage = "start", ![w].node = n]
    BY <1>3
  <2>2. /\ p \in WorkerState /\ WorkerOK(p, setting) /\ n \in Node
        /\ p.task \in Task /\ p.token \in 0..MaxToken
    BY <1>1, WorkerFacts, SettingFacts
  <2> DEFINE q == ToNode(p, n)
  <2>3. Goes(w, q)
    BY <2>1 DEF Goes, ToNode
  <2>4. /\ q \in WorkerState /\ q.stage = "start" /\ q.task = p.task /\ q.token = p.token
        /\ q.node = n
    <3>1. 0 \in Nat
      OBVIOUS
    <3> QED BY <2>2, <3>1, NodeRows
  <2> HIDE DEF q
  <2>5. n # None
    BY <2>2, ServiceAssumption
  <2>6. WorkerOK(q, setting) /\ q.stage \notin InCall /\ TaskKept(p, q)
    BY <1>1, <2>2, <2>4, <2>5 DEF WorkerOK, Engaged, InCall, TaskKept
  <2>7. Calm(None, {}) /\ UNCHANGED <<effect, lock, submission, applied, setting>>
    BY <1>1, CalmNothing DEF Ledger, storeVars, Outside
  <2> QED BY <1>1, <2>3, <2>4, <2>6, <2>7, OutsideStep, WorkerFacts
<1> QED BY <1>2, <1>3 DEF PickNode

-----------------------------------------------------------------------------
(* Calls.                                                                  *)

\* A call that is over, whatever it comes to.
LEMMA AfterCallGoes ==
  ASSUME Inv, NEW w \in Worker, worker[w].stage \in InCall, NEW o \in CallEnds, AfterCall(w, o)
  PROVE  \E q \in WorkerState :
           /\ Goes(w, q) /\ WorkerOK(q, setting)
           /\ CallKept(w, None, worker[w], q) /\ TaskKept(worker[w], q)
           /\ ~Calling(q) /\ q.stage # "dispatch"
<1> DEFINE p == worker[w]
           s == IF p.node # None THEN "report"
                ELSE IF o \in {"cancelled", "paused"} THEN "abort" ELSE "settle"
           e == IF p.node # None \/ o \in {"cancelled", "paused", "succeeded"} THEN o ELSE "failed"
           q == ToWith(p, s, e)
<1>1. /\ p \in WorkerState /\ WorkerOK(p, setting) /\ Engaged(p)
      /\ s \in Stage /\ e \in CallEnds /\ e \in Outcome
      /\ s \in {"abort", "settle"} => e \in EndsWith
      /\ s \in {"report", "abort", "settle"} /\ (s = "report" <=> p.node # None)
  BY WorkerFacts DEF InCall, Engaged, Stage, CallEnds, EndsWith, Outcome
<1>2. Goes(w, q)
  BY DEF AfterCall, GotoWith, Goes, ToWith
<1>3. Moved(p, q, s) /\ q.outcome = e
  BY <1>1, MovedRows
<1> HIDE DEF q, s, e
<1>4. WorkerOK(q, setting)
  BY <1>1, <1>3 DEF WorkerOK, Moved, Engaged, InCall
<1>5. CallKept(w, None, p, q) /\ TaskKept(p, q) /\ ~Calling(q) /\ q.stage # "dispatch"
  BY <1>1, <1>3 DEF CallKept, SideCall, TaskKept, Moved, Calling
<1> QED BY <1>2, <1>3, <1>4, <1>5 DEF Moved

\* A step of a worker that writes nothing but its own state.
LEMMA LocalCallStep ==
  ASSUME Inv, NEW w \in Worker, Ledger, Outside, NEW q \in WorkerState, Goes(w, q),
         WorkerOK(q, setting), CallKept(w, None, worker[w], q), TaskKept(worker[w], q),
         JournalKept(worker[w], q)
  PROVE  InvStep
<1>1. Calm(None, {}) /\ UNCHANGED <<effect, lock, submission, applied, setting>>
  BY CalmNothing DEF Ledger, storeVars, Outside
<1> QED BY <1>1, WorkerStep, WorkerFacts

\* The same when nothing but the worker changes.
LEMMA AfterCallStep ==
  ASSUME Inv, NEW w \in Worker, worker[w].stage \in InCall, NEW o \in CallEnds, AfterCall(w, o),
         Ledger, Outside
  PROVE  InvStep
<1>1. PICK q \in WorkerState :
        /\ Goes(w, q) /\ WorkerOK(q, setting)
        /\ CallKept(w, None, worker[w], q) /\ TaskKept(worker[w], q)
        /\ ~Calling(q) /\ q.stage # "dispatch"
  BY AfterCallGoes
<1>2. JournalKept(worker[w], q)
  BY <1>1 DEF JournalKept
<1> QED BY <1>1, <1>2, LocalCallStep

\* The handler is entered: a task without a plan goes straight to its call.
LEMMA EnterHandlerKept == ASSUME Inv, NEW w \in Worker, EnterHandler(w) PROVE InvStep
<1> DEFINE p == worker[w]
           q == To(p, "call")
<1>1. /\ Ledger /\ Outside /\ p.stage = "enter" /\ Engaged(p)
      /\ p \in WorkerState /\ WorkerOK(p, setting)
  BY WorkerFacts DEF EnterHandler, At, Engaged
<1>2. CASE Goto(w, "plan")
  BY <1>1, <1>2, LocalStep
<1>3. CASE GotoWith(w, "abort", StopStatus(w))
  <2>1. \E o \in EndsWith : GotoWith(w, "abort", o)
    BY <1>3, StopFacts DEF EndsWith
  <2> QED BY <1>1, <2>1, LocalStep
<1>4. CASE Goto(w, "call") /\ p.task \notin setting.planned
  <2>1. Goes(w, q)
    BY <1>4 DEF Goto, Goes, To
  <2>2. Moved(p, q, "call")
    <3>1. "call" \in Stage /\ "none" \in Outcome
      BY DEF Stage, Outcome
    <3> QED BY <1>1, <3>1, MovedRows
  <2> HIDE DEF q
  <2>3. p.node = None /\ None \notin SideEffect
    BY <1>1, ConstantsAssumption, ServiceAssumption DEF WorkerOK
  <2>4. WorkerOK(q, setting)
    BY <1>1, <1>4, <2>2, <2>3 DEF WorkerOK, Moved, Engaged, InCall
  <2>5. CallKept(w, None, p, q) /\ TaskKept(p, q) /\ JournalKept(p, q)
    BY <1>1, <2>2, <2>3 DEF CallKept, SideCall, TaskKept, JournalKept, Moved, Calling
  <2> QED BY <1>1, <2>1, <2>2, <2>4, <2>5, LocalCallStep DEF Moved
<1> QED BY <1>2, <1>3, <1>4 DEF EnterHandler

\* The control flags are read before the call.
LEMMA CheckCallKept == ASSUME Inv, NEW w \in Worker, CheckCall(w) PROVE InvStep
<1> DEFINE p == worker[w]
<1>1. /\ Ledger /\ Outside /\ p.stage = "call" /\ p.stage \in InCall /\ Engaged(p)
      /\ p \in WorkerState /\ WorkerOK(p, setting)
  BY WorkerFacts DEF CheckCall, At, Engaged, InCall
<1>2. CASE AfterCall(w, StopStatus(w))
  <2>1. StopStatus(w) \in CallEnds
    BY StopFacts DEF CallEnds
  <2> QED BY <1>1, <1>2, <2>1, AfterCallStep
<1>3. CASE Goto(w, IF Op(w) \in Operation THEN "select" ELSE "apply")
  <2>1. PICK s \in {"select", "apply"} : Goto(w, s) /\ (s = "select" <=> OpOf(p) \in Operation)
    BY <1>3 DEF Op, OpOf
  <2> DEFINE q == To(p, s)
  <2>2. Goes(w, q)
    BY <2>1 DEF Goto, Goes, To
  <2>3. Moved(p, q, s)
    <3>1. s \in Stage /\ "none" \in Outcome
      BY <2>1 DEF Stage, Outcome
    <3> QED BY <1>1, <3>1, MovedRows
  <2> HIDE DEF q
  <2>4. OpOf(q) = OpOf(p)
    BY <2>3 DEF Moved, OpOf
  <2>5. WorkerOK(q, setting)
    BY <1>1, <2>1, <2>3, <2>4 DEF WorkerOK, Moved, Engaged, InCall
  <2>6. CallKept(w, None, p, q) /\ TaskKept(p, q) /\ JournalKept(p, q)
    BY <1>1, <2>1, <2>3, <2>4 DEF CallKept, SideCall, InCall, TaskKept, JournalKept, Moved, Calling
  <2> QED BY <1>1, <2>2, <2>3, <2>5, <2>6, LocalCallStep DEF Moved
<1> QED BY <1>2, <1>3 DEF CheckCall

\* The journal is read.
LEMMA SelectEffectKept == ASSUME Inv, NEW w \in Worker, SelectEffect(w) PROVE InvStep
<1> DEFINE p == worker[w]
           x == effect[p.task][OpOf(p)]
           q == ToSaw(p, x)
<1>1. /\ Ledger /\ Outside /\ p.stage = "select" /\ p.stage \in InCall /\ Engaged(p)
      /\ p \in WorkerState /\ WorkerOK(p, setting) /\ p.task \in Task /\ OpOf(p) \in Operation
  BY WorkerFacts DEF SelectEffect, At, Engaged, InCall, WorkerOK
<1>2. x \in EffectState \cup {"absent"} /\ effect[p.task][Op(w)] = x
  BY <1>1 DEF Inv, TypeInv, TypeOK, StoreTypeOK, Op, OpOf
<1>3. CASE \E o \in CallEnds : AfterCall(w, o)
  BY <1>1, <1>3, AfterCallStep
<1>4. CASE EffectAdmits(x) /\ worker' = [worker EXCEPT ![w].stage = "dispatch", ![w].saw = x]
  <2>1. Goes(w, q)
    BY <1>4 DEF Goes, ToSaw
  <2>2. /\ q \in WorkerState /\ q.stage = "dispatch" /\ q.task = p.task /\ q.token = p.token
        /\ q.node = p.node /\ q.attempt = p.attempt /\ q.saw = x
    BY <1>1, <1>2, SawRows
  <2> HIDE DEF q
  <2>3. OpOf(q) = OpOf(p)
    BY <2>2 DEF OpOf
  <2>4. WorkerOK(q, setting)
    BY <1>1, <2>2, <2>3 DEF WorkerOK, Engaged, InCall
  <2>5. CallKept(w, None, p, q) /\ TaskKept(p, q)
    BY <1>1, <2>2 DEF CallKept, SideCall, InCall, TaskKept
  <2>6. JournalKept(p, q)
    BY <1>1, <1>4, <2>2, <2>3 DEF JournalKept, Calling
  <2> QED BY <1>1, <2>1, <2>2, <2>4, <2>5, <2>6, LocalCallStep
<1>5. "failed" \in CallEnds /\ "unknown" \in CallEnds
  BY DEF CallEnds
<1> QED BY <1>2, <1>3, <1>4, <1>5 DEF SelectEffect

\* An attempt is opened, and the call begins: the lease is held, and the node
\* was neither running nor uncertain, so that nobody else is in its call.
LEMMA OpenAttemptKept == ASSUME Inv, NEW w \in Worker, OpenAttempt(w) PROVE InvStep
<1> USE ConstantsAssumption
<1> DEFINE p == worker[w]
           t == p.task
           n == p.node
           k == p.token
<1>1. /\ Outside /\ p.stage = "start" /\ Engaged(p) /\ n # None
      /\ p \in WorkerState /\ WorkerOK(p, setting) /\ setting \in Settings
      /\ t \in Task /\ k \in 0..MaxToken
      /\ lock' \in [owner : Worker \cup {None}, live : BOOLEAN]
  BY WorkerFacts DEF OpenAttempt, At, Engaged, WorkerOK, Outside
<1>2. n \in Node
  BY <1>1, SettingFacts DEF WorkerOK
<1>3. CASE Ledger /\ (GotoWith(w, "settle", StopStatus(w)) \/ GotoWith(w, "settle", "failed"))
  <2>1. \E o \in EndsWith : GotoWith(w, "settle", o)
    BY <1>3, StopFacts DEF EndsWith
  <2> QED BY <1>1, <1>3, <2>1, LocalStep
<1>4. CASE Ledger /\ Leave(w)
  BY <1>1, <1>4, CalmNothing, EndStep DEF Ledger, storeVars, Outside
<1>5. CASE Ledger /\ Goto(w, "fail")
  BY <1>1, <1>5, LocalStep
<1>6. CASE /\ StartAttempt(t, n, w, k)
           /\ worker' = [worker EXCEPT ![w].stage = "call",
                                       ![w].attempt = Len(attempts[t][n]) + 1]
  <2>1. attempts[t][n] \in Seq(Attempt) /\ Len(attempts[t][n]) < MaxAttempts
    BY <1>1, <1>2, <1>6 DEF Inv, TypeInv, TypeOK, StoreTypeOK, StartAttempt
  <2>2. Len(attempts[t][n]) \in Nat
    BY <2>1, LenProperties
  <2>3. PICK i \in Nat : i = Len(attempts[t][n]) + 1 /\ i \in 1..MaxAttempts
    BY <2>1, <2>2
  <2> DEFINE q == ToAttempt(p, i)
  <2>4. Goes(w, q)
    BY <1>6, <2>3 DEF Goes, ToAttempt
  <2>5. /\ q \in WorkerState /\ q.stage = "call" /\ q.task = t /\ q.token = k /\ q.node = n
        /\ q.attempt = i
    BY <1>1, <1>2, NodeRows
  <2> HIDE DEF q
  <2>6. WorkerOK(q, setting) /\ TaskKept(p, q) /\ JournalKept(p, q)
    BY <1>1, <2>3, <2>5 DEF WorkerOK, Engaged, InCall, TaskKept, JournalKept, Calling
  <2>7. Calm(w, {}) /\ UNCHANGED effect
    BY <1>1, <1>2, <1>6, StartCalm DEF StartAttempt
  <2>8. /\ task[t].owner = w /\ task[t].token = k
        /\ node[t][n] # "running" /\ (n \in SideEffect => node[t][n] # "unknown")
        /\ task'[t] = [task[t] EXCEPT !.status = "running"] /\ node'[t][n] = "running"
    <3>1. task[t].owner = w /\ task[t].token = k
      BY <1>6 DEF StartAttempt, Guard, Held, Worker
    <3>2. node[t][n] # "running" /\ (n \in SideEffect => node[t][n] # "unknown")
      BY <1>1, <1>2, <1>6 DEF StartAttempt, StartAllowed, Inv, LedgerInv, RunningNodeHasAttempt
    <3>3. task'[t] = [task[t] EXCEPT !.status = "running"] /\ node'[t][n] = "running"
      BY <1>1, <1>2, <1>6 DEF StartAttempt, Inv, TypeInv, TypeOK, StoreTypeOK
    <3> QED BY <3>1, <3>2, <3>3
  <2>9. task'[t].owner = w /\ task'[t].token = k /\ task'[t].status = "running"
    <3>1. task[t] \in TaskRow
      BY <1>1 DEF Inv, TypeInv, TypeOK, StoreTypeOK
    <3> QED BY <2>8, <3>1 DEF TaskRow
  <2>10. SideCall(q) => \A u \in Worker \ {w} : ~SameCall(worker[u], q)
    BY <2>5, <2>8 DEF SameCall, SideCall, Inv, CallInv, SideCalls, HoldsNode
  <2>11. CallKept(w, w, p, q)
    BY <2>5, <2>8, <2>9, <2>10 DEF CallKept, Joins
  <2> QED BY <1>1, <2>4, <2>5, <2>6, <2>7, <2>11, WorkerStep DEF Outside
<1> QED BY <1>3, <1>4, <1>5, <1>6 DEF OpenAttempt

\* The result of a node is written, and the supervisor goes on.
LEMMA ReportResultKept == ASSUME Inv, NEW w \in Worker, ReportResult(w) PROVE InvStep
<1> DEFINE p == worker[w]
           t == p.task
           n == p.node
           s == NodeResult(p.outcome)
<1>1. /\ Outside /\ p.stage = "report" /\ Engaged(p) /\ n # None
      /\ p.outcome \in CallEnds /\ p.attempt \in 1..MaxAttempts
      /\ setting \in Settings /\ n \in setting.nodes
      /\ t \in Task /\ p.token \in 0..MaxToken
      /\ lock' \in [owner : Worker \cup {None}, live : BOOLEAN]
  BY WorkerFacts DEF ReportResult, At, Engaged, InCall, WorkerOK, Outside
<1>2. n \in Node /\ s \in EndsWith
  BY <1>1, SettingFacts DEF NodeResult, CallEnds, EndsWith
<1>3. CASE Ledger /\ Leave(w)
  BY <1>1, <1>3, CalmNothing, EndStep DEF Ledger, storeVars, Outside
<1>4. CASE /\ ReportAttempt(t, n, p.attempt, s, w, p.token)
           /\ \/ Goto(w, "step") \/ Goto(w, "start")
              \/ GotoWith(w, "settle", s) \/ GotoWith(w, "settle", StopStatus(w))
  <2>1. Calm(w, {}) /\ UNCHANGED effect
    BY <1>1, <1>2, <1>4, ReportCalm DEF ReportAttempt
  <2>2. CASE Goto(w, "step") \/ Goto(w, "start")
    BY <1>1, <2>1, <2>2, StageStep DEF Outside
  <2>3. CASE GotoWith(w, "settle", s) \/ GotoWith(w, "settle", StopStatus(w))
    <3>1. \E o \in EndsWith : GotoWith(w, "settle", o)
      BY <1>2, <2>3, StopFacts DEF EndsWith
    <3> QED BY <1>1, <2>1, <3>1, StageStep DEF Outside
  <2> QED BY <1>4, <2>2, <2>3
<1> QED BY <1>3, <1>4 DEF ReportResult

-----------------------------------------------------------------------------
(* The end of a run.                                                       *)

\* The row is read again, and the output of a released run is saved.
LEMMA SettleKept == ASSUME Inv, NEW w \in Worker, Settle(w) PROVE InvStep
<1> DEFINE p == worker[w]
           t == p.task
<1>1. /\ Outside /\ p.stage = "settle" /\ Engaged(p) /\ p.outcome \in EndsWith
      /\ t \in Task /\ p.token \in 0..MaxToken
      /\ lock' \in [owner : Worker \cup {None}, live : BOOLEAN]
  BY WorkerFacts DEF Settle, At, Engaged, WorkerOK, Outside
<1>2. CASE Goto(w, "finish") /\ Ledger
  BY <1>1, <1>2, LocalStep
<1>3. CASE SaveReleasedOutput(t, w, p.token) /\ Leave(w)
  <2>1. Calm(None, {}) /\ UNCHANGED effect
    BY <1>1, <1>3, FieldCalm DEF Worker, SaveReleasedOutput
  <2> QED BY <1>1, <1>3, <2>1, EndStep DEF Outside
<1>4. CASE Leave(w) /\ Ledger
  BY <1>1, <1>4, CalmNothing, EndStep DEF Ledger, storeVars, Outside
<1> QED BY <1>2, <1>3, <1>4 DEF Settle

\* finish_worker_task after the handler.
LEMMA FinishKept == ASSUME Inv, NEW w \in Worker, Finish(w) \/ Abort(w) PROVE InvStep
<1> DEFINE p == worker[w]
           t == p.task
<1>1. /\ Outside /\ Engaged(p) /\ p.outcome \in EndsWith /\ Leave(w)
      /\ t \in Task /\ p.token \in 0..MaxToken
      /\ lock' \in [owner : Worker \cup {None}, live : BOOLEAN]
  BY WorkerFacts DEF Finish, Abort, FinishOrFenced, At, Engaged, WorkerOK, Outside
<1>2. CASE Ledger
  BY <1>1, <1>2, CalmNothing, EndStep DEF Ledger, storeVars, Outside
<1>3. CASE \E b \in BOOLEAN : FinishWorkerTask(t, p.outcome, b, w, p.token)
  <2>1. Calm(w, {}) /\ UNCHANGED effect
    BY <1>1, <1>3, FinishCalm DEF FinishWorkerTask
  <2> QED BY <1>1, <2>1, EndStep DEF Outside
<1> QED BY <1>2, <1>3 DEF Finish, Abort, FinishOrFenced

\* An error of the handler is judged.
LEMMA JudgeFailureKept == ASSUME Inv, NEW w \in Worker, JudgeFailure(w) PROVE InvStep
<1>1. Ledger /\ Outside /\ Engaged(worker[w])
  BY DEF JudgeFailure, At, Engaged
<1>2. \E o \in EndsWith : GotoWith(w, "abort", o)
  BY DEF JudgeFailure, EndsWith
<1> QED BY <1>1, <1>2, LocalStep

-----------------------------------------------------------------------------
(* The heartbeat thread, and the end of a process.                         *)

\* What the heartbeat and close tell the main thread changes no call.
LEMMA ToldStep ==
  ASSUME Inv, NEW w \in Worker, Calm(None, {}),
         \E q : Goes(w, q) /\ Told(worker[w], q) /\ (q.beat # "off" => Engaged(worker[w])),
         UNCHANGED <<effect, submission, applied, setting>>,
         lock' \in [owner : Worker \cup {None}, live : BOOLEAN]
  PROVE  InvStep
<1> DEFINE p == worker[w]
<1>1. p \in WorkerState /\ WorkerOK(p, setting)
  BY WorkerFacts
<1>2. PICK q : Goes(w, q) /\ Told(p, q) /\ (q.beat # "off" => Engaged(p))
  OBVIOUS
<1>3. OpOf(q) = OpOf(p)
  BY <1>2 DEF OpOf, Told
<1>4. WorkerOK(q, setting)
  BY <1>1, <1>2, <1>3 DEF WorkerOK, Engaged, Told
<1>5. CallKept(w, None, p, q) /\ TaskKept(p, q)
  BY <1>2 DEF CallKept, SideCall, TaskKept, Engaged, Told
<1>6. JournalKept(p, q)
  BY <1>2, <1>3 DEF JournalKept, Calling, SameOp, Done, Told
<1> QED BY <1>2, <1>4, <1>5, <1>6, WorkerStep DEF Told

\* Three forms of it.
LEMMA BeatRows ==
  ASSUME Inv, NEW w \in Worker, NEW b \in {"off", "poll", "lock", "renew"},
         Beat(w, b) \/ BeatLost(w), b # "off" => Engaged(worker[w])
  PROVE  \E q : Goes(w, q) /\ Told(worker[w], q) /\ (q.beat # "off" => Engaged(worker[w]))
<1> DEFINE p == worker[w]
           x == [p EXCEPT !.beat = b]
           y == [p EXCEPT !.beat = "off", !.cancel = TRUE]
<1>1. p \in WorkerState
  BY WorkerFacts
<1>2. Told(p, x) /\ x.beat = b
  BY <1>1 DEF Told, WorkerState
<1>3. Told(p, y) /\ y.beat = "off"
  BY <1>1 DEF Told, WorkerState
<1>4. Goes(w, x) \/ Goes(w, y)
  BY DEF Beat, BeatLost, Goes
<1> HIDE DEF x, y
<1> QED BY <1>2, <1>3, <1>4

\* The heartbeat reads the row.
LEMMA PollKept == ASSUME Inv, NEW w \in Worker, Poll(w) PROVE InvStep
<1> DEFINE p == worker[w]
           t == p.task
<1>1. /\ Calm(None, {}) /\ UNCHANGED <<effect, lock, submission, applied, setting>>
      /\ p.beat = "poll" /\ p \in WorkerState /\ Engaged(p) /\ t \in Task
      /\ lock' \in [owner : Worker \cup {None}, live : BOOLEAN]
  BY WorkerFacts, CalmNothing DEF Poll, Ledger, storeVars, Outside, WorkerOK
<1>2. CASE BeatLost(w) \/ Beat(w, "off")
  BY <1>1, <1>2, BeatRows, ToldStep
<1>3. CASE \E b \in {"poll", "lock"} :
             worker' = [worker EXCEPT ![w].beat = b, ![w].cancel = @ \/ task[t].cancel,
                                      ![w].pause = @ \/ task[t].pause]
  <2>1. PICK b \in {"poll", "lock"} :
             worker' = [worker EXCEPT ![w].beat = b, ![w].cancel = @ \/ task[t].cancel,
                                      ![w].pause = @ \/ task[t].pause]
    BY <1>3
  <2> DEFINE q == [p EXCEPT !.beat = b, !.cancel = p.cancel \/ task[t].cancel,
                            !.pause = p.pause \/ task[t].pause]
  <2>2. Goes(w, q)
    BY <2>1 DEF Goes
  <2>3. Told(p, q)
    BY <1>1 DEF Told, WorkerState
  <2> HIDE DEF q
  <2> QED BY <1>1, <2>2, <2>3, ToldStep
<1> QED BY <1>2, <1>3 DEF Poll

\* It renews the worker lock.
LEMMA RenewLockKept == ASSUME Inv, NEW w \in Worker, RenewLock(w) PROVE InvStep
<1>1. /\ Calm(None, {}) /\ UNCHANGED <<effect, submission, applied, setting>>
      /\ Engaged(worker[w])
  BY WorkerFacts, CalmNothing DEF RenewLock, Ledger, storeVars, WorkerOK
<1>2. lock' \in [owner : Worker \cup {None}, live : BOOLEAN]
  <2>1. lock \in [owner : Worker \cup {None}, live : BOOLEAN]
    BY WorkerFacts
  <2>2. [owner |-> w, live |-> TRUE] \in [owner : Worker \cup {None}, live : BOOLEAN]
    OBVIOUS
  <2>3. lock' = lock \/ lock' = [owner |-> w, live |-> TRUE]
    BY DEF RenewLock
  <2> QED BY <2>1, <2>2, <2>3, Zenon
<1>3. BeatLost(w) \/ Beat(w, "renew")
  BY DEF RenewLock
<1> QED BY <1>1, <1>2, <1>3, BeatRows, ToldStep

\* It renews the lease.
LEMMA RenewLeaseKept == ASSUME Inv, NEW w \in Worker, RenewLease(w) PROVE InvStep
<1> DEFINE p == worker[w]
<1>1. /\ UNCHANGED <<lock, submission, applied, setting>>
      /\ Engaged(p) /\ p.task \in Task /\ p.token \in 0..MaxToken
      /\ lock' \in [owner : Worker \cup {None}, live : BOOLEAN]
  BY WorkerFacts DEF RenewLease, WorkerOK, Outside
<1>2. CASE Heartbeat(p.task, w, p.token) /\ Beat(w, "poll")
  <2>1. Calm(None, {}) /\ UNCHANGED effect
    BY <1>1, <1>2, FieldCalm DEF Worker, Heartbeat
  <2> QED BY <1>1, <1>2, <2>1, BeatRows, ToldStep
<1>3. CASE BeatLost(w) /\ Ledger
  <2>1. Calm(None, {}) /\ UNCHANGED effect
    BY <1>3, CalmNothing DEF Ledger, storeVars
  <2> QED BY <1>1, <1>3, <2>1, BeatRows, ToldStep
<1> QED BY <1>2, <1>3 DEF RenewLease

\* close asks the active run to pause.
LEMMA CloseKept == ASSUME Inv, NEW w \in Worker, Close(w) PROVE InvStep
<1> DEFINE p == worker[w]
<1>1. /\ UNCHANGED <<lock, submission, applied, setting>>
      /\ p \in WorkerState /\ WorkerOK(p, setting)
      /\ Active(w) => p.task \in Task
      /\ lock' \in [owner : Worker \cup {None}, live : BOOLEAN]
  BY WorkerFacts DEF Close, WorkerOK, Outside, Active, Engaged
<1>2. Calm(None, {}) /\ UNCHANGED effect
  <2>1. CASE Active(w)
    <3>1. Worker # {} /\ 0 \in 0..MaxToken
      BY ConstantsAssumption
    <3>2. RequestPause(p.task) /\ UNCHANGED effect
      BY <2>1 DEF Close, RequestPause, SetRequests
    <3> QED BY <1>1, <2>1, <3>1, <3>2, FieldCalm DEF Worker
  <2>2. CASE ~Active(w)
    BY <2>2, CalmNothing DEF Close, Ledger, storeVars
  <2> QED BY <2>1, <2>2
<1> DEFINE q == [p EXCEPT !.closing = TRUE, !.pause = p.pause \/ Active(w)]
<1>3. Goes(w, q)
  BY DEF Close, Goes
<1>4. Told(p, q) /\ q.beat = p.beat
  BY <1>1 DEF Told, WorkerState
<1> HIDE DEF q
<1>5. q.beat # "off" => Engaged(p)
  BY <1>1, <1>4 DEF WorkerOK
<1> QED BY <1>1, <1>2, <1>3, <1>4, <1>5, ToldStep

\* A process ends, in order or not.
LEMMA GoneKept == ASSUME Inv, NEW w \in Worker, Closed(w) \/ Crash(w) PROVE InvStep
<1>1. Calm(None, {}) /\ UNCHANGED <<effect, submission, applied, setting>>
  BY CalmNothing DEF Closed, Crash, Ledger, storeVars, Outside
<1>2. Goes(w, Gone)
  BY DEF Closed, Crash, Goes, Gone
<1>3. lock' \in [owner : Worker \cup {None}, live : BOOLEAN]
  <2>1. lock \in [owner : Worker \cup {None}, live : BOOLEAN]
    BY WorkerFacts
  <2>2. [owner |-> None, live |-> FALSE] \in [owner : Worker \cup {None}, live : BOOLEAN]
    OBVIOUS
  <2>3. lock' = lock \/ lock' = [owner |-> None, live |-> FALSE]
    BY DEF Closed, Crash, Outside
  <2> QED BY <2>1, <2>2, <2>3, Zenon
<1> QED BY <1>1, <1>2, <1>3, EndStep

-----------------------------------------------------------------------------
(* The steps that write the journal or change the world.                   *)

\* A step of a worker in the call of an operation, which keeps what the journal
\* says when the calls of tasks without a plan never fail.
LEMMA JournalStep ==
  ASSUME Inv, NEW w \in Worker, Calm(None, {}), NEW q \in WorkerState, Goes(w, q),
         WorkerOK(q, setting), CallKept(w, None, worker[w], q), TaskKept(worker[w], q),
         UNCHANGED <<lock, submission, setting>>, applied' \in [Task -> [Operation -> Nat]],
         DirectCallsNeverFail => JournalInv'
  PROVE  InvStep
<1>1. StoreTypeOK' /\ LedgerInv' /\ CancelWins'
  BY TablesKept
<1>2. UsersKept({}) /\ lock' \in [owner : Worker \cup {None}, live : BOOLEAN]
  BY DEF UsersKept, Inv, TypeInv, TypeOK
<1>3. TypeInv'
  BY <1>1, <1>2, TypesKept DEF UsersKept
<1>4. SideCalls' /\ OneCaller' /\ SubmissionOK' /\ QueueOK'
  BY <1>2, CallsKept
<1> QED BY <1>1, <1>3, <1>4 DEF Inv, CallInv, DirectCallsNeverFail, InvStep, Calm

\* The worker w, in the call of x for t, goes to q and leaves the operation in
\* state e, applied i times; no other worker is in a call of it or repeats one.
Journals(w, q, t, x, e, i) ==
  /\ w \in Worker /\ q \in WorkerState /\ Goes(w, q) /\ t \in Task /\ x \in Operation
  /\ q.task = t /\ OpOf(q) = x /\ q.stage # "dispatch"
  /\ e \in {"dispatched", "committed", "failed", "unknown"} /\ i \in Nat
  /\ effect' = [effect EXCEPT ![t][x] = e] /\ applied' = [applied EXCEPT ![t][x] = i]
  /\ \A u \in Worker \ {w} : worker[u].task = t /\ OpOf(worker[u]) = x =>
       ~Calling(worker[u]) /\ ~(worker[u].stage = "dispatch" /\ worker[u].saw # "absent")
  /\ Calling(q) => e = "dispatched"
  /\ x = Direct => e # "failed"
  /\ i = 0 \/ (i = 1 /\ e # "failed" /\ (Calling(q) => Done(q)))

\* The invariant of the journal is kept.
LEMMA JournalOf ==
  ASSUME Inv, JournalInv, NEW w, NEW q, NEW t, NEW x, NEW e, NEW i, Journals(w, q, t, x, e, i)
  PROVE  JournalInv'
<1> USE DEF Journals
<1>1. /\ worker \in [Worker -> WorkerState]
      /\ \A u \in Worker : u # w => worker'[u] = worker[u]
      /\ worker'[w] = q
  BY ConstantsAssumption DEF Goes, Inv, TypeInv, TypeOK, Worker
<1>2. /\ effect'[t][x] = e /\ applied'[t][x] = i
      /\ \A y \in Task, z \in Operation : (y # t \/ z # x) =>
           effect'[y][z] = effect[y][z] /\ applied'[y][z] = applied[y][z]
  BY DEF Inv, TypeInv, TypeOK, StoreTypeOK
<1>3. /\ \A u \in Worker : Calling(worker[u])' <=> Calling(worker'[u])
      /\ \A u \in Worker : OpOf(worker[u])' = OpOf(worker'[u])
      /\ \A u \in Worker : Done(worker[u])' <=> Done(worker'[u])
  BY DEF Calling, OpOf, Done
<1>4. \A u \in Worker : u # w /\ (Calling(worker[u]) \/ worker[u].stage = "dispatch") =>
        worker[u].task \in Task /\ OpOf(worker[u]) \in Operation
  BY DEF Calling, Inv, TypeInv, WorkersOK, WorkerOK, Engaged
<1>5. JournalOK'
  <2>1. \A u \in Worker : Calling(worker'[u]) => effect'[worker'[u].task][OpOf(worker'[u])] = "dispatched"
    BY <1>1, <1>2, <1>4 DEF JournalInv, JournalOK
  <2>2. \A u \in Worker : worker'[u].stage = "dispatch" /\ worker'[u].saw # "absent" =>
          worker'[u].saw = "failed" /\ effect'[worker'[u].task][OpOf(worker'[u])] = "failed"
    BY <1>1, <1>2, <1>4 DEF JournalInv, JournalOK
  <2>3. \A u, v \in Worker :
          Calling(worker'[u]) /\ Calling(worker'[v]) /\ SameOp(worker'[u], worker'[v]) => u = v
    BY <1>1 DEF JournalInv, JournalOK, SameOp
  <2>4. \A y \in Task, z \in Operation :
          effect'[y][z] \in {"absent", "dispatched", "committed", "failed", "unknown"}
    BY <1>2 DEF JournalInv, JournalOK
  <2>5. \A y \in Task : effect'[y][Direct] # "failed"
    BY <1>2, ServiceAssumption DEF JournalInv, JournalOK
  <2>6. \A u, v \in Worker : SameOp(worker[u], worker[v])' <=> SameOp(worker'[u], worker'[v])
    BY DEF SameOp, OpOf
  <2> QED BY <1>3, <2>1, <2>2, <2>3, <2>4, <2>5, <2>6 DEF JournalOK
<1>6. AppliedOK'
  <2> SUFFICES ASSUME NEW y \in Task, NEW z \in Operation, applied'[y][z] # 0
               PROVE  /\ applied'[y][z] = 1
                      /\ effect'[y][z] \in {"dispatched", "committed", "unknown"}
                      /\ \A u \in Worker :
                           Calling(worker'[u]) /\ worker'[u].task = y /\ OpOf(worker'[u]) = z
                             => Done(worker'[u])
    BY <1>3 DEF AppliedOK
  <2>1. CASE y = t /\ z = x
    BY <1>1, <1>2, <2>1
  <2>2. CASE y # t \/ z # x
    BY <1>1, <1>2, <2>2 DEF JournalInv, AppliedOK
  <2> QED BY <2>1, <2>2
<1> QED BY <1>5, <1>6 DEF JournalInv

\* No other worker is in the call of an operation that the journal does not say
\* to be under way; and none waits to repeat one that is.
LEMMA NoOtherCall ==
  ASSUME Inv, JournalInv, NEW t \in Task, NEW x \in Operation, NEW u \in Worker,
         worker[u].task = t, OpOf(worker[u]) = x
  PROVE  /\ effect[t][x] # "dispatched" => ~Calling(worker[u])
         /\ effect[t][x] # "failed" => ~(worker[u].stage = "dispatch" /\ worker[u].saw # "absent")
BY DEF JournalInv, JournalOK

\* A call is entered in the journal, or refused because it is there.
LEMMA DispatchEffectKept == ASSUME Inv, NEW w \in Worker, DispatchEffect(w) PROVE InvStep
<1> DEFINE p == worker[w]
           t == p.task
           x == OpOf(p)
           q == To(p, "apply")
<1>1. /\ p.stage = "dispatch" /\ p.stage \in InCall /\ Engaged(p)
      /\ p \in WorkerState /\ WorkerOK(p, setting) /\ t \in Task /\ x \in Operation /\ x = Op(w)
      /\ UNCHANGED <<task, node, attempts>> /\ Outside
  BY WorkerFacts DEF DispatchEffect, At, Engaged, InCall, WorkerOK, Op, OpOf
<1>2. CASE AfterCall(w, "failed") /\ UNCHANGED effect
  <2>1. "failed" \in CallEnds
    BY DEF CallEnds
  <2> QED BY <1>1, <1>2, <2>1, AfterCallStep DEF Ledger, storeVars
<1>3. CASE /\ \/ p.saw = "absent" /\ EffectInsert(t, x)
              \/ p.saw # "absent" /\ EffectRedispatch(t, x)
           /\ Goto(w, "apply")
  <2>1. effect' = [effect EXCEPT ![t][x] = "dispatched"]
    BY <1>3 DEF EffectInsert, EffectRedispatch
  <2>2. Goes(w, q)
    BY <1>3 DEF Goto, Goes, To
  <2>3. Moved(p, q, "apply")
    <3>1. "apply" \in Stage /\ "none" \in Outcome
      BY DEF Stage, Outcome
    <3> QED BY <1>1, <3>1, MovedRows
  <2> HIDE DEF q
  <2>4. OpOf(q) = x
    BY <2>3 DEF Moved, OpOf
  <2>5. WorkerOK(q, setting)
    BY <1>1, <2>3, <2>4 DEF WorkerOK, Moved, Engaged, InCall
  <2>6. CallKept(w, None, p, q) /\ TaskKept(p, q)
    BY <1>1, <2>3 DEF CallKept, SideCall, InCall, TaskKept, Moved
  <2>7. Calm(None, {})
    <3>1. LedgerNext
      BY <1>1, <1>3, JournalWrites
    <3> QED BY <1>1, <3>1, CalmNothing
  <2>8. ASSUME DirectCallsNeverFail
        PROVE  JournalInv'
    <3>1. JournalInv
      BY <2>8 DEF Inv
    <3>2. effect[t][x] \in {"absent", "failed"}
      BY <1>1, <1>3, <3>1 DEF EffectInsert, JournalInv, JournalOK
    <3>3. applied[t][x] = 0
      BY <1>1, <3>1, <3>2 DEF JournalInv, AppliedOK
    <3>4. applied' = [applied EXCEPT ![t][x] = 0]
      BY <1>1, <3>3 DEF Outside, Inv, TypeInv, TypeOK
    <3>5. ASSUME NEW u \in Worker \ {w}, worker[u].task = t, OpOf(worker[u]) = x
          PROVE  ~Calling(worker[u]) /\ ~(worker[u].stage = "dispatch" /\ worker[u].saw # "absent")
      <4>1. ~Calling(worker[u])
        BY <1>1, <3>1, <3>2, <3>5, NoOtherCall
      <4>2. CASE p.saw = "absent"
        <5>1. effect[t][x] = "absent"
          BY <1>3, <4>2 DEF EffectInsert
        <5> QED BY <1>1, <3>1, <3>5, <4>1, <5>1, NoOtherCall
      <4>3. CASE p.saw # "absent" /\ worker[u].stage = "dispatch"
        <5>1. x # Direct
          BY <1>1, <3>1, <4>3 DEF JournalInv, JournalOK
        <5>2. p.node \in SideEffect /\ worker[u].node = p.node
          BY <1>1, <3>5, <5>1, ServiceAssumption DEF OpOf
        <5>3. SameCall(p, worker[u])
          BY <1>1, <3>5, <4>3, <5>2 DEF SameCall, SideCall, InCall
        <5> QED BY <5>3 DEF Inv, CallInv, OneCaller
      <4> QED BY <4>1, <4>2, <4>3
    <3>6. q \in WorkerState /\ q.task = t /\ q.stage # "dispatch"
      BY <2>3 DEF Moved
    <3>7. PICK e \in {"dispatched", "committed", "failed", "unknown"}, i \in Nat :
            e = "dispatched" /\ i = 0
      OBVIOUS
    <3>8. effect' = [effect EXCEPT ![t][x] = e] /\ applied' = [applied EXCEPT ![t][x] = i]
      BY <2>1, <3>4, <3>7
    <3>9. Journals(w, q, t, x, e, i)
      BY <1>1, <2>2, <2>4, <3>5, <3>6, <3>7, <3>8 DEF Journals
    <3> QED BY <3>1, <3>9, JournalOf
  <2> QED BY <1>1, <2>2, <2>3, <2>5, <2>6, <2>7, <2>8, JournalStep DEF Moved, Outside, Inv, TypeInv, TypeOK
<1> QED BY <1>1, <1>2, <1>3 DEF DispatchEffect

\* The tool acts on the world, or not.
LEMMA ToolCallKept == ASSUME Inv, NEW w \in Worker, ToolCall(w) PROVE InvStep
<1> DEFINE p == worker[w]
           t == p.task
           x == OpOf(p)
           s == IF x \in Operation THEN "record" ELSE "report"
<1>1. /\ p.stage = "apply" /\ p.stage \in InCall /\ Engaged(p)
      /\ p \in WorkerState /\ WorkerOK(p, setting) /\ setting \in Settings
      /\ t \in Task /\ x = Op(w)
      /\ Ledger /\ UNCHANGED <<lock, submission, setting>> /\ UNCHANGED effect
  BY WorkerFacts DEF ToolCall, At, Engaged, InCall, WorkerOK, Op, OpOf, Ledger, storeVars
<1>2. PICK o \in setting.outcomes \cup (IF MayPass(w) THEN {} ELSE {StopStatus(w)}), done \in BOOLEAN :
        /\ o = "failed" => ~done
        /\ GotoWith(w, s, o)
        /\ applied' = IF done /\ x \in Operation
                      THEN [applied EXCEPT ![t][x] = @ + 1] ELSE applied
  BY <1>1 DEF ToolCall
<1> DEFINE q == ToWith(p, s, o)
<1>3. /\ o \in CallEnds /\ o \in Outcome
      /\ o = "failed" => "failed" \in setting.outcomes
  BY <1>1, <1>2, SettingFacts DEF MayPass, StopStatus, CallEnds, Outcome
<1>4. Goes(w, q)
  BY <1>2 DEF GotoWith, Goes, ToWith
<1>5. Moved(p, q, s) /\ q.outcome = o
  <2>1. s \in Stage
    BY DEF Stage
  <2> QED BY <1>1, <1>3, <2>1, MovedRows
<1> HIDE DEF q
<1>6. OpOf(q) = x
  BY <1>5 DEF Moved, OpOf
<1>7. WorkerOK(q, setting)
  <2>1. x \notin Operation => p.node # None
    BY ServiceAssumption DEF OpOf
  <2> QED BY <1>1, <1>3, <1>5, <1>6, <2>1 DEF WorkerOK, Moved, Engaged, InCall
<1>8. CallKept(w, None, p, q) /\ TaskKept(p, q)
  BY <1>1, <1>5 DEF CallKept, SideCall, InCall, TaskKept, Moved
<1>9. applied' \in [Task -> [Operation -> Nat]]
  <2>1. applied \in [Task -> [Operation -> Nat]]
    BY DEF Inv, TypeInv, TypeOK
  <2>2. CASE x \in Operation
    <3>1. applied[t][x] + 1 \in Nat
      BY <1>1, <2>1, <2>2
    <3> QED BY <1>1, <1>2, <2>1, <2>2, <3>1
  <2>3. CASE x \notin Operation
    BY <1>2, <2>1, <2>3
  <2> QED BY <2>2, <2>3
<1>10. Calm(None, {})
  BY <1>1, CalmNothing DEF Ledger, storeVars
<1>11. ASSUME DirectCallsNeverFail
       PROVE  JournalInv'
  <2>1. JournalInv
    BY <1>11 DEF Inv
  <2>2. CASE x \notin Operation
    <3>1. JournalKept(p, q)
      BY <1>5, <1>6, <2>2 DEF JournalKept, Calling, Moved
    <3> QED BY <1>1, <1>2, <1>4, <1>5, <2>1, <2>2, <3>1, JournalStays DEF Moved
  <2>3. CASE x \in Operation
    <3>1. effect[t][x] = "dispatched"
      BY <1>1, <2>1, <2>3 DEF Calling, JournalInv, JournalOK
    <3>2. applied[t][x] = 0
      BY <1>1, <2>1, <2>3 DEF Calling, Done, JournalInv, AppliedOK
    <3>3. PICK e \in {"dispatched", "committed", "failed", "unknown"}, i \in Nat :
            e = "dispatched" /\ i = IF done THEN 1 ELSE 0
      OBVIOUS
    <3>4. effect' = [effect EXCEPT ![t][x] = e]
      BY <1>1, <3>1, <3>3 DEF Inv, TypeInv, TypeOK, StoreTypeOK
    <3>5. applied' = [applied EXCEPT ![t][x] = i]
      <4>1. applied \in [Task -> [Operation -> Nat]]
        BY DEF Inv, TypeInv, TypeOK
      <4>2. CASE done
        BY <1>2, <2>3, <3>2, <3>3, <4>2
      <4>3. CASE ~done
        <5>1. applied' = applied /\ i = applied[t][x]
          BY <1>2, <3>2, <3>3, <4>3
        <5> QED BY <1>1, <2>3, <4>1, <5>1
      <4> QED BY <4>2, <4>3
    <3>6. ASSUME NEW u \in Worker \ {w}, worker[u].task = t, OpOf(worker[u]) = x
          PROVE  ~Calling(worker[u]) /\ ~(worker[u].stage = "dispatch" /\ worker[u].saw # "absent")
      <4>1. Calling(p) /\ SameOp(p, worker[u])
        BY <1>1, <2>3, <3>6 DEF Calling, SameOp
      <4>2. ~Calling(worker[u])
        BY <2>1, <4>1 DEF JournalInv, JournalOK
      <4> QED BY <1>1, <2>1, <2>3, <3>1, <3>6, <4>2, NoOtherCall
    <3>7. q \in WorkerState /\ q.task = t /\ q.stage = "record" /\ q.outcome = o
      BY <1>5, <2>3 DEF Moved
    <3>8. Journals(w, q, t, x, e, i)
      BY <1>1, <1>2, <1>4, <1>6, <2>3, <3>3, <3>4, <3>5, <3>6, <3>7 DEF Journals, Done
    <3> QED BY <2>1, <3>8, JournalOf
  <2> QED BY <2>2, <2>3
<1> QED BY <1>1, <1>4, <1>5, <1>7, <1>8, <1>9, <1>10, <1>11, JournalStep DEF Moved

\* The journal records how the call ended; what was applied is not recorded as
\* failed, and neither is the call of a task without a plan.
LEMMA RecordEffectKept == ASSUME Inv, NEW w \in Worker, RecordEffect(w) PROVE InvStep
<1> DEFINE p == worker[w]
           t == p.task
           x == OpOf(p)
           j == JournalState(p.outcome)
<1>1. /\ p.stage = "record" /\ p.stage \in InCall /\ Engaged(p)
      /\ p \in WorkerState /\ WorkerOK(p, setting) /\ setting \in Settings
      /\ t \in Task /\ x \in Operation /\ x = Op(w) /\ p.outcome \in CallEnds
      /\ EffectFinish(t, x, j) /\ AfterCall(w, p.outcome)
      /\ UNCHANGED <<task, node, attempts>> /\ UNCHANGED <<lock, submission, applied, setting>>
  BY WorkerFacts DEF RecordEffect, At, Engaged, InCall, WorkerOK, Op, OpOf, Outside
<1>2. PICK q \in WorkerState :
        /\ Goes(w, q) /\ WorkerOK(q, setting)
        /\ CallKept(w, None, p, q) /\ TaskKept(p, q)
        /\ ~Calling(q) /\ q.stage # "dispatch" /\ q.task = t /\ q.node = p.node
  <2>1. PICK a \in {"report", "abort", "settle"}, e \in Outcome : GotoWith(w, a, e)
    BY <1>1 DEF AfterCall, CallEnds, Outcome
  <2>2. PICK q \in WorkerState :
          /\ Goes(w, q) /\ WorkerOK(q, setting)
          /\ CallKept(w, None, p, q) /\ TaskKept(p, q)
          /\ ~Calling(q) /\ q.stage # "dispatch"
    BY <1>1, AfterCallGoes
  <2>3. q = ToWith(p, a, e)
    BY <2>1, <2>2, ConstantsAssumption DEF GotoWith, Goes, ToWith, Inv, TypeInv, TypeOK, Worker
  <2>4. Moved(p, q, a)
    BY <1>1, <2>1, <2>3, MovedRows DEF Stage
  <2> QED BY <2>2, <2>4 DEF Moved
<1>3. Calm(None, {})
  <2>1. LedgerNext
    BY <1>1, JournalWrites
  <2> QED BY <1>1, <2>1, CalmNothing
<1>4. ASSUME DirectCallsNeverFail
      PROVE  JournalInv'
  <2>1. JournalInv
    BY <1>4 DEF Inv
  <2>2. Calling(p) /\ effect[t][x] = "dispatched"
    BY <1>1, <2>1 DEF Calling, JournalInv, JournalOK
  <2>3. applied[t][x] = 0 \/ (applied[t][x] = 1 /\ Done(p))
    BY <1>1, <2>1, <2>2 DEF JournalInv, AppliedOK
  <2>4. x = Direct => j # "failed"
    <3>1. j = "failed" => p.outcome = "failed"
      BY DEF JournalState
    <3>2. x = Direct => t \notin setting.planned
      <4>1. x = Direct => p.node = None
        <5>1. p.node \in Node \cup {None}
          BY <1>1 DEF WorkerState
        <5> QED BY <5>1, ServiceAssumption DEF OpOf
      <4> QED BY <1>1, <4>1 DEF WorkerOK
    <3>3. t \in setting.tasks
      BY <1>1 DEF Inv, CallInv, SubmissionOK
    <3>4. p.outcome = "failed" => t \in setting.planned
      BY <1>1, <1>4, <3>3 DEF WorkerOK, DirectCallsNeverFail
    <3> QED BY <3>1, <3>2, <3>4
  <2>5. PICK e \in {"dispatched", "committed", "failed", "unknown"}, i \in Nat :
          e = j /\ i = applied[t][x]
    BY <2>3 DEF JournalState
  <2>6. effect' = [effect EXCEPT ![t][x] = e]
    BY <1>1, <2>5 DEF EffectFinish
  <2>7. applied' = [applied EXCEPT ![t][x] = i]
    BY <1>1, <2>5 DEF Inv, TypeInv, TypeOK
  <2>8. ASSUME NEW u \in Worker \ {w}, worker[u].task = t, OpOf(worker[u]) = x
        PROVE  ~Calling(worker[u]) /\ ~(worker[u].stage = "dispatch" /\ worker[u].saw # "absent")
    <3>1. SameOp(p, worker[u])
      BY <2>8 DEF SameOp
    <3>2. ~Calling(worker[u])
      BY <2>1, <2>2, <3>1 DEF JournalInv, JournalOK
    <3> QED BY <1>1, <2>1, <2>2, <2>8, <3>2, NoOtherCall
  <2>9. i = 0 \/ (i = 1 /\ e # "failed")
    BY <2>3, <2>5 DEF Done, JournalState
  <2>10. OpOf(q) = x
    BY <1>2 DEF OpOf
  <2>11. Journals(w, q, t, x, e, i)
    BY <1>1, <1>2, <2>4, <2>5, <2>6, <2>7, <2>8, <2>9, <2>10 DEF Journals
  <2> QED BY <2>1, <2>11, JournalOf
<1> QED BY <1>1, <1>2, <1>3, <1>4, JournalStep DEF Inv, TypeInv, TypeOK

-----------------------------------------------------------------------------
(* Users, and the passing of time.                                         *)

\* A step of a user on the row of t, which may tell one worker something.
LEMMA UserStep ==
  ASSUME Inv, NEW t \in Task, Calm(None, {t}), UsersKept({t}),
         \/ UNCHANGED worker
         \/ \E w \in Worker : \E q : Goes(w, q) /\ Told(worker[w], q) /\ q.beat = worker[w].beat,
         UNCHANGED <<effect, lock, applied, setting>>
  PROVE  InvStep
<1>1. lock' \in [owner : Worker \cup {None}, live : BOOLEAN]
  BY DEF Inv, TypeInv, TypeOK
<1>2. CASE UNCHANGED worker
  <2>1. PICK q \in WorkerState : q = IdleWorker
    BY DEF IdleWorker, WorkerState, Stage, Outcome
  <2>2. Goes(None, q) /\ None \notin Worker
    BY <1>2, ConstantsAssumption DEF Goes, Worker
  <2> QED BY <1>1, <2>1, <2>2, InvKept
<1>3. CASE \E w \in Worker : \E q : Goes(w, q) /\ Told(worker[w], q) /\ q.beat = worker[w].beat
  <2>1. PICK w \in Worker : \E q : Goes(w, q) /\ Told(worker[w], q) /\ q.beat = worker[w].beat
    BY <1>3
  <2> DEFINE p == worker[w]
  <2>2. PICK q : Goes(w, q) /\ Told(p, q) /\ q.beat = p.beat
    BY <2>1
  <2>3. p \in WorkerState /\ WorkerOK(p, setting)
    BY WorkerFacts
  <2>4. OpOf(q) = OpOf(p)
    BY <2>2 DEF OpOf, Told
  <2>5. WorkerOK(q, setting)
    BY <2>2, <2>3, <2>4 DEF WorkerOK, Engaged, Told
  <2>6. CallKept(w, None, p, q) /\ TaskKept(p, q)
    BY <2>2 DEF CallKept, SideCall, TaskKept, Engaged, Told
  <2>7. JournalKept(p, q)
    BY <2>2, <2>4 DEF JournalKept, Calling, SameOp, Done, Told
  <2> QED BY <1>1, <2>2, <2>5, <2>6, <2>7, InvKept DEF Told
<1> QED BY <1>2, <1>3

\* A task whose submission is not complete is in no worker's hands.
LEMMA NotYetCalled ==
  ASSUME Inv, NEW t \in Task, ~setting.early, submission[t] # "done"
  PROVE  \A u \in Worker : SideCall(worker[u]) => worker[u].task # t
BY DEF Inv, CallInv, SubmissionOK, SideCall, InCall, Engaged

\* submit, in its three transactions.
LEMMA SubmitKept ==
  ASSUME Inv, NEW t \in Task, SubmitCreate(t) \/ SubmitBind(t) \/ SubmitQueue(t)
  PROVE  InvStep
<1>1. /\ UNCHANGED <<worker, lock, applied, setting>> /\ UNCHANGED effect
      /\ submission \in [Task -> {"none", "created", "bound", "done"}]
      /\ submission[t] # "done" /\ task \in [Task -> TaskRow]
  BY DEF SubmitCreate, SubmitBind, SubmitQueue, CreateTask, BindJob, UpdateTask, Inv, TypeInv, TypeOK,
         StoreTypeOK
<1>2. Calm(None, {t})
  BY SubmitCalm DEF SubmitCreate, SubmitBind, SubmitQueue
<1>3. /\ submission' \in [Task -> {"none", "created", "bound", "done"}]
      /\ \A u \in Task \ {t} : submission'[u] = submission[u]
  BY <1>1 DEF SubmitCreate, SubmitBind, SubmitQueue
<1>4. t \in setting.tasks
  BY DEF SubmitCreate, SubmitBind, SubmitQueue, BindJob, UpdateTask, Guard, Held, Inv, CallInv, SubmissionOK
<1>5. ASSUME ~setting.early
      PROVE  submission'[t] # "done" => task'[t].status \in {"absent", "paused"}
  <2>1. CASE SubmitCreate(t)
    <3>1. task'[t] = [task[t] EXCEPT !.status = "paused"]
      BY <1>1, <2>1 DEF SubmitCreate, CreateTask
    <3> QED BY <1>1, <3>1 DEF TaskRow
  <2>2. CASE SubmitBind(t)
    <3>1. task'[t] = [task[t] EXCEPT !.bound = TRUE]
      BY <1>1, <2>2 DEF SubmitBind, BindJob
    <3>2. task'[t].status = task[t].status
      BY <1>1, <3>1 DEF TaskRow
    <3> QED BY <1>1, <1>5, <3>2 DEF Inv, CallInv, SubmissionOK
  <2>3. CASE SubmitQueue(t)
    BY <1>1, <2>3 DEF SubmitQueue
  <2> QED BY <2>1, <2>2, <2>3
<1>6. UsersKept({t})
  BY <1>1, <1>3, <1>4, <1>5, NotYetCalled DEF UsersKept
<1> QED BY <1>1, <1>2, <1>6, UserStep

\* A pause or a cancellation, told to the run that lives in the process.
LEMMA RequestKept ==
  ASSUME Inv, NEW t \in Task, NEW action \in setting.requests, Request(t, action)
  PROVE  InvStep
<1>1. action \in {"pause", "cancel"} /\ RequestControl(t, action) /\ Submitted(t)
  BY SettingFacts DEF Request, Inv, TypeInv, TypeOK
<1>2. Calm(None, {t}) /\ task'[t].status # "queued"
  BY <1>1, ControlCalm
<1>3. UNCHANGED <<lock, submission, applied, setting>> /\ UNCHANGED effect
  BY <1>1 DEF Request, Outside, RequestControl
<1>4. UsersKept({t})
  <2>1. t \in setting.tasks
    BY <1>1 DEF RequestControl, Inv, CallInv, SubmissionOK
  <2> QED BY <1>1, <1>2, <1>3, <2>1 DEF UsersKept, Submitted, Inv, TypeInv, TypeOK
<1>5. \/ UNCHANGED worker
      \/ \E w \in Worker : \E q : Goes(w, q) /\ Told(worker[w], q) /\ q.beat = worker[w].beat
  <2> SUFFICES ASSUME NEW w \in Worker,
                      worker' = [worker EXCEPT ![w].cancel = @ \/ task'[t].cancel,
                                               ![w].pause = @ \/ ~task'[t].cancel]
               PROVE  \E q : Goes(w, q) /\ Told(worker[w], q) /\ q.beat = worker[w].beat
    BY DEF Request
  <2> DEFINE p == worker[w]
  <2>1. PICK c : c = task'[t].cancel
    OBVIOUS
  <2> DEFINE q == [p EXCEPT !.cancel = p.cancel \/ c, !.pause = p.pause \/ ~c]
  <2>2. Goes(w, q)
    BY <2>1 DEF Goes
  <2>3. p \in WorkerState
    BY WorkerFacts
  <2>4. Told(p, q) /\ q.beat = p.beat
    BY <2>3 DEF Told, WorkerState
  <2> HIDE DEF q
  <2> QED BY <2>2, <2>4
<1> QED BY <1>2, <1>3, <1>4, <1>5, UserStep

\* A resumption: the nodes say that no worker is in a side effect of the plan.
LEMMA ResumeKept == ASSUME Inv, NEW t \in Task, ResumeTask(t) PROVE InvStep
<1>1. /\ Resume(t) /\ Submitted(t) /\ UNCHANGED <<worker, lock, submission, applied, setting>>
      /\ UNCHANGED effect
  BY DEF ResumeTask, serviceVars, Resume
<1>2. Calm(None, {t}) /\ task[t].owner = None /\ Exists(t)
  BY <1>1, ResumeCalm
<1>3. ASSUME NEW u \in Worker, SideCall(worker[u]), worker[u].task = t
      PROVE  FALSE
  <2>1. HoldsNode(u, worker[u].token, t, worker[u].node)
    BY <1>3 DEF Inv, CallInv, SideCalls
  <2>2. node[t][worker[u].node] = "unknown" /\ worker[u].node \in Node
    BY <1>2, <1>3, <2>1, ConstantsAssumption DEF HoldsNode, SideCall, Worker
  <2> QED BY <1>1, <2>2 DEF Resume, Resumable
<1>4. UsersKept({t})
  <2>1. t \in setting.tasks
    BY <1>2 DEF Inv, CallInv, SubmissionOK
  <2> QED BY <1>1, <1>3, <2>1 DEF UsersKept, Submitted, Inv, TypeInv, TypeOK
<1> QED BY <1>1, <1>2, <1>4, UserStep

\* The lock and the leases lapse, deadlines pass.
LEMMA TimeKept == ASSUME Inv, Time PROVE InvStep
<1>1. /\ UNCHANGED <<worker, submission, applied, setting, effect>>
      /\ lock' \in [owner : Worker \cup {None}, live : BOOLEAN]
  <2>1. lock \in [owner : Worker \cup {None}, live : BOOLEAN]
    BY DEF Inv, TypeInv, TypeOK
  <2>2. CASE LockLapses
    BY <2>1, <2>2 DEF LockLapses, Ledger, storeVars
  <2>3. CASE \E t \in Task : LeaseTime(t) \/ QueueTime(t)
    <3>1. UNCHANGED <<worker, lock, submission, applied, setting>> /\ UNCHANGED effect
      BY <2>3 DEF LeaseTime, QueueTime, serviceVars, LeaseLapses, DeadlinePasses
    <3> QED BY <2>1, <3>1
  <2> QED BY <2>2, <2>3 DEF Time
<1>2. Calm(None, {})
  <2>1. CASE LockLapses
    BY <2>1, CalmNothing DEF LockLapses, Ledger, storeVars
  <2>2. CASE \E t \in Task : LeaseTime(t) \/ QueueTime(t)
    <3>1. PICK t \in Task : LeaseLapses(t) \/ DeadlinePasses(t)
      BY <2>2 DEF LeaseTime, QueueTime
    <3>2. 0 \in 0..MaxToken
      BY ConstantsAssumption
    <3> QED BY <3>1, <3>2, FieldCalm
  <2> QED BY <2>1, <2>2 DEF Time
<1>3. UsersKept({})
  BY <1>1 DEF UsersKept, Inv, TypeInv, TypeOK
<1>4. PICK q \in WorkerState : q = IdleWorker
  BY DEF IdleWorker, WorkerState, Stage, Outcome
<1>5. Goes(None, q) /\ None \notin Worker
  BY <1>1, ConstantsAssumption DEF Goes, Worker
<1> QED BY <1>1, <1>2, <1>3, <1>5, InvKept

-----------------------------------------------------------------------------
(* The invariant is inductive.                                             *)

\* It holds of the empty tables and the idle workers.
LEMMA InvInit == Init => Inv
<1> SUFFICES ASSUME Init PROVE Inv
  OBVIOUS
<1>1. StoreTypeOK /\ \A t \in Task : task[t] = NewRow
  BY StoreTypeInit DEF Init, StoreInit
<1>2. /\ IdleWorker \in WorkerState /\ IdleWorker.stage = "idle" /\ IdleWorker.node = None
      /\ IdleWorker.beat = "off"
      /\ Gone \in WorkerState /\ Gone.stage = "dead" /\ Gone.node = None /\ Gone.beat = "off"
  <2>1. PICK w \in WorkerState : w = IdleWorker
    BY DEF IdleWorker, WorkerState, Stage, Outcome
  <2> QED BY <2>1, IdleRows
<1>3. worker = [w \in Worker |-> IF w \in setting.workers THEN IdleWorker ELSE Gone]
  BY DEF Init, Gone
<1>4. /\ worker \in [Worker -> WorkerState]
      /\ \A w \in Worker : /\ worker[w].stage \in {"idle", "dead"} /\ worker[w].node = None
                           /\ worker[w].beat = "off"
  BY <1>2, <1>3
<1>5. TypeInv
  <2>1. lock \in [owner : Worker \cup {None}, live : BOOLEAN]
    BY DEF Init
  <2>2. /\ submission \in [Task -> {"none", "created", "bound", "done"}]
        /\ applied \in [Task -> [Operation -> Nat]] /\ setting \in Settings
    BY DEF Init
  <2>3. WorkersOK
    BY <1>4 DEF WorkersOK, WorkerOK, Engaged, InCall
  <2> QED BY <1>1, <1>4, <2>1, <2>2, <2>3 DEF TypeInv, TypeOK
<1>6. LedgerInv
  <2>1. LeaseShape
    BY <1>1 DEF LeaseShape, RowShape, NewRow
  <2>2. \A t \in Task, n \in Node : attempts[t][n] = <<>> /\ node[t][n] = "absent"
    BY DEF Init, StoreInit
  <2>3. AttemptFencing /\ RunningNodeHasAttempt /\ RunningIsShown
    BY <2>2 DEF AttemptFencing, RunningNodeHasAttempt, RunningIsShown, Running
  <2> QED BY <2>1, <2>3 DEF LedgerInv
<1>7. CallInv
  <2>1. \A w \in Worker : ~SideCall(worker[w]) /\ ~Engaged(worker[w])
    BY <1>4 DEF SideCall, InCall, Engaged
  <2>2. \A t \in Task : task[t].status = "absent" /\ ~Exists(t)
    BY <1>1 DEF NewRow, Exists
  <2>3. SideCalls /\ OneCaller /\ QueueOK
    BY <2>1 DEF SideCalls, OneCaller, SameCall, QueueOK
  <2> QED BY <2>1, <2>2, <2>3 DEF CallInv, SubmissionOK, CancelWins
<1>8. JournalInv
  <2>1. \A w \in Worker : ~Calling(worker[w]) /\ worker[w].stage # "dispatch"
    BY <1>4 DEF Calling
  <2>2. \A t \in Task, x \in Operation : effect[t][x] = "absent" /\ applied[t][x] = 0
    BY DEF Init, StoreInit
  <2> QED BY <2>1, <2>2, ServiceAssumption DEF JournalInv, JournalOK, AppliedOK
<1> QED BY <1>5, <1>6, <1>7, <1>8 DEF Inv

\* A step that changes nothing.
LEMMA StutterKept == ASSUME Inv, UNCHANGED vars PROVE InvStep
<1>1. /\ UNCHANGED <<effect, lock, submission, applied, setting, worker>>
      /\ lock' \in [owner : Worker \cup {None}, live : BOOLEAN]
  BY DEF vars, storeVars, serviceVars, Inv, TypeInv, TypeOK
<1>2. Calm(None, {})
  BY CalmNothing DEF vars, storeVars
<1>3. UsersKept({})
  BY <1>1 DEF UsersKept, Inv, TypeInv, TypeOK
<1>4. PICK q \in WorkerState : q = IdleWorker
  BY DEF IdleWorker, WorkerState, Stage, Outcome
<1>5. Goes(None, q) /\ None \notin Worker
  BY <1>1, ConstantsAssumption DEF Goes, Worker
<1> QED BY <1>1, <1>2, <1>3, <1>5, InvKept

\* Every step of Next keeps it.
LEMMA InvNext == Inv /\ [Next]_vars => InvStep
<1> SUFFICES ASSUME Inv, [Next]_vars PROVE InvStep
  OBVIOUS
<1>1. CASE \E w \in Worker : Main(w)
  BY <1>1, AcquireLockKept, ReclaimLeasesKept, ClaimTaskKept, DescribeKept, StartRunKept,
     EnterHandlerKept, LoadPlanKept, PickNodeKept, OpenAttemptKept, CheckCallKept,
     SelectEffectKept, DispatchEffectKept, ToolCallKept, RecordEffectKept, ReportResultKept,
     SettleKept, FinishKept, JudgeFailureKept DEF Main
<1>2. CASE \E w \in Worker : HeartbeatThread(w) \/ End(w)
  BY <1>2, PollKept, RenewLockKept, RenewLeaseKept, CloseKept, GoneKept DEF HeartbeatThread, End
<1>3. CASE \E t \in Task : User(t)
  BY <1>3, SubmitKept, RequestKept, ResumeKept DEF User
<1>4. CASE Time
  BY <1>4, TimeKept
<1>5. CASE UNCHANGED vars
  BY <1>5, StutterKept
<1> QED BY <1>1, <1>2, <1>3, <1>4, <1>5 DEF Next

-----------------------------------------------------------------------------
(* What is proved of the service.                                          *)

\* The invariant holds throughout, in every setting and for any number of
\* workers, tasks and nodes.
THEOREM ServiceInvariant == Spec => []Inv
<1>1. Inv /\ [Next]_vars => Inv'
  BY InvNext DEF InvStep
<1> QED BY <1>1, InvInit, PTL DEF Spec

\* What workers and users do to the tables is what the most general client of
\* the ledger does: all that LedgerProofs proves of the ledger holds in the
\* service, whoever stalls, crashes or presents a lease that has lapsed.
THEOREM ServiceUsesTheLedger == Spec => LedgerSpec
<1>1. Init => StoreInit
  BY DEF Init
<1>2. Inv /\ [Next]_vars => [LedgerNext]_storeVars
  BY InvNext DEF InvStep
<1> QED BY <1>1, <1>2, ServiceInvariant, PTL DEF Spec, LedgerSpec

\* Every variable keeps its type: no stage of a worker writes a status, an
\* outcome or a token that the tables or the next stage do not know.
THEOREM ServiceTypesCorrect == Spec => []TypeOK
<1>1. Inv => TypeOK
  BY DEF Inv, TypeInv
<1> QED BY <1>1, ServiceInvariant, PTL

\* A task that carries a cancellation never ends succeeded: whichever of the
\* two a user and a worker write first, finish_worker_task looks at the row.
THEOREM CancellationWins == Spec => []CancelWins
<1>1. Inv => CancelWins
  BY DEF Inv, CallInv
<1> QED BY <1>1, ServiceInvariant, PTL

\* A task is queued again only when no worker, stalled ones included, may still
\* be inside the call of a side effect of its plan.
THEOREM QueuedTasksHaveNoCall == Spec => []NoCallInFlightWhenQueued
<1>1. Inv => NoCallInFlightWhenQueued
  BY DEF Inv, CallInv, QueueOK, SideCall, InCall, NoCallInFlightWhenQueued
<1> QED BY <1>1, ServiceInvariant, PTL

\* No effect happens twice, through crashes, lapsed leases, stalled workers and
\* resumptions, when the calls of tasks without a plan succeed or are left open.
THEOREM EffectsHappenOnce == DirectCallsNeverFail => (Spec => []AppliedAtMostOnce)
<1> SUFFICES ASSUME DirectCallsNeverFail
             PROVE  Spec => []AppliedAtMostOnce
  OBVIOUS
<1>1. Inv => AppliedAtMostOnce
  BY DEF Inv, JournalInv, AppliedOK, AppliedAtMostOnce
<1> QED BY <1>1, ServiceInvariant, PTL

\* So the service grants and ends leases as Lease says: one worker at a time has
\* a task, and no generation of a lease is granted twice.
THEOREM ServiceIsALeaseService == Spec => ImplementsLease
BY ServiceUsesTheLedger, LedgerIsALeaseService, PTL

\* And while a lease is in force only its holder ends it.
THEOREM ServiceKeepsLiveLeases == Spec => LiveLeaseIsKept
BY ServiceUsesTheLedger, LiveLeasesAreKept, PTL
=============================================================================
