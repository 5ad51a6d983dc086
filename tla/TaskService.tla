---------------------------- MODULE TaskService ----------------------------
(***************************************************************************)
(* The worker processes of deskpilot/tasks/service.py over the ledger:     *)
(* TaskService.run_once with its heartbeat thread, the handler it runs,    *)
(* the effect journal around every tool call, and the users who submit,    *)
(* control and resume tasks from any process.                              *)
(*                                                                         *)
(* A step of a worker is one database transaction, one poll of a control   *)
(* flag, or the tool call itself; anything else may happen in between,     *)
(* and any process may stall there for longer than its lease.  A worker    *)
(* that crashes stays dead: a restarted process is another member of       *)
(* Worker, as the code draws a fresh owner name.                           *)
(***************************************************************************)
EXTENDS TaskStore

CONSTANTS
  Direct,       \* the journalled call of a task that has no plan
  Settings      \* the circumstances under which the workers are observed

Worker == Owner

\* What differs from one installation, job or day to another, and is chosen
\* once: the checks observe several settings in one run.
Setting ==
  [workers  : SUBSET Worker,    \* the processes that run
   tasks    : SUBSET Task,      \* the tasks that users submit
   planned  : SUBSET Task,      \* those whose handler executes a plan
   nodes    : SUBSET Node,      \* the nodes of that plan
   unserved : SUBSET Task,      \* those whose handler key is not registered
   outcomes : SUBSET {"succeeded", "failed", "unknown"},   \* ends of a call
   crashing : SUBSET Worker,    \* the workers that may crash at any step
   closing  : SUBSET Worker,    \* the workers that are closed at some time
   requests : SUBSET {"pause", "cancel"},                  \* users' requests
   deadline : BOOLEAN,          \* whether a time budget may run out
   early    : BOOLEAN]          \* whether users act on a row being submitted

ASSUME ServiceAssumption ==
  /\ Settings \subseteq Setting
  /\ Operation = SideEffect \cup {Direct}
  /\ Direct \notin Node
  /\ None \notin Node \cup Task

VARIABLES
  worker,       \* the local state of every worker process
  lock,         \* the runtime_worker_lock row
  submission,   \* how far the submission of every task has come
  applied,      \* how often the world saw the effect of an operation
  setting       \* the setting that is observed

serviceVars == <<worker, lock, submission, applied, setting>>
vars == <<storeVars, serviceVars>>

\* Where the main thread of a worker stands.
Stage == {"idle", "expire", "claim", "describe", "deadline", "enter", "plan",
          "step", "start", "call", "select", "dispatch", "apply", "record",
          "report", "settle", "finish", "fail", "abort", "dead"}
Outcome == {"none", "succeeded", "failed", "unknown", "recovery_required",
            "cancelled", "paused"}

WorkerState == [stage   : Stage,
                task    : Task \cup {None},
                token   : Nat,
                node    : Node \cup {None},
                attempt : Nat,
                saw     : EffectState \cup {"absent"},
                outcome : Outcome,
                cancel  : BOOLEAN,
                pause   : BOOLEAN,
                beat    : {"off", "poll", "lock", "renew"},
                closing : BOOLEAN]
IdleWorker == [stage |-> "idle", task |-> None, token |-> 0, node |-> None,
               attempt |-> 0, saw |-> "absent", outcome |-> "none",
               cancel |-> FALSE, pause |-> FALSE, beat |-> "off", closing |-> FALSE]

Init ==
  /\ StoreInit
  /\ setting \in Settings
  /\ worker = [w \in Worker |->
                IF w \in setting.workers THEN IdleWorker
                ELSE [IdleWorker EXCEPT !.stage = "dead"]]
  /\ lock = [owner |-> None, live |-> FALSE]
  /\ submission = [t \in Task |-> "none"]
  /\ applied = [t \in Task |-> [x \in Operation |-> 0]]

-----------------------------------------------------------------------------
(* Local moves of a worker.                                                *)

At(w, s) == worker[w].stage = s
Goto(w, s) == worker' = [worker EXCEPT ![w].stage = s]
GotoWith(w, s, o) == worker' = [worker EXCEPT ![w].stage = s, ![w].outcome = o]

\* The end of run_once: the heartbeat thread is joined, the control dropped.
Leave(w) ==
  worker' = [worker EXCEPT ![w] = [IdleWorker EXCEPT !.closing = worker[w].closing]]

\* The journalled operation of the current call.
Op(w) == IF worker[w].node = None THEN Direct ELSE worker[w].node

\* control.checkpoint lets the run go on, or raises: a flag is set, or the
\* deadline has passed.  What it raises decides the status of the run.
MayPass(w) == ~worker[w].cancel /\ ~worker[w].pause
MayStop(w) == setting.deadline \/ ~MayPass(w)
StopStatus(w) ==
  IF worker[w].cancel THEN "cancelled" ELSE IF worker[w].pause THEN "paused" ELSE "failed"

\* The run is registered in _active and can be told to stop.
Active(w) == worker[w].stage \notin {"idle", "expire", "claim", "describe", "dead"}

\* The lease of w's run, as _guard sees it.
Holds(w) ==
  LET row == task[worker[w].task]
  IN row.owner = w /\ row.token = worker[w].token /\ row.lease = "live"

\* What a step may leave alone.
Ledger  == UNCHANGED storeVars
Outside == UNCHANGED <<lock, submission, applied, setting>>

-----------------------------------------------------------------------------
(* run_once up to the handler.                                             *)

\* Mutant: a worker lock never expires.
LockRefused_Forever(w) == lock.owner \notin {None, w}

LockRefused(w) == lock.owner \notin {None, w} /\ lock.live

AcquireLock(w) ==
  /\ At(w, "idle") /\ ~worker[w].closing
  /\ ~LockRefused(w)
  /\ lock' = [owner |-> w, live |-> TRUE]
  /\ Goto(w, "expire")
  /\ Ledger /\ UNCHANGED <<submission, applied, setting>>

ReclaimLeases(w) ==
  /\ At(w, "expire")
  /\ ExpireLeases \/ (Ledger /\ \A t \in Task : ~Lapsed(t))
  /\ Goto(w, "claim")
  /\ Outside

ClaimTask(w) ==
  /\ At(w, "claim")
  /\ \/ ClaimNothing /\ Leave(w)
     \/ \E t \in Task :
          /\ ClaimHead(t, w)
          /\ worker' = [worker EXCEPT ![w].stage = "describe", ![w].task = t,
                                      ![w].token = task'[t].token]
  /\ Outside

\* A job without a recovery description or a handler is given back unexecuted.
Describe(w) ==
  LET t == worker[w].task IN
  /\ At(w, "describe")
  /\ IF task[t].bound /\ t \notin setting.unserved THEN Goto(w, "deadline") /\ Ledger
     ELSE /\ \/ FinishWorkerTask(t, "recovery_required", FALSE, w, worker[w].token)
             \/ ~Held(t, w, worker[w].token) /\ Ledger
          /\ Leave(w)
  /\ Outside

\* The deadline is written under the lease, then the heartbeat thread starts.
StartRun(w) ==
  LET t == worker[w].task IN
  /\ At(w, "deadline")
  /\ \/ /\ SetDeadline(t, w, worker[w].token)
        /\ worker' = [worker EXCEPT ![w].stage = "enter", ![w].beat = "poll"]
     \/ ~Held(t, w, worker[w].token) /\ Leave(w) /\ Ledger
  /\ Outside

EnterHandler(w) ==
  /\ At(w, "enter")
  /\ \/ /\ MayPass(w)
        /\ Goto(w, IF worker[w].task \in setting.planned THEN "plan" ELSE "call")
     \/ MayStop(w) /\ GotoWith(w, "abort", StopStatus(w))
  /\ Ledger /\ Outside

-----------------------------------------------------------------------------
(* The handler: plan_executor._execute and supervisor.execute in a task     *)
(* that a worker owns.                                                     *)

\* The nodes the executor will not replay.
Unresolved(t) ==
  \E n \in Node : \/ node[t][n] \in {"unknown", "recovery_required"}
                  \/ node[t][n] \in {"running", "interrupted"} /\ n \in SideEffect

\* The first run stores the plan, a later one inspects what is left of it.
LoadPlan(w) ==
  LET t == worker[w].task
      fresh == \A n \in Node : node[t][n] = "absent"
  IN /\ At(w, "plan")
     /\ \/ fresh /\ SavePlan(t, setting.nodes, w, worker[w].token) /\ Goto(w, "step")
        \/ fresh /\ ~Held(t, w, worker[w].token) /\ Ledger /\ Leave(w)
        \/ ~fresh /\ Unresolved(t) /\ Ledger /\ GotoWith(w, "settle", "recovery_required")
        \/ ~fresh /\ ~Unresolved(t) /\ Ledger /\ Goto(w, "step")
     /\ Outside

\* The supervisor's loop: a stop, the end of the plan, or another ready node.
PickNode(w) ==
  LET t == worker[w].task IN
  /\ At(w, "step")
  /\ \/ MayStop(w) /\ GotoWith(w, "settle", StopStatus(w))
     \/ /\ MayPass(w)
        /\ \A n \in setting.nodes : node[t][n] \in Success
        /\ GotoWith(w, "settle", "succeeded")
     \/ /\ MayPass(w)
        /\ \E n \in setting.nodes :
             /\ node[t][n] \notin Success
             /\ worker' = [worker EXCEPT ![w].stage = "start", ![w].node = n]
  /\ Ledger /\ Outside

\* One attempt of the node; the plan allows MaxAttempts of them.  A refusal
\* that is not a lost lease is an error of the handler.
OpenAttempt(w) ==
  LET t == worker[w].task
      n == worker[w].node
      k == worker[w].token
      spent == Len(attempts[t][n]) >= MaxAttempts
  IN /\ At(w, "start")
     /\ \/ MayStop(w) /\ GotoWith(w, "settle", StopStatus(w)) /\ Ledger
        \/ MayPass(w) /\ spent /\ GotoWith(w, "settle", "failed") /\ Ledger
        \/ /\ MayPass(w)
           /\ StartAttempt(t, n, w, k)
           /\ worker' = [worker EXCEPT ![w].stage = "call",
                                       ![w].attempt = Len(attempts[t][n]) + 1]
        \/ MayPass(w) /\ ~spent /\ ~Held(t, w, k) /\ Leave(w) /\ Ledger
        \/ /\ MayPass(w) /\ ~spent /\ Held(t, w, k)
           /\ ~StartAllowed(t, n)
           /\ Goto(w, "fail") /\ Ledger
     /\ Outside

\* Where a call goes once its outcome is known: a node is reported, the
\* answer of a task without a plan is settled, and a control error passes
\* through the handler.
AfterCall(w, o) ==
  IF worker[w].node # None THEN GotoWith(w, "report", o)
  ELSE IF o \in {"cancelled", "paused"} THEN GotoWith(w, "abort", o)
  ELSE GotoWith(w, "settle", IF o = "succeeded" THEN o ELSE "failed")

CheckCall(w) ==
  /\ At(w, "call")
  /\ \/ MayPass(w) /\ Goto(w, IF Op(w) \in Operation THEN "select" ELSE "apply")
     \/ MayStop(w) /\ AfterCall(w, StopStatus(w))
  /\ Ledger /\ Outside

\* begin_effect looks the operation up outside the writing transaction ...
SelectEffect(w) ==
  LET saw == effect[worker[w].task][Op(w)] IN
  /\ At(w, "select")
  /\ IF EffectAdmits(saw)
     THEN worker' = [worker EXCEPT ![w].stage = "dispatch", ![w].saw = saw]
     ELSE AfterCall(w, IF saw \in {"committed", "unknown", "compensated"}
                       THEN "failed" ELSE "unknown")
  /\ Ledger /\ Outside

\* ... and then inserts the row, which fails when it exists by now, or marks
\* the row it has seen.
DispatchEffect(w) ==
  LET t == worker[w].task
      x == Op(w)
  IN /\ At(w, "dispatch")
     /\ \/ worker[w].saw = "absent" /\ EffectInsert(t, x) /\ Goto(w, "apply")
        \/ worker[w].saw # "absent" /\ EffectRedispatch(t, x) /\ Goto(w, "apply")
        \/ /\ worker[w].saw = "absent" /\ effect[t][x] # "absent"
           /\ AfterCall(w, "failed") /\ UNCHANGED effect
     /\ UNCHANGED <<task, node, attempts>> /\ Outside

\* The tool changes the world, does not, or leaves it open; a control error
\* may reach it while it waits.
ToolCall(w) ==
  LET t == worker[w].task
      x == Op(w)
      after == IF x \in Operation THEN "record" ELSE "report"
  IN /\ At(w, "apply")
     /\ \E o \in setting.outcomes \cup (IF MayPass(w) THEN {} ELSE {StopStatus(w)}),
           done \in BOOLEAN :
          /\ o = "succeeded" => done
          /\ o = "failed" => ~done
          /\ x \notin Operation => ~done \/ o = "succeeded"
          /\ GotoWith(w, after, o)
          /\ applied' = IF done /\ x \in Operation
                        THEN [applied EXCEPT ![t][x] = @ + 1] ELSE applied
     /\ Ledger /\ UNCHANGED <<lock, submission, setting>>

JournalState(o) ==
  CASE o = "succeeded" -> "committed" [] o = "failed" -> "failed" [] OTHER -> "unknown"

RecordEffect(w) ==
  LET o == worker[w].outcome IN
  /\ At(w, "record")
  /\ EffectFinish(worker[w].task, Op(w), JournalState(o))
  /\ AfterCall(w, o)
  /\ UNCHANGED <<task, node, attempts>> /\ Outside

\* The status a node gets from the outcome of its call.
NodeResult(o) == IF o = "unknown" THEN "recovery_required" ELSE o

\* The result of the node is written before anything else is dispatched; a
\* failed node that changes nothing may be tried again, and a stop that has
\* arrived by now decides the status of the run.
ReportResult(w) ==
  LET t == worker[w].task
      n == worker[w].node
      s == NodeResult(worker[w].outcome)
  IN /\ At(w, "report")
     /\ \/ /\ ReportAttempt(t, n, worker[w].attempt, s, w, worker[w].token)
           /\ \/ s = "succeeded" /\ Goto(w, "step")
              \/ s # "succeeded" /\ MayPass(w) /\ GotoWith(w, "settle", s)
              \/ s # "succeeded" /\ MayStop(w) /\ GotoWith(w, "settle", StopStatus(w))
              \/ s = "failed" /\ n \notin SideEffect /\ Goto(w, "start")
        \/ ~Held(t, w, worker[w].token) /\ Leave(w) /\ Ledger
     /\ Outside

-----------------------------------------------------------------------------
(* run_once after the handler.                                             *)

\* The row is read; what it says decides which write follows.
Settle(w) ==
  LET t == worker[w].task IN
  /\ At(w, "settle")
  /\ \/ task[t].status = "running" /\ Goto(w, "finish") /\ Ledger
     \/ task[t].status # "running" /\ SaveReleasedOutput(t, w, worker[w].token) /\ Leave(w)
     \/ /\ task[t].status # "running" /\ ~ReleasedBy(t, w, worker[w].token)
        /\ Leave(w) /\ Ledger
  /\ Outside

\* finish_worker_task, or nothing when the lease is gone.
FinishOrFenced(w, withOutput) ==
  LET t == worker[w].task IN
  /\ \/ FinishWorkerTask(t, worker[w].outcome, withOutput, w, worker[w].token)
     \/ ~(Held(t, w, worker[w].token) /\ task[t].status = "running") /\ Ledger
  /\ Leave(w)
  /\ Outside

Finish(w) == At(w, "finish") /\ FinishOrFenced(w, TRUE)
Abort(w)  == At(w, "abort") /\ FinishOrFenced(w, FALSE)

\* An error of the handler is judged by the nodes it left behind.
JudgeFailure(w) ==
  LET t == worker[w].task
      unsafe == \E n \in SideEffect : node[t][n] \in {"unknown", "running"}
  IN /\ At(w, "fail")
     /\ GotoWith(w, "abort", IF unsafe THEN "recovery_required" ELSE "failed")
     /\ Ledger /\ Outside

-----------------------------------------------------------------------------
(* The heartbeat thread.                                                   *)

Beat(w, b) == worker' = [worker EXCEPT ![w].beat = b]
BeatLost(w) == worker' = [worker EXCEPT ![w].beat = "off", ![w].cancel = TRUE]

\* Every half second the row is read; every fifth second it is renewed.
Poll(w) ==
  LET t == worker[w].task
      row == task[t]
      gone == row.owner = None /\ row.status # "running"
  IN /\ worker[w].beat = "poll"
     /\ \/ row.token # worker[w].token /\ BeatLost(w)
        \/ row.token = worker[w].token /\ gone /\ Beat(w, "off")
        \/ row.token = worker[w].token /\ ~gone /\ ~Held(t, w, row.token) /\ BeatLost(w)
        \/ /\ Held(t, w, worker[w].token)
           /\ \E b \in {"poll", "lock"} :
                worker' = [worker EXCEPT ![w].beat = b,
                                         ![w].cancel = @ \/ row.cancel,
                                         ![w].pause = @ \/ row.pause]
     /\ Ledger /\ Outside

RenewLock(w) ==
  /\ worker[w].beat = "lock"
  /\ IF LockRefused(w) THEN BeatLost(w) /\ UNCHANGED lock
     ELSE Beat(w, "renew") /\ lock' = [owner |-> w, live |-> TRUE]
  /\ Ledger /\ UNCHANGED <<submission, applied, setting>>

RenewLease(w) ==
  LET t == worker[w].task IN
  /\ worker[w].beat = "renew"
  /\ \/ Heartbeat(t, w, worker[w].token) /\ Beat(w, "poll")
     \/ ~Held(t, w, worker[w].token) /\ BeatLost(w) /\ Ledger
  /\ Outside

-----------------------------------------------------------------------------
(* The end of a process.                                                   *)

\* close asks the active run to pause and stops the loop.
Close(w) ==
  /\ w \in setting.closing /\ ~At(w, "dead") /\ ~worker[w].closing
  /\ IF Active(w) THEN RequestPause(worker[w].task) ELSE Ledger
  /\ worker' = [worker EXCEPT ![w].closing = TRUE, ![w].pause = @ \/ Active(w)]
  /\ Outside

\* ... and gives the worker lock back if no run is active by then.
Closed(w) ==
  /\ worker[w].closing /\ ~At(w, "dead") /\ ~Active(w)
  /\ worker' = [worker EXCEPT ![w] = [IdleWorker EXCEPT !.stage = "dead"]]
  /\ lock' = IF lock.owner = w THEN [owner |-> None, live |-> FALSE] ELSE lock
  /\ Ledger /\ UNCHANGED <<submission, applied, setting>>

Crash(w) ==
  /\ w \in setting.crashing /\ ~At(w, "dead")
  /\ worker' = [worker EXCEPT ![w] = [IdleWorker EXCEPT !.stage = "dead"]]
  /\ Ledger /\ Outside

-----------------------------------------------------------------------------
(* Users, and the passing of time.                                         *)

\* submit: the row is created so that no worker can claim it, then described,
\* then queued; each in a transaction of its own.
SubmitCreate(t) ==
  /\ submission[t] = "none" /\ t \in setting.tasks
  /\ CreateTask(t, "paused", {})
  /\ submission' = [submission EXCEPT ![t] = "created"]
  /\ UNCHANGED <<worker, lock, applied, setting>>
SubmitBind(t) ==
  /\ submission[t] = "created"
  /\ BindJob(t)
  /\ submission' = [submission EXCEPT ![t] = "bound"]
  /\ UNCHANGED <<worker, lock, applied, setting>>
SubmitQueue(t) ==
  /\ submission[t] = "bound"
  /\ UpdateTask(t, "queued", None, 0)
  /\ submission' = [submission EXCEPT ![t] = "done"]
  /\ UNCHANGED <<worker, lock, applied, setting>>

\* The task list shows a row as soon as it exists.
Submitted(t) == submission[t] = "done" \/ setting.early

\* request: the run is told at once when it lives in the requesting process,
\* by its heartbeat otherwise.  A cancellation is told before a pause.
Request(t, action) ==
  /\ Submitted(t)
  /\ RequestControl(t, action)
  /\ \/ UNCHANGED worker
     \/ \E w \in Worker :
          /\ Active(w) /\ worker[w].task = t
          /\ worker' = [worker EXCEPT ![w].cancel = @ \/ task'[t].cancel,
                                      ![w].pause = @ \/ ~task'[t].cancel]
  /\ Outside

ResumeTask(t) == Submitted(t) /\ Resume(t) /\ UNCHANGED serviceVars

LockLapses ==
  /\ lock.live
  /\ lock' = [lock EXCEPT !.live = FALSE]
  /\ Ledger /\ UNCHANGED <<worker, submission, applied, setting>>

LeaseTime(t) == LeaseLapses(t) /\ UNCHANGED serviceVars
QueueTime(t) ==
  /\ setting.deadline /\ task[t].status = "queued"
  /\ DeadlinePasses(t) /\ UNCHANGED serviceVars

-----------------------------------------------------------------------------
Main(w) ==
  \/ AcquireLock(w) \/ ReclaimLeases(w) \/ ClaimTask(w) \/ Describe(w)
  \/ StartRun(w) \/ EnterHandler(w) \/ LoadPlan(w) \/ PickNode(w)
  \/ OpenAttempt(w) \/ CheckCall(w) \/ SelectEffect(w) \/ DispatchEffect(w)
  \/ ToolCall(w) \/ RecordEffect(w) \/ ReportResult(w) \/ Settle(w)
  \/ Finish(w) \/ Abort(w) \/ JudgeFailure(w)
HeartbeatThread(w) == Poll(w) \/ RenewLock(w) \/ RenewLease(w)
End(w) == Close(w) \/ Closed(w) \/ Crash(w)
User(t) ==
  \/ SubmitCreate(t) \/ SubmitBind(t) \/ SubmitQueue(t)
  \/ \E action \in setting.requests : Request(t, action)
  \/ ResumeTask(t)
Time == LockLapses \/ \E t \in Task : LeaseTime(t) \/ QueueTime(t)

Next ==
  \/ \E w \in Worker : Main(w) \/ HeartbeatThread(w) \/ End(w)
  \/ \E t \in Task : User(t)
  \/ Time

Spec == Init /\ [][Next]_vars

\* The threads of a process that is alive keep going (handlers end: every wait
\* in them is bounded by the deadline), and what nobody renews lapses.
Abandoned(w) == At(w, "dead") \/ worker[w].beat = "off"
Fairness ==
  /\ \A w \in Worker : WF_vars(Main(w)) /\ WF_vars(HeartbeatThread(w))
  /\ WF_vars(lock.owner # None /\ Abandoned(lock.owner) /\ LockLapses)
  /\ \A t \in Task :
       WF_vars(task[t].owner # None /\ Abandoned(task[t].owner) /\ LeaseTime(t))

FairSpec == Spec /\ Fairness

-----------------------------------------------------------------------------
\* Every variable keeps its type.
TypeOK ==
  /\ StoreTypeOK
  /\ worker \in [Worker -> WorkerState]
  /\ lock \in [owner : Worker \cup {None}, live : BOOLEAN]
  /\ submission \in [Task -> {"none", "created", "bound", "done"}]
  /\ applied \in [Task -> [Operation -> Nat]]
  /\ setting \in Settings

\* Cancelling wins: a task that carries a cancellation never ends succeeded.
CancelWins == \A t \in Task : task[t].cancel => task[t].status # "succeeded"

\* No effect happens twice, however often the task is interrupted and resumed.
AppliedAtMostOnce == \A t \in Task, x \in Operation : applied[t][x] <= 1

\* A task goes back to the queue only when no process may still be inside the
\* call of a side effect of its plan, unless users act on it while it is
\* submitted.  A call without a plan leaves no node behind that would tell.
NoCallInFlightWhenQueued ==
  \A w \in Worker :
    (~setting.early /\ worker[w].stage \in {"apply", "record"} /\ worker[w].node \in SideEffect)
      => task[worker[w].task].status # "queued"

\* A queued task is taken up, whichever worker crashed with the lock or a lease.
QueuedIsServed ==
  \A t \in Task : task[t].status = "queued" ~> task[t].status # "queued"

\* A cancellation of a running task ends it.
CancelIsHonoured ==
  \A t \in Task : (task[t].cancel /\ task[t].status = "running")
                    ~> task[t].status # "running"
=============================================================================
