----------------------------- MODULE TaskStore -----------------------------
(***************************************************************************)
(* The durable task ledger of deskpilot/tasks/store.py: one SQLite file    *)
(* with the tables tasks, nodes, attempts, runtime_jobs and                *)
(* runtime_tool_effects, changed only inside BEGIN IMMEDIATE transactions. *)
(* One action stands for one transaction, whole; an exception rolls the    *)
(* transaction back, so the guard of an action is the conjunction of the   *)
(* checks that would otherwise raise.                                      *)
(*                                                                         *)
(* The module has no next-state relation of its own: LedgerClient lets any *)
(* caller call any operation with any lease it may remember, TaskService   *)
(* restricts the callers to the worker processes of the program.           *)
(*                                                                         *)
(* Wall clock time is a lease that is "live" until it lapses and a         *)
(* deadline that is "ahead" until it is "past".  The texts a row carries   *)
(* (goal, error, payloads) are left out.  "success" and "succeeded" are    *)
(* one value: every test in the code accepts both.                         *)
(***************************************************************************)
EXTENDS Integers, Sequences, FiniteSets

CONSTANTS
  Task,         \* task rows, numbered in creation order
  Node,         \* plan steps
  SideEffect,   \* the nodes whose data_json has side_effect
  Owner,        \* lease owners: worker processes and approval executions
  None,         \* SQL NULL
  Operation,    \* the journalled tool calls of a task: its side-effect nodes,
                \* or the direct call of a task without a plan
  SessionOf,    \* the session of every task
  NoSession,    \* the empty session_id
  MaxRestarts,  \* max_restarts of resume_runtime_task
  MaxToken,     \* bound on lease_token
  MaxAttempts   \* bound on the attempts of one node

ASSUME ConstantsAssumption ==
  /\ Task \subseteq Nat
  /\ SideEffect \subseteq Node
  /\ None \notin Owner
  /\ MaxRestarts \in Nat /\ MaxToken \in Nat /\ MaxAttempts \in Nat

VARIABLES
  task,         \* the tasks row joined with its runtime_jobs row
  node,         \* status of every node of every task
  attempts,     \* attempts[t][n]: rows ordered by attempt_number
  effect        \* effect[t][x]: state of the journal row of operation x

storeVars == <<task, node, attempts, effect>>

Success  == {"succeeded"}
Terminal == {"succeeded", "failed", "cancelled", "partial"}
Stopped  == {"queued", "retry_wait", "waiting_human", "paused",
             "recovery_required", "interrupted"}
TaskStatus == Terminal \cup Stopped \cup {"running", "compensating"}
NodeStatus == TaskStatus \cup {"pending", "blocked", "unknown", "skipped"}
EffectState == {"prepared", "dispatched", "committed", "failed", "unknown",
                "compensating", "compensated", "compensation_unknown"}

\* The statuses that take the owner and the lease off the row.
Releasing == Terminal \cup Stopped

\* What the last task_updated or lease_released event says of a release.
Release == [owner : Owner, token : Nat, status : TaskStatus]
NotReleased == [owner |-> None, token |-> 0, status |-> "absent"]

TaskRow == [status   : TaskStatus \cup {"absent"},
            owner    : Owner \cup {None},
            lease    : {"none", "live", "lapsed"},
            token    : Nat,
            cancel   : BOOLEAN,
            pause    : BOOLEAN,
            bound    : BOOLEAN,
            restarts : Nat,
            deadline : {"none", "ahead", "past"},
            output   : Nat,
            released : Release \cup {NotReleased}]
Attempt == [status : NodeStatus, owner : Owner \cup {None}, token : Nat]

NewRow == [status |-> "absent", owner |-> None, lease |-> "none", token |-> 0,
           cancel |-> FALSE, pause |-> FALSE, bound |-> FALSE, restarts |-> 0,
           deadline |-> "none", output |-> 0, released |-> NotReleased]

StoreInit ==
  /\ task     = [t \in Task |-> NewRow]
  /\ node     = [t \in Task |-> [n \in Node |-> "absent"]]
  /\ attempts = [t \in Task |-> [n \in Node |-> <<>>]]
  /\ effect   = [t \in Task |-> [x \in Operation |-> "absent"]]

-----------------------------------------------------------------------------
(* Leases and guards.                                                      *)

Exists(t) == task[t].status # "absent"

\* The caller presents the owner and the token of the unexpired lease.
Held(t, o, k) ==
  /\ o # None
  /\ task[t].owner = o
  /\ task[t].token = k
  /\ task[t].lease = "live"

\* A row without an owner accepts callers that present no lease; a row with
\* one accepts nobody but its holder.
Guard(t, o, k) ==
  /\ Exists(t)
  /\ Held(t, o, k) \/ (o = None /\ task[t].owner = None)

Unowned(row) == [row EXCEPT !.owner = None, !.lease = "none"]

\* The row after its holder gave it up with status s, and the event of it.
ReleasedWith(row, s) ==
  [Unowned(row) EXCEPT !.status = s,
                       !.released = [owner |-> row.owner, token |-> row.token, status |-> s]]

\* Mutant: the release event is written for rows nobody owned, too.
WithStatus_AlwaysReleased(row, s) ==
  IF s \in Releasing THEN ReleasedWith(row, s)
  ELSE [row EXCEPT !.status = s, !.released = NotReleased]

\* The row after its status is written by update_task: a releasing status
\* clears the lease and leaves a release event when there was an owner.
WithStatus(row, s) ==
  IF s \in Releasing /\ row.owner # None THEN ReleasedWith(row, s)
  ELSE [row EXCEPT !.status = s, !.released = NotReleased]

Running(t, n) ==
  \E i \in DOMAIN attempts[t][n] : attempts[t][n][i].status = "running"

CloseRunning(s, st) ==
  [i \in DOMAIN s |-> IF s[i].status = "running"
                      THEN [s[i] EXCEPT !.status = st] ELSE s[i]]

NewAttempt(st, o, k) == [status |-> st, owner |-> o, token |-> k]

-----------------------------------------------------------------------------
(* Task rows.                                                              *)

\* A new row with the nodes of its plan; rows are numbered as created.
CreateTask(t, s, plan) ==
  /\ ~Exists(t)
  /\ \A u \in Task : u < t => Exists(u)
  /\ task' = [task EXCEPT ![t].status = s]
  /\ node' = [node EXCEPT ![t] = [n \in Node |->
                                    IF n \in plan THEN "pending" ELSE "absent"]]
  /\ UNCHANGED <<attempts, effect>>

\* TaskService.bind: the recovery description, written in its own transaction.
BindJob(t) ==
  /\ Exists(t)
  /\ task' = [task EXCEPT ![t].bound = TRUE]
  /\ UNCHANGED <<node, attempts, effect>>

UpdateTask(t, s, o, k) ==
  /\ Guard(t, o, k)
  /\ task' = [task EXCEPT ![t] = WithStatus(@, s)]
  /\ UNCHANGED <<node, attempts, effect>>

\* update_task with a deadline and no status.
SetDeadline(t, o, k) ==
  /\ Guard(t, o, k)
  /\ task' = [task EXCEPT ![t].deadline = "ahead", ![t].released = NotReleased]
  /\ UNCHANGED <<node, attempts, effect>>

\* Mutant: a cancellation that arrived during the last call is overlooked.
FinishStatus_CancelOverlooked(row, s) ==
  IF s = "recovery_required" THEN s ELSE IF row.pause THEN "paused" ELSE s

\* The worker's last write: a stop request that is already in the row wins
\* over every status but recovery_required.
FinishStatus(row, s) ==
  IF s = "recovery_required" THEN s
  ELSE IF row.cancel THEN "cancelled"
  ELSE IF row.pause THEN "paused" ELSE s

WithOutput(row, given, k) == IF given THEN [row EXCEPT !.output = k] ELSE row

FinishWorkerTask(t, s, withOutput, o, k) ==
  /\ s # "running"
  /\ Held(t, o, k)
  /\ task[t].status = "running"
  /\ task' = [task EXCEPT ![t] =
                 WithOutput(ReleasedWith(@, FinishStatus(@, s)), withOutput, k)]
  /\ UNCHANGED <<node, attempts, effect>>

\* The output of a run that released its own lease, accepted while the row is
\* exactly as that release left it.  The optimistic check of the version read
\* just before makes the pair of calls one step: when the row changed in
\* between, nothing is written.
ReleasedBy(t, o, k) ==
  /\ o # None
  /\ task[t].owner = None
  /\ task[t].token = k
  /\ task[t].released = [owner |-> o, token |-> k, status |-> task[t].status]
  /\ task[t].status \in Terminal \cup {"waiting_human", "paused", "recovery_required"}

SaveReleasedOutput(t, o, k) ==
  /\ ReleasedBy(t, o, k)
  /\ ~(task[t].output # 0 /\ task[t].status \in Terminal)
  /\ task' = [task EXCEPT ![t].output = k]
  /\ UNCHANGED <<node, attempts, effect>>

SavePlan(t, plan, o, k) ==
  /\ Guard(t, o, k)
  /\ node' = [node EXCEPT ![t] = [n \in Node |->
                IF n \in plan /\ @[n] = "absent" THEN "pending" ELSE @[n]]]
  /\ UNCHANGED <<task, attempts, effect>>

-----------------------------------------------------------------------------
(* Nodes and attempts.                                                     *)

StartAllowed_Running(t, n) ==
  /\ node[t][n] \notin Success \cup {"absent"}
  /\ ~(n \in SideEffect /\ node[t][n] \in {"unknown", "recovery_required", "interrupted"})
  /\ task[t].status \notin Terminal
  /\ ~task[t].cancel /\ ~task[t].pause

\* What start_attempt checks beyond the lease: no stop is pending, the node is
\* neither done nor uncertain, and nobody is at work on it.
StartAllowed(t, n) ==
  /\ node[t][n] \notin Success \cup {"absent"}
  /\ task[t].status \notin Terminal
  /\ ~task[t].cancel /\ ~task[t].pause
  /\ ~(n \in SideEffect /\ node[t][n] \in {"unknown", "recovery_required", "interrupted"})
  /\ ~Running(t, n)

StartAttempt(t, n, o, k) ==
  /\ Guard(t, o, k)
  /\ StartAllowed(t, n)
  /\ Len(attempts[t][n]) < MaxAttempts
  /\ attempts' = [attempts EXCEPT ![t][n] =
                    Append(@, NewAttempt("running", task[t].owner, task[t].token))]
  /\ task' = [task EXCEPT ![t].status = "running"]
  /\ node' = [node EXCEPT ![t][n] = "running"]
  /\ UNCHANGED effect

\* finish_attempt: only the lease under which the attempt was started may
\* close it.
FinishAttempt(t, n, i, s, o, k) ==
  /\ s # "running"
  /\ Guard(t, o, k)
  /\ i \in DOMAIN attempts[t][n]
  /\ attempts[t][n][i].status = "running"
  /\ attempts[t][n][i].owner = task[t].owner
  /\ attempts[t][n][i].token = task[t].token
  /\ attempts' = [attempts EXCEPT ![t][n][i].status = s]
  /\ node' = [node EXCEPT ![t][n] = s]
  /\ UNCHANGED <<task, effect>>

\* update_node for a given attempt: the attempt must still be running.  A
\* repeated identical report changes nothing and is not a step.
ReportAttempt(t, n, i, s, o, k) ==
  /\ s # "running"
  /\ Guard(t, o, k)
  /\ i \in DOMAIN attempts[t][n]
  /\ attempts[t][n][i].status = "running"
  /\ attempts' = [attempts EXCEPT ![t][n][i].status = s]
  /\ node' = [node EXCEPT ![t][n] = s]
  /\ UNCHANGED <<task, effect>>

\* Node states that are no evidence of an execution.
Unobserved == {"pending", "waiting_human", "blocked", "skipped"}

\* update_node without an attempt: it closes the running attempt or, for a
\* result nobody announced, records an attempt that was only observed.
ReportNode(t, n, s, o, k) ==
  /\ s # "running"
  /\ Guard(t, o, k)
  /\ node[t][n] # "absent"
  /\ attempts' = [attempts EXCEPT ![t][n] =
                    IF Running(t, n) THEN CloseRunning(@, s)
                    ELSE IF s \in Unobserved THEN @
                    ELSE Append(@, NewAttempt(s, task[t].owner, task[t].token))]
  /\ Running(t, n) \/ s \in Unobserved \/ Len(attempts[t][n]) < MaxAttempts
  /\ node' = [node EXCEPT ![t][n] = s]
  /\ UNCHANGED <<task, effect>>

\* update_node with record_attempt = False: the node alone.
SetNode(t, n, s, o, k) ==
  /\ s # "running"
  /\ Guard(t, o, k)
  /\ node[t][n] # "absent"
  /\ node' = [node EXCEPT ![t][n] = s]
  /\ UNCHANGED <<task, attempts, effect>>

-----------------------------------------------------------------------------
(* Interruption, expiry and the queue.                                     *)

\* Mutant: every lease is taken for a lapsed one.
Lapsed_Any(t) == task[t].owner # None

Lapsed(t) == task[t].owner # None /\ task[t].lease = "lapsed"

\* The deadline of a task that waits in the queue is past.
Overdue(t) ==
  /\ task[t].owner = None
  /\ task[t].status \in {"queued", "retry_wait"}
  /\ task[t].deadline = "past"

\* A running node is uncertain when it may have changed the world.
NodeAfterStop(n, s) ==
  IF s # "running" THEN s
  ELSE IF n \in SideEffect THEN "unknown" ELSE "interrupted"

Unsafe(t) ==
  \E n \in SideEffect :
    node[t][n] \in {"running", "unknown", "succeeded", "pending", "waiting_human"}

\* Mutants: the lease stays in the row; its token stays in force; the task
\* stays running.
InterruptedRow_StillOwned(t) ==
  [task[t] EXCEPT !.status = IF Unsafe(t) THEN "recovery_required" ELSE "interrupted",
                  !.token = @ + 1]
InterruptedRow_SameToken(t) ==
  [Unowned(task[t]) EXCEPT !.status = IF Unsafe(t) THEN "recovery_required" ELSE "interrupted"]
InterruptedRow_StillRunning(t) == [Unowned(task[t]) EXCEPT !.token = @ + 1]

InterruptedRow(t) ==
  [Unowned(task[t]) EXCEPT
     !.status = IF Unsafe(t) THEN "recovery_required" ELSE "interrupted",
     !.token = @ + 1]
\* Mutant: the nodes are left as they are.
InterruptedNodes_Kept(t) == node[t]
InterruptedNodes(t) == [n \in Node |-> NodeAfterStop(n, node[t][n])]
InterruptedAttempts(t) ==
  [n \in Node |-> IF node[t][n] = "running"
                  THEN CloseRunning(attempts[t][n], NodeAfterStop(n, "running"))
                  ELSE attempts[t][n]]

\* The tables once every lapsed lease, and every overdue task, is dealt with.
TasksAfterExpiry(overdue) ==
  [t \in Task |-> IF Lapsed(t) THEN InterruptedRow(t)
                  ELSE IF t \in overdue THEN [task[t] EXCEPT !.status = "failed"]
                  ELSE task[t]]
NodesAfterExpiry ==
  [t \in Task |-> IF Lapsed(t) THEN InterruptedNodes(t) ELSE node[t]]
AttemptsAfterExpiry ==
  [t \in Task |-> IF Lapsed(t) THEN InterruptedAttempts(t) ELSE attempts[t]]

WithinBound == \A t \in Task : Lapsed(t) => task[t].token < MaxToken

ExpireLeases ==
  /\ \E t \in Task : Lapsed(t)
  /\ WithinBound
  /\ task' = TasksAfterExpiry({})
  /\ node' = NodesAfterExpiry
  /\ attempts' = AttemptsAfterExpiry
  /\ UNCHANGED effect

\* recover_orphaned_tasks, for one running task without a lease whose
\* process is found dead.
RecoverOrphan(t) ==
  /\ task[t].owner = None
  /\ task[t].status = "running"
  /\ task[t].token < MaxToken
  /\ task' = [task EXCEPT ![t] = InterruptedRow(t)]
  /\ node' = [node EXCEPT ![t] = InterruptedNodes(t)]
  /\ attempts' = [attempts EXCEPT ![t] = InterruptedAttempts(t)]
  /\ UNCHANGED effect

\* u stands before t in a session that both belong to.
Before(u, t) == u < t /\ SessionOf[u] = SessionOf[t] /\ SessionOf[t] # NoSession

\* _queue_rows over the given tables: what a worker may claim.
Claimable(rows, nodes) ==
  {t \in Task :
    /\ rows[t].status \in {"queued", "retry_wait"}
    /\ rows[t].owner = None
    /\ ~rows[t].cancel /\ ~rows[t].pause
    /\ rows[t].deadline # "past"
    /\ \A n \in Node : nodes[t][n] \notin {"unknown", "recovery_required"}
    /\ \A u \in Task : Before(u, t) => rows[u].status \in Terminal \cup {"absent"}}

\* A fresh lease: nobody held this token before.
TakenBy(row, o) ==
  [row EXCEPT !.status = "running", !.owner = o, !.lease = "live", !.token = @ + 1]

Overdues == {t \in Task : Overdue(t)}
Ready    == Claimable(TasksAfterExpiry(Overdues), NodesAfterExpiry)

\* Expire leases and deadlines, then give the ready task t to o.
Take(t, o) ==
  LET rows == TasksAfterExpiry(Overdues)
  IN /\ WithinBound
     /\ t \in Ready
     /\ rows[t].token < MaxToken
     /\ task' = [rows EXCEPT ![t] = TakenBy(@, o)]
     /\ node' = NodesAfterExpiry
     /\ attempts' = AttemptsAfterExpiry
     /\ UNCHANGED effect

\* claim_next takes the oldest ready task; without one only the expiry is left.
ClaimHead(t, o) == Take(t, o) /\ \A u \in Ready : t <= u
ClaimNothing ==
  /\ WithinBound
  /\ Ready = {}
  /\ task' = TasksAfterExpiry(Overdues)
  /\ node' = NodesAfterExpiry
  /\ attempts' = AttemptsAfterExpiry
  /\ UNCHANGED effect
ClaimNext(o) == ClaimNothing \/ \E t \in Task : ClaimHead(t, o)

\* claim: a named task, which must head the queue of its own session.
Claim(t, o) ==
  /\ Take(t, o)
  /\ \A u \in Ready : SessionOf[u] = SessionOf[t] => t <= u

Heartbeat(t, o, k) ==
  /\ Held(t, o, k)
  /\ task' = [task EXCEPT ![t].lease = "live"]
  /\ UNCHANGED <<node, attempts, effect>>

ReleaseLease(t, s, o, k) ==
  /\ s # "running"
  /\ Held(t, o, k)
  /\ \A n \in Node : ~Running(t, n)
  /\ task' = [task EXCEPT ![t] = ReleasedWith(@, s)]
  /\ UNCHANGED <<node, attempts, effect>>

ExpireDeadlines ==
  /\ \E t \in Task : Overdue(t)
  /\ task' = [t \in Task |-> IF Overdue(t) THEN [task[t] EXCEPT !.status = "failed"]
                             ELSE task[t]]
  /\ UNCHANGED <<node, attempts, effect>>

-----------------------------------------------------------------------------
(* Control requests and explicit resumption.                               *)

SetRequests(t, cancel, pause) ==
  /\ Exists(t)
  /\ task' = [task EXCEPT ![t].cancel = cancel, ![t].pause = pause]
  /\ UNCHANGED <<node, attempts, effect>>

RequestPause(t)  == SetRequests(t, task[t].cancel, TRUE)
RequestCancel(t) == SetRequests(t, TRUE, task[t].pause)
ClearRequests(t) == SetRequests(t, FALSE, FALSE)

Idle(row) == row.owner = None /\ row.status \notin {"running", "compensating"}

Asked(row, action) ==
  [row EXCEPT !.cancel = @ \/ action = "cancel", !.pause = @ \/ action = "pause"]
Settled(row) ==
  [row EXCEPT !.status = IF row.cancel THEN "cancelled" ELSE "paused", !.token = @ + 1]

\* request_control: a task nobody executes settles at once and fences the
\* leases of the past; a running one only carries the request.
RequestControl(t, action) ==
  /\ Exists(t) /\ task[t].status \notin Terminal
  /\ Idle(task[t]) => task[t].token < MaxToken
  /\ task' = [task EXCEPT ![t] =
                 IF Idle(@) THEN Settled(Asked(@, action)) ELSE Asked(@, action)]
  /\ UNCHANGED <<node, attempts, effect>>

\* Mutant: resumption trusts the status alone.
Resumable_StatusOnly(t) ==
  /\ task[t].bound
  /\ task[t].owner = None
  /\ ~task[t].cancel
  /\ task[t].status \in {"paused", "failed", "interrupted", "partial", "recovery_required"}
  /\ task[t].restarts < MaxRestarts

\* What resume_runtime_task checks; that time is left in the budget is a
\* further condition on the job.
Resumable(t) ==
  /\ task[t].bound
  /\ task[t].owner = None
  /\ ~task[t].cancel
  /\ task[t].status \in {"paused", "failed", "interrupted", "partial", "recovery_required"}
  /\ \A x \in Operation : effect[t][x] \notin {"dispatched", "unknown"}
  /\ (\A n \in Node : node[t][n] = "absent")
       => \A x \in Operation : effect[t][x] # "committed"
  /\ \A n \in Node : node[t][n] \notin {"unknown", "running"}
  /\ task[t].status = "recovery_required"
       => \A n \in SideEffect :
            node[t][n] \in Success \cup {"pending", "waiting_human", "absent"}
  /\ task[t].restarts < MaxRestarts

Requeued(row) ==
  [row EXCEPT !.status = "queued", !.pause = FALSE, !.token = @ + 1,
              !.restarts = @ + 1, !.deadline = "ahead"]

Resume(t) ==
  /\ Resumable(t)
  /\ task[t].token < MaxToken
  /\ task' = [task EXCEPT ![t] = Requeued(@)]
  /\ UNCHANGED <<node, attempts, effect>>

\* The database part of claim_desktop_approval: the execution of an approved
\* action takes a lease of its own and starts its attempt in one transaction.
\* It marks the node as a side effect, which a node that asks for approval is.
ClaimApproval(t, n, o) ==
  /\ task[t].status = "waiting_human"
  /\ n \in SideEffect
  /\ task[t].owner = None
  /\ ~task[t].cancel /\ ~task[t].pause
  /\ node[t][n] \in {"pending", "waiting_human"}
  /\ ~Running(t, n)
  /\ task[t].token < MaxToken /\ Len(attempts[t][n]) < MaxAttempts
  /\ task' = [task EXCEPT ![t] = TakenBy(@, o)]
  /\ node' = [node EXCEPT ![t][n] = "running"]
  /\ attempts' = [attempts EXCEPT ![t][n] =
                    Append(@, NewAttempt("running", o, task[t].token + 1))]
  /\ UNCHANGED effect

-----------------------------------------------------------------------------
(* The journal of tool effects: rows are written by begin_effect and       *)
(* finish_effect in transactions of their own, outside the lease.          *)

EffectRefused == {"dispatched", "compensating", "compensation_unknown",
                  "committed", "unknown", "compensated"}

\* Mutant: a committed row is not refused.
EffectAdmits_Committed(s) == s \notin EffectRefused \ {"committed"}

\* begin_effect's SELECT: the state it read lets the call go on.
EffectAdmits(s) == s \notin EffectRefused

\* Mutant: INSERT OR REPLACE.
EffectInsert_Replace(t, x) == effect' = [effect EXCEPT ![t][x] = "dispatched"]

\* begin_effect's INSERT or UPDATE.  The INSERT fails on an existing row; the
\* UPDATE is unconditional, whatever has happened since the SELECT.
EffectInsert(t, x) ==
  /\ effect[t][x] = "absent"
  /\ effect' = [effect EXCEPT ![t][x] = "dispatched"]
EffectRedispatch(t, x) ==
  /\ effect[t][x] # "absent"
  /\ effect' = [effect EXCEPT ![t][x] = "dispatched"]

\* finish_effect: an unconditional UPDATE by operation_id.
EffectFinish(t, x, s) ==
  /\ effect[t][x] # "absent"
  /\ effect' = [effect EXCEPT ![t][x] = s]

-----------------------------------------------------------------------------
(* The passing of time.                                                    *)

LeaseLapses(t) ==
  /\ task[t].lease = "live"
  /\ task' = [task EXCEPT ![t].lease = "lapsed"]
  /\ UNCHANGED <<node, attempts, effect>>

DeadlinePasses(t) ==
  /\ task[t].deadline = "ahead"
  /\ task' = [task EXCEPT ![t].deadline = "past"]
  /\ UNCHANGED <<node, attempts, effect>>

-----------------------------------------------------------------------------
\* Every column holds a value the code knows.
StoreTypeOK ==
  /\ task \in [Task -> TaskRow]
  /\ node \in [Task -> [Node -> NodeStatus \cup {"absent"}]]
  /\ attempts \in [Task -> [Node -> Seq(Attempt)]]
  /\ effect \in [Task -> [Operation -> EffectState \cup {"absent"}]]
=============================================================================
