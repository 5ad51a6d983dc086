---------------------------- MODULE LedgerProofs ----------------------------
(***************************************************************************)
(* The task ledger implements the lease service of module Lease, keeps a   *)
(* live lease for its holder, fences the attempts of a node, and leaves no *)
(* running node without an attempt.  The types of TaskStore's operators    *)
(* come first; then two case analyses of the transactions say what each    *)
(* may do to a row and to the attempts of a node, and the theorems follow  *)
(* from them.  The inductive steps are lemmas of their own, which the      *)
(* proofs about the ledger's clients cite.                                 *)
(***************************************************************************)
EXTENDS LedgerClient, SequenceTheorems, TLAPS

-----------------------------------------------------------------------------
(* Types of the operators the actions are built from.                      *)

\* A status write keeps a row a row, whether or not it releases the lease.
LEMMA WithStatusType ==
  ASSUME NEW row \in TaskRow, NEW s \in TaskStatus
  PROVE  WithStatus(row, s) \in TaskRow
<1>1. CASE s \in Releasing /\ row.owner # None
  BY <1>1 DEF WithStatus, ReleasedWith, Unowned, TaskRow, Release, NotReleased
<1>2. CASE ~(s \in Releasing /\ row.owner # None)
  BY <1>2 DEF WithStatus, TaskRow, NotReleased
<1> QED BY <1>1, <1>2

\* So does giving the lease up, for a row that has an owner.
LEMMA ReleasedWithType ==
  ASSUME NEW row \in TaskRow, row.owner # None, NEW s \in TaskStatus
  PROVE  ReleasedWith(row, s) \in TaskRow
BY DEF ReleasedWith, Unowned, TaskRow, Release

\* Nor do a status, or a status and a new token for a row without an owner,
\* take a row out of its type.
LEMMA StatusType ==
  ASSUME NEW row \in TaskRow, NEW s \in TaskStatus
  PROVE  [row EXCEPT !.status = s] \in TaskRow
BY DEF TaskRow

\* Storing an output leaves a row a row.
LEMMA WithOutputType ==
  ASSUME NEW row \in TaskRow, NEW given, NEW k \in Nat
  PROVE  WithOutput(row, given, k) \in TaskRow
BY DEF WithOutput, TaskRow

\* Carrying a stop request leaves a row a row.
LEMMA AskedType ==
  ASSUME NEW row \in TaskRow, NEW action
  PROVE  Asked(row, action) \in TaskRow
<1>1. ASSUME NEW c \in BOOLEAN, NEW p \in BOOLEAN
      PROVE  [row EXCEPT !.cancel = c, !.pause = p] \in TaskRow
  BY DEF TaskRow
<1> QED BY <1>1 DEF Asked

\* Settling an idle row (request_control) leaves it a row.
LEMMA SettledType ==
  ASSUME NEW row \in TaskRow
  PROVE  Settled(row) \in TaskRow
<1>1. ASSUME NEW s \in TaskStatus, NEW k \in Nat
      PROVE  [row EXCEPT !.status = s, !.token = k] \in TaskRow
  BY DEF TaskRow
<1>2. row.token + 1 \in Nat
  BY DEF TaskRow
<1>3. (IF row.cancel THEN "cancelled" ELSE "paused") \in TaskStatus
  BY DEF TaskStatus, Terminal, Stopped
<1> QED BY <1>1, <1>2, <1>3 DEF Settled

\* Granting a lease (claim, claim_next) leaves a row a row.
LEMMA TakenByType ==
  ASSUME NEW row \in TaskRow, NEW o \in Owner
  PROVE  TakenBy(row, o) \in TaskRow
<1>1. ASSUME NEW k \in Nat
      PROVE  [row EXCEPT !.status = "running", !.owner = o, !.lease = "live",
                         !.token = k] \in TaskRow
  BY DEF TaskRow, TaskStatus
<1>2. row.token + 1 \in Nat
  BY DEF TaskRow
<1> QED BY <1>1, <1>2 DEF TakenBy

\* Resumption (resume_runtime_task) leaves a row a row.
LEMMA RequeuedType ==
  ASSUME NEW row \in TaskRow
  PROVE  Requeued(row) \in TaskRow
<1>1. ASSUME NEW k \in Nat, NEW m \in Nat
      PROVE  [row EXCEPT !.status = "queued", !.pause = FALSE, !.token = k,
                         !.restarts = m, !.deadline = "ahead"] \in TaskRow
  BY DEF TaskRow, TaskStatus, Stopped
<1>2. row.token + 1 \in Nat /\ row.restarts + 1 \in Nat
  BY DEF TaskRow
<1> QED BY <1>1, <1>2 DEF Requeued

\* Interruption (_interrupt_task_tx) leaves a row a row.
LEMMA RestoppedType ==
  ASSUME NEW row \in TaskRow, NEW s \in TaskStatus
  PROVE  [Unowned(row) EXCEPT !.status = s, !.token = @ + 1] \in TaskRow
<1>1. [row EXCEPT !.owner = None, !.lease = "none"] \in TaskRow
  BY DEF TaskRow
<1>2. ASSUME NEW r \in TaskRow, NEW k \in Nat
      PROVE  [r EXCEPT !.status = s, !.token = k] \in TaskRow
  BY DEF TaskRow
<1>3. \A r \in TaskRow : r.token + 1 \in Nat
  BY DEF TaskRow
<1> QED BY <1>1, <1>2, <1>3 DEF Unowned

\* Closing the running attempts of a node keeps their number and order.
LEMMA CloseRunningType ==
  ASSUME NEW s \in Seq(Attempt), NEW st \in NodeStatus
  PROVE  /\ CloseRunning(s, st) \in Seq(Attempt)
         /\ Len(CloseRunning(s, st)) = Len(s)
         /\ DOMAIN CloseRunning(s, st) = DOMAIN s
<1> DEFINE c == CloseRunning(s, st)
<1>1. s \in [1..Len(s) -> Attempt] /\ Len(s) \in Nat
  BY LenProperties
<1>2. \A i \in 1..Len(s) : (IF s[i].status = "running"
                            THEN [s[i] EXCEPT !.status = st] ELSE s[i]) \in Attempt
  BY <1>1 DEF Attempt
<1>3. c \in [1..Len(s) -> Attempt]
  BY <1>1, <1>2 DEF CloseRunning
<1>4. c \in Seq(Attempt)
  BY <1>1, <1>3, SeqDef
<1>5. DOMAIN c = 1..Len(s) /\ DOMAIN c = 1..Len(c) /\ Len(c) \in Nat
  BY <1>3, <1>4, LenProperties
<1>6. Len(c) = Len(s)
  BY <1>1, <1>5
<1> QED BY <1>1, <1>4, <1>5, <1>6

\* Opening an attempt appends to the attempts of the node.
LEMMA AppendType ==
  ASSUME NEW s \in Seq(Attempt), NEW a \in Attempt
  PROVE  /\ Append(s, a) \in Seq(Attempt)
         /\ Len(Append(s, a)) = Len(s) + 1
         /\ DOMAIN Append(s, a) = 1..(Len(s) + 1)
         /\ Append(s, a)[Len(s) + 1] = a
         /\ \A i \in 1..Len(s) : Append(s, a)[i] = s[i]
BY DEF Attempt

\* Reporting an attempt changes its status alone.
LEMMA StatusExceptType ==
  ASSUME NEW s \in Seq(Attempt), NEW i \in DOMAIN s, NEW st \in NodeStatus
  PROVE  /\ [s EXCEPT ![i].status = st] \in Seq(Attempt)
         /\ Len([s EXCEPT ![i].status = st]) = Len(s)
         /\ DOMAIN [s EXCEPT ![i].status = st] = DOMAIN s
<1>1. i \in 1..Len(s) /\ s[i] \in Attempt
  BY LenProperties, ElementOfSeq
<1>2. [s[i] EXCEPT !.status = st] \in Attempt
  BY <1>1 DEF Attempt
<1>3. [s EXCEPT ![i].status = st] = [s EXCEPT ![i] = [s[i] EXCEPT !.status = st]]
  OBVIOUS
<1> QED BY <1>1, <1>2, <1>3, ExceptSeq, LenProperties

\* What an interruption makes of a node status is a node status.
LEMMA AfterStopType ==
  ASSUME NEW n \in Node, NEW s \in NodeStatus \cup {"absent"}
  PROVE  NodeAfterStop(n, s) \in NodeStatus \cup {"absent"}
BY DEF NodeAfterStop, NodeStatus, TaskStatus, Stopped

\* An interrupted task keeps its types, as long as the row exists.
LEMMA InterruptedType ==
  ASSUME StoreTypeOK, NEW t \in Task
  PROVE  /\ InterruptedRow(t) \in TaskRow
         /\ InterruptedNodes(t) \in [Node -> NodeStatus \cup {"absent"}]
         /\ InterruptedAttempts(t) \in [Node -> Seq(Attempt)]
<1> DEFINE s == IF Unsafe(t) THEN "recovery_required" ELSE "interrupted"
<1>1. InterruptedRow(t) \in TaskRow
  <2>1. task[t] \in TaskRow
    BY DEF StoreTypeOK
  <2>2. s \in TaskStatus
    BY DEF TaskStatus, Stopped
  <2>3. InterruptedRow(t) = [Unowned(task[t]) EXCEPT !.status = s, !.token = @ + 1]
    BY DEF InterruptedRow
  <2> HIDE DEF s
  <2> QED BY <2>1, <2>2, <2>3, RestoppedType
<1>2. InterruptedNodes(t) \in [Node -> NodeStatus \cup {"absent"}]
  BY AfterStopType DEF StoreTypeOK, InterruptedNodes
<1>3. ASSUME NEW n \in Node
      PROVE  NodeAfterStop(n, "running") \in NodeStatus
  BY DEF NodeAfterStop, NodeStatus, TaskStatus, Stopped
<1>4. ASSUME NEW n \in Node
      PROVE  CloseRunning(attempts[t][n], NodeAfterStop(n, "running")) \in Seq(Attempt)
  BY <1>3, CloseRunningType DEF StoreTypeOK
<1>5. InterruptedAttempts(t) \in [Node -> Seq(Attempt)]
  BY <1>4 DEF StoreTypeOK, InterruptedAttempts
<1> QED BY <1>1, <1>2, <1>5

\* The tables after the expiry of leases and deadlines keep their types.
LEMMA ExpiryType ==
  ASSUME StoreTypeOK, NEW overdue \in SUBSET Task
  PROVE  /\ TasksAfterExpiry(overdue) \in [Task -> TaskRow]
         /\ NodesAfterExpiry \in [Task -> [Node -> NodeStatus \cup {"absent"}]]
         /\ AttemptsAfterExpiry \in [Task -> [Node -> Seq(Attempt)]]
<1>1. ASSUME NEW t \in Task
      PROVE  [task[t] EXCEPT !.status = "failed"] \in TaskRow
  <2>1. task[t] \in TaskRow
    BY DEF StoreTypeOK
  <2>2. "failed" \in TaskStatus
    BY DEF TaskStatus, Terminal
  <2> QED BY <2>1, <2>2, StatusType
<1>2. TasksAfterExpiry(overdue) \in [Task -> TaskRow]
  BY <1>1, InterruptedType DEF StoreTypeOK, TasksAfterExpiry
<1>3. NodesAfterExpiry \in [Task -> [Node -> NodeStatus \cup {"absent"}]]
  BY InterruptedType DEF StoreTypeOK, NodesAfterExpiry
<1>4. AttemptsAfterExpiry \in [Task -> [Node -> Seq(Attempt)]]
  BY InterruptedType DEF StoreTypeOK, AttemptsAfterExpiry
<1> QED BY <1>2, <1>3, <1>4

-----------------------------------------------------------------------------
(* A claim.                                                                *)

\* A claim, of the head of the queue or of a named task.
LEMMA TakeType ==
  ASSUME StoreTypeOK, NEW t \in Task, NEW o \in Owner, Take(t, o)
  PROVE  StoreTypeOK'
<1> DEFINE rows == TasksAfterExpiry(Overdues)
<1>1. Overdues \in SUBSET Task
  BY DEF Overdues
<1>2. rows \in [Task -> TaskRow]
  BY <1>1, ExpiryType
<1>3. task' = [rows EXCEPT ![t] = TakenBy(@, o)]
  BY DEF Take
<1> HIDE DEF rows
<1>7. task' \in [Task -> TaskRow]
  BY <1>2, <1>3, TakenByType
<1>8. /\ node' \in [Task -> [Node -> NodeStatus \cup {"absent"}]]
      /\ attempts' \in [Task -> [Node -> Seq(Attempt)]]
  BY <1>1, ExpiryType DEF Take
<1> QED BY <1>7, <1>8 DEF Take, StoreTypeOK

-----------------------------------------------------------------------------
(* Every transaction keeps the types of the tables.                        *)

\* The unaddressed transactions keep the column types.
LEMMA HousekeepingType ==
  ASSUME StoreTypeOK, Housekeeping
  PROVE  StoreTypeOK'
<1>1. CASE ExpireLeases
  BY <1>1, ExpiryType DEF ExpireLeases, StoreTypeOK
<1>2. CASE ExpireDeadlines
  <2>1. \A t \in Task : [task[t] EXCEPT !.status = "failed"] \in TaskRow
    BY StatusType DEF StoreTypeOK, TaskStatus, Terminal
  <2> QED BY <1>2, <2>1 DEF ExpireDeadlines, StoreTypeOK
<1>3. CASE \E o \in Owner : ClaimNext(o)
  <2>1. Overdues \in SUBSET Task
    BY DEF Overdues
  <2>2. CASE ClaimNothing
    BY <2>1, <2>2, ExpiryType DEF ClaimNothing, StoreTypeOK
  <2>3. CASE \E t \in Task, o \in Owner : ClaimHead(t, o)
    BY <2>3, TakeType DEF ClaimHead
  <2> QED BY <1>3, <2>2, <2>3 DEF ClaimNext
<1> QED BY <1>1, <1>2, <1>3 DEF Housekeeping

\* The transactions that present no lease keep the column types.
LEMMA UnguardedType ==
  ASSUME StoreTypeOK, NEW t \in Task, Unguarded(t)
  PROVE  StoreTypeOK'
<1> USE ConstantsAssumption
<1>r. task[t] \in TaskRow
  BY DEF StoreTypeOK
<1>1. CASE \E s \in {"queued", "running", "waiting_human", "paused"},
              plan \in SUBSET Node : CreateTask(t, s, plan)
  <2> PICK s \in {"queued", "running", "waiting_human", "paused"},
           plan \in SUBSET Node : CreateTask(t, s, plan)
    BY <1>1
  <2>1. s \in TaskStatus
    BY DEF TaskStatus, Stopped
  <2>2. [task[t] EXCEPT !.status = s] \in TaskRow
    BY <1>r, <2>1, StatusType
  <2>3. [n \in Node |-> IF n \in plan THEN "pending" ELSE "absent"]
          \in [Node -> NodeStatus \cup {"absent"}]
    BY DEF NodeStatus
  <2> QED BY <2>2, <2>3 DEF CreateTask, StoreTypeOK
<1>2. CASE BindJob(t)
  <2>1. [task[t] EXCEPT !.bound = TRUE] \in TaskRow
    BY <1>r DEF TaskRow
  <2> QED BY <1>2, <2>1 DEF BindJob, StoreTypeOK
<1>3. ASSUME NEW c \in BOOLEAN, NEW p \in BOOLEAN, SetRequests(t, c, p)
      PROVE  StoreTypeOK'
  <2>1. [task[t] EXCEPT !.cancel = c, !.pause = p] \in TaskRow
    BY <1>r DEF TaskRow
  <2> QED BY <1>3, <2>1 DEF SetRequests, StoreTypeOK
<1>4. CASE RequestPause(t) \/ RequestCancel(t) \/ ClearRequests(t)
  <2>1. task[t].cancel \in BOOLEAN /\ task[t].pause \in BOOLEAN
    BY <1>r DEF TaskRow
  <2> QED BY <1>3, <1>4, <2>1 DEF RequestPause, RequestCancel, ClearRequests
<1>5. CASE \E action \in {"pause", "cancel"} : RequestControl(t, action)
  BY <1>5, <1>r, AskedType, SettledType DEF RequestControl, StoreTypeOK
<1>6. CASE Resume(t)
  BY <1>6, <1>r, RequeuedType DEF Resume, StoreTypeOK
<1>7. CASE RecoverOrphan(t)
  BY <1>7, InterruptedType DEF RecoverOrphan, StoreTypeOK
<1>8. CASE \E o \in Owner : Claim(t, o)
  BY <1>8, TakeType DEF Claim
<1>9. CASE \E n \in Node, o \in Owner : ClaimApproval(t, n, o)
  <2> PICK n \in Node, o \in Owner : ClaimApproval(t, n, o)
    BY <1>9
  <2>1. task[t].token + 1 \in Nat
    BY <1>r DEF TaskRow
  <2> DEFINE a == NewAttempt("running", o, task[t].token + 1)
  <2>2. a \in Attempt
    BY <2>1 DEF NewAttempt, Attempt, NodeStatus, TaskStatus
  <2>3. attempts' = [attempts EXCEPT ![t][n] = Append(@, a)]
    BY DEF ClaimApproval
  <2> HIDE DEF a
  <2>4. attempts' \in [Task -> [Node -> Seq(Attempt)]]
    BY <2>2, <2>3, AppendType DEF StoreTypeOK
  <2>5. "running" \in NodeStatus
    BY DEF NodeStatus, TaskStatus
  <2> QED BY <1>r, <2>4, <2>5, TakenByType DEF ClaimApproval, StoreTypeOK
<1> QED BY <1>1, <1>2, <1>4, <1>5, <1>6, <1>7, <1>8, <1>9 DEF Unguarded

\* The guarded writes of a task row keep the column types.
LEMMA TaskWriteType ==
  ASSUME StoreTypeOK, NEW t \in Task, NEW o \in Owner \cup {None}, NEW k \in 0..MaxToken,
         TaskWrite(t, o, k, CallerStatus)
  PROVE  StoreTypeOK'
<1> USE ConstantsAssumption
<1>r. task[t] \in TaskRow /\ k \in Nat
  BY DEF StoreTypeOK
<1>s. CallerStatus \subseteq TaskStatus
  BY DEF CallerStatus, ReportStatus
<1>1. CASE \E s \in CallerStatus : UpdateTask(t, s, o, k)
  BY <1>1, <1>r, <1>s, WithStatusType DEF UpdateTask, StoreTypeOK
<1>2. CASE SetDeadline(t, o, k)
  <2>1. [task[t] EXCEPT !.deadline = "ahead", !.released = NotReleased] \in TaskRow
    BY <1>r DEF TaskRow
  <2> QED BY <1>2, <2>1 DEF SetDeadline, StoreTypeOK
<1>3. CASE \E s \in CallerStatus, b \in BOOLEAN : FinishWorkerTask(t, s, b, o, k)
  <2> PICK s \in CallerStatus, b \in BOOLEAN : FinishWorkerTask(t, s, b, o, k)
    BY <1>3
  <2>1. FinishStatus(task[t], s) \in TaskStatus
    BY <1>s DEF FinishStatus, TaskStatus, Terminal, Stopped
  <2>2. ReleasedWith(task[t], FinishStatus(task[t], s)) \in TaskRow
    BY <1>r, <2>1, ReleasedWithType DEF FinishWorkerTask, Held
  <2> QED BY <1>r, <2>2, WithOutputType DEF FinishWorkerTask, StoreTypeOK
<1>4. CASE \E plan \in SUBSET Node : SavePlan(t, plan, o, k)
  <2> PICK plan \in SUBSET Node : SavePlan(t, plan, o, k)
    BY <1>4
  <2>1. "pending" \in NodeStatus
    BY DEF NodeStatus
  <2> QED BY <2>1 DEF SavePlan, StoreTypeOK
<1>5. CASE SaveReleasedOutput(t, o, k)
  <2>1. [task[t] EXCEPT !.output = k] \in TaskRow
    BY <1>r DEF TaskRow
  <2> QED BY <1>5, <2>1 DEF SaveReleasedOutput, StoreTypeOK
<1>6. CASE Heartbeat(t, o, k)
  <2>1. [task[t] EXCEPT !.lease = "live"] \in TaskRow
    BY <1>r DEF TaskRow
  <2> QED BY <1>6, <2>1 DEF Heartbeat, StoreTypeOK
<1>7. CASE \E s \in CallerStatus : ReleaseLease(t, s, o, k)
  <2> PICK s \in CallerStatus : ReleaseLease(t, s, o, k)
    BY <1>7
  <2>1. ReleasedWith(task[t], s) \in TaskRow
    BY <1>r, <1>s, ReleasedWithType DEF ReleaseLease, Held
  <2> QED BY <2>1 DEF ReleaseLease, StoreTypeOK
<1> QED BY <1>1, <1>2, <1>3, <1>4, <1>5, <1>6, <1>7 DEF TaskWrite

\* The guarded writes of nodes and attempts keep the column types.
LEMMA NodeWriteType ==
  ASSUME StoreTypeOK, NEW t \in Task, NEW n \in Node, NEW o, NEW k, NodeWrite(t, n, o, k, ReportStatus)
  PROVE  StoreTypeOK'
<1>s. ReportStatus \subseteq NodeStatus
  BY DEF CallerStatus, ReportStatus
<1>a. attempts[t][n] \in Seq(Attempt)
  BY DEF StoreTypeOK
<1>b. \A st \in NodeStatus : NewAttempt(st, task[t].owner, task[t].token) \in Attempt
  BY DEF StoreTypeOK, TaskRow, NewAttempt, Attempt
<1>1. CASE StartAttempt(t, n, o, k)
  <2>1. "running" \in NodeStatus /\ "running" \in TaskStatus
    BY DEF NodeStatus, TaskStatus
  <2>2. Append(attempts[t][n], NewAttempt("running", task[t].owner, task[t].token))
          \in Seq(Attempt)
    BY <1>a, <1>b, <2>1, AppendType
  <2>3. [task[t] EXCEPT !.status = "running"] \in TaskRow
    BY <2>1, StatusType DEF StoreTypeOK
  <2> QED BY <1>1, <2>1, <2>2, <2>3 DEF StartAttempt, StoreTypeOK
<1>2. CASE \E s \in ReportStatus, i \in 1..MaxAttempts :
             FinishAttempt(t, n, i, s, o, k) \/ ReportAttempt(t, n, i, s, o, k)
  <2> PICK s \in ReportStatus, i \in 1..MaxAttempts :
             FinishAttempt(t, n, i, s, o, k) \/ ReportAttempt(t, n, i, s, o, k)
    BY <1>2
  <2>1. i \in DOMAIN attempts[t][n] /\ s \in NodeStatus
    BY <1>s DEF FinishAttempt, ReportAttempt
  <2>2. [attempts[t][n] EXCEPT ![i].status = s] \in Seq(Attempt)
    BY <1>a, <2>1, StatusExceptType
  <2>3. attempts' = [attempts EXCEPT ![t][n] = [attempts[t][n] EXCEPT ![i].status = s]]
    BY DEF FinishAttempt, ReportAttempt, StoreTypeOK
  <2>4. node' = [node EXCEPT ![t][n] = s] /\ UNCHANGED <<task, effect>>
    BY DEF FinishAttempt, ReportAttempt
  <2> QED BY <2>1, <2>2, <2>3, <2>4 DEF StoreTypeOK
<1>3. CASE \E s \in ReportStatus : ReportNode(t, n, s, o, k)
  <2> PICK s \in ReportStatus : ReportNode(t, n, s, o, k)
    BY <1>3
  <2>1. s \in NodeStatus
    BY <1>s
  <2>2. CloseRunning(attempts[t][n], s) \in Seq(Attempt)
    BY <1>a, <2>1, CloseRunningType
  <2>3. Append(attempts[t][n], NewAttempt(s, task[t].owner, task[t].token)) \in Seq(Attempt)
    BY <1>a, <1>b, <2>1, AppendType
  <2>4. attempts' \in [Task -> [Node -> Seq(Attempt)]]
    BY <2>2, <2>3 DEF ReportNode, StoreTypeOK
  <2> QED BY <2>1, <2>4 DEF ReportNode, StoreTypeOK
<1>4. CASE \E s \in {"waiting_human", "cancelled"} : SetNode(t, n, s, o, k)
  <2>1. {"waiting_human", "cancelled"} \subseteq NodeStatus
    BY DEF NodeStatus, TaskStatus, Terminal, Stopped
  <2> QED BY <1>4, <2>1 DEF SetNode, StoreTypeOK
<1> QED BY <1>1, <1>2, <1>3, <1>4 DEF NodeWrite

\* begin_effect and finish_effect keep the column types.
LEMMA EffectWriteType ==
  ASSUME StoreTypeOK, NEW t \in Task, NEW x \in Operation, EffectWrite(t, x)
  PROVE  StoreTypeOK'
<1>1. {"prepared", "dispatched", "committed", "unknown", "failed"} \subseteq EffectState
  BY DEF EffectState
<1>2. \E s \in EffectState : effect' = [effect EXCEPT ![t][x] = s]
  BY <1>1 DEF EffectWrite, EffectInsert, EffectRedispatch, EffectFinish
<1> QED BY <1>2 DEF EffectWrite, StoreTypeOK

\* The lapse of a lease or a deadline keeps the column types.
LEMMA TimeType ==
  ASSUME StoreTypeOK, NEW t \in Task, Passing(t)
  PROVE  StoreTypeOK'
<1>r. task[t] \in TaskRow
  BY DEF StoreTypeOK
<1>1. [task[t] EXCEPT !.lease = "lapsed"] \in TaskRow
  BY <1>r DEF TaskRow
<1>2. [task[t] EXCEPT !.deadline = "past"] \in TaskRow
  BY <1>r DEF TaskRow
<1> QED BY <1>1, <1>2 DEF Passing, LeaseLapses, DeadlinePasses, StoreTypeOK

\* Every step of the ledger keeps the column types.
LEMMA TypeStep ==
  ASSUME StoreTypeOK, [LedgerNext]_storeVars
  PROVE  StoreTypeOK'
<1>1. CASE Housekeeping
  BY <1>1, HousekeepingType
<1>2. CASE \E t \in Task : Unguarded(t)
  BY <1>2, UnguardedType
<1>3. CASE \E t \in Task, o \in Owner \cup {None}, k \in 0..MaxToken : TaskWrite(t, o, k, CallerStatus)
  BY <1>3, TaskWriteType
<1>4. CASE \E t \in Task, n \in Node, o \in Owner \cup {None}, k \in 0..MaxToken :
             NodeWrite(t, n, o, k, ReportStatus)
  BY <1>4, NodeWriteType
<1>5. CASE \E t \in Task, x \in Operation : EffectWrite(t, x)
  BY <1>5, EffectWriteType
<1>6. CASE \E t \in Task : Passing(t)
  BY <1>6, TimeType
<1>7. CASE UNCHANGED storeVars
  BY <1>7 DEF storeVars, StoreTypeOK
<1> QED BY <1>1, <1>2, <1>3, <1>4, <1>5, <1>6, <1>7 DEF LedgerNext, LedgerStep

\* So do the empty tables.
LEMMA StoreTypeInit == StoreInit => StoreTypeOK
<1>1. NewRow \in TaskRow
  BY ConstantsAssumption DEF NewRow, TaskRow
<1>2. <<>> \in Seq(Attempt)
  BY EmptySeq
<1> QED BY <1>1, <1>2 DEF StoreInit, StoreTypeOK

\* Whatever order threads and processes reach the database in, every column
\* holds a value the code knows.
THEOREM LedgerTypesCorrect == LedgerSpec => []StoreTypeOK
<1>1. StoreTypeOK /\ [LedgerNext]_storeVars => StoreTypeOK'
  BY TypeStep
<1> QED BY <1>1, StoreTypeInit, PTL DEF LedgerSpec

\* A client that writes and reports only some of the statuses is a client: what
\* is proved here holds of it.
THEOREM FewerStatusesAreCovered ==
  ASSUME NEW CONSTANT written \in SUBSET CallerStatus, NEW CONSTANT reported \in SUBSET ReportStatus
  PROVE  StoreInit /\ [][LedgerStep(written, reported)]_storeVars => LedgerSpec
<1>1. ASSUME NEW t \in Task, NEW o, NEW k, TaskWrite(t, o, k, written)
      PROVE  TaskWrite(t, o, k, CallerStatus)
  BY <1>1 DEF TaskWrite
<1>2. ASSUME NEW t \in Task, NEW n \in Node, NEW o, NEW k, NodeWrite(t, n, o, k, reported)
      PROVE  NodeWrite(t, n, o, k, ReportStatus)
  BY <1>2 DEF NodeWrite
<1>3. LedgerStep(written, reported) => LedgerNext
  BY <1>1, <1>2 DEF LedgerStep, LedgerNext
<1> QED BY <1>3, PTL DEF LedgerSpec

-----------------------------------------------------------------------------
(* What a transaction may do to the lease in a row.                        *)

Kept(r, q) ==
  /\ q.owner = r.owner /\ q.lease = r.lease /\ q.token = r.token
  /\ r.owner # None => q.status \in {r.status, "running"}
Granted(r, q) ==
  /\ r.owner = None /\ q.owner \in Owner /\ q.lease = "live"
  /\ q.status = "running" /\ q.token > r.token
Lapses(r, q) ==
  /\ r.lease = "live" /\ q.lease = "lapsed"
  /\ q.owner = r.owner /\ q.token = r.token /\ q.status = r.status
GivenUp(r, q) ==
  /\ r.owner # None /\ r.lease = "live" /\ q.owner = None /\ q.lease = "none"
  /\ q.token = r.token
  /\ q.released = [owner |-> r.owner, token |-> r.token, status |-> q.status]
Revoked(r, q) ==
  /\ r.owner # None /\ r.lease = "lapsed" /\ q.owner = None /\ q.lease = "none"
  /\ q.token > r.token
Fenced(r, q) ==
  /\ r.owner = None /\ q.owner = None /\ q.lease = "none" /\ q.token > r.token

RowStep(r, q) ==
  \/ Kept(r, q) \/ Granted(r, q) \/ Lapses(r, q)
  \/ GivenUp(r, q) \/ Revoked(r, q) \/ Fenced(r, q)

RowSteps == \A u \in Task : RowStep(task[u], task'[u])

\* A transaction on one row does to the other rows nothing.
LEMMA OneRow ==
  ASSUME StoreTypeOK, NEW t \in Task, NEW q, task' = [task EXCEPT ![t] = q],
         RowStep(task[t], q)
  PROVE  RowSteps
BY DEF StoreTypeOK, RowSteps, RowStep, Kept

\* A transaction that leaves the task rows alone is a row step.
LEMMA NoRow ==
  ASSUME UNCHANGED task
  PROVE  RowSteps
BY DEF RowSteps, RowStep, Kept

-----------------------------------------------------------------------------
(* The row operators, one by one.                                          *)

\* update_task keeps a row, or gives an unexpired lease up.
LEMMA WithStatusStep ==
  ASSUME NEW row \in TaskRow, NEW s \in TaskStatus \ {"compensating"},
         row.owner # None => row.lease = "live"
  PROVE  RowStep(row, WithStatus(row, s))
<1>1. CASE s \in Releasing /\ row.owner # None
  <2>1. GivenUp(row, ReleasedWith(row, s))
    BY <1>1 DEF GivenUp, ReleasedWith, Unowned, TaskRow
  <2> QED BY <1>1, <2>1 DEF WithStatus, RowStep
<1>2. CASE ~(s \in Releasing /\ row.owner # None)
  <2>1. row.owner = None \/ s = "running"
    BY <1>2 DEF Releasing, TaskStatus
  <2>2. Kept(row, [row EXCEPT !.status = s, !.released = NotReleased])
    BY <2>1 DEF Kept, TaskRow
  <2> QED BY <1>2, <2>2 DEF WithStatus, RowStep
<1> QED BY <1>1, <1>2

\* A release by the holder (finish_worker_task, release_lease) gives the lease up.
LEMMA ReleasedWithStep ==
  ASSUME NEW row \in TaskRow, row.owner # None, row.lease = "live", NEW s, NEW given, NEW k
  PROVE  RowStep(row, WithOutput(ReleasedWith(row, s), given, k))
<1>1. GivenUp(row, WithOutput(ReleasedWith(row, s), given, k))
  BY DEF GivenUp, ReleasedWith, Unowned, TaskRow, WithOutput
<1> QED BY <1>1 DEF RowStep

\* A claim of an unowned row grants a new generation.
LEMMA TakenByStep ==
  ASSUME NEW row \in TaskRow, row.owner = None, NEW o \in Owner
  PROVE  RowStep(row, TakenBy(row, o))
<1>1. row.token + 1 > row.token
  BY DEF TaskRow
<1>2. TakenBy(row, o).token = row.token + 1
  BY DEF TakenBy, TaskRow
<1>3. /\ TakenBy(row, o).owner = o /\ TakenBy(row, o).lease = "live"
      /\ TakenBy(row, o).status = "running"
  BY DEF TakenBy, TaskRow
<1> QED BY <1>1, <1>2, <1>3 DEF RowStep, Granted

\* _interrupt_task_tx revokes a lapsed lease, and fences an unowned row.
LEMMA InterruptedStep ==
  ASSUME StoreTypeOK, NEW t \in Task, Lapsed(t) \/ task[t].owner = None
  PROVE  RowStep(task[t], InterruptedRow(t))
<1> DEFINE s == IF Unsafe(t) THEN "recovery_required" ELSE "interrupted"
           r == task[t]
<1>1. r \in TaskRow
  BY DEF StoreTypeOK
<1>2. InterruptedRow(t) = [Unowned(r) EXCEPT !.status = s, !.token = @ + 1]
  BY DEF InterruptedRow
<1>3. (r.owner # None => r.lease = "lapsed")
  BY DEF Lapsed
<1> HIDE DEF s, r
<1>4. /\ InterruptedRow(t).owner = None /\ InterruptedRow(t).lease = "none"
      /\ InterruptedRow(t).token = r.token + 1
  BY <1>1, <1>2 DEF Unowned, TaskRow
<1>5. r.token + 1 > r.token
  BY <1>1 DEF TaskRow
<1>6. Revoked(r, InterruptedRow(t)) \/ Fenced(r, InterruptedRow(t))
  BY <1>3, <1>4, <1>5 DEF Revoked, Fenced
<1> QED BY <1>6 DEF RowStep, r

\* A stop request on a running task keeps its lease.
LEMMA AskedStep ==
  ASSUME NEW row \in TaskRow, NEW action
  PROVE  Kept(row, Asked(row, action))
BY DEF Kept, Asked, TaskRow

\* Settling an idle task fences its past generations.
LEMMA SettledStep ==
  ASSUME NEW row \in TaskRow, RowShape(row), row.owner = None, NEW action
  PROVE  RowStep(row, Settled(Asked(row, action)))
<1> DEFINE a == Asked(row, action)
<1>1. a \in TaskRow /\ a.owner = None /\ a.lease = row.lease /\ a.token = row.token
  BY AskedType, AskedStep DEF Kept
<1> HIDE DEF a
<1>2. /\ Settled(a).owner = a.owner /\ Settled(a).lease = a.lease
      /\ Settled(a).token = a.token + 1
  BY <1>1 DEF Settled, TaskRow
<1>3. row.token + 1 > row.token
  BY DEF TaskRow
<1>4. Fenced(row, Settled(a))
  BY <1>1, <1>2, <1>3 DEF Fenced, RowShape
<1> QED BY <1>4 DEF RowStep, a

\* Resumption fences the past generations of an unowned row.
LEMMA RequeuedStep ==
  ASSUME NEW row \in TaskRow, RowShape(row), row.owner = None
  PROVE  RowStep(row, Requeued(row))
<1>1. /\ Requeued(row).owner = row.owner /\ Requeued(row).lease = row.lease
      /\ Requeued(row).token = row.token + 1
  BY DEF Requeued, TaskRow
<1>2. row.token + 1 > row.token
  BY DEF TaskRow
<1> QED BY <1>1, <1>2 DEF Fenced, RowStep, RowShape

\* The expiry of leases revokes the lapsed ones and no other.
LEMMA ExpiryStep ==
  ASSUME StoreTypeOK, NEW overdue \in SUBSET Overdues, NEW u \in Task
  PROVE  /\ RowStep(task[u], TasksAfterExpiry(overdue)[u])
         /\ ~Lapsed(u) => Kept(task[u], TasksAfterExpiry(overdue)[u])
<1>1. task[u] \in TaskRow
  BY DEF StoreTypeOK
<1>2. CASE Lapsed(u)
  BY <1>2, InterruptedStep DEF TasksAfterExpiry
<1>3. CASE ~Lapsed(u) /\ u \in overdue
  <2>1. task[u].owner = None
    BY <1>3 DEF Overdues, Overdue
  <2>2. Kept(task[u], [task[u] EXCEPT !.status = "failed"])
    BY <1>1, <2>1 DEF Kept, TaskRow
  <2> QED BY <1>3, <2>2 DEF TasksAfterExpiry, RowStep
<1>4. CASE ~Lapsed(u) /\ u \notin overdue
  BY <1>4 DEF TasksAfterExpiry, RowStep, Kept
<1> QED BY <1>2, <1>3, <1>4

-----------------------------------------------------------------------------
(* The transactions.                                                       *)

\* Expiry and claim in one transaction: each row moves on its own.
LEMMA TakeSteps ==
  ASSUME StoreTypeOK, NEW t \in Task, NEW o \in Owner, Take(t, o)
  PROVE  RowSteps
<1> DEFINE rows == TasksAfterExpiry(Overdues)
<1>0. Overdues \in SUBSET Task
  BY DEF Overdues
<1>1. rows \in [Task -> TaskRow]
  BY <1>0, ExpiryType
<1>2. task' = [rows EXCEPT ![t] = TakenBy(@, o)]
  BY DEF Take
<1>3. rows[t].owner = None /\ rows[t].status \in {"queued", "retry_wait"}
  BY DEF Take, Ready, Claimable
<1>4. ~Lapsed(t)
  <2> SUFFICES ASSUME Lapsed(t)
               PROVE  FALSE
    OBVIOUS
  <2>1. rows[t] = InterruptedRow(t)
    BY DEF TasksAfterExpiry
  <2>2. InterruptedRow(t).status \in {"recovery_required", "interrupted"}
    BY DEF StoreTypeOK, InterruptedRow, Unowned, TaskRow
  <2> QED BY <1>3, <2>1, <2>2
<1>5. Kept(task[t], rows[t])
  BY <1>4, ExpiryStep
<1>6. Granted(rows[t], TakenBy(rows[t], o))
  <2>1. rows[t].token \in Nat
    BY <1>1 DEF TaskRow
  <2>2. /\ TakenBy(rows[t], o).owner = o /\ TakenBy(rows[t], o).lease = "live"
        /\ TakenBy(rows[t], o).status = "running"
        /\ TakenBy(rows[t], o).token = rows[t].token + 1
    BY <1>1 DEF TakenBy, TaskRow
  <2> QED BY <1>3, <2>1, <2>2 DEF Granted
<1>7. RowStep(task[t], TakenBy(rows[t], o))
  BY <1>5, <1>6 DEF Kept, Granted, RowStep
<1>8. \A u \in Task : RowStep(task[u], rows[u])
  BY ExpiryStep
<1> HIDE DEF rows
<1> QED BY <1>1, <1>2, <1>7, <1>8 DEF RowSteps

\* The unaddressed transactions move every row by a row step.
LEMMA HousekeepingSteps ==
  ASSUME StoreTypeOK, Housekeeping
  PROVE  RowSteps
<1>1. CASE ExpireLeases
  BY <1>1, ExpiryStep DEF ExpireLeases, RowSteps
<1>2. CASE ExpireDeadlines
  <2>1. ASSUME NEW u \in Task
        PROVE  RowStep(task[u], task'[u])
    <3>1. CASE Overdue(u)
      <4>1. task'[u] = [task[u] EXCEPT !.status = "failed"] /\ task[u].owner = None
        BY <1>2, <3>1 DEF ExpireDeadlines, Overdue
      <4>2. task[u] \in TaskRow
        BY DEF StoreTypeOK
      <4>3. Kept(task[u], task'[u])
        BY <4>1, <4>2 DEF Kept, TaskRow
      <4> QED BY <4>3 DEF RowStep
    <3>2. CASE ~Overdue(u)
      BY <1>2, <3>2 DEF ExpireDeadlines, RowStep, Kept
    <3> QED BY <3>1, <3>2
  <2> QED BY <2>1 DEF RowSteps
<1>3. CASE \E o \in Owner : ClaimNext(o)
  <2>1. CASE ClaimNothing
    BY <2>1, ExpiryStep DEF ClaimNothing, RowSteps
  <2>2. CASE \E t \in Task, o \in Owner : ClaimHead(t, o)
    BY <2>2, TakeSteps DEF ClaimHead
  <2> QED BY <1>3, <2>1, <2>2 DEF ClaimNext
<1> QED BY <1>1, <1>2, <1>3 DEF Housekeeping

\* The transactions that present no lease move every row by a row step.
LEMMA UnguardedSteps ==
  ASSUME StoreTypeOK, LeaseShape, NEW t \in Task, Unguarded(t)
  PROVE  RowSteps
<1>r. task[t] \in TaskRow /\ RowShape(task[t])
  BY DEF StoreTypeOK, LeaseShape
<1>1. CASE \E s \in {"queued", "running", "waiting_human", "paused"},
              plan \in SUBSET Node : CreateTask(t, s, plan)
  <2> PICK s \in {"queued", "running", "waiting_human", "paused"},
           plan \in SUBSET Node : CreateTask(t, s, plan)
    BY <1>1
  <2>1. task[t].owner = None
    BY <1>r DEF CreateTask, Exists, RowShape
  <2>2. Kept(task[t], [task[t] EXCEPT !.status = s])
    BY <1>r, <2>1 DEF Kept, TaskRow
  <2> QED BY <2>2, OneRow DEF CreateTask, RowStep
<1>2. CASE BindJob(t)
  <2>1. Kept(task[t], [task[t] EXCEPT !.bound = TRUE])
    BY <1>r DEF Kept, TaskRow
  <2> QED BY <1>2, <2>1, OneRow DEF BindJob, RowStep
<1>3. ASSUME NEW c, NEW p, SetRequests(t, c, p)
      PROVE  RowSteps
  <2>1. Kept(task[t], [task[t] EXCEPT !.cancel = c, !.pause = p])
    BY <1>r DEF Kept, TaskRow
  <2>2. task' = [task EXCEPT ![t] = [task[t] EXCEPT !.cancel = c, !.pause = p]]
    BY <1>3, <1>r DEF SetRequests, StoreTypeOK
  <2> QED BY <2>1, <2>2, OneRow DEF RowStep
<1>4. CASE RequestPause(t) \/ RequestCancel(t) \/ ClearRequests(t)
  BY <1>3, <1>4 DEF RequestPause, RequestCancel, ClearRequests
<1>5. CASE \E action \in {"pause", "cancel"} : RequestControl(t, action)
  <2> PICK action \in {"pause", "cancel"} : RequestControl(t, action)
    BY <1>5
  <2>1. CASE Idle(task[t])
    <3>1. RowStep(task[t], Settled(Asked(task[t], action)))
      BY <1>r, <2>1, SettledStep DEF Idle
    <3> QED BY <2>1, <3>1, OneRow DEF RequestControl
  <2>2. CASE ~Idle(task[t])
    <3>1. RowStep(task[t], Asked(task[t], action))
      BY <1>r, AskedStep DEF RowStep
    <3> QED BY <2>2, <3>1, OneRow DEF RequestControl
  <2> QED BY <2>1, <2>2
<1>6. CASE Resume(t)
  BY <1>6, <1>r, RequeuedStep, OneRow DEF Resume, Resumable
<1>7. CASE RecoverOrphan(t)
  BY <1>7, InterruptedStep, OneRow DEF RecoverOrphan
<1>8. CASE \E o \in Owner : Claim(t, o)
  BY <1>8, TakeSteps DEF Claim
<1>9. CASE \E n \in Node, o \in Owner : ClaimApproval(t, n, o)
  BY <1>9, <1>r, TakenByStep, OneRow DEF ClaimApproval
<1> QED BY <1>1, <1>2, <1>4, <1>5, <1>6, <1>7, <1>8, <1>9 DEF Unguarded

\* The guarded writes of a task row are row steps.
LEMMA TaskWriteSteps ==
  ASSUME StoreTypeOK, LeaseShape, NEW t \in Task, NEW o \in Owner \cup {None}, NEW k \in 0..MaxToken,
         TaskWrite(t, o, k, CallerStatus)
  PROVE  RowSteps
<1>r. task[t] \in TaskRow
  BY DEF StoreTypeOK
<1>s. CallerStatus \subseteq TaskStatus \ {"compensating"}
  BY DEF CallerStatus, ReportStatus
<1>h. Held(t, o, k) => task[t].owner # None /\ task[t].lease = "live"
  BY DEF Held
<1>1. CASE \E s \in CallerStatus : UpdateTask(t, s, o, k)
  <2>1. task[t].owner # None => task[t].lease = "live"
    BY <1>1, <1>h DEF UpdateTask, Guard
  <2> QED BY <1>1, <1>r, <1>s, <2>1, WithStatusStep, OneRow DEF UpdateTask
<1>2. CASE SetDeadline(t, o, k)
  <2>1. Kept(task[t], [task[t] EXCEPT !.deadline = "ahead", !.released = NotReleased])
    BY <1>r DEF Kept, TaskRow
  <2>2. task' = [task EXCEPT ![t] =
                   [task[t] EXCEPT !.deadline = "ahead", !.released = NotReleased]]
    BY <1>2 DEF SetDeadline, StoreTypeOK
  <2> QED BY <2>1, <2>2, OneRow DEF RowStep
<1>3. CASE \E s \in CallerStatus, b \in BOOLEAN : FinishWorkerTask(t, s, b, o, k)
  <2> PICK s \in CallerStatus, b \in BOOLEAN : FinishWorkerTask(t, s, b, o, k)
    BY <1>3
  <2> DEFINE q == WithOutput(ReleasedWith(task[t], FinishStatus(task[t], s)), b, k)
  <2>1. RowStep(task[t], q)
    BY <1>r, <1>h, ReleasedWithStep DEF FinishWorkerTask
  <2>2. task' = [task EXCEPT ![t] = q]
    BY DEF FinishWorkerTask
  <2> HIDE DEF q
  <2> QED BY <2>1, <2>2, OneRow
<1>4. CASE \E plan \in SUBSET Node : SavePlan(t, plan, o, k)
  BY <1>4, NoRow DEF SavePlan
<1>5. CASE SaveReleasedOutput(t, o, k)
  <2>1. Kept(task[t], [task[t] EXCEPT !.output = k])
    BY <1>r DEF Kept, TaskRow
  <2>2. task' = [task EXCEPT ![t] = [task[t] EXCEPT !.output = k]]
    BY <1>5 DEF SaveReleasedOutput
  <2> QED BY <2>1, <2>2, OneRow DEF RowStep
<1>6. CASE Heartbeat(t, o, k)
  <2>1. Kept(task[t], [task[t] EXCEPT !.lease = "live"])
    BY <1>6, <1>h, <1>r DEF Kept, TaskRow, Heartbeat
  <2>2. task' = [task EXCEPT ![t] = [task[t] EXCEPT !.lease = "live"]]
    BY <1>6 DEF Heartbeat
  <2> QED BY <2>1, <2>2, OneRow DEF RowStep
<1>7. CASE \E s \in CallerStatus : ReleaseLease(t, s, o, k)
  <2> PICK s \in CallerStatus : ReleaseLease(t, s, o, k)
    BY <1>7
  <2>1. GivenUp(task[t], ReleasedWith(task[t], s))
    BY <1>r, <1>h DEF ReleaseLease, GivenUp, ReleasedWith, Unowned, TaskRow
  <2> QED BY <2>1, OneRow DEF ReleaseLease, RowStep
<1> QED BY <1>1, <1>2, <1>3, <1>4, <1>5, <1>6, <1>7 DEF TaskWrite

\* The guarded writes of nodes leave leases as they are.
LEMMA NodeWriteSteps ==
  ASSUME StoreTypeOK, NEW t \in Task, NEW n \in Node, NEW o, NEW k, NodeWrite(t, n, o, k, ReportStatus)
  PROVE  RowSteps
<1>1. CASE StartAttempt(t, n, o, k)
  <2>1. Kept(task[t], [task[t] EXCEPT !.status = "running"])
    BY DEF StoreTypeOK, Kept, TaskRow
  <2>2. task' = [task EXCEPT ![t] = [task[t] EXCEPT !.status = "running"]]
    BY <1>1 DEF StartAttempt
  <2> QED BY <2>1, <2>2, OneRow DEF RowStep
<1>2. CASE ~StartAttempt(t, n, o, k)
  <2>1. UNCHANGED task
    BY <1>2 DEF NodeWrite, FinishAttempt, ReportAttempt, ReportNode, SetNode
  <2> QED BY <2>1, NoRow
<1> QED BY <1>1, <1>2

\* Passing time lets a live lease lapse and does nothing else to a row.
LEMMA TimeSteps ==
  ASSUME StoreTypeOK, NEW t \in Task, Passing(t)
  PROVE  RowSteps
<1>1. CASE LeaseLapses(t)
  <2>1. Lapses(task[t], [task[t] EXCEPT !.lease = "lapsed"])
    BY <1>1 DEF LeaseLapses, StoreTypeOK, Lapses, TaskRow
  <2>2. task' = [task EXCEPT ![t] = [task[t] EXCEPT !.lease = "lapsed"]]
    BY <1>1 DEF LeaseLapses
  <2> QED BY <2>1, <2>2, OneRow DEF RowStep
<1>2. CASE DeadlinePasses(t)
  <2>1. Kept(task[t], [task[t] EXCEPT !.deadline = "past"])
    BY DEF StoreTypeOK, Kept, TaskRow
  <2>2. task' = [task EXCEPT ![t] = [task[t] EXCEPT !.deadline = "past"]]
    BY <1>2 DEF DeadlinePasses
  <2> QED BY <2>1, <2>2, OneRow DEF RowStep
<1> QED BY <1>1, <1>2 DEF Passing

\* Every transaction of the ledger moves every row by a row step.
LEMMA EveryRowSteps ==
  ASSUME StoreTypeOK, LeaseShape, [LedgerNext]_storeVars
  PROVE  RowSteps
<1>1. CASE Housekeeping
  BY <1>1, HousekeepingSteps
<1>2. CASE \E t \in Task : Unguarded(t)
  BY <1>2, UnguardedSteps
<1>3. CASE \E t \in Task, o \in Owner \cup {None}, k \in 0..MaxToken : TaskWrite(t, o, k, CallerStatus)
  BY <1>3, TaskWriteSteps
<1>4. CASE \E t \in Task, n \in Node, o \in Owner \cup {None}, k \in 0..MaxToken :
             NodeWrite(t, n, o, k, ReportStatus)
  BY <1>4, NodeWriteSteps
<1>5. CASE \E t \in Task, x \in Operation : EffectWrite(t, x)
  BY <1>5, NoRow DEF EffectWrite
<1>6. CASE \E t \in Task : Passing(t)
  BY <1>6, TimeSteps
<1>7. CASE UNCHANGED storeVars
  BY <1>7, NoRow DEF storeVars
<1> QED BY <1>1, <1>2, <1>3, <1>4, <1>5, <1>6, <1>7 DEF LedgerNext, LedgerStep

-----------------------------------------------------------------------------
(* The theorems.                                                           *)

\* Every step of the ledger keeps the shape of a lease.
LEMMA ShapeStep ==
  StoreTypeOK /\ LeaseShape /\ [LedgerNext]_storeVars => LeaseShape'
<1> SUFFICES ASSUME StoreTypeOK, LeaseShape, [LedgerNext]_storeVars, NEW u \in Task
             PROVE  RowShape(task'[u])
  BY DEF LeaseShape
<1>1. RowStep(task[u], task'[u])
  BY EveryRowSteps DEF RowSteps
<1>2. task[u] \in TaskRow /\ RowShape(task[u])
  BY DEF StoreTypeOK, LeaseShape
<1>3. task[u].token \in Nat /\ task'[u].token \in Int
  BY <1>2, TypeStep DEF StoreTypeOK, TaskRow
<1> QED BY <1>1, <1>2, <1>3, ConstantsAssumption
        DEF RowShape, RowStep, Kept, Granted, Lapses, GivenUp, Revoked, Fenced

\* A row has an owner exactly when it has a lease time, and an owned row is
\* running under a token that was issued.
THEOREM LeasesAreShaped == LedgerSpec => []LeaseShape
<1>1. StoreInit => LeaseShape
  BY DEF StoreInit, LeaseShape, RowShape, NewRow
<1>2. StoreTypeOK /\ LeaseShape /\ [LedgerNext]_storeVars => LeaseShape'
  BY ShapeStep
<1> QED BY <1>1, <1>2, LedgerTypesCorrect, PTL DEF LedgerSpec

\* The ledger is a lease service: a generation is granted once, to one owner,
\* and only after the previous holder gave it up or let it lapse.
THEOREM LedgerIsALeaseService == LedgerSpec => ImplementsLease
<1>1. StoreInit => Holders!Init
  <2> SUFFICES ASSUME StoreInit
               PROVE  Holders!Init
    OBVIOUS
  <2>1. \A t \in Task : task[t] = NewRow
    BY DEF StoreInit
  <2>2. NewRow.owner = None /\ NewRow.token = 0 /\ NewRow.lease # "lapsed"
    BY DEF NewRow
  <2>3. \A t \in Task : (task[t].lease = "lapsed") = FALSE
    BY <2>1, <2>2
  <2> QED BY <2>1, <2>2, <2>3 DEF Holders!Init
<1>2. StoreTypeOK /\ LeaseShape /\ [LedgerNext]_storeVars => [Holders!Next]_(Holders!vars)
  <2> SUFFICES ASSUME StoreTypeOK, LeaseShape, [LedgerNext]_storeVars
               PROVE  Holders!Next
    OBVIOUS
  <2> SUFFICES ASSUME NEW u \in Task
               PROVE  Holders!Step(u)
    BY DEF Holders!Next
  <2>1. RowStep(task[u], task'[u])
    BY EveryRowSteps DEF RowSteps
  <2>2. task[u] \in TaskRow /\ RowShape(task[u])
    BY DEF StoreTypeOK, LeaseShape
  <2> QED BY <2>1, <2>2, ConstantsAssumption
          DEF RowShape, RowStep, Kept, Granted, Lapses, GivenUp, Revoked, Fenced,
              Holders!Step, Holders!Keep, Holders!Grant, Holders!Lapse,
              Holders!GiveUp, Holders!Revoke, Holders!Fence
<1> QED BY <1>1, <1>2, LedgerTypesCorrect, LeasesAreShaped, PTL
        DEF LedgerSpec, ImplementsLease, Holders!Spec

\* Nobody but its holder ends a lease that is in force.
THEOREM LiveLeasesAreKept == LedgerSpec => LiveLeaseIsKept
<1>1. StoreTypeOK /\ LeaseShape /\ [LedgerNext]_storeVars
        => [\A t \in Task :
              (task[t].lease = "live" /\ task'[t].owner # task[t].owner)
                => task'[t].released = [owner |-> task[t].owner, token |-> task[t].token,
                                        status |-> task'[t].status]]_storeVars
  <2> SUFFICES ASSUME StoreTypeOK, LeaseShape, [LedgerNext]_storeVars, NEW t \in Task,
                      task[t].lease = "live", task'[t].owner # task[t].owner
               PROVE  GivenUp(task[t], task'[t])
    BY DEF GivenUp
  <2>1. RowStep(task[t], task'[t])
    BY EveryRowSteps DEF RowSteps
  <2>2. task[t].owner # None
    BY DEF LeaseShape, RowShape
  <2> QED BY <2>1, <2>2 DEF RowStep, Kept, Granted, Lapses, Revoked, Fenced
<1> QED BY <1>1, LedgerTypesCorrect, LeasesAreShaped, PTL DEF LedgerSpec, LiveLeaseIsKept


-----------------------------------------------------------------------------
(* What a transaction may do to the attempts of a node.                    *)

Quiet(s) == \A i \in DOMAIN s : s[i].status # "running"

\* Attempts are closed, and keep the lease they were opened under.
Reported(s, q) ==
  /\ Len(q) = Len(s)
  /\ \A i \in 1..Len(s) :
       /\ q[i].owner = s[i].owner /\ q[i].token = s[i].token
       /\ q[i].status = "running" => s[i].status = "running"

\* One attempt is opened under the lease of the row, where none was running.
Opened(s, q, row) ==
  /\ Quiet(s)
  /\ Len(q) = Len(s) + 1
  /\ \A i \in 1..Len(s) : q[i] = s[i]
  /\ q[Len(s) + 1].owner = row.owner /\ q[Len(s) + 1].token = row.token

AttemptStep(t, n) ==
  \/ Reported(attempts[t][n], attempts'[t][n])
  \/ Opened(attempts[t][n], attempts'[t][n], task'[t])
AttemptSteps == \A t \in Task, n \in Node : AttemptStep(t, n)

\* A transaction that leaves the attempts alone is an attempt step.
LEMMA NoAttempt ==
  ASSUME UNCHANGED attempts
  PROVE  AttemptSteps
BY DEF AttemptSteps, AttemptStep, Reported

\* A write to the attempts of one node is a step of that node and leaves the others quiet.
LEMMA OneNode ==
  ASSUME StoreTypeOK, NEW t \in Task, NEW n \in Node, NEW q,
         attempts' = [attempts EXCEPT ![t][n] = q],
         Reported(attempts[t][n], q) \/ Opened(attempts[t][n], q, task'[t])
  PROVE  AttemptSteps
BY DEF StoreTypeOK, AttemptSteps, AttemptStep, Reported

\* Closing the running attempt, as an interruption or an unaddressed report does, is a report.
LEMMA CloseRunningStep ==
  ASSUME NEW s \in Seq(Attempt), NEW st \in NodeStatus
  PROVE  Reported(s, CloseRunning(s, st))
<1>1. DOMAIN s = 1..Len(s) /\ \A i \in 1..Len(s) : s[i] \in Attempt
  BY LenProperties, ElementOfSeq
<1>2. Len(CloseRunning(s, st)) = Len(s)
  BY CloseRunningType
<1>3. ASSUME NEW i \in 1..Len(s)
      PROVE  /\ CloseRunning(s, st)[i].owner = s[i].owner
             /\ CloseRunning(s, st)[i].token = s[i].token
             /\ CloseRunning(s, st)[i].status = "running" => s[i].status = "running"
  BY <1>1 DEF CloseRunning, Attempt
<1> QED BY <1>2, <1>3 DEF Reported

\* Closing one attempt by its index, as finish_attempt does, is a report.
LEMMA StatusExceptStep ==
  ASSUME NEW s \in Seq(Attempt), NEW i \in DOMAIN s, NEW st \in NodeStatus \ {"running"}
  PROVE  Reported(s, [s EXCEPT ![i].status = st])
<1>1. DOMAIN s = 1..Len(s) /\ \A j \in 1..Len(s) : s[j] \in Attempt
  BY LenProperties, ElementOfSeq
<1>2. Len([s EXCEPT ![i].status = st]) = Len(s)
  BY StatusExceptType
<1> QED BY <1>1, <1>2 DEF Reported, Attempt

\* Opening an attempt under the row's owner and token, with none running, is an opening.
LEMMA AppendStep ==
  ASSUME NEW s \in Seq(Attempt), Quiet(s), NEW st \in NodeStatus,
         NEW row, row.owner \in Owner \cup {None}, row.token \in Nat
  PROVE  Opened(s, Append(s, NewAttempt(st, row.owner, row.token)), row)
<1> DEFINE a == NewAttempt(st, row.owner, row.token)
<1>1. a \in Attempt /\ a.owner = row.owner /\ a.token = row.token
  BY DEF NewAttempt, Attempt
<1> HIDE DEF a
<1>2. /\ Len(Append(s, a)) = Len(s) + 1
      /\ Append(s, a)[Len(s) + 1] = a
      /\ \A i \in 1..Len(s) : Append(s, a)[i] = s[i]
  BY <1>1, AppendType
<1>3. Opened(s, Append(s, a), row)
  BY <1>1, <1>2 DEF Opened
<1> QED BY <1>3 DEF a

\* _interrupt_task_tx does to the attempts of every node what a report does.
LEMMA InterruptedAttemptStep ==
  ASSUME StoreTypeOK, NEW t \in Task, NEW n \in Node
  PROVE  Reported(attempts[t][n], InterruptedAttempts(t)[n])
<1>1. NodeAfterStop(n, "running") \in NodeStatus
  BY DEF NodeAfterStop, NodeStatus, TaskStatus, Stopped
<1>2. attempts[t][n] \in Seq(Attempt)
  BY DEF StoreTypeOK
<1>3. CASE node[t][n] = "running"
  BY <1>1, <1>2, <1>3, CloseRunningStep DEF InterruptedAttempts
<1>4. CASE node[t][n] # "running"
  BY <1>4 DEF InterruptedAttempts, Reported
<1> QED BY <1>3, <1>4

\* So does the expiry of all lapsed leases, for interrupted and untouched tasks alike.
LEMMA ExpiryAttemptStep ==
  ASSUME StoreTypeOK, attempts' = AttemptsAfterExpiry
  PROVE  AttemptSteps
<1>1. ASSUME NEW t \in Task, NEW n \in Node
      PROVE  Reported(attempts[t][n], attempts'[t][n])
  <2>1. CASE Lapsed(t)
    BY <2>1, InterruptedAttemptStep DEF AttemptsAfterExpiry
  <2>2. CASE ~Lapsed(t)
    BY <2>2 DEF AttemptsAfterExpiry, Reported
  <2> QED BY <2>1, <2>2
<1> QED BY <1>1 DEF AttemptSteps, AttemptStep

-----------------------------------------------------------------------------
(* The transactions.                                                       *)

\* The unaddressed transactions (expiry, deadlines, claim_next) are attempt steps.
LEMMA HousekeepingAttempts ==
  ASSUME StoreTypeOK, Housekeeping
  PROVE  AttemptSteps
<1>1. CASE ExpireDeadlines
  BY <1>1, NoAttempt DEF ExpireDeadlines
<1>2. CASE ExpireLeases
  BY <1>2, ExpiryAttemptStep DEF ExpireLeases
<1>3. CASE \E o \in Owner : ClaimNext(o)
  BY <1>3, ExpiryAttemptStep DEF ClaimNext, ClaimNothing, ClaimHead, Take
<1> QED BY <1>1, <1>2, <1>3 DEF Housekeeping

\* The transactions without a lease are attempt steps; claim_desktop_approval opens one.
LEMMA UnguardedAttempts ==
  ASSUME StoreTypeOK, NEW t \in Task, Unguarded(t)
  PROVE  AttemptSteps
<1>1. CASE RecoverOrphan(t)
  <2>1. ASSUME NEW u \in Task, NEW n \in Node
        PROVE  Reported(attempts[u][n], attempts'[u][n])
    <3>1. attempts' = [attempts EXCEPT ![t] = InterruptedAttempts(t)]
      BY <1>1 DEF RecoverOrphan
    <3>2. CASE u = t
      BY <3>1, <3>2, InterruptedAttemptStep DEF StoreTypeOK
    <3>3. CASE u # t
      BY <3>1, <3>3 DEF StoreTypeOK, Reported
    <3> QED BY <3>2, <3>3
  <2> QED BY <2>1 DEF AttemptSteps, AttemptStep
<1>2. CASE \E o \in Owner : Claim(t, o)
  BY <1>2, ExpiryAttemptStep DEF Claim, Take
<1>3. CASE \E n \in Node, o \in Owner : ClaimApproval(t, n, o)
  <2> PICK n \in Node, o \in Owner : ClaimApproval(t, n, o)
    BY <1>3
  <2> DEFINE q == Append(attempts[t][n], NewAttempt("running", o, task[t].token + 1))
  <2>1. task[t] \in TaskRow /\ attempts[t][n] \in Seq(Attempt)
    BY DEF StoreTypeOK
  <2>2. task'[t] = TakenBy(task[t], o)
    BY DEF ClaimApproval, StoreTypeOK
  <2>3. task'[t].owner = o /\ task'[t].token = task[t].token + 1
    BY <2>1, <2>2 DEF TakenBy, TaskRow
  <2>4. Quiet(attempts[t][n])
    BY DEF ClaimApproval, Running, Quiet
  <2>5. "running" \in NodeStatus /\ task[t].token + 1 \in Nat
    BY <2>1 DEF NodeStatus, TaskStatus, TaskRow
  <2>6. Opened(attempts[t][n], q, task'[t])
    BY <2>1, <2>3, <2>4, <2>5, AppendStep
  <2>7. attempts' = [attempts EXCEPT ![t][n] = q]
    BY DEF ClaimApproval
  <2> HIDE DEF q
  <2> QED BY <2>6, <2>7, OneNode
<1>4. CASE ~RecoverOrphan(t) /\ ~(\E o \in Owner : Claim(t, o))
             /\ ~(\E n \in Node, o \in Owner : ClaimApproval(t, n, o))
  <2>1. UNCHANGED attempts
    BY <1>4 DEF Unguarded, CreateTask, BindJob, RequestPause, RequestCancel,
                ClearRequests, SetRequests, RequestControl, Resume
  <2> QED BY <2>1, NoAttempt
<1> QED BY <1>1, <1>2, <1>3, <1>4

\* start_attempt, finish_attempt and update_node are attempt steps.
LEMMA NodeWriteAttempts ==
  ASSUME StoreTypeOK, NEW t \in Task, NEW n \in Node, NEW o, NEW k, NodeWrite(t, n, o, k, ReportStatus)
  PROVE  AttemptSteps
<1> DEFINE s == attempts[t][n]
<1>r. /\ s \in Seq(Attempt)
      /\ task[t].owner \in Owner \cup {None} /\ task[t].token \in Nat
  BY DEF StoreTypeOK, TaskRow
<1>s. ReportStatus \subseteq NodeStatus \ {"running"}
  BY DEF CallerStatus, ReportStatus
<1>1. CASE StartAttempt(t, n, o, k)
  <2> DEFINE q == Append(s, NewAttempt("running", task[t].owner, task[t].token))
  <2>1. Quiet(s)
    BY <1>1 DEF StartAttempt, StartAllowed, Running, Quiet
  <2>2. task'[t].owner = task[t].owner /\ task'[t].token = task[t].token
    BY <1>1 DEF StartAttempt, StoreTypeOK, TaskRow
  <2>3. "running" \in NodeStatus
    BY DEF NodeStatus, TaskStatus
  <2>4. Opened(s, q, task[t])
    BY <1>r, <2>1, <2>3, AppendStep
  <2>5. Opened(s, q, task'[t])
    BY <2>2, <2>4 DEF Opened
  <2>6. attempts' = [attempts EXCEPT ![t][n] = q]
    BY <1>1 DEF StartAttempt
  <2> HIDE DEF q
  <2> QED BY <2>5, <2>6, OneNode
<1>2. CASE \E st \in ReportStatus, i \in 1..MaxAttempts :
             FinishAttempt(t, n, i, st, o, k) \/ ReportAttempt(t, n, i, st, o, k)
  <2> PICK st \in ReportStatus, i \in 1..MaxAttempts :
             FinishAttempt(t, n, i, st, o, k) \/ ReportAttempt(t, n, i, st, o, k)
    BY <1>2
  <2>1. i \in DOMAIN s /\ st \in NodeStatus \ {"running"}
    BY <1>s DEF FinishAttempt, ReportAttempt
  <2>2. Reported(s, [s EXCEPT ![i].status = st])
    BY <1>r, <2>1, StatusExceptStep
  <2>3. attempts' = [attempts EXCEPT ![t][n] = [s EXCEPT ![i].status = st]]
    BY DEF FinishAttempt, ReportAttempt, StoreTypeOK
  <2> QED BY <2>2, <2>3, OneNode
<1>3. CASE \E st \in ReportStatus : ReportNode(t, n, st, o, k)
  <2> PICK st \in ReportStatus : ReportNode(t, n, st, o, k)
    BY <1>3
  <2>0. st \in NodeStatus
    BY <1>s
  <2>1. CASE Running(t, n)
    <3>1. attempts' = [attempts EXCEPT ![t][n] = CloseRunning(s, st)]
      BY <2>1 DEF ReportNode
    <3> QED BY <1>r, <2>0, <3>1, CloseRunningStep, OneNode
  <2>2. CASE ~Running(t, n) /\ st \in Unobserved
    <3>1. attempts' = [attempts EXCEPT ![t][n] = s]
      BY <2>2 DEF ReportNode
    <3> QED BY <3>1, OneNode DEF Reported
  <2>3. CASE ~Running(t, n) /\ st \notin Unobserved
    <3> DEFINE q == Append(s, NewAttempt(st, task[t].owner, task[t].token))
    <3>1. attempts' = [attempts EXCEPT ![t][n] = q]
      BY <2>3 DEF ReportNode
    <3>2. Quiet(s)
      BY <2>3 DEF Running, Quiet
    <3>3. Opened(s, q, task[t])
      BY <1>r, <2>0, <3>2, AppendStep
    <3>4. Opened(s, q, task'[t])
      BY <3>3 DEF ReportNode
    <3> HIDE DEF q
    <3> QED BY <3>1, <3>4, OneNode
  <2> QED BY <2>1, <2>2, <2>3
<1>4. CASE \E st \in {"waiting_human", "cancelled"} : SetNode(t, n, st, o, k)
  BY <1>4, NoAttempt DEF SetNode
<1> QED BY <1>1, <1>2, <1>3, <1>4 DEF NodeWrite

\* Every transaction of the ledger is an attempt step of every node.
LEMMA EveryAttemptSteps ==
  ASSUME StoreTypeOK, [LedgerNext]_storeVars
  PROVE  AttemptSteps
<1>1. CASE Housekeeping
  BY <1>1, HousekeepingAttempts
<1>2. CASE \E t \in Task : Unguarded(t)
  BY <1>2, UnguardedAttempts
<1>3. CASE \E t \in Task, o \in Owner \cup {None}, k \in 0..MaxToken : TaskWrite(t, o, k, CallerStatus)
  BY <1>3, NoAttempt
     DEF TaskWrite, UpdateTask, SetDeadline, FinishWorkerTask, SavePlan,
         SaveReleasedOutput, Heartbeat, ReleaseLease
<1>4. CASE \E t \in Task, n \in Node, o \in Owner \cup {None}, k \in 0..MaxToken :
             NodeWrite(t, n, o, k, ReportStatus)
  BY <1>4, NodeWriteAttempts
<1>5. CASE \E t \in Task, x \in Operation : EffectWrite(t, x)
  BY <1>5, NoAttempt DEF EffectWrite
<1>6. CASE \E t \in Task : Passing(t)
  BY <1>6, NoAttempt DEF Passing, LeaseLapses, DeadlinePasses
<1>7. CASE UNCHANGED storeVars
  BY <1>7, NoAttempt DEF storeVars
<1> QED BY <1>1, <1>2, <1>3, <1>4, <1>5, <1>6, <1>7 DEF LedgerNext, LedgerStep

-----------------------------------------------------------------------------
(* The theorems.                                                           *)

\* Every step of the ledger keeps the attempts fenced.
LEMMA FencingStep ==
  StoreTypeOK /\ StoreTypeOK' /\ LeaseShape /\ AttemptFencing /\ [LedgerNext]_storeVars => AttemptFencing'
<1> SUFFICES ASSUME StoreTypeOK, StoreTypeOK', LeaseShape, AttemptFencing, [LedgerNext]_storeVars,
                    NEW t \in Task, NEW n \in Node, NEW i \in DOMAIN attempts'[t][n]
             PROVE  /\ attempts'[t][n][i].token <= task'[t].token
                    /\ attempts'[t][n][i].status = "running" =>
                         /\ i = Len(attempts'[t][n])
                         /\ (/\ task'[t].owner # None
                             /\ attempts'[t][n][i].token = task'[t].token)
                              => attempts'[t][n][i].owner = task'[t].owner
  BY DEF AttemptFencing
<1> DEFINE s == attempts[t][n]
           q == attempts'[t][n]
<1>1. /\ Len(s) \in Nat /\ DOMAIN s = 1..Len(s) /\ \A j \in 1..Len(s) : s[j] \in Attempt
      /\ Len(q) \in Nat /\ DOMAIN q = 1..Len(q) /\ \A j \in 1..Len(q) : q[j] \in Attempt
  BY LenProperties, ElementOfSeq DEF StoreTypeOK
<1>2. task[t].token \in Nat /\ task'[t].token \in Nat
  BY DEF StoreTypeOK, TaskRow
<1>3. RowStep(task[t], task'[t])
  BY EveryRowSteps DEF RowSteps
<1>4. AttemptStep(t, n)
  BY EveryAttemptSteps DEF AttemptSteps
<1>5. /\ task'[t].token >= task[t].token
      /\ (task'[t].owner # None /\ task'[t].token = task[t].token)
           => task'[t].owner = task[t].owner
  BY <1>2, <1>3
     DEF RowStep, Kept, Granted, Lapses, GivenUp, Revoked, Fenced
<1>6. \A j \in 1..Len(s) :
        /\ s[j].token \in Nat /\ s[j].token <= task[t].token
        /\ s[j].status = "running" =>
             /\ j = Len(s)
             /\ (task[t].owner # None /\ s[j].token = task[t].token)
                  => s[j].owner = task[t].owner
  BY <1>1 DEF AttemptFencing, Attempt
<1>7. CASE Reported(s, q)
  <2>1. i \in 1..Len(s)
    BY <1>1, <1>7 DEF Reported
  <2>2. /\ q[i].owner = s[i].owner /\ q[i].token = s[i].token
        /\ q[i].status = "running" => s[i].status = "running"
        /\ Len(q) = Len(s)
    BY <1>7, <2>1 DEF Reported
  <2>3. q[i].token \in Nat /\ q[i].token <= task[t].token
    BY <1>6, <2>1, <2>2
  <2>4. q[i].token <= task'[t].token
    BY <1>2, <1>5, <2>3
  <2>5. q[i].status = "running" => i = Len(q)
    BY <1>6, <2>1, <2>2
  <2>6. ASSUME q[i].status = "running", task'[t].owner # None,
               q[i].token = task'[t].token
        PROVE  q[i].owner = task'[t].owner
    <3>1. task'[t].token = task[t].token
      BY <1>2, <1>5, <2>3, <2>6
    <3>2. task'[t].owner = task[t].owner
      BY <1>5, <2>6, <3>1
    <3> QED BY <1>6, <2>1, <2>2, <2>6, <3>1, <3>2
  <2> QED BY <2>4, <2>5, <2>6
<1>8. CASE Opened(s, q, task'[t])
  <2>1. CASE i = Len(s) + 1
    BY <1>2, <1>8, <2>1 DEF Opened
  <2>2. CASE i \in 1..Len(s)
    <3>1. q[i] = s[i]
      BY <1>8, <2>2 DEF Opened
    <3>2. s[i].status # "running"
      BY <1>1, <1>8, <2>2 DEF Opened, Quiet
    <3>3. s[i].token \in Nat /\ s[i].token <= task[t].token
      BY <1>6, <2>2
    <3>4. s[i].token <= task'[t].token
      BY <1>2, <1>5, <3>3
    <3> QED BY <3>1, <3>2, <3>4
  <2> QED BY <1>1, <1>8, <2>1, <2>2 DEF Opened
<1> QED BY <1>4, <1>7, <1>8 DEF AttemptStep

\* At most one attempt of a node is running, it is the last one, and while the
\* token it was opened under is in force it belongs to the owner of the lease.
THEOREM AttemptsAreFenced == LedgerSpec => []AttemptFencing
<1>1. StoreInit => AttemptFencing
  BY DEF StoreInit, AttemptFencing
<1>2. StoreTypeOK /\ StoreTypeOK' /\ LeaseShape /\ AttemptFencing /\ [LedgerNext]_storeVars => AttemptFencing'
  BY FencingStep
<1> QED BY <1>1, <1>2, LedgerTypesCorrect, LeasesAreShaped, PTL DEF LedgerSpec
-----------------------------------------------------------------------------
(* Running nodes have running attempts.                                    *)

\* A node that is running after a transaction was left alone with its
\* attempts, or has a running attempt.
NodeStep(t, n) ==
  node'[t][n] = "running" =>
    \/ node[t][n] = "running" /\ attempts'[t][n] = attempts[t][n]
    \/ Running(t, n)'
NodeSteps == \A t \in Task, n \in Node : NodeStep(t, n)

\* A transaction that leaves nodes and attempts alone is a node step.
LEMMA NoNode ==
  ASSUME UNCHANGED <<node, attempts>>
  PROVE  NodeSteps
BY DEF NodeSteps, NodeStep

\* So is one that stops a node, whatever it does to the attempts of that node.
LEMMA NodeStops ==
  ASSUME StoreTypeOK, NEW t \in Task, NEW n \in Node, NEW s, s # "running", NEW q,
         node' = [node EXCEPT ![t][n] = s], attempts' = [attempts EXCEPT ![t][n] = q]
  PROVE  NodeSteps
BY DEF StoreTypeOK, NodeSteps, NodeStep

\* So is one that starts a node together with an attempt.
LEMMA NodeStarts ==
  ASSUME StoreTypeOK, NEW t \in Task, NEW n \in Node, NEW a \in Attempt, a.status = "running",
         node' = [node EXCEPT ![t][n] = "running"],
         attempts' = [attempts EXCEPT ![t][n] = Append(@, a)]
  PROVE  NodeSteps
<1> DEFINE q == Append(attempts[t][n], a)
<1>1. attempts[t][n] \in Seq(Attempt)
  BY DEF StoreTypeOK
<1>2. q[Len(attempts[t][n]) + 1] = a /\ DOMAIN q = 1..(Len(attempts[t][n]) + 1)
  BY <1>1, AppendType
<1>3. Len(attempts[t][n]) + 1 \in DOMAIN q
  BY <1>1, <1>2, LenProperties
<1>4. attempts' = [attempts EXCEPT ![t][n] = q]
  OBVIOUS
<1> HIDE DEF q
<1>5. attempts'[t][n] = q
  BY <1>4 DEF StoreTypeOK
<1>6. Running(t, n)'
  BY <1>2, <1>3, <1>5 DEF Running
<1>7. ASSUME NEW u \in Task, NEW m \in Node, ~(u = t /\ m = n)
      PROVE  node'[u][m] = node[u][m] /\ attempts'[u][m] = attempts[u][m]
  BY <1>4, <1>7 DEF StoreTypeOK
<1> QED BY <1>6, <1>7 DEF NodeSteps, NodeStep

\* An interruption leaves no node of the task running.
LEMMA InterruptedNodeStep ==
  ASSUME NEW t \in Task, NEW n \in Node
  PROVE  InterruptedNodes(t)[n] # "running"
BY DEF InterruptedNodes, NodeAfterStop
\* An expiry of leases is a node step.
LEMMA ExpiryNodeStep ==
  ASSUME node' = NodesAfterExpiry, attempts' = AttemptsAfterExpiry
  PROVE  NodeSteps
<1> SUFFICES ASSUME NEW t \in Task, NEW n \in Node
             PROVE  NodeStep(t, n)
  BY DEF NodeSteps
<1>1. CASE Lapsed(t)
  BY <1>1, InterruptedNodeStep DEF NodesAfterExpiry, NodeStep
<1>2. CASE ~Lapsed(t)
  BY <1>2 DEF NodesAfterExpiry, AttemptsAfterExpiry, NodeStep
<1> QED BY <1>1, <1>2

\* Housekeeping and the transactions without a lease are node steps.
LEMMA UnguardedNodes ==
  ASSUME StoreTypeOK, Housekeeping \/ \E t \in Task : Unguarded(t)
  PROVE  NodeSteps
<1>1. CASE Housekeeping
  BY <1>1, NoNode, ExpiryNodeStep
     DEF Housekeeping, ExpireLeases, ExpireDeadlines, ClaimNext, ClaimNothing, ClaimHead, Take
<1>2. CASE \E t \in Task : Unguarded(t)
  <2> PICK t \in Task : Unguarded(t)
    BY <1>2
  <2>1. CASE \E s \in {"queued", "running", "waiting_human", "paused"}, plan \in SUBSET Node :
               CreateTask(t, s, plan)
    BY <2>1 DEF CreateTask, NodeSteps, NodeStep, StoreTypeOK
  <2>2. CASE RecoverOrphan(t)
    BY <2>2, InterruptedNodeStep DEF RecoverOrphan, NodeSteps, NodeStep, StoreTypeOK
  <2>3. CASE \E o \in Owner : Claim(t, o)
    BY <2>3, ExpiryNodeStep DEF Claim, Take
  <2>4. CASE \E n \in Node, o \in Owner : ClaimApproval(t, n, o)
    <3> PICK n \in Node, o \in Owner : ClaimApproval(t, n, o)
      BY <2>4
    <3> DEFINE a == NewAttempt("running", o, task[t].token + 1)
    <3>1. task[t].token \in Nat
      BY DEF StoreTypeOK, TaskRow
    <3>2. a \in Attempt /\ a.status = "running"
      BY <3>1 DEF NewAttempt, Attempt, NodeStatus, TaskStatus
    <3>3. /\ node' = [node EXCEPT ![t][n] = "running"]
          /\ attempts' = [attempts EXCEPT ![t][n] = Append(@, a)]
      BY DEF ClaimApproval
    <3> HIDE DEF a
    <3> QED BY <3>2, <3>3, NodeStarts
  <2>5. CASE UNCHANGED <<node, attempts>>
    BY <2>5, NoNode
  <2> QED BY <2>1, <2>2, <2>3, <2>4, <2>5
          DEF Unguarded, BindJob, RequestPause, RequestCancel, ClearRequests, SetRequests, RequestControl, Resume
<1> QED BY <1>1, <1>2

\* The writes of the holder of a lease are node steps.
LEMMA GuardedNodes ==
  ASSUME StoreTypeOK, NEW t \in Task, NEW o, NEW k,
         TaskWrite(t, o, k, CallerStatus) \/ \E n \in Node : NodeWrite(t, n, o, k, ReportStatus)
  PROVE  NodeSteps
<1>s. ReportStatus \subseteq NodeStatus \ {"running"}
  BY DEF CallerStatus, ReportStatus
<1>1. CASE \E plan \in SUBSET Node : SavePlan(t, plan, o, k)
  BY <1>1 DEF SavePlan, NodeSteps, NodeStep, StoreTypeOK
<1>2. CASE TaskWrite(t, o, k, CallerStatus) /\ UNCHANGED <<node, attempts>>
  BY <1>2, NoNode
<1>3. CASE \E n \in Node : NodeWrite(t, n, o, k, ReportStatus)
  <2> PICK n \in Node : NodeWrite(t, n, o, k, ReportStatus)
    BY <1>3
  <2>1. CASE StartAttempt(t, n, o, k)
    <3> DEFINE a == NewAttempt("running", task[t].owner, task[t].token)
    <3>1. a \in Attempt /\ a.status = "running"
      BY DEF StoreTypeOK, TaskRow, NewAttempt, Attempt, NodeStatus, TaskStatus
    <3>2. /\ node' = [node EXCEPT ![t][n] = "running"]
          /\ attempts' = [attempts EXCEPT ![t][n] = Append(@, a)]
      BY <2>1 DEF StartAttempt
    <3> HIDE DEF a
    <3> QED BY <3>1, <3>2, NodeStarts
  <2>2. CASE \E s \in ReportStatus, i \in 1..MaxAttempts :
               FinishAttempt(t, n, i, s, o, k) \/ ReportAttempt(t, n, i, s, o, k)
    <3> PICK s \in ReportStatus, i \in 1..MaxAttempts :
               FinishAttempt(t, n, i, s, o, k) \/ ReportAttempt(t, n, i, s, o, k)
      BY <2>2
    <3>1. /\ node' = [node EXCEPT ![t][n] = s]
          /\ attempts' = [attempts EXCEPT ![t][n] = [attempts[t][n] EXCEPT ![i].status = s]]
      BY DEF FinishAttempt, ReportAttempt, StoreTypeOK
    <3> QED BY <1>s, <3>1, NodeStops
  <2>3. CASE \E s \in ReportStatus : ReportNode(t, n, s, o, k)
    <3> PICK s \in ReportStatus : ReportNode(t, n, s, o, k)
      BY <2>3
    <3> DEFINE q == IF Running(t, n) THEN CloseRunning(attempts[t][n], s)
                    ELSE IF s \in Unobserved THEN attempts[t][n]
                    ELSE Append(attempts[t][n], NewAttempt(s, task[t].owner, task[t].token))
    <3>1. node' = [node EXCEPT ![t][n] = s] /\ attempts' = [attempts EXCEPT ![t][n] = q]
      BY DEF ReportNode
    <3> HIDE DEF q
    <3> QED BY <1>s, <3>1, NodeStops
  <2>4. CASE \E s \in {"waiting_human", "cancelled"} : SetNode(t, n, s, o, k)
    BY <2>4 DEF SetNode, NodeSteps, NodeStep, StoreTypeOK
  <2> QED BY <2>1, <2>2, <2>3, <2>4 DEF NodeWrite
<1> QED BY <1>1, <1>2, <1>3
        DEF TaskWrite, UpdateTask, SetDeadline, FinishWorkerTask, SaveReleasedOutput, Heartbeat, ReleaseLease

\* Every step of the ledger leaves a running node its attempt.
LEMMA RunningStep ==
  StoreTypeOK /\ RunningNodeHasAttempt /\ [LedgerNext]_storeVars => RunningNodeHasAttempt'
<1> SUFFICES ASSUME StoreTypeOK, RunningNodeHasAttempt, [LedgerNext]_storeVars
             PROVE  RunningNodeHasAttempt'
  OBVIOUS
<1>1. NodeSteps
  <2>1. CASE \E t \in Task, o \in Owner \cup {None}, k \in 0..MaxToken :
               TaskWrite(t, o, k, CallerStatus) \/ \E n \in Node : NodeWrite(t, n, o, k, ReportStatus)
    BY <2>1, GuardedNodes
  <2>2. CASE \/ \E t \in Task, x \in Operation : EffectWrite(t, x)
             \/ \E t \in Task : Passing(t)
             \/ UNCHANGED storeVars
    BY <2>2, NoNode DEF EffectWrite, Passing, LeaseLapses, DeadlinePasses, storeVars
  <2> QED BY <2>1, <2>2, UnguardedNodes DEF LedgerNext, LedgerStep
<1> QED BY <1>1 DEF NodeSteps, NodeStep, RunningNodeHasAttempt, Running

\* A node that is shown as running has an attempt that an interruption will
\* close: no crash leaves a node running for good.
THEOREM RunningNodesHaveAttempts == LedgerSpec => []RunningNodeHasAttempt
<1>1. StoreInit => RunningNodeHasAttempt
  BY DEF StoreInit, RunningNodeHasAttempt
<1>2. StoreTypeOK /\ RunningNodeHasAttempt /\ [LedgerNext]_storeVars => RunningNodeHasAttempt'
  BY RunningStep
<1> QED BY <1>1, <1>2, LedgerTypesCorrect, PTL DEF LedgerSpec
=============================================================================
