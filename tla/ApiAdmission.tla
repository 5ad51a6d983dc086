---------------------------- MODULE ApiAdmission ----------------------------
(***************************************************************************)
(* The private HTTP API of deskpilot/api: request threads of one or more   *)
(* API processes admit tasks under an idempotency key, put them into the   *)
(* ledger in several transactions, decide on pending actions, control      *)
(* tasks and stream their events, while a worker process executes them.    *)
(*                                                                         *)
(* A row of api_submissions has the key (principal, request key); Slot     *)
(* is the set of such keys.  A slot of a decision has the request key      *)
(* "decision:<action>" of the action that another slot's task waits for.   *)
(* A step of a request is one transaction; a thread may stall or die       *)
(* between any two, and time passes whenever it likes.                     *)
(***************************************************************************)
EXTENDS Naturals, FiniteSets, FiniteSetsExt

CONSTANTS
  Principal, Slot,
  PrincipalOf,    \* the principal of a slot
  Parent,         \* the slot a decision slot decides on, None for the others
  Session,        \* sessions that may come to exist
  Caller,         \* request threads
  Body,           \* what a request asks for: the payload that is hashed
  CostOf,         \* the tokens a body reserves
  MaxRuns,        \* bound on the executions of a task
  Settings,       \* the circumstances that are observed
  None

\* What clients do, chosen once: the checks observe several settings in one run.
Setting ==
  [slots    : SUBSET Slot,      \* the keys they use
   bodies   : SUBSET Body,      \* what they ask for
   sessions : SUBSET Session,   \* the sessions they name
   callers  : SUBSET Caller,    \* the threads that serve them
   cancels  : BOOLEAN,          \* whether they cancel tasks
   quota    : [active : Nat, recent : Nat, daily : Nat, queue : Nat],
   streams  : BOOLEAN,          \* whether they follow a stream
   ages     : BOOLEAN,          \* whether minutes and days pass
   crashes  : 0..1]             \* how many threads die

ASSUME AdmissionAssumption ==
  /\ PrincipalOf \in [Slot -> Principal]
  /\ Parent \in [Slot -> Slot \cup {None}]
  /\ CostOf \in [Body -> Nat]
  /\ MaxRuns \in Nat /\ Settings \subseteq Setting
  /\ None \notin Slot \cup Principal \cup Session \cup Body

VARIABLES
  sub,            \* the rows of api_submissions
  sessionOwner,   \* the rows of api_sessions
  task,           \* the rows of the ledger and their jobs
  action,         \* the action that the task of a slot waits for
  caller,         \* the request threads
  stream,         \* an event stream on the task of a slot
  setting,        \* the setting that is observed
  slow,           \* history: slots whose claim aged under a living thread
  again,          \* history: slots whose task was resumed
  deaths          \* history: threads that died

vars == <<sub, sessionOwner, task, action, caller, stream, setting, slow, again, deaths>>

Status == {"absent", "paused", "queued", "running", "waiting_human",
           "succeeded", "failed", "cancelled", "interrupted"}
Terminal == {"succeeded", "failed", "cancelled"}
\* Mutant: a row starts without a state.
NoRow_Unset == [state |-> None, body |-> None, session |-> None, fresh |-> FALSE, age |-> "old"]
NoRow == [state |-> "none", body |-> None, session |-> None, fresh |-> FALSE, age |-> "old"]
NoTask == [status |-> "absent", job |-> None, cancelled |-> FALSE, runs |-> 0]
IdleCaller == [stage |-> "idle", slot |-> None, body |-> None, session |-> None]

\* The rows of api_submissions, of the ledger, and the state of a request thread.
SubRow ==
  [state : {"none", "creating", "ready"}, body : Body \cup {None}, session : Session \cup {None},
   fresh : BOOLEAN, age : {"minute", "day", "old"}]
TaskRow == [status : Status, job : Body \cup {None}, cancelled : BOOLEAN, runs : 0..MaxRuns]
CallerRow ==
  [stage : {"idle", "reserve", "repeat", "look", "create", "bind", "queue", "ready"},
   slot : Slot \cup {None}, body : Body \cup {None}, session : Session \cup {None}]

Init ==
  /\ setting \in Settings
  /\ sub = [x \in Slot |-> NoRow]
  /\ sessionOwner = [s \in Session |-> None]
  /\ task = [x \in Slot |-> NoTask]
  /\ action = [x \in Slot |-> [state |-> "none", by |-> None]]
  /\ caller = [c \in Caller |-> IdleCaller]
  /\ stream \in [slot : setting.slots, stage : {"off"}, rows : {FALSE}, final : {FALSE}, unread : {FALSE}]
  /\ slow = {} /\ again = {} /\ deaths = 0

-----------------------------------------------------------------------------
(* A request thread.                                                       *)

At(c, s) == caller[c].stage = s
Goto(c, s) == caller' = [caller EXCEPT ![c].stage = s]
Leave(c) == caller' = [caller EXCEPT ![c] = IdleCaller]
Decision(x) == Parent[x] # None
Fixed == UNCHANGED <<setting, deaths>>
Ledger == UNCHANGED <<task, action, stream, again>> /\ Fixed
Row(x, status) ==
  /\ task' = [task EXCEPT ![x].status = status]
  /\ stream' = [stream EXCEPT !.unread = @ \/ stream.slot = x]

\* owned_task: a task exists for its principal once its submission is ready.
Owned(x) == sub[x].state = "ready" /\ task[x].status # "absent"

\* submit and submit_sandbox; a session may be named.
Submit(c, x, b, s) ==
  /\ At(c, "idle") /\ c \in setting.callers
  /\ x \in setting.slots /\ ~Decision(x) /\ b \in setting.bodies
  /\ s \in setting.sessions \cup {None}
  /\ caller' = [caller EXCEPT ![c] = [stage |-> "reserve", slot |-> x, body |-> b, session |-> s]]
  /\ UNCHANGED <<sub, sessionOwner, slow>> /\ Ledger

\* decide: a prior decision is looked up first, and is reserved again without
\* being enqueued; otherwise the task must wait for this very action.
Decide(c, x, b) ==
  /\ At(c, "idle") /\ c \in setting.callers
  /\ x \in setting.slots /\ b \in setting.bodies
  /\ Decision(x) /\ Owned(Parent[x])
  /\ \/ sub[x].state # "none"
     \/ task[Parent[x]].status = "waiting_human" /\ action[Parent[x]].state = "pending"
  /\ caller' = [caller EXCEPT ![c] =
       [stage |-> IF sub[x].state # "none" THEN "repeat" ELSE "reserve",
        slot |-> x, body |-> b, session |-> sub[Parent[x]].session]]
  /\ UNCHANGED <<sub, sessionOwner, slow>> /\ Ledger

\* The rows that count as active work.
InFlight(x) ==
  \/ sub[x].state = "creating"
  \/ sub[x].state = "ready" /\ task[x].status \in {"queued", "running", "waiting_human"}

Mine(p) == {x \in Slot : PrincipalOf[x] = p}
Active(p) == {x \in Mine(p) : InFlight(x)}
Recent(p) == {x \in Mine(p) : sub[x].age = "minute"}
Reserved(p) == MapThenSumSet(LAMBDA x : CostOf[sub[x].body],
                             {x \in Mine(p) : sub[x].age # "old"})
\* Mutant: rows under construction are not counted.
WithinQuota_ReadyOnly(p, b) ==
  /\ Cardinality({x \in Active(p) : sub[x].state = "ready"}) < setting.quota.active
  /\ Cardinality({x \in Slot : InFlight(x)}) < setting.quota.queue
  /\ Cardinality(Recent(p)) < setting.quota.recent
  /\ Reserved(p) + CostOf[b] <= setting.quota.daily
WithinQuota(p, b) ==
  /\ Cardinality(Active(p)) < setting.quota.active
  /\ Cardinality({x \in Slot : InFlight(x)}) < setting.quota.queue
  /\ Cardinality(Recent(p)) < setting.quota.recent
  /\ Reserved(p) + CostOf[b] <= setting.quota.daily

Blocked_Never(x) == FALSE
Blocked_Always(x) == sub[x].state = "creating"

Conflicts(x, b) == sub[x].body # b
Blocked(x) == sub[x].fresh
MayUse(s, p) == s = None \/ sessionOwner[s] = p

\* _reserve of a key that has a row: a conflict, a replay, a refusal while the
\* last claim is younger than 30 seconds, or a claim of its own.
ReserveAgain(c) ==
  LET x == caller[c].slot IN
  /\ caller[c].stage \in {"reserve", "repeat"} /\ sub[x].state # "none"
  /\ IF Conflicts(x, caller[c].body) \/ sub[x].state = "ready" \/ Blocked(x)
     THEN Leave(c) /\ UNCHANGED sub
     ELSE /\ sub' = [sub EXCEPT ![x].fresh = TRUE]
          /\ IF At(c, "repeat") THEN Leave(c) ELSE Goto(c, "look")
  /\ UNCHANGED <<sessionOwner, slow>> /\ Ledger

\* _reserve of a new key: quotas, session and row in one transaction.
Reserve(c) ==
  LET x == caller[c].slot
      p == PrincipalOf[x]
  IN /\ At(c, "reserve") /\ sub[x].state = "none"
     /\ IF ~WithinQuota(p, caller[c].body) \/ ~MayUse(caller[c].session, p)
        THEN Leave(c) /\ UNCHANGED <<sub, sessionOwner>>
        ELSE \E s \in Session :
               /\ IF caller[c].session = None THEN sessionOwner[s] = None
                  ELSE s = caller[c].session
               /\ sessionOwner' = [sessionOwner EXCEPT ![s] =
                                     IF caller[c].session = None THEN p ELSE @]
               /\ sub' = [sub EXCEPT ![x] = [state |-> "creating", body |-> caller[c].body,
                             session |-> s, fresh |-> TRUE, age |-> "minute"]]
               /\ Goto(c, "look")
     /\ UNCHANGED slow /\ Ledger

\* _enqueue: the task is looked up, created so that no worker can claim it,
\* looked up again, described, queued, and the submission marked ready; what
\* was looked up is old when it is used.
LookUp(c) ==
  /\ At(c, "look")
  /\ CASE task[caller[c].slot].status = "absent" -> Goto(c, "create")
       [] task[caller[c].slot].status = "paused" -> Goto(c, "bind")
       [] OTHER -> Goto(c, "ready")
  /\ UNCHANGED <<sub, sessionOwner, slow>> /\ Ledger
Create(c) ==
  /\ At(c, "create")
  /\ IF task[caller[c].slot].status = "absent"
     THEN Row(caller[c].slot, "paused") /\ Goto(c, "look")
     ELSE Leave(c) /\ UNCHANGED <<task, stream>>
  /\ UNCHANGED <<sub, sessionOwner, action, slow, again>> /\ Fixed
Bind(c) ==
  /\ At(c, "bind")
  /\ task' = [task EXCEPT ![caller[c].slot].job = caller[c].body]
  /\ Goto(c, "queue")
  /\ UNCHANGED <<sub, sessionOwner, action, stream, slow, again>> /\ Fixed
\* update_task presents no lease: it is refused while a worker has the task.
Queue(c) ==
  /\ At(c, "queue")
  /\ IF task[caller[c].slot].status # "running"
     THEN Row(caller[c].slot, "queued") /\ Goto(c, "ready")
     ELSE Leave(c) /\ UNCHANGED <<task, stream>>
  /\ UNCHANGED <<sub, sessionOwner, action, slow, again>> /\ Fixed
MarkReady(c) ==
  /\ At(c, "ready")
  /\ sub' = [sub EXCEPT ![caller[c].slot].state = "ready"]
  /\ Leave(c)
  /\ UNCHANGED <<sessionOwner, slow>> /\ Ledger

CallerDies(c) ==
  /\ deaths < setting.crashes /\ ~At(c, "idle") /\ Leave(c)
  /\ deaths' = deaths + 1
  /\ UNCHANGED <<sub, sessionOwner, task, action, stream, setting, slow, again>>

-----------------------------------------------------------------------------
(* Control of a task, and the worker process.                              *)

Others == UNCHANGED <<sub, sessionOwner, caller, slow>> /\ Fixed

\* control: a task nobody executes is cancelled at once, a running one is
\* asked to stop.
Cancel(x) ==
  /\ setting.cancels /\ Owned(x) /\ task[x].status \notin Terminal
  /\ task' = [task EXCEPT ![x].cancelled = TRUE,
                          ![x].status = IF @ = "running" THEN @ ELSE "cancelled"]
  /\ stream' = [stream EXCEPT !.unread = @ \/ stream.slot = x]
  /\ UNCHANGED <<action, again>> /\ Others
Resume(x) ==
  /\ Owned(x) /\ task[x].job # None /\ ~task[x].cancelled
  /\ task[x].status \in {"paused", "failed", "interrupted"}
  /\ Row(x, "queued")
  /\ again' = again \cup {x}
  /\ UNCHANGED action /\ Others

StartTask(x) ==
  /\ task[x].status = "queued" /\ ~task[x].cancelled /\ task[x].job # None
  /\ task[x].runs < MaxRuns
  /\ task' = [task EXCEPT ![x].status = "running", ![x].runs = @ + 1]
  /\ stream' = [stream EXCEPT !.unread = @ \/ stream.slot = x]
  /\ UNCHANGED <<action, again>> /\ Others

\* The decision handler: the action must still be pending; approving or
\* refusing it takes it.
CarryOut(x) ==
  /\ Decision(x) /\ task[x].status = "running"
  /\ action[Parent[x]].state = "pending"
  /\ action' = [action EXCEPT ![Parent[x]] = [state |-> task[x].job, by |-> x]]
  /\ UNCHANGED <<task, stream, again>> /\ Others

\* The worker's last write, where a requested stop wins; or its lease lapses.
\* A decision that did not find its action pending fails.
EndTask(x, s) ==
  /\ task[x].status = "running"
  /\ Decision(x) /\ s = "succeeded" => action[Parent[x]].by = x
  /\ Row(x, IF s # "interrupted" /\ task[x].cancelled THEN "cancelled" ELSE s)
  /\ UNCHANGED <<action, again>> /\ Others

\* A task comes to wait for a decision of a person (outside this interface).
AwaitDecision(x) ==
  /\ task[x].status = "running" /\ (\E y \in setting.slots : Parent[y] = x)
  /\ action[x].state = "none"
  /\ Row(x, "waiting_human")
  /\ action' = [action EXCEPT ![x].state = "pending"]
  /\ UNCHANGED again /\ Others

-----------------------------------------------------------------------------
(* The event stream: the events beyond the cursor are read in batches, then *)
(* the task is read, in two transactions.                                   *)

StreamOnly == UNCHANGED <<sub, sessionOwner, task, action, caller, slow, again>> /\ Fixed
OpenStream ==
  /\ setting.streams /\ stream.stage = "off" /\ Owned(stream.slot)
  /\ stream' = [stream EXCEPT !.stage = "read", !.unread = TRUE]
  /\ StreamOnly
ReadEvents ==
  /\ stream.stage = "read"
  /\ \E rest \in BOOLEAN :
       /\ rest => stream.unread
       /\ stream' = [stream EXCEPT !.stage = "check", !.rows = stream.unread, !.unread = rest,
                       !.final = task[stream.slot].status \in Terminal]
  /\ StreamOnly

\* Mutant: a batch that was not empty does not keep the stream open.
MayEnd_Final == task[stream.slot].status \in Terminal
MayEnd == task[stream.slot].status \in Terminal /\ ~stream.rows
CheckTask ==
  /\ stream.stage = "check"
  /\ stream' = [stream EXCEPT !.stage = IF MayEnd THEN "ended" ELSE "read"]
  /\ StreamOnly

-----------------------------------------------------------------------------
(* Time.                                                                   *)

ClaimAges(x) ==
  /\ sub[x].state = "creating" /\ sub[x].fresh
  /\ sub' = [sub EXCEPT ![x].fresh = FALSE]
  /\ slow' = IF \E c \in Caller : ~At(c, "idle") /\ caller[c].slot = x
             THEN slow \cup {x} ELSE slow
  /\ UNCHANGED <<sessionOwner, caller>> /\ Ledger
RowAges(x) ==
  /\ setting.ages /\ sub[x].state # "none" /\ sub[x].age # "old"
  /\ sub' = [sub EXCEPT ![x].age = IF @ = "minute" THEN "day" ELSE "old"]
  /\ UNCHANGED <<sessionOwner, caller, slow>> /\ Ledger

RequestStep(c) ==
  \/ ReserveAgain(c) \/ Reserve(c) \/ LookUp(c) \/ Create(c) \/ Bind(c)
  \/ Queue(c) \/ MarkReady(c)
Next ==
  \/ \E c \in Caller :
       \/ RequestStep(c) \/ CallerDies(c)
       \/ \E x \in Slot, b \in Body :
            \/ \E s \in Session \cup {None} : Submit(c, x, b, s)
            \/ Decide(c, x, b)
  \/ \E x \in Slot :
       \/ Cancel(x) \/ Resume(x) \/ StartTask(x) \/ CarryOut(x) \/ AwaitDecision(x)
       \/ \E s \in {"succeeded", "failed", "interrupted"} : EndTask(x, s)
       \/ ClaimAges(x) \/ RowAges(x)
  \/ OpenStream \/ ReadEvents \/ CheckTask

Spec == Init /\ [][Next]_vars

\* Threads that live go on, claims grow old, and the client sends its request
\* again until it is told that it was accepted.
Retries(x) ==
  /\ sub[x].state = "creating" /\ ~sub[x].fresh
  /\ \E c \in Caller : Submit(c, x, sub[x].body, None) \/ Decide(c, x, sub[x].body)
Fairness ==
  /\ \A c \in Caller : WF_vars(RequestStep(c))
  /\ \A x \in Slot : WF_vars(ClaimAges(x)) /\ SF_vars(Retries(x))
FairSpec == Spec /\ Fairness

-----------------------------------------------------------------------------
\* Every variable keeps its type.
TypeOK ==
  /\ sub \in [Slot -> SubRow]
  /\ sessionOwner \in [Session -> Principal \cup {None}]
  /\ task \in [Slot -> TaskRow]
  /\ action \in [Slot -> [state : {"none", "pending"} \cup Body, by : Slot \cup {None}]]
  /\ caller \in [Caller -> CallerRow]
  /\ stream \in [slot : Slot, stage : {"off", "read", "check", "ended"}, rows : BOOLEAN,
                  final : BOOLEAN, unread : BOOLEAN]
  /\ setting \in Settings /\ slow \subseteq Slot /\ again \subseteq Slot
  /\ deaths \in 0..1

\* A principal has no more work in flight, requests in a minute or tokens in a
\* day than admitted, though requests race and tasks are built in several
\* transactions.  (Resuming admits nothing anew and is not limited.)
CountsHold ==
  \A p \in Principal :
    /\ Cardinality(Active(p) \ (again \cup slow)) <= setting.quota.active
    /\ Cardinality(Recent(p)) <= setting.quota.recent
TokensHold == \A p \in Principal : Reserved(p) <= setting.quota.daily
QuotaHolds == CountsHold /\ TokensHold

\* Sending a request again does not execute it again, unless a thread was
\* still at work on it when its claim ran out, or the task was resumed.
ExecutedOncePerKey == \A x \in Slot \ (slow \cup again) : task[x].runs <= 1

\* A stream that ends by itself has delivered every event, except those
\* of a task that ended, or was resumed, after the last look at the events.
StreamIsComplete ==
  [][(stream'.stage = "ended" /\ stream.stage # "ended" /\ stream.unread)
       => ~stream.final \/ stream.slot \in again \cup slow]_vars

\* A submission that was cut short is completed when the client sends it again.
SubmissionIsCompleted ==
  \A x \in Slot : (sub[x].state = "creating" /\ ~Decision(x)) ~> sub[x].state = "ready"

\* A decision whose reservation went stale is recovered too (the code enqueues
\* nothing when a decision is repeated, so a crash in between loses it).
DecisionIsQueued ==
  \A x \in Slot : (sub[x].state = "creating" /\ Decision(x)) ~> sub[x].state = "ready"
=============================================================================
