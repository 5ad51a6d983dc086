------------------------- MODULE ApiAdmissionProofs -------------------------
(***************************************************************************)
(* Proofs about the HTTP API: the state keeps its types, a request is      *)
(* executed once however often it is sent, and the quotas are respected.   *)
(***************************************************************************)
EXTENDS ApiAdmission, FiniteSetTheorems, TLAPS

-----------------------------------------------------------------------------
(* The invariant.                                                          *)

\* A thread that serves a request knows its key and its body.
BusyOK == \A c \in Caller : caller[c].stage # "idle" => caller[c].slot \in Slot /\ caller[c].body \in Body
\* A task that is executed has a job.
JobOK == \A x \in Slot : task[x].status = "running" => task[x].job # None

\* A thread that builds the task of a slot, in _enqueue.
Builds(c, x) == caller[c].slot = x /\ caller[c].stage \in {"look", "create", "bind", "queue", "ready"}
\* Unless its claim ran out under a living thread, a slot is built by one
\* thread, whose claim is young.
ClaimOK ==
  \A x \in Slot \ slow :
    /\ \A c \in Caller : Builds(c, x) => sub[x].state = "creating" /\ sub[x].fresh
    /\ \A b, c \in Caller : Builds(b, x) /\ Builds(c, x) => b = c

\* A task that was executed is not about to be executed again, and one that a
\* thread is about to queue has not been queued.
RunsOK ==
  \A x \in Slot \ (slow \cup again) :
    /\ task[x].runs <= 1
    /\ task[x].runs > 0 => task[x].status \notin {"absent", "paused", "queued"}
    /\ \A c \in Caller :
         caller[c].slot = x /\ caller[c].stage \in {"bind", "queue"} => task[x].status = "paused"

\* The slots that have a row.
Filled == {x \in Slot : sub[x].state # "none"}
CountOK ==
  /\ IsFiniteSet(Filled)
  /\ \A x \in Slot : sub[x].age = "minute" => sub[x].state # "none"
  /\ CountsHold

\* Rows that are charged to a day have a body that has a cost.
ChargedOK == \A x \in Slot : sub[x].age # "old" => sub[x].state # "none" /\ sub[x].body \in Body
TokensOK == ChargedOK /\ TokensHold

Inv == TypeOK /\ BusyOK /\ JobOK /\ ClaimOK /\ RunsOK /\ CountOK /\ TokensOK

-----------------------------------------------------------------------------
(* What the steps write.                                                   *)

\* The parts of the rows.
LEMMA RowParts ==
  /\ \A r \in CallerRow : r.body \in Body \cup {None} /\ r.slot \in Slot \cup {None}
                          /\ r.session \in Session \cup {None}
  /\ \A r \in TaskRow : r.status \in Status /\ r.job \in Body \cup {None} /\ r.runs \in 0..MaxRuns
  /\ \A r \in SubRow : r.body \in Body \cup {None} /\ r.session \in Session \cup {None}
BY DEF CallerRow, TaskRow, SubRow

\* A thread goes on, or answers and is idle.
LEMMA CallerWrite ==
  /\ IdleCaller \in CallerRow /\ IdleCaller.stage = "idle"
  /\ \A r \in CallerRow, s \in {"look", "create", "bind", "queue", "ready"} :
       [r EXCEPT !.stage = s] \in CallerRow
BY DEF CallerRow, IdleCaller

\* Rows of submissions.
LEMMA SubWrite ==
  /\ NoRow \in SubRow /\ NoRow.state = "none" /\ NoRow.age = "old"
  /\ \A r \in SubRow : /\ \A v \in BOOLEAN : [r EXCEPT !.fresh = v] \in SubRow
                       /\ [r EXCEPT !.state = "ready"] \in SubRow
                       /\ \A a \in {"minute", "day", "old"} : [r EXCEPT !.age = a] \in SubRow
BY DEF SubRow, NoRow

\* Rows of the ledger.
LEMMA TaskWrite ==
  /\ NoTask \in TaskRow /\ NoTask.runs = 0 /\ NoTask.status = "absent"
  /\ \A r \in TaskRow : /\ \A s \in Status : [r EXCEPT !.status = s] \in TaskRow
                        /\ \A b \in Body : [r EXCEPT !.job = b] \in TaskRow
                        /\ \A s \in Status : [r EXCEPT !.cancelled = TRUE, !.status = s] \in TaskRow
                        /\ r.runs < MaxRuns =>
                             [r EXCEPT !.status = "running", !.runs = r.runs + 1] \in TaskRow
<1>1. NoTask \in TaskRow /\ NoTask.runs = 0 /\ NoTask.status = "absent"
  BY AdmissionAssumption DEF TaskRow, NoTask, Status
<1>2. ASSUME NEW r \in TaskRow, NEW s \in Status
      PROVE  [r EXCEPT !.status = s] \in TaskRow /\ [r EXCEPT !.cancelled = TRUE, !.status = s] \in TaskRow
  BY DEF TaskRow
<1>3. ASSUME NEW r \in TaskRow, NEW b \in Body
      PROVE  [r EXCEPT !.job = b] \in TaskRow
  BY DEF TaskRow
<1>4. ASSUME NEW r \in TaskRow, r.runs < MaxRuns
      PROVE  [r EXCEPT !.status = "running", !.runs = r.runs + 1] \in TaskRow
  <2>1. r.runs \in 0..MaxRuns /\ MaxRuns \in Nat /\ "running" \in Status
    BY AdmissionAssumption DEF TaskRow, Status
  <2>2. r.runs + 1 \in 0..MaxRuns
    BY <1>4, <2>1
  <2> QED BY <2>1, <2>2 DEF TaskRow
<1> QED BY <1>1, <1>2, <1>3, <1>4

-----------------------------------------------------------------------------
(* Types.                                                                  *)

\* The parts of the type invariant.
SubType == sub \in [Slot -> SubRow] /\ sessionOwner \in [Session -> Principal \cup {None}]
TaskType == task \in [Slot -> TaskRow]
ActionType == action \in [Slot -> [state : {"none", "pending"} \cup Body, by : Slot \cup {None}]]
CallerType == caller \in [Caller -> CallerRow]
StreamType == stream \in [slot : Slot, stage : {"off", "read", "check", "ended"}, rows : BOOLEAN,
                          final : BOOLEAN, unread : BOOLEAN]
RestType == setting \in Settings /\ slow \subseteq Slot /\ again \subseteq Slot /\ deaths \in 0..1
LEMMA TypeParts == TypeOK <=> SubType /\ TaskType /\ ActionType /\ CallerType /\ StreamType /\ RestType
BY DEF TypeOK, SubType, TaskType, ActionType, CallerType, StreamType, RestType

\* The setting does not change.
LEMMA SettingType == RestType => setting \in Setting
BY AdmissionAssumption DEF RestType

\* The program starts in a typed state.
LEMMA InitType == Init => TypeOK
<1> SUFFICES ASSUME Init PROVE TypeOK
  OBVIOUS
<1>1. SubType /\ TaskType /\ ActionType
  BY SubWrite, TaskWrite DEF Init, SubType, TaskType, ActionType
<1>2. CallerType
  BY CallerWrite DEF Init, CallerType
<1>3. StreamType
  BY AdmissionAssumption DEF Init, StreamType, Setting
<1>4. RestType
  BY DEF Init, RestType
<1> QED BY <1>1, <1>2, <1>3, <1>4, TypeParts

\* Submissions are typed after every step of a request thread.
LEMMA RequestKeepsTypes ==
  ASSUME TypeOK, BusyOK, NEW c \in Caller, RequestStep(c)
  PROVE  TypeOK'
<1> DEFINE x == caller[c].slot
<1>0. SubType /\ TaskType /\ ActionType /\ CallerType /\ StreamType /\ RestType
  BY TypeParts
<1>1. caller[c] \in CallerRow
  BY <1>0 DEF CallerType
<1>2. caller[c].stage # "idle"
  BY DEF RequestStep, ReserveAgain, Reserve, LookUp, Create, Bind, Queue, MarkReady, At
<1>3. x \in Slot /\ caller[c].body \in Body /\ caller[c].session \in Session \cup {None}
  BY <1>1, <1>2, RowParts DEF BusyOK
<1>4. sub[x] \in SubRow /\ task[x] \in TaskRow
  BY <1>0, <1>3 DEF SubType, TaskType
<1>5. ActionType' /\ RestType'
  BY <1>0 DEF RequestStep, ReserveAgain, Reserve, LookUp, Create, Bind, Queue, MarkReady, Ledger, Fixed,
       ActionType, RestType
<1>6. CallerType'
  <2>1. ASSUME Leave(c) PROVE CallerType'
    BY <2>1, <1>0, CallerWrite DEF Leave, CallerType
  <2>2. ASSUME NEW s \in {"look", "create", "bind", "queue", "ready"}, Goto(c, s) PROVE CallerType'
    BY <2>2, <1>0, <1>1, CallerWrite DEF Goto, CallerType
  <2> QED
    BY <2>1, <2>2 DEF RequestStep, ReserveAgain, Reserve, LookUp, Create, Bind, Queue, MarkReady
<1>7. StreamType'
  <2>1. ASSUME NEW s, Row(x, s) PROVE StreamType'
    BY <2>1, <1>0, <1>3 DEF Row, StreamType
  <2> QED
    BY <1>0, <2>1 DEF RequestStep, ReserveAgain, Reserve, LookUp, Create, Bind, Queue, MarkReady, Ledger,
         StreamType
<1>8. TaskType'
  <2>1. ASSUME NEW s \in Status, Row(x, s) PROVE TaskType'
    BY <2>1, <1>0, <1>3, <1>4, TaskWrite DEF Row, TaskType
  <2>2. "paused" \in Status /\ "queued" \in Status
    BY DEF Status
  <2>3. CASE Bind(c)
    BY <2>3, <1>0, <1>3, <1>4, TaskWrite DEF Bind, TaskType
  <2>4. CASE UNCHANGED task
    BY <2>4, <1>0 DEF TaskType
  <2> QED
    BY <2>1, <2>2, <2>3, <2>4 DEF RequestStep, ReserveAgain, Reserve, LookUp, Create, Queue, MarkReady, Ledger
<1>9. SubType'
  <2>1. CASE UNCHANGED <<sub, sessionOwner>>
    BY <2>1, <1>0 DEF SubType
  <2>2. CASE ReserveAgain(c)
    BY <2>2, <1>0, <1>3, <1>4, SubWrite DEF ReserveAgain, SubType
  <2>3. CASE Reserve(c)
    <3>1. CASE UNCHANGED <<sub, sessionOwner>>
      BY <3>1, <2>1
    <3>2. ASSUME NEW s \in Session,
                 sessionOwner' = [sessionOwner EXCEPT ![s] =
                                    IF caller[c].session = None THEN PrincipalOf[x] ELSE @],
                 sub' = [sub EXCEPT ![x] = [state |-> "creating", body |-> caller[c].body,
                             session |-> s, fresh |-> TRUE, age |-> "minute"]]
          PROVE  SubType'
      <4>1. [state |-> "creating", body |-> caller[c].body, session |-> s, fresh |-> TRUE, age |-> "minute"]
              \in SubRow
        BY <1>3 DEF SubRow
      <4>2. PrincipalOf[x] \in Principal
        BY <1>3, AdmissionAssumption
      <4> QED BY <3>2, <4>1, <4>2, <1>0, <1>3 DEF SubType
    <3> QED BY <2>3, <3>1, <3>2 DEF Reserve
  <2>4. CASE MarkReady(c)
    BY <2>4, <1>0, <1>3, <1>4, SubWrite DEF MarkReady, SubType
  <2> QED
    BY <2>1, <2>2, <2>3, <2>4 DEF RequestStep, LookUp, Create, Bind, Queue, Ledger
<1> QED
  BY <1>5, <1>6, <1>7, <1>8, <1>9 DEF TypeOK, SubType, TaskType, ActionType, CallerType, StreamType, RestType

\* So is the state after every other step.
LEMMA OthersKeepTypes ==
  ASSUME TypeOK, BusyOK, JobOK, [Next]_vars, \A c \in Caller : ~RequestStep(c)
  PROVE  TypeOK'
<1>0. SubType /\ TaskType /\ ActionType /\ CallerType /\ StreamType /\ RestType
  BY TypeParts
<1>1. setting \in Setting
  BY <1>0, SettingType
<1> DEFINE Typed == SubType /\ TaskType /\ ActionType /\ CallerType /\ StreamType /\ RestType
<1>2. ASSUME NEW c \in Caller, CallerDies(c)
      PROVE  Typed'
  <2>1. CallerType'
    BY <1>2, <1>0, CallerWrite DEF CallerDies, Leave, CallerType
  <2>2. RestType'
    <3>1. setting.crashes \in 0..1 /\ deaths \in 0..1 /\ deaths < setting.crashes
      BY <1>2, <1>0, <1>1 DEF CallerDies, RestType, Setting
    <3>2. deaths + 1 \in 0..1
      BY <3>1
    <3> QED BY <3>2, <1>2, <1>0 DEF CallerDies, RestType
  <2> QED BY <2>1, <2>2, <1>2, <1>0 DEF CallerDies, SubType, TaskType, ActionType, StreamType
<1>3. ASSUME NEW c \in Caller, NEW x \in Slot, NEW b \in Body,
             \/ \E s \in Session \cup {None} : Submit(c, x, b, s)
             \/ Decide(c, x, b)
      PROVE  Typed'
  <2>1. CallerType'
    <3>1. CASE Decide(c, x, b)
      <4>1. Parent[x] \in Slot
        BY <3>1, AdmissionAssumption DEF Decide, Decision
      <4>2. sub[Parent[x]].session \in Session \cup {None}
        BY <4>1, <1>0, RowParts DEF SubType
      <4> QED BY <3>1, <4>2, <1>0 DEF Decide, CallerType, CallerRow
    <3>2. ASSUME NEW s \in Session \cup {None}, Submit(c, x, b, s)
          PROVE  CallerType'
      BY <3>2, <1>0 DEF Submit, CallerType, CallerRow
    <3> QED BY <1>3, <3>1, <3>2
  <2> QED BY <2>1, <1>3, <1>0 DEF Submit, Decide, Ledger, Fixed, SubType, TaskType, ActionType, StreamType,
       RestType
<1>4. ASSUME NEW x \in Slot, Cancel(x) \/ Resume(x) \/ StartTask(x)
      PROVE  Typed'
  <2>1. task[x] \in TaskRow /\ task[x].status \in Status
    BY <1>0, RowParts DEF TaskType
  <2>2. "queued" \in Status /\ "cancelled" \in Status
    BY DEF Status
  <2>3. TaskType'
    <3>1. CASE Cancel(x)
      BY <3>1, <1>0, <2>1, <2>2, TaskWrite DEF Cancel, TaskType
    <3>2. CASE Resume(x)
      BY <3>2, <1>0, <2>1, <2>2, TaskWrite DEF Resume, Row, TaskType
    <3>3. CASE StartTask(x)
      BY <3>3, <1>0, <2>1, TaskWrite DEF StartTask, TaskType
    <3> QED BY <1>4, <3>1, <3>2, <3>3
  <2>4. StreamType'
    BY <1>4, <1>0 DEF Cancel, Resume, StartTask, Row, StreamType
  <2> QED BY <2>3, <2>4, <1>4, <1>0 DEF Cancel, Resume, StartTask, Others, Fixed, SubType, ActionType,
       CallerType, RestType
<1>5. ASSUME NEW x \in Slot, CarryOut(x) \/ AwaitDecision(x) \/ (\E s \in {"succeeded", "failed",
       "interrupted"} : EndTask(x, s))
      PROVE  Typed'
  <2>1. task[x] \in TaskRow /\ task[x].job \in Body \cup {None}
    BY <1>0, RowParts DEF TaskType
  <2>2. {"waiting_human", "succeeded", "failed", "interrupted", "cancelled"} \subseteq Status
    BY DEF Status
  <2>3. ASSUME NEW s \in Status, Row(x, s)
        PROVE  TaskType' /\ StreamType'
    BY <2>3, <1>0, <2>1, TaskWrite DEF Row, TaskType, StreamType
  <2>4. CASE CarryOut(x)
    <3>1. Parent[x] \in Slot
      BY <2>4, AdmissionAssumption DEF CarryOut, Decision
    <3>2. task[x].job \in Body
      BY <2>4, <2>1 DEF CarryOut, JobOK
    <3>3. ActionType'
      BY <2>4, <3>1, <3>2, <1>0 DEF CarryOut, ActionType
    <3> QED BY <2>4, <3>3, <1>0 DEF CarryOut, Others, Fixed, SubType, TaskType, CallerType, StreamType, RestType
  <2>5. CASE AwaitDecision(x)
    <3>1. ActionType'
      BY <2>5, <1>0 DEF AwaitDecision, ActionType
    <3> QED BY <2>5, <2>2, <2>3, <3>1, <1>0 DEF AwaitDecision, Others, Fixed, SubType, CallerType, RestType
  <2>6. ASSUME NEW s \in {"succeeded", "failed", "interrupted"}, EndTask(x, s)
        PROVE  Typed'
    <3>1. TaskType' /\ StreamType'
      <4>1. \E r \in Status : Row(x, r)
        BY <2>6, <2>2 DEF EndTask
      <4> QED BY <4>1, <2>3
    <3> QED BY <2>6, <3>1, <1>0 DEF EndTask, Others, Fixed, SubType, ActionType, CallerType, RestType
  <2> QED BY <1>5, <2>4, <2>5, <2>6
<1>6. ASSUME NEW x \in Slot, ClaimAges(x) \/ RowAges(x)
      PROVE  Typed'
  <2>1. sub[x] \in SubRow
    BY <1>0 DEF SubType
  <2>2. SubType'
    BY <1>6, <2>1, <1>0, SubWrite DEF ClaimAges, RowAges, SubType
  <2>3. RestType'
    BY <1>6, <1>0 DEF ClaimAges, RowAges, Ledger, Fixed, RestType
  <2> QED BY <2>2, <2>3, <1>6, <1>0 DEF ClaimAges, RowAges, Ledger, TaskType, ActionType, CallerType, StreamType
<1>7. ASSUME OpenStream \/ ReadEvents \/ CheckTask
      PROVE  Typed'
  <2>1. StreamType'
    <3>1. (task[stream.slot].status \in Terminal) \in BOOLEAN /\ stream.unread \in BOOLEAN
      BY <1>0 DEF StreamType
    <3>2. CASE OpenStream
      BY <3>2, <1>0 DEF OpenStream, StreamType
    <3>3. ASSUME NEW rest \in BOOLEAN, NEW final \in BOOLEAN,
                 stream' = [stream EXCEPT !.stage = "check", !.rows = stream.unread, !.unread = rest,
                              !.final = final]
          PROVE  StreamType'
      BY <3>3, <3>1, <1>0 DEF StreamType
    <3>4. CASE ReadEvents
      BY <3>4, <3>1, <3>3 DEF ReadEvents
    <3>5. CASE CheckTask
      BY <3>5, <1>0 DEF CheckTask, StreamType
    <3> QED BY <1>7, <3>2, <3>4, <3>5
  <2> QED BY <2>1, <1>7, <1>0 DEF OpenStream, ReadEvents, CheckTask, StreamOnly, Fixed, SubType, TaskType,
       ActionType, CallerType, RestType
<1>8. ASSUME UNCHANGED vars
      PROVE  Typed'
  BY <1>8, <1>0 DEF vars, SubType, TaskType, ActionType, CallerType, StreamType, RestType
<1>9. Typed'
  BY <1>2, <1>3, <1>4, <1>5, <1>6, <1>7, <1>8 DEF Next
<1> QED
  BY <1>9 DEF TypeOK, SubType, TaskType, ActionType, CallerType, StreamType, RestType

\* The two lemmas are one.
LEMMA NextType == TypeOK /\ BusyOK /\ JobOK /\ [Next]_vars => TypeOK'
BY RequestKeepsTypes, OthersKeepTypes

-----------------------------------------------------------------------------
(* Requests in progress.                                                   *)

\* What Leave and Goto make of the threads.
LEMMA CallerMoves ==
  ASSUME CallerType, NEW c \in Caller
  PROVE  /\ Leave(c) => /\ caller'[c] = IdleCaller
                        /\ \A d \in Caller \ {c} : caller'[d] = caller[d]
         /\ \A s : Goto(c, s) => /\ caller'[c].stage = s /\ caller'[c].slot = caller[c].slot
                                 /\ caller'[c].body = caller[c].body
                                 /\ \A d \in Caller \ {c} : caller'[d] = caller[d]
BY DEF CallerType, CallerRow, Leave, Goto

\* The threads know what they serve.
LEMMA BusyStep == TypeOK /\ BusyOK /\ [Next]_vars => BusyOK'
<1> SUFFICES ASSUME TypeOK, BusyOK, [Next]_vars PROVE BusyOK'
  OBVIOUS
<1>0. CallerType
  BY TypeParts
<1>1. ASSUME NEW c \in Caller, Leave(c) \/ (~At(c, "idle") /\ \E s : Goto(c, s))
      PROVE  BusyOK'
  BY <1>1, <1>0, CallerMoves, CallerWrite DEF BusyOK, At
<1>2. ASSUME NEW c \in Caller, RequestStep(c) \/ CallerDies(c)
      PROVE  BusyOK'
  <2>1. Leave(c) \/ (~At(c, "idle") /\ \E s : Goto(c, s))
    BY <1>2 DEF RequestStep, ReserveAgain, Reserve, LookUp, Create, Bind, Queue, MarkReady, CallerDies, At
  <2> QED BY <2>1, <1>1
<1>3. ASSUME NEW c \in Caller, NEW x \in Slot, NEW b \in Body,
             \/ \E s \in Session \cup {None} : Submit(c, x, b, s)
             \/ Decide(c, x, b)
      PROVE  BusyOK'
  BY <1>3, <1>0 DEF Submit, Decide, BusyOK, CallerType
<1>4. CASE UNCHANGED caller
  BY <1>4 DEF BusyOK
<1> QED
  BY <1>2, <1>3, <1>4 DEF Next, vars, Cancel, Resume, StartTask, CarryOut, AwaitDecision, EndTask, Others,
       ClaimAges, RowAges, OpenStream, ReadEvents, CheckTask, StreamOnly

\* What Row makes of the ledger.
LEMMA RowMoves ==
  ASSUME TaskType, NEW x \in Slot, NEW s, Row(x, s)
  PROVE  /\ task'[x].status = s /\ task'[x].job = task[x].job /\ task'[x].runs = task[x].runs
         /\ \A y \in Slot \ {x} : task'[y] = task[y]
BY DEF TaskType, TaskRow, Row

\* A worker executes no task without a job.
LEMMA JobStep == TypeOK /\ BusyOK /\ JobOK /\ [Next]_vars => JobOK'
<1> SUFFICES ASSUME TypeOK, BusyOK, JobOK, [Next]_vars PROVE JobOK'
  OBVIOUS
<1>0. TaskType /\ CallerType
  BY TypeParts
<1>1. ASSUME NEW x \in Slot, NEW s, s # "running", Row(x, s)
      PROVE  JobOK'
  BY <1>1, <1>0, RowMoves DEF JobOK
<1>2. CASE UNCHANGED task
  BY <1>2 DEF JobOK
<1>3. ASSUME NEW c \in Caller, RequestStep(c)
      PROVE  JobOK'
  <2>1. caller[c].slot \in Slot /\ caller[c].body \in Body
    BY <1>3 DEF RequestStep, ReserveAgain, Reserve, LookUp, Create, Bind, Queue, MarkReady, At, BusyOK
  <2>2. CASE Bind(c)
    BY <2>1, <2>2, <1>0, AdmissionAssumption DEF Bind, JobOK, TaskType, TaskRow
  <2> QED
    BY <2>1, <2>2, <1>1, <1>2, <1>3 DEF RequestStep, ReserveAgain, Reserve, LookUp, Create, Queue, MarkReady,
         Ledger
<1>4. ASSUME NEW x \in Slot, Cancel(x) \/ Resume(x) \/ StartTask(x) \/ AwaitDecision(x)
      PROVE  JobOK'
  <2>1. CASE Cancel(x)
    BY <2>1, <1>0 DEF Cancel, JobOK, TaskType, TaskRow
  <2>2. CASE StartTask(x)
    BY <2>2, <1>0 DEF StartTask, JobOK, TaskType, TaskRow
  <2> QED BY <2>1, <2>2, <1>1, <1>4 DEF Resume, AwaitDecision
<1>5. ASSUME NEW x \in Slot, NEW s \in {"succeeded", "failed", "interrupted"}, EndTask(x, s)
      PROVE  JobOK'
  <2>1. \E r \in {"succeeded", "failed", "interrupted", "cancelled"} : Row(x, r)
    BY <1>5 DEF EndTask
  <2> QED BY <2>1, <1>1
<1> QED
  BY <1>2, <1>3, <1>4, <1>5 DEF Next, vars, Submit, Decide, CallerDies, CarryOut, Ledger, ClaimAges, RowAges,
       OpenStream, ReadEvents, CheckTask, StreamOnly

\* A slot whose claim is in force is built by the thread that made the claim.
LEMMA ClaimStep == TypeOK /\ BusyOK /\ ClaimOK /\ [Next]_vars => ClaimOK'
<1> SUFFICES ASSUME TypeOK, BusyOK, ClaimOK, [Next]_vars PROVE ClaimOK'
  OBVIOUS
<1>0. CallerType /\ SubType
  BY TypeParts
<1>1. ASSUME NEW c \in Caller, RequestStep(c)
      PROVE  ClaimOK'
  <2> DEFINE x == caller[c].slot
  <2>1. x \in Slot /\ caller[c].body \in Body /\ slow' = slow
    BY <1>1 DEF RequestStep, ReserveAgain, Reserve, LookUp, Create, Bind, Queue, MarkReady, At, BusyOK, Ledger
  \* The thread stops, and no submission changes but one that it builds.
  <2>2. ASSUME Leave(c), \/ UNCHANGED sub
                         \/ Builds(c, x) /\ \A y \in Slot \ {x} : sub'[y] = sub[y]
                         \/ sub' = [sub EXCEPT ![x].fresh = TRUE]
        PROVE  ClaimOK'
    <3>1. ASSUME NEW d \in Caller, NEW y, Builds(d, y)'
          PROVE  d # c /\ Builds(d, y)
      BY <3>1, <2>2, <1>0, CallerMoves, CallerWrite DEF Builds
    <3>2. ASSUME NEW d \in Caller, NEW y \in Slot \ slow, Builds(d, y)'
          PROVE  sub'[y].state = sub[y].state /\ sub'[y].fresh = sub[y].fresh
      <4>1. d # c /\ Builds(d, y) /\ sub[y].fresh
        BY <3>1, <3>2 DEF ClaimOK
      <4>2. y # x \/ ~Builds(c, x)
        BY <4>1, <3>2 DEF ClaimOK
      <4>3. sub[y] \in SubRow /\ sub[y].fresh = TRUE
        BY <4>1, <2>1, <1>0 DEF SubType, SubRow
      <4>4. CASE sub' = [sub EXCEPT ![x].fresh = TRUE]
        BY <4>3, <4>4, <2>1, <1>0 DEF SubType, SubRow
      <4> QED BY <4>1, <4>2, <4>4, <2>1, <2>2
    <3> QED BY <2>1, <3>1, <3>2 DEF ClaimOK
  \* The thread goes on with what it builds.
  <2>3. ASSUME NEW s, Builds(c, x), Goto(c, s), UNCHANGED sub
        PROVE  ClaimOK'
    <3>1. ASSUME NEW d \in Caller, NEW y, Builds(d, y)'
          PROVE  Builds(d, y)
      BY <3>1, <2>3, <1>0, CallerMoves DEF Builds
    <3> QED BY <2>1, <2>3, <3>1 DEF ClaimOK
  \* The thread claims what nobody builds.
  <2>4. ASSUME Goto(c, "look"), ~sub[x].fresh \/ sub[x].state = "none",
               sub'[x].state = "creating", sub'[x].fresh,
               \A y \in Slot \ {x} : sub'[y] = sub[y]
        PROVE  ClaimOK'
    <3>1. ASSUME NEW d \in Caller, NEW y, Builds(d, y)'
          PROVE  (d = c /\ y = x) \/ Builds(d, y)
      BY <3>1, <2>4, <1>0, CallerMoves DEF Builds
    <3>2. x \notin slow => \A d \in Caller : ~Builds(d, x)
      BY <2>1, <2>4 DEF ClaimOK
    <3> QED BY <2>1, <2>4, <3>1, <3>2 DEF ClaimOK
  <2>5. CASE ReserveAgain(c)
    <3>1. CASE Leave(c) /\ UNCHANGED sub
      BY <3>1, <2>2
    <3>2. CASE sub' = [sub EXCEPT ![x].fresh = TRUE] /\ Leave(c)
      BY <3>2, <2>2
    <3>3. CASE /\ sub' = [sub EXCEPT ![x].fresh = TRUE] /\ Goto(c, "look")
               /\ sub[x].state # "none" /\ sub[x].state # "ready" /\ ~Blocked(x)
      <4>1. /\ sub'[x].state = "creating" /\ sub'[x].fresh
            /\ \A y \in Slot \ {x} : sub'[y] = sub[y]
        BY <3>3, <2>1, <1>0 DEF SubType, SubRow
      <4> QED BY <3>3, <4>1, <2>4 DEF Blocked
    <3> QED BY <2>5, <3>1, <3>2, <3>3 DEF ReserveAgain
  <2>6. CASE Reserve(c)
    <3>1. CASE Leave(c) /\ UNCHANGED sub
      BY <3>1, <2>2
    <3>2. ASSUME NEW s \in Session, Goto(c, "look"),
                 sub' = [sub EXCEPT ![x] = [state |-> "creating", body |-> caller[c].body,
                             session |-> s, fresh |-> TRUE, age |-> "minute"]]
          PROVE  ClaimOK'
      BY <3>2, <2>1, <2>4, <2>6, <1>0 DEF Reserve, SubType
    <3> QED BY <2>6, <3>1, <3>2 DEF Reserve
  <2>7. CASE MarkReady(c)
    <3>1. Builds(c, x) /\ \A y \in Slot \ {x} : sub'[y] = sub[y]
      BY <2>7, <2>1, <1>0 DEF MarkReady, Builds, At, SubType
    <3> QED BY <2>7, <3>1, <2>2 DEF MarkReady
  <2>8. CASE LookUp(c) \/ Create(c) \/ Bind(c) \/ Queue(c)
    <3>1. Builds(c, x) /\ UNCHANGED sub /\ (Leave(c) \/ \E s : Goto(c, s))
      BY <2>8 DEF LookUp, Create, Bind, Queue, At, Builds
    <3> QED BY <3>1, <2>2, <2>3
  <2> QED BY <1>1, <2>5, <2>6, <2>7, <2>8 DEF RequestStep
<1>2. ASSUME NEW c \in Caller, CallerDies(c)
      PROVE  ClaimOK'
  <2>1. ASSUME NEW d \in Caller, NEW y, Builds(d, y)'
        PROVE  Builds(d, y)
    BY <2>1, <1>2, <1>0, CallerMoves, CallerWrite DEF CallerDies, Builds
  <2> QED BY <1>2, <2>1 DEF CallerDies, ClaimOK
<1>3. ASSUME NEW c \in Caller, NEW x \in Slot, NEW b \in Body,
             \/ \E s \in Session \cup {None} : Submit(c, x, b, s)
             \/ Decide(c, x, b)
      PROVE  ClaimOK'
  <2>1. ASSUME NEW d \in Caller, NEW y, Builds(d, y)'
        PROVE  Builds(d, y)
    BY <2>1, <1>3, <1>0 DEF Submit, Decide, Builds, CallerType
  <2> QED BY <1>3, <2>1 DEF Submit, Decide, ClaimOK
<1>4. ASSUME NEW x \in Slot, ClaimAges(x)
      PROVE  ClaimOK'
  <2>1. ASSUME NEW d \in Caller, NEW y \in Slot \ slow', Builds(d, y)
        PROVE  y # x /\ y \notin slow
    BY <2>1, <1>4 DEF ClaimAges, Builds, At
  <2>2. UNCHANGED caller /\ \A y \in Slot \ {x} : sub'[y] = sub[y]
    BY <1>4, <1>0 DEF ClaimAges, SubType
  <2>3. \A d \in Caller, y \in Slot : Builds(d, y)' <=> Builds(d, y)
    BY <2>2 DEF Builds
  <2> QED BY <2>1, <2>2, <2>3 DEF ClaimOK
<1>5. ASSUME NEW x \in Slot, RowAges(x)
      PROVE  ClaimOK'
  <2>1. UNCHANGED <<caller, slow>>
    BY <1>5 DEF RowAges
  <2>2. \A y \in Slot : sub'[y].state = sub[y].state /\ sub'[y].fresh = sub[y].fresh
    BY <1>5, <1>0 DEF RowAges, SubType, SubRow
  <2> QED BY <2>1, <2>2 DEF ClaimOK, Builds
<1>6. CASE UNCHANGED <<sub, caller, slow>>
  BY <1>6 DEF ClaimOK, Builds
<1> QED
  BY <1>1, <1>2, <1>3, <1>4, <1>5, <1>6 DEF Next, vars, Cancel, Resume, StartTask, CarryOut, AwaitDecision,
       EndTask, Others, OpenStream, ReadEvents, CheckTask, StreamOnly

-----------------------------------------------------------------------------
(* Executions.                                                             *)

\* A task that was executed is not queued again without a person's request.
LEMMA RunsStep == TypeOK /\ BusyOK /\ ClaimOK /\ RunsOK /\ [Next]_vars => RunsOK'
<1> SUFFICES ASSUME TypeOK, BusyOK, ClaimOK, RunsOK, [Next]_vars PROVE RunsOK'
  OBVIOUS
<1>0. CallerType /\ SubType /\ TaskType
  BY TypeParts
\* A task that is not being built may change as its worker changes it.
<1>a. ASSUME NEW y \in Slot \ (slow \cup again), NEW c \in Caller,
             caller[c].slot = y, caller[c].stage \in {"bind", "queue"}
      PROVE  sub[y].state = "creating" /\ task[y].status = "paused" /\ task[y].runs = 0
  <2>1. Builds(c, y)
    BY <1>a DEF Builds
  <2>2. task[y].status = "paused" /\ ~(task[y].runs > 0) /\ task[y].runs \in Nat
    BY <1>a, <1>0, RowParts, AdmissionAssumption DEF RunsOK, TaskType
  <2> QED BY <1>a, <2>1, <2>2 DEF ClaimOK
<1>1. ASSUME NEW c \in Caller, RequestStep(c)
      PROVE  RunsOK'
  <2> DEFINE x == caller[c].slot
  <2>1. x \in Slot /\ caller[c].body \in Body /\ UNCHANGED <<slow, again>>
    BY <1>1 DEF RequestStep, ReserveAgain, Reserve, LookUp, Create, Bind, Queue, MarkReady, At, BusyOK, Ledger
  \* The thread neither binds nor queues next.
  <2>2. ASSUME Leave(c) \/ (\E s \in {"look", "create", "ready"} : Goto(c, s))
        PROVE  \A d \in Caller, y \in Slot :
                 caller'[d].slot = y /\ caller'[d].stage \in {"bind", "queue"}
                   => d # c /\ caller[d].slot = y /\ caller[d].stage \in {"bind", "queue"}
    BY <2>2, <1>0, CallerMoves, CallerWrite
  <2>3. ASSUME Leave(c) \/ (\E s \in {"look", "create", "ready"} : Goto(c, s)), UNCHANGED task
        PROVE  RunsOK'
    BY <2>1, <2>2, <2>3 DEF RunsOK
  <2>4. CASE ReserveAgain(c) \/ Reserve(c) \/ MarkReady(c)
    BY <2>3, <2>4 DEF ReserveAgain, Reserve, MarkReady, Ledger
  <2>5. CASE LookUp(c)
    <3>1. CASE Goto(c, "bind") /\ task[x].status = "paused"
      <4>1. ASSUME NEW d \in Caller, NEW y \in Slot, caller'[d].slot = y, caller'[d].stage \in {"bind", "queue"}
            PROVE  y = x \/ (caller[d].slot = y /\ caller[d].stage \in {"bind", "queue"})
        BY <4>1, <3>1, <1>0, CallerMoves
      <4> QED BY <2>1, <2>5, <3>1, <4>1 DEF LookUp, Ledger, RunsOK
    <3> QED BY <2>3, <2>5, <3>1 DEF LookUp, Ledger
  \* Creating and queueing are done by the only thread that builds the task.
  <2>6. ASSUME x \notin slow, Builds(c, x), NEW d \in Caller \ {c}
        PROVE  ~(caller[d].slot = x /\ caller[d].stage \in {"bind", "queue"})
    BY <2>1, <2>6 DEF ClaimOK, Builds
  <2>7. CASE Create(c)
    <3>1. CASE Leave(c) /\ UNCHANGED task
      BY <2>3, <3>1
    <3>2. CASE task[x].status = "absent" /\ Row(x, "paused") /\ Goto(c, "look")
      <4>1. x \notin slow \cup again => ~(task[x].runs > 0)
        BY <3>2, <2>1 DEF RunsOK
      <4> QED BY <2>1, <2>2, <3>2, <4>1, <1>0, RowMoves DEF RunsOK
    <3> QED BY <2>7, <3>1, <3>2 DEF Create
  <2>8. CASE Bind(c)
    <3>1. /\ \A y \in Slot : task'[y].status = task[y].status /\ task'[y].runs = task[y].runs
          /\ x \notin slow \cup again => task[x].status = "paused"
      BY <2>1, <2>8, <1>0 DEF Bind, At, TaskType, TaskRow, RunsOK
    <3>2. \A d \in Caller, y \in Slot : caller'[d].slot = y /\ caller'[d].stage \in {"bind", "queue"}
             => y = x \/ (caller[d].slot = y /\ caller[d].stage \in {"bind", "queue"})
      BY <2>8, <1>0, CallerMoves DEF Bind
    <3> QED BY <2>1, <3>1, <3>2 DEF RunsOK
  <2>9. CASE Queue(c)
    <3>1. CASE Leave(c) /\ UNCHANGED task
      BY <2>3, <3>1
    <3>2. CASE Row(x, "queued") /\ Goto(c, "ready")
      <4>1. Builds(c, x)
        BY <2>9 DEF Queue, At, Builds
      <4>2. x \notin slow \cup again => task[x].runs = 0
        BY <2>1, <2>9, <1>a DEF Queue, At
      <4>3. \A y \in Slot \ (slow \cup again), d \in Caller :
              caller'[d].slot = y /\ caller'[d].stage \in {"bind", "queue"} => y # x
        BY <2>2, <2>6, <3>2, <4>1
      <4> QED BY <2>1, <2>2, <3>2, <4>2, <4>3, <1>0, RowMoves DEF RunsOK
    <3> QED BY <2>9, <3>1, <3>2 DEF Queue
  <2> QED BY <1>1, <2>4, <2>5, <2>7, <2>8, <2>9 DEF RequestStep
<1>2. ASSUME UNCHANGED task, slow \subseteq slow', again \subseteq again',
             \A d \in Caller, y \in Slot : caller'[d].slot = y /\ caller'[d].stage \in {"bind", "queue"}
               => caller[d].slot = y /\ caller[d].stage \in {"bind", "queue"}
      PROVE  RunsOK'
  BY <1>2 DEF RunsOK
<1>3. ASSUME NEW c \in Caller, \/ CallerDies(c)
                               \/ \E x \in Slot, b \in Body :
                                    \/ \E s \in Session \cup {None} : Submit(c, x, b, s)
                                    \/ Decide(c, x, b)
      PROVE  RunsOK'
  <2>1. UNCHANGED <<task, slow, again>>
    BY <1>3 DEF CallerDies, Submit, Decide, Ledger
  <2>2. caller'[c].stage \in {"idle", "repeat", "reserve"} /\ \A d \in Caller \ {c} : caller'[d] = caller[d]
    BY <1>3, <1>0, CallerMoves, CallerWrite DEF CallerDies, Submit, Decide, CallerType
  <2> QED BY <2>1, <2>2, <1>2
\* A worker, a person or the time changes the row of a task that is complete,
\* or of one that is not being built.
<1>4. ASSUME NEW x \in Slot, UNCHANGED <<caller, slow>>, again \subseteq again',
             \A y \in Slot \ {x} : task'[y] = task[y],
             x \notin slow \cup again' =>
               /\ task'[x].runs <= 1
               /\ task'[x].runs > 0 => task'[x].status \notin {"absent", "paused", "queued"}
               /\ sub[x].state = "ready" \/ task[x].status # "paused"
      PROVE  RunsOK'
  <2>1. ASSUME NEW c \in Caller, x \notin slow \cup again', caller[c].slot = x,
               caller[c].stage \in {"bind", "queue"}
        PROVE  FALSE
    BY <2>1, <1>4, <1>a
  <2> QED BY <2>1, <1>4 DEF RunsOK
<1>5. ASSUME NEW x \in Slot, Cancel(x)
      PROVE  RunsOK'
  <2>1. /\ \A y \in Slot \ {x} : task'[y] = task[y]
        /\ task'[x].runs = task[x].runs /\ task'[x].status \in {task[x].status, "cancelled"}
        /\ sub[x].state = "ready" /\ UNCHANGED <<caller, slow, again>>
    BY <1>5, <1>0 DEF Cancel, Owned, Others, TaskType, TaskRow
  <2> QED BY <2>1, <1>4 DEF RunsOK
<1>6. ASSUME NEW x \in Slot, Resume(x)
      PROVE  RunsOK'
  BY <1>6, <1>4, <1>0, RowMoves DEF Resume, Others
<1>7. ASSUME NEW x \in Slot, StartTask(x)
      PROVE  RunsOK'
  <2>1. /\ \A y \in Slot \ {x} : task'[y] = task[y]
        /\ task'[x].runs = task[x].runs + 1 /\ task'[x].status = "running"
        /\ task[x].status = "queued" /\ UNCHANGED <<caller, slow, again>>
    BY <1>7, <1>0 DEF StartTask, Others, TaskType, TaskRow
  <2>2. x \notin slow \cup again => task[x].runs = 0
    <3>1. task[x].runs \in Nat
      BY <1>0, RowParts, AdmissionAssumption DEF TaskType
    <3> QED BY <2>1, <3>1 DEF RunsOK
  <2> QED BY <2>1, <2>2, <1>4
<1>8. ASSUME NEW x \in Slot, NEW s \in {"waiting_human", "succeeded", "failed", "interrupted", "cancelled"},
             Row(x, s), task[x].status = "running", UNCHANGED <<caller, slow, again>>
      PROVE  RunsOK'
  BY <1>8, <1>4, <1>0, RowMoves DEF RunsOK
<1>9. ASSUME NEW x \in Slot, AwaitDecision(x) \/ (\E s \in {"succeeded", "failed", "interrupted"} : EndTask(x,
       s))
      PROVE  RunsOK'
  <2>1. CASE AwaitDecision(x)
    BY <2>1, <1>8 DEF AwaitDecision, Others
  <2>2. ASSUME NEW s \in {"succeeded", "failed", "interrupted"}, EndTask(x, s)
        PROVE  RunsOK'
    BY <2>2, <1>8 DEF EndTask, Others
  <2> QED BY <1>9, <2>1, <2>2
<1>10. ASSUME UNCHANGED <<task, caller, again>>, slow \subseteq slow'
       PROVE  RunsOK'
  BY <1>10, <1>2
<1>11. ASSUME NEW x \in Slot, CarryOut(x) \/ ClaimAges(x) \/ RowAges(x)
       PROVE  RunsOK'
  BY <1>11, <1>10 DEF CarryOut, Others, ClaimAges, RowAges, Ledger
<1>12. CASE OpenStream \/ ReadEvents \/ CheckTask \/ UNCHANGED vars
  BY <1>12, <1>10 DEF OpenStream, ReadEvents, CheckTask, StreamOnly, vars
<1> QED
  BY <1>1, <1>3, <1>5, <1>6, <1>7, <1>9, <1>11, <1>12 DEF Next

-----------------------------------------------------------------------------
(* The event stream.                                                       *)

\* An event of slot x is written, and its task may change.
Writes(x) ==
  /\ \A y \in Slot \ {x} : task'[y] = task[y]
  /\ stream' = [stream EXCEPT !.unread = @ \/ stream.slot = x]
\* Nothing is written.
Rests == UNCHANGED stream /\ \A y \in Slot : task'[y].status = task[y].status

\* A task that has ended writes no event, unless it is resumed or a thread is
\* slower than its claim.
LEMMA StreamMoves ==
  ASSUME TypeOK, BusyOK, RunsOK, [Next]_vars
  PROVE  /\ slow \subseteq slow' /\ again \subseteq again'
         /\ \/ Rests
            \/ \E x \in Slot : Writes(x) /\ (x \notin slow \cup again' => task[x].status \notin Terminal)
            \/ OpenStream \/ ReadEvents \/ CheckTask
<1>0. TaskType /\ CallerType
  BY TypeParts
<1>1. ASSUME NEW c \in Caller, RequestStep(c)
      PROVE  /\ slow \subseteq slow' /\ again \subseteq again'
             /\ \/ Rests
                \/ \E x \in Slot : Writes(x) /\ (x \notin slow \cup again' => task[x].status \notin Terminal)
  <2> DEFINE x == caller[c].slot
  <2>1. x \in Slot /\ UNCHANGED <<slow, again>>
    BY <1>1 DEF RequestStep, ReserveAgain, Reserve, LookUp, Create, Bind, Queue, MarkReady, At, BusyOK, Ledger
  <2>2. CASE UNCHANGED <<task, stream>>
    BY <2>1, <2>2 DEF Rests
  <2>3. CASE Create(c)
    <3>1. CASE task[x].status = "absent" /\ Row(x, "paused")
      BY <2>1, <3>1, <1>0, RowMoves DEF Row, Writes, Terminal
    <3> QED BY <2>2, <2>3, <3>1 DEF Create
  <2>4. CASE Bind(c)
    <3>1. UNCHANGED stream /\ \A y \in Slot : task'[y].status = task[y].status
      BY <2>1, <2>4, <1>0 DEF Bind, TaskType, TaskRow
    <3> QED BY <2>1, <3>1 DEF Rests
  <2>5. CASE Queue(c)
    <3>1. CASE Row(x, "queued")
      <4>1. x \notin slow \cup again => task[x].status = "paused"
        BY <2>1, <2>5 DEF Queue, At, RunsOK
      <4> QED BY <2>1, <3>1, <4>1, <1>0, RowMoves DEF Row, Writes, Terminal
    <3> QED BY <2>2, <2>5, <3>1 DEF Queue
  <2> QED BY <1>1, <2>2, <2>3, <2>4, <2>5 DEF RequestStep, ReserveAgain, Reserve, LookUp, MarkReady, Ledger
<1>2. ASSUME NEW x \in Slot, NEW s, Row(x, s), UNCHANGED slow, again \subseteq again',
             x \notin again' => task[x].status \in {"running", "queued"}
      PROVE  Writes(x) /\ (x \notin slow \cup again' => task[x].status \notin Terminal)
  BY <1>2, <1>0, RowMoves DEF Row, Writes, Terminal
<1>3. ASSUME NEW x \in Slot, Cancel(x) \/ StartTask(x)
      PROVE  UNCHANGED <<slow, again>> /\ Writes(x) /\ task[x].status \notin Terminal
  <2>1. CASE Cancel(x)
    BY <2>1, <1>0 DEF Cancel, Writes, Others, TaskType, TaskRow
  <2>2. CASE StartTask(x)
    BY <2>2, <1>0 DEF StartTask, Writes, Others, TaskType, TaskRow, Terminal
  <2> QED BY <1>3, <2>1, <2>2
<1>4. ASSUME NEW x \in Slot, Resume(x)
      PROVE  UNCHANGED slow /\ again \subseteq again' /\ Writes(x) /\ x \in again'
  BY <1>4, <1>0, RowMoves DEF Resume, Others, Row, Writes
<1>5. ASSUME NEW x \in Slot, AwaitDecision(x) \/ (\E s \in {"succeeded", "failed", "interrupted"} : EndTask(x, s))
      PROVE  UNCHANGED <<slow, again>> /\ Writes(x) /\ task[x].status \notin Terminal
  <2>1. \E s : Row(x, s) /\ task[x].status = "running" /\ UNCHANGED <<slow, again>>
    BY <1>5 DEF AwaitDecision, EndTask, Others
  <2> QED BY <2>1, <1>0, RowMoves DEF Row, Writes, Terminal
<1>6. ASSUME NEW x \in Slot, CarryOut(x) \/ ClaimAges(x) \/ RowAges(x)
      PROVE  slow \subseteq slow' /\ again \subseteq again' /\ Rests
  BY <1>6 DEF CarryOut, ClaimAges, RowAges, Others, Ledger, Rests
<1>7. ASSUME NEW c \in Caller, \/ CallerDies(c)
                               \/ \E x \in Slot, b \in Body :
                                    \/ \E s \in Session \cup {None} : Submit(c, x, b, s)
                                    \/ Decide(c, x, b)
      PROVE  slow \subseteq slow' /\ again \subseteq again' /\ Rests
  BY <1>7 DEF CallerDies, Submit, Decide, Ledger, Rests
<1>8. ASSUME OpenStream \/ ReadEvents \/ CheckTask
      PROVE  UNCHANGED <<slow, again>>
  BY <1>8 DEF OpenStream, ReadEvents, CheckTask, StreamOnly
<1>9. CASE UNCHANGED vars
  BY <1>9 DEF vars, Rests
<1> QED BY <1>1, <1>3, <1>4, <1>5, <1>6, <1>7, <1>8, <1>9 DEF Next

\* A stream that found no event, and found its task ended when it looked for
\* one, has nothing left to deliver.
StreamOK ==
  stream.stage = "check" /\ stream.final /\ ~stream.rows /\ stream.slot \notin slow \cup again
    => ~stream.unread /\ task[stream.slot].status \in Terminal

\* A step keeps that, and a stream that ends rests on it.
LEMMA StreamStep ==
  ASSUME TypeOK, BusyOK, RunsOK, StreamOK, [Next]_vars
  PROVE  /\ StreamOK'
         /\ stream'.stage = "ended" /\ stream.stage # "ended" /\ stream.unread
              => ~stream.final \/ stream.slot \in again \cup slow
<1>0. StreamType
  BY TypeParts
<1>1. slow \subseteq slow' /\ again \subseteq again'
  BY StreamMoves
<1>2. CASE Rests
  BY <1>0, <1>1, <1>2 DEF Rests, StreamOK, StreamType
<1>3. ASSUME NEW x \in Slot, Writes(x), x \notin slow \cup again' => task[x].status \notin Terminal
      PROVE  /\ StreamOK'
             /\ stream'.stage = stream.stage
  <2>1. /\ stream'.stage = stream.stage /\ stream'.final = stream.final /\ stream'.rows = stream.rows
        /\ stream'.slot = stream.slot /\ stream'.unread = (stream.unread \/ stream.slot = x)
    BY <1>0, <1>3 DEF Writes, StreamType
  <2>2. CASE stream.slot = x
    BY <1>1, <1>3, <2>1, <2>2 DEF StreamOK
  <2>3. CASE stream.slot # x
    <3>1. task'[stream.slot] = task[stream.slot]
      BY <1>0, <1>3, <2>3 DEF Writes, StreamType
    <3> QED BY <1>1, <2>1, <2>3, <3>1 DEF StreamOK
  <2> QED BY <2>1, <2>2, <2>3
<1>4. CASE OpenStream
  BY <1>0, <1>4 DEF OpenStream, StreamOnly, StreamOK, StreamType
<1>5. CASE ReadEvents
  <2>1. PICK rest \in BOOLEAN, final \in BOOLEAN :
          /\ rest => stream.unread
          /\ final = (task[stream.slot].status \in Terminal)
          /\ stream' = [stream EXCEPT !.stage = "check", !.rows = stream.unread, !.unread = rest, !.final = final]
    <3>1. (task[stream.slot].status \in Terminal) \in BOOLEAN
      OBVIOUS
    <3> QED BY <1>5, <3>1 DEF ReadEvents
  <2>2. stream'.stage = "check" /\ stream'.rows = stream.unread /\ stream'.unread = rest /\ stream'.final = final
        /\ stream'.slot = stream.slot
    BY <1>0, <2>1 DEF StreamType
  <2>3. UNCHANGED <<task, slow, again>>
    BY <1>5 DEF ReadEvents, StreamOnly
  <2> QED BY <2>1, <2>2, <2>3 DEF StreamOK
<1>6. CASE CheckTask
  <2>1. stream'.stage \in {"ended", "read"} /\ (stream'.stage = "ended" => ~stream.rows)
    BY <1>0, <1>6 DEF CheckTask, MayEnd, StreamType
  <2>2. stream.stage = "check"
    BY <1>6 DEF CheckTask
  <2> QED BY <2>1, <2>2 DEF StreamOK
<1> QED BY <1>2, <1>3, <1>4, <1>5, <1>6, StreamMoves DEF Rests

-----------------------------------------------------------------------------
(* Quotas.                                                                 *)

\* What counts as active for a principal.
Counted(p) == Active(p) \ (again \cup slow)

\* Only slots that have a row are counted, and finitely many have one.
LEMMA CountsAreFinite ==
  ASSUME IsFiniteSet(Filled), \A x \in Slot : sub[x].age = "minute" => sub[x].state # "none", NEW p
  PROVE  /\ IsFiniteSet(Active(p)) /\ IsFiniteSet(Recent(p)) /\ IsFiniteSet(Counted(p))
         /\ Cardinality(Active(p)) \in Nat /\ Cardinality(Recent(p)) \in Nat
         /\ Cardinality(Counted(p)) \in Nat /\ Cardinality(Counted(p)) <= Cardinality(Active(p))
<1>1. Active(p) \subseteq Filled /\ Recent(p) \subseteq Filled /\ Counted(p) \subseteq Active(p)
  BY DEF Active, Recent, Counted, Filled, InFlight, Mine
<1>2. IsFiniteSet(Active(p)) /\ IsFiniteSet(Recent(p))
  BY <1>1, FS_Subset
<1>3. IsFiniteSet(Counted(p)) /\ Cardinality(Counted(p)) <= Cardinality(Active(p))
  BY <1>1, <1>2, FS_Subset
<1> QED BY <1>2, <1>3, FS_CardinalityType

\* Where nothing begins to count, the counts still hold.
LEMMA NothingCounted ==
  ASSUME CountOK, RestType, UNCHANGED setting, slow \subseteq slow', again \subseteq again',
         \A x \in Slot : /\ sub'[x].age = "minute" => sub[x].age = "minute"
                         /\ x \notin slow' \cup again' /\ InFlight(x)' => InFlight(x)
  PROVE  CountsHold'
<1> SUFFICES ASSUME NEW p \in Principal
             PROVE  /\ Cardinality(Counted(p)') <= setting.quota.active
                    /\ Cardinality(Recent(p)') <= setting.quota.recent
  BY DEF CountsHold, Counted
<1>1. Counted(p)' \subseteq Counted(p) /\ Recent(p)' \subseteq Recent(p)
  BY DEF Counted, Active, Recent, Mine
<1>2. IsFiniteSet(Counted(p)) /\ IsFiniteSet(Recent(p))
  BY CountsAreFinite DEF CountOK
<1>3. /\ Cardinality(Counted(p)') <= Cardinality(Counted(p))
       /\ Cardinality(Recent(p)') <= Cardinality(Recent(p))
      /\ Cardinality(Counted(p)') \in Nat /\ Cardinality(Recent(p)') \in Nat
      /\ Cardinality(Counted(p)) \in Nat /\ Cardinality(Recent(p)) \in Nat
  BY <1>1, <1>2, FS_Subset, FS_CardinalityType
<1>4. Cardinality(Counted(p)) <= setting.quota.active /\ Cardinality(Recent(p)) <= setting.quota.recent
  BY DEF CountOK, CountsHold, Counted
<1>5. setting.quota.active \in Nat /\ setting.quota.recent \in Nat
  BY SettingType DEF Setting
<1> QED BY <1>3, <1>4, <1>5

\* Where no row begins, neither, and no set grows.
LEMMA NothingReserved ==
  ASSUME CountOK, RestType, UNCHANGED setting, slow \subseteq slow', again \subseteq again',
         \A x \in Slot : /\ sub'[x].age = "minute" => sub[x].age = "minute"
                         /\ sub'[x].state = "none" <=> sub[x].state = "none"
                         /\ x \notin slow' \cup again' /\ InFlight(x)' => InFlight(x)
  PROVE  CountOK'
<1>1. CountsHold'
  BY NothingCounted
<1>2. Filled' = Filled
  BY DEF Filled
<1> QED BY <1>1, <1>2 DEF CountOK

\* A reservation makes one more active and one more recent row of its principal.
LEMMA ReserveCounts ==
  ASSUME TypeOK, BusyOK, CountOK, NEW c \in Caller, Reserve(c)
  PROVE  CountOK'
<1> DEFINE x == caller[c].slot
<1>0. x \in Slot /\ SubType /\ TaskType /\ RestType
  BY TypeParts DEF Reserve, At, BusyOK
<1>1. UNCHANGED <<task, slow, again, setting>>
  BY DEF Reserve, Ledger, Fixed
<1>2. CASE UNCHANGED sub
  <2>1. \A y \in Slot : InFlight(y)' <=> InFlight(y)
    BY <1>1, <1>2 DEF InFlight
  <2> QED BY <2>1, <1>0, <1>1, <1>2, NothingReserved
<1>3. CASE ~UNCHANGED sub
  <2>1. /\ \A y \in Slot \ {x} : sub'[y] = sub[y]
        /\ sub'[x].state = "creating" /\ sub[x].state = "none"
        /\ WithinQuota(PrincipalOf[x], caller[c].body)
    <3>1. PICK s \in Session :
            sub' = [sub EXCEPT ![x] = [state |-> "creating", body |-> caller[c].body,
                             session |-> s, fresh |-> TRUE, age |-> "minute"]]
      BY <1>3 DEF Reserve
    <3>2. sub[x].state = "none" /\ WithinQuota(PrincipalOf[x], caller[c].body)
      BY <1>3 DEF Reserve
    <3> QED BY <3>1, <3>2, <1>0 DEF SubType
  <2>2. IsFiniteSet(Filled') /\ Filled' = Filled \cup {x}
    <3>1. Filled' = Filled \cup {x}
      BY <1>0, <2>1 DEF Filled
    <3> QED BY <3>1, FS_AddElement DEF CountOK
  <2>3. \A y \in Slot : sub'[y].age = "minute" => sub'[y].state # "none"
    BY <2>1 DEF CountOK
  <2>4. ASSUME NEW p \in Principal
        PROVE  /\ Cardinality(Counted(p)') <= setting.quota.active
               /\ Cardinality(Recent(p)') <= setting.quota.recent
    <3>0. setting.quota.active \in Nat /\ setting.quota.recent \in Nat
      BY <1>0, SettingType DEF Setting
    <3>1. /\ IsFiniteSet(Active(p)) /\ IsFiniteSet(Recent(p)) /\ IsFiniteSet(Counted(p))
          /\ Cardinality(Active(p)) \in Nat /\ Cardinality(Recent(p)) \in Nat
          /\ Cardinality(Counted(p)) \in Nat /\ Cardinality(Counted(p)) <= Cardinality(Active(p))
      BY CountsAreFinite DEF CountOK
    <3>2. Cardinality(Counted(p)) <= setting.quota.active /\ Cardinality(Recent(p)) <= setting.quota.recent
      BY DEF CountOK, CountsHold, Counted
    <3>3. \A y \in Slot \ {x} : InFlight(y)' <=> InFlight(y)
      BY <1>1, <2>1 DEF InFlight
    <3>4. CASE p # PrincipalOf[x]
      <4>1. Counted(p)' \subseteq Counted(p) /\ Recent(p)' \subseteq Recent(p)
        BY <1>1, <2>1, <3>3, <3>4 DEF Counted, Active, Recent, Mine
      <4>2. Cardinality(Counted(p)') <= Cardinality(Counted(p))
           /\ Cardinality(Recent(p)') <= Cardinality(Recent(p))
            /\ Cardinality(Counted(p)') \in Nat /\ Cardinality(Recent(p)') \in Nat
        BY <4>1, <3>1, FS_Subset, FS_CardinalityType
      <4> QED BY <4>2, <3>0, <3>1, <3>2
    <3>5. CASE p = PrincipalOf[x]
      <4>1. Counted(p)' \subseteq Active(p) \cup {x} /\ Recent(p)' \subseteq Recent(p) \cup {x}
        BY <1>1, <2>1, <3>3 DEF Counted, Active, Recent, Mine
      <4>2. /\ IsFiniteSet(Active(p) \cup {x}) /\ Cardinality(Active(p) \cup {x}) <= Cardinality(Active(p)) + 1
            /\ IsFiniteSet(Recent(p) \cup {x}) /\ Cardinality(Recent(p) \cup {x}) <= Cardinality(Recent(p)) + 1
        <5>1. ASSUME NEW S, IsFiniteSet(S)
              PROVE  IsFiniteSet(S \cup {x}) /\ Cardinality(S \cup {x}) <= Cardinality(S) + 1
          <6>1. Cardinality(S \cup {x}) = IF x \in S THEN Cardinality(S) ELSE Cardinality(S) + 1
            BY <5>1, FS_AddElement
          <6>2. IsFiniteSet(S \cup {x}) /\ Cardinality(S) \in Nat
            BY <5>1, FS_AddElement, FS_CardinalityType
          <6> QED BY <6>1, <6>2
        <5> QED BY <5>1, <3>1
      <4>3. /\ Cardinality(Counted(p)') <= Cardinality(Active(p) \cup {x})
            /\ Cardinality(Recent(p)') <= Cardinality(Recent(p) \cup {x})
            /\ Cardinality(Active(p) \cup {x}) \in Nat /\ Cardinality(Recent(p) \cup {x}) \in Nat
            /\ Cardinality(Counted(p)') \in Nat /\ Cardinality(Recent(p)') \in Nat
        BY <4>1, <4>2, FS_Subset, FS_CardinalityType
      <4>4. Cardinality(Active(p)) < setting.quota.active /\ Cardinality(Recent(p)) < setting.quota.recent
        BY <2>1, <3>5 DEF WithinQuota
      <4> QED BY <4>2, <4>3, <4>4, <3>0, <3>1
    <3> QED BY <3>4, <3>5
  <2>5. CountsHold'
    BY <1>1, <2>4 DEF CountsHold, Counted
  <2> QED BY <2>2, <2>3, <2>5 DEF CountOK
<1> QED BY <1>2, <1>3

\* Every other step leaves the counts alone.
LEMMA CountStep == TypeOK /\ BusyOK /\ ClaimOK /\ CountOK /\ [Next]_vars => CountOK'
<1> SUFFICES ASSUME TypeOK, BusyOK, ClaimOK, CountOK, [Next]_vars PROVE CountOK'
  OBVIOUS
<1>0. SubType /\ TaskType /\ RestType
  BY TypeParts
\* A step that writes the ledger, or a thread, but no submission.
<1>1. ASSUME UNCHANGED <<sub, setting>>, slow \subseteq slow', again \subseteq again',
             \A x \in Slot : x \notin slow' \cup again' /\ InFlight(x)' => InFlight(x)
      PROVE  CountOK'
  BY <1>1, <1>0, NothingReserved
<1>2. ASSUME UNCHANGED <<sub, task, setting>>, slow \subseteq slow', again \subseteq again'
      PROVE  CountOK'
  BY <1>1, <1>2 DEF InFlight
\* A step that moves the row of a task to a status that counts for no more.
<1>3. ASSUME NEW x \in Slot, UNCHANGED <<sub, setting, slow>>, again \subseteq again',
             \A y \in Slot \ {x} : task'[y] = task[y],
             \/ x \in again' \/ sub[x].state = "creating" \/ x \in slow
             \/ task[x].status \in {"queued", "running", "waiting_human"}
             \/ task'[x].status \notin {"queued", "running", "waiting_human"}
      PROVE  CountOK'
  BY <1>3, <1>1 DEF InFlight
<1>4. ASSUME NEW c \in Caller, RequestStep(c)
      PROVE  CountOK'
  <2> DEFINE x == caller[c].slot
  <2>1. x \in Slot /\ UNCHANGED <<slow, again, setting>>
    BY <1>4 DEF RequestStep, ReserveAgain, Reserve, LookUp, Create, Bind, Queue, MarkReady, At, BusyOK, Ledger,
         Fixed
  <2>2. CASE ReserveAgain(c)
    <3>1. UNCHANGED task /\ \A y \in Slot : sub'[y].state = sub[y].state /\ sub'[y].age = sub[y].age
      BY <2>1, <2>2, <1>0 DEF ReserveAgain, Ledger, SubType, SubRow
    <3>2. \A y \in Slot : InFlight(y)' <=> InFlight(y)
      BY <3>1 DEF InFlight
    <3> QED BY <2>1, <3>1, <3>2, <1>0, NothingReserved
  <2>3. CASE Reserve(c)
    BY <2>3, ReserveCounts
  <2>4. CASE LookUp(c)
    BY <2>1, <2>4, <1>2 DEF LookUp, Ledger
  <2>5. CASE Create(c) \/ Queue(c)
    <3>1. CASE UNCHANGED task
      BY <2>1, <2>5, <3>1, <1>2 DEF Create, Queue
    <3>2. CASE Row(x, "paused")
      BY <2>1, <2>5, <3>2, <1>0, <1>3, RowMoves DEF Create, Queue
    <3>3. CASE Queue(c) /\ Row(x, "queued")
      <4>1. x \in slow \/ sub[x].state = "creating"
        BY <2>1, <3>3 DEF Queue, At, ClaimOK, Builds
      <4> QED BY <2>1, <3>3, <4>1, <1>0, <1>3, RowMoves DEF Queue
    <3> QED BY <2>5, <3>1, <3>2, <3>3 DEF Create, Queue
  <2>6. CASE Bind(c)
    <3>1. UNCHANGED sub /\ \A y \in Slot : task'[y].status = task[y].status
      BY <2>1, <2>6, <1>0 DEF Bind, TaskType, TaskRow
    <3> QED BY <2>1, <3>1, <1>1 DEF InFlight
  <2>7. CASE MarkReady(c)
    <3>1. /\ \A y \in Slot \ {x} : sub'[y] = sub[y]
          /\ sub'[x].state = "ready" /\ sub'[x].age = sub[x].age /\ UNCHANGED task
      BY <2>1, <2>7, <1>0 DEF MarkReady, Ledger, SubType, SubRow
    <3>2. x \in slow \/ sub[x].state = "creating"
      BY <2>1, <2>7 DEF MarkReady, At, ClaimOK, Builds
    <3>3. \A y \in Slot : /\ sub'[y].age = "minute" => sub[y].age = "minute"
                          /\ y \notin slow \cup again /\ InFlight(y)' => InFlight(y)
      BY <3>1, <3>2 DEF InFlight
    <3>4. CountsHold'
      BY <2>1, <3>3, <1>0, NothingCounted
    <3>5. Filled' = Filled \cup {x}
      BY <2>1, <3>1 DEF Filled
    <3>6. IsFiniteSet(Filled')
      BY <3>5, FS_AddElement DEF CountOK
    <3>7. \A y \in Slot : sub'[y].age = "minute" => sub'[y].state # "none"
      BY <3>1 DEF CountOK
    <3> QED BY <3>4, <3>6, <3>7 DEF CountOK
  <2> QED BY <1>4, <2>2, <2>3, <2>4, <2>5, <2>6, <2>7 DEF RequestStep
<1>5. ASSUME NEW c \in Caller, \/ CallerDies(c)
                               \/ \E x \in Slot, b \in Body :
                                    \/ \E s \in Session \cup {None} : Submit(c, x, b, s)
                                    \/ Decide(c, x, b)
      PROVE  CountOK'
  BY <1>5, <1>2 DEF CallerDies, Submit, Decide, Ledger, Fixed
<1>6. ASSUME NEW x \in Slot, Cancel(x) \/ Resume(x) \/ StartTask(x)
      PROVE  CountOK'
  <2>1. CASE Cancel(x)
    <3>1. /\ \A y \in Slot \ {x} : task'[y] = task[y]
          /\ task'[x].status = IF task[x].status = "running" THEN "running" ELSE "cancelled"
      BY <2>1, <1>0 DEF Cancel, TaskType, TaskRow
    <3>2. UNCHANGED <<sub, setting, slow, again>>
      BY <2>1 DEF Cancel, Others, Fixed
    <3>3. task[x].status \in {"queued", "running", "waiting_human"}
          \/ task'[x].status \notin {"queued", "running", "waiting_human"}
      BY <3>1
    <3> QED BY <3>1, <3>2, <3>3, <1>3
  <2>2. CASE Resume(x)
    <3>1. \A y \in Slot \ {x} : task'[y] = task[y]
      BY <2>2, <1>0, RowMoves DEF Resume
    <3> QED BY <2>2, <3>1, <1>3 DEF Resume, Others, Fixed
  <2>3. CASE StartTask(x)
    <3>1. \A y \in Slot \ {x} : task'[y] = task[y]
      BY <2>3, <1>0 DEF StartTask, TaskType
    <3> QED BY <2>3, <3>1, <1>3 DEF StartTask, Others, Fixed
  <2> QED BY <1>6, <2>1, <2>2, <2>3
<1>7. ASSUME NEW x \in Slot, NEW s, Row(x, s), task[x].status = "running", Others, UNCHANGED again
      PROVE  CountOK'
  BY <1>7, <1>0, <1>3, RowMoves DEF Others, Fixed
<1>8. ASSUME NEW x \in Slot, AwaitDecision(x) \/ (\E s \in {"succeeded", "failed", "interrupted"} : EndTask(x,
       s))
      PROVE  CountOK'
  BY <1>7, <1>8 DEF AwaitDecision, EndTask
<1>9. ASSUME NEW x \in Slot, CarryOut(x) \/ ClaimAges(x)
      PROVE  CountOK'
  <2>1. CASE CarryOut(x)
    BY <2>1, <1>2 DEF CarryOut, Others, Fixed
  <2>2. CASE ClaimAges(x)
    <3>1. /\ UNCHANGED <<task, again, setting>> /\ slow \subseteq slow'
          /\ \A y \in Slot : sub'[y].state = sub[y].state /\ sub'[y].age = sub[y].age
      BY <2>2, <1>0 DEF ClaimAges, Ledger, Fixed, SubType, SubRow
    <3>2. \A y \in Slot : InFlight(y)' <=> InFlight(y)
      BY <3>1 DEF InFlight
    <3> QED BY <3>1, <3>2, <1>0, NothingReserved
  <2> QED BY <1>9, <2>1, <2>2
<1>10. ASSUME NEW x \in Slot, RowAges(x)
       PROVE  CountOK'
  <2>1. /\ UNCHANGED <<task, again, setting, slow>>
        /\ \A y \in Slot : /\ sub'[y].state = sub[y].state
                           /\ sub'[y].age = "minute" => sub[y].age = "minute"
    BY <1>10, <1>0 DEF RowAges, Ledger, Fixed, SubType, SubRow
  <2>2. \A y \in Slot : InFlight(y)' <=> InFlight(y)
    BY <2>1 DEF InFlight
  <2> QED BY <2>1, <2>2, <1>0, NothingReserved
<1>11. CASE OpenStream \/ ReadEvents \/ CheckTask \/ UNCHANGED vars
  BY <1>11, <1>2 DEF OpenStream, ReadEvents, CheckTask, StreamOnly, Fixed, vars
<1> QED
  BY <1>4, <1>5, <1>6, <1>8, <1>9, <1>10, <1>11 DEF Next

-----------------------------------------------------------------------------
(* Sums over finite sets.  Induction is over the subsets of a finite set:  *)
(* of those that violate a fact, one is smallest.                          *)

Pick(s) == CHOOSE x \in s : TRUE
\* g gives every subset of T the sum of its weights.
Sums(g, w, T) == g = [s \in SUBSET T |-> IF s = {} THEN 0 ELSE w[Pick(s)] + g[s \ {Pick(s)}]]
Total(w, T) == (CHOOSE g : Sums(g, w, T))[T]

LEMMA PickIn == \A s : s # {} => Pick(s) \in s
BY DEF Pick

\* A non-empty set of subsets of a finite set has a smallest one.
LEMMA Smallest ==
  ASSUME NEW S, IsFiniteSet(S), NEW X, X \subseteq SUBSET S, X # {}
  PROVE  \E T \in X : \A U \in X : U \subseteq T => U = T
<1> DEFINE R == StrictSubsetOrdering(S)
<1>1. IsWellFoundedOn(R, FiniteSubsetsOf(S)) /\ FiniteSubsetsOf(S) = SUBSET S
  BY FS_StrictSubsetOrderingWellFounded, FS_FiniteSubsetsOfFinite
<1> HIDE DEF R
<1>2. PICK T \in X : \A U \in X : <<U, T>> \notin R
  BY <1>1, WFMin
<1>3. ASSUME NEW U \in X, U \subseteq T, U # T PROVE FALSE
  <2>1. <<U, T>> \in R
    BY <1>3 DEF R, StrictSubsetOrdering
  <2> QED BY <2>1, <1>2
<1> QED BY <1>3

\* What the recursion says of a subset.
LEMMA SumsStep ==
  ASSUME NEW g, NEW w, NEW T, Sums(g, w, T), NEW s \in SUBSET T
  PROVE  /\ s = {} => g[s] = 0
         /\ s # {} => /\ Pick(s) \in s /\ s \ {Pick(s)} \in SUBSET T
                      /\ g[s] = w[Pick(s)] + g[s \ {Pick(s)}]
<1>1. g = [r \in SUBSET T |-> IF r = {} THEN 0 ELSE w[Pick(r)] + g[r \ {Pick(r)}]]
  BY DEF Sums
<1>2. g[s] = IF s = {} THEN 0 ELSE w[Pick(s)] + g[s \ {Pick(s)}]
  BY <1>1
<1> QED BY <1>2, PickIn

\* Sums agree where their weights do, whatever larger sets they are over.
LEMMA SumsAgree ==
  ASSUME NEW g, NEW h, NEW w, NEW v, NEW T, NEW U, Sums(g, w, T), Sums(h, v, U),
         NEW S, IsFiniteSet(S), S \subseteq T \cap U, \A x \in S : w[x] = v[x]
  PROVE  g[S] = h[S]
<1> DEFINE X == {s \in SUBSET S : g[s] # h[s]}
<1> SUFFICES ASSUME X # {} PROVE FALSE
  OBVIOUS
<1>1. PICK s \in X : \A r \in X : r \subseteq s => r = s
  <2>1. X \subseteq SUBSET S
    OBVIOUS
  <2> HIDE DEF X
  <2> QED BY <2>1, Smallest
<1>2. s \in SUBSET S /\ s \in SUBSET T /\ s \in SUBSET U /\ g[s] # h[s]
  OBVIOUS
<1>3. s # {} /\ Pick(s) \in s
  BY <1>2, SumsStep
<1>4. g[s \ {Pick(s)}] = h[s \ {Pick(s)}]
  <2>1. s \ {Pick(s)} \in SUBSET S /\ s \ {Pick(s)} # s /\ s \ {Pick(s)} \subseteq s
    BY <1>2, <1>3
  <2> QED BY <2>1, <1>1
<1> HIDE DEF X
<1>5. g[s] = w[Pick(s)] + g[s \ {Pick(s)}] /\ h[s] = v[Pick(s)] + h[s \ {Pick(s)}]
  <2>1. g[s] = w[Pick(s)] + g[s \ {Pick(s)}]
    BY <1>2, <1>3, SumsStep
  <2>2. h[s] = v[Pick(s)] + h[s \ {Pick(s)}]
    BY <1>2, <1>3, SumsStep
  <2> QED BY <2>1, <2>2
<1>6. w[Pick(s)] = v[Pick(s)]
  BY <1>2, <1>3
<1> QED BY <1>2, <1>4, <1>5, <1>6

\* Every finite set has its sums.
LEMMA SumsExist ==
  ASSUME NEW w, NEW S, IsFiniteSet(S)
  PROVE  \E g : Sums(g, w, S)
<1> DEFINE X == {T \in SUBSET S : ~ \E g : Sums(g, w, T)}
<1> SUFFICES ASSUME X # {} PROVE FALSE
  <2>1. S \notin X => \E g : Sums(g, w, S)
    OBVIOUS
  <2> QED BY <2>1
<1>1. PICK T \in X : \A U \in X : U \subseteq T => U = T
  <2>1. X \subseteq SUBSET S
    OBVIOUS
  <2> HIDE DEF X
  <2> QED BY <2>1, Smallest
<1> DEFINE G(U) == CHOOSE g : Sums(g, w, U)
           Less(s) == s \ {Pick(s)}
           f == [s \in SUBSET T |-> IF s = {} THEN 0 ELSE w[Pick(s)] + G(Less(s))[Less(s)]]
<1>2. ASSUME NEW U \in SUBSET T, U # T PROVE Sums(G(U), w, U)
  <2>1. \E g : Sums(g, w, U)
    BY <1>1, <1>2
  <2> QED BY <2>1
<1>3. ASSUME NEW s \in SUBSET T, s # {}
      PROVE  Less(s) \in SUBSET T /\ Less(s) # T /\ Pick(s) \in s
  BY <1>3, PickIn
<1> HIDE DEF G, X
<1>4. ASSUME NEW s \in SUBSET T, s # {} PROVE f[Less(s)] = G(Less(s))[Less(s)]
  <2> DEFINE r == Less(s)
  <2>1. r \in SUBSET T /\ r # T /\ Sums(G(r), w, r)
    BY <1>2, <1>3, <1>4
  <2>2. CASE r = {}
    BY <2>1, <2>2, SumsStep
  <2>3. CASE r # {}
    <3>1. /\ Less(r) \in SUBSET T /\ Less(r) # T /\ Less(r) \subseteq r
          /\ Sums(G(Less(r)), w, Less(r)) /\ IsFiniteSet(Less(r))
      <4>1. Less(r) \in SUBSET T /\ Less(r) # T /\ Less(r) \subseteq r
        BY <2>1, <2>3, <1>3
      <4>2. T \in SUBSET S
        BY <1>1 DEF X
      <4> QED BY <4>1, <4>2, <1>2, FS_Subset
    <3> HIDE DEF r, Less
    <3>2. G(r)[Less(r)] = G(Less(r))[Less(r)]
      BY <3>1, <2>1, SumsAgree
    <3>3. G(r)[r] = w[Pick(r)] + G(r)[Less(r)]
      BY <2>1, <2>3, SumsStep DEF Less
    <3>4. f[r] = w[Pick(r)] + G(Less(r))[Less(r)]
      BY <2>1, <2>3
    <3> QED BY <3>2, <3>3, <3>4 DEF r
  <2> QED BY <2>2, <2>3
<1>5. f = [s \in SUBSET T |-> IF s = {} THEN 0 ELSE w[Pick(s)] + f[Less(s)]]
  <2>1. \A s \in SUBSET T : f[s] = IF s = {} THEN 0 ELSE w[Pick(s)] + f[Less(s)]
    BY <1>4
  <2> QED BY <2>1
<1>6. Sums(f, w, T)
  BY <1>5 DEF Sums
<1> QED BY <1>6, <1>1 DEF X

LEMMA TotalIs ==
  ASSUME NEW w, NEW S, IsFiniteSet(S), NEW g, NEW T, Sums(g, w, T), S \subseteq T
  PROVE  Total(w, S) = g[S]
<1>1. Sums(CHOOSE h : Sums(h, w, S), w, S)
  BY SumsExist
<1> QED BY <1>1, SumsAgree DEF Total

\* The element that is taken first does not matter.
LEMMA TotalWithout ==
  ASSUME NEW S, IsFiniteSet(S), NEW w, \A x \in S : w[x] \in Nat
  PROVE  \A T \in SUBSET S : /\ Total(w, T) \in Nat
                             /\ T = {} => Total(w, T) = 0
                             /\ \A x \in T : Total(w, T) = w[x] + Total(w, T \ {x})
<1> DEFINE Good(T) == /\ Total(w, T) \in Nat
                      /\ T = {} => Total(w, T) = 0
                      /\ \A x \in T : Total(w, T) = w[x] + Total(w, T \ {x})
           X == {T \in SUBSET S : ~Good(T)}
<1> SUFFICES ASSUME X # {} PROVE FALSE
  OBVIOUS
<1>1. PICK T \in X : \A U \in X : U \subseteq T => U = T
  <2>1. X \subseteq SUBSET S
    OBVIOUS
  <2> HIDE DEF X
  <2> QED BY <2>1, Smallest
<1>2. T \in SUBSET S /\ ~Good(T)
  OBVIOUS
<1>3. \A U \in SUBSET T : U # T => Good(U)
  BY <1>1, <1>2
<1> HIDE DEF X
<1>4. PICK g : Sums(g, w, S)
  BY SumsExist
<1>5. \A U \in SUBSET T : Total(w, U) = g[U]
  <2>1. \A U \in SUBSET T : U \subseteq S /\ IsFiniteSet(U)
    BY <1>2, FS_Subset
  <2> QED BY <2>1, <1>4, TotalIs
<1>6. CASE T = {}
  <2>1. g[T] = 0
    BY <1>2, <1>4, <1>6, SumsStep
  <2>2. Total(w, T) = 0
    BY <2>1, <1>5
  <2> QED BY <2>2, <1>2, <1>6
<1>7. CASE T # {}
  <2> DEFINE p == Pick(T)
  <2>1. p \in T /\ T \ {p} # T /\ Total(w, T) = w[p] + Total(w, T \ {p})
    <3>1. p \in T /\ g[T] = w[p] + g[T \ {p}]
      BY <1>2, <1>4, <1>7, SumsStep
    <3> QED BY <3>1, <1>5
  <2> HIDE DEF p
  <2>2. Good(T \ {p}) /\ w[p] \in Nat
    BY <1>2, <1>3, <2>1
  <2>3. ASSUME NEW x \in T, x # p PROVE Total(w, T) = w[x] + Total(w, T \ {x})
    <3>1. Good(T \ {x}) /\ w[x] \in Nat
      <4>1. T \ {x} # T /\ T \ {x} \in SUBSET T
        OBVIOUS
      <4> QED BY <4>1, <1>2, <1>3
    <3>2. Total(w, T \ {p}) = w[x] + Total(w, (T \ {p}) \ {x})
      BY <2>2, <2>3
    <3>3. Total(w, T \ {x}) = w[p] + Total(w, (T \ {x}) \ {p})
      BY <2>1, <2>3, <3>1
    <3>4. (T \ {p}) \ {x} = (T \ {x}) \ {p}
      OBVIOUS
    <3>5. Total(w, (T \ {p}) \ {x}) \in Nat
      <4>1. (T \ {p}) \ {x} # T /\ (T \ {p}) \ {x} \in SUBSET T
        BY <2>1
      <4> QED BY <4>1, <1>3
    <3>6. Total(w, (T \ {x}) \ {p}) = Total(w, (T \ {p}) \ {x})
      BY <3>4
    <3> HIDE DEF Good
    <3> QED BY <2>1, <2>2, <3>1, <3>2, <3>3, <3>5, <3>6
  <2>4. Good(T)
    BY <1>7, <2>1, <2>2, <2>3
  <2> QED BY <2>4, <1>2
<1> QED BY <1>6, <1>7

\* A smaller set has a smaller sum.
LEMMA TotalSmaller ==
  ASSUME NEW S, IsFiniteSet(S), NEW w, \A x \in S : w[x] \in Nat, NEW U, U \subseteq S
  PROVE  Total(w, U) <= Total(w, S)
<1> DEFINE X == {T \in SUBSET S : U \subseteq T /\ ~(Total(w, U) <= Total(w, T))}
<1> SUFFICES ASSUME X # {} PROVE FALSE
  OBVIOUS
<1>1. PICK T \in X : \A V \in X : V \subseteq T => V = T
  <2>1. X \subseteq SUBSET S
    OBVIOUS
  <2> HIDE DEF X
  <2> QED BY <2>1, Smallest
<1>2. T \in SUBSET S /\ U \subseteq T /\ ~(Total(w, U) <= Total(w, T))
  OBVIOUS
<1>3. Total(w, U) \in Nat /\ Total(w, T) \in Nat
  BY <1>2, TotalWithout
<1>4. PICK x \in T : x \notin U
  BY <1>2, <1>3
<1>5. T \ {x} \in SUBSET S /\ U \subseteq T \ {x} /\ T \ {x} # T /\ T \ {x} \subseteq T
  BY <1>2, <1>4
<1>6. Total(w, U) <= Total(w, T \ {x})
  BY <1>1, <1>5
<1>7. Total(w, T) = w[x] + Total(w, T \ {x}) /\ w[x] \in Nat /\ Total(w, T \ {x}) \in Nat
  BY <1>2, <1>4, <1>5, TotalWithout
<1> HIDE DEF X
<1> QED BY <1>2, <1>3, <1>6, <1>7

\* Weights outside the set do not matter.
LEMMA TotalSame ==
  ASSUME NEW S, IsFiniteSet(S), NEW w, NEW v, \A x \in S : w[x] = v[x]
  PROVE  Total(w, S) = Total(v, S)
<1>1. /\ Sums(CHOOSE h : Sums(h, w, S), w, S)
      /\ Sums(CHOOSE h : Sums(h, v, S), v, S)
  BY SumsExist
<1> QED BY <1>1, SumsAgree DEF Total

\* The sum of the costs of some rows is this one.
Costs(rows, S) == MapThenSumSet(LAMBDA x : CostOf[rows[x].body], S)
LEMMA CostsAreTotal ==
  ASSUME NEW rows, NEW S, IsFiniteSet(S), NEW w, \A x \in S : w[x] = CostOf[rows[x].body]
  PROVE  Costs(rows, S) = Total(w, S)
<1>1. PICK g : Sums(g, w, S)
  BY SumsExist
<1>2. \A s \in SUBSET S : s # {} => w[Pick(s)] = CostOf[rows[Pick(s)].body]
  BY PickIn
<1>3. g = [s \in SUBSET S |-> IF s = {} THEN 0 ELSE CostOf[rows[Pick(s)].body] + g[s \ {Pick(s)}]]
  BY <1>1, <1>2 DEF Sums
<1>4. PICK h : /\ h = [s \in SUBSET S |-> IF s = {} THEN 0 ELSE CostOf[rows[Pick(s)].body] + h[s \ {Pick(s)}]]
               /\ Costs(rows, S) = h[S]
  BY <1>3 DEF Costs, MapThenSumSet, MapThenFoldSet, Pick
<1>5. h = [s \in SUBSET S |-> IF s = {} THEN 0 ELSE w[Pick(s)] + h[s \ {Pick(s)}]]
  BY <1>2, <1>4
<1>6. Sums(h, w, S)
  BY <1>5 DEF Sums
<1> QED BY <1>4, <1>6, TotalIs

\* The rows of a principal that are charged, their costs, and what is known of them.
Charged(p) == {x \in Mine(p) : sub[x].age # "old"}
Prices == [x \in Slot |-> IF sub[x].body \in Body THEN CostOf[sub[x].body] ELSE 0]

LEMMA PricesType == Prices \in [Slot -> Nat]
BY AdmissionAssumption DEF Prices

\* The tokens of a day are the total of the prices.
LEMMA ReservedIs ==
  CountOK /\ ChargedOK =>
    \A p : IsFiniteSet(Charged(p)) /\ Charged(p) \subseteq Slot /\ Reserved(p) = Total(Prices, Charged(p))
<1> SUFFICES ASSUME CountOK, ChargedOK, NEW p
             PROVE  /\ IsFiniteSet(Charged(p)) /\ Charged(p) \subseteq Slot
                    /\ Reserved(p) = Total(Prices, Charged(p))
  OBVIOUS
<1>1. Charged(p) \subseteq Filled /\ Charged(p) \subseteq Slot
  BY DEF Charged, ChargedOK, Filled, Mine
<1>2. IsFiniteSet(Charged(p))
  BY <1>1, FS_Subset DEF CountOK
<1>3. \A x \in Charged(p) : Prices[x] = CostOf[sub[x].body]
  BY <1>1 DEF Prices, Charged, ChargedOK
<1>4. Reserved(p) = Costs(sub, Charged(p))
  BY DEF Reserved, Costs, Charged
<1> QED BY <1>1, <1>2, <1>3, <1>4, CostsAreTotal

LEMMA ReservedIsNext ==
  (CountOK /\ ChargedOK =>
     \A p : IsFiniteSet(Charged(p)) /\ Charged(p) \subseteq Slot /\ Reserved(p) = Total(Prices, Charged(p)))'
BY ReservedIs, PTL

\* Where no row begins to be charged, no principal owes more.
LEMMA NoMoreOwed ==
  ASSUME CountOK, ChargedOK, CountOK', ChargedOK', NEW p, Charged(p)' \subseteq Charged(p),
         \A x \in Charged(p)' : sub'[x].body = sub[x].body
  PROVE  Reserved(p)' <= Reserved(p) /\ Reserved(p) \in Nat /\ Reserved(p)' \in Nat
<1> DEFINE S == Charged(p)
           T == Charged(p)'
           w == Prices
           v == Prices'
<1>1. IsFiniteSet(S) /\ S \subseteq Slot /\ Reserved(p) = Total(w, S)
  BY ReservedIs
<1>2. IsFiniteSet(T) /\ T \subseteq Slot /\ Reserved(p)' = Total(v, T)
  BY ReservedIsNext
<1>3. T \subseteq S /\ (\A x \in T : w[x] = v[x]) /\ \A x \in S : w[x] \in Nat
  <2>1. \A x \in T : w[x] = v[x]
    BY <1>2 DEF Prices
  <2>2. \A x \in S : w[x] \in Nat
    BY <1>1, PricesType
  <2> QED BY <2>1, <2>2
<1> HIDE DEF S, T, w, v
<1>4. Total(w, T) = Total(v, T)
  BY <1>2, <1>3, TotalSame
<1>5. Total(w, S) \in Nat /\ Total(w, T) \in Nat /\ Total(w, T) <= Total(w, S)
  BY <1>1, <1>3, TotalWithout, TotalSmaller
<1> QED BY <1>1, <1>2, <1>4, <1>5

LEMMA NothingCharged ==
  ASSUME CountOK, TokensOK, CountOK', RestType, UNCHANGED setting,
         \A x \in Slot : sub'[x].age # "old" =>
           sub[x].age # "old" /\ sub'[x].body = sub[x].body /\ sub'[x].state # "none"
  PROVE  TokensOK'
<1>1. ChargedOK /\ ChargedOK'
  BY DEF TokensOK, ChargedOK
<1>2. ASSUME NEW p \in Principal PROVE Reserved(p)' <= setting'.quota.daily
  <2>1. Charged(p)' \subseteq Charged(p) /\ \A x \in Charged(p)' : sub'[x].body = sub[x].body
    BY DEF Charged, Mine
  <2>2. Reserved(p)' <= Reserved(p) /\ Reserved(p) \in Nat /\ Reserved(p)' \in Nat
    BY <1>1, <2>1, NoMoreOwed
  <2>3. Reserved(p) <= setting.quota.daily
    BY DEF TokensOK, TokensHold
  <2>4. setting'.quota.daily = setting.quota.daily /\ setting.quota.daily \in Nat
    BY SettingType DEF Setting
  <2> QED BY <2>2, <2>3, <2>4
<1> QED BY <1>1, <1>2 DEF TokensOK, TokensHold

\* A reservation charges one more row, and only as much as is left of the day.
LEMMA ReserveCharges ==
  ASSUME TypeOK, BusyOK, CountOK, TokensOK, CountOK', NEW c \in Caller, Reserve(c)
  PROVE  TokensOK'
<1> DEFINE x == caller[c].slot
           b == caller[c].body
<1>0. x \in Slot /\ b \in Body /\ SubType /\ RestType
  BY TypeParts DEF Reserve, At, BusyOK
<1>1. UNCHANGED setting
  BY DEF Reserve, Ledger, Fixed
<1>2. CASE UNCHANGED sub
  BY <1>0, <1>1, <1>2, NothingCharged DEF TokensOK, ChargedOK
<1>3. CASE ~UNCHANGED sub
  <2>1. /\ \A y \in Slot \ {x} : sub'[y] = sub[y]
        /\ sub'[x].state = "creating" /\ sub'[x].body = b /\ sub'[x].age = "minute"
        /\ sub[x].state = "none" /\ WithinQuota(PrincipalOf[x], b)
    <3>1. PICK s \in Session :
            sub' = [sub EXCEPT ![x] = [state |-> "creating", body |-> b,
                             session |-> s, fresh |-> TRUE, age |-> "minute"]]
      BY <1>3 DEF Reserve
    <3>2. sub[x].state = "none" /\ WithinQuota(PrincipalOf[x], b)
      BY <1>3 DEF Reserve
    <3> QED BY <3>1, <3>2, <1>0 DEF SubType
  <2>2. ChargedOK /\ ChargedOK'
    BY <2>1, <1>0 DEF TokensOK, ChargedOK
  <2>3. sub[x].age = "old"
    BY <2>1, <2>2, <1>0 DEF ChargedOK
  <2>4. ASSUME NEW p \in Principal PROVE Reserved(p)' <= setting'.quota.daily
    <3>0. /\ setting'.quota.daily = setting.quota.daily /\ setting.quota.daily \in Nat
          /\ Reserved(p) <= setting.quota.daily
      BY <1>0, <1>1, SettingType DEF Setting, TokensOK, TokensHold
    <3>1. CASE p # PrincipalOf[x]
      <4>1. Charged(p)' \subseteq Charged(p) /\ \A y \in Charged(p)' : sub'[y].body = sub[y].body
        BY <2>1, <3>1 DEF Charged, Mine
      <4>2. Reserved(p)' <= Reserved(p) /\ Reserved(p) \in Nat /\ Reserved(p)' \in Nat
        BY <2>2, <4>1, NoMoreOwed
      <4> QED BY <3>0, <4>2
    <3>2. CASE p = PrincipalOf[x]
      <4> DEFINE S == Charged(p)
                 T == Charged(p)'
                 w == Prices
                 v == Prices'
      <4>1. IsFiniteSet(S) /\ S \subseteq Slot /\ Reserved(p) = Total(w, S)
        BY <2>2, ReservedIs
      <4>2. IsFiniteSet(T) /\ T \subseteq Slot /\ Reserved(p)' = Total(v, T)
        BY <2>2, ReservedIsNext
      <4>3. x \in T /\ T \ {x} = S
        BY <1>0, <2>1, <2>3, <3>2 DEF Charged, Mine
      <4>4. v[x] = CostOf[b] /\ CostOf[b] \in Nat /\ \A y \in S : w[y] = v[y]
        <5>1. v[x] = CostOf[b] /\ CostOf[b] \in Nat
          BY <1>0, <2>1, AdmissionAssumption DEF Prices
        <5>2. \A y \in S : y \in Slot \ {x}
          BY <4>1, <4>3
        <5>3. \A y \in S : w[y] = v[y]
          BY <5>2, <2>1 DEF Prices
        <5> QED BY <5>1, <5>3
      <4>5. (\A y \in S : w[y] \in Nat) /\ \A y \in T : v[y] \in Nat
        <5>1. \A y \in S : w[y] \in Nat
          BY <4>1, PricesType
        <5> QED BY <5>1, <4>3, <4>4
      <4>6. Reserved(p) + CostOf[b] <= setting.quota.daily
        BY <2>1, <3>2 DEF WithinQuota
      <4> HIDE DEF S, T, w, v
      <4>7. Total(w, S) = Total(v, S) /\ Total(w, S) \in Nat
        BY <4>1, <4>4, <4>5, TotalSame, TotalWithout
      <4>8. Total(v, T) = v[x] + Total(v, S)
        BY <4>2, <4>3, <4>5, TotalWithout
      <4> QED BY <3>0, <4>1, <4>2, <4>4, <4>6, <4>7, <4>8
    <3> QED BY <3>1, <3>2
  <2> QED BY <2>2, <2>4 DEF TokensOK, TokensHold
<1> QED BY <1>2, <1>3

\* Every other step charges nothing.
LEMMA TokenStep == TypeOK /\ BusyOK /\ CountOK /\ CountOK' /\ TokensOK /\ [Next]_vars => TokensOK'
<1> SUFFICES ASSUME TypeOK, BusyOK, CountOK, CountOK', TokensOK, [Next]_vars PROVE TokensOK'
  OBVIOUS
<1>0. SubType /\ RestType /\ \A x \in Slot : sub[x].age # "old" => sub[x].state # "none"
  BY TypeParts DEF TokensOK, ChargedOK
<1>1. ASSUME UNCHANGED <<sub, setting>>
      PROVE  TokensOK'
  BY <1>1, <1>0, NothingCharged
\* A step that writes the state of a claim, or lets a row grow old.
<1>2. ASSUME UNCHANGED setting,
             \A x \in Slot : /\ sub'[x].body = sub[x].body
                             /\ sub'[x].age # "old" => sub[x].age # "old"
                             /\ sub[x].state # "none" => sub'[x].state # "none"
      PROVE  TokensOK'
  BY <1>2, <1>0, NothingCharged
<1>3. ASSUME NEW c \in Caller, RequestStep(c)
      PROVE  TokensOK'
  <2> DEFINE x == caller[c].slot
  <2>1. x \in Slot
    BY <1>3 DEF RequestStep, ReserveAgain, Reserve, LookUp, Create, Bind, Queue, MarkReady, At, BusyOK
  <2>2. CASE ReserveAgain(c) \/ MarkReady(c)
    <3>1. /\ UNCHANGED setting
          /\ \A y \in Slot : /\ sub'[y].body = sub[y].body /\ sub'[y].age = sub[y].age
                             /\ sub'[y].state \in {sub[y].state, "ready"}
      BY <2>1, <2>2, <1>0 DEF ReserveAgain, MarkReady, Ledger, Fixed, SubType, SubRow
    <3> QED BY <3>1, <1>2
  <2>3. CASE Reserve(c)
    BY <2>3, ReserveCharges
  <2>4. CASE LookUp(c) \/ Create(c) \/ Bind(c) \/ Queue(c)
    BY <2>4, <1>1 DEF LookUp, Create, Bind, Queue, Ledger, Fixed
  <2> QED BY <1>3, <2>2, <2>3, <2>4 DEF RequestStep
<1>4. ASSUME NEW x \in Slot, ClaimAges(x) \/ RowAges(x)
      PROVE  TokensOK'
  <2>1. /\ UNCHANGED setting
        /\ \A y \in Slot : /\ sub'[y].body = sub[y].body /\ sub'[y].state = sub[y].state
                           /\ sub'[y].age # "old" => sub[y].age # "old"
    BY <1>4, <1>0 DEF ClaimAges, RowAges, Ledger, Fixed, SubType, SubRow
  <2> QED BY <2>1, <1>2
<1>5. ASSUME NEW c \in Caller, \/ CallerDies(c)
                               \/ \E x \in Slot, b \in Body :
                                    \/ \E s \in Session \cup {None} : Submit(c, x, b, s)
                                    \/ Decide(c, x, b)
      PROVE  TokensOK'
  BY <1>5, <1>1 DEF CallerDies, Submit, Decide, Ledger, Fixed
<1>6. ASSUME NEW x \in Slot, \/ Cancel(x) \/ Resume(x) \/ StartTask(x) \/ CarryOut(x) \/ AwaitDecision(x)
                             \/ \E s \in {"succeeded", "failed", "interrupted"} : EndTask(x, s)
      PROVE  TokensOK'
  BY <1>6, <1>1 DEF Cancel, Resume, StartTask, CarryOut, AwaitDecision, EndTask, Others, Fixed
<1>7. CASE OpenStream \/ ReadEvents \/ CheckTask \/ UNCHANGED vars
  BY <1>7, <1>1 DEF OpenStream, ReadEvents, CheckTask, StreamOnly, Fixed, vars
<1> QED BY <1>3, <1>4, <1>5, <1>6, <1>7 DEF Next

-----------------------------------------------------------------------------
(* The theorems.                                                           *)

\* The program starts in the invariant.
LEMMA InitInv == Init => Inv
<1> SUFFICES ASSUME Init PROVE Inv
  OBVIOUS
<1>1. TypeOK
  BY InitType
<1>2. \A c \in Caller : caller[c] = IdleCaller /\ caller[c].stage = "idle"
  BY CallerWrite DEF Init
<1>3. \A x \in Slot : /\ sub[x].state = "none" /\ sub[x].age = "old"
                      /\ task[x].runs = 0 /\ task[x].status = "absent"
  BY SubWrite, TaskWrite DEF Init
<1>4. BusyOK /\ ClaimOK /\ RunsOK
  BY <1>2, <1>3 DEF BusyOK, ClaimOK, RunsOK, Builds
<1>5. JobOK
  BY <1>3 DEF JobOK
<1>6. CountOK
  <2>1. Filled = {} /\ \A p : Active(p) \ (again \cup slow) = {} /\ Recent(p) = {}
    BY <1>3 DEF Filled, Active, Recent, InFlight, Mine
  <2>2. setting.quota.active \in Nat /\ setting.quota.recent \in Nat
    BY AdmissionAssumption DEF Init, Setting
  <2>3. CountsHold
    BY <2>1, <2>2, FS_EmptySet DEF CountsHold
  <2> QED BY <1>3, <2>1, <2>3, FS_EmptySet DEF CountOK
<1>7. TokensOK
  <2>1. ChargedOK /\ \A p : Charged(p) = {}
    BY <1>3 DEF ChargedOK, Charged, Mine
  <2>2. \A p : Reserved(p) = 0
    BY <1>6, <2>1, ReservedIs, TotalWithout, FS_EmptySet
  <2>3. setting.quota.daily \in Nat
    BY AdmissionAssumption DEF Init, Setting
  <2> QED BY <2>1, <2>2, <2>3 DEF TokensOK, TokensHold
<1> QED BY <1>1, <1>4, <1>5, <1>6, <1>7 DEF Inv

\* Every step keeps it.
LEMMA NextInv == Inv /\ [Next]_vars => Inv'
BY NextType, BusyStep, JobStep, ClaimStep, RunsStep, CountStep, TokenStep DEF Inv

\* The invariant holds throughout.
LEMMA Invariant == Spec => []Inv
BY InitInv, NextInv, PTL DEF Spec

\* Every row, request and stream of the API keeps its type.
THEOREM TypeCorrect == Spec => []TypeOK
<1>1. Inv => TypeOK
  BY DEF Inv
<1> QED BY <1>1, Invariant, PTL

\* A request that is sent again, or whose thread dies and is followed by another,
\* is executed once, for any number of keys, threads and clients.
THEOREM RequestsAreExecutedOnce == Spec => []ExecutedOncePerKey
<1>1. Inv => ExecutedOncePerKey
  BY DEF Inv, RunsOK, ExecutedOncePerKey
<1> QED BY <1>1, Invariant, PTL

\* No principal has more work in flight, sends more in a minute or reserves more
\* tokens in a day than admitted, however its requests race.
THEOREM QuotasHold == Spec => []QuotaHolds
<1>1. Inv => QuotaHolds
  BY DEF Inv, CountOK, TokensOK, QuotaHolds
<1> QED BY <1>1, Invariant, PTL

\* A stream that ends by itself has delivered every event that was written before
\* it last looked for one, if its task had ended by then: however reads, the end of
\* the task and requests interleave, no event is lost to the look at the state.
THEOREM StreamsAreComplete == Spec => StreamIsComplete
<1>1. Init => StreamOK
  BY DEF Init, StreamOK
<1>2. Inv /\ StreamOK /\ [Next]_vars => StreamOK'
  BY StreamStep DEF Inv
<1>3. Inv /\ StreamOK /\ [Next]_vars =>
        [(stream'.stage = "ended" /\ stream.stage # "ended" /\ stream.unread)
           => ~stream.final \/ stream.slot \in again \cup slow]_vars
  BY StreamStep DEF Inv
<1> QED BY <1>1, <1>2, <1>3, Invariant, PTL DEF Spec, StreamIsComplete
=============================================================================
