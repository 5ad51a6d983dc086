# DeskPilot: specifications and proofs

DeskPilot is a local-first desktop agent. A question becomes a turn: language models propose what
to do, fixed rules correct them, tools read, search, write, send and run, and an answer is stored
in a session that is summarised and remembered. A turn may be a durable task, a row in a SQLite
ledger, executed by a worker thread of the desktop process or by a headless worker, submitted from
the window or through a private HTTP API. Around it stand the approvals of a human, a journal of
side effects, an index of documents and a store of images. Almost every operation takes several
transactions or several files, and a crash, a stalled process, a failing model or a second thread
may come between any two of them. What survives that is the subject of this directory.

All paths below are relative to `src/deskpilot/`.

## 1. Inventory

| Component | State | Operations | Talks to | Module |
|---|---|---|---|---|
| Task ledger (`tasks/store.py`) | tables tasks, nodes, attempts, checkpoints, approvals, output_refs, events | create, update, finish, plan, attempts, claim, heartbeat, expiry, control requests, resume, approval claim | all others, by SQLite transactions | `TaskStore`, `LedgerClient` |
| Task service (`tasks/service.py`, `worker.py`) | worker lock row, runtime_jobs, active controls | submit, request, resume, run_once, heartbeat thread, close | ledger, handlers | `TaskService` |
| Effect journal (`tasks/effects.py`, `tools/`) | runtime_tool_effects | begin_effect, the tool, finish_effect | ledger's database, files, mail server, processes | `ToolEffects`, `TaskService`, `DesktopApproval` |
| Compensation, reconciliation (`tasks/compensation.py`, `mail_reconcile.py`) | the same rows, files, backups, sent copies | compensate a write or a move, confirm a mail, repair its copy | journal, files, IMAP | `ToolEffects` |
| Control, supervisor (`tasks/control.py`, `multi_agent/`) | stop flags, deadline, results of one plan | node loop, attempts, retries, recovery checks | service, ledger, tools | `TaskService`, `AnswerTurn` |
| Desktop approvals (`core/approval.py`) | desktop_approvals | create, inspect, consume, cancel, renew | ledger | `DesktopApproval` |
| Router, planner, repair (`intent/`, `core/plan_repair.py`) | none | decide, correct, plan, repair, compile | language models | `TurnRouting` |
| Agent (`core/agent.py`) | an operation lock, the task it runs | answer, execute a plan, approve, reject, compensate | everything | `AnswerTurn`, `GroundedText`, `DesktopApproval` |
| HTTP API (`api/`) | api_submissions, api_sessions | reserve, enqueue, decide, cancel, resume, stream | task service, ledger | `ApiAdmission` |
| Document index (`rag/`) | memory of each process, JSON snapshot, SQLite catalog, full-text table, vector cache | index, research, search, clear, migrate, roll back | embedding service, files | `DocumentIndex` |
| Images (`multimodal/`, `memory/visual_memory.py`) | asset rows and files, chunks and vectors, PDF checkpoints, visual memories | index, attach, remember, approve, delete, answer | vision and embedding models | `MediaIngestion` |
| Sessions, memory (`memory/`) | message files, summary, checkpoint, structured memories | append, rewrite, compact, remember | agent, window, models | `Conversation` |
| Context assembly, model clients, sandbox, release, widgets | little or none that lasts | | | section 5 |

What makes it hard, and what *correct* means, component by component:

* **Ledger.** A process may stall for longer than its 15 s lease between two statements and wake up
  holding an owner name and a token that were valid once; expiry changes a task, its nodes and its
  attempts together. *Correct*: one holder per generation of a lease, no write by anybody else while
  a lease is live, a running node has a running attempt.
* **Service.** A main thread, a heartbeat thread and users of other processes change the same rows; a
  run can be cancelled, paused, out of time, fenced or dead at every step. *Correct*: a cancellation
  prevails, no call is in flight when its task is queued again, a queued task is served, a cancelled
  run ends.
* **Journal.** The row and the effect in the world cannot be written together. *Correct*: the journal
  never denies what happened, nothing happens twice, no version of a file is lost.
* **Approvals.** A worker asks, a window renews or refuses, an execution consumes the request and
  leases the task; each takes several transactions. *Correct*: an action is executed once, and a
  task that waits has something to decide on.
* **Turn.** Two models propose, and their replies may be anything; a worker may die between any two
  nodes. *Correct*: the answer cites what there is, and what the user was owed is prepared once or
  declined aloud.
* **API.** A submission takes five transactions, any of which may be the last of its thread, while
  the client sends it again. *Correct*: a key is one request, executed once; quotas hold; what was
  cut short is completed.
* **Index, images, sessions.** Three stores each that are written one after the other, by threads
  that do not exclude each other. *Correct*: the stores agree, what is reported is there, nothing
  sensitive leaves unasked, nothing said is skipped.

`PROJECT.json` lists every component with its status, and under `hazards` what is hard to test, each
at its line, with the properties that are about it.

## 2. Modules

| Module | Role |
|---|---|
| `TaskStore` | The ledger's tables, and one action per transaction. No next-state relation of its own |
| `LedgerClient` | `TaskStore` under its most general client, with the safety properties of the ledger |
| `Lease` | Abstract specification: holder, generation and expiry of a lease per task |
| `TaskService` | Worker processes, their heartbeat threads, the handler's loop, the journal around a call, and users, over `TaskStore` |
| `DesktopApproval` | Workers that ask, executions of approved actions with their heartbeat threads, and windows, over `TaskStore` |
| `ToolEffects` | One journalled call of every kind of tool, its repetition, compensation and reconciliation |
| `ApiAdmission` | Request threads of the HTTP API, the worker behind it, a stream of events |
| `TurnRouting`, `GroundedText` | How replies of models become a handler; what is done to a text written from evidence. Operators only |
| `AnswerTurn` | A turn from the question to the stored answer, with deaths of its worker, over both |
| `DocumentIndex` | The index of documents in its three stores |
| `MediaIngestion` | The images of the assistant |
| `Conversation` | Sessions, their compaction, and memories |
| `LedgerProofs` | Theorems about the ledger, and lemmas about its operators for every module over `TaskStore` |
| `TaskServiceProofs`, `ApprovalProofs`, `ToolEffectsProofs`, `ApiAdmissionProofs`, `AnswerTurnProofs`, `MediaIngestionProofs`, `MemoryProofs` | Theorems (section 4); the last is about `Conversation` and `DocumentIndex` |
| `MC…` | Instances for TLC |

`LedgerClient`, `TaskService` and `DesktopApproval` extend `TaskStore`, so what is proved about its
operations for any caller concerns the same definitions that workers and executions run. The other
components meet the ledger by their own submission or task only, and keep a row of their own for it.

Several modules have a constant `Settings` (`Scenes` in `DocumentIndex`): a set of records that say what may be asked and what may
go wrong. One is chosen in `Init` and never changes, so that one run covers several small worlds
whose product would be out of reach.

### 2.1 TaskStore

`task[t]` is the row of `tasks` joined with its row of `runtime_jobs`; `node`, `attempts` and
`effect` are the other tables. An action is a whole `BEGIN IMMEDIATE` transaction. A check that
raises rolls the transaction back, so it is a conjunct of the guard.

* *Time.* A lease is `live` until it lapses, at any moment; a deadline is `ahead` until it is
  `past`. A lapsed lease stays in the row until somebody expires it, as in the table.
* *released* stands for what `save_released_output` reads back from the event log: owner, token
  and status of the last release.
* *Version checks.* `resume` and `save_released_output` are called with the version read just
  before. Read and write are one step: when the row has changed in between, nothing is written.
* `success` and `succeeded` are one value. Texts, output references, checkpoints, plan and input
  digests, the `approvals` table (which the desktop does not use), `retry_at` and legacy rows are
  left out. The guards they belong to make a transaction raise, and raising is always possible for
  a caller that does nothing, so `LedgerClient` allows at least the histories of the code.
* `recover_orphaned_tasks` treats one task per step; each is independent of the others. Whether
  the process that started the task is alive is left open.
* `release_lease`, `claim` by id and `consume_approval` have no caller in the program; the
  first two are modelled as operations the ledger offers.

### 2.2 LedgerClient

Callers present any owner and any token, any status that a caller in the program passes
(`CallerStatus`), and any node report but `running` (`ReportStatus`). The journal's writes appear with
every state they may leave. `LedgerSpec` has all of this. To stay small the run
`ledger` has a client that writes few of the statuses (`MCSpec`); `FewerStatusesAreCovered` proves that
whatever such a client does is a step of `LedgerSpec`, for which the theorems hold.

### 2.3 TaskService

A worker is a record: the `stage` of its main thread, the run's task, token, node and attempt, what
begin_effect read (`saw`), the run's `outcome`, its stop flags, the stage of its heartbeat thread and
whether it is being closed. Each stage ends with one transaction, one poll of the control, or the
tool call.

* `AcquireLock` … `StartRun`: `run_once` up to the handler. The worker lock and the lease lapse
  independently.
* `LoadPlan` … `ReportResult`: `_execute` and `SupervisorAgent.execute` in a task that a worker
  owns (`Planned`), or one direct call (the others). One tool call per node, nodes without
  dependencies; the call of a node outside `SideEffect` has no journal row.
* `SelectEffect`, `DispatchEffect`, `ToolCall`, `RecordEffect`: `begin_effect` in two steps, since
  its SELECT runs before the write transaction is opened (the connection is in Python's
  deferred-transaction mode); then the tool; then `finish_effect`. A tool that answers
  `succeeded` has changed the world, one that answers `failed` has not, one that answers `unknown`
  or is interrupted by a control error may have.
* `Settle`, `Finish`, `Abort`, `JudgeFailure`: the end of `run_once`. `_finish_failure` reads and
  writes; its write repeats the conditions of its read, so the pair is one step.
* `Poll`, `RenewLock`, `RenewLease`: the heartbeat thread. Joining it at the end of the run turns
  it off with the run.
* `Close`, `Closed`, `Crash`: the end of a process. A dead worker stays dead; other members of
  `Owner` stand for restarted processes, as the code draws a fresh owner name.
* `Submit*`, `Request`, `ResumeTask`: users of any process.

The queue limit, budgets and metrics are left out; a run that ends in `waiting_human` is part of
`DesktopApproval`.

### 2.4 DesktopApproval

`approval[a]` is a row of `desktop_approvals`: its state, task and node, whether its ten minutes are
over (`fresh`) and whether the files it names are still those it was made for (`same`). Requests are
numbered in the order of their insertion. `runner`, `executor` and `desk` are the local states of
worker threads, of calls of `approve_pending_action` and of windows. One action is one transaction;
a thread may stall or, in `MayCrash`, die between any two. `applied` counts the effects in the world.
`stray` is a history variable: the nodes for which a thread wrote the journal row of a call after it
had lost its lease (`BeginsCall`). `torn` is one, too: the tasks that wait because a write raised after
the one before it had been made (`RunnerCreate`, `RejectFails`).

* `RunnerClaim` … `RunnerReport`: the run of a task up to its side effect, which is prepared and not
  executed. A task in `Planned` runs its plan, any other prepares its one action.
* `RunnerBind` … `RunnerSave`: `_bind_pending_task` and the insertion of the request. `leased` is
  whether the row had an owner when it was read, which decides whether the lease is presented. The
  insertion may raise: the task waits by then, so that the worker's `_finish_failure` does nothing.
* `Preview`, `Consume`, `ClaimAction`: the checks before the claim, each against the rows as they
  are at that moment, and `claim_desktop_approval`, which repeats those that may have changed.
* `EnterCall` … `RecordCall`: the last look at the stop requests, then `call_approved` between
  `begin_effect` and `finish_effect`. `CloseAttempt`, `CloseTask`: the attempt and then the task.
* `ApprovalBeat`: the heartbeat thread. One that is refused cancels the call.
* `Reject` … `RejectTask`: `cancel_pending_action`, three transactions, of which the later two may raise. `Renew` … `DropRequest`:
  `renew`. `ControlTask` … `SweepRequest`: `controlTask`, whose list of tasks may be out of date.
* `RefreshTasks`: the timer of the task list, which expires leases in every open window.

Every thread is a process of its own. Threads of one process exclude each other by the agent's
operation lock and have fewer interleavings. The worker lock is left out, as it lapses under a
stalled worker. The tool is asked for with the same arguments each time, so plan versions and
sessions, which then agree, are left out; so are approvals without a task and the store kept in
memory. All tasks have been submitted in `Init`; `TaskService` has the submission.

### 2.5 ToolEffects

One operation, with one row of the journal, and the world it changes: two paths (`files`), the file
in `effect_backups`, the stored MIME text of a mail, how often the server accepted it, its copies in
the sent folder, how often the process was started. The content of a file is who wrote it: `orig`,
`tool`, `edit` or nobody.

* `StartCall` … `Enter`: `call` or `call_approved` with the answer of the permission rules as an
  input, `begin_effect`, the checks of the tool.
* `StageWrite` … `LinkWrite`: `write_file`: back up, compare the target with what was backed up,
  replace, or link without replacing. `HashSource` … `DropSource`: `apply_file_move`. `Connect`,
  `Send`, `Append`: `_send`. `Run`: `_run_process`. A stop or a lost answer may end each.
* `DiskError`, `FailsLate`, `LeavesOpen`: the errors of the file system. Before the effect they fail the
  call. Behind it a move is left open, but for an error in what comes last: the removal of the staged
  copy and the hash of the moved file. The call is then a failed one although the file is in place
  (section 6); `denied` remembers that, and `JournalIsTrue` excepts it.
* `FinishEffect`: what `_normalized_result` and `finish_effect` make of the outcome. Its UPDATE has no
  condition on the state, so the late answer of a call may replace what a reconciliation wrote.
* `InspectEffect` … `CloseCompensation`: both compensations, claimed by an UPDATE that compares the
  state. `LookUp` … `Confirm`: `reconcile_email_effect` with the repair of the sent copy.
* `Crash`, `CompCrash`, `Edit`: any thread dies between any two steps; the user saves or deletes a
  file with another program. The ghosts `late` of a call and a compensation remember an edit that
  came after the last comparison, a window that the code cannot close.

Calls of the operation follow each other, since a task is not queued while a call is in flight
(`NoCallInFlightWhenQueued`). `DesktopApproval` and `TaskService` have the journal without that
assumption; there two direct calls may overlap. `begin_effect` reads the row (`effects.py:29`) before
its write transaction begins, so of two stale workers that both read `failed` each dispatches, and the
effect may happen twice. `DirectCallsNeverFail`, the hypothesis of the theorem about the service,
excludes just that, and the runs of both modules do not let a call fail and run again while another
is under way.

### 2.6 ApiAdmission

A slot is a pair of principal and idempotency key; a slot of a decision has the key
`decision:<action>`. `sub`, `sessionOwner`, `task` and `action` are tables. The five transactions of
a submission are `Reserve` or `ReserveAgain`, `LookUp` and `Create`, `Bind`, `Queue`, `MarkReady`;
`CallerDies` ends a thread between any two. A claim is `fresh` for 30 s (`ClaimAges`), a row counts
in the quota of the minute and of the day (`RowAges`).

* `StartTask`, `CarryOut`, `EndTask`: the worker and its two handlers. What happens inside a run is
  `TaskService`'s subject; here it ends somehow.
* `ReadEvents`, `CheckTask`: the loop of the event stream, two reads that a task may end between.
* `slow` and `again` are history: slots whose claim ran out under a living thread, and slots whose
  task was resumed. A thread that was slower than its claim queues what it read as paused, although
  another thread has completed the submission meanwhile and a worker has executed it. The key is
  then executed twice (`api/service.py:170`), so `ExecutedOncePerKey` excepts `slow`.

### 2.7 DocumentIndex

`disk` holds the JSON snapshot, the catalog, its full-text table and the cache of vectors, `procs` the
memory of each process, `jobs` the threads. A version of a file is its document (ids are made from
contents), its chunks enter and leave a store together, and its vectors take two calls of the
embedding service (`Batches`), each labelled with the space it came from.

* `Parse` … `Replace`: `add_document`: skip what is unchanged, cut the document (`Chunk`), look
  vectors up, call the service and fall back for the whole document when it fails, store them, drop
  the old version from memory, enter the new one (`Enter`), commit to the catalog, write the snapshot
  beside the old one, rename it.
* `StartSearch` … `Cite`: a search in its stages; scores, thresholds and rankings choose any
  subset that keeps what the code keeps.
* `ClearMemory`, `ClearCatalog`, `Migrate`, `Rollback`, `Start` (load and rebuild of the full-text
  table), `Die`, `Edit`.
* `history` is what the program told its user: the paths it reported, and the documents a failed job
  left in memory without a row or a snapshot (`doubtful`); a later job may take these for unchanged.
  It also keeps the documents during whose filing the process changed the name of its embedding space
  between two looks at it (`shifted`).

What the code does beyond its properties: two threads that index one path may leave both versions
(`Apart` keeps them from it), and a web page has no digest and is taken for unchanged as long as its
row is active. `_embedding_space` belongs to the process, and a failure switches it to the local space.
The call for the chunks compares against the space it finds (`rag/vector_index.py:538`), so where the
switch came before, it takes vectors of the service that answers again and stores them, and caches
them, under the local name. That needs no second thread: where a document is cut by meaning, as PDFs
and plain texts are, the sentences are embedded first (`rag/chunker.py:96`), and their failure is the
switch. The comment at `rag/vector_index.py:542` says that a fallback must switch the whole name
space and mix no vectors. Such documents are the ones in `shifted`; without the exception TLC refutes
`VectorsMatchTheirLabel` after one failure.

### 2.8 TurnRouting, GroundedText, AnswerTurn

`TurnRouting` has the functions: of the router's reply (a *decision*), what the rules find in the
question (an *ask*), and the planner's replies (*plans*, what tools, documents and paths they name).
`Corrected` is `route` with its completion, gate and slot validation, `Fallback` the route without a
reply, `Wants…` and `Takes…` the three repairs, `Compiled` the plan made from the decision's required
tools, `Planned`, `Called` and `Handler` the cascade of tests that picks a handler, or runs into an
exception (`Conflict`). `Owed` are the commits the decision owes, of file, mail and draft; `Served` those
that a handler makes.

`GroundedText` keeps of a text the numbers in its brackets, apart from those inside the passages it
quotes, whether a factual line has none, whether it cites the memory. `Valid`, `FallbackTexts`, `SourceList`, `ResearchText` and `ReferenceList` say
what the checks accept, what replaces a text they refuse, and what is listed under it.

`AnswerTurn` lets models choose. `turn` is the worker's state, `task` what the ledger holds of it
(its handler, the states, outputs and attempts of its nodes), `draft` the answer in the making,
`record` history: questions and answers stored, requests made, files written, what was owed.

* `Begin` … `Dispatch`: routing, planning, at most three repairs with a new plan each, the handler.
* `AnswerDirectly` … `Research`: answers in one step. `Retrieve` … `Cite`: generation from
  passages, its revision, the fallback, the verification of the support, the list of sources.
* `Bind` … `SaveNode`: the plans that are executed by nodes: the task changes its handler in the
  middle of the turn, then each node runs, calls, and is saved with its output.
  Sources are one node, what is written from them another, the commit the third.
* `Request`, `Say`, `Remember`: the pending action and the answer are stored.
* `Crash`: the task starts again under the handler it is bound to: `core.answer` from the
  question, `core.workflow` from the saved nodes; a commit that was running is not run again.

### 2.9 MediaIngestion

An image is the digest of its stored copy; as the copy is encoded anew, storing it once more may give
another image (`Again`). The asset table, the files, the index (whole-image chunk, chunks of regions,
the vector of the text, those of the regions, that of the image), the PDF checkpoints, the visual memories and the pending permissions are the state;
the worker, the agent's operations and the window are three threads without a common lock.

* `LookUp` … `InsertRow`: the asset store, which raises the sensitivity of an image that is there.
* `CheckIndex` … `PutVision`: `ingest_image` with its retries and reasons to fail. Texts go to the
  embedding service (`EmbedTexts`, `EmbedFails`), and their vectors are written one after the other, the
  whole text's first (`PutText`), those of the regions last (`PutSpots`, all regions standing for one);
  an image with chunks whose text has no vector takes the same two steps in `backfill`, `retext`,
  `respots`, or only the first when its regions have no chunks (`rewhole`).
* `NextPage` … `Report`: `ingest_pdf` in batches with a checkpoint for each page.
* `LoadAssets` … `ActivateMemory`: remembering and approving, with the check for secrets;
  `FindReferences` … `Unlink`: the four transactions and two file operations of a deletion.
* `AskVision`, `Enforce`, `SearchIndex`, `SendImages`, `SendNothing`: an answer from images under
  the policy for sensitive ones, in `agent.answer_multimodal` and in the tools. `Confirm` is the user,
  to whom the sensitive images were named (`Asks`): an answer is about the same images, a recall
  searches again. A search finds every image that fits; the cut to the best few is left out.
* `raced` is history: images deleted while another thread was storing or indexing them. The index
  job then writes for an image without a row; the properties except it. `torn` is history too: images
  that a crash left with the first vector of their texts and not all.

### 2.10 Conversation

`messages`, `summary` and `checkpoint` are files, one set for each session; `memory` is a table. A
summary stands for the set of messages it was made from, through earlier summaries. A turn (`op`)
stores the question, works, stores the answer, extracts and stores memories, and compacts; the window
(`ui`) compacts, creates, selects, pins and deletes sessions without the agent's lock.

* `StartTurn` … `Remembered`: the turn. A memory of a topic supersedes in one transaction and is
  inserted in another (`Supersede`, `Insert`).
* `Measure` … `MarkCheckpoint`: `compact_if_needed`. The summary is emptied and then written, the
  checkpoint is another file.
* `ReadRows`, `ReplaceRows`: `update_message_metadata`, which rewrites the message file.
* History: `cut` (new messages beyond the window of one compaction, which the code drops knowingly),
  `torn` (sessions whose summary was lost half-written, or that two threads compacted or rewrote at
  once), `silenced` (topics whose successor waits for an approval nothing can give, or was lost in a
  crash between the two transactions).

## 3. Runs

| Run | Instance | Checks |
|---|---|---|
| `ledger` | 1 task, 2 owners, 1 writing node, 2 tokens, 2 attempts | `StoreTypeOK`, `AttemptFencing`, `RunningNodeHasAttempt`, `LiveLeaseIsKept`; the ledger implements `Lease` |
| `task_safety` | 2 workers that may crash, a planned write that is cancelled; the same with a direct call and users who act while it is submitted; 1 worker that is closed under a plan that reads, with deadline, pause, cancel | `TypeOK`, `NoCallInFlightWhenQueued`, `AppliedAtMostOnce`, `CancelWins` |
| `task_live` | 2 tasks, one without a handler; a planned task that is cancelled; 1 worker of 2 may crash | `QueuedIsServed`, `CancelIsHonoured` |
| `approval_requests` | a direct task, 2 workers, 2 executions, 1 window, 2 requests, cancel, 1 resumption | `TypeOK`, `WaitingIsDecidable`, `ExecutedOnce` |
| `approval_ends` | a plan with a read and an approved write, 2 windows; the worker, the execution and one window may crash, files change, the request expires, time runs out | `ExecutionEnds` |
| `tool_effects` | every tool, 4 calls, 3 edits, 2 compensating windows, 1 reconciling | `TypeOK`, `AppliedAtMostOnce`, `JournalIsTrue`, `OriginalIsKept`, `EditIsCompared` |
| `api_admission` | 6 settings: two threads with two requests on one key; a decision; a stream; minutes and days; an abandoned row that counts; a session of another principal | `TypeOK`, `QuotaHolds`, `ExecutedOncePerKey`, `StreamIsComplete`, `SubmissionIsCompleted` |
| `api_decision` | a decision whose thread dies | `DecisionIsQueued` is *violated*: section 6 |
| `document_index` | 8 scenes: one thread with two deaths and a failing store, with a failing service, with a clearing, with a migration, with searches; two threads of one process with a failing service; of two that search, and that fail | `IndexTypeOK`, `IndexedIsFound`, `VectorsMatchTheirLabel`, `NoTwoVersionsCited` |
| `answer_turn` | 7 settings: 36 kinds of question, 48 decisions and 20 plans without failures; decisions for a file and a mail, and for two files; any text of a model on each way to an answer from evidence; each executed plan with 2 deaths, with stops and 1 death, with a file that is there already | `TypeOK`, `AnswerIsGrounded`, `CommitIsPreparedOnce`, `CommitIsAccounted` |
| `media_ingestion` | 13 settings: a PDF with two equal pages through crashes, failures, a second job, a deletion; a page whose text model changes, with a crash; a recall while an image is indexed; an image indexed, attached, remembered and deleted at once; memories of a secret and a paste; answers under each policy | `TypeOK`, `StoresAgree`, `ReportIsTrue`, `SensitiveIsGuarded` |
| `conversation` | 5 settings: compacting turns with 2 crashes, with a silent model and stops; a window that compacts meanwhile; sessions that come and go; contradicting memories | `TypeOK`, `CheckpointIsCovered`, `OneVoice` |

What the properties say is at their definitions. Some of what makes them true, and where they end:

* `AppliedAtMostOnce` of `TaskService` holds when the direct calls, those of tasks without a plan,
  succeed or are left open; a call that *failed* leaves a row that admits another call on purpose, and
  two stale workers may both use it (section 2.5). The calls of a plan may fail: no node of a side
  effect is run again before its call is over. `ToolEffects` has the failing calls, one after another.
* `NoCallInFlightWhenQueued` is about the calls of a plan's side effects: a call that only reads may
  outlive its lease, and a direct call as well. `begin_effect` does not look at the
  lease, so a fenced worker of a direct task may still be inside its call when the task is queued
  again; the journal then stops the second call.
* `CancelWins` is checked for users who act once the submission is complete. Between `create_task`
  and the `update_task(queued)` of `submit` (`tasks/service.py:138`) a cancellation is overwritten,
  and the task stays queued with its request set, claimable by nobody.
* `WaitingIsDecidable` holds as long as worker threads and windows live, and the files named in a
  request stay as they are: a renewal drops a request whose files changed and leaves the task to
  wait (`core/approval.py:208`). The task turns to
  `waiting_human` before its request is inserted (`core/agent.py:2137`), and a refusal takes three
  transactions (`core/agent.py:2482`): a death in between leaves a task that waits for nothing. So does
  a write that raises there; these tasks are in `torn` and excepted, until a request is written for them.
  A worker that was fenced finds a row without an owner and binds it without presenting a
  lease (`core/agent.py:195`); the property is about what the user finds then.
* `ExecutedOnce` is a promise about the world. Two requests may exist for one action, as a renewal
  copies before it drops and a resumed task asks again; it then rests on the effect journal, which
  its mutant removes. The journal carries it as long as whoever writes the row of a call holds the
  lease. `begin_effect` reads the row (`tasks/effects.py:29`) before the write transaction begins,
  overwrites it whatever it says by then (`:38`), and looks at no lease. An execution that
  saw a row that admits it, stalled past its lease, and writes the row after another execution of the
  resumed task has committed the same operation calls the tool again; without the exception TLC finds
  this when `approval_requests` is given three requests, two resumptions and calls that may fail. A
  stale worker that begins to prepare a planned action again also resets a committed row. The
  property excepts the nodes in `stray`, where such a write has taken place.
* `CommitIsAccounted` allows an answer that says why nothing was prepared (`note`), a task that fails
  (`raise`), and a plan for a file without any path, whose content is shown instead. It excepts plans
  that both write a file and mail (section 6).
* `AnswerIsGrounded` is about the citations that the model and the program set. A fallback also shows the
  numbers inside the passages it quotes, and the list of sources follows them (section 6).
* `IndexedIsFound` is claimed for `Orderly` scenes. A rollback brings back the catalog and the full-text
  table of before a migration, without what was filed in between; the next process rebuilds the table
  only if its number of chunks is not that of the snapshot (`rag/catalog.py:281`), so it may keep a
  table of other documents. That takes a death, a migration, a filing and another death before the
  rollback, so where one thread works, it dies once at most if a migration may come. Where several do, nobody dies, clears or migrates: a clearing takes what another
  thread has just reported, and a process that starts loads a snapshot that another is about to replace.
* `ReportIsTrue` leaves out the vectors of an image's regions where a crash fell between its vectors
  (`torn`), for as long as nobody has written them, and while another thread writes them
  (section 6). Every other crash and failure is in it.
* `SensitiveIsGuarded` is about the file of an image on its way to the vision model, and about
  memories. That the user's word names what is sent it claims for answers about given images, not for
  a recall; and it says nothing of the text of an image, which goes to the embedding service whatever
  the policy (section 6).
* `StreamIsComplete` excepts a task that ends between the empty batch of events and the look at its
  state (`api/app.py:138`), in which the last event is not delivered.

**Bounds.** In the ledger, `MaxToken` bounds the generations of a lease, `MaxAttempts` the attempts of
a node (in `TaskService` it is also the plan's limit, which the code has), `MaxRestarts` the resumptions
(3 in the code). A conflict between holders needs a stale one and its successor, so two owners are
enough; the theorems of section 4 hold for any number. `ledger` explores the journal for nodes that
have not been started (`JournalBeforeAttempts`): a resumption looks at both, which `TaskService`
explores together. Tasks
interact only by the order of the queue and by expiry in common, which `task_live` exercises with
two. Two requests are enough for a renewal or a second question to meet the decision on the first,
two executions for a race between approvals. A pause is requested in the runs of `TaskService` only:
a task that waits can be paused again and again, each time with a new token.
`MaxCalls` = 4 lets a call fail, be refused, be cut short and meet a closed row; three edits touch
both paths and undo one. In the API two threads race for a claim, and a third would find what the
second finds; `MaxRuns` = 2 is what a violation needs. In the index two versions of a file, three jobs
and one or two faults of each kind show every pair of an interrupted job and the job that meets its
remains. A turn has at most three nodes, so two deaths reach every pair of places; `MaxEvidence` = 2
with numbers up to 3 has passages that are cited, left out, and invented. Three pages in batches of
two have an equal pair within and across batches. Eight messages compact more than once with
`Threshold` = 3.
Symmetry is used over owners, workers and windows in safety runs only, where no expression names one
of them. Deadlock is not checked: the bounds stop the models, and so does a program all of whose
processes have ended.

**Fairness** (`FairSpec`). In `TaskService` the main and the heartbeat thread of a living process keep
taking steps: handlers end because every wait in them is bounded by the deadline, and SQLite's busy
timeout serves the writers. The lock and a lease lapse once their owner is dead or has no heartbeat
thread; nothing is assumed of a lease that is being renewed. Users owe nothing. In `DesktopApproval`
the timer of a window that is open keeps firing, and every execution is bounded by the 120 s (or
less) of its deadline, so its threads move on, too. In `ApiAdmission` threads that live go on, claims
grow old, and a client sends its request again until it is accepted, which is what an idempotency
key is for; fairness of that is strong, since other threads come and go in between. The other
modules are checked for safety only: they promise nothing that an idle program must still do.

Each property of a passing run has a mutant, a definition ending in the name of the slip that it
imitates (`Held` and `HeldUnexpired_Dropped`), under which TLC refutes the property.

## 4. Proofs

Each theorem holds for every value of the constants: any set of tasks, owners, threads, sessions or
passages, finite or not, any bound, any number of crashes where the model lets them be given.

| Module | Theorem | Statement |
|---|---|---|
| `LedgerProofs` | `LedgerTypesCorrect`, `LeasesAreShaped` | `[]StoreTypeOK`; an owned row is running, has a lease time and an issued token |
| | `LedgerIsALeaseService` | every step of the ledger is a step of `Lease` or a stutter |
| | `LiveLeasesAreKept` | `LiveLeaseIsKept` |
| | `AttemptsAreFenced`, `RunningNodesHaveAttempts` | `[]AttemptFencing`, `[]RunningNodeHasAttempt` |
| | `FewerStatusesAreCovered` | a client that writes only some statuses is a client of `LedgerSpec` |
| `TaskServiceProofs` | `ServiceUsesTheLedger` | the service's steps are steps of `LedgerSpec`, so that all of the above holds of it |
| | `ServiceIsALeaseService`, `ServiceKeepsLiveLeases` | the service implements `Lease`; `LiveLeaseIsKept` |
| | `ServiceTypesCorrect`, `CancellationWins`, `QueuedTasksHaveNoCall` | `[]TypeOK`, `[]CancelWins`, `[]NoCallInFlightWhenQueued` |
| | `EffectsHappenOnce` | `[]AppliedAtMostOnce`, if `DirectCallsNeverFail` |
| `ApprovalProofs` | `TypeCorrect` | `[]TypeOK` |
| | `ApprovalsUseTheLedger` | the steps of threads and windows are steps of `LedgerNext`, or leave the tables alone |
| | `ApprovalsUseALeaseService`, `ApprovalLeasesAreShaped`, `ApprovalLeasesAreKept` | the approvals implement `Lease`; `[]LeaseShape`; `LiveLeaseIsKept` |
| | `ApprovalAttemptsAreFenced`, `ApprovalNodesHaveAttempts` | `[]AttemptFencing`, `[]RunningNodeHasAttempt` |
| | `ApprovedEffectsHappenOnce` | `[]ExecutedOnce` |
| | `WaitingTasksAreDecidable` | `[]WaitingIsDecidable`, if workers and windows live and files stay as they are; `torn` is the exception |
| `ToolEffectsProofs` | `TypeCorrect`, `EffectsHappenOnce`, `JournalTellsTheTruth` | `[]TypeOK`, `[]AppliedAtMostOnce`, `[]JournalIsTrue` |
| | `OriginalsAreKept`, `EditsAreCompared` | `[]OriginalIsKept`, `EditIsCompared` |
| `ApiAdmissionProofs` | `TypeCorrect`, `RequestsAreExecutedOnce`, `QuotasHold`, `StreamsAreComplete` | `[]TypeOK`, `[]ExecutedOncePerKey`, `[]QuotaHolds`, `StreamIsComplete` |
| `AnswerTurnProofs` | `TypeCorrect`, `AnswersAreGrounded`, `CommitsArePreparedOnce`, `CommitsAreAccounted` | `[]TypeOK`, `[]AnswerIsGrounded`, `[]CommitIsPreparedOnce`, `[]CommitIsAccounted` |
| `MediaIngestionProofs` | `MediaTypesCorrect`, `StoresAlwaysAgree`, `ReportsAreTrue`, `SensitiveImagesAreGuarded` | `[]TypeOK`, `[]StoresAgree`, `[]ReportIsTrue`, `SensitiveIsGuarded` |
| `MemoryProofs` | `TypeCorrect`, `CheckpointsAreCovered`, `TopicsHaveOneVoice` | of `Conversation`: `[]TypeOK`, `[]CheckpointIsCovered`, `[]OneVoice` |
| | `IndexTypes`, `OneVersion`, `LabelsMatch` | of `DocumentIndex`: `[]IndexTypeOK`, `[]NoTwoVersionsCited`, `[]VectorsMatchTheirLabel` |
| | `IndexedFound` | `[]IndexedIsFound`, if `Orderly` |

They rest on the named assumptions about constants only (`ConstantsAssumption`, `ServiceAssumption`,
`ApprovalAssumption`, `EffectsAssumption`, `AdmissionAssumption`, `NumberAssumption`, `TurnAssumption`,
`MediaAssumption`, `ConversationAssumption`, `IndexAssumption`): side effects are nodes, `None` is no
owner, bounds are numbers, settings have their type, contents of two files differ. TLC evaluates each of them in a run.

*Ledger.* `StoreTypeOK` is inductive, and is proved operator by operator: each row operator
(`WithStatus`, `TakenBy`, `InterruptedRow`, …) maps rows to rows. The heart is `EveryRowSteps`: a
transaction does to each row exactly one of six things, keep its lease, grant, let lapse, give up,
revoke, or fence. From this case analysis follow the preservation of `LeaseShape`, the refinement
(the six are the disjuncts of `Lease!Step`) and `LiveLeaseIsKept` (only a release by the holder takes
the owner off a live row). `LeaseShape` is needed because a claim, an interruption and a control
request test the owner or the status alone, and the refinement needs to know that a row without an
owner has no lapsed lease. `AttemptFencing` adds `EveryAttemptSteps`: a transaction closes attempts
of a node without touching their tokens, or opens one under the row's own owner and token where none
was running. Joined with the row steps, in which tokens never fall and a new owner brings a larger
one, that gives the invariant; the same case analysis gives `RunningNodeHasAttempt`.

*Service.* `WorkerOK` says, stage by stage, what a worker knows of the rows it works on, and whether a
transaction that presents its lease can still succeed. Each of the service's steps is then shown to be
a transaction of `LedgerNext` or to leave the tables alone; that carries the ledger's theorems over
without a second proof. `CancelWins` needs that the user's request and the status of the row are read
in one transaction by whoever ends the task. For `NoCallInFlightWhenQueued` the invariant is
`SideCalls`: while a worker, of whatever lease, is inside the call of a side effect of its plan, it
holds the task and the node is running, or the node is *uncertain*. Expiry is what turns the first
into the second, and a resumption (`QueueOK`) queues no task that has an uncertain node. `OneCaller`
and `RunningIsShown` make the first part inductive: the node of a call is not started again, as an
attempt is opened only where none is shown as running. For `AppliedAtMostOnce`, `JournalOK` relates the
row of the journal to what every worker has seen of it and to what happened in the world; a row that
is dispatched, committed or unknown admits nobody, and a row that failed admits one worker, since in
a plan the callers of a node follow each other.

*Approvals.* The transactions of the ledger meet the invariant in two facts only (`Calm`): a row
starts to wait by `update_task` alone, and a cancellation is never taken back. `WaitersFree`: a
task that waits has no owner, so a refusal, which presents no lease, is accepted as long as the task
waits. `CareOK` is what makes the property inductive: a task that waits has a request that no
renewal is about to drop, or a worker about to write one, or a window that has refused the request
and is on its way to the task, or it is `torn`, which a worker or a window that gives up half-way has
to say. A renewal whose files are as they were copies the request first; the
copy is of the same task and new, so nobody drops it. A consumed request belongs to a task that is
running from the same transaction on, and the requests a window sweeps belong to a cancelled
task. The theorem has the hypothesis `Living`: no worker and no window dies, and no file named in a
request changes. Executions may die at any step.

*Approved effects.* `Bounds` says that every lease a thread remembers was issued; with it each step is
a transaction of the ledger, and the theorems on leases and attempts follow as they do for the
service. `Once` is what makes `ExecutedOnce` inductive, node by node as long as the node is not in
`stray`: while a call is under way its row says *dispatched*; there is one caller at a time; what has
taken place has a row that admits nobody, and whoever is still in the call has acted already; and an
execution that holds its lease before the write has seen the row as it is. The last part is the
heart: a new caller, or a worker that prepares the action, must hold the lease itself, and two
threads never hold the lease of one task (`HeldBefore`, `TokensOK`), so that between the two statements
of `begin_effect` nobody else writes the row while the lease lasts. It says nothing of an execution
that lost its lease there, and it is that write which puts the node in `stray`. No hypothesis is needed: threads, windows and
processes may stall or die at any step, and files may change.

*Journal.* A row that is past `begin_effect` belongs to the call, but for a reconciliation that has
found the mail (`RowIsOwned`); then the invariant says, stage by stage, what must have happened:
once a mail is accepted or a process started no stage that could repeat it is left and the row
admits no call (`SentIsKnown`, `StartedIsKnown`), what is about to be recorded as done has happened
(`SuccessIsTrue`), what is about to be recorded as failed has left the files alone,
but for an error that came behind the effect (`FailureIsTrue`, `denied`), and a compensation that claimed the row has left it no way back (`ClaimIsFinal`).

*Files.* On top of it `FilesInv` says what is in the two paths and the backup. `CompOK`: one window
at most is past its claim. `KeptOK`: while the user leaves the files alone, everything the call, the
row and the windows remember as the version before is the original, and it is at its place until
the backup or the copy of it is. `LateOK`: unless the user came between the last comparison and the
write, the file that is about to be replaced is the one that was compared. The first gives
`OriginalIsKept`; `EditIsCompared` follows from the third for each of the five steps that write a file.

*API.* `ClaimOK`: unless its claim ran out under a living thread, a slot is built by one thread, whose
claim is fresh. With it `RunsOK` is inductive: a task that has run is not about to be queued. For
the counts, only finitely many slots have a row (`CountOK`), and a reservation that passes the test
adds at most one to each count. The tokens of a day are a sum over rows. What a sum needs is proved by taking a
smallest subset that violates it (`Smallest`; the strict subsets of a finite set are well-founded): that the
recursion of the community modules defines a function (`SumsExist`), that one row can be taken out
of a sum anywhere (`TotalWithout`), that fewer rows cost no more (`TotalSmaller`). With `ChargedOK`, rows that
are charged have a body and never change it, `TokensOK` is inductive. `StreamOK`: a stream whose last batch was empty, and whose task had ended
when it asked for it, has nothing left, since a task that has ended writes an event only when it is
resumed or queued by a slow thread.

*Turn.* Routing keeps types, so a plan can be compiled from any decision. `DraftOK` says what the
draft satisfies at each stage from retrieval to the answer: it is empty, or has passed the check, or
is a fallback whose own numbers pass it; a text of the model quotes nothing, so the list of sources is
what it cites. `NodesOK`: checkpoints are made from what is saved before them; with
it `CommitOK`: what was asked or written is what the commit's checkpoint holds, and a commit that
has been running is not run again. `OwedOK`: from the dispatch on the handler, or the one the task
is bound to, accounts for what is owed; the proof goes through every test of the cascade. What is owed
is in the plan, since the repair compiles a plan that lacks it; a plan that is not mixed mails or
writes, and the tests that come before the handler of that kind do not apply to a plan with a commit.

*Conversation.* `VoiceOK`: no two active memories speak about one topic, none about the topic of the
memory that is about to be inserted, and a topic that was spoken of is not silent but for that one.
It needs that one thread only remembers, and that memories of one topic share their kind.
For the summaries, `CompactionInv` says what a thread between two files of a compaction knows: what
it has read of the messages is a prefix of the file, reaches the checkpoint, and all of it but what is
cut is in the text it is about to write. In every order of the writes of summary and
checkpoint the checkpoint is behind the summary. When the other thread writes to the same session in
between, none of this holds, and the session is `torn` from then on; the proof shows that these are
the only sessions to except, and that a crash between two files tears one only while its summary is
half-written.

*Images.* `Role` says which thread does which work in which stages. `Pages` is the arithmetic of a PDF:
each page before the next one has exactly one result or is in the batch, in its place, and what was
made of the batch is of its pages in their order; with the last page read and the batch empty this is
the first half of `ReportIsTrue`, for PDFs of any length and batches of any size. `HoldOK`: what a
thread has stored of its image is there, stage by stage, unless the image was deleted under it;
`ToldOK`: what it has noted as a success is indexed as a whole. `FillOK`, a second invariant proved from
the first, is about the vectors of regions: an image with the vectors of its text and of itself has
those of its regions, or a thread is about to write them, or the image is `torn`. A thread at
`rewhole` writes the vector of a text whose regions had no chunks when it looked; the invariant adds
that such an image has no vector of its own, or has the vector of its text by now. Most steps only add to the stores, which
disturbs nobody (`Grows`); the steps of a deletion take away, and there the proof shows that every
thread that relies on the image is one that `raced` or `lost` accounts for (`Touches`, `Holds`). `OpOK`
is what the holder of the operation lock has read and still relies on: the rows of the images it
remembers, the memories of an image it deletes, the sensitivity of what it sends, and that the
user's word named it (`Worded`). No other thread
takes any of this away, since levels only rise and only this thread deletes and forgets.

*Documents.* `Shape` has the types, and one fact that all the rest leans on: a document is stored, and has
its row, under the path whose content it is (`Library`, `Catalog`). For `NoTwoVersionsCited`,
`VersionsInv`: no library, in a memory, in the snapshot, or in the copy a thread reads or writes, has
two versions of a path. `DropOld` and `Enter` are two steps, so the invariant adds that while a
thread is about to enter a version its process has no other, and that no other thread files the same
path (`Apart`). `VectorInv` follows the vectors: what a thread has collected is of the space it asked
for, and what is stored or cached is of its label, or the document is in `shifted`; a fallback replaces all
vectors of a document, which is why it keeps this.

`IndexedFound` has two arguments. Alone (`AloneInv`), what a thread reported is in the snapshot and
in the full-text table, and in memory while its process lives, at every stage of the next job: a job
that files the path again withdraws the report first, and an active row that a later job may take for
unchanged has its document behind it, unless a failed job left it (`doubtful`). A death loses the
memory, and `Start` makes it and the full-text table anew from the snapshot; that is why the
invariant has to speak of the snapshot and the rows together, and of the row kept aside by a
migration. Together with others (`TogetherInv`), a thread may find the snapshot rewritten by another
process, so it says what is in the memory that reported and in the full-text table, and that a filing by
one thread takes away nothing but old versions of its own path. The first form is kept by every step of
one thread, the second by every step where nobody dies, clears or migrates; `Orderly` says which
scenes have one or the other, and `ScenesOrderly` in `MCDocumentIndex` that the run's scenes do.

Every invariant and every action property that a passing run checks is the property of a theorem. Only
model-checked are the liveness properties (`QueuedIsServed`, `CancelIsHonoured`, `ExecutionEnds`,
`SubmissionIsCompleted`): fairness and `ENABLED` are out of the prover's reach.

## 5. Not modelled

* *Data*: prompts and wordings, regular expressions over questions, parsing, chunking, ranking and
  scores, titles and export. Where a state depends on them, the model lets them come out any way.
* *Permission rules* over paths and command texts: an input (`Policy`) of `ToolEffects`.
* *Context assembly*: pure functions over texts and token counts, called anew for every
  turn. *Runtime assembly and model clients*: wiring, HTTP calls, JSON repair; callers are modelled
  with every reply and failure. *Sandbox*: starts a container and collects its output.
  *Release and maintenance*: start-up configuration, backup and restore with the application closed.
* *Mail* beyond sending: reading, searching and drafting change nothing the program keeps.
* *Ledger*: output references, plan digests, `retry_at`, legacy rows, and the `approvals` table, which
  the desktop does not use. *Service*: queue limit, call and token budgets, metrics. *Approvals*: those
  without a task, and the store kept in memory. *Supervisor*: parallel nodes.
* *Sessions*: `metadata.json`, which is emptied and written with every message and has no fallback
  (`memory/session_store.py:257`), and the copies of memories in a session's directory.

## 6. Findings

**A decision that is never queued** (`api_decision`). `decide` (`api/service.py:223`) reserves the key
`decision:<action>` and enqueues the task in transactions of its own. Repeated, it finds the prior row
and answers from `_reserve` alone (`api/service.py:234`): nothing is enqueued. If the first thread died
in between, the row stays `creating`, each repetition takes over the claim and answers, and the decision
never reaches the queue. `src/tests/test_p2_api_adversarial.py:426` asks for the recovery of stale
reservations. `submit` does it right, which `SubmissionIsCompleted` shows under the same fairness.
Letting a repeated decision go on to `_enqueue`, as `submit` does, closes it.

The following departures are in the model as the code has them, and in the settings of the passing runs;
the property they touch leaves them out, at the place named in brackets. Stated without that exception,
TLC refutes the property on the same instance.

**A change that is journalled as failed** (`denied` in `JournalIsTrue`). `write_file` links the staged
copy to the target and then removes the copy (`tools/write_tools.py:122`). If the removal raises, as it
does on Windows while another program has the file open, the registry takes the exception for a failed
call (`tool_registry.py:162`): the row says `failed` and admits the operation again, although the file
was written. A move has the same in its `finally` (`file_tools.py:274`), where the error also replaces
the `UnknownSideEffect` that was on its way, and in the hash of the target (`:282`). `src/README.md:46`
says that the journal keeps file operations with an uncertain result from being repeated. A repeated
write then finds its own file, and a repeated move finds no source: the harm is in what the user is
told. Raising `UnknownSideEffect` for what fails behind the effect closes it.

**A file and a mail** (`record.mixed` in `CommitIsAccounted`). A decision may require `files.write_file`
and `email.send`, and the repair sees to it that the plan has both (`core/plan_repair.py:56`,
`intent/schemas.py:23`). The cascade then picks one handler: a plan with a web search goes to the
web-and-file handler (`core/agent.py:713`), any other to the mail handler (`:748`), and what the other
would have done is dropped; without a target for the file both are, and the pages are shown. The answer
does not say so. An answer that names the commits it leaves out, or a handler for both, closes it.

**Two target files** (the handler `raise` in `OwedIsServed`). For a plan with two different targets
`_planned_web_file_request` returns `{"error": ...}` alone (`core/agent.py:2842`). If the question names
no file, the caller takes this for a request without a target and reads its `query` (`:736`): a
`KeyError`, and the task fails with the name of the key for a message.
`src/tests/test_debug3_regressions.py:105` calls what should happen a request for clarification, and
looks at the dictionary only. Testing for `error` before the path closes it.

**Numbers of quoted passages** (`draft.text.quoted`, left out of `AnswerIsGrounded`). A fallback quotes
passages as they are. The one of the documents strips a number in brackets at the start of a passage
only (`core/agent.py:4276`), the one of a research none (`rag/web_research.py:495`), although the
model's report is cleaned of numbers without a page (`:476`). A reader takes `[12]` of a quoted passage
for a citation without a source, and `_append_source_list` lists passage 2 for a quoted `[2]`
(`core/agent.py:4250`). `rag/web_research.py:549` says that every number has its source. Replacing the
brackets of quoted numbers closes it.

**Regions without vectors** (`torn` in `ReportIsTrue`). The vectors of an image's text and of its
regions are written in transactions of their own, the whole text's first (`multimodal/ingestion.py:133`,
`:190`). Whether texts have vectors is asked of that one alone, by `ingest_image` (`:64`) and by the
checkpoint of a page (`:280`). After a change of the text model, a crash between the two leaves the
image for good without vectors of its regions, and every later job reports success. `ingestion.py:311`
and `src/README.md:45` speak of checkpoints a job recovers from. Writing the vector of the whole text
last, or asking for all, closes it.

**A recall that is confirmed** (`work = "answer"` in `SensitiveIsGuarded`). `answer_from_index` names
the sensitive images it has found (`multimodal/service.py:196`, `:274`). Confirmed, it searches again
(`:177`) and sends what it finds then; an image indexed in between goes out, though nobody was asked
about it. Keeping the assets of the question with the confirmation closes it, as `answer_multimodal`
does.

**The text of a blocked image** (`EmbedTexts`, not a subject of `SensitiveIsGuarded`). Indexing sends
what OCR has read to the embedding API when one is configured (`multimodal/ingestion.py:132`, `:205`),
whatever the sensitivity of the image. `multimodal/service.py:299` says that the policy `block` allows
local OCR only, and `.env.example:163` that it forbids the cloud. Taking the local embedding for images
that are not normal closes it.

What the code does beyond its promises, without a line that promises otherwise, is told in sections 2
and 3 where a property excepts it, and in the notes of `PROJECT.json`.

## 7. Running

In this directory, `tlc -config MCLedgerClient.cfg MCLedgerClient`, and the same with every pair of
`PROJECT.json`; none takes much more than a minute or two. `tlapm AnswerTurnProofs.tla` for a module
with theorems, which takes up to a few minutes from nothing.
