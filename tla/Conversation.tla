---------------------------- MODULE Conversation ----------------------------
(***************************************************************************)
(* The sessions of the assistant and what it remembers of them,            *)
(* src/deskpilot/memory: the message files, the rolling summary with its   *)
(* checkpoint (session_store.py, memory_compactor.py), the turn that ends  *)
(* with extraction and compaction (turn_manager.py) and the structured     *)
(* memories (memory_store.py).                                             *)
(*                                                                         *)
(* Two threads of one process: "op" is whoever holds the _operation_lock   *)
(* of the agent, "ui" is the window, which takes no lock: it compacts,     *)
(* deletes and selects sessions while a turn is under way.  A step is one  *)
(* read or write of a file, one transaction or one call of a model; to     *)
(* look a session up and to append a message to it is one step.  A file    *)
(* that is written whole is emptied first.  The process may crash between  *)
(* any two steps, and a task that was cut short is answered again.         *)
(*                                                                         *)
(* The summary stands for the messages it was made from.  Titles, times,   *)
(* the copies of memories in the session's directory and the rewriting of  *)
(* metadata.json with every message are left out.                          *)
(***************************************************************************)
EXTENDS Integers, Sequences, FiniteSets

CONSTANTS
  Sessions,        \* the sessions there may be
  Contents,        \* what may be remembered
  Topics,
  MaxId,           \* how many messages are written in all
  Threshold,       \* max_messages
  Window,          \* how many new messages the model is given
  FallbackWindow,  \* how many are kept when it does not answer
  Settings         \* what may be asked, and what may go wrong

Threads == {"op", "ui"}
Kinds == {"decision", "preference", "other"}
Roles == {"user", "assistant", "tool"}
Works == {"none", "answer", "image", "compact"}
Stages == {"idle", "ask", "work", "reply", "extract", "remember", "insert", "measure", "summarize",
           "clear", "fill", "mark", "rows", "replace"}
Confidence == {"low", "mid", "high"}
Candidate == [content: Contents, confidence: Confidence, pending: BOOLEAN]
Status == {"none", "active", "pending", "superseded"}

Setting == [kind: [Contents -> Kinds], topic: [Contents -> Topics], works: SUBSET Works, starts: [Threads -> 0..9],
            candidates: SUBSET Seq(Candidate), desk: SUBSET {"new", "select", "pin", "delete", "error"},
            tool: BOOLEAN, long: BOOLEAN, faults: SUBSET {"work", "chat", "stop"}, crashes: 0..2]

ASSUME ConversationAssumption ==
  /\ MaxId \in Nat /\ Sessions # {}
  /\ Threshold \in Nat \ {0} /\ Window \in Nat /\ FallbackWindow \in 0..Window
  /\ Settings \subseteq Setting

VARIABLES
  setting,     \* what may still happen
  live,        \* the sessions with a metadata file
  used,        \* the sessions that were ever created
  pinned,
  current,     \* the session the window shows
  messages,    \* messages.jsonl of each session
  summary,     \* summary.md, by the messages it was made from
  checkpoint,  \* compaction.json
  memory,      \* the row of a content that was said in a session
  run,         \* what each thread is doing
  errors,      \* failed turns the window has still to hear of
  lastId,
  cut,         \* messages a compaction passed over: more than the window
  torn,        \* sessions whose summary was half written, or written by both
  spoken,      \* topics that had an active memory
  silenced     \* topics whose memory was replaced by none that is active

vars == <<setting, live, used, pinned, current, messages, summary, checkpoint, memory, run, errors, lastId, cut,
          torn, spoken, silenced>>
desk == <<live, used, pinned, current>>
kept == <<summary, checkpoint, cut, torn>>
voices == <<memory, spoken, silenced>>

Idle == [work |-> "none", stage |-> "idle", session |-> "none", reply |-> 0, rows |-> << >>, from |-> 0,
         text |-> {}, todo |-> << >>]

Init ==
  /\ setting \in Settings
  /\ \E s \in Sessions : live = {s} /\ current = s
  /\ used = live /\ pinned = {}
  /\ messages = [s \in Sessions |-> << >>]
  /\ summary = [s \in Sessions |-> {}] /\ checkpoint = [s \in Sessions |-> 0]
  /\ memory = [r \in Contents \X Sessions |-> "none"]
  /\ run = [p \in Threads |-> Idle] /\ errors = {} /\ lastId = 0
  /\ cut = {} /\ torn = {} /\ spoken = {} /\ silenced = {}

At(p, stage) == run[p].stage = stage
Go(p, stage) == run' = [run EXCEPT ![p].stage = stage]
Here(p) == run[p].session
Fault(f) == f \in setting.faults
Smaller(m, n) == IF m < n THEN m ELSE n

\* get_or_create: the session itself, or else a pinned one, or else any.  (The
\* one in the window is not deleted, so that there always is one: that the
\* window follows the result of an approved action is left out.)
Found(s) ==
  IF s \in live THEN {s} ELSE IF pinned # {} THEN pinned ELSE live

\* The turn is over with an exception, of which the window hears.
FailTurn == run' = [run EXCEPT !["op"] = Idle] /\ errors' = errors \cup {Here("op")}

---------------------------------------------------------------------------
(* A turn, under the lock of the agent *)

StartTurn ==
  \E work \in setting.works \cap {"answer", "image"}, asked \in used :
    /\ At("op", "idle") /\ setting.starts["op"] > 0
    /\ setting' = [setting EXCEPT !.starts["op"] = @ - 1]
    /\ \E s \in Found(asked) :
         run' = [run EXCEPT !["op"] = [Idle EXCEPT !.work = work, !.stage = "ask", !.session = s]]
    /\ UNCHANGED <<desk, messages, kept, voices, errors, lastId>>

\* append_message looks the session up once more.
Append2(role, next) ==
  /\ lastId < MaxId /\ lastId' = lastId + 1
  /\ \E s \in Found(Here("op")) :
       messages' = [messages EXCEPT ![s] = Append(@, [id |-> lastId + 1, role |-> role])]
  /\ run' = [run EXCEPT !["op"].stage = next, !["op"].reply = lastId + 1]

Ask ==
  /\ At("op", "ask")
  /\ Append2("user", "work")
  /\ UNCHANGED <<setting, desk, kept, voices, errors>>

\* The answer is worked out, with a message of a tool perhaps, or not at all.
Work ==
  /\ At("op", "work")
  /\ \/ Go("op", "reply") /\ UNCHANGED <<messages, lastId, errors>>
     \/ setting.tool /\ run["op"].work = "answer" /\ Append2("tool", "reply") /\ UNCHANGED errors
     \/ Fault("work") /\ FailTurn /\ UNCHANGED <<messages, lastId>>
  /\ UNCHANGED <<setting, desk, kept, voices>>

\* _finalize_answer; an answer from images ends with its message.
Reply ==
  /\ At("op", "reply")
  /\ Append2("assistant", IF run["op"].work = "image" THEN "idle" ELSE "extract")
  /\ UNCHANGED <<setting, desk, kept, voices, errors>>

---------------------------------------------------------------------------
(* MemoryTurnManager.process: extraction *)

\* The gate, and the items of the extractor: after a tool only those that are
\* neither decisions nor preferences, none for a request or a plain turn.
Extract ==
  /\ At("op", "extract")
  /\ \/ \E todo \in setting.candidates \cup {<< >>} :
          run' = [run EXCEPT !["op"].todo = todo, !["op"].stage = "remember"] /\ UNCHANGED errors
     \/ Fault("stop") /\ FailTurn
  /\ UNCHANGED <<setting, desk, messages, kept, voices, lastId>>

StatusOf(c) ==
  IF c.pending \/ c.confidence = "low" \/ (setting.kind[c.content] = "preference" /\ c.confidence = "mid")
  THEN "pending" ELSE "active"

\* Mutant of Conflicts: only the session itself is searched.
Conflicts_SameSession(c) ==
  {r \in Contents \X Sessions :
     memory[r] = "active" /\ setting.kind[r[1]] = setting.kind[c.content] /\ setting.topic[r[1]] = setting.topic[c.content]
     /\ setting.kind[c.content] # "other" /\ r[2] = Here("op")}

\* _supersede_conflicts, of decisions and of preferences, in any session.
Conflicts(c) ==
  {r \in Contents \X Sessions :
     /\ memory[r] = "active" /\ setting.kind[r[1]] = setting.kind[c.content]
     /\ setting.topic[r[1]] = setting.topic[c.content] /\ setting.kind[c.content] # "other"}
Topic(r) == <<setting.kind[r[1]], setting.topic[r[1]]>>

\* add_memory: what was said before in this session is not added again,
\* whatever became of it; what contradicts the new item is superseded first.
Supersede ==
  /\ At("op", "remember") /\ run["op"].todo # << >>
  /\ LET c == Head(run["op"].todo)
     IN IF memory[<<c.content, Here("op")>>] # "none"
        THEN run' = [run EXCEPT !["op"].todo = Tail(@)] /\ UNCHANGED memory
        ELSE /\ memory' = [r \in Contents \X Sessions |-> IF r \in Conflicts(c) THEN "superseded" ELSE memory[r]]
             /\ Go("op", "insert")
  /\ UNCHANGED <<setting, desk, messages, kept, spoken, silenced, errors, lastId>>

Insert ==
  /\ At("op", "insert")
  /\ LET c == Head(run["op"].todo)
         r == <<c.content, Here("op")>>
     IN /\ memory' = [memory EXCEPT ![r] = StatusOf(c)]
        /\ IF StatusOf(c) = "active" THEN spoken' = spoken \cup {Topic(r)} /\ silenced' = silenced \ {Topic(r)}
           ELSE silenced' = silenced \cup {Topic(r)} /\ UNCHANGED spoken
        /\ run' = [run EXCEPT !["op"].todo = Tail(@), !["op"].stage = "remember"]
  /\ UNCHANGED <<setting, desk, messages, kept, errors, lastId>>

Remembered ==
  /\ At("op", "remember") /\ run["op"].todo = << >>
  /\ Go("op", "measure")
  /\ UNCHANGED <<setting, desk, messages, kept, voices, errors, lastId>>

---------------------------------------------------------------------------
(* MemoryCompactor.compact_if_needed, of a turn or of the window *)

Done(p) == IF p = "ui" THEN run' = [run EXCEPT ![p] = Idle] ELSE Go(p, "rows")

\* The other thread is compacting or rewriting the same session.
Other(p) == IF p = "op" THEN "ui" ELSE "op"
Meets(p) ==
  /\ Here(Other(p)) = Here(p)
  /\ run[Other(p)].stage \in {"summarize", "clear", "fill", "mark", "replace"}
Marks(p) == torn' = IF Meets(p) THEN torn \cup {Here(p)} ELSE torn

Measure(p) ==
  /\ At(p, "measure")
  /\ LET s == Here(p)
         rows == messages[s]
         new == Len(rows) - checkpoint[s]
     IN \/ /\ new >= Threshold \/ run[p].work = "compact" \/ (setting.long /\ new > 0)
           /\ run' = [run EXCEPT ![p].rows = rows, ![p].from = Smaller(checkpoint[s], Len(rows)),
                                 ![p].text = summary[s], ![p].stage = "summarize"]
        \/ new < Threshold /\ run[p].work # "compact" /\ Go(p, "rows")
  /\ UNCHANGED <<setting, desk, messages, kept, voices, errors, lastId>>

\* Mutant of Given: the first message after the checkpoint is left out.
Given_Unchecked(p, size) ==
  {run[p].rows[k].id : k \in {n \in 1..Len(run[p].rows) : n > Len(run[p].rows) - size /\ n > run[p].from + 1}}

\* The last of the messages after the checkpoint.
Given(p, size) ==
  {run[p].rows[k].id : k \in {n \in 1..Len(run[p].rows) : n > Len(run[p].rows) - size /\ n > run[p].from}}

\* The new messages that exceed the window, which the text leaves out.
PassedOver(p, size) == {run[p].rows[k].id : k \in (run[p].from + 1)..(Len(run[p].rows) - size)}

\* _summarize: the summary so far and the new messages, by the model or,
\* when it does not answer, by what can be copied of them.
Summarize(p) ==
  /\ At(p, "summarize")
  /\ \/ \E size \in {Window} \cup (IF Fault("chat") THEN {FallbackWindow} ELSE {}) :
          /\ run' = [run EXCEPT ![p].text = @ \cup Given(p, size), ![p].stage = "clear"]
          /\ cut' = cut \cup PassedOver(p, size)
          /\ UNCHANGED errors
     \/ Fault("stop") /\ p = "op" /\ FailTurn /\ UNCHANGED cut
  /\ UNCHANGED <<setting, desk, messages, summary, checkpoint, torn, voices, lastId>>

\* write_summary.
ClearSummary(p) ==
  /\ At(p, "clear")
  /\ summary' = [summary EXCEPT ![Here(p)] = {}]
  /\ Marks(p) /\ Go(p, "fill")
  /\ UNCHANGED <<setting, desk, messages, checkpoint, cut, voices, errors, lastId>>

FillSummary(p) ==
  /\ At(p, "fill")
  /\ summary' = [summary EXCEPT ![Here(p)] = run[p].text]
  /\ Marks(p) /\ Go(p, "mark")
  /\ UNCHANGED <<setting, desk, messages, checkpoint, cut, voices, errors, lastId>>

\* write_compaction_state.
MarkCheckpoint(p) ==
  /\ At(p, "mark")
  /\ checkpoint' = [checkpoint EXCEPT ![Here(p)] = Len(run[p].rows)]
  /\ Marks(p) /\ Done(p)
  /\ UNCHANGED <<setting, desk, messages, summary, cut, voices, errors, lastId>>

---------------------------------------------------------------------------
(* update_message_metadata: the file is read, and replaced as a whole *)

ReadRows ==
  /\ At("op", "rows")
  /\ LET rows == messages[Here("op")]
     IN IF \E k \in DOMAIN rows : rows[k].id = run["op"].reply
        THEN run' = [run EXCEPT !["op"].rows = rows, !["op"].stage = "replace"]
        ELSE run' = [run EXCEPT !["op"] = Idle]
  /\ UNCHANGED <<setting, desk, messages, kept, voices, errors, lastId>>

\* The directory of a session that was deleted meanwhile is gone.
ReplaceRows ==
  /\ At("op", "replace")
  /\ IF Here("op") \in live
     THEN messages' = [messages EXCEPT ![Here("op")] = run["op"].rows] /\ run' = [run EXCEPT !["op"] = Idle]
          /\ UNCHANGED errors
     ELSE FailTurn /\ UNCHANGED messages
  /\ Marks("op")
  /\ UNCHANGED <<setting, desk, summary, checkpoint, cut, voices, lastId>>

---------------------------------------------------------------------------
(* The window *)

Desk(what) ==
  /\ what \in setting.desk /\ At("ui", "idle") /\ setting.starts["ui"] > 0
  /\ setting' = [setting EXCEPT !.starts["ui"] = @ - 1]
  /\ UNCHANGED <<voices, cut, torn>>

NewSession ==
  /\ Desk("new")
  /\ \E s \in Sessions \ used : live' = live \cup {s} /\ used' = used \cup {s} /\ current' = s
  /\ UNCHANGED <<pinned, messages, summary, checkpoint, run, errors, lastId>>

SelectSession ==
  /\ Desk("select")
  /\ \E s \in live \ {current} : current' = s
  /\ UNCHANGED <<live, used, pinned, messages, summary, checkpoint, run, errors, lastId>>

TogglePin ==
  /\ Desk("pin")
  /\ \E s \in live : pinned' = IF s \in pinned THEN pinned \ {s} ELSE pinned \cup {s}
  /\ UNCHANGED <<live, used, current, messages, summary, checkpoint, run, errors, lastId>>

\* Mutant of DeleteSession: the session that is shown may be deleted too.
DeleteSession_Shown ==
  /\ Desk("delete")
  /\ \E s \in live :
       /\ live' = live \ {s} /\ pinned' = pinned \ {s}
       /\ messages' = [messages EXCEPT ![s] = << >>]
       /\ summary' = [summary EXCEPT ![s] = {}] /\ checkpoint' = [checkpoint EXCEPT ![s] = 0]
  /\ UNCHANGED <<used, current, run, errors, lastId>>

\* Any session but the one that is shown, whatever is under way in it.
DeleteSession ==
  /\ Desk("delete")
  /\ \E s \in live \ {current} :
       /\ live' = live \ {s} /\ pinned' = pinned \ {s}
       /\ messages' = [messages EXCEPT ![s] = << >>]
       /\ summary' = [summary EXCEPT ![s] = {}] /\ checkpoint' = [checkpoint EXCEPT ![s] = 0]
  /\ UNCHANGED <<used, current, run, errors, lastId>>

CompactSession ==
  /\ "compact" \in setting.works /\ At("ui", "idle") /\ setting.starts["ui"] > 0
  /\ setting' = [setting EXCEPT !.starts["ui"] = @ - 1]
  /\ run' = [run EXCEPT !["ui"] = [Idle EXCEPT !.work = "compact", !.stage = "measure", !.session = current]]
  /\ UNCHANGED <<desk, messages, kept, voices, errors, lastId>>

\* A failed turn: if the session shown ends with a question, it is told so.
ShowError ==
  \E s \in errors :
    /\ At("ui", "idle") /\ errors' = errors \ {s}
    /\ LET rows == messages[s]
       IN IF s = current /\ rows # << >> /\ rows[Len(rows)].role = "user" /\ "error" \in setting.desk
          THEN /\ lastId < MaxId /\ lastId' = lastId + 1
               /\ messages' = [messages EXCEPT ![s] = Append(@, [id |-> lastId + 1, role |-> "assistant"])]
          ELSE UNCHANGED <<messages, lastId>>
    /\ UNCHANGED <<setting, desk, kept, voices, run>>

\* A summary that was emptied is lost; a checkpoint that was emptied is read
\* as none; memories that were superseded stay so.
Crash ==
  /\ setting.crashes > 0
  /\ setting' = [setting EXCEPT !.crashes = @ - 1]
  /\ run' = [p \in Threads |-> Idle] /\ errors' = {}
  /\ \E lost \in SUBSET {Here(p) : p \in {q \in Threads : At(q, "mark")}} :
       checkpoint' = [s \in Sessions |-> IF s \in lost THEN 0 ELSE checkpoint[s]]
  /\ torn' = torn \cup {Here(p) : p \in {q \in Threads : At(q, "fill")}}
  /\ silenced' = IF At("op", "insert")
                 THEN silenced \cup {Topic(<<Head(run["op"].todo).content, Here("op")>>)} ELSE silenced
  /\ \E s \in Found("none") : current' = s
  /\ UNCHANGED <<live, used, pinned, messages, summary, memory, lastId, cut, spoken>>

Compact(p) == Measure(p) \/ Summarize(p) \/ ClearSummary(p) \/ FillSummary(p) \/ MarkCheckpoint(p)

Next ==
  \/ StartTurn \/ Ask \/ Work \/ Reply \/ Extract \/ Supersede \/ Insert \/ Remembered
  \/ \E p \in Threads : Compact(p)
  \/ ReadRows \/ ReplaceRows
  \/ NewSession \/ SelectSession \/ TogglePin \/ DeleteSession \/ CompactSession \/ ShowError \/ Crash

Spec == Init /\ [][Next]_vars

---------------------------------------------------------------------------
(* Properties *)

Message == [id: 1..MaxId, role: Roles]
RunState == [work: Works, stage: Stages, session: Sessions \cup {"none"}, reply: 0..MaxId, rows: Seq(Message),
             from: 0..MaxId, text: SUBSET (1..MaxId), todo: Seq(Candidate)]

\* The shape of the state.
TypeOK ==
  /\ setting \in Setting
  /\ live \subseteq used /\ used \subseteq Sessions /\ pinned \subseteq live /\ current \in live
  /\ messages \in [Sessions -> Seq(Message)]
  /\ summary \in [Sessions -> SUBSET (1..MaxId)] /\ checkpoint \in [Sessions -> 0..MaxId]
  /\ memory \in [Contents \X Sessions -> Status]
  /\ run \in [Threads -> RunState]
  /\ errors \subseteq Sessions /\ lastId \in 0..MaxId /\ cut \subseteq 1..MaxId /\ torn \subseteq Sessions

\* The text of a summary that is being written counts as written.
SummaryOf(s) ==
  summary[s] \cup UNION {run[p].text : p \in {q \in Threads : At(q, "fill") /\ Here(q) = s}}

\* No message is skipped: each one before the checkpoint was in the text some
\* summary was made from, and the summaries since were made from that one,
\* whatever failed and wherever the process died, apart from what exceeds the
\* window of a single compaction.  Excepted is a session whose summary was
\* lost half written, or that the window compacted while a turn compacted or
\* rewrote it (memory_compactor.py, session_store.py, qt_app.py compactSession).
CheckpointIsCovered ==
  \A s \in live \ torn : \A k \in 1..Smaller(checkpoint[s], Len(messages[s])) :
    messages[s][k].id \in SummaryOf(s) \cup cut

\* One voice per topic: never two decisions or preferences of one topic are
\* active, in whatever sessions they were said, and a topic that had one has
\* one still, unless the item that replaced it waits for an approval or the
\* process died before it was stored (memory_store.py add_memory).
OneVoice ==
  \A k \in {"decision", "preference"}, t \in Topics :
    LET said == {r \in Contents \X Sessions : memory[r] = "active" /\ Topic(r) = <<k, t>>}
    IN /\ Cardinality(said) <= 1
       /\ <<k, t>> \in spoken \ silenced =>
            said # {} \/ (At("op", "insert") /\ Topic(<<Head(run["op"].todo).content, Here("op")>>) = <<k, t>>)
=============================================================================
