---------------------------- MODULE MemoryProofs ----------------------------
(***************************************************************************)
(* Proofs about what the assistant remembers: first its sessions and       *)
(* memories (the state keeps its types, every topic keeps one voice, and   *)
(* the checkpoint of a compaction is covered by the summary), then its     *)
(* documents (the state keeps its types, no answer cites two versions of a *)
(* path, vectors match their label, and what is reported as indexed is     *)
(* found).                                                                 *)
(***************************************************************************)
EXTENDS Conversation, DocumentIndex, SequenceTheorems, FiniteSetTheorems, TLAPS

-----------------------------------------------------------------------------
(* The invariant.                                                          *)

SettingOK == setting \in Setting
DeskOK == live \subseteq used /\ used \subseteq Sessions /\ pinned \subseteq live /\ current \in live
\* A file of messages is no longer than the messages that were written.
LogOK ==
  /\ lastId \in 0..MaxId
  /\ messages \in [Sessions -> Seq(Message)]
  /\ \A s \in Sessions : Len(messages[s]) <= lastId
KeptOK ==
  /\ summary \in [Sessions -> SUBSET (1..MaxId)] /\ checkpoint \in [Sessions -> 0..MaxId]
  /\ cut \subseteq 1..MaxId /\ torn \subseteq Sessions
ErrorsOK == errors \subseteq Sessions
MemoryOK == memory \in [Contents \X Sessions -> Status]
\* A thread that is at work is so in a session.
RowOK(row) ==
  /\ row \in RunState
  /\ Len(row.rows) <= lastId
  /\ row.stage # "idle" => row.session \in Sessions
RunOK == run \in [Threads -> RunState] /\ \A p \in Threads : RowOK(run[p])

\* What a memory speaks about, and the topic whose new memory is not stored yet.
Speaks(r) == memory[r] = "active" /\ setting.kind[r[1]] # "other"
Next1 == <<Head(run["op"].todo).content, Here("op")>>
Inserting(k, t) == At("op", "insert") /\ Topic(Next1) = <<k, t>>

\* No two memories speak of one topic, none of the topic of the memory that is
\* about to be stored, and a topic that was spoken of is not silent.
VoiceOK ==
  /\ \A r1, r2 \in Contents \X Sessions : Speaks(r1) /\ Speaks(r2) /\ Topic(r1) = Topic(r2) => r1 = r2
  /\ At("op", "insert") =>
       /\ run["op"].todo # << >>
       /\ \A r \in Contents \X Sessions : Speaks(r) => Topic(r) # Topic(Next1)
  /\ \A k \in {"decision", "preference"}, t \in Topics :
       <<k, t>> \in spoken \ silenced =>
         (\E r \in Contents \X Sessions : memory[r] = "active" /\ Topic(r) = <<k, t>>) \/ Inserting(k, t)

Inv == SettingOK /\ DeskOK /\ LogOK /\ KeptOK /\ ErrorsOK /\ MemoryOK /\ RunOK /\ VoiceOK

-----------------------------------------------------------------------------
(* Rows of the threads.                                                    *)

\* What the actions make of a row.
Replied(row, st, n) == [row EXCEPT !.stage = st, !.reply = n]
WithTodo(row, st, todo) == [row EXCEPT !.todo = todo, !.stage = st]
WithTail(row, todo) == [row EXCEPT !.todo = todo]
Measured(row, rows, n, text, st) == [row EXCEPT !.rows = rows, !.from = n, !.text = text, !.stage = st]
WithText(row, text, st) == [row EXCEPT !.text = text, !.stage = st]
WithRows(row, rows, st) == [row EXCEPT !.rows = rows, !.stage = st]
Started(work, st, s) == [Idle EXCEPT !.work = work, !.stage = st, !.session = s]

\* A thread that is idle.
LEMMA IdleType == Idle \in RunState /\ Idle.stage = "idle" /\ Idle.rows = << >>
<1>1. << >> \in Seq(Message) /\ << >> \in Seq(Candidate)
  BY EmptySeq
<1>2. 0 \in 0..MaxId /\ {} \in SUBSET (1..MaxId)
  BY ConversationAssumption
<1> QED BY <1>1, <1>2 DEF Idle, RunState, Works, Stages

\* The parts of a row, and what the writes to it leave.
LEMMA RowParts ==
  ASSUME NEW row \in RunState
  PROVE  /\ row.rows \in Seq(Message) /\ row.from \in 0..MaxId /\ row.text \in SUBSET (1..MaxId)
         /\ row.todo \in Seq(Candidate) /\ row.stage \in Stages /\ row.session \in Sessions \cup {"none"}
BY DEF RunState

\* Go writes the stage alone.
LEMMA StageWrite ==
  ASSUME NEW row \in RunState, NEW st \in Stages
  PROVE  LET r == [row EXCEPT !.stage = st]
         IN r \in RunState /\ r.stage = st /\ r.session = row.session /\ r.rows = row.rows /\ r.todo = row.todo
BY DEF RunState

\* A message that was appended is noted with the stage.
LEMMA ReplyWrite ==
  ASSUME NEW row \in RunState, NEW st \in Stages, NEW n \in 0..MaxId
  PROVE  LET r == Replied(row, st, n)
         IN r \in RunState /\ r.stage = st /\ r.session = row.session /\ r.rows = row.rows
BY DEF RunState, Replied

\* The extractor and the storing of an item rewrite the list of items and the stage.
LEMMA TodoWrite ==
  ASSUME NEW row \in RunState, NEW st \in Stages, NEW todo \in Seq(Candidate)
  PROVE  LET r == WithTodo(row, st, todo)
         IN r \in RunState /\ r.stage = st /\ r.session = row.session /\ r.rows = row.rows
BY DEF RunState, WithTodo

\* An item that is known already is dropped.
LEMMA TailWrite ==
  ASSUME NEW row \in RunState, NEW todo \in Seq(Candidate)
  PROVE  LET r == WithTail(row, todo)
         IN r \in RunState /\ r.stage = row.stage /\ r.session = row.session /\ r.rows = row.rows
BY DEF RunState, WithTail

\* compact_if_needed reads the messages, the checkpoint and the summary.
LEMMA MeasureWrite ==
  ASSUME NEW row \in RunState, NEW rows \in Seq(Message), NEW n \in 0..MaxId, NEW text \in SUBSET (1..MaxId),
         NEW st \in Stages
  PROVE  LET r == Measured(row, rows, n, text, st)
         IN r \in RunState /\ r.stage = st /\ r.session = row.session /\ r.rows = rows
BY DEF RunState, Measured

\* _summarize makes the text.
LEMMA TextWrite ==
  ASSUME NEW row \in RunState, NEW text \in SUBSET (1..MaxId), NEW st \in Stages
  PROVE  LET r == WithText(row, text, st)
         IN r \in RunState /\ r.stage = st /\ r.session = row.session /\ r.rows = row.rows
BY DEF RunState, WithText

\* update_message_metadata reads the messages.
LEMMA RowsWrite ==
  ASSUME NEW row \in RunState, NEW rows \in Seq(Message), NEW st \in Stages
  PROVE  LET r == WithRows(row, rows, st)
         IN r \in RunState /\ r.stage = st /\ r.session = row.session /\ r.rows = rows
BY DEF RunState, WithRows

\* A thread that starts to work in a session.
LEMMA StartRow ==
  ASSUME NEW work \in Works, NEW st \in Stages, NEW s \in Sessions
  PROVE  LET r == Started(work, st, s)
         IN r \in RunState /\ r.stage = st /\ r.session = s /\ r.rows = << >>
<1>1. << >> \in Seq(Message) /\ << >> \in Seq(Candidate)
  BY EmptySeq
<1>2. 0 \in 0..MaxId /\ {} \in SUBSET (1..MaxId)
  BY ConversationAssumption
<1> QED BY <1>1, <1>2 DEF Idle, RunState, Started

\* A thread moves, and the messages may have become more.
LEMMA RunMove ==
  ASSUME RunOK, LogOK, LogOK', lastId <= lastId', NEW p \in Threads, NEW row \in RunState,
         run' = [run EXCEPT ![p] = row], Len(row.rows) <= lastId',
              row.stage # "idle" => row.session \in Sessions
  PROVE  RunOK' /\ run'[p] = row /\ \A q \in Threads : q # p => run'[q] = run[q]
<1>1. run' \in [Threads -> RunState] /\ run'[p] = row /\ \A q \in Threads : q # p => run'[q] = run[q]
  BY DEF RunOK
<1>2. lastId \in Nat /\ lastId' \in Nat
  BY ConversationAssumption DEF LogOK
<1>3. ASSUME NEW q \in Threads PROVE RowOK(run[q])'
  <2>1. CASE q = p
    BY <1>1, <2>1 DEF RowOK
  <2>2. CASE q # p
    <3>1. run'[q] = run[q] /\ RowOK(run[q])
      BY <1>1, <2>2 DEF RunOK
    <3>2. Len(run[q].rows) \in Nat
      BY <3>1, RowParts, LenProperties DEF RowOK
    <3> QED BY <1>2, <3>1, <3>2 DEF RowOK
  <2> QED BY <2>1, <2>2
<1> QED BY <1>1, <1>3 DEF RunOK

\* The messages stay as they are.
LEMMA LogStays ==
  ASSUME LogOK, UNCHANGED <<messages, lastId>>
  PROVE  LogOK' /\ lastId <= lastId'
BY ConversationAssumption DEF LogOK

\* Neither does a thread that does not move.
LEMMA RunStays ==
  ASSUME RunOK, LogOK, LogOK', lastId <= lastId', UNCHANGED run
  PROVE  RunOK'
<1>1. lastId \in Nat /\ lastId' \in Nat
  BY ConversationAssumption DEF LogOK
<1>2. \A p \in Threads : Len(run[p].rows) \in Nat /\ Len(run[p].rows) <= lastId
  BY RowParts, LenProperties DEF RowOK, RunOK
<1> QED BY <1>1, <1>2 DEF RowOK, RunOK

\* Go moves a thread to a stage.
LEMMA GoMoves ==
  ASSUME RunOK, LogOK, LogOK', lastId <= lastId', NEW p \in Threads, run[p].stage # "idle",
         NEW st \in Stages, Go(p, st)
  PROVE  /\ RunOK' /\ run'[p].stage = st /\ run'[p].todo = run[p].todo /\ run'[p].session = run[p].session
         /\ \A q \in Threads : q # p => run'[q] = run[q]
<1> DEFINE row == [run[p] EXCEPT !.stage = st]
<1>1. run[p] \in RunState /\ RowOK(run[p])
  BY DEF RunOK
<1>3. row \in RunState /\ row.stage = st /\ row.session = run[p].session /\ row.rows = run[p].rows
       /\ row.todo = run[p].todo
  BY <1>1, StageWrite
<1>4. run' = [run EXCEPT ![p] = row]
  BY DEF Go
<1>5. Len(run[p].rows) <= lastId' /\ run[p].session \in Sessions
  <2>1. Len(run[p].rows) \in Nat /\ lastId \in Nat /\ lastId' \in Nat
    BY <1>1, RowParts, LenProperties, ConversationAssumption DEF LogOK
  <2> QED BY <1>1, <2>1 DEF RowOK
<1> HIDE DEF row
<1> QED BY <1>3, <1>4, <1>5, RunMove

\* A thread becomes idle.
LEMMA IdleMoves ==
  ASSUME RunOK, LogOK, LogOK', lastId <= lastId', NEW p \in Threads, run' = [run EXCEPT ![p] = Idle]
  PROVE  RunOK' /\ run'[p].stage = "idle" /\ \A q \in Threads : q # p => run'[q] = run[q]
<1>1. Len(<< >>) <= lastId'
  BY ConversationAssumption DEF LogOK
<1> QED BY <1>1, IdleType, RunMove

\* The numbers of a setting go down.
LEMMA SettingMoves ==
  ASSUME SettingOK
  PROVE  /\ \A p \in Threads : setting.starts[p] > 0 /\ setting' = [setting EXCEPT !.starts[p] = @ - 1] =>
              SettingOK' /\ setting'.kind = setting.kind /\ setting'.topic = setting.topic
         /\ setting.crashes > 0 /\ setting' = [setting EXCEPT !.crashes = @ - 1] =>
              SettingOK' /\ setting'.kind = setting.kind /\ setting'.topic = setting.topic
<1>1. ASSUME NEW s \in Setting, NEW f \in [Threads -> 0..9]
      PROVE  LET q == [s EXCEPT !.starts = f] IN q \in Setting /\ q.kind = s.kind /\ q.topic = s.topic
  BY DEF Setting
<1>2. ASSUME NEW s \in Setting, NEW n \in 0..2
      PROVE  LET q == [s EXCEPT !.crashes = n] IN q \in Setting /\ q.kind = s.kind /\ q.topic = s.topic
  BY DEF Setting
<1>3. setting \in Setting /\ setting.starts \in [Threads -> 0..9] /\ setting.crashes \in 0..2
  BY DEF SettingOK, Setting
<1>4. ASSUME NEW p \in Threads,
       setting.starts[p] > 0 PROVE [setting.starts EXCEPT ![p] = @ - 1] \in [Threads -> 0..9]
  BY <1>3, <1>4
<1>5. setting.crashes > 0 => setting.crashes - 1 \in 0..2
  BY <1>3
<1>6. ASSUME NEW p \in Threads, setting.starts[p] > 0, setting' = [setting EXCEPT !.starts[p] = @ - 1]
      PROVE  SettingOK' /\ setting'.kind = setting.kind /\ setting'.topic = setting.topic
  <2> DEFINE f == [setting.starts EXCEPT ![p] = @ - 1]
  <2>1. f \in [Threads -> 0..9]
    BY <1>4, <1>6
  <2>2. setting' = [setting EXCEPT !.starts = f]
    BY <1>6
  <2> HIDE DEF f
  <2> QED BY <1>1, <1>3, <2>1, <2>2 DEF SettingOK
<1>7. setting.crashes > 0 /\ setting' = [setting EXCEPT !.crashes = @ - 1] =>
        SettingOK' /\ setting'.kind = setting.kind /\ setting'.topic = setting.topic
  BY <1>2, <1>3, <1>5 DEF SettingOK
<1> QED BY <1>6, <1>7

\* No memory is written.
LEMMA VoiceStays ==
  ASSUME VoiceOK, UNCHANGED voices, setting'.kind = setting.kind, setting'.topic = setting.topic,
         \/ run'["op"] = run["op"]
         \/ run["op"].stage # "insert" /\ run'["op"].stage # "insert"
  PROVE  VoiceOK'
BY DEF VoiceOK, voices, Speaks, Topic, Inserting, At, Next1, Here

\* get_or_create finds a session that exists.
LEMMA FoundLives ==
  ASSUME DeskOK, NEW s, NEW u \in Found(s)
  PROVE  u \in live /\ u \in Sessions
BY DEF DeskOK, Found

-----------------------------------------------------------------------------
(* The actions.                                                            *)

\* The two threads.
LEMMA Two == "op" \in Threads /\ "ui" \in Threads
BY DEF Threads

\* What the rows of a thread look like in the invariant.
LEMMA RunFacts ==
  ASSUME RunOK, LogOK, NEW p \in Threads
  PROVE  /\ run[p] \in RunState /\ Len(run[p].rows) <= lastId
         /\ run[p].stage # "idle" => run[p].session \in Sessions
         /\ run[p].rows \in Seq(Message) /\ run[p].from \in 0..MaxId /\ run[p].text \in SUBSET (1..MaxId)
         /\ run[p].todo \in Seq(Candidate) /\ Len(run[p].rows) \in 0..MaxId
<1>1. run[p] \in RunState /\ Len(run[p].rows) <= lastId
       /\ (run[p].stage # "idle" => run[p].session \in Sessions)
  BY DEF RunOK, RowOK
<1>2. Len(run[p].rows) \in Nat
  BY <1>1, RowParts, LenProperties
<1>3. Len(run[p].rows) \in 0..MaxId
  BY <1>1, <1>2, ConversationAssumption DEF LogOK
<1> QED BY <1>1, <1>3, RowParts

\* A message is appended: the file and the count grow together.
LEMMA LogGrows ==
  ASSUME LogOK, lastId < MaxId, lastId' = lastId + 1, NEW s \in Sessions, NEW role \in Roles,
         messages' = [messages EXCEPT ![s] = Append(@, [id |-> lastId + 1, role |-> role])]
  PROVE  LogOK' /\ lastId <= lastId' /\ lastId + 1 \in 0..MaxId
<1> DEFINE m == [id |-> lastId + 1, role |-> role]
<1>1. lastId \in Nat /\ lastId + 1 \in 1..MaxId /\ lastId + 1 \in 0..MaxId
  BY ConversationAssumption DEF LogOK
<1>2. m \in Message
  BY <1>1 DEF Message
<1>3. messages[s] \in Seq(Message)
  BY DEF LogOK
<1>4. messages' = [messages EXCEPT ![s] = Append(messages[s], m)]
  OBVIOUS
<1> HIDE DEF m
<1>5. Append(messages[s], m) \in Seq(Message) /\ Len(Append(messages[s], m)) = Len(messages[s]) + 1
  BY <1>2, <1>3, AppendProperties
<1>6. \A u \in Sessions : Len(messages[u]) \in Nat /\ Len(messages[u]) <= lastId
  BY LenProperties DEF LogOK
<1>7. \A u \in Sessions : messages'[u] \in Seq(Message) /\ Len(messages'[u]) <= lastId + 1
  BY <1>1, <1>4, <1>5, <1>6 DEF LogOK
<1>8. messages' \in [Sessions -> Seq(Message)]
  BY <1>4, <1>5 DEF LogOK
<1> QED BY <1>1, <1>7, <1>8 DEF LogOK

\* append_message writes a message and moves the turn on.
LEMMA AppendMoves ==
  ASSUME Inv, NEW role \in Roles, NEW st \in Stages, run["op"].stage # "idle", Append2(role, st)
  PROVE  LogOK' /\ RunOK' /\ run'["op"].stage = st
<1> PICK s \in Found(Here("op")) :
      messages' = [messages EXCEPT ![s] = Append(@, [id |-> lastId + 1, role |-> role])]
  BY DEF Append2
<1>1. s \in Sessions
  BY FoundLives DEF Inv
<1>2. LogOK' /\ lastId <= lastId' /\ lastId + 1 \in 0..MaxId
  BY <1>1, LogGrows DEF Inv, Append2
<1> DEFINE row == Replied(run["op"], st, lastId + 1)
<1>3. run["op"] \in RunState /\ Len(run["op"].rows) <= lastId' /\ run["op"].session \in Sessions
  <2>1. lastId \in Nat /\ lastId' \in Nat /\ Len(run["op"].rows) \in Nat
    BY <1>2, Two, RunFacts, ConversationAssumption DEF Inv, LogOK
  <2> QED BY <1>2, <2>1, Two, RunFacts DEF Inv
<1>4. row \in RunState /\ row.stage = st /\ row.session = run["op"].session /\ row.rows = run["op"].rows
  BY <1>2, <1>3, ReplyWrite
<1>5. run' = [run EXCEPT !["op"] = row]
  BY Two DEF Append2, Inv, RunOK, RunState, Replied
<1> HIDE DEF row
<1> QED BY <1>2, <1>3, <1>4, <1>5, Two, RunMove DEF Inv

\* The turn fails, and its session is told to the window.
LEMMA FailMoves ==
  ASSUME Inv, run["op"].stage # "idle", FailTurn, UNCHANGED <<messages, lastId>>
  PROVE  RunOK' /\ ErrorsOK' /\ run'["op"].stage = "idle"
<1>1. LogOK' /\ lastId <= lastId'
  BY LogStays DEF Inv
<1>2. RunOK' /\ run'["op"].stage = "idle"
  BY <1>1, Two, IdleMoves DEF Inv, FailTurn
<1>3. run["op"].session \in Sessions
  BY Two, RunFacts DEF Inv
<1> QED BY <1>2, <1>3 DEF Inv, ErrorsOK, FailTurn, Here

\* The stages, works and roles that the actions name.
LEMMA StagesKnown ==
  {"idle", "ask", "work", "reply", "extract", "remember", "insert", "measure", "summarize",
   "clear", "fill", "mark", "rows", "replace"} \subseteq Stages /\ {"answer", "image",
        "compact"} \subseteq Works
  /\ {"user", "assistant", "tool"} \subseteq Roles
BY DEF Stages, Works, Roles

\* A turn begins.
LEMMA StartTurnStep ==
  ASSUME Inv, StartTurn
  PROVE  Inv'
<1> PICK work \in setting.works \cap {"answer", "image"}, asked \in used :
      /\ At("op", "idle") /\ setting.starts["op"] > 0
      /\ setting' = [setting EXCEPT !.starts["op"] = @ - 1]
      /\ \E s \in Found(asked) :
           run' = [run EXCEPT !["op"] = [Idle EXCEPT !.work = work, !.stage = "ask", !.session = s]]
      /\ UNCHANGED <<desk, messages, kept, voices, errors, lastId>>
  BY DEF StartTurn
<1> PICK s \in Found(asked) :
      run' = [run EXCEPT !["op"] = [Idle EXCEPT !.work = work, !.stage = "ask", !.session = s]]
  OBVIOUS
<1> DEFINE row == Started(work, "ask", s)
<1>1. s \in Sessions
  BY FoundLives DEF Inv
<1>0. work \in Works /\ "ask" \in Stages
  BY DEF Works, Stages
<1>2. row \in RunState /\ row.stage = "ask" /\ row.session = s /\ row.rows = << >>
  BY <1>0, <1>1, StartRow
<1>3. LogOK' /\ lastId <= lastId' /\ Len(<< >>) <= lastId'
  BY LogStays, ConversationAssumption DEF Inv, LogOK
<1>4. run' = [run EXCEPT !["op"] = row]
  BY DEF Started
<1> HIDE DEF row
<1>5. RunOK' /\ run'["op"].stage = "ask"
  BY <1>1, <1>2, <1>3, <1>4, Two, RunMove DEF Inv
<1>6. SettingOK' /\ setting'.kind = setting.kind /\ setting'.topic = setting.topic
  BY Two, SettingMoves DEF Inv
<1>7. VoiceOK'
  BY <1>5, <1>6, VoiceStays DEF Inv, At
<1> QED BY <1>3, <1>5, <1>6, <1>7 DEF Inv, DeskOK, KeptOK, ErrorsOK, MemoryOK, desk, kept, voices

\* The question is written.
LEMMA AskStep ==
  ASSUME Inv, Ask
  PROVE  Inv'
<1>1. LogOK' /\ RunOK' /\ run'["op"].stage = "work" /\ run["op"].stage = "ask"
  BY StagesKnown, AppendMoves DEF Ask, At
<1>2. VoiceOK'
  BY <1>1, VoiceStays DEF Inv, Ask
<1> QED BY <1>1, <1>2 DEF Ask, Inv, SettingOK, DeskOK, KeptOK, ErrorsOK, MemoryOK, desk, kept, voices

\* The answer is written.
LEMMA ReplyStep ==
  ASSUME Inv, Reply
  PROVE  Inv'
<1> DEFINE st == IF run["op"].work = "image" THEN "idle" ELSE "extract"
<1>1. LogOK' /\ RunOK' /\ run'["op"].stage = st /\ run["op"].stage = "reply"
  BY StagesKnown, AppendMoves DEF Reply, At
<1>2. VoiceOK'
  BY <1>1, VoiceStays DEF Inv, Reply
<1> QED BY <1>1, <1>2 DEF Reply, Inv, SettingOK, DeskOK, KeptOK, ErrorsOK, MemoryOK, desk, kept, voices

\* The answer is worked out, or the turn fails.
LEMMA WorkStep ==
  ASSUME Inv, Work
  PROVE  Inv'
<1>1. LogOK' /\ RunOK' /\ ErrorsOK' /\ run'["op"].stage # "insert" /\ run["op"].stage = "work"
  <2>1. run["op"].stage = "work"
    BY DEF Work, At
  <2>2. CASE Go("op", "reply") /\ UNCHANGED <<messages, lastId, errors>>
    <3>1. LogOK' /\ lastId <= lastId'
      BY <2>2, LogStays DEF Inv
    <3> QED BY <2>1, <2>2, <3>1, Two, StagesKnown, GoMoves DEF Inv, ErrorsOK
  <2>3. CASE Append2("tool", "reply") /\ UNCHANGED errors
    BY <2>1, <2>3, StagesKnown, AppendMoves DEF Inv, ErrorsOK
  <2>4. CASE FailTurn /\ UNCHANGED <<messages, lastId>>
    BY <2>1, <2>4, FailMoves, LogStays DEF Inv
  <2> QED BY <2>1, <2>2, <2>3, <2>4 DEF Work
<1>2. VoiceOK'
  BY <1>1, VoiceStays DEF Inv, Work
<1> QED BY <1>1, <1>2 DEF Work, Inv, SettingOK, DeskOK, KeptOK, MemoryOK, desk, kept, voices

\* The extractor lists what may be remembered.
LEMMA ExtractStep ==
  ASSUME Inv, Extract
  PROVE  Inv'
<1>0. run["op"].stage = "extract" /\ run["op"] \in RunState /\ Len(run["op"].rows) <= lastId
      /\ run["op"].session \in Sessions
  BY Two, RunFacts DEF Extract, At, Inv
<1>1. LogOK' /\ lastId <= lastId' /\ lastId' = lastId
  BY LogStays DEF Extract, Inv
<1>s. "remember" \in Stages
  BY DEF Stages
<1>2. CASE \E todo \in setting.candidates \cup {<< >>} :
             run' = [run EXCEPT !["op"].todo = todo, !["op"].stage = "remember"] /\ UNCHANGED errors
  <2> PICK todo \in setting.candidates \cup {<< >>} :
             run' = [run EXCEPT !["op"].todo = todo, !["op"].stage = "remember"] /\ UNCHANGED errors
    BY <1>2
  <2> DEFINE row == WithTodo(run["op"], "remember", todo)
  <2>1. todo \in Seq(Candidate)
    <3>1. << >> \in Seq(Candidate)
      BY EmptySeq
    <3>2. setting.candidates \in SUBSET Seq(Candidate)
      BY DEF Inv, SettingOK, Setting
    <3> QED BY <3>1, <3>2
  <2>2. row \in RunState /\ row.stage = "remember" /\ row.session = run["op"].session
       /\ row.rows = run["op"].rows
    BY <1>0, <1>s, <2>1, TodoWrite
  <2>3. run' = [run EXCEPT !["op"] = row]
    BY Two DEF Inv, RunOK, RunState, WithTodo
  <2> HIDE DEF row
  <2>4. RunOK' /\ run'["op"].stage = "remember"
    BY <1>0, <1>1, <2>2, <2>3, Two, RunMove DEF Inv
  <2>5. VoiceOK'
    BY <1>0, <2>4, VoiceStays DEF Inv, Extract
  <2> QED BY <1>1, <2>4, <2>5 DEF Extract, Inv, SettingOK, DeskOK, KeptOK, ErrorsOK, MemoryOK, desk, kept,
       voices
<1>3. CASE FailTurn
  <2>1. RunOK' /\ ErrorsOK' /\ run'["op"].stage = "idle"
    BY <1>0, <1>3, FailMoves DEF Extract
  <2>2. VoiceOK'
    BY <1>0, <2>1, VoiceStays DEF Inv, Extract
  <2> QED BY <1>1, <2>1, <2>2 DEF Extract, Inv, SettingOK, DeskOK, KeptOK, MemoryOK, desk, kept, voices
<1> QED BY <1>2, <1>3 DEF Extract

\* The memory that comes next is one that may be remembered in the session.
LEMMA NextFacts ==
  ASSUME Inv, run["op"].stage # "idle", run["op"].todo # << >>
  PROVE  /\ Next1 \in Contents \X Sessions
         /\ Head(run["op"].todo) \in Candidate /\ Tail(run["op"].todo) \in Seq(Candidate)
         /\ Topic(Next1) = <<setting.kind[Head(run["op"].todo).content],
              setting.topic[Head(run["op"].todo).content]>>
<1>1. run["op"].todo \in Seq(Candidate) /\ run["op"].session \in Sessions
  BY Two, RunFacts DEF Inv
<1>2. Head(run["op"].todo) \in Candidate /\ Tail(run["op"].todo) \in Seq(Candidate)
  BY <1>1, HeadTailProperties
<1>3. Head(run["op"].todo).content \in Contents
  BY <1>2 DEF Candidate
<1> QED BY <1>1, <1>2, <1>3 DEF Next1, Here, Topic

\* What an item contradicts are the memories that speak of its topic.
LEMMA ConflictsSpeak ==
  ASSUME NEW c, NEW r \in Contents \X Sessions
  PROVE  r \in Conflicts(c) <=>
           /\ memory[r] = "active" /\ setting.kind[c.content] # "other"
           /\ Topic(r) = <<setting.kind[c.content], setting.topic[c.content]>>
BY DEF Conflicts, Topic

\* What a new item contradicts is superseded: its topic is silent until it is stored.
LEMMA SupersedeStep ==
  ASSUME Inv, Supersede
  PROVE  Inv'
<1> DEFINE c == Head(run["op"].todo)
<1>0. run["op"].stage = "remember" /\ run["op"].todo # << >> /\ run["op"] \in RunState
      /\ Len(run["op"].rows) <= lastId /\ run["op"].session \in Sessions
  BY Two, RunFacts DEF Supersede, At, Inv
<1>1. LogOK' /\ lastId <= lastId' /\ lastId' = lastId
  BY LogStays DEF Supersede, Inv
<1>f. Next1 \in Contents \X Sessions /\ Tail(run["op"].todo) \in Seq(Candidate)
      /\ Topic(Next1) = <<setting.kind[c.content], setting.topic[c.content]>>
  BY <1>0, NextFacts
<1>2. CASE run' = [run EXCEPT !["op"].todo = Tail(@)] /\ UNCHANGED memory
  <2> DEFINE row == WithTail(run["op"], Tail(run["op"].todo))
  <2>1. row \in RunState /\ row.stage = "remember" /\ row.session = run["op"].session
       /\ row.rows = run["op"].rows
    BY <1>0, <1>f, TailWrite
  <2>2. run' = [run EXCEPT !["op"] = row]
    BY <1>2, Two DEF Inv, RunOK, RunState, WithTail
  <2> HIDE DEF row
  <2>3. RunOK' /\ run'["op"].stage = "remember"
    BY <1>0, <1>1, <2>1, <2>2, Two, RunMove DEF Inv
  <2>4. VoiceOK'
    BY <1>0, <1>2, <2>3, VoiceStays DEF Inv, Supersede, voices
  <2> QED BY <1>1, <1>2, <2>3, <2>4 DEF Supersede, Inv, SettingOK, DeskOK, KeptOK, ErrorsOK, MemoryOK, desk,
       kept
<1>3. CASE /\ memory' = [r \in Contents \X Sessions |-> IF r \in Conflicts(c) THEN "superseded" ELSE memory[r]]
           /\ Go("op", "insert")
  <2>1. /\ RunOK' /\ run'["op"].stage = "insert" /\ run'["op"].todo = run["op"].todo
        /\ run'["op"].session = run["op"].session
    BY <1>0, <1>1, <1>3, Two, StagesKnown, GoMoves DEF Inv
  <2>2. MemoryOK'
    BY <1>3 DEF Inv, MemoryOK, Status
  <2>3. Next1' = Next1 /\ Topic(Next1)' = Topic(Next1) /\ \A r : Topic(r)' = Topic(r)
    BY <2>1 DEF Next1, Here, Topic, Supersede
  <2>4. \A r \in Contents \X Sessions :
          memory'[r] = "active" <=> memory[r] = "active" /\ r \notin Conflicts(c)
    BY <1>3
  <2>5. \A r1, r2 \in Contents \X Sessions : Speaks(r1)' /\ Speaks(r2)' /\ Topic(r1)' = Topic(r2)' => r1 = r2
    BY <2>3, <2>4 DEF Inv, VoiceOK, Speaks, Supersede
  <2>6. \A r \in Contents \X Sessions : Speaks(r)' => Topic(r)' # Topic(Next1)'
    <3> SUFFICES ASSUME NEW r \in Contents \X Sessions, Speaks(r)', Topic(r)' = Topic(Next1)'
                 PROVE  FALSE
      OBVIOUS
    <3>1. memory[r] = "active" /\ r \notin Conflicts(c) /\ setting.kind[r[1]] # "other"
      BY <2>4 DEF Speaks, Supersede
    <3>2. Topic(r) = <<setting.kind[c.content], setting.topic[c.content]>>
      BY <1>f, <2>3
    <3>3. setting.kind[c.content] # "other"
      BY <3>1, <3>2 DEF Topic
    <3> QED BY <3>1, <3>2, <3>3, ConflictsSpeak
  <2>7. ASSUME NEW k \in {"decision", "preference"}, NEW t \in Topics, <<k, t>> \in (spoken \ silenced)'
        PROVE  (\E r \in Contents \X Sessions : memory'[r] = "active" /\ Topic(r)' = <<k, t>>) \/ Inserting(k,
             t)'
    <3>1. PICK r \in Contents \X Sessions : memory[r] = "active" /\ Topic(r) = <<k, t>>
      BY <1>0, <2>7 DEF Inv, VoiceOK, Inserting, At, Supersede
    <3>2. CASE r \in Conflicts(c)
      <4>1. Topic(Next1)' = <<k, t>>
        BY <1>f, <2>3, <3>1, <3>2, ConflictsSpeak
      <4> QED BY <2>1, <4>1 DEF Inserting, At
    <3>3. CASE r \notin Conflicts(c)
      BY <2>3, <2>4, <3>1, <3>3
    <3> QED BY <3>2, <3>3
  <2>8. VoiceOK'
    BY <1>0, <2>1, <2>5, <2>6, <2>7 DEF VoiceOK
  <2> QED BY <1>1, <2>1, <2>2, <2>8 DEF Supersede, Inv, SettingOK, DeskOK, KeptOK, ErrorsOK, desk, kept
<1> QED BY <1>2, <1>3 DEF Supersede

\* The item is stored, where no other memory speaks of its topic.
LEMMA InsertStep ==
  ASSUME Inv, Insert
  PROVE  Inv'
<1> DEFINE c == Head(run["op"].todo)
<1>0. run["op"].stage = "insert" /\ run["op"].todo # << >> /\ run["op"] \in RunState
      /\ Len(run["op"].rows) <= lastId /\ run["op"].session \in Sessions
  BY Two, RunFacts DEF Insert, At, Inv, VoiceOK
<1>1. LogOK' /\ lastId <= lastId' /\ lastId' = lastId
  BY LogStays DEF Insert, Inv
<1>f. Next1 \in Contents \X Sessions /\ Tail(run["op"].todo) \in Seq(Candidate)
  BY <1>0, NextFacts
<1>2. /\ memory' = [memory EXCEPT ![Next1] = StatusOf(c)]
      /\ IF StatusOf(c) = "active" THEN spoken' = spoken \cup {Topic(Next1)}
           /\ silenced' = silenced \ {Topic(Next1)}
         ELSE silenced' = silenced \cup {Topic(Next1)} /\ UNCHANGED spoken
      /\ run' = [run EXCEPT !["op"].todo = Tail(@), !["op"].stage = "remember"]
  BY DEF Insert, Next1
<1>s. "remember" \in Stages
  BY DEF Stages
<1>3. RunOK' /\ run'["op"].stage = "remember"
  <2> DEFINE todo == Tail(run["op"].todo)
             row == WithTodo(run["op"], "remember", todo)
  <2>0. todo \in Seq(Candidate)
    BY <1>f
  <2>2. run' = [run EXCEPT !["op"] = row]
    BY <1>2, Two DEF Inv, RunOK, RunState, WithTodo
  <2> HIDE DEF todo
  <2>1. row \in RunState /\ row.stage = "remember" /\ row.session = run["op"].session
       /\ row.rows = run["op"].rows
    BY <1>0, <1>s, <2>0, TodoWrite
  <2> HIDE DEF row
  <2> QED BY <1>0, <1>1, <2>1, <2>2, Two, RunMove DEF Inv
<1>4. MemoryOK'
  <2>1. StatusOf(c) \in Status
    BY DEF StatusOf, Status
  <2> QED BY <1>2, <2>1 DEF Inv, MemoryOK
<1>5. /\ memory'[Next1] = StatusOf(c)
      /\ \A r \in Contents \X Sessions : r # Next1 => memory'[r] = memory[r]
  BY <1>2, <1>f DEF Inv, MemoryOK
<1>6. \A r : Topic(r)' = Topic(r) /\ setting' = setting
  BY DEF Topic, Insert
<1>7. \A r \in Contents \X Sessions : Speaks(r) => Topic(r) # Topic(Next1)
  BY <1>0 DEF Inv, VoiceOK, At
<1> HIDE DEF c
<1>8. \A r1, r2 \in Contents \X Sessions : Speaks(r1)' /\ Speaks(r2)' /\ Topic(r1)' = Topic(r2)' => r1 = r2
  BY <1>5, <1>6, <1>7 DEF Inv, VoiceOK, Speaks
<1>9. ASSUME NEW k \in {"decision", "preference"}, NEW t \in Topics, <<k, t>> \in (spoken \ silenced)'
      PROVE  \E r \in Contents \X Sessions : memory'[r] = "active" /\ Topic(r)' = <<k, t>>
  <2>1. CASE Topic(Next1) = <<k, t>>
    <3>1. StatusOf(c) = "active"
      BY <1>2, <1>9, <2>1
    <3> QED BY <1>5, <1>6, <1>f, <2>1, <3>1
  <2>2. CASE Topic(Next1) # <<k, t>>
    <3>1. <<k, t>> \in spoken \ silenced
      BY <1>2, <1>9, <2>2
    <3>2. PICK r \in Contents \X Sessions : memory[r] = "active" /\ Topic(r) = <<k, t>>
      BY <2>2, <3>1 DEF Inv, VoiceOK, Inserting
    <3> QED BY <1>5, <1>6, <2>2, <3>2
  <2> QED BY <2>1, <2>2
<1>10. VoiceOK'
  BY <1>3, <1>8, <1>9 DEF VoiceOK, At
<1> QED BY <1>1, <1>3, <1>4, <1>10 DEF Insert, Inv, SettingOK, DeskOK, KeptOK, ErrorsOK, desk, kept

\* No item is left to be stored.
LEMMA RememberedStep ==
  ASSUME Inv, Remembered
  PROVE  Inv'
<1>1. LogOK' /\ lastId <= lastId'
  BY LogStays DEF Remembered, Inv
<1>2. RunOK' /\ run'["op"].stage = "measure" /\ run["op"].stage = "remember"
  BY <1>1, Two, StagesKnown, GoMoves DEF Inv, Remembered, At
<1>3. VoiceOK'
  BY <1>2, VoiceStays DEF Inv, Remembered
<1> QED BY <1>1, <1>2, <1>3 DEF Remembered, Inv, SettingOK, DeskOK, KeptOK, ErrorsOK, MemoryOK, desk, kept,
     voices

\* The numbers of messages stay within the bound.
LEMMA SmallerType ==
  ASSUME NEW m \in 0..MaxId, NEW n \in 0..MaxId
  PROVE  Smaller(m, n) \in 0..MaxId
BY DEF Smaller

\* What is given to the model, and what is passed over, are messages.
LEMMA GivenType ==
  ASSUME Inv, NEW p \in Threads, NEW size \in Nat
  PROVE  /\ Given(p, size) \subseteq 1..MaxId
         /\ PassedOver(p, size) \subseteq 1..MaxId
<1>1. run[p].rows \in Seq(Message) /\ run[p].from \in 0..MaxId
  BY RunFacts DEF Inv
<1>2. \A k \in 1..Len(run[p].rows) : run[p].rows[k] \in Message
  BY <1>1, ElementOfSeq
<1>3. \A k \in 1..Len(run[p].rows) : run[p].rows[k].id \in 1..MaxId
  BY <1>2 DEF Message
<1>4. ASSUME NEW x \in Given(p, size) PROVE x \in 1..MaxId
  <2>1. PICK k \in 1..Len(run[p].rows) : x = run[p].rows[k].id
    BY <1>4 DEF Given
  <2> QED BY <1>3, <2>1
<1>5. ASSUME NEW x \in PassedOver(p, size) PROVE x \in 1..MaxId
  <2>1. PICK k \in (run[p].from + 1)..(Len(run[p].rows) - size) : x = run[p].rows[k].id
    BY <1>5 DEF PassedOver
  <2>2. k \in 1..Len(run[p].rows)
    BY <1>1, <2>1, LenProperties
  <2> QED BY <1>3, <2>1, <2>2
<1> QED BY <1>4, <1>5

\* The session of a thread at work, and its torn summaries.
LEMMA MarksType ==
  ASSUME Inv, NEW p \in Threads, run[p].stage # "idle", Marks(p)
  PROVE  torn' \subseteq Sessions /\ Here(p) \in Sessions
<1>1. Here(p) \in Sessions
  BY RunFacts DEF Inv, Here
<1> QED BY <1>1 DEF Marks, Inv, KeptOK

\* A thread that compacts leaves the memories alone, whichever it is.
LEMMA CompactVoice ==
  ASSUME Inv, NEW p \in Threads, UNCHANGED <<setting, voices>>, run[p].stage # "insert",
         run'[p].stage # "insert", \A q \in Threads : q # p => run'[q] = run[q]
  PROVE  VoiceOK'
<1>1. CASE p = "op"
  BY <1>1, VoiceStays DEF Inv
<1>2. CASE p # "op"
  BY <1>2, Two, VoiceStays DEF Inv
<1> QED BY <1>1, <1>2

\* A compaction is due, or not.
LEMMA MeasureStep ==
  ASSUME Inv, NEW p \in Threads, Measure(p)
  PROVE  Inv'
<1> DEFINE s == run[p].session
           rows == messages[s]
<1>0. run[p].stage = "measure" /\ run[p] \in RunState /\ s \in Sessions
  BY RunFacts DEF Measure, At, Inv
<1>1. LogOK' /\ lastId <= lastId' /\ lastId' = lastId
  BY LogStays DEF Measure, Inv
<1>2. ASSUME run' = [run EXCEPT ![p].rows = rows, ![p].from = Smaller(checkpoint[s], Len(rows)),
                                ![p].text = summary[s], ![p].stage = "summarize"]
      PROVE  RunOK' /\ run'[p].stage # "insert" /\ \A q \in Threads : q # p => run'[q] = run[q]
  <2> DEFINE n == Smaller(checkpoint[s], Len(rows))
             text == summary[s]
             row == Measured(run[p], rows, n, text, "summarize")
  <2>1. rows \in Seq(Message) /\ Len(rows) <= lastId /\ Len(rows) \in Nat
    BY <1>0, LenProperties DEF Inv, LogOK
  <2>2. Len(rows) \in 0..MaxId
    BY <2>1, ConversationAssumption DEF Inv, LogOK
  <2>3. n \in 0..MaxId
    BY <1>0, <2>2, SmallerType DEF Inv, KeptOK
  <2>4. text \in SUBSET (1..MaxId) /\ "summarize" \in Stages
    BY <1>0 DEF Inv, KeptOK, Stages
  <2>5. run' = [run EXCEPT ![p] = row]
    BY <1>2 DEF Inv, RunOK, RunState, Measured
  <2> HIDE DEF n, text, rows
  <2>6. row \in RunState /\ row.stage = "summarize" /\ row.session = run[p].session /\ row.rows = rows
    BY <1>0, <2>1, <2>3, <2>4, MeasureWrite
  <2> HIDE DEF row
  <2>7. RunOK' /\ run'[p].stage = "summarize" /\ \A q \in Threads : q # p => run'[q] = run[q]
    BY <1>0, <1>1, <2>1, <2>5, <2>6, RunMove DEF Inv
  <2> QED BY <2>7
<1>3. ASSUME Go(p, "rows")
      PROVE  RunOK' /\ run'[p].stage # "insert" /\ \A q \in Threads : q # p => run'[q] = run[q]
  <2>1. /\ RunOK' /\ run'[p].stage = "rows" /\ \A q \in Threads : q # p => run'[q] = run[q]
    BY <1>0, <1>1, <1>3, StagesKnown, GoMoves DEF Inv
  <2> QED BY <2>1
<1>4. RunOK' /\ run'[p].stage # "insert" /\ \A q \in Threads : q # p => run'[q] = run[q]
  <2> HIDE DEF s, rows
  <2>1. CASE run' = [run EXCEPT ![p].rows = rows, ![p].from = Smaller(checkpoint[s], Len(rows)),
                              ![p].text = summary[s], ![p].stage = "summarize"]
    BY <1>2, <2>1
  <2>2. CASE Go(p, "rows")
    BY <1>3, <2>2
  <2> QED BY <2>1, <2>2 DEF Measure, Here, s, rows
<1>5. VoiceOK'
  BY <1>0, <1>4, CompactVoice DEF Measure
<1> QED BY <1>1, <1>4, <1>5 DEF Measure, Inv, SettingOK, DeskOK, KeptOK, ErrorsOK, MemoryOK, desk, kept, voices

\* The summary is made, or the turn fails.
LEMMA SummarizeStep ==
  ASSUME Inv, NEW p \in Threads, Summarize(p)
  PROVE  Inv'
<1>0. run[p].stage = "summarize" /\ run[p] \in RunState /\ Len(run[p].rows) <= lastId
      /\ run[p].session \in Sessions /\ run[p].text \in SUBSET (1..MaxId) /\ "clear" \in Stages
  BY RunFacts DEF Summarize, At, Inv, Stages
<1>1. LogOK' /\ lastId <= lastId' /\ lastId' = lastId
  BY LogStays DEF Summarize, Inv
<1>2. ASSUME NEW size \in Nat, run' = [run EXCEPT ![p].text = @ \cup Given(p, size), ![p].stage = "clear"],
             cut' = cut \cup PassedOver(p, size), UNCHANGED errors
      PROVE  /\ RunOK' /\ cut' \subseteq 1..MaxId /\ ErrorsOK' /\ run'[p].stage = "clear"
             /\ \A q \in Threads : q # p => run'[q] = run[q]
  <2> DEFINE text == run[p].text \cup Given(p, size)
             row == WithText(run[p], text, "clear")
  <2>1. text \in SUBSET (1..MaxId)
    BY <1>0, GivenType
  <2>2. run' = [run EXCEPT ![p] = row]
    BY <1>2 DEF Inv, RunOK, RunState, WithText
  <2> HIDE DEF text
  <2>3. row \in RunState /\ row.stage = "clear" /\ row.session = run[p].session /\ row.rows = run[p].rows
    BY <1>0, <2>1, TextWrite
  <2> HIDE DEF row
  <2>4. RunOK' /\ run'[p].stage = "clear" /\ \A q \in Threads : q # p => run'[q] = run[q]
    BY <1>0, <1>1, <2>2, <2>3, RunMove DEF Inv
  <2>5. cut' \subseteq 1..MaxId
    BY <1>2, GivenType DEF Inv, KeptOK
  <2> QED BY <1>2, <2>4, <2>5 DEF Inv, ErrorsOK
<1>3. ASSUME p = "op", FailTurn, UNCHANGED cut
      PROVE  /\ RunOK' /\ cut' \subseteq 1..MaxId /\ ErrorsOK' /\ run'[p].stage = "idle"
             /\ \A q \in Threads : q # p => run'[q] = run[q]
  <2>1. RunOK' /\ ErrorsOK' /\ run'["op"].stage = "idle"
    BY <1>0, <1>3, FailMoves DEF Summarize
  <2>2. \A q \in Threads : q # p => run'[q] = run[q]
    BY <1>3 DEF FailTurn, Inv, RunOK
  <2> QED BY <1>3, <2>1, <2>2 DEF Inv, KeptOK
<1>4. /\ RunOK' /\ cut' \subseteq 1..MaxId /\ ErrorsOK' /\ run'[p].stage # "insert"
      /\ \A q \in Threads : q # p => run'[q] = run[q]
  <2>1. {Window} \cup {FallbackWindow} \subseteq Nat
    BY ConversationAssumption
  <2>2. ASSUME NEW size \in {Window} \cup (IF Fault("chat") THEN {FallbackWindow} ELSE {}) PROVE size \in Nat
    BY <2>1, <2>2
  <2> QED BY <1>2, <1>3, <2>2 DEF Summarize
<1>5. VoiceOK'
  BY <1>0, <1>4, CompactVoice DEF Summarize
<1> QED BY <1>1, <1>4, <1>5 DEF Summarize, Inv, SettingOK, DeskOK, KeptOK, MemoryOK, desk, voices

\* The file of the summary is emptied and written.
LEMMA SummaryStep ==
  ASSUME Inv, NEW p \in Threads, ClearSummary(p) \/ FillSummary(p)
  PROVE  Inv'
<1>0. run[p].stage \in {"clear", "fill"} /\ run[p].text \in SUBSET (1..MaxId) /\ UNCHANGED <<messages, lastId>>
      /\ Marks(p) /\ UNCHANGED <<setting, desk, checkpoint, cut, voices, errors>>
  BY RunFacts DEF ClearSummary, FillSummary, At, Inv
<1>1. LogOK' /\ lastId <= lastId'
  BY <1>0, LogStays DEF Inv
<1>2. RunOK' /\ run'[p].stage \in {"fill", "mark"} /\ \A q \in Threads : q # p => run'[q] = run[q]
  <2>1. \E st \in {"fill", "mark"} : Go(p, st)
    BY DEF ClearSummary, FillSummary
  <2> QED BY <1>0, <1>1, <2>1, StagesKnown, GoMoves DEF Inv
<1>3. summary' \in [Sessions -> SUBSET (1..MaxId)]
  BY <1>0 DEF ClearSummary, FillSummary, Inv, KeptOK
<1>4. torn' \subseteq Sessions
  BY <1>0, MarksType
<1>5. VoiceOK'
  BY <1>0, <1>2, CompactVoice
<1> QED BY <1>0, <1>1, <1>2, <1>3, <1>4, <1>5 DEF Inv, SettingOK, DeskOK, KeptOK, ErrorsOK, MemoryOK, desk,
     voices

\* The checkpoint is written.
LEMMA MarkStep ==
  ASSUME Inv, NEW p \in Threads, MarkCheckpoint(p)
  PROVE  Inv'
<1>0. run[p].stage = "mark" /\ Len(run[p].rows) \in 0..MaxId /\ UNCHANGED <<messages, lastId>>
      /\ Marks(p) /\ UNCHANGED <<setting, desk, summary, cut, voices, errors>>
  BY RunFacts DEF MarkCheckpoint, At, Inv
<1>1. LogOK' /\ lastId <= lastId'
  BY <1>0, LogStays DEF Inv
<1>2. RunOK' /\ run'[p].stage \in {"idle", "rows"} /\ \A q \in Threads : q # p => run'[q] = run[q]
  <2>1. CASE run' = [run EXCEPT ![p] = Idle]
    BY <1>1, <2>1, IdleMoves DEF Inv
  <2>2. CASE Go(p, "rows")
    BY <1>0, <1>1, <2>2, StagesKnown, GoMoves DEF Inv
  <2> QED BY <2>1, <2>2 DEF MarkCheckpoint, Done
<1>3. checkpoint' \in [Sessions -> 0..MaxId]
  BY <1>0 DEF MarkCheckpoint, Inv, KeptOK
<1>4. torn' \subseteq Sessions
  BY <1>0, MarksType
<1>5. VoiceOK'
  BY <1>0, <1>2, CompactVoice
<1> QED BY <1>0, <1>1, <1>2, <1>3, <1>4, <1>5 DEF Inv, SettingOK, DeskOK, KeptOK, ErrorsOK, MemoryOK, desk,
     voices

\* The messages are read for a rewrite.
LEMMA ReadRowsStep ==
  ASSUME Inv, ReadRows
  PROVE  Inv'
<1> DEFINE rows == messages[run["op"].session]
<1>0. run["op"].stage = "rows" /\ run["op"] \in RunState /\ run["op"].session \in Sessions
       /\ "replace" \in Stages
  BY Two, RunFacts DEF ReadRows, At, Inv, Stages
<1>1. LogOK' /\ lastId <= lastId' /\ lastId' = lastId
  BY LogStays DEF ReadRows, Inv
<1>2. rows \in Seq(Message) /\ Len(rows) <= lastId
  BY <1>0 DEF Inv, LogOK
<1>3. ASSUME run' = [run EXCEPT !["op"].rows = rows, !["op"].stage = "replace"]
      PROVE  RunOK' /\ run'["op"].stage # "insert"
  <2> DEFINE row == WithRows(run["op"], rows, "replace")
  <2>1. run' = [run EXCEPT !["op"] = row]
    BY <1>3, Two DEF Inv, RunOK, RunState, WithRows
  <2> HIDE DEF rows
  <2>2. row \in RunState /\ row.stage = "replace" /\ row.session = run["op"].session /\ row.rows = rows
    BY <1>0, <1>2, RowsWrite
  <2> HIDE DEF row
  <2>3. RunOK' /\ run'["op"].stage = "replace"
    BY <1>0, <1>1, <1>2, <2>1, <2>2, Two, RunMove DEF Inv
  <2> QED BY <2>3
<1>4. ASSUME run' = [run EXCEPT !["op"] = Idle]
      PROVE  RunOK' /\ run'["op"].stage # "insert"
  <2>1. RunOK' /\ run'["op"].stage = "idle"
    BY <1>1, <1>4, Two, IdleMoves DEF Inv
  <2> QED BY <2>1
<1>5. RunOK' /\ run'["op"].stage # "insert"
  <2>1. \/ run' = [run EXCEPT !["op"].rows = rows, !["op"].stage = "replace"]
        \/ run' = [run EXCEPT !["op"] = Idle]
    BY DEF ReadRows, Here
  <2> HIDE DEF rows
  <2> QED BY <1>3, <1>4, <2>1
<1>6. VoiceOK'
  BY <1>0, <1>5, VoiceStays DEF Inv, ReadRows
<1> QED BY <1>1, <1>5, <1>6 DEF ReadRows, Inv, SettingOK, DeskOK, KeptOK, ErrorsOK, MemoryOK, desk, kept, voices

\* The messages are rewritten, or their session is gone.
LEMMA ReplaceRowsStep ==
  ASSUME Inv, ReplaceRows
  PROVE  Inv'
<1>0. run["op"].stage = "replace" /\ run["op"].rows \in Seq(Message) /\ Len(run["op"].rows) <= lastId
      /\ run["op"].session \in Sessions
  BY Two, RunFacts DEF ReplaceRows, At, Inv
<1>1. LogOK' /\ lastId <= lastId'
  <2>1. lastId' = lastId /\ lastId \in 0..MaxId
    BY DEF ReplaceRows, Inv, LogOK
  <2>2. messages' = messages \/ messages' = [messages EXCEPT ![run["op"].session] = run["op"].rows]
    BY DEF ReplaceRows, Here
  <2>3. messages' \in [Sessions -> Seq(Message)] /\ \A s \in Sessions : Len(messages'[s]) <= lastId
    BY <1>0, <2>2 DEF Inv, LogOK
  <2> QED BY <2>1, <2>3, ConversationAssumption DEF LogOK
<1>2. RunOK' /\ run'["op"].stage = "idle"
  <2>1. run' = [run EXCEPT !["op"] = Idle]
    BY DEF ReplaceRows, FailTurn
  <2> QED BY <1>1, <2>1, Two, IdleMoves DEF Inv
<1>3. ErrorsOK'
  BY <1>0 DEF ReplaceRows, FailTurn, Here, Inv, ErrorsOK
<1>4. torn' \subseteq Sessions
  BY <1>0, Two, MarksType DEF ReplaceRows
<1>5. VoiceOK'
  BY <1>0, <1>2, VoiceStays DEF Inv, ReplaceRows
<1> QED BY <1>1, <1>2, <1>3, <1>4, <1>5 DEF ReplaceRows, Inv, SettingOK, DeskOK, KeptOK, MemoryOK, desk, voices

\* An action of the window uses one of its starts.
LEMMA DeskMoves ==
  ASSUME Inv, NEW what, Desk(what)
  PROVE  SettingOK' /\ setting'.kind = setting.kind /\ setting'.topic = setting.topic
BY Two, SettingMoves DEF Desk, Inv

\* The window makes, shows and pins sessions.
LEMMA DeskStep ==
  ASSUME Inv, NewSession \/ SelectSession \/ TogglePin
  PROVE  Inv'
<1>1. LogOK' /\ lastId <= lastId' /\ UNCHANGED <<run, voices, summary, checkpoint, cut, torn, errors>>
  BY LogStays DEF NewSession, SelectSession, TogglePin, Desk, Inv
<1>2. RunOK'
  BY <1>1, RunStays DEF Inv
<1>3. SettingOK' /\ setting'.kind = setting.kind /\ setting'.topic = setting.topic
  BY DeskMoves DEF NewSession, SelectSession, TogglePin
<1>4. VoiceOK'
  BY <1>1, <1>3, VoiceStays DEF Inv
<1>5. DeskOK'
  BY DEF NewSession, SelectSession, TogglePin, Inv, DeskOK
<1>6. MemoryOK'
  BY <1>1 DEF Inv, MemoryOK, voices
<1> QED BY <1>1, <1>2, <1>3, <1>4, <1>5, <1>6 DEF Inv, KeptOK, ErrorsOK

\* The window deletes a session that it does not show.
LEMMA DeleteStep ==
  ASSUME Inv, DeleteSession
  PROVE  Inv'
<1> PICK s \in live \ {current} :
       /\ live' = live \ {s} /\ pinned' = pinned \ {s}
       /\ messages' = [messages EXCEPT ![s] = << >>]
       /\ summary' = [summary EXCEPT ![s] = {}] /\ checkpoint' = [checkpoint EXCEPT ![s] = 0]
  BY DEF DeleteSession
<1>0. s \in Sessions /\ << >> \in Seq(Message) /\ Len(<< >>) = 0 /\ lastId' = lastId /\ lastId \in Nat
  BY EmptySeq, ConversationAssumption DEF Inv, DeskOK, LogOK, DeleteSession
<1>1. LogOK' /\ lastId <= lastId'
  <2>1. messages' \in [Sessions -> Seq(Message)] /\ \A u \in Sessions : Len(messages'[u]) <= lastId
    BY <1>0 DEF Inv, LogOK
  <2> QED BY <1>0, <2>1 DEF Inv, LogOK
<1>2. RunOK'
  BY <1>1, RunStays DEF Inv, DeleteSession
<1>3. SettingOK' /\ setting'.kind = setting.kind /\ setting'.topic = setting.topic
  BY DeskMoves DEF DeleteSession
<1>4. VoiceOK'
  BY <1>3, VoiceStays DEF Inv, DeleteSession, Desk
<1>5. DeskOK' /\ MemoryOK' /\ ErrorsOK'
  BY DEF DeleteSession, Desk, Inv, DeskOK, MemoryOK, ErrorsOK, voices
<1>6. KeptOK'
  <2>1. 0 \in 0..MaxId /\ {} \in SUBSET (1..MaxId)
    BY ConversationAssumption
  <2> QED BY <1>0, <2>1 DEF DeleteSession, Desk, Inv, KeptOK
<1> QED BY <1>1, <1>2, <1>3, <1>4, <1>5, <1>6 DEF Inv

\* The window compacts the session it shows.
LEMMA CompactSessionStep ==
  ASSUME Inv, CompactSession
  PROVE  Inv'
<1> DEFINE row == Started("compact", "measure", current)
<1>0. current \in Sessions /\ "compact" \in Works /\ "measure" \in Stages
  BY DEF Inv, DeskOK, Works, Stages
<1>1. LogOK' /\ lastId <= lastId' /\ Len(<< >>) <= lastId'
  BY LogStays, ConversationAssumption DEF Inv, LogOK, CompactSession
<1>2. row \in RunState /\ row.stage = "measure" /\ row.session = current /\ row.rows = << >>
  BY <1>0, StartRow
<1>3. run' = [run EXCEPT !["ui"] = row]
  BY DEF CompactSession, Started
<1> HIDE DEF row
<1>4. RunOK' /\ run'["op"] = run["op"]
  <2>1. "op" # "ui"
    OBVIOUS
  <2> QED BY <1>0, <1>1, <1>2, <1>3, <2>1, Two, RunMove DEF Inv
<1>5. SettingOK' /\ setting'.kind = setting.kind /\ setting'.topic = setting.topic
  BY Two, SettingMoves DEF Inv, CompactSession
<1>6. VoiceOK'
  BY <1>4, <1>5, VoiceStays DEF Inv, CompactSession
<1> QED BY <1>1, <1>4, <1>5, <1>6
        DEF CompactSession, Inv, DeskOK, KeptOK, ErrorsOK, MemoryOK, desk, kept, voices

\* The window shows that a turn failed.
LEMMA ShowErrorStep ==
  ASSUME Inv, ShowError
  PROVE  Inv'
<1>0. UNCHANGED <<setting, desk, kept, voices, run>> /\ errors' \subseteq errors
  BY DEF ShowError
<1>1. LogOK' /\ lastId <= lastId'
  <2>1. CASE UNCHANGED <<messages, lastId>>
    BY <2>1, LogStays DEF Inv
  <2>2. CASE \E s \in errors :
          /\ lastId < MaxId /\ lastId' = lastId + 1
          /\ messages' = [messages EXCEPT ![s] = Append(@, [id |-> lastId + 1, role |-> "assistant"])]
    <3>1. errors \subseteq Sessions /\ "assistant" \in Roles
      BY DEF Inv, ErrorsOK, Roles
    <3> QED BY <2>2, <3>1, LogGrows DEF Inv
  <2> QED BY <2>1, <2>2 DEF ShowError
<1>2. RunOK'
  BY <1>0, <1>1, RunStays DEF Inv
<1>3. VoiceOK'
  BY <1>0, VoiceStays DEF Inv
<1> QED BY <1>0, <1>1, <1>2, <1>3 DEF Inv, SettingOK, DeskOK, KeptOK, ErrorsOK, MemoryOK, desk, kept, voices

\* A crash leaves the files and the memories as they are, and no thread at work.
LEMMA CrashStep ==
  ASSUME Inv, Crash
  PROVE  Inv'
<1>1. LogOK' /\ lastId <= lastId' /\ lastId' = lastId
  BY LogStays DEF Crash, Inv
<1>2. RunOK' /\ run'["op"].stage = "idle"
  <2>1. run' = [p \in Threads |-> Idle]
    BY DEF Crash
  <2>2. Len(<< >>) <= lastId'
    BY <1>1, ConversationAssumption DEF Inv, LogOK
  <2> QED BY <2>1, <2>2, IdleType, Two DEF RunOK, RowOK
<1>3. SettingOK' /\ setting'.kind = setting.kind /\ setting'.topic = setting.topic
  BY SettingMoves DEF Inv, Crash
<1>4. DeskOK' /\ ErrorsOK' /\ MemoryOK'
  BY FoundLives DEF Crash, Inv, DeskOK, ErrorsOK, MemoryOK
<1>5. KeptOK'
  <2>1. \A p \in Threads : At(p, "fill") => Here(p) \in Sessions
    BY RunFacts DEF Inv, At, Here
  <2>2. torn' \subseteq Sessions
    BY <2>1 DEF Crash, Inv, KeptOK
  <2>3. checkpoint' \in [Sessions -> 0..MaxId]
    BY ConversationAssumption DEF Crash, Inv, KeptOK
  <2> QED BY <2>2, <2>3 DEF Crash, Inv, KeptOK
<1>6. VoiceOK'
  <2>0. /\ UNCHANGED <<memory, spoken>> /\ silenced \subseteq silenced'
        /\ At("op", "insert") => Topic(Next1) \in silenced'
    BY DEF Crash, Next1
  <2>1. \A r : Topic(r)' = Topic(r) /\ (Speaks(r)' <=> Speaks(r))
    BY <1>3, <2>0 DEF Topic, Speaks
  <2>2. ASSUME NEW k \in {"decision", "preference"}, NEW t \in Topics, <<k, t>> \in (spoken \ silenced)'
        PROVE  \E r \in Contents \X Sessions : memory'[r] = "active" /\ Topic(r)' = <<k, t>>
    <3>1. <<k, t>> \in spoken \ silenced /\ ~Inserting(k, t)
      BY <2>0, <2>2 DEF Inserting
    <3>2. PICK r \in Contents \X Sessions : memory[r] = "active" /\ Topic(r) = <<k, t>>
      BY <3>1 DEF Inv, VoiceOK
    <3> QED BY <2>0, <2>1, <3>2
  <2>3. \A r1, r2 \in Contents \X Sessions : Speaks(r1)' /\ Speaks(r2)' /\ Topic(r1)' = Topic(r2)' => r1 = r2
    BY <2>1 DEF Inv, VoiceOK
  <2> QED BY <1>2, <2>2, <2>3 DEF VoiceOK, At
<1> QED BY <1>1, <1>2, <1>3, <1>4, <1>5, <1>6 DEF Inv

-----------------------------------------------------------------------------
(* The theorems.                                                           *)

\* The invariant holds at first.
LEMMA InvInit == Init => Inv
<1> SUFFICES ASSUME Init PROVE Inv
  OBVIOUS
<1>1. SettingOK
  BY ConversationAssumption DEF Init, SettingOK
<1>2. DeskOK /\ ErrorsOK
  BY DEF Init, DeskOK, ErrorsOK
<1>3. 0 \in 0..MaxId /\ {} \in SUBSET (1..MaxId) /\ << >> \in Seq(Message) /\ Len(<< >>) <= 0
  BY ConversationAssumption, EmptySeq
<1>4. LogOK /\ KeptOK
  BY <1>3 DEF Init, LogOK, KeptOK
<1>5. MemoryOK
  BY DEF Init, MemoryOK, Status
<1>6. RunOK
  BY <1>3, IdleType DEF Init, RunOK, RowOK
<1>7. VoiceOK
  BY Two, IdleType DEF Init, VoiceOK, Speaks, At
<1> QED BY <1>1, <1>2, <1>4, <1>5, <1>6, <1>7 DEF Inv

\* Every step keeps it.
LEMMA InvStep == Inv /\ [Next]_vars => Inv'
<1> SUFFICES ASSUME Inv, [Next]_vars PROVE Inv'
  OBVIOUS
<1>1. CASE StartTurn \/ Ask \/ Work \/ Reply
  BY <1>1, StartTurnStep, AskStep, WorkStep, ReplyStep
<1>2. CASE Extract \/ Supersede \/ Insert \/ Remembered
  BY <1>2, ExtractStep, SupersedeStep, InsertStep, RememberedStep
<1>3. CASE \E p \in Threads : Compact(p)
  BY <1>3, MeasureStep, SummarizeStep, SummaryStep, MarkStep DEF Compact
<1>4. CASE ReadRows \/ ReplaceRows
  BY <1>4, ReadRowsStep, ReplaceRowsStep
<1>5. CASE NewSession \/ SelectSession \/ TogglePin \/ DeleteSession \/ CompactSession \/ ShowError \/ Crash
  BY <1>5, DeskStep, DeleteStep, CompactSessionStep, ShowErrorStep, CrashStep
<1>6. CASE UNCHANGED vars
  <2>1. LogOK' /\ lastId <= lastId'
    BY <1>6, LogStays DEF vars, Inv
  <2>2. RunOK' /\ VoiceOK'
    BY <1>6, <2>1, RunStays, VoiceStays DEF vars, voices, Inv
  <2> QED BY <1>6, <2>1, <2>2 DEF vars, desk, kept, voices, Inv, SettingOK, DeskOK, KeptOK, ErrorsOK, MemoryOK
<1> QED BY <1>1, <1>2, <1>3, <1>4, <1>5, <1>6 DEF Next

\* It holds in every reachable state.
LEMMA InvAlways == Spec => []Inv
BY InvInit, InvStep, PTL DEF Spec

\* Whatever turns, windows and crashes do, the files, the summaries, the
\* memories and the threads keep their types.
THEOREM TypeCorrect == Spec => []TypeOK
<1>1. Inv => TypeOK
  BY DEF Inv, TypeOK, SettingOK, DeskOK, LogOK, KeptOK, ErrorsOK, MemoryOK, RunOK
<1> QED BY <1>1, InvAlways, PTL

\* Every topic keeps one voice, for any number of sessions, contents and
\* topics (add_memory, _supersede_conflicts).
THEOREM TopicsHaveOneVoice == Spec => []OneVoice
<1>1. ASSUME Inv, NEW k \in {"decision", "preference"}, NEW t \in Topics
      PROVE  LET said == {r \in Contents \X Sessions : memory[r] = "active" /\ Topic(r) = <<k, t>>}
             IN /\ Cardinality(said) <= 1
                /\ <<k, t>> \in spoken \ silenced =>
                     said # {} \/ (At("op", "insert") /\ Topic(<<Head(run["op"].todo).content,
                          Here("op")>>) = <<k, t>>)
  <2> DEFINE said == {r \in Contents \X Sessions : memory[r] = "active" /\ Topic(r) = <<k, t>>}
  <2>1. \A r \in said : r \in Contents \X Sessions /\ Speaks(r) /\ Topic(r) = <<k, t>>
    BY DEF Speaks, Topic
  <2>2. \A r1, r2 \in said : r1 = r2
    BY <1>1, <2>1 DEF Inv, VoiceOK
  <2>3. Cardinality(said) <= 1
    <3>1. CASE said = {}
      BY <3>1, FS_EmptySet
    <3>2. CASE said # {}
      <4>1. PICK r : said = {r}
        BY <2>2, <3>2
      <4>2. Cardinality({r}) = 1
        BY FS_Singleton
      <4> HIDE DEF said
      <4> QED BY <4>1, <4>2
    <3> QED BY <3>1, <3>2
  <2>4. <<k, t>> \in spoken \ silenced => said # {} \/ Inserting(k, t)
    BY <1>1 DEF Inv, VoiceOK
  <2> QED BY <2>3, <2>4 DEF Inserting, Next1
<1>2. Inv => OneVoice
  BY <1>1 DEF OneVoice
<1> QED BY <1>2, InvAlways, PTL

-----------------------------------------------------------------------------
(* What a compaction covers.                                               *)

\* The stages from the reading of the messages to the writing of a file that
\* depends on them.
Watched == {"summarize", "clear", "fill", "mark", "replace"}
Prefix(rows, log) == Len(rows) <= Len(log) /\ \A k \in 1..Len(rows) : log[k] = rows[k]
\* The first n messages are in the text, or were passed over.
Told(rows, n, text) == \A k \in 1..n : rows[k].id \in text \cup cut
Filling(p, s) == At(p, "fill") /\ Here(p) = s

\* What a thread has read of a session is still so, as long as the summary is
\* not said to be torn: its messages are the first ones of the file, reach the
\* checkpoint, and those before it are in its text, unless it read the summary
\* while the other thread had emptied it.
KnownOK(p) ==
  LET r == run[p]
      s == run[p].session
  IN s \in live \ torn /\ r.stage \in Watched =>
       /\ Prefix(r.rows, messages[s]) /\ checkpoint[s] <= Len(r.rows)
       /\ r.stage = "summarize" /\ ~Filling(Other(p), s) => Told(r.rows, r.from, r.text)
       /\ r.stage \in {"clear", "fill", "mark"} /\ ~Filling(Other(p), s) => Told(r.rows, Len(r.rows), r.text)
       /\ r.stage = "mark" => summary[s] = r.text
CoveredAt(s) ==
  /\ checkpoint[s] <= Len(messages[s])
  /\ \A k \in 1..checkpoint[s] : messages[s][k].id \in SummaryOf(s) \cup cut
\* A session that was never created is as at first, and nobody is at work in it.
NewOK ==
  /\ \A s \in Sessions \ used : checkpoint[s] = 0
  /\ \A p \in Threads : run[p].stage # "idle" => run[p].session \in used

CompactionInv == NewOK /\ (\A s \in live \ torn : CoveredAt(s)) /\ \A p \in Threads : KnownOK(p)

\* A step that leaves a thread, and what the thread has read, as they are.
Undisturbed(q) ==
  LET s == run[q].session IN
  /\ run'[q] = run[q]
  /\ s \in live' \ torn' /\ run[q].stage \in Watched =>
       /\ s \in live \ torn
       /\ checkpoint'[s] = checkpoint[s] /\ summary'[s] = summary[s] /\ Prefix(messages[s], messages'[s])
       /\ (run'[Other(q)].stage = "fill" /\ run'[Other(q)].session = s) <=> Filling(Other(q), s)
\* A step after which a thread is not compacting or rewriting a file.
Unwatched(q) ==
  /\ run'[q].stage \notin Watched
  /\ run'[q].stage # "idle" => run'[q].session \in used'

\* The other thread of a thread.
LEMMA OtherThread ==
  ASSUME NEW p \in Threads
  PROVE  /\ Other(p) \in Threads /\ Other(p) # p /\ Other(Other(p)) = p
         /\ \A q \in Threads : q = p \/ q = Other(p)
BY DEF Other, Threads

\* The lengths of files and of what was read of them are numbers.
LEMMA Lengths ==
  ASSUME Inv
  PROVE  /\ \A s \in Sessions : Len(messages[s]) \in Nat /\ checkpoint[s] \in Nat
         /\ \A p \in Threads : Len(run[p].rows) \in Nat /\ run[p].from \in Nat
<1>1. \A s \in Sessions : Len(messages[s]) \in Nat
  BY LenProperties DEF Inv, LogOK
<1>2. \A p \in Threads : Len(run[p].rows) \in Nat /\ run[p].from \in Nat
  BY RunFacts DEF Inv
<1>3. \A s \in Sessions : checkpoint[s] \in Nat
  BY DEF Inv, KeptOK
<1> QED BY <1>1, <1>2, <1>3

\* What is in the summary of a session, or about to be.
LEMMA SummaryIn ==
  ASSUME NEW s, NEW x
  PROVE  x \in SummaryOf(s) <=> x \in summary[s] \/ \E q \in Threads : Filling(q, s) /\ x \in run[q].text
BY DEF SummaryOf, Filling

\* The same of the next state.
LEMMA SummaryOfNext ==
  ASSUME NEW s, NEW x
  PROVE  x \in SummaryOf(s)' <=> x \in summary'[s] \/ \E q \in Threads : Filling(q, s)' /\ x \in run'[q].text
BY DEF SummaryOf, Filling, At, Here

\* A file is the beginning of itself, and of what is appended to it.
LEMMA PrefixSelf ==
  ASSUME NEW log \in Seq(Message)
  PROVE  Prefix(log, log)
<1>1. Len(log) \in Nat
  BY LenProperties
<1> QED BY <1>1 DEF Prefix

\* The lengths differ by one, and the messages before the last are the same.
LEMMA PrefixAppend ==
  ASSUME NEW log \in Seq(Message), NEW m \in Message
  PROVE  Prefix(log, Append(log, m))
<1>1. Len(Append(log, m)) = Len(log) + 1 /\ Len(log) \in Nat
      /\ \A k \in 1..Len(log) : Append(log, m)[k] = log[k]
  BY AppendProperties, LenProperties
<1> QED BY <1>1 DEF Prefix

\* A thread whose reading is undisturbed knows what it knew.
LEMMA KnownStays ==
  ASSUME Inv, Inv', NEW q \in Threads, KnownOK(q), cut \subseteq cut', Undisturbed(q)
  PROVE  KnownOK(q)'
<1> DEFINE s == run[q].session
           r == run[q]
<1> SUFFICES ASSUME s \in live' \ torn', r.stage \in Watched
             PROVE  /\ Prefix(r.rows, messages'[s]) /\ checkpoint'[s] <= Len(r.rows)
                    /\ r.stage = "summarize" /\ ~(run'[Other(q)].stage = "fill" /\ run'[Other(q)].session = s)
                         => \A k \in 1..r.from : r.rows[k].id \in r.text \cup cut'
                    /\ r.stage \in {"clear", "fill", "mark"}
                         /\ ~(run'[Other(q)].stage = "fill" /\ run'[Other(q)].session = s)
                         => \A k \in 1..Len(r.rows) : r.rows[k].id \in r.text \cup cut'
                    /\ r.stage = "mark" => summary'[s] = r.text
  BY DEF KnownOK, Undisturbed, Told, Filling, At, Here
<1>1. /\ s \in live \ torn /\ run'[q] = run[q]
      /\ checkpoint'[s] = checkpoint[s] /\ summary'[s] = summary[s] /\ Prefix(messages[s], messages'[s])
      /\ (run'[Other(q)].stage = "fill" /\ run'[Other(q)].session = s) <=> Filling(Other(q), s)
  BY DEF Undisturbed
<1>2. s \in Sessions /\ Len(messages[s]) \in Nat /\ Len(messages'[s]) \in Nat /\ Len(r.rows) \in Nat
  BY <1>1, Lengths DEF Inv, DeskOK
<1>3. Prefix(r.rows, messages[s]) /\ checkpoint[s] <= Len(r.rows)
      /\ (r.stage = "summarize" /\ ~Filling(Other(q), s) => Told(r.rows, r.from, r.text))
      /\ (r.stage \in {"clear", "fill", "mark"} /\ ~Filling(Other(q), s) => Told(r.rows, Len(r.rows), r.text))
      /\ (r.stage = "mark" => summary[s] = r.text)
  BY <1>1 DEF KnownOK
<1>4. Prefix(r.rows, messages'[s])
  BY <1>1, <1>2, <1>3 DEF Prefix
<1> HIDE DEF s, r
<1> QED BY <1>1, <1>3, <1>4 DEF Told

\* A thread that is not watched has nothing to know.
LEMMA UnwatchedKnows ==
  ASSUME NEW q \in Threads, Unwatched(q)
  PROVE  KnownOK(q)'
BY DEF Unwatched, KnownOK

\* A session whose files are as they were, or longer, is covered as it was.
LEMMA CoveredStays ==
  ASSUME Inv, Inv', NEW s \in Sessions, CoveredAt(s), cut \subseteq cut',
         checkpoint'[s] = checkpoint[s], Prefix(messages[s], messages'[s]),
         \A x : x \in SummaryOf(s) => x \in SummaryOf(s)'
  PROVE  CoveredAt(s)'
<1>1. Len(messages[s]) \in Nat /\ Len(messages'[s]) \in Nat /\ checkpoint[s] \in Nat
  BY Lengths
<1>2. checkpoint[s] <= Len(messages[s]) /\ \A k \in 1..checkpoint[s] : messages[s][k].id \in SummaryOf(s) \cup cut
  BY DEF CoveredAt
<1>3. ASSUME NEW k \in 1..checkpoint[s]
      PROVE  messages'[s][k].id \in SummaryOf(s)' \cup cut'
  <2>1. k \in 1..Len(messages[s])
    BY <1>1, <1>2
  <2>2. messages'[s][k] = messages[s][k]
    BY <2>1 DEF Prefix
  <2> QED BY <1>2, <2>2
<1> QED BY <1>1, <1>2, <1>3 DEF CoveredAt, Prefix

\* A step that compacts nothing, and rewrites no file that is still there,
\* keeps what is covered and known.
LEMMA CompactionStays ==
  ASSUME Inv, Inv', CompactionInv, live' \subseteq live, used' = used, cut \subseteq cut', torn \subseteq torn',
         \A s \in live' \ torn' : /\ checkpoint'[s] = checkpoint[s] /\ Prefix(messages[s], messages'[s])
                                  /\ summary'[s] = summary[s],
         \A s \in Sessions \ used : checkpoint'[s] = checkpoint[s],
         \A q \in Threads : run'[q] = run[q] \/ (run[q].stage # "fill" /\ Unwatched(q))
  PROVE  CompactionInv'
<1>1. ASSUME NEW q \in Threads
      PROVE  KnownOK(q)' /\ (run'[q].stage # "idle" => run'[q].session \in used')
  <2>1. CASE Unwatched(q)
    BY <2>1, UnwatchedKnows DEF Unwatched
  <2>2. CASE run'[q] = run[q]
    <3>1. \A p \in Threads : (run'[p].stage = "fill") <=> (run[p].stage = "fill")
      BY DEF Unwatched, Watched
    <3>2. \A p \in Threads : run[p].stage = "fill" => run'[p] = run[p]
      OBVIOUS
    <3>3. Other(q) \in Threads
      BY OtherThread
    <3>4. \A s : (run'[Other(q)].stage = "fill" /\ run'[Other(q)].session = s) <=> Filling(Other(q), s)
      BY <3>1, <3>2, <3>3 DEF Filling, At, Here
    <3>5. Undisturbed(q)
      BY <2>2, <3>4 DEF Undisturbed
    <3>6. KnownOK(q)'
      BY <3>5, KnownStays DEF CompactionInv
    <3> QED BY <2>2, <3>6 DEF CompactionInv, NewOK
  <2> QED BY <2>1, <2>2
<1>2. ASSUME NEW s \in live' \ torn' PROVE CoveredAt(s)'
  <2>1. s \in live \ torn /\ s \in Sessions /\ CoveredAt(s)
    BY DEF CompactionInv, Inv, DeskOK
  <2>2. ASSUME NEW x, x \in SummaryOf(s) PROVE x \in SummaryOf(s)'
    <3>1. x \in summary[s] \/ \E q \in Threads : Filling(q, s) /\ x \in run[q].text
      BY <2>2, SummaryIn
    <3>2. \A q \in Threads : Filling(q, s) => run'[q] = run[q]
      BY DEF Filling, At
    <3>3. x \in summary'[s] \/ \E q \in Threads : Filling(q, s)' /\ x \in run'[q].text
      BY <3>1, <3>2 DEF Filling, At, Here
    <3> QED BY <3>3, SummaryOfNext
  <2> QED BY <2>1, <2>2, CoveredStays
<1>3. NewOK'
  BY <1>1 DEF CompactionInv, NewOK
<1> QED BY <1>1, <1>2, <1>3 DEF CompactionInv

\* Go writes the stage of a thread, and nothing else.
LEMMA GoWrites ==
  ASSUME Inv, NEW p \in Threads, NEW st, Go(p, st)
  PROVE  /\ run'[p].stage = st /\ run'[p].session = run[p].session /\ run'[p].rows = run[p].rows
         /\ run'[p].from = run[p].from /\ run'[p].text = run[p].text
         /\ \A q \in Threads : q # p => run'[q] = run[q]
BY DEF Inv, RunOK, RunState, Go

\* A thread that comes to nobody's attention.
LEMMA BecomesIdle ==
  ASSUME Inv, NEW p \in Threads, run' = [run EXCEPT ![p] = Idle]
  PROVE  Unwatched(p) /\ \A q \in Threads : q # p => run'[q] = run[q]
BY DEF Inv, RunOK, Idle, Unwatched, Watched

\* A thread that goes on to where it reads and writes no file of the summary.
LEMMA BecomesUnwatched ==
  ASSUME Inv, NewOK, NEW p \in Threads, run[p].stage # "idle", NEW st, Go(p, st), st \notin Watched, used' = used
  PROVE  Unwatched(p) /\ \A q \in Threads : q # p => run'[q] = run[q]
BY GoWrites DEF Unwatched, NewOK

\* A step of the turn before and after its compaction.
LEMMA TurnMoves ==
  ASSUME Inv, Inv', CompactionInv, UNCHANGED <<desk, kept>>, run["op"].stage # "fill", Unwatched("op"),
         run'["ui"] = run["ui"], \A s \in Sessions : Prefix(messages[s], messages'[s])
  PROVE  CompactionInv'
<1>1. /\ used' = used /\ live' = live /\ cut' = cut /\ torn' = torn /\ checkpoint' = checkpoint
      /\ summary' = summary
  BY DEF desk, kept
<1>2. \A s \in live : s \in Sessions
  BY DEF Inv, DeskOK
<1>3. \A q \in Threads : run'[q] = run[q] \/ (run[q].stage # "fill" /\ Unwatched(q))
  BY DEF Threads
<1> QED BY <1>1, <1>2, <1>3, CompactionStays

\* The messages stay as they are.
LEMMA MessagesStay ==
  ASSUME Inv, messages' = messages
  PROVE  \A s \in Sessions : Prefix(messages[s], messages'[s])
BY PrefixSelf DEF Inv, LogOK

\* The session of the turn was created.
LEMMA TurnSession ==
  ASSUME CompactionInv, run["op"].stage # "idle"
  PROVE  run["op"].session \in used
BY Two DEF CompactionInv, NewOK

\* A message is appended, to whatever session there is.
LEMMA MessageAppended ==
  ASSUME Inv, NEW u \in Sessions, NEW role \in Roles, lastId < MaxId,
         messages' = [messages EXCEPT ![u] = Append(@, [id |-> lastId + 1, role |-> role])]
  PROVE  \A s \in Sessions : Prefix(messages[s], messages'[s])
<1> DEFINE m == [id |-> lastId + 1, role |-> role]
<1>1. m \in Message
  <2>1. lastId + 1 \in 1..MaxId
    BY ConversationAssumption DEF Inv, LogOK
  <2> QED BY <2>1 DEF Message
<1>2. messages \in [Sessions -> Seq(Message)]
  BY DEF Inv, LogOK
<1>3. messages' = [messages EXCEPT ![u] = Append(messages[u], m)]
  BY <1>2
<1> HIDE DEF m
<1>4. \A s \in Sessions : messages'[s] = messages[s] \/ messages'[s] = Append(messages[s], m)
  BY <1>2, <1>3
<1> QED BY <1>1, <1>2, <1>4, PrefixSelf, PrefixAppend

\* append_message, in a turn.
LEMMA TurnAppends ==
  ASSUME Inv, Inv', CompactionInv, UNCHANGED <<desk, kept>>, run["op"].stage \notin {"idle", "fill"},
         NEW role \in Roles, NEW st, st \notin Watched, Append2(role, st)
  PROVE  CompactionInv'
<1>1. PICK u \in Found(Here("op")) :
        messages' = [messages EXCEPT ![u] = Append(@, [id |-> lastId + 1, role |-> role])]
  BY DEF Append2
<1>2. u \in Sessions /\ lastId < MaxId
  BY FoundLives DEF Inv, Append2
<1>3. run'["op"].stage = st /\ run'["op"].session = run["op"].session /\ run'["ui"] = run["ui"]
  BY Two DEF Append2, Inv, RunOK, RunState
<1>4. Unwatched("op")
  BY <1>3, TurnSession DEF Unwatched, desk
<1> QED BY <1>1, <1>2, <1>3, <1>4, MessageAppended, TurnMoves

\* The turn moves on without a message.
LEMMA TurnGoes ==
  ASSUME Inv, Inv', CompactionInv, UNCHANGED <<desk, kept, messages>>, run["op"].stage \notin {"idle", "fill"},
         run'["ui"] = run["ui"], run'["op"].stage \notin Watched,
         run'["op"].stage # "idle" => run'["op"].session = run["op"].session
  PROVE  CompactionInv'
<1>1. Unwatched("op")
  BY TurnSession DEF Unwatched, desk
<1> QED BY <1>1, MessagesStay, TurnMoves

\* A thread that fails is idle.
LEMMA FailWrites ==
  ASSUME Inv, FailTurn
  PROVE  run'["op"].stage = "idle" /\ run'["ui"] = run["ui"]
BY Two DEF Inv, RunOK, FailTurn, Idle

\* A turn begins in a session that exists.
LEMMA StartWrites ==
  ASSUME Inv, StartTurn
  PROVE  run'["op"].stage = "ask" /\ run'["op"].session \in used /\ run'["ui"] = run["ui"]
<1> PICK work \in setting.works \cap {"answer", "image"}, asked \in used :
      /\ At("op", "idle") /\ setting.starts["op"] > 0
      /\ setting' = [setting EXCEPT !.starts["op"] = @ - 1]
      /\ \E s \in Found(asked) :
           run' = [run EXCEPT !["op"] = [Idle EXCEPT !.work = work, !.stage = "ask", !.session = s]]
      /\ UNCHANGED <<desk, messages, kept, voices, errors, lastId>>
  BY DEF StartTurn
<1> PICK s \in Found(asked) :
      run' = [run EXCEPT !["op"] = [Idle EXCEPT !.work = work, !.stage = "ask", !.session = s]]
  OBVIOUS
<1> DEFINE row == Started(work, "ask", s)
<1>1. s \in used
  BY FoundLives DEF Inv, DeskOK
<1>2. row.stage = "ask" /\ row.session = s
  BY DEF Started, Idle
<1>3. run' = [run EXCEPT !["op"] = row]
  BY DEF Started
<1> HIDE DEF row
<1> QED BY <1>1, <1>2, <1>3, Two DEF Inv, RunOK

\* A turn begins: it has read nothing yet.
LEMMA CoverStart ==
  ASSUME Inv, Inv', CompactionInv, StartTurn
  PROVE  CompactionInv'
<1>1. UNCHANGED <<desk, kept, messages>> /\ run["op"].stage # "fill"
  BY DEF StartTurn, At
<1>2. run'["op"].stage = "ask" /\ run'["op"].session \in used /\ run'["ui"] = run["ui"]
  BY StartWrites
<1>3. Unwatched("op")
  BY <1>1, <1>2 DEF Unwatched, Watched, desk
<1> QED BY <1>1, <1>2, <1>3, MessagesStay, TurnMoves

\* The question, the work on it, and the answer.
LEMMA CoverAnswer ==
  ASSUME Inv, Inv', CompactionInv, Ask \/ Work \/ Reply
  PROVE  CompactionInv'
<1>1. UNCHANGED <<desk, kept>> /\ run["op"].stage \notin {"idle", "fill"}
  BY DEF Ask, Work, Reply, At
<1>2. CASE Ask
  BY <1>1, <1>2, StagesKnown, TurnAppends DEF Ask, Watched
<1>3. CASE Reply
  <2>1. PICK st \in {"idle", "extract"} : Append2("assistant", st)
    BY <1>3 DEF Reply
  <2> QED BY <1>1, <2>1, StagesKnown, TurnAppends DEF Watched
<1>4. CASE Work
  <2>1. CASE Append2("tool", "reply")
    BY <1>1, <2>1, StagesKnown, TurnAppends DEF Watched
  <2>2. CASE Go("op", "reply") /\ UNCHANGED messages
    BY <1>1, <2>2, Two, GoWrites, TurnGoes DEF Watched
  <2>3. CASE FailTurn /\ UNCHANGED messages
    BY <1>1, <2>3, FailWrites, TurnGoes DEF Watched
  <2> QED BY <1>4, <2>1, <2>2, <2>3 DEF Work
<1> QED BY <1>2, <1>3, <1>4

\* What may be remembered is extracted and stored.
LEMMA CoverMemory ==
  ASSUME Inv, Inv', CompactionInv, Extract \/ Supersede \/ Insert \/ Remembered
  PROVE  CompactionInv'
<1>1. UNCHANGED <<desk, kept, messages>> /\ run["op"].stage \notin {"idle", "fill"}
  BY DEF Extract, Supersede, Insert, Remembered, At
<1>2. run["op"] \in RunState /\ run \in [Threads -> RunState]
  BY Two DEF Inv, RunOK
<1>3. /\ run'["op"].stage \in {"idle", "remember", "insert", "measure"} /\ run'["ui"] = run["ui"]
      /\ run'["op"].stage # "idle" => run'["op"].session = run["op"].session
  <2>1. CASE Extract
    <3>1. CASE FailTurn
      BY <3>1, FailWrites
    <3>2. CASE \E todo \in setting.candidates \cup {<< >>} :
                 run' = [run EXCEPT !["op"].todo = todo, !["op"].stage = "remember"]
      BY <1>2, <3>2, Two DEF RunState
    <3> QED BY <2>1, <3>1, <3>2 DEF Extract
  <2>2. CASE Supersede
    <3>1. run["op"].stage = "remember"
      BY <2>2 DEF Supersede, At
    <3>2. CASE Go("op", "insert")
      BY <3>2, Two, GoWrites
    <3>3. CASE run' = [run EXCEPT !["op"].todo = Tail(@)]
      BY <1>2, <3>1, <3>3, Two DEF RunState
    <3> QED BY <2>2, <3>2, <3>3 DEF Supersede
  <2>3. CASE Insert
    <3>1. run' = [run EXCEPT !["op"].todo = Tail(@), !["op"].stage = "remember"]
      BY <2>3 DEF Insert
    <3> QED BY <1>2, <3>1, Two DEF RunState
  <2>4. CASE Remembered
    BY <2>4, Two, GoWrites DEF Remembered
  <2> QED BY <2>1, <2>2, <2>3, <2>4
<1> QED BY <1>1, <1>3, TurnGoes DEF Watched

\* What the other thread knows while a thread compacts: the same, unless it is
\* at work on the same session, which is then torn.
LEMMA OtherKnows ==
  ASSUME Inv, Inv', CompactionInv, NEW p \in Threads, live' = live, used' = used, cut \subseteq cut',
         torn \subseteq torn', \A q \in Threads : q # p => run'[q] = run[q],
         run'[p].stage # "idle" => run'[p].session = run[p].session,
         messages' = messages,
         \A s \in live : s # run[p].session => checkpoint'[s] = checkpoint[s] /\ summary'[s] = summary[s],
         \/ run[p].session \in torn'
         \/ ~Meets(p)
         \/ /\ checkpoint' = checkpoint /\ summary' = summary
            /\ run[p].stage # "fill" /\ run'[p].stage # "fill"
  PROVE  KnownOK(Other(p))'
<1> DEFINE q == Other(p)
<1>1. q \in Threads /\ q # p /\ Other(q) = p /\ run'[q] = run[q] /\ KnownOK(q)
  BY OtherThread DEF CompactionInv
<1> HIDE DEF q
<1>2. ASSUME run[q].session \in live' \ torn', run[q].stage \in Watched
      PROVE  LET s == run[q].session IN
             /\ s \in live \ torn
             /\ checkpoint'[s] = checkpoint[s] /\ summary'[s] = summary[s] /\ Prefix(messages[s], messages'[s])
             /\ (run'[p].stage = "fill" /\ run'[p].session = s) <=> Filling(p, s)
  <2> DEFINE s == run[q].session
  <2>1. s \in live \ torn /\ s \in Sessions
    BY <1>2 DEF Inv, DeskOK
  <2>2. Prefix(messages[s], messages'[s])
    BY <2>1, MessagesStay
  <2>3. CASE s # run[p].session
    BY <2>1, <2>2, <2>3 DEF Filling, Here
  <2>4. CASE s = run[p].session
    <3>1. Meets(p)
      BY <1>2, <2>4 DEF Meets, Here, Watched, q
    <3> QED BY <1>2, <2>1, <2>2, <2>4, <3>1 DEF Filling, At
  <2> QED BY <2>3, <2>4
<1>3. Undisturbed(q)
  BY <1>1, <1>2 DEF Undisturbed
<1>4. KnownOK(q)'
  BY <1>1, <1>3, KnownStays
<1> QED BY <1>4 DEF q

\* A step of a compaction gives the invariant from what it makes of its thread
\* and of the session it works in.
LEMMA CompactionMoves ==
  ASSUME Inv, Inv', CompactionInv, NEW p \in Threads, UNCHANGED <<desk, messages>>, cut \subseteq cut',
         torn \subseteq torn', \A q \in Threads : q # p => run'[q] = run[q], run[p].stage # "idle",
         run'[p].stage # "idle" => run'[p].session = run[p].session,
         \A s \in Sessions : s # run[p].session => checkpoint'[s] = checkpoint[s] /\ summary'[s] = summary[s],
         KnownOK(p)', KnownOK(Other(p))',
         NEW u \in Sessions, u = run[p].session, u \in live \ torn' => CoveredAt(u)'
  PROVE  CompactionInv'
<1>1. used' = used /\ live' = live /\ run[p].session \in used
  BY DEF desk, CompactionInv, NewOK
<1>2. NewOK'
  BY <1>1 DEF CompactionInv, NewOK
<1>3. ASSUME NEW s \in live' \ torn' PROVE CoveredAt(s)'
  <2>1. s \in live \ torn /\ s \in Sessions /\ CoveredAt(s)
    BY <1>1, <1>3 DEF CompactionInv, Inv, DeskOK
  <2>2. CASE s = u
    BY <1>3, <2>1, <2>2
  <2>3. CASE s # u
    <3>1. ASSUME NEW x, x \in SummaryOf(s) PROVE x \in SummaryOf(s)'
      <4>1. x \in summary[s] \/ \E q \in Threads : Filling(q, s) /\ x \in run[q].text
        BY <3>1, SummaryIn
      <4>2. \A q \in Threads : Filling(q, s) => Filling(q, s)' /\ run'[q] = run[q]
        BY <2>3 DEF Filling, At, Here
      <4> QED BY <2>1, <2>3, <4>1, <4>2, SummaryOfNext
    <3>2. Prefix(messages[s], messages'[s])
      BY <2>1, MessagesStay
    <3> QED BY <2>1, <2>3, <3>1, <3>2, CoveredStays
  <2> QED BY <2>2, <2>3
<1>4. \A q \in Threads : KnownOK(q)'
  BY OtherThread
<1> QED BY <1>2, <1>3, <1>4 DEF CompactionInv

\* What a thread that compacts knows of a session whose summary is not torn.
LEMMA Reading ==
  ASSUME Inv, CompactionInv, NEW p \in Threads, run[p].stage \in Watched, run[p].session \in live \ torn
  PROVE  LET r == run[p]
             s == run[p].session
         IN /\ Prefix(r.rows, messages[s]) /\ checkpoint[s] <= Len(r.rows) /\ CoveredAt(s)
            /\ r.stage = "summarize" /\ ~Filling(Other(p), s) => Told(r.rows, r.from, r.text)
            /\ r.stage \in {"clear", "fill", "mark"} /\ ~Filling(Other(p), s) => Told(r.rows, Len(r.rows), r.text)
            /\ r.stage = "mark" => summary[s] = r.text
<1>1. KnownOK(p)
  BY DEF CompactionInv
<1> QED BY <1>1 DEF KnownOK, CompactionInv

\* The messages, the checkpoint and the summary are read.
LEMMA CoverMeasure ==
  ASSUME Inv, Inv', CompactionInv, NEW p \in Threads, Measure(p)
  PROVE  CompactionInv'
<1> DEFINE s == run[p].session
<1>1. /\ run[p].stage = "measure" /\ UNCHANGED <<desk, messages, kept>> /\ used' = used /\ live' = live
      /\ checkpoint' = checkpoint /\ summary' = summary /\ cut' = cut /\ torn' = torn /\ messages' = messages
  BY DEF Measure, At, desk, kept
<1>2. run \in [Threads -> RunState] /\ run[p] \in RunState /\ s \in Sessions /\ s \in used
  BY <1>1, RunFacts DEF Inv, RunOK, CompactionInv, NewOK
<1>3. CASE Go(p, "rows")
  <2>1. Unwatched(p) /\ \A q \in Threads : q # p => run'[q] = run[q]
    BY <1>1, <1>3, BecomesUnwatched DEF CompactionInv, Watched
  <2>2. \A u \in Sessions : Prefix(messages[u], messages'[u])
    BY <1>1, MessagesStay
  <2>3. \A u \in live : u \in Sessions
    BY DEF Inv, DeskOK
  <2>4. \A q \in Threads : run'[q] = run[q] \/ (run[q].stage # "fill" /\ Unwatched(q))
    BY <1>1, <2>1
  <2> QED BY <1>1, <2>2, <2>3, <2>4, CompactionStays
<1>4. CASE run' = [run EXCEPT ![p].rows = messages[s], ![p].from = Smaller(checkpoint[s], Len(messages[s])),
                              ![p].text = summary[s], ![p].stage = "summarize"]
  <2> PICK u \in Sessions : u = s
    BY <1>2
  <2> DEFINE n == Smaller(checkpoint[s], Len(messages[s]))
  <2>1. /\ run'[p].stage = "summarize" /\ run'[p].session = u /\ run'[p].rows = messages[u]
        /\ run'[p].from = n /\ run'[p].text = summary[u]
        /\ \A q \in Threads : q # p => run'[q] = run[q]
    BY <1>2, <1>4 DEF RunState
  <2>2. ASSUME u \in live \ torn
        PROVE  /\ Prefix(messages[u], messages[u]) /\ checkpoint[u] <= Len(messages[u]) /\ n = checkpoint[u]
               /\ ~Filling(Other(p), u) => \A k \in 1..checkpoint[u] : messages[u][k].id \in summary[u] \cup cut
    <3>1. CoveredAt(u)
      BY <2>2 DEF CompactionInv
    <3>2. checkpoint[u] \in Nat /\ Len(messages[u]) \in Nat /\ checkpoint[u] <= Len(messages[u])
      BY <3>1, Lengths DEF CoveredAt
    <3>3. n = checkpoint[u]
      BY <3>2 DEF Smaller
    <3>4. ASSUME ~Filling(Other(p), u), NEW k \in 1..checkpoint[u]
          PROVE  messages[u][k].id \in summary[u] \cup cut
      <4>1. ~Filling(p, u)
        BY <1>1 DEF Filling, At
      <4>2. \A x : x \in SummaryOf(u) => x \in summary[u]
        BY <3>4, <4>1, OtherThread, SummaryIn
      <4> QED BY <3>1, <3>4, <4>2 DEF CoveredAt
    <3>5. Prefix(messages[u], messages[u])
      BY PrefixSelf DEF Inv, LogOK
    <3> QED BY <3>2, <3>3, <3>4, <3>5
  <2> HIDE DEF n
  <2>3. Other(p) # p /\ Other(p) \in Threads
    BY OtherThread
  <2>4. Filling(Other(p), u)' <=> Filling(Other(p), u)
    BY <2>1, <2>3 DEF Filling, At, Here
  <2>5. KnownOK(p)'
    BY <1>1, <2>1, <2>2, <2>4 DEF KnownOK, Told
  <2>6. KnownOK(Other(p))'
    BY <1>1, <2>1, OtherKnows
  <2>7. u \in live \ torn' => CoveredAt(u)'
    <3>1. ASSUME NEW x, x \in SummaryOf(u) PROVE x \in SummaryOf(u)'
      <4>1. x \in summary[u] \/ \E q \in Threads : Filling(q, u) /\ x \in run[q].text
        BY <3>1, SummaryIn
      <4>2. \A q \in Threads : Filling(q, u) => Filling(q, u)' /\ run'[q] = run[q]
        BY <1>1, <2>1 DEF Filling, At, Here
      <4> QED BY <1>1, <4>1, <4>2, SummaryOfNext
    <3>2. Prefix(messages[u], messages'[u])
      BY <1>1, MessagesStay
    <3>3. u \in live \ torn => CoveredAt(u)
      BY DEF CompactionInv
    <3> QED BY <1>1, <3>1, <3>2, <3>3, CoveredStays
  <2> QED BY <1>1, <2>1, <2>5, <2>6, <2>7, CompactionMoves
<1> QED BY <1>3, <1>4 DEF Measure, Here

\* A session stays covered while nobody writes its summary or its checkpoint.
LEMMA CoveredMeanwhile ==
  ASSUME Inv, Inv', CompactionInv, NEW p \in Threads, NEW u \in Sessions, u \in live \ torn, cut \subseteq cut',
         messages' = messages, checkpoint'[u] = checkpoint[u], summary'[u] = summary[u],
         run[p].stage # "fill", \A q \in Threads : q # p => run'[q] = run[q]
  PROVE  CoveredAt(u)'
<1>1. ASSUME NEW x, x \in SummaryOf(u) PROVE x \in SummaryOf(u)'
  <2>1. x \in summary[u] \/ \E q \in Threads : Filling(q, u) /\ x \in run[q].text
    BY <1>1, SummaryIn
  <2>2. \A q \in Threads : Filling(q, u) => Filling(q, u)' /\ run'[q] = run[q]
    BY DEF Filling, At, Here
  <2> QED BY <2>1, <2>2, SummaryOfNext
<1>2. Prefix(messages[u], messages'[u]) /\ CoveredAt(u)
  BY MessagesStay DEF CompactionInv
<1> QED BY <1>1, <1>2, CoveredStays

\* _summarize: what was read is in the text, or was passed over.
LEMMA SummarizedTold ==
  ASSUME Inv, NEW p \in Threads, NEW size \in Nat,
         cut' = cut \cup PassedOver(p, size),
         Told(run[p].rows, run[p].from, run[p].text),
         NEW k \in 1..Len(run[p].rows)
  PROVE  run[p].rows[k].id \in run[p].text \cup Given(p, size) \cup cut'
<1>1. Len(run[p].rows) \in Nat /\ run[p].from \in Nat
  BY Lengths
<1>2. CASE k <= run[p].from
  BY <1>1, <1>2 DEF Told
<1>3. CASE k > run[p].from /\ k > Len(run[p].rows) - size
  BY <1>3 DEF Given
<1>4. CASE k > run[p].from /\ k <= Len(run[p].rows) - size
  <2>1. k \in (run[p].from + 1)..(Len(run[p].rows) - size)
    BY <1>1, <1>4
  <2> QED BY <2>1 DEF PassedOver
<1> QED BY <1>1, <1>2, <1>3, <1>4

\* The text is made, or the turn fails.
LEMMA CoverSummarize ==
  ASSUME Inv, Inv', CompactionInv, NEW p \in Threads, Summarize(p)
  PROVE  CompactionInv'
<1>1. /\ run[p].stage = "summarize" /\ UNCHANGED <<desk, messages>> /\ used' = used /\ live' = live
      /\ checkpoint' = checkpoint /\ summary' = summary /\ torn' = torn /\ messages' = messages
  BY DEF Summarize, At, desk
<1>2. run \in [Threads -> RunState] /\ run[p] \in RunState /\ run[p].session \in Sessions
  BY <1>1, RunFacts DEF Inv, RunOK
<1>3. CASE p = "op" /\ FailTurn /\ UNCHANGED cut
  <2>1. UNCHANGED <<desk, kept, messages>>
    BY <1>1, <1>3 DEF kept
  <2> QED BY <1>1, <1>3, <2>1, FailWrites, TurnGoes DEF Watched
<1>4. ASSUME NEW size \in Nat, run' = [run EXCEPT ![p].text = @ \cup Given(p, size), ![p].stage = "clear"],
             cut' = cut \cup PassedOver(p, size)
      PROVE  CompactionInv'
  <2> PICK u \in Sessions : u = run[p].session
    BY <1>2
  <2> DEFINE text == run[p].text \cup Given(p, size)
             rows == run[p].rows
  <2>1. /\ run'[p].stage = "clear" /\ run'[p].session = u /\ run'[p].rows = rows /\ run'[p].text = text
        /\ \A q \in Threads : q # p => run'[q] = run[q]
    BY <1>2, <1>4 DEF RunState
  <2>2. Other(p) # p /\ Other(p) \in Threads
    BY OtherThread
  <2>3. Filling(Other(p), u)' <=> Filling(Other(p), u)
    BY <2>1, <2>2 DEF Filling, At, Here
  <2>4. ASSUME u \in live \ torn
        PROVE  /\ Prefix(rows, messages[u]) /\ checkpoint[u] <= Len(rows)
               /\ ~Filling(Other(p), u) => \A k \in 1..Len(rows) : rows[k].id \in text \cup cut'
    <3>1. /\ Prefix(rows, messages[u]) /\ checkpoint[u] <= Len(rows)
          /\ ~Filling(Other(p), u) => Told(rows, run[p].from, run[p].text)
      BY <1>1, <2>4, Reading DEF Watched
    <3> QED BY <1>4, <3>1, SummarizedTold
  <2> HIDE DEF text, rows
  <2>5. KnownOK(p)'
    BY <1>1, <2>1, <2>3, <2>4 DEF KnownOK, Told
  <2>6. cut \subseteq cut'
    BY <1>4
  <2>7. KnownOK(Other(p))'
    BY <1>1, <2>1, <2>6, OtherKnows
  <2>8. u \in live \ torn' => CoveredAt(u)'
    BY <1>1, <2>1, <2>6, CoveredMeanwhile
  <2> QED BY <1>1, <2>1, <2>5, <2>6, <2>7, <2>8, CompactionMoves
<1>5. Window \in Nat /\ FallbackWindow \in Nat
  BY ConversationAssumption
<1> QED BY <1>3, <1>4, <1>5 DEF Summarize

\* A thread that meets nobody is alone with its session.
LEMMA Alone ==
  ASSUME NEW p \in Threads, ~Meets(p)
  PROVE  ~Filling(Other(p), run[p].session)
BY DEF Meets, Filling, At, Here

\* The summary is emptied: its text is about to be written.
LEMMA CoverClear ==
  ASSUME Inv, Inv', CompactionInv, NEW p \in Threads, ClearSummary(p)
  PROVE  CompactionInv'
<1>1. /\ run[p].stage = "clear" /\ UNCHANGED <<desk, messages>> /\ used' = used /\ live' = live
      /\ checkpoint' = checkpoint /\ cut' = cut /\ torn \subseteq torn' /\ messages' = messages /\ Go(p, "fill")
      /\ Meets(p) => run[p].session \in torn'
  BY DEF ClearSummary, At, desk, Marks, Here
<1>2. run[p].session \in Sessions
  BY <1>1, RunFacts DEF Inv
<1> PICK u \in Sessions : u = run[p].session
  BY <1>2
<1> DEFINE text == run[p].text
           rows == run[p].rows
<1>3. /\ run'[p].stage = "fill" /\ run'[p].session = u /\ run'[p].rows = rows /\ run'[p].text = text
      /\ \A q \in Threads : q # p => run'[q] = run[q]
  BY <1>1, GoWrites
<1>4. \A s \in Sessions : s # u => summary'[s] = summary[s]
  BY DEF ClearSummary, Here, Inv, KeptOK
<1>5. ASSUME u \in live \ torn'
      PROVE  /\ Prefix(rows, messages[u]) /\ checkpoint[u] <= Len(rows)
             /\ \A k \in 1..Len(rows) : rows[k].id \in text \cup cut
  <2>1. u \in live \ torn /\ ~Filling(Other(p), u)
    BY <1>1, <1>5, Alone
  <2> QED BY <1>1, <2>1, Reading DEF Watched, Told
<1> HIDE DEF text, rows
<1>6. KnownOK(p)'
  BY <1>1, <1>3, <1>5 DEF KnownOK, Told
<1>7. \A s \in live : s \in Sessions
  BY DEF Inv, DeskOK
<1>8. KnownOK(Other(p))'
  BY <1>1, <1>3, <1>4, <1>7, OtherKnows
<1>9. u \in live \ torn' => CoveredAt(u)'
  <2>1. \A x \in text : x \in SummaryOf(u)'
    BY <1>3, SummaryOfNext DEF Filling, At, Here
  <2>2. Len(rows) \in Nat /\ Len(messages[u]) \in Nat /\ checkpoint[u] \in Nat
    BY Lengths DEF rows
  <2>3. ASSUME u \in live \ torn', NEW k \in 1..checkpoint[u]
        PROVE  messages[u][k].id \in SummaryOf(u)' \cup cut
    <3>1. k \in 1..Len(rows) /\ messages[u][k] = rows[k]
      BY <1>5, <2>2, <2>3 DEF Prefix
    <3> QED BY <1>5, <2>1, <2>3, <3>1
  <2> QED BY <1>1, <1>5, <2>2, <2>3 DEF CoveredAt, Prefix
<1> QED BY <1>1, <1>3, <1>4, <1>6, <1>8, <1>9, CompactionMoves

\* The summary is written.
LEMMA CoverFill ==
  ASSUME Inv, Inv', CompactionInv, NEW p \in Threads, FillSummary(p)
  PROVE  CompactionInv'
<1>1. /\ run[p].stage = "fill" /\ UNCHANGED <<desk, messages>> /\ used' = used /\ live' = live
      /\ checkpoint' = checkpoint /\ cut' = cut /\ torn \subseteq torn' /\ messages' = messages /\ Go(p, "mark")
      /\ Meets(p) => run[p].session \in torn'
  BY DEF FillSummary, At, desk, Marks, Here
<1>2. run[p].session \in Sessions
  BY <1>1, RunFacts DEF Inv
<1> PICK u \in Sessions : u = run[p].session
  BY <1>2
<1> DEFINE text == run[p].text
           rows == run[p].rows
<1>3. /\ run'[p].stage = "mark" /\ run'[p].session = u /\ run'[p].rows = rows /\ run'[p].text = text
      /\ \A q \in Threads : q # p => run'[q] = run[q]
  BY <1>1, GoWrites
<1>4. summary'[u] = text /\ \A s \in Sessions : s # u => summary'[s] = summary[s]
  BY DEF FillSummary, Here, Inv, KeptOK
<1>5. ASSUME u \in live \ torn'
      PROVE  /\ Prefix(rows, messages[u]) /\ checkpoint[u] <= Len(rows)
             /\ \A k \in 1..Len(rows) : rows[k].id \in text \cup cut
  <2>1. u \in live \ torn /\ ~Filling(Other(p), u)
    BY <1>1, <1>5, Alone
  <2> QED BY <1>1, <2>1, Reading DEF Watched, Told
<1> HIDE DEF text, rows
<1>6. KnownOK(p)'
  BY <1>1, <1>3, <1>4, <1>5 DEF KnownOK, Told
<1>7. \A s \in live : s \in Sessions
  BY DEF Inv, DeskOK
<1>8. KnownOK(Other(p))'
  BY <1>1, <1>3, <1>4, <1>7, OtherKnows
<1>9. u \in live \ torn' => CoveredAt(u)'
  <2>1. \A x \in text : x \in SummaryOf(u)'
    BY <1>4, SummaryOfNext
  <2>2. Len(rows) \in Nat /\ Len(messages[u]) \in Nat /\ checkpoint[u] \in Nat
    BY Lengths DEF rows
  <2>3. ASSUME u \in live \ torn', NEW k \in 1..checkpoint[u]
        PROVE  messages[u][k].id \in SummaryOf(u)' \cup cut
    <3>1. k \in 1..Len(rows) /\ messages[u][k] = rows[k]
      BY <1>5, <2>2, <2>3 DEF Prefix
    <3> QED BY <1>5, <2>1, <2>3, <3>1
  <2> QED BY <1>1, <1>5, <2>2, <2>3 DEF CoveredAt, Prefix
<1> QED BY <1>1, <1>3, <1>4, <1>6, <1>8, <1>9, CompactionMoves

\* The checkpoint is written, which only now says that the messages are covered.
LEMMA CoverMark ==
  ASSUME Inv, Inv', CompactionInv, NEW p \in Threads, MarkCheckpoint(p)
  PROVE  CompactionInv'
<1>1. /\ run[p].stage = "mark" /\ UNCHANGED <<desk, messages>> /\ used' = used /\ live' = live
      /\ summary' = summary /\ cut' = cut /\ torn \subseteq torn' /\ messages' = messages
      /\ Meets(p) => run[p].session \in torn'
  BY DEF MarkCheckpoint, At, desk, Marks, Here
<1>2. run[p].session \in Sessions
  BY <1>1, RunFacts DEF Inv
<1> PICK u \in Sessions : u = run[p].session
  BY <1>2
<1> DEFINE text == run[p].text
           rows == run[p].rows
<1>3. /\ Unwatched(p) /\ \A q \in Threads : q # p => run'[q] = run[q]
      /\ run'[p].stage # "idle" => run'[p].session = run[p].session
  <2>1. CASE run' = [run EXCEPT ![p] = Idle]
    <3>1. run'[p].stage = "idle"
      BY <2>1 DEF Inv, RunOK, Idle
    <3> QED BY <2>1, <3>1, BecomesIdle
  <2>2. CASE Go(p, "rows")
    BY <1>1, <2>2, GoWrites, BecomesUnwatched DEF Watched, CompactionInv
  <2> QED BY <2>1, <2>2 DEF MarkCheckpoint, Done
<1>4. checkpoint'[u] = Len(rows) /\ \A s \in Sessions : s # u => checkpoint'[s] = checkpoint[s]
  BY DEF MarkCheckpoint, Here, Inv, KeptOK
<1>5. ASSUME u \in live \ torn'
      PROVE  /\ Prefix(rows, messages[u]) /\ summary[u] = text
             /\ \A k \in 1..Len(rows) : rows[k].id \in text \cup cut
  <2>1. u \in live \ torn /\ ~Filling(Other(p), u)
    BY <1>1, <1>5, Alone
  <2> QED BY <1>1, <2>1, Reading DEF Watched, Told
<1> HIDE DEF text, rows
<1>6. KnownOK(p)'
  BY <1>3, UnwatchedKnows
<1>7. \A s \in live : s \in Sessions
  BY DEF Inv, DeskOK
<1>8. KnownOK(Other(p))'
  BY <1>1, <1>3, <1>4, <1>7, OtherKnows
<1>9. u \in live \ torn' => CoveredAt(u)'
  <2>1. \A x : x \in summary[u] => x \in SummaryOf(u)'
    BY <1>1, SummaryOfNext
  <2>2. ASSUME u \in live \ torn', NEW k \in 1..Len(rows)
        PROVE  messages[u][k].id \in SummaryOf(u)' \cup cut
    <3>1. messages[u][k] = rows[k]
      BY <1>5, <2>2 DEF Prefix
    <3> QED BY <1>5, <2>1, <2>2, <3>1
  <2> QED BY <1>1, <1>4, <1>5, <2>2 DEF CoveredAt, Prefix
<1> QED BY <1>1, <1>3, <1>4, <1>6, <1>8, <1>9, CompactionMoves

\* The messages are read for a rewrite, or the answer is not among them.
LEMMA CoverReadRows ==
  ASSUME Inv, Inv', CompactionInv, ReadRows
  PROVE  CompactionInv'
<1> DEFINE s == run["op"].session
           rows == messages[s]
<1>1. /\ run["op"].stage = "rows" /\ UNCHANGED <<desk, messages, kept>> /\ used' = used /\ live' = live
      /\ checkpoint' = checkpoint /\ summary' = summary /\ cut' = cut /\ torn' = torn /\ messages' = messages
  BY DEF ReadRows, At, desk, kept
<1>2. run \in [Threads -> RunState] /\ run["op"] \in RunState /\ s \in Sessions
  BY <1>1, Two, RunFacts DEF Inv, RunOK
<1>3. CASE run' = [run EXCEPT !["op"] = Idle]
  <2>1. run'["op"].stage = "idle" /\ run'["ui"] = run["ui"]
    BY <1>2, <1>3, Two DEF Idle
  <2> QED BY <1>1, <2>1, TurnGoes DEF Watched
<1>4. CASE run' = [run EXCEPT !["op"].rows = rows, !["op"].stage = "replace"]
  <2> PICK u \in Sessions : u = s
    BY <1>2
  <2>1. /\ run'["op"].stage = "replace" /\ run'["op"].session = u /\ run'["op"].rows = messages[u]
        /\ \A q \in Threads : q # "op" => run'[q] = run[q]
    BY <1>2, <1>4, Two DEF RunState
  <2>2. u \in live \ torn => Prefix(messages[u], messages[u]) /\ checkpoint[u] <= Len(messages[u])
    BY PrefixSelf DEF CompactionInv, CoveredAt, Inv, LogOK
  <2> HIDE DEF s, rows
  <2>3. KnownOK("op")'
    BY <1>1, <2>1, <2>2 DEF KnownOK
  <2>4. "op" \in Threads
    BY Two
  <2>5. KnownOK(Other("op"))'
    BY <1>1, <2>1, <2>4, OtherKnows DEF s
  <2>6. u \in live \ torn' => CoveredAt(u)'
    BY <1>1, <2>1, <2>4, CoveredMeanwhile
  <2> QED BY <1>1, <2>1, <2>3, <2>4, <2>5, <2>6, CompactionMoves DEF s
<1> QED BY <1>3, <1>4 DEF ReadRows, Here

\* The file becomes what was read of it: it may be shorter, but it reaches the
\* checkpoint, and who else has read it makes the summary a torn one.
LEMMA CoverReplace ==
  ASSUME Inv, Inv', CompactionInv, ReplaceRows
  PROVE  CompactionInv'
<1> DEFINE rows == run["op"].rows
<1>1. /\ run["op"].stage = "replace" /\ UNCHANGED desk /\ used' = used /\ live' = live
      /\ checkpoint' = checkpoint /\ summary' = summary /\ cut' = cut /\ torn \subseteq torn'
      /\ Meets("op") => run["op"].session \in torn'
  BY DEF ReplaceRows, At, desk, Marks, Here
<1>2. run \in [Threads -> RunState] /\ run["op"] \in RunState /\ run["op"].session \in Sessions
  BY <1>1, Two, RunFacts DEF Inv, RunOK
<1>3. run'["op"].stage = "idle" /\ run'["ui"] = run["ui"]
  BY <1>2, Two DEF ReplaceRows, FailTurn, Idle
<1>4. Unwatched("op") /\ \A s \in live : s \in Sessions
  BY <1>3 DEF Unwatched, Watched, Inv, DeskOK
<1>5. CASE messages' = messages
  <2>1. \A q \in Threads : run'[q] = run[q] \/ (run[q].stage # "fill" /\ Unwatched(q))
    BY <1>1, <1>3, <1>4 DEF Threads
  <2>2. \A s \in Sessions : Prefix(messages[s], messages'[s])
    BY <1>5, MessagesStay
  <2> QED BY <1>1, <1>4, <2>1, <2>2, CompactionStays
<1>6. CASE messages' = [messages EXCEPT ![run["op"].session] = run["op"].rows]
  <2> PICK u \in Sessions : u = run["op"].session
    BY <1>2
  <2>1. messages'[u] = rows /\ \A s \in Sessions : s # u => messages'[s] = messages[s]
    BY <1>6 DEF Inv, LogOK
  <2>2. ASSUME u \in live \ torn'
        PROVE  Prefix(rows, messages[u]) /\ checkpoint[u] <= Len(rows) /\ CoveredAt(u)
    BY <1>1, <2>2, Two, Reading DEF Watched
  <2> HIDE DEF rows
  <2>3. \A s \in Sessions : s # u => Prefix(messages[s], messages'[s])
    BY <2>1, PrefixSelf DEF Inv, LogOK
  <2>4. \A s, x : x \in SummaryOf(s) => x \in SummaryOf(s)'
    <3>1. ASSUME NEW s, NEW x, x \in SummaryOf(s) PROVE x \in SummaryOf(s)'
      <4>1. x \in summary[s] \/ \E q \in Threads : Filling(q, s) /\ x \in run[q].text
        BY <3>1, SummaryIn
      <4>2. \A q \in Threads : Filling(q, s) => Filling(q, s)' /\ run'[q] = run[q]
        BY <1>1, <1>3 DEF Filling, At, Here, Threads
      <4> QED BY <1>1, <4>1, <4>2, SummaryOfNext
    <3> QED BY <3>1
  <2>5. ASSUME NEW s \in live' \ torn' PROVE CoveredAt(s)'
    <3>1. s \in live \ torn /\ s \in Sessions /\ CoveredAt(s)
      BY <1>1, <1>4, <2>5 DEF CompactionInv
    <3>2. CASE s = u
      <4>1. Len(rows) \in Nat /\ checkpoint[u] \in Nat /\ Len(messages[u]) \in Nat
        BY Two, Lengths DEF rows
      <4>2. ASSUME NEW k \in 1..checkpoint[u]
            PROVE  rows[k].id \in SummaryOf(u)' \cup cut
        <5>1. u \in live \ torn'
          BY <1>1, <2>5, <3>2
        <5>2. k \in 1..Len(rows) /\ rows[k] = messages[u][k]
          BY <2>2, <4>1, <4>2, <5>1 DEF Prefix
        <5>3. messages[u][k].id \in SummaryOf(u) \cup cut
          BY <2>2, <5>1 DEF CoveredAt
        <5> QED BY <2>4, <5>2, <5>3
      <4> QED BY <1>1, <2>1, <2>2, <2>5, <3>2, <4>2 DEF CoveredAt
    <3>3. CASE s # u
      BY <1>1, <2>3, <2>4, <3>1, <3>3, CoveredStays
    <3> QED BY <3>2, <3>3
  <2>6. KnownOK("ui")'
    <3>1. Other("ui") = "op" /\ Other("op") = "ui"
      BY DEF Other
    <3>2. ASSUME run["ui"].session \in live' \ torn', run["ui"].stage \in Watched
          PROVE  LET s == run["ui"].session IN
                 /\ s \in live \ torn
                 /\ checkpoint'[s] = checkpoint[s] /\ summary'[s] = summary[s] /\ Prefix(messages[s], messages'[s])
                 /\ (run'["op"].stage = "fill" /\ run'["op"].session = s) <=> Filling("op", s)
      <4>1. run["ui"].session # u
        BY <1>1, <3>1, <3>2 DEF Meets, Watched, Here
      <4> QED BY <1>1, <1>3, <1>4, <2>3, <3>2, <4>1 DEF Filling, At
    <3>3. Undisturbed("ui")
      BY <1>3, <3>1, <3>2 DEF Undisturbed
    <3>4. KnownOK("ui") /\ "ui" \in Threads
      BY Two DEF CompactionInv
    <3> QED BY <1>1, <3>3, <3>4, KnownStays
  <2>7. KnownOK("op")'
    BY <1>4, Two, UnwatchedKnows
  <2>8. NewOK'
    BY <1>1, <1>3 DEF CompactionInv, NewOK, Threads
  <2> QED BY <2>5, <2>6, <2>7, <2>8 DEF CompactionInv, Threads
<1> QED BY <1>5, <1>6 DEF ReplaceRows, Here

\* A session is shown, or pinned: no file is written.
LEMMA CoverShow ==
  ASSUME Inv, Inv', CompactionInv, SelectSession \/ TogglePin
  PROVE  CompactionInv'
<1>1. UNCHANGED <<live, used, messages, summary, checkpoint, cut, torn, run>>
  BY DEF SelectSession, TogglePin, Desk
<1>2. \A s \in live : s \in Sessions
  BY DEF Inv, DeskOK
<1> QED BY <1>1, <1>2, MessagesStay, CompactionStays

\* A session is deleted: it is as if it had never been, and nothing is said
\* of what is still at work in it.
LEMMA CoverDelete ==
  ASSUME Inv, Inv', CompactionInv, DeleteSession
  PROVE  CompactionInv'
<1> PICK u \in live \ {current} :
       /\ live' = live \ {u} /\ pinned' = pinned \ {u}
       /\ messages' = [messages EXCEPT ![u] = << >>]
       /\ summary' = [summary EXCEPT ![u] = {}] /\ checkpoint' = [checkpoint EXCEPT ![u] = 0]
  BY DEF DeleteSession
<1>1. UNCHANGED <<used, cut, torn, run>>
  BY DEF DeleteSession, Desk
<1>2. \A s \in live : s \in Sessions /\ s \in used
  BY DEF Inv, DeskOK
<1>3. \A s \in Sessions : s # u => /\ checkpoint'[s] = checkpoint[s] /\ summary'[s] = summary[s]
                                   /\ Prefix(messages[s], messages'[s])
  BY PrefixSelf DEF Inv, KeptOK, LogOK
<1>4. \A s \in Sessions \ used : checkpoint'[s] = checkpoint[s]
  BY <1>2, <1>3
<1> QED BY <1>1, <1>2, <1>3, <1>4, CompactionStays

\* A session is made: nothing is in it.
LEMMA CoverNew ==
  ASSUME Inv, Inv', CompactionInv, NewSession
  PROVE  CompactionInv'
<1>1. UNCHANGED <<messages, summary, checkpoint, cut, torn, run>>
  BY DEF NewSession, Desk
<1> PICK u \in Sessions \ used : live' = live \cup {u} /\ used' = used \cup {u}
  BY DEF NewSession
<1>2. ASSUME NEW s, NEW x PROVE x \in SummaryOf(s)' <=> x \in SummaryOf(s)
  BY <1>1, SummaryIn, SummaryOfNext DEF Filling, At, Here
<1>3. ASSUME NEW s \in live' \ torn' PROVE CoveredAt(s)'
  <2>1. CASE s = u
    <3>1. checkpoint[u] = 0 /\ Len(messages[u]) \in Nat
      BY Lengths DEF CompactionInv, NewOK
    <3> QED BY <1>1, <2>1, <3>1 DEF CoveredAt
  <2>2. CASE s # u
    <3>1. CoveredAt(s)
      BY <1>1, <1>3, <2>2 DEF CompactionInv
    <3> QED BY <1>1, <1>2, <3>1 DEF CoveredAt
  <2> QED BY <2>1, <2>2
<1>4. ASSUME NEW q \in Threads PROVE KnownOK(q)'
  <2>1. KnownOK(q)
    BY DEF CompactionInv
  <2>2. CASE run[q].stage \notin Watched
    BY <1>1, <2>2 DEF KnownOK
  <2>3. CASE run[q].stage \in Watched
    <3>1. run[q].session # u
      BY <2>3 DEF CompactionInv, NewOK, Watched
    <3> QED BY <1>1, <2>1, <3>1 DEF KnownOK, Prefix, Told, Filling, At, Here
  <2> QED BY <2>2, <2>3
<1>5. NewOK'
  BY <1>1 DEF CompactionInv, NewOK
<1> QED BY <1>3, <1>4, <1>5 DEF CompactionInv

\* The window compacts the session it shows.
LEMMA CoverCompact ==
  ASSUME Inv, Inv', CompactionInv, CompactSession
  PROVE  CompactionInv'
<1> DEFINE row == Started("compact", "measure", current)
<1>1. UNCHANGED <<desk, messages, kept>> /\ run["ui"].stage # "fill"
  BY DEF CompactSession, At
<1>2. row.stage = "measure" /\ row.session = current
  BY DEF Started, Idle
<1>3. run' = [run EXCEPT !["ui"] = row]
  BY DEF CompactSession, Started
<1> HIDE DEF row
<1>4. run'["ui"].stage = "measure" /\ run'["ui"].session = current /\ run'["op"] = run["op"]
  BY <1>2, <1>3, Two DEF Inv, RunOK
<1>5. /\ used' = used /\ live' = live /\ cut' = cut /\ torn' = torn /\ checkpoint' = checkpoint
      /\ summary' = summary
  BY <1>1 DEF desk, kept
<1>6. Unwatched("ui")
  BY <1>4, <1>5 DEF Unwatched, Watched, Inv, DeskOK
<1>7. \A q \in Threads : run'[q] = run[q] \/ (run[q].stage # "fill" /\ Unwatched(q))
  BY <1>1, <1>4, <1>6 DEF Threads
<1>8. \A s \in live : s \in Sessions
  BY DEF Inv, DeskOK
<1> QED BY <1>1, <1>5, <1>7, <1>8, MessagesStay, CompactionStays

\* The window shows that a turn failed.
LEMMA CoverError ==
  ASSUME Inv, Inv', CompactionInv, ShowError
  PROVE  CompactionInv'
<1>1. UNCHANGED <<desk, kept, run>>
  BY DEF ShowError
<1>2. /\ used' = used /\ live' = live /\ cut' = cut /\ torn' = torn /\ checkpoint' = checkpoint
      /\ summary' = summary
  BY <1>1 DEF desk, kept
<1>3. \A s \in Sessions : Prefix(messages[s], messages'[s])
  <2>1. CASE messages' = messages
    BY <2>1, MessagesStay
  <2>2. CASE \E s \in errors :
          /\ lastId < MaxId
          /\ messages' = [messages EXCEPT ![s] = Append(@, [id |-> lastId + 1, role |-> "assistant"])]
    <3>1. errors \subseteq Sessions /\ "assistant" \in Roles
      BY DEF Inv, ErrorsOK, Roles
    <3> QED BY <2>2, <3>1, MessageAppended
  <2> QED BY <2>1, <2>2 DEF ShowError
<1>4. \A s \in live : s \in Sessions
  BY DEF Inv, DeskOK
<1> QED BY <1>1, <1>2, <1>3, <1>4, CompactionStays

\* A crash: a summary that was half written is torn, and a checkpoint that is
\* lost covers nothing.
LEMMA CoverCrash ==
  ASSUME Inv, Inv', CompactionInv, Crash
  PROVE  CompactionInv'
<1>1. /\ UNCHANGED <<live, used, messages, summary, cut>> /\ torn \subseteq torn'
      /\ \A p \in Threads : run[p].stage = "fill" => run[p].session \in torn'
      /\ \A s \in Sessions : checkpoint'[s] = checkpoint[s] \/ checkpoint'[s] = 0
  BY DEF Crash, At, Here
<1>2. \A p \in Threads : run'[p].stage = "idle"
  BY DEF Crash, Idle
<1>3. \A p \in Threads : KnownOK(p)'
  BY <1>2, UnwatchedKnows DEF Unwatched, Watched
<1>4. NewOK'
  BY <1>1, <1>2 DEF CompactionInv, NewOK
<1>5. ASSUME NEW s \in live' \ torn' PROVE CoveredAt(s)'
  <2>1. s \in live \ torn /\ s \in Sessions /\ CoveredAt(s)
    BY <1>1, <1>5 DEF CompactionInv, Inv, DeskOK
  <2>2. \A x : x \in SummaryOf(s) => x \in SummaryOf(s)'
    <3>1. \A p \in Threads : ~Filling(p, s)
      BY <1>1, <1>5 DEF Filling, At, Here
    <3> QED BY <1>1, <3>1, SummaryIn, SummaryOfNext
  <2>3. Len(messages[s]) \in Nat /\ checkpoint[s] \in Nat
    BY <2>1, Lengths
  <2>4. /\ messages'[s] = messages[s] /\ cut' = cut
        /\ checkpoint'[s] <= checkpoint[s] /\ checkpoint'[s] \in Nat
    BY <1>1, <2>1, <2>3
  <2> QED BY <2>1, <2>2, <2>3, <2>4 DEF CoveredAt
<1> QED BY <1>3, <1>4, <1>5 DEF CompactionInv

\* At first there is nothing to cover.
LEMMA CompactionInit == Init => CompactionInv
<1> SUFFICES ASSUME Init PROVE CompactionInv
  OBVIOUS
<1>1. \A p \in Threads : run[p].stage = "idle"
  BY DEF Init, Idle
<1>2. \A s \in Sessions : checkpoint[s] = 0 /\ messages[s] = << >>
  BY DEF Init
<1>3. live \subseteq Sessions /\ Len(<< >>) = 0
  BY EmptySeq DEF Init
<1> QED BY <1>1, <1>2, <1>3 DEF CompactionInv, NewOK, KnownOK, CoveredAt, Watched

\* Every step keeps what is covered.
LEMMA CompactionStep == Inv /\ Inv' /\ CompactionInv /\ [Next]_vars => CompactionInv'
<1> SUFFICES ASSUME Inv, Inv', CompactionInv, [Next]_vars PROVE CompactionInv'
  OBVIOUS
<1>1. CASE StartTurn \/ Ask \/ Work \/ Reply
  BY <1>1, CoverStart, CoverAnswer
<1>2. CASE Extract \/ Supersede \/ Insert \/ Remembered
  BY <1>2, CoverMemory
<1>3. CASE \E p \in Threads : Compact(p)
  BY <1>3, CoverMeasure, CoverSummarize, CoverClear, CoverFill, CoverMark DEF Compact
<1>4. CASE ReadRows \/ ReplaceRows
  BY <1>4, CoverReadRows, CoverReplace
<1>5. CASE NewSession \/ SelectSession \/ TogglePin \/ DeleteSession \/ CompactSession \/ ShowError \/ Crash
  BY <1>5, CoverNew, CoverShow, CoverDelete, CoverCompact, CoverError, CoverCrash
<1>6. CASE UNCHANGED vars
  <2>1. UNCHANGED <<live, used, messages, summary, checkpoint, cut, torn, run>>
    BY <1>6 DEF vars
  <2>2. \A s \in live : s \in Sessions
    BY DEF Inv, DeskOK
  <2> QED BY <2>1, <2>2, MessagesStay, CompactionStays
<1> QED BY <1>1, <1>2, <1>3, <1>4, <1>5, <1>6 DEF Next

\* No message before a checkpoint is skipped: it is in the summary, or was
\* more than the window of one compaction, for any number of sessions and
\* messages and any windows, whatever the two threads, the deletions and the
\* crashes do, except in a session whose summary is torn (compact_if_needed,
\* write_summary, write_compaction_state, update_message_metadata).
THEOREM CheckpointsAreCovered == Spec => []CheckpointIsCovered
<1>1. Inv /\ CompactionInv => CheckpointIsCovered
  <2> SUFFICES ASSUME Inv, CompactionInv, NEW s \in live \ torn,
                      NEW k \in 1..Smaller(checkpoint[s], Len(messages[s]))
               PROVE  messages[s][k].id \in SummaryOf(s) \cup cut
    BY DEF CheckpointIsCovered
  <2>1. checkpoint[s] \in Nat /\ Len(messages[s]) \in Nat /\ CoveredAt(s)
    BY Lengths DEF Inv, DeskOK, CompactionInv
  <2>2. k \in 1..checkpoint[s]
    BY <2>1 DEF Smaller
  <2> QED BY <2>1, <2>2 DEF CoveredAt
<1>2. Init /\ Inv => CompactionInv
  BY CompactionInit
<1>3. Inv /\ Inv' /\ CompactionInv /\ [Next]_vars => CompactionInv'
  BY CompactionStep
<1> QED BY <1>1, <1>2, <1>3, InvAlways, PTL DEF Spec

-----------------------------------------------------------------------------
(* The types of the documents.                                             *)

JobStages == {"idle", "parse", "chunk", "lookup", "call", "store", "drop", "insert", "commit",
           "dump", "replace", "filter", "recall", "rank", "cite", "wipe"}
JobKinds == {"index", "research", "search", "clear"}
Vectors == UNION {[B -> Spaces] : B \in SUBSET Batches}

\* Documents are stored, and have rows, under the path whose content they are.
Library == {lib \in UNION {[D -> Stored] : D \in SUBSET Docs} :
              \A d \in DOMAIN lib : d \in Versions[lib[d].path]}
Catalog == {cat \in UNION {[D -> Row] : D \in SUBSET Docs} :
              \A d \in DOMAIN cat : d \in Versions[cat[d].path]}
Backup == [cat: Catalog, fts: SUBSET Docs, cache: SUBSET Cached]
Disk == [saved: BOOLEAN, snap: Library, cat: Catalog, fts: SUBSET Docs, cache: SUBSET Cached,
         backup: {<< >>} \cup Backup]
Process == [up: BOOLEAN, config: Spaces, space: Spaces, docs: Library]
Job == [stage: JobStages, kind: JobKinds, todo: SUBSET Paths, path: Paths \cup {NoDoc},
        doc: Docs \cup {NoDoc}, vec: Vectors, label: Spaces, hits: SUBSET Docs, file: Library]

\* A thread that files a document, from the cutting to the report.
Filing(j) ==
  \/ j.stage \in {"chunk", "lookup", "call", "store", "drop", "insert", "commit"}
  \/ j.stage \in {"dump", "replace"} /\ j.kind # "clear"

JobOK(j) ==
  /\ j \in Job
  /\ Filing(j) => j.path \in Paths /\ j.doc \in Versions[j.path]
  /\ j.stage = "call" => DOMAIN j.vec # Batches
  /\ j.stage \in {"store", "drop", "insert"} => DOMAIN j.vec = Batches
  /\ j.kind = "clear" => j.todo = {} /\ j.doc = NoDoc /\ j.stage \in {"wipe", "dump", "replace"}
  /\ j.stage = "wipe" => j.kind = "clear"
  /\ j.hits \subseteq DOMAIN j.file
  /\ j.stage \in {"rank", "cite", "idle"} \/ j.hits = {}

SceneOK == scene \in Scene
FilesOK == files \in [Paths -> Docs] /\ \A q \in Paths : files[q] \in Versions[q]
DiskOK == disk \in Disk
ProcsOK == procs \in [Procs -> Process]
JobsOK == jobs \in [IndexThreads -> Job] /\ \A t \in IndexThreads : JobOK(jobs[t])
HistoryOK ==
  /\ history \in [reported: [Paths -> {NoReport} \cup (Docs \X Procs)],
                  doubtful: SUBSET Docs, shifted: SUBSET Docs]
  /\ \A q \in Paths : history.reported[q] # NoReport => history.reported[q] \in Versions[q] \X Procs
Shape == SceneOK /\ FilesOK /\ DiskOK /\ ProcsOK /\ JobsOK /\ HistoryOK

-----------------------------------------------------------------------------
(* Libraries and catalogs.                                                 *)

LEMMA VersionFacts ==
  /\ \A q \in Paths : Versions[q] \subseteq Docs
  /\ \A d \in Docs : \E q \in Paths : d \in Versions[q]
  /\ \A q, r \in Paths : \A d : d \in Versions[q] /\ d \in Versions[r] => q = r
  /\ NoDoc \notin Docs /\ NoDoc \notin Paths
BY IndexAssumption DEF Docs

LEMMA LibraryFacts ==
  ASSUME NEW lib \in Library
  PROVE  /\ DOMAIN lib \subseteq Docs /\ lib \in [DOMAIN lib -> Stored]
         /\ \A d \in DOMAIN lib : /\ lib[d] \in Stored /\ lib[d].path \in Paths /\ lib[d].label \in Spaces
                                  /\ lib[d].vec \in [Batches -> Spaces]
                                  /\ d \in Versions[lib[d].path]
<1>1. PICK D \in SUBSET Docs : lib \in [D -> Stored]
  BY DEF Library
<1>2. D = DOMAIN lib /\ \A d \in DOMAIN lib : d \in Versions[lib[d].path]
  BY <1>1 DEF Library
<1>3. \A s \in Stored : s.path \in Paths /\ s.label \in Spaces /\ s.vec \in [Batches -> Spaces]
  BY DEF Stored
<1> QED BY <1>1, <1>2, <1>3

LEMMA CatalogFacts ==
  ASSUME NEW cat \in Catalog
  PROVE  /\ DOMAIN cat \subseteq Docs /\ cat \in [DOMAIN cat -> Row]
         /\ \A d \in DOMAIN cat : /\ cat[d] \in Row /\ cat[d].path \in Paths
                                  /\ cat[d].active \in BOOLEAN /\ d \in Versions[cat[d].path]
<1>1. PICK D \in SUBSET Docs : cat \in [D -> Row]
  BY DEF Catalog
<1>2. D = DOMAIN cat /\ \A d \in DOMAIN cat : d \in Versions[cat[d].path]
  BY <1>1 DEF Catalog
<1>3. \A s \in Row : s.path \in Paths /\ s.active \in BOOLEAN
  BY DEF Row
<1> QED BY <1>1, <1>2, <1>3

\* What is a library, and what is a catalog.
LEMMA LibraryIntro ==
  ASSUME NEW D \in SUBSET Docs, NEW lib \in [D -> Stored],
         \A d \in D : d \in Versions[lib[d].path]
  PROVE  lib \in Library
BY DEF Library
LEMMA CatalogIntro ==
  ASSUME NEW D \in SUBSET Docs, NEW cat \in [D -> Row],
         \A d \in D : d \in Versions[cat[d].path]
  PROVE  cat \in Catalog
BY DEF Catalog

LEMMA EmptyLibrary == << >> \in Library /\ << >> \in Catalog /\ << >> \in Vectors /\ DOMAIN << >> = {}
<1>1. << >> \in [{} -> Stored] /\ << >> \in [{} -> Row] /\ << >> \in [{} -> Spaces] /\ DOMAIN << >> = {}
  OBVIOUS
<1>2. << >> \in Library
  BY <1>1, LibraryIntro
<1>3. << >> \in Catalog
  BY <1>1, CatalogIntro
<1> QED BY <1>1, <1>2, <1>3 DEF Vectors

LEMMA WithoutFacts ==
  ASSUME NEW lib \in Library, NEW S
  PROVE  /\ Without(lib, S) \in Library
         /\ DOMAIN Without(lib, S) = DOMAIN lib \ S
         /\ \A d \in DOMAIN lib \ S : Without(lib, S)[d] = lib[d]
<1>1. Without(lib, S) \in [DOMAIN lib \ S -> Stored]
      /\ \A d \in DOMAIN lib \ S : Without(lib, S)[d] = lib[d]
  BY LibraryFacts DEF Without
<1>2. DOMAIN lib \ S \in SUBSET Docs /\ \A d \in DOMAIN lib \ S : d \in Versions[lib[d].path]
  BY LibraryFacts
<1>3. \A d \in DOMAIN lib \ S : d \in Versions[Without(lib, S)[d].path]
  BY <1>1, <1>2
<1> QED BY <1>1, <1>2, <1>3, LibraryIntro

LEMMA WithFacts ==
  ASSUME NEW lib \in Library, NEW doc \in Docs, NEW value \in Stored, doc \in Versions[value.path]
  PROVE  /\ With(lib, doc, value) \in Library
         /\ DOMAIN With(lib, doc, value) = DOMAIN lib \cup {doc}
         /\ With(lib, doc, value)[doc] = value
         /\ \A d \in DOMAIN lib \ {doc} : With(lib, doc, value)[d] = lib[d]
<1> DEFINE new == With(lib, doc, value)
<1>1. new \in [DOMAIN lib \cup {doc} -> Stored] /\ new[doc] = value
      /\ \A d \in DOMAIN lib \ {doc} : new[d] = lib[d]
  BY LibraryFacts DEF With
<1>2. DOMAIN lib \cup {doc} \in SUBSET Docs
  BY LibraryFacts
<1>3. \A d \in DOMAIN lib \cup {doc} : d \in Versions[new[d].path]
  BY <1>1, LibraryFacts
<1> HIDE DEF new
<1> QED BY <1>1, <1>2, <1>3, LibraryIntro DEF new

LEMMA FilteredFacts ==
  ASSUME NEW lib \in Library, NEW file \in Filtered(lib)
  PROVE  /\ file \in Library /\ DOMAIN file \subseteq DOMAIN lib
         /\ \A d \in DOMAIN file : file[d] = lib[d]
<1>1. PICK held \in SUBSET DOMAIN lib : file = [d \in held |-> lib[d]]
  BY DEF Filtered
<1>2. file \in [held -> Stored] /\ DOMAIN file = held /\ \A d \in held : file[d] = lib[d]
  BY <1>1, LibraryFacts
<1>3. held \in SUBSET Docs /\ \A d \in held : d \in Versions[file[d].path]
  BY <1>2, LibraryFacts
<1> QED BY <1>2, <1>3, LibraryIntro

LEMMA VectorFacts ==
  ASSUME NEW vec \in Vectors
  PROVE  DOMAIN vec \subseteq Batches /\ vec \in [DOMAIN vec -> Spaces] /\ \A b \in DOMAIN vec : vec[b] \in Spaces
BY DEF Vectors

LEMMA VectorGrows ==
  ASSUME NEW vec \in Vectors, NEW b \in Batches, NEW space \in Spaces
  PROVE  /\ With(vec, b, space) \in Vectors
         /\ DOMAIN With(vec, b, space) = DOMAIN vec \cup {b}
         /\ With(vec, b, space)[b] = space
         /\ \A c \in DOMAIN vec \ {b} : With(vec, b, space)[c] = vec[c]
<1> DEFINE new == With(vec, b, space)
<1>1. new \in [DOMAIN vec \cup {b} -> Spaces] /\ new[b] = space
      /\ \A c \in DOMAIN vec \ {b} : new[c] = vec[c]
  BY VectorFacts DEF With
<1>2. DOMAIN vec \cup {b} \in SUBSET Batches
  BY VectorFacts
<1> HIDE DEF new
<1> QED BY <1>1, <1>2 DEF new, Vectors

LEMMA FallbackFacts ==
  ASSUME NEW vec
  PROVE  /\ FallbackVectors(vec) \in Vectors /\ DOMAIN FallbackVectors(vec) = Batches
         /\ \A b \in Batches : FallbackVectors(vec)[b] = "local"
<1>1. [b \in Batches |-> "local"] \in [Batches -> Spaces]
  BY DEF Spaces
<1> QED BY <1>1 DEF FallbackVectors, Vectors

LEMMA KnownFacts ==
  ASSUME DiskOK, NEW doc, NEW space
  PROVE  /\ Known(doc, space) \in Vectors
         /\ \A b \in DOMAIN Known(doc, space) :
              \E e \in disk.cache : e.doc = doc /\ e.space = space /\ e.batch = b /\ e.vec = Known(doc, space)[b]
<1> DEFINE B == {c.batch : c \in {e \in disk.cache : e.doc = doc /\ e.space = space}}
           F(b) == (CHOOSE e \in disk.cache : e.doc = doc /\ e.space = space /\ e.batch = b).vec
<1>1. disk.cache \subseteq Cached
  BY DEF DiskOK, Disk
<1>2. \A e \in Cached : e.batch \in Batches /\ e.vec \in Spaces
  BY DEF Cached
<1>3. \A b \in B : \E e \in disk.cache : e.doc = doc /\ e.space = space /\ e.batch = b /\ e.vec = F(b)
  OBVIOUS
<1>4. B \subseteq Batches /\ \A b \in B : F(b) \in Spaces
  BY <1>1, <1>2, <1>3
<1>5. Known(doc, space) = [b \in B |-> F(b)]
  BY DEF Known
<1> HIDE DEF B, F
<1> QED BY <1>3, <1>4, <1>5 DEF Vectors

LEMMA CacheFacts ==
  ASSUME DiskOK, NEW doc \in Docs, NEW space \in Spaces, NEW vec \in Vectors
  PROVE  /\ Cache(doc, space, vec) \subseteq Cached
         /\ \A e \in Cache(doc, space, vec) :
              e \in disk.cache \/ (e.doc = doc /\ e.space = space /\ \E b \in DOMAIN vec : e.vec = vec[b])
<1>1. disk.cache \subseteq Cached
  BY DEF DiskOK, Disk
<1>2. \A b \in DOMAIN vec : [doc |-> doc, batch |-> b, space |-> space, vec |-> vec[b]] \in Cached
  BY VectorFacts DEF Cached
<1> QED BY <1>1, <1>2 DEF Cache

-----------------------------------------------------------------------------
(* What a step leaves as it is.                                            *)

OtherJobs(t) == \A u \in IndexThreads \ {t} : jobs'[u] = jobs[u]
OtherProcs(p) == \A q \in Procs \ {p} : procs'[q] = procs[q]
SameWork(t) == /\ jobs'[t].kind = jobs[t].kind /\ jobs'[t].todo = jobs[t].todo
               /\ jobs'[t].path = jobs[t].path /\ jobs'[t].doc = jobs[t].doc
SameHits(t) == jobs'[t].hits = jobs[t].hits /\ jobs'[t].file = jobs[t].file
SameVec(t) == jobs'[t].vec = jobs[t].vec /\ jobs'[t].label = jobs[t].label
SameSwitches(p) == procs'[p].up = procs[p].up /\ procs'[p].config = procs[p].config

\* The same circumstances, in which less may still happen.
Spent == /\ scene'.threads = scene.threads
         /\ scene'.crashes <= scene.crashes /\ scene'.clears <= scene.clears
         /\ scene'.migrations <= scene.migrations

LEMMA SceneFacts ==
  ASSUME SceneOK
  PROVE  /\ scene.threads \subseteq IndexThreads
         /\ scene.crashes \in Nat /\ scene.clears \in Nat /\ scene.migrations \in Nat
BY DEF SceneOK, Scene

LEMMA SceneKept == ASSUME SceneOK, UNCHANGED scene PROVE SceneOK' /\ Spent
BY DEF SceneOK, Scene, Spent

LEMMA UseFacts ==
  ASSUME SceneOK,
         NEW what \in {"jobs", "edits", "crashes", "failures", "outages", "clears", "migrations"},
         Use(what)
  PROVE  SceneOK' /\ Spent /\ (scene[what] > 0 /\ scene'[what] = scene[what] - 1)
<1>1. CASE what = "jobs" BY <1>1 DEF Use, SceneOK, Scene, Spent
<1>2. CASE what = "edits" BY <1>2 DEF Use, SceneOK, Scene, Spent
<1>3. CASE what = "crashes" BY <1>3 DEF Use, SceneOK, Scene, Spent
<1>4. CASE what = "failures" BY <1>4 DEF Use, SceneOK, Scene, Spent
<1>5. CASE what = "outages" BY <1>5 DEF Use, SceneOK, Scene, Spent
<1>6. CASE what = "clears" BY <1>6 DEF Use, SceneOK, Scene, Spent
<1>7. CASE what = "migrations" BY <1>7 DEF Use, SceneOK, Scene, Spent
<1> QED BY <1>1, <1>2, <1>3, <1>4, <1>5, <1>6, <1>7

LEMMA JobFacts ==
  ASSUME JobsOK, NEW t \in IndexThreads
  PROVE  /\ jobs[t] \in Job /\ JobOK(jobs[t])
         /\ jobs[t].stage \in JobStages /\ jobs[t].kind \in JobKinds /\ jobs[t].todo \subseteq Paths
         /\ jobs[t].path \in Paths \cup {NoDoc} /\ jobs[t].doc \in Docs \cup {NoDoc}
         /\ jobs[t].vec \in Vectors /\ jobs[t].label \in Spaces
         /\ jobs[t].hits \subseteq Docs /\ jobs[t].file \in Library
BY DEF JobsOK, Job

LEMMA ProcFacts ==
  ASSUME ProcsOK, NEW t \in IndexThreads
  PROVE  /\ ProcOf[t] \in Procs /\ procs[ProcOf[t]] \in Process
         /\ procs[ProcOf[t]].up \in BOOLEAN /\ procs[ProcOf[t]].config \in Spaces
         /\ Space(t) \in Spaces /\ Memory(t) \in Library
<1>1. ProcOf[t] \in Procs
  BY IndexAssumption
<1> QED BY <1>1 DEF ProcsOK, Process, Space, Memory

LEMMA NoJobFacts ==
  /\ NoJob \in Job /\ JobOK(NoJob) /\ ~Filing(NoJob)
  /\ NoJob.stage = "idle" /\ NoJob.kind = "index" /\ NoJob.todo = {} /\ NoJob.path = NoDoc /\ NoJob.doc = NoDoc
  /\ NoJob.hits = {} /\ NoJob.file = << >>
<1>1. NoJob \in Job
  BY EmptyLibrary DEF NoJob, Job, JobStages, JobKinds, Spaces
<1>2. /\ NoJob.stage = "idle" /\ NoJob.kind = "index" /\ NoJob.todo = {} /\ NoJob.path = NoDoc
      /\ NoJob.doc = NoDoc /\ NoJob.hits = {} /\ NoJob.file = << >>
  BY DEF NoJob
<1>3. ~Filing(NoJob)
  BY <1>2 DEF Filing
<1> QED BY <1>1, <1>2, <1>3 DEF JobOK

\* The jobs after a step of one thread.
LEMMA JobStep ==
  ASSUME JobsOK, NEW t \in IndexThreads, jobs' \in [IndexThreads -> Job], OtherJobs(t), JobOK(jobs'[t])
  PROVE  JobsOK'
BY DEF JobsOK, OtherJobs, JobOK, Filing

LEMMA JobEnds ==
  ASSUME JobsOK, NEW t \in IndexThreads, jobs' = [jobs EXCEPT ![t] = NoJob]
  PROVE  JobsOK' /\ OtherJobs(t) /\ jobs'[t] = NoJob
<1>1. jobs' \in [IndexThreads -> Job] /\ OtherJobs(t) /\ jobs'[t] = NoJob
  BY NoJobFacts DEF JobsOK, OtherJobs
<1> QED BY <1>1, NoJobFacts, JobStep

\* The stage alone moves on.
LEMMA JobGoes ==
  ASSUME JobsOK, NEW t \in IndexThreads, NEW stage \in JobStages, Goto(t, stage)
  PROVE  /\ jobs' \in [IndexThreads -> Job] /\ OtherJobs(t)
         /\ jobs'[t].stage = stage /\ SameWork(t) /\ SameHits(t) /\ SameVec(t)
BY DEF Goto, JobsOK, Job, OtherJobs, SameWork, SameHits, SameVec

\* What must hold of a job on its way through the filing of a document.
LEMMA FilingGoes ==
  ASSUME JobsOK, NEW t \in IndexThreads, Filing(jobs[t]), jobs[t].kind # "clear",
         jobs' \in [IndexThreads -> Job], OtherJobs(t), SameWork(t), SameHits(t),
         jobs'[t].stage \in {"chunk", "lookup", "call", "store", "drop", "insert", "commit", "dump"},
         jobs'[t].stage = "call" => DOMAIN jobs'[t].vec # Batches,
         jobs'[t].stage \in {"store", "drop", "insert"} => DOMAIN jobs'[t].vec = Batches
  PROVE  JobsOK'
<1>1. JobOK(jobs'[t])
  BY JobFacts DEF JobOK, Filing, SameWork, SameHits
<1> QED BY <1>1, JobStep

\* One field of a process.
LEMMA MemoryStep ==
  ASSUME ProcsOK, NEW p \in Procs, NEW docs \in Library, procs' = [procs EXCEPT ![p].docs = docs]
  PROVE  /\ ProcsOK' /\ OtherProcs(p) /\ SameSwitches(p)
         /\ procs'[p].space = procs[p].space /\ procs'[p].docs = docs
BY DEF ProcsOK, Process, OtherProcs, SameSwitches
LEMMA SpaceStep ==
  ASSUME ProcsOK, NEW p \in Procs, NEW space \in Spaces, procs' = [procs EXCEPT ![p].space = space]
  PROVE  /\ ProcsOK' /\ OtherProcs(p) /\ SameSwitches(p)
         /\ procs'[p].space = space /\ procs'[p].docs = procs[p].docs
BY DEF ProcsOK, Process, OtherProcs, SameSwitches

\* Nothing in memory but the name of a space has changed.
SameMemory == \A p \in Procs : procs'[p].docs = procs[p].docs /\ procs'[p].up = procs[p].up
LEMMA SameMemoryFacts ==
  ASSUME ProcsOK
  PROVE  /\ UNCHANGED procs => ProcsOK' /\ SameMemory
         /\ \A p \in Procs : OtherProcs(p) /\ SameSwitches(p) /\ procs'[p].docs = procs[p].docs => SameMemory
BY DEF ProcsOK, SameMemory, OtherProcs, SameSwitches

LEMMA Keeping ==
  ASSUME Shape
  PROVE  /\ UNCHANGED files => FilesOK'
         /\ UNCHANGED disk => DiskOK'
         /\ UNCHANGED procs => ProcsOK'
         /\ UNCHANGED jobs => JobsOK'
         /\ UNCHANGED history => HistoryOK'
BY DEF Shape, FilesOK, DiskOK, ProcsOK, JobsOK, HistoryOK, JobOK, Filing

-----------------------------------------------------------------------------
(* What every step does, as far as the invariants can see.                 *)

LEMMA AfterFacts ==
  ASSUME NEW j \in Job, j.hits = {}, j.kind = "clear" => j.todo = {}
  PROVE  /\ AfterDocument(j) \in Job /\ JobOK(AfterDocument(j)) /\ ~Filing(AfterDocument(j))
         /\ AfterDocument(j).stage \in {"parse", "filter", "idle"} /\ AfterDocument(j).kind # "clear"
         /\ AfterDocument(j).todo \subseteq j.todo /\ AfterDocument(j).path \in {j.path, NoDoc}
         /\ AfterDocument(j).file \in {j.file, << >>} /\ AfterDocument(j).hits = {}
<1> DEFINE k == AfterDocument(j)
<1>1. CASE j.todo # {}
  <2>1. k = [j EXCEPT !.stage = "parse"]
    BY <1>1 DEF AfterDocument
  <2>2. /\ k \in Job /\ k.stage = "parse" /\ k.kind = j.kind /\ k.todo = j.todo /\ k.path = j.path
        /\ k.file = j.file /\ k.hits = {}
    BY <2>1 DEF Job, JobStages
  <2> QED BY <2>2, <1>1 DEF JobOK, Filing
<1>2. CASE j.todo = {} /\ j.kind = "research"
  <2>1. k = [j EXCEPT !.stage = "filter"]
    BY <1>2 DEF AfterDocument
  <2>2. /\ k \in Job /\ k.stage = "filter" /\ k.kind = "research" /\ k.todo = j.todo /\ k.path = j.path
        /\ k.file = j.file /\ k.hits = {}
    BY <2>1, <1>2 DEF Job, JobStages
  <2> QED BY <2>2 DEF JobOK, Filing
<1>3. CASE j.todo = {} /\ j.kind # "research"
  <2>1. k = NoJob
    BY <1>3 DEF AfterDocument
  <2> QED BY <2>1, NoJobFacts
<1> QED BY <1>1, <1>2, <1>3

LEMMA StartJobStep ==
  ASSUME Shape, NEW t \in IndexThreads, NEW todo \in SUBSET Paths, NEW kind \in {"index", "research"},
         StartJob(t, todo, kind)
  PROVE  /\ Shape' /\ Spent /\ UNCHANGED <<files, disk, procs, history>>
         /\ t \in scene.threads /\ OtherJobs(t) /\ Apart(t, todo)
         /\ jobs'[t].stage = "parse" /\ jobs'[t].kind = kind /\ jobs'[t].todo = todo
         /\ jobs'[t].path = NoDoc /\ jobs'[t].hits = {} /\ jobs'[t].file = << >>
<1>1. SceneOK' /\ Spent
  BY UseFacts DEF StartJob, Shape
<1>2. /\ [NoJob EXCEPT !.stage = "parse", !.todo = todo, !.kind = kind] \in Job
      /\ jobs' = [jobs EXCEPT ![t] = [NoJob EXCEPT !.stage = "parse", !.todo = todo, !.kind = kind]]
  BY NoJobFacts DEF StartJob, Job, JobStages, JobKinds
<1>3. jobs' \in [IndexThreads -> Job] /\ OtherJobs(t)
      /\ jobs'[t] = [NoJob EXCEPT !.stage = "parse", !.todo = todo, !.kind = kind]
  BY <1>2 DEF OtherJobs, Shape, JobsOK
<1>4. /\ jobs'[t] \in Job
      /\ jobs'[t].stage = "parse" /\ jobs'[t].kind = kind /\ jobs'[t].todo = todo
      /\ jobs'[t].path = NoDoc /\ jobs'[t].hits = {} /\ jobs'[t].file = << >>
  BY <1>2, <1>3, NoJobFacts DEF Job
<1>5. JobOK(jobs'[t])
  BY <1>4 DEF JobOK, Filing
<1>6. JobsOK'
  BY <1>3, <1>5, JobStep DEF Shape
<1>7. UNCHANGED <<files, disk, procs, history>> /\ t \in scene.threads /\ Apart(t, todo)
  BY DEF StartJob
<1> QED BY <1>1, <1>3, <1>4, <1>6, <1>7, Keeping DEF Shape

\* Reports after one path was reported, or no longer is.
LEMMA ReportStep ==
  ASSUME HistoryOK, NEW q \in Paths, NEW report \in {NoReport} \cup (Versions[q] \X Procs),
         history' = [history EXCEPT !.reported[q] = report]
  PROVE  /\ HistoryOK' /\ history'.doubtful = history.doubtful /\ history'.shifted = history.shifted
         /\ history'.reported[q] = report /\ \A r \in Paths \ {q} : history'.reported[r] = history.reported[r]
<1>1. report \in {NoReport} \cup (Docs \X Procs)
  BY VersionFacts
<1>2. report # NoReport => report \in Versions[q] \X Procs
  OBVIOUS
<1> QED BY <1>1, <1>2 DEF HistoryOK

LEMMA ShiftStep ==
  ASSUME HistoryOK, NEW doc \in Docs, NEW seen, NEW space, Shifts(doc, seen, space)
  PROVE  /\ HistoryOK' /\ history'.doubtful = history.doubtful /\ history'.reported = history.reported
         /\ history.shifted \subseteq history'.shifted
         /\ seen # space => doc \in history'.shifted
<1>1. CASE seen = space
  BY <1>1 DEF HistoryOK, Shifts
<1>2. CASE seen # space
  <2>1. history' = [history EXCEPT !.shifted = @ \cup {doc}]
    BY <1>2 DEF Shifts
  <2> QED BY <2>1, <1>2 DEF HistoryOK
<1> QED BY <1>1, <1>2

\* A path is skipped for a document that memory holds and whose row is active.
Skipped(t, path) ==
  \E d \in Docs :
    /\ d \in DOMAIN disk.cat /\ disk.cat[d].active /\ disk.cat[d].path = path /\ d \in DOMAIN Memory(t)
    /\ history'.reported[path] = <<d, ProcOf[t]>>
    /\ jobs'[t].stage \in {"parse", "filter", "idle"} /\ jobs'[t].todo \subseteq jobs[t].todo
    /\ jobs'[t].path \in {path, NoDoc}
    /\ jobs'[t].kind # "clear" /\ jobs'[t].hits = {} /\ jobs'[t].file \in {jobs[t].file, << >>}
Taken(t, path) ==
  /\ history'.reported[path] = NoReport
  /\ jobs'[t].stage = "chunk" /\ jobs'[t].todo \subseteq jobs[t].todo /\ jobs'[t].path = path
  /\ jobs'[t].kind = jobs[t].kind /\ SameHits(t)

LEMMA ParseStep ==
  ASSUME Shape, NEW t \in IndexThreads, Parse(t)
  PROVE  /\ Shape' /\ UNCHANGED <<scene, files, disk>> /\ SameMemory /\ OtherJobs(t) /\ JobAt(t, "parse")
         /\ history'.doubtful = history.doubtful /\ history'.shifted = history.shifted
         /\ jobs[t].kind # "clear"
         /\ \E path \in jobs[t].todo :
              /\ \A q \in Paths \ {path} : history'.reported[q] = history.reported[q]
              /\ Skipped(t, path) \/ Taken(t, path)
<1>0. JobAt(t, "parse") /\ UNCHANGED <<scene, files, disk>>
  BY DEF Parse
<1>1. PICK path \in jobs[t].todo :
        LET doc == files[path]
            job == [jobs[t] EXCEPT !.todo = @ \ {path}, !.path = path, !.doc = doc]
            same == Skips(t, path, doc)
        IN IF same # {}
           THEN /\ history' = [history EXCEPT !.reported[path] = <<CHOOSE d \in same : TRUE, ProcOf[t]>>]
                /\ jobs' = [jobs EXCEPT ![t] = AfterDocument(job)]
                /\ UNCHANGED procs
           ELSE /\ procs' = [procs EXCEPT ![ProcOf[t]].space = procs[ProcOf[t]].config]
                /\ jobs' = [jobs EXCEPT ![t] = [job EXCEPT !.stage = "chunk"]]
                /\ history' = [history EXCEPT !.reported[path] = NoReport]
  BY Zenon DEF Parse
<1> DEFINE doc == files[path]
           job == [jobs[t] EXCEPT !.todo = @ \ {path}, !.path = path, !.doc = doc]
           same == Skips(t, path, doc)
<1>2. jobs[t].kind # "clear" /\ jobs[t].hits = {} /\ path \in Paths
  BY <1>0, JobFacts DEF JobAt, JobOK, Shape
<1>3. doc \in Versions[path] /\ doc \in Docs
  BY <1>2 DEF Shape, FilesOK
<1>4. /\ job \in Job /\ job.todo \subseteq jobs[t].todo /\ job.path = path /\ job.doc = doc /\ job.kind = jobs[t].kind
      /\ job.hits = jobs[t].hits /\ job.file = jobs[t].file
  BY <1>2, <1>3, JobFacts DEF Job, Shape
<1>5. ProcOf[t] \in Procs /\ procs[ProcOf[t]].config \in Spaces
  BY ProcFacts DEF Shape
<1>7. CASE same # {}
  <2>1. /\ history' = [history EXCEPT !.reported[path] = <<CHOOSE d \in same : TRUE, ProcOf[t]>>]
        /\ jobs' = [jobs EXCEPT ![t] = AfterDocument(job)] /\ UNCHANGED procs
    BY <1>1, <1>7
  <2>2. PICK d \in same : d = CHOOSE e \in same : TRUE
    BY <1>7
  <2>3. d \in DOMAIN disk.cat /\ disk.cat[d].active /\ disk.cat[d].path = path /\ d \in DOMAIN Memory(t)
    BY <2>2 DEF Skips, UnchangedRows
  <2>4. disk.cat \in Catalog
    BY DEF Shape, DiskOK, Disk
  <2>5. d \in Docs /\ d \in Versions[path]
    BY <2>3, <2>4, CatalogFacts
  <2>6. <<d, ProcOf[t]>> \in Versions[path] \X Procs
    BY <2>5, <1>5
  <2>7. /\ HistoryOK' /\ history'.doubtful = history.doubtful /\ history'.shifted = history.shifted
        /\ history'.reported[path] = <<d, ProcOf[t]>>
        /\ \A r \in Paths \ {path} : history'.reported[r] = history.reported[r]
    <3>1. history' = [history EXCEPT !.reported[path] = <<d, ProcOf[t]>>]
      BY <2>1, <2>2
    <3>2. HistoryOK
      BY DEF Shape
    <3> HIDE DEF same
    <3> QED BY <3>1, <3>2, <2>6, <1>2, ReportStep
  <2> DEFINE k == AfterDocument(job)
  <2>8. /\ k \in Job /\ JobOK(k) /\ k.stage \in {"parse", "filter", "idle"} /\ k.kind # "clear"
        /\ k.todo \subseteq job.todo /\ k.path \in {job.path, NoDoc}
        /\ k.file \in {job.file, << >>} /\ k.hits = {}
    <3> HIDE DEF job
    <3> QED BY <1>2, <1>4, AfterFacts
  <2>9. jobs' = [jobs EXCEPT ![t] = k]
    BY <2>1
  <2> HIDE DEF k, job, same, doc
  <2>10. jobs' \in [IndexThreads -> Job] /\ OtherJobs(t) /\ jobs'[t] = k
    BY <2>8, <2>9 DEF OtherJobs, Shape, JobsOK
  <2>11. JobsOK'
    BY <2>8, <2>10, JobStep DEF Shape
  <2>12. Skipped(t, path)
    BY <2>3, <2>5, <2>7, <2>8, <2>10, <1>4 DEF Skipped
  <2>13. ProcsOK' /\ SameMemory
    BY <2>1, SameMemoryFacts DEF Shape
  <2>14. SceneOK' /\ FilesOK' /\ DiskOK'
    BY <1>0, Keeping, SceneKept DEF Shape
  <2> QED BY <1>0, <1>2, <2>7, <2>10, <2>11, <2>12, <2>13, <2>14 DEF Shape
<1>8. CASE same = {}
  <2>1. /\ procs' = [procs EXCEPT ![ProcOf[t]].space = procs[ProcOf[t]].config]
        /\ jobs' = [jobs EXCEPT ![t] = [job EXCEPT !.stage = "chunk"]]
        /\ history' = [history EXCEPT !.reported[path] = NoReport]
    BY <1>1, <1>8
  <2>2. /\ HistoryOK' /\ history'.doubtful = history.doubtful /\ history'.shifted = history.shifted
        /\ history'.reported[path] = NoReport
        /\ \A r \in Paths \ {path} : history'.reported[r] = history.reported[r]
    BY <2>1, <1>2, ReportStep DEF Shape
  <2>3. ProcsOK' /\ SameMemory
    BY <2>1, <1>5, SpaceStep, SameMemoryFacts DEF Shape
  <2> DEFINE k == [job EXCEPT !.stage = "chunk"]
  <2>9. jobs' = [jobs EXCEPT ![t] = k]
    BY <2>1
  <2> HIDE DEF job
  <2>4. /\ k \in Job /\ k.stage = "chunk" /\ k.todo = job.todo /\ k.path = path /\ k.doc = doc
        /\ k.kind = job.kind /\ k.hits = job.hits /\ k.file = job.file
    BY <1>4 DEF Job, JobStages
  <2> HIDE DEF k, same, doc
  <2>5. JobOK(k)
    BY <2>4, <1>2, <1>3, <1>4 DEF JobOK
  <2>10. jobs' \in [IndexThreads -> Job] /\ OtherJobs(t) /\ jobs'[t] = k
    BY <2>4, <2>9 DEF OtherJobs, Shape, JobsOK
  <2>11. JobsOK'
    BY <2>5, <2>10, JobStep DEF Shape
  <2>12. Taken(t, path)
    BY <2>2, <2>4, <2>10, <1>4 DEF Taken, SameHits
  <2>14. SceneOK' /\ FilesOK' /\ DiskOK'
    BY <1>0, Keeping, SceneKept DEF Shape
  <2> QED BY <1>0, <1>2, <2>2, <2>3, <2>10, <2>11, <2>12, <2>14 DEF Shape
<1> QED BY <1>7, <1>8

\* A thread that files a document and is not clearing the index.
LEMMA FilingFacts ==
  ASSUME Shape, NEW t \in IndexThreads,
         jobs[t].stage \in {"chunk", "lookup", "call", "store", "drop", "insert", "commit"}
  PROVE  /\ Filing(jobs[t]) /\ jobs[t].kind # "clear" /\ jobs[t].hits = {}
         /\ jobs[t].path \in Paths /\ jobs[t].doc \in Docs /\ jobs[t].doc \in Versions[jobs[t].path]
         /\ jobs[t].stage = "call" => DOMAIN jobs[t].vec # Batches
         /\ jobs[t].stage \in {"store", "drop", "insert"} => DOMAIN jobs[t].vec = Batches
<1>1. JobOK(jobs[t])
  BY DEF Shape, JobsOK
<1>2. Filing(jobs[t])
  BY DEF Filing
<1> QED BY <1>1, <1>2, VersionFacts DEF JobOK

LEMMA ChunkStep ==
  ASSUME Shape, NEW t \in IndexThreads, Chunk(t)
  PROVE  /\ Shape' /\ Spent /\ UNCHANGED <<files, disk, history>> /\ SameMemory /\ OtherJobs(t)
         /\ jobs[t].stage = "chunk"
         /\ \/ jobs'[t] = NoJob
            \/ jobs'[t].stage = "lookup" /\ SameWork(t) /\ SameHits(t)
<1>0. jobs[t].stage = "chunk" /\ UNCHANGED <<files, disk, history>>
  BY DEF Chunk, JobAt
<1>1. FilesOK' /\ DiskOK' /\ HistoryOK'
  BY <1>0, Keeping
<1>2. SceneOK' /\ Spent
  BY SceneKept, UseFacts DEF Chunk, Shape
<1>3. ProcsOK' /\ SameMemory
  <2>1. CASE UNCHANGED procs
    BY <2>1, SameMemoryFacts DEF Shape
  <2>2. CASE procs' = [procs EXCEPT ![ProcOf[t]].space = "local"]
    BY <2>2, ProcFacts, SpaceStep, SameMemoryFacts DEF Shape, Spaces
  <2> QED BY <2>1, <2>2 DEF Chunk
<1>4. CASE Goto(t, "lookup")
  <2>1. /\ jobs' \in [IndexThreads -> Job] /\ OtherJobs(t)
        /\ jobs'[t].stage = "lookup" /\ SameWork(t) /\ SameHits(t)
    BY <1>4, JobGoes DEF Shape, JobStages
  <2>2. JobsOK'
    BY <2>1, <1>0, FilingFacts, FilingGoes DEF Shape
  <2> QED BY <1>0, <1>1, <1>2, <1>3, <2>1, <2>2 DEF Shape
<1>5. CASE jobs' = [jobs EXCEPT ![t] = NoJob]
  BY <1>0, <1>1, <1>2, <1>3, <1>5, JobEnds DEF Shape
<1> QED BY <1>4, <1>5 DEF Chunk

LEMMA LookUpStep ==
  ASSUME Shape, NEW t \in IndexThreads, LookUp(t)
  PROVE  /\ Shape' /\ UNCHANGED <<scene, files, disk, procs, history>> /\ OtherJobs(t)
         /\ jobs[t].stage = "lookup" /\ jobs'[t].stage \in {"drop", "call"} /\ SameWork(t) /\ SameHits(t)
         /\ jobs'[t].vec = Known(jobs[t].doc, Space(t)) /\ jobs'[t].label = Space(t)
<1> DEFINE vec == Known(jobs[t].doc, Space(t))
           stage == IF DOMAIN vec = Batches THEN "drop" ELSE "call"
<1>0. /\ jobs[t].stage = "lookup" /\ UNCHANGED <<scene, files, disk, procs, history>>
      /\ jobs' = [jobs EXCEPT ![t].vec = vec, ![t].label = Space(t), ![t].stage = stage]
  BY DEF LookUp, JobAt
<1>1. vec \in Vectors /\ Space(t) \in Spaces /\ stage \in JobStages /\ stage \in {"drop", "call"}
  BY KnownFacts, ProcFacts DEF Shape, JobStages
<1>2. stage = "call" => DOMAIN vec # Batches
  OBVIOUS
<1>3. stage = "drop" => DOMAIN vec = Batches
  OBVIOUS
<1> HIDE DEF vec, stage
<1>4. /\ jobs' \in [IndexThreads -> Job] /\ OtherJobs(t)
      /\ jobs'[t].stage = stage /\ jobs'[t].vec = vec /\ jobs'[t].label = Space(t)
      /\ SameWork(t) /\ SameHits(t)
  BY <1>0, <1>1 DEF Shape, JobsOK, Job, OtherJobs, SameWork, SameHits
<1>5. JobsOK'
  BY <1>0, <1>1, <1>2, <1>3, <1>4, FilingFacts, FilingGoes DEF Shape
<1> QED BY <1>0, <1>1, <1>4, <1>5, Keeping, SceneKept DEF Shape, vec

\* Nothing on the disk but the cache of vectors has changed.
OnlyCache == /\ disk'.saved = disk.saved /\ disk'.snap = disk.snap /\ disk'.cat = disk.cat
             /\ disk'.fts = disk.fts /\ disk'.backup = disk.backup
LEMMA CacheStep ==
  ASSUME DiskOK, NEW cache \in SUBSET Cached, disk' = [disk EXCEPT !.cache = cache]
  PROVE  DiskOK' /\ OnlyCache /\ disk'.cache = cache
BY DEF DiskOK, Disk, OnlyCache

\* A batch has arrived.
Arrived(t) ==
  \E b \in Batches \ DOMAIN jobs[t].vec, space \in Spaces :
    /\ jobs'[t].vec = With(jobs[t].vec, b, space) /\ jobs'[t].label = jobs[t].label
    /\ jobs'[t].stage \in {"store", "call"} /\ SameWork(t) /\ SameHits(t)
    /\ Shifts(jobs[t].doc, jobs[t].label, space) /\ UNCHANGED disk
\* The document was moved to the local space.
FellBack(t) ==
  /\ jobs'[t].vec = FallbackVectors(jobs[t].vec) /\ jobs'[t].label = "local" /\ jobs'[t].stage = "drop"
  /\ SameWork(t) /\ SameHits(t) /\ OnlyCache /\ UNCHANGED history
  /\ disk'.cache = Cache(jobs[t].doc, "local", FallbackVectors(jobs[t].vec))

LEMMA CallStep ==
  ASSUME Shape, NEW t \in IndexThreads, CallEmbedding(t)
  PROVE  /\ Shape' /\ Spent /\ UNCHANGED files /\ SameMemory /\ OtherJobs(t) /\ jobs[t].stage = "call"
         /\ \/ Arrived(t)
            \/ FellBack(t)
            \/ jobs'[t] = NoJob /\ UNCHANGED <<disk, history>>
<1> DEFINE job == jobs[t]
           next == CHOOSE b \in Batches \ DOMAIN job.vec : TRUE
           config == procs[ProcOf[t]].config
           Got(space) ==
             LET vec == With(job.vec, next, space)
             IN /\ jobs' = [jobs EXCEPT ![t].vec = vec,
                                        ![t].stage = IF DOMAIN vec = Batches THEN "store" ELSE "call"]
                /\ Shifts(job.doc, job.label, space)
                /\ UNCHANGED <<disk, procs>>
           Fell == LET vec == FallbackVectors(job.vec)
                   IN /\ procs' = [procs EXCEPT ![ProcOf[t]].space = "local"]
                      /\ disk' = [disk EXCEPT !.cache = Cache(job.doc, "local", vec)]
                      /\ jobs' = [jobs EXCEPT ![t].vec = vec, ![t].label = "local", ![t].stage = "drop"]
                      /\ UNCHANGED history
<1>0. job.stage = "call" /\ UNCHANGED files
  BY DEF CallEmbedding, JobAt
<1>1. /\ Got(config) \/ Got("local") \/ Fell \/ (jobs' = [jobs EXCEPT ![t] = NoJob] /\ UNCHANGED <<disk, procs, history>>)
      /\ UNCHANGED scene \/ Use("outages")
  BY DEF CallEmbedding
<1>2. /\ Filing(job) /\ job.kind # "clear" /\ job.doc \in Docs /\ DOMAIN job.vec # Batches /\ job.vec \in Vectors
  BY <1>0, FilingFacts, JobFacts DEF Shape
<1>3. next \in Batches \ DOMAIN job.vec
  BY <1>2, VectorFacts
<1>4. FilesOK' /\ SceneOK' /\ Spent
  BY <1>0, <1>1, Keeping, SceneKept, UseFacts DEF Shape
<1>5. config \in Spaces /\ "local" \in Spaces /\ ProcOf[t] \in Procs
  BY ProcFacts DEF Shape, Spaces
<1>6. ASSUME NEW space \in Spaces, Got(space)
      PROVE  Shape' /\ SameMemory /\ OtherJobs(t) /\ Arrived(t)
  <2> DEFINE vec == With(job.vec, next, space)
             stage == IF DOMAIN vec = Batches THEN "store" ELSE "call"
  <2>1. /\ jobs' = [jobs EXCEPT ![t].vec = vec, ![t].stage = stage]
        /\ Shifts(job.doc, job.label, space) /\ UNCHANGED <<disk, procs>>
    BY <1>6
  <2>2. vec \in Vectors
    BY <1>2, <1>3, VectorGrows
  <2>3. /\ stage \in JobStages /\ stage \in {"store", "call"}
        /\ stage = "call" => DOMAIN vec # Batches
        /\ stage = "store" => DOMAIN vec = Batches
    BY DEF JobStages
  <2> HIDE DEF vec, stage, Got, next
  <2>4. /\ jobs' \in [IndexThreads -> Job] /\ OtherJobs(t)
        /\ jobs'[t].stage = stage /\ jobs'[t].vec = vec /\ jobs'[t].label = jobs[t].label
        /\ SameWork(t) /\ SameHits(t)
    BY <2>1, <2>2, <2>3 DEF Shape, JobsOK, Job, OtherJobs, SameWork, SameHits
  <2>5. JobsOK'
    BY <2>3, <2>4, <1>2, FilingGoes DEF Shape
  <2>6. HistoryOK'
    BY <2>1, <1>2, ShiftStep DEF Shape
  <2>7. ProcsOK' /\ SameMemory /\ DiskOK'
    BY <2>1, Keeping, SameMemoryFacts DEF Shape
  <2>8. Arrived(t)
    BY <1>3, <2>1, <2>3, <2>4 DEF Arrived, vec
  <2> QED BY <1>4, <2>4, <2>5, <2>6, <2>7, <2>8 DEF Shape
<1>7. ASSUME Fell
      PROVE  Shape' /\ SameMemory /\ OtherJobs(t) /\ FellBack(t)
  <2> DEFINE vec == FallbackVectors(job.vec)
  <2>1. /\ procs' = [procs EXCEPT ![ProcOf[t]].space = "local"]
        /\ disk' = [disk EXCEPT !.cache = Cache(job.doc, "local", vec)]
        /\ jobs' = [jobs EXCEPT ![t].vec = vec, ![t].label = "local", ![t].stage = "drop"]
        /\ UNCHANGED history
    BY <1>7
  <2>2. vec \in Vectors /\ DOMAIN vec = Batches
    BY FallbackFacts
  <2> HIDE DEF vec, Fell
  <2>3. DiskOK' /\ OnlyCache /\ disk'.cache = Cache(job.doc, "local", vec)
    <3>1. Cache(job.doc, "local", vec) \subseteq Cached
      BY <1>2, <1>5, <2>2, CacheFacts DEF Shape
    <3> QED BY <3>1, <2>1, CacheStep DEF Shape
  <2>4. /\ jobs' \in [IndexThreads -> Job] /\ OtherJobs(t)
        /\ jobs'[t].stage = "drop" /\ jobs'[t].vec = vec /\ jobs'[t].label = "local"
        /\ SameWork(t) /\ SameHits(t)
    <3> DEFINE after == [jobs[t] EXCEPT !.vec = vec, !.label = "local", !.stage = "drop"]
    <3>1. jobs \in [IndexThreads -> Job] /\ jobs[t] \in Job
      BY DEF Shape, JobsOK
    <3>2. jobs' = [jobs EXCEPT ![t] = after]
      BY <2>1
    <3>3. after \in Job
      BY <3>1, <2>2, <1>5 DEF Job, JobStages
    <3>4. /\ after.stage = "drop" /\ after.vec = vec /\ after.label = "local"
          /\ after.kind = jobs[t].kind /\ after.todo = jobs[t].todo /\ after.path = jobs[t].path
          /\ after.doc = jobs[t].doc /\ after.hits = jobs[t].hits /\ after.file = jobs[t].file
      BY <3>1 DEF Job
    <3> HIDE DEF after
    <3> QED BY <3>1, <3>2, <3>3, <3>4 DEF OtherJobs, SameWork, SameHits
  <2>5. JobsOK'
    BY <2>2, <2>4, <1>2, FilingGoes DEF Shape
  <2>6. ProcsOK' /\ SameMemory
    BY <2>1, <1>5, SpaceStep, SameMemoryFacts DEF Shape
  <2>7. HistoryOK'
    BY <2>1, Keeping
  <2>8. FellBack(t)
    BY <2>1, <2>3, <2>4 DEF FellBack, vec
  <2> QED BY <1>4, <2>3, <2>4, <2>5, <2>6, <2>7, <2>8 DEF Shape
<1>8. ASSUME jobs' = [jobs EXCEPT ![t] = NoJob], UNCHANGED <<disk, procs, history>>
      PROVE  Shape' /\ SameMemory /\ OtherJobs(t) /\ jobs'[t] = NoJob
  BY <1>4, <1>8, JobEnds, Keeping, SameMemoryFacts DEF Shape
<1> HIDE DEF Fell, Got
<1> QED BY <1>0, <1>1, <1>4, <1>5, <1>6, <1>7, <1>8

LEMMA StoreStep ==
  ASSUME Shape, NEW t \in IndexThreads, StoreVectors(t)
  PROVE  /\ Shape' /\ UNCHANGED <<scene, files, procs>> /\ OnlyCache /\ OtherJobs(t)
         /\ disk'.cache = Cache(jobs[t].doc, Space(t), jobs[t].vec)
         /\ jobs[t].stage = "store" /\ jobs'[t].stage = "drop" /\ SameWork(t) /\ SameHits(t) /\ SameVec(t)
         /\ Shifts(jobs[t].doc, jobs[t].label, Space(t))
<1>0. /\ jobs[t].stage = "store" /\ UNCHANGED <<scene, files, procs>> /\ Goto(t, "drop")
      /\ disk' = [disk EXCEPT !.cache = Cache(jobs[t].doc, Space(t), jobs[t].vec)]
      /\ Shifts(jobs[t].doc, jobs[t].label, Space(t))
  BY DEF StoreVectors, JobAt
<1>1. /\ Filing(jobs[t]) /\ jobs[t].kind # "clear" /\ jobs[t].doc \in Docs /\ DOMAIN jobs[t].vec = Batches
      /\ jobs[t].vec \in Vectors /\ Space(t) \in Spaces
  BY <1>0, FilingFacts, JobFacts, ProcFacts DEF Shape
<1>2. Cache(jobs[t].doc, Space(t), jobs[t].vec) \subseteq Cached
  BY <1>1, CacheFacts DEF Shape
<1>3. DiskOK' /\ OnlyCache /\ disk'.cache = Cache(jobs[t].doc, Space(t), jobs[t].vec)
  BY <1>0, <1>2, CacheStep DEF Shape
<1>4. /\ jobs' \in [IndexThreads -> Job] /\ OtherJobs(t)
      /\ jobs'[t].stage = "drop" /\ SameWork(t) /\ SameHits(t) /\ SameVec(t)
  BY <1>0, JobGoes DEF Shape, JobStages
<1>5. JobsOK'
  BY <1>1, <1>4, FilingGoes DEF Shape, SameVec
<1>6. HistoryOK'
  BY <1>0, <1>1, ShiftStep DEF Shape
<1> QED BY <1>0, <1>3, <1>4, <1>5, <1>6, Keeping, SceneKept DEF Shape

LEMMA DropStep ==
  ASSUME Shape, NEW t \in IndexThreads, DropOld(t)
  PROVE  /\ Shape' /\ UNCHANGED <<scene, files, disk>> /\ OtherJobs(t) /\ OtherProcs(ProcOf[t])
         /\ SameSwitches(ProcOf[t])
         /\ procs'[ProcOf[t]].docs =
              Without(Memory(t), OldVersions(Memory(t), jobs[t].path, jobs[t].doc) \cup {jobs[t].doc})
         /\ jobs[t].stage = "drop" /\ jobs'[t].stage = "insert" /\ SameWork(t) /\ SameHits(t)
         /\ jobs'[t].vec = jobs[t].vec /\ jobs'[t].label = Space(t)
         /\ Shifts(jobs[t].doc, jobs[t].label, Space(t))
<1> DEFINE docs == Without(Memory(t), OldVersions(Memory(t), jobs[t].path, jobs[t].doc) \cup {jobs[t].doc})
<1>0. /\ jobs[t].stage = "drop" /\ UNCHANGED <<scene, files, disk>>
      /\ jobs' = [jobs EXCEPT ![t].stage = "insert", ![t].label = Space(t)]
      /\ procs' = [procs EXCEPT ![ProcOf[t]].docs = docs]
      /\ Shifts(jobs[t].doc, jobs[t].label, Space(t))
  BY DEF DropOld, JobAt, Label, Memory
<1>1. /\ Filing(jobs[t]) /\ jobs[t].kind # "clear" /\ jobs[t].doc \in Docs /\ DOMAIN jobs[t].vec = Batches
      /\ Space(t) \in Spaces /\ Memory(t) \in Library /\ ProcOf[t] \in Procs
  BY <1>0, FilingFacts, JobFacts, ProcFacts DEF Shape
<1>2. docs \in Library
  BY <1>1, WithoutFacts
<1> HIDE DEF docs
<1>3. /\ ProcsOK' /\ OtherProcs(ProcOf[t]) /\ SameSwitches(ProcOf[t]) /\ procs'[ProcOf[t]].docs = docs
  BY <1>0, <1>1, <1>2, MemoryStep DEF Shape
<1>4. /\ jobs' \in [IndexThreads -> Job] /\ OtherJobs(t)
      /\ jobs'[t].stage = "insert" /\ SameWork(t) /\ SameHits(t)
      /\ jobs'[t].vec = jobs[t].vec /\ jobs'[t].label = Space(t)
  BY <1>0, <1>1 DEF Shape, JobsOK, Job, JobStages, OtherJobs, SameWork, SameHits
<1>5. JobsOK'
  BY <1>1, <1>4, FilingGoes DEF Shape
<1>6. HistoryOK'
  BY <1>0, <1>1, ShiftStep DEF Shape
<1> QED BY <1>0, <1>3, <1>4, <1>5, <1>6, Keeping, SceneKept DEF Shape, docs

LEMMA EnterStep ==
  ASSUME Shape, NEW t \in IndexThreads, Enter(t)
  PROVE  /\ Shape' /\ UNCHANGED <<scene, files, disk, history>> /\ OtherJobs(t) /\ OtherProcs(ProcOf[t])
         /\ SameSwitches(ProcOf[t])
         /\ LET new == [path |-> jobs[t].path, label |-> jobs[t].label, vec |-> jobs[t].vec]
            IN new \in Stored /\ procs'[ProcOf[t]].docs = With(Memory(t), jobs[t].doc, new)
         /\ jobs[t].stage = "insert" /\ jobs'[t].stage = "commit" /\ SameWork(t) /\ SameHits(t) /\ SameVec(t)
<1> DEFINE new == [path |-> jobs[t].path, label |-> jobs[t].label, vec |-> jobs[t].vec]
           docs == With(Memory(t), jobs[t].doc, new)
<1>0. /\ jobs[t].stage = "insert" /\ UNCHANGED <<scene, files, disk, history>> /\ Goto(t, "commit")
      /\ procs' = [procs EXCEPT ![ProcOf[t]].docs = docs]
  BY DEF Enter, JobAt, Memory
<1>1. /\ Filing(jobs[t]) /\ jobs[t].kind # "clear" /\ jobs[t].doc \in Docs /\ DOMAIN jobs[t].vec = Batches
      /\ jobs[t].path \in Paths /\ jobs[t].doc \in Versions[jobs[t].path]
      /\ jobs[t].vec \in Vectors /\ jobs[t].label \in Spaces /\ Memory(t) \in Library /\ ProcOf[t] \in Procs
  BY <1>0, FilingFacts, JobFacts, ProcFacts DEF Shape
<1>2. new \in Stored /\ new.path = jobs[t].path
  BY <1>1, VectorFacts DEF Stored
<1>3. docs \in Library
  BY <1>1, <1>2, WithFacts
<1> HIDE DEF new, docs
<1>4. /\ ProcsOK' /\ OtherProcs(ProcOf[t]) /\ SameSwitches(ProcOf[t]) /\ procs'[ProcOf[t]].docs = docs
  BY <1>0, <1>1, <1>3, MemoryStep DEF Shape
<1>5. /\ jobs' \in [IndexThreads -> Job] /\ OtherJobs(t)
      /\ jobs'[t].stage = "commit" /\ SameWork(t) /\ SameHits(t) /\ SameVec(t)
  BY <1>0, JobGoes DEF Shape, JobStages
<1>6. JobsOK'
  BY <1>1, <1>5, FilingGoes DEF Shape
<1> QED BY <1>0, <1>2, <1>4, <1>5, <1>6, Keeping, SceneKept DEF Shape, docs, new

\* The new row is active and in the full-text table; of the others, only old
\* versions of the path leave either.
Committed(j) ==
  /\ disk'.saved = disk.saved /\ disk'.snap = disk.snap /\ disk'.cache = disk.cache
  /\ disk'.backup = disk.backup /\ j.doc \in disk'.fts
  /\ \A d \in Docs \ {j.doc} : d \in DOMAIN disk'.cat /\ disk'.cat[d].active =>
       /\ d \in DOMAIN disk.cat /\ disk.cat[d].active
       /\ d \in disk.fts => d \in disk'.fts
  /\ \A d \in disk.fts : d \notin Versions[j.path] => d \in disk'.fts
LEMMA CommitFacts ==
  ASSUME DiskOK, NEW j \in Job, j.path \in Paths, j.doc \in Docs, j.doc \in Versions[j.path],
         disk' = CommitRow(j)
  PROVE  DiskOK' /\ Committed(j)
<1> DEFINE old == {d \in DOMAIN disk.cat \ {j.doc} : disk.cat[d].path = j.path /\ disk.cat[d].active}
           new == [path |-> j.path, source |-> Source(j.path, j.doc),
                   label |-> j.label, active |-> TRUE]
           rows == [d \in DOMAIN disk.cat |-> [disk.cat[d] EXCEPT !.active = @ /\ d \notin old]]
           cat == With(rows, j.doc, new)
           fts == (disk.fts \ old) \cup {j.doc}
<1>1. disk' = [disk EXCEPT !.cat = cat, !.fts = fts]
  BY DEF CommitRow
<1>2. disk \in Disk /\ disk.cat \in Catalog /\ disk.fts \subseteq Docs
  BY DEF DiskOK, Disk
<1>3. new \in Row /\ new.path = j.path
  BY DEF Row, Job, Source
<1>4. old \subseteq Versions[j.path] /\ old \subseteq DOMAIN disk.cat /\ DOMAIN disk.cat \subseteq Docs
  BY <1>2, CatalogFacts
<1> HIDE DEF old, new
<1>5. /\ DOMAIN rows = DOMAIN disk.cat
      /\ \A d \in DOMAIN disk.cat : /\ rows[d] \in Row /\ rows[d].path = disk.cat[d].path
                                    /\ rows[d].active => disk.cat[d].active /\ d \notin old
  <2>1. DOMAIN rows = DOMAIN disk.cat
    OBVIOUS
  <2>2. ASSUME NEW d \in DOMAIN disk.cat
        PROVE  /\ rows[d] \in Row /\ rows[d].path = disk.cat[d].path
               /\ rows[d].active => disk.cat[d].active /\ d \notin old
    <3>1. disk.cat[d] \in Row
      BY <1>2, CatalogFacts
    <3>2. rows[d] = [disk.cat[d] EXCEPT !.active = disk.cat[d].active /\ d \notin old]
      OBVIOUS
    <3>3. (disk.cat[d].active /\ d \notin old) \in BOOLEAN
      OBVIOUS
    <3> HIDE DEF rows
    <3> QED BY <3>1, <3>2, <3>3 DEF Row
  <2> QED BY <2>1, <2>2
<1> HIDE DEF rows
<1>6. /\ cat \in [DOMAIN disk.cat \cup {j.doc} -> Row]
      /\ cat[j.doc] = new /\ \A d \in DOMAIN disk.cat \ {j.doc} : cat[d] = rows[d]
  BY <1>3, <1>5 DEF With
<1> HIDE DEF cat
<1>7. cat \in Catalog
  <2>1. \A d \in DOMAIN disk.cat \cup {j.doc} : d \in Versions[cat[d].path]
    BY <1>2, <1>3, <1>5, <1>6, CatalogFacts
  <2> QED BY <1>4, <1>6, <2>1, CatalogIntro
<1>8. fts \in SUBSET Docs
  BY <1>2
<1>9. disk' \in Disk /\ disk'.cat = cat /\ disk'.fts = fts
      /\ disk'.saved = disk.saved /\ disk'.snap = disk.snap /\ disk'.cache = disk.cache
      /\ disk'.backup = disk.backup
  <2> HIDE DEF fts
  <2> QED BY <1>1, <1>2, <1>7, <1>8 DEF Disk
<1>10. \A d \in Docs \ {j.doc} : d \in DOMAIN cat /\ cat[d].active =>
         d \in DOMAIN disk.cat /\ disk.cat[d].active /\ d \notin old
  BY <1>5, <1>6
<1> QED BY <1>4, <1>9, <1>10 DEF DiskOK, Committed

\* The exception has ended the job; what memory has of its document is doubtful.
Failed(t) ==
  /\ jobs'[t] = NoJob /\ UNCHANGED disk
  /\ history'.reported = history.reported /\ history'.shifted = history.shifted
  /\ history.doubtful \subseteq history'.doubtful
  /\ jobs[t].doc \in Docs => jobs[t].doc \in history'.doubtful
LEMMA FailStep ==
  ASSUME Shape, NEW t \in IndexThreads, Fail(t), UNCHANGED <<files, procs>>
  PROVE  Shape' /\ Spent /\ OtherJobs(t) /\ Failed(t)
<1>1. SceneOK' /\ Spent
  BY UseFacts DEF Fail, Shape
<1>2. JobsOK' /\ OtherJobs(t) /\ jobs'[t] = NoJob
  BY JobEnds DEF Fail, Shape
<1>3. jobs[t].doc \in Docs \cup {NoDoc}
  BY JobFacts DEF Shape
<1>4. HistoryOK' /\ history'.reported = history.reported /\ history'.shifted = history.shifted
      /\ history'.doubtful = history.doubtful \cup ({jobs[t].doc} \ {NoDoc})
  BY <1>3 DEF Fail, Shape, HistoryOK
<1>5. UNCHANGED disk
  BY DEF Fail
<1> QED BY <1>1, <1>2, <1>4, <1>5, Keeping, VersionFacts DEF Shape, Failed

LEMMA CommitStep ==
  ASSUME Shape, NEW t \in IndexThreads, Commit(t)
  PROVE  /\ Shape' /\ Spent /\ UNCHANGED <<files, procs>> /\ OtherJobs(t) /\ jobs[t].stage = "commit"
         /\ \/ /\ Committed(jobs[t]) /\ UNCHANGED history
               /\ jobs'[t].stage = "dump" /\ SameWork(t) /\ SameHits(t)
            \/ Failed(t)
<1>0. jobs[t].stage = "commit" /\ UNCHANGED <<files, procs>>
  BY DEF Commit, JobAt
<1>1. CASE disk' = CommitRow(jobs[t]) /\ Goto(t, "dump") /\ UNCHANGED <<scene, history>>
  <2>1. /\ Filing(jobs[t]) /\ jobs[t].kind # "clear" /\ jobs[t].doc \in Docs /\ jobs[t] \in Job
        /\ jobs[t].path \in Paths /\ jobs[t].doc \in Versions[jobs[t].path]
    BY <1>0, FilingFacts, JobFacts DEF Shape
  <2>2. DiskOK' /\ Committed(jobs[t])
    BY <1>1, <2>1, CommitFacts DEF Shape
  <2>3. /\ jobs' \in [IndexThreads -> Job] /\ OtherJobs(t)
        /\ jobs'[t].stage = "dump" /\ SameWork(t) /\ SameHits(t)
    BY <1>1, JobGoes DEF Shape, JobStages
  <2>4. JobsOK'
    BY <2>1, <2>3, FilingGoes DEF Shape
  <2> QED BY <1>0, <1>1, <2>2, <2>3, <2>4, Keeping, SceneKept DEF Shape
<1>2. CASE Fail(t)
  BY <1>0, <1>2, FailStep
<1> QED BY <1>1, <1>2 DEF Commit

LEMMA DumpStep ==
  ASSUME Shape, NEW t \in IndexThreads, Dump(t)
  PROVE  /\ Shape' /\ UNCHANGED <<scene, files, disk, procs, history>> /\ OtherJobs(t)
         /\ jobs[t].stage = "dump" /\ jobs'[t].stage = "replace" /\ SameWork(t)
         /\ jobs'[t].hits = {} /\ jobs'[t].file = Memory(t)
<1>0. /\ jobs[t].stage = "dump" /\ UNCHANGED <<scene, files, disk, procs, history>>
      /\ jobs' = [jobs EXCEPT ![t].file = Memory(t), ![t].stage = "replace"]
  BY DEF Dump, JobAt
<1>1. Memory(t) \in Library /\ JobOK(jobs[t])
  BY ProcFacts, JobFacts DEF Shape
<1>2. /\ jobs' \in [IndexThreads -> Job] /\ OtherJobs(t)
      /\ jobs'[t].stage = "replace" /\ SameWork(t) /\ jobs'[t].hits = jobs[t].hits /\ jobs'[t].file = Memory(t)
  BY <1>0, <1>1 DEF Shape, JobsOK, Job, JobStages, OtherJobs, SameWork
<1>3. jobs[t].hits = {}
  BY <1>0, <1>1 DEF JobOK
<1>4. JobOK(jobs'[t])
  BY <1>0, <1>1, <1>2, <1>3 DEF JobOK, Filing, SameWork
<1>5. JobsOK'
  BY <1>2, <1>4, JobStep DEF Shape
<1> QED BY <1>0, <1>2, <1>3, <1>5, Keeping, SceneKept DEF Shape

\* The snapshot is what was read from memory, and the document is reported.
Replaced(t) ==
  /\ disk'.snap = jobs[t].file /\ disk'.cat = disk.cat /\ disk'.fts = disk.fts /\ disk'.cache = disk.cache
  /\ disk'.backup = disk.backup
  /\ history'.doubtful = history.doubtful \ {jobs[t].doc} /\ history'.shifted = history.shifted
  /\ jobs[t].kind = "clear" => history'.reported = history.reported
  /\ jobs[t].kind # "clear" =>
       /\ history'.reported[jobs[t].path] = <<jobs[t].doc, ProcOf[t]>>
       /\ \A q \in Paths \ {jobs[t].path} : history'.reported[q] = history.reported[q]
  /\ jobs'[t].stage \in {"parse", "filter", "idle"} /\ jobs'[t].kind # "clear"
  /\ jobs'[t].todo \subseteq jobs[t].todo /\ jobs'[t].path \in {jobs[t].path, NoDoc}
  /\ jobs'[t].hits = {} /\ jobs'[t].file = << >>
LEMMA ReplaceStep ==
  ASSUME Shape, NEW t \in IndexThreads, Replace(t)
  PROVE  /\ Shape' /\ Spent /\ UNCHANGED <<files, procs>> /\ OtherJobs(t) /\ jobs[t].stage = "replace"
         /\ Replaced(t) \/ Failed(t)
<1>0. jobs[t].stage = "replace" /\ UNCHANGED <<files, procs>>
  BY DEF Replace, JobAt
<1>1. CASE Fail(t)
  BY <1>0, <1>1, FailStep
<1>2. CASE ~Fail(t)
  <2> DEFINE j == [jobs[t] EXCEPT !.file = << >>]
             k == AfterDocument(j)
  <2>1. /\ disk' = [disk EXCEPT !.snap = jobs[t].file, !.saved = TRUE]
        /\ history' = [history EXCEPT
             !.doubtful = @ \ {jobs[t].doc},
             !.reported = IF jobs[t].kind = "clear" THEN @
                          ELSE [@ EXCEPT ![jobs[t].path] = <<jobs[t].doc, ProcOf[t]>>]]
        /\ jobs' = [jobs EXCEPT ![t] = k] /\ UNCHANGED scene
    BY <1>2 DEF Replace
  <2>2. /\ jobs[t] \in Job /\ jobs[t].hits = {} /\ jobs[t].file \in Library
        /\ jobs[t].kind = "clear" => jobs[t].todo = {}
        /\ jobs[t].kind # "clear" => jobs[t].path \in Paths /\ jobs[t].doc \in Versions[jobs[t].path]
    BY <1>0, JobFacts DEF JobOK, Filing, Shape
  <2>3. /\ j \in Job /\ j.hits = {} /\ j.kind = jobs[t].kind /\ j.todo = jobs[t].todo /\ j.path = jobs[t].path
        /\ j.file = << >>
    BY <2>2, EmptyLibrary DEF Job
  <2> HIDE DEF j
  <2>4. /\ k \in Job /\ JobOK(k) /\ k.stage \in {"parse", "filter", "idle"} /\ k.kind # "clear"
        /\ k.todo \subseteq j.todo /\ k.path \in {j.path, NoDoc} /\ k.file = << >> /\ k.hits = {}
    BY <2>2, <2>3, AfterFacts
  <2> HIDE DEF k
  <2>5. jobs' \in [IndexThreads -> Job] /\ OtherJobs(t) /\ jobs'[t] = k
    BY <2>1, <2>4 DEF OtherJobs, Shape, JobsOK
  <2>6. JobsOK'
    BY <2>4, <2>5, JobStep DEF Shape
  <2>7. /\ DiskOK' /\ disk'.snap = jobs[t].file /\ disk'.cat = disk.cat /\ disk'.fts = disk.fts
        /\ disk'.cache = disk.cache /\ disk'.backup = disk.backup
    BY <2>1, <2>2 DEF Shape, DiskOK, Disk
  <2>8. ProcOf[t] \in Procs
    BY IndexAssumption
  <2>9. /\ HistoryOK' /\ history'.doubtful = history.doubtful \ {jobs[t].doc}
        /\ history'.shifted = history.shifted
        /\ jobs[t].kind = "clear" => history'.reported = history.reported
        /\ jobs[t].kind # "clear" =>
             /\ history'.reported[jobs[t].path] = <<jobs[t].doc, ProcOf[t]>>
             /\ \A q \in Paths \ {jobs[t].path} : history'.reported[q] = history.reported[q]
    <3>1. CASE jobs[t].kind = "clear"
      <4>1. history' = [history EXCEPT !.doubtful = @ \ {jobs[t].doc}]
        BY <2>1, <3>1 DEF Shape, HistoryOK
      <4> QED BY <3>1, <4>1 DEF Shape, HistoryOK
    <3>2. CASE jobs[t].kind # "clear"
      <4>1. <<jobs[t].doc, ProcOf[t]>> \in Versions[jobs[t].path] \X Procs
            /\ <<jobs[t].doc, ProcOf[t]>> \in Docs \X Procs
        BY <2>2, <2>8, <3>2, VersionFacts
      <4>2. history' = [history EXCEPT !.doubtful = @ \ {jobs[t].doc},
                          !.reported = [@ EXCEPT ![jobs[t].path] = <<jobs[t].doc, ProcOf[t]>>]]
        BY <2>1, <3>2
      <4> QED BY <2>2, <3>2, <4>1, <4>2 DEF Shape, HistoryOK
    <3> QED BY <3>1, <3>2
  <2>10. Replaced(t)
    BY <2>3, <2>4, <2>5, <2>7, <2>9 DEF Replaced
  <2> QED BY <1>0, <2>1, <2>5, <2>6, <2>7, <2>9, <2>10, Keeping, SceneKept DEF Shape
<1> QED BY <1>1, <1>2

\* A search goes on, with the chunks it had or the ones that memory has now.
Searched(t) ==
  /\ jobs'[t].stage \in {"filter", "recall", "rank", "cite", "idle"} /\ jobs'[t].kind # "clear"
  /\ jobs'[t].todo \subseteq jobs[t].todo /\ jobs'[t].path \in {jobs[t].path, NoDoc}
  /\ jobs'[t].hits \subseteq DOMAIN jobs'[t].file
  /\ jobs'[t].file \in {jobs[t].file, << >>} \cup Filtered(Memory(t))
LEMMA SearchedJob ==
  ASSUME Shape, NEW t \in IndexThreads, NEW new \in Job, jobs' = [jobs EXCEPT ![t] = new],
         new.stage \in {"filter", "recall", "rank", "cite", "idle"}, new.kind # "clear",
         new.todo \subseteq jobs[t].todo, new.path \in {jobs[t].path, NoDoc}, new.hits \subseteq DOMAIN new.file,
         new.stage \in {"rank", "cite", "idle"} \/ new.hits = {},
         new.file \in {jobs[t].file, << >>} \cup Filtered(Memory(t)),
         SceneOK' /\ Spent, UNCHANGED <<files, disk, procs, history>>
  PROVE  Shape' /\ OtherJobs(t) /\ Searched(t)
<1>1. jobs' \in [IndexThreads -> Job] /\ OtherJobs(t) /\ jobs'[t] = new
  BY DEF OtherJobs, Shape, JobsOK
<1>2. JobOK(new)
  BY DEF JobOK, Filing
<1>3. JobsOK'
  BY <1>1, <1>2, JobStep DEF Shape
<1> QED BY <1>1, <1>3, Keeping DEF Shape, Searched

SearchSteps(t) == StartSearch(t) \/ Filter(t) \/ Recall(t) \/ Rank(t) \/ Cite(t)
LEMMA SearchStep ==
  ASSUME Shape, NEW t \in IndexThreads, SearchSteps(t)
  PROVE  /\ Shape' /\ Spent /\ UNCHANGED <<files, disk, procs, history>> /\ OtherJobs(t) /\ Searched(t)
         /\ ~Filing(jobs[t])
<1> DEFINE j == jobs[t]
<1>0. /\ j \in Job /\ JobOK(j) /\ j.hits \subseteq DOMAIN j.file /\ j.file \in Library /\ Memory(t) \in Library
      /\ j.stage \in {"rank", "cite", "idle"} \/ j.hits = {}
  BY JobFacts, ProcFacts DEF Shape, JobOK
<1>1. CASE StartSearch(t)
  <2> DEFINE new == [NoJob EXCEPT !.stage = "filter", !.kind = "search"]
  <2>1. /\ new \in Job /\ new.stage = "filter" /\ new.kind = "search" /\ new.todo = {} /\ new.path = NoDoc
        /\ new.hits = {} /\ new.file = << >>
    BY NoJobFacts DEF Job, JobStages, JobKinds
  <2>2. j.stage = "idle" /\ jobs' = [jobs EXCEPT ![t] = new] /\ UNCHANGED <<files, disk, procs, history>>
    BY <1>1 DEF StartSearch, JobAt
  <2>3. SceneOK' /\ Spent
    BY <1>1, UseFacts DEF StartSearch, Shape
  <2>4. ~Filing(j)
    BY <2>2 DEF Filing
  <2> HIDE DEF new
  <2> QED BY <2>1, <2>2, <2>3, <2>4, SearchedJob
<1>2. CASE Filter(t)
  <2>1. PICK file \in Filtered(Memory(t)) : jobs' = [jobs EXCEPT ![t].file = file, ![t].stage = "recall"]
    BY <1>2 DEF Filter
  <2> DEFINE new == [j EXCEPT !.file = file, !.stage = "recall"]
  <2>2. j.stage = "filter" /\ UNCHANGED <<scene, files, disk, procs, history>>
    BY <1>2 DEF Filter, JobAt
  <2>3. file \in Library
    BY <1>0, FilteredFacts
  <2>4. /\ new \in Job /\ new.stage = "recall" /\ new.kind = j.kind /\ new.todo = j.todo /\ new.path = j.path
        /\ new.hits = j.hits /\ new.file = file
    BY <1>0, <2>3 DEF Job, JobStages
  <2>5. j.hits = {} /\ j.kind # "clear" /\ ~Filing(j)
    BY <1>0, <2>2 DEF JobOK, Filing
  <2>6. jobs' = [jobs EXCEPT ![t] = new]
    BY <2>1 DEF Shape, JobsOK
  <2>7. SceneOK' /\ Spent
    BY <2>2, SceneKept DEF Shape
  <2> HIDE DEF new
  <2>8. new.todo \subseteq jobs[t].todo /\ new.path \in {jobs[t].path, NoDoc}
    BY <2>4
  <2> QED BY <2>2, <2>4, <2>5, <2>6, <2>7, <2>8, SearchedJob
<1>3. CASE Recall(t)
  <2>1. PICK space \in {procs[ProcOf[t]].config, "local"} :
          \E hits \in Fused(DenseHits(j.file, space), SparseHits(j.file)) \cup SUBSET ScoredHits(j.file) :
            jobs' = [jobs EXCEPT ![t].hits = hits, ![t].stage = "rank"]
    BY <1>3 DEF Recall
  <2>2. PICK hits \in Fused(DenseHits(j.file, space), SparseHits(j.file)) \cup SUBSET ScoredHits(j.file) :
            jobs' = [jobs EXCEPT ![t].hits = hits, ![t].stage = "rank"]
    BY <2>1
  <2>3. hits \subseteq DOMAIN j.file
    BY DEF Fused, DenseHits, SparseHits, ScoredHits
  <2> DEFINE new == [j EXCEPT !.hits = hits, !.stage = "rank"]
  <2>4. j.stage = "recall" /\ UNCHANGED <<scene, files, disk, procs, history>>
    BY <1>3 DEF Recall, JobAt
  <2>5. hits \subseteq Docs
    BY <1>0, <2>3, LibraryFacts
  <2>6. /\ new \in Job /\ new.stage = "rank" /\ new.kind = j.kind /\ new.todo = j.todo /\ new.path = j.path
        /\ new.hits = hits /\ new.file = j.file
    BY <1>0, <2>5 DEF Job, JobStages
  <2>7. j.kind # "clear" /\ ~Filing(j)
    BY <1>0, <2>4 DEF JobOK, Filing
  <2>8. jobs' = [jobs EXCEPT ![t] = new]
    BY <2>2 DEF Shape, JobsOK
  <2>9. SceneOK' /\ Spent
    BY <2>4, SceneKept DEF Shape
  <2> HIDE DEF new
  <2>10. new.todo \subseteq jobs[t].todo /\ new.path \in {jobs[t].path, NoDoc}
    BY <2>6
  <2> QED BY <2>3, <2>4, <2>6, <2>7, <2>8, <2>9, <2>10, SearchedJob
<1>4. CASE Rank(t)
  <2>1. PICK hits \in SUBSET j.hits : jobs' = [jobs EXCEPT ![t].hits = hits, ![t].stage = "cite"]
    <3>1. PICK a \in Reranked(j.hits) : \E b \in Thresholded(a) : \E c \in Judged(b) :
            \E d \in Expanded(c) : \E e \in Selected(d) :
              jobs' = [jobs EXCEPT ![t].hits = e, ![t].stage = "cite"]
      BY <1>4 DEF Rank
    <3>2. PICK b \in Thresholded(a) : \E c \in Judged(b) : \E d \in Expanded(c) : \E e \in Selected(d) :
              jobs' = [jobs EXCEPT ![t].hits = e, ![t].stage = "cite"]
      BY <3>1
    <3>3. PICK c \in Judged(b) : \E d \in Expanded(c) : \E e \in Selected(d) :
              jobs' = [jobs EXCEPT ![t].hits = e, ![t].stage = "cite"]
      BY <3>2
    <3>4. PICK d \in Expanded(c) : \E e \in Selected(d) :
              jobs' = [jobs EXCEPT ![t].hits = e, ![t].stage = "cite"]
      BY <3>3
    <3>5. PICK e \in Selected(d) : jobs' = [jobs EXCEPT ![t].hits = e, ![t].stage = "cite"]
      BY <3>4
    <3>6. a \subseteq j.hits /\ b \subseteq a /\ c \subseteq b /\ d \subseteq c /\ e \subseteq d
      BY DEF Reranked, Thresholded, Judged, Expanded, Selected
    <3> QED BY <3>5, <3>6
  <2> DEFINE new == [j EXCEPT !.hits = hits, !.stage = "cite"]
  <2>4. j.stage = "rank" /\ UNCHANGED <<scene, files, disk, procs, history>>
    BY <1>4 DEF Rank, JobAt
  <2>5. hits \subseteq Docs /\ hits \subseteq DOMAIN j.file
    BY <1>0 DEF Job
  <2>6. /\ new \in Job /\ new.stage = "cite" /\ new.kind = j.kind /\ new.todo = j.todo /\ new.path = j.path
        /\ new.hits = hits /\ new.file = j.file
    BY <1>0, <2>5 DEF Job, JobStages
  <2>7. j.kind # "clear" /\ ~Filing(j)
    BY <1>0, <2>4 DEF JobOK, Filing
  <2>8. jobs' = [jobs EXCEPT ![t] = new]
    BY <2>1 DEF Shape, JobsOK
  <2>9. SceneOK' /\ Spent
    BY <2>4, SceneKept DEF Shape
  <2> HIDE DEF new
  <2>10. new.todo \subseteq jobs[t].todo /\ new.path \in {jobs[t].path, NoDoc}
    BY <2>6
  <2> QED BY <2>4, <2>5, <2>6, <2>7, <2>8, <2>9, <2>10, SearchedJob
<1>5. CASE Cite(t)
  <2> DEFINE new == [NoJob EXCEPT !.hits = Cited(j), !.file = j.file]
  <2>1. Cited(j) \subseteq j.hits
    BY DEF Cited
  <2>2. Cited(j) \subseteq Docs /\ Cited(j) \subseteq DOMAIN j.file
    BY <1>0, <2>1 DEF Job
  <2>3. /\ new \in Job /\ new.stage = "idle" /\ new.kind = "index" /\ new.todo = {} /\ new.path = NoDoc
        /\ new.hits = Cited(j) /\ new.file = j.file
    BY <1>0, <2>2, NoJobFacts DEF Job
  <2>4. j.stage = "cite" /\ UNCHANGED <<scene, files, disk, procs, history>>
        /\ jobs' = [jobs EXCEPT ![t] = new]
    BY <1>5 DEF Cite, JobAt
  <2>5. ~Filing(j)
    BY <2>4 DEF Filing
  <2>6. SceneOK' /\ Spent
    BY <2>4, SceneKept DEF Shape
  <2> HIDE DEF new
  <2>7. new.todo \subseteq jobs[t].todo /\ new.path \in {jobs[t].path, NoDoc}
    BY <2>3
  <2> QED BY <2>2, <2>3, <2>4, <2>5, <2>6, <2>7, SearchedJob
<1> QED BY <1>1, <1>2, <1>3, <1>4, <1>5 DEF SearchSteps

LEMMA ClearMemoryStep ==
  ASSUME Shape, NEW t \in IndexThreads, ClearMemory(t)
  PROVE  /\ Shape' /\ Spent /\ UNCHANGED <<files, disk>> /\ OtherJobs(t) /\ OtherProcs(ProcOf[t])
         /\ SameSwitches(ProcOf[t]) /\ procs'[ProcOf[t]].docs = << >>
         /\ history'.doubtful = history.doubtful /\ history'.shifted = history.shifted
         /\ \A q \in Paths : history'.reported[q] = NoReport
         /\ t \in scene.threads /\ scene.clears > 0 /\ jobs[t].stage = "idle"
         /\ jobs'[t].stage = "wipe" /\ jobs'[t].kind = "clear" /\ jobs'[t].todo = {} /\ jobs'[t].path = NoDoc
         /\ jobs'[t].doc = NoDoc /\ jobs'[t].file = << >> /\ jobs'[t].hits = {}
<1> DEFINE new == [NoJob EXCEPT !.stage = "wipe", !.kind = "clear"]
<1>0. /\ jobs[t].stage = "idle" /\ t \in scene.threads /\ Use("clears")
      /\ procs' = [procs EXCEPT ![ProcOf[t]].docs = << >>] /\ jobs' = [jobs EXCEPT ![t] = new]
      /\ history' = [history EXCEPT !.reported = [p \in Paths |-> NoReport]] /\ UNCHANGED <<files, disk>>
  BY DEF ClearMemory, JobAt
<1>1. SceneOK' /\ Spent /\ scene.clears > 0
  BY <1>0, UseFacts DEF Shape
<1>2. /\ new \in Job /\ new.stage = "wipe" /\ new.kind = "clear" /\ new.todo = {} /\ new.path = NoDoc
      /\ new.doc = NoDoc /\ new.file = << >> /\ new.hits = {}
  BY NoJobFacts DEF Job, JobStages, JobKinds
<1> HIDE DEF new
<1>3. jobs' \in [IndexThreads -> Job] /\ OtherJobs(t) /\ jobs'[t] = new
  BY <1>0, <1>2 DEF OtherJobs, Shape, JobsOK
<1>4. JobOK(new)
  BY <1>2 DEF JobOK, Filing
<1>5. JobsOK'
  BY <1>3, <1>4, JobStep DEF Shape
<1>6. /\ ProcsOK' /\ OtherProcs(ProcOf[t]) /\ SameSwitches(ProcOf[t]) /\ procs'[ProcOf[t]].docs = << >>
  BY <1>0, ProcFacts, EmptyLibrary, MemoryStep DEF Shape
<1>7. /\ HistoryOK' /\ history'.doubtful = history.doubtful /\ history'.shifted = history.shifted
      /\ \A q \in Paths : history'.reported[q] = NoReport
  BY <1>0 DEF Shape, HistoryOK
<1> QED BY <1>0, <1>1, <1>2, <1>3, <1>5, <1>6, <1>7, Keeping DEF Shape

LEMMA ClearCatalogStep ==
  ASSUME Shape, NEW t \in IndexThreads, ClearCatalog(t)
  PROVE  /\ Shape' /\ UNCHANGED <<scene, files, procs, history>> /\ OtherJobs(t)
         /\ disk'.cat = << >> /\ disk'.fts = {} /\ disk'.snap = disk.snap /\ disk'.cache = disk.cache
         /\ disk'.backup = disk.backup
         /\ jobs[t].stage = "wipe" /\ jobs[t].kind = "clear" /\ jobs'[t].stage = "dump"
         /\ SameWork(t) /\ SameHits(t)
<1>0. /\ jobs[t].stage = "wipe" /\ UNCHANGED <<scene, files, procs, history>> /\ Goto(t, "dump")
      /\ disk' = [disk EXCEPT !.cat = << >>, !.fts = {}]
  BY DEF ClearCatalog, JobAt
<1>1. JobOK(jobs[t]) /\ jobs[t].kind = "clear"
  BY <1>0, JobFacts DEF Shape, JobOK
<1>2. /\ jobs' \in [IndexThreads -> Job] /\ OtherJobs(t)
      /\ jobs'[t].stage = "dump" /\ SameWork(t) /\ SameHits(t)
  BY <1>0, JobGoes DEF Shape, JobStages
<1>3. JobOK(jobs'[t])
  BY <1>0, <1>1, <1>2 DEF JobOK, Filing, SameWork, SameHits
<1>4. JobsOK'
  BY <1>2, <1>3, JobStep DEF Shape
<1>5. /\ DiskOK' /\ disk'.cat = << >> /\ disk'.fts = {} /\ disk'.snap = disk.snap /\ disk'.cache = disk.cache
      /\ disk'.backup = disk.backup
  BY <1>0, EmptyLibrary DEF Shape, DiskOK, Disk
<1> QED BY <1>0, <1>1, <1>2, <1>4, <1>5, Keeping, SceneKept DEF Shape

LEMMA DieStep ==
  ASSUME Shape, NEW p \in Procs, Die(p)
  PROVE  /\ Shape' /\ Spent /\ UNCHANGED <<files, disk, history>> /\ OtherProcs(p)
         /\ procs'[p].docs = << >> /\ ~procs'[p].up /\ procs[p].up
         /\ \E t \in scene.threads : ProcOf[t] = p
         /\ scene.crashes > 0 /\ scene'.crashes = scene.crashes - 1
         /\ \A t \in IndexThreads : /\ ProcOf[t] = p => jobs'[t] = NoJob
                                    /\ ProcOf[t] # p => jobs'[t] = jobs[t]
<1>1. SceneOK' /\ Spent /\ scene.crashes > 0 /\ scene'.crashes = scene.crashes - 1
  BY UseFacts DEF Die, Shape
<1>2. /\ jobs' \in [IndexThreads -> Job]
      /\ \A t \in IndexThreads : jobs'[t] = IF ProcOf[t] = p THEN NoJob ELSE jobs[t]
  BY NoJobFacts DEF Die, Shape, JobsOK
<1>3. JobsOK'
  <2>1. \A t \in IndexThreads : JobOK(jobs'[t])
    BY <1>2, NoJobFacts DEF Shape, JobsOK
  <2> QED BY <1>2, <2>1 DEF JobsOK, JobOK, Filing
<1>4. ProcsOK' /\ OtherProcs(p) /\ procs'[p].docs = << >> /\ ~procs'[p].up
  BY EmptyLibrary DEF Die, Shape, ProcsOK, Process, OtherProcs
<1>5. UNCHANGED <<files, disk, history>> /\ procs[p].up /\ \E t \in scene.threads : ProcOf[t] = p
  BY DEF Die
<1> QED BY <1>1, <1>2, <1>3, <1>4, <1>5, Keeping DEF Shape

LEMMA StartStep ==
  ASSUME Shape, NEW p \in Procs, Start(p)
  PROVE  /\ Shape' /\ UNCHANGED <<scene, files, jobs, history>> /\ OtherProcs(p)
         /\ ~procs[p].up /\ procs'[p].up /\ procs'[p].docs = disk.snap
         /\ disk'.snap = disk.snap /\ disk'.cat = disk.cat /\ disk'.cache = disk.cache /\ disk'.backup = disk.backup
         /\ disk'.fts \in {disk.fts, DOMAIN disk.snap}
<1>0. ~procs[p].up /\ UNCHANGED <<scene, files, jobs, history>>
  BY DEF Start
<1>1. PICK config \in Spaces :
        procs' = [procs EXCEPT ![p] = [up |-> TRUE, config |-> config, space |-> config, docs |-> disk.snap]]
  BY DEF Start
<1>2. disk \in Disk /\ disk.snap \in Library /\ DOMAIN disk.snap \subseteq Docs
  BY LibraryFacts DEF Shape, DiskOK, Disk
<1>3. ProcsOK' /\ OtherProcs(p) /\ procs'[p].up /\ procs'[p].docs = disk.snap
  BY <1>1, <1>2 DEF Shape, ProcsOK, Process, OtherProcs
<1>4. PICK fts \in {disk.fts, DOMAIN disk.snap} : disk' = [disk EXCEPT !.fts = fts]
  <2>1. CASE disk.saved
    <3>1. Synced(disk.fts, DOMAIN disk.snap) \in {disk.fts, DOMAIN disk.snap}
      BY DEF Synced
    <3> QED BY <2>1, <3>1 DEF Start
  <2>2. CASE ~disk.saved
    <3>1. disk' = disk /\ disk = [disk EXCEPT !.fts = disk.fts]
      BY <2>2, <1>2 DEF Start, Disk
    <3> QED BY <3>1
  <2> QED BY <2>1, <2>2
<1>5. /\ DiskOK' /\ disk'.snap = disk.snap /\ disk'.cat = disk.cat /\ disk'.cache = disk.cache
      /\ disk'.backup = disk.backup /\ disk'.fts = fts
  BY <1>2, <1>4 DEF DiskOK, Disk
<1> QED BY <1>0, <1>3, <1>4, <1>5, Keeping, SceneKept DEF Shape

LEMMA MigrateStep ==
  ASSUME Shape, Migrate
  PROVE  /\ Shape' /\ Spent /\ UNCHANGED <<files, procs, jobs, history>> /\ scene.migrations > 0
         /\ \A p \in Procs : (\E t \in scene.threads : ProcOf[t] = p) => ~procs[p].up
         /\ disk'.snap = disk.snap /\ disk'.fts = DOMAIN disk.snap /\ disk'.cache = {}
         /\ disk'.backup # << >> /\ disk'.backup.cat = disk.cat /\ disk'.backup.fts = disk.fts
         /\ disk'.backup.cache = disk.cache
<1> DEFINE F(d) == [path |-> disk.snap[d].path, source |-> Source(disk.snap[d].path, d),
                    label |-> disk.snap[d].label, active |-> TRUE]
           cat == [d \in DOMAIN disk.snap |-> F(d)]
           backup == [cat |-> disk.cat, fts |-> disk.fts, cache |-> disk.cache]
<1>0. /\ UNCHANGED <<files, procs, jobs, history>> /\ Use("migrations")
      /\ \A p \in Procs : (\E t \in scene.threads : ProcOf[t] = p) => ~procs[p].up
      /\ disk' = [disk EXCEPT !.cat = cat, !.fts = DOMAIN disk.snap, !.cache = {}, !.backup = backup]
  BY DEF Migrate
<1>1. SceneOK' /\ Spent /\ scene.migrations > 0
  BY <1>0, UseFacts DEF Shape
<1>2. disk \in Disk /\ disk.snap \in Library /\ DOMAIN disk.snap \subseteq Docs
  BY LibraryFacts DEF Shape, DiskOK, Disk
<1>3. \A d \in DOMAIN disk.snap : F(d) \in Row /\ F(d).path = disk.snap[d].path
  BY <1>2, LibraryFacts DEF Row, Source
<1>4. cat \in Catalog
  <2> HIDE DEF F
  <2>1. cat \in [DOMAIN disk.snap -> Row] /\ \A d \in DOMAIN disk.snap : d \in Versions[cat[d].path]
    BY <1>2, <1>3, LibraryFacts
  <2> HIDE DEF cat
  <2> QED BY <1>2, <2>1, CatalogIntro
<1>5. backup \in Backup /\ backup # << >> /\ backup.cat = disk.cat /\ backup.fts = disk.fts /\ backup.cache = disk.cache
  <2>1. backup \in Backup
    BY <1>2 DEF Disk, Backup
  <2>2. DOMAIN backup # {}
    OBVIOUS
  <2>3. DOMAIN << >> = {}
    OBVIOUS
  <2> QED BY <2>1, <2>2, <2>3
<1> HIDE DEF cat, backup
<1>6. DiskOK' /\ disk'.snap = disk.snap /\ disk'.fts = DOMAIN disk.snap /\ disk'.cache = {} /\ disk'.backup = backup
  BY <1>0, <1>2, <1>4, <1>5 DEF DiskOK, Disk
<1> QED BY <1>0, <1>1, <1>5, <1>6, Keeping DEF Shape

LEMMA RollbackStep ==
  ASSUME Shape, Rollback
  PROVE  /\ Shape' /\ UNCHANGED <<scene, files, procs, jobs, history>> /\ disk.backup # << >>
         /\ \A p \in Procs : (\E t \in scene.threads : ProcOf[t] = p) => ~procs[p].up
         /\ disk'.snap = disk.snap /\ disk'.cat = disk.backup.cat /\ disk'.fts = disk.backup.fts
         /\ disk'.cache = disk.backup.cache /\ disk'.backup = << >>
<1>0. /\ UNCHANGED <<scene, files, procs, jobs, history>> /\ disk.backup # << >>
      /\ \A p \in Procs : (\E t \in scene.threads : ProcOf[t] = p) => ~procs[p].up
      /\ disk' = [disk EXCEPT !.cat = disk.backup.cat, !.fts = disk.backup.fts,
                              !.cache = disk.backup.cache, !.backup = << >>]
  BY DEF Rollback
<1>1. disk \in Disk /\ disk.backup \in Backup
  BY <1>0 DEF Shape, DiskOK, Disk
<1>2. disk.backup.cat \in Catalog /\ disk.backup.fts \subseteq Docs /\ disk.backup.cache \subseteq Cached
  BY <1>1 DEF Backup
<1>3. /\ DiskOK' /\ disk'.snap = disk.snap /\ disk'.cat = disk.backup.cat /\ disk'.fts = disk.backup.fts
      /\ disk'.cache = disk.backup.cache /\ disk'.backup = << >>
  BY <1>0, <1>1, <1>2 DEF DiskOK, Disk
<1> QED BY <1>0, <1>3, Keeping, SceneKept DEF Shape

LEMMA EditStep ==
  ASSUME Shape, NEW path \in Paths, Edit(path)
  PROVE  Shape' /\ Spent /\ UNCHANGED <<disk, procs, jobs, history>>
<1>1. SceneOK' /\ Spent
  BY UseFacts DEF Edit, Shape
<1>2. FilesOK'
  BY VersionFacts DEF Edit, Shape, FilesOK
<1> QED BY <1>1, <1>2, Keeping DEF Edit, Shape

LEMMA StutterStep == ASSUME Shape, UNCHANGED indexVars PROVE Shape' /\ Spent
BY Keeping, SceneKept DEF Shape, indexVars

-----------------------------------------------------------------------------
(* The steps of one thread, and the types of every reachable state.        *)

ThreadStep(t) ==
  \/ \E todo \in (SUBSET Paths) \ {{}}, kind \in {"index", "research"} : StartJob(t, todo, kind)
  \/ Parse(t) \/ Chunk(t) \/ LookUp(t) \/ CallEmbedding(t) \/ StoreVectors(t)
  \/ DropOld(t) \/ Enter(t) \/ Commit(t) \/ Dump(t) \/ Replace(t)
  \/ SearchSteps(t) \/ ClearMemory(t) \/ ClearCatalog(t)
LEMMA NextCases ==
  ASSUME [IndexNext]_indexVars
  PROVE  \/ \E t \in IndexThreads : ThreadStep(t)
         \/ \E p \in Procs : Die(p) \/ Start(p)
         \/ \E path \in Paths : Edit(path)
         \/ Migrate \/ Rollback \/ UNCHANGED indexVars
BY DEF IndexNext, ThreadStep, SearchSteps

\* A thread acts while its process is up; one that is idle, if it is among the
\* threads of the circumstances.
LEMMA Acting ==
  ASSUME NEW t \in IndexThreads, ThreadStep(t)
  PROVE  procs[ProcOf[t]].up /\ (jobs[t].stage = "idle" => t \in scene.threads)
BY DEF ThreadStep, SearchSteps, JobAt, StartJob, Parse, Chunk, LookUp, CallEmbedding, StoreVectors, DropOld,
       Enter, Commit, Dump, Replace, StartSearch, Filter, Recall, Rank, Cite, ClearMemory, ClearCatalog

LEMMA ThreadShape ==
  ASSUME Shape, NEW t \in IndexThreads, ThreadStep(t)
  PROVE  Shape' /\ Spent
<1>1. \A todo \in (SUBSET Paths) \ {{}}, kind \in {"index", "research"} : StartJob(t, todo, kind) => Shape' /\ Spent
  BY StartJobStep
<1>2. Parse(t) => Shape' /\ Spent
  BY ParseStep, SceneKept DEF Shape
<1>3. Chunk(t) => Shape' /\ Spent
  BY ChunkStep
<1>4. LookUp(t) => Shape' /\ Spent
  BY LookUpStep, SceneKept DEF Shape
<1>5. CallEmbedding(t) => Shape' /\ Spent
  BY CallStep
<1>6. StoreVectors(t) => Shape' /\ Spent
  BY StoreStep, SceneKept DEF Shape
<1>7. DropOld(t) => Shape' /\ Spent
  BY DropStep, SceneKept DEF Shape
<1>8. Enter(t) => Shape' /\ Spent
  BY EnterStep, SceneKept DEF Shape
<1>9. Commit(t) => Shape' /\ Spent
  BY CommitStep
<1>10. Dump(t) => Shape' /\ Spent
  BY DumpStep, SceneKept DEF Shape
<1>11. Replace(t) => Shape' /\ Spent
  BY ReplaceStep
<1>12. SearchSteps(t) => Shape' /\ Spent
  BY SearchStep
<1>13. ClearMemory(t) => Shape' /\ Spent
  BY ClearMemoryStep
<1>14. ClearCatalog(t) => Shape' /\ Spent
  BY ClearCatalogStep, SceneKept DEF Shape
<1> QED BY <1>1, <1>2, <1>3, <1>4, <1>5, <1>6, <1>7, <1>8, <1>9, <1>10, <1>11, <1>12, <1>13, <1>14 DEF ThreadStep

LEMMA ShapeStep ==
  ASSUME Shape, [IndexNext]_indexVars
  PROVE  Shape' /\ Spent
<1>1. \A t \in IndexThreads : ThreadStep(t) => Shape' /\ Spent
  BY ThreadShape
<1>2. \A p \in Procs : Die(p) => Shape' /\ Spent
  BY DieStep
<1>3. \A p \in Procs : Start(p) => Shape' /\ Spent
  BY StartStep, SceneKept DEF Shape
<1>4. \A path \in Paths : Edit(path) => Shape' /\ Spent
  BY EditStep
<1>5. Migrate => Shape' /\ Spent
  BY MigrateStep
<1>6. Rollback => Shape' /\ Spent
  BY RollbackStep, SceneKept DEF Shape
<1>7. UNCHANGED indexVars => Shape' /\ Spent
  BY StutterStep
<1> QED BY <1>1, <1>2, <1>3, <1>4, <1>5, <1>6, <1>7, NextCases

LEMMA ShapeInit == IndexInit => Shape
<1> SUFFICES ASSUME IndexInit PROVE Shape
  OBVIOUS
<1>1. SceneOK
  BY IndexAssumption DEF IndexInit, SceneOK
<1>2. FilesOK
  BY IndexAssumption, VersionFacts DEF IndexInit, FilesOK
<1>3. DiskOK
  BY EmptyLibrary DEF IndexInit, DiskOK, Disk
<1>4. ProcsOK
  BY EmptyLibrary DEF IndexInit, ProcsOK, Process, Spaces
<1>5. JobsOK
  BY NoJobFacts DEF IndexInit, JobsOK
<1>6. HistoryOK
  BY DEF IndexInit, HistoryOK
<1> QED BY <1>1, <1>2, <1>3, <1>4, <1>5, <1>6 DEF Shape

LEMMA ShapeType == Shape => IndexTypeOK
<1> SUFFICES ASSUME Shape PROVE IndexTypeOK
  OBVIOUS
<1>1. disk.snap \in Library /\ disk.cat \in Catalog /\ disk.fts \subseteq Docs /\ disk.cache \subseteq Cached
  BY DEF Shape, DiskOK, Disk
<1>2. IsLibrary(disk.snap) /\ DOMAIN disk.cat \subseteq Docs /\ \A d \in DOMAIN disk.cat : disk.cat[d] \in Row
  BY <1>1, LibraryFacts, CatalogFacts DEF IsLibrary
<1>3. \A p \in Procs : IsLibrary(procs[p].docs) /\ procs[p].space \in Spaces
  BY LibraryFacts DEF Shape, ProcsOK, Process, IsLibrary
<1> QED BY <1>1, <1>2, <1>3 DEF IndexTypeOK, Shape, SceneOK, FilesOK, HistoryOK

\* In every reachable state memory, snapshot and catalog hold documents of the
\* index with well-formed records, and a report names a version of its path.
THEOREM IndexTypes == IndexSpec => []IndexTypeOK
<1>1. IndexInit => Shape
  BY ShapeInit
<1>2. Shape /\ [IndexNext]_indexVars => Shape'
  BY ShapeStep
<1>3. Shape => IndexTypeOK
  BY ShapeType
<1> QED BY <1>1, <1>2, <1>3, PTL DEF IndexSpec

-----------------------------------------------------------------------------
(* No two versions of a path.                                              *)

Distinct(lib) == \A c, d \in DOMAIN lib : lib[c].path = lib[d].path => c = d
\* The paths that a job has filed, files or will file.
Claim(j) == (j.todo \cup {j.path}) \ {NoDoc}

MemoryDistinct == \A p \in Procs : Distinct(procs[p].docs)
SnapDistinct == Distinct(disk.snap)
FilesDistinct == \A t \in IndexThreads : Distinct(jobs[t].file)
\* Between the two halves of the replacement memory has no version of the path.
PlaceFree == \A t \in IndexThreads : jobs[t].stage = "insert" =>
               \A d \in DOMAIN Memory(t) : Memory(t)[d].path # jobs[t].path
ClaimsApart == \A t, u \in IndexThreads : t # u => Claim(jobs[t]) \cap Claim(jobs[u]) = {}
DeadIdle == \A t \in IndexThreads : ~procs[ProcOf[t]].up => jobs[t] = NoJob
VersionsInv == MemoryDistinct /\ SnapDistinct /\ FilesDistinct /\ PlaceFree /\ ClaimsApart /\ DeadIdle

LEMMA DistinctSub ==
  ASSUME NEW lib, NEW sub, Distinct(lib), DOMAIN sub \subseteq DOMAIN lib, \A d \in DOMAIN sub : sub[d] = lib[d]
  PROVE  Distinct(sub)
BY DEF Distinct

LEMMA DistinctEmpty == Distinct(<< >>)
BY EmptyLibrary DEF Distinct

LEMMA DistinctFiltered ==
  ASSUME NEW lib \in Library, Distinct(lib), NEW file \in Filtered(lib)
  PROVE  Distinct(file)
BY FilteredFacts, DistinctSub

LEMMA DistinctWith ==
  ASSUME NEW lib \in Library, NEW doc \in Docs, NEW value \in Stored, doc \in Versions[value.path],
         Distinct(lib), \A d \in DOMAIN lib : lib[d].path # value.path
  PROVE  Distinct(With(lib, doc, value))
<1> DEFINE new == With(lib, doc, value)
<1>1. DOMAIN new = DOMAIN lib \cup {doc} /\ new[doc] = value /\ \A d \in DOMAIN lib \ {doc} : new[d] = lib[d]
  BY WithFacts
<1> HIDE DEF new
<1> QED BY <1>1 DEF Distinct, new

\* A claim that shrinks stays apart from the others.
LEMMA ClaimsStep ==
  ASSUME ClaimsApart, NEW t \in IndexThreads, OtherJobs(t), Claim(jobs'[t]) \subseteq Claim(jobs[t])
  PROVE  ClaimsApart'
<1> SUFFICES ASSUME NEW u \in IndexThreads, NEW v \in IndexThreads, u # v
             PROVE  Claim(jobs'[u]) \cap Claim(jobs'[v]) = {}
  BY DEF ClaimsApart, Claim
<1>1. Claim(jobs'[u]) \subseteq Claim(jobs[u]) /\ Claim(jobs'[v]) \subseteq Claim(jobs[v])
  BY DEF OtherJobs
<1> QED BY <1>1 DEF ClaimsApart

LEMMA ClaimSmaller ==
  ASSUME NEW t \in IndexThreads,
         \/ SameWork(t)
         \/ jobs'[t] = NoJob
         \/ jobs'[t].todo \subseteq jobs[t].todo /\ jobs'[t].path \in {jobs[t].path, NoDoc} \cup jobs[t].todo
  PROVE  Claim(jobs'[t]) \subseteq Claim(jobs[t])
BY NoJobFacts DEF SameWork, Claim

\* Steps that leave memory alone.
LEMMA QuietVersions ==
  ASSUME Shape, VersionsInv, NEW t \in IndexThreads, ThreadStep(t), SameMemory, OtherJobs(t), ClaimsApart',
         jobs'[t].stage # "insert", Distinct(jobs'[t].file), Distinct(disk'.snap)
  PROVE  VersionsInv'
<1>0. \A u \in IndexThreads : ProcOf[u] \in Procs
  BY IndexAssumption
<1>1. MemoryDistinct'
  BY DEF VersionsInv, MemoryDistinct, SameMemory, Distinct
<1>2. SnapDistinct'
  BY DEF SnapDistinct, Distinct
<1>3. FilesDistinct'
  BY DEF VersionsInv, FilesDistinct, OtherJobs, Distinct
<1>4. PlaceFree'
  BY <1>0 DEF VersionsInv, PlaceFree, SameMemory, OtherJobs, Memory
<1>5. DeadIdle'
  BY <1>0, Acting DEF VersionsInv, DeadIdle, SameMemory, OtherJobs
<1> QED BY <1>1, <1>2, <1>3, <1>4, <1>5 DEF VersionsInv

\* Steps that change the memory of one process: others see what is there shrink,
\* or gain a document of a path that they do not claim.
LEMMA MovingVersions ==
  ASSUME Shape, VersionsInv, NEW t \in IndexThreads, ThreadStep(t), OtherJobs(t), OtherProcs(ProcOf[t]),
         SameSwitches(ProcOf[t]), Claim(jobs'[t]) \subseteq Claim(jobs[t]), Distinct(procs'[ProcOf[t]].docs),
         Distinct(jobs'[t].file), disk'.snap = disk.snap,
         \A d \in DOMAIN procs'[ProcOf[t]].docs :
           \/ d \in DOMAIN Memory(t) /\ procs'[ProcOf[t]].docs[d] = Memory(t)[d]
           \/ procs'[ProcOf[t]].docs[d].path \in Claim(jobs[t]),
         jobs'[t].stage = "insert" =>
           \A d \in DOMAIN procs'[ProcOf[t]].docs : procs'[ProcOf[t]].docs[d].path # jobs'[t].path
  PROVE  VersionsInv'
<1>0. \A u \in IndexThreads : ProcOf[u] \in Procs
  BY IndexAssumption
<1>1. MemoryDistinct'
  BY DEF VersionsInv, MemoryDistinct, OtherProcs, Distinct
<1>2. SnapDistinct'
  BY DEF VersionsInv, SnapDistinct, Distinct
<1>3. FilesDistinct'
  BY DEF VersionsInv, FilesDistinct, OtherJobs, Distinct
<1>4. PlaceFree'
  <2> SUFFICES ASSUME NEW u \in IndexThreads, jobs'[u].stage = "insert", NEW d \in DOMAIN procs'[ProcOf[u]].docs
               PROVE  procs'[ProcOf[u]].docs[d].path # jobs'[u].path
    BY DEF PlaceFree, Memory
  <2>1. CASE u = t
    BY <2>1
  <2>2. CASE u # t /\ ProcOf[u] # ProcOf[t]
    BY <1>0, <2>2 DEF OtherJobs, OtherProcs, VersionsInv, PlaceFree, Memory
  <2>3. CASE u # t /\ ProcOf[u] = ProcOf[t]
    <3>1. jobs'[u] = jobs[u] /\ jobs[u].stage = "insert"
      BY <2>3 DEF OtherJobs
    <3>2. jobs[u].path \in Claim(jobs[u])
      <4>1. jobs[u].path \in Paths
        BY <3>1, FilingFacts
      <4> QED BY <4>1, VersionFacts DEF Claim
    <3>3. jobs[u].path \notin Claim(jobs[t])
      BY <2>3, <3>2 DEF VersionsInv, ClaimsApart
    <3>4. d \in DOMAIN Memory(t) => Memory(t)[d].path # jobs[u].path
      BY <2>3, <3>1 DEF VersionsInv, PlaceFree, Memory
    <3> QED BY <2>3, <3>1, <3>3, <3>4
  <2> QED BY <2>1, <2>2, <2>3
<1>5. DeadIdle'
  BY <1>0, Acting DEF VersionsInv, DeadIdle, OtherProcs, SameSwitches, OtherJobs
<1>6. ClaimsApart'
  BY ClaimsStep DEF VersionsInv
<1> QED BY <1>1, <1>2, <1>3, <1>4, <1>5, <1>6 DEF VersionsInv

LEMMA ThreadVersions ==
  ASSUME Shape, VersionsInv, NEW t \in IndexThreads, ThreadStep(t)
  PROVE  VersionsInv'
<1>0. /\ MemoryDistinct /\ SnapDistinct /\ FilesDistinct /\ ClaimsApart /\ ProcsOK
      /\ Distinct(jobs[t].file) /\ Distinct(disk.snap) /\ Distinct(Memory(t)) /\ Distinct(NoJob.file)
      /\ Memory(t) \in Library /\ ProcOf[t] \in Procs
  BY ProcFacts, NoJobFacts, DistinctEmpty
     DEF Shape, VersionsInv, MemoryDistinct, SnapDistinct, FilesDistinct, Memory
<1>1. ASSUME NEW todo \in (SUBSET Paths) \ {{}}, NEW kind \in {"index", "research"}, StartJob(t, todo, kind)
      PROVE  VersionsInv'
  <2>1. /\ OtherJobs(t) /\ Apart(t, todo) /\ UNCHANGED <<disk, procs>>
        /\ jobs'[t].stage = "parse" /\ jobs'[t].todo = todo /\ jobs'[t].path = NoDoc /\ jobs'[t].file = << >>
    BY <1>1, StartJobStep
  <2>2. ClaimsApart'
    <3>1. \A u \in IndexThreads \ {t} : Claim(jobs'[t]) \cap Claim(jobs[u]) = {}
      BY <2>1 DEF Apart, Claim
    <3> SUFFICES ASSUME NEW u \in IndexThreads, NEW v \in IndexThreads, u # v
                 PROVE  Claim(jobs'[u]) \cap Claim(jobs'[v]) = {}
      BY DEF ClaimsApart, Claim
    <3>2. CASE u = t
      BY <2>1, <3>1, <3>2 DEF OtherJobs
    <3>3. CASE v = t
      BY <2>1, <3>1, <3>3 DEF OtherJobs
    <3>4. CASE u # t /\ v # t
      BY <1>0, <2>1, <3>4 DEF ClaimsApart, OtherJobs
    <3> QED BY <3>2, <3>3, <3>4
  <2> QED BY <1>0, <2>1, <2>2, SameMemoryFacts, DistinctEmpty, QuietVersions
<1>2. ASSUME Parse(t) PROVE VersionsInv'
  <2>1. PICK path \in jobs[t].todo : Skipped(t, path) \/ Taken(t, path)
    BY <1>2, ParseStep
  <2>2. SameMemory /\ OtherJobs(t) /\ UNCHANGED disk
    BY <1>2, ParseStep
  <2>3. /\ jobs'[t].todo \subseteq jobs[t].todo /\ jobs'[t].path \in {path, NoDoc} /\ jobs'[t].stage # "insert"
        /\ jobs'[t].file \in {jobs[t].file, << >>}
    BY <2>1 DEF Skipped, Taken, SameHits
  <2>4. ClaimsApart'
    BY <1>0, <2>2, <2>3, ClaimSmaller, ClaimsStep
  <2>5. Distinct(jobs'[t].file)
    BY <1>0, <2>3, DistinctEmpty
  <2> QED BY <1>0, <2>2, <2>3, <2>4, <2>5, QuietVersions
<1>3. ASSUME Chunk(t) PROVE VersionsInv'
  <2>1. /\ SameMemory /\ OtherJobs(t) /\ UNCHANGED disk
        /\ jobs'[t] = NoJob \/ (jobs'[t].stage = "lookup" /\ SameWork(t) /\ SameHits(t))
    BY <1>3, ChunkStep
  <2>2. ClaimsApart'
    BY <1>0, <2>1, ClaimSmaller, ClaimsStep
  <2>3. jobs'[t].stage # "insert" /\ jobs'[t].file \in {jobs[t].file, << >>}
    BY <2>1, NoJobFacts DEF SameHits
  <2> QED BY <1>0, <2>1, <2>2, <2>3, DistinctEmpty, QuietVersions
<1>4. ASSUME LookUp(t) PROVE VersionsInv'
  <2>1. /\ OtherJobs(t) /\ UNCHANGED <<disk, procs>> /\ jobs'[t].stage \in {"drop", "call"} /\ SameWork(t) /\ SameHits(t)
    BY <1>4, LookUpStep
  <2>2. ClaimsApart'
    BY <1>0, <2>1, ClaimSmaller, ClaimsStep
  <2>3. SameMemory /\ Distinct(jobs'[t].file)
    BY <1>0, <2>1, SameMemoryFacts DEF SameHits
  <2> QED BY <1>0, <2>1, <2>2, <2>3, QuietVersions
<1>5. ASSUME CallEmbedding(t) PROVE VersionsInv'
  <2>1. /\ SameMemory /\ OtherJobs(t)
        /\ \/ Arrived(t)
           \/ FellBack(t)
           \/ jobs'[t] = NoJob /\ UNCHANGED <<disk, history>>
    BY <1>5, CallStep
  <2>2. SameWork(t) \/ jobs'[t] = NoJob
    BY <2>1 DEF Arrived, FellBack
  <2>3. ClaimsApart'
    BY <1>0, <2>1, <2>2, ClaimSmaller, ClaimsStep
  <2>4. jobs'[t].stage # "insert" /\ jobs'[t].file \in {jobs[t].file, << >>} /\ disk'.snap = disk.snap
    BY <2>1, NoJobFacts DEF Arrived, FellBack, SameHits, OnlyCache
  <2> QED BY <1>0, <2>1, <2>3, <2>4, DistinctEmpty, QuietVersions
<1>6. ASSUME StoreVectors(t) PROVE VersionsInv'
  <2>1. OtherJobs(t) /\ UNCHANGED procs /\ OnlyCache /\ jobs'[t].stage = "drop" /\ SameWork(t) /\ SameHits(t)
    BY <1>6, StoreStep
  <2>2. ClaimsApart'
    BY <1>0, <2>1, ClaimSmaller, ClaimsStep
  <2>3. SameMemory /\ Distinct(jobs'[t].file) /\ Distinct(disk'.snap)
    BY <1>0, <2>1, SameMemoryFacts DEF SameHits, OnlyCache
  <2> QED BY <1>0, <2>1, <2>2, <2>3, QuietVersions
<1>7. ASSUME DropOld(t) PROVE VersionsInv'
  <2> DEFINE gone == OldVersions(Memory(t), jobs[t].path, jobs[t].doc) \cup {jobs[t].doc}
             docs == procs'[ProcOf[t]].docs
  <2>1. /\ OtherJobs(t) /\ OtherProcs(ProcOf[t]) /\ SameSwitches(ProcOf[t]) /\ UNCHANGED disk
        /\ docs = Without(Memory(t), gone) /\ SameWork(t) /\ SameHits(t)
    BY <1>7, DropStep
  <2>2. DOMAIN docs = DOMAIN Memory(t) \ gone /\ \A d \in DOMAIN docs : docs[d] = Memory(t)[d]
    <3> HIDE DEF gone
    <3>1. /\ DOMAIN Without(Memory(t), gone) = DOMAIN Memory(t) \ gone
          /\ \A d \in DOMAIN Memory(t) \ gone : Without(Memory(t), gone)[d] = Memory(t)[d]
      BY <1>0, WithoutFacts
    <3> HIDE DEF docs
    <3> QED BY <2>1, <3>1
  <2>3. \A d \in DOMAIN docs : docs[d].path # jobs'[t].path
    BY <2>1, <2>2 DEF OldVersions, SameWork
  <2>4. Distinct(docs)
    BY <1>0, <2>2, DistinctSub
  <2> HIDE DEF docs
  <2>5. Claim(jobs'[t]) \subseteq Claim(jobs[t]) /\ Distinct(jobs'[t].file)
    BY <1>0, <2>1, ClaimSmaller DEF SameHits
  <2> QED BY <2>1, <2>2, <2>3, <2>4, <2>5, MovingVersions DEF docs
<1>8. ASSUME Enter(t) PROVE VersionsInv'
  <2> DEFINE new == [path |-> jobs[t].path, label |-> jobs[t].label, vec |-> jobs[t].vec]
             docs == procs'[ProcOf[t]].docs
  <2>1. /\ OtherJobs(t) /\ OtherProcs(ProcOf[t]) /\ SameSwitches(ProcOf[t]) /\ UNCHANGED disk
        /\ new \in Stored /\ docs = With(Memory(t), jobs[t].doc, new) /\ SameWork(t) /\ SameHits(t)
        /\ jobs[t].stage = "insert" /\ jobs'[t].stage = "commit"
    BY <1>8, EnterStep
  <2>2. /\ new.path = jobs[t].path /\ jobs[t].doc \in Docs /\ jobs[t].doc \in Versions[new.path]
        /\ new.path \in Claim(jobs[t])
    BY <2>1, FilingFacts, VersionFacts DEF Claim
  <2>3. \A d \in DOMAIN Memory(t) : Memory(t)[d].path # new.path
    BY <2>1, <2>2 DEF VersionsInv, PlaceFree
  <2> HIDE DEF new
  <2>4. Distinct(docs)
    BY <1>0, <2>1, <2>2, <2>3, DistinctWith
  <2>5. \A d \in DOMAIN docs : (d \in DOMAIN Memory(t) /\ docs[d] = Memory(t)[d]) \/ docs[d].path \in Claim(jobs[t])
    <3>1. /\ DOMAIN With(Memory(t), jobs[t].doc, new) = DOMAIN Memory(t) \cup {jobs[t].doc}
          /\ With(Memory(t), jobs[t].doc, new)[jobs[t].doc] = new
          /\ \A d \in DOMAIN Memory(t) \ {jobs[t].doc} : With(Memory(t), jobs[t].doc, new)[d] = Memory(t)[d]
      BY <1>0, <2>1, <2>2, WithFacts
    <3> HIDE DEF docs
    <3> QED BY <2>1, <2>2, <3>1
  <2> HIDE DEF docs
  <2>6. Claim(jobs'[t]) \subseteq Claim(jobs[t]) /\ Distinct(jobs'[t].file)
    BY <1>0, <2>1, ClaimSmaller DEF SameHits
  <2> QED BY <2>1, <2>4, <2>5, <2>6, MovingVersions DEF docs
<1>9. ASSUME Commit(t) PROVE VersionsInv'
  <2>1. /\ UNCHANGED procs /\ OtherJobs(t)
        /\ \/ Committed(jobs[t]) /\ jobs'[t].stage = "dump" /\ SameWork(t) /\ SameHits(t)
           \/ Failed(t)
    BY <1>9, CommitStep
  <2>2. disk'.snap = disk.snap /\ (SameWork(t) \/ jobs'[t] = NoJob) /\ jobs'[t].stage # "insert"
        /\ jobs'[t].file \in {jobs[t].file, << >>}
    BY <2>1, NoJobFacts DEF Committed, Failed, SameHits
  <2>3. ClaimsApart'
    BY <1>0, <2>1, <2>2, ClaimSmaller, ClaimsStep
  <2> QED BY <1>0, <2>1, <2>2, <2>3, SameMemoryFacts, DistinctEmpty, QuietVersions
<1>10. ASSUME Dump(t) PROVE VersionsInv'
  <2>1. /\ UNCHANGED <<disk, procs>> /\ OtherJobs(t) /\ jobs'[t].stage = "replace" /\ SameWork(t)
        /\ jobs'[t].file = Memory(t)
    BY <1>10, DumpStep
  <2>2. ClaimsApart'
    BY <1>0, <2>1, ClaimSmaller, ClaimsStep
  <2> QED BY <1>0, <2>1, <2>2, SameMemoryFacts, QuietVersions
<1>11. ASSUME Replace(t) PROVE VersionsInv'
  <2>1. UNCHANGED procs /\ OtherJobs(t) /\ (Replaced(t) \/ Failed(t))
    BY <1>11, ReplaceStep
  <2>2. /\ disk'.snap \in {disk.snap, jobs[t].file} /\ jobs'[t].stage # "insert" /\ jobs'[t].file = << >>
        /\ \/ jobs'[t] = NoJob
           \/ jobs'[t].todo \subseteq jobs[t].todo /\ jobs'[t].path \in {jobs[t].path, NoDoc}
    BY <2>1, NoJobFacts DEF Replaced, Failed
  <2>3. ClaimsApart'
    BY <1>0, <2>1, <2>2, ClaimSmaller, ClaimsStep
  <2> QED BY <1>0, <2>1, <2>2, <2>3, SameMemoryFacts, DistinctEmpty, QuietVersions
<1>12. ASSUME SearchSteps(t) PROVE VersionsInv'
  <2>1. UNCHANGED <<disk, procs>> /\ OtherJobs(t) /\ Searched(t)
    BY <1>12, SearchStep
  <2>2. ClaimsApart'
    BY <1>0, <2>1, ClaimSmaller, ClaimsStep DEF Searched
  <2>3. Distinct(jobs'[t].file)
    BY <1>0, <2>1, DistinctEmpty, DistinctFiltered DEF Searched
  <2>4. jobs'[t].stage # "insert" /\ SameMemory
    BY <1>0, <2>1, SameMemoryFacts DEF Searched
  <2> QED BY <1>0, <2>1, <2>2, <2>3, <2>4, QuietVersions
<1>13. ASSUME ClearMemory(t) PROVE VersionsInv'
  <2>1. /\ UNCHANGED disk /\ OtherJobs(t) /\ OtherProcs(ProcOf[t]) /\ SameSwitches(ProcOf[t])
        /\ procs'[ProcOf[t]].docs = << >> /\ jobs'[t].todo = {} /\ jobs'[t].path = NoDoc
        /\ jobs'[t].file = << >>
    BY <1>13, ClearMemoryStep
  <2>2. Claim(jobs'[t]) \subseteq Claim(jobs[t])
    BY <2>1 DEF Claim
  <2>3. DOMAIN procs'[ProcOf[t]].docs = {}
    BY <2>1, EmptyLibrary
  <2> QED BY <2>1, <2>2, <2>3, DistinctEmpty, MovingVersions
<1>14. ASSUME ClearCatalog(t) PROVE VersionsInv'
  <2>1. /\ UNCHANGED procs /\ OtherJobs(t) /\ disk'.snap = disk.snap /\ jobs'[t].stage = "dump"
        /\ SameWork(t) /\ SameHits(t)
    BY <1>14, ClearCatalogStep
  <2>2. ClaimsApart'
    BY <1>0, <2>1, ClaimSmaller, ClaimsStep
  <2> QED BY <1>0, <2>1, <2>2, SameMemoryFacts, QuietVersions DEF SameHits
<1> QED BY <1>1, <1>2, <1>3, <1>4, <1>5, <1>6, <1>7, <1>8, <1>9, <1>10, <1>11, <1>12, <1>13, <1>14 DEF ThreadStep

LEMMA ProcVersions ==
  ASSUME Shape, VersionsInv, NEW p \in Procs, Die(p) \/ Start(p)
  PROVE  VersionsInv'
<1>0. \A t \in IndexThreads : ProcOf[t] \in Procs
  BY IndexAssumption
<1>1. CASE Die(p)
  <2>1. /\ UNCHANGED disk /\ OtherProcs(p) /\ procs'[p].docs = << >> /\ ~procs'[p].up
        /\ \A t \in IndexThreads : /\ ProcOf[t] = p => jobs'[t] = NoJob
                                   /\ ProcOf[t] # p => jobs'[t] = jobs[t]
    BY <1>1, DieStep
  <2>2. Distinct(procs'[p].docs)
    BY <2>1, DistinctEmpty
  <2>3. MemoryDistinct' /\ SnapDistinct'
    BY <2>1, <2>2 DEF VersionsInv, MemoryDistinct, SnapDistinct, OtherProcs, Distinct
  <2>4. FilesDistinct'
    <3>1. \A t \in IndexThreads : Distinct(jobs'[t].file)
      BY <2>1, NoJobFacts, DistinctEmpty DEF VersionsInv, FilesDistinct
    <3> QED BY <3>1 DEF FilesDistinct, Distinct
  <2>5. PlaceFree'
    BY <1>0, <2>1, NoJobFacts DEF VersionsInv, PlaceFree, OtherProcs, Memory
  <2>6. DeadIdle'
    BY <1>0, <2>1 DEF VersionsInv, DeadIdle, OtherProcs
  <2>7. ClaimsApart'
    <3>1. \A t \in IndexThreads : Claim(jobs'[t]) \subseteq Claim(jobs[t])
      BY <2>1, NoJobFacts DEF Claim
    <3>2. \A t, u \in IndexThreads : t # u => Claim(jobs'[t]) \cap Claim(jobs'[u]) = {}
      BY <3>1 DEF VersionsInv, ClaimsApart
    <3> QED BY <3>2 DEF ClaimsApart, Claim
  <2> QED BY <2>3, <2>4, <2>5, <2>6, <2>7 DEF VersionsInv
<1>2. CASE Start(p)
  <2>1. /\ UNCHANGED jobs /\ OtherProcs(p) /\ ~procs[p].up /\ procs'[p].up /\ procs'[p].docs = disk.snap
        /\ disk'.snap = disk.snap
    BY <1>2, StartStep
  <2>2. MemoryDistinct' /\ SnapDistinct' /\ FilesDistinct'
    BY <2>1 DEF VersionsInv, MemoryDistinct, SnapDistinct, FilesDistinct, OtherProcs, Distinct
  <2>3. \A t \in IndexThreads : ProcOf[t] = p => jobs[t].stage = "idle"
    BY <2>1, NoJobFacts DEF VersionsInv, DeadIdle
  <2>4. PlaceFree'
    BY <1>0, <2>1, <2>3 DEF VersionsInv, PlaceFree, OtherProcs, Memory
  <2>5. DeadIdle' /\ ClaimsApart'
    BY <1>0, <2>1 DEF VersionsInv, DeadIdle, OtherProcs, ClaimsApart, Claim
  <2> QED BY <2>2, <2>4, <2>5 DEF VersionsInv
<1> QED BY <1>1, <1>2

LEMMA VersionsKept ==
  ASSUME VersionsInv, UNCHANGED <<procs, jobs>>, disk'.snap = disk.snap
  PROVE  VersionsInv'
BY DEF VersionsInv, MemoryDistinct, SnapDistinct, FilesDistinct, PlaceFree, ClaimsApart, DeadIdle, Memory, Claim, Distinct

LEMMA VersionsStep ==
  ASSUME Shape, VersionsInv, [IndexNext]_indexVars
  PROVE  VersionsInv'
<1>1. \A path \in Paths : Edit(path) => VersionsInv'
  BY EditStep, VersionsKept
<1>2. Migrate => VersionsInv'
  BY MigrateStep, VersionsKept
<1>3. Rollback => VersionsInv'
  BY RollbackStep, VersionsKept
<1>4. UNCHANGED indexVars => VersionsInv'
  BY VersionsKept DEF indexVars
<1> QED BY <1>1, <1>2, <1>3, <1>4, NextCases, ThreadVersions, ProcVersions

LEMMA VersionsInit == IndexInit => VersionsInv
<1> SUFFICES ASSUME IndexInit PROVE VersionsInv
  OBVIOUS
<1>1. MemoryDistinct /\ SnapDistinct
  BY DistinctEmpty DEF IndexInit, MemoryDistinct, SnapDistinct
<1>2. \A t \in IndexThreads : jobs[t] = NoJob
  BY DEF IndexInit
<1>3. FilesDistinct /\ PlaceFree /\ DeadIdle
  BY <1>2, NoJobFacts, DistinctEmpty DEF FilesDistinct, PlaceFree, DeadIdle
<1>4. ClaimsApart
  BY <1>2, NoJobFacts DEF ClaimsApart, Claim
<1> QED BY <1>1, <1>3, <1>4 DEF VersionsInv

\* One search never returns two versions of a file, in every circumstances and
\* whatever other threads file, clear or lose meanwhile.
THEOREM OneVersion == IndexSpec => []NoTwoVersionsCited
<1>1. IndexInit => Shape /\ VersionsInv
  BY ShapeInit, VersionsInit
<1>2. Shape /\ VersionsInv /\ [IndexNext]_indexVars => Shape' /\ VersionsInv'
  BY ShapeStep, VersionsStep
<1>3. Shape /\ VersionsInv => NoTwoVersionsCited
  <2> SUFFICES ASSUME Shape, VersionsInv, NEW t \in IndexThreads, NEW c \in jobs[t].hits, NEW d \in jobs[t].hits,
                      jobs[t].file[c].path = jobs[t].file[d].path
               PROVE  c = d
    BY DEF NoTwoVersionsCited
  <2>1. jobs[t].hits \subseteq DOMAIN jobs[t].file
    BY DEF Shape, JobsOK, JobOK
  <2> QED BY <2>1 DEF VersionsInv, FilesDistinct, Distinct
<1> QED BY <1>1, <1>2, <1>3, PTL DEF IndexSpec

-----------------------------------------------------------------------------
(* Vectors and their labels.                                               *)

\* Apart from the documents whose space was switched under them.
Match(lib, shifted) == \A d \in DOMAIN lib \ shifted : \A b \in Batches : lib[d].vec[b] = lib[d].label
CacheMatch(cache, shifted) == \A e \in cache : e.vec = e.space \/ e.doc \in shifted
\* The vectors that a job has are from the space that it has noted.
VecMatch(j, shifted) ==
  j.stage \in {"call", "store", "drop", "insert"} /\ j.doc \notin shifted =>
    \A b \in DOMAIN j.vec : j.vec[b] = j.label

MemoryMatch == \A p \in Procs : Match(procs[p].docs, history.shifted)
DiskMatch ==
  /\ Match(disk.snap, history.shifted)
  /\ CacheMatch(disk.cache, history.shifted)
  /\ disk.backup # << >> => CacheMatch(disk.backup.cache, history.shifted)
JobsMatch == \A t \in IndexThreads : /\ Match(jobs[t].file, history.shifted)
                                     /\ VecMatch(jobs[t], history.shifted)
VectorInv == MemoryMatch /\ DiskMatch /\ JobsMatch

LEMMA MatchGrows ==
  ASSUME NEW shifted, NEW more, shifted \subseteq more
  PROVE  /\ \A lib : Match(lib, shifted) => Match(lib, more)
         /\ \A cache : CacheMatch(cache, shifted) => CacheMatch(cache, more)
         /\ \A j : VecMatch(j, shifted) => VecMatch(j, more)
BY DEF Match, CacheMatch, VecMatch

LEMMA MatchEmpty == \A shifted : Match(<< >>, shifted) /\ VecMatch(NoJob, shifted) /\ CacheMatch({}, shifted)
BY EmptyLibrary, NoJobFacts DEF Match, VecMatch, CacheMatch

\* What a step of a thread must see to.
LEMMA VectorsKept ==
  ASSUME Shape, VectorInv, NEW t \in IndexThreads, OtherJobs(t), history.shifted \subseteq history'.shifted,
         \A p \in Procs : procs'[p].docs = procs[p].docs \/ Match(procs'[p].docs, history'.shifted),
         disk'.snap = disk.snap \/ Match(disk'.snap, history'.shifted),
         disk'.cache = disk.cache \/ CacheMatch(disk'.cache, history'.shifted), disk'.backup = disk.backup,
         jobs'[t].file = jobs[t].file \/ Match(jobs'[t].file, history'.shifted),
         VecMatch(jobs'[t], history'.shifted)
  PROVE  VectorInv'
<1>1. /\ \A lib : Match(lib, history.shifted) => Match(lib, history'.shifted)
      /\ \A cache : CacheMatch(cache, history.shifted) => CacheMatch(cache, history'.shifted)
      /\ \A j : VecMatch(j, history.shifted) => VecMatch(j, history'.shifted)
  BY MatchGrows
<1>2. \A p \in Procs : Match(procs'[p].docs, history'.shifted)
  BY <1>1 DEF VectorInv, MemoryMatch
<1>3. /\ Match(disk'.snap, history'.shifted) /\ CacheMatch(disk'.cache, history'.shifted)
      /\ disk'.backup # << >> => CacheMatch(disk'.backup.cache, history'.shifted)
  BY <1>1 DEF VectorInv, DiskMatch
<1>4. \A u \in IndexThreads : Match(jobs'[u].file, history'.shifted) /\ VecMatch(jobs'[u], history'.shifted)
  BY <1>1 DEF VectorInv, JobsMatch, OtherJobs
<1>5. MemoryMatch'
  BY <1>2 DEF MemoryMatch, Match
<1>6. DiskMatch'
  BY <1>3 DEF DiskMatch, Match, CacheMatch
<1>7. JobsMatch'
  BY <1>4 DEF JobsMatch, Match, VecMatch
<1> QED BY <1>5, <1>6, <1>7 DEF VectorInv

LEMMA ThreadVectors ==
  ASSUME Shape, VectorInv, NEW t \in IndexThreads, ThreadStep(t)
  PROVE  VectorInv'
<1> DEFINE j == jobs[t]
           S == history.shifted
<1>0. /\ HistoryOK /\ ProcOf[t] \in Procs /\ Memory(t) \in Library /\ j.vec \in Vectors
      /\ Match(j.file, S) /\ VecMatch(j, S) /\ Match(Memory(t), S) /\ CacheMatch(disk.cache, S)
      /\ \A shifted : Match(NoJob.file, shifted)
  BY ProcFacts, JobFacts, NoJobFacts, MatchEmpty DEF Shape, VectorInv, MemoryMatch, DiskMatch, JobsMatch, Memory
<1>1. ASSUME NEW todo \in (SUBSET Paths) \ {{}}, NEW kind \in {"index", "research"}, StartJob(t, todo, kind)
      PROVE  VectorInv'
  <2>1. OtherJobs(t) /\ UNCHANGED <<disk, procs, history>> /\ jobs'[t].stage = "parse" /\ jobs'[t].file = << >>
    BY <1>1, StartJobStep
  <2>2. VecMatch(jobs'[t], history'.shifted)
    BY <2>1 DEF VecMatch
  <2> QED BY <2>1, <2>2, MatchEmpty, VectorsKept
<1>2. ASSUME Parse(t) PROVE VectorInv'
  <2>1. PICK path \in j.todo : Skipped(t, path) \/ Taken(t, path)
    BY <1>2, ParseStep
  <2>2. SameMemory /\ OtherJobs(t) /\ UNCHANGED disk /\ history'.shifted = history.shifted
    BY <1>2, ParseStep
  <2>3. jobs'[t].stage \in {"parse", "filter", "idle", "chunk"} /\ jobs'[t].file \in {j.file, << >>}
    BY <2>1 DEF Skipped, Taken, SameHits
  <2>4. VecMatch(jobs'[t], history'.shifted)
    BY <2>3 DEF VecMatch
  <2> QED BY <2>2, <2>3, <2>4, MatchEmpty, VectorsKept DEF SameMemory
<1>3. ASSUME Chunk(t) PROVE VectorInv'
  <2>1. /\ SameMemory /\ OtherJobs(t) /\ UNCHANGED <<disk, history>>
        /\ jobs'[t] = NoJob \/ (jobs'[t].stage = "lookup" /\ SameHits(t))
    BY <1>3, ChunkStep
  <2>2. VecMatch(jobs'[t], history'.shifted)
    BY <2>1, MatchEmpty DEF VecMatch
  <2>3. jobs'[t].file = jobs[t].file \/ Match(jobs'[t].file, history'.shifted)
    BY <1>0, <2>1 DEF SameHits
  <2> QED BY <2>1, <2>2, <2>3, VectorsKept DEF SameMemory
<1>4. ASSUME LookUp(t) PROVE VectorInv'
  <2>1. /\ OtherJobs(t) /\ UNCHANGED <<disk, procs, history>> /\ SameWork(t) /\ SameHits(t)
        /\ jobs'[t].vec = Known(j.doc, Space(t)) /\ jobs'[t].label = Space(t)
    BY <1>4, LookUpStep
  <2>2. \A b \in DOMAIN jobs'[t].vec : j.doc \notin S => jobs'[t].vec[b] = jobs'[t].label
    <3> SUFFICES ASSUME NEW b \in DOMAIN Known(j.doc, Space(t)), j.doc \notin S
                 PROVE  Known(j.doc, Space(t))[b] = Space(t)
      BY <2>1
    <3>1. PICK e \in disk.cache : e.doc = j.doc /\ e.space = Space(t) /\ e.vec = Known(j.doc, Space(t))[b]
      BY KnownFacts DEF Shape
    <3> QED BY <1>0, <3>1 DEF CacheMatch
  <2>3. VecMatch(jobs'[t], history'.shifted)
    BY <2>1, <2>2 DEF VecMatch, SameWork
  <2> QED BY <2>1, <2>3, VectorsKept DEF SameHits
<1>5. ASSUME CallEmbedding(t) PROVE VectorInv'
  <2>1. /\ SameMemory /\ OtherJobs(t) /\ j.stage = "call"
        /\ \/ Arrived(t)
           \/ FellBack(t)
           \/ jobs'[t] = NoJob /\ UNCHANGED <<disk, history>>
    BY <1>5, CallStep
  <2>2. j.doc \in Docs
    BY <2>1, FilingFacts
  <2>3. ASSUME Arrived(t) PROVE VectorInv'
    <3>1. PICK b \in Batches \ DOMAIN j.vec, space \in Spaces :
            /\ jobs'[t].vec = With(j.vec, b, space) /\ jobs'[t].label = j.label
            /\ SameWork(t) /\ SameHits(t) /\ Shifts(j.doc, j.label, space) /\ UNCHANGED disk
      BY <2>3 DEF Arrived
    <3>2. S \subseteq history'.shifted /\ (j.label # space => j.doc \in history'.shifted)
      BY <1>0, <2>2, <3>1, ShiftStep
    <3>3. /\ DOMAIN jobs'[t].vec = DOMAIN j.vec \cup {b} /\ jobs'[t].vec[b] = space
          /\ \A c \in DOMAIN j.vec \ {b} : jobs'[t].vec[c] = j.vec[c]
      <4> DEFINE vec == j.vec
                 more == With(vec, b, space)
      <4>1. vec \in Vectors /\ b \in Batches /\ space \in Spaces
        BY <1>0
      <4>2. jobs'[t].vec = more
        BY <3>1
      <4> HIDE DEF vec, j
      <4>3. DOMAIN more = DOMAIN vec \cup {b} /\ more[b] = space
        BY <4>1, VectorGrows
      <4>4. \A c \in DOMAIN vec \ {b} : more[c] = vec[c]
        BY <4>1, VectorGrows
      <4> HIDE DEF more
      <4> QED BY <4>2, <4>3, <4>4 DEF vec
    <3>4. VecMatch(jobs'[t], history'.shifted)
      BY <1>0, <2>1, <3>1, <3>2, <3>3 DEF VecMatch, SameWork
    <3> QED BY <2>1, <3>1, <3>2, <3>4, VectorsKept DEF SameMemory, SameHits
  <2>4. ASSUME FellBack(t) PROVE VectorInv'
    <3> DEFINE vec == FallbackVectors(j.vec)
    <3>1. /\ jobs'[t].vec = vec /\ jobs'[t].label = "local" /\ SameHits(t) /\ OnlyCache /\ UNCHANGED history
          /\ disk'.cache = Cache(j.doc, "local", vec)
      BY <2>4 DEF FellBack
    <3>2. vec \in Vectors /\ \A b \in DOMAIN vec : vec[b] = "local"
      BY FallbackFacts
    <3> HIDE DEF vec
    <3>3. CacheMatch(disk'.cache, history'.shifted)
      <4>1. \A e \in disk'.cache : e \in disk.cache \/ (e.space = "local" /\ e.vec = "local")
        <5>1. DiskOK /\ "local" \in Spaces
          BY DEF Shape, Spaces
        <5> QED BY <2>2, <3>1, <3>2, <5>1, CacheFacts
      <4> QED BY <1>0, <3>1, <4>1 DEF CacheMatch
    <3>4. VecMatch(jobs'[t], history'.shifted)
      BY <3>1, <3>2 DEF VecMatch
    <3> QED BY <2>1, <3>1, <3>3, <3>4, VectorsKept DEF SameMemory, SameHits, OnlyCache
  <2>5. ASSUME jobs'[t] = NoJob, UNCHANGED <<disk, history>> PROVE VectorInv'
    BY <1>0, <2>1, <2>5, MatchEmpty, VectorsKept DEF SameMemory
  <2> QED BY <2>1, <2>3, <2>4, <2>5
<1>6. ASSUME StoreVectors(t) PROVE VectorInv'
  <2>1. /\ OtherJobs(t) /\ UNCHANGED procs /\ OnlyCache /\ SameWork(t) /\ SameHits(t) /\ SameVec(t)
        /\ disk'.cache = Cache(j.doc, Space(t), j.vec) /\ j.stage = "store"
        /\ Shifts(j.doc, j.label, Space(t))
    BY <1>6, StoreStep
  <2>2. j.doc \in Docs /\ DiskOK /\ Space(t) \in Spaces
    BY <2>1, FilingFacts, ProcFacts DEF Shape
  <2>3. S \subseteq history'.shifted /\ (j.label # Space(t) => j.doc \in history'.shifted)
    BY <1>0, <2>1, <2>2, ShiftStep
  <2>4. CacheMatch(disk'.cache, history'.shifted)
    <3> SUFFICES ASSUME NEW e \in disk'.cache, e.doc \notin history'.shifted PROVE e.vec = e.space
      BY DEF CacheMatch
    <3>1. e \in disk.cache \/ (e.doc = j.doc /\ e.space = Space(t) /\ \E b \in DOMAIN j.vec : e.vec = j.vec[b])
      BY <1>0, <2>1, <2>2, CacheFacts
    <3>2. CASE e \in disk.cache
      BY <1>0, <2>3, <3>2 DEF CacheMatch
    <3>3. CASE e.doc = j.doc /\ e.space = Space(t) /\ \E b \in DOMAIN j.vec : e.vec = j.vec[b]
      BY <1>0, <2>1, <2>3, <3>3 DEF VecMatch
    <3> QED BY <3>1, <3>2, <3>3
  <2>5. VecMatch(jobs'[t], history'.shifted)
    BY <1>0, <2>1, <2>3 DEF VecMatch, SameVec, SameWork
  <2> QED BY <2>1, <2>3, <2>4, <2>5, VectorsKept DEF OnlyCache, SameHits
<1>7. ASSUME DropOld(t) PROVE VectorInv'
  <2> DEFINE gone == OldVersions(Memory(t), j.path, j.doc) \cup {j.doc}
             docs == Without(Memory(t), gone)
  <2>1. /\ OtherJobs(t) /\ OtherProcs(ProcOf[t]) /\ UNCHANGED disk /\ procs'[ProcOf[t]].docs = docs
        /\ SameWork(t) /\ SameHits(t) /\ j.stage = "drop"
        /\ jobs'[t].vec = j.vec /\ jobs'[t].label = Space(t) /\ Shifts(j.doc, j.label, Space(t))
    BY <1>7, DropStep
  <2>2. j.doc \in Docs
    BY <2>1, FilingFacts
  <2>3. S \subseteq history'.shifted /\ (j.label # Space(t) => j.doc \in history'.shifted)
    BY <1>0, <2>1, <2>2, ShiftStep
  <2> HIDE DEF gone
  <2>4. DOMAIN docs = DOMAIN Memory(t) \ gone /\ \A d \in DOMAIN docs : docs[d] = Memory(t)[d]
    BY <1>0, WithoutFacts
  <2> HIDE DEF docs
  <2>5. Match(docs, history'.shifted)
    BY <1>0, <2>3, <2>4 DEF Match
  <2>6. VecMatch(jobs'[t], history'.shifted)
    BY <1>0, <2>1, <2>3 DEF VecMatch, SameWork
  <2> QED BY <1>0, <2>1, <2>3, <2>5, <2>6, VectorsKept DEF SameHits, OtherProcs
<1>8. ASSUME Enter(t) PROVE VectorInv'
  <2> DEFINE new == [path |-> j.path, label |-> j.label, vec |-> j.vec]
             docs == With(Memory(t), j.doc, new)
  <2>1. /\ OtherJobs(t) /\ OtherProcs(ProcOf[t]) /\ UNCHANGED <<disk, history>> /\ new \in Stored
        /\ procs'[ProcOf[t]].docs = docs /\ SameHits(t) /\ j.stage = "insert" /\ jobs'[t].stage = "commit"
    BY <1>8, EnterStep
  <2>2. j.doc \in Docs /\ j.doc \in Versions[new.path] /\ DOMAIN j.vec = Batches
        /\ new.vec = j.vec /\ new.label = j.label
    BY <2>1, FilingFacts
  <2> HIDE DEF new
  <2>3. /\ DOMAIN docs = DOMAIN Memory(t) \cup {j.doc} /\ docs[j.doc] = new
        /\ \A d \in DOMAIN Memory(t) \ {j.doc} : docs[d] = Memory(t)[d]
    BY <1>0, <2>1, <2>2, WithFacts
  <2> HIDE DEF docs
  <2>4. j.doc \notin S => \A b \in Batches : new.vec[b] = new.label
    BY <1>0, <2>1, <2>2 DEF VecMatch
  <2>5. Match(docs, S)
    BY <1>0, <2>3, <2>4 DEF Match
  <2>6. VecMatch(jobs'[t], history'.shifted)
    BY <2>1 DEF VecMatch
  <2> QED BY <1>0, <2>1, <2>5, <2>6, VectorsKept DEF SameHits, OtherProcs
<1>9. ASSUME Commit(t) PROVE VectorInv'
  <2>1. /\ UNCHANGED procs /\ OtherJobs(t)
        /\ \/ Committed(j) /\ UNCHANGED history /\ jobs'[t].stage = "dump" /\ SameHits(t)
           \/ Failed(t)
    BY <1>9, CommitStep
  <2>2. /\ disk'.snap = disk.snap /\ disk'.cache = disk.cache /\ disk'.backup = disk.backup
        /\ history'.shifted = history.shifted /\ (jobs'[t].stage = "dump" \/ jobs'[t] = NoJob)
        /\ jobs'[t].file \in {j.file, NoJob.file}
    BY <2>1 DEF Committed, Failed, SameHits
  <2>3. VecMatch(jobs'[t], history'.shifted)
    BY <2>2, MatchEmpty DEF VecMatch
  <2> QED BY <1>0, <2>1, <2>2, <2>3, VectorsKept
<1>10. ASSUME Dump(t) PROVE VectorInv'
  <2>1. /\ UNCHANGED <<disk, procs, history>> /\ OtherJobs(t) /\ jobs'[t].stage = "replace"
        /\ jobs'[t].file = Memory(t)
    BY <1>10, DumpStep
  <2>2. VecMatch(jobs'[t], history'.shifted)
    BY <2>1 DEF VecMatch
  <2> QED BY <1>0, <2>1, <2>2, VectorsKept
<1>11. ASSUME Replace(t) PROVE VectorInv'
  <2>1. UNCHANGED procs /\ OtherJobs(t) /\ (Replaced(t) \/ Failed(t))
    BY <1>11, ReplaceStep
  <2>2. /\ disk'.snap \in {disk.snap, j.file} /\ disk'.cache = disk.cache /\ disk'.backup = disk.backup
        /\ history'.shifted = history.shifted
        /\ jobs'[t].stage \in {"parse", "filter", "idle"} /\ jobs'[t].file = << >>
    BY <2>1, NoJobFacts DEF Replaced, Failed
  <2>3. VecMatch(jobs'[t], history'.shifted)
    BY <2>2 DEF VecMatch
  <2> QED BY <1>0, <2>1, <2>2, <2>3, MatchEmpty, VectorsKept
<1>12. ASSUME SearchSteps(t) PROVE VectorInv'
  <2>1. UNCHANGED <<disk, procs, history>> /\ OtherJobs(t) /\ Searched(t)
    BY <1>12, SearchStep
  <2>2. VecMatch(jobs'[t], history'.shifted)
    BY <2>1 DEF VecMatch, Searched
  <2>3. \A file \in Filtered(Memory(t)) : Match(file, S)
    BY <1>0, FilteredFacts DEF Match
  <2>4. jobs'[t].file = j.file \/ Match(jobs'[t].file, history'.shifted)
    BY <2>1, <2>3, MatchEmpty DEF Searched
  <2> QED BY <2>1, <2>2, <2>4, VectorsKept
<1>13. ASSUME ClearMemory(t) PROVE VectorInv'
  <2>1. /\ UNCHANGED disk /\ OtherJobs(t) /\ OtherProcs(ProcOf[t]) /\ procs'[ProcOf[t]].docs = << >>
        /\ jobs'[t].stage = "wipe" /\ jobs'[t].file = << >> /\ history'.shifted = history.shifted
    BY <1>13, ClearMemoryStep
  <2>2. VecMatch(jobs'[t], history'.shifted)
    BY <2>1 DEF VecMatch
  <2> QED BY <1>0, <2>1, <2>2, MatchEmpty, VectorsKept DEF OtherProcs
<1>14. ASSUME ClearCatalog(t) PROVE VectorInv'
  <2>1. /\ UNCHANGED <<procs, history>> /\ OtherJobs(t) /\ disk'.snap = disk.snap /\ disk'.cache = disk.cache
        /\ disk'.backup = disk.backup /\ jobs'[t].stage = "dump" /\ SameHits(t)
    BY <1>14, ClearCatalogStep
  <2>2. VecMatch(jobs'[t], history'.shifted)
    BY <2>1 DEF VecMatch
  <2> QED BY <2>1, <2>2, VectorsKept DEF SameHits
<1> QED BY <1>1, <1>2, <1>3, <1>4, <1>5, <1>6, <1>7, <1>8, <1>9, <1>10, <1>11, <1>12, <1>13, <1>14 DEF ThreadStep

LEMMA OtherVectors ==
  ASSUME Shape, VectorInv,
         \/ \E p \in Procs : Die(p) \/ Start(p)
         \/ \E path \in Paths : Edit(path)
         \/ Migrate \/ Rollback \/ UNCHANGED indexVars
  PROVE  VectorInv'
<1>1. ASSUME NEW p \in Procs, Die(p) PROVE VectorInv'
  <2>1. /\ UNCHANGED <<disk, history>> /\ OtherProcs(p) /\ procs'[p].docs = << >>
        /\ \A t \in IndexThreads : jobs'[t] \in {NoJob, jobs[t]}
    BY <1>1, DieStep
  <2>2. \A q \in Procs : Match(procs'[q].docs, history'.shifted)
    BY <2>1, MatchEmpty DEF VectorInv, MemoryMatch, OtherProcs
  <2>3. \A t \in IndexThreads : Match(jobs'[t].file, history'.shifted) /\ VecMatch(jobs'[t], history'.shifted)
    BY <2>1, NoJobFacts, MatchEmpty DEF VectorInv, JobsMatch
  <2>4. MemoryMatch'
    BY <2>2 DEF MemoryMatch, Match
  <2>5. JobsMatch'
    BY <2>3 DEF JobsMatch, Match, VecMatch
  <2>6. DiskMatch'
    BY <2>1 DEF VectorInv, DiskMatch, Match, CacheMatch
  <2> QED BY <2>4, <2>5, <2>6 DEF VectorInv
<1>2. ASSUME NEW p \in Procs, Start(p) PROVE VectorInv'
  <2>1. /\ UNCHANGED <<jobs, history>> /\ OtherProcs(p) /\ procs'[p].docs = disk.snap
        /\ disk'.snap = disk.snap /\ disk'.cache = disk.cache /\ disk'.backup = disk.backup
    BY <1>2, StartStep
  <2>2. \A q \in Procs : Match(procs'[q].docs, history'.shifted)
    BY <2>1 DEF VectorInv, MemoryMatch, DiskMatch, OtherProcs
  <2>4. MemoryMatch'
    BY <2>2 DEF MemoryMatch, Match
  <2>5. JobsMatch' /\ DiskMatch'
    BY <2>1 DEF VectorInv, JobsMatch, DiskMatch, Match, VecMatch, CacheMatch
  <2> QED BY <2>4, <2>5 DEF VectorInv
<1>3. ASSUME UNCHANGED <<procs, jobs, history>>, disk'.snap = disk.snap,
             CacheMatch(disk'.cache, history.shifted),
             disk'.backup # << >> => CacheMatch(disk'.backup.cache, history.shifted)
      PROVE  VectorInv'
  BY <1>3 DEF VectorInv, MemoryMatch, JobsMatch, DiskMatch, Match, VecMatch, CacheMatch
<1>4. (\E path \in Paths : Edit(path)) => VectorInv'
  BY <1>3, EditStep DEF VectorInv, DiskMatch
<1>5. Migrate => VectorInv'
  BY <1>3, MigrateStep, MatchEmpty DEF VectorInv, DiskMatch
<1>6. Rollback => VectorInv'
  BY <1>3, RollbackStep DEF VectorInv, DiskMatch
<1>7. UNCHANGED indexVars => VectorInv'
  BY <1>3 DEF VectorInv, DiskMatch, indexVars
<1> QED BY <1>1, <1>2, <1>4, <1>5, <1>6, <1>7

LEMMA VectorsStep ==
  ASSUME Shape, VectorInv, [IndexNext]_indexVars
  PROVE  VectorInv'
BY NextCases, ThreadVectors, OtherVectors

LEMMA VectorsInit == IndexInit => VectorInv
<1> SUFFICES ASSUME IndexInit PROVE VectorInv
  OBVIOUS
<1>1. MemoryMatch /\ DiskMatch
  BY MatchEmpty DEF IndexInit, MemoryMatch, DiskMatch
<1>2. JobsMatch
  BY MatchEmpty, NoJobFacts DEF IndexInit, JobsMatch
<1> QED BY <1>1, <1>2 DEF VectorInv

\* A label names the space of the vectors under it, wherever they are kept and
\* whatever fails, apart from the documents whose space was switched under them.
THEOREM LabelsMatch == IndexSpec => []VectorsMatchTheirLabel
<1>1. IndexInit => Shape /\ VectorInv
  BY ShapeInit, VectorsInit
<1>2. Shape /\ VectorInv /\ [IndexNext]_indexVars => Shape' /\ VectorInv'
  BY ShapeStep, VectorsStep
<1>3. VectorInv => VectorsMatchTheirLabel
  BY DEF VectorInv, MemoryMatch, DiskMatch, Match, CacheMatch, VectorsMatchTheirLabel
<1> QED BY <1>1, <1>2, <1>3, PTL DEF IndexSpec

-----------------------------------------------------------------------------
(* What was reported is found: one thread alone.                           *)

Reports(q) == history.reported[q] # NoReport
Reported(q) == history.reported[q][1]
Sure(d) == d \notin history.doubtful
Active(cat, d) == d \in DOMAIN cat /\ cat[d].active
\* Between the insertion and the report the catalog may be behind memory.
Settled(j, d) == ~(j.stage \in {"commit", "dump", "replace"} /\ j.kind # "clear" /\ d = j.doc)

Lone(t) ==
  /\ scene.threads = {t}
  /\ \A u \in IndexThreads \ {t} : jobs[u] = NoJob
  /\ \A p \in Procs \ {ProcOf[t]} : procs[p].up
  /\ \A q \in Paths : Reports(q) => history.reported[q][2] = ProcOf[t]
\* What is reported is on the disk, and in memory unless the process is down.
ReportsKept(t) ==
  \A q \in Paths : Reports(q) /\ Sure(Reported(q)) =>
    /\ Reported(q) \in DOMAIN disk.snap /\ Reported(q) \in disk.fts
    /\ procs[ProcOf[t]].up => Reported(q) \in DOMAIN Memory(t)
\* A path is not reported while it is filed.
Unreported(t) ==
  /\ Filing(jobs[t]) => ~Reports(jobs[t].path)
  /\ jobs[t].kind = "clear" => \A q \in Paths : ~Reports(q)
\* An active row of the snapshot's, or of memory's, documents can be searched.
SnapActive == \A d \in DOMAIN disk.snap : Active(disk.cat, d) /\ Sure(d) => d \in disk.fts
MemoryActive(t) ==
  procs[ProcOf[t]].up => \A d \in DOMAIN Memory(t) : Active(disk.cat, d) /\ Sure(d) /\ Settled(jobs[t], d) =>
    d \in disk.fts /\ d \in DOMAIN disk.snap
\* What the filing has done so far.
FiledSoFar(t) ==
  /\ jobs[t].stage \in {"commit", "dump", "replace"} /\ jobs[t].kind # "clear" => jobs[t].doc \in DOMAIN Memory(t)
  /\ jobs[t].stage \in {"dump", "replace"} /\ jobs[t].kind # "clear" => jobs[t].doc \in disk.fts
  /\ jobs[t].stage = "replace" => jobs[t].file = Memory(t)
\* Between a migration and its rollback nothing is filed that the catalog kept
\* aside does not have, unless the thread could die once more.
BackupGood(t) ==
  /\ scene.migrations > 0 => scene.crashes <= 1 /\ (~procs[ProcOf[t]].up => scene.crashes = 0)
  /\ disk.backup # << >> => scene.crashes = 0
  /\ disk.backup # << >> /\ ~procs[ProcOf[t]].up =>
       /\ \A d \in DOMAIN disk.snap : Active(disk.backup.cat, d) /\ Sure(d) => d \in disk.backup.fts
       /\ \A q \in Paths : Reports(q) /\ Sure(Reported(q)) => Reported(q) \in disk.backup.fts
AloneInv(t) == /\ Lone(t) /\ ReportsKept(t) /\ Unreported(t) /\ SnapActive /\ MemoryActive(t)
               /\ FiledSoFar(t) /\ BackupGood(t)

\* A report names a version of its path, and the process that filed it.
LEMMA ReportFacts ==
  ASSUME HistoryOK, NEW q \in Paths, Reports(q)
  PROVE  Reported(q) \in Versions[q] /\ Reported(q) \in Docs /\ history.reported[q][2] \in Procs
<1>1. history.reported[q] \in Versions[q] \X Procs
  BY DEF HistoryOK, Reports
<1> QED BY <1>1, VersionFacts DEF Reported

\* The documents of other paths are neither the one that is filed nor old
\* versions of it.
LEMMA OtherPath ==
  ASSUME Shape, NEW t \in IndexThreads, jobs[t].path \in Paths, NEW q \in Paths, q # jobs[t].path,
         NEW d \in Versions[q]
  PROVE  /\ d \notin Versions[jobs[t].path]
         /\ \A p \in Procs : d \in DOMAIN procs[p].docs => procs[p].docs[d].path = q
<1>1. d \notin Versions[jobs[t].path]
  BY VersionFacts
<1>2. ASSUME NEW p \in Procs, d \in DOMAIN procs[p].docs PROVE procs[p].docs[d].path = q
  <2>1. procs[p].docs \in Library
    BY DEF Shape, ProcsOK, Process
  <2>2. procs[p].docs[d].path \in Paths /\ d \in Versions[procs[p].docs[d].path]
    BY <1>2, <2>1, LibraryFacts
  <2> QED BY <2>2, VersionFacts
<1> QED BY <1>1, <1>2

\* In a step of the thread the rest of the circumstances stays.
SameUps == \A p \in Procs : procs'[p].up = procs[p].up
LEMMA AloneFrame ==
  ASSUME Shape, NEW t \in IndexThreads, AloneInv(t), ThreadStep(t), Spent, SceneOK', OtherJobs(t), SameUps,
         disk'.backup = disk.backup,
         \A q \in Paths : \/ history'.reported[q] = history.reported[q] \/ history'.reported[q] = NoReport
                         \/ history'.reported[q][2] = ProcOf[t]
  PROVE  Lone(t)' /\ BackupGood(t)' /\ procs[ProcOf[t]].up /\ procs'[ProcOf[t]].up
<1>0. ProcOf[t] \in Procs /\ procs[ProcOf[t]].up /\ procs'[ProcOf[t]].up
  BY IndexAssumption, Acting DEF SameUps
<1>1. Lone(t)'
  BY DEF AloneInv, Lone, Spent, OtherJobs, SameUps, Reports
<1>2. BackupGood(t)'
  BY <1>0, SceneFacts DEF AloneInv, BackupGood, Spent, SceneOK, Scene, Shape
<1> QED BY <1>0, <1>1, <1>2

\* Steps of the thread that change nothing that is reported or found.
LEMMA AloneKept ==
  ASSUME Shape, NEW t \in IndexThreads, AloneInv(t), ThreadStep(t), Spent, SceneOK', OtherJobs(t),
         SameMemory, disk'.snap = disk.snap, disk'.cat = disk.cat, disk'.fts = disk.fts, disk'.backup = disk.backup,
         history'.reported = history.reported, history'.doubtful = history.doubtful,
         jobs'[t].stage \notin {"commit", "dump", "replace"}, jobs'[t].kind # "clear",
         Filing(jobs'[t]) => Filing(jobs[t]) /\ jobs'[t].path = jobs[t].path,
         jobs[t].stage \notin {"commit", "dump", "replace"}
  PROVE  AloneInv(t)'
<1>0. ProcOf[t] \in Procs
  BY IndexAssumption
<1>1. Lone(t)' /\ BackupGood(t)' /\ procs[ProcOf[t]].up /\ procs'[ProcOf[t]].up
  BY AloneFrame DEF SameMemory, SameUps
<1>2. ReportsKept(t)'
  BY <1>0 DEF AloneInv, ReportsKept, Reports, Reported, Sure, SameMemory, Memory
<1>3. Unreported(t)'
  <2>1. Filing(jobs'[t]) => history'.reported[jobs'[t].path] = NoReport
    BY DEF AloneInv, Unreported, Reports
  <2> QED BY <2>1 DEF Unreported, Filing, Reports
<1>4. SnapActive'
  BY DEF AloneInv, SnapActive, Active, Sure
<1>5. MemoryActive(t)'
  BY <1>0 DEF AloneInv, MemoryActive, Active, Sure, Settled, SameMemory, Memory
<1>6. FiledSoFar(t)'
  BY DEF FiledSoFar
<1> QED BY <1>1, <1>2, <1>3, <1>4, <1>5, <1>6 DEF AloneInv

LEMMA AloneParse ==
  ASSUME Shape, NEW t \in IndexThreads, AloneInv(t), Parse(t)
  PROVE  AloneInv(t)'
<1>0. /\ ThreadStep(t) /\ Shape' /\ UNCHANGED <<scene, files, disk>> /\ SameMemory /\ OtherJobs(t)
      /\ jobs[t].stage = "parse"
      /\ history'.doubtful = history.doubtful /\ jobs[t].kind # "clear" /\ ProcOf[t] \in Procs /\ SceneOK'
  BY ParseStep, ProcFacts DEF ThreadStep, Shape, JobAt
<1>1. PICK path \in jobs[t].todo :
        /\ \A q \in Paths \ {path} : history'.reported[q] = history.reported[q]
        /\ Skipped(t, path) \/ Taken(t, path)
  BY ParseStep
<1>2. path \in Paths
  BY JobFacts DEF Shape
<1>3. history'.reported[path] = NoReport \/ history'.reported[path][2] = ProcOf[t]
  BY <1>1 DEF Skipped, Taken
<1>4. Lone(t)' /\ BackupGood(t)' /\ procs[ProcOf[t]].up /\ procs'[ProcOf[t]].up
  BY <1>0, <1>1, <1>3, AloneFrame, SceneKept DEF SameMemory, SameUps, Shape
<1>5. ReportsKept(t)'
  <2>1. CASE Skipped(t, path)
    <3>1. PICK d \in Docs : /\ Active(disk.cat, d) /\ d \in DOMAIN Memory(t)
                            /\ history'.reported[path] = <<d, ProcOf[t]>>
      BY <2>1 DEF Skipped, Active
    <3>2. Sure(d) => d \in disk.fts /\ d \in DOMAIN disk.snap
      BY <1>0, <1>4, <3>1 DEF AloneInv, MemoryActive, Settled
    <3>3. history'.reported[path][1] = d
      BY <3>1
    <3> QED BY <1>0, <1>1, <1>4, <3>1, <3>2, <3>3
            DEF AloneInv, ReportsKept, Reports, Reported, Sure, SameMemory, Memory
  <2>2. CASE Taken(t, path)
    <3>1. history'.reported[path] = NoReport
      BY <2>2 DEF Taken
    <3> QED BY <1>0, <1>1, <1>4, <3>1 DEF AloneInv, ReportsKept, Reports, Reported, Sure, SameMemory, Memory
  <2> QED BY <1>1, <2>1, <2>2
<1>6. /\ jobs'[t].stage \notin {"commit", "dump", "replace"} /\ jobs'[t].kind # "clear"
      /\ Filing(jobs'[t]) => history'.reported[jobs'[t].path] = NoReport
  BY <1>0, <1>1 DEF Skipped, Taken, Filing
<1>7. Unreported(t)'
  BY <1>6 DEF Unreported, Filing, Reports
<1>8. SnapActive'
  BY <1>0 DEF AloneInv, SnapActive, Active, Sure
<1>9. MemoryActive(t)'
  BY <1>0, <1>4, <1>6 DEF AloneInv, MemoryActive, Active, Sure, Settled, SameMemory, Memory
<1>10. FiledSoFar(t)'
  BY <1>6 DEF FiledSoFar
<1> QED BY <1>4, <1>5, <1>7, <1>8, <1>9, <1>10 DEF AloneInv

\* Before the commit a filing changes nothing but vectors.
LEMMA AloneEmbeds ==
  ASSUME Shape, NEW t \in IndexThreads, AloneInv(t),
         Chunk(t) \/ LookUp(t) \/ CallEmbedding(t) \/ StoreVectors(t)
  PROVE  AloneInv(t)'
<1>1. CASE Chunk(t)
  <2>1. /\ ThreadStep(t) /\ Shape' /\ SceneOK' /\ Spent /\ UNCHANGED <<disk, history>> /\ SameMemory /\ OtherJobs(t)
        /\ jobs[t].stage = "chunk"
        /\ jobs'[t] = NoJob \/ (jobs'[t].stage = "lookup" /\ SameWork(t))
    BY <1>1, ChunkStep DEF ThreadStep, Shape
  <2>2. Filing(jobs[t]) /\ jobs[t].kind # "clear"
    BY <2>1, FilingFacts
  <2>3. /\ jobs'[t].stage \notin {"commit", "dump", "replace"} /\ jobs'[t].kind # "clear"
        /\ Filing(jobs'[t]) => jobs'[t].path = jobs[t].path
    BY <2>1, <2>2, NoJobFacts DEF SameWork
  <2> QED BY <2>1, <2>2, <2>3, AloneKept
<1>2. CASE LookUp(t)
  <2>1. /\ ThreadStep(t) /\ Shape' /\ UNCHANGED <<scene, disk, procs, history>> /\ OtherJobs(t)
        /\ jobs[t].stage = "lookup" /\ jobs'[t].stage \in {"drop", "call"} /\ SameWork(t)
    BY <1>2, LookUpStep DEF ThreadStep
  <2>2. Filing(jobs[t]) /\ jobs[t].kind # "clear"
    BY <2>1, FilingFacts
  <2>3. SameMemory /\ SceneOK' /\ Spent
    BY <2>1, SameMemoryFacts, SceneKept DEF Shape
  <2> QED BY <2>1, <2>2, <2>3, AloneKept DEF SameWork
<1>3. CASE CallEmbedding(t)
  <2>1. /\ ThreadStep(t) /\ Shape' /\ SceneOK' /\ Spent /\ SameMemory /\ OtherJobs(t) /\ jobs[t].stage = "call"
        /\ \/ Arrived(t)
           \/ FellBack(t)
           \/ jobs'[t] = NoJob /\ UNCHANGED <<disk, history>>
    BY <1>3, CallStep DEF ThreadStep, Shape
  <2>2. Filing(jobs[t]) /\ jobs[t].kind # "clear" /\ jobs[t].doc \in Docs
    BY <2>1, FilingFacts
  <2>3. /\ jobs'[t].stage \notin {"commit", "dump", "replace"} /\ jobs'[t].kind # "clear"
        /\ Filing(jobs'[t]) => jobs'[t].path = jobs[t].path
    BY <2>1, <2>2, NoJobFacts DEF Arrived, FellBack, SameWork
  <2>4. disk'.snap = disk.snap /\ disk'.cat = disk.cat /\ disk'.fts = disk.fts /\ disk'.backup = disk.backup
    BY <2>1 DEF Arrived, FellBack, OnlyCache
  <2>5. history'.reported = history.reported /\ history'.doubtful = history.doubtful
    BY <2>1, <2>2, ShiftStep DEF Arrived, FellBack, Shape
  <2> QED BY <2>1, <2>2, <2>3, <2>4, <2>5, AloneKept
<1>4. CASE StoreVectors(t)
  <2>1. /\ ThreadStep(t) /\ Shape' /\ UNCHANGED <<scene, procs>> /\ OtherJobs(t) /\ OnlyCache
        /\ jobs[t].stage = "store" /\ jobs'[t].stage = "drop" /\ SameWork(t)
        /\ Shifts(jobs[t].doc, jobs[t].label, Space(t))
    BY <1>4, StoreStep DEF ThreadStep
  <2>2. Filing(jobs[t]) /\ jobs[t].kind # "clear" /\ jobs[t].doc \in Docs
    BY <2>1, FilingFacts
  <2>3. SameMemory /\ SceneOK' /\ Spent
    BY <2>1, SameMemoryFacts, SceneKept DEF Shape
  <2>4. history'.reported = history.reported /\ history'.doubtful = history.doubtful
    BY <2>1, <2>2, ShiftStep DEF Shape
  <2> QED BY <2>1, <2>2, <2>3, <2>4, AloneKept DEF SameWork, OnlyCache
<1> QED BY <1>1, <1>2, <1>3, <1>4

\* Searching, and beginning to file.
LEMMA AloneStarts ==
  ASSUME Shape, NEW t \in IndexThreads, AloneInv(t),
         \/ \E todo \in (SUBSET Paths) \ {{}}, kind \in {"index", "research"} : StartJob(t, todo, kind)
         \/ SearchSteps(t)
  PROVE  AloneInv(t)'
<1>1. ASSUME NEW todo \in (SUBSET Paths) \ {{}}, NEW kind \in {"index", "research"}, StartJob(t, todo, kind)
      PROVE  AloneInv(t)'
  <2>1. /\ ThreadStep(t) /\ Shape' /\ SceneOK' /\ Spent /\ UNCHANGED <<disk, procs, history>> /\ OtherJobs(t)
        /\ jobs'[t].stage = "parse" /\ jobs'[t].kind = kind
    BY <1>1, StartJobStep DEF ThreadStep, Shape
  <2>2. jobs[t].stage = "idle" /\ SameMemory
    BY <1>1, <2>1, SameMemoryFacts DEF StartJob, JobAt, Shape
  <2>3. ~Filing(jobs'[t])
    BY <2>1 DEF Filing
  <2> QED BY <2>1, <2>2, <2>3, AloneKept
<1>2. CASE SearchSteps(t)
  <2>1. /\ ThreadStep(t) /\ Shape' /\ SceneOK' /\ Spent /\ UNCHANGED <<disk, procs, history>> /\ OtherJobs(t)
        /\ Searched(t)
    BY <1>2, SearchStep DEF ThreadStep, Shape
  <2>2. /\ jobs'[t].stage \notin {"commit", "dump", "replace"} /\ jobs'[t].kind # "clear" /\ ~Filing(jobs'[t])
    BY <2>1 DEF Searched, Filing
  <2>3. SameMemory
    BY <2>1, SameMemoryFacts DEF Shape
  <2>4. jobs[t].stage \notin {"commit", "dump", "replace"}
    BY <1>2 DEF SearchSteps, StartSearch, Filter, Recall, Rank, Cite, JobAt
  <2> QED BY <2>1, <2>2, <2>3, <2>4, AloneKept
<1> QED BY <1>1, <1>2

LEMMA AloneDrops ==
  ASSUME Shape, NEW t \in IndexThreads, AloneInv(t), DropOld(t)
  PROVE  AloneInv(t)'
<1> DEFINE j == jobs[t]
           gone == OldVersions(Memory(t), j.path, j.doc) \cup {j.doc}
           docs == procs'[ProcOf[t]].docs
<1>0. /\ ThreadStep(t) /\ Shape' /\ UNCHANGED <<scene, disk>> /\ OtherJobs(t) /\ OtherProcs(ProcOf[t])
      /\ SameSwitches(ProcOf[t]) /\ docs = Without(Memory(t), gone)
      /\ j.stage = "drop" /\ jobs'[t].stage = "insert" /\ SameWork(t)
      /\ Shifts(j.doc, j.label, Space(t))
  BY DropStep DEF ThreadStep
<1>1. /\ Filing(j) /\ j.kind # "clear" /\ j.path \in Paths /\ j.doc \in Docs /\ j.doc \in Versions[j.path]
      /\ ProcOf[t] \in Procs /\ Memory(t) \in Library /\ SceneOK' /\ Spent
  BY <1>0, FilingFacts, ProcFacts, SceneKept DEF Shape
<1>2. history'.reported = history.reported /\ history'.doubtful = history.doubtful
  BY <1>0, <1>1, ShiftStep DEF Shape
<1>3. DOMAIN docs = DOMAIN Memory(t) \ gone
  <2> HIDE DEF gone
  <2>1. DOMAIN Without(Memory(t), gone) = DOMAIN Memory(t) \ gone
    BY <1>1, WithoutFacts
  <2> HIDE DEF docs
  <2> QED BY <1>0, <2>1
<1>4. SameUps
  BY <1>0 DEF SameUps, OtherProcs, SameSwitches
<1>5. Lone(t)' /\ BackupGood(t)' /\ procs[ProcOf[t]].up /\ procs'[ProcOf[t]].up
  BY <1>0, <1>1, <1>2, <1>4, AloneFrame
<1>6. ReportsKept(t)'
  <2> SUFFICES ASSUME NEW q \in Paths, Reports(q), Sure(Reported(q))
               PROVE  /\ Reported(q) \in DOMAIN disk.snap /\ Reported(q) \in disk.fts
                      /\ Reported(q) \in DOMAIN docs
    BY <1>0, <1>2 DEF ReportsKept, Reports, Reported, Sure, Memory
  <2>1. /\ Reported(q) \in DOMAIN disk.snap /\ Reported(q) \in disk.fts /\ Reported(q) \in DOMAIN Memory(t)
        /\ q # j.path
    BY <1>1, <1>5 DEF AloneInv, ReportsKept, Unreported
  <2>2. Reported(q) \in Versions[q]
    BY ReportFacts DEF Shape
  <2>3. Reported(q) \notin Versions[j.path] /\ Memory(t)[Reported(q)].path = q
    BY <1>1, <2>1, <2>2, OtherPath DEF Memory
  <2>4. Reported(q) \notin gone
    BY <1>1, <2>1, <2>3 DEF OldVersions
  <2> QED BY <1>3, <2>1, <2>4
<1>7. Unreported(t)'
  BY <1>0, <1>1, <1>2 DEF AloneInv, Unreported, Filing, Reports, SameWork
<1>8. SnapActive'
  BY <1>0, <1>2 DEF AloneInv, SnapActive, Active, Sure
<1>9. MemoryActive(t)'
  <2>1. \A d \in DOMAIN docs : Active(disk.cat, d) /\ Sure(d) => d \in disk.fts /\ d \in DOMAIN disk.snap
    BY <1>0, <1>3, <1>5 DEF AloneInv, MemoryActive, Settled
  <2> QED BY <1>0, <1>2, <2>1 DEF MemoryActive, Active, Sure, Memory
<1>10. FiledSoFar(t)'
  BY <1>0 DEF FiledSoFar
<1> QED BY <1>5, <1>6, <1>7, <1>8, <1>9, <1>10 DEF AloneInv

LEMMA AloneEnters ==
  ASSUME Shape, NEW t \in IndexThreads, AloneInv(t), Enter(t)
  PROVE  AloneInv(t)'
<1> DEFINE j == jobs[t]
           new == [path |-> jobs[t].path, label |-> jobs[t].label, vec |-> jobs[t].vec]
           docs == procs'[ProcOf[t]].docs
<1>0. /\ ThreadStep(t) /\ Shape' /\ UNCHANGED <<scene, disk, history>> /\ OtherJobs(t) /\ OtherProcs(ProcOf[t])
      /\ SameSwitches(ProcOf[t]) /\ new \in Stored /\ docs = With(Memory(t), j.doc, new)
      /\ j.stage = "insert" /\ jobs'[t].stage = "commit" /\ SameWork(t)
  BY EnterStep DEF ThreadStep
<1>1. /\ Filing(j) /\ j.kind # "clear" /\ j.path \in Paths /\ j.doc \in Docs /\ j.doc \in Versions[new.path]
      /\ ProcOf[t] \in Procs /\ Memory(t) \in Library /\ SceneOK' /\ Spent
  BY <1>0, FilingFacts, ProcFacts, SceneKept DEF Shape
<1>3. DOMAIN docs = DOMAIN Memory(t) \cup {j.doc}
  <2>1. j.doc \in Docs /\ j.doc \in Versions[new.path] /\ new \in Stored /\ Memory(t) \in Library
    BY <1>0, <1>1
  <2> HIDE DEF new, docs, j
  <2>2. DOMAIN With(Memory(t), j.doc, new) = DOMAIN Memory(t) \cup {j.doc}
    BY <2>1, WithFacts
  <2> QED BY <1>0, <2>2
<1>4. SameUps
  BY <1>0 DEF SameUps, OtherProcs, SameSwitches
<1>5. Lone(t)' /\ BackupGood(t)' /\ procs[ProcOf[t]].up /\ procs'[ProcOf[t]].up
  BY <1>0, <1>1, <1>4, AloneFrame
<1>6. ReportsKept(t)'
  <2>1. \A q \in Paths : Reports(q) /\ Sure(Reported(q)) =>
          /\ Reported(q) \in DOMAIN disk.snap /\ Reported(q) \in disk.fts /\ Reported(q) \in DOMAIN docs
    BY <1>3, <1>5 DEF AloneInv, ReportsKept
  <2> QED BY <1>0, <2>1 DEF ReportsKept, Reports, Reported, Sure, Memory
<1>7. Unreported(t)'
  BY <1>0, <1>1 DEF AloneInv, Unreported, Filing, Reports, SameWork
<1>8. SnapActive'
  BY <1>0 DEF AloneInv, SnapActive, Active, Sure
<1>9. MemoryActive(t)'
  <2>1. \A d \in DOMAIN docs \ {j.doc} : Active(disk.cat, d) /\ Sure(d) => d \in disk.fts /\ d \in DOMAIN disk.snap
    BY <1>0, <1>3, <1>5 DEF AloneInv, MemoryActive, Settled
  <2>2. ~Settled(jobs'[t], j.doc)
    BY <1>0, <1>1 DEF Settled, SameWork
  <2> QED BY <1>0, <2>1, <2>2 DEF MemoryActive, Active, Sure, Memory
<1>10. FiledSoFar(t)'
  BY <1>0, <1>3 DEF FiledSoFar, Memory, SameWork
<1> QED BY <1>5, <1>6, <1>7, <1>8, <1>9, <1>10 DEF AloneInv

\* An exception ends the job; what it left in memory is doubtful.
LEMMA AloneFails ==
  ASSUME Shape, NEW t \in IndexThreads, AloneInv(t), ThreadStep(t), SceneOK', Spent, UNCHANGED procs,
         OtherJobs(t), Failed(t), jobs[t].kind # "clear" => jobs[t].doc \in Docs
  PROVE  AloneInv(t)'
<1>0. /\ SameUps /\ disk'.backup = disk.backup /\ UNCHANGED <<disk, procs>> /\ jobs'[t] = NoJob
      /\ history'.reported = history.reported /\ history.doubtful \subseteq history'.doubtful
      /\ jobs[t].kind # "clear" => jobs[t].doc \in history'.doubtful
  BY DEF Failed, SameUps
<1>1. Lone(t)' /\ BackupGood(t)' /\ procs[ProcOf[t]].up /\ procs'[ProcOf[t]].up
  BY <1>0, AloneFrame
<1>2. ReportsKept(t)'
  BY <1>0 DEF AloneInv, ReportsKept, Reports, Reported, Sure, Memory
<1>3. Unreported(t)'
  BY <1>0, NoJobFacts DEF Unreported, Filing
<1>4. SnapActive'
  BY <1>0 DEF AloneInv, SnapActive, Active, Sure
<1>5. MemoryActive(t)'
  <2>1. \A d \in DOMAIN Memory(t) : Active(disk.cat, d) /\ d \notin history'.doubtful =>
          d \in disk.fts /\ d \in DOMAIN disk.snap
    BY <1>0, <1>1 DEF AloneInv, MemoryActive, Settled, Sure
  <2> QED BY <1>0, <2>1 DEF MemoryActive, Active, Sure, Memory
<1>6. FiledSoFar(t)'
  BY <1>0, NoJobFacts DEF FiledSoFar
<1> QED BY <1>1, <1>2, <1>3, <1>4, <1>5, <1>6 DEF AloneInv

LEMMA AloneCommits ==
  ASSUME Shape, NEW t \in IndexThreads, AloneInv(t), Commit(t)
  PROVE  AloneInv(t)'
<1> DEFINE j == jobs[t]
<1>0. /\ ThreadStep(t) /\ Shape' /\ SceneOK' /\ Spent /\ UNCHANGED procs /\ OtherJobs(t) /\ j.stage = "commit"
      /\ \/ /\ Committed(j) /\ UNCHANGED history /\ jobs'[t].stage = "dump" /\ SameWork(t)
         \/ Failed(t)
  BY CommitStep DEF ThreadStep, Shape
<1>1. /\ Filing(j) /\ j.kind # "clear" /\ j.path \in Paths /\ j.doc \in Docs /\ j.doc \in Versions[j.path]
  BY <1>0, FilingFacts
<1>2. CASE Failed(t)
  BY <1>0, <1>1, <1>2, AloneFails
<1>3. CASE Committed(j) /\ UNCHANGED history /\ jobs'[t].stage = "dump" /\ SameWork(t)
  <2>1. /\ disk'.snap = disk.snap /\ disk'.backup = disk.backup /\ j.doc \in disk'.fts
        /\ \A d \in Docs \ {j.doc} : Active(disk'.cat, d) =>
             Active(disk.cat, d) /\ (d \in disk.fts => d \in disk'.fts)
        /\ \A d \in disk.fts : d \notin Versions[j.path] => d \in disk'.fts
    BY <1>3 DEF Committed, Active
  <2>2. SameUps
    BY <1>0 DEF SameUps
  <2>3. Lone(t)' /\ BackupGood(t)' /\ procs[ProcOf[t]].up /\ procs'[ProcOf[t]].up
    BY <1>0, <1>3, <2>1, <2>2, AloneFrame
  <2>4. ReportsKept(t)'
    <3> SUFFICES ASSUME NEW q \in Paths, Reports(q), Sure(Reported(q))
                 PROVE  /\ Reported(q) \in DOMAIN disk.snap /\ Reported(q) \in disk'.fts
                        /\ Reported(q) \in DOMAIN Memory(t)
      BY <1>0, <1>3, <2>1 DEF ReportsKept, Reports, Reported, Sure, Memory
    <3>1. /\ Reported(q) \in DOMAIN disk.snap /\ Reported(q) \in disk.fts /\ Reported(q) \in DOMAIN Memory(t)
          /\ q # j.path
      BY <1>1, <2>3 DEF AloneInv, ReportsKept, Unreported
    <3>2. Reported(q) \in Versions[q]
      BY ReportFacts DEF Shape
    <3>3. Reported(q) \notin Versions[j.path]
      BY <1>1, <3>1, <3>2, OtherPath
    <3> QED BY <2>1, <3>1, <3>3
  <2>5. Unreported(t)'
    BY <1>1, <1>3 DEF AloneInv, Unreported, Filing, Reports, SameWork
  <2>6. disk.snap \in Library /\ Memory(t) \in Library
    BY ProcFacts DEF Shape, DiskOK, Disk
  <2>7. DOMAIN disk.snap \subseteq Docs /\ DOMAIN Memory(t) \subseteq Docs
    BY <2>6, LibraryFacts
  <2>8. SnapActive'
    <3>1. \A d \in DOMAIN disk.snap : Active(disk'.cat, d) /\ Sure(d) => d \in disk'.fts
      BY <2>1, <2>7 DEF AloneInv, SnapActive
    <3> QED BY <1>3, <2>1, <3>1 DEF SnapActive, Active, Sure
  <2>9. MemoryActive(t)'
    <3>1. \A d \in DOMAIN Memory(t) \ {j.doc} : Active(disk'.cat, d) /\ Sure(d) => d \in disk'.fts /\ d \in DOMAIN disk.snap
      BY <2>1, <2>3, <2>7 DEF AloneInv, MemoryActive, Settled
    <3>2. ~Settled(jobs'[t], j.doc)
      BY <1>1, <1>3 DEF Settled, SameWork
    <3> QED BY <1>0, <1>3, <2>1, <3>1, <3>2 DEF MemoryActive, Active, Sure, Memory
  <2>10. FiledSoFar(t)'
    BY <1>0, <1>1, <1>3, <2>1 DEF AloneInv, FiledSoFar, Memory, SameWork
  <2> QED BY <2>3, <2>4, <2>5, <2>8, <2>9, <2>10 DEF AloneInv
<1> QED BY <1>0, <1>2, <1>3

LEMMA AloneDumps ==
  ASSUME Shape, NEW t \in IndexThreads, AloneInv(t), Dump(t)
  PROVE  AloneInv(t)'
<1>0. /\ ThreadStep(t) /\ Shape' /\ UNCHANGED <<scene, disk, procs, history>> /\ OtherJobs(t)
      /\ jobs[t].stage = "dump" /\ jobs'[t].stage = "replace" /\ SameWork(t) /\ jobs'[t].file = Memory(t)
  BY DumpStep DEF ThreadStep
<1>1. SceneOK' /\ Spent /\ SameUps
  BY <1>0, SceneKept DEF Shape, SameUps
<1>2. Lone(t)' /\ BackupGood(t)' /\ procs[ProcOf[t]].up /\ procs'[ProcOf[t]].up
  BY <1>0, <1>1, AloneFrame
<1>3. ReportsKept(t)'
  BY <1>0 DEF AloneInv, ReportsKept, Reports, Reported, Sure, Memory
<1>4. Unreported(t)'
  BY <1>0 DEF AloneInv, Unreported, Filing, Reports, SameWork
<1>5. SnapActive'
  BY <1>0 DEF AloneInv, SnapActive, Active, Sure
<1>6. MemoryActive(t)'
  <2>1. \A d : Settled(jobs'[t], d) => Settled(jobs[t], d)
    BY <1>0 DEF Settled, SameWork
  <2> QED BY <1>0, <2>1 DEF AloneInv, MemoryActive, Active, Sure, Memory
<1>7. FiledSoFar(t)'
  BY <1>0 DEF AloneInv, FiledSoFar, Memory, SameWork
<1> QED BY <1>2, <1>3, <1>4, <1>5, <1>6, <1>7 DEF AloneInv

LEMMA AloneReplaces ==
  ASSUME Shape, NEW t \in IndexThreads, AloneInv(t), Replace(t)
  PROVE  AloneInv(t)'
<1> DEFINE j == jobs[t]
<1>0. /\ ThreadStep(t) /\ Shape' /\ SceneOK' /\ Spent /\ UNCHANGED procs /\ OtherJobs(t) /\ j.stage = "replace"
      /\ Replaced(t) \/ Failed(t)
  BY ReplaceStep DEF ThreadStep, Shape
<1>1. /\ j.kind # "clear" => j.path \in Paths /\ j.doc \in Docs /\ j.doc \in Versions[j.path] /\ Filing(j)
      /\ j.kind = "clear" => j.doc = NoDoc
  BY <1>0, JobFacts, VersionFacts DEF Shape, JobOK, Filing
<1>2. CASE Failed(t)
  BY <1>0, <1>1, <1>2, AloneFails
<1>3. CASE Replaced(t)
  <2>1. /\ disk'.snap = Memory(t) /\ disk'.cat = disk.cat /\ disk'.fts = disk.fts /\ disk'.backup = disk.backup
        /\ history'.doubtful = history.doubtful \ {j.doc}
        /\ j.kind = "clear" => history'.reported = history.reported
        /\ j.kind # "clear" =>
             /\ history'.reported[j.path] = <<j.doc, ProcOf[t]>>
             /\ \A q \in Paths \ {j.path} : history'.reported[q] = history.reported[q]
        /\ jobs'[t].stage \in {"parse", "filter", "idle"} /\ jobs'[t].kind # "clear"
    BY <1>0, <1>3 DEF Replaced, AloneInv, FiledSoFar
  <2>2. SameUps
    BY <1>0 DEF SameUps
  <2>3. Lone(t)' /\ BackupGood(t)' /\ procs[ProcOf[t]].up /\ procs'[ProcOf[t]].up
    <3>1. \A q \in Paths : \/ history'.reported[q] = history.reported[q]
                           \/ history'.reported[q][2] = ProcOf[t]
      BY <2>1
    <3> QED BY <1>0, <2>1, <2>2, <3>1, AloneFrame
  <2>4. j.kind # "clear" => j.doc \in DOMAIN Memory(t) /\ j.doc \in disk.fts
    BY <1>0 DEF AloneInv, FiledSoFar
  <2>5. Memory(t) \in Library /\ DOMAIN Memory(t) \subseteq Docs
    BY ProcFacts, LibraryFacts DEF Shape
  <2>6. \A d \in DOMAIN Memory(t) : Active(disk.cat, d) /\ d \notin history'.doubtful => d \in disk.fts
    <3> SUFFICES ASSUME NEW d \in DOMAIN Memory(t), Active(disk.cat, d), d \notin history'.doubtful
                 PROVE  d \in disk.fts
      OBVIOUS
    <3>1. CASE j.kind # "clear" /\ d = j.doc
      BY <2>4, <3>1
    <3>2. CASE ~(j.kind # "clear" /\ d = j.doc)
      <4>1. d # j.doc
        BY <1>1, <2>5, <3>2, VersionFacts
      <4>2. Sure(d) /\ Settled(j, d)
        BY <2>1, <4>1 DEF Sure, Settled
      <4> QED BY <2>3, <4>2 DEF AloneInv, MemoryActive
    <3> QED BY <3>1, <3>2
  <2>7. \A q \in Paths : history'.reported[q] # NoReport /\ history'.reported[q][1] \notin history'.doubtful =>
          history'.reported[q][1] \in DOMAIN Memory(t) /\ history'.reported[q][1] \in disk.fts
    <3> SUFFICES ASSUME NEW q \in Paths, history'.reported[q] # NoReport,
                        history'.reported[q][1] \notin history'.doubtful
                 PROVE  history'.reported[q][1] \in DOMAIN Memory(t) /\ history'.reported[q][1] \in disk.fts
      OBVIOUS
    <3>1. CASE j.kind = "clear"
      BY <2>1, <3>1 DEF AloneInv, Unreported, Reports
    <3>2. CASE j.kind # "clear" /\ q = j.path
      <4>1. history'.reported[q][1] = j.doc
        BY <2>1, <3>2
      <4> QED BY <2>4, <3>2, <4>1
    <3>3. CASE j.kind # "clear" /\ q # j.path
      <4>1. Reports(q) /\ history'.reported[q][1] = Reported(q)
        BY <2>1, <3>3 DEF Reports, Reported
      <4>2. Reported(q) \in Versions[q]
        BY <4>1, ReportFacts DEF Shape
      <4>3. Reported(q) # j.doc
        BY <1>1, <3>3, <4>2, OtherPath
      <4>4. Sure(Reported(q))
        BY <2>1, <4>1, <4>3 DEF Sure
      <4> QED BY <2>3, <4>1, <4>4 DEF AloneInv, ReportsKept
    <3> QED BY <3>1, <3>2, <3>3
  <2>8. ReportsKept(t)'
    BY <1>0, <2>1, <2>7 DEF ReportsKept, Reports, Reported, Sure, Memory
  <2>9. Unreported(t)'
    BY <2>1 DEF Unreported, Filing
  <2>10. SnapActive'
    BY <2>1, <2>6 DEF SnapActive, Active, Sure
  <2>11. MemoryActive(t)'
    BY <1>0, <2>1, <2>6 DEF MemoryActive, Active, Sure, Memory
  <2>12. FiledSoFar(t)'
    BY <2>1 DEF FiledSoFar
  <2> QED BY <2>3, <2>8, <2>9, <2>10, <2>11, <2>12 DEF AloneInv
<1> QED BY <1>0, <1>2, <1>3

LEMMA AloneClears ==
  ASSUME Shape, NEW t \in IndexThreads, AloneInv(t), ClearMemory(t) \/ ClearCatalog(t)
  PROVE  AloneInv(t)'
<1>1. CASE ClearMemory(t)
  <2>1. /\ ThreadStep(t) /\ Shape' /\ SceneOK' /\ Spent /\ UNCHANGED disk /\ OtherJobs(t) /\ OtherProcs(ProcOf[t])
        /\ SameSwitches(ProcOf[t]) /\ procs'[ProcOf[t]].docs = << >> /\ history'.doubtful = history.doubtful
        /\ \A q \in Paths : history'.reported[q] = NoReport
        /\ jobs'[t].stage = "wipe"
    BY <1>1, ClearMemoryStep DEF ThreadStep, Shape
  <2>2. SameUps
    BY <2>1 DEF SameUps, OtherProcs, SameSwitches
  <2>3. Lone(t)' /\ BackupGood(t)' /\ procs[ProcOf[t]].up /\ procs'[ProcOf[t]].up
    BY <2>1, <2>2, AloneFrame
  <2>4. ReportsKept(t)' /\ Unreported(t)' /\ FiledSoFar(t)'
    BY <2>1 DEF ReportsKept, Unreported, FiledSoFar, Reports, Filing
  <2>5. SnapActive'
    BY <2>1 DEF AloneInv, SnapActive, Active, Sure
  <2>6. MemoryActive(t)'
    BY <2>1, EmptyLibrary DEF MemoryActive, Memory
  <2> QED BY <2>3, <2>4, <2>5, <2>6 DEF AloneInv
<1>2. CASE ClearCatalog(t)
  <2>1. /\ ThreadStep(t) /\ Shape' /\ UNCHANGED <<scene, procs, history>> /\ OtherJobs(t)
        /\ disk'.cat = << >> /\ disk'.fts = {} /\ disk'.snap = disk.snap /\ disk'.backup = disk.backup
        /\ jobs[t].stage = "wipe" /\ jobs[t].kind = "clear" /\ jobs'[t].stage = "dump" /\ SameWork(t)
    BY <1>2, ClearCatalogStep DEF ThreadStep
  <2>2. SceneOK' /\ Spent /\ SameUps
    BY <2>1, SceneKept DEF Shape, SameUps
  <2>3. Lone(t)' /\ BackupGood(t)' /\ procs[ProcOf[t]].up /\ procs'[ProcOf[t]].up
    BY <2>1, <2>2, AloneFrame
  <2>4. /\ jobs'[t].kind = "clear"
        /\ \A q \in Paths : history'.reported[q] = NoReport
    BY <2>1 DEF AloneInv, Unreported, Reports, SameWork
  <2>5. ReportsKept(t)' /\ Unreported(t)' /\ FiledSoFar(t)'
    BY <2>1, <2>4 DEF ReportsKept, Unreported, FiledSoFar, Reports, Filing
  <2>6. \A d : ~Active(disk'.cat, d)
    BY <2>1, EmptyLibrary DEF Active
  <2>7. SnapActive' /\ MemoryActive(t)'
    BY <2>6 DEF SnapActive, MemoryActive, Active
  <2> QED BY <2>3, <2>5, <2>7 DEF AloneInv
<1> QED BY <1>1, <1>2

\* No other thread acts.
LEMMA AloneThread ==
  ASSUME Shape, NEW t \in IndexThreads, AloneInv(t), NEW u \in IndexThreads, ThreadStep(u)
  PROVE  AloneInv(t)'
<1>1. u = t
  BY Acting, NoJobFacts DEF AloneInv, Lone
<1> QED BY <1>1, AloneParse, AloneEmbeds, AloneStarts, AloneDrops, AloneEnters, AloneCommits, AloneDumps,
           AloneReplaces, AloneClears DEF ThreadStep

LEMMA AloneDies ==
  ASSUME Shape, NEW t \in IndexThreads, AloneInv(t), NEW p \in Procs, Die(p)
  PROVE  AloneInv(t)'
<1>0. /\ Spent /\ UNCHANGED <<disk, history>> /\ OtherProcs(p) /\ procs'[p].docs = << >> /\ ~procs'[p].up
      /\ procs[p].up /\ scene.crashes > 0 /\ scene'.crashes = scene.crashes - 1
      /\ \E u \in scene.threads : ProcOf[u] = p
      /\ \A u \in IndexThreads : /\ ProcOf[u] = p => jobs'[u] = NoJob
                                 /\ ProcOf[u] # p => jobs'[u] = jobs[u]
      /\ scene.crashes \in Nat /\ scene.migrations \in Nat /\ scene'.migrations \in Nat
  BY DieStep, SceneFacts DEF Shape, SceneOK, Scene
<1>1. ProcOf[t] = p
  BY <1>0 DEF AloneInv, Lone
<1>2. Lone(t)'
  BY <1>0, <1>1 DEF AloneInv, Lone, Spent, OtherProcs, Reports
<1>3. ReportsKept(t)'
  BY <1>0, <1>1 DEF AloneInv, ReportsKept, Reports, Reported, Sure
<1>4. Unreported(t)' /\ FiledSoFar(t)'
  BY <1>0, <1>1, NoJobFacts DEF Unreported, FiledSoFar, Filing
<1>5. SnapActive'
  BY <1>0 DEF AloneInv, SnapActive, Active, Sure
<1>6. MemoryActive(t)'
  BY <1>0, <1>1 DEF MemoryActive
<1>7. BackupGood(t)'
  BY <1>0, <1>1 DEF AloneInv, BackupGood, Spent
<1> QED BY <1>2, <1>3, <1>4, <1>5, <1>6, <1>7 DEF AloneInv

LEMMA AloneLoads ==
  ASSUME Shape, VersionsInv, NEW t \in IndexThreads, AloneInv(t), NEW p \in Procs, Start(p)
  PROVE  AloneInv(t)'
<1>0. /\ UNCHANGED <<scene, jobs, history>> /\ OtherProcs(p)
      /\ ~procs[p].up /\ procs'[p].up /\ procs'[p].docs = disk.snap
      /\ disk'.snap = disk.snap /\ disk'.cat = disk.cat /\ disk'.backup = disk.backup
      /\ disk'.fts \in {disk.fts, DOMAIN disk.snap}
  BY StartStep
<1>1. ProcOf[t] = p
  BY <1>0 DEF AloneInv, Lone
<1>2. jobs[t] = NoJob
  BY <1>0, <1>1 DEF VersionsInv, DeadIdle
<1>3. Lone(t)'
  BY <1>0, <1>1 DEF AloneInv, Lone, OtherProcs, Reports
<1>4. ReportsKept(t)'
  <2>1. \A q \in Paths : Reports(q) /\ Sure(Reported(q)) =>
          Reported(q) \in DOMAIN disk.snap /\ Reported(q) \in disk'.fts
    BY <1>0 DEF AloneInv, ReportsKept
  <2> QED BY <1>0, <1>1, <2>1 DEF ReportsKept, Reports, Reported, Sure, Memory
<1>5. Unreported(t)' /\ FiledSoFar(t)'
  BY <1>0, <1>2, NoJobFacts DEF Unreported, FiledSoFar, Filing
<1>6. \A d \in DOMAIN disk.snap : Active(disk.cat, d) /\ Sure(d) => d \in disk'.fts
  BY <1>0 DEF AloneInv, SnapActive
<1>7. SnapActive'
  BY <1>0, <1>6 DEF SnapActive, Active, Sure
<1>8. MemoryActive(t)'
  BY <1>0, <1>1, <1>6 DEF MemoryActive, Active, Sure, Memory
<1>9. BackupGood(t)'
  BY <1>0, <1>1 DEF AloneInv, BackupGood
<1> QED BY <1>3, <1>4, <1>5, <1>7, <1>8, <1>9 DEF AloneInv

LEMMA AloneMigrates ==
  ASSUME Shape, VersionsInv, NEW t \in IndexThreads, AloneInv(t), Migrate \/ Rollback
  PROVE  AloneInv(t)'
<1>0. UNCHANGED <<procs, jobs, history>> /\ SceneOK' /\ Spent /\ ~procs[ProcOf[t]].up /\ jobs[t] = NoJob
      /\ disk'.snap = disk.snap /\ ProcOf[t] \in Procs
  <2>1. UNCHANGED <<procs, jobs, history>> /\ SceneOK' /\ Spent /\ disk'.snap = disk.snap
    BY MigrateStep, RollbackStep, SceneKept DEF Shape
  <2>2. ProcOf[t] \in Procs /\ t \in scene.threads
    BY IndexAssumption DEF AloneInv, Lone
  <2>3. ~procs[ProcOf[t]].up
    BY <2>2, MigrateStep, RollbackStep
  <2> QED BY <2>1, <2>2, <2>3 DEF VersionsInv, DeadIdle
<1>1. Lone(t)'
  BY <1>0 DEF AloneInv, Lone, Spent, Reports
<1>2. Unreported(t)' /\ FiledSoFar(t)' /\ MemoryActive(t)'
  BY <1>0, NoJobFacts DEF Unreported, FiledSoFar, MemoryActive, Filing
<1>3. /\ \A q \in Paths : Reports(q) /\ Sure(Reported(q)) => Reported(q) \in disk'.fts
      /\ \A d \in DOMAIN disk.snap : Active(disk'.cat, d) /\ Sure(d) => d \in disk'.fts
  <2>1. CASE Migrate
    <3>1. disk'.fts = DOMAIN disk.snap
      BY <2>1, MigrateStep
    <3> QED BY <3>1 DEF AloneInv, ReportsKept
  <2>2. CASE Rollback
    <3>1. disk.backup # << >> /\ disk'.cat = disk.backup.cat /\ disk'.fts = disk.backup.fts
      BY <2>2, RollbackStep
    <3> QED BY <1>0, <3>1 DEF AloneInv, BackupGood
  <2> QED BY <2>1, <2>2
<1>4. ReportsKept(t)'
  BY <1>0, <1>3 DEF AloneInv, ReportsKept, Reports, Reported, Sure
<1>5. SnapActive'
  BY <1>0, <1>3 DEF SnapActive, Active, Sure
<1>6. BackupGood(t)'
  <2>0. scene.crashes \in Nat /\ scene'.crashes \in Nat /\ scene.migrations \in Nat /\ scene'.migrations \in Nat
    BY <1>0, SceneFacts DEF Shape, SceneOK, Scene
  <2>1. scene'.crashes <= scene.crashes /\ scene'.migrations <= scene.migrations
    BY <1>0 DEF Spent
  <2>2. CASE Migrate
    <3>1. /\ scene.migrations > 0 /\ disk'.backup.cat = disk.cat /\ disk'.backup.fts = disk.fts
      BY <2>2, MigrateStep
    <3>2. scene.crashes = 0
      BY <1>0, <3>1 DEF AloneInv, BackupGood
    <3>3. scene'.crashes = 0
      BY <2>0, <2>1, <3>2
    <3>4. /\ \A d \in DOMAIN disk.snap : Active(disk.cat, d) /\ Sure(d) => d \in disk.fts
          /\ \A q \in Paths : Reports(q) /\ Sure(Reported(q)) => Reported(q) \in disk.fts
      BY DEF AloneInv, SnapActive, ReportsKept
    <3> QED BY <1>0, <3>1, <3>3, <3>4 DEF BackupGood, Active, Sure, Reports, Reported
  <2>3. CASE Rollback
    <3>1. disk'.backup = << >>
      BY <2>3, RollbackStep
    <3> QED BY <1>0, <2>0, <2>1, <3>1 DEF AloneInv, BackupGood
  <2> QED BY <2>2, <2>3
<1> QED BY <1>1, <1>2, <1>4, <1>5, <1>6 DEF AloneInv

LEMMA AloneStays ==
  ASSUME Shape, NEW t \in IndexThreads, AloneInv(t), SceneOK', Spent, UNCHANGED <<disk, procs, jobs, history>>
  PROVE  AloneInv(t)'
<1>1. Lone(t)' /\ ReportsKept(t)' /\ Unreported(t)' /\ SnapActive' /\ MemoryActive(t)' /\ FiledSoFar(t)'
  BY DEF AloneInv, Lone, ReportsKept, Unreported, SnapActive, MemoryActive, FiledSoFar, Spent, Reports, Reported, Sure,
         Active, Settled, Filing, Memory
<1>2. BackupGood(t)'
  BY SceneFacts DEF AloneInv, BackupGood, Spent, SceneOK, Scene, Shape, Reports, Reported, Sure, Active
<1> QED BY <1>1, <1>2 DEF AloneInv

LEMMA AloneStep ==
  ASSUME Shape, VersionsInv, NEW t \in IndexThreads, AloneInv(t), [IndexNext]_indexVars
  PROVE  AloneInv(t)'
<1>1. \A path \in Paths : Edit(path) => AloneInv(t)'
  BY EditStep, AloneStays DEF Shape
<1>2. UNCHANGED indexVars => AloneInv(t)'
  BY StutterStep, AloneStays DEF indexVars, Shape
<1> QED BY <1>1, <1>2, NextCases, AloneThread, AloneDies, AloneLoads, AloneMigrates

-----------------------------------------------------------------------------
(* What was reported is found: several threads that only file and search.  *)

Peaceful == /\ scene.crashes = 0 /\ scene.clears = 0 /\ scene.migrations = 0 /\ disk.backup = << >>
            /\ \A p \in Procs : procs[p].up
            /\ \A t \in IndexThreads : jobs[t].kind # "clear"
ReportsFound ==
  \A q \in Paths : Reports(q) /\ Sure(Reported(q)) =>
    Reported(q) \in disk.fts /\ Reported(q) \in DOMAIN procs[history.reported[q][2]].docs
JobDone(t) ==
  /\ Filing(jobs[t]) => ~Reports(jobs[t].path)
  /\ jobs[t].stage \in {"commit", "dump", "replace"} => jobs[t].doc \in DOMAIN Memory(t)
  /\ jobs[t].stage \in {"dump", "replace"} => jobs[t].doc \in disk.fts
JobsDone == \A t \in IndexThreads : JobDone(t)
RowsFound == \A d \in DOMAIN disk.cat : Active(disk.cat, d) => d \in disk.fts
TogetherInv == Peaceful /\ ReportsFound /\ JobsDone /\ RowsFound

\* What two threads file are versions of different paths.
LEMMA ClaimedApart ==
  ASSUME Shape, VersionsInv, NEW t \in IndexThreads, NEW u \in IndexThreads, u # t, Filing(jobs[u]),
         Filing(jobs[t])
  PROVE  /\ jobs[u].path \in Paths /\ jobs[t].path \in Paths /\ jobs[u].path # jobs[t].path
         /\ jobs[u].doc \in Versions[jobs[u].path]
<1>1. JobOK(jobs[u]) /\ JobOK(jobs[t])
  BY DEF Shape, JobsOK
<1>2. jobs[u].path \in Paths /\ jobs[t].path \in Paths /\ jobs[u].doc \in Versions[jobs[u].path]
  BY <1>1 DEF JobOK
<1>3. jobs[u].path \in Claim(jobs[u]) /\ jobs[t].path \in Claim(jobs[t])
  BY <1>2, VersionFacts DEF Claim
<1> QED BY <1>2, <1>3 DEF VersionsInv, ClaimsApart

\* A step of one thread: its own job, what the others have done, the reports.
LEMMA TogetherKept ==
  ASSUME Shape, TogetherInv, NEW t \in IndexThreads, SceneOK', Spent, OtherJobs(t), SameUps,
         disk'.backup = disk.backup, jobs'[t].kind # "clear", ReportsFound', RowsFound', JobDone(t)',
         \A u \in IndexThreads \ {t} : Filing(jobs[u]) =>
           /\ history'.reported[jobs[u].path] = history.reported[jobs[u].path]
           /\ jobs[u].doc \in DOMAIN Memory(u) => jobs[u].doc \in DOMAIN procs'[ProcOf[u]].docs
           /\ jobs[u].doc \in disk.fts => jobs[u].doc \in disk'.fts
  PROVE  TogetherInv'
<1>1. Peaceful'
  BY SceneFacts DEF Shape, TogetherInv, Peaceful, Spent, SceneOK, Scene, SameUps, OtherJobs
<1>2. ASSUME NEW u \in IndexThreads \ {t} PROVE JobDone(u)'
  <2>1. jobs'[u] = jobs[u] /\ JobDone(u) /\ jobs[u].kind # "clear"
    BY DEF OtherJobs, TogetherInv, JobsDone, Peaceful
  <2>2. jobs[u].stage \in {"commit", "dump", "replace"} => Filing(jobs[u])
    BY <2>1 DEF Filing
  <2>3. Filing(jobs'[u]) <=> Filing(jobs[u])
    BY <2>1
  <2>4. Filing(jobs[u]) => history'.reported[jobs[u].path] = NoReport
    BY <2>1 DEF JobDone, Reports
  <2> QED BY <2>1, <2>2, <2>4 DEF JobDone, Reports, Memory, Filing
<1>3. JobsDone'
  BY <1>2 DEF JobsDone
<1> QED BY <1>1, <1>3 DEF TogetherInv

\* Steps that change nothing that is reported or found.
LEMMA TogetherQuiet ==
  ASSUME Shape, TogetherInv, NEW t \in IndexThreads, SceneOK', Spent, OtherJobs(t), SameMemory,
         disk'.cat = disk.cat, disk'.fts = disk.fts, disk'.backup = disk.backup,
         history'.reported = history.reported, history.doubtful \subseteq history'.doubtful,
         jobs'[t].kind # "clear", JobDone(t)'
  PROVE  TogetherInv'
<1>0. \A u \in IndexThreads : ProcOf[u] \in Procs
  BY IndexAssumption
<1>1. ReportsFound'
  <2> SUFFICES ASSUME NEW q \in Paths, Reports(q), Sure(Reported(q))
               PROVE  Reported(q) \in disk.fts /\ Reported(q) \in DOMAIN procs'[history.reported[q][2]].docs
    BY DEF ReportsFound, Reports, Reported, Sure
  <2>1. history.reported[q][2] \in Procs
    BY ReportFacts DEF Shape
  <2> QED BY <2>1 DEF TogetherInv, ReportsFound, SameMemory
<1>2. RowsFound'
  BY DEF TogetherInv, RowsFound, Active
<1> QED BY <1>0, <1>1, <1>2, TogetherKept DEF SameMemory, SameUps, Memory

LEMMA TogetherParse ==
  ASSUME Shape, VersionsInv, TogetherInv, NEW t \in IndexThreads, Parse(t)
  PROVE  TogetherInv'
<1>0. /\ Shape' /\ SceneOK' /\ Spent /\ UNCHANGED disk /\ SameMemory /\ OtherJobs(t)
      /\ history'.doubtful = history.doubtful /\ jobs[t].kind # "clear" /\ ProcOf[t] \in Procs
  BY ParseStep, ProcFacts, SceneKept DEF Shape
<1>1. PICK path \in jobs[t].todo :
        /\ \A q \in Paths \ {path} : history'.reported[q] = history.reported[q]
        /\ Skipped(t, path) \/ Taken(t, path)
  BY ParseStep
<1>2. path \in Paths /\ path \in Claim(jobs[t]) /\ \A u \in IndexThreads : ProcOf[u] \in Procs
  BY JobFacts, VersionFacts, IndexAssumption DEF Shape, Claim
<1>3. \/ history'.reported[path] = NoReport
      \/ \E d \in Docs : /\ history'.reported[path] = <<d, ProcOf[t]>>
                         /\ d \in disk.fts /\ d \in DOMAIN Memory(t)
  BY <1>1 DEF Skipped, Taken, TogetherInv, RowsFound, Active
<1>4. ReportsFound'
  <2> SUFFICES ASSUME NEW q \in Paths, history'.reported[q] # NoReport, history'.reported[q][1] \notin history'.doubtful
               PROVE  /\ history'.reported[q][1] \in disk'.fts
                      /\ history'.reported[q][1] \in DOMAIN procs'[history'.reported[q][2]].docs
    BY DEF ReportsFound, Reports, Reported, Sure
  <2>1. CASE q = path
    BY <1>0, <1>3, <2>1 DEF SameMemory, Memory
  <2>2. CASE q # path
    <3>1. Reports(q) /\ history'.reported[q] = history.reported[q] /\ history.reported[q][2] \in Procs
      BY <1>1, <2>2, ReportFacts DEF Shape, Reports
    <3> QED BY <1>0, <3>1 DEF TogetherInv, ReportsFound, Reports, Reported, Sure, SameMemory
  <2> QED BY <2>1, <2>2
<1>5. RowsFound'
  BY <1>0 DEF TogetherInv, RowsFound, Active
<1>6. /\ jobs'[t].stage \notin {"commit", "dump", "replace"} /\ jobs'[t].kind # "clear"
      /\ Filing(jobs'[t]) => history'.reported[jobs'[t].path] = NoReport
  BY <1>0, <1>1 DEF Skipped, Taken, Filing
<1>7. JobDone(t)'
  BY <1>6 DEF JobDone, Filing, Reports
<1>8. ASSUME NEW u \in IndexThreads \ {t}, Filing(jobs[u])
      PROVE  history'.reported[jobs[u].path] = history.reported[jobs[u].path]
  <2>1. jobs[u].path \in Paths /\ jobs[u].path \in Claim(jobs[u])
    BY <1>8, VersionFacts DEF Shape, JobsOK, JobOK, Claim
  <2>2. jobs[u].path # path
    BY <1>2, <2>1 DEF VersionsInv, ClaimsApart
  <2> QED BY <1>1, <2>1, <2>2
<1> QED BY <1>0, <1>2, <1>4, <1>5, <1>6, <1>7, <1>8, TogetherKept DEF SameMemory, SameUps, Memory

LEMMA TogetherEmbeds ==
  ASSUME Shape, TogetherInv, NEW t \in IndexThreads,
         Chunk(t) \/ LookUp(t) \/ CallEmbedding(t) \/ StoreVectors(t)
  PROVE  TogetherInv'
<1>0. JobDone(t) /\ \A stage : stage \notin {"commit", "dump", "replace"} => stage \notin {"dump", "replace"}
  BY DEF TogetherInv, JobsDone
<1>1. CASE Chunk(t)
  <2>1. /\ SceneOK' /\ Spent /\ UNCHANGED <<disk, history>> /\ SameMemory /\ OtherJobs(t)
        /\ jobs[t].stage = "chunk"
        /\ jobs'[t] = NoJob \/ (jobs'[t].stage = "lookup" /\ SameWork(t))
    BY <1>1, ChunkStep DEF Shape
  <2>2. Filing(jobs[t]) /\ jobs[t].kind # "clear"
    BY <2>1, FilingFacts
  <2>3. /\ jobs'[t].stage \notin {"commit", "dump", "replace"} /\ jobs'[t].kind # "clear"
        /\ Filing(jobs'[t]) => jobs'[t].path = jobs[t].path
    BY <2>1, <2>2, NoJobFacts DEF SameWork
  <2>4. JobDone(t)'
    BY <1>0, <2>1, <2>2, <2>3 DEF JobDone, Reports, Filing
  <2> QED BY <2>1, <2>3, <2>4, TogetherQuiet
<1>2. CASE LookUp(t)
  <2>1. /\ UNCHANGED <<scene, disk, procs, history>> /\ OtherJobs(t)
        /\ jobs[t].stage = "lookup" /\ jobs'[t].stage \in {"drop", "call"} /\ SameWork(t)
    BY <1>2, LookUpStep
  <2>2. Filing(jobs[t]) /\ jobs[t].kind # "clear"
    BY <2>1, FilingFacts
  <2>3. SameMemory /\ SceneOK' /\ Spent
    BY <2>1, SameMemoryFacts, SceneKept DEF Shape
  <2>4. JobDone(t)'
    BY <1>0, <2>1, <2>2 DEF JobDone, Reports, Filing, SameWork
  <2> QED BY <2>1, <2>2, <2>3, <2>4, TogetherQuiet DEF SameWork
<1>3. CASE CallEmbedding(t)
  <2>1. /\ SceneOK' /\ Spent /\ SameMemory /\ OtherJobs(t) /\ jobs[t].stage = "call"
        /\ \/ Arrived(t)
           \/ FellBack(t)
           \/ jobs'[t] = NoJob /\ UNCHANGED <<disk, history>>
    BY <1>3, CallStep DEF Shape
  <2>2. Filing(jobs[t]) /\ jobs[t].kind # "clear" /\ jobs[t].doc \in Docs
    BY <2>1, FilingFacts
  <2>3. /\ jobs'[t].stage \notin {"commit", "dump", "replace"} /\ jobs'[t].kind # "clear"
        /\ Filing(jobs'[t]) => jobs'[t].path = jobs[t].path
    BY <2>1, <2>2, NoJobFacts DEF Arrived, FellBack, SameWork
  <2>4. disk'.cat = disk.cat /\ disk'.fts = disk.fts /\ disk'.backup = disk.backup
    BY <2>1 DEF Arrived, FellBack, OnlyCache
  <2>5. history'.reported = history.reported /\ history'.doubtful = history.doubtful
    BY <2>1, <2>2, ShiftStep DEF Arrived, FellBack, Shape
  <2>6. JobDone(t)'
    BY <1>0, <2>2, <2>3, <2>5 DEF JobDone, Reports, Filing
  <2> QED BY <2>1, <2>3, <2>4, <2>5, <2>6, TogetherQuiet
<1>4. CASE StoreVectors(t)
  <2>1. /\ UNCHANGED <<scene, procs>> /\ OtherJobs(t) /\ OnlyCache
        /\ jobs[t].stage = "store" /\ jobs'[t].stage = "drop" /\ SameWork(t)
        /\ Shifts(jobs[t].doc, jobs[t].label, Space(t))
    BY <1>4, StoreStep
  <2>2. Filing(jobs[t]) /\ jobs[t].kind # "clear" /\ jobs[t].doc \in Docs
    BY <2>1, FilingFacts
  <2>3. SameMemory /\ SceneOK' /\ Spent
    BY <2>1, SameMemoryFacts, SceneKept DEF Shape
  <2>4. history'.reported = history.reported /\ history'.doubtful = history.doubtful
    BY <2>1, <2>2, ShiftStep DEF Shape
  <2>5. JobDone(t)'
    BY <1>0, <2>1, <2>2, <2>4 DEF JobDone, Reports, Filing, SameWork
  <2> QED BY <2>1, <2>2, <2>3, <2>4, <2>5, TogetherQuiet DEF SameWork, OnlyCache
<1> QED BY <1>1, <1>2, <1>3, <1>4

LEMMA TogetherStarts ==
  ASSUME Shape, TogetherInv, NEW t \in IndexThreads,
         \/ \E todo \in (SUBSET Paths) \ {{}}, kind \in {"index", "research"} : StartJob(t, todo, kind)
         \/ SearchSteps(t)
  PROVE  TogetherInv'
<1>1. ASSUME NEW todo \in (SUBSET Paths) \ {{}}, NEW kind \in {"index", "research"}, StartJob(t, todo, kind)
      PROVE  TogetherInv'
  <2>1. /\ SceneOK' /\ Spent /\ UNCHANGED <<disk, procs, history>> /\ OtherJobs(t)
        /\ jobs'[t].stage = "parse" /\ jobs'[t].kind = kind /\ SameMemory
    BY <1>1, StartJobStep, SameMemoryFacts DEF Shape
  <2>2. JobDone(t)'
    BY <2>1 DEF JobDone, Filing
  <2> QED BY <2>1, <2>2, TogetherQuiet
<1>2. CASE SearchSteps(t)
  <2>1. /\ SceneOK' /\ Spent /\ UNCHANGED <<disk, procs, history>> /\ OtherJobs(t) /\ Searched(t) /\ SameMemory
    BY <1>2, SearchStep, SameMemoryFacts DEF Shape
  <2>2. JobDone(t)' /\ jobs'[t].kind # "clear"
    BY <2>1 DEF JobDone, Filing, Searched
  <2> QED BY <2>1, <2>2, TogetherQuiet
<1> QED BY <1>1, <1>2

LEMMA TogetherDrops ==
  ASSUME Shape, VersionsInv, TogetherInv, NEW t \in IndexThreads, DropOld(t)
  PROVE  TogetherInv'
<1> DEFINE j == jobs[t]
           gone == OldVersions(Memory(t), j.path, j.doc) \cup {j.doc}
           docs == procs'[ProcOf[t]].docs
<1>0. /\ Shape' /\ UNCHANGED <<scene, disk>> /\ OtherJobs(t) /\ OtherProcs(ProcOf[t])
      /\ SameSwitches(ProcOf[t]) /\ docs = Without(Memory(t), gone)
      /\ j.stage = "drop" /\ jobs'[t].stage = "insert" /\ SameWork(t)
      /\ Shifts(j.doc, j.label, Space(t))
  BY DropStep
<1>1. /\ Filing(j) /\ j.kind # "clear" /\ j.path \in Paths /\ j.doc \in Docs /\ j.doc \in Versions[j.path]
      /\ ProcOf[t] \in Procs /\ Memory(t) \in Library /\ SceneOK' /\ Spent
  BY <1>0, FilingFacts, ProcFacts, SceneKept DEF Shape
<1>2. history'.reported = history.reported /\ history'.doubtful = history.doubtful
  BY <1>0, <1>1, ShiftStep DEF Shape
<1>3. DOMAIN docs = DOMAIN Memory(t) \ gone
  <2> HIDE DEF gone
  <2>1. DOMAIN Without(Memory(t), gone) = DOMAIN Memory(t) \ gone
    BY <1>1, WithoutFacts
  <2> HIDE DEF docs
  <2> QED BY <1>0, <2>1
<1>4. SameUps /\ \A u \in IndexThreads : ProcOf[u] \in Procs
  BY <1>0, IndexAssumption DEF SameUps, OtherProcs, SameSwitches
\* Only versions of the path leave memory.
<1>5. ASSUME NEW q \in Paths, q # j.path, NEW d \in Versions[q], NEW p \in Procs, d \in DOMAIN procs[p].docs
      PROVE  d \in DOMAIN procs'[p].docs
  <2>1. CASE p # ProcOf[t]
    BY <1>0, <1>5, <2>1 DEF OtherProcs
  <2>2. CASE p = ProcOf[t]
    <3>1. d \notin Versions[j.path] /\ Memory(t)[d].path = q
      BY <1>1, <1>5, <2>2, OtherPath DEF Memory
    <3>2. d \notin gone
      BY <1>1, <1>5, <3>1 DEF OldVersions
    <3> QED BY <1>3, <1>5, <2>2, <3>2 DEF Memory
  <2> QED BY <2>1, <2>2
<1>6. ReportsFound'
  <2> SUFFICES ASSUME NEW q \in Paths, Reports(q), Sure(Reported(q))
               PROVE  Reported(q) \in disk.fts /\ Reported(q) \in DOMAIN procs'[history.reported[q][2]].docs
    BY <1>0, <1>2 DEF ReportsFound, Reports, Reported, Sure
  <2>1. history.reported[q][2] \in Procs /\ Reported(q) \in Versions[q]
    BY ReportFacts DEF Shape
  <2>2. q # j.path
    BY <1>1 DEF TogetherInv, JobsDone, JobDone
  <2> QED BY <1>5, <2>1, <2>2 DEF TogetherInv, ReportsFound
<1>7. RowsFound'
  BY <1>0 DEF TogetherInv, RowsFound, Active
<1>8. JobDone(t)'
  <2>1. ~Reports(j.path)
    BY <1>1 DEF TogetherInv, JobsDone, JobDone
  <2> QED BY <1>0, <1>2, <2>1 DEF JobDone, Reports, SameWork
<1>9. ASSUME NEW u \in IndexThreads \ {t}, Filing(jobs[u]), jobs[u].doc \in DOMAIN Memory(u)
      PROVE  jobs[u].doc \in DOMAIN procs'[ProcOf[u]].docs
  <2>1. jobs[u].path \in Paths /\ jobs[u].path # j.path /\ jobs[u].doc \in Versions[jobs[u].path]
    BY <1>1, <1>9, ClaimedApart
  <2> QED BY <1>4, <1>5, <1>9, <2>1 DEF Memory
<1>10. jobs'[t].kind # "clear" /\ disk'.backup = disk.backup
  BY <1>0, <1>1 DEF SameWork
<1> QED BY <1>0, <1>1, <1>2, <1>4, <1>6, <1>7, <1>8, <1>9, <1>10, TogetherKept

LEMMA TogetherEnters ==
  ASSUME Shape, TogetherInv, NEW t \in IndexThreads, Enter(t)
  PROVE  TogetherInv'
<1> DEFINE j == jobs[t]
           new == [path |-> jobs[t].path, label |-> jobs[t].label, vec |-> jobs[t].vec]
           docs == procs'[ProcOf[t]].docs
<1>0. /\ Shape' /\ UNCHANGED <<scene, disk, history>> /\ OtherJobs(t) /\ OtherProcs(ProcOf[t])
      /\ SameSwitches(ProcOf[t]) /\ new \in Stored /\ docs = With(Memory(t), j.doc, new)
      /\ j.stage = "insert" /\ jobs'[t].stage = "commit" /\ SameWork(t)
  BY EnterStep
<1>1. /\ Filing(j) /\ j.kind # "clear" /\ j.path \in Paths /\ j.doc \in Docs /\ j.doc \in Versions[new.path]
      /\ ProcOf[t] \in Procs /\ Memory(t) \in Library /\ SceneOK' /\ Spent
  BY <1>0, FilingFacts, ProcFacts, SceneKept DEF Shape
<1>3. DOMAIN docs = DOMAIN Memory(t) \cup {j.doc}
  <2>1. j.doc \in Docs /\ j.doc \in Versions[new.path] /\ new \in Stored /\ Memory(t) \in Library
    BY <1>0, <1>1
  <2> HIDE DEF new, docs, j
  <2>2. DOMAIN With(Memory(t), j.doc, new) = DOMAIN Memory(t) \cup {j.doc}
    BY <2>1, WithFacts
  <2> QED BY <1>0, <2>2
<1>4. SameUps /\ \A u \in IndexThreads : ProcOf[u] \in Procs
  BY <1>0, IndexAssumption DEF SameUps, OtherProcs, SameSwitches
<1>5. \A p \in Procs : DOMAIN procs[p].docs \subseteq DOMAIN procs'[p].docs
  BY <1>0, <1>3 DEF OtherProcs, Memory
<1>6. ReportsFound'
  <2> SUFFICES ASSUME NEW q \in Paths, Reports(q), Sure(Reported(q))
               PROVE  Reported(q) \in disk.fts /\ Reported(q) \in DOMAIN procs'[history.reported[q][2]].docs
    BY <1>0 DEF ReportsFound, Reports, Reported, Sure
  <2>1. history.reported[q][2] \in Procs
    BY ReportFacts DEF Shape
  <2> QED BY <1>5, <2>1 DEF TogetherInv, ReportsFound
<1>7. RowsFound'
  BY <1>0 DEF TogetherInv, RowsFound, Active
<1>8. JobDone(t)'
  <2>1. ~Reports(j.path)
    BY <1>1 DEF TogetherInv, JobsDone, JobDone
  <2>2. jobs'[t].doc \in DOMAIN docs
    BY <1>0, <1>3 DEF SameWork
  <2> QED BY <1>0, <2>1, <2>2 DEF JobDone, Reports, SameWork, Memory
<1>9. \A u \in IndexThreads \ {t} : jobs[u].doc \in DOMAIN Memory(u) => jobs[u].doc \in DOMAIN procs'[ProcOf[u]].docs
  BY <1>4, <1>5 DEF Memory
<1>10. jobs'[t].kind # "clear" /\ disk'.backup = disk.backup
  BY <1>0, <1>1 DEF SameWork
<1> QED BY <1>0, <1>1, <1>4, <1>6, <1>7, <1>8, <1>9, <1>10, TogetherKept

LEMMA TogetherFails ==
  ASSUME Shape, TogetherInv, NEW t \in IndexThreads, SceneOK', Spent, UNCHANGED procs, OtherJobs(t), Failed(t)
  PROVE  TogetherInv'
<1>1. SameMemory
  BY SameMemoryFacts DEF Shape
<1>2. JobDone(t)' /\ jobs'[t].kind # "clear"
  BY NoJobFacts DEF Failed, JobDone, Filing
<1> QED BY <1>1, <1>2, TogetherQuiet DEF Failed

LEMMA TogetherCommits ==
  ASSUME Shape, VersionsInv, TogetherInv, NEW t \in IndexThreads, Commit(t)
  PROVE  TogetherInv'
<1> DEFINE j == jobs[t]
<1>0. /\ Shape' /\ SceneOK' /\ Spent /\ UNCHANGED procs /\ OtherJobs(t) /\ j.stage = "commit"
      /\ \/ /\ Committed(j) /\ UNCHANGED history /\ jobs'[t].stage = "dump" /\ SameWork(t)
         \/ Failed(t)
  BY CommitStep DEF Shape
<1>1. /\ Filing(j) /\ j.kind # "clear" /\ j.path \in Paths /\ j.doc \in Docs /\ j.doc \in Versions[j.path]
  BY <1>0, FilingFacts
<1>2. CASE Failed(t)
  BY <1>0, <1>2, TogetherFails
<1>3. CASE Committed(j) /\ UNCHANGED history /\ jobs'[t].stage = "dump" /\ SameWork(t)
  <2>1. /\ disk'.backup = disk.backup /\ j.doc \in disk'.fts
        /\ \A d \in Docs \ {j.doc} : Active(disk'.cat, d) =>
             Active(disk.cat, d) /\ (d \in disk.fts => d \in disk'.fts)
        /\ \A d \in disk.fts : d \notin Versions[j.path] => d \in disk'.fts
    BY <1>3 DEF Committed, Active
  <2>2. SameUps /\ \A u \in IndexThreads : ProcOf[u] \in Procs
    BY <1>0, IndexAssumption DEF SameUps
  <2>3. JobDone(t) /\ ~Reports(j.path)
    BY <1>1 DEF TogetherInv, JobsDone, JobDone
  <2>4. ReportsFound'
    <3> SUFFICES ASSUME NEW q \in Paths, Reports(q), Sure(Reported(q))
                 PROVE  Reported(q) \in disk'.fts /\ Reported(q) \in DOMAIN procs[history.reported[q][2]].docs
      BY <1>0, <1>3 DEF ReportsFound, Reports, Reported, Sure
    <3>1. Reported(q) \in disk.fts /\ Reported(q) \in DOMAIN procs[history.reported[q][2]].docs /\ q # j.path
      BY <2>3 DEF TogetherInv, ReportsFound
    <3>2. Reported(q) \in Versions[q]
      BY ReportFacts DEF Shape
    <3>3. Reported(q) \notin Versions[j.path]
      BY <1>1, <3>1, <3>2, OtherPath
    <3> QED BY <2>1, <3>1, <3>3
  <2>5. RowsFound'
    <3>1. disk'.cat \in Catalog
      BY <1>0 DEF Shape, DiskOK, Disk
    <3>2. DOMAIN disk'.cat \subseteq Docs
      BY <3>1, CatalogFacts
    <3>3. \A d \in DOMAIN disk'.cat : Active(disk'.cat, d) => d \in disk'.fts
      <4> SUFFICES ASSUME NEW d \in DOMAIN disk'.cat, Active(disk'.cat, d) PROVE d \in disk'.fts
        OBVIOUS
      <4>1. CASE d = j.doc
        BY <2>1, <4>1
      <4>2. CASE d # j.doc
        <5>1. Active(disk.cat, d) /\ (d \in disk.fts => d \in disk'.fts)
          BY <2>1, <3>2, <4>2
        <5> QED BY <5>1 DEF TogetherInv, RowsFound, Active
      <4> QED BY <4>1, <4>2
    <3> QED BY <3>3 DEF RowsFound, Active
  <2>6. JobDone(t)'
    BY <1>0, <1>3, <2>1, <2>3 DEF JobDone, Reports, SameWork, Memory
  <2>7. ASSUME NEW u \in IndexThreads \ {t}, Filing(jobs[u]), jobs[u].doc \in disk.fts
        PROVE  jobs[u].doc \in disk'.fts
    <3>1. jobs[u].path \in Paths /\ jobs[u].path # j.path /\ jobs[u].doc \in Versions[jobs[u].path]
      BY <1>1, <2>7, ClaimedApart
    <3>2. jobs[u].doc \notin Versions[j.path]
      BY <1>1, <3>1, OtherPath
    <3> QED BY <2>1, <2>7, <3>2
  <2>8. jobs'[t].kind # "clear"
    BY <1>1, <1>3 DEF SameWork
  <2> QED BY <1>0, <1>3, <2>1, <2>2, <2>4, <2>5, <2>6, <2>7, <2>8, TogetherKept DEF Memory
<1> QED BY <1>0, <1>2, <1>3

LEMMA TogetherReplaces ==
  ASSUME Shape, VersionsInv, TogetherInv, NEW t \in IndexThreads, Replace(t)
  PROVE  TogetherInv'
<1> DEFINE j == jobs[t]
<1>0. /\ Shape' /\ SceneOK' /\ Spent /\ UNCHANGED procs /\ OtherJobs(t) /\ j.stage = "replace"
      /\ Replaced(t) \/ Failed(t)
  BY ReplaceStep DEF Shape
<1>1. /\ j.kind # "clear" /\ j.path \in Paths /\ j.doc \in Docs /\ j.doc \in Versions[j.path] /\ Filing(j)
      /\ ProcOf[t] \in Procs
  BY <1>0, JobFacts, ProcFacts, VersionFacts DEF TogetherInv, Peaceful, Shape, JobOK, Filing
<1>2. CASE Failed(t)
  BY <1>0, <1>2, TogetherFails
<1>3. CASE Replaced(t)
  <2>1. /\ disk'.cat = disk.cat /\ disk'.fts = disk.fts /\ disk'.backup = disk.backup
        /\ history'.doubtful = history.doubtful \ {j.doc}
        /\ history'.reported[j.path] = <<j.doc, ProcOf[t]>>
        /\ \A q \in Paths \ {j.path} : history'.reported[q] = history.reported[q]
        /\ jobs'[t].stage \in {"parse", "filter", "idle"} /\ jobs'[t].kind # "clear"
    BY <1>1, <1>3 DEF Replaced
  <2>2. SameUps /\ \A u \in IndexThreads : ProcOf[u] \in Procs
    BY <1>0, IndexAssumption DEF SameUps
  <2>3. j.doc \in DOMAIN Memory(t) /\ j.doc \in disk.fts
    BY <1>0 DEF TogetherInv, JobsDone, JobDone
  <2>4. ReportsFound'
    <3> SUFFICES ASSUME NEW q \in Paths, history'.reported[q] # NoReport, history'.reported[q][1] \notin history'.doubtful
                 PROVE  /\ history'.reported[q][1] \in disk.fts
                        /\ history'.reported[q][1] \in DOMAIN procs[history'.reported[q][2]].docs
      BY <1>0, <2>1 DEF ReportsFound, Reports, Reported, Sure
    <3>1. CASE q = j.path
      BY <2>1, <2>3, <3>1 DEF Memory
    <3>2. CASE q # j.path
      <4>1. Reports(q) /\ history'.reported[q] = history.reported[q]
        BY <2>1, <3>2 DEF Reports
      <4>2. Reported(q) \in Versions[q]
        BY <4>1, ReportFacts DEF Shape
      <4>3. Reported(q) # j.doc
        BY <1>1, <3>2, <4>2, OtherPath
      <4>4. Sure(Reported(q))
        BY <2>1, <4>1, <4>3 DEF Sure, Reported
      <4> QED BY <4>1, <4>4 DEF TogetherInv, ReportsFound, Reported
    <3> QED BY <3>1, <3>2
  <2>5. RowsFound'
    BY <2>1 DEF TogetherInv, RowsFound, Active
  <2>6. JobDone(t)'
    BY <2>1 DEF JobDone, Filing
  <2>7. ASSUME NEW u \in IndexThreads \ {t}, Filing(jobs[u])
        PROVE  history'.reported[jobs[u].path] = history.reported[jobs[u].path]
    <3>1. jobs[u].path \in Paths /\ jobs[u].path # j.path
      BY <1>1, <2>7, ClaimedApart
    <3> QED BY <2>1, <3>1
  <2> QED BY <1>0, <2>1, <2>2, <2>4, <2>5, <2>6, <2>7, TogetherKept DEF Memory
<1> QED BY <1>0, <1>2, <1>3

LEMMA TogetherStep ==
  ASSUME Shape, VersionsInv, TogetherInv, [IndexNext]_indexVars
  PROVE  TogetherInv'
<1>0. Peaceful /\ SceneOK
  BY DEF TogetherInv, Shape
<1>1. ASSUME NEW t \in IndexThreads, ThreadStep(t) PROVE TogetherInv'
  <2>1. ~ClearMemory(t)
    BY <1>0, ClearMemoryStep DEF Peaceful
  <2>2. ~ClearCatalog(t)
    BY <1>0, ClearCatalogStep DEF Peaceful
  <2>3. CASE Dump(t)
    <3>1. /\ UNCHANGED <<scene, disk, procs, history>> /\ OtherJobs(t)
          /\ jobs[t].stage = "dump" /\ jobs'[t].stage = "replace" /\ SameWork(t)
      BY <2>3, DumpStep
    <3>2. SameMemory /\ SceneOK' /\ Spent /\ jobs[t].kind # "clear" /\ jobs'[t].kind # "clear"
      BY <1>0, <3>1, SameMemoryFacts, SceneKept DEF Shape, Peaceful, SameWork
    <3>3. JobDone(t)
      BY DEF TogetherInv, JobsDone
    <3>4. Filing(jobs[t])
      BY <3>1, <3>2 DEF Filing
    <3>5. JobDone(t)'
      BY <3>1, <3>3, <3>4 DEF JobDone, Reports, SameWork, Memory
    <3> QED BY <3>1, <3>2, <3>5, TogetherQuiet
  <2> QED BY <1>1, <2>1, <2>2, <2>3, TogetherParse, TogetherEmbeds, TogetherStarts, TogetherDrops, TogetherEnters,
             TogetherCommits, TogetherReplaces DEF ThreadStep
<1>2. ASSUME NEW p \in Procs, Die(p) PROVE FALSE
  BY <1>0, <1>2, DieStep DEF Peaceful
<1>3. ASSUME NEW p \in Procs, Start(p) PROVE FALSE
  BY <1>0, <1>3, StartStep DEF Peaceful
<1>4. ~Migrate /\ ~Rollback
  BY <1>0, MigrateStep, RollbackStep DEF Peaceful
<1>5. ASSUME SceneOK', Spent, UNCHANGED <<disk, procs, jobs, history>> PROVE TogetherInv'
  <2>1. Peaceful'
    BY <1>0, <1>5, SceneFacts DEF Peaceful, Spent, SceneOK, Scene
  <2>2. ReportsFound' /\ RowsFound' /\ JobsDone'
    BY <1>5 DEF TogetherInv, ReportsFound, RowsFound, JobsDone, JobDone, Reports, Reported, Sure, Active, Filing, Memory
  <2> QED BY <2>1, <2>2 DEF TogetherInv
<1>6. \A path \in Paths : Edit(path) => TogetherInv'
  BY <1>5, EditStep DEF Shape
<1>7. UNCHANGED indexVars => TogetherInv'
  BY <1>5, StutterStep DEF indexVars, Shape
<1> QED BY <1>1, <1>2, <1>3, <1>4, <1>6, <1>7, NextCases

FoundInv == \/ \E t \in IndexThreads : AloneInv(t)
            \/ ~(\E t \in IndexThreads : scene.threads = {t}) /\ TogetherInv

LEMMA FoundInit ==
  ASSUME Orderly, IndexInit
  PROVE  FoundInv
<1>0. /\ scene \in Scenes /\ scene \in Scene /\ disk.snap = << >> /\ disk.cat = << >> /\ disk.fts = {} /\ disk.backup = << >>
      /\ \A p \in Procs : procs[p].up /\ procs[p].docs = << >>
      /\ \A t \in IndexThreads : jobs[t] = NoJob /\ ProcOf[t] \in Procs
      /\ \A q \in Paths : ~Reports(q)
      /\ \A d : ~Active(<< >>, d)
      /\ scene.crashes \in Nat /\ scene.migrations \in Nat
  BY IndexAssumption, EmptyLibrary DEF IndexInit, Reports, Active, Scene
<1>1. ASSUME NEW t \in IndexThreads, scene.threads = {t} PROVE AloneInv(t)
  <2>1. Lone(t)
    BY <1>0, <1>1 DEF Lone
  <2>2. ReportsKept(t) /\ SnapActive /\ MemoryActive(t)
    BY <1>0 DEF ReportsKept, SnapActive, MemoryActive
  <2>3. Unreported(t) /\ FiledSoFar(t)
    BY <1>0, NoJobFacts DEF Unreported, FiledSoFar
  <2>4. BackupGood(t)
    BY <1>0, <1>1 DEF BackupGood, Orderly
  <2> QED BY <2>1, <2>2, <2>3, <2>4 DEF AloneInv
<1>2. ASSUME ~(\E t \in IndexThreads : scene.threads = {t}) PROVE TogetherInv
  <2>1. Peaceful
    BY <1>0, <1>2, NoJobFacts DEF Peaceful, Orderly
  <2>2. ReportsFound /\ RowsFound
    BY <1>0 DEF ReportsFound, RowsFound
  <2>3. JobsDone
    BY <1>0, NoJobFacts DEF JobsDone, JobDone
  <2> QED BY <2>1, <2>2, <2>3 DEF TogetherInv
<1> QED BY <1>1, <1>2 DEF FoundInv

LEMMA FoundStep ==
  ASSUME Shape, VersionsInv, FoundInv, [IndexNext]_indexVars
  PROVE  FoundInv'
<1>1. CASE \E t \in IndexThreads : AloneInv(t)
  BY <1>1, AloneStep DEF FoundInv
<1>2. CASE ~(\E t \in IndexThreads : scene.threads = {t}) /\ TogetherInv
  <2>1. TogetherInv' /\ scene'.threads = scene.threads
    BY <1>2, TogetherStep, ShapeStep DEF Spent
  <2> QED BY <1>2, <2>1 DEF FoundInv
<1> QED BY <1>1, <1>2 DEF FoundInv

LEMMA FoundIsFound ==
  ASSUME Shape, VectorInv, FoundInv
  PROVE  IndexedIsFound
<1> SUFFICES ASSUME NEW q \in Paths, Reports(q), Sure(Reported(q))
             PROVE  LET p == history.reported[q][2]
                        docs == procs[p].docs
                    IN /\ procs[p].up =>
                            /\ Reported(q) \in SparseHits(docs)
                            /\ Reported(q) \in history.shifted \/ Reported(q) \in DenseHits(docs, docs[Reported(q)].label)
                       /\ (\E t \in IndexThreads : scene.threads = {t}) => Reported(q) \in DOMAIN disk.snap
  BY DEF IndexedIsFound, Reports, Reported, Sure
<1> DEFINE p == history.reported[q][2]
           d == Reported(q)
<1>1. p \in Procs /\ d \in Docs
  BY ReportFacts DEF Shape
<1>2. /\ procs[p].up => d \in disk.fts /\ d \in DOMAIN procs[p].docs
      /\ (\E t \in IndexThreads : scene.threads = {t}) => d \in DOMAIN disk.snap
  <2>1. ASSUME NEW t \in IndexThreads, AloneInv(t)
        PROVE  p = ProcOf[t] /\ d \in DOMAIN disk.snap /\ d \in disk.fts /\ (procs[p].up => d \in DOMAIN procs[p].docs)
    BY <2>1 DEF AloneInv, Lone, ReportsKept, Memory
  <2>2. CASE ~(\E t \in IndexThreads : scene.threads = {t}) /\ TogetherInv
    BY <2>2 DEF TogetherInv, ReportsFound
  <2> QED BY <2>1, <2>2 DEF FoundInv
<1>3. procs[p].up /\ d \notin history.shifted => procs[p].docs[d].vec[1] = procs[p].docs[d].label
  BY <1>1, <1>2 DEF VectorInv, MemoryMatch, Match, Batches
<1> HIDE DEF p, d
<1>4. procs[p].up => d \in SparseHits(procs[p].docs)
  BY <1>2 DEF SparseHits
<1>5. procs[p].up => d \in history.shifted \/ d \in DenseHits(procs[p].docs, procs[p].docs[d].label)
  BY <1>2, <1>3 DEF DenseHits, Batches
<1> QED BY <1>2, <1>4, <1>5 DEF p, d

\* A path that is reported as indexed is found by both channels of a search, and
\* one thread alone finds it in the snapshot too: in every orderly circumstances,
\* whatever dies, fails, is edited, skipped, migrated or rolled back.
THEOREM IndexedFound == Orderly => (IndexSpec => []IndexedIsFound)
<1>1. Orderly /\ IndexInit => Shape /\ VersionsInv /\ VectorInv /\ FoundInv
  BY ShapeInit, VersionsInit, VectorsInit, FoundInit
<1>2. Shape /\ VersionsInv /\ VectorInv /\ FoundInv /\ [IndexNext]_indexVars
        => Shape' /\ VersionsInv' /\ VectorInv' /\ FoundInv'
  BY ShapeStep, VersionsStep, VectorsStep, FoundStep
<1>3. Shape /\ VersionsInv /\ VectorInv /\ FoundInv => IndexedIsFound
  BY FoundIsFound
<1> QED BY <1>1, <1>2, <1>3, PTL DEF IndexSpec
=============================================================================
