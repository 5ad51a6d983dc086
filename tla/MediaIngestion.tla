--------------------------- MODULE MediaIngestion ---------------------------
(***************************************************************************)
(* The images of the assistant, src/deskpilot/multimodal and               *)
(* memory/visual_memory.py: the asset store (a row and a file for each     *)
(* image), the index (chunks and vectors), the checkpoints of a PDF, the   *)
(* visual memories, and what is sent to the vision model in the cloud.     *)
(*                                                                         *)
(* Three threads of one process work on them: the worker runs index jobs,  *)
(* the operations of the agent exclude each other by _operation_lock, and  *)
(* the window attaches images.  Nothing excludes one thread from another.  *)
(* Each step is one transaction of SQLite or one call of a model.  The     *)
(* process may crash between any two of them; an index job then starts     *)
(* again from its checkpoints.                                             *)
(*                                                                         *)
(* An image stands for the JPEG copy that the asset store makes of it: the *)
(* copy is named by its own digest, so that storing the copy once more may *)
(* give another image, Again(i).                                           *)
(***************************************************************************)
EXTENDS Integers, Sequences, FiniteSets

CONSTANTS
  Images,       \* the images, by the digest of their stored copy
  MaxPages,     \* the longest PDF
  Settings      \* what may be asked, and what may go wrong

Procs == {"worker", "op", "ui"}
Texts == {"none", "plain", "secret"}
Levels == {"normal", "sensitive"}
Facts == (SUBSET Images) \ {{}}
\* What the index holds of an image: the chunk of the whole image, the chunks
\* of all its regions, the vector of the whole text, the vectors of all its
\* regions, the vector of the image.
Parts == {"chunk", "regions", "text", "spots", "vision"}
Works == {"none", "index", "pdf", "attach", "remember", "approve", "delete", "answer", "recall"}
Stages == {"idle", "store", "raise", "write", "insert", "check", "backfill", "retext", "rewhole", "respots",
           "ocr", "chunk", "regions", "encode", "text", "spots", "vision", "page", "batch", "embed", "save", "report", "load", "ensure", "judge", "add",
           "activate", "refs", "forget", "drop", "remove", "unlink", "ask", "enforce", "search", "send"}
Faults == {"ocr", "native", "embed", "vision", "escape", "stop"}

Setting == [text: [Images -> Texts], again: [Images -> Images], pdf: UNION {[1..n -> Images] : n \in 0..MaxPages},
            size: 1..MaxPages, jobs: SUBSET Works, facts: SUBSET Facts, asks: SUBSET Facts,
            queries: SUBSET SUBSET Images, semantic: BOOLEAN, cascade: SUBSET BOOLEAN, starts: [Procs -> 0..9], levels: SUBSET Levels, crashes: 0..2,
            faults: SUBSET Faults, retry: BOOLEAN, respace: BOOLEAN, cloud: BOOLEAN,
            policy: {"block", "confirm", "allow"}]

ASSUME MediaAssumption ==
  /\ MaxPages \in Nat \ {0}
  /\ Settings \subseteq Setting
  /\ \A s \in Settings, i \in Images : s.again[s.again[i]] = s.again[i]

VARIABLES
  setting,      \* what may still happen
  assets,       \* the row of each image: its sensitivity
  files,        \* the images whose files are there
  index,        \* what the index holds of each image
  saved,        \* ingestion_checkpoints: the result of each page
  memory,       \* the visual memory of a set of images, by its status
  permission,   \* the confirmations the user has been asked for
  visionUp,     \* _vision_available
  run,          \* what each thread is doing
  torn,         \* images that a crash left without the vectors of their regions
  raced         \* images deleted while another thread was working on them

vars == <<setting, assets, files, index, saved, memory, permission, visionUp, run, torn, raced>>
stored == <<assets, files, index, saved, memory, torn>>

Row == Levels \cup {"none"}
Statuses == {"success", "failed"}
Result == [image: Images, status: Statuses]
NoResult == [image |-> "none", status |-> "none"]
Idle == [work |-> "none", stage |-> "idle", image |-> "none", level |-> "normal", refs |-> {}, todo |-> {},
         page |-> 1, batch |-> << >>, item |-> 1, made |-> << >>, results |-> {}, vec |-> "none",
         tries |-> 1, flag |-> FALSE, seen |-> {}, start |-> {}, lost |-> {}]

Text(i) == setting.text[i]
Again(i) == setting.again[i]
Fault(f) == f \in setting.faults
HasText(i) == Text(i) # "none"
Rank(level) == IF level = "sensitive" THEN 2 ELSE 0

Init ==
  /\ setting \in Settings
  /\ assets = [i \in Images |-> "none"] /\ files = {}
  /\ index = [i \in Images |-> {}] /\ saved = [n \in 1..MaxPages |-> NoResult]
  /\ memory = [f \in Facts |-> "none"] /\ permission = {}
  /\ visionUp = TRUE /\ run = [p \in Procs |-> Idle] /\ torn = {} /\ raced = {}

At(p, stage) == run[p].stage = stage
Go(p, stage) == run' = [run EXCEPT ![p].stage = stage]
\* The call is over, with a value or an exception; what is stored stays.
End(p) == run' = [run EXCEPT ![p] = Idle]
Known == {i \in Images : assets[i] # "none"}
Sensitive == {i \in Images : assets[i] \notin {"none", "normal"}}

---------------------------------------------------------------------------
(* What is asked of the threads *)

Begin(p, work, r) ==
  /\ At(p, "idle") /\ work \in setting.jobs /\ setting.starts[p] > 0
  /\ setting' = [setting EXCEPT !.starts[p] = @ - 1]
  /\ run' = [run EXCEPT ![p] = [r EXCEPT !.work = work, !.start = Sensitive]]
  /\ UNCHANGED <<stored, permission, visionUp, raced>>

\* A job of task_service, or the tool knowledge.index_image.
StartIndex ==
  \E p \in {"worker", "op"}, i \in Images : Begin(p, "index", [Idle EXCEPT !.stage = "store", !.image = i])
StartPdf == setting.pdf # << >> /\ Begin("worker", "pdf", [Idle EXCEPT !.stage = "page"])
\* An image that is chosen is normal, one that is pasted is sensitive.
Attach ==
  \E i \in Images, level \in setting.levels :
    Begin("ui", "attach", [Idle EXCEPT !.stage = "store", !.image = i, !.level = level])
StartRemember ==
  \E f \in setting.facts : Begin("op", "remember", [Idle EXCEPT !.stage = "load", !.refs = f])
\* The user has confirmed memory.approve_visual.
StartApprove ==
  \E f \in setting.facts : Begin("op", "approve", [Idle EXCEPT !.stage = "load", !.refs = f])
\* The user has confirmed assets.delete, with or without the memories.
StartDelete ==
  \E i \in Images, c \in setting.cascade :
    Begin("op", "delete", [Idle EXCEPT !.stage = "refs", !.image = i, !.flag = c])
StartAnswer == \E f \in setting.asks : Begin("op", "answer", [Idle EXCEPT !.stage = "ask", !.refs = f])
\* A query stands for the images whose text has its words.
StartRecall ==
  \E words \in setting.queries : Begin("op", "recall", [Idle EXCEPT !.stage = "search", !.refs = words])

\* The user confirms that the sensitive images named to him are sent.  The
\* request is made once more: the same images, or the same query.
Confirm ==
  \E asked \in permission :
    /\ At("op", "idle")
    /\ permission' = permission \ {asked}
    /\ run' = [run EXCEPT !["op"] =
         [Idle EXCEPT !.work = asked.work, !.refs = asked.refs, !.flag = TRUE, !.seen = asked.named,
                      !.start = asked.start \cap Sensitive,
                      !.stage = IF asked.work = "answer" THEN "enforce" ELSE "search"]]
    /\ UNCHANGED <<setting, stored, visionUp, raced>>

---------------------------------------------------------------------------
(* AssetStore._store *)

\* What follows once the asset is at hand.
Stored(p) ==
  CASE run[p].work = "attach" -> End(p)
    [] run[p].work = "pdf" ->
         LET batch == Append(run[p].batch, run[p].page)
         IN run' = [run EXCEPT ![p].batch = batch, ![p].page = @ + 1,
                               ![p].stage = IF Len(batch) = setting.size THEN "batch" ELSE "page"]
    [] OTHER -> Go(p, "check")

Deleting(i) == \E q \in Procs : run[q].work = "delete" /\ run[q].image = i /\ run[q].stage \in {"remove", "unlink"}

\* The same image may have been stored before; its level is only raised.
LookUp(p) ==
  /\ At(p, "store")
  /\ raced' = IF Deleting(run[p].image) THEN raced \cup {run[p].image} ELSE raced
  /\ LET row == assets[run[p].image]
     IN IF row = "none" THEN Go(p, "write")
        ELSE IF Rank(run[p].level) > Rank(row) THEN Go(p, "raise") ELSE Stored(p)
  /\ UNCHANGED <<setting, stored, permission, visionUp>>

RaiseLevel(p) ==
  /\ At(p, "raise")
  /\ assets' = IF run[p].image \in Known THEN [assets EXCEPT ![run[p].image] = run[p].level] ELSE assets
  /\ Stored(p)
  /\ UNCHANGED <<setting, files, index, saved, memory, torn, permission, visionUp, raced>>

WriteFiles(p) ==
  /\ At(p, "write")
  /\ files' = files \cup {run[p].image}
  /\ Go(p, "insert")
  /\ UNCHANGED <<setting, assets, index, saved, memory, torn, permission, visionUp, raced>>

\* The digest is unique: the second of two inserts fails.
InsertRow(p) ==
  /\ At(p, "insert")
  /\ IF run[p].image \in Known THEN End(p) /\ UNCHANGED assets
     ELSE assets' = [assets EXCEPT ![run[p].image] = run[p].level] /\ Stored(p)
  /\ UNCHANGED <<setting, files, index, saved, memory, torn, permission, visionUp, raced>>

---------------------------------------------------------------------------
(* ingest_image *)

\* The call returns the result of an image to what called it.
Return(p, status) ==
  LET r == run[p] IN
  CASE r.work = "index" ->
         run' = [run EXCEPT ![p].stage = "report", ![p].results = {[page |-> 1, image |-> r.image, status |-> status]}]
    [] r.work = "remember" -> Go(p, "ensure")
    [] r.work = "pdf" ->
         LET made == Append(r.made, [image |-> r.image, status |-> status])
             last == r.item = Len(r.batch)
         IN run' = [run EXCEPT ![p].made = made,
                               ![p].item = IF last THEN 1 ELSE @ + 1,
                               ![p].image = IF last THEN @ ELSE setting.pdf[r.batch[r.item + 1]],
                               ![p].stage = IF last THEN "save" ELSE "check"]

ReadAnew(p) == Go(p, IF run[p].work = "pdf" THEN "chunk" ELSE "ocr")
\* An image that is indexed, or was left without a vision vector, is not read again.
Proceed(p, vision) ==
  IF vision THEN Return(p, "success") ELSE IF ~setting.retry THEN Return(p, "failed") ELSE ReadAnew(p)

\* What is there is asked once: whether there is a vision vector is remembered
\* (flag) while a chunk whose text has no vector gets one.
CheckIndex(p) ==
  /\ At(p, "check")
  /\ LET i == run[p].image
         has == index[i]
     IN IF "chunk" \notin has THEN ReadAnew(p)
        ELSE IF HasText(i) /\ "text" \notin has
             THEN run' = [run EXCEPT ![p].stage = "backfill", ![p].flag = "vision" \in has]
             ELSE Proceed(p, "vision" \in has)
  /\ UNCHANGED <<setting, stored, permission, visionUp, raced>>

\* _embed_texts: the texts of the image that was read or, for a backfill, of
\* the chunks that are there.  With a semantic model they go to its API,
\* whatever the image.
EmbedTexts(p) ==
  LET has == index[run[p].image] IN
  /\ At(p, "encode") \/ (At(p, "backfill") /\ "chunk" \in has)
  /\ Go(p, IF At(p, "encode") THEN "text" ELSE IF "regions" \in has THEN "retext" ELSE "rewhole")
  /\ UNCHANGED <<setting, stored, permission, visionUp, raced>>
EmbedFails(p) ==
  /\ At(p, "encode") \/ At(p, "backfill")
  /\ setting.semantic /\ Fault("embed") /\ End(p)
  /\ UNCHANGED <<setting, stored, permission, visionUp, raced>>
NoChunks(p) ==
  /\ At(p, "backfill") /\ "chunk" \notin index[run[p].image]
  /\ Proceed(p, run[p].flag)
  /\ UNCHANGED <<setting, stored, permission, visionUp, raced>>

\* OCR of one image, in a process of its own: a native crash is tried again
\* once, with one thread; any other failure ends the call.
ReadImage(p) ==
  /\ At(p, "ocr")
  /\ \/ run[p].image \in files /\ Go(p, "chunk")
     \/ Fault("native") /\ run[p].tries = 1 /\ run' = [run EXCEPT ![p].tries = 2]
     \/ (Fault("ocr") \/ run[p].tries = 2 \/ run[p].image \notin files) /\ End(p)
  /\ UNCHANGED <<setting, stored, permission, visionUp, raced>>

Put(p, part) == index' = [index EXCEPT ![run[p].image] = @ \cup {part}]
unstored == <<setting, assets, files, saved, memory, permission, raced>>

PutChunk(p) ==
  /\ At(p, "chunk")
  /\ Put(p, "chunk")
  /\ Go(p, IF HasText(run[p].image) THEN "regions" ELSE "vision")
  /\ UNCHANGED <<unstored, visionUp, torn>>

PutRegions(p) ==
  /\ At(p, "regions")
  /\ Put(p, "regions") /\ Go(p, "encode")
  /\ UNCHANGED <<unstored, visionUp, torn>>

PutText_Whole(p) ==
  /\ \/ At(p, "text") /\ Go(p, "spots")
     \/ run[p].stage \in {"retext", "rewhole"} /\ Proceed(p, run[p].flag)
  /\ Put(p, "text")
  /\ UNCHANGED <<unstored, visionUp, torn>>

\* Each vector is a transaction of its own, that of the whole image first.
PutText(p) ==
  /\ \/ At(p, "text") /\ Go(p, "spots")
     \/ At(p, "retext") /\ Go(p, "respots")
     \/ At(p, "rewhole") /\ Proceed(p, run[p].flag)
  /\ Put(p, "text")
  /\ UNCHANGED <<unstored, visionUp, torn>>

\* The vectors of the regions, to the last of them.
PutSpots(p) ==
  /\ \/ At(p, "spots") /\ Go(p, "vision")
     \/ At(p, "respots") /\ Proceed(p, run[p].flag)
  /\ Put(p, "spots")
  /\ torn' = torn \ {run[p].image}
  /\ UNCHANGED <<unstored, visionUp>>

\* The vector of the image: a failure of the encoder, that is kept for the
\* rest of the process, is no failure of the call; the timeout of its process
\* is no such failure, and ends the call.
PutVision(p) ==
  /\ At(p, "vision")
  /\ LET batch == run[p].work = "pdf"
         up == IF batch THEN run[p].vec = "ok" ELSE visionUp /\ run[p].image \in files
     IN \/ up /\ Put(p, "vision") /\ Return(p, "success") /\ UNCHANGED visionUp
        \/ ~up /\ visionUp' = FALSE /\ Return(p, "failed") /\ UNCHANGED index
        \/ ~batch /\ Fault("vision") /\ visionUp' = FALSE /\ Return(p, "failed") /\ UNCHANGED index
        \/ ~batch /\ visionUp /\ Fault("escape") /\ End(p) /\ UNCHANGED <<index, visionUp>>
  /\ UNCHANGED <<unstored, torn>>

---------------------------------------------------------------------------
(* ingest_pdf *)

\* A saved result is used while the asset and the vectors it tells of exist.
Reusable(n) ==
  LET r == saved[n] IN
  /\ r # NoResult /\ r.image \in Known /\ "text" \in index[r.image]
  /\ IF r.status = "success" THEN "vision" \in index[r.image] ELSE ~setting.retry

\* One page: its checkpoint, or its rendering; after the last, what is rendered.
NextPage(p) ==
  /\ At(p, "page")
  /\ LET n == run[p].page IN
     \/ /\ n <= Len(setting.pdf) /\ Reusable(n)
        /\ run' = [run EXCEPT ![p].page = @ + 1,
                              ![p].results = @ \cup {[page |-> n, image |-> saved[n].image, status |-> saved[n].status]}]
     \/ /\ n <= Len(setting.pdf) /\ ~Reusable(n)
        /\ run' = [run EXCEPT ![p].stage = "store", ![p].image = setting.pdf[n]]
     \/ n > Len(setting.pdf) /\ Go(p, IF run[p].batch = << >> THEN "report" ELSE "batch")
     \/ Fault("stop") /\ End(p)
  /\ UNCHANGED <<setting, stored, permission, visionUp, raced>>

\* recognize_many: the whole batch or nothing, and no second try.
ReadBatch(p) ==
  LET there == \A k \in 1..Len(run[p].batch) : setting.pdf[run[p].batch[k]] \in files IN
  /\ At(p, "batch")
  /\ \/ there /\ Go(p, "embed")
     \/ (~there \/ Fault("ocr") \/ Fault("native") \/ Fault("stop")) /\ End(p)
  /\ UNCHANGED <<setting, stored, permission, visionUp, raced>>

EmbedBatch(p) ==
  /\ At(p, "embed")
  /\ LET items(vec) == run' = [run EXCEPT ![p].vec = vec, ![p].item = 1, ![p].stage = "check",
                                         ![p].image = setting.pdf[run[p].batch[1]]]
         there == \A k \in 1..Len(run[p].batch) : setting.pdf[run[p].batch[k]] \in files
     IN \/ visionUp /\ there /\ items("ok") /\ UNCHANGED visionUp
        \/ (~visionUp \/ ~there \/ Fault("vision")) /\ items("failed") /\ visionUp' = FALSE
        \/ visionUp /\ Fault("escape") /\ End(p) /\ UNCHANGED visionUp
  /\ UNCHANGED <<setting, stored, permission, raced>>

SavePage_KeepItem(p) ==
  LET k == run[p].item
      n == run[p].batch[k]
      r == run[p].made[k]
      rest == [run[p] EXCEPT !.results = @ \cup {[page |-> n, image |-> r.image, status |-> r.status]}, !.item = @ + 1]
  IN /\ At(p, "save") /\ saved' = [saved EXCEPT ![n] = r]
     /\ run' = [run EXCEPT ![p] =
          IF k = Len(run[p].batch) THEN [rest EXCEPT !.stage = "page", !.batch = << >>, !.made = << >>] ELSE rest]
     /\ UNCHANGED <<setting, assets, files, index, memory, torn, permission, visionUp, raced>>

\* flush: the results of a batch are saved page by page.
SavePage(p) ==
  /\ At(p, "save")
  /\ LET k == run[p].item
         n == run[p].batch[k]
         r == run[p].made[k]
         last == k = Len(run[p].batch)
         rest == [run[p] EXCEPT !.results = @ \cup {[page |-> n, image |-> r.image, status |-> r.status]}, !.item = @ + 1]
     IN /\ saved' = [saved EXCEPT ![n] = r]
        /\ run' = [run EXCEPT ![p] =
             IF last THEN [rest EXCEPT !.stage = "page", !.batch = << >>, !.made = << >>, !.item = 1] ELSE rest]
  /\ UNCHANGED <<setting, assets, files, index, memory, torn, permission, visionUp, raced>>

\* The job has returned its results.
Report(p) ==
  /\ At(p, "report") /\ End(p)
  /\ UNCHANGED <<setting, stored, permission, visionUp, raced>>

---------------------------------------------------------------------------
(* VisualMemoryManager *)

Live == {"pending", "active"}
Secret(f) == \E i \in f : "chunk" \in index[i] /\ Text(i) = "secret"

\* _load_assets: the rows are read once, and all of them must exist.
LoadAssets(p) ==
  /\ At(p, "load")
  /\ LET f == run[p].refs
         goes == f \subseteq Known /\ (run[p].work = "approve" => memory[f] = "pending")
     IN IF ~goes THEN End(p)
        ELSE run' = [run EXCEPT ![p].seen = f \cap Sensitive, ![p].todo = f,
                                ![p].stage = IF run[p].work = "remember" THEN "ensure" ELSE "judge"]
  /\ UNCHANGED <<setting, stored, permission, visionUp, raced>>

\* _ensure_assets_indexed: an asset without chunks is indexed from its stored
\* copy, which is stored once more.
EnsureIndexed(p) ==
  /\ At(p, "ensure")
  /\ \/ /\ run[p].todo = {} /\ Go(p, "judge")
     \/ \E i \in run[p].todo :
          LET rest == [run[p] EXCEPT !.todo = @ \ {i}] IN
          IF index[i] \cap {"chunk", "regions"} # {} THEN run' = [run EXCEPT ![p] = rest]
          ELSE IF i \notin files THEN End(p)
          ELSE run' = [run EXCEPT ![p] = [rest EXCEPT !.stage = "store", !.image = Again(i), !.tries = 1]]
  /\ UNCHANGED <<setting, stored, permission, visionUp, raced>>

\* _sensitive_reason, of the rows that were read and the text that is indexed.
Judge(p) ==
  /\ At(p, "judge")
  /\ IF run[p].seen # {} \/ Secret(run[p].refs) THEN End(p)
     ELSE Go(p, IF run[p].work = "remember" THEN "add" ELSE "activate")
  /\ UNCHANGED <<setting, stored, permission, visionUp, raced>>

\* The same fact is not kept twice.
AddMemory(p) ==
  /\ At(p, "add")
  /\ memory' = [memory EXCEPT ![run[p].refs] = IF @ \in Live THEN @ ELSE "pending"]
  /\ End(p)
  /\ UNCHANGED <<setting, assets, files, index, saved, torn, permission, visionUp, raced>>

ActivateMemory(p) ==
  /\ At(p, "activate")
  /\ memory' = [memory EXCEPT ![run[p].refs] = "active"]
  /\ End(p)
  /\ UNCHANGED <<setting, assets, files, index, saved, torn, permission, visionUp, raced>>

FindReferences_Active(p) ==
  /\ At(p, "refs")
  /\ LET found == {f \in Facts : run[p].image \in f /\ memory[f] = "active"}
     IN IF found # {} /\ ~run[p].flag THEN End(p)
        ELSE run' = [run EXCEPT ![p].stage = "forget", ![p].todo = found]
  /\ UNCHANGED <<setting, stored, permission, visionUp, raced>>

\* delete_asset: the memories, the index, the row, the files.
FindReferences(p) ==
  /\ At(p, "refs")
  /\ LET found == {f \in Facts : run[p].image \in f /\ memory[f] \in Live}
     IN IF found # {} /\ ~run[p].flag THEN End(p)
        ELSE run' = [run EXCEPT ![p].stage = "forget", ![p].todo = found]
  /\ UNCHANGED <<setting, stored, permission, visionUp, raced>>

Forget(p) ==
  /\ At(p, "forget")
  /\ \/ \E f \in run[p].todo :
          /\ memory' = [memory EXCEPT ![f] = "deleted"]
          /\ run' = [run EXCEPT ![p].todo = @ \ {f}]
     \/ run[p].todo = {} /\ Go(p, "drop") /\ UNCHANGED memory
  /\ UNCHANGED <<setting, assets, files, index, saved, torn, permission, visionUp, raced>>

\* The images another thread is working on.
Holds(q) ==
  CASE run[q].work = "pdf" -> {setting.pdf[n] : n \in 1..Len(setting.pdf)}
    [] run[q].work \in {"index", "attach"} -> {run[q].image}
    [] OTHER -> {}
Disturbs(p) ==
  LET i == run[p].image IN
  /\ raced' = IF \E q \in Procs \ {p} : i \in Holds(q) THEN raced \cup {i} ELSE raced
  /\ run' = [q \in Procs |->
       IF q = p THEN [run[p] EXCEPT !.stage = IF At(p, "drop") THEN "remove" ELSE "unlink"]
       ELSE [run[q] EXCEPT !.lost = IF run[q].work = "none" THEN {} ELSE @ \cup {i}]]

DropIndex(p) ==
  /\ At(p, "drop")
  /\ index' = [index EXCEPT ![run[p].image] = {}]
  /\ Disturbs(p)
  /\ UNCHANGED <<setting, assets, files, saved, memory, torn, permission, visionUp>>

RemoveRow(p) ==
  /\ At(p, "remove")
  /\ IF run[p].image \in Known
     THEN assets' = [assets EXCEPT ![run[p].image] = "none"] /\ Disturbs(p)
     ELSE End(p) /\ UNCHANGED <<assets, raced>>
  /\ UNCHANGED <<setting, files, index, saved, memory, torn, permission, visionUp>>

Unlink(p) ==
  /\ At(p, "unlink")
  /\ files' = files \ {run[p].image}
  /\ End(p)
  /\ raced' = IF \E q \in Procs \ {p} : run[p].image \in Holds(q) THEN raced \cup {run[p].image} ELSE raced
  /\ UNCHANGED <<setting, assets, index, saved, memory, torn, permission, visionUp>>

---------------------------------------------------------------------------
(* Answers from images *)

\* sensitive_permission: the sensitive images are named.
Asks(p, named) ==
  permission' = permission \cup {[work |-> run[p].work, refs |-> run[p].refs, named |-> named, start |-> run[p].start]}

\* answer_multimodal, from the list of its sensitive images.
AskVision(p) ==
  /\ At(p, "ask")
  /\ IF ~setting.cloud THEN End(p) /\ UNCHANGED permission
     ELSE IF run[p].refs \cap Sensitive # {} /\ setting.policy = "confirm" THEN End(p) /\ Asks(p, run[p].refs \cap Sensitive)
     ELSE Go(p, "enforce") /\ UNCHANGED permission
  /\ UNCHANGED <<setting, stored, visionUp, raced>>

Admitted_Unblocked(p, images) ==
  images \cap Sensitive = {} \/ setting.policy # "confirm" \/ run[p].flag

\* MultimodalService.answer: all assets exist, and the policy admits them.
Admitted(p, images) ==
  images \cap Sensitive = {} \/ setting.policy = "allow" \/ (setting.policy = "confirm" /\ run[p].flag)
Enforce(p) ==
  /\ At(p, "enforce")
  /\ IF run[p].refs \subseteq Known /\ Admitted(p, run[p].refs) THEN Go(p, "send") ELSE End(p)
  /\ UNCHANGED <<setting, stored, permission, visionUp, raced>>

\* text_search finds words; the vectors of texts and images find the nearest of
\* those that are there, which for a few images are all.  The vectors of images
\* are not asked when a word was found, nor when the encoder fails.
Lexical(words) == {i \in words : "chunk" \in index[i] /\ HasText(i)}
Near(pictures) == {i \in Images : "text" \in index[i] \/ (pictures /\ "vision" \in index[i])}
\* A hit needs its chunk; hits of words are preferred.
Evidence(lex, near) == {i \in lex \cup near : "chunk" \in index[i]}
Answerable(lex, near) == IF lex # {} THEN lex ELSE Evidence(lex, near)

\* answer_from_index searches each time it is called, the user's word included.
SearchIndex(p) ==
  /\ At(p, "search")
  /\ \/ setting.semantic /\ Fault("embed") /\ End(p) /\ UNCHANGED permission
     \/ \E encoder \in BOOLEAN :
          LET lex == Lexical(run[p].refs)
              found == Answerable(lex, Near(lex = {} /\ encoder)) IN
          IF ~setting.cloud \/ found = {} THEN End(p) /\ UNCHANGED permission
          ELSE IF found \cap Sensitive # {} /\ ~run[p].flag /\ setting.policy = "confirm"
               THEN End(p) /\ Asks(p, found \cap Sensitive)
          ELSE /\ IF Admitted(p, found) THEN run' = [run EXCEPT ![p].stage = "send", ![p].refs = found] ELSE End(p)
               /\ UNCHANGED permission
  /\ UNCHANGED <<setting, stored, visionUp, raced>>

\* VisionLLMProvider.answer: the files are read and the request goes out.  The
\* images that have a row are sent, and for a recall the text of all of them.
SendImages(p) ==
  /\ At(p, "send") /\ (run[p].refs \cap Known) \subseteq files /\ End(p)
  /\ UNCHANGED <<setting, stored, permission, visionUp, raced>>
SendNothing(p) ==
  /\ At(p, "send") /\ ~((run[p].refs \cap Known) \subseteq files) /\ End(p)
  /\ UNCHANGED <<setting, stored, permission, visionUp, raced>>

\* A thread has put the first vector of an image's texts, and not all.
Filling(i) == \E p \in Procs : run[p].stage \in {"spots", "respots"} /\ run[p].image = i

Crash ==
  /\ setting.crashes > 0
  /\ setting' = [setting EXCEPT !.crashes = @ - 1]
  /\ run' = [p \in Procs |-> Idle] /\ visionUp' = TRUE
  /\ torn' = torn \cup {i \in Images : Filling(i)}
  /\ UNCHANGED <<assets, files, index, saved, memory, permission, raced>>

\* A start with another model for texts: its vectors are another space, and
\* the checkpoints are kept under a key that names the space.
ChangeTextModel ==
  /\ setting.respace /\ \A p \in Procs : At(p, "idle")
  /\ setting' = [setting EXCEPT !.respace = FALSE]
  /\ index' = [i \in Images |-> index[i] \ {"text", "spots"}]
  /\ visionUp' = TRUE
  /\ saved' = [n \in 1..MaxPages |-> NoResult]
  /\ UNCHANGED <<assets, files, memory, torn, permission, run, raced>>

StoreAsset(p) == LookUp(p) \/ RaiseLevel(p) \/ WriteFiles(p) \/ InsertRow(p)
IngestImage(p) ==
  \/ CheckIndex(p) \/ EmbedTexts(p) \/ EmbedFails(p) \/ NoChunks(p) \/ ReadImage(p)
  \/ PutChunk(p) \/ PutRegions(p) \/ PutText(p) \/ PutSpots(p) \/ PutVision(p)
IngestPdf(p) == NextPage(p) \/ ReadBatch(p) \/ EmbedBatch(p) \/ SavePage(p) \/ Report(p)
VisualMemory(p) == LoadAssets(p) \/ EnsureIndexed(p) \/ Judge(p) \/ AddMemory(p) \/ ActivateMemory(p)
DeleteAsset(p) == FindReferences(p) \/ Forget(p) \/ DropIndex(p) \/ RemoveRow(p) \/ Unlink(p)
Answer(p) == AskVision(p) \/ Enforce(p) \/ SearchIndex(p) \/ SendImages(p) \/ SendNothing(p)

Next ==
  \/ StartIndex \/ StartPdf \/ Attach \/ StartRemember \/ StartApprove \/ StartDelete \/ StartAnswer \/ StartRecall
  \/ Confirm \/ Crash \/ ChangeTextModel
  \/ \E p \in Procs : StoreAsset(p)
  \/ \E p \in {"worker", "op"} : IngestImage(p) \/ IngestPdf(p)
  \/ VisualMemory("op") \/ DeleteAsset("op") \/ Answer("op")

Spec == Init /\ [][Next]_vars

---------------------------------------------------------------------------
(* Properties *)

RunState == [work: Works, stage: Stages, image: Images \cup {"none"}, level: Levels, refs: SUBSET Images,
             todo: (SUBSET Images) \cup SUBSET Facts, page: 1..MaxPages + 1, batch: Seq(1..MaxPages), item: 1..MaxPages,
             made: Seq(Result), results: SUBSET [page: 1..MaxPages, image: Images, status: Statuses],
             vec: {"none", "ok", "failed"}, tries: 1..2, flag: BOOLEAN, seen: SUBSET Images,
             start: SUBSET Images, lost: SUBSET Images]

\* The shape of the state.
TypeOK ==
  /\ setting \in Setting
  /\ assets \in [Images -> Row] /\ files \subseteq Images
  /\ index \in [Images -> SUBSET Parts]
  /\ saved \in [1..MaxPages -> Result \cup {NoResult}]
  /\ memory \in [Facts -> Live \cup {"none", "deleted"}]
  /\ permission \subseteq [work: Works, refs: SUBSET Images, named: SUBSET Images, start: SUBSET Images]
  /\ visionUp \in BOOLEAN /\ torn \subseteq Images /\ raced \subseteq Images
  /\ run \in [Procs -> RunState]

\* The three stores agree at every moment, whatever crashes: what the index
\* holds has an asset, an asset has its file, and an image a memory refers to,
\* that has been neither deleted nor refused, has not been deleted either.
\* Only an image that was deleted while another thread was storing or indexing
\* it is excepted (asset_store.py, service.py delete_asset, visual_memory.py).
StoresAgree ==
  /\ \A i \in Images \ raced :
       /\ index[i] # {} => i \in Known
       /\ i \in Known => i \in files
  /\ \A f \in Facts : memory[f] \in Live => f \subseteq Known

\* What an index job returns is true: a PDF has one result for each of its
\* pages, from whatever mixture of checkpoints and batches, and an image that
\* is reported indexed has its chunks, the vector of its text, the vectors of
\* all its regions and its own vector.  Excepted are an image that was deleted
\* since the job began and, for the vectors of regions alone, an image whose
\* vectors another thread is writing or a crash has left half written
\* (ingestion.py ingest_pdf): later jobs ask for the vector of the whole text
\* alone (ingestion.py:64, :280) and do not mend it.
ReportIsTrue ==
  \A p \in Procs : At(p, "report") =>
    LET results == run[p].results IN
    /\ run[p].work = "pdf" =>
         \A n \in 1..Len(setting.pdf) : \E r \in results : r.page = n /\ r.image = setting.pdf[n]
    /\ \A r, q \in results : r.page = q.page => r = q
    /\ \A r \in results : r.status = "success" /\ r.image \notin run[p].lost \cup raced =>
         /\ r.image \in Known
         /\ {"chunk", "vision"} \subseteq index[r.image]
         /\ HasText(r.image) => {"regions", "text"} \subseteq index[r.image]
         /\ HasText(r.image) => "spots" \in index[r.image] \/ r.image \in torn \/ Filling(r.image)

\* The file of an image that was sensitive when the request was first made is
\* not sent to the vision model when the policy blocks it, nor without the
\* user's word when the policy asks for it; and for an answer about given
\* images that word names every such image.  A recall the user has confirmed
\* searches again and may send others (service.py:177), and the text of any
\* image goes to the embedding service (EmbedTexts): neither is claimed.  No
\* memory of an image that was sensitive when the operation began becomes
\* active (service.py _enforce_sensitive_policy, visual_memory.py approve).
SensitiveIsGuarded ==
  [][ /\ SendImages("op") /\ setting.policy # "allow" =>
           LET kept == run["op"].refs \cap run["op"].start IN
           kept # {} => /\ setting.policy = "confirm" /\ run["op"].flag
                        /\ run["op"].work = "answer" => kept \subseteq run["op"].seen
      /\ \A f \in Facts : memory'[f] = "active" /\ memory[f] # "active" => f \cap run["op"].start = {} ]_vars
=============================================================================
