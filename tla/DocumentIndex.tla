--------------------------- MODULE DocumentIndex ---------------------------
(***************************************************************************)
(* The document index: src/deskpilot/rag/vector_index.py, catalog.py,      *)
(* retrieval.py, migrations.py and the part of web_research.py that files  *)
(* pages in the index and searches it.                                     *)
(*                                                                         *)
(* A document is kept three times: in the memory of every process that has *)
(* opened the index, in a JSON snapshot that each process rewrites as a    *)
(* whole, and in a SQLite catalog with a full-text table.  add_document    *)
(* changes them one after the other, with calls of an embedding service    *)
(* and no lock in between; several threads of a process share the memory   *)
(* and the name of the embedding space.  A process may die between any two *)
(* steps, a commit or a save may fail, and the embedding service may fail  *)
(* in the middle of a document.                                            *)
(*                                                                         *)
(* A document is named by its content (make_doc_id), so a version of a     *)
(* file and its document are the same value here.  Its chunks enter and    *)
(* leave every store together; Batches numbers the calls of the embedding  *)
(* service that their vectors take.  Parsing, the cutting into chunks and  *)
(* scores are left out: a search may recall and select any of the chunks   *)
(* that its channels can reach.                                            *)
(***************************************************************************)
EXTENDS Integers, FiniteSets

CONSTANTS
  Paths,        \* the files and the pages
  Pages,        \* those that are pages of the web
  Versions,     \* the contents each of them may have: [Paths -> SUBSET Docs]
  Procs,        \* processes that open the index
  IndexThreads, \* threads of the processes
  ProcOf,       \* the process of a thread
  Scenes,       \* the circumstances under which the index is observed
  NoDoc         \* no document, no row

Docs == UNION {Versions[p] : p \in Paths}
Spaces == {"api", "local"}
Batches == 1..2

\* What may happen, and how often.
Scene == [threads: SUBSET IndexThreads, jobs: Nat, edits: Nat, crashes: Nat, failures: Nat,
          outages: Nat, clears: Nat, migrations: Nat, readers: BOOLEAN]

ASSUME IndexAssumption ==
  /\ Pages \subseteq Paths
  /\ DOMAIN Versions = Paths
  /\ \A p \in Paths : Versions[p] # {}
  /\ \A p, q \in Paths : p # q => Versions[p] \cap Versions[q] = {}
  /\ ProcOf \in [IndexThreads -> Procs]
  /\ Scenes \subseteq Scene
  /\ NoDoc \notin Docs \cup Paths

VARIABLES
  scene,        \* what may still happen
  files,        \* the content of every path
  disk,         \* the snapshot, the catalog, its full-text table and its cache of vectors
  procs,        \* what every process has in memory
  jobs,         \* what every thread is doing
  history       \* the last report that a path is indexed, the documents that a failed job left in
                \* memory, those whose vectors were asked for in one space and named after another

indexVars == <<scene, files, disk, procs, jobs, history>>

(* A document in memory or in the snapshot: its path, the space it is     *)
(* labelled with, and the space each of its vectors really is from.       *)
Stored == [path: Paths, label: Spaces, vec: [Batches -> Spaces]]
Row == [path: Paths, source: Docs \cup {NoDoc}, label: Spaces, active: BOOLEAN]
IsLibrary(lib) == DOMAIN lib \subseteq Docs /\ \A d \in DOMAIN lib : lib[d] \in Stored
Cached == [doc: Docs, batch: Batches, space: Spaces, vec: Spaces]

NoJob == [stage |-> "idle", kind |-> "index", todo |-> {}, path |-> NoDoc, doc |-> NoDoc,
         vec |-> << >>, label |-> "local", hits |-> {}, file |-> << >>]

NoReport == << >>

IndexInit ==
  /\ scene \in Scenes
  /\ files = [p \in Paths |-> CHOOSE d \in Versions[p] : TRUE]
  /\ disk = [saved |-> FALSE, snap |-> << >>, cat |-> << >>, fts |-> {}, cache |-> {}, backup |-> << >>]
  /\ procs = [p \in Procs |-> [up |-> TRUE, config |-> "api", space |-> "api", docs |-> << >>]]
  /\ jobs = [t \in IndexThreads |-> NoJob]
  /\ history = [reported |-> [p \in Paths |-> NoReport], doubtful |-> {}, shifted |-> {}]

Use(what) == scene[what] > 0 /\ scene' = [scene EXCEPT ![what] = @ - 1]
JobAt(t, stage) == jobs[t].stage = stage /\ procs[ProcOf[t]].up
Goto(t, stage) == jobs' = [jobs EXCEPT ![t].stage = stage]
Memory(t) == procs[ProcOf[t]].docs
Space(t) == procs[ProcOf[t]].space
Without(lib, docs) == [d \in DOMAIN lib \ docs |-> lib[d]]
With(lib, doc, value) == [d \in DOMAIN lib \cup {doc} |-> IF d = doc THEN value ELSE lib[d]]

---------------------------------------------------------------------------
(* Filing a document *)

\* Bound: two threads never file the same path at a time.  Nothing in the
\* code keeps them from it; each could then remove what the other reports.
Apart(t, todo) == \A u \in IndexThreads \ {t} : todo \cap (jobs[u].todo \cup {jobs[u].path}) = {}

\* The pages that the first provider to answer has found (search).
FoundPages == SUBSET Pages
\* Of these, the ones that could be fetched and have a readable text.
Fetched(pages) == SUBSET pages

\* _index_file, _index_folder and index_documents, or the pages a research has fetched.
StartJob(t, todo, kind) ==
  /\ JobAt(t, "idle")
  /\ t \in scene.threads
  /\ CASE kind = "research" -> scene.readers /\ \E pages \in FoundPages : todo \in Fetched(pages)
       [] kind = "index" -> todo \cap Pages = {}
  /\ Apart(t, todo)
  /\ Use("jobs")
  /\ jobs' = [jobs EXCEPT ![t] = [NoJob EXCEPT !.stage = "parse", !.todo = todo, !.kind = kind]]
  /\ UNCHANGED <<files, disk, procs, history>>

\* After the last document an indexing is done; a research searches the index.
AfterDocument(job) ==
  IF job.todo # {} THEN [job EXCEPT !.stage = "parse"]
  ELSE IF job.kind = "research" THEN [job EXCEPT !.stage = "filter"]
  ELSE NoJob

\* Mutant: a document without a digest is filed under its path.
Source_Path(path, doc) == IF path \in Pages THEN path ELSE doc

\* A page has no digest of its content (make_web_document).
Source(path, doc) == IF path \in Pages THEN NoDoc ELSE doc

\* unchanged_document: the active row of this path, with this digest and this space.
UnchangedRows(path, doc, space) ==
  {d \in DOMAIN disk.cat : /\ disk.cat[d].path = path
                           /\ disk.cat[d].source = Source(path, doc)
                           /\ disk.cat[d].label = space
                           /\ disk.cat[d].active}

\* Mutant: the catalog alone decides.
Skips_Catalog(t, path, doc) == UnchangedRows(path, doc, procs[ProcOf[t]].config)

\* Only a document that this process also has in memory is skipped.
Skips(t, path, doc) ==
  UnchangedRows(path, doc, procs[ProcOf[t]].config) \cap DOMAIN Memory(t)

\* parse_document and the first half of add_document.
Parse(t) ==
  /\ JobAt(t, "parse")
  /\ \E path \in jobs[t].todo :
       LET doc == files[path]
           job == [jobs[t] EXCEPT !.todo = @ \ {path}, !.path = path, !.doc = doc]
           same == Skips(t, path, doc)
       IN IF same # {}
          THEN /\ history' = [history EXCEPT !.reported[path] = <<CHOOSE d \in same : TRUE, ProcOf[t]>>]
               /\ jobs' = [jobs EXCEPT ![t] = AfterDocument(job)]
               /\ UNCHANGED procs
          ELSE /\ procs' = [procs EXCEPT ![ProcOf[t]].space = procs[ProcOf[t]].config]
               /\ jobs' = [jobs EXCEPT ![t] = [job EXCEPT !.stage = "chunk"]]
               /\ history' = [history EXCEPT !.reported[path] = NoReport]
  /\ UNCHANGED <<scene, files, disk>>

\* chunk_document_with_metadata: a document may be cut where its sentences
\* differ.  Their vectors are cached under the sentences, which the model leaves
\* out; but if the service fails for them, the process is in the local space
\* from here on, or the job ends.
Chunk(t) ==
  /\ JobAt(t, "chunk")
  /\ \/ Goto(t, "lookup") /\ UNCHANGED <<scene, procs>>
     \/ /\ procs[ProcOf[t]].config = "api"
        /\ Use("outages")
        /\ \/ procs' = [procs EXCEPT ![ProcOf[t]].space = "local"] /\ Goto(t, "lookup")
           \/ jobs' = [jobs EXCEPT ![t] = NoJob] /\ UNCHANGED procs
  /\ UNCHANGED <<files, disk, history>>

\* The space is no longer the one that these vectors were asked for in.
Shifts(doc, seen, space) ==
  history' = IF seen = space THEN history ELSE [history EXCEPT !.shifted = @ \cup {doc}]

Known(doc, space) ==
  [b \in {c.batch : c \in {e \in disk.cache : e.doc = doc /\ e.space = space}} |->
     (CHOOSE e \in disk.cache : e.doc = doc /\ e.space = space /\ e.batch = b).vec]

Cache(doc, space, vec) ==
  {e \in disk.cache : ~(e.doc = doc /\ e.space = space /\ e.batch \in DOMAIN vec)}
    \cup {[doc |-> doc, batch |-> b, space |-> space, vec |-> vec[b]] : b \in DOMAIN vec}

\* _embed_cached: what the cache has under the current space.
LookUp(t) ==
  /\ JobAt(t, "lookup")
  /\ LET vec == Known(jobs[t].doc, Space(t))
     IN jobs' = [jobs EXCEPT ![t].vec = vec, ![t].label = Space(t),
                             ![t].stage = IF DOMAIN vec = Batches THEN "drop" ELSE "call"]
  /\ UNCHANGED <<scene, files, disk, procs, history>>

\* Mutant: the ones that are there already are kept.
FallbackVectors_Rest(vec) == [b \in Batches |-> IF b \in DOMAIN vec THEN vec[b] ELSE "local"]

\* What the vectors are when a call has failed: all of them local ones.
FallbackVectors(vec) == [b \in Batches |-> "local"]

\* client.embed of the next missing batch.  A failure moves the document to
\* the local space, unless it is there, or ends the job if no fallback is allowed.
CallEmbedding(t) ==
  LET job == jobs[t]
      next == CHOOSE b \in Batches \ DOMAIN job.vec : TRUE
      config == procs[ProcOf[t]].config
      Got(space) ==
        LET vec == With(job.vec, next, space)
        IN /\ jobs' = [jobs EXCEPT ![t].vec = vec,
                                   ![t].stage = IF DOMAIN vec = Batches THEN "store" ELSE "call"]
           /\ Shifts(job.doc, job.label, space)
           /\ UNCHANGED <<disk, procs>>
  IN /\ JobAt(t, "call")
     /\ \/ Got(config) /\ UNCHANGED scene
        \/ /\ config = "api"
           /\ Use("outages")
           /\ \/ job.label = "local" /\ Got("local")
              \/ /\ job.label # "local"
                 /\ LET vec == FallbackVectors(job.vec)
                    IN /\ procs' = [procs EXCEPT ![ProcOf[t]].space = "local"]
                       /\ disk' = [disk EXCEPT !.cache = Cache(job.doc, "local", vec)]
                       /\ jobs' = [jobs EXCEPT ![t].vec = vec, ![t].label = "local", ![t].stage = "drop"]
                       /\ UNCHANGED history
              \/ jobs' = [jobs EXCEPT ![t] = NoJob] /\ UNCHANGED <<disk, procs, history>>
     /\ UNCHANGED files

\* The fresh vectors are cached under the space the process has now.
StoreVectors(t) ==
  /\ JobAt(t, "store")
  /\ disk' = [disk EXCEPT !.cache = Cache(jobs[t].doc, Space(t), jobs[t].vec)]
  /\ Goto(t, "drop")
  /\ Shifts(jobs[t].doc, jobs[t].label, Space(t))
  /\ UNCHANGED <<scene, files, procs>>

\* The label of the document, read after the vectors are there.
Label(t) == Space(t)

\* Mutant: only a version that is stored under the same document is replaced.
OldVersions_None(lib, path, doc) == {}

\* The versions of the path that memory holds.
OldVersions(lib, path, doc) == {d \in DOMAIN lib \ {doc} : lib[d].path = path}

\* Old versions leave memory first, then the new one enters.
DropOld(t) ==
  /\ JobAt(t, "drop")
  /\ LET job == jobs[t]
     IN procs' = [procs EXCEPT ![ProcOf[t]].docs =
                    Without(@, OldVersions(@, job.path, job.doc) \cup {job.doc})]
  /\ jobs' = [jobs EXCEPT ![t].stage = "insert", ![t].label = Label(t)]
  /\ Shifts(jobs[t].doc, jobs[t].label, Label(t))
  /\ UNCHANGED <<scene, files, disk>>

Enter(t) ==
  /\ JobAt(t, "insert")
  /\ LET job == jobs[t]
     IN procs' = [procs EXCEPT ![ProcOf[t]].docs =
                    With(@, job.doc, [path |-> job.path, label |-> job.label, vec |-> job.vec])]
  /\ Goto(t, "commit")
  /\ UNCHANGED <<scene, files, disk, history>>

\* commit_document: the new rows, and the old ones of the path deactivated, in one transaction.
CommitRow(job) ==
  LET old == {d \in DOMAIN disk.cat \ {job.doc} : disk.cat[d].path = job.path /\ disk.cat[d].active}
      new == [path |-> job.path, source |-> Source(job.path, job.doc),
              label |-> job.label, active |-> TRUE]
      kept == [d \in DOMAIN disk.cat |-> [disk.cat[d] EXCEPT !.active = @ /\ d \notin old]]
  IN [disk EXCEPT !.cat = With(kept, job.doc, new),
                  !.fts = (@ \ old) \cup {job.doc}]

\* The transaction or the save fails: the exception ends the job, memory is as it is.
Fail(t) ==
  /\ Use("failures")
  /\ jobs' = [jobs EXCEPT ![t] = NoJob]
  /\ history' = [history EXCEPT !.doubtful = @ \cup ({jobs[t].doc} \ {NoDoc})]
  /\ UNCHANGED disk

Commit(t) ==
  /\ JobAt(t, "commit")
  /\ \/ disk' = CommitRow(jobs[t]) /\ Goto(t, "dump") /\ UNCHANGED <<scene, history>>
     \/ Fail(t)
  /\ UNCHANGED <<files, procs>>

\* save: the payload is built from memory, then the file is replaced.
Dump(t) ==
  /\ JobAt(t, "dump")
  /\ jobs' = [jobs EXCEPT ![t].file = Memory(t), ![t].stage = "replace"]
  /\ UNCHANGED <<scene, files, disk, procs, history>>

Replace(t) ==
  /\ JobAt(t, "replace")
  /\ \/ /\ disk' = [disk EXCEPT !.snap = jobs[t].file, !.saved = TRUE]
        /\ history' = [history EXCEPT
             !.doubtful = @ \ {jobs[t].doc},
             !.reported = IF jobs[t].kind = "clear" THEN @
                          ELSE [@ EXCEPT ![jobs[t].path] = <<jobs[t].doc, ProcOf[t]>>]]
        /\ jobs' = [jobs EXCEPT ![t] = AfterDocument([jobs[t] EXCEPT !.file = << >>])]
        /\ UNCHANGED scene
     \/ Fail(t)
  /\ UNCHANGED <<files, procs>>

---------------------------------------------------------------------------
(* Searching *)

\* DenseRetriever.search: vectors are compared with a query of the same
\* space; local ones always with a local query.
DenseHits(lib, space) == {d \in DOMAIN lib : \E b \in Batches : lib[d].vec[b] \in {space, "local"}}
\* sparse_search: the admitted chunks that the full-text table has.
SparseHits(lib) == DOMAIN lib \cap disk.fts
\* _legacy_search and search_collection score every chunk.
ScoredHits(lib) == DOMAIN lib

\* What the stages of a hybrid search may make of their candidates.  The
\* scores are left out, so each stage may take any of them away; a reranker
\* or a judge that fails passes all of them on.
Filtered(docs) == {[d \in kept |-> docs[d]] : kept \in SUBSET DOMAIN docs}
Fused(dense, sparse) == SUBSET (dense \cup sparse)
Reranked(hits) == SUBSET hits
Thresholded(hits) == SUBSET hits
Judged(hits) == SUBSET hits
\* Chunks of one parent are merged, so something remains of what there was.
Expanded(hits) == {kept \in SUBSET hits : hits # {} => kept # {}}
Selected(hits) == {kept \in SUBSET hits : hits # {} => kept # {}}

StartSearch(t) ==
  /\ JobAt(t, "idle")
  /\ t \in scene.threads
  /\ scene.readers
  /\ Use("jobs")
  /\ jobs' = [jobs EXCEPT ![t] = [NoJob EXCEPT !.stage = "filter", !.kind = "search"]]
  /\ UNCHANGED <<files, disk, procs, history>>

\* search_hybrid: the chunks of this moment that the filters admit.
Filter(t) ==
  /\ JobAt(t, "filter")
  /\ \E file \in Filtered(Memory(t)) : jobs' = [jobs EXCEPT ![t].file = file, ![t].stage = "recall"]
  /\ UNCHANGED <<scene, files, disk, procs, history>>

\* The query is embedded by the service or, when that fails, locally.
Recall(t) ==
  /\ JobAt(t, "recall")
  /\ \E space \in {procs[ProcOf[t]].config, "local"} :
       \E hits \in Fused(DenseHits(jobs[t].file, space), SparseHits(jobs[t].file))
                     \cup SUBSET ScoredHits(jobs[t].file) :
         jobs' = [jobs EXCEPT ![t].hits = hits, ![t].stage = "rank"]
  /\ UNCHANGED <<scene, files, disk, procs, history>>

\* The stages after the recall, in their order.
Rank(t) ==
  /\ JobAt(t, "rank")
  /\ \E a \in Reranked(jobs[t].hits) : \E b \in Thresholded(a) : \E c \in Judged(b) :
       \E d \in Expanded(c) : \E e \in Selected(d) :
         jobs' = [jobs EXCEPT ![t].hits = e, ![t].stage = "cite"]
  /\ UNCHANGED <<scene, files, disk, procs, history>>

\* A research cites pages rather than files if it has any (research).
Cited(job) ==
  LET web == {d \in job.hits : job.file[d].path \in Pages}
  IN IF job.kind = "research" /\ web # {} THEN web ELSE job.hits

\* The evidence is returned; of a research's, what memory still has is numbered.
Cite(t) ==
  /\ JobAt(t, "cite")
  /\ jobs' = [jobs EXCEPT ![t] = [NoJob EXCEPT !.hits = Cited(jobs[t]), !.file = jobs[t].file]]
  /\ UNCHANGED <<scene, files, disk, procs, history>>

---------------------------------------------------------------------------
(* Clearing, loading, migrating *)

\* clear: memory, then the catalog but not its cache, then the snapshot.
ClearMemory(t) ==
  /\ JobAt(t, "idle")
  /\ t \in scene.threads
  /\ Use("clears")
  /\ procs' = [procs EXCEPT ![ProcOf[t]].docs = << >>]
  /\ jobs' = [jobs EXCEPT ![t] = [NoJob EXCEPT !.stage = "wipe", !.kind = "clear"]]
  /\ history' = [history EXCEPT !.reported = [p \in Paths |-> NoReport]]
  /\ UNCHANGED <<files, disk>>

ClearCatalog(t) ==
  /\ JobAt(t, "wipe")
  /\ disk' = [disk EXCEPT !.cat = << >>, !.fts = {}]
  /\ Goto(t, "dump")
  /\ UNCHANGED <<scene, files, procs, history>>

Die(p) ==
  /\ procs[p].up
  /\ \E t \in scene.threads : ProcOf[t] = p
  /\ Use("crashes")
  /\ procs' = [procs EXCEPT ![p].up = FALSE, ![p].docs = << >>]
  /\ jobs' = [t \in IndexThreads |-> IF ProcOf[t] = p THEN NoJob ELSE jobs[t]]
  /\ UNCHANGED <<files, disk, history>>

\* sync_search_index: the full-text table is rebuilt if it has another
\* number of chunks than the snapshot (all documents have as many).
Synced(fts, docs) == IF Cardinality(fts) = Cardinality(docs) THEN fts ELSE docs

\* __init__ and load, with the model that is configured now.
Start(p) ==
  /\ ~procs[p].up
  /\ \E config \in Spaces :
       procs' = [procs EXCEPT ![p] = [up |-> TRUE, config |-> config, space |-> config,
                                      docs |-> disk.snap]]
  /\ disk' = IF disk.saved THEN [disk EXCEPT !.fts = Synced(@, DOMAIN disk.snap)] ELSE disk
  /\ UNCHANGED <<scene, files, jobs, history>>

\* migrate_legacy_index: a new catalog from the snapshot, the old one kept aside.
Migrate ==
  /\ \A p \in Procs : (\E t \in scene.threads : ProcOf[t] = p) => ~procs[p].up
  /\ disk.saved
  /\ Use("migrations")
  /\ disk' = [disk EXCEPT
        !.cat = [d \in DOMAIN disk.snap |->
                   [path |-> disk.snap[d].path, source |-> Source(disk.snap[d].path, d),
                    label |-> disk.snap[d].label, active |-> TRUE]],
        !.fts = DOMAIN disk.snap, !.cache = {},
        !.backup = [cat |-> disk.cat, fts |-> disk.fts, cache |-> disk.cache]]
  /\ UNCHANGED <<files, procs, jobs, history>>

\* rollback_catalog: the catalog that was kept comes back.
Rollback ==
  /\ \A p \in Procs : (\E t \in scene.threads : ProcOf[t] = p) => ~procs[p].up
  /\ disk.backup # << >>
  /\ disk' = [disk EXCEPT !.cat = disk.backup.cat, !.fts = disk.backup.fts,
                          !.cache = disk.backup.cache, !.backup = << >>]
  /\ UNCHANGED <<scene, files, procs, jobs, history>>

\* The user saves the file, or the site changes the page.
Edit(path) ==
  /\ Use("edits")
  /\ \E doc \in Versions[path] \ {files[path]} : files' = [files EXCEPT ![path] = doc]
  /\ UNCHANGED <<disk, procs, jobs, history>>

IndexNext ==
  \/ \E t \in IndexThreads :
       \/ \E todo \in (SUBSET Paths) \ {{}}, kind \in {"index", "research"} : StartJob(t, todo, kind)
       \/ Parse(t) \/ Chunk(t) \/ LookUp(t) \/ CallEmbedding(t) \/ StoreVectors(t)
       \/ DropOld(t) \/ Enter(t) \/ Commit(t) \/ Dump(t) \/ Replace(t)
       \/ StartSearch(t) \/ Filter(t) \/ Recall(t) \/ Rank(t) \/ Cite(t)
       \/ ClearMemory(t) \/ ClearCatalog(t)
  \/ \E p \in Procs : Die(p) \/ Start(p)
  \/ \E path \in Paths : Edit(path)
  \/ Migrate \/ Rollback

IndexSpec == IndexInit /\ [][IndexNext]_indexVars

---------------------------------------------------------------------------
(* Properties *)

IndexTypeOK ==
  /\ scene \in Scene
  /\ files \in [Paths -> Docs]
  /\ IsLibrary(disk.snap) /\ disk.fts \subseteq Docs /\ disk.cache \subseteq Cached
  /\ DOMAIN disk.cat \subseteq Docs /\ \A d \in DOMAIN disk.cat : disk.cat[d] \in Row
  /\ \A p \in Procs : IsLibrary(procs[p].docs) /\ procs[p].space \in Spaces
  /\ \A p \in Paths : history.reported[p] # NoReport => history.reported[p] \in Versions[p] \X Procs

\* The circumstances in which IndexedIsFound is claimed.  A catalog that is
\* rolled back after documents were filed again does not have them, so while a
\* migration may come a thread dies once at most.  Beside another thread,
\* one that clears or loads the index may lose what that one has filed.
Orderly ==
  \A s \in Scenes :
    IF \E t \in IndexThreads : s.threads = {t}
    THEN s.migrations = 0 \/ s.crashes <= 1
    ELSE s.crashes = 0 /\ s.clears = 0 /\ s.migrations = 0

\* A path that was reported as indexed is found by both channels of the
\* process that reported it, and is in the snapshot that the next process
\* loads unless another thread rewrites that: whatever died or failed, was
\* edited, skipped as unchanged or migrated before and since.  Documents
\* that a failed job left in memory are left out until they are filed again,
\* and the vectors of those whose space was switched may have a wrong label.
IndexedIsFound ==
  \A path \in Paths :
    LET report == history.reported[path]
        doc == report[1]
        docs == procs[report[2]].docs
    IN report # NoReport /\ doc \notin history.doubtful =>
         /\ procs[report[2]].up =>
              /\ doc \in SparseHits(docs)
              /\ doc \in history.shifted \/ doc \in DenseHits(docs, docs[doc].label)
         /\ (\E t \in IndexThreads : scene.threads = {t}) => doc \in DOMAIN disk.snap

\* A document is labelled with the space that all of its vectors are from,
\* in memory, in the snapshot and in the cache, even if the service fails
\* between two calls and a cached vector is used later; unless the name of the
\* space was switched between two looks at it, by another thread or when the
\* service failed for the sentences of the document (vector_index.py:538,
\* chunker.py:96).
VectorsMatchTheirLabel ==
  /\ \A p \in Procs : \A d \in DOMAIN procs[p].docs \ history.shifted : \A b \in Batches :
       procs[p].docs[d].vec[b] = procs[p].docs[d].label
  /\ \A d \in DOMAIN disk.snap \ history.shifted : \A b \in Batches :
       disk.snap[d].vec[b] = disk.snap[d].label
  /\ \A e \in disk.cache : e.vec = e.space \/ e.doc \in history.shifted

\* One search never puts two versions of a file side by side, although files
\* are indexed again while it runs.
NoTwoVersionsCited ==
  \A t \in IndexThreads : \A c, d \in jobs[t].hits :
    jobs[t].file[c].path = jobs[t].file[d].path => c = d
=============================================================================
