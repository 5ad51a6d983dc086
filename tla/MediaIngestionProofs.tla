------------------------ MODULE MediaIngestionProofs ------------------------
(***************************************************************************)
(* Proofs about the images of the assistant: the stores agree, what an     *)
(* index job reports is true, and what is sensitive stays local.           *)
(***************************************************************************)
EXTENDS MediaIngestion, SequenceTheorems, TLAPS

-----------------------------------------------------------------------------
(* The invariant.                                                          *)

Storing == {"store", "raise", "write", "insert"}
Inside == {"check", "backfill", "retext", "rewhole", "respots", "ocr", "chunk", "regions", "encode", "text", "spots",
           "vision"}

\* Which thread does which work, and the stages of it.
Role(p, r) ==
  /\ p = "worker" => r.work \in {"none", "index", "pdf"}
  /\ p = "op" => r.work \in {"none", "index", "remember", "approve", "delete", "answer", "recall"}
  /\ p = "ui" => r.work \in {"none", "attach"}
  /\ r.work = "none" => r.stage = "idle"
  /\ r.work = "index" => r.stage \in Storing \cup Inside \cup {"report"}
  /\ r.work = "pdf" => r.stage \in Storing \cup Inside \cup {"page", "batch", "embed", "save", "report"}
  /\ r.work = "attach" => r.stage \in Storing
  /\ r.work = "remember" => r.stage \in Storing \cup Inside \cup {"load", "ensure", "judge", "add"}
  /\ r.work = "approve" => r.stage \in {"load", "judge", "activate"}
  /\ r.work = "delete" => r.stage \in {"refs", "forget", "drop", "remove", "unlink"}
  /\ r.work = "answer" => r.stage \in {"ask", "enforce", "send"}
  /\ r.work = "recall" => r.stage \in {"search", "send"}
  /\ r.work \in {"index", "attach", "delete"} \/ r.stage \in Storing \cup Inside => r.image \in Images
  /\ r.work \in {"remember", "approve"} => r.refs \in Facts
  /\ r.work = "remember" => r.todo \subseteq Images
  /\ r.stage = "raise" => r.level = "sensitive"

\* The positions of the batch whose results are not saved yet.
Left(r) == IF r.stage = "save" THEN r.item..Len(r.batch) ELSE 1..Len(r.batch)
\* Each page before the next one has its result or is in the batch, and only one
\* of them; what is made of the batch is made of its pages in their order.
Pages(r, pdf, size) ==
  /\ Len(r.batch) <= size
  /\ \A k \in 1..Len(r.batch) : r.batch[k] < r.page /\ r.batch[k] <= Len(pdf)
  /\ \A k, l \in 1..Len(r.batch) : r.batch[k] = r.batch[l] => k = l
  /\ Len(r.made) <= Len(r.batch) /\ \A k \in 1..Len(r.made) : r.made[k].image = pdf[r.batch[k]]
  /\ \A x \in r.results : x.page < r.page /\ x.page <= Len(pdf) /\ x.image = pdf[x.page]
  /\ \A x, y \in r.results : x.page = y.page => x = y
  /\ \A x \in r.results, k \in Left(r) : x.page # r.batch[k]
  /\ \A n \in 1..r.page - 1 : (\E x \in r.results : x.page = n) \/ \E k \in Left(r) : r.batch[k] = n
  /\ r.stage \in {"page"} \cup Storing => Len(r.batch) < size /\ r.made = << >> /\ r.item = 1
  /\ r.stage \in Storing => r.page <= Len(pdf) /\ r.image = pdf[r.page]
  /\ r.stage \in {"batch", "embed"} \cup Inside \cup {"save"} => r.item \in 1..Len(r.batch)
  /\ r.stage \in {"batch", "embed"} => r.made = << >>
  /\ r.stage \in Inside => r.image = pdf[r.batch[r.item]] /\ Len(r.made) = r.item - 1
  /\ r.stage = "save" => Len(r.made) = Len(r.batch)
  /\ r.stage = "report" => r.batch = << >> /\ r.page > Len(pdf)

\* An index job has no result before its report, and then one.
Single(r) ==
  /\ r.made = << >>
  /\ r.stage # "report" => r.results = {}
  /\ \A x, y \in r.results : x = y

RoleOK(p) == Role(p, run[p])
PagesOK(p) == IF run[p].work = "pdf" THEN Pages(run[p], setting.pdf, setting.size) ELSE Single(run[p])

\* An image that is indexed as a whole.
Whole(i) ==
  /\ i \in Known /\ {"chunk", "vision"} \subseteq index[i]
  /\ HasText(i) => {"regions", "text"} \subseteq index[i]
\* What a job tells of images is true, unless they were deleted meanwhile.
Told(p) == run[p].results \cup {run[p].made[k] : k \in 1..Len(run[p].made)}
ToldOK(p) == \A x \in Told(p) : x.status = "success" /\ x.image \notin run[p].lost \cup raced => Whole(x.image)

\* What is stored of an image at a stage of indexing it.
Refilling == {"backfill", "retext", "rewhole", "respots"}
Has(stage, flag, i) ==
  (IF stage \in Refilling \cup {"regions", "encode", "text", "spots", "vision"} THEN {"chunk"} ELSE {})
  \cup (IF stage \in {"encode", "text", "spots"} \/ (stage = "vision" /\ HasText(i)) THEN {"regions"} ELSE {})
  \cup (IF stage \in {"spots", "respots"} \/ (stage = "vision" /\ HasText(i)) THEN {"text"} ELSE {})
  \cup (IF stage = "vision" /\ HasText(i) THEN {"spots"} ELSE {})
  \cup (IF stage \in Refilling /\ flag THEN {"regions", "vision"} ELSE {})

\* What a thread has stored of the image it works on is there, unless the image
\* was deleted meanwhile.
HoldOK(p) ==
  LET r == run[p]
      i == run[p].image
  IN /\ i \notin raced =>
          /\ r.stage = "insert" => i \in files
          /\ r.stage \in {"raise"} \cup Inside => i \in Known
          /\ r.stage \in Inside => Has(r.stage, r.flag, i) \subseteq index[i] /\ (r.stage = "rewhole" => ~r.flag)
     /\ r.work = "pdf" => \A k \in 1..Len(r.batch) : setting.pdf[r.batch[k]] \in Known \cup raced

ThreadOK(p) == RoleOK(p) /\ PagesOK(p) /\ ToldOK(p) /\ HoldOK(p)

\* A thread has looked an image up and goes on with it.
Touches(q, i) ==
  \/ run[q].stage \in {"raise", "write", "insert"} \cup Inside /\ run[q].image = i
  \/ run[q].work = "pdf" /\ \E k \in 1..Len(run[q].batch) : setting.pdf[run[q].batch[k]] = i

\* The user was asked about what an answer is to send.
Worded(r) == r.work = "answer" => r.refs \cap r.start \subseteq r.seen
\* What the user is asked for.
Permissions ==
  {asked \in [work: {"answer", "recall"}, refs: SUBSET Images, named: SUBSET Images, start: SUBSET Images] :
     asked.work = "answer" => asked.refs \cap asked.start \subseteq asked.named}

\* The thread that holds the lock: what it has read is still so.
OpOK ==
  LET r == run["op"]
      i == run["op"].image
  IN /\ r.work \in {"remember", "approve"} /\ r.stage # "load" =>
          r.refs \subseteq Known /\ r.refs \cap r.start \subseteq r.seen
     /\ r.stage = "forget" => \A f \in Facts : i \in f /\ memory[f] \in Live => f \in r.todo
     /\ r.stage \in {"drop", "remove", "unlink"} => \A f \in Facts : i \in f => memory[f] \notin Live
     /\ r.stage \in {"remove", "unlink"} /\ i \notin raced =>
          index[i] = {} /\ \A q \in Procs \ {"op"} : ~Touches(q, i)
     /\ r.stage = "unlink" /\ i \notin raced => i \notin Known
     /\ r.work \notin {"none", "delete"} => r.start \subseteq Sensitive
     /\ r.stage = "activate" => r.refs \cap r.start = {}
     /\ r.stage = "ask" => ~r.flag
     /\ r.stage = "enforce" /\ r.flag => Worded(r)
     /\ r.stage = "send" =>
          r.refs \cap r.start = {} \/ setting.policy = "allow" \/ (setting.policy = "confirm" /\ r.flag /\ Worded(r))

\* The stores, and what a saved page is of.
StoresOK ==
  /\ \A i \in Images \ raced :
       /\ index[i] # {} => i \in Known
       /\ i \in Known => i \in files
       /\ "vision" \in index[i] => "chunk" \in index[i] /\ (HasText(i) => "regions" \in index[i])
  /\ \A f \in Facts : memory[f] \in Live => f \subseteq Known
  /\ \A n \in 1..MaxPages : saved[n] # NoResult => n <= Len(setting.pdf) /\ saved[n].image = setting.pdf[n]
  /\ permission \subseteq Permissions

StoreTypes ==
  /\ assets \in [Images -> Row] /\ files \subseteq Images
  /\ index \in [Images -> SUBSET Parts]
  /\ saved \in [1..MaxPages -> Result \cup {NoResult}]
  /\ memory \in [Facts -> Live \cup {"none", "deleted"}]
  /\ permission \subseteq [work: Works, refs: SUBSET Images, named: SUBSET Images, start: SUBSET Images]
  /\ visionUp \in BOOLEAN /\ torn \subseteq Images /\ raced \subseteq Images
SettingOK == setting \in Setting
RunOK == run \in [Procs -> RunState]

Inv == SettingOK /\ StoreTypes /\ RunOK /\ StoresOK /\ OpOK /\ \A p \in Procs : ThreadOK(p)

-----------------------------------------------------------------------------
(* Rows of the threads.                                                    *)

\* The fields of a row.
LEMMA RowParts ==
  ASSUME NEW r \in RunState
  PROVE  /\ r.stage \in Stages /\ r.work \in Works /\ r.image \in Images \cup {"none"} /\ r.refs \in SUBSET Images
         /\ r.page \in 1..MaxPages + 1 /\ r.batch \in Seq(1..MaxPages) /\ r.item \in 1..MaxPages
         /\ r.made \in Seq(Result) /\ r.start \in SUBSET Images /\ r.seen \in SUBSET Images
         /\ r.results \in SUBSET [page: 1..MaxPages, image: Images, status: Statuses]
         /\ r.lost \in SUBSET Images
BY DEF RunState

\* Numbers of a row.
LEMMA RowNumbers ==
  ASSUME NEW r \in RunState
  PROVE  /\ MaxPages \in Nat /\ MaxPages >= 1 /\ r.page \in Nat /\ r.item \in Nat
         /\ Len(r.batch) \in Nat /\ Len(r.made) \in Nat
         /\ \A k \in 1..Len(r.batch) : r.batch[k] \in 1..MaxPages
         /\ \A k \in 1..Len(r.made) : r.made[k] \in Result
         /\ \A x \in r.results : x.page \in Nat
<1>1. MaxPages \in Nat /\ MaxPages >= 1
  BY MediaAssumption
<1>2. r.batch \in Seq(1..MaxPages) /\ r.made \in Seq(Result) /\ r.page \in 1..MaxPages + 1 /\ r.item \in 1..MaxPages
      /\ \A x \in r.results : x.page \in 1..MaxPages
  BY RowParts
<1>3. Len(r.batch) \in Nat /\ Len(r.made) \in Nat
  BY <1>2, LenProperties
<1>4. \A k \in 1..Len(r.batch) : r.batch[k] \in 1..MaxPages
  BY <1>2, ElementOfSeq
<1>5. \A k \in 1..Len(r.made) : r.made[k] \in Result
  BY <1>2, ElementOfSeq
<1> QED BY <1>1, <1>2, <1>3, <1>4, <1>5

\* Stages at which a thread begins or goes on.
LEMMA StageNames == {"store", "load", "ask", "search", "refs", "judge", "drop"} \subseteq Stages
BY DEF Stages

\* Whether something is in a set is true or false.
LEMMA Truth ==
  ASSUME NEW set, NEW x
  PROVE  \E f \in BOOLEAN : f = (x \in set)
<1>1. CASE x \in set
  <2>1. (x \in set) = TRUE
    BY <1>1
  <2> QED BY <2>1, Zenon
<1>2. CASE x \notin set
  <2>1. (x \in set) = FALSE
    BY <1>2
  <2> QED BY <2>1, Zenon
<1> QED BY <1>1, <1>2

\* What a setting says of the PDF, and what of it stays.
LEMMA SettingFacts ==
  ASSUME SettingOK
  PROVE  /\ setting.pdf \in Seq(Images) /\ Len(setting.pdf) \in Nat /\ Len(setting.pdf) <= MaxPages
         /\ \A n \in 1..Len(setting.pdf) : setting.pdf[n] \in Images
         /\ setting.size \in 1..MaxPages /\ setting.facts \subseteq Facts /\ setting.asks \subseteq Facts
         /\ setting.again \in [Images -> Images] /\ setting.levels \subseteq Levels
<1>1. PICK n \in 0..MaxPages : setting.pdf \in [1..n -> Images]
  BY DEF SettingOK, Setting
<1>2. n \in Nat /\ n <= MaxPages
  BY MediaAssumption
<1>3. setting.pdf \in Seq(Images) /\ Len(setting.pdf) = n
  <2>1. setting.pdf \in Seq(Images)
    BY <1>1, <1>2, SeqDef
  <2> QED BY <1>1, <1>2, <2>1, LenProperties
<1>4. setting.size \in 1..MaxPages /\ setting.facts \subseteq Facts /\ setting.asks \subseteq Facts
      /\ setting.again \in [Images -> Images] /\ setting.levels \subseteq Levels
  BY DEF SettingOK, Setting
<1> QED BY <1>1, <1>2, <1>3, <1>4

\* What the actions do to a setting leaves what the invariant reads.
SameSetting ==
  /\ setting' \in Setting
  /\ setting'.text = setting.text /\ setting'.pdf = setting.pdf /\ setting'.size = setting.size
  /\ setting'.policy = setting.policy

\* A setting that does not change.
LEMMA SettingStays ==
  ASSUME SettingOK, UNCHANGED setting
  PROVE  SameSetting
BY DEF SettingOK, SameSetting

\* A start is used.
LEMMA StartUsed ==
  ASSUME SettingOK, NEW p \in Procs, setting.starts[p] > 0, setting' = [setting EXCEPT !.starts[p] = @ - 1]
  PROVE  SameSetting
<1> DEFINE f == [setting.starts EXCEPT ![p] = @ - 1]
<1>1. setting.starts \in [Procs -> 0..9]
  BY DEF SettingOK, Setting
<1>2. f \in [Procs -> 0..9]
  BY <1>1
<1>3. setting' = [setting EXCEPT !.starts = f]
  OBVIOUS
<1>4. ASSUME NEW s \in Setting, NEW g \in [Procs -> 0..9]
      PROVE  LET q == [s EXCEPT !.starts = g]
             IN q \in Setting /\ q.text = s.text /\ q.pdf = s.pdf /\ q.size = s.size /\ q.policy = s.policy
  BY DEF Setting
<1> HIDE DEF f
<1> QED BY <1>2, <1>3, <1>4 DEF SettingOK, SameSetting

\* A crash, and a start with another model.
LEMMA CrashUsed ==
  ASSUME SettingOK,
         \/ setting.crashes > 0 /\ setting' = [setting EXCEPT !.crashes = @ - 1]
         \/ setting' = [setting EXCEPT !.respace = FALSE]
  PROVE  SameSetting
<1>1. CASE setting.crashes > 0 /\ setting' = [setting EXCEPT !.crashes = @ - 1]
  <2>1. setting.crashes \in 0..2
    BY DEF SettingOK, Setting
  <2>2. setting.crashes - 1 \in 0..2
    BY <1>1, <2>1
  <2>3. ASSUME NEW s \in Setting, NEW n \in 0..2
        PROVE  LET q == [s EXCEPT !.crashes = n]
               IN q \in Setting /\ q.text = s.text /\ q.pdf = s.pdf /\ q.size = s.size /\ q.policy = s.policy
    BY DEF Setting
  <2> QED BY <1>1, <2>2, <2>3 DEF SettingOK, SameSetting
<1>2. CASE setting' = [setting EXCEPT !.respace = FALSE]
  <2>1. ASSUME NEW s \in Setting
        PROVE  LET q == [s EXCEPT !.respace = FALSE]
               IN q \in Setting /\ q.text = s.text /\ q.pdf = s.pdf /\ q.size = s.size /\ q.policy = s.policy
    BY DEF Setting
  <2> QED BY <1>2, <2>1 DEF SettingOK, SameSetting
<1> QED BY <1>1, <1>2

-----------------------------------------------------------------------------
(* The pages of a PDF.                                                     *)

\* The thread goes on within the storing of a page, the reading of the batch or
\* the indexing of an image.
LEMMA PagesGo ==
  ASSUME NEW pdf, NEW size, NEW r, NEW s, Pages(r, pdf, size),
         s.page = r.page, s.batch = r.batch, s.item = r.item, s.made = r.made, s.results = r.results,
         s.image = r.image,
         \/ r.stage \in Storing /\ s.stage \in Storing
         \/ r.stage = "batch" /\ s.stage = "embed"
         \/ r.stage \in Inside /\ s.stage \in Inside
  PROVE  Pages(s, pdf, size)
<1>1. r.stage # "save" /\ s.stage # "save"
  BY DEF Storing, Inside
<1>2. Left(s) = Left(r)
  BY <1>1 DEF Left
<1> QED BY <1>2 DEF Pages, Storing, Inside

\* A page is taken from its checkpoint.
LEMMA PagesReuse ==
  ASSUME NEW pdf, NEW size, NEW r \in RunState, NEW s \in RunState, Pages(r, pdf, size), r.stage = "page",
         NEW x, x.page = r.page, r.page <= Len(pdf), x.image = pdf[r.page],
         s.page = r.page + 1, s.batch = r.batch, s.item = r.item, s.made = r.made,
         s.results = r.results \cup {x}, s.stage = "page"
  PROVE  Pages(s, pdf, size)
<1>1. /\ r.page \in Nat /\ Len(r.batch) \in Nat /\ (\A k \in 1..Len(r.batch) : r.batch[k] \in 1..MaxPages)
      /\ MaxPages \in Nat /\ \A y \in r.results : y.page \in Nat
  BY RowNumbers
<1>2. Left(r) = 1..Len(r.batch) /\ Left(s) = 1..Len(r.batch)
  BY DEF Left
<1>3. \A k \in 1..Len(s.batch) : s.batch[k] < s.page /\ s.batch[k] <= Len(pdf)
  BY <1>1 DEF Pages
<1>4. \A y \in s.results : y.page < s.page /\ y.page <= Len(pdf) /\ y.image = pdf[y.page]
  BY <1>1 DEF Pages
<1>5. \A y, z \in s.results : y.page = z.page => y = z
  BY <1>1 DEF Pages
<1>6. \A y \in s.results, k \in Left(s) : y.page # s.batch[k]
  BY <1>1, <1>2 DEF Pages
<1>7. ASSUME NEW n \in 1..s.page - 1
      PROVE  (\E y \in s.results : y.page = n) \/ \E k \in Left(s) : s.batch[k] = n
  <2>1. CASE n = r.page
    BY <2>1
  <2>2. CASE n # r.page
    <3>1. n \in 1..r.page - 1
      BY <1>1, <2>2
    <3>2. (\E y \in r.results : y.page = n) \/ \E k \in Left(r) : r.batch[k] = n
      BY <3>1 DEF Pages
    <3> QED BY <1>2, <3>2
  <2> QED BY <2>1, <2>2
<1> QED BY <1>3, <1>4, <1>5, <1>6, <1>7 DEF Pages, Storing, Inside

\* A page is to be stored, or there is none left.
LEMMA PagesLeave ==
  ASSUME NEW pdf, NEW size, NEW r \in RunState, NEW s, Pages(r, pdf, size), Len(pdf) \in Nat, r.stage = "page",
         s.page = r.page, s.batch = r.batch, s.item = r.item, s.made = r.made, s.results = r.results,
         \/ s.stage = "store" /\ r.page <= Len(pdf) /\ s.image = pdf[r.page]
         \/ s.stage = "batch" /\ r.batch # << >>
         \/ s.stage = "report" /\ r.batch = << >> /\ r.page > Len(pdf)
  PROVE  Pages(s, pdf, size)
<1>1. Left(s) = Left(r)
  BY DEF Left
<1>2. r.batch # << >> => 1 \in 1..Len(r.batch)
  <2>1. Len(r.batch) \in Nat /\ r.batch \in Seq(1..MaxPages)
    BY RowParts, RowNumbers
  <2> QED BY <2>1, EmptySeq
<1> QED BY <1>1, <1>2 DEF Pages, Storing, Inside

\* A page that is stored joins the batch.
LEMMA PagesStored ==
  ASSUME NEW pdf, NEW size \in Nat, NEW r \in RunState, NEW s, Pages(r, pdf, size), Len(pdf) \in Nat,
         Len(pdf) <= MaxPages, r.stage \in Storing,
         s.page = r.page + 1, s.batch = Append(r.batch, r.page), s.item = r.item, s.made = r.made,
         s.results = r.results,
         s.stage = IF Len(s.batch) = size THEN "batch" ELSE "page"
  PROVE  Pages(s, pdf, size)
<1>1. /\ r.page \in Nat /\ Len(r.batch) \in Nat /\ (\A k \in 1..Len(r.batch) : r.batch[k] \in 1..MaxPages)
      /\ MaxPages \in Nat /\ \A y \in r.results : y.page \in Nat
  BY RowNumbers
<1>2. r.batch \in Seq(1..MaxPages) /\ r.page \in 1..MaxPages /\ r.page <= Len(pdf)
  BY <1>1, RowParts DEF Pages
<1>3. /\ Len(s.batch) = Len(r.batch) + 1
      /\ \A k \in 1..Len(r.batch) : s.batch[k] = r.batch[k]
      /\ s.batch[Len(r.batch) + 1] = r.page
  BY <1>2, AppendProperties
<1>4. Left(r) = 1..Len(r.batch) /\ Left(s) = 1..Len(r.batch) + 1
  BY <1>3 DEF Left, Storing
<1>5. \A k \in 1..Len(s.batch) : k = Len(r.batch) + 1 \/ k \in 1..Len(r.batch)
  BY <1>1, <1>3
<1>6. Len(s.batch) <= size
  BY <1>1, <1>3 DEF Pages
<1>7. \A k \in 1..Len(s.batch) : s.batch[k] < s.page /\ s.batch[k] <= Len(pdf)
  BY <1>1, <1>2, <1>3, <1>5 DEF Pages
<1>8. \A k, l \in 1..Len(s.batch) : s.batch[k] = s.batch[l] => k = l
  <2>1. \A k \in 1..Len(r.batch) : r.batch[k] # r.page
    BY <1>1 DEF Pages
  <2> QED BY <1>3, <1>5, <2>1 DEF Pages
<1>9. s.made = << >> /\ Len(s.made) = 0 /\ s.item = 1
  BY EmptySeq DEF Pages
<1>10. \A y \in s.results : y.page < s.page /\ y.page <= Len(pdf) /\ y.image = pdf[y.page]
  BY <1>1 DEF Pages
<1>11. \A y \in s.results, k \in Left(s) : y.page # s.batch[k]
  <2>1. \A y \in r.results : y.page # r.page
    BY <1>1 DEF Pages
  <2> QED BY <1>1, <1>3, <1>4, <1>5, <2>1 DEF Pages
<1>12. ASSUME NEW n \in 1..s.page - 1
       PROVE  (\E y \in s.results : y.page = n) \/ \E k \in Left(s) : s.batch[k] = n
  <2>1. CASE n = r.page
    <3>1. Len(r.batch) + 1 \in Left(s)
      BY <1>1, <1>4
    <3> QED BY <1>3, <2>1, <3>1
  <2>2. CASE n # r.page
    <3>1. n \in 1..r.page - 1
      BY <1>1, <2>2
    <3>2. (\E y \in r.results : y.page = n) \/ \E k \in Left(r) : r.batch[k] = n
      BY <3>1 DEF Pages
    <3>3. \A k \in Left(r) : k \in Left(s) /\ s.batch[k] = r.batch[k]
      BY <1>1, <1>3, <1>4
    <3> QED BY <3>2, <3>3
  <2> QED BY <2>1, <2>2
<1>13. \A y, z \in s.results : y.page = z.page => y = z
  BY DEF Pages
<1>14. s.stage = "page" => Len(s.batch) < size
  BY <1>1, <1>3, <1>6
<1>15. s.stage = "batch" => s.item \in 1..Len(s.batch)
  BY <1>1, <1>3, <1>9
<1>16. s.stage \in {"batch", "page"}
  OBVIOUS
<1>17. Len(s.made) <= Len(s.batch) /\ \A k \in 1..Len(s.made) : s.made[k].image = pdf[s.batch[k]]
  BY <1>1, <1>3, <1>9
<1>18. s.stage \notin Storing \cup Inside \cup {"save", "report", "embed"}
  BY <1>16 DEF Storing, Inside
<1> HIDE DEF Left
<1> QED BY <1>6, <1>7, <1>8, <1>9, <1>10, <1>11, <1>12, <1>13, <1>14, <1>15, <1>16, <1>17, <1>18
        DEF Pages

\* The batch has been read, and its images are indexed one after the other.
LEMMA PagesEmbedded ==
  ASSUME NEW pdf, NEW size, NEW r \in RunState, NEW s, Pages(r, pdf, size), r.stage = "embed",
         s.page = r.page, s.batch = r.batch, s.item = 1, s.made = r.made, s.results = r.results,
         s.stage = "check", s.image = pdf[r.batch[1]]
  PROVE  Pages(s, pdf, size)
<1>1. Left(s) = Left(r)
  BY DEF Left
<1>2. Len(r.batch) \in Nat /\ r.item \in Nat
  BY RowNumbers
<1>3. 1 \in 1..Len(r.batch) /\ r.made = << >> /\ Len(r.made) = 0
  BY <1>2, EmptySeq DEF Pages
<1> QED BY <1>1, <1>3 DEF Pages, Storing, Inside

\* An image of the batch is indexed, or not.
LEMMA PagesReturned ==
  ASSUME NEW pdf, NEW size, NEW r \in RunState, NEW s, NEW x \in Result, Pages(r, pdf, size), r.stage \in Inside,
         x.image = r.image, s.page = r.page, s.batch = r.batch, s.made = Append(r.made, x), s.results = r.results,
         IF r.item = Len(r.batch)
         THEN s.item = 1 /\ s.stage = "save"
         ELSE s.item = r.item + 1 /\ s.image = pdf[r.batch[r.item + 1]] /\ s.stage = "check"
  PROVE  Pages(s, pdf, size)
<1>1. r.made \in Seq(Result) /\ Len(r.made) \in Nat /\ Len(r.batch) \in Nat /\ r.item \in Nat
  BY RowParts, RowNumbers
<1>2. r.item \in 1..Len(r.batch) /\ r.image = pdf[r.batch[r.item]] /\ Len(r.made) = r.item - 1
  BY DEF Pages
<1>3. /\ Len(s.made) = r.item
      /\ \A k \in 1..Len(r.made) : s.made[k] = r.made[k]
      /\ s.made[r.item] = x
  BY <1>1, <1>2, AppendProperties
<1>4. \A k \in 1..Len(s.made) : k = r.item \/ k \in 1..Len(r.made)
  BY <1>1, <1>2, <1>3
<1>5. \A k \in 1..Len(s.made) : s.made[k].image = pdf[s.batch[k]]
  BY <1>2, <1>3, <1>4 DEF Pages
<1>6. Left(r) = 1..Len(r.batch) /\ Left(s) = 1..Len(r.batch)
  BY DEF Left, Inside
<1>7. Len(s.made) <= Len(s.batch)
  BY <1>1, <1>2, <1>3
<1>8. CASE r.item = Len(r.batch)
  <2>1. s.item \in 1..Len(s.batch) /\ Len(s.made) = Len(s.batch) /\ s.stage = "save"
    BY <1>1, <1>2, <1>3, <1>8
  <2> QED BY <1>5, <1>6, <1>7, <2>1 DEF Pages, Storing, Inside
<1>9. CASE r.item # Len(r.batch)
  <2>1. s.item \in 1..Len(s.batch) /\ Len(s.made) = s.item - 1 /\ s.stage = "check"
    BY <1>1, <1>2, <1>3, <1>9
  <2>2. s.image = pdf[s.batch[s.item]]
    BY <1>9
  <2> QED BY <1>5, <1>6, <1>7, <2>1, <2>2 DEF Pages, Storing, Inside
<1> QED BY <1>8, <1>9

\* The result of the next image of the batch is saved; after the last one the
\* next pages are looked at.
LEMMA PagesSaved ==
  ASSUME NEW pdf, NEW size \in Nat \ {0}, NEW r \in RunState, NEW s, NEW x, Pages(r, pdf, size), r.stage = "save",
         x.page = r.batch[r.item], x.image = r.made[r.item].image,
         s.page = r.page, s.results = r.results \cup {x},
         IF r.item = Len(r.batch)
         THEN s.item = 1 /\ s.stage = "page" /\ s.batch = << >> /\ s.made = << >>
         ELSE s.item = r.item + 1 /\ s.stage = "save" /\ s.batch = r.batch /\ s.made = r.made
  PROVE  Pages(s, pdf, size)
<1>1. /\ r.page \in Nat /\ Len(r.batch) \in Nat /\ (\A k \in 1..Len(r.batch) : r.batch[k] \in 1..MaxPages)
      /\ MaxPages \in Nat /\ (\A y \in r.results : y.page \in Nat) /\ r.item \in Nat
  BY RowNumbers
<1>2. r.item \in 1..Len(r.batch) /\ Len(r.made) = Len(r.batch) /\ Left(r) = r.item..Len(r.batch)
  BY DEF Pages, Left
<1>3. x.page < r.page /\ x.page <= Len(pdf) /\ x.image = pdf[x.page] /\ x.page \in Nat
  BY <1>1, <1>2 DEF Pages
<1>4. \A y \in s.results : y.page < s.page /\ y.page <= Len(pdf) /\ y.image = pdf[y.page]
  BY <1>3 DEF Pages
<1>5. \A y, z \in s.results : y.page = z.page => y = z
  <2>1. r.item \in Left(r)
    BY <1>1, <1>2
  <2>2. \A y \in r.results : y.page # x.page
    BY <2>1 DEF Pages
  <2> QED BY <2>2 DEF Pages
<1>6. CASE r.item = Len(r.batch)
  <2>1. Left(s) = {} /\ Len(s.batch) = 0 /\ Len(s.made) = 0
    BY <1>6, EmptySeq DEF Left
  <2>2. ASSUME NEW n \in 1..s.page - 1 PROVE \E y \in s.results : y.page = n
    <3>1. (\E y \in r.results : y.page = n) \/ \E k \in Left(r) : r.batch[k] = n
      BY DEF Pages
    <3>2. \A k \in Left(r) : k = r.item
      BY <1>1, <1>2, <1>6
    <3> QED BY <3>1, <3>2
  <2>3. s.stage = "page" /\ s.item = 1 /\ s.made = << >>
    BY <1>6
  <2> HIDE DEF Left
  <2> QED BY <1>4, <1>5, <2>1, <2>2, <2>3 DEF Pages, Storing, Inside
<1>7. CASE r.item # Len(r.batch)
  <2>1. s.item \in 1..Len(r.batch) /\ s.stage = "save" /\ s.batch = r.batch /\ s.made = r.made /\ s.item = r.item + 1
    BY <1>1, <1>2, <1>7
  <2>2. Left(s) = r.item + 1..Len(r.batch)
    BY <2>1 DEF Left
  <2>3. \A k \in Left(r) : k = r.item \/ k \in Left(s)
    BY <1>1, <1>2, <2>2
  <2>4. \A k \in Left(s) : k \in Left(r) /\ k # r.item /\ k \in 1..Len(r.batch)
    BY <1>1, <1>2, <2>2
  <2>5. ASSUME NEW n \in 1..s.page - 1
        PROVE  (\E y \in s.results : y.page = n) \/ \E k \in Left(s) : s.batch[k] = n
    <3>1. (\E y \in r.results : y.page = n) \/ \E k \in Left(r) : r.batch[k] = n
      BY DEF Pages
    <3> QED BY <2>1, <2>3, <3>1
  <2>6. ASSUME NEW y \in s.results, NEW k \in Left(s) PROVE y.page # s.batch[k]
    <3>1. CASE y = x
      BY <1>2, <2>1, <2>4, <3>1 DEF Pages
    <3>2. CASE y \in r.results
      BY <2>1, <2>4, <3>2 DEF Pages
    <3> QED BY <3>1, <3>2
  <2>7. /\ Len(s.batch) <= size
        /\ \A k \in 1..Len(s.batch) : s.batch[k] < s.page /\ s.batch[k] <= Len(pdf)
        /\ \A k, l \in 1..Len(s.batch) : s.batch[k] = s.batch[l] => k = l
        /\ Len(s.made) <= Len(s.batch) /\ \A k \in 1..Len(s.made) : s.made[k].image = pdf[s.batch[k]]
        /\ Len(s.made) = Len(s.batch)
    BY <1>1, <1>2, <2>1 DEF Pages
  <2> HIDE DEF Left
  <2> QED BY <1>4, <1>5, <2>1, <2>5, <2>6, <2>7 DEF Pages, Storing, Inside
<1> QED BY <1>6, <1>7

-----------------------------------------------------------------------------
(* What stays when a thread steps.                                         *)

\* A step that deletes nothing.
Grows ==
  /\ SameSetting /\ raced \subseteq raced' /\ Known \subseteq Known' /\ files \subseteq files'
  /\ \A i \in Images : index[i] \subseteq index'[i]

\* An image that is indexed stays so.
LEMMA WholeStays ==
  ASSUME Grows, NEW i, Whole(i)
  PROVE  Whole(i)'
<1>1. i \in Images /\ i \in Known' /\ setting'.text = setting.text
  BY DEF Whole, Known, Grows, SameSetting
<1>2. index[i] \subseteq index'[i]
  BY <1>1 DEF Grows
<1> QED BY <1>1, <1>2 DEF Whole, HasText, Text

\* What was told stays true.
LEMMA ToldStays ==
  ASSUME Grows, NEW p \in Procs, ToldOK(p), run'[p].lost = run[p].lost,
         run'[p].results = run[p].results, run'[p].made = run[p].made
  PROVE  ToldOK(p)'
<1>1. Told(p)' = Told(p)
  BY DEF Told
<1>2. ASSUME NEW x \in Told(p), x.status = "success", x.image \notin run[p].lost \cup raced'
      PROVE  Whole(x.image)'
  <2>1. x.image \notin raced
    BY <1>2 DEF Grows
  <2>2. Whole(x.image)
    BY <1>2, <2>1 DEF ToldOK
  <2> PICK i : i = x.image
    OBVIOUS
  <2> QED BY <2>2, WholeStays
<1> QED BY <1>1, <1>2 DEF ToldOK

\* What is told in addition has to be true.
LEMMA ToldMore ==
  ASSUME Grows, NEW p \in Procs, ToldOK(p), run'[p].lost = run[p].lost, NEW x, NEW i, i = x.image,
         \A y \in Told(p)' : y = x \/ y \in Told(p),
         x.status = "success" /\ i \notin run[p].lost \cup raced' => Whole(i)'
  PROVE  ToldOK(p)'
<1>1. ASSUME NEW y \in Told(p), y.status = "success", y.image \notin run[p].lost \cup raced'
      PROVE  Whole(y.image)'
  <2>1. y.image \notin raced
    BY <1>1 DEF Grows
  <2>2. Whole(y.image)
    BY <1>1, <2>1 DEF ToldOK
  <2> PICK j : j = y.image
    OBVIOUS
  <2> QED BY <2>2, WholeStays
<1> QED BY <1>1 DEF ToldOK

\* A thread that tells nothing.
LEMMA ToldNothing ==
  ASSUME NEW p \in Procs, run'[p].results = {}, run'[p].made = << >>
  PROVE  ToldOK(p)'
BY EmptySeq DEF ToldOK, Told

\* A thread that does nothing has no duties.
LEMMA IdleOK ==
  ASSUME NEW p \in Procs, run'[p] = Idle
  PROVE  ThreadOK(p)'
<1>1. /\ run'[p].work = "none" /\ run'[p].stage = "idle" /\ run'[p].results = {} /\ run'[p].made = << >>
  BY DEF Idle
<1>2. RoleOK(p)'
  BY <1>1 DEF RoleOK, Role, Storing, Inside
<1>3. PagesOK(p)'
  BY <1>1 DEF PagesOK, Single
<1>4. ToldOK(p)'
  BY <1>1, ToldNothing
<1>5. HoldOK(p)'
  BY <1>1 DEF HoldOK, Inside
<1> QED BY <1>2, <1>3, <1>4, <1>5 DEF ThreadOK

\* What is stored of an image stays so.
LEMMA HasStays ==
  ASSUME Grows, NEW stage, NEW flag, NEW i
  PROVE  Has(stage, flag, i)' = Has(stage, flag, i)
BY DEF Has, HasText, Text, Grows, SameSetting

\* Before its first chunk is written nothing need be there.
LEMMA HasNothing ==
  ASSUME NEW stage \in {"check", "ocr", "chunk"}, NEW flag, NEW i
  PROVE  Has(stage, flag, i) = {}
BY DEF Has, Refilling

\* The duties of a thread do not depend on what others store.
LEMMA HoldStays ==
  ASSUME Grows, NEW p \in Procs, RoleOK(p), HoldOK(p), run'[p] = run[p]
  PROVE  HoldOK(p)'
<1>1. setting'.text = setting.text /\ setting'.pdf = setting.pdf
  BY DEF Grows, SameSetting
<1>2. run[p].stage \in {"insert"} \cup Inside => index[run[p].image] \subseteq index'[run[p].image]
  BY DEF Grows, RoleOK, Role, Storing
<1>3. Has(run[p].stage, run[p].flag, run[p].image)' = Has(run[p].stage, run[p].flag, run[p].image)
  BY HasStays DEF Grows, SameSetting
<1> QED BY <1>1, <1>2, <1>3 DEF HoldOK, Grows, Inside

\* A thread that does not move keeps its part of the invariant.
LEMMA ThreadStays ==
  ASSUME Grows, NEW p \in Procs, ThreadOK(p), run'[p] = run[p]
  PROVE  ThreadOK(p)'
<1>1. RoleOK(p)'
  BY DEF ThreadOK, RoleOK, Role
<1>2. PagesOK(p)'
  <2>1. setting'.pdf = setting.pdf /\ setting'.size = setting.size
    BY DEF Grows, SameSetting
  <2>2. CASE run[p].work = "pdf"
    <3>1. Pages(run'[p], setting'.pdf, setting'.size)
      BY <2>1, <2>2 DEF ThreadOK, PagesOK
    <3> QED BY <2>2, <3>1 DEF PagesOK, Pages, Left
  <2>3. CASE run[p].work # "pdf"
    BY <2>3 DEF ThreadOK, PagesOK, Single
  <2> QED BY <2>2, <2>3
<1>3. ToldOK(p)' /\ HoldOK(p)'
  BY ToldStays, HoldStays DEF ThreadOK
<1> QED BY <1>1, <1>2, <1>3 DEF ThreadOK

\* What another thread does leaves the thread with the lock as it is, if it goes
\* on only with images it has looked up.
LEMMA OpStays ==
  ASSUME Inv, Grows, NEW p \in Procs, p # "op", \A q \in Procs : q # p => run'[q] = run[q], memory' = memory,
         Sensitive \subseteq Sensitive',
         \A i \in Images \ raced' :
           /\ Touches(p, i) \/ (index'[i] = index[i] /\ (i \in Known' => i \in Known))
           /\ Touches(p, i)' => Touches(p, i) \/ ~Deleting(i)
  PROVE  OpOK'
<1>1. /\ run'["op"] = run["op"] /\ setting'.pdf = setting.pdf /\ setting'.policy = setting.policy
      /\ Known \subseteq Known' /\ raced \subseteq raced' /\ "op" \in Procs
  BY DEF Grows, SameSetting, Procs
<1>2. OpOK /\ RoleOK("op")
  BY DEF Inv, ThreadOK, Procs
<1>3. ASSUME NEW i, i = run["op"].image, run["op"].stage \in {"remove", "unlink"}, i \notin raced'
      PROVE  /\ index'[i] = {} /\ \A q \in Procs \ {"op"} : ~Touches(q, i)'
             /\ run["op"].stage = "unlink" => i \notin Known'
  <2>1. run["op"].work = "delete" /\ i \in Images /\ i \notin raced
    BY <1>1, <1>2, <1>3 DEF RoleOK, Role, Storing, Inside
  <2>2. Deleting(i)
    BY <1>1, <1>3, <2>1 DEF Deleting
  <2>3. index[i] = {} /\ (\A q \in Procs \ {"op"} : ~Touches(q, i)) /\ (run["op"].stage = "unlink" => i \notin Known)
    BY <1>2, <1>3, <2>1 DEF OpOK
  <2>4. ~Touches(p, i) /\ ~Touches(p, i)' /\ index'[i] = {} /\ (i \in Known' => i \in Known)
    BY <1>3, <2>1, <2>2, <2>3
  <2>5. ASSUME NEW q \in Procs \ {"op"} PROVE ~Touches(q, i)'
    <3>1. CASE q = p
      BY <2>4, <3>1
    <3>2. CASE q # p
      <4>1. run'[q] = run[q] /\ ~Touches(q, i)
        BY <2>3, <3>2
      <4> QED BY <1>1, <4>1 DEF Touches
    <3> QED BY <3>1, <3>2
  <2> QED BY <2>3, <2>4, <2>5
<1>4. /\ run["op"].stage = "forget" =>
           \A f \in Facts : run["op"].image \in f /\ memory'[f] \in Live => f \in run["op"].todo
      /\ run["op"].stage \in {"drop", "remove", "unlink"} =>
           \A f \in Facts : run["op"].image \in f => memory'[f] \notin Live
      /\ run["op"].work \in {"remember", "approve"} /\ run["op"].stage # "load" =>
           run["op"].refs \subseteq Known' /\ run["op"].refs \cap run["op"].start \subseteq run["op"].seen
      /\ run["op"].work \notin {"none", "delete"} => run["op"].start \subseteq Sensitive'
  BY <1>1, <1>2 DEF OpOK
<1>5. /\ run["op"].stage = "activate" => run["op"].refs \cap run["op"].start = {}
      /\ run["op"].stage = "ask" => ~run["op"].flag
      /\ run["op"].stage = "enforce" /\ run["op"].flag => Worded(run["op"])
      /\ run["op"].stage = "send" => \/ run["op"].refs \cap run["op"].start = {}
                                     \/ setting'.policy = "allow"
                                     \/ (setting'.policy = "confirm" /\ run["op"].flag /\ Worded(run["op"]))
  BY <1>1, <1>2 DEF OpOK
<1> QED BY <1>1, <1>3, <1>4, <1>5 DEF OpOK, Worded

\* A thread gets a row.
LEMMA RunMoves ==
  ASSUME RunOK, NEW p \in Procs, NEW row \in RunState, run' = [run EXCEPT ![p] = row]
  PROVE  RunOK' /\ run'[p] = row /\ \A q \in Procs : q # p => run'[q] = run[q]
BY DEF RunOK

\* A step of a thread that deletes nothing gives the invariant from what it makes
\* of its thread and of the stores.
LEMMA GrowStep ==
  ASSUME Inv, Grows, StoreTypes', StoresOK', RunOK', NEW p \in Procs, \A q \in Procs : q # p => run'[q] = run[q],
         ThreadOK(p)',
         IF p = "op" THEN OpOK'
         ELSE /\ memory' = memory /\ Sensitive \subseteq Sensitive'
              /\ \A i \in Images \ raced' :
                   /\ Touches(p, i) \/ (index'[i] = index[i] /\ (i \in Known' => i \in Known))
                   /\ Touches(p, i)' => Touches(p, i) \/ ~Deleting(i)
  PROVE  Inv'
<1>1. ASSUME NEW q \in Procs PROVE ThreadOK(q)'
  BY ThreadStays DEF Inv
<1>2. OpOK'
  BY OpStays
<1>3. SettingOK'
  BY DEF Grows, SameSetting, SettingOK
<1> QED BY <1>1, <1>2, <1>3 DEF Inv

\* Nothing is stored.
Quiet == SameSetting /\ UNCHANGED stored /\ raced \subseteq raced' /\ raced' \subseteq Images

\* Then no store and no duty of another thread changes.
LEMMA QuietGrows ==
  ASSUME Inv, Quiet, permission' \subseteq Permissions, visionUp' \in BOOLEAN
  PROVE  Grows /\ StoreTypes' /\ StoresOK' /\ Known' = Known /\ Sensitive' = Sensitive /\ memory' = memory
         /\ index' = index /\ files' = files
<1>1. /\ assets' = assets /\ files' = files /\ index' = index /\ saved' = saved /\ memory' = memory /\ torn' = torn
      /\ setting'.text = setting.text /\ setting'.pdf = setting.pdf
  BY DEF Quiet, stored, SameSetting
<1>2. Known' = Known /\ Sensitive' = Sensitive
  BY <1>1 DEF Known, Sensitive
<1>3. Grows
  BY <1>1, <1>2 DEF Grows, Quiet
<1>4. StoreTypes'
  BY <1>1 DEF Inv, StoreTypes, Quiet, Works, Permissions
<1>5. StoresOK'
  BY <1>1, <1>2 DEF Inv, StoresOK, Quiet, HasText, Text
<1> QED BY <1>1, <1>2, <1>3, <1>4, <1>5

\* The permissions that are asked for.
LEMMA PermissionType ==
  ASSUME Inv
  PROVE  permission \subseteq Permissions
BY DEF Inv, StoreTypes, StoresOK

\* A step of a thread that stores nothing.
LEMMA QuietStep ==
  ASSUME Inv, Quiet, permission' \subseteq Permissions, visionUp' \in BOOLEAN,
         NEW p \in Procs, RunOK', \A q \in Procs : q # p => run'[q] = run[q], ThreadOK(p)',
         IF p = "op" THEN OpOK'
         ELSE \A i \in Images \ raced' : Touches(p, i)' => Touches(p, i) \/ ~Deleting(i)
  PROVE  Inv'
<1>1. Grows /\ StoreTypes' /\ StoresOK' /\ Known' = Known /\ Sensitive' = Sensitive /\ memory' = memory
         /\ index' = index
  BY QuietGrows
<1> QED BY <1>1, GrowStep

\* Nothing is read or made yet.
Fresh(r) == r.page = 1 /\ r.batch = << >> /\ r.item = 1 /\ r.made = << >> /\ r.results = {}

\* A thread that rests.
LEMMA IdleFresh == Idle \in RunState /\ Fresh(Idle)
<1>1. << >> \in Seq(Result) /\ << >> \in Seq(1..MaxPages) /\ 1 \in 1..MaxPages + 1 /\ 1 \in 1..MaxPages
  BY EmptySeq, MediaAssumption
<1>2. Idle \in RunState
  BY <1>1 DEF Idle, RunState, Works, Stages, Levels
<1> QED BY <1>2 DEF Idle, Fresh

\* A thread ends, with a value or an exception.
LEMMA EndStep ==
  ASSUME Inv, Quiet, permission' \subseteq Permissions, visionUp' \in BOOLEAN,
         NEW p \in Procs, End(p)
  PROVE  Inv'
<1>1. Idle \in RunState
  BY IdleFresh
<1>2. RunOK' /\ run'[p] = Idle /\ \A q \in Procs : q # p => run'[q] = run[q]
  BY <1>1, RunMoves DEF Inv, End
<1>3. ThreadOK(p)'
  BY <1>2, IdleOK
<1>4. p = "op" => OpOK'
  BY <1>2 DEF OpOK, Idle
<1>5. \A i : ~Touches(p, i)'
  BY <1>2 DEF Touches, Idle, Inside
<1> QED BY <1>2, <1>3, <1>4, <1>5, QuietStep

-----------------------------------------------------------------------------
(* What is asked of the threads.                                           *)

\* A thread that begins.
LEMMA StartStep ==
  ASSUME Inv, Quiet, permission' \subseteq permission, UNCHANGED <<visionUp, raced>>, NEW p \in Procs,
         NEW row \in RunState, row.stage \in {"store", "page", "load", "refs", "ask", "search", "enforce"},
         Role(p, row), Fresh(row), row.start \subseteq Sensitive, row.work = "pdf" => row.stage = "page",
         row.stage = "ask" => ~row.flag, row.stage = "enforce" => Worded(row),
         row.work \in {"remember", "approve"} => row.stage = "load", run' = [run EXCEPT ![p] = row]
  PROVE  Inv'
<1>1. RunOK' /\ run'[p] = row /\ \A q \in Procs : q # p => run'[q] = run[q]
  BY RunMoves DEF Inv
<1>2. Len(<< >>) = 0 /\ setting.size \in Nat /\ setting.size > 0 /\ setting'.size = setting.size
      /\ Sensitive' = Sensitive
  <2>1. setting.size \in 1..MaxPages /\ MaxPages \in Nat
    BY SettingFacts, MediaAssumption DEF Inv
  <2>2. assets' = assets
    BY DEF Quiet, stored
  <2> QED BY <2>1, <2>2, EmptySeq DEF Quiet, SameSetting, Sensitive
<1>3. ThreadOK(p)'
  <2>1. RoleOK(p)'
    BY <1>1 DEF RoleOK, Role
  <2>2. PagesOK(p)'
    <3>1. CASE row.work = "pdf"
      BY <1>1, <1>2, <3>1 DEF PagesOK, Pages, Left, Storing, Inside, Fresh
    <3>2. CASE row.work # "pdf"
      BY <1>1, <3>2 DEF PagesOK, Single, Fresh
    <3> QED BY <3>1, <3>2
  <2>3. ToldOK(p)'
    BY <1>1, ToldNothing DEF Fresh
  <2>4. HoldOK(p)'
    BY <1>1, <1>2 DEF HoldOK, Inside, Fresh
  <2> QED BY <2>1, <2>2, <2>3, <2>4 DEF ThreadOK
<1>4. p = "op" => OpOK'
  BY <1>1, <1>2 DEF OpOK
<1>5. \A j : ~Touches(p, j)'
  BY <1>1, <1>2 DEF Touches, Inside, Fresh
<1>6. permission' \subseteq Permissions /\ visionUp' \in BOOLEAN
  BY PermissionType DEF Inv, StoreTypes
<1> QED BY <1>1, <1>3, <1>4, <1>5, <1>6, QuietStep

\* The starts of the three threads.
LEMMA BeginStep ==
  ASSUME Inv, NEW p \in Procs, NEW work \in Works, NEW r \in RunState, Fresh(r),
         r.stage \in {"store", "page", "load", "refs", "ask", "search"},
         \A row \in RunState : row.work = work /\ row.stage = r.stage /\ row.image = r.image /\ row.refs = r.refs
                               /\ row.todo = r.todo => Role(p, row),
         work = "pdf" => r.stage = "page", work \in {"remember", "approve"} => r.stage = "load",
         r.stage = "ask" => ~r.flag,
         Begin(p, work, r)
  PROVE  Inv'
<1>0. Sensitive \in SUBSET Images
  BY DEF Sensitive
<1> PICK row : row = [r EXCEPT !.work = work, !.start = Sensitive]
  OBVIOUS
<1>1. run' = [run EXCEPT ![p] = row]
  BY DEF Begin
<1>2. setting.starts[p] > 0 /\ setting' = [setting EXCEPT !.starts[p] = @ - 1]
  BY DEF Begin
<1>3. SameSetting
  BY <1>2, StartUsed DEF Inv
<1>4. Quiet /\ permission' \subseteq permission /\ UNCHANGED <<visionUp, raced>>
  BY <1>3 DEF Begin, Quiet, Inv, StoreTypes
<1>5. /\ row \in RunState /\ row.work = work /\ row.start = Sensitive /\ row.stage = r.stage /\ row.flag = r.flag
      /\ row.image = r.image /\ row.refs = r.refs /\ row.todo = r.todo /\ Fresh(row)
  <2> PICK start \in SUBSET Images : start = Sensitive
    BY <1>0
  <2>1. row = [r EXCEPT !.work = work, !.start = start]
    BY Zenon
  <2>2. /\ row \in RunState /\ row.work = work /\ row.start = start
        /\ row.stage = r.stage /\ row.image = r.image /\ row.refs = r.refs /\ row.todo = r.todo
        /\ row.level = r.level /\ row.flag = r.flag /\ (Fresh(r) => Fresh(row))
    <3>1. row \in RunState /\ row.work = work /\ row.start = start /\ row.stage = r.stage
      BY <2>1 DEF RunState
    <3>2. row.image = r.image /\ row.refs = r.refs /\ row.todo = r.todo /\ row.level = r.level /\ row.flag = r.flag
      BY <2>1 DEF RunState
    <3>3. row.page = r.page /\ row.batch = r.batch /\ row.item = r.item /\ row.made = r.made
          /\ row.results = r.results
      BY <2>1 DEF RunState
    <3> QED BY <3>1, <3>2, <3>3 DEF Fresh
  <2> QED BY <2>2
<1>6. Role(p, row)
  BY <1>5
<1> QED BY <1>1, <1>4, <1>5, <1>6, StartStep

\* An index job, a PDF, an image that is attached.
LEMMA StartJobs ==
  ASSUME Inv, StartIndex \/ StartPdf \/ Attach
  PROVE  Inv'
<1>0. Idle \in RunState /\ Idle.page = 1 /\ Idle.batch = << >> /\ Idle.item = 1 /\ Idle.made = << >>
      /\ Idle.results = {}
      /\ Idle.todo = {}
  BY IdleFresh DEF Idle
<1>1. ASSUME NEW p \in {"worker", "op"}, NEW i \in Images,
             Begin(p, "index", [Idle EXCEPT !.stage = "store", !.image = i])
      PROVE  Inv'
  <2> PICK r : r = [Idle EXCEPT !.stage = "store", !.image = i]
    OBVIOUS
  <2>1. r \in RunState /\ r.stage = "store" /\ r.image = i
    BY <1>0, StageNames DEF RunState
  <2>2. Fresh(r)
    BY <1>0 DEF RunState, Fresh
  <2>3. p \in Procs /\ "index" \in Works
    BY DEF Procs, Works
  <2>4. \A row \in RunState : row.work = "index" /\ row.stage = r.stage /\ row.image = r.image /\ row.refs = r.refs
                              /\ row.todo = r.todo => Role(p, row)
    BY <2>1 DEF Role, Storing, Inside
  <2>5. Begin(p, "index", r)
    BY <1>1
  <2>6. r.stage \in {"store", "page", "load", "refs", "ask", "search"}
    BY <2>1
  <2> QED BY <2>1, <2>2, <2>3, <2>4, <2>5, <2>6, BeginStep
<1>2. ASSUME NEW i \in Images, NEW level \in setting.levels,
             Begin("ui", "attach", [Idle EXCEPT !.stage = "store", !.image = i, !.level = level])
      PROVE  Inv'
  <2> PICK r : r = [Idle EXCEPT !.stage = "store", !.image = i, !.level = level]
    OBVIOUS
  <2>0. "ui" \in Procs /\ "attach" \in Works /\ level \in Levels
    BY SettingFacts DEF Procs, Works, Inv
  <2>1. r \in RunState /\ r.stage = "store" /\ r.image = i
    BY <1>0, <2>0 DEF RunState, Stages
  <2>2. Fresh(r)
    BY <1>0 DEF RunState, Fresh
  <2>4. \A row \in RunState : row.work = "attach" /\ row.stage = r.stage /\ row.image = r.image /\ row.refs = r.refs
                              /\ row.todo = r.todo => Role("ui", row)
    BY <2>1 DEF Role, Storing, Inside
  <2>5. Begin("ui", "attach", r)
    BY <1>2
  <2>6. r.stage \in {"store", "page", "load", "refs", "ask", "search"}
    BY <2>1
  <2> QED BY <2>0, <2>1, <2>2, <2>4, <2>5, <2>6, BeginStep
<1>3. ASSUME Begin("worker", "pdf", [Idle EXCEPT !.stage = "page"])
      PROVE  Inv'
  <2> PICK r : r = [Idle EXCEPT !.stage = "page"]
    OBVIOUS
  <2>1. r \in RunState /\ r.stage = "page"
    BY <1>0 DEF RunState, Stages
  <2>2. Fresh(r)
    BY <1>0 DEF RunState, Fresh
  <2>3. "worker" \in Procs /\ "pdf" \in Works
    BY DEF Procs, Works
  <2>4. \A row \in RunState : row.work = "pdf" /\ row.stage = r.stage /\ row.image = r.image /\ row.refs = r.refs
                              /\ row.todo = r.todo => Role("worker", row)
    BY <2>1 DEF Role, Storing, Inside
  <2>5. Begin("worker", "pdf", r)
    BY <1>3
  <2>6. r.stage \in {"store", "page", "load", "refs", "ask", "search"}
    BY <2>1
  <2> QED BY <2>1, <2>2, <2>3, <2>4, <2>5, <2>6, BeginStep
<1> QED BY <1>1, <1>2, <1>3 DEF StartIndex, StartPdf, Attach

\* The operations of the agent.
LEMMA StartOps ==
  ASSUME Inv, StartRemember \/ StartApprove \/ StartAnswer \/ StartRecall \/ StartDelete
  PROVE  Inv'
<1>0. "op" \in Procs
  BY DEF Procs
<1>8. /\ setting.facts \subseteq Facts /\ setting.asks \subseteq Facts /\ Facts \subseteq SUBSET Images
      /\ setting.cascade \subseteq BOOLEAN /\ setting.queries \subseteq SUBSET Images
  <2>1. setting.cascade \subseteq BOOLEAN /\ setting.queries \subseteq SUBSET Images
    BY DEF Inv, SettingOK, Setting
  <2> QED BY <2>1, SettingFacts DEF Inv, Facts
<1>9. Idle \in RunState /\ Idle.page = 1 /\ Idle.batch = << >> /\ Idle.item = 1 /\ Idle.made = << >>
      /\ Idle.results = {} /\ Idle.flag = FALSE
      /\ Idle.todo = {}
  BY IdleFresh DEF Idle
<1>1. ASSUME NEW f \in Facts, NEW work \in {"remember", "approve"},
             Begin("op", work, [Idle EXCEPT !.stage = "load", !.refs = f])
      PROVE  Inv'
  <2> PICK r : r = [Idle EXCEPT !.stage = "load", !.refs = f]
    OBVIOUS
  <2>1. r \in RunState /\ r.stage = "load" /\ r.refs = f /\ r.todo = {}
    BY <1>8, <1>9, StageNames DEF RunState
  <2>2. Fresh(r)
    BY <1>8, <1>9 DEF RunState, Fresh
  <2>3. work \in Works /\ work # "pdf"
    BY DEF Works
  <2>4. \A row \in RunState : row.work = work /\ row.stage = r.stage /\ row.image = r.image /\ row.refs = r.refs
                              /\ row.todo = r.todo => Role("op", row)
    BY <2>1 DEF Role, Storing, Inside
  <2>5. Begin("op", work, r)
    BY <1>1
  <2>6. r.stage \in {"store", "page", "load", "refs", "ask", "search"}
    BY <2>1
  <2> QED BY <1>0, <2>1, <2>2, <2>3, <2>4, <2>5, <2>6, BeginStep
<1>2. ASSUME NEW f \in Facts, Begin("op", "answer", [Idle EXCEPT !.stage = "ask", !.refs = f])
      PROVE  Inv'
  <2> PICK r : r = [Idle EXCEPT !.stage = "ask", !.refs = f]
    OBVIOUS
  <2>1. r \in RunState /\ r.stage = "ask" /\ ~r.flag
    BY <1>8, <1>9, StageNames DEF RunState
  <2>2. Fresh(r)
    BY <1>8, <1>9 DEF RunState, Fresh
  <2>4. \A row \in RunState : row.work = "answer" /\ row.stage = r.stage /\ row.image = r.image /\ row.refs = r.refs
                              /\ row.todo = r.todo => Role("op", row)
    BY <2>1 DEF Role, Storing, Inside
  <2>3. "answer" \in Works
    BY DEF Works
  <2>5. Begin("op", "answer", r)
    BY <1>2
  <2>6. r.stage \in {"store", "page", "load", "refs", "ask", "search"}
    BY <2>1
  <2> QED BY <1>0, <2>1, <2>2, <2>3, <2>4, <2>5, <2>6, BeginStep
<1>3. ASSUME NEW words \in SUBSET Images, Begin("op", "recall", [Idle EXCEPT !.stage = "search", !.refs = words])
      PROVE  Inv'
  <2> PICK r : r = [Idle EXCEPT !.stage = "search", !.refs = words]
    OBVIOUS
  <2>1. r \in RunState /\ r.stage = "search"
    BY <1>8, <1>9, StageNames DEF RunState
  <2>2. Fresh(r)
    BY <1>8, <1>9 DEF RunState, Fresh
  <2>4. \A row \in RunState : row.work = "recall" /\ row.stage = r.stage /\ row.image = r.image /\ row.refs = r.refs
                              /\ row.todo = r.todo => Role("op", row)
    BY <2>1 DEF Role, Storing, Inside
  <2>3. "recall" \in Works
    BY DEF Works
  <2>5. Begin("op", "recall", r)
    BY <1>3
  <2>6. r.stage \in {"store", "page", "load", "refs", "ask", "search"}
    BY <2>1
  <2> QED BY <1>0, <2>1, <2>2, <2>3, <2>4, <2>5, <2>6, BeginStep
<1>4. ASSUME NEW i \in Images, NEW c \in setting.cascade,
             Begin("op", "delete", [Idle EXCEPT !.stage = "refs", !.image = i, !.flag = c])
      PROVE  Inv'
  <2> PICK r : r = [Idle EXCEPT !.stage = "refs", !.image = i, !.flag = c]
    OBVIOUS
  <2>0. c \in BOOLEAN
    BY <1>8
  <2>1. r \in RunState /\ r.stage = "refs" /\ r.image = i
    BY <1>9, <2>0, StageNames DEF RunState
  <2>2. Fresh(r)
    BY <1>9, <2>0 DEF RunState, Fresh
  <2>4. \A row \in RunState : row.work = "delete" /\ row.stage = r.stage /\ row.image = r.image /\ row.refs = r.refs
                              /\ row.todo = r.todo => Role("op", row)
    BY <2>1 DEF Role, Storing, Inside
  <2>3. "delete" \in Works
    BY DEF Works
  <2>5. Begin("op", "delete", r)
    BY <1>4
  <2>6. r.stage \in {"store", "page", "load", "refs", "ask", "search"}
    BY <2>1
  <2> QED BY <1>0, <2>1, <2>2, <2>3, <2>4, <2>5, <2>6, BeginStep
<1> QED BY <1>8, <1>1, <1>2, <1>3, <1>4 DEF StartRemember, StartApprove, StartAnswer, StartRecall, StartDelete

\* The user's word is given once.
LEMMA ConfirmStep ==
  ASSUME Inv, Confirm
  PROVE  Inv'
<1> PICK asked \in permission :
      /\ permission' = permission \ {asked}
      /\ run' = [run EXCEPT !["op"] =
           [Idle EXCEPT !.work = asked.work, !.refs = asked.refs, !.flag = TRUE, !.seen = asked.named,
                        !.start = asked.start \cap Sensitive,
                        !.stage = IF asked.work = "answer" THEN "enforce" ELSE "search"]]
      /\ UNCHANGED <<setting, stored, visionUp, raced>>
  BY DEF Confirm
<1>10. PICK stage : stage = IF asked.work = "answer" THEN "enforce" ELSE "search"
  OBVIOUS
<1>12. PICK start : start = asked.start \cap Sensitive
  OBVIOUS
<1>11. PICK row : row = [Idle EXCEPT !.work = asked.work, !.refs = asked.refs, !.flag = TRUE, !.seen = asked.named,
                        !.start = start, !.stage = stage]
  OBVIOUS
<1>1. /\ asked.work \in {"answer", "recall"} /\ asked.refs \in SUBSET Images /\ asked.named \in SUBSET Images
      /\ asked.start \in SUBSET Images
      /\ asked.work = "answer" => asked.refs \cap asked.start \subseteq asked.named
  BY PermissionType DEF Permissions
<1>2. run' = [run EXCEPT !["op"] = row]
  BY <1>10, <1>11, <1>12
<1>5. "op" \in Procs /\ asked.work \in Works /\ stage \in {"enforce", "search"} /\ stage \in Stages
      /\ start \in SUBSET Images /\ start \subseteq Sensitive
  BY <1>1, <1>10, <1>12 DEF Procs, Works, Stages, Sensitive
<1>6. Idle \in RunState /\ Idle.page = 1 /\ Idle.batch = << >> /\ Idle.item = 1 /\ Idle.made = << >>
      /\ Idle.results = {}
  BY IdleFresh DEF Idle
<1>8. /\ row \in RunState /\ row.work = asked.work /\ row.start = start /\ row.stage = stage /\ Fresh(row)
      /\ row.refs = asked.refs /\ row.seen = asked.named
  <2>6. PICK q : q = [Idle EXCEPT !.refs = asked.refs, !.flag = TRUE, !.stage = stage]
    OBVIOUS
  <2>1. q \in RunState /\ q.stage = stage /\ q.refs = asked.refs
    BY <1>1, <1>5, <1>6, <2>6 DEF RunState
  <2>2. q.page = Idle.page /\ q.batch = Idle.batch /\ q.item = Idle.item /\ q.made = Idle.made
        /\ q.results = Idle.results
    BY <1>1, <1>5, <1>6, <2>6 DEF RunState
  <2>3. row = [q EXCEPT !.work = asked.work, !.start = start, !.seen = asked.named]
    <3>1. Idle \in RunState
      BY <1>6
    <3> QED BY <3>1, <1>11, <2>6 DEF RunState
  <2>4. row \in RunState /\ row.work = asked.work /\ row.start = start /\ row.stage = q.stage
        /\ row.refs = q.refs /\ row.seen = asked.named
    <3> PICK named \in SUBSET Images, work \in Works : named = asked.named /\ work = asked.work
      BY <1>1, <1>5
    <3>1. row = [q EXCEPT !.work = work, !.start = start, !.seen = named]
      BY <2>3
    <3> QED BY <1>5, <2>1, <3>1 DEF RunState
  <2>5. row.page = q.page /\ row.batch = q.batch /\ row.item = q.item /\ row.made = q.made /\ row.results = q.results
    BY <2>1, <2>3 DEF RunState
  <2> QED BY <1>6, <2>1, <2>2, <2>4, <2>5 DEF Fresh
<1>3. Role("op", row)
  BY <1>1, <1>8, <1>10 DEF Role, Storing, Inside
<1>4. Quiet /\ permission' \subseteq permission
  BY SettingStays DEF Inv, Quiet, StoreTypes
<1>9. Worded(row)
  BY <1>1, <1>8, <1>12 DEF Worded
<1> QED BY <1>1, <1>2, <1>3, <1>4, <1>5, <1>8, <1>9, StartStep

-----------------------------------------------------------------------------
(* A thread goes on.                                                       *)

\* The thread that holds the lock works, and what it has read stays.
LEMMA OpWorks ==
  ASSUME Inv, Grows, Sensitive \subseteq Sensitive',
         run'["op"].work = run["op"].work, run'["op"].refs = run["op"].refs, run'["op"].start = run["op"].start,
         run'["op"].seen = run["op"].seen,
         run["op"].stage # "load", run'["op"].stage \in Storing \cup Inside \cup {"report", "ensure"}
  PROVE  OpOK'
<1>1. Known \subseteq Known' /\ OpOK
  BY DEF Inv, Grows
<1>2. run'["op"].stage \notin {"forget", "drop", "remove", "unlink", "activate", "ask", "enforce", "send"}
  BY DEF Storing, Inside
<1> QED BY <1>1, <1>2 DEF OpOK

\* What a thread has to hold at its next stage.
HoldsWith(p, stage, flag) ==
  run[p].image \notin raced' =>
    /\ stage = "insert" => run[p].image \in files'
    /\ stage \in {"raise"} \cup Inside => run[p].image \in Known'
    /\ stage \in Inside => Has(stage, flag, run[p].image) \subseteq index'[run[p].image] /\ (stage = "rewhole" => ~flag)
HoldsAt(p, stage) == HoldsWith(p, stage, run[p].flag)

\* A thread goes to another stage of storing or of indexing an image, and
\* perhaps remembers what it has seen.
LEMMA MoveOK ==
  ASSUME Inv, Grows, NEW p \in Procs, NEW stage \in Storing \cup Inside, NEW flag \in BOOLEAN,
         run' = [run EXCEPT ![p].stage = stage, ![p].flag = flag], HoldsWith(p, stage, flag),
         \/ run[p].stage \in Storing /\ stage \in Storing
         \/ run[p].stage \in Inside /\ stage \in Inside
         \/ run[p].stage \in Storing /\ stage \in Inside /\ run[p].work \notin {"pdf", "attach"},
         stage = "raise" => run[p].level = "sensitive"
  PROVE  /\ RunOK' /\ (\A q \in Procs : q # p => run'[q] = run[q]) /\ ThreadOK(p)'
         /\ p = "op" /\ Sensitive \subseteq Sensitive' => OpOK'
         /\ \A i : Touches(p, i)' => Touches(p, i) \/ (run[p].stage = "store" /\ i = run[p].image)
<1>0. RunOK /\ RoleOK(p) /\ PagesOK(p) /\ ToldOK(p) /\ HoldOK(p) /\ run[p] \in RunState
  BY DEF Inv, ThreadOK, RunOK
<1>1. PICK s : s = [run[p] EXCEPT !.stage = stage, !.flag = flag]
  OBVIOUS
<1>2. run' = [run EXCEPT ![p] = s]
  BY <1>0, <1>1 DEF RunOK
<1>3. stage \in Stages
  BY DEF Stages, Storing, Inside
<1>4. s \in RunState /\ s.stage = stage /\ s.flag = flag
  BY <1>0, <1>1, <1>3 DEF RunState
<1>5. s.work = run[p].work /\ s.image = run[p].image /\ s.level = run[p].level /\ s.refs = run[p].refs
      /\ s.todo = run[p].todo /\ s.start = run[p].start /\ s.seen = run[p].seen
  BY <1>0, <1>1 DEF RunState
<1>6. s.page = run[p].page /\ s.batch = run[p].batch /\ s.item = run[p].item /\ s.made = run[p].made
      /\ s.results = run[p].results /\ s.lost = run[p].lost
  BY <1>0, <1>1 DEF RunState
<1>7. RunOK' /\ run'[p] = s /\ \A q \in Procs : q # p => run'[q] = run[q]
  BY <1>0, <1>2, <1>4, RunMoves
<1>8. setting'.pdf = setting.pdf /\ setting'.size = setting.size /\ setting'.text = setting.text
      /\ raced \subseteq raced'
      /\ Known \subseteq Known'
  BY DEF Grows, SameSetting
<1>9. run[p].stage \in Storing \cup Inside /\ run[p].stage # "report"
  BY DEF Storing, Inside
<1>10. RoleOK(p)'
  <2>1. Role(p, s)
    BY <1>0, <1>4, <1>5, <1>9 DEF RoleOK, Role, Storing, Inside
  <2> QED BY <1>7, <2>1 DEF RoleOK, Role
<1>11. PagesOK(p)'
  <2>1. CASE run[p].work = "pdf"
    <3>1. Pages(run[p], setting.pdf, setting.size)
      BY <1>0, <2>1 DEF PagesOK
    <3>2. Pages(s, setting.pdf, setting.size)
      BY <1>4, <1>5, <1>6, <2>1, <3>1, PagesGo
    <3>3. Pages(run'[p], setting'.pdf, setting'.size) /\ run'[p].work = "pdf"
      BY <1>5, <1>7, <1>8, <2>1, <3>2
    <3> QED BY <3>3 DEF PagesOK, Pages, Left
  <2>2. CASE run[p].work # "pdf"
    <3>1. Single(run[p])
      BY <1>0, <2>2 DEF PagesOK
    <3> QED BY <1>5, <1>6, <1>7, <1>9, <2>2, <3>1 DEF PagesOK, Single
  <2> QED BY <2>1, <2>2
<1>12. ToldOK(p)'
  BY <1>0, <1>6, <1>7, ToldStays
<1>13. HoldOK(p)'
  <2>1. setting.pdf = setting'.pdf
        /\ (s.work = "pdf" => \A k \in 1..Len(s.batch) : setting.pdf[s.batch[k]] \in Known' \cup raced')
    BY <1>0, <1>5, <1>6, <1>8 DEF HoldOK
  <2>2. Has(run[p].stage, run[p].flag, run[p].image)' = Has(stage, flag, run[p].image)
    BY <1>4, <1>5, <1>7, <1>8 DEF Has, HasText, Text
  <2> QED BY <1>4, <1>5, <1>7, <1>8, <2>1, <2>2 DEF HoldOK, HoldsWith
<1>14. ASSUME p = "op", Sensitive \subseteq Sensitive'
       PROVE  OpOK'
  BY <1>4, <1>5, <1>7, <1>9, <1>14, OpWorks DEF Storing, Inside
<1>15. ASSUME NEW i, Touches(p, i)'
       PROVE  Touches(p, i) \/ (run[p].stage = "store" /\ i = run[p].image)
  <2>1. \/ s.image = i
        \/ s.work = "pdf" /\ \E k \in 1..Len(s.batch) : setting.pdf[s.batch[k]] = i
    BY <1>7, <1>8, <1>15 DEF Touches
  <2> QED BY <1>5, <1>6, <1>9, <2>1 DEF Touches, Storing, Inside
<1> QED BY <1>7, <1>10, <1>11, <1>12, <1>13, <1>14, <1>15 DEF ThreadOK

\* A thread goes to another stage.
LEMMA GoOK ==
  ASSUME Inv, Grows, NEW p \in Procs, NEW stage \in Storing \cup Inside, Go(p, stage), HoldsAt(p, stage),
         \/ run[p].stage \in Storing /\ stage \in Storing
         \/ run[p].stage \in Inside /\ stage \in Inside
         \/ run[p].stage \in Storing /\ stage \in Inside /\ run[p].work \notin {"pdf", "attach"},
         stage = "raise" => run[p].level = "sensitive"
  PROVE  /\ RunOK' /\ (\A q \in Procs : q # p => run'[q] = run[q]) /\ ThreadOK(p)'
         /\ p = "op" /\ Sensitive \subseteq Sensitive' => OpOK'
         /\ \A i : Touches(p, i)' => Touches(p, i) \/ (run[p].stage = "store" /\ i = run[p].image)
<1>1. RunOK /\ run[p] \in RunState /\ run[p].flag \in BOOLEAN
  BY DEF Inv, RunOK, RunState
<1>2. run' = [run EXCEPT ![p].stage = stage, ![p].flag = run[p].flag]
  BY <1>1 DEF Go, RunOK, RunState
<1>3. HoldsWith(p, stage, run[p].flag)
  BY DEF HoldsAt
<1> QED BY <1>1, <1>2, <1>3, MoveOK

-----------------------------------------------------------------------------
(* AssetStore._store.                                                      *)

\* The asset is at hand: the caller of the store goes on.
LEMMA StoredOK ==
  ASSUME Inv, Grows, NEW p \in Procs, Stored(p), run[p].stage \in Storing,
         run[p].image \notin raced' => run[p].image \in Known'
  PROVE  /\ RunOK' /\ (\A q \in Procs : q # p => run'[q] = run[q]) /\ ThreadOK(p)'
         /\ p = "op" /\ Sensitive \subseteq Sensitive' => OpOK'
         /\ \A i : Touches(p, i)' => Touches(p, i) \/ i = run[p].image
<1>0. RunOK /\ RoleOK(p) /\ PagesOK(p) /\ ToldOK(p) /\ HoldOK(p) /\ run[p] \in RunState
  BY DEF Inv, ThreadOK, RunOK
<1>1. CASE run[p].work = "attach"
  <2>1. End(p)
    BY <1>1 DEF Stored
  <2>2. RunOK' /\ run'[p] = Idle /\ \A q \in Procs : q # p => run'[q] = run[q]
    BY <1>0, <2>1, RunMoves, IdleFresh DEF End
  <2>3. p # "op"
    BY <1>0, <1>1 DEF RoleOK, Role
  <2>4. \A i : ~Touches(p, i)'
    BY <2>2 DEF Touches, Idle, Inside
  <2> QED BY <2>2, <2>3, <2>4, IdleOK
<1>2. CASE run[p].work = "pdf"
  <2>1. PICK batch : batch = Append(run[p].batch, run[p].page)
    OBVIOUS
  <2>2. PICK stage : stage = IF Len(batch) = setting.size THEN "batch" ELSE "page"
    OBVIOUS
  <2>3. run' = [run EXCEPT ![p].batch = batch, ![p].page = @ + 1, ![p].stage = stage]
    BY <1>2, <2>1, <2>2 DEF Stored
  <2>4. PICK s : s = [run[p] EXCEPT !.batch = batch, !.page = @ + 1, !.stage = stage]
    OBVIOUS
  <2>5. run' = [run EXCEPT ![p] = s]
    BY <1>0, <2>3, <2>4 DEF RunOK
  <2>6. /\ run[p].page \in Nat /\ MaxPages \in Nat /\ run[p].batch \in Seq(1..MaxPages) /\ Len(setting.pdf) \in Nat
        /\ Len(setting.pdf) <= MaxPages /\ setting.size \in Nat /\ run[p].page \in 1..MaxPages + 1
        /\ Len(run[p].batch) \in Nat
    BY <1>0, RowNumbers, RowParts, SettingFacts, MediaAssumption DEF Inv
  <2>7. Pages(run[p], setting.pdf, setting.size)
    BY <1>0, <1>2 DEF PagesOK
  <2>8. run[p].page <= Len(setting.pdf) /\ run[p].image = setting.pdf[run[p].page]
    BY <2>7 DEF Pages
  <2>9. /\ run[p].page \in 1..MaxPages /\ run[p].page + 1 \in 1..MaxPages + 1 /\ batch \in Seq(1..MaxPages)
        /\ Len(batch) = Len(run[p].batch) + 1
        /\ \A k \in 1..Len(run[p].batch) : batch[k] = run[p].batch[k]
        /\ batch[Len(run[p].batch) + 1] = run[p].page
    <3>1. run[p].page \in 1..MaxPages /\ run[p].page + 1 \in 1..MaxPages + 1
      BY <2>6, <2>8
    <3> QED BY <2>1, <2>6, <3>1, AppendProperties
  <2>10. stage \in Stages /\ stage \in {"batch", "page"}
    BY <2>2 DEF Stages
  <2>11. s \in RunState /\ s.stage = stage /\ s.batch = batch /\ s.page = run[p].page + 1
    BY <1>0, <2>4, <2>9, <2>10 DEF RunState
  <2>12. s.work = run[p].work /\ s.image = run[p].image /\ s.refs = run[p].refs /\ s.item = run[p].item
         /\ s.made = run[p].made /\ s.results = run[p].results /\ s.lost = run[p].lost
    BY <1>0, <2>4 DEF RunState
  <2>13. RunOK' /\ run'[p] = s /\ \A q \in Procs : q # p => run'[q] = run[q]
    BY <1>0, <2>5, <2>11, RunMoves
  <2>14. p = "worker" /\ p # "op"
    BY <1>0, <1>2 DEF RoleOK, Role, Procs
  <2>15. RoleOK(p)'
    <3>1. Role(p, s)
      BY <1>2, <2>10, <2>11, <2>12, <2>14 DEF Role, Storing, Inside
    <3> QED BY <2>13, <3>1 DEF RoleOK, Role
  <2>16. setting'.pdf = setting.pdf /\ setting'.size = setting.size /\ setting'.text = setting.text
         /\ raced \subseteq raced'
         /\ Known \subseteq Known'
    BY DEF Grows, SameSetting
  <2>17. PagesOK(p)'
    <3>1. Pages(s, setting.pdf, setting.size)
      BY <1>0, <2>1, <2>2, <2>6, <2>7, <2>11, <2>12, PagesStored
    <3> QED BY <1>2, <2>12, <2>13, <2>16, <3>1 DEF PagesOK, Pages, Left
  <2>18. ToldOK(p)'
    BY <1>0, <2>12, <2>13, ToldStays
  <2>19. HoldOK(p)'
    <3>1. ASSUME NEW k \in 1..Len(batch) PROVE setting.pdf[batch[k]] \in Known' \cup raced'
      <4>1. CASE k \in 1..Len(run[p].batch)
        BY <1>0, <1>2, <2>9, <2>16, <4>1 DEF HoldOK
      <4>2. CASE k \notin 1..Len(run[p].batch)
        <5>1. k = Len(run[p].batch) + 1
          BY <2>6, <2>9, <4>2
        <5> QED BY <2>8, <2>9, <5>1
      <4> QED BY <4>1, <4>2
    <3> QED BY <2>10, <2>11, <2>13, <2>16, <3>1 DEF HoldOK, Inside
  <2>21. \A k \in 1..Len(batch) : k = Len(run[p].batch) + 1 \/ k \in 1..Len(run[p].batch)
    BY <2>6, <2>9
  <2>20. ASSUME NEW i, Touches(p, i)' PROVE Touches(p, i) \/ i = run[p].image
    <3>1. PICK k \in 1..Len(batch) : setting.pdf[batch[k]] = i
      BY <2>10, <2>11, <2>13, <2>16, <2>20 DEF Touches, Inside
    <3>2. CASE k \in 1..Len(run[p].batch)
      BY <1>2, <2>9, <3>1, <3>2 DEF Touches
    <3>3. CASE k \notin 1..Len(run[p].batch)
      <4>1. k = Len(run[p].batch) + 1
        BY <2>21, <3>1, <3>3
      <4> QED BY <2>8, <2>9, <3>1, <4>1
    <3> QED BY <3>2, <3>3
  <2> QED BY <2>13, <2>14, <2>15, <2>17, <2>18, <2>19, <2>20 DEF ThreadOK
<1>3. CASE run[p].work \notin {"attach", "pdf"}
  <2>1. Go(p, "check") /\ "check" \in Storing \cup Inside /\ "check" \in Inside
    BY <1>3 DEF Stored, Inside
  <2>2. HoldsAt(p, "check")
    BY HasNothing DEF HoldsAt, HoldsWith
  <2> QED BY <1>3, <2>1, <2>2, GoOK
<1> QED BY <1>1, <1>2, <1>3

\* The same image may have been stored before.
LEMMA LookUpStep ==
  ASSUME Inv, NEW p \in Procs, LookUp(p)
  PROVE  Inv'
<1>0. RunOK /\ RoleOK(p) /\ run[p].stage = "store" /\ run[p].stage \in Storing /\ run[p] \in RunState
  BY DEF Inv, ThreadOK, RunOK, LookUp, At, Storing
<1>1. run[p].image \in Images
  BY <1>0 DEF RoleOK, Role
<1>2. Quiet /\ UNCHANGED <<permission, visionUp>> /\ (Deleting(run[p].image) => run[p].image \in raced')
  <2>1. raced \subseteq raced' /\ raced' \subseteq Images
    BY <1>1 DEF LookUp, Inv, StoreTypes
  <2>2. SameSetting
    BY SettingStays DEF LookUp, Inv
  <2> QED BY <2>1, <2>2 DEF LookUp, Quiet
<1>3. permission' \subseteq Permissions /\ visionUp' \in BOOLEAN
  BY <1>2, PermissionType DEF Inv, StoreTypes
<1>4. Grows /\ Known' = Known /\ Sensitive' = Sensitive
  BY <1>2, <1>3, QuietGrows
<1>5. /\ RunOK' /\ (\A q \in Procs : q # p => run'[q] = run[q]) /\ ThreadOK(p)'
      /\ p = "op" => OpOK'
      /\ \A i : Touches(p, i)' => Touches(p, i) \/ i = run[p].image
  <2>1. CASE assets[run[p].image] = "none"
    <3>1. Go(p, "write") /\ "write" \in Storing /\ "write" \notin Inside
      BY <2>1 DEF LookUp, Storing, Inside
    <3>2. HoldsAt(p, "write")
      BY <3>1 DEF HoldsAt, HoldsWith
    <3> QED BY <1>0, <1>4, <3>1, <3>2, GoOK
  <2>2. CASE assets[run[p].image] # "none" /\ Rank(run[p].level) > Rank(assets[run[p].image])
    <3>1. Go(p, "raise") /\ "raise" \in Storing /\ "raise" \notin Inside
      BY <2>2 DEF LookUp, Storing, Inside
    <3>2. HoldsAt(p, "raise")
      BY <1>1, <1>4, <2>2, <3>1 DEF HoldsAt, HoldsWith, Known
    <3>3. run[p].level = "sensitive"
      BY <2>2 DEF Rank
    <3> QED BY <1>0, <1>4, <3>1, <3>2, <3>3, GoOK
  <2>3. CASE assets[run[p].image] # "none" /\ ~(Rank(run[p].level) > Rank(assets[run[p].image]))
    <3>1. Stored(p)
      BY <2>3 DEF LookUp
    <3>2. run[p].image \in Known'
      BY <1>1, <1>4, <2>3 DEF Known
    <3> QED BY <1>0, <1>4, <3>1, <3>2, StoredOK
  <2> QED BY <2>1, <2>2, <2>3
<1> QED BY <1>2, <1>3, <1>5, QuietStep

\* The level of an image is only raised.
LEMMA RaiseLevelStep ==
  ASSUME Inv, NEW p \in Procs, RaiseLevel(p)
  PROVE  Inv'
<1>0. RunOK /\ RoleOK(p) /\ run[p].stage = "raise" /\ run[p].stage \in Storing /\ run[p] \in RunState
      /\ UNCHANGED <<setting, files, index, saved, memory, torn, permission, visionUp, raced>> /\ Stored(p)
  BY DEF Inv, ThreadOK, RunOK, RaiseLevel, At, Storing
<1>1. run[p].image \in Images /\ run[p].level = "sensitive"
  BY <1>0 DEF RoleOK, Role
<1>2. /\ assets' \in [Images -> Row] /\ Known' = Known /\ Sensitive \subseteq Sensitive'
  <2>1. assets \in [Images -> Row] /\ "sensitive" \in Row
    BY DEF Inv, StoreTypes, Row, Levels
  <2>2. CASE run[p].image \in Known
    <3>1. assets' = [assets EXCEPT ![run[p].image] = "sensitive"]
      BY <1>1, <2>2 DEF RaiseLevel
    <3> QED BY <1>1, <2>1, <2>2, <3>1 DEF Known, Sensitive
  <2>3. CASE run[p].image \notin Known
    <3>1. assets' = assets
      BY <2>3 DEF RaiseLevel
    <3> QED BY <2>1, <3>1 DEF Known, Sensitive
  <2> QED BY <2>2, <2>3
<1>3. Grows
  BY <1>0, <1>2, SettingStays DEF Grows, Inv
<1>4. StoreTypes' /\ StoresOK'
  <2>1. StoreTypes'
    BY <1>0, <1>2 DEF Inv, StoreTypes
  <2>2. StoresOK'
    BY <1>0, <1>2 DEF Inv, StoresOK, HasText, Text
  <2> QED BY <2>1, <2>2
<1>5. run[p].image \notin raced' => run[p].image \in Known'
  BY <1>0, <1>2 DEF Inv, ThreadOK, HoldOK
<1>6. /\ RunOK' /\ (\A q \in Procs : q # p => run'[q] = run[q]) /\ ThreadOK(p)'
      /\ p = "op" => OpOK'
      /\ \A i : Touches(p, i)' => Touches(p, i) \/ i = run[p].image
  BY <1>0, <1>2, <1>3, <1>5, StoredOK
<1>7. Touches(p, run[p].image)
  BY <1>0 DEF Touches
<1>8. index' = index /\ Known' = Known /\ memory' = memory
  BY <1>0, <1>2
<1> QED BY <1>2, <1>3, <1>4, <1>6, <1>7, <1>8, GrowStep

\* The files are written before the row.
LEMMA WriteFilesStep ==
  ASSUME Inv, NEW p \in Procs, WriteFiles(p)
  PROVE  Inv'
<1>0. RunOK /\ RoleOK(p) /\ run[p].stage = "write" /\ run[p].stage \in Storing /\ run[p] \in RunState
      /\ UNCHANGED <<setting, assets, index, saved, memory, torn, permission, visionUp, raced>> /\ Go(p, "insert")
      /\ files' = files \cup {run[p].image} /\ "insert" \in Storing /\ "insert" \notin Inside
  BY DEF Inv, ThreadOK, RunOK, WriteFiles, At, Storing, Inside
<1>1. run[p].image \in Images
  BY <1>0 DEF RoleOK, Role
<1>2. Known' = Known /\ Sensitive' = Sensitive /\ index' = index /\ memory' = memory
  BY <1>0 DEF Known, Sensitive
<1>3. Grows
  BY <1>0, <1>2, SettingStays DEF Grows, Inv
<1>4. StoreTypes'
  BY <1>0, <1>1 DEF Inv, StoreTypes
<1>5. StoresOK'
  BY <1>0, <1>2 DEF Inv, StoresOK, HasText, Text
<1>6. HoldsAt(p, "insert")
  BY <1>0 DEF HoldsAt, HoldsWith, Inside
<1>7. /\ RunOK' /\ (\A q \in Procs : q # p => run'[q] = run[q]) /\ ThreadOK(p)'
      /\ p = "op" => OpOK'
      /\ \A i : Touches(p, i)' => Touches(p, i) \/ (run[p].stage = "store" /\ i = run[p].image)
  BY <1>0, <1>2, <1>3, <1>6, GoOK
<1> QED BY <1>0, <1>2, <1>3, <1>4, <1>5, <1>7, GrowStep

\* The row is inserted once.
LEMMA InsertRowStep ==
  ASSUME Inv, NEW p \in Procs, InsertRow(p)
  PROVE  Inv'
<1>0. RunOK /\ RoleOK(p) /\ HoldOK(p) /\ run[p].stage = "insert" /\ run[p].stage \in Storing /\ run[p] \in RunState
      /\ UNCHANGED <<setting, files, index, saved, memory, torn, permission, visionUp, raced>>
  BY DEF Inv, ThreadOK, RunOK, InsertRow, At, Storing
<1>1. run[p].image \in Images /\ run[p].level \in Levels
  BY <1>0 DEF RoleOK, Role, RunState
<1>2. CASE run[p].image \in Known
  <2>1. End(p) /\ UNCHANGED stored
    BY <1>0, <1>2 DEF InsertRow, stored
  <2>2. Quiet
    BY <1>0, <2>1, SettingStays DEF Quiet, Inv, StoreTypes
  <2>3. permission' \subseteq Permissions /\ visionUp' \in BOOLEAN
    BY <1>0, PermissionType DEF Inv, StoreTypes
  <2> QED BY <2>1, <2>2, <2>3, EndStep
<1>3. CASE run[p].image \notin Known
  <2>1. assets' = [assets EXCEPT ![run[p].image] = run[p].level] /\ Stored(p)
    BY <1>3 DEF InsertRow
  <2>2. assets \in [Images -> Row] /\ run[p].level \in Row /\ run[p].level # "none"
    BY <1>1 DEF Inv, StoreTypes, Row, Levels
  <2>3. /\ assets' \in [Images -> Row] /\ Known' = Known \cup {run[p].image} /\ Sensitive \subseteq Sensitive'
    BY <1>1, <1>3, <2>1, <2>2 DEF Known, Sensitive
  <2>4. Grows
    BY <1>0, <2>3, SettingStays DEF Grows, Inv
  <2>5. StoreTypes'
    BY <1>0, <2>3 DEF Inv, StoreTypes
  <2>6. StoresOK'
    <3>1. \A i \in Images \ raced : (i \in Known' => i \in files)
      BY <1>0, <2>3 DEF HoldOK, Inv, StoresOK
    <3>2. \A i \in Images \ raced : index[i] # {} => i \in Known'
      BY <2>3 DEF Inv, StoresOK
    <3>3. \A i \in Images \ raced : "vision" \in index[i] => "chunk" \in index[i]
          /\ (HasText(i) => "regions" \in index[i])
      BY DEF Inv, StoresOK
    <3>4. \A f \in Facts : memory[f] \in Live => f \subseteq Known'
      BY <2>3 DEF Inv, StoresOK
    <3>5. \A n \in 1..MaxPages : saved[n] # NoResult => n <= Len(setting.pdf) /\ saved[n].image = setting.pdf[n]
      BY DEF Inv, StoresOK
    <3>6. permission \subseteq Permissions
      BY PermissionType
    <3> QED BY <1>0, <3>1, <3>2, <3>3, <3>4, <3>5, <3>6 DEF StoresOK, HasText, Text
  <2>7. /\ RunOK' /\ (\A q \in Procs : q # p => run'[q] = run[q]) /\ ThreadOK(p)'
        /\ p = "op" => OpOK'
        /\ \A i : Touches(p, i)' => Touches(p, i) \/ i = run[p].image
    BY <1>0, <2>1, <2>3, <2>4, StoredOK
  <2>8. Touches(p, run[p].image)
    BY <1>0 DEF Touches
  <2>9. \A i \in Images \ raced' : Touches(p, i) \/ (index'[i] = index[i] /\ (i \in Known' => i \in Known))
    BY <1>0, <2>3, <2>8
  <2> QED BY <1>0, <2>3, <2>4, <2>5, <2>6, <2>7, <2>8, <2>9, GrowStep
<1> QED BY <1>2, <1>3

-----------------------------------------------------------------------------
(* ingest_image.                                                           *)

\* The result of an image goes to what called for it.
LEMMA ReturnOK ==
  ASSUME Inv, Grows, NEW p \in Procs, NEW status \in Statuses, Return(p, status), run[p].stage \in Inside,
         NEW j, j = run[p].image, status = "success" /\ j \notin run[p].lost \cup raced' => Whole(j)'
  PROVE  /\ RunOK' /\ (\A q \in Procs : q # p => run'[q] = run[q]) /\ ThreadOK(p)'
         /\ p = "op" /\ Sensitive \subseteq Sensitive' => OpOK'
         /\ \A i : Touches(p, i)' => Touches(p, i)
<1>0. RunOK /\ RoleOK(p) /\ PagesOK(p) /\ ToldOK(p) /\ HoldOK(p) /\ run[p] \in RunState
  BY DEF Inv, ThreadOK, RunOK
<1>1. run[p].work \in {"index", "remember", "pdf"} /\ j \in Images
      /\ run[p].stage \notin Storing \cup {"report", "load"}
  BY <1>0 DEF RoleOK, Role, Inside, Storing, RunState, Works
<1>2. setting'.pdf = setting.pdf /\ setting'.size = setting.size /\ setting'.text = setting.text
      /\ raced \subseteq raced'
      /\ Known \subseteq Known'
  BY DEF Grows, SameSetting
<1>3. CASE run[p].work = "index"
  <2>1. PICK x : x = [page |-> 1, image |-> j, status |-> status]
    OBVIOUS
  <2>2. x \in [page: 1..MaxPages, image: Images, status: Statuses] /\ x.image = j /\ x.status = status
        /\ "report" \in Stages
    BY <1>1, <2>1, MediaAssumption DEF Stages
  <2>3. PICK s : s = [run[p] EXCEPT !.stage = "report", !.results = {x}]
    OBVIOUS
  <2>4. run' = [run EXCEPT ![p] = s]
    BY <1>0, <1>3, <2>1, <2>3 DEF Return, RunOK
  <2>5. s \in RunState /\ s.stage = "report" /\ s.results = {x}
    <3>1. {x} \in SUBSET [page: 1..MaxPages, image: Images, status: Statuses]
      BY <2>2
    <3>2. PICK set : set = {x}
      OBVIOUS
    <3>3. s = [run[p] EXCEPT !.stage = "report", !.results = set]
      BY <2>3, <3>2
    <3>4. set \in SUBSET [page: 1..MaxPages, image: Images, status: Statuses]
      BY <3>1, <3>2
    <3>5. s \in RunState /\ s.stage = "report" /\ s.results = set
      BY <1>0, <2>2, <3>3, <3>4 DEF RunState
    <3> QED BY <3>2, <3>5
  <2>6. s.work = "index" /\ s.image = j /\ s.refs = run[p].refs /\ s.start = run[p].start /\ s.seen = run[p].seen
        /\ s.made = run[p].made /\ s.lost = run[p].lost
    BY <1>0, <1>3, <2>3 DEF RunState
  <2>7. RunOK' /\ run'[p] = s /\ \A q \in Procs : q # p => run'[q] = run[q]
    BY <1>0, <2>4, <2>5, RunMoves
  <2>8. RoleOK(p)'
    <3>1. Role(p, s)
      BY <1>0, <1>1, <1>3, <2>5, <2>6 DEF RoleOK, Role, Storing, Inside
    <3> QED BY <2>7, <3>1 DEF RoleOK, Role
  <2>9. run[p].made = << >>
    BY <1>0, <1>3 DEF PagesOK, Single
  <2>10. PagesOK(p)'
    BY <2>5, <2>6, <2>7, <2>9 DEF PagesOK, Single
  <2>11. ToldOK(p)'
    <3>1. \A y \in Told(p)' : y = x
      BY <2>5, <2>6, <2>7, <2>9, EmptySeq DEF Told
    <3> QED BY <1>0, <2>2, <2>6, <2>7, <3>1, ToldMore
  <2>12. HoldOK(p)'
    BY <2>5, <2>6, <2>7 DEF HoldOK, Inside
  <2>13. p = "op" /\ Sensitive \subseteq Sensitive' => OpOK'
    BY <1>1, <1>3, <2>5, <2>6, <2>7, OpWorks
  <2>14. \A i : ~Touches(p, i)'
    BY <2>5, <2>6, <2>7 DEF Touches, Inside
  <2> QED BY <2>7, <2>8, <2>10, <2>11, <2>12, <2>13, <2>14 DEF ThreadOK
<1>4. CASE run[p].work = "remember"
  <2>3. PICK s : s = [run[p] EXCEPT !.stage = "ensure"]
    OBVIOUS
  <2>4. run' = [run EXCEPT ![p] = s]
    BY <1>0, <1>4, <2>3 DEF Return, RunOK, Go
  <2>5. s \in RunState /\ s.stage = "ensure" /\ s.results = run[p].results
    BY <1>0, <2>3 DEF RunState, Stages
  <2>6. s.work = "remember" /\ s.image = j /\ s.refs = run[p].refs /\ s.start = run[p].start /\ s.seen = run[p].seen
        /\ s.made = run[p].made /\ s.lost = run[p].lost /\ s.todo = run[p].todo
    BY <1>0, <1>4, <2>3 DEF RunState
  <2>7. RunOK' /\ run'[p] = s /\ \A q \in Procs : q # p => run'[q] = run[q]
    BY <1>0, <2>4, <2>5, RunMoves
  <2>8. RoleOK(p)'
    <3>1. Role(p, s)
      BY <1>0, <1>1, <1>4, <2>5, <2>6 DEF RoleOK, Role, Storing, Inside
    <3> QED BY <2>7, <3>1 DEF RoleOK, Role
  <2>9. Single(run[p])
    BY <1>0, <1>4 DEF PagesOK
  <2>10. PagesOK(p)'
    BY <1>1, <2>5, <2>6, <2>7, <2>9 DEF PagesOK, Single
  <2>11. ToldOK(p)'
    BY <1>0, <2>5, <2>6, <2>7, ToldStays
  <2>12. HoldOK(p)'
    BY <2>5, <2>6, <2>7 DEF HoldOK, Inside
  <2>13. p = "op" /\ Sensitive \subseteq Sensitive' => OpOK'
    BY <1>1, <1>4, <2>5, <2>6, <2>7, OpWorks
  <2>14. \A i : ~Touches(p, i)'
    BY <2>5, <2>6, <2>7 DEF Touches, Inside
  <2> QED BY <2>7, <2>8, <2>10, <2>11, <2>12, <2>13, <2>14 DEF ThreadOK
<1>5. CASE run[p].work = "pdf"
  <2>1. Pages(run[p], setting.pdf, setting.size)
    BY <1>0, <1>5 DEF PagesOK
  <2>2. PICK x : x = [image |-> j, status |-> status]
    OBVIOUS
  <2>3. x \in Result /\ x.image = j /\ x.status = status
    BY <1>1, <2>2 DEF Result
  <2>4. PICK made : made = Append(run[p].made, x)
    OBVIOUS
  <2>5. PICK item : item = IF run[p].item = Len(run[p].batch) THEN 1 ELSE run[p].item + 1
    OBVIOUS
  <2>6. PICK next : next = IF run[p].item = Len(run[p].batch) THEN j ELSE setting.pdf[run[p].batch[run[p].item + 1]]
    OBVIOUS
  <2>7. PICK stage : stage = IF run[p].item = Len(run[p].batch) THEN "save" ELSE "check"
    OBVIOUS
  <2>8. PICK s : s = [run[p] EXCEPT !.made = made, !.item = item, !.image = next, !.stage = stage]
    OBVIOUS
  <2>9. run' = [run EXCEPT ![p] = s]
    <3>1. run' = [run EXCEPT ![p].made = made, ![p].item = IF run[p].item = Len(run[p].batch) THEN 1 ELSE @ + 1,
                             ![p].image = IF run[p].item = Len(run[p].batch) THEN @
                                          ELSE setting.pdf[run[p].batch[run[p].item + 1]],
                             ![p].stage = stage]
      BY <1>5, <2>2, <2>4, <2>7 DEF Return
    <3>2. run' = [run EXCEPT ![p].made = made, ![p].item = item, ![p].image = next, ![p].stage = stage]
      BY <1>0, <2>5, <2>6, <3>1 DEF RunOK, RunState
    <3> QED BY <1>0, <2>8, <3>2 DEF RunOK
  <2>10. /\ run[p].made \in Seq(Result) /\ run[p].item \in Nat /\ Len(run[p].batch) \in Nat
         /\ MaxPages \in Nat /\ MaxPages >= 1
         /\ run[p].item \in 1..Len(run[p].batch) /\ Len(run[p].batch) <= setting.size /\ setting.size \in 1..MaxPages
         /\ \A k \in 1..Len(run[p].batch) : run[p].batch[k] \in 1..Len(setting.pdf)
         /\ \A n \in 1..Len(setting.pdf) : setting.pdf[n] \in Images
    <3>1. \A k \in 1..Len(run[p].batch) : run[p].batch[k] \in 1..Len(setting.pdf)
      <4>1. \A k \in 1..Len(run[p].batch) : run[p].batch[k] \in 1..MaxPages /\ run[p].batch[k] <= Len(setting.pdf)
        BY <1>0, <2>1, RowNumbers DEF Pages
      <4>2. Len(setting.pdf) \in Nat /\ MaxPages \in Nat
        BY SettingFacts, MediaAssumption DEF Inv
      <4> QED BY <4>1, <4>2
    <3>2. run[p].item \in 1..Len(run[p].batch) /\ Len(run[p].batch) <= setting.size
      BY <2>1 DEF Pages
    <3> QED BY <1>0, <3>1, <3>2, RowNumbers, RowParts, SettingFacts DEF Inv
  <2>11. made \in Seq(Result) /\ item \in 1..MaxPages /\ next \in Images /\ stage \in {"save", "check"}
         /\ stage \in Stages
    <3>1. made \in Seq(Result)
      BY <2>3, <2>4, <2>10, AppendProperties
    <3>2. item \in 1..MaxPages
      BY <2>5, <2>10
    <3>3. next \in Images
      <4>1. run[p].item # Len(run[p].batch) => run[p].item + 1 \in 1..Len(run[p].batch)
        BY <2>10
      <4> QED BY <1>1, <2>6, <2>10, <4>1
    <3> QED BY <2>7, <3>1, <3>2, <3>3 DEF Stages
  <2>12. s \in RunState /\ s.made = made /\ s.item = item /\ s.image = next /\ s.stage = stage
    BY <1>0, <2>8, <2>11 DEF RunState
  <2>13. s.work = "pdf" /\ s.page = run[p].page /\ s.batch = run[p].batch /\ s.results = run[p].results
         /\ s.lost = run[p].lost
    BY <1>0, <1>5, <2>8 DEF RunState
  <2>14. RunOK' /\ run'[p] = s /\ \A q \in Procs : q # p => run'[q] = run[q]
    BY <1>0, <2>9, <2>12, RunMoves
  <2>15. p = "worker" /\ p # "op"
    BY <1>0, <1>5 DEF RoleOK, Role, Procs
  <2>16. RoleOK(p)'
    <3>1. Role(p, s)
      BY <2>11, <2>12, <2>13, <2>15 DEF Role, Storing, Inside
    <3> QED BY <2>14, <3>1 DEF RoleOK, Role
  <2>17. PagesOK(p)'
    <3>1. IF run[p].item = Len(run[p].batch) THEN s.item = 1 /\ s.stage = "save"
          ELSE s.item = run[p].item + 1 /\ s.image = setting.pdf[run[p].batch[run[p].item + 1]] /\ s.stage = "check"
      BY <2>5, <2>6, <2>7, <2>12
    <3>2. Pages(s, setting.pdf, setting.size)
      BY <1>0, <2>1, <2>3, <2>4, <2>12, <2>13, <3>1, PagesReturned
    <3>3. Pages(run'[p], setting'.pdf, setting'.size)
      BY <1>2, <2>14, <3>2
    <3> QED BY <2>13, <2>14, <3>3 DEF PagesOK, Pages, Left
  <2>18. ToldOK(p)'
    <3>1. \A k \in 1..Len(made) : made[k] = x \/ \E l \in 1..Len(run[p].made) : made[k] = run[p].made[l]
      <4>1. PICK n \in Nat : n = Len(run[p].made)
        BY <2>10, LenProperties
      <4>2. Len(made) = n + 1 /\ made[n + 1] = x /\ \A k \in 1..n : made[k] = run[p].made[k]
        BY <2>3, <2>4, <2>10, <4>1, AppendProperties
      <4>3. \A k \in 1..Len(made) : k = n + 1 \/ k \in 1..n
        BY <4>2
      <4> QED BY <4>1, <4>2, <4>3
    <3>2. \A y \in Told(p)' : y = x \/ y \in Told(p)
      BY <2>12, <2>13, <2>14, <3>1 DEF Told
    <3> QED BY <1>0, <2>3, <2>13, <2>14, <3>2, ToldMore
  <2>19. \A k \in 1..Len(run[p].batch) : setting.pdf[run[p].batch[k]] \in Known' \cup raced'
    BY <1>0, <1>2, <1>5 DEF HoldOK
  <2>20. stage = "check" => \E k \in 1..Len(run[p].batch) : next = setting.pdf[run[p].batch[k]]
    <3>1. run[p].item # Len(run[p].batch) => run[p].item + 1 \in 1..Len(run[p].batch)
      BY <2>10
    <3> QED BY <2>6, <2>7, <3>1
  <2>21. HoldOK(p)'
    BY <1>2, <2>11, <2>12, <2>13, <2>14, <2>19, <2>20 DEF HoldOK, Inside, Has, Refilling
  <2>22. \A i : Touches(p, i)' => Touches(p, i)
    BY <1>2, <1>5, <2>11, <2>12, <2>13, <2>14, <2>20 DEF Touches, Inside
  <2> QED BY <2>14, <2>15, <2>16, <2>17, <2>18, <2>21, <2>22 DEF ThreadOK
<1> QED BY <1>1, <1>3, <1>4, <1>5

\* What an indexing thread knows of its image.
LEMMA AtImage ==
  ASSUME Inv, NEW p \in Procs, run[p].stage \in Inside
  PROVE  /\ RunOK /\ RoleOK(p) /\ HoldOK(p) /\ run[p] \in RunState /\ run[p].image \in Images
         /\ run[p].work \in {"index", "remember", "pdf"}
         /\ run[p].image \notin raced => run[p].image \in Known
         /\ Touches(p, run[p].image) /\ p \in {"worker", "op"} /\ run[p].stage \notin Storing
<1>1. RunOK /\ RoleOK(p) /\ HoldOK(p) /\ run[p] \in RunState
  BY DEF Inv, ThreadOK, RunOK
<1>2. run[p].image \in Images /\ run[p].work \in {"index", "remember", "pdf"} /\ p \in {"worker", "op"}
      /\ run[p].stage \notin Storing
  BY <1>1 DEF RoleOK, Role, Storing, Inside, RunState, Works, Procs
<1>3. run[p].image \notin raced => run[p].image \in Known
  BY <1>1 DEF HoldOK
<1> QED BY <1>1, <1>2, <1>3 DEF Touches

\* One more part of an image is in the index.
LEMMA IndexAdds ==
  ASSUME Inv, NEW i \in Images, NEW part \in Parts, index' = [index EXCEPT ![i] = @ \cup {part}],
         UNCHANGED <<setting, assets, files, saved, memory, permission, raced>>, visionUp' \in BOOLEAN,
         torn' \subseteq Images, i \notin raced => i \in Known,
         part = "vision" /\ i \notin raced => "chunk" \in index[i] /\ (HasText(i) => "regions" \in index[i])
  PROVE  /\ Grows /\ StoreTypes' /\ StoresOK' /\ Known' = Known /\ Sensitive' = Sensitive
         /\ index'[i] = index[i] \cup {part} /\ \A j \in Images : j # i => index'[j] = index[j]
<1>1. index \in [Images -> SUBSET Parts]
  BY DEF Inv, StoreTypes
<1>2. /\ index' \in [Images -> SUBSET Parts] /\ index'[i] = index[i] \cup {part}
      /\ \A j \in Images : j # i => index'[j] = index[j]
  BY <1>1
<1>3. Known' = Known /\ Sensitive' = Sensitive
  BY DEF Known, Sensitive
<1>4. Grows
  BY <1>2, <1>3, SettingStays DEF Grows, Inv
<1>5. StoreTypes'
  BY <1>2 DEF Inv, StoreTypes
<1>6. ASSUME NEW j \in Images \ raced
      PROVE  /\ index'[j] # {} => j \in Known
             /\ j \in Known => j \in files
             /\ "vision" \in index'[j] => "chunk" \in index'[j] /\ (HasText(j) => "regions" \in index'[j])
  BY <1>2 DEF Inv, StoresOK
<1>7. StoresOK'
  BY <1>3, <1>6 DEF Inv, StoresOK, HasText, Text
<1> QED BY <1>2, <1>3, <1>4, <1>5, <1>7

\* The thread goes on with an image whose texts have vectors.
LEMMA ProceedOK ==
  ASSUME Inv, Grows, NEW p \in Procs, NEW vision \in BOOLEAN, Proceed(p, vision), run[p].stage \in Inside,
         NEW j, j = run[p].image, vision /\ j \notin raced' => Whole(j)'
  PROVE  /\ RunOK' /\ (\A q \in Procs : q # p => run'[q] = run[q]) /\ ThreadOK(p)'
         /\ p = "op" /\ Sensitive \subseteq Sensitive' => OpOK'
         /\ \A i : Touches(p, i)' => Touches(p, i)
<1>1. "success" \in Statuses /\ "failed" \in Statuses /\ "failed" # "success"
  BY DEF Statuses
<1>2. run[p].stage \notin Storing /\ (j \notin raced => j \in Known)
  BY AtImage
<1>3. CASE Return(p, "success") /\ vision
  BY <1>1, <1>3, ReturnOK
<1>4. CASE Return(p, "failed")
  BY <1>1, <1>4, ReturnOK
<1>5. ASSUME NEW stage \in {"chunk", "ocr"}, Go(p, stage)
      PROVE  /\ RunOK' /\ (\A q \in Procs : q # p => run'[q] = run[q]) /\ ThreadOK(p)'
             /\ p = "op" /\ Sensitive \subseteq Sensitive' => OpOK'
             /\ \A i : Touches(p, i)' => Touches(p, i)
  <2>1. stage \in Inside /\ stage \notin Storing /\ stage \notin {"raise", "insert", "rewhole"}
    BY DEF Inside, Storing
  <2>2. HoldsAt(p, stage)
    BY <1>2, <2>1, HasNothing DEF HoldsAt, HoldsWith, Grows
  <2> QED BY <1>2, <1>5, <2>1, <2>2, GoOK DEF Storing
<1> QED BY <1>3, <1>4, <1>5 DEF Proceed, ReadAnew

\* An image is read, or taken as it is indexed.
LEMMA CheckIndexStep ==
  ASSUME Inv, NEW p \in Procs, CheckIndex(p)
  PROVE  Inv'
<1>0. run[p].stage = "check" /\ run[p].stage \in Inside /\ run[p].stage \notin Storing
  BY DEF CheckIndex, At, Inside, Storing
<1>1. /\ RunOK /\ RoleOK(p) /\ HoldOK(p) /\ run[p] \in RunState /\ run[p].image \in Images
      /\ run[p].image \notin raced => run[p].image \in Known
  BY <1>0, AtImage
<1>2. Quiet
  BY SettingStays DEF CheckIndex, Quiet, Inv, StoreTypes
<1>3. permission' \subseteq Permissions /\ visionUp' \in BOOLEAN
  BY PermissionType DEF CheckIndex, Inv, StoreTypes
<1>4. Grows /\ Known' = Known /\ Sensitive' = Sensitive /\ index' = index /\ raced' = raced
      /\ setting'.text = setting.text
  BY <1>2, <1>3, QuietGrows DEF CheckIndex, Grows, SameSetting
<1>5. PICK i \in Images : i = run[p].image
  BY <1>1
<1>6. i \notin raced /\ "vision" \in index[i] => "chunk" \in index[i] /\ (HasText(i) => "regions" \in index[i])
  BY DEF Inv, StoresOK
<1>7. CASE ReadAnew(p)
  <2>1. PICK stage \in {"chunk", "ocr"} : Go(p, stage)
    BY <1>7 DEF ReadAnew
  <2>2. stage \in Inside /\ stage \notin Storing /\ stage \notin {"raise", "insert", "rewhole"}
    BY DEF Inside, Storing
  <2>3. HoldsAt(p, stage)
    BY <1>1, <1>4, <2>2, HasNothing DEF HoldsAt, HoldsWith
  <2> QED BY <1>0, <1>2, <1>3, <1>4, <2>1, <2>2, <2>3, GoOK, QuietStep
<1>8. ASSUME "chunk" \in index[i], HasText(i),
             run' = [run EXCEPT ![p].stage = "backfill", ![p].flag = "vision" \in index[i]]
      PROVE  Inv'
  <2>1. PICK flag \in BOOLEAN : flag = ("vision" \in index[i])
    BY Truth
  <2>2. "backfill" \in Inside /\ run' = [run EXCEPT ![p].stage = "backfill", ![p].flag = flag]
    BY <1>8, <2>1 DEF Inside
  <2>3. i \notin raced => Has("backfill", flag, i) \subseteq index[i]
    BY <1>6, <1>8, <2>1 DEF Has, Refilling
  <2>4. HoldsWith(p, "backfill", flag)
    BY <1>1, <1>4, <1>5, <2>3 DEF HoldsWith
  <2>5. /\ RunOK' /\ (\A q \in Procs : q # p => run'[q] = run[q]) /\ ThreadOK(p)'
        /\ p = "op" => OpOK'
        /\ \A k : Touches(p, k)' => Touches(p, k)
    BY <1>0, <1>4, <2>2, <2>4, MoveOK
  <2> QED BY <1>2, <1>3, <2>5, QuietStep
<1>9. ASSUME "chunk" \in index[i], HasText(i) => "text" \in index[i], Proceed(p, "vision" \in index[i])
      PROVE  Inv'
  <2>1. PICK vision \in BOOLEAN : vision = ("vision" \in index[i])
    BY Truth
  <2>2. vision /\ i \notin raced' => Whole(i)'
    BY <1>1, <1>4, <1>5, <1>6, <1>9, <2>1 DEF Whole, HasText, Text
  <2> QED BY <1>0, <1>2, <1>3, <1>4, <1>5, <1>9, <2>1, <2>2, ProceedOK, QuietStep
<1> QED BY <1>5, <1>7, <1>8, <1>9 DEF CheckIndex

\* The texts of an image go to the model, or that fails, or they are gone.
LEMMA EncodeStep ==
  ASSUME Inv, NEW p \in Procs, EmbedTexts(p) \/ EmbedFails(p) \/ NoChunks(p)
  PROVE  Inv'
<1>0. run[p].stage \in {"encode", "backfill"} /\ run[p].stage \in Inside /\ run[p].stage \notin Storing
  BY DEF EmbedTexts, EmbedFails, NoChunks, At, Inside, Storing
<1>1. /\ RunOK /\ HoldOK(p) /\ run[p] \in RunState /\ run[p].image \in Images
      /\ run[p].image \notin raced => run[p].image \in Known
  BY <1>0, AtImage
<1>2. Quiet
  BY SettingStays DEF EmbedTexts, EmbedFails, NoChunks, Quiet, Inv, StoreTypes
<1>3. permission' \subseteq Permissions /\ visionUp' \in BOOLEAN
  BY PermissionType DEF EmbedTexts, EmbedFails, NoChunks, Inv, StoreTypes
<1>4. Grows /\ Known' = Known /\ Sensitive' = Sensitive /\ index' = index /\ raced' = raced
      /\ setting'.text = setting.text
  BY <1>2, <1>3, QuietGrows DEF EmbedTexts, EmbedFails, NoChunks, Grows, SameSetting
<1>5. PICK i \in Images : i = run[p].image
  BY <1>1
<1>6. i \notin raced => Has(run[p].stage, run[p].flag, i) \subseteq index[i]
  BY <1>0, <1>1, <1>5 DEF HoldOK
<1>7. CASE EmbedTexts(p)
  <2>1. PICK stage \in {"text", "retext", "rewhole"} :
          /\ Go(p, stage)
          /\ IF run[p].stage = "encode" THEN stage = "text"
             ELSE stage = IF "regions" \in index[i] THEN "retext" ELSE "rewhole"
    BY <1>0, <1>5, <1>7 DEF EmbedTexts, At
  <2>2. stage \in Inside /\ stage \notin Storing /\ stage \notin {"raise", "insert"}
    BY DEF Inside, Storing
  <2>3. Has(stage, run[p].flag, i) = Has(run[p].stage, run[p].flag, i)
    BY <1>0, <2>1 DEF Has, Refilling
  <2>4. stage = "rewhole" /\ i \notin raced => ~run[p].flag
    <3>1. stage = "rewhole" => run[p].stage = "backfill" /\ "regions" \notin index[i]
      BY <1>0, <2>1
    <3>2. run[p].stage = "backfill" /\ run[p].flag => "regions" \in Has(run[p].stage, run[p].flag, i)
      BY DEF Has, Refilling
    <3> QED BY <1>6, <3>1, <3>2
  <2>5. HoldsAt(p, stage)
    BY <1>1, <1>4, <1>5, <1>6, <2>2, <2>3, <2>4 DEF HoldsAt, HoldsWith
  <2> QED BY <1>0, <1>2, <1>3, <1>4, <2>1, <2>2, <2>5, GoOK, QuietStep
<1>8. CASE EmbedFails(p)
  BY <1>2, <1>3, <1>8, EndStep DEF EmbedFails
<1>9. CASE NoChunks(p)
  <2>1. Proceed(p, run[p].flag) /\ run[p].stage = "backfill" /\ "chunk" \notin index[i] /\ run[p].flag \in BOOLEAN
    BY <1>1, <1>5, <1>9 DEF NoChunks, At, RunState
  <2>2. i \in raced'
    BY <1>4, <1>6, <2>1 DEF Has, Refilling
  <2> QED BY <1>0, <1>2, <1>3, <1>4, <1>5, <2>1, <2>2, ProceedOK, QuietStep
<1> QED BY <1>7, <1>8, <1>9

\* A step of indexing that stores one more part of its image.
LEMMA PutStep ==
  ASSUME Inv, NEW p \in Procs, run[p].stage \in Inside, NEW i \in Images, i = run[p].image, NEW part \in Parts,
         index' = [index EXCEPT ![i] = @ \cup {part}],
         UNCHANGED <<setting, assets, files, saved, memory, permission, raced>>, visionUp' \in BOOLEAN,
         torn' \subseteq Images,
         part = "vision" /\ i \notin raced => "chunk" \in index[i] /\ (HasText(i) => "regions" \in index[i]),
         \/ \E stage \in Inside \ {"rewhole"} :
              Go(p, stage) /\ (i \notin raced => Has(stage, run[p].flag, i) \subseteq index[i] \cup {part})
         \/ /\ Return(p, "success")
            /\ i \notin raced => {"chunk", "vision"} \subseteq index[i] \cup {part}
                                 /\ (HasText(i) => {"regions", "text"} \subseteq index[i] \cup {part})
  PROVE  Inv'
<1>1. /\ (i \notin raced => i \in Known) /\ Touches(p, i) /\ run[p].stage \notin Storing
  BY AtImage
<1>2. /\ Grows /\ StoreTypes' /\ StoresOK' /\ Known' = Known /\ Sensitive' = Sensitive
      /\ index'[i] = index[i] \cup {part} /\ \A j \in Images : j # i => index'[j] = index[j]
  BY <1>1, IndexAdds
<1>3. i \notin raced /\ {"chunk", "vision"} \subseteq index[i] \cup {part}
      /\ (HasText(i) => {"regions", "text"} \subseteq index[i] \cup {part}) => Whole(i)'
  BY <1>1, <1>2 DEF Whole, HasText, Text
<1>4. /\ RunOK' /\ (\A q \in Procs : q # p => run'[q] = run[q]) /\ ThreadOK(p)'
      /\ p = "op" => OpOK'
      /\ \A j : Touches(p, j)' => Touches(p, j)
  <2>1. ASSUME NEW stage \in Inside \ {"rewhole"}, Go(p, stage),
               i \notin raced => Has(stage, run[p].flag, i) \subseteq index[i] \cup {part}
        PROVE  /\ RunOK' /\ (\A q \in Procs : q # p => run'[q] = run[q]) /\ ThreadOK(p)'
               /\ p = "op" => OpOK'
               /\ \A j : Touches(p, j)' => Touches(p, j)
    <3>1. stage \notin Storing /\ stage # "insert" /\ stage # "raise"
      BY DEF Storing, Inside
    <3>2. HoldsAt(p, stage)
      BY <1>1, <1>2, <2>1, <3>1 DEF HoldsAt, HoldsWith
    <3> QED BY <1>1, <1>2, <2>1, <3>1, <3>2, GoOK DEF Storing
  <2>2. ASSUME Return(p, "success"), i \notin raced' => Whole(i)'
        PROVE  /\ RunOK' /\ (\A q \in Procs : q # p => run'[q] = run[q]) /\ ThreadOK(p)'
               /\ p = "op" => OpOK'
               /\ \A j : Touches(p, j)' => Touches(p, j)
    <3>1. "success" \in Statuses
      BY DEF Statuses
    <3> QED BY <1>2, <2>2, <3>1, ReturnOK
  <2> QED BY <1>3, <2>1, <2>2
<1> QED BY <1>1, <1>2, <1>4, GrowStep

\* A step that puts the last vector of the texts of an image that is indexed.
LEMMA PutLastStep ==
  ASSUME Inv, NEW p \in Procs, run[p].stage \in Inside, NEW i \in Images, i = run[p].image, NEW part \in {"text", "spots"},
         index' = [index EXCEPT ![i] = @ \cup {part}],
         UNCHANGED <<setting, assets, files, saved, memory, permission, raced>>, visionUp' \in BOOLEAN,
         torn' \subseteq Images, Proceed(p, run[p].flag),
         run[p].flag /\ i \notin raced => {"chunk", "vision", "regions", "text"} \subseteq index[i] \cup {part}
  PROVE  Inv'
<1>1. /\ (i \notin raced => i \in Known) /\ Touches(p, i) /\ run[p].stage \notin Storing /\ run[p].flag \in BOOLEAN
  BY AtImage DEF RunState
<1>2. /\ Grows /\ StoreTypes' /\ StoresOK' /\ Known' = Known /\ Sensitive' = Sensitive
      /\ index'[i] = index[i] \cup {part} /\ \A j \in Images : j # i => index'[j] = index[j]
  <2>1. part \in Parts /\ part # "vision"
    BY DEF Parts
  <2> QED BY <1>1, <2>1, IndexAdds
<1>3. run[p].flag /\ i \notin raced' => Whole(i)'
  BY <1>1, <1>2 DEF Whole
<1>4. /\ RunOK' /\ (\A q \in Procs : q # p => run'[q] = run[q]) /\ ThreadOK(p)'
      /\ p = "op" => OpOK'
      /\ \A j : Touches(p, j)' => Touches(p, j)
  BY <1>1, <1>2, <1>3, ProceedOK
<1> QED BY <1>1, <1>2, <1>4, GrowStep

\* OCR.
LEMMA ReadImageStep ==
  ASSUME Inv, NEW p \in Procs, ReadImage(p)
  PROVE  Inv'
<1>0. run[p].stage = "ocr" /\ run[p].stage \in Inside
  BY DEF ReadImage, At, Inside
<1>1. RunOK /\ run[p] \in RunState /\ run[p].image \in Images
      /\ (run[p].image \notin raced => run[p].image \in Known)
  BY <1>0, AtImage
<1>2. Quiet
  BY SettingStays DEF ReadImage, Quiet, Inv, StoreTypes
<1>3. permission' \subseteq Permissions /\ visionUp' \in BOOLEAN
  BY PermissionType DEF ReadImage, Inv, StoreTypes
<1>4. Grows /\ Known' = Known /\ Sensitive' = Sensitive
  BY <1>2, <1>3, QuietGrows
<1>5. CASE Go(p, "chunk")
  <2>1. "chunk" \in Inside /\ "chunk" \notin Storing
    BY DEF Inside, Storing
  <2>2. HoldsAt(p, "chunk")
    BY <1>1, <1>4, HasNothing DEF HoldsAt, HoldsWith, Grows
  <2> QED BY <1>0, <1>2, <1>3, <1>4, <1>5, <2>1, <2>2, GoOK, QuietStep
<1>6. CASE End(p)
  BY <1>2, <1>3, <1>6, EndStep
<1>7. CASE run' = [run EXCEPT ![p].tries = 2]
  <2>1. PICK s : s = [run[p] EXCEPT !.tries = 2]
    OBVIOUS
  <2>2. run' = [run EXCEPT ![p] = s]
    BY <1>1, <1>7, <2>1 DEF RunOK
  <2>3. s \in RunState /\ s.stage = run[p].stage /\ s.work = run[p].work /\ s.image = run[p].image
    BY <1>1, <2>1 DEF RunState
  <2>4. s.level = run[p].level /\ s.refs = run[p].refs /\ s.todo = run[p].todo /\ s.start = run[p].start
        /\ s.seen = run[p].seen /\ s.flag = run[p].flag
    BY <1>1, <2>1 DEF RunState
  <2>5. s.page = run[p].page /\ s.batch = run[p].batch /\ s.item = run[p].item /\ s.made = run[p].made
        /\ s.results = run[p].results /\ s.lost = run[p].lost
    BY <1>1, <2>1 DEF RunState
  <2>6. RunOK' /\ run'[p] = s /\ \A q \in Procs : q # p => run'[q] = run[q]
    BY <1>1, <2>2, <2>3, RunMoves
  <2>7. RoleOK(p) /\ PagesOK(p) /\ ToldOK(p) /\ HoldOK(p)
    BY DEF Inv, ThreadOK
  <2>8. setting'.pdf = setting.pdf /\ setting'.size = setting.size /\ setting'.text = setting.text /\ raced' = raced
        /\ index' = index /\ files' = files
    BY <1>2, <1>3, QuietGrows DEF Quiet, SameSetting, ReadImage
  <2>9. RoleOK(p)'
    <3>1. Role(p, s)
      BY <2>3, <2>4, <2>7 DEF RoleOK, Role
    <3> QED BY <2>6, <3>1 DEF RoleOK, Role
  <2>10. PagesOK(p)'
    <3>1. CASE run[p].work = "pdf"
      <4>1. Pages(run[p], setting.pdf, setting.size)
        BY <2>7, <3>1 DEF PagesOK
      <4>2. Pages(s, setting.pdf, setting.size)
        BY <1>0, <2>3, <2>5, <4>1, PagesGo
      <4>3. Pages(run'[p], setting'.pdf, setting'.size)
        BY <2>6, <2>8, <4>2
      <4> QED BY <2>3, <2>6, <3>1, <4>3 DEF PagesOK, Pages, Left
    <3>2. CASE run[p].work # "pdf"
      BY <2>3, <2>5, <2>6, <2>7, <3>2 DEF PagesOK, Single
    <3> QED BY <3>1, <3>2
  <2>11. ToldOK(p)'
    BY <1>4, <2>5, <2>6, <2>7, ToldStays
  <2>12. HoldOK(p)'
    BY <1>0, <1>4, <2>3, <2>4, <2>5, <2>6, <2>7, <2>8 DEF HoldOK, Has, Refilling
  <2>13. p = "op" => OpOK'
    BY <1>0, <1>4, <2>3, <2>4, <2>6, OpWorks DEF Inside
  <2>14. \A j : Touches(p, j)' => Touches(p, j)
    BY <2>3, <2>5, <2>6, <2>8 DEF Touches
  <2> QED BY <1>2, <1>3, <2>6, <2>9, <2>10, <2>11, <2>12, <2>13, <2>14, QuietStep DEF ThreadOK
<1> QED BY <1>5, <1>6, <1>7 DEF ReadImage

\* The chunks and the vectors of an image.
LEMMA PutsStep ==
  ASSUME Inv, NEW p \in Procs, PutChunk(p) \/ PutRegions(p) \/ PutText(p) \/ PutSpots(p) \/ PutVision(p)
  PROVE  Inv'
<1>0. run[p].stage \in {"chunk", "regions", "text", "retext", "rewhole", "spots", "respots", "vision"}
      /\ run[p].stage \in Inside
      /\ UNCHANGED <<setting, assets, files, saved, memory, permission, raced>> /\ visionUp' \in BOOLEAN
      /\ torn' \subseteq Images
      /\ Parts = {"chunk", "regions", "text", "spots", "vision"}
  <2>1. visionUp' \in BOOLEAN /\ torn' \subseteq Images
    BY DEF PutChunk, PutRegions, PutText, PutSpots, PutVision, Inv, StoreTypes
  <2> QED BY <2>1 DEF PutChunk, PutRegions, PutText, PutSpots, PutVision, At, Inside, unstored, Parts
<1>1. PICK i \in Images : i = run[p].image
  BY <1>0, AtImage
<1>2. HoldOK(p) /\ permission' \subseteq Permissions /\ run[p].flag \in BOOLEAN
  BY <1>0, AtImage, PermissionType DEF RunState
<1>3. i \notin raced => Has(run[p].stage, run[p].flag, i) \subseteq index[i]
                        /\ (run[p].stage = "rewhole" => ~run[p].flag)
  BY <1>0, <1>1, <1>2 DEF HoldOK
<1>4. CASE PutChunk(p)
  <2>1. index' = [index EXCEPT ![i] = @ \cup {"chunk"}]
    BY <1>1, <1>4 DEF PutChunk, Put
  <2>2. PICK stage \in {"regions", "vision"} : Go(p, stage) /\ stage = IF HasText(i) THEN "regions" ELSE "vision"
    BY <1>1, <1>4 DEF PutChunk
  <2>3. Has(stage, run[p].flag, i) \subseteq {"chunk"} /\ stage \in Inside \ {"rewhole"}
    BY <2>2 DEF Has, Refilling, Inside
  <2> QED BY <1>0, <1>1, <2>1, <2>2, <2>3, PutStep
<1>5. CASE PutRegions(p)
  <2>1. index' = [index EXCEPT ![i] = @ \cup {"regions"}] /\ Go(p, "encode") /\ run[p].stage = "regions"
    BY <1>1, <1>5 DEF PutRegions, Put, At
  <2>2. Has("encode", run[p].flag, i) \subseteq Has("regions", run[p].flag, i) \cup {"regions"}
    BY DEF Has, Refilling
  <2> QED BY <1>0, <1>1, <1>3, <2>1, <2>2, PutStep DEF Inside
<1>6. CASE PutText(p)
  <2>1. index' = [index EXCEPT ![i] = @ \cup {"text"}]
    BY <1>1, <1>6 DEF PutText, Put
  <2>2. CASE run[p].stage \in {"text", "retext"} /\ Go(p, IF run[p].stage = "text" THEN "spots" ELSE "respots")
    <3>1. PICK stage \in {"spots", "respots"} :
            Go(p, stage) /\ stage = IF run[p].stage = "text" THEN "spots" ELSE "respots"
      BY <2>2
    <3>2. Has(stage, run[p].flag, i) \subseteq Has(run[p].stage, run[p].flag, i) \cup {"text"}
          /\ stage \in Inside \ {"rewhole"}
      BY <2>2, <3>1 DEF Has, Refilling, Inside
    <3>3. i \notin raced => Has(stage, run[p].flag, i) \subseteq index[i] \cup {"text"}
      BY <1>3, <3>2
    <3> QED BY <1>0, <1>1, <2>1, <3>1, <3>2, <3>3, PutStep
  <2>3. CASE run[p].stage = "rewhole" /\ Proceed(p, run[p].flag)
    <3>1. i \notin raced => ~run[p].flag
      BY <1>3, <2>3
    <3> QED BY <1>0, <1>1, <2>1, <2>3, <3>1, PutLastStep
  <2> QED BY <1>6, <2>2, <2>3 DEF PutText, At
<1>7. CASE PutSpots(p)
  <2>1. index' = [index EXCEPT ![i] = @ \cup {"spots"}]
    BY <1>1, <1>7 DEF PutSpots, Put
  <2>2. CASE run[p].stage = "spots" /\ Go(p, "vision")
    <3>1. Has("vision", run[p].flag, i) \subseteq Has("spots", run[p].flag, i) \cup {"spots"}
      BY DEF Has, Refilling
    <3> QED BY <1>0, <1>1, <1>3, <2>1, <2>2, <3>1, PutStep DEF Inside
  <2>3. CASE run[p].stage = "respots" /\ Proceed(p, run[p].flag)
    <3>1. run[p].flag => Has("respots", run[p].flag, i) = {"chunk", "text", "regions", "vision"}
      BY DEF Has, Refilling
    <3>2. run[p].flag /\ i \notin raced => {"chunk", "vision", "regions", "text"} \subseteq index[i] \cup {"spots"}
      BY <1>3, <2>3, <3>1
    <3> QED BY <1>0, <1>1, <2>1, <2>3, <3>2, PutLastStep
  <2> QED BY <1>7, <2>2, <2>3 DEF PutSpots, At
<1>8. CASE PutVision(p)
  <2>0. run[p].stage = "vision" /\ torn' = torn
    BY <1>8 DEF PutVision, At
  <2>1. ASSUME End(p), UNCHANGED index
        PROVE  Inv'
    <3>1. Quiet
      BY <1>0, <2>0, <2>1, SettingStays DEF Quiet, Inv, StoreTypes, stored
    <3> QED BY <1>0, <1>2, <2>1, <3>1, EndStep
  <2>2. CASE Put(p, "vision") /\ Return(p, "success")
    <3>1. index' = [index EXCEPT ![i] = @ \cup {"vision"}]
      BY <1>1, <2>2 DEF Put
    <3>2. i \notin raced => "chunk" \in index[i] /\ (HasText(i) => "regions" \in index[i] /\ "text" \in index[i])
      BY <1>3, <2>0 DEF Has, Refilling
    <3>3. i \notin raced => {"chunk", "vision"} \subseteq index[i] \cup {"vision"}
                            /\ (HasText(i) => {"regions", "text"} \subseteq index[i] \cup {"vision"})
      BY <3>2
    <3>4. i \notin raced => "chunk" \in index[i] /\ (HasText(i) => "regions" \in index[i])
      BY <3>2
    <3> QED BY <1>0, <1>1, <2>2, <3>1, <3>3, <3>4, PutStep
  <2>3. CASE Return(p, "failed") /\ UNCHANGED index
    <3>1. Quiet
      BY <1>0, <2>0, <2>3, SettingStays DEF Quiet, Inv, StoreTypes, stored
    <3>2. Grows /\ Sensitive' = Sensitive
      BY <1>0, <1>2, <3>1, QuietGrows
    <3>3. "failed" \in Statuses /\ "failed" # "success"
      BY DEF Statuses
    <3> QED BY <1>0, <1>1, <1>2, <2>3, <3>1, <3>2, <3>3, ReturnOK, QuietStep
  <2> QED BY <1>8, <2>1, <2>2, <2>3 DEF PutVision
<1> QED BY <1>4, <1>5, <1>6, <1>7, <1>8

-----------------------------------------------------------------------------
(* ingest_pdf.                                                             *)

\* A thread that works on a PDF.
LEMMA AtPages ==
  ASSUME Inv, NEW p \in Procs, run[p].stage \in {"page", "batch", "embed", "save"}
  PROVE  /\ RunOK /\ HoldOK(p) /\ ToldOK(p) /\ run[p] \in RunState /\ p = "worker" /\ p # "op" /\ run[p].work = "pdf"
         /\ Pages(run[p], setting.pdf, setting.size)
         /\ run[p].page \in Nat /\ run[p].item \in Nat /\ Len(run[p].batch) \in Nat
         /\ MaxPages \in Nat /\ MaxPages >= 1
         /\ Len(setting.pdf) \in Nat /\ Len(setting.pdf) <= MaxPages /\ setting.size \in Nat \ {0}
         /\ \A n \in 1..Len(setting.pdf) : setting.pdf[n] \in Images
         /\ \A k \in 1..Len(run[p].batch) : run[p].batch[k] \in 1..Len(setting.pdf)
<1>1. RunOK /\ RoleOK(p) /\ PagesOK(p) /\ HoldOK(p) /\ ToldOK(p) /\ run[p] \in RunState
  BY DEF Inv, ThreadOK, RunOK
<1>2. run[p].work = "pdf" /\ p = "worker" /\ p # "op"
  BY <1>1 DEF RoleOK, Role, Storing, Inside, RunState, Works, Procs
<1>3. Pages(run[p], setting.pdf, setting.size)
  BY <1>1, <1>2 DEF PagesOK
<1>4. /\ run[p].page \in Nat /\ run[p].item \in Nat /\ Len(run[p].batch) \in Nat /\ MaxPages \in Nat /\ MaxPages >= 1
      /\ Len(setting.pdf) \in Nat /\ Len(setting.pdf) <= MaxPages /\ setting.size \in Nat \ {0}
      /\ \A n \in 1..Len(setting.pdf) : setting.pdf[n] \in Images
  BY <1>1, RowNumbers, SettingFacts DEF Inv
<1>5. \A k \in 1..Len(run[p].batch) : run[p].batch[k] \in 1..Len(setting.pdf)
  <2>1. \A k \in 1..Len(run[p].batch) : run[p].batch[k] \in 1..MaxPages /\ run[p].batch[k] <= Len(setting.pdf)
    BY <1>1, <1>3, RowNumbers DEF Pages
  <2> QED BY <1>4, <2>1
<1> QED BY <1>1, <1>2, <1>3, <1>4, <1>5

\* A thread that goes on with a PDF.
LEMMA PdfOK ==
  ASSUME Inv, Grows, NEW p \in Procs, run[p].stage \in {"page", "batch", "embed", "save"},
         NEW s \in RunState, run' = [run EXCEPT ![p] = s], s.work = "pdf", Pages(s, setting.pdf, setting.size),
         s.lost = run[p].lost, s.stage \in {"page", "store", "batch", "embed", "save", "check", "report"},
         s.stage \in {"store", "check"} => s.image \in Images,
         s.stage = "check" => \E k \in 1..Len(s.batch) : s.image = setting.pdf[s.batch[k]],
         s.batch = run[p].batch \/ s.batch = << >>,
         s.made = run[p].made \/ s.made = << >>,
         \A x \in s.results \ run[p].results :
           x.status = "success" /\ x.image \notin run[p].lost \cup raced => Whole(x.image)
  PROVE  /\ RunOK' /\ (\A q \in Procs : q # p => run'[q] = run[q]) /\ ThreadOK(p)'
         /\ \A i : Touches(p, i)' => Touches(p, i)
<1>0. /\ RunOK /\ HoldOK(p) /\ ToldOK(p) /\ run[p] \in RunState /\ p = "worker" /\ p # "op" /\ run[p].work = "pdf"
  BY AtPages
<1>1. RunOK' /\ run'[p] = s /\ \A q \in Procs : q # p => run'[q] = run[q]
  BY <1>0, RunMoves
<1>2. setting'.pdf = setting.pdf /\ setting'.size = setting.size /\ setting'.text = setting.text
      /\ raced \subseteq raced'
      /\ Known \subseteq Known'
  BY DEF Grows, SameSetting
<1>3. RoleOK(p)'
  <2>1. Role(p, s)
    BY <1>0 DEF Role, Storing, Inside
  <2> QED BY <1>1, <2>1 DEF RoleOK, Role
<1>4. PagesOK(p)'
  <2>1. Pages(run'[p], setting'.pdf, setting'.size)
    BY <1>1, <1>2
  <2>2. run'[p].work = "pdf"
    BY <1>1
  <2> QED BY <2>1, <2>2 DEF PagesOK, Pages, Left
<1>5. ToldOK(p)'
  <2>1. ASSUME NEW x \in Told(p)', x.status = "success", x.image \notin run[p].lost \cup raced'
        PROVE  Whole(x.image)'
    <3>1. x \in s.results \/ \E k \in 1..Len(s.made) : x = s.made[k]
      BY <1>1, <2>1 DEF Told
    <3>2. x \in Told(p) \/ x \in s.results \ run[p].results
      BY <3>1, EmptySeq DEF Told
    <3>3. Whole(x.image)
      BY <1>0, <1>2, <2>1, <3>2 DEF ToldOK
    <3>4. PICK i : i = x.image
      OBVIOUS
    <3> QED BY <3>3, <3>4, WholeStays
  <2> QED BY <1>1, <2>1 DEF ToldOK
<1>6. HoldOK(p)'
  <2>1. \A k \in 1..Len(s.batch) : setting.pdf[s.batch[k]] \in Known' \cup raced'
    BY <1>0, <1>2, EmptySeq DEF HoldOK
  <2> QED BY <1>1, <1>2, <2>1 DEF HoldOK, Inside, Has, Refilling
<1>7. ASSUME NEW i, Touches(p, i)' PROVE Touches(p, i)
  <2>1. \E k \in 1..Len(s.batch) : setting.pdf[s.batch[k]] = i
    BY <1>1, <1>2, <1>7 DEF Touches, Inside
  <2> QED BY <1>0, <2>1, EmptySeq DEF Touches
<1> QED BY <1>1, <1>3, <1>4, <1>5, <1>6, <1>7 DEF ThreadOK

\* The next page.
LEMMA NextPageStep ==
  ASSUME Inv, NEW p \in Procs, NextPage(p)
  PROVE  Inv'
<1>0. run[p].stage = "page" /\ UNCHANGED <<setting, stored, permission, visionUp, raced>>
  BY DEF NextPage, At
<1>1. /\ RunOK /\ run[p] \in RunState /\ p # "op" /\ run[p].work = "pdf"
      /\ Pages(run[p], setting.pdf, setting.size)
      /\ run[p].page \in Nat /\ Len(run[p].batch) \in Nat /\ MaxPages \in Nat /\ MaxPages >= 1
      /\ Len(setting.pdf) \in Nat /\ Len(setting.pdf) <= MaxPages
      /\ \A n \in 1..Len(setting.pdf) : setting.pdf[n] \in Images
  BY <1>0, AtPages
<1>2. Quiet
  BY <1>0, SettingStays DEF Quiet, Inv, StoreTypes
<1>3. permission' \subseteq Permissions /\ visionUp' \in BOOLEAN
  BY <1>0, PermissionType DEF Inv, StoreTypes
<1>4. Grows
  BY <1>2, <1>3, QuietGrows
<1>5. run[p].page \in 1..MaxPages + 1 /\ run[p].page >= 1
  BY <1>1, RowParts
<1>6. CASE End(p)
  BY <1>2, <1>3, <1>6, EndStep
<1>7. CASE /\ run[p].page <= Len(setting.pdf) /\ Reusable(run[p].page)
           /\ run' = [run EXCEPT ![p].page = @ + 1,
                                 ![p].results = @ \cup {[page |-> run[p].page, image |-> saved[run[p].page].image,
                                                         status |-> saved[run[p].page].status]}]
  <2>1. PICK n : n = run[p].page
    OBVIOUS
  <2>2. n \in 1..Len(setting.pdf) /\ n \in 1..MaxPages /\ n + 1 \in 1..MaxPages + 1
    BY <1>1, <1>5, <1>7, <2>1
  <2>3. saved[n] \in Result /\ saved[n].image = setting.pdf[n] /\ saved[n].image \in Images
        /\ saved[n].status \in Statuses
    BY <1>7, <2>1, <2>2 DEF Reusable, Inv, StoreTypes, StoresOK, Result
  <2>4. PICK x : x = [page |-> n, image |-> saved[n].image, status |-> saved[n].status]
    OBVIOUS
  <2>5. x \in [page: 1..MaxPages, image: Images, status: Statuses] /\ x.page = n /\ x.image = setting.pdf[n]
        /\ x.status = saved[n].status
    BY <2>2, <2>3, <2>4
  <2>6. PICK results : results = run[p].results \cup {x}
    OBVIOUS
  <2>7. results \in SUBSET [page: 1..MaxPages, image: Images, status: Statuses]
    BY <1>1, <2>5, <2>6, RowParts
  <2>8. PICK s : s = [run[p] EXCEPT !.page = n + 1, !.results = results]
    OBVIOUS
  <2>9. run' = [run EXCEPT ![p] = s]
    BY <1>1, <1>7, <2>1, <2>4, <2>6, <2>8 DEF RunOK, RunState
  <2>10. s \in RunState /\ s.page = n + 1 /\ s.results = results /\ s.stage = "page" /\ s.work = "pdf"
    BY <1>0, <1>1, <2>2, <2>7, <2>8 DEF RunState
  <2>11. s.batch = run[p].batch /\ s.item = run[p].item /\ s.made = run[p].made /\ s.lost = run[p].lost
    BY <1>1, <2>8 DEF RunState
  <2>12. Pages(s, setting.pdf, setting.size)
    <3>1. s.results = run[p].results \cup {x}
      BY <2>6, <2>10
    <3> QED BY <1>0, <1>1, <1>7, <2>1, <2>5, <2>10, <2>11, <3>1, PagesReuse
  <2>13. ASSUME NEW y \in s.results \ run[p].results, y.status = "success", y.image \notin run[p].lost \cup raced
         PROVE  Whole(y.image)
    <3>1. y = x
      BY <2>6, <2>10, <2>13
    <3>2. PICK i \in Images : i = saved[n].image
      BY <2>3
    <3>3. y.image = i /\ i \notin raced /\ saved[n].status = "success"
      BY <2>3, <2>5, <2>13, <3>1, <3>2
    <3>4. i \in Known /\ "text" \in index[i] /\ "vision" \in index[i]
      BY <1>7, <2>1, <3>2, <3>3 DEF Reusable
    <3>5. "chunk" \in index[i] /\ (HasText(i) => "regions" \in index[i])
      BY <3>3, <3>4 DEF Inv, StoresOK
    <3> QED BY <3>3, <3>4, <3>5 DEF Whole
  <2>14. /\ RunOK' /\ (\A q \in Procs : q # p => run'[q] = run[q]) /\ ThreadOK(p)'
         /\ \A i : Touches(p, i)' => Touches(p, i)
    BY <1>0, <1>4, <2>9, <2>10, <2>11, <2>12, <2>13, PdfOK
  <2> QED BY <1>1, <1>2, <1>3, <2>14, QuietStep
<1>8. CASE /\ run[p].page <= Len(setting.pdf)
           /\ run' = [run EXCEPT ![p].stage = "store", ![p].image = setting.pdf[run[p].page]]
  <2>1. PICK i \in Images : i = setting.pdf[run[p].page]
    BY <1>1, <1>5, <1>8
  <2>2. PICK s : s = [run[p] EXCEPT !.stage = "store", !.image = i]
    OBVIOUS
  <2>3. run' = [run EXCEPT ![p] = s]
    BY <1>1, <1>8, <2>1, <2>2 DEF RunOK
  <2>4. s \in RunState /\ s.stage = "store" /\ s.image = i /\ s.work = "pdf"
    BY <1>1, <2>2, StageNames DEF RunState
  <2>5. s.page = run[p].page /\ s.batch = run[p].batch /\ s.item = run[p].item /\ s.made = run[p].made
        /\ s.results = run[p].results /\ s.lost = run[p].lost
    BY <1>1, <2>2 DEF RunState
  <2>6. Pages(s, setting.pdf, setting.size)
    BY <1>0, <1>1, <1>8, <2>1, <2>4, <2>5, PagesLeave
  <2>7. /\ RunOK' /\ (\A q \in Procs : q # p => run'[q] = run[q]) /\ ThreadOK(p)'
        /\ \A j : Touches(p, j)' => Touches(p, j)
    BY <1>0, <1>4, <2>3, <2>4, <2>5, <2>6, PdfOK
  <2> QED BY <1>1, <1>2, <1>3, <2>7, QuietStep
<1>9. CASE run[p].page > Len(setting.pdf) /\ Go(p, IF run[p].batch = << >> THEN "report" ELSE "batch")
  <2>1. PICK stage \in {"report", "batch"} : stage = IF run[p].batch = << >> THEN "report" ELSE "batch"
    OBVIOUS
  <2>2. PICK s : s = [run[p] EXCEPT !.stage = stage]
    OBVIOUS
  <2>3. run' = [run EXCEPT ![p] = s]
    BY <1>1, <1>9, <2>1, <2>2 DEF RunOK, Go
  <2>4. s \in RunState /\ s.stage = stage /\ s.work = "pdf"
    <3>1. stage \in Stages
      BY <2>1 DEF Stages
    <3> QED BY <1>1, <2>2, <3>1 DEF RunState
  <2>5. s.page = run[p].page /\ s.batch = run[p].batch /\ s.item = run[p].item /\ s.made = run[p].made
        /\ s.results = run[p].results /\ s.lost = run[p].lost
    BY <1>1, <2>2 DEF RunState
  <2>6. Pages(s, setting.pdf, setting.size)
    BY <1>0, <1>1, <1>9, <2>1, <2>4, <2>5, PagesLeave
  <2>7. /\ RunOK' /\ (\A q \in Procs : q # p => run'[q] = run[q]) /\ ThreadOK(p)'
        /\ \A j : Touches(p, j)' => Touches(p, j)
    BY <1>0, <1>4, <2>1, <2>3, <2>4, <2>5, <2>6, PdfOK
  <2> QED BY <1>1, <1>2, <1>3, <2>7, QuietStep
<1> QED BY <1>6, <1>7, <1>8, <1>9 DEF NextPage

\* The text of a batch.
LEMMA ReadBatchStep ==
  ASSUME Inv, NEW p \in Procs, ReadBatch(p)
  PROVE  Inv'
<1>0. run[p].stage = "batch" /\ UNCHANGED <<setting, stored, permission, visionUp, raced>>
  BY DEF ReadBatch, At
<1>1. /\ RunOK /\ run[p] \in RunState /\ p # "op" /\ run[p].work = "pdf"
      /\ Pages(run[p], setting.pdf, setting.size)
  BY <1>0, AtPages
<1>2. Quiet
  BY <1>0, SettingStays DEF Quiet, Inv, StoreTypes
<1>3. permission' \subseteq Permissions /\ visionUp' \in BOOLEAN
  BY <1>0, PermissionType DEF Inv, StoreTypes
<1>4. Grows
  BY <1>2, <1>3, QuietGrows
<1>5. CASE End(p)
  BY <1>2, <1>3, <1>5, EndStep
<1>6. CASE Go(p, "embed")
  <2>2. PICK s : s = [run[p] EXCEPT !.stage = "embed"]
    OBVIOUS
  <2>3. run' = [run EXCEPT ![p] = s]
    BY <1>1, <1>6, <2>2 DEF RunOK, Go
  <2>4. s \in RunState /\ s.stage = "embed" /\ s.work = "pdf" /\ s.image = run[p].image
    BY <1>1, <2>2 DEF RunState, Stages
  <2>5. s.page = run[p].page /\ s.batch = run[p].batch /\ s.item = run[p].item /\ s.made = run[p].made
        /\ s.results = run[p].results /\ s.lost = run[p].lost
    BY <1>1, <2>2 DEF RunState
  <2>6. Pages(s, setting.pdf, setting.size)
    BY <1>0, <1>1, <2>4, <2>5, PagesGo
  <2>7. /\ RunOK' /\ (\A q \in Procs : q # p => run'[q] = run[q]) /\ ThreadOK(p)'
        /\ \A j : Touches(p, j)' => Touches(p, j)
    BY <1>0, <1>4, <2>3, <2>4, <2>5, <2>6, PdfOK
  <2> QED BY <1>1, <1>2, <1>3, <2>7, QuietStep
<1> QED BY <1>5, <1>6 DEF ReadBatch

\* The vectors of a batch.
LEMMA EmbedBatchStep ==
  ASSUME Inv, NEW p \in Procs, EmbedBatch(p)
  PROVE  Inv'
<1>0. run[p].stage = "embed" /\ UNCHANGED <<setting, stored, permission, raced>>
  BY DEF EmbedBatch, At
<1>1. /\ RunOK /\ run[p] \in RunState /\ p # "op" /\ run[p].work = "pdf"
      /\ Pages(run[p], setting.pdf, setting.size) /\ Len(run[p].batch) \in Nat /\ run[p].item \in Nat
      /\ \A n \in 1..Len(setting.pdf) : setting.pdf[n] \in Images
      /\ \A k \in 1..Len(run[p].batch) : run[p].batch[k] \in 1..Len(setting.pdf)
  BY <1>0, AtPages
<1>2. Quiet
  BY <1>0, SettingStays DEF Quiet, Inv, StoreTypes
<1>3. permission' \subseteq Permissions /\ visionUp' \in BOOLEAN
  BY <1>0, PermissionType DEF Inv, StoreTypes, EmbedBatch
<1>4. Grows
  BY <1>2, <1>3, QuietGrows
<1>5. CASE End(p)
  BY <1>2, <1>3, <1>5, EndStep
<1>6. ASSUME NEW vec \in {"ok", "failed"},
             run' = [run EXCEPT ![p].vec = vec, ![p].item = 1, ![p].stage = "check",
                                ![p].image = setting.pdf[run[p].batch[1]]]
      PROVE  Inv'
  <2>0. 1 \in 1..Len(run[p].batch) /\ 1 \in 1..MaxPages
    <3>1. run[p].item \in 1..Len(run[p].batch)
      BY <1>0, <1>1 DEF Pages
    <3> QED BY <1>1, <3>1, MediaAssumption
  <2>1. PICK i \in Images : i = setting.pdf[run[p].batch[1]]
    BY <1>1, <2>0
  <2>2. PICK s : s = [run[p] EXCEPT !.vec = vec, !.item = 1, !.stage = "check", !.image = i]
    OBVIOUS
  <2>3. run' = [run EXCEPT ![p] = s]
    BY <1>1, <1>6, <2>1, <2>2 DEF RunOK
  <2>4. s \in RunState /\ s.stage = "check" /\ s.item = 1 /\ s.image = i /\ s.work = "pdf"
    <3>1. "check" \in Stages
      BY DEF Stages
    <3> QED BY <1>1, <2>0, <2>2, <3>1 DEF RunState
  <2>5. s.page = run[p].page /\ s.batch = run[p].batch /\ s.made = run[p].made
        /\ s.results = run[p].results /\ s.lost = run[p].lost
    BY <1>1, <2>2 DEF RunState
  <2>6. Pages(s, setting.pdf, setting.size)
    BY <1>0, <1>1, <2>1, <2>4, <2>5, PagesEmbedded
  <2>8. \E k \in 1..Len(s.batch) : s.image = setting.pdf[s.batch[k]]
    BY <2>0, <2>1, <2>4, <2>5
  <2>7. /\ RunOK' /\ (\A q \in Procs : q # p => run'[q] = run[q]) /\ ThreadOK(p)'
        /\ \A j : Touches(p, j)' => Touches(p, j)
    BY <1>0, <1>4, <2>3, <2>4, <2>5, <2>6, <2>8, PdfOK
  <2> QED BY <1>1, <1>2, <1>3, <2>7, QuietStep
<1> QED BY <1>5, <1>6 DEF EmbedBatch

\* The job has returned.
LEMMA ReportStep ==
  ASSUME Inv, NEW p \in Procs, Report(p)
  PROVE  Inv'
<1>1. Quiet
  BY SettingStays DEF Quiet, Inv, StoreTypes, Report
<1>2. permission' \subseteq Permissions /\ visionUp' \in BOOLEAN
  BY PermissionType DEF Inv, StoreTypes, Report
<1> QED BY <1>1, <1>2, EndStep DEF Report

\* A result is saved.
LEMMA SavePageStep ==
  ASSUME Inv, NEW p \in Procs, SavePage(p)
  PROVE  Inv'
<1>0. run[p].stage = "save" /\ UNCHANGED <<setting, assets, files, index, memory, torn, permission, visionUp, raced>>
  BY DEF SavePage, At
<1>1. /\ RunOK /\ HoldOK(p) /\ ToldOK(p) /\ run[p] \in RunState /\ p # "op" /\ run[p].work = "pdf"
      /\ Pages(run[p], setting.pdf, setting.size) /\ setting.size \in Nat \ {0}
      /\ run[p].item \in Nat /\ Len(run[p].batch) \in Nat /\ MaxPages \in Nat /\ MaxPages >= 1
      /\ Len(setting.pdf) \in Nat /\ Len(setting.pdf) <= MaxPages
      /\ \A k \in 1..Len(run[p].batch) : run[p].batch[k] \in 1..Len(setting.pdf)
  BY <1>0, AtPages
<1>2. PICK k : k = run[p].item
  OBVIOUS
<1>3. k \in 1..Len(run[p].batch) /\ Len(run[p].made) = Len(run[p].batch) /\ k \in Nat
      /\ run[p].made[k].image = setting.pdf[run[p].batch[k]]
  BY <1>0, <1>1, <1>2 DEF Pages
<1>4. PICK n \in 1..Len(setting.pdf) : n = run[p].batch[k]
  BY <1>1, <1>3
<1>5. PICK r \in Result : r = run[p].made[k]
  BY <1>1, <1>3, RowNumbers
<1>6. r.image = setting.pdf[n] /\ r.image \in Images /\ r.status \in Statuses /\ n \in 1..MaxPages /\ r # NoResult
  <2>1. r.status # "none"
    BY DEF Result, Statuses
  <2> QED BY <1>1, <1>3, <1>4, <1>5, <2>1 DEF Result, NoResult
<1>7. saved' = [saved EXCEPT ![n] = r]
  BY <1>2, <1>4, <1>5 DEF SavePage
<1>8. PICK x : x = [page |-> n, image |-> r.image, status |-> r.status]
  OBVIOUS
<1>9. x \in [page: 1..MaxPages, image: Images, status: Statuses] /\ x.page = n /\ x.image = r.image
      /\ x.status = r.status
  BY <1>6, <1>8
<1>10. PICK results : results = run[p].results \cup {x}
  OBVIOUS
<1>11. results \in SUBSET [page: 1..MaxPages, image: Images, status: Statuses]
  BY <1>1, <1>9, <1>10, RowParts
<1>12. PICK rest : rest = [run[p] EXCEPT !.results = results, !.item = k + 1]
  OBVIOUS
<1>13. run' = [run EXCEPT ![p] = IF k = Len(run[p].batch)
                                 THEN [rest EXCEPT !.stage = "page", !.batch = << >>, !.made = << >>, !.item = 1]
                                 ELSE rest]
  <2>1. rest = [run[p] EXCEPT !.results = @ \cup {[page |-> n, image |-> r.image, status |-> r.status]},
                              !.item = @ + 1]
    BY <1>1, <1>2, <1>8, <1>10, <1>12 DEF RunState
  <2> QED BY <1>2, <1>4, <1>5, <2>1 DEF SavePage
<1>14. rest.page = run[p].page /\ rest.batch = run[p].batch /\ rest.made = run[p].made /\ rest.results = results
       /\ rest.lost = run[p].lost /\ rest.work = "pdf" /\ rest.stage = "save" /\ rest.item = k + 1
  BY <1>0, <1>1, <1>12 DEF RunState
<1>15. /\ assets' = assets /\ files' = files /\ index' = index /\ memory' = memory /\ setting' = setting
       /\ raced' = raced
       /\ Known' = Known /\ Sensitive' = Sensitive
  BY <1>0 DEF Known, Sensitive
<1>16. Grows
  BY <1>15, SettingStays DEF Grows, Inv
<1>17. StoreTypes'
  <2>1. saved' \in [1..MaxPages -> Result \cup {NoResult}]
    BY <1>7 DEF Inv, StoreTypes
  <2> QED BY <1>0, <2>1 DEF Inv, StoreTypes
<1>18. StoresOK'
  <2>1. \A m \in 1..MaxPages : saved'[m] # NoResult => m <= Len(setting.pdf) /\ saved'[m].image = setting.pdf[m]
    <3>1. \A m \in 1..MaxPages : saved[m] # NoResult => m <= Len(setting.pdf) /\ saved[m].image = setting.pdf[m]
      BY DEF Inv, StoresOK
    <3>2. saved \in [1..MaxPages -> Result \cup {NoResult}]
      BY DEF Inv, StoreTypes
    <3>3. n <= Len(setting.pdf)
      BY <1>1
    <3> TAKE m \in 1..MaxPages
    <3>4. CASE m = n
      <4>1. saved'[m] = r
        BY <1>7, <3>2, <3>4
      <4> QED BY <1>6, <3>3, <3>4, <4>1
    <3>5. CASE m # n
      <4>1. saved'[m] = saved[m]
        BY <1>7, <3>2, <3>5
      <4> QED BY <3>1, <4>1
    <3> QED BY <3>4, <3>5
  <2> QED BY <1>0, <1>15, <2>1 DEF Inv, StoresOK, HasText, Text
<1>19. x.status = "success" /\ x.image \notin run[p].lost \cup raced => Whole(x.image)
  <2>1. r \in Told(p)
    BY <1>1, <1>3, <1>5 DEF Told
  <2> QED BY <1>1, <1>9, <2>1 DEF ToldOK
<1>20. /\ RunOK' /\ (\A q \in Procs : q # p => run'[q] = run[q]) /\ ThreadOK(p)'
       /\ \A i : Touches(p, i)' => Touches(p, i)
  <2>1. CASE k = Len(run[p].batch)
    <3>1. PICK s : s = [rest EXCEPT !.stage = "page", !.batch = << >>, !.made = << >>, !.item = 1]
      OBVIOUS
    <3>2. run' = [run EXCEPT ![p] = s]
      BY <1>13, <2>1, <3>1
    <3>3. PICK t : t = [run[p] EXCEPT !.results = results, !.stage = "page", !.item = 1]
      OBVIOUS
    <3>4. s = [t EXCEPT !.batch = << >>, !.made = << >>]
      BY <1>1, <1>12, <3>1, <3>3 DEF RunState
    <3>5. t \in RunState /\ t.stage = "page" /\ t.item = 1 /\ t.results = results /\ t.work = "pdf"
      <4>1. "page" \in Stages /\ 1 \in 1..MaxPages
        BY <1>1 DEF Stages
      <4> QED BY <1>1, <1>11, <3>3, <4>1 DEF RunState
    <3>6. t.page = run[p].page /\ t.lost = run[p].lost
      BY <1>1, <3>3 DEF RunState
    <3>7. s \in RunState /\ s.batch = << >> /\ s.made = << >> /\ s.stage = "page" /\ s.item = 1
      <4>1. << >> \in Seq(Result) /\ << >> \in Seq(1..MaxPages)
        BY EmptySeq
      <4> QED BY <3>4, <3>5, <4>1 DEF RunState
    <3>8. s.results = results /\ s.work = "pdf" /\ s.page = run[p].page /\ s.lost = run[p].lost
      BY <3>4, <3>5, <3>6 DEF RunState
    <3>9. Pages(s, setting.pdf, setting.size)
      BY <1>0, <1>1, <1>2, <1>4, <1>5, <1>9, <1>10, <2>1, <3>7, <3>8, PagesSaved
    <3> QED BY <1>0, <1>10, <1>16, <1>19, <3>2, <3>7, <3>8, <3>9, PdfOK
  <2>2. CASE k # Len(run[p].batch)
    <3>2. run' = [run EXCEPT ![p] = rest]
      BY <1>13, <2>2
    <3>3. k + 1 \in 1..MaxPages
      <4>1. Len(run[p].batch) <= setting.size /\ setting.size \in 1..MaxPages
        BY <1>1, SettingFacts DEF Pages, Inv
      <4> QED BY <1>1, <1>3, <2>2, <4>1
    <3>4. rest \in RunState
      BY <1>1, <1>11, <1>12, <3>3 DEF RunState
    <3>9. Pages(rest, setting.pdf, setting.size)
      BY <1>0, <1>1, <1>2, <1>4, <1>5, <1>9, <1>10, <1>14, <2>2, PagesSaved
    <3> QED BY <1>0, <1>10, <1>14, <1>16, <1>19, <3>2, <3>4, <3>9, PdfOK
  <2> QED BY <2>1, <2>2
<1> QED BY <1>1, <1>15, <1>16, <1>17, <1>18, <1>20, GrowStep

-----------------------------------------------------------------------------
(* VisualMemoryManager.                                                    *)

\* The thread that holds the lock goes to a stage that stores and indexes nothing.
LEMMA OpGoes ==
  ASSUME Inv, Grows, run["op"].work \in {"remember", "approve", "delete", "answer", "recall"},
         NEW s \in RunState, run' = [run EXCEPT !["op"] = s], Role("op", s), s.work = run["op"].work,
         s.stage \notin {"raise", "insert", "report"} \cup Inside,
         s.results = run["op"].results, s.made = run["op"].made, s.lost = run["op"].lost
  PROVE  RunOK' /\ run'["op"] = s /\ (\A q \in Procs : q # "op" => run'[q] = run[q]) /\ ThreadOK("op")'
<1>1. "op" \in Procs
  BY DEF Procs
<1>2. RunOK /\ RoleOK("op") /\ PagesOK("op") /\ ToldOK("op")
  BY <1>1 DEF Inv, ThreadOK
<1>3. RunOK' /\ run'["op"] = s /\ \A q \in Procs : q # "op" => run'[q] = run[q]
  BY <1>1, <1>2, RunMoves
<1>4. RoleOK("op")'
  BY <1>3 DEF RoleOK, Role
<1>5. PagesOK("op")'
  <2>1. Single(run["op"]) /\ run["op"].stage # "report"
    BY <1>2 DEF PagesOK, RoleOK, Role, Storing, Inside
  <2> QED BY <1>3, <2>1 DEF PagesOK, Single
<1>6. ToldOK("op")'
  BY <1>1, <1>2, <1>3, ToldStays
<1>7. HoldOK("op")'
  BY <1>3 DEF HoldOK, Inside
<1> QED BY <1>3, <1>4, <1>5, <1>6, <1>7 DEF ThreadOK

\* The thread that holds the lock, in the stages that only it has.
LEMMA AtOp ==
  ASSUME Inv
  PROVE  /\ "op" \in Procs /\ RunOK /\ RoleOK("op") /\ Role("op", run["op"]) /\ OpOK /\ run["op"] \in RunState
         /\ run["op"].work \in Works
<1>1. "op" \in Procs
  BY DEF Procs
<1>2. RunOK /\ RoleOK("op") /\ OpOK
  BY <1>1 DEF Inv, ThreadOK
<1>3. run["op"] \in RunState
  BY <1>1, <1>2 DEF RunOK
<1> QED BY <1>1, <1>2, <1>3, RowParts DEF RoleOK

\* The rows are read.
LEMMA LoadAssetsStep ==
  ASSUME Inv, LoadAssets("op")
  PROVE  Inv'
<1>0. run["op"].stage = "load" /\ UNCHANGED <<setting, stored, permission, visionUp, raced>>
  BY DEF LoadAssets, At
<1>1. "op" \in Procs /\ RunOK /\ Role("op", run["op"]) /\ OpOK /\ run["op"] \in RunState /\ run["op"].work \in Works
  BY AtOp
<1>2. Quiet
  BY <1>0, SettingStays DEF Quiet, Inv, StoreTypes
<1>3. permission' \subseteq Permissions /\ visionUp' \in BOOLEAN
  BY <1>0, PermissionType DEF Inv, StoreTypes
<1>4. Grows /\ Known' = Known /\ Sensitive' = Sensitive
  BY <1>2, <1>3, QuietGrows
<1>5. CASE End("op")
  BY <1>1, <1>2, <1>3, <1>5, EndStep
<1>6. CASE ~End("op")
  <2>1. PICK f \in SUBSET Images : f = run["op"].refs
    BY <1>1, RowParts
  <2>2. PICK stage \in {"ensure", "judge"} : stage = IF run["op"].work = "remember" THEN "ensure" ELSE "judge"
    OBVIOUS
  <2>3. f \subseteq Known /\ run' = [run EXCEPT !["op"].seen = f \cap Sensitive, !["op"].todo = f, !["op"].stage = stage]
    BY <1>6, <2>1, <2>2 DEF LoadAssets
  <2>4. PICK seen \in SUBSET Images : seen = f \cap Sensitive
    BY <2>1
  <2>5. PICK s : s = [run["op"] EXCEPT !.seen = seen, !.todo = f, !.stage = stage]
    OBVIOUS
  <2>6. run' = [run EXCEPT !["op"] = s]
    BY <1>1, <2>3, <2>4, <2>5 DEF RunOK
  <2>7. s \in RunState /\ s.seen = seen /\ s.todo = f /\ s.stage = stage /\ s.work = run["op"].work
    <3>1. stage \in Stages
      BY <2>2 DEF Stages
    <3> QED BY <1>1, <2>1, <2>4, <2>5, <3>1 DEF RunState
  <2>8. s.results = run["op"].results /\ s.made = run["op"].made /\ s.lost = run["op"].lost /\ s.image = run["op"].image
    BY <1>1, <2>5 DEF RunState
  <2>9. s.refs = run["op"].refs /\ s.start = run["op"].start /\ s.level = run["op"].level
    BY <1>1, <2>5 DEF RunState
  <2>10. run["op"].work \in {"remember", "approve"}
    BY <1>0, <1>1 DEF Role, Storing, Inside, Works
  <2>11. Role("op", s)
    BY <1>1, <2>1, <2>2, <2>7, <2>8, <2>9, <2>10 DEF Role, Storing, Inside
  <2>12. s.stage \notin {"raise", "insert", "report"} \cup Inside
    BY <2>2, <2>7 DEF Inside
  <2>13. RunOK' /\ run'["op"] = s /\ (\A q \in Procs : q # "op" => run'[q] = run[q]) /\ ThreadOK("op")'
    BY <1>4, <2>6, <2>7, <2>8, <2>10, <2>11, <2>12, OpGoes
  <2>14. run["op"].start \subseteq Sensitive
    BY <1>1, <2>10 DEF OpOK
  <2>15. OpOK'
    BY <1>4, <2>1, <2>2, <2>3, <2>4, <2>7, <2>9, <2>10, <2>13, <2>14 DEF OpOK
  <2> QED BY <1>1, <1>2, <1>3, <2>13, <2>15, QuietStep
<1> QED BY <1>5, <1>6

\* An image without chunks is indexed first.
LEMMA EnsureIndexedStep ==
  ASSUME Inv, EnsureIndexed("op")
  PROVE  Inv'
<1>0. run["op"].stage = "ensure" /\ UNCHANGED <<setting, stored, permission, visionUp, raced>>
  BY DEF EnsureIndexed, At
<1>1. "op" \in Procs /\ RunOK /\ Role("op", run["op"]) /\ OpOK /\ run["op"] \in RunState /\ run["op"].work \in Works
  BY AtOp
<1>2. Quiet
  BY <1>0, SettingStays DEF Quiet, Inv, StoreTypes
<1>3. permission' \subseteq Permissions /\ visionUp' \in BOOLEAN
  BY <1>0, PermissionType DEF Inv, StoreTypes
<1>4. Grows /\ Known' = Known /\ Sensitive' = Sensitive
  BY <1>2, <1>3, QuietGrows
<1>5. run["op"].work = "remember" /\ run["op"].todo \subseteq Images
  <2>1. run["op"].work = "remember"
    BY <1>0, <1>1 DEF Role, Storing, Inside, Works
  <2> QED BY <1>1, <2>1 DEF Role
<1>6. ASSUME NEW s \in RunState, run' = [run EXCEPT !["op"] = s], s.work = "remember", s.stage \in {"ensure", "judge", "store"},
             s.stage = "store" => s.image \in Images, s.todo \subseteq Images, s.refs = run["op"].refs,
             s.start = run["op"].start, s.seen = run["op"].seen, s.results = run["op"].results,
             s.made = run["op"].made, s.lost = run["op"].lost
      PROVE  Inv'
  <2>1. run["op"].refs \in Facts
    BY <1>1, <1>5 DEF Role
  <2>2. Role("op", s)
    BY <1>6, <2>1 DEF Role, Storing, Inside
  <2>3. s.stage \notin {"raise", "insert", "report"} \cup Inside
    BY <1>6 DEF Inside
  <2>4. RunOK' /\ run'["op"] = s /\ (\A q \in Procs : q # "op" => run'[q] = run[q]) /\ ThreadOK("op")'
    BY <1>4, <1>5, <1>6, <2>2, <2>3, OpGoes
  <2>5. OpOK'
    BY <1>0, <1>1, <1>4, <1>5, <1>6, <2>4 DEF OpOK
  <2> QED BY <1>1, <1>2, <1>3, <2>4, <2>5, QuietStep
<1>7. CASE Go("op", "judge")
  <2>1. PICK s : s = [run["op"] EXCEPT !.stage = "judge"]
    OBVIOUS
  <2>2. run' = [run EXCEPT !["op"] = s]
    BY <1>1, <1>7, <2>1 DEF Go, RunOK
  <2>3. s \in RunState /\ s.stage = "judge" /\ s.work = "remember" /\ s.todo = run["op"].todo
    BY <1>1, <1>5, <2>1, StageNames DEF RunState
  <2>4. s.refs = run["op"].refs /\ s.start = run["op"].start /\ s.seen = run["op"].seen /\ s.results = run["op"].results
        /\ s.made = run["op"].made /\ s.lost = run["op"].lost
    BY <1>1, <2>1 DEF RunState
  <2> QED BY <1>5, <1>6, <2>2, <2>3, <2>4
<1>8. ASSUME NEW i \in run["op"].todo, NEW rest, rest = [run["op"] EXCEPT !.todo = @ \ {i}],
             run' = [run EXCEPT !["op"] = rest]
      PROVE  Inv'
  <2>1. PICK todo : todo = run["op"].todo \ {i}
    OBVIOUS
  <2>2. todo \subseteq Images /\ todo \in SUBSET Images
    BY <1>5, <2>1
  <2>3. rest = [run["op"] EXCEPT !.todo = todo]
    BY <1>1, <1>8, <2>1 DEF RunState
  <2>4. rest \in RunState /\ rest.todo = todo /\ rest.stage = "ensure" /\ rest.work = "remember"
    BY <1>0, <1>1, <1>5, <2>2, <2>3 DEF RunState
  <2>5. rest.refs = run["op"].refs /\ rest.start = run["op"].start /\ rest.seen = run["op"].seen
        /\ rest.results = run["op"].results /\ rest.made = run["op"].made /\ rest.lost = run["op"].lost
    BY <1>1, <2>3 DEF RunState
  <2> QED BY <1>6, <1>8, <2>2, <2>4, <2>5
<1>9. ASSUME NEW i \in run["op"].todo, NEW rest, rest = [run["op"] EXCEPT !.todo = @ \ {i}],
             run' = [run EXCEPT !["op"] = [rest EXCEPT !.stage = "store", !.image = Again(i), !.tries = 1]]
      PROVE  Inv'
  <2>1. PICK todo : todo = run["op"].todo \ {i}
    OBVIOUS
  <2>2. todo \subseteq Images /\ todo \in SUBSET Images /\ i \in Images
    BY <1>5, <2>1
  <2>3. rest = [run["op"] EXCEPT !.todo = todo]
    BY <1>1, <1>9, <2>1 DEF RunState
  <2>4. rest \in RunState /\ rest.todo = todo /\ rest.work = "remember"
    BY <1>1, <1>5, <2>2, <2>3 DEF RunState
  <2>5. rest.refs = run["op"].refs /\ rest.start = run["op"].start /\ rest.seen = run["op"].seen
        /\ rest.results = run["op"].results /\ rest.made = run["op"].made /\ rest.lost = run["op"].lost
    BY <1>1, <2>3 DEF RunState
  <2>6. PICK j \in Images : j = Again(i)
    BY <2>2, SettingFacts DEF Again, Inv
  <2>7. PICK s : s = [rest EXCEPT !.stage = "store", !.image = j, !.tries = 1]
    OBVIOUS
  <2>8. run' = [run EXCEPT !["op"] = s]
    BY <1>9, <2>6, <2>7
  <2>9. s \in RunState /\ s.stage = "store" /\ s.image = j /\ s.work = "remember" /\ s.todo = todo
    <3>1. "store" \in Stages /\ 1 \in 1..2
      BY DEF Stages
    <3>2. s \in RunState
      BY <2>4, <2>7, <3>1 DEF RunState
    <3>3. s.stage = "store" /\ s.image = j /\ s.work = "remember" /\ s.todo = todo
      BY <2>4, <2>7 DEF RunState
    <3> QED BY <3>2, <3>3
  <2>10. s.refs = run["op"].refs /\ s.start = run["op"].start /\ s.seen = run["op"].seen
         /\ s.results = run["op"].results /\ s.made = run["op"].made /\ s.lost = run["op"].lost
    BY <2>4, <2>5, <2>7 DEF RunState
  <2> QED BY <1>6, <2>2, <2>8, <2>9, <2>10
<1>10. CASE End("op")
  BY <1>1, <1>2, <1>3, <1>10, EndStep
<1> QED BY <1>7, <1>8, <1>9, <1>10 DEF EnsureIndexed

\* What is sensitive is not remembered.
LEMMA JudgeStep ==
  ASSUME Inv, Judge("op")
  PROVE  Inv'
<1>0. run["op"].stage = "judge" /\ UNCHANGED <<setting, stored, permission, visionUp, raced>>
  BY DEF Judge, At
<1>1. "op" \in Procs /\ RunOK /\ Role("op", run["op"]) /\ OpOK /\ run["op"] \in RunState /\ run["op"].work \in Works
  BY AtOp
<1>2. Quiet
  BY <1>0, SettingStays DEF Quiet, Inv, StoreTypes
<1>3. permission' \subseteq Permissions /\ visionUp' \in BOOLEAN
  BY <1>0, PermissionType DEF Inv, StoreTypes
<1>4. Grows /\ Known' = Known /\ Sensitive' = Sensitive
  BY <1>2, <1>3, QuietGrows
<1>5. CASE End("op")
  BY <1>1, <1>2, <1>3, <1>5, EndStep
<1>6. CASE ~End("op")
  <2>1. PICK stage \in {"add", "activate"} : stage = IF run["op"].work = "remember" THEN "add" ELSE "activate"
    OBVIOUS
  <2>2. run["op"].seen = {} /\ run' = [run EXCEPT !["op"].stage = stage]
    BY <1>6, <2>1 DEF Judge, Go
  <2>3. PICK s : s = [run["op"] EXCEPT !.stage = stage]
    OBVIOUS
  <2>4. run' = [run EXCEPT !["op"] = s]
    BY <1>1, <2>2, <2>3 DEF RunOK
  <2>5. s \in RunState /\ s.stage = stage /\ s.work = run["op"].work /\ s.refs = run["op"].refs /\ s.todo = run["op"].todo
    <3>1. stage \in Stages
      BY <2>1 DEF Stages
    <3> QED BY <1>1, <2>3, <3>1 DEF RunState
  <2>6. s.results = run["op"].results /\ s.made = run["op"].made /\ s.lost = run["op"].lost
        /\ s.start = run["op"].start /\ s.seen = run["op"].seen
    BY <1>1, <2>3 DEF RunState
  <2>7. run["op"].work \in {"remember", "approve"}
    BY <1>0, <1>1 DEF Role, Storing, Inside, Works
  <2>8. Role("op", s)
    BY <1>1, <2>1, <2>5, <2>7 DEF Role, Storing, Inside
  <2>9. s.stage \notin {"raise", "insert", "report"} \cup Inside
    BY <2>1, <2>5 DEF Inside
  <2>10. RunOK' /\ run'["op"] = s /\ (\A q \in Procs : q # "op" => run'[q] = run[q]) /\ ThreadOK("op")'
    BY <1>4, <2>4, <2>5, <2>6, <2>7, <2>8, <2>9, OpGoes
  <2>11. OpOK'
    BY <1>0, <1>1, <1>4, <2>1, <2>2, <2>5, <2>6, <2>7, <2>10 DEF OpOK
  <2> QED BY <1>1, <1>2, <1>3, <2>10, <2>11, QuietStep
<1> QED BY <1>5, <1>6

\* A memory changes its status.
LEMMA MemoryChanges ==
  ASSUME Inv, NEW f \in Facts, NEW status \in Live \cup {"deleted"}, memory' = [memory EXCEPT ![f] = status],
         status \in Live => f \subseteq Known,
         UNCHANGED <<setting, assets, files, index, saved, torn, permission, visionUp, raced>>
  PROVE  /\ Grows /\ StoreTypes' /\ StoresOK' /\ Known' = Known /\ Sensitive' = Sensitive
         /\ memory'[f] = status /\ \A g \in Facts : g # f => memory'[g] = memory[g]
<1>1. memory \in [Facts -> Live \cup {"none", "deleted"}]
  BY DEF Inv, StoreTypes
<1>2. /\ memory' \in [Facts -> Live \cup {"none", "deleted"}]
      /\ memory'[f] = status /\ \A g \in Facts : g # f => memory'[g] = memory[g]
  BY <1>1
<1>3. Known' = Known /\ Sensitive' = Sensitive
  BY DEF Known, Sensitive
<1>4. Grows
  BY <1>3, SettingStays DEF Grows, Inv
<1>5. StoreTypes'
  BY <1>2 DEF Inv, StoreTypes
<1>6. \A g \in Facts : memory'[g] \in Live => g \subseteq Known
  BY <1>2 DEF Inv, StoresOK
<1>7. StoresOK'
  BY <1>3, <1>6 DEF Inv, StoresOK, HasText, Text
<1> QED BY <1>2, <1>3, <1>4, <1>5, <1>7

\* A memory is kept, or becomes active.
LEMMA KeepMemoryStep ==
  ASSUME Inv, AddMemory("op") \/ ActivateMemory("op")
  PROVE  Inv'
<1>0. run["op"].stage \in {"add", "activate"} /\ End("op")
      /\ UNCHANGED <<setting, assets, files, index, saved, torn, permission, visionUp, raced>>
  BY DEF AddMemory, ActivateMemory, At
<1>1. "op" \in Procs /\ RunOK /\ Role("op", run["op"]) /\ OpOK /\ run["op"] \in RunState /\ run["op"].work \in Works
  BY AtOp
<1>2. run["op"].work \in {"remember", "approve"}
  BY <1>0, <1>1 DEF Role, Storing, Inside, Works
<1>3. PICK f \in Facts : f = run["op"].refs
  BY <1>1, <1>2 DEF Role
<1>4. f \subseteq Known
  BY <1>0, <1>1, <1>2, <1>3 DEF OpOK
<1>5. PICK status \in Live : memory' = [memory EXCEPT ![f] = status]
  <2>1. CASE AddMemory("op")
    <3>1. memory' = [memory EXCEPT ![f] = IF memory[f] \in Live THEN memory[f] ELSE "pending"]
      BY <1>3, <2>1 DEF AddMemory, Inv, StoreTypes
    <3>2. (IF memory[f] \in Live THEN memory[f] ELSE "pending") \in Live
      BY DEF Live
    <3> QED BY <3>1, <3>2
  <2>2. CASE ActivateMemory("op")
    BY <1>3, <2>2 DEF ActivateMemory, Live
  <2> QED BY <2>1, <2>2
<1>6. Grows /\ StoreTypes' /\ StoresOK'
  BY <1>0, <1>4, <1>5, MemoryChanges
<1>7. RunOK' /\ run'["op"] = Idle /\ \A q \in Procs : q # "op" => run'[q] = run[q]
  BY <1>0, <1>1, RunMoves, IdleFresh DEF End
<1>8. ThreadOK("op")'
  BY <1>1, <1>7, IdleOK
<1>9. OpOK'
  BY <1>7 DEF OpOK, Idle
<1> QED BY <1>1, <1>6, <1>7, <1>8, <1>9, GrowStep

-----------------------------------------------------------------------------
(* delete_asset.                                                           *)

\* The memories of an image.
LEMMA FindReferencesStep ==
  ASSUME Inv, FindReferences("op")
  PROVE  Inv'
<1>0. run["op"].stage = "refs" /\ UNCHANGED <<setting, stored, permission, visionUp, raced>>
  BY DEF FindReferences, At
<1>1. "op" \in Procs /\ RunOK /\ Role("op", run["op"]) /\ OpOK /\ run["op"] \in RunState /\ run["op"].work \in Works
  BY AtOp
<1>2. Quiet
  BY <1>0, SettingStays DEF Quiet, Inv, StoreTypes
<1>3. permission' \subseteq Permissions /\ visionUp' \in BOOLEAN
  BY <1>0, PermissionType DEF Inv, StoreTypes
<1>4. Grows /\ Known' = Known /\ Sensitive' = Sensitive /\ memory' = memory
  BY <1>2, <1>3, QuietGrows
<1>5. CASE End("op")
  BY <1>1, <1>2, <1>3, <1>5, EndStep
<1>6. CASE ~End("op")
  <2>1. PICK found : found = {f \in Facts : run["op"].image \in f /\ memory[f] \in Live}
    OBVIOUS
  <2>2. run' = [run EXCEPT !["op"].stage = "forget", !["op"].todo = found]
    BY <1>6, <2>1 DEF FindReferences
  <2>3. found \in (SUBSET Images) \cup SUBSET Facts
    <3>1. \A f \in found : f \in Facts
      BY <2>1
    <3>2. found \in SUBSET Facts
      BY <3>1
    <3> QED BY <3>2
  <2>4. PICK s : s = [run["op"] EXCEPT !.stage = "forget", !.todo = found]
    OBVIOUS
  <2>5. run' = [run EXCEPT !["op"] = s]
    BY <1>1, <2>2, <2>4 DEF RunOK
  <2>6. s \in RunState /\ s.stage = "forget" /\ s.todo = found /\ s.work = run["op"].work /\ s.image = run["op"].image
    <3>1. "forget" \in Stages
      BY DEF Stages
    <3> QED BY <1>1, <2>3, <2>4, <3>1 DEF RunState
  <2>7. s.results = run["op"].results /\ s.made = run["op"].made /\ s.lost = run["op"].lost
    BY <1>1, <2>4 DEF RunState
  <2>8. run["op"].work = "delete"
    BY <1>0, <1>1 DEF Role, Storing, Inside, Works
  <2>9. Role("op", s)
    BY <1>1, <2>6, <2>8 DEF Role, Storing, Inside
  <2>10. s.stage \notin {"raise", "insert", "report"} \cup Inside
    BY <2>6 DEF Inside
  <2>11. RunOK' /\ run'["op"] = s /\ (\A q \in Procs : q # "op" => run'[q] = run[q]) /\ ThreadOK("op")'
    BY <1>4, <2>5, <2>6, <2>7, <2>8, <2>9, <2>10, OpGoes
  <2>12. OpOK'
    BY <1>4, <2>1, <2>6, <2>8, <2>11 DEF OpOK
  <2> QED BY <1>1, <1>2, <1>3, <2>11, <2>12, QuietStep
<1> QED BY <1>5, <1>6

\* The memories are deleted one by one.
LEMMA ForgetStep ==
  ASSUME Inv, Forget("op")
  PROVE  Inv'
<1>0. run["op"].stage = "forget" /\ UNCHANGED <<setting, assets, files, index, saved, torn, permission, visionUp, raced>>
  BY DEF Forget, At
<1>1. "op" \in Procs /\ RunOK /\ Role("op", run["op"]) /\ OpOK /\ run["op"] \in RunState /\ run["op"].work \in Works
  BY AtOp
<1>2. run["op"].work = "delete"
  BY <1>0, <1>1 DEF Role, Storing, Inside, Works
<1>3. permission' \subseteq Permissions /\ visionUp' \in BOOLEAN
  BY <1>0, PermissionType DEF Inv, StoreTypes
<1>4. ASSUME Grows, StoreTypes', StoresOK', NEW s \in RunState, run' = [run EXCEPT !["op"] = s],
             s.stage \in {"forget", "drop"}, s.work = "delete", s.image = run["op"].image,
             s.results = run["op"].results, s.made = run["op"].made, s.lost = run["op"].lost,
             s.stage = "forget" => \A g \in Facts : s.image \in g /\ memory'[g] \in Live => g \in s.todo,
             s.stage = "drop" => \A g \in Facts : s.image \in g => memory'[g] \notin Live
      PROVE  Inv'
  <2>1. Role("op", s)
    BY <1>1, <1>2, <1>4 DEF Role, Storing, Inside
  <2>2. s.stage \notin {"raise", "insert", "report"} \cup Inside
    BY <1>4 DEF Inside
  <2>3. RunOK' /\ run'["op"] = s /\ (\A q \in Procs : q # "op" => run'[q] = run[q]) /\ ThreadOK("op")'
    BY <1>2, <1>4, <2>1, <2>2, OpGoes
  <2>4. OpOK'
    BY <1>4, <2>3 DEF OpOK
  <2> QED BY <1>1, <1>4, <2>3, <2>4, GrowStep
<1>5. ASSUME NEW f \in run["op"].todo, memory' = [memory EXCEPT ![f] = "deleted"],
             run' = [run EXCEPT !["op"].todo = @ \ {f}]
      PROVE  Inv'
  <2>1. PICK todo : todo = run["op"].todo \ {f}
    OBVIOUS
  <2>2. todo \in (SUBSET Images) \cup SUBSET Facts
    <3>1. run["op"].todo \in (SUBSET Images) \cup SUBSET Facts
      BY <1>1 DEF RunState
    <3> QED BY <2>1, <3>1
  <2>3. PICK s : s = [run["op"] EXCEPT !.todo = todo]
    OBVIOUS
  <2>4. run' = [run EXCEPT !["op"] = s]
    BY <1>1, <1>5, <2>1, <2>3 DEF RunOK, RunState
  <2>5. s \in RunState /\ s.stage = "forget" /\ s.todo = todo /\ s.work = "delete" /\ s.image = run["op"].image
    BY <1>0, <1>1, <1>2, <2>2, <2>3 DEF RunState
  <2>6. s.results = run["op"].results /\ s.made = run["op"].made /\ s.lost = run["op"].lost
    BY <1>1, <2>3 DEF RunState
  <2>7. \A g \in Facts : run["op"].image \in g /\ memory[g] \in Live => g \in run["op"].todo
    BY <1>0, <1>1 DEF OpOK
  <2>8. /\ Grows /\ StoreTypes' /\ StoresOK'
        /\ \A g \in Facts : g # f => memory'[g] = memory[g]
        /\ f \in Facts => memory'[f] = "deleted"
    <3>1. CASE f \in Facts
      <4>1. "deleted" \in Live \cup {"deleted"} /\ "deleted" \notin Live
        BY DEF Live
      <4> QED BY <1>0, <1>5, <3>1, <4>1, MemoryChanges
    <3>2. CASE f \notin Facts
      <4>1. memory' = memory
        BY <1>5, <3>2 DEF Inv, StoreTypes
      <4>2. Quiet
        BY <1>0, <4>1, SettingStays DEF Quiet, Inv, StoreTypes, stored
      <4> QED BY <1>3, <3>2, <4>1, <4>2, QuietGrows
    <3> QED BY <3>1, <3>2
  <2>9. ASSUME NEW g \in Facts, run["op"].image \in g, memory'[g] \in Live PROVE g \in todo
    <3>1. g # f
      BY <2>8, <2>9 DEF Live
    <3> QED BY <2>1, <2>7, <2>8, <2>9, <3>1
  <2> QED BY <1>4, <2>4, <2>5, <2>6, <2>8, <2>9
<1>6. CASE run["op"].todo = {} /\ Go("op", "drop") /\ UNCHANGED memory
  <2>1. PICK s : s = [run["op"] EXCEPT !.stage = "drop"]
    OBVIOUS
  <2>2. run' = [run EXCEPT !["op"] = s]
    BY <1>1, <1>6, <2>1 DEF RunOK, Go
  <2>3. s \in RunState /\ s.stage = "drop" /\ s.work = "delete" /\ s.image = run["op"].image
    BY <1>1, <1>2, <2>1, StageNames DEF RunState
  <2>4. s.results = run["op"].results /\ s.made = run["op"].made /\ s.lost = run["op"].lost
    BY <1>1, <2>1 DEF RunState
  <2>5. Quiet
    BY <1>0, <1>6, SettingStays DEF Quiet, Inv, StoreTypes, stored
  <2>6. Grows /\ StoreTypes' /\ StoresOK' /\ memory' = memory
    BY <1>3, <2>5, QuietGrows
  <2>7. \A g \in Facts : run["op"].image \in g => memory[g] \notin Live
    BY <1>0, <1>1, <1>6 DEF OpOK
  <2> QED BY <1>4, <2>2, <2>3, <2>4, <2>6, <2>7
<1> QED BY <1>5, <1>6 DEF Forget

\* What a thread has looked up counts as held.
LEMMA TouchHolds ==
  ASSUME Inv, NEW q \in Procs, q # "op", NEW i, Touches(q, i)
  PROVE  i \in Holds(q) /\ run[q].work # "none"
<1>1. RoleOK(q) /\ PagesOK(q) /\ run[q] \in RunState
  BY DEF Inv, ThreadOK, RunOK
<1>2. q \in {"worker", "ui"} /\ run[q].work \in {"none", "index", "pdf", "attach"}
  BY <1>1 DEF RoleOK, Role, Procs
<1>3. CASE run[q].work = "pdf"
  <2>1. Pages(run[q], setting.pdf, setting.size)
    BY <1>1, <1>3 DEF PagesOK
  <2>2. run[q].page \in 1..MaxPages + 1 /\ run[q].page \in Nat /\ Len(run[q].batch) \in Nat /\ MaxPages \in Nat
        /\ Len(setting.pdf) \in Nat
        /\ \A k \in 1..Len(run[q].batch) : run[q].batch[k] \in 1..MaxPages
    BY <1>1, RowParts, RowNumbers, SettingFacts DEF Inv
  <2>3. \A k \in 1..Len(run[q].batch) : run[q].batch[k] \in 1..Len(setting.pdf)
    <3>1. \A k \in 1..Len(run[q].batch) : run[q].batch[k] <= Len(setting.pdf)
      BY <2>1 DEF Pages
    <3> QED BY <2>2, <3>1
  <2>4. \E n \in 1..Len(setting.pdf) : i = setting.pdf[n]
    <3>1. CASE \E k \in 1..Len(run[q].batch) : setting.pdf[run[q].batch[k]] = i
      BY <2>3, <3>1
    <3>2. CASE run[q].stage \in Storing /\ run[q].image = i
      <4>1. run[q].page <= Len(setting.pdf) /\ i = setting.pdf[run[q].page]
        BY <2>1, <3>2 DEF Pages
      <4>2. run[q].page \in 1..Len(setting.pdf)
        BY <2>2, <4>1
      <4> QED BY <4>1, <4>2
    <3>3. CASE run[q].stage \in Inside /\ run[q].image = i
      <4>1. run[q].item \in 1..Len(run[q].batch) /\ i = setting.pdf[run[q].batch[run[q].item]]
        BY <2>1, <3>3 DEF Pages
      <4> QED BY <2>3, <4>1
    <3> QED BY <3>1, <3>2, <3>3 DEF Touches, Storing
  <2> QED BY <1>3, <2>4 DEF Holds
<1>4. CASE run[q].work \in {"index", "attach"}
  BY <1>4 DEF Touches, Holds
<1>5. CASE run[q].work = "none"
  BY <1>1, <1>5 DEF Touches, RoleOK, Role, Inside
<1> QED BY <1>2, <1>3, <1>4, <1>5

\* A step of a deletion: the other threads keep their part of the invariant.
LEMMA OthersStay ==
  ASSUME Inv, NEW i \in Images, i = run["op"].image, UNCHANGED setting, RunOK',
         raced' = IF \E q \in Procs \ {"op"} : i \in Holds(q) THEN raced \cup {i} ELSE raced,
         \A j \in Images : j # i => index'[j] = index[j] /\ (j \in Known => j \in Known') /\ (j \in files => j \in files'),
         NEW q \in Procs, q # "op",
         run'[q].work = run[q].work, run'[q].stage = run[q].stage, run'[q].image = run[q].image,
         run'[q].refs = run[q].refs, run'[q].todo = run[q].todo, run'[q].level = run[q].level,
         run'[q].page = run[q].page, run'[q].batch = run[q].batch, run'[q].item = run[q].item,
         run'[q].made = run[q].made, run'[q].results = run[q].results, run'[q].flag = run[q].flag,
         run[q].work = "none" \/ run[q].lost \subseteq run'[q].lost,
         run[q].work = "none" \/ i \in run'[q].lost \/ (index'[i] = index[i] /\ (i \in Known => i \in Known'))
  PROVE  ThreadOK(q)' /\ (i \notin raced' => ~Touches(q, i)')
<1>1. RoleOK(q) /\ PagesOK(q) /\ ToldOK(q) /\ HoldOK(q) /\ run[q] \in RunState
  BY DEF Inv, ThreadOK, RunOK
<1>2. i \notin raced' => ~Touches(q, i)
  BY TouchHolds
<1>3. raced \subseteq raced' /\ setting'.text = setting.text /\ setting'.pdf = setting.pdf /\ setting'.size = setting.size
  OBVIOUS
<1>4. \A j : Touches(q, j)' <=> Touches(q, j)
  BY <1>3 DEF Touches
<1>5. RoleOK(q)'
  <2>1. Role(q, run'[q])
    BY <1>1 DEF RoleOK, Role
  <2> QED BY <2>1 DEF RoleOK, Role
<1>6. PagesOK(q)'
  <2>1. CASE run[q].work = "pdf"
    <3>1. Pages(run[q], setting.pdf, setting.size)
      BY <1>1, <2>1 DEF PagesOK
    <3>2. Left(run'[q]) = Left(run[q])
      BY DEF Left
    <3>3. Pages(run'[q], setting'.pdf, setting'.size)
      BY <1>3, <3>1, <3>2 DEF Pages
    <3> QED BY <2>1, <3>3 DEF PagesOK, Pages, Left
  <2>2. CASE run[q].work # "pdf"
    BY <1>1, <2>2 DEF PagesOK, Single
  <2> QED BY <2>1, <2>2
<1>7. ToldOK(q)'
  <2>1. Told(q)' = Told(q)
    BY DEF Told
  <2>2. ASSUME NEW x \in Told(q), x.status = "success", x.image \notin run'[q].lost \cup raced'
        PROVE  Whole(x.image)'
    <3>1. PICK j : j = x.image
      OBVIOUS
    <3>4. run[q].work # "none"
      <4>1. CASE run[q].work = "none"
        <5>1. run[q].results = {} /\ run[q].made = << >>
          BY <1>1, <4>1 DEF PagesOK, Single, RoleOK, Role
        <5> QED BY <2>2, <5>1, EmptySeq DEF Told
      <4> QED BY <4>1
    <3>2. Whole(j)
      BY <1>1, <1>3, <2>2, <3>1, <3>4 DEF ToldOK
    <3>3. j \in Images /\ j \in Known
      BY <3>2 DEF Whole, Known
    <3>5. index'[j] = index[j] /\ j \in Known'
      BY <2>2, <3>1, <3>3, <3>4
    <3>6. Whole(j)'
      BY <1>3, <3>2, <3>5 DEF Whole, HasText, Text
    <3> QED BY <3>1, <3>6
  <2> QED BY <2>1, <2>2 DEF ToldOK
<1>8. HoldOK(q)'
  <2>1. PICK j : j = run[q].image
    OBVIOUS
  <2>2. run[q].stage \in {"raise", "insert"} \cup Inside /\ j \notin raced' =>
          /\ j \in Images /\ index'[j] = index[j] /\ (j \in Known => j \in Known') /\ (j \in files => j \in files')
    <3>1. run[q].stage \in {"raise", "insert"} \cup Inside => Touches(q, j) /\ j \in Images
      BY <1>1, <2>1 DEF Touches, RoleOK, Role, Storing, RunState
    <3> QED BY <1>2, <3>1
  <2>3. ASSUME run[q].work = "pdf", NEW k \in 1..Len(run[q].batch)
        PROVE  setting.pdf[run[q].batch[k]] \in Known' \cup raced'
    <3>1. PICK m : m = setting.pdf[run[q].batch[k]]
      OBVIOUS
    <3>2. m \in Known \cup raced /\ Touches(q, m)
      BY <1>1, <2>3, <3>1 DEF HoldOK, Touches
    <3>3. m \in Known => m \in Images
      BY DEF Known
    <3>4. m \in Known' \cup raced'
      BY <1>2, <1>3, <3>2, <3>3
    <3> QED BY <3>1, <3>4
  <2>4. j \notin raced' =>
          /\ run[q].stage = "insert" => j \in files'
          /\ run[q].stage \in {"raise"} \cup Inside => j \in Known'
          /\ run[q].stage \in Inside =>
               Has(run[q].stage, run[q].flag, j) \subseteq index'[j] /\ (run[q].stage = "rewhole" => ~run[q].flag)
    BY <1>1, <1>3, <2>1, <2>2 DEF HoldOK
  <2>5. Has(run[q].stage, run[q].flag, run[q].image)' = Has(run[q].stage, run[q].flag, j)
    BY <1>3, <2>1 DEF Has, HasText, Text
  <2>6. run'[q].stage = run[q].stage /\ run'[q].flag = run[q].flag /\ run'[q].image = j /\ run'[q].work = run[q].work
        /\ run'[q].batch = run[q].batch
    BY <2>1
  <2> QED BY <1>3, <2>3, <2>4, <2>5, <2>6 DEF HoldOK
<1> QED BY <1>2, <1>4, <1>5, <1>6, <1>7, <1>8 DEF ThreadOK

\* The other threads are told that the image is gone.
LEMMA DisturbsOthers ==
  ASSUME Inv, NEW i \in Images, i = run["op"].image, UNCHANGED setting, Disturbs("op"), run["op"].stage \in {"drop", "remove"},
         \A j \in Images : j # i => index'[j] = index[j] /\ (j \in Known => j \in Known') /\ (j \in files => j \in files')
  PROVE  /\ RunOK' /\ ThreadOK("op")' /\ raced \subseteq raced' /\ raced' \subseteq Images
         /\ run'["op"].stage = IF At("op", "drop") THEN "remove" ELSE "unlink"
         /\ run'["op"].work = "delete" /\ run'["op"].image = i
         /\ \A q \in Procs : q # "op" => ThreadOK(q)' /\ (i \notin raced' => ~Touches(q, i)')
<1>1. "op" \in Procs /\ RunOK /\ Role("op", run["op"]) /\ OpOK /\ run["op"] \in RunState /\ run["op"].work \in Works
  BY AtOp
<1>2. run["op"].work = "delete"
  BY <1>1 DEF Role, Storing, Inside, Works
<1>3. PICK stage \in {"remove", "unlink"} : stage = IF At("op", "drop") THEN "remove" ELSE "unlink"
  OBVIOUS
<1>4. PICK s : s = [run["op"] EXCEPT !.stage = stage]
  OBVIOUS
<1>5. s \in RunState /\ s.stage = stage /\ s.work = "delete" /\ s.image = i
  <2>1. stage \in Stages
    BY <1>3 DEF Stages
  <2> QED BY <1>1, <1>2, <1>4, <2>1 DEF RunState
<1>6. s.results = run["op"].results /\ s.made = run["op"].made
  BY <1>1, <1>4 DEF RunState
<1>7. run' = [q \in Procs |-> IF q = "op" THEN s
                              ELSE [run[q] EXCEPT !.lost = IF run[q].work = "none" THEN {} ELSE @ \cup {i}]]
  BY <1>3, <1>4, <1>5 DEF Disturbs
<1>8. ASSUME NEW q \in Procs, q # "op"
      PROVE  /\ run'[q] \in RunState
             /\ run'[q].work = run[q].work /\ run'[q].stage = run[q].stage /\ run'[q].image = run[q].image
             /\ run'[q].refs = run[q].refs /\ run'[q].todo = run[q].todo /\ run'[q].level = run[q].level
             /\ run'[q].page = run[q].page /\ run'[q].batch = run[q].batch /\ run'[q].item = run[q].item
             /\ run'[q].made = run[q].made /\ run'[q].results = run[q].results /\ run'[q].flag = run[q].flag
             /\ run[q].work = "none" \/ (run[q].lost \subseteq run'[q].lost /\ i \in run'[q].lost)
  <2>1. run[q] \in RunState
    BY <1>1 DEF RunOK
  <2>2. PICK lost : lost = IF run[q].work = "none" THEN {} ELSE run[q].lost \cup {i}
    OBVIOUS
  <2>3. lost \in SUBSET Images /\ (run[q].work = "none" \/ (run[q].lost \subseteq lost /\ i \in lost))
    BY <2>1, <2>2, RowParts
  <2>4. PICK t : t = [run[q] EXCEPT !.lost = lost]
    OBVIOUS
  <2>5. run'[q] = t
    BY <1>7, <1>8, <2>1, <2>2, <2>4 DEF RunState
  <2>6. t \in RunState /\ t.lost = lost /\ t.work = run[q].work /\ t.stage = run[q].stage /\ t.image = run[q].image
    BY <2>1, <2>3, <2>4 DEF RunState
  <2>7. t.refs = run[q].refs /\ t.todo = run[q].todo /\ t.level = run[q].level
        /\ t.page = run[q].page /\ t.batch = run[q].batch /\ t.item = run[q].item
        /\ t.made = run[q].made /\ t.results = run[q].results /\ t.flag = run[q].flag
    BY <2>1, <2>4 DEF RunState
  <2> QED BY <2>3, <2>5, <2>6, <2>7
<1>9. run'["op"] = s
  BY <1>1, <1>7
<1>10. RunOK'
  <2>1. \A q \in Procs : run'[q] \in RunState
    BY <1>5, <1>8, <1>9
  <2>2. run' = [q \in Procs |-> run'[q]]
    BY <1>7
  <2> QED BY <2>1, <2>2 DEF RunOK
<1>11. raced' = IF \E q \in Procs \ {"op"} : i \in Holds(q) THEN raced \cup {i} ELSE raced
  BY DEF Disturbs
<1>12. raced \subseteq raced' /\ raced' \subseteq Images
  BY <1>11 DEF Inv, StoreTypes
<1>13. ASSUME NEW q \in Procs, q # "op"
       PROVE  ThreadOK(q)' /\ (i \notin raced' => ~Touches(q, i)')
  BY <1>8, <1>10, <1>11, <1>13, OthersStay
<1>14. ThreadOK("op")'
  <2>1. Single(run["op"])
    BY <1>1, <1>2 DEF Inv, ThreadOK, PagesOK
  <2>2. run["op"].stage # "report"
    OBVIOUS
  <2>3. Role("op", s)
    BY <1>3, <1>5 DEF Role, Storing, Inside
  <2>4. RoleOK("op")'
    BY <1>9, <2>3 DEF RoleOK, Role
  <2>5. PagesOK("op")'
    BY <1>5, <1>6, <1>9, <2>1, <2>2 DEF PagesOK, Single
  <2>6. ToldOK("op")'
    BY <1>1, <1>6, <1>9, <2>1, <2>2, ToldNothing DEF Single
  <2>7. HoldOK("op")'
    BY <1>3, <1>5, <1>9 DEF HoldOK, Inside
  <2> QED BY <2>4, <2>5, <2>6, <2>7 DEF ThreadOK
<1> QED BY <1>3, <1>5, <1>9, <1>10, <1>12, <1>13, <1>14

\* The index of an image.
LEMMA DropIndexStep ==
  ASSUME Inv, DropIndex("op")
  PROVE  Inv'
<1>0. run["op"].stage = "drop" /\ UNCHANGED <<setting, assets, files, saved, memory, torn, permission, visionUp>>
      /\ Disturbs("op") /\ At("op", "drop")
  BY DEF DropIndex, At
<1>1. "op" \in Procs /\ RunOK /\ Role("op", run["op"]) /\ OpOK /\ run["op"] \in RunState /\ run["op"].work \in Works
  BY AtOp
<1>2. run["op"].work = "delete"
  BY <1>0, <1>1 DEF Role, Storing, Inside, Works
<1>3. PICK i \in Images : i = run["op"].image
  BY <1>1, <1>2 DEF Role
<1>4. /\ index' \in [Images -> SUBSET Parts] /\ index'[i] = {} /\ \A j \in Images : j # i => index'[j] = index[j]
  BY <1>3 DEF DropIndex, Inv, StoreTypes
<1>5. Known' = Known /\ Sensitive' = Sensitive
  BY <1>0 DEF Known, Sensitive
<1>6. /\ RunOK' /\ ThreadOK("op")' /\ raced \subseteq raced' /\ raced' \subseteq Images
      /\ run'["op"].stage = "remove" /\ run'["op"].work = "delete" /\ run'["op"].image = i
      /\ \A q \in Procs : q # "op" => ThreadOK(q)' /\ (i \notin raced' => ~Touches(q, i)')
  BY <1>0, <1>3, <1>4, <1>5, DisturbsOthers
<1>7. OpOK'
  <2>1. \A f \in Facts : i \in f => memory[f] \notin Live
    BY <1>0, <1>1, <1>3 DEF OpOK
  <2> QED BY <1>0, <1>4, <1>6, <2>1 DEF OpOK
<1>8. StoreTypes'
  BY <1>0, <1>4, <1>6 DEF Inv, StoreTypes
<1>9. StoresOK'
  <2>1. ASSUME NEW j \in Images \ raced'
        PROVE  /\ index'[j] # {} => j \in Known
               /\ j \in Known => j \in files
               /\ "vision" \in index'[j] => "chunk" \in index'[j] /\ (HasText(j) => "regions" \in index'[j])
    BY <1>4, <1>6 DEF Inv, StoresOK
  <2> QED BY <1>0, <1>5, <2>1 DEF Inv, StoresOK, HasText, Text
<1> QED BY <1>0, <1>6, <1>7, <1>8, <1>9 DEF Inv, SettingOK

\* The row.
LEMMA RemoveRowStep ==
  ASSUME Inv, RemoveRow("op")
  PROVE  Inv'
<1>0. run["op"].stage = "remove" /\ UNCHANGED <<setting, files, index, saved, memory, torn, permission, visionUp>>
      /\ ~At("op", "drop")
  BY DEF RemoveRow, At
<1>1. "op" \in Procs /\ RunOK /\ Role("op", run["op"]) /\ OpOK /\ run["op"] \in RunState /\ run["op"].work \in Works
  BY AtOp
<1>2. run["op"].work = "delete"
  BY <1>0, <1>1 DEF Role, Storing, Inside, Works
<1>3. PICK i \in Images : i = run["op"].image
  BY <1>1, <1>2 DEF Role
<1>4. CASE i \notin Known
  <2>1. End("op") /\ UNCHANGED <<stored, raced>>
    BY <1>0, <1>3, <1>4 DEF RemoveRow, stored
  <2>2. Quiet
    BY <1>0, <2>1, SettingStays DEF Quiet, Inv, StoreTypes
  <2>3. permission' \subseteq Permissions /\ visionUp' \in BOOLEAN
    BY <1>0, PermissionType DEF Inv, StoreTypes
  <2> QED BY <1>1, <2>1, <2>2, <2>3, EndStep
<1>5. CASE i \in Known
  <2>1. assets' = [assets EXCEPT ![i] = "none"] /\ Disturbs("op")
    BY <1>3, <1>5 DEF RemoveRow
  <2>2. assets' \in [Images -> Row] /\ Known' = Known \ {i}
    BY <1>3, <2>1 DEF Inv, StoreTypes, Known, Row
  <2>3. /\ RunOK' /\ ThreadOK("op")' /\ raced \subseteq raced' /\ raced' \subseteq Images
        /\ run'["op"].stage = "unlink" /\ run'["op"].work = "delete" /\ run'["op"].image = i
        /\ \A q \in Procs : q # "op" => ThreadOK(q)' /\ (i \notin raced' => ~Touches(q, i)')
    BY <1>0, <1>3, <2>1, <2>2, DisturbsOthers
  <2>4. \A f \in Facts : i \in f => memory[f] \notin Live
    BY <1>0, <1>1, <1>3 DEF OpOK
  <2>5. i \notin raced' => index[i] = {}
    BY <1>0, <1>1, <1>3, <2>3 DEF OpOK
  <2>6. OpOK'
    BY <1>0, <2>2, <2>3, <2>4, <2>5 DEF OpOK
  <2>7. StoreTypes'
    BY <1>0, <2>2, <2>3 DEF Inv, StoreTypes
  <2>8. StoresOK'
    <3>1. ASSUME NEW j \in Images \ raced'
          PROVE  /\ index[j] # {} => j \in Known'
                 /\ j \in Known' => j \in files
                 /\ "vision" \in index[j] => "chunk" \in index[j] /\ (HasText(j) => "regions" \in index[j])
      BY <2>2, <2>3, <2>5 DEF Inv, StoresOK
    <3>2. \A f \in Facts : memory[f] \in Live => f \subseteq Known'
      BY <2>2, <2>4 DEF Inv, StoresOK
    <3> QED BY <1>0, <3>1, <3>2 DEF Inv, StoresOK, HasText, Text
  <2> QED BY <1>0, <2>3, <2>6, <2>7, <2>8 DEF Inv, SettingOK
<1> QED BY <1>4, <1>5

\* The files.
LEMMA UnlinkStep ==
  ASSUME Inv, Unlink("op")
  PROVE  Inv'
<1>0. run["op"].stage = "unlink" /\ UNCHANGED <<setting, assets, index, saved, memory, torn, permission, visionUp>>
      /\ End("op")
  BY DEF Unlink, At
<1>1. "op" \in Procs /\ RunOK /\ Role("op", run["op"]) /\ OpOK /\ run["op"] \in RunState /\ run["op"].work \in Works
  BY AtOp
<1>2. run["op"].work = "delete"
  BY <1>0, <1>1 DEF Role, Storing, Inside, Works
<1>3. PICK i \in Images : i = run["op"].image
  BY <1>1, <1>2 DEF Role
<1>4. /\ files' = files \ {i} /\ raced \subseteq raced' /\ raced' \subseteq Images
      /\ raced' = IF \E q \in Procs \ {"op"} : i \in Holds(q) THEN raced \cup {i} ELSE raced
  BY <1>3 DEF Unlink, Inv, StoreTypes
<1>5. Known' = Known /\ Sensitive' = Sensitive
  BY <1>0 DEF Known, Sensitive
<1>6. RunOK' /\ run'["op"] = Idle /\ \A q \in Procs : q # "op" => run'[q] = run[q]
  BY <1>0, <1>1, RunMoves, IdleFresh DEF End
<1>7. ThreadOK("op")'
  BY <1>1, <1>6, IdleOK
<1>8. OpOK'
  BY <1>6 DEF OpOK, Idle
<1>9. ASSUME NEW q \in Procs, q # "op" PROVE ThreadOK(q)'
  <2>1. run'[q] = run[q]
    BY <1>6, <1>9
  <2> QED BY <1>0, <1>3, <1>4, <1>5, <1>6, <1>9, <2>1, OthersStay
<1>10. StoreTypes'
  BY <1>0, <1>4 DEF Inv, StoreTypes
<1>11. StoresOK'
  <2>1. i \notin raced => i \notin Known
    BY <1>0, <1>1, <1>3 DEF OpOK
  <2>2. ASSUME NEW j \in Images \ raced'
        PROVE  /\ index[j] # {} => j \in Known
               /\ j \in Known => j \in files'
               /\ "vision" \in index[j] => "chunk" \in index[j] /\ (HasText(j) => "regions" \in index[j])
    BY <1>4, <2>1 DEF Inv, StoresOK
  <2> QED BY <1>0, <1>5, <2>2 DEF Inv, StoresOK, HasText, Text
<1> QED BY <1>0, <1>6, <1>7, <1>8, <1>9, <1>10, <1>11 DEF Inv, SettingOK

-----------------------------------------------------------------------------
(* Answers from images.                                                    *)

\* The user is asked for a word, or not.
LEMMA AskStep ==
  ASSUME Inv, UNCHANGED <<setting, stored, visionUp, raced>>, run["op"].work \in {"answer", "recall"}, End("op"),
         NEW named \in SUBSET Images, run["op"].work = "answer" => run["op"].refs \cap run["op"].start \subseteq named,
         permission' = permission \/ Asks("op", named)
  PROVE  Inv'
<1>1. "op" \in Procs /\ run["op"].refs \in SUBSET Images /\ run["op"].start \in SUBSET Images
  BY AtOp, RowParts
<1>2. permission \subseteq Permissions
  BY PermissionType
<1>3. [work |-> run["op"].work, refs |-> run["op"].refs, named |-> named, start |-> run["op"].start] \in Permissions
  BY <1>1 DEF Permissions
<1>4. permission' \subseteq Permissions
  BY <1>2, <1>3 DEF Asks
<1>5. Quiet /\ visionUp' \in BOOLEAN
  BY SettingStays DEF Quiet, Inv, StoreTypes
<1> QED BY <1>1, <1>4, <1>5, EndStep

\* An answer goes on, with the images it is from.
LEMMA AnswerStep ==
  ASSUME Inv, UNCHANGED <<setting, stored, permission, visionUp, raced>>, run["op"].work \in {"answer", "recall"},
         NEW stage \in {"enforce", "send"}, stage = "enforce" => run["op"].work = "answer",
         NEW refs \in SUBSET Images, stage = "send" => Admitted("op", refs), stage = "enforce" => ~run["op"].flag,
         stage = "send" /\ run["op"].work = "answer" /\ run["op"].flag =>
           refs \cap run["op"].start \subseteq run["op"].seen,
         NEW s, s = [run["op"] EXCEPT !.stage = stage, !.refs = refs], run' = [run EXCEPT !["op"] = s]
  PROVE  Inv'
<1>1. "op" \in Procs /\ RunOK /\ Role("op", run["op"]) /\ OpOK /\ run["op"] \in RunState /\ run["op"].work \in Works
  BY AtOp
<1>2. Quiet
  BY SettingStays DEF Quiet, Inv, StoreTypes
<1>3. permission' \subseteq Permissions /\ visionUp' \in BOOLEAN
  BY PermissionType DEF Inv, StoreTypes
<1>4. Grows /\ Known' = Known /\ Sensitive' = Sensitive /\ memory' = memory
  BY <1>2, <1>3, QuietGrows
<1>5. s \in RunState /\ s.stage = stage /\ s.refs = refs /\ s.work = run["op"].work /\ s.image = run["op"].image
  <2>1. stage \in Stages
    BY DEF Stages
  <2> QED BY <1>1, <2>1 DEF RunState
<1>6. s.results = run["op"].results /\ s.made = run["op"].made /\ s.lost = run["op"].lost
  BY <1>1 DEF RunState
<1>7. s.start = run["op"].start /\ s.flag = run["op"].flag /\ s.seen = run["op"].seen
  BY <1>1 DEF RunState
<1>8. Role("op", s)
  BY <1>1, <1>5 DEF Role, Storing, Inside
<1>9. s.stage \notin {"raise", "insert", "report"} \cup Inside
  BY <1>5 DEF Inside
<1>10. RunOK' /\ run'["op"] = s /\ (\A q \in Procs : q # "op" => run'[q] = run[q]) /\ ThreadOK("op")'
  BY <1>4, <1>5, <1>6, <1>8, <1>9, OpGoes
<1>11. run["op"].start \subseteq Sensitive
  BY <1>1 DEF OpOK
<1>12. stage = "send" =>
         refs \cap run["op"].start = {} \/ setting.policy = "allow"
         \/ (setting.policy = "confirm" /\ run["op"].flag /\ Worded(s))
  BY <1>5, <1>7, <1>11 DEF Admitted, Worded
<1>13. OpOK'
  BY <1>4, <1>5, <1>7, <1>10, <1>11, <1>12 DEF OpOK, Worded
<1> QED BY <1>1, <1>2, <1>3, <1>10, <1>13, QuietStep

\* The list of the images is looked at.
LEMMA AskVisionStep ==
  ASSUME Inv, AskVision("op")
  PROVE  Inv'
<1>1. "op" \in Procs /\ RunOK /\ Role("op", run["op"]) /\ OpOK /\ run["op"] \in RunState /\ run["op"].work \in Works
  BY AtOp
<1>2. run["op"].stage = "ask" /\ UNCHANGED <<setting, stored, visionUp, raced>>
  BY DEF AskVision, At
<1>3. run["op"].work = "answer"
  BY <1>1, <1>2 DEF Role, Storing, Inside, Works
<1>4. PICK refs \in SUBSET Images : refs = run["op"].refs
  BY <1>1, RowParts
<1>5. CASE End("op") /\ (permission' = permission \/ Asks("op", refs \cap Sensitive))
  <2>1. refs \cap run["op"].start \subseteq refs \cap Sensitive /\ refs \cap Sensitive \in SUBSET Images
    BY <1>1, <1>3 DEF OpOK
  <2> QED BY <1>2, <1>3, <1>4, <1>5, <2>1, AskStep
<1>6. CASE Go("op", "enforce") /\ permission' = permission
  <2>1. PICK s : s = [run["op"] EXCEPT !.stage = "enforce", !.refs = refs]
    OBVIOUS
  <2>2. s = [run["op"] EXCEPT !.stage = "enforce"]
    BY <1>1, <1>4, <2>1 DEF RunState
  <2>3. run' = [run EXCEPT !["op"] = s]
    BY <1>1, <1>6, <2>2 DEF Go, RunOK
  <2>4. ~run["op"].flag
    BY <1>1, <1>2 DEF OpOK
  <2> QED BY <1>2, <1>3, <1>6, <2>1, <2>3, <2>4, AnswerStep
<1> QED BY <1>4, <1>5, <1>6 DEF AskVision

\* The policy is looked at.
LEMMA EnforceStep ==
  ASSUME Inv, Enforce("op")
  PROVE  Inv'
<1>1. "op" \in Procs /\ RunOK /\ Role("op", run["op"]) /\ OpOK /\ run["op"] \in RunState /\ run["op"].work \in Works
  BY AtOp
<1>2. run["op"].stage = "enforce" /\ UNCHANGED <<setting, stored, permission, visionUp, raced>>
  BY DEF Enforce, At
<1>3. run["op"].work = "answer"
  BY <1>1, <1>2 DEF Role, Storing, Inside, Works
<1>4. PICK refs \in SUBSET Images : refs = run["op"].refs
  BY <1>1, RowParts
<1>5. CASE End("op")
  <2>1. Quiet /\ permission' \subseteq Permissions /\ visionUp' \in BOOLEAN
    BY <1>2, SettingStays, PermissionType DEF Quiet, Inv, StoreTypes
  <2> QED BY <1>1, <1>5, <2>1, EndStep
<1>6. CASE Go("op", "send") /\ Admitted("op", refs)
  <2>1. PICK s : s = [run["op"] EXCEPT !.stage = "send", !.refs = refs]
    OBVIOUS
  <2>2. s = [run["op"] EXCEPT !.stage = "send"]
    BY <1>1, <1>4, <2>1 DEF RunState
  <2>3. run' = [run EXCEPT !["op"] = s]
    BY <1>1, <1>6, <2>2 DEF Go, RunOK
  <2>4. run["op"].flag => refs \cap run["op"].start \subseteq run["op"].seen
    BY <1>1, <1>2, <1>3, <1>4 DEF OpOK, Worded
  <2> QED BY <1>2, <1>3, <1>6, <2>1, <2>3, <2>4, AnswerStep
<1> QED BY <1>4, <1>5, <1>6 DEF Enforce

\* The index is searched.
LEMMA SearchIndexStep ==
  ASSUME Inv, SearchIndex("op")
  PROVE  Inv'
<1>1. "op" \in Procs /\ RunOK /\ Role("op", run["op"]) /\ run["op"] \in RunState /\ run["op"].work \in Works
  BY AtOp
<1>2. run["op"].stage = "search" /\ UNCHANGED <<setting, stored, visionUp, raced>>
  BY DEF SearchIndex, At
<1>3. run["op"].work = "recall" /\ run["op"].refs \in SUBSET Images
  BY <1>1, <1>2, RowParts DEF Role, Storing, Inside, Works
<1>4. CASE End("op") /\ UNCHANGED permission
  <2>1. Quiet /\ permission' \subseteq Permissions /\ visionUp' \in BOOLEAN
    BY <1>2, <1>4, SettingStays, PermissionType DEF Quiet, Inv, StoreTypes
  <2> QED BY <1>1, <1>4, <2>1, EndStep
<1>5. ASSUME NEW found \in SUBSET Images, End("op"), Asks("op", found \cap Sensitive)
      PROVE  Inv'
  <2>1. found \cap Sensitive \in SUBSET Images
    OBVIOUS
  <2> QED BY <1>2, <1>3, <1>5, <2>1, AskStep
<1>6. ASSUME NEW found \in SUBSET Images, Admitted("op", found), UNCHANGED permission,
             run' = [run EXCEPT !["op"].stage = "send", !["op"].refs = found]
      PROVE  Inv'
  <2>1. PICK s : s = [run["op"] EXCEPT !.stage = "send", !.refs = found]
    OBVIOUS
  <2>2. run' = [run EXCEPT !["op"] = s]
    BY <1>1, <1>6, <2>1 DEF RunOK
  <2> QED BY <1>2, <1>3, <1>6, <2>1, <2>2, AnswerStep
<1>7. ASSUME NEW lex \in SUBSET Images, NEW pictures
      PROVE  Answerable(lex, Near(pictures)) \in SUBSET Images
  BY <1>7 DEF Answerable, Evidence, Near
<1>8. Lexical(run["op"].refs) \in SUBSET Images
  BY <1>3 DEF Lexical
<1>9. CASE \E encoder \in BOOLEAN :
             LET lex == Lexical(run["op"].refs)
                 found == Answerable(lex, Near(lex = {} /\ encoder)) IN
             IF ~setting.cloud \/ found = {} THEN End("op") /\ UNCHANGED permission
             ELSE IF found \cap Sensitive # {} /\ ~run["op"].flag /\ setting.policy = "confirm"
                  THEN End("op") /\ Asks("op", found \cap Sensitive)
             ELSE /\ IF Admitted("op", found)
                     THEN run' = [run EXCEPT !["op"].stage = "send", !["op"].refs = found] ELSE End("op")
                  /\ UNCHANGED permission
  <2>1. PICK lex \in SUBSET Images : lex = Lexical(run["op"].refs)
    BY <1>8
  <2>2. PICK found \in SUBSET Images :
          IF ~setting.cloud \/ found = {} THEN End("op") /\ UNCHANGED permission
          ELSE IF found \cap Sensitive # {} /\ ~run["op"].flag /\ setting.policy = "confirm"
               THEN End("op") /\ Asks("op", found \cap Sensitive)
          ELSE /\ IF Admitted("op", found)
                  THEN run' = [run EXCEPT !["op"].stage = "send", !["op"].refs = found] ELSE End("op")
               /\ UNCHANGED permission
    BY <1>7, <1>9, <2>1
  <2> QED BY <1>4, <1>5, <1>6, <2>2
<1> QED BY <1>4, <1>9 DEF SearchIndex

\* The request goes out, or does not.
LEMMA SendStep ==
  ASSUME Inv, SendImages("op") \/ SendNothing("op")
  PROVE  Inv'
<1>1. run["op"].stage = "send" /\ End("op") /\ UNCHANGED <<setting, stored, permission, visionUp, raced>>
  BY DEF SendImages, SendNothing, At
<1>2. Quiet /\ permission' \subseteq Permissions /\ visionUp' \in BOOLEAN
  BY <1>1, SettingStays, PermissionType DEF Quiet, Inv, StoreTypes
<1> QED BY <1>1, <1>2, AtOp, EndStep

-----------------------------------------------------------------------------
(* A crash, another model, and the whole.                                  *)

\* All threads rest: no duties are left but those of the stores.
LEMMA RestStep ==
  ASSUME SettingOK', StoreTypes', StoresOK', run' = [p \in Procs |-> Idle]
  PROVE  Inv'
<1>1. RunOK'
  BY IdleFresh DEF RunOK
<1>2. \A p \in Procs : run'[p] = Idle
  OBVIOUS
<1>3. \A p \in Procs : ThreadOK(p)'
  BY <1>2, IdleOK
<1>4. OpOK'
  <2>1. run'["op"].work = "none" /\ run'["op"].stage = "idle"
    BY DEF Procs, Idle
  <2> QED BY <2>1 DEF OpOK
<1> QED BY <1>1, <1>3, <1>4 DEF Inv

\* The process crashes.
LEMMA CrashStep ==
  ASSUME Inv, Crash
  PROVE  Inv'
<1>1. SameSetting
  BY CrashUsed DEF Inv, Crash
<1>2. /\ setting'.text = setting.text /\ setting'.pdf = setting.pdf /\ visionUp' \in BOOLEAN
      /\ UNCHANGED <<assets, files, index, saved, memory, permission, raced>>
  BY <1>1 DEF Crash, SameSetting
<1>3. StoreTypes'
  BY <1>2 DEF Crash, Inv, StoreTypes
<1>4. StoresOK'
  BY <1>2 DEF Inv, StoresOK, Known, HasText, Text
<1>5. SettingOK'
  BY <1>1 DEF SameSetting, SettingOK
<1> QED BY <1>3, <1>4, <1>5, RestStep DEF Crash

\* A start with another model drops the vectors of texts; nobody relies on them.
LEMMA ChangeTextModelStep ==
  ASSUME Inv, ChangeTextModel
  PROVE  Inv'
<1>1. SameSetting
  BY CrashUsed DEF Inv, ChangeTextModel
<1>2. SettingOK' /\ setting'.pdf = setting.pdf /\ setting'.text = setting.text
  BY <1>1 DEF SameSetting, SettingOK
<1>3. UNCHANGED <<assets, files, memory, torn, permission, run, raced>> /\ visionUp' = TRUE
      /\ index' = [i \in Images |-> index[i] \ {"text", "spots"}] /\ saved' = [n \in 1..MaxPages |-> NoResult]
  BY DEF ChangeTextModel
<1>4. ASSUME NEW p \in Procs PROVE ThreadOK(p)'
  <2>1. run[p].stage = "idle" /\ run'[p] = run[p] /\ ThreadOK(p) /\ run[p] \in RunState
    BY <1>3 DEF ChangeTextModel, At, Inv, RunOK
  <2>2. run[p].work = "none"
    <3>1. run[p].work \in Works
      BY <2>1, RowParts
    <3> QED BY <2>1, <3>1 DEF ThreadOK, RoleOK, Role, Storing, Inside, Works
  <2>3. run[p].results = {} /\ run[p].made = << >>
    BY <2>1, <2>2 DEF ThreadOK, PagesOK, Single
  <2>4. RoleOK(p)'
    BY <2>1 DEF ThreadOK, RoleOK, Role
  <2>5. PagesOK(p)'
    BY <2>1, <2>2 DEF ThreadOK, PagesOK, Single
  <2>6. ToldOK(p)'
    BY <2>1, <2>3, ToldNothing
  <2>7. HoldOK(p)'
    BY <2>1, <2>2 DEF HoldOK, Inside
  <2> QED BY <2>4, <2>5, <2>6, <2>7 DEF ThreadOK
<1>5. OpOK'
  <2>1. run'["op"] = run["op"] /\ run["op"].stage = "idle" /\ run["op"].work = "none"
    <3>1. run["op"].stage = "idle" /\ Role("op", run["op"]) /\ run["op"].work \in Works
      BY AtOp DEF ChangeTextModel, At, Procs
    <3> QED BY <1>3, <3>1 DEF Role, Storing, Inside, Works
  <2> QED BY <2>1 DEF OpOK
<1>6. \A i \in Images : index'[i] \subseteq index[i] /\ index'[i] = index[i] \ {"text", "spots"}
  BY <1>3
<1>7. StoreTypes'
  BY <1>3, <1>6 DEF Inv, StoreTypes
<1>8. StoresOK'
  <2>1. Known' = Known
    BY <1>3 DEF Known
  <2>2. ASSUME NEW i \in Images \ raced
        PROVE  /\ index'[i] # {} => i \in Known
               /\ i \in Known => i \in files
               /\ "vision" \in index'[i] => "chunk" \in index'[i] /\ (HasText(i) => "regions" \in index'[i])
    BY <1>6 DEF Inv, StoresOK
  <2> QED BY <1>2, <1>3, <2>1, <2>2 DEF Inv, StoresOK, HasText, Text
<1>9. RunOK'
  BY <1>3 DEF Inv, RunOK
<1> QED BY <1>2, <1>4, <1>5, <1>7, <1>8, <1>9 DEF Inv

\* Nothing happens.
LEMMA StutterStep ==
  ASSUME Inv, UNCHANGED vars
  PROVE  Inv'
<1>1. SameSetting
  BY SettingStays DEF Inv, vars
<1>2. Quiet
  BY <1>1 DEF Quiet, vars, stored, Inv, StoreTypes
<1>3. permission' \subseteq Permissions /\ visionUp' \in BOOLEAN
  BY PermissionType DEF vars, Inv, StoreTypes
<1>4. "worker" \in Procs /\ RunOK' /\ run' = run
  BY DEF Procs, vars, Inv, RunOK
<1>5. Grows
  BY <1>2, <1>3, QuietGrows
<1>6. ThreadOK("worker")'
  BY <1>4, <1>5, ThreadStays DEF Inv
<1>7. \A i : Touches("worker", i)' => Touches("worker", i)
  BY <1>1, <1>4 DEF Touches, SameSetting
<1> QED BY <1>2, <1>3, <1>4, <1>6, <1>7, QuietStep

\* At first nothing is stored and every thread rests.
LEMMA InitOK ==
  ASSUME Init
  PROVE  Inv
<1>1. run = [p \in Procs |-> Idle] /\ \A p \in Procs : run[p] = Idle
  BY DEF Init
<1>2. SettingOK
  BY MediaAssumption DEF Init, SettingOK
<1>3. RunOK
  BY <1>1, IdleFresh DEF RunOK
<1>4. ASSUME NEW p \in Procs PROVE ThreadOK(p)
  <2>1. run[p].work = "none" /\ run[p].stage = "idle" /\ run[p].results = {} /\ run[p].made = << >>
    BY <1>1 DEF Idle
  <2>2. RoleOK(p)
    BY <2>1 DEF RoleOK, Role, Storing, Inside
  <2>3. PagesOK(p)
    BY <2>1 DEF PagesOK, Single
  <2>4. ToldOK(p)
    BY <2>1, EmptySeq DEF ToldOK, Told
  <2>5. HoldOK(p)
    BY <2>1 DEF HoldOK, Inside
  <2> QED BY <2>2, <2>3, <2>4, <2>5 DEF ThreadOK
<1>5. OpOK
  <2>1. run["op"].work = "none" /\ run["op"].stage = "idle"
    BY <1>1 DEF Idle, Procs
  <2> QED BY <2>1 DEF OpOK
<1>6. StoreTypes
  BY DEF Init, StoreTypes, Row
<1>7. StoresOK
  BY DEF Init, StoresOK, Live, Known
<1> QED BY <1>2, <1>3, <1>4, <1>5, <1>6, <1>7 DEF Inv

\* Every step keeps the invariant.
LEMMA NextOK ==
  ASSUME Inv, [Next]_vars
  PROVE  Inv'
<1>1. CASE StartIndex \/ StartPdf \/ Attach
  BY <1>1, StartJobs
<1>2. CASE StartRemember \/ StartApprove \/ StartDelete \/ StartAnswer \/ StartRecall
  BY <1>2, StartOps
<1>3. CASE Confirm \/ Crash \/ ChangeTextModel
  BY <1>3, ConfirmStep, CrashStep, ChangeTextModelStep
<1>4. ASSUME NEW p \in Procs, StoreAsset(p) PROVE Inv'
  BY <1>4, LookUpStep, RaiseLevelStep, WriteFilesStep, InsertRowStep DEF StoreAsset
<1>5. ASSUME NEW p \in {"worker", "op"}, IngestImage(p) PROVE Inv'
  <2>1. p \in Procs
    BY DEF Procs
  <2> QED BY <1>5, <2>1, CheckIndexStep, EncodeStep, ReadImageStep, PutsStep DEF IngestImage
<1>6. ASSUME NEW p \in {"worker", "op"}, IngestPdf(p) PROVE Inv'
  <2>1. p \in Procs
    BY DEF Procs
  <2> QED BY <1>6, <2>1, NextPageStep, ReadBatchStep, EmbedBatchStep, SavePageStep, ReportStep DEF IngestPdf
<1>7. CASE VisualMemory("op")
  BY <1>7, LoadAssetsStep, EnsureIndexedStep, JudgeStep, KeepMemoryStep DEF VisualMemory
<1>8. CASE DeleteAsset("op")
  BY <1>8, FindReferencesStep, ForgetStep, DropIndexStep, RemoveRowStep, UnlinkStep DEF DeleteAsset
<1>9. CASE Answer("op")
  BY <1>9, AskVisionStep, EnforceStep, SearchIndexStep, SendStep DEF Answer
<1>10. CASE UNCHANGED vars
  BY <1>10, StutterStep
<1> QED BY <1>1, <1>2, <1>3, <1>4, <1>5, <1>6, <1>7, <1>8, <1>9, <1>10 DEF Next

-----------------------------------------------------------------------------
(* The vectors of regions: a second invariant, on top of the first.        *)

\* The vectors of the regions of an image are there, or a crash left it without
\* them, or a thread is writing them.
Filled(i) == "spots" \in index[i] \/ i \in torn \/ Filling(i)
\* An image with the vector of its text and its own vector is filled.  A thread
\* that puts the vector of a text whose regions were not there when it looked
\* has an image without a vector of its own, or puts a vector once more.
FillOK ==
  /\ \A i \in Images \ raced : HasText(i) /\ {"text", "vision"} \subseteq index[i] => Filled(i)
  /\ \A p \in Procs : run[p].stage = "rewhole" =>
       LET i == run[p].image IN i \notin raced /\ HasText(i) /\ "vision" \in index[i] => "text" \in index[i]

\* Vectors are what they were.
SameVectors == \A i \in Images, part \in {"text", "spots", "vision"} : part \in index'[i] <=> part \in index[i]
\* A thread goes on, and not to the one stage that relies on what it has seen.
Moves(p) == run'[p].stage # "rewhole" /\ \A q \in Procs \ {p} : run'[q] = run[q]

\* No vector changes and no thread leaves half of them.
LEMMA FillStays ==
  ASSUME Inv, FillOK, setting'.text = setting.text, raced \subseteq raced', torn' = torn, SameVectors,
         \A q \in Procs : run[q].stage \in {"spots", "respots"} =>
           run'[q].stage = run[q].stage /\ run'[q].image = run[q].image,
         \A q \in Procs : run'[q].stage = "rewhole" => run[q].stage = "rewhole" /\ run'[q].image = run[q].image
  PROVE  FillOK'
<1>1. ASSUME NEW i \in Images \ raced', HasText(i)', {"text", "vision"} \subseteq index'[i]
      PROVE  Filled(i)'
  <2>1. i \in Images \ raced /\ HasText(i) /\ {"text", "vision"} \subseteq index[i]
    BY <1>1 DEF SameVectors, HasText, Text
  <2>2. Filled(i)
    BY <2>1 DEF FillOK
  <2>3. Filling(i) => Filling(i)'
    BY DEF Filling
  <2> QED BY <2>1, <2>2, <2>3 DEF Filled, SameVectors
<1>2. ASSUME NEW q \in Procs, NEW i, i = run'[q].image, run'[q].stage = "rewhole", i \notin raced', HasText(i)', "vision" \in index'[i]
      PROVE  "text" \in index'[i]
  <2>1. run[q].stage = "rewhole" /\ i = run[q].image
    BY <1>2
  <2>2. i \in Images
    BY <2>1, AtImage DEF Inside
  <2> QED BY <1>2, <2>1, <2>2 DEF FillOK, SameVectors, HasText, Text
<1> QED BY <1>1, <1>2 DEF FillOK

\* A step of one thread that changes no vector.
Frame(p) ==
  /\ setting'.text = setting.text /\ raced \subseteq raced' /\ torn' = torn /\ SameVectors
  /\ run[p].stage \notin {"spots", "respots"} /\ Moves(p)
LEMMA FrameFills ==
  ASSUME Inv, FillOK, NEW p \in Procs, Frame(p)
  PROVE  FillOK'
BY FillStays DEF Frame, Moves

\* A thread gets another row.
LEMMA RowMoves ==
  ASSUME RunOK, NEW p \in Procs, NEW s, run' = [run EXCEPT ![p] = s], s.stage # "rewhole"
  PROVE  Moves(p)
BY DEF RunOK, Moves
LEMMA EndMoves ==
  ASSUME RunOK, NEW p \in Procs, End(p)
  PROVE  Moves(p)
<1>1. Idle.stage # "rewhole"
  BY DEF Idle
<1> QED BY <1>1, RowMoves DEF End
LEMMA GoMoves ==
  ASSUME RunOK, NEW p \in Procs, NEW stage, stage # "rewhole", Go(p, stage)
  PROVE  Moves(p)
<1>1. run[p] \in RunState
  BY DEF RunOK
<1>2. [run[p] EXCEPT !.stage = stage].stage = stage
  BY <1>1 DEF RunState
<1>3. run' = [run EXCEPT ![p] = [run[p] EXCEPT !.stage = stage]]
  BY DEF Go, RunOK
<1> QED BY <1>2, <1>3, RowMoves
\* The result of an image goes to what called for it.
LEMMA ReturnMoves ==
  ASSUME RunOK, NEW p \in Procs, NEW status, run[p].work \in {"index", "remember", "pdf"}, Return(p, status)
  PROVE  Moves(p)
<1>1. run[p] \in RunState
  BY DEF RunOK
<1>2. CASE run[p].work = "remember"
  BY <1>2, GoMoves DEF Return
<1>3. CASE run[p].work = "index"
  BY <1>1, <1>3 DEF Return, RunOK, RunState, Moves
<1>4. CASE run[p].work = "pdf"
  BY <1>1, <1>4 DEF Return, RunOK, RunState, Moves
<1> QED BY <1>2, <1>3, <1>4
LEMMA ProceedMoves ==
  ASSUME Inv, NEW p \in Procs, NEW vision \in BOOLEAN, run[p].stage \in Inside, Proceed(p, vision)
  PROVE  Moves(p)
BY AtImage, ReturnMoves, GoMoves DEF Proceed, ReadAnew

\* A step of one thread that leaves the index alone.
LEMMA StillFills ==
  ASSUME Inv, FillOK, NEW p \in Procs, UNCHANGED <<index, torn>>, setting'.text = setting.text, raced \subseteq raced',
         run[p].stage \notin {"spots", "respots"}, Moves(p)
  PROVE  FillOK'
BY FrameFills DEF Frame, SameVectors

\* A thread is asked for something.
LEMMA StartsFill ==
  ASSUME Inv, FillOK, NEW p \in Procs, NEW work, NEW r \in RunState, Begin(p, work, r), r.stage # "rewhole"
  PROVE  FillOK'
<1>1. RunOK /\ SettingOK
  BY DEF Inv
<1>2. PICK row : row = [r EXCEPT !.work = work, !.start = Sensitive]
  OBVIOUS
<1>3. row.stage = r.stage /\ run' = [run EXCEPT ![p] = row]
  BY <1>2 DEF RunState, Begin
<1>4. Moves(p)
  BY <1>1, <1>3, RowMoves
<1>5. SameSetting
  BY <1>1, StartUsed DEF Begin
<1> QED BY <1>4, <1>5, StillFills DEF Begin, stored, SameSetting, At

LEMMA BeginsFill ==
  ASSUME Inv, FillOK,
         StartIndex \/ StartPdf \/ Attach \/ StartRemember \/ StartApprove \/ StartDelete \/ StartAnswer \/ StartRecall
  PROVE  FillOK'
<1>1. Idle \in RunState /\ {"worker", "op", "ui"} \subseteq Procs
  BY IdleFresh DEF Procs
<1>2. /\ setting.facts \subseteq SUBSET Images /\ setting.asks \subseteq SUBSET Images /\ setting.queries \subseteq SUBSET Images
      /\ setting.cascade \subseteq BOOLEAN /\ setting.levels \subseteq Levels
  BY DEF Inv, SettingOK, Setting, Facts
<1>3. ASSUME NEW p \in {"worker", "op"}, NEW i \in Images, Begin(p, "index", [Idle EXCEPT !.stage = "store", !.image = i])
      PROVE  FillOK'
  <2> PICK r : r = [Idle EXCEPT !.stage = "store", !.image = i]
    OBVIOUS
  <2>1. r \in RunState /\ r.stage = "store" /\ p \in Procs
    BY <1>1, StageNames DEF RunState
  <2>2. Begin(p, "index", r)
    BY <1>3
  <2> QED BY <2>1, <2>2, StartsFill
<1>4. ASSUME Begin("worker", "pdf", [Idle EXCEPT !.stage = "page"])
      PROVE  FillOK'
  <2> PICK r : r = [Idle EXCEPT !.stage = "page"]
    OBVIOUS
  <2>1. r \in RunState /\ r.stage = "page" /\ "worker" \in Procs
    BY <1>1 DEF RunState, Stages
  <2>2. Begin("worker", "pdf", r)
    BY <1>4
  <2> QED BY <2>1, <2>2, StartsFill
<1>5. ASSUME NEW i \in Images, NEW level \in setting.levels,
             Begin("ui", "attach", [Idle EXCEPT !.stage = "store", !.image = i, !.level = level])
      PROVE  FillOK'
  <2> PICK r : r = [Idle EXCEPT !.stage = "store", !.image = i, !.level = level]
    OBVIOUS
  <2>1. r \in RunState /\ r.stage = "store" /\ "ui" \in Procs
    BY <1>1, <1>2, StageNames DEF RunState
  <2>2. Begin("ui", "attach", r)
    BY <1>5
  <2> QED BY <2>1, <2>2, StartsFill
<1>6. ASSUME NEW f \in SUBSET Images, NEW stage \in {"load", "ask", "search"}, NEW work,
             Begin("op", work, [Idle EXCEPT !.stage = stage, !.refs = f])
      PROVE  FillOK'
  <2> PICK r : r = [Idle EXCEPT !.stage = stage, !.refs = f]
    OBVIOUS
  <2>1. r \in RunState /\ r.stage = stage /\ "op" \in Procs
    BY <1>1, StageNames DEF RunState
  <2>2. Begin("op", work, r)
    BY <1>6
  <2> QED BY <2>1, <2>2, StartsFill
<1>7. ASSUME NEW i \in Images, NEW c \in setting.cascade,
             Begin("op", "delete", [Idle EXCEPT !.stage = "refs", !.image = i, !.flag = c])
      PROVE  FillOK'
  <2> PICK r : r = [Idle EXCEPT !.stage = "refs", !.image = i, !.flag = c]
    OBVIOUS
  <2>0. c \in BOOLEAN
    BY <1>2
  <2>1. r \in RunState /\ r.stage = "refs" /\ "op" \in Procs
    BY <1>1, <2>0, StageNames DEF RunState
  <2>2. Begin("op", "delete", r)
    BY <1>7
  <2> QED BY <2>1, <2>2, StartsFill
<1>8. ASSUME NEW f \in setting.facts PROVE f \in SUBSET Images
  BY <1>2
<1>9. ASSUME NEW f \in setting.asks PROVE f \in SUBSET Images
  BY <1>2
<1>10. ASSUME NEW f \in setting.queries PROVE f \in SUBSET Images
  BY <1>2
<1>11. CASE StartIndex \/ StartPdf \/ Attach \/ StartDelete
  BY <1>3, <1>4, <1>5, <1>7, <1>11 DEF StartIndex, StartPdf, Attach, StartDelete
<1>12. CASE StartRemember \/ StartApprove
  BY <1>6, <1>8, <1>12 DEF StartRemember, StartApprove
<1>13. CASE StartAnswer \/ StartRecall
  BY <1>6, <1>9, <1>10, <1>13 DEF StartAnswer, StartRecall
<1> QED BY <1>11, <1>12, <1>13

LEMMA ConfirmFills ==
  ASSUME Inv, FillOK, Confirm
  PROVE  FillOK'
<1>1. PICK asked \in permission :
        run' = [run EXCEPT !["op"] =
           [Idle EXCEPT !.work = asked.work, !.refs = asked.refs, !.flag = TRUE, !.seen = asked.named,
                        !.start = asked.start \cap Sensitive,
                        !.stage = IF asked.work = "answer" THEN "enforce" ELSE "search"]]
  BY DEF Confirm
<1>2. PICK row : row = [Idle EXCEPT !.work = asked.work, !.refs = asked.refs, !.flag = TRUE, !.seen = asked.named,
                        !.start = asked.start \cap Sensitive,
                        !.stage = IF asked.work = "answer" THEN "enforce" ELSE "search"]
  OBVIOUS
<1>3. row.stage \in {"enforce", "search"}
  BY <1>2 DEF Idle
<1>4. Moves("op")
  BY <1>1, <1>2, <1>3, RowMoves DEF Inv, Procs
<1> QED BY <1>4, StillFills DEF Confirm, stored, At, Procs

\* The asset store.
LEMMA StoreFills ==
  ASSUME Inv, FillOK, NEW p \in Procs, StoreAsset(p)
  PROVE  FillOK'
<1>1. RunOK /\ run[p] \in RunState /\ run[p].stage \notin {"spots", "respots"}
  BY DEF Inv, RunOK, StoreAsset, LookUp, RaiseLevel, WriteFiles, InsertRow, At
<1>2. ASSUME Stored(p) PROVE Moves(p)
  <2>1. CASE run[p].work = "attach"
    BY <1>1, <1>2, <2>1, EndMoves DEF Stored
  <2>2. CASE run[p].work = "pdf"
    <3>4. PICK batch : batch = Append(run[p].batch, run[p].page)
      OBVIOUS
    <3>5. PICK stage : stage = IF Len(batch) = setting.size THEN "batch" ELSE "page"
      OBVIOUS
    <3>1. stage \in {"batch", "page"} /\ run' = [run EXCEPT ![p].batch = batch, ![p].page = @ + 1, ![p].stage = stage]
      BY <1>2, <2>2, <3>4, <3>5 DEF Stored
    <3>2. PICK s : s = [run[p] EXCEPT !.batch = batch, !.page = @ + 1, !.stage = stage]
      OBVIOUS
    <3>3. s.stage = stage /\ run' = [run EXCEPT ![p] = s]
      BY <1>1, <3>1, <3>2 DEF RunOK, RunState
    <3> QED BY <1>1, <3>1, <3>3, RowMoves
  <2>3. CASE run[p].work \notin {"attach", "pdf"}
    BY <1>1, <1>2, <2>3, GoMoves DEF Stored
  <2> QED BY <2>1, <2>2, <2>3
<1>3. Moves(p)
  <2>1. CASE LookUp(p)
    BY <1>1, <1>2, <2>1, GoMoves DEF LookUp
  <2>2. CASE RaiseLevel(p)
    BY <1>2, <2>2 DEF RaiseLevel
  <2>3. CASE WriteFiles(p)
    BY <1>1, <2>3, GoMoves DEF WriteFiles
  <2>4. CASE InsertRow(p)
    BY <1>1, <1>2, <2>4, EndMoves DEF InsertRow
  <2> QED BY <2>1, <2>2, <2>3, <2>4 DEF StoreAsset
<1>4. UNCHANGED <<index, torn, setting>> /\ raced \subseteq raced'
  BY DEF StoreAsset, LookUp, RaiseLevel, WriteFiles, InsertRow, stored
<1> QED BY <1>1, <1>3, <1>4, StillFills

\* A vector is put: each other image keeps what it has.
LEMMA PutFills ==
  ASSUME Inv, FillOK, NEW p \in Procs, NEW i \in Images, i = run[p].image, run[p].stage \in Inside, NEW part,
         index' = [index EXCEPT ![i] = @ \cup {part}], UNCHANGED <<setting, raced>>, torn \subseteq torn' \cup {i}, Moves(p),
         i \notin raced /\ HasText(i) /\ {"text", "vision"} \subseteq index[i] \cup {part} => Filled(i)',
         part = "vision" /\ i \notin raced /\ HasText(i) => "text" \in index[i]
  PROVE  FillOK'
<1>1. index \in [Images -> SUBSET Parts]
  BY DEF Inv, StoreTypes
<1>2. index'[i] = index[i] \cup {part} /\ \A j \in Images \ {i} : index'[j] = index[j]
  BY <1>1
<1>3. ASSUME NEW j \in Images \ raced, HasText(j), {"text", "vision"} \subseteq index'[j]
      PROVE  Filled(j)'
  <2>1. CASE j = i
    BY <1>2, <1>3, <2>1
  <2>2. CASE j # i
    <3>1. Filled(j) /\ index'[j] = index[j]
      BY <1>2, <1>3, <2>2 DEF FillOK
    <3>2. Filling(j) => Filling(j)'
      <4>1. ASSUME NEW q \in Procs, run[q].stage \in {"spots", "respots"}, run[q].image = j
            PROVE  run'[q] = run[q]
        BY <2>2, <4>1 DEF Moves
      <4> QED BY <4>1 DEF Filling
    <3> QED BY <2>2, <3>1, <3>2 DEF Filled
  <2> QED BY <2>1, <2>2
<1>4. ASSUME NEW q \in Procs, NEW j, j = run'[q].image, run'[q].stage = "rewhole", j \notin raced, HasText(j), "vision" \in index'[j]
      PROVE  "text" \in index'[j]
  <2>1. q # p /\ run'[q] = run[q]
    BY <1>4 DEF Moves
  <2>2. j \in Images
    BY <1>4, <2>1, AtImage DEF Inside
  <2>3. CASE j # i \/ "vision" \in index[j]
    BY <1>2, <1>4, <2>1, <2>2, <2>3 DEF FillOK
  <2>4. CASE j = i /\ "vision" \notin index[j]
    <3>1. part = "vision"
      BY <1>2, <1>4, <2>4
    <3>2. "text" \in index[i]
      BY <1>4, <2>1, <2>4, <3>1
    <3> QED BY <1>2, <2>4, <3>2
  <2> QED BY <2>3, <2>4
<1> QED BY <1>3, <1>4 DEF FillOK, HasText, Text


\* What there is of an image is remembered.
LEMMA BackfillMoves ==
  ASSUME RunOK, NEW p \in Procs, NEW flag \in BOOLEAN, run' = [run EXCEPT ![p].stage = "backfill", ![p].flag = flag]
  PROVE  Moves(p)
<1>1. run'[p].stage = "backfill" /\ \A q \in Procs \ {p} : run'[q] = run[q]
  BY DEF RunOK, RunState
<1> QED BY <1>1 DEF Moves

\* Indexing an image.
LEMMA ReadFills ==
  ASSUME Inv, FillOK, NEW p \in Procs, CheckIndex(p) \/ EmbedFails(p) \/ NoChunks(p) \/ ReadImage(p)
  PROVE  FillOK'
<1>1. run[p].stage \in {"check", "encode", "backfill", "ocr"} /\ run[p].stage \in Inside /\ run[p].stage \notin {"spots", "respots"}
      /\ UNCHANGED <<index, torn, setting, raced>>
  BY DEF CheckIndex, EmbedFails, NoChunks, ReadImage, At, Inside, stored
<1>2. RunOK /\ run[p] \in RunState /\ run[p].flag \in BOOLEAN /\ run[p].image \in Images
  BY <1>1, AtImage DEF RunState
<1>3. CASE CheckIndex(p)
  <2>1. PICK i \in Images : i = run[p].image
    BY <1>2
  <2>2. ASSUME run' = [run EXCEPT ![p].stage = "backfill", ![p].flag = "vision" \in index[i]]
        PROVE  Moves(p)
    <3>1. PICK flag \in BOOLEAN : flag = ("vision" \in index[i])
      BY Truth
    <3>2. run' = [run EXCEPT ![p].stage = "backfill", ![p].flag = flag]
      BY <2>2, <3>1
    <3> QED BY <1>2, <3>2, BackfillMoves
  <2>3. ASSUME Proceed(p, "vision" \in index[i])
        PROVE  Moves(p)
    <3>1. PICK flag \in BOOLEAN : flag = ("vision" \in index[i])
      BY Truth
    <3> QED BY <1>1, <2>3, <3>1, ProceedMoves
  <2>4. ASSUME ReadAnew(p)
        PROVE  Moves(p)
    <3>1. PICK stage : Go(p, stage) /\ stage # "rewhole"
      BY <2>4 DEF ReadAnew
    <3>2. RunOK
      BY <1>2
    <3> QED BY <3>1, <3>2, GoMoves
  <2>5. Moves(p)
    <3>1. \/ ReadAnew(p) \/ Proceed(p, "vision" \in index[i])
          \/ run' = [run EXCEPT ![p].stage = "backfill", ![p].flag = "vision" \in index[i]]
      BY <1>3, <2>1 DEF CheckIndex
    <3> QED BY <2>2, <2>3, <2>4, <3>1
  <2> QED BY <1>1, <2>5, StillFills
<1>4. CASE EmbedFails(p)
  BY <1>1, <1>2, <1>4, EndMoves, StillFills DEF EmbedFails
<1>5. CASE NoChunks(p)
  BY <1>1, <1>2, <1>5, ProceedMoves, StillFills DEF NoChunks
<1>6. CASE ReadImage(p)
  <2>1. CASE run' = [run EXCEPT ![p].tries = 2]
    <3> PICK s : s = [run[p] EXCEPT !.tries = 2]
      OBVIOUS
    <3>1. s.stage = run[p].stage /\ run' = [run EXCEPT ![p] = s]
      BY <1>2, <2>1 DEF RunOK, RunState
    <3>2. Moves(p)
      BY <1>1, <1>2, <3>1, RowMoves
    <3> QED BY <1>1, <3>2, StillFills
  <2>2. CASE Go(p, "chunk") \/ End(p)
    <3>1. Moves(p)
      BY <1>2, <2>2, GoMoves, EndMoves
    <3> QED BY <1>1, <3>1, StillFills
  <2> QED BY <1>6, <2>1, <2>2 DEF ReadImage
<1> QED BY <1>3, <1>4, <1>5, <1>6

\* A thread that found no chunks of regions found no vector of the image.
LEMMA EmbedFills ==
  ASSUME Inv, FillOK, NEW p \in Procs, EmbedTexts(p)
  PROVE  FillOK'
<1>1. run[p].stage \in {"encode", "backfill"} /\ run[p].stage \in Inside /\ UNCHANGED <<index, torn, setting, raced>>
  BY DEF EmbedTexts, At, Inside, stored
<1>2. RunOK /\ run[p] \in RunState /\ run[p].image \in Images
  BY <1>1, AtImage
<1>3. PICK stage : stage = IF At(p, "encode") THEN "text" ELSE IF "regions" \in index[run[p].image] THEN "retext" ELSE "rewhole"
  OBVIOUS
<1>4. stage \in {"text", "retext", "rewhole"} /\ (stage = "rewhole" => "regions" \notin index[run[p].image])
  BY <1>3
<1>5. PICK s : s = [run[p] EXCEPT !.stage = stage]
  OBVIOUS
<1>6. s.stage = stage /\ s.image = run[p].image /\ run' = [run EXCEPT ![p] = s]
  BY <1>2, <1>3, <1>5 DEF EmbedTexts, Go, RunOK, RunState
<1>7. run'[p] = s /\ \A q \in Procs \ {p} : run'[q] = run[q]
  BY <1>2, <1>6 DEF RunOK
<1>8. ASSUME NEW i \in Images \ raced, HasText(i), {"text", "vision"} \subseteq index[i]
      PROVE  Filled(i)'
  <2>1. Filled(i)
    BY <1>8 DEF FillOK
  <2>2. Filling(i) => Filling(i)'
    BY <1>1, <1>7 DEF Filling
  <2> QED BY <1>1, <2>1, <2>2 DEF Filled
<1>9. ASSUME NEW q \in Procs, NEW i, i = run'[q].image, run'[q].stage = "rewhole", i \notin raced, HasText(i), "vision" \in index[i]
      PROVE  "text" \in index[i]
  <2>1. CASE q = p
    <3>1. i \in Images \ raced /\ "regions" \notin index[i]
      BY <1>2, <1>4, <1>6, <1>7, <1>9, <2>1
    <3> QED BY <1>9, <3>1 DEF Inv, StoresOK
  <2>2. CASE q # p
    BY <1>7, <1>9, <2>2 DEF FillOK
  <2> QED BY <2>1, <2>2
<1> QED BY <1>1, <1>8, <1>9 DEF FillOK, HasText, Text

\* Chunks, and the vectors.
LEMMA PutsFill ==
  ASSUME Inv, FillOK, NEW p \in Procs, PutChunk(p) \/ PutRegions(p) \/ PutText(p) \/ PutSpots(p) \/ PutVision(p)
  PROVE  FillOK'
<1>1. run[p].stage \in {"chunk", "regions", "text", "retext", "rewhole", "spots", "respots", "vision"} /\ run[p].stage \in Inside
      /\ UNCHANGED <<setting, raced>>
  BY DEF PutChunk, PutRegions, PutText, PutSpots, PutVision, At, Inside, unstored
<1>2. /\ RunOK /\ run[p] \in RunState /\ run[p].flag \in BOOLEAN /\ HoldOK(p)
      /\ run[p].work \in {"index", "remember", "pdf"}
  BY <1>1, AtImage DEF RunState
<1>3. PICK i \in Images : i = run[p].image
  BY <1>1, AtImage
<1>4. i \notin raced => Has(run[p].stage, run[p].flag, i) \subseteq index[i]
  BY <1>1, <1>2, <1>3 DEF HoldOK
<1>5. i \notin raced /\ HasText(i) /\ {"text", "vision"} \subseteq index[i] => Filled(i)
  BY DEF FillOK
<1>6. CASE PutChunk(p) \/ PutRegions(p)
  <2>1. PICK part \in {"chunk", "regions"} :
          run[p].stage = part /\ index' = [index EXCEPT ![i] = @ \cup {part}] /\ torn' = torn
    BY <1>3, <1>6 DEF PutChunk, PutRegions, Put, At
  <2>2. Moves(p)
    <3>1. PICK stage \in {"regions", "vision", "encode"} : Go(p, stage)
      BY <1>6 DEF PutChunk, PutRegions
    <3> QED BY <1>2, <3>1, GoMoves
  <2>3. Filling(i) => Filling(i)'
    <3>1. ASSUME NEW q \in Procs, run[q].stage \in {"spots", "respots"} PROVE run'[q] = run[q]
      BY <2>1, <2>2, <3>1 DEF Moves
    <3> QED BY <3>1 DEF Filling
  <2>4. index'[i] = index[i] \cup {part}
    BY <2>1 DEF Inv, StoreTypes
  <2>5. Filled(i) => Filled(i)'
    BY <2>1, <2>3, <2>4 DEF Filled
  <2>6. i \notin raced /\ HasText(i) /\ {"text", "vision"} \subseteq index[i] \cup {part} => Filled(i)'
    BY <1>5, <2>1, <2>5
  <2> QED BY <1>1, <1>3, <2>1, <2>2, <2>6, PutFills
<1>7. CASE PutText(p)
  <2>1. index' = [index EXCEPT ![i] = @ \cup {"text"}] /\ torn' = torn /\ torn \subseteq torn' \cup {i}
    BY <1>3, <1>7 DEF PutText, Put
  <2>2. CASE run[p].stage \in {"text", "retext"} /\ Go(p, IF run[p].stage = "text" THEN "spots" ELSE "respots")
    <3>1. PICK stage \in {"spots", "respots"} : Go(p, stage)
      BY <2>2
    <3>2. Moves(p)
      BY <1>2, <3>1, GoMoves
    <3>3. run'[p].stage = stage /\ run'[p].image = i
      BY <1>2, <1>3, <3>1 DEF Go, RunOK, RunState
    <3>4. Filled(i)'
      BY <3>3 DEF Filled, Filling
    <3> QED BY <1>1, <1>3, <2>1, <3>2, <3>4, PutFills
  <2>3. CASE run[p].stage = "rewhole" /\ Proceed(p, run[p].flag)
    <3>1. Moves(p)
      BY <1>1, <1>2, <2>3, ProceedMoves
    <3>2. Filling(i) => Filling(i)'
      <4>1. ASSUME NEW q \in Procs, run[q].stage \in {"spots", "respots"} PROVE run'[q] = run[q]
        BY <2>3, <3>1, <4>1 DEF Moves
      <4> QED BY <4>1 DEF Filling
    <3>3. index'[i] = index[i] \cup {"text"}
      BY <2>1 DEF Inv, StoreTypes
    <3>4. Filled(i) => Filled(i)'
      BY <2>1, <3>2, <3>3 DEF Filled
    <3>5. i \notin raced /\ HasText(i) /\ "vision" \in index[i] => "text" \in index[i]
      BY <1>3, <2>3 DEF FillOK
    <3>6. i \notin raced /\ HasText(i) /\ {"text", "vision"} \subseteq index[i] \cup {"text"} => Filled(i)'
      BY <1>5, <3>4, <3>5
    <3> QED BY <1>1, <1>3, <2>1, <3>1, <3>6, PutFills
  <2> QED BY <1>7, <2>2, <2>3 DEF PutText, At
<1>8. CASE PutSpots(p)
  <2>1. index' = [index EXCEPT ![i] = @ \cup {"spots"}] /\ torn' = torn \ {i}
    BY <1>3, <1>8 DEF PutSpots, Put
  <2>4. torn \subseteq torn' \cup {i} /\ "spots" # "vision"
    BY <2>1
  <2>2. Moves(p)
    BY <1>1, <1>2, <1>8, GoMoves, ProceedMoves DEF PutSpots
  <2>3. Filled(i)'
    BY <2>1 DEF Filled, Inv, StoreTypes
  <2> QED BY <1>1, <1>3, <2>1, <2>2, <2>3, <2>4, PutFills
<1>9. CASE PutVision(p)
  <2>1. run[p].stage = "vision" /\ torn' = torn
    BY <1>9 DEF PutVision, At
  <2>2. CASE Put(p, "vision") /\ Return(p, "success")
    <3>1. index' = [index EXCEPT ![i] = @ \cup {"vision"}]
      BY <1>3, <2>2 DEF Put
    <3>2. Moves(p)
      BY <1>2, <2>2, ReturnMoves
    <3>3. i \notin raced /\ HasText(i) => {"text", "spots"} \subseteq index[i]
      BY <1>4, <2>1 DEF Has, Refilling
    <3>4. i \notin raced /\ HasText(i) => Filled(i)'
      BY <3>1, <3>3 DEF Filled, Inv, StoreTypes
    <3> QED BY <1>1, <1>3, <2>1, <3>1, <3>2, <3>3, <3>4, PutFills
  <2>3. CASE (Return(p, "failed") \/ End(p)) /\ UNCHANGED index
    <3>1. Moves(p)
      BY <1>2, <2>3, ReturnMoves, EndMoves
    <3> QED BY <1>1, <2>1, <2>3, <3>1, StillFills
  <2> QED BY <1>9, <2>2, <2>3 DEF PutVision
<1> QED BY <1>6, <1>7, <1>8, <1>9


\* A PDF.
LEMMA PdfFills ==
  ASSUME Inv, FillOK, NEW p \in Procs, IngestPdf(p)
  PROVE  FillOK'
<1>1. run[p].stage \in {"page", "batch", "embed", "save", "report"} /\ run[p].stage \notin {"spots", "respots", "rewhole"}
      /\ UNCHANGED <<index, torn, setting, raced>>
  BY DEF IngestPdf, NextPage, ReadBatch, EmbedBatch, SavePage, Report, At, stored
<1>2. RunOK /\ run[p] \in RunState
  BY DEF Inv, RunOK
<1>3. CASE NextPage(p)
  <2>1. CASE \/ Go(p, "report") \/ Go(p, "batch") \/ End(p)
    <3>1. Moves(p)
      BY <1>2, <2>1, GoMoves, EndMoves
    <3> QED BY <1>1, <3>1, StillFills
  <2>2. ASSUME NEW x, run' = [run EXCEPT ![p].page = @ + 1, ![p].results = @ \cup {x}]
        PROVE  FillOK'
    <3> PICK s : s = [run[p] EXCEPT !.page = @ + 1, !.results = @ \cup {x}]
      OBVIOUS
    <3>1. s.stage = run[p].stage /\ run' = [run EXCEPT ![p] = s]
      BY <1>2, <2>2 DEF RunOK, RunState
    <3>2. Moves(p)
      BY <1>1, <1>2, <3>1, RowMoves
    <3> QED BY <1>1, <3>2, StillFills
  <2>3. ASSUME NEW i, run' = [run EXCEPT ![p].stage = "store", ![p].image = i]
        PROVE  FillOK'
    <3> PICK s : s = [run[p] EXCEPT !.stage = "store", !.image = i]
      OBVIOUS
    <3>1. s.stage = "store" /\ run' = [run EXCEPT ![p] = s]
      BY <1>2, <2>3 DEF RunOK, RunState
    <3>2. Moves(p)
      BY <1>2, <3>1, RowMoves
    <3> QED BY <1>1, <3>2, StillFills
  <2> QED BY <1>3, <2>1, <2>2, <2>3 DEF NextPage
<1>4. CASE ReadBatch(p) \/ Report(p)
  <2>1. Go(p, "embed") \/ End(p)
    BY <1>4 DEF ReadBatch, Report
  <2>2. Moves(p)
    BY <1>2, <2>1, GoMoves, EndMoves
  <2> QED BY <1>1, <2>2, StillFills
<1>5. CASE EmbedBatch(p)
  <2>1. ASSUME NEW i, NEW vec, run' = [run EXCEPT ![p].vec = vec, ![p].item = 1, ![p].stage = "check", ![p].image = i]
        PROVE  FillOK'
    <3> PICK s : s = [run[p] EXCEPT !.vec = vec, !.item = 1, !.stage = "check", !.image = i]
      OBVIOUS
    <3>1. s.stage = "check" /\ run' = [run EXCEPT ![p] = s]
      BY <1>2, <2>1 DEF RunOK, RunState
    <3>2. Moves(p)
      BY <1>2, <3>1, RowMoves
    <3> QED BY <1>1, <3>2, StillFills
  <2>2. ASSUME End(p)
        PROVE  FillOK'
    BY <1>1, <1>2, <2>2, EndMoves, StillFills
  <2> QED BY <1>5, <2>1, <2>2 DEF EmbedBatch
<1>6. CASE SavePage(p)
  <2>1. PICK x : x = [page |-> run[p].batch[run[p].item], image |-> run[p].made[run[p].item].image,
                      status |-> run[p].made[run[p].item].status]
    OBVIOUS
  <2>2. PICK rest : rest = [run[p] EXCEPT !.results = @ \cup {x}, !.item = @ + 1]
    OBVIOUS
  <2>3. PICK s : s = IF run[p].item = Len(run[p].batch)
                     THEN [rest EXCEPT !.stage = "page", !.batch = << >>, !.made = << >>, !.item = 1] ELSE rest
    OBVIOUS
  <2>4. run' = [run EXCEPT ![p] = s]
    BY <1>6, <2>1, <2>2, <2>3 DEF SavePage
  <2>5. rest.stage = run[p].stage
    BY <1>2, <2>2 DEF RunState
  <2>6. [rest EXCEPT !.stage = "page", !.batch = << >>, !.made = << >>, !.item = 1].stage = "page"
    BY <1>2, <2>2 DEF RunState
  <2>7. s.stage # "rewhole"
    BY <1>1, <2>3, <2>5, <2>6
  <2>8. Moves(p)
    BY <1>2, <2>4, <2>7, RowMoves
  <2> QED BY <1>1, <2>8, StillFills
<1> QED BY <1>3, <1>4, <1>5, <1>6 DEF IngestPdf

\* The visual memories, what is deleted before the index, and the answers.
LEMMA OpFills ==
  ASSUME Inv, FillOK,
         VisualMemory("op") \/ FindReferences("op") \/ Forget("op") \/ Unlink("op") \/ Answer("op")
  PROVE  FillOK'
<1> DEFINE p == "op"
<1>0. p \in Procs
  BY DEF Procs
<1> HIDE DEF p
<1>1. run[p].stage \in {"load", "ensure", "judge", "add", "activate", "refs", "forget", "unlink", "ask", "enforce", "search", "send"}
      /\ UNCHANGED <<index, torn, setting>> /\ raced \subseteq raced'
  BY DEF VisualMemory, LoadAssets, EnsureIndexed, Judge, AddMemory, ActivateMemory, FindReferences, Forget, Unlink,
         Answer, AskVision, Enforce, SearchIndex, SendImages, SendNothing, At, stored, p
<1>2. RunOK /\ run[p] \in RunState /\ run[p].stage \notin {"spots", "respots", "rewhole"}
  BY <1>0, <1>1 DEF Inv, RunOK
<1>3. ASSUME NEW s, run' = [run EXCEPT ![p] = s], s.stage # "rewhole"
      PROVE  FillOK'
  BY <1>0, <1>1, <1>2, <1>3, RowMoves, StillFills
<1>4. ASSUME End(p) \/ \E stage : Go(p, stage) /\ stage # "rewhole"
      PROVE  FillOK'
  <2>1. Moves(p)
    BY <1>0, <1>2, <1>4, EndMoves, GoMoves
  <2> QED BY <1>0, <1>1, <1>2, <2>1, StillFills
<1>5. CASE LoadAssets(p)
  <2>1. ASSUME NEW seen, NEW todo, NEW stage, stage # "rewhole",
               run' = [run EXCEPT ![p].seen = seen, ![p].todo = todo, ![p].stage = stage]
        PROVE  FillOK'
    <3> PICK s : s = [run[p] EXCEPT !.seen = seen, !.todo = todo, !.stage = stage]
      OBVIOUS
    <3>1. s.stage = stage /\ run' = [run EXCEPT ![p] = s]
      BY <1>2, <2>1 DEF RunOK, RunState
    <3> QED BY <1>3, <2>1, <3>1
  <2>2. PICK stage : stage = IF run[p].work = "remember" THEN "ensure" ELSE "judge"
    OBVIOUS
  <2>3. stage # "rewhole"
    BY <2>2
  <2>4. PICK seen, todo : seen = run[p].refs \cap Sensitive /\ todo = run[p].refs
    OBVIOUS
  <2>5. End(p) \/ run' = [run EXCEPT ![p].seen = seen, ![p].todo = todo, ![p].stage = stage]
    BY <1>5, <2>2, <2>4 DEF LoadAssets
  <2>6. CASE End(p)
    BY <1>4, <2>6
  <2>7. CASE run' = [run EXCEPT ![p].seen = seen, ![p].todo = todo, ![p].stage = stage]
    BY <2>1, <2>3, <2>7
  <2> QED BY <2>5, <2>6, <2>7
<1>6. CASE EnsureIndexed(p)
  <2>1. ASSUME NEW i, run' = [run EXCEPT ![p] = [run[p] EXCEPT !.todo = @ \ {i}]]
        PROVE  FillOK'
    <3> PICK s : s = [run[p] EXCEPT !.todo = @ \ {i}]
      OBVIOUS
    <3>1. s.stage = run[p].stage /\ run' = [run EXCEPT ![p] = s]
      BY <1>2, <2>1 DEF RunState
    <3> QED BY <1>2, <1>3, <3>1
  <2>2. ASSUME NEW i, run' = [run EXCEPT ![p] = [[run[p] EXCEPT !.todo = @ \ {i}] EXCEPT !.stage = "store", !.image = Again(i), !.tries = 1]]
        PROVE  FillOK'
    <3> PICK s : s = [[run[p] EXCEPT !.todo = @ \ {i}] EXCEPT !.stage = "store", !.image = Again(i), !.tries = 1]
      OBVIOUS
    <3>1. s.stage = "store" /\ run' = [run EXCEPT ![p] = s]
      BY <1>2, <2>2 DEF RunState
    <3> QED BY <1>3, <3>1
  <2>3. ASSUME Go(p, "judge")
        PROVE  FillOK'
    BY <1>4, <2>3
  <2>4. ASSUME End(p)
        PROVE  FillOK'
    BY <1>4, <2>4
  <2> QED BY <1>6, <2>1, <2>2, <2>3, <2>4 DEF EnsureIndexed
<1>7. CASE Judge(p) \/ AddMemory(p) \/ ActivateMemory(p)
  <2>1. End(p) \/ Go(p, "add") \/ Go(p, "activate")
    BY <1>7 DEF Judge, AddMemory, ActivateMemory
  <2> QED BY <1>4, <2>1
<1>8. CASE FindReferences(p)
  <2>1. ASSUME NEW todo, run' = [run EXCEPT ![p].stage = "forget", ![p].todo = todo]
        PROVE  FillOK'
    <3> PICK s : s = [run[p] EXCEPT !.stage = "forget", !.todo = todo]
      OBVIOUS
    <3>1. s.stage = "forget" /\ run' = [run EXCEPT ![p] = s]
      BY <1>2, <2>1 DEF RunOK, RunState
    <3> QED BY <1>3, <3>1
  <2> QED BY <1>4, <1>8, <2>1 DEF FindReferences
<1>9. CASE Forget(p)
  <2>1. ASSUME NEW f, run' = [run EXCEPT ![p].todo = @ \ {f}]
        PROVE  FillOK'
    <3> PICK s : s = [run[p] EXCEPT !.todo = @ \ {f}]
      OBVIOUS
    <3>1. s.stage = run[p].stage /\ run' = [run EXCEPT ![p] = s]
      BY <1>2, <2>1 DEF RunOK, RunState
    <3> QED BY <1>2, <1>3, <3>1
  <2>2. CASE Go(p, "drop")
    BY <1>4, <2>2
  <2>3. CASE \E f \in run[p].todo : run' = [run EXCEPT ![p].todo = @ \ {f}]
    <3>1. PICK f \in run[p].todo : run' = [run EXCEPT ![p].todo = @ \ {f}]
      BY <2>3
    <3> QED BY <2>1, <3>1
  <2> QED BY <1>9, <2>2, <2>3 DEF Forget
<1>10. CASE Unlink(p)
  BY <1>4, <1>10 DEF Unlink
<1>11. CASE AskVision(p) \/ Enforce(p) \/ SendImages(p) \/ SendNothing(p)
  <2>1. End(p) \/ Go(p, "enforce") \/ Go(p, "send")
    BY <1>11 DEF AskVision, Enforce, SendImages, SendNothing
  <2> QED BY <1>4, <2>1
<1>12. CASE SearchIndex(p)
  <2>1. ASSUME NEW found, run' = [run EXCEPT ![p].stage = "send", ![p].refs = found]
        PROVE  FillOK'
    <3> PICK s : s = [run[p] EXCEPT !.stage = "send", !.refs = found]
      OBVIOUS
    <3>1. s.stage = "send" /\ run' = [run EXCEPT ![p] = s]
      BY <1>2, <2>1 DEF RunOK, RunState
    <3> QED BY <1>3, <3>1
  <2>2. End(p) \/ \E found : run' = [run EXCEPT ![p].stage = "send", ![p].refs = found]
    BY <1>12 DEF SearchIndex
  <2> QED BY <1>4, <2>1, <2>2
<1> QED BY <1>5, <1>6, <1>7, <1>8, <1>9, <1>10, <1>11, <1>12 DEF VisualMemory, Answer, p

\* Index and row of an image that is deleted: other threads go on where they are.
LEMMA DeleteFills ==
  ASSUME Inv, FillOK, DropIndex("op") \/ RemoveRow("op")
  PROVE  FillOK'
<1>0. "op" \in Procs /\ RunOK /\ index \in [Images -> SUBSET Parts]
  BY DEF Procs, Inv, StoreTypes
<1>1. run["op"].stage \in {"drop", "remove"} /\ UNCHANGED <<setting, torn>>
  BY DEF DropIndex, RemoveRow, At
<1>2. ASSUME Disturbs("op")
      PROVE  /\ raced \subseteq raced' /\ run'["op"].stage \in {"remove", "unlink"}
             /\ \A q \in Procs \ {"op"} : run'[q].stage = run[q].stage /\ run'[q].image = run[q].image
  <2>1. run["op"] \in RunState
    BY <1>0 DEF RunOK
  <2>2. run'["op"] = [run["op"] EXCEPT !.stage = IF At("op", "drop") THEN "remove" ELSE "unlink"]
    BY <1>0, <1>2 DEF Disturbs
  <2>3. run'["op"].stage = IF At("op", "drop") THEN "remove" ELSE "unlink"
    BY <2>1, <2>2 DEF RunState
  <2>4. ASSUME NEW q \in Procs \ {"op"}
        PROVE  run'[q].stage = run[q].stage /\ run'[q].image = run[q].image
    <3>1. PICK lost : run'[q] = [run[q] EXCEPT !.lost = lost]
      BY <1>2 DEF Disturbs
    <3>2. run[q] \in RunState
      BY <1>0 DEF RunOK
    <3> QED BY <3>1, <3>2 DEF RunState
  <2>5. raced \subseteq raced'
    BY <1>2 DEF Disturbs
  <2> QED BY <2>3, <2>4, <2>5
<1>3. CASE RemoveRow("op")
  <2>1. SameVectors /\ run["op"].stage \notin {"spots", "respots"}
    BY <1>1, <1>3 DEF RemoveRow, SameVectors
  <2>2. CASE Disturbs("op")
    BY <1>0, <1>1, <1>2, <2>1, <2>2, FillStays
  <2>3. CASE End("op") /\ UNCHANGED raced
    BY <1>0, <1>1, <1>3, <2>3, EndMoves, StillFills DEF RemoveRow
  <2> QED BY <1>3, <2>2, <2>3 DEF RemoveRow
<1>4. CASE DropIndex("op")
  <2>1. Disturbs("op") /\ index' = [index EXCEPT ![run["op"].image] = {}]
    BY <1>4 DEF DropIndex
  <2>2. \A j \in Images : index'[j] = index[j] \/ index'[j] = {}
    BY <1>0, <2>1
  <2>3. ASSUME NEW j \in Images \ raced', HasText(j), {"text", "vision"} \subseteq index'[j]
        PROVE  Filled(j)'
    <3>1. index'[j] = index[j] /\ j \notin raced
      BY <1>2, <2>1, <2>2, <2>3
    <3>2. Filled(j)
      BY <2>3, <3>1 DEF FillOK
    <3>3. ASSUME NEW q \in Procs, run[q].stage \in {"spots", "respots"}
          PROVE  run'[q].stage = run[q].stage /\ run'[q].image = run[q].image
      BY <1>1, <1>2, <2>1, <3>3
    <3>4. Filling(j) => Filling(j)'
      BY <3>3 DEF Filling
    <3> QED BY <1>1, <3>1, <3>2, <3>4 DEF Filled
  <2>4. ASSUME NEW q \in Procs, NEW j, j = run'[q].image, run'[q].stage = "rewhole", j \notin raced', HasText(j), "vision" \in index'[j]
        PROVE  "text" \in index'[j]
    <3>1. q # "op" /\ run[q].stage = "rewhole" /\ run[q].image = j /\ j \notin raced
      BY <1>2, <2>1, <2>4
    <3>2. j \in Images
      BY <3>1, AtImage DEF Inside
    <3>3. index'[j] = index[j]
      BY <2>2, <2>4, <3>2
    <3> QED BY <2>4, <3>1, <3>3 DEF FillOK
  <2> QED BY <1>1, <2>3, <2>4 DEF FillOK, HasText, Text
<1> QED BY <1>3, <1>4

\* A crash, and another model.
LEMMA CrashFills ==
  ASSUME Inv, FillOK, Crash
  PROVE  FillOK'
<1>1. /\ setting'.text = setting.text /\ UNCHANGED <<index, raced>> /\ torn' = torn \cup {i \in Images : Filling(i)}
      /\ run' = [p \in Procs |-> Idle]
  BY CrashUsed DEF Inv, Crash, SameSetting
<1>2. \A q \in Procs : run'[q].stage # "rewhole"
  BY <1>1 DEF Idle
<1>3. \A i \in Images : Filled(i) => Filled(i)'
  BY <1>1 DEF Filled
<1> QED BY <1>1, <1>2, <1>3 DEF FillOK, HasText, Text

LEMMA ModelFills ==
  ASSUME Inv, FillOK, ChangeTextModel
  PROVE  FillOK'
<1>1. \A i \in Images : "text" \notin index'[i]
  BY DEF ChangeTextModel
<1>2. \A q \in Procs : run'[q].stage # "rewhole"
  BY DEF ChangeTextModel, At
<1> QED BY <1>1, <1>2 DEF FillOK

\* Every step keeps the second invariant.
LEMMA FillNextOK ==
  ASSUME Inv, FillOK, [Next]_vars
  PROVE  FillOK'
<1>1. CASE StartIndex \/ StartPdf \/ Attach \/ StartRemember \/ StartApprove \/ StartDelete \/ StartAnswer \/ StartRecall
  BY <1>1, BeginsFill
<1>2. CASE Confirm \/ Crash \/ ChangeTextModel
  BY <1>2, ConfirmFills, CrashFills, ModelFills
<1>3. ASSUME NEW p \in Procs, StoreAsset(p) PROVE FillOK'
  BY <1>3, StoreFills
<1>4. ASSUME NEW p \in {"worker", "op"}, IngestImage(p) PROVE FillOK'
  <2>1. p \in Procs
    BY DEF Procs
  <2> QED BY <1>4, <2>1, ReadFills, EmbedFills, PutsFill DEF IngestImage
<1>5. ASSUME NEW p \in {"worker", "op"}, IngestPdf(p) PROVE FillOK'
  <2>1. p \in Procs
    BY DEF Procs
  <2> QED BY <1>5, <2>1, PdfFills
<1>6. CASE VisualMemory("op") \/ DeleteAsset("op") \/ Answer("op")
  BY <1>6, OpFills, DeleteFills DEF DeleteAsset
<1>7. CASE UNCHANGED vars
  <2>1. SameVectors /\ UNCHANGED <<setting, torn, raced, run>>
    BY <1>7 DEF vars, SameVectors
  <2> QED BY <2>1, FillStays
<1> QED BY <1>1, <1>2, <1>3, <1>4, <1>5, <1>6, <1>7 DEF Next

-----------------------------------------------------------------------------
(* The theorems.                                                           *)

\* The stores, the threads, and what each thread relies on, whatever crashes and
\* whoever deletes: asset_store.py, ingestion.py, visual_memory.py, service.py.
THEOREM MediaInvariant == Spec => []Inv
<1>1. Init => Inv
  BY InitOK
<1>2. Inv /\ [Next]_vars => Inv'
  BY NextOK
<1> QED BY <1>1, <1>2, PTL DEF Spec

\* The state keeps its shape: TypeOK.
THEOREM MediaTypesCorrect == Spec => []TypeOK
<1>1. Inv => TypeOK
  BY DEF Inv, SettingOK, StoreTypes, RunOK, TypeOK
<1> QED BY <1>1, MediaInvariant, PTL

\* Index, rows, files and memories agree at every moment, but for an image that
\* was deleted while another thread worked on it (asset_store.py, service.py
\* delete_asset, visual_memory.py).
THEOREM StoresAlwaysAgree == Spec => []StoresAgree
<1>1. Inv => StoresAgree
  BY DEF Inv, StoresOK, StoresAgree
<1> QED BY <1>1, MediaInvariant, PTL


\* No image is called indexed without the vectors of its regions, but those of
\* which a crash left half, and those a thread is writing.
THEOREM VectorsAreFilled == Spec => []FillOK
<1>1. Init => FillOK
  BY DEF Init, FillOK, Idle
<1>2. Inv /\ FillOK /\ [Next]_vars => FillOK'
  BY FillNextOK
<1> QED BY <1>1, <1>2, MediaInvariant, PTL DEF Spec

\* What an index job returns has one result for each page, of any mixture of
\* checkpoints and batches, and what it says is indexed is (ingestion.py).
THEOREM ReportsAreTrue == Spec => []ReportIsTrue
<1>1. ASSUME Inv, FillOK, NEW p \in Procs, run[p].stage = "report"
      PROVE  LET results == run[p].results IN
             /\ run[p].work = "pdf" =>
                  \A n \in 1..Len(setting.pdf) : \E r \in results : r.page = n /\ r.image = setting.pdf[n]
             /\ \A r, q \in results : r.page = q.page => r = q
             /\ \A r \in results : r.status = "success" /\ r.image \notin run[p].lost \cup raced =>
                  /\ r.image \in Known
                  /\ {"chunk", "vision"} \subseteq index[r.image]
                  /\ HasText(r.image) => {"regions", "text"} \subseteq index[r.image]
                  /\ HasText(r.image) => "spots" \in index[r.image] \/ r.image \in torn \/ Filling(r.image)
  <2>1. RoleOK(p) /\ PagesOK(p) /\ ToldOK(p) /\ run[p] \in RunState
    BY <1>1 DEF Inv, ThreadOK, RunOK
  <2>2. \A r \in run[p].results : r.status = "success" /\ r.image \notin run[p].lost \cup raced => Whole(r.image)
    BY <2>1 DEF ToldOK, Told
  <2>5. \A r \in run[p].results : r.status = "success" /\ r.image \notin run[p].lost \cup raced /\ HasText(r.image) =>
          "spots" \in index[r.image] \/ r.image \in torn \/ Filling(r.image)
    <3>1. ASSUME NEW i, Whole(i), HasText(i), i \notin raced
          PROVE  Filled(i)
      BY <1>1, <3>1 DEF Whole, Known, FillOK
    <3> QED BY <2>2, <3>1 DEF Filled
  <2>3. CASE run[p].work = "pdf"
    <3>1. Pages(run[p], setting.pdf, setting.size)
      BY <2>1, <2>3 DEF PagesOK
    <3>2. run[p].batch = << >> /\ run[p].page > Len(setting.pdf) /\ run[p].page \in Nat /\ Len(setting.pdf) \in Nat
      BY <1>1, <2>1, <3>1, RowNumbers, SettingFacts DEF Pages, Inv
    <3>3. Left(run[p]) = {}
      BY <1>1, <3>2, EmptySeq DEF Left
    <3>4. ASSUME NEW n \in 1..Len(setting.pdf)
          PROVE  \E r \in run[p].results : r.page = n /\ r.image = setting.pdf[n]
      <4>1. n \in 1..run[p].page - 1
        BY <3>2
      <4>2. \E r \in run[p].results : r.page = n
        BY <3>1, <3>3, <4>1 DEF Pages
      <4> QED BY <3>1, <4>2 DEF Pages
    <3>5. \A r, q \in run[p].results : r.page = q.page => r = q
      BY <3>1 DEF Pages
    <3> QED BY <2>2, <2>5, <3>4, <3>5 DEF Whole
  <2>4. CASE run[p].work # "pdf"
    <3>1. \A r, q \in run[p].results : r.page = q.page => r = q
      BY <2>1, <2>4 DEF PagesOK, Single
    <3> QED BY <2>2, <2>4, <2>5, <3>1 DEF Whole
  <2> QED BY <2>3, <2>4
<1>2. Inv /\ FillOK => ReportIsTrue
  BY <1>1 DEF ReportIsTrue, At
<1> QED BY <1>2, MediaInvariant, VectorsAreFilled, PTL

\* Nothing of an image that was sensitive when the operation began is sent
\* without the user's word or against the policy, and no memory of such an image
\* becomes active (service.py _enforce_sensitive_policy, visual_memory.py approve).
THEOREM SensitiveImagesAreGuarded == Spec => SensitiveIsGuarded
<1>1. ASSUME Inv, SendImages("op"), setting.policy # "allow", run["op"].refs \cap run["op"].start # {}
      PROVE  /\ setting.policy = "confirm" /\ run["op"].flag
             /\ run["op"].work = "answer" => run["op"].refs \cap run["op"].start \subseteq run["op"].seen
  BY <1>1 DEF SendImages, At, Inv, OpOK, Worded
<1>2. ASSUME Inv, Next, NEW f \in Facts, memory'[f] = "active", memory[f] # "active"
      PROVE  f \cap run["op"].start = {}
  <2>1. memory' # memory
    BY <1>2
  <2>2. VisualMemory("op") \/ DeleteAsset("op")
    <3>1. ~(StartIndex \/ StartPdf \/ Attach \/ StartRemember \/ StartApprove \/ StartDelete \/ StartAnswer \/ StartRecall)
      BY <2>1 DEF StartIndex, StartPdf, Attach, StartRemember, StartApprove, StartDelete, StartAnswer, StartRecall,
                  Begin, stored
    <3>2. ~(Confirm \/ Crash \/ ChangeTextModel)
      BY <2>1 DEF Confirm, Crash, ChangeTextModel, stored
    <3>3. \A p \in Procs : ~StoreAsset(p)
      BY <2>1 DEF StoreAsset, LookUp, RaiseLevel, WriteFiles, InsertRow, stored
    <3>4. \A p \in {"worker", "op"} : ~IngestImage(p)
      BY <2>1 DEF IngestImage, CheckIndex, EmbedTexts, EmbedFails, NoChunks, ReadImage, PutChunk, PutRegions, PutText,
                  PutSpots, PutVision, stored, unstored
    <3>5. \A p \in {"worker", "op"} : ~IngestPdf(p)
      BY <2>1 DEF IngestPdf, NextPage, ReadBatch, EmbedBatch, SavePage, Report, stored
    <3>6. ~Answer("op")
      BY <2>1 DEF Answer, AskVision, Enforce, SearchIndex, SendImages, SendNothing, stored
    <3> QED BY <1>2, <3>1, <3>2, <3>3, <3>4, <3>5, <3>6 DEF Next
  <2>3. memory \in [Facts -> Live \cup {"none", "deleted"}]
    BY <1>2 DEF Inv, StoreTypes
  <2>4. ~DeleteAsset("op")
    <3>1. ~Forget("op")
      BY <1>2, <2>1, <2>3 DEF Forget
    <3> QED BY <2>1, <3>1 DEF DeleteAsset, FindReferences, DropIndex, RemoveRow, Unlink, stored
  <2>5. ~AddMemory("op")
    BY <1>2, <2>3 DEF AddMemory
  <2>6. ActivateMemory("op")
    BY <2>1, <2>2, <2>4, <2>5 DEF VisualMemory, LoadAssets, EnsureIndexed, Judge, stored
  <2>7. f = run["op"].refs /\ run["op"].stage = "activate"
    BY <1>2, <2>3, <2>6 DEF ActivateMemory, At
  <2> QED BY <1>2, <2>7 DEF Inv, OpOK
<1>3. Inv /\ [Next]_vars =>
        [ /\ SendImages("op") /\ setting.policy # "allow" =>
               LET kept == run["op"].refs \cap run["op"].start IN
               kept # {} => /\ setting.policy = "confirm" /\ run["op"].flag
                            /\ run["op"].work = "answer" => kept \subseteq run["op"].seen
          /\ \A f \in Facts : memory'[f] = "active" /\ memory[f] # "active" => f \cap run["op"].start = {} ]_vars
  BY <1>1, <1>2
<1> QED BY <1>3, MediaInvariant, PTL DEF Spec, SensitiveIsGuarded
=============================================================================
