-------------------------- MODULE MCMediaIngestion --------------------------
EXTENDS MediaIngestion, TLC

CONSTANTS a, b

Plain == [i \in Images |-> "plain"]
Same == [i \in Images |-> i]
Idly == [p \in Procs |-> 0]
None == [text |-> Plain, again |-> Same, pdf |-> << >>, size |-> 1, jobs |-> {}, facts |-> {}, asks |-> {},
         queries |-> {}, semantic |-> TRUE, cascade |-> {}, starts |-> Idly, levels |-> {"normal"}, crashes |-> 0, faults |-> {}, retry |-> FALSE,
         respace |-> FALSE, cloud |-> TRUE, policy |-> "confirm"]

\* A PDF with two equal pages, one of them without text, in batches of two:
\* crashes, failures of every model, a second job, a deletion.
Book(retry) ==
  [None EXCEPT !.text = a :> "plain" @@ b :> "none", !.pdf = <<a, b, a>>, !.size = 2, !.jobs = {"pdf"},
               !.starts = [Idly EXCEPT !["worker"] = 4], !.crashes = 2, !.retry = retry,
               !.faults = {"ocr", "native", "embed", "vision", "escape", "stop"}]
Torn == [Book(FALSE) EXCEPT !.size = 3, !.jobs = {"pdf", "delete"}, !.cascade = {FALSE}, !.respace = TRUE,
                            !.starts = [Idly EXCEPT !["worker"] = 2, !["op"] = 1], !.faults = {"vision"}]

\* Images that are indexed, attached, remembered and deleted at once.
Shared(faults, retry, crashes) ==
  [None EXCEPT !.again = a :> b @@ b :> b, !.jobs = {"index", "attach", "remember", "delete"}, !.facts = {{a}},
               !.starts = [Idly EXCEPT !["worker"] = 1, !["op"] = 2, !["ui"] = 1], !.cascade = {TRUE},
               !.faults = faults, !.retry = retry, !.crashes = crashes]

\* Memories: a secret in one image, a paste of another.
Kept ==
  [None EXCEPT !.text = a :> "plain" @@ b :> "secret", !.jobs = {"attach", "remember", "approve", "delete"},
               !.facts = Facts, !.starts = [Idly EXCEPT !["op"] = 4, !["ui"] = 2], !.cascade = BOOLEAN,
               !.levels = Levels, !.semantic = FALSE]

\* Answers under each policy.
Asked(policy, cloud, ops) ==
  [None EXCEPT !.jobs = {"index", "attach", "answer", "recall", "delete"}, !.asks = {{a}, {a, b}}, !.levels = Levels,
               !.queries = {{}, {a}},
               !.starts = [Idly EXCEPT !["worker"] = 1, !["op"] = ops, !["ui"] = 1], !.cascade = {TRUE},
               !.policy = policy, !.cloud = cloud]

\* A PDF of one page, another model for texts, a crash while its vectors are written.
Respaced ==
  [None EXCEPT !.pdf = <<a>>, !.jobs = {"pdf"}, !.starts = [Idly EXCEPT !["worker"] = 3], !.crashes = 1, !.respace = TRUE]
\* Two pasted images, one of them indexed while the user is asked about the other.
Recalled ==
  [None EXCEPT !.jobs = {"attach", "index", "recall"}, !.levels = {"sensitive"}, !.queries = {{a, b}},
               !.starts = ("worker" :> 2 @@ "op" :> 1 @@ "ui" :> 2)]

MCSettings ==
  {Book(TRUE), Book(FALSE), Torn, Shared({"native", "ocr", "embed"}, FALSE, 0), Shared({"vision", "escape"}, TRUE, 0), Shared({}, TRUE, 1), Kept,
   Asked("block", TRUE, 1), Asked("confirm", TRUE, 2), Asked("allow", TRUE, 1), Asked("confirm", FALSE, 1),
   Respaced, Recalled}
=============================================================================
