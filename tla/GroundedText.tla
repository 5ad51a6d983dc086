---------------------------- MODULE GroundedText ----------------------------
(***************************************************************************)
(* What the agent does to a text that a language model has written from    *)
(* numbered evidence: the checks, the repair, the fallback and the list of *)
(* sources of src/deskpilot/core/agent.py, and the report of               *)
(* rag/web_research.py.                                                    *)
(*                                                                         *)
(* Of a text only the citations matter: the numbers in brackets, whether a *)
(* factual line has none, whether it cites the memory.  A text quotes the  *)
(* evidence where the program puts it together from passages; the numbers  *)
(* in brackets that the passages bring along are kept apart.  Only one at  *)
(* the start of a passage is removed.                                      *)
(***************************************************************************)
EXTENDS Integers, FiniteSets

CONSTANTS
  MaxEvidence,   \* the most passages that a retrieval returns
  MaxNumber      \* the largest number that the model puts into brackets

ASSUME NumberAssumption == MaxEvidence \in Nat /\ MaxNumber \in Nat /\ MaxNumber > MaxEvidence

Numbers == 0..MaxNumber
Text == [nums: SUBSET Numbers, quoted: SUBSET Numbers, bare: BOOLEAN, memory: BOOLEAN, empty: BOOLEAN]
\* A call that failed, or returned nothing.
Empty == [nums |-> {}, quoted |-> {}, bare |-> FALSE, memory |-> FALSE, empty |-> TRUE]
\* What the model may write: all its numbers are its own.
Written == {t \in Text : ~t.empty /\ t.quoted = {}}

Existing(n) == 1..n

\* _validate_grounded_answer: some citation, none of a passage that is not
\* there, no factual line without one, none of the memory.
Valid(text, n) ==
  /\ text.nums \cap Existing(n) # {}
  /\ text.nums \subseteq Existing(n)
  /\ ~text.bare /\ ~text.memory

\* _cited_evidence_indexes: whoever has put the number there.
CitedIn(text, n) == (text.nums \cup text.quoted) \cap Existing(n)

\* Passages with these numbers, and whatever numbers are in them.
Quoting(text, nums) == {[text EXCEPT !.nums = nums, !.quoted = q, !.empty = FALSE] : q \in SUBSET Numbers}

\* _fallback_answer: one to three of the best passages, each with its number.
FallbackTexts(n) ==
  UNION {Quoting(Empty, chosen) : chosen \in {c \in SUBSET Existing(n) : c # {} /\ Cardinality(c) <= 3}}

\* _append_source_list: the passages that are cited, or the first three.
SourceList(text, n) ==
  IF CitedIn(text, n) # {} THEN CitedIn(text, n)
  ELSE {i \in Existing(n) : i <= 3}

\* _answer_index_report: a number that does not exist is replaced by a
\* remark; a report without any gets the passages as a list of points.
ReportTexts(text, n) ==
  LET nums == text.nums \cap Existing(n)
  IN IF nums = {} THEN Quoting(text, Existing(n)) ELSE {[text EXCEPT !.nums = nums]}

\* _build_citation_sources: the pages the search has found, and those of the
\* evidence that are not among them, are numbered.
PageCounts(found, n) == {k \in found..(found + n) : n > 0 => k > 0}
\* _sanitize_report_citations: a number of no page is taken out.
ResearchText(text, pages) == [text EXCEPT !.nums = @ \cap Existing(pages)]
\* _fallback_report: the passages with the numbers of their pages, if there are any.
ResearchFallbacks(pages, n) ==
  IF n = 0 THEN {[Empty EXCEPT !.empty = FALSE]}
  ELSE UNION {Quoting(Empty, c) : c \in SUBSET Existing(pages)}
\* _append_reference_section: every page is listed.
ReferenceList(pages) == Existing(pages)
=============================================================================
