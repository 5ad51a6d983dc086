-------------------------- MODULE MCConversation ---------------------------
EXTENDS Conversation, TLC

CONSTANTS s1, s2, a1, b1, c1

Said(content, confidence, pending) == [content |-> content, confidence |-> confidence, pending |-> pending]
None == [kind |-> [x \in Contents |-> "decision"], topic |-> [x \in Contents |-> "t"], works |-> {"answer"},
         starts |-> [op |-> 0, ui |-> 0], candidates |-> {}, desk |-> {}, tool |-> FALSE, long |-> FALSE,
         faults |-> {}, crashes |-> 0]

\* Turns with and without compaction, crashes, a model that does not answer.
Long(faults, crashes) ==
  [None EXCEPT !.works = {"answer", "image"}, !.starts = [op |-> 4, ui |-> 0], !.tool = TRUE, !.long = TRUE,
               !.faults = faults, !.crashes = crashes, !.desk = {"error"}]
\* The window compacts meanwhile.
Forced == [None EXCEPT !.works = {"answer", "compact"}, !.starts = [op |-> 3, ui |-> 2], !.faults = {"work", "stop"},
                       !.desk = {"error"}, !.crashes = 1]
\* Sessions come and go.
Many == [None EXCEPT !.works = {"answer", "compact"}, !.starts = [op |-> 2, ui |-> 4],
                     !.desk = {"new", "select", "pin", "delete", "error"}, !.faults = {"work"}, !.long = TRUE]
\* Decisions and preferences of two sessions.
Minds ==
  [None EXCEPT !.kind = a1 :> "decision" @@ b1 :> "decision" @@ c1 :> "preference", !.starts = [op |-> 4, ui |-> 2],
               !.desk = {"new"}, !.crashes = 1,
               !.candidates = {<<Said(a1, "high", FALSE)>>, <<Said(b1, "mid", FALSE)>>, <<Said(b1, "high", TRUE)>>,
                               <<Said(a1, "low", FALSE), Said(c1, "high", FALSE)>>, <<Said(c1, "mid", FALSE)>>}]

MCSettings == {Long({}, 2), Long({"chat", "stop"}, 0), Forced, Many, Minds}
=============================================================================
