--------------------------- MODULE MCDocumentIndex ---------------------------
EXTENDS DocumentIndex, TLC

MCVersions == [a |-> {"a1", "a2"}, b |-> {"b1"}, w |-> {"w1", "w2"}]
MCProcOf == [t1 |-> "p1", t2 |-> "p1", t3 |-> "p2"]

Calm == [threads |-> {"t1"}, jobs |-> 3, edits |-> 1, crashes |-> 0, failures |-> 0,
         outages |-> 0, clears |-> 0, migrations |-> 0, readers |-> FALSE]
\* One thread, and a death, a failing store or service, a clearing, a migration.
Dying == [Calm EXCEPT !.crashes = 2, !.failures = 1]
Offline == [Calm EXCEPT !.outages = 2, !.crashes = 1]
Cleared == [Calm EXCEPT !.clears = 1, !.crashes = 1]
Migrated == [Calm EXCEPT !.migrations = 1, !.crashes = 1]
\* One thread that searches what it has indexed twice.
Reading == [Calm EXCEPT !.readers = TRUE]
\* Two threads of a process, or of two, that index, research and search.
Racing == [Calm EXCEPT !.threads = {"t1", "t2"}, !.readers = TRUE, !.edits = 0, !.jobs = 2, !.outages = 1]
TwoProcs == [Calm EXCEPT !.threads = {"t1", "t3"}, !.readers = TRUE, !.edits = 0, !.jobs = 2]
Rivals == [Calm EXCEPT !.threads = {"t1", "t3"}, !.failures = 1]

MCScenes == {Dying, Offline, Cleared, Migrated, Reading, Racing, TwoProcs, Rivals}

\* The hypothesis of the theorem IndexedFound holds in all of them.
ASSUME ScenesOrderly == Orderly
=============================================================================
