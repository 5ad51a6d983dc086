--------------------------- MODULE MCLedgerClient ---------------------------
EXTENDS LedgerClient, TLC

CONSTANTS s1, w1, w2, read, write

MCTask == {1}
MCSession == [t \in MCTask |-> s1]
\* A bound: few of the statuses are written and reported.
MCNext == LedgerStep({"running", "succeeded"}, {"succeeded", "unknown"})
MCSpec == StoreInit /\ [][MCNext]_storeVars
MCSymmetry == Permutations({w1, w2})

\* A bound: the journal is explored for nodes that have not been started.
JournalBeforeAttempts ==
  \A t \in Task : (\E x \in Operation : effect[t][x] # "absent")
                    => \A n \in Node : attempts[t][n] = <<>>
=============================================================================
