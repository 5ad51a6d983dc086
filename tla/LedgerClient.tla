---------------------------- MODULE LedgerClient ----------------------------
(***************************************************************************)
(* The task ledger under its most general client: the worker of any        *)
(* process, the synchronous executor of the UI thread, the approval path,  *)
(* and callers that wake up long after their lease lapsed, each presenting *)
(* the owner and token it remembers.  What holds here holds whatever the   *)
(* order in which threads and processes reach the database, and for every  *)
(* module whose steps on the tables are steps of this client.              *)
(***************************************************************************)
EXTENDS TaskStore

\* The statuses that callers of update_task, finish_worker_task and
\* release_lease pass, and those that a node report carries.
CallerStatus == TaskStatus \ {"compensating"}
ReportStatus == NodeStatus \ {"running"}

\* The transactions that are not addressed to one task.
Housekeeping ==
  \/ ExpireLeases
  \/ ExpireDeadlines
  \/ \E o \in Owner : ClaimNext(o)

\* The transactions that present no lease at all.
Unguarded(t) ==
  \/ \E s \in {"queued", "running", "waiting_human", "paused"}, plan \in SUBSET Node :
       CreateTask(t, s, plan)
  \/ BindJob(t)
  \/ RequestPause(t) \/ RequestCancel(t) \/ ClearRequests(t)
  \/ \E action \in {"pause", "cancel"} : RequestControl(t, action)
  \/ Resume(t)
  \/ RecoverOrphan(t)
  \/ \E o \in Owner : Claim(t, o)
  \/ \E n \in Node, o \in Owner : ClaimApproval(t, n, o)

\* The transactions that present a lease: owner o with token k, or None.  They
\* write a status out of the given ones.
TaskWrite(t, o, k, written) ==
  \/ \E s \in written : UpdateTask(t, s, o, k)
  \/ SetDeadline(t, o, k)
  \/ \E s \in written, b \in BOOLEAN : FinishWorkerTask(t, s, b, o, k)
  \/ \E plan \in SUBSET Node : SavePlan(t, plan, o, k)
  \/ SaveReleasedOutput(t, o, k)
  \/ Heartbeat(t, o, k)
  \/ \E s \in written : ReleaseLease(t, s, o, k)

NodeWrite(t, n, o, k, reported) ==
  \/ StartAttempt(t, n, o, k)
  \/ \E s \in reported, i \in 1..MaxAttempts : FinishAttempt(t, n, i, s, o, k)
  \/ \E s \in reported, i \in 1..MaxAttempts : ReportAttempt(t, n, i, s, o, k)
  \/ \E s \in reported : ReportNode(t, n, s, o, k)
  \/ \E s \in {"waiting_human", "cancelled"} : SetNode(t, n, s, o, k)

EffectWrite(t, x) ==
  /\ \/ EffectInsert(t, x)
     \/ EffectRedispatch(t, x)
     \/ \E s \in {"prepared", "committed", "unknown", "failed"} : EffectFinish(t, x, s)
  /\ UNCHANGED <<task, node, attempts>>

Passing(t) == LeaseLapses(t) \/ DeadlinePasses(t)

\* One step of any caller that writes and reports some of the statuses.
LedgerStep(written, reported) ==
  \/ Housekeeping
  \/ \E t \in Task :
       \/ Unguarded(t)
       \/ \E o \in Owner \cup {None}, k \in 0..MaxToken :
            \/ TaskWrite(t, o, k, written)
            \/ \E n \in Node : NodeWrite(t, n, o, k, reported)
       \/ \E x \in Operation : EffectWrite(t, x)
       \/ Passing(t)

\* The most general client writes and reports all of them.
LedgerNext == LedgerStep(CallerStatus, ReportStatus)
LedgerSpec == StoreInit /\ [][LedgerNext]_storeVars

-----------------------------------------------------------------------------
(* Invariants.                                                             *)

\* A row has an owner exactly when it has a lease time, an owned row is
\* running under a token that was issued, and nothing but a claim makes one.
RowShape(row) ==
  /\ row.owner = None <=> row.lease = "none"
  /\ row.owner # None => row.status = "running" /\ row.token > 0
LeaseShape == \A t \in Task : RowShape(task[t])

\* A node has at most one running attempt and it is the last one.  It never
\* carries a token from the future, and when it carries the token of the
\* lease in force it belongs to the owner of that lease: no second holder can
\* pass finish_attempt for work it did not start.
AttemptFencing ==
  \A t \in Task, n \in Node : \A i \in DOMAIN attempts[t][n] :
    LET a == attempts[t][n][i] IN
    /\ a.token <= task[t].token
    /\ a.status = "running" =>
         /\ i = Len(attempts[t][n])
         /\ (task[t].owner # None /\ a.token = task[t].token)
              => a.owner = task[t].owner

\* A node shown as running has an attempt that an interruption will close.
RunningNodeHasAttempt ==
  \A t \in Task, n \in Node : node[t][n] = "running" => Running(t, n)

-----------------------------------------------------------------------------
(* Action properties.                                                      *)

\* The ledger is a lease service: a generation of a task is granted once and
\* to one owner, only after the previous holder gave it up or let it lapse.
Holders == INSTANCE Lease WITH
  holder     <- [t \in Task |-> task[t].owner],
  generation <- [t \in Task |-> task[t].token],
  lapsed     <- [t \in Task |-> task[t].lease = "lapsed"]
ImplementsLease == Holders!Spec

\* While a lease is in force nobody but its holder ends it: an owned, unexpired
\* row loses its owner only together with a status its holder wrote, never by
\* the expiry of leases, a control request or a recovery.
LiveLeaseIsKept ==
  [][\A t \in Task :
       (task[t].lease = "live" /\ task'[t].owner # task[t].owner)
         => task'[t].released = [owner |-> task[t].owner, token |-> task[t].token,
                                 status |-> task'[t].status]]_storeVars

=============================================================================
