------------------------------- MODULE Lease -------------------------------
(***************************************************************************)
(* What the task ledger promises about the right to execute a task, freed  *)
(* of tables and statuses: per task a holder, the generation (fencing      *)
(* token) of its lease, and whether that lease has lapsed.  A generation   *)
(* is granted at most once, to one holder; a lease ends because its holder *)
(* gives it up, or because it lapsed and its generation is burnt.          *)
(* One transaction may change several tasks at once, never one task twice  *)
(* except to revoke a lapsed lease and grant the next one.                 *)
(***************************************************************************)
EXTENDS Naturals

CONSTANTS Task, Owner, None

VARIABLES holder, generation, lapsed

vars == <<holder, generation, lapsed>>

Init ==
  /\ holder = [t \in Task |-> None]
  /\ generation = [t \in Task |-> 0]
  /\ lapsed = [t \in Task |-> FALSE]

Keep(t) == UNCHANGED <<holder[t], generation[t], lapsed[t]>>

\* A new generation for a task that nobody holds.
Grant(t) ==
  /\ holder[t] = None
  /\ holder'[t] \in Owner
  /\ generation'[t] > generation[t]
  /\ ~lapsed'[t]

\* Time passes without a renewal; a lease that lapsed is not renewed.
Lapse(t) ==
  /\ holder[t] # None
  /\ lapsed'[t]
  /\ UNCHANGED <<holder[t], generation[t]>>

\* The holder gives its unexpired lease up.
GiveUp(t) ==
  /\ holder[t] # None /\ ~lapsed[t]
  /\ holder'[t] = None /\ ~lapsed'[t]
  /\ UNCHANGED generation[t]

\* A lease that lapsed is taken away, and its generation with it.
Revoke(t) ==
  /\ holder[t] # None /\ lapsed[t]
  /\ holder'[t] = None /\ ~lapsed'[t]
  /\ generation'[t] > generation[t]

\* Nobody holds the task; past generations are burnt.
Fence(t) ==
  /\ holder[t] = None
  /\ holder'[t] = None /\ ~lapsed'[t]
  /\ generation'[t] > generation[t]

Step(t) ==
  \/ Keep(t) \/ Grant(t) \/ Lapse(t) \/ GiveUp(t)
  \/ Revoke(t) \/ Fence(t)

Next == \A t \in Task : Step(t)

Spec == Init /\ [][Next]_vars
=============================================================================
