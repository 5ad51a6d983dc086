-------------------------- MODULE MCApiAdmission --------------------------
EXTENDS ApiAdmission

CONSTANTS p1, p2, s1, s2, c1, c2, x1, x2, x3, d1, go, stop

PrincipalOfSlot == [x \in Slot |-> IF x = x3 THEN p2 ELSE p1]
ParentOfSlot == [x \in Slot |-> IF x = d1 THEN x1 ELSE None]
CostOfBody == [b \in Body |-> IF b = go THEN 1 ELSE 2]

\* Two threads on one key with two requests; a task that waits for a decision;
\* a stream; two keys and the quotas of a minute and a day; two keys of which
\* one may be abandoned while it counts; a session that another principal names.
Tight == [active |-> 1, recent |-> 1, daily |-> 3, queue |-> 2]
Wide == [active |-> 2, recent |-> 2, daily |-> 4, queue |-> 2]
Race == [slots |-> {x1}, bodies |-> {go, stop}, sessions |-> {}, callers |-> {c1, c2},
         cancels |-> TRUE, quota |-> Tight, streams |-> FALSE, ages |-> FALSE, crashes |-> 1]
Pair == [Race EXCEPT !.slots = {x1, x2}, !.bodies = {stop}, !.callers = {c1}, !.cancels = FALSE,
                     !.quota = Wide]
MCSettings ==
  {Race,
   [Race EXCEPT !.slots = {x1, d1}, !.callers = {c1}, !.bodies = {go}, !.cancels = FALSE,
                !.quota = Wide, !.crashes = 0],
   [Race EXCEPT !.bodies = {go}, !.callers = {c1}, !.streams = TRUE],
   [Pair EXCEPT !.quota = Tight, !.ages = TRUE, !.crashes = 0],
   [Pair EXCEPT !.quota.active = 1],
   [Pair EXCEPT !.slots = {x1, x3}, !.sessions = {s1}, !.bodies = {go}, !.crashes = 0]}

\* A decision that is cut short and sent again.
DecisionSettings ==
  {[Race EXCEPT !.slots = {x1, d1}, !.bodies = {go}, !.callers = {c1}, !.cancels = FALSE,
                !.quota = Wide]}
=============================================================================
