---------------------------- MODULE ToolEffects ----------------------------
(***************************************************************************)
(* One journalled tool call from the registry to the world and back:       *)
(* ToolRegistry.call and call_approved, begin_effect and finish_effect,    *)
(* the staged file write, the file move, the sending of a mail and the     *)
(* process execution, then what may be done about it afterwards: the       *)
(* compensation of a file effect and the reconciliation of a sent mail.    *)
(*                                                                         *)
(* The calls of one operation come one after another (TaskService shows    *)
(* that a task is not queued while a call of it may be in flight), but     *)
(* each may crash at any step.  Compensations and reconciliations run in   *)
(* other windows, and the user edits the files with other programs.        *)
(***************************************************************************)
EXTENDS Integers

CONSTANTS
  Compensator,   \* windows that may execute an approved compensation
  Reconciler,    \* windows that may reconcile a mail
  MaxCalls,      \* bound on the calls of the operation
  MaxEdits       \* bound on the user's edits of the files

ASSUME EffectsAssumption == MaxCalls \in Nat /\ MaxEdits \in Nat

VARIABLES
  tool,          \* the tool of the operation and the arguments that matter
  journal,       \* its row of runtime_tool_effects
  call,          \* the call under way, or the last one
  files,         \* content of the two paths the operation names
  backup,        \* the file effect_backups/<operation_id>
  snapshot,      \* whether email_effects/<operation_id>.eml exists
  delivered,     \* how often the mail was accepted by the server
  copies,        \* its copies in the sent folder
  executed,      \* how often the process was started
  comp,          \* the compensations under way
  rec,           \* the reconciliations under way
  restored,      \* how often a compensation put the files back
  denied,        \* history: an error behind the effect made the call a failed one
  calls, edits   \* counters for the bounds

world == <<files, backup, snapshot, delivered, copies, executed>>
vars == <<tool, journal, call, world, comp, rec, restored, denied, calls, edits>>

Tool == {"write", "move", "mail", "process"}
\* assess_path_write, assess_file_move and assess_command decide one of these.
Policy == {"allowed", "confirm", "blocked"}
\* A version of a file: none is a missing file, tool the content of the call.
Version == {"none", "orig", "tool", "edit"}
State == {"absent", "prepared", "dispatched", "committed", "failed", "unknown",
          "compensating", "compensated"}
Result == [comp : BOOLEAN, before : Version, after : Version,
           copy : {"none", "saved", "missing"}, mid : BOOLEAN]
NoResult == [comp |-> FALSE, before |-> "none", after |-> "none",
             copy |-> "none", mid |-> FALSE]
\* The result of a file effect, and of a mail that may have been accepted.
FileResult(before, after) == [comp |-> TRUE, before |-> before, after |-> after, copy |-> "none", mid |-> FALSE]
MailResult(copy) == [comp |-> FALSE, before |-> "none", after |-> "none", copy |-> copy, mid |-> TRUE]
Outcome == {"success", "waiting_human", "failed", "unknown"}

CallStage == {"idle", "select", "enter", "stage", "check", "replace",
              "link", "hash", "compare", "place", "verify", "unlink", "return",
              "connect", "send", "append", "run", "record"}
IdleCall == [stage |-> "idle", approved |-> FALSE, before |-> "none",
             outcome |-> "failed", result |-> NoResult, late |-> FALSE]
IdleComp == [stage |-> "idle", before |-> "none", after |-> "none", late |-> FALSE]
IdleRec  == [stage |-> "idle", state |-> "absent", missing |-> FALSE, copy |-> "none"]

ToolRow == [name : Tool, overwrite : BOOLEAN, existed : BOOLEAN, policy : Policy]
CallRow == [stage : CallStage, approved : BOOLEAN, before : Version,
            outcome : Outcome, result : Result, late : BOOLEAN]
CompRow == [stage : {"idle", "claim", "recheck", "swap", "remove", "relink", "undrop", "close"},
            before : Version, after : Version, late : BOOLEAN]
RecRow == [stage : {"idle", "find", "repair", "confirm"}, state : State, missing : BOOLEAN,
           copy : {"none", "saved", "missing"}]

\* Only a write inside the safe roots goes ahead without a confirmation.
Init ==
  /\ tool \in ToolRow
  /\ tool.name # "write" => ~tool.overwrite /\ tool.policy # "allowed"
  /\ tool.name = "mail" => tool.policy = "confirm"
  /\ journal = [state |-> "absent", result |-> NoResult]
  /\ call = IdleCall
  /\ tool.name # "write" => tool.existed = (tool.name = "move")
  /\ files = [src |-> IF tool.name = "move" THEN "orig" ELSE "none",
              dst |-> IF tool.name = "write" /\ tool.existed THEN "orig" ELSE "none"]
  /\ backup = "none" /\ snapshot = FALSE
  /\ delivered = 0 /\ copies = 0 /\ executed = 0
  /\ comp = [k \in Compensator |-> IdleComp]
  /\ rec = [m \in Reconciler |-> IdleRec]
  /\ restored = 0 /\ denied = FALSE /\ calls = 0 /\ edits = 0

-----------------------------------------------------------------------------
(* Moves of the call.                                                      *)

At(s) == call.stage = s
Goto(s) == call' = [call EXCEPT !.stage = s]
Remember(s, v) == call' = [call EXCEPT !.stage = s, !.before = v]
Ends(o, r) == call' = [call EXCEPT !.stage = "record", !.outcome = o, !.result = r]
Fails == Ends("failed", NoResult)
World == UNCHANGED world
Bystanders == UNCHANGED <<tool, comp, rec, restored, calls, edits>>
Others == Bystanders /\ UNCHANGED denied

\* control.checkpoint and the permitted arguments.  The approval path calls the
\* approval handler of an operation that has been prepared.
StartCall(approved) ==
  /\ At("idle") /\ calls < MaxCalls
  /\ approved => journal.state = "prepared"
  /\ call' = [IdleCall EXCEPT !.stage = "select", !.approved = approved]
  /\ calls' = calls + 1
  /\ World /\ UNCHANGED <<tool, journal, comp, rec, restored, denied, edits>>

Admits(s) == s \in {"absent", "prepared", "failed"}

\* begin_effect: a refusal is returned without touching the row.
BeginEffect ==
  /\ At("select")
  /\ IF Admits(journal.state)
     THEN Goto("enter") /\ journal' = [journal EXCEPT !.state = "dispatched"]
     ELSE call' = IdleCall /\ UNCHANGED journal
  /\ World /\ Others

FirstStage == CASE tool.name = "write" -> "stage" [] tool.name = "move" -> "hash"
                [] tool.name = "mail" -> "connect" [] OTHER -> "run"

\* require_permission: blocked raises, a missing confirmation is a prepared
\* result.  A write remembers the version it is about to replace.  One that may
\* not replace a version has written nothing, which the registry takes for
\* another request when the path is one to confirm.
Enter ==
  /\ At("enter")
  /\ \/ tool.policy = "blocked" /\ Fails
     \/ tool.policy = "confirm" /\ ~call.approved /\ Ends("waiting_human", NoResult)
     \/ /\ tool.policy = "allowed" \/ (tool.policy = "confirm" /\ call.approved)
        /\ IF tool.name = "write" /\ files.dst # "none" /\ ~tool.overwrite
           THEN Ends(IF tool.policy = "confirm" THEN "waiting_human" ELSE "failed", NoResult)
           ELSE Remember(FirstStage, files.dst)
  /\ World /\ UNCHANGED journal /\ Others

Put(p, v) == files' = [files EXCEPT ![p] = v]
Elsewhere == UNCHANGED <<backup, snapshot, delivered, copies, executed, journal>> /\ Bystanders
WithFiles == Elsewhere /\ UNCHANGED denied
Proceed(s) == Goto(s) /\ UNCHANGED denied

\* The staged copy cannot be removed, or the new file not be read back: the call
\* is a failed one although the file is in place.
FailsLate == Fails /\ denied' = TRUE
\* UnknownSideEffect, which an error in the removal of the copy replaces.
LeavesOpen == (Ends("unknown", NoResult) /\ UNCHANGED denied) \/ FailsLate

\* An error of the file system before the effect.
DiskError ==
  /\ call.stage \in {"stage", "check", "replace", "link", "hash", "compare", "place"}
  /\ Fails
  /\ World /\ UNCHANGED journal /\ Others

\* write_file: the old version is backed up and compared, then replaced; a
\* path that is free is taken by a hard link, which never overwrites.
StageWrite ==
  /\ At("stage")
  /\ IF files.dst # "none" /\ tool.overwrite
     THEN /\ backup' = files.dst
          /\ IF files.dst = call.before THEN Goto("check") ELSE Fails
     ELSE Goto("link") /\ UNCHANGED backup
  /\ UNCHANGED <<files, snapshot, delivered, copies, executed, journal>> /\ Others
\* Mutant: the target is not compared once more before it is replaced.
Unchanged_NotCompared(v) == TRUE
Unchanged(v) == v = call.before
CheckTarget ==
  /\ At("check")
  /\ IF Unchanged(files.dst) THEN Goto("replace") ELSE Fails
  /\ World /\ UNCHANGED journal /\ Others
Replace == At("replace") /\ Put("dst", "tool") /\ Goto("return") /\ WithFiles
LinkWrite ==
  /\ At("link")
  /\ \/ files.dst = "none" /\ Put("dst", "tool") /\ (Proceed("return") \/ FailsLate)
     \/ files.dst # "none" /\ Fails /\ UNCHANGED <<files, denied>>
  /\ Elsewhere

\* apply_file_move: copy and compare, link the copy, compare the source again,
\* drop the source.  Past the link an error, of a file in use as well, leaves the
\* outcome open, but for one in the removal of the copy, which comes last.
HashSource ==
  /\ At("hash")
  /\ IF files.src = "none" \/ files.dst # "none" THEN Fails
     ELSE Remember("compare", files.src)
  /\ World /\ UNCHANGED journal /\ Others
CompareSource ==
  /\ At("compare")
  /\ IF Unchanged(files.src) THEN Goto("place") ELSE Fails
  /\ World /\ UNCHANGED journal /\ Others
PlaceCopy ==
  /\ At("place")
  /\ IF files.dst = "none" THEN Put("dst", call.before) /\ Goto("verify")
     ELSE Fails /\ UNCHANGED files
  /\ WithFiles
VerifySource ==
  /\ At("verify")
  /\ (Unchanged(files.src) /\ Proceed("unlink")) \/ LeavesOpen
  /\ UNCHANGED files /\ Elsewhere
DropSource ==
  /\ At("unlink")
  /\ \/ files.src # "none" /\ Put("src", "none") /\ (Proceed("return") \/ FailsLate)
     \/ LeavesOpen /\ UNCHANGED files
  /\ Elsewhere

\* The size of what was written, or the hash of what was moved, goes into the
\* result.  Both raise if the file is gone, the hash also if it cannot be read.
ReturnFile ==
  /\ At("return")
  /\ \/ files.dst = "none" /\ Fails /\ UNCHANGED denied
     \/ tool.name = "move" /\ FailsLate
     \/ /\ files.dst # "none" /\ UNCHANGED denied
        /\ Ends("success", FileResult(call.before, IF tool.name = "move" THEN files.dst ELSE "tool"))
  /\ UNCHANGED files /\ Elsewhere

\* _send: the MIME snapshot first; a stop that is noticed before the message
\* leaves is not told apart from one that is noticed later.
Connect ==
  /\ At("connect")
  /\ snapshot' = TRUE
  /\ Goto("send") \/ Fails \/ Ends("unknown", NoResult)
  /\ UNCHANGED <<files, backup, delivered, copies, executed, journal>> /\ Others
Send ==
  /\ At("send")
  /\ \/ Goto("append") /\ delivered' = delivered + 1
     \/ Fails /\ UNCHANGED delivered
     \/ /\ Ends("unknown", MailResult("none"))
        /\ delivered' \in {delivered, delivered + 1}
  /\ UNCHANGED <<files, backup, snapshot, copies, executed, journal>> /\ Others
\* The copy for the sent folder: an error, or a stop, leaves it open whether
\* the server has stored it, and the mail is sent all the same.
Append ==
  /\ At("append")
  /\ \/ /\ Ends("success", MailResult("saved"))
        /\ copies' = copies + 1
     \/ /\ Ends("success", MailResult("missing"))
        /\ copies' \in {copies, copies + 1}
  /\ UNCHANGED <<files, backup, snapshot, delivered, executed, journal>> /\ Others

\* _run_process: finished, failed, timed out or stopped; the process tree is
\* killed before the call returns.
Run ==
  /\ At("run")
  /\ \/ Fails /\ UNCHANGED executed
     \/ executed' = executed + 1 /\ \E o \in {"success", "failed", "unknown"} : Ends(o, NoResult)
  /\ UNCHANGED <<files, backup, snapshot, delivered, copies, journal>> /\ Others

\* Mutants: the outcome is stored as it is; an open outcome, or a process that
\* failed, is journalled as failed.
RecordedState_Raw(o) == o
RecordedState_OpenIsFailed(o) ==
  CASE o = "waiting_human" -> "prepared" [] o = "success" -> "committed" [] OTHER -> "failed"
RecordedState_FailedProcess(o) ==
  CASE o = "waiting_human" -> "prepared" [] o = "success" -> "committed" [] OTHER -> o

\* finish_effect: code that failed may have changed something.
RecordedState(o) ==
  CASE o = "waiting_human" -> "prepared" [] o = "success" -> "committed"
    [] o = "failed" /\ tool.name = "process" -> "unknown" [] OTHER -> o
FinishEffect ==
  /\ At("record")
  /\ journal' = [state |-> RecordedState(call.outcome), result |-> call.result]
  /\ call' = IdleCall
  /\ World /\ Others

Crash == ~At("idle") /\ call' = IdleCall /\ World /\ UNCHANGED journal /\ Others

-----------------------------------------------------------------------------
(* Compensation of a file effect.                                          *)

CompAt(k, s) == comp[k].stage = s
CompGoto(k, s) == comp' = [comp EXCEPT ![k].stage = s]
CompLeave(k) == comp' = [comp EXCEPT ![k] = IdleComp]
Calls == UNCHANGED <<tool, call, rec, denied, calls, edits>>

\* compensate_file_effect up to the claim: the row, the policy, the version of
\* the target and the backup must be what the journal says.
InspectEffect(k) ==
  LET r == journal.result IN
  /\ CompAt(k, "idle")
  /\ tool.name \in {"write", "move"} /\ tool.policy # "blocked"
  /\ journal.state = "committed" /\ r.comp
  /\ files.dst = r.after /\ files.dst # "none"
  /\ tool.name = "move" => files.src = "none"
  /\ tool.name = "write" /\ r.before # "none" => backup = r.before
  /\ comp' = [comp EXCEPT ![k] = [IdleComp EXCEPT !.stage = "claim", !.before = r.before,
                                                  !.after = r.after]]
  /\ World /\ UNCHANGED <<journal, restored>> /\ Calls

Claimable(s) == s = "committed"

\* _claim_compensation: one compensation wins; a crash from here on leaves the
\* row compensating for a manual review.
ClaimCompensation(k) ==
  /\ CompAt(k, "claim")
  /\ IF Claimable(journal.state)
     THEN /\ journal' = [journal EXCEPT !.state = "compensating"]
          /\ CompGoto(k, IF tool.name = "write" /\ comp[k].before = "none"
                         THEN "remove" ELSE "recheck")
     ELSE CompLeave(k) /\ UNCHANGED journal
  /\ World /\ UNCHANGED restored /\ Calls

\* The backup, or the moved file, is staged and the target compared again.
Recheck(k) ==
  /\ CompAt(k, "recheck")
  /\ IF /\ files.dst = comp[k].after
        /\ tool.name = "move" => files.dst = comp[k].before
     THEN CompGoto(k, IF tool.name = "move" THEN "relink" ELSE "swap")
     ELSE CompLeave(k)
  /\ World /\ UNCHANGED <<journal, restored>> /\ Calls

\* Mutant: a compensated move drops the moved file before it is linked back.
Relink_DropFirst(k) ==
  files' = [files EXCEPT !.dst = "none"] /\ CompGoto(k, "undrop")
Relink(k) ==
  IF files.src = "none" THEN Put("src", comp[k].before) /\ CompGoto(k, "undrop")
  ELSE CompLeave(k) /\ UNCHANGED files

Restore(k) ==
  /\ \/ CompAt(k, "swap") /\ Put("dst", comp[k].before) /\ CompGoto(k, "close")
     \/ /\ CompAt(k, "remove")
        /\ IF files.dst # "none" THEN Put("dst", "none") /\ CompGoto(k, "close")
           ELSE CompLeave(k) /\ UNCHANGED files
     \/ CompAt(k, "relink") /\ Relink(k)
     \/ /\ CompAt(k, "undrop")
        /\ IF files.dst # "none" THEN Put("dst", "none") /\ CompGoto(k, "close")
           ELSE CompLeave(k) /\ UNCHANGED files
  /\ restored' = IF comp'[k].stage = "close" THEN restored + 1 ELSE restored
  /\ UNCHANGED <<backup, snapshot, delivered, copies, executed, journal>> /\ Calls

CloseCompensation(k) ==
  /\ CompAt(k, "close")
  /\ journal' = IF journal.state = "compensating"
                THEN [journal EXCEPT !.state = "compensated"] ELSE journal
  /\ CompLeave(k)
  /\ World /\ UNCHANGED restored /\ Calls

CompCrash(k) ==
  /\ ~CompAt(k, "idle") /\ CompLeave(k)
  /\ World /\ UNCHANGED <<journal, restored>> /\ Calls

-----------------------------------------------------------------------------
(* Reconciliation of a sent mail.                                          *)

RecAt(m, s) == rec[m].stage = s
RecLeave(m) == rec' = [rec EXCEPT ![m] = IdleRec]
Rest == UNCHANGED <<tool, call, comp, restored, denied, calls, edits,
                    files, backup, snapshot, delivered, executed>>

\* find_sent_copy, by the Message-ID that the operation id determines.
Found == copies > 0

\* The row is read, then the folder is searched: an open effect with a copy
\* and a committed one go on, one whose copy is missing is repaired.
LookUp(m) ==
  LET s == journal.state
      r == journal.result
  IN /\ RecAt(m, "idle")
     /\ tool.name = "mail" /\ s \in {"dispatched", "unknown", "committed"}
     /\ r.mid \/ snapshot
     /\ rec' = [rec EXCEPT ![m] = [stage |-> "find", state |-> s,
                  missing |-> r.copy = "missing", copy |-> r.copy]]
     /\ UNCHANGED <<journal, copies>> /\ Rest
Judge(m) ==
  /\ RecAt(m, "find")
  /\ \/ Found /\ rec' = [rec EXCEPT ![m].stage = "confirm"]
     \/ /\ ~Found /\ rec[m].state = "committed" /\ rec[m].missing
        /\ rec' = [rec EXCEPT ![m].stage = "repair"]
     \/ /\ ~Found /\ ~(rec[m].state = "committed" /\ rec[m].missing)
        /\ RecLeave(m)
  /\ UNCHANGED <<journal, copies>> /\ Rest
\* repair_sent_copy searches again and appends the snapshot; an error leaves
\* it open whether the copy was stored.
Repair(m) ==
  /\ RecAt(m, "repair")
  /\ \/ Found /\ rec' = [rec EXCEPT ![m].stage = "confirm"] /\ UNCHANGED copies
     \/ /\ ~Found /\ snapshot
        /\ \/ rec' = [rec EXCEPT ![m].stage = "confirm"] /\ copies' = copies + 1
           \/ RecLeave(m) /\ copies' \in {copies, copies + 1}
     \/ ~Found /\ ~snapshot /\ RecLeave(m) /\ UNCHANGED copies
  /\ UNCHANGED journal /\ Rest
CopySaved(result) == [result EXCEPT !.mid = TRUE, !.copy = "saved"]
\* Written only if the state is the one that was read.
Confirm(m) ==
  /\ RecAt(m, "confirm")
  /\ journal' = IF journal.state = rec[m].state
                THEN [state |-> "committed",
                      result |-> CopySaved(journal.result)]
                ELSE journal
  /\ RecLeave(m)
  /\ UNCHANGED copies /\ Rest

-----------------------------------------------------------------------------
\* The program stands between its last comparison of a file and its write.
CallIsLate == call.stage \in {"replace", "unlink"}
CompIsLate(k) ==
  \/ comp[k].stage \in {"swap", "remove", "relink", "undrop"}
  \/ comp[k].stage = "claim" /\ tool.name = "write" /\ comp[k].before = "none"

\* The user changes or deletes a file with another program (late is history:
\* a version came after the last comparison, or a copy was deleted).
Edit(p, v) ==
  /\ tool.name \in {"write", "move"} /\ edits < MaxEdits
  /\ files[p] # v /\ Put(p, v)
  /\ edits' = edits + 1
  /\ call' = [call EXCEPT !.late = @ \/ CallIsLate \/ v = "none"]
  /\ comp' = [k \in Compensator |-> 
                [comp[k] EXCEPT !.late = @ \/ CompIsLate(k) \/ v = "none"]]
  /\ UNCHANGED <<tool, journal, backup, snapshot, delivered, copies,
                 executed, rec, restored, denied, calls>>

CallStep ==
  \/ \E approved \in BOOLEAN : StartCall(approved)
  \/ BeginEffect \/ Enter \/ FinishEffect \/ Crash \/ DiskError
  \/ StageWrite \/ CheckTarget \/ Replace \/ LinkWrite
  \/ HashSource \/ CompareSource \/ PlaceCopy \/ VerifySource \/ DropSource
  \/ ReturnFile \/ Connect \/ Send \/ Append \/ Run
CompensationStep(k) ==
  \/ InspectEffect(k) \/ ClaimCompensation(k) \/ Recheck(k) \/ Restore(k)
  \/ CloseCompensation(k) \/ CompCrash(k)
ReconciliationStep(m) == LookUp(m) \/ Judge(m) \/ Repair(m) \/ Confirm(m)

Next ==
  \/ CallStep
  \/ \E k \in Compensator : CompensationStep(k)
  \/ \E m \in Reconciler : ReconciliationStep(m)
  \/ \E p \in {"src", "dst"}, v \in {"edit", "none"} : Edit(p, v)

Spec == Init /\ [][Next]_vars

-----------------------------------------------------------------------------
\* Every variable keeps its type.
TypeOK ==
  /\ tool \in ToolRow
  /\ journal \in [state : State, result : Result]
  /\ call \in CallRow
  /\ files \in [{"src", "dst"} -> Version]
  /\ backup \in Version /\ snapshot \in BOOLEAN
  /\ delivered \in Nat /\ copies \in Nat /\ executed \in Nat
  /\ comp \in [Compensator -> CompRow]
  /\ rec \in [Reconciler -> RecRow]
  /\ restored \in Nat /\ denied \in BOOLEAN /\ calls \in Nat /\ edits \in Nat

\* No mail leaves twice and no process is started twice for one operation,
\* whatever was lost, refused, stopped or crashed in the calls before.
AppliedAtMostOnce == delivered <= 1 /\ executed <= 1

\* The files and the mail are as they were before the operation.
NothingDone ==
  /\ files.dst # "tool" /\ (tool.name = "move" => files = [src |-> "orig", dst |-> "none"])
  /\ delivered = 0

\* The journal tells the truth.  What it, or a reconciliation, calls committed
\* has happened; and a row that says failed, and so admits another call, has
\* left the files as they were and the mail unsent, unless an error came behind
\* the effect (write_tools.py:123, file_tools.py:274, :282; a user who deletes
\* the target under the call can break that, too).
JournalIsTrue ==
  /\ journal.state \in {"committed", "compensating", "compensated"} =>
       CASE tool.name = "mail" -> delivered = 1
         [] tool.name = "process" -> executed = 1
         [] OTHER -> journal.result.comp
  /\ (journal.state = "failed" /\ At("idle") /\ edits = 0 /\ ~denied) => NothingDone

\* The version a file had before the operation exists somewhere, in the file,
\* at its new place or in the backup, as long as the user leaves the files alone.
OriginalIsKept ==
  (edits = 0 /\ tool.existed) => "orig" \in {files.src, files.dst, backup}

\* What a user has written is gone from both paths and the backup only if it
\* was written between the last comparison and the write of the same run, or
\* the user deleted a copy of it under the run.
EditIsCompared ==
  [][\A p \in {"src", "dst"} :
       (files[p] = "edit" /\ files'[p] # "edit" /\ edits' = edits)
         => \/ "edit" \in {files'.src, files'.dst, backup}
            \/ call' # call /\ call.late
            \/ \E k \in Compensator : comp'[k] # comp[k] /\ comp[k].late]_vars

=============================================================================
