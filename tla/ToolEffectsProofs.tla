------------------------- MODULE ToolEffectsProofs -------------------------
(***************************************************************************)
(* Proofs about ToolEffects: for any number of calls, edits, windows and   *)
(* crashes an effect takes place at most once, and the journal tells the   *)
(* truth about it.  The invariant says, stage by stage, what the row may   *)
(* hold while a call is under way and what it must hold once the effect    *)
(* has taken place.  A second invariant, on top of the first, says what    *)
(* the files and the backup hold at every stage: no original is lost, and  *)
(* what another program saved is compared before it is replaced.           *)
(***************************************************************************)
EXTENDS ToolEffects, TLAPS

FileTool == tool.name \in {"write", "move"}
Admitting == {"absent", "prepared", "failed"}
Done == {"committed", "compensating", "compensated"}

\* A call that passed begin_effect owns the row: nobody else writes it, but
\* for a reconciliation that has found the mail.
RowIsOwned ==
  call.stage \notin {"idle", "select"} =>
    journal.state = "dispatched" \/ (tool.name = "mail" /\ journal.state = "committed")

\* Every stage belongs to one tool.
StageFitsTool ==
  /\ call.stage \in {"stage", "check", "replace", "link"} => tool.name = "write"
  /\ call.stage \in {"hash", "compare", "place", "verify", "unlink"} => tool.name = "move"
  /\ call.stage \in {"connect", "send", "append"} => tool.name = "mail"
  /\ call.stage = "run" => tool.name = "process"
  /\ call.stage = "return" => FileTool
  /\ \A k \in Compensator : comp[k].stage # "idle" => FileTool
  /\ \A m \in Reconciler : rec[m].stage # "idle" => tool.name = "mail"

\* A mail that was accepted is past the stages that could send it, and its row
\* admits no further call.
SentIsKnown ==
  /\ delivered \in {0, 1} /\ (copies > 0 => delivered = 1)
  /\ delivered = 1 =>
       /\ tool.name = "mail" /\ journal.state \notin Admitting
       /\ \/ call.stage \in {"idle", "select", "append"}
          \/ call.stage = "record" /\ call.outcome \in {"success", "unknown"}
  /\ call.stage = "append" => delivered = 1
  /\ \A m \in Reconciler :
       /\ rec[m].stage = "confirm" => delivered = 1
       /\ (rec[m].stage # "idle" /\ rec[m].state = "committed") => delivered = 1
       /\ rec[m].stage = "repair" => rec[m].state = "committed"

\* The same of a process that was started, which may also have failed.
StartedIsKnown ==
  /\ executed \in {0, 1}
  /\ executed = 1 =>
       /\ tool.name = "process" /\ journal.state \notin Admitting
       /\ \/ call.stage \in {"idle", "select"}
          \/ call.stage = "record" /\ call.outcome \in {"success", "failed", "unknown"}

\* What is reported, and what is journalled, as done has happened.
HasHappened(result) ==
  /\ tool.name = "mail" => delivered = 1
  /\ tool.name = "process" => executed = 1
  /\ FileTool => result.comp = TRUE
SuccessIsTrue ==
  /\ (call.stage = "record" /\ call.outcome = "success") => HasHappened(call.result)
  /\ journal.state \in Done => HasHappened(journal.result)

\* While the user leaves the files alone a call that has not reached its write
\* finds them as they were, and so does one that failed.
Untouched ==
  /\ files.dst # "tool"
  /\ tool.name = "move" => files.src = "orig" /\ files.dst = "none"
\* The stages before the write.
Early == {"enter", "stage", "check", "replace", "link", "hash", "compare", "place"}
FailureIsTrue ==
  /\ call.stage \in {"compare", "place", "verify", "unlink"} => call.before # "none"
  /\ edits = 0 /\ call.stage \in {"verify", "unlink", "return"} => files.dst # "none"
  /\ edits = 0 /\ ~denied =>
       /\ FileTool /\ call.stage \in Early => Untouched
       /\ (FileTool /\ call.stage = "record" /\ call.outcome \in {"failed", "waiting_human"}) => Untouched
       /\ FileTool /\ journal.state \in Admitting => Untouched
       /\ ~FileTool => Untouched

\* A compensation that has claimed the row has left it no way back.
ClaimIsFinal ==
  \A k \in Compensator :
    comp[k].stage \notin {"idle", "claim"} => journal.state \in {"compensating", "compensated"}

\* Everything a call under way is between.
Inv ==
  /\ TypeOK /\ RowIsOwned /\ StageFitsTool /\ SentIsKnown /\ StartedIsKnown
  /\ SuccessIsTrue /\ FailureIsTrue /\ ClaimIsFinal

-----------------------------------------------------------------------------
(* Types, and what the macros of the actions do.                           *)

\* The rows of a window or a call that is idle, and the results a call ends with.
LEMMA RowTypes ==
  /\ IdleCall \in CallRow /\ IdleCall.stage = "idle"
  /\ NoResult \in Result
  /\ \A c \in {"none", "saved", "missing"} : MailResult(c) \in Result
  /\ \A v, w \in Version : FileResult(v, w) \in Result /\ FileResult(v, w).comp = TRUE
BY DEF IdleCall, NoResult, MailResult, FileResult, CallRow, Result, CallStage, Outcome, Version

\* A reconciliation changes the copy in a result and nothing else.
LEMMA CopySavedType ==
  ASSUME NEW r \in Result
  PROVE  CopySaved(r) \in Result /\ CopySaved(r).comp = r.comp
BY DEF Result, CopySaved

\* History marks a row and leaves the rest of it.
LEMMA LateRows ==
  /\ \A row \in CallRow, b \in BOOLEAN :
       LET r == [row EXCEPT !.late = @ \/ b]
       IN r \in CallRow /\ r.stage = row.stage /\ r.outcome = row.outcome /\ r.result = row.result
            /\ r.before = row.before
  /\ \A row \in CompRow, b \in BOOLEAN :
       LET r == [row EXCEPT !.late = @ \/ b] IN r \in CompRow /\ r.stage = row.stage
BY DEF CallRow, CompRow

\* The call goes to a stage, with the version it remembers, or ends.
LEMMA CallMoves ==
  ASSUME call \in CallRow
  PROVE  /\ call.stage \in CallStage /\ call.before \in Version /\ call.outcome \in Outcome
         /\ call.result \in Result /\ call.approved \in BOOLEAN
         /\ \A s \in CallStage : Goto(s) =>
              /\ call' \in CallRow /\ call'.stage = s /\ call'.before = call.before
         /\ \A s \in CallStage, v \in Version : Remember(s, v) =>
              /\ call' \in CallRow /\ call'.stage = s /\ call'.before = v
         /\ \A o \in Outcome, r \in Result : Ends(o, r) =>
              /\ call' \in CallRow /\ call'.stage = "record" /\ call'.outcome = o
              /\ call'.result = r /\ call'.before = call.before
BY DEF CallRow, CallStage, Goto, Remember, Ends

\* A row that starts.
LEMMA CallStarts ==
  ASSUME NEW row \in CallRow, NEW a \in BOOLEAN
  PROVE  /\ [row EXCEPT !.stage = "select", !.approved = a] \in CallRow
         /\ [row EXCEPT !.stage = "select", !.approved = a].stage = "select"
BY DEF CallRow, CallStage

CompStage == {"idle", "claim", "recheck", "swap", "remove", "relink", "undrop", "close"}

\* A row of a window that moves.
LEMMA CompRowMoves ==
  ASSUME NEW row \in CompRow, NEW s \in CompStage
  PROVE  /\ [row EXCEPT !.stage = s] \in CompRow /\ [row EXCEPT !.stage = s].stage = s
         /\ row.stage \in CompStage /\ row.before \in Version /\ row.after \in Version
BY DEF CompRow, CompStage

\* What a row of a window holds.
LEMMA CompRowTypes ==
  ASSUME NEW row \in CompRow
  PROVE  row.stage \in CompStage /\ row.before \in Version /\ row.after \in Version
BY DEF CompRow, CompStage

\* A window that opens.
LEMMA CompOpens ==
  ASSUME NEW v \in Version, NEW w \in Version
  PROVE  LET row == [IdleComp EXCEPT !.stage = "claim", !.before = v, !.after = w]
         IN row \in CompRow /\ row.stage = "claim"
BY DEF IdleComp, CompRow, Version

\* One window moves, the others stay.
LEMMA CompGotoMoves ==
  ASSUME comp \in [Compensator -> CompRow], NEW k \in Compensator, NEW s \in CompStage, CompGoto(k, s)
  PROVE  /\ comp' \in [Compensator -> CompRow] /\ comp'[k].stage = s
         /\ \A j \in Compensator \ {k} : comp'[j] = comp[j]
<1> DEFINE row == [comp[k] EXCEPT !.stage = s]
<1>1. row \in CompRow /\ row.stage = s
  BY CompRowMoves
<1>2. comp' = [comp EXCEPT ![k] = row]
  BY DEF CompGoto
<1> HIDE DEF row
<1> QED BY <1>1, <1>2

\* One window leaves, the others stay.
LEMMA CompLeaveMoves ==
  ASSUME comp \in [Compensator -> CompRow], NEW k \in Compensator, CompLeave(k)
  PROVE  /\ comp' \in [Compensator -> CompRow] /\ comp'[k].stage = "idle"
         /\ \A j \in Compensator \ {k} : comp'[j] = comp[j]
<1>1. IdleComp \in CompRow /\ IdleComp.stage = "idle"
  BY DEF IdleComp, CompRow, Version
<1> QED BY <1>1 DEF CompLeave

\* A row of a reconciliation that moves.
LEMMA RecRowMoves ==
  ASSUME NEW row \in RecRow, NEW s \in {"confirm", "repair"}
  PROVE  /\ [row EXCEPT !.stage = s] \in RecRow /\ [row EXCEPT !.stage = s].stage = s
         /\ [row EXCEPT !.stage = s].state = row.state /\ row.state \in State
BY DEF RecRow

\* One reconciliation goes on, the others stay.
LEMMA RecGotoMoves ==
  ASSUME rec \in [Reconciler -> RecRow], NEW m \in Reconciler, NEW s \in {"confirm", "repair"},
         rec' = [rec EXCEPT ![m].stage = s]
  PROVE  /\ rec' \in [Reconciler -> RecRow] /\ rec'[m].stage = s /\ rec'[m].state = rec[m].state
         /\ \A j \in Reconciler \ {m} : rec'[j] = rec[j]
<1> DEFINE row == [rec[m] EXCEPT !.stage = s]
<1>1. row \in RecRow /\ row.stage = s /\ row.state = rec[m].state
  <2>1. rec[m] \in RecRow
    OBVIOUS
  <2> QED BY <2>1, RecRowMoves
<1>2. rec' = [rec EXCEPT ![m] = row]
  OBVIOUS
<1> HIDE DEF row
<1> QED BY <1>1, <1>2

\* One reconciliation leaves, the others stay.
LEMMA RecLeaveMoves ==
  ASSUME rec \in [Reconciler -> RecRow], NEW m \in Reconciler, RecLeave(m)
  PROVE  /\ rec' \in [Reconciler -> RecRow] /\ rec'[m].stage = "idle"
         /\ \A j \in Reconciler \ {m} : rec'[j] = rec[j]
<1>1. IdleRec \in RecRow /\ IdleRec.stage = "idle"
  BY DEF IdleRec, RecRow, State
<1> QED BY <1>1 DEF RecLeave

\* The stages, versions, outcomes and states the actions name.
LEMMA NamesAreTypes ==
  /\ {"idle", "select", "enter", "stage", "check", "replace", "link", "hash", "compare", "place", "verify",
       "unlink", "return", "connect", "send", "append", "run", "record"} \subseteq CallStage
  /\ {"none", "orig", "tool", "edit"} \subseteq Version
  /\ {"success", "waiting_human", "failed", "unknown"} \subseteq Outcome
  /\ {"dispatched", "committed", "compensating", "compensated"} \subseteq State
BY DEF CallStage, Version, Outcome, State

\* What finish_effect makes of an outcome.
LEMMA RecordedStates ==
  /\ RecordedState("success") = "committed" /\ RecordedState("waiting_human") = "prepared"
  /\ RecordedState("unknown") = "unknown"
  /\ tool.name = "process" => RecordedState("failed") = "unknown"
  /\ tool.name # "process" => RecordedState("failed") = "failed"
BY DEF RecordedState

-----------------------------------------------------------------------------
(* Steps of the call.                                                      *)

\* The invariant without the types and the files.
RowInv == RowIsOwned /\ StageFitsTool /\ SentIsKnown /\ StartedIsKnown /\ SuccessIsTrue /\ ClaimIsFinal

\* The facts every step starts from.
LEMMA InvFacts ==
  ASSUME Inv
  PROVE  /\ TypeOK /\ RowInv /\ FailureIsTrue
         /\ call \in CallRow /\ comp \in [Compensator -> CompRow] /\ rec \in [Reconciler -> RecRow]
         /\ files \in [{"src", "dst"} -> Version] /\ tool.name \in Tool
         /\ journal \in [state : State, result : Result]
         /\ delivered \in Nat /\ copies \in Nat /\ executed \in Nat
BY DEF Inv, RowInv, TypeOK, ToolRow

\* The old version is backed up.
LEMMA StageWriteStep == ASSUME Inv, StageWrite PROVE Inv'
<1>1. TypeOK /\ RowInv /\ FailureIsTrue
  BY InvFacts
<1>2. call' \in CallRow /\ ((call'.stage = "check" /\ call'.before = call.before) \/ (call'.stage = "link"
       /\ call'.before = call.before) \/ (call'.stage = "record" /\ call'.outcome = "failed"))
  BY InvFacts, CallMoves, RowTypes, NamesAreTypes DEF StageWrite, Fails
<1>3. TypeOK'
  BY <1>1, <1>2 DEF TypeOK, StageWrite, At, World, world, Others, Bystanders, Put
<1>4. RowInv'
  BY InvFacts, <1>1, <1>2 DEF RowInv, RowIsOwned, StageFitsTool, SentIsKnown, StartedIsKnown, SuccessIsTrue,
       HasHappened, ClaimIsFinal, Done, Admitting, FileTool, StageWrite, At, World, world, Others, Bystanders, Put
<1>5. FailureIsTrue'
  BY InvFacts, <1>1, <1>2 DEF RowInv, RowIsOwned, StageFitsTool, SentIsKnown, FailureIsTrue, Untouched, Early,
       Admitting, FileTool, StageWrite, At, World, world, Others, Bystanders, Put
<1> QED BY <1>3, <1>4, <1>5 DEF Inv, RowInv

\* The target is compared once more.
LEMMA CheckTargetStep == ASSUME Inv, CheckTarget PROVE Inv'
<1>1. TypeOK /\ RowInv /\ FailureIsTrue
  BY InvFacts
<1>2. call' \in CallRow /\ ((call'.stage = "replace" /\ call'.before = call.before)
       \/ (call'.stage = "record" /\ call'.outcome = "failed"))
  BY InvFacts, CallMoves, RowTypes, NamesAreTypes DEF CheckTarget, Fails
<1>3. TypeOK'
  BY <1>1, <1>2 DEF TypeOK, CheckTarget, At, World, world, Others, Bystanders
<1>4. RowInv'
  BY InvFacts, <1>1, <1>2 DEF RowInv, RowIsOwned, StageFitsTool, SentIsKnown, StartedIsKnown, SuccessIsTrue,
       HasHappened, ClaimIsFinal, Done, Admitting, FileTool, CheckTarget, At, World, world, Others, Bystanders
<1>5. FailureIsTrue'
  BY InvFacts, <1>1, <1>2 DEF RowInv, RowIsOwned, StageFitsTool, SentIsKnown, FailureIsTrue, Untouched, Early,
       Admitting, FileTool, CheckTarget, At, World, world, Others, Bystanders
<1> QED BY <1>3, <1>4, <1>5 DEF Inv, RowInv

\* The target is replaced.
LEMMA ReplaceStep == ASSUME Inv, Replace PROVE Inv'
<1>1. TypeOK /\ RowInv /\ FailureIsTrue
  BY InvFacts
<1>2. call' \in CallRow /\ call'.stage = "return" /\ call'.before = call.before
  BY InvFacts, CallMoves, RowTypes, NamesAreTypes DEF Replace, Fails
<1>3. TypeOK'
  BY <1>1, <1>2, NamesAreTypes DEF TypeOK, Replace, At, Put, WithFiles, Elsewhere, Bystanders
<1>4. RowInv'
  BY InvFacts, <1>1, <1>2 DEF RowInv, RowIsOwned, StageFitsTool, SentIsKnown, StartedIsKnown, SuccessIsTrue,
       HasHappened, ClaimIsFinal, Done, Admitting, FileTool, Replace, At, Put, WithFiles, Elsewhere, Bystanders
<1>5. FailureIsTrue'
  BY InvFacts, <1>1, <1>2 DEF RowInv, RowIsOwned, StageFitsTool, SentIsKnown, FailureIsTrue, Untouched, Early,
       Admitting, FileTool, Replace, At, Put, WithFiles, Elsewhere, Bystanders
<1> QED BY <1>3, <1>4, <1>5 DEF Inv, RowInv

\* A free path is taken.
LEMMA LinkWriteStep == ASSUME Inv, LinkWrite PROVE Inv'
<1>1. TypeOK /\ RowInv /\ FailureIsTrue
  BY InvFacts
<1>2. call' \in CallRow 
     /\ \/ call'.stage = "return" /\ call'.before = call.before /\ denied' = denied
        \/ call'.stage = "record" /\ call'.outcome = "failed" /\ UNCHANGED <<files, denied>>
        \/ call'.stage = "record" /\ denied' = TRUE /\ call'.outcome = "failed"
  BY InvFacts, CallMoves, RowTypes, NamesAreTypes DEF LinkWrite, Fails, FailsLate, Proceed
<1>3. TypeOK'
  BY <1>1, <1>2, NamesAreTypes DEF TypeOK, LinkWrite, At, Put, Elsewhere, Bystanders
<1>4. RowInv'
  BY InvFacts, <1>1, <1>2 DEF RowInv, RowIsOwned, StageFitsTool, SentIsKnown, StartedIsKnown, SuccessIsTrue,
       HasHappened, ClaimIsFinal, Done, Admitting, FileTool, LinkWrite, At, Put, Elsewhere, Bystanders
<1>5. FailureIsTrue'
  BY InvFacts, <1>1, <1>2 DEF RowInv, RowIsOwned, StageFitsTool, SentIsKnown, FailureIsTrue, Untouched, Early,
       Admitting, FileTool, LinkWrite, At, Put, Elsewhere, Bystanders
<1> QED BY <1>3, <1>4, <1>5 DEF Inv, RowInv

\* The copy is compared with the source.
LEMMA CompareSourceStep == ASSUME Inv, CompareSource PROVE Inv'
<1>1. TypeOK /\ RowInv /\ FailureIsTrue
  BY InvFacts
<1>2. call' \in CallRow /\ ((call'.stage = "place" /\ call'.before = call.before) \/ (call'.stage = "record"
       /\ call'.outcome = "failed"))
  BY InvFacts, CallMoves, RowTypes, NamesAreTypes DEF CompareSource, Fails
<1>3. TypeOK'
  BY <1>1, <1>2 DEF TypeOK, CompareSource, At, World, world, Others, Bystanders
<1>4. RowInv'
  BY InvFacts, <1>1, <1>2 DEF RowInv, RowIsOwned, StageFitsTool, SentIsKnown, StartedIsKnown, SuccessIsTrue,
       HasHappened, ClaimIsFinal, Done, Admitting, FileTool, CompareSource, At, World, world, Others, Bystanders
<1>5. FailureIsTrue'
  BY InvFacts, <1>1, <1>2 DEF RowInv, RowIsOwned, StageFitsTool, SentIsKnown, FailureIsTrue, Untouched, Early,
       Admitting, FileTool, CompareSource, At, World, world, Others, Bystanders
<1> QED BY <1>3, <1>4, <1>5 DEF Inv, RowInv

\* The copy is linked.
LEMMA PlaceCopyStep == ASSUME Inv, PlaceCopy PROVE Inv'
<1>1. TypeOK /\ RowInv /\ FailureIsTrue
  BY InvFacts
<1>2. call' \in CallRow /\ ((call'.stage = "verify" /\ call'.before = call.before)
       \/ (call'.stage = "record" /\ call'.outcome = "failed" /\ UNCHANGED files))
  BY InvFacts, CallMoves, RowTypes, NamesAreTypes DEF PlaceCopy, Fails
<1>3. TypeOK'
  BY <1>1, <1>2, InvFacts, CallMoves DEF TypeOK, PlaceCopy, At, Put, WithFiles, Elsewhere, Bystanders
<1>4. RowInv'
  BY InvFacts, <1>1, <1>2 DEF RowInv, RowIsOwned, StageFitsTool, SentIsKnown, StartedIsKnown, SuccessIsTrue,
       HasHappened, ClaimIsFinal, Done, Admitting, FileTool, PlaceCopy, At, Put, WithFiles, Elsewhere, Bystanders
<1>5. FailureIsTrue'
  BY InvFacts, <1>1, <1>2 DEF RowInv, RowIsOwned, StageFitsTool, SentIsKnown, FailureIsTrue, Untouched, Early,
       Admitting, FileTool, PlaceCopy, At, Put, WithFiles, Elsewhere, Bystanders
<1> QED BY <1>3, <1>4, <1>5 DEF Inv, RowInv

\* The source is compared again.
LEMMA VerifySourceStep == ASSUME Inv, VerifySource PROVE Inv'
<1>1. TypeOK /\ RowInv /\ FailureIsTrue
  BY InvFacts
<1>2. call' \in CallRow 
     /\ \/ call'.stage = "unlink" /\ call'.before = call.before /\ denied' = denied
        \/ call'.stage = "record" /\ call'.outcome = "unknown" /\ denied' = denied
        \/ call'.stage = "record" /\ denied' = TRUE /\ call'.outcome = "failed"
  BY InvFacts, CallMoves, RowTypes, NamesAreTypes DEF VerifySource, Fails, FailsLate, LeavesOpen, Proceed
<1>3. TypeOK'
  BY <1>1, <1>2 DEF TypeOK, VerifySource, At, Elsewhere, Bystanders
<1>4. RowInv'
  BY InvFacts, <1>1, <1>2 DEF RowInv, RowIsOwned, StageFitsTool, SentIsKnown, StartedIsKnown, SuccessIsTrue,
       HasHappened, ClaimIsFinal, Done, Admitting, FileTool, VerifySource, At, Elsewhere, Bystanders
<1>5. FailureIsTrue'
  BY InvFacts, <1>1, <1>2 DEF RowInv, RowIsOwned, StageFitsTool, SentIsKnown, FailureIsTrue, Untouched, Early,
       Admitting, FileTool, VerifySource, At, Elsewhere, Bystanders
<1> QED BY <1>3, <1>4, <1>5 DEF Inv, RowInv

\* The source is dropped.
LEMMA DropSourceStep == ASSUME Inv, DropSource PROVE Inv'
<1>1. TypeOK /\ RowInv /\ FailureIsTrue
  BY InvFacts
<1>2. call' \in CallRow 
     /\ \/ call'.stage = "return" /\ call'.before = call.before /\ denied' = denied
        \/ call'.stage = "record" /\ call'.outcome = "unknown" /\ denied' = denied
        \/ call'.stage = "record" /\ denied' = TRUE /\ call'.outcome = "failed"
  BY InvFacts, CallMoves, RowTypes, NamesAreTypes DEF DropSource, Fails, FailsLate, LeavesOpen, Proceed
<1>3. TypeOK'
  BY <1>1, <1>2, NamesAreTypes DEF TypeOK, DropSource, At, Put, Elsewhere, Bystanders
<1>4. RowInv'
  BY InvFacts, <1>1, <1>2 DEF RowInv, RowIsOwned, StageFitsTool, SentIsKnown, StartedIsKnown, SuccessIsTrue,
       HasHappened, ClaimIsFinal, Done, Admitting, FileTool, DropSource, At, Put, Elsewhere, Bystanders
<1>5. FailureIsTrue'
  BY InvFacts, <1>1, <1>2 DEF RowInv, RowIsOwned, StageFitsTool, SentIsKnown, FailureIsTrue, Untouched, Early,
       Admitting, FileTool, DropSource, At, Put, Elsewhere, Bystanders
<1> QED BY <1>3, <1>4, <1>5 DEF Inv, RowInv

\* The result tells of the target.
LEMMA ReturnFileStep == ASSUME Inv, ReturnFile PROVE Inv'
<1>1. TypeOK /\ RowInv /\ FailureIsTrue
  BY InvFacts
<1>2. At("return") /\ UNCHANGED <<tool, journal, files, backup, snapshot, delivered, copies, executed, comp,
       rec, restored, calls, edits>>
  BY DEF ReturnFile, Elsewhere, Bystanders
<1>3. call' \in CallRow /\ 
     \/ call'.stage = "record" /\ call'.outcome = "success" /\ call'.result.comp = TRUE /\ denied' = denied
     \/ call'.stage = "record" /\ call'.outcome = "failed" /\ files.dst = "none" /\ denied' = denied
     \/ call'.stage = "record" /\ call'.outcome = "failed" /\ denied' = TRUE
  BY InvFacts, CallMoves, RowTypes, NamesAreTypes DEF ReturnFile, Fails, FailsLate
<1>4. TypeOK'
  BY <1>1, <1>2, <1>3 DEF TypeOK
<1>5. RowInv'
  BY InvFacts, <1>1, <1>2, <1>3 DEF RowInv, RowIsOwned, StageFitsTool, SentIsKnown, StartedIsKnown,
       SuccessIsTrue, HasHappened, ClaimIsFinal, Done, Admitting, FileTool, At
<1>6. FailureIsTrue'
  BY InvFacts, <1>1, <1>2, <1>3 DEF RowInv, RowIsOwned, StageFitsTool, SentIsKnown, FailureIsTrue, Untouched,
       Early, Admitting, FileTool, At
<1> QED BY <1>4, <1>5, <1>6 DEF Inv, RowInv

\* An error before the effect.
LEMMA DiskErrorStep == ASSUME Inv, DiskError PROVE Inv'
<1>1. TypeOK /\ RowInv /\ FailureIsTrue
  BY InvFacts
<1>2. /\ call.stage \in {"stage", "check", "replace", "link", "hash", "compare", "place"}
      /\ UNCHANGED <<tool, journal, files, backup, snapshot, delivered, copies, executed, comp,
                     rec, restored, denied, calls, edits>>
  BY DEF DiskError, World, world, Others, Bystanders
<1>3. call' \in CallRow /\ call'.stage = "record" /\ call'.outcome = "failed"
  BY InvFacts, CallMoves, RowTypes, NamesAreTypes DEF DiskError, Fails
<1>4. TypeOK'
  BY <1>1, <1>2, <1>3 DEF TypeOK
<1>5. RowInv'
  BY InvFacts, <1>1, <1>2, <1>3 DEF RowInv, RowIsOwned, StageFitsTool, SentIsKnown, StartedIsKnown,
       SuccessIsTrue, HasHappened, ClaimIsFinal, Done, Admitting, FileTool
<1>6. FailureIsTrue'
  BY InvFacts, <1>1, <1>2, <1>3 DEF RowInv, RowIsOwned, StageFitsTool, SentIsKnown, FailureIsTrue, Untouched,
       Early, Admitting, FileTool
<1> QED BY <1>4, <1>5, <1>6 DEF Inv, RowInv

\* The message leaves, or does not, or it is not known.
LEMMA SendStep == ASSUME Inv, Send PROVE Inv'
<1>1. TypeOK /\ RowInv /\ FailureIsTrue
  BY InvFacts
<1>2. At("send") /\ UNCHANGED <<tool, journal, files, backup, snapshot, copies, executed, comp, rec, restored,
       denied, calls, edits>>
  BY DEF Send, World, world, Others, Bystanders
<1>3. call' \in CallRow /\ 
     \/ call'.stage = "append" /\ delivered' = delivered + 1
     \/ call'.stage = "record" /\ call'.outcome = "failed" /\ delivered' = delivered
     \/ call'.stage = "record" /\ call'.outcome = "unknown" /\ delivered' \in {delivered, delivered + 1}
  BY InvFacts, CallMoves, RowTypes, NamesAreTypes DEF Send, Fails
<1>4. TypeOK'
  BY <1>1, <1>2, <1>3 DEF TypeOK
<1>5. RowInv'
  BY InvFacts, <1>1, <1>2, <1>3 DEF RowInv, RowIsOwned, StageFitsTool, SentIsKnown, StartedIsKnown,
       SuccessIsTrue, HasHappened, ClaimIsFinal, Done, Admitting, FileTool, At
<1>6. FailureIsTrue'
  BY InvFacts, <1>1, <1>2, <1>3 DEF RowInv, RowIsOwned, StageFitsTool, SentIsKnown, FailureIsTrue, Untouched,
       Early, Admitting, FileTool, At
<1> QED BY <1>4, <1>5, <1>6 DEF Inv, RowInv

\* The source is read.
LEMMA HashSourceStep == ASSUME Inv, HashSource PROVE Inv'
<1>1. TypeOK /\ RowInv /\ FailureIsTrue
  BY InvFacts
<1>2. call' \in CallRow /\ ((call'.stage = "compare" /\ call'.before # "none") \/ (call'.stage = "record"
       /\ call'.outcome = "failed"))
  BY InvFacts, CallMoves, RowTypes, NamesAreTypes DEF HashSource, Fails
<1>3. TypeOK'
  BY <1>1, <1>2 DEF TypeOK, HashSource, At, World, world, Others, Bystanders
<1>4. RowInv'
  BY InvFacts, <1>1, <1>2 DEF RowInv, RowIsOwned, StageFitsTool, SentIsKnown, StartedIsKnown, SuccessIsTrue,
       HasHappened, ClaimIsFinal, Done, Admitting, FileTool, HashSource, At, World, world, Others, Bystanders
<1>5. FailureIsTrue'
  BY InvFacts, <1>1, <1>2 DEF RowInv, RowIsOwned, StageFitsTool, SentIsKnown, FailureIsTrue, Untouched, Early,
       Admitting, FileTool, HashSource, At, World, world, Others, Bystanders
<1> QED BY <1>3, <1>4, <1>5 DEF Inv, RowInv

\* The snapshot is written, the server asked.
LEMMA ConnectStep == ASSUME Inv, Connect PROVE Inv'
<1>1. TypeOK /\ RowInv /\ FailureIsTrue
  BY InvFacts
<1>2. At("connect") /\ UNCHANGED <<tool, journal, files, backup, delivered, copies, executed, comp, rec,
       restored, denied, calls, edits>>
  BY DEF Connect, World, world, Others, Bystanders
<1>3. call' \in CallRow /\ snapshot' = TRUE
     /\ \/ call'.stage = "send"
        \/ call'.stage = "record" /\ call'.outcome \in {"failed", "unknown"}
  BY InvFacts, CallMoves, RowTypes, NamesAreTypes DEF Connect, Fails
<1>4. TypeOK'
  BY <1>1, <1>2, <1>3 DEF TypeOK
<1>5. RowInv'
  BY InvFacts, <1>1, <1>2, <1>3 DEF RowInv, RowIsOwned, StageFitsTool, SentIsKnown, StartedIsKnown,
       SuccessIsTrue, HasHappened, ClaimIsFinal, Done, Admitting, FileTool, At
<1>6. FailureIsTrue'
  BY InvFacts, <1>1, <1>2, <1>3 DEF RowInv, RowIsOwned, StageFitsTool, SentIsKnown, FailureIsTrue, Untouched,
       Early, Admitting, FileTool, At
<1> QED BY <1>4, <1>5, <1>6 DEF Inv, RowInv

\* The copy for the sent folder.
LEMMA AppendStep == ASSUME Inv, Append PROVE Inv'
<1>1. TypeOK /\ RowInv /\ FailureIsTrue
  BY InvFacts
<1>2. At("append") /\ UNCHANGED <<tool, journal, files, backup, snapshot, delivered, executed, comp, rec,
       restored, denied, calls, edits>>
  BY DEF Append, World, world, Others, Bystanders
<1>3. call' \in CallRow /\ call'.stage = "record" /\ call'.outcome = "success" /\ copies' \in {copies,
       copies + 1}
  BY InvFacts, CallMoves, RowTypes, NamesAreTypes DEF Append, Fails
<1>4. TypeOK'
  BY <1>1, <1>2, <1>3 DEF TypeOK
<1>5. RowInv'
  BY InvFacts, <1>1, <1>2, <1>3 DEF RowInv, RowIsOwned, StageFitsTool, SentIsKnown, StartedIsKnown,
       SuccessIsTrue, HasHappened, ClaimIsFinal, Done, Admitting, FileTool, At
<1>6. FailureIsTrue'
  BY InvFacts, <1>1, <1>2, <1>3 DEF RowInv, RowIsOwned, StageFitsTool, SentIsKnown, FailureIsTrue, Untouched,
       Early, Admitting, FileTool, At
<1> QED BY <1>4, <1>5, <1>6 DEF Inv, RowInv

\* The process fails to start, or runs.
LEMMA RunStep == ASSUME Inv, Run PROVE Inv'
<1>1. TypeOK /\ RowInv /\ FailureIsTrue
  BY InvFacts
<1>2. At("run") /\ UNCHANGED <<tool, journal, files, backup, snapshot, delivered, copies, comp, rec, restored,
       denied, calls, edits>>
  BY DEF Run, World, world, Others, Bystanders
<1>3. call' \in CallRow /\ call'.stage = "record"
     /\ \/ call'.outcome = "failed" /\ executed' = executed
        \/ call'.outcome \in {"success", "failed", "unknown"} /\ executed' = executed + 1
  BY InvFacts, CallMoves, RowTypes, NamesAreTypes DEF Run, Fails
<1>4. TypeOK'
  BY <1>1, <1>2, <1>3 DEF TypeOK
<1>5. RowInv'
  BY InvFacts, <1>1, <1>2, <1>3 DEF RowInv, RowIsOwned, StageFitsTool, SentIsKnown, StartedIsKnown,
       SuccessIsTrue, HasHappened, ClaimIsFinal, Done, Admitting, FileTool, At
<1>6. FailureIsTrue'
  BY InvFacts, <1>1, <1>2, <1>3 DEF RowInv, RowIsOwned, StageFitsTool, SentIsKnown, FailureIsTrue, Untouched,
       Early, Admitting, FileTool, At
<1> QED BY <1>4, <1>5, <1>6 DEF Inv, RowInv

\* A call starts.
LEMMA StartCallStep == ASSUME Inv, NEW approved \in BOOLEAN, StartCall(approved) PROVE Inv'
<1>1. TypeOK /\ RowInv /\ FailureIsTrue
  BY InvFacts
<1>2. At("idle") /\ UNCHANGED <<tool, journal, files, backup, snapshot, delivered, copies, executed, comp, rec,
       restored, denied, edits>>
  BY DEF StartCall, World, world, Others, Bystanders
<1>3. call' \in CallRow /\ call'.stage = "select" /\ calls' = calls + 1
  <2> DEFINE row == [IdleCall EXCEPT !.stage = "select", !.approved = approved]
  <2>1. row \in CallRow /\ row.stage = "select"
    BY CallStarts, RowTypes
  <2>2. call' = row /\ calls' = calls + 1
    BY DEF StartCall
  <2> QED BY <2>1, <2>2
<1>4. TypeOK'
  BY <1>1, <1>2, <1>3 DEF TypeOK
<1>5. RowInv'
  BY InvFacts, <1>1, <1>2, <1>3 DEF RowInv, RowIsOwned, StageFitsTool, SentIsKnown, StartedIsKnown,
       SuccessIsTrue, HasHappened, ClaimIsFinal, Done, Admitting, FileTool, At
<1>6. FailureIsTrue'
  BY InvFacts, <1>1, <1>2, <1>3 DEF RowInv, RowIsOwned, StageFitsTool, SentIsKnown, FailureIsTrue, Untouched,
       Early, Admitting, FileTool, At
<1> QED BY <1>4, <1>5, <1>6 DEF Inv, RowInv

\* begin_effect takes the row of an operation nothing was done for yet.
LEMMA BeginEffectStep == ASSUME Inv, BeginEffect PROVE Inv'
<1>1. TypeOK /\ RowInv /\ FailureIsTrue
  BY InvFacts
<1>2. At("select") /\ UNCHANGED <<tool, files, backup, snapshot, delivered, copies, executed, comp, rec,
       restored, denied, calls, edits>>
  BY DEF BeginEffect, World, world, Others, Bystanders
<1>3. /\ call' \in CallRow
      /\ \/ /\ call'.stage = "enter" /\ journal.state \in Admitting
            /\ journal'.state = "dispatched" /\ journal' \in [state : State, result : Result]
         \/ call'.stage = "idle" /\ journal' = journal
  BY InvFacts, CallMoves, RowTypes, NamesAreTypes DEF BeginEffect, Admits, Admitting
<1>4. TypeOK'
  BY <1>1, <1>2, <1>3 DEF TypeOK
<1>5. RowInv'
  BY InvFacts, <1>1, <1>2, <1>3
  DEF RowInv, RowIsOwned, StageFitsTool, SentIsKnown, StartedIsKnown, SuccessIsTrue, HasHappened,
       ClaimIsFinal,
       Done, Admitting, FileTool, At
<1>6. FailureIsTrue'
  BY InvFacts, <1>1, <1>2, <1>3
  DEF RowInv, RowIsOwned, StageFitsTool, SentIsKnown, FailureIsTrue, Untouched, Early, Admitting, FileTool, At
<1> QED BY <1>4, <1>5, <1>6 DEF Inv, RowInv

\* Policy and confirmation decide where the call goes.
LEMMA EnterStep == ASSUME Inv, Enter PROVE Inv'
<1>1. TypeOK /\ RowInv /\ FailureIsTrue
  BY InvFacts
<1>2. At("enter") /\ UNCHANGED <<tool, journal, files, backup, snapshot, delivered, copies, executed, comp,
       rec, restored, denied, calls, edits>>
  BY DEF Enter, World, world, Others, Bystanders
<1>3. /\ FirstStage \in CallStage
      /\ \/ tool.name = "write" /\ FirstStage = "stage"
         \/ tool.name = "move" /\ FirstStage = "hash"
         \/ tool.name = "mail" /\ FirstStage = "connect"
         \/ tool.name = "process" /\ FirstStage = "run"
  BY InvFacts, NamesAreTypes DEF FirstStage, Tool
<1>4. /\ call' \in CallRow
      /\ \/ call'.stage = "record" /\ call'.outcome \in {"failed", "waiting_human"}
         \/ call'.stage = FirstStage
  BY InvFacts, CallMoves, RowTypes, NamesAreTypes, <1>3 DEF Enter, Fails
<1>5. TypeOK'
  BY <1>1, <1>2, <1>4 DEF TypeOK
<1>6. RowInv'
  BY InvFacts, <1>1, <1>2, <1>3, <1>4
  DEF RowInv, RowIsOwned, StageFitsTool, SentIsKnown, StartedIsKnown, SuccessIsTrue, HasHappened,
       ClaimIsFinal,
       Done, Admitting, FileTool, At
<1>7. FailureIsTrue'
  BY InvFacts, <1>1, <1>2, <1>3, <1>4
  DEF RowInv, RowIsOwned, StageFitsTool, SentIsKnown, FailureIsTrue, Untouched, Early, Admitting, FileTool, At
<1> QED BY <1>5, <1>6, <1>7 DEF Inv, RowInv

\* The outcome is journalled.
LEMMA FinishEffectStep == ASSUME Inv, FinishEffect PROVE Inv'
<1>1. TypeOK /\ RowInv /\ FailureIsTrue
  BY InvFacts
<1>2. /\ At("record") /\ call'.stage = "idle" /\ call' \in CallRow
      /\ UNCHANGED <<tool, files, backup, snapshot, delivered, copies, executed, comp, rec, restored, denied, calls,
           edits>>
  BY RowTypes DEF FinishEffect, World, world, Others, Bystanders
<1>3. journal'.state = RecordedState(call.outcome) /\ journal'.result = call.result
  BY DEF FinishEffect
<1>4. \/ call.outcome = "success" /\ journal'.state = "committed"
      \/ call.outcome = "waiting_human" /\ journal'.state = "prepared"
      \/ call.outcome = "unknown" /\ journal'.state = "unknown"
      \/ call.outcome = "failed" /\ tool.name = "process" /\ journal'.state = "unknown"
      \/ call.outcome = "failed" /\ tool.name # "process" /\ journal'.state = "failed"
  BY InvFacts, CallMoves, RecordedStates, <1>3 DEF Outcome
<1>5. journal' \in [state : State, result : Result]
  <2>1. journal' = [state |-> RecordedState(call.outcome), result |-> call.result]
    BY DEF FinishEffect
  <2>2. RecordedState(call.outcome) \in State /\ call.result \in Result
    BY InvFacts, CallMoves, <1>3, <1>4 DEF State
  <2> QED BY <2>1, <2>2
<1>6. TypeOK'
  BY <1>1, <1>2, <1>5 DEF TypeOK
<1>7. RowInv'
  BY InvFacts, <1>1, <1>2, <1>3, <1>4
  DEF RowInv, RowIsOwned, StageFitsTool, SentIsKnown, StartedIsKnown, SuccessIsTrue, HasHappened,
       ClaimIsFinal,
       Done, Admitting, FileTool, At
<1>8. FailureIsTrue'
  BY InvFacts, <1>1, <1>2, <1>3, <1>4
  DEF RowInv, RowIsOwned, StageFitsTool, SentIsKnown, FailureIsTrue, Untouched, Early, Admitting, FileTool, At
<1> QED BY <1>6, <1>7, <1>8 DEF Inv, RowInv

\* A crash leaves the row as it is.
LEMMA CrashStep == ASSUME Inv, Crash PROVE Inv'
<1>1. TypeOK /\ RowInv /\ FailureIsTrue
  BY InvFacts
<1>2. /\ call'.stage = "idle" /\ call' \in CallRow
      /\ UNCHANGED <<tool, journal, files, backup, snapshot, delivered, copies, executed, comp, rec, restored,
           denied, calls, edits>>
  BY RowTypes DEF Crash, World, world, Others, Bystanders
<1>3. TypeOK'
  BY <1>1, <1>2 DEF TypeOK
<1>4. RowInv'
  BY InvFacts, <1>1, <1>2
  DEF RowInv, RowIsOwned, StageFitsTool, SentIsKnown, StartedIsKnown, SuccessIsTrue, HasHappened,
       ClaimIsFinal,
       Done, Admitting, FileTool
<1>5. FailureIsTrue'
  BY InvFacts, <1>1, <1>2
  DEF RowInv, RowIsOwned, StageFitsTool, SentIsKnown, FailureIsTrue, Untouched, Early, Admitting, FileTool
<1> QED BY <1>3, <1>4, <1>5 DEF Inv, RowInv

-----------------------------------------------------------------------------
(* Steps of a compensation, a reconciliation and the user.                 *)

\* While a window compensates a file effect no call is past begin_effect.
LEMMA InspectEffectStep == ASSUME Inv, NEW k \in Compensator, InspectEffect(k) PROVE Inv'
<1>1. TypeOK /\ RowInv /\ FailureIsTrue
  BY InvFacts
<1>2. /\ tool.name \in {"write", "move"}
      /\ UNCHANGED <<tool, journal, call, files, backup, snapshot, delivered, copies, executed, rec, restored,
           denied, calls, edits>>
  BY DEF InspectEffect, World, world, Calls
<1>3. /\ comp' \in [Compensator -> CompRow] /\ comp'[k].stage = "claim"
      /\ (\A j \in Compensator \ {k} : comp'[j] = comp[j])
  <2> DEFINE row == [IdleComp EXCEPT !.stage = "claim", !.before = journal.result.before,
       !.after = journal.result.after]
  <2>1. row \in CompRow /\ row.stage = "claim"
    BY InvFacts, CompOpens DEF Result
  <2>2. comp' = [comp EXCEPT ![k] = row]
    BY DEF InspectEffect
  <2> HIDE DEF row
  <2> QED BY InvFacts, <2>1, <2>2
<1>4. TypeOK'
  BY <1>1, <1>2, <1>3 DEF TypeOK
<1>5. RowInv' /\ FailureIsTrue'
  BY <1>1, <1>2, <1>3
  DEF RowInv, RowIsOwned, StageFitsTool, SentIsKnown, StartedIsKnown, SuccessIsTrue, HasHappened,
       ClaimIsFinal,
       FailureIsTrue, Untouched, FileTool
<1> QED BY <1>4, <1>5 DEF Inv, RowInv

\* One compensation takes the row of a committed effect.
LEMMA ClaimCompensationStep == ASSUME Inv, NEW k \in Compensator, ClaimCompensation(k) PROVE Inv'
<1>1. TypeOK /\ RowInv /\ FailureIsTrue
  BY InvFacts
<1>2. comp[k].stage = "claim" /\ UNCHANGED <<tool, call, files, backup, snapshot, delivered, copies, executed,
       rec, restored, denied, calls, edits>>
  BY DEF ClaimCompensation, CompAt, World, world, Calls
<1>3. /\ comp' \in [Compensator -> CompRow] /\ (\A j \in Compensator \ {k} : comp'[j] = comp[j])
      /\ \/ /\ journal.state = "committed" /\ comp'[k].stage \in {"remove", "recheck"}
            /\ journal'.state = "compensating" /\ journal'.result = journal.result
            /\ journal' \in [state : State, result : Result]
         \/ comp'[k].stage = "idle" /\ journal' = journal
  BY InvFacts, CompGotoMoves, CompLeaveMoves, NamesAreTypes DEF ClaimCompensation, Claimable, CompStage
<1>4. TypeOK'
  BY <1>1, <1>2, <1>3 DEF TypeOK
<1>5. RowInv' /\ FailureIsTrue'
  BY InvFacts, <1>1, <1>2, <1>3
  DEF RowInv, RowIsOwned, StageFitsTool, SentIsKnown, StartedIsKnown, SuccessIsTrue, HasHappened,
       ClaimIsFinal,
       FailureIsTrue, Untouched, Early, Done, Admitting, FileTool
<1> QED BY <1>4, <1>5 DEF Inv, RowInv

\* The target is compared once more.
LEMMA RecheckStep == ASSUME Inv, NEW k \in Compensator, Recheck(k) PROVE Inv'
<1>1. TypeOK /\ RowInv /\ FailureIsTrue
  BY InvFacts
<1>2. comp[k].stage = "recheck" /\ UNCHANGED <<tool, journal, call, files, backup, snapshot, delivered, copies,
       executed, rec, restored, denied, calls, edits>>
  BY DEF Recheck, CompAt, World, world, Calls
<1>3. comp' \in [Compensator -> CompRow] /\ (\A j \in Compensator \ {k} : comp'[j] = comp[j])
  BY InvFacts, CompGotoMoves, CompLeaveMoves DEF Recheck, CompStage
<1>4. TypeOK'
  BY <1>1, <1>2, <1>3 DEF TypeOK
<1>5. RowInv' /\ FailureIsTrue'
  BY InvFacts, <1>1, <1>2, <1>3
  DEF RowInv, RowIsOwned, StageFitsTool, SentIsKnown, StartedIsKnown, SuccessIsTrue, HasHappened,
       ClaimIsFinal,
       FailureIsTrue, Untouched, Early, Done, Admitting, FileTool
<1> QED BY <1>4, <1>5 DEF Inv, RowInv

\* The files are put back one by one.
LEMMA RestoreStep == ASSUME Inv, NEW k \in Compensator, Restore(k) PROVE Inv'
<1>1. TypeOK /\ RowInv /\ FailureIsTrue
  BY InvFacts
<1>2. comp[k].stage \in {"swap", "remove", "relink", "undrop"} /\ UNCHANGED <<tool, journal, call, backup,
       snapshot, delivered, copies, executed, rec, denied, calls, edits>>
  BY DEF Restore, CompAt, Calls
<1>3. /\ comp' \in [Compensator -> CompRow] /\ (\A j \in Compensator \ {k} : comp'[j] = comp[j])
      /\ files' \in [{"src", "dst"} -> Version] /\ restored' \in Nat
  <2>1. \/ CompGoto(k, "close") \/ CompGoto(k, "undrop") \/ CompLeave(k)
    BY DEF Restore, Relink
  <2>2. comp[k].before \in Version /\ "none" \in Version
    BY InvFacts, CompRowTypes, NamesAreTypes
  <2>3. files' \in [{"src", "dst"} -> Version]
    BY InvFacts, <2>2 DEF Restore, Relink, Put
  <2>4. restored' \in Nat
    BY <1>1 DEF TypeOK, Restore
  <2> QED BY InvFacts, <2>1, <2>3, <2>4, CompGotoMoves, CompLeaveMoves DEF CompStage
<1>4. TypeOK'
  BY <1>1, <1>2, <1>3 DEF TypeOK
<1>5. RowInv' /\ FailureIsTrue'
  BY InvFacts, <1>1, <1>2, <1>3
  DEF RowInv, RowIsOwned, StageFitsTool, SentIsKnown, StartedIsKnown, SuccessIsTrue, HasHappened,
       ClaimIsFinal,
       FailureIsTrue, Untouched, Early, Done, Admitting, FileTool
<1> QED BY <1>4, <1>5 DEF Inv, RowInv

\* The row is closed.
LEMMA CloseCompensationStep == ASSUME Inv, NEW k \in Compensator, CloseCompensation(k) PROVE Inv'
<1>1. TypeOK /\ RowInv /\ FailureIsTrue
  BY InvFacts
<1>2. comp[k].stage = "close" /\ UNCHANGED <<tool, call, files, backup, snapshot, delivered, copies, executed,
       rec, restored, denied, calls, edits>>
  BY DEF CloseCompensation, CompAt, World, world, Calls
<1>3. /\ comp' \in [Compensator -> CompRow] /\ (\A j \in Compensator \ {k} : comp'[j] = comp[j])
       /\ comp'[k].stage = "idle"
      /\ \/ /\ journal.state = "compensating" /\ journal'.state = "compensated"
            /\ journal'.result = journal.result /\ journal' \in [state : State, result : Result]
         \/ journal' = journal
  BY InvFacts, CompLeaveMoves, NamesAreTypes DEF CloseCompensation
<1>4. TypeOK'
  BY <1>1, <1>2, <1>3 DEF TypeOK
<1>5. RowInv' /\ FailureIsTrue'
  BY InvFacts, <1>1, <1>2, <1>3
  DEF RowInv, RowIsOwned, StageFitsTool, SentIsKnown, StartedIsKnown, SuccessIsTrue, HasHappened,
       ClaimIsFinal,
       FailureIsTrue, Untouched, Early, Done, Admitting, FileTool
<1> QED BY <1>4, <1>5 DEF Inv, RowInv

\* A window that dies leaves the row.
LEMMA CompCrashStep == ASSUME Inv, NEW k \in Compensator, CompCrash(k) PROVE Inv'
<1>1. TypeOK /\ RowInv /\ FailureIsTrue
  BY InvFacts
<1>2. UNCHANGED <<tool, journal, call, files, backup, snapshot, delivered, copies, executed, rec, restored,
       denied, calls, edits>>
  BY DEF CompCrash, World, world, Calls
<1>3. comp' \in [Compensator -> CompRow] /\ (\A j \in Compensator \ {k} : comp'[j] = comp[j])
       /\ comp'[k].stage = "idle"
  BY InvFacts, CompLeaveMoves DEF CompCrash
<1>4. TypeOK'
  BY <1>1, <1>2, <1>3 DEF TypeOK
<1>5. RowInv' /\ FailureIsTrue'
  BY InvFacts, <1>1, <1>2, <1>3
  DEF RowInv, RowIsOwned, StageFitsTool, SentIsKnown, StartedIsKnown, SuccessIsTrue, HasHappened,
       ClaimIsFinal,
       FailureIsTrue, Untouched, Early, Done, Admitting, FileTool
<1> QED BY <1>4, <1>5 DEF Inv, RowInv

\* The row of a mail is read.
LEMMA LookUpStep == ASSUME Inv, NEW m \in Reconciler, LookUp(m) PROVE Inv'
<1>1. TypeOK /\ RowInv /\ FailureIsTrue
  BY InvFacts
<1>2. tool.name = "mail" /\ UNCHANGED <<tool, journal, call, files, backup, snapshot, delivered, copies,
       executed, comp, restored, denied, calls, edits>>
  BY DEF LookUp, Rest
<1>3. /\ rec' \in [Reconciler -> RecRow] /\ (\A j \in Reconciler \ {m} : rec'[j] = rec[j])
      /\ rec'[m].stage = "find" /\ rec'[m].state = journal.state
  <2> DEFINE row == [stage |-> "find", state |-> journal.state, missing |-> journal.result.copy = "missing",
       copy |-> journal.result.copy]
  <2>1. row \in RecRow /\ row.stage = "find" /\ row.state = journal.state
    BY InvFacts DEF RecRow, Result
  <2>2. rec' = [rec EXCEPT ![m] = row]
    BY DEF LookUp
  <2> HIDE DEF row
  <2> QED BY InvFacts, <2>1, <2>2
<1>4. TypeOK'
  BY <1>1, <1>2, <1>3 DEF TypeOK
<1>5. RowInv' /\ FailureIsTrue'
  BY InvFacts, <1>1, <1>2, <1>3
  DEF RowInv, RowIsOwned, StageFitsTool, SentIsKnown, StartedIsKnown, SuccessIsTrue, HasHappened,
       ClaimIsFinal,
       FailureIsTrue, Untouched, Early, Done, Admitting, FileTool
<1> QED BY <1>4, <1>5 DEF Inv, RowInv

\* The folder was searched.
LEMMA JudgeStep == ASSUME Inv, NEW m \in Reconciler, Judge(m) PROVE Inv'
<1>1. TypeOK /\ RowInv /\ FailureIsTrue
  BY InvFacts
<1>2. rec[m].stage = "find" /\ UNCHANGED <<tool, journal, call, files, backup, snapshot, delivered, copies,
       executed, comp, restored, denied, calls, edits>>
  BY DEF Judge, RecAt, Rest
<1>3. /\ rec' \in [Reconciler -> RecRow] /\ (\A j \in Reconciler \ {m} : rec'[j] = rec[j])
      /\ \/ rec'[m].stage = "confirm" /\ rec'[m].state = rec[m].state /\ copies > 0
         \/ rec'[m].stage = "repair" /\ rec'[m].state = rec[m].state /\ rec[m].state = "committed"
         \/ rec'[m].stage = "idle"
  BY InvFacts, RecGotoMoves, RecLeaveMoves DEF Judge, Found
<1>4. TypeOK'
  BY <1>1, <1>2, <1>3 DEF TypeOK
<1>5. RowInv' /\ FailureIsTrue'
  BY InvFacts, <1>1, <1>2, <1>3
  DEF RowInv, RowIsOwned, StageFitsTool, SentIsKnown, StartedIsKnown, SuccessIsTrue, HasHappened,
       ClaimIsFinal,
       FailureIsTrue, Untouched, Early, Done, Admitting, FileTool
<1> QED BY <1>4, <1>5 DEF Inv, RowInv

\* The copy is appended once more.
LEMMA RepairStep == ASSUME Inv, NEW m \in Reconciler, Repair(m) PROVE Inv'
<1>1. TypeOK /\ RowInv /\ FailureIsTrue
  BY InvFacts
<1>2. rec[m].stage = "repair" /\ UNCHANGED <<tool, journal, call, files, backup, snapshot, delivered, executed,
       comp, restored, denied, calls, edits>>
  BY DEF Repair, RecAt, Rest
<1>3. /\ rec' \in [Reconciler -> RecRow] /\ (\A j \in Reconciler \ {m} : rec'[j] = rec[j])
       /\ copies' \in {copies, copies + 1}
      /\ \/ rec'[m].stage = "confirm" /\ rec'[m].state = rec[m].state
         \/ rec'[m].stage = "idle"
  BY InvFacts, RecGotoMoves, RecLeaveMoves DEF Repair
<1>4. TypeOK'
  BY <1>1, <1>2, <1>3 DEF TypeOK
<1>5. RowInv' /\ FailureIsTrue'
  BY InvFacts, <1>1, <1>2, <1>3
  DEF RowInv, RowIsOwned, StageFitsTool, SentIsKnown, StartedIsKnown, SuccessIsTrue, HasHappened,
       ClaimIsFinal,
       FailureIsTrue, Untouched, Early, Done, Admitting, FileTool
<1> QED BY <1>4, <1>5 DEF Inv, RowInv

\* A mail that was found is committed.
LEMMA ConfirmStep == ASSUME Inv, NEW m \in Reconciler, Confirm(m) PROVE Inv'
<1>1. TypeOK /\ RowInv /\ FailureIsTrue
  BY InvFacts
<1>2. rec[m].stage = "confirm" /\ UNCHANGED <<tool, call, files, backup, snapshot, delivered, copies, executed,
       comp, restored, denied, calls, edits>>
  BY DEF Confirm, RecAt, Rest
<1>3. /\ rec' \in [Reconciler -> RecRow] /\ (\A j \in Reconciler \ {m} : rec'[j] = rec[j])
       /\ rec'[m].stage = "idle"
      /\ \/ journal'.state = "committed" /\ journal' \in [state : State, result : Result]
         \/ journal' = journal
  BY InvFacts, RecLeaveMoves, CopySavedType, NamesAreTypes DEF Confirm
<1>4. TypeOK'
  BY <1>1, <1>2, <1>3 DEF TypeOK
<1>5. RowInv' /\ FailureIsTrue'
  BY InvFacts, <1>1, <1>2, <1>3
  DEF RowInv, RowIsOwned, StageFitsTool, SentIsKnown, StartedIsKnown, SuccessIsTrue, HasHappened,
       ClaimIsFinal,
       FailureIsTrue, Untouched, Early, Done, Admitting, FileTool
<1> QED BY <1>4, <1>5 DEF Inv, RowInv

\* The user edits the files and nothing else.
LEMMA EditStep == ASSUME Inv, NEW p \in {"src", "dst"}, NEW v \in {"edit", "none"}, Edit(p, v) PROVE Inv'
<1>1. TypeOK /\ RowInv /\ FailureIsTrue
  BY InvFacts
<1>2. /\ edits' = edits + 1
      /\ UNCHANGED <<tool, journal, backup, snapshot, delivered, copies, executed, rec, restored, denied, calls>>
  BY DEF Edit
<1>3. files' \in [{"src", "dst"} -> Version]
  BY InvFacts, NamesAreTypes DEF Edit, Put
<1>4. /\ call' \in CallRow /\ call'.stage = call.stage /\ call'.outcome = call.outcome
      /\ call'.result = call.result /\ call'.before = call.before
  BY InvFacts, LateRows DEF Edit
<1>5. comp' \in [Compensator -> CompRow] /\ \A k \in Compensator : comp'[k].stage = comp[k].stage
  BY InvFacts, LateRows DEF Edit
<1>6. TypeOK'
  BY <1>1, <1>2, <1>3, <1>4, <1>5 DEF TypeOK
<1>7. RowInv' /\ FailureIsTrue'
  BY InvFacts, <1>1, <1>2, <1>4, <1>5 DEF TypeOK, RowInv, RowIsOwned, StageFitsTool, SentIsKnown,
       StartedIsKnown, SuccessIsTrue, HasHappened, ClaimIsFinal, FailureIsTrue, Untouched, Early, Done,
       Admitting, FileTool
<1> QED BY <1>6, <1>7 DEF Inv, RowInv

-----------------------------------------------------------------------------
(* The theorems.                                                           *)

\* The invariant holds at first.
LEMMA InvInit == Init => Inv
<1> SUFFICES ASSUME Init PROVE Inv
  OBVIOUS
<1>1. /\ call = IdleCall /\ journal.state = "absent" /\ delivered = 0 /\ copies = 0 /\ executed = 0
      /\ \A k \in Compensator : comp[k].stage = "idle"
      /\ \A m \in Reconciler : rec[m].stage = "idle"
      /\ tool.name \in Tool
  BY DEF Init, IdleComp, IdleRec, ToolRow
<1>2. TypeOK
  <2>1. IdleComp \in CompRow /\ IdleRec \in RecRow
    BY DEF IdleComp, IdleRec, CompRow, RecRow, Version, State
  <2>2. journal \in [state : State, result : Result]
    BY RowTypes DEF Init, State
  <2>3. files \in [{"src", "dst"} -> Version]
    BY DEF Init, Version
  <2>4. backup \in Version /\ call \in CallRow
    BY RowTypes DEF Init, Version
  <2>5. comp \in [Compensator -> CompRow] /\ rec \in [Reconciler -> RecRow]
    BY <2>1 DEF Init
  <2>6. tool \in ToolRow /\ snapshot \in BOOLEAN /\ delivered \in Nat /\ copies \in Nat /\ executed \in Nat
        /\ restored \in Nat /\ denied \in BOOLEAN /\ calls \in Nat /\ edits \in Nat
    BY DEF Init
  <2> QED BY <2>2, <2>3, <2>4, <2>5, <2>6 DEF TypeOK
<1>3. files.dst # "tool" /\ (tool.name = "move" => files.src = "orig" /\ files.dst = "none")
  BY DEF Init
<1>4. RowInv /\ FailureIsTrue
  BY <1>1, <1>3, RowTypes
  DEF RowInv, RowIsOwned, StageFitsTool, SentIsKnown, StartedIsKnown, SuccessIsTrue, ClaimIsFinal,
       FailureIsTrue, Untouched, Early, Done
<1> QED BY <1>2, <1>4 DEF Inv, RowInv

\* Every step of a call, a window, a reconciliation or the user keeps it.
LEMMA InvStep == Inv /\ [Next]_vars => Inv'
<1> SUFFICES ASSUME Inv, [Next]_vars PROVE Inv'
  OBVIOUS
<1>1. CASE CallStep
  BY <1>1, StartCallStep, BeginEffectStep, EnterStep, FinishEffectStep, CrashStep, DiskErrorStep, StageWriteStep,
       CheckTargetStep, ReplaceStep, LinkWriteStep, HashSourceStep, CompareSourceStep, PlaceCopyStep,
       VerifySourceStep, DropSourceStep, ReturnFileStep, ConnectStep, SendStep, AppendStep, RunStep
  DEF CallStep
<1>2. ASSUME NEW k \in Compensator, CompensationStep(k) PROVE Inv'
  BY <1>2, InspectEffectStep, ClaimCompensationStep, RecheckStep, RestoreStep, CloseCompensationStep,
       CompCrashStep
  DEF CompensationStep
<1>3. ASSUME NEW m \in Reconciler, ReconciliationStep(m) PROVE Inv'
  BY <1>3, LookUpStep, JudgeStep, RepairStep, ConfirmStep DEF ReconciliationStep
<1>4. CASE UNCHANGED vars
  BY <1>4 DEF vars, world, Inv, TypeOK, RowIsOwned, StageFitsTool, SentIsKnown, StartedIsKnown, SuccessIsTrue,
       HasHappened, FailureIsTrue, Untouched, ClaimIsFinal, FileTool
<1> QED BY <1>1, <1>2, <1>3, <1>4, EditStep DEF Next

\* In every reachable state the invariant holds.
LEMMA InvAlways == Spec => []Inv
BY InvInit, InvStep, PTL DEF Spec

\* In every reachable state each variable has its type, for any number of
\* calls, edits and windows.
THEOREM TypeCorrect == Spec => []TypeOK
<1>1. Inv => TypeOK
  BY DEF Inv
<1> QED BY <1>1, InvAlways, PTL

\* An operation takes place at most once: the server accepts its mail once and
\* its process is started once, through refusals, losses, stops and crashes
\* (begin_effect, finish_effect, reconcile_email_effect).
THEOREM EffectsHappenOnce == Spec => []AppliedAtMostOnce
<1>1. Inv => AppliedAtMostOnce
  BY DEF Inv, SentIsKnown, StartedIsKnown, AppliedAtMostOnce
<1> QED BY <1>1, InvAlways, PTL

\* What the journal calls committed has happened, and what it calls failed has
\* left nothing behind, unless an error came behind the effect (finish_effect,
\* write_file, apply_file_move, compensate_file_effect).
THEOREM JournalTellsTheTruth == Spec => []JournalIsTrue
<1>1. ASSUME Inv PROVE JournalIsTrue
  <2>1. journal.state \in Done => HasHappened(journal.result)
    BY <1>1 DEF Inv, SuccessIsTrue
  <2>2. tool.name \in Tool
    BY <1>1, InvFacts
  <2>3. journal.state \in {"committed", "compensating", "compensated"} =>
          CASE tool.name = "mail" -> delivered = 1
            [] tool.name = "process" -> executed = 1
            [] OTHER -> journal.result.comp
    BY <2>1, <2>2 DEF Done, HasHappened, FileTool, Tool
  <2>4. (journal.state = "failed" /\ At("idle") /\ edits = 0 /\ ~denied) => NothingDone
    BY <1>1, <2>2, InvFacts DEF Inv, FailureIsTrue, Untouched, SentIsKnown, Admitting, FileTool,
       NothingDone
  <2> QED BY <2>3, <2>4 DEF JournalIsTrue
<1> QED BY <1>1, InvAlways, PTL

-----------------------------------------------------------------------------
(* The files.                                                              *)

Claimed(k) == comp[k].stage \notin {"idle", "claim"}

\* A compensation has read a row that was committed; one claims it.
CompOK ==
  /\ tool.existed => FileTool
  /\ tool.name = "move" => tool.existed
  /\ \A k \in Compensator : comp[k].stage # "idle" => journal.state \in Done
  /\ \A j, k \in Compensator : Claimed(j) /\ Claimed(k) => j = k
  /\ \A k \in Compensator :
       /\ comp[k].stage \in {"swap", "remove"} => tool.name = "write"
       /\ comp[k].stage \in {"relink", "undrop"} => tool.name = "move"

\* While the user leaves the files alone, what the call and the journal
\* remember as the version before is the original, and the original is at its
\* place until the backup or the copy of it is.
Kept ==
  /\ call.stage \in {"stage", "check", "replace", "link", "compare", "place", "verify", "unlink", "return"}
       => call.before = "orig"
  /\ call.stage = "record" /\ call.outcome = "success" => call.result.before = "orig"
  /\ journal.state \in Done => journal.result.before = "orig"
  /\ \A k \in Compensator : comp[k].stage # "idle" => comp[k].before = "orig" /\ comp[k].stage # "remove"
KeptWrite ==
  /\ files.dst \in {"orig", "tool"} /\ (files.dst = "tool" => backup = "orig") /\ ~denied
  /\ call.stage \in {"check", "replace"} => backup = "orig"
KeptMove ==
  /\ "orig" \in {files.src, files.dst}
  /\ call.stage \in {"compare", "place", "verify", "unlink"} => files.src = "orig"
  /\ call.stage \in {"verify", "unlink", "return"} => files.dst = "orig"
  /\ \A k \in Compensator : comp[k].stage = "undrop" => files.src = "orig"
KeptOK ==
  edits = 0 /\ tool.existed =>
    Kept /\ (tool.name = "write" => KeptWrite) /\ (tool.name = "move" => KeptMove)

\* Unless the user came in between, the files are at the write what they were
\* at the last comparison.
CallOK ==
  /\ call.stage \in {"check", "replace"} => backup = call.before
  /\ ~call.late =>
       /\ call.stage = "replace" => files.dst = call.before
       /\ call.stage \in {"verify", "unlink"} => files.dst \in {call.before, "edit"}
       /\ call.stage = "unlink" => files.src = call.before
Written ==
  tool.name = "write" =>
    /\ call.stage = "record" /\ call.outcome = "success" => call.result.after = "tool"
    /\ journal.state \in Done => journal.result.after = "tool"
    /\ \A k \in Compensator : comp[k].stage # "idle" => comp[k].after = "tool"
WindowOK(k) ==
  ~comp[k].late =>
    /\ comp[k].stage \in {"swap", "remove"} => files.dst = "tool"
    /\ comp[k].stage = "claim" /\ tool.name = "write" /\ comp[k].before = "none" /\ journal.state = "committed"
         => files.dst = "tool"
    /\ comp[k].stage \in {"relink", "undrop"} => files.dst = comp[k].before
    /\ comp[k].stage = "undrop" => files.src = comp[k].before
LateOK == CallOK /\ Written /\ \A k \in Compensator : WindowOK(k)
FilesInv == CompOK /\ KeptOK /\ LateOK

\* A call that moves keeps its history.
LEMMA CallKeeps ==
  ASSUME call \in CallRow
  PROVE  /\ call.late \in BOOLEAN
         /\ \A s \in CallStage : Goto(s) => call'.late = call.late /\ call'.result = call.result
         /\ \A s \in CallStage, v \in Version : Remember(s, v) => call'.late = call.late
         /\ \A o \in Outcome, r \in Result : Ends(o, r) => call'.late = call.late
BY DEF CallRow, CallStage, Goto, Remember, Ends

\* The facts about the files every step starts from.
LEMMA FilesFacts ==
  ASSUME Inv, FilesInv
  PROVE  /\ CompOK /\ KeptOK /\ LateOK /\ RowIsOwned /\ StageFitsTool /\ FailureIsTrue /\ ClaimIsFinal
         /\ call \in CallRow /\ comp \in [Compensator -> CompRow]
         /\ files \in [{"src", "dst"} -> Version] /\ tool.name \in Tool
         /\ call.before \in Version /\ edits \in Nat
  BY InvFacts, CallMoves DEF Inv, FilesInv, TypeOK

\* While a call is past begin_effect no window has the row.
LEMMA NoWindow ==
  ASSUME Inv, FilesInv, call.stage \notin {"idle", "select"}, FileTool
  PROVE  journal.state = "dispatched" /\ \A k \in Compensator : comp[k].stage = "idle"
BY DEF Inv, RowIsOwned, FileTool, FilesInv, CompOK, Done

\* The backup holds what is compared.
LEMMA StageWriteFiles == ASSUME Inv, FilesInv, StageWrite PROVE FilesInv'
<1>1. call.stage = "stage" /\ FileTool /\ (tool.name = "write" \/ tool.name = "move")
  BY FilesFacts DEF StageWrite, At, StageFitsTool, FileTool
<1>2. journal.state = "dispatched" /\ \A k \in Compensator : comp[k].stage = "idle"
  BY <1>1, NoWindow
<1>3. UNCHANGED <<tool, denied, journal, comp, edits>> /\ files' = files
  BY DEF StageWrite, World, world, Others, Bystanders
<1>4. /\ call' \in CallRow /\ call'.late = call.late
      /\ \/ call'.stage = "check" /\ call'.before = call.before /\ backup' = call.before
         \/ call'.stage = "link" /\ call'.before = call.before /\ UNCHANGED backup
         \/ call'.stage = "record" /\ call'.outcome = "failed"
  BY FilesFacts, CallMoves, CallKeeps, RowTypes, NamesAreTypes DEF StageWrite, Fails, Unchanged, World, world
<1>5. CompOK'
  BY FilesFacts, <1>3 DEF CompOK, Claimed, FileTool
<1>6. KeptOK'
  BY FilesFacts, <1>1, <1>2, <1>3, <1>4
  DEF KeptOK, Kept, KeptWrite, KeptMove, CompOK, StageFitsTool, FailureIsTrue, Untouched, Early,
       FileTool, Done
<1>7. LateOK'
  BY FilesFacts, <1>1, <1>2, <1>3, <1>4 DEF LateOK, CallOK, Written, WindowOK, Done, FileTool, StageFitsTool
<1> QED BY <1>5, <1>6, <1>7 DEF FilesInv

\* What is compared is in the backup.
LEMMA CheckTargetFiles == ASSUME Inv, FilesInv, CheckTarget PROVE FilesInv'
<1>1. call.stage = "check" /\ FileTool /\ (tool.name = "write" \/ tool.name = "move")
  BY FilesFacts DEF CheckTarget, At, StageFitsTool, FileTool
<1>2. journal.state = "dispatched" /\ \A k \in Compensator : comp[k].stage = "idle"
  BY <1>1, NoWindow
<1>3. UNCHANGED <<tool, denied, journal, comp, edits>> /\ UNCHANGED <<files, backup>>
  BY DEF CheckTarget, World, world, Others, Bystanders
<1>4. /\ call' \in CallRow /\ call'.late = call.late
      /\ \/ call'.stage = "replace" /\ call'.before = call.before /\ files.dst = call.before
         \/ call'.stage = "record" /\ call'.outcome = "failed"
  BY FilesFacts, CallMoves, CallKeeps, RowTypes, NamesAreTypes DEF CheckTarget, Fails, Unchanged, World, world
<1>5. CompOK'
  BY FilesFacts, <1>3 DEF CompOK, Claimed, FileTool
<1>6. KeptOK'
  BY FilesFacts, <1>1, <1>2, <1>3, <1>4
  DEF KeptOK, Kept, KeptWrite, KeptMove, CompOK, StageFitsTool, FailureIsTrue, Untouched, Early,
       FileTool, Done
<1>7. LateOK'
  BY FilesFacts, <1>1, <1>2, <1>3, <1>4 DEF LateOK, CallOK, Written, WindowOK, Done, FileTool, StageFitsTool
<1> QED BY <1>5, <1>6, <1>7 DEF FilesInv

\* The target is replaced.
LEMMA ReplaceFiles == ASSUME Inv, FilesInv, Replace PROVE FilesInv'
<1>1. call.stage = "replace" /\ FileTool /\ (tool.name = "write" \/ tool.name = "move")
  BY FilesFacts DEF Replace, At, StageFitsTool, FileTool
<1>2. journal.state = "dispatched" /\ \A k \in Compensator : comp[k].stage = "idle"
  BY <1>1, NoWindow
<1>3. UNCHANGED <<tool, denied, journal, comp, edits>> /\ files' = [files EXCEPT !.dst = "tool"] /\ UNCHANGED backup
  BY DEF Replace, Put, WithFiles, Elsewhere, Bystanders
<1>4. call' \in CallRow /\ call'.late = call.late /\ (call'.stage = "return" /\ call'.before = call.before)
  BY FilesFacts, CallMoves, CallKeeps, RowTypes, NamesAreTypes
       DEF Replace, Fails, Unchanged, Put, WithFiles, Elsewhere, Bystanders
<1>5. CompOK'
  BY FilesFacts, <1>3 DEF CompOK, Claimed, FileTool
<1>6. KeptOK'
  BY FilesFacts, <1>1, <1>2, <1>3, <1>4
  DEF KeptOK, Kept, KeptWrite, KeptMove, CompOK, StageFitsTool, FailureIsTrue, Untouched, Early,
       FileTool, Done
<1>7. LateOK'
  BY FilesFacts, <1>1, <1>2, <1>3, <1>4 DEF LateOK, CallOK, Written, WindowOK, Done, FileTool, StageFitsTool
<1> QED BY <1>5, <1>6, <1>7 DEF FilesInv

\* A path that is free is taken.
LEMMA LinkWriteFiles == ASSUME Inv, FilesInv, LinkWrite PROVE FilesInv'
<1>1. call.stage = "link" /\ FileTool /\ (tool.name = "write" \/ tool.name = "move")
  BY FilesFacts DEF LinkWrite, At, StageFitsTool, FileTool
<1>2. journal.state = "dispatched" /\ \A k \in Compensator : comp[k].stage = "idle"
  BY <1>1, NoWindow
<1>3. UNCHANGED <<tool, journal, comp, edits>> /\ UNCHANGED backup
  BY DEF LinkWrite, Put, Elsewhere, Bystanders
<1>4. /\ call' \in CallRow /\ call'.late = call.late
      /\ \/ /\ call'.stage = "return" /\ call'.before = call.before /\ denied' = denied
            /\ files.dst = "none" /\ files' = [files EXCEPT !.dst = "tool"]
         \/ call'.stage = "record" /\ call'.outcome = "failed" /\ UNCHANGED <<files, denied>>
         \/ /\ call'.stage = "record" /\ call'.outcome = "failed"
            /\ files.dst = "none" /\ files' = [files EXCEPT !.dst = "tool"]
  BY FilesFacts, CallMoves, CallKeeps, RowTypes, NamesAreTypes 
  DEF LinkWrite, Fails, FailsLate, Proceed, Put
<1>5. CompOK'
  BY FilesFacts, <1>3 DEF CompOK, Claimed, FileTool
<1>6. KeptOK'
  BY FilesFacts, <1>1, <1>2, <1>3, <1>4
  DEF KeptOK, Kept, KeptWrite, KeptMove, CompOK, StageFitsTool, FailureIsTrue, Untouched, Early,
       FileTool, Done
<1>7. LateOK'
  BY FilesFacts, <1>1, <1>2, <1>3, <1>4 DEF LateOK, CallOK, Written, WindowOK, Done, FileTool, StageFitsTool
<1> QED BY <1>5, <1>6, <1>7 DEF FilesInv

\* The source is remembered.
LEMMA HashSourceFiles == ASSUME Inv, FilesInv, HashSource PROVE FilesInv'
<1>1. call.stage = "hash" /\ FileTool /\ (tool.name = "write" \/ tool.name = "move")
  BY FilesFacts DEF HashSource, At, StageFitsTool, FileTool
<1>2. journal.state = "dispatched" /\ \A k \in Compensator : comp[k].stage = "idle"
  BY <1>1, NoWindow
<1>3. UNCHANGED <<tool, denied, journal, comp, edits>> /\ UNCHANGED <<files, backup>>
  BY DEF HashSource, World, world, Others, Bystanders
<1>4. /\ call' \in CallRow /\ call'.late = call.late
      /\ \/ call'.stage = "compare" /\ call'.before = files.src /\ files.dst = "none"
         \/ call'.stage = "record" /\ call'.outcome = "failed"
  BY FilesFacts, CallMoves, CallKeeps, RowTypes, NamesAreTypes DEF HashSource, Fails, Unchanged, World, world
<1>5. CompOK'
  BY FilesFacts, <1>3 DEF CompOK, Claimed, FileTool
<1>6. KeptOK'
  BY FilesFacts, <1>1, <1>2, <1>3, <1>4
  DEF KeptOK, Kept, KeptWrite, KeptMove, CompOK, StageFitsTool, FailureIsTrue, Untouched, Early,
       FileTool, Done
<1>7. LateOK'
  BY FilesFacts, <1>1, <1>2, <1>3, <1>4 DEF LateOK, CallOK, Written, WindowOK, Done, FileTool, StageFitsTool
<1> QED BY <1>5, <1>6, <1>7 DEF FilesInv

\* The source is compared.
LEMMA CompareSourceFiles == ASSUME Inv, FilesInv, CompareSource PROVE FilesInv'
<1>1. call.stage = "compare" /\ FileTool /\ (tool.name = "write" \/ tool.name = "move")
  BY FilesFacts DEF CompareSource, At, StageFitsTool, FileTool
<1>2. journal.state = "dispatched" /\ \A k \in Compensator : comp[k].stage = "idle"
  BY <1>1, NoWindow
<1>3. UNCHANGED <<tool, denied, journal, comp, edits>> /\ UNCHANGED <<files, backup>>
  BY DEF CompareSource, World, world, Others, Bystanders
<1>4. /\ call' \in CallRow /\ call'.late = call.late
      /\ \/ call'.stage = "place" /\ call'.before = call.before
         \/ call'.stage = "record" /\ call'.outcome = "failed"
  BY FilesFacts, CallMoves, CallKeeps, RowTypes, NamesAreTypes
       DEF CompareSource, Fails, Unchanged, World, world
<1>5. CompOK'
  BY FilesFacts, <1>3 DEF CompOK, Claimed, FileTool
<1>6. KeptOK'
  BY FilesFacts, <1>1, <1>2, <1>3, <1>4
  DEF KeptOK, Kept, KeptWrite, KeptMove, CompOK, StageFitsTool, FailureIsTrue, Untouched, Early,
       FileTool, Done
<1>7. LateOK'
  BY FilesFacts, <1>1, <1>2, <1>3, <1>4 DEF LateOK, CallOK, Written, WindowOK, Done, FileTool, StageFitsTool
<1> QED BY <1>5, <1>6, <1>7 DEF FilesInv

\* The copy is linked.
LEMMA PlaceCopyFiles == ASSUME Inv, FilesInv, PlaceCopy PROVE FilesInv'
<1>1. call.stage = "place" /\ FileTool /\ (tool.name = "write" \/ tool.name = "move")
  BY FilesFacts DEF PlaceCopy, At, StageFitsTool, FileTool
<1>2. journal.state = "dispatched" /\ \A k \in Compensator : comp[k].stage = "idle"
  BY <1>1, NoWindow
<1>3. UNCHANGED <<tool, denied, journal, comp, edits>> /\ UNCHANGED backup
  BY DEF PlaceCopy, Put, WithFiles, Elsewhere, Bystanders
<1>4. /\ call' \in CallRow /\ call'.late = call.late
      /\ \/ /\ call'.stage = "verify" /\ call'.before = call.before
            /\ files.dst = "none" /\ files' = [files EXCEPT !.dst = call.before]
         \/ call'.stage = "record" /\ call'.outcome = "failed" /\ UNCHANGED files
  BY FilesFacts, CallMoves, CallKeeps, RowTypes, NamesAreTypes
       DEF PlaceCopy, Fails, Unchanged, Put, WithFiles, Elsewhere, Bystanders
<1>5. CompOK'
  BY FilesFacts, <1>3 DEF CompOK, Claimed, FileTool
<1>6. KeptOK'
  BY FilesFacts, <1>1, <1>2, <1>3, <1>4
  DEF KeptOK, Kept, KeptWrite, KeptMove, CompOK, StageFitsTool, FailureIsTrue, Untouched, Early,
       FileTool, Done
<1>7. LateOK'
  BY FilesFacts, <1>1, <1>2, <1>3, <1>4 DEF LateOK, CallOK, Written, WindowOK, Done, FileTool, StageFitsTool
<1> QED BY <1>5, <1>6, <1>7 DEF FilesInv

\* The source is compared once more.
LEMMA VerifySourceFiles == ASSUME Inv, FilesInv, VerifySource PROVE FilesInv'
<1>1. call.stage = "verify" /\ FileTool /\ (tool.name = "write" \/ tool.name = "move")
  BY FilesFacts DEF VerifySource, At, StageFitsTool, FileTool
<1>2. journal.state = "dispatched" /\ \A k \in Compensator : comp[k].stage = "idle"
  BY <1>1, NoWindow
<1>3. UNCHANGED <<tool, journal, comp, edits>> /\ UNCHANGED <<files, backup>>
  BY DEF VerifySource, Elsewhere, Bystanders
<1>4. /\ call' \in CallRow /\ call'.late = call.late
      /\ \/ call'.stage = "unlink" /\ call'.before = call.before /\ files.src = call.before
         \/ call'.stage = "record" /\ call'.outcome \in {"unknown", "failed"}
  BY FilesFacts, CallMoves, CallKeeps, RowTypes, NamesAreTypes 
  DEF VerifySource, Fails, FailsLate, LeavesOpen, Proceed, Unchanged
<1>5. CompOK'
  BY FilesFacts, <1>3 DEF CompOK, Claimed, FileTool
<1>6. KeptOK'
  BY FilesFacts, <1>1, <1>2, <1>3, <1>4
  DEF KeptOK, Kept, KeptWrite, KeptMove, CompOK, StageFitsTool, FailureIsTrue, Untouched, Early,
       FileTool, Done
<1>7. LateOK'
  BY FilesFacts, <1>1, <1>2, <1>3, <1>4 DEF LateOK, CallOK, Written, WindowOK, Done, FileTool, StageFitsTool
<1> QED BY <1>5, <1>6, <1>7 DEF FilesInv

\* The source is dropped.
LEMMA DropSourceFiles == ASSUME Inv, FilesInv, DropSource PROVE FilesInv'
<1>1. call.stage = "unlink" /\ FileTool /\ (tool.name = "write" \/ tool.name = "move")
  BY FilesFacts DEF DropSource, At, StageFitsTool, FileTool
<1>2. journal.state = "dispatched" /\ \A k \in Compensator : comp[k].stage = "idle"
  BY <1>1, NoWindow
<1>3. UNCHANGED <<tool, journal, comp, edits>> /\ UNCHANGED backup
  BY DEF DropSource, Put, Elsewhere, Bystanders
<1>4. /\ call' \in CallRow /\ call'.late = call.late
      /\ \/ call'.stage = "return" /\ call'.before = call.before /\ files' = [files EXCEPT !.src = "none"]
         \/ /\ call'.stage = "record" /\ call'.outcome \in {"unknown", "failed"}
            /\ UNCHANGED files \/ files' = [files EXCEPT !.src = "none"]
  BY FilesFacts, CallMoves, CallKeeps, RowTypes, NamesAreTypes 
  DEF DropSource, Fails, FailsLate, LeavesOpen, Proceed, Put
<1>5. CompOK'
  BY FilesFacts, <1>3 DEF CompOK, Claimed, FileTool
<1>6. KeptOK'
  BY FilesFacts, <1>1, <1>2, <1>3, <1>4
  DEF KeptOK, Kept, KeptWrite, KeptMove, CompOK, StageFitsTool, FailureIsTrue, Untouched, Early,
       FileTool, Done
<1>7. LateOK'
  BY FilesFacts, <1>1, <1>2, <1>3, <1>4 DEF LateOK, CallOK, Written, WindowOK, Done, FileTool, StageFitsTool
<1> QED BY <1>5, <1>6, <1>7 DEF FilesInv

\* The size and the hash of the target are reported.
LEMMA ReturnFileFiles == ASSUME Inv, FilesInv, ReturnFile PROVE FilesInv'
<1>1. call.stage = "return" /\ FileTool /\ (tool.name = "write" \/ tool.name = "move")
  BY FilesFacts DEF ReturnFile, At, StageFitsTool, FileTool
<1>2. journal.state = "dispatched" /\ \A k \in Compensator : comp[k].stage = "idle"
  BY <1>1, NoWindow
<1>3. UNCHANGED <<tool, journal, comp, edits, files, backup>>
  BY DEF ReturnFile, Elsewhere, Bystanders
<1>4. /\ (tool.name = "write" => denied' = denied) /\ call'.late = call.late /\ call'.stage = "record"
      /\ \/ call'.outcome = "failed"
         \/ /\ call'.outcome = "success" /\ call'.result.before = call.before
            /\ tool.name = "write" => call'.result.after = "tool"
  <2> DEFINE after == IF tool.name = "move" THEN files.dst ELSE "tool"
  <2>1. after \in Version /\ files.dst \in Version
    BY FilesFacts, NamesAreTypes
  <2>2. FileResult(call.before, after) \in Result /\ FileResult(call.before, after).before = call.before
        /\ FileResult(call.before, after).after = after
    BY FilesFacts, <2>1, RowTypes DEF FileResult
  <2>3. Fails \/ Ends("success", FileResult(call.before, after))
    BY DEF ReturnFile, FailsLate
  <2> HIDE DEF after
  <2>3a. tool.name = "write" => denied' = denied
    BY DEF ReturnFile
  <2>4. CASE Fails
    BY <2>4, <2>3a, FilesFacts, CallMoves, CallKeeps, RowTypes, NamesAreTypes DEF Fails
  <2>5. CASE Ends("success", FileResult(call.before, after))
    BY <2>5, <2>2, <2>3a, FilesFacts, CallMoves, CallKeeps, NamesAreTypes DEF after
  <2> QED BY <2>3, <2>4, <2>5
<1>5. CompOK'
  BY FilesFacts, <1>3 DEF CompOK, Claimed, FileTool
<1>6. KeptOK'
  BY FilesFacts, <1>1, <1>2, <1>3, <1>4 DEF KeptOK, Kept, KeptWrite, KeptMove, CompOK, FileTool, Done
<1>7. LateOK'
  BY FilesFacts, <1>1, <1>2, <1>3, <1>4 DEF LateOK, CallOK, Written, WindowOK, Done, FileTool
<1> QED BY <1>5, <1>6, <1>7 DEF FilesInv

\* An error before the effect leaves the files as they are.
LEMMA DiskErrorFiles == ASSUME Inv, FilesInv, DiskError PROVE FilesInv'
<1>1. /\ call.stage \in {"stage", "check", "replace", "link", "hash", "compare", "place"} /\ FileTool
      /\ (tool.name = "write" \/ tool.name = "move")
  BY FilesFacts DEF DiskError, StageFitsTool, FileTool
<1>2. journal.state = "dispatched" /\ \A k \in Compensator : comp[k].stage = "idle"
  BY <1>1, NoWindow
<1>3. UNCHANGED <<tool, denied, journal, comp, edits, files, backup>>
  BY DEF DiskError, World, world, Others, Bystanders
<1>4. call'.stage = "record" /\ call'.outcome = "failed"
  BY FilesFacts, CallMoves, RowTypes, NamesAreTypes DEF DiskError, Fails
<1>5. CompOK'
  BY FilesFacts, <1>3 DEF CompOK, Claimed, FileTool
<1>6. KeptOK'
  BY FilesFacts, <1>2, <1>3, <1>4 DEF KeptOK, Kept, KeptWrite, KeptMove, CompOK, FileTool, Done
<1>7. LateOK'
  BY FilesFacts, <1>2, <1>3, <1>4 DEF LateOK, CallOK, Written, WindowOK, Done, FileTool
<1> QED BY <1>5, <1>6, <1>7 DEF FilesInv

\* A call starts, is cut short or is refused without a look at the files.
LEMMA IdleFiles ==
  ASSUME Inv, FilesInv, call'.stage \in {"idle", "select"}, UNCHANGED <<tool, denied, journal, comp, edits, files,
       backup>>
  PROVE  FilesInv'
<1>1. CompOK'
  BY FilesFacts DEF CompOK, Claimed, FileTool
<1>2. KeptOK'
  BY FilesFacts DEF KeptOK, Kept, KeptWrite, KeptMove, CompOK, Done
<1>3. LateOK'
  BY FilesFacts DEF LateOK, CallOK, Written, WindowOK, Done
<1> QED BY <1>1, <1>2, <1>3 DEF FilesInv

\* A call starts with nothing it remembers.
LEMMA StartCallFiles ==
  ASSUME Inv, FilesInv, NEW approved \in BOOLEAN, StartCall(approved)
  PROVE  FilesInv'
<1>1. call'.stage = "select" /\ UNCHANGED <<tool, denied, journal, comp, edits, files, backup>>
  BY DEF StartCall, IdleCall, World, world
<1> QED BY <1>1, IdleFiles

\* A crash forgets the call and nothing else.
LEMMA CrashFiles == ASSUME Inv, FilesInv, Crash PROVE FilesInv'
<1>1. call'.stage = "idle" /\ UNCHANGED <<tool, denied, journal, comp, edits, files, backup>>
  BY DEF Crash, IdleCall, World, world, Others, Bystanders
<1> QED BY <1>1, IdleFiles

\* The row is dispatched, or the call refused.
LEMMA BeginEffectFiles == ASSUME Inv, FilesInv, BeginEffect PROVE FilesInv'
<1>1. UNCHANGED <<tool, denied, comp, edits, files, backup>>
  BY DEF BeginEffect, World, world, Others, Bystanders
<1>2. CASE ~Admits(journal.state)
  BY <1>1, <1>2, IdleFiles DEF BeginEffect, IdleCall
<1>3. CASE Admits(journal.state)
  <2>1. call'.stage = "enter" /\ journal'.state = "dispatched" /\ journal.state \notin Done
    BY <1>3, FilesFacts, InvFacts, CallMoves, NamesAreTypes DEF BeginEffect, Admits, Done
  <2>2. \A k \in Compensator : comp[k].stage = "idle"
    BY <2>1, FilesFacts DEF CompOK
  <2>3. CompOK'
    BY FilesFacts, <1>1, <2>2 DEF CompOK, Claimed, FileTool
  <2>4. KeptOK'
    BY FilesFacts, <1>1, <2>1, <2>2 DEF KeptOK, Kept, KeptWrite, KeptMove, CompOK, Done
  <2>5. LateOK'
    BY FilesFacts, <1>1, <2>1, <2>2 DEF LateOK, CallOK, Written, WindowOK, Done
  <2> QED BY <2>3, <2>4, <2>5 DEF FilesInv
<1> QED BY <1>2, <1>3

\* The version that is there is remembered.
LEMMA EnterFiles == ASSUME Inv, FilesInv, Enter, FileTool PROVE FilesInv'
<1>1. call.stage = "enter" /\ (tool.name = "write" \/ tool.name = "move")
  BY DEF Enter, At, FileTool
<1>2. journal.state = "dispatched" /\ \A k \in Compensator : comp[k].stage = "idle"
  BY <1>1, NoWindow
<1>3. UNCHANGED <<tool, denied, journal, comp, edits, files, backup>>
  BY DEF Enter, World, world, Others, Bystanders
<1>4. \/ call'.stage = "record" /\ call'.outcome \in {"failed", "waiting_human"}
      \/ tool.name = "write" /\ call'.stage = "stage" /\ call'.before = files.dst
      \/ tool.name = "move" /\ call'.stage = "hash"
  BY <1>1, FilesFacts, CallMoves, RowTypes, NamesAreTypes DEF Enter, Fails, FirstStage
<1>5. CompOK'
  BY FilesFacts, <1>3 DEF CompOK, Claimed, FileTool
<1>6. KeptOK'
  BY FilesFacts, <1>1, <1>2, <1>3, <1>4
  DEF KeptOK, Kept, KeptWrite, KeptMove, CompOK, FailureIsTrue, Untouched, Early, FileTool, Done
<1>7. LateOK'
  BY FilesFacts, <1>1, <1>2, <1>3, <1>4 DEF LateOK, CallOK, Written, WindowOK, Done, FileTool
<1> QED BY <1>5, <1>6, <1>7 DEF FilesInv

\* What was returned is journalled.
LEMMA FinishEffectFiles == ASSUME Inv, FilesInv, FinishEffect, FileTool PROVE FilesInv'
<1>1. call.stage = "record" /\ call'.stage = "idle" /\ UNCHANGED <<tool, denied, comp, edits, files, backup>>
  BY DEF FinishEffect, At, IdleCall, World, world, Others, Bystanders
<1>2. journal.state = "dispatched" /\ \A k \in Compensator : comp[k].stage = "idle"
  BY <1>1, NoWindow
<1>3. /\ journal'.result = call.result
      /\ call.outcome # "success" => journal'.state \notin Done
  BY FilesFacts, CallMoves, RecordedStates DEF FinishEffect, Outcome, Done, FileTool
<1>4. CompOK'
  BY FilesFacts, <1>1, <1>2 DEF CompOK, Claimed, FileTool
<1>5. KeptOK'
  BY FilesFacts, <1>1, <1>2, <1>3 DEF KeptOK, Kept, KeptWrite, KeptMove, CompOK, Done
<1>6. LateOK'
  BY FilesFacts, <1>1, <1>2, <1>3 DEF LateOK, CallOK, Written, WindowOK, Done
<1> QED BY <1>4, <1>5, <1>6 DEF FilesInv

\* What concerns a mail or a process leaves the files alone.
LEMMA OtherTool == ASSUME Inv', FilesInv, ~FileTool, UNCHANGED tool PROVE FilesInv'
<1>1. tool.existed' = tool.existed /\ FileTool' = FileTool /\ tool.name # "move" /\ tool.name # "write"
  BY DEF FileTool
<1>2. \A k \in Compensator : comp'[k].stage = "idle"
  BY <1>1 DEF Inv, StageFitsTool
<1>3. CompOK'
  BY <1>1, <1>2 DEF CompOK, Claimed, FilesInv
<1>4. KeptOK'
  BY <1>1 DEF KeptOK, CompOK, FilesInv
<1>5. call'.stage \notin {"check", "replace", "verify", "unlink"}
  BY <1>1 DEF Inv, StageFitsTool
<1>6. LateOK'
  BY <1>1, <1>2, <1>5 DEF LateOK, CallOK, Written, WindowOK
<1> QED BY <1>3, <1>4, <1>6 DEF FilesInv

\* What the actions make of the row of a window.
LEMMA CompKeeps ==
  ASSUME comp \in [Compensator -> CompRow], NEW k \in Compensator
  PROVE  /\ \A s \in CompStage : CompGoto(k, s) =>
              /\ comp'[k].stage = s /\ comp'[k].before = comp[k].before /\ comp'[k].after = comp[k].after
              /\ comp'[k].late = comp[k].late /\ \A j \in Compensator \ {k} : comp'[j] = comp[j]
         /\ CompLeave(k) => comp'[k].stage = "idle" /\ \A j \in Compensator \ {k} : comp'[j] = comp[j]
<1>1. ASSUME NEW s \in CompStage, CompGoto(k, s)
      PROVE  /\ comp'[k].stage = s /\ comp'[k].before = comp[k].before /\ comp'[k].after = comp[k].after
             /\ comp'[k].late = comp[k].late /\ \A j \in Compensator \ {k} : comp'[j] = comp[j]
  <2> DEFINE row == [comp[k] EXCEPT !.stage = s]
  <2>1. /\ row.stage = s /\ row.before = comp[k].before /\ row.after = comp[k].after
        /\ row.late = comp[k].late
    BY DEF CompRow
  <2>2. comp' = [comp EXCEPT ![k] = row]
    BY <1>1 DEF CompGoto
  <2> HIDE DEF row
  <2> QED BY <2>1, <2>2
<1>2. CompLeave(k) => comp'[k].stage = "idle" /\ \A j \in Compensator \ {k} : comp'[j] = comp[j]
  BY CompLeaveMoves
<1> QED BY <1>1, <1>2

\* A window that is at work has the row, and no call is under way.
LEMMA WindowFacts ==
  ASSUME Inv, FilesInv, NEW k \in Compensator, comp[k].stage # "idle"
  PROVE  /\ journal.state \in Done /\ FileTool /\ (tool.name = "write" \/ tool.name = "move")
         /\ call.stage \in {"idle", "select"}
         /\ Claimed(k) => journal.state # "committed" /\ \A j \in Compensator \ {k} : ~Claimed(j)
BY DEF Inv, RowIsOwned, StageFitsTool, ClaimIsFinal, FilesInv, CompOK, Claimed, FileTool, Done

\* A committed row is read.
LEMMA InspectEffectFiles == ASSUME Inv, FilesInv, NEW k \in Compensator, InspectEffect(k) PROVE FilesInv'
<1> DEFINE r == journal.result
           row == [IdleComp EXCEPT !.stage = "claim", !.before = r.before, !.after = r.after]
<1>1. /\ comp[k].stage = "idle" /\ journal.state = "committed" /\ FileTool
      /\ files.dst = r.after /\ comp' = [comp EXCEPT ![k] = row]
      /\ UNCHANGED <<tool, denied, journal, call, files, backup, edits>>
  BY DEF InspectEffect, CompAt, FileTool, World, world, Calls
<1>2. row.stage = "claim" /\ row.before = r.before /\ row.after = r.after
  BY DEF IdleComp
<1> HIDE DEF row
<1>3. comp'[k] = row /\ \A j \in Compensator \ {k} : comp'[j] = comp[j]
  BY <1>1, FilesFacts
<1>4. CompOK'
  BY FilesFacts, <1>1, <1>2, <1>3 DEF CompOK, Claimed, FileTool, Done
<1>5. KeptOK'
  BY FilesFacts, <1>1, <1>2, <1>3 DEF KeptOK, Kept, KeptWrite, KeptMove, CompOK, Done
<1>6. LateOK'
  BY FilesFacts, <1>1, <1>2, <1>3 DEF LateOK, CallOK, Written, WindowOK, Done
<1> QED BY <1>4, <1>5, <1>6 DEF FilesInv

\* One window claims the row.
LEMMA ClaimCompensationFiles ==
  ASSUME Inv, FilesInv, NEW k \in Compensator, ClaimCompensation(k)
  PROVE  FilesInv'
<1>1. comp[k].stage = "claim" /\ UNCHANGED <<tool, denied, call, files, backup, edits>>
  BY DEF ClaimCompensation, CompAt, World, world, Calls
<1>2. /\ \A j \in Compensator \ {k} : comp'[j] = comp[j]
      /\ \/ /\ journal.state = "committed" /\ journal'.state = "compensating"
            /\ journal'.result = journal.result
            /\ comp'[k].stage = IF tool.name = "write" /\ comp[k].before = "none" THEN "remove" ELSE "recheck"
            /\ comp'[k].before = comp[k].before /\ comp'[k].after = comp[k].after
            /\ comp'[k].late = comp[k].late
         \/ comp'[k].stage = "idle" /\ journal' = journal
  BY FilesFacts, InvFacts, CompKeeps DEF ClaimCompensation, Claimable, CompStage
<1>3. journal.state = "committed" => \A j \in Compensator : ~Claimed(j)
  BY WindowFacts DEF Claimed
<1>4. CompOK'
  BY FilesFacts, <1>1, <1>2, <1>3 DEF CompOK, Claimed, FileTool, Done
<1>5. KeptOK'
  BY FilesFacts, <1>1, <1>2 DEF KeptOK, Kept, KeptWrite, KeptMove, CompOK, Done
<1>6. LateOK'
  BY FilesFacts, <1>1, <1>2 DEF LateOK, CallOK, Written, WindowOK, Done
<1> QED BY <1>4, <1>5, <1>6 DEF FilesInv

\* The target is compared once more.
LEMMA RecheckFiles == ASSUME Inv, FilesInv, NEW k \in Compensator, Recheck(k) PROVE FilesInv'
<1>1. comp[k].stage = "recheck" /\ UNCHANGED <<tool, denied, journal, call, files, backup, edits>>
  BY DEF Recheck, CompAt, World, world, Calls
<1>2. tool.name = "write" \/ tool.name = "move"
  BY <1>1, WindowFacts
<1>3. /\ \A j \in Compensator \ {k} : comp'[j] = comp[j]
      /\ \/ /\ comp'[k].stage = (IF tool.name = "move" THEN "relink" ELSE "swap")
            /\ files.dst = comp[k].after /\ (tool.name = "move" => files.dst = comp[k].before)
            /\ comp'[k].before = comp[k].before /\ comp'[k].after = comp[k].after
         \/ comp'[k].stage = "idle"
  BY FilesFacts, CompKeeps DEF Recheck, CompStage
<1>4. CompOK'
  BY FilesFacts, <1>1, <1>2, <1>3 DEF CompOK, Claimed, FileTool, Done
<1>5. KeptOK'
  BY FilesFacts, <1>1, <1>2, <1>3 DEF KeptOK, Kept, KeptWrite, KeptMove, CompOK, Done
<1>6. LateOK'
  BY FilesFacts, <1>1, <1>2, <1>3 DEF LateOK, CallOK, Written, WindowOK, Done
<1> QED BY <1>4, <1>5, <1>6 DEF FilesInv

\* The files are put back one by one.
LEMMA RestoreFiles == ASSUME Inv, FilesInv, NEW k \in Compensator, Restore(k) PROVE FilesInv'
<1>1. comp[k].stage \in {"swap", "remove", "relink", "undrop"} /\ UNCHANGED <<tool, denied, journal, call, backup,
       edits>>
  BY DEF Restore, CompAt, Calls
<1>2. /\ FileTool /\ journal.state \in Done /\ journal.state # "committed" /\ call.stage \in {"idle", "select"}
      /\ (\A j \in Compensator \ {k} : ~Claimed(j))
      /\ (comp[k].stage \in {"swap", "remove"} => tool.name = "write")
      /\ (comp[k].stage \in {"relink", "undrop"} => tool.name = "move")
  BY <1>1, WindowFacts, FilesFacts DEF Claimed, CompOK
<1>3. /\ \A j \in Compensator \ {k} : comp'[j] = comp[j]
      /\ \/ /\ comp[k].stage = "swap" /\ comp'[k].stage = "close" /\ comp'[k].before = comp[k].before
            /\ comp'[k].after = comp[k].after /\ files' = [files EXCEPT !.dst = comp[k].before]
         \/ /\ comp[k].stage \in {"remove", "undrop"} /\ comp'[k].stage = "close"
            /\ comp'[k].before = comp[k].before
            /\ comp'[k].after = comp[k].after /\ files' = [files EXCEPT !.dst = "none"]
         \/ /\ comp[k].stage = "relink" /\ comp'[k].stage = "undrop" /\ comp'[k].before = comp[k].before
            /\ comp'[k].after = comp[k].after /\ comp'[k].late = comp[k].late
            /\ files.src = "none" /\ files' = [files EXCEPT !.src = comp[k].before]
         \/ comp'[k].stage = "idle" /\ UNCHANGED files
  BY FilesFacts, CompKeeps DEF Restore, Relink, Put, CompAt, CompStage
<1>4. CompOK'
  BY FilesFacts, <1>1, <1>2, <1>3 DEF CompOK, Claimed, FileTool
<1>5. KeptOK'
  BY FilesFacts, <1>1, <1>2, <1>3 DEF KeptOK, Kept, KeptWrite, KeptMove, CompOK, Claimed
<1>6. LateOK'
  <2>1. CallOK' /\ Written'
    BY FilesFacts, <1>1, <1>2, <1>3 DEF LateOK, CallOK, Written
  <2>2. ASSUME NEW j \in Compensator \ {k} PROVE WindowOK(j)'
    BY FilesFacts, <1>1, <1>2, <1>3, <2>2 DEF LateOK, WindowOK, Claimed
  <2>3. WindowOK(k)'
    BY FilesFacts, <1>1, <1>2, <1>3 DEF LateOK, WindowOK
  <2> QED BY <2>1, <2>2, <2>3 DEF LateOK
<1> QED BY <1>4, <1>5, <1>6 DEF FilesInv

\* The row is closed, or its window dies.
LEMMA WindowLeaves ==
  ASSUME Inv, FilesInv, NEW k \in Compensator, CompLeave(k), comp[k].stage # "idle",
         UNCHANGED <<tool, denied, call, files, backup, edits>>, journal'.result = journal.result,
         journal' = journal \/ (journal.state = "compensating" /\ journal'.state = "compensated")
  PROVE  FilesInv'
<1>1. comp'[k].stage = "idle" /\ \A j \in Compensator \ {k} : comp'[j] = comp[j]
  BY FilesFacts, CompKeeps
<1>2. journal.state \in Done /\ journal'.state \in Done
  BY WindowFacts DEF Done
<1>3. CompOK'
  BY FilesFacts, <1>1, <1>2 DEF CompOK, Claimed, FileTool
<1>4. KeptOK'
  BY FilesFacts, <1>1, <1>2 DEF KeptOK, Kept, KeptWrite, KeptMove, CompOK
<1>5. LateOK'
  BY FilesFacts, <1>1, <1>2 DEF LateOK, CallOK, Written, WindowOK
<1> QED BY <1>3, <1>4, <1>5 DEF FilesInv

\* The row is closed when the files are put back.
LEMMA CloseCompensationFiles ==
  ASSUME Inv, FilesInv, NEW k \in Compensator, CloseCompensation(k)
  PROVE  FilesInv'
<1>1. /\ comp[k].stage = "close" /\ CompLeave(k) /\ UNCHANGED <<tool, denied, call, files, backup, edits>>
      /\ journal'.result = journal.result
      /\ journal' = journal \/ (journal.state = "compensating" /\ journal'.state = "compensated")
  BY InvFacts DEF CloseCompensation, CompAt, World, world, Calls
<1> QED BY <1>1, WindowLeaves

\* A window that dies leaves the files as they are.
LEMMA CompCrashFiles == ASSUME Inv, FilesInv, NEW k \in Compensator, CompCrash(k) PROVE FilesInv'
<1>1. comp[k].stage # "idle" /\ CompLeave(k) /\ UNCHANGED <<tool, denied, journal, call, files, backup, edits>>
  BY DEF CompCrash, CompAt, World, world, Calls
<1> QED BY <1>1, WindowLeaves

\* What the user does is remembered where it comes late.
LEMMA EditFiles ==
  ASSUME Inv, FilesInv, NEW p \in {"src", "dst"}, NEW v \in {"edit", "none"}, Edit(p, v)
  PROVE  FilesInv'
<1>1. /\ edits' # 0 /\ UNCHANGED <<tool, denied, journal, backup>> /\ files' = [files EXCEPT ![p] = v]
  BY FilesFacts DEF Edit, Put
<1>2. /\ call'.stage = call.stage /\ call'.outcome = call.outcome /\ call'.result = call.result
      /\ call'.before = call.before
      /\ ~call'.late => ~call.late /\ ~CallIsLate /\ v = "edit"
  <2> DEFINE b == CallIsLate \/ v = "none"
  <2>1. call' = [call EXCEPT !.late = @ \/ b]
    BY DEF Edit
  <2>2. call \in CallRow /\ b \in BOOLEAN
    BY FilesFacts DEF CallIsLate
  <2> HIDE DEF b
  <2>3. /\ call'.stage = call.stage /\ call'.outcome = call.outcome /\ call'.result = call.result
        /\ call'.before = call.before
    BY <2>1, <2>2, LateRows
  <2>4. call'.late = (call.late \/ b)
    BY <2>1, <2>2 DEF CallRow
  <2> QED BY <2>3, <2>4 DEF b
<1>3. ASSUME NEW k \in Compensator
      PROVE  /\ comp'[k].stage = comp[k].stage /\ comp'[k].before = comp[k].before
             /\ comp'[k].after = comp[k].after
             /\ ~comp'[k].late => ~comp[k].late /\ ~CompIsLate(k) /\ v = "edit"
  <2> DEFINE b == CompIsLate(k) \/ v = "none"
  <2>1. comp'[k] = [comp[k] EXCEPT !.late = @ \/ b]
    BY DEF Edit
  <2>2. comp[k] \in CompRow
    BY FilesFacts
  <2> HIDE DEF b
  <2>3. /\ comp'[k].stage = comp[k].stage /\ comp'[k].before = comp[k].before /\ comp'[k].after = comp[k].after
        /\ comp'[k].late = (comp[k].late \/ b)
    BY <2>1, <2>2 DEF CompRow
  <2> QED BY <2>3 DEF b
<1>4. CompOK'
  BY FilesFacts, <1>1, <1>3 DEF CompOK, Claimed, FileTool
<1>5. KeptOK'
  BY <1>1 DEF KeptOK
<1>6. LateOK'
  <2>1. CallOK'
    BY FilesFacts, <1>1, <1>2 DEF LateOK, CallOK, CallIsLate
  <2>2. Written'
    BY FilesFacts, <1>1, <1>2, <1>3 DEF LateOK, Written
  <2>3. ASSUME NEW k \in Compensator PROVE WindowOK(k)'
    BY FilesFacts, <1>1, <1>3 DEF LateOK, WindowOK, CompIsLate
  <2> QED BY <2>1, <2>2, <2>3 DEF LateOK
<1> QED BY <1>4, <1>5, <1>6 DEF FilesInv

\* The files are as said at first.
LEMMA FilesInit == Init => FilesInv
<1> SUFFICES ASSUME Init PROVE FilesInv
  OBVIOUS
<1>1. /\ call.stage = "idle" /\ journal.state = "absent" /\ edits = 0
      /\ \A k \in Compensator : comp[k].stage = "idle"
      /\ tool \in ToolRow
  BY DEF Init, IdleComp, IdleCall
<1>2. CompOK
  BY <1>1 DEF Init, CompOK, Claimed, FileTool, ToolRow, Tool, Done
<1>3. KeptOK
  BY <1>1 DEF Init, KeptOK, Kept, KeptWrite, KeptMove, Done
<1>4. LateOK
  BY <1>1 DEF LateOK, CallOK, Written, WindowOK, Done
<1> QED BY <1>2, <1>3, <1>4 DEF FilesInv

\* Every step keeps them so.
LEMMA FilesStep == Inv /\ FilesInv /\ [Next]_vars => FilesInv'
<1> SUFFICES ASSUME Inv, FilesInv, [Next]_vars PROVE FilesInv'
  OBVIOUS
<1>1. Inv'
  BY InvStep
<1>2. UNCHANGED tool
  BY DEF Next, CallStep, CompensationStep, ReconciliationStep, StartCall, BeginEffect, Enter, FinishEffect,
       Crash, DiskError, StageWrite, CheckTarget, Replace, LinkWrite, HashSource, CompareSource, PlaceCopy, VerifySource,
       DropSource, ReturnFile, Connect, Send, Append, Run, InspectEffect, ClaimCompensation, Recheck, Restore,
       CloseCompensation, CompCrash, LookUp, Judge, Repair, Confirm, Edit, Others,
       WithFiles, Elsewhere, Bystanders, Calls, Rest, vars
<1>3. CASE ~FileTool
  BY <1>1, <1>2, <1>3, OtherTool
<1>4. CASE FileTool
  <2>1. CASE CallStep
    <3>1. ~(Connect \/ Send \/ Append \/ Run)
      BY <1>4, FilesFacts DEF Connect, Send, Append, Run, At, StageFitsTool, FileTool
    <3> QED BY <2>1, <3>1, <1>4, StartCallFiles, BeginEffectFiles, EnterFiles, FinishEffectFiles, CrashFiles, DiskErrorFiles,
           StageWriteFiles, CheckTargetFiles, ReplaceFiles, LinkWriteFiles, HashSourceFiles, CompareSourceFiles,
           PlaceCopyFiles, VerifySourceFiles, DropSourceFiles, ReturnFileFiles
        DEF CallStep
  <2>2. ASSUME NEW k \in Compensator, CompensationStep(k) PROVE FilesInv'
    BY <2>2, InspectEffectFiles, ClaimCompensationFiles, RecheckFiles, RestoreFiles, CloseCompensationFiles,
         CompCrashFiles
    DEF CompensationStep
  <2>3. ASSUME NEW m \in Reconciler, ReconciliationStep(m) PROVE FALSE
    BY <2>3, <1>4, FilesFacts DEF ReconciliationStep, LookUp, Judge, Repair, Confirm, RecAt, StageFitsTool,
         FileTool
  <2>4. CASE UNCHANGED vars
    <3>1. UNCHANGED <<tool, denied, journal, call, files, backup, comp, edits>>
      BY <2>4 DEF vars, world
    <3>2. CompOK' /\ KeptOK'
      BY FilesFacts, <3>1 DEF CompOK, Claimed, FileTool, KeptOK, Kept, KeptWrite, KeptMove
    <3>3. LateOK'
      BY FilesFacts, <3>1 DEF LateOK, CallOK, Written, WindowOK
    <3> QED BY <3>2, <3>3 DEF FilesInv
  <2> QED BY <2>1, <2>2, <2>3, <2>4, EditFiles DEF Next
<1> QED BY <1>3, <1>4

\* In every reachable state the files are as said.
LEMMA FilesAlways == Spec => [](Inv /\ FilesInv)
BY InvInit, InvStep, FilesInit, FilesStep, PTL DEF Spec

\* The version a file had before the operation is never lost: it is in the
\* file, at its new place or in the backup, through every refusal, failure and
\* crash of the call and of any number of windows that put it back, as long as
\* the user leaves the files alone (write_file, apply_file_move, compensate_file_effect).
THEOREM OriginalsAreKept == Spec => []OriginalIsKept
<1>1. ASSUME Inv, FilesInv PROVE OriginalIsKept
  BY <1>1, FilesFacts DEF OriginalIsKept, KeptOK, KeptWrite, KeptMove, CompOK, FileTool
<1> QED BY <1>1, FilesAlways, PTL

\* Only the moment between the last comparison of a file and its replacement
\* can cost the user a version that was saved by another program.
THEOREM EditsAreCompared == Spec => EditIsCompared
<1> DEFINE Lost(p) == files[p] = "edit" /\ files'[p] # "edit" /\ edits' = edits
           Kept2(p) == \/ "edit" \in {files'.src, files'.dst, backup}
                       \/ call' # call /\ call.late
                       \/ \E k \in Compensator : comp'[k] # comp[k] /\ comp[k].late
<1>1. ASSUME Inv, FilesInv, Next, NEW p \in {"src", "dst"}, Lost(p)
      PROVE  Kept2(p)
  <2>1. \/ Replace \/ LinkWrite \/ PlaceCopy \/ DropSource \/ \E k \in Compensator : Restore(k)
    <3>1. files' # files /\ edits' = edits
      BY <1>1
    <3>2. CASE CallStep
      BY <3>1, <3>2
      DEF CallStep, StartCall, BeginEffect, Enter, FinishEffect, Crash, DiskError, StageWrite,
       CheckTarget, HashSource,
           CompareSource, VerifySource, ReturnFile, Connect, Send, Append, Run, World, world
    <3>3. ASSUME NEW k \in Compensator, CompensationStep(k) PROVE Restore(k)
      BY <3>1, <3>3
      DEF CompensationStep, InspectEffect, ClaimCompensation, Recheck, CloseCompensation, CompCrash, World,
           world
    <3>4. ASSUME NEW m \in Reconciler, ReconciliationStep(m) PROVE FALSE
      BY <3>1, <3>4 DEF ReconciliationStep, LookUp, Judge, Repair, Confirm, Rest
    <3>5. ASSUME NEW q \in {"src", "dst"}, NEW v \in {"edit", "none"}, Edit(q, v) PROVE FALSE
      BY <3>1, <3>5, <1>1, FilesFacts DEF Edit
    <3> QED BY <1>1, <3>2, <3>3, <3>4, <3>5 DEF Next
  <2>2. CASE Replace
    <3>1. call.stage = "replace" /\ files' = [files EXCEPT !.dst = "tool"] /\ call'.stage = "return"
      BY <2>2, <1>1, FilesFacts, CallMoves, NamesAreTypes DEF Replace, At, Put
    <3> QED BY <3>1, <1>1, FilesFacts DEF LateOK, CallOK
  <2>3. CASE LinkWrite \/ PlaceCopy
    BY <2>3, <1>1, FilesFacts DEF LinkWrite, PlaceCopy, Put
  <2>4. CASE DropSource
    <3>1. call.stage = "unlink" /\ files' = [files EXCEPT !.src = "none"] /\ call'.stage # "unlink"
      BY <2>4, <1>1, FilesFacts, CallMoves, NamesAreTypes, RowTypes
      DEF DropSource, At, Put, Proceed, FailsLate, Fails, LeavesOpen
    <3> QED BY <3>1, <1>1, FilesFacts DEF LateOK, CallOK
  <2>5. ASSUME NEW k \in Compensator, Restore(k) PROVE Kept2(p)
    <3>1. /\ comp[k].stage \in {"swap", "remove", "relink", "undrop"} /\ comp'[k].stage # comp[k].stage
          /\ comp[k].stage \in {"swap", "remove", "undrop"} => files'.src = files.src
          /\ comp[k].stage = "relink" => UNCHANGED files \/ (files.src = "none" /\ files'.dst = files.dst)
      BY <2>5, <1>1, FilesFacts, CompKeeps DEF Restore, Relink, Put, CompAt, CompStage
    <3> QED BY <3>1, <1>1, FilesFacts DEF LateOK, WindowOK
  <2> QED BY <2>1, <2>2, <2>3, <2>4, <2>5
<1>2. Inv /\ FilesInv /\ [Next]_vars => [\A p \in {"src", "dst"} : Lost(p) => Kept2(p)]_vars
  BY <1>1
<1> QED BY <1>2, FilesAlways, PTL DEF Spec, EditIsCompared
=============================================================================
