--------------------------- MODULE DesktopController ---------------------------
(***************************************************************************)
(* DesktopController (dwi/desktop/controller.py) on top of DesktopWorker:  *)
(* the five operations a user starts, the token calls each makes on the    *)
(* worker thread, what their callbacks do to the DesktopStateModel, and    *)
(* the closing of the window (dwi/desktop/app.py).                         *)
(*                                                                         *)
(* A finding, a plan item and a recovery row are all an element of Items.  *)
(* progress_indeterminate is set and cleared together with operation_name  *)
(* and not kept apart from it; messages are left out.                      *)
(***************************************************************************)
EXTENDS DesktopWorker

CONSTANTS
  Items,   \* findings that are eligible for cleanup
  MaxOps   \* bound on the operations that are submitted

ASSUME ControllerAssumption ==
  /\ Kinds = {"scan", "review", "recovery", "cleanup", "undo"}
  /\ Announced = {"cleanup"}
  /\ Results = [state : {"complete", "partial", "settled", "unsettled", "executed", "blocked"},
                items : SUBSET Items]
  /\ \A items \in SUBSET Items : items # None
  /\ MaxOps \in Nat

VARIABLES
  step,        \* position of the operation in its Program
  moved,       \* the operation has moved a directory
  screen,      \* state.state
  name,        \* state.operation_name
  shownPhase,  \* state.operation_phase
  scanned,     \* state.scan is set
  findings,    \* keys of _findings
  selected,    \* state.selected_finding_keys
  captured,    \* the selection a review operation was submitted with
  session,     \* items of state.session's plan
  review,      \* items state.review shows
  rows,        \* state.recovery_rows that are restore_eligible
  runtime,     \* _runtime is set
  window,      \* open, closing (polling the worker) or destroyed
  ops          \* operations submitted

operationVars == <<step, moved, captured, runtime>>
cleanupVars == <<scanned, findings, selected, session, review>>
vars == <<workerVars, operationVars, cleanupVars, screen, name, shownPhase, rows, window, ops>>

DesktopState ==
  {"IDLE", "SCANNING", "SCAN_COMPLETE", "SCAN_PARTIAL", "SCAN_FAILED", "REVIEWING", "CONFIRMING",
   "REVALIDATING", "EXECUTING", "PARTIAL_RESULT", "CLEANUP_COMPLETE",
   "RECONCILIATION_REQUIRED", "RECOVERY", "CANCELLED", "ERROR"}

Init ==
  /\ WorkerInit
  /\ step = 1
  /\ moved = FALSE
  /\ screen = "IDLE"
  /\ name = None
  /\ shownPhase = "IDLE"
  /\ scanned = FALSE
  /\ findings = {}
  /\ selected = {}
  /\ captured = {}
  /\ session = None
  /\ review = None
  /\ rows = {}
  /\ runtime = FALSE
  /\ window = "open"
  /\ ops = 0

-----------------------------------------------------------------------------
(* What the user does. *)

Window == window # "destroyed" /\ UIFree

\* _update of a starting operation, then worker.submit.
Begin(k, shown) ==
  /\ Window
  /\ ops < MaxOps
  /\ Submit(k)
  /\ ops' = ops + 1
  /\ step' = 1
  /\ moved' = FALSE
  /\ screen' = shown
  /\ name' = k
  /\ shownPhase' = "CANCELLABLE"
  /\ UNCHANGED <<runtime, rows, window>>

StartScan ==
  /\ Begin("scan", "SCANNING")
  /\ selected' = {}
  /\ session' = None
  /\ review' = None
  /\ UNCHANGED <<captured, scanned, findings>>

\* Neither asks whether the worker is busy.
ToggleSelection(i) ==
  /\ Window
  /\ i \in findings
  /\ selected' = IF i \in selected THEN selected \ {i} ELSE selected \cup {i}
  /\ UNCHANGED <<workerVars, operationVars, scanned, findings, session, review, screen, name,
                 shownPhase, rows, window, ops>>

ClearSelection ==
  /\ Window
  /\ selected' = {}
  /\ UNCHANGED <<workerVars, operationVars, scanned, findings, session, review, screen, name,
                 shownPhase, rows, window, ops>>

BuildCleanupReview ==
  /\ scanned /\ screen = "SCAN_COMPLETE"
  /\ selected \cap findings # {}
  /\ Begin("review", "REVIEWING")
  /\ captured' = selected \cap findings
  /\ UNCHANGED cleanupVars

ConfirmCleanup ==
  /\ session # None /\ review # None
  /\ Begin("cleanup", "CONFIRMING")
  /\ UNCHANGED <<captured, cleanupVars>>

\* A phrase that is not CONFIRMATION_PHRASE.
WrongPhrase ==
  /\ Window
  /\ ~Busy
  /\ session # None /\ review # None
  /\ screen' = "CONFIRMING"
  /\ UNCHANGED <<workerVars, operationVars, cleanupVars, name, shownPhase, rows, window, ops>>

\* Without a runtime it does not ask whether the worker is busy.
RefreshRecovery ==
  \/ /\ Window
     /\ ~runtime
     /\ screen' = "RECOVERY"
     /\ rows' = {}
     /\ UNCHANGED <<workerVars, operationVars, cleanupVars, name, shownPhase, window, ops>>
  \/ /\ runtime
     /\ Begin("recovery", "RECOVERY")
     /\ UNCHANGED <<captured, cleanupVars>>

Undo(i) ==
  /\ runtime
  /\ \/ /\ i \in rows
        /\ Begin("undo", "RECOVERY")
        /\ UNCHANGED <<captured, cleanupVars>>
     \/ /\ Window
        /\ ~Busy
        /\ i \notin rows
        /\ screen' = "RECONCILIATION_REQUIRED"
        /\ UNCHANGED <<workerVars, operationVars, cleanupVars, name, shownPhase, rows, window, ops>>

\* Variant: the state is left at once, whether or not an operation runs.
CancelWaiting_AlsoBusy ==
  /\ screen \in {"REVIEWING", "CONFIRMING"}
  /\ screen' = "CANCELLED"
  /\ shownPhase' = "CANCELLED"
  /\ name' = None
  /\ UNCHANGED workerVars

\* cancel(): a review or confirmation that only waits for the user is left at
\* once; otherwise the worker decides.
CancelWaiting ==
  /\ ~Busy
  /\ screen \in {"REVIEWING", "CONFIRMING"}
  /\ screen' = "CANCELLED"
  /\ shownPhase' = "CANCELLED"
  /\ name' = None
  /\ UNCHANGED workerVars

Cancel ==
  /\ Window
  /\ \/ CancelWaiting
     \/ RequestCancel /\ UNCHANGED <<screen, name, shownPhase>>
  /\ UNCHANGED <<operationVars, cleanupVars, rows, window, ops>>

\* DesktopApp.close: a busy worker is asked to cancel and then polled.
CloseWindow ==
  /\ window = "open"
  /\ UIFree
  /\ \/ Busy /\ RequestCancel /\ window' = "closing"
     \/ ~Busy /\ window' = "destroyed" /\ UNCHANGED workerVars
  /\ UNCHANGED <<operationVars, cleanupVars, screen, name, shownPhase, rows, ops>>

\* Variant: the window does not wait for the worker.
PollClose_Impatient ==
  /\ window = "closing"
  /\ UIFree
  /\ window' = "destroyed"
  /\ UNCHANGED <<workerVars, operationVars, cleanupVars, screen, name, shownPhase, rows, ops>>

PollClose ==
  /\ window = "closing"
  /\ UIFree
  /\ ~Busy
  /\ window' = "destroyed"
  /\ UNCHANGED <<workerVars, operationVars, cleanupVars, screen, name, shownPhase, rows, ops>>

-----------------------------------------------------------------------------
(* The operations, on the worker thread.  Program lists the calls of the   *)
(* token each makes, in order; "runtime" is the dispatch of the note that  *)
(* cleanup finishes and the creation of the runtime, "move" the engine's   *)
(* mutation.                                                               *)

Program ==
  [scan     |-> <<>>,
   review   |-> <<"checkpoint">>,
   recovery |-> <<"checkpoint">>,
   cleanup  |-> <<"checkpoint", "FINALIZING", "note", "runtime", "RECONCILING",
                  "AUTHORIZED_MUTATION", "move", "RECONCILING", "COMPLETE">>,
   undo     |-> <<"checkpoint", "checkpoint", "RECONCILING", "AUTHORIZED_MUTATION", "move">>]

Reconciles == 8  \* where cleanup continues after a blocked execution

Running(k) == thread = "operation" /\ handle = k
Remaining == step <= Len(Program[handle])
At(call) == thread = "operation" /\ Remaining /\ Program[handle][step] = call
Advance == step' = step + 1

TokenCall ==
  /\ \/ At("checkpoint") /\ Checkpoint
     \/ At("note") /\ Note
     \/ At("COMPLETE") /\ EnterTerminal("COMPLETE")
     \/ \E p \in Uninterruptible : At(p) /\ EnterPhase(p)
  /\ Advance
  /\ UNCHANGED <<moved, runtime>>

CreateRuntime ==
  /\ At("runtime")
  /\ runtime' = TRUE
  /\ Advance
  /\ UNCHANGED <<workerVars, moved>>

\* The engine moves a directory, or finds that it must not.
Move ==
  /\ At("move")
  /\ moved' \in {moved, TRUE}
  /\ Advance
  /\ UNCHANGED <<workerVars, runtime>>

\* execute_cleanup_session refuses, before or after its recovery context.
Blocked ==
  /\ At("RECONCILING") \/ At("AUTHORIZED_MUTATION")
  /\ Running("cleanup")
  /\ step < Reconciles
  /\ step' = Reconciles
  /\ UNCHANGED <<workerVars, moved, runtime>>

\* What an operation may return where it is: a scan stops early when it sees
\* the cancellation, an Undo refuses after it has reconciled, and only what was
\* moved is reported as executed or restored.
Outcome(v) ==
  \/ /\ Running("scan")
     /\ requested \/ v.state \in {"complete", "partial"}
     /\ v.state \in {"complete", "partial", "blocked"}
  \/ Running("review") /\ ~Remaining /\ v.state = "complete" /\ v.items \subseteq captured
  \/ Running("recovery") /\ ~Remaining /\ v.state \in {"settled", "unsettled"}
  \/ /\ Running("cleanup")
     /\ ~Remaining
     /\ v.state \in {"executed", "partial", "blocked", "unsettled"}
     /\ v.state \in {"executed", "partial"} => moved
  \/ Running("undo") /\ At("AUTHORIZED_MUTATION") /\ v.state = "blocked" /\ v.items = {}
  \/ /\ Running("undo")
     /\ ~Remaining
     /\ v.state = (IF moved THEN "executed" ELSE "blocked")
     /\ v.items = {}

Finish ==
  /\ \E v \in Results : Outcome(v) /\ Return(v)
  /\ UNCHANGED <<step, moved, runtime>>

\* An exception: what execute_cleanup_session and the reconciliation after it
\* raise is caught by them.
Fail ==
  /\ Running("cleanup") => step \in 2 .. 5
  /\ Running("review") \/ Running("recovery") \/ Running("undo") => step > 1
  /\ Raise
  /\ UNCHANGED <<step, moved, runtime>>

OperationStep ==
  /\ \/ TokenCall \/ CreateRuntime \/ Move \/ Blocked \/ Finish \/ Fail
     \/ (Start \/ Complete) /\ UNCHANGED <<step, moved, runtime>>
  /\ UNCHANGED <<captured, cleanupVars, screen, name, shownPhase, rows, window, ops>>

-----------------------------------------------------------------------------
(* The callbacks, on the UI thread. *)

\* _phase_changed.
PhaseChanged(p) ==
  /\ shownPhase' = p
  /\ screen' = IF p # "AUTHORIZED_MUTATION" THEN screen
               ELSE IF name = "undo" THEN "RECOVERY" ELSE "EXECUTING"
  /\ UNCHANGED <<cleanupVars, name, rows>>

Revalidating ==
  /\ screen' = "REVALIDATING"
  /\ UNCHANGED <<cleanupVars, name, shownPhase, rows>>

\* Variant: the phase is reset like the name.
Cancelled_NoPhase ==
  /\ screen' = "CANCELLED"
  /\ name' = None
  /\ shownPhase' = None
  /\ UNCHANGED <<cleanupVars, rows>>

Cancelled ==
  /\ screen' = "CANCELLED"
  /\ name' = None
  /\ shownPhase' = IF handle \in {"recovery", "undo"} THEN "CANCELLED" ELSE shownPhase
  /\ UNCHANGED <<cleanupVars, rows>>

Failed ==
  /\ screen' = CASE handle = "scan" -> "SCAN_FAILED"
                 [] handle \in {"review", "cleanup"} -> "ERROR"
                 [] OTHER -> "RECONCILIATION_REQUIRED"
  /\ name' = None
  /\ shownPhase' = IF handle = "cleanup" THEN "FAILED" ELSE shownPhase
  /\ rows' = IF handle = "recovery" THEN {} ELSE rows
  /\ UNCHANGED cleanupVars

ScanSucceeded ==
  /\ handle = "scan"
  /\ findings' = value.items
  /\ scanned' = TRUE
  /\ screen' = CASE value.state = "complete" -> "SCAN_COMPLETE"
                 [] value.state = "partial" -> "SCAN_PARTIAL"
                 [] OTHER -> "CANCELLED"
  /\ name' = None
  /\ UNCHANGED <<shownPhase, selected, session, review, rows>>

\* The plan is what the operation was submitted with, the review what is
\* selected now; an empty plan is an error.
ReviewSucceeded ==
  /\ handle = "review"
  /\ name' = None
  /\ IF value.items = {}
       THEN screen' = "ERROR" /\ UNCHANGED <<session, review, shownPhase>>
       ELSE /\ screen' = "REVIEWING"
            /\ session' = value.items
            /\ review' = selected \cap findings
            /\ shownPhase' = "IDLE"
  /\ UNCHANGED <<scanned, findings, selected, rows>>

CleanupSucceeded ==
  /\ handle = "cleanup"
  /\ screen' = CASE value.state = "executed" -> "CLEANUP_COMPLETE"
                 [] value.state = "partial" -> "PARTIAL_RESULT"
                 [] value.state = "unsettled" -> "RECONCILIATION_REQUIRED"
                 [] OTHER -> "ERROR"
  /\ rows' = value.items
  /\ name' = None
  /\ shownPhase' = "COMPLETE"
  /\ UNCHANGED cleanupVars

RecoverySucceeded ==
  /\ handle = "recovery"
  /\ screen' = IF value.state = "settled" THEN "RECOVERY" ELSE "RECONCILIATION_REQUIRED"
  /\ rows' = value.items
  /\ name' = None
  /\ UNCHANGED <<cleanupVars, shownPhase>>

\* The refresh it asks for is refused: finish() has not run, the worker is busy.
UndoSucceeded ==
  /\ handle = "undo"
  /\ screen' = IF value.state = "executed" THEN "RECOVERY" ELSE "RECONCILIATION_REQUIRED"
  /\ name' = None
  /\ shownPhase' = "COMPLETE"
  /\ UNCHANGED <<cleanupVars, rows>>

\* An exception in on_success goes to on_error; only the session may raise one.
Succeeded ==
  \/ ScanSucceeded \/ ReviewSucceeded \/ CleanupSucceeded \/ RecoverySucceeded \/ UndoSucceeded
  \/ handle = "review" /\ value.items # {} /\ Failed

RunCallback ==
  /\ Deliver
  /\ CASE Head(queue) \in WorkPhase -> PhaseChanged(Head(queue))
       [] Head(queue) \in {"on_started", "note"} -> Revalidating
       [] Head(queue) = "on_cancel" -> Cancelled
       [] Head(queue) = "on_error" -> Failed
       [] OTHER -> Succeeded
  /\ UNCHANGED <<operationVars, window, ops>>

FinishCancel ==
  /\ CancelFuture
  /\ UNCHANGED <<operationVars, cleanupVars, screen, name, shownPhase, rows, window, ops>>

-----------------------------------------------------------------------------

UserStep ==
  \/ StartScan \/ ClearSelection \/ BuildCleanupReview \/ ConfirmCleanup \/ WrongPhrase
  \/ RefreshRecovery \/ Cancel \/ CloseWindow
  \/ \E i \in Items : ToggleSelection(i) \/ Undo(i)

Next == UserStep \/ PollClose \/ FinishCancel \/ RunCallback \/ OperationStep

Spec == Init /\ [][Next]_vars

\* The operation and its callbacks end, Tk runs what was dispatched and the
\* timer of the poll; nothing is asked of the user.
FairSpec ==
  /\ Spec
  /\ WF_vars(OperationStep) /\ WF_vars(FinishCancel) /\ WF_vars(RunCallback) /\ WF_vars(PollClose)

-----------------------------------------------------------------------------
(* Properties. *)

TypeOK ==
  /\ WorkerTypeOK
  /\ step \in 1 .. 10
  /\ moved \in BOOLEAN
  /\ screen \in DesktopState
  /\ name \in Kinds \cup {None}
  /\ shownPhase \in WorkPhase \cup {"IDLE"}
  /\ scanned \in BOOLEAN
  /\ findings \subseteq Items
  /\ selected \subseteq Items
  /\ captured \subseteq Items
  /\ session # None => session \subseteq Items
  /\ review # None => review \subseteq Items
  /\ rows \subseteq Items
  /\ runtime \in BOOLEAN
  /\ window \in {"open", "closing", "destroyed"}
  /\ ops \in 0 .. MaxOps

\* A cancellation that was accepted, and one that is about to be reported, moves
\* no directory: neither a cleanup nor an Undo.
CancelledMovesNothing ==
  requested \/ (\E i \in 1 .. Len(queue) : queue[i] = "on_cancel") => ~moved

\* What the user sees is what the worker does: an operation is named exactly
\* while it occupies the worker, its states are shown for no other, and a free
\* worker leaves no phase of work behind, in whatever order the user clicked.
ScreenMatchesWork ==
  /\ name = handle
  /\ screen = "SCANNING" => handle = "scan"
  /\ screen \in {"REVALIDATING", "EXECUTING"} => handle = "cleanup"
  /\ ~Busy => shownPhase \in Terminal \cup {"IDLE"}

\* No mutation continues after the window has disappeared.
NothingOutlivesWindow == window = "destroyed" => thread = "idle" /\ ~Busy /\ queue = <<>>

\* Every operation comes to its answer and frees the worker.
OperationsEnd == Busy ~> ~Busy

\* A closing window is destroyed, once the user has stopped to start operations.
WindowCloses == window = "closing" ~> window = "destroyed"

\* "Exact cleanup review": what the plan of the session would move is shown.
ReviewShowsPlan == session # None => session \subseteq review
=============================================================================
