----------------------------- MODULE DesktopWorker -----------------------------
(***************************************************************************)
(* DesktopWorker (dwi/desktop/worker.py): one background operation at a    *)
(* time, a CancellationToken whose lock decides between a cancellation and *)
(* a phase that cannot be cancelled, and the callbacks that the worker     *)
(* thread hands to the UI thread.                                          *)
(*                                                                         *)
(* Two threads interleave.  The UI thread submits, cancels and runs the    *)
(* callbacks in the order of their dispatch (root.after(0, ...)); it       *)
(* requests a cancellation in two steps, the token first, then the future. *)
(* The worker thread runs the operation; what the operation is does not    *)
(* matter here: it may make any sequence of calls of its token.            *)
(***************************************************************************)
EXTENDS Naturals, Sequences

CONSTANTS
  Kinds,      \* the kinds of operation
  Announced,  \* those submitted with on_started
  Results,    \* what an operation may return
  None

ASSUME WorkerAssumption ==
  /\ Announced \subseteq Kinds
  /\ None \notin Kinds
  /\ None \notin Results

VARIABLES
  handle,     \* kind of the operation that occupies the worker
  requested,  \* token._event
  phase,      \* token._phase
  future,     \* PENDING until it is started or cancelled: later cancel() does nothing
  thread,     \* where the worker thread is
  value,      \* what the operation returned
  queue,      \* callbacks dispatched to the UI thread, a phase stands for on_phase
  cancelling  \* the UI thread is between request_cancel and future.cancel

workerVars == <<handle, requested, phase, future, thread, value, queue, cancelling>>
tokenVars == <<requested, phase>>

Uninterruptible == {"FINALIZING", "AUTHORIZED_MUTATION", "RECONCILING"}
Terminal == {"COMPLETE", "CANCELLED", "FAILED"}
WorkPhase == Uninterruptible \cup Terminal \cup {"CANCELLABLE"}
Answers == {"on_success", "on_error", "on_cancel"}
Callbacks == WorkPhase \cup Answers \cup {"on_started", "note"}

\* idle, in the operation, with its outcome not yet looked at (a value, a
\* WorkCancelled, another exception), or past the test in completed() that
\* found a value and no cancellation.
ThreadState == {"idle", "operation", "returned", "stopped", "raised", "succeeding"}

WorkerInit ==
  /\ handle = None
  /\ requested = FALSE
  /\ phase = "CANCELLABLE"
  /\ future = "NONE"
  /\ thread = "idle"
  /\ value = None
  /\ queue = <<>>
  /\ cancelling = FALSE

Busy == handle # None

-----------------------------------------------------------------------------
(* The UI thread. *)

UIFree == ~cancelling

Submit(k) ==
  /\ UIFree
  /\ ~Busy
  /\ handle' = k
  /\ requested' = FALSE
  /\ phase' = "CANCELLABLE"
  /\ future' = "PENDING"
  /\ value' = None
  /\ UNCHANGED <<thread, queue, cancelling>>

CancelAccepted == ~requested /\ phase = "CANCELLABLE"

\* token.request_cancel, with its rejections; what is left is future.cancel().
RequestCancel ==
  /\ UIFree
  /\ Busy
  /\ IF CancelAccepted
       THEN requested' = TRUE /\ cancelling' = TRUE
       ELSE UNCHANGED <<requested, cancelling>>
  /\ UNCHANGED <<handle, phase, future, thread, value, queue>>

\* Variant: the worker thread may still start the future.
CancelFuture_StillPending ==
  /\ cancelling
  /\ cancelling' = FALSE
  /\ IF future = "PENDING"
       THEN phase' = "CANCELLED" /\ queue' = queue \o <<"CANCELLED", "on_cancel">>
       ELSE UNCHANGED <<phase, queue>>
  /\ UNCHANGED <<handle, requested, future, thread, value>>

\* Variant: completed() is no done callback of a cancelled future.
CancelFuture_Silent ==
  /\ cancelling
  /\ cancelling' = FALSE
  /\ future' = IF future = "PENDING" THEN "CANCELLED" ELSE future
  /\ UNCHANGED <<handle, tokenVars, thread, value, queue>>

\* future.cancel(): a future that has not started is cancelled and its done
\* callback, completed(), runs at once in this thread.
CancelFuture ==
  /\ cancelling
  /\ cancelling' = FALSE
  /\ IF future = "PENDING"
       THEN /\ future' = "CANCELLED"
            /\ phase' = "CANCELLED"
            /\ queue' = queue \o <<"CANCELLED", "on_cancel">>
       ELSE UNCHANGED <<future, phase, queue>>
  /\ UNCHANGED <<handle, requested, thread, value>>

\* Variant: finish() only after on_success.
Deliver_NoFinally ==
  /\ UIFree
  /\ queue # <<>>
  /\ queue' = Tail(queue)
  /\ handle' = IF Head(queue) = "on_success" THEN None ELSE handle
  /\ UNCHANGED <<tokenVars, future, thread, value, cancelling>>

\* The next callback; an answer ends with finish().
Deliver ==
  /\ UIFree
  /\ queue # <<>>
  /\ queue' = Tail(queue)
  /\ handle' = IF Head(queue) \in Answers THEN None ELSE handle
  /\ UNCHANGED <<tokenVars, future, thread, value, cancelling>>

-----------------------------------------------------------------------------
(* The worker thread: run(), the calls of the operation, completed(). *)

\* The beginning of run().
Start ==
  /\ thread = "idle"
  /\ future = "PENDING"
  /\ future' = "STARTED"
  /\ thread' = IF requested THEN "stopped" ELSE "operation"
  /\ queue' = IF ~requested /\ handle \in Announced THEN Append(queue, "on_started") ELSE queue
  /\ UNCHANGED <<handle, tokenVars, value, cancelling>>

Checkpoint ==
  /\ thread = "operation"
  /\ thread' = IF requested /\ phase = "CANCELLABLE" THEN "stopped" ELSE thread
  /\ UNCHANGED <<handle, tokenVars, future, value, queue, cancelling>>

\* Variant: the phase is entered whether or not a cancellation was accepted.
EnterPhase_Unchecked(p) ==
  /\ thread = "operation"
  /\ phase' = p
  /\ queue' = Append(queue, p)
  /\ UNCHANGED <<handle, requested, future, thread, value, cancelling>>

EnterPhase(p) ==
  /\ thread = "operation"
  /\ IF requested
       THEN thread' = "stopped" /\ UNCHANGED <<phase, queue>>
       ELSE phase' = p /\ queue' = Append(queue, p) /\ UNCHANGED thread
  /\ UNCHANGED <<handle, requested, future, value, cancelling>>

\* token.terminal, called by the operation itself.
EnterTerminal(p) ==
  /\ thread = "operation"
  /\ phase' = p
  /\ queue' = Append(queue, p)
  /\ UNCHANGED <<handle, requested, future, thread, value, cancelling>>

\* A callback the operation dispatches on its own.
Note ==
  /\ thread = "operation"
  /\ queue' = Append(queue, "note")
  /\ UNCHANGED <<handle, tokenVars, future, thread, value, cancelling>>

Return(v) ==
  /\ thread = "operation"
  /\ thread' = "returned"
  /\ value' = v
  /\ UNCHANGED <<handle, tokenVars, future, queue, cancelling>>

Raise ==
  /\ thread = "operation"
  /\ thread' = "raised"
  /\ UNCHANGED <<handle, tokenVars, future, value, queue, cancelling>>

\* completed() has chosen its answer: token.terminal, then the dispatch.
Answer(p, callback) ==
  /\ phase' = p
  /\ queue' = queue \o <<p, callback>>
  /\ thread' = "idle"
  /\ UNCHANGED <<handle, requested, future, value, cancelling>>

AnswerStopped ==
  /\ thread = "stopped"
  /\ IF requested THEN Answer("CANCELLED", "on_cancel") ELSE Answer("FAILED", "on_error")

AnswerRaised == thread = "raised" /\ Answer("FAILED", "on_error")

\* A cancellation that was requested before this test replaces the value.
AnswerReturned ==
  /\ thread = "returned"
  /\ \/ requested /\ Answer("CANCELLED", "on_cancel")
     \/ /\ ~requested
        /\ thread' = "succeeding"
        /\ UNCHANGED <<handle, tokenVars, future, value, queue, cancelling>>

AnswerSucceeding == thread = "succeeding" /\ Answer("COMPLETE", "on_success")

Complete == AnswerStopped \/ AnswerRaised \/ AnswerReturned \/ AnswerSucceeding

-----------------------------------------------------------------------------

UIStep == (\E k \in Kinds : Submit(k)) \/ RequestCancel \/ CancelFuture \/ Deliver

ThreadStep ==
  \/ Start \/ Checkpoint \/ Note \/ Raise \/ Complete
  \/ \E p \in Uninterruptible : EnterPhase(p)
  \/ EnterTerminal("COMPLETE")
  \/ \E v \in Results : Return(v)

WorkerNext == UIStep \/ ThreadStep
WorkerSpec == WorkerInit /\ [][WorkerNext]_workerVars

-----------------------------------------------------------------------------
(* Properties of the worker, whatever its operations do. *)

WorkerTypeOK ==
  /\ handle \in Kinds \cup {None}
  /\ requested \in BOOLEAN
  /\ phase \in WorkPhase
  /\ future \in {"NONE", "PENDING", "STARTED", "CANCELLED"}
  /\ thread \in ThreadState
  /\ value \in Results \cup {None}
  /\ queue \in Seq(Callbacks)
  /\ cancelling \in BOOLEAN

\* A cancellation that was accepted keeps the operation out of every phase that
\* cannot be cancelled: request_cancel and enter_phase decide under one lock,
\* and after either the other is refused.
CancelKeepsOut == requested => phase \notin Uninterruptible

Answered == queue # <<>> /\ queue[Len(queue)] \in Answers
AtWork == future = "PENDING" \/ thread # "idle"

\* The worker is busy exactly while an operation is at work or its one answer
\* waits for the UI thread, and no callback follows an answer: whoever finds
\* the worker free finds no thread at work, and no callback of an old operation
\* can reach the next one.
BusyUntilAnswered ==
  /\ Busy <=> AtWork \/ Answered
  /\ ~(AtWork /\ Answered)
  /\ ~Busy => queue = <<>>
  /\ \A i \in 1 .. Len(queue) : queue[i] \in Answers => i = Len(queue)

\* What test_worker_accepted_cancel_never_calls_success says of the worker.
AcceptedCancelNeverSucceeds ==
  \A i \in 1 .. Len(queue) : queue[i] = "on_success" => ~requested
=============================================================================
