---------------------------- MODULE DesktopProofs ----------------------------
(***************************************************************************)
(* What TLAPS proves of DesktopWorker and DesktopController, for all Items *)
(* and any number of operations.  First the callback queue, then an        *)
(* invariant of the worker that every call of it preserves, whoever makes  *)
(* it, then the controller: each of its steps is a step of the worker or   *)
(* leaves the worker alone.  Last, what the window shows.                  *)
(***************************************************************************)
EXTENDS DesktopController, SequenceTheorems, TLAPS

-----------------------------------------------------------------------------
(* The queue. *)

AnswerIsLast(q) == \A i \in 1 .. Len(q) : q[i] \in Answers => i = Len(q)
EndsInAnswer(q) == q # <<>> /\ q[Len(q)] \in Answers

\* Every callback that is not an answer leaves an unanswered queue unanswered.
LEMMA AppendedCall ==
  ASSUME NEW q \in Seq(Callbacks), AnswerIsLast(q), ~EndsInAnswer(q),
         NEW c \in Callbacks, c \notin Answers
  PROVE  /\ Append(q, c) \in Seq(Callbacks)
         /\ AnswerIsLast(Append(q, c))
         /\ ~EndsInAnswer(Append(q, c))
<1>1. \A i \in 1 .. Len(q) : q[i] \notin Answers
  BY DEF AnswerIsLast, EndsInAnswer
<1>2. Append(q, c) \in Seq(Callbacks) /\ Len(Append(q, c)) = Len(q) + 1
  OBVIOUS
<1>3. \A i \in 1 .. Len(q) + 1 : Append(q, c)[i] \notin Answers
  BY <1>1
<1>. QED  BY <1>2, <1>3 DEF AnswerIsLast, EndsInAnswer

\* The phase and the answer that completed() dispatches end an unanswered queue.
LEMMA AppendedAnswer ==
  ASSUME NEW q \in Seq(Callbacks), AnswerIsLast(q), ~EndsInAnswer(q),
         NEW p \in Terminal, NEW c \in Answers
  PROVE  /\ q \o <<p, c>> \in Seq(Callbacks)
         /\ AnswerIsLast(q \o <<p, c>>)
         /\ EndsInAnswer(q \o <<p, c>>)
<1>1. \A i \in 1 .. Len(q) : q[i] \notin Answers
  BY DEF AnswerIsLast, EndsInAnswer
<1>2. p \notin Answers
  BY DEF Terminal, Answers
<1>3. <<p, c>> \in Seq(Callbacks) /\ Len(<<p, c>>) = 2
  BY DEF Callbacks, WorkPhase
<1>4. /\ q \o <<p, c>> \in Seq(Callbacks)
      /\ Len(q \o <<p, c>>) = Len(q) + 2
      /\ \A i \in 1 .. Len(q) : (q \o <<p, c>>)[i] = q[i]
      /\ (q \o <<p, c>>)[Len(q) + 1] = p
      /\ (q \o <<p, c>>)[Len(q) + 2] = c
  BY <1>3
<1>. QED  BY <1>1, <1>2, <1>4 DEF AnswerIsLast, EndsInAnswer

\* Running the first callback keeps the answer last; if it was the answer,
\* nothing is left, and otherwise the answer is still where it was.
LEMMA TailCall ==
  ASSUME NEW q \in Seq(Callbacks), q # <<>>, AnswerIsLast(q)
  PROVE  /\ Head(q) \in Callbacks
         /\ Tail(q) \in Seq(Callbacks)
         /\ AnswerIsLast(Tail(q))
         /\ Head(q) \in Answers => Tail(q) = <<>>
         /\ Head(q) \notin Answers => (EndsInAnswer(Tail(q)) <=> EndsInAnswer(q))
<1>0. PICK n \in Nat \ {0} : n = Len(q)
  BY EmptySeq
<1>1. Len(q) \in Nat /\ Len(q) > 0 /\ Head(q) = q[1] /\ q[1] \in Callbacks
  BY <1>0
<1>2. Tail(q) \in Seq(Callbacks) /\ Len(Tail(q)) = Len(q) - 1
  BY <1>1
<1>3. \A i \in 1 .. Len(q) - 1 : Tail(q)[i] = q[i + 1]
  BY <1>1
<1>4. ASSUME NEW i \in 1 .. Len(Tail(q)), Tail(q)[i] \in Answers
      PROVE  i = Len(Tail(q))
  <2>1. i + 1 \in 1 .. Len(q) /\ q[i + 1] \in Answers
    BY <1>1, <1>2, <1>3, <1>4
  <2>2. i + 1 = Len(q)
    BY <2>1 DEF AnswerIsLast
  <2>. QED  BY <1>0, <1>2, <1>4, <2>2
<1>5. Len(Tail(q)) = 0 <=> Tail(q) = <<>>
  BY <1>2, EmptySeq
<1>6. ASSUME Head(q) \in Answers
      PROVE  Len(q) = 1
  <2>1. 1 \in 1 .. Len(q) /\ q[1] \in Answers
    BY <1>1, <1>6
  <2>. QED  BY <2>1 DEF AnswerIsLast
<1>7. ASSUME Head(q) \notin Answers
      PROVE  EndsInAnswer(Tail(q)) <=> EndsInAnswer(q)
  <2>1. CASE Len(q) = 1
    BY <1>1, <1>2, <1>5, <1>7, <2>1 DEF EndsInAnswer
  <2>2. CASE Len(q) > 1
    <3>1. Tail(q)[Len(Tail(q))] = q[Len(q)]
      BY <1>1, <1>2, <1>3, <2>2
    <3>2. Tail(q) # <<>>
      BY <1>1, <1>2, <1>5, <2>2
    <3>. QED  BY <3>1, <3>2 DEF EndsInAnswer
  <2>3. Len(q) = 1 \/ Len(q) > 1
    BY <1>0
  <2>. QED  BY <2>1, <2>2, <2>3
<1>8. Len(q) = 1 => Tail(q) = <<>>
  BY <1>1, <1>2, <1>5
<1>9. AnswerIsLast(Tail(q))
  BY <1>4 DEF AnswerIsLast
<1>. QED  BY <1>1, <1>2, <1>6, <1>7, <1>8, <1>9

-----------------------------------------------------------------------------
(* The worker. *)

\* A cancellation that waits for its future was accepted, an operation at work
\* has started, and what is delivered as a success was returned.
WorkerInv ==
  /\ WorkerTypeOK
  /\ CancelKeepsOut
  /\ Busy <=> AtWork \/ EndsInAnswer(queue)
  /\ ~(AtWork /\ EndsInAnswer(queue))
  /\ ~Busy => queue = <<>>
  /\ AnswerIsLast(queue)
  /\ cancelling => requested
  /\ thread # "idle" => future = "STARTED"
  /\ thread \in {"returned", "succeeding"} => value \in Results
  /\ \A i \in 1 .. Len(queue) : queue[i] = "on_success" => value \in Results
  /\ \A i \in 1 .. Len(queue) : queue[i] = "on_cancel" => requested

LEMMA WorkerInitKeeps == WorkerInit => WorkerInv
<1>. SUFFICES ASSUME WorkerInit PROVE WorkerInv
  OBVIOUS
<1>1. Len(queue) = 0 /\ queue \in Seq(Callbacks) /\ queue = <<>>
  BY DEF WorkerInit
<1>2. WorkerTypeOK
  BY <1>1 DEF WorkerInit, WorkerTypeOK, WorkPhase, ThreadState
<1>. QED
  BY <1>1, <1>2
  DEF WorkerInit, WorkerInv, CancelKeepsOut, Busy, AtWork, EndsInAnswer, AnswerIsLast

LEMMA WorkerStutter == WorkerInv /\ UNCHANGED workerVars => WorkerInv'
BY DEF workerVars, WorkerInv, WorkerTypeOK, CancelKeepsOut, Busy, AtWork, EndsInAnswer, AnswerIsLast

LEMMA SubmitKeeps ==
  ASSUME WorkerInv, NEW k \in Kinds, Submit(k)
  PROVE  WorkerInv'
<1>1. queue = <<>> /\ queue' = <<>> /\ thread = "idle" /\ thread' = "idle"
  BY DEF WorkerInv, Submit, AtWork, WorkerTypeOK
<1>2. WorkerTypeOK'
  BY <1>1 DEF WorkerInv, WorkerTypeOK, Submit, WorkPhase
<1>3. CancelKeepsOut' /\ Busy' /\ AtWork' /\ ~EndsInAnswer(queue)' /\ AnswerIsLast(queue)'
  BY <1>1, WorkerAssumption DEF CancelKeepsOut, Busy, AtWork, EndsInAnswer, AnswerIsLast, Submit
<1>. QED  BY <1>1, <1>2, <1>3 DEF WorkerInv, Submit, UIFree

LEMMA RequestCancelKeeps ==
  ASSUME WorkerInv, RequestCancel
  PROVE  WorkerInv'
<1>1. CASE CancelAccepted
  <2>1. phase' = "CANCELLABLE" /\ requested' = TRUE
    BY <1>1 DEF RequestCancel, CancelAccepted
  <2>2. CancelKeepsOut'
    BY <2>1 DEF CancelKeepsOut, Uninterruptible
  <2>. QED
    BY <1>1, <2>1, <2>2 DEF RequestCancel, WorkerInv, WorkerTypeOK, Busy, AtWork, EndsInAnswer, AnswerIsLast
<1>2. CASE ~CancelAccepted
  BY <1>2, WorkerStutter DEF RequestCancel, workerVars
<1>. QED  BY <1>1, <1>2

\* Where an answer is dispatched, in either thread.
LEMMA AnswerKeeps ==
  ASSUME WorkerInv, AtWork, Busy,
         NEW p \in Terminal, NEW c \in Answers,
         c = "on_success" => value \in Results,
         c = "on_cancel" => requested,
         phase' = p, queue' = queue \o <<p, c>>,
         UNCHANGED <<handle, requested, value>>,
         thread' = "idle", future' # "PENDING", WorkerTypeOK',
         cancelling' => requested'
  PROVE  WorkerInv'
<1>1. /\ queue \in Seq(Callbacks) /\ AnswerIsLast(queue) /\ ~EndsInAnswer(queue)
  BY DEF WorkerInv, WorkerTypeOK
<1>2. queue' \in Seq(Callbacks) /\ AnswerIsLast(queue)' /\ EndsInAnswer(queue)'
  BY <1>1, AppendedAnswer DEF AnswerIsLast, EndsInAnswer
<1>3. ~AtWork' /\ Busy' /\ CancelKeepsOut'
  BY DEF AtWork, Busy, CancelKeepsOut, Terminal, Uninterruptible
<1>4. \A i \in 1 .. Len(queue') : queue'[i] \in Answers => queue'[i] = c
  BY <1>1, <1>2 DEF AnswerIsLast
<1>. QED  BY <1>2, <1>3, <1>4 DEF WorkerInv, Answers

LEMMA CancelFutureKeeps ==
  ASSUME WorkerInv, CancelFuture
  PROVE  WorkerInv'
<1>1. CASE future = "PENDING"
  <2>1. /\ thread = "idle" /\ thread' = "idle" /\ AtWork /\ Busy
        /\ requested /\ requested' /\ cancelling' = FALSE
        /\ phase' = "CANCELLED" /\ future' = "CANCELLED"
        /\ queue' = queue \o <<"CANCELLED", "on_cancel">>
        /\ UNCHANGED <<handle, requested, value>>
    BY <1>1 DEF WorkerInv, WorkerTypeOK, CancelFuture, AtWork
  <2>2. queue' \in Seq(Callbacks)
    BY <2>1, AppendedAnswer DEF WorkerInv, WorkerTypeOK, Terminal, Answers
  <2>3. WorkerTypeOK'
    BY <2>1, <2>2 DEF WorkerInv, WorkerTypeOK, WorkPhase, Terminal, ThreadState
  <2>. QED  BY <2>1, <2>3, AnswerKeeps DEF Terminal, Answers
<1>2. CASE future # "PENDING"
  BY <1>2 DEF CancelFuture, WorkerInv, WorkerTypeOK, CancelKeepsOut, Busy, AtWork, EndsInAnswer,
              AnswerIsLast
<1>. QED  BY <1>1, <1>2

\* A step of the thread that dispatches nothing, or one callback that is no
\* answer, while the operation goes on or comes to its outcome.
LEMMA WorkKeeps ==
  ASSUME WorkerInv, AtWork,
         UNCHANGED <<handle, requested, cancelling>>,
         phase' \in WorkPhase, phase' \in Uninterruptible => ~requested,
         future' = "STARTED", thread' \in ThreadState, thread' # "idle",
         value' \in Results \cup {None},
         thread' \in {"returned", "succeeding"} => value' \in Results,
         queue' = queue \/ (\E c \in Callbacks \ Answers : queue' = Append(queue, c))
  PROVE  WorkerInv'
<1>1. /\ queue \in Seq(Callbacks) /\ AnswerIsLast(queue) /\ ~EndsInAnswer(queue) /\ Busy
  BY DEF WorkerInv, WorkerTypeOK
<1>2. queue' \in Seq(Callbacks) /\ AnswerIsLast(queue') /\ ~EndsInAnswer(queue')
  BY <1>1, AppendedCall
<1>3. \A i \in 1 .. Len(queue') : queue'[i] \notin Answers
  BY <1>2 DEF AnswerIsLast, EndsInAnswer
<1>4. AtWork' /\ Busy' /\ CancelKeepsOut' /\ AnswerIsLast(queue)' /\ ~EndsInAnswer(queue)'
  BY <1>1, <1>2 DEF AtWork, Busy, CancelKeepsOut, WorkerInv, AnswerIsLast, EndsInAnswer
<1>. QED
  BY <1>2, <1>3, <1>4 DEF WorkerInv, WorkerTypeOK, Answers

LEMMA DeliverKeeps ==
  ASSUME WorkerInv, Deliver
  PROVE  /\ WorkerInv'
         /\ Head(queue) \in Callbacks
         /\ Head(queue) = "on_success" => value \in Results
         /\ Head(queue) \in Answers => queue' = <<>> /\ handle' = None
         /\ Head(queue) \notin Answers => handle' = handle
<1>1. /\ queue \in Seq(Callbacks) /\ queue # <<>> /\ AnswerIsLast(queue)
      /\ queue' = Tail(queue) /\ Busy
      /\ handle' = IF Head(queue) \in Answers THEN None ELSE handle
      /\ UNCHANGED <<requested, phase, future, thread, value, cancelling>>
  BY DEF Deliver, tokenVars, WorkerInv, WorkerTypeOK
<1>2. /\ Head(queue) \in Callbacks
      /\ queue' \in Seq(Callbacks)
      /\ AnswerIsLast(queue')
      /\ Head(queue) \in Answers => queue' = <<>>
      /\ Head(queue) \notin Answers => (EndsInAnswer(queue') <=> EndsInAnswer(queue))
  BY <1>1, TailCall
<1>3. PICK n \in Nat \ {0} : n = Len(queue)
  BY <1>1, EmptySeq
<1>4. /\ Head(queue) = queue[1]
      /\ Len(queue') = Len(queue) - 1
      /\ \A i \in 1 .. Len(queue') : queue'[i] = queue[i + 1] /\ i + 1 \in 1 .. Len(queue)
  BY <1>1, <1>3
<1>5. /\ \A i \in 1 .. Len(queue') : queue'[i] = "on_success" => value \in Results
      /\ \A i \in 1 .. Len(queue') : queue'[i] = "on_cancel" => requested
  BY <1>4 DEF WorkerInv
<1>6. Head(queue) = "on_success" => value \in Results
  BY <1>3, <1>4 DEF WorkerInv
<1>7. WorkerTypeOK' /\ CancelKeepsOut' /\ AnswerIsLast(queue)'
  BY <1>1, <1>2 DEF WorkerInv, WorkerTypeOK, CancelKeepsOut, AnswerIsLast
<1>8. CASE Head(queue) \in Answers
  <2>1. EndsInAnswer(queue)
    BY <1>1, <1>2, <1>3, <1>4, <1>8 DEF AnswerIsLast, EndsInAnswer
  <2>2. ~AtWork' /\ ~EndsInAnswer(queue)' /\ ~Busy' /\ queue' = <<>>
    BY <1>1, <1>2, <1>8, <2>1 DEF WorkerInv, AtWork, EndsInAnswer, Busy
  <2>. QED
    BY <1>1, <1>2, <1>5, <1>6, <1>7, <1>8, <2>2 DEF WorkerInv
<1>9. CASE Head(queue) \notin Answers
  <2>1. (AtWork' <=> AtWork) /\ (EndsInAnswer(queue)' <=> EndsInAnswer(queue)) /\ Busy'
    BY <1>1, <1>2, <1>9 DEF AtWork, EndsInAnswer, Busy
  <2>. QED
    BY <1>1, <1>2, <1>5, <1>6, <1>7, <1>9, <2>1 DEF WorkerInv
<1>. QED  BY <1>8, <1>9

\* The calls of the operation that may stop it or go on.
CallStep ==
  \/ Start \/ Checkpoint \/ Note \/ Raise
  \/ \E p \in Uninterruptible : EnterPhase(p)
  \/ EnterTerminal("COMPLETE")
  \/ \E v \in Results : Return(v)

LEMMA CallKeeps ==
  ASSUME WorkerInv, CallStep
  PROVE  WorkerInv'
<1>1. /\ AtWork /\ queue \in Seq(Callbacks) /\ phase \in WorkPhase /\ thread \in ThreadState
      /\ value \in Results \cup {None}
      /\ thread # "idle" => future = "STARTED"
      /\ phase \in Uninterruptible => ~requested
  BY DEF CallStep, Start, Checkpoint, Note, Raise, EnterPhase, EnterTerminal, Return, AtWork,
         WorkerInv, WorkerTypeOK, CancelKeepsOut
<1>2. CASE Start
  <2>1. "on_started" \in Callbacks \ Answers
    BY DEF Callbacks, Answers
  <2>. QED  BY <1>1, <1>2, <2>1, WorkKeeps DEF Start, tokenVars, ThreadState
<1>3. CASE Checkpoint
  BY <1>1, <1>3, WorkKeeps DEF Checkpoint, tokenVars, ThreadState
<1>4. CASE Note
  <2>1. "note" \in Callbacks \ Answers
    BY DEF Callbacks, Answers
  <2>. QED  BY <1>1, <1>4, <2>1, WorkKeeps DEF Note, tokenVars, ThreadState
<1>5. CASE Raise
  BY <1>1, <1>5, WorkKeeps DEF Raise, tokenVars, ThreadState
<1>6. ASSUME NEW p \in Uninterruptible, EnterPhase(p)
      PROVE  WorkerInv'
  <2>1. p \in Callbacks \ Answers /\ p \in WorkPhase
    BY DEF Callbacks, Answers, WorkPhase, Uninterruptible
  <2>2. CASE requested
    BY <1>1, <1>6, <2>2, WorkKeeps DEF EnterPhase, ThreadState
  <2>3. CASE ~requested
    BY <1>1, <1>6, <2>1, <2>3, WorkKeeps DEF EnterPhase, ThreadState
  <2>. QED  BY <2>2, <2>3
<1>7. CASE EnterTerminal("COMPLETE")
  <2>1. "COMPLETE" \in Callbacks \ Answers /\ "COMPLETE" \in WorkPhase \ Uninterruptible
    BY DEF Callbacks, Answers, WorkPhase, Terminal, Uninterruptible
  <2>. QED  BY <1>1, <1>7, <2>1, WorkKeeps DEF EnterTerminal, ThreadState
<1>8. ASSUME NEW v \in Results, Return(v)
      PROVE  WorkerInv'
  BY <1>1, <1>8, WorkKeeps DEF Return, tokenVars, ThreadState
<1>. QED  BY <1>2, <1>3, <1>4, <1>5, <1>6, <1>7, <1>8 DEF CallStep

LEMMA CompleteKeeps ==
  ASSUME WorkerInv, Complete
  PROVE  WorkerInv'
<1>1. /\ thread # "idle" /\ AtWork /\ Busy /\ future = "STARTED"
      /\ thread \in {"returned", "succeeding"} => value \in Results
      /\ cancelling => requested
  BY DEF Complete, AnswerStopped, AnswerRaised, AnswerReturned, AnswerSucceeding, AtWork, WorkerInv
<1>2. ASSUME NEW p \in Terminal, NEW c \in Answers, Answer(p, c),
             c = "on_success" => value \in Results, c = "on_cancel" => requested
      PROVE  WorkerInv'
  <2>1. queue' \in Seq(Callbacks)
    BY <1>1, <1>2, AppendedAnswer DEF Answer, WorkerInv, WorkerTypeOK
  <2>2. WorkerTypeOK'
    BY <1>1, <1>2, <2>1 DEF Answer, WorkerInv, WorkerTypeOK, WorkPhase, ThreadState
  <2>. QED  BY <1>1, <1>2, <2>2, AnswerKeeps DEF Answer
<1>3. "on_success" \in Answers /\ "on_cancel" \in Answers /\ "on_error" \in Answers
  BY DEF Answers
<1>4. "COMPLETE" \in Terminal /\ "CANCELLED" \in Terminal /\ "FAILED" \in Terminal
  BY DEF Terminal
<1>5. CASE AnswerStopped
  BY <1>2, <1>3, <1>4, <1>5 DEF AnswerStopped
<1>6. CASE AnswerRaised
  BY <1>2, <1>3, <1>4, <1>6 DEF AnswerRaised
<1>7. CASE AnswerReturned
  <2>1. CASE requested
    BY <1>2, <1>3, <1>4, <1>7, <2>1 DEF AnswerReturned
  <2>2. CASE ~requested
    <3>1. /\ thread = "returned" /\ thread' = "succeeding"
          /\ UNCHANGED <<handle, requested, phase, future, value, queue, cancelling>>
      BY <1>7, <2>2 DEF AnswerReturned, tokenVars
    <3>2. /\ phase' \in WorkPhase
          /\ phase' \in Uninterruptible => ~requested
          /\ value' \in Results \cup {None} /\ thread' \in ThreadState
      BY <2>2, <3>1 DEF WorkerInv, WorkerTypeOK, ThreadState
    <3>. QED  BY <1>1, <3>1, <3>2, WorkKeeps
  <2>. QED  BY <2>1, <2>2
<1>8. CASE AnswerSucceeding
  BY <1>1, <1>2, <1>3, <1>4, <1>8 DEF AnswerSucceeding
<1>. QED  BY <1>5, <1>6, <1>7, <1>8 DEF Complete

LEMMA WorkerNextKeeps == WorkerInv /\ [WorkerNext]_workerVars => WorkerInv'
<1>1. ASSUME WorkerInv, UIStep PROVE WorkerInv'
  BY <1>1, SubmitKeeps, RequestCancelKeeps, CancelFutureKeeps, DeliverKeeps DEF UIStep
<1>2. ASSUME WorkerInv, ThreadStep PROVE WorkerInv'
  BY <1>2, CallKeeps, CompleteKeeps DEF ThreadStep, CallStep
<1>. QED  BY <1>1, <1>2, WorkerStutter DEF WorkerNext

\* Whatever operations do with their token, a cancellation that was accepted
\* keeps them out of every phase that cannot be cancelled.
THEOREM AcceptedCancelKeepsOut == WorkerSpec => []CancelKeepsOut
<1>1. WorkerInv => CancelKeepsOut
  BY DEF WorkerInv
<1>. QED  BY <1>1, WorkerInitKeeps, WorkerNextKeeps, PTL DEF WorkerSpec

-----------------------------------------------------------------------------
(* The controller makes only steps of the worker. *)

LEMMA UserStepIsWorkerStep == UserStep => WorkerNext \/ UNCHANGED workerVars
<1>1. ASSUME NEW k \in Kinds, NEW shown, Begin(k, shown)
      PROVE  WorkerNext
  BY <1>1 DEF Begin, WorkerNext, UIStep
<1>2. StartScan \/ BuildCleanupReview \/ ConfirmCleanup => WorkerNext
  BY <1>1, ControllerAssumption DEF StartScan, BuildCleanupReview, ConfirmCleanup
<1>3. RefreshRecovery => WorkerNext \/ UNCHANGED workerVars
  BY <1>1, ControllerAssumption DEF RefreshRecovery
<1>4. \A i \in Items : Undo(i) => WorkerNext \/ UNCHANGED workerVars
  BY <1>1, ControllerAssumption DEF Undo
<1>5. Cancel \/ CloseWindow => WorkerNext \/ UNCHANGED workerVars
  BY DEF Cancel, CancelWaiting, CloseWindow, WorkerNext, UIStep
<1>6. ClearSelection \/ WrongPhrase \/ (\E i \in Items : ToggleSelection(i)) => UNCHANGED workerVars
  BY DEF ClearSelection, WrongPhrase, ToggleSelection
<1>. QED  BY <1>2, <1>3, <1>4, <1>5, <1>6 DEF UserStep

LEMMA NextIsWorkerStep == [Next]_vars => [WorkerNext]_workerVars
<1>1. OperationStep => WorkerNext \/ UNCHANGED workerVars
  BY DEF OperationStep, TokenCall, CreateRuntime, Move, Blocked, Finish, Fail, WorkerNext, ThreadStep
<1>2. PollClose \/ FinishCancel \/ RunCallback => WorkerNext \/ UNCHANGED workerVars
  BY DEF PollClose, FinishCancel, RunCallback, WorkerNext, UIStep
<1>. QED  BY <1>1, <1>2, UserStepIsWorkerStep DEF Next, vars

\* The controller and its operations use the worker as its specification says.
THEOREM UsesWorker == Spec => WorkerSpec
<1>1. Init => WorkerInit
  BY DEF Init
<1>. QED  BY <1>1, NextIsWorkerStep, PTL DEF Spec, WorkerSpec

\* BusyUntilAnswered: whoever finds the worker free finds no thread at work and
\* no callback of an old operation, for all Items and any number of operations.
THEOREM AlwaysBusyUntilAnswered == Spec => []BusyUntilAnswered
<1>1. WorkerInv => BusyUntilAnswered
  BY DEF WorkerInv, BusyUntilAnswered, AnswerIsLast, EndsInAnswer, Answered
<1>. QED
  BY <1>1, UsesWorker, WorkerInitKeeps, WorkerNextKeeps, PTL DEF WorkerSpec

-----------------------------------------------------------------------------
(* A cancelled operation moves nothing, and none outlives the window. *)

\* A cleanup past FINALIZING and an Undo past RECONCILING can no longer be
\* cancelled; both come before the move.
PastCancel ==
  /\ thread = "operation"
  /\ \/ handle = "cleanup" /\ step > 2
     \/ handle = "undo" /\ step > 3

OutOfCancel == ~requested /\ phase # "CANCELLABLE"

DesktopInv ==
  /\ step \in Nat \ {0}
  /\ moved \in BOOLEAN
  /\ future = "PENDING" => step = 1
  /\ PastCancel => OutOfCancel
  /\ moved => OutOfCancel
  /\ window = "destroyed" => ~Busy

LEMMA Programs ==
  ASSUME NEW s \in Nat \ {0}
  PROVE  /\ s <= Len(Program["cleanup"]) /\ s <= 2 => Program["cleanup"][s] \in {"checkpoint", "FINALIZING"}
         /\ Program["cleanup"][2] = "FINALIZING"
         /\ s <= Len(Program["undo"]) /\ s <= 3 => Program["undo"][s] \in {"checkpoint", "RECONCILING"}
         /\ Program["undo"][3] = "RECONCILING"
         /\ s <= Len(Program["review"]) => Program["review"][s] = "checkpoint"
         /\ s <= Len(Program["recovery"]) => Program["recovery"][s] = "checkpoint"
         /\ ~(s <= Len(Program["scan"]))
<1>1. s <= 3 => s = 1 \/ s = 2 \/ s = 3
  OBVIOUS
<1>2. s <= 2 => s = 1 \/ s = 2
  OBVIOUS
<1>3. s <= 1 => s = 1
  OBVIOUS
<1>4. /\ Program["cleanup"][1] = "checkpoint" /\ Program["cleanup"][2] = "FINALIZING"
      /\ Program["undo"][1] = "checkpoint" /\ Program["undo"][2] = "checkpoint"
      /\ Program["undo"][3] = "RECONCILING"
      /\ Program["review"] = <<"checkpoint">> /\ Program["recovery"] = <<"checkpoint">>
      /\ Program["scan"] = <<>>
  BY DEF Program
<1>. QED  BY <1>1, <1>2, <1>3, <1>4

\* The engine moves directories only past the point of no cancellation.
LEMMA MoveIsLate ==
  ASSUME WorkerInv, DesktopInv, At("move") \/ Blocked
  PROVE  PastCancel
<1>1. thread = "operation" /\ handle \in Kinds /\ step \in Nat \ {0}
  BY WorkerAssumption DEF At, Blocked, WorkerInv, WorkerTypeOK, DesktopInv, Busy, AtWork
<1>2. /\ step <= Len(Program[handle])
      /\ Program[handle][step] \in {"move", "RECONCILING", "AUTHORIZED_MUTATION"}
      /\ Blocked => handle = "cleanup"
      /\ ~Blocked => Program[handle][step] = "move"
  BY DEF At, Blocked, Remaining, Running
<1>3. handle \in {"cleanup", "undo"}
  BY <1>1, <1>2, Programs, ControllerAssumption
<1>. QED  BY <1>1, <1>2, <1>3, Programs DEF PastCancel

LEMMA UserKeeps ==
  ASSUME WorkerInv, DesktopInv, UserStep
  PROVE  DesktopInv'
<1>1. ASSUME NEW k \in Kinds, NEW shown, Begin(k, shown)
      PROVE  DesktopInv'
  <2>1. /\ thread' = "idle" /\ step' = 1 /\ moved' = FALSE /\ window' # "destroyed"
    BY <1>1 DEF Begin, Window, Submit, WorkerInv, AtWork
  <2>2. moved' \in BOOLEAN /\ ~moved'
    BY <2>1
  <2>. QED  BY <2>1, <2>2 DEF DesktopInv, PastCancel
<1>2. ASSUME UNCHANGED <<workerVars, operationVars, window>>
      PROVE  DesktopInv'
  BY <1>2 DEF workerVars, operationVars, DesktopInv, PastCancel, OutOfCancel, Busy
<1>3. ASSUME RequestCancel, UNCHANGED operationVars, window' \in {window, "closing"}
      PROVE  DesktopInv'
  BY <1>3 DEF RequestCancel, CancelAccepted, operationVars, DesktopInv, PastCancel, OutOfCancel, Busy
<1>4. CASE StartScan \/ BuildCleanupReview \/ ConfirmCleanup
  BY <1>1, <1>4, ControllerAssumption DEF StartScan, BuildCleanupReview, ConfirmCleanup
<1>5. CASE RefreshRecovery
  BY <1>1, <1>2, <1>5, ControllerAssumption DEF RefreshRecovery
<1>6. ASSUME NEW i \in Items, Undo(i)
      PROVE  DesktopInv'
  BY <1>1, <1>2, <1>6, ControllerAssumption DEF Undo
<1>7. CASE Cancel
  BY <1>2, <1>3, <1>7 DEF Cancel, CancelWaiting
<1>8. CASE CloseWindow
  <2>1. CASE Busy
    BY <1>3, <1>8, <2>1 DEF CloseWindow
  <2>2. CASE ~Busy
    BY <1>8, <2>2 DEF CloseWindow, workerVars, operationVars, DesktopInv, PastCancel, OutOfCancel, Busy
  <2>. QED  BY <2>1, <2>2
<1>9. CASE ClearSelection \/ WrongPhrase \/ \E i \in Items : ToggleSelection(i)
  BY <1>2, <1>9 DEF ClearSelection, WrongPhrase, ToggleSelection
<1>. QED  BY <1>4, <1>5, <1>6, <1>7, <1>8, <1>9 DEF UserStep

LEMMA CallbackKeeps ==
  ASSUME WorkerInv, DesktopInv, PollClose \/ FinishCancel \/ RunCallback
  PROVE  DesktopInv'
<1>1. CASE PollClose
  BY <1>1 DEF PollClose, workerVars, operationVars, DesktopInv, PastCancel, OutOfCancel, Busy
<1>2. CASE FinishCancel
  BY <1>2 DEF FinishCancel, CancelFuture, operationVars, DesktopInv, PastCancel, OutOfCancel, Busy
<1>3. CASE RunCallback
  <2>1. Deliver /\ UNCHANGED <<operationVars, window>> /\ Busy
    BY <1>3 DEF RunCallback, Deliver, WorkerInv
  <2>2. handle' = handle \/ handle' = None
    BY <2>1 DEF Deliver
  <2>3. PastCancel' => PastCancel
    BY <2>1, <2>2, ControllerAssumption, WorkerAssumption
    DEF Deliver, PastCancel, operationVars
  <2>. QED  BY <2>1, <2>3 DEF Deliver, tokenVars, operationVars, DesktopInv, OutOfCancel
<1>. QED  BY <1>1, <1>2, <1>3

LEMMA OperationKeeps ==
  ASSUME WorkerInv, DesktopInv, OperationStep
  PROVE  DesktopInv'
<1>1. /\ UNCHANGED <<handle, requested, window>> /\ Busy
      /\ future' = "PENDING" => FALSE
  BY DEF OperationStep, TokenCall, CreateRuntime, Move, Blocked, Finish, Fail, Start, Complete,
         Checkpoint, Note, EnterTerminal, EnterPhase, At, Return, Raise, AnswerStopped, AnswerRaised,
         AnswerReturned, AnswerSucceeding, Answer, tokenVars, workerVars, WorkerInv, WorkerTypeOK, AtWork
<1>2. CASE TokenCall
  <2>1. /\ thread = "operation" /\ handle \in Kinds /\ step \in Nat \ {0} /\ step' = step + 1
        /\ moved' = moved /\ Remaining
    BY <1>1, <1>2, WorkerAssumption
    DEF TokenCall, At, Advance, DesktopInv, WorkerInv, WorkerTypeOK, Busy
  <2>2. \/ At("checkpoint") /\ phase' = phase
        \/ At("note") /\ phase' = phase
        \/ phase' = "COMPLETE"
        \/ \E p \in Uninterruptible : At(p) /\ EnterPhase(p)
    BY <1>2 DEF TokenCall, Checkpoint, Note, EnterTerminal, tokenVars
  <2>3. "CANCELLABLE" \notin Uninterruptible /\ "checkpoint" \notin Uninterruptible
    BY DEF Uninterruptible
  <2>4. OutOfCancel => OutOfCancel'
    BY <1>1, <2>2, <2>3 DEF OutOfCancel, EnterPhase
  <2>5. ASSUME PastCancel', ~PastCancel
        PROVE  OutOfCancel'
    <3>1. \/ handle = "cleanup" /\ step = 2
          \/ handle = "undo" /\ step = 3
      BY <1>1, <2>1, <2>5 DEF PastCancel
    <3>2. Program[handle][step] \in {"FINALIZING", "RECONCILING"}
      BY <3>1, <2>1, Programs
    <3>3. \E p \in Uninterruptible : EnterPhase(p)
      BY <1>2, <3>2 DEF TokenCall, At
    <3>4. PICK p \in Uninterruptible : EnterPhase(p)
      BY <3>3
    <3>5. thread' = "operation"
      BY <2>5 DEF PastCancel
    <3>. QED  BY <2>3, <3>4, <3>5 DEF EnterPhase, OutOfCancel
  <2>. QED  BY <1>1, <2>1, <2>4, <2>5 DEF DesktopInv, Busy
<1>3. CASE CreateRuntime
  <2>1. /\ thread = "operation" /\ handle \in Kinds /\ step \in Nat \ {0} /\ step' = step + 1
        /\ Remaining /\ Program[handle][step] = "runtime" /\ UNCHANGED <<workerVars, moved>>
    BY <1>1, <1>3, WorkerAssumption
    DEF CreateRuntime, At, Advance, DesktopInv, WorkerInv, WorkerTypeOK, Busy
  <2>2. PastCancel' => PastCancel
    BY <2>1, Programs DEF PastCancel, Remaining, workerVars
  <2>. QED  BY <1>1, <2>1, <2>2 DEF DesktopInv, OutOfCancel, workerVars, Busy
<1>4. CASE Move \/ Blocked
  <2>1. PastCancel
    BY <1>4, MoveIsLate DEF Move
  <2>2. (step' = step + 1 \/ step' = 8) /\ UNCHANGED workerVars
    BY <1>4, Zenon DEF Move, Blocked, Advance, Reconciles
  <2>3. moved' \in BOOLEAN
    BY <1>4, Zenon DEF Move, Blocked, DesktopInv
  <2>4. step' \in Nat \ {0}
    BY <2>2 DEF DesktopInv
  <2>. QED  BY <1>1, <2>1, <2>2, <2>3, <2>4 DEF DesktopInv, OutOfCancel, workerVars, Busy
<1>5. CASE Finish \/ Fail
  BY <1>1, <1>5 DEF Finish, Fail, Return, Raise, DesktopInv, PastCancel, OutOfCancel, Busy, tokenVars
<1>6. CASE Start /\ UNCHANGED <<step, moved, runtime>>
  BY <1>1, <1>6 DEF Start, DesktopInv, PastCancel, OutOfCancel, Busy, tokenVars
<1>7. CASE Complete /\ UNCHANGED <<step, moved, runtime>>
  <2>1. phase' = phase \/ phase' \in Terminal
    BY <1>7 DEF Complete, AnswerStopped, AnswerRaised, AnswerReturned, AnswerSucceeding, Answer,
                Terminal, tokenVars
  <2>2. thread' # "operation"
    BY <1>7 DEF Complete, AnswerStopped, AnswerRaised, AnswerReturned, AnswerSucceeding, Answer
  <2>. QED  BY <1>1, <1>7, <2>1, <2>2 DEF DesktopInv, PastCancel, OutOfCancel, Busy, Terminal
<1>. QED
  BY <1>2, <1>3, <1>4, <1>5, <1>6, <1>7 DEF OperationStep

LEMMA DesktopInvHolds == Spec => [](WorkerInv /\ DesktopInv)
<1>1. Init => WorkerInv /\ DesktopInv
  <2>1. ASSUME Init PROVE moved \in BOOLEAN /\ ~moved
    BY <2>1 DEF Init
  <2>2. Init => WorkerInv /\ step = 1 /\ future = "NONE" /\ thread = "idle" /\ window = "open"
    BY WorkerInitKeeps DEF Init, WorkerInit
  <2>. QED  BY <2>1, <2>2 DEF DesktopInv, PastCancel
<1>2. WorkerInv /\ DesktopInv /\ [Next]_vars => (WorkerInv /\ DesktopInv)'
  <2>1. ASSUME WorkerInv, DesktopInv, UNCHANGED vars
        PROVE  DesktopInv'
    BY <2>1 DEF vars, workerVars, operationVars, DesktopInv, PastCancel, OutOfCancel, Busy
  <2>. QED
    BY <2>1, UserKeeps, CallbackKeeps, OperationKeeps, NextIsWorkerStep, WorkerNextKeeps DEF Next
<1>. QED  BY <1>1, <1>2, PTL DEF Spec

\* CancelledMovesNothing: request_cancel and enter_phase, checkpoint and the
\* test in completed() together keep an accepted cancellation from moving
\* anything, for both operations that mutate.
THEOREM CancelledNeverMoves == Spec => []CancelledMovesNothing
<1>1. WorkerInv /\ DesktopInv => CancelledMovesNothing
  BY DEF WorkerInv, DesktopInv, OutOfCancel, CancelledMovesNothing
<1>. QED  BY <1>1, DesktopInvHolds, PTL

\* NothingOutlivesWindow: DesktopApp destroys the window only when the worker
\* is free, and then no thread is at work and nothing is left to be run.
THEOREM WindowOutlivesWork == Spec => []NothingOutlivesWindow
<1>1. WorkerInv /\ DesktopInv => NothingOutlivesWindow
  BY DEF WorkerInv, DesktopInv, NothingOutlivesWindow, AtWork
<1>. QED  BY <1>1, DesktopInvHolds, PTL
-----------------------------------------------------------------------------
(* The controller's own variables have their types. *)

\* The screens, the phase and the name that are shown.
ShownTypes ==
  /\ screen \in DesktopState
  /\ name \in Kinds \cup {None}
  /\ shownPhase \in WorkPhase \cup {"IDLE"}

\* The findings, what is selected and what is planned.
CleanupTypes ==
  /\ scanned \in BOOLEAN
  /\ findings \subseteq Items
  /\ selected \subseteq Items
  /\ session # None => session \subseteq Items
  /\ review # None => review \subseteq Items

\* The operation at work and the rest.
OperationTypes ==
  /\ step \in 1 .. 10
  /\ moved \in BOOLEAN
  /\ captured \subseteq Items
  /\ runtime \in BOOLEAN
  /\ rows \subseteq Items
  /\ window \in {"open", "closing", "destroyed"}
  /\ ops \in 0 .. MaxOps

ControllerTypes == ShownTypes /\ CleanupTypes /\ OperationTypes

\* No program is longer than nine calls.
LEMMA ProgramLength ==
  ASSUME NEW k \in Kinds
  PROVE  Len(Program[k]) \in 0 .. 9
<1>1. k \in {"scan", "review", "recovery", "cleanup", "undo"}
  BY ControllerAssumption
<1>2. /\ Len(Program["scan"]) = 0 /\ Len(Program["review"]) = 1 /\ Len(Program["recovery"]) = 1
      /\ Len(Program["cleanup"]) = 9 /\ Len(Program["undo"]) = 5
  BY DEF Program
<1>. QED  BY <1>1, <1>2

\* What an operation returns is about Items.
LEMMA ResultItems ==
  ASSUME NEW v \in Results
  PROVE  v.items \subseteq Items
BY ControllerAssumption

LEMMA UserTypes ==
  ASSUME ControllerTypes, UserStep
  PROVE  ControllerTypes'
<1>1. ASSUME NEW k \in Kinds, NEW shown \in DesktopState, Begin(k, shown)
      PROVE  /\ ShownTypes'
             /\ step' \in 1 .. 10 /\ moved' \in BOOLEAN /\ runtime' = runtime /\ rows' = rows
             /\ window' = window /\ ops' \in 0 .. MaxOps
  <2>1. /\ step' = 1 /\ screen' = shown /\ name' = k /\ shownPhase' = "CANCELLABLE"
        /\ ops < MaxOps /\ ops' = ops + 1 /\ UNCHANGED <<runtime, rows, window>>
    BY <1>1 DEF Begin
  <2>2. moved' \in BOOLEAN
    BY <1>1, Zenon DEF Begin
  <2>3. ShownTypes'
    BY <2>1 DEF ShownTypes, WorkPhase
  <2>4. ops' \in 0 .. MaxOps
    BY <2>1, ControllerAssumption DEF ControllerTypes, OperationTypes
  <2>. QED  BY <2>1, <2>2, <2>3, <2>4
<1>2. ASSUME UNCHANGED <<operationVars, rows, window, ops>>
      PROVE  OperationTypes'
  BY <1>2 DEF operationVars, ControllerTypes, OperationTypes
<1>3. ASSUME UNCHANGED cleanupVars
      PROVE  CleanupTypes'
  BY <1>3 DEF cleanupVars, ControllerTypes, CleanupTypes
<1>4. CASE StartScan
  <2>1. ShownTypes' /\ OperationTypes'
    BY <1>1, <1>4, ControllerAssumption
    DEF StartScan, DesktopState, ControllerTypes, OperationTypes
  <2>2. CleanupTypes'
    BY <1>4 DEF StartScan, ControllerTypes, CleanupTypes
  <2>. QED  BY <2>1, <2>2 DEF ControllerTypes
<1>5. CASE BuildCleanupReview
  <2>1. ShownTypes' /\ OperationTypes'
    BY <1>1, <1>5, ControllerAssumption
    DEF BuildCleanupReview, DesktopState, ControllerTypes, OperationTypes, CleanupTypes
  <2>. QED  BY <1>3, <1>5, <2>1 DEF BuildCleanupReview, ControllerTypes
<1>6. CASE ConfirmCleanup
  <2>1. ShownTypes' /\ OperationTypes'
    BY <1>1, <1>6, ControllerAssumption
    DEF ConfirmCleanup, DesktopState, ControllerTypes, OperationTypes
  <2>. QED  BY <1>3, <1>6, <2>1 DEF ConfirmCleanup, ControllerTypes
<1>7. CASE RefreshRecovery
  <2>1. CASE ~runtime /\ screen' = "RECOVERY"
    BY <1>3, <1>7, <2>1
    DEF RefreshRecovery, Begin, DesktopState, ControllerTypes, ShownTypes, OperationTypes,
        operationVars
  <2>2. CASE Begin("recovery", "RECOVERY") /\ UNCHANGED <<captured, cleanupVars>>
    <3>1. ShownTypes' /\ OperationTypes'
      BY <1>1, <2>2, ControllerAssumption DEF DesktopState, ControllerTypes, OperationTypes
    <3>. QED  BY <1>3, <2>2, <3>1 DEF ControllerTypes
  <2>. QED  BY <1>7, <2>1, <2>2 DEF RefreshRecovery
<1>8. ASSUME NEW i \in Items, Undo(i)
      PROVE  ControllerTypes'
  <2>1. CASE i \in rows
    <3>0. Begin("undo", "RECOVERY") /\ UNCHANGED <<captured, cleanupVars>>
      BY <1>8, <2>1 DEF Undo
    <3>1. ShownTypes' /\ OperationTypes'
      BY <1>1, <3>0, ControllerAssumption DEF DesktopState, ControllerTypes, OperationTypes
    <3>. QED  BY <1>3, <3>0, <3>1 DEF ControllerTypes
  <2>2. CASE i \notin rows
    <3>1. /\ screen' = "RECONCILIATION_REQUIRED"
          /\ UNCHANGED <<operationVars, cleanupVars, name, shownPhase, rows, window, ops>>
      BY <1>8, <2>2 DEF Undo
    <3>2. ShownTypes'
      BY <3>1 DEF DesktopState, ControllerTypes, ShownTypes
    <3>. QED  BY <1>2, <1>3, <3>1, <3>2 DEF ControllerTypes
  <2>. QED  BY <2>1, <2>2
<1>9. CASE Cancel
  BY <1>2, <1>3, <1>9
  DEF Cancel, CancelWaiting, DesktopState, WorkPhase, Terminal, ControllerTypes, ShownTypes
<1>10. CASE CloseWindow
  BY <1>3, <1>10
  DEF CloseWindow, operationVars, ControllerTypes, ShownTypes, OperationTypes
<1>11. CASE WrongPhrase
  BY <1>2, <1>3, <1>11 DEF WrongPhrase, DesktopState, ControllerTypes, ShownTypes
<1>12. CASE ClearSelection \/ \E i \in Items : ToggleSelection(i)
  <2>1. /\ UNCHANGED <<operationVars, scanned, findings, session, review, screen, name,
                       shownPhase, rows, window, ops>>
        /\ selected' \subseteq Items
    BY <1>12 DEF ClearSelection, ToggleSelection, ControllerTypes, CleanupTypes
  <2>. QED  BY <1>2, <2>1 DEF ControllerTypes, ShownTypes, CleanupTypes
<1>. QED  BY <1>4, <1>5, <1>6, <1>7, <1>8, <1>9, <1>10, <1>11, <1>12 DEF UserStep

\* The screen a failure leads to.
LEMMA FailedScreen ==
  /\ handle = "scan" /\ Failed => screen' = "SCAN_FAILED"
  /\ handle \in {"review", "cleanup"} /\ Failed => screen' = "ERROR"
  /\ handle \notin {"scan", "review", "cleanup"} /\ Failed => screen' = "RECONCILIATION_REQUIRED"
<1>1. handle \in {"review", "cleanup"} => handle # "scan"
  OBVIOUS
<1>2. ASSUME handle \notin {"scan", "review", "cleanup"}
      PROVE  handle # "scan" /\ handle \notin {"review", "cleanup"}
  BY <1>2
<1>. QED  BY <1>1, <1>2, Zenon DEF Failed

\* The screens a success leads to.
LEMMA SucceededScreens ==
  /\ ScanSucceeded => screen' \in {"SCAN_COMPLETE", "SCAN_PARTIAL", "CANCELLED"}
  /\ CleanupSucceeded => screen' \in {"CLEANUP_COMPLETE", "PARTIAL_RESULT",
                                      "RECONCILIATION_REQUIRED", "ERROR"}
<1>1. ASSUME ScanSucceeded
      PROVE  screen' \in {"SCAN_COMPLETE", "SCAN_PARTIAL", "CANCELLED"}
  <2>1. CASE value.state = "complete"
    BY <1>1, <2>1, Zenon DEF ScanSucceeded
  <2>2. CASE value.state = "partial"
    BY <1>1, <2>2, Zenon DEF ScanSucceeded
  <2>3. CASE value.state \notin {"complete", "partial"}
    BY <1>1, <2>3, Zenon DEF ScanSucceeded
  <2>. QED  BY <2>1, <2>2, <2>3
<1>2. ASSUME CleanupSucceeded
      PROVE  screen' \in {"CLEANUP_COMPLETE", "PARTIAL_RESULT", "RECONCILIATION_REQUIRED",
                          "ERROR"}
  <2>1. CASE value.state = "executed"
    BY <1>2, <2>1, Zenon DEF CleanupSucceeded
  <2>2. CASE value.state = "partial"
    BY <1>2, <2>2, Zenon DEF CleanupSucceeded
  <2>3. CASE value.state = "unsettled"
    BY <1>2, <2>3, Zenon DEF CleanupSucceeded
  <2>4. CASE value.state \notin {"executed", "partial", "unsettled"}
    BY <1>2, <2>4, Zenon DEF CleanupSucceeded
  <2>. QED  BY <2>1, <2>2, <2>3, <2>4
<1>. QED  BY <1>1, <1>2

\* What RunCallback does is told by the first callback of the queue.
Shows ==
  \/ \E p \in WorkPhase : Head(queue) = p /\ PhaseChanged(p)
  \/ Head(queue) \in {"on_started", "note"} /\ Revalidating
  \/ Head(queue) = "on_cancel" /\ Cancelled
  \/ Head(queue) = "on_error" /\ Failed
  \/ Head(queue) = "on_success" /\ Succeeded

LEMMA CallbackShows ==
  ASSUME RunCallback, Head(queue) \in Callbacks
  PROVE  Shows
<1>1. /\ "on_cancel" \notin WorkPhase /\ "on_error" \notin WorkPhase
      /\ "on_success" \notin WorkPhase /\ "on_started" \notin WorkPhase
      /\ "note" \notin WorkPhase
  BY DEF WorkPhase, Uninterruptible, Terminal
<1>2. CASE Head(queue) \in WorkPhase
  <2>1. PhaseChanged(Head(queue))
    BY <1>1, <1>2, Zenon DEF RunCallback
  <2>. QED  BY <1>2, <2>1 DEF Shows
<1>3. CASE Head(queue) \in {"on_started", "note"}
  <2>1. Head(queue) \notin WorkPhase /\ Head(queue) # "on_cancel" /\ Head(queue) # "on_error"
    BY <1>1, <1>3
  <2>2. Revalidating
    BY <1>3, <2>1, Zenon DEF RunCallback
  <2>. QED  BY <1>3, <2>2 DEF Shows
<1>4. CASE Head(queue) = "on_cancel"
  <2>1. Head(queue) \notin WorkPhase /\ Head(queue) \notin {"on_started", "note"}
    BY <1>1, <1>4
  <2>2. Cancelled
    BY <1>4, <2>1, Zenon DEF RunCallback
  <2>. QED  BY <1>4, <2>2 DEF Shows
<1>5. CASE Head(queue) = "on_error"
  <2>1. Head(queue) \notin WorkPhase /\ Head(queue) \notin {"on_started", "note"}
    BY <1>1, <1>5
  <2>2. Failed
    BY <1>5, <2>1, Zenon DEF RunCallback
  <2>. QED  BY <1>5, <2>2 DEF Shows
<1>6. CASE Head(queue) = "on_success"
  <2>1. Head(queue) \notin WorkPhase \cup {"on_started", "note", "on_cancel", "on_error"}
    BY <1>1, <1>6
  <2>2. Succeeded
    BY <2>1, Zenon DEF RunCallback
  <2>. QED  BY <1>6, <2>2 DEF Shows
<1>. QED  BY <1>2, <1>3, <1>4, <1>5, <1>6 DEF Callbacks, Answers

\* What a callback leaves alone.
LEMMA CallbackTypes ==
  ASSUME WorkerInv, ControllerTypes, RunCallback
  PROVE  ControllerTypes'
<1>1. Deliver /\ UNCHANGED <<operationVars, window, ops>>
  BY DEF RunCallback
<1>2. Head(queue) \in Callbacks /\ (Head(queue) = "on_success" => value.items \subseteq Items)
  BY <1>1, DeliverKeeps, ResultItems
<1>3. None \in Kinds \cup {None} /\ name' \in {name, None} => name' \in Kinds \cup {None}
  BY DEF ControllerTypes, ShownTypes
<1>4. ASSUME ShownTypes', CleanupTypes', rows' \subseteq Items
      PROVE  ControllerTypes'
  BY <1>1, <1>4 DEF ControllerTypes, OperationTypes, operationVars
<1>5. UNCHANGED cleanupVars => CleanupTypes'
  BY DEF ControllerTypes, CleanupTypes, cleanupVars
<1>6. rows \subseteq Items
  BY DEF ControllerTypes, OperationTypes
<1>7. ASSUME NEW p \in WorkPhase, PhaseChanged(p)
      PROVE  ControllerTypes'
  <2>1. ShownTypes'
    BY <1>7 DEF PhaseChanged, ControllerTypes, ShownTypes, DesktopState
  <2>. QED  BY <1>4, <1>5, <1>6, <1>7, <2>1 DEF PhaseChanged
<1>8. CASE Revalidating
  <2>1. ShownTypes'
    BY <1>8 DEF Revalidating, ControllerTypes, ShownTypes, DesktopState
  <2>. QED  BY <1>4, <1>5, <1>6, <1>8, <2>1 DEF Revalidating
<1>9. CASE Cancelled
  <2>1. ShownTypes'
    BY <1>9 DEF Cancelled, ControllerTypes, ShownTypes, DesktopState, WorkPhase, Terminal
  <2>. QED  BY <1>4, <1>5, <1>6, <1>9, <2>1 DEF Cancelled
<1>10. CASE Failed
  <2>1. screen' \in DesktopState
    BY <1>10, FailedScreen DEF DesktopState
  <2>2. name' = None /\ shownPhase' \in {"FAILED", shownPhase} /\ rows' \in {{}, rows}
        /\ UNCHANGED cleanupVars
    BY <1>10, Zenon DEF Failed
  <2>3. ShownTypes'
    BY <1>3, <2>1, <2>2 DEF ControllerTypes, ShownTypes, WorkPhase, Terminal
  <2>. QED  BY <1>4, <1>5, <1>6, <2>2, <2>3
<1>11. CASE ScanSucceeded /\ Head(queue) = "on_success"
  <2>1. ShownTypes'
    <3>1. screen' \in DesktopState
      BY <1>11, SucceededScreens DEF DesktopState
    <3>2. name' = None /\ shownPhase' = shownPhase
      BY <1>11, Zenon DEF ScanSucceeded
    <3>. QED  BY <1>3, <3>1, <3>2 DEF ControllerTypes, ShownTypes
  <2>2. /\ findings' = value.items /\ scanned' = TRUE
        /\ UNCHANGED <<selected, session, review, rows>>
    BY <1>11, Zenon DEF ScanSucceeded
  <2>3. CleanupTypes'
    BY <1>2, <1>11, <2>2 DEF ControllerTypes, CleanupTypes
  <2>. QED  BY <1>4, <1>6, <2>1, <2>2, <2>3
<1>12. CASE ReviewSucceeded /\ Head(queue) = "on_success"
  <2>1. ShownTypes'
    BY <1>12 DEF ReviewSucceeded, ControllerTypes, ShownTypes, DesktopState
  <2>2. CleanupTypes' /\ rows' = rows
    BY <1>2, <1>12 DEF ReviewSucceeded, ControllerTypes, CleanupTypes
  <2>. QED  BY <1>4, <1>6, <2>1, <2>2
<1>13. CASE CleanupSucceeded /\ Head(queue) = "on_success"
  <2>1. /\ name' = None /\ shownPhase' = "COMPLETE" /\ rows' = value.items
        /\ UNCHANGED cleanupVars
    BY <1>13, Zenon DEF CleanupSucceeded
  <2>2. screen' \in DesktopState
    BY <1>13, SucceededScreens DEF DesktopState
  <2>3. ShownTypes'
    BY <1>3, <2>1, <2>2 DEF ControllerTypes, ShownTypes, WorkPhase, Terminal
  <2>. QED  BY <1>2, <1>4, <1>5, <1>13, <2>1, <2>3
<1>14. CASE RecoverySucceeded /\ Head(queue) = "on_success"
  <2>1. ShownTypes' /\ rows' = value.items /\ UNCHANGED cleanupVars
    BY <1>14 DEF RecoverySucceeded, ControllerTypes, ShownTypes, DesktopState
  <2>. QED  BY <1>2, <1>4, <1>5, <1>14, <2>1
<1>15. CASE UndoSucceeded
  <2>1. ShownTypes' /\ rows' = rows /\ UNCHANGED cleanupVars
    BY <1>15 DEF UndoSucceeded, ControllerTypes, ShownTypes, DesktopState, WorkPhase, Terminal
  <2>. QED  BY <1>4, <1>5, <1>6, <2>1
<1>16. Shows
  BY <1>2, CallbackShows
<1>. QED
  BY <1>7, <1>8, <1>9, <1>10, <1>11, <1>12, <1>13, <1>14, <1>15, <1>16 DEF Shows, Succeeded

\* What an operation does leaves all but its own variables alone.
LEMMA OperationKeepsTypes ==
  ASSUME WorkerInv, ControllerTypes, OperationStep
  PROVE  ControllerTypes'
<1>1. /\ UNCHANGED <<captured, cleanupVars, screen, name, shownPhase, rows, window, ops>>
      /\ TokenCall \/ CreateRuntime \/ Move \/ Blocked \/ UNCHANGED <<step, moved, runtime>>
  BY DEF OperationStep, Finish, Fail
<1>2. step \in 1 .. 10 /\ moved \in BOOLEAN /\ runtime \in BOOLEAN
  BY DEF ControllerTypes, OperationTypes
<1>3. ASSUME NEW call, At(call)
      PROVE  step + 1 \in 1 .. 10
  <2>1. handle \in Kinds /\ step <= Len(Program[handle])
    BY <1>3, WorkerAssumption DEF At, Remaining, WorkerInv, WorkerTypeOK, AtWork, Busy
  <2>2. PICK n \in 0 .. 9 : n = Len(Program[handle])
    BY <2>1, ProgramLength
  <2>3. step <= n
    BY <2>1, <2>2
  <2>. QED  BY <1>2, <2>3
<1>4. TokenCall => step' \in 1 .. 10 /\ UNCHANGED <<moved, runtime>>
  BY <1>3 DEF TokenCall, Advance
<1>5. CreateRuntime => step' \in 1 .. 10 /\ moved' = moved /\ runtime' \in BOOLEAN
  BY <1>3 DEF CreateRuntime, Advance
<1>6. Move => step' \in 1 .. 10 /\ moved' \in BOOLEAN /\ runtime' = runtime
  <2>1. ASSUME Move PROVE moved' \in BOOLEAN
    BY <1>2, <2>1, Zenon DEF Move
  <2>2. ASSUME Move PROVE step' \in 1 .. 10 /\ runtime' = runtime
    BY <1>3, <2>2 DEF Move, Advance
  <2>. QED  BY <2>1, <2>2
<1>7. Blocked => step' \in 1 .. 10 /\ UNCHANGED <<moved, runtime>>
  BY DEF Blocked, Reconciles
<1>8. step' \in 1 .. 10 /\ moved' \in BOOLEAN /\ runtime' \in BOOLEAN
  BY <1>1, <1>2, <1>4, <1>5, <1>6, <1>7
<1>9. ShownTypes' /\ CleanupTypes'
  BY <1>1 DEF ControllerTypes, ShownTypes, CleanupTypes, cleanupVars
<1>10. OperationTypes'
  BY <1>1, <1>8 DEF ControllerTypes, OperationTypes
<1>. QED  BY <1>9, <1>10 DEF ControllerTypes

-----------------------------------------------------------------------------
(* What is shown is what the worker does. *)

\* A start and a note are announced by a cleanup only, and a directory is moved
\* by a cleanup or an Undo.
Announces(q, h) ==
  \A i \in 1 .. Len(q) :
    /\ q[i] \in {"on_started", "note"} => h = "cleanup"
    /\ q[i] = "AUTHORIZED_MUTATION" => h \in {"cleanup", "undo"}

\* The phase that is shown when an answer is run is one of those that end an
\* operation: the callback before the answer, if it still waits, shows it.
PhaseBeforeAnswer(q, shown) ==
  \A i \in 1 .. Len(q) :
    q[i] \in Answers => IF i = 1 THEN shown \in Terminal ELSE q[i - 1] \in Terminal

ScreenInv ==
  /\ ScreenMatchesWork
  /\ Announces(queue, handle)
  /\ PhaseBeforeAnswer(queue, shownPhase)

LEMMA EmptyShows ==
  ASSUME NEW h, NEW shown
  PROVE  Announces(<<>>, h) /\ PhaseBeforeAnswer(<<>>, shown)
BY DEF Announces, PhaseBeforeAnswer

\* A callback that is no answer, dispatched by an operation that may.
LEMMA AppendedShows ==
  ASSUME NEW q \in Seq(Callbacks), NEW h, NEW shown, Announces(q, h), PhaseBeforeAnswer(q, shown),
         NEW c \in Callbacks, c \notin Answers,
         c \in {"on_started", "note"} => h = "cleanup",
         c = "AUTHORIZED_MUTATION" => h \in {"cleanup", "undo"}
  PROVE  Announces(Append(q, c), h) /\ PhaseBeforeAnswer(Append(q, c), shown)
<1>1. Len(q) \in Nat /\ Len(Append(q, c)) = Len(q) + 1
  OBVIOUS
<1>2. /\ \A i \in 1 .. Len(q) : Append(q, c)[i] = q[i]
      /\ Append(q, c)[Len(q) + 1] = c
  OBVIOUS
<1>3. PICK n \in Nat : n = Len(q)
  BY <1>1
<1>4. Announces(Append(q, c), h)
  BY <1>1, <1>2, <1>3 DEF Announces
<1>5. PhaseBeforeAnswer(Append(q, c), shown)
  <2>1. SUFFICES ASSUME NEW i \in 1 .. n + 1, Append(q, c)[i] \in Answers
                 PROVE  IF i = 1 THEN shown \in Terminal ELSE Append(q, c)[i - 1] \in Terminal
    BY <1>1, <1>3 DEF PhaseBeforeAnswer
  <2>2. i \in 1 .. n /\ q[i] \in Answers
    BY <1>2, <1>3, <2>1
  <2>3. IF i = 1 THEN shown \in Terminal ELSE q[i - 1] \in Terminal
    BY <1>3, <2>2 DEF PhaseBeforeAnswer
  <2>4. i # 1 => i - 1 \in 1 .. n
    BY <2>2
  <2>. QED  BY <1>2, <1>3, <2>3, <2>4
<1>. QED  BY <1>4, <1>5

\* The phase and the answer that end an operation.
LEMMA AnsweredShows ==
  ASSUME NEW q \in Seq(Callbacks), NEW h, NEW shown, Announces(q, h), PhaseBeforeAnswer(q, shown),
         NEW p \in Terminal, NEW c \in Answers
  PROVE  Announces(q \o <<p, c>>, h) /\ PhaseBeforeAnswer(q \o <<p, c>>, shown)
<1>1. p \in Callbacks /\ p \notin Answers /\ p \notin {"on_started", "note", "AUTHORIZED_MUTATION"}
      /\ c \in Callbacks /\ c \notin {"on_started", "note", "AUTHORIZED_MUTATION"}
  BY DEF Callbacks, WorkPhase, Terminal, Answers
<1>2. <<p, c>> \in Seq(Callbacks) /\ Len(<<p, c>>) = 2
  BY <1>1
<1>3. PICK n \in Nat : n = Len(q)
  OBVIOUS
<1>4. /\ Len(q \o <<p, c>>) = n + 2
      /\ \A i \in 1 .. n : (q \o <<p, c>>)[i] = q[i]
      /\ (q \o <<p, c>>)[n + 1] = p /\ (q \o <<p, c>>)[n + 2] = c
  BY <1>2, <1>3
<1>5. \A i \in 1 .. n + 2 : i \in 1 .. n \/ i = n + 1 \/ i = n + 2
  BY <1>3
<1>6. Announces(q \o <<p, c>>, h)
  <2>1. SUFFICES ASSUME NEW i \in 1 .. n + 2
                 PROVE  /\ (q \o <<p, c>>)[i] \in {"on_started", "note"} => h = "cleanup"
                        /\ (q \o <<p, c>>)[i] = "AUTHORIZED_MUTATION" => h \in {"cleanup", "undo"}
    BY <1>4 DEF Announces
  <2>2. CASE i \in 1 .. n
    BY <1>3, <1>4, <2>2 DEF Announces
  <2>3. CASE i \in {n + 1, n + 2}
    BY <1>1, <1>4, <2>3
  <2>. QED  BY <1>5, <2>2, <2>3
<1>7. PhaseBeforeAnswer(q \o <<p, c>>, shown)
  <2>1. SUFFICES ASSUME NEW i \in 1 .. n + 2, (q \o <<p, c>>)[i] \in Answers
                 PROVE  IF i = 1 THEN shown \in Terminal ELSE (q \o <<p, c>>)[i - 1] \in Terminal
    BY <1>4 DEF PhaseBeforeAnswer
  <2>2. CASE i \in 1 .. n
    <3>1. IF i = 1 THEN shown \in Terminal ELSE q[i - 1] \in Terminal
      BY <1>3, <1>4, <2>1, <2>2 DEF PhaseBeforeAnswer
    <3>2. i # 1 => i - 1 \in 1 .. n
      BY <2>2
    <3>. QED  BY <1>4, <3>1, <3>2
  <2>3. CASE i = n + 2
    <3>1. i # 1 /\ i - 1 = n + 1
      BY <1>3, <2>3
    <3>. QED  BY <1>4, <3>1
  <2>. QED  BY <1>1, <1>4, <1>5, <2>1, <2>2, <2>3
<1>. QED  BY <1>6, <1>7

\* Running the first callback: a phase that ends an operation is shown by it.
LEMMA TailShows ==
  ASSUME NEW q \in Seq(Callbacks), q # <<>>, NEW h, NEW shown, NEW next,
         Announces(q, h), PhaseBeforeAnswer(q, shown),
         Head(q) \in Terminal => next = Head(q)
  PROVE  /\ Announces(Tail(q), h) /\ PhaseBeforeAnswer(Tail(q), next)
         /\ Head(q) \in {"on_started", "note"} => h = "cleanup"
         /\ Head(q) = "AUTHORIZED_MUTATION" => h \in {"cleanup", "undo"}
         /\ Head(q) \in Answers => shown \in Terminal
<1>1. PICK n \in Nat \ {0} : n = Len(q)
  BY EmptySeq
<1>2. Head(q) = q[1] /\ Tail(q) \in Seq(Callbacks) /\ Len(Tail(q)) = n - 1
  BY <1>1
<1>3. \A i \in 1 .. n - 1 : Tail(q)[i] = q[i + 1]
  BY <1>1
<1>4. 1 \in 1 .. n
  BY <1>1
<1>5. Announces(Tail(q), h)
  <2>1. \A i \in 1 .. n - 1 : i + 1 \in 1 .. n
    BY <1>1
  <2>. QED  BY <1>1, <1>2, <1>3, <2>1 DEF Announces
<1>6. PhaseBeforeAnswer(Tail(q), next)
  <2>1. SUFFICES ASSUME NEW i \in 1 .. n - 1, Tail(q)[i] \in Answers
                 PROVE  IF i = 1 THEN next \in Terminal ELSE Tail(q)[i - 1] \in Terminal
    BY <1>2 DEF PhaseBeforeAnswer
  <2>2. i + 1 \in 1 .. n /\ i + 1 # 1 /\ q[i + 1] \in Answers /\ (i + 1) - 1 = i
    BY <1>1, <1>3, <2>1
  <2>3. q[i] \in Terminal
    BY <1>1, <2>2 DEF PhaseBeforeAnswer
  <2>4. CASE i = 1
    BY <1>2, <2>3, <2>4
  <2>5. CASE i # 1
    <3>1. i - 1 \in 1 .. n - 1 /\ (i - 1) + 1 = i
      BY <1>1, <2>1, <2>5
    <3>2. Tail(q)[i - 1] = q[i]
      BY <1>3, <3>1
    <3>. QED  BY <2>3, <2>5, <3>2
  <2>. QED  BY <2>4, <2>5
<1>7. /\ Head(q) \in {"on_started", "note"} => h = "cleanup"
      /\ Head(q) = "AUTHORIZED_MUTATION" => h \in {"cleanup", "undo"}
  BY <1>1, <1>2, <1>4 DEF Announces
<1>8. Head(q) \in Answers => shown \in Terminal
  BY <1>1, <1>2, <1>4 DEF PhaseBeforeAnswer
<1>. QED  BY <1>5, <1>6, <1>7, <1>8

LEMMA UserScreen ==
  ASSUME WorkerInv, ScreenInv, UserStep
  PROVE  ScreenInv'
<1>1. ASSUME NEW k \in Kinds, NEW shown, Begin(k, shown),
             shown = "SCANNING" => k = "scan", shown \notin {"REVALIDATING", "EXECUTING"}
      PROVE  ScreenInv'
  <2>1. queue' = <<>> /\ handle' = k /\ name' = k /\ screen' = shown
    BY <1>1 DEF Begin, Submit, WorkerInv
  <2>2. Announces(queue', handle') /\ PhaseBeforeAnswer(queue', shownPhase')
    BY <2>1, EmptyShows
  <2>3. Busy'
    BY <2>1, WorkerAssumption DEF Busy
  <2>. QED  BY <1>1, <2>1, <2>2, <2>3 DEF ScreenInv, ScreenMatchesWork
<1>2. ASSUME UNCHANGED <<handle, queue>>, UNCHANGED <<name, shownPhase>>,
             screen' \notin {"SCANNING", "REVALIDATING", "EXECUTING"} \/ screen' = screen
      PROVE  ScreenInv'
  BY <1>2 DEF ScreenInv, ScreenMatchesWork, Busy
<1>3. CASE StartScan \/ BuildCleanupReview \/ ConfirmCleanup
  BY <1>1, <1>3, ControllerAssumption DEF StartScan, BuildCleanupReview, ConfirmCleanup
<1>4. CASE RefreshRecovery
  <2>1. CASE runtime
    BY <1>1, <1>4, <2>1, ControllerAssumption DEF RefreshRecovery
  <2>2. CASE ~runtime
    BY <1>2, <1>4, <2>2 DEF RefreshRecovery, workerVars
  <2>. QED  BY <2>1, <2>2
<1>5. ASSUME NEW i \in Items, Undo(i)
      PROVE  ScreenInv'
  <2>1. CASE i \in rows
    BY <1>1, <1>5, <2>1, ControllerAssumption DEF Undo
  <2>2. CASE i \notin rows
    BY <1>2, <1>5, <2>2 DEF Undo, workerVars
  <2>. QED  BY <2>1, <2>2
<1>6. CASE Cancel
  <2>1. CASE CancelWaiting
    <3>1. handle = None /\ UNCHANGED <<handle, queue>>
      BY <2>1 DEF CancelWaiting, Busy, workerVars
    <3>2. queue' = <<>>
      BY <3>1 DEF WorkerInv, Busy
    <3>3. /\ name' = None /\ screen' = "CANCELLED" /\ shownPhase' \in Terminal
      BY <2>1 DEF CancelWaiting, Terminal
    <3>4. Announces(queue', handle') /\ PhaseBeforeAnswer(queue', shownPhase')
      BY <3>2, EmptyShows
    <3>. QED  BY <3>1, <3>3, <3>4 DEF ScreenInv, ScreenMatchesWork
  <2>2. CASE ~CancelWaiting
    BY <1>2, <1>6, <2>2 DEF Cancel, RequestCancel
  <2>. QED  BY <2>1, <2>2
<1>7. CASE CloseWindow
  BY <1>2, <1>7 DEF CloseWindow, RequestCancel, workerVars
<1>8. CASE ClearSelection \/ WrongPhrase \/ \E i \in Items : ToggleSelection(i)
  BY <1>2, <1>8 DEF ClearSelection, WrongPhrase, ToggleSelection, workerVars
<1>. QED  BY <1>3, <1>4, <1>5, <1>6, <1>7, <1>8 DEF UserStep

\* An answer leaves the name and every screen of work, and a phase that ends an
\* operation.
LEMMA AnswerScreens ==
  ASSUME Cancelled \/ Failed \/ Succeeded, shownPhase \in Terminal
  PROVE  /\ name' = None
         /\ screen' \notin {"SCANNING", "REVALIDATING", "EXECUTING"}
         /\ shownPhase' \in Terminal \cup {"IDLE"}
<1>1. CASE Cancelled
  BY <1>1 DEF Cancelled, Terminal
<1>2. CASE Failed
  <2>1. name' = None /\ shownPhase' \in {"FAILED", shownPhase}
    BY <1>2, Zenon DEF Failed
  <2>. QED  BY <1>2, <2>1, FailedScreen DEF Terminal
<1>3. CASE ScanSucceeded
  <2>1. name' = None /\ shownPhase' = shownPhase
    BY <1>3, Zenon DEF ScanSucceeded
  <2>. QED  BY <1>3, <2>1, SucceededScreens
<1>4. CASE CleanupSucceeded
  <2>1. name' = None /\ shownPhase' = "COMPLETE"
    BY <1>4, Zenon DEF CleanupSucceeded
  <2>. QED  BY <1>4, <2>1, SucceededScreens DEF Terminal
<1>5. CASE ReviewSucceeded \/ RecoverySucceeded \/ UndoSucceeded
  BY <1>5 DEF ReviewSucceeded, RecoverySucceeded, UndoSucceeded, Terminal
<1>. QED  BY <1>1, <1>2, <1>3, <1>4, <1>5 DEF Succeeded

LEMMA CallbackScreen ==
  ASSUME WorkerInv, ScreenInv, RunCallback
  PROVE  ScreenInv'
<1>1. /\ Deliver /\ queue \in Seq(Callbacks) /\ queue # <<>> /\ queue' = Tail(queue)
      /\ Busy
  BY DEF RunCallback, Deliver, WorkerInv, WorkerTypeOK
<1>2. /\ Head(queue) \in Callbacks
      /\ Head(queue) \in Answers => queue' = <<>> /\ handle' = None
      /\ Head(queue) \notin Answers => handle' = handle
  BY <1>1, DeliverKeeps
<1>3. Shows
  BY <1>2, CallbackShows
<1>4. Terminal \cap Answers = {} /\ WorkPhase \cap Answers = {} /\ Terminal \subseteq WorkPhase
      /\ "on_started" \notin Answers \cup WorkPhase /\ "note" \notin Answers \cup WorkPhase
      /\ "AUTHORIZED_MUTATION" \in WorkPhase
  BY DEF WorkPhase, Uninterruptible, Terminal, Answers
<1>5. /\ Head(queue) \in {"on_started", "note"} => handle = "cleanup"
      /\ Head(queue) = "AUTHORIZED_MUTATION" => handle \in {"cleanup", "undo"}
      /\ Head(queue) \in Answers => shownPhase \in Terminal
  <2>1. Head(queue) \in Terminal => Head(queue) = Head(queue)
    OBVIOUS
  <2>. QED  BY <1>1, <2>1, TailShows DEF ScreenInv
<1>6. CASE Head(queue) \in Answers
  <2>1. Cancelled \/ Failed \/ Succeeded
    BY <1>3, <1>4, <1>6 DEF Shows
  <2>2. /\ name' = None
        /\ screen' \notin {"SCANNING", "REVALIDATING", "EXECUTING"}
        /\ shownPhase' \in Terminal \cup {"IDLE"}
    BY <1>5, <1>6, <2>1, AnswerScreens
  <2>3. Announces(queue', handle') /\ PhaseBeforeAnswer(queue', shownPhase')
    BY <1>2, <1>6, EmptyShows
  <2>. QED  BY <1>2, <1>6, <2>2, <2>3 DEF ScreenInv, ScreenMatchesWork
<1>7. CASE Head(queue) \in WorkPhase
  <2>1. PhaseChanged(Head(queue))
    BY <1>3, <1>4, <1>7 DEF Shows, Answers
  <2>2. shownPhase' = Head(queue) /\ name' = name /\ handle' = handle
    BY <1>2, <1>4, <1>7, <2>1 DEF PhaseChanged
  <2>3. Announces(queue', handle') /\ PhaseBeforeAnswer(queue', shownPhase')
    BY <1>1, <2>2, TailShows DEF ScreenInv
  <2>4. /\ screen' = screen \/ (handle = "cleanup" /\ screen' = "EXECUTING") \/ screen' = "RECOVERY"
    BY <1>5, <2>1 DEF PhaseChanged, ScreenInv, ScreenMatchesWork
  <2>. QED  BY <1>1, <2>2, <2>3, <2>4 DEF ScreenInv, ScreenMatchesWork, Busy
<1>8. CASE Head(queue) \in {"on_started", "note"}
  <2>1. Revalidating
    BY <1>3, <1>4, <1>8 DEF Shows, Answers
  <2>2. /\ screen' = "REVALIDATING" /\ handle = "cleanup" /\ handle' = handle
        /\ name' = name /\ shownPhase' = shownPhase
    BY <1>2, <1>4, <1>5, <1>8, <2>1 DEF Revalidating
  <2>3. Head(queue) \notin Terminal
    BY <1>8 DEF Terminal
  <2>4. Announces(queue', handle') /\ PhaseBeforeAnswer(queue', shownPhase')
    BY <1>1, <2>2, <2>3, TailShows DEF ScreenInv
  <2>. QED  BY <1>1, <2>2, <2>4 DEF ScreenInv, ScreenMatchesWork, Busy
<1>. QED  BY <1>2, <1>6, <1>7, <1>8 DEF Callbacks

\* Which operations make which calls.
LEMMA CallersOf ==
  ASSUME WorkerInv, NEW s \in Nat \ {0}, s = step
  PROVE  /\ At("note") => handle = "cleanup"
         /\ \A p \in Uninterruptible : At(p) => handle \in {"cleanup", "undo"}
<1>1. ASSUME NEW call, At(call), call # "checkpoint"
      PROVE  handle \in {"cleanup", "undo"}
  <2>1. handle \in Kinds /\ s <= Len(Program[handle]) /\ Program[handle][s] # "checkpoint"
    BY <1>1, WorkerAssumption DEF At, Remaining, WorkerInv, WorkerTypeOK, AtWork, Busy
  <2>. QED  BY <2>1, Programs, ControllerAssumption
<1>2. ASSUME At("note"), handle = "undo"
      PROVE  FALSE
  <2>1. s <= Len(Program["undo"]) /\ Program["undo"][s] = "note"
    BY <1>2 DEF At, Remaining
  <2>2. Program["undo"] = <<"checkpoint", "checkpoint", "RECONCILING", "AUTHORIZED_MUTATION",
                            "move">>
    BY DEF Program
  <2>3. s \in 1 .. 5
    BY <2>1, <2>2
  <2>4. s = 1 \/ s = 2 \/ s = 3 \/ s = 4 \/ s = 5
    BY <2>3
  <2>. QED  BY <2>1, <2>2, <2>4
<1>3. "checkpoint" \notin Uninterruptible
  BY DEF Uninterruptible
<1>. QED  BY <1>1, <1>2, <1>3

LEMMA OperationScreen ==
  ASSUME WorkerInv, DesktopInv, ScreenInv, OperationStep
  PROVE  ScreenInv'
<1>1. /\ UNCHANGED <<handle, screen, name, shownPhase>> /\ queue \in Seq(Callbacks)
      /\ Announces(queue, handle) /\ PhaseBeforeAnswer(queue, shownPhase)
  BY DEF OperationStep, TokenCall, CreateRuntime, Move, Blocked, Finish, Fail, Start, Complete,
         Checkpoint, Note, EnterTerminal, EnterPhase, Return, Raise, AnswerStopped, AnswerRaised,
         AnswerReturned, AnswerSucceeding, Answer, workerVars, WorkerInv, WorkerTypeOK, ScreenInv
<1>2. ASSUME Announces(queue', handle), PhaseBeforeAnswer(queue', shownPhase)
      PROVE  ScreenInv'
  BY <1>1, <1>2 DEF ScreenInv, ScreenMatchesWork, Busy
<1>3. ASSUME NEW c \in Callbacks, c \notin Answers, queue' = Append(queue, c),
             c \in {"on_started", "note"} => handle = "cleanup",
             c = "AUTHORIZED_MUTATION" => handle \in {"cleanup", "undo"}
      PROVE  ScreenInv'
  BY <1>1, <1>2, <1>3, AppendedShows
<1>4. queue' = queue => ScreenInv'
  BY <1>1, <1>2
<1>5. CASE TokenCall
  <2>1. step \in Nat \ {0}
    BY DEF DesktopInv
  <2>2. /\ "note" \in Callbacks \ Answers /\ "COMPLETE" \in Callbacks \ Answers
        /\ \A p \in Uninterruptible : p \in Callbacks \ Answers /\ p \notin {"on_started", "note"}
    BY DEF Callbacks, Answers, WorkPhase, Terminal, Uninterruptible
  <2>3. CASE At("checkpoint") /\ Checkpoint
    BY <1>4, <2>3 DEF Checkpoint
  <2>4. CASE At("note") /\ Note
    BY <1>3, <2>1, <2>2, <2>4, CallersOf DEF Note
  <2>5. CASE At("COMPLETE") /\ EnterTerminal("COMPLETE")
    BY <1>3, <2>2, <2>5 DEF EnterTerminal
  <2>6. ASSUME NEW p \in Uninterruptible, At(p), EnterPhase(p)
        PROVE  ScreenInv'
    <3>1. CASE requested
      BY <1>4, <2>6, <3>1 DEF EnterPhase
    <3>2. CASE ~requested
      BY <1>3, <2>1, <2>2, <2>6, <3>2, CallersOf DEF EnterPhase
    <3>. QED  BY <3>1, <3>2
  <2>. QED  BY <1>5, <2>3, <2>4, <2>5, <2>6 DEF TokenCall
<1>6. CASE Start
  <2>1. "on_started" \in Callbacks \ Answers
    BY DEF Callbacks, Answers
  <2>. QED  BY <1>3, <1>4, <1>6, <2>1, ControllerAssumption DEF Start
<1>7. CASE Complete
  <2>1. ASSUME NEW p \in Terminal, NEW c \in Answers, Answer(p, c)
        PROVE  ScreenInv'
    BY <1>1, <1>2, <2>1, AnsweredShows DEF Answer
  <2>2. /\ "COMPLETE" \in Terminal /\ "CANCELLED" \in Terminal /\ "FAILED" \in Terminal
        /\ "on_success" \in Answers /\ "on_cancel" \in Answers /\ "on_error" \in Answers
    BY DEF Terminal, Answers
  <2>. QED
    BY <1>4, <1>7, <2>1, <2>2
    DEF Complete, AnswerStopped, AnswerRaised, AnswerReturned, AnswerSucceeding
<1>8. CASE CreateRuntime \/ Move \/ Blocked \/ Finish \/ Fail
  BY <1>4, <1>8 DEF CreateRuntime, Move, Blocked, Finish, Fail, Return, Raise, workerVars
<1>. QED  BY <1>5, <1>6, <1>7, <1>8 DEF OperationStep

LEMMA FinishCancelScreen ==
  ASSUME WorkerInv, ScreenInv, FinishCancel
  PROVE  ScreenInv'
<1>1. /\ UNCHANGED <<handle, screen, name, shownPhase>> /\ queue \in Seq(Callbacks)
      /\ queue' \in {queue, queue \o <<"CANCELLED", "on_cancel">>}
      /\ Announces(queue, handle) /\ PhaseBeforeAnswer(queue, shownPhase)
  BY DEF FinishCancel, CancelFuture, WorkerInv, WorkerTypeOK, ScreenInv
<1>2. "CANCELLED" \in Terminal /\ "on_cancel" \in Answers
  BY DEF Terminal, Answers
<1>3. Announces(queue', handle) /\ PhaseBeforeAnswer(queue', shownPhase)
  BY <1>1, <1>2, AnsweredShows
<1>. QED  BY <1>1, <1>3 DEF ScreenInv, ScreenMatchesWork, Busy

-----------------------------------------------------------------------------

ControllerInv == ControllerTypes /\ ScreenInv

LEMMA ControllerInvHolds == Spec => []ControllerInv
<1>1. Init => ControllerInv
  <2>1. ASSUME Init PROVE ControllerTypes
    <3>1. moved \in BOOLEAN /\ scanned \in BOOLEAN /\ runtime \in BOOLEAN
      BY <2>1, Zenon DEF Init
    <3>2. /\ ShownTypes /\ CleanupTypes
      BY <2>1, <3>1 DEF Init, ShownTypes, CleanupTypes, DesktopState
    <3>3. OperationTypes
      BY <2>1, <3>1, ControllerAssumption DEF Init, OperationTypes
    <3>. QED  BY <3>2, <3>3 DEF ControllerTypes
  <2>2. ASSUME Init PROVE ScreenInv
    BY <2>2, EmptyShows DEF Init, WorkerInit, ScreenInv, ScreenMatchesWork
  <2>. QED  BY <2>1, <2>2 DEF ControllerInv
<1>2. WorkerInv /\ DesktopInv /\ ControllerInv /\ [Next]_vars => ControllerInv'
  <2>. SUFFICES ASSUME WorkerInv, DesktopInv, ControllerInv, [Next]_vars
                PROVE  ControllerInv'
    OBVIOUS
  <2>1. CASE UserStep
    BY <2>1, UserTypes, UserScreen DEF ControllerInv
  <2>2. CASE RunCallback
    BY <2>2, CallbackTypes, CallbackScreen DEF ControllerInv
  <2>3. CASE OperationStep
    BY <2>3, OperationKeepsTypes, OperationScreen DEF ControllerInv
  <2>4. ASSUME UNCHANGED <<operationVars, cleanupVars, screen, name, shownPhase, rows, ops>>,
               window' \in {window, "destroyed"}
        PROVE  ControllerTypes'
    BY <2>4 DEF ControllerInv, ControllerTypes, ShownTypes, CleanupTypes, OperationTypes,
                operationVars, cleanupVars
  <2>5. CASE FinishCancel
    BY <2>4, <2>5, FinishCancelScreen DEF FinishCancel, ControllerInv
  <2>6. CASE PollClose \/ UNCHANGED vars
    <3>1. ScreenInv'
      BY <2>6 DEF PollClose, vars, workerVars, ControllerInv, ScreenInv, ScreenMatchesWork, Busy
    <3>. QED  BY <2>4, <2>6, <3>1 DEF PollClose, vars, ControllerInv
  <2>. QED  BY <2>1, <2>2, <2>3, <2>5, <2>6 DEF Next
<1>. QED  BY <1>1, <1>2, DesktopInvHolds, PTL DEF Spec

\* TypeOK: every variable of the worker and of the controller has its type.
THEOREM DesktopTypeCorrect == Spec => []TypeOK
<1>1. WorkerInv /\ ControllerInv => TypeOK
  BY DEF WorkerInv, ControllerInv, ControllerTypes, ShownTypes, CleanupTypes, OperationTypes, TypeOK
<1>. QED  BY <1>1, DesktopInvHolds, ControllerInvHolds, PTL

\* ScreenMatchesWork: whatever the user clicks while callbacks wait, an operation
\* is named exactly while it occupies the worker, the screens of a scan and of a
\* cleanup are shown for no other, and no phase of work outlives its operation.
THEOREM ScreenAlwaysMatches == Spec => []ScreenMatchesWork
<1>1. ControllerInv => ScreenMatchesWork
  BY DEF ControllerInv, ScreenInv
<1>. QED  BY <1>1, ControllerInvHolds, PTL
=============================================================================
