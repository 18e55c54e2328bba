------------------------------ MODULE McpService ------------------------------
(***************************************************************************)
(* McpService (dwi/mcp/service.py): the workflow the MCP tools offer, from *)
(* a scan over a review that a human confirms to one execution and the     *)
(* Undo of what it quarantined, all through handles of HandleStore.        *)
(*                                                                         *)
(* Calls run in threads.  Each call of the store is atomic and so is the   *)
(* code up to the next one; between two of them other threads run and the  *)
(* clock may pass any TTL.  _workflow_lock is held by confirm_from_human-  *)
(* _channel and request_cleanup_execution.  A review, an execution and a   *)
(* recovery are named by their handles, the reservation of an execution by *)
(* the handle that is issued from it.                                      *)
(***************************************************************************)
EXTENDS HandleStore

CONSTANTS Threads, MaxItems, NoHandle, NoThread

OfType(type) == {h \in Handles : TypeOf[h] = type}

ASSUME ServiceAssumption ==
  /\ TypeOf \in [Handles -> {"scan", "review", "execution", "recovery"}]
  /\ HandleStates = {"ACTIVE", "WAITING_FOR_HUMAN_CONFIRMATION", "READY_FOR_EXECUTION",
                     "EXECUTING", "COMPLETE", "RECONCILIATION_REQUIRED", "FAILED"}
  /\ Reservations = OfType("execution")
  /\ MaxItems \in Nat \ {0}
  /\ NoHandle \notin Handles
  /\ NoThread \notin Threads

VARIABLES
  items,        \* plan items of each review
  confirmed,    \* reviews with a HumanConfirmation
  executionOf,  \* review.execution_handle
  reviewOf,     \* execution.review
  recoveries,   \* execution.recovery_handles
  finished,     \* executions whose result is set
  entered,      \* how often the engine was entered for a review
  lock,         \* holder of _workflow_lock
  pc,           \* next step of each thread
  arg,          \* the handle its call is about
  due,          \* recovery handles it has still to issue
  left          \* recovery handles it has still to resolve

objects == <<items, confirmed, executionOf, reviewOf, recoveries, finished, entered>>
vars == <<storeVars, objects, lock, pc, arg, due, left>>

Steps == {"idle", "remap", "plan", "transition", "checkExecution", "reserve", "issue", "giveUp",
          "begin", "engine", "issueRecovery", "complete", "release", "read", "failRelease",
          "failComplete", "status", "undo"}

Init ==
  /\ StoreInit
  /\ items = [v \in OfType("review") |-> 0]
  /\ confirmed = {}
  /\ executionOf = [v \in OfType("review") |-> NoHandle]
  /\ reviewOf = [x \in OfType("execution") |-> NoHandle]
  /\ recoveries = [x \in OfType("execution") |-> {}]
  /\ finished = {}
  /\ entered = [v \in OfType("review") |-> 0]
  /\ lock = NoThread
  /\ pc = [t \in Threads |-> "idle"]
  /\ arg = [t \in Threads |-> NoHandle]
  /\ due = [t \in Threads |-> 0]
  /\ left = [t \in Threads |-> {}]

Goto(t, step, h, number, rest) ==
  /\ pc' = [pc EXCEPT ![t] = step]
  /\ arg' = [arg EXCEPT ![t] = h]
  /\ due' = [due EXCEPT ![t] = number]
  /\ left' = [left EXCEPT ![t] = rest]

\* The call goes on with the handle h, and without the workflow lock if it had none.
Work(t, step, h) == Goto(t, step, h, 0, {}) /\ UNCHANGED lock

\* Variant: the loop over the recoveries runs once more.
IssueNext_Beyond(t, number) ==
  /\ Goto(t, IF number < 0 THEN "complete" ELSE "issueRecovery", arg[t], number, {})
  /\ UNCHANGED lock

IssueNext(t, number) ==
  /\ Goto(t, IF number = 0 THEN "complete" ELSE "issueRecovery", arg[t], number, {})
  /\ UNCHANGED lock

ReadNext(t, step, rest) == Goto(t, step, arg[t], 0, rest) /\ UNCHANGED lock

\* The call returns or raises.
Return(t) == Goto(t, "idle", NoHandle, 0, {}) /\ UNCHANGED lock

ReturnUnlocked(t) == Goto(t, "idle", NoHandle, 0, {}) /\ lock' = NoThread

\* Handles a caller can name: a scan handle is handed out only when its findings are remapped.
Known == issued \ {arg[t] : t \in {u \in Threads : pc[u] = "remap"}}

-----------------------------------------------------------------------------
(* Scan and review. *)

Scan(t) ==
  /\ pc[t] = "idle"
  /\ \E h \in OfType("scan") :
       /\ Issue(h, "scan", "ACTIVE")
       /\ IF HasRoom(Purged) THEN Work(t, "remap", h) ELSE Return(t)
  /\ UNCHANGED objects

RemapScan(t) ==
  /\ pc[t] = "remap"
  /\ Resolve
  /\ Return(t)
  /\ UNCHANGED objects

CreateReview(t) ==
  /\ pc[t] = "idle"
  /\ \E h \in Known :
       /\ IF Resolves(Purged, h, "scan", FALSE)
          THEN Work(t, "plan", h) ELSE Return(t)
       /\ Resolve
  /\ UNCHANGED objects

\* The planner may refuse the findings; a plan has at least one item.
IssueReview(t) ==
  /\ pc[t] = "plan"
  /\ \/ /\ UNCHANGED <<storeVars, items>>
     \/ \E h \in OfType("review"), n \in 1..MaxItems :
          /\ Issue(h, "review", "WAITING_FOR_HUMAN_CONFIRMATION")
          /\ items' = IF HasRoom(Purged) THEN [items EXCEPT ![h] = n] ELSE items
  /\ Return(t)
  /\ UNCHANGED <<confirmed, executionOf, reviewOf, recoveries, finished, entered>>

-----------------------------------------------------------------------------
(* Confirmation and the request for an execution handle, under the lock. *)

\* create_human_confirmation may reject what it is given.
Confirm(t) ==
  /\ pc[t] = "idle" /\ lock = NoThread
  /\ \E v \in Known, accepted \in BOOLEAN :
       IF Resolves(Purged, v, "review", FALSE) /\ v \notin confirmed /\ accepted
       THEN /\ confirmed' = confirmed \cup {v}
            /\ Goto(t, "transition", v, 0, {})
            /\ lock' = t
       ELSE Return(t) /\ UNCHANGED confirmed
  /\ Resolve
  /\ UNCHANGED <<items, executionOf, reviewOf, recoveries, finished, entered>>

MarkConfirmed(t) ==
  /\ pc[t] = "transition"
  /\ Transition(arg[t], "review", "READY_FOR_EXECUTION")
  /\ ReturnUnlocked(t)
  /\ UNCHANGED objects

\* Execution handles not yet drawn: their number bounds the reservations.
Unused == OfType("execution") \ DOMAIN store.reservations

\* Variant: the request is not under the workflow lock.
RequestExecution_Unlocked(t) ==
  /\ pc[t] = "idle"
  /\ \E v \in Known :
       IF Resolves(Purged, v, "review", FALSE) /\ v \in confirmed
       THEN /\ executionOf[v] = NoHandle => Unused # {}
            /\ Work(t, IF executionOf[v] = NoHandle THEN "reserve" ELSE "checkExecution", v)
       ELSE Return(t)
  /\ Resolve
  /\ UNCHANGED objects

\* Variant: any review may be executed.
RequestExecution_Unconfirmed(t) ==
  /\ pc[t] = "idle" /\ lock = NoThread
  /\ \E v \in Known :
       IF Resolves(Purged, v, "review", FALSE)
       THEN /\ executionOf[v] = NoHandle => Unused # {}
            /\ Goto(t, IF executionOf[v] = NoHandle THEN "reserve" ELSE "checkExecution", v, 0, {})
            /\ lock' = t
       ELSE Return(t)
  /\ Resolve
  /\ UNCHANGED objects

RequestExecution(t) ==
  /\ pc[t] = "idle" /\ lock = NoThread
  /\ \E v \in Known :
       IF Resolves(Purged, v, "review", FALSE) /\ v \in confirmed
       THEN /\ executionOf[v] = NoHandle => Unused # {}
            /\ Goto(t, IF executionOf[v] = NoHandle THEN "reserve" ELSE "checkExecution", v, 0, {})
            /\ lock' = t
       ELSE Return(t)
  /\ Resolve
  /\ UNCHANGED objects

\* An execution handle exists: it is resolved twice, then answered, or the call raises.
CheckExecution(t) ==
  /\ pc[t] = "checkExecution"
  /\ Resolve
  /\ ReturnUnlocked(t)
  /\ UNCHANGED objects

\* Variant: no slot for the execution handle itself.
ReserveSlots_ItemsOnly(t) ==
  /\ pc[t] = "reserve"
  /\ \E x \in Unused :
       /\ Reserve(x, items[arg[t]])
       /\ IF CanReserve(Purged, items[arg[t]])
          THEN /\ reviewOf' = [reviewOf EXCEPT ![x] = arg[t]]
               /\ Work(t, "issue", x)
          ELSE /\ UNCHANGED reviewOf
               /\ ReturnUnlocked(t)
  /\ UNCHANGED <<items, confirmed, executionOf, recoveries, finished, entered>>

\* One slot for the execution handle and one for each item's recovery handle.
ReserveSlots(t) ==
  /\ pc[t] = "reserve"
  /\ \E x \in Unused :
       /\ Reserve(x, 1 + items[arg[t]])
       /\ IF CanReserve(Purged, 1 + items[arg[t]])
          THEN /\ reviewOf' = [reviewOf EXCEPT ![x] = arg[t]]
               /\ Work(t, "issue", x)
          ELSE /\ UNCHANGED reviewOf
               /\ ReturnUnlocked(t)
  /\ UNCHANGED <<items, confirmed, executionOf, recoveries, finished, entered>>

IssueExecution(t) ==
  /\ pc[t] = "issue"
  /\ IssueReserved(arg[t], "execution", "READY_FOR_EXECUTION", arg[t])
  /\ IF CanTake(Purged, arg[t])
     THEN /\ executionOf' = [executionOf EXCEPT ![reviewOf[arg[t]]] = arg[t]]
          /\ ReturnUnlocked(t)
     ELSE /\ UNCHANGED executionOf
          /\ Work(t, "giveUp", arg[t])
  /\ UNCHANGED <<items, confirmed, reviewOf, recoveries, finished, entered>>

GiveUp(t) ==
  /\ pc[t] = "giveUp"
  /\ Release(arg[t])
  /\ ReturnUnlocked(t)
  /\ UNCHANGED objects

-----------------------------------------------------------------------------
(* Execution. *)

Execute(t) ==
  /\ pc[t] = "idle"
  /\ \E x \in Known :
       /\ Consume(x, "execution")
       /\ IF Resolves(Purged, x, "execution", FALSE)
          THEN Work(t, "begin", x) ELSE Return(t)
  /\ UNCHANGED objects

BeginExecution(t) ==
  /\ pc[t] = "begin"
  /\ Begin(arg[t])
  /\ Work(t, IF CanBegin(Purged, arg[t]) THEN "engine" ELSE "failRelease", arg[t])
  /\ UNCHANGED objects

\* execute_cleanup_session returns the recoveries of some of the items, or raises.
RunEngine(t) ==
  /\ pc[t] = "engine"
  /\ LET v == reviewOf[arg[t]] IN
       /\ entered' = [entered EXCEPT ![v] = @ + 1]
       /\ \/ Work(t, "failRelease", arg[t])
          \/ \E n \in 0..items[v] : IssueNext(t, n)
  /\ UNCHANGED <<storeVars, items, confirmed, executionOf, reviewOf, recoveries, finished>>

IssueRecovery(t) ==
  /\ pc[t] = "issueRecovery"
  /\ \E r \in OfType("recovery") :
       /\ IssueReserved(r, "recovery", "ACTIVE", arg[t])
       /\ IF CanTake(Purged, arg[t])
          THEN /\ recoveries' = [recoveries EXCEPT ![arg[t]] = @ \cup {r}]
               /\ IssueNext(t, due[t] - 1)
          ELSE Work(t, "failRelease", arg[t]) /\ UNCHANGED recoveries
  /\ UNCHANGED <<items, confirmed, executionOf, reviewOf, finished, entered>>

CompleteExecution(t) ==
  /\ pc[t] = "complete"
  /\ finished' = finished \cup {arg[t]}
  /\ \E state \in {"COMPLETE", "RECONCILIATION_REQUIRED"} : Complete(arg[t], "execution", state)
  /\ Work(t, "release", arg[t])
  /\ UNCHANGED <<items, confirmed, executionOf, reviewOf, recoveries, entered>>

ReleaseSlots(t) ==
  /\ pc[t] = "release"
  /\ Release(arg[t])
  /\ ReadNext(t, "read", recoveries[arg[t]])
  /\ UNCHANGED objects

\* _safe_execution_result: the answer names every recovery handle, each of which must resolve.
ReadResult(t) ==
  /\ pc[t] \in {"read", "status"}
  /\ IF left[t] = {} THEN Return(t) /\ UNCHANGED storeVars
     ELSE \E r \in left[t] :
            /\ Resolve
            /\ IF Resolves(Purged, r, "recovery", TRUE)
               THEN ReadNext(t, pc[t], left[t] \ {r})
               ELSE IF pc[t] = "read" THEN Work(t, "failRelease", arg[t]) ELSE Return(t)
  /\ UNCHANGED objects

\* Variant: a failed execution keeps its reservation.
FailRelease_Keeps(t) ==
  /\ pc[t] = "failRelease"
  /\ Work(t, "failComplete", arg[t])
  /\ UNCHANGED <<storeVars, objects>>

FailRelease(t) ==
  /\ pc[t] = "failRelease"
  /\ Release(arg[t])
  /\ Work(t, "failComplete", arg[t])
  /\ UNCHANGED objects

FailComplete(t) ==
  /\ pc[t] = "failComplete"
  /\ Complete(arg[t], "execution", "FAILED")
  /\ Return(t)
  /\ UNCHANGED objects

-----------------------------------------------------------------------------
(* Status and Undo. *)

\* get_execution_status resolves the execution and, when it has a result, all its recoveries;
\* get_recovery_status resolves a page of them at any time.
GetStatus(t) ==
  /\ pc[t] = "idle"
  /\ \E x \in Known :
       IF Resolves(Purged, x, "execution", TRUE)
       THEN \E page \in SUBSET recoveries[x] : Goto(t, "status", x, 0, page) /\ UNCHANGED lock
       ELSE Return(t)
  /\ Resolve
  /\ UNCHANGED objects

RequestUndo(t) ==
  /\ pc[t] = "idle"
  /\ \E r \in Known :
       /\ Consume(r, "recovery")
       /\ IF Resolves(Purged, r, "recovery", FALSE)
          THEN Work(t, "undo", r) ELSE Return(t)
  /\ UNCHANGED objects

FinishUndo(t) ==
  /\ pc[t] = "undo"
  /\ \E state \in {"COMPLETE", "FAILED"} : Complete(arg[t], "recovery", state)
  /\ Return(t)
  /\ UNCHANGED objects

ClockTicks == Tick /\ UNCHANGED <<objects, lock, pc, arg, due, left>>

ThreadStep(t) ==
  \/ Scan(t) \/ RemapScan(t) \/ CreateReview(t) \/ IssueReview(t)
  \/ Confirm(t) \/ MarkConfirmed(t)
  \/ RequestExecution(t) \/ CheckExecution(t) \/ ReserveSlots(t) \/ IssueExecution(t) \/ GiveUp(t)
  \/ Execute(t) \/ BeginExecution(t) \/ RunEngine(t) \/ IssueRecovery(t) \/ CompleteExecution(t)
  \/ ReleaseSlots(t) \/ ReadResult(t) \/ FailRelease(t) \/ FailComplete(t)
  \/ GetStatus(t) \/ RequestUndo(t) \/ FinishUndo(t)

Next == ClockTicks \/ \E t \in Threads : ThreadStep(t)

Spec == Init /\ [][Next]_vars

-----------------------------------------------------------------------------
(* What the service promises. *)

\* Every part of the workflow has its type.
ServiceTypeOK ==
  /\ StoreTypeOK
  /\ items \in [OfType("review") -> 0..MaxItems]
  /\ confirmed \subseteq issued \cap OfType("review")
  /\ executionOf \in [OfType("review") -> OfType("execution") \cup {NoHandle}]
  /\ reviewOf \in [OfType("execution") -> OfType("review") \cup {NoHandle}]
  /\ recoveries \in [OfType("execution") -> SUBSET (issued \cap OfType("recovery"))]
  /\ finished \subseteq issued \cap OfType("execution")
  /\ entered \in [OfType("review") -> Nat]
  /\ lock \in Threads \cup {NoThread}
  /\ pc \in [Threads -> Steps]
  /\ arg \in [Threads -> Handles \cup {NoHandle}]
  /\ due \in [Threads -> 0..MaxItems]
  /\ left \in [Threads -> SUBSET OfType("recovery")]

\* A confirmed review runs at most once, whatever callers request, repeat or race for, and after
\* its handles have expired (request_cleanup_execution, execute_cleanup).
OneExecution == \A v \in OfType("review") : entered[v] <= 1

\* The engine runs only for a review a human has confirmed.
ConfirmedFirst == \A v \in OfType("review") : entered[v] > 0 => v \in confirmed

\* While the engine runs and its recovery handles are issued, the reservation holds a slot for
\* each of them: what was quarantined never lacks its handle for want of capacity or time.
RecoveriesCovered ==
  \A t \in Threads :
    LET x == arg[t] IN
    /\ pc[t] = "engine" =>
         /\ x \in ActiveReservations(store)
         /\ store.reservations[x].inFlight
         /\ store.reservations[x].remaining >= items[reviewOf[x]]
    /\ pc[t] = "issueRecovery" =>
         /\ x \in ActiveReservations(store)
         /\ store.reservations[x].inFlight
         /\ store.reservations[x].remaining >= due[t]

\* A live execution handle with a result has only live recovery handles, so that a status call
\* that resolves the execution can resolve them too (_safe_execution_result).
ResultReadable ==
  LET usable == Live(store) \ ExpiredIn(store.entries)
  IN  \A x \in finished \cap usable : recoveries[x] \subseteq usable

\* Capacity is held past its TTL only while an execution is under way.
NothingLeaked ==
  \A r \in ActiveReservations(store) :
    store.reservations[r].inFlight =>
      \E t \in Threads :
        /\ arg[t] = r
        /\ pc[t] \in {"engine", "issueRecovery", "complete", "release", "failRelease"}
=============================================================================
