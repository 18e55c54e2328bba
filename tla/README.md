# A TLA+ model of DWI

DWI ("Developer Workspace Intelligence") finds directories that a developer
can do without (`__pycache__`, `.venv`, `node_modules`, tool caches), explains
why it believes so and, only after a human has confirmed a plan, moves them
into a quarantine from which they can be restored. This directory holds TLA+
specifications of the program, configurations that model-check them with TLC,
and proofs checked by TLAPS.

All paths below are relative to `src/`.

## 1. The system

    scanner, detectors  ->  dispatcher -> pipeline (policy)  ->  findings
          |                                                        |
      scan budget                                          cleanup plan, session
                                                                   |
    Desktop worker / MCP service  --- confirm, execute, undo --->  mutation engine
                                                                   |
                                            audit journal, claim files, quarantine root

| Component | State it keeps | Operations | What makes it correct |
|---|---|---|---|
| Mutation engine (`dwi/mutation.py`) | the quarantine root: one slot per recovery, one claim file per plan item; the journal; within an operation, what it has read and observed | `quarantine_plan`, `reconcile_pending_operations`, `restore_recovery`, `inspect_quarantine_inventory` | a directory is never lost, overwritten or moved twice; an approval is used once; after a stop at any point the next invocation finds out what happened, and Undo still works |
| Audit journal (`mutation.py`, `AuditJournal`) | an append-only file whose lines form a hash chain, and a named lock | `read_entries`, `read_claims`, `append` | an append extends the chain it was prepared for or fails; a torn or foreign line is detected |
| Cleanup plan, session, authorization (`dwi/cleanup.py`, `dwi/application.py`) | immutable plan, review, confirmation, validation and authorization objects bound by digests and private proofs; the consumed items of an authorization | `create_cleanup_plan`, `validate_cleanup_plan`, `authorize_execution`, `execute_cleanup_session` | only what was reviewed, confirmed and freshly revalidated is mutated; pending recovery is settled first |
| Cleanup runtime (`dwi/cleanup_engine.py`) | the mutation provider and its root | `undo`, `recovery_entries`, revalidators | Undo runs after reconciliation, on the recovery asked for |
| MCP handle store (`dwi/mcp/state_store.py`) | live entries, tombstones, reserved slots, reservations, under one lock | `reserve`, `release`, `begin`, `issue`, `resolve`, `transition`, `consume`, `complete` | bounded, exact accounting of slots; one-shot handles; a handle that expired is answered as stale |
| MCP service (`dwi/mcp/service.py`, `server.py`) | payloads of the handles: scan, review, execution, recovery; the workflow lock | the MCP tools and the human confirmation channel | one confirmed execution per review; whatever was quarantined has a handle for its Undo |
| Desktop worker (`dwi/desktop/worker.py`) | the active operation, its future, its cancellation token with the phase; the callbacks dispatched to the UI thread | `submit`, `cancel`; `checkpoint`, `enter_phase`, `terminal`; the end of an operation | one operation at a time; an accepted cancellation keeps the operation out of the phases that cannot be cancelled; every operation ends in one answer that frees the worker |
| Desktop controller and window (`dwi/desktop/controller.py`, `app.py`) | the state model shown; findings, selection, session, review, recovery rows; the runtime; whether the window is closing | scan, select, review, confirm, execute, recover, undo, cancel, close; one callback per outcome | what is shown is what runs; nothing is moved after a cancellation; no work outlives the window |
| Policy and pipeline (`dwi/policy.py`, `pipeline.py`, `domain.py`, `contracts.py`, `dispatcher.py`) | none (pure functions) | evidence to risk label, eligibility and rule trace | uncertainty never makes an artifact more eligible; risk only escalates |
| Scanner and scan budget (`dwi/scanner.py`, `scan_control.py`, `size.py`, `system_scan.py`) | counters, termination reason | `poll`, `observe_node`, traversal | a scan that was cut short says so and is not used to plan |
| Detectors (`dwi/pycache.py`, ... `node_artifacts.py`) | none | observe identity, read markers, observe again | a directory that changed under the detector is not classified |
| Desktop views (widgets), command lines, reports | none that a property is about | layout, wording, measurements | - |

How they interact: the two front ends (Desktop, MCP) and the command lines call
the session; the session calls the mutation engine through the runtime. Several
such processes may run at once and share nothing but the file system: the
journal, the claim files, the quarantine slots and the original paths, which the
build tools that own the caches also change. Within the MCP process, calls share
the handle store and the payload objects. Within the Desktop process, one
background thread and the UI thread share the worker, and results reach the UI
thread as dispatched callbacks.

The hard behaviours:

- a stop between any two steps of the engine: between a claim and its record,
  an intent and its rename, a rename and its record;
- appends that fail before or after they took effect, or cut a line short;
- two processes that execute, reconcile or undo the same item;
- a build tool that removes or re-creates a directory at any moment;
- handles and reservations whose TTL passes between two steps of a call;
- cancellation that races with the start of the mutation phase;
- tools that replace, rewrite or link away a directory between any two looks of a
  scan, of the observation of identities, of the revalidation and of the engine;
- a scan whose budget is used up exactly, or in the last entry of a directory;
- an engine that is interrupted in the middle of a plan, whose session must still
  report what was moved;
- reads that fail while a detector looks: the less it sees, the less it may offer.

`PROJECT.json` lists each hazard at the line where it bites, with the properties
that would catch it going wrong.

## 2. Modules

| Module | Models | Extends or instantiates |
|---|---|---|
| `ReversibleCleanup` | the abstract promise: a directory is at home, in its own slot, or gone by the tool's hand; each slot is filled once and emptied once | - |
| `Quarantine` | the mutation engine with its journal, claims, processes, crashes and faults | `INSTANCE ReversibleCleanup` |
| `MCQuarantine` | instances of `Quarantine` for TLC | `Quarantine` |
| `QuarantineProofs` | theorems about `Quarantine`, for any number of processes | `Quarantine` |
| `RecoveryProofs` | theorems about `Quarantine` with one process at a time: reconciliation, the gate, Undo | `QuarantineProofs` |
| `HandleStore` | the MCP registry | - |
| `HandleStoreProofs` | theorems about `HandleStore` | `HandleStore` |
| `McpService` | the MCP workflow over the registry, in threads | `HandleStore` |
| `MCMcpService` | an instance of it | `McpService` |
| `McpProofs` | theorems about `McpService` over the registry | `McpService`, `HandleStoreProofs` |
| `DesktopWorker` | one background operation, its token, future and callbacks, in two threads | - |
| `DesktopController` | the five operations of the Desktop, their callbacks, the state shown and the closing of the window | `DesktopWorker` |
| `MCDesktop` | an instance of it | `DesktopController` |
| `DesktopProofs` | theorems about `DesktopController` and its worker | `DesktopController` |
| `Evidence` | evidence, contracts, candidate selection, the Safety Policy and the pipeline, as functions | - |
| `PythonDetectors`, `NodeDetectors` | every detector and its interpretation, and the dispatcher, as functions | `Evidence`; `PythonDetectors` |
| `Analysis` | one candidate, analysed again and again while reads of it get lost | `NodeDetectors` |
| `MCAnalysis` | an instance of it | `Analysis` |
| `AnalysisProofs` | theorems about the policy and about `Analysis` | `Analysis` |
| `Scan` | one scan of a root with its budget, while tools change what is below it | `NodeDetectors` |
| `CleanupSession` | plan, review, fresh revalidation, engine loop and report | `Scan` |
| `MCCleanup` | an instance of it | `CleanupSession` |
| `CleanupProofs` | theorems about `CleanupSession` and its scans | `CleanupSession` |

Definitions named `<Operator>_<Something>` under a comment "Variant:" are
plausible slips of the code, one for each checked property. Nothing uses them;
each, put in the place of its operator, makes TLC refute its property.

### 2.1 Quarantine

State and code:

| Variable | Code |
|---|---|
| `journal[r]` | the journal lines of recovery `r`, as its latest status and the set of statuses it has had. That is all that the engine asks of them |
| `torn` | the last line of the journal is incomplete |
| `claim[r]` | the exclusively created claim file of the plan item: absent, created, or created and written |
| `at[o]` | where directory `o` is: an original path, the slot of a recovery, or nowhere |
| `pc[p]`, `op[p]`, `todo[p]`, `cur[p]` | the next step of process `p`, its operation, the items it has still to deal with, the one it deals with |
| `view[p]`, `work[p]` | the journal copy and the worklist of a reconciliation |
| `observed[p]`, `verdict[p]`, `bad[p]`, `touched[p]` | what it observed in the slot, what it will record, whether it saw an inconsistency, whether it changed anything |
| `raced[p]` | another process has appended since `p` prepared its next line |
| `crashes` | number of stops so far |
| `missed` | recoveries whose filled slot an observation failed to see (no code) |

A *recovery* is a plan item together with its slot and its claim file: the code
derives all three from the plan and item identities, so executing the same plan
again meets the same recovery. `home` and `target` are constants: the path of
the item and the directory (identity) that was reviewed. Two plans may name the
same path.

Actions. Each action is the code between two points at which another process, a
crash or a failure makes a difference: one file-system effect, one append or one
observation. `Inventory` to `PendingDone` are `reconcile_pending_operations`,
with its gate `inspect_quarantine_inventory`; `NextItem` to `AppendFailed`
are the loop of `quarantine_plan`; `CheckRestore` to `AppendRestoreFailed` are
`restore_recovery`. `ReconciliationEnds` is the branch of the session that
refuses to mutate when reconciliation has changed or could not settle anything.
`Crash` stops a process at any step, with half a line written if it was
appending. `ToolCreates` and `ToolRemoves` are the build tool.

Abstractions, each of which adds behaviours rather than removing them, unless
marked:

- the journal line is reduced to recovery and status; an append is one atomic
  step under the named lock, which fails when another process has appended since
  the line was prepared (`raced`), when the tail is torn, or for reasons of I/O,
  and may then have taken effect all the same (`flush` or `fsync` failed after
  the write);
- items are taken in any order;
- the checks of revalidation outside the engine may fail at any time (`Revalidate`);
- an observation (`Look`) may fail whatever is at the place, when `IOFaults`: `lstat`
  fails, or the path has no authority (`_observe_identity`). The code cannot tell that from
  an empty place, and `_lexists` then says that nothing is there (`SeemsFree`);
- the last validation (`Recheck`) and the rename are two steps: the rename takes whatever
  is at the path by then, so the slot may hold a directory other than `target[r]`;
- a cancelled or interrupted call (`KeyboardInterrupt`) is a crash followed by a
  new invocation;
- (narrower) rename does not replace an existing directory: that is what Windows,
  the platform the program supports, guarantees;
- (narrower) the one-shot object in memory, `_AuthorizationConsumption`, is left
  out: the claim file is what binds processes, and is stronger;
- (narrower) the quarantine root exists.

### 2.2 HandleStore and McpService

`store` holds the entries, the tombstones, `_reserved_slots` and the reservations
of `OpaqueHandleStore`; `now` is its monotonic clock; `issued` remembers all
texts ever drawn (256 random bits are not drawn twice). Every operation starts
with the purge of what has expired, in one step under the store's lock. The text
of a handle carries its type, so the type is a constant of the handle.

`McpService` gives each thread a program counter and lets the clock advance and
other threads run between any two calls of the store, except that
`_workflow_lock` is held by the confirmation and by the request for an execution
handle. `items`, `confirmed`, `executionOf`, `reviewOf`, `recoveries` and
`finished` are the payload objects. `entered` counts how often the engine was
called for a review. The engine itself returns recoveries for some of the items,
or raises; `Quarantine` says what happens inside. Left out: validation of the
arguments, pagination cursors (a page of recoveries is any subset of them), the
text of the answers.

### 2.3 DesktopWorker and DesktopController

| Variable | Code |
|---|---|
| `handle` | the kind of operation in the worker's `_active`; the worker is busy while there is one |
| `requested`, `phase` | `_event` and `_phase` of its token, which change under the token's lock |
| `future` | the executor's future, pending until it is started or cancelled |
| `thread`, `value` | where the worker thread is, and what the operation returned |
| `queue` | callbacks dispatched to the UI thread and not run yet; a phase in it stands for `on_phase` of that phase |
| `cancelling` | the UI thread is inside `cancel()`, between the token and the future |
| `step`, `moved` | how far the operation is in its `Program` of token calls, and whether it has moved a directory |
| `screen`, `name`, `shownPhase` | `state`, `operation_name` and `operation_phase` of the state model |
| `scanned`, `findings`, `selected`, `captured` | the scan shown, its eligible findings, the selection, and the selection a review was submitted with |
| `session`, `review`, `rows`, `runtime` | the items of the session's plan, those the review shows, the recoveries that may be undone, whether there is a cleanup runtime |
| `window` | open, closing (polled), destroyed |
| `ops` | operations submitted so far |

Two threads interleave. `Submit` to `Deliver`, and with them the user's actions
and the callbacks of the controller, are steps of the UI thread; `Start` to
`Complete` are the worker thread. Only `cancel()` is cut in two on the UI thread,
because the worker thread may start the operation between the request and
`future.cancel()`; and `completed()` is cut where it has found no cancellation
and not yet set the terminal phase. One token is enough, since the token of a new
operation replaces that of one that has been answered. A callback of the worker
and `finish()` after it are one step, as nothing else runs on the UI thread
meanwhile. `UndoSucceeded` also stands for the refresh it asks for: `finish()`
runs after `on_success`, so `refresh_recovery` finds the worker busy and does
nothing.

Abstractions: `progress_indeterminate` is set and cleared with `operation_name`,
and is not kept apart; messages, filters, sorting and settings are left out. What
the scan finds, the plan keeps and the engine moves is any choice; an operation
may fail wherever the code lets an exception out. The user may press cancel in a
closing window too, until a redraw disables the button. The executor and the dispatch
through Tk are modelled by what the worker relies on: one thread, callbacks in
the order of their dispatch.

### 2.4 Evidence, PythonDetectors, NodeDetectors and Analysis

The way from what is at a path to a finding is a pure function in the code, and
a composition of operators here: `Detection` (the inspectors), `Interpret` (the
interpretations), `SelectCandidate`, `RiskLabel` (the rules of `evaluate_safety`
in their order), `ActionEligibility`, and `EvaluateAnalysis` around them.
Operators keep the names of the functions. What a detector finds at a path is a
record: the object lstat shows, whether its entries can be listed, whether the
root bears the marker of a disposable root, and for each sort of entry the
detector looks for the set of ways in which such entries read ("valid", "weak",
"corrupt", "unreadable", ... as far as the detector tells them apart). A scope of
`node_modules` is a directory that may hold no package; a scope that cannot be listed reads
like a link among the packages.

`Analysis` makes a state machine of it: `Analyse` is `analyze_candidate` of the
dispatcher; `EntryIsLost`, `ListingIsLost` and `ObjectIsLost` take the access to
a part of the directory away between two analyses. `dir` starts as any directory
the detector can meet.

| Variable | Code |
|---|---|
| `artifact`, `dir` | the candidate: what its name announces and what the detector reads |
| `finding` | the last `Finding`, with the detection and interpretation it came from |
| `current` | no read was lost since (no code) |

Abstractions: observations are a set, since no conclusion depends on their order
or number; `Provenance` is a Boolean and a contract a set of keys, since all of
them ask for HIGH confidence; bytes and JSON are reduced to how they read;
explanations, the rule trace, regeneration cost and reclaim priority are left
out, since no decision reads them. Each part of a directory is read once and on
its own, so a directory that changes while a detector reads it looks like one of
the records considered. Whether a configuration file of Next.js that cannot be read exists
can always be told (`node_artifacts.py:414`); where it cannot, the code raises instead, and
the scan counts a failure and has no finding (`scanner.py:246`).

### 2.5 Scan and CleanupSession

| Variable | Code |
|---|---|
| `at` | the disk: at each path the kind of object, its identity and content |
| `scan` | the locals of `scan_workspace`: `pc` (the next look at the disk), `stack`, the entries still to be taken (`entries`), `metadata` of the first look, the budget, the flags of what failed or was ambiguous, the findings |
| `steady`, `linked` | the candidates no tool has touched since the scan began, or since the engine validated its item for the last time; whether a directory became a link since the scan began (no code) |
| `mode`, `phase`, `todo` | who scans, where `create_..._cleanup_plan` or `execute_cleanup_session` is, and the findings or items still to be treated |
| `identities`, `plan`, `fresh` | the `FilesystemIdentity` observations, the plan's snapshots, those of the fresh scan |
| `claims`, `record`, `stage`, `slot`, `moved` | what the session can see of the engine: claim files, the last record of each item, how far it is, what is in the slots, what was renamed and by which execution |
| `missed` | items whose slot the last reconciliation could not observe (no code) |
| `outcomes`, `state` | `CleanupApplicationResult` |

The tree is given by constants: `Above[p]` are the directories that `p` is in and
`Position[p]` its place when all paths are sorted by name, so a traversal takes the
entry that `Final` names, and the session its items in the order of `First`. Tools
remove directories and candidates, make candidates anew, rewrite them, and put
links in the place of directories.

`Gate` to `MeasureAndRecord` are the scan, one look at the disk per action; the
budget (`Poll`, `ObserveNode`, `CollectSize`) is counted as the code does, a
regular file twice. `StartScan` to `CreateCleanupPlan` plan; `Execute` to
`Revalidate` are the session up to the engine; `RefuseItem` to `FailItem` are
its loop; `InterruptEngine` is Ctrl+C or an unexpected exception at any point of
it; the three reports are the three ways a session ends. An execution may be
repeated without a limit, which is the retry of a user. `Tool` changes the disk between
any two of these steps.

The last validation of an item (`ValidateItem`, `mutation.py:1491-1495`) and its rename
(`RenameItem`, `mutation.py:1496-1497`) are two steps. The rename asks nothing of what it
takes: it moves what the path leads to when it happens, through a link above it something
outside of the root, and `slot` remembers the identity of what came. The next execution
meets that state again: `InventoryAccepts` is `inspect_quarantine_inventory` as far as it
compares the slots of the plan with the journal and with the identities, and `Reconcile` is
`reconcile_pending_operations`, each of whose observations of an original path or a slot
may fail. Both run before an execution (`RecoverFirst`) and after an interrupted one
(`ReportAfterInterrupt`).

Abstractions:

- pytest caches stand for the artifacts: nothing else is ever eligible
  (`EligibleDisposable`, section 4); plain files only use up the budget;
- a cancelled scan and one that is out of time are both "interrupted", found at
  any poll; a detector reads a candidate at one instant (2.4 covers the rest);
- tools pause while a person reviews a plan or reads a report, when nothing looks
  at the disk: what they do then they may as well do when the execution has begun;
- a plan without items is not offered, as the front ends refuse to review one
  (`controller.py:503`);
- (narrower) every append of a reconciliation succeeds; `Quarantine` has those that fail,
  and other processes and stops;
- (narrower) a rename that raises after it has moved the directory is `Quarantine`'s, too;
- (narrower) digests, capabilities, bindings and the narrowing of authorizations
  cannot fail within one session and are left out;
- (narrower) one root per scan: the loop of `scan_system` over roots and storage
  locations, `.git` metadata and directories that are met twice are left out, and
  so is a failure to read the marker of the disposable root.

## 3. What the runs check

| Run | Instance | Question | Distinct states |
|---|---|---|---|
| `one_process` | 1 process, 2 plans of one item each, 2 crashes, all faults, tool removes | Does a committed quarantine ever end as an ordinary failure but for a failed observation of its filled slot (`StrandedOnlyUnseen`)? Does a session ever pass the gate while a move of any plan is under way or a claim of its own plan is not settled (`SessionStartsSettled`)? Is "restored" final (`RestoredIsTerminal`) and its slot empty (`RestoredMeansEmptySlot`)? Has every move a durable intent (`MovesAreJournaledFirst`)? While the tool keeps out, are a torn journal, a half-written claim and an item that failed before its move the only things the next invocation refuses (`OnlyKnownBlockers`)? The inductive invariant `Consistent` | 3.8 million |
| `races` | 2 processes, 1 item, 1 crash, tool removes and re-creates | `OneOwner`, `OneDirectoryPerPlace`, `SlotFilledOnce`, and the refinement `KeepsPromise`. Is a directory that was exchanged for the approved one ever put at the original path (`ExchangedNeverRestored`)? | 1.7 million |
| `undo_liveness` | 1 process, 2 items, 2 crashes, fairness | Does every operation return (`OperationsFinish`)? Does repeated Undo bring a payload back (`UndoSucceeds`)? | 11 thousand |
| `mcp_workflow` | 2 threads, 2 scans, 1 review of up to 2 items, 2 execution and 2 recovery handles, capacity 5, TTL 2, clock to 3 | `OneExecution`, `ConfirmedFirst`, `RecoveriesCovered`, `ResultReadable`, `NothingLeaked`; the accounting of the registry (`ReservedIsExact`, `WithinCapacity`) and its memory (`StaleIsRemembered`) | 0.4 million |
| `desktop` | 5 operations, 1 finding | `BusyUntilAnswered`, `CancelledMovesNothing`, `ScreenMatchesWork`, `NothingOutlivesWindow`; does every operation end (`OperationsEnd`), does a closing window go (`WindowCloses`)? | 68 thousand |
| `detectors` | all detectors, one storage kind for five; every directory they can meet, any sequence of losses | Is anything but a genuine, wholly read pytest cache in a disposable root ever offered (`EligibleIsDisposable`)? Can a lost read make a finding eligible (`LostReadNeverEligible`)? Is a candidate selected that does not hold what its tool leaves (`SelectedIsGenuine`)? Can the policy raise (`NeverRaises`)? | 78 thousand |
| `cleanup` | a root with a cache, a package with a cache, a file; both modes of scan, 3 budgets, 2 contents, 2 changes by tools, any number of executions | Has a scan that is complete seen every candidate as it is (`CompleteMeansSeen`)? Is only that moved which was reviewed and found again unchanged, unless a tool comes between the last validation and the rename (`OnlyReviewedMoved`)? Does the report say what was moved (`ReportMatchesMoves`)? | 3.5 million |

Five more runs show a disagreement between the code and what its documents or tests say
(section 5).

### Why the bounds are enough to be interesting

One item suffices for what two processes do to each other: recoveries interact
only through the inventory, which looks at all of them, and through a shared
path. The first is covered with two items and one process, the second by a tool
that re-creates the path in `races`. In `one_process` the two items belong to two
plans, because the gate of a session treats the recoveries of other plans
differently; a plan of two items is what `undo_liveness` and `undo_blocked` have. One crash with two
processes leaves an unfinished operation for the other; two crashes with one
process also stop the reconciliation of the first. One spare directory lets the
tool re-create what was moved away. For the registry, a capacity of five is less than
the seven handles of the workflow, so that entries, reservations and tombstones
compete for the same room, and three ticks of the clock at a TTL of two see a
handle expire. Two execution handles for one review are what a second
execution would need. `Unused` (McpService) bounds the number of requests for an
execution by the execution handles that are left; `MaxTime` and `MaxCrashes`
bound the clock and the stops. `MaxOps` bounds the operations the user starts in
the Desktop: five are a scan, a review, a cleanup, an Undo and a refresh, one
each in the order that makes each possible, or any other mix of five. One finding
is enough for a selection that is empty or not, a plan that is empty or not, and
a review that shows the plan or does not.

In `detectors` a set holds the ways in which the entries of one sort read, so
no number of entries is left out; the five storage kinds share one observer, and
`pip_cache` stands for them. In `cleanup`, the whole tree takes exactly 11
observations of nodes and 3 of files: `Limits` are a budget that is just enough
and the two that are one too small, so that it runs out in the very last entry.
`MaxEvents` bounds the changes by tools; two are what it takes to link a directory away
and put it back, or to exchange a cache before its rename and put another one at its place
before the next execution. Executions are not counted: they add no state of their own. A
nested cache is what a change above a candidate needs. The theorems of section 4 need none of
these bounds but `MaxTime`, `MaxCrashes` and `MaxOps`, which they allow to be any
numbers.

Deadlock is checked in the runs of `Quarantine`: a process can always start an
operation; and in `detectors`. It is not checked for the service, where time ends
at `MaxTime` and the handles run out, nor for the Desktop, where the window may
be destroyed, nor for `cleanup`, where a session comes to its end.

### Fairness

`FairSpec` assumes that a process inside an operation takes its next step (weak
fairness of `Works(p)`: the code is sequential, waits for nothing but the named
lock and has no loop that depends on another process) and that the user, again
and again, asks to undo a recovery (strong fairness of `StartUndo`, since the
request is possible only while the process is idle). Crashes are not fair and
are bounded in number, so that some operation is eventually left to run to its
end. `UndoSucceeds` excludes what `Blocked` describes; `undo_blocked` shows that
the exclusion is needed.

`FairSpec` of `DesktopController` assumes that the worker thread takes its next
step (`OperationStep`: scans are bounded by their budget, the engine waits only
for the named lock), that the UI thread ends a `cancel()` it has begun, that Tk
runs the callbacks that were dispatched, and that its timer fires the poll of a
closing window. Nothing is assumed of the user. `WindowCloses` needs that the
user does not start operations in a closing window for ever: `_poll_close` closes
only when it finds the worker free, and a closing window disables its cancel
button but none that starts an operation. `MaxOps` is what makes the user stop.

## 4. What is proved

`tlapm` on the seven modules named `...Proofs` checks the theorems below for all values
of the constants that satisfy the named assumptions (`ConstantsAssumption`,
`StoreAssumption`, `ServiceAssumption`, `WorkerAssumption`, `ControllerAssumption`,
`ArtifactsAssumption`, `TreeAssumption`, `ScanAssumption`, `IdentityAssumption`): any number
of processes,
plans, items and crashes, any mix of faults; any capacity, TTL and number of handles
and threads; any findings and operations; any set of artifacts; any tree of
directories, any budgets and contents. Seven theorems, `RestoredLeft` and those of
`RecoveryProofs`, have hypotheses of their own, stated in the theorem and explained below.

| Theorem | Property | Run that also checks it |
|---|---|---|
| `TypeCorrect` | `TypeOK` | `one_process` |
| `AlwaysConsistent` | `Consistent` | `one_process` |
| `OneOwnerAlways` | `OneOwner` | `races` |
| `NothingOverwritten` | `OneDirectoryPerPlace` | `races` |
| `FilledOnce` | `SlotFilledOnce` | `races` |
| `UndoMovesTheApproved` | `ExchangedNeverRestored` | `races` |
| `Implements` | `KeepsPromise`: every step of the engine is a step of `ReversibleCleanup` or a stutter | `races` |
| `RestoredLeft` | `RestoredMeansEmptySlot`; with failing observations, for plans of different directories | `one_process` |
| `MovesJournaled` | `MovesAreJournaledFirst` | `one_process` |
| `AlwaysSettled`, `AlwaysGrounded` | the inductive invariants `Settled` and `Grounded` | - |
| `RestoredStaysRestored` | `RestoredIsTerminal`, for one process | `one_process` |
| `GateSettles` | `SessionStartsSettled`, for one process | `one_process` |
| `NoneStranded` | `StrandedOnlyUnseen`, for one process and no re-created directory | `one_process` |
| `BlockersAreKnown` | `OnlyKnownBlockers`, under the same hypotheses | `one_process` |
| `StoreTypeCorrect` | `StoreTypeOK` | - |
| `ReservedAlwaysExact` | `ReservedIsExact` | `mcp_workflow` |
| `AlwaysWithinCapacity` | `WithinCapacity` | `mcp_workflow` |
| `StaleAlwaysFits` | `StaleFits` | - |
| `StaleAlwaysRemembered` | `StaleIsRemembered` | `mcp_workflow` |
| `ServiceInvariantHolds` | the inductive invariant `ServiceInvariant` | - |
| `ServiceUsesStore` | every behaviour of the service is one of the registry: `Spec => StoreSpec` | - |
| `ServiceKeepsCapacity` | `ReservedIsExact`, `WithinCapacity`, `StaleIsRemembered`, in the service | `mcp_workflow` |
| `ServiceTypeCorrect` | `ServiceTypeOK` | `mcp_workflow` |
| `OnlyOneExecution` | `OneExecution` | `mcp_workflow` |
| `AlwaysConfirmedFirst` | `ConfirmedFirst` | `mcp_workflow` |
| `RecoveriesAlwaysCovered` | `RecoveriesCovered` | `mcp_workflow` |
| `ResultAlwaysReadable` | `ResultReadable` | `mcp_workflow` |
| `NeverLeaked` | `NothingLeaked` | `mcp_workflow` |
| `AcceptedCancelKeepsOut` | `CancelKeepsOut`, for the worker with any operations: `WorkerSpec => []CancelKeepsOut` | - |
| `UsesWorker` | every behaviour of the controller is one of the worker: `Spec => WorkerSpec` | - |
| `AlwaysBusyUntilAnswered` | `BusyUntilAnswered` | `desktop` |
| `CancelledNeverMoves` | `CancelledMovesNothing` | `desktop` |
| `WindowOutlivesWork` | `NothingOutlivesWindow` | `desktop` |
| `DesktopTypeCorrect` | `TypeOK` | `desktop` |
| `ScreenAlwaysMatches` | `ScreenMatchesWork` | `desktop` |
| `PolicyGate` | what is eligible was selected and passed every rule of the policy, for any evidence and any interpretation of it | - |
| `EligibleDisposable` | `EligibleIsDisposable` | `detectors` |
| `LostReadDemotes` | `LostReadNeverEligible` | `detectors` |
| `PolicyNeverRefuses` | `NeverRaises` | `detectors` |
| `SelectedGenuine` | `SelectedIsGenuine` | `detectors` |
| `CleanupInvariantHolds` | the inductive invariant `CleanupInvariant` | - |
| `CompleteScanSawAll` | `CompleteMeansSeen` | `cleanup` |
| `MovedWasReviewed` | `OnlyReviewedMoved` | `cleanup` |
| `ReportsAreTrue` | `ReportMatchesMoves` | `cleanup` |

**Quarantine.** The invariant `Consistent` says how the four places where the
state of an item shows fit together: the journal, the claim file, the slot, and
what each process is about to do. None of the safety properties is inductive on
its own. That a restored recovery has left its slot, for instance, holds because
`RESTORED` is written only by a process that moved the payload itself, or by a
reconciliation whose verdict was reached on an observation of an empty slot; that
verdict stays right until it is recorded, because a slot that was once filled is
never filled again; and that is so because a process fills a slot only while it
is the owner of the claim and has not moved the item yet. `DiskConsistent`
(records against disk), `MemoryCurrent` (the copies a process works from are
still true), `ItemClaimed`, `OwnerInOrder`, `VerdictHolds` and `RestoreInOrder`
are these links.

Every step is first classified by its effect on the disk (none, creates a claim,
completes a claim, enters a slot, leaves a slot, records a status, or the tool's
doing), and two facts are shown stable: that a recovery was entered, and that it
was left. The proof then splits in two: a process that did not take the step is
undisturbed by each kind of effect, and the process that took it has its own
lemma per action.

Two properties need links of their own, because `Look` may miss what is there.
`RestoredMeansEmptySlot` follows under failing observations because a restore is taken for
done only when the approved directory was seen at its original path: what is back there has
left the slot, and nothing else came into it (`BackMeansEmpty`). Two plans for one directory
would break that, since the directory of the one may be in the slot of the other; hence the
hypothesis of `RestoredLeft`. `ExchangedNeverRestored` holds because an Undo moves only after
it has seen the approved directory in the slot, and a slot that was left is not filled again
(`UndoGenuine`).

The refinement maps a recovery to "new", "quarantined" or
"restored" by the same two stable facts; only the two renames and the tool's
steps are visible to `ReversibleCleanup`.

**Recovery.** What reconciliation promises holds for one process at a time
(`OneProcess`). Nothing in the program keeps a second one out, so the hypothesis is
about the use of the program; `late_record` (section 5) is what happens without it.
Reconciliation reads the journal once and then works on a copy. `Settled` bounds how
far the copy may be from the file: it equals it, but for orphan claims that this pass
has journaled itself, and for a record that failed and may be in the file all the
same; the first keep a session of that plan from starting (`touched`), the second
every session (`bad`). From that, a gate that lets a session through has looked at what
is in the file, and a recovery that the copy shows as restored is never settled again.

`Grounded` adds the directories: `Placed` says where a payload can be given its latest
record, `OwnerPlaced`, `VerdictPlaced` and `RestorePlaced` that this stays so until a
process has recorded what it did or saw. What a failed observation can make of that is part
of the invariant, not excluded: a filled slot that was not seen (`missed`) may be recorded as
a failure, and `NoneStranded` says that it is the only way. Three hypotheses carry it. Without
`OneProcess`, a second process moves a payload that the first has just looked at.
Without `Spares = {}`, a tool re-creates what was moved away, and an interrupted
quarantine is recorded as a failure (`stranded`, section 5). Without `DistinctHomes`
(the items of a plan have different original paths), an item whose failure could not
be recorded stays `QUARANTINING` while the directory goes to the slot of the other
item of its path, and the inventory refuses that state. The planner does not check for it:
a path is a finding once, and only one cleaner's findings are eligible
(`EligibleDisposable`), so it does not arise.
Plans may share paths, as plans of successive scans do. `one_process` is an instance of
all three hypotheses.

What `SessionStartsSettled` does not say: an orphan claim of another plan that
could not be journaled does not keep a session from starting, since the gate looks at
the claims of its own plan (`application.py:603`).

**HandleStore.** The code bounds the number of tombstones and drops the oldest
beyond the capacity, which would turn a stale handle into one that was never
issued. It never comes to that (in `mcp_workflow` the bound is far away, the theorem holds
for every capacity), but the reason takes an invariant (`StaleFits`):
for every time *b*, the tombstones that last until *b* or longer and the entries
that expire before *b* together fit the capacity. An entry that is issued expires
last of all, so it counts only for times no tombstone reaches; a purge at time
*t* turns exactly the entries counted for *t* + 1 into tombstones. That the
counter of reserved slots is exact is a statement about cardinalities of the set
of slots the active reservations still hold (`Slots`), with one lemma for each of
the operators that change it.

**McpService.** A step of the service is a step of the registry or leaves it alone
(`ServiceUsesStore`), so the theorems about the registry hold in the service. What is
the service's own rests on `ServiceInvariant`: what each step of a call knows of the
handle it is about (`CallOK`), of an execution handle (`ExecutionOK`) and of a review
(`ReviewOK`). None of it is inductive alone. That the engine is entered once per review
needs that the handle of an execution is spent by then and stays spent, though it may
be purged and other threads may run; that a recovery handle can be issued for whatever
was moved needs that the reservation of an operation under way is not released by a
purge, and that it had as many slots as the plan has items when it was made; that a
result is readable with all of its recoveries needs that nothing is purged before an
older entry. A call that does not move keeps what it relies on (`OtherCallKept`), and
the call that moves has a lemma per step.

**Desktop.** The worker is proved on its own, for operations that make any calls
of the token in any order; its inductive invariant says which callbacks may wait in
each state of the thread and the future. `UsesWorker` shows that each step of the
controller is a step of the worker or leaves it alone, so that what is proved of the
worker holds of the controller. That a cancelled operation has moved nothing then
takes one more invariant: an operation that is past `AUTHORIZED_MUTATION` in its
program, or has moved something, is in a phase that cannot be cancelled or one that
ends it, and was not cancelled before it came there. That the screen shows the operation
the worker is busy with (`ScreenMatchesWork`) is about callbacks still in the queue:
`ScreenInv` says that a callback that announces a phase or the start of the mutation
waits only while its operation holds the worker, and that an answer comes right behind
the terminal phase it belongs to.

**Analysis.** `PolicyGate` rests on `EscalateOnly`: the escalation of risk never
goes down, so the label after six rules is low only if every rule proposed a low
one, and each proposes one only when its gate is passed. Every detector but that
of pytest leaves the references to an artifact unknown (`OthersAreUnknown`, one
lemma per detector), and one uncertain observation makes the evidence
insufficient; for a pytest cache, each unreadable part leaves a failed
observation, and the selection needs a marker that is evidence of HIGH confidence
(`PytestMarkersAreRead`). For `LostReadNeverEligible` the invariant `AnalysisInv`
remembers that a directory that can be read in full has not changed since it was
first analysed: every change is a loss, and what is lost stays lost. So an
eligible finding, which needs a directory read in full, equals the finding before
it.

`PolicyNeverRefuses` and `SelectedGenuine` take one lemma per detector: the evidence each
of them builds satisfies what the constructors of the domain check, and a candidate is
selected only when the markers its tool leaves were read.

**Cleanup.** `CleanupInvariant` has a part for each thing that an interleaving with
tools could break. `Covers`: while a scan has noticed nothing unusual, each candidate
that no tool touched since it began has been found as it is, or is still ahead of the
traversal (below a directory on the stack, in the one being listed, or among the entries
to come). `ScanReads`: what a scan reads at the path of a planned object that is still
there is that object, unless a directory has been a link meanwhile. `FreshOK` carries
this to the fresh evidence, `MovesOK` and `EngineOK` say how the records, the moves, the
slots and the outcomes agree in each step of the engine. That only reviewed objects are
moved, but for an exchange between the last validation and the rename, then follows because
an identity is never given to a second object, and the engine compares it before the rename;
that a report is true because an outcome is set exactly when its item leaves the loop, and a
reconciliation calls a move committed only when it has seen the planned directory in its
slot. After an exchange the slot holds another identity than the plan: `MovesOK` has it that
no later execution of the plan gets past the inventory.

**Only model-checked:** liveness (`OperationsFinish`, `UndoSucceeds`, `OperationsEnd`,
`WindowCloses`), which TLAPS does not prove under fairness. Every invariant and every
action property that a passing run checks is also a theorem.

## 5. Where code and documents disagree

- `undo_blocked`: `docs/MCP.md` promises that cleanup is always reversible. An
  item that fails after its claim and before its rename is recorded as `FAILED`,
  and the inventory expects a payload for every `FAILED` recovery
  (`mutation.py:1064`). From then on the inventory refuses every operation, Undo
  of the other, intact recoveries included.
- `stranded`: `docs/ARCHITECTURE.md:188` says that reconciliation never converts
  a committed rename into an ordinary failure. If the process stops between the
  rename and its record, and the tool re-creates the directory before the next
  invocation, reconciliation finds both places occupied and appends `FAILED`
  (`mutation.py:1691`); `restore_recovery` then refuses, because no quarantined
  record exists. A failed `lstat` of the filled slot comes to the same end with one process
  and no tool, in reconciliation (`mutation.py:1682-1693`) and in the failure handler
  (`mutation.py:1312-1319`); `one_process` and `NoneStranded` show that, but for a
  re-created original and a second process, this is the only other way.
- `late_record`: the comment at `mutation.py:1084` treats restored states as
  terminal. A second process may reconcile and undo an item between the rename
  and the append of `QUARANTINED` by the first, whose append reads the journal
  anew and succeeds (`mutation.py:1512`).
- `accepted_cancel`: `tests/test_desktop.py:195` says that an accepted cancellation
  never calls success. `completed()` reads `cancellation_requested` and sets the
  terminal phase in two steps (`worker.py:202`); a cancellation between them is
  accepted and the value is delivered as a success. Nothing that mutates is
  affected (`CancelKeepsOut`): it is a scan, a review or a refresh that succeeds
  although its cancellation was accepted.
- `shown_plan`: `TASKS.md:11-12` speaks of an exact cleanup review. The selection may
  change while the plan is made, and `_review_succeeded` shows what is selected
  then (`controller.py:507`): the plan that is executed may hold an item the review
  does not show.

Met while modelling, without a run of their own, since nothing unsafe follows
(the properties of `detectors` and `cleanup` hold all the same):

- losing a read may turn a rejected `.mypy_cache` into a selected candidate. With a
  version entry that cannot be read and valid pairs only, marker and layout are
  recorded as failed (`mypy_cache.py:412`); when a pair becomes unreadable too,
  the branch is not taken and the valid pair counts again. Observation failures
  should reduce certainty (`docs/SAFETY_INVARIANTS.md`, item 2). The candidate
  still asks for a review.
- `docs/DOMAIN_MODEL.md:251` reserves `CONFIRMED_ABSENT` for a checked absence.
  `node_modules` whose entries cannot be listed have a manifest that is confirmed
  absent (`node_artifacts.py:238`) and readable metadata (`node_artifacts.py:285`);
  a pytest cache whose only marker cannot be read has a generator that is confirmed
  absent (`pytest_cache.py:399`).
- after an interrupted execution whose recovery is inconclusive every item is
  reported as `BLOCKED`, those that were moved included
  (`application.py:694-702`); after an exception other than `KeyboardInterrupt` so
  is the whole session, not `RECONCILIATION_REQUIRED`. `ReportMatchesMoves` makes
  that exception explicit.
- `docs/DOMAIN_MODEL.md:134-136` lets an invocation go on only after the existing
  recovery state is consistent. An orphan claim that cannot be journaled is reported,
  but blocks only the plan it belongs to (`application.py:603`); the session of another
  plan goes on with it there.
- a directory above a candidate that is replaced by a link and put back during the
  fresh scan lets the evidence be read from outside of the root; what is moved is
  still the reviewed object (the last conjunct of `OnlyReviewedMoved`).
- `docs/SAFETY_INVARIANTS.md` (item 34) says that a replacement or a race blocks. Between
  the last validation (`mutation.py:1493`) and `os.rename` (`mutation.py:1496`) nothing
  does: what a tool puts at the path in that instant is moved unreviewed, and the item is
  reported as `SUCCEEDED`. `OnlyReviewedMoved` makes that exception explicit. What follows
  is bounded: Undo never puts the exchanged directory at the original path
  (`ExchangedNeverRestored`), and the inventory, which compares identities, refuses every
  later execution of the plan.

## 6. Plan

In this order, most important first:

1. *(done)* `Quarantine` with `ReversibleCleanup`, its runs and proofs.
2. *(done)* `HandleStore` and `McpService`, the proofs about the registry.
3. *(done)* `DesktopWorker` and `DesktopController`, their runs and proofs.
4. *(done)* `Evidence`, the detectors and `Analysis`, the run `detectors`, the
   policy's gate and the two theorems about eligibility.
5. *(done)* `Scan` and `CleanupSession`, the run `cleanup`.
6. *(done)* Proofs of every invariant and action property that a run checks:
   `McpProofs`, `CleanupProofs`, `RecoveryProofs`, the rest of `DesktopProofs` and
   `AnalysisProofs`.
7. `AuditJournal`: the lines with their chain, the named lock, the first reading of
   `_make_entry` and the second one of `append` under the lock, a write cut short;
   the atomic append of `Quarantine` as what it implements.
8. The dropped refresh after an Undo (`controller.py:677`), the one hazard without a
   property.

## 7. Not modelled, and why

Desktop views, texts, reports, command lines, fixtures and benchmarks have no
state that a property is about. The file formats that detectors parse (pyvenv.cfg,
package manifests, cache tags) are data without control: what they read as is an
input. `git_context.py` only observes and feeds no decision. Windows handles, ACLs
and the named lock's implementation are below the level of the models: the lock is
an atomic step, a directory's identity is a value that can be compared. The hash
chain of the journal and the parsing of its lines detect a journal that something
other than the program has written, which no model lets happen; that an overtaken
or torn tail is refused is part of `Quarantine`.
The loop of `scan_system` over several roots and storage locations repeats what
`Scan` does for one root and adds up the results; its deduplication of overlapping
roots is not modelled. What each model leaves out of its component is listed with
it in section 2.
