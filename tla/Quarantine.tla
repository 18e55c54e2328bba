------------------------------ MODULE Quarantine ------------------------------
(***************************************************************************)
(* The mutation engine of DWI (dwi/mutation.py) and the recovery gate the  *)
(* application puts in front of it (dwi/application.py): journaled         *)
(* quarantine, reconciliation after a crash, and Undo.                     *)
(*                                                                         *)
(* Several DWI processes (CLI, Desktop, MCP server) may work on one        *)
(* mutation root.  They share three things on disk: the append-only        *)
(* journal, one claim file per plan item, and the directory tree.          *)
(* Everything a process keeps in memory is lost when it stops.             *)
(*                                                                         *)
(* A recovery r stands for one plan item: its recovery identifier, its     *)
(* claim file and its slot (the direct child of the quarantine root that   *)
(* carries its name) are all functions of (plan, item), so r names them    *)
(* all.  target[r] is the filesystem identity the plan recorded, home[r]   *)
(* the path it recorded it at.                                             *)
(***************************************************************************)
EXTENDS Naturals, FiniteSets

CONSTANTS
  Procs,        \* DWI processes (or threads) working on the mutation root
  Recoveries,   \* plan items, by recovery identifier
  Plans,        \* the cleanup plans: sets of recoveries
  Paths,        \* original locations
  Objects,      \* directory identities (device and inode)
  Spares,       \* identities a build tool may create at an original path
  Nowhere,      \* location of an object that does not exist
  NoRecovery,   \* "no current item"
  home,         \* home[r]: the original path of r
  target,       \* target[r]: the identity the plan of r was approved for
  ToolDeletes,  \* TRUE: the build tool may delete directories at Paths
  IOFaults,     \* TRUE: observations, claims, appends and renames may fail
  MayTear,      \* TRUE: an append that is cut short may leave half a line
  MaxCrashes    \* bound on the number of process stops

ASSUME ConstantsAssumption ==
  /\ Plans \subseteq SUBSET Recoveries
  /\ Spares \subseteq Objects
  /\ home \in [Recoveries -> Paths]
  /\ target \in [Recoveries -> Objects \ Spares]
  /\ \A r, s \in Recoveries : home[r] = home[s] <=> target[r] = target[s]
  /\ Paths \cap Recoveries = {}
  /\ Nowhere \notin Paths \cup Recoveries
  /\ NoRecovery \notin Recoveries
  /\ ToolDeletes \in BOOLEAN
  /\ IOFaults \in BOOLEAN
  /\ MayTear \in BOOLEAN
  /\ MaxCrashes \in Nat

\* QuarantineState, the statuses a journal record may carry.
Status == {"AUTHORIZATION_CLAIMED", "PLANNED", "QUARANTINING", "QUARANTINED",
           "QUARANTINE_COMMITTED_UNJOURNALED", "RESTORING", "RESTORED",
           "RESTORE_COMMITTED_UNJOURNALED", "FAILED"}

QuarantinedStates == {"QUARANTINED", "QUARANTINE_COMMITTED_UNJOURNALED"}
RestoredStates    == {"RESTORED", "RESTORE_COMMITTED_UNJOURNALED"}
TransitionStates  == {"QUARANTINING", "RESTORING"}
\* A recovery whose latest record is one of these must have its payload.
PayloadStates     == QuarantinedStates \cup TransitionStates \cup {"FAILED"}
\* A recovery whose latest record is one of these is settled by reconciliation.
PendingStates     == TransitionStates \cup {"AUTHORIZATION_CLAIMED"}

(***************************************************************************)
(* The journal is kept per recovery, reduced to what the code asks of it:  *)
(* the status of the last record and the set of statuses recorded so far.  *)
(***************************************************************************)
Lifecycle == [last : Status \cup {"NONE"}, seen : SUBSET Status]
NoEntries == [last |-> "NONE", seen |-> {}]
With(entries, status) ==
  [last |-> status, seen |-> entries.seen \cup {status}]

VARIABLES
  journal,   \* the journal, per recovery
  torn,      \* TRUE: the journal ends in an incomplete line
  claim,     \* per recovery, its claim file: "absent", "empty" or "written"
  at,        \* per object, where it is
  crashes,   \* process stops so far
  missed,    \* no code: recoveries whose payload an observation of its slot missed
  pc,        \* per process, the step it is at
  op,        \* per process, the operation it performs
  todo,      \* per process, items left of its plan, or the item to restore
  cur,       \* per process, the item it works on
  view,      \* per process, its in-memory copy of the journal
  work,      \* per process, what its reconciliation has left to settle
  observed,  \* per process, what it saw at the original path
  verdict,   \* per process, the status reconciliation decided to record
  bad,       \* per process, reconciliation reported failures
  touched,   \* per process, reconciliation forbids execution in this call
  raced      \* per process, another one appended since its last step

disk  == <<journal, torn, claim, at, crashes, missed>>
local == <<pc, op, todo, cur, view, work, observed, verdict, bad, touched, raced>>
vars  == <<journal, torn, claim, at, crashes, missed, pc, op, todo, cur, view,
           work, observed, verdict, bad, touched, raced>>

-----------------------------------------------------------------------------
(* Steps at which a process is about to append a journal record. *)
ReconcileAppends  == {"orphanClaimed", "orphanFailed", "record"}
QuarantineAppends == {"appendClaimed", "appendPlanned", "appendQuarantining",
                      "appendQuarantined", "appendCommitted", "appendFailed"}
RestoreAppends    == {"appendRestoring", "appendRestored", "appendRestoreCommitted",
                      "appendRestoreFailed"}
AppendSteps == ReconcileAppends \cup QuarantineAppends \cup RestoreAppends

Steps == AppendSteps \cup
  {"idle", "inventory", "scan", "reread", "claims", "orphans", "pending",
   "observe", "decide", "revalidate", "item", "claim", "fill", "recheck",
   "rename", "failed", "renameBack", "restoreFailed"}

\* Steps between the creation of an item's claim and the end of the item.
OwnerSteps == {"fill", "recheck", "rename", "failed"} \cup QuarantineAppends
\* Those of them at which the item has not been moved yet.
BeforeMove == {"fill", "appendClaimed", "appendPlanned", "appendQuarantining",
               "recheck", "rename"}

Observations == {"none", "match", "other", "error"}

\* Steps of a process that restores an item, after the answer was not in the
\* journal.
RestoreSteps == {"renameBack", "restoreFailed"} \cup RestoreAppends
\* Steps that work on the current item.
ItemSteps == {"orphanClaimed", "orphanFailed", "observe", "record", "claim"}
               \cup OwnerSteps \cup RestoreSteps

SharedTypeOK ==
  /\ journal \in [Recoveries -> Lifecycle]
  /\ torn \in BOOLEAN
  /\ claim \in [Recoveries -> {"absent", "empty", "written"}]
  /\ at \in [Objects -> Paths \cup Recoveries \cup {Nowhere}]
  /\ crashes \in 0..MaxCrashes
  /\ missed \subseteq Recoveries

LocalTypeOK ==
  /\ pc \in [Procs -> Steps]
  /\ op \in [Procs -> {"none", "execute", "undo", "status"}]
  /\ todo \in [Procs -> SUBSET Recoveries]
  /\ cur \in [Procs -> Recoveries \cup {NoRecovery}]
  /\ view \in [Procs -> [Recoveries -> Lifecycle]]
  /\ work \in [Procs -> SUBSET Recoveries]
  /\ observed \in [Procs -> Observations]
  /\ verdict \in [Procs -> Status \cup {"NONE"}]
  /\ bad \in [Procs -> BOOLEAN]
  /\ touched \in [Procs -> BOOLEAN]
  /\ raced \in [Procs -> BOOLEAN]

\* A process that works on an item has one, and a verdict that is recorded has
\* been reached.
ItemTypeOK ==
  \A p \in Procs :
    /\ pc[p] \in ItemSteps => cur[p] \in Recoveries
    /\ pc[p] = "record" => verdict[p] \in Status

TypeOK == SharedTypeOK /\ LocalTypeOK /\ ItemTypeOK

Init ==
  /\ journal = [r \in Recoveries |-> NoEntries]
  /\ torn = FALSE
  /\ claim = [r \in Recoveries |-> "absent"]
  /\ at = [o \in Objects |->
             IF \E r \in Recoveries : target[r] = o
               THEN home[CHOOSE r \in Recoveries : target[r] = o] ELSE Nowhere]
  /\ crashes = 0
  /\ missed = {}
  /\ pc = [p \in Procs |-> "idle"]
  /\ op = [p \in Procs |-> "none"]
  /\ todo = [p \in Procs |-> {}]
  /\ cur = [p \in Procs |-> NoRecovery]
  /\ view = [p \in Procs |-> [r \in Recoveries |-> NoEntries]]
  /\ work = [p \in Procs |-> {}]
  /\ observed = [p \in Procs |-> "none"]
  /\ verdict = [p \in Procs |-> "NONE"]
  /\ bad = [p \in Procs |-> FALSE]
  /\ touched = [p \in Procs |-> FALSE]
  /\ raced = [p \in Procs |-> FALSE]

-----------------------------------------------------------------------------
(* The directory tree. *)

Occupied(place) == \E o \in Objects : at[o] = place

\* What is at a place, for one who expects a certain directory there.
Shown(place, expected) ==
  IF at[expected] = place THEN "match"
  ELSE IF Occupied(place) THEN "other" ELSE "error"

\* _observe_identity compared with the expected identity: what is there, or an
\* error although something is: lstat failed, or the path has no authority.
Look(place, expected) ==
  {Shown(place, expected)} \cup (IF IOFaults THEN {"error"} ELSE {})

\* _lexists says that nothing is there; a failed lstat says so, too.
SeemsFree(place) == ~Occupied(place) \/ IOFaults

\* _move_reality: the expected object is seen at the destination, and the
\* source cannot be observed.
Committed(source, destination) == destination = "match" /\ source = "error"

\* An observation of the slot of r that does not see the payload in it.
NoteSlot(r, seen) ==
  missed' = missed \cup {s \in {r} : at[target[s]] = s /\ seen = "error"}

\* Variant: a rename that replaces its destination, as POSIX rename does.
CanMove_Replacing(from, to) == Occupied(from)

\* os.rename on Windows: moves whatever is there, never over something.
CanMove(from, to) == Occupied(from) /\ ~Occupied(to)
Move(from, to) == at' = [o \in Objects |-> IF at[o] = from THEN to ELSE at[o]]

-----------------------------------------------------------------------------
(* Bookkeeping of a process. *)

Goto(p, step) == pc' = [pc EXCEPT ![p] = step]

\* The operation returns, or the process stops: its memory is gone.
Finish(p) ==
  /\ pc' = [pc EXCEPT ![p] = "idle"]
  /\ op' = [op EXCEPT ![p] = "none"]
  /\ todo' = [todo EXCEPT ![p] = {}]
  /\ cur' = [cur EXCEPT ![p] = NoRecovery]
  /\ view' = [view EXCEPT ![p] = [r \in Recoveries |-> NoEntries]]
  /\ work' = [work EXCEPT ![p] = {}]
  /\ observed' = [observed EXCEPT ![p] = "none"]
  /\ verdict' = [verdict EXCEPT ![p] = "NONE"]
  /\ bad' = [bad EXCEPT ![p] = FALSE]
  /\ touched' = [touched EXCEPT ![p] = FALSE]

\* What the loop over plan items, and restore, keep between their steps.
KeepMemory == UNCHANGED <<op, view, work, observed, verdict, bad, touched>>

\* The loop over the plan items goes on to the next one.
ItemEnds(p) ==
  /\ Goto(p, "item")
  /\ cur' = [cur EXCEPT ![p] = NoRecovery]
  /\ UNCHANGED todo
  /\ KeepMemory

Step(p, step) == Goto(p, step) /\ UNCHANGED <<cur, todo>> /\ KeepMemory

(***************************************************************************)
(* AuditJournal.append of a record that _make_entry prepared.  The record  *)
(* carries the length it read; append re-reads the journal under the lock  *)
(* and rejects a record that another append has overtaken.  It reads no    *)
(* earlier than the last step of the process, so it may be overtaken       *)
(* exactly when another process has appended since.                        *)
(***************************************************************************)
Calm(p) == raced' = [raced EXCEPT ![p] = FALSE]

Append(p, r, status) ==
  /\ ~torn
  /\ journal' = [journal EXCEPT ![r] = With(@, status)]
  /\ raced' = [q \in Procs |-> q # p /\ (raced[q] \/ pc[q] \in AppendSteps)]
  /\ UNCHANGED torn

\* The append is reported as failed: the journal is unreadable, the record is
\* stale, or writing it raised OSError: before it took effect, after it did
\* (in fsync), or half-way through the line.
AppendFails(p, r, status) ==
  \/ /\ torn \/ raced[p] \/ IOFaults
     /\ UNCHANGED <<journal, torn>>
     /\ Calm(p)
  \/ /\ IOFaults
     /\ Append(p, r, status)
  \/ /\ IOFaults /\ MayTear
     /\ torn' = TRUE
     /\ UNCHANGED journal
     /\ Calm(p)

Malformed == \E r \in Recoveries : claim[r] = "empty"

-----------------------------------------------------------------------------
(* Operations a front-end starts. *)

Start(p, operation, items) ==
  /\ pc[p] = "idle"
  /\ Goto(p, "inventory")
  /\ op' = [op EXCEPT ![p] = operation]
  /\ todo' = [todo EXCEPT ![p] = items]
  /\ UNCHANGED <<disk, cur, view, work, observed, verdict, bad, touched, raced>>

\* execute_cleanup_session of a confirmed plan.
StartExecute(p, plan) == Start(p, "execute", plan)

\* WorkspaceCleanupRuntime.undo, which calls restore_recovery.
StartUndo(p, r) == Start(p, "undo", {r})

\* WorkspaceCleanupRuntime.recovery_entries.
StartStatus(p) == Start(p, "status", {})

-----------------------------------------------------------------------------
(* inspect_quarantine_inventory: the journal, then the directory. *)

Inventory(p) ==
  /\ pc[p] = "inventory"
  /\ \/ torn /\ Finish(p)
     \/ /\ ~torn
        /\ view' = [view EXCEPT ![p] = journal]
        /\ Goto(p, "scan")
        /\ UNCHANGED <<op, todo, cur, work, observed, verdict, bad, touched>>
  /\ UNCHANGED <<disk, raced>>

\* What the inventory objects to, for the lifecycles it was given.
UnexpectedPayload(entries, r) ==
  Occupied(r) /\ entries[r].last \notin PayloadStates
ChangedPayload(entries, r) ==
  Occupied(r) /\ at[target[r]] # r
\* Variant: a payload that is still at its original path counts as missing.
MissingPayload_NoTransit(entries, r) ==
  entries[r].last \in PayloadStates /\ ~Occupied(r)

MissingPayload(entries, r) ==
  /\ entries[r].last \in PayloadStates
  /\ ~Occupied(r)
  /\ ~(entries[r].last \in TransitionStates /\ at[target[r]] = home[r])

InventoryFails(entries) ==
  \E r \in Recoveries : \/ UnexpectedPayload(entries, r)
                        \/ ChangedPayload(entries, r)
                        \/ MissingPayload(entries, r)

Scan(p) ==
  /\ pc[p] = "scan"
  /\ \/ (Malformed \/ InventoryFails(view[p]) \/ IOFaults) /\ Finish(p)
     \/ /\ ~Malformed /\ ~InventoryFails(view[p])
        /\ Goto(p, "reread")
        /\ view' = [view EXCEPT ![p] = [r \in Recoveries |-> NoEntries]]
        /\ UNCHANGED <<op, todo, cur, work, observed, verdict, bad, touched>>
  /\ UNCHANGED <<disk, raced>>

-----------------------------------------------------------------------------
(* reconcile_pending_operations, after its inventory. *)

Reread(p) ==
  /\ pc[p] = "reread"
  /\ \/ torn /\ Finish(p)
     \/ /\ ~torn
        /\ view' = [view EXCEPT ![p] = journal]
        /\ Goto(p, "claims")
        /\ UNCHANGED <<op, todo, cur, work, observed, verdict, bad, touched>>
  /\ UNCHANGED <<disk, raced>>

\* Variant: reconciliation trusts the journal and looks for no orphan claims.
ReadClaims_JournalOnly(p) ==
  /\ pc[p] = "claims"
  /\ Goto(p, "orphans")
  /\ UNCHANGED <<disk, op, todo, cur, view, work, observed, verdict, bad,
                 touched, raced>>

ReadClaims(p) ==
  /\ pc[p] = "claims"
  /\ \/ Malformed /\ Finish(p)
     \/ /\ ~Malformed
        /\ work' = [work EXCEPT ![p] =
             {r \in Recoveries : /\ claim[r] = "written"
                                 /\ "AUTHORIZATION_CLAIMED" \notin view[p][r].seen}]
        /\ Goto(p, "orphans")
        /\ UNCHANGED <<op, todo, cur, view, observed, verdict, bad, touched>>
  /\ UNCHANGED <<disk, raced>>

\* The next claim file without an AUTHORIZATION_CLAIMED record.
NextOrphan(p) ==
  /\ pc[p] = "orphans"
  /\ \E r \in work[p] :
       /\ cur' = [cur EXCEPT ![p] = r]
       /\ work' = [work EXCEPT ![p] = @ \ {r}]
       /\ touched' = [touched EXCEPT ![p] = @ \/ r \in todo[p]]
  /\ Goto(p, "orphanClaimed")
  /\ UNCHANGED <<disk, op, todo, view, observed, verdict, bad, raced>>

OrphansDone(p) ==
  /\ pc[p] = "orphans" /\ work[p] = {}
  /\ work' = [work EXCEPT ![p] =
                {r \in Recoveries : view[p][r].last \in PendingStates}]
  /\ Goto(p, "pending")
  /\ UNCHANGED <<disk, op, todo, cur, view, observed, verdict, bad, touched, raced>>

\* Reconciliation's copy of the journal and its metadata_appended flag.
Noted(p, status) ==
  /\ view' = [view EXCEPT ![p][cur[p]] = With(@, status)]
  /\ touched' = [touched EXCEPT ![p] = TRUE]

RecordOrphanClaimed(p) ==
  /\ pc[p] = "orphanClaimed"
  /\ \/ /\ Append(p, cur[p], "AUTHORIZATION_CLAIMED")
        /\ Noted(p, "AUTHORIZATION_CLAIMED")
        /\ Goto(p, "orphanFailed")
     \/ /\ AppendFails(p, cur[p], "AUTHORIZATION_CLAIMED")
        /\ Goto(p, "orphans")
        /\ UNCHANGED <<view, touched>>
  /\ UNCHANGED <<claim, at, crashes, missed, op, todo, cur, work, observed, verdict, bad>>

RecordOrphanFailed(p) ==
  /\ pc[p] = "orphanFailed"
  /\ \/ Append(p, cur[p], "FAILED") /\ Noted(p, "FAILED")
     \/ AppendFails(p, cur[p], "FAILED") /\ UNCHANGED <<view, touched>>
  /\ Goto(p, "orphans")
  /\ UNCHANGED <<claim, at, crashes, missed, op, todo, cur, work, observed, verdict, bad>>

\* Variant: the loop over pending recoveries does not advance.
NextPending_Again(p) ==
  /\ pc[p] = "pending"
  /\ \E r \in work[p] :
       /\ cur' = [cur EXCEPT ![p] = r]
       /\ verdict' = [verdict EXCEPT ![p] = "FAILED"]
  /\ Goto(p, "record")
  /\ UNCHANGED <<disk, op, todo, view, work, observed, bad, touched, raced>>

\* The next recovery whose latest record is not terminal; the original path
\* is looked at first.
NextPending(p) ==
  /\ pc[p] = "pending"
  /\ \E r \in work[p] :
       /\ cur' = [cur EXCEPT ![p] = r]
       /\ work' = [work EXCEPT ![p] = @ \ {r}]
       /\ \/ /\ view[p][r].last = "AUTHORIZATION_CLAIMED"
             /\ verdict' = [verdict EXCEPT ![p] = "FAILED"]
             /\ Goto(p, "record")
             /\ UNCHANGED observed
          \/ /\ view[p][r].last # "AUTHORIZATION_CLAIMED"
             /\ \E source \in Look(home[r], target[r]) :
                  observed' = [observed EXCEPT ![p] = source]
             /\ Goto(p, "observe")
             /\ UNCHANGED verdict
  /\ UNCHANGED <<disk, op, todo, view, bad, touched, raced>>

\* Variants: an ambiguous move is recorded with the result-only state; every
\* quarantine under way is taken for failed; a payload still in quarantine is
\* taken for restored.
MoveVerdict_ResultOnly(status, source, destination) ==
  IF status = "QUARANTINING" /\ destination = "match" /\ source = "error"
    THEN "QUARANTINE_COMMITTED_UNJOURNALED"
  ELSE IF status = "RESTORING" /\ source = "match" /\ destination = "error"
    THEN "RESTORE_COMMITTED_UNJOURNALED"
  ELSE "RECONCILIATION_REQUIRED"
MoveVerdict_NeverCommitted(status, source, destination) ==
  IF status = "RESTORING" /\ source = "match" /\ destination = "error"
    THEN "RESTORE_COMMITTED_UNJOURNALED"
  ELSE "FAILED"
MoveVerdict_Swapped(status, source, destination) ==
  IF destination = "match" /\ source = "error"
    THEN IF status = "QUARANTINING" THEN "QUARANTINE_COMMITTED_UNJOURNALED"
         ELSE "RESTORE_COMMITTED_UNJOURNALED"
  ELSE "FAILED"

\* The status for a move that was under way, from what is at its source
\* and its destination: committed, not completed, or ambiguous.
MoveVerdict(status, source, destination) ==
  IF /\ status = "QUARANTINING"
     /\ destination = "match" /\ source = "error"
    THEN "QUARANTINE_COMMITTED_UNJOURNALED"
  ELSE IF /\ status = "RESTORING"
          /\ source = "match" /\ destination = "error"
    THEN "RESTORE_COMMITTED_UNJOURNALED"
  ELSE "FAILED"

ObserveSlot(p) ==
  /\ pc[p] = "observe"
  /\ \E destination \in Look(cur[p], target[cur[p]]) :
       /\ verdict' = [verdict EXCEPT ![p] =
                        MoveVerdict(view[p][cur[p]].last, observed[p], destination)]
       /\ NoteSlot(cur[p], destination)
  /\ observed' = [observed EXCEPT ![p] = "none"]
  /\ Goto(p, "record")
  /\ UNCHANGED <<journal, torn, claim, at, crashes, op, todo, cur, view, work, bad,
                 touched, raced>>

RecordVerdict(p) ==
  /\ pc[p] = "record"
  /\ \/ /\ Append(p, cur[p], verdict[p])
        /\ Noted(p, verdict[p])
        /\ UNCHANGED bad
     \/ /\ AppendFails(p, cur[p], verdict[p])
        /\ bad' = [bad EXCEPT ![p] = TRUE]
        /\ UNCHANGED <<view, touched>>
  /\ Goto(p, "pending")
  /\ verdict' = [verdict EXCEPT ![p] = "NONE"]
  /\ UNCHANGED <<claim, at, crashes, missed, op, todo, cur, work, observed>>

PendingDone(p) ==
  /\ pc[p] = "pending" /\ work[p] = {}
  /\ Goto(p, "decide")
  /\ cur' = [cur EXCEPT ![p] = NoRecovery]
  /\ UNCHANGED <<disk, op, todo, view, work, observed, verdict, bad, touched, raced>>

-----------------------------------------------------------------------------
(* execute_cleanup_session after reconciliation, and quarantine_plan. *)

\* Reconciliation failed, or it was all that was asked for, or it changed
\* recovery state and execution needs a new invocation.
ReconciliationEnds(p) ==
  /\ pc[p] = "decide"
  /\ bad[p] \/ op[p] = "status" \/ (op[p] = "execute" /\ touched[p])
  /\ Finish(p)
  /\ UNCHANGED <<disk, raced>>

EnterSession(p) ==
  /\ pc[p] = "decide"
  /\ op[p] = "execute" /\ ~bad[p] /\ ~touched[p]
  /\ Goto(p, "revalidate")
  /\ view' = [view EXCEPT ![p] = [r \in Recoveries |-> NoEntries]]
  /\ UNCHANGED <<disk, op, todo, cur, work, observed, verdict, bad, touched, raced>>

\* Fresh evidence must show every item of the plan unchanged; evidence or
\* policy may block the plan for reasons of their own.
Revalidate(p) ==
  /\ pc[p] = "revalidate"
  /\ \/ Finish(p)
     \/ /\ \A r \in todo[p] : "match" \in Look(home[r], target[r])
        /\ Step(p, "item")
  /\ UNCHANGED <<disk, raced>>

\* _validate_plan_item_before_move, the collision test, and the journal read
\* that precedes the claim.
Admissible(r) ==
  "match" \in Look(home[r], target[r]) /\ SeemsFree(r) /\ ~torn

\* The order of a plan's items is a hash order: any order.
NextItem(p) ==
  /\ pc[p] = "item"
  /\ \E r \in todo[p] :
       /\ todo' = [todo EXCEPT ![p] = @ \ {r}]
       /\ \/ /\ Admissible(r)
             /\ cur' = [cur EXCEPT ![p] = r]
             /\ Goto(p, "claim")
          \/ (~Admissible(r) \/ IOFaults) /\ UNCHANGED <<pc, cur>>
  /\ KeepMemory
  /\ UNCHANGED <<disk, raced>>

ItemsDone(p) ==
  /\ pc[p] = "item" /\ todo[p] = {}
  /\ Finish(p)
  /\ UNCHANGED <<disk, raced>>

\* Variant: the claim file is opened without O_EXCL.
CreateClaim_Shared(p) ==
  /\ pc[p] = "claim"
  /\ claim' = [claim EXCEPT ![cur[p]] = "empty"]
  /\ Step(p, "fill")
  /\ UNCHANGED <<journal, torn, at, crashes, missed, raced>>

\* _claim_authorization_item: exclusive creation of the claim file ...
CreateClaim(p) ==
  /\ pc[p] = "claim"
  /\ \/ /\ claim[cur[p]] = "absent"
        /\ claim' = [claim EXCEPT ![cur[p]] = "empty"]
        /\ Step(p, "fill")
     \/ /\ claim[cur[p]] # "absent" \/ IOFaults
        /\ ItemEnds(p)
        /\ UNCHANGED claim
  /\ UNCHANGED <<journal, torn, at, crashes, missed, raced>>

\* ... and the write of its content.
FillClaim(p) ==
  /\ pc[p] = "fill"
  /\ \/ /\ claim' = [claim EXCEPT ![cur[p]] = "written"]
        /\ Step(p, "appendClaimed")
     \/ /\ IOFaults
        /\ ItemEnds(p)
        /\ UNCHANGED claim
  /\ UNCHANGED <<journal, torn, at, crashes, missed, raced>>

AppendClaimed(p) ==
  /\ pc[p] = "appendClaimed"
  /\ \/ Append(p, cur[p], "AUTHORIZATION_CLAIMED") /\ Step(p, "appendPlanned")
     \/ AppendFails(p, cur[p], "AUTHORIZATION_CLAIMED") /\ ItemEnds(p)
  /\ UNCHANGED <<claim, at, crashes, missed>>

AppendPlanned(p) ==
  /\ pc[p] = "appendPlanned"
  /\ \/ Append(p, cur[p], "PLANNED") /\ Step(p, "appendQuarantining")
     \/ AppendFails(p, cur[p], "PLANNED") /\ Step(p, "failed")
  /\ UNCHANGED <<claim, at, crashes, missed>>

\* Variant: the intent to move is recorded with best effort only.
AppendQuarantining_BestEffort(p) ==
  /\ pc[p] = "appendQuarantining"
  /\ \/ Append(p, cur[p], "QUARANTINING")
     \/ AppendFails(p, cur[p], "QUARANTINING")
  /\ Step(p, "recheck")
  /\ UNCHANGED <<claim, at, crashes, missed>>

AppendQuarantining(p) ==
  /\ pc[p] = "appendQuarantining"
  /\ \/ Append(p, cur[p], "QUARANTINING") /\ Step(p, "recheck")
     \/ AppendFails(p, cur[p], "QUARANTINING") /\ Step(p, "failed")
  /\ UNCHANGED <<claim, at, crashes, missed>>

\* The second _validate_plan_item_before_move, right before the rename.
Recheck(p) ==
  /\ pc[p] = "recheck"
  /\ \E source \in Look(home[cur[p]], target[cur[p]]) :
       \/ source = "match" /\ Step(p, "rename")
       \/ source # "match" /\ Step(p, "failed")
  /\ UNCHANGED <<disk, raced>>

\* os.rename(original, slot): done, or OSError with or without effect.
Rename(p) ==
  /\ pc[p] = "rename"
  /\ \/ /\ CanMove(home[cur[p]], cur[p])
        /\ Move(home[cur[p]], cur[p])
        /\ \/ Step(p, "appendQuarantined")
           \/ IOFaults /\ Step(p, "failed")
     \/ /\ ~CanMove(home[cur[p]], cur[p]) \/ IOFaults
        /\ UNCHANGED at
        /\ Step(p, "failed")
  /\ UNCHANGED <<journal, torn, claim, crashes, missed, raced>>

AppendQuarantined(p) ==
  /\ pc[p] = "appendQuarantined"
  /\ \/ Append(p, cur[p], "QUARANTINED") /\ ItemEnds(p)
     \/ AppendFails(p, cur[p], "QUARANTINED") /\ Step(p, "appendCommitted")
  /\ UNCHANGED <<claim, at, crashes, missed>>

\* Variant: a step that raised is a failure, wherever the directory is.
HandleFailure_Blind(p) ==
  /\ pc[p] = "failed"
  /\ Step(p, "appendFailed")
  /\ UNCHANGED <<disk, raced>>

\* The handler of a failure after the claim was journaled: what happened to
\* the directory decides between a recoverable state and FAILED.
HandleFailure(p) ==
  /\ pc[p] = "failed"
  /\ \E source \in Look(home[cur[p]], target[cur[p]]),
        destination \in Look(cur[p], target[cur[p]]) :
       /\ \/ Committed(source, destination) /\ Step(p, "appendCommitted")
          \/ ~Committed(source, destination) /\ Step(p, "appendFailed")
       /\ NoteSlot(cur[p], destination)
  /\ UNCHANGED <<journal, torn, claim, at, crashes, raced>>

\* _recoverable_entry: best effort.
AppendCommitted(p) ==
  /\ pc[p] = "appendCommitted"
  /\ \/ Append(p, cur[p], "QUARANTINE_COMMITTED_UNJOURNALED")
     \/ AppendFails(p, cur[p], "QUARANTINE_COMMITTED_UNJOURNALED")
  /\ ItemEnds(p)
  /\ UNCHANGED <<claim, at, crashes, missed>>

AppendFailed(p) ==
  /\ pc[p] = "appendFailed"
  /\ \/ Append(p, cur[p], "FAILED")
     \/ AppendFails(p, cur[p], "FAILED")
  /\ ItemEnds(p)
  /\ UNCHANGED <<claim, at, crashes, missed>>

-----------------------------------------------------------------------------
(* restore_recovery after reconciliation. *)

WasRestored(entries)    == entries.seen \cap RestoredStates # {}
WasQuarantined(entries) == entries.seen \cap QuarantinedStates # {}

\* Already restored, or never quarantined: the answer is in the journal.
AnswerFromJournal(p) ==
  /\ pc[p] = "decide" /\ op[p] = "undo" /\ ~bad[p]
  /\ \E r \in todo[p] : WasRestored(view[p][r]) \/ ~WasQuarantined(view[p][r])
  /\ Finish(p)
  /\ UNCHANGED <<disk, raced>>

\* Variant: whatever is in the slot is restored.
Restorable_AnyPayload(r) == SeemsFree(home[r]) /\ Occupied(r)

\* The original path must be free and the payload the expected one.
Restorable(r) == SeemsFree(home[r]) /\ "match" \in Look(r, target[r])

\* Variant: a recovery that was restored before is restored again.
CheckRestore_Repeats(p) ==
  /\ pc[p] = "decide" /\ op[p] = "undo" /\ ~bad[p]
  /\ \E r \in todo[p] :
       /\ WasQuarantined(view[p][r])
       /\ cur' = [cur EXCEPT ![p] = r]
       /\ \/ Restorable(r) /\ Goto(p, "appendRestoring")
          \/ ~Restorable(r) /\ Goto(p, "restoreFailed")
  /\ view' = [view EXCEPT ![p] = [r \in Recoveries |-> NoEntries]]
  /\ UNCHANGED <<disk, op, todo, work, observed, verdict, bad, touched, raced>>

CheckRestore(p) ==
  /\ pc[p] = "decide" /\ op[p] = "undo" /\ ~bad[p]
  /\ \E r \in todo[p] :
       /\ ~WasRestored(view[p][r]) /\ WasQuarantined(view[p][r])
       /\ cur' = [cur EXCEPT ![p] = r]
       /\ \/ Restorable(r) /\ Goto(p, "appendRestoring")
          \/ (~Restorable(r) \/ IOFaults) /\ Goto(p, "restoreFailed")
  /\ view' = [view EXCEPT ![p] = [r \in Recoveries |-> NoEntries]]
  /\ UNCHANGED <<disk, op, todo, work, observed, verdict, bad, touched, raced>>

AppendRestoring(p) ==
  /\ pc[p] = "appendRestoring"
  /\ \/ Append(p, cur[p], "RESTORING") /\ Step(p, "renameBack")
     \/ AppendFails(p, cur[p], "RESTORING") /\ Step(p, "restoreFailed")
  /\ UNCHANGED <<claim, at, crashes, missed>>

\* Variant: a payload whose original path is taken is discarded.
RenameBack_Discards(p) ==
  /\ pc[p] = "renameBack"
  /\ IF CanMove(cur[p], home[cur[p]])
       THEN Move(cur[p], home[cur[p]]) /\ Step(p, "appendRestored")
       ELSE Move(cur[p], Nowhere) /\ Step(p, "restoreFailed")
  /\ UNCHANGED <<journal, torn, claim, crashes, missed, raced>>

\* os.rename(slot, original).
RenameBack(p) ==
  /\ pc[p] = "renameBack"
  /\ \/ /\ CanMove(cur[p], home[cur[p]])
        /\ Move(cur[p], home[cur[p]])
        /\ \/ Step(p, "appendRestored")
           \/ IOFaults /\ Step(p, "restoreFailed")
     \/ /\ ~CanMove(cur[p], home[cur[p]]) \/ IOFaults
        /\ UNCHANGED at
        /\ Step(p, "restoreFailed")
  /\ UNCHANGED <<journal, torn, claim, crashes, missed, raced>>

\* Variant: Undo releases the claim, so that the plan can be executed again.
AppendRestored_ReleasesClaim(p) ==
  /\ pc[p] = "appendRestored"
  /\ claim' = [claim EXCEPT ![cur[p]] = "absent"]
  /\ \/ Append(p, cur[p], "RESTORED") /\ Finish(p)
     \/ AppendFails(p, cur[p], "RESTORED") /\ Step(p, "appendRestoreCommitted")
  /\ UNCHANGED <<at, crashes, missed>>

AppendRestored(p) ==
  /\ pc[p] = "appendRestored"
  /\ \/ Append(p, cur[p], "RESTORED") /\ Finish(p)
     \/ AppendFails(p, cur[p], "RESTORED") /\ Step(p, "appendRestoreCommitted")
  /\ UNCHANGED <<claim, at, crashes, missed>>

HandleRestoreFailure(p) ==
  /\ pc[p] = "restoreFailed"
  /\ \E source \in Look(cur[p], target[cur[p]]),
        destination \in Look(home[cur[p]], target[cur[p]]) :
       \/ Committed(source, destination) /\ Step(p, "appendRestoreCommitted")
       \/ ~Committed(source, destination) /\ Step(p, "appendRestoreFailed")
  /\ UNCHANGED <<disk, raced>>

AppendRestoreCommitted(p) ==
  /\ pc[p] = "appendRestoreCommitted"
  /\ \/ Append(p, cur[p], "RESTORE_COMMITTED_UNJOURNALED")
     \/ AppendFails(p, cur[p], "RESTORE_COMMITTED_UNJOURNALED")
  /\ Finish(p)
  /\ UNCHANGED <<claim, at, crashes, missed>>

AppendRestoreFailed(p) ==
  /\ pc[p] = "appendRestoreFailed"
  /\ \/ Append(p, cur[p], "FAILED")
     \/ AppendFails(p, cur[p], "FAILED")
  /\ Finish(p)
  /\ UNCHANGED <<claim, at, crashes, missed>>

-----------------------------------------------------------------------------
(* The environment. *)

\* The process is killed, interrupted or loses power; an append under way
\* may have written half a line.
Crash(p) ==
  /\ pc[p] # "idle" /\ crashes < MaxCrashes
  /\ crashes' = crashes + 1
  /\ Finish(p)
  /\ Calm(p)
  /\ \/ UNCHANGED torn
     \/ MayTear /\ pc[p] \in AppendSteps /\ torn' = TRUE
  /\ UNCHANGED <<journal, claim, at, missed>>

\* The tool that owns the cache directory creates it anew, or deletes it.
ToolCreates(o, path) ==
  /\ at[o] = Nowhere /\ ~Occupied(path)
  /\ at' = [at EXCEPT ![o] = path]
  /\ UNCHANGED <<journal, torn, claim, crashes, missed, local>>

ToolRemoves(o) ==
  /\ ToolDeletes
  /\ at[o] \in Paths
  /\ at' = [at EXCEPT ![o] = Nowhere]
  /\ UNCHANGED <<journal, torn, claim, crashes, missed, local>>

-----------------------------------------------------------------------------

Reconcile(p) ==
  \/ Inventory(p) \/ Scan(p) \/ Reread(p) \/ ReadClaims(p)
  \/ NextOrphan(p) \/ RecordOrphanClaimed(p) \/ RecordOrphanFailed(p)
  \/ OrphansDone(p) \/ NextPending(p) \/ ObserveSlot(p) \/ RecordVerdict(p)
  \/ PendingDone(p) \/ ReconciliationEnds(p)

Execute(p) ==
  \/ EnterSession(p) \/ Revalidate(p) \/ NextItem(p) \/ ItemsDone(p)
  \/ CreateClaim(p) \/ FillClaim(p) \/ AppendClaimed(p) \/ AppendPlanned(p)
  \/ AppendQuarantining(p) \/ Recheck(p) \/ Rename(p) \/ AppendQuarantined(p)
  \/ HandleFailure(p) \/ AppendCommitted(p) \/ AppendFailed(p)

Restore(p) ==
  \/ AnswerFromJournal(p) \/ CheckRestore(p) \/ AppendRestoring(p)
  \/ RenameBack(p) \/ AppendRestored(p) \/ HandleRestoreFailure(p)
  \/ AppendRestoreCommitted(p) \/ AppendRestoreFailed(p)

\* A process that is in an operation takes its next step.
Works(p) == Reconcile(p) \/ Execute(p) \/ Restore(p)

Starts(p) ==
  \/ \E plan \in Plans : StartExecute(p, plan)
  \/ \E r \in Recoveries : StartUndo(p, r)
  \/ StartStatus(p)

Environment ==
  \/ \E p \in Procs : Crash(p)
  \/ \E o \in Spares, path \in Paths : ToolCreates(o, path)
  \/ \E o \in Objects : ToolRemoves(o)

Next == (\E p \in Procs : Works(p) \/ Starts(p)) \/ Environment

Spec == Init /\ [][Next]_vars

-----------------------------------------------------------------------------
(* Properties. *)

\* A plan item has one owner: two processes that execute the same plan never
\* are both between claiming an item and finishing it.
OneOwner ==
  \A p, q \in Procs :
    (p # q /\ pc[p] \in OwnerSteps /\ pc[q] \in OwnerSteps) => cur[p] # cur[q]

\* Quarantine and Undo never put a directory where another one is: no payload
\* and no re-created cache is overwritten, whoever gets there first.
OneDirectoryPerPlace ==
  \A o, n \in Objects : (o # n /\ at[o] = at[n]) => at[o] = Nowhere

\* A recovery the journal calls restored has left quarantine for good.
RestoredMeansEmptySlot ==
  \A r \in Recoveries : WasRestored(journal[r]) => ~Occupied(r)

\* Write-ahead: a directory enters a slot only after the claim file is complete
\* and QUARANTINING is in the journal, and leaves it only after RESTORING is.
MovesAreJournaledFirst ==
  [][\A r \in Recoveries :
       /\ (~Occupied(r) /\ Occupied(r)')
            => claim[r] = "written" /\ "QUARANTINING" \in journal[r].seen
       /\ (Occupied(r) /\ ~Occupied(r)') => "RESTORING" \in journal[r].seen]_vars

\* An approval is used once: a slot that was filled is never filled again, not
\* after a crash, not after Undo, not by a second process with the same plan.
SlotFilledOnce ==
  [][\A r \in Recoveries :
       (~Occupied(r) /\ Occupied(r)')
         => journal[r].seen \cap (QuarantinedStates \cup RestoredStates
                                    \cup {"RESTORING"}) = {}]_vars

\* Reconciliation and failure handling never turn a committed quarantine into
\* an ordinary failure: a payload in its slot whose latest record is FAILED
\* has a quarantined record that Undo can start from (docs/ARCHITECTURE.md:188).
NeverStranded ==
  \A r \in Recoveries :
    (at[target[r]] = r /\ journal[r].last = "FAILED") => WasQuarantined(journal[r])

\* How far the code keeps that: crashes, failed appends, failed renames and the
\* deletions of a build tool strand no payload, only a failed observation of the
\* filled slot does (_observe_identity), made by the failure handler or by
\* reconciliation.
StrandedOnlyUnseen ==
  \A r \in Recoveries :
    (at[target[r]] = r /\ journal[r].last = "FAILED")
      => WasQuarantined(journal[r]) \/ r \in missed

\* Undo moves nothing but the directory the plan was approved for: one that was
\* exchanged for it before the rename, and is in the slot in its stead, is never
\* put at the original path, however Undo, reconciliation and a process that is
\* still recording the quarantine interleave.
ExchangedNeverRestored ==
  [][\A r \in Recoveries, o \in Objects :
       (at[o] = r /\ o # target[r]) => at[o]' = r]_vars

\* Once a recovery is recorded as restored its lifecycle is over: nothing is
\* appended that makes it look unfinished or failed.
RestoredIsTerminal ==
  \A r \in Recoveries :
    WasRestored(journal[r]) => journal[r].last \in RestoredStates

\* A process that passed the recovery gate finds no move of any plan under way,
\* and none of the items of its own plan has a claim to settle or one without a
\* record.  The gate looks at the recoveries of its plan only (application.py,
\* _recover_existing_state): a claim of another plan that could not be journaled
\* does not keep the session from starting.
SessionStartsSettled ==
  \A p \in Procs : pc[p] = "revalidate" =>
    /\ \A r \in Recoveries : journal[r].last \notin TransitionStates
    /\ \A r \in todo[p] :
         /\ journal[r].last # "AUTHORIZATION_CLAIMED"
         /\ claim[r] = "written" => "AUTHORIZATION_CLAIMED" \in journal[r].seen

AllIdle == \A p \in Procs : pc[p] = "idle"

\* Recovery state that no operation of the program gets out of: a torn journal,
\* a malformed claim, or an item that failed before its payload was moved, for
\* which the inventory nevertheless expects a payload.
Blocked ==
  \/ torn
  \/ Malformed
  \/ \E r \in Recoveries : journal[r].last = "FAILED" /\ ~Occupied(r)

\* Nobody but the program has touched the directories.
Undisturbed == \A o \in Objects : at[o] = Nowhere <=> o \in Spares

\* While nobody else touches the directories, nothing but those three makes the
\* inventory refuse: every state a crash or a failed step leaves behind is one
\* that the next invocation accepts.
OnlyKnownBlockers ==
  (Undisturbed /\ AllIdle /\ InventoryFails(journal)) => Blocked

\* An item that is quarantined and recorded as such can be restored: while the
\* journal and the claims are readable, the inventory lets Undo through.
UndoAvailable ==
  \A r \in Recoveries :
    (/\ AllIdle /\ ~torn /\ ~Malformed
     /\ at[target[r]] = r /\ WasQuarantined(journal[r])) => ~InventoryFails(journal)

-----------------------------------------------------------------------------
(* Why it works: the invariant that every step preserves. *)

\* The directory of r has been moved into its slot, now or at some time before.
Entered(r) == Occupied(r) \/ "RESTORING" \in journal[r].seen

\* What is on disk fits together: no record and no payload without a claim; a
\* quarantined or restored record means that the payload came.
DiskConsistent ==
  \A r \in Recoveries :
    /\ claim[r] = "absent" => journal[r].seen = {} /\ ~Occupied(r)
    /\ journal[r].last \in journal[r].seen \cup {"NONE"}
    /\ WasQuarantined(journal[r]) \/ WasRestored(journal[r]) => Entered(r)

\* What a process remembers is still true: the journal only grew, and what it
\* reconciles has a claim.
MemoryCurrent(p) ==
  /\ \A r \in Recoveries : /\ view[p][r].seen \subseteq journal[r].seen
                            /\ view[p][r].last \in view[p][r].seen \cup {"NONE"}
  /\ \A r \in work[p] : claim[r] # "absent"

\* The claim of the item a process executes, reconciles or restores.
ItemClaimed(p) ==
  /\ pc[p] \in ItemSteps \ {"claim"} => claim[cur[p]] # "absent"
  /\ pc[p] \in OwnerSteps \ {"fill"} => claim[cur[p]] = "written"

\* An owner that has not moved its item is the one who may still do so.
OwnerInOrder(p) ==
  /\ pc[p] \in BeforeMove => ~Entered(cur[p])
  /\ pc[p] \in {"recheck", "rename"} => "QUARANTINING" \in journal[cur[p]].seen
  /\ pc[p] \in {"appendQuarantined", "appendCommitted"} => Entered(cur[p])

\* A verdict that reconciliation has reached stays right until it is recorded.
VerdictHolds(p) ==
  pc[p] = "record" =>
    /\ verdict[p] \in {"FAILED", "QUARANTINE_COMMITTED_UNJOURNALED",
                       "RESTORE_COMMITTED_UNJOURNALED"}
    /\ verdict[p] # "FAILED" => Entered(cur[p])

RestoreInOrder(p) ==
  /\ pc[p] \in RestoreSteps => Entered(cur[p])
  /\ pc[p] = "renameBack" => "RESTORING" \in journal[cur[p]].seen

ProcessInOrder(p) ==
  /\ MemoryCurrent(p) /\ ItemClaimed(p)
  /\ OwnerInOrder(p) /\ VerdictHolds(p) /\ RestoreInOrder(p)

Consistent ==
  /\ DiskConsistent /\ OneOwner /\ OneDirectoryPerPlace
  /\ \A p \in Procs : ProcessInOrder(p)

-----------------------------------------------------------------------------
(* Liveness. *)

\* A process that is in an operation keeps running, and the user asks for Undo
\* again and again.
Fairness ==
  /\ \A p \in Procs : WF_vars(Works(p))
  /\ \A p \in Procs, r \in Recoveries : SF_vars(StartUndo(p, r))

FairSpec == Spec /\ Fairness

\* Every operation returns.
OperationsFinish == \A p \in Procs : (pc[p] # "idle") ~> (pc[p] = "idle")

\* A payload in quarantine is brought back by repeated Undo, whatever crash
\* left it there, unless recovery is blocked.
UndoSucceeds ==
  \A r \in Recoveries : (at[target[r]] = r) ~> (~Occupied(r) \/ Blocked)

-----------------------------------------------------------------------------
(* The abstract specification, and how its phases show in this one. *)

Phase(r) ==
  IF Occupied(r) THEN "quarantined"
  ELSE IF "RESTORING" \in journal[r].seen THEN "restored" ELSE "inPlace"

Promise == INSTANCE ReversibleCleanup WITH phase <- [r \in Recoveries |-> Phase(r)]

\* Journal, claims, reconciliation, crashes and races amount to nothing but the
\* moves of ReversibleCleanup.
KeepsPromise == Promise!Spec
===============================================================================
