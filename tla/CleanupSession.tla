----------------------------- MODULE CleanupSession -----------------------------
(***************************************************************************)
(* From a scan to the report of a cleanup: planning and validation         *)
(* (cleanup.py), the observation of identities and the fresh scan          *)
(* (cleanup_engine.py), and one confirmed session that is executed, maybe  *)
(* again (application.py).  Tools change the disk between any two looks.   *)
(*                                                                         *)
(* Of the mutation engine only what the session sees of it is here: an     *)
(* item is refused, replayed, claimed, journaled, validated again, renamed *)
(* or failed, and the engine may be interrupted at any of these points.    *)
(* The rename takes what the path leads to when it happens, which a tool   *)
(* may have exchanged after the last validation; slot says what it took.   *)
(* Other processes, crashes, the appends of a reconciliation that fail and *)
(* a rename that raises after it took effect are in the module Quarantine. *)
(* Digests, capabilities and bindings cannot fail within one session and   *)
(* are left out.                                                           *)
(***************************************************************************)
EXTENDS Scan

CONSTANT NoIdentity

ASSUME IdentityAssumption == NoIdentity \notin Nat

VARIABLES
  mode,        \* who scans: "workspace" (scan_workspace) or "system" (scan_system)
  phase,       \* where planning or the execution is
  todo,        \* the paths still to be treated in the phase, in their order
  identities,  \* [path -> FilesystemIdentity] as observed in the phase
  plan,        \* [path -> FindingSnapshot] of the plan's items
  fresh,       \* the findings of the fresh scan and their identities
  claims,      \* the items with a claim file
  record,      \* [path -> the last journal record of the item]
  stage,       \* how far the engine is with the first item of todo
  slot,        \* [path -> the identity of what the rename put into the slot of the item]
  moved,       \* [path -> the item was renamed "now", by an execution "before", or "never"]
  missed,      \* no code: the items whose slot the last reconciliation could not observe
  outcomes,    \* [path -> CleanupItemOutcome]
  state        \* the CleanupSessionState of the report

engineVars == <<claims, record, stage, slot, moved, missed>>
reportVars == <<outcomes, state>>
planVars == <<mode, identities, plan, fresh>>
vars == <<scanVars, engineVars, reportVars, planVars, phase, todo>>

NoItems == [p \in {} |-> NoIdentity]

Init ==
  /\ at = [p \in Paths |-> Object(KindOf(p), Position[p], OutsideContent)]
  /\ events = 0 /\ scan = Idle /\ steady = {} /\ linked = FALSE
  /\ mode \in {"workspace", "system"}
  /\ phase = "idle" /\ todo = {}
  /\ identities = NoItems /\ plan = NoItems /\ fresh = NoItems
  /\ claims = {} /\ record = [c \in Candidates |-> "none"] /\ stage = "begin"
  /\ slot = [c \in Candidates |-> NoIdentity]
  /\ moved = [c \in Candidates |-> "never"] /\ missed = {}
  /\ outcomes = NoItems /\ state = "none"

-----------------------------------------------------------------------------
(* Planning. *)

\* _observe_identity; _authoritative_path asks for an ordinary directory below ordinary ones.
ObserveIdentity(p) == IF Ordinary(p) THEN at[p].id ELSE NoIdentity

FindingAt(p) == CHOOSE finding \in scan.findings : finding.path = p

Snapshot(finding, identity) == [finding |-> finding, identity |-> identity]

\* What both the plan and its validation ask of a finding, beside its completeness.
Executable(finding) ==
  LET f == Analysed(finding)
  IN  /\ f.selected
      /\ f.label \notin {"review_required", "never_delete"}
      /\ f.eligibility = "eligible_for_explicit_action"
      /\ MissingKeys("pytest_cache", f.observations) = {}
      /\ ~HasUncertainty(f.observations) /\ ~HasConflicts(f.observations)
      /\ f.interpretation.protection = "ordinary"
      /\ f.interpretation.reachability = "confirmed_unreferenced"
      /\ f.interpretation.activity = "inactive"
      /\ finding.size.complete

EndOfScan == scan' = Idle /\ steady' = {} /\ UNCHANGED linked

StartScan ==
  /\ phase = "idle" /\ phase' = "planning"
  /\ \E limits \in Limits : BeginScan(mode, limits)
  /\ UNCHANGED <<engineVars, reportVars, planVars, todo>>

\* create_workspace_cleanup_plan takes every finding, create_system_cleanup_plan a selection
\* from a complete scan.
SelectFindings ==
  /\ phase = "planning" /\ scan.pc = "done"
  /\ \E selection \in SUBSET {finding.path : finding \in scan.findings} :
       /\ IF mode = "system"
          THEN ScanCompleteness(mode, scan) /\ selection # {}
          ELSE selection = {finding.path : finding \in scan.findings}
       /\ todo' = selection
  /\ phase' = "identify"
  /\ UNCHANGED <<scanVars, engineVars, reportVars, planVars>>

\* No plan: the scan raised, is incomplete, or found nothing.
NothingToPlan ==
  /\ phase = "planning"
  /\ \/ scan.pc = "raised"
     \/ scan.pc = "done" /\ mode = "system" /\ (~ScanCompleteness(mode, scan) \/ scan.findings = {})
  /\ phase' = "unplanned" /\ EndOfScan
  /\ UNCHANGED <<at, events, engineVars, reportVars, planVars, todo>>

\* The identities are observed after the scan, one finding after the other.
ObservePlanningIdentity ==
  /\ phase = "identify" /\ todo # {}
  /\ identities' = [p \in DOMAIN identities \cup {First(todo)} |->
                      IF p = First(todo) THEN ObserveIdentity(p) ELSE identities[p]]
  /\ todo' = todo \ {First(todo)}
  /\ UNCHANGED <<scanVars, engineVars, reportVars, mode, plan, fresh, phase>>

\* create_cleanup_plan.  A plan without items is not offered for a review.
CreateCleanupPlan ==
  /\ phase = "identify" /\ todo = {}
  /\ LET items == {p \in DOMAIN identities :
                     /\ ScanCompleteness(mode, scan)
                     /\ identities[p] # NoIdentity
                     /\ Executable(FindingAt(p))}
     IN  /\ plan' = [p \in items |-> Snapshot(FindingAt(p), identities[p])]
         /\ phase' = IF items = {} THEN "unplanned" ELSE "review"
  /\ EndOfScan /\ identities' = NoItems
  /\ UNCHANGED <<at, events, engineVars, reportVars,
                 mode, fresh, todo>>

-----------------------------------------------------------------------------
(* execute_cleanup_session: everything up to the engine. *)

AllItems(outcome) == [p \in DOMAIN plan |-> outcome]

\* _blocked_result: whatever happened before, every item is reported as blocked.
Block(result) ==
  /\ phase' = "reported" /\ state' = result /\ outcomes' = AllItems("BLOCKED")
  /\ todo' = {} /\ stage' = "begin" /\ fresh' = NoItems

\* The person who confirms has reviewed exactly this plan.
Execute ==
  /\ phase \in {"review", "reported"} /\ phase' = "recover"
  /\ moved' = [c \in Candidates |-> IF moved[c] = "now" THEN "before" ELSE moved[c]]
  /\ outcomes' = NoItems /\ state' = "none" /\ missed' = {}
  /\ UNCHANGED <<scanVars, claims, record, stage, slot, planVars, todo>>

\* inspect_quarantine_inventory: a slot holds what the journal says of it, and nothing that was
\* exchanged.  Where the journal has but the intent, the slot may be empty.
InventoryAccepts ==
  \A p \in DOMAIN plan :
    /\ slot[p] \in {NoIdentity, plan[p].identity}
    /\ record[p] \in {"none", "claimed", "planned"} => slot[p] = NoIdentity
    /\ record[p] \in {"quarantined", "committed", "failed", "never_began"} => slot[p] # NoIdentity

\* Variant: that nothing is left at the place is taken for a rename.
Settled_SourceOnly(p, source, payload) ==
  IF record[p] = "claimed" THEN "never_began"
  ELSE IF record[p] = "none" /\ p \in claims THEN "failed"
  ELSE IF record[p] = "quarantining" THEN IF source THEN "failed" ELSE "committed"
  ELSE record[p]

\* What reconcile_pending_operations makes of the last record of an item when it sees, or does
\* not see, an ordinary directory at the source and the payload in the slot.
Settled(p, source, payload) ==
  IF record[p] = "claimed" THEN "never_began"
  ELSE IF record[p] = "none" /\ p \in claims THEN "failed"
  ELSE IF record[p] = "quarantining" THEN IF payload /\ ~source THEN "committed" ELSE "failed"
  ELSE record[p]

\* An observation may fail whatever is there.
Reconcile ==
  LET pending == {p \in DOMAIN plan : record[p] = "quarantining"}
  IN  \E unread \in SUBSET pending, unseen \in SUBSET pending :
        /\ record' = [p \in Candidates |->
             Settled(p, Ordinary(p) /\ p \notin unread,
                     p \in pending \ unseen /\ slot[p] = plan[p].identity)]
        /\ missed' = unseen

\* Pending state of an earlier execution is settled and ends this one; the inventory, which may
\* fail to observe a slot, or other recovery state refuses it.
RecoverFirst ==
  /\ phase = "recover"
  /\ \/ /\ InventoryAccepts /\ Reconcile
        /\ IF record' = record
           THEN /\ phase' = "rescan" /\ BeginScan(mode, DefaultLimits)
                /\ UNCHANGED <<reportVars, todo, stage, fresh>>
           ELSE Block("RECONCILIATION_REQUIRED") /\ UNCHANGED scanVars
     \/ Block("RECONCILIATION_REQUIRED") /\ UNCHANGED <<scanVars, record, missed>>
  /\ UNCHANGED <<claims, slot, moved, mode, identities, plan>>

\* The scan of a workspace raises; a system scan without a root has no findings.
EndFreshScan ==
  /\ phase = "rescan" /\ scan.pc \in {"done", "raised"}
  /\ IF scan.pc = "raised" /\ mode = "workspace"
     THEN Block("BLOCKED")
     ELSE /\ phase' = "reidentify" /\ todo' = DOMAIN plan
          /\ UNCHANGED <<reportVars, stage, fresh>>
  /\ UNCHANGED <<scanVars, claims, record, slot, moved, missed, mode, identities, plan>>

ObserveFreshIdentity ==
  /\ phase = "reidentify" /\ todo # {}
  /\ LET p == First(todo)
         found == p \in {finding.path : finding \in scan.findings}
     IN  IF found /\ ObserveIdentity(p) # NoIdentity
         THEN /\ fresh' = [q \in DOMAIN fresh \cup {p} |->
                             IF q = p THEN Snapshot(FindingAt(p), ObserveIdentity(p)) ELSE fresh[q]]
              /\ todo' = todo \ {First(todo)}
              /\ UNCHANGED <<reportVars, stage, identities, phase>>
         ELSE Block("BLOCKED")
  /\ UNCHANGED <<scanVars, claims, record, slot, moved, missed, mode, identities, plan>>

\* _snapshot_differences
SnapshotDiffers(planned, current) ==
  LET was == Analysed(planned.finding)
      is == Analysed(current.finding)
  IN  \/ planned.identity # current.identity
      \/ planned.finding.size # current.finding.size
      \/ \E field \in {"artifact", "label", "eligibility", "interpretation", "observations"} :
           was[field] # is[field]

\* validate_cleanup_plan
ValidationStatus ==
  IF ~ScanCompleteness(mode, scan) \/ \E p \in DOMAIN plan : ~Executable(fresh[p].finding)
  THEN "BLOCKED"
  ELSE IF \E p \in DOMAIN plan : SnapshotDiffers(plan[p], fresh[p]) THEN "STALE_CHANGED"
  ELSE "VALID"

\* A valid plan is authorized, unless the quarantine cannot be prepared.
Revalidate ==
  /\ phase = "reidentify" /\ todo = {}
  /\ \/ /\ ValidationStatus = "VALID"
        /\ phase' = "mutate" /\ todo' = DOMAIN plan
        /\ UNCHANGED <<reportVars, stage, fresh>>
     \/ Block("BLOCKED")
  /\ EndOfScan
  /\ UNCHANGED <<at, events, claims, record, slot, moved, missed, mode, identities, plan>>

-----------------------------------------------------------------------------
(* The engine, item by item. *)

\* Variant: the identity is not compared again.
ItemIsValid_AnyIdentity(p) == ObserveIdentity(p) # NoIdentity

\* _validate_plan_item_before_move
ItemIsValid(p) == ObserveIdentity(p) = plan[p].identity

Outcome(p, outcome) ==
  /\ outcomes' = [q \in DOMAIN outcomes \cup {p} |-> IF q = p THEN outcome ELSE outcomes[q]]
  /\ todo' = todo \ {First(todo)} /\ stage' = "begin"

Reach(next) == stage' = next /\ UNCHANGED <<outcomes, todo>>

Journal(p, status) == record' = [record EXCEPT ![p] = status]

RefuseItem(p) ==
  /\ stage = "begin" /\ ~ItemIsValid(p)
  /\ Outcome(p, "FAILED")
  /\ UNCHANGED <<at, claims, record, slot, moved>>

ReplayItem(p) ==
  /\ stage = "begin" /\ ItemIsValid(p) /\ p \in claims
  /\ Outcome(p, "REPLAYED")
  /\ UNCHANGED <<at, claims, record, slot, moved>>

\* The claim file, and its record unless the journal cannot be written.
ClaimItem(p) ==
  /\ stage = "begin" /\ ItemIsValid(p) /\ p \notin claims
  /\ claims' = claims \cup {p}
  /\ \/ Journal(p, "claimed") /\ Reach("claimed")
     \/ UNCHANGED record /\ Outcome(p, "FAILED")
  /\ UNCHANGED <<at, slot, moved>>

JournalIntent(p) ==
  /\ \E step \in {<<"claimed", "planned">>, <<"planned", "quarantining">>} :
       stage = step[1] /\ Journal(p, step[2]) /\ Reach(step[2])
  /\ UNCHANGED <<at, claims, slot, moved>>

\* The second validation; then the rename follows, but a tool may come first.
ValidateItem(p) ==
  /\ stage = "quarantining" /\ ItemIsValid(p)
  /\ Reach("validated")
  /\ UNCHANGED <<at, claims, record, slot, moved>>

\* os.rename asks nothing of what it takes.  Through a link it takes what is beyond.
RenameItem(p) ==
  /\ stage = "validated" /\ LStat(p).kind # "absent"
  /\ at' = IF \E d \in Above[p] : at[d].kind = "link" THEN at ELSE [at EXCEPT ![p] = Absent]
  /\ slot' = [slot EXCEPT ![p] = LStat(p).id]
  /\ moved' = [moved EXCEPT ![p] = "now"]
  /\ Reach("moved")
  /\ UNCHANGED <<claims, record>>

\* The final record, or after a failure of it the recoverable one, if that can be written.
JournalMove(p) ==
  /\ stage = "moved"
  /\ \/ Journal(p, "quarantined") /\ Outcome(p, "SUCCEEDED")
     \/ (Journal(p, "committed") \/ UNCHANGED record) /\ Outcome(p, "RECOVERABLE")
  /\ UNCHANGED <<at, claims, slot, moved>>

\* The second validation, an append or the rename fails.
FailItem(p) ==
  /\ stage \in {"claimed", "planned", "quarantining", "validated"}
  /\ Journal(p, "failed") \/ UNCHANGED record
  /\ Outcome(p, "FAILED")
  /\ UNCHANGED <<at, claims, slot, moved>>

ItemStep ==
  /\ phase = "mutate" /\ todo # {}
  /\ LET p == First(todo)
     IN  \/ RefuseItem(p) \/ ReplayItem(p) \/ ClaimItem(p) \/ JournalIntent(p)
         \/ ValidateItem(p) \/ RenameItem(p) \/ JournalMove(p) \/ FailItem(p)
  /\ steady' = IF stage' = "validated" THEN {First(todo)} ELSE {}
  /\ UNCHANGED <<events, scan, linked, planVars, phase, state, missed>>

\* Ctrl+C, or an exception that quarantine_plan does not expect.
InterruptEngine ==
  /\ phase = "mutate" /\ todo # {}
  /\ phase' = "interrupted" /\ steady' = {}
  /\ UNCHANGED <<at, events, scan, linked, engineVars, reportVars, planVars, todo>>

-----------------------------------------------------------------------------
(* The report. *)

Achieved == {"SUCCEEDED", "RECOVERABLE"}

\* The reason of a claim that led to nothing speaks of "claimed", which makes it a replay.
OutcomeOf(status) ==
  CASE status = "quarantined" -> "SUCCEEDED"
    [] status = "committed" -> "RECOVERABLE"
    [] status = "never_began" -> "REPLAYED"
    [] status = "failed" -> "FAILED"
    [] OTHER -> "BLOCKED"

StateOf(result) ==
  LET all == {result[p] : p \in DOMAIN plan}
  IN  IF all = {"SUCCEEDED"} THEN "EXECUTED"
      ELSE IF all \cap Achieved # {} THEN "PARTIAL"
      ELSE IF "REPLAYED" \in all THEN "REPLAYED" ELSE "BLOCKED"

ReportItems ==
  /\ phase = "mutate" /\ todo = {}
  /\ phase' = "reported" /\ state' = StateOf(outcomes)
  /\ fresh' = NoItems
  /\ UNCHANGED <<scanVars, engineVars, outcomes, mode, identities, plan, todo>>

\* The results are read from the journal, reconciled unless the inventory refuses it.
ReportAfterInterrupt ==
  /\ phase = "interrupted"
  /\ (InventoryAccepts /\ Reconcile) \/ UNCHANGED <<record, missed>>
  /\ outcomes' = [p \in DOMAIN plan |-> OutcomeOf(record'[p])]
  /\ IF \E p \in DOMAIN plan : outcomes'[p] \in Achieved THEN state' = "PARTIAL"
     ELSE state' \in {"RECONCILIATION_REQUIRED", "BLOCKED"}
  /\ phase' = "reported" /\ todo' = {} /\ stage' = "begin"
  /\ fresh' = NoItems
  /\ UNCHANGED <<scanVars, claims, slot, moved, mode, identities, plan>>

\* The recovery is inconclusive: after Ctrl+C the session asks for a reconciliation, after
\* another exception it is just blocked.
ReportInconclusive ==
  /\ phase = "interrupted"
  /\ Block("RECONCILIATION_REQUIRED") \/ Block("BLOCKED")
  /\ UNCHANGED <<scanVars, claims, record, slot, moved, missed, mode, identities, plan>>

-----------------------------------------------------------------------------

Scanning ==
  /\ phase \in {"planning", "rescan"}
  /\ ScanStep
  /\ UNCHANGED <<engineVars, reportVars, planVars, phase, todo>>

\* While the person reviews or reads a report nothing looks at the disk: what changes then may
\* as well change when the execution has begun.
Tool ==
  /\ phase \notin {"review", "reported", "unplanned"}
  /\ ToolStep
  /\ UNCHANGED <<engineVars, reportVars, planVars, phase, todo>>

Next ==
  \/ StartScan \/ Scanning \/ SelectFindings \/ NothingToPlan
  \/ ObservePlanningIdentity \/ CreateCleanupPlan
  \/ Execute \/ RecoverFirst \/ EndFreshScan \/ ObserveFreshIdentity \/ Revalidate
  \/ ItemStep \/ InterruptEngine
  \/ ReportItems \/ ReportAfterInterrupt \/ ReportInconclusive
  \/ Tool

Spec == Init /\ [][Next]_vars

-----------------------------------------------------------------------------
(* Properties. *)

\* A scan that says it is complete, whatever its budget and whatever raced with it, has a
\* finding about every candidate that stood below its root all the time, and the finding is
\* about that object and its content (scanner.py; a stopped scan is never complete).
CompleteMeansSeen ==
  ScanCompleteness(mode, scan) =>
    \A c \in steady : \E finding \in scan.findings :
      finding.path = c /\ finding.id = at[c].id /\ finding.dir.parts = at[c].content.parts

\* What is moved has been found again with the evidence the plan shows.  It is the object the
\* plan was reviewed with, and the one the fresh scan has read unless a directory above it became
\* a link and an ordinary directory again, or else a tool has changed the path in the instant
\* between the last validation of the item and its rename: however it is changed before, it is
\* not moved (_validate_plan_item_before_move, twice in quarantine_plan).
OnlyReviewedMoved ==
  [][\A p \in Candidates : moved'[p] = "now" /\ moved[p] # "now" =>
       /\ Analysed(fresh[p].finding) = Analysed(plan[p].finding)
       /\ p \in steady =>
            /\ Ordinary(p) /\ slot'[p] = plan[p].identity
            /\ fresh[p].finding.id = slot'[p] \/ linked]_vars

\* The report says of an item that it was quarantined only if this execution has moved it; an
\* item that it has moved is reported so unless the recovery was inconclusive, could not observe
\* the slot, or the tool has made the directory again before the reconciliation looked.
ReportMatchesMoves ==
  [][phase' = "reported" /\ phase # "reported" =>
       \A p \in DOMAIN plan :
         /\ outcomes'[p] \in Achieved \/ state' = "EXECUTED" => moved[p] = "now"
         /\ moved[p] = "now" /\ outcomes'[p] \notin Achieved =>
              /\ phase = "interrupted"
              /\ Ordinary(p) \/ p \in missed' \/ outcomes'[p] = "BLOCKED"]_vars
===============================================================================
