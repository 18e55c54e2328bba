--------------------------- MODULE QuarantineProofs ---------------------------
(***************************************************************************)
(* Theorems about Quarantine, for every set of processes, recoveries,      *)
(* plans, paths and directories, with or without faults and crashes.       *)
(***************************************************************************)
EXTENDS Quarantine, TLAPS

-----------------------------------------------------------------------------
(* Type correctness. *)

\* What an observation sees is true, unless it failed.
LEMMA Sight ==
  ASSUME NEW place, NEW o, NEW seen \in Look(place, o)
  PROVE  /\ seen \in Observations
         /\ seen = "match" => at[o] = place
         /\ seen = "error" => IOFaults \/ ~Occupied(place)
  BY DEF Look, Shown, Observations

LEMMA InitType == Init => TypeOK
<1> SUFFICES ASSUME Init PROVE TypeOK
  OBVIOUS
<1>1. at \in [Objects -> Paths \cup Recoveries \cup {Nowhere}]
  BY ConstantsAssumption DEF Init, ConstantsAssumption
<1>2. NoEntries \in Lifecycle
  BY DEF NoEntries, Lifecycle
<1>3. crashes \in 0..MaxCrashes
  BY ConstantsAssumption DEF Init, ConstantsAssumption
<1>4. SharedTypeOK
  BY <1>1, <1>2, <1>3 DEF Init, SharedTypeOK
<1>5. LocalTypeOK
  BY <1>2 DEF Init, LocalTypeOK, Steps, Observations
<1>6. QED
  BY <1>4, <1>5 DEF Init, TypeOK, ItemTypeOK, ItemSteps, OwnerSteps, RestoreSteps,
     QuarantineAppends, RestoreAppends

LEMMA AppendType ==
  ASSUME TypeOK, NEW p \in Procs, NEW r \in Recoveries, NEW s \in Status,
         Append(p, r, s) \/ AppendFails(p, r, s)
  PROVE  /\ journal' \in [Recoveries -> Lifecycle]
         /\ torn' \in BOOLEAN
         /\ raced' \in [Procs -> BOOLEAN]
<1>1. CASE Append(p, r, s)
  <2>1. With(journal[r], s) \in Lifecycle
    BY DEF With, Lifecycle, TypeOK, SharedTypeOK
  <2>2. QED
    BY <1>1, <2>1 DEF Append, TypeOK, SharedTypeOK
<1>2. CASE AppendFails(p, r, s) /\ ~Append(p, r, s)
  BY <1>2 DEF AppendFails, Calm, TypeOK, SharedTypeOK, LocalTypeOK
<1>3. QED
  BY <1>1, <1>2

\* A process that has finished, or stopped, has forgotten everything.
LEMMA FinishType ==
  ASSUME TypeOK, NEW p \in Procs, Finish(p), raced' \in [Procs -> BOOLEAN]
  PROVE  LocalTypeOK' /\ ItemTypeOK'
<1>1. LocalTypeOK'
  BY DEF Finish, TypeOK, LocalTypeOK, NoEntries, Lifecycle, Steps, Observations
<1>2. QED
  BY <1>1 DEF Finish, TypeOK, LocalTypeOK, ItemTypeOK, ItemSteps, OwnerSteps, RestoreSteps,
     QuarantineAppends, RestoreAppends

LEMMA StepType ==
  ASSUME TypeOK, NEW p \in Procs, NEW step \in Steps \ {"record"},
         step \in ItemSteps => cur[p] \in Recoveries,
         Step(p, step), raced' \in [Procs -> BOOLEAN]
  PROVE  LocalTypeOK' /\ ItemTypeOK'
  BY DEF Step, Goto, KeepMemory, TypeOK, LocalTypeOK, ItemTypeOK

LEMMA ItemEndsType ==
  ASSUME TypeOK, NEW p \in Procs, ItemEnds(p), raced' \in [Procs -> BOOLEAN]
  PROVE  LocalTypeOK' /\ ItemTypeOK'
<1>1. "item" \in Steps /\ "item" \notin ItemSteps
  BY DEF Steps, ItemSteps, OwnerSteps, RestoreSteps, QuarantineAppends, RestoreAppends
<1>2. QED
  BY <1>1 DEF ItemEnds, Goto, KeepMemory, TypeOK, LocalTypeOK, ItemTypeOK

LEMMA NoEntriesType == [r \in Recoveries |-> NoEntries] \in [Recoveries -> Lifecycle]
  BY DEF NoEntries, Lifecycle

LEMMA NotedType ==
  ASSUME TypeOK, NEW p \in Procs, cur[p] \in Recoveries, NEW s \in Status, Noted(p, s)
  PROVE  /\ view' \in [Procs -> [Recoveries -> Lifecycle]]
         /\ touched' \in [Procs -> BOOLEAN]
<1>1. With(view[p][cur[p]], s) \in Lifecycle
  BY DEF With, Lifecycle, TypeOK, LocalTypeOK
<1>2. [view[p] EXCEPT ![cur[p]] = With(@, s)] \in [Recoveries -> Lifecycle]
  BY <1>1 DEF TypeOK, LocalTypeOK
<1>3. view' = [view EXCEPT ![p] = [view[p] EXCEPT ![cur[p]] = With(@, s)]]
  BY DEF Noted
<1>4. QED
  BY <1>2, <1>3 DEF Noted, TypeOK, LocalTypeOK

\* Steps that only change what the process itself remembers.
LEMMA ReconcileType ==
  ASSUME TypeOK, NEW p \in Procs, Reconcile(p)
  PROVE  TypeOK'
<1> USE DEF Steps, ItemSteps, OwnerSteps, RestoreSteps, AppendSteps, ReconcileAppends,
   QuarantineAppends, RestoreAppends
<1>1. CASE Inventory(p)
  <2>1. SharedTypeOK'
    BY <1>1 DEF Inventory, disk, TypeOK, SharedTypeOK
  <2>2. CASE Finish(p)
    BY <1>1, <2>1, <2>2, FinishType DEF Inventory, TypeOK, LocalTypeOK
  <2>3. CASE ~Finish(p)
    <3>1. LocalTypeOK'
      BY <1>1, <2>3 DEF Inventory, Goto, TypeOK, SharedTypeOK, LocalTypeOK
    <3>2. ItemTypeOK'
      BY <1>1, <2>3 DEF Inventory, Goto, TypeOK, LocalTypeOK, ItemTypeOK
    <3>3. QED
      BY <2>1, <3>1, <3>2 DEF TypeOK
  <2>4. QED
    BY <2>2, <2>3
<1>2. CASE Scan(p)
  <2>1. SharedTypeOK'
    BY <1>2 DEF Scan, disk, TypeOK, SharedTypeOK
  <2>2. CASE Finish(p)
    BY <1>2, <2>1, <2>2, FinishType DEF Scan, TypeOK, LocalTypeOK
  <2>3. CASE ~Finish(p)
    <3>1. LocalTypeOK'
      BY <1>2, <2>3, NoEntriesType DEF Scan, Goto, TypeOK, LocalTypeOK
    <3>2. ItemTypeOK'
      BY <1>2, <2>3 DEF Scan, Goto, TypeOK, LocalTypeOK, ItemTypeOK
    <3>3. QED
      BY <2>1, <3>1, <3>2 DEF TypeOK
  <2>4. QED
    BY <2>2, <2>3
<1>3. CASE Reread(p)
  <2>1. SharedTypeOK'
    BY <1>3 DEF Reread, disk, TypeOK, SharedTypeOK
  <2>2. CASE Finish(p)
    BY <1>3, <2>1, <2>2, FinishType DEF Reread, TypeOK, LocalTypeOK
  <2>3. CASE ~Finish(p)
    <3>1. LocalTypeOK'
      BY <1>3, <2>3 DEF Reread, Goto, TypeOK, SharedTypeOK, LocalTypeOK
    <3>2. ItemTypeOK'
      BY <1>3, <2>3 DEF Reread, Goto, TypeOK, LocalTypeOK, ItemTypeOK
    <3>3. QED
      BY <2>1, <3>1, <3>2 DEF TypeOK
  <2>4. QED
    BY <2>2, <2>3
<1>4. CASE ReadClaims(p)
  <2>1. SharedTypeOK'
    BY <1>4 DEF ReadClaims, disk, TypeOK, SharedTypeOK
  <2>2. CASE Finish(p)
    BY <1>4, <2>1, <2>2, FinishType DEF ReadClaims, TypeOK, LocalTypeOK
  <2>3. CASE ~Finish(p)
    <3>1. work' \in [Procs -> SUBSET Recoveries]
      <4> DEFINE orphans ==
            {r \in Recoveries : /\ claim[r] = "written"
                                /\ "AUTHORIZATION_CLAIMED" \notin view[p][r].seen}
      <4>1. work' = [work EXCEPT ![p] = orphans]
        BY <1>4, <2>3 DEF ReadClaims
      <4>2. orphans \in SUBSET Recoveries
        OBVIOUS
      <4>3. QED
        BY <4>1, <4>2 DEF TypeOK, LocalTypeOK
    <3>2. LocalTypeOK'
      BY <1>4, <2>3, <3>1 DEF ReadClaims, Goto, TypeOK, LocalTypeOK
    <3>3. ItemTypeOK'
      BY <1>4, <2>3 DEF ReadClaims, Goto, TypeOK, LocalTypeOK, ItemTypeOK
    <3>4. QED
      BY <2>1, <3>2, <3>3 DEF TypeOK
  <2>4. QED
    BY <2>2, <2>3
<1>5. CASE NextOrphan(p)
  <2>1. SharedTypeOK'
    BY <1>5 DEF NextOrphan, disk, TypeOK, SharedTypeOK
  <2>2. LocalTypeOK'
    BY <1>5 DEF NextOrphan, Goto, TypeOK, SharedTypeOK, LocalTypeOK
  <2>3. ItemTypeOK'
    BY <1>5 DEF NextOrphan, Goto, TypeOK, LocalTypeOK, ItemTypeOK
  <2>4. QED
    BY <2>1, <2>2, <2>3 DEF TypeOK
<1>6. CASE RecordOrphanClaimed(p)
  <2>1. cur[p] \in Recoveries /\ "AUTHORIZATION_CLAIMED" \in Status
    BY <1>6 DEF RecordOrphanClaimed, Status, TypeOK, ItemTypeOK
  <2>2. Append(p, cur[p], "AUTHORIZATION_CLAIMED") \/ AppendFails(p, cur[p], "AUTHORIZATION_CLAIMED")
    BY <1>6 DEF RecordOrphanClaimed
  <2>3. SharedTypeOK' /\ raced' \in [Procs -> BOOLEAN]
    BY <1>6, <2>1, <2>2, AppendType DEF RecordOrphanClaimed, TypeOK, SharedTypeOK
  <2>4. /\ view' \in [Procs -> [Recoveries -> Lifecycle]]
        /\ touched' \in [Procs -> BOOLEAN]
    BY <1>6, <2>1, NotedType DEF RecordOrphanClaimed, TypeOK, LocalTypeOK
  <2>5. LocalTypeOK'
    BY <1>6, <2>3, <2>4 DEF RecordOrphanClaimed, Goto, TypeOK, LocalTypeOK
  <2>6. ItemTypeOK'
    BY <1>6 DEF RecordOrphanClaimed, Goto, TypeOK, LocalTypeOK, ItemTypeOK
  <2>7. QED
    BY <2>3, <2>5, <2>6 DEF TypeOK
<1>7. CASE RecordOrphanFailed(p)
  <2>1. cur[p] \in Recoveries /\ "FAILED" \in Status
    BY <1>7 DEF RecordOrphanFailed, Status, TypeOK, ItemTypeOK
  <2>2. Append(p, cur[p], "FAILED") \/ AppendFails(p, cur[p], "FAILED")
    BY <1>7 DEF RecordOrphanFailed
  <2>3. SharedTypeOK' /\ raced' \in [Procs -> BOOLEAN]
    BY <1>7, <2>1, <2>2, AppendType DEF RecordOrphanFailed, TypeOK, SharedTypeOK
  <2>4. /\ view' \in [Procs -> [Recoveries -> Lifecycle]]
        /\ touched' \in [Procs -> BOOLEAN]
    BY <1>7, <2>1, NotedType DEF RecordOrphanFailed, TypeOK, LocalTypeOK
  <2>5. LocalTypeOK'
    BY <1>7, <2>3, <2>4 DEF RecordOrphanFailed, Goto, TypeOK, LocalTypeOK
  <2>6. ItemTypeOK'
    BY <1>7 DEF RecordOrphanFailed, Goto, TypeOK, LocalTypeOK, ItemTypeOK
  <2>7. QED
    BY <2>3, <2>5, <2>6 DEF TypeOK
<1>8. CASE OrphansDone(p)
  <2>1. SharedTypeOK'
    BY <1>8 DEF OrphansDone, disk, TypeOK, SharedTypeOK
  <2>2. LocalTypeOK'
    BY <1>8 DEF OrphansDone, Goto, TypeOK, SharedTypeOK, LocalTypeOK
  <2>3. ItemTypeOK'
    BY <1>8 DEF OrphansDone, Goto, TypeOK, LocalTypeOK, ItemTypeOK
  <2>4. QED
    BY <2>1, <2>2, <2>3 DEF TypeOK
<1>9. CASE NextPending(p)
  <2>1. SharedTypeOK'
    BY <1>9 DEF NextPending, disk, TypeOK, SharedTypeOK
  <2>2. PICK r \in work[p] :
          /\ cur' = [cur EXCEPT ![p] = r]
          /\ work' = [work EXCEPT ![p] = @ \ {r}]
          /\ \/ /\ verdict' = [verdict EXCEPT ![p] = "FAILED"]
                /\ Goto(p, "record")
                /\ UNCHANGED observed
             \/ /\ \E source \in Look(home[r], target[r]) :
                     observed' = [observed EXCEPT ![p] = source]
                /\ Goto(p, "observe")
                /\ UNCHANGED verdict
    BY <1>9 DEF NextPending
  <2>3. r \in Recoveries /\ Look(home[r], target[r]) \subseteq Observations
    BY Sight DEF TypeOK, LocalTypeOK
  <2>4. LocalTypeOK'
    <3>5. "FAILED" \in Status
      BY DEF Status
    <3>1. verdict' \in [Procs -> Status \cup {"NONE"}]
      BY <2>2, <3>5 DEF TypeOK, LocalTypeOK
    <3>4. observed' \in [Procs -> Observations]
      BY <2>2, <2>3 DEF TypeOK, LocalTypeOK
    <3>2. pc' \in [Procs -> Steps] /\ work' \in [Procs -> SUBSET Recoveries]
      BY <2>2 DEF Goto, TypeOK, LocalTypeOK
    <3>3. QED
      BY <1>9, <2>2, <2>3, <3>1, <3>2, <3>4 DEF NextPending, TypeOK, LocalTypeOK
  <2>5. ItemTypeOK'
    BY <1>9, <2>2, <2>3 DEF NextPending, Goto, Status, TypeOK, LocalTypeOK, ItemTypeOK
  <2>6. QED
    BY <2>1, <2>4, <2>5 DEF TypeOK
<1>10. CASE ObserveSlot(p)
  <2>1. SharedTypeOK'
    BY <1>10 DEF ObserveSlot, NoteSlot, TypeOK, SharedTypeOK, ItemTypeOK
  <2>2. LocalTypeOK'
    BY <1>10 DEF ObserveSlot, Goto, TypeOK, SharedTypeOK, LocalTypeOK, MoveVerdict, Status,
       Observations
  <2>3. ItemTypeOK'
    BY <1>10 DEF ObserveSlot, Goto, TypeOK, LocalTypeOK, ItemTypeOK, MoveVerdict, Status,
       Observations
  <2>4. QED
    BY <2>1, <2>2, <2>3 DEF TypeOK
<1>11. CASE RecordVerdict(p)
  <2>1. cur[p] \in Recoveries /\ verdict[p] \in Status
    BY <1>11 DEF RecordVerdict, Status, TypeOK, ItemTypeOK
  <2>2. Append(p, cur[p], verdict[p]) \/ AppendFails(p, cur[p], verdict[p])
    BY <1>11 DEF RecordVerdict
  <2>3. SharedTypeOK' /\ raced' \in [Procs -> BOOLEAN]
    BY <1>11, <2>1, <2>2, AppendType DEF RecordVerdict, TypeOK, SharedTypeOK
  <2>4. /\ view' \in [Procs -> [Recoveries -> Lifecycle]]
        /\ touched' \in [Procs -> BOOLEAN]
    BY <1>11, <2>1, NotedType DEF RecordVerdict, TypeOK, LocalTypeOK
  <2>5. LocalTypeOK'
    BY <1>11, <2>3, <2>4 DEF RecordVerdict, Goto, TypeOK, LocalTypeOK
  <2>6. ItemTypeOK'
    BY <1>11 DEF RecordVerdict, Goto, TypeOK, LocalTypeOK, ItemTypeOK
  <2>7. QED
    BY <2>3, <2>5, <2>6 DEF TypeOK
<1>12. CASE PendingDone(p)
  <2>1. SharedTypeOK'
    BY <1>12 DEF PendingDone, disk, TypeOK, SharedTypeOK
  <2>2. LocalTypeOK'
    BY <1>12 DEF PendingDone, Goto, TypeOK, SharedTypeOK, LocalTypeOK
  <2>3. ItemTypeOK'
    BY <1>12 DEF PendingDone, Goto, TypeOK, LocalTypeOK, ItemTypeOK
  <2>4. QED
    BY <2>1, <2>2, <2>3 DEF TypeOK
<1>13. CASE ReconciliationEnds(p)
  <2>1. SharedTypeOK'
    BY <1>13 DEF ReconciliationEnds, disk, TypeOK, SharedTypeOK
  <2>2. CASE Finish(p)
    BY <1>13, <2>1, <2>2, FinishType DEF ReconciliationEnds, TypeOK, LocalTypeOK
  <2>3. QED
    BY <1>13, <2>2 DEF ReconciliationEnds
<1>14. QED
  BY <1>1, <1>2, <1>3, <1>4, <1>5, <1>6, <1>7, <1>8, <1>9, <1>10, <1>11, <1>12, <1>13
     DEF Reconcile

LEMMA MoveType ==
  ASSUME TypeOK, NEW from, NEW to \in Paths \cup Recoveries, Move(from, to)
  PROVE  at' \in [Objects -> Paths \cup Recoveries \cup {Nowhere}]
  BY DEF Move, TypeOK, SharedTypeOK

LEMMA ExecuteType ==
  ASSUME TypeOK, NEW p \in Procs, Execute(p)
  PROVE  TypeOK'
<1> USE DEF Steps, ItemSteps, OwnerSteps, RestoreSteps, AppendSteps, ReconcileAppends,
   QuarantineAppends, RestoreAppends
<1>1. CASE EnterSession(p)
  <2>1. SharedTypeOK'
    BY <1>1 DEF EnterSession, disk, TypeOK, SharedTypeOK
  <2>2. LocalTypeOK'
    BY <1>1, NoEntriesType DEF EnterSession, Goto, KeepMemory, TypeOK, LocalTypeOK
  <2>3. ItemTypeOK'
    BY <1>1 DEF EnterSession, Goto, KeepMemory, TypeOK, LocalTypeOK, ItemTypeOK
  <2>4. QED
    BY <2>1, <2>2, <2>3 DEF TypeOK
<1>2. CASE Revalidate(p)
  <2>1. SharedTypeOK' /\ raced' \in [Procs -> BOOLEAN]
    BY <1>2 DEF Revalidate, disk, TypeOK, SharedTypeOK, LocalTypeOK
  <2>2. LocalTypeOK' /\ ItemTypeOK'
    BY <1>2, <2>1, FinishType, StepType DEF Revalidate, TypeOK, ItemTypeOK
  <2>3. QED
    BY <2>1, <2>2 DEF TypeOK
<1>3. CASE NextItem(p)
  <2>1. SharedTypeOK'
    BY <1>3 DEF NextItem, disk, TypeOK, SharedTypeOK
  <2>2. LocalTypeOK'
    BY <1>3 DEF NextItem, Goto, KeepMemory, TypeOK, LocalTypeOK
  <2>3. ItemTypeOK'
    BY <1>3 DEF NextItem, Goto, KeepMemory, TypeOK, LocalTypeOK, ItemTypeOK
  <2>4. QED
    BY <2>1, <2>2, <2>3 DEF TypeOK
<1>4. CASE ItemsDone(p)
  <2>1. SharedTypeOK' /\ raced' \in [Procs -> BOOLEAN]
    BY <1>4 DEF ItemsDone, disk, TypeOK, SharedTypeOK, LocalTypeOK
  <2>2. LocalTypeOK' /\ ItemTypeOK'
    BY <1>4, <2>1, FinishType DEF ItemsDone, TypeOK, ItemTypeOK
  <2>3. QED
    BY <2>1, <2>2 DEF TypeOK
<1>5. CASE CreateClaim(p)
  <2>1. cur[p] \in Recoveries
    BY <1>5 DEF CreateClaim, TypeOK, ItemTypeOK
  <2>2. SharedTypeOK' /\ raced' \in [Procs -> BOOLEAN]
    BY <1>5 DEF CreateClaim, TypeOK, SharedTypeOK, LocalTypeOK
  <2>3. LocalTypeOK' /\ ItemTypeOK'
    BY <1>5, <2>1, <2>2, StepType, ItemEndsType DEF CreateClaim
  <2>4. QED
    BY <2>2, <2>3 DEF TypeOK
<1>6. CASE FillClaim(p)
  <2>1. cur[p] \in Recoveries
    BY <1>6 DEF FillClaim, TypeOK, ItemTypeOK
  <2>2. SharedTypeOK' /\ raced' \in [Procs -> BOOLEAN]
    BY <1>6 DEF FillClaim, TypeOK, SharedTypeOK, LocalTypeOK
  <2>3. LocalTypeOK' /\ ItemTypeOK'
    BY <1>6, <2>1, <2>2, StepType, ItemEndsType DEF FillClaim
  <2>4. QED
    BY <2>2, <2>3 DEF TypeOK
<1>7. CASE AppendClaimed(p)
  <2>1. cur[p] \in Recoveries /\ "AUTHORIZATION_CLAIMED" \in Status
    BY <1>7 DEF AppendClaimed, Status, TypeOK, ItemTypeOK
  <2>2. Append(p, cur[p], "AUTHORIZATION_CLAIMED") \/ AppendFails(p, cur[p], "AUTHORIZATION_CLAIMED")
    BY <1>7 DEF AppendClaimed
  <2>3. SharedTypeOK' /\ raced' \in [Procs -> BOOLEAN]
    BY <1>7, <2>1, <2>2, AppendType DEF AppendClaimed, TypeOK, SharedTypeOK
  <2>4. LocalTypeOK' /\ ItemTypeOK'
    BY <1>7, <2>1, <2>3, StepType, ItemEndsType DEF AppendClaimed
  <2>5. QED
    BY <2>3, <2>4 DEF TypeOK
<1>8. CASE AppendPlanned(p)
  <2>1. cur[p] \in Recoveries /\ "PLANNED" \in Status
    BY <1>8 DEF AppendPlanned, Status, TypeOK, ItemTypeOK
  <2>2. Append(p, cur[p], "PLANNED") \/ AppendFails(p, cur[p], "PLANNED")
    BY <1>8 DEF AppendPlanned
  <2>3. SharedTypeOK' /\ raced' \in [Procs -> BOOLEAN]
    BY <1>8, <2>1, <2>2, AppendType DEF AppendPlanned, TypeOK, SharedTypeOK
  <2>4. LocalTypeOK' /\ ItemTypeOK'
    BY <1>8, <2>1, <2>3, StepType DEF AppendPlanned
  <2>5. QED
    BY <2>3, <2>4 DEF TypeOK
<1>9. CASE AppendQuarantining(p)
  <2>1. cur[p] \in Recoveries /\ "QUARANTINING" \in Status
    BY <1>9 DEF AppendQuarantining, Status, TypeOK, ItemTypeOK
  <2>2. Append(p, cur[p], "QUARANTINING") \/ AppendFails(p, cur[p], "QUARANTINING")
    BY <1>9 DEF AppendQuarantining
  <2>3. SharedTypeOK' /\ raced' \in [Procs -> BOOLEAN]
    BY <1>9, <2>1, <2>2, AppendType DEF AppendQuarantining, TypeOK, SharedTypeOK
  <2>4. LocalTypeOK' /\ ItemTypeOK'
    BY <1>9, <2>1, <2>3, StepType DEF AppendQuarantining
  <2>5. QED
    BY <2>3, <2>4 DEF TypeOK
<1>10. CASE Recheck(p)
  <2>1. SharedTypeOK' /\ raced' \in [Procs -> BOOLEAN]
    BY <1>10 DEF Recheck, disk, TypeOK, SharedTypeOK, LocalTypeOK
  <2>2. LocalTypeOK' /\ ItemTypeOK'
    BY <1>10, <2>1, StepType DEF Recheck, TypeOK, ItemTypeOK
  <2>3. QED
    BY <2>1, <2>2 DEF TypeOK
<1>11. CASE Rename(p)
  <2>1. cur[p] \in Recoveries /\ cur[p] \in Paths \cup Recoveries
    BY <1>11, ConstantsAssumption DEF Rename, TypeOK, ItemTypeOK, ConstantsAssumption
  <2>2. at' = at \/ Move(home[cur[p]], cur[p])
    BY <1>11 DEF Rename
  <2>3. SharedTypeOK' /\ raced' \in [Procs -> BOOLEAN]
    BY <1>11, <2>1, <2>2, MoveType DEF Rename, TypeOK, SharedTypeOK, LocalTypeOK
  <2>4. LocalTypeOK' /\ ItemTypeOK'
    BY <1>11, <2>1, <2>3, StepType DEF Rename
  <2>5. QED
    BY <2>3, <2>4 DEF TypeOK
<1>12. CASE AppendQuarantined(p)
  <2>1. cur[p] \in Recoveries /\ "QUARANTINED" \in Status
    BY <1>12 DEF AppendQuarantined, Status, TypeOK, ItemTypeOK
  <2>2. Append(p, cur[p], "QUARANTINED") \/ AppendFails(p, cur[p], "QUARANTINED")
    BY <1>12 DEF AppendQuarantined
  <2>3. SharedTypeOK' /\ raced' \in [Procs -> BOOLEAN]
    BY <1>12, <2>1, <2>2, AppendType DEF AppendQuarantined, TypeOK, SharedTypeOK
  <2>4. LocalTypeOK' /\ ItemTypeOK'
    BY <1>12, <2>1, <2>3, StepType, ItemEndsType DEF AppendQuarantined
  <2>5. QED
    BY <2>3, <2>4 DEF TypeOK
<1>13. CASE HandleFailure(p)
  <2>1. SharedTypeOK' /\ raced' \in [Procs -> BOOLEAN]
    BY <1>13 DEF HandleFailure, NoteSlot, TypeOK, SharedTypeOK, LocalTypeOK, ItemTypeOK
  <2>2. LocalTypeOK' /\ ItemTypeOK'
    BY <1>13, <2>1, StepType DEF HandleFailure, TypeOK, ItemTypeOK
  <2>3. QED
    BY <2>1, <2>2 DEF TypeOK
<1>14. CASE AppendCommitted(p)
  <2>1. cur[p] \in Recoveries /\ "QUARANTINE_COMMITTED_UNJOURNALED" \in Status
    BY <1>14 DEF AppendCommitted, Status, TypeOK, ItemTypeOK
  <2>2. Append(p, cur[p], "QUARANTINE_COMMITTED_UNJOURNALED") \/ AppendFails(p, cur[p], "QUARANTINE_COMMITTED_UNJOURNALED")
    BY <1>14 DEF AppendCommitted
  <2>3. SharedTypeOK' /\ raced' \in [Procs -> BOOLEAN]
    BY <1>14, <2>1, <2>2, AppendType DEF AppendCommitted, TypeOK, SharedTypeOK
  <2>4. LocalTypeOK' /\ ItemTypeOK'
    BY <1>14, <2>1, <2>3, ItemEndsType DEF AppendCommitted
  <2>5. QED
    BY <2>3, <2>4 DEF TypeOK
<1>15. CASE AppendFailed(p)
  <2>1. cur[p] \in Recoveries /\ "FAILED" \in Status
    BY <1>15 DEF AppendFailed, Status, TypeOK, ItemTypeOK
  <2>2. Append(p, cur[p], "FAILED") \/ AppendFails(p, cur[p], "FAILED")
    BY <1>15 DEF AppendFailed
  <2>3. SharedTypeOK' /\ raced' \in [Procs -> BOOLEAN]
    BY <1>15, <2>1, <2>2, AppendType DEF AppendFailed, TypeOK, SharedTypeOK
  <2>4. LocalTypeOK' /\ ItemTypeOK'
    BY <1>15, <2>1, <2>3, ItemEndsType DEF AppendFailed
  <2>5. QED
    BY <2>3, <2>4 DEF TypeOK
<1>16. QED
  BY <1>1, <1>2, <1>3, <1>4, <1>5, <1>6, <1>7, <1>8, <1>9, <1>10, <1>11, <1>12, <1>13, <1>14,
     <1>15 DEF Execute

LEMMA RestoreType ==
  ASSUME TypeOK, NEW p \in Procs, Restore(p)
  PROVE  TypeOK'
<1> USE DEF Steps, ItemSteps, OwnerSteps, RestoreSteps, AppendSteps, ReconcileAppends,
   QuarantineAppends, RestoreAppends
<1>1. CASE AnswerFromJournal(p)
  <2>1. SharedTypeOK' /\ raced' \in [Procs -> BOOLEAN]
    BY <1>1 DEF AnswerFromJournal, disk, TypeOK, SharedTypeOK, LocalTypeOK
  <2>2. LocalTypeOK' /\ ItemTypeOK'
    BY <1>1, <2>1, FinishType DEF AnswerFromJournal, TypeOK, ItemTypeOK
  <2>3. QED
    BY <2>1, <2>2 DEF TypeOK
<1>2. CASE CheckRestore(p)
  <2>1. SharedTypeOK'
    BY <1>2 DEF CheckRestore, disk, TypeOK, SharedTypeOK
  <2>2. LocalTypeOK'
    <3>1. view' \in [Procs -> [Recoveries -> Lifecycle]]
      BY <1>2, NoEntriesType DEF CheckRestore, TypeOK, LocalTypeOK
    <3>2. PICK r \in todo[p], step \in {"appendRestoring", "restoreFailed"} :
            cur' = [cur EXCEPT ![p] = r] /\ pc' = [pc EXCEPT ![p] = step]
      BY <1>2 DEF CheckRestore, Goto
    <3>3. r \in Recoveries
      BY DEF TypeOK, LocalTypeOK
    <3>4. QED
      BY <1>2, <3>1, <3>2, <3>3 DEF CheckRestore, TypeOK, LocalTypeOK
  <2>3. ItemTypeOK'
    BY <1>2 DEF CheckRestore, Goto, KeepMemory, TypeOK, LocalTypeOK, ItemTypeOK
  <2>4. QED
    BY <2>1, <2>2, <2>3 DEF TypeOK
<1>3. CASE AppendRestoring(p)
  <2>1. cur[p] \in Recoveries /\ "RESTORING" \in Status
    BY <1>3 DEF AppendRestoring, Status, TypeOK, ItemTypeOK
  <2>2. Append(p, cur[p], "RESTORING") \/ AppendFails(p, cur[p], "RESTORING")
    BY <1>3 DEF AppendRestoring
  <2>3. SharedTypeOK' /\ raced' \in [Procs -> BOOLEAN]
    BY <1>3, <2>1, <2>2, AppendType DEF AppendRestoring, TypeOK, SharedTypeOK
  <2>4. LocalTypeOK' /\ ItemTypeOK'
    BY <1>3, <2>1, <2>3, StepType DEF AppendRestoring
  <2>5. QED
    BY <2>3, <2>4 DEF TypeOK
<1>4. CASE RenameBack(p)
  <2>1. cur[p] \in Recoveries /\ home[cur[p]] \in Paths \cup Recoveries
    BY <1>4, ConstantsAssumption DEF RenameBack, TypeOK, ItemTypeOK, ConstantsAssumption
  <2>2. at' = at \/ Move(cur[p], home[cur[p]])
    BY <1>4 DEF RenameBack
  <2>3. SharedTypeOK' /\ raced' \in [Procs -> BOOLEAN]
    BY <1>4, <2>1, <2>2, MoveType DEF RenameBack, TypeOK, SharedTypeOK, LocalTypeOK
  <2>4. LocalTypeOK' /\ ItemTypeOK'
    BY <1>4, <2>1, <2>3, StepType DEF RenameBack
  <2>5. QED
    BY <2>3, <2>4 DEF TypeOK
<1>5. CASE AppendRestored(p)
  <2>1. cur[p] \in Recoveries /\ "RESTORED" \in Status
    BY <1>5 DEF AppendRestored, Status, TypeOK, ItemTypeOK
  <2>2. Append(p, cur[p], "RESTORED") \/ AppendFails(p, cur[p], "RESTORED")
    BY <1>5 DEF AppendRestored
  <2>3. SharedTypeOK' /\ raced' \in [Procs -> BOOLEAN]
    BY <1>5, <2>1, <2>2, AppendType DEF AppendRestored, TypeOK, SharedTypeOK
  <2>4. LocalTypeOK' /\ ItemTypeOK'
    BY <1>5, <2>1, <2>3, StepType, FinishType DEF AppendRestored
  <2>5. QED
    BY <2>3, <2>4 DEF TypeOK
<1>6. CASE HandleRestoreFailure(p)
  <2>1. SharedTypeOK' /\ raced' \in [Procs -> BOOLEAN]
    BY <1>6 DEF HandleRestoreFailure, disk, TypeOK, SharedTypeOK, LocalTypeOK
  <2>2. LocalTypeOK' /\ ItemTypeOK'
    BY <1>6, <2>1, StepType DEF HandleRestoreFailure, TypeOK, ItemTypeOK
  <2>3. QED
    BY <2>1, <2>2 DEF TypeOK
<1>7. CASE AppendRestoreCommitted(p)
  <2>1. cur[p] \in Recoveries /\ "RESTORE_COMMITTED_UNJOURNALED" \in Status
    BY <1>7 DEF AppendRestoreCommitted, Status, TypeOK, ItemTypeOK
  <2>2. Append(p, cur[p], "RESTORE_COMMITTED_UNJOURNALED") \/ AppendFails(p, cur[p], "RESTORE_COMMITTED_UNJOURNALED")
    BY <1>7 DEF AppendRestoreCommitted
  <2>3. SharedTypeOK' /\ raced' \in [Procs -> BOOLEAN]
    BY <1>7, <2>1, <2>2, AppendType DEF AppendRestoreCommitted, TypeOK, SharedTypeOK
  <2>4. LocalTypeOK' /\ ItemTypeOK'
    BY <1>7, <2>1, <2>3, FinishType DEF AppendRestoreCommitted
  <2>5. QED
    BY <2>3, <2>4 DEF TypeOK
<1>8. CASE AppendRestoreFailed(p)
  <2>1. cur[p] \in Recoveries /\ "FAILED" \in Status
    BY <1>8 DEF AppendRestoreFailed, Status, TypeOK, ItemTypeOK
  <2>2. Append(p, cur[p], "FAILED") \/ AppendFails(p, cur[p], "FAILED")
    BY <1>8 DEF AppendRestoreFailed
  <2>3. SharedTypeOK' /\ raced' \in [Procs -> BOOLEAN]
    BY <1>8, <2>1, <2>2, AppendType DEF AppendRestoreFailed, TypeOK, SharedTypeOK
  <2>4. LocalTypeOK' /\ ItemTypeOK'
    BY <1>8, <2>1, <2>3, FinishType DEF AppendRestoreFailed
  <2>5. QED
    BY <2>3, <2>4 DEF TypeOK
<1>9. QED
  BY <1>1, <1>2, <1>3, <1>4, <1>5, <1>6, <1>7, <1>8 DEF Restore

LEMMA StartsType ==
  ASSUME TypeOK, NEW p \in Procs, Starts(p)
  PROVE  TypeOK'
<1>1. PICK operation \in {"execute", "undo", "status"}, items \in SUBSET Recoveries :
        Start(p, operation, items)
  BY ConstantsAssumption
     DEF Starts, StartExecute, StartUndo, StartStatus, ConstantsAssumption
<1>2. SharedTypeOK'
  BY <1>1 DEF Start, disk, TypeOK, SharedTypeOK
<1>3. LocalTypeOK'
  BY <1>1 DEF Start, Goto, Steps, TypeOK, LocalTypeOK
<1>4. ItemTypeOK'
  BY <1>1 DEF Start, Goto, ItemSteps, OwnerSteps, RestoreSteps, QuarantineAppends,
     RestoreAppends,
              TypeOK, LocalTypeOK, ItemTypeOK
<1>5. QED
  BY <1>2, <1>3, <1>4 DEF TypeOK

LEMMA CrashType ==
  ASSUME TypeOK, NEW p \in Procs, Crash(p)
  PROVE  TypeOK'
<1>1. raced' \in [Procs -> BOOLEAN]
  BY DEF Crash, Calm, TypeOK, LocalTypeOK
<1>2. crashes' \in 0..MaxCrashes
  BY ConstantsAssumption DEF Crash, TypeOK, SharedTypeOK, ConstantsAssumption
<1>3. SharedTypeOK'
  BY <1>2 DEF Crash, TypeOK, SharedTypeOK
<1>4. QED
  BY <1>1, <1>3, FinishType DEF Crash, TypeOK

LEMMA ToolType ==
  ASSUME TypeOK,
         \/ \E o \in Spares, path \in Paths : ToolCreates(o, path)
         \/ \E o \in Objects : ToolRemoves(o)
  PROVE  TypeOK'
<1>1. at' \in [Objects -> Paths \cup Recoveries \cup {Nowhere}]
  BY DEF ToolCreates, ToolRemoves, TypeOK, SharedTypeOK
<1>2. UNCHANGED <<journal, torn, claim, crashes, missed, local>>
  BY DEF ToolCreates, ToolRemoves
<1>3. QED
  BY <1>1, <1>2 DEF local, TypeOK, SharedTypeOK, LocalTypeOK, ItemTypeOK

LEMMA NextType == TypeOK /\ [Next]_vars => TypeOK'
<1> SUFFICES ASSUME TypeOK, [Next]_vars PROVE TypeOK'
  OBVIOUS
<1>1. CASE UNCHANGED vars
  BY <1>1 DEF vars, TypeOK, SharedTypeOK, LocalTypeOK, ItemTypeOK
<1>2. ASSUME NEW p \in Procs, Works(p) PROVE TypeOK'
  BY <1>2, ReconcileType, ExecuteType, RestoreType DEF Works
<1>3. ASSUME NEW p \in Procs, Starts(p) PROVE TypeOK'
  BY <1>3, StartsType
<1>4. CASE Environment
  BY <1>4, CrashType, ToolType DEF Environment
<1>5. QED
  BY <1>1, <1>2, <1>3, <1>4 DEF Next

\* Every state of the engine has its type, whatever crashes and faults do.
THEOREM TypeCorrect == Spec => []TypeOK
  BY InitType, NextType, PTL DEF Spec

-----------------------------------------------------------------------------
(* What a step of a process can do to the disk. *)

Quiet == UNCHANGED <<journal, claim, at>>

Justified(p, s) ==
  /\ pc[p] \in ItemSteps \ {"claim"}
  /\ s \in QuarantinedStates \cup RestoredStates \cup {"RESTORING"} => Entered(cur[p])
  /\ s = "RESTORING" => pc[p] = "appendRestoring"
  /\ s \in RestoredStates => \/ pc[p] \in {"appendRestored", "appendRestoreCommitted"}
                             \/ pc[p] = "record" /\ verdict[p] = s

Records(p, s) ==
  /\ Justified(p, s)
  /\ journal' = [journal EXCEPT ![cur[p]] = With(@, s)]
  /\ UNCHANGED <<claim, at>>

Claims(p) ==
  /\ pc[p] = "claim" /\ claim[cur[p]] = "absent"
  /\ claim' = [claim EXCEPT ![cur[p]] = "empty"]
  /\ UNCHANGED <<journal, at>>

Fills(p) ==
  /\ pc[p] = "fill"
  /\ claim' = [claim EXCEPT ![cur[p]] = "written"]
  /\ UNCHANGED <<journal, at>>

Enters(p) ==
  /\ pc[p] = "rename"
  /\ CanMove(home[cur[p]], cur[p]) /\ Move(home[cur[p]], cur[p])
  /\ UNCHANGED <<journal, claim>>

Leaves(p) ==
  /\ pc[p] = "renameBack"
  /\ CanMove(cur[p], home[cur[p]]) /\ Move(cur[p], home[cur[p]])
  /\ UNCHANGED <<journal, claim>>

Touches(p) ==
  \/ Quiet \/ Claims(p) \/ Fills(p) \/ Enters(p) \/ Leaves(p)
  \/ \E s \in Status : Records(p, s)

Tool ==
  \/ \E o \in Spares, path \in Paths : ToolCreates(o, path)
  \/ \E o \in Objects : ToolRemoves(o)

LEMMA AppendRecords ==
  ASSUME NEW p \in Procs, NEW s \in Status, Justified(p, s), UNCHANGED <<claim, at>>,
         Append(p, cur[p], s) \/ AppendFails(p, cur[p], s)
  PROVE  Quiet \/ Records(p, s)
  BY DEF Append, AppendFails, Quiet, Records

LEMMA ReconcileTouches ==
  ASSUME TypeOK, Consistent, NEW p \in Procs, Reconcile(p)
  PROVE  Touches(p)
<1> USE DEF Steps, ItemSteps, OwnerSteps, BeforeMove, RestoreSteps, AppendSteps,
   ReconcileAppends, QuarantineAppends, RestoreAppends
<1>1. CASE Inventory(p)
  BY <1>1 DEF Inventory, disk, Quiet, Touches
<1>2. CASE Scan(p)
  BY <1>2 DEF Scan, disk, Quiet, Touches
<1>3. CASE Reread(p)
  BY <1>3 DEF Reread, disk, Quiet, Touches
<1>4. CASE ReadClaims(p)
  BY <1>4 DEF ReadClaims, disk, Quiet, Touches
<1>5. CASE NextOrphan(p)
  BY <1>5 DEF NextOrphan, disk, Quiet, Touches
<1>6. CASE RecordOrphanClaimed(p)
  <2>1. Justified(p, "AUTHORIZATION_CLAIMED") /\ "AUTHORIZATION_CLAIMED" \in Status
    BY <1>6 DEF RecordOrphanClaimed, Justified, QuarantinedStates, RestoredStates, Status,
       Consistent, ProcessInOrder
  <2>2. QED
    BY <1>6, <2>1, AppendRecords DEF RecordOrphanClaimed, Touches
<1>7. CASE RecordOrphanFailed(p)
  <2>1. Justified(p, "FAILED") /\ "FAILED" \in Status
    BY <1>7 DEF RecordOrphanFailed, Justified, QuarantinedStates, RestoredStates, Status,
       Consistent, ProcessInOrder
  <2>2. QED
    BY <1>7, <2>1, AppendRecords DEF RecordOrphanFailed, Touches
<1>8. CASE OrphansDone(p)
  BY <1>8 DEF OrphansDone, disk, Quiet, Touches
<1>9. CASE NextPending(p)
  BY <1>9 DEF NextPending, disk, Quiet, Touches
<1>10. CASE ObserveSlot(p)
  BY <1>10 DEF ObserveSlot, Quiet, Touches
<1>11. CASE RecordVerdict(p)
  <2>1. Justified(p, verdict[p]) /\ verdict[p] \in Status
    BY <1>11 DEF RecordVerdict, Justified, QuarantinedStates, RestoredStates, Status,
       Consistent, ProcessInOrder, VerdictHolds
  <2>2. QED
    BY <1>11, <2>1, AppendRecords DEF RecordVerdict, Touches
<1>12. CASE PendingDone(p)
  BY <1>12 DEF PendingDone, disk, Quiet, Touches
<1>13. CASE ReconciliationEnds(p)
  BY <1>13 DEF ReconciliationEnds, disk, Quiet, Touches
<1>14. QED
  BY <1>1, <1>2, <1>3, <1>4, <1>5, <1>6, <1>7, <1>8, <1>9, <1>10, <1>11, <1>12, <1>13
     DEF Reconcile

LEMMA ExecuteTouches ==
  ASSUME TypeOK, Consistent, NEW p \in Procs, Execute(p)
  PROVE  Touches(p)
<1> USE DEF Steps, ItemSteps, OwnerSteps, BeforeMove, RestoreSteps, AppendSteps,
   ReconcileAppends, QuarantineAppends, RestoreAppends
<1>1. CASE EnterSession(p)
  BY <1>1 DEF EnterSession, disk, Quiet, Touches
<1>2. CASE Revalidate(p)
  BY <1>2 DEF Revalidate, disk, Quiet, Touches
<1>3. CASE NextItem(p)
  BY <1>3 DEF NextItem, disk, Quiet, Touches
<1>4. CASE ItemsDone(p)
  BY <1>4 DEF ItemsDone, disk, Quiet, Touches
<1>5. CASE CreateClaim(p)
  BY <1>5 DEF CreateClaim, Quiet, Claims, Touches
<1>6. CASE FillClaim(p)
  BY <1>6 DEF FillClaim, Quiet, Fills, Touches
<1>7. CASE AppendClaimed(p)
  <2>1. Justified(p, "AUTHORIZATION_CLAIMED") /\ "AUTHORIZATION_CLAIMED" \in Status
    BY <1>7 DEF AppendClaimed, Justified, QuarantinedStates, RestoredStates, Status, Consistent,
       ProcessInOrder
  <2>2. QED
    BY <1>7, <2>1, AppendRecords DEF AppendClaimed, Touches
<1>8. CASE AppendPlanned(p)
  <2>1. Justified(p, "PLANNED") /\ "PLANNED" \in Status
    BY <1>8 DEF AppendPlanned, Justified, QuarantinedStates, RestoredStates, Status, Consistent,
       ProcessInOrder
  <2>2. QED
    BY <1>8, <2>1, AppendRecords DEF AppendPlanned, Touches
<1>9. CASE AppendQuarantining(p)
  <2>1. Justified(p, "QUARANTINING") /\ "QUARANTINING" \in Status
    BY <1>9 DEF AppendQuarantining, Justified, QuarantinedStates, RestoredStates, Status,
       Consistent, ProcessInOrder
  <2>2. QED
    BY <1>9, <2>1, AppendRecords DEF AppendQuarantining, Touches
<1>10. CASE Recheck(p)
  BY <1>10 DEF Recheck, disk, Quiet, Touches
<1>11. CASE Rename(p)
  BY <1>11 DEF Rename, Quiet, Enters, Touches
<1>12. CASE AppendQuarantined(p)
  <2>1. Justified(p, "QUARANTINED") /\ "QUARANTINED" \in Status
    BY <1>12 DEF AppendQuarantined, Justified, QuarantinedStates, RestoredStates, Status,
       Consistent, ProcessInOrder, OwnerInOrder
  <2>2. QED
    BY <1>12, <2>1, AppendRecords DEF AppendQuarantined, Touches
<1>13. CASE HandleFailure(p)
  BY <1>13 DEF HandleFailure, Quiet, Touches
<1>14. CASE AppendCommitted(p)
  <2>1. Justified(p, "QUARANTINE_COMMITTED_UNJOURNALED") /\ "QUARANTINE_COMMITTED_UNJOURNALED" \in Status
    BY <1>14 DEF AppendCommitted, Justified, QuarantinedStates, RestoredStates, Status,
       Consistent, ProcessInOrder, OwnerInOrder
  <2>2. QED
    BY <1>14, <2>1, AppendRecords DEF AppendCommitted, Touches
<1>15. CASE AppendFailed(p)
  <2>1. Justified(p, "FAILED") /\ "FAILED" \in Status
    BY <1>15 DEF AppendFailed, Justified, QuarantinedStates, RestoredStates, Status, Consistent,
       ProcessInOrder
  <2>2. QED
    BY <1>15, <2>1, AppendRecords DEF AppendFailed, Touches
<1>16. QED
  BY <1>1, <1>2, <1>3, <1>4, <1>5, <1>6, <1>7, <1>8, <1>9, <1>10, <1>11, <1>12, <1>13, <1>14,
     <1>15 DEF Execute

LEMMA RestoreTouches ==
  ASSUME TypeOK, Consistent, NEW p \in Procs, Restore(p)
  PROVE  Touches(p)
<1> USE DEF Steps, ItemSteps, OwnerSteps, BeforeMove, RestoreSteps, AppendSteps,
   ReconcileAppends, QuarantineAppends, RestoreAppends
<1>1. CASE AnswerFromJournal(p)
  BY <1>1 DEF AnswerFromJournal, disk, Quiet, Touches
<1>2. CASE CheckRestore(p)
  BY <1>2 DEF CheckRestore, disk, Quiet, Touches
<1>3. CASE AppendRestoring(p)
  <2>1. Justified(p, "RESTORING") /\ "RESTORING" \in Status
    BY <1>3 DEF AppendRestoring, Justified, QuarantinedStates, RestoredStates, Status,
       Consistent, ProcessInOrder, RestoreInOrder
  <2>2. QED
    BY <1>3, <2>1, AppendRecords DEF AppendRestoring, Touches
<1>4. CASE RenameBack(p)
  BY <1>4 DEF RenameBack, Quiet, Leaves, Touches
<1>5. CASE AppendRestored(p)
  <2>1. Justified(p, "RESTORED") /\ "RESTORED" \in Status
    BY <1>5 DEF AppendRestored, Justified, QuarantinedStates, RestoredStates, Status,
       Consistent, ProcessInOrder, RestoreInOrder
  <2>2. QED
    BY <1>5, <2>1, AppendRecords DEF AppendRestored, Touches
<1>6. CASE HandleRestoreFailure(p)
  BY <1>6 DEF HandleRestoreFailure, disk, Quiet, Touches
<1>7. CASE AppendRestoreCommitted(p)
  <2>1. Justified(p, "RESTORE_COMMITTED_UNJOURNALED") /\ "RESTORE_COMMITTED_UNJOURNALED" \in Status
    BY <1>7 DEF AppendRestoreCommitted, Justified, QuarantinedStates, RestoredStates, Status,
       Consistent, ProcessInOrder, RestoreInOrder
  <2>2. QED
    BY <1>7, <2>1, AppendRecords DEF AppendRestoreCommitted, Touches
<1>8. CASE AppendRestoreFailed(p)
  <2>1. Justified(p, "FAILED") /\ "FAILED" \in Status
    BY <1>8 DEF AppendRestoreFailed, Justified, QuarantinedStates, RestoredStates, Status,
       Consistent, ProcessInOrder
  <2>2. QED
    BY <1>8, <2>1, AppendRecords DEF AppendRestoreFailed, Touches
<1>9. QED
  BY <1>1, <1>2, <1>3, <1>4, <1>5, <1>6, <1>7, <1>8 DEF Restore

LEMMA NextTouches ==
  ASSUME TypeOK, Consistent, [Next]_vars
  PROVE  Quiet \/ Tool \/ \E p \in Procs : Touches(p)
<1>1. CASE UNCHANGED vars
  BY <1>1 DEF vars, Quiet
<1>2. ASSUME NEW p \in Procs, Works(p) PROVE Touches(p)
  BY <1>2, ReconcileTouches, ExecuteTouches, RestoreTouches DEF Works
<1>3. ASSUME NEW p \in Procs, Starts(p) PROVE Quiet
  BY <1>3 DEF Starts, StartExecute, StartUndo, StartStatus, Start, disk, Quiet
<1>4. CASE Environment
  BY <1>4 DEF Environment, Crash, Quiet, Tool
<1>5. QED
  BY <1>1, <1>2, <1>3, <1>4 DEF Next

-----------------------------------------------------------------------------
(* What a step keeps. *)

\* What is recorded, claimed or moved stays so.
Grows(r) ==
  /\ journal[r].seen \subseteq (journal[r].seen)'
  /\ claim[r] # "absent" => claim'[r] # "absent"
  /\ claim[r] = "written" => claim'[r] = "written"
  /\ Entered(r) => Entered(r)'

\* A directory that is moved from a place to another leaves the one empty and
\* occupies the other; nothing else changes.
LEMMA MoveOccupies ==
  ASSUME TypeOK, OneDirectoryPerPlace, NEW from \in Paths \cup Recoveries,
         NEW to \in Paths \cup Recoveries, from # to, CanMove(from, to), Move(from, to)
  PROVE  /\ ~Occupied(from)' /\ Occupied(to)'
         /\ \A place \in (Paths \cup Recoveries) \ {from, to} :
              Occupied(place)' <=> Occupied(place)
         /\ OneDirectoryPerPlace'
<1>1. \A o \in Objects : at'[o] = IF at[o] = from THEN to ELSE at[o]
  BY DEF Move
<1>2. from # Nowhere
  BY ConstantsAssumption DEF ConstantsAssumption
<1>3. ~Occupied(from)' /\ Occupied(to)'
  BY <1>1 DEF CanMove, Occupied
<1>4. \A place \in (Paths \cup Recoveries) \ {from, to} : Occupied(place)' <=> Occupied(place)
  BY <1>1 DEF Occupied
<1>5. OneDirectoryPerPlace'
  BY <1>1, <1>2 DEF CanMove, Occupied, OneDirectoryPerPlace
<1>6. QED
  BY <1>3, <1>4, <1>5

LEMMA Separate ==
  /\ \A r \in Recoveries : home[r] \in Paths /\ home[r] # r
  /\ \A r, s \in Recoveries : home[r] # s
  BY ConstantsAssumption DEF ConstantsAssumption

\* The tool works at original paths only.
LEMMA ToolKeepsSlots ==
  ASSUME TypeOK, Tool, OneDirectoryPerPlace
  PROVE  /\ UNCHANGED <<journal, claim, local>>
         /\ \A r \in Recoveries : Occupied(r)' <=> Occupied(r)
         /\ OneDirectoryPerPlace'
<1>1. UNCHANGED <<journal, claim, local>>
  BY DEF Tool, ToolCreates, ToolRemoves
<1>2. CASE \E o \in Spares, path \in Paths : ToolCreates(o, path)
  <2>1. PICK o \in Objects, path \in Paths : ToolCreates(o, path)
    BY <1>2, ConstantsAssumption DEF ConstantsAssumption
  <2>2. \A n \in Objects : at'[n] = IF n = o THEN path ELSE at[n]
    BY <2>1 DEF ToolCreates, TypeOK, SharedTypeOK
  <2>3. \A r \in Recoveries : Occupied(r)' <=> Occupied(r)
    BY <2>1, <2>2, ConstantsAssumption DEF ToolCreates, Occupied, ConstantsAssumption
  <2>4. OneDirectoryPerPlace'
    BY <2>1, <2>2 DEF ToolCreates, Occupied, OneDirectoryPerPlace
  <2>5. QED
    BY <1>1, <2>3, <2>4
<1>3. CASE \E o \in Objects : ToolRemoves(o)
  <2>1. PICK o \in Objects : ToolRemoves(o)
    BY <1>3
  <2>2. \A n \in Objects : at'[n] = IF n = o THEN Nowhere ELSE at[n]
    BY <2>1 DEF ToolRemoves, TypeOK, SharedTypeOK
  <2>3. \A r \in Recoveries : Occupied(r)' <=> Occupied(r)
    BY <2>1, <2>2, ConstantsAssumption DEF ToolRemoves, Occupied, ConstantsAssumption
  <2>4. OneDirectoryPerPlace'
    BY <2>1, <2>2 DEF OneDirectoryPerPlace
  <2>5. QED
    BY <1>1, <2>3, <2>4
<1>4. QED
  BY <1>2, <1>3 DEF Tool

LEMMA EntersOccupies ==
  ASSUME TypeOK, Consistent, NEW p \in Procs, Enters(p)
  PROVE  /\ cur[p] \in Recoveries /\ ~Entered(cur[p])
         /\ "QUARANTINING" \in journal[cur[p]].seen /\ claim[cur[p]] = "written"
         /\ \A r \in Recoveries : Occupied(r)' <=> (r = cur[p] \/ Occupied(r))
         /\ OneDirectoryPerPlace'
<1>1. /\ cur[p] \in Recoveries /\ ~Entered(cur[p])
      /\ "QUARANTINING" \in journal[cur[p]].seen /\ claim[cur[p]] = "written"
  BY DEF Enters, TypeOK, ItemTypeOK, ItemSteps, OwnerSteps, BeforeMove, QuarantineAppends,
         Consistent, ProcessInOrder, OwnerInOrder, ItemClaimed
<1>2. PICK r \in Recoveries : r = cur[p]
  BY <1>1
<1>3. CanMove(home[r], r) /\ Move(home[r], r)
  BY <1>2 DEF Enters
<1>4. /\ home[r] \in Paths /\ home[r] # r
      /\ \A s \in Recoveries : s # home[r]
  BY Separate
<1>5. Occupied(r)' /\ OneDirectoryPerPlace'
  BY <1>3, <1>4, MoveOccupies DEF Consistent
<1>6. \A s \in Recoveries \ {r} : Occupied(s)' <=> Occupied(s)
  BY <1>3, <1>4, MoveOccupies DEF Consistent
<1>7. QED
  BY <1>1, <1>2, <1>5, <1>6

LEMMA LeavesEmpties ==
  ASSUME TypeOK, Consistent, NEW p \in Procs, Leaves(p)
  PROVE  /\ cur[p] \in Recoveries /\ Occupied(cur[p])
         /\ "RESTORING" \in journal[cur[p]].seen
         /\ \A r \in Recoveries : Occupied(r)' <=> (r # cur[p] /\ Occupied(r))
         /\ OneDirectoryPerPlace'
<1>1. cur[p] \in Recoveries /\ "RESTORING" \in journal[cur[p]].seen
  BY DEF Leaves, TypeOK, ItemTypeOK, ItemSteps, RestoreSteps, Consistent, ProcessInOrder,
         RestoreInOrder
<1>2. PICK r \in Recoveries : r = cur[p]
  BY <1>1
<1>3. CanMove(r, home[r]) /\ Move(r, home[r])
  BY <1>2 DEF Leaves
<1>4. /\ home[r] \in Paths /\ home[r] # r
      /\ \A s \in Recoveries : s # home[r]
  BY Separate
<1>5. Occupied(r) /\ ~Occupied(r)' /\ OneDirectoryPerPlace'
  BY <1>3, <1>4, MoveOccupies DEF CanMove, Consistent
<1>6. \A s \in Recoveries \ {r} : Occupied(s)' <=> Occupied(s)
  BY <1>3, <1>4, MoveOccupies DEF Consistent
<1>7. QED
  BY <1>1, <1>2, <1>5, <1>6

LEMMA RecordsAdds ==
  ASSUME TypeOK, Consistent, NEW p \in Procs, NEW s \in Status, Records(p, s)
  PROVE  /\ cur[p] \in Recoveries /\ claim[cur[p]] # "absent"
         /\ journal'[cur[p]].seen = journal[cur[p]].seen \cup {s}
         /\ journal'[cur[p]].last = s
         /\ \A r \in Recoveries \ {cur[p]} : journal'[r] = journal[r]
<1>1. cur[p] \in Recoveries /\ claim[cur[p]] # "absent"
  BY DEF Records, Justified, TypeOK, ItemTypeOK, Consistent, ProcessInOrder, ItemClaimed
<1>2. QED
  BY <1>1 DEF Records, With, TypeOK, SharedTypeOK

\* A step of a process moves an item in only if it is the owner's rename.
LEMMA TouchGrows ==
  ASSUME TypeOK, Consistent, NEW p \in Procs, Touches(p), NEW r \in Recoveries
  PROVE  /\ Grows(r)
         /\ ~Entered(r) /\ Entered(r)' => Enters(p) /\ cur[p] = r
<1> DEFINE Goal == /\ Grows(r)
                   /\ ~Entered(r) /\ Entered(r)' => Enters(p) /\ cur[p] = r
<1> USE DEF Grows, Entered
<1>1. CASE Quiet
  BY <1>1 DEF Quiet, Occupied
<1>2. CASE Claims(p)
  BY <1>2 DEF Claims, Occupied, TypeOK, SharedTypeOK
<1>3. CASE Fills(p)
  BY <1>3 DEF Fills, Occupied, TypeOK, SharedTypeOK
<1>4. CASE Enters(p)
  BY <1>4, EntersOccupies DEF Enters
<1>5. CASE Leaves(p)
  BY <1>5, LeavesEmpties DEF Leaves
<1>6. ASSUME NEW s \in Status, Records(p, s) PROVE Goal
  <2>1. UNCHANGED claim /\ (Occupied(r)' <=> Occupied(r))
    BY <1>6 DEF Records, Occupied
  <2>2. CASE r # cur[p]
    BY <1>6, <2>1, <2>2, RecordsAdds
  <2>3. CASE r = cur[p]
    <3>1. journal'[r].seen = journal[r].seen \cup {s}
      BY <1>6, <2>3, RecordsAdds
    <3>2. s = "RESTORING" => Entered(r)
      BY <1>6, <2>3 DEF Records, Justified
    <3>3. QED
      BY <2>1, <3>1, <3>2
  <2>4. QED
    BY <2>2, <2>3
<1>7. QED
  BY <1>1, <1>2, <1>3, <1>4, <1>5, <1>6 DEF Touches

LEMMA StepGrows ==
  ASSUME TypeOK, Consistent, [Next]_vars, NEW r \in Recoveries
  PROVE  Grows(r)
<1>1. CASE Quiet
  BY <1>1 DEF Quiet, Occupied, Grows, Entered
<1>2. CASE Tool
  BY <1>2, ToolKeepsSlots DEF Consistent, Grows, Entered
<1>3. QED
  BY <1>1, <1>2, NextTouches, TouchGrows

LEMMA StepDisk ==
  ASSUME TypeOK, Consistent, [Next]_vars
  PROVE  DiskConsistent' /\ OneDirectoryPerPlace'
<1> USE DEF DiskConsistent, WasQuarantined, WasRestored, Entered
<1>1. CASE Quiet
  BY <1>1 DEF Quiet, Occupied, OneDirectoryPerPlace, Consistent
<1>2. CASE Tool
  BY <1>2, ToolKeepsSlots DEF Consistent
<1>3. ASSUME NEW p \in Procs, Touches(p) PROVE DiskConsistent' /\ OneDirectoryPerPlace'
  <2>1. CASE Claims(p)
    BY <2>1 DEF Claims, Occupied, OneDirectoryPerPlace, Consistent, TypeOK, SharedTypeOK
  <2>2. CASE Fills(p)
    BY <2>2 DEF Fills, Occupied, OneDirectoryPerPlace, Consistent, TypeOK, SharedTypeOK
  <2>3. CASE Enters(p)
    BY <2>3, EntersOccupies DEF Enters, Consistent
  <2>4. CASE Leaves(p)
    BY <2>4, LeavesEmpties DEF Leaves, Consistent
  <2>5. ASSUME NEW s \in Status, Records(p, s) PROVE DiskConsistent' /\ OneDirectoryPerPlace'
    <3>1. UNCHANGED <<claim, at>>
      BY <2>5 DEF Records
    <3>2. OneDirectoryPerPlace' /\ \A r \in Recoveries : Occupied(r)' <=> Occupied(r)
      BY <3>1 DEF OneDirectoryPerPlace, Occupied, Consistent
    <3>3. ASSUME NEW r \in Recoveries, r # cur[p]
          PROVE  /\ claim'[r] = "absent" => journal'[r].seen = {} /\ ~Occupied(r)'
                 /\ journal'[r].last \in journal'[r].seen \cup {"NONE"}
                 /\ (WasQuarantined(journal[r]) \/ WasRestored(journal[r]))' => Entered(r)'
      BY <2>5, <3>1, <3>2, <3>3, RecordsAdds DEF Consistent
    <3>4. ASSUME NEW r \in Recoveries, r = cur[p]
          PROVE  /\ claim'[r] = "absent" => journal'[r].seen = {} /\ ~Occupied(r)'
                 /\ journal'[r].last \in journal'[r].seen \cup {"NONE"}
                 /\ (WasQuarantined(journal[r]) \/ WasRestored(journal[r]))' => Entered(r)'
      <4>1. /\ claim'[r] # "absent"
            /\ journal'[r].seen = journal[r].seen \cup {s} /\ journal'[r].last = s
        BY <2>5, <3>1, <3>4, RecordsAdds
      <4>2. s \in QuarantinedStates \cup RestoredStates \cup {"RESTORING"} => Entered(r)
        BY <2>5, <3>4 DEF Records, Justified
      <4>3. QED
        BY <3>2, <4>1, <4>2 DEF Consistent
    <3>5. QED
      BY <3>2, <3>3, <3>4
  <2>6. QED
    BY <1>1, <1>3, <2>1, <2>2, <2>3, <2>4, <2>5 DEF Touches
<1>4. QED
  BY <1>1, <1>2, <1>3, NextTouches

-----------------------------------------------------------------------------
(* The processes that do not take the step. *)

Same(q) ==
  /\ pc'[q] = pc[q] /\ cur'[q] = cur[q] /\ view'[q] = view[q]
  /\ work'[q] = work[q] /\ verdict'[q] = verdict[q] /\ observed'[q] = observed[q]

LEMMA LocalSteps ==
  ASSUME TypeOK, NEW p \in Procs, NEW q \in Procs \ {p}
  PROVE  /\ Finish(p) => Same(q)
         /\ ItemEnds(p) => Same(q)
         /\ \A step \in Steps : Step(p, step) => Same(q)
  BY DEF Finish, ItemEnds, Step, Goto, KeepMemory, Same, TypeOK, LocalTypeOK

LEMMA ReconcileAlone ==
  ASSUME TypeOK, NEW p \in Procs, NEW q \in Procs \ {p}, Reconcile(p)
  PROVE  Same(q)
<1> USE DEF Steps, ItemSteps, OwnerSteps, BeforeMove, RestoreSteps, AppendSteps,
   ReconcileAppends, QuarantineAppends, RestoreAppends
<1>1. CASE Inventory(p)
  BY <1>1, LocalSteps DEF Inventory, Goto, Noted, KeepMemory, Same, TypeOK, LocalTypeOK
<1>2. CASE Scan(p)
  BY <1>2, LocalSteps DEF Scan, Goto, Noted, KeepMemory, Same, TypeOK, LocalTypeOK
<1>3. CASE Reread(p)
  BY <1>3, LocalSteps DEF Reread, Goto, Noted, KeepMemory, Same, TypeOK, LocalTypeOK
<1>4. CASE ReadClaims(p)
  BY <1>4, LocalSteps DEF ReadClaims, Goto, Noted, KeepMemory, Same, TypeOK, LocalTypeOK
<1>5. CASE NextOrphan(p)
  BY <1>5, LocalSteps DEF NextOrphan, Goto, Noted, KeepMemory, Same, TypeOK, LocalTypeOK
<1>6. CASE RecordOrphanClaimed(p)
  BY <1>6, LocalSteps DEF RecordOrphanClaimed, Goto, Noted, KeepMemory, Same, TypeOK,
     LocalTypeOK
<1>7. CASE RecordOrphanFailed(p)
  BY <1>7, LocalSteps DEF RecordOrphanFailed, Goto, Noted, KeepMemory, Same, TypeOK, LocalTypeOK
<1>8. CASE OrphansDone(p)
  BY <1>8, LocalSteps DEF OrphansDone, Goto, Noted, KeepMemory, Same, TypeOK, LocalTypeOK
<1>9. CASE NextPending(p)
  BY <1>9, LocalSteps DEF NextPending, Goto, Noted, KeepMemory, Same, TypeOK, LocalTypeOK
<1>10. CASE ObserveSlot(p)
  BY <1>10, LocalSteps DEF ObserveSlot, Goto, Noted, KeepMemory, Same, TypeOK, LocalTypeOK
<1>11. CASE RecordVerdict(p)
  BY <1>11, LocalSteps DEF RecordVerdict, Goto, Noted, KeepMemory, Same, TypeOK, LocalTypeOK
<1>12. CASE PendingDone(p)
  BY <1>12, LocalSteps DEF PendingDone, Goto, Noted, KeepMemory, Same, TypeOK, LocalTypeOK
<1>13. CASE ReconciliationEnds(p)
  BY <1>13, LocalSteps DEF ReconciliationEnds, Goto, Noted, KeepMemory, Same, TypeOK,
     LocalTypeOK
<1>14. QED
  BY <1>1, <1>2, <1>3, <1>4, <1>5, <1>6, <1>7, <1>8, <1>9, <1>10, <1>11, <1>12, <1>13
     DEF Reconcile

LEMMA ExecuteAlone ==
  ASSUME TypeOK, NEW p \in Procs, NEW q \in Procs \ {p}, Execute(p)
  PROVE  Same(q)
<1> USE DEF Steps, ItemSteps, OwnerSteps, BeforeMove, RestoreSteps, AppendSteps,
   ReconcileAppends, QuarantineAppends, RestoreAppends
<1>1. CASE EnterSession(p)
  BY <1>1, LocalSteps DEF EnterSession, Goto, Noted, KeepMemory, Same, TypeOK, LocalTypeOK
<1>2. CASE Revalidate(p)
  BY <1>2, LocalSteps DEF Revalidate, Goto, Noted, KeepMemory, Same, TypeOK, LocalTypeOK
<1>3. CASE NextItem(p)
  BY <1>3, LocalSteps DEF NextItem, Goto, Noted, KeepMemory, Same, TypeOK, LocalTypeOK
<1>4. CASE ItemsDone(p)
  BY <1>4, LocalSteps DEF ItemsDone, Goto, Noted, KeepMemory, Same, TypeOK, LocalTypeOK
<1>5. CASE CreateClaim(p)
  BY <1>5, LocalSteps DEF CreateClaim, Goto, Noted, KeepMemory, Same, TypeOK, LocalTypeOK
<1>6. CASE FillClaim(p)
  BY <1>6, LocalSteps DEF FillClaim, Goto, Noted, KeepMemory, Same, TypeOK, LocalTypeOK
<1>7. CASE AppendClaimed(p)
  BY <1>7, LocalSteps DEF AppendClaimed, Goto, Noted, KeepMemory, Same, TypeOK, LocalTypeOK
<1>8. CASE AppendPlanned(p)
  BY <1>8, LocalSteps DEF AppendPlanned, Goto, Noted, KeepMemory, Same, TypeOK, LocalTypeOK
<1>9. CASE AppendQuarantining(p)
  BY <1>9, LocalSteps DEF AppendQuarantining, Goto, Noted, KeepMemory, Same, TypeOK, LocalTypeOK
<1>10. CASE Recheck(p)
  BY <1>10, LocalSteps DEF Recheck, Goto, Noted, KeepMemory, Same, TypeOK, LocalTypeOK
<1>11. CASE Rename(p)
  BY <1>11, LocalSteps DEF Rename, Goto, Noted, KeepMemory, Same, TypeOK, LocalTypeOK
<1>12. CASE AppendQuarantined(p)
  BY <1>12, LocalSteps DEF AppendQuarantined, Goto, Noted, KeepMemory, Same, TypeOK, LocalTypeOK
<1>13. CASE HandleFailure(p)
  BY <1>13, LocalSteps DEF HandleFailure, Goto, Noted, KeepMemory, Same, TypeOK, LocalTypeOK
<1>14. CASE AppendCommitted(p)
  BY <1>14, LocalSteps DEF AppendCommitted, Goto, Noted, KeepMemory, Same, TypeOK, LocalTypeOK
<1>15. CASE AppendFailed(p)
  BY <1>15, LocalSteps DEF AppendFailed, Goto, Noted, KeepMemory, Same, TypeOK, LocalTypeOK
<1>16. QED
  BY <1>1, <1>2, <1>3, <1>4, <1>5, <1>6, <1>7, <1>8, <1>9, <1>10, <1>11, <1>12, <1>13, <1>14,
     <1>15 DEF Execute

LEMMA RestoreAlone ==
  ASSUME TypeOK, NEW p \in Procs, NEW q \in Procs \ {p}, Restore(p)
  PROVE  Same(q)
<1> USE DEF Steps, ItemSteps, OwnerSteps, BeforeMove, RestoreSteps, AppendSteps,
   ReconcileAppends, QuarantineAppends, RestoreAppends
<1>1. CASE AnswerFromJournal(p)
  BY <1>1, LocalSteps DEF AnswerFromJournal, Goto, Noted, KeepMemory, Same, TypeOK, LocalTypeOK
<1>2. CASE CheckRestore(p)
  BY <1>2, LocalSteps DEF CheckRestore, Goto, Noted, KeepMemory, Same, TypeOK, LocalTypeOK
<1>3. CASE AppendRestoring(p)
  BY <1>3, LocalSteps DEF AppendRestoring, Goto, Noted, KeepMemory, Same, TypeOK, LocalTypeOK
<1>4. CASE RenameBack(p)
  BY <1>4, LocalSteps DEF RenameBack, Goto, Noted, KeepMemory, Same, TypeOK, LocalTypeOK
<1>5. CASE AppendRestored(p)
  BY <1>5, LocalSteps DEF AppendRestored, Goto, Noted, KeepMemory, Same, TypeOK, LocalTypeOK
<1>6. CASE HandleRestoreFailure(p)
  BY <1>6, LocalSteps DEF HandleRestoreFailure, Goto, Noted, KeepMemory, Same, TypeOK,
     LocalTypeOK
<1>7. CASE AppendRestoreCommitted(p)
  BY <1>7, LocalSteps DEF AppendRestoreCommitted, Goto, Noted, KeepMemory, Same, TypeOK,
     LocalTypeOK
<1>8. CASE AppendRestoreFailed(p)
  BY <1>8, LocalSteps DEF AppendRestoreFailed, Goto, Noted, KeepMemory, Same, TypeOK,
     LocalTypeOK
<1>9. QED
  BY <1>1, <1>2, <1>3, <1>4, <1>5, <1>6, <1>7, <1>8 DEF Restore

LEMMA WorksAlone ==
  ASSUME TypeOK, NEW p \in Procs, NEW q \in Procs \ {p}, Works(p) \/ Starts(p) \/ Crash(p)
  PROVE  Same(q)
<1>1. CASE Works(p)
  BY <1>1, ReconcileAlone, ExecuteAlone, RestoreAlone DEF Works
<1>2. CASE Starts(p)
  BY <1>2 DEF Starts, StartExecute, StartUndo, StartStatus, Start, Goto, Same, TypeOK,
     LocalTypeOK
<1>3. CASE Crash(p)
  BY <1>3, LocalSteps DEF Crash
<1>4. QED
  BY <1>1, <1>2, <1>3

\* What a process knows and has reached is not disturbed by the others, as long
\* as nobody moves its item in.
LEMMA SameInOrder ==
  ASSUME TypeOK, Consistent, NEW q \in Procs, Same(q), \A r \in Recoveries : Grows(r),
         pc[q] \in BeforeMove => ~Entered(cur[q])'
  PROVE  ProcessInOrder(q)'
<1> USE DEF Same, Grows
<1>1. pc[q] \in ItemSteps => cur[q] \in Recoveries
  BY DEF TypeOK, ItemTypeOK
<1>2. MemoryCurrent(q)'
  BY DEF MemoryCurrent, Consistent, ProcessInOrder, TypeOK, LocalTypeOK
<1>3. ItemClaimed(q)'
  BY <1>1 DEF ItemClaimed, ItemSteps, OwnerSteps, Consistent, ProcessInOrder
<1>4. OwnerInOrder(q)'
  BY <1>1 DEF OwnerInOrder, ItemSteps, OwnerSteps, BeforeMove, QuarantineAppends, Consistent,
     ProcessInOrder
<1>5. VerdictHolds(q)'
  BY <1>1 DEF VerdictHolds, ItemSteps, Consistent, ProcessInOrder
<1>6. RestoreInOrder(q)'
  BY <1>1 DEF RestoreInOrder, ItemSteps, RestoreSteps, Consistent, ProcessInOrder,
     RestoreAppends
<1>7. QED
  BY <1>2, <1>3, <1>4, <1>5, <1>6 DEF ProcessInOrder

LEMMA OthersInOrder ==
  ASSUME TypeOK, Consistent, [Next]_vars, NEW p \in Procs, NEW q \in Procs \ {p},
         Works(p) \/ Starts(p) \/ Crash(p)
  PROVE  ProcessInOrder(q)'
<1>1. Same(q) /\ \A r \in Recoveries : Grows(r)
  BY WorksAlone, StepGrows
<1>2. Touches(p)
  <2>1. Works(p) => Touches(p)
    BY ReconcileTouches, ExecuteTouches, RestoreTouches DEF Works
  <2>2. Starts(p) \/ Crash(p) => Quiet
    BY DEF Starts, StartExecute, StartUndo, StartStatus, Start, Crash, disk, Quiet
  <2>3. QED
    BY <2>1, <2>2 DEF Touches
<1>3. ASSUME pc[q] \in BeforeMove PROVE ~Entered(cur[q])'
  <2>1. PICK r \in Recoveries : r = cur[q]
    BY <1>3 DEF TypeOK, ItemTypeOK, ItemSteps, OwnerSteps, BeforeMove, QuarantineAppends
  <2>2. ~Entered(r)
    BY <1>3, <2>1 DEF Consistent, ProcessInOrder, OwnerInOrder
  <2>3. ~(Enters(p) /\ cur[p] = r)
    BY <1>3, <2>1 DEF Enters, OwnerSteps, BeforeMove, QuarantineAppends, Consistent, OneOwner
  <2>4. ~Entered(r)'
    BY <1>2, <2>2, <2>3, TouchGrows
  <2>5. QED
    BY <1>1, <2>1, <2>4 DEF Same
<1>4. QED
  BY <1>1, <1>3, SameInOrder

-----------------------------------------------------------------------------
(* The process that takes the step. *)

\* A process outside any operation owes nothing.
LEMMA FinishInOrder ==
  ASSUME TypeOK, NEW p \in Procs, Finish(p)
  PROVE  ProcessInOrder(p)'
  BY DEF Finish, NoEntries, TypeOK, LocalTypeOK, ItemSteps, OwnerSteps, BeforeMove,
     RestoreSteps,
         QuarantineAppends, RestoreAppends, ProcessInOrder, MemoryCurrent, ItemClaimed,
         OwnerInOrder, VerdictHolds, RestoreInOrder

LEMMA MemoryKept ==
  ASSUME TypeOK, Consistent, NEW p \in Procs, \A r \in Recoveries : Grows(r),
         view'[p] = view[p], work'[p] \subseteq work[p]
  PROVE  MemoryCurrent(p)'
  BY DEF MemoryCurrent, Grows, Consistent, ProcessInOrder, TypeOK, LocalTypeOK

LEMMA ItemEndsInOrder ==
  ASSUME TypeOK, Consistent, NEW p \in Procs, \A r \in Recoveries : Grows(r), ItemEnds(p)
  PROVE  ProcessInOrder(p)'
<1>1. pc'[p] = "item" /\ view'[p] = view[p] /\ work'[p] = work[p]
  BY DEF ItemEnds, Goto, KeepMemory, TypeOK, LocalTypeOK
<1>2. QED
  BY <1>1, MemoryKept
     DEF ItemSteps, OwnerSteps, BeforeMove, RestoreSteps, QuarantineAppends, RestoreAppends,
         ProcessInOrder, ItemClaimed, OwnerInOrder, VerdictHolds, RestoreInOrder

\* What a step of the loop over items, or of restore, has to establish.
LEMMA StepInOrder ==
  ASSUME TypeOK, Consistent, NEW p \in Procs, \A r \in Recoveries : Grows(r),
         NEW step \in Steps \ {"record"}, Step(p, step), NEW r \in Recoveries, r = cur[p],
         step \in ItemSteps \ {"claim"} => claim'[r] # "absent",
         step \in OwnerSteps \ {"fill"} => claim'[r] = "written",
         step \in BeforeMove => ~Entered(r)',
         step \in {"recheck", "rename"} => "QUARANTINING" \in journal'[r].seen,
         step \in {"appendQuarantined", "appendCommitted"} \cup RestoreSteps => Entered(r)',
         step = "renameBack" => "RESTORING" \in journal'[r].seen
  PROVE  ProcessInOrder(p)'
<1>1. pc'[p] = step /\ cur'[p] = r /\ view'[p] = view[p] /\ work'[p] = work[p]
  BY DEF Step, Goto, KeepMemory, TypeOK, LocalTypeOK
<1>2. MemoryCurrent(p)'
  BY <1>1, MemoryKept
<1>3. ItemClaimed(p)' /\ OwnerInOrder(p)' /\ RestoreInOrder(p)'
  BY <1>1 DEF ItemClaimed, OwnerInOrder, RestoreInOrder
<1>4. VerdictHolds(p)'
  BY <1>1 DEF VerdictHolds
<1>5. QED
  BY <1>2, <1>3, <1>4 DEF ProcessInOrder

LEMMA NotedMemory ==
  ASSUME TypeOK, Consistent, NEW p \in Procs, \A r \in Recoveries : Grows(r),
         cur[p] \in Recoveries, NEW s \in Status, Append(p, cur[p], s), Noted(p, s), work' = work
  PROVE  MemoryCurrent(p)'
<1>1. /\ journal'[cur[p]].seen = journal[cur[p]].seen \cup {s}
      /\ \A r \in Recoveries \ {cur[p]} : journal'[r] = journal[r]
  BY DEF Append, With, TypeOK, SharedTypeOK
<1>2. /\ view'[p][cur[p]] = With(view[p][cur[p]], s)
      /\ \A r \in Recoveries \ {cur[p]} : view'[p][r] = view[p][r]
  BY DEF Noted, TypeOK, LocalTypeOK
<1>3. MemoryCurrent(p)
  BY DEF Consistent, ProcessInOrder
<1>4. ASSUME NEW r \in Recoveries
      PROVE  /\ view'[p][r].seen \subseteq journal'[r].seen
             /\ view'[p][r].last \in view'[p][r].seen \cup {"NONE"}
  <2>1. CASE r = cur[p]
    BY <1>1, <1>2, <1>3, <2>1 DEF With, MemoryCurrent
  <2>2. CASE r # cur[p]
    BY <1>1, <1>2, <1>3, <2>2 DEF MemoryCurrent
  <2>3. QED
    BY <2>1, <2>2
<1>5. \A r \in work[p] : claim'[r] # "absent"
  BY <1>3 DEF MemoryCurrent, Grows, TypeOK, LocalTypeOK
<1>6. QED
  BY <1>4, <1>5 DEF MemoryCurrent

\* What is known of the current item, and stays known.
Kept(p, r) ==
  /\ pc[p] \in ItemSteps \ {"claim"} => claim'[r] # "absent"
  /\ pc[p] \in OwnerSteps \ {"fill"} => claim'[r] = "written"
  /\ pc[p] \in BeforeMove \ {"rename"} => ~Entered(r)'
  /\ ~Entered(r) /\ pc[p] # "rename" => ~Entered(r)'
  /\ pc[p] \in {"recheck", "rename"} => "QUARANTINING" \in journal'[r].seen
  /\ pc[p] \in {"appendQuarantined", "appendCommitted"} \cup RestoreSteps => Entered(r)'
  /\ pc[p] = "renameBack" => "RESTORING" \in journal'[r].seen

LEMMA OwnItem ==
  ASSUME TypeOK, Consistent, [Next]_vars, NEW p \in Procs, Works(p),
         NEW r \in Recoveries, r = cur[p]
  PROVE  Kept(p, r)
<1>1. ProcessInOrder(p) /\ Grows(r)
  BY StepGrows DEF Consistent
<1>2. Touches(p)
  BY ReconcileTouches, ExecuteTouches, RestoreTouches DEF Works
<1>3. ~Entered(r) /\ pc[p] # "rename" => ~Entered(r)'
  BY <1>2, TouchGrows DEF Enters
<1>4. QED
  BY <1>1, <1>3 DEF Kept, Grows, ProcessInOrder, ItemClaimed, OwnerInOrder, RestoreInOrder,
     BeforeMove, QuarantineAppends, OwnerSteps

LEMMA ReconcileInOrder ==
  ASSUME TypeOK, Consistent, [Next]_vars, NEW p \in Procs, Reconcile(p)
  PROVE  ProcessInOrder(p)'
<1> USE DEF Steps, ItemSteps, OwnerSteps, BeforeMove, RestoreSteps, AppendSteps,
   ReconcileAppends, QuarantineAppends, RestoreAppends
<1> Works(p) /\ \A r \in Recoveries : Grows(r)
  BY StepGrows DEF Works
<1>1. CASE Inventory(p)
  <2>1. CASE Finish(p)
    BY <2>1, FinishInOrder
  <2>2. CASE ~Finish(p)
    <3>1. MemoryCurrent(p)'
      BY <1>1, <2>2 DEF Inventory, Goto, disk, NoEntries, MemoryCurrent, DiskConsistent, Grows,
         Consistent, ProcessInOrder, KeepMemory, TypeOK, SharedTypeOK, LocalTypeOK
    <3>2. ItemClaimed(p)' /\ OwnerInOrder(p)' /\ VerdictHolds(p)' /\ RestoreInOrder(p)'
      BY <1>1, <2>2 DEF Inventory, Goto, disk, KeepMemory, ItemClaimed, OwnerInOrder,
         VerdictHolds, RestoreInOrder, MemoryCurrent, Consistent, ProcessInOrder, TypeOK,
         LocalTypeOK
    <3>3. QED
      BY <3>1, <3>2 DEF ProcessInOrder
  <2>3. QED
    BY <2>1, <2>2
<1>2. CASE Scan(p)
  <2>1. CASE Finish(p)
    BY <2>1, FinishInOrder
  <2>2. CASE ~Finish(p)
    <3>1. MemoryCurrent(p)'
      BY <1>2, <2>2 DEF Scan, Goto, disk, NoEntries, MemoryCurrent, DiskConsistent, Grows,
         Consistent, ProcessInOrder, KeepMemory, TypeOK, SharedTypeOK, LocalTypeOK
    <3>2. ItemClaimed(p)' /\ OwnerInOrder(p)' /\ VerdictHolds(p)' /\ RestoreInOrder(p)'
      BY <1>2, <2>2 DEF Scan, Goto, disk, KeepMemory, ItemClaimed, OwnerInOrder, VerdictHolds,
         RestoreInOrder, MemoryCurrent, Consistent, ProcessInOrder, TypeOK, LocalTypeOK
    <3>3. QED
      BY <3>1, <3>2 DEF ProcessInOrder
  <2>3. QED
    BY <2>1, <2>2
<1>3. CASE Reread(p)
  <2>1. CASE Finish(p)
    BY <2>1, FinishInOrder
  <2>2. CASE ~Finish(p)
    <3>1. MemoryCurrent(p)'
      BY <1>3, <2>2 DEF Reread, Goto, disk, NoEntries, MemoryCurrent, DiskConsistent, Grows,
         Consistent, ProcessInOrder, KeepMemory, TypeOK, SharedTypeOK, LocalTypeOK
    <3>2. ItemClaimed(p)' /\ OwnerInOrder(p)' /\ VerdictHolds(p)' /\ RestoreInOrder(p)'
      BY <1>3, <2>2 DEF Reread, Goto, disk, KeepMemory, ItemClaimed, OwnerInOrder, VerdictHolds,
         RestoreInOrder, MemoryCurrent, Consistent, ProcessInOrder, TypeOK, LocalTypeOK
    <3>3. QED
      BY <3>1, <3>2 DEF ProcessInOrder
  <2>3. QED
    BY <2>1, <2>2
<1>4. CASE ReadClaims(p)
  <2>1. CASE Finish(p)
    BY <2>1, FinishInOrder
  <2>2. CASE ~Finish(p)
    <3>1. MemoryCurrent(p)'
      BY <1>4, <2>2 DEF ReadClaims, Goto, disk, NoEntries, MemoryCurrent, DiskConsistent, Grows,
         Consistent, ProcessInOrder, KeepMemory, TypeOK, SharedTypeOK, LocalTypeOK
    <3>2. ItemClaimed(p)' /\ OwnerInOrder(p)' /\ VerdictHolds(p)' /\ RestoreInOrder(p)'
      BY <1>4, <2>2 DEF ReadClaims, Goto, disk, KeepMemory, ItemClaimed, OwnerInOrder,
         VerdictHolds, RestoreInOrder, MemoryCurrent, Consistent, ProcessInOrder, TypeOK,
         LocalTypeOK
    <3>3. QED
      BY <3>1, <3>2 DEF ProcessInOrder
  <2>3. QED
    BY <2>1, <2>2
<1>5. CASE NextOrphan(p)
  <2>1. MemoryCurrent(p)'
    BY <1>5 DEF NextOrphan, Goto, disk, NoEntries, MemoryCurrent, DiskConsistent, Grows,
       Consistent, ProcessInOrder, KeepMemory, TypeOK, SharedTypeOK, LocalTypeOK
  <2>2. ItemClaimed(p)' /\ OwnerInOrder(p)' /\ VerdictHolds(p)' /\ RestoreInOrder(p)'
    BY <1>5 DEF NextOrphan, Goto, disk, KeepMemory, ItemClaimed, OwnerInOrder, VerdictHolds,
       RestoreInOrder, MemoryCurrent, Consistent, ProcessInOrder, TypeOK, LocalTypeOK
  <2>3. QED
    BY <2>1, <2>2 DEF ProcessInOrder
<1>6. CASE RecordOrphanClaimed(p)
  <2>1. cur[p] \in Recoveries /\ "AUTHORIZATION_CLAIMED" \in Status
    BY <1>6 DEF RecordOrphanClaimed, Status, TypeOK, ItemTypeOK
  <2>2. view'[p] = view[p] \/ (Append(p, cur[p], "AUTHORIZATION_CLAIMED") /\ Noted(p, "AUTHORIZATION_CLAIMED"))
    BY <1>6 DEF RecordOrphanClaimed
  <2>3. MemoryCurrent(p)'
    <3>1. work' = work
      BY <1>6 DEF RecordOrphanClaimed
    <3>2. QED
      BY <2>1, <2>2, <3>1, MemoryKept, NotedMemory
  <2>4. ItemClaimed(p)' /\ OwnerInOrder(p)' /\ VerdictHolds(p)' /\ RestoreInOrder(p)'
    BY <1>6, <2>1 DEF RecordOrphanClaimed, Goto, ItemClaimed, OwnerInOrder, VerdictHolds,
       RestoreInOrder, Grows, Consistent, ProcessInOrder, TypeOK, LocalTypeOK
  <2>5. QED
    BY <2>3, <2>4 DEF ProcessInOrder
<1>7. CASE RecordOrphanFailed(p)
  <2>1. cur[p] \in Recoveries /\ "FAILED" \in Status
    BY <1>7 DEF RecordOrphanFailed, Status, TypeOK, ItemTypeOK
  <2>2. view'[p] = view[p] \/ (Append(p, cur[p], "FAILED") /\ Noted(p, "FAILED"))
    BY <1>7 DEF RecordOrphanFailed
  <2>3. MemoryCurrent(p)'
    <3>1. work' = work
      BY <1>7 DEF RecordOrphanFailed
    <3>2. QED
      BY <2>1, <2>2, <3>1, MemoryKept, NotedMemory
  <2>4. ItemClaimed(p)' /\ OwnerInOrder(p)' /\ VerdictHolds(p)' /\ RestoreInOrder(p)'
    BY <1>7, <2>1 DEF RecordOrphanFailed, Goto, ItemClaimed, OwnerInOrder, VerdictHolds,
       RestoreInOrder, Grows, Consistent, ProcessInOrder, TypeOK, LocalTypeOK
  <2>5. QED
    BY <2>3, <2>4 DEF ProcessInOrder
<1>8. CASE OrphansDone(p)
  <2> DEFINE left == {r \in Recoveries : view[p][r].last \in PendingStates}
  <2>1. work'[p] = left /\ UNCHANGED <<journal, claim, view>> /\ pc'[p] = "pending"
    BY <1>8 DEF OrphansDone, Goto, disk, TypeOK, LocalTypeOK
  <2>2. ASSUME NEW r \in left PROVE claim[r] # "absent"
    <3>1. view[p][r].seen \subseteq journal[r].seen /\ view[p][r].last \in view[p][r].seen
      BY DEF PendingStates, TransitionStates, Consistent, ProcessInOrder, MemoryCurrent
    <3>2. QED
      BY <3>1 DEF Consistent, DiskConsistent
  <2>3. MemoryCurrent(p)'
    BY <2>1, <2>2 DEF MemoryCurrent, Consistent, ProcessInOrder
  <2>4. QED
    BY <2>1, <2>3 DEF ProcessInOrder, ItemClaimed, OwnerInOrder, VerdictHolds, RestoreInOrder
<1>9. CASE NextPending(p)
  <2>1. MemoryCurrent(p)'
    BY <1>9 DEF NextPending, Goto, disk, NoEntries, MemoryCurrent, DiskConsistent, Grows,
       Consistent, ProcessInOrder, KeepMemory, TypeOK, SharedTypeOK, LocalTypeOK
  <2>2. ItemClaimed(p)' /\ OwnerInOrder(p)' /\ VerdictHolds(p)' /\ RestoreInOrder(p)'
    BY <1>9 DEF NextPending, Goto, disk, KeepMemory, ItemClaimed, OwnerInOrder, VerdictHolds,
       RestoreInOrder, MemoryCurrent, Consistent, ProcessInOrder, TypeOK, LocalTypeOK
  <2>3. QED
    BY <2>1, <2>2 DEF ProcessInOrder
<1>10. CASE ObserveSlot(p)
  <2>1. PICK r \in Recoveries : r = cur[p]
    BY <1>10 DEF ObserveSlot, TypeOK, ItemTypeOK
  <2>2. PICK destination \in Look(r, target[r]) :
          /\ pc'[p] = "record" /\ cur'[p] = r /\ UNCHANGED <<journal, claim, at, view, work>>
          /\ verdict'[p] = MoveVerdict(view[p][r].last, observed[p], destination)
    BY <1>10, <2>1 DEF ObserveSlot, Goto, TypeOK, LocalTypeOK
  <2>3. MemoryCurrent(p)'
    BY <2>2, MemoryKept
  <2>4. ItemClaimed(p)'
    BY <1>10, <2>1, <2>2 DEF ObserveSlot, ItemClaimed, Consistent, ProcessInOrder
  <2>5. VerdictHolds(p)'
    <3>1. destination = "match" => Occupied(r)
      BY Sight, ConstantsAssumption DEF Occupied, ConstantsAssumption
    <3>3. view[p][r].last = "RESTORING" => "RESTORING" \in journal[r].seen
      BY DEF Consistent, ProcessInOrder, MemoryCurrent
    <3>4. (Occupied(r)' <=> Occupied(r)) /\ UNCHANGED journal
      BY <2>2 DEF Occupied
    <3>5. QED
      BY <2>2, <3>1, <3>3, <3>4 DEF VerdictHolds, MoveVerdict, Entered
  <2>6. QED
    BY <2>2, <2>3, <2>4, <2>5 DEF ProcessInOrder, OwnerInOrder, RestoreInOrder
<1>11. CASE RecordVerdict(p)
  <2>1. cur[p] \in Recoveries /\ verdict[p] \in Status
    BY <1>11 DEF RecordVerdict, Status, TypeOK, ItemTypeOK
  <2>2. view'[p] = view[p] \/ (Append(p, cur[p], verdict[p]) /\ Noted(p, verdict[p]))
    BY <1>11 DEF RecordVerdict
  <2>3. MemoryCurrent(p)'
    <3>1. work' = work
      BY <1>11 DEF RecordVerdict
    <3>2. QED
      BY <2>1, <2>2, <3>1, MemoryKept, NotedMemory
  <2>4. ItemClaimed(p)' /\ OwnerInOrder(p)' /\ VerdictHolds(p)' /\ RestoreInOrder(p)'
    BY <1>11, <2>1 DEF RecordVerdict, Goto, ItemClaimed, OwnerInOrder, VerdictHolds,
       RestoreInOrder, Grows, Consistent, ProcessInOrder, TypeOK, LocalTypeOK
  <2>5. QED
    BY <2>3, <2>4 DEF ProcessInOrder
<1>12. CASE PendingDone(p)
  <2>1. MemoryCurrent(p)'
    BY <1>12 DEF PendingDone, Goto, disk, NoEntries, MemoryCurrent, DiskConsistent, Grows,
       Consistent, ProcessInOrder, KeepMemory, TypeOK, SharedTypeOK, LocalTypeOK
  <2>2. ItemClaimed(p)' /\ OwnerInOrder(p)' /\ VerdictHolds(p)' /\ RestoreInOrder(p)'
    BY <1>12 DEF PendingDone, Goto, disk, KeepMemory, ItemClaimed, OwnerInOrder, VerdictHolds,
       RestoreInOrder, MemoryCurrent, Consistent, ProcessInOrder, TypeOK, LocalTypeOK
  <2>3. QED
    BY <2>1, <2>2 DEF ProcessInOrder
<1>13. CASE ReconciliationEnds(p)
  BY <1>13, FinishInOrder DEF ReconciliationEnds
<1>14. QED
  BY <1>1, <1>2, <1>3, <1>4, <1>5, <1>6, <1>7, <1>8, <1>9, <1>10, <1>11, <1>12, <1>13
     DEF Reconcile

LEMMA ExecuteInOrder ==
  ASSUME TypeOK, Consistent, [Next]_vars, NEW p \in Procs, Execute(p)
  PROVE  ProcessInOrder(p)'
<1> USE DEF Steps, ItemSteps, OwnerSteps, BeforeMove, RestoreSteps, AppendSteps,
   ReconcileAppends, QuarantineAppends, RestoreAppends
<1> Works(p) /\ \A r \in Recoveries : Grows(r)
  BY StepGrows DEF Works
<1>1. CASE EnterSession(p)
  <2>1. MemoryCurrent(p)'
    BY <1>1 DEF EnterSession, Goto, disk, NoEntries, MemoryCurrent, DiskConsistent, Grows,
       Consistent, ProcessInOrder, KeepMemory, TypeOK, SharedTypeOK, LocalTypeOK
  <2>2. ItemClaimed(p)' /\ OwnerInOrder(p)' /\ VerdictHolds(p)' /\ RestoreInOrder(p)'
    BY <1>1 DEF EnterSession, Goto, disk, KeepMemory, ItemClaimed, OwnerInOrder, VerdictHolds,
       RestoreInOrder, MemoryCurrent, Consistent, ProcessInOrder, TypeOK, LocalTypeOK
  <2>3. QED
    BY <2>1, <2>2 DEF ProcessInOrder
<1>2. CASE Revalidate(p)
  <2>1. CASE Finish(p)
    BY <2>1, FinishInOrder
  <2>2. CASE Step(p, "item")
    <3>1. pc'[p] = "item" /\ view'[p] = view[p] /\ work'[p] = work[p]
      BY <2>2 DEF Step, Goto, KeepMemory, TypeOK, LocalTypeOK
    <3>2. QED
      BY <3>1, MemoryKept
         DEF ProcessInOrder, ItemClaimed, OwnerInOrder, VerdictHolds, RestoreInOrder
  <2>3. QED
    BY <1>2, <2>1, <2>2 DEF Revalidate
<1>3. CASE NextItem(p)
  <2>1. MemoryCurrent(p)'
    BY <1>3 DEF NextItem, Goto, disk, NoEntries, MemoryCurrent, DiskConsistent, Grows,
       Consistent, ProcessInOrder, KeepMemory, TypeOK, SharedTypeOK, LocalTypeOK
  <2>2. ItemClaimed(p)' /\ OwnerInOrder(p)' /\ VerdictHolds(p)' /\ RestoreInOrder(p)'
    BY <1>3 DEF NextItem, Goto, disk, KeepMemory, ItemClaimed, OwnerInOrder, VerdictHolds,
       RestoreInOrder, MemoryCurrent, Consistent, ProcessInOrder, TypeOK, LocalTypeOK
  <2>3. QED
    BY <2>1, <2>2 DEF ProcessInOrder
<1>4. CASE ItemsDone(p)
  BY <1>4, FinishInOrder DEF ItemsDone
<1>5. CASE CreateClaim(p)
  <2>1. PICK r \in Recoveries : r = cur[p]
    BY <1>5 DEF CreateClaim, TypeOK, ItemTypeOK
  <2>2. Kept(p, r)
    BY <1>5, <2>1, OwnItem DEF CreateClaim
  <2>3. CASE Claims(p) /\ Step(p, "fill")
    <3>1. claim'[r] # "absent" /\ ~Entered(r)
      BY <2>1, <2>3 DEF Claims, DiskConsistent, Consistent, Entered, TypeOK, SharedTypeOK
    <3>2. QED
      BY <1>5, <2>1, <2>2, <2>3, <3>1, StepInOrder DEF CreateClaim, Kept
  <2>4. CASE ItemEnds(p)
    BY <2>4, ItemEndsInOrder
  <2>5. QED
    BY <1>5, <2>1, <2>3, <2>4 DEF CreateClaim, Claims
<1>6. CASE FillClaim(p)
  <2>1. PICK r \in Recoveries : r = cur[p]
    BY <1>6 DEF FillClaim, TypeOK, ItemTypeOK
  <2>2. Kept(p, r)
    BY <1>6, <2>1, OwnItem DEF FillClaim
  <2>3. CASE Fills(p) /\ Step(p, "appendClaimed")
    <3>1. claim'[r] = "written"
      BY <2>1, <2>3 DEF Fills, TypeOK, SharedTypeOK
    <3>2. QED
      BY <1>6, <2>1, <2>2, <2>3, <3>1, StepInOrder DEF FillClaim, Kept
  <2>4. CASE ItemEnds(p)
    BY <2>4, ItemEndsInOrder
  <2>5. QED
    BY <1>6, <2>1, <2>3, <2>4 DEF FillClaim, Fills
<1>7. CASE AppendClaimed(p)
  <2>1. PICK r \in Recoveries : r = cur[p]
    BY <1>7 DEF AppendClaimed, TypeOK, ItemTypeOK
  <2>2. Kept(p, r)
    BY <1>7, <2>1, OwnItem DEF AppendClaimed
  <2>3. CASE Step(p, "appendPlanned")
    BY <1>7, <2>1, <2>2, <2>3, StepInOrder DEF AppendClaimed, Kept
  <2>4. CASE ItemEnds(p)
    BY <2>4, ItemEndsInOrder
  <2>5. QED
    BY <1>7, <2>1, <2>3, <2>4 DEF AppendClaimed
<1>8. CASE AppendPlanned(p)
  <2>1. PICK r \in Recoveries : r = cur[p]
    BY <1>8 DEF AppendPlanned, TypeOK, ItemTypeOK
  <2>2. Kept(p, r)
    BY <1>8, <2>1, OwnItem DEF AppendPlanned
  <2>3. CASE Step(p, "appendQuarantining")
    BY <1>8, <2>1, <2>2, <2>3, StepInOrder DEF AppendPlanned, Kept
  <2>4. CASE Step(p, "failed")
    BY <1>8, <2>1, <2>2, <2>4, StepInOrder DEF AppendPlanned, Kept
  <2>5. QED
    BY <1>8, <2>1, <2>3, <2>4 DEF AppendPlanned
<1>9. CASE AppendQuarantining(p)
  <2>1. PICK r \in Recoveries : r = cur[p]
    BY <1>9 DEF AppendQuarantining, TypeOK, ItemTypeOK
  <2>2. Kept(p, r)
    BY <1>9, <2>1, OwnItem DEF AppendQuarantining
  <2>3. CASE Append(p, cur[p], "QUARANTINING") /\ Step(p, "recheck")
    <3>1. "QUARANTINING" \in journal'[r].seen
      BY <2>1, <2>3 DEF Append, With, TypeOK, SharedTypeOK
    <3>2. QED
      BY <1>9, <2>1, <2>2, <2>3, <3>1, StepInOrder DEF AppendQuarantining, Kept
  <2>4. CASE Step(p, "failed")
    BY <1>9, <2>1, <2>2, <2>4, StepInOrder DEF AppendQuarantining, Kept
  <2>5. QED
    BY <1>9, <2>1, <2>3, <2>4 DEF AppendQuarantining
<1>10. CASE Recheck(p)
  <2>1. PICK r \in Recoveries : r = cur[p]
    BY <1>10 DEF Recheck, TypeOK, ItemTypeOK
  <2>2. Kept(p, r)
    BY <1>10, <2>1, OwnItem DEF Recheck
  <2>3. CASE Step(p, "rename")
    BY <1>10, <2>1, <2>2, <2>3, StepInOrder DEF Recheck, Kept
  <2>4. CASE Step(p, "failed")
    BY <1>10, <2>1, <2>2, <2>4, StepInOrder DEF Recheck, Kept
  <2>5. QED
    BY <1>10, <2>1, <2>3, <2>4 DEF Recheck
<1>11. CASE Rename(p)
  <2>1. PICK r \in Recoveries : r = cur[p]
    BY <1>11 DEF Rename, TypeOK, ItemTypeOK
  <2>2. Kept(p, r)
    BY <1>11, <2>1, OwnItem DEF Rename
  <2>3. CASE Enters(p) /\ Step(p, "appendQuarantined")
    <3>1. Entered(r)'
      BY <2>1, <2>3, EntersOccupies DEF Entered
    <3>2. QED
      BY <1>11, <2>1, <2>2, <2>3, <3>1, StepInOrder DEF Rename, Kept
  <2>4. CASE Step(p, "failed")
    BY <1>11, <2>1, <2>2, <2>4, StepInOrder DEF Rename, Kept
  <2>5. QED
    BY <1>11, <2>1, <2>3, <2>4 DEF Rename, Enters
<1>12. CASE AppendQuarantined(p)
  <2>1. PICK r \in Recoveries : r = cur[p]
    BY <1>12 DEF AppendQuarantined, TypeOK, ItemTypeOK
  <2>2. Kept(p, r)
    BY <1>12, <2>1, OwnItem DEF AppendQuarantined
  <2>3. CASE ItemEnds(p)
    BY <2>3, ItemEndsInOrder
  <2>4. CASE Step(p, "appendCommitted")
    BY <1>12, <2>1, <2>2, <2>4, StepInOrder DEF AppendQuarantined, Kept
  <2>5. QED
    BY <1>12, <2>1, <2>3, <2>4 DEF AppendQuarantined
<1>13. CASE HandleFailure(p)
  <2>1. PICK r \in Recoveries : r = cur[p]
    BY <1>13 DEF HandleFailure, TypeOK, ItemTypeOK
  <2>2. Kept(p, r)
    BY <1>13, <2>1, OwnItem DEF HandleFailure
  <2>3. CASE "match" \in Look(r, target[r]) /\ Step(p, "appendCommitted")
    <3>1. Entered(r)
      BY <2>3, Sight, ConstantsAssumption DEF ConstantsAssumption, Occupied, Entered
    <3>2. QED
      BY <1>13, <2>1, <2>2, <2>3, <3>1, StepInOrder DEF HandleFailure, Kept, Grows
  <2>4. CASE Step(p, "appendFailed")
    BY <1>13, <2>1, <2>2, <2>4, StepInOrder DEF HandleFailure, Kept
  <2>5. QED
    BY <1>13, <2>1, <2>3, <2>4 DEF HandleFailure, Committed
<1>14. CASE AppendCommitted(p)
  <2>1. PICK r \in Recoveries : r = cur[p]
    BY <1>14 DEF AppendCommitted, TypeOK, ItemTypeOK
  <2>2. Kept(p, r)
    BY <1>14, <2>1, OwnItem DEF AppendCommitted
  <2>3. CASE ItemEnds(p)
    BY <2>3, ItemEndsInOrder
  <2>4. QED
    BY <1>14, <2>1, <2>3 DEF AppendCommitted
<1>15. CASE AppendFailed(p)
  <2>1. PICK r \in Recoveries : r = cur[p]
    BY <1>15 DEF AppendFailed, TypeOK, ItemTypeOK
  <2>2. Kept(p, r)
    BY <1>15, <2>1, OwnItem DEF AppendFailed
  <2>3. CASE ItemEnds(p)
    BY <2>3, ItemEndsInOrder
  <2>4. QED
    BY <1>15, <2>1, <2>3 DEF AppendFailed
<1>16. QED
  BY <1>1, <1>2, <1>3, <1>4, <1>5, <1>6, <1>7, <1>8, <1>9, <1>10, <1>11, <1>12, <1>13, <1>14,
     <1>15 DEF Execute

LEMMA RestoreKeepsOrder ==
  ASSUME TypeOK, Consistent, [Next]_vars, NEW p \in Procs, Restore(p)
  PROVE  ProcessInOrder(p)'
<1> USE DEF Steps, ItemSteps, OwnerSteps, BeforeMove, RestoreSteps, AppendSteps,
   ReconcileAppends, QuarantineAppends, RestoreAppends
<1> Works(p) /\ \A r \in Recoveries : Grows(r)
  BY StepGrows DEF Works
<1>1. CASE AnswerFromJournal(p)
  BY <1>1, FinishInOrder DEF AnswerFromJournal
<1>2. CASE CheckRestore(p)
  <2>1. PICK r \in Recoveries :
          /\ WasQuarantined(view[p][r])
          /\ cur'[p] = r /\ pc'[p] \in {"appendRestoring", "restoreFailed"}
    BY <1>2 DEF CheckRestore, Goto, TypeOK, LocalTypeOK
  <2>2. MemoryCurrent(p)'
    BY <1>2 DEF CheckRestore, disk, NoEntries, MemoryCurrent, Consistent, ProcessInOrder,
              TypeOK, LocalTypeOK
  <2>3. Entered(r)' /\ claim'[r] # "absent"
    <3>1. WasQuarantined(journal[r])
      BY <2>1 DEF WasQuarantined, Consistent, ProcessInOrder, MemoryCurrent
    <3>2. Entered(r) /\ claim[r] # "absent"
      BY <3>1 DEF WasQuarantined, Consistent, DiskConsistent
    <3>3. QED
      BY <3>2 DEF Grows
  <2>4. QED
    BY <2>1, <2>2, <2>3 DEF ProcessInOrder, ItemClaimed, OwnerInOrder, VerdictHolds,
       RestoreInOrder
<1>3. CASE AppendRestoring(p)
  <2>1. PICK r \in Recoveries : r = cur[p]
    BY <1>3 DEF AppendRestoring, TypeOK, ItemTypeOK
  <2>2. Kept(p, r)
    BY <1>3, <2>1, OwnItem DEF AppendRestoring
  <2>3. CASE Append(p, cur[p], "RESTORING") /\ Step(p, "renameBack")
    <3>1. "RESTORING" \in journal'[r].seen
      BY <2>1, <2>3 DEF Append, With, TypeOK, SharedTypeOK
    <3>2. QED
      BY <1>3, <2>1, <2>2, <2>3, <3>1, StepInOrder DEF AppendRestoring, Kept
  <2>4. CASE Step(p, "restoreFailed")
    BY <1>3, <2>1, <2>2, <2>4, StepInOrder DEF AppendRestoring, Kept
  <2>5. QED
    BY <1>3, <2>1, <2>3, <2>4 DEF AppendRestoring
<1>4. CASE RenameBack(p)
  <2>1. PICK r \in Recoveries : r = cur[p]
    BY <1>4 DEF RenameBack, TypeOK, ItemTypeOK
  <2>2. Kept(p, r)
    BY <1>4, <2>1, OwnItem DEF RenameBack
  <2>3. CASE Step(p, "appendRestored")
    BY <1>4, <2>1, <2>2, <2>3, StepInOrder DEF RenameBack, Kept
  <2>4. CASE Step(p, "restoreFailed")
    BY <1>4, <2>1, <2>2, <2>4, StepInOrder DEF RenameBack, Kept
  <2>5. QED
    BY <1>4, <2>3, <2>4 DEF RenameBack
<1>5. CASE AppendRestored(p)
  <2>1. PICK r \in Recoveries : r = cur[p]
    BY <1>5 DEF AppendRestored, TypeOK, ItemTypeOK
  <2>2. Kept(p, r)
    BY <1>5, <2>1, OwnItem DEF AppendRestored
  <2>3. CASE Finish(p)
    BY <2>3, FinishInOrder
  <2>4. CASE Step(p, "appendRestoreCommitted")
    BY <1>5, <2>1, <2>2, <2>4, StepInOrder DEF AppendRestored, Kept
  <2>5. QED
    BY <1>5, <2>1, <2>3, <2>4 DEF AppendRestored
<1>6. CASE HandleRestoreFailure(p)
  <2>1. PICK r \in Recoveries : r = cur[p]
    BY <1>6 DEF HandleRestoreFailure, TypeOK, ItemTypeOK
  <2>2. Kept(p, r)
    BY <1>6, <2>1, OwnItem DEF HandleRestoreFailure
  <2>3. CASE Step(p, "appendRestoreCommitted")
    BY <1>6, <2>1, <2>2, <2>3, StepInOrder DEF HandleRestoreFailure, Kept
  <2>4. CASE Step(p, "appendRestoreFailed")
    BY <1>6, <2>1, <2>2, <2>4, StepInOrder DEF HandleRestoreFailure, Kept
  <2>5. QED
    BY <1>6, <2>1, <2>3, <2>4 DEF HandleRestoreFailure
<1>7. CASE AppendRestoreCommitted(p)
  BY <1>7, FinishInOrder DEF AppendRestoreCommitted
<1>8. CASE AppendRestoreFailed(p)
  BY <1>8, FinishInOrder DEF AppendRestoreFailed
<1>9. QED
  BY <1>1, <1>2, <1>3, <1>4, <1>5, <1>6, <1>7, <1>8 DEF Restore

-----------------------------------------------------------------------------
(* Ownership. *)

\* A process is the owner of its item after a step only if it was before, or if
\* it has just created the claim.
Owns(p) ==
  pc'[p] \in OwnerSteps => /\ cur'[p] = cur[p]
                           /\ pc[p] \in OwnerSteps \/ Claims(p)

LEMMA LocalOwns ==
  ASSUME TypeOK, NEW p \in Procs
  PROVE  /\ Finish(p) => Owns(p)
         /\ ItemEnds(p) => Owns(p)
         /\ \A step \in Steps : Step(p, step) /\ pc[p] \in OwnerSteps => Owns(p)
         /\ \A step \in Steps \ OwnerSteps : Step(p, step) => Owns(p)
  BY DEF Finish, ItemEnds, Step, Goto, Owns, TypeOK, LocalTypeOK, OwnerSteps, QuarantineAppends

LEMMA ReconcileOwns ==
  ASSUME TypeOK, NEW p \in Procs, Reconcile(p)
  PROVE  Owns(p)
<1> USE DEF Steps, ItemSteps, OwnerSteps, BeforeMove, RestoreSteps, AppendSteps,
   ReconcileAppends, QuarantineAppends, RestoreAppends
<1>1. CASE Inventory(p)
  BY <1>1, LocalOwns DEF Inventory, Goto, Owns, TypeOK, LocalTypeOK
<1>2. CASE Scan(p)
  BY <1>2, LocalOwns DEF Scan, Goto, Owns, TypeOK, LocalTypeOK
<1>3. CASE Reread(p)
  BY <1>3, LocalOwns DEF Reread, Goto, Owns, TypeOK, LocalTypeOK
<1>4. CASE ReadClaims(p)
  BY <1>4, LocalOwns DEF ReadClaims, Goto, Owns, TypeOK, LocalTypeOK
<1>5. CASE NextOrphan(p)
  BY <1>5, LocalOwns DEF NextOrphan, Goto, Owns, TypeOK, LocalTypeOK
<1>6. CASE RecordOrphanClaimed(p)
  BY <1>6, LocalOwns DEF RecordOrphanClaimed, Goto, Owns, TypeOK, LocalTypeOK
<1>7. CASE RecordOrphanFailed(p)
  BY <1>7, LocalOwns DEF RecordOrphanFailed, Goto, Owns, TypeOK, LocalTypeOK
<1>8. CASE OrphansDone(p)
  BY <1>8, LocalOwns DEF OrphansDone, Goto, Owns, TypeOK, LocalTypeOK
<1>9. CASE NextPending(p)
  BY <1>9, LocalOwns DEF NextPending, Goto, Owns, TypeOK, LocalTypeOK
<1>10. CASE ObserveSlot(p)
  BY <1>10, LocalOwns DEF ObserveSlot, Goto, Owns, TypeOK, LocalTypeOK
<1>11. CASE RecordVerdict(p)
  BY <1>11, LocalOwns DEF RecordVerdict, Goto, Owns, TypeOK, LocalTypeOK
<1>12. CASE PendingDone(p)
  BY <1>12, LocalOwns DEF PendingDone, Goto, Owns, TypeOK, LocalTypeOK
<1>13. CASE ReconciliationEnds(p)
  BY <1>13, LocalOwns DEF ReconciliationEnds, Goto, Owns, TypeOK, LocalTypeOK
<1>14. QED
  BY <1>1, <1>2, <1>3, <1>4, <1>5, <1>6, <1>7, <1>8, <1>9, <1>10, <1>11, <1>12, <1>13
     DEF Reconcile

LEMMA ExecuteOwns ==
  ASSUME TypeOK, NEW p \in Procs, Execute(p)
  PROVE  Owns(p)
<1> USE DEF Steps, ItemSteps, OwnerSteps, BeforeMove, RestoreSteps, AppendSteps,
   ReconcileAppends, QuarantineAppends, RestoreAppends
<1>1. CASE EnterSession(p)
  BY <1>1, LocalOwns DEF EnterSession, Goto, Owns, TypeOK, LocalTypeOK
<1>2. CASE Revalidate(p)
  BY <1>2, LocalOwns DEF Revalidate, Goto, Owns, TypeOK, LocalTypeOK
<1>3. CASE NextItem(p)
  BY <1>3, LocalOwns DEF NextItem, Goto, Owns, TypeOK, LocalTypeOK
<1>4. CASE ItemsDone(p)
  BY <1>4, LocalOwns DEF ItemsDone, Goto, Owns, TypeOK, LocalTypeOK
<1>5. CASE CreateClaim(p)
  <2>1. CASE Claims(p) /\ Step(p, "fill")
    BY <2>1 DEF Step, Owns
  <2>2. CASE ItemEnds(p)
    BY <2>2, LocalOwns
  <2>3. QED
    BY <1>5, <2>1, <2>2 DEF CreateClaim, Claims
<1>6. CASE FillClaim(p)
  BY <1>6, LocalOwns DEF FillClaim, Goto, Owns, TypeOK, LocalTypeOK
<1>7. CASE AppendClaimed(p)
  BY <1>7, LocalOwns DEF AppendClaimed, Goto, Owns, TypeOK, LocalTypeOK
<1>8. CASE AppendPlanned(p)
  BY <1>8, LocalOwns DEF AppendPlanned, Goto, Owns, TypeOK, LocalTypeOK
<1>9. CASE AppendQuarantining(p)
  BY <1>9, LocalOwns DEF AppendQuarantining, Goto, Owns, TypeOK, LocalTypeOK
<1>10. CASE Recheck(p)
  BY <1>10, LocalOwns DEF Recheck, Goto, Owns, TypeOK, LocalTypeOK
<1>11. CASE Rename(p)
  BY <1>11, LocalOwns DEF Rename, Goto, Owns, TypeOK, LocalTypeOK
<1>12. CASE AppendQuarantined(p)
  BY <1>12, LocalOwns DEF AppendQuarantined, Goto, Owns, TypeOK, LocalTypeOK
<1>13. CASE HandleFailure(p)
  BY <1>13, LocalOwns DEF HandleFailure, Goto, Owns, TypeOK, LocalTypeOK
<1>14. CASE AppendCommitted(p)
  BY <1>14, LocalOwns DEF AppendCommitted, Goto, Owns, TypeOK, LocalTypeOK
<1>15. CASE AppendFailed(p)
  BY <1>15, LocalOwns DEF AppendFailed, Goto, Owns, TypeOK, LocalTypeOK
<1>16. QED
  BY <1>1, <1>2, <1>3, <1>4, <1>5, <1>6, <1>7, <1>8, <1>9, <1>10, <1>11, <1>12, <1>13, <1>14,
     <1>15 DEF Execute

LEMMA RestoreOwns ==
  ASSUME TypeOK, NEW p \in Procs, Restore(p)
  PROVE  Owns(p)
<1> USE DEF Steps, ItemSteps, OwnerSteps, BeforeMove, RestoreSteps, AppendSteps,
   ReconcileAppends, QuarantineAppends, RestoreAppends
<1>1. CASE AnswerFromJournal(p)
  BY <1>1, LocalOwns DEF AnswerFromJournal, Goto, Owns, TypeOK, LocalTypeOK
<1>2. CASE CheckRestore(p)
  BY <1>2, LocalOwns DEF CheckRestore, Goto, Owns, TypeOK, LocalTypeOK
<1>3. CASE AppendRestoring(p)
  BY <1>3, LocalOwns DEF AppendRestoring, Goto, Owns, TypeOK, LocalTypeOK
<1>4. CASE RenameBack(p)
  BY <1>4, LocalOwns DEF RenameBack, Goto, Owns, TypeOK, LocalTypeOK
<1>5. CASE AppendRestored(p)
  BY <1>5, LocalOwns DEF AppendRestored, Goto, Owns, TypeOK, LocalTypeOK
<1>6. CASE HandleRestoreFailure(p)
  BY <1>6, LocalOwns DEF HandleRestoreFailure, Goto, Owns, TypeOK, LocalTypeOK
<1>7. CASE AppendRestoreCommitted(p)
  BY <1>7, LocalOwns DEF AppendRestoreCommitted, Goto, Owns, TypeOK, LocalTypeOK
<1>8. CASE AppendRestoreFailed(p)
  BY <1>8, LocalOwns DEF AppendRestoreFailed, Goto, Owns, TypeOK, LocalTypeOK
<1>9. QED
  BY <1>1, <1>2, <1>3, <1>4, <1>5, <1>6, <1>7, <1>8 DEF Restore

LEMMA StepOwner ==
  ASSUME TypeOK, Consistent, [Next]_vars
  PROVE  OneOwner'
<1>1. CASE UNCHANGED vars
  BY <1>1 DEF vars, OneOwner, Consistent
<1>2. ASSUME NEW p \in Procs, Works(p) PROVE OneOwner'
  <2>1. Owns(p) /\ \A q \in Procs \ {p} : Same(q)
    BY <1>2, WorksAlone, ReconcileOwns, ExecuteOwns, RestoreOwns DEF Works
  <2>2. \A q \in Procs : pc[q] \in OwnerSteps => claim[cur[q]] # "absent"
    BY DEF Consistent, ProcessInOrder, ItemClaimed, ItemSteps, OwnerSteps
  <2>3. \A q \in Procs \ {p} :
          pc'[p] \in OwnerSteps /\ pc'[q] \in OwnerSteps => cur'[p] # cur'[q]
    BY <2>1, <2>2 DEF Owns, Same, Claims, Consistent, OneOwner
  <2>4. \A q, s \in Procs \ {p} :
          q # s /\ pc'[q] \in OwnerSteps /\ pc'[s] \in OwnerSteps => cur'[q] # cur'[s]
    BY <2>1 DEF Same, Consistent, OneOwner
  <2>5. QED
    BY <2>3, <2>4 DEF OneOwner
<1>3. ASSUME NEW p \in Procs, Starts(p) \/ Crash(p) PROVE OneOwner'
  <2>1. \A q \in Procs \ {p} : Same(q)
    BY <1>3, WorksAlone
  <2>2. pc'[p] \notin OwnerSteps
    BY <1>3 DEF Starts, StartExecute, StartUndo, StartStatus, Start, Crash, Finish, Goto,
                OwnerSteps, QuarantineAppends, TypeOK, LocalTypeOK
  <2>3. QED
    BY <2>1, <2>2 DEF Same, Consistent, OneOwner
<1>4. CASE Tool
  BY <1>4 DEF Tool, ToolCreates, ToolRemoves, local, Consistent, OneOwner
<1>5. QED
  BY <1>1, <1>2, <1>3, <1>4 DEF Next, Environment, Tool

-----------------------------------------------------------------------------
(* The invariant. *)

LEMMA StepProcesses ==
  ASSUME TypeOK, Consistent, [Next]_vars
  PROVE  \A q \in Procs : ProcessInOrder(q)'
<1>1. CASE UNCHANGED vars
  BY <1>1 DEF vars, Consistent, ProcessInOrder, MemoryCurrent, ItemClaimed, OwnerInOrder,
              VerdictHolds, RestoreInOrder, Entered, Occupied
<1>2. ASSUME NEW p \in Procs, Works(p) PROVE \A q \in Procs : ProcessInOrder(q)'
  <2>1. ProcessInOrder(p)'
    BY <1>2, ReconcileInOrder, ExecuteInOrder, RestoreKeepsOrder DEF Works
  <2>2. \A q \in Procs \ {p} : ProcessInOrder(q)'
    BY <1>2, OthersInOrder
  <2>3. QED
    BY <2>1, <2>2
<1>3. ASSUME NEW p \in Procs, Starts(p) PROVE \A q \in Procs : ProcessInOrder(q)'
  <2>1. /\ pc'[p] = "inventory" /\ view'[p] = view[p] /\ work'[p] = work[p]
    BY <1>3 DEF Starts, StartExecute, StartUndo, StartStatus, Start, Goto, TypeOK, LocalTypeOK
  <2>2. ProcessInOrder(p)'
    BY <2>1, MemoryKept, StepGrows
       DEF ProcessInOrder, ItemClaimed, OwnerInOrder, VerdictHolds, RestoreInOrder, ItemSteps,
           OwnerSteps, BeforeMove, RestoreSteps, QuarantineAppends, RestoreAppends
  <2>3. \A q \in Procs \ {p} : ProcessInOrder(q)'
    BY <1>3, OthersInOrder
  <2>4. QED
    BY <2>2, <2>3
<1>4. ASSUME NEW p \in Procs, Crash(p) PROVE \A q \in Procs : ProcessInOrder(q)'
  <2>1. ProcessInOrder(p)'
    BY <1>4, FinishInOrder DEF Crash
  <2>2. \A q \in Procs \ {p} : ProcessInOrder(q)'
    BY <1>4, OthersInOrder
  <2>3. QED
    BY <2>1, <2>2
<1>5. ASSUME Tool, NEW q \in Procs PROVE ProcessInOrder(q)'
  <2>1. Same(q) /\ UNCHANGED <<journal, claim>>
    BY <1>5, ToolKeepsSlots DEF local, Same, Consistent
  <2>2. \A r \in Recoveries : Entered(r)' <=> Entered(r)
    BY <1>5, ToolKeepsSlots DEF Entered, Consistent
  <2>3. pc[q] \in BeforeMove => ~Entered(cur[q])'
    BY <2>1, <2>2 DEF Same, Consistent, ProcessInOrder, OwnerInOrder, TypeOK, ItemTypeOK,
                      ItemSteps, OwnerSteps, BeforeMove, QuarantineAppends
  <2>4. QED
    BY <2>1, <2>3, SameInOrder, StepGrows
<1>6. QED
  BY <1>1, <1>2, <1>3, <1>4, <1>5 DEF Next, Environment, Tool

LEMMA InitConsistent == Init => Consistent
<1> SUFFICES ASSUME Init PROVE Consistent
  OBVIOUS
<1>1. \A r \in Recoveries : ~Occupied(r)
  <2>1. at \in [Objects -> Paths \cup {Nowhere}]
    BY ConstantsAssumption DEF Init, ConstantsAssumption
  <2>2. QED
    BY <2>1, ConstantsAssumption DEF Occupied, ConstantsAssumption
<1>2. DiskConsistent
  BY <1>1 DEF Init, DiskConsistent, NoEntries, WasQuarantined, WasRestored
<1>3. OneDirectoryPerPlace
  BY ConstantsAssumption DEF Init, OneDirectoryPerPlace, ConstantsAssumption
<1>4. OneOwner
  BY DEF Init, OneOwner, OwnerSteps, QuarantineAppends
<1>5. \A p \in Procs : ProcessInOrder(p)
  BY DEF Init, NoEntries, ProcessInOrder, MemoryCurrent, ItemClaimed, OwnerInOrder,
     VerdictHolds,
         RestoreInOrder, ItemSteps, OwnerSteps, BeforeMove, RestoreSteps, QuarantineAppends,
         RestoreAppends
<1>6. QED
  BY <1>2, <1>3, <1>4, <1>5 DEF Consistent

\* The disk, the claims and what every process is about to do fit together in
\* every state of the engine.
THEOREM AlwaysConsistent == Spec => []Consistent
<1>1. TypeOK /\ Consistent /\ [Next]_vars => Consistent'
  BY StepDisk, StepOwner, StepProcesses DEF Consistent
<1>2. QED
  BY <1>1, InitConsistent, TypeCorrect, PTL DEF Spec

\* Two processes that execute the same plan never work on the same item: the
\* claim file decides.
THEOREM OneOwnerAlways == Spec => []OneOwner
<1>1. Consistent => OneOwner
  BY DEF Consistent
<1>2. QED
  BY <1>1, AlwaysConsistent, PTL

\* No payload and no re-created cache is ever overwritten.
THEOREM NothingOverwritten == Spec => []OneDirectoryPerPlace
<1>1. Consistent => OneDirectoryPerPlace
  BY DEF Consistent
<1>2. QED
  BY <1>1, AlwaysConsistent, PTL

\* The content of a slot changes in the two renames only.
LEMMA StepMoves ==
  ASSUME TypeOK, Consistent, [Next]_vars, NEW r \in Recoveries
  PROVE  (Occupied(r)' <=> Occupied(r)) \/ \E p \in Procs : Enters(p) \/ Leaves(p)
<1>1. UNCHANGED at => (Occupied(r)' <=> Occupied(r))
  BY DEF Occupied
<1>2. CASE Quiet
  BY <1>1, <1>2 DEF Quiet
<1>3. CASE Tool
  BY <1>3, ToolKeepsSlots DEF Consistent
<1>4. ASSUME NEW p \in Procs, Touches(p)
      PROVE  (Occupied(r)' <=> Occupied(r)) \/ Enters(p) \/ Leaves(p)
  BY <1>1, <1>4 DEF Touches, Quiet, Claims, Fills, Records
<1>5. QED
  BY <1>2, <1>3, <1>4, NextTouches

\* Every directory that enters a slot has a complete claim and a durable intent
\* to move it, every directory that leaves one a durable intent to restore it.
THEOREM MovesJournaled == Spec => MovesAreJournaledFirst
<1> DEFINE Journaled(r) ==
      /\ (~Occupied(r) /\ Occupied(r)')
           => claim[r] = "written" /\ "QUARANTINING" \in journal[r].seen
      /\ (Occupied(r) /\ ~Occupied(r)') => "RESTORING" \in journal[r].seen
<1>1. ASSUME TypeOK, Consistent, [Next]_vars, NEW r \in Recoveries PROVE Journaled(r)
  <2>1. CASE Occupied(r)' <=> Occupied(r)
    BY <2>1
  <2>2. ASSUME NEW p \in Procs, Enters(p) PROVE Journaled(r)
    BY <1>1, <2>2, EntersOccupies
  <2>3. ASSUME NEW p \in Procs, Leaves(p) PROVE Journaled(r)
    BY <1>1, <2>3, LeavesEmpties
  <2>4. QED
    BY <1>1, <2>1, <2>2, <2>3, StepMoves
<1>2. TypeOK /\ Consistent /\ [Next]_vars => [\A r \in Recoveries : Journaled(r)]_vars
  BY <1>1
<1>3. QED
  BY <1>2, TypeCorrect, AlwaysConsistent, PTL DEF Spec, MovesAreJournaledFirst

\* An approval is used once: no slot is filled a second time.
THEOREM FilledOnce == Spec => SlotFilledOnce
<1> DEFINE Fresh(r) ==
      (~Occupied(r) /\ Occupied(r)')
        => journal[r].seen \cap (QuarantinedStates \cup RestoredStates \cup {"RESTORING"}) = {}
<1>1. ASSUME TypeOK, Consistent, [Next]_vars, NEW r \in Recoveries PROVE Fresh(r)
  <2>1. CASE ~(~Occupied(r) /\ Occupied(r)')
    BY <2>1
  <2>2. ASSUME NEW p \in Procs, Enters(p), ~Occupied(r), Occupied(r)' PROVE Fresh(r)
    <3>1. ~Entered(r)
      BY <1>1, <2>2, EntersOccupies
    <3>2. QED
      BY <1>1, <3>1
         DEF Entered, Consistent, DiskConsistent, WasQuarantined, WasRestored
  <2>3. ASSUME NEW p \in Procs, Leaves(p) PROVE Occupied(r)' => Occupied(r)
    BY <1>1, <2>3, LeavesEmpties
  <2>4. QED
    BY <1>1, <2>1, <2>2, <2>3, StepMoves
<1>2. TypeOK /\ Consistent /\ [Next]_vars => [\A r \in Recoveries : Fresh(r)]_vars
  BY <1>1
<1>3. QED
  BY <1>2, TypeCorrect, AlwaysConsistent, PTL DEF Spec, SlotFilledOnce

-----------------------------------------------------------------------------
(* What a slot holds. *)

\* The steps that lead to the places where a record about a restore is due.
Arrives(p) ==
  /\ pc'[p] = "appendRestoring" => CheckRestore(p)
  /\ pc'[p] = "appendRestored" => Leaves(p) /\ cur'[p] = cur[p]
  /\ pc'[p] = "appendRestoreCommitted" => AppendRestored(p) \/ HandleRestoreFailure(p)
  /\ pc'[p] = "record" => NextPending(p) \/ ObserveSlot(p)
  /\ pc'[p] = "observe" => NextPending(p)

LEMMA LocalArrives ==
  ASSUME TypeOK, NEW p \in Procs
  PROVE  /\ Finish(p) => pc'[p] = "idle"
         /\ ItemEnds(p) => pc'[p] = "item"
         /\ \A step \in Steps : Step(p, step) => pc'[p] = step /\ cur'[p] = cur[p]
         /\ \A step \in Steps : Goto(p, step) => pc'[p] = step
  BY DEF Finish, ItemEnds, Step, Goto, TypeOK, LocalTypeOK

LEMMA ReconcileArrives ==
  ASSUME TypeOK, NEW p \in Procs, Reconcile(p)
  PROVE  Arrives(p)
<1> USE DEF Steps, AppendSteps, ReconcileAppends, QuarantineAppends, RestoreAppends
<1>1. CASE Inventory(p)
  BY <1>1, LocalArrives DEF Inventory, Arrives
<1>2. CASE Scan(p)
  BY <1>2, LocalArrives DEF Scan, Arrives
<1>3. CASE Reread(p)
  BY <1>3, LocalArrives DEF Reread, Arrives
<1>4. CASE ReadClaims(p)
  BY <1>4, LocalArrives DEF ReadClaims, Arrives
<1>5. CASE NextOrphan(p)
  BY <1>5, LocalArrives DEF NextOrphan, Arrives
<1>6. CASE RecordOrphanClaimed(p)
  BY <1>6, LocalArrives DEF RecordOrphanClaimed, Arrives
<1>7. CASE RecordOrphanFailed(p)
  BY <1>7, LocalArrives DEF RecordOrphanFailed, Arrives
<1>8. CASE OrphansDone(p)
  BY <1>8, LocalArrives DEF OrphansDone, Arrives
<1>9. CASE NextPending(p)
  <2>1. pc'[p] \in {"record", "observe"}
    BY <1>9, LocalArrives DEF NextPending
  <2>2. QED
    BY <1>9, <2>1 DEF Arrives
<1>10. CASE ObserveSlot(p)
  <2>1. pc'[p] \in {"record"}
    BY <1>10, LocalArrives DEF ObserveSlot
  <2>2. QED
    BY <1>10, <2>1 DEF Arrives
<1>11. CASE RecordVerdict(p)
  BY <1>11, LocalArrives DEF RecordVerdict, Arrives
<1>12. CASE PendingDone(p)
  BY <1>12, LocalArrives DEF PendingDone, Arrives
<1>13. CASE ReconciliationEnds(p)
  BY <1>13, LocalArrives DEF ReconciliationEnds, Arrives
<1>14. QED
  BY <1>1, <1>2, <1>3, <1>4, <1>5, <1>6, <1>7, <1>8, <1>9, <1>10, <1>11, <1>12, <1>13
     DEF Reconcile

LEMMA ExecuteArrives ==
  ASSUME TypeOK, NEW p \in Procs, Execute(p)
  PROVE  Arrives(p)
<1> USE DEF Steps, AppendSteps, ReconcileAppends, QuarantineAppends, RestoreAppends
<1>1. CASE EnterSession(p)
  BY <1>1, LocalArrives DEF EnterSession, Arrives
<1>2. CASE Revalidate(p)
  BY <1>2, LocalArrives DEF Revalidate, Arrives
<1>3. CASE NextItem(p)
  BY <1>3, LocalArrives DEF NextItem, Arrives
<1>4. CASE ItemsDone(p)
  BY <1>4, LocalArrives DEF ItemsDone, Arrives
<1>5. CASE CreateClaim(p)
  BY <1>5, LocalArrives DEF CreateClaim, Arrives
<1>6. CASE FillClaim(p)
  BY <1>6, LocalArrives DEF FillClaim, Arrives
<1>7. CASE AppendClaimed(p)
  BY <1>7, LocalArrives DEF AppendClaimed, Arrives
<1>8. CASE AppendPlanned(p)
  BY <1>8, LocalArrives DEF AppendPlanned, Arrives
<1>9. CASE AppendQuarantining(p)
  BY <1>9, LocalArrives DEF AppendQuarantining, Arrives
<1>10. CASE Recheck(p)
  BY <1>10, LocalArrives DEF Recheck, Arrives
<1>11. CASE Rename(p)
  BY <1>11, LocalArrives DEF Rename, Arrives
<1>12. CASE AppendQuarantined(p)
  BY <1>12, LocalArrives DEF AppendQuarantined, Arrives
<1>13. CASE HandleFailure(p)
  BY <1>13, LocalArrives DEF HandleFailure, Arrives
<1>14. CASE AppendCommitted(p)
  BY <1>14, LocalArrives DEF AppendCommitted, Arrives
<1>15. CASE AppendFailed(p)
  BY <1>15, LocalArrives DEF AppendFailed, Arrives
<1>16. QED
  BY <1>1, <1>2, <1>3, <1>4, <1>5, <1>6, <1>7, <1>8, <1>9, <1>10, <1>11, <1>12, <1>13, <1>14, <1>15
     DEF Execute

LEMMA RestoreArrives ==
  ASSUME TypeOK, NEW p \in Procs, Restore(p)
  PROVE  Arrives(p)
<1> USE DEF Steps, AppendSteps, ReconcileAppends, QuarantineAppends, RestoreAppends
<1>1. CASE AnswerFromJournal(p)
  BY <1>1, LocalArrives DEF AnswerFromJournal, Arrives
<1>2. CASE CheckRestore(p)
  <2>1. pc'[p] \in {"appendRestoring", "restoreFailed"}
    BY <1>2, LocalArrives DEF CheckRestore
  <2>2. QED
    BY <1>2, <2>1 DEF Arrives
<1>3. CASE AppendRestoring(p)
  BY <1>3, LocalArrives DEF AppendRestoring, Arrives
<1>4. CASE RenameBack(p)
  BY <1>4, LocalArrives DEF RenameBack, Leaves, Arrives
<1>5. CASE AppendRestored(p)
  <2>1. pc'[p] \in {"idle", "appendRestoreCommitted", "appendRestoreFailed"}
    BY <1>5, LocalArrives DEF AppendRestored
  <2>2. QED
    BY <1>5, <2>1 DEF Arrives
<1>6. CASE HandleRestoreFailure(p)
  <2>1. pc'[p] \in {"idle", "appendRestoreCommitted", "appendRestoreFailed"}
    BY <1>6, LocalArrives DEF HandleRestoreFailure
  <2>2. QED
    BY <1>6, <2>1 DEF Arrives
<1>7. CASE AppendRestoreCommitted(p)
  BY <1>7, LocalArrives DEF AppendRestoreCommitted, Arrives
<1>8. CASE AppendRestoreFailed(p)
  BY <1>8, LocalArrives DEF AppendRestoreFailed, Arrives
<1>9. QED
  BY <1>1, <1>2, <1>3, <1>4, <1>5, <1>6, <1>7, <1>8
     DEF Restore

LEMMA WorksArrives ==
  ASSUME TypeOK, NEW p \in Procs, Works(p)
  PROVE  Arrives(p)
  BY ReconcileArrives, ExecuteArrives, RestoreArrives DEF Works

LEMMA OutsideArrives ==
  ASSUME TypeOK, NEW p \in Procs, Starts(p) \/ Crash(p)
  PROVE  pc'[p] \in {"inventory", "idle"}
  BY DEF Starts, StartExecute, StartUndo, StartStatus, Start, Crash, Finish, Goto, TypeOK,
     LocalTypeOK

\* A process is where it was, or it has taken one of those steps.
LEMMA StepArrives ==
  ASSUME TypeOK, [Next]_vars, NEW p \in Procs
  PROVE  Same(p) \/ pc'[p] \in {"inventory", "idle"} \/ (Works(p) /\ Arrives(p))
<1>1. CASE UNCHANGED vars
  BY <1>1 DEF vars, Same
<1>2. ASSUME NEW q \in Procs, Works(q) \/ Starts(q) \/ Crash(q)
      PROVE  Same(p) \/ pc'[p] \in {"inventory", "idle"} \/ (Works(p) /\ Arrives(p))
  BY <1>2, WorksAlone, WorksArrives, OutsideArrives
<1>3. CASE Tool
  BY <1>3 DEF Tool, ToolCreates, ToolRemoves, local, Same
<1>4. QED
  BY <1>1, <1>2, <1>3 DEF Next, Environment, Tool

\* The slot of r holds what it held.
SlotKept(r) == \A o \in Objects : at'[o] = r <=> at[o] = r

LEMMA StepSlot ==
  ASSUME TypeOK, Consistent, [Next]_vars, NEW r \in Recoveries
  PROVE  SlotKept(r) \/ \E p \in Procs : cur[p] = r /\ (Enters(p) \/ Leaves(p))
<1>1. UNCHANGED at => SlotKept(r)
  BY DEF SlotKept
<1>2. CASE Tool
  <2>1. CASE \E o \in Spares, path \in Paths : ToolCreates(o, path)
    <3>1. PICK o \in Objects, path \in Paths : ToolCreates(o, path)
      BY <2>1, ConstantsAssumption DEF ConstantsAssumption
    <3>2. \A n \in Objects : at'[n] = IF n = o THEN path ELSE at[n]
      BY <3>1 DEF ToolCreates, TypeOK, SharedTypeOK
    <3>3. QED
      BY <3>1, <3>2, ConstantsAssumption DEF ToolCreates, ConstantsAssumption, SlotKept
  <2>2. CASE \E o \in Objects : ToolRemoves(o)
    <3>1. PICK o \in Objects : ToolRemoves(o)
      BY <2>2
    <3>2. \A n \in Objects : at'[n] = IF n = o THEN Nowhere ELSE at[n]
      BY <3>1 DEF ToolRemoves, TypeOK, SharedTypeOK
    <3>3. QED
      BY <3>1, <3>2, ConstantsAssumption DEF ToolRemoves, ConstantsAssumption, SlotKept
  <2>3. QED
    BY <1>2, <2>1, <2>2 DEF Tool
<1>3. ASSUME NEW p \in Procs, Enters(p) \/ Leaves(p), cur[p] # r PROVE SlotKept(r)
  <2>1. cur[p] \in Recoveries
    BY <1>3, EntersOccupies, LeavesEmpties
  <2>2. home[cur[p]] # r /\ (at' = [o \in Objects |-> IF at[o] = home[cur[p]] THEN cur[p] ELSE at[o]]
                             \/ at' = [o \in Objects |-> IF at[o] = cur[p] THEN home[cur[p]] ELSE at[o]])
    BY <1>3, <2>1, Separate DEF Enters, Leaves, Move
  <2>3. QED
    BY <1>3, <2>2 DEF SlotKept
<1>4. ASSUME NEW p \in Procs, Touches(p)
      PROVE  SlotKept(r) \/ (cur[p] = r /\ (Enters(p) \/ Leaves(p)))
  BY <1>1, <1>3, <1>4 DEF Touches, Quiet, Claims, Fills, Records
<1>5. QED
  BY <1>1, <1>2, <1>4, NextTouches DEF Quiet

\* A status that is new in the journal was recorded by a process that is where
\* it is due.
LEMMA StepRecords ==
  ASSUME TypeOK, Consistent, [Next]_vars, NEW r \in Recoveries,
         NEW s \in journal'[r].seen, s \notin journal[r].seen
  PROVE  /\ UNCHANGED at
         /\ \E p \in Procs : cur[p] = r /\ Justified(p, s)
<1>1. ~Quiet
  BY DEF Quiet
<1>2. ~Tool
  BY DEF Tool, ToolCreates, ToolRemoves
<1>3. PICK p \in Procs : Touches(p)
  BY <1>1, <1>2, NextTouches
<1>4. PICK status \in Status : Records(p, status)
  BY <1>1, <1>3 DEF Touches, Claims, Fills, Enters, Leaves
<1>5. cur[p] = r /\ status = s
  BY <1>4, RecordsAdds
<1>6. QED
  BY <1>4, <1>5 DEF Records

\* A slot that Undo has got hold of holds the directory of its plan, or nothing.
Genuine(r) == Occupied(r) => at[target[r]] = r
UndoGenuine ==
  /\ \A r \in Recoveries : "RESTORING" \in journal[r].seen => Genuine(r)
  /\ \A p \in Procs : pc[p] = "appendRestoring" => Genuine(cur[p])

\* What is in a slot that has been entered stays genuine.
LEMMA GenuineKept ==
  ASSUME TypeOK, Consistent, [Next]_vars, NEW r \in Recoveries, Entered(r), Genuine(r)
  PROVE  Genuine(r)'
<1>1. target[r] \in Objects
  BY ConstantsAssumption DEF ConstantsAssumption
<1>2. CASE SlotKept(r)
  BY <1>1, <1>2 DEF SlotKept, Genuine, Occupied
<1>3. ASSUME NEW p \in Procs, cur[p] = r, Enters(p) PROVE FALSE
  BY <1>3, EntersOccupies
<1>4. ASSUME NEW p \in Procs, cur[p] = r, Leaves(p) PROVE Genuine(r)'
  BY <1>4, LeavesEmpties DEF Genuine
<1>5. QED
  BY <1>2, <1>3, <1>4, StepSlot

LEMMA StepGenuine ==
  ASSUME TypeOK, Consistent, [Next]_vars, UndoGenuine
  PROVE  UndoGenuine'
<1>1. ASSUME NEW r \in Recoveries, "RESTORING" \in journal'[r].seen PROVE Genuine(r)'
  <2>1. CASE "RESTORING" \in journal[r].seen
    BY <2>1, GenuineKept DEF UndoGenuine, Entered
  <2>2. CASE "RESTORING" \notin journal[r].seen
    <3>1. PICK p \in Procs : cur[p] = r /\ Justified(p, "RESTORING")
      BY <1>1, <2>2, StepRecords
    <3>2. Entered(r) /\ Genuine(r)
      BY <3>1 DEF Justified, UndoGenuine
    <3>3. QED
      BY <3>2, GenuineKept
  <2>3. QED
    BY <2>1, <2>2
<1>2. ASSUME NEW p \in Procs, pc'[p] = "appendRestoring" PROVE Genuine(cur[p])'
  <2>1. CASE Same(p)
    <3>1. PICK r \in Recoveries : r = cur[p]
      BY <1>2, <2>1 DEF Same, TypeOK, ItemTypeOK, ItemSteps, RestoreSteps, RestoreAppends
    <3>2. Entered(r) /\ Genuine(r)
      BY <1>2, <2>1, <3>1 DEF Same, UndoGenuine, Consistent, ProcessInOrder, RestoreInOrder,
         RestoreSteps, RestoreAppends
    <3>3. Genuine(r)'
      BY <3>2, GenuineKept
    <3>4. cur'[p] = r
      BY <2>1, <3>1 DEF Same
    <3>5. QED
      BY <3>3, <3>4 DEF Genuine, Occupied
  <2>2. CASE CheckRestore(p)
    <3>1. PICK r \in Recoveries : cur'[p] = r /\ Restorable(r) /\ UNCHANGED at
      BY <1>2, <2>2 DEF CheckRestore, Goto, disk, TypeOK, LocalTypeOK
    <3>2. at[target[r]] = r
      BY <3>1, Sight DEF Restorable
    <3>3. QED
      BY <3>1, <3>2 DEF Genuine, Occupied
  <2>3. QED
    BY <1>2, <2>1, <2>2, StepArrives DEF Arrives
<1>3. QED
  BY <1>1, <1>2 DEF UndoGenuine

LEMMA InitGenuine == Init => UndoGenuine
  BY DEF Init, NoEntries, UndoGenuine

\* Undo never moves a directory other than the one its plan was approved for,
\* for every number of processes, and with exchanges, crashes and faults.
THEOREM UndoMovesTheApproved == Spec => ExchangedNeverRestored
<1> DEFINE Stays(r) == \A o \in Objects : (at[o] = r /\ o # target[r]) => at'[o] = r
<1>1. ASSUME TypeOK, Consistent, UndoGenuine, [Next]_vars, NEW r \in Recoveries
      PROVE  Stays(r)
  <2>1. CASE SlotKept(r)
    BY <2>1 DEF SlotKept
  <2>2. ASSUME NEW p \in Procs, cur[p] = r, Enters(p) PROVE Stays(r)
    BY <2>2 DEF Enters, CanMove, Occupied
  <2>3. ASSUME NEW p \in Procs, cur[p] = r, Leaves(p) PROVE Stays(r)
    <3>1. at[target[r]] = r
      BY <1>1, <2>3, LeavesEmpties DEF UndoGenuine, Genuine
    <3>2. QED
      BY <1>1, <3>1, ConstantsAssumption
         DEF Consistent, OneDirectoryPerPlace, ConstantsAssumption
  <2>4. QED
    BY <1>1, <2>1, <2>2, <2>3, StepSlot
<1>2. TypeOK /\ Consistent /\ UndoGenuine /\ [Next]_vars
        => [\A r \in Recoveries : Stays(r)]_vars
  BY <1>1
<1>3. [\A r \in Recoveries : Stays(r)]_vars
        => [\A r \in Recoveries, o \in Objects :
              (at[o] = r /\ o # target[r]) => at[o]' = r]_vars
  BY DEF vars
<1>4. Spec => []UndoGenuine
  BY InitGenuine, StepGenuine, TypeCorrect, AlwaysConsistent, PTL DEF Spec
<1>5. QED
  BY <1>2, <1>3, <1>4, TypeCorrect, AlwaysConsistent, PTL DEF Spec, ExchangedNeverRestored

\* The directory of r was in its slot, and has left it for good.
Left(r) == "RESTORING" \in journal[r].seen /\ ~Occupied(r)

LEMMA LeftKept ==
  ASSUME TypeOK, Consistent, [Next]_vars, NEW r \in Recoveries, Left(r)
  PROVE  Left(r)'
<1>1. "RESTORING" \in journal'[r].seen /\ Entered(r)
  BY StepGrows DEF Grows, Left, Entered
<1>2. CASE SlotKept(r)
  BY <1>1, <1>2 DEF SlotKept, Left, Occupied
<1>3. ASSUME NEW p \in Procs, cur[p] = r, Enters(p) PROVE FALSE
  BY <1>1, <1>3, EntersOccupies
<1>4. ASSUME NEW p \in Procs, cur[p] = r, Leaves(p) PROVE Left(r)'
  BY <1>1, <1>4, LeavesEmpties DEF Left
<1>5. QED
  BY <1>2, <1>3, <1>4, StepSlot

\* No two plans were made for the same directory.
DistinctTargets == \A r, s \in Recoveries : target[r] = target[s] => r = s

\* While observations may fail, the original path tells where the payload is: a
\* directory that is back there has left its slot, and nothing else is in it.
BackMeansEmpty ==
  IOFaults => \A r \in Recoveries : at[target[r]] = home[r] => ~Occupied(r)

\* Who records a restore has seen it, or knows it from what was recorded.
RestoreSeen(p) ==
  /\ pc[p] \in {"appendRestored", "appendRestoreCommitted"} => Left(cur[p])
  /\ pc[p] = "record" /\ verdict[p] = "RESTORE_COMMITTED_UNJOURNALED" => Left(cur[p])
  /\ (/\ pc[p] = "observe" /\ observed[p] = "match"
      /\ view[p][cur[p]].last = "RESTORING" /\ IOFaults) => Left(cur[p])

Departed ==
  /\ BackMeansEmpty
  /\ \A r \in Recoveries : WasRestored(journal[r]) => Left(r)
  /\ \A p \in Procs : RestoreSeen(p)

LEMMA StepBack ==
  ASSUME TypeOK, Consistent, [Next]_vars, IOFaults => DistinctTargets, BackMeansEmpty
  PROVE  BackMeansEmpty'
<1> SUFFICES ASSUME IOFaults, NEW r \in Recoveries, at'[target[r]] = home[r]
             PROVE  ~Occupied(r)'
  BY DEF BackMeansEmpty
<1>1. /\ target[r] \in Objects \ Spares /\ home[r] \in Paths /\ home[r] # Nowhere
      /\ \A s \in Recoveries : home[r] = home[s] => r = s
  BY ConstantsAssumption DEF ConstantsAssumption, DistinctTargets
<1>2. CASE at[target[r]] = home[r]
  <2>1. ~Occupied(r)
    BY <1>2 DEF BackMeansEmpty
  <2>2. CASE SlotKept(r)
    BY <2>1, <2>2 DEF SlotKept, Occupied
  <2>3. ASSUME NEW p \in Procs, cur[p] = r, Enters(p) PROVE FALSE
    <3>1. at'[target[r]] = r
      BY <1>1, <1>2, <2>3 DEF Enters, Move
    <3>2. QED
      BY <3>1, Separate
  <2>4. ASSUME NEW p \in Procs, cur[p] = r, Leaves(p) PROVE ~Occupied(r)'
    BY <2>4, LeavesEmpties
  <2>5. QED
    BY <2>2, <2>3, <2>4, StepSlot
<1>3. CASE at[target[r]] # home[r]
  <2>1. ~UNCHANGED at
    BY <1>3
  <2>2. ~Tool
    <3>1. ASSUME NEW o \in Spares, NEW path \in Paths, ToolCreates(o, path) PROVE FALSE
      BY <1>1, <1>3, <3>1 DEF ToolCreates, TypeOK, SharedTypeOK
    <3>2. ASSUME NEW o \in Objects, ToolRemoves(o) PROVE FALSE
      BY <1>1, <1>3, <3>2 DEF ToolRemoves, TypeOK, SharedTypeOK
    <3>3. QED
      BY <3>1, <3>2 DEF Tool
  <2>3. PICK p \in Procs : Enters(p) \/ Leaves(p)
    BY <2>1, <2>2, NextTouches DEF Touches, Quiet, Claims, Fills, Records
  <2>4. CASE Enters(p)
    <3>1. cur[p] \in Recoveries /\ at'[target[r]] \in {at[target[r]], cur[p]}
      BY <1>1, <2>4, EntersOccupies DEF Enters, Move
    <3>2. QED
      BY <1>3, <3>1, Separate
  <2>5. CASE Leaves(p)
    <3>1. cur[p] \in Recoveries /\ at'[target[r]] \in {at[target[r]], home[cur[p]]}
      BY <1>1, <2>5, LeavesEmpties DEF Leaves, Move
    <3>2. cur[p] = r
      BY <1>1, <1>3, <3>1
    <3>3. QED
      BY <2>5, <3>2, LeavesEmpties
  <2>6. QED
    BY <2>3, <2>4, <2>5
<1>4. QED
  BY <1>2, <1>3

\* An item that was moved in and is seen at its original path has left.
LEMMA BackLeft ==
  ASSUME TypeOK, BackMeansEmpty, IOFaults, NEW r \in Recoveries, Entered(r),
         at[target[r]] = home[r]
  PROVE  Left(r)
  BY DEF BackMeansEmpty, Entered, Left

LEMMA StepSeen ==
  ASSUME TypeOK, Consistent, [Next]_vars, Departed, NEW p \in Procs
  PROVE  RestoreSeen(p)'
<1>1. CASE Same(p)
  <2>1. CASE pc[p] \notin ItemSteps
    BY <1>1, <2>1
       DEF Same, RestoreSeen, ItemSteps, OwnerSteps, RestoreSteps, RestoreAppends
  <2>2. CASE pc[p] \in ItemSteps
    <3>1. PICK r \in Recoveries : r = cur[p]
      BY <2>2 DEF TypeOK, ItemTypeOK
    <3>2. Left(r) => Left(r)'
      BY LeftKept
    <3>3. Left(cur[p]) => Left(cur[p])'
      BY <1>1, <3>1, <3>2 DEF Same, Left, Occupied
    <3>4. QED
      BY <1>1, <3>3 DEF Same, Departed, RestoreSeen
  <2>3. QED
    BY <2>1, <2>2
<1>2. CASE pc'[p] \in {"inventory", "idle"}
  BY <1>2 DEF RestoreSeen
<1>3. CASE Works(p) /\ Arrives(p)
  <2>1. CASE pc'[p] = "appendRestored"
    <3>1. PICK r \in Recoveries : r = cur[p] /\ r = cur'[p] /\ Leaves(p)
      BY <1>3, <2>1, LeavesEmpties DEF Arrives
    <3>2. Left(r)'
      BY <3>1, LeavesEmpties DEF Leaves, Left
    <3>3. QED
      BY <2>1, <3>1, <3>2 DEF RestoreSeen, Left, Occupied
  <2>2. CASE pc'[p] = "appendRestoreCommitted" /\ AppendRestored(p)
    <3>1. PICK r \in Recoveries : r = cur[p] /\ Left(r)
      BY <2>2 DEF AppendRestored, TypeOK, ItemTypeOK, ItemSteps, RestoreSteps, RestoreAppends,
         Departed, RestoreSeen
    <3>2. Left(r)' /\ cur'[p] = r
      BY <2>2, <3>1, LeftKept DEF AppendRestored, Finish, Step, Goto, TypeOK, LocalTypeOK
    <3>3. QED
      BY <2>2, <3>2 DEF RestoreSeen, Left, Occupied
  <2>3. CASE pc'[p] = "appendRestoreCommitted" /\ HandleRestoreFailure(p)
    <3>1. PICK r \in Recoveries : r = cur[p]
      BY <2>3 DEF HandleRestoreFailure, TypeOK, ItemTypeOK, ItemSteps, RestoreSteps
    <3>2. Entered(r) /\ cur'[p] = r
      BY <2>3, <3>1 DEF HandleRestoreFailure, Step, Consistent, ProcessInOrder, RestoreInOrder,
         RestoreSteps
    <3>3. "error" \in Look(r, target[r]) /\ "match" \in Look(home[r], target[r])
      BY <2>3, <3>1
         DEF HandleRestoreFailure, Committed, Step, Goto, TypeOK, LocalTypeOK
    <3>4. at[target[r]] = home[r] /\ (IOFaults \/ ~Occupied(r))
      BY <3>3, Sight
    <3>5. Left(r)
      BY <3>2, <3>4, BackLeft DEF Departed, Entered, Left
    <3>6. Left(r)'
      BY <3>5, LeftKept
    <3>7. QED
      BY <2>3, <3>2, <3>6 DEF RestoreSeen, Left, Occupied
  <2>4. CASE pc'[p] = "record" /\ NextPending(p)
    <3>1. pc'[p] # "observe" /\ (verdict'[p] = "FAILED" \/ Goto(p, "observe"))
      BY <2>4 DEF NextPending, TypeOK, LocalTypeOK
    <3>2. QED
      BY <2>4, <3>1 DEF RestoreSeen, Goto, TypeOK, LocalTypeOK
  <2>5. CASE pc'[p] = "record" /\ ObserveSlot(p)
    <3>1. PICK r \in Recoveries : r = cur[p]
      BY <2>5 DEF ObserveSlot, TypeOK, ItemTypeOK, ItemSteps
    <3>2. PICK destination \in Look(r, target[r]) :
            /\ cur'[p] = r
            /\ verdict'[p] = MoveVerdict(view[p][r].last, observed[p], destination)
      BY <2>5, <3>1 DEF ObserveSlot, TypeOK, LocalTypeOK
    <3>3. ASSUME verdict'[p] = "RESTORE_COMMITTED_UNJOURNALED" PROVE Left(r)
      <4>1. /\ view[p][r].last = "RESTORING"
            /\ observed[p] = "match" /\ destination = "error"
        BY <3>2, <3>3 DEF MoveVerdict
      <4>2. "RESTORING" \in journal[r].seen
        BY <4>1 DEF Consistent, ProcessInOrder, MemoryCurrent
      <4>3. IOFaults \/ ~Occupied(r)
        BY <4>1, <3>2, Sight
      <4>4. CASE ~Occupied(r)
        BY <4>2, <4>4 DEF Left
      <4>5. CASE IOFaults
        BY <2>5, <3>1, <4>1, <4>5 DEF ObserveSlot, Departed, RestoreSeen
      <4>6. QED
        BY <4>3, <4>4, <4>5
    <3>4. verdict'[p] = "RESTORE_COMMITTED_UNJOURNALED" => Left(r)'
      BY <3>3, LeftKept
    <3>5. QED
      BY <2>5, <3>2, <3>4 DEF RestoreSeen, Left, Occupied
  <2>6. CASE pc'[p] = "observe"
    <3>1. NextPending(p)
      BY <1>3, <2>6 DEF Arrives
    <3>2. PICK r \in Recoveries :
            /\ cur'[p] = r /\ UNCHANGED <<journal, at, view>>
            /\ observed'[p] \in Look(home[r], target[r])
      BY <2>6, <3>1 DEF NextPending, Goto, disk, TypeOK, LocalTypeOK
    <3>3. ASSUME observed'[p] = "match", view'[p][r].last = "RESTORING", IOFaults
          PROVE  Left(r)
      <4>1. at[target[r]] = home[r]
        BY <3>2, <3>3, Sight
      <4>2. "RESTORING" \in journal[r].seen
        BY <3>2, <3>3 DEF Consistent, ProcessInOrder, MemoryCurrent
      <4>3. QED
        BY <3>3, <4>1, <4>2, BackLeft DEF Departed, Entered
    <3>4. Left(r) => Left(r)'
      BY LeftKept
    <3>5. QED
      BY <2>6, <3>2, <3>3, <3>4 DEF RestoreSeen, Left, Occupied
  <2>7. CASE pc'[p] \notin {"appendRestored", "appendRestoreCommitted", "record", "observe"}
    BY <2>7 DEF RestoreSeen
  <2>8. QED
    BY <1>3, <2>1, <2>2, <2>3, <2>4, <2>5, <2>6, <2>7 DEF Arrives
<1>4. QED
  BY <1>1, <1>2, <1>3, StepArrives

LEMMA StepDeparted ==
  ASSUME TypeOK, Consistent, [Next]_vars, IOFaults => DistinctTargets, Departed
  PROVE  Departed'
<1>1. BackMeansEmpty'
  BY StepBack DEF Departed
<1>2. ASSUME NEW r \in Recoveries, WasRestored(journal'[r]) PROVE Left(r)'
  <2>1. CASE WasRestored(journal[r])
    BY <2>1, LeftKept DEF Departed
  <2>2. CASE ~WasRestored(journal[r])
    <3>1. PICK s \in RestoredStates : s \in journal'[r].seen /\ s \notin journal[r].seen
      BY <1>2, <2>2 DEF WasRestored
    <3>2. PICK p \in Procs : cur[p] = r /\ Justified(p, s)
      BY <3>1, StepRecords
    <3>3. Left(r)
      <4>1. CASE pc[p] \in {"appendRestored", "appendRestoreCommitted"}
        BY <3>2, <4>1 DEF Departed, RestoreSeen
      <4>2. CASE pc[p] = "record" /\ verdict[p] = s
        <5>1. s = "RESTORE_COMMITTED_UNJOURNALED"
          BY <3>1, <4>2 DEF RestoredStates, Consistent, ProcessInOrder, VerdictHolds
        <5>2. QED
          BY <3>2, <4>2, <5>1 DEF Departed, RestoreSeen
      <4>3. QED
        BY <3>1, <3>2, <4>1, <4>2 DEF Justified
    <3>4. QED
      BY <3>3, LeftKept
  <2>3. QED
    BY <2>1, <2>2
<1>3. \A p \in Procs : RestoreSeen(p)'
  BY StepSeen
<1>4. QED
  BY <1>1, <1>2, <1>3 DEF Departed

LEMMA InitDeparted == Init => Departed
<1> SUFFICES ASSUME Init PROVE Departed
  OBVIOUS
<1>1. at \in [Objects -> Paths \cup {Nowhere}]
  BY ConstantsAssumption DEF Init, ConstantsAssumption
<1>2. \A r \in Recoveries : ~Occupied(r)
  BY <1>1, ConstantsAssumption DEF Occupied, ConstantsAssumption
<1>3. \A p \in Procs : RestoreSeen(p)
  BY DEF Init, RestoreSeen
<1>4. QED
  BY <1>2, <1>3 DEF Init, NoEntries, WasRestored, Departed, BackMeansEmpty

\* What the journal calls restored has left quarantine for good: with any faults
\* while no two plans share a directory, and with shared ones while observations
\* do not fail.
THEOREM RestoredLeft ==
  ASSUME IOFaults => DistinctTargets
  PROVE  Spec => []RestoredMeansEmptySlot
<1>1. TypeOK /\ Consistent /\ Departed /\ [Next]_vars => Departed'
  BY StepDeparted
<1>2. Departed => RestoredMeansEmptySlot
  BY DEF Departed, Left, RestoredMeansEmptySlot
<1>3. QED
  BY <1>1, <1>2, InitDeparted, TypeCorrect, AlwaysConsistent, PTL DEF Spec

-----------------------------------------------------------------------------
(* Refinement. *)

LEMMA MoveCarries ==
  ASSUME TypeOK, OneDirectoryPerPlace, NEW from \in Paths \cup Recoveries,
         NEW to \in Paths \cup Recoveries, CanMove(from, to), Move(from, to)
  PROVE  Promise!Carry(from, to)
<1>1. from # Nowhere
  BY ConstantsAssumption DEF ConstantsAssumption
<1>2. PICK o \in Objects : at[o] = from
  BY DEF CanMove, Occupied
<1>3. \A n \in Objects : at[n] = from => n = o
  BY <1>1, <1>2 DEF OneDirectoryPerPlace
<1>4. at' = [at EXCEPT ![o] = to]
  BY <1>2, <1>3 DEF Move, TypeOK, SharedTypeOK
<1>5. QED
  BY <1>2, <1>4 DEF CanMove, Occupied, Promise!Carry, Promise!Free

\* A step of the engine is a step of ReversibleCleanup, or invisible to it.
LEMMA StepRefines ==
  ASSUME TypeOK, Consistent, [Next]_vars
  PROVE  [Promise!Next]_(Promise!vars)
<1> USE DEF Promise!vars, Phase
<1>1. CASE Quiet
  BY <1>1 DEF Quiet, Occupied
<1>2. CASE Tool
  <2>1. \A r \in Recoveries : Phase(r)' = Phase(r)
    BY <1>2, ToolKeepsSlots DEF Consistent
  <2>2. [r \in Recoveries |-> Phase(r)]' = [r \in Recoveries |-> Phase(r)]
    BY <2>1
  <2>3. QED
    BY <1>2, <2>2 DEF Tool, ToolCreates, ToolRemoves, Occupied, TypeOK, SharedTypeOK,
       Promise!Next, Promise!Creates, Promise!Removes, Promise!Free
<1>3. ASSUME NEW p \in Procs, Touches(p) PROVE [Promise!Next]_(Promise!vars)
  <2>1. CASE Claims(p) \/ Fills(p)
    BY <2>1 DEF Claims, Fills, Occupied
  <2>2. CASE Enters(p)
    <3>1. PICK r \in Recoveries : r = cur[p] /\ ~Entered(r)
      BY <2>2, EntersOccupies
    <3>2. Promise!Carry(home[r], r)
      BY <2>2, <3>1, MoveCarries, Separate DEF Enters, Consistent
    <3>3. [r1 \in Recoveries |-> Phase(r1)]' =
            [[r1 \in Recoveries |-> Phase(r1)] EXCEPT ![r] = "quarantined"]
      BY <2>2, <3>1, EntersOccupies DEF Enters
    <3>4. QED
      BY <3>1, <3>2, <3>3 DEF Entered, Promise!Next, Promise!Quarantine
  <2>3. CASE Leaves(p)
    <3>1. PICK r \in Recoveries : r = cur[p] /\ Occupied(r) /\ "RESTORING" \in journal[r].seen
      BY <2>3, LeavesEmpties
    <3>2. Promise!Carry(r, home[r])
      BY <2>3, <3>1, MoveCarries, Separate DEF Leaves, Consistent
    <3>3. [r1 \in Recoveries |-> Phase(r1)]' =
            [[r1 \in Recoveries |-> Phase(r1)] EXCEPT ![r] = "restored"]
      BY <2>3, <3>1, LeavesEmpties DEF Leaves
    <3>4. QED
      BY <3>1, <3>2, <3>3 DEF Promise!Next, Promise!Undo
  <2>4. ASSUME NEW s \in Status, Records(p, s) PROVE UNCHANGED Promise!vars
    <3>1. \A r \in Recoveries : Occupied(r)' <=> Occupied(r)
      BY <2>4 DEF Records, Occupied
    <3>2. ASSUME NEW r \in Recoveries PROVE Phase(r)' = Phase(r)
      <4>1. CASE r # cur[p]
        BY <2>4, <3>1, <4>1, RecordsAdds
      <4>2. CASE r = cur[p]
        <5>1. journal'[r].seen = journal[r].seen \cup {s}
          BY <2>4, <4>2, RecordsAdds
        <5>2. s = "RESTORING" => Occupied(r) \/ "RESTORING" \in journal[r].seen
          BY <2>4, <4>2 DEF Records, Justified, Entered
        <5>3. QED
          BY <3>1, <5>1, <5>2
      <4>3. QED
        BY <4>1, <4>2
    <3>3. QED
      BY <2>4, <3>2 DEF Records
  <2>5. QED
    BY <1>1, <1>3, <2>1, <2>2, <2>3, <2>4 DEF Touches
<1>4. QED
  BY <1>1, <1>2, <1>3, NextTouches

\* Journal, claims, reconciliation, crashes, faults and races amount to nothing
\* but the moves of ReversibleCleanup.
THEOREM Implements == Spec => KeepsPromise
<1>1. Init => Promise!Init
  <2> SUFFICES ASSUME Init PROVE Promise!Init
    OBVIOUS
  <2>1. at \in [Objects -> Paths \cup {Nowhere}]
    BY ConstantsAssumption DEF Init, ConstantsAssumption
  <2>2. \A r \in Recoveries : Phase(r) = "inPlace"
    <3>1. \A r \in Recoveries : ~Occupied(r)
      BY <2>1, ConstantsAssumption DEF Occupied, ConstantsAssumption
    <3>2. \A r \in Recoveries : journal[r].seen = {}
      BY DEF Init, NoEntries
    <3>3. QED
      BY <3>1, <3>2 DEF Phase
  <2>3. QED
    BY <2>1, <2>2, InitConsistent DEF Consistent, OneDirectoryPerPlace, Promise!Init
<1>2. TypeOK /\ Consistent /\ [Next]_vars => [Promise!Next]_(Promise!vars)
  BY StepRefines
<1>3. QED
  BY <1>1, <1>2, TypeCorrect, AlwaysConsistent, PTL DEF Spec, KeepsPromise, Promise!Spec

===============================================================================
