---------------------------- MODULE RecoveryProofs ----------------------------
(***************************************************************************)
(* What reconciliation and Undo may rely on while one process at a time    *)
(* uses the store.  No lock of the program keeps a second process out, and *)
(* two processes do break these properties; the hypotheses are named here  *)
(* and every theorem states the ones it needs.                             *)
(*                                                                         *)
(* The properties are proved from two inductive invariants.  Settled is    *)
(* about the journal: reconciliation works on a copy of it, so the         *)
(* invariant says how far that copy may differ from the file.  Grounded    *)
(* adds where the directories are.                                         *)
(***************************************************************************)
EXTENDS QuarantineProofs

\* One process at a time uses the store.
OneProcess == \A p, q \in Procs : p = q

\* The items of a plan have different original paths.  The planner lists the
\* eligible findings, and a path is a finding of the one eligible cleaner once.
DistinctHomes == \A plan \in Plans : \A r, s \in plan : home[r] = home[s] => r = s

-----------------------------------------------------------------------------
(* The journal and the copy of it that reconciliation works on. *)

\* Where a process is between reading the journal and the recovery gate, and
\* where it is when the gate has let its session through.
ClaimLoop    == {"orphans", "orphanClaimed", "orphanFailed"}
PendingLoop  == {"pending", "observe", "record"}
Reconciling  == ClaimLoop \cup PendingLoop \cup {"decide"}
ItemOwned    == {"claim"} \cup OwnerSteps
SessionSteps == {"revalidate", "item"} \cup ItemOwned

\* No lifecycle begins before its claim is recorded.
ClaimedFirst ==
  \A r \in Recoveries :
    journal[r].seen # {} => "AUTHORIZATION_CLAIMED" \in journal[r].seen

\* Nothing but a claim, and the failure that settled it, is recorded for r.
OnlyClaimed(r) == journal[r].seen \subseteq {"AUTHORIZATION_CLAIMED", "FAILED"}
\* Reconciliation has still to settle r.
Ahead(p, r) == r \in work[p] \/ (pc[p] \in {"observe", "record"} /\ r = cur[p])
\* The copy shows what the file says of r, or r is an orphan claim that this pass
\* has recorded: then the session does not start if r is an item of its plan.
Known(p, r) ==
  journal[r] = view[p][r] \/ (OnlyClaimed(r) /\ (r \in todo[p] => touched[p]))

\* The copy is read once and then follows what the pass records.  A record that
\* failed may be in the file and not in the copy: then the gate fails.
ViewTracks(p) ==
  /\ pc[p] = "claims" => view[p] = journal
  /\ pc[p] \in Reconciling =>
       \A r \in Recoveries : Known(p, r) \/ (bad[p] /\ ~Ahead(p, r))
  /\ bad[p] => pc[p] \in PendingLoop \cup {"decide"}

\* The claims still to journal have no record.  While the pass has journaled
\* none of this plan, every claim of the plan has a record or is still to come.
OrphansTracked(p) ==
  /\ pc[p] \in ClaimLoop => \A r \in work[p] : journal[r].seen = {}
  /\ pc[p] \in ClaimLoop \ {"orphans"} =>
       cur[p] \notin work[p] /\ (cur[p] \in todo[p] => touched[p])
  /\ pc[p] = "orphanClaimed" => journal[cur[p]].seen = {}
  /\ pc[p] = "orphanFailed" =>
       touched[p] /\ journal[cur[p]].seen = {"AUTHORIZATION_CLAIMED"}
  /\ pc[p] \in Reconciling /\ ~touched[p] =>
       \A r \in todo[p] : claim[r] = "written" =>
         \/ "AUTHORIZATION_CLAIMED" \in journal[r].seen
         \/ pc[p] \in ClaimLoop /\ r \in work[p]

\* The unfinished recoveries still to settle are the ones the copy shows.
PendingTracked(p) ==
  /\ pc[p] \in PendingLoop =>
       \A r \in Recoveries : Ahead(p, r) => view[p][r].last \in PendingStates
  /\ pc[p] = "observe" => view[p][cur[p]].last \in TransitionStates
  /\ pc[p] = "record" /\ view[p][cur[p]].last = "AUTHORIZATION_CLAIMED" =>
       verdict[p] = "FAILED"
  /\ pc[p] \in {"observe", "record"} => cur[p] \notin work[p]
  /\ pc[p] \in PendingLoop \cup {"decide"} /\ ~touched[p] /\ ~bad[p] =>
       \A r \in Recoveries :
         view[p][r].last \in PendingStates => pc[p] # "decide" /\ Ahead(p, r)

\* A process that quarantines an item owns the claim of a lifecycle that is open.
OwnerTracked(p) ==
  /\ pc[p] \in OwnerSteps => ~WasRestored(journal[cur[p]])
  /\ pc[p] \in {"fill", "appendClaimed"} => journal[cur[p]].seen = {}
  /\ pc[p] \in OwnerSteps \ {"fill", "appendClaimed"} =>
       "AUTHORIZATION_CLAIMED" \in journal[cur[p]].seen

\* Undo is at work on a recovery that was quarantined and is not restored yet.
RestoreTracked(p) ==
  /\ pc[p] \in RestoreSteps => WasQuarantined(journal[cur[p]])
  /\ pc[p] \in RestoreSteps \ {"appendRestoreCommitted"} => ~WasRestored(journal[cur[p]])

Tracked(p) ==
  /\ ViewTracks(p) /\ OrphansTracked(p) /\ PendingTracked(p)
  /\ OwnerTracked(p) /\ RestoreTracked(p)

\* The inductive invariant of the journal.
Settled ==
  /\ ClaimedFirst /\ RestoredIsTerminal /\ SessionStartsSettled
  /\ \A p \in Procs : Tracked(p)

-----------------------------------------------------------------------------
(* The directories. *)

\* A directory is at the original path of its item or in the slot of it.
Homebound ==
  \A o \in Objects :
    /\ at[o] \in Recoveries => target[at[o]] = o
    /\ at[o] \in Paths => \E r \in Recoveries : target[r] = o /\ home[r] = at[o]

\* What the journal says of r and where its directory is agree: a slot is filled
\* only after QUARANTINING, a quarantined payload is in its slot, and while a
\* move is under way it is in the slot, at its original path or gone.
Placed(r) ==
  /\ Occupied(r) => "QUARANTINING" \in journal[r].seen
  /\ journal[r].last \in {"NONE", "AUTHORIZATION_CLAIMED", "PLANNED"} =>
       "QUARANTINING" \notin journal[r].seen
  /\ "RESTORING" \in journal[r].seen => WasQuarantined(journal[r])
  /\ journal[r].last \in QuarantinedStates => at[target[r]] = r
  /\ journal[r].last \in RestoredStates => at[target[r]] # r
  /\ journal[r].last \in TransitionStates => at[target[r]] \in {r, home[r], Nowhere}

\* Where the directory of the item is as its quarantine proceeds.
OwnerPlaced(p) ==
  /\ pc[p] \in {"claim"} \cup BeforeMove => at[target[cur[p]]] \in {home[cur[p]], Nowhere}
  /\ pc[p] \in {"fill", "appendClaimed", "appendPlanned", "appendQuarantining"} =>
       "QUARANTINING" \notin journal[cur[p]].seen
  /\ pc[p] \in {"recheck", "rename"} => journal[cur[p]].last = "QUARANTINING"
  /\ pc[p] \in {"appendQuarantined", "appendCommitted"} => at[target[cur[p]]] = cur[p]
  /\ pc[p] = "appendFailed" => at[target[cur[p]]] # cur[p] \/ cur[p] \in missed

\* What reconciliation saw, and the verdict it takes from it, still hold when it
\* records the verdict.
VerdictPlaced(p) ==
  /\ (/\ pc[p] = "observe" /\ view[p][cur[p]].last = "QUARANTINING"
      /\ at[target[cur[p]]] = cur[p]) => observed[p] = "error"
  /\ pc[p] = "observe" /\ observed[p] = "match" => at[target[cur[p]]] # cur[p]
  /\ pc[p] = "record" =>
       /\ verdict[p] = "FAILED" /\ at[target[cur[p]]] = cur[p]
            => WasQuarantined(journal[cur[p]]) \/ cur[p] \in missed
       /\ verdict[p] = "QUARANTINE_COMMITTED_UNJOURNALED" => at[target[cur[p]]] = cur[p]
       /\ verdict[p] = "RESTORE_COMMITTED_UNJOURNALED" => at[target[cur[p]]] # cur[p]

\* Until Undo has moved the payload back it is in its slot, and then it is not.
RestorePlaced(p) ==
  /\ pc[p] \in {"appendRestoring", "renameBack"} => at[target[cur[p]]] = cur[p]
  /\ pc[p] \in {"appendRestored", "appendRestoreCommitted"} => at[target[cur[p]]] # cur[p]
  /\ pc[p] = "renameBack" => journal[cur[p]].last = "RESTORING"

\* No other item of the session, and no move under way, has the same original path.
SessionApart(p) ==
  /\ pc[p] \in SessionSteps => op[p] = "execute"
  /\ op[p] = "execute" => \A s, t \in todo[p] : home[s] = home[t] => s = t
  /\ pc[p] \in ItemOwned => \A s \in todo[p] : home[s] # home[cur[p]]
  /\ pc[p] \in SessionSteps =>
       \A r \in Recoveries : journal[r].last \in TransitionStates =>
         /\ \A s \in todo[p] : home[s] # home[r]
         /\ pc[p] \in ItemOwned /\ r # cur[p] => home[r] # home[cur[p]]

\* The three parts that speak of the file and the directories alone.
DiskGrounded == Homebound /\ StrandedOnlyUnseen /\ \A r \in Recoveries : Placed(r)

\* The parts that speak of what a process has in memory.
ProcessGrounded(p) ==
  OwnerPlaced(p) /\ VerdictPlaced(p) /\ RestorePlaced(p) /\ SessionApart(p)

\* The inductive invariant of the last two theorems.
Grounded == DiskGrounded /\ \A p \in Procs : ProcessGrounded(p)

-----------------------------------------------------------------------------

\* The journal gains the record s of r.
Recorded(r, s) == journal' = [journal EXCEPT ![r] = With(@, s)]

LEMMA AppendOutcome ==
  ASSUME NEW p, NEW r, NEW s, Append(p, r, s) \/ AppendFails(p, r, s)
  PROVE  UNCHANGED journal \/ Recorded(r, s)
  BY DEF Append, AppendFails, Recorded

LEMMA RecordedIs ==
  ASSUME TypeOK, NEW r \in Recoveries, NEW s, Recorded(r, s)
  PROVE  /\ journal'[r] = With(journal[r], s)
         /\ journal'[r].last = s
         /\ journal'[r].seen = journal[r].seen \cup {s}
         /\ \A t \in Recoveries \ {r} : journal'[t] = journal[t]
  BY DEF Recorded, With, TypeOK, SharedTypeOK

LEMMA RecordKeeps ==
  ASSUME TypeOK, ClaimedFirst, RestoredIsTerminal, NEW r \in Recoveries, NEW s \in Status,
         UNCHANGED journal \/ Recorded(r, s),
         s = "AUTHORIZATION_CLAIMED" \/ "AUTHORIZATION_CLAIMED" \in journal[r].seen,
         WasRestored(journal[r]) => s \in RestoredStates
  PROVE  ClaimedFirst' /\ RestoredIsTerminal'
<1>1. CASE UNCHANGED journal
  BY <1>1 DEF ClaimedFirst, RestoredIsTerminal, WasRestored
<1>2. CASE Recorded(r, s)
  <2>1. \A t \in Recoveries :
          journal'[t].seen # {} => "AUTHORIZATION_CLAIMED" \in journal'[t].seen
    BY <1>2, RecordedIs DEF ClaimedFirst
  <2>2. \A t \in Recoveries : WasRestored(journal'[t]) => journal'[t].last \in RestoredStates
    BY <1>2, RecordedIs DEF RestoredIsTerminal, WasRestored
  <2>3. QED
    BY <2>1, <2>2 DEF ClaimedFirst, RestoredIsTerminal, WasRestored
<1>3. QED
  BY <1>1, <1>2

\* Reconciliation's copy of the journal follows the record.
LEMMA NotedView ==
  ASSUME TypeOK, NEW p \in Procs, cur[p] \in Recoveries, NEW s, Noted(p, s)
  PROVE  /\ view'[p][cur[p]] = With(view[p][cur[p]], s)
         /\ \A t \in Recoveries \ {cur[p]} : view'[p][t] = view[p][t]
         /\ touched'[p]
<1>1. view' = [view EXCEPT ![p] = [view[p] EXCEPT ![cur[p]] = With(@, s)]]
  BY DEF Noted
<1>2. view'[p] = [view[p] EXCEPT ![cur[p]] = With(@, s)] /\ view[p] \in [Recoveries -> Lifecycle]
  BY <1>1 DEF TypeOK, LocalTypeOK
<1>3. QED
  BY <1>2 DEF Noted, TypeOK, LocalTypeOK

\* Steps at which little is tracked.
LEMMA Untracked ==
  ASSUME NEW p \in Procs, ~bad'[p],
         pc'[p] \in {"idle", "inventory", "scan", "reread", "revalidate", "item", "claim"}
  PROVE  Tracked(p)'
  BY DEF Tracked, ViewTracks, OrphansTracked, PendingTracked, OwnerTracked, RestoreTracked,
     Reconciling, ClaimLoop, PendingLoop, OwnerSteps, QuarantineAppends, RestoreSteps,
     RestoreAppends

LEMMA OwnerOnly ==
  ASSUME NEW p \in Procs, ~bad'[p], pc'[p] \in OwnerSteps, OwnerTracked(p)'
  PROVE  Tracked(p)'
  BY DEF Tracked, ViewTracks, OrphansTracked, PendingTracked, RestoreTracked,
     Reconciling, ClaimLoop, PendingLoop, OwnerSteps, QuarantineAppends, RestoreSteps,
     RestoreAppends

LEMMA RestoreOnly ==
  ASSUME NEW p \in Procs, ~bad'[p], pc'[p] \in RestoreSteps, RestoreTracked(p)'
  PROVE  Tracked(p)'
  BY DEF Tracked, ViewTracks, OrphansTracked, PendingTracked, OwnerTracked,
     Reconciling, ClaimLoop, PendingLoop, OwnerSteps, QuarantineAppends, RestoreSteps,
     RestoreAppends

LEMMA FinishUntracked ==
  ASSUME TypeOK, NEW p \in Procs, Finish(p)
  PROVE  Tracked(p)' /\ pc'[p] = "idle"
  BY Untracked DEF Finish, TypeOK, LocalTypeOK

\* With one process, what holds of the one that moves holds of all.
LEMMA MoverSuffices ==
  ASSUME OneProcess, NEW p \in Procs, ClaimedFirst', RestoredIsTerminal', Tracked(p)',
         pc'[p] # "revalidate"
  PROVE  Settled'
  BY DEF OneProcess, Settled, SessionStartsSettled

LEMMA JournalUnchanged ==
  ASSUME Settled, UNCHANGED journal
  PROVE  ClaimedFirst' /\ RestoredIsTerminal'
  BY DEF Settled, ClaimedFirst, RestoredIsTerminal, WasRestored

-----------------------------------------------------------------------------
(* Settled, action by action. *)

LEMMA SettledReconcile ==
  ASSUME OneProcess, TypeOK, Consistent, Settled, NEW p \in Procs, Reconcile(p)
  PROVE  Settled'
<1> USE DEF ClaimLoop, PendingLoop, Reconciling
<1>a. Tracked(p)
  BY DEF Settled
<1>b. bad[p] => pc[p] \in PendingLoop \cup {"decide"}
  BY <1>a DEF Tracked, ViewTracks
<1>1. CASE Inventory(p)
  <2>1. UNCHANGED <<journal>>
    BY <1>1 DEF Inventory, disk
  <2>2. Tracked(p)' /\ pc'[p] # "revalidate"
    BY <1>1, <1>b, Untracked, FinishUntracked DEF Inventory, Goto, TypeOK, LocalTypeOK
  <2>3. QED
    BY <2>1, <2>2, JournalUnchanged, MoverSuffices
<1>2. CASE Scan(p)
  <2>1. UNCHANGED <<journal>>
    BY <1>2 DEF Scan, disk
  <2>2. Tracked(p)' /\ pc'[p] # "revalidate"
    BY <1>2, <1>b, Untracked, FinishUntracked DEF Scan, Goto, TypeOK, LocalTypeOK
  <2>3. QED
    BY <2>1, <2>2, JournalUnchanged, MoverSuffices
<1>3. CASE Reread(p)
  <2>1. UNCHANGED <<journal>>
    BY <1>3 DEF Reread, disk
  <2>2. CASE Finish(p)
    BY <2>1, <2>2, FinishUntracked, JournalUnchanged, MoverSuffices
  <2>3. CASE ~Finish(p)
    <3>1. /\ pc'[p] = "claims" /\ view'[p] = journal /\ bad'[p] = bad[p]
      BY <1>3, <2>3 DEF Reread, Goto, TypeOK, LocalTypeOK
    <3>2. Tracked(p)'
      BY <1>3, <1>b, <2>1, <3>1
         DEF Reread, Tracked, ViewTracks, OrphansTracked, PendingTracked, OwnerTracked,
             RestoreTracked, OwnerSteps, QuarantineAppends, RestoreSteps, RestoreAppends
    <3>3. QED
      BY <2>1, <3>1, <3>2, JournalUnchanged, MoverSuffices
  <2>4. QED
    BY <2>2, <2>3
<1>4. CASE ReadClaims(p)
  <2>1. UNCHANGED <<journal, claim>>
    BY <1>4 DEF ReadClaims, disk
  <2>2. CASE Finish(p)
    BY <2>1, <2>2, FinishUntracked, JournalUnchanged, MoverSuffices
  <2>3. CASE ~Finish(p)
    <3>1. /\ pc'[p] = "orphans"
          /\ view'[p] = view[p] /\ bad'[p] = bad[p]
          /\ todo'[p] = todo[p] /\ touched'[p] = touched[p]
      BY <1>4, <2>3 DEF ReadClaims, Goto, TypeOK, LocalTypeOK
    <3>2. work'[p] = {r \in Recoveries : /\ claim[r] = "written"
                                         /\ "AUTHORIZATION_CLAIMED" \notin view[p][r].seen}
      BY <1>4, <2>3 DEF ReadClaims, TypeOK, LocalTypeOK
    <3>3. view[p] = journal /\ ~bad[p]
      BY <1>4, <1>a, <1>b DEF ReadClaims, Tracked, ViewTracks
    <3>4. ViewTracks(p)'
      BY <2>1, <3>1, <3>3 DEF ViewTracks, Known
    <3>5. OrphansTracked(p)'
      <4>1. \A r \in work'[p] : journal[r].seen = {}
        BY <3>2, <3>3 DEF Settled, ClaimedFirst
      <4>2. \A r \in todo[p] : claim[r] = "written" =>
              "AUTHORIZATION_CLAIMED" \in journal[r].seen \/ r \in work'[p]
        BY <3>2, <3>3 DEF TypeOK, LocalTypeOK
      <4>3. QED
        BY <2>1, <3>1, <4>1, <4>2 DEF OrphansTracked
    <3>6. Tracked(p)'
      BY <3>1, <3>4, <3>5
         DEF Tracked, PendingTracked, OwnerTracked, RestoreTracked, OwnerSteps,
             QuarantineAppends, RestoreSteps, RestoreAppends
    <3>7. QED
      BY <2>1, <3>1, <3>6, JournalUnchanged, MoverSuffices
  <2>4. QED
    BY <2>2, <2>3
<1>5. CASE NextOrphan(p)
  <2>1. UNCHANGED <<journal, claim>>
    BY <1>5 DEF NextOrphan, disk
  <2>2. PICK r \in work[p] :
          /\ cur' = [cur EXCEPT ![p] = r]
          /\ work' = [work EXCEPT ![p] = @ \ {r}]
          /\ touched' = [touched EXCEPT ![p] = @ \/ r \in todo[p]]
    BY <1>5 DEF NextOrphan
  <2>3. /\ pc[p] = "orphans" /\ pc'[p] = "orphanClaimed"
        /\ cur'[p] = r /\ work'[p] = work[p] \ {r}
        /\ touched'[p] = (touched[p] \/ r \in todo[p])
        /\ view'[p] = view[p] /\ bad'[p] = bad[p] /\ todo'[p] = todo[p]
    BY <1>5, <2>2 DEF NextOrphan, Goto, TypeOK, LocalTypeOK
  <2>4. ViewTracks(p)'
    <3>1. \A t \in Recoveries : Known(p, t)
      BY <1>a, <1>b, <2>3 DEF Tracked, ViewTracks
    <3>2. \A t \in Recoveries : Known(p, t)'
      BY <2>1, <2>3, <3>1 DEF Known, OnlyClaimed
    <3>3. QED
      BY <1>b, <2>3, <3>2 DEF ViewTracks
  <2>5. OrphansTracked(p)'
    BY <1>a, <2>1, <2>3 DEF Tracked, OrphansTracked
  <2>6. Tracked(p)'
    BY <2>3, <2>4, <2>5
       DEF Tracked, PendingTracked, OwnerTracked, RestoreTracked, OwnerSteps,
           QuarantineAppends, RestoreSteps, RestoreAppends
  <2>7. QED
    BY <2>1, <2>3, <2>6, JournalUnchanged, MoverSuffices
<1>6. CASE RecordOrphanClaimed(p)
  <2>1. /\ cur[p] \in Recoveries /\ pc[p] = "orphanClaimed"
        /\ journal[cur[p]].seen = {} /\ cur[p] \notin work[p]
        /\ cur[p] \in todo[p] => touched[p]
        /\ ~bad[p]
    BY <1>6, <1>a, <1>b
       DEF RecordOrphanClaimed, Tracked, OrphansTracked, TypeOK, ItemTypeOK, ItemSteps
  <2>2. /\ claim' = claim /\ cur'[p] = cur[p] /\ work'[p] = work[p]
        /\ bad'[p] = bad[p] /\ todo'[p] = todo[p]
    BY <1>6 DEF RecordOrphanClaimed
  <2>3. \A t \in Recoveries : Known(p, t)
    BY <1>a, <2>1 DEF Tracked, ViewTracks
  <2>4. ClaimedFirst' /\ RestoredIsTerminal'
    <3>1. UNCHANGED journal \/ Recorded(cur[p], "AUTHORIZATION_CLAIMED")
      BY <1>6, AppendOutcome DEF RecordOrphanClaimed
    <3>2. QED
      BY <2>1, <3>1, RecordKeeps DEF Settled, WasRestored, Status
  <2>5. CASE /\ Append(p, cur[p], "AUTHORIZATION_CLAIMED")
             /\ Noted(p, "AUTHORIZATION_CLAIMED")
             /\ Goto(p, "orphanFailed")
    <3>1. Recorded(cur[p], "AUTHORIZATION_CLAIMED")
      BY <2>5 DEF Append, Recorded
    <3>2. /\ pc'[p] = "orphanFailed" /\ touched'[p]
          /\ view'[p][cur[p]] = With(view[p][cur[p]], "AUTHORIZATION_CLAIMED")
          /\ \A t \in Recoveries \ {cur[p]} : view'[p][t] = view[p][t]
      BY <2>1, <2>5, NotedView DEF Goto, TypeOK, LocalTypeOK
    <3>3. \A t \in Recoveries : Known(p, t)'
      <4>1. ASSUME NEW t \in Recoveries PROVE Known(p, t)'
        <5>1. CASE t = cur[p]
          BY <2>1, <2>2, <3>1, <3>2, <5>1, RecordedIs DEF Known, OnlyClaimed
        <5>2. CASE t # cur[p]
          BY <2>1, <2>2, <2>3, <3>1, <3>2, <5>2, RecordedIs DEF Known, OnlyClaimed
        <5>3. QED
          BY <5>1, <5>2
      <4>2. QED
        BY <4>1
    <3>4. OrphansTracked(p)'
      <4>1. \A r \in work[p] : journal'[r].seen = {}
        BY <1>a, <2>1, <3>1, RecordedIs DEF Tracked, OrphansTracked, TypeOK, LocalTypeOK
      <4>2. journal'[cur[p]].seen = {"AUTHORIZATION_CLAIMED"}
        BY <2>1, <3>1, RecordedIs
      <4>3. QED
        BY <2>1, <2>2, <3>2, <4>1, <4>2 DEF OrphansTracked
    <3>5. Tracked(p)'
      BY <2>1, <2>2, <3>2, <3>3, <3>4
         DEF Tracked, ViewTracks, PendingTracked, OwnerTracked, RestoreTracked, OwnerSteps,
             QuarantineAppends, RestoreSteps, RestoreAppends
    <3>6. QED
      BY <2>4, <3>2, <3>5, MoverSuffices
  <2>6. CASE /\ AppendFails(p, cur[p], "AUTHORIZATION_CLAIMED")
             /\ Goto(p, "orphans")
             /\ UNCHANGED <<view, touched>>
    <3>1. UNCHANGED journal \/ Recorded(cur[p], "AUTHORIZATION_CLAIMED")
      BY <2>6, AppendOutcome
    <3>2. pc'[p] = "orphans" /\ view' = view /\ touched' = touched
      BY <2>6 DEF Goto, TypeOK, LocalTypeOK
    <3>3. \A t \in Recoveries : Known(p, t)'
      <4>1. ASSUME NEW t \in Recoveries PROVE Known(p, t)'
        <5>1. CASE t = cur[p]
          BY <2>1, <2>2, <2>3, <3>1, <3>2, <5>1, RecordedIs DEF Known, OnlyClaimed
        <5>2. CASE t # cur[p]
          BY <2>1, <2>2, <2>3, <3>1, <3>2, <5>2, RecordedIs DEF Known, OnlyClaimed
        <5>3. QED
          BY <5>1, <5>2
      <4>2. QED
        BY <4>1
    <3>4. OrphansTracked(p)'
      <4>1. \A r \in work[p] : journal'[r].seen = {}
        BY <1>a, <2>1, <3>1, RecordedIs DEF Tracked, OrphansTracked, TypeOK, LocalTypeOK
      <4>2. \A r \in Recoveries : journal[r].seen \subseteq journal'[r].seen
        BY <2>1, <3>1, RecordedIs
      <4>3. QED
        BY <1>a, <2>1, <2>2, <3>2, <4>1, <4>2
           DEF Tracked, OrphansTracked, TypeOK, LocalTypeOK
    <3>5. Tracked(p)'
      BY <2>1, <2>2, <3>2, <3>3, <3>4
         DEF Tracked, ViewTracks, PendingTracked, OwnerTracked, RestoreTracked, OwnerSteps,
             QuarantineAppends, RestoreSteps, RestoreAppends
    <3>6. QED
      BY <2>4, <3>2, <3>5, MoverSuffices
  <2>7. QED
    BY <1>6, <2>5, <2>6 DEF RecordOrphanClaimed
<1>7. CASE RecordOrphanFailed(p)
  <2>1. /\ cur[p] \in Recoveries /\ pc[p] = "orphanFailed"
        /\ journal[cur[p]].seen = {"AUTHORIZATION_CLAIMED"} /\ cur[p] \notin work[p]
        /\ touched[p] /\ ~bad[p]
    BY <1>7, <1>a, <1>b
       DEF RecordOrphanFailed, Tracked, OrphansTracked, TypeOK, ItemTypeOK, ItemSteps
  <2>2. /\ claim' = claim /\ cur'[p] = cur[p] /\ work'[p] = work[p]
        /\ bad'[p] = bad[p] /\ todo'[p] = todo[p] /\ pc'[p] = "orphans"
    BY <1>7 DEF RecordOrphanFailed, Goto, TypeOK, LocalTypeOK
  <2>3. \A t \in Recoveries : Known(p, t)
    BY <1>a, <2>1 DEF Tracked, ViewTracks
  <2>4. UNCHANGED journal \/ Recorded(cur[p], "FAILED")
    BY <1>7, AppendOutcome DEF RecordOrphanFailed
  <2>5. ClaimedFirst' /\ RestoredIsTerminal'
    BY <2>1, <2>4, RecordKeeps DEF Settled, WasRestored, RestoredStates, Status
  <2>6. /\ touched'[p]
        /\ \A t \in Recoveries \ {cur[p]} : view'[p][t] = view[p][t]
    BY <1>7, <2>1, NotedView DEF RecordOrphanFailed
  <2>7. \A t \in Recoveries : Known(p, t)'
    <3>1. ASSUME NEW t \in Recoveries PROVE Known(p, t)'
      <4>1. CASE t = cur[p]
        <5>1. OnlyClaimed(t)'
          BY <2>1, <2>4, <4>1, RecordedIs DEF OnlyClaimed
        <5>2. QED
          BY <2>6, <5>1 DEF Known
      <4>2. CASE t # cur[p]
        BY <2>1, <2>2, <2>3, <2>4, <2>6, <4>2, RecordedIs DEF Known, OnlyClaimed
      <4>3. QED
        BY <4>1, <4>2
    <3>2. QED
      BY <3>1
  <2>8. OrphansTracked(p)'
    <3>1. \A r \in work[p] : journal'[r].seen = {}
      BY <1>a, <2>1, <2>4, RecordedIs DEF Tracked, OrphansTracked, TypeOK, LocalTypeOK
    <3>2. QED
      BY <2>2, <2>6, <3>1 DEF OrphansTracked
  <2>9. Tracked(p)'
    BY <2>1, <2>2, <2>7, <2>8
       DEF Tracked, ViewTracks, PendingTracked, OwnerTracked, RestoreTracked, OwnerSteps,
           QuarantineAppends, RestoreSteps, RestoreAppends
  <2>10. QED
    BY <2>2, <2>5, <2>9, MoverSuffices
<1>8. CASE OrphansDone(p)
  <2>1. UNCHANGED <<journal, claim>>
    BY <1>8 DEF OrphansDone, disk
  <2>2. /\ pc[p] = "orphans" /\ work[p] = {} /\ pc'[p] = "pending"
        /\ work'[p] = {r \in Recoveries : view[p][r].last \in PendingStates}
        /\ view'[p] = view[p] /\ bad'[p] = bad[p] /\ todo'[p] = todo[p]
        /\ touched'[p] = touched[p] /\ cur'[p] = cur[p]
    BY <1>8 DEF OrphansDone, Goto, TypeOK, LocalTypeOK
  <2>3. \A t \in Recoveries : Known(p, t)'
    <3>1. \A t \in Recoveries : Known(p, t)
      BY <1>a, <1>b, <2>2 DEF Tracked, ViewTracks
    <3>2. QED
      BY <2>1, <2>2, <3>1 DEF Known, OnlyClaimed
  <2>4. ViewTracks(p)'
    BY <1>b, <2>2, <2>3 DEF ViewTracks
  <2>5. OrphansTracked(p)'
    BY <1>a, <2>1, <2>2 DEF Tracked, OrphansTracked
  <2>6. PendingTracked(p)'
    BY <2>2 DEF PendingTracked, Ahead
  <2>7. Tracked(p)'
    BY <2>2, <2>4, <2>5, <2>6
       DEF Tracked, OwnerTracked, RestoreTracked, OwnerSteps, QuarantineAppends,
           RestoreSteps, RestoreAppends
  <2>8. QED
    BY <2>1, <2>2, <2>7, JournalUnchanged, MoverSuffices
<1>9. CASE NextPending(p)
  <2>1. UNCHANGED <<journal, claim>>
    BY <1>9 DEF NextPending, disk
  <2>2. PICK r \in work[p] :
          /\ cur' = [cur EXCEPT ![p] = r]
          /\ work' = [work EXCEPT ![p] = @ \ {r}]
          /\ \/ /\ view[p][r].last = "AUTHORIZATION_CLAIMED"
                /\ verdict' = [verdict EXCEPT ![p] = "FAILED"]
                /\ Goto(p, "record")
             \/ view[p][r].last # "AUTHORIZATION_CLAIMED" /\ Goto(p, "observe")
    BY <1>9 DEF NextPending
  <2>3. /\ pc[p] = "pending" /\ pc'[p] \in {"observe", "record"}
        /\ pc'[p] = "observe" => view[p][r].last # "AUTHORIZATION_CLAIMED"
        /\ pc'[p] = "record" => verdict'[p] = "FAILED"
        /\ cur'[p] = r /\ work'[p] = work[p] \ {r}
        /\ view'[p] = view[p] /\ bad'[p] = bad[p] /\ todo'[p] = todo[p]
        /\ touched'[p] = touched[p]
    BY <1>9, <2>2 DEF NextPending, Goto, TypeOK, LocalTypeOK
  <2>4. r \in Recoveries /\ \A t \in Recoveries : Ahead(p, t)' <=> Ahead(p, t)
    BY <2>3 DEF Ahead, TypeOK, LocalTypeOK
  <2>5. ViewTracks(p)'
    <3>1. \A t \in Recoveries : Known(p, t) \/ (bad[p] /\ ~Ahead(p, t))
      BY <1>a, <2>3 DEF Tracked, ViewTracks
    <3>2. \A t \in Recoveries : Known(p, t)' \/ (bad'[p] /\ ~Ahead(p, t)')
      BY <2>1, <2>3, <2>4, <3>1 DEF Known, OnlyClaimed
    <3>3. QED
      BY <2>3, <3>2 DEF ViewTracks
  <2>6. OrphansTracked(p)'
    BY <1>a, <2>1, <2>3 DEF Tracked, OrphansTracked
  <2>7. PendingTracked(p)'
    <3>1. view[p][r].last \in PendingStates
      BY <1>a, <2>3, <2>4 DEF Tracked, PendingTracked, Ahead
    <3>2. pc'[p] = "observe" => view[p][r].last \in TransitionStates
      BY <2>3, <3>1 DEF PendingStates
    <3>3. QED
      BY <1>a, <2>3, <2>4, <3>2 DEF Tracked, PendingTracked
  <2>8. Tracked(p)'
    BY <2>3, <2>5, <2>6, <2>7
       DEF Tracked, OwnerTracked, RestoreTracked, OwnerSteps, QuarantineAppends,
           RestoreSteps, RestoreAppends
  <2>9. QED
    BY <2>1, <2>3, <2>8, JournalUnchanged, MoverSuffices
<1>10. CASE ObserveSlot(p)
  <2>1. UNCHANGED <<journal, claim>>
    BY <1>10 DEF ObserveSlot
  <2>2. /\ pc[p] = "observe" /\ pc'[p] = "record"
        /\ cur'[p] = cur[p] /\ work'[p] = work[p]
        /\ view'[p] = view[p] /\ bad'[p] = bad[p] /\ todo'[p] = todo[p]
        /\ touched'[p] = touched[p]
    BY <1>10 DEF ObserveSlot, Goto, TypeOK, LocalTypeOK
  <2>3. \A t \in Recoveries : Ahead(p, t)' <=> Ahead(p, t)
    BY <2>2 DEF Ahead
  <2>4. ViewTracks(p)'
    <3>1. \A t \in Recoveries : Known(p, t) \/ (bad[p] /\ ~Ahead(p, t))
      BY <1>a, <2>2 DEF Tracked, ViewTracks
    <3>2. \A t \in Recoveries : Known(p, t)' \/ (bad'[p] /\ ~Ahead(p, t)')
      BY <2>1, <2>2, <2>3, <3>1 DEF Known, OnlyClaimed
    <3>3. QED
      BY <2>2, <3>2 DEF ViewTracks
  <2>5. OrphansTracked(p)'
    BY <1>a, <2>1, <2>2 DEF Tracked, OrphansTracked
  <2>6. PendingTracked(p)'
    BY <1>a, <2>2, <2>3 DEF Tracked, PendingTracked, TransitionStates
  <2>7. Tracked(p)'
    BY <2>2, <2>4, <2>5, <2>6
       DEF Tracked, OwnerTracked, RestoreTracked, OwnerSteps, QuarantineAppends,
           RestoreSteps, RestoreAppends
  <2>8. QED
    BY <2>1, <2>2, <2>7, JournalUnchanged, MoverSuffices
<1>11. CASE RecordVerdict(p)
  <2>1. /\ cur[p] \in Recoveries /\ pc[p] = "record" /\ verdict[p] \in Status
        /\ cur[p] \notin work[p] /\ view[p][cur[p]].last \in PendingStates
    BY <1>11, <1>a
       DEF RecordVerdict, Tracked, PendingTracked, Ahead, TypeOK, ItemTypeOK, ItemSteps
  <2>2. /\ claim' = claim /\ cur'[p] = cur[p] /\ work'[p] = work[p]
        /\ todo'[p] = todo[p] /\ pc'[p] = "pending"
    BY <1>11 DEF RecordVerdict, Goto, TypeOK, LocalTypeOK
  <2>3. UNCHANGED journal \/ Recorded(cur[p], verdict[p])
    BY <1>11, AppendOutcome DEF RecordVerdict
  <2>4. Known(p, cur[p])
    BY <1>a, <2>1 DEF Tracked, ViewTracks, Ahead
  <2>5. /\ "AUTHORIZATION_CLAIMED" \in journal[cur[p]].seen
        /\ ~WasRestored(journal[cur[p]])
    <3>1. /\ view[p][cur[p]].seen \subseteq journal[cur[p]].seen
          /\ view[p][cur[p]].last \in view[p][cur[p]].seen \cup {"NONE"}
      BY <2>1 DEF Consistent, ProcessInOrder, MemoryCurrent
    <3>2. "AUTHORIZATION_CLAIMED" \in journal[cur[p]].seen
      BY <2>1, <3>1 DEF PendingStates, TransitionStates, Settled, ClaimedFirst
    <3>3. journal[cur[p]] = view[p][cur[p]] => ~WasRestored(journal[cur[p]])
      BY <2>1 DEF Settled, RestoredIsTerminal, PendingStates, TransitionStates, RestoredStates
    <3>4. OnlyClaimed(cur[p]) => ~WasRestored(journal[cur[p]])
      BY DEF OnlyClaimed, WasRestored, RestoredStates
    <3>5. QED
      BY <2>4, <3>2, <3>3, <3>4 DEF Known
  <2>6. ClaimedFirst' /\ RestoredIsTerminal'
    BY <2>1, <2>3, <2>5, RecordKeeps DEF Settled
  <2>7. \A t \in Recoveries : Ahead(p, t)' <=> Ahead(p, t) /\ t # cur[p]
    BY <2>1, <2>2 DEF Ahead
  <2>8. /\ touched[p] => touched'[p]
        /\ bad[p] => bad'[p]
        /\ touched'[p] \/ bad'[p]
        /\ \A t \in Recoveries \ {cur[p]} : view'[p][t] = view[p][t]
    BY <1>11, <2>1, NotedView DEF RecordVerdict, TypeOK, LocalTypeOK
  <2>9. ViewTracks(p)'
    <3>1. ASSUME NEW t \in Recoveries \ {cur[p]}
          PROVE  Known(p, t)' \/ (bad'[p] /\ ~Ahead(p, t)')
      <4>1. journal'[t] = journal[t]
        BY <2>1, <2>3, RecordedIs
      <4>2. Known(p, t) \/ (bad[p] /\ ~Ahead(p, t))
        BY <1>a, <2>1 DEF Tracked, ViewTracks
      <4>3. Known(p, t) => Known(p, t)'
        BY <2>2, <2>8, <4>1 DEF Known, OnlyClaimed
      <4>4. QED
        BY <2>7, <2>8, <4>2, <4>3
    <3>2. Known(p, cur[p])' \/ (bad'[p] /\ ~Ahead(p, cur[p])')
      <4>1. CASE Append(p, cur[p], verdict[p]) /\ Noted(p, verdict[p])
        <5>1. Recorded(cur[p], verdict[p])
          BY <4>1 DEF Append, Recorded
        <5>2. view'[p][cur[p]] = With(view[p][cur[p]], verdict[p])
          BY <2>1, <4>1, NotedView
        <5>3. CASE journal[cur[p]] = view[p][cur[p]]
          BY <2>1, <2>2, <5>1, <5>2, <5>3, RecordedIs DEF Known
        <5>4. CASE bad[p]
          BY <2>1, <2>2, <2>7, <2>8, <5>4
        <5>5. CASE journal[cur[p]] # view[p][cur[p]] /\ ~bad[p]
          <6>1. OnlyClaimed(cur[p]) /\ touched'[p]
            BY <2>1, <2>4, <4>1, <5>5, NotedView DEF Known
          <6>2. view[p][cur[p]].last = "AUTHORIZATION_CLAIMED"
            BY <2>1, <6>1 DEF Consistent, ProcessInOrder, MemoryCurrent, OnlyClaimed,
               PendingStates, TransitionStates
          <6>3. verdict[p] = "FAILED"
            BY <1>a, <2>1, <6>2 DEF Tracked, PendingTracked
          <6>4. OnlyClaimed(cur[p])'
            BY <2>1, <2>2, <5>1, <6>1, <6>3, RecordedIs DEF OnlyClaimed
          <6>5. QED
            BY <2>2, <6>1, <6>4 DEF Known
        <5>6. QED
          BY <5>3, <5>4, <5>5
      <4>2. CASE bad'[p]
        BY <2>1, <2>2, <2>7, <4>2
      <4>3. QED
        BY <1>11, <4>1, <4>2 DEF RecordVerdict, TypeOK, LocalTypeOK
    <3>3. QED
      BY <2>2, <3>1, <3>2 DEF ViewTracks
  <2>10. OrphansTracked(p)'
    <3>1. \A r \in Recoveries : journal[r].seen \subseteq journal'[r].seen
      BY <2>1, <2>3, RecordedIs
    <3>2. QED
      BY <1>a, <2>1, <2>2, <2>8, <3>1
         DEF Tracked, OrphansTracked, TypeOK, LocalTypeOK
  <2>11. PendingTracked(p)'
    <3>1. \A t \in Recoveries : Ahead(p, t)' => view'[p][t].last \in PendingStates
      BY <1>a, <2>1, <2>7, <2>8 DEF Tracked, PendingTracked
    <3>2. QED
      BY <2>2, <2>8, <3>1 DEF PendingTracked
  <2>12. Tracked(p)'
    BY <2>2, <2>9, <2>10, <2>11, <2>8
       DEF Tracked, OwnerTracked, RestoreTracked, OwnerSteps, QuarantineAppends,
           RestoreSteps, RestoreAppends
  <2>13. QED
    BY <2>2, <2>6, <2>12, MoverSuffices
<1>12. CASE PendingDone(p)
  <2>1. UNCHANGED <<journal, claim>>
    BY <1>12 DEF PendingDone, disk
  <2>2. /\ pc[p] = "pending" /\ pc'[p] = "decide" /\ work[p] = {} /\ work'[p] = {}
        /\ view'[p] = view[p] /\ bad'[p] = bad[p] /\ todo'[p] = todo[p]
        /\ touched'[p] = touched[p]
    BY <1>12 DEF PendingDone, Goto, TypeOK, LocalTypeOK
  <2>3. \A t \in Recoveries : ~Ahead(p, t) /\ ~Ahead(p, t)'
    BY <2>2 DEF Ahead
  <2>4. ViewTracks(p)'
    <3>1. \A t \in Recoveries : Known(p, t) \/ bad[p]
      BY <1>a, <2>2 DEF Tracked, ViewTracks
    <3>2. \A t \in Recoveries : Known(p, t)' \/ bad'[p]
      BY <2>1, <2>2, <3>1 DEF Known, OnlyClaimed
    <3>3. QED
      BY <2>2, <2>3, <3>2 DEF ViewTracks
  <2>5. OrphansTracked(p)'
    BY <1>a, <2>1, <2>2 DEF Tracked, OrphansTracked
  <2>6. PendingTracked(p)'
    BY <1>a, <2>2, <2>3 DEF Tracked, PendingTracked
  <2>7. Tracked(p)'
    BY <2>2, <2>4, <2>5, <2>6
       DEF Tracked, OwnerTracked, RestoreTracked, OwnerSteps, QuarantineAppends,
           RestoreSteps, RestoreAppends
  <2>8. QED
    BY <2>1, <2>2, <2>7, JournalUnchanged, MoverSuffices
<1>13. CASE ReconciliationEnds(p)
  BY <1>13, FinishUntracked, JournalUnchanged, MoverSuffices DEF ReconciliationEnds, disk
<1>14. QED
  BY <1>1, <1>2, <1>3, <1>4, <1>5, <1>6, <1>7, <1>8, <1>9, <1>10, <1>11, <1>12, <1>13
     DEF Reconcile

-----------------------------------------------------------------------------

LEMMA StepIs ==
  ASSUME TypeOK, NEW p \in Procs, NEW step \in Steps, Step(p, step)
  PROVE  /\ pc'[p] = step /\ cur'[p] = cur[p] /\ bad'[p] = bad[p]
         /\ todo'[p] = todo[p] /\ op'[p] = op[p]
  BY DEF Step, Goto, KeepMemory, TypeOK, LocalTypeOK

LEMMA ItemEndsUntracked ==
  ASSUME TypeOK, NEW p \in Procs, ItemEnds(p), ~bad[p]
  PROVE  Tracked(p)' /\ pc'[p] = "item"
  BY Untracked DEF ItemEnds, Goto, KeepMemory, TypeOK, LocalTypeOK

LEMMA OwnerSettled ==
  ASSUME OneProcess, TypeOK, Settled, NEW p \in Procs, ~bad[p],
         NEW step \in OwnerSteps, Step(p, step), ClaimedFirst', RestoredIsTerminal',
         NEW r \in Recoveries, r = cur[p], ~WasRestored(journal'[r]),
         step \in {"fill", "appendClaimed"} => journal'[r].seen = {},
         step \notin {"fill", "appendClaimed"} =>
           "AUTHORIZATION_CLAIMED" \in journal'[r].seen
  PROVE  Settled'
<1>1. step \in Steps /\ step # "revalidate"
  BY DEF Steps, AppendSteps, OwnerSteps, QuarantineAppends
<1>2. pc'[p] = step /\ cur'[p] = r /\ ~bad'[p]
  BY <1>1, StepIs
<1>3. OwnerTracked(p)'
  BY <1>2 DEF OwnerTracked, WasRestored
<1>4. QED
  BY <1>1, <1>2, <1>3, OwnerOnly, MoverSuffices

LEMMA RestoreSettled ==
  ASSUME OneProcess, TypeOK, Settled, NEW p \in Procs, ~bad[p],
         NEW step \in RestoreSteps, Step(p, step), ClaimedFirst', RestoredIsTerminal',
         NEW r \in Recoveries, r = cur[p], WasQuarantined(journal'[r]),
         step # "appendRestoreCommitted" => ~WasRestored(journal'[r])
  PROVE  Settled'
<1>1. step \in Steps /\ step # "revalidate"
  BY DEF Steps, AppendSteps, RestoreSteps, RestoreAppends
<1>2. pc'[p] = step /\ cur'[p] = r /\ ~bad'[p]
  BY <1>1, StepIs
<1>3. RestoreTracked(p)'
  BY <1>2 DEF RestoreTracked, WasRestored, WasQuarantined
<1>4. QED
  BY <1>1, <1>2, <1>3, RestoreOnly, MoverSuffices

\* What recording a status s of its item leaves for an owner.
LEMMA OwnerRecords ==
  ASSUME TypeOK, Settled, NEW p \in Procs, pc[p] \in OwnerSteps,
         NEW s \in Status \ RestoredStates, NEW r \in Recoveries, r = cur[p],
         Append(p, r, s) \/ AppendFails(p, r, s),
         s = "AUTHORIZATION_CLAIMED" \/ "AUTHORIZATION_CLAIMED" \in journal[r].seen
  PROVE  /\ ClaimedFirst' /\ RestoredIsTerminal'
         /\ ~WasRestored(journal'[r])
         /\ "AUTHORIZATION_CLAIMED" \in journal[r].seen =>
              "AUTHORIZATION_CLAIMED" \in journal'[r].seen
         /\ Append(p, r, s) => s \in journal'[r].seen
<1>1. UNCHANGED journal \/ Recorded(r, s)
  BY AppendOutcome
<1>2. Append(p, r, s) => Recorded(r, s)
  BY DEF Append, Recorded
<1>3. ~WasRestored(journal[r])
  BY DEF Settled, Tracked, OwnerTracked
<1>4. QED
  BY <1>1, <1>2, <1>3, RecordKeeps, RecordedIs DEF Settled, WasRestored

LEMMA SettledExecute ==
  ASSUME OneProcess, TypeOK, Consistent, Settled, NEW p \in Procs, Execute(p)
  PROVE  Settled'
<1> USE DEF Steps, AppendSteps, OwnerSteps, QuarantineAppends, ItemSteps
<1>a. Tracked(p) /\ (pc[p] \in ItemSteps => cur[p] \in Recoveries)
  BY DEF Settled, TypeOK, ItemTypeOK
<1>b. pc[p] \in OwnerSteps \cup {"revalidate", "item", "claim"} => ~bad[p]
  BY <1>a DEF Tracked, ViewTracks, PendingLoop
<1>c. pc[p] \in OwnerSteps =>
        /\ ~WasRestored(journal[cur[p]])
        /\ pc[p] \in {"fill", "appendClaimed"} => journal[cur[p]].seen = {}
        /\ pc[p] \notin {"fill", "appendClaimed"} =>
             "AUTHORIZATION_CLAIMED" \in journal[cur[p]].seen
  BY <1>a DEF Tracked, OwnerTracked
<1>1. CASE EnterSession(p)
  <2>1. UNCHANGED <<journal, claim>> /\ todo' = todo
    BY <1>1 DEF EnterSession, disk
  <2>2. /\ pc[p] = "decide" /\ ~bad[p] /\ ~touched[p]
        /\ pc'[p] = "revalidate" /\ ~bad'[p]
    BY <1>1 DEF EnterSession, Goto, TypeOK, LocalTypeOK
  <2>3. \A r \in Recoveries : Known(p, r) /\ view[p][r].last \notin PendingStates
    BY <1>a, <2>2 DEF Tracked, ViewTracks, PendingTracked, Reconciling, PendingLoop
  <2>4. \A r \in Recoveries : journal[r].last \notin TransitionStates
    BY <2>3 DEF Known, OnlyClaimed, Consistent, DiskConsistent, PendingStates, TransitionStates
  <2>5. \A r \in todo[p] :
          /\ journal[r].last # "AUTHORIZATION_CLAIMED"
          /\ claim[r] = "written" => "AUTHORIZATION_CLAIMED" \in journal[r].seen
    <3>1. ASSUME NEW r \in todo[p] PROVE journal[r].last # "AUTHORIZATION_CLAIMED"
      BY <2>2, <2>3 DEF Known, PendingStates, TypeOK, LocalTypeOK
    <3>2. ASSUME NEW r \in todo[p]
          PROVE  claim[r] = "written" => "AUTHORIZATION_CLAIMED" \in journal[r].seen
      BY <1>a, <2>2 DEF Tracked, OrphansTracked, Reconciling, ClaimLoop
    <3>3. QED
      BY <3>1, <3>2
  <2>6. SessionStartsSettled'
    BY <2>1, <2>4, <2>5 DEF SessionStartsSettled, OneProcess
  <2>7. Tracked(p)'
    BY <2>2, Untracked
  <2>8. QED
    BY <2>1, <2>6, <2>7, JournalUnchanged DEF Settled, OneProcess
<1>2. CASE Revalidate(p)
  <2>1. UNCHANGED journal
    BY <1>2 DEF Revalidate, disk
  <2>2. Tracked(p)' /\ pc'[p] # "revalidate"
    BY <1>2, <1>b, FinishUntracked, StepIs, Untracked DEF Revalidate
  <2>3. QED
    BY <2>1, <2>2, JournalUnchanged, MoverSuffices
<1>3. CASE NextItem(p)
  <2>1. UNCHANGED journal
    BY <1>3 DEF NextItem, disk
  <2>2. pc'[p] \in {"item", "claim"} /\ ~bad'[p]
    BY <1>3, <1>b DEF NextItem, Goto, KeepMemory, TypeOK, LocalTypeOK
  <2>3. QED
    BY <2>1, <2>2, Untracked, JournalUnchanged, MoverSuffices
<1>4. CASE ItemsDone(p)
  BY <1>4, FinishUntracked, JournalUnchanged, MoverSuffices DEF ItemsDone, disk
<1>5. CASE CreateClaim(p)
  <2>1. UNCHANGED journal
    BY <1>5 DEF CreateClaim
  <2>2. CASE ItemEnds(p)
    BY <1>5, <1>b, <2>1, <2>2, ItemEndsUntracked, JournalUnchanged, MoverSuffices
       DEF CreateClaim
  <2>3. CASE claim[cur[p]] = "absent" /\ Step(p, "fill")
    <3>1. cur[p] \in Recoveries /\ ~bad[p]
      BY <1>5, <1>a, <1>b DEF CreateClaim
    <3>2. journal[cur[p]].seen = {}
      BY <2>3, <3>1 DEF Consistent, DiskConsistent
    <3>3. QED
      BY <2>1, <2>3, <3>1, <3>2, JournalUnchanged, OwnerSettled DEF WasRestored
  <2>4. QED
    BY <1>5, <2>2, <2>3 DEF CreateClaim
<1>6. CASE FillClaim(p)
  <2>1. UNCHANGED journal
    BY <1>6 DEF FillClaim
  <2>2. CASE ItemEnds(p)
    BY <1>6, <1>b, <2>1, <2>2, ItemEndsUntracked, JournalUnchanged, MoverSuffices
       DEF FillClaim
  <2>3. CASE Step(p, "appendClaimed")
    <3>1. cur[p] \in Recoveries /\ ~bad[p] /\ journal[cur[p]].seen = {}
      BY <1>6, <1>a, <1>b, <1>c DEF FillClaim
    <3>2. QED
      BY <2>1, <2>3, <3>1, JournalUnchanged, OwnerSettled DEF WasRestored
  <2>4. QED
    BY <1>6, <2>2, <2>3 DEF FillClaim
<1>7. CASE AppendClaimed(p)
  <2>1. cur[p] \in Recoveries /\ ~bad[p] /\ pc[p] = "appendClaimed"
    BY <1>7, <1>a, <1>b DEF AppendClaimed
  <2>2. /\ ClaimedFirst' /\ RestoredIsTerminal' /\ ~WasRestored(journal'[cur[p]])
        /\ Append(p, cur[p], "AUTHORIZATION_CLAIMED") =>
             "AUTHORIZATION_CLAIMED" \in journal'[cur[p]].seen
    BY <1>7, <2>1, OwnerRecords DEF AppendClaimed, Status, RestoredStates
  <2>3. CASE ItemEnds(p)
    BY <2>1, <2>2, <2>3, ItemEndsUntracked, MoverSuffices
  <2>4. CASE Append(p, cur[p], "AUTHORIZATION_CLAIMED") /\ Step(p, "appendPlanned")
    BY <2>1, <2>2, <2>4, OwnerSettled
  <2>5. QED
    BY <1>7, <2>3, <2>4 DEF AppendClaimed
<1>8. CASE AppendPlanned(p)
  <2>1. cur[p] \in Recoveries /\ ~bad[p] /\ pc[p] = "appendPlanned"
    BY <1>8, <1>a, <1>b DEF AppendPlanned
  <2>2. /\ ClaimedFirst' /\ RestoredIsTerminal' /\ ~WasRestored(journal'[cur[p]])
        /\ "AUTHORIZATION_CLAIMED" \in journal'[cur[p]].seen
    BY <1>8, <1>c, <2>1, OwnerRecords DEF AppendPlanned, Status, RestoredStates
  <2>3. PICK step \in {"appendQuarantining", "failed"} : Step(p, step)
    BY <1>8 DEF AppendPlanned
  <2>4. QED
    BY <2>1, <2>2, <2>3, OwnerSettled
<1>9. CASE AppendQuarantining(p)
  <2>1. cur[p] \in Recoveries /\ ~bad[p] /\ pc[p] = "appendQuarantining"
    BY <1>9, <1>a, <1>b DEF AppendQuarantining
  <2>2. /\ ClaimedFirst' /\ RestoredIsTerminal' /\ ~WasRestored(journal'[cur[p]])
        /\ "AUTHORIZATION_CLAIMED" \in journal'[cur[p]].seen
    BY <1>9, <1>c, <2>1, OwnerRecords DEF AppendQuarantining, Status, RestoredStates
  <2>3. PICK step \in {"recheck", "failed"} : Step(p, step)
    BY <1>9 DEF AppendQuarantining
  <2>4. QED
    BY <2>1, <2>2, <2>3, OwnerSettled
<1>10. CASE Recheck(p) \/ Rename(p) \/ HandleFailure(p)
  <2>1. cur[p] \in Recoveries /\ ~bad[p] /\ pc[p] \in {"recheck", "rename", "failed"}
    BY <1>10, <1>a, <1>b DEF Recheck, Rename, HandleFailure
  <2>2. UNCHANGED journal
    BY <1>10 DEF Recheck, Rename, HandleFailure, disk
  <2>3. PICK step \in {"rename", "failed", "appendQuarantined", "appendCommitted",
                        "appendFailed"} : Step(p, step)
    BY <1>10 DEF Recheck, Rename, HandleFailure
  <2>4. QED
    BY <1>c, <2>1, <2>2, <2>3, JournalUnchanged, OwnerSettled
<1>11. CASE AppendQuarantined(p)
  <2>1. cur[p] \in Recoveries /\ ~bad[p] /\ pc[p] = "appendQuarantined"
    BY <1>11, <1>a, <1>b DEF AppendQuarantined
  <2>2. /\ ClaimedFirst' /\ RestoredIsTerminal' /\ ~WasRestored(journal'[cur[p]])
        /\ "AUTHORIZATION_CLAIMED" \in journal'[cur[p]].seen
    BY <1>11, <1>c, <2>1, OwnerRecords DEF AppendQuarantined, Status, RestoredStates
  <2>3. CASE ItemEnds(p)
    BY <2>1, <2>2, <2>3, ItemEndsUntracked, MoverSuffices
  <2>4. CASE Step(p, "appendCommitted")
    BY <2>1, <2>2, <2>4, OwnerSettled
  <2>5. QED
    BY <1>11, <2>3, <2>4 DEF AppendQuarantined
<1>12. CASE AppendCommitted(p)
  <2>1. cur[p] \in Recoveries /\ ~bad[p] /\ pc[p] = "appendCommitted"
    BY <1>12, <1>a, <1>b DEF AppendCommitted
  <2>2. ClaimedFirst' /\ RestoredIsTerminal'
    BY <1>12, <1>c, <2>1, OwnerRecords DEF AppendCommitted, Status, RestoredStates
  <2>3. QED
    BY <1>12, <2>1, <2>2, ItemEndsUntracked, MoverSuffices DEF AppendCommitted
<1>13. CASE AppendFailed(p)
  <2>1. cur[p] \in Recoveries /\ ~bad[p] /\ pc[p] = "appendFailed"
    BY <1>13, <1>a, <1>b DEF AppendFailed
  <2>2. ClaimedFirst' /\ RestoredIsTerminal'
    BY <1>13, <1>c, <2>1, OwnerRecords DEF AppendFailed, Status, RestoredStates
  <2>3. QED
    BY <1>13, <2>1, <2>2, ItemEndsUntracked, MoverSuffices DEF AppendFailed
<1>14. QED
  BY <1>1, <1>2, <1>3, <1>4, <1>5, <1>6, <1>7, <1>8, <1>9, <1>10, <1>11, <1>12, <1>13
     DEF Execute

\* What recording a status s of its item leaves for a process that restores it.
LEMMA RestoreRecords ==
  ASSUME TypeOK, Settled, NEW p \in Procs, pc[p] \in RestoreSteps,
         NEW s \in Status, NEW r \in Recoveries, r = cur[p],
         Append(p, r, s) \/ AppendFails(p, r, s),
         pc[p] = "appendRestoreCommitted" => s \in RestoredStates
  PROVE  /\ ClaimedFirst' /\ RestoredIsTerminal'
         /\ WasQuarantined(journal'[r])
         /\ s \notin RestoredStates => ~WasRestored(journal'[r])
<1>1. UNCHANGED journal \/ Recorded(r, s)
  BY AppendOutcome
<1>2. /\ WasQuarantined(journal[r])
      /\ pc[p] # "appendRestoreCommitted" => ~WasRestored(journal[r])
  BY DEF Settled, Tracked, RestoreTracked
<1>3. "AUTHORIZATION_CLAIMED" \in journal[r].seen
  BY <1>2 DEF Settled, ClaimedFirst, WasQuarantined
<1>4. ClaimedFirst' /\ RestoredIsTerminal'
  BY <1>1, <1>2, <1>3, RecordKeeps DEF Settled
<1>5. QED
  BY <1>1, <1>2, <1>4, RecordedIs DEF WasQuarantined, WasRestored

LEMMA SettledRestore ==
  ASSUME OneProcess, TypeOK, Consistent, Settled, NEW p \in Procs, Restore(p)
  PROVE  Settled'
<1> USE DEF Steps, AppendSteps, RestoreSteps, RestoreAppends, ItemSteps
<1>a. Tracked(p) /\ (pc[p] \in ItemSteps => cur[p] \in Recoveries)
  BY DEF Settled, TypeOK, ItemTypeOK
<1>b. pc[p] \in RestoreSteps => ~bad[p]
  BY <1>a DEF Tracked, ViewTracks, PendingLoop
<1>c. pc[p] \in RestoreSteps =>
        /\ WasQuarantined(journal[cur[p]])
        /\ pc[p] # "appendRestoreCommitted" => ~WasRestored(journal[cur[p]])
  BY <1>a DEF Tracked, RestoreTracked
<1>1. CASE AnswerFromJournal(p)
  BY <1>1, FinishUntracked, JournalUnchanged, MoverSuffices DEF AnswerFromJournal, disk
<1>2. CASE CheckRestore(p)
  <2>1. UNCHANGED journal
    BY <1>2 DEF CheckRestore, disk
  <2>2. PICK r \in todo[p] :
          /\ ~WasRestored(view[p][r]) /\ WasQuarantined(view[p][r])
          /\ cur' = [cur EXCEPT ![p] = r]
          /\ Goto(p, "appendRestoring") \/ Goto(p, "restoreFailed")
    BY <1>2 DEF CheckRestore
  <2>3. /\ r \in Recoveries /\ pc[p] = "decide" /\ ~bad[p] /\ ~bad'[p] /\ cur'[p] = r
        /\ pc'[p] \in {"appendRestoring", "restoreFailed"}
    BY <1>2, <2>2 DEF CheckRestore, Goto, TypeOK, LocalTypeOK
  <2>4. WasQuarantined(journal[r]) /\ ~WasRestored(journal[r])
    <3>1. Known(p, r)
      BY <1>a, <2>3 DEF Tracked, ViewTracks, Reconciling
    <3>2. view[p][r].seen \subseteq journal[r].seen
      BY <2>3 DEF Consistent, ProcessInOrder, MemoryCurrent
    <3>3. QED
      BY <2>2, <3>1, <3>2 DEF Known, OnlyClaimed, WasQuarantined, WasRestored, RestoredStates
  <2>5. Tracked(p)'
    <3>1. RestoreTracked(p)'
      BY <2>1, <2>3, <2>4 DEF RestoreTracked, WasQuarantined, WasRestored
    <3>2. QED
      BY <2>3, <3>1, RestoreOnly
  <2>6. QED
    BY <2>1, <2>3, <2>5, JournalUnchanged, MoverSuffices
<1>3. CASE AppendRestoring(p)
  <2>1. cur[p] \in Recoveries /\ ~bad[p] /\ pc[p] = "appendRestoring"
    BY <1>3, <1>a, <1>b DEF AppendRestoring
  <2>2. /\ ClaimedFirst' /\ RestoredIsTerminal'
        /\ WasQuarantined(journal'[cur[p]]) /\ ~WasRestored(journal'[cur[p]])
    BY <1>3, <2>1, RestoreRecords DEF AppendRestoring, Status, RestoredStates
  <2>3. PICK step \in {"renameBack", "restoreFailed"} : Step(p, step)
    BY <1>3 DEF AppendRestoring
  <2>4. QED
    BY <2>1, <2>2, <2>3, RestoreSettled
<1>4. CASE RenameBack(p) \/ HandleRestoreFailure(p)
  <2>1. cur[p] \in Recoveries /\ ~bad[p] /\ pc[p] \in {"renameBack", "restoreFailed"}
    BY <1>4, <1>a, <1>b DEF RenameBack, HandleRestoreFailure
  <2>2. UNCHANGED journal
    BY <1>4 DEF RenameBack, HandleRestoreFailure, disk
  <2>3. PICK step \in {"appendRestored", "restoreFailed", "appendRestoreCommitted",
                        "appendRestoreFailed"} : Step(p, step)
    BY <1>4 DEF RenameBack, HandleRestoreFailure
  <2>4. QED
    BY <1>c, <2>1, <2>2, <2>3, JournalUnchanged, RestoreSettled
<1>5. CASE AppendRestored(p)
  <2>1. cur[p] \in Recoveries /\ ~bad[p] /\ pc[p] = "appendRestored"
    BY <1>5, <1>a, <1>b DEF AppendRestored
  <2>2. ClaimedFirst' /\ RestoredIsTerminal' /\ WasQuarantined(journal'[cur[p]])
    BY <1>5, <2>1, RestoreRecords DEF AppendRestored, Status, RestoredStates
  <2>3. CASE Finish(p)
    BY <2>2, <2>3, FinishUntracked, MoverSuffices
  <2>4. CASE Step(p, "appendRestoreCommitted")
    BY <2>1, <2>2, <2>4, RestoreSettled
  <2>5. QED
    BY <1>5, <2>3, <2>4 DEF AppendRestored
<1>6. CASE AppendRestoreCommitted(p)
  <2>1. cur[p] \in Recoveries /\ pc[p] = "appendRestoreCommitted"
    BY <1>6, <1>a DEF AppendRestoreCommitted
  <2>2. ClaimedFirst' /\ RestoredIsTerminal'
    BY <1>6, <2>1, RestoreRecords DEF AppendRestoreCommitted, Status, RestoredStates
  <2>3. QED
    BY <1>6, <2>2, FinishUntracked, MoverSuffices DEF AppendRestoreCommitted
<1>7. CASE AppendRestoreFailed(p)
  <2>1. cur[p] \in Recoveries /\ pc[p] = "appendRestoreFailed"
    BY <1>7, <1>a DEF AppendRestoreFailed
  <2>2. ClaimedFirst' /\ RestoredIsTerminal'
    BY <1>7, <2>1, RestoreRecords DEF AppendRestoreFailed, Status, RestoredStates
  <2>3. QED
    BY <1>7, <2>2, FinishUntracked, MoverSuffices DEF AppendRestoreFailed
<1>8. QED
  BY <1>1, <1>2, <1>3, <1>4, <1>5, <1>6, <1>7 DEF Restore

LEMMA SettledInit == Init => Settled
<1> SUFFICES ASSUME Init PROVE Settled
  OBVIOUS
<1>1. ClaimedFirst /\ RestoredIsTerminal
  BY DEF Init, NoEntries, ClaimedFirst, RestoredIsTerminal, WasRestored
<1>2. ASSUME NEW p \in Procs PROVE Tracked(p)
  BY DEF Init, Tracked, ViewTracks, OrphansTracked, PendingTracked, OwnerTracked,
     RestoreTracked, Reconciling, ClaimLoop, PendingLoop, OwnerSteps, QuarantineAppends,
     RestoreSteps, RestoreAppends
<1>3. SessionStartsSettled
  BY DEF Init, SessionStartsSettled
<1>4. QED
  BY <1>1, <1>2, <1>3 DEF Settled

\* What the invariant is about, the tool cannot touch.
LEMMA SettledUntouched ==
  ASSUME Settled, UNCHANGED <<journal, claim, local>>
  PROVE  Settled'
<1>1. ClaimedFirst' /\ RestoredIsTerminal'
  BY JournalUnchanged
<1>2. SessionStartsSettled'
  BY DEF Settled, SessionStartsSettled, local
<1>3. ASSUME NEW p \in Procs PROVE Tracked(p)'
  <2>1. Tracked(p)
    BY DEF Settled
  <2>2. ViewTracks(p)' /\ OrphansTracked(p)' /\ PendingTracked(p)'
    BY <2>1 DEF Tracked, ViewTracks, OrphansTracked, PendingTracked, Known, Ahead, OnlyClaimed,
       local
  <2>3. OwnerTracked(p)' /\ RestoreTracked(p)'
    BY <2>1 DEF Tracked, OwnerTracked, RestoreTracked, WasRestored, WasQuarantined, local
  <2>4. QED
    BY <2>2, <2>3 DEF Tracked
<1>4. QED
  BY <1>1, <1>2, <1>3 DEF Settled

LEMMA SettledNext ==
  ASSUME OneProcess, TypeOK, Consistent, Settled, [Next]_vars
  PROVE  Settled'
<1>1. CASE UNCHANGED vars
  BY <1>1, SettledUntouched DEF vars, local
<1>2. ASSUME NEW p \in Procs, Works(p) PROVE Settled'
  BY <1>2, SettledReconcile, SettledExecute, SettledRestore DEF Works
<1>3. ASSUME NEW p \in Procs, Starts(p) PROVE Settled'
  <2>1. /\ UNCHANGED journal /\ pc[p] = "idle" /\ pc'[p] = "inventory"
        /\ bad'[p] = bad[p]
    BY <1>3 DEF Starts, StartExecute, StartUndo, StartStatus, Start, Goto, disk, TypeOK,
       LocalTypeOK
  <2>2. ~bad[p]
    BY <2>1 DEF Settled, Tracked, ViewTracks, PendingLoop
  <2>3. QED
    BY <2>1, <2>2, Untracked, JournalUnchanged, MoverSuffices
<1>4. ASSUME NEW p \in Procs, Crash(p) PROVE Settled'
  BY <1>4, FinishUntracked, JournalUnchanged, MoverSuffices DEF Crash
<1>5. CASE Tool
  BY <1>5, SettledUntouched DEF Tool, ToolCreates, ToolRemoves
<1>6. QED
  BY <1>1, <1>2, <1>3, <1>4, <1>5 DEF Next, Environment, Tool

\* The invariant of the journal holds throughout: the copy reconciliation works on
\* (AuditJournal.inspect, read once in execute and reconcile) never hides from the
\* gate a record that the gate is about.
THEOREM AlwaysSettled ==
  ASSUME OneProcess
  PROVE  Spec => []Settled
<1>1. TypeOK /\ Consistent /\ Settled /\ [Next]_vars => Settled'
  BY SettledNext
<1>2. QED
  BY <1>1, SettledInit, TypeCorrect, AlwaysConsistent, PTL DEF Spec

-----------------------------------------------------------------------------

(* How moves and records leave the directories grounded. *)

LEMMA AtHome ==
  ASSUME TypeOK, Homebound, NEW o \in Objects, NEW r \in Recoveries
  PROVE  /\ at[o] = home[r] => o = target[r]
         /\ at[o] = r => o = target[r]
  BY ConstantsAssumption DEF ConstantsAssumption, Homebound

LEMMA TargetIs ==
  ASSUME NEW r \in Recoveries
  PROVE  /\ target[r] \in Objects /\ home[r] \in Paths /\ r \notin Paths
         /\ r # Nowhere /\ home[r] # Nowhere /\ home[r] \notin Recoveries
  BY ConstantsAssumption DEF ConstantsAssumption

\* Where the payload of r is in its slot, its original path is free.
LEMMA HomeFree ==
  ASSUME TypeOK, Homebound, NEW r \in Recoveries, at[target[r]] = r
  PROVE  ~Occupied(home[r]) /\ Look(home[r], target[r]) = {"error"}
<1>1. ~Occupied(home[r])
  BY AtHome, TargetIs DEF Occupied
<1>2. QED
  BY <1>1, TargetIs DEF Look, Shown

\* An observation of the slot of r that does not see the payload there is noted.
LEMMA SlotSeen ==
  ASSUME TypeOK, NEW r \in Recoveries, NEW seen \in Look(r, target[r]), NoteSlot(r, seen)
  PROVE  /\ missed \subseteq missed'
         /\ at[target[r]] = r /\ seen # "match" => r \in missed'
         /\ seen = "match" => at[target[r]] = r
  BY DEF Look, Shown, NoteSlot

LEMMA EnterMoves ==
  ASSUME TypeOK, Homebound, NEW p \in Procs, Enters(p), cur[p] \in Recoveries
  PROVE  /\ at[target[cur[p]]] = home[cur[p]]
         /\ \A o \in Objects : at'[o] = IF o = target[cur[p]] THEN cur[p] ELSE at[o]
<1>1. at[target[cur[p]]] = home[cur[p]]
  BY AtHome DEF Enters, CanMove, Occupied
<1>2. QED
  BY <1>1, AtHome DEF Enters, Move

LEMMA LeaveMoves ==
  ASSUME TypeOK, Homebound, NEW p \in Procs, Leaves(p), cur[p] \in Recoveries
  PROVE  /\ at[target[cur[p]]] = cur[p]
         /\ \A o \in Objects : at'[o] = IF o = target[cur[p]] THEN home[cur[p]] ELSE at[o]
<1>1. at[target[cur[p]]] = cur[p]
  BY AtHome DEF Leaves, CanMove, Occupied
<1>2. QED
  BY <1>1, AtHome DEF Leaves, Move

\* The status s may be recorded for r as the directories are.
Fits(r, s) ==
  /\ s \in {"AUTHORIZATION_CLAIMED", "PLANNED"} => "QUARANTINING" \notin journal[r].seen
  /\ s = "QUARANTINING" => at[target[r]] \in {home[r], Nowhere}
  /\ s \in QuarantinedStates \cup {"RESTORING"} => at[target[r]] = r
  /\ s \in RestoredStates => at[target[r]] # r
  /\ s = "RESTORING" => WasQuarantined(journal[r])
  /\ s = "FAILED" /\ at[target[r]] = r => WasQuarantined(journal[r]) \/ r \in missed

LEMMA DiskQuiet ==
  ASSUME DiskGrounded, UNCHANGED <<journal, at>>, missed \subseteq missed'
  PROVE  DiskGrounded'
<1>1. Homebound'
  BY DEF DiskGrounded, Homebound
<1>2. StrandedOnlyUnseen'
  BY DEF DiskGrounded, StrandedOnlyUnseen, WasQuarantined
<1>3. ASSUME NEW r \in Recoveries PROVE Placed(r)'
  BY DEF DiskGrounded, Placed, Occupied, WasQuarantined
<1>4. QED
  BY <1>1, <1>2, <1>3 DEF DiskGrounded

LEMMA DiskRecord ==
  ASSUME TypeOK, DiskGrounded, NEW r \in Recoveries, NEW s \in Status,
         UNCHANGED <<at, missed>>, UNCHANGED journal \/ Recorded(r, s), Fits(r, s)
  PROVE  DiskGrounded'
<1>1. CASE UNCHANGED journal
  BY <1>1, DiskQuiet
<1>2. CASE Recorded(r, s)
  <2>1. Homebound'
    BY DEF DiskGrounded, Homebound
  <2>2. \A t \in Recoveries : t # r => Placed(t)'
    BY <1>2, RecordedIs DEF DiskGrounded, Placed, Occupied, WasQuarantined
  <2>3. Placed(r)'
    <3>1. Placed(r) /\ journal'[r].last = s /\ journal'[r].seen = journal[r].seen \cup {s}
      BY <1>2, RecordedIs DEF DiskGrounded
    <3>2. Occupied(r)' => "QUARANTINING" \in journal'[r].seen
      BY <3>1 DEF Placed, Occupied
    <3>3. s \in {"NONE", "AUTHORIZATION_CLAIMED", "PLANNED"} =>
            "QUARANTINING" \notin journal'[r].seen
      BY <3>1 DEF Fits, Status
    <3>4. "RESTORING" \in journal'[r].seen => WasQuarantined(journal'[r])
      BY <3>1 DEF Fits, Placed, WasQuarantined
    <3>5. s \in QuarantinedStates => at[target[r]] = r
      BY DEF Fits
    <3>6. s \in TransitionStates => at[target[r]] \in {r, home[r], Nowhere}
      BY DEF Fits, TransitionStates
    <3>7. s \in RestoredStates => at[target[r]] # r
      BY DEF Fits
    <3>8. QED
      BY <3>1, <3>2, <3>3, <3>4, <3>5, <3>6, <3>7 DEF Placed, WasQuarantined
  <2>4. StrandedOnlyUnseen'
    <3>1. ASSUME NEW t \in Recoveries, at[target[t]] = t, journal'[t].last = "FAILED"
          PROVE  WasQuarantined(journal'[t]) \/ t \in missed
      <4>1. CASE t # r
        BY <1>2, <3>1, <4>1, RecordedIs DEF DiskGrounded, StrandedOnlyUnseen
      <4>2. CASE t = r
        BY <1>2, <3>1, <4>2, RecordedIs DEF Fits, WasQuarantined
      <4>3. QED
        BY <4>1, <4>2
    <3>2. QED
      BY <3>1 DEF StrandedOnlyUnseen, WasQuarantined
  <2>5. QED
    BY <2>1, <2>2, <2>3, <2>4 DEF DiskGrounded
<1>3. QED
  BY <1>1, <1>2

LEMMA DiskEnters ==
  ASSUME TypeOK, Consistent, DiskGrounded, NEW p \in Procs, Enters(p),
         UNCHANGED missed, OwnerPlaced(p), SessionApart(p)
  PROVE  DiskGrounded'
<1>1. PICK r \in Recoveries : r = cur[p] /\ "QUARANTINING" \in journal[r].seen
  BY EntersOccupies
<1>2. /\ at[target[r]] = home[r]
      /\ \A o \in Objects : at'[o] = IF o = target[r] THEN r ELSE at[o]
  BY <1>1, EnterMoves DEF DiskGrounded
<1>3. UNCHANGED <<journal, missed>> /\ pc[p] = "rename" /\ journal[r].last = "QUARANTINING"
  BY <1>1 DEF Enters, OwnerPlaced
<1>4. Homebound'
  BY <1>2, TargetIs DEF DiskGrounded, Homebound
<1>5. StrandedOnlyUnseen'
  <2>1. ASSUME NEW t \in Recoveries, at'[target[t]] = t, journal[t].last = "FAILED"
        PROVE  WasQuarantined(journal[t]) \/ t \in missed
    BY <1>2, <1>3, <2>1, TargetIs DEF DiskGrounded, StrandedOnlyUnseen
  <2>2. QED
    BY <1>3, <2>1 DEF StrandedOnlyUnseen, WasQuarantined
<1>6. ASSUME NEW t \in Recoveries PROVE Placed(t)'
  <2>1. Placed(t)
    BY DEF DiskGrounded
  <2>2. Occupied(t)' => "QUARANTINING" \in journal[t].seen
    BY <1>1, <1>2, <2>1 DEF Placed, Occupied
  <2>3. journal[t].last \in QuarantinedStates => at'[target[t]] = t
    BY <1>2, <2>1, TargetIs DEF Placed
  <2>4. journal[t].last \in TransitionStates => at'[target[t]] \in {t, home[t], Nowhere}
    <3>1. CASE t = r
      BY <1>2, <3>1, TargetIs
    <3>2. CASE t # r
      <4>1. journal[t].last \in TransitionStates => home[t] # home[r]
        BY <1>1, <1>3, <3>2
           DEF SessionApart, SessionSteps, ItemOwned, OwnerSteps
      <4>2. home[t] # home[r] => target[t] # target[r]
        BY ConstantsAssumption DEF ConstantsAssumption
      <4>3. QED
        BY <1>2, <2>1, <4>1, <4>2, TargetIs DEF Placed
    <3>3. QED
      BY <3>1, <3>2
  <2>5. journal[t].last \in RestoredStates => at'[target[t]] # t
    BY <1>2, <1>3, <2>1, TargetIs DEF Placed, RestoredStates
  <2>6. QED
    BY <1>3, <2>1, <2>2, <2>3, <2>4, <2>5 DEF Placed, WasQuarantined
<1>7. QED
  BY <1>4, <1>5, <1>6 DEF DiskGrounded

LEMMA DiskLeaves ==
  ASSUME TypeOK, Consistent, DiskGrounded, NEW p \in Procs, Leaves(p),
         UNCHANGED missed, RestorePlaced(p)
  PROVE  DiskGrounded'
<1>1. PICK r \in Recoveries : r = cur[p]
  BY LeavesEmpties
<1>2. /\ at[target[r]] = r
      /\ \A o \in Objects : at'[o] = IF o = target[r] THEN home[r] ELSE at[o]
  BY <1>1, LeaveMoves DEF DiskGrounded
<1>3. UNCHANGED <<journal, missed>> /\ journal[r].last = "RESTORING"
  BY <1>1 DEF Leaves, RestorePlaced
<1>4. Homebound'
  BY <1>2, TargetIs DEF DiskGrounded, Homebound
<1>5. StrandedOnlyUnseen'
  <2>1. ASSUME NEW t \in Recoveries, at'[target[t]] = t PROVE at[target[t]] = t
    BY <1>2, <2>1, TargetIs
  <2>2. QED
    BY <1>3, <2>1 DEF DiskGrounded, StrandedOnlyUnseen, WasQuarantined
<1>6. ASSUME NEW t \in Recoveries PROVE Placed(t)'
  <2>1. Placed(t)
    BY DEF DiskGrounded
  <2>2. Occupied(t)' => Occupied(t)
    BY <1>2, TargetIs DEF Occupied
  <2>3. journal[t].last \in QuarantinedStates => at'[target[t]] = t
    BY <1>2, <1>3, <2>1, TargetIs DEF Placed, QuarantinedStates
  <2>4. journal[t].last \in TransitionStates => at'[target[t]] \in {t, home[t], Nowhere}
    <3>1. CASE target[t] = target[r]
      BY <1>2, <3>1, TargetIs, ConstantsAssumption DEF ConstantsAssumption
    <3>2. CASE target[t] # target[r]
      BY <1>2, <2>1, <3>2, TargetIs DEF Placed
    <3>3. QED
      BY <3>1, <3>2
  <2>5. journal[t].last \in RestoredStates => at'[target[t]] # t
    BY <1>2, <2>1, TargetIs DEF Placed
  <2>6. QED
    BY <1>3, <2>1, <2>2, <2>3, <2>4, <2>5 DEF Placed, WasQuarantined
<1>7. QED
  BY <1>4, <1>5, <1>6 DEF DiskGrounded

\* Without spares the tool only removes what is at an original path.
LEMMA ToolTakes ==
  ASSUME TypeOK, Tool, Spares = {}
  PROVE  /\ UNCHANGED <<journal, claim, missed, local>>
         /\ \A o \in Objects : at'[o] = at[o] \/ (at[o] \in Paths /\ at'[o] = Nowhere)
  BY DEF Tool, ToolRemoves, TypeOK, SharedTypeOK

LEMMA DiskTool ==
  ASSUME TypeOK, DiskGrounded, Tool, Spares = {}
  PROVE  DiskGrounded'
<1>1. /\ UNCHANGED <<journal, missed>>
      /\ \A o \in Objects : at'[o] = at[o] \/ (at[o] \in Paths /\ at'[o] = Nowhere)
  BY ToolTakes
<1>2. Homebound'
  BY <1>1, ConstantsAssumption DEF DiskGrounded, Homebound, ConstantsAssumption
<1>3. \A r \in Recoveries : at'[target[r]] = r <=> at[target[r]] = r
  BY <1>1, TargetIs
<1>4. StrandedOnlyUnseen'
  BY <1>1, <1>3 DEF DiskGrounded, StrandedOnlyUnseen, WasQuarantined
<1>5. ASSUME NEW r \in Recoveries PROVE Placed(r)'
  <2>1. Placed(r)
    BY DEF DiskGrounded
  <2>2. Occupied(r)' => Occupied(r)
    BY <1>1, TargetIs DEF Occupied
  <2>3. at'[target[r]] = at[target[r]] \/ at'[target[r]] = Nowhere
    BY <1>1, TargetIs
  <2>4. QED
    BY <1>1, <1>3, <2>1, <2>2, <2>3 DEF Placed, WasQuarantined
<1>6. QED
  BY <1>2, <1>4, <1>5 DEF DiskGrounded

-----------------------------------------------------------------------------

\* Steps at which a process has no item whose place the invariant speaks of.
Unplaced == {"idle", "inventory", "scan", "reread", "claims", "orphans", "orphanClaimed",
             "orphanFailed", "pending", "decide", "revalidate", "item"}

LEMMA UnplacedGrounded ==
  ASSUME NEW p \in Procs, pc'[p] \in Unplaced, SessionApart(p)'
  PROVE  ProcessGrounded(p)'
  BY DEF Unplaced, ProcessGrounded, OwnerPlaced, VerdictPlaced, RestorePlaced, OwnerSteps,
     BeforeMove, QuarantineAppends, RestoreSteps, RestoreAppends

\* Outside a session only the items to execute have to be apart.
LEMMA ApartOutside ==
  ASSUME NEW p \in Procs, pc'[p] \notin SessionSteps, SessionApart(p),
         op'[p] = "execute" => op[p] = "execute" /\ todo'[p] = todo[p]
  PROVE  SessionApart(p)'
  BY DEF SessionApart, SessionSteps, ItemOwned

\* A session that keeps its items, or gives up the one it works on, and has
\* recorded something for that one at most.
LEMMA ApartInside ==
  ASSUME TypeOK, NEW p \in Procs, SessionApart(p), pc[p] \in ItemOwned,
         cur[p] \in Recoveries, op'[p] = op[p], todo'[p] = todo[p],
         pc'[p] = "item" \/ (pc'[p] \in ItemOwned /\ cur'[p] = cur[p]),
         \A r \in Recoveries \ {cur[p]} : journal'[r] = journal[r]
  PROVE  SessionApart(p)'
<1>1. ASSUME NEW r \in Recoveries, journal'[r].last \in TransitionStates
      PROVE  /\ \A s \in todo[p] : home[s] # home[r]
             /\ r # cur[p] => home[r] # home[cur[p]]
  <2>1. CASE r = cur[p]
    BY <2>1 DEF SessionApart
  <2>2. CASE r # cur[p]
    BY <1>1, <2>2 DEF SessionApart, SessionSteps
  <2>3. QED
    BY <2>1, <2>2
<1>2. "item" \notin ItemOwned
  BY DEF ItemOwned, OwnerSteps, QuarantineAppends
<1>3. QED
  BY <1>1, <1>2 DEF SessionApart, SessionSteps

LEMMA FinishGrounded ==
  ASSUME TypeOK, NEW p \in Procs, SessionApart(p), Finish(p)
  PROVE  ProcessGrounded(p)'
<1>1. pc'[p] = "idle" /\ op'[p] = "none"
  BY DEF Finish, TypeOK, LocalTypeOK
<1>2. QED
  BY <1>1, ApartOutside, UnplacedGrounded
     DEF Unplaced, SessionSteps, ItemOwned, OwnerSteps, QuarantineAppends

LEMMA ItemEndsGrounded ==
  ASSUME TypeOK, NEW p \in Procs, SessionApart(p), ItemEnds(p), pc[p] \in ItemOwned,
         cur[p] \in Recoveries, \A r \in Recoveries \ {cur[p]} : journal'[r] = journal[r]
  PROVE  ProcessGrounded(p)'
<1>1. pc'[p] = "item" /\ op'[p] = op[p] /\ todo'[p] = todo[p]
  BY DEF ItemEnds, Goto, KeepMemory, TypeOK, LocalTypeOK
<1>2. QED
  BY <1>1, ApartInside, UnplacedGrounded DEF Unplaced

LEMMA OwnerGrounded ==
  ASSUME TypeOK, NEW p \in Procs, SessionApart(p), pc[p] \in ItemOwned,
         NEW step \in OwnerSteps, Step(p, step), cur[p] \in Recoveries,
         \A r \in Recoveries \ {cur[p]} : journal'[r] = journal[r],
         step \in BeforeMove => at'[target[cur[p]]] \in {home[cur[p]], Nowhere},
         step \in {"fill", "appendClaimed", "appendPlanned", "appendQuarantining"} =>
           "QUARANTINING" \notin journal'[cur[p]].seen,
         step \in {"recheck", "rename"} => journal'[cur[p]].last = "QUARANTINING",
         step \in {"appendQuarantined", "appendCommitted"} =>
           at'[target[cur[p]]] = cur[p],
         step = "appendFailed" => at'[target[cur[p]]] # cur[p] \/ cur[p] \in missed'
  PROVE  ProcessGrounded(p)'
<1>1. step \in Steps /\ step \in ItemOwned
  BY DEF Steps, AppendSteps, OwnerSteps, QuarantineAppends, ItemOwned
<1>2. /\ pc'[p] = step /\ cur'[p] = cur[p] /\ op'[p] = op[p] /\ todo'[p] = todo[p]
  BY <1>1, StepIs
<1>3. SessionApart(p)'
  BY <1>1, <1>2, ApartInside
<1>4. OwnerPlaced(p)'
  BY <1>2 DEF OwnerPlaced, OwnerSteps, QuarantineAppends
<1>5. VerdictPlaced(p)' /\ RestorePlaced(p)'
  BY <1>2 DEF VerdictPlaced, RestorePlaced, OwnerSteps, QuarantineAppends
<1>6. QED
  BY <1>3, <1>4, <1>5 DEF ProcessGrounded

LEMMA RestoreGrounded ==
  ASSUME TypeOK, NEW p \in Procs, SessionApart(p),
         NEW step \in RestoreSteps, Step(p, step),
         step \in {"appendRestoring", "renameBack"} => at'[target[cur[p]]] = cur[p],
         step \in {"appendRestored", "appendRestoreCommitted"} =>
           at'[target[cur[p]]] # cur[p],
         step = "renameBack" => journal'[cur[p]].last = "RESTORING"
  PROVE  ProcessGrounded(p)'
<1>1. step \in Steps /\ step \notin SessionSteps
  BY DEF Steps, AppendSteps, OwnerSteps, QuarantineAppends, ItemOwned, SessionSteps,
     RestoreSteps, RestoreAppends
<1>2. /\ pc'[p] = step /\ cur'[p] = cur[p] /\ op'[p] = op[p] /\ todo'[p] = todo[p]
  BY <1>1, StepIs
<1>3. SessionApart(p)'
  BY <1>1, <1>2, ApartOutside
<1>4. RestorePlaced(p)'
  BY <1>2 DEF RestorePlaced
<1>5. VerdictPlaced(p)' /\ OwnerPlaced(p)'
  BY <1>2 DEF VerdictPlaced, OwnerPlaced, RestoreSteps, RestoreAppends, OwnerSteps, BeforeMove,
     QuarantineAppends
<1>6. QED
  BY <1>3, <1>4, <1>5 DEF ProcessGrounded

LEMMA MoverGrounds ==
  ASSUME OneProcess, NEW p \in Procs, DiskGrounded', ProcessGrounded(p)'
  PROVE  Grounded'
  BY DEF OneProcess, Grounded

-----------------------------------------------------------------------------
(* Grounded, action by action. *)

LEMMA GroundedReconcile ==
  ASSUME OneProcess, TypeOK, Consistent, Settled, Grounded, NEW p \in Procs, Reconcile(p)
  PROVE  Grounded'
<1>a. Tracked(p) /\ ProcessGrounded(p) /\ DiskGrounded
  BY DEF Settled, Grounded
<1>b. (pc[p] \in ItemSteps => cur[p] \in Recoveries) /\ SessionApart(p) /\ ProcessInOrder(p)
  BY <1>a DEF TypeOK, ItemTypeOK, ProcessGrounded, Consistent
<1>1. CASE \/ Inventory(p) \/ Scan(p) \/ Reread(p) \/ ReadClaims(p) \/ NextOrphan(p)
           \/ OrphansDone(p) \/ PendingDone(p) \/ ReconciliationEnds(p)
  <2>1. UNCHANGED <<journal, at, missed>>
    BY <1>1 DEF Inventory, Scan, Reread, ReadClaims, NextOrphan, OrphansDone, PendingDone,
       ReconciliationEnds, disk
  <2>2. CASE Finish(p)
    BY <1>a, <1>b, <2>1, <2>2, DiskQuiet, FinishGrounded, MoverGrounds
  <2>3. CASE ~Finish(p)
    <3>1. /\ pc'[p] \in {"scan", "reread", "claims", "orphans", "orphanClaimed", "pending",
                         "decide"}
          /\ op' = op /\ todo' = todo
      BY <1>1, <2>3 DEF Inventory, Scan, Reread, ReadClaims, NextOrphan, OrphansDone,
         PendingDone, ReconciliationEnds, Goto, TypeOK, LocalTypeOK
    <3>2. ProcessGrounded(p)'
      BY <1>b, <3>1, ApartOutside, UnplacedGrounded
         DEF Unplaced, SessionSteps, ItemOwned, OwnerSteps, QuarantineAppends
    <3>3. QED
      BY <1>a, <2>1, <3>2, DiskQuiet, MoverGrounds
  <2>4. QED
    BY <2>2, <2>3
<1>2. CASE RecordOrphanClaimed(p) \/ RecordOrphanFailed(p)
  <2>1. PICK s \in {"AUTHORIZATION_CLAIMED", "FAILED"} :
          /\ UNCHANGED journal \/ Recorded(cur[p], s)
          /\ pc[p] = IF s = "FAILED" THEN "orphanFailed" ELSE "orphanClaimed"
    BY <1>2, AppendOutcome DEF RecordOrphanClaimed, RecordOrphanFailed
  <2>2. cur[p] \in Recoveries /\ UNCHANGED <<at, missed, op, todo>>
    BY <1>2, <1>b DEF RecordOrphanClaimed, RecordOrphanFailed, ItemSteps
  <2>3. "QUARANTINING" \notin journal[cur[p]].seen
    BY <1>a, <2>1 DEF Tracked, OrphansTracked, ClaimLoop
  <2>4. at[target[cur[p]]] # cur[p]
    BY <1>a, <2>2, <2>3, TargetIs DEF DiskGrounded, Placed, Occupied
  <2>5. DiskGrounded'
    BY <1>a, <2>1, <2>2, <2>3, <2>4, DiskRecord
       DEF Fits, Status, QuarantinedStates, RestoredStates
  <2>6. pc'[p] \in {"orphans", "orphanFailed"}
    BY <1>2 DEF RecordOrphanClaimed, RecordOrphanFailed, Goto, TypeOK, LocalTypeOK
  <2>7. ProcessGrounded(p)'
    BY <1>b, <2>2, <2>6, ApartOutside, UnplacedGrounded
       DEF Unplaced, SessionSteps, ItemOwned, OwnerSteps, QuarantineAppends
  <2>8. QED
    BY <2>5, <2>7, MoverGrounds
<1>3. CASE NextPending(p)
  <2>1. UNCHANGED <<journal, at, missed, op, todo, view>>
    BY <1>3 DEF NextPending, disk
  <2>2. PICK r \in work[p] :
          /\ cur' = [cur EXCEPT ![p] = r]
          /\ \/ /\ view[p][r].last = "AUTHORIZATION_CLAIMED"
                /\ verdict' = [verdict EXCEPT ![p] = "FAILED"]
                /\ Goto(p, "record")
             \/ /\ \E source \in Look(home[r], target[r]) :
                     observed' = [observed EXCEPT ![p] = source]
                /\ Goto(p, "observe")
    BY <1>3 DEF NextPending
  <2>3. /\ pc[p] = "pending" /\ r \in Recoveries /\ cur'[p] = r
        /\ \/ /\ view[p][r].last = "AUTHORIZATION_CLAIMED"
              /\ verdict'[p] = "FAILED" /\ pc'[p] = "record"
           \/ observed'[p] \in Look(home[r], target[r]) /\ pc'[p] = "observe"
    BY <1>3, <2>2 DEF NextPending, Goto, TypeOK, LocalTypeOK
  <2>4. Known(p, r)
    BY <1>a, <2>2, <2>3 DEF Tracked, ViewTracks, Ahead, Reconciling, PendingLoop
  <2>5. at[target[r]] = r => "QUARANTINING" \in journal[r].seen
    BY <1>a, <2>3, TargetIs DEF DiskGrounded, Placed, Occupied
  <2>6. view[p][r].last = "AUTHORIZATION_CLAIMED" => at[target[r]] # r
    <3>1. journal[r] = view[p][r] /\ view[p][r].last = "AUTHORIZATION_CLAIMED" =>
            "QUARANTINING" \notin journal[r].seen
      BY <1>a, <2>3 DEF DiskGrounded, Placed
    <3>2. OnlyClaimed(r) => "QUARANTINING" \notin journal[r].seen
      BY DEF OnlyClaimed
    <3>3. QED
      BY <2>4, <2>5, <3>1, <3>2 DEF Known
  <2>7. VerdictPlaced(p)'
    <3>1. pc'[p] = "observe" /\ at[target[r]] = r => observed'[p] = "error"
      BY <1>a, <2>3, HomeFree DEF DiskGrounded
    <3>2. QED
      BY <2>1, <2>3, <2>6, <3>1 DEF VerdictPlaced
  <2>8. SessionApart(p)'
    BY <1>b, <2>1, <2>3, ApartOutside
       DEF SessionSteps, ItemOwned, OwnerSteps, QuarantineAppends
  <2>9. OwnerPlaced(p)' /\ RestorePlaced(p)'
    BY <2>3 DEF OwnerPlaced, RestorePlaced, BeforeMove
  <2>10. QED
    BY <1>a, <2>1, <2>7, <2>8, <2>9, DiskQuiet, MoverGrounds DEF ProcessGrounded
<1>4. CASE ObserveSlot(p)
  <2>1. UNCHANGED <<journal, at, op, todo, view, cur>>
    BY <1>4 DEF ObserveSlot
  <2>2. PICK seen \in Look(cur[p], target[cur[p]]) :
          /\ verdict' = [verdict EXCEPT ![p] =
                           MoveVerdict(view[p][cur[p]].last, observed[p], seen)]
          /\ NoteSlot(cur[p], seen)
    BY <1>4 DEF ObserveSlot
  <2>a. /\ pc[p] = "observe" /\ pc'[p] = "record" /\ cur[p] \in Recoveries
        /\ verdict'[p] = MoveVerdict(view[p][cur[p]].last, observed[p], seen)
    BY <1>4, <1>b, <2>2 DEF ObserveSlot, Goto, ItemSteps, TypeOK, LocalTypeOK
  <2>b. /\ missed \subseteq missed'
        /\ at[target[cur[p]]] = cur[p] /\ seen # "match" => cur[p] \in missed'
        /\ seen = "match" => at[target[cur[p]]] = cur[p]
    BY <2>2, <2>a, SlotSeen
  <2>3. /\ view[p][cur[p]].last \in TransitionStates
        /\ view[p][cur[p]].last \in journal[cur[p]].seen
    <3>1. view[p][cur[p]].last \in TransitionStates
      BY <1>a, <2>a DEF Tracked, PendingTracked
    <3>2. QED
      BY <1>b, <2>a, <3>1 DEF ProcessInOrder, MemoryCurrent, TransitionStates
  <2>4. (verdict'[p] = "FAILED" /\ at[target[cur[p]]] = cur[p])
           => WasQuarantined(journal[cur[p]]) \/ cur[p] \in missed'
    <3>1. SUFFICES ASSUME verdict'[p] = "FAILED", at[target[cur[p]]] = cur[p],
                          ~WasQuarantined(journal[cur[p]]), cur[p] \notin missed'
                   PROVE  FALSE
      OBVIOUS
    <3>2. seen = "match"
      BY <2>b, <3>1
    <3>3. view[p][cur[p]].last = "QUARANTINING"
      BY <1>a, <2>a, <2>3, <3>1 DEF DiskGrounded, Placed, TransitionStates
    <3>4. observed[p] = "error"
      BY <1>a, <2>a, <3>1, <3>3 DEF ProcessGrounded, VerdictPlaced
    <3>5. QED
      BY <2>a, <3>1, <3>2, <3>3, <3>4 DEF MoveVerdict
  <2>5. verdict'[p] = "QUARANTINE_COMMITTED_UNJOURNALED" => at[target[cur[p]]] = cur[p]
    BY <2>a, <2>b DEF MoveVerdict
  <2>c. verdict'[p] = "RESTORE_COMMITTED_UNJOURNALED" => at[target[cur[p]]] # cur[p]
    BY <1>a, <2>a DEF MoveVerdict, ProcessGrounded, VerdictPlaced
  <2>6. VerdictPlaced(p)'
    BY <2>1, <2>a, <2>4, <2>5, <2>c DEF VerdictPlaced, WasQuarantined
  <2>7. SessionApart(p)'
    BY <1>b, <2>1, <2>a, ApartOutside
       DEF SessionSteps, ItemOwned, OwnerSteps, QuarantineAppends
  <2>8. OwnerPlaced(p)' /\ RestorePlaced(p)'
    BY <2>a DEF OwnerPlaced, RestorePlaced, BeforeMove
  <2>9. QED
    BY <1>a, <2>1, <2>b, <2>6, <2>7, <2>8, DiskQuiet, MoverGrounds DEF ProcessGrounded
<1>5. CASE RecordVerdict(p)
  <2>1. pc[p] = "record" /\ cur[p] \in Recoveries /\ UNCHANGED <<at, missed, op, todo>>
    BY <1>5, <1>b DEF RecordVerdict, ItemSteps
  <2>2. UNCHANGED journal \/ Recorded(cur[p], verdict[p])
    BY <1>5, AppendOutcome DEF RecordVerdict
  <2>3. /\ verdict[p] \in {"FAILED", "QUARANTINE_COMMITTED_UNJOURNALED",
                           "RESTORE_COMMITTED_UNJOURNALED"}
        /\ verdict[p] = "FAILED" /\ at[target[cur[p]]] = cur[p]
             => WasQuarantined(journal[cur[p]]) \/ cur[p] \in missed
        /\ verdict[p] = "QUARANTINE_COMMITTED_UNJOURNALED" => at[target[cur[p]]] = cur[p]
        /\ verdict[p] = "RESTORE_COMMITTED_UNJOURNALED" => at[target[cur[p]]] # cur[p]
    BY <1>a, <1>b, <2>1 DEF ProcessInOrder, VerdictHolds, ProcessGrounded, VerdictPlaced
  <2>4. Fits(cur[p], verdict[p])
    BY <2>3 DEF Fits, QuarantinedStates, RestoredStates
  <2>5. DiskGrounded'
    BY <1>a, <2>1, <2>2, <2>3, <2>4, DiskRecord DEF Status
  <2>6. pc'[p] = "pending"
    BY <1>5 DEF RecordVerdict, Goto, TypeOK, LocalTypeOK
  <2>7. ProcessGrounded(p)'
    BY <1>b, <2>1, <2>6, ApartOutside, UnplacedGrounded
       DEF Unplaced, SessionSteps, ItemOwned, OwnerSteps, QuarantineAppends
  <2>8. QED
    BY <2>5, <2>7, MoverGrounds
<1>6. QED
  BY <1>1, <1>2, <1>3, <1>4, <1>5 DEF Reconcile

LEMMA GroundedExecute ==
  ASSUME OneProcess, TypeOK, Consistent, Settled, Grounded, NEW p \in Procs, Execute(p)
  PROVE  Grounded'
<1> USE DEF OwnerSteps, QuarantineAppends, BeforeMove, ItemOwned
<1>a. Tracked(p) /\ ProcessGrounded(p) /\ DiskGrounded
  BY DEF Settled, Grounded
<1>b. /\ pc[p] \in ItemSteps => cur[p] \in Recoveries
      /\ SessionApart(p) /\ OwnerPlaced(p)
  BY <1>a DEF TypeOK, ItemTypeOK, ProcessGrounded
<1>1. CASE EnterSession(p)
  <2>1. /\ UNCHANGED <<journal, at, missed, op, todo>> /\ op[p] = "execute"
        /\ pc'[p] = "revalidate"
    BY <1>1 DEF EnterSession, disk, Goto, TypeOK, LocalTypeOK
  <2>2. Settled'
    BY <1>1, SettledExecute DEF Execute
  <2>3. \A r \in Recoveries : journal'[r].last \notin TransitionStates
    BY <2>1, <2>2 DEF Settled, SessionStartsSettled
  <2>4. SessionApart(p)'
    BY <1>b, <2>1, <2>3 DEF SessionApart
  <2>5. ProcessGrounded(p)'
    BY <2>1, <2>4, UnplacedGrounded DEF Unplaced
  <2>6. QED
    BY <1>a, <2>1, <2>5, DiskQuiet, MoverGrounds
<1>2. CASE Revalidate(p)
  <2>1. UNCHANGED <<journal, at, missed>> /\ pc[p] = "revalidate"
    BY <1>2 DEF Revalidate, disk
  <2>2. CASE Finish(p)
    BY <1>a, <1>b, <2>1, <2>2, DiskQuiet, FinishGrounded, MoverGrounds
  <2>3. CASE Step(p, "item")
    <3>1. pc'[p] = "item" /\ op'[p] = op[p] /\ todo'[p] = todo[p]
      BY <2>3, StepIs DEF Steps
    <3>2. SessionApart(p)'
      BY <1>b, <2>1, <3>1 DEF SessionApart, SessionSteps
    <3>3. QED
      BY <1>a, <2>1, <3>1, <3>2, UnplacedGrounded, DiskQuiet, MoverGrounds DEF Unplaced
  <2>4. QED
    BY <1>2, <2>2, <2>3 DEF Revalidate
<1>3. CASE NextItem(p)
  <2>1. UNCHANGED <<journal, at, missed>> /\ pc[p] = "item" /\ op' = op
    BY <1>3 DEF NextItem, disk, KeepMemory
  <2>2. PICK r \in todo[p] :
          /\ todo' = [todo EXCEPT ![p] = @ \ {r}]
          /\ \/ Admissible(r) /\ cur' = [cur EXCEPT ![p] = r] /\ Goto(p, "claim")
             \/ UNCHANGED <<pc, cur>>
    BY <1>3 DEF NextItem
  <2>3. r \in Recoveries /\ todo'[p] = todo[p] \ {r}
    BY <2>2 DEF TypeOK, LocalTypeOK
  <2>4. CASE UNCHANGED <<pc, cur>>
    <3>1. SessionApart(p)'
      BY <1>b, <2>1, <2>3, <2>4 DEF SessionApart, SessionSteps
    <3>2. QED
      BY <1>a, <2>1, <2>4, <3>1, UnplacedGrounded, DiskQuiet, MoverGrounds DEF Unplaced
  <2>5. CASE Admissible(r) /\ cur' = [cur EXCEPT ![p] = r] /\ Goto(p, "claim")
    <3>1. pc'[p] = "claim" /\ cur'[p] = r /\ at[target[r]] = home[r]
      BY <2>1, <2>5, Sight DEF Admissible, Goto, TypeOK, LocalTypeOK
    <3>2. SessionApart(p)'
      <4>1. op[p] = "execute" /\ \A s, t \in todo[p] : home[s] = home[t] => s = t
        BY <1>b, <2>1 DEF SessionApart, SessionSteps
      <4>2. \A t \in Recoveries : journal[t].last \in TransitionStates =>
              \A s \in todo[p] : home[s] # home[t]
        BY <1>b, <2>1 DEF SessionApart, SessionSteps
      <4>3. QED
        BY <2>1, <2>3, <3>1, <4>1, <4>2 DEF SessionApart, SessionSteps
    <3>3. OwnerPlaced(p)' /\ VerdictPlaced(p)' /\ RestorePlaced(p)'
      BY <2>1, <3>1 DEF OwnerPlaced, VerdictPlaced, RestorePlaced
    <3>4. QED
      BY <1>a, <2>1, <3>2, <3>3, DiskQuiet, MoverGrounds DEF ProcessGrounded
  <2>6. QED
    BY <2>2, <2>4, <2>5
<1>4. CASE ItemsDone(p)
  BY <1>4, <1>a, <1>b, DiskQuiet, FinishGrounded, MoverGrounds DEF ItemsDone, disk
<1>5. CASE CreateClaim(p) \/ FillClaim(p)
  <2>1. /\ UNCHANGED <<journal, at, missed>> /\ pc[p] \in {"claim", "fill"}
        /\ cur[p] \in Recoveries
    BY <1>5, <1>b DEF CreateClaim, FillClaim, ItemSteps
  <2>2. CASE ItemEnds(p)
    BY <1>a, <1>b, <2>1, <2>2, DiskQuiet, ItemEndsGrounded, MoverGrounds
  <2>3. CASE ~ItemEnds(p)
    <3>1. PICK step \in {"fill", "appendClaimed"} : Step(p, step)
      BY <1>5, <2>3 DEF CreateClaim, FillClaim
    <3>2. "QUARANTINING" \notin journal[cur[p]].seen
      <4>1. pc[p] = "claim" => claim[cur[p]] = "absent"
        BY <1>5, <2>3 DEF CreateClaim, FillClaim
      <4>2. QED
        BY <1>b, <2>1, <4>1 DEF OwnerPlaced, Consistent, DiskConsistent
    <3>3. at[target[cur[p]]] \in {home[cur[p]], Nowhere}
      BY <1>b, <2>1 DEF OwnerPlaced
    <3>4. QED
      BY <1>a, <1>b, <2>1, <3>1, <3>2, <3>3, OwnerGrounded, DiskQuiet, MoverGrounds
  <2>4. QED
    BY <2>2, <2>3
<1>6. CASE AppendClaimed(p) \/ AppendPlanned(p) \/ AppendQuarantining(p)
  <2>1. PICK s \in {"AUTHORIZATION_CLAIMED", "PLANNED", "QUARANTINING"} :
          /\ Append(p, cur[p], s) \/ AppendFails(p, cur[p], s)
          /\ \/ pc[p] = "appendClaimed" /\ s = "AUTHORIZATION_CLAIMED"
             \/ pc[p] = "appendPlanned" /\ s = "PLANNED"
             \/ pc[p] = "appendQuarantining" /\ s = "QUARANTINING"
          /\ \/ Append(p, cur[p], s) /\ s = "AUTHORIZATION_CLAIMED" /\ Step(p, "appendPlanned")
             \/ Append(p, cur[p], s) /\ s = "PLANNED" /\ Step(p, "appendQuarantining")
             \/ Append(p, cur[p], s) /\ s = "QUARANTINING" /\ Step(p, "recheck")
             \/ ItemEnds(p)
             \/ Step(p, "failed")
    BY <1>6 DEF AppendClaimed, AppendPlanned, AppendQuarantining
  <2>2. cur[p] \in Recoveries /\ UNCHANGED <<at, missed>>
    BY <1>6, <1>b DEF AppendClaimed, AppendPlanned, AppendQuarantining, ItemSteps
  <2>3. /\ "QUARANTINING" \notin journal[cur[p]].seen
        /\ at[target[cur[p]]] \in {home[cur[p]], Nowhere}
    BY <1>b, <2>1 DEF OwnerPlaced
  <2>4. UNCHANGED journal \/ Recorded(cur[p], s)
    BY <2>1, AppendOutcome
  <2>5. DiskGrounded'
    BY <1>a, <2>1, <2>2, <2>3, <2>4, DiskRecord
       DEF Fits, Status, QuarantinedStates, RestoredStates
  <2>6. \A r \in Recoveries \ {cur[p]} : journal'[r] = journal[r]
    BY <2>2, <2>4, RecordedIs
  <2>7. Append(p, cur[p], s) => /\ journal'[cur[p]].last = s
                                /\ journal'[cur[p]].seen = journal[cur[p]].seen \cup {s}
    BY <2>2, RecordedIs DEF Append, Recorded
  <2>8. ProcessGrounded(p)'
    <3>1. CASE ItemEnds(p)
      BY <1>b, <2>1, <2>2, <2>6, <3>1, ItemEndsGrounded
    <3>2. CASE Step(p, "failed")
      BY <1>b, <2>1, <2>2, <2>6, <3>2, OwnerGrounded
    <3>3. CASE /\ Append(p, cur[p], s)
               /\ \/ s = "AUTHORIZATION_CLAIMED" /\ Step(p, "appendPlanned")
                  \/ s = "PLANNED" /\ Step(p, "appendQuarantining")
                  \/ s = "QUARANTINING" /\ Step(p, "recheck")
      <4>1. PICK step \in {"appendPlanned", "appendQuarantining", "recheck"} :
              /\ Step(p, step)
              /\ step = "recheck" => s = "QUARANTINING"
              /\ step # "recheck" => s # "QUARANTINING"
        BY <3>3
      <4>2. step # "recheck" => "QUARANTINING" \notin journal'[cur[p]].seen
        BY <2>3, <2>7, <3>3, <4>1
      <4>3. QED
        BY <1>b, <2>1, <2>2, <2>3, <2>6, <2>7, <3>3, <4>1, <4>2, OwnerGrounded
    <3>4. QED
      BY <2>1, <3>1, <3>2, <3>3
  <2>9. QED
    BY <2>5, <2>8, MoverGrounds
<1>7. CASE Recheck(p)
  <2>1. /\ UNCHANGED <<journal, at, missed>> /\ pc[p] = "recheck" /\ cur[p] \in Recoveries
    BY <1>7, <1>b DEF Recheck, disk, ItemSteps
  <2>2. PICK step \in {"rename", "failed"} : Step(p, step)
    BY <1>7 DEF Recheck
  <2>3. /\ at[target[cur[p]]] \in {home[cur[p]], Nowhere}
        /\ journal[cur[p]].last = "QUARANTINING"
    BY <1>b, <2>1 DEF OwnerPlaced
  <2>4. QED
    BY <1>a, <1>b, <2>1, <2>2, <2>3, OwnerGrounded, DiskQuiet, MoverGrounds
<1>8. CASE Rename(p)
  <2>1. /\ UNCHANGED <<journal, claim, missed>> /\ pc[p] = "rename" /\ cur[p] \in Recoveries
    BY <1>8, <1>b DEF Rename, ItemSteps
  <2>2. CASE Step(p, "failed")
    <3>1. Enters(p) \/ UNCHANGED at
      BY <1>8, <2>1 DEF Rename, Enters
    <3>2. DiskGrounded'
      BY <1>a, <1>b, <2>1, <3>1, DiskQuiet, DiskEnters
    <3>3. QED
      BY <1>b, <2>1, <2>2, <3>2, OwnerGrounded, MoverGrounds
  <2>3. CASE Step(p, "appendQuarantined") /\ ~Step(p, "failed")
    <3>1. Enters(p)
      BY <1>8, <2>1, <2>3 DEF Rename, Enters
    <3>2. DiskGrounded'
      BY <1>a, <1>b, <2>1, <3>1, DiskEnters
    <3>3. at'[target[cur[p]]] = cur[p]
      BY <1>a, <2>1, <3>1, EnterMoves, TargetIs DEF DiskGrounded
    <3>4. QED
      BY <1>b, <2>1, <2>3, <3>2, <3>3, OwnerGrounded, MoverGrounds
  <2>4. QED
    BY <1>8, <2>2, <2>3 DEF Rename
<1>9. CASE HandleFailure(p)
  <2>1. /\ UNCHANGED <<journal, at>> /\ pc[p] = "failed" /\ cur[p] \in Recoveries
    BY <1>9, <1>b DEF HandleFailure, ItemSteps
  <2>2. PICK source \in Look(home[cur[p]], target[cur[p]]),
             seen \in Look(cur[p], target[cur[p]]) :
          /\ \/ Committed(source, seen) /\ Step(p, "appendCommitted")
             \/ ~Committed(source, seen) /\ Step(p, "appendFailed")
          /\ NoteSlot(cur[p], seen)
    BY <1>9 DEF HandleFailure
  <2>3. PICK step \in {"appendCommitted", "appendFailed"} :
          /\ Step(p, step)
          /\ step = "appendCommitted" <=> Committed(source, seen)
    BY <2>2
  <2>4. /\ missed \subseteq missed'
        /\ at[target[cur[p]]] = cur[p] /\ seen # "match" => cur[p] \in missed'
        /\ seen = "match" => at[target[cur[p]]] = cur[p]
    BY <2>1, <2>2, SlotSeen
  <2>5. step = "appendCommitted" => at[target[cur[p]]] = cur[p]
    BY <2>3, <2>4 DEF Committed
  <2>6. step = "appendFailed" => at[target[cur[p]]] # cur[p] \/ cur[p] \in missed'
    BY <1>a, <2>1, <2>3, <2>4, HomeFree DEF Committed, DiskGrounded
  <2>7. DiskGrounded'
    BY <1>a, <2>1, <2>4, DiskQuiet
  <2>8. ProcessGrounded(p)'
    BY <1>b, <2>1, <2>3, <2>5, <2>6, OwnerGrounded
  <2>9. QED
    BY <2>7, <2>8, MoverGrounds
<1>10. CASE AppendQuarantined(p) \/ AppendCommitted(p) \/ AppendFailed(p)
  <2>1. PICK s \in {"QUARANTINED", "QUARANTINE_COMMITTED_UNJOURNALED", "FAILED"} :
          /\ Append(p, cur[p], s) \/ AppendFails(p, cur[p], s)
          /\ pc[p] \in {"appendQuarantined", "appendCommitted", "appendFailed"}
          /\ s = "FAILED" <=> pc[p] = "appendFailed"
          /\ ItemEnds(p) \/ (s = "QUARANTINED" /\ Step(p, "appendCommitted"))
    BY <1>10 DEF AppendQuarantined, AppendCommitted, AppendFailed
  <2>2. cur[p] \in Recoveries /\ UNCHANGED <<at, missed>>
    BY <1>10, <1>b DEF AppendQuarantined, AppendCommitted, AppendFailed, ItemSteps
  <2>3. IF s = "FAILED" THEN at[target[cur[p]]] # cur[p] \/ cur[p] \in missed
        ELSE at[target[cur[p]]] = cur[p]
    BY <1>b, <2>1 DEF OwnerPlaced
  <2>4. UNCHANGED journal \/ Recorded(cur[p], s)
    BY <2>1, AppendOutcome
  <2>5. DiskGrounded'
    BY <1>a, <2>1, <2>2, <2>3, <2>4, DiskRecord
       DEF Fits, Status, QuarantinedStates, RestoredStates
  <2>6. \A r \in Recoveries \ {cur[p]} : journal'[r] = journal[r]
    BY <2>2, <2>4, RecordedIs
  <2>7. ProcessGrounded(p)'
    BY <1>b, <2>1, <2>2, <2>3, <2>6, ItemEndsGrounded, OwnerGrounded
  <2>8. QED
    BY <2>5, <2>7, MoverGrounds
<1>11. QED
  BY <1>1, <1>2, <1>3, <1>4, <1>5, <1>6, <1>7, <1>8, <1>9, <1>10 DEF Execute

LEMMA GroundedRestore ==
  ASSUME OneProcess, TypeOK, Consistent, Settled, Grounded, NEW p \in Procs, Restore(p)
  PROVE  Grounded'
<1> USE DEF RestoreSteps, RestoreAppends
<1>a. Tracked(p) /\ ProcessGrounded(p) /\ DiskGrounded
  BY DEF Settled, Grounded
<1>b. /\ pc[p] \in ItemSteps => cur[p] \in Recoveries
      /\ SessionApart(p) /\ RestorePlaced(p)
  BY <1>a DEF TypeOK, ItemTypeOK, ProcessGrounded
<1>c. pc[p] \in RestoreSteps => WasQuarantined(journal[cur[p]])
  BY <1>a DEF Tracked, RestoreTracked
<1>1. CASE AnswerFromJournal(p)
  BY <1>1, <1>a, <1>b, DiskQuiet, FinishGrounded, MoverGrounds DEF AnswerFromJournal, disk
<1>2. CASE CheckRestore(p)
  <2>1. UNCHANGED <<journal, at, missed, op, todo>>
    BY <1>2 DEF CheckRestore, disk
  <2>2. PICK r \in todo[p] :
          /\ cur' = [cur EXCEPT ![p] = r]
          /\ (Restorable(r) /\ Goto(p, "appendRestoring")) \/ Goto(p, "restoreFailed")
    BY <1>2 DEF CheckRestore
  <2>3. /\ cur'[p] = r /\ pc'[p] \in {"appendRestoring", "restoreFailed"}
        /\ pc'[p] = "appendRestoring" => at[target[r]] = r
    BY <2>2, Sight DEF Restorable, Goto, TypeOK, LocalTypeOK
  <2>4. SessionApart(p)'
    BY <1>b, <2>1, <2>3, ApartOutside
       DEF SessionSteps, ItemOwned, OwnerSteps, QuarantineAppends
  <2>5. OwnerPlaced(p)' /\ VerdictPlaced(p)' /\ RestorePlaced(p)'
    BY <2>1, <2>3 DEF OwnerPlaced, VerdictPlaced, RestorePlaced, BeforeMove
  <2>6. QED
    BY <1>a, <2>1, <2>4, <2>5, DiskQuiet, MoverGrounds DEF ProcessGrounded
<1>3. CASE AppendRestoring(p)
  <2>1. cur[p] \in Recoveries /\ pc[p] = "appendRestoring" /\ UNCHANGED <<at, missed>>
    BY <1>3, <1>b DEF AppendRestoring, ItemSteps
  <2>2. UNCHANGED journal \/ Recorded(cur[p], "RESTORING")
    BY <1>3, AppendOutcome DEF AppendRestoring
  <2>3. at[target[cur[p]]] = cur[p] /\ WasQuarantined(journal[cur[p]])
    BY <1>b, <1>c, <2>1 DEF RestorePlaced
  <2>4. DiskGrounded'
    BY <1>a, <2>1, <2>2, <2>3, DiskRecord
       DEF Fits, Status, QuarantinedStates, RestoredStates
  <2>5. CASE Append(p, cur[p], "RESTORING") /\ Step(p, "renameBack")
    <3>1. journal'[cur[p]].last = "RESTORING"
      BY <2>1, <2>5, RecordedIs DEF Append, Recorded
    <3>2. QED
      BY <1>b, <2>1, <2>3, <2>4, <2>5, <3>1, RestoreGrounded, MoverGrounds
  <2>6. CASE Step(p, "restoreFailed")
    BY <1>b, <2>4, <2>6, RestoreGrounded, MoverGrounds
  <2>7. QED
    BY <1>3, <2>5, <2>6 DEF AppendRestoring
<1>4. CASE RenameBack(p)
  <2>1. UNCHANGED <<journal, claim, missed>> /\ pc[p] = "renameBack" /\ cur[p] \in Recoveries
    BY <1>4, <1>b DEF RenameBack, ItemSteps
  <2>2. Leaves(p) \/ UNCHANGED at
    BY <1>4, <2>1 DEF RenameBack, Leaves
  <2>3. DiskGrounded'
    BY <1>a, <1>b, <2>1, <2>2, DiskQuiet, DiskLeaves
  <2>4. CASE Step(p, "restoreFailed")
    BY <1>b, <2>3, <2>4, RestoreGrounded, MoverGrounds
  <2>5. CASE Step(p, "appendRestored") /\ ~Step(p, "restoreFailed")
    <3>1. Leaves(p)
      BY <1>4, <2>1, <2>5 DEF RenameBack, Leaves
    <3>2. at'[target[cur[p]]] # cur[p]
      BY <1>a, <2>1, <3>1, LeaveMoves, TargetIs DEF DiskGrounded
    <3>3. QED
      BY <1>b, <2>3, <2>5, <3>2, RestoreGrounded, MoverGrounds
  <2>6. QED
    BY <1>4, <2>4, <2>5 DEF RenameBack
<1>5. CASE HandleRestoreFailure(p)
  <2>1. UNCHANGED <<journal, at, missed>>
    BY <1>5 DEF HandleRestoreFailure, disk
  <2>2. PICK step \in {"appendRestoreCommitted", "appendRestoreFailed"} :
          /\ Step(p, step)
          /\ step = "appendRestoreCommitted" => at[target[cur[p]]] = home[cur[p]]
    BY <1>5, Sight DEF HandleRestoreFailure, Committed
  <2>3. cur[p] \in Recoveries
    BY <1>5, <1>b DEF HandleRestoreFailure, ItemSteps
  <2>4. QED
    BY <1>a, <1>b, <2>1, <2>2, <2>3, TargetIs, RestoreGrounded, DiskQuiet, MoverGrounds
<1>6. CASE AppendRestored(p) \/ AppendRestoreCommitted(p) \/ AppendRestoreFailed(p)
  <2>1. PICK s \in {"RESTORED", "RESTORE_COMMITTED_UNJOURNALED", "FAILED"} :
          /\ Append(p, cur[p], s) \/ AppendFails(p, cur[p], s)
          /\ pc[p] \in RestoreSteps
          /\ s # "FAILED" => pc[p] \in {"appendRestored", "appendRestoreCommitted"}
          /\ Finish(p) \/ (s = "RESTORED" /\ Step(p, "appendRestoreCommitted"))
    BY <1>6 DEF AppendRestored, AppendRestoreCommitted, AppendRestoreFailed
  <2>2. cur[p] \in Recoveries /\ UNCHANGED <<at, missed>>
    BY <1>6, <1>b, <2>1 DEF AppendRestored, AppendRestoreCommitted, AppendRestoreFailed, ItemSteps
  <2>3. DiskGrounded'
    <3>1. s # "FAILED" => at[target[cur[p]]] # cur[p]
      BY <1>b, <2>1 DEF RestorePlaced
    <3>2. Fits(cur[p], s)
      BY <1>c, <2>1, <3>1 DEF Fits, QuarantinedStates, RestoredStates
    <3>3. QED
      BY <1>a, <2>1, <2>2, <3>2, AppendOutcome, DiskRecord DEF Status
  <2>4. ProcessGrounded(p)'
    BY <1>b, <2>1, <2>2, FinishGrounded, RestoreGrounded DEF RestorePlaced
  <2>5. QED
    BY <2>3, <2>4, MoverGrounds
<1>7. QED
  BY <1>1, <1>2, <1>3, <1>4, <1>5, <1>6 DEF Restore

LEMMA GroundedTool ==
  ASSUME TypeOK, Grounded, Tool, Spares = {}
  PROVE  Grounded'
<1>1. /\ UNCHANGED <<journal, missed, local>> /\ DiskGrounded'
      /\ \A o \in Objects : at'[o] = at[o] \/ (at[o] \in Paths /\ at'[o] = Nowhere)
  BY ToolTakes, DiskTool DEF Grounded
<1>2. ASSUME NEW p \in Procs PROVE ProcessGrounded(p)'
  <2>1. ProcessGrounded(p) /\ (pc[p] \in ItemSteps => cur[p] \in Recoveries)
    BY DEF Grounded, TypeOK, ItemTypeOK
  <2>2. cur[p] \in Recoveries =>
          /\ at'[target[cur[p]]] = at[target[cur[p]]] \/ at'[target[cur[p]]] = Nowhere
          /\ at'[target[cur[p]]] = cur[p] <=> at[target[cur[p]]] = cur[p]
    BY <1>1, TargetIs
  <2>3. OwnerPlaced(p)'
    BY <1>1, <2>1, <2>2
       DEF ProcessGrounded, OwnerPlaced, ItemSteps, OwnerSteps, BeforeMove, QuarantineAppends,
           local
  <2>4. VerdictPlaced(p)' /\ RestorePlaced(p)'
    BY <1>1, <2>1, <2>2
       DEF ProcessGrounded, VerdictPlaced, RestorePlaced, ItemSteps, RestoreSteps,
           RestoreAppends, WasQuarantined, local
  <2>5. SessionApart(p)'
    BY <1>1, <2>1 DEF ProcessGrounded, SessionApart, local
  <2>6. QED
    BY <2>3, <2>4, <2>5 DEF ProcessGrounded
<1>3. QED
  BY <1>1, <1>2 DEF Grounded

LEMMA GroundedQuiet ==
  ASSUME Grounded, UNCHANGED vars
  PROVE  Grounded'
<1>1. DiskGrounded'
  BY DiskQuiet DEF Grounded, vars
<1>2. ASSUME NEW p \in Procs PROVE ProcessGrounded(p)'
  <2>1. ProcessGrounded(p)
    BY DEF Grounded
  <2>2. OwnerPlaced(p)' /\ RestorePlaced(p)' /\ SessionApart(p)'
    BY <2>1 DEF vars, ProcessGrounded, OwnerPlaced, RestorePlaced, SessionApart
  <2>3. VerdictPlaced(p)'
    BY <2>1 DEF vars, ProcessGrounded, VerdictPlaced, WasQuarantined
  <2>4. QED
    BY <2>2, <2>3 DEF ProcessGrounded
<1>3. QED
  BY <1>1, <1>2 DEF Grounded

-----------------------------------------------------------------------------
(* The theorems about the directories. *)

LEMMA GroundedInit == Init => Grounded
<1> SUFFICES ASSUME Init PROVE Grounded
  OBVIOUS
<1>1. Homebound
  BY ConstantsAssumption DEF Init, Homebound, ConstantsAssumption
<1>2. \A r \in Recoveries : journal[r].last = "NONE" /\ journal[r].seen = {} /\ ~Occupied(r)
  <2>1. ASSUME NEW o \in Objects PROVE at[o] \notin Recoveries
    <3>1. CASE \E r \in Recoveries : target[r] = o
      <4> DEFINE first == CHOOSE r \in Recoveries : target[r] = o
      <4>1. first \in Recoveries /\ at[o] = home[first]
        BY <3>1 DEF Init
      <4>2. QED
        BY <4>1, ConstantsAssumption DEF ConstantsAssumption
    <3>2. CASE ~\E r \in Recoveries : target[r] = o
      BY <3>2, ConstantsAssumption DEF Init, ConstantsAssumption
    <3>3. QED
      BY <3>1, <3>2
  <2>2. QED
    BY <2>1 DEF Init, NoEntries, Occupied
<1>3. DiskGrounded
  BY <1>1, <1>2 DEF DiskGrounded, StrandedOnlyUnseen, Placed, QuarantinedStates, TransitionStates,
     RestoredStates
<1>4. ASSUME NEW p \in Procs PROVE ProcessGrounded(p)
  BY DEF Init, ProcessGrounded, OwnerPlaced, VerdictPlaced, RestorePlaced, SessionApart,
     SessionSteps, ItemOwned, OwnerSteps, BeforeMove, QuarantineAppends
<1>5. QED
  BY <1>3, <1>4 DEF Grounded

LEMMA GroundedNext ==
  ASSUME OneProcess, Spares = {}, DistinctHomes, TypeOK, Consistent, Settled, Grounded,
         [Next]_vars
  PROVE  Grounded'
<1>1. CASE UNCHANGED vars
  BY <1>1, GroundedQuiet
<1>2. ASSUME NEW p \in Procs, Works(p) PROVE Grounded'
  BY <1>2, GroundedReconcile, GroundedExecute, GroundedRestore DEF Works
<1>3. ASSUME NEW p \in Procs, Starts(p) PROVE Grounded'
  <2>1. UNCHANGED <<journal, at, missed>> /\ pc'[p] = "inventory"
    BY <1>3 DEF Starts, StartExecute, StartUndo, StartStatus, Start, Goto, disk, TypeOK,
       LocalTypeOK
  <2>2. op'[p] = "execute" => todo'[p] \in Plans
    BY <1>3 DEF Starts, StartExecute, StartUndo, StartStatus, Start, TypeOK, LocalTypeOK
  <2>3. SessionApart(p)'
    BY <2>1, <2>2 DEF DistinctHomes, SessionApart, SessionSteps, ItemOwned, OwnerSteps,
       QuarantineAppends
  <2>4. QED
    BY <2>1, <2>3, UnplacedGrounded, DiskQuiet, MoverGrounds DEF Grounded, Unplaced
<1>4. ASSUME NEW p \in Procs, Crash(p) PROVE Grounded'
  BY <1>4, FinishGrounded, DiskQuiet, MoverGrounds DEF Crash, Grounded, ProcessGrounded
<1>5. CASE Tool
  BY <1>5, GroundedTool
<1>6. QED
  BY <1>1, <1>2, <1>3, <1>4, <1>5 DEF Next, Environment, Tool

\* The invariant of the directories holds throughout: the journal and the place of
\* every payload agree as _observe_identity and the moves assume.
THEOREM AlwaysGrounded ==
  ASSUME OneProcess, Spares = {}, DistinctHomes
  PROVE  Spec => []Grounded
<1>1. TypeOK /\ Consistent /\ Settled /\ Grounded /\ [Next]_vars => Grounded'
  BY GroundedNext
<1>2. QED
  BY <1>1, GroundedInit, TypeCorrect, AlwaysConsistent, AlwaysSettled, PTL DEF Spec

-----------------------------------------------------------------------------

\* With one process, nothing is appended to a lifecycle after RESTORED or
\* RESTORE_COMMITTED_UNJOURNALED that is not one of the two again: reconciliation
\* never takes a restored recovery for an unfinished one.
THEOREM RestoredStaysRestored ==
  ASSUME OneProcess
  PROVE  Spec => []RestoredIsTerminal
<1>1. Settled => RestoredIsTerminal
  BY DEF Settled
<1>2. QED
  BY <1>1, AlwaysSettled, PTL

\* With one process, a session that passed the recovery gate finds no move of any
\* plan under way and no claim of its own plan without a record: the gate decides
\* on its copy of the journal, and the copy is good enough.
THEOREM GateSettles ==
  ASSUME OneProcess
  PROVE  Spec => []SessionStartsSettled
<1>1. Settled => SessionStartsSettled
  BY DEF Settled
<1>2. QED
  BY <1>1, AlwaysSettled, PTL

\* With one process, and no tool that makes the original path anew, a payload that
\* is in its slot is called FAILED, with no quarantined record that Undo can start
\* from, only after an observation of the filled slot has failed: no crash, failed
\* append or rename and no deletion by the tool leads reconciliation or the failure
\* handler to that record.
THEOREM NoneStranded ==
  ASSUME OneProcess, Spares = {}, DistinctHomes
  PROVE  Spec => []StrandedOnlyUnseen
<1>1. Grounded => StrandedOnlyUnseen
  BY DEF Grounded, DiskGrounded
<1>2. QED
  BY <1>1, AlwaysGrounded, PTL

LEMMA BlockersKnown ==
  ASSUME TypeOK, Consistent, Grounded, Spares = {}, Undisturbed, ~Blocked
  PROVE  ~InventoryFails(journal)
<1>1. SUFFICES ASSUME NEW r \in Recoveries
               PROVE  /\ ~UnexpectedPayload(journal, r)
                      /\ ~ChangedPayload(journal, r)
                      /\ ~MissingPayload(journal, r)
  BY DEF InventoryFails
<1>2. Placed(r) /\ journal[r].last \in Status \cup {"NONE"}
  BY DEF Grounded, DiskGrounded, TypeOK, SharedTypeOK, Lifecycle
<1>3. Occupied(r) <=> at[target[r]] = r
  BY AtHome, TargetIs DEF Occupied, Grounded, DiskGrounded
<1>4. ~UnexpectedPayload(journal, r)
  <2>1. SUFFICES ASSUME Occupied(r), journal[r].last \notin PayloadStates PROVE FALSE
    BY DEF UnexpectedPayload
  <2>2. journal[r].last \in RestoredStates
    BY <1>2, <2>1 DEF Placed, Status, PayloadStates, QuarantinedStates, TransitionStates,
       RestoredStates
  <2>3. QED
    BY <1>2, <1>3, <2>1, <2>2 DEF Placed
<1>5. ~ChangedPayload(journal, r)
  BY <1>3 DEF ChangedPayload
<1>6. ~MissingPayload(journal, r)
  <2>1. SUFFICES ASSUME journal[r].last \in PayloadStates, ~Occupied(r),
                        ~(journal[r].last \in TransitionStates /\ at[target[r]] = home[r])
                 PROVE  FALSE
    BY DEF MissingPayload
  <2>2. journal[r].last # "FAILED"
    BY <2>1 DEF Blocked
  <2>3. journal[r].last \notin QuarantinedStates
    BY <1>2, <1>3, <2>1 DEF Placed
  <2>4. journal[r].last \in TransitionStates
    BY <2>1, <2>2, <2>3 DEF PayloadStates
  <2>5. at[target[r]] # Nowhere
    BY TargetIs DEF Undisturbed
  <2>6. QED
    BY <1>2, <1>3, <2>1, <2>4, <2>5 DEF Placed
<1>7. QED
  BY <1>4, <1>5, <1>6

\* With one process, and nobody else at the directories, the inventory refuses the
\* recovery state only for a torn journal, a malformed claim or a FAILED recovery
\* whose slot is empty: what any crash or failed step leaves is accepted.
THEOREM BlockersAreKnown ==
  ASSUME OneProcess, Spares = {}, DistinctHomes
  PROVE  Spec => []OnlyKnownBlockers
<1>1. TypeOK /\ Consistent /\ Grounded => OnlyKnownBlockers
  BY BlockersKnown DEF OnlyKnownBlockers
<1>2. QED
  BY <1>1, TypeCorrect, AlwaysConsistent, AlwaysGrounded, PTL

===============================================================================
