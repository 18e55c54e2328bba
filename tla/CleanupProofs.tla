----------------------------- MODULE CleanupProofs -----------------------------
(***************************************************************************)
(* Theorems about CleanupSession, for any tree of directories, any budget  *)
(* and any number of changes made by tools.                                *)
(*                                                                         *)
(* The invariant has three parts: what the disk is like (DiskOK), what the *)
(* scan under way has seen and has still to visit (ScanOK, Covers), and    *)
(* how the plan, the fresh evidence, the journal and the outcomes fit the  *)
(* disk in each phase of a session (SessionOK).                            *)
(***************************************************************************)
EXTENDS CleanupSession, SequenceTheorems, FiniteSetTheorems, NaturalsInduction,
        WellFoundedInduction, TLAPS

-----------------------------------------------------------------------------
(* The invariant. *)

Kinds == {"directory", "file", "link", "absent"}

\* The identities that objects have had so far.
Identities == 0..Cardinality(Paths) + events

\* A link stands somewhere only since a scan began that has noticed.
DiskOK ==
  /\ events \in Nat
  /\ at \in [Paths -> [kind : Kinds, id : Identities, content : Contents]]
  /\ \A p \in Paths : at[p].kind # "absent" => at[p].id # 0
  /\ linked \in BOOLEAN
  /\ (\E d \in Plain : at[d].kind = "link") => linked

\* A scan has these fields.
ScanShape(s) ==
  s \in [pc : {s.pc}, stack : {s.stack}, here : {s.here}, entries : {s.entries},
         metadata : {s.metadata}, budget : {s.budget}, failed : {s.failed},
         ambiguous : {s.ambiguous}, findings : {s.findings}]

\* An entry is looked at again, and a candidate analysed, within the budget.
ScanOK ==
  /\ ScanShape(scan)
  /\ scan.stack \in Seq(Paths)
  /\ scan.entries \subseteq Paths
  /\ scan.pc \in {"entry_again", "analyse", "size"} =>
       scan.entries # {} /\ scan.budget.termination = "completed"
  /\ scan.pc \in {"analyse", "size"} => Final(scan.entries) \in Candidates
  /\ \A finding \in scan.findings : finding.path \in Candidates

Chain(c) == Above[c] \cup {c}

\* The finding about c is about the object there and its content.
SeenAt(c, id, parts) == id = at[c].id /\ parts = at[c].content.parts

Found(c) ==
  \E finding \in scan.findings :
    finding.path = c /\ SeenAt(c, finding.id, finding.dir.parts)

\* The scan has still to pass a directory above c, or c itself.
Ahead(c) ==
  \/ scan.pc \in {"gate", "root"}
  \/ scan.pc # "done" /\ \E i \in 1..Len(scan.stack) : scan.stack[i] \in Above[c]
  \/ scan.pc \in {"again", "list"} /\ scan.here \in Above[c]
  \/ /\ scan.pc \in {"after", "entry", "entry_again", "analyse", "size"}
     /\ scan.entries \cap Chain(c) # {}

Whole(s) == s.budget.termination = "completed" /\ ~s.failed /\ ~s.ambiguous

\* As long as the scan has missed nothing, every candidate that has stood there all the time
\* has been found or is still ahead.
Covers ==
  /\ steady \subseteq Candidates
  /\ \A c \in steady : Ordinary(c)
  /\ scan.pc \notin {"idle", "raised"} /\ Whole(scan) =>
       \A c \in steady : Found(c) \/ Ahead(c)
  /\ scan.pc = "size" /\ Final(scan.entries) \in steady =>
       SeenAt(Final(scan.entries), scan.metadata.id, scan.metadata.content.parts)

-----------------------------------------------------------------------------

\* The planned object, if it is still there, is the one that was read under the identity.
ReadsPlanned(p, id) ==
  p \in DOMAIN plan /\ at[p].id = plan[p].identity /\ Ordinary(p) => id = at[p].id \/ linked

ScanReads ==
  /\ \A finding \in scan.findings : ReadsPlanned(finding.path, finding.id)
  /\ scan.pc = "size" => ReadsPlanned(Final(scan.entries), scan.metadata.id)

\* What was moved is not there any more, and never will be again.
Gone(p) == at[p].kind = "absent" \/ at[p].id # plan[p].identity

Phases == {"idle", "planning", "unplanned", "identify", "review", "recover", "rescan", "reidentify",
           "mutate", "interrupted", "reported"}
BeforePlan == {"idle", "planning", "unplanned", "identify"}
Executing == {"mutate", "interrupted"}

Records == {"none", "claimed", "planned", "quarantining", "quarantined", "committed", "failed",
            "never_began"}

SessionTypes ==
  /\ phase \in Phases
  /\ todo \subseteq Candidates
  /\ DOMAIN identities \subseteq Candidates /\ DOMAIN plan \subseteq Candidates
  /\ DOMAIN fresh \subseteq Candidates
  /\ \A p \in DOMAIN identities : identities[p] \in (Identities \ {0}) \cup {NoIdentity}
  /\ record \in [Candidates -> Records]
  /\ slot \in [Candidates -> Nat \cup {NoIdentity}]
  /\ moved \in [Candidates -> {"never", "now", "before"}]

\* What is planned is an object that was there and could be moved.
PlanOK ==
  /\ phase \in BeforePlan => DOMAIN plan = {}
  /\ \A p \in DOMAIN plan :
       /\ plan[p].identity \in Identities \ {0} /\ plan[p].identity # NoIdentity
       /\ Executable(plan[p].finding)

\* What was moved was planned, and is recorded.  The planned object may stand where it was only
\* if something else has been moved for it, which the inventory finds before the next scan.
MovesOK ==
  /\ \A p \in Candidates :
       /\ moved[p] # "never" => p \in DOMAIN plan /\ (Gone(p) \/ slot[p] # plan[p].identity)
       /\ moved[p] # "never" <=> slot[p] # NoIdentity
       /\ phase \in {"rescan", "reidentify"} /\ moved[p] # "never" => slot[p] = plan[p].identity
       /\ moved[p] = "now" => phase \in Executing \cup {"reported"}
       /\ record[p] \in {"quarantined", "committed"} => moved[p] # "never"
       /\ phase \in Executing => moved[p] # "before"
       /\ phase \in Executing /\ moved[p] = "now" =>
            record[p] \in {"quarantining", "quarantined", "committed"}

\* The fresh evidence is about the planned objects.
FreshOK ==
  /\ phase \notin Executing \cup {"reidentify"} => DOMAIN fresh = {}
  /\ phase = "reidentify" =>
       todo \subseteq DOMAIN plan /\ DOMAIN plan \subseteq DOMAIN fresh \cup todo
  /\ \A p \in DOMAIN fresh :
       /\ ReadsPlanned(p, fresh[p].finding.id)
       /\ p \in DOMAIN plan /\ moved[p] = "before" => fresh[p].identity # plan[p].identity
  /\ phase \in Executing => 
       /\ DOMAIN plan \subseteq DOMAIN fresh
       /\ \A p \in DOMAIN plan : Executable(fresh[p].finding) /\ ~SnapshotDiffers(plan[p], fresh[p])

\* The engine is at the first item of todo and has treated the others.
EngineOK ==
  /\ phase \notin Executing => stage = "begin"
  /\ phase \in Executing =>
       /\ scan.pc = "idle"
       /\ \A c \in steady : stage = "validated" /\ c = First(todo) /\ at[c].id = plan[c].identity
       /\ todo \subseteq DOMAIN plan
       /\ stage \in {"begin", "claimed", "planned", "quarantining", "validated", "moved"}
       /\ todo = {} => stage = "begin"
       /\ stage \in {"claimed", "planned", "quarantining"} => record[First(todo)] = stage
       /\ stage \in {"validated", "moved"} => record[First(todo)] = "quarantining"
       /\ \A p \in todo : moved[p] = "now" <=> p = First(todo) /\ stage = "moved"
       /\ \A p \in DOMAIN plan \ todo :
            p \in DOMAIN outcomes /\ (outcomes[p] \in Achieved <=> moved[p] = "now")

SessionOK == SessionTypes /\ PlanOK /\ MovesOK /\ FreshOK /\ EngineOK

CleanupInvariant == DiskOK /\ ScanOK /\ Covers /\ ScanReads /\ SessionOK

-----------------------------------------------------------------------------
(* The order of the paths and their tree. *)

LEMMA Smallest ==
  ASSUME NEW S, S \subseteq Nat, S # {}
  PROVE  \E n \in S : \A m \in S : n <= m
<1> DEFINE naturals == {n \in Nat : n \in S}
<1>1. naturals # {}
  OBVIOUS
<1>2. PICK n \in naturals : \A m \in naturals : <<m, n>> \notin OpToRel(<, Nat)
  BY <1>1, NatLessThanWellFounded, WFMin, Zenon
<1>3. \A m \in naturals : ~(m < n)
  BY <1>2, Zenon DEF OpToRel
<1>4. QED
  BY <1>3

\* The first and the last of some paths are among them.
LEMMA FirstIn ==
  ASSUME NEW S, S \subseteq Paths, S # {}
  PROVE  First(S) \in S
<1> DEFINE places == {Position[p] : p \in S}
<1>1. \A p \in S : Position[p] \in Nat
  BY ScanAssumption, TreeAssumption, FS_CardinalityType
<1>2. places \subseteq Nat /\ places # {}
  BY <1>1
<1>3. PICK n \in places : \A m \in places : n <= m
  BY <1>2, Smallest, Zenon
<1>4. \E p \in S : \A q \in S : Position[p] <= Position[q]
  BY <1>3
<1>5. QED
  BY <1>4, Zenon DEF First

LEMMA FinalIn ==
  ASSUME NEW S, S \subseteq Paths, S # {}
  PROVE  Final(S) \in S
<1> DEFINE size == Cardinality(Paths)
           places == {size - Position[p] : p \in S}
<1>1. size \in Nat
  BY TreeAssumption, FS_CardinalityType
<1>2. \A p \in S : Position[p] \in 1..size
  BY ScanAssumption
<1>3. places \subseteq Nat /\ places # {}
  BY <1>1, <1>2
<1>4. PICK n \in places : \A m \in places : n <= m
  BY <1>3, Smallest, Zenon
<1>5. PICK p \in S : n = size - Position[p]
  BY <1>4
<1>6. \A q \in S : size - Position[p] <= size - Position[q]
  BY <1>4, <1>5
<1>7. \A q \in S : Position[q] <= Position[p]
  BY <1>1, <1>2, <1>6
<1>8. QED
  BY <1>7, Zenon DEF Final

\* A directory on the way to a path has an entry that is on the way too, or the path itself.
LEMMA NextOnTheWay ==
  ASSUME NEW c \in Paths, NEW d \in Above[c]
  PROVE  Entries(d) \cap Chain(c) # {}
<1> DEFINE below == {x \in Chain(c) : d \in Above[x]}
           depths == {Cardinality(Above[x]) : x \in below}
<1>1. \A x \in Chain(c) : x \in Paths /\ Above[x] \subseteq Above[c]
  BY TreeAssumption DEF Chain
<1>2. \A x \in Chain(c) : IsFiniteSet(Above[x]) /\ Cardinality(Above[x]) \in Nat
  BY <1>1, TreeAssumption, FS_Subset, FS_CardinalityType
<1>3. c \in below
  BY DEF Chain
<1>4. depths \subseteq Nat /\ depths # {}
  BY <1>2, <1>3
<1>5. PICK n \in depths : \A m \in depths : n <= m
  BY <1>4, Smallest, Zenon
<1>6. PICK x \in below : \A y \in below : Cardinality(Above[x]) <= Cardinality(Above[y])
  BY <1>5
<1>7. \A e \in Above[x] : d \notin Above[e]
  <2>1. SUFFICES ASSUME NEW e \in Above[x], d \in Above[e] PROVE FALSE
    OBVIOUS
  <2>2. e \in below
    BY <1>1, <2>1 DEF Chain
  <2>3. Above[e] \subseteq Above[x] /\ e \notin Above[e]
    BY <1>1, <2>2, TreeAssumption
  <2>4. /\ Cardinality(Above[e]) <= Cardinality(Above[x])
        /\ Cardinality(Above[e]) # Cardinality(Above[x])
    BY <1>2, <2>1, <2>3, FS_Subset
  <2>5. QED
    BY <1>2, <1>6, <2>2, <2>4
<1>8. x \in Entries(d)
  BY <1>1, <1>7 DEF Entries
<1>9. QED
  BY <1>8

\* Nothing stands between what is at a path on the way to an ordinary directory and lstat.
LEMMA StatOnTheWay ==
  ASSUME NEW c \in Paths, Ordinary(c), NEW q \in Chain(c)
  PROVE  LStat(q) = at[q] /\ at[q].kind = "directory"
<1>1. Above[q] \subseteq Above[c]
  BY TreeAssumption DEF Chain
<1>2. \A d \in Chain(c) : at[d].kind = "directory"
  BY DEF Ordinary, Chain
<1>3. \A d \in Above[q] : at[d].kind = "directory"
  BY <1>1, <1>2 DEF Chain
<1>4. QED
  BY <1>2, <1>3 DEF LStat

-----------------------------------------------------------------------------
(* What the steps of a scan do to its locals. *)

\* The disk stays, no finding is added, and what was missed stays missed.
Looks ==
  /\ UNCHANGED <<at, events, steady, linked>>
  /\ ScanShape(scan')
  /\ scan'.findings = scan.findings
  /\ Whole(scan') => Whole(scan)

\* Something has been missed.
Misses == ~Whole(scan') /\ scan'.pc \in {"pop", "entry", "done"}

LEMMA IdleShape ==
  /\ ScanShape(Idle)
  /\ Idle.pc = "idle" /\ Idle.stack = <<>> /\ Idle.entries = {} /\ Idle.findings = {}
  /\ ~Idle.failed /\ ~Idle.ambiguous
  BY DEF Idle, ScanShape

LEMMA DoneShape ==
  ASSUME NEW s, ScanShape(s)
  PROVE  /\ ScanShape(Done(s))
         /\ Done(s).pc = "done" /\ Done(s).stack = <<>> /\ Done(s).entries = {}
         /\ Done(s).budget = s.budget /\ Done(s).findings = s.findings
         /\ Done(s).failed = s.failed /\ Done(s).ambiguous = s.ambiguous
  BY DEF Done, ScanShape

LEMMA PassedOverShape ==
  ASSUME NEW s, ScanShape(s)
  PROVE  /\ ScanShape(PassedOver(s))
         /\ PassedOver(s).pc = "pop" /\ PassedOver(s).stack = s.stack /\ PassedOver(s).entries = {}
         /\ PassedOver(s).findings = s.findings
         /\ PassedOver(s).failed /\ PassedOver(s).ambiguous
  BY DEF PassedOver, ScanShape

LEMMA NextEntryShape ==
  ASSUME NEW s, ScanShape(s)
  PROVE  /\ ScanShape(NextEntry(s))
         /\ NextEntry(s).pc = "entry" /\ NextEntry(s).stack = s.stack
         /\ NextEntry(s).entries = s.entries \ {Final(s.entries)}
         /\ NextEntry(s).budget = s.budget /\ NextEntry(s).findings = s.findings
         /\ NextEntry(s).failed = s.failed /\ NextEntry(s).ambiguous = s.ambiguous
  BY DEF NextEntry, ScanShape

LEMMA LeaveLoopShape ==
  ASSUME NEW s, ScanShape(s)
  PROVE  /\ ScanShape(LeaveLoop(s))
         /\ LeaveLoop(s).pc = "pop" /\ LeaveLoop(s).stack = s.stack /\ LeaveLoop(s).entries = {}
         /\ LeaveLoop(s).budget = s.budget /\ LeaveLoop(s).findings = s.findings
         /\ LeaveLoop(s).failed = s.failed /\ LeaveLoop(s).ambiguous = s.ambiguous
  BY DEF LeaveLoop, ScanShape

LEMMA FailedShape ==
  ASSUME NEW s, ScanShape(s)
  PROVE  LET t == [s EXCEPT !.failed = TRUE]
         IN  /\ ScanShape(t) /\ t.pc = s.pc /\ t.stack = s.stack /\ t.entries = s.entries
             /\ t.findings = s.findings /\ t.failed
<1> DEFINE t == [s EXCEPT !.failed = TRUE]
<1>1. t.failed
  BY Zenon DEF ScanShape
<1>2. QED
  BY <1>1 DEF ScanShape

LEMMA AmbiguousShape ==
  ASSUME NEW s, ScanShape(s)
  PROVE  LET t == [s EXCEPT !.ambiguous = TRUE]
         IN  /\ ScanShape(t) /\ t.pc = s.pc /\ t.stack = s.stack /\ t.entries = s.entries
             /\ t.findings = s.findings /\ t.ambiguous
<1> DEFINE t == [s EXCEPT !.ambiguous = TRUE]
<1>1. t.ambiguous
  BY Zenon DEF ScanShape
<1>2. QED
  BY <1>1 DEF ScanShape

\* A budget that has run out stays so.
LEMMA SpentStaysSpent ==
  ASSUME NEW b, NEW isFile, NEW stop, ObserveNode(b, isFile, stop).termination = "completed"
  PROVE  b.termination = "completed"
  BY DEF ObserveNode, Poll

LEMMA PopOutcome ==
  ASSUME ScanOK, Pop
  PROVE  /\ Looks /\ scan'.entries \subseteq Paths /\ scan'.stack \in Seq(Paths)
         /\ \/ Misses
            \/ scan.stack = <<>> /\ scan'.pc = "done"
            \/ /\ scan.stack # <<>> /\ scan'.pc = "again" /\ scan'.stack = Tail(scan.stack)
               /\ scan'.here = Head(scan.stack)
<1>1. CASE scan.stack = <<>>
  <2>1. scan' = Done(scan) /\ UNCHANGED <<at, events, steady, linked>>
    BY <1>1 DEF Pop, Goes
  <2>2. QED
    BY <1>1, <2>1, DoneShape, EmptySeq DEF ScanOK, Looks, Whole
<1>2. CASE scan.stack # <<>>
  <2> DEFINE d == Head(scan.stack)
  <2>1. PICK stop \in BOOLEAN :
          LET b == ObserveNode(scan.budget, FALSE, stop)
              s == [scan EXCEPT !.budget = b, !.stack = Tail(@), !.here = d]
          IN  IF b.termination # "completed" THEN Goes(Done([scan EXCEPT !.budget = b]))
              ELSE IF LStat(d).kind # "directory" THEN Goes(PassedOver(s))
              ELSE Goes([s EXCEPT !.pc = "again", !.metadata = LStat(d)])
    BY <1>2 DEF Pop, ScanOK, ScanShape
  <2> DEFINE b == ObserveNode(scan.budget, FALSE, stop)
             s == [scan EXCEPT !.budget = b, !.stack = Tail(@), !.here = d]
             t == [scan EXCEPT !.budget = b]
             u == [s EXCEPT !.pc = "again", !.metadata = LStat(d)]
  <2>2. /\ ScanShape(t) /\ t.budget = b /\ t.findings = scan.findings
        /\ t.failed = scan.failed /\ t.ambiguous = scan.ambiguous
    BY DEF ScanOK, ScanShape
  <2>3. /\ ScanShape(s) /\ s.stack = Tail(scan.stack) /\ s.findings = scan.findings
        /\ s.entries = scan.entries
    BY DEF ScanOK, ScanShape
  <2>4. /\ ScanShape(u) /\ u.pc = "again" /\ u.here = d /\ u.budget = b
        /\ u.stack = Tail(scan.stack) /\ u.findings = scan.findings /\ u.entries = scan.entries
        /\ u.failed = scan.failed /\ u.ambiguous = scan.ambiguous
    BY DEF ScanOK, ScanShape
  <2>5. Tail(scan.stack) \in Seq(Paths)
    BY <1>2, HeadTailProperties DEF ScanOK
  <2>6. \/ b.termination # "completed" /\ Goes(Done(t))
        \/ b.termination = "completed" /\ LStat(d).kind # "directory" /\ Goes(PassedOver(s))
        \/ b.termination = "completed" /\ LStat(d).kind = "directory" /\ Goes(u)
    BY <2>1
  <2> HIDE DEF s, t, u
  <2>7. CASE b.termination # "completed" /\ Goes(Done(t))
    BY <2>2, <2>7, DoneShape, EmptySeq DEF Goes, Looks, Misses, Whole
  <2>8. CASE LStat(d).kind # "directory" /\ Goes(PassedOver(s))
    BY <2>3, <2>5, <2>8, PassedOverShape DEF Goes, Looks, Misses, Whole
  <2>9. CASE b.termination = "completed" /\ LStat(d).kind = "directory" /\ Goes(u)
    <3>1. scan.budget.termination = "completed"
      BY <2>9, SpentStaysSpent
    <3>2. QED
      BY <1>2, <2>4, <2>5, <2>9, <3>1 DEF Goes, Looks, Whole, ScanOK
  <2>10. QED
    BY <2>6, <2>7, <2>8, <2>9
<1>3. QED
  BY <1>1, <1>2

\* Neither the directories to visit nor the entries change.
SameWay == scan'.stack = scan.stack /\ scan'.entries = scan.entries

LEMMA RootOutcome ==
  ASSUME ScanOK, Gate \/ CheckRoot
  PROVE  /\ Looks /\ scan'.entries = scan.entries
         /\ \/ scan'.pc \in {"root", "raised"} /\ scan'.stack = scan.stack
            \/ scan'.pc = "pop" /\ scan'.stack = <<Root>>
<1> DEFINE next(step) == [scan EXCEPT !.pc = step]
           begin == [scan EXCEPT !.pc = "pop", !.stack = <<Root>>]
<1>1. \A step : /\ ScanShape(next(step)) /\ next(step).pc = step
                /\ next(step).stack = scan.stack /\ next(step).entries = scan.entries
                /\ next(step).findings = scan.findings /\ next(step).budget = scan.budget
                /\ next(step).failed = scan.failed /\ next(step).ambiguous = scan.ambiguous
  BY DEF ScanOK, ScanShape
<1>2. /\ ScanShape(begin) /\ begin.pc = "pop" /\ begin.stack = <<Root>>
      /\ begin.entries = scan.entries /\ begin.findings = scan.findings
      /\ begin.budget = scan.budget
      /\ begin.failed = scan.failed /\ begin.ambiguous = scan.ambiguous
  BY DEF ScanOK, ScanShape
<1>3. Goes(next("root")) \/ Goes(next("raised")) \/ Goes(begin)
  BY DEF Gate, CheckRoot
<1> HIDE DEF next, begin
<1>4. CASE Goes(next("root"))
  BY <1>1, <1>4 DEF Goes, Looks, Whole
<1>5. CASE Goes(next("raised"))
  BY <1>1, <1>5 DEF Goes, Looks, Whole
<1>6. CASE Goes(begin)
  BY <1>2, <1>6 DEF Goes, Looks, Whole
<1>7. QED
  BY <1>3, <1>4, <1>5, <1>6

\* A directory that is given up has been missed.
LEMMA GivesUp ==
  ASSUME ScanOK, Goes(PassedOver(scan))
  PROVE  Looks /\ Misses /\ scan'.stack = scan.stack /\ scan'.entries = {}
  BY PassedOverShape DEF ScanOK, Goes, Looks, Misses, Whole

LEMMA DirectoryOutcome ==
  ASSUME ScanOK, Again \/ ListEntries \/ AfterScan
  PROVE  /\ Looks /\ scan'.stack = scan.stack
         /\ \/ Misses /\ scan'.entries = {}
            \/ /\ scan.pc = "again" /\ scan'.pc = "list"
               /\ scan'.here = scan.here /\ scan'.entries = scan.entries
            \/ /\ scan.pc = "list" /\ scan'.pc = "after"
               /\ scan'.entries = {p \in Entries(scan.here) : LStat(p).kind # "absent"}
            \/ scan.pc = "after" /\ scan'.pc = "entry" /\ scan'.entries = scan.entries
<1> DEFINE list == [scan EXCEPT !.pc = "list"]
           listed == {p \in Entries(scan.here) : LStat(p).kind # "absent"}
           after == [scan EXCEPT !.pc = "after", !.entries = listed]
           entry == [scan EXCEPT !.pc = "entry", !.here = NoPath, !.metadata = Absent]
<1>1. /\ ScanShape(list) /\ list.pc = "list" /\ list.here = scan.here
      /\ list.stack = scan.stack /\ list.entries = scan.entries
      /\ list.findings = scan.findings /\ list.budget = scan.budget
      /\ list.failed = scan.failed /\ list.ambiguous = scan.ambiguous
  BY DEF ScanOK, ScanShape
<1>2. /\ ScanShape(after) /\ after.pc = "after"
      /\ after.stack = scan.stack /\ after.entries = listed
      /\ after.findings = scan.findings /\ after.budget = scan.budget
      /\ after.failed = scan.failed /\ after.ambiguous = scan.ambiguous
  BY DEF ScanOK, ScanShape
<1>3. /\ ScanShape(entry) /\ entry.pc = "entry"
      /\ entry.stack = scan.stack /\ entry.entries = scan.entries
      /\ entry.findings = scan.findings /\ entry.budget = scan.budget
      /\ entry.failed = scan.failed /\ entry.ambiguous = scan.ambiguous
  BY DEF ScanOK, ScanShape
<1>4. \/ Goes(PassedOver(scan))
      \/ scan.pc = "again" /\ Goes(list)
      \/ scan.pc = "list" /\ Goes(after)
      \/ scan.pc = "after" /\ Goes(entry)
  BY DEF Again, ListEntries, AfterScan
<1> HIDE DEF list, after, entry
<1>5. CASE scan.pc = "again" /\ Goes(list)
  BY <1>1, <1>5 DEF Goes, Looks, Whole
<1>6. CASE scan.pc = "list" /\ Goes(after)
  BY <1>2, <1>6 DEF Goes, Looks, Whole
<1>7. CASE scan.pc = "after" /\ Goes(entry)
  BY <1>3, <1>7 DEF Goes, Looks, Whole
<1>8. QED
  BY <1>4, <1>5, <1>6, <1>7, GivesUp

LEMMA EntryOutcome ==
  ASSUME ScanOK, Entry
  PROVE  /\ Looks /\ scan'.stack = scan.stack
         /\ \/ Misses /\ scan'.entries \subseteq scan.entries
            \/ scan.entries = {} /\ scan'.pc = "pop" /\ scan'.entries = {}
            \/ /\ scan.entries # {} /\ scan'.pc = "entry_again" /\ scan'.entries = scan.entries
               /\ scan'.budget.termination = "completed"
<1>1. CASE scan.entries = {}
  <2>1. Goes(LeaveLoop(scan))
    BY <1>1 DEF Entry
  <2>2. QED
    BY <1>1, <2>1, LeaveLoopShape DEF ScanOK, Goes, Looks, Whole
<1>2. CASE scan.entries # {}
  <2> DEFINE o == LStat(Final(scan.entries))
  <2>1. PICK stop \in BOOLEAN :
          LET b == ObserveNode(scan.budget, FALSE, stop)
              s == [scan EXCEPT !.budget = b]
          IN  IF b.termination # "completed" THEN Goes(LeaveLoop(s))
              ELSE IF o.kind = "absent" THEN Goes([NextEntry(s) EXCEPT !.failed = TRUE])
              ELSE Goes([s EXCEPT !.pc = "entry_again", !.metadata = o])
    BY <1>2 DEF Entry
  <2> DEFINE b == ObserveNode(scan.budget, FALSE, stop)
             s == [scan EXCEPT !.budget = b]
             failing == [NextEntry(s) EXCEPT !.failed = TRUE]
             again == [s EXCEPT !.pc = "entry_again", !.metadata = o]
  <2>2. /\ ScanShape(s) /\ s.budget = b /\ s.stack = scan.stack /\ s.entries = scan.entries
        /\ s.findings = scan.findings /\ s.failed = scan.failed /\ s.ambiguous = scan.ambiguous
    BY DEF ScanOK, ScanShape
  <2>3. /\ ScanShape(again) /\ again.pc = "entry_again" /\ again.budget = b
        /\ again.stack = scan.stack /\ again.entries = scan.entries
        /\ again.findings = scan.findings
        /\ again.failed = scan.failed /\ again.ambiguous = scan.ambiguous
    BY DEF ScanOK, ScanShape
  <2>4. \/ b.termination # "completed" /\ Goes(LeaveLoop(s))
        \/ Goes(failing)
        \/ b.termination = "completed" /\ Goes(again)
    BY <2>1
  <2> HIDE DEF s, again, b
  <2>5. /\ ScanShape(failing) /\ failing.pc = "entry" /\ failing.failed
        /\ failing.stack = scan.stack /\ failing.findings = scan.findings
        /\ failing.entries \subseteq scan.entries
    BY <2>2, NextEntryShape, FailedShape
  <2> HIDE DEF failing
  <2>6. CASE b.termination # "completed" /\ Goes(LeaveLoop(s))
    BY <2>2, <2>6, LeaveLoopShape DEF Goes, Looks, Misses, Whole
  <2>7. CASE Goes(failing)
    BY <2>5, <2>7 DEF Goes, Looks, Misses, Whole
  <2>8. CASE b.termination = "completed" /\ Goes(again)
    <3>1. scan.budget.termination = "completed"
      BY <2>8, SpentStaysSpent DEF b
    <3>2. QED
      BY <1>2, <2>3, <2>8, <3>1 DEF Goes, Looks, Whole
  <2>9. QED
    BY <2>4, <2>6, <2>7, <2>8
<1>3. QED
  BY <1>1, <1>2

LEMMA EntryAgainOutcome ==
  ASSUME ScanOK, EntryAgain
  PROVE  LET p == Final(scan.entries)
         IN  /\ Looks
             /\ \/ Misses /\ scan'.stack = scan.stack /\ scan'.entries \subseteq scan.entries
                \/ /\ LStat(p).kind = "file" /\ scan'.pc = "entry"
                   /\ scan'.stack = scan.stack /\ scan'.entries = scan.entries \ {p}
                \/ p \in Candidates /\ scan'.pc = "analyse" /\ SameWay /\ scan'.budget = scan.budget
                \/ /\ p \notin Candidates /\ scan'.pc = "entry"
                   /\ scan'.stack = <<p>> \o scan.stack /\ scan'.entries = scan.entries \ {p}
<1> DEFINE p == Final(scan.entries)
           o == LStat(p)
<1>1. PICK stop \in BOOLEAN :
        LET b == IF o.kind = "file" THEN ObserveNode(scan.budget, TRUE, stop) ELSE scan.budget
        IN  IF o.kind = "absent" THEN Goes([NextEntry(scan) EXCEPT !.failed = TRUE])
            ELSE IF ~Matches(scan.metadata, o)
            THEN Goes([NextEntry(scan) EXCEPT !.failed = TRUE, !.ambiguous = TRUE])
            ELSE IF b.termination # "completed" THEN Goes(LeaveLoop([scan EXCEPT !.budget = b]))
            ELSE IF o.kind = "link" THEN Goes([NextEntry(scan) EXCEPT !.ambiguous = TRUE])
            ELSE IF o.kind = "file" THEN Goes(NextEntry([scan EXCEPT !.budget = b]))
            ELSE IF p \in Candidates THEN Goes([scan EXCEPT !.pc = "analyse", !.metadata = Absent])
            ELSE Goes(NextEntry([scan EXCEPT !.stack = <<p>> \o @]))
  BY DEF EntryAgain
<1> DEFINE b == IF o.kind = "file" THEN ObserveNode(scan.budget, TRUE, stop) ELSE scan.budget
           next == NextEntry(scan)
           missing == [next EXCEPT !.failed = TRUE]
           changed == [next EXCEPT !.failed = TRUE, !.ambiguous = TRUE]
           link == [next EXCEPT !.ambiguous = TRUE]
           spent == [scan EXCEPT !.budget = b]
           analyse == [scan EXCEPT !.pc = "analyse", !.metadata = Absent]
           pushed == [scan EXCEPT !.stack = <<p>> \o @]
<1>2. \/ Goes(missing)
      \/ Goes(changed)
      \/ b.termination # "completed" /\ Goes(LeaveLoop(spent))
      \/ Goes(link)
      \/ b.termination = "completed" /\ o.kind = "file" /\ Goes(NextEntry(spent))
      \/ p \in Candidates /\ Goes(analyse)
      \/ p \notin Candidates /\ Goes(NextEntry(pushed))
  BY <1>1
<1>3. ScanShape(scan)
  BY DEF ScanOK
<1>4. /\ ScanShape(next) /\ next.pc = "entry" /\ next.stack = scan.stack
      /\ next.entries = scan.entries \ {p} /\ next.findings = scan.findings
  BY <1>3, NextEntryShape
<1>5. /\ ScanShape(spent) /\ spent.budget = b /\ spent.stack = scan.stack
      /\ spent.entries = scan.entries /\ spent.findings = scan.findings
      /\ spent.failed = scan.failed /\ spent.ambiguous = scan.ambiguous
  BY <1>3 DEF ScanShape
<1>6. /\ ScanShape(analyse) /\ analyse.pc = "analyse" /\ analyse.budget = scan.budget
      /\ analyse.stack = scan.stack
      /\ analyse.entries = scan.entries /\ analyse.findings = scan.findings
      /\ analyse.failed = scan.failed /\ analyse.ambiguous = scan.ambiguous
  BY <1>3 DEF ScanShape
<1>7. /\ ScanShape(pushed) /\ pushed.stack = <<p>> \o scan.stack /\ pushed.budget = scan.budget
      /\ pushed.entries = scan.entries /\ pushed.findings = scan.findings
      /\ pushed.failed = scan.failed /\ pushed.ambiguous = scan.ambiguous
  BY <1>3 DEF ScanShape
<1> HIDE DEF next, spent, analyse, pushed, b
<1>8. /\ ScanShape(missing) /\ missing.pc = "entry" /\ missing.stack = scan.stack /\ missing.failed
      /\ missing.entries = scan.entries \ {p} /\ missing.findings = scan.findings
  BY <1>4, FailedShape
<1>9. /\ ScanShape(link) /\ link.pc = "entry" /\ link.stack = scan.stack /\ link.ambiguous
      /\ link.entries = scan.entries \ {p} /\ link.findings = scan.findings
  BY <1>4, AmbiguousShape
<1>10. changed = [missing EXCEPT !.ambiguous = TRUE]
  BY <1>4, Zenon DEF ScanShape
<1> HIDE DEF missing, link
<1>11. /\ ScanShape(changed) /\ changed.pc = "entry" /\ changed.stack = scan.stack
       /\ changed.ambiguous
       /\ changed.entries = scan.entries \ {p} /\ changed.findings = scan.findings
  BY <1>8, <1>10, AmbiguousShape
<1> HIDE DEF changed
<1>12. CASE Goes(missing) \/ Goes(changed) \/ Goes(link)
  BY <1>8, <1>9, <1>11, <1>12 DEF Goes, Looks, Misses, Whole
<1>13. CASE b.termination # "completed" /\ Goes(LeaveLoop(spent))
  BY <1>5, <1>13, LeaveLoopShape DEF Goes, Looks, Misses, Whole
<1>14. CASE b.termination = "completed" /\ o.kind = "file" /\ Goes(NextEntry(spent))
  <2>1. scan.budget.termination = "completed"
    BY <1>14, SpentStaysSpent DEF b
  <2>2. QED
    BY <1>5, <1>14, <2>1, NextEntryShape DEF Goes, Looks, Whole
<1>15. CASE p \in Candidates /\ Goes(analyse)
  BY <1>6, <1>15 DEF Goes, Looks, Whole, SameWay
<1>16. CASE p \notin Candidates /\ Goes(NextEntry(pushed))
  BY <1>7, <1>16, NextEntryShape DEF Goes, Looks, Whole
<1>17. QED
  BY <1>2, <1>12, <1>13, <1>14, <1>15, <1>16

LEMMA AnalyseOutcome ==
  ASSUME ScanOK, Analyse
  PROVE  /\ Looks /\ SameWay /\ scan'.budget = scan.budget
         /\ scan.pc = "analyse" /\ scan'.pc = "size"
         /\ scan'.metadata = LStat(Final(scan.entries))
<1> DEFINE size == [scan EXCEPT !.pc = "size", !.metadata = LStat(Final(scan.entries))]
<1>1. /\ ScanShape(size) /\ size.pc = "size" /\ size.budget = scan.budget
      /\ size.metadata = LStat(Final(scan.entries)) /\ size.stack = scan.stack
      /\ size.entries = scan.entries /\ size.findings = scan.findings
      /\ size.failed = scan.failed /\ size.ambiguous = scan.ambiguous
  BY DEF ScanOK, ScanShape
<1>2. Goes(size) /\ scan.pc = "analyse"
  BY DEF Analyse
<1> HIDE DEF size
<1>3. QED
  BY <1>1, <1>2 DEF Goes, Looks, Whole, SameWay

\* The finding is about what was seen at the path.
LEMMA MeasureOutcome ==
  ASSUME ScanOK, MeasureAndRecord
  PROVE  LET p == Final(scan.entries)
         IN  /\ UNCHANGED <<at, events, steady, linked>> /\ ScanShape(scan')
             /\ scan.pc = "size" /\ scan'.pc = "entry" /\ scan'.stack = scan.stack
             /\ scan'.entries = scan.entries \ {p}
             /\ Whole(scan') => Whole(scan)
             /\ \E finding :
                  /\ scan'.findings = scan.findings \cup {finding}
                  /\ finding.path = p /\ finding.id = scan.metadata.id
                  /\ finding.dir.parts = scan.metadata.content.parts
<1> DEFINE p == Final(scan.entries)
           o == LStat(p)
<1>1. PICK stop \in BOOLEAN :
        LET finding == [path |-> p, id |-> scan.metadata.id, dir |-> Observable(scan.metadata),
                        size |-> CollectSize(scan.budget, o, stop)]
        IN  Goes(NextEntry([scan EXCEPT !.findings = @ \cup {finding},
                                        !.budget = CollectBudget(@, o, stop)]))
  BY DEF MeasureAndRecord
<1> DEFINE finding == [path |-> p, id |-> scan.metadata.id, dir |-> Observable(scan.metadata),
                       size |-> CollectSize(scan.budget, o, stop)]
           recorded == [scan EXCEPT !.findings = @ \cup {finding},
                                    !.budget = CollectBudget(@, o, stop)]
<1>2. /\ finding.path = p /\ finding.id = scan.metadata.id
      /\ finding.dir.parts = scan.metadata.content.parts
  BY DEF Observable
<1>3. Goes(NextEntry(recorded)) /\ scan.pc = "size"
  BY <1>1 DEF MeasureAndRecord
<1> HIDE DEF finding
<1>4. /\ ScanShape(recorded) /\ recorded.stack = scan.stack /\ recorded.entries = scan.entries
      /\ recorded.findings = scan.findings \cup {finding}
      /\ recorded.failed = scan.failed /\ recorded.ambiguous = scan.ambiguous
  BY DEF ScanOK, ScanShape
<1>5. scan.budget.termination = "completed"
  BY <1>3 DEF ScanOK
<1> HIDE DEF recorded
<1>6. QED
  BY <1>2, <1>3, <1>4, <1>5, NextEntryShape DEF Goes, Whole

-----------------------------------------------------------------------------
(* A step of the scan keeps what it relies on. *)

LEMMA CoversKept ==
  ASSUME Covers, UNCHANGED <<at, steady>>, scan.pc \notin {"idle", "raised"},
         scan.findings \subseteq scan'.findings, Whole(scan') => Whole(scan),
         Whole(scan') /\ scan'.pc # "raised" =>
           \A c \in steady : Ordinary(c) /\ Ahead(c) => Found(c)' \/ Ahead(c)',
         scan'.pc = "size" /\ Final(scan'.entries) \in steady =>
           SeenAt(Final(scan'.entries), scan'.metadata.id, scan'.metadata.content.parts)
  PROVE  Covers'
<1>1. \A c \in steady : Ordinary(c) /\ Ordinary(c)'
  BY DEF Covers, Ordinary
<1>2. \A c \in steady : Found(c) => Found(c)'
  BY DEF Found, SeenAt
<1>3. (scan.pc \notin {"idle", "raised"} /\ Whole(scan) =>
         \A c \in steady : Found(c) \/ Ahead(c))'
  <2>1. SUFFICES ASSUME scan'.pc # "raised", Whole(scan'), NEW c \in steady
                 PROVE  Found(c)' \/ Ahead(c)'
    OBVIOUS
  <2>2. Found(c) \/ Ahead(c)
    BY <2>1 DEF Covers
  <2>3. QED
    BY <1>1, <1>2, <2>1, <2>2
<1>4. (scan.pc = "size" /\ Final(scan.entries) \in steady =>
         SeenAt(Final(scan.entries), scan.metadata.id, scan.metadata.content.parts))'
  BY DEF SeenAt
<1>5. QED
  BY <1>1, <1>3, <1>4 DEF Covers

\* A step that only looks, neither analyses nor begins to, and visits the same directories.
LEMMA LooksKept ==
  ASSUME ScanOK, ScanReads, Looks, UNCHANGED plan,
         scan'.stack \in Seq(Paths), scan'.entries \subseteq Paths,
         scan'.pc \notin {"analyse", "size"},
         scan'.pc = "entry_again" =>
           scan'.entries # {} /\ scan'.budget.termination = "completed"
  PROVE  ScanOK' /\ ScanReads'
<1>1. ScanOK'
  BY DEF ScanOK, Looks
<1>2. \A p, id : ReadsPlanned(p, id) => ReadsPlanned(p, id)'
  BY DEF ReadsPlanned, Looks, Ordinary
<1>3. ScanReads'
  BY <1>2 DEF ScanReads, Looks
<1>4. QED
  BY <1>1, <1>3

LEMMA RootKeeps ==
  ASSUME ScanOK, Covers, ScanReads, UNCHANGED plan, Gate \/ CheckRoot
  PROVE  ScanOK' /\ Covers' /\ ScanReads'
<1>1. /\ Looks /\ scan'.entries = scan.entries
      /\ \/ scan'.pc \in {"root", "raised"} /\ scan'.stack = scan.stack
         \/ scan'.pc = "pop" /\ scan'.stack = <<Root>>
  BY RootOutcome
<1>2. scan'.stack \in Seq(Paths)
  <2>1. Root \in Paths
    BY TreeAssumption
  <2>2. <<Root>> \in Seq(Paths)
    BY <2>1
  <2>3. QED
    BY <1>1, <2>2 DEF ScanOK
<1>3. ScanOK' /\ ScanReads'
  BY <1>1, <1>2, LooksKept DEF ScanOK
<1>4. ASSUME NEW c \in steady, scan'.pc # "raised" PROVE Ahead(c)'
  <2>1. CASE scan'.pc = "root"
    BY <2>1 DEF Ahead
  <2>2. CASE scan'.pc = "pop" /\ scan'.stack = <<Root>>
    <3>1. Root \in Above[c]
      BY TreeAssumption DEF Covers
    <3>2. scan'.stack[1] = Root /\ 1 \in 1..Len(scan'.stack)
      BY <2>2
    <3>3. QED
      BY <2>2, <3>1, <3>2 DEF Ahead
  <2>3. QED
    BY <1>1, <1>4, <2>1, <2>2
<1>5. scan.pc \in {"gate", "root"}
  BY DEF Gate, CheckRoot
<1>6. Covers'
  BY <1>1, <1>4, <1>5, CoversKept DEF Looks
<1>7. QED
  BY <1>3, <1>6

LEMMA PopKeeps ==
  ASSUME ScanOK, Covers, ScanReads, UNCHANGED plan, Pop
  PROVE  ScanOK' /\ Covers' /\ ScanReads'
<1>1. /\ Looks /\ scan'.entries \subseteq Paths /\ scan'.stack \in Seq(Paths)
      /\ \/ Misses
         \/ scan.stack = <<>> /\ scan'.pc = "done"
         \/ /\ scan.stack # <<>> /\ scan'.pc = "again" /\ scan'.stack = Tail(scan.stack)
            /\ scan'.here = Head(scan.stack)
  BY PopOutcome
<1>2. ScanOK' /\ ScanReads'
  BY <1>1, LooksKept DEF Misses
<1>3. scan.pc = "pop"
  BY DEF Pop
<1>4. ASSUME Whole(scan'), NEW c \in steady, Ahead(c) PROVE Ahead(c)'
  <2>1. PICK i \in 1..Len(scan.stack) : scan.stack[i] \in Above[c]
    BY <1>3, <1>4 DEF Ahead
  <2>2. scan.stack # <<>>
    BY <2>1
  <2>3. /\ scan'.pc = "again" /\ scan'.stack = Tail(scan.stack)
        /\ scan'.here = Head(scan.stack)
    BY <1>1, <1>4, <2>2 DEF Misses
  <2>4. scan.stack \in Seq(Paths)
    BY DEF ScanOK
  <2>5. CASE i = 1
    BY <2>1, <2>3, <2>4, <2>5 DEF Ahead
  <2>6. CASE i # 1
    <3>1. i - 1 \in 1..Len(scan'.stack) /\ scan'.stack[i - 1] = scan.stack[i]
      BY <2>1, <2>2, <2>3, <2>4, <2>6, HeadTailProperties
    <3>2. QED
      BY <2>1, <2>3, <3>1 DEF Ahead
  <2>7. QED
    BY <2>5, <2>6
<1>5. Covers'
  BY <1>1, <1>3, <1>4, CoversKept DEF Looks, Misses
<1>6. QED
  BY <1>2, <1>5

LEMMA DirectoryKeeps ==
  ASSUME ScanOK, Covers, ScanReads, UNCHANGED plan, Again \/ ListEntries \/ AfterScan
  PROVE  ScanOK' /\ Covers' /\ ScanReads'
<1>1. /\ Looks /\ scan'.stack = scan.stack
      /\ \/ Misses /\ scan'.entries = {}
         \/ /\ scan.pc = "again" /\ scan'.pc = "list"
            /\ scan'.here = scan.here /\ scan'.entries = scan.entries
         \/ /\ scan.pc = "list" /\ scan'.pc = "after"
            /\ scan'.entries = {p \in Entries(scan.here) : LStat(p).kind # "absent"}
         \/ scan.pc = "after" /\ scan'.pc = "entry" /\ scan'.entries = scan.entries
  BY DirectoryOutcome
<1>2. ScanOK' /\ ScanReads'
  BY <1>1, LooksKept DEF Misses, ScanOK, Entries
<1>3. scan.pc \in {"again", "list", "after"}
  BY DEF Again, ListEntries, AfterScan
<1>4. ASSUME Whole(scan'), NEW c \in steady, Ordinary(c), Ahead(c) PROVE Ahead(c)'
  <2>1. CASE \E i \in 1..Len(scan.stack) : scan.stack[i] \in Above[c]
    BY <1>1, <1>4, <2>1 DEF Ahead, Misses
  <2>2. CASE scan.pc = "again" /\ scan.here \in Above[c]
    BY <1>1, <1>4, <2>2 DEF Ahead, Misses
  <2>3. CASE scan.pc = "list" /\ scan.here \in Above[c]
    <3>1. c \in Paths
      BY TreeAssumption DEF Covers
    <3>2. PICK q \in Entries(scan.here) : q \in Chain(c)
      BY <2>3, <3>1, NextOnTheWay
    <3>3. LStat(q).kind = "directory"
      BY <1>4, <3>1, <3>2, StatOnTheWay
    <3>4. scan'.pc = "after" /\ q \in scan'.entries
      BY <1>1, <1>4, <2>3, <3>2, <3>3 DEF Misses
    <3>5. QED
      BY <3>2, <3>4 DEF Ahead
  <2>4. CASE scan.pc = "after" /\ scan.entries \cap Chain(c) # {}
    BY <1>1, <1>4, <2>4 DEF Ahead, Misses
  <2>5. QED
    BY <1>3, <1>4, <2>1, <2>2, <2>3, <2>4 DEF Ahead
<1>5. Covers'
  BY <1>1, <1>3, <1>4, CoversKept DEF Looks, Misses
<1>6. QED
  BY <1>2, <1>5

LEMMA EntryKeeps ==
  ASSUME ScanOK, Covers, ScanReads, UNCHANGED plan, Entry
  PROVE  ScanOK' /\ Covers' /\ ScanReads'
<1>1. /\ Looks /\ scan'.stack = scan.stack
      /\ \/ Misses /\ scan'.entries \subseteq scan.entries
         \/ scan.entries = {} /\ scan'.pc = "pop" /\ scan'.entries = {}
         \/ /\ scan.entries # {} /\ scan'.pc = "entry_again" /\ scan'.entries = scan.entries
            /\ scan'.budget.termination = "completed"
  BY EntryOutcome
<1>2. ScanOK' /\ ScanReads'
  BY <1>1, LooksKept DEF Misses, ScanOK
<1>3. scan.pc = "entry"
  BY DEF Entry
<1>4. ASSUME Whole(scan'), NEW c \in steady, Ahead(c) PROVE Ahead(c)'
  <2>1. CASE \E i \in 1..Len(scan.stack) : scan.stack[i] \in Above[c]
    BY <1>1, <1>4, <2>1 DEF Ahead, Misses
  <2>2. CASE scan.entries \cap Chain(c) # {}
    BY <1>1, <1>4, <2>2 DEF Ahead, Misses
  <2>3. QED
    BY <1>3, <1>4, <2>1, <2>2 DEF Ahead
<1>5. Covers'
  BY <1>1, <1>3, <1>4, CoversKept DEF Looks, Misses
<1>6. QED
  BY <1>2, <1>5

LEMMA EntryAgainKeeps ==
  ASSUME ScanOK, Covers, ScanReads, UNCHANGED plan, EntryAgain
  PROVE  ScanOK' /\ Covers' /\ ScanReads'
<1> DEFINE p == Final(scan.entries)
<1>1. /\ Looks
      /\ \/ Misses /\ scan'.stack = scan.stack /\ scan'.entries \subseteq scan.entries
         \/ /\ LStat(p).kind = "file" /\ scan'.pc = "entry"
            /\ scan'.stack = scan.stack /\ scan'.entries = scan.entries \ {p}
         \/ p \in Candidates /\ scan'.pc = "analyse" /\ SameWay /\ scan'.budget = scan.budget
         \/ /\ p \notin Candidates /\ scan'.pc = "entry"
            /\ scan'.stack = <<p>> \o scan.stack /\ scan'.entries = scan.entries \ {p}
  BY EntryAgainOutcome
<1>2. scan.pc = "entry_again" /\ scan.entries # {} /\ scan.budget.termination = "completed"
  BY DEF EntryAgain, ScanOK
<1>3. p \in scan.entries /\ p \in Paths
  BY <1>2, FinalIn DEF ScanOK
<1>4. scan.stack \in Seq(Paths) /\ scan.entries \subseteq Paths
  BY DEF ScanOK
<1>5. <<p>> \o scan.stack \in Seq(Paths)
  BY <1>3, <1>4, ConcatProperties
<1>6. ScanOK' /\ ScanReads'
  <2>1. CASE scan'.pc # "analyse"
    <3>1. scan'.stack \in Seq(Paths) /\ scan'.entries \subseteq Paths
          /\ scan'.pc \notin {"analyse", "size", "entry_again"}
      BY <1>1, <1>4, <1>5, <2>1 DEF Misses, SameWay
    <3>2. QED
      BY <1>1, <3>1, LooksKept
  <2>2. CASE scan'.pc = "analyse"
    <3>1. p \in Candidates /\ SameWay /\ scan'.budget = scan.budget
      BY <1>1, <2>2 DEF Misses
    <3>2. ScanOK'
      BY <1>1, <1>2, <2>2, <3>1 DEF ScanOK, Looks, SameWay
    <3>3. \A q, id : ReadsPlanned(q, id) => ReadsPlanned(q, id)'
      BY <1>1 DEF ReadsPlanned, Looks, Ordinary
    <3>4. ScanReads'
      BY <1>1, <2>2, <3>3 DEF ScanReads, Looks
    <3>5. QED
      BY <3>2, <3>4
  <2>3. QED
    BY <2>1, <2>2
<1>7. ASSUME Whole(scan'), NEW c \in steady, Ordinary(c), Ahead(c) PROVE Ahead(c)'
  <2>1. c \in Paths /\ c \in Candidates
    BY TreeAssumption DEF Covers
  <2>2. scan'.pc \in {"entry", "analyse"}
    BY <1>1, <1>7 DEF Misses
  <2>3. CASE \E i \in 1..Len(scan.stack) : scan.stack[i] \in Above[c]
    <3>1. PICK i \in 1..Len(scan.stack) : scan.stack[i] \in Above[c]
      BY <2>3
    <3>2. \E j \in 1..Len(scan'.stack) : scan'.stack[j] = scan.stack[i]
      <4>1. CASE scan'.stack = scan.stack
        BY <4>1
      <4>2. CASE scan'.stack = <<p>> \o scan.stack
        <5>1. /\ Len(<<p>> \o scan.stack) = 1 + Len(scan.stack)
              /\ (<<p>> \o scan.stack)[i + 1] = scan.stack[i]
          BY <1>3, <1>4, ConcatProperties
        <5>2. i + 1 \in 1..Len(scan'.stack)
          BY <1>4, <4>2, <5>1
        <5>3. QED
          BY <4>2, <5>1, <5>2
      <4>3. QED
        BY <1>1, <1>7, <4>1, <4>2 DEF Misses, SameWay
    <3>3. QED
      BY <2>2, <3>1, <3>2 DEF Ahead
  <2>4. CASE scan.entries \cap Chain(c) # {}
    <3>1. CASE p \notin Chain(c)
      <4>1. scan'.entries \cap Chain(c) # {}
        BY <1>1, <1>7, <2>4, <3>1 DEF Misses, SameWay
      <4>2. QED
        BY <2>2, <4>1 DEF Ahead
    <3>2. CASE p \in Chain(c)
      <4>1. LStat(p).kind = "directory"
        BY <1>7, <2>1, <3>2, StatOnTheWay
      <4>2. CASE p \in Candidates
        <5>1. scan'.pc = "analyse" /\ scan'.entries = scan.entries
          BY <1>1, <1>7, <4>1, <4>2 DEF Misses, SameWay
        <5>2. QED
          BY <2>4, <5>1 DEF Ahead
      <4>3. CASE p \notin Candidates
        <5>1. p \in Above[c]
          BY <2>1, <3>2, <4>3 DEF Chain
        <5>2. scan'.stack = <<p>> \o scan.stack
          BY <1>1, <1>7, <4>1, <4>3 DEF Misses
        <5>3. 1 \in 1..Len(scan'.stack) /\ scan'.stack[1] = p
          BY <1>3, <1>4, <5>2, ConcatProperties
        <5>4. QED
          BY <2>2, <5>1, <5>3 DEF Ahead
      <4>4. QED
        BY <4>2, <4>3
    <3>3. QED
      BY <3>1, <3>2
  <2>5. QED
    BY <1>2, <1>7, <2>3, <2>4 DEF Ahead
<1>8. scan'.pc # "size"
  BY <1>1 DEF Misses
<1>9. Covers'
  BY <1>1, <1>2, <1>7, <1>8, CoversKept DEF Looks
<1>10. QED
  BY <1>6, <1>9

\* What lstat shows at the place of a planned object that is still there is this object.
LEMMA StatReads ==
  ASSUME NEW p \in Paths
  PROVE  ReadsPlanned(p, LStat(p).id)
<1>1. SUFFICES ASSUME Ordinary(p) PROVE LStat(p).id = at[p].id
  BY DEF ReadsPlanned
<1>2. LStat(p) = at[p]
  BY <1>1, StatOnTheWay DEF Chain
<1>3. QED
  BY <1>2

LEMMA AnalyseKeeps ==
  ASSUME DiskOK, ScanOK, Covers, ScanReads, UNCHANGED plan, Analyse
  PROVE  ScanOK' /\ Covers' /\ ScanReads'
<1> DEFINE p == Final(scan.entries)
<1>1. /\ Looks /\ SameWay /\ scan'.budget = scan.budget
      /\ scan.pc = "analyse" /\ scan'.pc = "size" /\ scan'.metadata = LStat(p)
  BY AnalyseOutcome
<1>2. p \in Candidates /\ p \in Paths
  BY <1>1, TreeAssumption DEF ScanOK
<1>3. ScanOK'
  BY <1>1 DEF ScanOK, Looks, SameWay
<1>4. \A q, id : ReadsPlanned(q, id) => ReadsPlanned(q, id)'
  BY <1>1 DEF ReadsPlanned, Looks, Ordinary
<1>5. ReadsPlanned(p, LStat(p).id)
  BY <1>2, StatReads
<1>6. Final(scan'.entries) = p
  BY <1>1 DEF SameWay
<1>7. ScanReads'
  <2>1. \A finding \in scan'.findings : ReadsPlanned(finding.path, finding.id)'
    BY <1>1, <1>4 DEF ScanReads, Looks
  <2>2. ReadsPlanned(Final(scan.entries), scan.metadata.id)'
    BY <1>1, <1>5, <1>6 DEF ReadsPlanned, Looks, Ordinary
  <2>3. QED
    BY <2>1, <2>2 DEF ScanReads
<1>8. p \in steady => SeenAt(p, LStat(p).id, LStat(p).content.parts)
  <2>1. SUFFICES ASSUME p \in steady PROVE LStat(p) = at[p]
    BY DEF SeenAt
  <2>2. Ordinary(p)
    BY <2>1 DEF Covers
  <2>3. QED
    BY <1>2, <2>2, StatOnTheWay DEF Chain
<1>9. \A c \in steady : Ahead(c) => Ahead(c)'
  BY <1>1 DEF Ahead, SameWay
<1>10. Covers'
  BY <1>1, <1>6, <1>8, <1>9, CoversKept DEF Looks
<1>11. QED
  BY <1>3, <1>7, <1>10

LEMMA MeasureKeeps ==
  ASSUME ScanOK, Covers, ScanReads, UNCHANGED plan, MeasureAndRecord
  PROVE  ScanOK' /\ Covers' /\ ScanReads'
<1> DEFINE p == Final(scan.entries)
<1>1. /\ UNCHANGED <<at, events, steady, linked>> /\ ScanShape(scan')
      /\ scan.pc = "size" /\ scan'.pc = "entry" /\ scan'.stack = scan.stack
      /\ scan'.entries = scan.entries \ {p}
      /\ Whole(scan') => Whole(scan)
  BY MeasureOutcome
<1>2. PICK finding :
        /\ scan'.findings = scan.findings \cup {finding}
        /\ finding.path = p /\ finding.id = scan.metadata.id
        /\ finding.dir.parts = scan.metadata.content.parts
  BY MeasureOutcome
<1>3. p \in Candidates
  BY <1>1 DEF ScanOK
<1>4. ScanOK'
  BY <1>1, <1>2, <1>3 DEF ScanOK
<1>5. \A q, id : ReadsPlanned(q, id) => ReadsPlanned(q, id)'
  BY <1>1 DEF ReadsPlanned, Ordinary
<1>6. ReadsPlanned(finding.path, finding.id)
  BY <1>1, <1>2 DEF ScanReads
<1>7. ScanReads'
  BY <1>1, <1>2, <1>5, <1>6 DEF ScanReads
<1>8. ASSUME NEW c \in steady, Ahead(c) PROVE Found(c)' \/ Ahead(c)'
  <2>1. CASE \E i \in 1..Len(scan.stack) : scan.stack[i] \in Above[c]
    BY <1>1, <2>1 DEF Ahead
  <2>2. CASE scan.entries \cap Chain(c) # {} /\ p # c
    <3>1. p \notin Above[c]
      BY <1>3, TreeAssumption DEF Covers
    <3>2. scan'.entries \cap Chain(c) # {}
      BY <1>1, <2>2, <3>1 DEF Chain
    <3>3. QED
      BY <1>1, <3>2 DEF Ahead
  <2>3. CASE p = c
    <3>1. SeenAt(c, scan.metadata.id, scan.metadata.content.parts)
      BY <1>1, <2>3 DEF Covers
    <3>2. QED
      BY <1>1, <1>2, <2>3, <3>1 DEF Found, SeenAt
  <2>4. QED
    BY <1>1, <1>8, <2>1, <2>2, <2>3 DEF Ahead
<1>9. Covers'
  BY <1>1, <1>2, <1>8, CoversKept
<1>10. QED
  BY <1>4, <1>7, <1>9

LEMMA ScanStepKeeps ==
  ASSUME DiskOK, ScanOK, Covers, ScanReads, UNCHANGED plan, ScanStep
  PROVE  ScanOK' /\ Covers' /\ ScanReads' /\ UNCHANGED <<at, events, steady, linked>>
<1>1. UNCHANGED <<at, events, steady, linked>>
  BY RootOutcome, PopOutcome, DirectoryOutcome, EntryOutcome, EntryAgainOutcome, AnalyseOutcome,
     MeasureOutcome DEF ScanStep, Looks
<1>2. ScanOK' /\ Covers' /\ ScanReads'
  BY RootKeeps, PopKeeps, DirectoryKeeps, EntryKeeps, EntryAgainKeeps, AnalyseKeeps, MeasureKeeps
     DEF ScanStep
<1>3. QED
  BY <1>1, <1>2

-----------------------------------------------------------------------------
(* Changes made by tools. *)

\* A tool changes what is at one place and touches what is below it.
ToolPuts(x, o) ==
  /\ at' = [at EXCEPT ![x] = o]
  /\ events' = events + 1
  /\ steady' = {c \in steady : x \notin Chain(c)}
  /\ UNCHANGED scan
  /\ \/ x \in Candidates /\ o.id = NewId /\ UNCHANGED linked
     \/ o.id = at[x].id /\ o.kind = at[x].kind /\ UNCHANGED linked
     \/ o.kind = "absent" /\ UNCHANGED linked
     \/ x \in Plain /\ o.id = at[x].id /\ at[x].kind = "directory" /\ o.kind = "link"
          /\ linked' = TRUE
     \/ x \in Plain /\ o.id = at[x].id /\ at[x].kind = "link" /\ UNCHANGED linked
          /\ o.kind = "directory"

Made == [kind : Kinds, id : 0..Cardinality(Paths) + events + 1, content : Contents]

LEMMA ToolOutcome ==
  ASSUME DiskOK, ToolStep
  PROVE  \E x \in Plain \cup Candidates, o \in Made : ToolPuts(x, o)
<1>1. Cardinality(Paths) \in Nat /\ events \in Nat /\ OutsideContent \in Contents
  BY TreeAssumption, ScanAssumption, FS_CardinalityType DEF DiskOK
<1>2. NewId \in 0..Cardinality(Paths) + events + 1 /\ 0 \in 0..Cardinality(Paths) + events + 1
  BY <1>1 DEF NewId
<1>3. \A x \in Plain \cup Candidates :
        /\ x \in Paths /\ at[x] \in [kind : Kinds, id : Identities, content : Contents]
        /\ at[x].id \in 0..Cardinality(Paths) + events + 1
        /\ at[x].content \in Contents
  BY <1>1, TreeAssumption DEF DiskOK, Identities
<1>4. \A x : Touch(x) => /\ events' = events + 1 /\ UNCHANGED scan
                         /\ steady' = {c \in steady : x \notin Chain(c)}
  BY DEF Touch, Chain
<1>5. ASSUME NEW c \in Candidates, NEW kind \in {"directory", "file", "link"},
             NEW content \in Contents, Replace(c, kind, content)
      PROVE  ToolPuts(c, Object(kind, NewId, content)) /\ Object(kind, NewId, content) \in Made
  BY <1>2, <1>4, <1>5 DEF Replace, ToolPuts, Object, Made, Kinds
<1>6. ASSUME NEW c \in Candidates, NEW content \in Contents, Rewrite(c, content)
      PROVE  LET o == [at[c] EXCEPT !.content = content] IN ToolPuts(c, o) /\ o \in Made
  <2> DEFINE o == [at[c] EXCEPT !.content = content]
  <2>1. o \in Made /\ o.id = at[c].id /\ o.kind = at[c].kind
    BY <1>3 DEF Made
  <2>2. at' = [at EXCEPT ![c] = o]
    BY <1>6 DEF Rewrite
  <2>3. QED
    BY <1>4, <1>6, <2>1, <2>2 DEF Rewrite, ToolPuts
<1>7. ASSUME NEW x \in Plain \cup Candidates, Discard(x)
      PROVE  ToolPuts(x, Absent) /\ Absent \in Made
  BY <1>1, <1>2, <1>4, <1>7 DEF Discard, ToolPuts, Absent, Object, Made, Kinds
<1>8. ASSUME NEW d \in Plain, Link(d)
      PROVE  LET o == [at[d] EXCEPT !.kind = "link"] IN ToolPuts(d, o) /\ o \in Made
  <2> DEFINE o == [at[d] EXCEPT !.kind = "link"]
  <2>1. o \in Made /\ o.id = at[d].id /\ o.kind = "link"
    BY <1>3 DEF Made, Kinds
  <2>2. at' = [at EXCEPT ![d] = o]
    BY <1>8 DEF Link
  <2>3. QED
    BY <1>4, <1>8, <2>1, <2>2 DEF Link, ToolPuts
<1>9. ASSUME NEW d \in Plain, Unlink(d)
      PROVE  LET o == [at[d] EXCEPT !.kind = "directory"] IN ToolPuts(d, o) /\ o \in Made
  <2> DEFINE o == [at[d] EXCEPT !.kind = "directory"]
  <2>1. o \in Made /\ o.id = at[d].id /\ o.kind = "directory"
    BY <1>3 DEF Made, Kinds
  <2>2. at' = [at EXCEPT ![d] = o]
    BY <1>9 DEF Unlink
  <2>3. QED
    BY <1>4, <1>9, <2>1, <2>2 DEF Unlink, ToolPuts
<1>10. QED
  BY <1>1, <1>5, <1>6, <1>7, <1>8, <1>9, Zenon DEF ToolStep

\* An object that is there under an identity it had before has been there all the time, and
\* below ordinary directories unless one of them has been a link.
LEMMA StillThere ==
  ASSUME DiskOK, NEW x \in Plain \cup Candidates, NEW o \in Made, ToolPuts(x, o),
         NEW p \in Candidates, at'[p].id \in Identities, Ordinary(p)', ~linked'
  PROVE  at[p].id = at'[p].id /\ Ordinary(p)
<1>1. /\ x \in Paths /\ p \in Paths /\ Above[p] \subseteq Plain /\ p \notin Plain
      /\ (x \in Candidates => x \notin Plain)
  BY TreeAssumption
<1>2. at'[x] = o /\ \A q \in Paths : q # x => at'[q] = at[q]
  BY <1>1 DEF ToolPuts, DiskOK
<1>3. \A d \in Above[p] \cup {p} : at'[d].kind = "directory"
  BY DEF Ordinary
<1>4. Cardinality(Paths) \in Nat /\ events \in Nat
  BY TreeAssumption, FS_CardinalityType DEF DiskOK
<1>5. at'[p].id # NewId
  BY <1>4 DEF Identities, NewId
<1>6. Above[p] \subseteq Paths
  BY TreeAssumption
<1>7. ASSUME NEW d \in Above[p] \cup {p} PROVE at[d].kind = "directory"
  <2>1. at'[d].kind = "directory"
    BY <1>3
  <2>2. CASE d # x
    <3>1. d \in Paths
      BY <1>1, <1>6
    <3>2. at'[d] = at[d]
      BY <1>2, <2>2, <3>1
    <3>3. QED
      BY <2>1, <3>2
  <2>3. CASE d = x
    <3>1. o.kind = "directory"
      BY <1>2, <2>1, <2>3
    <3>2. ~(x \in Candidates /\ o.id = NewId)
      BY <1>1, <1>2, <1>5, <2>3
    <3>3. ~(x \in Plain /\ at[x].kind = "link" /\ UNCHANGED linked)
      BY DEF DiskOK
    <3>4. QED
      BY <2>3, <3>1, <3>2, <3>3 DEF ToolPuts
  <2>4. QED
    BY <2>2, <2>3
<1>8. at[p].id = at'[p].id
  <2>1. CASE p = x
    <3>1. o.kind = "directory" /\ o.id # NewId /\ at'[p] = o
      BY <1>1, <1>2, <1>3, <1>5, <2>1
    <3>2. QED
      BY <2>1, <3>1 DEF ToolPuts
  <2>2. CASE p # x
    BY <1>1, <1>2, <2>2
  <2>3. QED
    BY <2>1, <2>2
<1>9. QED
  BY <1>7, <1>8 DEF Ordinary

LEMMA ToolKeepsDisk ==
  ASSUME DiskOK, NEW x \in Plain \cup Candidates, NEW o \in Made, ToolPuts(x, o)
  PROVE  DiskOK' /\ Identities \subseteq Identities' /\ (linked => linked')
<1>1. /\ x \in Paths /\ Plain \subseteq Paths /\ (x \in Candidates => x \notin Plain)
      /\ Cardinality(Paths) \in Nat
  BY TreeAssumption, FS_CardinalityType
<1>2. events \in Nat /\ events' = events + 1
  BY DEF DiskOK, ToolPuts
<1>3. at'[x] = o /\ \A q \in Paths : q # x => at'[q] = at[q]
  BY <1>1 DEF ToolPuts, DiskOK
<1>4. /\ Identities \subseteq Identities'
      /\ Made = [kind : Kinds, id : Identities', content : Contents]
  <2>1. Identities' = 0..Cardinality(Paths) + events + 1
    BY <1>1, <1>2 DEF Identities
  <2>2. Identities \subseteq Identities'
    BY <1>1, <1>2, <2>1 DEF Identities
  <2>3. QED
    BY <2>1, <2>2 DEF Made
<1>5. at' \in [Paths -> [kind : Kinds, id : Identities', content : Contents]]
  <2>1. at \in [Paths -> Made]
    <3>1. [kind : Kinds, id : Identities, content : Contents] \subseteq Made
      BY <1>4
    <3>2. QED
      BY <3>1 DEF DiskOK
  <2>2. at' \in [Paths -> Made]
    BY <1>1, <2>1 DEF ToolPuts
  <2>3. QED
    BY <1>4, <2>2
<1>6. linked' \in BOOLEAN /\ (linked => linked')
  BY DEF DiskOK, ToolPuts
<1>7. ASSUME NEW d \in Plain, at'[d].kind = "link" PROVE linked'
  <2>1. CASE d # x
    BY <1>1, <1>3, <1>6, <1>7, <2>1 DEF DiskOK
  <2>2. CASE d = x
    <3>1. o.kind = "link" /\ x \notin Candidates
      BY <1>1, <1>3, <1>7, <2>2
    <3>2. \/ at[x].kind = "link" /\ UNCHANGED linked
          \/ linked' = TRUE
      BY <3>1 DEF ToolPuts
    <3>3. QED
      BY <2>2, <3>2 DEF DiskOK
  <2>3. QED
    BY <2>1, <2>2
<1>8. ASSUME NEW q \in Paths, at'[q].kind # "absent" PROVE at'[q].id # 0
  <2>1. CASE q # x
    BY <1>3, <1>8, <2>1 DEF DiskOK
  <2>2. CASE q = x
    <3>1. NewId # 0
      BY <1>1, <1>2 DEF NewId
    <3>2. o.kind # "absent" /\ (o.id = NewId \/ (o.id = at[x].id /\ at[x].kind # "absent"))
      BY <1>3, <1>8, <2>2 DEF ToolPuts
    <3>3. QED
      BY <1>1, <1>3, <2>2, <3>1, <3>2 DEF DiskOK
  <2>3. QED
    BY <2>1, <2>2
<1>9. QED
  BY <1>2, <1>4, <1>5, <1>6, <1>7, <1>8 DEF DiskOK

LEMMA ToolKeepsScan ==
  ASSUME DiskOK, ScanOK, Covers, NEW x \in Plain \cup Candidates, NEW o \in Made, ToolPuts(x, o)
  PROVE  ScanOK' /\ Covers' /\ \A c \in steady' : c \in steady /\ at'[c] = at[c]
<1>1. Candidates \subseteq Paths /\ \A c \in Candidates : Chain(c) \subseteq Paths /\ c \in Chain(c)
  BY TreeAssumption DEF Chain
<1>2. scan' = scan /\ steady' \subseteq steady
  BY DEF ToolPuts
<1>3. ScanOK'
  BY <1>2 DEF ScanOK, ScanShape
<1>4. \A c \in steady' : c \in Candidates /\ c \in steady /\ \A q \in Chain(c) : at'[q] = at[q]
  <2>1. ASSUME NEW c \in steady' PROVE c \in steady /\ x \notin Chain(c)
    BY DEF ToolPuts
  <2>2. ASSUME NEW c \in steady', NEW q \in Chain(c) PROVE at'[q] = at[q]
    <3>1. q # x /\ q \in Paths
      BY <1>1, <2>1 DEF Covers
    <3>2. QED
      BY <3>1 DEF ToolPuts, DiskOK
  <2>3. QED
    BY <2>1, <2>2 DEF Covers
<1>5. \A c \in steady' : Ordinary(c)'
  BY <1>4 DEF Covers, Ordinary, Chain
<1>6. \A c \in steady' : at'[c] = at[c]
  BY <1>1, <1>4
<1>7. \A c \in steady' : /\ Found(c) => Found(c)'
                         /\ Ahead(c) => Ahead(c)'
  BY <1>2, <1>6 DEF Found, SeenAt, Ahead
<1>8. Whole(scan)' = Whole(scan)
  BY <1>2
<1>9. ASSUME scan.pc = "size", Final(scan.entries) \in steady'
      PROVE  SeenAt(Final(scan.entries), scan.metadata.id, scan.metadata.content.parts)'
  BY <1>2, <1>4, <1>6, <1>9 DEF Covers, SeenAt
<1>10. QED
  BY <1>2, <1>3, <1>4, <1>5, <1>6, <1>7, <1>8, <1>9 DEF Covers

LEMMA ToolKeepsReadings ==
  ASSUME DiskOK, NEW x \in Plain \cup Candidates, NEW o \in Made, ToolPuts(x, o),
         DOMAIN plan \subseteq Candidates, PlanOK, UNCHANGED plan, NEW p \in Candidates
  PROVE  /\ \A id : ReadsPlanned(p, id) => ReadsPlanned(p, id)'
         /\ p \in DOMAIN plan /\ Gone(p) => Gone(p)'
<1>1. linked \in BOOLEAN /\ linked' \in BOOLEAN /\ (linked => linked')
  BY ToolKeepsDisk DEF DiskOK
<1>2. ASSUME NEW id, ReadsPlanned(p, id), p \in DOMAIN plan, at'[p].id = plan[p].identity,
             Ordinary(p)', ~linked'
      PROVE  id = at'[p].id
  <2>1. at'[p].id \in Identities
    BY <1>2 DEF PlanOK
  <2>2. at[p].id = at'[p].id /\ Ordinary(p)
    BY <1>2, <2>1, StillThere
  <2>3. QED
    BY <1>1, <1>2, <2>2 DEF ReadsPlanned
<1>3. ASSUME p \in DOMAIN plan, Gone(p) PROVE Gone(p)'
  <2>1. p \in Paths /\ p \notin Plain /\ Cardinality(Paths) \in Nat /\ events \in Nat
    BY TreeAssumption, FS_CardinalityType DEF DiskOK
  <2>2. plan[p].identity # NewId
    BY <1>3, <2>1 DEF PlanOK, Identities, NewId
  <2>3. CASE p # x
    BY <1>3, <2>1, <2>3 DEF Gone, ToolPuts, DiskOK
  <2>4. CASE p = x
    <3>1. at'[p] = o
      BY <2>1, <2>4 DEF ToolPuts, DiskOK
    <3>2. o.id = NewId \/ o.kind = "absent" \/ (o.id = at[p].id /\ o.kind = at[p].kind)
      BY <2>1, <2>4 DEF ToolPuts
    <3>3. QED
      BY <1>3, <2>2, <3>1, <3>2 DEF Gone
  <2>5. QED
    BY <2>3, <2>4
<1>4. QED
  <2>1. \A id : ReadsPlanned(p, id) => ReadsPlanned(p, id)'
    BY <1>1, <1>2 DEF ReadsPlanned
  <2>2. QED
    BY <1>3, <2>1

LEMMA ToolKeeps ==
  ASSUME CleanupInvariant, Tool
  PROVE  CleanupInvariant'
<1> USE DEF CleanupInvariant
<1>1. PICK x \in Plain \cup Candidates, o \in Made : ToolPuts(x, o)
  BY ToolOutcome DEF Tool
<1>2. /\ UNCHANGED <<claims, record, stage, slot, moved, outcomes, state, mode, identities, plan,
                     fresh, phase, todo>>
      /\ scan' = scan /\ steady' \subseteq steady
  BY <1>1 DEF Tool, engineVars, reportVars, planVars, ToolPuts
<1>3. DiskOK' /\ Identities \subseteq Identities'
  BY <1>1, ToolKeepsDisk
<1>4. ScanOK' /\ Covers' /\ \A c \in steady' : at'[c] = at[c]
  BY <1>1, ToolKeepsScan
<1>5. \A p \in Candidates : /\ \A id : ReadsPlanned(p, id) => ReadsPlanned(p, id)'
                            /\ p \in DOMAIN plan /\ Gone(p) => Gone(p)'
  BY <1>1, <1>2, ToolKeepsReadings DEF SessionOK, SessionTypes
<1>6. ScanReads'
  <2>1. scan.pc = "size" => Final(scan.entries) \in Candidates
    BY DEF ScanOK
  <2>2. \A finding \in scan.findings : finding.path \in Candidates
    BY DEF ScanOK
  <2>3. ASSUME scan.pc = "size"
        PROVE  \A p \in Candidates : p = Final(scan.entries) => ReadsPlanned(p, scan.metadata.id)'
    BY <1>2, <1>5, <2>1, <2>3 DEF ScanReads, ReadsPlanned
  <2>4. ASSUME NEW finding \in scan.findings
        PROVE  \A p \in Candidates : p = finding.path => ReadsPlanned(p, finding.id)'
    BY <1>5, <2>2, <2>4 DEF ScanReads
  <2>5. QED
    BY <1>2, <2>1, <2>2, <2>3, <2>4 DEF ScanReads, ReadsPlanned
<1>7. SessionTypes' /\ PlanOK'
  BY <1>2, <1>3 DEF SessionOK, SessionTypes, PlanOK
<1>8. MovesOK'
  BY <1>2, <1>5 DEF SessionOK, MovesOK
<1>9. FreshOK'
  <2>1. ASSUME NEW p \in DOMAIN fresh PROVE ReadsPlanned(p, fresh[p].finding.id)'
    <3>1. p \in Candidates /\ ReadsPlanned(p, fresh[p].finding.id)
      BY DEF SessionOK, SessionTypes, FreshOK
    <3>2. QED
      BY <1>2, <1>5, <3>1 DEF ReadsPlanned
  <2>2. QED
    BY <1>2, <2>1 DEF SessionOK, FreshOK
<1>10. EngineOK'
  BY <1>2, <1>4 DEF SessionOK, EngineOK
<1>11. QED
  BY <1>3, <1>4, <1>6, <1>7, <1>8, <1>9, <1>10 DEF SessionOK

-----------------------------------------------------------------------------
(* Planning. *)

LEMMA ScanBegins ==
  ASSUME DiskOK, NEW m, NEW limits, BeginScan(m, limits)
  PROVE  DiskOK' /\ ScanOK' /\ Covers' /\ ScanReads' /\ UNCHANGED <<at, events>>
<1>1. /\ UNCHANGED <<at, events>>
      /\ linked' = (\E d \in Plain : at[d].kind = "link")
      /\ steady' = {c \in Candidates : Ordinary(c)}
  BY DEF BeginScan
<1>2. /\ scan'.pc \in {"gate", "root"} /\ scan'.stack = <<>> /\ scan'.entries = {}
      /\ scan'.findings = {} /\ ScanShape(scan')
  BY DEF BeginScan, Idle, ScanShape
<1>3. DiskOK'
  BY <1>1 DEF DiskOK, Identities
<1>4. ScanOK'
  BY <1>2 DEF ScanOK, ScanShape
<1>5. Covers'
  BY <1>1, <1>2 DEF Covers, Ordinary, Ahead
<1>6. ScanReads'
  BY <1>2 DEF ScanReads
<1>7. QED
  BY <1>1, <1>3, <1>4, <1>5, <1>6

LEMMA ScanEnds ==
  ASSUME DiskOK, EndOfScan, UNCHANGED <<at, events>>
  PROVE  DiskOK' /\ ScanOK' /\ Covers' /\ ScanReads' /\ scan'.pc = "idle" /\ steady' = {}
<1>1. linked' = linked /\ steady' = {}
  BY DEF EndOfScan
<1>2. /\ scan'.pc = "idle" /\ scan'.stack = <<>> /\ scan'.entries = {}
      /\ scan'.findings = {} /\ ScanShape(scan')
  BY DEF EndOfScan, Idle, ScanShape
<1>3. DiskOK'
  BY <1>1 DEF DiskOK, Identities
<1>4. ScanOK'
  BY <1>2 DEF ScanOK, ScanShape
<1>5. Covers'
  BY <1>1, <1>2 DEF Covers
<1>6. ScanReads'
  BY <1>2 DEF ScanReads
<1>7. QED
  BY <1>1, <1>2, <1>3, <1>4, <1>5, <1>6

LEMMA ScanStands ==
  ASSUME DiskOK, ScanOK, Covers, ScanReads, UNCHANGED <<scanVars, plan>>
  PROVE  DiskOK' /\ ScanOK' /\ Covers' /\ ScanReads'
<1>1. UNCHANGED <<at, events, scan, steady, linked, plan>>
  BY DEF scanVars
<1>2. DiskOK' /\ ScanOK'
  BY <1>1 DEF DiskOK, Identities, ScanOK, ScanShape
<1>3. Covers'
  BY <1>1 DEF Covers, Ordinary, Found, SeenAt, Ahead, Whole
<1>4. ScanReads'
  BY <1>1 DEF ScanReads, ReadsPlanned, Ordinary
<1>5. QED
  BY <1>2, <1>3, <1>4

\* The session's part of the invariant depends on the disk, the links and, once the engine is
\* at work, on the scan being over.
LEMMA PlansKept ==
  ASSUME SessionOK, UNCHANGED <<at, events, linked, plan, moved, fresh>>
  PROVE  /\ \A p \in DOMAIN plan : Gone(p)' = Gone(p)
         /\ \A p \in DOMAIN fresh : ReadsPlanned(p, fresh[p].finding.id)'
         /\ Identities' = Identities
BY DEF SessionOK, FreshOK, Gone, ReadsPlanned, Ordinary, Identities

LEMMA StartScanKeeps ==
  ASSUME CleanupInvariant, StartScan
  PROVE  CleanupInvariant'
<1> USE DEF CleanupInvariant, SessionOK
<1>1. PICK limits \in Limits : BeginScan(mode, limits)
  BY DEF StartScan
<1>2. DiskOK' /\ ScanOK' /\ Covers' /\ ScanReads' /\ UNCHANGED <<at, events>>
  BY <1>1, ScanBegins
<1>3. /\ UNCHANGED <<claims, record, stage, slot, moved, outcomes, state, mode, identities, plan,
                     fresh, todo>>
      /\ phase = "idle" /\ phase' = "planning"
  BY DEF StartScan, engineVars, reportVars, planVars
<1>4. Identities' = Identities
  BY <1>2 DEF Identities
<1>5. SessionTypes' /\ PlanOK'
  BY <1>3, <1>4 DEF SessionTypes, PlanOK, Phases, BeforePlan
<1>6. DOMAIN plan = {} /\ DOMAIN fresh = {}
  BY <1>3 DEF PlanOK, BeforePlan, FreshOK, Executing
<1>7. MovesOK'
  BY <1>3, <1>6 DEF MovesOK, Executing
<1>8. FreshOK' /\ EngineOK'
  BY <1>3, <1>6 DEF FreshOK, EngineOK, Executing
<1>9. QED
  BY <1>2, <1>5, <1>7, <1>8

LEMMA ScanningKeeps ==
  ASSUME CleanupInvariant, Scanning
  PROVE  CleanupInvariant'
<1> USE DEF CleanupInvariant, SessionOK
<1>1. /\ UNCHANGED <<claims, record, stage, slot, moved, outcomes, state, mode, identities, plan,
                     fresh, phase, todo>>
      /\ phase \in {"planning", "rescan"} /\ ScanStep
  BY DEF Scanning, engineVars, reportVars, planVars
<1>2. ScanOK' /\ Covers' /\ ScanReads' /\ UNCHANGED <<at, events, steady, linked>>
  BY <1>1, ScanStepKeeps
<1>3. DiskOK'
  BY <1>2 DEF DiskOK, Identities
<1>4. /\ \A p \in DOMAIN plan : Gone(p)' = Gone(p)
      /\ \A p \in DOMAIN fresh : ReadsPlanned(p, fresh[p].finding.id)'
      /\ Identities' = Identities
  BY <1>1, <1>2, PlansKept
<1>5. SessionTypes' /\ PlanOK'
  BY <1>1, <1>4 DEF SessionTypes, PlanOK
<1>6. MovesOK'
  BY <1>1, <1>4 DEF MovesOK, Executing
<1>7. FreshOK' /\ EngineOK'
  BY <1>1, <1>4 DEF FreshOK, EngineOK, Executing
<1>8. QED
  BY <1>2, <1>3, <1>5, <1>6, <1>7

LEMMA SelectFindingsKeeps ==
  ASSUME CleanupInvariant, SelectFindings
  PROVE  CleanupInvariant'
<1> USE DEF CleanupInvariant, SessionOK
<1>1. /\ UNCHANGED <<claims, record, stage, slot, moved, outcomes, state, mode, identities, plan,
                     fresh>>
      /\ UNCHANGED scanVars
      /\ phase = "planning" /\ phase' = "identify"
  BY DEF SelectFindings, engineVars, reportVars, planVars
<1>2. DiskOK' /\ ScanOK' /\ Covers' /\ ScanReads'
  BY <1>1, ScanStands
<1>3. todo' \subseteq Candidates
  BY DEF SelectFindings, ScanOK
<1>4. /\ \A p \in DOMAIN plan : Gone(p)' = Gone(p)
      /\ \A p \in DOMAIN fresh : ReadsPlanned(p, fresh[p].finding.id)'
      /\ Identities' = Identities
  BY <1>1, PlansKept DEF scanVars
<1>5. SessionTypes' /\ PlanOK'
  BY <1>1, <1>3, <1>4 DEF SessionTypes, PlanOK, Phases, BeforePlan
<1>6. MovesOK' /\ FreshOK' /\ EngineOK'
  BY <1>1, <1>4 DEF MovesOK, FreshOK, EngineOK, Executing
<1>7. QED
  BY <1>2, <1>5, <1>6

LEMMA NothingToPlanKeeps ==
  ASSUME CleanupInvariant, NothingToPlan
  PROVE  CleanupInvariant'
<1> USE DEF CleanupInvariant, SessionOK
<1>1. /\ UNCHANGED <<claims, record, stage, slot, moved, outcomes, state, mode, identities, plan,
                     fresh, todo, at, events>>
      /\ EndOfScan
      /\ phase = "planning" /\ phase' = "unplanned"
  BY DEF NothingToPlan, engineVars, reportVars, planVars
<1>2. DiskOK' /\ ScanOK' /\ Covers' /\ ScanReads'
  BY <1>1, ScanEnds
<1>3. Identities' = Identities
  BY <1>1 DEF Identities
<1>4. DOMAIN plan = {} /\ DOMAIN fresh = {}
  BY <1>1 DEF PlanOK, BeforePlan, FreshOK, Executing
<1>5. SessionTypes' /\ PlanOK'
  BY <1>1, <1>3 DEF SessionTypes, PlanOK, Phases, BeforePlan
<1>6. MovesOK' /\ FreshOK' /\ EngineOK'
  BY <1>1, <1>4 DEF MovesOK, FreshOK, EngineOK, Executing
<1>7. QED
  BY <1>2, <1>5, <1>6

\* An identity that is observed is one that an object has had.
LEMMA ObservedIdentity ==
  ASSUME DiskOK, NEW p \in Candidates
  PROVE  /\ ObserveIdentity(p) \in (Identities \ {0}) \cup {NoIdentity}
         /\ ObserveIdentity(p) # NoIdentity => Ordinary(p) /\ ObserveIdentity(p) = at[p].id
<1>1. p \in Paths /\ at[p].id \in Identities /\ (at[p].kind # "absent" => at[p].id # 0)
  BY TreeAssumption DEF DiskOK
<1>2. Ordinary(p) => at[p].kind = "directory"
  BY DEF Ordinary
<1>3. QED
  BY <1>1, <1>2 DEF ObserveIdentity

LEMMA FirstTodo ==
  ASSUME SessionTypes, todo # {}
  PROVE  First(todo) \in todo /\ First(todo) \in Candidates
BY FirstIn, TreeAssumption DEF SessionTypes

LEMMA ObservePlanningIdentityKeeps ==
  ASSUME CleanupInvariant, ObservePlanningIdentity
  PROVE  CleanupInvariant'
<1> USE DEF CleanupInvariant, SessionOK
<1> DEFINE p == First(todo)
<1>1. /\ UNCHANGED <<claims, record, stage, slot, moved, outcomes, state, mode, plan, fresh, phase>>
      /\ UNCHANGED scanVars
      /\ phase = "identify" /\ todo # {} /\ todo' = todo \ {p}
      /\ identities' = [q \in DOMAIN identities \cup {p} |->
                          IF q = p THEN ObserveIdentity(q) ELSE identities[q]]
  BY DEF ObservePlanningIdentity, engineVars, reportVars
<1>2. DiskOK' /\ ScanOK' /\ Covers' /\ ScanReads'
  BY <1>1, ScanStands
<1>3. p \in Candidates
  BY <1>1, FirstTodo
<1>4. ObserveIdentity(p) \in (Identities \ {0}) \cup {NoIdentity}
  BY <1>3, ObservedIdentity
<1>5. /\ \A q \in DOMAIN plan : Gone(q)' = Gone(q)
      /\ \A q \in DOMAIN fresh : ReadsPlanned(q, fresh[q].finding.id)'
      /\ Identities' = Identities
  BY <1>1, PlansKept DEF scanVars
<1> HIDE DEF p
<1>6. /\ DOMAIN identities' \subseteq Candidates
      /\ \A q \in DOMAIN identities' : identities'[q] \in (Identities \ {0}) \cup {NoIdentity}
  BY <1>1, <1>3, <1>4 DEF SessionTypes
<1>7. SessionTypes' /\ PlanOK'
  BY <1>1, <1>5, <1>6 DEF SessionTypes, PlanOK
<1>8. MovesOK' /\ FreshOK' /\ EngineOK'
  BY <1>1, <1>5 DEF MovesOK, FreshOK, EngineOK, Executing
<1>9. QED
  BY <1>2, <1>7, <1>8

LEMMA CreateCleanupPlanKeeps ==
  ASSUME CleanupInvariant, CreateCleanupPlan
  PROVE  CleanupInvariant'
<1> USE DEF CleanupInvariant, SessionOK
<1>1. /\ UNCHANGED <<claims, record, stage, slot, moved, outcomes, state, mode, fresh, todo, at,
                     events>>
      /\ EndOfScan /\ identities' = NoItems
      /\ phase = "identify" /\ todo = {}
  BY DEF CreateCleanupPlan, engineVars, reportVars
<1>2. PICK items \in SUBSET DOMAIN identities :
        /\ \A p \in items : identities[p] # NoIdentity /\ Executable(FindingAt(p))
        /\ plan' = [p \in items |-> Snapshot(FindingAt(p), identities[p])]
        /\ phase' = IF items = {} THEN "unplanned" ELSE "review"
  <2> DEFINE items == {p \in DOMAIN identities :
                         /\ ScanCompleteness(mode, scan)
                         /\ identities[p] # NoIdentity
                         /\ Executable(FindingAt(p))}
  <2> WITNESS items \in SUBSET DOMAIN identities
  <2>1. QED
    BY DEF CreateCleanupPlan
<1>3. DiskOK' /\ ScanOK' /\ Covers' /\ ScanReads'
  BY <1>1, ScanEnds
<1>4. Identities' = Identities
  BY <1>1 DEF Identities
<1>5. DOMAIN plan = {} /\ DOMAIN fresh = {}
  BY <1>1 DEF PlanOK, BeforePlan, FreshOK, Executing
<1>6. DOMAIN plan' = items /\ DOMAIN identities' = {}
  BY <1>1, <1>2 DEF NoItems
<1>7. \A p \in items : plan'[p].identity = identities[p] /\ plan'[p].finding = FindingAt(p)
  BY <1>2 DEF Snapshot
<1>8. SessionTypes'
  BY <1>1, <1>2, <1>6 DEF SessionTypes, Phases
<1>9. PlanOK'
  <2>1. phase' \in BeforePlan => DOMAIN plan' = {}
    BY <1>2, <1>6 DEF BeforePlan
  <2>2. ASSUME NEW p \in items
        PROVE  /\ plan'[p].identity \in Identities \ {0} /\ plan'[p].identity # NoIdentity
               /\ Executable(plan'[p].finding)
    BY <1>2, <1>7 DEF SessionTypes
  <2>3. QED
    BY <1>4, <1>6, <2>1, <2>2 DEF PlanOK, Executable
<1>10. MovesOK'
  <2>1. phase' \notin Executing /\ phase \notin Executing \cup {"reported"}
    BY <1>1, <1>2 DEF Executing
  <2>2. QED
    BY <1>1, <1>5, <2>1 DEF MovesOK
<1>11. FreshOK' /\ EngineOK'
  <2>1. phase' \notin Executing \cup {"reidentify"} /\ phase \notin Executing
    BY <1>1, <1>2 DEF Executing
  <2>2. QED
    BY <1>1, <1>5, <2>1 DEF FreshOK, EngineOK
<1>12. QED
  BY <1>3, <1>8, <1>9, <1>10, <1>11

-----------------------------------------------------------------------------
(* The execution, up to the engine. *)

\* What is settled as quarantined was moved, and what was moved is settled so unless the payload
\* was exchanged, or not seen, or a directory is seen at the source.
LEMMA ReconcileOutcome ==
  ASSUME SessionTypes, PlanOK, MovesOK, Reconcile
  PROVE  /\ record' \in [Candidates -> Records]
         /\ \A p \in Candidates :
              /\ record'[p] \in {"quarantined", "committed"} => moved[p] # "never"
              /\ record[p] \in {"quarantined", "committed"} => record'[p] = record[p]
              /\ record[p] = "quarantining" /\ p \in DOMAIN plan /\ slot[p] = plan[p].identity =>
                   record'[p] = "committed" \/ Ordinary(p) \/ p \in missed'
<1> DEFINE pending == {p \in DOMAIN plan : record[p] = "quarantining"}
<1>1. PICK unread \in SUBSET pending, unseen \in SUBSET pending :
        /\ record' = [p \in Candidates |->
             Settled(p, Ordinary(p) /\ p \notin unread,
                     p \in pending \ unseen /\ slot[p] = plan[p].identity)]
        /\ missed' = unseen
  BY DEF Reconcile
<1> HIDE DEF pending
<1>2. ASSUME NEW p \in Candidates
      PROVE  /\ record'[p] \in Records
             /\ record'[p] \in {"quarantined", "committed"} =>
                  record[p] = record'[p] \/ (p \in pending /\ slot[p] = plan[p].identity)
             /\ record[p] \in {"quarantined", "committed"} => record'[p] = record[p]
             /\ record[p] = "quarantining" /\ p \in pending /\ slot[p] = plan[p].identity =>
                  record'[p] = "committed" \/ Ordinary(p) \/ p \in missed'
  <2> DEFINE source == Ordinary(p) /\ p \notin unread
             payload == p \in pending \ unseen /\ slot[p] = plan[p].identity
  <2>1. record'[p] = Settled(p, source, payload) /\ record[p] \in Records
    BY <1>1 DEF SessionTypes
  <2>2. /\ source => Ordinary(p)
        /\ payload => p \in pending /\ slot[p] = plan[p].identity
        /\ p \in pending /\ slot[p] = plan[p].identity /\ ~payload => p \in missed'
    BY <1>1
  <2> HIDE DEF source, payload
  <2>3. QED
    BY <2>1, <2>2 DEF Settled, Records
<1>3. \A p \in pending : p \in DOMAIN plan /\ p \in Candidates
  BY DEF pending, SessionTypes
<1>4. \A p \in pending : slot[p] = plan[p].identity => moved[p] # "never"
  BY <1>3 DEF PlanOK, MovesOK
<1>5. \A p \in DOMAIN plan : record[p] = "quarantining" => p \in pending
  BY DEF pending
<1>6. record' \in [Candidates -> Records]
  BY <1>1, <1>2
<1>7. QED
  BY <1>2, <1>4, <1>5, <1>6 DEF MovesOK

LEMMA RecordsKept ==
  ASSUME SessionTypes, PlanOK, MovesOK, UNCHANGED record \/ Reconcile
  PROVE  /\ record' \in [Candidates -> Records]
         /\ \A p \in Candidates :
              record'[p] \in {"quarantined", "committed"} => moved[p] # "never"
<1>1. CASE UNCHANGED record
  BY <1>1 DEF SessionTypes, MovesOK
<1>2. CASE Reconcile
  BY <1>2, ReconcileOutcome
<1>3. QED
  BY <1>1, <1>2

LEMMA BlockKeeps ==
  ASSUME DiskOK, SessionOK, NEW result, Block(result),
         UNCHANGED <<at, events, slot, moved, identities, plan>>,
         phase \notin BeforePlan, UNCHANGED record \/ Reconcile
  PROVE  SessionOK'
<1> USE DEF SessionOK
<1>1. /\ phase' = "reported" /\ todo' = {} /\ stage' = "begin" /\ DOMAIN fresh' = {}
  BY DEF Block, NoItems
<1>2. Identities' = Identities /\ \A p \in DOMAIN plan : Gone(p)' = Gone(p)
  BY DEF Identities, Gone
<1>3. /\ record' \in [Candidates -> Records]
      /\ \A p \in Candidates :
           record'[p] \in {"quarantined", "committed"} => moved[p] # "never"
  BY RecordsKept
<1>4. SessionTypes' /\ PlanOK'
  BY <1>1, <1>2, <1>3 DEF SessionTypes, PlanOK, Phases, BeforePlan
<1>5. MovesOK'
  BY <1>1, <1>2, <1>3 DEF MovesOK, Executing
<1>6. FreshOK' /\ EngineOK'
  BY <1>1 DEF FreshOK, EngineOK, Executing
<1>7. QED
  BY <1>4, <1>5, <1>6

LEMMA ExecuteKeeps ==
  ASSUME CleanupInvariant, Execute
  PROVE  CleanupInvariant'
<1> USE DEF CleanupInvariant, SessionOK
<1>1. /\ UNCHANGED <<claims, record, stage, slot, mode, identities, plan, fresh, todo>>
      /\ UNCHANGED scanVars
      /\ phase \in {"review", "reported"} /\ phase' = "recover"
      /\ moved' = [c \in Candidates |-> IF moved[c] = "now" THEN "before" ELSE moved[c]]
  BY DEF Execute, planVars
<1>2. DiskOK' /\ ScanOK' /\ Covers' /\ ScanReads'
  BY <1>1, ScanStands
<1>3. Identities' = Identities
  BY <1>1 DEF Identities, scanVars
<1>4. /\ moved' \in [Candidates -> {"never", "now", "before"}]
      /\ \A p \in Candidates : /\ moved'[p] # "never" => moved[p] # "never"
                               /\ moved[p] # "never" => moved'[p] # "never"
                               /\ moved'[p] # "now"
  BY <1>1 DEF SessionTypes
<1>5. SessionTypes' /\ PlanOK'
  BY <1>1, <1>3, <1>4 DEF SessionTypes, PlanOK, Phases, BeforePlan
<1>6. MovesOK'
  <2>1. \A p \in DOMAIN plan : Gone(p)' = Gone(p)
    BY <1>1 DEF Gone, scanVars
  <2>2. phase' \notin Executing
    BY <1>1 DEF Executing
  <2>3. QED
    BY <1>1, <1>4, <2>1, <2>2 DEF MovesOK
<1>7. FreshOK' /\ EngineOK'
  <2>1. DOMAIN fresh = {}
    BY <1>1 DEF FreshOK, Executing
  <2>2. QED
    BY <1>1, <2>1 DEF FreshOK, EngineOK, Executing
<1>8. QED
  BY <1>2, <1>5, <1>6, <1>7

LEMMA RecoverFirstKeeps ==
  ASSUME CleanupInvariant, RecoverFirst
  PROVE  CleanupInvariant'
<1> USE DEF CleanupInvariant, SessionOK
<1>1. /\ UNCHANGED <<slot, moved, identities, plan>>
      /\ phase = "recover"
      /\ UNCHANGED record \/ Reconcile
  BY DEF RecoverFirst
<1>2. CASE /\ InventoryAccepts /\ record' = record
           /\ phase' = "rescan" /\ BeginScan(mode, DefaultLimits)
           /\ UNCHANGED <<reportVars, todo, stage, fresh>>
  <2>1. DiskOK' /\ ScanOK' /\ Covers' /\ ScanReads' /\ UNCHANGED <<at, events>>
    BY <1>2, ScanBegins
  <2>2. Identities' = Identities /\ \A p \in DOMAIN plan : Gone(p)' = Gone(p)
    BY <1>1, <2>1 DEF Identities, Gone
  <2>3. DOMAIN fresh = {}
    BY <1>1 DEF FreshOK, Executing
  <2>4. SessionTypes' /\ PlanOK'
    BY <1>1, <1>2, <2>2 DEF SessionTypes, PlanOK, Phases, BeforePlan
  <2>5. \A p \in Candidates : moved[p] # "never" => slot[p] = plan[p].identity
    BY <1>2 DEF InventoryAccepts, MovesOK
  <2>6. MovesOK'
    BY <1>1, <1>2, <2>2, <2>5 DEF MovesOK, Executing
  <2>7. FreshOK' /\ EngineOK'
    BY <1>1, <1>2, <2>3 DEF FreshOK, EngineOK, Executing
  <2>8. QED
    BY <2>1, <2>4, <2>6, <2>7
<1>3. CASE Block("RECONCILIATION_REQUIRED") /\ UNCHANGED scanVars
  <2>1. DiskOK' /\ ScanOK' /\ Covers' /\ ScanReads'
    BY <1>1, <1>3, ScanStands
  <2>2. SessionOK'
    BY <1>1, <1>3, BlockKeeps DEF scanVars, BeforePlan
  <2>3. QED
    BY <2>1, <2>2
<1>4. QED
  BY <1>1, <1>2, <1>3 DEF RecoverFirst

LEMMA EndFreshScanKeeps ==
  ASSUME CleanupInvariant, EndFreshScan
  PROVE  CleanupInvariant'
<1> USE DEF CleanupInvariant, SessionOK
<1>1. /\ UNCHANGED <<record, slot, moved, identities, plan>> /\ UNCHANGED scanVars
      /\ phase = "rescan"
  BY DEF EndFreshScan
<1>2. DiskOK' /\ ScanOK' /\ Covers' /\ ScanReads'
  BY <1>1, ScanStands
<1>3. CASE Block("BLOCKED")
  BY <1>1, <1>2, <1>3, BlockKeeps DEF scanVars, BeforePlan
<1>4. CASE /\ phase' = "reidentify" /\ todo' = DOMAIN plan
           /\ UNCHANGED <<reportVars, stage, fresh>>
  <2>1. DOMAIN fresh = {}
    BY <1>1 DEF FreshOK, Executing
  <2>2. Identities' = Identities /\ \A p \in DOMAIN plan : Gone(p)' = Gone(p)
    BY <1>1 DEF Identities, Gone, scanVars
  <2>3. SessionTypes' /\ PlanOK'
    BY <1>1, <1>4, <2>2 DEF SessionTypes, PlanOK, Phases, BeforePlan
  <2>4. MovesOK'
    BY <1>1, <1>4, <2>2 DEF MovesOK, Executing
  <2>5. FreshOK' /\ EngineOK'
    BY <1>1, <1>4, <2>1 DEF FreshOK, EngineOK, Executing
  <2>6. QED
    BY <1>2, <2>3, <2>4, <2>5
<1>5. QED
  BY <1>3, <1>4 DEF EndFreshScan

\* A finding that is there is found.
LEMMA FindingThere ==
  ASSUME NEW p, p \in {finding.path : finding \in scan.findings}
  PROVE  FindingAt(p) \in scan.findings /\ FindingAt(p).path = p
<1>1. \E finding \in scan.findings : finding.path = p
  OBVIOUS
<1>2. \E finding : finding \in scan.findings /\ finding.path = p
  BY <1>1
<1>3. QED
  BY <1>1 DEF FindingAt

LEMMA ObserveFreshIdentityKeeps ==
  ASSUME CleanupInvariant, ObserveFreshIdentity
  PROVE  CleanupInvariant'
<1> USE DEF CleanupInvariant, SessionOK
<1> DEFINE p == First(todo)
           s == Snapshot(FindingAt(p), ObserveIdentity(p))
<1>1. /\ UNCHANGED <<record, slot, moved, identities, plan>> /\ UNCHANGED scanVars
      /\ phase = "reidentify" /\ todo # {}
  BY DEF ObserveFreshIdentity
<1>2. DiskOK' /\ ScanOK' /\ Covers' /\ ScanReads'
  BY <1>1, ScanStands
<1>3. CASE Block("BLOCKED")
  BY <1>1, <1>2, <1>3, BlockKeeps DEF scanVars, BeforePlan
<1>4. CASE /\ p \in {finding.path : finding \in scan.findings} /\ ObserveIdentity(p) # NoIdentity
           /\ fresh' = [q \in DOMAIN fresh \cup {p} |-> IF q = p THEN s ELSE fresh[q]]
           /\ todo' = todo \ {p}
           /\ UNCHANGED <<reportVars, stage, identities, phase>>
  <2>1. p \in todo /\ p \in Candidates
    BY <1>1, FirstTodo
  <2>2. ReadsPlanned(p, FindingAt(p).id)
    BY <1>4, FindingThere DEF ScanReads
  <2>3. s.finding = FindingAt(p) /\ s.identity = at[p].id /\ Ordinary(p)
    BY <1>4, <2>1, ObservedIdentity DEF Snapshot
  <2>4. moved[p] = "before" => s.identity # plan[p].identity
    <3>1. at[p].kind = "directory"
      BY <2>3 DEF Ordinary
    <3>2. moved[p] = "before" => Gone(p)
      BY <1>1, <2>1 DEF MovesOK
    <3>3. QED
      BY <2>3, <3>1, <3>2 DEF Gone
  <2>5. Identities' = Identities /\ \A q \in DOMAIN plan : Gone(q)' = Gone(q)
    BY <1>1 DEF Identities, Gone, scanVars
  <2>6. \A q \in Candidates : \A id : ReadsPlanned(q, id) => ReadsPlanned(q, id)'
    BY <1>1 DEF ReadsPlanned, Ordinary, scanVars
  <2>7. phase \notin Executing /\ phase' = phase /\ stage' = stage
    BY <1>1, <1>4 DEF Executing
  <2>8. todo \subseteq DOMAIN plan /\ DOMAIN plan \subseteq DOMAIN fresh \cup todo
    BY <1>1 DEF FreshOK
  <2> HIDE DEF p, s
  <2>9. DOMAIN fresh' = DOMAIN fresh \cup {p} /\ todo' = todo \ {p}
    BY <1>4
  <2>10. SessionTypes' /\ PlanOK'
    BY <1>1, <2>1, <2>5, <2>7, <2>9 DEF SessionTypes, PlanOK
  <2>11. MovesOK'
    BY <1>1, <2>5, <2>7 DEF MovesOK
  <2>12. FreshOK'
    <3>1. ASSUME NEW q \in DOMAIN fresh'
          PROVE  /\ ReadsPlanned(q, fresh[q].finding.id)'
                 /\ q \in DOMAIN plan /\ moved[q] = "before" =>
                      fresh'[q].identity # plan[q].identity
      <4>1. CASE q = p
        <5>1. fresh'[q] = s
          BY <1>4, <2>9, <4>1
        <5>2. q \in Candidates /\ ReadsPlanned(q, s.finding.id)
          BY <2>1, <2>2, <2>3, <4>1
        <5>3. QED
          BY <1>1, <2>4, <2>6, <4>1, <5>1, <5>2 DEF ReadsPlanned
      <4>2. CASE q # p
        <5>1. q \in DOMAIN fresh /\ q \in Candidates /\ fresh'[q] = fresh[q]
          BY <1>4, <2>9, <4>2 DEF SessionTypes
        <5>2. ReadsPlanned(q, fresh[q].finding.id)
          BY <5>1 DEF FreshOK
        <5>3. QED
          BY <1>1, <2>6, <5>1, <5>2 DEF ReadsPlanned, FreshOK
      <4>3. QED
        BY <4>1, <4>2
    <3>2. QED
      BY <1>1, <2>7, <2>8, <2>9, <3>1 DEF FreshOK, Executing
  <2>13. EngineOK'
    BY <1>1, <2>7 DEF EngineOK
  <2>14. QED
    BY <1>2, <2>10, <2>11, <2>12, <2>13
<1>5. QED
  BY <1>3, <1>4 DEF ObserveFreshIdentity

LEMMA RevalidateKeeps ==
  ASSUME CleanupInvariant, Revalidate
  PROVE  CleanupInvariant'
<1> USE DEF CleanupInvariant, SessionOK
<1>1. /\ UNCHANGED <<record, slot, moved, identities, plan, at, events>> /\ EndOfScan
      /\ phase = "reidentify" /\ todo = {}
  BY DEF Revalidate
<1>2. DiskOK' /\ ScanOK' /\ Covers' /\ ScanReads' /\ scan'.pc = "idle" /\ steady' = {}
  BY <1>1, ScanEnds
<1>3. CASE Block("BLOCKED")
  BY <1>1, <1>2, <1>3, BlockKeeps DEF BeforePlan
<1>4. CASE /\ ValidationStatus = "VALID" /\ phase' = "mutate" /\ todo' = DOMAIN plan
           /\ UNCHANGED <<reportVars, stage, fresh>>
  <2>1. \A p \in DOMAIN plan : Executable(fresh[p].finding) /\ ~SnapshotDiffers(plan[p], fresh[p])
    BY <1>4 DEF ValidationStatus
  <2>2. DOMAIN plan \subseteq DOMAIN fresh
    BY <1>1 DEF FreshOK
  <2>3. \A p \in DOMAIN plan : plan[p].identity = fresh[p].identity
    BY <2>1 DEF SnapshotDiffers
  <2>4. \A p \in Candidates : moved[p] = "never"
    <3>1. \A p \in Candidates : moved[p] # "now"
      BY <1>1 DEF MovesOK, Executing
    <3>2. \A p \in Candidates : moved[p] # "before"
      BY <2>2, <2>3 DEF MovesOK, FreshOK
    <3>3. QED
      BY <3>1, <3>2 DEF SessionTypes
  <2>5. linked' = linked
    BY <1>1 DEF EndOfScan
  <2>6. /\ \A p \in DOMAIN plan : Gone(p)' = Gone(p)
        /\ \A p \in DOMAIN fresh : ReadsPlanned(p, fresh[p].finding.id)'
        /\ Identities' = Identities
    BY <1>1, <1>4, <2>5, PlansKept
  <2>7. SessionTypes' /\ PlanOK'
    BY <1>1, <1>4, <2>6 DEF SessionTypes, PlanOK, Phases, BeforePlan
  <2>8. MovesOK'
    BY <1>1, <2>4 DEF MovesOK
  <2>9. FreshOK'
    <3>1. \A p \in DOMAIN plan' :
            Executable(fresh[p].finding)' /\ ~SnapshotDiffers(plan[p], fresh[p])'
      BY <1>1, <1>4, <2>1 DEF Executable, SnapshotDiffers
    <3>2. QED
      BY <1>1, <1>4, <2>2, <2>6, <3>1 DEF FreshOK, Executing
  <2>10. EngineOK'
    <3>1. stage' = "begin" /\ phase' \in Executing /\ steady' = {}
      BY <1>1, <1>2, <1>4 DEF EngineOK, Executing
    <3>2. QED
      BY <1>1, <1>2, <1>4, <2>4, <3>1 DEF EngineOK, SessionTypes
  <2>11. QED
    BY <1>2, <2>7, <2>8, <2>9, <2>10
<1>5. QED
  BY <1>3, <1>4 DEF Revalidate

-----------------------------------------------------------------------------
(* The engine. *)

\* The engine is at p, which is planned.
AtItem(p) ==
  /\ CleanupInvariant /\ phase = "mutate" /\ todo # {} /\ p = First(todo)
  /\ steady' = IF stage' = "validated" THEN {p} ELSE {}
  /\ UNCHANGED <<events, scan, linked, mode, identities, plan, fresh, phase, state>>

LEMMA AtItemFacts ==
  ASSUME NEW p, AtItem(p)
  PROVE  /\ p \in todo /\ p \in Candidates /\ p \in DOMAIN plan
         /\ phase \in Executing /\ phase' = phase
         /\ moved[p] = "now" <=> stage = "moved"
         /\ \A q \in todo : q # p => moved[q] # "now"
<1>1. p \in todo /\ p \in Candidates /\ phase \in Executing
  BY FirstTodo DEF AtItem, CleanupInvariant, SessionOK, Executing
<1>2. QED
  BY <1>1 DEF AtItem, CleanupInvariant, SessionOK, EngineOK

\* What holds of the disk and the scan holds as long as the item stays.
LEMMA ItemStays ==
  ASSUME NEW p, AtItem(p), at' = at, stage' = "validated" => Ordinary(p)
  PROVE  /\ DiskOK' /\ ScanOK' /\ Covers' /\ ScanReads'
         /\ \A q \in DOMAIN plan : Gone(q)' = Gone(q)
         /\ \A q \in DOMAIN fresh : ReadsPlanned(q, fresh[q].finding.id)'
         /\ Identities' = Identities
<1>1. UNCHANGED <<at, events, scan, linked, plan, fresh>>
  BY DEF AtItem
<1>2. /\ DiskOK /\ ScanOK /\ Covers /\ ScanReads /\ SessionOK
      /\ p \in Candidates /\ phase \in Executing
  BY AtItemFacts DEF AtItem, CleanupInvariant
<1>3. DiskOK' /\ ScanOK' /\ ScanReads'
  BY <1>1, <1>2 DEF DiskOK, Identities, ScanOK, ScanShape, ScanReads, ReadsPlanned, Ordinary
<1>4. scan'.pc = "idle"
  BY <1>1, <1>2 DEF SessionOK, EngineOK
<1>5. \A c \in steady' : c \in Candidates /\ Ordinary(c)'
  <2>1. \A c \in steady' : c = p /\ Ordinary(p)
    BY DEF AtItem
  <2>2. Ordinary(p)' = Ordinary(p)
    BY <1>1 DEF Ordinary, AtItem
  <2>3. QED
    BY <1>2, <2>1, <2>2 DEF Ordinary
<1>6. Covers'
  BY <1>4, <1>5 DEF Covers
<1>7. QED
  BY <1>1, <1>2, <1>3, <1>6 DEF SessionOK, FreshOK, Gone, ReadsPlanned, Ordinary, Identities

\* The item is done with: its outcome tells whether it was moved.
LEMMA ItemEnds ==
  ASSUME NEW p, AtItem(p), UNCHANGED <<at, slot, moved>>, NEW outcome, Outcome(p, outcome),
         outcome \in Achieved <=> stage = "moved",
         NEW status \in Records,
         record' = record \/ Journal(p, status),
         status \in {"quarantined", "committed"} <=> stage = "moved"
  PROVE  CleanupInvariant'
<1> USE DEF CleanupInvariant, SessionOK
<1>1. /\ p \in todo /\ p \in Candidates /\ p \in DOMAIN plan
      /\ phase \in Executing /\ phase' = phase
      /\ moved[p] = "now" <=> stage = "moved"
      /\ \A q \in todo : q # p => moved[q] # "now"
  BY AtItemFacts
<1>2. /\ DiskOK' /\ ScanOK' /\ Covers' /\ ScanReads'
      /\ \A q \in DOMAIN plan : Gone(q)' = Gone(q)
      /\ \A q \in DOMAIN fresh : ReadsPlanned(q, fresh[q].finding.id)'
      /\ Identities' = Identities
  BY ItemStays DEF Outcome
<1>3. /\ UNCHANGED <<events, scan, linked, mode, identities, plan, fresh, phase>>
      /\ SessionTypes /\ PlanOK /\ MovesOK /\ FreshOK /\ EngineOK
  BY DEF AtItem
<1>4. todo' = todo \ {p} /\ stage' = "begin" /\ steady' = {}
  BY DEF Outcome, AtItem
<1>5. /\ DOMAIN outcomes' = DOMAIN outcomes \cup {p}
      /\ outcomes'[p] = outcome
      /\ \A q \in DOMAIN outcomes : q # p => outcomes'[q] = outcomes[q]
  BY DEF Outcome
<1>6. /\ record' \in [Candidates -> Records]
      /\ \A q \in Candidates : q # p => record'[q] = record[q]
      /\ record'[p] = record[p] \/ record'[p] = status
  BY <1>1, <1>3 DEF Journal, SessionTypes, Records
<1>7. SessionTypes' /\ PlanOK'
  BY <1>2, <1>3, <1>4, <1>6 DEF SessionTypes, PlanOK, Records
<1>8. MovesOK'
  <2>1. ASSUME NEW q \in Candidates
        PROVE  /\ record'[q] \in {"quarantined", "committed"} => moved[q] # "never"
               /\ moved[q] = "now" => record'[q] \in {"quarantining", "quarantined", "committed"}
    BY <1>1, <1>3, <1>6 DEF MovesOK
  <2>2. QED
    BY <1>1, <1>2, <1>3, <2>1 DEF MovesOK
<1>9. FreshOK'
  <2>1. \A q \in DOMAIN plan' :
          Executable(fresh[q].finding)' /\ ~SnapshotDiffers(plan[q], fresh[q])'
    <3>1. fresh' = fresh /\ plan' = plan
      BY <1>3
    <3>2. \A q \in DOMAIN plan : Executable(fresh[q].finding) /\ ~SnapshotDiffers(plan[q], fresh[q])
      BY <1>1, <1>3 DEF FreshOK
    <3>3. QED
      BY <3>1, <3>2 DEF Executable, SnapshotDiffers
  <2>2. QED
    BY <1>1, <1>2, <1>3, <2>1 DEF FreshOK, Executing
<1>10. EngineOK'
  <2>1. \A q \in todo' : moved[q] # "now"
    BY <1>1, <1>4
  <2>2. ASSUME NEW q \in DOMAIN plan \ todo'
        PROVE  q \in DOMAIN outcomes' /\ (outcomes'[q] \in Achieved <=> moved[q] = "now")
    <3>1. CASE q = p
      BY <1>1, <1>5, <3>1
    <3>2. CASE q # p
      BY <1>1, <1>3, <1>4, <1>5, <3>2 DEF EngineOK
    <3>3. QED
      BY <3>1, <3>2
  <2>3. QED
    BY <1>1, <1>3, <1>4, <2>1, <2>2 DEF EngineOK
<1>11. QED
  BY <1>2, <1>7, <1>8, <1>9, <1>10

\* The item goes on: a step was written, it was found valid again, or it was renamed.
LEMMA ItemGoesOn ==
  ASSUME NEW p, AtItem(p), NEW next, Reach(next), NEW id \in Nat,
         \/ UNCHANGED <<at, slot, moved>> /\ stage # "moved"
              /\ next \in {"claimed", "planned", "quarantining"} /\ Journal(p, next)
         \/ UNCHANGED <<at, slot, moved, record>> /\ stage = "quarantining" /\ next = "validated"
              /\ at[p].id = plan[p].identity
         \/ /\ stage = "validated" /\ next = "moved" /\ record' = record
            /\ moved' = [moved EXCEPT ![p] = "now"] /\ slot' = [slot EXCEPT ![p] = id]
            /\ Gone(p)' \/ id # plan[p].identity,
         /\ DiskOK' /\ ScanOK' /\ Covers' /\ ScanReads'
         /\ \A q \in DOMAIN plan : Gone(q) => Gone(q)'
         /\ \A q \in DOMAIN fresh : ReadsPlanned(q, fresh[q].finding.id)'
         /\ Identities' = Identities
  PROVE  CleanupInvariant'
<1> USE DEF CleanupInvariant, SessionOK
<1>1. /\ p \in todo /\ p \in Candidates /\ p \in DOMAIN plan
      /\ phase \in Executing /\ phase' = phase
      /\ moved[p] = "now" <=> stage = "moved"
      /\ \A q \in todo : q # p => moved[q] # "now"
  BY AtItemFacts
<1>2. /\ UNCHANGED <<events, scan, linked, mode, identities, plan, fresh, phase>>
      /\ SessionTypes /\ PlanOK /\ MovesOK /\ FreshOK /\ EngineOK
      /\ p = First(todo) /\ NoIdentity \notin Nat
  BY IdentityAssumption DEF AtItem
<1>3. todo' = todo /\ stage' = next /\ outcomes' = outcomes
  BY DEF Reach
<1>4. /\ record' \in [Candidates -> Records]
      /\ \A q \in Candidates : q # p => record'[q] = record[q]
      /\ IF next \in {"validated", "moved"} THEN record'[p] = "quarantining"
         ELSE record'[p] = next
  BY <1>1, <1>2 DEF Journal, SessionTypes, Records, EngineOK
<1>5. /\ moved' \in [Candidates -> {"never", "now", "before"}]
      /\ \A q \in Candidates : q # p => moved'[q] = moved[q]
      /\ moved'[p] = "now" <=> next = "moved"
      /\ moved'[p] = moved[p] \/ moved'[p] = "now"
      /\ next \in {"claimed", "planned", "quarantining", "validated", "moved"}
      /\ slot' \in [Candidates -> Nat \cup {NoIdentity}]
      /\ \A q \in Candidates : q # p => slot'[q] = slot[q]
      /\ IF next = "moved" THEN slot'[p] = id /\ (Gone(p)' \/ id # plan[p].identity)
         ELSE slot'[p] = slot[p] /\ moved'[p] = moved[p]
  BY <1>1, <1>2 DEF SessionTypes
<1>6. SessionTypes' /\ PlanOK'
  BY <1>2, <1>3, <1>4, <1>5 DEF SessionTypes, PlanOK, Records
<1>7. MovesOK'
  <2>1. ASSUME NEW q \in Candidates
        PROVE  /\ moved'[q] # "never" =>
                    q \in DOMAIN plan /\ (Gone(q)' \/ slot'[q] # plan[q].identity)
               /\ moved'[q] # "never" <=> slot'[q] # NoIdentity
               /\ record'[q] \in {"quarantined", "committed"} => moved'[q] # "never"
               /\ moved'[q] # "before"
               /\ moved'[q] = "now" => record'[q] \in {"quarantining", "quarantined", "committed"}
    <3>1. CASE q = p
      BY <1>1, <1>2, <1>4, <1>5, <3>1 DEF MovesOK
    <3>2. CASE q # p
      BY <1>1, <1>2, <1>4, <1>5, <3>2 DEF MovesOK
    <3>3. QED
      BY <3>1, <3>2
  <2>2. QED
    BY <1>1, <1>2, <2>1 DEF MovesOK, Executing
<1>8. FreshOK'
  <2>1. \A q \in DOMAIN fresh : q \in DOMAIN plan /\ moved'[q] = "before" =>
          fresh[q].identity # plan[q].identity
    BY <1>2, <1>5 DEF FreshOK, SessionTypes
  <2>2. \A q \in DOMAIN plan' :
          Executable(fresh[q].finding)' /\ ~SnapshotDiffers(plan[q], fresh[q])'
    <3>1. fresh' = fresh /\ plan' = plan
      BY <1>2
    <3>2. \A q \in DOMAIN plan : Executable(fresh[q].finding) /\ ~SnapshotDiffers(plan[q], fresh[q])
      BY <1>1, <1>2 DEF FreshOK
    <3>3. QED
      BY <3>1, <3>2 DEF Executable, SnapshotDiffers
  <2>3. QED
    BY <1>1, <1>2, <2>1, <2>2 DEF FreshOK, Executing
<1>9. EngineOK'
  <2>1. \A q \in todo : moved'[q] = "now" <=> q = p /\ next = "moved"
    BY <1>1, <1>2, <1>5 DEF SessionTypes
  <2>2. \A q \in DOMAIN plan \ todo :
          q \in DOMAIN outcomes /\ (outcomes[q] \in Achieved <=> moved'[q] = "now")
    BY <1>1, <1>2, <1>5 DEF EngineOK, SessionTypes
  <2>3. todo \subseteq DOMAIN plan /\ scan.pc = "idle"
    BY <1>1, <1>2 DEF EngineOK
  <2>4. \A c \in steady' : next = "validated" /\ c = p /\ at'[c].id = plan[c].identity
    BY <1>3 DEF AtItem
  <2>5. First(todo)' = p
    BY <1>2, <1>3 DEF First
  <2>6. QED
    BY <1>1, <1>2, <1>3, <1>4, <1>5, <2>1, <2>2, <2>3, <2>4, <2>5 DEF EngineOK
<1>10. QED
  BY <1>6, <1>7, <1>8, <1>9

\* A step of the item that leaves the disk alone.
LEMMA ItemStepped ==
  ASSUME NEW p, AtItem(p), NEW next, Reach(next), UNCHANGED <<at, slot, moved>>,
         \/ /\ stage # "moved" /\ next \in {"claimed", "planned", "quarantining"}
            /\ Journal(p, next)
         \/ /\ stage = "quarantining" /\ next = "validated" /\ record' = record
            /\ Ordinary(p) /\ at[p].id = plan[p].identity
  PROVE  CleanupInvariant'
<1>1. stage' = "validated" => Ordinary(p)
  BY DEF Reach
<1>2. /\ DiskOK' /\ ScanOK' /\ Covers' /\ ScanReads'
      /\ \A q \in DOMAIN plan : Gone(q) => Gone(q)'
      /\ \A q \in DOMAIN fresh : ReadsPlanned(q, fresh[q].finding.id)'
      /\ Identities' = Identities
  BY <1>1, ItemStays
<1>3. 0 \in Nat
  OBVIOUS
<1>4. QED
  BY <1>2, <1>3, ItemGoesOn, Zenon

\* Taking what is planned away leaves everything else as it was.
LEMMA RenameKeepsDisk ==
  ASSUME NEW p, AtItem(p), at' = [at EXCEPT ![p] = Absent], stage' = "moved"
  PROVE  /\ DiskOK' /\ ScanOK' /\ Covers' /\ ScanReads'
         /\ \A q \in DOMAIN plan : Gone(q) => Gone(q)'
         /\ Gone(p)'
         /\ \A q \in DOMAIN fresh : ReadsPlanned(q, fresh[q].finding.id)'
         /\ Identities' = Identities
<1> USE DEF CleanupInvariant, SessionOK
<1>1. /\ p \in Candidates /\ p \in Paths /\ p \notin Plain /\ Plain \subseteq Paths
      /\ p \in DOMAIN plan /\ DOMAIN plan \subseteq Candidates /\ Candidates \subseteq Paths
      /\ \A q \in Candidates : Above[q] \subseteq Plain
      /\ phase \in Executing
  BY AtItemFacts, TreeAssumption DEF AtItem, SessionTypes
<1>2. /\ UNCHANGED <<events, scan, linked, plan, fresh>> /\ steady' = {}
      /\ DiskOK /\ ScanOK /\ Covers /\ ScanReads /\ FreshOK /\ EngineOK /\ SessionTypes
  BY DEF AtItem
<1>3. at'[p] = Absent /\ \A q \in Paths : q # p => at'[q] = at[q]
  BY <1>1, <1>2 DEF DiskOK
<1>4. Absent \in [kind : Kinds, id : Identities, content : Contents] /\ Absent.kind = "absent"
  <2>1. 0 \in Identities
    BY <1>2, TreeAssumption, FS_CardinalityType DEF Identities, DiskOK
  <2>2. QED
    BY <2>1, ScanAssumption DEF Absent, Object, Kinds
<1>5. Identities' = Identities
  BY <1>2 DEF Identities
<1>6. DiskOK'
  BY <1>1, <1>2, <1>3, <1>4, <1>5 DEF DiskOK
<1>7. ScanOK'
  BY <1>2 DEF ScanOK, ScanShape
<1>8. Covers'
  BY <1>1, <1>2 DEF Covers, EngineOK
<1>9. Gone(p)' /\ \A q \in DOMAIN plan : Gone(q) => Gone(q)'
  BY <1>1, <1>2, <1>3, <1>4 DEF Gone
<1>10. \A q \in Candidates : \A id : ReadsPlanned(q, id) => ReadsPlanned(q, id)'
  <2>1. ASSUME NEW q \in Candidates, NEW id, ReadsPlanned(q, id), q \in DOMAIN plan,
               at'[q].id = plan[q].identity, Ordinary(q)', ~linked
        PROVE  id = at'[q].id
    <3>1. at'[q].kind = "directory"
      BY <2>1 DEF Ordinary
    <3>2. q # p
      BY <1>3, <1>4, <3>1
    <3>3. \A d \in Above[q] \cup {q} : d # p /\ d \in Paths
      BY <1>1, <3>2
    <3>4. \A d \in Above[q] \cup {q} : at'[d] = at[d]
      BY <1>3, <3>3
    <3>5. Ordinary(q) /\ at'[q] = at[q]
      BY <2>1, <3>4 DEF Ordinary
    <3>6. QED
      BY <2>1, <3>5 DEF ReadsPlanned
  <2>2. QED
    BY <1>2, <2>1 DEF ReadsPlanned
<1>11. ScanReads'
  <2>1. scan.pc # "size" /\ \A finding \in scan.findings : finding.path \in Candidates
    BY <1>1, <1>2 DEF EngineOK, ScanOK
  <2>2. \A finding \in scan.findings : ReadsPlanned(finding.path, finding.id)
    BY <1>2 DEF ScanReads
  <2>3. QED
    BY <1>2, <1>10, <2>1, <2>2 DEF ScanReads, ReadsPlanned
<1>12. \A q \in DOMAIN fresh : ReadsPlanned(q, fresh[q].finding.id)'
  <2>1. ASSUME NEW q \in DOMAIN fresh PROVE ReadsPlanned(q, fresh[q].finding.id)'
    <3>1. q \in Candidates /\ ReadsPlanned(q, fresh[q].finding.id)
      BY <1>2 DEF SessionTypes, FreshOK
    <3>2. QED
      BY <1>2, <1>10, <3>1 DEF ReadsPlanned
  <2>2. QED
    BY <2>1
<1>13. QED
  BY <1>5, <1>6, <1>7, <1>8, <1>9, <1>11, <1>12

LEMMA ItemStepKeeps ==
  ASSUME CleanupInvariant, ItemStep
  PROVE  CleanupInvariant'
<1> DEFINE p == First(todo)
<1>1. AtItem(p)
  BY DEF ItemStep, AtItem, planVars
<1>2. /\ record \in [Candidates -> Records] /\ p \in Candidates
      /\ stage \in {"claimed", "planned", "quarantining"} => record[p] = stage
  BY <1>1, AtItemFacts DEF CleanupInvariant, SessionOK, SessionTypes, EngineOK, Records
<1>3. PICK q : q = p
  OBVIOUS
<1> HIDE DEF p
<1>4. AtItem(q)
  BY <1>1, <1>3
<1>5. ASSUME RefuseItem(q) \/ ReplayItem(q) PROVE CleanupInvariant'
  <2>1. PICK outcome \in {"FAILED", "REPLAYED"} : Outcome(q, outcome)
    BY <1>5 DEF RefuseItem, ReplayItem
  <2>2. stage = "begin" /\ UNCHANGED <<at, slot, moved, record>>
    BY <1>5 DEF RefuseItem, ReplayItem
  <2>3. "failed" \in Records /\ outcome \notin Achieved
    BY <2>1 DEF Records, Achieved
  <2>4. QED
    BY <1>4, <2>1, <2>2, <2>3, ItemEnds
<1>6. ASSUME ClaimItem(q) PROVE CleanupInvariant'
  <2>1. stage = "begin" /\ UNCHANGED <<at, slot, moved>>
    BY <1>6 DEF ClaimItem
  <2>2. CASE Journal(q, "claimed") /\ Reach("claimed")
    BY <1>4, <2>1, <2>2, ItemStepped
  <2>3. CASE UNCHANGED record /\ Outcome(q, "FAILED")
    <3>1. "failed" \in Records /\ "FAILED" \notin Achieved
      BY DEF Records, Achieved
    <3>2. QED
      BY <1>4, <2>1, <2>3, <3>1, ItemEnds
  <2>4. QED
    BY <1>6, <2>2, <2>3 DEF ClaimItem
<1>7. ASSUME JournalIntent(q) PROVE CleanupInvariant'
  <2>1. PICK next \in {"planned", "quarantining"} : Journal(q, next) /\ Reach(next)
    BY <1>7 DEF JournalIntent
  <2>2. stage # "moved" /\ UNCHANGED <<at, slot, moved>>
    BY <1>7 DEF JournalIntent
  <2>3. QED
    BY <1>4, <2>1, <2>2, ItemStepped
<1>8. ASSUME RenameItem(q) PROVE CleanupInvariant'
  <2> DEFINE id == LStat(q).id
  <2>1. /\ stage = "validated" /\ Reach("moved") /\ record' = record
        /\ moved' = [moved EXCEPT ![q] = "now"] /\ slot' = [slot EXCEPT ![q] = id]
        /\ stage' = "moved" /\ LStat(q).kind # "absent"
    BY <1>8 DEF RenameItem, Reach
  <2>2. q \in Candidates /\ q \in Paths /\ q \in DOMAIN plan /\ DiskOK /\ PlanOK
    BY <1>4, AtItemFacts, TreeAssumption DEF AtItem, CleanupInvariant, SessionOK
  <2>3. at[q].id \in Nat
    <3>1. Identities \subseteq Nat
      BY <2>2, TreeAssumption, FS_CardinalityType DEF Identities, DiskOK
    <3>2. QED
      BY <2>2, <3>1 DEF DiskOK
  <2>4. CASE \E d \in Above[q] : at[d].kind = "link"
    <3>1. at' = at /\ id = 0
      BY <1>8, <2>4 DEF RenameItem, LStat, Beyond, Object
    <3>2. id \in Nat /\ id # plan[q].identity
      BY <2>2, <3>1 DEF PlanOK
    <3> HIDE DEF id
    <3>3. QED
      BY <1>4, <2>1, <3>1, <3>2, ItemStays, ItemGoesOn, Zenon
  <2>5. CASE ~\E d \in Above[q] : at[d].kind = "link"
    <3>1. at' = [at EXCEPT ![q] = Absent]
      BY <1>8, <2>5 DEF RenameItem
    <3>2. id = at[q].id
      BY <2>1, <2>5 DEF LStat, Absent, Object
    <3>3. /\ DiskOK' /\ ScanOK' /\ Covers' /\ ScanReads'
          /\ \A r \in DOMAIN plan : Gone(r) => Gone(r)'
          /\ Gone(q)'
          /\ \A r \in DOMAIN fresh : ReadsPlanned(r, fresh[r].finding.id)'
          /\ Identities' = Identities
      BY <1>4, <2>1, <3>1, RenameKeepsDisk
    <3> HIDE DEF id
    <3>4. QED
      BY <1>4, <2>1, <2>3, <3>2, <3>3, ItemGoesOn, Zenon
  <2>6. QED
    BY <2>4, <2>5
<1>9. ASSUME JournalMove(q) PROVE CleanupInvariant'
  <2>1. stage = "moved" /\ UNCHANGED <<at, slot, moved>>
    BY <1>9 DEF JournalMove
  <2>2. PICK status \in {"quarantined", "committed"}, outcome \in {"SUCCEEDED", "RECOVERABLE"} :
          (record' = record \/ Journal(q, status)) /\ Outcome(q, outcome)
    BY <1>9 DEF JournalMove
  <2>3. status \in Records /\ outcome \in Achieved
    BY <2>2 DEF Records, Achieved
  <2>4. QED
    BY <1>4, <2>1, <2>2, <2>3, ItemEnds
<1>10. ASSUME FailItem(q) PROVE CleanupInvariant'
  <2>1. /\ stage # "moved" /\ UNCHANGED <<at, slot, moved>>
        /\ record' = record \/ Journal(q, "failed")
        /\ Outcome(q, "FAILED")
    BY <1>10 DEF FailItem
  <2>2. "failed" \in Records /\ "FAILED" \notin Achieved
    BY DEF Records, Achieved
  <2>3. QED
    BY <1>4, <2>1, <2>2, ItemEnds
<1>11. ASSUME ValidateItem(q) PROVE CleanupInvariant'
  <2>1. /\ stage = "quarantining" /\ Reach("validated") /\ UNCHANGED <<at, slot, moved, record>>
        /\ ItemIsValid(q)
    BY <1>11 DEF ValidateItem
  <2>2. q \in Candidates /\ q \in DOMAIN plan /\ DiskOK /\ PlanOK
    BY <1>4, AtItemFacts DEF AtItem, CleanupInvariant, SessionOK
  <2>3. Ordinary(q) /\ at[q].id = plan[q].identity
    BY <2>1, <2>2, ObservedIdentity DEF ItemIsValid, PlanOK
  <2>4. QED
    BY <1>4, <2>1, <2>3, ItemStepped
<1>12. QED
  BY <1>3, <1>5, <1>6, <1>7, <1>8, <1>9, <1>10, <1>11 DEF ItemStep, p

LEMMA InterruptEngineKeeps ==
  ASSUME CleanupInvariant, InterruptEngine
  PROVE  CleanupInvariant'
<1> USE DEF CleanupInvariant, SessionOK
<1>1. /\ UNCHANGED <<claims, record, stage, slot, moved, outcomes, state, mode, identities, plan,
                     fresh, todo>>
      /\ UNCHANGED <<at, events, scan, linked>> /\ steady' = {}
      /\ phase = "mutate" /\ phase' = "interrupted"
  BY DEF InterruptEngine, engineVars, reportVars, planVars
<1>2. DiskOK' /\ ScanOK' /\ Covers' /\ ScanReads'
  <2>1. scan.pc = "idle"
    BY <1>1 DEF EngineOK, Executing
  <2>2. QED
    BY <1>1, <2>1 DEF DiskOK, Identities, ScanOK, ScanShape, Covers, ScanReads, ReadsPlanned,
       Ordinary
<1>3. /\ \A p \in DOMAIN plan : Gone(p)' = Gone(p)
      /\ \A p \in DOMAIN fresh : ReadsPlanned(p, fresh[p].finding.id)'
      /\ Identities' = Identities
  BY <1>1, PlansKept DEF scanVars
<1>4. SessionTypes' /\ PlanOK'
  BY <1>1, <1>3 DEF SessionTypes, PlanOK, Phases, BeforePlan
<1>5. phase \in Executing /\ phase' \in Executing
  BY <1>1 DEF Executing
<1>6. MovesOK'
  BY <1>1, <1>3, <1>5 DEF MovesOK
<1>7. FreshOK'
  <2>1. \A p \in DOMAIN plan' :
          Executable(fresh[p].finding)' /\ ~SnapshotDiffers(plan[p], fresh[p])'
    <3>1. fresh' = fresh /\ plan' = plan
      BY <1>1
    <3>2. \A p \in DOMAIN plan : Executable(fresh[p].finding) /\ ~SnapshotDiffers(plan[p], fresh[p])
      BY <1>5 DEF FreshOK
    <3>3. QED
      BY <3>1, <3>2 DEF Executable, SnapshotDiffers
  <2>2. QED
    BY <1>1, <1>3, <1>5, <2>1 DEF FreshOK
<1>8. EngineOK'
  BY <1>1, <1>5 DEF EngineOK, scanVars
<1>9. QED
  BY <1>2, <1>4, <1>6, <1>7, <1>8

LEMMA ReportsKeep ==
  ASSUME CleanupInvariant, ReportItems \/ ReportAfterInterrupt \/ ReportInconclusive
  PROVE  CleanupInvariant'
<1> USE DEF CleanupInvariant, SessionOK
<1>1. /\ UNCHANGED <<slot, moved, identities, plan>> /\ UNCHANGED scanVars
      /\ phase \in Executing
      /\ UNCHANGED record \/ Reconcile
  BY DEF ReportItems, ReportAfterInterrupt, ReportInconclusive, engineVars, Executing
<1>2. DiskOK' /\ ScanOK' /\ Covers' /\ ScanReads'
  BY <1>1, ScanStands
<1>3. CASE ReportInconclusive
  <2>1. PICK result : Block(result)
    BY <1>3 DEF ReportInconclusive
  <2>2. phase \notin BeforePlan
    BY <1>1 DEF Executing, BeforePlan
  <2>3. QED
    BY <1>1, <1>2, <2>1, <2>2, BlockKeeps DEF scanVars
<1>4. CASE ReportItems \/ ReportAfterInterrupt
  <2>1. /\ phase' = "reported" /\ fresh' = NoItems /\ todo' = {} /\ stage' = "begin"
    BY <1>4 DEF ReportItems, ReportAfterInterrupt, engineVars, EngineOK, Executing
  <2>2. /\ record' \in [Candidates -> Records]
        /\ \A p \in Candidates :
             record'[p] \in {"quarantined", "committed"} => moved[p] # "never"
    BY <1>1, RecordsKept
  <2>3. Identities' = Identities /\ \A p \in DOMAIN plan : Gone(p)' = Gone(p)
    BY <1>1 DEF Identities, Gone, scanVars
  <2>4. SessionTypes' /\ PlanOK'
    BY <1>1, <2>1, <2>2, <2>3 DEF SessionTypes, PlanOK, Phases, BeforePlan, Records, NoItems
  <2>5. MovesOK'
    BY <1>1, <2>1, <2>2, <2>3 DEF MovesOK, Executing
  <2>6. FreshOK' /\ EngineOK'
    BY <1>1, <2>1 DEF FreshOK, EngineOK, Executing, NoItems
  <2>7. QED
    BY <1>2, <2>4, <2>5, <2>6
<1>5. QED
  BY <1>3, <1>4

-----------------------------------------------------------------------------
(* The invariant. *)

LEMMA CleanupInit ==
  ASSUME Init
  PROVE  CleanupInvariant
<1>1. Cardinality(Paths) \in Nat /\ OutsideContent \in Contents
  BY TreeAssumption, ScanAssumption, FS_CardinalityType
<1>2. DiskOK
  <2>1. \A p \in Paths : /\ at[p] = Object(KindOf(p), Position[p], OutsideContent)
                         /\ KindOf(p) \in {"directory", "file"} /\ Position[p] \in Identities
    BY <1>1, ScanAssumption DEF Init, KindOf, Identities
  <2>2. ASSUME NEW p \in Paths
        PROVE  /\ at[p] \in [kind : Kinds, id : Identities, content : Contents]
               /\ at[p].kind # "link" /\ at[p].id # 0
    <3>1. /\ KindOf(p) \in Kinds /\ KindOf(p) # "link"
      BY <2>1 DEF Kinds
    <3>2. \A kind \in Kinds, id \in Identities, content \in Contents :
            /\ Object(kind, id, content) \in [kind : Kinds, id : Identities, content : Contents]
            /\ Object(kind, id, content).kind = kind /\ Object(kind, id, content).id = id
      BY DEF Object
    <3>3. Position[p] # 0
      BY <1>1, ScanAssumption
    <3>4. QED
      BY <1>1, <2>1, <3>1, <3>2, <3>3
  <2>3. QED
    BY <2>2, TreeAssumption DEF Init, DiskOK
<1>3. /\ scan.pc = "idle" /\ scan.stack = <<>> /\ scan.entries = {}
      /\ scan.findings = {} /\ ScanShape(scan) /\ steady = {}
  BY DEF Init, Idle, ScanShape
<1>4. ScanOK /\ Covers /\ ScanReads
  BY <1>3 DEF ScanOK, Covers, ScanReads
<1>5. /\ phase = "idle" /\ todo = {} /\ stage = "begin"
      /\ DOMAIN identities = {} /\ DOMAIN plan = {} /\ DOMAIN fresh = {}
      /\ record = [c \in Candidates |-> "none"] /\ moved = [c \in Candidates |-> "never"]
      /\ slot = [c \in Candidates |-> NoIdentity]
  BY DEF Init, NoItems
<1>6. SessionTypes /\ PlanOK
  BY <1>5 DEF SessionTypes, PlanOK, Phases, Records
<1>7. MovesOK /\ FreshOK /\ EngineOK
  BY <1>5 DEF MovesOK, FreshOK, EngineOK, Executing
<1>8. QED
  BY <1>2, <1>4, <1>6, <1>7 DEF CleanupInvariant, SessionOK

LEMMA CleanupStutters ==
  ASSUME CleanupInvariant, UNCHANGED vars
  PROVE  CleanupInvariant'
<1> USE DEF CleanupInvariant, SessionOK
<1>1. /\ UNCHANGED <<record, stage, slot, moved, outcomes, identities, plan, fresh, phase, todo>>
      /\ UNCHANGED scanVars
  BY DEF vars, engineVars, reportVars, planVars
<1>2. DiskOK' /\ ScanOK' /\ Covers' /\ ScanReads'
  BY <1>1, ScanStands
<1>3. /\ \A p \in DOMAIN plan : Gone(p)' = Gone(p)
      /\ \A p \in DOMAIN fresh : ReadsPlanned(p, fresh[p].finding.id)'
      /\ Identities' = Identities
  BY <1>1, PlansKept DEF scanVars
<1>4. SessionTypes' /\ PlanOK' /\ MovesOK'
  BY <1>1, <1>3 DEF SessionTypes, PlanOK, MovesOK
<1>5. FreshOK'
  <2>1. fresh' = fresh /\ plan' = plan
    BY <1>1
  <2>2. ASSUME phase \in Executing
        PROVE  \A p \in DOMAIN plan' :
                 Executable(fresh[p].finding)' /\ ~SnapshotDiffers(plan[p], fresh[p])'
    <3>1. \A p \in DOMAIN plan : Executable(fresh[p].finding) /\ ~SnapshotDiffers(plan[p], fresh[p])
      BY <2>2 DEF FreshOK
    <3>2. QED
      BY <2>1, <3>1 DEF Executable, SnapshotDiffers
  <2>3. QED
    BY <1>1, <1>3, <2>2 DEF FreshOK
<1>6. EngineOK'
  BY <1>1 DEF EngineOK, scanVars
<1>7. QED
  BY <1>2, <1>4, <1>5, <1>6

\* In every state the disk, the scan, the plan, the journal and the outcomes fit each other as
\* the invariant says: the facts the theorems below rest on.
THEOREM CleanupInvariantHolds == Spec => []CleanupInvariant
<1>1. Init => CleanupInvariant
  BY CleanupInit
<1>2. CleanupInvariant /\ [Next]_vars => CleanupInvariant'
  <2>1. ASSUME CleanupInvariant, Next PROVE CleanupInvariant'
    BY <2>1, StartScanKeeps, ScanningKeeps, SelectFindingsKeeps, NothingToPlanKeeps,
       ObservePlanningIdentityKeeps, CreateCleanupPlanKeeps, ExecuteKeeps, RecoverFirstKeeps,
       EndFreshScanKeeps, ObserveFreshIdentityKeeps, RevalidateKeeps, ItemStepKeeps,
       InterruptEngineKeeps, ReportsKeep, ToolKeeps DEF Next
  <2>2. QED
    BY <2>1, CleanupStutters
<1>3. QED
  BY <1>1, <1>2, PTL DEF Spec

-----------------------------------------------------------------------------
(* What is reported and moved. *)

\* A scan that says it is complete has found every candidate that stood there all the time:
\* nothing it has still to visit is left when it is done, whatever the budget, the tree and
\* the number of changes (scanner.py).
THEOREM CompleteScanSawAll == Spec => []CompleteMeansSeen
<1>1. CleanupInvariant => CompleteMeansSeen
  <2>1. ASSUME CleanupInvariant, ScanCompleteness(mode, scan), NEW c \in steady
        PROVE  \E finding \in scan.findings :
                 /\ finding.path = c /\ finding.id = at[c].id
                 /\ finding.dir.parts = at[c].content.parts
    <3>1. scan.pc = "done" /\ Whole(scan)
      BY <2>1 DEF ScanCompleteness, NothingMissed, Whole
    <3>2. ~Ahead(c)
      BY <3>1 DEF Ahead
    <3>3. Found(c)
      BY <2>1, <3>1, <3>2 DEF CleanupInvariant, Covers
    <3>4. QED
      BY <3>3 DEF Found, SeenAt
  <2>2. QED
    BY <2>1 DEF CompleteMeansSeen
<1>2. QED
  BY <1>1, CleanupInvariantHolds, PTL

\* A finding that can be executed is about a directory in a disposable root.
LEMMA ExecutableNode ==
  ASSUME NEW finding, Executable(finding)
  PROVE  Analysed(finding).node = [kind |-> "directory", protection |-> "ordinary"]
<1> DEFINE d == finding.dir
           detection == Detection("pytest_cache", d)
<1>1. /\ Analysed(finding).node = detection.node
      /\ Analysed(finding).observations = detection.observations
  BY Zenon DEF Analysed, AnalyzeCandidate, EvaluateAnalysis
<1>2. detection = InspectPytestCache(d)
  BY Zenon DEF Detection, StorageArtifacts
<1>3. Unknown("reference_check") \in ContextUnknown /\ IsUncertain(Unknown("reference_check"))
  BY DEF ContextUnknown, IsUncertain, IsObservationFailure, Unknown, Evidence
<1>4. Unknown("reference_check") \notin detection.observations
  BY <1>1, <1>3 DEF Executable, HasUncertainty
<1>5. IsDirectory(d)
  <2>1. Unknown("reference_check") \in PytestUninspectable(d).observations
    BY <1>3, Zenon DEF PytestUninspectable, Uninspectable
  <2>2. QED
    BY <1>2, <1>4, <2>1 DEF InspectPytestCache
<1>6. d.disposable
  <2>1. ASSUME ~d.disposable
        PROVE  Unknown("reference_check") \in PytestDirectory(d, "unknown").observations
    BY <1>3, <2>1, Zenon DEF PytestDirectory, PytestContext
  <2>2. QED
    BY <1>2, <1>4, <1>5, <2>1 DEF InspectPytestCache
<1>7. detection = PytestDirectory(d, "ordinary")
  BY <1>2, <1>5, <1>6 DEF InspectPytestCache
<1>8. PytestDirectory(d, "ordinary").node = [kind |-> "directory", protection |-> "ordinary"]
  BY Zenon DEF PytestDirectory
<1>9. QED
  BY <1>1, <1>7, <1>8

\* The same evidence leads to the same finding.
LEMMA SameEvidence ==
  ASSUME NEW f, NEW g, Executable(f), Executable(g),
         Analysed(f).observations = Analysed(g).observations
  PROVE  Analysed(f) = Analysed(g)
<1> DEFINE df == Detection("pytest_cache", f.dir)
           dg == Detection("pytest_cache", g.dir)
<1>1. /\ Analysed(f).node = df.node /\ Analysed(f).observations = df.observations
      /\ Analysed(g).node = dg.node /\ Analysed(g).observations = dg.observations
  BY Zenon DEF Analysed, AnalyzeCandidate, EvaluateAnalysis
<1>2. df.node = dg.node /\ df.observations = dg.observations
  BY <1>1, ExecutableNode
<1> HIDE DEF df, dg
<1>3. \A i : EvaluateAnalysis("pytest_cache", df, i) = EvaluateAnalysis("pytest_cache", dg, i)
  BY <1>2, Zenon DEF EvaluateAnalysis
<1>4. /\ Analysed(f) = EvaluateAnalysis("pytest_cache", df,
                                        Interpret("pytest_cache", df.observations))
      /\ Analysed(g) = EvaluateAnalysis("pytest_cache", dg,
                                        Interpret("pytest_cache", dg.observations))
  BY Zenon DEF Analysed, AnalyzeCandidate, df, dg
<1>5. QED
  BY <1>2, <1>3, <1>4, Zenon

\* Only the engine moves, and only the item it is at.
LEMMA OnlyRenamed ==
  ASSUME CleanupInvariant, Next, NEW p \in Candidates, moved'[p] = "now", moved[p] # "now"
  PROVE  RenameItem(p) /\ phase = "mutate" /\ p \in DOMAIN plan
<1>1. moved' # moved
  OBVIOUS
<1>2. ~Execute
  BY DEF Execute
<1>3. ItemStep
  BY <1>1, <1>2 DEF Next, StartScan, Scanning, SelectFindings, NothingToPlan,
     ObservePlanningIdentity, CreateCleanupPlan, RecoverFirst, EndFreshScan,
     ObserveFreshIdentity, Revalidate, InterruptEngine, ReportItems, ReportAfterInterrupt,
     ReportInconclusive, Tool, engineVars
<1>4. RenameItem(First(todo))
  BY <1>1, <1>3 DEF ItemStep, RefuseItem, ReplayItem, ClaimItem, JournalIntent, JournalMove,
     ValidateItem, FailItem
<1>5. moved' = [moved EXCEPT ![First(todo)] = "now"]
  BY <1>4 DEF RenameItem
<1>6. p = First(todo)
  BY <1>5 DEF CleanupInvariant, SessionOK, SessionTypes
<1>7. AtItem(p)
  BY <1>3, <1>6 DEF ItemStep, AtItem, planVars
<1>8. QED
  BY <1>3, <1>4, <1>6, <1>7, AtItemFacts DEF ItemStep

\* What is moved has the evidence that was reviewed, and unless a tool has changed the path in
\* the instant before, it is the reviewed object and the fresh evidence is about it: the engine
\* compares the identity once more before the rename, and an object that has never been gone was
\* the one that the fresh scan has read.  However often tools exchange it earlier, it stays.
THEOREM MovedWasReviewed == Spec => OnlyReviewedMoved
<1>1. ASSUME CleanupInvariant, [Next]_vars, NEW p \in Candidates, moved'[p] = "now",
             moved[p] # "now"
      PROVE  /\ Analysed(fresh[p].finding) = Analysed(plan[p].finding)
             /\ p \in steady =>
                  /\ Ordinary(p) /\ slot'[p] = plan[p].identity
                  /\ fresh[p].finding.id = slot'[p] \/ linked
  <2>1. Next
    BY <1>1 DEF vars, engineVars
  <2>2. RenameItem(p) /\ phase = "mutate" /\ p \in DOMAIN plan
    BY <1>1, <2>1, OnlyRenamed
  <2>3. DiskOK /\ PlanOK /\ FreshOK /\ EngineOK /\ Covers /\ SessionTypes
    BY <1>1 DEF CleanupInvariant, SessionOK
  <2>4. /\ p \in DOMAIN fresh /\ ReadsPlanned(p, fresh[p].finding.id)
        /\ Executable(fresh[p].finding) /\ ~SnapshotDiffers(plan[p], fresh[p])
        /\ Executable(plan[p].finding)
    BY <2>2, <2>3 DEF FreshOK, PlanOK, Executing
  <2>5. Analysed(plan[p].finding).observations = Analysed(fresh[p].finding).observations
    BY <2>4, Zenon DEF SnapshotDiffers
  <2>6. Analysed(fresh[p].finding) = Analysed(plan[p].finding)
    BY <2>4, <2>5, SameEvidence
  <2>7. ASSUME p \in steady
        PROVE  /\ Ordinary(p) /\ slot'[p] = plan[p].identity
               /\ fresh[p].finding.id = slot'[p] \/ linked
    <3>1. Ordinary(p) /\ at[p].id = plan[p].identity
      BY <2>2, <2>3, <2>7 DEF Covers, EngineOK, Executing
    <3>2. LStat(p) = at[p]
      BY <3>1, StatOnTheWay, TreeAssumption DEF Chain
    <3>3. slot'[p] = at[p].id
      BY <2>2, <2>3, <3>2 DEF RenameItem, SessionTypes
    <3>4. QED
      BY <2>2, <2>4, <3>1, <3>3 DEF ReadsPlanned
  <2>8. QED
    BY <2>6, <2>7
<1>2. CleanupInvariant /\ [Next]_vars =>
        (\A p \in Candidates : moved'[p] = "now" /\ moved[p] # "now" =>
           /\ Analysed(fresh[p].finding) = Analysed(plan[p].finding)
           /\ p \in steady =>
                /\ Ordinary(p) /\ slot'[p] = plan[p].identity
                /\ fresh[p].finding.id = slot'[p] \/ linked)
  BY <1>1
<1>3. QED
  BY <1>2, CleanupInvariantHolds, PTL DEF Spec, OnlyReviewedMoved

\* A session that is blocked before or after the engine has achieved nothing that it reports.
LEMMA BlockedReport ==
  ASSUME CleanupInvariant, NEW result \in {"BLOCKED", "RECONCILIATION_REQUIRED"}, Block(result),
         phase \notin {"mutate", "reported"}, NEW p \in DOMAIN plan
  PROVE  /\ outcomes'[p] \notin Achieved /\ outcomes'[p] = "BLOCKED" /\ state' # "EXECUTED"
         /\ moved[p] = "now" => phase = "interrupted"
<1>1. outcomes'[p] = "BLOCKED" /\ state' = result
  BY DEF Block, AllItems
<1>2. p \in Candidates
  BY DEF CleanupInvariant, SessionOK, SessionTypes
<1>3. moved[p] = "now" => phase = "interrupted"
  BY <1>2 DEF CleanupInvariant, SessionOK, MovesOK, Executing
<1>4. QED
  BY <1>1, <1>3 DEF Achieved

\* A report names as quarantined what this execution has moved, and leaves nothing out that
\* it has moved but where the recovery was inconclusive, could not observe the slot, or a tool
\* made the directory again.
THEOREM ReportsAreTrue == Spec => ReportMatchesMoves
<1> DEFINE Told(p) == /\ outcomes'[p] \in Achieved \/ state' = "EXECUTED" => moved[p] = "now"
                      /\ moved[p] = "now" /\ outcomes'[p] \notin Achieved =>
                           /\ phase = "interrupted"
                           /\ Ordinary(p) \/ p \in missed' \/ outcomes'[p] = "BLOCKED"
<1>1. ASSUME CleanupInvariant, [Next]_vars, phase' = "reported", phase # "reported",
             NEW p \in DOMAIN plan
      PROVE  Told(p)
  <2>1. \/ RecoverFirst \/ EndFreshScan \/ ObserveFreshIdentity \/ Revalidate
        \/ ReportItems \/ ReportAfterInterrupt \/ ReportInconclusive
    BY <1>1 DEF Next, vars, StartScan, Scanning, SelectFindings, NothingToPlan,
       ObservePlanningIdentity, CreateCleanupPlan, Execute, ItemStep, InterruptEngine, Tool
  <2>2. p \in Candidates /\ moved[p] \in {"never", "now", "before"} /\ MovesOK /\ EngineOK
    BY <1>1 DEF CleanupInvariant, SessionOK, SessionTypes
  <2>3. ASSUME NEW result \in {"BLOCKED", "RECONCILIATION_REQUIRED"}, Block(result),
               phase \notin {"mutate", "reported"}
        PROVE  Told(p)
    BY <1>1, <2>3, BlockedReport
  <2>4. CASE RecoverFirst \/ EndFreshScan \/ ObserveFreshIdentity \/ Revalidate
    <3>1. phase \in {"recover", "rescan", "reidentify"}
      BY <2>4 DEF RecoverFirst, EndFreshScan, ObserveFreshIdentity, Revalidate
    <3>2. \E result \in {"BLOCKED", "RECONCILIATION_REQUIRED"} : Block(result)
      BY <1>1, <2>4, <3>1 DEF RecoverFirst, EndFreshScan, ObserveFreshIdentity, Revalidate
    <3>3. QED
      BY <2>3, <3>1, <3>2
  <2>5. CASE ReportInconclusive
    <3>1. phase = "interrupted" /\ (Block("RECONCILIATION_REQUIRED") \/ Block("BLOCKED"))
      BY <2>5 DEF ReportInconclusive
    <3>2. QED
      BY <2>3, <3>1
  <2>6. CASE ReportItems
    <3>1. phase = "mutate" /\ todo = {} /\ outcomes' = outcomes /\ state' = StateOf(outcomes)
      BY <2>6 DEF ReportItems
    <3>2. outcomes[p] \in Achieved <=> moved[p] = "now"
      BY <2>2, <3>1 DEF EngineOK, Executing
    <3>3. state' = "EXECUTED" => outcomes[p] \in Achieved
      <4>1. StateOf(outcomes) = "EXECUTED" => {outcomes[q] : q \in DOMAIN plan} = {"SUCCEEDED"}
        BY DEF StateOf
      <4>2. QED
        BY <3>1, <4>1 DEF Achieved
    <3>4. QED
      BY <3>1, <3>2, <3>3
  <2>7. CASE ReportAfterInterrupt
    <3>1. /\ phase = "interrupted" /\ outcomes'[p] = OutcomeOf(record'[p]) /\ state' # "EXECUTED"
          /\ UNCHANGED record \/ (InventoryAccepts /\ Reconcile)
      BY <2>2, <2>7 DEF ReportAfterInterrupt
    <3>2. /\ OutcomeOf(record'[p]) \in Achieved <=> record'[p] \in {"quarantined", "committed"}
          /\ record'[p] = "quarantining" => OutcomeOf(record'[p]) = "BLOCKED"
      BY Zenon DEF OutcomeOf, Achieved
    <3>3. SessionTypes /\ PlanOK
      BY <1>1 DEF CleanupInvariant, SessionOK
    <3>4. record'[p] \in {"quarantined", "committed"} => moved[p] = "now"
      BY <2>2, <3>1, <3>3, RecordsKept DEF MovesOK, Executing
    <3>5. moved[p] = "now" =>
            record[p] \in {"quarantining", "quarantined", "committed"} /\ slot[p] # NoIdentity
      BY <2>2, <3>1 DEF MovesOK, Executing
    <3>6. CASE UNCHANGED record
      BY <3>1, <3>2, <3>4, <3>5, <3>6
    <3>7. CASE InventoryAccepts /\ Reconcile
      <4>1. moved[p] = "now" => slot[p] = plan[p].identity
        BY <1>1, <3>5, <3>7 DEF InventoryAccepts
      <4>2. moved[p] = "now" =>
              record'[p] \in {"quarantined", "committed"} \/ Ordinary(p) \/ p \in missed'
        BY <1>1, <2>2, <3>3, <3>5, <3>7, <4>1, ReconcileOutcome
      <4>3. QED
        BY <3>1, <3>2, <3>4, <4>2
    <3>8. QED
      BY <3>1, <3>6, <3>7
  <2>8. QED
    BY <2>1, <2>4, <2>5, <2>6, <2>7
<1>2. CleanupInvariant /\ [Next]_vars =>
        (phase' = "reported" /\ phase # "reported" => \A p \in DOMAIN plan : Told(p))
  BY <1>1
<1>3. QED
  BY <1>2, CleanupInvariantHolds, PTL DEF Spec, ReportMatchesMoves
=============================================================================
