---------------------------------- MODULE Scan ----------------------------------
(***************************************************************************)
(* One scan of one root (scanner.py, scan_control.py, size.py and the part *)
(* of system_scan.py about a root), one look at the disk per step, while   *)
(* tools change what is below the root.  pytest caches stand for the       *)
(* artifacts; plain directories hold them, files only use up the budget.   *)
(*                                                                         *)
(* Paths are lexical, so a child is always within its root.  A directory   *)
(* that is met a second time (seen) takes a hard link between directories, *)
(* which no file system here has.  Git metadata is passed over, and a      *)
(* detector reads a candidate at one instant.                              *)
(***************************************************************************)
EXTENDS NodeDetectors, Sequences, FiniteSets, SequencesExt

CONSTANTS
  Paths,          \* the root of the scan and all that may be below it
  Root,           \* the root of the scan
  Plain,          \* the root and the directories that are no artifacts
  Candidates,     \* the paths named .pytest_cache
  Above,          \* [path -> the directories it is in, up to the root]
  Position,       \* [path -> its place when all paths are sorted by name]
  Contents,       \* what a pytest cache may hold: [parts, bytes]
  OutsideContent, \* what one outside the root holds
  Limits,         \* the ScanLimits: [nodes, files]
  DefaultLimits,
  Disposable,     \* the root holds the marker of a disposable root
  MaxEvents,      \* bound on the changes made by tools
  NoPath

\* The directories form a tree.
ASSUME TreeAssumption ==
  /\ IsFiniteSet(Paths) /\ Root \in Plain
  /\ Plain \subseteq Paths /\ Candidates \subseteq Paths \ Plain
  /\ Above \in [Paths -> SUBSET Plain]
  /\ Above[Root] = {} /\ \A p \in Paths \ {Root} : Root \in Above[p]
  /\ \A p \in Paths : p \notin Above[p]
  /\ \A p \in Paths : \A d, e \in Above[p] : d = e \/ d \in Above[e] \/ e \in Above[d]
  /\ \A p \in Paths : \A d \in Above[p] : Above[d] \subseteq Above[p]

ASSUME ScanAssumption ==
  /\ Position \in [Paths -> 1..Cardinality(Paths)]
  /\ \A p, q \in Paths : Position[p] = Position[q] => p = q
  /\ OutsideContent \in Contents
  /\ MaxEvents \in Nat /\ NoPath \notin Paths

First(paths) == CHOOSE p \in paths : \A q \in paths : Position[p] <= Position[q]
Final(paths) == CHOOSE p \in paths : \A q \in paths : Position[q] <= Position[p]

\* The entries of a directory.
Entries(d) == {p \in Paths : d \in Above[p] /\ \A e \in Above[p] : d \notin Above[e]}

VARIABLES
  at,         \* [Paths -> the object there]
  events,     \* how many changes the tools have made
  scan,       \* the scan: its place in the code and its locals
  steady,     \* the candidates no tool has touched since the scan began, or the engine looked
  linked      \* some directory has become a link since the scan began

scanVars == <<at, events, scan, steady, linked>>

-----------------------------------------------------------------------------
(* The disk. *)

Object(kind, id, content) == [kind |-> kind, id |-> id, content |-> content]

KindOf(p) == IF p \in Plain \/ p \in Candidates THEN "directory" ELSE "file"

\* A link leads to a directory that looks alike, with objects of its own.
Beyond(p) == Object(KindOf(p), 0, OutsideContent)

Absent == Object("absent", 0, OutsideContent)

\* What lstat shows, which follows every link but the last.
LStat(p) ==
  IF \E d \in Above[p] : at[d].kind = "link" THEN Beyond(p)
  ELSE IF \E d \in Above[p] : at[d].kind # "directory" THEN Absent
  ELSE at[p]

\* The path and all above it are ordinary directories (_validate_ordinary_ancestry).
Ordinary(p) == \A d \in Above[p] \cup {p} : at[d].kind = "directory"

\* _metadata_matches
Matches(first, second) == first.kind = second.kind /\ first.id = second.id

Touch(p) ==
  /\ events < MaxEvents
  /\ events' = events + 1
  /\ steady' = {c \in steady : p \notin Above[c] \cup {c}}
  /\ UNCHANGED scan

\* An identity that no object has had; at first the positions are the identities.
NewId == Cardinality(Paths) + 1 + events

Replace(c, kind, content) ==
  /\ at[c].kind # kind \/ kind = "directory"
  /\ at' = [at EXCEPT ![c] = Object(kind, NewId, content)]
  /\ Touch(c) /\ UNCHANGED linked

Rewrite(c, content) ==
  /\ at[c].kind = "directory" /\ at[c].content # content
  /\ at' = [at EXCEPT ![c].content = content]
  /\ Touch(c) /\ UNCHANGED linked

Discard(p) ==
  /\ at[p].kind # "absent"
  /\ at' = [at EXCEPT ![p] = Absent]
  /\ Touch(p) /\ UNCHANGED linked

\* A directory is put aside and its place taken by a link or a junction, and put back.
Link(d) ==
  /\ at[d].kind = "directory"
  /\ at' = [at EXCEPT ![d].kind = "link"]
  /\ Touch(d) /\ linked' = TRUE

Unlink(d) ==
  /\ at[d].kind = "link"
  /\ at' = [at EXCEPT ![d].kind = "directory"]
  /\ Touch(d) /\ UNCHANGED linked

\* A candidate is created anew, as a directory with any content, a file or a link.
ToolStep ==
  \/ \E c \in Candidates, content \in Contents : Replace(c, "directory", content)
  \/ \E c \in Candidates, kind \in {"file", "link"} : Replace(c, kind, OutsideContent)
  \/ \E c \in Candidates, content \in Contents : Rewrite(c, content)
  \/ \E p \in Plain \cup Candidates : Discard(p)
  \/ \E d \in Plain : Link(d)
  \/ \E d \in Plain : Unlink(d)

-----------------------------------------------------------------------------
(* The budget.  The terminations CANCELLED and TIME_LIMIT are both "interrupted". *)

FreshBudget(limits) ==
  [limits |-> limits, nodes |-> 0, files |-> 0, termination |-> "completed"]

\* stop: the scan is found to be cancelled, or its time to be over.
Poll(b, stop) ==
  IF b.termination = "completed" /\ stop THEN [b EXCEPT !.termination = "interrupted"] ELSE b

\* A regular file is observed twice: as an entry, and again as a file.
ObserveNode(b, isFile, stop) ==
  IF Poll(b, stop).termination # "completed" THEN Poll(b, stop)
  ELSE IF b.nodes >= b.limits.nodes THEN [b EXCEPT !.termination = "node_limit"]
  ELSE IF isFile /\ b.files >= b.limits.files THEN [b EXCEPT !.termination = "file_limit"]
  ELSE [b EXCEPT !.nodes = @ + 1, !.files = IF isFile THEN @ + 1 ELSE @]

\* The objects that collect_size meets, TRUE for a file.  Both markers are files.
Objects(o) ==
  IF o.kind = "directory"
  THEN <<FALSE>> \o [n \in 1..Cardinality(o.content.parts.tag \cup o.content.parts.readme) |-> TRUE]
  ELSE <<o.kind = "file">>

CollectBudget(b, o, stop) ==
  IF o.kind = "absent" THEN Poll(b, stop)
  ELSE FoldLeft(LAMBDA spent, isFile : ObserveNode(spent, isFile, stop), b, Objects(o))

\* A link is skipped: the size is incomplete, but nothing has failed.
CollectSize(b, o, stop) ==
  LET cut == CollectBudget(b, o, stop).termination # "completed"
  IN  [bytes    |-> IF o.kind = "directory" THEN o.content.bytes ELSE 0,
       failed   |-> o.kind = "absent" \/ cut,
       complete |-> o.kind \in {"directory", "file"} /\ ~cut]

-----------------------------------------------------------------------------
(* The scan.  pc names the next look at the disk.                          *)

Idle ==
  [pc |-> "idle", stack |-> <<>>, here |-> NoPath, entries |-> {}, metadata |-> Absent,
   budget |-> FreshBudget(DefaultLimits),
   failed |-> FALSE, ambiguous |-> FALSE, findings |-> {}]

\* mode "system" passes the Scan Safety Gate first.
BeginScan(mode, limits) ==
  /\ scan' = [Idle EXCEPT !.pc = IF mode = "system" THEN "gate" ELSE "root",
                          !.budget = FreshBudget(limits)]
  /\ linked' = (\E d \in Plain : at[d].kind = "link")
  /\ steady' = {c \in Candidates : Ordinary(c)}
  /\ UNCHANGED <<at, events>>

\* Only the scan goes on.
Goes(s) == scan' = s /\ UNCHANGED <<at, events, steady, linked>>

\* The root is denied, skipped or failed: no part of it is scanned.
Gate ==
  /\ scan.pc = "gate"
  /\ IF LStat(Root).kind = "directory" THEN Goes([scan EXCEPT !.pc = "root"])
     ELSE Goes([scan EXCEPT !.pc = "raised"])

\* WorkspaceScanError, or the scan begins.
CheckRoot ==
  /\ scan.pc = "root"
  /\ IF LStat(Root).kind = "directory"
     THEN Goes([scan EXCEPT !.pc = "pop", !.stack = <<Root>>])
     ELSE Goes([scan EXCEPT !.pc = "raised"])

Done(s) == [s EXCEPT !.pc = "done", !.stack = <<>>, !.entries = {}, !.here = NoPath,
                     !.metadata = Absent]

\* The current directory is given up.
PassedOver(s) ==
  [s EXCEPT !.pc = "pop", !.failed = TRUE, !.ambiguous = TRUE, !.here = NoPath,
            !.entries = {}, !.metadata = Absent]

Pop ==
  /\ scan.pc = "pop"
  /\ IF scan.stack = <<>> THEN Goes(Done(scan))
     ELSE \E stop \in BOOLEAN :
          LET b == ObserveNode(scan.budget, FALSE, stop)
              s == [scan EXCEPT !.budget = b, !.stack = Tail(@), !.here = Head(scan.stack)]
              o == LStat(s.here)
          IN  IF b.termination # "completed" THEN Goes(Done([scan EXCEPT !.budget = b]))
              ELSE IF o.kind # "directory" THEN Goes(PassedOver(s))
              ELSE Goes([s EXCEPT !.pc = "again", !.metadata = o])

Again ==
  /\ scan.pc = "again"
  /\ IF Matches(scan.metadata, LStat(scan.here)) THEN Goes([scan EXCEPT !.pc = "list"])
     ELSE Goes(PassedOver(scan))

\* os.scandir follows a link.
ListEntries ==
  /\ scan.pc = "list"
  /\ IF LStat(scan.here).kind = "absent" THEN Goes(PassedOver(scan))
     ELSE Goes([scan EXCEPT !.pc = "after",
                  !.entries = {p \in Entries(scan.here) : LStat(p).kind # "absent"}])

AfterScan ==
  /\ scan.pc = "after"
  /\ IF Matches(scan.metadata, LStat(scan.here))
     THEN Goes([scan EXCEPT !.pc = "entry", !.here = NoPath, !.metadata = Absent])
     ELSE Goes(PassedOver(scan))

\* The loop over the entries, sorted by name, runs backwards; running out of budget leaves only
\* this loop.
NextEntry(s) == [s EXCEPT !.pc = "entry", !.entries = @ \ {Final(@)}, !.metadata = Absent]
LeaveLoop(s) == [s EXCEPT !.pc = "pop", !.entries = {}, !.metadata = Absent]

Entry ==
  /\ scan.pc = "entry"
  /\ IF scan.entries = {} THEN Goes(LeaveLoop(scan))
     ELSE \E stop \in BOOLEAN :
          LET b == ObserveNode(scan.budget, FALSE, stop)
              s == [scan EXCEPT !.budget = b]
              o == LStat(Final(scan.entries))
          IN  IF b.termination # "completed" THEN Goes(LeaveLoop(s))
              ELSE IF o.kind = "absent" THEN Goes([NextEntry(s) EXCEPT !.failed = TRUE])
              ELSE Goes([s EXCEPT !.pc = "entry_again", !.metadata = o])

\* The branches of the second look at an entry, in the order of the code.
EntryAgain ==
  /\ scan.pc = "entry_again"
  /\ \E stop \in BOOLEAN :
     LET p == Final(scan.entries)
         o == LStat(p)
         b == IF o.kind = "file" THEN ObserveNode(scan.budget, TRUE, stop) ELSE scan.budget
     IN  IF o.kind = "absent" THEN Goes([NextEntry(scan) EXCEPT !.failed = TRUE])
         ELSE IF ~Matches(scan.metadata, o)
         THEN Goes([NextEntry(scan) EXCEPT !.failed = TRUE, !.ambiguous = TRUE])
         ELSE IF b.termination # "completed" THEN Goes(LeaveLoop([scan EXCEPT !.budget = b]))
         ELSE IF o.kind = "link" THEN Goes([NextEntry(scan) EXCEPT !.ambiguous = TRUE])
         ELSE IF o.kind = "file" THEN Goes(NextEntry([scan EXCEPT !.budget = b]))
         ELSE IF p \in Candidates THEN Goes([scan EXCEPT !.pc = "analyse", !.metadata = Absent])
         ELSE Goes(NextEntry([scan EXCEPT !.stack = <<p>> \o @]))

\* What the detector is given at the path.
Observable(o) ==
  [object |-> IF o.kind = "link" THEN "symlink" ELSE o.kind,
   listed |-> TRUE, parts |-> o.content.parts, disposable |-> Disposable]

Analyse == scan.pc = "analyse"
           /\ Goes([scan EXCEPT !.pc = "size", !.metadata = LStat(Final(scan.entries))])

MeasureAndRecord ==
  /\ scan.pc = "size"
  /\ \E stop \in BOOLEAN :
     LET p == Final(scan.entries)
         o == LStat(p)
         finding == [path |-> p, id |-> scan.metadata.id, dir |-> Observable(scan.metadata),
                     size |-> CollectSize(scan.budget, o, stop)]
     IN  Goes(NextEntry([scan EXCEPT !.findings = @ \cup {finding},
                                     !.budget = CollectBudget(@, o, stop)]))

ScanStep ==
  \/ Gate \/ CheckRoot \/ Pop \/ Again \/ ListEntries \/ AfterScan
  \/ Entry \/ EntryAgain \/ Analyse \/ MeasureAndRecord

-----------------------------------------------------------------------------
(* What a finished scan is worth. *)

Analysed(finding) == AnalyzeCandidate("pytest_cache", finding.dir)

FindingObservationFailures(finding) ==
  {item \in Analysed(finding).observations : item.status \in {"failed", "timed_out", "inaccessible"}}

\* Variant: a scan that ran out of its budget counts as complete.
NothingMissed_Unlimited(s) == s.pc = "done" /\ ~s.failed /\ ~s.ambiguous

NothingMissed(s) ==
  s.pc = "done" /\ s.budget.termination = "completed" /\ ~s.failed /\ ~s.ambiguous

\* A system scan counts what a finding could not observe among its failures; a workspace
\* scan does not.
ScanCompleteness(mode, s) ==
  /\ NothingMissed(s)
  /\ mode = "system" =>
       \A finding \in s.findings :
         ~finding.size.failed /\ FindingObservationFailures(finding) = {}
===============================================================================
