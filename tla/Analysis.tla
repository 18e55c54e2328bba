-------------------------------- MODULE Analysis --------------------------------
(***************************************************************************)
(* One candidate is analysed again and again (each scan analyses anew, and *)
(* so does the revalidation of a plan) while reads of it get lost: access  *)
(* is refused, a file is locked, an entry is replaced by a link.           *)
(***************************************************************************)
EXTENDS NodeDetectors

CONSTANT Artifacts   \* the kinds of artifact considered

ASSUME ArtifactsAssumption == Artifacts \subseteq ArtifactKinds

VARIABLES
  artifact,   \* what the name of the candidate, or its location, announces
  dir,        \* what is at the path
  finding,    \* the last finding about it
  current     \* dir has not changed since

vars == <<artifact, dir, finding, current>>

-----------------------------------------------------------------------------
(* What may be at the path. *)

AtMostOne(S) == {{}} \cup {{x} : x \in S}

RootMarker == AtMostOne({"valid", "weak", "empty", "unreadable"})
Versions == SUBSET {"directory", "sealed", "unreadable"}
Json == AtMostOne({"valid", "weak", "corrupt", "unreadable"})
Output == AtMostOne({"valid", "unreadable"})
OneFile == AtMostOne({"valid", "empty", "unreadable"})

\* How the entries of each sort can read.
Parts(a) ==
  CASE a = "pycache" ->
         [entries : SUBSET {"valid", "sourceless", "weak", "corrupt", "unreadable"}]
    [] a = "pytest_cache" ->
         [tag : RootMarker, readme : RootMarker, v : AtMostOne({"directory", "unreadable"})]
    [] a = "mypy_cache" ->
         [versions : Versions, pairs : SUBSET {"valid", "invalid", "unreadable"}]
    [] a = "ruff_cache" ->
         [tag : RootMarker, gitignore : RootMarker, versions : Versions,
          files : SUBSET {"valid", "weak"}]
    [] a = "python_venv" ->
         [cfg : AtMostOne({"valid", "invalid", "unreadable"}), interpreter : OneFile,
          project : AtMostOne({"valid", "link", "unreadable"})]
    [] a = "node_modules" ->
         [packages : SUBSET {"valid", "weak", "corrupt", "link", "scope", "unreadable"},
          manager : AtMostOne({"valid", "corrupt", "unreadable"})]
    [] a \in {"dist", "build"} -> [output : Output, config : Json]
    [] a = "next_build" -> [build_id : OneFile, output : Output, config : Json]
    [] OTHER -> [layout : AtMostOne({"valid", "weak", "unreadable"}), links : AtMostOne({"link"})]

Objects(a) ==
  {"inaccessible", "file", "symlink", "junction", "directory"}
  \cup (IF a \in StorageArtifacts THEN {"swapped", "unvisited"} ELSE {"absent"})

\* The dispatcher passes the marker of a disposable root on for pytest caches only.
Directories(a) ==
  [object : Objects(a), listed : BOOLEAN, parts : Parts(a),
   disposable : IF a = "pytest_cache" THEN BOOLEAN ELSE {FALSE}]

-----------------------------------------------------------------------------

NoFinding == [eligibility |-> "none", selected |-> FALSE, raises |-> FALSE]

Init ==
  /\ artifact \in Artifacts
  /\ dir \in Directories(artifact)
  /\ finding = NoFinding
  /\ current = FALSE

Analyse ==
  /\ finding' = AnalyzeCandidate(artifact, dir)
  /\ current' = TRUE
  /\ UNCHANGED <<artifact, dir>>

\* One entry of a part cannot be read any more; there may be others that read alike.
EntryIsLost ==
  /\ \E part \in DOMAIN dir.parts : \E entry \in dir.parts[part] : \E kept \in SUBSET {entry} :
       dir' = [dir EXCEPT !.parts[part] = (@ \ {entry}) \cup kept \cup {"unreadable"}]
  /\ dir'.parts \in Parts(artifact)
  /\ current' = FALSE
  /\ UNCHANGED <<artifact, finding>>

ListingIsLost ==
  /\ dir.listed
  /\ dir' = [dir EXCEPT !.listed = FALSE]
  /\ current' = FALSE
  /\ UNCHANGED <<artifact, finding>>

ObjectIsLost ==
  /\ dir' = [dir EXCEPT !.object = "inaccessible"]
  /\ current' = FALSE
  /\ UNCHANGED <<artifact, finding>>

Next == Analyse \/ EntryIsLost \/ ListingIsLost \/ ObjectIsLost

Spec == Init /\ [][Next]_vars

-----------------------------------------------------------------------------
(* Properties. *)

Eligible == finding.eligibility = "eligible_for_explicit_action"

\* No part of it is unread.  A junction looks like a directory to lstat; that a scan passes
\* it over is the business of the scanner.
EverythingRead(d) ==
  /\ IsDirectory(d) /\ d.listed
  /\ \A part \in DOMAIN d.parts : "unreadable" \notin d.parts[part]

\* A finding that offers a directory for a cleanup is about a pytest cache in a disposable
\* root whose every entry of interest could be read and one of whose markers is genuine:
\* uncertainty never makes an artifact eligible (docs/SAFETY_INVARIANTS.md, items 1 and 2).
EligibleIsDisposable ==
  current /\ Eligible =>
    /\ artifact = "pytest_cache" /\ dir.disposable
    /\ EverythingRead(dir)
    /\ "valid" \in dir.parts["tag"] \cup dir.parts["readme"]

\* Losing the access to parts of a directory never turns a finding that asks for a review
\* into one that offers it for a cleanup, however many analyses and losses come between.
LostReadNeverEligible ==
  [][finding.eligibility \in {"requires_review", "blocked"}
       => finding'.eligibility # "eligible_for_explicit_action"]_vars

\* The policy never refuses a candidate that the pipeline has selected for a disagreement on
\* its protection: the ValueError of SafetyContext would end the scan of the whole system,
\* which does not catch it for a storage location.
NeverRaises == ~finding.raises

\* Genuine signs of the tool: its name and an extension, or a file of the right name with
\* other contents, are not.
Genuine(a, d) ==
  CASE a = "pycache"      -> d.parts["entries"] \cap {"valid", "sourceless"} # {}
    [] a = "pytest_cache" -> "valid" \in d.parts["tag"] \cup d.parts["readme"]
    [] a = "mypy_cache"   -> "valid" \in d.parts["pairs"]
    [] a = "ruff_cache"   -> /\ d.parts["tag"] = {"valid"} /\ d.parts["gitignore"] = {"valid"}
                             /\ "valid" \in d.parts["files"]
    [] a = "python_venv"  -> d.parts["cfg"] = {"valid"} /\ d.parts["interpreter"] = {"valid"}
    [] a = "node_modules" -> "valid" \in d.parts["packages"] /\ "link" \notin d.parts["packages"]
    [] a = "next_build"   -> \A part \in DOMAIN d.parts : d.parts[part] = {"valid"}
    [] a \in {"dist", "build"} -> FALSE
    [] OTHER -> d.parts["layout"] = {"valid"} /\ d.parts["links"] = {}

\* A directory is selected as a candidate only if it holds, readable, what the tool that it
\* is named after leaves there; a dist or build directory, which any tool may write, never is.
SelectedIsGenuine ==
  current /\ finding.selected => IsDirectory(dir) /\ Genuine(artifact, dir)
===============================================================================
