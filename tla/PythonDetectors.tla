---------------------------- MODULE PythonDetectors ----------------------------
(***************************************************************************)
(* The detectors of Python artifacts: pycache.py, pytest_cache.py,         *)
(* mypy_cache.py, ruff_cache.py and venv.py.  What a detector finds at a   *)
(* path is                                                                 *)
(*    object      what lstat shows there                                   *)
(*    listed      its entries can be listed                                *)
(*    parts       for each sort of entry the detector looks for, how the   *)
(*                entries of that sort read ("unreadable": an OSError, or  *)
(*                not a regular file or directory)                         *)
(*    disposable  the root of the scan holds the marker of a disposable    *)
(*                root                                                     *)
(* Each part is read once and on its own, so a directory that changes      *)
(* while it is read looks like one of these directories.  The dispatcher   *)
(* calls a detector only where the name matches, and the name is observed. *)
(***************************************************************************)
EXTENDS Evidence

\* Entries are seen only in a directory that can be listed.
Seen(d, part) == IF d.listed THEN d.parts[part] ELSE {}

IsDirectory(d) == ObservedNodeKind(d.object) = "directory"

Readable(condition) ==
  IF condition THEN Observed("metadata_readability") ELSE Failed("metadata_readability")

Uninspectable(artifact, d, path) ==
  [node |-> [kind |-> ObservedNodeKind(d.object), protection |-> "unknown"],
   observations |->
     {Observed("directory_name"), Failed("metadata_readability"),
      IF d.object = "absent" THEN NotObserved("path_object")
      ELSE IF d.object = "inaccessible" THEN path ELSE Observed("path_object")}
     \cup {NotObserved(key) : key \in ArtifactKeys[artifact] \ {"directory_name"}}
     \cup {NotObserved("generator_indicator"), NotObserved("recreation_input_availability")}
     \cup ContextUnknown]

Inspected(observations) ==
  [node |-> [kind |-> "directory", protection |-> "unknown"],
   observations |-> {Observed("directory_name"), Observed("path_object")}
                      \cup observations \cup ContextUnknown]

\* What the interpretations make of the keys that tell the structure of the artifact.
Interpretation(observations, valid, conflict, uncertainty) ==
  [provenance     |-> valid /\ ~conflict /\ ~uncertainty,
   regenerability |-> IF conflict THEN "conflicting"
                      ELSE IF valid /\ ~uncertainty THEN "conditionally_reproducible"
                      ELSE "unknown",
   reachability   |-> ReachabilityFromEvidence(observations),
   activity       |-> ActivityFromEvidence(observations),
   protection     |-> ProtectionFromEvidence(observations)]

Structural(observations, keys) ==
  Interpretation(observations,
    \A key \in keys : PositiveEvidenceMeets(observations, key),
    \E key \in keys : KeyConflicts(observations, key),
    \E key \in keys : KeyHasUncertainty(observations, key))

-----------------------------------------------------------------------------
(* __pycache__.  An entry is valid with or without the name of its source, *)
(* weak (no or another header), corrupt or unreadable.                     *)

PycacheUninspectable(d) ==
  Uninspectable("pycache", d,
    Evidence("path_object", "inaccessible", "unknown", "unknown", "unspecified"))

BytecodeMarker(entry) ==
  CASE entry \in {"valid", "sourceless"}   -> Observed("python_bytecode_marker")
    [] entry = "weak"                      -> WeaklyObserved("python_bytecode_marker")
    [] entry \in {"corrupt", "unreadable"} -> Failed("python_bytecode_marker")

PycacheMarkers(d, entries) ==
  IF entries # {} THEN {BytecodeMarker(entry) : entry \in entries}
  ELSE {IF d.listed THEN ConfirmedAbsent("python_bytecode_marker")
                    ELSE Failed("python_bytecode_marker")}

PycacheSources(entries) ==
  IF entries \cap {"valid", "sourceless"} = {}
  THEN {NotObserved("python_source_reference"), NotObserved("recreation_input_availability")}
  ELSE {IF entry = "valid" THEN Observed("python_source_reference")
                           ELSE ConfirmedAbsent("python_source_reference") :
          entry \in entries \cap {"valid", "sourceless"}}
       \cup {Unknown("recreation_input_availability")}

PycacheGenerator(d, entries) ==
  IF entries \cap {"valid", "sourceless"} # {} THEN Observed("generator_indicator")
  ELSE IF entries # {} THEN WeaklyObserved("generator_indicator")
  ELSE IF d.listed THEN ConfirmedAbsent("generator_indicator")
  ELSE Failed("generator_indicator")

InspectPycache(d) ==
  LET entries == Seen(d, "entries")
  IN  IF ~IsDirectory(d) THEN PycacheUninspectable(d)
      ELSE Inspected({Readable(d.listed), PycacheGenerator(d, entries)}
                     \cup PycacheMarkers(d, entries) \cup PycacheSources(entries))

\* The source reference matters for the regenerability only.
InterpretPycache(observations) ==
  LET structure == Structural(observations, {"directory_name", "python_bytecode_marker"})
      full == Structural(observations, ArtifactKeys["pycache"])
      availability == "recreation_input_availability"
      settled == \A key \in ArtifactKeys["pycache"] :
                   ~KeyConflicts(observations, key) /\ ~KeyHasUncertainty(observations, key)
  IN  [full EXCEPT
         !.provenance = structure.provenance /\ settled,
         !.regenerability =
           IF KeyConflicts(observations, availability) THEN "conflicting"
           ELSE IF @ # "conflicting" /\ ConfirmedAbsenceMeets(observations, availability)
           THEN "unknown" ELSE @]

-----------------------------------------------------------------------------
(* .pytest_cache.  A root marker is valid, weak (other contents), empty or *)
(* unreadable.                                                             *)

PytestUninspectable(d) == Uninspectable("pytest_cache", d, Unknown("path_object"))

MarkerEvidence(content, key) ==
  CASE content = "valid"                 -> Observed(key)
    [] content = "weak"                  -> WeaklyObserved(key)
    [] content \in {"empty", "unreadable"} -> Failed(key)

\* Variant: a marker that cannot be read is passed over.
ReadMarkers_PassOver(contents, key) ==
  {MarkerEvidence(content, key) : content \in contents \ {"unreadable"}}

ReadMarkers(contents, key) == {MarkerEvidence(content, key) : content \in contents}

PytestMarkers(d, contents) ==
  IF contents # {} THEN ReadMarkers(contents, "pytest_cache_marker")
  ELSE {IF d.listed THEN ConfirmedAbsent("pytest_cache_marker")
                    ELSE Failed("pytest_cache_marker")}

PytestLayout(d, contents) ==
  LET v == Seen(d, "v")
      key == "cache_layout"
  IN  IF v # {} THEN IF "directory" \in v THEN Observed(key) ELSE Failed(key)
      ELSE IF "valid" \in contents THEN Observed(key)
      ELSE IF "weak" \in contents THEN WeaklyObserved(key)
      ELSE IF d.listed THEN ConfirmedAbsent(key) ELSE Failed(key)

PytestGenerator(d, contents) ==
  LET key == "generator_indicator"
  IN  IF "valid" \in contents THEN Observed(key)
      ELSE IF "weak" \in contents THEN WeaklyObserved(key)
      ELSE IF ~d.listed \/ "unreadable" \in Seen(d, "v") THEN Failed(key)
      ELSE ConfirmedAbsent(key)

\* What the marker of a disposable root is taken to establish.
DisposableContext ==
  {Observed("disposable_root_marker"), Observed("recreation_input_availability"),
   ConfirmedAbsent("reference_check"), ObservedAs("runtime_activity", "inactive"),
   ObservedAs("protection_indicator", "ordinary")}

PytestContext(d) ==
  IF d.disposable THEN DisposableContext
  ELSE ContextUnknown \cup {Unknown("recreation_input_availability")}

PytestDirectory(d, protection) ==
  LET contents == Seen(d, "tag") \cup Seen(d, "readme")
  IN  [node |-> [kind |-> "directory", protection |-> protection],
       observations |->
         {Observed("directory_name"), Observed("path_object"), Readable(d.listed),
          PytestLayout(d, contents), PytestGenerator(d, contents)}
         \cup PytestMarkers(d, contents) \cup PytestContext(d)]

\* Variant: the node stays as unknown as it is outside of a disposable root.
InspectPytestCache_UnknownNode(d) ==
  IF ~IsDirectory(d) THEN PytestUninspectable(d) ELSE PytestDirectory(d, "unknown")

\* Variant: every root counts as disposable.
InspectPytestCache_EveryRoot(d) ==
  IF ~IsDirectory(d) THEN PytestUninspectable(d)
  ELSE PytestDirectory([d EXCEPT !.disposable = TRUE], "ordinary")

InspectPytestCache(d) ==
  IF ~IsDirectory(d) THEN PytestUninspectable(d)
  ELSE PytestDirectory(d, IF d.disposable THEN "ordinary" ELSE "unknown")

InterpretPytestCache(observations) == Structural(observations, ArtifactKeys["pytest_cache"])

-----------------------------------------------------------------------------
(* .mypy_cache.  A version entry is a directory, one that cannot be listed *)
(* ("sealed", which goes unnoticed) or no readable directory; a pair of    *)
(* metadata and data is valid, invalid or unreadable.                      *)

MypyUninspectable(d) == Uninspectable("mypy_cache", d, Unknown("path_object"))

\* The pairs found: none in a version directory that cannot be listed.
ModulePairs(d) == IF "directory" \in Seen(d, "versions") THEN d.parts["pairs"] ELSE {}

MypyEvidence(d, key) ==
  LET pairs == ModulePairs(d)
  IN  IF "valid" \in pairs THEN Observed(key)
      ELSE IF pairs # {} THEN Failed(key)
      ELSE IF Seen(d, "versions") \cap {"directory", "sealed"} # {} THEN WeaklyObserved(key)
      ELSE IF d.listed THEN ConfirmedAbsent(key)
      ELSE Failed(key)

InspectMypyCache(d) ==
  LET failed == ~d.listed \/ "unreadable" \in Seen(d, "versions")
      overridden == failed /\ ModulePairs(d) \subseteq {"valid"}
  IN  IF ~IsDirectory(d) THEN MypyUninspectable(d)
      ELSE Inspected(
             {Readable(~failed), MypyEvidence(d, "generator_indicator"),
              Unknown("recreation_input_availability")}
             \cup {IF overridden THEN Failed(key) ELSE MypyEvidence(d, key) :
                     key \in {"mypy_cache_marker", "cache_layout"}})

InterpretMypyCache(observations) == Structural(observations, ArtifactKeys["mypy_cache"])

-----------------------------------------------------------------------------
(* .ruff_cache.  Files of a version directory are valid (not empty), weak  *)
(* (empty, not regular) or unreadable.                                     *)

RuffUninspectable(d) == Uninspectable("ruff_cache", d, Unknown("path_object"))

\* The marker file is the value of its evidence.
RuffMarkers(d) ==
  LET MarkersOf(file) == {[item EXCEPT !.value = file] :
                            item \in ReadMarkers(Seen(d, file), "ruff_cache_marker")}
      markers == MarkersOf("tag") \cup MarkersOf("gitignore")
  IN  IF Seen(d, "tag") \cup Seen(d, "gitignore") # {} THEN markers
      ELSE {IF d.listed THEN ConfirmedAbsent("ruff_cache_marker")
                        ELSE Failed("ruff_cache_marker")}

\* A version entry that is no readable directory counts as a weak file.
VersionCacheFiles(d) ==
  LET versions == Seen(d, "versions")
  IN  (IF "directory" \in versions THEN d.parts["files"] ELSE {})
      \cup (IF versions \cap {"sealed", "unreadable"} # {} THEN {"weak"} ELSE {})

RuffLayout(d) ==
  IF "valid" \in VersionCacheFiles(d) THEN Observed("cache_layout")
  ELSE IF Seen(d, "versions") # {} THEN WeaklyObserved("cache_layout")
  ELSE IF d.listed THEN ConfirmedAbsent("cache_layout")
  ELSE Failed("cache_layout")

InspectRuffCache(d) ==
  LET files == VersionCacheFiles(d)
      failed == ~d.listed \/ files \cap {"weak", "unreadable"} # {}
      full == /\ "valid" \in Seen(d, "tag") /\ "valid" \in Seen(d, "gitignore")
              /\ "valid" \in files
      key == "generator_indicator"
  IN  IF ~IsDirectory(d) THEN RuffUninspectable(d)
      ELSE Inspected({Readable(~failed), RuffLayout(d), Unknown("recreation_input_availability"),
                      IF full THEN Observed(key)
                      ELSE IF ~failed THEN WeaklyObserved(key) ELSE Failed(key)}
                     \cup RuffMarkers(d))

InterpretRuffCache(observations) ==
  LET keys == ArtifactKeys["ruff_cache"]
      markers == {item.value : item \in
                    {item \in About(observations, "ruff_cache_marker") :
                       item.polarity = "supports" /\ MeetsRequirement(item)}}
  IN  Interpretation(observations,
        /\ markers = {"tag", "gitignore"}
        /\ PositiveEvidenceMeets(observations, "directory_name")
        /\ PositiveEvidenceMeets(observations, "cache_layout"),
        \E key \in keys : KeyConflicts(observations, key),
        \E key \in keys : \/ KeyHasUncertainty(observations, key)
                          \/ \E item \in About(observations, key) : item.confidence # "high")

-----------------------------------------------------------------------------
(* .venv.  The configuration is valid, invalid or unreadable; the          *)
(* interpreter valid, empty or unreadable; the project's metadata inside   *)
(* the directory a file, a link or unreadable.  Nothing is listed.         *)

VenvUninspectable(d) ==
  LET detection == Uninspectable("python_venv", d, Observed("path_object"))
      key == "recreation_input_availability"
  IN  [detection EXCEPT !.observations = (@ \ {NotObserved(key)}) \cup {Unknown(key)}]

PyvenvCfg(d) ==
  CASE d.parts["cfg"] = {}        -> ConfirmedAbsent("pyvenv_cfg_marker")
    [] d.parts["cfg"] = {"valid"} -> Observed("pyvenv_cfg_marker")
    [] OTHER                      -> Failed("pyvenv_cfg_marker")

InterpreterLayout(d) ==
  CASE d.parts["interpreter"] = {}        -> ConfirmedAbsent("interpreter_layout")
    [] d.parts["interpreter"] = {"valid"} -> Observed("interpreter_layout")
    [] d.parts["interpreter"] = {"empty"} -> WeaklyObserved("interpreter_layout")
    [] OTHER                              -> Failed("interpreter_layout")

ProjectMetadata(d) ==
  CASE d.parts["project"] = {"valid"}      -> Observed("project_metadata")
    [] d.parts["project"] = {"unreadable"} -> Failed("project_metadata")
    [] OTHER                               -> Unknown("project_metadata")

InspectPythonVenv(d) ==
  LET full == d.parts["cfg"] = {"valid"} /\ d.parts["interpreter"] = {"valid"}
  IN  IF ~IsDirectory(d) THEN VenvUninspectable(d)
      ELSE Inspected({Readable(TRUE), PyvenvCfg(d), InterpreterLayout(d), ProjectMetadata(d),
                      Unknown("recreation_input_availability"),
                      IF full THEN Observed("generator_indicator")
                              ELSE WeaklyObserved("generator_indicator")})

InterpretPythonVenv(observations) ==
  Structural(observations, {"directory_name", "pyvenv_cfg_marker", "interpreter_layout"})
===============================================================================
