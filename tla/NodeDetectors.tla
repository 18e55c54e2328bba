----------------------------- MODULE NodeDetectors -----------------------------
(***************************************************************************)
(* The detectors of Node artifacts (node_artifacts.py), the observer of    *)
(* the caches that package managers keep outside of a workspace            *)
(* (global_storage.py) and the dispatcher (dispatcher.py).                 *)
(***************************************************************************)
EXTENDS PythonDetectors

\* A path that cannot be read is recorded as an observed object, and the name twice.
NodeUninspectable(artifact, d) ==
  LET detection == Uninspectable(artifact, d, Observed("path_object"))
      unknown == {"recreation_input_availability"}
                 \cup (IF artifact \in {"dist", "build"} THEN {"source_input"} ELSE {})
      others == IF artifact = "node_modules" THEN {"package_manager_indicator"} ELSE {}
  IN  [detection EXCEPT
         !.observations = {item \in @ : item.key \notin unknown \cup others}
                          \cup {Unknown(key) : key \in unknown}
                          \cup {NotObserved("directory_name")}]

-----------------------------------------------------------------------------
(* node_modules.  A package has a valid manifest, a weak one (no name), a  *)
(* corrupt, missing or unreadable one, or is a link (or nobody can tell,   *)
(* or its scope cannot be listed); a scope is a directory of packages,     *)
(* maybe of none.  The state file of the package manager is valid, corrupt *)
(* or unreadable.                                                          *)

ReadJson(content) ==
  CASE content = "valid" -> "valid"
    [] content = "weak"  -> "weak"
    [] content \in {"corrupt", "unreadable"} -> "failed"

\* Variant: a link among the packages is passed over.
PackageDirs_PassOver(d) == [packages     |-> Seen(d, "packages") \ {"link", "scope"},
                            hadDirectory |-> Seen(d, "packages") \ {"link"} # {},
                            failed       |-> ~d.listed]

PackageDirs(d) == [packages     |-> Seen(d, "packages") \ {"link", "scope"},
                   hadDirectory |-> Seen(d, "packages") \ {"link"} # {},
                   failed       |-> ~d.listed \/ "link" \in Seen(d, "packages")]

PackageTree(d) ==
  LET dirs == PackageDirs(d)
      results == {ReadJson(package) : package \in dirs.packages}
      failed == dirs.failed \/ "failed" \in results
  IN  [valid  |-> "valid" \in results,
       failed |-> failed,
       manifest |-> IF "valid" \in results THEN Observed("package_manifest")
                    ELSE IF "failed" \in results THEN Failed("package_manifest")
                    ELSE ConfirmedAbsent("package_manifest"),
       tree |-> IF "valid" \in results /\ ~dirs.failed THEN Observed("dependency_tree")
                ELSE IF failed THEN Failed("dependency_tree")
                ELSE IF dirs.hadDirectory THEN WeaklyObserved("dependency_tree")
                ELSE ConfirmedAbsent("dependency_tree")]

PackageManager(d) ==
  LET key == "package_manager_indicator"
  IN  IF d.parts["manager"] = {} THEN ConfirmedAbsent(key)
      ELSE IF d.parts["manager"] = {"valid"} THEN Observed(key)
      ELSE Failed(key)

InspectNodeModules(d) ==
  LET tree == PackageTree(d)
      key == "generator_indicator"
  IN  IF ~IsDirectory(d) THEN NodeUninspectable("node_modules", d)
      ELSE Inspected({Readable(TRUE), tree.manifest, tree.tree, PackageManager(d),
                      Unknown("recreation_input_availability"),
                      IF tree.failed THEN Failed(key)
                      ELSE IF tree.valid THEN Observed(key) ELSE WeaklyObserved(key)})

-----------------------------------------------------------------------------
(* dist, build and .next.  The first output found is valid or unreadable,  *)
(* the first build metadata valid, weak, corrupt or unreadable.            *)

BuildOutput(d) ==
  LET output == Seen(d, "output")
  IN  IF ~d.listed \/ output = {"unreadable"} THEN Failed("build_output_marker")
      ELSE IF output = {"valid"} THEN Observed("build_output_marker")
      ELSE ConfirmedAbsent("build_output_marker")

\* Evidence of a JSON file, if there is one.
Configuration(contents, key) ==
  IF contents = {} THEN ConfirmedAbsent(key)
  ELSE LET result == ReadJson(CHOOSE content \in contents : TRUE)
       IN  CASE result = "valid"  -> Observed(key)
             [] result = "weak"   -> WeaklyObserved(key)
             [] result = "failed" -> Failed(key)

BuildConfiguration(d) ==
  IF ~d.listed THEN Failed("build_configuration")
  ELSE Configuration(d.parts["config"], "build_configuration")

\* Output and metadata are never more than a weak sign of a generator.
BuildDetection(artifact, d) ==
  LET output == BuildOutput(d)
      config == BuildConfiguration(d)
      failed == "failed" \in {output.status, config.status}
  IN  IF ~IsDirectory(d) THEN NodeUninspectable(artifact, d)
      ELSE Inspected({Readable(~failed), output, config,
                      Unknown("recreation_input_availability"), Unknown("source_input"),
                      IF failed THEN Failed("generator_indicator")
                      ELSE WeaklyObserved("generator_indicator")})

NextMetadata(d) ==
  LET buildId == d.parts["build_id"]
  IN  IF buildId = {} THEN ConfirmedAbsent("next_metadata_marker")
      ELSE IF buildId = {"valid"} THEN Observed("next_metadata_marker")
      ELSE Failed("next_metadata_marker")

\* Whether a file that cannot be read exists can be told; where it cannot, the detector raises
\* and the scan counts a failure instead of a finding.
NextConfiguration(d) == Configuration(d.parts["config"], "project_configuration")

InspectNextBuild(d) ==
  LET found == {NextMetadata(d), BuildOutput(d), NextConfiguration(d)}
      failed == \E item \in found : item.status = "failed"
      key == "generator_indicator"
  IN  IF ~IsDirectory(d) THEN NodeUninspectable("next_build", d)
      ELSE Inspected(found \cup
                     {Readable(~failed), Unknown("recreation_input_availability"),
                      IF \A item \in found : item.confidence = "high" /\ item.polarity = "supports"
                      THEN Observed(key)
                      ELSE IF ~failed THEN WeaklyObserved(key) ELSE Failed(key)})

\* The keys each interpretation builds on; generic build output needs a generator too.
InterpretationKeys(artifact) ==
  CASE artifact = "node_modules" -> {"directory_name", "package_manifest", "dependency_tree"}
    [] artifact \in {"dist", "build"} -> {"directory_name", "build_output_marker",
                                          "build_configuration", "generator_indicator"}
    [] artifact = "next_build" -> ArtifactKeys["next_build"]

InterpretNodeArtifact(artifact, observations) ==
  Structural(observations, InterpretationKeys(artifact))

-----------------------------------------------------------------------------
(* Global storage.  The path is lost ("inaccessible"), a link, a junction, *)
(* a file or a directory, and may be "swapped" between the first look and  *)
(* the second, or "unvisited" because the budget of the scan is used up.   *)
(* Its layout is valid, weak (not that of the tool) or unreadable, and     *)
(* there may be links among its entries.                                   *)

LayoutIsValid(d) == d.listed /\ d.parts["links"] = {} /\ d.parts["layout"] = {"valid"}

StorageNodeKind(object) ==
  CASE object \in {"inaccessible", "file", "symlink", "directory"} -> object
    [] object = "junction" -> "reparse_point"
    [] object = "swapped" -> "directory"
    [] object = "unvisited" -> "unknown"

\* Only approved locations are inspected (system_scan.py).
InspectGlobalStorage(d) ==
  LET valid == d.object = "directory" /\ LayoutIsValid(d)
  IN  [node |-> [kind |-> StorageNodeKind(d.object),
                 protection |-> IF valid THEN "ordinary" ELSE "unknown"],
       observations |->
         {Observed("path_object"), Observed("metadata_readability"),
          Observed("global_storage_path"), Observed("generator_indicator"),
          ObservedAs("protection_indicator", "ordinary"),
          NotObserved("recreation_input_availability")}
         \cup (IF d.object = "inaccessible" THEN {Failed("metadata_readability")} ELSE {})
         \cup {IF valid THEN Observed(key) ELSE Failed(key) :
                 key \in {"global_storage_marker", "global_storage_structure"}}
         \cup ContextUnknown]

InterpretGlobalStorage(observations) ==
  LET identity == Structural(observations, StorageKeys)
  IN  [identity EXCEPT !.regenerability = IF HasConflicts(observations) THEN "conflicting"
                                          ELSE IF identity.provenance
                                          THEN "conditionally_reproducible" ELSE "unknown"]

-----------------------------------------------------------------------------
(* The dispatcher: one inspection and one interpretation per artifact.     *)

Detection(artifact, d) ==
  CASE artifact = "pycache"           -> InspectPycache(d)
    [] artifact = "pytest_cache"      -> InspectPytestCache(d)
    [] artifact = "mypy_cache"        -> InspectMypyCache(d)
    [] artifact = "ruff_cache"        -> InspectRuffCache(d)
    [] artifact = "python_venv"       -> InspectPythonVenv(d)
    [] artifact = "node_modules"      -> InspectNodeModules(d)
    [] artifact \in {"dist", "build"} -> BuildDetection(artifact, d)
    [] artifact = "next_build"        -> InspectNextBuild(d)
    [] artifact \in StorageArtifacts  -> InspectGlobalStorage(d)

Interpret(artifact, observations) ==
  CASE artifact = "pycache"      -> InterpretPycache(observations)
    [] artifact = "pytest_cache" -> InterpretPytestCache(observations)
    [] artifact = "mypy_cache"   -> InterpretMypyCache(observations)
    [] artifact = "ruff_cache"   -> InterpretRuffCache(observations)
    [] artifact = "python_venv"  -> InterpretPythonVenv(observations)
    [] artifact \in {"node_modules", "dist", "build", "next_build"} ->
         InterpretNodeArtifact(artifact, observations)
    [] artifact \in StorageArtifacts -> InterpretGlobalStorage(observations)

AnalyzeCandidate(artifact, d) ==
  LET detection == Detection(artifact, d)
  IN  EvaluateAnalysis(artifact, detection, Interpret(artifact, detection.observations))
===============================================================================
