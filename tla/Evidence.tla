------------------------------- MODULE Evidence -------------------------------
(***************************************************************************)
(* The vocabulary of an analysis (dwi/domain.py, contracts.py,             *)
(* detector_support.py) and what is concluded from it (policy.py,          *)
(* pipeline.py).  Nothing here reads a disk.                               *)
(*                                                                         *)
(* Observations are a set: no conclusion depends on their order or number. *)
(* Every contract asks HIGH confidence of each of its keys (_requirements),*)
(* so a contract is the set of its keys; an artifact's Provenance is       *)
(* either absent or HIGH, so it is a Boolean.                              *)
(***************************************************************************)
EXTENDS Integers

-----------------------------------------------------------------------------
(* Evidence. *)

Evidence(key, status, polarity, confidence, value) ==
  [key |-> key, status |-> status, polarity |-> polarity,
   confidence |-> confidence, value |-> value]

ObservedAs(key, value) == Evidence(key, "observed", "supports", "high", value)
Observed(key) == ObservedAs(key, "unspecified")
WeaklyObserved(key) == Evidence(key, "observed", "supports", "low", "unspecified")
NotObserved(key) == Evidence(key, "not_observed", "unknown", "unknown", "unspecified")
ConfirmedAbsent(key) == Evidence(key, "confirmed_absent", "contradicts", "high", "unspecified")
Unknown(key) == Evidence(key, "unknown", "unknown", "unknown", "unspecified")
Failed(key) == Evidence(key, "failed", "unknown", "unknown", "unspecified")

IsObservationFailure(item) ==
  item.status \in {"not_observed", "failed", "timed_out", "inaccessible", "unknown"}

IsUncertain(item) ==
  \/ IsObservationFailure(item)
  \/ item.polarity \in {"unknown", "conflicting"}
  \/ item.confidence = "unknown"

MeetsRequirement(item) == ~IsUncertain(item) /\ item.confidence = "high"

About(observations, key) == {item \in observations : item.key = key}

KeyConflicts(observations, key) ==
  LET polarities == {item.polarity : item \in About(observations, key)}
  IN  "conflicting" \in polarities \/ {"supports", "contradicts"} \subseteq polarities

KeyHasUncertainty(observations, key) == \E item \in About(observations, key) : IsUncertain(item)

PositiveEvidenceMeets(observations, key) ==
  \E item \in About(observations, key) : item.polarity = "supports" /\ MeetsRequirement(item)

ConfirmedAbsenceMeets(observations, key) ==
  \E item \in About(observations, key) :
    item.status = "confirmed_absent" /\ MeetsRequirement(item)

-----------------------------------------------------------------------------
(* Contracts. *)

CommonKeys ==
  {"path_object", "metadata_readability", "generator_indicator", "recreation_input_availability",
   "reference_check", "runtime_activity", "protection_indicator"}

BuildKeys == {"directory_name", "build_output_marker", "build_configuration", "source_input"}
StorageKeys == {"global_storage_path", "global_storage_marker", "global_storage_structure"}

StorageArtifacts == {"pip_cache", "uv_cache", "npm_cache", "pnpm_cache", "yarn_cache"}

\* The name observation of each contract is called directory_name here.
ArtifactKeys ==
  [pycache      |-> {"directory_name", "python_bytecode_marker", "python_source_reference"},
   pytest_cache |-> {"directory_name", "pytest_cache_marker", "cache_layout"},
   mypy_cache   |-> {"directory_name", "mypy_cache_marker", "cache_layout"},
   ruff_cache   |-> {"directory_name", "ruff_cache_marker", "cache_layout"},
   python_venv  |-> {"directory_name", "pyvenv_cfg_marker", "interpreter_layout",
                     "project_metadata"},
   node_modules |-> {"directory_name", "package_manifest", "dependency_tree",
                     "package_manager_indicator"},
   dist         |-> BuildKeys,
   build        |-> BuildKeys,
   next_build   |-> {"directory_name", "next_metadata_marker", "build_output_marker",
                     "project_configuration"},
   pip_cache    |-> StorageKeys,
   uv_cache     |-> StorageKeys,
   npm_cache    |-> StorageKeys,
   pnpm_cache   |-> StorageKeys,
   yarn_cache   |-> StorageKeys]

ArtifactKinds == DOMAIN ArtifactKeys

RequiredKeys(artifact) == CommonKeys \cup ArtifactKeys[artifact]

MissingKeys(artifact, observations) ==
  RequiredKeys(artifact) \ {item.key : item \in observations}

ConfidenceShortfalls(artifact, observations) ==
  {key \in RequiredKeys(artifact) :
     ~\E item \in About(observations, key) : MeetsRequirement(item)}

HasUncertainty(observations) == \E item \in observations : IsUncertain(item)

HasConflicts(observations) ==
  \E key \in {item.key : item \in observations} : KeyConflicts(observations, key)

EvidenceSufficient(artifact, observations) ==
  /\ MissingKeys(artifact, observations) = {}
  /\ ConfidenceShortfalls(artifact, observations) = {}
  /\ ~HasUncertainty(observations)
  /\ ~HasConflicts(observations)

-----------------------------------------------------------------------------
(* What a detector's interpretation takes from evidence. *)

ContextUnknown ==
  {Unknown("reference_check"), Unknown("runtime_activity"), Unknown("protection_indicator")}

ProtectionClasses ==
  {"ordinary", "protected", "system_protected", "repository_protected", "unknown", "conflicting"}

\* The observation of the key asserts the value.
Asserted(observations, key, value) ==
  \E item \in About(observations, key) :
    item.polarity = "supports" /\ item.value = value /\ ~IsUncertain(item)

ActivityFromEvidence(observations) ==
  IF KeyConflicts(observations, "runtime_activity") THEN "conflicting"
  ELSE IF Asserted(observations, "runtime_activity", "inactive") THEN "inactive"
  ELSE IF Asserted(observations, "runtime_activity", "active_runtime") THEN "active_runtime"
  ELSE "unknown"

\* No detector asserts two classes.
ProtectionFromEvidence(observations) ==
  LET asserted == {class \in ProtectionClasses :
                     Asserted(observations, "protection_indicator", class)}
  IN  IF KeyConflicts(observations, "protection_indicator") THEN "conflicting"
      ELSE IF asserted = {} THEN "unknown" ELSE CHOOSE class \in asserted : TRUE

ReachabilityFromEvidence(observations) ==
  IF KeyConflicts(observations, "reference_check") THEN "conflicting"
  ELSE IF PositiveEvidenceMeets(observations, "reference_check") THEN "confirmed_referenced"
  ELSE IF ConfirmedAbsenceMeets(observations, "reference_check") THEN "confirmed_unreferenced"
  ELSE "unknown"

\* The kind of object lstat shows: "absent" for a path that is not there.
ObservedNodeKind(object) ==
  IF object = "absent" THEN "unknown"
  ELSE IF object \in {"inaccessible", "symlink", "directory", "file"} THEN object
  ELSE IF object = "junction" THEN "directory"
  ELSE "unknown"

-----------------------------------------------------------------------------
(* Candidate selection and the Safety Policy. *)

SelectCandidate(node, interpretation) ==
  /\ node.kind = "directory"
  /\ node.protection # "repository_protected"
  /\ interpretation.provenance

Rank == [safe |-> 0, regeneratable |-> 1, review_required |-> 2, never_delete |-> 3]

EscalateRisk(current, proposed) == IF Rank[proposed] > Rank[current] THEN proposed ELSE current

ProtectionRule(protection) ==
  IF protection \in {"system_protected", "repository_protected"} THEN "never_delete"
  ELSE IF protection \in {"protected", "unknown", "conflicting"} THEN "review_required"
  ELSE "safe"

\* The rules required_evidence, minimum_confidence, uncertain_evidence and conflicting_evidence.
EvidenceRule(artifact, observations) ==
  IF EvidenceSufficient(artifact, observations) THEN "safe" ELSE "review_required"

ProvenanceRule(provenance) == IF provenance THEN "safe" ELSE "review_required"

ReachabilityRule(reachability) ==
  IF reachability = "confirmed_unreferenced" THEN "safe" ELSE "review_required"

ActivityRule(activity) == IF activity = "inactive" THEN "safe" ELSE "review_required"

RegenerabilityRule(regenerability) ==
  IF regenerability \in {"reproducible", "conditionally_reproducible"}
  THEN "regeneratable" ELSE "review_required"

RiskLabel(artifact, observations, i) ==
  LET step1 == EscalateRisk("safe", ProtectionRule(i.protection))
      step2 == EscalateRisk(step1, EvidenceRule(artifact, observations))
      step3 == EscalateRisk(step2, ProvenanceRule(i.provenance))
      step4 == EscalateRisk(step3, ReachabilityRule(i.reachability))
      step5 == EscalateRisk(step4, ActivityRule(i.activity))
  IN  EscalateRisk(step5, RegenerabilityRule(i.regenerability))

ActionEligibility(label, activity) ==
  IF label = "never_delete" \/ activity = "active_runtime" THEN "blocked"
  ELSE IF label = "review_required" THEN "requires_review"
  ELSE "eligible_for_explicit_action"

\* SafetyContext raises when the node and its interpretation disagree on the protection.
PolicyAccepts(node, interpretation) == node.protection = interpretation.protection

\* A rejected candidate keeps the defaults of Finding.risk_label and Finding.action_eligibility.
EvaluateAnalysis(artifact, detection, interpretation) ==
  LET observations == detection.observations
      selected == SelectCandidate(detection.node, interpretation)
      label == IF selected THEN RiskLabel(artifact, observations, interpretation)
                           ELSE "review_required"
  IN  [artifact       |-> artifact,
       node           |-> detection.node,
       observations   |-> observations,
       interpretation |-> interpretation,
       selected       |-> selected,
       raises         |-> selected /\ ~PolicyAccepts(detection.node, interpretation),
       label          |-> label,
       eligibility    |-> IF selected THEN ActionEligibility(label, interpretation.activity)
                                      ELSE "requires_review"]
===============================================================================
