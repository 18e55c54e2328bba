----------------------------- MODULE AnalysisProofs -----------------------------
(***************************************************************************)
(* Proofs about the analysis of a candidate: for every set of artifacts,   *)
(* what the Safety Policy lets through, what a selected candidate holds,   *)
(* and that only a pytest cache in a disposable root, read in full, is     *)
(* offered for a cleanup.                                                  *)
(***************************************************************************)
EXTENDS Analysis, TLAPS

-----------------------------------------------------------------------------
(* The Safety Policy, for any evidence. *)

Risks == {"safe", "regeneratable", "review_required", "never_delete"}
LowRisks == {"safe", "regeneratable"}

\* A rule can only raise the risk: a low risk after an escalation was low before it, and so
\* was what was proposed (RiskLabel, policy.py).
LEMMA EscalateOnly ==
  ASSUME NEW r \in Risks, NEW s \in Risks
  PROVE  /\ EscalateRisk(r, s) \in Risks
         /\ EscalateRisk(r, s) \in LowRisks => r \in LowRisks /\ s \in LowRisks
  BY DEF EscalateRisk, Rank, Risks, LowRisks

\* Every rule of the policy proposes one of the four risk labels.
LEMMA RulesAreRisks ==
  ASSUME NEW p, NEW a, NEW obs, NEW b, NEW q, NEW v, NEW g
  PROVE  /\ ProtectionRule(p) \in Risks
         /\ EvidenceRule(a, obs) \in Risks
         /\ ProvenanceRule(b) \in Risks
         /\ ReachabilityRule(q) \in Risks
         /\ ActivityRule(v) \in Risks
         /\ RegenerabilityRule(g) \in Risks
  BY DEF ProtectionRule, EvidenceRule, ProvenanceRule, ReachabilityRule, ActivityRule,
         RegenerabilityRule, Risks

\* A rule that proposes a low risk has seen what it asks for.
LEMMA RulesAreGates ==
  ASSUME NEW p, NEW a, NEW obs, NEW b, NEW q, NEW v, NEW g
  PROVE  /\ ProtectionRule(p) \in LowRisks =>
              p \notin {"system_protected", "repository_protected", "protected", "unknown",
                        "conflicting"}
         /\ EvidenceRule(a, obs) \in LowRisks => EvidenceSufficient(a, obs)
         /\ ProvenanceRule(b) \in LowRisks => b
         /\ ReachabilityRule(q) \in LowRisks => q = "confirmed_unreferenced"
         /\ ActivityRule(v) \in LowRisks => v = "inactive"
         /\ RegenerabilityRule(g) \in LowRisks =>
              g \in {"reproducible", "conditionally_reproducible"}
  BY DEF ProtectionRule, EvidenceRule, ProvenanceRule, ReachabilityRule, ActivityRule,
         RegenerabilityRule, LowRisks

\* What the rules of the policy ask for (evaluate_safety).
EvidenceGates(a, obs, i) ==
  /\ EvidenceSufficient(a, obs)
  /\ i.provenance
  /\ i.protection \notin {"system_protected", "repository_protected", "protected", "unknown",
                          "conflicting"}
  /\ i.reachability = "confirmed_unreferenced"
  /\ i.activity = "inactive"
  /\ i.regenerability \in {"reproducible", "conditionally_reproducible"}

\* A label is one of the four, and a low one means that every rule of the policy was passed.
LEMMA LabelPassesGates ==
  ASSUME NEW a, NEW obs, NEW i
  PROVE  /\ RiskLabel(a, obs, i) \in Risks
         /\ RiskLabel(a, obs, i) \in LowRisks => EvidenceGates(a, obs, i)
<1> DEFINE step1 == EscalateRisk("safe", ProtectionRule(i.protection))
           step2 == EscalateRisk(step1, EvidenceRule(a, obs))
           step3 == EscalateRisk(step2, ProvenanceRule(i.provenance))
           step4 == EscalateRisk(step3, ReachabilityRule(i.reachability))
           step5 == EscalateRisk(step4, ActivityRule(i.activity))
           step6 == EscalateRisk(step5, RegenerabilityRule(i.regenerability))
<1>1. /\ ProtectionRule(i.protection) \in Risks
      /\ EvidenceRule(a, obs) \in Risks
      /\ ProvenanceRule(i.provenance) \in Risks
      /\ ReachabilityRule(i.reachability) \in Risks
      /\ ActivityRule(i.activity) \in Risks
      /\ RegenerabilityRule(i.regenerability) \in Risks
  BY RulesAreRisks, Zenon
<1>2. "safe" \in Risks
  BY DEF Risks
<1>3. step1 \in Risks /\ (step1 \in LowRisks => ProtectionRule(i.protection) \in LowRisks)
  BY <1>1, <1>2, EscalateOnly
<1> HIDE DEF step1
<1>4. /\ step2 \in Risks
      /\ step2 \in LowRisks => step1 \in LowRisks /\ EvidenceRule(a, obs) \in LowRisks
  BY <1>1, <1>3, EscalateOnly
<1> HIDE DEF step2
<1>5. /\ step3 \in Risks
      /\ step3 \in LowRisks => step2 \in LowRisks /\ ProvenanceRule(i.provenance) \in LowRisks
  BY <1>1, <1>4, EscalateOnly
<1> HIDE DEF step3
<1>6. /\ step4 \in Risks
      /\ step4 \in LowRisks => step3 \in LowRisks /\ ReachabilityRule(i.reachability) \in LowRisks
  BY <1>1, <1>5, EscalateOnly
<1> HIDE DEF step4
<1>7. /\ step5 \in Risks
      /\ step5 \in LowRisks => step4 \in LowRisks /\ ActivityRule(i.activity) \in LowRisks
  BY <1>1, <1>6, EscalateOnly
<1> HIDE DEF step5
<1>8. /\ step6 \in Risks
      /\ step6 \in LowRisks =>
           step5 \in LowRisks /\ RegenerabilityRule(i.regenerability) \in LowRisks
  BY <1>1, <1>7, EscalateOnly
<1>9. RiskLabel(a, obs, i) = step6
  BY DEF RiskLabel, step1, step2, step3, step4, step5
<1> HIDE DEF step6
<1>10. SUFFICES ASSUME step6 \in LowRisks PROVE EvidenceGates(a, obs, i)
  BY <1>8, <1>9
<1>11. /\ ProtectionRule(i.protection) \in LowRisks
       /\ EvidenceRule(a, obs) \in LowRisks
       /\ ProvenanceRule(i.provenance) \in LowRisks
       /\ ReachabilityRule(i.reachability) \in LowRisks
       /\ ActivityRule(i.activity) \in LowRisks
       /\ RegenerabilityRule(i.regenerability) \in LowRisks
  BY <1>3, <1>4, <1>5, <1>6, <1>7, <1>8, <1>10
<1>12. QED
  BY <1>11, RulesAreGates DEF EvidenceGates

\* Whatever a detector observes and makes of it, the pipeline offers a candidate for a cleanup
\* only if it was selected and no rule of the Safety Policy had an objection: no rule is
\* compensated by another (docs/SAFETY_INVARIANTS.md, items 1 to 3).
THEOREM PolicyGate ==
  ASSUME NEW a, NEW detection, NEW i,
         EvaluateAnalysis(a, detection, i).eligibility = "eligible_for_explicit_action"
  PROVE  SelectCandidate(detection.node, i) /\ EvidenceGates(a, detection.observations, i)
<1> DEFINE selected == SelectCandidate(detection.node, i)
           label == RiskLabel(a, detection.observations, i)
<1>1. selected /\ ActionEligibility(label, i.activity) = "eligible_for_explicit_action"
  BY DEF EvaluateAnalysis
<1>2. label \notin {"never_delete", "review_required"}
  BY <1>1 DEF ActionEligibility
<1>3. label \in LowRisks
  BY <1>2, LabelPassesGates DEF Risks, LowRisks
<1>4. QED
  BY <1>1, <1>3, LabelPassesGates

-----------------------------------------------------------------------------
(* The detectors: all but one leave the references to an artifact unknown. *)

\* One uncertain observation makes the evidence insufficient.
LEMMA UncertaintyBlocks ==
  ASSUME NEW a, NEW obs, NEW item \in obs, IsUncertain(item)
  PROVE  ~EvidenceSufficient(a, obs)
  BY DEF EvidenceSufficient, HasUncertainty

\* An unknown or failed observation is uncertain.
LEMMA FailureIsUncertain ==
  ASSUME NEW key
  PROVE  IsUncertain(Unknown(key)) /\ IsUncertain(Failed(key))
  BY DEF IsUncertain, IsObservationFailure, Unknown, Failed, Evidence

\* The context of a workspace leaves the references to an artifact unknown.
LEMMA UnknownReference ==
  Unknown("reference_check") \in ContextUnknown
  BY DEF ContextUnknown

\* So does the detection of what is no readable directory,
LEMMA UninspectableIsUnknown ==
  ASSUME NEW a, NEW d, NEW path
  PROVE  Unknown("reference_check") \in Uninspectable(a, d, path).observations
  BY UnknownReference, Zenon DEF Uninspectable

\* and the detection of a directory that holds no marker of a disposable root.
LEMMA InspectedIsUnknown ==
  ASSUME NEW obs
  PROVE  Unknown("reference_check") \in Inspected(obs).observations
  BY UnknownReference DEF Inspected

\* The detector of __pycache__ never knows the references.
LEMMA PycacheIsUnknown ==
  ASSUME NEW d
  PROVE  Unknown("reference_check") \in InspectPycache(d).observations
  BY UninspectableIsUnknown, InspectedIsUnknown DEF InspectPycache, PycacheUninspectable

\* The detector of .mypy_cache never knows the references.
LEMMA MypyIsUnknown ==
  ASSUME NEW d
  PROVE  Unknown("reference_check") \in InspectMypyCache(d).observations
  BY UninspectableIsUnknown, InspectedIsUnknown DEF InspectMypyCache, MypyUninspectable

\* The detector of .ruff_cache never knows the references.
LEMMA RuffIsUnknown ==
  ASSUME NEW d
  PROVE  Unknown("reference_check") \in InspectRuffCache(d).observations
  BY UninspectableIsUnknown, InspectedIsUnknown DEF InspectRuffCache, RuffUninspectable

\* The detector of .venv never knows the references.
LEMMA VenvIsUnknown ==
  ASSUME NEW d
  PROVE  Unknown("reference_check") \in InspectPythonVenv(d).observations
  BY UninspectableIsUnknown, InspectedIsUnknown
  DEF InspectPythonVenv, VenvUninspectable, NotObserved, Unknown, Evidence

\* The Node detectors replace some observations of an uninspectable path, not this one.
LEMMA NodeUninspectableIsUnknown ==
  ASSUME NEW a, NEW d
  PROVE  Unknown("reference_check") \in NodeUninspectable(a, d).observations
  BY UninspectableIsUnknown DEF NodeUninspectable, Unknown, Evidence

\* The detectors of node_modules, dist, build and .next never know the references.
LEMMA NodeIsUnknown ==
  ASSUME NEW a, NEW d
  PROVE  /\ Unknown("reference_check") \in InspectNodeModules(d).observations
         /\ Unknown("reference_check") \in BuildDetection(a, d).observations
         /\ Unknown("reference_check") \in InspectNextBuild(d).observations
  BY NodeUninspectableIsUnknown, InspectedIsUnknown
  DEF InspectNodeModules, BuildDetection, InspectNextBuild

\* The observer of the storage of package managers never knows the references.
LEMMA StorageIsUnknown ==
  ASSUME NEW d
  PROVE  Unknown("reference_check") \in InspectGlobalStorage(d).observations
  BY UnknownReference, Zenon DEF InspectGlobalStorage

\* The detection of every artifact but a pytest cache leaves the references unknown.
LEMMA OthersAreUnknown ==
  ASSUME NEW a \in ArtifactKinds, NEW d, a # "pytest_cache"
  PROVE  Unknown("reference_check") \in Detection(a, d).observations
<1>1. a \in {"pycache", "mypy_cache", "ruff_cache", "python_venv", "node_modules", "dist",
             "build", "next_build"} \cup StorageArtifacts
  BY DEF ArtifactKinds, ArtifactKeys, StorageArtifacts
<1>2. CASE a = "pycache"
  <2>1. Detection(a, d) = InspectPycache(d)
    BY <1>2, Zenon DEF Detection, StorageArtifacts
  <2>2. QED
    BY <2>1, PycacheIsUnknown
<1>3. CASE a = "mypy_cache"
  <2>1. Detection(a, d) = InspectMypyCache(d)
    BY <1>3, Zenon DEF Detection, StorageArtifacts
  <2>2. QED
    BY <2>1, MypyIsUnknown
<1>4. CASE a = "ruff_cache"
  <2>1. Detection(a, d) = InspectRuffCache(d)
    BY <1>4, Zenon DEF Detection, StorageArtifacts
  <2>2. QED
    BY <2>1, RuffIsUnknown
<1>5. CASE a = "python_venv"
  <2>1. Detection(a, d) = InspectPythonVenv(d)
    BY <1>5, Zenon DEF Detection, StorageArtifacts
  <2>2. QED
    BY <2>1, VenvIsUnknown
<1>6. CASE a = "node_modules"
  <2>1. Detection(a, d) = InspectNodeModules(d)
    BY <1>6, Zenon DEF Detection, StorageArtifacts
  <2>2. QED
    BY <2>1, NodeIsUnknown
<1>7. CASE a = "dist" \/ a = "build"
  <2>1. Detection(a, d) = BuildDetection(a, d)
    BY <1>7, Zenon DEF Detection, StorageArtifacts
  <2>2. QED
    BY <2>1, NodeIsUnknown
<1>8. CASE a = "next_build"
  <2>1. Detection(a, d) = InspectNextBuild(d)
    BY <1>8, Zenon DEF Detection, StorageArtifacts
  <2>2. QED
    BY <2>1, NodeIsUnknown
<1>9. CASE a \in StorageArtifacts
  <2>1. Detection(a, d) = InspectGlobalStorage(d)
    BY <1>9, Zenon DEF Detection, StorageArtifacts
  <2>2. QED
    BY <2>1, StorageIsUnknown
<1>10. QED
  BY <1>1, <1>2, <1>3, <1>4, <1>5, <1>6, <1>7, <1>8, <1>9

-----------------------------------------------------------------------------
(* The pytest cache in a disposable root. *)

\* What the content of a root marker is evidence of.
LEMMA MarkerContents ==
  ASSUME NEW key
  PROVE  /\ MarkerEvidence("valid", key) = Observed(key)
         /\ MarkerEvidence("weak", key) = WeaklyObserved(key)
         /\ MarkerEvidence("empty", key) = Failed(key)
         /\ MarkerEvidence("unreadable", key) = Failed(key)
  BY Zenon DEF MarkerEvidence

\* The parts of a pytest cache.
LEMMA PytestParts ==
  Parts("pytest_cache") = [tag : RootMarker, readme : RootMarker,
                           v : AtMostOne({"directory", "unreadable"})]
  BY Zenon DEF Parts

\* The dispatcher sends a pytest cache to its detector.
LEMMA PytestDetection ==
  ASSUME NEW d
  PROVE  /\ Detection("pytest_cache", d) = InspectPytestCache(d)
         /\ \A obs : Interpret("pytest_cache", obs) = InterpretPytestCache(obs)
  BY Zenon DEF Detection, Interpret, StorageArtifacts

\* Outside of a disposable root the references of a pytest cache are unknown as well.
LEMMA PytestNeedsRoot ==
  ASSUME NEW d, ~IsDirectory(d) \/ ~d.disposable
  PROVE  Unknown("reference_check") \in InspectPytestCache(d).observations
<1>1. CASE ~IsDirectory(d)
  BY <1>1, UninspectableIsUnknown DEF InspectPytestCache, PytestUninspectable
<1>2. CASE IsDirectory(d) /\ ~d.disposable
  BY <1>2, UnknownReference DEF InspectPytestCache, PytestDirectory, PytestContext
<1>3. QED
  BY <1>1, <1>2

\* The contents of the root markers of a pytest cache.
LEMMA PytestContents ==
  ASSUME NEW d \in Directories("pytest_cache")
  PROVE  Seen(d, "tag") \cup Seen(d, "readme") \subseteq {"valid", "weak", "empty", "unreadable"}
<1>1. d.parts \in [tag : RootMarker, readme : RootMarker,
                   v : AtMostOne({"directory", "unreadable"})]
  BY PytestParts DEF Directories
<1>2. QED
  BY <1>1 DEF RootMarker, AtMostOne, Seen

\* A positive marker means that one of the files has the contents pytest writes.
LEMMA PytestMarkerIsValid ==
  ASSUME NEW d \in Directories("pytest_cache"), NEW protection,
         PositiveEvidenceMeets(PytestDirectory(d, protection).observations, "pytest_cache_marker")
  PROVE  "valid" \in Seen(d, "tag") \cup Seen(d, "readme")
<1> DEFINE key == "pytest_cache_marker"
           contents == Seen(d, "tag") \cup Seen(d, "readme")
           obs == PytestDirectory(d, protection).observations
<1>1. obs = {Observed("directory_name"), Observed("path_object"), Readable(d.listed),
             PytestLayout(d, contents), PytestGenerator(d, contents)}
            \cup PytestMarkers(d, contents) \cup PytestContext(d)
  BY DEF PytestDirectory
<1>2. PICK item \in obs : item.key = key /\ item.polarity = "supports" /\ item.confidence = "high"
  BY DEF PositiveEvidenceMeets, About, MeetsRequirement
<1> HIDE DEF obs, contents
<1>3. item \in PytestMarkers(d, contents)
  <2>1. item \notin PytestContext(d)
    BY <1>2 DEF PytestContext, DisposableContext, ContextUnknown, Observed, ObservedAs,
                ConfirmedAbsent, Unknown, Evidence
  <2>2. item \notin {Observed("directory_name"), Observed("path_object"), Readable(d.listed)}
    BY <1>2 DEF Readable, Observed, ObservedAs, Failed, Evidence
  <2>3. item # PytestLayout(d, contents)
    BY <1>2 DEF PytestLayout, Observed, ObservedAs, WeaklyObserved, ConfirmedAbsent, Failed,
                Evidence
  <2>4. item # PytestGenerator(d, contents)
    BY <1>2 DEF PytestGenerator, Observed, ObservedAs, WeaklyObserved, ConfirmedAbsent, Failed,
                Evidence
  <2>5. QED
    BY <2>1, <2>2, <2>3, <2>4, <1>1
<1>4. PICK content \in contents : item = MarkerEvidence(content, key)
  BY <1>2, <1>3 DEF PytestMarkers, ReadMarkers, ConfirmedAbsent, Failed, Evidence
<1>5. contents \subseteq {"valid", "weak", "empty", "unreadable"}
  BY PytestContents DEF contents
<1>6. content = "valid"
  BY <1>2, <1>4, <1>5, MarkerContents DEF WeaklyObserved, Failed, Evidence
<1>7. QED
  BY <1>6 DEF contents

\* In a disposable root, sufficient evidence with a positive marker means that the cache was
\* listed, that nothing of it was unreadable and that a marker has the contents pytest writes.
LEMMA PytestMarkersAreRead ==
  ASSUME NEW d \in Directories("pytest_cache"), NEW protection,
         EvidenceSufficient("pytest_cache", PytestDirectory(d, protection).observations),
         PositiveEvidenceMeets(PytestDirectory(d, protection).observations, "pytest_cache_marker")
  PROVE  /\ d.listed
         /\ \A part \in DOMAIN d.parts : "unreadable" \notin d.parts[part]
         /\ "valid" \in d.parts["tag"] \cup d.parts["readme"]
<1> DEFINE key == "pytest_cache_marker"
           contents == Seen(d, "tag") \cup Seen(d, "readme")
           obs == PytestDirectory(d, protection).observations
<1>1. d.parts \in [tag : RootMarker, readme : RootMarker,
                   v : AtMostOne({"directory", "unreadable"})]
  BY PytestParts DEF Directories
<1>2. obs = {Observed("directory_name"), Observed("path_object"), Readable(d.listed),
             PytestLayout(d, contents), PytestGenerator(d, contents)}
            \cup PytestMarkers(d, contents) \cup PytestContext(d)
  BY DEF PytestDirectory
<1>3. \A item \in obs : ~IsUncertain(item)
  BY UncertaintyBlocks
<1> HIDE DEF obs
<1>4. d.listed
  BY <1>2, <1>3, FailureIsUncertain DEF Readable
<1>5. contents = d.parts["tag"] \cup d.parts["readme"] /\ Seen(d, "v") = d.parts["v"]
  BY <1>4 DEF Seen
<1> HIDE DEF contents
<1>6. \A content \in contents : MarkerEvidence(content, key) \in obs
  BY <1>2 DEF PytestMarkers, ReadMarkers
<1>7. "unreadable" \notin contents
  BY <1>3, <1>6, MarkerContents, FailureIsUncertain
<1>8. "unreadable" \notin d.parts["v"]
  <2>1. SUFFICES ASSUME "unreadable" \in d.parts["v"] PROVE FALSE
    OBVIOUS
  <2>2. d.parts["v"] = {"unreadable"}
    BY <2>1, <1>1 DEF AtMostOne
  <2>3. PytestLayout(d, contents) = Failed("cache_layout")
    BY <2>2, <1>5 DEF PytestLayout
  <2>4. QED
    BY <2>3, <1>2, <1>3, FailureIsUncertain
<1>9. "valid" \in contents
  BY PytestMarkerIsValid DEF contents
<1>10. DOMAIN d.parts = {"tag", "readme", "v"}
  BY <1>1
<1>11. QED
  BY <1>4, <1>5, <1>7, <1>8, <1>9, <1>10

\* What an analysis offers for a cleanup is a pytest cache in a disposable root, read in full,
\* with a genuine marker.
LEMMA EligibleIsRead ==
  ASSUME NEW a \in ArtifactKinds, NEW d \in Directories(a),
         AnalyzeCandidate(a, d).eligibility = "eligible_for_explicit_action"
  PROVE  /\ a = "pytest_cache" /\ d.disposable
         /\ EverythingRead(d)
         /\ "valid" \in d.parts["tag"] \cup d.parts["readme"]
<1> DEFINE obs == Detection(a, d).observations
           i == Interpret(a, obs)
<1>1. EvidenceGates(a, obs, i)
  BY PolicyGate DEF AnalyzeCandidate
<1>2. EvidenceSufficient(a, obs) /\ i.provenance
  BY <1>1 DEF EvidenceGates
<1>3. Unknown("reference_check") \notin obs
  BY <1>2, UncertaintyBlocks, FailureIsUncertain
<1>4. a = "pytest_cache"
  BY <1>3, OthersAreUnknown
<1>5. obs = InspectPytestCache(d).observations /\ i = InterpretPytestCache(obs)
  BY <1>4, PytestDetection
<1>6. IsDirectory(d) /\ d.disposable
  BY <1>3, <1>5, PytestNeedsRoot
<1>7. obs = PytestDirectory(d, "ordinary").observations
  BY <1>5, <1>6 DEF InspectPytestCache
<1> HIDE DEF obs
<1>8. PositiveEvidenceMeets(obs, "pytest_cache_marker")
  <2>1. "pytest_cache_marker" \in ArtifactKeys["pytest_cache"]
    BY DEF ArtifactKeys
  <2>2. InterpretPytestCache(obs).provenance
          => \A key \in ArtifactKeys["pytest_cache"] : PositiveEvidenceMeets(obs, key)
    BY Zenon DEF InterpretPytestCache, Structural, Interpretation
  <2>3. QED
    BY <1>2, <1>5, <2>1, <2>2
<1>9. QED
  BY <1>2, <1>4, <1>6, <1>7, <1>8, PytestMarkersAreRead DEF EverythingRead

-----------------------------------------------------------------------------
(* What a selected candidate is: what a positive observation stands for.   *)

\* The observation counts as high evidence for its key.
Establishes(item) == item.polarity = "supports" /\ MeetsRequirement(item)

\* Of the observations of the detectors only a full one counts.
LEMMA OnlyFullObservations ==
  ASSUME NEW key, NEW value
  PROVE  /\ ~Establishes(WeaklyObserved(key)) /\ ~Establishes(NotObserved(key))
         /\ ~Establishes(ConfirmedAbsent(key)) /\ ~Establishes(Unknown(key))
         /\ ~Establishes(Failed(key))
  BY DEF Establishes, MeetsRequirement, WeaklyObserved, NotObserved, ConfirmedAbsent, Unknown,
         Failed, Evidence

\* The key an observation is about.
LEMMA KeyOfObservation ==
  ASSUME NEW key, NEW value
  PROVE  /\ Observed(key).key = key /\ ObservedAs(key, value).key = key
         /\ WeaklyObserved(key).key = key /\ NotObserved(key).key = key
         /\ ConfirmedAbsent(key).key = key /\ Unknown(key).key = key /\ Failed(key).key = key
  BY DEF Observed, ObservedAs, WeaklyObserved, NotObserved, ConfirmedAbsent, Unknown, Failed,
         Evidence

\* Nor does the contents of a marker file change what its evidence is about.
LEMMA MarkerKey ==
  ASSUME NEW content \in {"valid", "weak", "empty", "unreadable"}, NEW key
  PROVE  MarkerEvidence(content, key).key = key
  BY MarkerContents, KeyOfObservation

\* Evidence that meets the requirement for a key has an observation that counts.
LEMMA PositiveHasWitness ==
  ASSUME NEW obs, NEW key, PositiveEvidenceMeets(obs, key)
  PROVE  \E item \in obs : item.key = key /\ Establishes(item)
  BY DEF PositiveEvidenceMeets, About, Establishes

\* In an inspected directory it is one of those the detector made, unless the key is one of
\* the two that every detector observes.
LEMMA InspectedHasWitness ==
  ASSUME NEW obs, NEW key, key \notin {"directory_name", "path_object"},
         PositiveEvidenceMeets(Inspected(obs).observations, key)
  PROVE  \E item \in obs : item.key = key /\ Establishes(item)
<1>1. PICK item \in Inspected(obs).observations : item.key = key /\ Establishes(item)
  BY PositiveHasWitness
<1>2. item \notin ContextUnknown
  BY <1>1, OnlyFullObservations DEF ContextUnknown
<1>3. item \notin {Observed("directory_name"), Observed("path_object")}
  BY <1>1, KeyOfObservation
<1>4. item \in obs
  BY <1>2, <1>3 DEF Inspected
<1>5. QED
  BY <1>1, <1>4

\* A detector that makes no observation of the protection leaves it unknown.
LEMMA InspectedProtection ==
  ASSUME NEW obs, \A item \in obs : item.key # "protection_indicator"
  PROVE  ProtectionFromEvidence(Inspected(obs).observations) = "unknown"
<1> DEFINE all == Inspected(obs).observations
           key == "protection_indicator"
<1>1. About(all, key) \subseteq {Unknown(key)}
  BY KeyOfObservation DEF About, Inspected, ContextUnknown
<1>2. Unknown(key).polarity = "unknown" /\ IsUncertain(Unknown(key))
  BY FailureIsUncertain DEF Unknown, Evidence
<1>3. ~KeyConflicts(all, key)
  BY <1>1, <1>2 DEF KeyConflicts
<1>4. {class \in ProtectionClasses : Asserted(all, key, class)} = {}
  BY <1>1, <1>2 DEF Asserted
<1>5. QED
  BY <1>3, <1>4, Zenon DEF ProtectionFromEvidence

\* Provenance from the structure: every key has positive evidence and none is uncertain.
LEMMA StructuralProvenance ==
  ASSUME NEW obs, NEW keys, Structural(obs, keys).provenance
  PROVE  \A key \in keys : PositiveEvidenceMeets(obs, key) /\ ~KeyHasUncertainty(obs, key)
  BY Zenon DEF Structural, Interpretation

\* The protection of an interpretation is that of the evidence.
LEMMA StructuralProtection ==
  ASSUME NEW obs, NEW keys
  PROVE  Structural(obs, keys).protection = ProtectionFromEvidence(obs)
  BY Zenon DEF Structural, Interpretation

\* What is no readable directory is not selected.
LEMMA UninspectableIsRejected ==
  ASSUME NEW a, NEW d, NEW path, NEW i, ~IsDirectory(d)
  PROVE  /\ ~SelectCandidate(Uninspectable(a, d, path).node, i)
         /\ ~SelectCandidate(VenvUninspectable(d).node, i)
         /\ ~SelectCandidate(NodeUninspectable(a, d).node, i)
  BY DEF Uninspectable, VenvUninspectable, NodeUninspectable, SelectCandidate, IsDirectory

\* What is selected has provenance.
LEMMA SelectedHasProvenance ==
  ASSUME NEW node, NEW i, SelectCandidate(node, i)
  PROVE  i.provenance
  BY Zenon DEF SelectCandidate

\* The node of an inspected directory is of unknown protection.
LEMMA InspectedNode ==
  ASSUME NEW obs
  PROVE  Inspected(obs).node.protection = "unknown"
  BY DEF Inspected

\* What is seen of a part is there.
LEMMA SeenIsPart ==
  ASSUME NEW d, NEW part
  PROVE  /\ Seen(d, part) \subseteq d.parts[part]
         /\ Seen(d, part) # {} => d.listed /\ Seen(d, part) = d.parts[part]
  BY DEF Seen

\* What the selection of a candidate must mean.
SelectionIsSound(a, d, detection, i) ==
  SelectCandidate(detection.node, i) =>
    /\ IsDirectory(d) /\ Genuine(a, d)
    /\ detection.node.protection = i.protection

-----------------------------------------------------------------------------
(* What a selected candidate is, detector by detector.                     *)

\* The sorts of entries of each artifact that its genuine signs are about.
LEMMA PartsOf ==
  /\ Parts("pycache") = [entries : SUBSET {"valid", "sourceless", "weak", "corrupt", "unreadable"}]
  /\ Parts("ruff_cache") = [tag : RootMarker, gitignore : RootMarker, versions : Versions,
                            files : SUBSET {"valid", "weak"}]
  /\ Parts("node_modules") =
       [packages : SUBSET {"valid", "weak", "corrupt", "link", "scope", "unreadable"},
        manager : AtMostOne({"valid", "corrupt", "unreadable"})]
  /\ Parts("next_build") = [build_id : OneFile, output : Output, config : Json]
  BY Zenon DEF Parts

\* The genuine signs of each artifact.
LEMMA GenuineSigns ==
  ASSUME NEW d
  PROVE  /\ Genuine("pycache", d) <=> d.parts["entries"] \cap {"valid", "sourceless"} # {}
         /\ Genuine("pytest_cache", d) <=> "valid" \in d.parts["tag"] \cup d.parts["readme"]
         /\ Genuine("mypy_cache", d) <=> "valid" \in d.parts["pairs"]
         /\ Genuine("ruff_cache", d) <=>
              /\ d.parts["tag"] = {"valid"} /\ d.parts["gitignore"] = {"valid"}
              /\ "valid" \in d.parts["files"]
         /\ Genuine("python_venv", d) <=>
              d.parts["cfg"] = {"valid"} /\ d.parts["interpreter"] = {"valid"}
         /\ Genuine("node_modules", d) <=>
              "valid" \in d.parts["packages"] /\ "link" \notin d.parts["packages"]
         /\ Genuine("next_build", d) <=> \A part \in DOMAIN d.parts : d.parts[part] = {"valid"}
  BY Zenon DEF Genuine

\* The same for the storage of a package manager.
LEMMA GenuineStorage ==
  ASSUME NEW d, NEW a \in StorageArtifacts
  PROVE  Genuine(a, d) <=> d.parts["layout"] = {"valid"} /\ d.parts["links"] = {}
<1>1. a \notin {"pycache", "pytest_cache", "mypy_cache", "ruff_cache", "python_venv",
                "node_modules", "next_build", "dist", "build"}
  BY DEF StorageArtifacts
<1>2. QED
  BY <1>1, Zenon DEF Genuine

\* What the entries of a __pycache__ are evidence of.
LEMMA BytecodeMarkers ==
  /\ BytecodeMarker("weak") = WeaklyObserved("python_bytecode_marker")
  /\ BytecodeMarker("corrupt") = Failed("python_bytecode_marker")
  /\ BytecodeMarker("unreadable") = Failed("python_bytecode_marker")
  /\ BytecodeMarker("valid") = Observed("python_bytecode_marker")
  /\ BytecodeMarker("sourceless") = Observed("python_bytecode_marker")
  BY Zenon DEF BytecodeMarker

\* A selected __pycache__ holds a valid bytecode file.
LEMMA PycacheIsSound ==
  ASSUME NEW d \in Directories("pycache")
  PROVE  SelectionIsSound("pycache", d, InspectPycache(d),
                          InterpretPycache(InspectPycache(d).observations))
<1> DEFINE detection == InspectPycache(d)
           i == InterpretPycache(detection.observations)
           entries == Seen(d, "entries")
           made == {Readable(d.listed), PycacheGenerator(d, entries)}
                     \cup PycacheMarkers(d, entries) \cup PycacheSources(entries)
           key == "python_bytecode_marker"
<1>1. SUFFICES ASSUME SelectCandidate(detection.node, i)
               PROVE  /\ IsDirectory(d) /\ Genuine("pycache", d)
                      /\ detection.node.protection = i.protection
  BY DEF SelectionIsSound
<1>2. IsDirectory(d)
  BY <1>1, UninspectableIsRejected DEF InspectPycache, PycacheUninspectable
<1>3. detection = Inspected(made)
  BY <1>2 DEF InspectPycache
<1>4. entries \subseteq d.parts["entries"]
      /\ d.parts["entries"] \subseteq {"valid", "sourceless", "weak", "corrupt", "unreadable"}
  <2>1. entries \subseteq d.parts["entries"]
    BY SeenIsPart
  <2>2. d.parts \in Parts("pycache")
    BY DEF Directories
  <2>3. d.parts \in [entries : SUBSET {"valid", "sourceless", "weak", "corrupt", "unreadable"}]
    BY <2>2, PartsOf, Zenon
  <2>4. QED
    BY <2>1, <2>3
<1> HIDE DEF entries
<1>5. \A item \in PycacheMarkers(d, entries) :
        item.key = key /\ (Establishes(item) => entries \cap {"valid", "sourceless"} # {})
  BY <1>4, BytecodeMarkers, OnlyFullObservations, KeyOfObservation DEF PycacheMarkers
<1>6. \A item \in {Readable(d.listed), PycacheGenerator(d, entries)} \cup PycacheSources(entries) :
        item.key \in {"metadata_readability", "generator_indicator", "python_source_reference",
                      "recreation_input_availability"}
  BY KeyOfObservation DEF Readable, PycacheGenerator, PycacheSources
<1>7. Genuine("pycache", d)
  <2>1. i.provenance
    BY <1>1, SelectedHasProvenance
  <2>2. Structural(detection.observations, {"directory_name", key}).provenance
    BY <2>1, Zenon DEF InterpretPycache, Structural, Interpretation
  <2>3. PositiveEvidenceMeets(detection.observations, key)
    BY <2>2, StructuralProvenance
  <2>4. PICK item \in made : item.key = key /\ Establishes(item)
    BY <2>3, <1>3, InspectedHasWitness
  <2>5. entries \cap {"valid", "sourceless"} # {}
    BY <2>4, <1>5, <1>6
  <2>6. QED
    BY <2>5, <1>4, GenuineSigns
<1>8. i.protection = "unknown"
  <2>1. \A item \in made : item.key # "protection_indicator"
    BY <1>5, <1>6
  <2>2. i.protection = Structural(detection.observations, ArtifactKeys["pycache"]).protection
    BY Zenon DEF InterpretPycache, Structural, Interpretation
  <2>3. QED
    BY <2>1, <2>2, <1>3, StructuralProtection, InspectedProtection
<1>9. QED
  BY <1>2, <1>3, <1>7, <1>8, InspectedNode

\* In a disposable root a pytest cache is ordinary, and only there.
LEMMA PytestProtection ==
  ASSUME NEW d \in Directories("pytest_cache"), NEW protection
  PROVE  ProtectionFromEvidence(PytestDirectory(d, protection).observations) =
           IF d.disposable THEN "ordinary" ELSE "unknown"
<1> DEFINE all == PytestDirectory(d, protection).observations
           key == "protection_indicator"
           contents == Seen(d, "tag") \cup Seen(d, "readme")
           made == {Observed("directory_name"), Observed("path_object"), Readable(d.listed),
                    PytestLayout(d, contents), PytestGenerator(d, contents)}
                     \cup PytestMarkers(d, contents)
<1> HIDE DEF contents
<1>1. all = made \cup PytestContext(d)
  BY DEF PytestDirectory, contents
<1>2. \A item \in made : item.key # key
  <2>1. \A item \in PytestMarkers(d, contents) : item.key = "pytest_cache_marker"
    <3>1. \A content \in contents :
            MarkerEvidence(content, "pytest_cache_marker").key = "pytest_cache_marker"
      BY PytestContents, MarkerKey DEF contents
    <3>2. QED
      BY <3>1, KeyOfObservation DEF PytestMarkers, ReadMarkers
  <2>2. PytestLayout(d, contents).key = "cache_layout"
    BY KeyOfObservation DEF PytestLayout
  <2>3. PytestGenerator(d, contents).key = "generator_indicator"
    BY KeyOfObservation DEF PytestGenerator
  <2>4. Readable(d.listed).key = "metadata_readability"
    BY KeyOfObservation DEF Readable
  <2>5. QED
    BY <2>1, <2>2, <2>3, <2>4, KeyOfObservation
<1> HIDE DEF all, made
<1>3. CASE d.disposable
  <2>1. About(all, key) = {ObservedAs(key, "ordinary")}
    BY <1>1, <1>2, <1>3, KeyOfObservation DEF About, PytestContext, DisposableContext
  <2>2. /\ ObservedAs(key, "ordinary").polarity = "supports"
        /\ ObservedAs(key, "ordinary").value = "ordinary"
        /\ ~IsUncertain(ObservedAs(key, "ordinary"))
    BY DEF ObservedAs, Evidence, IsUncertain, IsObservationFailure
  <2>3. ~KeyConflicts(all, key)
    BY <2>1, <2>2 DEF KeyConflicts
  <2>4. {class \in ProtectionClasses : Asserted(all, key, class)} = {"ordinary"}
    BY <2>1, <2>2 DEF Asserted, ProtectionClasses
  <2>5. ProtectionFromEvidence(all) =
          IF {"ordinary"} = {} THEN "unknown" ELSE CHOOSE class \in {"ordinary"} : TRUE
    BY <2>3, <2>4, Zenon DEF ProtectionFromEvidence
  <2>6. QED
    BY <1>3, <2>5 DEF all
<1>4. CASE ~d.disposable
  <2>1. About(all, key) = {Unknown(key)}
    BY <1>1, <1>2, <1>4, KeyOfObservation DEF About, PytestContext, ContextUnknown
  <2>2. Unknown(key).polarity = "unknown" /\ IsUncertain(Unknown(key))
    BY FailureIsUncertain DEF Unknown, Evidence
  <2>3. ~KeyConflicts(all, key)
    BY <2>1, <2>2 DEF KeyConflicts
  <2>4. {class \in ProtectionClasses : Asserted(all, key, class)} = {}
    BY <2>1, <2>2 DEF Asserted
  <2>5. ProtectionFromEvidence(all) = "unknown"
    BY <2>3, <2>4, Zenon DEF ProtectionFromEvidence
  <2>6. QED
    BY <1>4, <2>5 DEF all
<1>5. QED
  BY <1>3, <1>4

\* A selected pytest cache has a genuine marker, and the policy is told the same of its
\* protection twice.
LEMMA PytestIsSound ==
  ASSUME NEW d \in Directories("pytest_cache")
  PROVE  SelectionIsSound("pytest_cache", d, InspectPytestCache(d),
                          InterpretPytestCache(InspectPytestCache(d).observations))
<1> DEFINE detection == InspectPytestCache(d)
           i == InterpretPytestCache(detection.observations)
           protection == IF d.disposable THEN "ordinary" ELSE "unknown"
<1>1. SUFFICES ASSUME SelectCandidate(detection.node, i)
               PROVE  /\ IsDirectory(d) /\ Genuine("pytest_cache", d)
                      /\ detection.node.protection = i.protection
  BY DEF SelectionIsSound
<1>2. IsDirectory(d)
  BY <1>1, UninspectableIsRejected DEF InspectPytestCache, PytestUninspectable
<1>3. detection = PytestDirectory(d, protection)
  BY <1>2 DEF InspectPytestCache
<1>4. Genuine("pytest_cache", d)
  <2>1. i.provenance
    BY <1>1, SelectedHasProvenance
  <2>2. PositiveEvidenceMeets(detection.observations, "pytest_cache_marker")
    BY <2>1, StructuralProvenance DEF InterpretPytestCache, ArtifactKeys
  <2>3. "valid" \in Seen(d, "tag") \cup Seen(d, "readme")
    BY <2>2, <1>3, PytestMarkerIsValid
  <2>4. QED
    BY <2>3, SeenIsPart, GenuineSigns
<1>5. i.protection = protection
  BY <1>3, PytestProtection, StructuralProtection DEF InterpretPytestCache
<1>6. detection.node.protection = protection
  BY <1>3 DEF PytestDirectory
<1>7. QED
  BY <1>2, <1>4, <1>5, <1>6

\* A selected .mypy_cache holds a valid pair of metadata and data.
LEMMA MypyIsSound ==
  ASSUME NEW d
  PROVE  SelectionIsSound("mypy_cache", d, InspectMypyCache(d),
                          InterpretMypyCache(InspectMypyCache(d).observations))
<1> DEFINE detection == InspectMypyCache(d)
           i == InterpretMypyCache(detection.observations)
           failed == ~d.listed \/ "unreadable" \in Seen(d, "versions")
           overridden == failed /\ ModulePairs(d) \subseteq {"valid"}
           structure == {IF overridden THEN Failed(k) ELSE MypyEvidence(d, k) :
                           k \in {"mypy_cache_marker", "cache_layout"}}
           others == {Readable(~failed), MypyEvidence(d, "generator_indicator"),
                      Unknown("recreation_input_availability")}
<1>1. SUFFICES ASSUME SelectCandidate(detection.node, i)
               PROVE  /\ IsDirectory(d) /\ Genuine("mypy_cache", d)
                      /\ detection.node.protection = i.protection
  BY DEF SelectionIsSound
<1>2. IsDirectory(d)
  BY <1>1, UninspectableIsRejected DEF InspectMypyCache, MypyUninspectable
<1>3. detection = Inspected(others \cup structure)
  BY <1>2 DEF InspectMypyCache
<1>4. \A key : /\ MypyEvidence(d, key).key = key
               /\ Establishes(MypyEvidence(d, key)) => "valid" \in ModulePairs(d)
  BY OnlyFullObservations, KeyOfObservation DEF MypyEvidence
<1>5. ModulePairs(d) \subseteq d.parts["pairs"]
  BY DEF ModulePairs
<1> HIDE DEF failed, overridden
<1>6. \A item \in others :
        item.key \in {"metadata_readability", "generator_indicator",
                      "recreation_input_availability"}
  BY <1>4, KeyOfObservation DEF Readable
<1>7. \A item \in structure :
        /\ item.key \in {"mypy_cache_marker", "cache_layout"}
        /\ Establishes(item) => "valid" \in ModulePairs(d)
  BY <1>4, OnlyFullObservations, KeyOfObservation
<1> HIDE DEF others, structure
<1>8. Genuine("mypy_cache", d)
  <2>1. i.provenance
    BY <1>1, SelectedHasProvenance
  <2>2. PositiveEvidenceMeets(detection.observations, "mypy_cache_marker")
    BY <2>1, StructuralProvenance DEF InterpretMypyCache, ArtifactKeys
  <2>3. PICK item \in others \cup structure : item.key = "mypy_cache_marker" /\ Establishes(item)
    BY <2>2, <1>3, InspectedHasWitness
  <2>4. "valid" \in ModulePairs(d)
    BY <2>3, <1>6, <1>7
  <2>5. QED
    BY <2>4, <1>5, GenuineSigns
<1>9. i.protection = "unknown"
  BY <1>3, <1>6, <1>7, StructuralProtection, InspectedProtection DEF InterpretMypyCache
<1>10. QED
  BY <1>2, <1>3, <1>8, <1>9, InspectedNode

\* What a .ruff_cache observes of one of its two marker files.
RuffMarkersOf(d, file) ==
  {[item EXCEPT !.value = file] : item \in ReadMarkers(Seen(d, file), "ruff_cache_marker")}

\* An observation that counts means that the file is there and genuine.
LEMMA RuffMarkerIsValid ==
  ASSUME NEW d, NEW file, d.parts[file] \in RootMarker, NEW item \in RuffMarkersOf(d, file)
  PROVE  /\ item.key = "ruff_cache_marker" /\ item.value = file
         /\ Establishes(item) => d.parts[file] = {"valid"}
<1> DEFINE key == "ruff_cache_marker"
<1>1. PICK content \in Seen(d, file) :
        item = [MarkerEvidence(content, key) EXCEPT !.value = file]
  BY DEF RuffMarkersOf, ReadMarkers
<1>2. d.parts[file] = {content} /\ content \in {"valid", "weak", "empty", "unreadable"}
  BY <1>1, SeenIsPart DEF RootMarker, AtMostOne
<1>3. CASE content = "valid"
  BY <1>1, <1>2, <1>3, MarkerContents DEF Observed, ObservedAs, Evidence
<1>4. CASE content = "weak"
  BY <1>1, <1>4, MarkerContents DEF WeaklyObserved, Evidence, Establishes, MeetsRequirement
<1>5. CASE content \in {"empty", "unreadable"}
  BY <1>1, <1>5, MarkerContents DEF Failed, Evidence, Establishes, MeetsRequirement
<1>6. QED
  BY <1>2, <1>3, <1>4, <1>5

\* A selected .ruff_cache has both marker files and a cache file that is not empty.
LEMMA RuffIsSound ==
  ASSUME NEW d \in Directories("ruff_cache")
  PROVE  SelectionIsSound("ruff_cache", d, InspectRuffCache(d),
                          InterpretRuffCache(InspectRuffCache(d).observations))
<1> DEFINE detection == InspectRuffCache(d)
           i == InterpretRuffCache(detection.observations)
           files == VersionCacheFiles(d)
           failed == ~d.listed \/ files \cap {"weak", "unreadable"} # {}
           full == /\ "valid" \in Seen(d, "tag") /\ "valid" \in Seen(d, "gitignore")
                   /\ "valid" \in files
           generator == IF full THEN Observed("generator_indicator")
                        ELSE IF ~failed THEN WeaklyObserved("generator_indicator")
                        ELSE Failed("generator_indicator")
           others == {Readable(~failed), RuffLayout(d), Unknown("recreation_input_availability"),
                      generator}
           key == "ruff_cache_marker"
<1>1. SUFFICES ASSUME SelectCandidate(detection.node, i)
               PROVE  /\ IsDirectory(d) /\ Genuine("ruff_cache", d)
                      /\ detection.node.protection = i.protection
  BY DEF SelectionIsSound
<1>2. IsDirectory(d)
  BY <1>1, UninspectableIsRejected DEF InspectRuffCache, RuffUninspectable
<1>3. detection = Inspected(others \cup RuffMarkers(d))
  BY <1>2 DEF InspectRuffCache
<1>4. d.parts["tag"] \in RootMarker /\ d.parts["gitignore"] \in RootMarker
  <2>1. d.parts \in Parts("ruff_cache")
    BY DEF Directories
  <2>2. d.parts \in [tag : RootMarker, gitignore : RootMarker, versions : Versions,
                     files : SUBSET {"valid", "weak"}]
    BY <2>1, PartsOf, Zenon
  <2>3. QED
    BY <2>2
<1>5. /\ RuffLayout(d).key = "cache_layout"
      /\ Establishes(RuffLayout(d)) => "valid" \in d.parts["files"]
  BY OnlyFullObservations, KeyOfObservation DEF RuffLayout, VersionCacheFiles
<1>6. generator.key = "generator_indicator"
  BY KeyOfObservation
<1> HIDE DEF generator
<1>7. Readable(~failed).key = "metadata_readability"
  BY KeyOfObservation DEF Readable
<1> HIDE DEF failed
<1>8. \A item \in others :
        item = RuffLayout(d) \/ item.key \in {"metadata_readability", "generator_indicator",
                                              "recreation_input_availability"}
  BY <1>6, <1>7, KeyOfObservation
<1> HIDE DEF others
<1>9. \A item \in RuffMarkers(d) :
        /\ item.key = key
        /\ \/ ~Establishes(item)
           \/ item.value = "tag" /\ d.parts["tag"] = {"valid"}
           \/ item.value = "gitignore" /\ d.parts["gitignore"] = {"valid"}
  <2>1. RuffMarkers(d) \subseteq RuffMarkersOf(d, "tag") \cup RuffMarkersOf(d, "gitignore")
                                 \cup {ConfirmedAbsent(key), Failed(key)}
    BY DEF RuffMarkers, RuffMarkersOf
  <2>2. \A item \in RuffMarkersOf(d, "tag") :
          /\ item.key = key
          /\ ~Establishes(item) \/ (item.value = "tag" /\ d.parts["tag"] = {"valid"})
    BY <1>4, RuffMarkerIsValid
  <2>3. \A item \in RuffMarkersOf(d, "gitignore") :
          /\ item.key = key
          /\ ~Establishes(item) \/ (item.value = "gitignore" /\ d.parts["gitignore"] = {"valid"})
    BY <1>4, RuffMarkerIsValid
  <2>4. QED
    BY <2>1, <2>2, <2>3, OnlyFullObservations, KeyOfObservation
<1>10. Genuine("ruff_cache", d)
  <2>1. i.provenance
    BY <1>1, SelectedHasProvenance
  <2> DEFINE counted == {item \in About(detection.observations, key) :
                           item.polarity = "supports" /\ MeetsRequirement(item)}
  <2>2. /\ {item.value : item \in counted} = {"tag", "gitignore"}
        /\ PositiveEvidenceMeets(detection.observations, "cache_layout")
    BY <2>1, Zenon DEF InterpretRuffCache, Interpretation
  <2>3. PICK layout \in others \cup RuffMarkers(d) :
          layout.key = "cache_layout" /\ Establishes(layout)
    BY <2>2, <1>3, InspectedHasWitness
  <2>4. "valid" \in d.parts["files"]
    BY <2>3, <1>5, <1>8, <1>9
  <2>5. counted \subseteq RuffMarkers(d) /\ \A item \in counted : Establishes(item)
    <3>1. SUFFICES ASSUME NEW item \in counted
                   PROVE  item \in RuffMarkers(d) /\ Establishes(item)
      OBVIOUS
    <3>2. item \in detection.observations /\ item.key = key /\ Establishes(item)
      BY DEF About, Establishes
    <3>3. item \notin ContextUnknown
      BY <3>2, OnlyFullObservations DEF ContextUnknown
    <3>4. item \in others \cup RuffMarkers(d)
      BY <3>2, <3>3, <1>3, KeyOfObservation DEF Inspected
    <3>5. QED
      BY <3>2, <3>4, <1>5, <1>8
  <2>6. /\ \E item \in counted : item.value = "tag"
        /\ \E item \in counted : item.value = "gitignore"
    BY <2>2
  <2>7. d.parts["tag"] = {"valid"} /\ d.parts["gitignore"] = {"valid"}
    BY <2>5, <2>6, <1>9
  <2>8. QED
    BY <2>4, <2>7, GenuineSigns
<1>11. i.protection = "unknown"
  <2>1. i.protection = ProtectionFromEvidence(detection.observations)
    BY Zenon DEF InterpretRuffCache, Interpretation
  <2>2. QED
    BY <2>1, <1>3, <1>5, <1>8, <1>9, InspectedProtection
<1>12. QED
  BY <1>2, <1>3, <1>10, <1>11, InspectedNode

\* A selected .venv has a valid configuration and an interpreter that is not empty.
LEMMA VenvIsSound ==
  ASSUME NEW d
  PROVE  SelectionIsSound("python_venv", d, InspectPythonVenv(d),
                          InterpretPythonVenv(InspectPythonVenv(d).observations))
<1> DEFINE detection == InspectPythonVenv(d)
           i == InterpretPythonVenv(detection.observations)
           full == d.parts["cfg"] = {"valid"} /\ d.parts["interpreter"] = {"valid"}
           generator == IF full THEN Observed("generator_indicator")
                                ELSE WeaklyObserved("generator_indicator")
           made == {Readable(TRUE), PyvenvCfg(d), InterpreterLayout(d), ProjectMetadata(d),
                    Unknown("recreation_input_availability"), generator}
<1>1. SUFFICES ASSUME SelectCandidate(detection.node, i)
               PROVE  /\ IsDirectory(d) /\ Genuine("python_venv", d)
                      /\ detection.node.protection = i.protection
  BY DEF SelectionIsSound
<1>2. IsDirectory(d)
  BY <1>1, UninspectableIsRejected DEF InspectPythonVenv
<1>3. detection = Inspected(made)
  BY <1>2 DEF InspectPythonVenv
<1>4. \/ PyvenvCfg(d) = Observed("pyvenv_cfg_marker") /\ d.parts["cfg"] = {"valid"}
      \/ PyvenvCfg(d) \in {ConfirmedAbsent("pyvenv_cfg_marker"), Failed("pyvenv_cfg_marker")}
  <2>1. CASE d.parts["cfg"] = {}
    BY <2>1, Zenon DEF PyvenvCfg
  <2>2. CASE d.parts["cfg"] = {"valid"}
    BY <2>2, Zenon DEF PyvenvCfg
  <2>3. CASE d.parts["cfg"] \notin {{}, {"valid"}}
    BY <2>3, Zenon DEF PyvenvCfg
  <2>4. QED
    BY <2>1, <2>2, <2>3
<1>5. \/ InterpreterLayout(d) = Observed("interpreter_layout") /\ d.parts["interpreter"] = {"valid"}
      \/ InterpreterLayout(d) \in {ConfirmedAbsent("interpreter_layout"),
                                   WeaklyObserved("interpreter_layout"),
                                   Failed("interpreter_layout")}
  <2>1. CASE d.parts["interpreter"] = {}
    BY <2>1, Zenon DEF InterpreterLayout
  <2>2. CASE d.parts["interpreter"] = {"valid"}
    BY <2>2, Zenon DEF InterpreterLayout
  <2>3. CASE d.parts["interpreter"] = {"empty"}
    BY <2>3, Zenon DEF InterpreterLayout
  <2>4. CASE d.parts["interpreter"] \notin {{}, {"valid"}, {"empty"}}
    BY <2>4, Zenon DEF InterpreterLayout
  <2>5. QED
    BY <2>1, <2>2, <2>3, <2>4
<1>6. ProjectMetadata(d) \in {Observed("project_metadata"), Failed("project_metadata"),
                              Unknown("project_metadata")}
  <2>1. CASE d.parts["project"] = {"valid"}
    BY <2>1, Zenon DEF ProjectMetadata
  <2>2. CASE d.parts["project"] = {"unreadable"}
    BY <2>2, Zenon DEF ProjectMetadata
  <2>3. CASE d.parts["project"] \notin {{"valid"}, {"unreadable"}}
    BY <2>3, Zenon DEF ProjectMetadata
  <2>4. QED
    BY <2>1, <2>2, <2>3
<1>7. /\ PyvenvCfg(d).key = "pyvenv_cfg_marker"
      /\ InterpreterLayout(d).key = "interpreter_layout"
      /\ ProjectMetadata(d).key = "project_metadata"
  BY <1>4, <1>5, <1>6, KeyOfObservation
<1>8. \A item \in made :
        \/ item \in {PyvenvCfg(d), InterpreterLayout(d), ProjectMetadata(d)}
        \/ item.key \in {"metadata_readability", "generator_indicator",
                         "recreation_input_availability"}
  BY KeyOfObservation DEF Readable
<1> HIDE DEF made
<1>9. Genuine("python_venv", d)
  <2>1. i.provenance
    BY <1>1, SelectedHasProvenance
  <2>2. /\ PositiveEvidenceMeets(detection.observations, "pyvenv_cfg_marker")
        /\ PositiveEvidenceMeets(detection.observations, "interpreter_layout")
    BY <2>1, StructuralProvenance DEF InterpretPythonVenv
  <2>3. PICK item \in made : item.key = "pyvenv_cfg_marker" /\ Establishes(item)
    BY <2>2, <1>3, InspectedHasWitness
  <2>4. PICK item2 \in made : item2.key = "interpreter_layout" /\ Establishes(item2)
    BY <2>2, <1>3, InspectedHasWitness
  <2>5. item = PyvenvCfg(d) /\ item2 = InterpreterLayout(d)
    BY <2>3, <2>4, <1>7, <1>8
  <2>6. d.parts["cfg"] = {"valid"} /\ d.parts["interpreter"] = {"valid"}
    BY <2>3, <2>4, <2>5, <1>4, <1>5, OnlyFullObservations
  <2>7. QED
    BY <2>6, GenuineSigns
<1>10. i.protection = "unknown"
  BY <1>3, <1>7, <1>8, StructuralProtection, InspectedProtection DEF InterpretPythonVenv
<1>11. QED
  BY <1>2, <1>3, <1>9, <1>10, InspectedNode

\* What the manifest of a package reads like.
LEMMA JsonResults ==
  /\ ReadJson("valid") = "valid" /\ ReadJson("weak") = "weak"
  /\ ReadJson("corrupt") = "failed" /\ ReadJson("unreadable") = "failed"
  BY Zenon DEF ReadJson

\* The interpretation of the Node artifacts.
LEMMA NodeInterpretation ==
  ASSUME NEW obs
  PROVE  /\ InterpretNodeArtifact("node_modules", obs) =
              Structural(obs, {"directory_name", "package_manifest", "dependency_tree"})
         /\ InterpretNodeArtifact("next_build", obs) =
              Structural(obs, ArtifactKeys["next_build"])
         /\ \A a \in {"dist", "build"} :
              InterpretNodeArtifact(a, obs) =
                Structural(obs, {"directory_name", "build_output_marker", "build_configuration",
                                 "generator_indicator"})
<1>1. /\ InterpretationKeys("node_modules") = {"directory_name", "package_manifest",
                                               "dependency_tree"}
      /\ InterpretationKeys("next_build") = ArtifactKeys["next_build"]
  BY Zenon DEF InterpretationKeys
<1>2. \A a \in {"dist", "build"} :
        InterpretationKeys(a) = {"directory_name", "build_output_marker", "build_configuration",
                                 "generator_indicator"}
  <2>1. SUFFICES ASSUME NEW a \in {"dist", "build"}
                 PROVE  InterpretationKeys(a) =
                          {"directory_name", "build_output_marker", "build_configuration",
                           "generator_indicator"}
    OBVIOUS
  <2>2. a # "node_modules" /\ a # "next_build"
    OBVIOUS
  <2>3. QED
    BY <2>2, Zenon DEF InterpretationKeys
<1>3. QED
  BY <1>1, <1>2 DEF InterpretNodeArtifact

\* A selected node_modules holds a package with a valid manifest, and no link among them.
LEMMA NodeModulesIsSound ==
  ASSUME NEW d \in Directories("node_modules")
  PROVE  SelectionIsSound("node_modules", d, InspectNodeModules(d),
           InterpretNodeArtifact("node_modules", InspectNodeModules(d).observations))
<1> DEFINE detection == InspectNodeModules(d)
           i == InterpretNodeArtifact("node_modules", detection.observations)
           tree == PackageTree(d)
           dirs == PackageDirs(d)
           results == {ReadJson(package) : package \in dirs.packages}
           failed == dirs.failed \/ "failed" \in results
           manifest == IF "valid" \in results THEN Observed("package_manifest")
                       ELSE IF "failed" \in results THEN Failed("package_manifest")
                       ELSE ConfirmedAbsent("package_manifest")
           structure == IF "valid" \in results /\ ~dirs.failed THEN Observed("dependency_tree")
                        ELSE IF failed THEN Failed("dependency_tree")
                        ELSE IF dirs.hadDirectory THEN WeaklyObserved("dependency_tree")
                        ELSE ConfirmedAbsent("dependency_tree")
           generator == IF tree.failed THEN Failed("generator_indicator")
                        ELSE IF tree.valid THEN Observed("generator_indicator")
                        ELSE WeaklyObserved("generator_indicator")
           made == {Readable(TRUE), tree.manifest, tree.tree, PackageManager(d),
                    Unknown("recreation_input_availability"), generator}
<1>1. SUFFICES ASSUME SelectCandidate(detection.node, i)
               PROVE  /\ IsDirectory(d) /\ Genuine("node_modules", d)
                      /\ detection.node.protection = i.protection
  BY DEF SelectionIsSound
<1>2. IsDirectory(d)
  BY <1>1, UninspectableIsRejected DEF InspectNodeModules
<1>3. detection = Inspected(made)
  BY <1>2 DEF InspectNodeModules
<1>4. tree.manifest = manifest /\ tree.tree = structure
  BY DEF PackageTree
<1> HIDE DEF tree
<1>5. "valid" \in results => "valid" \in Seen(d, "packages")
  <2>1. d.parts \in Parts("node_modules")
    BY DEF Directories
  <2>2. d.parts \in [packages : SUBSET {"valid", "weak", "corrupt", "link", "scope", "unreadable"},
                     manager : AtMostOne({"valid", "corrupt", "unreadable"})]
    BY <2>1, PartsOf, Zenon
  <2>3. Seen(d, "packages") \subseteq {"valid", "weak", "corrupt", "link", "scope", "unreadable"}
    BY <2>2, SeenIsPart
  <2>4. dirs.packages = Seen(d, "packages") \ {"link", "scope"}
    BY DEF PackageDirs
  <2>5. QED
    BY <2>3, <2>4, JsonResults
<1>6. ~dirs.failed => d.listed /\ "link" \notin Seen(d, "packages")
  BY DEF PackageDirs
<1> HIDE DEF dirs, results
<1>7. /\ manifest.key = "package_manifest"
      /\ structure.key = "dependency_tree"
      /\ Establishes(structure) => "valid" \in results /\ ~dirs.failed
  BY OnlyFullObservations, KeyOfObservation
<1> HIDE DEF manifest, structure
<1>8. generator.key = "generator_indicator"
  BY KeyOfObservation
<1> HIDE DEF generator
<1>9. PackageManager(d).key = "package_manager_indicator"
  BY KeyOfObservation DEF PackageManager
<1>10. \A item \in made :
         \/ item = structure
         \/ item.key \in {"package_manifest", "package_manager_indicator", "metadata_readability",
                          "generator_indicator", "recreation_input_availability"}
  BY <1>4, <1>7, <1>8, <1>9, KeyOfObservation DEF Readable
<1> HIDE DEF made
<1>11. Genuine("node_modules", d)
  <2>1. i.provenance
    BY <1>1, SelectedHasProvenance
  <2>2. PositiveEvidenceMeets(detection.observations, "dependency_tree")
    BY <2>1, StructuralProvenance, NodeInterpretation
  <2>3. PICK item \in made : item.key = "dependency_tree" /\ Establishes(item)
    BY <2>2, <1>3, InspectedHasWitness
  <2>4. "valid" \in Seen(d, "packages") /\ d.listed /\ "link" \notin Seen(d, "packages")
    BY <2>3, <1>5, <1>6, <1>7, <1>10
  <2>5. QED
    BY <2>4, SeenIsPart, GenuineSigns
<1>12. i.protection = "unknown"
  BY <1>3, <1>7, <1>10, StructuralProtection, InspectedProtection, NodeInterpretation
<1>13. QED
  BY <1>2, <1>3, <1>11, <1>12, InspectedNode

\* The output of a build, and evidence of a file of JSON.
LEMMA BuildOutputs ==
  ASSUME NEW d
  PROVE  /\ BuildOutput(d).key = "build_output_marker"
         /\ Establishes(BuildOutput(d)) => d.parts["output"] = {"valid"}
<1>1. Seen(d, "output") = {"valid"} => d.parts["output"] = {"valid"}
  BY SeenIsPart
<1>2. QED
  BY <1>1, OnlyFullObservations, KeyOfObservation DEF BuildOutput

\* The same for the configuration.
LEMMA Configurations ==
  ASSUME NEW contents \in Json, NEW key
  PROVE  /\ Configuration(contents, key).key = key
         /\ Establishes(Configuration(contents, key)) => contents = {"valid"}
<1>1. CASE contents = {}
  <2>1. Configuration(contents, key) = ConfirmedAbsent(key)
    BY <1>1, Zenon DEF Configuration
  <2>2. QED
    BY <2>1, OnlyFullObservations, KeyOfObservation
<1>2. CASE contents # {}
  <2>1. PICK content \in {"valid", "weak", "corrupt", "unreadable"} : contents = {content}
    BY <1>2 DEF Json, AtMostOne
  <2>2. (CHOOSE c \in contents : TRUE) = content
    BY <2>1
  <2>3. CASE content = "valid"
    <3>1. Configuration(contents, key) = Observed(key)
      BY <1>2, <2>2, <2>3, JsonResults, Zenon DEF Configuration
    <3>2. QED
      BY <2>1, <2>3, <3>1, KeyOfObservation
  <2>4. CASE content = "weak"
    <3>1. Configuration(contents, key) = WeaklyObserved(key)
      BY <1>2, <2>2, <2>4, JsonResults, Zenon DEF Configuration
    <3>2. QED
      BY <3>1, OnlyFullObservations, KeyOfObservation
  <2>5. CASE content \in {"corrupt", "unreadable"}
    <3>1. Configuration(contents, key) = Failed(key)
      <4>1. ReadJson(content) = "failed"
        BY <2>5, JsonResults
      <4>2. QED
        BY <1>2, <2>2, <4>1, Zenon DEF Configuration
    <3>2. QED
      BY <3>1, OnlyFullObservations, KeyOfObservation
  <2>6. QED
    BY <2>3, <2>4, <2>5
<1>3. QED
  BY <1>1, <1>2

\* A dist or build directory, which any tool may write, is never selected.
LEMMA BuildIsSound ==
  ASSUME NEW a \in {"dist", "build"}, NEW d \in Directories(a)
  PROVE  SelectionIsSound(a, d, BuildDetection(a, d),
                          InterpretNodeArtifact(a, BuildDetection(a, d).observations))
<1> DEFINE detection == BuildDetection(a, d)
           i == InterpretNodeArtifact(a, detection.observations)
           output == BuildOutput(d)
           config == BuildConfiguration(d)
           failed == "failed" \in {output.status, config.status}
           key == "generator_indicator"
           generator == IF failed THEN Failed(key) ELSE WeaklyObserved(key)
           made == {Readable(~failed), output, config, Unknown("recreation_input_availability"),
                    Unknown("source_input"), generator}
<1>1. SUFFICES ASSUME SelectCandidate(detection.node, i)
               PROVE  FALSE
  BY DEF SelectionIsSound
<1>2. IsDirectory(d)
  BY <1>1, UninspectableIsRejected DEF BuildDetection
<1>3. detection = Inspected(made)
  BY <1>2 DEF BuildDetection
<1>4. ~Establishes(generator)
  BY OnlyFullObservations
<1> HIDE DEF generator, failed
<1>5. output.key = "build_output_marker"
  BY BuildOutputs
<1>6. config.key = "build_configuration"
  <2>1. a \notin {"pycache", "pytest_cache", "mypy_cache", "ruff_cache", "python_venv",
                  "node_modules", "next_build"}
    OBVIOUS
  <2>2. Parts(a) = [output : Output, config : Json]
    BY <2>1, Zenon DEF Parts
  <2>3. d.parts \in Parts(a)
    BY DEF Directories
  <2>4. d.parts["config"] \in Json
    BY <2>2, <2>3
  <2>5. QED
    BY <2>4, Configurations, KeyOfObservation DEF BuildConfiguration
<1>7. \A item \in made : item.key # key \/ item = generator
  BY <1>5, <1>6, KeyOfObservation DEF Readable
<1> HIDE DEF made
<1>8. PositiveEvidenceMeets(detection.observations, key)
  <2>1. i.provenance
    BY <1>1, SelectedHasProvenance
  <2>2. QED
    BY <2>1, StructuralProvenance, NodeInterpretation
<1>9. PICK item \in made : item.key = key /\ Establishes(item)
  BY <1>3, <1>8, InspectedHasWitness
<1>10. QED
  BY <1>4, <1>7, <1>9

\* A selected .next has its identifier, its output and its configuration, all of them valid.
LEMMA NextIsSound ==
  ASSUME NEW d \in Directories("next_build")
  PROVE  SelectionIsSound("next_build", d, InspectNextBuild(d),
           InterpretNodeArtifact("next_build", InspectNextBuild(d).observations))
<1> DEFINE detection == InspectNextBuild(d)
           i == InterpretNodeArtifact("next_build", detection.observations)
           found == {NextMetadata(d), BuildOutput(d), NextConfiguration(d)}
           failed == \E item \in found : item.status = "failed"
           key == "generator_indicator"
           generator ==
             IF \A item \in found : item.confidence = "high" /\ item.polarity = "supports"
             THEN Observed(key) ELSE IF ~failed THEN WeaklyObserved(key) ELSE Failed(key)
           others == {Readable(~failed), Unknown("recreation_input_availability"), generator}
<1>1. SUFFICES ASSUME SelectCandidate(detection.node, i)
               PROVE  /\ IsDirectory(d) /\ Genuine("next_build", d)
                      /\ detection.node.protection = i.protection
  BY DEF SelectionIsSound
<1>2. IsDirectory(d)
  BY <1>1, UninspectableIsRejected DEF InspectNextBuild
<1>3. detection = Inspected(found \cup others)
  BY <1>2 DEF InspectNextBuild
<1>4. \A item \in others : item.key \in {"metadata_readability", "recreation_input_availability",
                                         "generator_indicator"}
  BY KeyOfObservation DEF Readable
<1> HIDE DEF others
<1>5. d.parts["config"] \in Json /\ DOMAIN d.parts = {"build_id", "output", "config"}
  <2>1. d.parts \in Parts("next_build")
    BY DEF Directories
  <2>2. d.parts \in [build_id : OneFile, output : Output, config : Json]
    BY <2>1, PartsOf, Zenon
  <2>3. QED
    BY <2>2
<1>6. /\ NextMetadata(d).key = "next_metadata_marker"
      /\ Establishes(NextMetadata(d)) => d.parts["build_id"] = {"valid"}
  BY OnlyFullObservations, KeyOfObservation DEF NextMetadata
<1>7. /\ NextConfiguration(d).key = "project_configuration"
      /\ Establishes(NextConfiguration(d)) => d.parts["config"] = {"valid"}
  BY <1>5, Configurations DEF NextConfiguration
<1>8. i.provenance
  BY <1>1, SelectedHasProvenance
<1>9. \A item \in found : Establishes(item)
  <2>1. \A k \in ArtifactKeys["next_build"] : PositiveEvidenceMeets(detection.observations, k)
    BY <1>8, StructuralProvenance, NodeInterpretation
  <2>2. SUFFICES ASSUME NEW k \in {"next_metadata_marker", "build_output_marker",
                                   "project_configuration"}
                 PROVE  \E item \in found : item.key = k /\ Establishes(item)
    BY <1>6, <1>7, BuildOutputs
  <2>3. PositiveEvidenceMeets(detection.observations, k)
    BY <2>1, <2>2 DEF ArtifactKeys
  <2>4. \E item \in found \cup others : item.key = k /\ Establishes(item)
    BY <2>2, <2>3, <1>3, InspectedHasWitness
  <2>5. QED
    BY <2>2, <2>4, <1>4
<1>10. Genuine("next_build", d)
  BY <1>5, <1>6, <1>7, <1>9, BuildOutputs, GenuineSigns
<1>11. i.protection = "unknown"
  BY <1>3, <1>4, <1>6, <1>7, BuildOutputs, StructuralProtection, InspectedProtection,
     NodeInterpretation
<1>12. QED
  BY <1>2, <1>3, <1>10, <1>11, InspectedNode

\* The evidence of a storage location always asserts that it is ordinary.
LEMMA StorageProtection ==
  ASSUME NEW d
  PROVE  ProtectionFromEvidence(InspectGlobalStorage(d).observations) = "ordinary"
<1> DEFINE all == InspectGlobalStorage(d).observations
           key == "protection_indicator"
           ordinary == ObservedAs(key, "ordinary")
           valid == d.object = "directory" /\ LayoutIsValid(d)
           layout == {IF valid THEN Observed(k) ELSE Failed(k) :
                        k \in {"global_storage_marker", "global_storage_structure"}}
           lost == IF d.object = "inaccessible" THEN {Failed("metadata_readability")} ELSE {}
           made == {Observed("path_object"), Observed("metadata_readability"),
                    Observed("global_storage_path"), Observed("generator_indicator"),
                    ordinary, NotObserved("recreation_input_availability")}
<1>1. all = made \cup lost \cup layout \cup ContextUnknown
  BY Zenon DEF InspectGlobalStorage
<1> HIDE DEF valid
<1>2. /\ \A item \in layout : item.key # key
      /\ \A item \in lost : item.key # key
  BY KeyOfObservation
<1> HIDE DEF layout, lost, all
<1>3. About(all, key) = {ordinary, Unknown(key)}
  <2>1. ordinary.key = key /\ Unknown(key).key = key
    BY KeyOfObservation
  <2>2. ordinary \in made /\ \A item \in made : item.key = key => item = ordinary
    BY KeyOfObservation
  <2>3. /\ Unknown(key) \in ContextUnknown
        /\ \A item \in ContextUnknown : item.key = key => item = Unknown(key)
    BY KeyOfObservation DEF ContextUnknown
  <2> HIDE DEF made, ordinary
  <2>4. QED
    BY <1>1, <1>2, <2>1, <2>2, <2>3 DEF About
<1>4. /\ ordinary.polarity = "supports" /\ ordinary.value = "ordinary" /\ ~IsUncertain(ordinary)
      /\ Unknown(key).polarity = "unknown"
  BY DEF ObservedAs, Unknown, Evidence, IsUncertain, IsObservationFailure
<1> HIDE DEF ordinary
<1>5. ~KeyConflicts(all, key)
  BY <1>3, <1>4 DEF KeyConflicts
<1>6. {class \in ProtectionClasses : Asserted(all, key, class)} = {"ordinary"}
  BY <1>3, <1>4 DEF Asserted, ProtectionClasses
<1>7. ProtectionFromEvidence(all) =
        IF {"ordinary"} = {} THEN "unknown" ELSE CHOOSE class \in {"ordinary"} : TRUE
  BY <1>5, <1>6, Zenon DEF ProtectionFromEvidence
<1>8. QED
  BY <1>7 DEF all

\* A selected storage location has the layout of its tool and no link among its entries; the
\* observer, which tells the node it is ordinary only then, agrees with its own evidence.
LEMMA StorageIsSound ==
  ASSUME NEW a \in StorageArtifacts, NEW d
  PROVE  SelectionIsSound(a, d, InspectGlobalStorage(d),
                          InterpretGlobalStorage(InspectGlobalStorage(d).observations))
<1> DEFINE detection == InspectGlobalStorage(d)
           i == InterpretGlobalStorage(detection.observations)
           key == "global_storage_marker"
           valid == d.object = "directory" /\ LayoutIsValid(d)
<1>1. SUFFICES ASSUME SelectCandidate(detection.node, i)
               PROVE  /\ IsDirectory(d) /\ Genuine(a, d)
                      /\ detection.node.protection = i.protection
  BY DEF SelectionIsSound
<1>2. valid
  <2>1. SUFFICES ASSUME ~valid PROVE FALSE
    OBVIOUS
  <2>2. Failed(key) \in {IF valid THEN Observed(k) ELSE Failed(k) :
                           k \in {"global_storage_marker", "global_storage_structure"}}
    BY <2>1
  <2>3. Failed(key) \in detection.observations
    BY <2>2, Zenon DEF InspectGlobalStorage
  <2>4. KeyHasUncertainty(detection.observations, key)
    BY <2>3, FailureIsUncertain, KeyOfObservation DEF KeyHasUncertainty, About
  <2>5. Structural(detection.observations, StorageKeys).provenance
    <3>1. i.provenance
      BY <1>1, SelectedHasProvenance
    <3>2. QED
      BY <3>1, Zenon DEF InterpretGlobalStorage, Structural, Interpretation
  <2>6. QED
    BY <2>4, <2>5, StructuralProvenance DEF StorageKeys
<1>3. IsDirectory(d)
  BY <1>2 DEF IsDirectory, ObservedNodeKind
<1>4. Genuine(a, d)
  BY <1>2, GenuineStorage DEF LayoutIsValid
<1>5. detection.node.protection = "ordinary"
  BY <1>2, Zenon DEF InspectGlobalStorage
<1>6. i.protection = "ordinary"
  <2>1. i.protection = ProtectionFromEvidence(detection.observations)
    BY Zenon DEF InterpretGlobalStorage, Structural, Interpretation
  <2>2. QED
    BY <2>1, StorageProtection
<1>7. QED
  BY <1>3, <1>4, <1>5, <1>6

\* Whatever is at a path: a candidate that an analysis selects is a directory with genuine signs
\* of its tool, and the policy does not refuse it.
LEMMA SelectionSound ==
  ASSUME NEW a \in ArtifactKinds, NEW d \in Directories(a)
  PROVE  SelectionIsSound(a, d, Detection(a, d), Interpret(a, Detection(a, d).observations))
<1>1. a \in {"pycache", "pytest_cache", "mypy_cache", "ruff_cache", "python_venv",
             "node_modules", "dist", "build", "next_build"} \cup StorageArtifacts
  BY DEF ArtifactKinds, ArtifactKeys, StorageArtifacts
<1>2. CASE a = "pycache"
  <2>1. /\ Detection(a, d) = InspectPycache(d)
        /\ \A obs : Interpret(a, obs) = InterpretPycache(obs)
    BY <1>2, Zenon DEF Detection, Interpret, StorageArtifacts
  <2>2. QED
    BY <1>2, <2>1, PycacheIsSound
<1>3. CASE a = "pytest_cache"
  BY <1>3, PytestDetection, PytestIsSound
<1>4. CASE a = "mypy_cache"
  <2>1. /\ Detection(a, d) = InspectMypyCache(d)
        /\ \A obs : Interpret(a, obs) = InterpretMypyCache(obs)
    BY <1>4, Zenon DEF Detection, Interpret, StorageArtifacts
  <2>2. QED
    BY <1>4, <2>1, MypyIsSound
<1>5. CASE a = "ruff_cache"
  <2>1. /\ Detection(a, d) = InspectRuffCache(d)
        /\ \A obs : Interpret(a, obs) = InterpretRuffCache(obs)
    BY <1>5, Zenon DEF Detection, Interpret, StorageArtifacts
  <2>2. QED
    BY <1>5, <2>1, RuffIsSound
<1>6. CASE a = "python_venv"
  <2>1. /\ Detection(a, d) = InspectPythonVenv(d)
        /\ \A obs : Interpret(a, obs) = InterpretPythonVenv(obs)
    BY <1>6, Zenon DEF Detection, Interpret, StorageArtifacts
  <2>2. QED
    BY <1>6, <2>1, VenvIsSound
<1>7. CASE a = "node_modules"
  <2>1. /\ Detection(a, d) = InspectNodeModules(d)
        /\ \A obs : Interpret(a, obs) = InterpretNodeArtifact(a, obs)
    BY <1>7, Zenon DEF Detection, Interpret, StorageArtifacts
  <2>2. QED
    BY <1>7, <2>1, NodeModulesIsSound
<1>8. CASE a \in {"dist", "build"}
  <2>1. a \notin {"pycache", "pytest_cache", "mypy_cache", "ruff_cache", "python_venv",
                  "node_modules", "next_build"} \cup StorageArtifacts
    BY <1>8 DEF StorageArtifacts
  <2>2. /\ Detection(a, d) = BuildDetection(a, d)
        /\ \A obs : Interpret(a, obs) = InterpretNodeArtifact(a, obs)
    BY <1>8, <2>1, Zenon DEF Detection, Interpret
  <2>3. QED
    BY <1>8, <2>2, BuildIsSound
<1>9. CASE a = "next_build"
  <2>1. /\ Detection(a, d) = InspectNextBuild(d)
        /\ \A obs : Interpret(a, obs) = InterpretNodeArtifact(a, obs)
    BY <1>9, Zenon DEF Detection, Interpret, StorageArtifacts
  <2>2. QED
    BY <1>9, <2>1, NextIsSound
<1>10. CASE a \in StorageArtifacts
  <2>1. a \notin {"pycache", "pytest_cache", "mypy_cache", "ruff_cache", "python_venv",
                  "node_modules", "dist", "build", "next_build"}
    BY <1>10 DEF StorageArtifacts
  <2>2. /\ Detection(a, d) = InspectGlobalStorage(d)
        /\ \A obs : Interpret(a, obs) = InterpretGlobalStorage(obs)
    BY <1>10, <2>1, Zenon DEF Detection, Interpret
  <2>3. QED
    BY <1>10, <2>2, StorageIsSound
<1>11. QED
  BY <1>1, <1>2, <1>3, <1>4, <1>5, <1>6, <1>7, <1>8, <1>9, <1>10

\* The same for the finding.
LEMMA FindingIsSound ==
  ASSUME NEW a \in ArtifactKinds, NEW d \in Directories(a)
  PROVE  /\ ~AnalyzeCandidate(a, d).raises
         /\ AnalyzeCandidate(a, d).selected => IsDirectory(d) /\ Genuine(a, d)
<1> DEFINE detection == Detection(a, d)
           i == Interpret(a, detection.observations)
           selected == SelectCandidate(detection.node, i)
<1>1. /\ AnalyzeCandidate(a, d).selected => selected
      /\ AnalyzeCandidate(a, d).raises => selected /\ ~PolicyAccepts(detection.node, i)
  BY Zenon DEF AnalyzeCandidate, EvaluateAnalysis
<1>2. selected => /\ IsDirectory(d) /\ Genuine(a, d)
                  /\ PolicyAccepts(detection.node, i)
  BY SelectionSound DEF SelectionIsSound, PolicyAccepts
<1>3. QED
  BY <1>1, <1>2, Zenon

-----------------------------------------------------------------------------
(* The analyses and the losses. *)

\* The last finding is about the directory as it is unless it changed since; it changes by a
\* loss only, and what was lost stays lost, so a directory that can be read in full is the one
\* every finding so far was about.  No finding was refused by the policy.
AnalysisInv ==
  /\ artifact \in ArtifactKinds
  /\ dir \in Directories(artifact)
  /\ current => finding = AnalyzeCandidate(artifact, dir)
  /\ EverythingRead(dir) /\ finding.eligibility # "none" =>
       finding = AnalyzeCandidate(artifact, dir)
  /\ ~finding.raises

\* The fields of a directory.
LEMMA DirectoryFields ==
  ASSUME NEW a, NEW object \in Objects(a), NEW listed \in BOOLEAN, NEW parts \in Parts(a),
         NEW disposable \in IF a = "pytest_cache" THEN BOOLEAN ELSE {FALSE}
  PROVE  [object |-> object, listed |-> listed, parts |-> parts, disposable |-> disposable]
           \in Directories(a)
  BY DEF Directories

\* A loss leaves one of the directories considered, and one that cannot be read in full.
LEMMA LossIsSeen ==
  ASSUME AnalysisInv, EntryIsLost \/ ListingIsLost \/ ObjectIsLost
  PROVE  dir' \in Directories(artifact) /\ ~EverythingRead(dir)'
<1>1. dir = [object |-> dir.object, listed |-> dir.listed, parts |-> dir.parts,
             disposable |-> dir.disposable]
  BY DEF AnalysisInv, Directories
<1>2. CASE EntryIsLost
  <2>1. PICK part \in DOMAIN dir.parts : \E entry \in dir.parts[part] :
         \E kept \in SUBSET {entry} :
           dir' = [dir EXCEPT !.parts[part] = (@ \ {entry}) \cup kept \cup {"unreadable"}]
    BY <1>2 DEF EntryIsLost
  <2>2. PICK entry \in dir.parts[part] : \E kept \in SUBSET {entry} :
          dir' = [dir EXCEPT !.parts[part] = (@ \ {entry}) \cup kept \cup {"unreadable"}]
    BY <2>1
  <2>3. PICK kept \in SUBSET {entry} :
          dir' = [dir EXCEPT !.parts[part] = (@ \ {entry}) \cup kept \cup {"unreadable"}]
    BY <2>2
  <2>4. /\ dir'.parts = [dir.parts EXCEPT ![part] = (@ \ {entry}) \cup kept \cup {"unreadable"}]
        /\ dir'.object = dir.object /\ dir'.listed = dir.listed
        /\ dir'.disposable = dir.disposable
        /\ DOMAIN dir' = DOMAIN dir
    BY <2>3, <1>1
  <2>5. part \in DOMAIN dir'.parts /\ "unreadable" \in dir'.parts[part]
    BY <2>4
  <2>6. dir' = [object |-> dir.object, listed |-> dir.listed, parts |-> dir'.parts,
                disposable |-> dir.disposable]
    BY <2>3, <1>1
  <2>7. dir'.parts \in Parts(artifact)
    BY <1>2 DEF EntryIsLost
  <2>8. dir' \in Directories(artifact)
    <3>1. /\ dir.object \in Objects(artifact) /\ dir.listed \in BOOLEAN
          /\ dir.disposable \in IF artifact = "pytest_cache" THEN BOOLEAN ELSE {FALSE}
      BY DEF AnalysisInv, Directories
    <3>2. QED
      BY <2>6, <2>7, <3>1, DirectoryFields
  <2>9. QED
    BY <2>5, <2>8 DEF EverythingRead
<1>3. CASE ListingIsLost
  BY <1>1, <1>3 DEF ListingIsLost, AnalysisInv, Directories, EverythingRead
<1>4. CASE ObjectIsLost
  BY <1>1, <1>4 DEF ObjectIsLost, AnalysisInv, Directories, Objects, EverythingRead, IsDirectory,
                    ObservedNodeKind
<1>5. QED
  BY <1>2, <1>3, <1>4

\* The invariant holds at first.
LEMMA AnalysisInvInit ==
  Init => AnalysisInv
  BY ArtifactsAssumption DEF Init, AnalysisInv, NoFinding

\* Every step keeps the invariant.
LEMMA AnalysisInvStep ==
  AnalysisInv /\ [Next]_vars => AnalysisInv'
<1> SUFFICES ASSUME AnalysisInv, [Next]_vars PROVE AnalysisInv'
  OBVIOUS
<1>1. CASE Analyse
  <2>1. ~AnalyzeCandidate(artifact, dir).raises
    BY FindingIsSound DEF AnalysisInv
  <2>2. QED
    BY <1>1, <2>1 DEF Analyse, AnalysisInv
<1>2. CASE EntryIsLost \/ ListingIsLost \/ ObjectIsLost
  <2>1. dir' \in Directories(artifact) /\ ~EverythingRead(dir)'
    BY <1>2, LossIsSeen
  <2>2. artifact' = artifact /\ current' = FALSE /\ finding' = finding
    BY <1>2 DEF EntryIsLost, ListingIsLost, ObjectIsLost
  <2>3. QED
    BY <2>1, <2>2 DEF AnalysisInv
<1>3. CASE UNCHANGED vars
  BY <1>3 DEF vars, AnalysisInv
<1>4. QED
  BY <1>1, <1>2, <1>3 DEF Next

\* The invariant holds always.
LEMMA AnalysisInvariant ==
  Spec => []AnalysisInv
  BY AnalysisInvInit, AnalysisInvStep, PTL DEF Spec

\* In every execution, a current finding that offers a directory for a cleanup is about a
\* pytest cache in a disposable root that was read in full and bears a genuine marker.
THEOREM EligibleDisposable ==
  Spec => []EligibleIsDisposable
<1>1. AnalysisInv => EligibleIsDisposable
  <2> SUFFICES ASSUME AnalysisInv, current, Eligible
               PROVE  /\ artifact = "pytest_cache" /\ dir.disposable
                      /\ EverythingRead(dir)
                      /\ "valid" \in dir.parts["tag"] \cup dir.parts["readme"]
    BY DEF EligibleIsDisposable
  <2>1. AnalyzeCandidate(artifact, dir).eligibility = "eligible_for_explicit_action"
    BY DEF AnalysisInv, Eligible
  <2>2. QED
    BY <2>1, EligibleIsRead DEF AnalysisInv
<1>2. QED
  BY <1>1, AnalysisInvariant, PTL

\* In every execution, losing the access to parts of a directory never turns a finding that
\* asks for a review, or is blocked, into one that offers the directory for a cleanup.
THEOREM LostReadDemotes ==
  Spec => LostReadNeverEligible
<1> DEFINE Demotes == finding.eligibility \in {"requires_review", "blocked"}
                        => finding'.eligibility # "eligible_for_explicit_action"
<1>1. AnalysisInv /\ [Next]_vars => [Demotes]_vars
  <2> SUFFICES ASSUME AnalysisInv, Next, finding.eligibility \in {"requires_review", "blocked"},
                      finding'.eligibility = "eligible_for_explicit_action"
               PROVE  FALSE
    OBVIOUS
  <2>1. CASE Analyse
    <3>1. finding' = AnalyzeCandidate(artifact, dir)
      BY <2>1 DEF Analyse
    <3>2. EverythingRead(dir)
      BY <3>1, EligibleIsRead DEF AnalysisInv
    <3>3. finding = AnalyzeCandidate(artifact, dir)
      BY <3>2 DEF AnalysisInv
    <3>4. QED
      BY <3>1, <3>3
  <2>2. CASE EntryIsLost \/ ListingIsLost \/ ObjectIsLost
    BY <2>2 DEF EntryIsLost, ListingIsLost, ObjectIsLost
  <2>3. QED
    BY <2>1, <2>2 DEF Next
<1>2. QED
  BY <1>1, AnalysisInvariant, PTL DEF Spec, LostReadNeverEligible

\* In every execution, the policy never refuses a candidate that the pipeline selected for a
\* disagreement on its protection, so its ValueError never ends a scan.
THEOREM PolicyNeverRefuses ==
  Spec => []NeverRaises
<1>1. AnalysisInv => NeverRaises
  BY DEF AnalysisInv, NeverRaises
<1>2. QED
  BY <1>1, AnalysisInvariant, PTL

\* In every execution, a directory that a current finding selects as a candidate holds, readable,
\* what the tool it is named after leaves there.
THEOREM SelectedGenuine ==
  Spec => []SelectedIsGenuine
<1>1. AnalysisInv => SelectedIsGenuine
  <2> SUFFICES ASSUME AnalysisInv, current, finding.selected
               PROVE  IsDirectory(dir) /\ Genuine(artifact, dir)
    BY DEF SelectedIsGenuine
  <2>1. AnalyzeCandidate(artifact, dir).selected
    BY DEF AnalysisInv
  <2>2. QED
    BY <2>1, FindingIsSound DEF AnalysisInv
<1>2. QED
  BY <1>1, AnalysisInvariant, PTL
===============================================================================
