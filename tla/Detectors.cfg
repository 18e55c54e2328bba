SPECIFICATION Spec
CONSTANT Artifacts <- MCArtifacts
INVARIANTS EligibleIsDisposable NeverRaises SelectedIsGenuine
PROPERTIES LostReadNeverEligible
