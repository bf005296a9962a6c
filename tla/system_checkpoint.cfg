CONSTANTS
    Artifacts = {d1, d2}
    None = None
    Torn = Torn
    MaxVersion = 2
SYMMETRY ArtifactSymmetry
SPECIFICATION Spec
INVARIANTS CheckpointTypeOK CheckpointVerifies RollbackCopySurvives FailedRestoreIsUndone PublicationKeepsReplaced
