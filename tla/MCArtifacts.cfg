SPECIFICATION Spec
CONSTANTS
    a1 = a1
    a2 = a2
    t1 = t1
    t2 = t2
    k1 = k1
    k2 = k2
    Artifacts <- MCArtifacts
    NoArtifact = NoArtifact
    Tools <- MCTools
    Completions <- MCCompletions
    MaxOutputs = 2
    MaxPuts = 2
SYMMETRY MCSymmetry
INVARIANTS
    TypeOK
    PublishedIsWhole
    LeftoverNeedsAFault
    WorksOnWhatWasPublished
CHECK_DEADLOCK FALSE
