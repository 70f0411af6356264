SPECIFICATION FairSpec
CONSTANTS
    a1 = a1
    a2 = a2
    sql = sql
    pdf = pdf
    Agents = {a1, a2}
    Tools = {sql, pdf}
    Granted <- MCGranted
    VisionTools = {pdf}
    Stranger = Stranger
    NoAgent = NoAgent
    MaxSteps = 2
    MaxRounds = 2
    MaxToolCalls = 2
    MaxFanOut = 2
    MaxArtifacts = 1
    MaxPages = 1
    MaxLost = 1
INVARIANTS
    TypeOK
    ToolBudget
    TranscriptAnswered
    ArtifactsAnnounced
    OneAgentOnStage
    ModelCallsBounded
    UnbilledBounded
PROPERTY
    TurnEnds
CHECK_DEADLOCK FALSE
