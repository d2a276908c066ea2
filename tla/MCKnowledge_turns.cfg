SPECIFICATION KnowledgeSpec
CONSTANTS
    d1 = d1
    d2 = d2
    a1 = a1
    a2 = a2
    y1 = y1
    p1 = p1
    p2 = p2
    unset = unset
    none = none
    Records <- MCRecords
    Info <- MCInfo
    Versions = {0, 1}
    Fields <- MCFields
    Unset = unset
    PackEnvs <- MCPackEnvs
    RunEnvs <- MCRunEnvs
    Pins <- MCPins
    Preloaded = {"docs", "api"}
    Places = {p1, p2}
    NoPack = none
    Services <- MCServices
    PreCode <- MCPreCode
    Failures <- MCFailures
    Surroundings <- MCSurroundings
    Damaged = {a1}
    MaxCandidates = 3
    MaxItems = 2
    KnowledgeBytes = 90
    ContextBytes = 150
    MaxTurns = 2
    MaxWrites = 2
INVARIANTS KnowledgeIsOfThePack FailureKnowledgeIsUndisturbed TracedBeforeSent
