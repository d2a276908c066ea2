SPECIFICATION Spec
CONSTANTS
    MaxSteps = 8
    MaxTools = 5
    MaxBuilds = 4
    FocusedStep = 1
    ActionOnlyStep = 2
    StallStep = 3
    BatchBound = 2
    HasPrebuild = TRUE
    HasFunctional = TRUE
    Paths <- MCPaths
    SourcePaths <- MCSourcePaths
    InitialTargets <- MCTargets
    ToolVariants <- MCOneVariant
    BuildSignatures <- MCBuilds
    PreSignatures <- MCPre
    FuncSignatures <- MCFunc
    p1 = p1
    p2 = p2
    v1 = v1
    v2 = v2
    b1 = b1
    b2 = b2
    q1 = q1
    f1 = f1
    f2 = f2
INVARIANTS TypeOK IInv TargetsResolvedBeforeBuild IneffectiveMarkNamesItsAttempt ExplorationIsGatedBeforeStall
CHECK_DEADLOCK FALSE
