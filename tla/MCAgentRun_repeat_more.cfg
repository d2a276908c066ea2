SPECIFICATION Spec
CONSTANTS
    MaxSteps = 7
    MaxTools = 6
    MaxBuilds = 6
    FocusedStep = 1
    ActionOnlyStep = 2
    StallStep = 3
    BatchBound = 1
    HasPrebuild = FALSE
    HasFunctional = TRUE
    Paths <- MCPaths
    SourcePaths <- MCSourcePaths
    InitialTargets <- MCTargets
    ToolVariants <- MCTwoVariants
    BuildSignatures <- MCBuilds
    PreSignatures <- MCPre
    FuncSignatures <- MCTwoFunc
    p1 = p1
    p2 = p2
    v1 = v1
    v2 = v2
    b1 = b1
    b2 = b2
    q1 = q1
    f1 = f1
    f2 = f2
INVARIANTS IInv RepeatFits
CHECK_DEADLOCK FALSE
