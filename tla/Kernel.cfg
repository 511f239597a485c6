SPECIFICATION FairSpec
CONSTANTS
    m1 = m1
    m2 = m2
    Workflows = {"boundary", "nested", "retry", "scope", "cycle", "calls",
                 "inclusive", "openEnd", "crossed", "skippedOpen",
                 "foreignJoin", "scopeInBranch", "noWayOut"}
    Code <- AllPrograms
    Flags = {"a", "b"}
    Counters = {"c"}
    Lengths <- CollectionLengths
    Messages = {m1, m2}
    NameOf <- MessageNames
    Carrying = {m1}
    Failures <- WorkerFailures
    Operator <- OperatorCommands
INVARIANTS TypeOK NoGhostJobs WaitsHaveWakers EndsClean TokensConserved
           NothingRefused StacksAsVerified SharedPrefix WithinLimits
           EachWaitTakesOne ScopeIsAtomic CycleIsBounded EveryElementRuns
PROPERTIES NoLostUpdate EndedStaysEnded NeverHangs
CHECK_DEADLOCK FALSE
