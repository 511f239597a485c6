SPECIFICATION Spec
CONSTANTS
    m1 = m1
    m2 = m2
    Workflows = {"parallelScope"}
    Code <- AllPrograms
    Flags = {"a", "b"}
    Counters = {"c"}
    Lengths <- CollectionLengths
    Messages = {m1, m2}
    NameOf <- MessageNames
    Carrying = {m1}
    Failures <- WorkerFailures
    Operator <- OperatorCommands
INVARIANT NoGhostJobs
CHECK_DEADLOCK FALSE
