SPECIFICATION Spec
CONSTANTS
    m1 = m1
    m2 = m2
    Workflows = {"poll"}
    Code <- AllPrograms
    Flags = {"a", "b"}
    Counters = {"c"}
    Lengths <- CollectionLengths
    Messages = {m1, m2}
    NameOf <- MessageNames
    Carrying = {m1}
    Failures <- WorkerFailures
    Operator <- OperatorCommands
INVARIANT WaitsHaveWakers
CHECK_DEADLOCK FALSE
