\* Behind an open quote the operator gives up at MaxLines lines about a host.
CHECK_DEADLOCK FALSE
SPECIFICATION OperatorSpec
CONSTANTS
    N = 3
    MaxFaults = 1
    MaxLines = 2
    MaxFills = 1
    Invocations <- MCResumeOnly
INVARIANTS
    AuditLinesUnique
    LinesInv
PROPERTIES
    RunTerminates
    EventuallyAllRecorded
