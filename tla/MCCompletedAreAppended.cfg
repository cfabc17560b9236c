SPECIFICATION Spec
CONSTANTS
    N = 2
    MaxFaults = 1
    MaxLines = 2
    MaxFills = 0
    Invocations <- MCInvocations
PROPERTY CompletedAreAppended
