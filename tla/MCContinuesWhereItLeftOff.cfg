SPECIFICATION Spec
CONSTANTS
    N = 2
    MaxFaults = 0
    MaxLines = 2
    MaxFills = 1
    Invocations <- MCInvocations
INVARIANT ContinuesWhereItLeftOff
