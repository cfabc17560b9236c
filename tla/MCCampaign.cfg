SPECIFICATION Spec
CONSTANTS
    N = 3
    MaxFaults = 2
    MaxLines = 2
    MaxFills = 1
    Invocations <- MCInvocations
INVARIANTS
    NeverStuck
    NoDuplicateRows
    HeaderOnce
    NoRescan
    RunComplete
    AuditLossBounded
    CampaignInv
    AuditInv
PROPERTIES
    StepsRunOut
    ImplementsCensus
