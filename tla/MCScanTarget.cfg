SPECIFICATION FairSpec
CONSTANTS
    Groups <- MCGroups
    GroupClass <- MCGroupClass
    PrintedAs <- MCPrintedAs
    Offers <- MCOffers
    Retries = 2
    Sites <- MCSites
    Asns = {"AS1", "AS2"}
    ByAsn <- MCByAsn
INVARIANTS
    ReachabilityIsTrue
    CapabilityIsReal
    BestOfProbes
    MomentaryTimeoutForgiven
    TransientIsExhausted
    GapNoteIsTrue
    HostingTagIsTrue
    ScanInv
PROPERTY ScanEnds
CHECK_DEADLOCK FALSE
