SPECIFICATION Spec
CONSTANTS
    Groups <- MCGroups
    GroupClass <- MCGroupClass
    PrintedAs <- MCPrintedAs
    Offers <- MCOffers
    Retries = 1
    Sites <- MCSites
    Asns = {"AS1", "AS2"}
    ByAsn <- MCByAsn
INVARIANT ReachableMeansAnyProbe
CHECK_DEADLOCK FALSE
