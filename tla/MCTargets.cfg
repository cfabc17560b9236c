SPECIFICATION Spec
CONSTANTS
    Names <- MCNames
    Www <- MCWww
    Lists <- MCLists
    Lower <- MCLower
    Files <- MCFiles
    Variants <- MCVariants
    Results <- MCResults
INVARIANTS
    HostsDistinct
    AllExpanded
    OneOwner
    CaseBlindDistinct
    RowsCovered
    RollupsInv
    EndpointRollupsAddUp
    AgenciesAddUp
    DomainViewConsistent
PROPERTY PartialUnderstates
CHECK_DEADLOCK FALSE
