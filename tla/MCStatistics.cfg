SPECIFICATION Spec
CONSTANTS
    ZNum = 23
    ZDen = 6
    Grid = 20
    MaxDiscordant = 28
    MaxConcordant = 4
INVARIANTS
    IntervalIsScoreTest
    ExactIsTwoSided
    TestsAgree
PROPERTY EvidenceCounts
CHECK_DEADLOCK FALSE
