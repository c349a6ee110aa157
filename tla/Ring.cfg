SPECIFICATION FairSpec
CONSTANTS
    Dev <- Four
    First = 0
    Target <- Clockwise
    Increment = 2
    CountRange = 256
INVARIANTS
    OneToken
PROPERTIES
    GoesRound
