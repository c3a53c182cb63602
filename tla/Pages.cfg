CONSTANTS
    x1 = x1
    x2 = x2
    PageNames <- MCPageNames
    Subjects <- MCSubjects
    MaxWrites = 1
    Slots = {1, 2}
SPECIFICATION FairSpec
INVARIANTS TypeOK StaleOnlyIfOvertaken BannerTellsOutcome PartsAgree NoDoubleSubmit OnlyCasePagesGoDown
PROPERTY SpinnersStop
CHECK_DEADLOCK FALSE
