SPECIFICATION Spec
CONSTANTS
    Parties <- MCParties
    Counts = {2, 3}
    MaxU32 = 1023
    Entities = {1007, 2001}
    Sanctioned = {1007}
    Amounts = {0, 9999, 10000, 99999, 100000}
INVARIANTS OverlapsAreShared LevelWithinScores
