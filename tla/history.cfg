SPECIFICATION HistorySpec
CONSTANTS
    Ranges = {r1, r2}
    First = r1
    Pages = 2
    PageWorkers = {w1, w2}
    MaxAttempts = 2
    MaxManual = 1
    MaxHistoryTrouble = 1
CONSTRAINT ManualAlone
SYMMETRY HistSymmetry
CHECK_DEADLOCK FALSE
INVARIANTS
    ImportedIsProjected

    
