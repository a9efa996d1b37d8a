SPECIFICATION HTSpec
CONSTANTS
    Timer = {t1, t2, t3, t4, t5, t6, t7}
    Interval = {0, 1, 2}
    Capacity = 6
    Restart = FALSE
    MaxTime = 2
SYMMETRY Symmetry
PROPERTY ImplementsTimers
