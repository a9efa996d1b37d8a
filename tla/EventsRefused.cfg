SPECIFICATION Spec
CONSTANTS
    Thread = {t1, t2}
    Fd = {f1, f2}
    Item = {i1, i2}
    None = none
    FirstEvents = {{}}
    SetMax = 2
    Refusals = {TRUE, FALSE}
SYMMETRY Symmetry
INVARIANTS
    MaskIsKernel
    WaitersArmed
    EventReported
PROPERTY WakesItsWaiter
