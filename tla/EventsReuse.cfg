SPECIFICATION Spec
CONSTANTS
    Thread = {t1, t2}
    Fd = {f1}
    Item = {i1, i2, i3}
    None = none
    FirstEvents = {{}, {"w"}}
    SetMax = 1
    Refusals = {FALSE}
SYMMETRY Symmetry
INVARIANTS
    ArmedHasItem
    ArmedIsWatched
