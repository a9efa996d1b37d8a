SPECIFICATION Spec
CONSTANTS
    Thread = {t1}
    Fd = {f1, f2}
    Item = {i1, i2}
    None = none
    Default = 2
    Timeout = {1}
    Wants = {TRUE, FALSE}
SYMMETRY Symmetry
INVARIANTS
    ItemsOwned
    TimeoutsAreItsOwn
PROPERTIES
    AsAsked
    WaitsWithItem
