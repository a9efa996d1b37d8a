SPECIFICATION Spec
CONSTANTS
    Slot = {1, 2}
    Client = {c1, c2}
    None = none
    Box = 2
    MaxLines = 1
INVARIANT
    MailSeen
PROPERTY InOrder
CHECK_DEADLOCK FALSE
