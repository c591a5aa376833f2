SPECIFICATION Spec
CONSTANTS
    Calls = {c1}
    Emails = {e1}
    Phones = {p1}
    Types = {finger, face}
    None = None
    Mixes <- MCMixes
    MaxCalls = 3
    MaxNow = 2
PROPERTY OldTokenInvalidated
CHECK_DEADLOCK FALSE
