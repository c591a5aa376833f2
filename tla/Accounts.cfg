SPECIFICATION Spec
CONSTANTS
    Calls = {c1, c2}
    Emails = {e1}
    Phones = {p1}
    Types = {finger, face}
    None = None
    Mixes <- MCMixes
    MaxCalls = 3
    MaxNow = 2
SYMMETRY Interchangeable
INVARIANTS
    TypeOK
    OneRowPerEmail
    UsedUpRefused
    DeletedIsFrozen
    HashIsListed
PROPERTIES
    OnlyDeletionUndoes
    SecretWhileOn
CHECK_DEADLOCK FALSE
