SPECIFICATION Spec
CONSTANTS
    Dispatches = {d1}
    Calls = {c1, c2}
    Wanted = {"in_progress", "payment_pending", "payment_completed", "other"}
    Addressed = {d1}
    Connections = 3
SYMMETRY CallSymmetry
INVARIANTS
    TypeOK
    ReferenceHasPayment
    VerifiedIsPaid
    CompletedOnce
    LinkIsPayable
PROPERTIES
    PublishedTogether
    OnlyStaleUpdateErases
