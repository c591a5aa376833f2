SPECIFICATION FairSpec
CONSTANTS
    Refs = {r1}
    Calls = {c1, c2}
    VerifyRetries = 3
    RefundRetries = 2
    MaxRefunds = 2
INVARIANTS
    TypeOK
    RefundOnlyCharged
    CreatedOnce
    AnswerIsReal
    Consistent
PROPERTIES
    LedgerSpec
    CallsFinish
