SPECIFICATION Spec
CONSTANTS
    Refs = {r1}
    Calls = {c1, c2}
    VerifyRetries = 3
    RefundRetries = 2
    MaxRefunds = 2
PROPERTY OnlySuccessfulRefunded
