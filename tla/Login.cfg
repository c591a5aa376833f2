SPECIFICATION FairSpec
CONSTANTS
    open = open
    trusted = trusted
    banned = banned
    email = email
    phone = phone
    user = user
    Identifiers = {email, phone}
    AccountOf <- MCAccountOf
    Ips = {open, trusted, banned}
    Whitelist = {trusted}
    Blacklist = {banned}
    Calls = {c1, c2}
    MaxPerMinute = 1
    MaxAttempts = 3
    None = None
    MaxRequests <- MCRequests
    MaxFaults = 1
INVARIANTS
    TypeOK
    GuessesBounded
    ExpiryLostByFault
    CountedByOutcome
PROPERTY LimitsEnd
CHECK_DEADLOCK FALSE
