SPECIFICATION FairSpec
CONSTANTS
    Dispatches = {d1}
    Calls = {c1, c2}
    Wanted = {"in_progress"}
    Addressed = {}
    Connections = 3
PROPERTY CallsFinish
