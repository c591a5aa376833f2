SPECIFICATION FairSpec
CONSTANTS
    Dispatches = {d1}
    Calls = {c1, c2}
    Wanted = {"in_progress"}
    Addressed = {d1}
    Connections = 2
PROPERTY CompletionReturns
