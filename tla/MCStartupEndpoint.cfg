SPECIFICATION Spec
CONSTANTS
    Tee = {"t1"}
    Account = {"a1"}
    NoAccount = "none"
    Endpoint = {"", "e1"}
    NoEndpoint = ""
    Input <- MCSkip
    Unit = 2
    Decl0 = {2}
    Balance = 1
    MaxKeys = 1
    MaxFaults = 0
    MaxCommands = 0
INVARIANT
    SkippedEndpointKept
CHECK_DEADLOCK FALSE
