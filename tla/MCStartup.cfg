SPECIFICATION Spec
CONSTANTS
    Tee = {"t1", "t2"}
    Account = {"a1", "a2"}
    NoAccount = ""
    Endpoint = {"", "e1", "e2"}
    NoEndpoint = ""
    Input <- MCInput
    Unit = 2
    Decl0 = {2, 3, 5}
    Balance = 3
    MaxKeys = 3
    MaxFaults = 2
    MaxCommands = 2
INVARIANTS
    KeyAgrees
    CleanStart
    AsConfigured
    PaidOnce
CHECK_DEADLOCK FALSE
