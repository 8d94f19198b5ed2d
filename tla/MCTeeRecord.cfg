SPECIFICATION FairSpec
CONSTANTS
    Tee = {"t1", "t2"}
    None = None
    Role <- MCRole
    Name = {"a", "b"}
    Announced <- MCAnnounced
    MaxMoves = 2
    MaxFails = 1
INVARIANT AnswerAttributed
PROPERTY Converges
