SPECIFICATION FairSpec
CONSTANTS
    Claims = {c1, c2}
    RefOnly = {c2}
    Env = {"timeout", "delete"}
    MaxRestarts = 1
INVARIANTS SourceStays
PROPERTY SourceReleased
CHECK_DEADLOCK FALSE
