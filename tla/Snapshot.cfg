SPECIFICATION FairSpec
CONSTANTS
    Claims = {c1, c2}
    RefOnly = {c2}
    Env = {"delete", "timeout", "forbidden", "nosweep"}
    MaxRestarts = 1
INVARIANTS SourceStays
PROPERTY FinalizerNotLeftBehind
CHECK_DEADLOCK FALSE
