SPECIFICATION FairSpec
CONSTANTS
    Nodes = {n1, n2}
    Home = n1
    Env = {"retain", "back", "userDelete", "attach", "errors"}
    MaxChanges = 3
    MaxRestarts = 1
INVARIANTS NothingOrphaned RetainKept AttachedNotDeleted
PROPERTY EventuallyDeleted
CHECK_DEADLOCK FALSE
