SPECIFICATION FairSpec
CONSTANTS
    Nodes = {"n1", "n2"}
    Values = {"a", "b"}
    MaxChanges = 2
INVARIANT TypeOK
PROPERTIES ImplementsInformer EventuallyExact
CHECK_DEADLOCK FALSE
