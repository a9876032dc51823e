SPECIFICATION FairSpec
CONSTANTS
    s1 = s1
    s2 = s2
    l1 = l1
    l2 = l2
    k1 = k1
    Segs = {s1, s2}
    Labels = {l1, l2}
    Classes = {k1}
    LabelOf <- OneLabel
    UIDs = {1, 2}
    Values = {0, 1}
    Env = {"classes", "segments", "users", "values", "errors"}
    MaxChanges = 2
CONSTRAINT Followed
INVARIANTS TypeOK ItemsComplete
PROPERTY EventuallyConverged
CHECK_DEADLOCK FALSE
