SPECIFICATION Spec
CONSTANTS
    Tags = 3
    Replica = {"r1", "r2"}
    Kinds = {"update", "removal"}
INVARIANT SameMembers
CHECK_DEADLOCK FALSE
