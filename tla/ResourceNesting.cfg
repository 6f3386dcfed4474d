SPECIFICATION Spec
CONSTANTS
    None = None
    Owner = {o1, o2}
    Key = {1, 2}
    MaxDepth = 2
INVARIANTS
    NestedBlocksReenter
CHECK_DEADLOCK FALSE
