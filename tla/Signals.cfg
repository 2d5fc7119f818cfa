CONSTANTS
  MaxConns = 4
  MaxDepth = 3
SPECIFICATION Spec
INVARIANTS IndexInside FlagOfOutermost NoHolesWhenIdle
PROPERTY ImplementsMulticast
CHECK_DEADLOCK FALSE
