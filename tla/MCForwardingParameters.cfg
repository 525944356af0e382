SPECIFICATION Spec
CONSTANT Passable <- MCPassable
INVARIANT RetryKeepsParameters
CHECK_DEADLOCK FALSE
