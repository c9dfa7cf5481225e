SPECIFICATION Spec
CONSTANT Rounds = 2
INVARIANT ExitsOnlyOnError
CHECK_DEADLOCK FALSE
