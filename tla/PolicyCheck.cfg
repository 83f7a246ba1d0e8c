SPECIFICATION Spec
CHECK_DEADLOCK FALSE
INVARIANTS Sound Complete
