SPECIFICATION Spec
INVARIANT PassedOnce
CHECK_DEADLOCK FALSE
