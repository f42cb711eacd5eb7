SPECIFICATION Spec
INVARIANTS
    ServerErrorKept
CHECK_DEADLOCK FALSE
