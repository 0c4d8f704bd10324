SPECIFICATION Spec
INVARIANT
    NoPrefixWhenNotNeeded
CHECK_DEADLOCK FALSE
