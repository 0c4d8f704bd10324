SPECIFICATION Spec
INVARIANTS
    HighByteNeverUnderRex
    ReadsBack
CHECK_DEADLOCK FALSE
