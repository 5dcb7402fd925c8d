SPECIFICATION Spec
CONSTANTS
    Only = {"T1", "T2", "T2b", "T3", "T10", "T6"}
    SSH_RETRIES = 2
    SOAK_N = 2
    READ_N = 2
    CHUNK = 1
    Beats = {2}
    STEP = 2
CHECK_DEADLOCK FALSE
INVARIANT NoMismatchFromTransport
