SPECIFICATION Spec
CONSTANTS
    None = None
    Request = {r1, r2, r3}
    MaxSignals = 2
INVARIANTS TypeOK RequestsFindTheHub RequestsFindTheDatabase
PROPERTIES SignalEndsProcess
CHECK_DEADLOCK FALSE
