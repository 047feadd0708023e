CONSTANTS
    SpiRequests <- OneSpi
    ControlWords <- OneControl
SPECIFICATION Spec
CHECK_DEADLOCK FALSE
INVARIANT SpiCoherent
