CONSTANTS
    Argvs <- MCArgvs
    PortMin = 10
    PortMax = 99
    DefaultPort = 80
    DefaultExecs = 1
    DefaultSerial = 1
    IntBits = 8
    LongBits = 12
    Null = null
    Indeterminate = indeterminate
    null = null
    indeterminate = indeterminate
SPECIFICATION Spec
\* process_args returns: a state with result set has no successor.
CHECK_DEADLOCK FALSE
INVARIANT TypeOK
