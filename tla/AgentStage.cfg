SPECIFICATION Spec
CONSTANTS
    MaxEvents = 5
    k1 = k1
    k2 = k2
    Collector <- MCCollector
    Lines <- MCLines
    MaxLines = 3
    PipeSize = 1
    QueueSize = 1
INVARIANTS ReadyIsBacked SealedIsWhole FilesArePrefixes ProgressIsTrue CapturedAlone
PROPERTY SuperviseReturns
CHECK_DEADLOCK FALSE
