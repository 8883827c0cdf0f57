SPECIFICATION VerifierSpec
CONSTANTS
    FailToPass <- MCFailToPass
    PassToPass <- MCPassToPass
    TestLines <- MCTestLines
    LateLines <- MCLateLines
    Interruptions <- MCInterruptions
    Prints <- MCPrints
INVARIANTS VerdictIsSound HostAgrees ParityHolds
CHECK_DEADLOCK FALSE
